------------------------------- MODULE Layout -------------------------------
(***************************************************************************)
(* The monorepo's branch as a tree in which people and upstreams meet:     *)
(* people declare, in SRC files of that tree, what is put into which       *)
(* directory of it, and every import and vendoring replaces such a         *)
(* directory, the SRC files of the packages in it among what is replaced   *)
(* or kept. Composes Trees (what a replacement does) and Config (what is   *)
(* declared); histories are Monorepo's, an upstream only grows here.       *)
(***************************************************************************)
EXTENDS Config

CONSTANTS
  Repo,      \* upstream repositories
  Upstream,  \* the trees that the commits of each may have
  Package,   \* directories in which people keep a SRC file
  Offer,     \* the sets of rules they may write in each
  PatchFile, \* files they keep beside them
  MaxCommit, \* bound: commits of all upstreams
  MaxEdit    \* bound: changes people make

\* What the types of the program say of a rule: paths are sequences of names, those of
\* transforms with one name at least, and lowering drops and sorts transforms.
WellFormed(r) ==
  /\ r.kind \in {"github_import", "git_repository"} => r.into \in Path
  /\ r.kind = "github_import" =>
       /\ Lowered(r) \in Seq(Range(r.transforms))
       /\ \A x \in Range(r.transforms) : x.kind \in {"move", "copy"} =>
            {x.src, x.dst} \subseteq Path \ {<<>>}
IsContent(c) == c = [text |-> c.text, rules |-> c.rules] /\ \A r \in c.rules : WellFormed(r)
Sound(t) ==
  OnPaths(t) /\ IsTree(t) /\ <<>> \notin DOMAIN t /\ \A p \in DOMAIN t : IsContent(t[p])

ASSUME LayoutAssumption ==
  /\ Slug \subseteq Repo /\ Sha \subseteq Nat \ {0}
  /\ DOMAIN Upstream = Repo /\ \A r \in Repo : \A t \in Upstream[r] : Sound(t)
  /\ <<>> \in Package /\ Package \subseteq Path /\ PatchFile \subseteq Path \ {<<>>}
  /\ DOMAIN Offer = Package
  /\ \A pkg \in Package : \A rules \in Offer[pkg] : \A r \in rules : WellFormed(r)
  /\ MaxCommit \in Nat /\ MaxEdit \in Nat

VARIABLES
  tree,     \* the tip of the monorepo's branch
  upstream, \* the history of each repository, a sequence of trees
  ir,       \* the declarations a process has loaded, {} before it has
  at,       \* the newest commit <<repo, n>> a trailer on the branch has, by kind and destination
  written,  \* history: the files people have in the monorepo
  landed,   \* history: by destination, what people left of the imported tree, if nothing was
            \* put over it since
  edits

vars == <<tree, upstream, ir, at, written, landed, edits>>

Source(rules) == [text |-> {}, rules |-> rules]
PatchText == [text |-> {"patch"}, rules |-> {}]
SrcOf(pkg) == Append(pkg, "SRC")

TypeOK ==
  /\ Sound(tree)
  /\ OnPaths(written) /\ DOMAIN written \subseteq {SrcOf(p) : p \in Package} \cup PatchFile
  /\ \A p \in DOMAIN written : IsContent(written[p])
  /\ upstream = [r \in Repo |-> upstream[r]] /\ \A r \in Repo : upstream[r] \in Seq(Upstream[r])
  /\ ir = {} \/ Compile(ir)
  /\ \A d \in ir : d.package \in Path /\ WellFormed(d.rule)
  /\ \A k \in DOMAIN at : /\ k[2] \in Path /\ at[k][1] \in Repo
                          /\ at[k][2] \in 1..Len(upstream[at[k][1]])
  /\ \A d \in DOMAIN landed : d \in Path /\ Sound(landed[d])
  /\ edits \in 0..MaxEdit

\* A monorepo begins with its root package.
Init ==
  /\ \E rules \in Offer[<<>>] : written = Single(<<"SRC">>, Source(rules))
  /\ tree = written
  /\ upstream = [r \in Repo |-> <<>>]
  /\ ir = {} /\ at = Nothing /\ landed = Nothing /\ edits = 0

-----------------------------------------------------------------------------
(* Upstreams and people. *)

Commits(r) == Len(upstream[r])
UpstreamCommit(r) ==
  /\ FoldFunction(LAMBDA h, n : Len(h) + n, 0, upstream) < MaxCommit
  /\ \E t \in Upstream[r] : upstream' = [upstream EXCEPT ![r] = Append(@, t)]
  /\ UNCHANGED <<tree, ir, at, written, landed, edits>>

\* No other file is in the way of p.
HasRoom(p) == \A q \in DOMAIN tree : IsPrefix(q, p) \/ IsPrefix(p, q) => q = p

Write(p, content) ==
  /\ edits < MaxEdit /\ HasRoom(p) /\ (p \in DOMAIN written => written[p] # content)
  /\ tree' = Overlay(Single(p, content), tree)
  /\ written' = Overlay(Single(p, content), written)
  /\ edits' = edits + 1
  /\ UNCHANGED <<upstream, ir, at, landed>>
Withdraw(p) ==
  /\ edits < MaxEdit /\ p \in DOMAIN written /\ p # <<"SRC">>
  /\ tree' = Restrict(tree, DOMAIN tree \ {p})
  /\ written' = Restrict(written, DOMAIN written \ {p})
  /\ landed' = [d \in DOMAIN landed |->
                  Restrict(landed[d], {q \in DOMAIN landed[d] : d \o q # p})]
  /\ edits' = edits + 1
  /\ UNCHANGED <<upstream, ir, at>>
Edit ==
  \/ \E pkg \in Package : \E rules \in Offer[pkg] : Write(SrcOf(pkg), Source(rules))
  \/ \E p \in PatchFile : Write(p, PatchText)
  \/ \E p \in DOMAIN written : Withdraw(p)

-----------------------------------------------------------------------------
(* CapyFun, run in a checkout of the branch; the server keeps what it loaded. *)

Load ==
  /\ ir' = IF Compile(Evaluate(tree)) THEN Evaluate(tree) ELSE {}
  /\ UNCHANGED <<tree, upstream, at, written, landed, edits>>

Newest(key) == IF key \in DOMAIN at THEN at[key][2] ELSE 0
Key(d) == <<d.rule.kind, Dest(d)>>

\* The tree after the given commits have been replayed one by one.
Replayed(base, d, commits) ==
  FoldLeft(LAMBDA T, c : UNION {ReplayTree(b, Dest(d), c, Lowered(d.rule)) : b \in T}, {base}, commits)

\* What was put at dest is gone from wherever else it was.
Over(dest, content) ==
  Overlay(Single(dest, content),
          Restrict(landed, {x \in DOMAIN landed : ~IsPrefix(x, dest) /\ ~IsPrefix(dest, x)}))

ImportMirror(d) ==
  LET r == d.rule.repo
      new == SubSeq(upstream[r], Newest(Key(d)) + 1, Commits(r))
  IN /\ d.rule.kind = "github_import"
     /\ Key(d) \in DOMAIN at => at[Key(d)][1] = r
     /\ new # <<>>
     /\ tree' \in Replayed(tree, d, new)
     /\ at' = Overlay(Single(Key(d), <<r, Commits(r)>>), at)
     /\ \E t \in Imported(Last(new), Lowered(d.rule)) : landed' = Over(Dest(d), t)

\* A pin is the number of the commit, at most that of the newest one.
VendorSnapshot(d) ==
  LET r == d.rule.repo
      pin == d.rule.commit
  IN /\ d.rule.kind = "git_repository"
     /\ pin <= Commits(r)
     /\ Key(d) \in DOMAIN at => at[Key(d)] # <<r, pin>>
     /\ tree' \in ReplayTree(tree, Dest(d), upstream[r][pin], <<>>)
     /\ at' = Overlay(Single(Key(d), <<r, pin>>), at)
     /\ \E t \in Imported(upstream[r][pin], <<>>) : landed' = Over(Dest(d), t)

Reconcile(d) ==
  /\ ImportMirror(d) \/ VendorSnapshot(d)
  /\ UNCHANGED <<upstream, ir, written, edits>>

Next ==
  \/ \E r \in Repo : UpstreamCommit(r)
  \/ Edit
  \/ Load
  \/ \E d \in Targets(ir) : Reconcile(d)

Spec == Init /\ [][Next]_vars

-----------------------------------------------------------------------------
(* Properties. *)

IsMetadata(d, p) == IsPrefix(d, p) /\ Len(p) > Len(d) /\ p[Len(d) + 1] \in Reserved

(***************************************************************************)
(* A destination holds what its transforms make of the upstream commit it  *)
(* was last brought to and nothing besides, but CapyFun's own entries and  *)
(* what people wrote and deleted there since: no import or vendoring of    *)
(* another directory takes anything from it, adds to it or changes it      *)
(* (engine.rs replay_commit, vendor_snapshot, splice_tree).                *)
(***************************************************************************)
Own(d, t) == Restrict(t, {q \in DOMAIN t \ Metadata(t) : d \o q \notin DOMAIN written})
LandsWhole ==
  \A d \in DOMAIN landed : Own(d, EntryAt(tree, d)) = Own(d, landed[d])

(***************************************************************************)
(* Whatever upstreams have in their trees, the rules of the monorepo are   *)
(* rules people wrote where they stand, and SRC files and patches that     *)
(* people wrote stay, but for those deeper in a directory that something   *)
(* was put into, or in its way (engine.rs rename_src_markers and           *)
(* dest_subtree_preserving_metadata, config.rs discover_src_files).        *)
(***************************************************************************)
Buried(p) ==
  \E k \in DOMAIN at : (IsPrefix(k[2], p) \/ IsPrefix(p, k[2])) /\ ~IsMetadata(k[2], p)
MetadataIsPeoples ==
  /\ Evaluate(tree) \subseteq Evaluate(written)
  /\ \A p \in DOMAIN written : ~Buried(p) => p \in DOMAIN tree /\ tree[p] = written[p]

(***************************************************************************)
(* Targets that compile together can be reconciled in any order: each      *)
(* leaves the others what they would have found and made                   *)
(* (validate.rs check_destination_overlap for `capyfun reconcile`, which   *)
(* runs them one after the other, and for the server, which does not).     *)
(***************************************************************************)
Pipeline(d) == IF d.rule.kind = "github_import" THEN Lowered(d.rule) ELSE <<>>
Outcomes(d, T) ==
  UNION {ReplayTree(b, Dest(d), c, Pipeline(d)) : b \in T, c \in Range(upstream[d.rule.repo])}
Confluent ==
  \A c, d \in Targets(ir) :
    c # d => Outcomes(c, Outcomes(d, {tree})) = Outcomes(d, Outcomes(c, {tree}))

(***************************************************************************)
(* For every agent that declarations call, once they compile, the look-ups *)
(* at run time find one harness, one model that it can drive and one       *)
(* template (ir.rs compile for reconcile.rs resolve_agent_invocation and   *)
(* react.rs resolve_reaction_invocation, which run much later).            *)
(***************************************************************************)
AcceptedResolves ==
  \A d \in ir : \A c \in Calls(d) :
    \E i \in ResolveAgentInvocation(ir, c) :
      /\ ResolveAgentInvocation(ir, c) = {i}
      /\ <<i.harness.rule.runtime, i.model.rule.provider>> \in Drives
=============================================================================
