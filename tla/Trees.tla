------------------------------- MODULE Trees -------------------------------
(***************************************************************************)
(* Git trees and what the engine makes of them (src/src/engine.rs): an     *)
(* upstream tree is transformed and put into a directory of the monorepo.  *)
(*                                                                         *)
(* A path is the sequence of its components. A tree is a function from the *)
(* paths of its files to their contents, in which no file is below another *)
(* one; directories are there as long as they hold a file. An entry of a   *)
(* tree is a tree too, a single file being the function on <<>>.           *)
(***************************************************************************)
EXTENDS Naturals, Sequences, SequencesExt

CONSTANTS
  Name, \* of files and directories
  Glob  \* <<g, p>>: glob g matches path p

ASSUME TreesAssumption == {"SRC", "ORIG_SRC"} \subseteq Name

Path == Seq(Name)
\* A function on paths.
OnPaths(t) == t = [p \in DOMAIN t |-> t[p]] /\ DOMAIN t \subseteq Path

Nothing == [p \in {} |-> p]
Single(p, content) == [q \in {p} |-> content]
\* Of two trees, what is at a path in the first one, or else in the second.
Overlay(s, t) == [p \in DOMAIN s \cup DOMAIN t |-> IF p \in DOMAIN s THEN s[p] ELSE t[p]]
IsTree(t) == \A p, q \in DOMAIN t : IsPrefix(p, q) => p = q

Below(d, p) == SubSeq(p, Len(d) + 1, Len(p))
\* The entry at d: Nothing when there is none.
EntryAt(t, d) ==
  LET paths == {p \in DOMAIN t : IsPrefix(d, p)}
  IN [q \in {Below(d, p) : p \in paths} |-> t[d \o q]]
Place(d, e) == [p \in {d \o q : q \in DOMAIN e} |-> e[Below(d, p)]]

\* Faulty variant: a file in the way of a directory stays.
ClearedBelow(t, d) == Restrict(t, {p \in DOMAIN t : ~IsPrefix(d, p)})
\* Without what is at d, and without a file in the place of a directory above d.
Cleared(t, d) ==
  Restrict(t, {p \in DOMAIN t : ~IsPrefix(d, p) /\ ~IsPrefix(p, d)})

\* Faulty variant: what was at dest stays where nothing replaces it.
SpliceMerged(base, dest, sub) ==
  LET kept == {p \in DOMAIN base : \A q \in DOMAIN sub :
                 ~IsPrefix(p, dest \o q) /\ ~IsPrefix(dest \o q, p)}
  IN Overlay(Place(dest, sub), Restrict(base, kept))
SpliceTree(base, dest, sub) == Overlay(Place(dest, sub), Cleared(base, dest))
SetPath(t, rel, entry) == SpliceTree(t, rel, entry)

-----------------------------------------------------------------------------
(* Transforms. Each has the set of its results: one tree, or none when it  *)
(* fails. Of a content they see its text, the set of its words.            *)

MoveOrCopy(t, x) ==
  LET entry == EntryAt(t, x.src)
      there == SetPath(t, x.dst, entry)
  IN IF DOMAIN entry = {} THEN {}
     ELSE IF x.kind = "move" /\ x.src # x.dst THEN {SetPath(there, x.src, Nothing)}
     ELSE {there}

Replaced(text, x) ==
  IF x.before \in text THEN (text \ {x.before}) \cup {x.after} ELSE text
Replace(t, x) ==
  {[p \in DOMAIN t |-> IF \E g \in x.paths : <<g, p>> \in Glob
                       THEN [t[p] EXCEPT !.text = Replaced(@, x)] ELSE t[p]]}

\* Of a pipeline, what changes trees; the rest is for messages and for the tip.
Apply(t, x) == IF x.kind \in {"move", "copy"} THEN MoveOrCopy(t, x)
               ELSE IF x.kind = "replace" THEN Replace(t, x)
               ELSE {t}
ApplyStructural(t, transforms) ==
  FoldLeft(LAMBDA T, x : UNION {Apply(u, x) : u \in T}, {t}, transforms)

-----------------------------------------------------------------------------
(* Package markers and metadata. *)

Sibling(p, name) == Append(Front(p), name)
Marked(t, name) == {p \in DOMAIN t : Last(p) = name}

\* An upstream's SRC files, at any depth, become ORIG_SRC; whatever was there is lost.
RenameSrcMarkers(t) ==
  LET lost == {p \in DOMAIN t : \E m \in Marked(t, "SRC") : IsPrefix(Sibling(m, "ORIG_SRC"), p)}
      kept == DOMAIN t \ (Marked(t, "SRC") \cup lost)
      renamed == {Sibling(m, "ORIG_SRC") : m \in Marked(t, "SRC") \ lost}
  IN [p \in renamed \cup kept |-> IF p \in renamed THEN t[Sibling(p, "SRC")] ELSE t[p]]

\* The way back: an entry SRC that is there already stays.
RestoreSrcMarkers(t) ==
  LET free == {p \in Marked(t, "ORIG_SRC") :
                 DOMAIN EntryAt(t, Sibling(p, "SRC")) = {}}
      restored == {Sibling(p, "SRC") : p \in free}
      kept == DOMAIN t \ Marked(t, "ORIG_SRC")
  IN [p \in restored \cup kept |-> IF p \in kept THEN t[p] ELSE t[Sibling(p, "ORIG_SRC")]]

Reserved == {"SRC", "patches"}
\* Paths of a destination at or below its reserved entries.
Metadata(t) == {p \in DOMAIN t : p # <<>> /\ p[1] \in Reserved}

\* Faulty variant: upstream's entries win.
OriginFirst(base, dest, origin) ==
  LET existing == EntryAt(base, dest)
      names == {p[1] : p \in Metadata(origin)}
  IN Overlay(origin, Restrict(existing, {p \in Metadata(existing) : p[1] \notin names}))
PreserveMetadata(base, dest, origin) ==
  LET existing == EntryAt(base, dest)
      names == {p[1] : p \in Metadata(existing)}
  IN Overlay(Restrict(existing, Metadata(existing)),
             Restrict(origin, {p \in DOMAIN origin : p[1] \notin names}))

\* What a destination receives of an upstream tree.
\* Faulty variant: upstream's SRC files land as they are.
ImportedAsIs(origin, transforms) == ApplyStructural(origin, transforms)
Imported(origin, transforms) == ApplyStructural(RenameSrcMarkers(origin), transforms)

ReplayTree(base, dest, origin, transforms) ==
  {SpliceTree(base, dest, PreserveMetadata(base, dest, o)) : o \in Imported(origin, transforms)}

\* What a directory of the monorepo ships as.
ExportedTree(t, transforms) ==
  {RestoreSrcMarkers(Restrict(u, DOMAIN u \ Metadata(u))) : u \in ApplyStructural(t, transforms)}
=============================================================================
