------------------------------- MODULE Config -------------------------------
(***************************************************************************)
(* From the SRC files of a checkout to the declarations that the program   *)
(* runs on (src/src/config.rs evaluate, src/src/ir.rs compile and          *)
(* src/src/validate.rs), and the look-ups made in them at run time.        *)
(*                                                                         *)
(* A package is the path of its directory and a label is <<package, name>>.*)
(* The code compares "{package}:{name}" texts: names with a colon in them, *)
(* for which two labels may be the same text, are left out.                *)
(* What a SRC file declares is its content's set of rules; a declaration   *)
(* is a rule with the package it stands in. A subpath that is not given    *)
(* is <<>>, and the empty string splits into <<"">>; an action that is not *)
(* given is {}. Texts in which nothing is looked up are left out: refs,    *)
(* model ids, credentials, prompt variables, messages. A SRC file that     *)
(* cannot be evaluated, or that has the very same rule twice, is not here. *)
(***************************************************************************)
EXTENDS Trees, FiniteSets

CONSTANTS
  Slug,     \* well-formed owner/name slugs
  Sha,      \* full commit SHAs
  Runtime,  \* harness kinds
  Provider, \* known providers
  Drives    \* <<k, p>>: a harness of kind k drives a model of provider p

ASSUME ConfigAssumption == Drives \subseteq Runtime \X Provider

-----------------------------------------------------------------------------
(* config.rs *)

IsMirror(x) == x.kind \in {"replace", "move", "copy", "rewrite_message"}
IsTip(x) == x.kind \in {"apply_patch", "agent_transform"}

Undiscovered == {".git", "target"}
DiscoverSrcFiles(t) ==
  {p \in Marked(t, "SRC") : \A i \in 1..(Len(p) - 1) : p[i] \notin Undiscovered}
PackageLabel(p) == Front(p)
EvalSrc(t, p) == {[package |-> PackageLabel(p), rule |-> r] : r \in t[p].rules}
Evaluate(t) == UNION {EvalSrc(t, p) : p \in DiscoverSrcFiles(t)}

-----------------------------------------------------------------------------
(* ir.rs and validate.rs: what a declaration must be in itself. *)

Of(decls, kinds) == {d \in decls : d.rule.kind \in kinds}
Label(d) == <<d.package, d.rule.name>>

IsRelPath(p) == \A i \in DOMAIN p : p[i] \notin {"", ".", ".."}
Dest(d) == d.package \o d.rule.into
From(d) == d.package \o d.rule.from_path
Into(d) == IsRelPath(d.rule.into) /\ Dest(d) # <<>>

Transforms(d) == Range(d.rule.transforms)
TransformChecked(x) ==
  CASE x.kind \in {"move", "copy"} -> IsRelPath(x.src) /\ IsRelPath(x.dst)
    [] x.kind \in {"replace", "agent_transform"} -> \A g \in x.paths : IsRelPath(g)
    [] x.kind = "apply_patch" -> IsRelPath(x.file)
    [] OTHER -> TRUE
\* The pipeline of the Ir: what runs per commit, then what runs on the tip.
Lowered(rule) ==
  SelectSeq(rule.transforms, IsMirror) \o SelectSeq(rule.transforms, IsTip)

ImportChecked(d) ==
  /\ d.rule.repo \in Slug /\ Into(d)
  /\ \A p \in d.rule.patches : IsRelPath(p)
  /\ \A x \in Transforms(d) : TransformChecked(x)
VendorChecked(d) == d.rule.repo \in Slug /\ d.rule.commit \in Sha /\ Into(d)
ExportChecked(d) ==
  /\ d.rule.repo \in Slug
  /\ IsRelPath(d.rule.from_path) /\ From(d) # <<>>
  /\ \A x \in Transforms(d) : TransformChecked(x) /\ IsMirror(x)
HarnessChecked(d) == d.rule.runtime \in Runtime
ModelChecked(d) == d.rule.provider \in Provider
TemplateChecked(d) == IsRelPath(d.rule.src)
KnownIssueActions == {"opened", "edited", "reopened", "labeled", "assigned"}
OnIssueChecked(d) == d.rule.repo \in Slug /\ d.rule.action \subseteq KnownIssueActions

DeclChecked(d) ==
  CASE d.rule.kind = "github_import" -> ImportChecked(d)
    [] d.rule.kind = "git_repository" -> VendorChecked(d)
    [] d.rule.kind = "github_export" -> ExportChecked(d)
    [] d.rule.kind = "harness" -> HarnessChecked(d)
    [] d.rule.kind = "model" -> ModelChecked(d)
    [] d.rule.kind = "prompt_template" -> TemplateChecked(d)
    [] d.rule.kind = "on_issue" -> OnIssueChecked(d)
    [] OTHER -> TRUE

-----------------------------------------------------------------------------
(* ir.rs and validate.rs: what declarations must be to each other. *)

OneMonorepo(decls) ==
  \E d \in decls : Of(decls, {"monorepo"}) = {d} /\ d.package = <<>>

Candidates(decls, kind, label) == {d \in Of(decls, {kind}) : Label(d) = label}
ResolveLabel(decls, kind, label) == Candidates(decls, kind, label) # {}

\* Faulty variant: the pairing of harness and provider is not looked at.
AgentNamed(decls, a) ==
  ResolveLabel(decls, "harness", a.rule.harness) /\ ResolveLabel(decls, "model", a.rule.model)
AgentResolves(decls, a) ==
  LET harnesses == Candidates(decls, "harness", a.rule.harness)
      models == Candidates(decls, "model", a.rule.model)
  IN /\ harnesses # {} /\ models # {}
     /\ \A h \in harnesses, m \in models : <<h.rule.runtime, m.rule.provider>> \in Drives

\* The agents to run, each with a prompt: of an import, of a reaction.
Calls(d) ==
  IF d.rule.kind = "on_issue" THEN {d.rule}
  ELSE IF d.rule.kind = "github_import" THEN {x \in Transforms(d) : x.kind = "agent_transform"}
  ELSE {}
CallResolves(decls, c) ==
  ResolveLabel(decls, "agent", c.agent) /\ ResolveLabel(decls, "prompt_template", c.template)

UniqueNames(decls) ==
  \A c, d \in decls \ Of(decls, {"monorepo"}) : Label(c) = Label(d) => c = d

Targets(decls) == Of(decls, {"github_import", "git_repository"})
\* Faulty variant: only equal paths overlap.
PathsEqual(a, b) == a = b
PathsOverlap(a, b) == IsPrefix(a, b) \/ IsPrefix(b, a)
DestinationsApart(decls) ==
  \A c, d \in Targets(decls) : PathsOverlap(Dest(c), Dest(d)) => c = d

\* The declarations are lowered without a diagnostic.
Compile(decls) ==
  /\ OneMonorepo(decls)
  /\ \A d \in decls : DeclChecked(d)
  /\ \A a \in Of(decls, {"agent"}) : AgentResolves(decls, a)
  /\ \A d \in decls : \A c \in Calls(d) : CallResolves(decls, c)
  /\ UniqueNames(decls)
  /\ DestinationsApart(decls)

-----------------------------------------------------------------------------
(* reconcile.rs and react.rs: what an agent's run is made of, looked up when it begins. *)

Invocations(decls, c) ==
  {[agent |-> a, harness |-> h, model |-> m, template |-> t] :
     a \in Candidates(decls, "agent", c.agent),
     h \in Of(decls, {"harness"}), m \in Of(decls, {"model"}),
     t \in Candidates(decls, "prompt_template", c.template)}
ResolveAgentInvocation(decls, c) ==
  {i \in Invocations(decls, c) :
     Label(i.harness) = i.agent.rule.harness /\ Label(i.model) = i.agent.rule.model}
=============================================================================
