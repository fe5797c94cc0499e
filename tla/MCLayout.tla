------------------------------ MODULE MCLayout ------------------------------
(* One upstream with package markers and patches of its own, imported and  *)
(* vendored next to, into and above each other.                            *)
EXTENDS Layout

MCName == {"SRC", "ORIG_SRC", "patches", "ext", "src", "tools", "in", "in2", "out", "x", "v",
           "a", "p", "f"}
MCGlob == {<<<<"**">>, <<"out", "a">>>>, <<<<"**">>, <<"ORIG_SRC">>>>}

Text(w) == [text |-> {w}, rules |-> {}]
Agents == <<"tools">>

Import(name, into, transforms) ==
  [kind |-> "github_import", name |-> name, repo |-> "lib", into |-> into,
   patches |-> {}, transforms |-> transforms]
Vendor(name, into, pin) ==
  [kind |-> "git_repository", name |-> name, repo |-> "tool", into |-> into, commit |-> pin]
Call == [kind |-> "agent_transform", agent |-> <<Agents, "a">>,
         template |-> <<Agents, "t">>, paths |-> {<<"**">>}]
Move == [kind |-> "move", src |-> <<"src">>, dst |-> <<"out">>]
Reword == [kind |-> "replace", before |-> "old", after |-> "new", paths |-> {<<"**">>}]

Monorepo == [kind |-> "monorepo", name |-> "mono"]
Agent == [kind |-> "agent", name |-> "a", harness |-> <<Agents, "h">>, model |-> <<Agents, "m">>]
Harness == [kind |-> "harness", name |-> "h", runtime |-> "claude_code"]
Model(provider) == [kind |-> "model", name |-> "m", provider |-> provider]
Template == [kind |-> "prompt_template", name |-> "t", src |-> <<"t.tmpl">>]
React == [kind |-> "on_issue", name |-> "r", repo |-> "lib", action |-> {"opened"},
          agent |-> <<Agents, "a">>, template |-> <<Agents, "t">>]
Publish == [kind |-> "github_export", name |-> "e", repo |-> "tool",
            from_path |-> <<>>, transforms |-> <<Reword>>]

\* What upstreams would declare, were their SRC files read.
Rogue == [text |-> {"old"}, rules |-> {Monorepo}]
MCUpstream ==
  [lib |-> {<<"src", "a">> :> Text("old") @@ <<"SRC">> :> Rogue @@ <<"patches", "p">> :> Text("old"),
            <<"src", "SRC">> :> Rogue @@ <<"x">> :> Text("old") @@ <<"SRC", "SRC">> :> Rogue
               @@ <<"src", "ORIG_SRC", "SRC">> :> Rogue,
            <<"x">> :> Text("old")},
   tool |-> {<<"v", "SRC">> :> Rogue}]

MCPackage == {<<>>, <<"ext">>, <<"ext", "src">>, Agents}
MCOffer ==
  (<<>> :> {{Monorepo}, {Monorepo, Vendor("v", <<"ext", "in", "x", "v">>, 1)}})
    @@ (<<"ext">> :> {{Import("i", <<>>, <<Call, Move, Reword>>)},
                      {Import("i", <<"in">>, <<>>), Vendor("v", <<"in2">>, 1)},
                      {Import("i", <<"in">>, <<>>), Vendor("v", <<"in", "x">>, 1)}})
    @@ (<<"ext", "src">> :> {{Publish}})
    @@ (Agents :> {{Harness, Model("anthropic"), Agent, Template},
                   {Harness, Model("openai"), Agent, Template, React},
                   {Harness, Model("anthropic"), Agent, React}})
MCDrives == {<<"claude_code", "anthropic">>}
MCPatchFile == {<<"ext", "patches", "f">>, <<"ext", "in", "x">>}
=============================================================================
