---------------------------- MODULE MCWorkspace ----------------------------
(* A small workspace for TLC: two providers, two tools, one skill, and     *)
(* configuration files that set, omit or spoil each of the sections.       *)
EXTENDS Workspace

MCProviderOf == [m \in {"local", "big", "small"} |-> IF m = "local" THEN "ollama" ELSE "openai"]

Keyed(form) == [p \in {"openai"} |-> form]
Rule(name, priority, intent, paths, model) ==
    [name |-> name, priority |-> priority, intent |-> intent, paths |-> paths,
     local_only |-> FALSE, model |-> model, fallbacks |-> <<>>]
ToOpenAI == Routing(Route("big", <<"small">>), <<>>)

MCCliDocs == {
    [providers |-> Keyed("reference"), routing |-> ToOpenAI],
    [providers |-> Keyed("literal"), routing |-> ToOpenAI, classification |-> 1],
    [providers |-> [p \in {} |-> "absent"], routing |-> EmptyRouting],
    [providers |-> [p \in {"ollama", "openai"} |-> "absent"],
     routing |-> Routing(Route("local", <<"big">>),
                         <<Rule("r", 1, None, {"ok"}, "big"), Rule("s", 2, "plan", {}, "small")>>),
     restricted |-> {"ok"}, client |-> [f \in ClientFields |-> 1]],
    [routing |-> Routing(Route("local", <<"local">>),
                         <<Rule("r", 1, None, {}, "local"), Rule("r", 1, "plan", {}, "local")>>)],
    [tools |-> [t \in {"shell"} |-> Deny], remote |-> Deny, blocked |-> {"ok"}, auto_start |-> TRUE],
    [tools |-> [t \in {"shell", "edit"} |-> Allow], local |-> Ask, restricted |-> {"bad"},
     preferences |-> [f \in PreferenceFields |-> 1]]}

MCOverrides == {
    [tools |-> [t \in {"shell"} |-> Allow], remote |-> Allow, local |-> Deny],
    [tools |-> [t \in {"edit"} |-> Deny], remote |-> Ask, restricted |-> {"ok"}]}

MCRouterDocs == {
    [mode |-> "remote", url |-> "http", local_bootstrap_enabled |-> FALSE, host |-> "public"],
    [mode |-> "remote", url |-> "http"],
    [rate_limit |-> [enabled |-> TRUE, period |-> 1, burst |-> 0]],
    [port |-> 0, host |-> "malformed", cors |-> [enabled |-> TRUE, origins |-> {"*"}], timeouts |-> [t \in Timeouts |-> 3],
     base_urls |-> {"openai"}],
    [otel |-> [enabled |-> FALSE, endpoint |-> "", service |-> "router", ratio |-> 1]]}

MCOtelFlags == {[f \in {} |-> TRUE], [f \in {"enabled"} |-> TRUE]}

MCToolCalls == {
    [tool |-> "write_file", path |-> [absolute |-> FALSE, parts |-> <<"a">>]],
    [tool |-> "edit_file", path |-> [absolute |-> FALSE, parts |-> <<"b", "..", "a">>]],
    [tool |-> "read_file", path |-> [absolute |-> FALSE, parts |-> <<"b", "..", "..", "a">>]],
    [tool |-> "read_file", path |-> [absolute |-> TRUE, parts |-> <<"..", "home", "project", ".", "a">>]]}

Symmetry == Permutations(Procs)
=============================================================================
