----------------------------- MODULE MCRouting -----------------------------
(* A policy with rules that overlap, three providers and requests that ask for
   each stage of the resolver. *)
EXTENDS Routing, TLC

MCLength == ("review" :> 6 @@ "reviwe" :> 6 @@ "fix" :> 3 @@ "fux" :> 3)
MCEdits == [p \in (DOMAIN MCLength) \X (DOMAIN MCLength) |->
                CASE p[1] = p[2] -> 0
                  [] {p[1], p[2]} \in {{"review", "reviwe"}, {"fix", "fux"}} -> 1
                  [] OTHER -> 5]
MCSize == ("big" :> 300 @@ "half" :> 200 @@ "small" :> 20)

\* The built-in providers, with and without the block of the local daemon.
Mixed == [ollama |-> TRUE, providers |-> {"anthropic", "openai"},
          compat |-> {[id |-> "vllm", local |-> TRUE, url |-> TRUE],
                      [id |-> "noend", local |-> TRUE, url |-> FALSE]}]
Seeded == [ollama |-> TRUE, providers |-> {"anthropic", "ollama"}, compat |-> {}]

Facts(reports, window, output) ==
    [reports |-> reports, window |-> window, output |-> output, chat |-> TRUE, key |-> FALSE]

MCModels ==
    (Instance("anthropic", FALSE) :> ("opus" :> Facts({"json_output"}, 1000, 400))
     @@ Instance("openai", FALSE) :> ("gpt" :> Facts({"tools"}, 1000, 400))
     @@ Instance("ollama", TRUE) :> ("qwen" :> Facts({"tools"}, 700, None))
     @@ Instance("ollama", FALSE) :> ("cloudy" :> Facts({}, 1000, 400))
     @@ Instance("vllm", TRUE) :> ("phi" :> Facts({}, 500, None)))

Opus == [provider |-> "anthropic", model |-> "opus"]
Gpt == [provider |-> "openai", model |-> "gpt"]
Qwen == [provider |-> "ollama", model |-> "qwen"]
Nobody == [provider |-> "nobody", model |-> "none"]
Phi == [provider |-> "vllm", model |-> "phi"]

Route(priority, intent, paths, model, fallbacks, localOnly, gate) ==
    [priority |-> priority, intent |-> intent, paths |-> paths, model |-> model,
     fallbacks |-> fallbacks, localOnly |-> localOnly, gate |-> gate]

Keyword(priority, intent, keywords, contexts) ==
    [priority |-> priority, intent |-> intent, keywords |-> keywords, contexts |-> contexts]

Base ==
    [input |-> [tokens |-> {}, command |-> None, explicit |-> None],
     workspace |-> [diff |-> None, branch |-> FALSE, active |-> None, referenced |-> {}],
     classification |->
        [rules |-> <<Keyword(1, "review", {"review"}, {"git_diff"}),
                     Keyword(1, "fix", {"fix"}, {})>>, default |-> "chat"],
     routing |->
        [rules |-> <<Route(2, "fix", {}, Opus, <<Qwen>>, FALSE, {"tools"}),
                     Route(2, "fix", {"src"}, Qwen, <<Gpt, Opus>>, TRUE, {}),
                     Route(2, "review", {}, Phi, <<Qwen, Phi>>, FALSE, {"streaming"})>>,
         default |-> [model |-> Opus, fallbacks |-> <<Qwen, Nobody>>]],
     privacy |-> {"secret"},
     messages |-> <<[path |-> None, content |-> "big"], [path |-> "src", content |-> "small"]>>,
     memory |-> <<"small">>, instructions |-> <<>>, invoked |-> <<>>, available |-> <<"half">>,
     files |-> <<>>, credentialed |-> {"anthropic", "openai"}, localOnly |-> FALSE,
     sink |-> FALSE, planning |-> FALSE,
     modes |-> ("write_file" :> "ask" @@ "shell" :> "deny" @@ "read_file" :> "allow"
               @@ "memory" :> None)]

Src(required) == [path |-> "src", content |-> "big", required |-> required]

Chat == Base
Streamed == [Base EXCEPT !.sink = TRUE]
StreamedLocal == [Base EXCEPT !.sink = TRUE, !.localOnly = TRUE, !.input.command = "review",
                              !.instructions = <<"half">>]
Typo == [Base EXCEPT !.input.tokens = {"reviwe"}, !.workspace.diff =
            [paths |-> {"src"}, content |-> "half"], !.planning = TRUE]
Short == [Base EXCEPT !.input.tokens = {"fux"}, !.credentialed = {}]
OnPath == [Base EXCEPT !.input.tokens = {"fix"}, !.workspace.referenced = {"src"},
                       !.files = <<Src(FALSE)>>]
NoKey == [OnPath EXCEPT !.credentialed = {"anthropic"}]
Secret == [Base EXCEPT !.files = <<[path |-> "secret", content |-> "small", required |-> TRUE]>>]
Override == [Secret EXCEPT !.input.explicit = Opus]
Unknown == [Base EXCEPT !.input.explicit = Nobody]
TooBig == [Base EXCEPT !.files = <<Src(TRUE), [Src(TRUE) EXCEPT !.path = "lib"],
                                   [Src(TRUE) EXCEPT !.path = "doc"]>>]
NoRoute == [Base EXCEPT !.routing.default = None]
LocalOnly == [Base EXCEPT !.localOnly = TRUE]

\* One turn of each kind, and each with another turn beside it in the second set.
Single == {[t \in Turns |-> r] : r \in
            {Chat, Streamed, StreamedLocal, Typo, Short, OnPath, NoKey, Secret, Override, Unknown,
             TooBig, NoRoute, LocalOnly}}
Sensitive == {[t \in Turns |-> r] : r \in {OnPath, Secret}}
Pinned == {[t \in Turns |-> LocalOnly]}
=============================================================================
