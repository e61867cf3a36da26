----------------------------- MODULE MCTerminal -----------------------------
(***************************************************************************)
(* Terminal with an alphabet of two letters, a directory with a file and a *)
(* subdirectory, and one command of every kind.                            *)
(***************************************************************************)
EXTENDS Terminal

MCNames == << <<"a">>, <<"a", "a">>, <<"a", "b">>, <<"b">>, <<"b", "a">>,
              <<"b", "b">>, <<"a", "a", "a">>, <<"a", "a", "b">>,
              <<"a", "b", "a">>, <<"a", "b", "b">> >>
MCKinds == <<"Preview", "Help", "Plan", "Model", "Skills", "Resume", "Ask",
             "Quit", "Chat", "Logs">>
MCKindOf == [n \in Range(MCNames) |->
               MCKinds[SelectInSeq(MCNames, LAMBDA m : m = n)]]

MCEntries == [d \in {<<>>, <<"b", "/">>} |->
                IF d = <<>> THEN << <<"a">>, <<"b", "/">> >> ELSE << <<"b">> >>]

MCModels == << <<"a">>, <<"b">> >>
MCAuto == <<"b", "b">>
MCSessionIds == {<<"a">>}
MCPastes == {<<"@", "b">>, <<"a", "\n">>}
=============================================================================
