------------------------------- MODULE MCCli -------------------------------
(* An instance of Cli: a read and an edit to ask for, and a shell command  *)
(* that the policy allows.                                                 *)
EXTENDS Cli

MCCalls == 1 .. 3
MCTool == <<"read_file", "edit_file", "shell">>
MCNeeds == <<"Ask", "Ask", "Allow">>
MCWords == <<<<>>, <<>>, <<[text |-> "git", cut |-> "plain"],
                           [text |-> "status", cut |-> "cut"]>>>>
=============================================================================
