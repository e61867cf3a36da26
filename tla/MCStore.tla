------------------------------ MODULE MCStore ------------------------------
(* A small database and all pairs of commands over it. *)
EXTENDS Store, TLC

Found ==
    [users |-> {"u1", "u2"},
     tokens |-> ("t1" :> [user |-> "u1", expires |-> 2, revoked |-> FALSE]
              @@ "t2" :> [user |-> "u2", expires |-> 2, revoked |-> FALSE]),
     sessions |-> ("s1" :> [user |-> "u1", titled |-> FALSE, archived |-> None,
                            updated |-> 0]),
     rows |->
        LET row(table, session, key) ==
                [table |-> table, session |-> session, user |-> "u1", created |-> 0,
                 status |-> "new", key |-> key]
        IN ("m1" :> row("session_message", "s1", None)
         @@ "c1" :> row("session_tool_call", "s1", None)
         @@ "p1" :> row("session_plan", "s1", None)
         @@ "e1" :> row("trace_event", "s1", None)
         @@ "f1" :> row("user_memory", None, "known")
         @@ "f2" :> row("user_memory", None, "twice")    \* two records that raced
         @@ "f3" :> row("user_memory", None, "twice"))]

Command(do, session) ==
    [do |-> do, token |-> "t1", genuine |-> TRUE, as |-> None, session |-> session,
     title |-> FALSE, archived |-> "omitted", table |-> None, row |-> None, key |-> None]

\* The commands, in an order that picks one of two equal pairs.
Commands == <<
    Command("bootstrap", None),
    [Command("sign_in", None) EXCEPT !.as = "u1"],
    [Command("sign_in", None) EXCEPT !.as = "u1", !.genuine = FALSE],
    [Command("sign_in", None) EXCEPT !.as = "nobody"],
    Command("sign_out", None),
    Command("me", None),
    [Command("me", None) EXCEPT !.genuine = FALSE],
    Command("create", None),
    [Command("update", "s1") EXCEPT !.title = TRUE],
    [Command("update", "s1") EXCEPT !.archived = "yes"],
    [Command("update", "s1") EXCEPT !.archived = "no"],
    Command("delete", "s1"),
    [Command("delete", "s1") EXCEPT !.token = "t2"],
    Command("get", "s1"),
    Command("list", None),
    Command("traces", "s1"),
    [Command("append", "s1") EXCEPT !.table = "session_message"],
    [Command("append", "s1") EXCEPT !.table = "session_approval"],
    [Command("append", "s1") EXCEPT !.table = "trace_event"],
    [Command("set_state", "s1") EXCEPT !.table = "session_run_state"],
    [Command("set_state", "s1") EXCEPT !.table = "session_run_input"],
    [Command("set_status", "s1") EXCEPT !.row = "p1", !.table = "session_plan"],
    [Command("set_status", "s1") EXCEPT !.row = "c1", !.table = "session_tool_call"],
    [Command("set_status", "s1") EXCEPT !.row = "gone", !.table = "session_diff"],
    [Command("seal", "s1") EXCEPT !.row = "e1"],
    [Command("record", None) EXCEPT !.key = "known"],
    [Command("record", None) EXCEPT !.key = "new"],
    [Command("record", None) EXCEPT !.key = "twice"],
    [Command("record", "s1") EXCEPT !.key = "new"],
    [Command("forget", None) EXCEPT !.key = "known"],
    [Command("forget", "s1") EXCEPT !.key = "new"],
    Command("usage", "s1"),
    [Command("traces", "s1") EXCEPT !.token = "t2"],
    Command("history", "s1"),
    Command("facts", None),
    Command("facts", "s1"),
    Command("state", "s1"),
    [Command("read", "s1") EXCEPT !.row = "e1"] >>

\* What takes something away, or replaces what another request has read.
Disturbs == {"sign_out", "update", "delete", "record", "forget"}

\* One of two requests disturbs the other, or both do the same.
Pairs == {[a |-> Commands[p[1]], b |-> Commands[p[2]]] :
            p \in {q \in (DOMAIN Commands) \X (DOMAIN Commands) :
                    \/ q[1] = q[2]
                    \/ /\ q[1] < q[2]
                       /\ {Commands[q[1]].do, Commands[q[2]].do} \cap Disturbs # {}}}
=============================================================================
