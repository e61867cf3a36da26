------------------------------ MODULE LineEditor ------------------------------
(***************************************************************************)
(* What the prompt of the interactive client promises its user: a line of  *)
(* text and a cursor in it.  A key inserts at the cursor, removes the      *)
(* character before or at it, moves it, completes the text around it, or   *)
(* replaces the whole text by one the user chose.  Nothing else is lost,   *)
(* doubled or moved.                                                       *)
(***************************************************************************)
EXTENDS Naturals, Sequences, SequencesExt

CONSTANTS
  Inserts,      \* the texts a key or a paste may insert
  Completions   \* the texts a completion may put in

VARIABLES
  text, cursor,
  offered       \* the texts the user may choose from, which others decide

vars == <<text, cursor>>

Init == text = <<>> /\ cursor = 0

Head0(n) == SubSeq(text, 1, n)
Tail0(n) == SubSeq(text, n + 1, Len(text))

Insert ==
  \E s \in Inserts :
    /\ text' = Head0(cursor) \o s \o Tail0(cursor)
    /\ cursor' = cursor + Len(s)

RemoveBefore ==
  cursor > 0 /\ text' = RemoveAt(text, cursor) /\ cursor' = cursor - 1

RemoveHere ==
  cursor < Len(text) /\ text' = RemoveAt(text, cursor + 1) /\ UNCHANGED cursor

Move == cursor' \in 0 .. Len(text) /\ UNCHANGED text

\* What precedes the completed word stays, and so does a later part of the text.
Complete ==
  /\ \E i \in 0 .. cursor, j \in cursor .. Len(text), s \in Completions :
       text' = Head0(i) \o s \o Tail0(j)
  /\ cursor' = Len(text')

Replace ==
  /\ text' \in offered \cup {<<>>}
  /\ cursor' = Len(text')

Next == Insert \/ RemoveBefore \/ RemoveHere \/ Move \/ Complete \/ Replace

Spec == Init /\ [][Next]_vars

=============================================================================
