------------------------------- MODULE MCWire -------------------------------
(* The HTTP boundary with one client and a clone of it. *)
EXTENDS Wire, TLC

MCOps == {"bootstrap", "sign_in", "sign_out", "execute", "stream_execute"}
Symmetry == Permutations(Handles)
MCBuilt == {Reqwest, Isahc}
MCTurnErrors == {"run_in_flight"}
=============================================================================
