----------------------------- MODULE MCRunLock -----------------------------
(* Instances of RunLock for TLC: how requests map to Orchestrators.        *)
EXTENDS RunLock, TLC

\* What the web handlers do: every HTTP request builds its own Orchestrator.
PerRequest == [r \in Requests |-> r]

Symmetry == Permutations(Requests)
=============================================================================
