-------------------------- MODULE MCSessionManager --------------------------
(* SessionManager on small instances. *)
EXTENDS SessionManager, TLC

Threads == Permutations(Worker)
=============================================================================
