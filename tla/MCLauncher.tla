----------------------------- MODULE MCLauncher -----------------------------
(* The launcher with a few processes, all alike. *)
EXTENDS Launcher, TLC

Launches == Permutations(Proc)
=============================================================================
