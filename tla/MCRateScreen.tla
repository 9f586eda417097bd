---------------------------- MODULE MCRateScreen ----------------------------
(* The rate-schedule screen with a few form contents, all alike. *)
EXTENDS RateScreen, TLC

Contents == Permutations(Inputs)
=============================================================================
