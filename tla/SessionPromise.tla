--------------------------- MODULE SessionPromise ---------------------------
(***************************************************************************)
(* What pfp-server promises about launch tokens and sessions, without      *)
(* saying how: tickets are issued one after the other, only the newest can *)
(* be good, a ticket is redeemed at most once, and redeeming one replaces  *)
(* the live session by a new one.  crates/pfp-server/src/session.rs states *)
(* this promise in its header (lines 9-18); module SessionManager is shown *)
(* to implement it.                                                        *)
(*                                                                         *)
(* Tickets and sessions are numbered in the order in which they appear:    *)
(* both are fresh 256-bit secrets, so two of them are never equal.         *)
(***************************************************************************)
EXTENDS Naturals

VARIABLES
  issued,    \* how many tickets have been issued
  good,      \* the ticket that can still be redeemed, 0 when there is none
  live       \* the live session, 0 before the first one

vars == <<issued, good, live>>

TypeOK ==
  /\ issued \in Nat
  /\ good \in 0 .. issued
  /\ live \in 0 .. issued

Init == issued = 0 /\ good = 0 /\ live = 0

(* A new ticket takes the place of the one still good, if there is one. *)
Issue ==
  /\ issued' = issued + 1
  /\ good' = issued + 1
  /\ UNCHANGED live

(* The good ticket lapses: too old, or the clock can no longer be trusted, *)
(* or the session it was exchanged for could not be made.                  *)
Withdraw ==
  /\ good # 0
  /\ good' = 0
  /\ UNCHANGED <<issued, live>>

(* The good ticket is exchanged for the next session. *)
Redeem ==
  /\ good # 0
  /\ good' = 0
  /\ live' = live + 1
  /\ UNCHANGED issued

Next == Issue \/ Withdraw \/ Redeem

Spec == Init /\ [][Next]_vars
=============================================================================
