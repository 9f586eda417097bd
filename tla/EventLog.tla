------------------------------ MODULE EventLog ------------------------------
(***************************************************************************)
(* The event log of pfp-server (crates/pfp-server/src/events.rs): a ring   *)
(* in memory that keeps the newest events, numbered from 1.  An event has  *)
(* a code and, when it reports a request, the status of the answer; the    *)
(* method and the route template, which are constants of the program, are  *)
(* left out, and so is the echo of the graver codes to stderr.             *)
(*                                                                         *)
(* The number is drawn and the event stored under one lock: Push is the    *)
(* whole of it.                                                            *)
(***************************************************************************)
EXTENDS Integers, Sequences

CONSTANT Capacity      \* what with_capacity is given

ASSUME CapacityAssumption == Capacity \in Nat

VARIABLES
  nextSeq,             \* Ring.next_seq
  ring                 \* Ring.events, the oldest first

log == <<nextSeq, ring>>

NoStatus == 0

Infos ==
  {"request_served", "request_refused", "launch_token_minted", "session_established",
   "session_replaced", "bootstrap_rejected", "session_required",
   "session_cookie_displaced", "relaunch_accepted", "relaunch_unavailable",
   "idle_timeout", "server_stopped"}
Warnings ==
  {"request_deadline", "bootstrap_failures_high", "relaunch_throttled",
   "relaunch_exhausted", "clock_went_backwards"}
Errors == {"entropy_unavailable", "internal_error"}

EventCode == Infos \cup Warnings \cup Errors

Level(code) ==
  IF code \in Errors THEN "error" ELSE IF code \in Warnings THEN "warn" ELSE "info"

Event == [seq : Nat, code : EventCode, status : Nat]

\* A log always has room for one event
Room == IF Capacity > 1 THEN Capacity ELSE 1

LogInit == nextSeq = 1 /\ ring = <<>>

\* MUTANT of Push: the oldest event leaves one event too late
PushLate(code, status) ==
  /\ nextSeq' = nextSeq + 1
  /\ ring' = Append(IF Len(ring) > Room THEN Tail(ring) ELSE ring,
                    [seq |-> nextSeq, code |-> code, status |-> status])

Push(code, status) ==
  /\ nextSeq' = nextSeq + 1
  /\ ring' = Append(IF Len(ring) = Room THEN Tail(ring) ELSE ring,
                    [seq |-> nextSeq, code |-> code, status |-> status])

(* EventLog::record and record_request *)
Record(code) == Push(code, NoStatus)
RecordRequest(code, status) == Push(code, status)

-----------------------------------------------------------------------------
(* The ring holds the newest events, all of them while there is room, in   *)
(* the order of their numbers and with none missing, whichever requests    *)
(* were recording at once (events.rs 212-243).                             *)
RingHoldsNewest ==
  /\ Len(ring) = IF nextSeq - 1 < Room THEN nextSeq - 1 ELSE Room
  /\ \A i \in DOMAIN ring : ring[i].seq = nextSeq - 1 - Len(ring) + i
=============================================================================
