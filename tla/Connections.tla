---------------------------- MODULE Connections ----------------------------
(***************************************************************************)
(* The transport of pfp-server: the accept loop (accept.rs), the life of a *)
(* connection under hyper (accept.rs, server.rs) and the bounded graceful  *)
(* close after a response sent before its request body was consumed        *)
(* (linger.rs).  A slot is an entry of the loop's JoinSet: a connection's  *)
(* task, running or ended and not yet reaped.  Request bodies are counted  *)
(* in units; the three limits on them keep their order, not their size.    *)
(* Timers are actions: each may fire at any moment its code leaves it      *)
(* armed, and under Fairness it does fire.                                 *)
(***************************************************************************)
EXTENDS Naturals, FiniteSets

CONSTANTS
    Slots,           \* identities for the entries of the JoinSet
    MaxConnections,  \* limits.rs MAX_CONNECTIONS
    BodyCap,         \* limits.rs MAX_BODY_BYTES, in units
    LingerMax,       \* limits.rs LINGER_MAX_BYTES, in units
    ReadAhead,       \* the most hyper's read buffer may hold of a body it
                     \* is not going to hand on, in units
    MaxUpload,       \* bound: the longest body a peer sends, in units
    MaxBacklog       \* bound: connections the kernel holds for accept(2)

ASSUME LimitsAssumption ==
    /\ IsFiniteSet(Slots)
    /\ {MaxConnections, BodyCap, LingerMax, ReadAhead, MaxUpload, MaxBacklog}
          \subseteq Nat
    /\ MaxConnections > 0
    /\ ReadAhead < LingerMax

VARIABLES
    loop,      \* where the accept loop is
    shutdown,  \* the shutdown future has completed
    backlog,   \* connections the kernel has and the loop has not accepted
    conn       \* what is in each slot

vars == <<loop, shutdown, backlog, conn>>

\* A connection with no request under way.  `size` is the length of the
\* request's body and `left` what of it the server has not taken from the
\* socket; `early` is EarlyResponse, `budget` what the drain may still read,
\* `why` how the connection ended.
At(stage, early) == [stage |-> stage, size |-> 0, left |-> 0,
                     early |-> early, budget |-> 0, why |-> "none"]

Empty == At("empty", FALSE)
Over(why) == [At("over", FALSE) EXCEPT !.why = why]

Running == {"handshake", "head", "serving", "answering", "shutting", "draining"}

\* A permit belongs to a task that has not ended, and dies with it.
Holders == {s \in Slots : conn[s].stage \in Running}
Entries == {s \in Slots : conn[s].stage # "empty"}
Unreaped == {s \in Slots : conn[s].stage = "over"}

Init ==
    /\ loop = "select"
    /\ shutdown = FALSE
    /\ backlog = 0
    /\ conn = [s \in Slots |-> Empty]

----------------------------------------------------------------------------
\* The accept loop.  `select!` is biased: shutdown, then an ended task, then
\* accept(2).  Tasks run on other threads, so one may end between the poll of
\* the set and the poll of the listener: the loop polls in two steps.

\* The listener and the set are dropped: whatever still runs is cancelled.
Stop ==
    /\ loop' = "stopped"
    /\ backlog' = 0
    /\ conn' = [s \in Slots |-> Empty]
    /\ UNCHANGED shutdown

Reap ==
    /\ \E s \in Unreaped : conn' = [conn EXCEPT ![s] = Empty]
    /\ UNCHANGED <<loop, shutdown, backlog>>

PollsAccept ==
    /\ loop' = "accept"
    /\ UNCHANGED <<shutdown, backlog, conn>>

PollSelectAcceptFirst ==
    /\ loop = "select"
    /\ \/ backlog > 0 /\ PollsAccept
       \/ backlog = 0 /\ shutdown /\ Stop
       \/ backlog = 0 /\ ~shutdown /\ Unreaped # {} /\ Reap
       \/ backlog = 0 /\ ~shutdown /\ Unreaped = {} /\ PollsAccept

PollSelectNoReap ==
    /\ loop = "select"
    /\ \/ shutdown /\ Stop
       \/ ~shutdown /\ PollsAccept

PollSelect ==
    /\ loop = "select"
    /\ \/ shutdown /\ Stop
       \/ ~shutdown /\ Unreaped # {} /\ Reap
       \/ ~shutdown /\ Unreaped = {} /\ PollsAccept

\* Nothing to accept: the loop sleeps until something wakes it, and then
\* polls from the top.
NothingToAccept ==
    /\ loop = "accept"
    /\ backlog = 0
    /\ loop' = "select"
    /\ UNCHANGED <<shutdown, backlog, conn>>

\* The permit is taken before the handshake.
Accept(s) ==
    /\ loop = "accept"
    /\ backlog > 0
    /\ Cardinality(Holders) < MaxConnections
    /\ conn[s] = Empty
    /\ conn' = [conn EXCEPT ![s] = At("handshake", FALSE)]
    /\ backlog' = backlog - 1
    /\ loop' = "select"
    /\ UNCHANGED shutdown

\* No permit left: the socket is dropped at once.
RefuseAtCap ==
    /\ loop = "accept"
    /\ backlog > 0
    /\ Cardinality(Holders) >= MaxConnections
    /\ backlog' = backlog - 1
    /\ loop' = "select"
    /\ UNCHANGED <<shutdown, conn>>

\* accept(2) fails, for want of a file descriptor; the loop sleeps without
\* listening for shutdown.
AcceptFails ==
    /\ loop = "accept"
    /\ backlog > 0
    /\ loop' = "backoff"
    /\ UNCHANGED <<shutdown, backlog, conn>>

BackoffEnds ==
    /\ loop = "backoff"
    /\ loop' = "select"
    /\ UNCHANGED <<shutdown, backlog, conn>>

LoopStep ==
    \/ PollSelect
    \/ NothingToAccept
    \/ \E s \in Slots : Accept(s)
    \/ RefuseAtCap
    \/ BackoffEnds

----------------------------------------------------------------------------
\* One connection's task.

Becomes(s, new) ==
    /\ conn' = [conn EXCEPT ![s] = new]
    /\ UNCHANGED <<loop, shutdown, backlog>>

Ends(s, why) == Becomes(s, Over(why))

HandshakeCompletes(s) ==
    /\ conn[s].stage = "handshake"
    /\ Becomes(s, At("head", FALSE))

HandshakeFails(s) == conn[s].stage = "handshake" /\ Ends(s, "error")

HandshakeTimesOut(s) == conn[s].stage = "handshake" /\ Ends(s, "time")

\* hyper's one timer for a request head and for an idle connection; hyper
\* ends in an error, and the connection is dropped without a close of ours.
HeadTimesOut(s) == conn[s].stage = "head" /\ Ends(s, "error")

\* The response exists and the request is gone.  `ended`: WatchedBody saw the
\* end of the body (the end of a chunked body comes with its last unit).  The
\* mark is never taken back.
Answer(c, ended) ==
    [c EXCEPT !.stage = "answering", !.early = @ \/ ~ended]

WithBody(c, size) == [c EXCEPT !.size = size, !.left = size]

\* A refusal decided on the head (admission, the session gate, the method),
\* or a route that reads no body.
AnswerFromHead(s, size) ==
    /\ conn[s].stage = "head"
    /\ Becomes(s, Answer(WithBody(conn[s], size), size = 0))

\* Admission lets through no declared length over the cap; what a chunked
\* body comes to is not known yet.
Dispatch(s, size, declared) ==
    /\ conn[s].stage = "head"
    /\ declared => size <= BodyCap
    /\ Becomes(s, [WithBody(conn[s], size) EXCEPT !.stage = "serving"])

Taken(s) == conn[s].size - conn[s].left

ReadBody(s) ==
    /\ conn[s].stage = "serving"
    /\ conn[s].left > 0
    /\ Taken(s) <= BodyCap
    /\ Becomes(s, [conn[s] EXCEPT !.left = @ - 1])

\* DefaultBodyLimit: the cap is known to be exceeded once it is.
TooLarge(s) ==
    /\ conn[s].stage = "serving"
    /\ Taken(s) > BodyCap
    /\ Becomes(s, Answer(conn[s], FALSE))

HandlerAnswers(s) ==
    /\ conn[s].stage = "serving"
    /\ conn[s].left = 0
    /\ Taken(s) <= BodyCap
    /\ Becomes(s, Answer(conn[s], TRUE))

DeadlineOfHead(s) ==
    /\ conn[s].stage = "serving"
    /\ Taken(s) = 0
    /\ Becomes(s, Answer(conn[s], conn[s].left = 0))

DeadlineUnmarked(s) ==
    /\ conn[s].stage = "serving"
    /\ Becomes(s, Answer(conn[s], TRUE))

\* The deadline of the whole request, its body included: 408.
Deadline(s) ==
    /\ conn[s].stage = "serving"
    /\ Becomes(s, Answer(conn[s], conn[s].left = 0))

\* The response is out, and hyper keeps the connection: there is no more body,
\* or one read brought the rest of it.
KeepAlive(s) ==
    /\ conn[s].stage = "answering"
    /\ conn[s].left <= ReadAhead
    /\ Becomes(s, At("head", conn[s].early))

\* hyper returns the stream, and what it had read ahead of the body counts
\* against the drain's budget.
CloseUncounted(s, ahead) ==
    /\ conn[s].stage \in {"head", "answering"}
    /\ ahead <= conn[s].left
    /\ Becomes(s, [conn[s] EXCEPT !.stage = "shutting", !.left = @ - ahead,
                                  !.budget = LingerMax])

Close(s, ahead) ==
    /\ conn[s].stage \in {"head", "answering"}
    /\ ahead <= conn[s].left
    /\ Becomes(s, [conn[s] EXCEPT !.stage = "shutting", !.left = @ - ahead,
                                  !.budget = LingerMax - ahead])

\* The peer resets, or sends what is not HTTP: hyper ends in an error.
ConnectionFails(s) ==
    /\ conn[s].stage \in {"head", "serving", "answering"}
    /\ Ends(s, "error")

\* close: the write half is shut down, and there is a drain only after an
\* early response.
ShutsDown(s) ==
    /\ conn[s].stage = "shutting"
    /\ IF conn[s].early THEN Becomes(s, [conn[s] EXCEPT !.stage = "draining"])
                        ELSE Ends(s, "shut_down")

Drain(s) ==
    /\ conn[s].stage = "draining"
    /\ conn[s].left > 0
    /\ conn[s].budget > 0
    /\ Becomes(s, [conn[s] EXCEPT !.left = @ - 1, !.budget = @ - 1])

PeerCloses(s) ==
    /\ conn[s].stage = "draining"
    /\ conn[s].left = 0
    /\ conn[s].budget > 0
    /\ Ends(s, "peer_closed")

BudgetSpent(s) ==
    /\ conn[s].stage = "draining"
    /\ conn[s].budget = 0
    /\ Ends(s, "byte_budget")

\* One deadline for the shutdown and the drain together.
LingerTimesOut(s) ==
    /\ conn[s].stage \in {"shutting", "draining"}
    /\ Ends(s, "time")

LingerFails(s) ==
    /\ conn[s].stage \in {"shutting", "draining"}
    /\ Ends(s, "failed")

Request(s) == \E size \in 0..MaxUpload :
    \/ AnswerFromHead(s, size)
    \/ \E declared \in BOOLEAN : Dispatch(s, size, declared)

Answering(s) == ReadBody(s) \/ TooLarge(s) \/ HandlerAnswers(s)

Closing(s) ==
    \/ \E ahead \in 0..ReadAhead : Close(s, ahead)
    \/ ShutsDown(s) \/ Drain(s) \/ PeerCloses(s) \/ BudgetSpent(s)

Timer(s) ==
    HandshakeTimesOut(s) \/ HeadTimesOut(s) \/ Deadline(s) \/ LingerTimesOut(s)

Failure(s) == HandshakeFails(s) \/ ConnectionFails(s) \/ LingerFails(s)

ConnectionStep(s) ==
    \/ HandshakeCompletes(s)
    \/ Request(s)
    \/ Answering(s)
    \/ KeepAlive(s)
    \/ Closing(s)
    \/ Timer(s)
    \/ Failure(s)

----------------------------------------------------------------------------
\* The peers, the kernel and the launcher.

Connect ==
    /\ loop # "stopped"
    /\ backlog < MaxBacklog
    /\ backlog' = backlog + 1
    /\ UNCHANGED <<loop, shutdown, conn>>

ShutdownSignal ==
    /\ ~shutdown
    /\ shutdown' = TRUE
    /\ UNCHANGED <<loop, backlog, conn>>

Environment == Connect \/ ShutdownSignal \/ AcceptFails

Next ==
    \/ LoopStep
    \/ Environment
    \/ \E s \in Slots : ConnectionStep(s)

Spec == Init /\ [][Next]_vars

\* The runtime polls the loop, and the timers tokio and hyper arm do fire.
\* Nothing makes a peer send, read or close.
Fairness ==
    /\ WF_vars(LoopStep)
    /\ \A s \in Slots : WF_vars(Timer(s)) /\ WF_vars(ShutsDown(s) \/ BudgetSpent(s))

FairSpec == Spec /\ Fairness

----------------------------------------------------------------------------
\* Every variable has its type, a slot holds no more than its stage needs, and
\* no more tasks run than there are permits (accept.rs:271-274).
TypeOK ==
    /\ loop \in {"select", "accept", "backoff", "stopped"}
    /\ shutdown \in BOOLEAN
    /\ backlog \in 0..MaxBacklog
    /\ \A s \in Slots :
         /\ conn[s] \in [stage : Running \cup {"empty", "over"},
                         size : 0..MaxUpload, left : 0..MaxUpload,
                         early : BOOLEAN, budget : 0..LingerMax,
                         why : {"none", "error", "failed", "time", "shut_down",
                                "peer_closed", "byte_budget"}]
         /\ conn[s].left <= conn[s].size
         /\ conn[s].stage \in {"empty", "handshake", "head", "over"} => conn[s].size = 0
         /\ (conn[s].stage = "over") <=> (conn[s].why # "none")

\* "Reap finished tasks so the set does not grow with every connection"
\* (accept.rs:258): though the loop accepts between two polls of the set and
\* tasks end at any moment, the set never holds more than one entry beyond
\* the connections that may exist; and a handshake under way counts as one
\* (accept.rs:237, :271).
SetBounded ==
    /\ Cardinality(Holders) <= MaxConnections
    /\ Cardinality(Entries) <= MaxConnections + 1

\* The graceful close (linger.rs): a peer whose whole body fits the drain's
\* budget is never cut off in the middle of its upload by the server's own
\* doing, whatever it was refused for, the deadline included; only the time
\* budget, a failure of the connection or the end of the server cut it.
RefusalNotReset == [][\A s \in Slots :
    /\ conn[s].stage # "over"
    /\ conn'[s].stage = "over"
    /\ conn[s].left > 0
    /\ conn[s].size <= LingerMax
    => conn'[s].why \in {"error", "failed", "time"}]_vars

\* "An unbounded drain would be a denial-of-service surface" (linger.rs:16-21,
\* tests/early_refusal.rs:11-12): of a body it will not serve the server takes
\* at most the cap, the unit that broke it, and the drain's budget, what hyper
\* had read ahead included.
ReadsBounded == \A s \in Slots : Taken(s) <= BodyCap + 1 + LingerMax

\* No peer holds a connection in the handshake, waiting for a head, in a
\* request or in the close for ever (limits.rs): every phase but the writing
\* of a response, which no timer covers, ends.
PhasesEnd == \A s \in Slots :
    /\ conn[s].stage = "handshake" ~> conn[s].stage # "handshake"
    /\ conn[s].stage = "head" ~> conn[s].stage # "head"
    /\ conn[s].stage = "serving" ~> conn[s].stage # "serving"
    /\ conn[s].stage \in {"shutting", "draining"}
         ~> conn[s].stage \notin {"shutting", "draining"}

\* A server told to stop does stop, however many peers keep connecting and
\* whatever its connections are doing (server.rs:290-291).
ShutdownEnds == shutdown ~> loop = "stopped"
=============================================================================
