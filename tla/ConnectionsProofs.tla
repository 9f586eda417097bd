-------------------------- MODULE ConnectionsProofs --------------------------
(***************************************************************************)
(* What bounds the transport, for any number of permits and slots, and any *)
(* limits on bodies that keep the order of the code's.                     *)
(***************************************************************************)
EXTENDS Connections, FiniteSetTheorems, TLAPS

Reasons == {"none", "error", "failed", "time", "shut_down", "peer_closed", "byte_budget"}

Connection ==
    [stage : Running \cup {"empty", "over"}, size : 0..MaxUpload, left : 0..MaxUpload,
     early : BOOLEAN, budget : 0..LingerMax, why : Reasons]

\* What the server has taken of a body, and may yet take, by where the
\* connection is.
WithinLimits(c) ==
    /\ c.left <= c.size
    /\ c.stage \in {"empty", "handshake", "head", "over"} => c.size = 0
    /\ c.stage \in {"serving", "answering"} => c.size - c.left <= BodyCap + 1
    /\ c.size - c.left + c.budget <= BodyCap + 1 + LingerMax
    /\ (c.stage = "over") <=> (c.why # "none")
    /\ c.stage \notin {"shutting", "draining"} => c.budget = 0

Sound(c) == c \in Connection /\ WithinLimits(c)

\* The set is known to hold only running tasks when the loop turns to the
\* listener; some may end before it accepts.
LoopInv ==
    /\ loop \in {"select", "accept", "backoff", "stopped"}
    /\ shutdown \in BOOLEAN
    /\ backlog \in 0..MaxBacklog
    /\ conn \in [Slots -> Connection]
    /\ loop = "accept" => Cardinality(Entries) <= MaxConnections

IInv == LoopInv /\ SetBounded /\ \A s \in Slots : WithinLimits(conn[s])

-----------------------------------------------------------------------------
(* The steps of one connection's task.                                     *)

LEMMA LimitsAreNumbers ==
    /\ MaxConnections \in Nat /\ BodyCap \in Nat /\ LingerMax \in Nat
    /\ ReadAhead \in Nat /\ MaxUpload \in Nat /\ MaxBacklog \in Nat
    /\ ReadAhead < LingerMax /\ MaxConnections > 0
BY LimitsAssumption

LEMMA NoRequestIsSound ==
    /\ Sound(Empty)
    /\ \A e \in BOOLEAN : Sound(At("handshake", e)) /\ Sound(At("head", e))
    /\ \A why \in Reasons \ {"none"} : Sound(Over(why))
<1> USE LimitsAreNumbers DEF Sound, WithinLimits, Running, Reasons
<1>0. \A stage \in Running \cup {"empty", "over"}, e \in BOOLEAN :
        /\ At(stage, e) \in Connection /\ At(stage, e).stage = stage
        /\ At(stage, e).size = 0 /\ At(stage, e).left = 0 /\ At(stage, e).budget = 0
        /\ At(stage, e).why = "none"
  <2> SUFFICES ASSUME NEW stage \in Running \cup {"empty", "over"}, NEW e \in BOOLEAN
               PROVE  /\ At(stage, e) \in Connection /\ At(stage, e).stage = stage
                      /\ At(stage, e).size = 0 /\ At(stage, e).left = 0
                      /\ At(stage, e).budget = 0 /\ At(stage, e).why = "none"
    OBVIOUS
  <2>1. 0 \in 0..MaxUpload /\ 0 \in 0..LingerMax /\ "none" \in Reasons
    OBVIOUS
  <2> HIDE DEF Running, Reasons
  <2>2. At(stage, e) = [stage |-> stage, size |-> 0, left |-> 0, early |-> e, budget |-> 0,
                         why |-> "none"]
    BY DEF At
  <2>3. At(stage, e) \in Connection
    BY <2>1, <2>2 DEF Connection
  <2>4. QED
    BY <2>2, <2>3
<1>1. ASSUME NEW stage \in {"empty", "handshake", "head"}, NEW e \in BOOLEAN
      PROVE  Sound(At(stage, e))
  <2> DEFINE c == At(stage, e)
  <2>1. /\ c \in Connection /\ c.stage = stage /\ c.size = 0 /\ c.left = 0 /\ c.budget = 0
        /\ c.why = "none"
    BY <1>0
  <2> HIDE DEF c
  <2>2. Sound(c)
    BY <2>1
  <2>3. QED
    BY <2>2 DEF c
<1>2. ASSUME NEW why \in Reasons \ {"none"} PROVE Sound(Over(why))
  <2> DEFINE base == At("over", FALSE)
  <2>1. /\ base \in Connection /\ base.stage = "over" /\ base.size = 0 /\ base.left = 0
        /\ base.budget = 0
    BY <1>0
  <2>2. Over(why) = [base EXCEPT !.why = why]
    BY DEF Over
  <2> HIDE DEF base
  <2>3. /\ Over(why) \in Connection /\ Over(why).stage = "over" /\ Over(why).size = 0
        /\ Over(why).left = 0 /\ Over(why).budget = 0 /\ Over(why).why = why
    BY <2>1, <2>2 DEF Connection
  <2>4. QED
    BY <2>3
<1>3. QED
  BY <1>1, <1>2 DEF Empty

\* A task that takes a step was running, and goes on or is over: an entry of
\* the set neither comes nor goes.
Moves(s, new) ==
    /\ Becomes(s, new)
    /\ conn[s].stage \in Running /\ new.stage \in Running \cup {"over"}
    /\ Sound(new)

LEMMA OverMoves ==
    ASSUME NEW s \in Slots, NEW why \in Reasons \ {"none"}, Ends(s, why),
           conn[s].stage \in Running
    PROVE  \E new : Moves(s, new)
<1>1. Over(why).stage = "over"
  BY DEF Over, At
<1>2. Moves(s, Over(why))
  BY <1>1, NoRequestIsSound DEF Moves, Ends
<1>3. QED
  BY <1>2

LEMMA TaskMoves ==
    ASSUME IInv, NEW s \in Slots, ConnectionStep(s) PROVE \E new : Moves(s, new)
<1> DEFINE c == conn[s]
<1>0. /\ Sound(c) /\ c \in Connection
      /\ c.size \in Nat /\ c.left \in Nat /\ c.budget \in Nat /\ c.left <= c.size
      /\ c.size <= MaxUpload /\ c.left <= MaxUpload /\ c.budget <= LingerMax
  BY LimitsAssumption DEF IInv, LoopInv, Sound, WithinLimits, Connection
<1> HIDE DEF c
<1> USE LimitsAreNumbers
<1>1. CASE HandshakeCompletes(s)
  <2>1. Moves(s, At("head", FALSE))
    BY <1>1, NoRequestIsSound DEF Moves, HandshakeCompletes, Running, At
  <2>2. QED
    BY <2>1
<1>2. CASE Request(s)
  <2>1. PICK size \in 0..MaxUpload, declared \in BOOLEAN :
          AnswerFromHead(s, size) \/ Dispatch(s, size, declared)
    BY <1>2 DEF Request
  <2>2. conn[s] = c /\ c.stage = "head" /\ c.budget = 0 /\ c.why = "none"
    BY <1>0, <2>1 DEF AnswerFromHead, Dispatch, c, Sound, WithinLimits
  <2>3. c.size = 0 /\ c.left = 0
    BY <1>0, <2>2 DEF Sound, WithinLimits
  <2>4. CASE AnswerFromHead(s, size)
    <3> DEFINE new == Answer(WithBody(c, size), size = 0)
    <3>1. /\ new \in Connection /\ new.stage = "answering" /\ new.size = size /\ new.left = size
          /\ new.budget = 0 /\ new.why = "none"
      BY <1>0, <2>2 DEF Answer, WithBody, Connection, Running, Reasons
    <3>2. Sound(new)
      BY <3>1 DEF Sound, WithinLimits
    <3>3. Moves(s, new)
      BY <2>2, <2>4, <3>1, <3>2 DEF Moves, AnswerFromHead, Running
    <3>4. QED
      BY <3>3
  <2>5. CASE Dispatch(s, size, declared)
    <3> DEFINE new == [WithBody(c, size) EXCEPT !.stage = "serving"]
    <3>1. /\ new \in Connection /\ new.stage = "serving" /\ new.size = size /\ new.left = size
          /\ new.budget = 0 /\ new.why = "none"
      BY <1>0, <2>2 DEF WithBody, Connection, Running, Reasons
    <3>2. Sound(new)
      BY <3>1 DEF Sound, WithinLimits
    <3>3. Moves(s, new)
      BY <2>2, <2>5, <3>1, <3>2 DEF Moves, Dispatch, Running
    <3>4. QED
      BY <3>3
  <2>6. QED
    BY <2>1, <2>4, <2>5
<1>3. CASE ReadBody(s)
  <2> DEFINE new == [c EXCEPT !.left = @ - 1]
  <2>1. conn[s] = c /\ c.stage = "serving" /\ c.left > 0 /\ c.size - c.left <= BodyCap
    BY <1>3 DEF ReadBody, Taken, c
  <2>2. /\ new \in Connection /\ new.stage = "serving" /\ new.size = c.size
        /\ new.left = c.left - 1 /\ new.budget = c.budget /\ new.why = c.why
    BY <1>0, <2>1 DEF Connection
  <2>3. c.budget = 0 /\ c.why = "none"
    BY <1>0, <2>1 DEF Sound, WithinLimits
  <2>4. Sound(new)
    BY <1>0, <2>1, <2>2, <2>3 DEF Sound, WithinLimits
  <2>5. Moves(s, new)
    BY <1>3, <2>1, <2>2, <2>4 DEF Moves, ReadBody, Running
  <2>6. QED
    BY <2>5
<1>4. CASE TooLarge(s) \/ HandlerAnswers(s) \/ Deadline(s)
  <2>1. PICK ended \in BOOLEAN : c.stage = "serving" /\ conn[s] = c /\ Becomes(s, Answer(c, ended))
    BY <1>4 DEF TooLarge, HandlerAnswers, Deadline, c
  <2> DEFINE new == Answer(c, ended)
  <2>2. /\ new \in Connection /\ new.stage = "answering" /\ new.size = c.size
        /\ new.left = c.left /\ new.budget = c.budget /\ new.why = c.why
    BY <1>0, <2>1 DEF Answer, Connection, Running
  <2>3. Sound(new)
    BY <1>0, <2>1, <2>2 DEF Sound, WithinLimits
  <2>4. Moves(s, new)
    BY <2>1, <2>2, <2>3 DEF Moves, Running
  <2>5. QED
    BY <2>4
<1>5. CASE KeepAlive(s)
  <2>1. c.early \in BOOLEAN
    BY <1>0 DEF Connection
  <2>2. Moves(s, At("head", c.early))
    BY <1>5, <2>1, NoRequestIsSound DEF Moves, KeepAlive, Running, At, c
  <2>3. QED
    BY <2>2
<1>6. CASE \E ahead \in 0..ReadAhead : Close(s, ahead)
  <2>1. PICK ahead \in 0..ReadAhead : Close(s, ahead)
    BY <1>6
  <2> DEFINE new == [c EXCEPT !.stage = "shutting", !.left = @ - ahead, !.budget = LingerMax - ahead]
  <2>2. conn[s] = c /\ c.stage \in {"head", "answering"} /\ ahead <= c.left
    BY <2>1 DEF Close, c
  <2>9. c.left - ahead \in 0..MaxUpload /\ LingerMax - ahead \in 0..LingerMax
    BY <1>0, <2>1, <2>2
  <2>3. /\ new \in Connection /\ new.stage = "shutting" /\ new.size = c.size
        /\ new.left = c.left - ahead /\ new.budget = LingerMax - ahead /\ new.why = c.why
    BY <1>0, <2>9 DEF Connection, Running
  <2>4. c.size - c.left <= BodyCap + 1 /\ c.why = "none"
    BY <1>0, <2>2 DEF Sound, WithinLimits
  <2>5. Sound(new)
    BY <1>0, <2>1, <2>2, <2>3, <2>4 DEF Sound, WithinLimits
  <2>6. Moves(s, new)
    BY <2>1, <2>2, <2>3, <2>5 DEF Moves, Close, Running
  <2>7. QED
    BY <2>6
<1>7. CASE ShutsDown(s)
  <2>1. conn[s] = c /\ c.stage = "shutting"
    BY <1>7 DEF ShutsDown, c
  <2>2. CASE c.early
    <3> DEFINE new == [c EXCEPT !.stage = "draining"]
    <3>1. /\ new \in Connection /\ new.stage = "draining" /\ new.size = c.size
          /\ new.left = c.left /\ new.budget = c.budget /\ new.why = c.why
      BY <1>0 DEF Connection, Running
    <3>2. Sound(new)
      BY <1>0, <2>1, <3>1 DEF Sound, WithinLimits
    <3>3. Moves(s, new)
      BY <1>7, <2>1, <2>2, <3>1, <3>2 DEF Moves, ShutsDown, Running
    <3>4. QED
      BY <3>3
  <2>3. CASE ~c.early
    BY <1>7, <2>1, <2>3, OverMoves DEF ShutsDown, Reasons, Running
  <2>4. QED
    BY <2>2, <2>3
<1>8. CASE Drain(s)
  <2> DEFINE new == [c EXCEPT !.left = @ - 1, !.budget = @ - 1]
  <2>1. conn[s] = c /\ c.stage = "draining" /\ c.left > 0 /\ c.budget > 0
    BY <1>8 DEF Drain, c
  <2>9. c.left - 1 \in 0..MaxUpload /\ c.budget - 1 \in 0..LingerMax
    BY <1>0, <2>1
  <2>2. /\ new \in Connection /\ new.stage = "draining" /\ new.size = c.size
        /\ new.left = c.left - 1 /\ new.budget = c.budget - 1 /\ new.why = c.why
    <3> DEFINE left == c.left - 1
               budget == c.budget - 1
    <3>1. left \in 0..MaxUpload /\ budget \in 0..LingerMax
      BY <2>9
    <3>2. new = [c EXCEPT !.left = left, !.budget = budget]
      BY <1>0 DEF Connection
    <3> HIDE DEF left, budget, new
    <3>3. /\ new \in Connection /\ new.stage = c.stage /\ new.size = c.size
          /\ new.left = left /\ new.budget = budget /\ new.why = c.why
      BY <1>0, <3>1, <3>2 DEF Connection
    <3>4. QED
      BY <2>1, <3>3 DEF left, budget
  <2>3. Sound(new)
    BY <1>0, <2>1, <2>2 DEF Sound, WithinLimits
  <2>4. Moves(s, new)
    BY <1>8, <2>1, <2>2, <2>3 DEF Moves, Drain, Running
  <2>5. QED
    BY <2>4
<1>9. CASE \/ HandshakeFails(s) \/ HandshakeTimesOut(s) \/ HeadTimesOut(s) \/ LingerTimesOut(s)
           \/ ConnectionFails(s) \/ LingerFails(s) \/ PeerCloses(s) \/ BudgetSpent(s)
  <2>1. \E why \in Reasons \ {"none"} : Ends(s, why) /\ conn[s].stage \in Running
    BY <1>9 DEF HandshakeFails, HandshakeTimesOut, HeadTimesOut, LingerTimesOut, ConnectionFails,
       LingerFails, PeerCloses, BudgetSpent, Reasons, Running
  <2>2. QED
    BY <2>1, OverMoves
<1>10. QED
  BY <1>1, <1>2, <1>3, <1>4, <1>5, <1>6, <1>7, <1>8, <1>9
  DEF ConnectionStep, Answering, Closing, Timer, Failure

-----------------------------------------------------------------------------
(* The loop and the set.                                                   *)

LEMMA SetsAreFinite ==
    ASSUME LoopInv
    PROVE  /\ IsFiniteSet(Holders) /\ IsFiniteSet(Entries)
           /\ Cardinality(Holders) \in Nat /\ Cardinality(Entries) \in Nat
           /\ Holders \subseteq Entries
BY LimitsAssumption, FS_Subset, FS_CardinalityType DEF Holders, Entries, Running

LEMMA MoveKeeps ==
    ASSUME IInv, NEW s \in Slots, NEW new, Moves(s, new) PROVE IInv'
<1>1. /\ conn' \in [Slots -> Connection]
      /\ \A t \in Slots : conn'[t] = IF t = s THEN new ELSE conn[t]
  BY DEF IInv, LoopInv, Moves, Becomes, Sound
<1>2. Entries' = Entries /\ Holders' \subseteq Holders
  BY <1>1 DEF Entries, Holders, Moves, Running
<1>3. Cardinality(Holders') <= Cardinality(Holders)
  BY <1>2, SetsAreFinite, FS_Subset DEF IInv
<1>4. Cardinality(Holders) \in Nat /\ Cardinality(Holders') \in Nat
  BY <1>2, SetsAreFinite, FS_Subset, FS_CardinalityType DEF IInv
<1>5. SetBounded'
  BY <1>2, <1>3, <1>4, LimitsAssumption DEF IInv, SetBounded
<1>6. \A t \in Slots : WithinLimits(conn'[t])
  BY <1>1 DEF IInv, Moves, Sound
<1>7. LoopInv'
  BY <1>1, <1>2 DEF IInv, LoopInv, Moves, Becomes
<1>8. QED
  BY <1>5, <1>6, <1>7 DEF IInv

LEMMA EntersOne ==
    ASSUME IInv, NEW s \in Slots, Accept(s) PROVE IInv'
<1> DEFINE new == At("handshake", FALSE)
<1>0. Sound(new) /\ new.stage = "handshake"
  BY NoRequestIsSound DEF At
<1>1. /\ conn' \in [Slots -> Connection]
      /\ \A t \in Slots : conn'[t] = IF t = s THEN new ELSE conn[t]
  BY <1>0 DEF IInv, LoopInv, Accept, Sound
<1>2. conn[s].stage = "empty"
  BY DEF Accept, Empty, At
<1>3. /\ s \notin Entries /\ s \notin Holders
      /\ Entries' = Entries \cup {s} /\ Holders' = Holders \cup {s}
  BY <1>0, <1>1, <1>2 DEF Entries, Holders, Running
<1>4. /\ Cardinality(Entries') = Cardinality(Entries) + 1
      /\ Cardinality(Holders') = Cardinality(Holders) + 1
  BY <1>3, SetsAreFinite, FS_AddElement DEF IInv
<1>5. SetBounded'
  BY <1>4, SetsAreFinite, LimitsAssumption DEF SetBounded, IInv, LoopInv, Accept
<1>6. \A t \in Slots : WithinLimits(conn'[t])
  BY <1>0, <1>1 DEF IInv, Sound
<1>7. LoopInv'
  <2>1. backlog - 1 \in 0..MaxBacklog
    BY LimitsAreNumbers DEF IInv, LoopInv, Accept
  <2>2. QED
    BY <1>1, <2>1 DEF IInv, LoopInv, Accept
<1>8. QED
  BY <1>5, <1>6, <1>7 DEF IInv

LEMMA LeavesKeep ==
    ASSUME IInv, NEW gone \in SUBSET Slots, loop' \in {"select", "stopped"},
           shutdown' \in BOOLEAN, backlog' \in 0..MaxBacklog,
           conn' = [s \in Slots |-> IF s \in gone THEN Empty ELSE conn[s]]
    PROVE  IInv'
<1>0. Sound(Empty) /\ Empty.stage = "empty"
  BY NoRequestIsSound DEF Empty, At
<1>1. conn' \in [Slots -> Connection] /\ \A s \in Slots : WithinLimits(conn'[s])
  BY <1>0 DEF IInv, LoopInv, Sound
<1>2. Entries' \subseteq Entries /\ Holders' \subseteq Holders
  BY <1>0 DEF Entries, Holders, Running
<1>3. /\ Cardinality(Entries') <= Cardinality(Entries) /\ Cardinality(Entries') \in Nat
      /\ Cardinality(Holders') <= Cardinality(Holders) /\ Cardinality(Holders') \in Nat
  BY <1>2, SetsAreFinite, FS_Subset, FS_CardinalityType DEF IInv
<1>4. SetBounded'
  BY <1>3, SetsAreFinite, LimitsAssumption DEF IInv, SetBounded
<1>5. QED
  BY <1>1, <1>4 DEF IInv, LoopInv

LEMMA PollKeeps == ASSUME IInv, PollSelect PROVE IInv'
<1>0. conn = [s \in Slots |-> conn[s]]
  BY DEF IInv, LoopInv
<1>1. CASE Stop
  <2>1. conn' = [s \in Slots |-> IF s \in Slots THEN Empty ELSE conn[s]]
    BY <1>1 DEF Stop
  <2>2. loop' = "stopped" /\ shutdown' \in BOOLEAN /\ backlog' \in 0..MaxBacklog
    BY <1>1, LimitsAssumption DEF Stop, IInv, LoopInv
  <2>3. QED
    BY <2>1, <2>2, LeavesKeep
<1>2. CASE Reap /\ loop = "select"
  <2>1. PICK s \in Unreaped : conn' = [conn EXCEPT ![s] = Empty]
    BY <1>2 DEF Reap
  <2>2. conn' = [t \in Slots |-> IF t \in {s} THEN Empty ELSE conn[t]]
    BY <1>0, <2>1
  <2>3. {s} \in SUBSET Slots
    BY <2>1 DEF Unreaped
  <2>4. loop' = "select" /\ shutdown' \in BOOLEAN /\ backlog' \in 0..MaxBacklog
    BY <1>2 DEF Reap, IInv, LoopInv
  <2>5. QED
    BY <2>2, <2>3, <2>4, LeavesKeep
<1>3. CASE PollsAccept /\ Unreaped = {}
  <2>1. Entries = Holders
    <3>1. \A s \in Slots : conn[s].stage \in Running \cup {"empty", "over"}
      BY DEF IInv, LoopInv, Connection
    <3>2. QED
      BY <1>3, <3>1 DEF Entries, Holders, Unreaped, Running
  <2>2. Entries' = Entries /\ Holders' = Holders /\ SetBounded' = SetBounded
    BY <1>3 DEF PollsAccept, Entries, Holders, SetBounded
  <2>3. Cardinality(Entries) <= MaxConnections
    BY <2>1 DEF IInv, SetBounded
  <2>4. QED
    BY <1>3, <2>2, <2>3 DEF PollsAccept, IInv, LoopInv
<1>4. QED
  BY <1>1, <1>2, <1>3 DEF PollSelect

\* The steps that touch no slot and do not turn to the listener.
LEMMA OthersKeep ==
    ASSUME IInv, conn' = conn, loop' \in {loop, "select", "backoff"},
           shutdown' \in BOOLEAN, backlog' \in 0..MaxBacklog
    PROVE  IInv'
<1>1. Entries' = Entries /\ Holders' = Holders /\ SetBounded' = SetBounded
  BY DEF Entries, Holders, SetBounded
<1>2. QED
  BY <1>1 DEF IInv, LoopInv

LEMMA Starts == Init => IInv
<1> SUFFICES ASSUME Init PROVE IInv
  OBVIOUS
<1>0. Sound(Empty) /\ Empty.stage = "empty"
  BY NoRequestIsSound DEF Empty, At
<1>1. Entries = {} /\ Holders = {}
  BY <1>0 DEF Init, Entries, Holders, Running
<1>2. Cardinality(Entries) = 0 /\ Cardinality(Holders) = 0
  BY <1>1, FS_EmptySet
<1>3. conn \in [Slots -> Connection] /\ \A s \in Slots : WithinLimits(conn[s])
  BY <1>0 DEF Init, Sound
<1>4. SetBounded /\ Cardinality(Entries) <= MaxConnections /\ backlog \in 0..MaxBacklog
  BY <1>2, LimitsAreNumbers DEF Init, SetBounded
<1>5. QED
  BY <1>3, <1>4 DEF Init, IInv, LoopInv

LEMMA InvKept == IInv /\ [Next]_vars => IInv'
<1> SUFFICES ASSUME IInv, [Next]_vars PROVE IInv'
  OBVIOUS
<1>1. CASE LoopStep
  <2>1. CASE PollSelect
    BY <2>1, PollKeeps
  <2>2. CASE \E s \in Slots : Accept(s)
    BY <2>2, EntersOne
  <2>3. CASE NothingToAccept \/ RefuseAtCap \/ BackoffEnds
    <3>1. conn' = conn /\ loop' = "select" /\ shutdown' = shutdown
          /\ backlog' \in {backlog, backlog - 1} /\ (backlog' # backlog => backlog > 0)
      BY <2>3 DEF NothingToAccept, RefuseAtCap, BackoffEnds
    <3>2. shutdown' \in BOOLEAN /\ backlog' \in 0..MaxBacklog
      BY <3>1, LimitsAssumption DEF IInv, LoopInv
    <3>3. QED
      BY <3>1, <3>2, OthersKeep
  <2>4. QED
    BY <1>1, <2>1, <2>2, <2>3 DEF LoopStep
<1>2. CASE Environment
  <2>1. conn' = conn /\ loop' \in {loop, "backoff"} /\ shutdown' \in {shutdown, TRUE}
        /\ backlog' \in {backlog, backlog + 1} /\ (backlog' # backlog => backlog < MaxBacklog)
    BY <1>2 DEF Environment, Connect, ShutdownSignal, AcceptFails
  <2>2. backlog' \in 0..MaxBacklog
    BY <2>1, LimitsAreNumbers DEF IInv, LoopInv
  <2>3. shutdown' \in BOOLEAN
    BY <2>1, Zenon DEF IInv, LoopInv
  <2>4. QED
    BY <2>1, <2>2, <2>3, OthersKeep
<1>3. CASE \E s \in Slots : ConnectionStep(s)
  BY <1>3, TaskMoves, MoveKeeps
<1>4. CASE UNCHANGED vars
  BY <1>4, OthersKeep DEF vars, IInv, LoopInv
<1>5. QED
  BY <1>1, <1>2, <1>3, <1>4 DEF Next

(* Whatever the loop, the peers and the tasks do and in what order, the set *)
(* and what is read of each body stay within the limits.                   *)
THEOREM Inductive == Spec => []IInv
BY InvKept, Starts, PTL DEF Spec

(* The set never holds more than one entry beyond the permits, and no more *)
(* tasks run than there are permits (accept.rs:258, :271), for any number  *)
(* of permits.                                                             *)
THEOREM SetStaysBounded == Spec => []SetBounded
<1>1. IInv => SetBounded
  BY DEF IInv
<1>2. QED
  BY <1>1, Inductive, PTL

(* Of one body the server takes at most the cap, the unit that broke it and *)
(* the drain's budget (linger.rs:16-21), for any limits.                   *)
THEOREM ReadsStayBounded == Spec => []ReadsBounded
<1>1. IInv => ReadsBounded
  <2> SUFFICES ASSUME IInv, NEW s \in Slots
               PROVE  Taken(s) <= BodyCap + 1 + LingerMax
    BY DEF ReadsBounded
  <2>1. conn[s] \in Connection /\ WithinLimits(conn[s])
    BY DEF IInv, LoopInv
  <2>2. QED
    BY <2>1, LimitsAssumption DEF Connection, WithinLimits, Taken
<1>2. QED
  BY <1>1, Inductive, PTL

-----------------------------------------------------------------------------
(* The graceful close.                                                     *)

\* A response that was not marked early has nothing left to read, and the
\* drain's budget covers what is left of a body that it covers as a whole.
Graceful(c) ==
    /\ c.stage \in {"answering", "shutting"} /\ ~c.early => c.left = 0
    /\ c.stage \in {"shutting", "draining"} /\ c.size <= LingerMax => c.left <= c.budget

\* The step does not cut such a body off but for a failure or the time.
NotCut(c, new) ==
    c.stage # "over" /\ new.stage = "over" /\ c.left > 0 /\ c.size <= LingerMax
      => new.why \in {"error", "failed", "time"}

GInv == IInv /\ \A s \in Slots : Graceful(conn[s])

LEMMA StepIsGraceful ==
    ASSUME GInv, NEW s \in Slots, ConnectionStep(s)
    PROVE  \E new : Becomes(s, new) /\ Graceful(new) /\ NotCut(conn[s], new)
<1> DEFINE c == conn[s]
<1>0. /\ c \in Connection /\ WithinLimits(c) /\ Graceful(c)
      /\ c.size \in Nat /\ c.left \in Nat /\ c.budget \in Nat /\ c.early \in BOOLEAN
      /\ c.left <= c.size
  BY LimitsAssumption DEF GInv, IInv, LoopInv, WithinLimits, Connection
<1> HIDE DEF c
<1> USE LimitsAreNumbers
<1>a. ASSUME NEW why, Ends(s, why),
             why \in {"error", "failed", "time"} \/ c.left = 0 \/ c.size > LingerMax
      PROVE  \E new : Becomes(s, new) /\ Graceful(new) /\ NotCut(conn[s], new)
  <2>1. Over(why).stage = "over" /\ Over(why).why = why
    BY DEF Over, At
  <2>2. Graceful(Over(why)) /\ NotCut(conn[s], Over(why))
    BY <1>0, <1>a, <2>1 DEF Graceful, NotCut, c
  <2> QED BY <1>a, <2>2 DEF Ends
<1>b. ASSUME NEW new, Becomes(s, new), new.stage # "over", Graceful(new)
      PROVE  \E d : Becomes(s, d) /\ Graceful(d) /\ NotCut(conn[s], d)
  BY <1>b DEF NotCut
<1>1. CASE HandshakeCompletes(s) \/ KeepAlive(s)
  <2>1. PICK early : Becomes(s, At("head", early))
    BY <1>1 DEF HandshakeCompletes, KeepAlive
  <2>2. At("head", early).stage = "head"
    BY DEF At
  <2> QED BY <1>b, <2>1, <2>2 DEF Graceful
<1>2. CASE Request(s)
  <2>1. PICK size \in 0..MaxUpload, declared \in BOOLEAN :
          AnswerFromHead(s, size) \/ Dispatch(s, size, declared)
    BY <1>2 DEF Request
  <2>2. CASE AnswerFromHead(s, size)
    <3> DEFINE new == Answer(WithBody(c, size), size = 0)
    <3>1. new.stage = "answering" /\ new.left = size /\ (~new.early => size = 0)
      BY <1>0 DEF Answer, WithBody, Connection
    <3>2. Becomes(s, new)
      BY <2>2 DEF AnswerFromHead, c
    <3> HIDE DEF new
    <3> QED BY <1>b, <3>1, <3>2 DEF Graceful
  <2>3. CASE Dispatch(s, size, declared)
    <3> DEFINE new == [WithBody(c, size) EXCEPT !.stage = "serving"]
    <3>1. new.stage = "serving"
      BY <1>0 DEF WithBody, Connection
    <3>2. Becomes(s, new)
      BY <2>3 DEF Dispatch, c
    <3> HIDE DEF new
    <3> QED BY <1>b, <3>1, <3>2 DEF Graceful
  <2> QED BY <2>1, <2>2, <2>3
<1>3. CASE ReadBody(s)
  <2> DEFINE new == [c EXCEPT !.left = @ - 1]
  <2>1. new.stage = "serving" /\ Becomes(s, new)
    BY <1>0, <1>3 DEF ReadBody, c, Connection
  <2> HIDE DEF new
  <2> QED BY <1>b, <2>1 DEF Graceful
<1>4. CASE TooLarge(s) \/ HandlerAnswers(s) \/ Deadline(s)
  <2>1. PICK ended \in BOOLEAN : Becomes(s, Answer(c, ended)) /\ (ended => c.left = 0)
    BY <1>4 DEF TooLarge, HandlerAnswers, Deadline, c
  <2> DEFINE new == Answer(c, ended)
  <2>2. new.stage = "answering" /\ new.left = c.left /\ (~new.early => c.left = 0)
    BY <1>0, <2>1 DEF Answer, Connection
  <2>3. Becomes(s, new)
    BY <2>1
  <2> HIDE DEF new
  <2> QED BY <1>b, <2>2, <2>3 DEF Graceful
<1>5. ASSUME NEW ahead \in 0..ReadAhead, Close(s, ahead)
      PROVE  \E new : Becomes(s, new) /\ Graceful(new) /\ NotCut(conn[s], new)
  <2> DEFINE new == [c EXCEPT !.stage = "shutting", !.left = @ - ahead,
                              !.budget = LingerMax - ahead]
  <2>1. /\ new.stage = "shutting" /\ new.left = c.left - ahead /\ new.size = c.size
        /\ new.budget = LingerMax - ahead /\ new.early = c.early
    BY <1>0 DEF Connection
  <2>2. Becomes(s, new) /\ ahead <= c.left /\ c.stage \in {"head", "answering"}
    BY <1>5 DEF Close, c
  <2> HIDE DEF new
  <2>3. ~c.early => c.left = 0
    BY <1>0, <2>2 DEF Graceful, WithinLimits
  <2> QED BY <1>0, <1>b, <2>1, <2>2, <2>3 DEF Graceful
<1>6. CASE ShutsDown(s)
  <2>1. CASE c.early
    <3> DEFINE new == [c EXCEPT !.stage = "draining"]
    <3>1. /\ new.stage = "draining" /\ new.left = c.left /\ new.size = c.size
          /\ new.budget = c.budget
      BY <1>0 DEF Connection
    <3>2. Becomes(s, new) /\ c.stage = "shutting"
      BY <1>6, <2>1 DEF ShutsDown, c
    <3> HIDE DEF new
    <3> QED BY <1>0, <1>b, <3>1, <3>2 DEF Graceful
  <2>2. CASE ~c.early
    BY <1>0, <1>a, <1>6, <2>2 DEF ShutsDown, c, Graceful
  <2> QED BY <2>1, <2>2
<1>7. CASE Drain(s)
  <2> DEFINE new == [c EXCEPT !.left = @ - 1, !.budget = @ - 1]
  <2>1. /\ new.stage = c.stage /\ new.left = c.left - 1 /\ new.size = c.size
        /\ new.budget = c.budget - 1
    BY <1>0 DEF Connection
  <2>2. Becomes(s, new) /\ c.stage = "draining"
    BY <1>7 DEF Drain, c
  <2> HIDE DEF new
  <2> QED BY <1>0, <1>b, <2>1, <2>2 DEF Graceful
<1>8. CASE PeerCloses(s) \/ BudgetSpent(s)
  BY <1>0, <1>a, <1>8 DEF PeerCloses, BudgetSpent, c, Graceful
<1>9. CASE HandshakeTimesOut(s) \/ HeadTimesOut(s) \/ LingerTimesOut(s) \/ Failure(s)
  BY <1>a, <1>9
     DEF HandshakeTimesOut, HeadTimesOut, LingerTimesOut, Failure, HandshakeFails,
         ConnectionFails, LingerFails
<1>10. QED
  BY <1>1, <1>2, <1>3, <1>4, <1>5, <1>6, <1>7, <1>8, <1>9
     DEF ConnectionStep, Answering, Closing, Timer

LEMMA LoopIsGraceful ==
    ASSUME GInv, LoopStep \/ Environment \/ UNCHANGED vars
    PROVE  \A s \in Slots : Graceful(conn'[s]) /\ NotCut(conn[s], conn'[s])
<1> SUFFICES ASSUME NEW s \in Slots PROVE Graceful(conn'[s]) /\ NotCut(conn[s], conn'[s])
  OBVIOUS
<1>1. conn \in [Slots -> Connection] /\ Graceful(conn[s])
  BY DEF GInv, IInv, LoopInv
<1>2. /\ Empty.stage = "empty" /\ At("handshake", FALSE).stage = "handshake"
  BY DEF Empty, At
<1>3. conn'[s] = conn[s] \/ conn'[s] = Empty \/ conn'[s] = At("handshake", FALSE)
  BY <1>1 DEF LoopStep, PollSelect, Stop, Reap, PollsAccept, NothingToAccept, Accept,
     RefuseAtCap, BackoffEnds, Environment, Connect, ShutdownSignal, AcceptFails, vars
<1> QED BY <1>1, <1>2, <1>3 DEF Graceful, NotCut

LEMMA EveryStepIsGraceful ==
    ASSUME GInv, [Next]_vars
    PROVE  \A s \in Slots : Graceful(conn'[s]) /\ NotCut(conn[s], conn'[s])
<1>1. ASSUME NEW s \in Slots, ConnectionStep(s), NEW r \in Slots
      PROVE  Graceful(conn'[r]) /\ NotCut(conn[r], conn'[r])
  <2>1. PICK new : Becomes(s, new) /\ Graceful(new) /\ NotCut(conn[s], new)
    BY <1>1, StepIsGraceful
  <2>2. conn' = [conn EXCEPT ![s] = new] /\ conn \in [Slots -> Connection]
    BY <2>1 DEF Becomes, GInv, IInv, LoopInv
  <2>3. CASE r = s
    BY <2>1, <2>2, <2>3
  <2>4. CASE r # s
    <3>1. conn'[r] = conn[r]
      BY <2>2, <2>4
    <3> QED BY <3>1 DEF GInv, NotCut
  <2> QED BY <2>3, <2>4
<1> QED BY <1>1, LoopIsGraceful DEF Next

LEMMA GracefulStart == Init => GInv
<1>1. Init => \A s \in Slots : conn[s] = Empty
  BY DEF Init
<1>2. Empty.stage = "empty"
  BY DEF Empty, At
<1> QED BY <1>1, <1>2, Starts DEF GInv, Graceful

(* A peer whose whole body fits the drain's budget is never cut off in the *)
(* middle of its upload by the server's own doing: for any number of slots *)
(* and permits, any cap on bodies and any read-ahead below the budget.     *)
THEOREM RefusalsComeThrough == Spec => RefusalNotReset
<1>1. GInv /\ [Next]_vars => GInv'
  BY EveryStepIsGraceful, InvKept DEF GInv
<1>2. GInv /\ [Next]_vars =>
        [\A s \in Slots :
           /\ conn[s].stage # "over"
           /\ conn'[s].stage = "over"
           /\ conn[s].left > 0
           /\ conn[s].size <= LingerMax
           => conn'[s].why \in {"error", "failed", "time"}]_vars
  BY EveryStepIsGraceful DEF NotCut
<1> QED BY <1>1, <1>2, GracefulStart, PTL DEF Spec, RefusalNotReset
=============================================================================
