--------------------------- MODULE RequestsProofs ---------------------------
(***************************************************************************)
(* What the answers and the log of the pipeline tell, for any clients, any *)
(* number of connections and requests, and a log of any capacity.          *)
(***************************************************************************)
EXTENDS Requests, TLAPS

Fields == {"stage", "r", "todo", "event", "code", "noted", "effects", "headers"}

(* Where a request may still change the session manager, it is one of the  *)
(* application's own page; n is the live session.                          *)
FromOwnPage(r) ==
  /\ r.host = <<OwnHost>> /\ r.origin = <<OwnOrigin>>
  /\ r.site = <<"same-origin">> /\ r.method = "POST"
MayRelaunch(r, n) ==
  FromOwnPage(r) /\ r.path = Relaunch /\ Len(r.proof) = 1 /\ r.proof[1] \in 1 .. n
MayRedeem(r) == FromOwnPage(r) /\ r.path = Bootstrap /\ r.type[1] \in JsonTypes

(* The answer a request has come to: its code, what it did, and an event   *)
(* among those it has recorded or is about to.                             *)
Told(j, n) ==
  /\ j.code \in DOMAIN Status
  /\ j.effects \in (IF j.code \in DOMAIN Outcome THEN Outcome[j.code] ELSE {{}})
  /\ j.effects = {} \/ MayRedeem(j.r) \/ MayRelaunch(j.r, n)
  /\ j.code = "established" => MayRedeem(j.r)
Explained(j, events) == \E e \in events : Explains(e, Status[j.code])
Ahead(todo) == {todo[i] : i \in 1 .. Len(todo)}

SoundAt(j, n) ==
  CASE j.stage = "reading" ->
         /\ j.effects = {} /\ j.todo = <<>> /\ FromOwnPage(j.r)
         /\ BodyError(j.r) = None /\ j.r.path = Bootstrap => j.r.type[1] \in JsonTypes
    [] j.stage = "charging" -> j.effects = {} /\ MayRelaunch(j.r, n)
    [] j.stage = "minting" -> j.effects = {"charged"} /\ MayRelaunch(j.r, n)
    [] j.stage = "opening" -> j.effects = {"charged", "minted"} /\ MayRelaunch(j.r, n)
    [] j.stage = "answering" ->
         Told(j, n) /\ Explained(j, j.noted \cup Ahead(j.todo) \cup {j.event})
    [] j.stage = "answered" ->
         /\ Told(j, n) /\ Explained(j, j.noted)
         /\ j.headers = Headers(j.r, j.event, j.code)
    [] OTHER -> FALSE

Sound(j, n) ==
  j = NoRequest \/ (Fields \subseteq DOMAIN j /\ j.todo \in Seq(EventCode) /\ SoundAt(j, n))

LogInv ==
  /\ nextSeq \in Nat \ {0} /\ \E S : ring \in Seq(S)
  /\ RingHoldsNewest

JobsInv == \A c \in Conn : Sound(job[c], live)

IInv == LogInv /\ live \in Nat /\ job = [c \in Conn |-> job[c]] /\ JobsInv

-----------------------------------------------------------------------------
(* The ring keeps the newest events through a push.                        *)
LEMMA PushKeeps ==
  ASSUME LogInv, NEW code, NEW status, Push(code, status) PROVE LogInv'
<1> DEFINE new == [seq |-> nextSeq, code |-> code, status |-> status]
           kept == IF Len(ring) = Room THEN Tail(ring) ELSE ring
<1>1. PICK S : ring \in Seq(S)
  BY DEF LogInv
<1>2. Room \in Nat /\ Room >= 1
  BY CapacityAssumption DEF Room
<1>3. nextSeq \in Nat \ {0} /\ RingHoldsNewest
  BY DEF LogInv
<1>4. /\ nextSeq' = nextSeq + 1 /\ ring' = Append(kept, new)
      /\ new.seq = nextSeq
  BY DEF Push
<1>5. Len(ring) \in Nat /\ DOMAIN ring = 1 .. Len(ring)
  BY <1>1
<1>6. ring # <<>> \/ Len(ring) # Room
  BY <1>1, <1>2
<1>7. /\ kept \in Seq(S) /\ Len(kept) < Room
      /\ Len(kept) = IF Len(ring) = Room THEN Len(ring) - 1 ELSE Len(ring)
      /\ Len(kept) = IF nextSeq - 1 < Room THEN nextSeq - 1 ELSE Room - 1
      /\ \A i \in 1 .. Len(kept) :
           kept[i] = IF Len(ring) = Room THEN ring[i + 1] ELSE ring[i]
  BY <1>1, <1>2, <1>3, <1>5, <1>6 DEF RingHoldsNewest
<1>8. \A i \in 1 .. Len(kept) : kept[i].seq = nextSeq - 1 - Len(kept) + i
  <2> SUFFICES ASSUME NEW i \in 1 .. Len(kept)
               PROVE  kept[i].seq = nextSeq - 1 - Len(kept) + i
    OBVIOUS
  <2>1. \A k \in 1 .. Len(ring) : ring[k].seq = nextSeq - 1 - Len(ring) + k
    BY <1>3, <1>5 DEF RingHoldsNewest
  <2>2. CASE Len(ring) = Room
    <3>1. i + 1 \in 1 .. Len(ring) /\ kept[i] = ring[i + 1] /\ Len(kept) = Len(ring) - 1
      BY <2>2, <1>5, <1>7
    <3>2. ring[i + 1].seq = nextSeq - 1 - Len(ring) + (i + 1)
      BY <2>1, <3>1
    <3> HIDE DEF kept
    <3>3. QED
      BY <3>1, <3>2, <1>3, <1>5
  <2>3. CASE Len(ring) # Room
    BY <2>3, <2>1, <1>5, <1>7
  <2>4. QED
    BY <2>2, <2>3
<1> HIDE DEF new, kept
<1>9. /\ ring' \in Seq(S \cup {new}) /\ Len(ring') = Len(kept) + 1
      /\ DOMAIN ring' = 1 .. Len(kept) + 1
      /\ \A i \in 1 .. Len(kept) : ring'[i] = kept[i]
      /\ ring'[Len(kept) + 1] = new
  BY <1>4, <1>7
<1>10. RingHoldsNewest'
  <2>1. Room' = Room
    BY DEF Room
  <2>2. Len(ring') = IF nextSeq' - 1 < Room THEN nextSeq' - 1 ELSE Room
    BY <1>2, <1>3, <1>4, <1>7, <1>9
  <2>3. \A i \in DOMAIN ring' : ring'[i].seq = nextSeq' - 1 - Len(ring') + i
    <3>0. Len(kept) \in Nat /\ nextSeq \in Nat /\ Len(ring') = Len(kept) + 1
      BY <1>3, <1>7, <1>9
    <3> SUFFICES ASSUME NEW i \in 1 .. Len(kept) + 1
                 PROVE  ring'[i].seq = nextSeq' - 1 - Len(ring') + i
      BY <1>9
    <3>1. CASE i = Len(kept) + 1
      BY <3>0, <3>1, <1>4, <1>9
    <3>2. CASE i \in 1 .. Len(kept)
      <4>1. ring'[i] = kept[i]
        BY <3>2, <1>9
      <4>2. kept[i].seq = nextSeq - 1 - Len(kept) + i
        BY <3>2, <1>8
      <4>3. QED
        BY <3>0, <4>1, <4>2, <1>4
    <3>3. QED
      BY <3>0, <3>1, <3>2
  <2>4. QED
    BY <2>1, <2>2, <2>3 DEF RingHoldsNewest
<1>11. QED
  BY <1>3, <1>4, <1>9, <1>10 DEF LogInv

LEMMA RecordsKeep ==
  ASSUME LogInv, NEW code, NEW status,
         Record(code) \/ RecordRequest(code, status) \/ UNCHANGED log
  PROVE  LogInv'
<1>1. CASE UNCHANGED log
  BY <1>1 DEF LogInv, RingHoldsNewest, log, Room
<1>2. CASE Record(code) \/ RecordRequest(code, status)
  BY <1>2, PushKeeps DEF Record, RecordRequest
<1>3. QED
  BY <1>1, <1>2

-----------------------------------------------------------------------------
(* Admission, for any request.                                             *)
LEMMA RefusalIsOne ==
  ASSUME NEW r
  PROVE  /\ Refusal(r) \in {None, "misdirected_host", "origin_forbidden",
                            "fetch_site_forbidden", "method_not_allowed",
                            "payload_too_large", "unsupported_media_type"}
         /\ Refusal(r) = None =>
              /\ HostIsOwn(r) /\ OriginIsOwn(r) /\ FetchSiteIsOwn(r)
              /\ LengthFits(r) /\ BodyIsJson(r)
<1> DEFINE rules == Rules(r)
           broken == {i \in DOMAIN rules : ~rules[i].holds}
           first == CHOOSE i \in broken : \A j \in broken : i <= j
<1>1. /\ DOMAIN rules = 1 .. 6
      /\ rules[1].refusal = "misdirected_host" /\ rules[1].holds = HostIsOwn(r)
      /\ rules[2].refusal = "origin_forbidden" /\ rules[2].holds = OriginIsOwn(r)
      /\ rules[3].refusal = "fetch_site_forbidden" /\ rules[3].holds = FetchSiteIsOwn(r)
      /\ rules[4].refusal = "method_not_allowed" /\ rules[4].holds = MethodIsAllowed(r)
      /\ rules[5].refusal = "payload_too_large" /\ rules[5].holds = LengthFits(r)
      /\ rules[6].refusal = "unsupported_media_type" /\ rules[6].holds = BodyIsJson(r)
  BY DEF Rules
<1>2. Refusal(r) = IF broken = {} THEN None ELSE rules[first].refusal
  BY DEF Refusal
<1> HIDE DEF rules
<1>3. broken # {} => first \in 1 .. 6
  <2> SUFFICES ASSUME broken # {} PROVE \E i \in broken : \A j \in broken : i <= j
    BY <1>1
  <2>1. broken \subseteq 1 .. 6
    BY <1>1
  <2> HIDE DEF broken
  <2>2. CASE 1 \in broken
    BY <2>1, <2>2
  <2>3. CASE 1 \notin broken /\ 2 \in broken
    BY <2>1, <2>3
  <2>4. CASE 1 \notin broken /\ 2 \notin broken /\ 3 \in broken
    BY <2>1, <2>4
  <2>5. CASE 1 \notin broken /\ 2 \notin broken /\ 3 \notin broken /\ 4 \in broken
    BY <2>1, <2>5
  <2>6. CASE broken \subseteq {5, 6}
    <3>1. CASE 5 \in broken
      BY <2>6, <3>1
    <3>2. CASE 5 \notin broken
      <4>1. broken = {6}
        BY <2>6, <3>2
      <4>2. QED
        BY <4>1
    <3>3. QED
      BY <3>1, <3>2
  <2>7. broken \subseteq {1, 2, 3, 4, 5, 6}
    BY <2>1
  <2>8. QED
    BY <2>2, <2>3, <2>4, <2>5, <2>6, <2>7
<1> HIDE DEF first
<1>4. broken # {} => rules[first].refusal \in
        {"misdirected_host", "origin_forbidden", "fetch_site_forbidden",
         "method_not_allowed", "payload_too_large", "unsupported_media_type"}
  <2> SUFFICES ASSUME first \in 1 .. 6
               PROVE  rules[first].refusal \in
                 {"misdirected_host", "origin_forbidden", "fetch_site_forbidden",
                  "method_not_allowed", "payload_too_large", "unsupported_media_type"}
    BY <1>3
  <2>1. first \in {1, 2, 3, 4, 5, 6}
    OBVIOUS
  <2>2. QED
    BY <1>1, <2>1
<1>5. broken = {} => /\ HostIsOwn(r) /\ OriginIsOwn(r) /\ FetchSiteIsOwn(r)
                     /\ LengthFits(r) /\ BodyIsJson(r)
  BY <1>1
<1> HIDE DEF broken
<1>6. QED
  BY <1>2, <1>4, <1>5, NoneAssumption

(* A request of the API that is admitted and goes past the gate is the own *)
(* page's, unless it is no POST; the fields of a shape stay when it is     *)
(* sent, but for the credentials.                                          *)
LEMMA SentKeeps ==
  ASSUME NEW shape \in Shapes
  PROVE  LET r == Sent(shape)
         IN  /\ r.path = shape.path /\ r.method = shape.method /\ r.host = shape.host
             /\ r.origin = shape.origin /\ r.site = shape.site /\ r.type = shape.type
             /\ r.body = shape.body /\ r.chunked = shape.chunked /\ r.size = shape.size
BY ShapesAssumption DEF Sent

LEMMA PassedIsOwn ==
  ASSUME NEW shape \in Shapes, Pass(shape), shape.method = "POST"
  PROVE  /\ FromOwnPage(Sent(shape))
         /\ BodyIsJson(shape) /\ LengthFits(shape)
         /\ GateError(Sent(shape)) = None
<1>1. Refusal(shape) = None /\ Class(shape.path) = "api"
  BY DEF Pass, Admitted
<1>2. HostIsOwn(shape) /\ OriginIsOwn(shape) /\ FetchSiteIsOwn(shape)
  BY <1>1, RefusalIsOne
<1>3. shape.host = <<OwnHost>> /\ shape.origin = <<OwnOrigin>> /\ shape.site = <<"same-origin">>
  BY <1>1, <1>2 DEF HostIsOwn, OriginIsOwn, MayOmitOrigin, FetchSiteIsOwn
<1>4. QED
  BY <1>1, <1>3, RefusalIsOne, SentKeeps DEF FromOwnPage, Pass

-----------------------------------------------------------------------------
(* The codes that need no event, and the events that explain the others.   *)
LEMMA Explanations ==
  /\ \A code \in {"ok", "established", "accepted", "not_modified", "misdirected_host",
                  "origin_forbidden", "fetch_site_forbidden", "method_not_allowed",
                  "headers_too_large", "payload_too_large", "unsupported_media_type",
                  "invalid_json", "request_invalid", "schedule_input_invalid", "not_found"} :
       \A e : Explains(e, Status[code])
  /\ Explains("session_required", Status["session_required"])
  /\ Explains("bootstrap_rejected", Status["launch_token_invalid"])
  /\ Explains("session_cookie_displaced", Status["session_cookie_displaced"])
  /\ Explains("request_deadline", Status["request_timeout"])
  /\ Explains("relaunch_throttled", Status["relaunch_throttled"])
  /\ Explains("relaunch_exhausted", Status["relaunch_exhausted"])
  /\ Explains("entropy_unavailable", Status["internal_error"])
  /\ Explains("internal_error", Status["internal_error"])
  /\ Explains("relaunch_unavailable", Status["open_unavailable"])
<1> USE DEF Explains, Level, Errors, Warnings
<1>1. /\ Status["session_required"] = 401 /\ Status["launch_token_invalid"] = 401
      /\ Status["session_cookie_displaced"] = 409 /\ Status["request_timeout"] = 408
      /\ Status["relaunch_throttled"] = 429 /\ Status["relaunch_exhausted"] = 429
      /\ Status["internal_error"] = 500 /\ Status["open_unavailable"] = 503
  BY DEF Status
<1>2. \A code \in {"ok", "established", "accepted", "not_modified", "misdirected_host",
                  "origin_forbidden", "fetch_site_forbidden", "method_not_allowed",
                  "headers_too_large", "payload_too_large", "unsupported_media_type",
                  "invalid_json", "request_invalid", "schedule_input_invalid", "not_found"} :
        Status[code] \in {200, 202, 304, 421, 403, 405, 431, 413, 415, 400, 422, 404}
  BY DEF Status
<1>3. ASSUME NEW n \in {200, 202, 304, 421, 403, 405, 431, 413, 415, 400, 422, 404}, NEW e
      PROVE  Explains(e, n)
  BY <1>3
<1>4. QED
  BY <1>1, <1>2, <1>3

LEMMA CodesAreKnown ==
  \A code \in {"ok", "established", "accepted", "not_modified", "misdirected_host",
     "origin_forbidden", "fetch_site_forbidden", "method_not_allowed", "headers_too_large",
     "payload_too_large", "unsupported_media_type", "request_timeout", "session_required",
     "session_cookie_displaced", "launch_token_invalid", "relaunch_throttled",
     "relaunch_exhausted", "open_unavailable", "invalid_json", "request_invalid",
     "schedule_input_invalid", "not_found", "internal_error"} : code \in DOMAIN Status
BY DEF Status

LEMMA Outcomes ==
  /\ DOMAIN Outcome = {"established", "accepted", "launch_token_invalid", "internal_error",
                       "open_unavailable"}
  /\ Outcome["established"] = {{"established"}}
  /\ Outcome["accepted"] = {{"charged", "minted"}}
  /\ Outcome["launch_token_invalid"] = {{}, {"withdrawn"}}
  /\ Outcome["internal_error"] = {{}, {"withdrawn"}, {"charged"}}
  /\ Outcome["open_unavailable"] = {{}, {"charged", "minted"}}
BY DEF Outcome

-----------------------------------------------------------------------------
(* One request moves, the others stay.                                     *)
LEMMA OlderSessionsStay ==
  ASSUME NEW j, NEW n \in Nat, NEW m \in Nat, n <= m, Sound(j, n) PROVE Sound(j, m)
<1>1. MayRelaunch(j.r, n) => MayRelaunch(j.r, m)
  BY DEF MayRelaunch
<1>2. SoundAt(j, n) => SoundAt(j, m)
  BY <1>1 DEF SoundAt, Told
<1>3. QED
  BY <1>2 DEF Sound

LEMMA OneMoves ==
  ASSUME IInv, NEW c \in Conn, LogInv', live' \in Nat, live <= live',
         job' = [d \in Conn |-> IF d = c THEN job'[c] ELSE job[d]],
         Sound(job'[c], live')
  PROVE  IInv'
<1>1. ASSUME NEW d \in Conn PROVE Sound(job'[d], live')
  <2>1. CASE d = c
    BY <2>1
  <2>2. CASE d # c
    <3>1. job'[d] = job[d] /\ Sound(job[d], live) /\ live \in Nat
      BY <2>2 DEF IInv, JobsInv
    <3>2. QED
      BY <3>1, OlderSessionsStay
  <2>3. QED
    BY <2>1, <2>2
<1>2. job' = [d \in Conn |-> job'[d]]
  OBVIOUS
<1>3. QED
  BY <1>1, <1>2 DEF IInv, JobsInv

LEMMA NewJob ==
  ASSUME NEW stage, NEW r, NEW todo, NEW event, NEW code
  PROVE  LET j == Job(stage, r, todo, event, code)
         IN  /\ Fields \subseteq DOMAIN j /\ j.stage = stage /\ j.r = r /\ j.todo = todo
             /\ j.event = event /\ j.code = code /\ j.noted = {} /\ j.effects = {}
BY DEF Job, Fields

LEMMA InFlight ==
  ASSUME IInv, NEW c \in Conn, job[c].stage # "idle"
  PROVE  Fields \subseteq DOMAIN job[c] /\ job[c].todo \in Seq(EventCode) /\ SoundAt(job[c], live)
BY DEF IInv, JobsInv, Sound, NoRequest

LEMMA EndsAs ==
  ASSUME IInv, NEW c \in Conn, job[c].stage # "idle",
         NEW todo, NEW effects, NEW code, Ends(c, todo, effects, code)
  PROVE  /\ job' = [d \in Conn |-> IF d = c THEN job'[c] ELSE job[d]]
         /\ Fields \subseteq DOMAIN job'[c] /\ job'[c].stage = "answering"
         /\ job'[c].todo = todo /\ job'[c].effects = job[c].effects \cup effects
         /\ job'[c].code = code /\ job'[c].r = job[c].r
         /\ job'[c].event = job[c].event /\ job'[c].noted = job[c].noted
<1>1. job = [d \in Conn |-> job[d]]
  BY DEF IInv
<1>2. Fields \subseteq DOMAIN job[c]
  BY InFlight
<1>3. QED
  BY <1>1, <1>2 DEF Ends, Fields

LEMMA GoesOn ==
  ASSUME IInv, NEW c \in Conn, job[c].stage # "idle",
         NEW stage, NEW todo, NEW effects, Goes(c, stage, todo, effects)
  PROVE  /\ job' = [d \in Conn |-> IF d = c THEN job'[c] ELSE job[d]]
         /\ Fields \subseteq DOMAIN job'[c] /\ job'[c].stage = stage
         /\ job'[c].todo = todo /\ job'[c].effects = job[c].effects \cup effects
         /\ job'[c].r = job[c].r
<1>1. job = [d \in Conn |-> job[d]]
  BY DEF IInv
<1>2. Fields \subseteq DOMAIN job[c]
  BY InFlight
<1>3. QED
  BY <1>1, <1>2 DEF Goes, Fields

(* A request that ends with an answer its effects and events account for.  *)
LEMMA EndsSoundly ==
  ASSUME IInv, NEW c \in Conn, job[c].stage # "idle",
         NEW todo \in Seq(EventCode), NEW effects, NEW code, Ends(c, todo, effects, code),
         LogInv', live' \in Nat, live <= live',
         code \in DOMAIN Status,
         job[c].effects \cup effects \in
           (IF code \in DOMAIN Outcome THEN Outcome[code] ELSE {{}}),
         \/ job[c].effects \cup effects = {}
         \/ MayRedeem(job[c].r)
         \/ MayRelaunch(job[c].r, live),
         code = "established" => MayRedeem(job[c].r),
         (\A e : Explains(e, Status[code])) \/ (\E e \in Ahead(todo) : Explains(e, Status[code]))
  PROVE  IInv'
<1> DEFINE j == job'[c]
<1>1. /\ job' = [d \in Conn |-> IF d = c THEN j ELSE job[d]]
      /\ Fields \subseteq DOMAIN j /\ j.stage = "answering"
      /\ j.todo = todo /\ j.effects = job[c].effects \cup effects
      /\ j.code = code /\ j.r = job[c].r
      /\ j.event = job[c].event /\ j.noted = job[c].noted
  BY EndsAs
<1> HIDE DEF j
<1>2. MayRelaunch(job[c].r, live) => MayRelaunch(job[c].r, live')
  BY DEF MayRelaunch, IInv
<1>3. Told(j, live')
  BY <1>1, <1>2 DEF Told
<1>4. Explained(j, j.noted \cup Ahead(j.todo) \cup {j.event})
  BY <1>1 DEF Explained
<1>5. Sound(j, live')
  BY <1>1, <1>3, <1>4 DEF Sound, SoundAt
<1>6. QED
  BY <1>1, <1>5, OneMoves DEF j

-----------------------------------------------------------------------------
(* What a connection has just received.                                    *)
LEMMA ReceivesSoundly ==
  ASSUME IInv, NEW c \in Conn, NEW received, Receives(c, received), Sound(received, live)
  PROVE  IInv'
<1>1. job' = [d \in Conn |-> IF d = c THEN received ELSE job[d]]
  BY DEF Receives, IInv
<1>2. LogInv' /\ live' = live /\ live \in Nat
  BY RecordsKeep DEF Receives, sessions, IInv
<1>3. job'[c] = received
  BY <1>1
<1>4. QED
  BY <1>1, <1>2, <1>3, OneMoves

(* It is answered at once, having changed nothing.                         *)
LEMMA AnswersAtOnce ==
  ASSUME IInv, NEW c \in Conn, NEW r, NEW todo \in Seq(EventCode), NEW event, NEW code,
         Receives(c, Job("answering", r, todo, event, code)),
         code \in DOMAIN Status \ {"established", "accepted"},
         (\A e : Explains(e, Status[code])) \/ (\E e \in Ahead(todo) : Explains(e, Status[code])),
         code \in DOMAIN Outcome => {} \in Outcome[code]
  PROVE  IInv'
<1> DEFINE j == Job("answering", r, todo, event, code)
<1>1. /\ Fields \subseteq DOMAIN j /\ j.stage = "answering" /\ j.r = r /\ j.todo = todo
      /\ j.event = event /\ j.code = code /\ j.noted = {} /\ j.effects = {}
  BY NewJob
<1>2. Receives(c, j)
  OBVIOUS
<1> HIDE DEF j
<1>3. Told(j, live)
  BY <1>1 DEF Told
<1>4. Explained(j, j.noted \cup Ahead(j.todo) \cup {j.event})
  BY <1>1 DEF Explained
<1>5. Sound(j, live)
  BY <1>1, <1>3, <1>4 DEF Sound, SoundAt
<1>6. QED
  BY <1>2, <1>5, ReceivesSoundly

LEMMA NothingAhead == <<>> \in Seq(EventCode)
OBVIOUS

LEMMA OneAhead ==
  ASSUME NEW e \in EventCode PROVE <<e>> \in Seq(EventCode) /\ e \in Ahead(<<e>>)
<1>1. <<e>> \in Seq(EventCode) /\ Len(<<e>>) = 1 /\ <<e>>[1] = e
  OBVIOUS
<1>2. Ahead(<<e>>) = {<<e>>[i] : i \in 1 .. 1}
  BY <1>1 DEF Ahead
<1>3. QED
  BY <1>1, <1>2

LEMMA EventCodes ==
  {"session_required", "session_cookie_displaced", "relaunch_unavailable",
   "bootstrap_rejected", "bootstrap_failures_high", "session_replaced",
   "session_established", "entropy_unavailable", "internal_error", "relaunch_exhausted",
   "relaunch_throttled", "launch_token_minted", "relaunch_accepted"} \subseteq EventCode
BY DEF EventCode, Infos, Warnings, Errors

LEMMA ReceiveKeeps ==
  ASSUME IInv, NEW c \in Conn, NEW shape \in Shapes, Receive(c, shape) PROVE IInv'
<1> DEFINE r == Sent(shape)
<1>1. CASE Refuse(c, shape)
  <2> DEFINE code == IF HeadFits(shape) THEN Refusal(shape) ELSE "headers_too_large"
  <2>1. Refusal(shape) # None \/ ~HeadFits(shape)
    BY <1>1 DEF Refuse, Admitted
  <2>2. code \in {"misdirected_host", "origin_forbidden", "fetch_site_forbidden",
                  "method_not_allowed", "payload_too_large", "unsupported_media_type",
                  "headers_too_large"}
    BY <2>1, RefusalIsOne
  <2>3. Receives(c, Job("answering", Sent(shape), <<>>, "request_refused", code))
    BY <1>1 DEF Refuse
  <2> HIDE DEF code
  <2>4. /\ code \in DOMAIN Status \ {"established", "accepted"}
        /\ \A e : Explains(e, Status[code])
        /\ code \notin DOMAIN Outcome
    BY <2>2, CodesAreKnown, Explanations, Outcomes
  <2>5. QED
    BY <2>3, <2>4, AnswersAtOnce, NothingAhead
<1>2. CASE ServeFile(c, shape)
  <2>1. PICK code \in {"not_found", "not_modified", "ok"} :
          Receives(c, Job("answering", shape, <<>>, "request_served", code))
    BY <1>2 DEF ServeFile
  <2>2. /\ code \in DOMAIN Status \ {"established", "accepted"}
        /\ \A e : Explains(e, Status[code])
        /\ code \notin DOMAIN Outcome
    BY <2>1, CodesAreKnown, Explanations, Outcomes
  <2>3. QED
    BY <2>1, <2>2, AnswersAtOnce, NothingAhead
<1>3. CASE TurnAway(c, shape)
  <2> DEFINE error == GateError(r)
  <2>1. /\ error \in {"session_required", "session_cookie_displaced"}
        /\ Receives(c, Job("answering", r, <<error>>, "request_served", error))
    BY <1>3 DEF TurnAway, GateError
  <2> HIDE DEF error, r
  <2>2. /\ error \in DOMAIN Status \ {"established", "accepted"}
        /\ Explains(error, Status[error])
        /\ error \notin DOMAIN Outcome
    BY <2>1, CodesAreKnown, Explanations, Outcomes
  <2>3. error \in EventCode
    BY <2>1, EventCodes
  <2>4. <<error>> \in Seq(EventCode) /\ error \in Ahead(<<error>>)
    BY <2>3, OneAhead
  <2>5. QED
    BY <2>1, <2>2, <2>4, AnswersAtOnce
<1>4. CASE Unrouted(c, shape)
  <2>1. PICK code \in {"method_not_allowed", "not_found"} :
          Receives(c, Job("answering", r, <<>>, "request_served", code))
    BY <1>4 DEF Unrouted
  <2>2. /\ code \in DOMAIN Status \ {"established", "accepted"}
        /\ \A e : Explains(e, Status[code])
        /\ code \notin DOMAIN Outcome
    BY <2>1, CodesAreKnown, Explanations, Outcomes
  <2>3. QED
    BY <2>1, <2>2, AnswersAtOnce, NothingAhead
<1>5. CASE Report(c, shape)
  <2>1. Receives(c, Job("answering", r, <<>>, "request_served", "ok"))
    BY <1>5 DEF Report
  <2>2. /\ "ok" \in DOMAIN Status \ {"established", "accepted"}
        /\ \A e : Explains(e, Status["ok"])
        /\ "ok" \notin DOMAIN Outcome
    BY CodesAreKnown, Explanations, Outcomes
  <2>3. QED
    BY <2>1, <2>2, AnswersAtOnce, NothingAhead
<1>6. CASE AwaitBody(c, shape)
  <2> DEFINE j == Job("reading", r, <<>>, "request_served", None)
  <2>1. /\ Fields \subseteq DOMAIN j /\ j.stage = "reading" /\ j.r = r /\ j.todo = <<>>
        /\ j.effects = {}
    BY NewJob
  <2>2. Receives(c, j) /\ Pass(shape) /\ shape.method = "POST" /\ TakesBody(shape)
    BY <1>6 DEF AwaitBody
  <2>3. FromOwnPage(r) /\ BodyIsJson(shape) /\ LengthFits(shape)
    BY <2>2, PassedIsOwn
  <2>4. BodyError(r) = None => shape.body # "none"
    BY NoneAssumption, SentKeeps DEF BodyError
  <2>5. BodyError(r) = None => r.type[1] \in JsonTypes
    BY <2>3, <2>4, ShapesAssumption, SentKeeps DEF BodyIsJson
  <2> HIDE DEF j
  <2>6. Sound(j, live)
    BY <2>1, <2>3, <2>5 DEF Sound, SoundAt
  <2>7. QED
    BY <2>2, <2>6, ReceivesSoundly
<1>7. CASE StartRelaunch(c, shape)
  <2>1. Pass(shape) /\ shape.method = "POST" /\ shape.path = Relaunch
    BY <1>7 DEF StartRelaunch
  <2>2. FromOwnPage(r) /\ GateError(r) = None /\ r.path = Relaunch
    BY <2>1, PassedIsOwn, SentKeeps
  <2>3. r.proof = <<live>> /\ live \in 1 .. live
    <3>1. Relaunch # Bootstrap
      BY DEF Relaunch, Bootstrap
    <3>2. ProofIsLive(r)
      BY <2>2, <3>1, NoneAssumption DEF GateError
    <3>3. QED
      BY <3>2 DEF ProofIsLive, IInv
  <2>4. MayRelaunch(r, live)
    BY <2>2, <2>3 DEF MayRelaunch
  <2>5. CASE server.opener
    <3> DEFINE j == Job("charging", r, <<>>, "request_served", None)
    <3>1. /\ Fields \subseteq DOMAIN j /\ j.stage = "charging" /\ j.r = r /\ j.todo = <<>>
          /\ j.effects = {}
      BY NewJob
    <3>2. Receives(c, j)
      BY <1>7, <2>5 DEF StartRelaunch
    <3> HIDE DEF j
    <3>3. Sound(j, live)
      BY <3>1, <2>4 DEF Sound, SoundAt
    <3>4. QED
      BY <3>2, <3>3, ReceivesSoundly
  <2>6. CASE ~server.opener
    <3>1. Receives(c, Job("answering", r, <<"relaunch_unavailable">>, "request_served",
                          "open_unavailable"))
      BY <1>7, <2>6 DEF StartRelaunch
    <3>2. /\ "open_unavailable" \in DOMAIN Status \ {"established", "accepted"}
          /\ Explains("relaunch_unavailable", Status["open_unavailable"])
          /\ {} \in Outcome["open_unavailable"]
      BY CodesAreKnown, Explanations, Outcomes
    <3>3. <<"relaunch_unavailable">> \in Seq(EventCode)
          /\ "relaunch_unavailable" \in Ahead(<<"relaunch_unavailable">>)
      BY OneAhead, EventCodes
    <3>4. QED
      BY <3>1, <3>2, <3>3, AnswersAtOnce
  <2>7. QED
    BY <2>5, <2>6
<1>8. QED
  BY <1>1, <1>2, <1>3, <1>4, <1>5, <1>6, <1>7 DEF Receive

-----------------------------------------------------------------------------
(* A request whose body is awaited.                                        *)
LEMMA ReadingIs ==
  ASSUME IInv, NEW c \in Conn, At(c, "reading")
  PROVE  /\ job[c].stage # "idle" /\ Fields \subseteq DOMAIN job[c]
         /\ job[c].effects = {} /\ job[c].todo = <<>> /\ FromOwnPage(job[c].r)
         /\ BodyError(job[c].r) = None /\ job[c].r.path = Bootstrap => MayRedeem(job[c].r)
<1>1. job[c].stage # "idle" /\ job[c].stage = "reading"
  BY DEF At
<1>2. QED
  BY <1>1, InFlight DEF SoundAt, MayRedeem

(* It ends with a code that promises nothing, having done nothing.         *)
LEMMA ReadingEnds ==
  ASSUME IInv, NEW c \in Conn, At(c, "reading"), NEW todo \in Seq(EventCode), NEW code,
         Ends(c, todo, {}, code), LogInv', UNCHANGED live,
         code \in DOMAIN Status \ {"established", "accepted"},
         code \in DOMAIN Outcome => {} \in Outcome[code],
         (\A e : Explains(e, Status[code])) \/ (\E e \in Ahead(todo) : Explains(e, Status[code]))
  PROVE  IInv'
<1>1. job[c].stage # "idle" /\ job[c].effects = {}
  BY ReadingIs
<1>2. live' \in Nat /\ live <= live'
  BY DEF IInv
<1>3. job[c].effects \cup {} = {}
  BY <1>1
<1>4. QED
  BY <1>1, <1>2, <1>3, EndsSoundly

LEMMA BodyRefusedKeeps == ASSUME IInv, NEW c \in Conn, BodyRefused(c) PROVE IInv'
<1> DEFINE code == BodyError(job[c].r)
<1>1. code \in {"payload_too_large", "invalid_json", "request_invalid"}
  BY DEF BodyRefused, BodyError
<1>2. At(c, "reading") /\ Ends(c, <<>>, {}, code) /\ LogInv' /\ UNCHANGED live
  BY RecordsKeep DEF BodyRefused, sessions, IInv
<1> HIDE DEF code
<1>3. /\ code \in DOMAIN Status \ {"established", "accepted"}
      /\ \A e : Explains(e, Status[code])
      /\ code \notin DOMAIN Outcome
  BY <1>1, CodesAreKnown, Explanations, Outcomes
<1>4. QED
  BY <1>2, <1>3, ReadingEnds, NothingAhead

LEMMA DeadlineKeeps == ASSUME IInv, NEW c \in Conn, Deadline(c) PROVE IInv'
<1> DEFINE j == job'[c]
<1>1. /\ Fields \subseteq DOMAIN job[c] /\ job[c].effects = {} /\ job[c].todo = <<>>
      /\ job = [d \in Conn |-> job[d]]
  BY ReadingIs DEF Deadline, IInv
<1>2. /\ job' = [d \in Conn |-> IF d = c THEN j ELSE job[d]]
      /\ Fields \subseteq DOMAIN j /\ j.stage = "answering" /\ j.todo = <<>>
      /\ j.effects = {} /\ j.code = "request_timeout" /\ j.event = "request_deadline"
  BY <1>1 DEF Deadline, Fields
<1>3. LogInv' /\ live' = live /\ live \in Nat
  BY RecordsKeep DEF Deadline, sessions, IInv
<1> HIDE DEF j
<1>4. Told(j, live') /\ Explained(j, j.noted \cup Ahead(j.todo) \cup {j.event})
  BY <1>2, CodesAreKnown, Explanations, Outcomes DEF Told, Explained
<1>5. Sound(j, live')
  BY <1>2, <1>4, NothingAhead DEF Sound, SoundAt
<1>6. QED
  BY <1>2, <1>3, <1>5, OneMoves DEF j

LEMMA PeerGoneKeeps == ASSUME IInv, NEW c \in Conn, PeerGone(c) PROVE IInv'
<1>1. LogInv' /\ live' = live /\ live \in Nat /\ job = [d \in Conn |-> job[d]]
  BY RecordsKeep DEF PeerGone, sessions, IInv
<1>2. CASE job' = [job EXCEPT ![c] = NoRequest]
  <2>1. job' = [d \in Conn |-> IF d = c THEN job'[c] ELSE job[d]] /\ job'[c] = NoRequest
    BY <1>1, <1>2
  <2>2. QED
    BY <1>1, <2>1, OneMoves DEF Sound
<1>3. CASE Ends(c, <<>>, {}, "payload_too_large")
  <2>1. At(c, "reading")
    BY DEF PeerGone
  <2>2. /\ "payload_too_large" \in DOMAIN Status \ {"established", "accepted"}
        /\ \A e : Explains(e, Status["payload_too_large"])
        /\ "payload_too_large" \notin DOMAIN Outcome
    BY CodesAreKnown, Explanations, Outcomes
  <2>3. QED
    BY <1>1, <1>3, <2>1, <2>2, ReadingEnds, NothingAhead
<1>4. QED
  BY <1>2, <1>3 DEF PeerGone

-----------------------------------------------------------------------------
(* The handlers.                                                           *)
LEMMA ObserveKeeps == ASSUME LogInv, NEW void, Observe(void) PROVE LogInv'
BY RecordsKeep DEF Observe

LEMMA RejectedAhead ==
  /\ <<"bootstrap_rejected">> \in Seq(EventCode)
  /\ <<"bootstrap_rejected">> \o <<>> = <<"bootstrap_rejected">>
  /\ <<"bootstrap_rejected">> \o <<"bootstrap_failures_high">> \in Seq(EventCode)
  /\ "bootstrap_rejected" \in Ahead(<<"bootstrap_rejected">>)
  /\ "bootstrap_rejected" \in
        Ahead(<<"bootstrap_rejected">> \o <<"bootstrap_failures_high">>)
<1> DEFINE both == <<"bootstrap_rejected">> \o <<"bootstrap_failures_high">>
<1>1. "bootstrap_rejected" \in EventCode /\ "bootstrap_failures_high" \in EventCode
  BY EventCodes
<1>2. both \in Seq(EventCode) /\ Len(both) = 2 /\ both[1] = "bootstrap_rejected"
  BY <1>1
<1> HIDE DEF both
<1>3. "bootstrap_rejected" \in Ahead(both)
  BY <1>2 DEF Ahead
<1>4. <<"bootstrap_rejected">> \o <<>> = <<"bootstrap_rejected">>
  OBVIOUS
<1>5. QED
  BY <1>1, <1>2, <1>3, <1>4, OneAhead DEF both

LEMMA BootstrapMismatchKeeps ==
  ASSUME IInv, NEW c \in Conn, NEW void, BootstrapMismatch(c, void) PROVE IInv'
<1>1. At(c, "reading") /\ LogInv' /\ UNCHANGED live
  BY ObserveKeeps DEF BootstrapMismatch, BodyRead, IInv
<1>2. PICK warn \in BOOLEAN :
        Ends(c, <<"bootstrap_rejected">> \o
                (IF warn THEN <<"bootstrap_failures_high">> ELSE <<>>),
             {}, "launch_token_invalid")
  BY DEF BootstrapMismatch
<1>3. /\ "launch_token_invalid" \in DOMAIN Status \ {"established", "accepted"}
      /\ {} \in Outcome["launch_token_invalid"]
      /\ Explains("bootstrap_rejected", Status["launch_token_invalid"])
  BY CodesAreKnown, Explanations, Outcomes
<1>4. PICK todo \in Seq(EventCode) :
        /\ "bootstrap_rejected" \in Ahead(todo)
        /\ Ends(c, todo, {}, "launch_token_invalid")
  <2>1. CASE warn
    BY <1>2, <2>1, RejectedAhead
  <2>2. CASE ~warn
    BY <1>2, <2>2, RejectedAhead
  <2>3. QED
    BY <2>1, <2>2
<1>5. QED
  BY <1>1, <1>3, <1>4, ReadingEnds

(* The token was right: only the own page's bootstrap comes this far.      *)
LEMMA RedeemingIs ==
  ASSUME IInv, NEW c \in Conn, TokenMatches(c)
  PROVE  job[c].stage # "idle" /\ job[c].effects = {} /\ MayRedeem(job[c].r)
BY ReadingIs DEF TokenMatches, BodyRead

LEMMA BootstrapExpiredKeeps == ASSUME IInv, NEW c \in Conn, BootstrapExpired(c) PROVE IInv'
<1>1. TokenMatches(c) /\ Ends(c, <<"bootstrap_rejected">>, {"withdrawn"}, "launch_token_invalid")
  BY DEF BootstrapExpired
<1>2. LogInv' /\ live' \in Nat /\ live <= live'
  BY RecordsKeep DEF BootstrapExpired, Manager!Withdraw, IInv
<1>3. /\ "launch_token_invalid" \in DOMAIN Status
      /\ {"withdrawn"} \in Outcome["launch_token_invalid"]
      /\ "launch_token_invalid" \in DOMAIN Outcome
      /\ Explains("bootstrap_rejected", Status["launch_token_invalid"])
  BY CodesAreKnown, Explanations, Outcomes
<1>4. job[c].effects \cup {"withdrawn"} = {"withdrawn"}
  BY <1>1, RedeemingIs
<1>5. QED
  BY <1>1, <1>2, <1>3, <1>4, RedeemingIs, RejectedAhead, EndsSoundly

LEMMA BootstrapNoEntropyKeeps ==
  ASSUME IInv, NEW c \in Conn, BootstrapNoEntropy(c) PROVE IInv'
<1>1. TokenMatches(c) /\ Ends(c, <<"entropy_unavailable">>, {"withdrawn"}, "internal_error")
  BY DEF BootstrapNoEntropy
<1>2. LogInv' /\ live' \in Nat /\ live <= live'
  BY RecordsKeep DEF BootstrapNoEntropy, Manager!Withdraw, IInv
<1>3. /\ "internal_error" \in DOMAIN Status /\ "internal_error" \in DOMAIN Outcome
      /\ {"withdrawn"} \in Outcome["internal_error"]
      /\ Explains("entropy_unavailable", Status["internal_error"])
  BY CodesAreKnown, Explanations, Outcomes
<1>4. job[c].effects \cup {"withdrawn"} = {"withdrawn"}
  BY <1>1, RedeemingIs
<1>5. /\ <<"entropy_unavailable">> \in Seq(EventCode)
      /\ "entropy_unavailable" \in Ahead(<<"entropy_unavailable">>)
  BY OneAhead, EventCodes
<1>6. QED
  BY <1>1, <1>2, <1>3, <1>4, <1>5, RedeemingIs, EndsSoundly

LEMMA BootstrapEstablishKeeps ==
  ASSUME IInv, NEW c \in Conn, BootstrapEstablish(c) PROVE IInv'
<1> DEFINE todo == (IF live # 0 THEN <<"session_replaced">> ELSE <<>>) \o <<"session_established">>
<1>1. TokenMatches(c) /\ Ends(c, todo, {"established"}, "established")
  BY DEF BootstrapEstablish
<1>2. LogInv' /\ live' \in Nat /\ live <= live'
  BY RecordsKeep DEF BootstrapEstablish, Manager!Redeem, IInv
<1>3. /\ "established" \in DOMAIN Status /\ "established" \in DOMAIN Outcome
      /\ {"established"} \in Outcome["established"]
      /\ \A e : Explains(e, Status["established"])
  BY CodesAreKnown, Explanations, Outcomes
<1>4. job[c].effects \cup {"established"} = {"established"}
  BY <1>1, RedeemingIs
<1>5. todo \in Seq(EventCode)
  <2>1. "session_replaced" \in EventCode /\ "session_established" \in EventCode
    BY EventCodes
  <2>2. QED
    BY <2>1
<1> HIDE DEF todo
<1>6. QED
  BY <1>1, <1>2, <1>3, <1>4, <1>5, RedeemingIs, EndsSoundly

LEMMA ComputeKeeps == ASSUME IInv, NEW c \in Conn, Compute(c) PROVE IInv'
<1>1. At(c, "reading") /\ LogInv' /\ UNCHANGED live
  BY RecordsKeep DEF Compute, BodyRead, sessions, IInv
<1>2. ASSUME NEW code \in {"ok", "schedule_input_invalid"}, Ends(c, <<>>, {}, code)
      PROVE  IInv'
  <2>1. /\ code \in DOMAIN Status \ {"established", "accepted"}
        /\ \A e : Explains(e, Status[code])
        /\ code \notin DOMAIN Outcome
    BY CodesAreKnown, Explanations, Outcomes
  <2>2. QED
    BY <1>1, <1>2, <2>1, ReadingEnds, NothingAhead
<1>3. ASSUME Ends(c, <<"internal_error">>, {}, "internal_error") PROVE IInv'
  <2>1. /\ "internal_error" \in DOMAIN Status \ {"established", "accepted"}
        /\ {} \in Outcome["internal_error"]
        /\ Explains("internal_error", Status["internal_error"])
    BY CodesAreKnown, Explanations, Outcomes
  <2>2. /\ <<"internal_error">> \in Seq(EventCode)
        /\ "internal_error" \in Ahead(<<"internal_error">>)
    BY OneAhead, EventCodes
  <2>3. QED
    BY <1>1, <1>3, <2>1, <2>2, ReadingEnds
<1>4. QED
  BY <1>2, <1>3 DEF Compute

-----------------------------------------------------------------------------
(* The steps of a relaunch.                                                *)
LEMMA RelaunchIs ==
  ASSUME IInv, NEW c \in Conn, NEW stage \in {"charging", "minting", "opening"}, At(c, stage)
  PROVE  /\ job[c].stage # "idle" /\ Fields \subseteq DOMAIN job[c]
         /\ job[c].stage = stage /\ MayRelaunch(job[c].r, live)
         /\ job[c].effects = CASE stage = "charging" -> {}
                              [] stage = "minting" -> {"charged"}
                              [] stage = "opening" -> {"charged", "minted"}
BY InFlight DEF At, SoundAt

LEMMA RelaunchRefusedKeeps ==
  ASSUME IInv, NEW c \in Conn, NEW void, RelaunchRefused(c, void) PROVE IInv'
<1>1. PICK reason \in {"relaunch_exhausted", "relaunch_throttled"} :
        Ends(c, <<reason>>, {}, reason)
  BY DEF RelaunchRefused
<1>2. LogInv' /\ live' \in Nat /\ live <= live' /\ At(c, "charging")
  BY ObserveKeeps DEF RelaunchRefused, IInv
<1>3. job[c].stage # "idle" /\ job[c].effects \cup {} = {}
  BY <1>2, RelaunchIs
<1>4. /\ reason \in DOMAIN Status /\ reason \notin DOMAIN Outcome
      /\ reason # "established" /\ Explains(reason, Status[reason])
  BY <1>1, CodesAreKnown, Explanations, Outcomes
<1>5. <<reason>> \in Seq(EventCode) /\ reason \in Ahead(<<reason>>)
  BY <1>1, OneAhead, EventCodes
<1>6. QED
  BY <1>1, <1>2, <1>3, <1>4, <1>5, EndsSoundly

LEMMA RelaunchChargeKeeps ==
  ASSUME IInv, NEW c \in Conn, NEW void, RelaunchCharge(c, void) PROVE IInv'
<1> DEFINE j == job'[c]
<1>1. LogInv' /\ live' \in Nat /\ live <= live' /\ live' = live /\ At(c, "charging")
  BY ObserveKeeps DEF RelaunchCharge, IInv
<1>2. job[c].stage # "idle" /\ job[c].effects = {} /\ MayRelaunch(job[c].r, live)
  BY <1>1, RelaunchIs
<1>3. /\ job' = [d \in Conn |-> IF d = c THEN j ELSE job[d]]
      /\ Fields \subseteq DOMAIN j /\ j.stage = "minting" /\ j.todo = <<>>
      /\ j.effects = {} \cup {"charged"} /\ j.r = job[c].r
  BY <1>2, GoesOn DEF RelaunchCharge
<1> HIDE DEF j
<1>4. Sound(j, live')
  BY <1>1, <1>2, <1>3, NothingAhead DEF Sound, SoundAt
<1>5. QED
  BY <1>1, <1>3, <1>4, OneMoves DEF j

LEMMA RelaunchMintKeeps ==
  ASSUME IInv, NEW c \in Conn, NEW void, RelaunchMint(c, void) PROVE IInv'
<1> DEFINE j == job'[c]
<1>1. LogInv' /\ live' \in Nat /\ live <= live' /\ live' = live /\ At(c, "minting")
  BY ObserveKeeps DEF RelaunchMint, Manager!Issue, IInv
<1>2. job[c].stage # "idle" /\ job[c].effects = {"charged"} /\ MayRelaunch(job[c].r, live)
  BY <1>1, RelaunchIs
<1>3. /\ job' = [d \in Conn |-> IF d = c THEN j ELSE job[d]]
      /\ Fields \subseteq DOMAIN j /\ j.stage = "opening" /\ j.todo = <<"launch_token_minted">>
      /\ j.effects = {"charged"} \cup {"minted"} /\ j.r = job[c].r
  BY <1>2, GoesOn DEF RelaunchMint
<1> HIDE DEF j
<1>4. <<"launch_token_minted">> \in Seq(EventCode)
  BY OneAhead, EventCodes
<1>5. Sound(j, live')
  BY <1>1, <1>2, <1>3, <1>4 DEF Sound, SoundAt
<1>6. QED
  BY <1>1, <1>3, <1>5, OneMoves DEF j

LEMMA RelaunchNoEntropyKeeps ==
  ASSUME IInv, NEW c \in Conn, RelaunchNoEntropy(c) PROVE IInv'
<1>1. Ends(c, <<"entropy_unavailable">>, {}, "internal_error") /\ At(c, "minting")
  BY DEF RelaunchNoEntropy
<1>2. LogInv' /\ live' \in Nat /\ live <= live'
  BY RecordsKeep DEF RelaunchNoEntropy, sessions, IInv
<1>3. /\ job[c].stage # "idle" /\ job[c].effects \cup {} = {"charged"}
      /\ MayRelaunch(job[c].r, live)
  BY <1>1, RelaunchIs
<1>4. /\ "internal_error" \in DOMAIN Status /\ "internal_error" \in DOMAIN Outcome
      /\ {"charged"} \in Outcome["internal_error"]
      /\ Explains("entropy_unavailable", Status["internal_error"])
  BY CodesAreKnown, Explanations, Outcomes
<1>5. /\ <<"entropy_unavailable">> \in Seq(EventCode)
      /\ "entropy_unavailable" \in Ahead(<<"entropy_unavailable">>)
  BY OneAhead, EventCodes
<1>6. QED
  BY <1>1, <1>2, <1>3, <1>4, <1>5, EndsSoundly

LEMMA ReopenKeeps == ASSUME IInv, NEW c \in Conn, Reopen(c) PROVE IInv'
<1>1. At(c, "opening") /\ LogInv' /\ live' \in Nat /\ live <= live'
  BY RecordsKeep DEF Reopen, sessions, IInv
<1>2. /\ job[c].stage # "idle" /\ job[c].effects \cup {} = {"charged", "minted"}
      /\ MayRelaunch(job[c].r, live)
  BY <1>1, RelaunchIs
<1>3. CASE Ends(c, <<"relaunch_accepted">>, {}, "accepted")
  <2>1. /\ "accepted" \in DOMAIN Status /\ "accepted" \in DOMAIN Outcome
        /\ {"charged", "minted"} \in Outcome["accepted"]
        /\ \A e : Explains(e, Status["accepted"])
    BY CodesAreKnown, Explanations, Outcomes
  <2>2. <<"relaunch_accepted">> \in Seq(EventCode)
    BY OneAhead, EventCodes
  <2>3. QED
    BY <1>1, <1>2, <1>3, <2>1, <2>2, EndsSoundly
<1>4. CASE Ends(c, <<"relaunch_unavailable">>, {}, "open_unavailable")
  <2>1. /\ "open_unavailable" \in DOMAIN Status /\ "open_unavailable" \in DOMAIN Outcome
        /\ {"charged", "minted"} \in Outcome["open_unavailable"]
        /\ Explains("relaunch_unavailable", Status["open_unavailable"])
    BY CodesAreKnown, Explanations, Outcomes
  <2>2. /\ <<"relaunch_unavailable">> \in Seq(EventCode)
        /\ "relaunch_unavailable" \in Ahead(<<"relaunch_unavailable">>)
    BY OneAhead, EventCodes
  <2>3. QED
    BY <1>1, <1>2, <1>4, <2>1, <2>2, EndsSoundly
<1>5. QED
  BY <1>3, <1>4 DEF Reopen

-----------------------------------------------------------------------------
(* The events of a request and its answer.                                 *)
LEMMA HeadAndTail ==
  ASSUME NEW todo \in Seq(EventCode), todo # <<>>
  PROVE  /\ Tail(todo) \in Seq(EventCode) /\ Head(todo) \in EventCode
         /\ Ahead(todo) = {Head(todo)} \cup Ahead(Tail(todo))
<1>1. /\ Len(todo) \in Nat /\ Len(todo) >= 1
      /\ Tail(todo) \in Seq(EventCode) /\ Len(Tail(todo)) = Len(todo) - 1
      /\ Head(todo) = todo[1] /\ Head(todo) \in EventCode
  OBVIOUS
<1>2. \A i \in 1 .. Len(todo) - 1 : Tail(todo)[i] = todo[i + 1]
  OBVIOUS
<1>3. \A i \in 1 .. Len(todo) : i = 1 \/ (i - 1 \in 1 .. Len(todo) - 1 /\ Tail(todo)[i - 1] = todo[i])
  BY <1>1, <1>2
<1>4. Ahead(todo) \subseteq {Head(todo)} \cup Ahead(Tail(todo))
  BY <1>1, <1>3 DEF Ahead
<1>5. {Head(todo)} \cup Ahead(Tail(todo)) \subseteq Ahead(todo)
  <2>1. \A i \in 1 .. Len(todo) - 1 : i + 1 \in 1 .. Len(todo)
    BY <1>1
  <2>2. QED
    BY <1>1, <1>2, <2>1 DEF Ahead
<1>6. QED
  BY <1>1, <1>4, <1>5

LEMMA NoteKeeps == ASSUME IInv, NEW c \in Conn, Note(c) PROVE IInv'
<1> DEFINE j == job'[c]
           e == Head(job[c].todo)
<1>1. /\ job[c].stage # "idle" /\ job[c].todo # <<>> /\ Record(e)
      /\ job' = [job EXCEPT ![c].todo = Tail(@), ![c].noted = @ \cup {e}]
      /\ live' = live
  BY DEF Note, sessions
<1>2. /\ Fields \subseteq DOMAIN job[c] /\ job[c].todo \in Seq(EventCode)
      /\ SoundAt(job[c], live) /\ job = [d \in Conn |-> job[d]]
  BY <1>1, InFlight DEF IInv
<1>3. /\ job' = [d \in Conn |-> IF d = c THEN j ELSE job[d]]
      /\ Fields \subseteq DOMAIN j /\ j.stage = job[c].stage /\ j.r = job[c].r
      /\ j.todo = Tail(job[c].todo) /\ j.event = job[c].event /\ j.code = job[c].code
      /\ j.noted = job[c].noted \cup {e} /\ j.effects = job[c].effects
      /\ j.headers = job[c].headers
  BY <1>1, <1>2 DEF Fields
<1>4. /\ j.todo \in Seq(EventCode)
      /\ Ahead(job[c].todo) = {e} \cup Ahead(j.todo)
  <2>1. /\ Tail(job[c].todo) \in Seq(EventCode)
        /\ Ahead(job[c].todo) = {Head(job[c].todo)} \cup Ahead(Tail(job[c].todo))
    BY <1>1, <1>2, HeadAndTail
  <2>2. j.todo = Tail(job[c].todo)
    BY <1>3
  <2> HIDE DEF j
  <2>3. QED
    BY <2>1, <2>2
<1> HIDE DEF j, e
<1>5. job[c].stage # "reading"
  BY <1>1, <1>2 DEF SoundAt
<1>6. Told(job[c], live) => Told(j, live)
  BY <1>3 DEF Told
<1>7. Explained(job[c], job[c].noted \cup Ahead(job[c].todo) \cup {job[c].event}) =>
        Explained(j, j.noted \cup Ahead(j.todo) \cup {j.event})
  BY <1>3, <1>4 DEF Explained
<1>8. Explained(job[c], job[c].noted) => Explained(j, j.noted)
  BY <1>3 DEF Explained
<1>9. SoundAt(j, live)
  BY <1>2, <1>3, <1>5, <1>6, <1>7, <1>8 DEF SoundAt
<1>10. LogInv' /\ live' \in Nat /\ live <= live'
  BY <1>1, RecordsKeep DEF IInv
<1>11. QED
  BY <1>1, <1>3, <1>4, <1>9, <1>10, OneMoves DEF Sound, j

LEMMA AnswerKeeps == ASSUME IInv, NEW c \in Conn, Answer(c) PROVE IInv'
<1> DEFINE j == job'[c]
           headers == Headers(job[c].r, job[c].event, job[c].code)
<1>1. /\ job[c].stage = "answering" /\ job[c].stage # "idle" /\ job[c].todo = <<>>
      /\ RecordRequest(job[c].event, headers.status)
      /\ job' = [job EXCEPT ![c].stage = "answered", ![c].noted = @ \cup {job[c].event},
                            ![c].headers = headers]
      /\ live' = live
  BY DEF Answer, At, sessions
<1>2. /\ Fields \subseteq DOMAIN job[c] /\ SoundAt(job[c], live)
      /\ job = [d \in Conn |-> job[d]]
  BY <1>1, InFlight DEF IInv
<1>3. /\ job' = [d \in Conn |-> IF d = c THEN j ELSE job[d]]
      /\ Fields \subseteq DOMAIN j /\ j.stage = "answered" /\ j.r = job[c].r
      /\ j.todo = <<>> /\ j.event = job[c].event /\ j.code = job[c].code
      /\ j.noted = job[c].noted \cup {job[c].event} /\ j.effects = job[c].effects
      /\ j.headers = headers
  BY <1>1, <1>2 DEF Fields
<1> HIDE DEF j
<1>4. /\ Told(job[c], live)
      /\ Explained(job[c], job[c].noted \cup Ahead(job[c].todo) \cup {job[c].event})
  BY <1>1, <1>2 DEF SoundAt
<1>5. Told(j, live)
  BY <1>3, <1>4 DEF Told
<1>6. Ahead(job[c].todo) = {}
  BY <1>1 DEF Ahead
<1>7. Explained(j, j.noted)
  BY <1>3, <1>4, <1>6 DEF Explained
<1>8. Sound(j, live)
  BY <1>3, <1>5, <1>7, NothingAhead DEF Sound, SoundAt
<1>9. LogInv' /\ live' \in Nat /\ live <= live'
  BY <1>1, RecordsKeep DEF IInv
<1>10. QED
  BY <1>1, <1>3, <1>8, <1>9, OneMoves DEF j

LEMMA DeliverKeeps == ASSUME IInv, NEW c \in Conn, Deliver(c) PROVE IInv'
<1>1. LogInv' /\ live' = live /\ live \in Nat /\ job = [d \in Conn |-> job[d]]
  BY RecordsKeep DEF Deliver, sessions, IInv
<1>2. job' = [d \in Conn |-> IF d = c THEN job'[c] ELSE job[d]] /\ job'[c] = NoRequest
  BY <1>1 DEF Deliver
<1>3. QED
  BY <1>1, <1>2, OneMoves DEF Sound

(* No request moves: the server is bound, started, or its clock is read.   *)
LEMMA NoneMoves ==
  ASSUME IInv, LogInv', live' = live, job' = job PROVE IInv'
BY DEF IInv, JobsInv

LEMMA ServerKeeps ==
  ASSUME IInv, (\E build \in Builds : Bind(build)) \/ LaunchUrl \/ IdleTick PROVE IInv'
<1>1. CASE \E build \in Builds : Bind(build)
  BY <1>1, RecordsKeep, NoneMoves DEF Bind, sessions, IInv
<1>2. CASE LaunchUrl
  BY <1>2, RecordsKeep, NoneMoves DEF LaunchUrl, Manager!Issue, IInv
<1>3. CASE IdleTick
  BY <1>3, RecordsKeep, NoneMoves DEF IdleTick, Manager!Withdraw, IInv
<1>4. QED
  BY <1>1, <1>2, <1>3

LEMMA HandleKeeps == ASSUME IInv, NEW c \in Conn, Handle(c) PROVE IInv'
BY BodyRefusedKeeps, BootstrapMismatchKeeps, RelaunchRefusedKeeps, RelaunchChargeKeeps,
   RelaunchMintKeeps, BootstrapExpiredKeeps, BootstrapNoEntropyKeeps,
   BootstrapEstablishKeeps, ComputeKeeps, RelaunchNoEntropyKeeps, ReopenKeeps,
   NoteKeeps, AnswerKeeps, DeliverKeeps
   DEF Handle

LEMMA Starts == Init => IInv
<1> SUFFICES ASSUME Init PROVE IInv
  OBVIOUS
<1>1. LogInv
  <2>1. ring = <<>> /\ nextSeq = 1 /\ Room \in Nat /\ Room >= 1
    BY CapacityAssumption DEF Init, LogInit, Room
  <2>2. ring \in Seq(Nat)
    BY <2>1
  <2>3. QED
    BY <2>1, <2>2 DEF LogInv, RingHoldsNewest
<1>2. QED
  BY <1>1 DEF Init, IInv, JobsInv, Sound, Manager!Init

-----------------------------------------------------------------------------
(* Every request in flight has done what its stage says and is the own     *)
(* page's if it has done anything, and the log has missed none of it, for  *)
(* any requests, builds and interleavings (service.rs 147-239).            *)
THEOREM Inductive == Spec => []IInv
<1>1. IInv /\ [Next]_vars => IInv'
  <2> SUFFICES ASSUME IInv, [Next]_vars PROVE IInv'
    OBVIOUS
  <2>1. CASE UNCHANGED vars
    <3>1. job' = job /\ live' = live /\ UNCHANGED log
      BY <2>1 DEF vars, sessions
    <3>2. QED
      BY <3>1, RecordsKeep, NoneMoves DEF IInv
  <2>2. CASE Next
    BY <2>2, ServerKeeps, ReceiveKeeps, HandleKeeps, DeadlineKeeps, PeerGoneKeeps DEF Next
  <2>3. QED
    BY <2>1, <2>2
<1>2. QED
  BY <1>1, Starts, PTL DEF Spec

(* The log keeps the newest events, none missing and in order, whatever    *)
(* its capacity and however many requests record at once                   *)
(* (events.rs 212-243).                                                    *)
THEOREM LogKeepsNewest == Spec => []RingHoldsNewest
<1>1. IInv => RingHoldsNewest
  BY DEF IInv, LogInv
<1>2. QED
  BY <1>1, Inductive, PTL

LEMMA HeadersAre ==
  ASSUME NEW r, NEW event, NEW code, NEW headers, headers = Headers(r, event, code)
  PROVE  /\ headers.status = Status[code]
         /\ headers.cookie <=>
              code = "established" /\ r.method = "POST" /\ r.path = Bootstrap
BY Zenon DEF Headers

(* An answered request is sound.                                           *)
LEMMA AnsweredIs ==
  ASSUME IInv, NEW c \in Conn, Answered(c)
  PROVE  /\ Told(job[c], live) /\ Explained(job[c], job[c].noted)
         /\ job[c].headers = Headers(job[c].r, job[c].event, job[c].code)
<1>1. job[c].stage = "answered" /\ job[c].stage # "idle"
  BY DEF Answered
<1>2. SoundAt(job[c], live)
  BY <1>1, InFlight
<1>3. QED
  BY <1>1, <1>2 DEF SoundAt

(* No answer of 401, 409, 408, 429, 500 or 503 leaves without the event    *)
(* that explains it (service.rs 104-147, api/session.rs 37-105).           *)
THEOREM EveryAnswerExplained == Spec => []AnswersAreExplained
<1>1. IInv => AnswersAreExplained
  <2> SUFFICES ASSUME IInv, NEW c \in Conn, Answered(c)
               PROVE  \E code \in job[c].noted : Explains(code, job[c].headers.status)
    BY DEF AnswersAreExplained
  <2>1. job[c].headers.status = Status[job[c].code]
    BY AnsweredIs, HeadersAre
  <2>2. QED
    BY <2>1, AnsweredIs DEF Explained
<1>2. QED
  BY <1>1, Inductive, PTL

(* What a request did is what its answer says, and the cookie leaves with  *)
(* the session it belongs to and with nothing else (session.rs 292-437).   *)
THEOREM EveryEffectTold == Spec => []AnswersTellTheEffect
<1>1. IInv => AnswersTellTheEffect
  <2> SUFFICES ASSUME IInv, NEW c \in Conn, Answered(c)
               PROVE  /\ job[c].effects \in
                            (IF job[c].code \in DOMAIN Outcome THEN Outcome[job[c].code] ELSE {{}})
                      /\ job[c].headers.cookie <=> job[c].effects = {"established"}
    BY DEF AnswersTellTheEffect
  <2>1. Told(job[c], live) /\ job[c].headers = Headers(job[c].r, job[c].event, job[c].code)
    BY AnsweredIs
  <2>2. job[c].headers.cookie <=>
          job[c].code = "established" /\ job[c].r.method = "POST" /\ job[c].r.path = Bootstrap
    <3> DEFINE r == job[c].r
               event == job[c].event
               code == job[c].code
               headers == job[c].headers
    <3>1. headers = Headers(r, event, code)
      BY <2>1
    <3> HIDE DEF r, event, code, headers
    <3>2. headers.cookie <=> code = "established" /\ r.method = "POST" /\ r.path = Bootstrap
      BY <3>1, HeadersAre, Zenon
    <3>3. QED
      BY <3>2 DEF r, event, code, headers
  <2>3. job[c].headers.cookie <=> job[c].code = "established"
    BY <2>1, <2>2 DEF Told, MayRedeem, FromOwnPage
  <2>4. job[c].code = "established" <=> job[c].effects = {"established"}
    BY <2>1, Outcomes DEF Told
  <2>5. QED
    BY <2>1, <2>3, <2>4 DEF Told
<1>2. QED
  BY <1>1, Inductive, PTL

(* Whatever clients send, only a request of the application's own page     *)
(* has changed the session manager (admission.rs 237-308).                 *)
THEOREM OwnPageOnly == Spec => []OnlyOwnPageActs
<1>1. IInv => OnlyOwnPageActs
  <2> SUFFICES ASSUME IInv, NEW c \in Conn, job[c].stage # "idle", job[c].effects # {}
               PROVE  \/ MayRedeem(job[c].r)
                      \/ MayRelaunch(job[c].r, live)
    BY DEF OnlyOwnPageActs, MayRedeem, MayRelaunch, FromOwnPage
  <2>1. SoundAt(job[c], live)
    BY InFlight
  <2>2. QED
    BY <2>1 DEF SoundAt, Told
<1>2. QED
  BY <1>1, Inductive, PTL
=============================================================================
