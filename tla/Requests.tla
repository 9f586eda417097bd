------------------------------ MODULE Requests ------------------------------
(***************************************************************************)
(* The request pipeline of pfp-server: service.rs, the routes of api/ and  *)
(* the headers of every answer, over the event log, the web bundle and the *)
(* promise the session manager keeps.                                      *)
(*                                                                         *)
(* Requests of several connections are served at once.  A request runs to  *)
(* its answer without a pause but for three places: it awaits its body,    *)
(* the only place where the deadline or a vanished client can end it; it   *)
(* takes the session lock anew for each step of a relaunch; and it takes   *)
(* the lock of the event log for each event, after the session lock is     *)
(* released.  Between those places a request is one action here.           *)
(*                                                                         *)
(* Times, budgets and amounts are those of SessionManager and Calculation: *)
(* a token may be found expired, a relaunch throttled or exhausted, and a  *)
(* schedule refused or defective, whenever the code could find it so.      *)
(***************************************************************************)
EXTENDS Admission, WebBundle, EventLog

CONSTANTS
  Conn,              \* connections with a request in flight
  Shapes,            \* the requests clients send
  FirstShapes,       \* bound: which of them may be the first of a run
  Builds,            \* the builds: a bundle to embed, and whether there is an opener
  MaxRequests,       \* bound: requests in one run of the program
  MaxToken           \* bound: launch tokens minted in one run

(* A client cannot send a body without saying so in the head: what is not   *)
(* chunked has a length.                                                   *)
ASSUME ShapesAssumption ==
  \A shape \in Shapes :
    /\ {"path", "method", "authority", "host", "origin", "site", "mode", "dest", "type",
        "length", "chunked", "head", "body", "size", "proof", "cookies", "token", "tags"}
         \subseteq DOMAIN shape
    /\ LengthFits(shape) /\ shape.body # "none" => HasBody(shape)

ASSUME NoneAssumption ==
  None \notin {"misdirected_host", "origin_forbidden", "fetch_site_forbidden",
               "method_not_allowed", "payload_too_large", "unsupported_media_type",
               "invalid_json", "request_invalid", "session_required",
               "session_cookie_displaced"}

VARIABLES
  server,            \* [phase, manifest, opener]: what bind decided
  issued, good, live,\* the session manager's promise: see SessionPromise
  job,               \* job[c]: the request c is serving
  arrived            \* history: how many requests have arrived

Manager == INSTANCE SessionPromise

sessions == <<issued, good, live>>
vars == <<server, sessions, log, job, arrived>>

-----------------------------------------------------------------------------
(* Answers.  ApiError: a stable code and its status.                       *)

Status ==
  [ok |-> 200, established |-> 200, accepted |-> 202, not_modified |-> 304,
   misdirected_host |-> 421, origin_forbidden |-> 403, fetch_site_forbidden |-> 403,
   method_not_allowed |-> 405, headers_too_large |-> 431, payload_too_large |-> 413,
   unsupported_media_type |-> 415, request_timeout |-> 408, session_required |-> 401,
   session_cookie_displaced |-> 409, launch_token_invalid |-> 401,
   relaunch_throttled |-> 429, relaunch_exhausted |-> 429, open_unavailable |-> 503,
   invalid_json |-> 400, request_invalid |-> 422, schedule_input_invalid |-> 422,
   not_found |-> 404, internal_error |-> 500]

Closes(code) == code \in {"headers_too_large", "request_timeout"}

Immutable(r, admitted, code) ==
  admitted /\ Len(r.path) > 1 /\ r.path[1] = "assets" /\ Status[code] \in {200, 304}

Bootstrap == <<"api", "v1", "session", "bootstrap">>
SessionStatus == <<"api", "v1", "session", "status">>
Relaunch == <<"api", "v1", "session", "relaunch">>
RateSchedule == <<"api", "v1", "tax", "rate-schedule">>
RateScheduleExport == <<"api", "v1", "tax", "rate-schedule", "export">>
Assumptions == <<"api", "v1", "assumptions", "list">>
ValidationReport == <<"api", "v1", "validation", "report">>

Paths == {Bootstrap, SessionStatus, Relaunch, RateSchedule, RateScheduleExport,
          Assumptions, ValidationReport}
TakesBody(r) == r.path \in {Bootstrap, RateSchedule, RateScheduleExport}

\* headers::apply: the cookie leaves with the bootstrap's 200 and nowhere else
Headers(r, event, code) ==
  [status |-> Status[code],
   close |-> Closes(code),
   cookie |-> code = "established" /\ r.method = "POST" /\ r.path = Bootstrap,
   immutable |-> Immutable(r, event # "request_refused", code)]

-----------------------------------------------------------------------------
(* A request in flight: the events it has yet to record, the code of its   *)
(* answer with the event that reports it, the events it has recorded and   *)
(* what it did to the session manager.                                     *)

NoRequest == [stage |-> "idle"]

At(c, stage) == job[c].stage = stage /\ job[c].todo = <<>>

Job(stage, r, todo, event, code) ==
  [stage |-> stage, r |-> r, todo |-> todo, event |-> event, code |-> code,
   noted |-> {}, effects |-> {}, headers |-> None]

Goes(c, stage, todo, effects) ==
  job' = [job EXCEPT ![c].stage = stage, ![c].todo = todo,
                     ![c].effects = @ \cup effects]

Ends(c, todo, effects, code) ==
  job' = [job EXCEPT ![c].stage = "answering", ![c].todo = todo,
                     ![c].effects = @ \cup effects, ![c].code = code]

(* The credentials of a request are what its client knows when it sends    *)
(* it: the newest session or token, the one before, or nothing that ever   *)
(* was one.  Several values of a header or a cookie stay several.          *)
Session(which) ==
  IF which = "live" THEN live ELSE IF which = "old" /\ live > 1 THEN live - 1 ELSE 0
Token(which) ==
  IF which = "newest" THEN issued ELSE IF which = "old" /\ issued > 1 THEN issued - 1 ELSE 0

Sent(shape) ==
  [shape EXCEPT !.proof = [i \in DOMAIN @ |-> Session(@[i])],
                !.cookies = [i \in DOMAIN @ |-> Session(@[i])],
                !.token = Token(@)]

-----------------------------------------------------------------------------
Init ==
  /\ server = [phase |-> "off", manifest |-> None, opener |-> FALSE]
  /\ Manager!Init
  /\ LogInit
  /\ job = [c \in Conn |-> NoRequest]
  /\ arrived = 0

(* Server::bind with the bundle of the build: refused when the files are   *)
(* not a bundle or the policy does not fit it (what else bind can refuse   *)
(* is in Calculation).                                                     *)
Bind(build) ==
  LET bundle == Embedded(build.dist)
  IN  /\ server.phase = "off"
      /\ server' = IF bundle.ok /\ PolicyFits(bundle.manifest)
                   THEN [phase |-> "bound", manifest |-> bundle.manifest,
                         opener |-> build.opener]
                   ELSE [server EXCEPT !.phase = "refused"]
      /\ UNCHANGED <<sessions, log, job, arrived>>

(* The launcher mints the first token, then serves.                        *)
LaunchUrl ==
  /\ server.phase = "bound"
  /\ server' = [server EXCEPT !.phase = "serving"]
  /\ Manager!Issue
  /\ Record("launch_token_minted")
  /\ UNCHANGED <<job, arrived>>

-----------------------------------------------------------------------------
(* Receiving a request, up to its first pause.                             *)

Ready(c, shape) ==
  /\ server.phase = "serving" /\ job[c].stage = "idle"
  /\ arrived < MaxRequests
  /\ arrived = 0 => shape \in FirstShapes

Receives(c, received) ==
  /\ arrived' = arrived + 1
  /\ job' = [job EXCEPT ![c] = received]
  /\ UNCHANGED <<server, sessions, log>>

Refuse(c, shape) ==
  /\ ~Admitted(shape)
  /\ Receives(c,
       Job("answering", Sent(shape), <<>>, "request_refused",
           IF HeadFits(shape) THEN Refusal(shape) ELSE "headers_too_large"))

ServeFile(c, shape) ==
  LET file == Respond(shape.path, server.manifest, shape.tags)
      code == IF file.status = 404 THEN "not_found"
              ELSE IF file.status = 304 THEN "not_modified" ELSE "ok"
  IN  /\ Admitted(shape) /\ Class(shape.path) # "api"
      /\ Receives(c, Job("answering", shape, <<>>, "request_served", code))

\* The gate: which error a request without the session meets, after which event
ProofIsLive(r) == live # 0 /\ r.proof = <<live>>
CookieIsLive(r) == r.cookies = <<live>>

GateError(r) ==
  IF r.path = Bootstrap THEN None
  ELSE IF ~ProofIsLive(r) THEN "session_required"
  ELSE IF r.path # Relaunch /\ ~CookieIsLive(r) THEN "session_cookie_displaced"
  ELSE None

TurnAway(c, shape) ==
  LET r == Sent(shape)
      error == GateError(r)
  IN  /\ Admitted(shape) /\ Class(shape.path) = "api" /\ error # None
      /\ Receives(c,
           Job("answering", r, <<error>>, "request_served", error))

\* The router: an unknown path, another method, or a handler
Pass(shape) ==
  Admitted(shape) /\ Class(shape.path) = "api" /\ GateError(Sent(shape)) = None

Unrouted(c, shape) ==
  /\ Pass(shape) /\ (shape.path \notin Paths \/ shape.method # "POST")
  /\ Receives(c,
       Job("answering", Sent(shape), <<>>, "request_served",
           IF shape.path \in Paths THEN "method_not_allowed" ELSE "not_found"))

\* A handler that reads nothing: status, the assumptions and the validation report
Report(c, shape) ==
  /\ Pass(shape) /\ shape.method = "POST"
  /\ shape.path \in {SessionStatus, Assumptions, ValidationReport}
  /\ Receives(c, Job("answering", Sent(shape), <<>>, "request_served", "ok"))

AwaitBody(c, shape) ==
  /\ Pass(shape) /\ shape.method = "POST" /\ TakesBody(shape)
  /\ Receives(c, Job("reading", Sent(shape), <<>>, "request_served", None))

\* A build without an opener answers before it asks for a token
StartRelaunch(c, shape) ==
  /\ Pass(shape) /\ shape.method = "POST" /\ shape.path = Relaunch
  /\ Receives(c,
       IF server.opener
       THEN Job("charging", Sent(shape), <<>>, "request_served", None)
       ELSE Job("answering", Sent(shape), <<"relaunch_unavailable">>, "request_served",
                "open_unavailable"))

Receive(c, shape) ==
  /\ Ready(c, shape)
  /\ \/ Refuse(c, shape)
     \/ ServeFile(c, shape)
     \/ TurnAway(c, shape)
     \/ Unrouted(c, shape)
     \/ Report(c, shape)
     \/ AwaitBody(c, shape)
     \/ StartRelaunch(c, shape)

-----------------------------------------------------------------------------
(* The body arrives, or does not.                                          *)

BodyTooLong(r) == r.chunked /\ r.size > MaxBody

\* ApiJson: nothing of the body is echoed, an empty one is not JSON
BodyError(r) ==
  IF BodyTooLong(r) THEN "payload_too_large"
  ELSE IF r.body \in {"none", "malformed"} THEN "invalid_json"
  ELSE IF r.body = "misshapen" THEN "request_invalid"
  ELSE None

BodyRefused(c) ==
  /\ At(c, "reading") /\ BodyError(job[c].r) # None
  /\ Ends(c, <<>>, {}, BodyError(job[c].r))
  /\ UNCHANGED <<server, sessions, log, arrived>>

\* MUTANTS of Deadline: reported like any answer; it strikes in a handler
DeadlineServed(c) ==
  /\ At(c, "reading")
  /\ Ends(c, <<>>, {}, "request_timeout")
  /\ UNCHANGED <<server, sessions, log, arrived>>
DeadlineAnywhere(c) ==
  /\ job[c].stage \in {"reading", "minting", "answering"}
  /\ job' = [job EXCEPT ![c].stage = "answering", ![c].todo = <<>>,
                        ![c].event = "request_deadline", ![c].code = "request_timeout"]
  /\ UNCHANGED <<server, sessions, log, arrived>>

(* The whole-request deadline: a handler never pauses, so it strikes only  *)
(* a request whose body is still on its way.                               *)
Deadline(c) ==
  /\ At(c, "reading")
  /\ job' = [job EXCEPT ![c].stage = "answering", ![c].event = "request_deadline",
                        ![c].code = "request_timeout"]
  /\ UNCHANGED <<server, sessions, log, arrived>>

(* The client vanishes while its body is awaited: the request is dropped   *)
(* with its connection, or first fails to be read, which counts as too     *)
(* large and is recorded, though nobody sees it.                           *)
PeerGone(c) ==
  /\ At(c, "reading")
  /\ \/ job' = [job EXCEPT ![c] = NoRequest]
     \/ Ends(c, <<>>, {}, "payload_too_large")
  /\ UNCHANGED <<server, sessions, log, arrived>>

BodyRead(c, paths) ==
  At(c, "reading") /\ BodyError(job[c].r) = None /\ job[c].r.path \in paths

-----------------------------------------------------------------------------
(* The handlers.  Under the session lock the clock is read first, and if   *)
(* it went backwards an outstanding token is void and the event recorded.  *)

Voids == IF good = 0 THEN {FALSE} ELSE BOOLEAN

Observe(void) ==
  IF void THEN Record("clock_went_backwards") ELSE UNCHANGED log

\* A wrong token: it is rejected, the outstanding one stays
BootstrapMismatch(c, void) ==
  /\ BodyRead(c, {Bootstrap})
  /\ void \/ good = 0 \/ job[c].r.token # good
  /\ Observe(void)
  /\ good' = IF void THEN 0 ELSE good
  /\ \E warn \in (IF good' = 0 THEN {FALSE} ELSE BOOLEAN) :
       Ends(c, <<"bootstrap_rejected">> \o
               (IF warn THEN <<"bootstrap_failures_high">> ELSE <<>>),
            {}, "launch_token_invalid")
  /\ UNCHANGED <<server, issued, live, arrived>>

TokenMatches(c) == BodyRead(c, {Bootstrap}) /\ good # 0 /\ job[c].r.token = good

BootstrapExpired(c) ==
  /\ TokenMatches(c)
  /\ Manager!Withdraw
  /\ Ends(c, <<"bootstrap_rejected">>, {"withdrawn"}, "launch_token_invalid")
  /\ UNCHANGED <<server, log, arrived>>

BootstrapNoEntropy(c) ==
  /\ TokenMatches(c)
  /\ Manager!Withdraw
  /\ Ends(c, <<"entropy_unavailable">>, {"withdrawn"}, "internal_error")
  /\ UNCHANGED <<server, log, arrived>>

BootstrapEstablish(c) ==
  /\ TokenMatches(c)
  /\ Manager!Redeem
  /\ Ends(c, (IF live # 0 THEN <<"session_replaced">> ELSE <<>>) \o <<"session_established">>,
          {"established"}, "established")
  /\ UNCHANGED <<server, log, arrived>>

(* The worksheet, or its export: the caller's mistake, or a defect of the  *)
(* build, which is recorded and not told.                                  *)
Compute(c) ==
  /\ BodyRead(c, {RateSchedule, RateScheduleExport})
  /\ \/ Ends(c, <<>>, {}, "ok")
     \/ Ends(c, <<>>, {}, "schedule_input_invalid")
     \/ Ends(c, <<"internal_error">>, {}, "internal_error")
  /\ UNCHANGED <<server, sessions, log, arrived>>

\* The session's budget is used up, or it asks too soon
RelaunchRefused(c, void) ==
  /\ At(c, "charging")
  /\ Observe(void)
  /\ good' = IF void THEN 0 ELSE good
  /\ \E reason \in {"relaunch_exhausted", "relaunch_throttled"} : Ends(c, <<reason>>, {}, reason)
  /\ UNCHANGED <<server, issued, live, arrived>>

RelaunchCharge(c, void) ==
  /\ At(c, "charging")
  /\ Observe(void)
  /\ good' = IF void THEN 0 ELSE good
  /\ Goes(c, "minting", <<>>, {"charged"})
  /\ UNCHANGED <<server, issued, live, arrived>>

RelaunchMint(c, void) ==
  /\ At(c, "minting") /\ issued < MaxToken
  /\ Manager!Issue
  /\ Observe(void)
  /\ Goes(c, "opening", <<"launch_token_minted">>, {"minted"})
  /\ UNCHANGED <<server, arrived>>

RelaunchNoEntropy(c) ==
  /\ At(c, "minting")
  /\ Ends(c, <<"entropy_unavailable">>, {}, "internal_error")
  /\ UNCHANGED <<server, sessions, log, arrived>>

\* The hook opens the browser, or cannot
Reopen(c) ==
  /\ At(c, "opening")
  /\ \/ Ends(c, <<"relaunch_accepted">>, {}, "accepted")
     \/ Ends(c, <<"relaunch_unavailable">>, {}, "open_unavailable")
  /\ UNCHANGED <<server, sessions, log, arrived>>

(* The idle ticker reads the clock too.                                    *)
IdleTick ==
  /\ server.phase = "serving" /\ good # 0
  /\ Manager!Withdraw
  /\ Record("clock_went_backwards")
  /\ UNCHANGED <<server, job, arrived>>

-----------------------------------------------------------------------------
(* The events of a request, one lock each; then its answer.                *)

Note(c) ==
  /\ job[c].stage # "idle" /\ job[c].todo # <<>>
  /\ Record(Head(job[c].todo))
  /\ job' = [job EXCEPT ![c].todo = Tail(@), ![c].noted = @ \cup {Head(job[c].todo)}]
  /\ UNCHANGED <<server, sessions, arrived>>

Answer(c) ==
  LET headers == Headers(job[c].r, job[c].event, job[c].code)
  IN  /\ At(c, "answering")
      /\ RecordRequest(job[c].event, headers.status)
      /\ job' = [job EXCEPT ![c].stage = "answered", ![c].noted = @ \cup {job[c].event},
                            ![c].headers = headers]
      /\ UNCHANGED <<server, sessions, arrived>>

Deliver(c) ==
  /\ At(c, "answered")
  /\ job' = [job EXCEPT ![c] = NoRequest]
  /\ UNCHANGED <<server, sessions, log, arrived>>

Handle(c) ==
  \/ BodyRefused(c)
  \/ \E void \in Voids :
       \/ BootstrapMismatch(c, void)
       \/ RelaunchRefused(c, void)
       \/ RelaunchCharge(c, void)
       \/ RelaunchMint(c, void)
  \/ BootstrapExpired(c)
  \/ BootstrapNoEntropy(c)
  \/ BootstrapEstablish(c)
  \/ Compute(c)
  \/ RelaunchNoEntropy(c)
  \/ Reopen(c)
  \/ Note(c)
  \/ Answer(c)
  \/ Deliver(c)

Next ==
  \/ \E build \in Builds : Bind(build)
  \/ LaunchUrl
  \/ \E c \in Conn, shape \in Shapes : Receive(c, shape)
  \/ \E c \in Conn : Handle(c) \/ Deadline(c) \/ PeerGone(c)
  \/ IdleTick

Spec == Init /\ [][Next]_vars

-----------------------------------------------------------------------------
TypeOK ==
  /\ server.phase \in {"off", "refused", "bound", "serving"}
  /\ Manager!TypeOK
  /\ nextSeq \in Nat \ {0} /\ ring \in Seq(Event)
  /\ \A c \in Conn : job[c].stage \in
       {"idle", "reading", "charging", "minting", "opening", "answering", "answered"}
  /\ arrived \in 0 .. MaxRequests

Answered(c) == job[c].stage = "answered"

(* An answer that refuses for a reason of the server's own is explained in *)
(* the log before it is sent: a 401 and a 409 by the event of the gate or  *)
(* the rejected token, a 429 and a 408 by a warning, a 503 by the missing  *)
(* opener, a 500 by an error (service.rs 104-147, api/session.rs 37-105).  *)
Explains(code, status) ==
  CASE status = 401 -> code \in {"session_required", "bootstrap_rejected"}
    [] status = 409 -> code = "session_cookie_displaced"
    [] status \in {408, 429} -> Level(code) = "warn"
    [] status = 500 -> Level(code) = "error"
    [] status = 503 -> code = "relaunch_unavailable"
    [] OTHER -> TRUE

AnswersAreExplained ==
  \A c \in Conn : Answered(c) =>
    \E code \in job[c].noted : Explains(code, job[c].headers.status)

(* A request changes the session manager only as its answer says: a        *)
(* session exists for a 200 of the bootstrap, a token was minted for a     *)
(* 202, and a request that was refused, timed out or could not be read     *)
(* changed nothing.  An attempt that failed half way costs what its error  *)
(* admits: the token, or the charge (session.rs 292-437).  The cookie      *)
(* leaves with the answer of the request that established a session and    *)
(* with no other (api/session.rs 33-53).                                   *)
Outcome ==
  [established |-> {{"established"}}, accepted |-> {{"charged", "minted"}},
   launch_token_invalid |-> {{}, {"withdrawn"}},
   internal_error |-> {{}, {"withdrawn"}, {"charged"}},
   open_unavailable |-> {{}, {"charged", "minted"}}]

AnswersTellTheEffect ==
  \A c \in Conn : Answered(c) =>
    /\ job[c].effects \in
         (IF job[c].code \in DOMAIN Outcome THEN Outcome[job[c].code] ELSE {{}})
    /\ job[c].headers.cookie <=> job[c].effects = {"established"}

(* Only the application's own page changes the session manager: the        *)
(* request named this host and this origin, each once, came from the same  *)
(* origin by POST, and carried JSON or the proof of a session              *)
(* (admission.rs 237-308, service.rs 104-147).                             *)
OnlyOwnPageActs ==
  \A c \in Conn :
    job[c].stage # "idle" /\ job[c].effects # {} =>
      LET r == job[c].r
      IN  /\ r.host = <<OwnHost>> /\ r.origin = <<OwnOrigin>>
          /\ r.site = <<"same-origin">> /\ r.method = "POST"
          /\ \/ r.path = Bootstrap /\ r.type[1] \in JsonTypes
             \/ r.path = Relaunch /\ Len(r.proof) = 1 /\ r.proof[1] \in 1 .. live
=============================================================================
