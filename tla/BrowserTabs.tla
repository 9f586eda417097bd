---------------------------- MODULE BrowserTabs ----------------------------
(***************************************************************************)
(* The tabs of one browser, the cookie jar they share, and the requests    *)
(* between them and the server: the handshake (web/src/session/            *)
(* handshake.ts), the transport (session/api.ts), the client that reports  *)
(* a lost session (api/client.ts), the session reducer (session/state.ts)  *)
(* and the re-open button (App.tsx).                                       *)
(*                                                                         *)
(* The server is its promise, module SessionPromise, which SessionManager  *)
(* is proved to keep: a request is handled in one step at the server, but  *)
(* for a re-open, whose proof is checked before it is handled.             *)
(*                                                                         *)
(* A session's cookie and proof are its number, a launch token its number; *)
(* 0 is none, or for the jar a cookie that another local site put there.   *)
(* A message stays in flight as long as it likes: messages overtake each   *)
(* other, and an answer may be lost whole or after its headers.            *)
(***************************************************************************)
EXTENDS Naturals

CONSTANTS
  Tab,           \* the tabs of the browser
  Gone,          \* the addressee of an answer whose page is gone
  MaxToken,      \* bound: launch tokens issued
  MaxLoad,       \* bound: times a page is loaded
  MaxFlight      \* bound: messages in flight

ASSUME TabsAssumption ==
  /\ Gone \notin Tab
  /\ MaxToken \in Nat /\ MaxLoad \in Nat /\ MaxFlight \in Nat

VARIABLES
  issued, good, live,   \* the server: SessionPromise
  gone,          \* the live session was lost with the process that held it
  jar,           \* the session whose cookie the browser sends
  page,          \* page[t]: closed, loading (main.tsx awaits the handshake), shown
  proof,         \* proof[t]: sessionStorage["pfp.proof"]
  shell,         \* shell[t]: ShellSession.session
  relaunch,      \* relaunch[t]: ShellSession.relaunch
  flight,        \* the requests and answers in flight
  loads          \* how many pages have been loaded

server == <<issued, good, live, gone>>
tabs == <<page, proof, shell, relaunch>>
vars == <<issued, good, live, gone, jar, page, proof, shell, relaunch, flight, loads>>

Server == INSTANCE SessionPromise

Session == 0 .. MaxToken
ShellKind == {"connected", "no-token", "rejected", "session-ended", "displaced", "unreachable"}

(* "withdrawn" is exhausted, unavailable, or failed otherwise than by the  *)
(* server not answering: the states in which no button is left.            *)
RelaunchKind == {"idle", "requesting", "reopened", "throttled", "unreachable", "withdrawn"}

Use == {"bootstrap", "probe", "screen", "relaunch"}
Verdict == {"ok", "unauthenticated", "displaced", "throttled", "refused", "unreachable"}

Message ==
  [slot : 1 .. MaxFlight,
   tab : Tab \cup {Gone},
   use : Use,
   secret : Session,                          \* the token, or X-PFP-Proof
   cookie : Session,                          \* the jar when it was sent; 0 once read
   stage : {"sent", "gated"} \cup Verdict,
   session : Session]                         \* bootstrap: the session established

Init ==
  /\ issued = 1 /\ good = 1 /\ live = 0 /\ gone = FALSE
  /\ jar = 0
  /\ page = [t \in Tab |-> "closed"]
  /\ proof = [t \in Tab |-> 0]
  /\ shell = [t \in Tab |-> "no-token"]
  /\ relaunch = [t \in Tab |-> "idle"]
  /\ flight = {}
  /\ loads = 0

-----------------------------------------------------------------------------
(* Sending, and the page that waits for what it sent. *)

FreeSlot(inFlight) == {n \in 1 .. MaxFlight : \A m \in inFlight : m.slot # n}

(* apiPost: the proof as it is now, the cookie as the jar holds it now.    *)
Request(n, t, use, secret) ==
  [slot |-> n, tab |-> t, use |-> use, secret |-> secret,
   cookie |-> jar, stage |-> "sent", session |-> 0]

(* t's request joins those already in flight. *)
Sends(inFlight, t, use, secret) ==
  LET free == FreeSlot(inFlight)
  IN  /\ free # {}
      /\ flight' = inFlight \cup {Request(CHOOSE n \in free : TRUE, t, use, secret)}

(* The page is unloaded: what it had asked is answered to nobody, and only *)
(* what may still change the server or the jar is kept.                    *)
StillActs(m) ==
  \/ m.use = "bootstrap" /\ m.stage \in {"sent", "ok"}
  \/ m.use = "relaunch" /\ m.stage \in {"sent", "gated"}

Orphaned(t) ==
  {m \in flight : m.tab # t} \cup
  {[m EXCEPT !.tab = Gone] : m \in {k \in flight : k.tab = t /\ StillActs(k)}}

(* bootstrapSession, up to its request: the fragment is cleared, then a    *)
(* token is exchanged, a stored proof is probed, and with neither there is *)
(* no request.  A new tab has no proof.  Any link that was ever issued may *)
(* be opened again.                                                        *)
Load(t) ==
  /\ page[t] # "loading"
  /\ loads < MaxLoad
  /\ loads' = loads + 1
  /\ UNCHANGED <<server, jar, proof>>
  /\ relaunch' = [relaunch EXCEPT ![t] = "idle"]
  /\ \E link \in 0 .. issued :
       IF link = 0 /\ proof[t] = 0
       THEN /\ page' = [page EXCEPT ![t] = "shown"]
            /\ shell' = [shell EXCEPT ![t] = "no-token"]
            /\ flight' = Orphaned(t)
       ELSE /\ page' = [page EXCEPT ![t] = "loading"]
            /\ shell' = [shell EXCEPT ![t] = "no-token"]
            /\ IF link # 0 THEN Sends(Orphaned(t), t, "bootstrap", link)
                           ELSE Sends(Orphaned(t), t, "probe", proof[t])

(* The tab is closed, and its sessionStorage is gone with it. *)
Close(t) ==
  /\ page[t] # "closed"
  /\ page' = [page EXCEPT ![t] = "closed"]
  /\ proof' = [proof EXCEPT ![t] = 0]
  /\ shell' = [shell EXCEPT ![t] = "no-token"]
  /\ relaunch' = [relaunch EXCEPT ![t] = "idle"]
  /\ flight' = Orphaned(t)
  /\ UNCHANGED <<server, jar, loads>>

(* A screen's request; only a connected shell shows screens and loads.     *)
ScreenCall(t) ==
  /\ page[t] = "shown" /\ shell[t] = "connected"
  /\ Sends(flight, t, "screen", proof[t])
  /\ UNCHANGED <<server, jar, tabs, loads>>

RelaunchOffered(t) ==
  /\ page[t] = "shown" /\ shell[t] = "displaced"
  /\ relaunch[t] \in {"idle", "requesting", "throttled", "unreachable"}

(* The re-open button. *)
OnRelaunch(t) ==
  /\ RelaunchOffered(t) /\ relaunch[t] # "requesting"
  /\ relaunch' = [relaunch EXCEPT ![t] = "requesting"]
  /\ Sends(flight, t, "relaunch", proof[t])
  /\ UNCHANGED <<server, jar, page, proof, shell, loads>>

-----------------------------------------------------------------------------
(* The server. *)

Issue == Server!Issue /\ UNCHANGED gone
Withdraw == Server!Withdraw /\ UNCHANGED gone
Redeem == Server!Redeem /\ gone' = FALSE

(* The cookie has been looked at, and is not looked at again. *)
Becomes(m, stage, session) ==
  flight' = (flight \ {m}) \cup {[m EXCEPT !.stage = stage, !.session = session, !.cookie = 0]}

\* mutant: a token that was already exchanged gets its session again
HandleBootstrapAgain(m) ==
  /\ m.use = "bootstrap" /\ m.stage = "sent"
  /\ \/ m.secret = good /\ Redeem /\ Becomes(m, "ok", live + 1)
     \/ m.secret # good /\ m.secret = live /\ UNCHANGED server /\ Becomes(m, "ok", live)
     \/ m.secret # good /\ m.secret # live /\ UNCHANGED server /\ Becomes(m, "unauthenticated", 0)

(* POST session/bootstrap: the token is exchanged, or is no good, or is    *)
(* spent on a session that could not be made.                              *)
HandleBootstrap(m) ==
  /\ m.use = "bootstrap" /\ m.stage = "sent"
  /\ \/ m.secret = good /\ Redeem /\ Becomes(m, "ok", live + 1)
     \/ m.secret = good /\ Withdraw /\ Becomes(m, "refused", 0)
     \/ m.secret # good /\ UNCHANGED server /\ Becomes(m, "unauthenticated", 0)

Honoured(secret) == secret # 0 /\ secret = live /\ ~gone

ProofOk(m) == Honoured(m.secret)

(* The session gate for every other call; what a screen is told that does  *)
(* not concern the session counts as "ok".                                 *)
Handle(m) ==
  /\ m.use \in {"probe", "screen"} /\ m.stage = "sent"
  /\ Becomes(m, CASE ~ProofOk(m) -> "unauthenticated"
                  [] ProofOk(m) /\ m.cookie # live -> "displaced"
                  [] OTHER -> "ok", 0)
  /\ UNCHANGED server

(* POST session/relaunch: its gate wants the proof alone. *)
GateRelaunch(m) ==
  /\ m.use = "relaunch" /\ m.stage = "sent"
  /\ Becomes(m, IF ProofOk(m) THEN "gated" ELSE "unauthenticated", 0)
  /\ UNCHANGED server

(* Its handler: a token goes to the opener, which may fail; or the budget  *)
(* says no, or there is no opener.                                         *)
HandleRelaunch(m) ==
  /\ m.use = "relaunch" /\ m.stage = "gated"
  /\ \/ issued < MaxToken /\ Issue /\ \E v \in {"ok", "refused"} : Becomes(m, v, 0)
     \/ UNCHANGED server /\ \E v \in {"throttled", "refused"} : Becomes(m, v, 0)

ServerStep(m) ==
  /\ HandleBootstrap(m) \/ Handle(m) \/ GateRelaunch(m) \/ HandleRelaunch(m)
  /\ UNCHANGED <<jar, tabs, loads>>

(* The token still good is too old. *)
Expire ==
  /\ Withdraw
  /\ UNCHANGED <<jar, tabs, flight, loads>>

(* The application stops and is launched again, on the port it prefers:    *)
(* there is a new link and no session.  What the old process was at is not *)
(* answered.                                                               *)
Restart ==
  /\ issued < MaxToken
  /\ Server!Issue
  /\ gone' = (live # 0)
  /\ flight' = {IF m.stage = "gated" THEN [m EXCEPT !.stage = "unreachable"] ELSE m
                  : m \in flight}
  /\ UNCHANGED <<jar, tabs, loads>>

-----------------------------------------------------------------------------
(* The network and the other local sites. *)

Jar(m) == IF m.use = "bootstrap" /\ m.stage = "ok" THEN m.session ELSE jar

(* fetch fails, before or after the server has acted. *)
FetchFails(m) ==
  /\ m.tab # Gone /\ m.stage # "unreachable"
  /\ Becomes(m, "unreachable", 0)
  /\ UNCHANGED <<server, jar, tabs, loads>>

(* The headers of a 2xx come, the cookie with them; the body does not.     *)
CutShort(m) ==
  /\ m.tab # Gone /\ m.stage = "ok"
  /\ jar' = Jar(m)
  /\ Becomes(m, "refused", 0)
  /\ UNCHANGED <<server, tabs, loads>>

(* An answer to a page that is gone: its cookie may still be taken. *)
ToNobody(m) ==
  /\ m.tab = Gone /\ m.stage \in Verdict
  /\ flight' = flight \ {m}
  /\ jar' \in {jar, Jar(m)}
  /\ UNCHANGED <<server, tabs, loads>>

(* Cookies know no ports: another site on 127.0.0.1 sets one by that name. *)
OtherSite ==
  /\ jar # 0
  /\ jar' = 0
  /\ UNCHANGED <<server, tabs, flight, loads>>

-----------------------------------------------------------------------------
(* Answers. *)

Received(m, use) ==
  /\ m.tab # Gone /\ m.use = use /\ m.stage \in Verdict
  /\ flight' = flight \ {m}
  /\ jar' = Jar(m)
  /\ UNCHANGED <<server, loads>>

Shown(t, kind) ==
  /\ page' = [page EXCEPT ![t] = "shown"]
  /\ shell' = [shell EXCEPT ![t] = kind]
  /\ relaunch' = [relaunch EXCEPT ![t] = "idle"]

StoreProof(t, p) == proof' = [proof EXCEPT ![t] = p]

(* The handshake's answer to a launch token. *)
Bootstrapped(m) ==
  /\ Received(m, "bootstrap")
  /\ CASE m.stage = "ok" -> StoreProof(m.tab, m.session) /\ Shown(m.tab, "connected")
       [] m.stage = "unreachable" -> Shown(m.tab, "unreachable") /\ UNCHANGED proof
       [] OTHER -> Shown(m.tab, "rejected") /\ UNCHANGED proof

\* mutant: a tab that could not reach the server forgets its proof
ProbedForgets(m) ==
  /\ Received(m, "probe")
  /\ IF m.stage \in {"ok", "displaced"}
     THEN /\ UNCHANGED proof
          /\ Shown(m.tab, IF m.stage = "ok" THEN "connected" ELSE m.stage)
     ELSE StoreProof(m.tab, 0) /\ Shown(m.tab, "no-token")

(* Its answer to the proof a reloaded tab still held. *)
Probed(m) ==
  /\ Received(m, "probe")
  /\ IF m.stage \in {"ok", "displaced", "unreachable"}
     THEN /\ UNCHANGED proof
          /\ Shown(m.tab, IF m.stage = "ok" THEN "connected" ELSE m.stage)
     ELSE StoreProof(m.tab, 0) /\ Shown(m.tab, "no-token")

\* mutant: the proof is forgotten, and the shell is not told
SessionLostUntold(m) ==
  /\ Received(m, "screen")
  /\ m.stage = "unauthenticated"
  /\ StoreProof(m.tab, 0)
  /\ UNCHANGED <<page, shell, relaunch>>

(* A screen was told 401: sessionLossHandler clears the proof and the      *)
(* shell shows that the session has ended.                                 *)
SessionEnded(m) ==
  /\ Received(m, "screen")
  /\ m.stage = "unauthenticated"
  /\ StoreProof(m.tab, 0)
  /\ Shown(m.tab, "session-ended")

(* A screen was told 409; a recovery in progress is not disturbed. *)
SessionDisplaced(m) ==
  /\ Received(m, "screen")
  /\ m.stage = "displaced"
  /\ IF shell[m.tab] = "displaced" THEN UNCHANGED <<page, shell, relaunch>>
                                   ELSE Shown(m.tab, "displaced")
  /\ UNCHANGED proof

ScreenAnswered(m) ==
  /\ Received(m, "screen")
  /\ m.stage \notin {"unauthenticated", "displaced"}
  /\ UNCHANGED tabs

\* mutant: a throttled re-open is still thought to be under way
RelaunchFromWaits(verdict) ==
  CASE verdict = "ok" -> "reopened"
    [] verdict = "throttled" -> "requesting"
    [] verdict = "unreachable" -> verdict
    [] OTHER -> "withdrawn"

RelaunchFrom(verdict) ==
  CASE verdict = "ok" -> "reopened"
    [] verdict \in {"throttled", "unreachable"} -> verdict
    [] OTHER -> "withdrawn"

(* 'relaunch-result'.  A 401 is not reported to the shell. *)
RelaunchAnswered(m) ==
  /\ Received(m, "relaunch")
  /\ relaunch' = IF shell[m.tab] = "displaced" /\ relaunch[m.tab] = "requesting"
                 THEN [relaunch EXCEPT ![m.tab] = RelaunchFrom(m.stage)]
                 ELSE relaunch
  /\ UNCHANGED <<page, proof, shell>>

Receive(m) ==
  \/ Bootstrapped(m) \/ Probed(m)
  \/ SessionEnded(m) \/ SessionDisplaced(m) \/ ScreenAnswered(m)
  \/ RelaunchAnswered(m)

-----------------------------------------------------------------------------
Person(t) == Load(t) \/ Close(t) \/ ScreenCall(t) \/ OnRelaunch(t)

Travels(m) == ServerStep(m) \/ FetchFails(m) \/ CutShort(m) \/ ToNobody(m) \/ Receive(m)

Next ==
  \/ \E t \in Tab : Person(t)
  \/ \E m \in flight : Travels(m)
  \/ Expire
  \/ Restart
  \/ OtherSite

Spec == Init /\ [][Next]_vars

(* A request is handled within its deadline or its connection breaks, and  *)
(* an answer that arrived is taken up by the page's event loop.            *)
FairSpec ==
  /\ Spec
  /\ \A n \in 1 .. MaxFlight : WF_vars(\E m \in flight : m.slot = n /\ Travels(m))

-----------------------------------------------------------------------------
(* Properties. *)

(* The type invariant: of the parts, and that a page waits exactly for the *)
(* one answer to its handshake (main.tsx:30 awaits it before it renders).  *)
TypeOK ==
  /\ Server!TypeOK /\ issued <= MaxToken /\ gone \in BOOLEAN
  /\ jar \in Session
  /\ page \in [Tab -> {"closed", "loading", "shown"}]
  /\ proof \in [Tab -> Session]
  /\ shell \in [Tab -> ShellKind]
  /\ relaunch \in [Tab -> RelaunchKind]
  /\ flight \in SUBSET Message
  /\ loads \in 0 .. MaxLoad
  /\ \A t \in Tab :
       page[t] = "loading" <=> \E m \in flight : m.tab = t /\ m.use \in {"bootstrap", "probe"}

(* No two tabs hold the proof of one session, whatever was reloaded, lost, *)
(* or opened twice: "single use" (session.rs) seen from the browser.       *)
OneTabPerSession ==
  \A t \in Tab, u \in Tab : proof[t] # 0 /\ proof[t] = proof[u] => t = u

(* A shell that shows screens has a proof to send: no answer that arrives  *)
(* late takes the proof away and leaves the screens, or brings them back.  *)
ConnectedHasProof ==
  \A t \in Tab : page[t] = "shown" /\ shell[t] = "connected" => proof[t] # 0

(* A page that gives up its proof gives up nothing: the server no longer   *)
(* honours it (session.rs: a later bootstrap replaced the session, or the  *)
(* application was launched again), or the answer to the reloaded page's   *)
(* probe broke off.                                                        *)
ProofGivenUpIsDead ==
  [][\A t \in Tab :
       proof'[t] # proof[t] /\ proof[t] # 0 /\ page'[t] # "closed" =>
         \/ ~Honoured(proof[t])
         \/ \E m \in flight : m.tab = t /\ m.use = "probe" /\ m.stage = "refused"]_vars

(* "Asking the application to re-open..." comes to an end. *)
RequestingEnds ==
  \A t \in Tab : relaunch[t] = "requesting" ~> relaunch[t] # "requesting"

(* "A control that cannot work is not offered" (SessionNotice.tsx:8-9):   *)
(* the re-open needs the proof.                                            *)
ButtonCanWork == \A t \in Tab : RelaunchOffered(t) => proof[t] # 0
=============================================================================
