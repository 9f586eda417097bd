--------------------------- MODULE SessionManager ---------------------------
(***************************************************************************)
(* The session manager of pfp-server (crates/pfp-server/src/session.rs)    *)
(* together with the request threads and the idle ticker that call it.     *)
(*                                                                         *)
(* Every method locks one mutex, reads the clock under the lock and drops  *)
(* the lock before it calls a hook, so a method is one action, except for  *)
(* the three places where state is used after an unlock:                   *)
(*   - POST /session/relaunch checks the proof in the session gate         *)
(*     (service.rs) and charges the live session later, in the handler;    *)
(*   - SessionManager::relaunch charges the session under one lock and     *)
(*     mints the token under another;                                      *)
(*   - bootstrap and check_idle call their hooks after the unlock.         *)
(*                                                                         *)
(* A secret is a number: fresh_secret draws 256 bits, so no two secrets    *)
(* are equal and the n-th token minted is token n.  A session's cookie and *)
(* proof are drawn together and are represented by the session's number.   *)
(* A token or a proof nobody was given is 0, and never matches.            *)
(***************************************************************************)
EXTENDS Integers, Sequences

CONSTANTS
  Worker,            \* threads of the runtime that serve requests
  TTL,               \* LAUNCH_TOKEN_TTL
  IdleAfter,         \* IDLE_LOCK_AFTER
  MinInterval,       \* RELAUNCH_MIN_INTERVAL
  MaxRelaunch,       \* RELAUNCH_MAX_PER_SESSION
  FailCap,           \* u32::MAX, where failed_attempts saturates
  MaxClock,          \* bound: the last reading of the clock
  MaxToken,          \* bound: tokens minted in one run of the program
  MaxSession         \* bound: sessions established in one run

ASSUME LimitsAssumption ==
  /\ TTL \in Nat
  /\ IdleAfter \in Nat
  /\ MinInterval \in Nat
  /\ MaxRelaunch \in Nat
  /\ FailCap \in Nat
  /\ MaxClock \in Nat
  /\ MaxToken \in Nat
  /\ MaxSession \in Nat

VARIABLES
  clock,             \* what Clock::now returns
  latest_now,        \* Inner.latest_now (None orders below every reading: 0)
  launch,            \* Inner.launch
  session,           \* Inner.session
  pc,                \* pc[w]: where request thread w is
  proven,            \* proven[w]: the session whose proof w's request carried
  receipt,           \* receipt[w]: the charge w made and has not minted for
  expiring,          \* the session check_idle found expired, hook not yet called
  minted,            \* history: for each token, when and why it was minted
  consumed,          \* history: the tokens presented while outstanding
  voided,            \* history: those outstanding when the clock was seen to step back
  opened,            \* history: for each session, its token and its start
  charges            \* history: every charge against a relaunch budget

\* voided goes with what observe changes
manager == <<latest_now, voided, launch, session>>
threads == <<pc, proven, receipt, expiring>>
history == <<minted, consumed, opened, charges>>
vars == <<clock, latest_now, launch, session, pc, proven, receipt, expiring,
          minted, consumed, voided, opened, charges>>

NoLaunch == [token |-> 0, at |-> 0, failed |-> 0]
Never == -1
NoSession == [id |-> 0, last_interaction |-> 0, idle_reported |-> FALSE,
              relaunches |-> 0, last_relaunch |-> Never]
NoCharge == [session |-> 0, nth |-> 0, at |-> 0]

LaunchToken == [token : Nat, at : Nat, failed : 0 .. FailCap]
LiveSession == [id : Nat, last_interaction : Nat, idle_reported : BOOLEAN,
                relaunches : Nat, last_relaunch : Nat \cup {Never}]
Charge == [session : Nat, nth : Nat, at : Nat]

-----------------------------------------------------------------------------
(* The clock.  `observe` keeps the high-water mark of the readings and     *)
(* drops the outstanding token when a reading falls below it.              *)

Behind == clock < latest_now

\* mutant: a step back leaves the token outstanding
ObservedLaunchKept == launch

ObservedLaunch == IF Behind THEN NoLaunch ELSE launch

ObservedLatest == IF Behind THEN latest_now ELSE clock

Observes ==
  /\ latest_now' = ObservedLatest
  /\ voided' = IF Behind /\ launch.token # 0 THEN voided \cup {launch.token} ELSE voided

(* A method that reads the clock and changes neither the token nor the     *)
(* session otherwise.                                                      *)
OnlyObserve == Observes /\ launch' = ObservedLaunch

-----------------------------------------------------------------------------
Init ==
  /\ clock \in 0 .. MaxClock
  /\ latest_now = 0
  /\ launch = NoLaunch
  /\ session = NoSession
  /\ pc = [w \in Worker |-> "idle"]
  /\ proven = [w \in Worker |-> 0]
  /\ receipt = [w \in Worker |-> NoCharge]
  /\ expiring = 0
  /\ minted = <<>>
  /\ consumed = {}
  /\ voided = {}
  /\ opened = <<>>
  /\ charges = {}

(* mint_launch_token: the fresh token replaces the outstanding one. *)
MintLaunchToken(charge) ==
  /\ Len(minted) < MaxToken
  /\ Observes
  /\ launch' = [token |-> Len(minted) + 1, at |-> clock, failed |-> 0]
  /\ minted' = Append(minted, [at |-> clock, charge |-> charge])

(* The launcher mints the first token and hands it to the opener, before   *)
(* the server accepts its first connection.                                *)
LaunchUrl ==
  /\ minted = <<>>
  /\ MintLaunchToken(NoCharge)
  /\ UNCHANGED <<clock, session, pc, proven, receipt, expiring, consumed, opened,
                 charges>>

-----------------------------------------------------------------------------
(* bootstrap.  `presented` is the token in the request: any token minted   *)
(* so far, or 0 for a value that never was one.                            *)

Matches(presented) == presented # 0 /\ presented = ObservedLaunch.token

Live == clock >= ObservedLaunch.at /\ clock - ObservedLaunch.at < TTL

\* mutant: a plain increment where the code saturates
AfterFailurePlain(l) ==
  IF l.token = 0 THEN l ELSE [l EXCEPT !.failed = @ + 1]

AfterFailure(l) ==
  IF l.token = 0 THEN l
  ELSE [l EXCEPT !.failed = IF @ < FailCap THEN @ + 1 ELSE @]

\* mutant: a presentation takes the token out before it is compared
BootstrapMismatchTakes(presented) ==
  /\ ~Matches(presented)
  /\ Observes
  /\ launch' = NoLaunch
  /\ UNCHANGED <<clock, session, threads, history>>

(* A wrong token: counted, the outstanding one stays. *)
BootstrapMismatch(presented) ==
  /\ ~Matches(presented)
  /\ Observes
  /\ launch' = AfterFailure(ObservedLaunch)
  /\ UNCHANGED <<clock, session, threads, history>>

\* mutant: a token that produced nothing may be tried again
BootstrapSpentKeeps(presented) ==
  /\ Matches(presented)
  /\ Observes
  /\ launch' = ObservedLaunch
  /\ consumed' = consumed \cup {presented}
  /\ UNCHANGED <<clock, session, threads, minted, opened, charges>>

(* The token matches but produces nothing: it is too old, or the entropy   *)
(* source fails.  It is consumed all the same.                             *)
BootstrapSpent(presented) ==
  /\ Matches(presented)
  /\ Observes
  /\ launch' = NoLaunch
  /\ consumed' = consumed \cup {presented}
  /\ UNCHANGED <<clock, session, threads, minted, opened, charges>>

Establish(w) ==
  /\ pc[w] = "idle"
  /\ Len(opened) < MaxSession
  /\ Observes
  /\ session' = [id |-> Len(opened) + 1, last_interaction |-> clock,
                 idle_reported |-> FALSE, relaunches |-> 0,
                 last_relaunch |-> Never]
  /\ consumed' = consumed \cup {ObservedLaunch.token}
  /\ opened' = Append(opened, [token |-> ObservedLaunch.token, at |-> clock])
  /\ pc' = [pc EXCEPT ![w] = IF session = NoSession THEN @ ELSE "replaced"]
  /\ UNCHANGED <<clock, proven, receipt, expiring, minted, charges>>

\* mutant: the token stays outstanding
BootstrapEstablishKeeps(w, presented) ==
  Matches(presented) /\ Live /\ Establish(w) /\ launch' = ObservedLaunch

(* A match in time: the token is consumed and a new session takes the      *)
(* place of the live one.  on_session_replaced is called after the unlock. *)
BootstrapEstablish(w, presented) ==
  Matches(presented) /\ Live /\ Establish(w) /\ launch' = NoLaunch

(* The hook of a replacing bootstrap runs. *)
OnSessionReplaced(w) ==
  /\ pc[w] = "replaced"
  /\ pc' = [pc EXCEPT ![w] = "idle"]
  /\ UNCHANGED <<clock, manager, proven, receipt, expiring, history>>

-----------------------------------------------------------------------------
(* POST /session/relaunch. *)

(* The session gate accepts a proof: it is that of the session live now. *)
GateRelaunch(w) ==
  /\ pc[w] = "idle"
  /\ session # NoSession
  /\ pc' = [pc EXCEPT ![w] = "gated"]
  /\ proven' = [proven EXCEPT ![w] = session.id]
  /\ UNCHANGED <<clock, manager, receipt, expiring, history>>

\* mutant: no interval
TooSoonNever == FALSE

TooSoon ==
  session.last_relaunch # Never /\ clock < session.last_relaunch + MinInterval

CapReached == session.relaunches >= MaxRelaunch

(* No session, budget used up, or inside the interval: nothing is minted. *)
RelaunchRefused(w) ==
  /\ pc[w] = "gated"
  /\ session = NoSession \/ CapReached \/ TooSoon
  /\ OnlyObserve
  /\ pc' = [pc EXCEPT ![w] = "idle"]
  /\ proven' = [proven EXCEPT ![w] = 0]
  /\ UNCHANGED <<clock, session, receipt, expiring, history>>

ThisCharge ==
  [session |-> session.id, nth |-> session.relaunches + 1, at |-> clock]

(* The charge, under the first lock, against whichever session is live. *)
RelaunchCharges(w) ==
  /\ pc[w] = "gated"
  /\ session # NoSession
  /\ ~CapReached
  /\ ~TooSoon
  /\ OnlyObserve
  /\ session' = [session EXCEPT !.relaunches = @ + 1, !.last_relaunch = clock]
  /\ charges' = charges \cup {ThisCharge}
  /\ receipt' = [receipt EXCEPT ![w] = ThisCharge]
  /\ pc' = [pc EXCEPT ![w] = "charged"]
  /\ UNCHANGED <<clock, proven, expiring, minted, consumed, opened>>

Released(w) ==
  /\ pc' = [pc EXCEPT ![w] = "idle"]
  /\ proven' = [proven EXCEPT ![w] = 0]
  /\ receipt' = [receipt EXCEPT ![w] = NoCharge]

\* mutant: the thread may go round and mint again for the same charge
RelaunchMintsAgain(w) ==
  /\ pc[w] = "charged"
  /\ MintLaunchToken(receipt[w])
  /\ UNCHANGED <<clock, session, pc, proven, receipt, expiring, consumed, opened,
                 charges>>

(* The token, under the second lock; the opener gets its URL. *)
RelaunchMints(w) ==
  /\ pc[w] = "charged"
  /\ MintLaunchToken(receipt[w])
  /\ Released(w)
  /\ UNCHANGED <<clock, session, expiring, consumed, opened, charges>>

(* The entropy source fails after the charge: no token, the charge stands. *)
RelaunchNoEntropy(w) ==
  /\ pc[w] = "charged"
  /\ Released(w)
  /\ UNCHANGED <<clock, manager, expiring, history>>

-----------------------------------------------------------------------------
(* Idle. *)

NoteInteraction ==
  /\ OnlyObserve
  /\ session' = IF session = NoSession THEN session
                ELSE [session EXCEPT !.last_interaction = clock,
                                     !.idle_reported = FALSE]
  /\ UNCHANGED <<clock, threads, history>>

\* mutant: the ticker forgets to flag the session it reports
CheckIdleUnflagged ==
  /\ expiring = 0
  /\ OnlyObserve
  /\ expiring' = IF session # NoSession /\ clock - session.last_interaction >= IdleAfter
                   THEN session.id ELSE 0
  /\ UNCHANGED <<clock, session, pc, proven, receipt, history>>

IdleExpired == clock - session.last_interaction >= IdleAfter

IdleDue == session # NoSession /\ ~session.idle_reported /\ IdleExpired

(* A tick of the idle ticker. *)
CheckIdle ==
  /\ expiring = 0
  /\ OnlyObserve
  /\ \/ /\ IdleDue
        /\ session' = [session EXCEPT !.idle_reported = TRUE]
        /\ expiring' = session.id
     \/ ~IdleDue /\ UNCHANGED <<session, expiring>>
  /\ UNCHANGED <<clock, pc, proven, receipt, history>>

(* The hook of an expiry runs; the ticker ticks again only after it. *)
OnIdleTimeout ==
  /\ expiring # 0
  /\ expiring' = 0
  /\ UNCHANGED <<clock, manager, pc, proven, receipt, history>>

-----------------------------------------------------------------------------
(* The clock moves on, or is seen to step backwards. *)
Tick ==
  /\ clock < MaxClock
  /\ clock' = clock + 1
  /\ UNCHANGED <<manager, threads, history>>

StepBack ==
  /\ \E earlier \in 0 .. MaxClock : earlier < clock /\ clock' = earlier
  /\ UNCHANGED <<manager, threads, history>>

Bootstrap ==
  \E presented \in 0 .. Len(minted) :
    \/ BootstrapMismatch(presented)
    \/ BootstrapSpent(presented)
    \/ \E w \in Worker : BootstrapEstablish(w, presented)

Relaunch(w) ==
  \/ GateRelaunch(w)
  \/ RelaunchRefused(w)
  \/ RelaunchCharges(w)
  \/ RelaunchMints(w)
  \/ RelaunchNoEntropy(w)

Next ==
  \/ LaunchUrl
  \/ Bootstrap
  \/ \E w \in Worker : OnSessionReplaced(w) \/ Relaunch(w)
  \/ NoteInteraction
  \/ CheckIdle
  \/ OnIdleTimeout
  \/ Tick
  \/ StepBack

Spec == Init /\ [][Next]_vars

-----------------------------------------------------------------------------
(* Properties. *)

(* The type invariant. *)
TypeOK ==
  /\ clock \in Nat
  /\ latest_now \in Nat
  /\ launch \in LaunchToken
  /\ session \in LiveSession
  /\ pc \in [Worker -> {"idle", "gated", "charged", "replaced"}]
  /\ proven \in [Worker -> Nat]
  /\ receipt \in [Worker -> Charge]
  /\ expiring \in Nat
  /\ minted \in Seq([at : Nat, charge : Charge])
  /\ consumed \in SUBSET Nat
  /\ voided \in SUBSET Nat
  /\ opened \in Seq([token : Nat, at : Nat])
  /\ charges \in SUBSET Charge

(* A token opens at most one session, and never after a newer one has: the *)
(* sessions were opened by ever newer tokens, and the token still          *)
(* outstanding is newer than all of them ("single use", session.rs:3,11).  *)
(* Nor is it one that was presented before and opened none, too late or    *)
(* for want of entropy ("consumed by the first matching presentation, live *)
(* or not", session.rs:320).                                               *)
TokenOpensOneSession ==
  /\ \A i, j \in DOMAIN opened : i < j => opened[i].token < opened[j].token
  /\ launch.token # 0 =>
       /\ \A i \in DOMAIN opened : opened[i].token < launch.token
       /\ launch.token \notin consumed

(* A session starts less than TTL after its token was minted ("60 s",      *)
(* session.rs:3), and no token starts one that was outstanding when any    *)
(* call saw the clock step back: however far the clock has come since, the *)
(* token's age would be counted too small (session.rs:14-16).              *)
OpenedInTime ==
  \A i \in DOMAIN opened :
    LET mint == minted[opened[i].token]
    IN  /\ mint.at <= opened[i].at /\ opened[i].at - mint.at < TTL
        /\ opened[i].token \notin voided

(* Validity fails closed: no session starts on a clock that reads less     *)
(* than it read at an earlier start (session.rs:14-16).                    *)
StartsInOrder ==
  \A i, j \in DOMAIN opened : i < j => opened[i].at <= opened[j].at

(* The relaunches charged to one session are numbered without repetition   *)
(* up to the cap and lie MinInterval apart (limits.rs:67-71), though they  *)
(* come from several threads and the clock may step back.                  *)
RelaunchBudget ==
  /\ \A c \in charges : c.nth \in 1 .. MaxRelaunch
  /\ \A c, d \in charges :
       c.session = d.session /\ c # d =>
         \/ c.nth < d.nth /\ c.at + MinInterval <= d.at
         \/ d.nth < c.nth /\ d.at + MinInterval <= c.at

(* Every token but the launcher's was minted for a charge of its own: a    *)
(* refused relaunch mints nothing, and no charge is minted for twice       *)
(* (session.rs:393).                                                       *)
EveryMintIsPaid ==
  \A i \in DOMAIN minted :
    /\ i > 1 => minted[i].charge \in charges
    /\ \A j \in DOMAIN minted :
         minted[i].charge = minted[j].charge => i = j

(* The outstanding token is only ever lost to its own presentation, to a   *)
(* newer token or to a clock seen to step back: a wrong token does not     *)
(* consume the real one (session.rs:11).                                   *)
TokenLostForAReason ==
  [][launch.token # 0 /\ launch'.token # launch.token =>
       \/ launch.token \in consumed'
       \/ launch'.token = Len(minted') /\ Len(minted') > Len(minted)
       \/ clock < latest_now]_vars

(* The manager keeps the promise of module SessionPromise. *)
Promise == INSTANCE SessionPromise WITH
             issued <- Len(minted), good <- launch.token, live <- session.id

KeepsPromise == Promise!Spec

(* A charge goes to the session whose proof the request carried: "the      *)
(* caller has already checked the proof" (session.rs:393).                 *)
ChargedSessionWasProven ==
  \A w \in Worker : pc[w] = "charged" => receipt[w].session = proven[w]

(* The ticker task runs until the server stops (server.rs:297-303).        *)
FairSpec == Spec /\ WF_vars(CheckIdle) /\ WF_vars(OnIdleTimeout)

(* A session left idle is reported, and the hook runs (session.rs:75).     *)
IdleIsReported ==
  <>[](session # NoSession /\ IdleExpired) =>
    <>[](session.idle_reported /\ expiring = 0)

-----------------------------------------------------------------------------
(* The inductive invariant behind the safety properties. *)

TokensInv ==
  /\ launch.token # 0 =>
       /\ launch.token = Len(minted)
       /\ launch.at = minted[launch.token].at
  /\ \A i \in DOMAIN opened : opened[i].token \in DOMAIN minted
  /\ consumed \subseteq DOMAIN minted
  /\ TokenOpensOneSession

TimesInv ==
  /\ OpenedInTime
  /\ voided \subseteq DOMAIN minted /\ launch.token \notin voided
  /\ StartsInOrder
  /\ \A i \in DOMAIN opened : opened[i].at <= latest_now

SessionInv ==
  /\ session.id = Len(opened)
  /\ session.id = 0 => session = NoSession

BudgetInv ==
  /\ RelaunchBudget
  /\ \A c \in charges :
       /\ c.session \in 1 .. session.id
       /\ c.session = session.id =>
            /\ c.nth <= session.relaunches
            /\ session.last_relaunch # Never
            /\ c.at <= session.last_relaunch

PaidInv ==
  /\ EveryMintIsPaid
  /\ minted # <<>> => minted[1].charge = NoCharge
  /\ \A w \in Worker : pc[w] = "charged" =>
       /\ receipt[w] \in charges
       /\ \A i \in DOMAIN minted : minted[i].charge # receipt[w]
       /\ \A v \in Worker : pc[v] = "charged" /\ receipt[v] = receipt[w] => v = w

IInv == TypeOK /\ TokensInv /\ TimesInv /\ SessionInv /\ BudgetInv /\ PaidInv
=============================================================================
