------------------------ MODULE SessionManagerProofs ------------------------
(***************************************************************************)
(* Theorems about SessionManager for every value of its constants: the     *)
(* inductive invariant IInv, the safety properties it implies, and the     *)
(* refinement of SessionPromise.                                           *)
(***************************************************************************)
EXTENDS SessionManager, SequenceTheorems, TLAPS

(* The records that stand for "none" have the types of the ones they       *)
(* replace.                                                                *)
LEMMA NoneTypes ==
  /\ NoLaunch \in LaunchToken
  /\ NoSession \in LiveSession
  /\ NoCharge \in Charge
BY LimitsAssumption DEF NoLaunch, NoSession, NoCharge, LaunchToken,
   LiveSession, Charge, Never

(* What observe leaves of the token and of the high-water mark is typed,   *)
(* and the mark never falls and is at or above the reading only when the   *)
(* clock is behind.                                                        *)
LEMMA ObserveTypes ==
  ASSUME TypeOK
  PROVE  /\ ObservedLaunch \in LaunchToken
         /\ ObservedLatest \in Nat
         /\ ObservedLatest >= latest_now
         /\ ObservedLatest >= clock
BY NoneTypes DEF TypeOK, ObservedLaunch, ObservedLatest, Behind

(* The token a step may lose. *)
Outstanding == {launch.token} \ {0}

(* A call that observes the clock raises the mark; it writes off the       *)
(* outstanding token if the clock is behind, and nothing otherwise.        *)
LEMMA ObserveFacts ==
  ASSUME TypeOK, Observes
  PROVE  /\ latest_now' \in Nat /\ latest_now' >= latest_now
         /\ voided' \in SUBSET Nat
         /\ \/ /\ ObservedLaunch.token = 0
               /\ voided' \subseteq voided \cup Outstanding
            \/ /\ ~Behind /\ ObservedLaunch = launch
               /\ voided' = voided
<1>1. latest_now' \in Nat /\ latest_now' >= latest_now
  BY ObserveTypes DEF Observes, TypeOK
<1>2. launch.token \in Nat /\ voided \in SUBSET Nat
  BY DEF TypeOK, LaunchToken
<1>3. CASE Behind
  BY <1>1, <1>2, <1>3 DEF Observes, ObservedLaunch, NoLaunch, Outstanding
<1>4. CASE ~Behind
  BY <1>1, <1>2, <1>4 DEF Observes, ObservedLaunch
<1>5. QED
  BY <1>3, <1>4

(* A failed presentation changes only the counter of the token.            *)
LEMMA FailureTypes ==
  ASSUME NEW l \in LaunchToken
  PROVE  /\ AfterFailure(l) \in LaunchToken
         /\ AfterFailure(l).token = l.token
         /\ AfterFailure(l).at = l.at
BY LimitsAssumption DEF AfterFailure, LaunchToken

(* A charge, and the session it is made to, are typed. *)
LEMMA ChargeTypes ==
  ASSUME TypeOK
  PROVE  /\ ThisCharge \in Charge
         /\ [session EXCEPT !.relaunches = @ + 1, !.last_relaunch = clock]
              \in LiveSession
<1>1. session \in LiveSession /\ clock \in Nat
  BY DEF TypeOK
<1>2. ThisCharge \in Charge
  BY <1>1 DEF ThisCharge, Charge, LiveSession
<1> DEFINE counted == [session EXCEPT !.relaunches = @ + 1]
<1>3. counted \in LiveSession
  BY <1>1 DEF LiveSession
<1>4. [counted EXCEPT !.last_relaunch = clock]
        \in LiveSession
  <2> HIDE DEF counted
  <2> QED BY <1>1, <1>3 DEF LiveSession
<1>5. QED
  BY <1>2, <1>4

(* Every action keeps the types. *)
LEMMA TypesInitially == Init => TypeOK
BY NoneTypes, LimitsAssumption DEF Init, TypeOK

LEMMA TypesKept == TypeOK /\ [Next]_vars => TypeOK'
<1> SUFFICES ASSUME TypeOK, [Next]_vars PROVE TypeOK'
  OBVIOUS
<1> USE NoneTypes, ObserveTypes, ObserveFacts, LimitsAssumption DEF TypeOK
<1>m. ASSUME NEW c \in Charge, MintLaunchToken(c)
      PROVE  /\ latest_now' \in Nat
             /\ voided' \in SUBSET Nat
             /\ launch' \in LaunchToken
             /\ minted' \in Seq([at : Nat, charge : Charge])
  BY <1>m DEF MintLaunchToken, LaunchToken
<1>1. CASE LaunchUrl
  BY <1>1, <1>m DEF LaunchUrl
<1>2. ASSUME NEW p \in 0 .. Len(minted), BootstrapMismatch(p) PROVE TypeOK'
  BY <1>2, FailureTypes DEF BootstrapMismatch, threads, history
<1>3. ASSUME NEW p \in 0 .. Len(minted), BootstrapSpent(p) PROVE TypeOK'
  BY <1>3 DEF BootstrapSpent, threads
<1>4. ASSUME NEW p \in 0 .. Len(minted), NEW w \in Worker,
             BootstrapEstablish(w, p)
      PROVE  TypeOK'
  <2>1. ObservedLaunch.token \in Nat
    BY DEF LaunchToken
  <2>2. session' \in LiveSession
    BY <1>4 DEF BootstrapEstablish, Establish, LiveSession, Never
  <2>3. opened' \in Seq([token : Nat, at : Nat])
    BY <1>4, <2>1 DEF BootstrapEstablish, Establish
  <2>4. QED
    BY <1>4, <2>1, <2>2, <2>3 DEF BootstrapEstablish, Establish
<1>5. ASSUME NEW w \in Worker, OnSessionReplaced(w) PROVE TypeOK'
  BY <1>5 DEF OnSessionReplaced, manager, history
<1>6. ASSUME NEW w \in Worker, GateRelaunch(w) PROVE TypeOK'
  BY <1>6 DEF GateRelaunch, manager, history, LiveSession
<1>7. ASSUME NEW w \in Worker, RelaunchRefused(w) PROVE TypeOK'
  BY <1>7 DEF RelaunchRefused, OnlyObserve, history
<1>8. ASSUME NEW w \in Worker, RelaunchCharges(w) PROVE TypeOK'
  <2>1. ThisCharge \in Charge /\ session' \in LiveSession
    BY <1>8, ChargeTypes DEF RelaunchCharges
  <2>2. QED
    BY <1>8, <2>1 DEF RelaunchCharges, OnlyObserve
<1>9. ASSUME NEW w \in Worker, RelaunchMints(w) PROVE TypeOK'
  BY <1>9, <1>m DEF RelaunchMints, Released
<1>10. ASSUME NEW w \in Worker, RelaunchNoEntropy(w) PROVE TypeOK'
  BY <1>10 DEF RelaunchNoEntropy, Released, manager, history
<1>11. CASE NoteInteraction
  BY <1>11 DEF NoteInteraction, OnlyObserve, threads, history, LiveSession
<1>12. CASE CheckIdle
  <2>1. session \in LiveSession
    OBVIOUS
  <2>2. [session EXCEPT !.idle_reported = TRUE] \in LiveSession
        /\ session.id \in Nat
    BY <2>1 DEF LiveSession
  <2>3. session' \in LiveSession /\ expiring' \in Nat
    BY <1>12, <2>2 DEF CheckIdle
  <2>4. QED
    BY <1>12, <2>3 DEF CheckIdle, OnlyObserve, history
<1>13. CASE OnIdleTimeout
  BY <1>13 DEF OnIdleTimeout, manager, history
<1>14. CASE Tick
  BY <1>14 DEF Tick, manager, threads, history
<1>15. CASE StepBack
  BY <1>15 DEF StepBack, manager, threads, history
<1>16. CASE UNCHANGED vars
  BY <1>16 DEF vars
<1>17. QED
  BY <1>1, <1>2, <1>3, <1>4, <1>5, <1>6, <1>7, <1>8, <1>9, <1>10, <1>11,
     <1>12, <1>13, <1>14, <1>15, <1>16 DEF Next, Bootstrap, Relaunch

(* The state is always well typed. *)
THEOREM TypeCorrect == Spec => []TypeOK
BY TypesInitially, TypesKept, PTL DEF Spec
-----------------------------------------------------------------------------
(* What a step can do to the tokens and the sessions: mint a token, open a *)
(* session, or neither; in the last case the token stays or is lost.       *)

Mints ==
  \E c \in Charge :
    MintLaunchToken(c) /\ UNCHANGED <<consumed, opened, session>>

Opens == \E w \in Worker, p \in 0 .. Len(minted) : BootstrapEstablish(w, p)

Quiet ==
  /\ UNCHANGED <<minted, opened>>
  /\ session'.id = session.id
  /\ session = NoSession => session' = NoSession
  /\ latest_now' \in Nat /\ latest_now' >= latest_now
  /\ \/ /\ launch'.token = 0
        /\ consumed' \subseteq consumed \cup Outstanding
        /\ voided' \subseteq voided \cup Outstanding
     \/ /\ launch'.token = launch.token /\ launch'.at = launch.at
        /\ UNCHANGED <<consumed, voided>>

LEMMA StepShapes ==
  ASSUME TypeOK, [Next]_vars
  PROVE  Mints \/ Opens \/ Quiet
<1> SUFFICES ASSUME ~Mints, ~Opens PROVE Quiet
  OBVIOUS
<1>o. Observes =>
        /\ latest_now' \in Nat /\ latest_now' >= latest_now
        /\ \/ /\ ObservedLaunch.token = 0
              /\ voided' \subseteq voided \cup Outstanding
           \/ ObservedLaunch = launch /\ voided' = voided
  BY ObserveFacts
<1>t. latest_now \in Nat
  BY DEF TypeOK
<1>a. AfterFailure(ObservedLaunch).token = ObservedLaunch.token
      /\ AfterFailure(ObservedLaunch).at = ObservedLaunch.at
  BY ObserveTypes, FailureTypes
<1>n. NoLaunch.token = 0
  BY DEF NoLaunch
<1>s. session \in LiveSession
  BY DEF TypeOK
<1>1. CASE LaunchUrl
  BY <1>1, NoneTypes DEF LaunchUrl, Mints
<1>2. ASSUME NEW p \in 0 .. Len(minted), BootstrapMismatch(p) PROVE Quiet
  BY <1>2, <1>o, <1>t, <1>a DEF BootstrapMismatch, history, Quiet
<1>3. ASSUME NEW p \in 0 .. Len(minted), BootstrapSpent(p) PROVE Quiet
  <2>1. p = launch.token /\ p # 0
    BY <1>3 DEF BootstrapSpent, Matches, ObservedLaunch, NoLaunch
  <2>2. consumed' \subseteq consumed \cup Outstanding
    BY <1>3, <2>1 DEF BootstrapSpent, Outstanding
  <2>3. QED
    BY <1>3, <1>o, <1>n, <2>2 DEF BootstrapSpent, Quiet
<1>4. ASSUME NEW p \in 0 .. Len(minted), NEW w \in Worker,
             BootstrapEstablish(w, p)
      PROVE  Quiet
  BY <1>4 DEF Opens
<1>5. ASSUME NEW w \in Worker, OnSessionReplaced(w) PROVE Quiet
  BY <1>5, <1>t DEF OnSessionReplaced, manager, history, Quiet
<1>6. ASSUME NEW w \in Worker, GateRelaunch(w) PROVE Quiet
  BY <1>6, <1>t DEF GateRelaunch, manager, history, Quiet
<1>7. ASSUME NEW w \in Worker, RelaunchRefused(w) PROVE Quiet
  BY <1>7, <1>o, <1>t DEF RelaunchRefused, OnlyObserve, history, Quiet
<1>8. ASSUME NEW w \in Worker, RelaunchCharges(w) PROVE Quiet
  <2>1. session'.id = session.id
    BY <1>8, <1>s DEF RelaunchCharges, LiveSession
  <2>2. QED
    BY <1>8, <1>o, <1>t, <2>1 DEF RelaunchCharges, OnlyObserve, Quiet
<1>9. ASSUME NEW w \in Worker, RelaunchMints(w) PROVE Quiet
  BY <1>9 DEF RelaunchMints, Mints, TypeOK
<1>10. ASSUME NEW w \in Worker, RelaunchNoEntropy(w) PROVE Quiet
  BY <1>10, <1>t DEF RelaunchNoEntropy, manager, history, Quiet
<1>11. CASE NoteInteraction
  <2>1. session'.id = session.id
    BY <1>11, <1>s DEF NoteInteraction, LiveSession
  <2>2. session = NoSession => session' = NoSession
    BY <1>11 DEF NoteInteraction
  <2>3. QED
    BY <1>11, <1>o, <1>t, <2>1, <2>2 DEF NoteInteraction, OnlyObserve, history, Quiet
<1>12. CASE CheckIdle
  <2>1. session'.id = session.id
    BY <1>12, <1>s DEF CheckIdle, LiveSession
  <2>2. session = NoSession => session' = NoSession
    BY <1>12 DEF CheckIdle, IdleDue
  <2>3. QED
    BY <1>12, <1>o, <1>t, <2>1, <2>2 DEF CheckIdle, OnlyObserve, history, Quiet
<1>13. CASE OnIdleTimeout
  BY <1>13, <1>t DEF OnIdleTimeout, manager, history, Quiet
<1>14. CASE Tick
  BY <1>14, <1>t DEF Tick, manager, history, Quiet
<1>15. CASE StepBack
  BY <1>15, <1>t DEF StepBack, manager, history, Quiet
<1>16. CASE UNCHANGED vars
  BY <1>16, <1>t DEF vars, Quiet
<1>17. QED
  BY <1>1, <1>2, <1>3, <1>4, <1>5, <1>6, <1>7, <1>8, <1>9, <1>10, <1>11,
     <1>12, <1>13, <1>14, <1>15, <1>16 DEF Next, Bootstrap, Relaunch

(* A token that opens a session is the outstanding one, seen on a clock    *)
(* that is not behind, less than TTL after it was minted.                  *)
LEMMA OpensFacts ==
  ASSUME TypeOK, Opens
  PROVE  /\ launch.token # 0
         /\ clock >= latest_now
         /\ clock >= launch.at /\ clock - launch.at < TTL
         /\ launch' = NoLaunch
         /\ latest_now' = clock
         /\ minted' = minted /\ voided' = voided
         /\ consumed' = consumed \cup {launch.token}
         /\ opened' = Append(opened, [token |-> launch.token, at |-> clock])
         /\ session'.id = Len(opened) + 1
<1>1. PICK w \in Worker, p \in 0 .. Len(minted) : BootstrapEstablish(w, p)
  BY DEF Opens
<1>2. ObservedLaunch.token # 0
  BY <1>1 DEF BootstrapEstablish, Matches
<1>3. ~Behind /\ ObservedLaunch = launch
  BY <1>2 DEF ObservedLaunch, NoLaunch
<1>4. QED
  BY <1>1, <1>2, <1>3 DEF BootstrapEstablish, Establish, Observes, Live, Behind,
     ObservedLatest, TypeOK

LEMMA TokensKept ==
  ASSUME TypeOK, TokensInv, [Next]_vars
  PROVE  TokensInv'
<1> USE DEF TypeOK, TokensInv, TokenOpensOneSession
<1>1. CASE Mints
  <2>1. PICK c \in Charge :
         MintLaunchToken(c) /\ UNCHANGED <<consumed, opened, session>>
    BY <1>1 DEF Mints
  <2>2. Len(minted') = Len(minted) + 1 /\ launch'.token = Len(minted) + 1
        /\ launch'.at = minted'[Len(minted) + 1].at
        /\ opened' = opened /\ consumed' = consumed
    BY <2>1 DEF MintLaunchToken
  <2>3. DOMAIN minted = 1 .. Len(minted) /\ DOMAIN minted' = 1 .. Len(minted')
    BY TypesKept
  <2>4. \A i \in DOMAIN opened : opened[i].token \in 1 .. Len(minted)
    BY <2>3
  <2>5. QED
    BY <2>2, <2>3, <2>4
<1>2. CASE Opens
  <2>1. /\ launch.token # 0 /\ launch'.token = 0 /\ minted' = minted
        /\ consumed' = consumed \cup {launch.token}
        /\ opened' = Append(opened, [token |-> launch.token, at |-> clock])
    <3> HIDE DEF TypeOK, TokensInv, TokenOpensOneSession
    <3>1. QED
      BY <1>2, OpensFacts DEF NoLaunch
  <2>2. /\ DOMAIN opened' = 1 .. Len(opened) + 1
        /\ \A i \in DOMAIN opened : opened'[i] = opened[i]
        /\ opened'[Len(opened) + 1].token = launch.token
    BY SMTT(30), <2>1 DEF LaunchToken
  <2>3. launch.token \in DOMAIN minted
    BY <2>1 DEF LaunchToken
  <2>4. \A i \in DOMAIN opened : opened[i].token < launch.token
    BY <2>1
  <2>5. DOMAIN opened = 1 .. Len(opened) /\ Len(opened) \in Nat
    OBVIOUS
  <2>r. ASSUME NEW i \in DOMAIN opened'
        PROVE  i \in DOMAIN opened \/ i = Len(opened) + 1
    <3>1. i \in 1 .. Len(opened) + 1
      BY <2>2
    <3> HIDE DEF TypeOK, TokensInv, TokenOpensOneSession
    <3>2. QED
      BY <3>1, <2>5
  <2>6. ASSUME NEW i \in DOMAIN opened'
        PROVE  opened'[i].token \in DOMAIN minted'
    <3>1. CASE i \in DOMAIN opened
      BY <2>1, <2>2, <3>1
    <3>2. CASE i = Len(opened) + 1
      BY <2>1, <2>2, <2>3, <3>2
    <3>3. QED
      BY <2>r, <3>1, <3>2
  <2>7. ASSUME NEW i \in DOMAIN opened', NEW j \in DOMAIN opened', i < j
        PROVE  opened'[i].token < opened'[j].token
    <3>1. i \in DOMAIN opened /\ opened'[i] = opened[i]
      BY <2>2, <2>5, <2>7
    <3>2. CASE j \in DOMAIN opened
      BY <2>2, <2>7, <3>1, <3>2
    <3>3. CASE j = Len(opened) + 1
      BY <2>2, <2>4, <3>1, <3>3
    <3>4. QED
      BY <2>r, <3>2, <3>3
  <2>8. QED
    BY <2>1, <2>3, <2>6, <2>7
<1>3. CASE Quiet
  <2>1. Outstanding \subseteq DOMAIN minted
    BY DEF Outstanding, LaunchToken
  <2>2. consumed' \subseteq DOMAIN minted'
    BY <1>3, <2>1 DEF Quiet
  <2>3. QED
    BY <1>3, <2>2 DEF Quiet
<1>4. QED
  BY <1>1, <1>2, <1>3, StepShapes

LEMMA TimesKept ==
  ASSUME TypeOK, TokensInv, TimesInv, [Next]_vars
  PROVE  TimesInv'
<1>o. ASSUME NEW i \in DOMAIN opened
      PROVE  opened[i].token \in DOMAIN minted /\ opened[i].at \in Nat
  <2>1. opened[i].token \in DOMAIN minted
    BY DEF TokensInv
  <2>2. opened \in Seq([token : Nat, at : Nat])
    BY DEF TypeOK
  <2>3. opened[i] \in [token : Nat, at : Nat]
    BY <2>2, i \in 1 .. Len(opened), ElementOfSeq
  <2>4. QED
    BY <2>1, <2>3
<1>u. Outstanding \subseteq DOMAIN minted
  BY DEF TypeOK, TokensInv, Outstanding, LaunchToken
<1>v. \A i \in DOMAIN opened : launch.token # 0 => opened[i].token # launch.token
  BY <1>o DEF TypeOK, TokensInv, TokenOpensOneSession, LaunchToken
<1>z. 0 \notin DOMAIN minted
  BY DEF TypeOK
<1> USE DEF TypeOK, TimesInv, OpenedInTime, StartsInOrder
<1>1. CASE Mints
  <2>1. PICK c \in Charge :
         MintLaunchToken(c) /\ UNCHANGED <<consumed, opened, session>>
    BY <1>1 DEF Mints
  <2>2. opened' = opened /\ latest_now' \in Nat /\ latest_now' >= latest_now
    BY <2>1, ObserveFacts DEF MintLaunchToken
  <2>3. \A k \in DOMAIN minted : minted'[k] = minted[k]
    BY <2>1 DEF MintLaunchToken
  <2>4. voided' \subseteq voided \cup Outstanding
    BY <2>1, ObserveFacts DEF MintLaunchToken
  <2>5. /\ DOMAIN minted' = DOMAIN minted \cup {Len(minted) + 1}
        /\ launch'.token = Len(minted) + 1 /\ Len(minted) + 1 \notin DOMAIN minted
    BY <2>1 DEF MintLaunchToken
  <2>6. /\ voided' \subseteq DOMAIN minted' /\ launch'.token \notin voided'
        /\ \A i \in DOMAIN opened : opened[i].token \notin voided'
    BY <2>4, <2>5, <1>o, <1>u, <1>v, <1>z DEF Outstanding
  <2>7. OpenedInTime'
    BY SMTT(30), <2>2, <2>3, <2>6, <1>o
  <2>8. QED
    BY <2>2, <2>6, <2>7, <1>o
<1>2. CASE Opens
  <2>1. /\ clock >= latest_now /\ clock >= launch.at /\ clock - launch.at < TTL
        /\ launch.token # 0 /\ latest_now' = clock /\ minted' = minted
        /\ voided' = voided /\ launch'.token = 0
        /\ opened' = Append(opened, [token |-> launch.token, at |-> clock])
    <3> HIDE DEF TypeOK, TimesInv, OpenedInTime, StartsInOrder
    <3>1. QED
      BY <1>2, OpensFacts DEF NoLaunch
  <2>2. /\ DOMAIN opened' = 1 .. Len(opened) + 1
        /\ \A i \in DOMAIN opened : opened'[i] = opened[i]
        /\ opened'[Len(opened) + 1] = [token |-> launch.token, at |-> clock]
    BY SMTT(30), <2>1 DEF LaunchToken
  <2>3. launch.at = minted[launch.token].at
    BY <2>1 DEF TokensInv
  <2>4. DOMAIN opened = 1 .. Len(opened) /\ Len(opened) \in Nat
    OBVIOUS
  <2>r. ASSUME NEW i \in DOMAIN opened'
        PROVE  i \in DOMAIN opened \/ i = Len(opened) + 1
    <3>1. i \in 1 .. Len(opened) + 1
      BY <2>2
    <3> HIDE DEF TypeOK, TimesInv, OpenedInTime, StartsInOrder
    <3>2. QED
      BY <3>1, <2>4
  <2>5. ASSUME NEW i \in DOMAIN opened'
        PROVE  /\ minted'[opened'[i].token].at <= opened'[i].at
               /\ opened'[i].at - minted'[opened'[i].token].at < TTL
               /\ opened'[i].token \notin voided'
    <3>1. CASE i \in DOMAIN opened
      BY <2>1, <2>2, <3>1
    <3>2. CASE i = Len(opened) + 1
      <4>1. opened'[i].token = launch.token /\ opened'[i].at = clock
        BY <2>2, <3>2
      <4>2. QED
        BY <2>1, <2>3, <4>1
    <3>3. QED
      BY <2>r, <3>1, <3>2
  <2>6. ASSUME NEW i \in DOMAIN opened', NEW j \in DOMAIN opened', i < j
        PROVE  opened'[i].at <= opened'[j].at
    <3>1. i \in DOMAIN opened /\ opened'[i] = opened[i]
      BY <2>2, <2>4, <2>6
    <3>2. CASE j \in DOMAIN opened
      BY <2>2, <2>6, <3>1, <3>2
    <3>3. CASE j = Len(opened) + 1
      <4>1. opened[i].at <= latest_now /\ opened[i].at \in Nat
        BY <3>1, <1>o
      <4>2. QED
        BY <2>1, <2>2, <3>1, <3>3, <4>1
    <3>4. QED
      BY <2>2, <2>4, <3>2, <3>3
  <2>7. \A i \in DOMAIN opened' : opened'[i].at <= latest_now'
    BY SMTT(30), <2>1, <2>2, <2>4, <1>o
  <2>8. voided' \subseteq DOMAIN minted' /\ launch'.token \notin voided'
    BY <2>1, <1>z
  <2>9. QED
    BY <2>5, <2>6, <2>7, <2>8
<1>3. CASE Quiet
  <2>1. /\ voided' \subseteq voided \cup Outstanding /\ launch'.token \notin voided'
        /\ minted' = minted /\ opened' = opened
    BY <1>3, <1>u, <1>z DEF Quiet, Outstanding
  <2>2. \A i \in DOMAIN opened : opened[i].token \notin voided'
    BY <2>1, <1>o, <1>v, <1>z DEF Outstanding
  <2>3. QED
    BY <1>3, <2>1, <2>2, <1>o, <1>u DEF Quiet
<1>4. QED
  BY <1>1, <1>2, <1>3, StepShapes

LEMMA SessionKept ==
  ASSUME TypeOK, SessionInv, [Next]_vars
  PROVE  SessionInv'
<1> USE DEF TypeOK, SessionInv
<1>1. CASE Mints
  BY <1>1 DEF Mints
<1>2. CASE Opens
  <2>1. session'.id = Len(opened) + 1 /\ Len(opened') = Len(opened) + 1
    BY <1>2, OpensFacts DEF LaunchToken
  <2>2. QED
    BY <2>1
<1>3. CASE Quiet
  BY <1>3 DEF Quiet
<1>4. QED
  BY <1>1, <1>2, <1>3, StepShapes

-----------------------------------------------------------------------------
(* What a step can do to the budgets: charge the live session, start a new *)
(* session, or neither.                                                    *)

Charges == \E w \in Worker : RelaunchCharges(w)

SameBudget ==
  /\ UNCHANGED charges
  /\ session'.id = session.id
  /\ session'.relaunches = session.relaunches
  /\ session'.last_relaunch = session.last_relaunch

LEMMA BudgetShapes ==
  ASSUME TypeOK, [Next]_vars
  PROVE  Charges \/ Opens \/ SameBudget
<1> SUFFICES ASSUME ~Charges, ~Opens PROVE SameBudget
  OBVIOUS
<1>s. session \in LiveSession
  BY DEF TypeOK
<1> USE DEF SameBudget
<1>1. CASE LaunchUrl
  BY <1>1 DEF LaunchUrl
<1>2. ASSUME NEW p \in 0 .. Len(minted), BootstrapMismatch(p) PROVE SameBudget
  BY <1>2 DEF BootstrapMismatch, history
<1>3. ASSUME NEW p \in 0 .. Len(minted), BootstrapSpent(p) PROVE SameBudget
  BY <1>3 DEF BootstrapSpent
<1>4. ASSUME NEW p \in 0 .. Len(minted), NEW w \in Worker,
             BootstrapEstablish(w, p)
      PROVE  SameBudget
  BY <1>4 DEF Opens
<1>5. ASSUME NEW w \in Worker, OnSessionReplaced(w) PROVE SameBudget
  BY <1>5 DEF OnSessionReplaced, manager, history
<1>6. ASSUME NEW w \in Worker, GateRelaunch(w) PROVE SameBudget
  BY <1>6 DEF GateRelaunch, manager, history
<1>7. ASSUME NEW w \in Worker, RelaunchRefused(w) PROVE SameBudget
  BY <1>7 DEF RelaunchRefused, history
<1>8. ASSUME NEW w \in Worker, RelaunchCharges(w) PROVE SameBudget
  BY <1>8 DEF Charges
<1>9. ASSUME NEW w \in Worker, RelaunchMints(w) PROVE SameBudget
  BY <1>9 DEF RelaunchMints
<1>10. ASSUME NEW w \in Worker, RelaunchNoEntropy(w) PROVE SameBudget
  BY <1>10 DEF RelaunchNoEntropy, manager, history
<1>11. CASE NoteInteraction
  BY <1>11, <1>s DEF NoteInteraction, history, LiveSession
<1>12. CASE CheckIdle
  BY <1>12, <1>s DEF CheckIdle, history, LiveSession
<1>13. CASE OnIdleTimeout
  BY <1>13 DEF OnIdleTimeout, manager, history
<1>14. CASE Tick
  BY <1>14 DEF Tick, manager, history
<1>15. CASE StepBack
  BY <1>15 DEF StepBack, manager, history
<1>16. CASE UNCHANGED vars
  BY <1>16 DEF vars
<1>17. QED
  BY <1>1, <1>2, <1>3, <1>4, <1>5, <1>6, <1>7, <1>8, <1>9, <1>10, <1>11,
     <1>12, <1>13, <1>14, <1>15, <1>16 DEF Next, Bootstrap, Relaunch

(* A charge is new: its number follows those of all earlier charges to the *)
(* same session, and it lies MinInterval after them.                       *)
LEMMA ChargeIsNew ==
  ASSUME TypeOK, SessionInv, BudgetInv, NEW w \in Worker, RelaunchCharges(w)
  PROVE  /\ ThisCharge \in Charge /\ ThisCharge \notin charges
         /\ ThisCharge.session = session.id /\ session.id \in 1 .. session.id
         /\ ThisCharge.nth \in 1 .. MaxRelaunch
         /\ charges' = charges \cup {ThisCharge}
         /\ session'.id = session.id
         /\ session'.relaunches = ThisCharge.nth
         /\ session'.last_relaunch = ThisCharge.at
         /\ \A c \in charges : c.session = session.id =>
              c.nth < ThisCharge.nth /\ c.at + MinInterval <= ThisCharge.at
<1>1. /\ session \in LiveSession /\ clock \in Nat /\ session # NoSession
      /\ session.relaunches < MaxRelaunch /\ ~TooSoon
      /\ charges' = charges \cup {ThisCharge}
  BY LimitsAssumption DEF RelaunchCharges, TypeOK, CapReached, LiveSession
<1>2. session.id \in Nat /\ session.id # 0 /\ session.relaunches \in Nat
      /\ session.last_relaunch \in Nat \cup {Never}
  BY <1>1 DEF SessionInv, LiveSession
<1>3. /\ session'.id = session.id
      /\ session'.relaunches = session.relaunches + 1
      /\ session'.last_relaunch = clock
  BY <1>1 DEF RelaunchCharges, LiveSession
<1>4. ThisCharge \in Charge /\ ThisCharge.session = session.id
      /\ ThisCharge.nth = session.relaunches + 1 /\ ThisCharge.at = clock
  BY ChargeTypes DEF ThisCharge
<1>5. ASSUME NEW c \in charges, c.session = session.id
      PROVE  c.nth < ThisCharge.nth /\ c.at + MinInterval <= ThisCharge.at
  <2>1. c.nth \in Nat /\ c.at \in Nat
    BY DEF TypeOK, Charge
  <2>2. c.nth <= session.relaunches /\ session.last_relaunch # Never
        /\ c.at <= session.last_relaunch
    BY <1>5 DEF BudgetInv
  <2>3. session.last_relaunch + MinInterval <= clock
    BY <1>1, <1>2, <2>2, LimitsAssumption DEF TooSoon
  <2>4. QED
    BY <1>1, <1>2, <1>4, <2>1, <2>2, <2>3, LimitsAssumption
<1>6. ThisCharge \notin charges
  BY <1>2, <1>4, <1>5
<1>7. QED
  BY <1>1, <1>2, <1>3, <1>4, <1>5, <1>6, LimitsAssumption

LEMMA BudgetKept ==
  ASSUME TypeOK, SessionInv, BudgetInv, [Next]_vars
  PROVE  BudgetInv'
<1>c. \A c \in charges : c.session \in Nat /\ c.nth \in Nat /\ c.at \in Nat
  BY DEF TypeOK, Charge
<1>s. session.id \in Nat
  BY DEF TypeOK, LiveSession
<1>1. CASE Charges
  <2>1. PICK w \in Worker : RelaunchCharges(w)
    BY <1>1 DEF Charges
  <2> DEFINE new == ThisCharge
  <2>2. /\ new \in Charge /\ new \notin charges
        /\ new.session = session.id /\ session.id \in 1 .. session.id
        /\ new.nth \in 1 .. MaxRelaunch
        /\ charges' = charges \cup {new}
        /\ session'.id = session.id
        /\ session'.relaunches = new.nth
        /\ session'.last_relaunch = new.at
        /\ \A c \in charges : c.session = session.id =>
             c.nth < new.nth /\ c.at + MinInterval <= new.at
    BY <2>1, ChargeIsNew
  <2>3. new.nth \in Nat /\ new.at \in Nat /\ new.at # Never
    BY <2>2 DEF Charge, Never
  <2> HIDE DEF new
  <2>4. RelaunchBudget'
    BY <2>2, <2>3, <1>c DEF BudgetInv, RelaunchBudget
  <2>5. QED
    BY <2>2, <2>3, <2>4, <1>c, <1>s, LimitsAssumption DEF BudgetInv
<1>2. CASE Opens
  <2>1. charges' = charges
    BY <1>2 DEF Opens, BootstrapEstablish, Establish
  <2>2. session'.id = session.id + 1
    BY <1>2, OpensFacts DEF SessionInv
  <2>3. QED
    BY <2>1, <2>2, <1>c, <1>s DEF BudgetInv, RelaunchBudget
<1>3. CASE SameBudget
  BY <1>3 DEF SameBudget, BudgetInv, RelaunchBudget
<1>4. QED
  BY <1>1, <1>2, <1>3, BudgetShapes

(* What a step can do to the receipts: take one, mint for one, or neither; *)
(* in the last case a thread that holds a receipt keeps it or drops it.    *)

MintsForReceipt == \E w \in Worker : RelaunchMints(w)

SameReceipts ==
  /\ UNCHANGED <<minted, charges>>
  /\ \A w \in Worker : pc'[w] = "charged" =>
       pc[w] = "charged" /\ receipt'[w] = receipt[w]

LEMMA ReceiptShapes ==
  ASSUME TypeOK, [Next]_vars
  PROVE  LaunchUrl \/ MintsForReceipt \/ Charges \/ SameReceipts
<1> SUFFICES ASSUME ~LaunchUrl, ~MintsForReceipt, ~Charges PROVE SameReceipts
  OBVIOUS
<1>p. /\ pc \in [Worker -> {"idle", "gated", "charged", "replaced"}]
      /\ receipt \in [Worker -> Charge]
  BY DEF TypeOK
<1> USE DEF SameReceipts
<1>1. ASSUME NEW p \in 0 .. Len(minted), BootstrapMismatch(p) PROVE SameReceipts
  BY <1>1 DEF BootstrapMismatch, threads, history
<1>2. ASSUME NEW p \in 0 .. Len(minted), BootstrapSpent(p) PROVE SameReceipts
  BY <1>2 DEF BootstrapSpent, threads
<1>3. ASSUME NEW p \in 0 .. Len(minted), NEW w \in Worker,
             BootstrapEstablish(w, p)
      PROVE  SameReceipts
  BY <1>3, <1>p DEF BootstrapEstablish, Establish
<1>4. ASSUME NEW w \in Worker, OnSessionReplaced(w) PROVE SameReceipts
  BY <1>4, <1>p DEF OnSessionReplaced, manager, history
<1>5. ASSUME NEW w \in Worker, GateRelaunch(w) PROVE SameReceipts
  BY <1>5, <1>p DEF GateRelaunch, manager, history
<1>6. ASSUME NEW w \in Worker, RelaunchRefused(w) PROVE SameReceipts
  BY <1>6, <1>p DEF RelaunchRefused, history
<1>7. ASSUME NEW w \in Worker, RelaunchCharges(w) PROVE SameReceipts
  BY <1>7 DEF Charges
<1>8. ASSUME NEW w \in Worker, RelaunchMints(w) PROVE SameReceipts
  BY <1>8 DEF MintsForReceipt
<1>9. ASSUME NEW w \in Worker, RelaunchNoEntropy(w) PROVE SameReceipts
  BY <1>9, <1>p DEF RelaunchNoEntropy, Released, manager, history
<1>10. CASE NoteInteraction
  BY <1>10 DEF NoteInteraction, threads, history
<1>11. CASE CheckIdle
  BY <1>11 DEF CheckIdle, history
<1>12. CASE OnIdleTimeout
  BY <1>12 DEF OnIdleTimeout, manager, history
<1>13. CASE Tick
  BY <1>13 DEF Tick, manager, threads, history
<1>14. CASE StepBack
  BY <1>14 DEF StepBack, manager, threads, history
<1>15. CASE UNCHANGED vars
  BY <1>15 DEF vars
<1>16. QED
  BY <1>1, <1>2, <1>3, <1>4, <1>5, <1>6, <1>7, <1>8, <1>9, <1>10, <1>11,
     <1>12, <1>13, <1>14, <1>15 DEF Next, Bootstrap, Relaunch

LEMMA PaidKept ==
  ASSUME TypeOK, TokensInv, SessionInv, BudgetInv, PaidInv, [Next]_vars
  PROVE  PaidInv'
<1>m. /\ minted \in Seq([at : Nat, charge : Charge])
      /\ DOMAIN minted = 1 .. Len(minted) /\ Len(minted) \in Nat
      /\ pc \in [Worker -> {"idle", "gated", "charged", "replaced"}]
      /\ receipt \in [Worker -> Charge]
  BY DEF TypeOK
<1>n. NoCharge \notin charges
  BY DEF BudgetInv, NoCharge, TypeOK, LiveSession
<1> USE DEF PaidInv, EveryMintIsPaid
<1>1. CASE LaunchUrl
  <2>1. /\ minted = <<>>
        /\ minted' = Append(minted, [at |-> clock, charge |-> NoCharge])
        /\ UNCHANGED <<pc, receipt, charges>>
    BY <1>1 DEF LaunchUrl, MintLaunchToken
  <2>2. Len(minted') = 1 /\ DOMAIN minted' = 1 .. 1 /\ minted'[1].charge = NoCharge
    BY <2>1
  <2>3. QED
    BY <2>1, <2>2, <1>n
<1>2. CASE MintsForReceipt
  <2>1. PICK w \in Worker : RelaunchMints(w)
    BY <1>2 DEF MintsForReceipt
  <2>2. /\ pc[w] = "charged"
        /\ minted' = Append(minted, [at |-> clock, charge |-> receipt[w]])
        /\ charges' = charges
        /\ pc' = [pc EXCEPT ![w] = "idle"]
        /\ receipt' = [receipt EXCEPT ![w] = NoCharge]
    BY <2>1 DEF RelaunchMints, MintLaunchToken, Released
  <2>3. /\ DOMAIN minted' = 1 .. Len(minted) + 1
        /\ \A i \in DOMAIN minted : minted'[i] = minted[i]
        /\ minted'[Len(minted) + 1].charge = receipt[w]
    BY <2>2, <1>m
  <2>4. receipt[w] \in charges
        /\ \A i \in DOMAIN minted : minted[i].charge # receipt[w]
    BY <2>2
  <2>5. minted # <<>>
    <3>1. session.id # 0
      BY <2>4 DEF BudgetInv, TypeOK, LiveSession, Charge
    <3>2. 1 \in DOMAIN opened
      BY <3>1 DEF SessionInv, TypeOK, LiveSession
    <3>3. opened[1].token \in DOMAIN minted
      BY <3>2 DEF TokensInv
    <3>4. QED
      BY <3>3, <1>m
  <2>6. Len(minted) >= 1 /\ minted'[1] = minted[1]
    BY <2>3, <2>5, <1>m
  <2>7. EveryMintIsPaid'
    BY <2>2, <2>3, <2>4, <1>m
  <2>8. \A v \in Worker : pc'[v] = "charged" =>
          v # w /\ pc[v] = "charged" /\ receipt'[v] = receipt[v]
    BY <2>2, <1>m
  <2>9. \A v \in Worker : pc'[v] = "charged" =>
          \A i \in DOMAIN minted' : minted'[i].charge # receipt'[v]
    BY <2>2, <2>3, <2>8, <1>m
  <2>10. QED
    BY <2>2, <2>6, <2>7, <2>8, <2>9
<1>3. CASE Charges
  <2>1. PICK w \in Worker : RelaunchCharges(w)
    BY <1>3 DEF Charges
  <2> DEFINE new == ThisCharge
  <2>2. /\ minted' = minted
        /\ charges' = charges \cup {new}
        /\ pc' = [pc EXCEPT ![w] = "charged"]
        /\ receipt' = [receipt EXCEPT ![w] = new]
    BY <2>1 DEF RelaunchCharges
  <2>3. new \notin charges /\ new # NoCharge
    BY <2>1, ChargeIsNew DEF NoCharge
  <2> HIDE DEF new
  <2>4. \A i \in DOMAIN minted : minted[i].charge # new
    BY <2>3, <1>m
  <2>5. \A v \in Worker : v # w => pc'[v] = pc[v] /\ receipt'[v] = receipt[v]
    BY <2>2, <1>m
  <2>6. pc'[w] = "charged" /\ receipt'[w] = new
    BY <2>2, <1>m
  <2>7. QED
    BY <2>2, <2>3, <2>4, <2>5, <2>6
<1>4. CASE SameReceipts
  BY <1>4 DEF SameReceipts
<1>5. QED
  BY <1>1, <1>2, <1>3, <1>4, ReceiptShapes

-----------------------------------------------------------------------------
(* The inductive invariant, and what follows from it. *)

LEMMA InvInitially == Init => IInv
<1> SUFFICES ASSUME Init PROVE IInv
  OBVIOUS
<1>1. TypeOK
  BY TypesInitially
<1>2. QED
  BY <1>1 DEF Init, IInv, TokensInv, TokenOpensOneSession, TimesInv,
     OpenedInTime, StartsInOrder, SessionInv, BudgetInv, RelaunchBudget,
     PaidInv, EveryMintIsPaid, NoLaunch, NoSession

LEMMA InvKept == IInv /\ [Next]_vars => IInv'
BY TypesKept, TokensKept, TimesKept, SessionKept, BudgetKept, PaidKept DEF IInv

(* Every reachable state satisfies the inductive invariant. *)
THEOREM Inductive == Spec => []IInv
BY InvInitially, InvKept, PTL DEF Spec

(* A token opens at most one session, tokens open sessions in the order in *)
(* which they were minted, and one that was presented and opened none is   *)
(* not outstanding again.                                                  *)
THEOREM SingleUse == Spec => []TokenOpensOneSession
<1>1. IInv => TokenOpensOneSession
  BY DEF IInv, TokensInv
<1>2. QED
  BY <1>1, Inductive, PTL

(* Every session started less than TTL after its token was minted, by a    *)
(* token that was not outstanding when the clock was seen to step back,    *)
(* and on a clock that read no less than at any earlier start.             *)
THEOREM Validity == Spec => [](OpenedInTime /\ StartsInOrder)
<1>1. IInv => OpenedInTime /\ StartsInOrder
  BY DEF IInv, TimesInv
<1>2. QED
  BY <1>1, Inductive, PTL

(* No interleaving of request threads exceeds the cap of a session or      *)
(* charges it twice within the interval.                                   *)
THEOREM Throttle == Spec => []RelaunchBudget
<1>1. IInv => RelaunchBudget
  BY DEF IInv, BudgetInv
<1>2. QED
  BY <1>1, Inductive, PTL

(* Every token but the launcher's was minted for its own charge. *)
THEOREM Paid == Spec => []EveryMintIsPaid
<1>1. IInv => EveryMintIsPaid
  BY DEF IInv, PaidInv
<1>2. QED
  BY <1>1, Inductive, PTL

(* The manager implements SessionPromise: its initial states are those of  *)
(* the promise, and every step is a step of it or a stutter.               *)
THEOREM Refinement == Spec => KeepsPromise
<1>1. Init => Promise!Init
  BY DEF Init, Promise!Init, NoLaunch, NoSession
<1>2. IInv /\ [Next]_vars => [Promise!Next]_(Promise!vars)
  <2> SUFFICES ASSUME IInv, [Next]_vars PROVE [Promise!Next]_(Promise!vars)
    OBVIOUS
  <2>t. TypeOK /\ TokensInv /\ SessionInv
    BY DEF IInv
  <2> USE DEF Promise!Next, Promise!vars
  <2>1. CASE Mints
    BY <2>1, <2>t DEF Mints, MintLaunchToken, Promise!Issue, TypeOK
  <2>2. CASE Opens
    BY <2>2, <2>t, OpensFacts DEF Promise!Redeem, NoLaunch, SessionInv
  <2>3. CASE Quiet
    BY <2>3, <2>t DEF Quiet, Promise!Withdraw
  <2>4. QED
    BY <2>1, <2>2, <2>3, <2>t, StepShapes
<1>3. QED
  BY <1>1, <1>2, Inductive, PTL DEF Spec, KeepsPromise, Promise!Spec

-----------------------------------------------------------------------------
(* What a step does to the outstanding token                               *)

(* The token stays, or it is lost to its presentation, to a newer token or *)
(* to a clock behind an earlier reading.                                   *)
Loss ==
  launch'.token # launch.token =>
    \/ launch.token \in consumed'
    \/ launch'.token = Len(minted') /\ Len(minted') > Len(minted)
    \/ clock < latest_now

LEMMA EveryLossHasAReason ==
  ASSUME TypeOK, [Next]_vars
  PROVE  Loss
<1>o. ObservedLaunch = launch \/ clock < latest_now
  BY DEF ObservedLaunch, Behind
<1>a. AfterFailure(ObservedLaunch).token = ObservedLaunch.token
  BY ObserveTypes, FailureTypes
<1>m. ASSUME NEW c, MintLaunchToken(c) PROVE Loss
  BY <1>m DEF MintLaunchToken, TypeOK, Loss
<1>1. CASE LaunchUrl
  BY <1>1, <1>m DEF LaunchUrl
<1>2. ASSUME NEW p \in 0 .. Len(minted), BootstrapMismatch(p) PROVE Loss
  BY <1>2, <1>o, <1>a DEF BootstrapMismatch, Loss
<1>3. ASSUME NEW p \in 0 .. Len(minted), BootstrapSpent(p) PROVE Loss
  BY <1>3, <1>o DEF BootstrapSpent, Matches, Loss
<1>4. ASSUME NEW p \in 0 .. Len(minted), NEW w \in Worker, BootstrapEstablish(w, p)
      PROVE  Loss
  BY <1>4, <1>o DEF BootstrapEstablish, Establish, Loss
<1>5. ASSUME NEW w \in Worker, OnSessionReplaced(w) PROVE Loss
  BY <1>5 DEF OnSessionReplaced, manager, Loss
<1>6. ASSUME NEW w \in Worker, Relaunch(w) PROVE Loss
  BY <1>6, <1>o, <1>m
     DEF Relaunch, GateRelaunch, RelaunchRefused, RelaunchCharges, RelaunchMints,
         RelaunchNoEntropy, OnlyObserve, manager, Loss
<1>7. CASE NoteInteraction \/ CheckIdle
  BY <1>7, <1>o DEF NoteInteraction, CheckIdle, OnlyObserve, Loss
<1>8. CASE OnIdleTimeout \/ Tick \/ StepBack \/ UNCHANGED vars
  BY <1>8 DEF OnIdleTimeout, Tick, StepBack, manager, vars, Loss
<1>9. QED
  BY <1>1, <1>2, <1>3, <1>4, <1>5, <1>6, <1>7, <1>8 DEF Next, Bootstrap

(* The outstanding token is lost only to its own presentation, to a newer  *)
(* token or to a clock seen to step back, in any run of any length.        *)
THEOREM LossesHaveReasons == Spec => TokenLostForAReason
<1>1. TypeOK /\ [Next]_vars =>
        [launch.token # 0 /\ launch'.token # launch.token =>
           \/ launch.token \in consumed'
           \/ launch'.token = Len(minted') /\ Len(minted') > Len(minted)
           \/ clock < latest_now]_vars
  BY EveryLossHasAReason DEF Loss
<1>2. QED
  BY <1>1, TypeCorrect, PTL DEF Spec, TokenLostForAReason
=============================================================================
