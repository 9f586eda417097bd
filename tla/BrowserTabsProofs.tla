------------------------- MODULE BrowserTabsProofs -------------------------
(***************************************************************************)
(* Proofs and tabs, for any number of tabs, tokens, loads and messages.    *)
(***************************************************************************)
EXTENDS BrowserTabs, TLAPS

Stages == {"sent", "gated"} \cup Verdict

Letter ==
  [slot : 1 .. MaxFlight, tab : Tab \cup {Gone}, use : Use, secret : Nat,
   cookie : Nat, stage : Stages, session : Nat]

Numbers ==
  /\ issued \in Nat /\ good \in Nat /\ live \in Nat /\ jar \in Nat
  /\ page \in [Tab -> {"closed", "loading", "shown"}]
  /\ proof \in [Tab -> Nat] /\ shell \in [Tab -> ShellKind]
  /\ relaunch \in [Tab -> RelaunchKind]
  /\ flight \in SUBSET Letter

Handshake(m) == m.use \in {"bootstrap", "probe"}

(* A page waits for the one answer to its handshake and has asked nothing  *)
(* else; a probe is of a proof the tab still holds.                        *)
WaitsFor(m) ==
  m.tab # Gone =>
    /\ Handshake(m) => page[m.tab] = "loading"
    /\ ~Handshake(m) => page[m.tab] = "shown"
    /\ m.use = "probe" => proof[m.tab] # 0

OneHandshake ==
  \A m \in flight, n \in flight :
    m.tab = n.tab /\ m.tab # Gone /\ Handshake(m) /\ Handshake(n) => m = n

(* The answer that carries a session is the only one, and nobody has the   *)
(* proof yet.                                                              *)
Established(m) == m.use = "bootstrap" /\ m.stage = "ok"
Untold(m) ==
  Established(m) => m.session \in 1 .. live /\ \A t \in Tab : proof[t] # m.session
OneAnswer ==
  \A m \in flight, n \in flight :
    Established(m) /\ Established(n) /\ m.session = n.session => m = n

FlightInv ==
  /\ \A m \in flight : WaitsFor(m) /\ Untold(m)
  /\ OneHandshake /\ OneAnswer

ProofsInv ==
  /\ \A t \in Tab : proof[t] <= live
  /\ OneTabPerSession /\ ConnectedHasProof

IInv == Numbers /\ FlightInv /\ ProofsInv

-----------------------------------------------------------------------------
(* A message goes its way: it is answered, breaks off or is lost, and no   *)
(* tab notices.                                                            *)
Same(m, new) ==
  /\ new \in Letter /\ new.tab = m.tab /\ new.use = m.use
  /\ Established(new) => Established(m) /\ new.session = m.session

LEMMA ReplacedKeeps ==
  ASSUME IInv, NEW m \in flight, NEW new \in Letter,
         new.tab = m.tab, new.use = m.use,
         flight' = (flight \ {m}) \cup {new},
         UNCHANGED <<page, proof, shell, relaunch>>,
         issued' \in Nat, good' \in Nat, jar' \in Nat, live' \in Nat, live <= live',
         \/ ~Established(new)
         \/ Established(m) /\ new.session = m.session
         \/ live' = live + 1 /\ new.session = live'
  PROVE  IInv'
<1> USE DEF IInv
<1>1. Numbers'
  BY DEF Numbers
<1>2. WaitsFor(new)'
  BY DEF FlightInv, WaitsFor, Handshake
<1>3. Untold(new)'
  <2>1. CASE ~Established(new)
    BY <2>1 DEF Untold, Established
  <2>2. CASE Established(m) /\ new.session = m.session
    <3>1. m.session \in 1 .. live /\ \A t \in Tab : proof[t] # m.session
      BY <2>2 DEF FlightInv, Untold
    <3>2. QED
      BY <2>2, <3>1 DEF Untold, Numbers
  <2>3. CASE live' = live + 1 /\ new.session = live'
    BY <2>3 DEF Untold, ProofsInv, Numbers
  <2>4. QED
    BY <2>1, <2>2, <2>3
<1>4. ASSUME NEW n \in flight PROVE WaitsFor(n)' /\ Untold(n)'
  BY DEF FlightInv, WaitsFor, Untold, Numbers
<1>5. OneHandshake'
  <2>1. \A n \in flight : n.tab = new.tab /\ new.tab # Gone /\ Handshake(n) /\ Handshake(new) => n = m
    BY DEF FlightInv, OneHandshake, Handshake
  <2>2. QED
    BY <2>1 DEF FlightInv, OneHandshake
<1>6. OneAnswer'
  <2>1. \A n \in flight : Established(n) => n.session \in 1 .. live
    BY DEF FlightInv, Untold
  <2>2. \A n \in flight :
          Established(n) /\ Established(new) /\ n.session = new.session => n = m
    <3>1. CASE Established(m) /\ new.session = m.session
      BY <3>1 DEF FlightInv, OneAnswer
    <3>2. CASE live' = live + 1 /\ new.session = live'
      BY <3>2, <2>1 DEF Numbers
    <3>3. QED
      BY <3>1, <3>2
  <2>3. QED
    BY <2>2 DEF FlightInv, OneAnswer
<1>7. ProofsInv'
  BY DEF ProofsInv, OneTabPerSession, ConnectedHasProof, Numbers
<1>8. QED
  BY <1>1, <1>2, <1>3, <1>4, <1>5, <1>6, <1>7 DEF FlightInv

(* Becomes, as seen by the message.                                        *)
LEMMA BecomesIs ==
  ASSUME IInv, NEW m \in flight, NEW stage \in Stages, NEW session \in Nat,
         Becomes(m, stage, session)
  PROVE  \E new \in Letter :
           /\ flight' = (flight \ {m}) \cup {new}
           /\ new.tab = m.tab /\ new.use = m.use
           /\ new.stage = stage /\ new.session = session
<1> DEFINE new == [m EXCEPT !.stage = stage, !.session = session, !.cookie = 0]
<1>1. m \in Letter
  BY DEF IInv, Numbers
<1>2. /\ new \in Letter /\ new.tab = m.tab /\ new.use = m.use
      /\ new.stage = stage /\ new.session = session
  BY <1>1 DEF Letter
<1>3. flight' = (flight \ {m}) \cup {new}
  BY DEF Becomes
<1> HIDE DEF new
<1>4. QED
  BY <1>2, <1>3

LEMMA ServerStepKeeps == ASSUME IInv, NEW m \in flight, ServerStep(m) PROVE IInv'
<1>1. UNCHANGED <<page, proof, shell, relaunch>> /\ jar' \in Nat
  BY DEF ServerStep, tabs, IInv, Numbers
<1>2. ASSUME NEW stage \in Stages, Becomes(m, stage, 0), m.use # "bootstrap" \/ stage # "ok",
             issued' \in Nat, good' \in Nat, live' = live
      PROVE  IInv'
  <2>1. PICK new \in Letter :
          /\ flight' = (flight \ {m}) \cup {new} /\ new.tab = m.tab /\ new.use = m.use
          /\ new.stage = stage
    BY <1>2, BecomesIs
  <2>2. ~Established(new)
    BY <1>2, <2>1 DEF Established
  <2>3. live' \in Nat /\ live <= live'
    BY <1>2 DEF IInv, Numbers
  <2>4. QED
    BY <1>1, <1>2, <2>1, <2>2, <2>3, ReplacedKeeps
<1>3. issued \in Nat /\ good \in Nat /\ live \in Nat
  BY DEF IInv, Numbers
<1>4. Verdict \subseteq Stages /\ "gated" \in Stages /\ {"ok", "unauthenticated", "displaced",
        "throttled", "refused", "unreachable"} \subseteq Stages
  BY DEF Stages, Verdict
<1>5. CASE HandleBootstrap(m)
  <2>1. CASE Redeem /\ Becomes(m, "ok", live + 1)
    <3>1. PICK new \in Letter :
            /\ flight' = (flight \ {m}) \cup {new} /\ new.tab = m.tab /\ new.use = m.use
            /\ new.session = live + 1
      BY <2>1, <1>3, <1>4, BecomesIs
    <3>2. live' = live + 1 /\ good' = 0 /\ issued' = issued
      BY <2>1 DEF Redeem, Server!Redeem
    <3>3. QED
      BY <1>1, <1>3, <3>1, <3>2, ReplacedKeeps
  <2>2. CASE Withdraw /\ Becomes(m, "refused", 0)
    BY <2>2, <1>2, <1>3, <1>4 DEF Withdraw, Server!Withdraw
  <2>3. CASE UNCHANGED server /\ Becomes(m, "unauthenticated", 0)
    BY <2>3, <1>2, <1>3, <1>4 DEF server
  <2>4. QED
    BY <1>5, <2>1, <2>2, <2>3 DEF HandleBootstrap
<1>6. CASE Handle(m)
  <2>1. PICK stage \in {"unauthenticated", "displaced", "ok"} : Becomes(m, stage, 0)
    BY <1>6 DEF Handle
  <2>2. m.use # "bootstrap" /\ UNCHANGED server
    BY <1>6 DEF Handle
  <2>3. QED
    BY <2>1, <2>2, <1>2, <1>3, <1>4 DEF server
<1>7. CASE GateRelaunch(m)
  <2>1. PICK stage \in {"unauthenticated", "gated"} : Becomes(m, stage, 0)
    BY <1>7 DEF GateRelaunch
  <2>2. m.use # "bootstrap" /\ UNCHANGED server
    BY <1>7 DEF GateRelaunch
  <2>3. QED
    BY <2>1, <2>2, <1>2, <1>3, <1>4 DEF server
<1>8. CASE HandleRelaunch(m)
  <2>1. PICK stage \in {"throttled", "refused", "ok"} : Becomes(m, stage, 0)
    BY <1>8 DEF HandleRelaunch
  <2>2. m.use # "bootstrap" /\ (Issue \/ UNCHANGED server)
    BY <1>8 DEF HandleRelaunch
  <2>3. QED
    BY <2>1, <2>2, <1>2, <1>3, <1>4 DEF server, Issue, Server!Issue
<1>9. QED
  BY <1>5, <1>6, <1>7, <1>8 DEF ServerStep

-----------------------------------------------------------------------------
(* Messages are lost, the server or the jar moves, and no tab notices.     *)
LEMMA FewerKeeps ==
  ASSUME IInv, flight' \in SUBSET flight, UNCHANGED <<page, proof, shell>>,
         relaunch' \in [Tab -> RelaunchKind],
         issued' \in Nat, good' \in Nat, jar' \in Nat, live' = live
  PROVE  IInv'
<1> USE DEF IInv
<1>1. Numbers'
  BY DEF Numbers
<1>2. FlightInv'
  BY DEF FlightInv, WaitsFor, Untold, OneHandshake, OneAnswer
<1>3. ProofsInv'
  BY DEF ProofsInv, OneTabPerSession, ConnectedHasProof
<1>4. QED
  BY <1>1, <1>2, <1>3

LEMMA JarIsNumber == ASSUME IInv, NEW m \in flight PROVE Jar(m) \in Nat
BY DEF IInv, Numbers, Letter, Jar

LEMMA NetworkKeeps ==
  ASSUME IInv, NEW m \in flight, FetchFails(m) \/ CutShort(m) \/ ToNobody(m) PROVE IInv'
<1>1. /\ issued \in Nat /\ good \in Nat /\ live \in Nat /\ jar \in Nat
      /\ relaunch \in [Tab -> RelaunchKind] /\ flight \in SUBSET Letter
  BY DEF IInv, Numbers
<1>2. ASSUME NEW stage \in {"unreachable", "refused"}, Becomes(m, stage, 0),
             UNCHANGED <<server, tabs>>, jar' \in Nat
      PROVE  IInv'
  <2>1. stage \in Stages /\ stage # "ok"
    BY <1>2 DEF Stages, Verdict
  <2>2. PICK new \in Letter :
          /\ flight' = (flight \ {m}) \cup {new} /\ new.tab = m.tab /\ new.use = m.use
          /\ new.stage = stage
    BY <1>2, <2>1, BecomesIs
  <2>3. ~Established(new)
    BY <2>1, <2>2 DEF Established
  <2>4. QED
    BY <1>1, <1>2, <2>2, <2>3, ReplacedKeeps DEF server, tabs
<1>3. CASE FetchFails(m)
  BY <1>1, <1>2, <1>3 DEF FetchFails
<1>4. CASE CutShort(m)
  BY <1>2, <1>4, JarIsNumber DEF CutShort
<1>5. CASE ToNobody(m)
  BY <1>1, <1>5, JarIsNumber, FewerKeeps DEF ToNobody, server, tabs
<1>6. QED
  BY <1>3, <1>4, <1>5

LEMMA OutsideKeeps == ASSUME IInv, Expire \/ OtherSite PROVE IInv'
BY FewerKeeps DEF IInv, Numbers, Expire, OtherSite, Withdraw, Server!Withdraw, server, tabs

LEMMA RestartKeeps == ASSUME IInv, Restart PROVE IInv'
<1> DEFINE Lost(m) == IF m.stage = "gated" THEN [m EXCEPT !.stage = "unreachable"] ELSE m
<1>1. /\ issued' = issued + 1 /\ good' = issued + 1 /\ live' = live /\ jar' = jar
      /\ UNCHANGED tabs
      /\ flight' = {Lost(m) : m \in flight}
  BY DEF Restart, Server!Issue
<1>2. ASSUME NEW m \in flight
      PROVE  /\ Lost(m) \in Letter /\ Lost(m).tab = m.tab /\ Lost(m).use = m.use
             /\ Established(Lost(m)) => Lost(m) = m
  <2>1. m \in Letter
    BY DEF IInv, Numbers
  <2>2. QED
    BY <2>1 DEF Letter, Stages, Verdict, Established
<1> HIDE DEF Lost
<1>3. Numbers'
  BY <1>1, <1>2 DEF IInv, Numbers, tabs
<1>4. \A n \in flight' : \E m \in flight :
        n = Lost(m) /\ n.tab = m.tab /\ n.use = m.use /\ (Established(n) => n = m)
  BY <1>1, <1>2
<1>5. \A n \in flight' : WaitsFor(n)' /\ Untold(n)'
  <2> SUFFICES ASSUME NEW n \in flight' PROVE WaitsFor(n)' /\ Untold(n)'
    OBVIOUS
  <2>1. PICK m \in flight :
          n = Lost(m) /\ n.tab = m.tab /\ n.use = m.use /\ (Established(n) => n = m)
    BY <1>4
  <2>2. WaitsFor(m) /\ Untold(m)
    BY DEF IInv, FlightInv
  <2>3. WaitsFor(n)'
    BY <1>1, <2>1, <2>2 DEF WaitsFor, Handshake, tabs
  <2>4. Untold(n)'
    BY <1>1, <2>1, <2>2 DEF Untold, tabs
  <2>5. QED
    BY <2>3, <2>4
<1>6. OneHandshake'
  <2> SUFFICES ASSUME NEW n \in flight', NEW k \in flight', n.tab = k.tab, n.tab # Gone,
                      Handshake(n), Handshake(k)
               PROVE  n = k
    BY DEF OneHandshake, Handshake
  <2>1. PICK m \in flight : n = Lost(m) /\ n.tab = m.tab /\ n.use = m.use
    BY <1>4
  <2>2. PICK l \in flight : k = Lost(l) /\ k.tab = l.tab /\ k.use = l.use
    BY <1>4
  <2>3. Handshake(m) /\ Handshake(l)
    BY <2>1, <2>2 DEF Handshake
  <2>4. m = l
    BY <2>1, <2>2, <2>3 DEF IInv, FlightInv, OneHandshake
  <2>5. QED
    BY <2>1, <2>2, <2>4
<1>7. OneAnswer'
  BY <1>4 DEF IInv, FlightInv, OneAnswer
<1>8. ProofsInv'
  BY <1>1 DEF IInv, ProofsInv, OneTabPerSession, ConnectedHasProof, tabs
<1>9. QED
  BY <1>3, <1>5, <1>6, <1>7, <1>8 DEF IInv, FlightInv

-----------------------------------------------------------------------------
(* The person.                                                             *)
LEMMA SendsIs ==
  ASSUME IInv, NEW inFlight \in SUBSET Letter, NEW t \in Tab, NEW use \in Use,
         NEW secret \in Nat, Sends(inFlight, t, use, secret)
  PROVE  \E new \in Letter :
           /\ flight' = inFlight \cup {new}
           /\ new.tab = t /\ new.use = use /\ ~Established(new)
<1> DEFINE free == FreeSlot(inFlight)
           new == Request(CHOOSE n \in free : TRUE, t, use, secret)
<1>1. free # {} /\ flight' = inFlight \cup {new}
  BY DEF Sends
<1>2. (CHOOSE n \in free : TRUE) \in 1 .. MaxFlight
  BY <1>1 DEF FreeSlot
<1>3. /\ new \in Letter /\ new.tab = t /\ new.use = use /\ ~Established(new)
  <2> HIDE DEF free
  <2>1. jar \in Nat /\ "sent" \in Stages
    BY DEF IInv, Numbers, Stages
  <2>2. QED
    BY <1>2, <2>1 DEF Request, Letter, Established
<1> HIDE DEF new
<1>4. QED
  BY <1>1, <1>3

(* A connected or displaced page asks for more.                            *)
LEMMA AsksKeeps ==
  ASSUME IInv, NEW t \in Tab, ScreenCall(t) \/ OnRelaunch(t) PROVE IInv'
<1>1. /\ flight \in SUBSET Letter /\ proof[t] \in Nat /\ live \in Nat
      /\ issued \in Nat /\ good \in Nat /\ jar \in Nat
  BY DEF IInv, Numbers
<1>2. PICK use \in {"screen", "relaunch"} : Sends(flight, t, use, proof[t])
  BY DEF ScreenCall, OnRelaunch
<1>a. use \in Use
  BY DEF Use
<1>3. PICK new \in Letter :
        /\ flight' = flight \cup {new}
        /\ new.tab = t /\ new.use = use /\ ~Established(new)
  BY <1>1, <1>2, <1>a, SendsIs
<1>4. /\ UNCHANGED <<issued, good, live, jar, page, proof, shell>> /\ page[t] = "shown"
      /\ relaunch' \in [Tab -> RelaunchKind]
  BY DEF ScreenCall, OnRelaunch, RelaunchOffered, server, tabs, IInv, Numbers, RelaunchKind
<1>5. ~Handshake(new)
  BY <1>3 DEF Handshake
<1>6. Numbers'
  BY <1>3, <1>4 DEF IInv, Numbers
<1>7. FlightInv'
  <2>1. \A n \in flight : WaitsFor(n)' /\ Untold(n)'
    BY <1>4 DEF IInv, FlightInv, WaitsFor, Untold
  <2>2. WaitsFor(new)' /\ Untold(new)'
    BY <1>3, <1>4, <1>5 DEF WaitsFor, Untold, Handshake
  <2>3. OneHandshake' /\ OneAnswer'
    BY <1>3, <1>5 DEF IInv, FlightInv, OneHandshake, OneAnswer
  <2>4. QED
    BY <1>3, <2>1, <2>2, <2>3 DEF FlightInv
<1>8. ProofsInv'
  BY <1>4 DEF IInv, ProofsInv, OneTabPerSession, ConnectedHasProof
<1>9. QED
  BY <1>6, <1>7, <1>8 DEF IInv

(* What is left of a page that was unloaded.                               *)
LEMMA OrphanedIs ==
  ASSUME IInv, NEW t \in Tab
  PROVE  /\ Orphaned(t) \in SUBSET Letter
         /\ \A n \in Orphaned(t) :
              /\ n.tab # t
              /\ n.tab # Gone => n \in flight
              /\ Established(n) => Untold(n)
         /\ \A n \in Orphaned(t), k \in Orphaned(t) :
              Established(n) /\ Established(k) /\ n.session = k.session => n = k
<1> DEFINE Left(m) == [m EXCEPT !.tab = Gone]
<1>1. flight \in SUBSET Letter /\ Gone # t
  BY TabsAssumption DEF IInv, Numbers
<1>2. ASSUME NEW m \in flight
      PROVE  /\ Left(m) \in Letter /\ Left(m).tab = Gone /\ Left(m).use = m.use
             /\ Left(m).stage = m.stage /\ Left(m).session = m.session
  <2>1. m \in Letter
    BY <1>1
  <2>2. QED
    BY <2>1 DEF Letter
<1>3. \A n \in Orphaned(t) : \E m \in flight :
        \/ m.tab # t /\ n = m
        \/ m.tab = t /\ n = Left(m)
  BY DEF Orphaned
<1> HIDE DEF Left
<1>4. \A m \in flight : Established(Left(m)) <=> Established(m)
  BY <1>2 DEF Established
<1>5. \A m \in flight : Untold(m)
  BY DEF IInv, FlightInv
<1>6. OneAnswer
  BY DEF IInv, FlightInv
<1>7. Orphaned(t) \in SUBSET Letter
  BY <1>1, <1>2, <1>3
<1>8. ASSUME NEW n \in Orphaned(t)
      PROVE n.tab # t /\ (n.tab # Gone => n \in flight) /\ (Established(n) => Untold(n))
  <2>1. PICK m \in flight : (m.tab # t /\ n = m) \/ (m.tab = t /\ n = Left(m))
    BY <1>3
  <2>2. CASE m.tab # t /\ n = m
    BY <2>2, <1>5
  <2>3. CASE n = Left(m)
    BY <2>3, <1>1, <1>2, <1>4, <1>5 DEF Untold
  <2>4. QED
    BY <2>1, <2>2, <2>3
<1>9. ASSUME NEW n \in Orphaned(t), NEW k \in Orphaned(t),
             Established(n), Established(k), n.session = k.session
      PROVE  n = k
  <2>1. PICK m \in flight : (m.tab # t /\ n = m) \/ (m.tab = t /\ n = Left(m))
    BY <1>3
  <2>2. PICK l \in flight : (l.tab # t /\ k = l) \/ (l.tab = t /\ k = Left(l))
    BY <1>3
  <2>3. Established(m) /\ Established(l) /\ m.session = l.session
    BY <1>2, <1>4, <1>9, <2>1, <2>2
  <2>4. m = l
    BY <1>6, <2>3 DEF OneAnswer
  <2>5. QED
    BY <2>1, <2>2, <2>4
<1>10. QED
  BY <1>7, <1>8, <1>9

(* A page is unloaded, and maybe another loads and asks.                   *)
LEMMA UnloadKeeps ==
  ASSUME IInv, NEW t \in Tab, NEW asked \in SUBSET Letter,
         NEW view \in {"closed", "loading", "shown"}, NEW p \in {0, proof[t]},
         flight' = Orphaned(t) \cup asked,
         \A n \in asked, k \in asked : n = k,
         \A n \in asked :
           /\ n.tab = t /\ Handshake(n) /\ ~Established(n)
           /\ view = "loading" /\ (n.use = "probe" => p # 0),
         page' = [page EXCEPT ![t] = view],
         shell' = [shell EXCEPT ![t] = "no-token"],
         relaunch' = [relaunch EXCEPT ![t] = "idle"],
         proof' = [proof EXCEPT ![t] = p],
         issued' = issued, good' = good, live' = live, jar' = jar
  PROVE  IInv'
<1>0. Numbers /\ ProofsInv /\ FlightInv /\ t # Gone
  BY TabsAssumption DEF IInv
<1>1. Numbers'
  BY <1>0, OrphanedIs DEF Numbers, ShellKind, RelaunchKind
<1>2. /\ \A u \in Tab \ {t} : page'[u] = page[u] /\ proof'[u] = proof[u] /\ shell'[u] = shell[u]
      /\ page'[t] = view /\ proof'[t] = p /\ proof'[t] \in {0, proof[t]}
      /\ shell'[t] = "no-token"
  BY <1>0 DEF Numbers
<1>3. ASSUME NEW n \in Orphaned(t) PROVE WaitsFor(n)' /\ Untold(n)'
  <2>1. n.tab # t /\ (n.tab # Gone => n \in flight) /\ (Established(n) => Untold(n))
    BY OrphanedIs
  <2>2. n.tab \in Tab \cup {Gone}
    BY OrphanedIs DEF Letter
  <2>3. WaitsFor(n)'
    BY <1>0, <1>2, <2>1, <2>2 DEF FlightInv, WaitsFor, Handshake
  <2>4. Untold(n)'
    <3> SUFFICES ASSUME Established(n)
                 PROVE  n.session \in 1 .. live' /\ \A u \in Tab : proof'[u] # n.session
      BY DEF Untold, Established
    <3>1. n.session \in 1 .. live /\ \A u \in Tab : proof[u] # n.session
      BY <2>1 DEF Untold
    <3>2. QED
      BY <1>0, <1>2, <3>1 DEF Numbers
  <2>5. QED
    BY <2>3, <2>4
<1>4. ASSUME NEW n \in asked PROVE WaitsFor(n)' /\ Untold(n)'
  BY <1>0, <1>2, <1>4 DEF WaitsFor, Untold, Handshake, Established
<1>5. OneHandshake'
  <2>1. \A n \in flight' : n.tab # Gone => (n \in flight /\ n.tab # t) \/ (n \in asked /\ n.tab = t)
    BY OrphanedIs
  <2>2. QED
    BY <1>0, <2>1 DEF FlightInv, OneHandshake, Handshake
<1>6. OneAnswer'
  BY OrphanedIs DEF OneAnswer, Established
<1>7. ProofsInv'
  <2>1. \A u \in Tab : proof'[u] \in {0, proof[u]}
    BY <1>2
  <2>2. \A u \in Tab : proof'[u] <= live'
    BY <1>0, <2>1 DEF ProofsInv, Numbers
  <2>3. OneTabPerSession'
    BY <1>0, <2>1 DEF ProofsInv, OneTabPerSession
  <2>4. ConnectedHasProof'
    BY <1>0, <1>2 DEF ProofsInv, ConnectedHasProof
  <2>5. QED
    BY <2>2, <2>3, <2>4 DEF ProofsInv
<1>8. QED
  BY <1>1, <1>3, <1>4, <1>5, <1>6, <1>7 DEF IInv, FlightInv

LEMMA LoadKeeps == ASSUME IInv, NEW t \in Tab, Load(t) PROVE IInv'
<1>0. Numbers /\ t # Gone /\ Orphaned(t) \in SUBSET Letter
  BY TabsAssumption, OrphanedIs DEF IInv
<1>1. /\ issued' = issued /\ good' = good /\ live' = live /\ jar' = jar
      /\ relaunch' = [relaunch EXCEPT ![t] = "idle"]
      /\ shell' = [shell EXCEPT ![t] = "no-token"]
  BY DEF Load, server
<1>b. proof' = proof
  BY DEF Load
<1>2. PICK p \in {0, proof[t]} : proof' = [proof EXCEPT ![t] = p] /\ p = proof[t]
  BY <1>0, <1>b DEF Numbers
<1>a. p \in {0, proof[t]} /\ proof' = [proof EXCEPT ![t] = p]
  BY <1>2
<1>3. CASE /\ page' = [page EXCEPT ![t] = "shown"]
           /\ flight' = Orphaned(t)
  <2>1. flight' = Orphaned(t) \cup {} /\ {} \in SUBSET Letter
    BY <1>3
  <2>2. QED
    BY <1>1, <1>a, <1>3, <2>1, UnloadKeeps
<1>4. ASSUME page' = [page EXCEPT ![t] = "loading"],
             NEW use \in {"bootstrap", "probe"}, NEW secret \in Nat,
             Sends(Orphaned(t), t, use, secret), use = "probe" => proof[t] # 0
      PROVE  IInv'
  <2>0. use \in Use
    BY DEF Use
  <2>1. PICK new \in Letter :
          /\ flight' = Orphaned(t) \cup {new}
          /\ new.tab = t /\ new.use = use /\ ~Established(new)
    BY <1>0, <1>4, <2>0, SendsIs
  <2>2. new.use = "probe" => p # 0
    BY <1>2, <1>4, <2>1
  <2>3. Handshake(new)
    BY <2>1 DEF Handshake
  <2>4. {new} \in SUBSET Letter
    BY <2>1
  <2>5. QED
    BY <1>1, <1>a, <1>4, <2>1, <2>2, <2>3, <2>4, UnloadKeeps
<1>5. PICK link \in 0 .. issued :
        IF link = 0 /\ proof[t] = 0
        THEN page' = [page EXCEPT ![t] = "shown"] /\ flight' = Orphaned(t)
        ELSE /\ page' = [page EXCEPT ![t] = "loading"]
             /\ IF link # 0 THEN Sends(Orphaned(t), t, "bootstrap", link)
                            ELSE Sends(Orphaned(t), t, "probe", proof[t])
  BY DEF Load
<1>6. link \in Nat /\ proof[t] \in Nat
  BY <1>0 DEF Numbers
<1>7. QED
  BY <1>3, <1>4, <1>5, <1>6

LEMMA CloseKeeps == ASSUME IInv, NEW t \in Tab, Close(t) PROVE IInv'
<1>1. /\ flight' = Orphaned(t) \cup {} /\ {} \in SUBSET Letter
      /\ page' = [page EXCEPT ![t] = "closed"] /\ proof' = [proof EXCEPT ![t] = 0]
      /\ shell' = [shell EXCEPT ![t] = "no-token"]
      /\ relaunch' = [relaunch EXCEPT ![t] = "idle"]
      /\ issued' = issued /\ good' = good /\ live' = live /\ jar' = jar
  BY DEF Close, server
<1>2. 0 \in {0, proof[t]}
  OBVIOUS
<1>3. QED
  BY <1>1, <1>2, UnloadKeeps

-----------------------------------------------------------------------------
(* A page takes an answer up.                                              *)
LEMMA TakesUpKeeps ==
  ASSUME IInv, NEW m \in flight, NEW t \in Tab, m.tab = t,
         NEW p \in Nat, NEW kind \in ShellKind,
         flight' = flight \ {m},
         \A n \in flight \ {m} : n.tab = t => ~Handshake(n),
         page' = [page EXCEPT ![t] = "shown"],
         proof' = [proof EXCEPT ![t] = p],
         shell' = [shell EXCEPT ![t] = kind],
         relaunch' \in [Tab -> RelaunchKind],
         p \in {0, proof[t]} \/ (Established(m) /\ p = m.session),
         kind = "connected" => p # 0,
         issued' = issued, good' = good, live' = live, jar' \in Nat
  PROVE  IInv'
<1>0. Numbers /\ ProofsInv /\ FlightInv /\ t # Gone
  BY TabsAssumption DEF IInv
<1>1. Numbers'
  BY <1>0 DEF Numbers
<1>2. /\ \A u \in Tab \ {t} : page'[u] = page[u] /\ proof'[u] = proof[u] /\ shell'[u] = shell[u]
      /\ page'[t] = "shown" /\ proof'[t] = p /\ shell'[t] = kind
  BY <1>0 DEF Numbers
<1>3. ASSUME NEW n \in flight \ {m} PROVE WaitsFor(n)' /\ Untold(n)'
  <2>1. WaitsFor(n) /\ Untold(n) /\ n.tab \in Tab \cup {Gone}
    BY <1>0 DEF FlightInv, Numbers, Letter
  <2>2. WaitsFor(n)'
    <3>1. CASE n.tab = t
      BY <1>2, <1>3, <3>1 DEF WaitsFor, Handshake
    <3>2. CASE n.tab # t
      BY <1>2, <2>1, <3>2 DEF WaitsFor, Handshake
    <3>3. QED
      BY <3>1, <3>2
  <2>3. Untold(n)'
    <3> SUFFICES ASSUME Established(n)
                 PROVE  n.session \in 1 .. live' /\ \A u \in Tab : proof'[u] # n.session
      BY DEF Untold, Established
    <3>1. n.session \in 1 .. live /\ \A u \in Tab : proof[u] # n.session
      BY <2>1 DEF Untold
    <3>2. p # n.session
      <4>1. CASE p \in {0, proof[t]}
        BY <4>1, <3>1
      <4>2. CASE Established(m) /\ p = m.session
        BY <4>2, <1>0, <1>3 DEF FlightInv, OneAnswer
      <4>3. QED
        BY <4>1, <4>2
    <3>3. QED
      BY <1>2, <3>1, <3>2
  <2>4. QED
    BY <2>2, <2>3
<1>4. OneHandshake' /\ OneAnswer'
  BY <1>0 DEF FlightInv, OneHandshake, OneAnswer
<1>5. ProofsInv'
  <2>1. \A u \in Tab \ {t} : p # 0 => proof[u] # p
    <3>1. CASE p \in {0, proof[t]}
      BY <3>1, <1>0 DEF ProofsInv, OneTabPerSession
    <3>2. CASE Established(m) /\ p = m.session
      BY <3>2, <1>0 DEF FlightInv, Untold
    <3>3. QED
      BY <3>1, <3>2
  <2>2. p <= live
    <3>1. CASE p \in {0, proof[t]}
      BY <3>1, <1>0 DEF ProofsInv, Numbers
    <3>2. CASE Established(m) /\ p = m.session
      BY <3>2, <1>0 DEF FlightInv, Untold, Numbers
    <3>3. QED
      BY <3>1, <3>2
  <2>3. \A u \in Tab : proof'[u] <= live'
    BY <1>0, <1>2, <2>2 DEF ProofsInv
  <2>4. OneTabPerSession'
    BY <1>0, <1>2, <2>1 DEF ProofsInv, OneTabPerSession
  <2>5. ConnectedHasProof'
    BY <1>0, <1>2 DEF ProofsInv, ConnectedHasProof
  <2>6. QED
    BY <2>3, <2>4, <2>5 DEF ProofsInv
<1>6. QED
  BY <1>1, <1>3, <1>4, <1>5 DEF IInv, FlightInv

LEMMA ReceivedIs ==
  ASSUME IInv, NEW m \in flight, NEW t, m.tab = t, NEW use, Received(m, use)
  PROVE  /\ t \in Tab /\ t # Gone /\ m.use = use
         /\ flight' = flight \ {m} /\ jar' \in Nat
         /\ issued' = issued /\ good' = good /\ live' = live
         /\ \A n \in flight \ {m} : n.tab = t => ~Handshake(n)
         /\ proof[t] \in Nat /\ (use = "probe" => proof[t] # 0)
<1>1. t \in Tab /\ t # Gone /\ m.use = use
  BY TabsAssumption DEF IInv, Numbers, Letter, Received
<1>2. /\ jar' \in Nat /\ flight' = flight \ {m}
      /\ issued' = issued /\ good' = good /\ live' = live
  BY JarIsNumber DEF Received, server
<1>3. Handshake(m) => \A n \in flight \ {m} : n.tab = t => ~Handshake(n)
  BY <1>1 DEF IInv, FlightInv, OneHandshake
<1>4. ~Handshake(m) => \A n \in flight : n.tab = t => ~Handshake(n)
  BY <1>1 DEF IInv, FlightInv, WaitsFor
<1>5. proof[t] \in Nat /\ (use = "probe" => proof[t] # 0)
  BY <1>1 DEF IInv, FlightInv, WaitsFor, Numbers
<1>6. \A n \in flight \ {m} : n.tab = t => ~Handshake(n)
  BY <1>3, <1>4
<1>7. QED
  BY <1>1, <1>2, <1>5, <1>6

(* The answer shows the tab a shell, and leaves it its proof, takes it or  *)
(* brings it one.                                                          *)
LEMMA ShowsKeeps ==
  ASSUME IInv, NEW m \in flight, NEW t, m.tab = t, NEW use, Received(m, use),
         NEW kind \in ShellKind, Shown(t, kind),
         \/ proof' = proof /\ (kind = "connected" => use = "probe")
         \/ StoreProof(t, 0) /\ kind # "connected"
         \/ StoreProof(t, m.session) /\ Established(m)
  PROVE  IInv'
<1>1. /\ t \in Tab /\ flight' = flight \ {m} /\ jar' \in Nat
      /\ issued' = issued /\ good' = good /\ live' = live
      /\ \A n \in flight \ {m} : n.tab = t => ~Handshake(n)
      /\ proof[t] \in Nat /\ (use = "probe" => proof[t] # 0)
  BY ReceivedIs
<1>2. page' = [page EXCEPT ![t] = "shown"] /\ shell' = [shell EXCEPT ![t] = kind]
  BY DEF Shown
<1>3. relaunch' \in [Tab -> RelaunchKind]
  BY DEF Shown, RelaunchKind, IInv, Numbers
<1>4. PICK p \in Nat :
        /\ proof' = [proof EXCEPT ![t] = p]
        /\ p \in {0, proof[t]} \/ (Established(m) /\ p = m.session)
        /\ kind = "connected" => p # 0
  <2>1. CASE proof' = proof /\ (kind = "connected" => use = "probe")
    <3>1. proof' = [proof EXCEPT ![t] = proof[t]]
      BY <2>1 DEF IInv, Numbers
    <3>2. QED
      BY <1>1, <2>1, <3>1
  <2>2. CASE StoreProof(t, 0) /\ kind # "connected"
    BY <2>2 DEF StoreProof
  <2>3. CASE StoreProof(t, m.session) /\ Established(m)
    <3>1. m.session \in 1 .. live /\ live \in Nat
      BY <2>3 DEF IInv, FlightInv, Untold, Numbers
    <3>2. m.session \in Nat /\ m.session # 0
      BY <3>1
    <3>3. QED
      BY <2>3, <3>2 DEF StoreProof
  <2>4. QED
    BY <2>1, <2>2, <2>3
<1>5. QED
  BY <1>1, <1>2, <1>3, <1>4, TakesUpKeeps

LEMMA TellsNothing ==
  ASSUME IInv, NEW m \in flight, NEW use, Received(m, use), UNCHANGED <<page, proof, shell>>,
         relaunch' \in [Tab -> RelaunchKind]
  PROVE  IInv'
<1>1. /\ flight' \in SUBSET flight /\ jar' \in Nat
      /\ issued' = issued /\ good' = good /\ live' = live
  BY ReceivedIs
<1>2. issued \in Nat /\ good \in Nat
  BY DEF IInv, Numbers
<1>3. QED
  BY <1>1, <1>2, FewerKeeps

LEMMA ReceiveKeeps == ASSUME IInv, NEW m \in flight, Receive(m) PROVE IInv'
<1>1. PICK t : t = m.tab
  OBVIOUS
<1>2. relaunch \in [Tab -> RelaunchKind]
  BY DEF IInv, Numbers
<1>3. CASE Bootstrapped(m)
  <2>1. Received(m, "bootstrap") /\ m.use = "bootstrap"
    BY <1>3 DEF Bootstrapped, Received
  <2>2. CASE m.stage = "ok" /\ StoreProof(t, m.session) /\ Shown(t, "connected")
    BY <1>1, <2>1, <2>2, ShowsKeeps DEF Established, ShellKind
  <2>3. CASE proof' = proof /\ (Shown(t, "unreachable") \/ Shown(t, "rejected"))
    BY <1>1, <2>1, <2>3, ShowsKeeps DEF ShellKind
  <2>4. QED
    BY <1>1, <1>3, <2>2, <2>3 DEF Bootstrapped
<1>4. CASE Probed(m)
  <2>1. Received(m, "probe")
    BY <1>4 DEF Probed
  <2>2. ASSUME NEW kind \in {"connected", "displaced", "unreachable"}, Shown(t, kind),
               proof' = proof
        PROVE  IInv'
    BY <1>1, <2>1, <2>2, ShowsKeeps DEF ShellKind
  <2>3. CASE StoreProof(t, 0) /\ Shown(t, "no-token")
    BY <1>1, <2>1, <2>3, ShowsKeeps DEF ShellKind
  <2>4. \/ /\ proof' = proof
           /\ \E kind \in {"connected", "displaced", "unreachable"} : Shown(t, kind)
        \/ StoreProof(t, 0) /\ Shown(t, "no-token")
    BY <1>1, <1>4 DEF Probed
  <2>5. QED
    BY <2>2, <2>3, <2>4
<1>5. CASE SessionEnded(m)
  BY <1>1, <1>5, ShowsKeeps DEF SessionEnded, ShellKind
<1>6. CASE SessionDisplaced(m)
  <2>1. Received(m, "screen") /\ proof' = proof
    BY <1>6 DEF SessionDisplaced
  <2>2. CASE UNCHANGED <<page, shell, relaunch>>
    BY <1>2, <2>1, <2>2, TellsNothing
  <2>3. CASE Shown(t, "displaced")
    BY <1>1, <2>1, <2>3, ShowsKeeps DEF ShellKind
  <2>4. QED
    BY <1>1, <1>6, <2>2, <2>3 DEF SessionDisplaced
<1>7. CASE ScreenAnswered(m)
  BY <1>2, <1>7, TellsNothing DEF ScreenAnswered, tabs
<1>8. CASE RelaunchAnswered(m)
  <2>1. RelaunchFrom(m.stage) \in RelaunchKind
    BY DEF RelaunchFrom, RelaunchKind
  <2>2. relaunch' \in [Tab -> RelaunchKind]
    BY <1>2, <1>8, <2>1 DEF RelaunchAnswered
  <2>3. QED
    BY <1>8, <2>2, TellsNothing DEF RelaunchAnswered
<1>9. QED
  BY <1>3, <1>4, <1>5, <1>6, <1>7, <1>8 DEF Receive

-----------------------------------------------------------------------------
LEMMA Starts == Init => IInv
BY DEF Init, IInv, Numbers, ShellKind, RelaunchKind, FlightInv, OneHandshake, OneAnswer,
       ProofsInv, OneTabPerSession, ConnectedHasProof

LEMMA InvKept == IInv /\ [Next]_vars => IInv'
<1> SUFFICES ASSUME IInv, [Next]_vars PROVE IInv'
  OBVIOUS
<1>1. CASE UNCHANGED vars
  BY <1>1, FewerKeeps DEF vars, IInv, Numbers
<1>2. CASE \E t \in Tab : Person(t)
  BY <1>2, LoadKeeps, CloseKeeps, AsksKeeps DEF Person
<1>3. CASE \E m \in flight : Travels(m)
  BY <1>3, ServerStepKeeps, NetworkKeeps, ReceiveKeeps DEF Travels
<1>4. CASE Expire \/ OtherSite
  BY <1>4, OutsideKeeps
<1>5. CASE Restart
  BY <1>5, RestartKeeps
<1>6. QED
  BY <1>1, <1>2, <1>3, <1>4, <1>5 DEF Next

(* A proof is known to one tab or is still on its way to one, and a page   *)
(* that waits for its handshake has asked nothing else, through everything *)
(* the browser, the network and the server may do (handshake.ts, state.ts, *)
(* session.rs 298-352).                                                    *)
THEOREM Inductive == Spec => []IInv
BY InvKept, Starts, PTL DEF Spec

(* No two tabs hold the proof of one session, for any number of tabs and   *)
(* links (session.rs, "single use").                                       *)
THEOREM ProofsStayApart == Spec => []OneTabPerSession
<1>1. IInv => OneTabPerSession
  BY DEF IInv, ProofsInv
<1>2. QED
  BY <1>1, Inductive, PTL

(* A shell that shows screens has a proof to send, in whatever order the   *)
(* answers come (state.ts 86-117).                                         *)
THEOREM ConnectedStaysAble == Spec => []ConnectedHasProof
<1>1. IInv => ConnectedHasProof
  BY DEF IInv, ProofsInv
<1>2. QED
  BY <1>1, Inductive, PTL

-----------------------------------------------------------------------------
(* What a tab's messages know of its proof                                 *)

Carries(m) == m.use \in {"probe", "screen"}

(* A message with a tab's proof carries the proof the tab still has, if it *)
(* has one; when it says that the proof is not honoured, it is not; and a  *)
(* session on its way to a tab is newer than the proof the tab has.        *)
Known(m) ==
  m.tab # Gone =>
    /\ Carries(m) => m.secret <= live /\ proof[m.tab] \in {0, m.secret}
    /\ Carries(m) /\ m.stage = "unauthenticated" => ~Honoured(m.secret)
    /\ Established(m) => proof[m.tab] < m.session
    /\ m.stage \in {"throttled", "gated"} => m.use = "relaunch"

KInv == IInv /\ \A m \in flight : Known(m)

\* What a step does to the live session and to the process that holds it
SessionMoves ==
  \/ live' = live + 1
  \/ live' = live /\ (gone' = gone \/ gone' = (live # 0))

LEMMA SessionStep == ASSUME [Next]_vars PROVE SessionMoves
<1>1. CASE UNCHANGED vars \/ (\E t \in Tab : Person(t)) \/ Expire \/ Restart \/ OtherSite
  BY <1>1 DEF vars, server, Person, Load, Close, ScreenCall, OnRelaunch, Expire, Withdraw,
     Server!Withdraw, Restart, Server!Issue, OtherSite, SessionMoves
<1>2. CASE \E m \in flight : ServerStep(m)
  BY <1>2 DEF ServerStep, HandleBootstrap, Handle, GateRelaunch, HandleRelaunch, Redeem,
     Withdraw, Issue, Server!Redeem, Server!Withdraw, Server!Issue, server, SessionMoves
<1>3. CASE \E m \in flight : FetchFails(m) \/ CutShort(m) \/ ToNobody(m) \/ Receive(m)
  BY <1>3 DEF FetchFails, CutShort, ToNobody, Receive, Bootstrapped, Probed, SessionEnded,
     SessionDisplaced, ScreenAnswered, RelaunchAnswered, Received, server, SessionMoves
<1> QED BY <1>1, <1>2, <1>3 DEF Next, Travels

(* What the server no longer honours it never honours again.               *)
LEMMA HonourFades ==
  ASSUME KInv, SessionMoves, NEW secret \in Nat, secret <= live, ~Honoured(secret)
  PROVE  ~Honoured(secret)'
<1> SUFFICES ASSUME secret # 0, secret = live', ~gone' PROVE FALSE
  BY DEF Honoured
<1>1. live' = live /\ (gone' = gone \/ gone' = (live # 0))
  BY DEF KInv, IInv, Numbers, SessionMoves
<1>2. live # 0 /\ gone
  BY <1>1 DEF Honoured
<1> QED BY <1>1, <1>2, Zenon

LEMMA MessageStays ==
  ASSUME KInv, SessionMoves, NEW m \in flight,
         m.tab # Gone => proof'[m.tab] = proof[m.tab] \/ (proof'[m.tab] = 0 /\ ~Established(m))
  PROVE  Known(m)'
<1> SUFFICES ASSUME m.tab # Gone PROVE Known(m)'
  BY DEF Known
<1>1. Known(m) /\ m \in Letter /\ live \in Nat /\ m.secret \in Nat
  BY DEF KInv, IInv, Numbers, Letter
<1>2. live' \in Nat /\ live <= live'
  BY <1>1 DEF SessionMoves
<1>3. Carries(m) /\ m.stage = "unauthenticated" => ~Honoured(m.secret)'
  BY <1>1, HonourFades DEF Known
<1>4. Carries(m) => m.secret <= live' /\ proof'[m.tab] \in {0, m.secret}
  BY <1>1, <1>2 DEF Known
<1>5. Established(m) => proof'[m.tab] < m.session
  BY <1>1 DEF Known
<1> QED BY <1>1, <1>3, <1>4, <1>5 DEF Known, Carries, Established

LEMMA QuietKnows ==
  ASSUME KInv, SessionMoves, proof' = proof,
         \A n \in flight' : n \in flight \/ n.tab = Gone \/ Known(n)'
  PROVE  \A n \in flight' : Known(n)'
BY MessageStays DEF Known

LEMMA BecomesKnows ==
  ASSUME KInv, SessionMoves, proof' = proof, NEW m \in flight, NEW stage, NEW session,
         Becomes(m, stage, session),
         Carries(m) /\ stage = "unauthenticated" => ~Honoured(m.secret),
         m.use = "bootstrap" /\ stage = "ok" => session = live + 1,
         stage \in {"throttled", "gated"} => m.use = "relaunch"
  PROVE  \A n \in flight' : Known(n)'
<1> DEFINE new == [m EXCEPT !.stage = stage, !.session = session, !.cookie = 0]
<1>1. m \in Letter /\ Known(m) /\ live \in Nat /\ proof \in [Tab -> Nat]
      /\ \A t \in Tab : proof[t] <= live
  BY DEF KInv, IInv, Numbers, ProofsInv
<1>2. /\ new.tab = m.tab /\ new.use = m.use /\ new.secret = m.secret
      /\ new.stage = stage /\ new.session = session
      /\ m.secret \in Nat /\ m.tab \in Tab \cup {Gone}
  BY <1>1 DEF Letter
<1>3. flight' = (flight \ {m}) \cup {new}
  BY DEF Becomes
<1> HIDE DEF new
<1>4. ASSUME m.tab # Gone PROVE Known(new)'
  <2>1. live' \in Nat /\ live <= live'
    BY <1>1 DEF SessionMoves
  <2>2. Carries(m) => m.secret <= live' /\ proof'[m.tab] \in {0, m.secret}
    BY <1>1, <1>2, <1>4, <2>1 DEF Known
  <2>3. Carries(m) /\ stage = "unauthenticated" => ~Honoured(m.secret)'
    BY <1>1, <1>2, <1>4, HonourFades DEF Known
  <2>4. m.use = "bootstrap" /\ stage = "ok" => proof'[m.tab] < session
    BY <1>1, <1>2, <1>4
  <2> QED BY <1>2, <2>2, <2>3, <2>4 DEF Known, Carries, Established
<1>5. Known(new)'
  BY <1>2, <1>4 DEF Known
<1> QED BY <1>3, <1>5, QuietKnows

LEMMA TravelsKnow ==
  ASSUME KInv, SessionMoves, NEW m \in flight,
         ServerStep(m) \/ FetchFails(m) \/ CutShort(m) \/ ToNobody(m)
  PROVE  \A n \in flight' : Known(n)'
<1>1. proof' = proof
  BY DEF ServerStep, FetchFails, CutShort, ToNobody, tabs
<1>2. CASE ToNobody(m)
  BY <1>1, <1>2, QuietKnows DEF ToNobody
<1>3. CASE FetchFails(m) \/ CutShort(m)
  BY <1>1, <1>3, BecomesKnows DEF FetchFails, CutShort
<1>4. CASE HandleBootstrap(m)
  <2>1. m.use = "bootstrap"
    BY <1>4 DEF HandleBootstrap
  <2>2. PICK stage, session :
          /\ Becomes(m, stage, session) /\ stage \in {"ok", "refused", "unauthenticated"}
          /\ stage = "ok" => session = live + 1
    BY <1>4 DEF HandleBootstrap
  <2> QED BY <1>1, <2>1, <2>2, BecomesKnows DEF Carries
<1>5. CASE Handle(m)
  <2>1. m.use \in {"probe", "screen"}
    BY <1>5 DEF Handle
  <2>2. PICK stage \in {"unauthenticated", "displaced", "ok"} :
          Becomes(m, stage, 0) /\ (stage = "unauthenticated" => ~Honoured(m.secret))
    BY <1>5 DEF Handle, ProofOk
  <2> QED BY <1>1, <2>1, <2>2, BecomesKnows DEF Carries
<1>6. CASE GateRelaunch(m) \/ HandleRelaunch(m)
  <2>1. m.use = "relaunch"
    BY <1>6 DEF GateRelaunch, HandleRelaunch
  <2>2. PICK stage : Becomes(m, stage, 0)
    BY <1>6 DEF GateRelaunch, HandleRelaunch
  <2> QED BY <1>1, <2>1, <2>2, BecomesKnows DEF Carries
<1> QED BY <1>2, <1>3, <1>4, <1>5, <1>6 DEF ServerStep

LEMMA RestartKnows == ASSUME KInv, SessionMoves, Restart PROVE \A n \in flight' : Known(n)'
<1> SUFFICES ASSUME NEW n \in flight', n \notin flight PROVE Known(n)'
  BY QuietKnows DEF Restart, tabs
<1>1. PICK m \in flight :
        n = (IF m.stage = "gated" THEN [m EXCEPT !.stage = "unreachable"] ELSE m)
  BY DEF Restart
<1>2. m \in Letter /\ Known(m) /\ m.stage = "gated"
  BY <1>1 DEF KInv, IInv, Numbers
<1>3. n.tab = m.tab /\ n.use = m.use /\ n.stage = "unreachable"
  BY <1>1, <1>2 DEF Letter
<1>4. n.tab # Gone => n.use = "relaunch"
  BY <1>2, <1>3 DEF Known
<1> QED BY <1>3, <1>4 DEF Known, Carries, Established

(* A tab that asks carries the proof it has.                               *)
LEMMA SendsKnows ==
  ASSUME KInv, SessionMoves, proof' = proof, NEW t \in Tab, NEW use \in Use, NEW secret,
         NEW inFlight, Sends(inFlight, t, use, secret),
         \A n \in inFlight : n \in flight \/ n.tab = Gone,
         use \in {"probe", "screen"} => secret = proof[t]
  PROVE  \A n \in flight' : Known(n)'
<1>1. PICK new : /\ flight' = inFlight \cup {new}
                 /\ new.tab = t /\ new.use = use /\ new.secret = secret /\ new.stage = "sent"
  <2>1. PICK slot : flight' = inFlight \cup {Request(slot, t, use, secret)}
    BY DEF Sends
  <2>2. /\ Request(slot, t, use, secret).tab = t
        /\ Request(slot, t, use, secret).use = use
        /\ Request(slot, t, use, secret).secret = secret
        /\ Request(slot, t, use, secret).stage = "sent"
    BY DEF Request
  <2> QED BY <2>1, <2>2
<1>3. live \in Nat /\ proof[t] \in Nat /\ proof[t] <= live /\ live <= live' /\ live' \in Nat
  BY DEF KInv, IInv, Numbers, ProofsInv, SessionMoves
<1>4. Known(new)'
  BY <1>1, <1>3 DEF Known, Carries, Established
<1>5. \A n \in flight' : n \in flight \/ n.tab = Gone \/ Known(n)'
  BY <1>1, <1>4
<1> QED BY <1>5, QuietKnows

LEMMA PersonKnows ==
  ASSUME KInv, SessionMoves, NEW t \in Tab, Person(t) PROVE \A n \in flight' : Known(n)'
<1>1. \A n \in Orphaned(t) : n.tab # t /\ (n \in flight \/ n.tab = Gone)
  <2>1. \A n \in Orphaned(t) : n.tab # t /\ (n.tab # Gone => n \in flight)
    BY OrphanedIs DEF KInv
  <2> QED BY <2>1
<1>2. CASE Close(t)
  <2>1. flight' = Orphaned(t) /\ proof' = [proof EXCEPT ![t] = 0]
    BY <1>2 DEF Close
  <2>2. \A n \in flight : n.tab # Gone /\ n.tab # t => proof'[n.tab] = proof[n.tab]
    BY <2>1 DEF KInv, IInv, Numbers, Letter
  <2> QED BY <1>1, <2>1, <2>2, MessageStays DEF Known
<1>3. CASE Load(t)
  <2>1. proof' = proof
    BY <1>3 DEF Load
  <2>2. \/ flight' = Orphaned(t)
        \/ \E link : Sends(Orphaned(t), t, "bootstrap", link)
        \/ Sends(Orphaned(t), t, "probe", proof[t])
    BY <1>3 DEF Load
  <2>3. {"bootstrap", "probe"} \subseteq Use
    BY DEF Use
  <2>4. CASE flight' = Orphaned(t)
    BY <1>1, <2>1, <2>4, QuietKnows
  <2>5. CASE \E link : Sends(Orphaned(t), t, "bootstrap", link)
    BY <1>1, <2>1, <2>3, <2>5, SendsKnows
  <2>6. CASE Sends(Orphaned(t), t, "probe", proof[t])
    BY <1>1, <2>1, <2>3, <2>6, SendsKnows
  <2> QED BY <2>2, <2>4, <2>5, <2>6
<1>4. CASE ScreenCall(t) \/ OnRelaunch(t)
  <2>1. proof' = proof
    BY <1>4 DEF ScreenCall, OnRelaunch, tabs
  <2>2. PICK use \in {"screen", "relaunch"} : Sends(flight, t, use, proof[t])
    BY <1>4 DEF ScreenCall, OnRelaunch
  <2>3. use \in Use
    BY DEF Use
  <2> QED BY <2>1, <2>2, <2>3, SendsKnows
<1> QED BY <1>2, <1>3, <1>4 DEF Person

(* An answer that changes a tab's proof leaves no other that carries it,   *)
(* and what the tab gives up is not honoured or its probe broke off.       *)
LEMMA ReceiveKnows ==
  ASSUME KInv, SessionMoves, NEW m \in flight, Receive(m)
  PROVE  /\ \A n \in flight' : Known(n)'
         /\ \A t \in Tab : proof'[t] # proof[t] /\ proof[t] # 0 =>
              ~Honoured(proof[t]) \/ (m.tab = t /\ m.use = "probe" /\ m.stage = "refused")
<1> DEFINE t == m.tab
<1>1. PICK use : Received(m, use) /\ m.use = use
  BY DEF Receive, Bootstrapped, Probed, SessionEnded, SessionDisplaced, ScreenAnswered,
         RelaunchAnswered, Received
<1>2. /\ t \in Tab /\ t # Gone /\ flight' = flight \ {m} /\ m.stage \in Verdict
      /\ \A n \in flight \ {m} : n.tab = t => ~Handshake(n)
  BY <1>1, ReceivedIs DEF KInv, Received
<1>3. Known(m) /\ Untold(m) /\ WaitsFor(m) /\ proof \in [Tab -> Nat] /\ live \in Nat
  BY DEF KInv, IInv, FlightInv, Numbers
<1>4. CASE proof' = proof
  BY <1>2, <1>4, QuietKnows
<1>5. CASE Established(m) /\ StoreProof(t, m.session)
  <2>1. proof' = [proof EXCEPT ![t] = m.session]
    BY <1>5 DEF StoreProof
  <2>2. \A n \in flight' : n.tab # t
    <3>1. \A n \in flight : n.tab = t /\ ~Handshake(n) => page[t] = "shown"
      BY <1>2 DEF KInv, IInv, FlightInv, WaitsFor
    <3>2. page[t] = "loading"
      BY <1>2, <1>3, <1>5 DEF WaitsFor, Handshake, Established
    <3> QED BY <1>2, <3>1, <3>2
  <2>3. \A n \in flight' : n.tab # Gone => proof'[n.tab] = proof[n.tab]
    BY <1>2, <1>3, <2>1, <2>2 DEF KInv, IInv, Numbers, Letter
  <2>4. ~Honoured(proof[t])
    <3>1. proof[t] < m.session /\ m.session \in 1 .. live
      BY <1>2, <1>3, <1>5 DEF Known, Untold
    <3> QED BY <1>2, <1>3, <3>1 DEF Honoured
  <2>5. \A u \in Tab : proof'[u] # proof[u] => u = t
    BY <1>3, <2>1
  <2> QED BY <1>2, <2>3, <2>4, <2>5, MessageStays
<1>6. CASE /\ StoreProof(t, 0) /\ Carries(m)
           /\ m.stage = "unauthenticated" \/ (m.use = "probe" /\ m.stage = "refused")
  <2>1. proof' = [proof EXCEPT ![t] = 0]
    BY <1>6 DEF StoreProof
  <2>2. \A n \in flight' : n.tab = t => ~Established(n)
    BY <1>2 DEF Established, Handshake
  <2>3. \A n \in flight' : n.tab # Gone =>
          proof'[n.tab] = proof[n.tab] \/ (proof'[n.tab] = 0 /\ ~Established(n))
    BY <1>2, <1>3, <2>1, <2>2 DEF KInv, IInv, Numbers, Letter
  <2>4. \A u \in Tab : proof'[u] # proof[u] => u = t
    BY <1>3, <2>1
  <2>5. proof[t] # 0 /\ m.stage = "unauthenticated" => ~Honoured(proof[t])
    BY <1>2, <1>3, <1>6 DEF Known
  <2> QED BY <1>2, <1>6, <2>3, <2>4, <2>5, MessageStays
<1>7. CASE Bootstrapped(m)
  BY <1>4, <1>5, <1>7 DEF Bootstrapped, Received, Established
<1>8. CASE Probed(m)
  <2>1. m.use = "probe" /\ m.stage \in Verdict /\ m.stage # "throttled"
    BY <1>2, <1>3, <1>8 DEF Probed, Received, Known
  <2> QED BY <1>4, <1>6, <1>8, <2>1 DEF Probed, Verdict, Carries
<1>9. CASE SessionEnded(m)
  BY <1>6, <1>9 DEF SessionEnded, Received, Carries
<1>10. CASE SessionDisplaced(m) \/ ScreenAnswered(m) \/ RelaunchAnswered(m)
  BY <1>4, <1>10 DEF SessionDisplaced, ScreenAnswered, RelaunchAnswered, tabs
<1> QED BY <1>7, <1>8, <1>9, <1>10 DEF Receive

LEMMA KnownKept == KInv /\ [Next]_vars => KInv'
<1> SUFFICES ASSUME KInv, [Next]_vars PROVE KInv'
  OBVIOUS
<1>1. SessionMoves /\ IInv'
  BY SessionStep, InvKept DEF KInv
<1>2. CASE UNCHANGED vars \/ Expire \/ OtherSite
  BY <1>1, <1>2, QuietKnows DEF KInv, vars, Expire, OtherSite, tabs
<1>3. CASE \E t \in Tab : Person(t)
  BY <1>1, <1>3, PersonKnows DEF KInv
<1>4. CASE \E m \in flight : Travels(m)
  BY <1>1, <1>4, TravelsKnow, ReceiveKnows DEF KInv, Travels
<1>5. CASE Restart
  BY <1>1, <1>5, RestartKnows DEF KInv
<1> QED BY <1>2, <1>3, <1>4, <1>5 DEF Next

(* A page that gives up its proof gives up nothing, whatever was answered  *)
(* late, lost or replaced meanwhile (handshake.ts, session.rs).            *)
THEOREM NothingIsGivenUp == Spec => ProofGivenUpIsDead
<1>1. Init => KInv
  BY Starts DEF KInv, Init
<1>2. KInv /\ [Next]_vars =>
        [\A t \in Tab :
           proof'[t] # proof[t] /\ proof[t] # 0 /\ page'[t] # "closed" =>
             \/ ~Honoured(proof[t])
             \/ \E m \in flight : m.tab = t /\ m.use = "probe" /\ m.stage = "refused"]_vars
  <2> SUFFICES ASSUME KInv, [Next]_vars, NEW t \in Tab, proof'[t] # proof[t],
                      proof[t] # 0, page'[t] # "closed"
               PROVE  \/ ~Honoured(proof[t])
                      \/ \E m \in flight : m.tab = t /\ m.use = "probe" /\ m.stage = "refused"
    OBVIOUS
  <2>1. CASE \E m \in flight : Receive(m)
    BY <2>1, SessionStep, ReceiveKnows
  <2>2. CASE \E u \in Tab : Person(u)
    <3>1. PICK u \in Tab : Close(u)
      BY <2>2 DEF Person, Load, ScreenCall, OnRelaunch, tabs
    <3>2. proof' = [proof EXCEPT ![u] = 0] /\ page' = [page EXCEPT ![u] = "closed"]
      BY <3>1 DEF Close
    <3> QED BY <3>2 DEF KInv, IInv, Numbers
  <2>3. CASE proof' = proof
    BY <2>3
  <2> QED BY <2>1, <2>2, <2>3
          DEF Next, Travels, ServerStep, FetchFails, CutShort, ToNobody, Expire, Restart,
              OtherSite, tabs, vars
<1> QED BY <1>1, <1>2, KnownKept, PTL DEF Spec, ProofGivenUpIsDead
=============================================================================
