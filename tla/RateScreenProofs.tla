-------------------------- MODULE RateScreenProofs --------------------------
(***************************************************************************)
(* What the rate-schedule screen shows, exports and saves, for any inputs, *)
(* any number of requests and any order of answers.                        *)
(***************************************************************************)
EXTENDS RateScreen, TLAPS

(* A request in flight for the screen that is shown carries the inputs the *)
(* screen waits for, if it is the one awaited; none is newer than it.      *)
CalcsInv ==
  \A calc \in calcs :
    /\ calc.mount <= mount
    /\ calc.mount = mount => calc.request <= request
    /\ Awaited(calc) => calc.inputs = pending

(* An export was asked for from a result on screen.                        *)
ExportsInv == \A export \in exports : export.inputs \in shown

ScreenInv ==
  /\ phase = "ready" => vm # None /\ lastInputs = vm
  /\ lastInputs # None => lastInputs \in shown

IInv == TypeOK /\ CalcsInv /\ ExportsInv /\ ScreenInv /\ SavedWasShown

-----------------------------------------------------------------------------
LEMMA Starts == Init => IInv
  BY RateScreenAssumption
  DEF Init, IInv, TypeOK, CalcsInv, ExportsInv, ScreenInv, SavedWasShown, Calc, Export

LEMMA ChangeKeeps == IInv /\ Change => IInv'
<1> SUFFICES ASSUME IInv, Change PROVE IInv'
  OBVIOUS
<1> USE DEF IInv, Change
<1>1. TypeOK'
  BY DEF TypeOK
<1>2. CalcsInv' /\ ExportsInv' /\ ScreenInv' /\ SavedWasShown'
  BY DEF CalcsInv, ExportsInv, ScreenInv, SavedWasShown, Awaited
<1>3. QED
  BY <1>1, <1>2

LEMMA SubmitKeeps == IInv /\ Submit => IInv'
<1> SUFFICES ASSUME IInv, Submit PROVE IInv'
  OBVIOUS
<1> USE RateScreenAssumption DEF IInv, Submit
<1>0. fields \in Inputs /\ request \in Nat /\ request + 1 \in 0 .. MaxRequest /\ mount \in 0 .. MaxMount
  BY DEF TypeOK
<1>1. TypeOK'
  BY <1>0 DEF TypeOK, Calc, Export, NoExport
<1>2. CalcsInv'
  <2> SUFFICES ASSUME NEW calc \in calcs'
               PROVE  /\ calc.mount <= mount'
                      /\ calc.mount = mount' => calc.request <= request'
                      /\ Awaited(calc)' => calc.inputs = pending'
    BY DEF CalcsInv
  <2>1. CASE calc \in calcs
    <3>1. calc \in Calc
      BY <2>1 DEF TypeOK
    <3>2. QED
      BY <1>0, <2>1, <3>1 DEF CalcsInv, Awaited, Calc
  <2>2. CASE calc = [mount |-> mount, request |-> request + 1, inputs |-> fields]
    BY <1>0, <2>2 DEF Awaited
  <2>3. QED
    BY <2>1, <2>2
<1>3. ExportsInv' /\ ScreenInv' /\ SavedWasShown'
  BY DEF ExportsInv, ScreenInv, SavedWasShown
<1>4. QED
  BY <1>1, <1>2, <1>3

LEMMA AnswerKeeps == ASSUME NEW calc \in calcs PROVE IInv /\ Answer(calc) => IInv'
<1> SUFFICES ASSUME IInv, Answer(calc) PROVE IInv'
  OBVIOUS
<1> USE RateScreenAssumption DEF IInv, Answered
<1>0. calc \in Calc /\ calc.inputs \in Inputs /\ (Awaited(calc) => calc.inputs = pending)
  BY DEF TypeOK, CalcsInv, Calc
<1>1. CASE ResultReady(calc)
  BY <1>0, <1>1 DEF ResultReady, TypeOK, CalcsInv, ExportsInv, ScreenInv, SavedWasShown, Awaited
<1>2. CASE ResultFailed(calc)
  BY <1>0, <1>2 DEF ResultFailed, TypeOK, CalcsInv, ExportsInv, ScreenInv, SavedWasShown, Awaited
<1>3. CASE ResultDropped(calc)
  BY <1>3 DEF ResultDropped, TypeOK, CalcsInv, ExportsInv, ScreenInv, SavedWasShown, Awaited
<1>4. QED
  BY <1>1, <1>2, <1>3 DEF Answer

LEMMA ExportStartedKeeps ==
  ASSUME NEW format \in Format PROVE IInv /\ ExportStarted(format) => IInv'
<1> SUFFICES ASSUME IInv, ExportStarted(format) PROVE IInv'
  OBVIOUS
<1> USE RateScreenAssumption DEF IInv, ExportStarted, ExportStartedWith
<1> DEFINE new == [mount |-> mount, nth |-> asked + 1, inputs |-> lastInputs, format |-> format]
<1>0. lastInputs \in Inputs /\ lastInputs \in shown /\ asked + 1 \in 1 .. MaxExport
  BY DEF TypeOK, ScreenInv
<1>1. new \in Export
  BY <1>0 DEF TypeOK, Export
<1>2. TypeOK'
  BY <1>0, <1>1 DEF TypeOK
<1>3. ExportsInv'
  BY <1>0 DEF ExportsInv
<1>4. CalcsInv' /\ ScreenInv' /\ SavedWasShown'
  BY DEF CalcsInv, ScreenInv, SavedWasShown, Awaited
<1>5. QED
  BY <1>2, <1>3, <1>4

LEMMA ExportAnswerKeeps ==
  ASSUME NEW export \in exports PROVE IInv /\ ExportAnswer(export) => IInv'
<1> SUFFICES ASSUME IInv, ExportAnswer(export) PROVE IInv'
  OBVIOUS
<1>0. export \in Export /\ export.inputs \in Inputs /\ export.inputs \in shown
  BY DEF IInv, TypeOK, ExportsInv, Export
<1>1. PICK kind \in {"done", "failed"} : ExportAnswered(export) /\ Shows(export, kind)
  BY DEF ExportAnswer, ExportSaved, ExportFailed
<1>2. exportPhase' \in {exportPhase, "done", "failed"} /\ done' \in {done, export}
  BY <1>1 DEF Shows
<1>3. saved' \subseteq saved \cup {export.inputs}
  BY DEF ExportAnswer, ExportSaved, ExportFailed
<1>4. TypeOK'
  BY <1>0, <1>1, <1>2, <1>3 DEF IInv, TypeOK, ExportAnswered
<1>5. CalcsInv' /\ ExportsInv' /\ ScreenInv' /\ SavedWasShown'
  BY <1>0, <1>1, <1>3
  DEF IInv, ExportAnswered, CalcsInv, ExportsInv, ScreenInv, SavedWasShown, Awaited
<1>6. QED
  BY <1>4, <1>5 DEF IInv

LEMMA LeaveKeeps == IInv /\ Leave => IInv'
<1> SUFFICES ASSUME IInv, Leave PROVE IInv'
  OBVIOUS
<1> USE RateScreenAssumption DEF IInv, Leave, Fresh
<1>0. mount \in Nat /\ mount + 1 \in 0 .. MaxMount
  BY DEF TypeOK
<1>1. TypeOK'
  BY <1>0 DEF TypeOK, NoExport
<1>2. CalcsInv'
  <2> SUFFICES ASSUME NEW calc \in calcs
               PROVE  calc.mount <= mount' /\ calc.mount # mount'
    BY DEF CalcsInv, Awaited
  <2>1. calc \in Calc /\ calc.mount <= mount
    BY DEF TypeOK, CalcsInv
  <2>2. QED
    BY <1>0, <2>1 DEF Calc
<1>3. ExportsInv' /\ ScreenInv' /\ SavedWasShown'
  BY DEF ExportsInv, ScreenInv, SavedWasShown
<1>4. QED
  BY <1>1, <1>2, <1>3

(* Every step keeps what the screen needs, whatever is in flight.          *)
THEOREM Inductive == Spec => []IInv
<1>1. IInv /\ [Next]_vars => IInv'
  <2> SUFFICES ASSUME IInv, [Next]_vars PROVE IInv'
    OBVIOUS
  <2>1. CASE UNCHANGED vars
    BY <2>1 DEF vars, IInv, TypeOK, CalcsInv, ExportsInv, ScreenInv, SavedWasShown, Awaited
  <2>2. CASE Next
    BY <2>2, ChangeKeeps, SubmitKeeps, AnswerKeeps, ExportStartedKeeps, ExportAnswerKeeps,
       LeaveKeeps DEF Next
  <2>3. QED
    BY <2>1, <2>2
<1>2. QED
  BY <1>1, Starts, PTL DEF Spec

(* What an export would send is what the result on screen was computed     *)
(* from, for any number of requests and answers in any order (state.ts:54). *)
THEOREM ResultKept == Spec => []ResultMatchesInputs
<1>1. IInv => ResultMatchesInputs
  BY DEF IInv, ScreenInv, ResultMatchesInputs
<1>2. QED
  BY <1>1, Inductive, PTL

(* Every file that was saved is of a result the person had seen            *)
(* (RateScheduleScreen.tsx:28), though the screen may be gone by then.     *)
THEOREM SavedOnlyShown == Spec => []SavedWasShown
<1>1. IInv => SavedWasShown
  BY DEF IInv
<1>2. QED
  BY <1>1, Inductive, PTL
=============================================================================
