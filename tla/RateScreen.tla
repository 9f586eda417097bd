----------------------------- MODULE RateScreen -----------------------------
(***************************************************************************)
(* The rate-schedule screen of the web front end (web/src/screens/         *)
(* rate-schedule): its reducer (state.ts), the two effects that talk to    *)
(* the server (effects.ts) and the container that runs them                *)
(* (RateScheduleScreen.tsx).                                               *)
(*                                                                         *)
(* An effect runs when the reducer's new state is committed, before any    *)
(* later event, so sending is part of the action that asks for it.  The    *)
(* answers come back whenever they come, in any order.  Leaving the screen *)
(* drops its state; an answer to a screen that is gone is dispatched to    *)
(* nobody, but an exported file is still saved.                            *)
(*                                                                         *)
(* What the form's three fields hold is one value: inputs that validate,   *)
(* or None.  What the server computes from inputs is named by the inputs.  *)
(***************************************************************************)
EXTENDS Naturals

CONSTANTS
  Inputs,        \* form contents from which a request can be formed
  Format,        \* csv, json
  None,          \* no inputs: null, or fields that do not validate
  MaxRequest,    \* bound: submissions of one screen
  MaxExport,     \* bound: exports asked for
  MaxMount       \* bound: times the screen is shown

ASSUME RateScreenAssumption ==
  /\ None \notin Inputs
  /\ MaxRequest \in Nat /\ MaxExport \in Nat /\ MaxMount \in Nat

VARIABLES
  mount,         \* how many times the screen has been shown before
  fields,        \* state.fields
  phase,         \* state.phase.kind
  vm,            \* what the result on screen was computed from
  request,       \* state.request
  pending,       \* state.pending
  lastInputs,    \* state.lastInputs
  exportPhase,   \* state.exportPhase.kind
  done,          \* the export that state.exportPhase is about
  calcs,         \* rate-schedule requests in flight
  exports,       \* export requests in flight
  asked,         \* how many exports have been asked for
  shown,         \* history: the inputs of the results that have been on screen
  saved          \* history: the inputs of the files handed to the browser

screen == <<fields, phase, vm, request, pending, lastInputs, exportPhase, done>>
vars == <<mount, fields, phase, vm, request, pending, lastInputs, exportPhase, done,
          calcs, exports, asked, shown, saved>>

Calc == [mount : 0 .. MaxMount, request : 0 .. MaxRequest, inputs : Inputs]
Export == [mount : 0 .. MaxMount, nth : 1 .. MaxExport, inputs : Inputs, format : Format]
NoExport == [mount |-> 0, nth |-> 0, inputs |-> None, format |-> None]

Fresh ==
  /\ fields' = None
  /\ phase' = "idle"
  /\ vm' = None
  /\ request' = 0
  /\ pending' = None
  /\ lastInputs' = None
  /\ exportPhase' = "idle"
  /\ done' = NoExport

Init ==
  /\ mount = 0
  /\ fields = None
  /\ phase = "idle"
  /\ vm = None
  /\ request = 0
  /\ pending = None
  /\ lastInputs = None
  /\ exportPhase = "idle"
  /\ done = NoExport
  /\ calcs = {}
  /\ exports = {}
  /\ asked = 0
  /\ shown = {}
  /\ saved = {}

-----------------------------------------------------------------------------
(* 'change': the form may hold anything, whatever the screen is doing. *)
Change ==
  /\ \E contents \in Inputs \cup {None} : fields' = contents
  /\ UNCHANGED <<mount, phase, vm, request, pending, lastInputs, exportPhase, done,
                 calcs, exports, asked, shown, saved>>

(* 'submit' and 'retry': ignored while loading, and fields that do not     *)
(* validate only produce messages.                                         *)
Submit ==
  /\ phase # "loading"
  /\ fields # None
  /\ request < MaxRequest
  /\ phase' = "loading"
  /\ vm' = None
  /\ request' = request + 1
  /\ pending' = fields
  /\ exportPhase' = "idle"
  /\ done' = NoExport
  /\ calcs' = calcs \cup {[mount |-> mount, request |-> request + 1, inputs |-> fields]}
  /\ UNCHANGED <<mount, fields, lastInputs, exports, asked, shown, saved>>

(* 'result' applies only to the request that is awaited. *)
Awaited(calc) == calc.mount = mount /\ calc.request = request /\ phase = "loading"

Answered(calc) ==
  /\ calc \in calcs
  /\ calcs' = calcs \ {calc}
  /\ UNCHANGED <<mount, fields, request, exportPhase, done, exports, asked, saved>>

\* mutant: the inputs kept are those in the form when the answer comes
ResultReadyOfForm(calc) ==
  /\ Answered(calc)
  /\ Awaited(calc)
  /\ phase' = "ready"
  /\ vm' = calc.inputs
  /\ lastInputs' = IF fields = None THEN pending ELSE fields
  /\ pending' = None
  /\ shown' = shown \cup {calc.inputs}

(* The server computed the schedule. *)
ResultReady(calc) ==
  /\ Answered(calc)
  /\ Awaited(calc)
  /\ phase' = "ready"
  /\ vm' = calc.inputs
  /\ lastInputs' = pending
  /\ pending' = None
  /\ shown' = shown \cup {calc.inputs}

(* It refused the inputs (422), or the request failed. *)
ResultFailed(calc) ==
  /\ Answered(calc)
  /\ Awaited(calc)
  /\ phase' \in {"idle", "failed"}
  /\ vm' = None
  /\ lastInputs' = None
  /\ pending' = None
  /\ UNCHANGED shown

\* mutant: an answer that is awaited may be dropped like one that is not
ResultDroppedAny(calc) ==
  /\ Answered(calc)
  /\ UNCHANGED <<phase, vm, lastInputs, pending, shown>>

(* Nobody awaits the answer. *)
ResultDropped(calc) ==
  /\ Answered(calc)
  /\ ~Awaited(calc)
  /\ UNCHANGED <<phase, vm, lastInputs, pending, shown>>

-----------------------------------------------------------------------------
(* The export buttons are there while a result is. *)

ExportStartedWith(format, inputs) ==
  /\ phase = "ready"
  /\ lastInputs # None
  /\ exportPhase # "working"
  /\ asked < MaxExport
  /\ asked' = asked + 1
  /\ exportPhase' = "working"
  /\ done' = NoExport
  /\ exports' = exports \cup {[mount |-> mount, nth |-> asked + 1,
                               inputs |-> inputs, format |-> format]}
  /\ UNCHANGED <<mount, fields, phase, vm, request, pending, lastInputs, calcs,
                 shown, saved>>

\* mutant: the form's contents are sent
ExportStartedOfForm(format) ==
  ExportStartedWith(format, IF fields = None THEN lastInputs ELSE fields)

(* 'export-started': the inputs of the result on screen are sent. *)
ExportStarted(format) == ExportStartedWith(format, lastInputs)

(* 'export-result' applies to a screen that has an export under way; which *)
(* one, the event does not say.                                            *)
Expected(export) == export.mount = mount /\ exportPhase = "working"

ExportAnswered(export) ==
  /\ export \in exports
  /\ exports' = exports \ {export}
  /\ UNCHANGED <<mount, fields, phase, vm, request, pending, lastInputs, calcs,
                 asked, shown>>

Shows(export, kind) ==
  IF Expected(export) THEN exportPhase' = kind /\ done' = export
  ELSE UNCHANGED <<exportPhase, done>>

\* mutant: an export that failed is not told to the screen
ExportFailedUntold(export) ==
  /\ ExportAnswered(export)
  /\ UNCHANGED <<exportPhase, done, saved>>

(* The file came: it is saved before the screen hears of it. *)
ExportSaved(export) ==
  /\ ExportAnswered(export)
  /\ saved' = saved \cup {export.inputs}
  /\ Shows(export, "done")

(* It did not. *)
ExportFailed(export) ==
  /\ ExportAnswered(export)
  /\ UNCHANGED saved
  /\ Shows(export, "failed")

-----------------------------------------------------------------------------
(* The person goes to another screen and comes back, or the session is     *)
(* lost and the notice takes the screen's place.                           *)
Leave ==
  /\ mount < MaxMount
  /\ mount' = mount + 1
  /\ Fresh
  /\ UNCHANGED <<calcs, exports, asked, shown, saved>>

Answer(calc) == ResultReady(calc) \/ ResultFailed(calc) \/ ResultDropped(calc)
ExportAnswer(export) == ExportSaved(export) \/ ExportFailed(export)

Next ==
  \/ Change
  \/ Submit
  \/ \E calc \in calcs : Answer(calc)
  \/ \E format \in Format : ExportStarted(format)
  \/ \E export \in exports : ExportAnswer(export)
  \/ Leave

Spec == Init /\ [][Next]_vars

(* Every request is answered: by the server, whose whole-request deadline  *)
(* is 30 s (limits.rs:43), or by a fetch that fails.  Fairness to the      *)
(* requests together is all that is used; every single one is answered.    *)
FairSpec ==
  /\ Spec
  /\ WF_vars(\E calc \in calcs : Answer(calc))
  /\ WF_vars(\E export \in exports : ExportAnswer(export))

-----------------------------------------------------------------------------
(* Properties. *)

(* The type invariant: of the screen's parts, and that there is a pending  *)
(* request to answer exactly while the screen is loading (the container    *)
(* sends nothing otherwise, RateScheduleScreen.tsx:18-20).                 *)
TypeOK ==
  /\ (phase = "loading") <=> (pending # None)
  /\ mount \in 0 .. MaxMount
  /\ fields \in Inputs \cup {None}
  /\ phase \in {"idle", "loading", "ready", "failed"}
  /\ vm \in Inputs \cup {None}
  /\ request \in 0 .. MaxRequest
  /\ pending \in Inputs \cup {None}
  /\ lastInputs \in Inputs \cup {None}
  /\ exportPhase \in {"idle", "working", "done", "failed"}
  /\ done \in Export \cup {NoExport}
  /\ calcs \in SUBSET Calc
  /\ exports \in SUBSET Export
  /\ asked \in 0 .. MaxExport
  /\ shown \in SUBSET Inputs
  /\ saved \in SUBSET Inputs

(* What an export would send is what the result on screen was computed     *)
(* from, however the form was edited and the screen left and re-entered    *)
(* meanwhile: "The inputs of the result on screen" (state.ts:54).          *)
ResultMatchesInputs == phase = "ready" => vm # None /\ lastInputs = vm

(* Every file that was saved is of a result the person had seen: "the last *)
(* SUCCESSFUL inputs, not the current form contents"                       *)
(* (RateScheduleScreen.tsx:28).                                            *)
SavedWasShown == saved \subseteq shown

(* "Calculating..." ends, and so does "Preparing the file...".             *)
CalculationEnds == phase = "loading" ~> phase # "loading"
ExportEnds == exportPhase = "working" ~> exportPhase # "working"

(* The file the screen says was handed to the browser is of the result on  *)
(* screen: an export re-sends "the inputs of the result on screen"         *)
(* (state.ts:54).                                                          *)
DoneIsOnScreen ==
  phase = "ready" /\ exportPhase = "done" => done.inputs = lastInputs
=============================================================================
