--------------------------- MODULE LauncherProofs ---------------------------
(***************************************************************************)
(* Proofs about module Launcher for any set of processes and any number of *)
(* generations: the inductive invariant IInv is kept by every step, and    *)
(* the safety properties the runs check follow from it.                    *)
(***************************************************************************)
EXTENDS Launcher, TLAPS

(* The material is one whole generation when its three files agree. *)
LEMMA Whole ==
  ASSUME NEW m \in [File -> Gen], NEW g,
         m["ca"] = g, m["leaf"] = g, m["key"] = g
  PROVE  m = Set(g)
BY DEF File, Set

LEMMA Orders ==
  /\ SaveOrder[1] = "ca" /\ SaveOrder[2] = "leaf" /\ SaveOrder[3] = "key"
  /\ ClearOrder[1] = "key" /\ ClearOrder[2] = "leaf" /\ ClearOrder[3] = "ca"
BY DEF SaveOrder, ClearOrder

LEMMA OrderTypes ==
  ASSUME NEW i \in 1 .. 3
  PROVE  SaveOrder[i] \in File /\ ClearOrder[i] \in File
<1>1. i = 1 \/ i = 2 \/ i = 3
  OBVIOUS
<1>2. QED
  BY <1>1, Orders DEF File

LEMMA SetTypes ==
  ASSUME NEW g \in Gen
  PROVE  Set(g) \in [File -> Gen] /\ \A f \in File : Set(g)[f] = g
BY DEF Set

LEMMA GotoTypes ==
  ASSUME TypeOK, NEW p \in Proc, NEW place \in Place, Goto(p, place)
  PROVE  /\ pc' \in [Proc -> Place] /\ at' \in [Proc -> 0 .. 3]
         /\ pc'[p] = place /\ at'[p] = 0
         /\ \A q \in Proc \ {p} : pc'[q] = pc[q] /\ at'[q] = at[q]
BY DEF TypeOK, Goto

-----------------------------------------------------------------------------
(* Types. *)

LEMMA TypesInitially == Init => TypeOK
BY LauncherAssumption DEF Init, TypeOK, Nothing, Gen, Place

LEMMA TypesKept ==
  ASSUME TypeOK, StageInv, [Next]_vars
  PROVE  TypeOK'
<1> USE LauncherAssumption
<1>0. /\ \A place \in {"idle", "load", "clear", "save", "trust", "serving", "unload",
                       "wipe", "told"} : place \in Place
      /\ \A f \in File : disk[f] \in Gen
      /\ "ca" \in File /\ "leaf" \in File /\ "key" \in File
  BY DEF TypeOK, Place, File
<1>1. ASSUME NEW p \in Proc, NEW place \in Place, Start(p, place)
      PROVE  TypeOK'
  BY <1>1, GotoTypes DEF Start, TypeOK, files, world
<1>2. ASSUME NEW p \in Proc, Load(p)
      PROVE  TypeOK'
  <2>1. Goto(p, "trust")
    BY <1>2 DEF Load
  <2>2. QED
    BY <1>0, <1>2, <2>1, GotoTypes DEF Load, TypeOK, files, world
<1>3. ASSUME NEW p \in Proc, Issue(p)
      PROVE  TypeOK'
  <2>1. Goto(p, "clear")
    BY <1>3 DEF Issue
  <2>2. issued' \in Gen /\ material' \in [Proc -> [File -> Gen]]
    <3>1. issued + 1 \in Gen /\ issued' = issued + 1
      BY <1>3 DEF Issue, TypeOK, Gen
    <3>2. Set(issued + 1) \in [File -> Gen]
      BY <3>1, SetTypes
    <3>3. QED
      BY <1>3, <3>1, <3>2 DEF Issue, TypeOK
  <2>3. excused' \in SUBSET Gen
    BY <1>0, <1>3 DEF Issue, TypeOK
  <2>4. QED
    <3>1. pc' \in [Proc -> Place] /\ at' \in [Proc -> 0 .. 3]
      BY <1>0, <2>1, GotoTypes
    <3>2. UNCHANGED <<lock, mode, disk, durable, stale, loose, trusted, served>>
      BY <1>3 DEF Issue, files, world
    <3>3. QED
      BY <2>2, <2>3, <3>1, <3>2 DEF TypeOK
<1>4. ASSUME NEW p \in Proc, ClearFile(p)
      PROVE  TypeOK'
  <2>1. 0 \in Gen
    BY DEF Gen
  <2>2. disk' \in [File -> Gen] /\ at' \in [Proc -> 0 .. 3]
    <3>1. at[p] + 1 \in 0 .. 3
      BY <1>4 DEF ClearFile, TypeOK
    <3>2. disk' = [disk EXCEPT ![ClearOrder[at[p] + 1]] = 0]
          /\ at' = [at EXCEPT ![p] = at[p] + 1]
      BY <1>4 DEF ClearFile
    <3>3. disk' \in [File -> Gen]
      BY <2>1, <3>2 DEF TypeOK
    <3>4. QED
      BY <3>1, <3>2, <3>3 DEF TypeOK
  <2>3. QED
    BY <1>4, <2>2 DEF ClearFile, TypeOK, files, world
<1>5. ASSUME NEW p \in Proc, SaveNext(p)
      PROVE  TypeOK'
  <2>1. Goto(p, "save")
    BY <1>5 DEF SaveNext
  <2>2. QED
    BY <1>0, <1>5, <2>1, GotoTypes DEF SaveNext, TypeOK, files, world
<1>6. ASSUME NEW p \in Proc, SaveFile(p)
      PROVE  TypeOK'
  <2>1. material[p] \in [File -> Gen] /\ at[p] + 1 \in 1 .. 3
    BY <1>6 DEF SaveFile, TypeOK
  <2>2. SaveOrder[at[p] + 1] \in File
    BY <2>1, OrderTypes
  <2>3. disk' \in [File -> Gen] /\ at' \in [Proc -> 0 .. 3]
    BY <1>6, <2>1, <2>2 DEF SaveFile, TypeOK
  <2>4. QED
    BY <1>6, <2>3 DEF SaveFile, TypeOK, files, world
<1>7. ASSUME NEW p \in Proc, Saved(p)
      PROVE  TypeOK'
  <2>1. Goto(p, "trust")
    BY <1>7 DEF Saved
  <2>2. QED
    BY <1>0, <1>7, <2>1, GotoTypes DEF Saved, TypeOK, files, world
<1>8. ASSUME NEW p \in Proc, TrustFound(p) \/ TrustInstalled(p) \/ TrustDeclined(p)
      PROVE  TypeOK'
  <2>1. PICK m \in {"Installed", "Declined"} : Serve(p, m)
    BY <1>8 DEF TrustFound, TrustInstalled, TrustDeclined
  <2>2. pc[p] = "trust"
    BY <1>8 DEF TrustFound, TrustInstalled, TrustDeclined
  <2>3. PICK g \in 1 .. issued : material[p] = Set(g)
    BY <2>2 DEF StageInv, Stage
  <2>4. g \in 1 .. MaxGen
    BY DEF TypeOK, Gen
  <2>5. material[p]["leaf"] = g /\ material[p]["ca"] = g
    BY <2>3 DEF Set, File
  <2>6. trusted' \in SUBSET (1 .. MaxGen)
    BY <1>8, <2>4, <2>5 DEF TrustFound, TrustInstalled, TrustDeclined, TypeOK
  <2>7. Goto(p, "serving")
    BY <2>1 DEF Serve
  <2>8. mode' \in [Proc -> {"Installed", "Declined"}] /\ served' \in SUBSET (1 .. MaxGen)
    BY <2>1, <2>4, <2>5 DEF Serve, TypeOK
  <2>9. QED
    BY <1>0, <2>1, <2>6, <2>7, <2>8, GotoTypes DEF Serve, TypeOK, files, world
<1>9. ASSUME NEW p \in Proc, RemoveTrust(p) \/ RemoveNothing(p) \/ Report(p)
      PROVE  TypeOK'
  <2>1. Goto(p, "wipe") \/ Goto(p, "told")
    BY <1>9 DEF RemoveTrust, RemoveNothing, Report
  <2>2. excused' \in SUBSET Gen
    BY <1>0, <1>9 DEF RemoveTrust, RemoveNothing, Report, TypeOK
  <2>3. QED
    BY <1>0, <1>9, <2>1, <2>2, GotoTypes
       DEF RemoveTrust, RemoveNothing, Report, TypeOK, files, world
<1>10. ASSUME NEW p \in Proc, Exit(p)
       PROVE  TypeOK'
  <2>1. Goto(p, "idle")
    BY <1>10 DEF Exit
  <2>2. Nothing \in [File -> Gen]
    BY DEF Nothing, Gen
  <2>3. material[p]["leaf"] \in Gen
    BY <1>0, <1>10 DEF TypeOK
  <2>4. material' \in [Proc -> [File -> Gen]]
        /\ mode' \in [Proc -> {"Installed", "Declined"}]
        /\ excused' \in SUBSET Gen /\ lock' \in SUBSET Proc
    BY <1>10, <2>2, <2>3 DEF Exit, TypeOK
  <2>5. QED
    <3>1. pc' \in [Proc -> Place] /\ at' \in [Proc -> 0 .. 3]
      BY <1>0, <2>1, GotoTypes
    <3>2. UNCHANGED <<disk, durable, issued, stale, loose, trusted, served>>
      BY <1>10 DEF Exit, files, world
    <3>3. QED
      BY <2>4, <3>1, <3>2 DEF TypeOK
<1>11. ASSUME PowerLoss
       PROVE  TypeOK'
  <2>1. Nothing \in [File -> Gen]
    BY DEF Nothing, Gen
  <2>2. /\ pc' \in [Proc -> Place] /\ at' \in [Proc -> 0 .. 3]
        /\ material' \in [Proc -> [File -> Gen]]
        /\ mode' \in [Proc -> {"Installed", "Declined"}]
    BY <1>0, <1>11, <2>1 DEF PowerLoss
  <2>3. disk' \in [File -> Gen] /\ durable' \in [File -> Gen]
    BY <1>11 DEF PowerLoss
  <2>4. QED
    BY <1>11, <2>2, <2>3 DEF PowerLoss, TypeOK, world
<1>12. ASSUME Ages \/ Loosened
       PROVE  TypeOK'
  <2>1. disk["key"] \in Gen /\ issued \in Gen
    BY <1>0 DEF TypeOK
  <2>2. stale' \in SUBSET (1 .. MaxGen) /\ loose' \in SUBSET (1 .. MaxGen)
    <3>1. CASE Ages
      BY <2>1, <3>1 DEF Ages, TypeOK, Gen
    <3>2. CASE Loosened
      <4>1. disk["key"] \in 1 .. MaxGen
        BY <2>1, <3>2 DEF Loosened, Gen
      <4>2. QED
        BY <3>2, <4>1 DEF Loosened, TypeOK, world
    <3>3. QED
      BY <1>12, <3>1, <3>2
  <2>3. QED
    BY <1>12, <2>2 DEF Ages, Loosened, TypeOK, files
<1>13. CASE UNCHANGED vars
  BY <1>13 DEF vars, TypeOK
<1>14. QED
  BY <1>1, <1>2, <1>3, <1>4, <1>5, <1>6, <1>7, <1>8, <1>9, <1>10, <1>11, <1>12, <1>13
     DEF Next, ServeStep, RemoveStep, Place

-----------------------------------------------------------------------------
(* The lock. *)

(* A step of a process after its first: Ends is the only one that lets the *)
(* lock go.                                                                *)
Works(p) ==
  \/ Load(p) \/ Issue(p) \/ ClearFile(p) \/ SaveNext(p) \/ SaveFile(p) \/ Saved(p)
  \/ TrustFound(p) \/ TrustInstalled(p) \/ TrustDeclined(p)
  \/ RemoveTrust(p) \/ RemoveNothing(p) \/ Report(p)

LEMMA Steps ==
  ASSUME [Next]_vars
  PROVE  \/ \E p \in Proc, place \in {"load", "unload"} : Start(p, place)
         \/ \E p \in Proc : Works(p)
         \/ \E p \in Proc : Exit(p)
         \/ PowerLoss
         \/ Ages
         \/ Loosened
         \/ UNCHANGED vars
BY DEF Next, ServeStep, RemoveStep, Works

LEMMA WorksFacts ==
  ASSUME TypeOK, NEW p \in Proc, Works(p)
  PROVE  /\ lock' = lock /\ pc[p] # "idle" /\ pc'[p] # "idle"
         /\ \A q \in Proc \ {p} : pc'[q] = pc[q]
         /\ UNCHANGED <<stale, loose>>
BY DEF Works, Load, Issue, ClearFile, SaveNext, SaveFile, Saved, TrustFound,
       TrustInstalled, TrustDeclined, Serve, RemoveTrust, RemoveNothing, Report,
       Goto, TypeOK, world

LEMMA LockKept ==
  ASSUME TypeOK, LockInv, [Next]_vars
  PROVE  LockInv'
<1>1. ASSUME NEW p \in Proc, NEW place \in {"load", "unload"}, Start(p, place)
      PROVE  LockInv'
  BY <1>1 DEF Start, LockInv, Goto, TypeOK
<1>2. ASSUME NEW p \in Proc, Works(p)
      PROVE  LockInv'
  BY <1>2, WorksFacts DEF LockInv
<1>3. ASSUME NEW p \in Proc, Exit(p)
      PROVE  LockInv'
  BY <1>3 DEF Exit, LockInv, Goto, TypeOK
<1>4. ASSUME PowerLoss
      PROVE  LockInv'
  BY <1>4 DEF PowerLoss, LockInv
<1>5. ASSUME Ages \/ Loosened \/ UNCHANGED vars
      PROVE  LockInv'
  BY <1>5 DEF Ages, Loosened, vars, LockInv
<1>6. QED
  BY <1>1, <1>2, <1>3, <1>4, <1>5, Steps

(* Whoever works is alone. *)
LEMMA Alone ==
  ASSUME LockInv, NEW p \in Proc, NEW q \in Proc, pc[p] # "idle", pc[q] # "idle"
  PROVE  p = q
BY DEF LockInv

-----------------------------------------------------------------------------
(* The stage of each command, and the age of what is on disk. *)

(* Only the holder of the lock has a stage to keep. *)
LEMMA StageOfHolder ==
  ASSUME LockInv', NEW p \in Proc, pc'[p] # "idle", Stage(p)'
  PROVE  StageInv'
BY Alone DEF StageInv, Stage, LockInv

LEMMA StageAge ==
  ASSUME TypeOK, LockInv, StageInv, AgeInv, NEW p \in Proc, Works(p), LockInv'
  PROVE  StageInv' /\ AgeInv'
<1>0. pc'[p] # "idle" /\ Stage(p)
  BY WorksFacts DEF StageInv
<1>s. SUFFICES Stage(p)' /\ AgeInv'
  BY <1>0, StageOfHolder
<1>f. /\ pc \in [Proc -> Place] /\ at \in [Proc -> 0 .. 3]
      /\ material \in [Proc -> [File -> Gen]] /\ disk \in [File -> Gen]
      /\ durable \in [File -> Gen] /\ issued \in Nat
  BY LauncherAssumption DEF TypeOK, Gen
<1>1. CASE Load(p)
  <2>1. PICK g : g = disk["leaf"]
    OBVIOUS
  <2>2. disk["ca"] = g /\ disk["leaf"] = g /\ disk["key"] = g
    BY <1>1, <2>1 DEF Load, Valid
  <2>3. disk = Set(g)
    BY <1>f, <2>2, Whole
  <2>4. g \in 1 .. issued
    BY <1>1, <1>f, <2>1, LauncherAssumption DEF Load, Loadable, AgeInv, File, Gen
  <2>5. /\ disk' = disk /\ issued' = issued /\ durable' = durable
        /\ material'[p] = disk /\ pc'[p] = "trust"
    BY <1>1, <1>f DEF Load, Goto, files
  <2>6. QED
    BY <2>3, <2>4, <2>5 DEF Stage, AgeInv
<1>2. CASE Issue(p)
  <2>1. /\ disk' = disk /\ durable' = durable /\ issued' = issued + 1
        /\ material'[p] = Set(issued') /\ pc'[p] = "clear"
    BY <1>2, <1>f DEF Issue, Goto, files
  <2>2. issued' > 0
    BY <1>f, <2>1
  <2>3. ASSUME NEW f \in File
        PROVE  disk'[f] <= issued' /\ durable'[f] <= issued'
    <3>1. disk[f] \in Nat /\ durable[f] \in Nat
      BY <1>f, LauncherAssumption DEF Gen
    <3>2. QED
      BY <1>f, <2>1, <3>1 DEF AgeInv
  <2>4. QED
    BY <2>1, <2>2, <2>3 DEF Stage, AgeInv
<1>3. CASE ClearFile(p)
  <2>1. /\ disk' = [disk EXCEPT ![ClearOrder[at[p] + 1]] = 0]
        /\ at'[p] = at[p] + 1 /\ at[p] \in 0 .. 2
        /\ pc' = pc /\ material' = material /\ issued' = issued /\ durable' = durable
        /\ pc[p] \in {"clear", "wipe"}
    BY <1>3, <1>f DEF ClearFile
  <2>2. ClearOrder[at[p] + 1] \in File
    BY <2>1, OrderTypes
  <2>3. ASSUME pc[p] = "wipe", NEW i \in 1 .. at'[p]
        PROVE  disk'[ClearOrder[i]] = 0
    <3>1. CASE i = at[p] + 1
      BY <1>f, <2>1, <2>2, <3>1
    <3>2. CASE i \in 1 .. at[p]
      <4>1. disk[ClearOrder[i]] = 0
        BY <1>0, <2>3, <3>2 DEF Stage
      <4>2. ClearOrder[i] \in File
        BY <2>1, <3>2, OrderTypes
      <4>3. QED
        BY <1>f, <2>1, <4>1, <4>2
    <3>3. QED
      BY <2>1, <2>3, <3>1, <3>2
  <2>4. AgeInv'
    <3>1. ASSUME NEW f \in File
          PROVE  disk'[f] <= issued'
      <4>1. disk'[f] = 0 \/ disk'[f] = disk[f]
        BY <1>f, <2>1
      <4>2. disk[f] <= issued
        BY DEF AgeInv
      <4>3. QED
        BY <1>f, <2>1, <4>1, <4>2
    <3>2. QED
      BY <2>1, <3>1 DEF AgeInv
  <2>5. QED
    BY <1>0, <2>1, <2>3, <2>4 DEF Stage
<1>4. CASE SaveNext(p)
  <2>1. /\ disk' = disk /\ durable' = durable /\ issued' = issued
        /\ material' = material /\ pc[p] = "clear" /\ pc'[p] = "save" /\ at'[p] = 0
    BY <1>4, <1>f DEF SaveNext, Goto, files
  <2>2. QED
    BY <1>0, <2>1 DEF Stage, AgeInv
<1>5. CASE SaveFile(p)
  <2>1. /\ disk' = [disk EXCEPT ![SaveOrder[at[p] + 1]] =
                                   material[p][SaveOrder[at[p] + 1]]]
        /\ at'[p] = at[p] + 1 /\ at[p] \in 0 .. 2
        /\ pc' = pc /\ material' = material /\ issued' = issued /\ durable' = durable
        /\ pc[p] = "save"
    BY <1>5, <1>f DEF SaveFile
  <2>2. SaveOrder[at[p] + 1] \in File
    BY <2>1, OrderTypes
  <2>3. material[p] = Set(issued) /\ issued > 0
    BY <1>0, <2>1 DEF Stage
  <2>4. material[p][SaveOrder[at[p] + 1]] = issued
    BY <2>2, <2>3 DEF Set
  <2>5. ASSUME NEW i \in 1 .. at'[p]
        PROVE  disk'[SaveOrder[i]] = issued
    <3>1. CASE i = at[p] + 1
      BY <1>f, <2>1, <2>2, <2>4, <3>1
    <3>2. CASE i \in 1 .. at[p]
      <4>1. disk[SaveOrder[i]] = issued
        BY <1>0, <2>1, <3>2 DEF Stage
      <4>2. SaveOrder[i] \in File
        BY <2>1, <3>2, OrderTypes
      <4>3. QED
        BY <1>f, <2>1, <2>4, <4>1, <4>2
    <3>3. QED
      BY <2>1, <2>5, <3>1, <3>2
  <2>6. AgeInv'
    <3>1. ASSUME NEW f \in File
          PROVE  disk'[f] <= issued'
      <4>1. disk'[f] = issued \/ disk'[f] = disk[f]
        BY <1>f, <2>1, <2>4
      <4>2. disk[f] <= issued
        BY DEF AgeInv
      <4>3. QED
        BY <1>f, <2>1, <4>1, <4>2
    <3>2. QED
      BY <2>1, <3>1 DEF AgeInv
  <2>7. QED
    BY <2>1, <2>3, <2>5, <2>6 DEF Stage
<1>6. CASE Saved(p)
  <2>1. /\ disk' = disk /\ durable' = disk /\ issued' = issued /\ at[p] = 3
        /\ material' = material /\ pc[p] = "save" /\ pc'[p] = "trust"
    BY <1>6, <1>f DEF Saved, Goto
  <2>2. material[p] = Set(issued) /\ issued > 0
    BY <1>0, <2>1 DEF Stage
  <2>3. \A i \in 1 .. 3 : disk[SaveOrder[i]] = issued
    BY <1>0, <2>1 DEF Stage
  <2>4. disk["ca"] = issued /\ disk["leaf"] = issued /\ disk["key"] = issued
    BY <2>3, Orders
  <2>5. disk = Set(issued)
    BY <1>f, <2>4, Whole
  <2>6. issued \in 1 .. issued
    BY <1>f, <2>2
  <2>7. QED
    BY <2>1, <2>2, <2>5, <2>6 DEF Stage, AgeInv
<1>7. CASE TrustFound(p) \/ TrustInstalled(p) \/ TrustDeclined(p)
  <2>1. /\ disk' = disk /\ durable' = durable /\ issued' = issued
        /\ material' = material /\ pc[p] = "trust" /\ pc'[p] = "serving"
    BY <1>7, <1>f DEF TrustFound, TrustInstalled, TrustDeclined, Serve, Goto, files
  <2>2. QED
    BY <1>0, <2>1 DEF Stage, AgeInv
<1>8. CASE RemoveTrust(p) \/ RemoveNothing(p)
  <2>1. /\ disk' = disk /\ durable' = durable /\ issued' = issued
        /\ material' = material /\ pc'[p] = "wipe" /\ at'[p] = 0
    BY <1>8, <1>f DEF RemoveTrust, RemoveNothing, Goto, files
  <2>2. QED
    BY <2>1 DEF Stage, AgeInv
<1>9. CASE Report(p)
  <2>1. /\ disk' = disk /\ durable' = durable /\ issued' = issued /\ at[p] = 3
        /\ pc[p] = "wipe" /\ pc'[p] = "told"
    BY <1>9, <1>f DEF Report, Goto, files
  <2>2. \A i \in 1 .. 3 : disk[ClearOrder[i]] = 0
    BY <1>0, <2>1 DEF Stage
  <2>3. disk["ca"] = 0 /\ disk["leaf"] = 0 /\ disk["key"] = 0
    BY <2>2, Orders
  <2>4. disk = Nothing
    BY <1>f, <2>3 DEF Nothing, File
  <2>5. QED
    BY <2>1, <2>4 DEF Stage, AgeInv
<1>10. QED
  BY <1>1, <1>2, <1>3, <1>4, <1>5, <1>6, <1>7, <1>8, <1>9 DEF Works

LEMMA StageKept ==
  ASSUME TypeOK, LockInv, StageInv, AgeInv, [Next]_vars
  PROVE  StageInv' /\ AgeInv'
<1>0. LockInv'
  BY LockKept
<1>f. /\ pc \in [Proc -> Place] /\ disk \in [File -> Gen]
      /\ durable \in [File -> Gen] /\ issued \in Nat
  BY LauncherAssumption DEF TypeOK, Gen
<1>1. ASSUME NEW p \in Proc, NEW place \in {"load", "unload"}, Start(p, place)
      PROVE  StageInv' /\ AgeInv'
  <2>1. /\ pc'[p] = place /\ disk' = disk /\ durable' = durable /\ issued' = issued
    BY <1>1, <1>f DEF Start, Goto, files
  <2>2. Stage(p)'
    BY <2>1 DEF Stage
  <2>3. QED
    BY <1>0, <2>1, <2>2, StageOfHolder DEF AgeInv
<1>2. ASSUME NEW p \in Proc, Works(p)
      PROVE  StageInv' /\ AgeInv'
  BY <1>0, <1>2, StageAge
<1>3. ASSUME NEW p \in Proc, Exit(p)
      PROVE  StageInv' /\ AgeInv'
  <2>1. /\ pc[p] # "idle" /\ disk' = disk /\ durable' = durable /\ issued' = issued
        /\ pc' = [pc EXCEPT ![p] = "idle"]
    BY <1>3 DEF Exit, Goto, files
  <2>2. ASSUME NEW q \in Proc
        PROVE  pc'[q] = "idle"
    BY <1>f, <2>1, Alone
  <2>3. QED
    BY <2>1, <2>2 DEF StageInv, Stage, AgeInv
<1>4. ASSUME PowerLoss
      PROVE  StageInv' /\ AgeInv'
  <2>1. PICK left \in [File -> Gen] :
          /\ \A f \in File : left[f] \in {durable[f], disk[f]}
          /\ disk' = left /\ durable' = left
    BY <1>4 DEF PowerLoss
  <2>2. issued' = issued /\ \A q \in Proc : pc'[q] = "idle"
    BY <1>4 DEF PowerLoss
  <2>3. \A f \in File : left[f] <= issued
    BY <2>1 DEF AgeInv
  <2>4. QED
    BY <2>1, <2>2, <2>3 DEF StageInv, Stage, AgeInv
<1>5. ASSUME Ages \/ Loosened \/ UNCHANGED vars
      PROVE  StageInv' /\ AgeInv'
  <2>1. UNCHANGED <<pc, at, material, disk, durable, issued>>
    BY <1>5 DEF Ages, Loosened, vars, files
  <2>2. QED
    BY <2>1 DEF StageInv, Stage, AgeInv
<1>6. QED
  BY <1>1, <1>2, <1>3, <1>4, <1>5, Steps

-----------------------------------------------------------------------------
(* Durability. *)

LEMMA SyncKept ==
  ASSUME TypeOK, LockInv, StageInv, AgeInv, SyncInv, [Next]_vars
  PROVE  SyncInv'
<1>f. /\ pc \in [Proc -> Place] /\ disk \in [File -> Gen] /\ issued \in Nat
      /\ material \in [Proc -> [File -> Gen]] /\ at \in [Proc -> 0 .. 3]
  BY LauncherAssumption DEF TypeOK, Gen
<1>g. /\ "ca" \in File /\ "leaf" \in File /\ "key" \in File
      /\ \A g, h : Set(g) = Set(h) => g = h
  <2>1. "ca" \in File /\ "leaf" \in File /\ "key" \in File
    BY DEF File
  <2>2. \A g : Set(g)["ca"] = g
    BY <2>1 DEF Set
  <2>3. QED
    BY <2>1, <2>2
<1>s. ASSUME UNCHANGED <<disk, durable, issued>>, excused \subseteq excused',
             \A p \in Proc : pc[p] = "save" =>
               \/ pc'[p] = "save" /\ material'[p] = material[p]
               \/ material[p]["leaf"] \in excused'
      PROVE  SyncInv'
  <2>1. ASSUME NEW g \in 1 .. issued, disk = Set(g)
        PROVE  \/ durable = Set(g) \/ g \in excused'
               \/ \E p \in Proc : pc'[p] = "save" /\ material'[p] = Set(g)
    <3>1. CASE durable = Set(g) \/ g \in excused
      BY <1>s, <3>1
    <3>2. ASSUME NEW p \in Proc, pc[p] = "save", material[p] = Set(g)
          PROVE  \/ g \in excused'
                 \/ \E q \in Proc : pc'[q] = "save" /\ material'[q] = Set(g)
      <4>1. material[p]["leaf"] = g
        BY <1>g, <3>2 DEF Set
      <4>2. QED
        BY <1>s, <3>2, <4>1
    <3>3. QED
      BY <2>1, <3>1, <3>2 DEF SyncInv
  <2>2. QED
    BY <1>s, <2>1 DEF SyncInv
<1>1. ASSUME NEW p \in Proc, NEW place \in {"load", "unload"}, Start(p, place)
      PROVE  SyncInv'
  BY <1>1, <1>f, <1>s DEF Start, Goto, files
<1>2. ASSUME NEW p \in Proc, ClearFile(p)
      PROVE  SyncInv'
  <2>1. ClearOrder[at[p] + 1] \in File
    <3>1. at[p] + 1 \in 1 .. 3
      BY <1>2, <1>f DEF ClearFile
    <3>2. QED
      BY <3>1, OrderTypes
  <2>2. disk'[ClearOrder[at[p] + 1]] = 0 /\ issued' = issued
    BY <1>2, <1>f, <2>1 DEF ClearFile
  <2>3. ASSUME NEW g \in 1 .. issued'
        PROVE  disk' # Set(g)
    BY <1>f, <2>1, <2>2 DEF Set
  <2>4. QED
    BY <2>3 DEF SyncInv
<1>3. ASSUME NEW p \in Proc, SaveFile(p)
      PROVE  SyncInv'
  <2>1. SaveOrder[at[p] + 1] \in File
    <3>1. at[p] + 1 \in 1 .. 3
      BY <1>3, <1>f DEF SaveFile
    <3>2. QED
      BY <3>1, OrderTypes
  <2>2. material[p] = Set(issued) /\ pc[p] = "save"
    BY <1>3 DEF SaveFile, StageInv, Stage
  <2>3. disk'[SaveOrder[at[p] + 1]] = issued
    BY <1>3, <1>f, <2>1, <2>2 DEF SaveFile, Set
  <2>4. issued' = issued /\ pc' = pc /\ material' = material
    BY <1>3 DEF SaveFile
  <2>5. ASSUME NEW g \in 1 .. issued', disk' = Set(g)
        PROVE  pc'[p] = "save" /\ material'[p] = Set(g)
    <3>1. g = issued
      BY <2>1, <2>3, <2>5 DEF Set
    <3>2. QED
      BY <2>2, <2>4, <3>1
  <2>6. QED
    BY <2>5 DEF SyncInv
<1>4. ASSUME NEW p \in Proc, Saved(p)
      PROVE  SyncInv'
  BY <1>4 DEF Saved, SyncInv
<1>5. ASSUME NEW p \in Proc, Issue(p)
      PROVE  SyncInv'
  <2>1. /\ pc[p] = "load" /\ issued' = issued + 1 /\ excused \subseteq excused'
        /\ disk' = disk /\ durable' = durable
    BY <1>5 DEF Issue, files
  <2>2. ASSUME NEW q \in Proc
        PROVE  pc[q] # "save"
    BY <2>1, Alone
  <2>3. ASSUME NEW g \in 1 .. issued', disk = Set(g)
        PROVE  g \in 1 .. issued
    <3>1. disk["ca"] = g /\ disk["ca"] <= issued
      BY <1>g, <2>3 DEF Set, AgeInv
    <3>2. QED
      BY <1>f, <2>1, <2>3, <3>1
  <2>4. QED
    BY <2>1, <2>2, <2>3 DEF SyncInv
<1>6. ASSUME NEW p \in Proc,
             \/ Load(p) \/ SaveNext(p) \/ TrustFound(p) \/ TrustInstalled(p)
             \/ TrustDeclined(p) \/ RemoveTrust(p) \/ RemoveNothing(p) \/ Report(p)
      PROVE  SyncInv'
  <2>1. pc[p] \notin {"idle", "save"}
    BY <1>6 DEF Load, SaveNext, TrustFound, TrustInstalled, TrustDeclined, RemoveTrust,
                RemoveNothing, Report
  <2>2. UNCHANGED <<disk, durable, issued>> /\ excused \subseteq excused'
    BY <1>6 DEF Load, SaveNext, TrustFound, TrustInstalled, TrustDeclined, Serve,
                RemoveTrust, RemoveNothing, Report, files
  <2>3. ASSUME NEW q \in Proc
        PROVE  pc[q] # "save"
    BY <2>1, Alone
  <2>4. QED
    BY <1>s, <2>2, <2>3
<1>7. ASSUME NEW p \in Proc, Exit(p)
      PROVE  SyncInv'
  <2>1. /\ UNCHANGED <<disk, durable, issued>> /\ excused \subseteq excused'
        /\ pc[p] = "save" => material[p]["leaf"] \in excused'
        /\ pc[p] # "idle"
    BY <1>7 DEF Exit, files
  <2>2. ASSUME NEW q \in Proc, pc[q] = "save"
        PROVE  material[q]["leaf"] \in excused'
    <3>1. q = p
      BY <2>1, <2>2, Alone
    <3>2. QED
      BY <2>1, <2>2, <3>1
  <2>3. QED
    BY <1>s, <2>1, <2>2
<1>8. ASSUME PowerLoss
      PROVE  SyncInv'
  BY <1>8 DEF PowerLoss, SyncInv
<1>9. ASSUME Ages \/ Loosened \/ UNCHANGED vars
      PROVE  SyncInv'
  BY <1>9 DEF Ages, Loosened, vars, files, SyncInv
<1>10. QED
  BY <1>1, <1>2, <1>3, <1>4, <1>5, <1>6, <1>7, <1>8, <1>9, Steps DEF Works

-----------------------------------------------------------------------------
(* What was served stays. *)

LEMMA SurviveKept ==
  ASSUME TypeOK, LockInv, StageInv, SyncInv, SurviveInv, [Next]_vars
  PROVE  SurviveInv'
<1>f. /\ pc \in [Proc -> Place] /\ disk \in [File -> Gen]
      /\ served \in SUBSET (1 .. MaxGen)
  BY DEF TypeOK
<1>g. /\ "ca" \in File /\ "leaf" \in File /\ "key" \in File
      /\ \A g : \A f \in File : Set(g)[f] = g
  BY DEF File, Set
<1>s. ASSUME UNCHANGED <<disk, durable, served>>, Unfit \subseteq Unfit',
             \A p \in Proc : pc'[p] \in {"clear", "save", "wipe"} => pc'[p] = pc[p]
      PROVE  SurviveInv'
  BY <1>s DEF SurviveInv
<1>v. ASSUME served' = served,
             \A h \in served \ Unfit : h \in Unfit'
      PROVE  Unfit \subseteq Unfit' => SurviveInv'
  BY <1>v DEF SurviveInv
<1>1. ASSUME NEW p \in Proc, NEW place \in {"load", "unload"}, Start(p, place)
      PROVE  SurviveInv'
  BY <1>1, <1>f, <1>s DEF Start, Goto, files, world, Unfit
<1>2. ASSUME NEW p \in Proc, Load(p)
      PROVE  SurviveInv'
  BY <1>2, <1>f, <1>s DEF Load, Goto, files, world, Unfit
<1>3. ASSUME NEW p \in Proc, Issue(p)
      PROVE  SurviveInv'
  <2>1. served' = served /\ stale' = stale /\ loose' = loose /\ excused \subseteq excused'
    BY <1>3 DEF Issue, world
  <2>2. ASSUME NEW h \in served \ Unfit
        PROVE  h \in Unfit'
    <3>1. disk = Set(h)
      BY DEF SurviveInv
    <3>2. disk["ca"] = h /\ \A f \in File : disk[f] = h
      BY <1>g, <3>1
    <3>3. h # 0 /\ h \notin stale /\ h \notin loose
      BY <1>f DEF Unfit
    <3>4. Loadable /\ Valid(disk)
      BY <1>g, <3>2, <3>3 DEF Loadable, Valid
    <3>5. QED
      BY <1>3, <3>2, <3>4 DEF Issue, Unfit
  <2>3. QED
    BY <1>v, <2>1, <2>2 DEF Unfit
<1>4. ASSUME NEW p \in Proc,
             ClearFile(p) \/ SaveNext(p) \/ SaveFile(p) \/ Saved(p) \/ Report(p)
      PROVE  SurviveInv'
  <2>1. pc[p] \in {"clear", "save", "wipe"}
    BY <1>4 DEF ClearFile, SaveNext, SaveFile, Saved, Report
  <2>2. served \ Unfit = {}
    BY <2>1 DEF SurviveInv
  <2>3. served' = served /\ Unfit' = Unfit
    BY <1>4 DEF ClearFile, SaveNext, SaveFile, Saved, Report, world, Unfit
  <2>4. QED
    BY <2>2, <2>3 DEF SurviveInv
<1>5. ASSUME NEW p \in Proc, TrustFound(p) \/ TrustInstalled(p) \/ TrustDeclined(p)
      PROVE  SurviveInv'
  <2>1. /\ pc[p] = "trust" /\ pc' = [pc EXCEPT ![p] = "serving"]
        /\ served' = served \cup {material[p]["leaf"]}
        /\ UNCHANGED <<disk, durable, excused>> /\ Unfit' = Unfit
    BY <1>5 DEF TrustFound, TrustInstalled, TrustDeclined, Serve, Goto, files, world, Unfit
  <2>2. PICK g \in 1 .. issued : material[p] = Set(g) /\ disk = Set(g)
    BY <2>1 DEF StageInv, Stage
  <2>3. material[p]["leaf"] = g
    BY <1>g, <2>2
  <2>4. ASSUME NEW q \in Proc
        PROVE  pc[q] \notin {"clear", "save", "wipe"}
               /\ pc'[q] \notin {"clear", "save", "wipe"}
    BY <1>f, <2>1, Alone
  <2>5. durable = Set(g) \/ g \in excused
    BY <2>2, <2>4 DEF SyncInv
  <2>6. QED
    BY <2>1, <2>2, <2>3, <2>4, <2>5 DEF SurviveInv, Unfit
<1>6. ASSUME NEW p \in Proc, RemoveTrust(p) \/ RemoveNothing(p)
      PROVE  SurviveInv'
  <2>1. served' = served /\ stale' = stale /\ loose' = loose
        /\ excused \cup {disk["ca"]} \subseteq excused'
    BY <1>6, <1>g DEF RemoveTrust, RemoveNothing, world
  <2>2. ASSUME NEW h \in served \ Unfit
        PROVE  h \in Unfit'
    <3>1. disk["ca"] = h
      BY <1>g DEF SurviveInv
    <3>2. QED
      BY <2>1, <3>1 DEF Unfit
  <2>3. QED
    BY <1>v, <2>1, <2>2 DEF Unfit
<1>7. ASSUME NEW p \in Proc, Exit(p)
      PROVE  SurviveInv'
  BY <1>7, <1>f, <1>s DEF Exit, Goto, files, world, Unfit
<1>8. ASSUME PowerLoss
      PROVE  SurviveInv'
  <2>1. PICK left \in [File -> Gen] :
          /\ \A f \in File : left[f] \in {durable[f], disk[f]}
          /\ disk' = left /\ durable' = left
    BY <1>8 DEF PowerLoss
  <2>2. served' = served /\ Unfit' = Unfit /\ \A q \in Proc : pc'[q] = "idle"
    BY <1>8 DEF PowerLoss, world, Unfit
  <2>3. ASSUME NEW h \in served \ Unfit
        PROVE  left = Set(h)
    <3>1. disk = Set(h) /\ durable = Set(h)
      BY DEF SurviveInv
    <3>2. \A f \in File : left[f] = h
      BY <1>g, <2>1, <3>1
    <3>3. QED
      BY <1>g, <2>1, <3>2, Whole
  <2>4. QED
    BY <2>1, <2>2, <2>3 DEF SurviveInv
<1>9. ASSUME Ages \/ Loosened \/ UNCHANGED vars
      PROVE  SurviveInv'
  BY <1>9, <1>s DEF Ages, Loosened, vars, files, Unfit
<1>10. QED
  BY <1>1, <1>2, <1>3, <1>4, <1>5, <1>6, <1>7, <1>8, <1>9, Steps DEF Works

(* Whoever removes an anchor is alone, so no server relies on it. *)
LEMMA TrustKept ==
  ASSUME TypeOK, LockInv, TrustModeIsTrue, [Next]_vars
  PROVE  TrustModeIsTrue'
<1>f. /\ pc \in [Proc -> Place] /\ material \in [Proc -> [File -> Gen]]
      /\ mode \in [Proc -> {"Installed", "Declined"}]
  BY DEF TypeOK
<1>1. ASSUME NEW p \in Proc, Works(p), trusted \subseteq trusted',
             \A q \in Proc \ {p} : material'[q] = material[q] /\ mode'[q] = mode[q],
             pc'[p] # "serving"
      PROVE  TrustModeIsTrue'
  BY <1>1, WorksFacts DEF TrustModeIsTrue
<1>2. ASSUME NEW p \in Proc, NEW place \in {"load", "unload"}, Start(p, place)
      PROVE  TrustModeIsTrue'
  BY <1>2, <1>f DEF Start, Goto, TrustModeIsTrue
<1>3. ASSUME NEW p \in Proc, Load(p) \/ Issue(p) \/ ClearFile(p) \/ SaveNext(p)
                             \/ SaveFile(p) \/ Saved(p) \/ RemoveNothing(p) \/ Report(p)
      PROVE  TrustModeIsTrue'
  <2>1. pc'[p] # "serving" /\ trusted' = trusted
    BY <1>3, <1>f DEF Load, Issue, ClearFile, SaveNext, SaveFile, Saved, RemoveNothing,
                      Report, Goto
  <2>2. \A q \in Proc \ {p} : material'[q] = material[q] /\ mode'[q] = mode[q]
    BY <1>3, <1>f DEF Load, Issue, ClearFile, SaveNext, SaveFile, Saved, RemoveNothing,
                      Report
  <2>3. QED
    BY <1>1, <1>3, <2>1, <2>2 DEF Works
<1>4. ASSUME NEW p \in Proc, TrustFound(p) \/ TrustInstalled(p) \/ TrustDeclined(p)
      PROVE  TrustModeIsTrue'
  <2>1. /\ pc[p] = "trust" /\ material' = material /\ trusted \subseteq trusted'
        /\ mode'[p] = "Installed" => material[p]["ca"] \in trusted'
        /\ pc' = [pc EXCEPT ![p] = "serving"]
    BY <1>4, <1>f DEF TrustFound, TrustInstalled, TrustDeclined, Serve, Goto
  <2>2. ASSUME NEW q \in Proc, pc'[q] = "serving"
        PROVE  q = p
    BY <1>f, <2>1, <2>2, Alone
  <2>3. QED
    BY <2>1, <2>2 DEF TrustModeIsTrue
<1>5. ASSUME NEW p \in Proc, RemoveTrust(p)
      PROVE  TrustModeIsTrue'
  <2>1. pc[p] = "unload" /\ pc' = [pc EXCEPT ![p] = "wipe"]
    BY <1>5 DEF RemoveTrust, Goto
  <2>2. ASSUME NEW q \in Proc
        PROVE  pc'[q] # "serving"
    BY <1>f, <2>1, Alone
  <2>3. QED
    BY <2>2 DEF TrustModeIsTrue
<1>6. ASSUME NEW p \in Proc, Exit(p)
      PROVE  TrustModeIsTrue'
  BY <1>6, <1>f DEF Exit, Goto, TrustModeIsTrue
<1>7. ASSUME PowerLoss \/ Ages \/ Loosened \/ UNCHANGED vars
      PROVE  TrustModeIsTrue'
  BY <1>7 DEF PowerLoss, Ages, Loosened, vars, TrustModeIsTrue
<1>8. QED
  BY <1>2, <1>3, <1>4, <1>5, <1>6, <1>7, Steps DEF Works

-----------------------------------------------------------------------------
(* The invariant and what follows from it. *)

LEMMA InvInitially == Init => IInv
<1> SUFFICES ASSUME Init
             PROVE  IInv
  OBVIOUS
<1>1. TypeOK
  BY TypesInitially
<1>2. LockInv /\ StageInv /\ SyncInv /\ SurviveInv /\ TrustModeIsTrue
  BY DEF Init, LockInv, StageInv, Stage, SyncInv, SurviveInv, TrustModeIsTrue
<1>3. AgeInv
  BY DEF Init, AgeInv, Nothing
<1>4. QED
  BY <1>1, <1>2, <1>3 DEF IInv

LEMMA InvKept == IInv /\ [Next]_vars => IInv'
BY TypesKept, LockKept, StageKept, SyncKept, SurviveKept, TrustKept DEF IInv

(* Every reachable state satisfies the inductive invariant. *)
THEOREM Inductive == Spec => []IInv
BY InvInitially, InvKept, PTL DEF Spec

(* Types are kept: in particular only generations that were issued are     *)
(* ever served or trusted, never a store with a file missing.              *)
THEOREM TypeCorrect == Spec => []TypeOK
<1>1. IInv => TypeOK
  BY DEF IInv
<1>2. QED
  BY <1>1, Inductive, PTL

(* What a server presents is what is on disk, whole and durable, as long   *)
(* as it runs, whatever the other launches do (lock.rs, leaf_store.rs).    *)
THEOREM StoreHeld == Spec => []ServedIsStored
<1>1. IInv => ServedIsStored
  <2> SUFFICES ASSUME IInv, NEW p \in Proc, pc[p] = "serving"
               PROVE  /\ material[p] = Set(material[p]["leaf"])
                      /\ material[p]["leaf"] # 0
                      /\ disk = material[p]
                      /\ durable = material[p] \/ material[p]["leaf"] \in excused
    BY DEF ServedIsStored
  <2>1. PICK g \in 1 .. issued : material[p] = Set(g) /\ disk = Set(g)
    BY DEF IInv, StageInv, Stage
  <2>2. material[p]["leaf"] = g
    BY <2>1 DEF Set, File
  <2>3. ASSUME NEW q \in Proc
        PROVE  pc[q] # "save"
    BY Alone DEF IInv
  <2>4. durable = Set(g) \/ g \in excused
    BY <2>1, <2>3 DEF IInv, SyncInv
  <2>5. QED
    BY <2>1, <2>2, <2>4
<1>2. QED
  BY <1>1, Inductive, PTL

(* A certificate that was served is served again by every later launch     *)
(* until it is stale, loosened or excused, across crashes and losses of    *)
(* power (load_or_issue, FileLeafStore::save).                             *)
THEOREM Survival == Spec => []ServedSurvives
<1>1. IInv => ServedSurvives
  <2> SUFFICES ASSUME IInv, NEW p \in Proc, pc[p] = "serving",
                      NEW h \in served \ Unfit
               PROVE  h = material[p]["leaf"]
    BY DEF ServedSurvives, Unfit
  <2>1. PICK g \in 1 .. issued : material[p] = Set(g) /\ disk = Set(g)
    BY DEF IInv, StageInv, Stage
  <2>2. disk = Set(h)
    BY DEF IInv, SurviveInv
  <2>3. \A x : Set(x)["leaf"] = x
    BY DEF Set, File
  <2>4. QED
    BY <2>1, <2>2, <2>3
<1>2. QED
  BY <1>1, Inductive, PTL

(* A server's trust mode is true while it runs, whatever a removal in       *)
(* another process does meanwhile (establish_trust).                       *)
THEOREM TrustIsTrue == Spec => []TrustModeIsTrue
<1>1. IInv => TrustModeIsTrue
  BY DEF IInv
<1>2. QED
  BY <1>1, Inductive, PTL

(* A reported removal has emptied the store (trust_remove).                *)
THEOREM Reports == Spec => []ReportedMeansCleared
<1>1. IInv => ReportedMeansCleared
  BY DEF IInv, StageInv, Stage, ReportedMeansCleared
<1>2. QED
  BY <1>1, Inductive, PTL
=============================================================================
