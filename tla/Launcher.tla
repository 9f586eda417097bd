------------------------------ MODULE Launcher ------------------------------
(***************************************************************************)
(* The launcher pfp: `serve` and `trust remove` (crates/pfp-app/src/       *)
(* launch.rs), the single-instance lock (lock.rs) and the certificate      *)
(* store on disk (leaf_store.rs), with processes that crash anywhere and a *)
(* machine that loses power.                                               *)
(*                                                                         *)
(* A generation is one call of `issue`: a CA, the one leaf it signed and   *)
(* the leaf's key.  The CA key is thrown away, so leaf g verifies only     *)
(* under CA g, and only key g matches leaf g.  Generations are numbered,   *)
(* and a file's content is the generation it belongs to, 0 when it is not  *)
(* there.                                                                  *)
(*                                                                         *)
(* A command that finds the lock taken exits and changes nothing; so does  *)
(* `trust remove` without --install-trust.  Neither is a step.             *)
(***************************************************************************)
EXTENDS Integers, FiniteSets

CONSTANTS
  Proc,          \* processes of the launcher
  MaxGen         \* bound: generations issued

ASSUME LauncherAssumption == MaxGen \in Nat

VARIABLES
  lock,          \* who holds the flock on pfp.lock: a set, empty or one process
  pc,            \* pc[p]: where p is in serve or in trust_remove
  at,            \* at[p]: files already removed or written by clear or save
  material,      \* material[p]: the TlsMaterial p loaded or issued
  mode,          \* mode[p]: p's TrustMode
  disk,          \* what is at each name under <state-dir>/tls
  durable,       \* what a loss of power would leave there
  issued,        \* generations issued so far
  stale,         \* generations with fewer than REISSUE_WHEN_DAYS_LEFT
  loose,         \* generations whose key file is not at mode 0600
  trusted,       \* anchors in the user's trust settings
  served,        \* history: generations a server has presented
  excused        \* history: generations a failed read or trust remove met, or
                 \* whose save was cut off before it was durable

files == <<disk, durable>>
world == <<stale, loose>>
vars == <<lock, pc, at, material, mode, disk, durable, issued, stale, loose,
          trusted, served, excused>>

File == {"ca", "leaf", "key"}
Gen == 0 .. MaxGen
Nothing == [f \in File |-> 0]
Set(g) == [f \in File |-> g]

SaveOrder == <<"ca", "leaf", "key">>
ClearOrder == <<"key", "leaf", "ca">>

\* mutant: the key is not compared with the leaf
ValidAnyKey(m) == m["leaf"] = m["ca"] /\ m["leaf"] \notin stale

(* TlsMaterial::validate: the key matches the leaf, the leaf verifies      *)
(* under the CA, and will 30 days from now.                                *)
Valid(m) == m["key"] = m["leaf"] /\ m["leaf"] = m["ca"] /\ m["leaf"] \notin stale

(* FileLeafStore::load returns the material: the three files are there and *)
(* the key is readable by this user only.                                  *)
Loadable == 0 \notin {disk[f] : f \in File} /\ disk["key"] \notin loose

Goto(p, place) == pc' = [pc EXCEPT ![p] = place] /\ at' = [at EXCEPT ![p] = 0]

-----------------------------------------------------------------------------
Init ==
  /\ lock = {}
  /\ pc = [p \in Proc |-> "idle"]
  /\ at = [p \in Proc |-> 0]
  /\ material = [p \in Proc |-> Nothing]
  /\ mode = [p \in Proc |-> "Declined"]
  /\ disk = Nothing
  /\ durable = Nothing
  /\ issued = 0
  /\ stale = {}
  /\ loose = {}
  /\ trusted = {}
  /\ served = {}
  /\ excused = {}

\* mutant: the lock is not exclusive
StartShared(p, place) ==
  /\ pc[p] = "idle"
  /\ lock' = lock \cup {p}
  /\ Goto(p, place)
  /\ UNCHANGED <<material, mode, files, issued, world, trusted, served, excused>>

(* state::prepare and SingleInstance::acquire succeed: `serve` goes on to  *)
(* load_or_issue, `trust remove` to the stored material.                   *)
Start(p, place) ==
  /\ pc[p] = "idle"
  /\ lock = {}
  /\ lock' = {p}
  /\ Goto(p, place)
  /\ UNCHANGED <<material, mode, files, issued, world, trusted, served, excused>>

(* load_or_issue: the stored material is still good. *)
Load(p) ==
  /\ pc[p] = "load"
  /\ Loadable /\ Valid(disk)
  /\ material' = [material EXCEPT ![p] = disk]
  /\ Goto(p, "trust")
  /\ UNCHANGED <<lock, mode, files, issued, world, trusted, served, excused>>

(* load_or_issue: it is not, or could not be read; a new generation is     *)
(* issued to replace it.                                                   *)
Issue(p) ==
  /\ pc[p] = "load"
  /\ issued < MaxGen
  /\ issued' = issued + 1
  /\ excused' = IF Loadable /\ Valid(disk) THEN excused \cup {disk["ca"]} ELSE excused
  /\ material' = [material EXCEPT ![p] = Set(issued + 1)]
  /\ Goto(p, "clear")
  /\ UNCHANGED <<lock, mode, files, world, trusted, served>>

(* FileLeafStore::clear: the files go one by one. *)
ClearFile(p) ==
  /\ pc[p] \in {"clear", "wipe"} /\ at[p] < 3
  /\ disk' = [disk EXCEPT ![ClearOrder[at[p] + 1]] = 0]
  /\ at' = [at EXCEPT ![p] = @ + 1]
  /\ UNCHANGED <<lock, pc, material, mode, durable, issued, world, trusted, served,
                 excused>>

(* load_or_issue ignores how clear ended. *)
SaveNext(p) ==
  /\ pc[p] = "clear"
  /\ Goto(p, "save")
  /\ UNCHANGED <<lock, material, mode, files, issued, world, trusted, served,
                 excused>>

(* FileLeafStore::save: each file is written aside, synced and renamed. *)
SaveFile(p) ==
  /\ pc[p] = "save" /\ at[p] < 3
  /\ LET f == SaveOrder[at[p] + 1]
     IN  disk' = [disk EXCEPT ![f] = material[p][f]]
  /\ at' = [at EXCEPT ![p] = @ + 1]
  /\ UNCHANGED <<lock, pc, material, mode, durable, issued, world, trusted, served,
                 excused>>

\* mutant: the directory is not synced
SavedUnsynced(p) ==
  /\ pc[p] = "save" /\ at[p] = 3
  /\ Goto(p, "trust")
  /\ UNCHANGED <<lock, material, mode, files, issued, world, trusted, served,
                 excused>>

(* The sync of the directory makes the renames durable. *)
Saved(p) ==
  /\ pc[p] = "save" /\ at[p] = 3
  /\ durable' = disk
  /\ Goto(p, "trust")
  /\ UNCHANGED <<lock, material, mode, disk, issued, world, trusted, served,
                 excused>>

Serve(p, trust_mode) ==
  /\ mode' = [mode EXCEPT ![p] = trust_mode]
  /\ served' = served \cup {material[p]["leaf"]}
  /\ Goto(p, "serving")
  /\ UNCHANGED <<lock, material, files, issued, world, excused>>

(* establish_trust: already trusted, and not asked to keep off it. *)
TrustFound(p) ==
  /\ pc[p] = "trust"
  /\ material[p]["ca"] \in trusted
  /\ UNCHANGED trusted
  /\ Serve(p, "Installed")

(* establish_trust: --install-trust, and both the user and the system      *)
(* agree.                                                                  *)
TrustInstalled(p) ==
  /\ pc[p] = "trust"
  /\ material[p]["ca"] \notin trusted
  /\ trusted' = trusted \cup {material[p]["ca"]}
  /\ Serve(p, "Installed")

(* establish_trust: --no-trust, a status that cannot be read, not trusted  *)
(* and not asked to install, or an installation that did not happen.       *)
TrustDeclined(p) ==
  /\ pc[p] = "trust"
  /\ UNCHANGED trusted
  /\ Serve(p, "Declined")

-----------------------------------------------------------------------------
(* trust_remove, after the lock. *)

(* The stored material loads: its anchor is removed. *)
RemoveTrust(p) ==
  /\ pc[p] = "unload"
  /\ Loadable
  /\ trusted' = trusted \ {disk["ca"]}
  /\ excused' = excused \cup {disk["ca"]}
  /\ Goto(p, "wipe")
  /\ UNCHANGED <<lock, material, mode, files, issued, world, served>>

(* It does not, or the read fails: there is no anchor to remove. *)
RemoveNothing(p) ==
  /\ pc[p] = "unload"
  /\ excused' = excused \cup {disk[f] : f \in File}
  /\ Goto(p, "wipe")
  /\ UNCHANGED <<lock, material, mode, files, issued, world, trusted, served>>

\* mutant: success is reported however clear ended
ReportAnyway(p) ==
  /\ pc[p] = "wipe"
  /\ Goto(p, "told")
  /\ UNCHANGED <<lock, material, mode, files, issued, world, trusted, served,
                 excused>>

(* "The local certificate and its trust setting were removed." *)
Report(p) ==
  /\ pc[p] = "wipe" /\ at[p] = 3
  /\ Goto(p, "told")
  /\ UNCHANGED <<lock, material, mode, files, issued, world, trusted, served,
                 excused>>

-----------------------------------------------------------------------------
(* A process ends: an error is returned, the server is stopped, the        *)
(* removal is done, or it is killed.  The lock goes with it, the files     *)
(* stay as they are.                                                       *)
Exit(p) ==
  /\ pc[p] # "idle"
  /\ lock' = lock \ {p}
  /\ Goto(p, "idle")
  /\ material' = [material EXCEPT ![p] = Nothing]
  /\ mode' = [mode EXCEPT ![p] = "Declined"]
  /\ excused' = IF pc[p] = "save" THEN excused \cup {material[p]["leaf"]} ELSE excused
  /\ UNCHANGED <<files, issued, world, trusted, served>>

(* Every process ends, and each name shows what was last made durable or   *)
(* what was there at the end.                                              *)
PowerLoss ==
  /\ \E left \in [File -> Gen] :
       /\ \A f \in File : left[f] \in {durable[f], disk[f]}
       /\ disk' = left
       /\ durable' = left
  /\ lock' = {}
  /\ pc' = [p \in Proc |-> "idle"]
  /\ at' = [p \in Proc |-> 0]
  /\ material' = [p \in Proc |-> Nothing]
  /\ mode' = [p \in Proc |-> "Declined"]
  /\ UNCHANGED <<issued, world, trusted, served, excused>>

(* Time passes: a leaf comes within 30 days of its end. *)
Ages ==
  /\ \E g \in 1 .. issued : stale' = stale \cup {g}
  /\ UNCHANGED <<lock, pc, at, material, mode, files, issued, loose, trusted, served,
                 excused>>

(* Someone changes the mode of the key file. *)
Loosened ==
  /\ disk["key"] # 0
  /\ loose' = loose \cup {disk["key"]}
  /\ UNCHANGED <<lock, pc, at, material, mode, files, issued, stale, trusted, served,
                 excused>>

ServeStep(p) ==
  \/ Start(p, "load")
  \/ Load(p)
  \/ Issue(p)
  \/ ClearFile(p)
  \/ SaveNext(p)
  \/ SaveFile(p)
  \/ Saved(p)
  \/ TrustFound(p)
  \/ TrustInstalled(p)
  \/ TrustDeclined(p)

RemoveStep(p) ==
  \/ Start(p, "unload")
  \/ RemoveTrust(p)
  \/ RemoveNothing(p)
  \/ Report(p)

Next ==
  \/ \E p \in Proc : ServeStep(p) \/ RemoveStep(p) \/ Exit(p)
  \/ PowerLoss
  \/ Ages
  \/ Loosened

Spec == Init /\ [][Next]_vars

-----------------------------------------------------------------------------
(* Properties. *)

Place == {"idle", "load", "clear", "save", "trust", "serving", "unload", "wipe",
          "told"}

(* The type invariant. *)
TypeOK ==
  /\ lock \in SUBSET Proc
  /\ pc \in [Proc -> Place]
  /\ at \in [Proc -> 0 .. 3]
  /\ material \in [Proc -> [File -> Gen]]
  /\ mode \in [Proc -> {"Installed", "Declined"}]
  /\ disk \in [File -> Gen]
  /\ durable \in [File -> Gen]
  /\ issued \in Gen
  /\ stale \in SUBSET (1 .. MaxGen)
  /\ loose \in SUBSET (1 .. MaxGen)
  /\ trusted \in SUBSET (1 .. MaxGen)
  /\ served \in SUBSET (1 .. MaxGen)
  /\ excused \in SUBSET Gen

(* The certificate on disk is the one being presented, whole, as long as   *)
(* the server runs: neither a second launch nor a `trust remove` gets at   *)
(* it (launch.rs:3-4, 296-298).  It also survives a loss of power, unless  *)
(* the process that saved it was cut off between its last rename and the   *)
(* sync of the directory: the next launch finds it good and does not sync. *)
ServedIsStored ==
  \A p \in Proc : pc[p] = "serving" =>
    /\ material[p] = Set(material[p]["leaf"]) /\ material[p]["leaf"] # 0
    /\ disk = material[p]
    /\ durable = material[p] \/ material[p]["leaf"] \in excused

(* What a server says of its trust is so while it runs. *)
TrustModeIsTrue ==
  \A p \in Proc : pc[p] = "serving" /\ mode[p] = "Installed" =>
    material[p]["ca"] \in trusted

(* A certificate that has been served is served again by every later       *)
(* launch, whatever crashed in between, until it nears its end, its key is *)
(* readable by others, or it is excused: a read of it failed, `trust       *)
(* remove` met it, or its save was cut off before the sync.  The anchor    *)
(* the user was asked to trust lasts as long (launch.rs:7-8).              *)
ServedSurvives ==
  \A p \in Proc : pc[p] = "serving" =>
    served \ {material[p]["leaf"]} \subseteq stale \cup loose \cup excused

(* When `trust remove` reports success, no file of the store is left: a    *)
(* crash or a failure part of the way is never reported as success.        *)
ReportedMeansCleared == \A p \in Proc : pc[p] = "told" => disk = Nothing

-----------------------------------------------------------------------------
(* The inductive invariant behind the safety properties. *)

Unfit == stale \cup loose \cup excused

(* The lock covers a command from its first look at the store to its end.  *)
LockInv == \A p \in Proc : pc[p] # "idle" => lock = {p}

(* How far the store is from empty, or from what p is saving.              *)
Stage(p) ==
  /\ pc[p] = "wipe" => \A i \in 1 .. at[p] : disk[ClearOrder[i]] = 0
  /\ pc[p] = "told" => disk = Nothing
  /\ pc[p] \in {"clear", "save"} => issued > 0 /\ material[p] = Set(issued)
  /\ pc[p] = "save" => \A i \in 1 .. at[p] : disk[SaveOrder[i]] = issued
  /\ pc[p] \in {"trust", "serving"} =>
       \E g \in 1 .. issued : material[p] = Set(g) /\ disk = Set(g)

StageInv == \A p \in Proc : Stage(p)

(* A whole generation on disk is durable, excused or being saved.          *)
SyncInv ==
  \A g \in 1 .. issued : disk = Set(g) =>
    \/ durable = Set(g)
    \/ g \in excused
    \/ \E p \in Proc : pc[p] = "save" /\ material[p] = Set(g)

(* A certificate that was served and is still fit is the one on disk, and  *)
(* nobody is about to replace it.                                          *)
SurviveInv ==
  \A h \in served \ Unfit :
    /\ disk = Set(h) /\ durable = Set(h)
    /\ \A p \in Proc : pc[p] \notin {"clear", "save", "wipe"}

(* Nothing is newer than the last generation issued.                       *)
AgeInv == \A f \in File : disk[f] <= issued /\ durable[f] <= issued

IInv ==
  /\ TypeOK /\ LockInv /\ StageInv /\ SyncInv /\ SurviveInv /\ AgeInv
  /\ TrustModeIsTrue
=============================================================================
