---------------------------- MODULE ReleaseProofs ----------------------------
(* What a list of checksums vouches for, what a slice embeds and what the    *)
(* licence assertion passes, for any targets, any versions of the sources,   *)
(* any packages and licences, any number of runs, and whatever stopped them. *)
EXTENDS Release, FiniteSetTheorems, SequenceTheorems, WellFoundedInduction, TLAPS

Arch == Range(MacTargets)
Content == Version \cup {Absent}
Slice == [arch : Arch, rust : Version, web : Version, bundle : Content, edited : BOOLEAN]
Part == [arch : Arch, rust : Version, bundle : Content]

(* Where dist may be, from its start to the sums, and the part of it before  *)
(* and after the slices are looked at.                                       *)
Preparing == {"report", "npm", "empty", "emit", "stamp", "tree"}
Signed == {"app", "bare", "bare.tgz", "app.tgz", "readback", "magic", "manifest",
           "sums", "sumlines", "done"}
Checked == {"sign"} \cup Signed
Slicing == {"build", "check"}
Running == {"list", "clear"} \cup Slicing \cup Checked

Dist == [there : BOOLEAN, index : Content, stamp : Content, edited : BOOLEAN]
Job == [goal : {"none", "dist", "build-web", "validation-report"},
        targets : {<<>>} \cup Builds, epoch : {0} \cup Epoch, listing : Content,
        todo : Seq(Arch), slices : SUBSET Slice,
        exe : [slices : SUBSET Part, signed : BOOLEAN]]

TypeInv ==
  /\ rust \in Version /\ web \in Version /\ DOMAIN out = Label
  /\ dist \in Dist /\ job \in Job
  /\ pc \in {"idle"} \cup Preparing \cup Running
  /\ pc \in Running \/ (pc \in Preparing /\ job.goal = "dist") => job.targets \in Builds

(* A stamp vouches for the sources vite read, or web/ was edited meanwhile.  *)
StampInv ==
  /\ dist.stamp # Absent => dist.stamp = dist.index \/ dist.edited
  /\ pc \in {"empty", "emit"} => job.listing = web \/ dist.edited
  /\ pc = "stamp" => dist.index = web \/ dist.edited
  /\ pc \in {"empty", "emit", "stamp"} => dist.stamp = Absent

(* The slices are those of this run, at most one for each target done, and   *)
(* all of the bundle that was listed.                                        *)
SlicesInv ==
  /\ pc \in {"clear", "build"} => dist.index = job.listing
  /\ pc \in {"idle", "list", "clear"} \cup Preparing => job.slices = {}
  /\ IsFiniteSet(job.slices)
  /\ pc \in Slicing => /\ Cardinality(job.slices) + Len(job.todo) <= Len(job.targets)
                       /\ \A s \in job.slices : s.bundle = job.listing

(* The executable: a slice for each target, of that bundle.                  *)
Whole(exe, label, listing) ==
  /\ Arches(exe) = label /\ Cardinality(exe.slices) = Cardinality(label)
  /\ \A s \in exe.slices : s.bundle = listing

ExeInv ==
  /\ pc \in Checked => Whole(job.exe, Here, job.listing)
  /\ pc \in Signed => job.exe.signed

(* The files of the label, stage by stage: none at first, no sums before     *)
(* the end, the signed copy, the archives, the manifest.                     *)
Said == [targets |-> Here, source_date_epoch |-> job.epoch,
         web_dist |-> job.listing, signed_sha256 |-> job.exe]

FilesInv ==
  /\ pc \in Slicing \cup {"sign"} => DOMAIN Files = {}
  /\ pc \in Signed \ {"sumlines", "done"} => "SHA256SUMS" \notin DOMAIN Files
  /\ pc \in Signed => "work" \in DOMAIN Files /\ Files["work"] = job.exe
  /\ pc \in {"app.tgz", "readback", "magic", "manifest", "sums", "sumlines"} =>
       "bare.tgz" \in DOMAIN Files
  /\ pc \in {"readback", "magic", "manifest", "sums", "sumlines"} => "app.tgz" \in DOMAIN Files
  /\ pc \in {"manifest", "sums", "sumlines"} => ~ ContainsMagic(job.exe)
  /\ pc \in {"sums", "sumlines"} =>
       "dist-manifest.json" \in DOMAIN Files /\ Files["dist-manifest.json"] = Said
  /\ pc = "sumlines" => Files["SHA256SUMS"] = NoFiles

(* What is staged is the signed executable beside its documents, and what is *)
(* packed is what was staged.                                                *)
Packed == {"readback", "magic", "manifest", "sums", "sumlines", "done"}
BareStream(exe, epoch) == TarGz(StagedBare(exe), <<BareName>>, epoch)
AppStream(exe, epoch) == TarGz(StagedApp(exe), <<AppName>>, epoch)
BareTarable(exe, epoch) == CanTarGz(StagedBare(exe), <<BareName>>, epoch)
AppTarable(exe, epoch) == CanTarGz(StagedApp(exe), <<AppName>>, epoch)

Packing(stage, files, exe, epoch) ==
  /\ stage \in Packed \cup {"bare", "bare.tgz", "app.tgz"} =>
       "app" \in DOMAIN files /\ files["app"] = StagedApp(exe)
  /\ stage \in Packed \cup {"bare.tgz", "app.tgz"} =>
       "bare" \in DOMAIN files /\ files["bare"] = StagedBare(exe)
  /\ stage \in Packed \cup {"app.tgz"} =>
       /\ "bare.tgz" \in DOMAIN files /\ files["bare.tgz"] = BareStream(exe, epoch)
       /\ BareTarable(exe, epoch)
  /\ stage \in Packed =>
       /\ "app.tgz" \in DOMAIN files /\ files["app.tgz"] = AppStream(exe, epoch)
       /\ AppTarable(exe, epoch)

PackedInv == Packing(pc, Files, job.exe, job.epoch)

IInv ==
  /\ TypeInv /\ StampInv /\ SlicesInv /\ ExeInv /\ FilesInv /\ PackedInv
  /\ FrontEndIsCurrent /\ ReleaseIsOne

-----------------------------------------------------------------------------
(* Sets of slices                                                            *)

LEMMA OneEach ==
  ASSUME NEW b \in Builds
  PROVE  /\ Len(b) \in Nat \ {0} /\ b \in Seq(Arch)
         /\ IsFiniteSet(Range(b)) /\ Cardinality(Range(b)) = Len(b)
<1>1. /\ b \in Seq(Arch) /\ b # <<>>
      /\ \A i, j \in 1 .. Len(b) : b[i] = b[j] => i = j
  BY ReleaseAssumption DEF Arch
<1>2. Len(b) \in Nat \ {0} /\ DOMAIN b = 1 .. Len(b)
  BY <1>1
<1>3. b \in [1 .. Len(b) -> Range(b)]
  BY <1>1, <1>2 DEF Range
<1>4. b \in Surjection(1 .. Len(b), Range(b)) /\ b \in Injection(1 .. Len(b), Range(b))
  <2>1. \A t \in Range(b) : \E i \in 1 .. Len(b) : b[i] = t
    BY <1>2 DEF Range
  <2> QED BY <1>1, <1>3, <2>1 DEF Surjection, Injection, IsInjective
<1>5. IsFiniteSet(1 .. Len(b)) /\ Cardinality(1 .. Len(b)) = Len(b)
  BY <1>2, FS_Interval
<1>6. IsFiniteSet(Range(b)) /\ Cardinality(Range(b)) = Cardinality(1 .. Len(b))
  BY <1>4, <1>5, FS_Surjection
<1> QED BY <1>1, <1>2, <1>5, <1>6

(* Two slices of one architecture would leave a target without one.          *)
LEMMA EmbeddedWhole ==
  ASSUME NEW S \in SUBSET Slice, IsFiniteSet(S), NEW label, IsFiniteSet(label),
         Cardinality(S) <= Cardinality(label), {s.arch : s \in S} = label,
         NEW listing, \A s \in S : s.bundle = listing
  PROVE  Whole([slices |-> {Embedded(s) : s \in S}, signed |-> FALSE], label, listing)
<1> DEFINE T == {Embedded(s) : s \in S}
           f == [s \in S |-> Embedded(s)]
           g == [t \in T |-> t.arch]
<1>1. f \in Surjection(S, T)
  BY DEF Surjection
<1>2. IsFiniteSet(T) /\ Cardinality(T) <= Cardinality(S)
  BY <1>1, FS_Surjection
<1>3. {t.arch : t \in T} = label /\ \A t \in T : t.bundle = listing
  <2>1. \A s \in S : Embedded(s).arch = s.arch /\ Embedded(s).bundle = listing
    BY DEF Embedded
  <2> QED BY <2>1
<1>4. g \in Surjection(T, label)
  <2> HIDE DEF T
  <2> QED BY <1>3 DEF Surjection
<1>5. Cardinality(label) <= Cardinality(T)
  BY <1>2, <1>4, FS_Surjection
<1>6. Cardinality(T) = Cardinality(label)
  BY <1>2, <1>5, FS_CardinalityType
<1> QED BY <1>3, <1>6 DEF Whole, Arches

-----------------------------------------------------------------------------
(* The initial state                                                         *)

LEMMA IdleIsAJob ==
  /\ Idle \in Job /\ Idle.goal = "none" /\ Idle.slices = {} /\ NoDist \in Dist
  /\ NoDist.stamp = Absent /\ NoDist.index = Absent /\ ~ NoDist.edited
<1>1. <<>> \in Seq(Arch) /\ {} \in SUBSET Slice /\ {} \in SUBSET Part
  OBVIOUS
<1>2. [slices |-> {}, signed |-> FALSE] \in [slices : SUBSET Part, signed : BOOLEAN]
  BY <1>1
<1> QED BY <1>1, <1>2 DEF Idle, Job, NoDist, Dist, Content

LEMMA Starts == Init => IInv
<1> SUFFICES ASSUME Init PROVE IInv
  OBVIOUS
<1>1. TypeInv
  BY IdleIsAJob DEF Init, TypeInv, Preparing, Running, Checked, Signed, Slicing
<1>2. StampInv /\ ExeInv /\ FrontEndIsCurrent
  BY IdleIsAJob DEF Init, StampInv, ExeInv, FrontEndIsCurrent, Checked, Signed
<1>3. SlicesInv
  BY FS_EmptySet, IdleIsAJob DEF Init, SlicesInv, Slicing
<1>4. FilesInv
  BY DEF Init, FilesInv, Slicing, Signed
<1>5. ReleaseIsOne
  BY DEF Init, ReleaseIsOne, Summed, NoFiles
<1>6. PackedInv
  BY DEF Init, PackedInv, Packing, Packed
<1> QED BY <1>1, <1>2, <1>3, <1>4, <1>5, <1>6 DEF IInv

-----------------------------------------------------------------------------
(* Types                                                                     *)

(* The fields of a command's variables, and the changes made to them.        *)
LEMMA Fields ==
  ASSUME NEW j \in Job
  PROVE  /\ j.targets \in {<<>>} \cup Builds /\ j.listing \in Content /\ j.todo \in Seq(Arch)
         /\ j.slices \in SUBSET Slice /\ j.exe.slices \in SUBSET Part
BY DEF Job

LEMMA StartTyped ==
  ASSUME NEW g \in {"dist", "build-web", "validation-report"},
         NEW b \in {<<>>} \cup Builds, NEW e \in {0} \cup Epoch, NEW first, Start(g, b, e, first)
  PROVE  job' \in Job /\ job'.goal = g /\ job'.targets = b /\ job'.slices = {}
<1> DEFINE j1 == [Idle EXCEPT !.goal = g]
           j2 == [j1 EXCEPT !.targets = b]
           j3 == [j2 EXCEPT !.epoch = e]
<1>1. j1 \in Job /\ j1.goal = g /\ j1.slices = {}
  BY IdleIsAJob DEF Job
<1> HIDE DEF j1
<1>2. j2 \in Job /\ j2.goal = g /\ j2.targets = b /\ j2.slices = {}
  BY <1>1 DEF Job
<1> HIDE DEF j2
<1>3. j3 \in Job /\ j3.goal = g /\ j3.targets = b /\ j3.slices = {}
  BY <1>2 DEF Job
<1>4. job' = j3
  BY DEF j1, j2, Start
<1> QED BY <1>3, <1>4

LEMMA ListTyped ==
  ASSUME TypeInv, NEW c \in Content, job' = [job EXCEPT !.listing = c]
  PROVE  /\ job' \in Job /\ job'.goal = job.goal /\ job'.targets = job.targets
         /\ job'.slices = job.slices /\ job'.exe = job.exe /\ job'.listing = c
BY DEF TypeInv, Job

LEMMA ClearedTyped ==
  ASSUME TypeInv, Cleared
  PROVE  /\ job' \in Job /\ job'.targets = job.targets /\ job'.listing = job.listing
         /\ job'.todo = job.targets /\ job'.slices = job.slices /\ job.targets \in Builds
<1>1. job.targets \in Builds /\ job.targets \in Seq(Arch)
  BY OneEach DEF TypeInv, Cleared, Running
<1>2. job' = [job EXCEPT !.todo = job.targets] /\ job \in Job
  BY DEF Cleared, TypeInv
<1> QED BY <1>1, <1>2 DEF Job

LEMMA BuildTyped ==
  ASSUME TypeInv, NEW arch \in Arch, Build(arch)
  PROVE  LET slice == [arch |-> arch, rust |-> rust, web |-> web,
                       bundle |-> dist.index, edited |-> dist.edited]
         IN  /\ job' \in Job /\ job'.targets = job.targets /\ job'.listing = job.listing
             /\ job'.todo = Tail(job.todo) /\ job'.slices = job.slices \cup {slice}
<1> DEFINE slice == [arch |-> arch, rust |-> rust, web |-> web,
                     bundle |-> dist.index, edited |-> dist.edited]
           rest == Tail(job.todo)
           made == [job EXCEPT !.todo = rest]
           S == job.slices \cup {slice}
<1>1. slice \in Slice
  <2>1. dist.index \in Content /\ dist.edited \in BOOLEAN
    BY DEF TypeInv, Dist
  <2> QED BY <2>1 DEF Slice, TypeInv
<1>2. rest \in Seq(Arch) /\ S \in SUBSET Slice /\ job \in Job
  <2>1. job \in Job /\ job.todo # <<>>
    BY DEF TypeInv, Build
  <2> QED BY <1>1, <2>1, Fields
<1>3. job' = [made EXCEPT !.slices = S]
  BY DEF Build
<1> HIDE DEF slice, rest, S
<1>4. made \in Job /\ made.targets = job.targets /\ made.listing = job.listing /\ made.todo = rest
  BY <1>2 DEF Job
<1> HIDE DEF made
<1>5. /\ job' \in Job /\ job'.targets = made.targets /\ job'.listing = made.listing
      /\ job'.todo = made.todo /\ job'.slices = S
  BY <1>2, <1>3, <1>4 DEF Job
<1> QED BY <1>4, <1>5 DEF rest, slice, S

LEMMA CheckTyped ==
  ASSUME TypeInv, CheckSlices
  PROVE  /\ job' \in Job /\ job'.targets = job.targets /\ job'.listing = job.listing
         /\ job'.slices = job.slices
         /\ job'.exe = [slices |-> {Embedded(s) : s \in job.slices}, signed |-> FALSE]
<1> DEFINE parts == {Embedded(s) : s \in job.slices}
           exe == [slices |-> parts, signed |-> FALSE]
<1>1. job \in Job /\ job' = [job EXCEPT !.exe = exe]
  BY DEF CheckSlices, TypeInv
<1>2. parts \in SUBSET Part
  <2>1. job.slices \in SUBSET Slice
    BY <1>1, Fields
  <2> QED BY <2>1 DEF Embedded, Slice, Part
<1> HIDE DEF parts
<1>3. exe \in [slices : SUBSET Part, signed : BOOLEAN]
  BY <1>2
<1> HIDE DEF exe
<1>4. /\ job' \in Job /\ job'.targets = job.targets /\ job'.listing = job.listing
      /\ job'.slices = job.slices /\ job'.exe = exe
  BY <1>1, <1>3 DEF Job
<1> QED BY <1>4 DEF exe, parts

LEMMA SignTyped ==
  ASSUME TypeInv, Sign
  PROVE  /\ job' \in Job /\ job'.targets = job.targets /\ job'.listing = job.listing
         /\ job'.exe = [job.exe EXCEPT !.signed = TRUE] /\ job'.exe.slices = job.exe.slices
         /\ job'.exe.signed /\ job'.slices = job.slices
<1>1. job \in Job /\ job' = [job EXCEPT !.exe.signed = TRUE]
  BY DEF Sign, TypeInv
<1> QED BY <1>1 DEF Job

(* What the steps of the front end do to its bundle.                         *)
LEMMA BundleTyped ==
  ASSUME TypeInv
  PROVE  /\ dist.index \in Content
         /\ ViteEmpties => dist' \in Dist /\ dist'.stamp = Absent
         /\ ViteEmptied => /\ dist' \in Dist /\ dist'.stamp = dist.stamp
                           /\ dist'.edited = dist.edited
         /\ ViteEmits => /\ dist' \in Dist /\ dist'.index = job.listing
                         /\ dist'.stamp = dist.stamp /\ dist'.edited = dist.edited
         /\ WriteStamp => /\ dist' \in Dist /\ dist'.index = dist.index /\ dist'.stamp = web
                          /\ dist'.edited = dist.edited
<1>1. dist \in Dist /\ job.listing \in Content /\ web \in Content
  BY Fields DEF TypeInv, Content
<1>2. dist.index \in Content
  BY <1>1 DEF Dist
<1>3. ASSUME ViteEmpties
      PROVE  dist' \in Dist /\ dist'.stamp = Absent
  <2>1. dist' = [dist EXCEPT !.stamp = Absent, !.edited = FALSE]
    BY <1>3 DEF ViteEmpties
  <2> QED BY <1>1, <2>1 DEF Dist, Content
<1>4. ASSUME ViteEmits
      PROVE  /\ dist' \in Dist /\ dist'.index = job.listing
             /\ dist'.stamp = dist.stamp /\ dist'.edited = dist.edited
  <2>1. dist' = [dist EXCEPT !.index = job.listing]
    BY <1>4 DEF ViteEmits
  <2> QED BY <1>1, <2>1 DEF Dist
<1>5. ASSUME WriteStamp
      PROVE  /\ dist' \in Dist /\ dist'.index = dist.index /\ dist'.stamp = web
             /\ dist'.edited = dist.edited
  <2>1. dist' = [dist EXCEPT !.stamp = web]
    BY <1>5 DEF WriteStamp
  <2> QED BY <1>1, <2>1 DEF Dist
<1>6. ASSUME ViteEmptied
      PROVE  dist' \in Dist /\ dist'.stamp = dist.stamp /\ dist'.edited = dist.edited
  <2>1. dist' = [dist EXCEPT !.there = TRUE, !.index = Absent]
    BY <1>6 DEF ViteEmptied
  <2> QED BY <1>1, <2>1 DEF Dist, Content
<1> QED BY <1>2, <1>3, <1>4, <1>5, <1>6

LEMMA EditTyped ==
  ASSUME TypeInv, NEW v \in Version, EditWeb(v)
  PROVE  /\ dist' \in Dist /\ dist'.index = dist.index /\ dist'.stamp = dist.stamp
         /\ dist.edited => dist'.edited
         /\ pc \in {"empty", "emit", "stamp"} => dist'.edited
<1>1. /\ dist \in Dist
      /\ dist' = [dist EXCEPT !.edited = dist.edited \/ pc \in {"empty", "emit", "stamp"}]
  BY DEF TypeInv, EditWeb
<1> QED BY <1>1 DEF Dist

LEMMA TypeKept == ASSUME TypeInv, Next PROVE TypeInv'
<1> USE DEF TypeInv, Preparing, Running, Checked, Signed, Slicing, Goes, Ends
<1>1. ASSUME NEW v \in Version, EditRust(v) \/ EditWeb(v) PROVE TypeInv'
  <2>1. dist' \in Dist
    BY <1>1, EditTyped DEF EditRust
  <2> QED BY <1>1, <2>1 DEF EditRust, EditWeb
<1>2. CASE CleanOutput \/ Stop
  BY <1>2, IdleIsAJob DEF CleanOutput, Stop
<1>3. CASE StartReport \/ StartBuildWeb
  <2>1. job' \in Job /\ job'.goal # "dist" /\ pc' \in {"report", "npm"}
    <3>1. CASE StartReport
      <4>1. job' \in Job /\ job'.goal = "validation-report"
        BY <3>1, StartTyped DEF StartReport
      <4> QED BY <3>1, <4>1 DEF StartReport, Start
    <3>2. CASE StartBuildWeb
      <4>1. job' \in Job /\ job'.goal = "build-web"
        BY <3>2, StartTyped DEF StartBuildWeb
      <4> QED BY <3>2, <4>1 DEF StartBuildWeb, Start
    <3> QED BY <1>3, <3>1, <3>2
  <2> QED BY <1>3, <2>1 DEF StartReport, StartBuildWeb, Start
<1>4. ASSUME NEW targets \in Builds, NEW epoch \in Epoch, NEW skip \in BOOLEAN,
             StartDist(targets, epoch, skip)
      PROVE  TypeInv'
  <2>1. job' \in Job /\ job'.targets = targets
    BY <1>4, StartTyped DEF StartDist
  <2> QED BY <1>4, <2>1 DEF StartDist, Start
<1>5. CASE WriteReport
  BY <1>5, IdleIsAJob DEF WriteReport
<1>6. CASE CheckBundle
  BY <1>6, IdleIsAJob DEF CheckBundle
<1>7. CASE ViteEmpties
  <2>1. job' = [job EXCEPT !.listing = web] /\ web \in Content
    BY <1>7 DEF ViteEmpties, Content
  <2>2. job' \in Job /\ job'.goal = job.goal /\ job'.targets = job.targets
    BY <2>1, ListTyped
  <2> QED BY <1>7, <2>2, BundleTyped DEF ViteEmpties
<1>8. CASE ViteEmptied \/ ViteEmits
  BY <1>8, BundleTyped DEF ViteEmptied, ViteEmits
<1>9. CASE WriteStamp
  BY <1>9, BundleTyped DEF WriteStamp
<1>10. CASE ListBundle
  <2>1. job' = [job EXCEPT !.listing = dist.index] /\ dist.index \in Content
    BY <1>10, BundleTyped DEF ListBundle
  <2>2. job' \in Job /\ job'.targets = job.targets
    BY <2>1, ListTyped
  <2> QED BY <1>10, <2>2 DEF ListBundle
<1>11. CASE (\E files \in Entrywise : RemoveDirAll(files))
  BY <1>11 DEF RemoveDirAll
<1>12. CASE Cleared
  BY <1>12, ClearedTyped DEF Cleared
<1>13. ASSUME NEW arch \in Arch, Build(arch) PROVE TypeInv'
  <2>1. job' \in Job /\ job'.targets = job.targets
    BY <1>13, BuildTyped
  <2>2. pc = "build" /\ pc' \in {"check", "build"} /\ UNCHANGED <<rust, web, dist, out>>
    BY <1>13 DEF Build
  <2> QED BY <2>1, <2>2
<1>14. CASE CheckSlices
  BY <1>14, CheckTyped DEF CheckSlices
<1>15. CASE Sign
  BY <1>15, SignTyped DEF Sign, Write
<1>16. CASE StageApp \/ StageBare \/ PackBare \/ PackApp
  BY <1>16 DEF StageApp, StageBare, PackBare, PackApp, Write
<1>17. CASE ReadBack \/ ScanMagic
  BY <1>17 DEF ReadBack, ScanMagic
<1>18. CASE WriteManifest \/ CreateSums \/ WriteSums
  BY <1>18 DEF WriteManifest, CreateSums, WriteSums, Write
<1>19. ASSUME NEW packages \in Sboms, NEW hasGraph \in BOOLEAN, Sbom(packages, hasGraph)
       PROVE  TypeInv'
  BY <1>19, IdleIsAJob DEF Sbom
<1> QED BY <1>1, <1>2, <1>3, <1>4, <1>5, <1>6, <1>7, <1>8, <1>9, <1>10, <1>11, <1>12, <1>13,
           <1>14, <1>15, <1>16, <1>17, <1>18, <1>19 DEF Next, Arch

-----------------------------------------------------------------------------
(* The stamp, and what a slice embeds                                        *)

(* The steps by what they do to the command's slices.                        *)
LEMMA SliceShapes ==
  ASSUME TypeInv, Next
  PROVE  \/ job' = job /\ (pc' = pc \/ {pc, pc'} \subseteq Signed)
         \/ job' = job /\ pc \in Preparing /\ pc' \in Preparing \cup {"list"} /\ UNCHANGED out
         \/ job' = Idle /\ pc' = "idle"
         \/ pc = "idle" /\ pc' \in {"report", "npm", "list"} /\ job'.slices = {} /\ UNCHANGED dist
         \/ (ViteEmpties \/ ListBundle \/ Cleared \/ Sign) /\ job'.slices = job.slices
         \/ CheckSlices /\ job'.slices = job.slices
         \/ \E arch \in Arch : Build(arch)
<1>1. CASE StartReport \/ StartBuildWeb
  <2>1. CASE StartReport
    <3>1. job'.slices = {}
      BY <2>1, StartTyped DEF StartReport
    <3> QED BY <2>1, <3>1 DEF StartReport, Start
  <2>2. CASE StartBuildWeb
    <3>1. job'.slices = {}
      BY <2>2, StartTyped DEF StartBuildWeb
    <3> QED BY <2>2, <3>1 DEF StartBuildWeb, Start
  <2> QED BY <1>1, <2>1, <2>2
<1>2. ASSUME NEW targets \in Builds, NEW epoch \in Epoch, NEW skip \in BOOLEAN,
             StartDist(targets, epoch, skip)
      PROVE  /\ pc = "idle" /\ pc' \in {"report", "npm", "list"} /\ job'.slices = {}
             /\ UNCHANGED dist
  <2>1. job'.slices = {}
    BY <1>2, StartTyped DEF StartDist
  <2> QED BY <1>2, <2>1 DEF StartDist, Start
<1>3. CASE ViteEmpties
  <2>1. job' = [job EXCEPT !.listing = web] /\ web \in Content
    BY <1>3 DEF ViteEmpties, Content, TypeInv
  <2> QED BY <1>3, <2>1, ListTyped
<1>4. CASE ListBundle
  <2>1. job' = [job EXCEPT !.listing = dist.index] /\ dist.index \in Content
    BY <1>4, BundleTyped DEF ListBundle
  <2> QED BY <1>4, <2>1, ListTyped
<1>5. CASE Cleared \/ Sign \/ CheckSlices
  BY <1>5, ClearedTyped, SignTyped, CheckTyped
<1>6. ASSUME NEW v \in Version, EditRust(v) \/ EditWeb(v) PROVE job' = job /\ pc' = pc
  BY <1>6 DEF EditRust, EditWeb
<1>7. CASE CleanOutput \/ ViteEmptied \/ ViteEmits \/ WriteStamp
  BY <1>7 DEF CleanOutput, ViteEmptied, ViteEmits, WriteStamp, Goes, Preparing
<1>8. CASE Stop \/ WriteReport \/ CheckBundle
  BY <1>8 DEF Stop, WriteReport, CheckBundle, Goes, Ends, Preparing
<1>9. CASE (\E files \in Entrywise : RemoveDirAll(files)) \/ ReadBack \/ ScanMagic
  BY <1>9 DEF RemoveDirAll, ReadBack, ScanMagic, Goes, Signed
<1>10. CASE StageApp \/ StageBare \/ PackBare \/ PackApp
  BY <1>10 DEF StageApp, StageBare, PackBare, PackApp, Goes, Signed
<1>11. CASE WriteManifest \/ CreateSums \/ WriteSums
  BY <1>11 DEF WriteManifest, CreateSums, WriteSums, Goes, Signed
<1>12. ASSUME NEW packages \in Sboms, NEW hasGraph \in BOOLEAN, Sbom(packages, hasGraph)
       PROVE  job' = Idle /\ pc' = "idle"
  BY <1>12 DEF Sbom
<1> QED BY <1>1, <1>2, <1>3, <1>4, <1>5, <1>6, <1>7, <1>8, <1>9, <1>10, <1>11, <1>12 DEF Next, Arch

(* The steps by what they do to the bundle.                                  *)
LEMMA BundleShapes ==
  ASSUME TypeInv, Next
  PROVE  \/ UNCHANGED <<web, dist>> /\ pc' \notin {"empty", "emit", "stamp"}
         \/ UNCHANGED <<web, dist, pc, job>>
         \/ dist' = NoDist /\ pc = "idle" /\ pc' = "idle"
         \/ \E v \in Version : EditWeb(v)
         \/ ViteEmpties \/ ViteEmptied \/ ViteEmits \/ WriteStamp
<1> USE DEF Goes, Ends
<1>1. ASSUME NEW v \in Version, EditRust(v) PROVE UNCHANGED <<web, dist, pc, job>>
  BY <1>1 DEF EditRust
<1>2. CASE CleanOutput
  BY <1>2 DEF CleanOutput
<1>3. CASE StartReport \/ StartBuildWeb
  BY <1>3 DEF StartReport, StartBuildWeb, Start
<1>4. ASSUME NEW targets \in Builds, NEW epoch \in Epoch, NEW skip \in BOOLEAN,
             StartDist(targets, epoch, skip)
      PROVE  UNCHANGED <<web, dist>> /\ pc' \notin {"empty", "emit", "stamp"}
  BY <1>4 DEF StartDist, Start
<1>5. CASE Stop \/ WriteReport \/ CheckBundle \/ ListBundle \/ Cleared
  BY <1>5 DEF Stop, WriteReport, CheckBundle, ListBundle, Cleared
<1>6. CASE (\E files \in Entrywise : RemoveDirAll(files)) \/ ReadBack \/ ScanMagic
  BY <1>6 DEF RemoveDirAll, ReadBack, ScanMagic
<1>7. ASSUME NEW arch \in Arch, Build(arch) PROVE UNCHANGED <<web, dist>> /\ pc' \notin {"empty", "emit", "stamp"}
  BY <1>7 DEF Build
<1>8. CASE CheckSlices \/ Sign \/ StageApp \/ StageBare \/ PackBare \/ PackApp
  BY <1>8 DEF CheckSlices, Sign, StageApp, StageBare, PackBare, PackApp
<1>9. CASE WriteManifest \/ CreateSums \/ WriteSums
  BY <1>9 DEF WriteManifest, CreateSums, WriteSums
<1>10. ASSUME NEW packages \in Sboms, NEW hasGraph \in BOOLEAN, Sbom(packages, hasGraph)
       PROVE  UNCHANGED <<web, dist>> /\ pc' \notin {"empty", "emit", "stamp"}
  BY <1>10 DEF Sbom
<1> QED BY <1>1, <1>2, <1>3, <1>4, <1>5, <1>6, <1>7, <1>8, <1>9, <1>10 DEF Next, Arch

LEMMA StampKept == ASSUME TypeInv, StampInv, Next PROVE StampInv'
<1> USE DEF StampInv
<1>1. CASE UNCHANGED <<web, dist>> /\ pc' \notin {"empty", "emit", "stamp"}
  BY <1>1
<1>2. CASE UNCHANGED <<web, dist, pc, job>>
  BY <1>2
<1>3. CASE dist' = NoDist /\ pc = "idle" /\ pc' = "idle"
  BY <1>3, IdleIsAJob
<1>4. ASSUME NEW v \in Version, EditWeb(v) PROVE StampInv'
  <2>1. pc' = pc
    BY <1>4 DEF EditWeb
  <2> QED BY <1>4, <2>1, EditTyped
<1>5. CASE ViteEmpties
  <2>1. job' = [job EXCEPT !.listing = web] /\ web \in Content /\ web' = web /\ pc' = "empty"
    BY <1>5 DEF ViteEmpties, Content, TypeInv, Goes
  <2>2. job'.listing = web
    BY <2>1, ListTyped
  <2> QED BY <1>5, <2>1, <2>2, BundleTyped
<1>6. CASE ViteEmits
  <2>1. pc = "emit" /\ pc' = "stamp" /\ web' = web
    BY <1>6 DEF ViteEmits, Goes
  <2> QED BY <1>6, <2>1, BundleTyped
<1>7. CASE WriteStamp
  <2>1. pc = "stamp" /\ pc' = "tree" /\ web' = web
    BY <1>7 DEF WriteStamp, Goes
  <2> QED BY <1>7, <2>1, BundleTyped
<1>8. CASE ViteEmptied
  <2>1. pc = "empty" /\ pc' = "emit" /\ web' = web /\ job' = job
    BY <1>8 DEF ViteEmptied, Goes
  <2> QED BY <1>8, <2>1, BundleTyped
<1> QED BY <1>1, <1>2, <1>3, <1>4, <1>5, <1>6, <1>7, <1>8, BundleShapes

LEMMA FrontEndKept ==
  ASSUME TypeInv, StampInv, FrontEndIsCurrent, Next PROVE FrontEndIsCurrent'
<1> USE DEF FrontEndIsCurrent
<1>1. CASE job' = job \/ job'.slices = job.slices \/ job'.slices = {}
  BY <1>1
<1>2. CASE job' = Idle
  BY <1>2, IdleIsAJob
<1>3. ASSUME NEW arch \in Arch, Build(arch) PROVE FrontEndIsCurrent'
  <2> DEFINE slice == [arch |-> arch, rust |-> rust, web |-> web,
                       bundle |-> dist.index, edited |-> dist.edited]
  <2>1. job'.slices = job.slices \cup {slice}
    BY <1>3, BuildTyped
  <2>2. dist.stamp # Absent /\ dist.stamp = web
    BY <1>3 DEF Build, BuildScriptPasses, Fresh
  <2>3. slice.bundle = slice.web \/ slice.edited
    BY <2>2 DEF StampInv
  <2> QED BY <2>1, <2>3
<1> QED BY <1>1, <1>2, <1>3, SliceShapes

-----------------------------------------------------------------------------
(* The slices of a run, and its executable                                   *)

LEMMA Counting ==
  ASSUME TypeInv, SlicesInv, NEW arch \in Arch, Build(arch)
  PROVE  /\ IsFiniteSet(job'.slices)
         /\ Cardinality(job'.slices) + Len(job'.todo) <= Len(job'.targets)
<1> DEFINE slice == [arch |-> arch, rust |-> rust, web |-> web,
                     bundle |-> dist.index, edited |-> dist.edited]
<1>1. /\ job'.slices = job.slices \cup {slice} /\ job'.todo = Tail(job.todo)
      /\ job'.targets = job.targets
  BY BuildTyped
<1>2. /\ pc = "build" /\ job.todo # <<>> /\ job \in Job /\ job.targets \in Builds
  BY DEF Build, TypeInv, Running, Slicing
<1>3. job.todo \in Seq(Arch) /\ job.targets \in Seq(Arch)
  BY <1>2, Fields, OneEach
<1>4. Len(job.todo) \in Nat /\ Len(Tail(job.todo)) = Len(job.todo) - 1 /\ Len(job.targets) \in Nat
  BY <1>2, <1>3
<1>5. IsFiniteSet(job.slices) /\ Cardinality(job.slices) + Len(job.todo) <= Len(job.targets)
  BY <1>2 DEF SlicesInv, Slicing
<1> HIDE DEF slice
<1>6. Cardinality(job.slices) \in Nat
  BY <1>5, FS_CardinalityType
<1>7. /\ IsFiniteSet(job.slices \cup {slice})
      /\ Cardinality(job.slices \cup {slice}) \in {Cardinality(job.slices), Cardinality(job.slices) + 1}
  BY <1>5, FS_AddElement
<1> QED BY <1>1, <1>4, <1>5, <1>6, <1>7

(* Only the build itself starts with slices, and only its start and its end  *)
(* change what it counts.                                                    *)
LEMMA SlicesKept == ASSUME TypeInv, SlicesInv, Next PROVE SlicesInv'
<1> USE DEF SlicesInv, Slicing, Preparing
<1>1. CASE job' = Idle /\ pc' = "idle"
  BY <1>1, IdleIsAJob, FS_EmptySet
<1>2. CASE pc = "idle" /\ pc' \in {"report", "npm", "list"} /\ job'.slices = {}
  BY <1>2, FS_EmptySet
<1>3. CASE ViteEmpties
  <2>1. job'.slices = job.slices /\ pc = "npm" /\ pc' = "empty"
    <3>1. job' = [job EXCEPT !.listing = web] /\ web \in Content
      BY <1>3 DEF ViteEmpties, Content, TypeInv
    <3> QED BY <1>3, <3>1, ListTyped DEF ViteEmpties, Goes
  <2> QED BY <2>1
<1>4. CASE ListBundle
  <2>1. job' = [job EXCEPT !.listing = dist.index] /\ dist.index \in Content
    BY <1>4, BundleTyped DEF ListBundle
  <2>2. job'.slices = job.slices /\ job'.listing = dist.index
    BY <2>1, ListTyped
  <2>3. pc = "list" /\ pc' = "clear" /\ dist' = dist
    BY <1>4 DEF ListBundle, Goes
  <2> QED BY <2>2, <2>3
<1>5. CASE Cleared
  <2>1. pc = "clear" /\ pc' = "build" /\ dist' = dist
    BY <1>5 DEF Cleared, Goes
  <2>2. /\ job'.slices = {} /\ job'.listing = job.listing /\ job'.todo = job'.targets
        /\ job'.targets \in Builds
    BY <1>5, <2>1, ClearedTyped
  <2>3. Len(job'.targets) \in Nat
    BY <2>2, OneEach
  <2> QED BY <2>1, <2>2, <2>3, FS_EmptySet
<1>6. ASSUME NEW arch \in Arch, Build(arch) PROVE SlicesInv'
  <2> DEFINE slice == [arch |-> arch, rust |-> rust, web |-> web,
                       bundle |-> dist.index, edited |-> dist.edited]
  <2>1. job'.slices = job.slices \cup {slice} /\ job'.listing = job.listing
    BY <1>6, BuildTyped
  <2>2. pc = "build" /\ pc' \in {"check", "build"} /\ dist' = dist
    BY <1>6 DEF Build, Goes
  <2>3. slice.bundle = job.listing
    BY <2>2
  <2> HIDE DEF slice
  <2>4. \A s \in job'.slices : s.bundle = job'.listing
    BY <2>1, <2>2, <2>3
  <2>5. /\ IsFiniteSet(job'.slices)
        /\ Cardinality(job'.slices) + Len(job'.todo) <= Len(job'.targets)
    BY <1>6, Counting
  <2> QED BY <2>1, <2>2, <2>4, <2>5
<1>7. CASE CheckSlices \/ Sign
  <2>1. job'.slices = job.slices
    BY <1>7, CheckTyped, SignTyped
  <2>2. pc' \in {"sign", "app"}
    BY <1>7 DEF CheckSlices, Sign, Goes
  <2> QED BY <2>1, <2>2
<1>8. CASE job' = job /\ (pc' = pc \/ {pc, pc'} \subseteq Signed)
  <2>1. pc \in {"clear", "build"} => dist'.index = dist.index
    <3>1. CASE \E v \in Version : EditWeb(v)
      BY <3>1, EditTyped
    <3>2. CASE ViteEmpties \/ ViteEmptied \/ ViteEmits \/ WriteStamp
      BY <3>2 DEF ViteEmpties, ViteEmptied, ViteEmits, WriteStamp
    <3> QED BY <3>1, <3>2, BundleShapes
  <2> QED BY <1>8, <2>1 DEF Signed
<1>9. CASE job' = job /\ pc \in Preparing /\ pc' \in Preparing \cup {"list"}
  BY <1>9
<1> QED BY <1>1, <1>2, <1>3, <1>4, <1>5, <1>6, <1>7, <1>8, <1>9, SliceShapes

(* What is checked before signing is that no target lacks its slice; with    *)
(* one slice made for each, there is one for each.                           *)
LEMMA ExeKept == ASSUME TypeInv, SlicesInv, ExeInv, Next PROVE ExeInv'
<1> USE DEF ExeInv, Checked, Signed
<1>1. CASE job' = Idle /\ pc' = "idle"
  BY <1>1
<1>2. CASE pc' \in {"report", "npm", "list"}
  BY <1>2
<1>3. CASE ViteEmpties \/ ListBundle \/ Cleared
  BY <1>3 DEF ViteEmpties, ListBundle, Cleared, Goes
<1>4. ASSUME NEW arch \in Arch, Build(arch) PROVE ExeInv'
  BY <1>4 DEF Build, Goes
<1>5. CASE Sign
  <2>1. /\ job'.targets = job.targets /\ job'.listing = job.listing
        /\ job'.exe.slices = job.exe.slices /\ job'.exe.signed
    BY <1>5, SignTyped
  <2>2. Whole(job.exe, Here, job.listing)
    BY <1>5 DEF Sign
  <2>3. Here' = Here
    BY <2>1 DEF Here
  <2>4. Whole(job'.exe, Here', job'.listing)
    BY <2>1, <2>2, <2>3 DEF Whole, Arches
  <2> QED BY <2>1, <2>4
<1>6. CASE CheckSlices
  <2>1. /\ job'.targets = job.targets /\ job'.listing = job.listing
        /\ job'.exe = [slices |-> {Embedded(s) : s \in job.slices}, signed |-> FALSE]
    BY <1>6, CheckTyped
  <2>2. pc = "check" /\ pc' = "sign" /\ Arches(job) = Here
    BY <1>6 DEF CheckSlices, Goes
  <2>3. job \in Job /\ job.targets \in Builds
    BY <2>2 DEF TypeInv, Running, Slicing
  <2>4. /\ IsFiniteSet(job.slices) /\ \A s \in job.slices : s.bundle = job.listing
        /\ Cardinality(job.slices) + Len(job.todo) <= Len(job.targets)
    BY <2>2 DEF SlicesInv, Slicing
  <2>5. Cardinality(job.slices) \in Nat /\ Len(job.todo) \in Nat
    BY <2>3, <2>4, Fields, FS_CardinalityType
  <2>6. IsFiniteSet(Here) /\ Cardinality(Here) = Len(job.targets) /\ Len(job.targets) \in Nat
    BY <2>3, OneEach DEF Here
  <2>7. Cardinality(job.slices) <= Cardinality(Here)
    BY <2>4, <2>5, <2>6
  <2>8. job.slices \in SUBSET Slice /\ {s.arch : s \in job.slices} = Here
    BY <2>2, <2>3, Fields DEF Arches
  <2>9. Whole([slices |-> {Embedded(s) : s \in job.slices}, signed |-> FALSE], Here, job.listing)
    BY <2>4, <2>6, <2>7, <2>8, EmbeddedWhole
  <2>10. Here' = Here
    BY <2>1 DEF Here
  <2>11. Whole(job'.exe, Here', job'.listing)
    BY <2>1, <2>9, <2>10
  <2> QED BY <2>2, <2>11
<1>7. CASE job' = job /\ (pc' = pc \/ {pc, pc'} \subseteq Signed)
  <2>1. Here' = Here
    BY <1>7 DEF Here
  <2> QED BY <1>7, <2>1 DEF Whole, Arches
<1>8. CASE job' = job /\ pc' \in Preparing \cup {"list"}
  BY <1>8 DEF Preparing
<1> QED BY <1>1, <1>2, <1>3, <1>4, <1>5, <1>6, <1>7, <1>8, SliceShapes

-----------------------------------------------------------------------------
(* The files of the label at work                                            *)

LEMMA Written ==
  ASSUME TypeInv, pc \in Running, job'.targets = job.targets,
         NEW file, NEW content, Write(file, content)
  PROVE  /\ Here' = Here /\ Here \in Label /\ DOMAIN Files' = DOMAIN Files \cup {file}
         /\ Files'[file] = content
         /\ \A f \in DOMAIN Files \ {file} : Files'[f] = Files[f]
         /\ \A label \in Label \ {Here} : out'[label] = out[label]
<1>1. Here' = Here
  BY DEF Here
<1>2. Here \in Label /\ DOMAIN out = Label
  BY DEF TypeInv, Here, Label
<1> DEFINE new == [f \in DOMAIN Files \cup {file} |-> IF f = file THEN content ELSE Files[f]]
<1>3. out' = [out EXCEPT ![Here] = new]
  BY DEF Write
<1>4. /\ DOMAIN new = DOMAIN Files \cup {file} /\ new[file] = content
      /\ \A f \in DOMAIN Files \ {file} : new[f] = Files[f]
  OBVIOUS
<1> HIDE DEF new
<1>5. out'[Here] = new /\ \A label \in Label \ {Here} : out'[label] = out[label]
  BY <1>2, <1>3
<1>6. Files' = new
  BY <1>1, <1>5 DEF Files
<1> QED BY <1>1, <1>2, <1>4, <1>5, <1>6

LEMMA StillHere ==
  ASSUME job'.targets = job.targets, out' = out
  PROVE  Here' = Here /\ Files' = Files
BY DEF Here, Files

LEMMA BuildShape ==
  ASSUME NEW arch, Build(arch)
  PROVE  pc = "build" /\ pc' \in {"check", "build"} /\ out' = out
BY DEF Build, Goes

LEMMA MadeKept ==
  ASSUME TypeInv, FilesInv, Next, Cleared \/ CheckSlices \/ \E arch \in Arch : Build(arch)
  PROVE  FilesInv'
<1> USE DEF FilesInv, Signed, Slicing
<1>1. CASE Cleared
  <2>1. job'.targets = job.targets /\ out' = out /\ Files = NoFiles /\ pc' = "build"
    BY <1>1, ClearedTyped DEF Cleared, Goes
  <2>2. Files' = Files
    BY <2>1, StillHere
  <2> QED BY <2>1, <2>2 DEF NoFiles
<1>2. CASE CheckSlices
  <2>1. job'.targets = job.targets /\ out' = out /\ DOMAIN Files = {} /\ pc' = "sign"
    BY <1>2, CheckTyped DEF CheckSlices, Goes
  <2>2. Files' = Files
    BY <2>1, StillHere
  <2> QED BY <2>1, <2>2
<1>3. ASSUME NEW arch \in Arch, Build(arch) PROVE FilesInv'
  <2>1. job'.targets = job.targets
    BY <1>3, BuildTyped
  <2>2. pc = "build" /\ pc' \in {"check", "build"} /\ out' = out
    BY <1>3, BuildShape
  <2>3. Files' = Files /\ DOMAIN Files = {}
    BY <2>1, <2>2, StillHere
  <2> QED BY <2>2, <2>3
<1> QED BY <1>1, <1>2, <1>3

LEMMA SignKept == ASSUME TypeInv, FilesInv, Sign PROVE FilesInv'
<1> USE DEF FilesInv, Signed, Slicing
<1>1. pc = "sign" /\ pc' = "app" /\ pc \in Running /\ DOMAIN Files = {}
  BY DEF Sign, Goes, Running, Checked
<1>2. /\ job'.targets = job.targets /\ job'.exe = [job.exe EXCEPT !.signed = TRUE]
  BY SignTyped
<1>3. Write("work", job'.exe)
  BY <1>2 DEF Sign
<1>4. DOMAIN Files' = {"work"} /\ Files'["work"] = job'.exe
  <2> DEFINE exe == job'.exe
  <2> HIDE DEF exe
  <2>1. Write("work", exe)
    BY <1>3 DEF exe
  <2>2. DOMAIN Files' = DOMAIN Files \cup {"work"} /\ Files'["work"] = exe
    BY <1>1, <1>2, <2>1, Written
  <2> QED BY <1>1, <2>2 DEF exe
<1> QED BY <1>1, <1>4

LEMMA PackKept ==
  ASSUME TypeInv, FilesInv, StageApp \/ StageBare \/ PackBare \/ PackApp PROVE FilesInv'
<1> USE DEF FilesInv, Signed, Slicing
<1>1. job' = job /\ pc \in Running /\ job'.targets = job.targets
  BY DEF StageApp, StageBare, PackBare, PackApp, Running, Checked
<1>2. "work" \in DOMAIN Files /\ Files["work"] = job.exe /\ "SHA256SUMS" \notin DOMAIN Files
  BY DEF StageApp, StageBare, PackBare, PackApp
<1>3. CASE StageApp
  <2>1. Write("app", StagedApp(Files["work"])) /\ pc' = "bare"
    BY <1>3 DEF StageApp, Goes
  <2>2. /\ DOMAIN Files' = DOMAIN Files \cup {"app"}
        /\ \A f \in DOMAIN Files \ {"app"} : Files'[f] = Files[f]
    BY <1>1, <2>1, Written
  <2> QED BY <1>1, <1>2, <2>1, <2>2
<1>4. CASE StageBare
  <2>1. Write("bare", StagedBare(Files["work"])) /\ pc' = "bare.tgz"
    BY <1>4 DEF StageBare, Goes
  <2>2. /\ DOMAIN Files' = DOMAIN Files \cup {"bare"}
        /\ \A f \in DOMAIN Files \ {"bare"} : Files'[f] = Files[f]
    BY <1>1, <2>1, Written
  <2> QED BY <1>1, <1>2, <2>1, <2>2
<1>5. CASE PackBare
  <2>1. Write("bare.tgz", TarGz(Files["bare"], <<BareName>>, job.epoch)) /\ pc' = "app.tgz"
    BY <1>5 DEF PackBare, Goes
  <2>2. /\ DOMAIN Files' = DOMAIN Files \cup {"bare.tgz"}
        /\ \A f \in DOMAIN Files \ {"bare.tgz"} : Files'[f] = Files[f]
    BY <1>1, <2>1, Written
  <2> QED BY <1>1, <1>2, <2>1, <2>2
<1>6. CASE PackApp
  <2>1. Write("app.tgz", TarGz(Files["app"], <<AppName>>, job.epoch)) /\ pc = "app.tgz" /\ pc' = "readback"
    BY <1>6 DEF PackApp, Goes
  <2>2. /\ DOMAIN Files' = DOMAIN Files \cup {"app.tgz"}
        /\ \A f \in DOMAIN Files \ {"app.tgz"} : Files'[f] = Files[f]
    BY <1>1, <2>1, Written
  <2> QED BY <1>1, <1>2, <2>1, <2>2
<1> QED BY <1>3, <1>4, <1>5, <1>6

(* The same executable has the same bytes.                                   *)
LEMMA StillClean == ASSUME job' = job PROVE ContainsMagic(job.exe)' = ContainsMagic(job.exe)
BY DEF ContainsMagic

(* What is read back and scanned is what was signed.                         *)
LEMMA LookedAtKept == ASSUME TypeInv, FilesInv, ReadBack \/ ScanMagic PROVE FilesInv'
<1> USE DEF FilesInv, Signed, Slicing
<1>1. job' = job /\ out' = out
  BY DEF ReadBack, ScanMagic
<1>2. Here' = Here /\ Files' = Files
  BY <1>1, StillHere
<1>3. CASE ReadBack
  <2>1. pc = "readback" /\ pc' = "magic"
    BY <1>3 DEF ReadBack, Goes
  <2> QED BY <1>1, <1>2, <2>1
<1>4. CASE ScanMagic
  <2>1. pc = "magic" /\ pc' = "manifest" /\ ~ ContainsMagic(job.exe)
    BY <1>4 DEF ScanMagic, Goes, Scanned
  <2> QED BY <1>1, <1>2, <2>1, StillClean
<1> QED BY <1>3, <1>4

LEMMA SumsKept ==
  ASSUME TypeInv, FilesInv, WriteManifest \/ CreateSums \/ WriteSums PROVE FilesInv'
<1> USE DEF FilesInv, Signed, Slicing
<1>1. job' = job /\ pc \in Running /\ job'.targets = job.targets
  BY DEF WriteManifest, CreateSums, WriteSums, Running, Checked
<1>2. "work" \in DOMAIN Files /\ Files["work"] = job.exe
  BY DEF WriteManifest, CreateSums, WriteSums
<1>3. CASE WriteManifest
  <2>1. Write("dist-manifest.json", Said) /\ pc = "manifest" /\ pc' = "sums"
    BY <1>3 DEF WriteManifest, Goes, Said
  <2>2. /\ Here' = Here /\ DOMAIN Files' = DOMAIN Files \cup {"dist-manifest.json"}
        /\ Files'["dist-manifest.json"] = Said
        /\ \A f \in DOMAIN Files \ {"dist-manifest.json"} : Files'[f] = Files[f]
    BY <1>1, <2>1, Written
  <2>3. Said' = Said
    BY <1>1, <2>2 DEF Said
  <2> QED BY <1>1, <1>2, <2>1, <2>2, <2>3, StillClean
<1>4. CASE CreateSums
  <2>1. Write("SHA256SUMS", NoFiles) /\ pc = "sums" /\ pc' = "sumlines"
    BY <1>4 DEF CreateSums, Goes
  <2>2. /\ Here' = Here /\ DOMAIN Files' = DOMAIN Files \cup {"SHA256SUMS"}
        /\ Files'["SHA256SUMS"] = NoFiles
        /\ \A f \in DOMAIN Files \ {"SHA256SUMS"} : Files'[f] = Files[f]
    BY <1>1, <2>1, Written
  <2>3. Said' = Said
    BY <1>1, <2>2 DEF Said
  <2> QED BY <1>1, <1>2, <2>1, <2>2, <2>3, StillClean
<1>5. CASE WriteSums
  <2>1. Write("SHA256SUMS", Render(Files)) /\ pc' = "done"
    BY <1>5 DEF WriteSums, Goes
  <2>2. /\ DOMAIN Files' = DOMAIN Files \cup {"SHA256SUMS"}
        /\ \A f \in DOMAIN Files \ {"SHA256SUMS"} : Files'[f] = Files[f]
    BY <1>1, <2>1, Written
  <2> QED BY <1>1, <1>2, <2>1, <2>2
<1> QED BY <1>3, <1>4, <1>5

(* Every other step leaves the files alone or leaves them to no stage.       *)
LEMMA FilesShapes ==
  ASSUME Next
  PROVE  \/ pc' \notin Slicing \cup Checked \/ UNCHANGED <<pc, job, out>>
         \/ Cleared \/ CheckSlices \/ (\E arch \in Arch : Build(arch)) \/ Sign
         \/ StageApp \/ StageBare \/ PackBare \/ PackApp \/ ReadBack \/ ScanMagic
         \/ WriteManifest \/ CreateSums \/ WriteSums
<1> USE DEF Slicing, Checked, Signed
<1>1. ASSUME NEW v \in Version, EditRust(v) \/ EditWeb(v) PROVE UNCHANGED <<pc, job, out>>
  BY <1>1 DEF EditRust, EditWeb
<1>2. CASE CleanOutput \/ Stop \/ StartReport \/ StartBuildWeb
  BY <1>2 DEF CleanOutput, Stop, StartReport, StartBuildWeb, Start
<1>3. ASSUME NEW targets \in Builds, NEW epoch \in Epoch, NEW skip \in BOOLEAN,
             StartDist(targets, epoch, skip)
      PROVE  pc' \notin Slicing \cup Checked
  BY <1>3 DEF StartDist, Start
<1>4. CASE WriteReport \/ ViteEmpties \/ ViteEmptied \/ ViteEmits
  BY <1>4 DEF WriteReport, ViteEmpties, ViteEmptied, ViteEmits, Goes, Ends
<1>5. CASE WriteStamp \/ CheckBundle \/ ListBundle
  BY <1>5 DEF WriteStamp, CheckBundle, ListBundle, Goes, Ends
<1>6. ASSUME NEW files \in Entrywise, RemoveDirAll(files) PROVE pc' \notin Slicing \cup Checked
  BY <1>6 DEF RemoveDirAll, Goes
<1>7. ASSUME NEW packages \in Sboms, NEW hasGraph \in BOOLEAN, Sbom(packages, hasGraph)
      PROVE  pc' \notin Slicing \cup Checked
  BY <1>7 DEF Sbom
<1> QED BY <1>1, <1>2, <1>3, <1>4, <1>5, <1>6, <1>7 DEF Next, Arch

LEMMA FilesKept == ASSUME TypeInv, FilesInv, Next PROVE FilesInv'
<1>1. CASE pc' \notin Slicing \cup Checked
  BY <1>1 DEF FilesInv, Checked, Signed
<1>2. CASE UNCHANGED <<pc, job, out>>
  <2>1. Here' = Here /\ Files' = Files /\ Said' = Said
    BY <1>2, StillHere DEF Said, Here
  <2> QED BY <1>2, <2>1, StillClean DEF FilesInv
<1> QED BY <1>1, <1>2, MadeKept, SignKept, PackKept, LookedAtKept, SumsKept, FilesShapes

-----------------------------------------------------------------------------
(* Archives                                                                  *)

(* One more file takes nothing from the others.                              *)
LEMMA StillPacked ==
  ASSUME NEW stage, NEW files, NEW exe, NEW epoch, Packing(stage, files, exe, epoch),
         NEW later, NEW file, file \notin {"app", "bare", "bare.tgz", "app.tgz"},
         DOMAIN later = DOMAIN files \cup {file},
         \A f \in DOMAIN files \ {file} : later[f] = files[f]
  PROVE  Packing(stage, later, exe, epoch)
BY DEF Packing

LEMMA Repacked ==
  ASSUME job' = job, Packing(pc', Files', job.exe, job.epoch)
  PROVE  PackedInv'
BY DEF PackedInv

LEMMA PackedKept == ASSUME TypeInv, FilesInv, PackedInv, Next PROVE PackedInv'
<1>1. CASE pc' \notin Packed \cup {"bare", "bare.tgz", "app.tgz"}
  <2>1. Packing(pc', Files', job'.exe, job'.epoch)
    BY <1>1 DEF Packing
  <2> QED BY <2>1 DEF PackedInv
<1>2. ASSUME UNCHANGED <<job, out>>, pc' = pc \/ {pc, pc'} \subseteq Packed PROVE PackedInv'
  <2>1. Files' = Files
    BY <1>2, StillHere
  <2>2. Packing(pc', Files, job.exe, job.epoch)
    BY <1>2 DEF PackedInv, Packing
  <2> QED BY <1>2, <2>1, <2>2 DEF PackedInv
<1>3. ASSUME StageApp \/ StageBare \/ PackBare \/ PackApp \/ WriteManifest \/ CreateSums \/ WriteSums
      PROVE  PackedInv'
  <2>1. job' = job /\ pc \in Running
    BY <1>3 DEF StageApp, StageBare, PackBare, PackApp, WriteManifest, CreateSums, WriteSums,
       Running, Checked, Signed
  <2>2. "work" \in DOMAIN Files /\ Files["work"] = job.exe
    BY <1>3 DEF FilesInv, Signed, StageApp, StageBare, PackBare, PackApp, WriteManifest,
       CreateSums, WriteSums
  <2>3. Packing(pc, Files, job.exe, job.epoch)
    BY DEF PackedInv
  <2>4. CASE StageApp
    <3>1. pc' = "bare" /\ Write("app", StagedApp(job.exe))
      BY <2>2, <2>4 DEF StageApp, Goes
    <3>2. "app" \in DOMAIN Files' /\ Files'["app"] = StagedApp(job.exe)
      BY <2>1, <3>1, Written
    <3>3. Packing(pc', Files', job.exe, job.epoch)
      BY <3>1, <3>2 DEF Packing, Packed
    <3> QED BY <2>1, <3>3, Repacked
  <2>5. CASE StageBare
    <3>1. pc = "bare" /\ pc' = "bare.tgz" /\ Write("bare", StagedBare(job.exe))
      BY <2>2, <2>5 DEF StageBare, Goes
    <3>2. /\ DOMAIN Files' = DOMAIN Files \cup {"bare"} /\ Files'["bare"] = StagedBare(job.exe)
          /\ \A f \in DOMAIN Files \ {"bare"} : Files'[f] = Files[f]
      BY <2>1, <3>1, Written
    <3>3. Packing(pc', Files', job.exe, job.epoch)
      BY <2>3, <3>1, <3>2 DEF Packing, Packed
    <3> QED BY <2>1, <3>3, Repacked
  <2>6. CASE PackBare
    <3>1. /\ pc = "bare.tgz" /\ pc' = "app.tgz" /\ Files["bare"] = StagedBare(job.exe)
          /\ CanTarGz(Files["bare"], <<BareName>>, job.epoch)
          /\ Write("bare.tgz", TarGz(Files["bare"], <<BareName>>, job.epoch))
      BY <2>3, <2>6 DEF PackBare, Goes, Packing
    <3>2. BareTarable(job.exe, job.epoch) /\ Write("bare.tgz", BareStream(job.exe, job.epoch))
      BY <3>1 DEF BareTarable, BareStream
    <3>3. /\ DOMAIN Files' = DOMAIN Files \cup {"bare.tgz"}
          /\ Files'["bare.tgz"] = BareStream(job.exe, job.epoch)
          /\ \A f \in DOMAIN Files \ {"bare.tgz"} : Files'[f] = Files[f]
      BY <2>1, <3>2, Written
    <3>4. Packing(pc', Files', job.exe, job.epoch)
      BY <2>3, <3>1, <3>2, <3>3 DEF Packing, Packed
    <3> QED BY <2>1, <3>4, Repacked
  <2>7. CASE PackApp
    <3>1. /\ pc = "app.tgz" /\ pc' = "readback" /\ Files["app"] = StagedApp(job.exe)
          /\ CanTarGz(Files["app"], <<AppName>>, job.epoch)
          /\ Write("app.tgz", TarGz(Files["app"], <<AppName>>, job.epoch))
      BY <2>3, <2>7 DEF PackApp, Goes, Packing
    <3>2. AppTarable(job.exe, job.epoch) /\ Write("app.tgz", AppStream(job.exe, job.epoch))
      BY <3>1 DEF AppTarable, AppStream
    <3>3. /\ DOMAIN Files' = DOMAIN Files \cup {"app.tgz"}
          /\ Files'["app.tgz"] = AppStream(job.exe, job.epoch)
          /\ \A f \in DOMAIN Files \ {"app.tgz"} : Files'[f] = Files[f]
      BY <2>1, <3>2, Written
    <3>4. Packing(pc', Files', job.exe, job.epoch)
      BY <2>3, <3>1, <3>2, <3>3 DEF Packing, Packed
    <3> QED BY <2>1, <3>4, Repacked
  <2>8. CASE WriteManifest
    <3>1. pc = "manifest" /\ pc' = "sums" /\ Write("dist-manifest.json", Said)
      BY <2>8 DEF WriteManifest, Goes, Said
    <3>2. /\ DOMAIN Files' = DOMAIN Files \cup {"dist-manifest.json"}
          /\ \A f \in DOMAIN Files \ {"dist-manifest.json"} : Files'[f] = Files[f]
      BY <2>1, <3>1, Written
    <3>3. Packing(pc, Files', job.exe, job.epoch)
      BY <2>3, <3>2, StillPacked
    <3>4. Packing(pc', Files', job.exe, job.epoch)
      BY <3>1, <3>3 DEF Packing, Packed
    <3> QED BY <2>1, <3>4, Repacked
  <2>9. CASE CreateSums
    <3>1. pc = "sums" /\ pc' = "sumlines" /\ Write("SHA256SUMS", NoFiles)
      BY <2>9 DEF CreateSums, Goes
    <3>2. /\ DOMAIN Files' = DOMAIN Files \cup {"SHA256SUMS"}
          /\ \A f \in DOMAIN Files \ {"SHA256SUMS"} : Files'[f] = Files[f]
      BY <2>1, <3>1, Written
    <3>3. Packing(pc, Files', job.exe, job.epoch)
      BY <2>3, <3>2, StillPacked
    <3>4. Packing(pc', Files', job.exe, job.epoch)
      BY <3>1, <3>3 DEF Packing, Packed
    <3> QED BY <2>1, <3>4, Repacked
  <2>10. CASE WriteSums
    <3>1. pc = "sumlines" /\ pc' = "done" /\ Write("SHA256SUMS", Render(Files))
      BY <2>10 DEF WriteSums, Goes
    <3>2. /\ DOMAIN Files' = DOMAIN Files \cup {"SHA256SUMS"}
          /\ \A f \in DOMAIN Files \ {"SHA256SUMS"} : Files'[f] = Files[f]
      BY <2>1, <3>1, Written
    <3>3. Packing(pc, Files', job.exe, job.epoch)
      BY <2>3, <3>2, StillPacked
    <3>4. Packing(pc', Files', job.exe, job.epoch)
      BY <3>1, <3>3 DEF Packing, Packed
    <3> QED BY <2>1, <3>4, Repacked
  <2> QED BY <1>3, <2>4, <2>5, <2>6, <2>7, <2>8, <2>9, <2>10
<1>4. CASE ReadBack
  <2>1. UNCHANGED <<job, out>> /\ {pc, pc'} \subseteq Packed
    BY <1>4 DEF ReadBack, Goes, Packed
  <2> QED BY <1>2, <2>1
<1>5. CASE ScanMagic
  <2>1. UNCHANGED <<job, out>> /\ {pc, pc'} \subseteq Packed
    BY <1>5 DEF ScanMagic, Goes, Packed
  <2> QED BY <1>2, <2>1
<1>6. CASE Cleared \/ CheckSlices \/ Sign
  BY <1>1, <1>6 DEF Cleared, CheckSlices, Sign, Goes, Packed
<1>7. ASSUME NEW arch \in Arch, Build(arch) PROVE PackedInv'
  BY <1>1, <1>7, BuildShape DEF Packed
<1>8. CASE pc' \notin Slicing \cup Checked
  BY <1>1, <1>8 DEF Checked, Signed, Packed
<1> QED BY <1>2, <1>3, <1>4, <1>5, <1>6, <1>7, <1>8, FilesShapes

(* A nonempty set of naturals has a least element.                           *)
LEMMA LeastElement ==
  ASSUME NEW T \in SUBSET Nat, T # {}
  PROVE  \E low \in T : \A k \in T : low <= k
<1> DEFINE R == OpToRel(<, Nat)
<1>1. IsWellFoundedOn(R, Nat)
  BY NatLessThanWellFounded, Zenon
<1> HIDE DEF R
<1>2. PICK low \in T : \A k \in T : ~ (<<k, low>> \in R)
  BY <1>1, WFMin
<1>3. \A a, b \in Nat : a < b => <<a, b>> \in R
  BY DEF R, OpToRel
<1>4. ASSUME NEW k \in T PROVE low <= k
  <2>1. low \in Nat /\ k \in Nat
    OBVIOUS
  <2>2. ~ (k < low)
    BY <1>2, <1>3, <2>1, Zenon
  <2> QED BY <2>1, <2>2
<1> QED BY <1>4

(* A set of places up to m has a last one.                                   *)
LEMMA LastPlace ==
  ASSUME NEW m \in Nat, NEW S \in SUBSET (0 .. m), S # {}
  PROVE  Max(S) \in S
<1> DEFINE T == {m - i : i \in S}
<1>1. T \in SUBSET Nat /\ T # {}
  <2>1. \A i \in S : m - i \in Nat
    OBVIOUS
  <2> QED BY <2>1
<1> HIDE DEF T
<1>2. PICK low \in T : \A k \in T : low <= k
  BY <1>1, LeastElement
<1>3. PICK i \in S : low = m - i
  BY <1>2 DEF T
<1>4. ASSUME NEW k \in S PROVE i >= k
  <2>1. m - k \in T /\ i \in 0 .. m /\ k \in 0 .. m
    BY DEF T
  <2> QED BY <1>2, <1>3, <2>1
<1> QED BY <1>3, <1>4 DEF Max

(* The cut of a path lies in it, and its two parts make the path.            *)
LEMMA CutInside ==
  ASSUME NEW e, Splittable(e), Len(e.path) \in Nat
  PROVE  Cut(e) \in 0 .. Len(e.path)
<1>1. CASE HeaderLen(e) <= NameMax
  BY <1>1 DEF Cut
<1>2. CASE ~ (HeaderLen(e) <= NameMax)
  <2>1. Cuts(e) # {} /\ Cut(e) = Max(Cuts(e))
    BY <1>2 DEF Splittable, Cut
  <2>2. ASSUME NEW i \in Cuts(e) PROVE i \in 0 .. Len(e.path)
    <3>1. \E d \in {0, 1} : i \in 1 .. Len(e.path) - d
      BY Zenon DEF Cuts
    <3> QED BY <3>1
  <2> QED BY <2>1, <2>2, LastPlace
<1> QED BY <1>1, <1>2

LEMMA TwoParts ==
  ASSUME NEW S, NEW path \in Seq(S), NEW c \in 0 .. Len(path)
  PROVE  SubSeq(path, 1, c) \o SubSeq(path, c + 1, Len(path)) = path
<1> DEFINE front == SubSeq(path, 1, c)
           back == SubSeq(path, c + 1, Len(path))
<1>1. front \in Seq(S) /\ Len(front) = c /\ \A i \in 1 .. c : front[i] = path[i]
  BY SubSeqProperties
<1>2. /\ back \in Seq(S) /\ Len(back) = Len(path) - c
      /\ \A i \in 1 .. Len(path) - c : back[i] = path[c + i]
  <2>1. \A i \in c + 1 .. Len(path) : path[i] \in S
    OBVIOUS
  <2>2. /\ back \in Seq(S) /\ Len(back) = IF c + 1 <= Len(path) THEN Len(path) - (c + 1) + 1 ELSE 0
        /\ \A i \in 1 .. Len(path) - (c + 1) + 1 : back[i] = path[(c + 1) + i - 1]
    BY <2>1, SubSeqProperties
  <2> HIDE DEF back
  <2> QED BY <2>2
<1> HIDE DEF front, back
<1>3. /\ front \o back \in Seq(S) /\ Len(front \o back) = Len(path)
      /\ \A i \in 1 .. Len(path) : (front \o back)[i] = IF i <= c THEN front[i] ELSE back[i - c]
  BY <1>1, <1>2, ConcatProperties
<1>4. \A i \in 1 .. Len(path) : (front \o back)[i] = path[i]
  BY <1>1, <1>2, <1>3
<1>5. front \o back = path
  BY <1>3, <1>4, SeqEqual
<1> QED BY <1>5 DEF front, back

(* Whatever is archived reads back.                                          *)
LEMMA RoundTrip ==
  ASSUME NEW tree, NEW name, NEW mtime, CanTarGz(tree, <<name>>, mtime),
         NEW S, \A e \in EntriesFromDir(tree, <<name>>) : e.path \in Seq(S)
  PROVE  ReadTar(TarGz(tree, <<name>>, mtime)) = Members(tree, name, mtime)
<1> DEFINE entries == EntriesFromDir(tree, <<name>>)
           written(e) == [header |-> Header(e, mtime), data |-> Data(e.node)]
           back(m) == [path |-> m.header.prefix \o m.header.name, typeflag |-> m.header.typeflag,
                       mode |-> m.header.mode, mtime |-> m.header.mtime, data |-> m.data]
           member(e) == [path |-> e.path, typeflag |-> e.node.kind, mode |-> Mode(e.node),
                         mtime |-> mtime, data |-> Data(e.node)]
<1>1. ASSUME NEW e \in entries PROVE back(written(e)) = member(e)
  <2>1. Splittable(e) /\ e.path \in Seq(S) /\ Len(e.path) \in Nat
    BY <1>1 DEF CanTarGz, Tarable
  <2>2. SubSeq(e.path, 1, Cut(e)) \o SubSeq(e.path, Cut(e) + 1, Len(e.path)) = e.path
    BY <2>1, CutInside, TwoParts
  <2>3. /\ Header(e, mtime).prefix \o Header(e, mtime).name = e.path
        /\ Header(e, mtime).typeflag = e.node.kind /\ Header(e, mtime).mode = Mode(e.node)
        /\ Header(e, mtime).mtime = mtime
    BY <2>2 DEF Header
  <2> QED BY <2>3
<1>2. /\ ReadTar(TarGz(tree, <<name>>, mtime)) = {back(m) : m \in {written(e) : e \in entries}}
      /\ Members(tree, name, mtime) = {member(e) : e \in entries}
  BY Zenon DEF ReadTar, TarGz, TarBytes, Members
<1> HIDE DEF entries, written, back, member
<1> QED BY <1>1, <1>2

(* The names of a release's paths.                                           *)
Names == {Licence, Notice, Bundle, Contents, MacOS, Plist, Pfp, BareName, AppName}

LEMMA Named ==
  ASSUME NEW tree, NEW name \in Names, DOMAIN tree \subseteq Seq(Names),
         NEW e \in EntriesFromDir(tree, <<name>>)
  PROVE  e.path \in Seq(Names)
<1>1. <<name>> \in Seq(Names)
  OBVIOUS
<1>2. e.path = <<name>> \/ \E path \in DOMAIN tree : e.path = <<name>> \o path
  <2>1. \A path, node : Entry(path, node).path = path
    BY DEF Entry
  <2>2. \/ e = Entry(<<name>>, Dir)
        \/ \E path \in DOMAIN tree : e = Entry(<<name>> \o path, tree[path])
    BY DEF EntriesFromDir
  <2>3. CASE e = Entry(<<name>>, Dir)
    BY <2>1, <2>3
  <2>4. ASSUME NEW path \in DOMAIN tree, e = Entry(<<name>> \o path, tree[path])
        PROVE  e.path = <<name>> \o path
    BY <2>1, <2>4
  <2> QED BY <2>2, <2>3, <2>4
<1> QED BY <1>1, <1>2, ConcatProperties

LEMMA StagedNamed ==
  ASSUME NEW exe
  PROVE  /\ DOMAIN StagedBare(exe) \subseteq Seq(Names) /\ DOMAIN StagedApp(exe) \subseteq Seq(Names)
         /\ BareName \in Names /\ AppName \in Names
<1>1. /\ Licence \in Names /\ Notice \in Names /\ Bundle \in Names /\ Contents \in Names
      /\ MacOS \in Names /\ Plist \in Names /\ Pfp \in Names
      /\ BareName \in Names /\ AppName \in Names
  BY Zenon DEF Names
<1>2. DOMAIN StagedBare(exe) = {<<Pfp>>, <<Licence>>, <<Notice>>}
  BY DEF StagedBare, BarePath
<1>3. DOMAIN StagedApp(exe) =
        {<<Bundle>>, <<Bundle, Contents>>, <<Bundle, Contents, Plist>>, <<Bundle, Contents, MacOS>>,
         <<Bundle, Contents, MacOS, Pfp>>, <<Licence>>, <<Notice>>}
  BY DEF StagedApp, AppPath
<1> HIDE DEF Names
<1> QED BY <1>1, <1>2, <1>3

LEMMA PackedReadsBack ==
  ASSUME PackedInv, pc \in Packed
  PROVE  /\ ReadTar(Files["bare.tgz"]) = Members(StagedBare(job.exe), BareName, job.epoch)
         /\ ReadTar(Files["app.tgz"]) = Members(StagedApp(job.exe), AppName, job.epoch)
<1> DEFINE exe == job.exe
           epoch == job.epoch
<1>1. /\ Files["bare.tgz"] = TarGz(StagedBare(exe), <<BareName>>, epoch)
      /\ CanTarGz(StagedBare(exe), <<BareName>>, epoch)
      /\ Files["app.tgz"] = TarGz(StagedApp(exe), <<AppName>>, epoch)
      /\ CanTarGz(StagedApp(exe), <<AppName>>, epoch)
  BY DEF PackedInv, Packing, BareStream, AppStream, BareTarable, AppTarable
<1> HIDE DEF exe, epoch
<1>2. ReadTar(Files["bare.tgz"]) = Members(StagedBare(exe), BareName, epoch)
  <2>1. \A e \in EntriesFromDir(StagedBare(exe), <<BareName>>) : e.path \in Seq(Names)
    BY StagedNamed, Named
  <2> QED BY <1>1, <2>1, RoundTrip
<1>3. ReadTar(Files["app.tgz"]) = Members(StagedApp(exe), AppName, epoch)
  <2>1. \A e \in EntriesFromDir(StagedApp(exe), <<AppName>>) : e.path \in Seq(Names)
    BY StagedNamed, Named
  <2> QED BY <1>1, <2>1, RoundTrip
<1> QED BY <1>2, <1>3 DEF exe, epoch

-----------------------------------------------------------------------------
(* What the lists of checksums vouch for                                     *)

(* The steps by what they do to the output directories.                      *)
LEMMA OutShapes ==
  ASSUME TypeInv, FilesInv, Next
  PROVE  \/ UNCHANGED out \/ (\E files \in Entrywise : RemoveDirAll(files)) \/ WriteSums
         \/ /\ pc \in Running /\ job'.targets = job.targets /\ "SHA256SUMS" \notin DOMAIN Files
            /\ \E file, content : /\ Write(file, content)
                                  /\ file = "SHA256SUMS" => content = NoFiles
<1> USE DEF Running, Checked, Signed, Slicing
<1>1. ASSUME NEW v \in Version, EditRust(v) \/ EditWeb(v) PROVE UNCHANGED out
  BY <1>1 DEF EditRust, EditWeb
<1>2. CASE CleanOutput \/ Stop \/ StartReport \/ StartBuildWeb
  BY <1>2 DEF CleanOutput, Stop, StartReport, StartBuildWeb, Start
<1>3. ASSUME NEW targets \in Builds, NEW epoch \in Epoch, NEW skip \in BOOLEAN,
             StartDist(targets, epoch, skip)
      PROVE  UNCHANGED out
  BY <1>3 DEF StartDist, Start
<1>4. CASE WriteReport \/ ViteEmpties \/ ViteEmptied \/ ViteEmits
  BY <1>4 DEF WriteReport, ViteEmpties, ViteEmptied, ViteEmits
<1>5. CASE WriteStamp \/ CheckBundle \/ ListBundle \/ Cleared \/ CheckSlices
  BY <1>5 DEF WriteStamp, CheckBundle, ListBundle, Cleared, CheckSlices
<1>6. ASSUME NEW arch \in Arch, Build(arch) PROVE UNCHANGED out
  BY <1>6, BuildShape
<1>7. CASE ReadBack \/ ScanMagic
  BY <1>7 DEF ReadBack, ScanMagic
<1>8. ASSUME NEW packages \in Sboms, NEW hasGraph \in BOOLEAN, Sbom(packages, hasGraph)
      PROVE  UNCHANGED out
  BY <1>8 DEF Sbom
<1>9. CASE Sign
  <2>1. pc = "sign" /\ job'.targets = job.targets /\ DOMAIN Files = {}
    BY <1>9, SignTyped DEF Sign, FilesInv
  <2>2. \E content : Write("work", content)
    BY <1>9 DEF Sign
  <2> QED BY <2>1, <2>2
<1>10. CASE StageApp \/ StageBare \/ PackBare \/ PackApp \/ WriteManifest \/ CreateSums
  <2>1. job' = job /\ pc \in Signed \ {"sumlines", "done"}
    BY <1>10 DEF StageApp, StageBare, PackBare, PackApp, WriteManifest, CreateSums
  <2>2. "SHA256SUMS" \notin DOMAIN Files
    BY <2>1 DEF FilesInv
  <2>3. \E file, content : Write(file, content) /\ (file = "SHA256SUMS" => content = NoFiles)
    <3>1. CASE StageApp
      <4>1. \E content : Write("app", content)
        BY <3>1 DEF StageApp
      <4> QED BY <4>1
    <3>2. CASE StageBare
      <4>1. \E content : Write("bare", content)
        BY <3>2 DEF StageBare
      <4> QED BY <4>1
    <3>3. CASE PackBare
      <4>1. \E content : Write("bare.tgz", content)
        BY <3>3 DEF PackBare
      <4> QED BY <4>1
    <3>4. CASE PackApp
      <4>1. \E content : Write("app.tgz", content)
        BY <3>4 DEF PackApp
      <4> QED BY <4>1
    <3>5. CASE WriteManifest
      <4>1. \E content : Write("dist-manifest.json", content)
        BY <3>5 DEF WriteManifest
      <4> QED BY <4>1
    <3>6. CASE CreateSums
      BY <3>6 DEF CreateSums
    <3> QED BY <1>10, <3>1, <3>2, <3>3, <3>4, <3>5, <3>6
  <2> QED BY <2>1, <2>2, <2>3
<1> QED BY <1>1, <1>2, <1>3, <1>4, <1>5, <1>6, <1>7, <1>8, <1>9, <1>10 DEF Next, Arch

(* What is removed was vouched for as long as it was there; the list may go  *)
(* first or last.                                                            *)
LEMMA RemovedKept ==
  ASSUME TypeInv, ReleaseIsOne, NEW files \in Entrywise, RemoveDirAll(files)
  PROVE  ReleaseIsOne'
<1> DEFINE left == Restrict(Files, DOMAIN Files \ files)
<1>1. out' = [out EXCEPT ![Here] = left] /\ Here \in Label /\ DOMAIN out = Label
  BY DEF RemoveDirAll, Files, TypeInv, Running, Here, Label
<1>2. DOMAIN left = DOMAIN Files \ files /\ \A f \in DOMAIN left : left[f] = Files[f]
  BY DEF Restrict
<1> HIDE DEF left
<1>3. ASSUME NEW label \in Summed' PROVE OneRelease(out'[label], label)
  <2>1. label \in Label
    BY <1>3 DEF Summed
  <2>2. CASE label # Here
    <3>1. out'[label] = out[label]
      BY <1>1, <2>1, <2>2
    <3>2. label \in Summed
      BY <1>3, <3>1 DEF Summed
    <3> QED BY <3>1, <3>2 DEF ReleaseIsOne
  <2>3. CASE label = Here
    <3>1. out'[label] = left /\ out[label] = Files
      BY <1>1, <2>3 DEF Files
    <3>2. "SHA256SUMS" \in DOMAIN left /\ left["SHA256SUMS"] # NoFiles
      BY <1>3, <3>1 DEF Summed
    <3>3. left["SHA256SUMS"] = Files["SHA256SUMS"] /\ label \in Summed
      BY <1>2, <2>1, <3>1, <3>2 DEF Summed
    <3>4. OneRelease(Files, label)
      BY <3>1, <3>3 DEF ReleaseIsOne
    <3> QED BY <1>2, <3>1, <3>3, <3>4 DEF OneRelease
  <2> QED BY <2>2, <2>3
<1> QED BY <1>3 DEF ReleaseIsOne

(* The list is complete when it is written, and of what is there.            *)
LEMMA SummedUp ==
  ASSUME TypeInv, ExeInv, FilesInv, PackedInv, WriteSums
  PROVE  Here' = Here /\ OneRelease(Files', Here)
<1>1. pc = "sumlines" /\ pc \in Running /\ job' = job /\ Write("SHA256SUMS", Render(Files))
  BY DEF WriteSums, Running, Checked, Signed
<1>2. /\ Here' = Here /\ DOMAIN Files' = DOMAIN Files \cup {"SHA256SUMS"}
      /\ Files'["SHA256SUMS"] = Render(Files)
      /\ \A f \in DOMAIN Files \ {"SHA256SUMS"} : Files'[f] = Files[f]
  BY <1>1, Written
<1>3. /\ Artifacts \subseteq DOMAIN Files /\ ~ ContainsMagic(job.exe)
      /\ Files["dist-manifest.json"] = Said
  BY <1>1 DEF FilesInv, Artifacts
<1>4. /\ ReadTar(Files["bare.tgz"]) = Members(StagedBare(job.exe), BareName, job.epoch)
      /\ ReadTar(Files["app.tgz"]) = Members(StagedApp(job.exe), AppName, job.epoch)
  BY <1>1, PackedReadsBack DEF Packed
<1>5. /\ DOMAIN Render(Files) = Artifacts /\ \A f \in Artifacts : Render(Files)[f] = Files[f]
  BY <1>3 DEF Render
<1>6. job.exe.signed /\ Whole(job.exe, Here, job.listing)
  BY <1>1 DEF ExeInv, Checked, Signed
<1>7. \A f \in Artifacts : Files'[f] = Files[f]
  BY <1>2, <1>3 DEF Artifacts
<1>8. "app.tgz" \in Artifacts /\ "bare.tgz" \in Artifacts /\ "dist-manifest.json" \in Artifacts
  BY DEF Artifacts
<1>9. /\ Said.targets = Here /\ Said.web_dist = job.listing /\ Said.signed_sha256 = job.exe
      /\ Said.source_date_epoch = job.epoch
  BY DEF Said
<1> HIDE DEF Files
<1> QED BY <1>2, <1>3, <1>4, <1>5, <1>6, <1>7, <1>8, <1>9 DEF OneRelease, Whole

LEMMA ReleaseKept ==
  ASSUME TypeInv, ExeInv, FilesInv, PackedInv, ReleaseIsOne, Next PROVE ReleaseIsOne'
<1>1. CASE UNCHANGED out
  BY <1>1 DEF ReleaseIsOne, Summed
<1>2. CASE WriteSums
  <2>1. pc \in Running /\ job'.targets = job.targets /\ Write("SHA256SUMS", Render(Files))
    BY <1>2 DEF WriteSums, Running, Checked, Signed
  <2>2. Here \in Label /\ \A label \in Label \ {Here} : out'[label] = out[label]
    BY <2>1, Written
  <2>3. Here' = Here /\ OneRelease(out'[Here], Here)
    BY <1>2, SummedUp DEF Files
  <2>4. ASSUME NEW label \in Summed' PROVE OneRelease(out'[label], label)
    <3>1. CASE label = Here
      BY <2>3, <3>1
    <3>2. CASE label # Here
      <4>1. out'[label] = out[label] /\ label \in Summed
        BY <2>2, <2>4, <3>2 DEF Summed
      <4> QED BY <4>1 DEF ReleaseIsOne
    <3> QED BY <3>1, <3>2
  <2> QED BY <2>4 DEF ReleaseIsOne
<1>3. ASSUME pc \in Running, job'.targets = job.targets, "SHA256SUMS" \notin DOMAIN Files,
             NEW file, NEW content, Write(file, content),
             file = "SHA256SUMS" => content = NoFiles
      PROVE  ReleaseIsOne'
  <2>1. /\ Here' = Here /\ Here \in Label /\ DOMAIN Files' = DOMAIN Files \cup {file}
        /\ Files'[file] = content
        /\ \A label \in Label \ {Here} : out'[label] = out[label]
    BY <1>3, Written
  <2>2. Here \notin Summed'
    <3>1. Files' = out'[Here]
      BY <2>1 DEF Files
    <3> QED BY <1>3, <2>1, <3>1 DEF Summed
  <2>3. ASSUME NEW label \in Summed' PROVE OneRelease(out'[label], label)
    <3>1. out'[label] = out[label] /\ label \in Summed
      BY <2>1, <2>2, <2>3 DEF Summed
    <3> QED BY <3>1 DEF ReleaseIsOne
  <2> QED BY <2>3 DEF ReleaseIsOne
<1> QED BY <1>1, <1>2, <1>3, RemovedKept, OutShapes

-----------------------------------------------------------------------------
(* The licence assertion: judge reads an expression as the grammar does. The *)
(* parser is a function of the text, for a call has less left than the one   *)
(* that makes it; what it returns is derived (Soundness), and what is        *)
(* derived it returns (Completeness).                                        *)

(* Strong induction, on a set instead of a property.                         *)
LEMMA Complete ==
  ASSUME NEW T, \A n \in Nat : (\A m \in Nat : m < n => m \in T) => n \in T
  PROVE  Nat \subseteq T
<1> SUFFICES ASSUME Nat \ T # {} PROVE FALSE
  OBVIOUS
<1>1. PICK low \in Nat \ T : \A k \in Nat \ T : low <= k
  BY LeastElement
<1>2. \A m \in Nat : m < low => m \in T
  BY <1>1
<1> QED BY <1>1, <1>2

(* A function may be defined by its values at what has a lesser measure, if  *)
(* measures are bounded.                                                     *)
Defines(F, mu, D, G, U, V, N) ==
  /\ N \in Nat
  /\ \A x \in D : mu[x] \in Nat /\ mu[x] < N
  /\ G = {g \in [D -> U] : \A x \in D : g[x] \in V[x]}
  /\ G # {}
  /\ \A g \in G, x \in D : F[<<g, x>>] \in U /\ F[<<g, x>>] \in V[x]
  /\ \A g, h \in G, x \in D :
       (\A y \in D : mu[y] < mu[x] => g[y] = h[y]) => F[<<g, x>>] = F[<<h, x>>]

(* A function given at each point by its values at points of lower rank      *)
(* exists, and takes there a value allowed at that point.                    *)
LEMMA Recursion ==
  ASSUME NEW D, NEW G, NEW U, NEW V, NEW F, NEW mu, NEW N, Defines(F, mu, D, G, U, V, N)
  PROVE  \E f \in G : \A x \in D : f[x] = F[<<f, x>>]
<1>a. /\ N \in Nat
      /\ \A x \in D : mu[x] \in Nat /\ mu[x] < N
      /\ G = {g \in [D -> U] : \A x \in D : g[x] \in V[x]}
      /\ G # {}
  BY DEF Defines
<1>b. \A g \in G, x \in D : F[<<g, x>>] \in U /\ F[<<g, x>>] \in V[x]
  BY DEF Defines
<1>c. \A g, h \in G, x \in D :
       (\A y \in D : mu[y] < mu[x] => g[y] = h[y]) => F[<<g, x>>] = F[<<h, x>>]
  BY DEF Defines
<1> DEFINE Upto(f, n) == \A x \in D : mu[x] < n => f[x] = F[<<f, x>>]
           T == {n \in Nat : \E f \in G : Upto(f, n)}
<1>1. 0 \in T
  BY <1>a
<1>2. ASSUME NEW n \in T PROVE n + 1 \in T
  <2>1. PICK f \in G : Upto(f, n)
    OBVIOUS
  <2> DEFINE h == [x \in D |-> IF mu[x] = n THEN F[<<f, x>>] ELSE f[x]]
  <2>2. h \in G
    BY <1>a, <1>b
  <2>3. ASSUME NEW x \in D, mu[x] < n + 1 PROVE h[x] = F[<<h, x>>]
    <3>1. \A y \in D : mu[y] < mu[x] => f[y] = h[y]
      BY <1>a, <2>3
    <3>2. F[<<f, x>>] = F[<<h, x>>]
      BY <1>c, <2>2, <3>1
    <3> QED BY <1>a, <2>1, <2>3, <3>2
  <2> HIDE DEF h
  <2> QED BY <2>2, <2>3
<1>3. \A n \in Nat : (\A m \in Nat : m < n => m \in T) => n \in T
  <2> SUFFICES ASSUME NEW n \in Nat, \A m \in Nat : m < n => m \in T PROVE n \in T
    OBVIOUS
  <2> HIDE DEF T
  <2>1. CASE n = 0
    BY <1>1, <2>1
  <2>2. CASE n # 0
    <3>1. n - 1 \in Nat /\ n - 1 < n
      BY <2>2
    <3>2. n - 1 + 1 = n
      BY <2>2
    <3>3. n - 1 \in T
      BY <3>1
    <3> QED BY <1>2, <3>2, <3>3
  <2> QED BY <2>1, <2>2
<1>4. N \in T
  <2> HIDE DEF T
  <2> QED BY <1>a, <1>3, Complete
<1>5. PICK f \in G : Upto(f, N)
  BY <1>4
<1> QED BY <1>a, <1>5

-----------------------------------------------------------------------------
(* The parser                                                                *)

Results(tokens) == [expr : Exprs(tokens), at : 0 .. Len(tokens) + 1]
IsLoop(call) == call.fn \in {"and_loop", "or_loop"}
Advances(call, result) ==
  result.at = 0 \/ result.at > call.at \/ (IsLoop(call) /\ result.at = call.at)
Parsers(tokens) ==
  {g \in [Calls(tokens) -> Results(tokens)] :
     \A call \in Calls(tokens) : Advances(call, g[call])}

Rank(fn) == IF fn = "with" THEN 1 ELSE IF fn = "and" THEN 2 ELSE IF fn = "or" THEN 3 ELSE 0
Left(tokens, call) == 4 * (Len(tokens) + 1 - call.at) + Rank(call.fn)

LEMMA LenNat ==
  ASSUME NEW S, NEW tokens \in Seq(S) PROVE Len(tokens) \in Nat
OBVIOUS

LEMMA InResults ==
  ASSUME NEW tokens, NEW e \in Exprs(tokens), NEW at \in 0 .. Len(tokens) + 1
  PROVE  /\ Parsed(e, at) \in Results(tokens)
         /\ Parsed(e, at).expr = e /\ Parsed(e, at).at = at
BY DEF Results, Parsed

LEMMA ResultHas ==
  ASSUME NEW tokens, NEW r \in Results(tokens)
  PROVE  /\ r.expr \in Exprs(tokens) /\ r.at \in 0 .. Len(tokens) + 1
         /\ r = Parsed(r.expr, r.at)
BY DEF Results, Parsed

LEMMA TokenIn ==
  ASSUME NEW S, NEW tokens \in Seq(S), NEW at \in 1 .. Len(tokens)
  PROVE  tokens[at] \in ToSet(tokens)
BY DEF ToSet

LEMMA ExprsMade ==
  ASSUME NEW tokens, NEW a \in Exprs(tokens), NEW b \in Exprs(tokens),
         NEW name \in ToSet(tokens), NEW exception
  PROVE  /\ NoExpr \in Exprs(tokens) /\ Id(name) \in Exprs(tokens)
         /\ With(a, exception) \in Exprs(tokens)
         /\ And(a, b) \in Exprs(tokens) /\ Or(a, b) \in Exprs(tokens)
<1>1. /\ a.ids \in SUBSET ToSet(tokens) /\ b.ids \in SUBSET ToSet(tokens)
      /\ a.fit \in BOOLEAN
  BY DEF Exprs
<1>2. NoExpr \in Exprs(tokens) /\ Id(name) \in Exprs(tokens)
  BY DEF Exprs, NoExpr, Id
<1>3. With(a, exception) \in Exprs(tokens)
  BY <1>1 DEF Exprs, With
<1>4. And(a, b) \in Exprs(tokens) /\ Or(a, b) \in Exprs(tokens)
  BY <1>1 DEF Exprs, And, Or
<1> QED BY <1>2, <1>3, <1>4

LEMMA CallsMade ==
  ASSUME NEW S, NEW tokens \in Seq(S), NEW at \in 1 .. Len(tokens) + 1,
         NEW fn \in {"or", "and", "with", "primary"}
  PROVE  /\ Call(fn, at) \in Calls(tokens) /\ Call(fn, at).fn = fn /\ Call(fn, at).at = at
         /\ ~ IsLoop(Call(fn, at))
<1>1. NoExpr \in Exprs(tokens)
  BY DEF NoExpr, Exprs
<1> QED BY <1>1 DEF Call, Calls, IsLoop

LEMMA LoopsMade ==
  ASSUME NEW S, NEW tokens \in Seq(S), NEW left \in Results(tokens), left.at # 0,
         NEW fn \in {"or_loop", "and_loop"}
  PROVE  /\ Loop(fn, left) \in Calls(tokens) /\ Loop(fn, left).fn = fn
         /\ Loop(fn, left).at = left.at /\ Loop(fn, left).left = left.expr
         /\ IsLoop(Loop(fn, left))
<1>1. PICK n \in Nat : n = Len(tokens)
  BY LenNat
<1> n \in Nat
  BY <1>1
<1>2. left.at \in 0 .. n + 1 /\ left.expr \in Exprs(tokens)
  BY <1>1, ResultHas
<1>3. left.at \in 1 .. n + 1
  BY <1>2
<1> QED BY <1>1, <1>2, <1>3 DEF Loop, Calls, IsLoop

(* What a parser returns for a call.                                         *)
LEMMA ReturnedBy ==
  ASSUME NEW S, NEW tokens \in Seq(S), NEW g \in Parsers(tokens), NEW call \in Calls(tokens)
  PROVE  /\ g[call] \in Results(tokens) /\ g[call].expr \in Exprs(tokens)
         /\ g[call].at \in 0 .. Len(tokens) + 1
         /\ g[call].at = 0 \/ g[call].at > call.at \/ (IsLoop(call) /\ g[call].at = call.at)
<1>1. g[call] \in Results(tokens) /\ Advances(call, g[call])
  BY DEF Parsers
<1> QED BY <1>1 DEF Results, Advances

(* What a parsing function returns, given what its calls return, is a result *)
(* of its type, beyond the token it was called at unless it failed.          *)
LEMMA ReturnsMade ==
  ASSUME NEW S, NEW tokens \in Seq(S), NEW g \in Parsers(tokens), NEW call \in Calls(tokens)
  PROVE  /\ Returns(tokens, g, call) \in Results(tokens)
         /\ Advances(call, Returns(tokens, g, call))
<1> DEFINE Fits(result) == result \in Results(tokens) /\ Advances(call, result)
<1>n. PICK n \in Nat : n = Len(tokens)
  BY LenNat
<1> n \in Nat
  BY <1>n
<1>0. /\ call.at \in 1 .. n + 1 /\ call.left \in Exprs(tokens)
      /\ call.fn \in {"or", "or_loop", "and", "and_loop", "with", "primary"}
  BY <1>n DEF Calls
<1>a. Fits(Failed)
  BY DEF Failed, Parsed, Results, Advances, NoExpr, Exprs
<1>b. ASSUME NEW e \in Exprs(tokens), NEW at \in 1 .. n + 1, at > call.at
      PROVE  Fits(Parsed(e, at))
  <2>1. at \in 0 .. n + 1
    OBVIOUS
  <2>2. Parsed(e, at) \in Results(tokens) /\ Parsed(e, at).at = at
    BY <1>n, <2>1, InResults
  <2> QED BY <1>b, <2>2 DEF Advances
<1>l. ASSUME NEW fn \in {"or_loop", "and_loop"}, NEW e \in Exprs(tokens),
             NEW at \in 1 .. n + 1, at > call.at
      PROVE  Fits(g[Loop(fn, Parsed(e, at))])
  <2> DEFINE left == Parsed(e, at)
             loop == Loop(fn, left)
  <2>0. at \in 0 .. n + 1 /\ at # 0
    OBVIOUS
  <2>1. left \in Results(tokens) /\ left.at = at /\ left.at # 0
    BY <1>n, <2>0, InResults
  <2> HIDE DEF left
  <2>2. loop \in Calls(tokens) /\ loop.at = at
    BY <2>1, LoopsMade
  <2> HIDE DEF loop
  <2>3. g[loop] \in Results(tokens) /\ (g[loop].at = 0 \/ g[loop].at > at \/ g[loop].at = at)
    BY <2>2, ReturnedBy
  <2>4. g[loop].at \in 0 .. n + 1
    BY <1>n, <2>2, ReturnedBy
  <2>5. g[loop].at = 0 \/ g[loop].at > call.at
    <3> DEFINE to == g[loop].at
    <3>1. to \in 0 .. n + 1 /\ (to = 0 \/ to > at \/ to = at)
      BY <2>3, <2>4
    <3> HIDE DEF to
    <3>2. to = 0 \/ to > call.at
      BY <1>l, <1>0, <3>1
    <3> QED BY <3>2 DEF to
  <2> QED BY <2>3, <2>5 DEF Advances, loop, left
<1>k. ASSUME NEW at \in 1 .. n + 1, at >= call.at, NEW fn \in {"or", "and", "with", "primary"}
      PROVE  LET r == g[Call(fn, at)]
             IN r.expr \in Exprs(tokens) /\ r.at \in 0 .. n + 1 /\ (r.at = 0 \/ r.at > call.at)
                /\ r = Parsed(r.expr, r.at)
  <2> DEFINE r == g[Call(fn, at)]
  <2>1. Call(fn, at) \in Calls(tokens) /\ Call(fn, at).at = at /\ ~ IsLoop(Call(fn, at))
    BY <1>n, CallsMade
  <2>2. /\ r \in Results(tokens) /\ r.expr \in Exprs(tokens) /\ r.at \in 0 .. n + 1
        /\ r.at = 0 \/ r.at > at
    BY <1>n, <2>1, ReturnedBy
  <2>3. r = Parsed(r.expr, r.at)
    BY <2>2, ResultHas
  <2> HIDE DEF r
  <2>4. r.at = 0 \/ r.at > call.at
    BY <1>k, <1>0, <2>2
  <2> USE DEF r
  <2> QED BY <2>2, <2>3, <2>4
<1>1. CASE call.fn = "primary"
  <2>1. Fits(Primary(tokens, g, call.at))
    <3>1. CASE call.at > n \/ (tokens[call.at] \in Operators \cup {")"})
      BY <1>a, <1>n, <3>1 DEF Primary
    <3>2. CASE call.at \in 1 .. n /\ tokens[call.at] \notin Operators \cup {")"} /\ tokens[call.at] # "("
      <4>1. tokens[call.at] \in ToSet(tokens)
        BY <1>n, <3>2, TokenIn
      <4>2. Id(tokens[call.at]) \in Exprs(tokens)
        BY <4>1 DEF Exprs, Id
      <4>3. call.at + 1 \in 1 .. n + 1 /\ call.at + 1 > call.at /\ ~ (call.at > n)
        BY <3>2
      <4>4. Fits(Parsed(Id(tokens[call.at]), call.at + 1))
        BY <1>b, <4>2, <4>3
      <4> QED BY <1>n, <3>2, <4>3, <4>4 DEF Primary
    <3>3. CASE call.at \in 1 .. n /\ tokens[call.at] = "("
      <4> DEFINE inner == g[Call("or", call.at + 1)]
      <4>1. inner.expr \in Exprs(tokens) /\ inner.at \in 0 .. n + 1 /\ (inner.at = 0 \/ inner.at > call.at)
        BY <1>k, <3>3
      <4> HIDE DEF inner
      <4>2. Peeks(tokens, inner.at, ")") => Fits(Parsed(inner.expr, inner.at + 1))
        BY <1>b, <1>n, <4>1, <3>3 DEF Peeks
      <4> QED BY <1>a, <4>2, <3>3 DEF Primary, Operators, inner
    <3> QED BY <3>1, <3>2, <3>3, <1>0
  <2> QED BY <1>1, <2>1 DEF Returns
<1>2. CASE call.fn = "with"
  <2> DEFINE base == g[Call("primary", call.at)]
  <2>1. /\ base.expr \in Exprs(tokens) /\ base.at \in 0 .. n + 1
        /\ base.at = 0 \/ base.at > call.at
        /\ base = Parsed(base.expr, base.at)
    BY <1>k, <1>0
  <2>2. base \in Results(tokens)
    <3>1. Call("primary", call.at) \in Calls(tokens)
      BY <1>0, <1>n, CallsMade
    <3> QED BY <3>1, ReturnedBy
  <2> HIDE DEF base
  <2>3. Fits(base)
    BY <2>1, <2>2 DEF Advances
  <2>4. ASSUME Peeks(tokens, base.at, "WITH"), base.at < n
        PROVE  Fits(Parsed(With(base.expr, tokens[base.at + 1]), base.at + 2))
    <3>1. With(base.expr, tokens[base.at + 1]) \in Exprs(tokens)
      BY <2>1 DEF With, Exprs
    <3>2. base.at + 2 \in 1 .. n + 1 /\ base.at + 2 > call.at
      BY <2>1, <2>4, <1>0 DEF Peeks
    <3> QED BY <1>b, <3>1, <3>2
  <2>5. Fits(ParseWith(tokens, g, call.at))
    BY <1>a, <1>n, <2>3, <2>4 DEF ParseWith, base
  <2> QED BY <1>2, <2>5 DEF Returns
<1>3. CASE call.fn = "and"
  <2>1. Fits(ParseAnd(g, call.at))
    <3> DEFINE first == g[Call("with", call.at)]
    <3>1. /\ first.expr \in Exprs(tokens) /\ first.at \in 0 .. n + 1
          /\ first.at = 0 \/ first.at > call.at
          /\ first = Parsed(first.expr, first.at)
      BY <1>k, <1>0
    <3> HIDE DEF first
    <3>2. first.at # 0 => Fits(g[Loop("and_loop", first)])
      BY <1>l, <3>1
    <3> QED BY <1>a, <3>2 DEF ParseAnd, first
  <2> QED BY <1>3, <2>1 DEF Returns
<1>4. CASE call.fn = "or"
  <2>1. Fits(ParseOr(g, call.at))
    <3> DEFINE first == g[Call("and", call.at)]
    <3>1. /\ first.expr \in Exprs(tokens) /\ first.at \in 0 .. n + 1
          /\ first.at = 0 \/ first.at > call.at
          /\ first = Parsed(first.expr, first.at)
      BY <1>k, <1>0
    <3> HIDE DEF first
    <3>2. first.at # 0 => Fits(g[Loop("or_loop", first)])
      BY <1>l, <3>1
    <3> QED BY <1>a, <3>2 DEF ParseOr, first
  <2> QED BY <1>4, <2>1 DEF Returns
<1>5. CASE call.fn = "and_loop"
  <2> DEFINE left == Parsed(call.left, call.at)
             right == g[Call("with", call.at + 1)]
  <2>1. Fits(left) /\ left.at = call.at /\ left.expr = call.left
    BY <1>0, <1>n, <1>5 DEF Parsed, Results, Advances, IsLoop
  <2> HIDE DEF left
  <2>2. ASSUME Peeks(tokens, left.at, "AND"), right.at # 0
        PROVE  Fits(g[Loop("and_loop", Parsed(And(left.expr, right.expr), right.at))])
    <3>1. call.at + 1 \in 1 .. n + 1
      BY <1>n, <2>1, <2>2 DEF Peeks
    <3>2. right.expr \in Exprs(tokens) /\ right.at \in 1 .. n + 1 /\ right.at > call.at
      BY <1>k, <1>0, <3>1, <2>2
    <3> HIDE DEF right
    <3>3. And(left.expr, right.expr) \in Exprs(tokens)
      BY <1>0, <2>1, <3>2 DEF Exprs, And
    <3> QED BY <1>l, <3>2, <3>3
  <2>3. Fits(AndLoop(tokens, g, left))
    BY <1>a, <2>1, <2>2 DEF AndLoop
  <2> QED BY <1>5, <2>3 DEF Returns, left
<1>6. CASE call.fn = "or_loop"
  <2> DEFINE left == Parsed(call.left, call.at)
             right == g[Call("and", call.at + 1)]
  <2>1. Fits(left) /\ left.at = call.at /\ left.expr = call.left
    BY <1>0, <1>n, <1>6 DEF Parsed, Results, Advances, IsLoop
  <2> HIDE DEF left
  <2>2. ASSUME Peeks(tokens, left.at, "OR"), right.at # 0
        PROVE  Fits(g[Loop("or_loop", Parsed(Or(left.expr, right.expr), right.at))])
    <3>1. call.at + 1 \in 1 .. n + 1
      BY <1>n, <2>1, <2>2 DEF Peeks
    <3>2. right.expr \in Exprs(tokens) /\ right.at \in 1 .. n + 1 /\ right.at > call.at
      BY <1>k, <1>0, <3>1, <2>2
    <3> HIDE DEF right
    <3>3. Or(left.expr, right.expr) \in Exprs(tokens)
      BY <1>0, <2>1, <3>2 DEF Exprs, Or
    <3> QED BY <1>l, <3>2, <3>3
  <2>3. Fits(OrLoop(tokens, g, left))
    BY <1>a, <2>1, <2>2 DEF OrLoop
  <2> QED BY <1>6, <2>3 DEF Returns, left
<1> QED BY <1>0, <1>1, <1>2, <1>3, <1>4, <1>5, <1>6

(* A call nearer the end, or at the same token to a function further down,   *)
(* has less left.                                                            *)
LEMMA Nearer ==
  ASSUME NEW n \in Nat, NEW a \in 1 .. n + 1, NEW b \in 1 .. n + 1,
         NEW r \in 0 .. 3, NEW s \in 0 .. 3, a > b \/ (a = b /\ r < s)
  PROVE  4 * (n + 1 - a) + r < 4 * (n + 1 - b) + s
OBVIOUS

(* A function's answer depends on calls that have less left only.            *)
LEMMA ReturnsLocal ==
  ASSUME NEW S, NEW tokens \in Seq(S), NEW g \in Parsers(tokens), NEW h,
         NEW call \in Calls(tokens),
         \A y \in Calls(tokens) : Left(tokens, y) < Left(tokens, call) => g[y] = h[y]
  PROVE  Returns(tokens, g, call) = Returns(tokens, h, call)
<1>n. PICK n \in Nat : n = Len(tokens)
  BY LenNat
<1> n \in Nat
  BY <1>n
<1>0. /\ call.at \in 1 .. n + 1 /\ call.left \in Exprs(tokens)
      /\ call.fn \in {"or", "or_loop", "and", "and_loop", "with", "primary"}
  BY <1>n DEF Calls
<1>m. Rank(call.fn) \in 0 .. 3 /\ Left(tokens, call) = 4 * (n + 1 - call.at) + Rank(call.fn)
  BY <1>n, <1>0 DEF Rank, Left
<1>k. ASSUME NEW fn \in {"or", "and", "with", "primary"}, NEW at \in 1 .. n + 1,
             at > call.at \/ (at = call.at /\ Rank(fn) < Rank(call.fn))
      PROVE  g[Call(fn, at)] = h[Call(fn, at)]
  <2>1. Call(fn, at) \in Calls(tokens) /\ Call(fn, at).at = at /\ Call(fn, at).fn = fn
    BY <1>n, CallsMade
  <2>2. Rank(fn) \in 0 .. 3
    BY DEF Rank
  <2>3. Left(tokens, Call(fn, at)) = 4 * (n + 1 - at) + Rank(fn)
    BY <1>n, <2>1 DEF Left
  <2>4. 4 * (n + 1 - at) + Rank(fn) < 4 * (n + 1 - call.at) + Rank(call.fn)
    BY <1>0, <1>m, <1>k, <2>2, Nearer
  <2> QED BY <1>m, <2>1, <2>3, <2>4
<1>l. ASSUME NEW fn \in {"or_loop", "and_loop"}, NEW left \in Results(tokens), left.at # 0,
             left.at > call.at
      PROVE  g[Loop(fn, left)] = h[Loop(fn, left)]
  <2>1. /\ Loop(fn, left) \in Calls(tokens) /\ Loop(fn, left).at = left.at
        /\ Loop(fn, left).fn = fn
    BY <1>l, LoopsMade
  <2>2. Rank(fn) = 0
    BY DEF Rank
  <2>3. Left(tokens, Loop(fn, left)) = 4 * (n + 1 - left.at)
    BY <1>n, <2>1, <2>2 DEF Left, Results
  <2>4. left.at \in 0 .. n + 1
    BY <1>n, ResultHas
  <2>5. left.at \in 1 .. n + 1 /\ 0 \in 0 .. 3
    BY <1>l, <2>4
  <2>6. 4 * (n + 1 - left.at) + 0 < 4 * (n + 1 - call.at) + Rank(call.fn)
    BY <1>0, <1>m, <1>l, <2>5, Nearer
  <2> QED BY <1>m, <2>1, <2>3, <2>5, <2>6
<1>r. ASSUME NEW fn \in {"or", "and", "with", "primary"}, NEW at \in 1 .. n + 1
      PROVE  /\ g[Call(fn, at)] \in Results(tokens) /\ g[Call(fn, at)].at \in 0 .. n + 1
             /\ g[Call(fn, at)].at = 0 \/ g[Call(fn, at)].at > at
             /\ g[Call(fn, at)].expr \in Exprs(tokens)
  <2>1. Call(fn, at) \in Calls(tokens) /\ Call(fn, at).at = at /\ ~ IsLoop(Call(fn, at))
    BY <1>n, CallsMade
  <2> QED BY <1>n, <2>1, ReturnedBy
<1>1. CASE call.fn = "primary"
  <2>1. call.at \in 1 .. n => g[Call("or", call.at + 1)] = h[Call("or", call.at + 1)]
    BY <1>0, <1>k
  <2>2. Primary(tokens, g, call.at) = Primary(tokens, h, call.at)
    BY <1>0, <1>n, <2>1 DEF Primary
  <2> QED BY <1>1, <2>2 DEF Returns
<1>2. CASE call.fn = "with"
  <2>1. g[Call("primary", call.at)] = h[Call("primary", call.at)]
    BY <1>0, <1>2, <1>k DEF Rank
  <2>2. ParseWith(tokens, g, call.at) = ParseWith(tokens, h, call.at)
    BY <2>1 DEF ParseWith
  <2> QED BY <1>2, <2>2 DEF Returns
<1>3. CASE call.fn = "and"
  <2> DEFINE first == g[Call("with", call.at)]
  <2>1. first = h[Call("with", call.at)]
    BY <1>0, <1>3, <1>k DEF Rank
  <2>2. /\ first \in Results(tokens) /\ first.at \in 0 .. n + 1
        /\ first.at = 0 \/ first.at > call.at
    BY <1>0, <1>r
  <2>3. first.at # 0 => g[Loop("and_loop", first)] = h[Loop("and_loop", first)]
    BY <2>2, <1>l
  <2>4. ParseAnd(g, call.at) = ParseAnd(h, call.at)
    BY <2>1, <2>3 DEF ParseAnd
  <2> QED BY <1>3, <2>4 DEF Returns
<1>4. CASE call.fn = "or"
  <2> DEFINE first == g[Call("and", call.at)]
  <2>1. first = h[Call("and", call.at)]
    BY <1>0, <1>4, <1>k DEF Rank
  <2>2. /\ first \in Results(tokens) /\ first.at \in 0 .. n + 1
        /\ first.at = 0 \/ first.at > call.at
    BY <1>0, <1>r
  <2>3. first.at # 0 => g[Loop("or_loop", first)] = h[Loop("or_loop", first)]
    BY <2>2, <1>l
  <2>4. ParseOr(g, call.at) = ParseOr(h, call.at)
    BY <2>1, <2>3 DEF ParseOr
  <2> QED BY <1>4, <2>4 DEF Returns
<1>5. CASE call.fn = "and_loop"
  <2> DEFINE left == Parsed(call.left, call.at)
             right == g[Call("with", call.at + 1)]
             both == Parsed(And(left.expr, right.expr), right.at)
  <2>1. left.at = call.at /\ left.expr = call.left
    BY DEF Parsed
  <2>2. ASSUME Peeks(tokens, left.at, "AND")
        PROVE  /\ right = h[Call("with", call.at + 1)]
               /\ right.at # 0 => g[Loop("and_loop", both)] = h[Loop("and_loop", both)]
    <3>1. call.at + 1 \in 1 .. n + 1 /\ call.at + 1 > call.at
      BY <1>0, <1>n, <2>1, <2>2 DEF Peeks
    <3>2. right = h[Call("with", call.at + 1)]
      BY <1>k, <3>1
    <3>3. /\ right \in Results(tokens) /\ right.at \in 0 .. n + 1
          /\ right.at = 0 \/ right.at > call.at + 1
          /\ right.expr \in Exprs(tokens)
      BY <1>r, <3>1
    <3> HIDE DEF right
    <3>4. And(left.expr, right.expr) \in Exprs(tokens)
      BY <1>0, <2>1, <3>3 DEF Exprs, And
    <3>5. both \in Results(tokens) /\ both.at = right.at
      BY <1>n, <3>3, <3>4, InResults
    <3> HIDE DEF both
    <3>6. right.at # 0 => both.at # 0 /\ both.at > call.at
      BY <1>0, <3>3, <3>5
    <3>7. right.at # 0 => g[Loop("and_loop", both)] = h[Loop("and_loop", both)]
      BY <1>l, <3>5, <3>6
    <3> QED BY <3>2, <3>7 DEF right, both
  <2> HIDE DEF left
  <2>3. AndLoop(tokens, g, left) = AndLoop(tokens, h, left)
    BY <2>1, <2>2 DEF AndLoop
  <2> QED BY <1>5, <2>3 DEF Returns, left
<1>6. CASE call.fn = "or_loop"
  <2> DEFINE left == Parsed(call.left, call.at)
             right == g[Call("and", call.at + 1)]
             either == Parsed(Or(left.expr, right.expr), right.at)
  <2>1. left.at = call.at /\ left.expr = call.left
    BY DEF Parsed
  <2>2. ASSUME Peeks(tokens, left.at, "OR")
        PROVE  /\ right = h[Call("and", call.at + 1)]
               /\ right.at # 0 => g[Loop("or_loop", either)] = h[Loop("or_loop", either)]
    <3>1. call.at + 1 \in 1 .. n + 1 /\ call.at + 1 > call.at
      BY <1>0, <1>n, <2>1, <2>2 DEF Peeks
    <3>2. right = h[Call("and", call.at + 1)]
      BY <1>k, <3>1
    <3>3. /\ right \in Results(tokens) /\ right.at \in 0 .. n + 1
          /\ right.at = 0 \/ right.at > call.at + 1
          /\ right.expr \in Exprs(tokens)
      BY <1>r, <3>1
    <3> HIDE DEF right
    <3>4. Or(left.expr, right.expr) \in Exprs(tokens)
      BY <1>0, <2>1, <3>3 DEF Exprs, Or
    <3>5. either \in Results(tokens) /\ either.at = right.at
      BY <1>n, <3>3, <3>4, InResults
    <3> HIDE DEF either
    <3>6. right.at # 0 => either.at # 0 /\ either.at > call.at
      BY <1>0, <3>3, <3>5
    <3>7. right.at # 0 => g[Loop("or_loop", either)] = h[Loop("or_loop", either)]
      BY <1>l, <3>5, <3>6
    <3> QED BY <3>2, <3>7 DEF right, either
  <2> HIDE DEF left
  <2>3. OrLoop(tokens, g, left) = OrLoop(tokens, h, left)
    BY <2>1, <2>2 DEF OrLoop
  <2> QED BY <1>6, <2>3 DEF Returns, left
<1> QED BY <1>0, <1>1, <1>2, <1>3, <1>4, <1>5, <1>6

(* So the parser is the function its definition says, for every text.        *)
LEMMA ParserIs ==
  ASSUME NEW S, NEW tokens \in Seq(S)
  PROVE  /\ Parser(tokens) \in Parsers(tokens)
         /\ \A call \in Calls(tokens) : Parser(tokens)[call] = Returns(tokens, Parser(tokens), call)
<1>n. PICK n \in Nat : n = Len(tokens)
  BY LenNat
<1> n \in Nat
  BY <1>n
<1> DEFINE D == Calls(tokens)
           G == Parsers(tokens)
           U == Results(tokens)
           V == [call \in D |-> {r \in U : Advances(call, r)}]
           F == [p \in G \X D |-> Returns(tokens, p[1], p[2])]
           mu == [call \in D |-> Left(tokens, call)]
           N == 4 * n + 8
<1>1. \A x \in D : mu[x] \in Nat /\ mu[x] < N
  <2> TAKE x \in D
  <2>1. x.at \in 1 .. n + 1 /\ Rank(x.fn) \in 0 .. 3
    BY <1>n DEF Calls, Rank
  <2>2. Left(tokens, x) = 4 * (n + 1 - x.at) + Rank(x.fn)
    BY <1>n DEF Left
  <2>3. \A a \in 1 .. n + 1, r \in 0 .. 3 :
          4 * (n + 1 - a) + r \in Nat /\ 4 * (n + 1 - a) + r < 4 * n + 8
    OBVIOUS
  <2> QED BY <2>1, <2>2, <2>3
<1>2. G = {g \in [D -> U] : \A x \in D : g[x] \in V[x]}
  <2>1. \A g \in [D -> U], x \in D : g[x] \in V[x] <=> Advances(x, g[x])
    OBVIOUS
  <2> QED BY <2>1 DEF Parsers
<1>3. G # {}
  <2>1. Failed \in Results(tokens) /\ Failed.at = 0
    BY <1>n DEF Failed, Parsed, Results, NoExpr, Exprs
  <2>2. [x \in D |-> Failed] \in G
    BY <2>1 DEF Parsers, Advances
  <2> QED BY <2>2
<1>4. \A g \in G, x \in D : F[<<g, x>>] = Returns(tokens, g, x)
  OBVIOUS
<1>5. \A g \in G, x \in D : F[<<g, x>>] \in U /\ F[<<g, x>>] \in V[x]
  <2> TAKE g \in G, x \in D
  <2>1. Returns(tokens, g, x) \in Results(tokens) /\ Advances(x, Returns(tokens, g, x))
    BY ReturnsMade
  <2> QED BY <1>4, <2>1
<1>6. ASSUME NEW g \in G, NEW h \in G, NEW x \in D, \A y \in D : mu[y] < mu[x] => g[y] = h[y]
      PROVE  F[<<g, x>>] = F[<<h, x>>]
  <2>1. Returns(tokens, g, x) = Returns(tokens, h, x)
    BY <1>6, ReturnsLocal
  <2> QED BY <1>4, <2>1
<1>7. \A g, h \in G, x \in D :
        (\A y \in D : mu[y] < mu[x] => g[y] = h[y]) => F[<<g, x>>] = F[<<h, x>>]
  BY <1>6
<1>8. \E f \in G : \A x \in D : f[x] = F[<<f, x>>]
  <2>1. N \in Nat
    OBVIOUS
  <2> HIDE DEF D, G, U, V, F, mu, N
  <2>2. Defines(F, mu, D, G, U, V, N)
    BY <1>1, <1>2, <1>3, <1>5, <1>7, <2>1 DEF Defines
  <2> QED BY <2>2, Recursion
<1>9. PICK f \in G : \A x \in D : f[x] = Returns(tokens, f, x)
  BY <1>4, <1>8
<1> DEFINE p == CHOOSE h : h = [x \in D |-> Returns(tokens, h, x)]
<1>10. p = [x \in D |-> Returns(tokens, p, x)]
  <2>1. f = [x \in D |-> Returns(tokens, f, x)]
    BY <1>9 DEF Parsers
  <2> HIDE DEF D
  <2> QED BY <2>1
<1>11. Parser(tokens) = p
  BY DEF Parser
<1> HIDE DEF p
<1> DEFINE T == {m \in Nat : \A x \in D : mu[x] = m => p[x] = f[x]}
<1>12. ASSUME NEW m \in Nat, \A k \in Nat : k < m => k \in T PROVE m \in T
  <2> SUFFICES ASSUME NEW x \in D, mu[x] = m PROVE p[x] = f[x]
    OBVIOUS
  <2>1. \A y \in D : Left(tokens, y) < Left(tokens, x) => f[y] = p[y]
    BY <1>1, <1>12
  <2>2. Returns(tokens, f, x) = Returns(tokens, p, x)
    BY <2>1, ReturnsLocal
  <2>3. p[x] = Returns(tokens, p, x)
    BY <1>10
  <2> QED BY <1>9, <2>2, <2>3
<1>13. Nat \subseteq T
  <2> HIDE DEF T
  <2> QED BY <1>12, Complete
<1>14. \A x \in D : p[x] = f[x]
  BY <1>1, <1>13
<1>15. p = f
  <2>1. p = [x \in D |-> p[x]] /\ f = [x \in D |-> f[x]]
    BY <1>10 DEF Parsers
  <2> QED BY <1>14, <2>1
<1> QED BY <1>9, <1>11, <1>15

-----------------------------------------------------------------------------
(* The grammar: a span's derivations in terms of smaller ones                *)

Meanings(S) == [single : BOOLEAN, ways : SUBSET SUBSET S]
Grammars(S, tokens) == [Spans(tokens) -> SUBSET Meanings(S)]
Height(level) ==
  IF level = "with" THEN 1 ELSE IF level = "and" THEN 2 ELSE IF level = "or" THEN 3 ELSE 0
Breadth(from, to) == IF to > from THEN to - from ELSE 0
SpanSize(span) == 4 * Breadth(span.from, span.to) + Height(span.level)

LEMMA MeaningsMade ==
  ASSUME NEW S, NEW a \in Meanings(S), NEW b \in Meanings(S), NEW name \in S
  PROVE  /\ Sole(name) \in Meanings(S) /\ Excepted(a) \in Meanings(S)
         /\ Both(a, b) \in Meanings(S) /\ Either(a, b) \in Meanings(S)
<1>1. a.ways \in SUBSET SUBSET S /\ b.ways \in SUBSET SUBSET S
  BY DEF Meanings
<1>2. Sole(name) \in Meanings(S)
  BY DEF Meanings, Sole
<1>3. Excepted(a) \in Meanings(S)
  BY <1>1 DEF Meanings, Excepted
<1>4. Either(a, b) \in Meanings(S)
  BY <1>1 DEF Meanings, Either
<1>5. Both(a, b) \in Meanings(S)
  <2>1. {v \cup w : v \in a.ways, w \in b.ways} \in SUBSET SUBSET S
    BY <1>1
  <2> QED BY <2>1 DEF Meanings, Both
<1> QED BY <1>2, <1>3, <1>4, <1>5

LEMMA SpanMade ==
  ASSUME NEW tokens, NEW level \in {"or", "and", "with", "primary"},
         NEW i \in 1 .. Len(tokens) + 1, NEW j \in 1 .. Len(tokens) + 1
  PROVE  /\ Span(level, i, j) \in Spans(tokens)
         /\ Span(level, i, j).from = i /\ Span(level, i, j).to = j
         /\ Span(level, i, j).level = level
BY DEF Span, Spans

LEMMA Smaller ==
  ASSUME NEW n \in Nat, NEW i \in 1 .. n + 1, NEW j \in 1 .. n + 1,
         NEW k \in 1 .. n + 1, NEW l \in 1 .. n + 1, NEW r \in 0 .. 3, NEW s \in 0 .. 3,
         \/ k = i /\ l = j /\ r < s
         \/ i <= k /\ l <= j /\ k < l /\ l - k < j - i
  PROVE  4 * Breadth(k, l) + r < 4 * Breadth(i, j) + s
BY DEF Breadth

LEMMA ReadsMade ==
  ASSUME NEW S, NEW tokens \in Seq(S), NEW g \in Grammars(S, tokens), NEW span \in Spans(tokens)
  PROVE  Reads(tokens, g, span) \in SUBSET Meanings(S)
<1>n. PICK n \in Nat : n = Len(tokens)
  BY LenNat
<1> n \in Nat
  BY <1>n
<1> DEFINE i == span.from
           j == span.to
<1>0. i \in 1 .. n + 1 /\ j \in 1 .. n + 1 /\ span.level \in {"or", "and", "with", "primary"}
  BY <1>n DEF Spans
<1> HIDE DEF i, j
<1>a. ASSUME NEW level \in {"or", "and", "with", "primary"}, NEW k \in 1 .. n + 1, NEW l \in 1 .. n + 1
      PROVE  g[Span(level, k, l)] \in SUBSET Meanings(S)
  <2>1. Span(level, k, l) \in Spans(tokens)
    BY <1>n, SpanMade
  <2> QED BY <2>1 DEF Grammars
<1>1. CASE span.level = "primary"
  <2>1. OfPrimary(tokens, g, i, j) \in SUBSET Meanings(S)
    <3>1. CASE j = i + 1 /\ tokens[i] \notin Operators \cup Parentheses
      <4>1. tokens[i] \in S
        BY <1>0, <1>n, <3>1
      <4>2. Sole(tokens[i]) \in Meanings(S)
        BY <4>1 DEF Meanings, Sole
      <4> QED BY <3>1, <4>2 DEF OfPrimary
    <3>2. CASE j > i + 2
      <4>1. g[Span("or", i + 1, j - 1)] \in SUBSET Meanings(S)
        BY <1>0, <1>a, <3>2
      <4> QED BY <1>0, <3>2, <4>1 DEF OfPrimary
    <3>3. CASE ~ (j > i + 2) /\ ~ (j = i + 1 /\ tokens[i] \notin Operators \cup Parentheses)
      BY <3>3 DEF OfPrimary
    <3> QED BY <3>1, <3>2, <3>3
  <2> QED BY <1>1, <2>1 DEF Reads, i, j
<1>2. CASE span.level = "with"
  <2>1. OfWith(tokens, g, i, j) \in SUBSET Meanings(S)
    <3>1. g[Span("primary", i, j)] \in SUBSET Meanings(S)
      BY <1>0, <1>a
    <3>2. ASSUME j > i + 2
          PROVE  {Excepted(a) : a \in {b \in g[Span("primary", i, j - 2)] : b.single}}
                   \in SUBSET Meanings(S)
      <4>1. g[Span("primary", i, j - 2)] \in SUBSET Meanings(S)
        BY <1>0, <1>a, <3>2
      <4>2. \A a \in Meanings(S) : Excepted(a) \in Meanings(S)
        BY DEF Meanings, Excepted
      <4> QED BY <4>1, <4>2
    <3> QED BY <3>1, <3>2 DEF OfWith
  <2> QED BY <1>2, <2>1 DEF Reads, i, j
<1>3. CASE span.level = "and"
  <2>1. OfAnd(tokens, g, i, j) \in SUBSET Meanings(S)
    <3>1. g[Span("with", i, j)] \in SUBSET Meanings(S)
      BY <1>0, <1>a
    <3>2. ASSUME NEW k \in Places(tokens, "AND", i, j)
          PROVE  {Both(a, b) : a \in g[Span("and", i, k)], b \in g[Span("with", k + 1, j)]}
                   \in SUBSET Meanings(S)
      <4>1. k \in 1 .. n + 1 /\ k + 1 \in 1 .. n + 1
        BY <1>0, <3>2 DEF Places
      <4>2. g[Span("and", i, k)] \in SUBSET Meanings(S) /\ g[Span("with", k + 1, j)] \in SUBSET Meanings(S)
        BY <1>0, <1>a, <4>1
      <4>3. \A a, b \in Meanings(S) : Both(a, b) \in Meanings(S)
        <5> TAKE a, b \in Meanings(S)
        <5>1. a.ways \in SUBSET SUBSET S /\ b.ways \in SUBSET SUBSET S
          BY DEF Meanings
        <5>2. {v \cup w : v \in a.ways, w \in b.ways} \in SUBSET SUBSET S
          BY <5>1
        <5> QED BY <5>2 DEF Meanings, Both
      <4> QED BY <4>2, <4>3
    <3> QED BY <3>1, <3>2 DEF OfAnd
  <2> QED BY <1>3, <2>1 DEF Reads, i, j
<1>4. CASE span.level = "or"
  <2>1. OfOr(tokens, g, i, j) \in SUBSET Meanings(S)
    <3>1. g[Span("and", i, j)] \in SUBSET Meanings(S)
      BY <1>0, <1>a
    <3>2. ASSUME NEW k \in Places(tokens, "OR", i, j)
          PROVE  {Either(a, b) : a \in g[Span("or", i, k)], b \in g[Span("and", k + 1, j)]}
                   \in SUBSET Meanings(S)
      <4>1. k \in 1 .. n + 1 /\ k + 1 \in 1 .. n + 1
        BY <1>0, <3>2 DEF Places
      <4>2. g[Span("or", i, k)] \in SUBSET Meanings(S) /\ g[Span("and", k + 1, j)] \in SUBSET Meanings(S)
        BY <1>0, <1>a, <4>1
      <4>3. \A a, b \in Meanings(S) : Either(a, b) \in Meanings(S)
        BY DEF Meanings, Either
      <4> QED BY <4>2, <4>3
    <3> QED BY <3>1, <3>2 DEF OfOr
  <2> QED BY <1>4, <2>1 DEF Reads, i, j
<1> QED BY <1>0, <1>1, <1>2, <1>3, <1>4

(* A span's derivations depend on smaller spans, and lower levels, only.     *)
LEMMA ReadsLocal ==
  ASSUME NEW S, NEW tokens \in Seq(S), NEW g, NEW h, NEW span \in Spans(tokens),
         \A y \in Spans(tokens) : SpanSize(y) < SpanSize(span) => g[y] = h[y]
  PROVE  Reads(tokens, g, span) = Reads(tokens, h, span)
<1>n. PICK n \in Nat : n = Len(tokens)
  BY LenNat
<1> n \in Nat
  BY <1>n
<1> DEFINE i == span.from
           j == span.to
<1>0. i \in 1 .. n + 1 /\ j \in 1 .. n + 1 /\ span.level \in {"or", "and", "with", "primary"}
  BY <1>n DEF Spans
<1>s. SpanSize(span) = 4 * Breadth(i, j) + Height(span.level)
  BY DEF SpanSize
<1> HIDE DEF i, j
<1>a. ASSUME NEW level \in {"or", "and", "with", "primary"}, NEW k \in 1 .. n + 1, NEW l \in 1 .. n + 1,
             \/ k = i /\ l = j /\ Height(level) < Height(span.level)
             \/ i <= k /\ l <= j /\ k < l /\ l - k < j - i
      PROVE  g[Span(level, k, l)] = h[Span(level, k, l)]
  <2>1. /\ Span(level, k, l) \in Spans(tokens) /\ Span(level, k, l).from = k
        /\ Span(level, k, l).to = l /\ Span(level, k, l).level = level
    <3>1. /\ k \in 1 .. Len(tokens) + 1 /\ l \in 1 .. Len(tokens) + 1
          /\ level \in {"or", "and", "with", "primary"}
      BY <1>n
    <3> QED BY ONLY <3>1, SpanMade
  <2>2. SpanSize(Span(level, k, l)) = 4 * Breadth(k, l) + Height(level)
    BY <2>1 DEF SpanSize
  <2>3. Height(level) \in 0 .. 3 /\ Height(span.level) \in 0 .. 3
    BY DEF Height
  <2>4. 4 * Breadth(k, l) + Height(level) < 4 * Breadth(i, j) + Height(span.level)
    BY <1>0, <1>a, <2>3, Smaller
  <2> QED BY <1>s, <2>1, <2>2, <2>4
<1>1. CASE span.level = "primary"
  <2>1. ASSUME j > i + 2 PROVE g[Span("or", i + 1, j - 1)] = h[Span("or", i + 1, j - 1)]
    <3>1. /\ i + 1 \in 1 .. n + 1 /\ j - 1 \in 1 .. n + 1 /\ i <= i + 1 /\ j - 1 <= j
          /\ i + 1 < j - 1 /\ (j - 1) - (i + 1) < j - i
      BY <1>0, <2>1
    <3> QED BY <1>a, <3>1
  <2>2. OfPrimary(tokens, g, i, j) = OfPrimary(tokens, h, i, j)
    BY <2>1 DEF OfPrimary
  <2> QED BY <1>1, <2>2 DEF Reads, i, j
<1>2. CASE span.level = "with"
  <2>1. g[Span("primary", i, j)] = h[Span("primary", i, j)]
    BY <1>0, <1>a, <1>2 DEF Height
  <2>2. j > i + 2 => g[Span("primary", i, j - 2)] = h[Span("primary", i, j - 2)]
    BY <1>0, <1>a
  <2>3. OfWith(tokens, g, i, j) = OfWith(tokens, h, i, j)
    BY <2>1, <2>2 DEF OfWith
  <2> QED BY <1>2, <2>3 DEF Reads, i, j
<1>3. CASE span.level = "and"
  <2> DEFINE P(d, k) == {Both(a, b) : a \in d[Span("and", i, k)], b \in d[Span("with", k + 1, j)]}
  <2>1. g[Span("with", i, j)] = h[Span("with", i, j)]
    BY <1>0, <1>a, <1>3 DEF Height
  <2>2. ASSUME NEW k \in Places(tokens, "AND", i, j) PROVE P(g, k) = P(h, k)
    <3>1. k \in i + 1 .. j - 2
      BY DEF Places
    <3>2. /\ g[Span("and", i, k)] = h[Span("and", i, k)]
          /\ g[Span("with", k + 1, j)] = h[Span("with", k + 1, j)]
      BY <1>0, <1>a, <3>1
    <3> QED BY <3>2
  <2>3. /\ OfAnd(tokens, g, i, j) = g[Span("with", i, j)] \cup UNION {P(g, k) : k \in Places(tokens, "AND", i, j)}
        /\ OfAnd(tokens, h, i, j) = h[Span("with", i, j)] \cup UNION {P(h, k) : k \in Places(tokens, "AND", i, j)}
    BY DEF OfAnd
  <2> HIDE DEF P
  <2>4. OfAnd(tokens, g, i, j) = OfAnd(tokens, h, i, j)
    BY <2>1, <2>2, <2>3
  <2> QED BY <1>3, <2>4 DEF Reads, i, j
<1>4. CASE span.level = "or"
  <2> DEFINE P(d, k) == {Either(a, b) : a \in d[Span("or", i, k)], b \in d[Span("and", k + 1, j)]}
  <2>1. g[Span("and", i, j)] = h[Span("and", i, j)]
    BY <1>0, <1>a, <1>4 DEF Height
  <2>2. ASSUME NEW k \in Places(tokens, "OR", i, j) PROVE P(g, k) = P(h, k)
    <3>1. k \in i + 1 .. j - 2
      BY DEF Places
    <3>2. /\ g[Span("or", i, k)] = h[Span("or", i, k)]
          /\ g[Span("and", k + 1, j)] = h[Span("and", k + 1, j)]
      BY <1>0, <1>a, <3>1
    <3> QED BY <3>2
  <2>3. /\ OfOr(tokens, g, i, j) = g[Span("and", i, j)] \cup UNION {P(g, k) : k \in Places(tokens, "OR", i, j)}
        /\ OfOr(tokens, h, i, j) = h[Span("and", i, j)] \cup UNION {P(h, k) : k \in Places(tokens, "OR", i, j)}
    BY DEF OfOr
  <2> HIDE DEF P
  <2>4. OfOr(tokens, g, i, j) = OfOr(tokens, h, i, j)
    BY <2>1, <2>2, <2>3
  <2> QED BY <1>4, <2>4 DEF Reads, i, j
<1> QED BY <1>0, <1>1, <1>2, <1>3, <1>4

(* So the derivations are the function their definition says.                *)
LEMMA GrammarIs ==
  ASSUME NEW S, NEW tokens \in Seq(S)
  PROVE  /\ Grammar(tokens) \in Grammars(S, tokens)
         /\ \A span \in Spans(tokens) : Grammar(tokens)[span] = Reads(tokens, Grammar(tokens), span)
<1>n. PICK n \in Nat : n = Len(tokens)
  BY LenNat
<1> n \in Nat
  BY <1>n
<1> DEFINE D == Spans(tokens)
           U == SUBSET Meanings(S)
           G == Grammars(S, tokens)
           V == [span \in D |-> U]
           F == [p \in G \X D |-> Reads(tokens, p[1], p[2])]
           mu == [span \in D |-> SpanSize(span)]
           N == 4 * n + 8
<1>1. \A x \in D : mu[x] \in Nat /\ mu[x] < N
  <2> TAKE x \in D
  <2>1. x.from \in 1 .. n + 1 /\ x.to \in 1 .. n + 1 /\ Height(x.level) \in 0 .. 3
    BY <1>n DEF Spans, Height
  <2>2. \A i \in 1 .. n + 1, j \in 1 .. n + 1, r \in 0 .. 3 :
          4 * Breadth(i, j) + r \in Nat /\ 4 * Breadth(i, j) + r < 4 * n + 8
    BY DEF Breadth
  <2> QED BY <2>1, <2>2 DEF SpanSize
<1>2. G = {g \in [D -> U] : \A x \in D : g[x] \in V[x]}
  BY DEF Grammars
<1>3. G # {}
  <2>1. [x \in D |-> {}] \in G
    BY DEF Grammars
  <2> QED BY <2>1
<1>4. \A g \in G, x \in D : F[<<g, x>>] = Reads(tokens, g, x)
  OBVIOUS
<1>5. \A g \in G, x \in D : F[<<g, x>>] \in U /\ F[<<g, x>>] \in V[x]
  <2> TAKE g \in G, x \in D
  <2>1. Reads(tokens, g, x) \in U
    BY ReadsMade
  <2> QED BY <1>4, <2>1
<1>6. ASSUME NEW g \in G, NEW h \in G, NEW x \in D, \A y \in D : mu[y] < mu[x] => g[y] = h[y]
      PROVE  F[<<g, x>>] = F[<<h, x>>]
  <2>1. Reads(tokens, g, x) = Reads(tokens, h, x)
    BY <1>6, ReadsLocal
  <2> QED BY <1>4, <2>1
<1>7. \A g, h \in G, x \in D :
        (\A y \in D : mu[y] < mu[x] => g[y] = h[y]) => F[<<g, x>>] = F[<<h, x>>]
  BY <1>6
<1>8. \E f \in G : \A x \in D : f[x] = F[<<f, x>>]
  <2>1. N \in Nat
    OBVIOUS
  <2> HIDE DEF D, G, U, V, F, mu, N
  <2>2. Defines(F, mu, D, G, U, V, N)
    BY <1>1, <1>2, <1>3, <1>5, <1>7, <2>1 DEF Defines
  <2> QED BY <2>2, Recursion
<1>9. PICK f \in G : \A x \in D : f[x] = Reads(tokens, f, x)
  BY <1>4, <1>8
<1> DEFINE p == CHOOSE h : h = [x \in D |-> Reads(tokens, h, x)]
<1>10. p = [x \in D |-> Reads(tokens, p, x)]
  <2>1. f = [x \in D |-> Reads(tokens, f, x)]
    BY <1>9 DEF Grammars
  <2> HIDE DEF D
  <2> QED BY <2>1
<1>11. Grammar(tokens) = p
  BY DEF Grammar
<1> HIDE DEF p
<1> DEFINE T == {m \in Nat : \A x \in D : mu[x] = m => p[x] = f[x]}
<1>12. ASSUME NEW m \in Nat, \A k \in Nat : k < m => k \in T PROVE m \in T
  <2> SUFFICES ASSUME NEW x \in D, mu[x] = m PROVE p[x] = f[x]
    OBVIOUS
  <2>1. \A y \in D : SpanSize(y) < SpanSize(x) => f[y] = p[y]
    BY <1>1, <1>12
  <2>2. Reads(tokens, f, x) = Reads(tokens, p, x)
    BY <2>1, ReadsLocal
  <2>3. p[x] = Reads(tokens, p, x)
    BY <1>10
  <2> QED BY <1>9, <2>2, <2>3
<1>13. Nat \subseteq T
  <2> HIDE DEF T
  <2> QED BY <1>12, Complete
<1>14. \A x \in D : p[x] = f[x]
  BY <1>1, <1>13
<1>15. p = f
  <2>1. p = [x \in D |-> p[x]] /\ f = [x \in D |-> f[x]]
    BY <1>10 DEF Grammars
  <2> QED BY <1>14, <2>1
<1> QED BY <1>9, <1>11, <1>15

-----------------------------------------------------------------------------
(* The parser returns what the grammar derives                               *)

(* The parser's functions and the grammar's levels, one by one.              *)
LEMMA Parses ==
  ASSUME NEW S, NEW tokens \in Seq(S), NEW at \in 1 .. Len(tokens) + 1
  PROVE  /\ Parser(tokens)[Call("primary", at)] = Primary(tokens, Parser(tokens), at)
         /\ Parser(tokens)[Call("with", at)] = ParseWith(tokens, Parser(tokens), at)
         /\ Parser(tokens)[Call("and", at)] = ParseAnd(Parser(tokens), at)
         /\ Parser(tokens)[Call("or", at)] = ParseOr(Parser(tokens), at)
<1> DEFINE P == Parser(tokens)
<1>1. ASSUME NEW fn \in {"or", "and", "with", "primary"}
      PROVE  P[Call(fn, at)] = Returns(tokens, P, Call(fn, at)) /\ Call(fn, at).fn = fn
             /\ Call(fn, at).at = at
  <2>1. Call(fn, at) \in Calls(tokens) /\ Call(fn, at).fn = fn /\ Call(fn, at).at = at
    BY CallsMade
  <2> QED BY <2>1, ParserIs
<1> HIDE DEF P
<1>2. P[Call("primary", at)] = Primary(tokens, P, at)
  BY <1>1 DEF Returns
<1>3. P[Call("with", at)] = ParseWith(tokens, P, at)
  BY <1>1 DEF Returns
<1>4. P[Call("and", at)] = ParseAnd(P, at)
  BY <1>1 DEF Returns
<1>5. P[Call("or", at)] = ParseOr(P, at)
  BY <1>1 DEF Returns
<1> QED BY <1>2, <1>3, <1>4, <1>5 DEF P

LEMMA LoopsParse ==
  ASSUME NEW S, NEW tokens \in Seq(S), NEW left \in Results(tokens), left.at # 0
  PROVE  /\ Parser(tokens)[Loop("and_loop", left)] = AndLoop(tokens, Parser(tokens), left)
         /\ Parser(tokens)[Loop("or_loop", left)] = OrLoop(tokens, Parser(tokens), left)
<1> DEFINE P == Parser(tokens)
<1>1. ASSUME NEW fn \in {"or_loop", "and_loop"}
      PROVE  /\ P[Loop(fn, left)] = Returns(tokens, P, Loop(fn, left)) /\ Loop(fn, left).fn = fn
             /\ Parsed(Loop(fn, left).left, Loop(fn, left).at) = left
  <2>1. /\ Loop(fn, left) \in Calls(tokens) /\ Loop(fn, left).fn = fn
        /\ Loop(fn, left).at = left.at /\ Loop(fn, left).left = left.expr
    BY LoopsMade
  <2>2. left = Parsed(left.expr, left.at)
    BY ResultHas
  <2> QED BY <2>1, <2>2, ParserIs
<1> HIDE DEF P
<1>2. P[Loop("and_loop", left)] = AndLoop(tokens, P, left)
  BY <1>1 DEF Returns
<1>3. P[Loop("or_loop", left)] = OrLoop(tokens, P, left)
  BY <1>1 DEF Returns
<1> QED BY <1>2, <1>3 DEF P

LEMMA Returned ==
  ASSUME NEW S, NEW tokens \in Seq(S), NEW at \in 1 .. Len(tokens) + 1,
         NEW fn \in {"or", "and", "with", "primary"}
  PROVE  LET r == Parser(tokens)[Call(fn, at)]
         IN /\ r \in Results(tokens) /\ r.expr \in Exprs(tokens) /\ r.at \in 0 .. Len(tokens) + 1
            /\ r.at = 0 \/ r.at > at
            /\ r = Parsed(r.expr, r.at)
<1>1. Call(fn, at) \in Calls(tokens) /\ Call(fn, at).at = at /\ ~ IsLoop(Call(fn, at))
  BY CallsMade
<1>2. Parser(tokens) \in Parsers(tokens)
  BY ParserIs
<1>3. LET r == Parser(tokens)[Call(fn, at)]
      IN /\ r \in Results(tokens) /\ r.expr \in Exprs(tokens) /\ r.at \in 0 .. Len(tokens) + 1
         /\ r.at = 0 \/ r.at > at
  BY <1>1, <1>2, ReturnedBy
<1> QED BY <1>3, ResultHas

LEMMA Derives ==
  ASSUME NEW S, NEW tokens \in Seq(S),
         NEW i \in 1 .. Len(tokens) + 1, NEW j \in 1 .. Len(tokens) + 1
  PROVE  LET G == Grammar(tokens)
         IN /\ G[Span("primary", i, j)] = OfPrimary(tokens, G, i, j)
            /\ G[Span("with", i, j)] = OfWith(tokens, G, i, j)
            /\ G[Span("and", i, j)] = OfAnd(tokens, G, i, j)
            /\ G[Span("or", i, j)] = OfOr(tokens, G, i, j)
<1> DEFINE G == Grammar(tokens)
<1>1. ASSUME NEW level \in {"or", "and", "with", "primary"}
      PROVE  /\ G[Span(level, i, j)] = Reads(tokens, G, Span(level, i, j))
             /\ Span(level, i, j).level = level
             /\ Span(level, i, j).from = i /\ Span(level, i, j).to = j
  <2>1. /\ Span(level, i, j) \in Spans(tokens) /\ Span(level, i, j).level = level
        /\ Span(level, i, j).from = i /\ Span(level, i, j).to = j
    BY SpanMade
  <2> QED BY <2>1, GrammarIs
<1> HIDE DEF G
<1>2. G[Span("primary", i, j)] = OfPrimary(tokens, G, i, j)
  BY <1>1 DEF Reads
<1>3. G[Span("with", i, j)] = OfWith(tokens, G, i, j)
  BY <1>1 DEF Reads
<1>4. G[Span("and", i, j)] = OfAnd(tokens, G, i, j)
  BY <1>1 DEF Reads
<1>5. G[Span("or", i, j)] = OfOr(tokens, G, i, j)
  BY <1>1 DEF Reads
<1> QED BY <1>2, <1>3, <1>4, <1>5 DEF G

LEMMA DerivedIn ==
  ASSUME NEW S, NEW tokens \in Seq(S), NEW level \in {"or", "and", "with", "primary"},
         NEW i \in 1 .. Len(tokens) + 1, NEW j \in 1 .. Len(tokens) + 1
  PROVE  Grammar(tokens)[Span(level, i, j)] \in SUBSET Meanings(S)
<1>1. Span(level, i, j) \in Spans(tokens)
  BY SpanMade
<1> QED BY <1>1, GrammarIs DEF Grammars

-----------------------------------------------------------------------------
(* An expression of the parser and a reading of the grammar.                 *)

Agrees(e, r) == e.single = r.single /\ (e.fit <=> \E way \in r.ways : way \subseteq Allowed)

(* An Expr agrees with a derivation when it asks what the derivation offers; *)
(* what the parser builds keeps that.                                        *)
LEMMA Agreements ==
  ASSUME NEW S, NEW tokens, NEW a \in Exprs(tokens), NEW b \in Exprs(tokens),
         NEW v \in Meanings(S), NEW w \in Meanings(S), Agrees(a, v), Agrees(b, w),
         NEW name, NEW exception
  PROVE  /\ Agrees(Id(name), Sole(name)) /\ Agrees(With(a, exception), Excepted(v))
         /\ Agrees(And(a, b), Both(v, w)) /\ Agrees(Or(a, b), Either(v, w))
<1>1. Agrees(Id(name), Sole(name))
  BY DEF Agrees, Id, Sole
<1>2. Agrees(With(a, exception), Excepted(v))
  BY DEF Agrees, With, Excepted
<1>3. Agrees(And(a, b), Both(v, w))
  <2>1. \A x, y : x \cup y \subseteq Allowed <=> x \subseteq Allowed /\ y \subseteq Allowed
    OBVIOUS
  <2>2. (\E way \in Both(v, w).ways : way \subseteq Allowed)
          <=> \E x \in v.ways, y \in w.ways : x \cup y \subseteq Allowed
    <3>1. Both(v, w).ways = {x \cup y : x \in v.ways, y \in w.ways}
      BY DEF Both
    <3>2. \A way : way \in Both(v, w).ways <=> \E x \in v.ways, y \in w.ways : way = x \cup y
      BY <3>1
    <3> QED BY <3>2
  <2>3. And(a, b).fit = (a.fit /\ b.fit) /\ And(a, b).single = FALSE /\ Both(v, w).single = FALSE
    BY DEF And, Both
  <2> QED BY <2>1, <2>2, <2>3 DEF Agrees
<1>4. Agrees(Or(a, b), Either(v, w))
  <2>1. (\E way \in Either(v, w).ways : way \subseteq Allowed)
          <=> (\E way \in v.ways : way \subseteq Allowed) \/ (\E way \in w.ways : way \subseteq Allowed)
    BY DEF Either
  <2>2. Or(a, b).fit = (a.fit \/ b.fit) /\ Or(a, b).single = FALSE /\ Either(v, w).single = FALSE
    BY DEF Or, Either
  <2> QED BY <2>1, <2>2 DEF Agrees
<1> QED BY <1>1, <1>2, <1>3, <1>4

(* What a parsed span leaves in its expression: every token is one of its    *)
(* identifiers, a word of the grammar or an exception, and its exceptions    *)
(* are known when every token after a WITH is one of KnownExceptions.        *)
Follows(tokens, i, k) == k > i /\ tokens[k - 1] = "WITH"
Mentions(tokens, e, i, j) ==
  \A k \in i .. j - 1 :
    tokens[k] \in e.ids \cup Operators \cup Parentheses \/ Follows(tokens, i, k)
ExceptionsOf(tokens, e, i, j) ==
  /\ e.known <=> \A k \in i .. j - 1 : Follows(tokens, i, k) => tokens[k] \in KnownExceptions
  /\ e.known => tokens[j - 1] # "WITH"
  /\ e.single => e.known
Derived(tokens, level, e, i, j) ==
  \E r \in Grammar(tokens)[Span(level, i, j)] : Agrees(e, r)
Sound(tokens, level, e, i, j) ==
  i < j /\ Derived(tokens, level, e, i, j) /\ Mentions(tokens, e, i, j) /\ ExceptionsOf(tokens, e, i, j)

LEMMA NoWordNamed ==
  /\ \A x \in KnownExceptions : x \notin Operators /\ x \notin Parentheses
  /\ \A x \in ForbiddenAnywhere \cup ForbiddenShipped \cup Unknown :
       x \notin Operators /\ x \notin Parentheses /\ x \notin KnownExceptions
BY ListsAssumption

(* What is recorded of an expression is sound when it has a derivation,      *)
(* names every identifier of its span, and knows its exceptions; each thing  *)
(* the parser builds is.                                                     *)
LEMMA SoundId ==
  ASSUME NEW S, NEW tokens \in Seq(S), NEW i \in 1 .. Len(tokens),
         tokens[i] \notin Operators \cup Parentheses
  PROVE  Sound(tokens, "primary", Id(tokens[i]), i, i + 1)
<1>n. PICK n \in Nat : n = Len(tokens)
  BY LenNat
<1> n \in Nat
  BY <1>n
<1> DEFINE e == Id(tokens[i])
<1>0. i \in 1 .. n + 1 /\ i + 1 \in 1 .. n + 1 /\ i < i + 1
  BY <1>n
<1>1. Derived(tokens, "primary", e, i, i + 1)
  <2>1. Grammar(tokens)[Span("primary", i, i + 1)] = OfPrimary(tokens, Grammar(tokens), i, i + 1)
    BY <1>n, <1>0, Derives
  <2>2. Sole(tokens[i]) \in Grammar(tokens)[Span("primary", i, i + 1)]
    BY <2>1 DEF OfPrimary
  <2>3. Agrees(e, Sole(tokens[i]))
    BY DEF Agrees, Id, Sole
  <2> QED BY <2>2, <2>3 DEF Derived
<1>2. Mentions(tokens, e, i, i + 1)
  BY <1>0 DEF Mentions, Id
<1>3. ExceptionsOf(tokens, e, i, i + 1)
  BY <1>0 DEF ExceptionsOf, Follows, Id, Operators
<1> QED BY <1>0, <1>1, <1>2, <1>3 DEF Sound

LEMMA SoundParen ==
  ASSUME NEW S, NEW tokens \in Seq(S), NEW i \in 1 .. Len(tokens), NEW k \in 1 .. Len(tokens),
         tokens[i] = "(", tokens[k] = ")", NEW e, Sound(tokens, "or", e, i + 1, k)
  PROVE  Sound(tokens, "primary", e, i, k + 1)
<1>n. PICK n \in Nat : n = Len(tokens)
  BY LenNat
<1> n \in Nat
  BY <1>n
<1>0. /\ i \in 1 .. n /\ k \in 1 .. n /\ i + 1 < k /\ Derived(tokens, "or", e, i + 1, k)
      /\ Mentions(tokens, e, i + 1, k) /\ ExceptionsOf(tokens, e, i + 1, k)
  BY <1>n DEF Sound
<1>1. Derived(tokens, "primary", e, i, k + 1)
  <2>1. i \in 1 .. n + 1 /\ k + 1 \in 1 .. n + 1 /\ k + 1 > i + 2 /\ (k + 1) - 1 = k /\ k + 1 # i + 1
    BY <1>0
  <2>2. Grammar(tokens)[Span("primary", i, k + 1)] = OfPrimary(tokens, Grammar(tokens), i, k + 1)
    BY <1>n, <2>1, Derives
  <2>3. Grammar(tokens)[Span("primary", i, k + 1)] = Grammar(tokens)[Span("or", i + 1, k)]
    BY <2>1, <2>2 DEF OfPrimary
  <2> QED BY <1>0, <2>3 DEF Derived
<1>2. Mentions(tokens, e, i, k + 1)
  <2> SUFFICES ASSUME NEW m \in i .. (k + 1) - 1
               PROVE  tokens[m] \in e.ids \cup Operators \cup Parentheses \/ Follows(tokens, i, m)
    BY DEF Mentions
  <2>1. CASE m = i \/ m = k
    BY <2>1 DEF Parentheses
  <2>2. CASE m \in i + 1 .. k - 1
    <3>1. tokens[m] \in e.ids \cup Operators \cup Parentheses \/ Follows(tokens, i + 1, m)
      BY <1>0, <2>2 DEF Mentions
    <3> QED BY <1>0, <2>2, <3>1 DEF Follows
  <2> QED BY <1>0, <2>1, <2>2
<1>3. ExceptionsOf(tokens, e, i, k + 1)
  <2>1. e.known <=> \A m \in i + 1 .. k - 1 : Follows(tokens, i + 1, m) => tokens[m] \in KnownExceptions
    BY <1>0 DEF ExceptionsOf
  <2>2. ASSUME e.known, NEW m \in i .. (k + 1) - 1, Follows(tokens, i, m) PROVE tokens[m] \in KnownExceptions
    <3>1. m # i /\ m # i + 1
      BY <1>0, <2>2 DEF Follows
    <3>2. m # k
      BY <1>0, <2>2 DEF Follows, ExceptionsOf
    <3>3. m \in i + 1 .. k - 1 /\ Follows(tokens, i + 1, m)
      BY <1>0, <2>2, <3>1, <3>2 DEF Follows
    <3> QED BY <2>1, <2>2, <3>3
  <2>3. ASSUME \A m \in i .. (k + 1) - 1 : Follows(tokens, i, m) => tokens[m] \in KnownExceptions
        PROVE  e.known
    <3>1. ASSUME NEW m \in i + 1 .. k - 1, Follows(tokens, i + 1, m) PROVE tokens[m] \in KnownExceptions
      <4>1. m \in i .. (k + 1) - 1 /\ Follows(tokens, i, m)
        BY <1>0, <3>1 DEF Follows
      <4> QED BY <2>3, <4>1
    <3> QED BY <2>1, <3>1
  <2>4. tokens[(k + 1) - 1] # "WITH"
    BY <1>0
  <2>5. e.single => e.known
    BY <1>0 DEF ExceptionsOf
  <2>6. e.known <=> \A m \in i .. (k + 1) - 1 : Follows(tokens, i, m) => tokens[m] \in KnownExceptions
    BY <2>2, <2>3
  <2> QED BY <2>4, <2>5, <2>6 DEF ExceptionsOf
<1> QED BY <1>0, <1>1, <1>2, <1>3 DEF Sound

LEMMA SoundUp ==
  ASSUME NEW S, NEW tokens \in Seq(S), NEW i \in 1 .. Len(tokens) + 1,
         NEW j \in 1 .. Len(tokens) + 1, NEW e
  PROVE  /\ Sound(tokens, "primary", e, i, j) => Sound(tokens, "with", e, i, j)
         /\ Sound(tokens, "with", e, i, j) => Sound(tokens, "and", e, i, j)
         /\ Sound(tokens, "and", e, i, j) => Sound(tokens, "or", e, i, j)
<1> DEFINE G == Grammar(tokens)
<1>1. /\ G[Span("with", i, j)] = OfWith(tokens, G, i, j)
      /\ G[Span("and", i, j)] = OfAnd(tokens, G, i, j)
      /\ G[Span("or", i, j)] = OfOr(tokens, G, i, j)
  BY Derives
<1> HIDE DEF G
<1>2. G[Span("primary", i, j)] \subseteq G[Span("with", i, j)]
  BY <1>1 DEF OfWith
<1>3. G[Span("with", i, j)] \subseteq G[Span("and", i, j)]
  BY <1>1 DEF OfAnd
<1>4. G[Span("and", i, j)] \subseteq G[Span("or", i, j)]
  BY <1>1 DEF OfOr
<1> QED BY <1>2, <1>3, <1>4 DEF Sound, Derived, G

LEMMA SoundWith ==
  ASSUME NEW S, NEW tokens \in Seq(S), NEW i \in 1 .. Len(tokens), NEW k \in 1 .. Len(tokens) - 1,
         NEW a, a.single, tokens[k] = "WITH", Sound(tokens, "primary", a, i, k)
  PROVE  Sound(tokens, "with", With(a, tokens[k + 1]), i, k + 2)
<1>n. PICK n \in Nat : n = Len(tokens)
  BY LenNat
<1> n \in Nat
  BY <1>n
<1> DEFINE e == With(a, tokens[k + 1])
           j == k + 2
<1>0. /\ i \in 1 .. n /\ k \in 1 .. n - 1 /\ i < k /\ Derived(tokens, "primary", a, i, k)
      /\ Mentions(tokens, a, i, k) /\ ExceptionsOf(tokens, a, i, k)
  BY <1>n DEF Sound
<1>1. Derived(tokens, "with", e, i, j)
  <2>1. i \in 1 .. n + 1 /\ j \in 1 .. n + 1 /\ j > i + 2 /\ j - 2 = k
    BY <1>0
  <2>2. Grammar(tokens)[Span("with", i, j)] = OfWith(tokens, Grammar(tokens), i, j)
    BY <1>n, <2>1, Derives
  <2>3. PICK r \in Grammar(tokens)[Span("primary", i, k)] : Agrees(a, r)
    BY <1>0 DEF Derived
  <2>4. r.single
    BY <2>3 DEF Agrees
  <2>5. Excepted(r) \in Grammar(tokens)[Span("with", i, j)]
    BY <2>1, <2>2, <2>3, <2>4 DEF OfWith
  <2>6. Agrees(e, Excepted(r))
    BY <2>3 DEF Agrees, With, Excepted
  <2> QED BY <2>5, <2>6 DEF Derived
<1>2. Mentions(tokens, e, i, j)
  <2> SUFFICES ASSUME NEW m \in i .. j - 1
               PROVE  tokens[m] \in e.ids \cup Operators \cup Parentheses \/ Follows(tokens, i, m)
    BY DEF Mentions
  <2>1. CASE m = k
    BY <2>1 DEF Operators
  <2>2. CASE m = k + 1
    BY <1>0, <2>2 DEF Follows
  <2>3. CASE m \in i .. k - 1
    BY <1>0, <2>3 DEF Mentions, With
  <2> QED BY <1>0, <2>1, <2>2, <2>3
<1>3. ExceptionsOf(tokens, e, i, j)
  <2>0. a.known /\ e.known = (tokens[k + 1] \in KnownExceptions) /\ e.single = FALSE
    BY <1>0 DEF ExceptionsOf, With
  <2>1. \A m \in i .. k - 1 : Follows(tokens, i, m) => tokens[m] \in KnownExceptions
    BY <1>0, <2>0 DEF ExceptionsOf
  <2>2. tokens[k - 1] # "WITH"
    BY <1>0, <2>0 DEF ExceptionsOf
  <2>3. ASSUME e.known, NEW m \in i .. j - 1, Follows(tokens, i, m) PROVE tokens[m] \in KnownExceptions
    <3>1. m # k
      BY <2>2, <2>3 DEF Follows
    <3>2. CASE m = k + 1
      BY <2>0, <2>3, <3>2
    <3>3. CASE m \in i .. k - 1
      BY <2>1, <2>3, <3>3
    <3> QED BY <1>0, <3>1, <3>2, <3>3
  <2>4. ASSUME \A m \in i .. j - 1 : Follows(tokens, i, m) => tokens[m] \in KnownExceptions PROVE e.known
    <3>1. k + 1 \in i .. j - 1 /\ Follows(tokens, i, k + 1)
      BY <1>0 DEF Follows
    <3> QED BY <2>0, <2>4, <3>1
  <2>5. e.known => tokens[j - 1] # "WITH"
    <3>1. j - 1 = k + 1
      BY <1>0
    <3> HIDE DEF e, j
    <3> QED BY <2>0, <3>1, NoWordNamed DEF Operators
  <2>6. e.known <=> \A m \in i .. j - 1 : Follows(tokens, i, m) => tokens[m] \in KnownExceptions
    BY <2>3, <2>4
  <2> QED BY <2>0, <2>5, <2>6 DEF ExceptionsOf
<1> QED BY <1>0, <1>1, <1>2, <1>3 DEF Sound

(* Two spans joined by AND or OR.                                            *)
LEMMA Joins ==
  ASSUME NEW n \in Nat, NEW tokens, NEW i \in 1 .. n, NEW k \in 1 .. n, NEW j \in 1 .. n + 1,
         i < k, k + 1 < j, tokens[k] \in {"AND", "OR"}, NEW a, NEW b, NEW e,
         e.ids = a.ids \cup b.ids, e.known <=> (a.known /\ b.known), ~ e.single,
         Mentions(tokens, a, i, k), Mentions(tokens, b, k + 1, j),
         ExceptionsOf(tokens, a, i, k), ExceptionsOf(tokens, b, k + 1, j)
  PROVE  Mentions(tokens, e, i, j) /\ ExceptionsOf(tokens, e, i, j)
<1>1. Mentions(tokens, e, i, j)
  <2> SUFFICES ASSUME NEW m \in i .. j - 1
               PROVE  tokens[m] \in e.ids \cup Operators \cup Parentheses \/ Follows(tokens, i, m)
    BY DEF Mentions
  <2>1. CASE m = k
    BY <2>1 DEF Operators
  <2>2. CASE m \in i .. k - 1
    BY <2>2 DEF Mentions
  <2>3. CASE m \in k + 1 .. j - 1
    <3>1. tokens[m] \in b.ids \cup Operators \cup Parentheses \/ Follows(tokens, k + 1, m)
      BY <2>3 DEF Mentions
    <3> QED BY <2>3, <3>1 DEF Follows
  <2> QED BY <2>1, <2>2, <2>3
<1>2. ASSUME e.known, NEW m \in i .. j - 1, Follows(tokens, i, m) PROVE tokens[m] \in KnownExceptions
  <2>1. m # k
    BY <1>2 DEF Follows, ExceptionsOf
  <2>2. m # k + 1
    BY <1>2 DEF Follows
  <2>3. CASE m \in i .. k - 1
    BY <1>2, <2>3 DEF ExceptionsOf
  <2>4. CASE m \in k + 2 .. j - 1
    <3>1. m \in k + 1 .. j - 1 /\ Follows(tokens, k + 1, m)
      BY <1>2, <2>4 DEF Follows
    <3> QED BY <1>2, <3>1 DEF ExceptionsOf
  <2> QED BY <2>1, <2>2, <2>3, <2>4
<1>3. ASSUME \A m \in i .. j - 1 : Follows(tokens, i, m) => tokens[m] \in KnownExceptions PROVE e.known
  <2>1. ASSUME NEW m \in i .. k - 1, Follows(tokens, i, m) PROVE tokens[m] \in KnownExceptions
    BY <1>3, <2>1
  <2>2. ASSUME NEW m \in k + 1 .. j - 1, Follows(tokens, k + 1, m) PROVE tokens[m] \in KnownExceptions
    <3>1. m \in i .. j - 1 /\ Follows(tokens, i, m)
      BY <2>2 DEF Follows
    <3> QED BY <1>3, <3>1
  <2>3. a.known
    BY <2>1 DEF ExceptionsOf
  <2>4. b.known
    BY <2>2 DEF ExceptionsOf
  <2> QED BY <2>3, <2>4
<1>4. e.known => tokens[j - 1] # "WITH"
  BY DEF ExceptionsOf
<1>5. e.known <=> \A m \in i .. j - 1 : Follows(tokens, i, m) => tokens[m] \in KnownExceptions
  BY <1>2, <1>3
<1> QED BY <1>1, <1>4, <1>5 DEF ExceptionsOf

LEMMA SoundAnd ==
  ASSUME NEW S, NEW tokens \in Seq(S), NEW i \in 1 .. Len(tokens), NEW k \in 1 .. Len(tokens),
         NEW j \in 1 .. Len(tokens) + 1, tokens[k] = "AND",
         NEW a \in Exprs(tokens), NEW b \in Exprs(tokens),
         Sound(tokens, "and", a, i, k), Sound(tokens, "with", b, k + 1, j)
  PROVE  Sound(tokens, "and", And(a, b), i, j)
<1>n. PICK n \in Nat : n = Len(tokens)
  BY LenNat
<1> n \in Nat
  BY <1>n
<1> DEFINE e == And(a, b)
           G == Grammar(tokens)
<1>0. /\ i \in 1 .. n /\ k \in 1 .. n /\ j \in 1 .. n + 1 /\ i < k /\ k + 1 < j
      /\ Derived(tokens, "and", a, i, k) /\ Mentions(tokens, a, i, k) /\ ExceptionsOf(tokens, a, i, k)
      /\ Derived(tokens, "with", b, k + 1, j) /\ Mentions(tokens, b, k + 1, j)
      /\ ExceptionsOf(tokens, b, k + 1, j)
  BY <1>n DEF Sound
<1>1. Derived(tokens, "and", e, i, j)
  <2>1. PICK v \in G[Span("and", i, k)] : Agrees(a, v)
    BY <1>0 DEF Derived
  <2>2. PICK w \in G[Span("with", k + 1, j)] : Agrees(b, w)
    BY <1>0 DEF Derived
  <2>3. /\ i \in 1 .. n + 1 /\ k \in 1 .. n + 1 /\ k + 1 \in 1 .. n + 1
        /\ k \in Places(tokens, "AND", i, j)
    BY <1>0 DEF Places
  <2>4. v \in Meanings(S) /\ w \in Meanings(S)
    BY <1>n, <1>0, <2>1, <2>2, <2>3, DerivedIn
  <2>5. Agrees(e, Both(v, w))
    BY <2>1, <2>2, <2>4, Agreements
  <2>6. G[Span("and", i, j)] = OfAnd(tokens, G, i, j)
    BY <1>n, <1>0, <2>3, Derives
  <2> HIDE DEF G
  <2>7. Both(v, w) \in {Both(x, y) : x \in G[Span("and", i, k)], y \in G[Span("with", k + 1, j)]}
    BY <2>1, <2>2
  <2>8. Both(v, w) \in G[Span("and", i, j)]
    BY <2>3, <2>6, <2>7 DEF OfAnd
  <2> QED BY <2>5, <2>8 DEF Derived, G
<1>2. Mentions(tokens, e, i, j) /\ ExceptionsOf(tokens, e, i, j)
  <2>1. e.ids = a.ids \cup b.ids /\ (e.known <=> (a.known /\ b.known)) /\ ~ e.single
    BY DEF And
  <2> HIDE DEF e
  <2> QED BY <1>0, <2>1, Joins
<1> QED BY <1>0, <1>1, <1>2 DEF Sound

LEMMA SoundOr ==
  ASSUME NEW S, NEW tokens \in Seq(S), NEW i \in 1 .. Len(tokens), NEW k \in 1 .. Len(tokens),
         NEW j \in 1 .. Len(tokens) + 1, tokens[k] = "OR",
         NEW a \in Exprs(tokens), NEW b \in Exprs(tokens),
         Sound(tokens, "or", a, i, k), Sound(tokens, "and", b, k + 1, j)
  PROVE  Sound(tokens, "or", Or(a, b), i, j)
<1>n. PICK n \in Nat : n = Len(tokens)
  BY LenNat
<1> n \in Nat
  BY <1>n
<1> DEFINE e == Or(a, b)
           G == Grammar(tokens)
<1>0. /\ i \in 1 .. n /\ k \in 1 .. n /\ j \in 1 .. n + 1 /\ i < k /\ k + 1 < j
      /\ Derived(tokens, "or", a, i, k) /\ Mentions(tokens, a, i, k) /\ ExceptionsOf(tokens, a, i, k)
      /\ Derived(tokens, "and", b, k + 1, j) /\ Mentions(tokens, b, k + 1, j)
      /\ ExceptionsOf(tokens, b, k + 1, j)
  BY <1>n DEF Sound
<1>1. Derived(tokens, "or", e, i, j)
  <2>1. PICK v \in G[Span("or", i, k)] : Agrees(a, v)
    BY <1>0 DEF Derived
  <2>2. PICK w \in G[Span("and", k + 1, j)] : Agrees(b, w)
    BY <1>0 DEF Derived
  <2>3. /\ i \in 1 .. n + 1 /\ k \in 1 .. n + 1 /\ k + 1 \in 1 .. n + 1
        /\ k \in Places(tokens, "OR", i, j)
    BY <1>0 DEF Places
  <2>4. v \in Meanings(S) /\ w \in Meanings(S)
    BY <1>n, <1>0, <2>1, <2>2, <2>3, DerivedIn
  <2>5. Agrees(e, Either(v, w))
    BY <2>1, <2>2, <2>4, Agreements
  <2>6. G[Span("or", i, j)] = OfOr(tokens, G, i, j)
    BY <1>n, <1>0, <2>3, Derives
  <2> HIDE DEF G
  <2>7. Either(v, w) \in {Either(x, y) : x \in G[Span("or", i, k)], y \in G[Span("and", k + 1, j)]}
    BY <2>1, <2>2
  <2>8. Either(v, w) \in G[Span("or", i, j)]
    BY <2>3, <2>6, <2>7 DEF OfOr
  <2> QED BY <2>5, <2>8 DEF Derived, G
<1>2. Mentions(tokens, e, i, j) /\ ExceptionsOf(tokens, e, i, j)
  <2>1. e.ids = a.ids \cup b.ids /\ (e.known <=> (a.known /\ b.known)) /\ ~ e.single
    BY DEF Or
  <2> HIDE DEF e
  <2> QED BY <1>0, <2>1, Joins
<1> QED BY <1>0, <1>1, <1>2 DEF Sound

(* What the parser returns, from one token on, is sound.                     *)
SoundCall(tokens, fn, at) ==
  LET r == Parser(tokens)[Call(fn, at)]
  IN r.at # 0 => Sound(tokens, fn, r.expr, at, r.at)
SoundLoop(tokens, fn, level, left, i) ==
  LET r == Parser(tokens)[Loop(fn, left)]
  IN Sound(tokens, level, left.expr, i, left.at) /\ r.at # 0 =>
       Sound(tokens, level, r.expr, i, r.at)
SoundAt(tokens, at) ==
  /\ \A fn \in {"or", "and", "with", "primary"} : SoundCall(tokens, fn, at)
  /\ \A left \in Results(tokens), i \in 1 .. Len(tokens) : left.at = at =>
       /\ SoundLoop(tokens, "and_loop", "and", left, i)
       /\ SoundLoop(tokens, "or_loop", "or", left, i)

(* The parser's answers at one token are sound when those further on are.    *)
LEMMA SoundStep ==
  ASSUME NEW S, NEW tokens \in Seq(S), NEW at \in 1 .. Len(tokens) + 1,
         \A k \in at + 1 .. Len(tokens) + 1 : SoundAt(tokens, k)
  PROVE  SoundAt(tokens, at)
<1>n. PICK n \in Nat : n = Len(tokens)
  BY LenNat
<1> n \in Nat
  BY <1>n
<1> DEFINE P == Parser(tokens)
<1>0. at \in 1 .. n + 1
  BY <1>n
<1>c. ASSUME NEW fn \in {"or", "and", "with", "primary"}, NEW k \in 1 .. n + 1
      PROVE  LET r == P[Call(fn, k)]
             IN /\ r \in Results(tokens) /\ r.expr \in Exprs(tokens) /\ r.at \in 0 .. n + 1
                /\ r.at = 0 \/ r.at > k
                /\ r = Parsed(r.expr, r.at)
  BY <1>n, Returned
<1>f. Failed.at = 0
  BY DEF Failed, Parsed
<1> HIDE DEF P
<1>1. SoundCall(tokens, "primary", at)
  <2> DEFINE r == P[Call("primary", at)]
  <2> SUFFICES ASSUME r.at # 0 PROVE Sound(tokens, "primary", r.expr, at, r.at)
    BY DEF SoundCall, P
  <2>1. r = Primary(tokens, P, at)
    BY <1>n, <1>0, Parses DEF P
  <2> HIDE DEF r
  <2>2. at \in 1 .. n /\ tokens[at] \notin Operators \cup {")"}
    BY <1>0, <1>n, <1>f, <2>1 DEF Primary
  <2>3. CASE tokens[at] # "("
    <3>1. r = Parsed(Id(tokens[at]), at + 1)
      BY <1>n, <2>1, <2>2, <2>3 DEF Primary
    <3>2. r.expr = Id(tokens[at]) /\ r.at = at + 1
      BY <3>1 DEF Parsed
    <3>3. tokens[at] \notin Operators \cup Parentheses
      BY <2>2, <2>3 DEF Parentheses
    <3> QED BY <1>n, <2>2, <3>2, <3>3, SoundId
  <2>4. CASE tokens[at] = "("
    <3> DEFINE inner == P[Call("or", at + 1)]
    <3>1. r = IF Peeks(tokens, inner.at, ")") THEN Parsed(inner.expr, inner.at + 1) ELSE Failed
      BY <1>n, <2>1, <2>2, <2>4 DEF Primary
    <3>2. inner.at \in 0 .. n + 1
      BY <1>c, <2>2
    <3>3. SoundAt(tokens, at + 1)
      BY <1>n, <2>2
    <3>4. inner.at # 0 => Sound(tokens, "or", inner.expr, at + 1, inner.at)
      BY <3>3 DEF SoundAt, SoundCall, P
    <3> HIDE DEF inner
    <3>5. Peeks(tokens, inner.at, ")")
      BY <1>f, <3>1
    <3>6. inner.at \in 1 .. n /\ tokens[inner.at] = ")" /\ inner.at # 0
      BY <1>n, <3>2, <3>5 DEF Peeks
    <3>7. Sound(tokens, "or", inner.expr, at + 1, inner.at)
      BY <3>4, <3>6
    <3>8. Sound(tokens, "primary", inner.expr, at, inner.at + 1)
      BY <1>n, <2>2, <2>4, <3>6, <3>7, SoundParen
    <3>9. r.expr = inner.expr /\ r.at = inner.at + 1
      BY <3>1, <3>5 DEF Parsed
    <3> QED BY <3>8, <3>9
  <2> QED BY <2>3, <2>4
<1>2. SoundCall(tokens, "with", at)
  <2> DEFINE r == P[Call("with", at)]
             base == P[Call("primary", at)]
  <2> SUFFICES ASSUME r.at # 0 PROVE Sound(tokens, "with", r.expr, at, r.at)
    BY DEF SoundCall, P
  <2>1. r = ParseWith(tokens, P, at)
    BY <1>n, <1>0, Parses DEF P
  <2>2. base.at \in 0 .. n + 1 /\ (base.at = 0 \/ base.at > at)
    BY <1>c, <1>0
  <2>3. base.at # 0 => Sound(tokens, "primary", base.expr, at, base.at)
    BY <1>1 DEF SoundCall, P
  <2>4. r = IF ~ Peeks(tokens, base.at, "WITH") THEN base
            ELSE IF base.expr.single /\ base.at < n
            THEN Parsed(With(base.expr, tokens[base.at + 1]), base.at + 2) ELSE Failed
    BY <1>n, <2>1 DEF ParseWith
  <2> HIDE DEF r, base
  <2>5. CASE ~ Peeks(tokens, base.at, "WITH")
    <3>1. r = base /\ Sound(tokens, "primary", base.expr, at, base.at)
      BY <2>3, <2>4, <2>5
    <3>2. base.at \in 1 .. n + 1
      BY <2>2, <3>1
    <3>3. Sound(tokens, "with", base.expr, at, base.at)
      BY <1>n, <1>0, <3>1, <3>2, SoundUp
    <3> QED BY <3>1, <3>3
  <2>6. CASE Peeks(tokens, base.at, "WITH")
    <3>1. base.expr.single /\ base.at < n
      BY <1>f, <2>4, <2>6
    <3>2. base.at \in 1 .. n - 1 /\ tokens[base.at] = "WITH" /\ at \in 1 .. n /\ base.at # 0
      BY <1>n, <1>0, <2>2, <2>6, <3>1 DEF Peeks
    <3>3. Sound(tokens, "with", With(base.expr, tokens[base.at + 1]), at, base.at + 2)
      BY <1>n, <2>3, <3>1, <3>2, SoundWith
    <3>4. r.expr = With(base.expr, tokens[base.at + 1]) /\ r.at = base.at + 2
      BY <2>4, <2>6, <3>1 DEF Parsed
    <3> QED BY <3>3, <3>4
  <2> QED BY <2>5, <2>6
<1>3. ASSUME NEW left \in Results(tokens), NEW i \in 1 .. n, left.at \in 1 .. n + 1, left.at > at
      PROVE  /\ SoundLoop(tokens, "and_loop", "and", left, i)
             /\ SoundLoop(tokens, "or_loop", "or", left, i)
  <2>1. left.at \in at + 1 .. n + 1
    BY <1>0, <1>3
  <2> QED BY <1>n, <2>1 DEF SoundAt
<1>4. SoundCall(tokens, "and", at)
  <2> DEFINE r == P[Call("and", at)]
             first == P[Call("with", at)]
  <2> SUFFICES ASSUME r.at # 0 PROVE Sound(tokens, "and", r.expr, at, r.at)
    BY DEF SoundCall, P
  <2>1. r = ParseAnd(P, at)
    BY <1>n, <1>0, Parses DEF P
  <2>2. first \in Results(tokens) /\ first.at \in 0 .. n + 1 /\ (first.at = 0 \/ first.at > at)
    BY <1>c, <1>0
  <2>3. first.at # 0 /\ r = P[Loop("and_loop", first)]
    BY <1>f, <2>1 DEF ParseAnd
  <2>4. Sound(tokens, "with", first.expr, at, first.at)
    BY <1>2, <2>3 DEF SoundCall, P
  <2> HIDE DEF r, first
  <2>5. first.at \in 1 .. n + 1 /\ at \in 1 .. n /\ first.at > at
    BY <1>0, <2>2, <2>3
  <2>6. Sound(tokens, "and", first.expr, at, first.at)
    BY <1>n, <1>0, <2>4, <2>5, SoundUp
  <2>7. SoundLoop(tokens, "and_loop", "and", first, at)
    BY <1>3, <2>2, <2>5
  <2> QED BY <2>3, <2>6, <2>7 DEF SoundLoop, P
<1>5. SoundCall(tokens, "or", at)
  <2> DEFINE r == P[Call("or", at)]
             first == P[Call("and", at)]
  <2> SUFFICES ASSUME r.at # 0 PROVE Sound(tokens, "or", r.expr, at, r.at)
    BY DEF SoundCall, P
  <2>1. r = ParseOr(P, at)
    BY <1>n, <1>0, Parses DEF P
  <2>2. first \in Results(tokens) /\ first.at \in 0 .. n + 1 /\ (first.at = 0 \/ first.at > at)
    BY <1>c, <1>0
  <2>3. first.at # 0 /\ r = P[Loop("or_loop", first)]
    BY <1>f, <2>1 DEF ParseOr
  <2>4. Sound(tokens, "and", first.expr, at, first.at)
    BY <1>4, <2>3 DEF SoundCall, P
  <2> HIDE DEF r, first
  <2>5. first.at \in 1 .. n + 1 /\ at \in 1 .. n /\ first.at > at
    BY <1>0, <2>2, <2>3
  <2>6. Sound(tokens, "or", first.expr, at, first.at)
    BY <1>n, <1>0, <2>4, <2>5, SoundUp
  <2>7. SoundLoop(tokens, "or_loop", "or", first, at)
    BY <1>3, <2>2, <2>5
  <2> QED BY <2>3, <2>6, <2>7 DEF SoundLoop, P
<1>6. ASSUME NEW left \in Results(tokens), NEW i \in 1 .. n, left.at = at
      PROVE  SoundLoop(tokens, "and_loop", "and", left, i)
  <2> DEFINE r == P[Loop("and_loop", left)]
             right == P[Call("with", at + 1)]
             both == Parsed(And(left.expr, right.expr), right.at)
  <2> SUFFICES ASSUME Sound(tokens, "and", left.expr, i, at), r.at # 0
               PROVE  Sound(tokens, "and", r.expr, i, r.at)
    BY <1>6 DEF SoundLoop, P
  <2>1. r = AndLoop(tokens, P, left)
    BY <1>0, <1>6, LoopsParse DEF P
  <2>2. r = IF ~ Peeks(tokens, at, "AND") THEN left
            ELSE IF right.at = 0 THEN Failed ELSE P[Loop("and_loop", both)]
    BY <1>6, <2>1 DEF AndLoop
  <2> HIDE DEF r
  <2>3. CASE ~ Peeks(tokens, at, "AND")
    BY <1>6, <2>2, <2>3
  <2>4. CASE Peeks(tokens, at, "AND")
    <3>1. at \in 1 .. n /\ tokens[at] = "AND" /\ at + 1 \in 1 .. n + 1
      BY <1>n, <1>0, <2>4 DEF Peeks
    <3>2. right.at # 0 /\ r = P[Loop("and_loop", both)]
      BY <1>f, <2>2, <2>4
    <3>3. /\ right \in Results(tokens) /\ right.expr \in Exprs(tokens) /\ right.at \in 0 .. n + 1
          /\ right.at = 0 \/ right.at > at + 1
      BY <1>c, <3>1
    <3>4. SoundAt(tokens, at + 1)
      BY <1>n, <3>1
    <3>5. Sound(tokens, "with", right.expr, at + 1, right.at)
      BY <3>2, <3>4 DEF SoundAt, SoundCall, P
    <3>6. left.expr \in Exprs(tokens)
      BY ResultHas
    <3>7. And(left.expr, right.expr) \in Exprs(tokens)
      BY <3>3, <3>6 DEF Exprs, And
    <3>8. both \in Results(tokens) /\ both.at = right.at /\ both.expr = And(left.expr, right.expr)
      BY <1>n, <3>3, <3>7, InResults
    <3> HIDE DEF right, both
    <3>9. right.at \in 1 .. n + 1 /\ right.at > at
      BY <1>0, <3>2, <3>3
    <3>10. Sound(tokens, "and", And(left.expr, right.expr), i, right.at)
      BY <1>n, <3>1, <3>3, <3>5, <3>6, <3>9, SoundAnd
    <3>11. SoundLoop(tokens, "and_loop", "and", both, i)
      BY <1>3, <3>8, <3>9
    <3> QED BY <3>2, <3>8, <3>10, <3>11 DEF SoundLoop, P
  <2> QED BY <2>3, <2>4
<1>7. ASSUME NEW left \in Results(tokens), NEW i \in 1 .. n, left.at = at
      PROVE  SoundLoop(tokens, "or_loop", "or", left, i)
  <2> DEFINE r == P[Loop("or_loop", left)]
             right == P[Call("and", at + 1)]
             either == Parsed(Or(left.expr, right.expr), right.at)
  <2> SUFFICES ASSUME Sound(tokens, "or", left.expr, i, at), r.at # 0
               PROVE  Sound(tokens, "or", r.expr, i, r.at)
    BY <1>7 DEF SoundLoop, P
  <2>1. r = OrLoop(tokens, P, left)
    BY <1>0, <1>7, LoopsParse DEF P
  <2>2. r = IF ~ Peeks(tokens, at, "OR") THEN left
            ELSE IF right.at = 0 THEN Failed ELSE P[Loop("or_loop", either)]
    BY <1>7, <2>1 DEF OrLoop
  <2> HIDE DEF r
  <2>3. CASE ~ Peeks(tokens, at, "OR")
    BY <1>7, <2>2, <2>3
  <2>4. CASE Peeks(tokens, at, "OR")
    <3>1. at \in 1 .. n /\ tokens[at] = "OR" /\ at + 1 \in 1 .. n + 1
      BY <1>n, <1>0, <2>4 DEF Peeks
    <3>2. right.at # 0 /\ r = P[Loop("or_loop", either)]
      BY <1>f, <2>2, <2>4
    <3>3. /\ right \in Results(tokens) /\ right.expr \in Exprs(tokens) /\ right.at \in 0 .. n + 1
          /\ right.at = 0 \/ right.at > at + 1
      BY <1>c, <3>1
    <3>4. SoundAt(tokens, at + 1)
      BY <1>n, <3>1
    <3>5. Sound(tokens, "and", right.expr, at + 1, right.at)
      BY <3>2, <3>4 DEF SoundAt, SoundCall, P
    <3>6. left.expr \in Exprs(tokens)
      BY ResultHas
    <3>7. Or(left.expr, right.expr) \in Exprs(tokens)
      BY <3>3, <3>6 DEF Exprs, Or
    <3>8. either \in Results(tokens) /\ either.at = right.at /\ either.expr = Or(left.expr, right.expr)
      BY <1>n, <3>3, <3>7, InResults
    <3> HIDE DEF right, either
    <3>9. right.at \in 1 .. n + 1 /\ right.at > at
      BY <1>0, <3>2, <3>3
    <3>10. Sound(tokens, "or", Or(left.expr, right.expr), i, right.at)
      BY <1>n, <3>1, <3>3, <3>5, <3>6, <3>9, SoundOr
    <3>11. SoundLoop(tokens, "or_loop", "or", either, i)
      BY <1>3, <3>8, <3>9
    <3> QED BY <3>2, <3>8, <3>10, <3>11 DEF SoundLoop, P
  <2> QED BY <2>3, <2>4
<1> QED BY <1>n, <1>1, <1>2, <1>4, <1>5, <1>6, <1>7 DEF SoundAt

(* What the parser returns is derived by the grammar.                        *)
LEMMA Soundness ==
  ASSUME NEW S, NEW tokens \in Seq(S), NEW at \in 1 .. Len(tokens) + 1
  PROVE  SoundAt(tokens, at)
<1>n. PICK n \in Nat : n = Len(tokens)
  BY LenNat
<1> n \in Nat
  BY <1>n
<1> DEFINE T == {m \in Nat : \A k \in 1 .. n + 1 : n + 1 - k = m => SoundAt(tokens, k)}
<1>1. ASSUME NEW m \in Nat, \A l \in Nat : l < m => l \in T PROVE m \in T
  <2> SUFFICES ASSUME NEW k \in 1 .. n + 1, n + 1 - k = m PROVE SoundAt(tokens, k)
    OBVIOUS
  <2>1. ASSUME NEW l \in k + 1 .. n + 1 PROVE SoundAt(tokens, l)
    <3>1. n + 1 - l \in Nat /\ n + 1 - l < m /\ l \in 1 .. n + 1
      OBVIOUS
    <3> QED BY <1>1, <3>1
  <2> QED BY <1>n, <2>1, SoundStep
<1>2. Nat \subseteq T
  <2> HIDE DEF T
  <2> QED BY <1>1, Complete
<1>3. n + 1 - at \in Nat /\ at \in 1 .. n + 1
  BY <1>n
<1> QED BY <1>2, <1>3

-----------------------------------------------------------------------------
(* The parser finds what the grammar derives                                 *)

(* The parser finds what the grammar derives: an expression that agrees with *)
(* it, at the same token, unless what follows there belongs to it as well.   *)
FoundAs(tokens, span, e) ==
  LET i == span.from
      j == span.to
      P == Parser(tokens)
  IN CASE span.level = "primary" -> P[Call("primary", i)] = Parsed(e, j)
       [] span.level = "with" -> ~ Peeks(tokens, j, "WITH") => P[Call("with", i)] = Parsed(e, j)
       [] span.level = "and" ->
            ~ Peeks(tokens, j, "WITH") => P[Call("and", i)] = P[Loop("and_loop", Parsed(e, j))]
       [] span.level = "or" ->
            ~ Peeks(tokens, j, "WITH") /\ ~ Peeks(tokens, j, "AND") =>
              P[Call("or", i)] = P[Loop("or_loop", Parsed(e, j))]
Found(tokens, span) ==
  \A r \in Grammar(tokens)[span] :
    \E e \in Exprs(tokens) : Agrees(e, r) /\ FoundAs(tokens, span, e)

LEMMA FoundIs ==
  ASSUME NEW tokens, NEW i, NEW j, NEW e
  PROVE  LET P == Parser(tokens) IN
         /\ FoundAs(tokens, Span("primary", i, j), e) <=> P[Call("primary", i)] = Parsed(e, j)
         /\ FoundAs(tokens, Span("with", i, j), e) <=>
              (~ Peeks(tokens, j, "WITH") => P[Call("with", i)] = Parsed(e, j))
         /\ FoundAs(tokens, Span("and", i, j), e) <=>
              (~ Peeks(tokens, j, "WITH") => P[Call("and", i)] = P[Loop("and_loop", Parsed(e, j))])
         /\ FoundAs(tokens, Span("or", i, j), e) <=>
              (~ Peeks(tokens, j, "WITH") /\ ~ Peeks(tokens, j, "AND") =>
                 P[Call("or", i)] = P[Loop("or_loop", Parsed(e, j))])
<1> DEFINE P == Parser(tokens)
<1>1. \A level : /\ Span(level, i, j).level = level
                 /\ Span(level, i, j).from = i /\ Span(level, i, j).to = j
  BY DEF Span
<1> HIDE DEF P
<1>2. FoundAs(tokens, Span("primary", i, j), e) <=> P[Call("primary", i)] = Parsed(e, j)
  BY <1>1 DEF FoundAs, P
<1>3. FoundAs(tokens, Span("with", i, j), e) <=>
        (~ Peeks(tokens, j, "WITH") => P[Call("with", i)] = Parsed(e, j))
  BY <1>1 DEF FoundAs, P
<1>4. FoundAs(tokens, Span("and", i, j), e) <=>
        (~ Peeks(tokens, j, "WITH") => P[Call("and", i)] = P[Loop("and_loop", Parsed(e, j))])
  BY <1>1 DEF FoundAs, P
<1>5. FoundAs(tokens, Span("or", i, j), e) <=>
        (~ Peeks(tokens, j, "WITH") /\ ~ Peeks(tokens, j, "AND") =>
           P[Call("or", i)] = P[Loop("or_loop", Parsed(e, j))])
  BY <1>1 DEF FoundAs, P
<1> QED BY <1>2, <1>3, <1>4, <1>5 DEF P

(* What the grammar derives, the parser finds, if it finds what is smaller:  *)
(* no token after the span can mislead it.                                   *)
LEMMA FoundStep ==
  ASSUME NEW S, NEW tokens \in Seq(S), NEW span \in Spans(tokens),
         \A y \in Spans(tokens) : SpanSize(y) < SpanSize(span) => Found(tokens, y)
  PROVE  Found(tokens, span)
<1>n. PICK n \in Nat : n = Len(tokens)
  BY LenNat
<1> n \in Nat
  BY <1>n
<1> DEFINE i == span.from
           j == span.to
           P == Parser(tokens)
           G == Grammar(tokens)
<1>0. i \in 1 .. n + 1 /\ j \in 1 .. n + 1 /\ span.level \in {"or", "and", "with", "primary"}
      /\ span = Span(span.level, i, j)
  BY <1>n DEF Spans, Span
<1>s. SpanSize(span) = 4 * Breadth(i, j) + Height(span.level)
  BY DEF SpanSize
<1> HIDE DEF i, j, P, G
<1>a. ASSUME NEW level \in {"or", "and", "with", "primary"}, NEW k \in 1 .. n + 1, NEW l \in 1 .. n + 1,
             \/ k = i /\ l = j /\ Height(level) < Height(span.level)
             \/ i <= k /\ l <= j /\ k < l /\ l - k < j - i
      PROVE  Found(tokens, Span(level, k, l))
  <2>1. /\ Span(level, k, l) \in Spans(tokens) /\ Span(level, k, l).from = k
        /\ Span(level, k, l).to = l /\ Span(level, k, l).level = level
    <3>1. /\ k \in 1 .. Len(tokens) + 1 /\ l \in 1 .. Len(tokens) + 1
          /\ level \in {"or", "and", "with", "primary"}
      BY <1>n
    <3> QED BY ONLY <3>1, SpanMade
  <2>2. SpanSize(Span(level, k, l)) = 4 * Breadth(k, l) + Height(level)
    BY <2>1 DEF SpanSize
  <2>3. Height(level) \in 0 .. 3 /\ Height(span.level) \in 0 .. 3
    BY DEF Height
  <2>4. 4 * Breadth(k, l) + Height(level) < 4 * Breadth(i, j) + Height(span.level)
    BY <1>0, <1>a, <2>3, Smaller
  <2> QED BY <1>s, <2>1, <2>2, <2>4
<1>l. ASSUME NEW e \in Exprs(tokens), NEW k \in 1 .. n + 1
      PROVE  /\ Parsed(e, k) \in Results(tokens) /\ Parsed(e, k).at = k /\ Parsed(e, k).expr = e
             /\ P[Loop("and_loop", Parsed(e, k))] = AndLoop(tokens, P, Parsed(e, k))
             /\ P[Loop("or_loop", Parsed(e, k))] = OrLoop(tokens, P, Parsed(e, k))
  <2>1. Parsed(e, k) \in Results(tokens) /\ Parsed(e, k).at = k /\ Parsed(e, k).expr = e
    BY <1>n, InResults
  <2>2. Parsed(e, k).at # 0
    BY <2>1
  <2> QED BY <2>1, <2>2, LoopsParse DEF P
<1>d. /\ G[Span("primary", i, j)] = OfPrimary(tokens, G, i, j)
      /\ G[Span("with", i, j)] = OfWith(tokens, G, i, j)
      /\ G[Span("and", i, j)] = OfAnd(tokens, G, i, j)
      /\ G[Span("or", i, j)] = OfOr(tokens, G, i, j)
  BY <1>n, <1>0, Derives DEF G
<1>p. /\ P[Call("primary", i)] = Primary(tokens, P, i)
      /\ P[Call("with", i)] = ParseWith(tokens, P, i)
      /\ P[Call("and", i)] = ParseAnd(P, i)
      /\ P[Call("or", i)] = ParseOr(P, i)
  BY <1>n, <1>0, Parses DEF P
<1> SUFFICES ASSUME NEW r \in G[span]
             PROVE  \E e \in Exprs(tokens) : Agrees(e, r) /\ FoundAs(tokens, span, e)
  BY DEF Found, G
<1>1. CASE span.level = "primary"
  <2>1. r \in OfPrimary(tokens, G, i, j)
    BY <1>0, <1>1, <1>d
  <2>2. CASE j = i + 1 /\ tokens[i] \notin Operators \cup Parentheses
    <3>1. r = Sole(tokens[i])
      BY <2>1, <2>2 DEF OfPrimary
    <3>2. i \in 1 .. n /\ ~ (i > n)
      BY <1>0, <2>2
    <3>3. tokens[i] \in ToSet(tokens)
      BY <1>n, <3>2, TokenIn
    <3>4. Id(tokens[i]) \in Exprs(tokens)
      BY <3>3 DEF Exprs, Id
    <3>5. Primary(tokens, P, i) = Parsed(Id(tokens[i]), j)
      BY <1>n, <2>2, <3>2 DEF Primary, Parentheses
    <3>6. Agrees(Id(tokens[i]), r)
      BY <3>1 DEF Agrees, Id, Sole
    <3>7. FoundAs(tokens, span, Id(tokens[i]))
      BY <1>0, <1>1, <1>p, <3>5, FoundIs DEF P
    <3> QED BY <3>4, <3>6, <3>7
  <2>3. CASE j > i + 2 /\ tokens[i] = "(" /\ tokens[j - 1] = ")"
    <3>0. /\ i + 1 \in 1 .. n + 1 /\ j - 1 \in 1 .. n + 1 /\ i <= i + 1 /\ j - 1 <= j
          /\ i + 1 < j - 1 /\ (j - 1) - (i + 1) < j - i /\ i \in 1 .. n /\ j - 1 \in 1 .. n
          /\ (j - 1) + 1 = j /\ ~ (i > n) /\ j # i + 1
      <4>1. j > i + 2 /\ i \in 1 .. n + 1 /\ j \in 1 .. n + 1
        BY <1>0, <2>3
      <4> QED BY <4>1
    <3>1. r \in G[Span("or", i + 1, j - 1)]
      BY <2>1, <2>3, <3>0 DEF OfPrimary
    <3>2. Found(tokens, Span("or", i + 1, j - 1))
      BY <1>a, <3>0
    <3>3. PICK e \in Exprs(tokens) : Agrees(e, r) /\ FoundAs(tokens, Span("or", i + 1, j - 1), e)
      BY <3>1, <3>2 DEF Found, G
    <3>4. /\ ~ Peeks(tokens, j - 1, "WITH") /\ ~ Peeks(tokens, j - 1, "AND")
          /\ ~ Peeks(tokens, j - 1, "OR") /\ Peeks(tokens, j - 1, ")")
      BY <1>n, <2>3, <3>0 DEF Peeks
    <3>5. P[Call("or", i + 1)] = P[Loop("or_loop", Parsed(e, j - 1))]
      BY <3>3, <3>4, FoundIs DEF P
    <3>6. P[Loop("or_loop", Parsed(e, j - 1))] = Parsed(e, j - 1)
      BY <1>l, <3>0, <3>4 DEF OrLoop
    <3>7. P[Call("or", i + 1)] = Parsed(e, j - 1)
      BY <3>5, <3>6
    <3>8. Parsed(e, j - 1).at = j - 1 /\ Parsed(e, j - 1).expr = e
      BY DEF Parsed
    <3>9. Primary(tokens, P, i) = Parsed(e, j)
      BY <1>n, <2>3, <3>0, <3>4, <3>7, <3>8 DEF Primary, Operators
    <3>10. FoundAs(tokens, span, e)
      BY <1>0, <1>1, <1>p, <3>9, FoundIs DEF P
    <3> QED BY <3>3, <3>10
  <2> QED BY <2>1, <2>2, <2>3 DEF OfPrimary
<1>2. CASE span.level = "with"
  <2>1. r \in OfWith(tokens, G, i, j)
    BY <1>0, <1>2, <1>d
  <2>2. CASE r \in G[Span("primary", i, j)]
    <3>1. Found(tokens, Span("primary", i, j))
      BY <1>0, <1>a, <1>2 DEF Height
    <3>2. PICK e \in Exprs(tokens) : Agrees(e, r) /\ FoundAs(tokens, Span("primary", i, j), e)
      BY <2>2, <3>1 DEF Found, G
    <3>3. P[Call("primary", i)] = Parsed(e, j)
      BY <3>2, FoundIs DEF P
    <3>4. ~ Peeks(tokens, j, "WITH") => ParseWith(tokens, P, i) = Parsed(e, j)
      BY <3>3 DEF ParseWith, Parsed
    <3>5. FoundAs(tokens, span, e)
      BY <1>0, <1>2, <1>p, <3>4, FoundIs DEF P
    <3> QED BY <3>2, <3>5
  <2>3. ASSUME j > i + 2, tokens[j - 2] = "WITH", NEW a \in G[Span("primary", i, j - 2)],
               a.single, r = Excepted(a)
        PROVE  \E e \in Exprs(tokens) : Agrees(e, r) /\ FoundAs(tokens, span, e)
    <3>0. /\ j - 2 \in 1 .. n + 1 /\ i < j - 2 /\ i <= i /\ j - 2 <= j /\ (j - 2) - i < j - i
          /\ j - 2 \in 1 .. n /\ j - 2 < n /\ (j - 2) + 1 = j - 1 /\ (j - 2) + 2 = j
      <4>1. j > i + 2
        BY <2>3
      <4> QED BY <1>0, <4>1
    <3>1. Found(tokens, Span("primary", i, j - 2))
      BY <1>0, <1>a, <3>0
    <3>2. PICK b \in Exprs(tokens) : Agrees(b, a) /\ FoundAs(tokens, Span("primary", i, j - 2), b)
      BY <2>3, <3>1 DEF Found, G
    <3>3. P[Call("primary", i)] = Parsed(b, j - 2) /\ b.single
      BY <2>3, <3>2, FoundIs DEF P, Agrees
    <3> DEFINE e == With(b, tokens[j - 1])
    <3>4. e \in Exprs(tokens)
      BY DEF Exprs, With
    <3>5. Agrees(e, r)
      BY <2>3, <3>2 DEF Agrees, With, Excepted
    <3>6. Peeks(tokens, j - 2, "WITH")
      BY <1>n, <2>3, <3>0 DEF Peeks
    <3>7. Parsed(b, j - 2).at = j - 2 /\ Parsed(b, j - 2).expr = b
      BY DEF Parsed
    <3>8. ParseWith(tokens, P, i) = Parsed(e, j)
      BY <1>n, <3>0, <3>3, <3>6, <3>7 DEF ParseWith
    <3>9. FoundAs(tokens, span, e)
      BY <1>0, <1>2, <1>p, <3>8, FoundIs DEF P
    <3> QED BY <3>4, <3>5, <3>9
  <2>4. CASE r \notin G[Span("primary", i, j)]
    <3>1. /\ j > i + 2 /\ tokens[j - 2] = "WITH"
          /\ \E a \in G[Span("primary", i, j - 2)] : a.single /\ r = Excepted(a)
      BY <2>1, <2>4 DEF OfWith
    <3> QED BY <2>3, <3>1
  <2> QED BY <2>2, <2>4
<1>3. CASE span.level = "and"
  <2>1. r \in OfAnd(tokens, G, i, j)
    BY <1>0, <1>3, <1>d
  <2>2. CASE r \in G[Span("with", i, j)]
    <3>1. Found(tokens, Span("with", i, j))
      BY <1>0, <1>a, <1>3 DEF Height
    <3>2. PICK e \in Exprs(tokens) : Agrees(e, r) /\ FoundAs(tokens, Span("with", i, j), e)
      BY <2>2, <3>1 DEF Found, G
    <3>3. ~ Peeks(tokens, j, "WITH") => P[Call("with", i)] = Parsed(e, j)
      BY <3>2, FoundIs DEF P
    <3>4. Parsed(e, j).at # 0
      BY <1>0 DEF Parsed
    <3>5. ~ Peeks(tokens, j, "WITH") => ParseAnd(P, i) = P[Loop("and_loop", Parsed(e, j))]
      BY <3>3, <3>4 DEF ParseAnd
    <3>6. FoundAs(tokens, span, e)
      BY <1>0, <1>3, <1>p, <3>5, FoundIs DEF P
    <3> QED BY <3>2, <3>6
  <2>3. ASSUME NEW k \in Places(tokens, "AND", i, j), NEW v \in G[Span("and", i, k)],
               NEW w \in G[Span("with", k + 1, j)], r = Both(v, w)
        PROVE  \E e \in Exprs(tokens) : Agrees(e, r) /\ FoundAs(tokens, span, e)
    <3>0. /\ k \in 1 .. n + 1 /\ k + 1 \in 1 .. n + 1 /\ i < k /\ k < j /\ k + 1 < j /\ k \in 1 .. n
          /\ tokens[k] = "AND" /\ i <= i /\ k <= j /\ k - i < j - i /\ i <= k + 1 /\ j <= j
          /\ j - (k + 1) < j - i
      BY <1>0 DEF Places
    <3>1. Found(tokens, Span("and", i, k)) /\ Found(tokens, Span("with", k + 1, j))
      BY <1>0, <1>a, <3>0
    <3>2. PICK a \in Exprs(tokens) : Agrees(a, v) /\ FoundAs(tokens, Span("and", i, k), a)
      BY <2>3, <3>1 DEF Found, G
    <3>3. PICK b \in Exprs(tokens) : Agrees(b, w) /\ FoundAs(tokens, Span("with", k + 1, j), b)
      BY <2>3, <3>1 DEF Found, G
    <3> DEFINE e == And(a, b)
    <3>4. e \in Exprs(tokens)
      BY DEF Exprs, And
    <3>5. v \in Meanings(S) /\ w \in Meanings(S)
      BY <1>n, <1>0, <3>0, DerivedIn DEF G
    <3>6. Agrees(e, r)
      BY <2>3, <3>2, <3>3, <3>5, Agreements
    <3>7. ~ Peeks(tokens, k, "WITH") /\ Peeks(tokens, k, "AND")
      BY <1>n, <3>0 DEF Peeks
    <3>8. P[Call("and", i)] = P[Loop("and_loop", Parsed(a, k))]
      BY <3>2, <3>7, FoundIs DEF P
    <3>9. ASSUME ~ Peeks(tokens, j, "WITH")
          PROVE  P[Call("and", i)] = P[Loop("and_loop", Parsed(e, j))]
      <4>1. P[Call("with", k + 1)] = Parsed(b, j)
        BY <3>3, <3>9, FoundIs DEF P
      <4>2. Parsed(b, j).at = j /\ Parsed(b, j).expr = b /\ j # 0
        BY <1>0 DEF Parsed
      <4>3. /\ P[Loop("and_loop", Parsed(a, k))] = AndLoop(tokens, P, Parsed(a, k))
            /\ Parsed(a, k).at = k /\ Parsed(a, k).expr = a
        BY <1>l, <3>0
      <4>4. AndLoop(tokens, P, Parsed(a, k)) = P[Loop("and_loop", Parsed(e, j))]
        BY <3>7, <4>1, <4>2, <4>3 DEF AndLoop
      <4> QED BY <3>8, <4>3, <4>4
    <3>10. FoundAs(tokens, span, e)
      <4> HIDE DEF e
      <4> QED BY <1>0, <1>3, <3>9, FoundIs DEF P
    <3> QED BY <3>4, <3>6, <3>10
  <2>4. CASE r \notin G[Span("with", i, j)]
    <3>1. \E k \in Places(tokens, "AND", i, j) :
            \E v \in G[Span("and", i, k)], w \in G[Span("with", k + 1, j)] : r = Both(v, w)
      BY <2>1, <2>4 DEF OfAnd
    <3> QED BY <2>3, <3>1
  <2> QED BY <2>2, <2>4
<1>4. CASE span.level = "or"
  <2>1. r \in OfOr(tokens, G, i, j)
    BY <1>0, <1>4, <1>d
  <2>2. CASE r \in G[Span("and", i, j)]
    <3>1. Found(tokens, Span("and", i, j))
      BY <1>0, <1>a, <1>4 DEF Height
    <3>2. PICK e \in Exprs(tokens) : Agrees(e, r) /\ FoundAs(tokens, Span("and", i, j), e)
      BY <2>2, <3>1 DEF Found, G
    <3>3. ~ Peeks(tokens, j, "WITH") => P[Call("and", i)] = P[Loop("and_loop", Parsed(e, j))]
      BY <3>2, FoundIs DEF P
    <3>4. ~ Peeks(tokens, j, "AND") => P[Loop("and_loop", Parsed(e, j))] = Parsed(e, j)
      BY <1>l, <1>0 DEF AndLoop
    <3>5. Parsed(e, j).at # 0
      BY <1>0 DEF Parsed
    <3>6. ~ Peeks(tokens, j, "WITH") /\ ~ Peeks(tokens, j, "AND") =>
            ParseOr(P, i) = P[Loop("or_loop", Parsed(e, j))]
      BY <3>3, <3>4, <3>5 DEF ParseOr
    <3>7. FoundAs(tokens, span, e)
      BY <1>0, <1>4, <1>p, <3>6, FoundIs DEF P
    <3> QED BY <3>2, <3>7
  <2>3. ASSUME NEW k \in Places(tokens, "OR", i, j), NEW v \in G[Span("or", i, k)],
               NEW w \in G[Span("and", k + 1, j)], r = Either(v, w)
        PROVE  \E e \in Exprs(tokens) : Agrees(e, r) /\ FoundAs(tokens, span, e)
    <3>0. /\ k \in 1 .. n + 1 /\ k + 1 \in 1 .. n + 1 /\ i < k /\ k < j /\ k + 1 < j /\ k \in 1 .. n
          /\ tokens[k] = "OR" /\ i <= i /\ k <= j /\ k - i < j - i /\ i <= k + 1 /\ j <= j
          /\ j - (k + 1) < j - i
      BY <1>0 DEF Places
    <3>1. Found(tokens, Span("or", i, k)) /\ Found(tokens, Span("and", k + 1, j))
      BY <1>0, <1>a, <3>0
    <3>2. PICK a \in Exprs(tokens) : Agrees(a, v) /\ FoundAs(tokens, Span("or", i, k), a)
      BY <2>3, <3>1 DEF Found, G
    <3>3. PICK b \in Exprs(tokens) : Agrees(b, w) /\ FoundAs(tokens, Span("and", k + 1, j), b)
      BY <2>3, <3>1 DEF Found, G
    <3> DEFINE e == Or(a, b)
    <3>4. e \in Exprs(tokens)
      BY DEF Exprs, Or
    <3>5. v \in Meanings(S) /\ w \in Meanings(S)
      BY <1>n, <1>0, <3>0, DerivedIn DEF G
    <3>6. Agrees(e, r)
      BY <2>3, <3>2, <3>3, <3>5, Agreements
    <3>7. ~ Peeks(tokens, k, "WITH") /\ ~ Peeks(tokens, k, "AND") /\ Peeks(tokens, k, "OR")
      BY <1>n, <3>0 DEF Peeks
    <3>8. P[Call("or", i)] = P[Loop("or_loop", Parsed(a, k))]
      BY <3>2, <3>7, FoundIs DEF P
    <3>9. ASSUME ~ Peeks(tokens, j, "WITH"), ~ Peeks(tokens, j, "AND")
          PROVE  P[Call("or", i)] = P[Loop("or_loop", Parsed(e, j))]
      <4>0. P[Call("and", k + 1)] = P[Loop("and_loop", Parsed(b, j))]
        BY <3>3, <3>9, FoundIs DEF P
      <4>1. P[Call("and", k + 1)] = Parsed(b, j)
        BY <1>l, <1>0, <3>9, <4>0 DEF AndLoop
      <4>2. Parsed(b, j).at = j /\ Parsed(b, j).expr = b /\ j # 0
        BY <1>0 DEF Parsed
      <4>3. /\ P[Loop("or_loop", Parsed(a, k))] = OrLoop(tokens, P, Parsed(a, k))
            /\ Parsed(a, k).at = k /\ Parsed(a, k).expr = a
        BY <1>l, <3>0
      <4>4. OrLoop(tokens, P, Parsed(a, k)) = P[Loop("or_loop", Parsed(e, j))]
        BY <3>7, <4>1, <4>2, <4>3 DEF OrLoop
      <4> QED BY <3>8, <4>3, <4>4
    <3>10. FoundAs(tokens, span, e)
      <4> HIDE DEF e
      <4> QED BY <1>0, <1>4, <3>9, FoundIs DEF P
    <3> QED BY <3>4, <3>6, <3>10
  <2>4. CASE r \notin G[Span("and", i, j)]
    <3>1. \E k \in Places(tokens, "OR", i, j) :
            \E v \in G[Span("or", i, k)], w \in G[Span("and", k + 1, j)] : r = Either(v, w)
      BY <2>1, <2>4 DEF OfOr
    <3> QED BY <2>3, <3>1
  <2> QED BY <2>2, <2>4
<1> QED BY <1>0, <1>1, <1>2, <1>3, <1>4

(* What the grammar derives is what the parser returns.                      *)
LEMMA Completeness ==
  ASSUME NEW S, NEW tokens \in Seq(S), NEW span \in Spans(tokens)
  PROVE  Found(tokens, span)
<1>n. PICK n \in Nat : n = Len(tokens)
  BY LenNat
<1> n \in Nat
  BY <1>n
<1> DEFINE T == {m \in Nat : \A x \in Spans(tokens) : SpanSize(x) = m => Found(tokens, x)}
<1>0. ASSUME NEW x \in Spans(tokens) PROVE SpanSize(x) \in Nat
  <2>1. x.from \in 1 .. n + 1 /\ x.to \in 1 .. n + 1 /\ Height(x.level) \in Nat
    BY <1>n DEF Spans, Height
  <2>2. Breadth(x.from, x.to) \in Nat
    BY <2>1 DEF Breadth
  <2> QED BY <2>1, <2>2 DEF SpanSize
<1>1. ASSUME NEW m \in Nat, \A l \in Nat : l < m => l \in T PROVE m \in T
  <2> SUFFICES ASSUME NEW x \in Spans(tokens), SpanSize(x) = m PROVE Found(tokens, x)
    OBVIOUS
  <2>1. \A y \in Spans(tokens) : SpanSize(y) < SpanSize(x) => Found(tokens, y)
    BY <1>0, <1>1
  <2> QED BY <2>1, FoundStep
<1>2. Nat \subseteq T
  <2> HIDE DEF T
  <2> QED BY <1>1, Complete
<1> QED BY <1>0, <1>2

(* The whole text, read by parse_expr.                                       *)
LEMMA ExprOf ==
  ASSUME NEW S, NEW tokens \in Seq(S), ParseExpr(tokens).at # 0
  PROVE  LET e == ParseExpr(tokens).expr IN
         /\ e \in Exprs(tokens)
         /\ \E r \in Readings(tokens) : Agrees(e, r)
         /\ \A k \in 1 .. Len(tokens) :
              tokens[k] \in e.ids \cup Operators \cup Parentheses \/ Follows(tokens, 1, k)
         /\ e.known <=> Exceptions(tokens) \subseteq KnownExceptions
<1>n. PICK n \in Nat : n = Len(tokens)
  BY LenNat
<1> n \in Nat
  BY <1>n
<1> DEFINE c == Parser(tokens)[Call("or", 1)]
           e == c.expr
<1>1. ParseExpr(tokens) = c /\ c.at = n + 1
  BY <1>n DEF ParseExpr, Failed, Parsed
<1>2. 1 \in 1 .. n + 1
  OBVIOUS
<1>3. e \in Exprs(tokens)
  BY <1>n, <1>2, Returned
<1>4. SoundCall(tokens, "or", 1)
  BY <1>n, <1>2, Soundness DEF SoundAt
<1>5. Sound(tokens, "or", e, 1, n + 1)
  <2>1. c.at # 0
    BY <1>1
  <2> QED BY <1>1, <1>4, <2>1 DEF SoundCall
<1> HIDE DEF e
<1>6. \E r \in Readings(tokens) : Agrees(e, r)
  BY <1>n, <1>5 DEF Sound, Derived, Readings
<1>7. (n + 1) - 1 = n
  OBVIOUS
<1>8. \A k \in 1 .. n :
        tokens[k] \in e.ids \cup Operators \cup Parentheses \/ Follows(tokens, 1, k)
  BY <1>5, <1>7 DEF Sound, Mentions
<1>9. e.known <=> \A k \in 1 .. n : Follows(tokens, 1, k) => tokens[k] \in KnownExceptions
  BY <1>5, <1>7 DEF Sound, ExceptionsOf
<1>10. Exceptions(tokens) \subseteq KnownExceptions
         <=> \A k \in 1 .. n : Follows(tokens, 1, k) => tokens[k] \in KnownExceptions
  <2>1. \A k : (k \in 1 .. n /\ Follows(tokens, 1, k)) <=> (k \in 2 .. n /\ tokens[k - 1] = "WITH")
    BY DEF Follows
  <2>2. \A x : x \in Exceptions(tokens) <=> \E k \in 2 .. n : tokens[k - 1] = "WITH" /\ x = tokens[k]
    BY <1>n DEF Exceptions
  <2>3. \A x : x \in Exceptions(tokens) <=> \E k \in 1 .. n : Follows(tokens, 1, k) /\ x = tokens[k]
    BY <2>1, <2>2
  <2> QED BY <2>3
<1> QED BY <1>n, <1>1, <1>3, <1>6, <1>8, <1>9, <1>10 DEF e

LEMMA ReadIsParsed ==
  ASSUME NEW S, NEW tokens \in Seq(S), NEW r \in Readings(tokens)
  PROVE  ParseExpr(tokens).at # 0 /\ Agrees(ParseExpr(tokens).expr, r)
<1>n. PICK n \in Nat : n = Len(tokens)
  BY LenNat
<1> n \in Nat
  BY <1>n
<1> DEFINE P == Parser(tokens)
           whole == Span("or", 1, n + 1)
<1>1. 1 \in 1 .. n + 1 /\ n + 1 \in 1 .. n + 1
  OBVIOUS
<1>2. whole \in Spans(tokens)
  BY <1>n, <1>1, SpanMade
<1>3. r \in Grammar(tokens)[whole] /\ Found(tokens, whole)
  BY <1>n, <1>2, Completeness DEF Readings
<1>4. PICK e \in Exprs(tokens) : Agrees(e, r) /\ FoundAs(tokens, whole, e)
  BY <1>3 DEF Found
<1> HIDE DEF P
<1>5. \A word : ~ Peeks(tokens, n + 1, word)
  BY <1>n DEF Peeks
<1>6. P[Call("or", 1)] = P[Loop("or_loop", Parsed(e, n + 1))]
  BY <1>4, <1>5, FoundIs DEF P
<1>7. P[Loop("or_loop", Parsed(e, n + 1))] = Parsed(e, n + 1)
  <2>1. /\ Parsed(e, n + 1) \in Results(tokens) /\ Parsed(e, n + 1).at = n + 1
        /\ n + 1 # 0
    BY <1>n, InResults
  <2>2. P[Loop("or_loop", Parsed(e, n + 1))] = OrLoop(tokens, P, Parsed(e, n + 1))
    BY <2>1, LoopsParse DEF P
  <2> QED BY <1>5, <2>1, <2>2 DEF OrLoop
<1>8. Parsed(e, n + 1).at = n + 1 /\ Parsed(e, n + 1).expr = e /\ n + 1 # 0
  BY DEF Parsed
<1>9. ParseExpr(tokens) = Parsed(e, n + 1)
  BY <1>n, <1>6, <1>7, <1>8 DEF ParseExpr, P
<1> QED BY <1>4, <1>8, <1>9

(* judge passes an expression exactly when the grammar derives the whole     *)
(* text and the policy holds of its tokens and of that reading, whatever the *)
(* text, the lists and where the code goes (sbom.rs:38-50, :110-341).        *)
THEOREM JudgeIsPolicy ==
  ASSUME NEW S, NEW tokens \in Seq(S), NEW shipped
  PROVE  Judge(tokens, shipped) # "Fail" <=> FitFor(tokens, shipped # "No")
<1> DEFINE parsed == ParseExpr(tokens)
           e == parsed.expr
<1>1. ASSUME parsed.at = 0
      PROVE  Judge(tokens, shipped) = "Fail" /\ ~ FitFor(tokens, shipped # "No")
  <2>1. Readings(tokens) = {}
    BY <1>1, ReadIsParsed
  <2> QED BY <1>1, <2>1 DEF Judge, FitFor
<1>2. ASSUME parsed.at # 0
      PROVE  Judge(tokens, shipped) # "Fail" <=> FitFor(tokens, shipped # "No")
  <2>1. /\ e \in Exprs(tokens)
        /\ \A k \in 1 .. Len(tokens) :
             tokens[k] \in e.ids \cup Operators \cup Parentheses \/ Follows(tokens, 1, k)
        /\ e.known <=> Exceptions(tokens) \subseteq KnownExceptions
    BY <1>2, ExprOf
  <2>2. PICK r \in Readings(tokens) : Agrees(e, r)
    BY <1>2, ExprOf
  <2>3. \A x \in Readings(tokens) : Agrees(e, x)
    BY ReadIsParsed
  <2> HIDE DEF parsed
  <2>4. ASSUME e.known, NEW Listed \in SUBSET (ForbiddenAnywhere \cup ForbiddenShipped \cup Unknown)
        PROVE  e.ids \cap Listed = {} <=> ToSet(tokens) \cap Listed = {}
    <3>1. e.ids \subseteq ToSet(tokens)
      BY <2>1 DEF Exprs
    <3>2. ASSUME NEW x \in ToSet(tokens) \cap Listed PROVE x \in e.ids
      <4>1. PICK k \in 1 .. Len(tokens) : tokens[k] = x
        BY DEF ToSet
      <4>2. x \notin Operators /\ x \notin Parentheses /\ x \notin KnownExceptions
        BY <2>4, NoWordNamed
      <4>3. ~ Follows(tokens, 1, k)
        <5>1. PICK n \in Nat : n = Len(tokens)
          BY LenNat
        <5>2. k \in 1 .. n /\ n \in Nat
          BY <5>1
        <5>3. ASSUME Follows(tokens, 1, k) PROVE FALSE
          <6>1. k \in 2 .. n /\ tokens[k - 1] = "WITH"
            BY <5>2, <5>3 DEF Follows
          <6>2. tokens[k] \in Exceptions(tokens)
            BY <5>1, <6>1 DEF Exceptions
          <6> QED BY <2>1, <2>4, <4>1, <4>2, <6>2
        <5> QED BY <5>3
      <4> QED BY <2>1, <4>1, <4>2, <4>3
    <3> QED BY <3>1, <3>2
  <2> DEFINE barred == e.ids \cap (Unknown \cup ForbiddenAnywhere) # {} \/ ~ e.known
             clean == e.ids \cap ForbiddenShipped = {} /\ e.fit
  <2>5. Judge(tokens, shipped) = IF barred THEN "Fail" ELSE IF clean THEN "Ok"
                                 ELSE IF shipped = "No" THEN "Warn" ELSE "Fail"
    BY <1>2 DEF Judge, parsed
  <2>6. barred <=> \/ ToSet(tokens) \cap (Unknown \cup ForbiddenAnywhere) # {}
                   \/ ~ Exceptions(tokens) \subseteq KnownExceptions
    BY <2>1, <2>4
  <2>7. ~ barred => (e.ids \cap ForbiddenShipped = {} <=> ToSet(tokens) \cap ForbiddenShipped = {})
    BY <2>4
  <2>8. \A x \in Readings(tokens) : e.fit <=> \E way \in x.ways : way \subseteq Allowed
    BY <2>3 DEF Agrees
  <2>9. FitFor(tokens, shipped # "No") <=>
          ~ barred /\ (shipped # "No" => clean)
    BY <2>2, <2>6, <2>7, <2>8 DEF FitFor
  <2> HIDE DEF barred, clean
  <2> QED BY <2>5, <2>9
<1> QED BY <1>1, <1>2

-----------------------------------------------------------------------------
(* Several entries, each in parentheses, joined by AND                       *)

LEMMA EmptyIsUnread ==
  ASSUME NEW S, NEW tokens \in Seq(S), Len(tokens) = 0
  PROVE  Readings(tokens) = {}
<1> SUFFICES ASSUME NEW r \in Readings(tokens) PROVE FALSE
  OBVIOUS
<1>0. 1 \in 1 .. Len(tokens) + 1 /\ 0 .. Len(tokens) + 1 = {0, 1}
  OBVIOUS
<1>1. ParseExpr(tokens).at # 0
  BY ReadIsParsed
<1>2. Parser(tokens)[Call("or", 1)].at = 1
  BY <1>1 DEF ParseExpr, Failed, Parsed
<1>3. Parser(tokens)[Call("or", 1)].at = 0 \/ Parser(tokens)[Call("or", 1)].at > 1
  BY <1>0, Returned
<1> QED BY <1>2, <1>3

LEMMA LastIsNoWith ==
  ASSUME NEW S, NEW tokens \in Seq(S), Readings(tokens) # {}, Exceptions(tokens) \subseteq KnownExceptions
  PROVE  tokens[Len(tokens)] # "WITH"
<1>n. PICK n \in Nat : n = Len(tokens)
  BY LenNat
<1> n \in Nat
  BY <1>n
<1> DEFINE c == Parser(tokens)[Call("or", 1)]
<1>1. ParseExpr(tokens).at # 0
  BY ReadIsParsed
<1>2. ParseExpr(tokens) = c /\ c.at = n + 1
  BY <1>n, <1>1 DEF ParseExpr, Failed, Parsed
<1>3. c.expr.known
  BY <1>1, <1>2, ExprOf
<1>4. 1 \in 1 .. n + 1 /\ (n + 1) - 1 = n
  OBVIOUS
<1>5. SoundCall(tokens, "or", 1)
  BY <1>n, <1>4, Soundness DEF SoundAt
<1>6. c.at # 0
  BY <1>2
<1>7. ExceptionsOf(tokens, c.expr, 1, n + 1)
  BY <1>2, <1>5, <1>6 DEF SoundCall, Sound
<1> QED BY <1>n, <1>3, <1>4, <1>7 DEF ExceptionsOf

(* A derivation does not depend on where in a text its span is.              *)
LEMMA Moves ==
  ASSUME NEW S, NEW t \in Seq(S), NEW u \in Seq(S), NEW s \in Nat, s + Len(t) <= Len(u),
         \A k \in 1 .. Len(t) : u[s + k] = t[k], NEW span \in Spans(t)
  PROVE  Grammar(u)[Span(span.level, s + span.from, s + span.to)] = Grammar(t)[span]
<1>n. PICK n \in Nat : n = Len(t)
  BY LenNat
<1> n \in Nat
  BY <1>n
<1>z. PICK z \in Nat : z = Len(u)
  BY LenNat
<1> z \in Nat
  BY <1>z
<1>s. s + n <= z /\ \A k \in 1 .. n : u[s + k] = t[k]
  BY <1>n, <1>z
<1> DEFINE Gu == Grammar(u)
           Gt == Grammar(t)
           Same(x) == Gu[Span(x.level, s + x.from, s + x.to)] = Gt[x]
           T == {m \in Nat : \A x \in Spans(t) : SpanSize(x) = m => Same(x)}
<1> HIDE DEF Gu, Gt
<1>0. ASSUME NEW x \in Spans(t) PROVE SpanSize(x) \in Nat
  <2>1. x.from \in 1 .. n + 1 /\ x.to \in 1 .. n + 1 /\ Height(x.level) \in Nat
    BY <1>n DEF Spans, Height
  <2>2. Breadth(x.from, x.to) \in Nat
    BY <2>1 DEF Breadth
  <2> QED BY <2>1, <2>2 DEF SpanSize
<1>1. ASSUME NEW m \in Nat, \A l \in Nat : l < m => l \in T PROVE m \in T
  <2> SUFFICES ASSUME NEW x \in Spans(t), SpanSize(x) = m PROVE Same(x)
    OBVIOUS
  <2>1. \A y \in Spans(t) : SpanSize(y) < SpanSize(x) => Same(y)
    BY <1>0, <1>1
  <2> DEFINE i == x.from
             j == x.to
  <2>2. /\ i \in 1 .. n + 1 /\ j \in 1 .. n + 1 /\ x.level \in {"or", "and", "with", "primary"}
        /\ x = Span(x.level, i, j)
    BY <1>n DEF Spans, Span
  <2>3. SpanSize(x) = 4 * Breadth(i, j) + Height(x.level)
    BY DEF SpanSize
  <2> HIDE DEF i, j
  <2>4. ASSUME NEW level \in {"or", "and", "with", "primary"}, NEW k \in 1 .. n + 1, NEW l \in 1 .. n + 1,
               \/ k = i /\ l = j /\ Height(level) < Height(x.level)
               \/ i <= k /\ l <= j /\ k < l /\ l - k < j - i
        PROVE  Gu[Span(level, s + k, s + l)] = Gt[Span(level, k, l)]
    <3>1. /\ Span(level, k, l) \in Spans(t) /\ Span(level, k, l).from = k
          /\ Span(level, k, l).to = l /\ Span(level, k, l).level = level
      <4>1. /\ k \in 1 .. Len(t) + 1 /\ l \in 1 .. Len(t) + 1
            /\ level \in {"or", "and", "with", "primary"}
        BY <1>n
      <4> QED BY ONLY <4>1, SpanMade
    <3>2. SpanSize(Span(level, k, l)) = 4 * Breadth(k, l) + Height(level)
      BY <3>1 DEF SpanSize
    <3>3. Height(level) \in 0 .. 3 /\ Height(x.level) \in 0 .. 3
      BY DEF Height
    <3>4. 4 * Breadth(k, l) + Height(level) < 4 * Breadth(i, j) + Height(x.level)
      BY <2>2, <2>4, <3>3, Smaller
    <3>5. Same(Span(level, k, l))
      BY <2>1, <2>3, <3>1, <3>2, <3>4
    <3> QED BY <3>1, <3>5
  <2>5. s + i \in 1 .. z + 1 /\ s + j \in 1 .. z + 1
    BY <1>s, <2>2
  <2>6. /\ Gt[Span("primary", i, j)] = OfPrimary(t, Gt, i, j)
        /\ Gt[Span("with", i, j)] = OfWith(t, Gt, i, j)
        /\ Gt[Span("and", i, j)] = OfAnd(t, Gt, i, j)
        /\ Gt[Span("or", i, j)] = OfOr(t, Gt, i, j)
    BY <1>n, <2>2, Derives DEF Gt
  <2>7. /\ Gu[Span("primary", s + i, s + j)] = OfPrimary(u, Gu, s + i, s + j)
        /\ Gu[Span("with", s + i, s + j)] = OfWith(u, Gu, s + i, s + j)
        /\ Gu[Span("and", s + i, s + j)] = OfAnd(u, Gu, s + i, s + j)
        /\ Gu[Span("or", s + i, s + j)] = OfOr(u, Gu, s + i, s + j)
    BY <1>z, <2>5, Derives DEF Gu
  <2>ij. i \in 1 .. n + 1 /\ j \in 1 .. n + 1
    BY <2>2
  <2>8. CASE x.level = "primary"
    <3>1. CASE j = i + 1
      <4>1. i \in 1 .. n /\ s + j = (s + i) + 1 /\ ~ (s + j > (s + i) + 2) /\ ~ (j > i + 2)
        BY <2>ij, <3>1
      <4>2. u[s + i] = t[i]
        BY <1>s, <4>1
      <4>3. OfPrimary(u, Gu, s + i, s + j) = OfPrimary(t, Gt, i, j)
        BY <3>1, <4>1, <4>2 DEF OfPrimary
      <4> QED BY <2>2, <2>6, <2>7, <2>8, <4>3 DEF i, j
    <3>2. CASE j > i + 2
      <4>1. /\ i \in 1 .. n /\ j - 1 \in 1 .. n /\ s + j # (s + i) + 1 /\ s + j > (s + i) + 2
            /\ j # i + 1 /\ (s + j) - 1 = s + (j - 1) /\ (s + i) + 1 = s + (i + 1)
            /\ i + 1 \in 1 .. n + 1 /\ j - 1 \in 1 .. n + 1 /\ i <= i + 1 /\ j - 1 <= j
            /\ i + 1 < j - 1 /\ (j - 1) - (i + 1) < j - i
        BY <2>ij, <3>2
      <4>2. u[s + i] = t[i] /\ u[s + (j - 1)] = t[j - 1]
        BY <1>s, <4>1
      <4>3. Gu[Span("or", s + (i + 1), s + (j - 1))] = Gt[Span("or", i + 1, j - 1)]
        BY <2>4, <4>1
      <4>4. OfPrimary(u, Gu, s + i, s + j) = OfPrimary(t, Gt, i, j)
        BY <3>2, <4>1, <4>2, <4>3 DEF OfPrimary
      <4> QED BY <2>2, <2>6, <2>7, <2>8, <4>4 DEF i, j
    <3>3. CASE j # i + 1 /\ ~ (j > i + 2)
      <4>1. s + j # (s + i) + 1 /\ ~ (s + j > (s + i) + 2)
        BY <2>2, <3>3
      <4>2. OfPrimary(u, Gu, s + i, s + j) = OfPrimary(t, Gt, i, j)
        BY <3>3, <4>1 DEF OfPrimary
      <4> QED BY <2>2, <2>6, <2>7, <2>8, <4>2 DEF i, j
    <3> QED BY <3>1, <3>2, <3>3
  <2>9. CASE x.level = "with"
    <3>1. Gu[Span("primary", s + i, s + j)] = Gt[Span("primary", i, j)]
      BY <2>2, <2>4, <2>9 DEF Height
    <3>2. CASE j > i + 2
      <4>1. /\ s + j > (s + i) + 2 /\ (s + j) - 2 = s + (j - 2) /\ j - 2 \in 1 .. n
            /\ j - 2 \in 1 .. n + 1 /\ i <= i /\ j - 2 <= j /\ i < j - 2 /\ (j - 2) - i < j - i
        <5>1. i \in Nat /\ j \in Nat /\ s \in Nat /\ n \in Nat /\ i >= 1 /\ j <= n + 1
          BY <2>ij
        <5> QED BY ONLY <3>2, <5>1
      <4>2. u[s + (j - 2)] = t[j - 2]
        BY <1>s, <4>1
      <4>3. Gu[Span("primary", s + i, s + (j - 2))] = Gt[Span("primary", i, j - 2)]
        BY <2>2, <2>4, <4>1
      <4>4. OfWith(u, Gu, s + i, s + j) = OfWith(t, Gt, i, j)
        BY <3>1, <3>2, <4>1, <4>2, <4>3 DEF OfWith
      <4> QED BY <2>2, <2>6, <2>7, <2>9, <4>4 DEF i, j
    <3>3. CASE ~ (j > i + 2)
      <4>1. ~ (s + j > (s + i) + 2)
        BY <2>2, <3>3
      <4>2. OfWith(u, Gu, s + i, s + j) = OfWith(t, Gt, i, j)
        BY <3>1, <3>3, <4>1 DEF OfWith
      <4> QED BY <2>2, <2>6, <2>7, <2>9, <4>2 DEF i, j
    <3> QED BY <3>2, <3>3
  <2>p. ASSUME NEW word
        PROVE  \A k : k \in Places(t, word, i, j) <=> s + k \in Places(u, word, s + i, s + j) /\ k \in Nat
    <3>1. ASSUME NEW k \in Places(t, word, i, j) PROVE s + k \in Places(u, word, s + i, s + j) /\ k \in Nat
      <4>1. t[k] = word
        BY DEF Places
      <4>2. k \in 1 .. n /\ s + k \in (s + i) + 1 .. (s + j) - 2
        <5>1. k \in i + 1 .. j - 2
          BY DEF Places
        <5> QED BY <2>2, <5>1
      <4> QED BY <1>s, <4>1, <4>2 DEF Places
    <3>2. ASSUME NEW k \in Nat, s + k \in Places(u, word, s + i, s + j) PROVE k \in Places(t, word, i, j)
      <4>1. s + k \in (s + i) + 1 .. (s + j) - 2 /\ u[s + k] = word
        BY <3>2 DEF Places
      <4>2. k \in 1 .. n /\ k \in i + 1 .. j - 2
        BY <2>2, <4>1
      <4> QED BY <1>s, <4>1, <4>2 DEF Places
    <3> QED BY <3>1, <3>2
  <2>q. ASSUME NEW word, NEW l \in Places(u, word, s + i, s + j)
        PROVE  \E k \in Places(t, word, i, j) : l = s + k
    <3>1. l \in (s + i) + 1 .. (s + j) - 2
      BY DEF Places
    <3>2. l - s \in Nat /\ l = s + (l - s)
      BY <2>2, <3>1
    <3> QED BY <2>p, <3>2
  <2>10. CASE x.level = "and"
    <3> DEFINE Pu(k) == {Both(a, b) : a \in Gu[Span("and", s + i, k)], b \in Gu[Span("with", k + 1, s + j)]}
               Pt(k) == {Both(a, b) : a \in Gt[Span("and", i, k)], b \in Gt[Span("with", k + 1, j)]}
    <3>1. Gu[Span("with", s + i, s + j)] = Gt[Span("with", i, j)]
      BY <2>2, <2>4, <2>10 DEF Height
    <3>2. ASSUME NEW k \in Places(t, "AND", i, j) PROVE Pu(s + k) = Pt(k)
      <4>1. k \in i + 1 .. j - 2
        BY DEF Places
      <4>2. /\ k \in 1 .. n + 1 /\ k + 1 \in 1 .. n + 1 /\ (s + k) + 1 = s + (k + 1)
            /\ i < k /\ k <= j /\ k - i < j - i /\ i <= k + 1 /\ k + 1 < j /\ j - (k + 1) < j - i
            /\ i <= i /\ j <= j
        BY <2>2, <4>1
      <4>3. /\ Gu[Span("and", s + i, s + k)] = Gt[Span("and", i, k)]
            /\ Gu[Span("with", s + (k + 1), s + j)] = Gt[Span("with", k + 1, j)]
        BY <2>2, <2>4, <4>2
      <4> QED BY <4>2, <4>3
    <3>3. /\ OfAnd(u, Gu, s + i, s + j) = Gu[Span("with", s + i, s + j)]
               \cup UNION {Pu(k) : k \in Places(u, "AND", s + i, s + j)}
          /\ OfAnd(t, Gt, i, j) = Gt[Span("with", i, j)] \cup UNION {Pt(k) : k \in Places(t, "AND", i, j)}
      BY DEF OfAnd
    <3> HIDE DEF Pu, Pt
    <3>4. UNION {Pu(k) : k \in Places(u, "AND", s + i, s + j)} = UNION {Pt(k) : k \in Places(t, "AND", i, j)}
      <4>1. \A k \in Places(t, "AND", i, j) : s + k \in Places(u, "AND", s + i, s + j)
        BY <2>p
      <4>2. \A l \in Places(u, "AND", s + i, s + j) : \E k \in Places(t, "AND", i, j) : l = s + k
        BY <2>q
      <4> QED BY <3>2, <4>1, <4>2
    <3>5. OfAnd(u, Gu, s + i, s + j) = OfAnd(t, Gt, i, j)
      BY <3>1, <3>3, <3>4
    <3> QED BY <2>2, <2>6, <2>7, <2>10, <3>5 DEF i, j
  <2>11. CASE x.level = "or"
    <3> DEFINE Pu(k) == {Either(a, b) : a \in Gu[Span("or", s + i, k)], b \in Gu[Span("and", k + 1, s + j)]}
               Pt(k) == {Either(a, b) : a \in Gt[Span("or", i, k)], b \in Gt[Span("and", k + 1, j)]}
    <3>1. Gu[Span("and", s + i, s + j)] = Gt[Span("and", i, j)]
      BY <2>2, <2>4, <2>11 DEF Height
    <3>2. ASSUME NEW k \in Places(t, "OR", i, j) PROVE Pu(s + k) = Pt(k)
      <4>1. k \in i + 1 .. j - 2
        BY DEF Places
      <4>2. /\ k \in 1 .. n + 1 /\ k + 1 \in 1 .. n + 1 /\ (s + k) + 1 = s + (k + 1)
            /\ i < k /\ k <= j /\ k - i < j - i /\ i <= k + 1 /\ k + 1 < j /\ j - (k + 1) < j - i
            /\ i <= i /\ j <= j
        BY <2>2, <4>1
      <4>3. /\ Gu[Span("or", s + i, s + k)] = Gt[Span("or", i, k)]
            /\ Gu[Span("and", s + (k + 1), s + j)] = Gt[Span("and", k + 1, j)]
        BY <2>2, <2>4, <4>2
      <4> QED BY <4>2, <4>3
    <3>3. /\ OfOr(u, Gu, s + i, s + j) = Gu[Span("and", s + i, s + j)]
               \cup UNION {Pu(k) : k \in Places(u, "OR", s + i, s + j)}
          /\ OfOr(t, Gt, i, j) = Gt[Span("and", i, j)] \cup UNION {Pt(k) : k \in Places(t, "OR", i, j)}
      BY DEF OfOr
    <3> HIDE DEF Pu, Pt
    <3>4. UNION {Pu(k) : k \in Places(u, "OR", s + i, s + j)} = UNION {Pt(k) : k \in Places(t, "OR", i, j)}
      <4>1. \A k \in Places(t, "OR", i, j) : s + k \in Places(u, "OR", s + i, s + j)
        BY <2>p
      <4>2. \A l \in Places(u, "OR", s + i, s + j) : \E k \in Places(t, "OR", i, j) : l = s + k
        BY <2>q
      <4> QED BY <3>2, <4>1, <4>2
    <3>5. OfOr(u, Gu, s + i, s + j) = OfOr(t, Gt, i, j)
      BY <3>1, <3>3, <3>4
    <3> QED BY <2>2, <2>6, <2>7, <2>11, <3>5 DEF i, j
  <2> QED BY <2>2, <2>8, <2>9, <2>10, <2>11
<1>2. Nat \subseteq T
  <2> HIDE DEF T
  <2> QED BY <1>1, Complete
<1>3. Same(span)
  BY <1>0, <1>2
<1> QED BY <1>3 DEF Gu, Gt

(* What is derived nests: no token of it is less deep than what precedes it. *)
Deep(tokens, d) == d \in [0 .. Len(tokens) -> Nat] /\ Nests(tokens, d) /\ d[Len(tokens)] = 0
Levelled(d, i, j) == i < j /\ d[j - 1] = d[i - 1] /\ \A k \in i - 1 .. j - 1 : d[k] >= d[i - 1]

(* Every derivation of a text whose exceptions are known closes the          *)
(* parentheses it opens, and no others.                                      *)
LEMMA Level ==
  ASSUME NEW S, NEW tokens \in Seq(S), NEW d, Deep(tokens, d),
         Exceptions(tokens) \subseteq KnownExceptions,
         NEW span \in Spans(tokens), Grammar(tokens)[span] # {}
  PROVE  Levelled(d, span.from, span.to)
<1>n. PICK n \in Nat : n = Len(tokens)
  BY LenNat
<1> n \in Nat
  BY <1>n
<1>d. /\ d \in [0 .. n -> Nat]
      /\ \A k \in 1 .. n : d[k] = d[k - 1] + Nesting(tokens[k])
  BY <1>n DEF Deep, Nests
<1> DEFINE G == Grammar(tokens)
           Good(x) == G[x] # {} => Levelled(d, x.from, x.to)
           T == {m \in Nat : \A x \in Spans(tokens) : SpanSize(x) = m => Good(x)}
<1> HIDE DEF G
<1>0. ASSUME NEW x \in Spans(tokens) PROVE SpanSize(x) \in Nat
  <2>1. x.from \in 1 .. n + 1 /\ x.to \in 1 .. n + 1 /\ Height(x.level) \in Nat
    BY <1>n DEF Spans, Height
  <2>2. Breadth(x.from, x.to) \in Nat
    BY <2>1 DEF Breadth
  <2> QED BY <2>1, <2>2 DEF SpanSize
<1>1. ASSUME NEW m \in Nat, \A l \in Nat : l < m => l \in T PROVE m \in T
  <2> SUFFICES ASSUME NEW x \in Spans(tokens), SpanSize(x) = m, G[x] # {} PROVE Levelled(d, x.from, x.to)
    OBVIOUS
  <2>1. \A y \in Spans(tokens) : SpanSize(y) < SpanSize(x) => Good(y)
    BY <1>0, <1>1
  <2> DEFINE i == x.from
             j == x.to
  <2>2. /\ i \in 1 .. n + 1 /\ j \in 1 .. n + 1 /\ x.level \in {"or", "and", "with", "primary"}
        /\ x = Span(x.level, i, j)
    BY <1>n DEF Spans, Span
  <2>3. SpanSize(x) = 4 * Breadth(i, j) + Height(x.level)
    BY DEF SpanSize
  <2> SUFFICES Levelled(d, i, j)
    OBVIOUS
  <2> HIDE DEF i, j
  <2>4. ASSUME NEW level \in {"or", "and", "with", "primary"}, NEW k \in 1 .. n + 1, NEW l \in 1 .. n + 1,
               \/ k = i /\ l = j /\ Height(level) < Height(x.level)
               \/ i <= k /\ l <= j /\ k < l /\ l - k < j - i,
               G[Span(level, k, l)] # {}
        PROVE  Levelled(d, k, l)
    <3>1. /\ Span(level, k, l) \in Spans(tokens) /\ Span(level, k, l).from = k
          /\ Span(level, k, l).to = l /\ Span(level, k, l).level = level
      <4>1. /\ k \in 1 .. Len(tokens) + 1 /\ l \in 1 .. Len(tokens) + 1
            /\ level \in {"or", "and", "with", "primary"}
        BY <1>n
      <4> QED BY ONLY <4>1, SpanMade
    <3>2. SpanSize(Span(level, k, l)) = 4 * Breadth(k, l) + Height(level)
      BY <3>1 DEF SpanSize
    <3>3. Height(level) \in 0 .. 3 /\ Height(x.level) \in 0 .. 3
      BY DEF Height
    <3>4. 4 * Breadth(k, l) + Height(level) < 4 * Breadth(i, j) + Height(x.level)
      BY <2>2, <2>4, <3>3, Smaller
    <3>5. Good(Span(level, k, l))
      BY <2>1, <2>3, <3>1, <3>2, <3>4
    <3> QED BY <2>4, <3>1, <3>5
  <2>6. /\ G[Span("primary", i, j)] = OfPrimary(tokens, G, i, j)
        /\ G[Span("with", i, j)] = OfWith(tokens, G, i, j)
        /\ G[Span("and", i, j)] = OfAnd(tokens, G, i, j)
        /\ G[Span("or", i, j)] = OfOr(tokens, G, i, j)
    BY <1>n, <2>2, Derives DEF G
  <2>7. \A k \in 0 .. n : d[k] \in Nat
    BY <1>d
  <2>j. ASSUME NEW k \in i .. j, Levelled(d, i, k), Levelled(d, k + 1, j), Nesting(tokens[k]) = 0
        PROVE  Levelled(d, i, j)
    <3>1. i < k /\ k + 1 < j /\ k \in 1 .. n
      BY <2>2, <2>j DEF Levelled
    <3>2. d[k] = d[k - 1] /\ d[k - 1] = d[i - 1] /\ d[j - 1] = d[(k + 1) - 1] /\ (k + 1) - 1 = k
      BY <1>d, <2>7, <2>j, <3>1 DEF Levelled
    <3>3. ASSUME NEW l \in i - 1 .. j - 1 PROVE d[l] >= d[i - 1]
      <4>1. CASE l <= k - 1
        BY <2>j, <3>1, <4>1 DEF Levelled
      <4>2. CASE l >= k
        <5>1. l \in (k + 1) - 1 .. j - 1
          BY <3>1, <4>2
        <5> QED BY <2>j, <3>2, <5>1 DEF Levelled
      <4> QED BY <2>2, <3>1, <4>1, <4>2
    <3> QED BY <2>2, <3>1, <3>2, <3>3 DEF Levelled
  <2>8. CASE x.level = "primary"
    <3>1. OfPrimary(tokens, G, i, j) # {}
      BY <2>2, <2>6, <2>8
    <3>2. CASE j = i + 1 /\ tokens[i] \notin Operators \cup Parentheses
      <4>1. i \in 1 .. n /\ j - 1 = i
        BY <2>2, <3>2
      <4>2. Nesting(tokens[i]) = 0
        BY <3>2 DEF Nesting, Parentheses
      <4>3. d[i] = d[i - 1]
        BY <1>d, <2>7, <4>1, <4>2
      <4>4. i < j /\ \A k \in i - 1 .. j - 1 : k = i - 1 \/ k = i
        BY <3>2, <4>1
      <4>5. d[i] >= d[i - 1] /\ d[i - 1] >= d[i - 1]
        BY <2>7, <4>1, <4>3
      <4> QED BY <4>1, <4>3, <4>4, <4>5 DEF Levelled
    <3>3. CASE j > i + 2 /\ tokens[i] = "(" /\ tokens[j - 1] = ")" /\ G[Span("or", i + 1, j - 1)] # {}
      <4>0. j > i + 2 /\ tokens[i] = "(" /\ tokens[j - 1] = ")"
        BY <3>3
      <4>1. /\ i \in 1 .. n /\ j - 1 \in 1 .. n /\ (j - 1) - 1 = j - 2 /\ (i + 1) - 1 = i
            /\ i + 1 \in 1 .. n + 1 /\ j - 1 \in 1 .. n + 1 /\ i <= i + 1 /\ j - 1 <= j
            /\ i + 1 < j - 1 /\ (j - 1) - (i + 1) < j - i
        BY <2>2, <4>0
      <4>2. Levelled(d, i + 1, j - 1)
        BY <2>4, <3>3, <4>1
      <4>3. d[i] = d[i - 1] + 1 /\ d[j - 1] = d[j - 2] - 1
        BY <1>d, <2>7, <4>0, <4>1 DEF Nesting
      <4>4. d[j - 2] = d[i]
        BY <4>1, <4>2 DEF Levelled
      <4>5. ASSUME NEW k \in i - 1 .. j - 1 PROVE d[k] >= d[i - 1]
        <5>1. CASE k = i - 1 \/ k = j - 1
          <6>1. d[i - 1] \in Nat /\ d[i] \in Nat /\ d[j - 1] = d[i] - 1
            BY <2>2, <2>7, <4>1, <4>3, <4>4
          <6>2. d[j - 1] = d[i - 1]
            BY <4>3, <6>1
          <6> QED BY <5>1, <6>1, <6>2
        <5>2. CASE k \in i .. j - 2
          <6>1. d[k] >= d[i]
            BY <4>1, <4>2, <5>2 DEF Levelled
          <6>2. d[k] \in Nat /\ d[i] \in Nat /\ d[i - 1] \in Nat
            BY <2>7, <4>1, <5>2
          <6> QED BY <4>3, <6>1, <6>2
        <5> QED BY <4>1, <5>1, <5>2
      <4>6. d[j - 1] = d[i - 1]
        BY <2>7, <4>1, <4>3, <4>4
      <4> QED BY <2>2, <4>1, <4>5, <4>6 DEF Levelled
    <3> QED BY <3>1, <3>2, <3>3 DEF OfPrimary
  <2>9. CASE x.level = "with"
    <3>1. OfWith(tokens, G, i, j) # {}
      BY <2>2, <2>6, <2>9
    <3>2. CASE G[Span("primary", i, j)] # {}
      BY <2>2, <2>4, <2>9, <3>2 DEF Height
    <3>3. CASE j > i + 2 /\ tokens[j - 2] = "WITH" /\ G[Span("primary", i, j - 2)] # {}
      <4>0. j > i + 2 /\ tokens[j - 2] = "WITH"
        BY <3>3
      <4>1. /\ j - 2 \in 1 .. n /\ j - 1 \in 2 .. n /\ (j - 2) - 1 = j - 3 /\ (j - 1) - 1 = j - 2
            /\ j - 2 \in 1 .. n + 1 /\ i <= i /\ j - 2 <= j /\ i < j - 2 /\ (j - 2) - i < j - i
        BY <2>2, <4>0
      <4>2. Levelled(d, i, j - 2)
        BY <2>2, <2>4, <3>3, <4>1
      <4>3. tokens[j - 1] \in Exceptions(tokens)
        BY <1>n, <4>0, <4>1 DEF Exceptions
      <4>4. Nesting(tokens[j - 2]) = 0 /\ Nesting(tokens[j - 1]) = 0
        BY <4>0, <4>3, NoWordNamed DEF Nesting, Parentheses
      <4>5. d[j - 2] = d[j - 3] /\ d[j - 1] = d[j - 2]
        <5>1. d[j - 2] = d[(j - 2) - 1] + 0 /\ d[j - 1] = d[(j - 1) - 1] + 0
          <6>1. j - 2 \in 1 .. n /\ j - 1 \in 1 .. n
            BY <4>1
          <6>2. \A k \in 1 .. n : d[k] = d[k - 1] + Nesting(tokens[k])
            BY <1>d
          <6> QED BY ONLY <4>4, <6>1, <6>2
        <5>2. j - 3 \in 0 .. n /\ j - 2 \in 0 .. n
          BY <2>2, <4>1
        <5> QED BY <2>7, <4>1, <5>1, <5>2
      <4>6. d[j - 3] = d[i - 1]
        BY <4>1, <4>2 DEF Levelled
      <4>8. i - 1 \in 0 .. n /\ i - 1 <= j - 3 /\ i \in Nat /\ j \in Nat
        BY <2>2, <4>1
      <4>7. ASSUME NEW k \in i - 1 .. j - 1 PROVE d[k] >= d[i - 1]
        <5>1. CASE k = j - 2 \/ k = j - 1
          BY <2>7, <4>5, <4>6, <4>8, <5>1
        <5>2. CASE k \in i - 1 .. j - 3
          BY <4>1, <4>2, <5>2 DEF Levelled
        <5> QED BY <4>8, <5>1, <5>2
      <4> QED BY <2>2, <4>1, <4>5, <4>6, <4>7 DEF Levelled
    <3> QED BY <3>1, <3>2, <3>3 DEF OfWith
  <2>10. CASE x.level = "and"
    <3>1. OfAnd(tokens, G, i, j) # {}
      BY <2>2, <2>6, <2>10
    <3>2. CASE G[Span("with", i, j)] # {}
      BY <2>2, <2>4, <2>10, <3>2 DEF Height
    <3>3. ASSUME NEW k \in Places(tokens, "AND", i, j), G[Span("and", i, k)] # {},
                 G[Span("with", k + 1, j)] # {}
          PROVE  Levelled(d, i, j)
      <4>0. tokens[k] = "AND"
        BY DEF Places
      <4>1. k \in i + 1 .. j - 2
        BY DEF Places
      <4>2. /\ k \in 1 .. n + 1 /\ k + 1 \in 1 .. n + 1 /\ k \in i .. j
            /\ i < k /\ k <= j /\ k - i < j - i /\ i <= k + 1 /\ k + 1 < j /\ j - (k + 1) < j - i
            /\ i <= i /\ j <= j
        BY <2>2, <4>1
      <4>3. Levelled(d, i, k) /\ Levelled(d, k + 1, j)
        BY <2>2, <2>4, <3>3, <4>2
      <4> QED BY <2>j, <4>0, <4>2, <4>3 DEF Nesting
    <3>4. CASE G[Span("with", i, j)] = {}
      <4>1. \E k \in Places(tokens, "AND", i, j) : G[Span("and", i, k)] # {} /\ G[Span("with", k + 1, j)] # {}
        BY <3>1, <3>4 DEF OfAnd
      <4> QED BY <3>3, <4>1
    <3> QED BY <3>2, <3>4
  <2>11. CASE x.level = "or"
    <3>1. OfOr(tokens, G, i, j) # {}
      BY <2>2, <2>6, <2>11
    <3>2. CASE G[Span("and", i, j)] # {}
      BY <2>2, <2>4, <2>11, <3>2 DEF Height
    <3>3. ASSUME NEW k \in Places(tokens, "OR", i, j), G[Span("or", i, k)] # {},
                 G[Span("and", k + 1, j)] # {}
          PROVE  Levelled(d, i, j)
      <4>0. tokens[k] = "OR"
        BY DEF Places
      <4>1. k \in i + 1 .. j - 2
        BY DEF Places
      <4>2. /\ k \in 1 .. n + 1 /\ k + 1 \in 1 .. n + 1 /\ k \in i .. j
            /\ i < k /\ k <= j /\ k - i < j - i /\ i <= k + 1 /\ k + 1 < j /\ j - (k + 1) < j - i
            /\ i <= i /\ j <= j
        BY <2>2, <4>1
      <4>3. Levelled(d, i, k) /\ Levelled(d, k + 1, j)
        BY <2>2, <2>4, <3>3, <4>2
      <4> QED BY <2>j, <4>0, <4>2, <4>3 DEF Nesting
    <3>4. CASE G[Span("and", i, j)] = {}
      <4>1. \E k \in Places(tokens, "OR", i, j) : G[Span("or", i, k)] # {} /\ G[Span("and", k + 1, j)] # {}
        BY <3>1, <3>4 DEF OfOr
      <4> QED BY <3>3, <4>1
    <3> QED BY <3>2, <3>4
  <2> QED BY <2>2, <2>8, <2>9, <2>10, <2>11
<1>2. Nat \subseteq T
  <2> HIDE DEF T
  <2> QED BY <1>1, Complete
<1>3. Good(span)
  BY <1>0, <1>2
<1> QED BY <1>3 DEF G

(* A text joined from an earlier one and an entry in parentheses, or just    *)
(* the entry in parentheses when there is no earlier one.                    *)
AndReadings(tokens) == Grammar(tokens)[Span("and", 1, Len(tokens) + 1)]

Enclosed(Y, T) ==
  /\ Len(T) = Len(Y) + 2 /\ T[1] = "(" /\ T[Len(T)] = ")"
  /\ \A k \in 1 .. Len(Y) : T[1 + k] = Y[k]
Joint(X, Y, T) ==
  /\ Len(T) = Len(X) + Len(Y) + 3 /\ \A k \in 1 .. Len(X) : T[k] = X[k]
  /\ T[Len(X) + 1] = "AND" /\ T[Len(X) + 2] = "(" /\ T[Len(T)] = ")"
  /\ \A k \in 1 .. Len(Y) : T[Len(X) + 2 + k] = Y[k]

(* At depth 0 there is nothing but parentheses and AND.                      *)
Flat(tokens) ==
  /\ Len(tokens) # 0
  /\ \E d : /\ Deep(tokens, d)
            /\ \A k \in 1 .. Len(tokens) : d[k - 1] = 0 /\ d[k] = 0 => tokens[k] = "AND"

(* The depths of a text that ends with an entry in parentheses: from there   *)
(* on everything is inside them.                                             *)
EndsWith(T, d, x) ==
  /\ Deep(T, d) /\ d[x] = 0 /\ x + 1 < Len(T) /\ T[x + 1] = "(" /\ T[Len(T)] = ")"
  /\ \A k \in x + 1 .. Len(T) - 1 : d[k] >= 1
  /\ d[Len(T) - 1] = 1
  /\ \A k \in 1 .. x : d[k - 1] = 0 /\ d[k] = 0 => T[k] = "AND"

LEMMA DepthIsPlain ==
  ASSUME NEW S, NEW tokens \in Seq(S), Matched(tokens)
  PROVE  \E d : Deep(tokens, d)
<1>n. PICK n \in Nat : n = Len(tokens)
  BY LenNat
<1> n \in Nat
  BY <1>n
<1>1. PICK d \in [0 .. n -> 0 .. n] : Nests(tokens, d) /\ d[n] = 0
  BY <1>n DEF Matched
<1>2. d \in [0 .. n -> Nat]
  OBVIOUS
<1>3. Deep(tokens, d)
  BY <1>n, <1>1, <1>2 DEF Deep
<1> QED BY <1>3

LEMMA DepthEnclosed ==
  ASSUME NEW S, NEW Y \in Seq(S), NEW T \in Seq(S), Enclosed(Y, T), Matched(Y)
  PROVE  \E d : EndsWith(T, d, 0)
<1>y. PICK y \in Nat : y = Len(Y)
  BY LenNat
<1> y \in Nat
  BY <1>y
<1>1. PICK c : Deep(Y, c)
  BY DepthIsPlain
<1>2. /\ c \in [0 .. y -> Nat] /\ c[0] = 0 /\ c[y] = 0
      /\ \A k \in 1 .. y : c[k] = c[k - 1] + Nesting(Y[k])
  BY <1>1, <1>y DEF Deep, Nests
<1>3. /\ Len(T) = y + 2 /\ T[1] = "(" /\ T[y + 2] = ")" /\ \A k \in 1 .. y : T[1 + k] = Y[k]
  BY <1>y DEF Enclosed
<1> DEFINE d == [k \in 0 .. y + 2 |-> IF k = 0 \/ k = y + 2 THEN 0 ELSE 1 + c[k - 1]]
<1>4. d[0] = 0 /\ d[y + 2] = 0 /\ \A k \in 1 .. y + 1 : d[k] = 1 + c[k - 1]
  OBVIOUS
<1>5. d \in [0 .. y + 2 -> Nat]
  <2>1. \A k \in 1 .. y + 1 : 1 + c[k - 1] \in Nat
    BY <1>2
  <2> QED BY <2>1
<1> HIDE DEF d
<1>6. ASSUME NEW k \in 1 .. y + 2 PROVE d[k] = d[k - 1] + Nesting(T[k])
  <2>1. CASE k = 1
    BY <1>2, <1>3, <1>4, <2>1 DEF Nesting
  <2>2. CASE k = y + 2
    <3>1. k - 1 = y + 1 /\ d[y + 1] = 1 + c[(y + 1) - 1] /\ (y + 1) - 1 = y
      BY <1>4, <2>2
    <3> QED BY <1>2, <1>3, <1>4, <2>2, <3>1 DEF Nesting
  <2>3. CASE k \in 2 .. y + 1
    <3>1. k - 1 \in 1 .. y /\ k - 1 \in 1 .. y + 1 /\ 1 + (k - 1) = k /\ (k - 1) - 1 = k - 2
          /\ k \in 1 .. y + 1 /\ k - 2 \in 0 .. y
      BY <2>3
    <3>2. T[k] = Y[k - 1]
      BY <1>3, <3>1
    <3>3. d[k] = 1 + c[k - 1] /\ d[k - 1] = 1 + c[k - 2] /\ c[k - 1] = c[k - 2] + Nesting(Y[k - 1])
      BY <1>2, <1>4, <3>1
    <3>4. Nesting(Y[k - 1]) \in Int /\ c[k - 2] \in Nat
      BY <1>2, <3>1 DEF Nesting
    <3> QED BY <3>2, <3>3, <3>4
  <2> QED BY <2>1, <2>2, <2>3
<1>7. Deep(T, d)
  BY <1>3, <1>4, <1>5, <1>6 DEF Deep, Nests
<1>8. \A k \in 1 .. y + 1 : d[k] >= 1
  BY <1>2, <1>4
<1>9. d[y + 1] = 1
  BY <1>2, <1>4
<1>10. /\ 0 + 1 = 1 /\ (y + 2) - 1 = y + 1 /\ 1 < y + 2 /\ ~ \E k \in 1 .. 0 : TRUE
  OBVIOUS
<1>11. EndsWith(T, d, 0)
  BY <1>3, <1>4, <1>7, <1>8, <1>9, <1>10 DEF EndsWith
<1> QED BY <1>11

LEMMA DepthJoint ==
  ASSUME NEW S, NEW X \in Seq(S), NEW Y \in Seq(S), NEW T \in Seq(S),
         Joint(X, Y, T), Flat(X), Matched(Y)
  PROVE  \E d : EndsWith(T, d, Len(X) + 1) /\ d[Len(X)] = 0
<1>x. PICK x \in Nat : x = Len(X)
  BY LenNat
<1>y. PICK y \in Nat : y = Len(Y)
  BY LenNat
<1> x \in Nat /\ y \in Nat
  BY <1>x, <1>y
<1>1. PICK c : Deep(Y, c)
  BY DepthIsPlain
<1>2. /\ c \in [0 .. y -> Nat] /\ c[0] = 0 /\ c[y] = 0
      /\ \A k \in 1 .. y : c[k] = c[k - 1] + Nesting(Y[k])
  BY <1>1, <1>y DEF Deep, Nests
<1>3. PICK b : Deep(X, b) /\ \A k \in 1 .. x : b[k - 1] = 0 /\ b[k] = 0 => X[k] = "AND"
  BY <1>x DEF Flat
<1>4. /\ b \in [0 .. x -> Nat] /\ b[0] = 0 /\ b[x] = 0
      /\ \A k \in 1 .. x : b[k] = b[k - 1] + Nesting(X[k])
  BY <1>3, <1>x DEF Deep, Nests
<1> DEFINE n == x + y + 3
           o == x + 2
           d == [k \in 0 .. n |-> IF k <= x THEN b[k] ELSE IF k = x + 1 \/ k = n THEN 0 ELSE 1 + c[k - o]]
<1>5. /\ Len(T) = n /\ T[x + 1] = "AND" /\ T[x + 2] = "(" /\ T[n] = ")"
      /\ \A k \in 1 .. x : T[k] = X[k]
      /\ \A k \in 1 .. y : T[o + k] = Y[k]
  BY <1>x, <1>y DEF Joint
<1>6. /\ \A k \in 0 .. x : d[k] = b[k]
      /\ d[x + 1] = 0 /\ d[n] = 0 /\ \A k \in o .. n - 1 : d[k] = 1 + c[k - o]
  OBVIOUS
<1>7. d \in [0 .. n -> Nat]
  <2>1. \A k \in 0 .. x : b[k] \in Nat
    BY <1>4
  <2>2. ASSUME NEW k \in o .. n - 1 PROVE 1 + c[k - o] \in Nat
    <3>1. k - o \in 0 .. y
      OBVIOUS
    <3>2. c[k - o] \in Nat
      BY <1>2, <3>1
    <3> QED BY <3>2
  <2>3. ASSUME NEW k \in 0 .. n PROVE d[k] \in Nat
    <3>1. CASE k \in 0 .. x
      BY <1>6, <2>1, <3>1
    <3>2. CASE k \in o .. n - 1
      BY <1>6, <2>2, <3>2
    <3>3. CASE k = x + 1 \/ k = n
      BY <1>6, <3>3
    <3> QED BY <3>1, <3>2, <3>3
  <2>4. d = [k \in 0 .. n |-> d[k]]
    OBVIOUS
  <2> HIDE DEF d
  <2> QED BY <2>3, <2>4
<1> HIDE DEF d
<1>8. ASSUME NEW k \in 1 .. n PROVE d[k] = d[k - 1] + Nesting(T[k])
  <2>1. CASE k \in 1 .. x
    <3>1. k \in 0 .. x /\ k - 1 \in 0 .. x
      BY <2>1
    <3> QED BY <1>4, <1>5, <1>6, <2>1, <3>1
  <2>2. CASE k = x + 1
    <3>1. d[x] = 0 /\ k - 1 = x
      BY <1>4, <1>6, <2>2
    <3> QED BY <1>5, <1>6, <2>2, <3>1 DEF Nesting
  <2>3. CASE k = o
    <3>1. k - 1 = x + 1 /\ k \in o .. n - 1 /\ k - o = 0
      BY <2>3
    <3> QED BY <1>2, <1>5, <1>6, <2>3, <3>1 DEF Nesting
  <2>4. CASE k = n
    <3>1. k - 1 \in o .. n - 1 /\ (k - 1) - o = y
      BY <2>4
    <3> QED BY <1>2, <1>5, <1>6, <2>4, <3>1 DEF Nesting
  <2>5. CASE k \in o + 1 .. n - 1
    <3>1. /\ k - o \in 1 .. y /\ o + (k - o) = k /\ k \in o .. n - 1 /\ k - 1 \in o .. n - 1
          /\ (k - 1) - o = (k - o) - 1 /\ (k - o) - 1 \in 0 .. y
      BY <2>5
    <3>2. T[k] = Y[k - o]
      BY <1>5, <3>1
    <3>3. d[k] = 1 + c[k - o] /\ d[k - 1] = 1 + c[(k - o) - 1]
          /\ c[k - o] = c[(k - o) - 1] + Nesting(Y[k - o])
      BY <1>2, <1>6, <3>1
    <3>4. Nesting(Y[k - o]) \in Int /\ c[(k - o) - 1] \in Nat
      BY <1>2, <3>1 DEF Nesting
    <3> QED BY <3>2, <3>3, <3>4
  <2> QED BY <2>1, <2>2, <2>3, <2>4, <2>5
<1>9. Deep(T, d)
  <2>1. d[0] = 0
    BY <1>4, <1>6
  <2> QED BY <1>5, <1>6, <1>7, <1>8, <2>1 DEF Deep, Nests
<1>10. \A k \in (x + 1) + 1 .. n - 1 : d[k] >= 1
  <2>1. ASSUME NEW k \in o .. n - 1 PROVE 1 + c[k - o] >= 1
    <3>1. k - o \in 0 .. y
      OBVIOUS
    <3> QED BY <1>2, <3>1
  <2> QED BY <1>6, <2>1
<1>11. d[n - 1] = 1
  <2>1. n - 1 \in o .. n - 1 /\ (n - 1) - o = y
    OBVIOUS
  <2> QED BY <1>2, <1>6, <2>1
<1>12. ASSUME NEW k \in 1 .. x + 1, d[k - 1] = 0, d[k] = 0 PROVE T[k] = "AND"
  <2>1. CASE k = x + 1
    BY <1>5, <2>1
  <2>2. CASE k \in 1 .. x
    <3>1. b[k - 1] = 0 /\ b[k] = 0
      BY <1>6, <1>12, <2>2
    <3> QED BY <1>3, <1>5, <2>2, <3>1
  <2> QED BY <2>1, <2>2
<1>13. (x + 1) + 1 < n /\ (x + 1) + 1 = x + 2
  OBVIOUS
<1>14. EndsWith(T, d, x + 1)
  BY <1>5, <1>6, <1>9, <1>10, <1>11, <1>12, <1>13 DEF EndsWith
<1>15. d[x] = 0
  BY <1>4, <1>6
<1> QED BY <1>14, <1>15, <1>x

LEMMA EndsFlat ==
  ASSUME NEW S, NEW T \in Seq(S), NEW d, NEW x \in Nat, EndsWith(T, d, x)
  PROVE  Flat(T)
<1>n. PICK n \in Nat : n = Len(T)
  BY LenNat
<1> n \in Nat
  BY <1>n
<1>1. /\ Deep(T, d) /\ x + 1 < n /\ \A k \in x + 1 .. n - 1 : d[k] >= 1
      /\ \A k \in 1 .. x : d[k - 1] = 0 /\ d[k] = 0 => T[k] = "AND"
  BY <1>n DEF EndsWith
<1>2. ASSUME NEW k \in 1 .. n, d[k - 1] = 0, d[k] = 0 PROVE k \in 1 .. x
  <2>1. CASE k \in x + 1 .. n - 1
    BY <1>1, <1>2, <2>1
  <2>2. CASE k = n
    <3>1. n - 1 \in x + 1 .. n - 1
      BY <1>1
    <3> QED BY <1>1, <1>2, <2>2, <3>1
  <2> QED BY <2>1, <2>2
<1>3. \A k \in 1 .. n : d[k - 1] = 0 /\ d[k] = 0 => T[k] = "AND"
  BY <1>1, <1>2
<1> QED BY <1>n, <1>1, <1>3 DEF Flat

(* Such a text is derived from its last entry, alone or after an AND.        *)
LEMMA EndsDerived ==
  ASSUME NEW S, NEW T \in Seq(S), NEW d, NEW x \in Nat, EndsWith(T, d, x),
         Exceptions(T) \subseteq KnownExceptions
  PROVE  LET n == Len(T)
             G == Grammar(T)
             last == IF n > x + 2 THEN G[Span("or", x + 2, n)] ELSE {}
         IN /\ Readings(T) = AndReadings(T)
            /\ AndReadings(T) =
                 IF x = 0 THEN last
                 ELSE IF x \in Places(T, "AND", 1, n + 1)
                 THEN {Both(a, b) : a \in G[Span("and", 1, x)], b \in last} ELSE {}
<1>n. PICK n \in Nat : n = Len(T)
  BY LenNat
<1> n \in Nat
  BY <1>n
<1> DEFINE G == Grammar(T)
           last == IF n > x + 2 THEN G[Span("or", x + 2, n)] ELSE {}
<1>d. /\ d \in [0 .. n -> Nat] /\ d[0] = 0 /\ d[n] = 0
      /\ \A k \in 1 .. n : d[k] = d[k - 1] + Nesting(T[k])
  BY <1>n DEF EndsWith, Deep, Nests
<1>e. /\ d[x] = 0 /\ x + 1 < n /\ T[x + 1] = "(" /\ T[n] = ")" /\ d[n - 1] = 1
      /\ \A k \in x + 1 .. n - 1 : d[k] >= 1
      /\ \A k \in 1 .. x : d[k - 1] = 0 /\ d[k] = 0 => T[k] = "AND"
  BY <1>n DEF EndsWith
<1>0. \A k \in 0 .. n : d[k] \in Nat
  BY <1>d
<1> HIDE DEF G, last
<1>g. ASSUME NEW i \in 1 .. n + 1, NEW j \in 1 .. n + 1
      PROVE  /\ G[Span("primary", i, j)] = OfPrimary(T, G, i, j)
             /\ G[Span("with", i, j)] = OfWith(T, G, i, j)
             /\ G[Span("and", i, j)] = OfAnd(T, G, i, j)
             /\ G[Span("or", i, j)] = OfOr(T, G, i, j)
  BY <1>n, Derives DEF G
<1>v. ASSUME NEW level \in {"or", "and", "with", "primary"}, NEW i \in 1 .. n + 1, NEW j \in 1 .. n + 1,
             G[Span(level, i, j)] # {}
      PROVE  Levelled(d, i, j)
  <2>1. /\ i \in 1 .. Len(T) + 1 /\ j \in 1 .. Len(T) + 1
        /\ level \in {"or", "and", "with", "primary"}
    BY <1>n
  <2>2. /\ Span(level, i, j) \in Spans(T) /\ Span(level, i, j).from = i /\ Span(level, i, j).to = j
    BY ONLY <2>1, SpanMade
  <2>3. Deep(T, d)
    BY DEF EndsWith
  <2> QED BY <1>v, <2>2, <2>3, Level DEF G
<1>1. ASSUME NEW i \in 1 .. n + 1
      PROVE  G[Span("with", i, n + 1)] = G[Span("primary", i, n + 1)]
  <2>1. G[Span("with", i, n + 1)] = OfWith(T, G, i, n + 1)
    BY <1>g
  <2>2. (n + 1) - 2 = n - 1
    OBVIOUS
  <2>3. T[n - 1] # "WITH"
    <3>1. ASSUME T[n - 1] = "WITH" PROVE FALSE
      <4>1. n \in 2 .. n
        BY <1>e
      <4>2. T[n] \in Exceptions(T)
        BY <1>n, <3>1, <4>1 DEF Exceptions
      <4>3. ")" \in KnownExceptions
        BY <1>e, <4>2
      <4> QED BY <4>3, NoWordNamed DEF Parentheses
    <3> QED BY <3>1
  <2> QED BY <2>1, <2>2, <2>3 DEF OfWith
<1>2. ASSUME NEW i \in 1 .. n + 1, G[Span("primary", i, n + 1)] # {}
      PROVE  i = x + 1
  <2>1. OfPrimary(T, G, i, n + 1) # {}
    BY <1>g, <1>2
  <2>2. ~ (n + 1 = i + 1 /\ T[i] \notin Operators \cup Parentheses)
    <3>1. n + 1 = i + 1 => i = n
      OBVIOUS
    <3> QED BY <1>e, <3>1 DEF Parentheses
  <2>3. n + 1 > i + 2 /\ T[i] = "(" /\ G[Span("or", i + 1, (n + 1) - 1)] # {}
    BY <2>1, <2>2 DEF OfPrimary
  <2>4. i + 1 < n /\ (n + 1) - 1 = n /\ i \in 1 .. n /\ i + 1 \in 1 .. n + 1 /\ n \in 1 .. n + 1
    <3>1. n + 1 > i + 2
      BY <2>3
    <3> QED BY <3>1
  <2>5. Levelled(d, i + 1, n)
    BY <1>v, <2>3, <2>4
  <2>6. (i + 1) - 1 = i
    OBVIOUS
  <2>7. d[i] = 1 /\ \A k \in i .. n - 1 : d[k] >= 1
    BY <1>e, <2>5, <2>6 DEF Levelled
  <2>8. d[i - 1] = 0
    <3>1. d[i] = d[i - 1] + 1
      BY <1>d, <2>3, <2>4 DEF Nesting
    <3>2. i - 1 \in 0 .. n
      BY <2>4
    <3> QED BY <1>0, <2>7, <3>1, <3>2
  <2>9. ~ (i <= x)
    <3>1. i <= x => x \in i .. n - 1
      BY <1>e, <2>4
    <3> QED BY <1>e, <2>7, <3>1
  <2>10. ~ (i > x + 1)
    <3>1. i > x + 1 => i - 1 \in x + 1 .. n - 1
      BY <1>e, <2>4
    <3> QED BY <1>e, <2>8, <3>1
  <2> QED BY <2>4, <2>9, <2>10
<1>3. G[Span("primary", x + 1, n + 1)] = last
  <2>1. x + 1 \in 1 .. n + 1 /\ n + 1 \in 1 .. n + 1 /\ n + 1 # (x + 1) + 1
        /\ (n + 1 > (x + 1) + 2 <=> n > x + 2) /\ (x + 1) + 1 = x + 2 /\ (n + 1) - 1 = n
    BY <1>e
  <2>2. G[Span("primary", x + 1, n + 1)] = OfPrimary(T, G, x + 1, n + 1)
    BY <1>g, <2>1
  <2> QED BY <1>e, <2>1, <2>2 DEF OfPrimary, last
<1>4. G[Span("and", 1, n + 1)] = G[Span("with", 1, n + 1)] \cup
        UNION {{Both(a, b) : a \in G[Span("and", 1, k)], b \in G[Span("with", k + 1, n + 1)]} :
                 k \in Places(T, "AND", 1, n + 1)}
  <2>1. 1 \in 1 .. n + 1 /\ n + 1 \in 1 .. n + 1
    OBVIOUS
  <2> QED BY <1>g, <2>1 DEF OfAnd
<1>5. ASSUME NEW k \in Places(T, "AND", 1, n + 1), k # x
      PROVE  G[Span("with", k + 1, n + 1)] = {}
  <2>1. k \in 2 .. n - 1
    BY DEF Places
  <2>2. k + 1 \in 1 .. n + 1 /\ k + 1 # x + 1
    BY <1>5, <2>1
  <2> QED BY <1>1, <1>2, <2>2
<1>6. G[Span("and", 1, n + 1)] =
        IF x = 0 THEN last
        ELSE IF x \in Places(T, "AND", 1, n + 1)
        THEN {Both(a, b) : a \in G[Span("and", 1, x)], b \in last} ELSE {}
  <2> DEFINE P(k) == {Both(a, b) : a \in G[Span("and", 1, k)], b \in G[Span("with", k + 1, n + 1)]}
  <2>1. \A k \in Places(T, "AND", 1, n + 1) : k # x => P(k) = {}
    BY <1>5
  <2>2. x + 1 \in 1 .. n + 1 /\ 1 \in 1 .. n + 1
    BY <1>e
  <2>3. P(x) = {Both(a, b) : a \in G[Span("and", 1, x)], b \in last}
    BY <1>1, <1>3, <2>2
  <2>4. x = 0 => G[Span("with", 1, n + 1)] = last
    BY <1>1, <1>3, <2>2
  <2>5. x # 0 => G[Span("with", 1, n + 1)] = {}
    <3>1. x # 0 => 1 # x + 1
      OBVIOUS
    <3> QED BY <1>1, <1>2, <2>2, <3>1
  <2>6. x = 0 => x \notin Places(T, "AND", 1, n + 1)
    BY DEF Places
  <2>7. G[Span("and", 1, n + 1)] = G[Span("with", 1, n + 1)]
          \cup UNION {P(k) : k \in Places(T, "AND", 1, n + 1)}
    BY <1>4
  <2> HIDE DEF P
  <2>8. UNION {P(k) : k \in Places(T, "AND", 1, n + 1)} =
          IF x \in Places(T, "AND", 1, n + 1) THEN P(x) ELSE {}
    BY <2>1
  <2>9. CASE x = 0
    <3>1. UNION {P(k) : k \in Places(T, "AND", 1, n + 1)} = {}
      BY <2>6, <2>8, <2>9
    <3> QED BY <2>4, <2>7, <2>9, <3>1
  <2>10. CASE x # 0
    BY <2>3, <2>5, <2>7, <2>8, <2>10
  <2> QED BY <2>9, <2>10
<1>7. ASSUME NEW k \in Places(T, "OR", 1, n + 1)
      PROVE  G[Span("or", 1, k)] = {}
  <2> SUFFICES ASSUME G[Span("or", 1, k)] # {} PROVE FALSE
    OBVIOUS
  <2>0. T[k] = "OR"
    BY DEF Places
  <2>1. k \in 2 .. n - 1
    BY DEF Places
  <2>2. 1 \in 1 .. n + 1 /\ k \in 1 .. n + 1 /\ k \in 1 .. n /\ k - 1 \in 0 .. n /\ 1 - 1 = 0
    BY <2>1
  <2>3. d[k - 1] = 0
    <3>1. Levelled(d, 1, k)
      BY <1>v, <2>2
    <3>2. d[k - 1] = d[1 - 1]
      BY <3>1 DEF Levelled
    <3> QED BY <1>d, <2>2, <3>2
  <2>4. d[k] = 0
    <3>1. d[k] = d[k - 1] + Nesting(T[k]) /\ Nesting(T[k]) = 0
      BY <1>d, <2>0, <2>2 DEF Nesting
    <3> QED BY <2>3, <3>1
  <2>5. ~ (k <= x)
    <3>1. k <= x => T[k] = "AND"
      BY <1>e, <2>1, <2>3, <2>4
    <3> QED BY <2>0, <3>1
  <2>6. ~ (k >= x + 1)
    <3>1. k >= x + 1 => k \in x + 1 .. n - 1
      BY <2>1
    <3> QED BY <1>e, <2>4, <3>1
  <2> QED BY <2>1, <2>5, <2>6
<1>8. G[Span("or", 1, n + 1)] = G[Span("and", 1, n + 1)]
  <2>1. 1 \in 1 .. n + 1 /\ n + 1 \in 1 .. n + 1
    OBVIOUS
  <2>2. G[Span("or", 1, n + 1)] = G[Span("and", 1, n + 1)] \cup
        UNION {{Either(a, b) : a \in G[Span("or", 1, k)], b \in G[Span("and", k + 1, n + 1)]} :
                 k \in Places(T, "OR", 1, n + 1)}
    BY <1>g, <2>1 DEF OfOr
  <2> QED BY <1>7, <2>2
<1> QED BY <1>n, <1>6, <1>8 DEF Readings, AndReadings, G, last

-----------------------------------------------------------------------------
(* What is joined is fit when each entry is                                  *)

(* The two halves of the policy: the tokens, and what a reading offers.      *)
Banned(ships) == Unknown \cup ForbiddenAnywhere \cup (IF ships THEN ForbiddenShipped ELSE {})
TokensFit(tokens, ships) ==
  /\ \A k \in 1 .. Len(tokens) : tokens[k] \notin Banned(ships)
  /\ \A k \in 2 .. Len(tokens) : tokens[k - 1] = "WITH" => tokens[k] \in KnownExceptions
Offers(readings, ships) ==
  \E r \in readings : ships => \E way \in r.ways : way \subseteq Allowed

(* A text is fit when its tokens are and one of its readings offers          *)
(* something.                                                                *)
LEMMA FitIs ==
  ASSUME NEW S, NEW tokens \in Seq(S), NEW ships \in BOOLEAN
  PROVE  FitFor(tokens, ships) <=> TokensFit(tokens, ships) /\ Offers(Readings(tokens), ships)
<1>1. ToSet(tokens) \cap (Unknown \cup ForbiddenAnywhere) = {}
        <=> \A k \in 1 .. Len(tokens) : tokens[k] \notin Unknown \cup ForbiddenAnywhere
  BY DEF ToSet
<1>2. ToSet(tokens) \cap ForbiddenShipped = {}
        <=> \A k \in 1 .. Len(tokens) : tokens[k] \notin ForbiddenShipped
  BY DEF ToSet
<1>3. Exceptions(tokens) \subseteq KnownExceptions
        <=> \A k \in 2 .. Len(tokens) : tokens[k - 1] = "WITH" => tokens[k] \in KnownExceptions
  BY DEF Exceptions
<1>4. CASE ships
  BY <1>1, <1>2, <1>3, <1>4 DEF FitFor, TokensFit, Offers, Banned
<1>5. CASE ~ ships
  BY <1>1, <1>2, <1>3, <1>5 DEF FitFor, TokensFit, Offers, Banned
<1> QED BY <1>4, <1>5

EachBoth(A, B) == {Both(a, b) : a \in A, b \in B}

(* Both of two are offered when each is.                                     *)
LEMMA BothOffer ==
  ASSUME NEW A, NEW B, NEW ships \in BOOLEAN
  PROVE  Offers(EachBoth(A, B), ships) <=> Offers(A, ships) /\ Offers(B, ships)
<1>1. ASSUME NEW a, NEW b
      PROVE  (\E way \in Both(a, b).ways : way \subseteq Allowed)
               <=> (\E v \in a.ways : v \subseteq Allowed) /\ (\E w \in b.ways : w \subseteq Allowed)
  <2>1. Both(a, b).ways = {v \cup w : v \in a.ways, w \in b.ways}
    BY DEF Both
  <2>2. ASSUME NEW way \in Both(a, b).ways, way \subseteq Allowed
        PROVE  (\E v \in a.ways : v \subseteq Allowed) /\ (\E w \in b.ways : w \subseteq Allowed)
    <3>1. PICK v \in a.ways, w \in b.ways : way = v \cup w
      BY <2>1
    <3>2. v \subseteq Allowed /\ w \subseteq Allowed
      BY <2>2, <3>1
    <3> QED BY <3>2
  <2>3. ASSUME NEW v \in a.ways, NEW w \in b.ways, v \subseteq Allowed, w \subseteq Allowed
        PROVE  \E way \in Both(a, b).ways : way \subseteq Allowed
    <3>1. v \cup w \in Both(a, b).ways
      BY <2>1
    <3>2. v \cup w \subseteq Allowed
      BY <2>3
    <3> QED BY <3>1, <3>2
  <2> QED BY <2>2, <2>3
<1>2. ASSUME Offers(EachBoth(A, B), ships)
      PROVE  Offers(A, ships) /\ Offers(B, ships)
  <2>1. PICK r \in EachBoth(A, B) : ships => \E way \in r.ways : way \subseteq Allowed
    BY <1>2 DEF Offers
  <2>2. PICK a \in A, b \in B : r = Both(a, b)
    BY DEF EachBoth
  <2> QED BY <1>1, <2>1, <2>2 DEF Offers
<1>3. ASSUME Offers(A, ships), Offers(B, ships)
      PROVE  Offers(EachBoth(A, B), ships)
  <2>1. PICK a \in A : ships => \E way \in a.ways : way \subseteq Allowed
    BY <1>3 DEF Offers
  <2>2. PICK b \in B : ships => \E way \in b.ways : way \subseteq Allowed
    BY <1>3 DEF Offers
  <2>3. ships => \E way \in Both(a, b).ways : way \subseteq Allowed
    BY <1>1, <2>1, <2>2
  <2> QED BY <2>3 DEF Offers, EachBoth
<1> QED BY <1>2, <1>3

(* What is closed may be joined: its AND is not taken apart by what follows. *)
Closed(tokens) ==
  /\ Flat(tokens)
  /\ Exceptions(tokens) \subseteq KnownExceptions => Readings(tokens) = AndReadings(tokens)

LEMMA CleanExceptions ==
  ASSUME NEW S, NEW tokens \in Seq(S), NEW ships, TokensFit(tokens, ships)
  PROVE  Exceptions(tokens) \subseteq KnownExceptions
BY DEF Exceptions, TokensFit

LEMMA CleanEnd ==
  ASSUME NEW S, NEW tokens \in Seq(S), NEW ships \in BOOLEAN, FitFor(tokens, ships)
  PROVE  tokens[Len(tokens)] # "WITH"
<1>1. Readings(tokens) # {}
  BY DEF FitFor
<1>2. Exceptions(tokens) \subseteq KnownExceptions
  BY FitIs, CleanExceptions
<1> QED BY <1>1, <1>2, LastIsNoWith

LEMMA WordsAllowed ==
  ASSUME NEW ships \in BOOLEAN, NEW word \in {"AND", "(", ")"}
  PROVE  word \notin Banned(ships)
<1>1. word \in Operators \/ word \in Parentheses
  BY DEF Operators, Parentheses
<1>2. Banned(ships) \subseteq ForbiddenAnywhere \cup ForbiddenShipped \cup Unknown
  BY DEF Banned
<1> QED BY <1>1, <1>2, NoWordNamed

(* An entry inside a text: at the offset s.                                  *)
Within(t, u, s) == s + Len(t) <= Len(u) /\ \A k \in 1 .. Len(t) : u[s + k] = t[k]

LEMMA CleanWithin ==
  ASSUME NEW S, NEW t \in Seq(S), NEW u \in Seq(S), NEW s \in Nat, Within(t, u, s),
         NEW ships, TokensFit(u, ships)
  PROVE  TokensFit(t, ships)
<1>n. PICK n \in Nat : n = Len(t)
  BY LenNat
<1>z. PICK z \in Nat : z = Len(u)
  BY LenNat
<1> n \in Nat /\ z \in Nat
  BY <1>n, <1>z
<1>1. s + n <= z /\ \A k \in 1 .. n : u[s + k] = t[k]
  BY <1>n, <1>z DEF Within
<1>2. /\ \A k \in 1 .. z : u[k] \notin Banned(ships)
      /\ \A k \in 2 .. z : u[k - 1] = "WITH" => u[k] \in KnownExceptions
  BY <1>z DEF TokensFit
<1>3. ASSUME NEW k \in 1 .. n PROVE t[k] \notin Banned(ships)
  <2>1. s + k \in 1 .. z
    BY <1>1
  <2> QED BY <1>1, <1>2, <2>1
<1>4. ASSUME NEW k \in 2 .. n, t[k - 1] = "WITH" PROVE t[k] \in KnownExceptions
  <2>0. s + n <= z
    BY <1>1
  <2>1. s + k \in 2 .. z /\ (s + k) - 1 = s + (k - 1) /\ k - 1 \in 1 .. n /\ k \in 1 .. n
    BY <2>0
  <2>2. u[s + (k - 1)] = "WITH" /\ u[s + k] = t[k]
    BY <1>1, <1>4, <2>1
  <2> QED BY <1>2, <2>1, <2>2
<1> QED BY <1>n, <1>3, <1>4 DEF TokensFit

LEMMA ReadWithin ==
  ASSUME NEW S, NEW t \in Seq(S), NEW u \in Seq(S), NEW s \in Nat, Within(t, u, s)
  PROVE  /\ Grammar(u)[Span("or", s + 1, s + (Len(t) + 1))] = Readings(t)
         /\ Grammar(u)[Span("and", s + 1, s + (Len(t) + 1))] = AndReadings(t)
<1>n. PICK n \in Nat : n = Len(t)
  BY LenNat
<1> n \in Nat
  BY <1>n
<1>1. s + Len(t) <= Len(u) /\ \A k \in 1 .. Len(t) : u[s + k] = t[k]
  BY DEF Within
<1>2. ASSUME NEW level \in {"or", "and", "with", "primary"}
      PROVE  Grammar(u)[Span(level, s + 1, s + (n + 1))] = Grammar(t)[Span(level, 1, n + 1)]
  <2>1. 1 \in 1 .. Len(t) + 1 /\ n + 1 \in 1 .. Len(t) + 1 /\ level \in {"or", "and", "with", "primary"}
    BY <1>n
  <2>2. LET x == Span(level, 1, n + 1)
        IN x \in Spans(t) /\ x.from = 1 /\ x.to = n + 1 /\ x.level = level
    BY ONLY <2>1, SpanMade
  <2> DEFINE x == Span(level, 1, n + 1)
  <2>3. x \in Spans(t) /\ x.from = 1 /\ x.to = n + 1 /\ x.level = level
    BY <2>2
  <2> HIDE DEF x
  <2>4. Grammar(u)[Span(x.level, s + x.from, s + x.to)] = Grammar(t)[x]
    BY <1>1, <2>3, Moves
  <2> QED BY <2>3, <2>4 DEF x
<1> QED BY <1>n, <1>2 DEF Readings, AndReadings

(* The tokens of a text in parentheses, and of two texts joined.             *)
LEMMA EnclosedClean ==
  ASSUME NEW S, NEW Y \in Seq(S), NEW T \in Seq(S), Enclosed(Y, T), NEW ships \in BOOLEAN,
         FitFor(Y, ships)
  PROVE  TokensFit(T, ships)
<1>y. PICK y \in Nat : y = Len(Y)
  BY LenNat
<1> y \in Nat
  BY <1>y
<1>1. /\ Len(T) = y + 2 /\ T[1] = "(" /\ T[y + 2] = ")" /\ \A k \in 1 .. y : T[1 + k] = Y[k]
  BY <1>y DEF Enclosed
<1>2. /\ \A k \in 1 .. y : Y[k] \notin Banned(ships)
      /\ \A k \in 2 .. y : Y[k - 1] = "WITH" => Y[k] \in KnownExceptions
  BY <1>y, FitIs DEF TokensFit
<1>3. Y[y] # "WITH"
  BY <1>y, CleanEnd
<1>4. ASSUME NEW k \in 1 .. y + 2 PROVE T[k] \notin Banned(ships)
  <2>1. CASE k = 1 \/ k = y + 2
    BY <1>1, <2>1, WordsAllowed
  <2>2. CASE k \in 2 .. y + 1
    <3>1. k - 1 \in 1 .. y /\ 1 + (k - 1) = k
      BY <2>2
    <3> QED BY <1>1, <1>2, <3>1
  <2> QED BY <2>1, <2>2
<1>5. ASSUME NEW k \in 2 .. y + 2, T[k - 1] = "WITH" PROVE T[k] \in KnownExceptions
  <2>1. k # 2
    <3>1. k = 2 => k - 1 = 1
      OBVIOUS
    <3> QED BY <1>1, <1>5, <3>1
  <2>2. k - 1 \in 1 .. y + 1 /\ k - 2 \in 1 .. y /\ 1 + (k - 2) = k - 1
    BY <2>1
  <2>3. Y[k - 2] = "WITH"
    BY <1>1, <1>5, <2>2
  <2>4. k # y + 2
    <3>1. k = y + 2 => k - 2 = y
      OBVIOUS
    <3> QED BY <1>3, <2>3, <3>1
  <2>5. k - 1 \in 2 .. y /\ k - 1 \in 1 .. y /\ (k - 1) - 1 = k - 2 /\ 1 + (k - 1) = k
    BY <2>2, <2>4
  <2>6. Y[k - 1] \in KnownExceptions
    BY <1>2, <2>3, <2>5
  <2> QED BY <1>1, <2>5, <2>6
<1> QED BY <1>1, <1>4, <1>5 DEF TokensFit

LEMMA JointClean ==
  ASSUME NEW S, NEW X \in Seq(S), NEW Y \in Seq(S), NEW T \in Seq(S), Joint(X, Y, T),
         NEW ships \in BOOLEAN, FitFor(X, ships), FitFor(Y, ships)
  PROVE  TokensFit(T, ships)
<1>x. PICK x \in Nat : x = Len(X)
  BY LenNat
<1>y. PICK y \in Nat : y = Len(Y)
  BY LenNat
<1> x \in Nat /\ y \in Nat
  BY <1>x, <1>y
<1> DEFINE n == x + y + 3
           o == x + 2
<1>1. /\ Len(T) = n /\ T[x + 1] = "AND" /\ T[o] = "(" /\ T[n] = ")"
      /\ \A k \in 1 .. x : T[k] = X[k]
      /\ \A k \in 1 .. y : T[o + k] = Y[k]
  BY <1>x, <1>y DEF Joint
<1>2. /\ \A k \in 1 .. x : X[k] \notin Banned(ships)
      /\ \A k \in 2 .. x : X[k - 1] = "WITH" => X[k] \in KnownExceptions
  BY <1>x, FitIs DEF TokensFit
<1>3. /\ \A k \in 1 .. y : Y[k] \notin Banned(ships)
      /\ \A k \in 2 .. y : Y[k - 1] = "WITH" => Y[k] \in KnownExceptions
  BY <1>y, FitIs DEF TokensFit
<1>4. X[x] # "WITH" /\ Y[y] # "WITH"
  BY <1>x, <1>y, CleanEnd
<1>5. ASSUME NEW k \in 1 .. n PROVE T[k] \notin Banned(ships)
  <2>1. CASE k = x + 1 \/ k = o \/ k = n
    BY <1>1, <2>1, WordsAllowed
  <2>2. CASE k \in 1 .. x
    BY <1>1, <1>2, <2>2
  <2>3. CASE k \in o + 1 .. n - 1
    <3>1. k - o \in 1 .. y /\ o + (k - o) = k
      BY <2>3
    <3> QED BY <1>1, <1>3, <3>1
  <2> QED BY <2>1, <2>2, <2>3
<1>6. ASSUME NEW k \in 2 .. n, T[k - 1] = "WITH" PROVE T[k] \in KnownExceptions
  <2>1. CASE k \in 2 .. x
    <3>1. k \in 1 .. x /\ k - 1 \in 1 .. x
      BY <2>1
    <3> QED BY <1>1, <1>2, <1>6, <2>1, <3>1
  <2>2. CASE k = x + 1
    <3>1. k - 1 = x /\ x \in 1 .. x
      BY <2>2
    <3> QED BY <1>1, <1>4, <1>6, <3>1
  <2>3. CASE k = x + 2 \/ k = o + 1
    <3>1. k - 1 = x + 1 \/ k - 1 = o
      BY <2>3
    <3> QED BY <1>1, <1>6, <3>1
  <2>4. CASE k \in o + 2 .. n
    <3>1. (k - 1) - o \in 1 .. y /\ o + ((k - 1) - o) = k - 1
      BY <2>4
    <3>2. Y[(k - 1) - o] = "WITH"
      BY <1>1, <1>6, <3>1
    <3>3. k # n
      <4>1. k = n => (k - 1) - o = y
        OBVIOUS
      <4> QED BY <1>4, <3>2, <4>1
    <3>4. k - o \in 2 .. y /\ k - o \in 1 .. y /\ (k - o) - 1 = (k - 1) - o /\ o + (k - o) = k
      BY <2>4, <3>3
    <3>5. Y[k - o] \in KnownExceptions
      BY <1>3, <3>2, <3>4
    <3> QED BY <1>1, <3>4, <3>5
  <2> QED BY <2>1, <2>2, <2>3, <2>4
<1> QED BY <1>1, <1>5, <1>6 DEF TokensFit

(* A first entry in parentheses is fit as the entry is.                      *)
LEMMA FirstStep ==
  ASSUME NEW S, NEW Y \in Seq(S), NEW T \in Seq(S), Enclosed(Y, T), Matched(Y)
  PROVE  /\ Closed(T)
         /\ \A ships \in BOOLEAN : FitFor(T, ships) <=> FitFor(Y, ships)
<1>y. PICK y \in Nat : y = Len(Y)
  BY LenNat
<1> y \in Nat
  BY <1>y
<1>1. Len(T) = y + 2 /\ \A k \in 1 .. y : T[1 + k] = Y[k]
  BY <1>y DEF Enclosed
<1>2. PICK d : EndsWith(T, d, 0)
  BY DepthEnclosed
<1>3. Within(Y, T, 1)
  BY <1>y, <1>1 DEF Within
<1>4. Grammar(T)[Span("or", 2, y + 2)] = Readings(Y)
  <2>1. 1 + 1 = 2 /\ 1 + (y + 1) = y + 2
    OBVIOUS
  <2> QED BY <1>y, <1>3, <2>1, ReadWithin
<1>5. ASSUME Exceptions(T) \subseteq KnownExceptions
      PROVE  Readings(T) = AndReadings(T) /\ Readings(T) = Readings(Y)
  <2>1. /\ Readings(T) = AndReadings(T)
        /\ AndReadings(T) = IF y + 2 > 2 THEN Grammar(T)[Span("or", 2, y + 2)] ELSE {}
    BY <1>1, <1>2, <1>5, EndsDerived
  <2>2. y = 0 => Readings(Y) = {}
    BY <1>y, EmptyIsUnread
  <2> QED BY <1>4, <2>1, <2>2
<1>6. Closed(T)
  BY <1>2, <1>5, EndsFlat DEF Closed
<1>7. ASSUME NEW ships \in BOOLEAN PROVE FitFor(T, ships) <=> FitFor(Y, ships)
  <2>1. ASSUME FitFor(T, ships) PROVE FitFor(Y, ships)
    <3>1. TokensFit(T, ships) /\ Offers(Readings(T), ships)
      BY <2>1, FitIs
    <3>2. TokensFit(Y, ships) /\ Offers(Readings(Y), ships)
      BY <1>3, <1>5, <3>1, CleanWithin, CleanExceptions
    <3> QED BY <3>2, FitIs
  <2>2. ASSUME FitFor(Y, ships) PROVE FitFor(T, ships)
    <3>1. TokensFit(T, ships)
      BY <2>2, EnclosedClean
    <3>2. Offers(Readings(T), ships)
      BY <1>5, <2>2, <3>1, FitIs, CleanExceptions
    <3> QED BY <3>1, <3>2, FitIs
  <2> QED BY <2>1, <2>2
<1> QED BY <1>6, <1>7

(* One more entry: the whole is fit when both are.                           *)
LEMMA JoinStep ==
  ASSUME NEW S, NEW X \in Seq(S), NEW Y \in Seq(S), NEW T \in Seq(S),
         Joint(X, Y, T), Closed(X), Matched(Y)
  PROVE  /\ Closed(T)
         /\ \A ships \in BOOLEAN : FitFor(T, ships) <=> FitFor(X, ships) /\ FitFor(Y, ships)
<1>x. PICK x \in Nat : x = Len(X)
  BY LenNat
<1>y. PICK y \in Nat : y = Len(Y)
  BY LenNat
<1> x \in Nat /\ y \in Nat
  BY <1>x, <1>y
<1>1. /\ Len(T) = x + y + 3 /\ T[x + 1] = "AND"
      /\ \A k \in 1 .. x : T[k] = X[k]
      /\ \A k \in 1 .. y : T[(x + 2) + k] = Y[k]
  BY <1>x, <1>y DEF Joint
<1>2. Flat(X) /\ x # 0
  BY <1>x DEF Closed, Flat
<1>3. PICK d : EndsWith(T, d, x + 1)
  BY <1>x, <1>2, DepthJoint
<1>4. Within(X, T, 0) /\ Within(Y, T, x + 2)
  <2>1. \A k \in 1 .. x : 0 + k = k
    OBVIOUS
  <2> QED BY <1>x, <1>y, <1>1, <2>1 DEF Within
<1>5. Grammar(T)[Span("and", 1, x + 1)] = AndReadings(X)
  <2>1. 0 + 1 = 1 /\ 0 + (x + 1) = x + 1
    OBVIOUS
  <2> QED BY <1>x, <1>4, <2>1, ReadWithin
<1>6. Grammar(T)[Span("or", (x + 1) + 2, x + y + 3)] = Readings(Y)
  <2>1. (x + 2) + 1 = (x + 1) + 2 /\ (x + 2) + (y + 1) = x + y + 3 /\ x + 2 \in Nat
    OBVIOUS
  <2> QED BY <1>y, <1>4, <2>1, ReadWithin
<1>7. x + 1 \in Places(T, "AND", 1, (x + y + 3) + 1) /\ x + 1 # 0 /\ x + 1 \in Nat
      /\ (x + y + 3 > (x + 1) + 2 <=> y # 0)
  <2>1. x + 1 \in 1 + 1 .. ((x + y + 3) + 1) - 2
    BY <1>2
  <2> QED BY <1>1, <2>1 DEF Places
<1>8. ASSUME Exceptions(T) \subseteq KnownExceptions
      PROVE  /\ Readings(T) = AndReadings(T)
             /\ Readings(T) = EachBoth(AndReadings(X), Readings(Y))
  <2> DEFINE last == IF x + y + 3 > (x + 1) + 2
                     THEN Grammar(T)[Span("or", (x + 1) + 2, x + y + 3)] ELSE {}
  <2>1. /\ Readings(T) = AndReadings(T)
        /\ AndReadings(T) =
             IF x + 1 = 0 THEN last
             ELSE IF x + 1 \in Places(T, "AND", 1, (x + y + 3) + 1)
             THEN {Both(a, b) : a \in Grammar(T)[Span("and", 1, x + 1)], b \in last} ELSE {}
    <3>1. LET n == Len(T)
              G == Grammar(T)
              end == IF n > (x + 1) + 2 THEN G[Span("or", (x + 1) + 2, n)] ELSE {}
          IN /\ Readings(T) = AndReadings(T)
             /\ AndReadings(T) =
                  IF x + 1 = 0 THEN end
                  ELSE IF x + 1 \in Places(T, "AND", 1, n + 1)
                  THEN {Both(a, b) : a \in G[Span("and", 1, x + 1)], b \in end} ELSE {}
      BY <1>3, <1>7, <1>8, EndsDerived
    <3> QED BY <1>1, <3>1
  <2>2. y = 0 => Readings(Y) = {}
    BY <1>y, EmptyIsUnread
  <2>3. last = Readings(Y)
    BY <1>6, <1>7, <2>2
  <2> HIDE DEF last
  <2> QED BY <1>5, <1>7, <2>1, <2>3 DEF EachBoth
<1>9. Closed(T)
  BY <1>3, <1>7, <1>8, EndsFlat DEF Closed
<1>10. ASSUME NEW ships \in BOOLEAN PROVE FitFor(T, ships) <=> FitFor(X, ships) /\ FitFor(Y, ships)
  <2>1. ASSUME FitFor(T, ships) PROVE FitFor(X, ships) /\ FitFor(Y, ships)
    <3>1. TokensFit(T, ships) /\ Offers(Readings(T), ships)
      BY <2>1, FitIs
    <3>2. 0 \in Nat /\ x + 2 \in Nat
      OBVIOUS
    <3>3. TokensFit(X, ships) /\ TokensFit(Y, ships)
      BY <1>4, <3>1, <3>2, CleanWithin
    <3>4. AndReadings(X) = Readings(X)
      BY <3>3, CleanExceptions DEF Closed
    <3>5. Offers(EachBoth(Readings(X), Readings(Y)), ships)
      BY <1>8, <3>1, <3>4, CleanExceptions
    <3>6. Offers(Readings(X), ships) /\ Offers(Readings(Y), ships)
      BY ONLY <3>5, BothOffer, ships \in BOOLEAN
    <3> QED BY <3>3, <3>6, FitIs
  <2>2. ASSUME FitFor(X, ships), FitFor(Y, ships) PROVE FitFor(T, ships)
    <3>1. TokensFit(T, ships)
      BY <2>2, JointClean
    <3>2. /\ TokensFit(X, ships) /\ Offers(Readings(X), ships) /\ Offers(Readings(Y), ships)
      BY <2>2, FitIs
    <3>3. AndReadings(X) = Readings(X)
      BY <3>2, CleanExceptions DEF Closed
    <3>4. Offers(Readings(T), ships)
      BY <1>8, <3>1, <3>2, <3>3, CleanExceptions, BothOffer
    <3> QED BY <3>1, <3>4, FitIs
  <2> QED BY <2>1, <2>2
<1> QED BY <1>9, <1>10

Words == {"AND", "(", ")"}
JoinOne(entries, g, m) ==
  IF m = 0 THEN <<>>
  ELSE g[m - 1] \o (IF m = 1 THEN <<>> ELSE <<"AND">>) \o <<"(">> \o entries[m] \o <<")">>

LEMMA JoinOneIn ==
  ASSUME NEW S, Words \subseteq S, NEW X \in Seq(S), NEW Y \in Seq(S)
  PROVE  /\ X \o <<>> \o <<"(">> \o Y \o <<")">> \in Seq(S)
         /\ X \o <<"AND">> \o <<"(">> \o Y \o <<")">> \in Seq(S)
<1>1. <<"AND">> \in Seq(S) /\ <<"(">> \in Seq(S) /\ <<")">> \in Seq(S) /\ <<>> \in Seq(S)
  BY DEF Words
<1>2. \A a \in Seq(S), b \in Seq(S) : a \o b \in Seq(S)
  OBVIOUS
<1> QED BY <1>1, <1>2

(* The joined text is the function its definition says.                      *)
LEMMA JoinedIs ==
  ASSUME NEW S, Words \subseteq S, NEW entries \in Seq(Seq(S)), NEW m \in 0 .. Len(entries)
  PROVE  /\ Joined(entries)[m] \in Seq(S)
         /\ Joined(entries)[m] = JoinOne(entries, Joined(entries), m)
<1>n. PICK n \in Nat : n = Len(entries)
  BY LenNat
<1> n \in Nat
  BY <1>n
<1> DEFINE D == 0 .. n
           U == Seq(S)
           G == [D -> U]
           V == [x \in D |-> U]
           F == [p \in G \X D |-> JoinOne(entries, p[1], p[2])]
           mu == [x \in D |-> x]
           N == n + 1
<1>1. \A x \in D : mu[x] \in Nat /\ mu[x] < N
  OBVIOUS
<1>2. G = {g \in [D -> U] : \A x \in D : g[x] \in V[x]}
  OBVIOUS
<1>3. G # {}
  <2>1. <<>> \in U
    OBVIOUS
  <2>2. [x \in D |-> <<>>] \in G
    BY <2>1
  <2> QED BY <2>2
<1>4. \A g \in G, x \in D : F[<<g, x>>] = JoinOne(entries, g, x)
  OBVIOUS
<1>5. ASSUME NEW g \in G, NEW x \in D PROVE JoinOne(entries, g, x) \in U
  <2>1. CASE x = 0
    BY <2>1 DEF JoinOne
  <2>2. CASE x # 0
    <3>1. x \in 1 .. n /\ x - 1 \in D
      BY <2>2
    <3>2. entries[x] \in Seq(S) /\ g[x - 1] \in Seq(S)
      <4>1. x \in 1 .. Len(entries)
        BY <1>n, <3>1
      <4>2. entries[x] \in Seq(S)
        BY <4>1
      <4>3. g[x - 1] \in U
        BY <3>1
      <4> QED BY <4>2, <4>3
    <3> HIDE DEF D, G
    <3>3. CASE x = 1
      BY <2>2, <3>2, <3>3, JoinOneIn DEF JoinOne
    <3>4. CASE x # 1
      BY <2>2, <3>2, <3>4, JoinOneIn DEF JoinOne
    <3> QED BY <3>3, <3>4
  <2> QED BY <2>1, <2>2
<1>6. ASSUME NEW x \in D, NEW g, NEW h, \A y \in D : y < x => g[y] = h[y]
      PROVE  JoinOne(entries, g, x) = JoinOne(entries, h, x)
  <2>1. CASE x = 0
    BY <2>1 DEF JoinOne
  <2>2. CASE x # 0
    <3>1. x - 1 \in D /\ x - 1 < x
      BY <2>2
    <3>2. g[x - 1] = h[x - 1]
      BY <1>6, <3>1
    <3> QED BY <3>2 DEF JoinOne
  <2> QED BY <2>1, <2>2
<1>7. \E f \in G : \A x \in D : f[x] = F[<<f, x>>]
  <2>1. N \in Nat
    OBVIOUS
  <2>2. \A g \in G, x \in D : F[<<g, x>>] \in U /\ F[<<g, x>>] \in V[x]
    BY <1>4, <1>5
  <2>3. ASSUME NEW g \in G, NEW h \in G, NEW x \in D, \A y \in D : mu[y] < mu[x] => g[y] = h[y]
        PROVE  F[<<g, x>>] = F[<<h, x>>]
    <3>1. \A y \in D : y < x => g[y] = h[y]
      BY <2>3
    <3>2. JoinOne(entries, g, x) = JoinOne(entries, h, x)
      BY <1>6, <3>1
    <3> QED BY <1>4, <3>2
  <2> HIDE DEF D, G, U, V, F, mu, N
  <2>4. Defines(F, mu, D, G, U, V, N)
    BY <1>1, <1>2, <1>3, <2>1, <2>2, <2>3 DEF Defines
  <2> QED BY <2>4, Recursion
<1>8. PICK f \in G : \A x \in D : f[x] = JoinOne(entries, f, x)
  BY <1>4, <1>7
<1> DEFINE p == CHOOSE h : h = [x \in D |-> JoinOne(entries, h, x)]
<1>9. p = [x \in D |-> JoinOne(entries, p, x)]
  <2>1. f = [x \in D |-> JoinOne(entries, f, x)]
    BY <1>8
  <2> HIDE DEF D
  <2> QED BY <2>1
<1>10. Joined(entries) = p
  BY <1>n DEF Joined, JoinOne
<1> HIDE DEF p
<1> DEFINE T == {k \in Nat : k \in D => p[k] = f[k]}
<1>11. ASSUME NEW k \in Nat, \A l \in Nat : l < k => l \in T PROVE k \in T
  <2> SUFFICES ASSUME k \in D PROVE p[k] = f[k]
    OBVIOUS
  <2>1. \A y \in D : y < k => p[y] = f[y]
    BY <1>11
  <2>2. JoinOne(entries, p, k) = JoinOne(entries, f, k)
    BY <1>6, <2>1
  <2> QED BY <1>8, <1>9, <2>2
<1>12. Nat \subseteq T
  <2> HIDE DEF T
  <2> QED BY <1>11, Complete
<1>13. m \in D /\ m \in Nat
  BY <1>n
<1>14. p[m] = f[m] /\ p[m] = JoinOne(entries, p, m)
  BY <1>9, <1>12, <1>13
<1> QED BY <1>8, <1>10, <1>13, <1>14

LEMMA Concatenated ==
  ASSUME NEW W, NEW a \in Seq(W), NEW Y \in Seq(W)
  PROVE  /\ a \o Y \in Seq(W) /\ Len(a \o Y) = Len(a) + Len(Y)
         /\ \A k \in 1 .. Len(a) : (a \o Y)[k] = a[k]
         /\ \A k \in 1 .. Len(Y) : (a \o Y)[Len(a) + k] = Y[k]
<1>l. PICK l \in Nat : l = Len(a)
  BY LenNat
<1>n. PICK n \in Nat : n = Len(Y)
  BY LenNat
<1> l \in Nat /\ n \in Nat
  BY <1>l, <1>n
<1>1. /\ a \o Y \in Seq(W) /\ Len(a \o Y) = Len(a) + Len(Y)
      /\ \A i \in 1 .. Len(a) + Len(Y) : (a \o Y)[i] = IF i <= Len(a) THEN a[i] ELSE Y[i - Len(a)]
  BY ConcatProperties
<1>2. \A k \in 1 .. l : k \in 1 .. l + n /\ k <= l
  OBVIOUS
<1>3. \A k \in 1 .. n : l + k \in 1 .. l + n /\ ~ (l + k <= l) /\ (l + k) - l = k
  OBVIOUS
<1> QED BY <1>l, <1>n, <1>1, <1>2, <1>3

LEMMA TextEnclosed ==
  ASSUME NEW S, NEW Y \in Seq(S)
  PROVE  Enclosed(Y, <<>> \o <<>> \o <<"(">> \o Y \o <<")">>)
<1>n. PICK n \in Nat : n = Len(Y)
  BY LenNat
<1> n \in Nat
  BY <1>n
<1> DEFINE a == <<>> \o <<>> \o <<"(">>
           b == a \o Y
           t == b \o <<")">>
<1>1. a = <<"(">>
  OBVIOUS
<1>2. Len(a) = 1 /\ a[1] = "("
  BY <1>1
<1> DEFINE W == S \cup Words
<1>3. a \in Seq(W) /\ Y \in Seq(W) /\ <<")">> \in Seq(W)
  BY <1>1 DEF Words
<1> HIDE DEF a, W
<1>4. b \in Seq(W) /\ Len(b) = n + 1 /\ b[1] = "(" /\ \A k \in 1 .. n : b[1 + k] = Y[k]
  <2>1. /\ a \o Y \in Seq(W) /\ Len(a \o Y) = Len(a) + Len(Y)
        /\ \A k \in 1 .. Len(a) : (a \o Y)[k] = a[k]
        /\ \A k \in 1 .. Len(Y) : (a \o Y)[Len(a) + k] = Y[k]
    BY ONLY <1>3, Concatenated
  <2> HIDE DEF b
  <2>2. b = a \o Y
    BY DEF b
  <2>3. 1 \in 1 .. 1 /\ 1 + n = n + 1
    OBVIOUS
  <2> QED BY <1>n, <1>2, <2>1, <2>2, <2>3
<1> HIDE DEF b
<1>5. Len(t) = n + 2 /\ t[1] = "(" /\ t[n + 2] = ")" /\ \A k \in 1 .. n : t[1 + k] = Y[k]
  BY <1>n, <1>3, <1>4
<1> HIDE DEF t
<1>6. Enclosed(Y, t)
  BY <1>n, <1>5 DEF Enclosed
<1> QED BY <1>6 DEF a, b, t

LEMMA TextJoint ==
  ASSUME NEW S, NEW X \in Seq(S), NEW Y \in Seq(S)
  PROVE  Joint(X, Y, X \o <<"AND">> \o <<"(">> \o Y \o <<")">>)
<1>n. PICK n \in Nat : n = Len(Y)
  BY LenNat
<1>x. PICK x \in Nat : x = Len(X)
  BY LenNat
<1> n \in Nat /\ x \in Nat
  BY <1>n, <1>x
<1> DEFINE W == S \cup Words
           c == X \o <<"AND">>
           a == c \o <<"(">>
           b == a \o Y
           t == b \o <<")">>
<1>1. X \in Seq(W) /\ Y \in Seq(W) /\ <<")">> \in Seq(W) /\ <<"AND">> \in Seq(W) /\ <<"(">> \in Seq(W)
  BY DEF Words
<1> HIDE DEF W
<1>2. c \in Seq(W) /\ Len(c) = x + 1 /\ c[x + 1] = "AND" /\ \A k \in 1 .. x : c[k] = X[k]
  BY <1>x, <1>1
<1> HIDE DEF c
<1>3. /\ a \in Seq(W) /\ Len(a) = x + 2 /\ a[x + 1] = "AND" /\ a[x + 2] = "("
      /\ \A k \in 1 .. x : a[k] = X[k]
  BY <1>1, <1>2
<1> HIDE DEF a
<1>4. /\ b \in Seq(W) /\ Len(b) = x + n + 2 /\ b[x + 1] = "AND" /\ b[x + 2] = "("
      /\ \A k \in 1 .. x : b[k] = X[k]
      /\ \A k \in 1 .. n : b[x + 2 + k] = Y[k]
  <2>0. a \in Seq(W) /\ Y \in Seq(W)
    BY <1>1, <1>3
  <2>1. /\ a \o Y \in Seq(W) /\ Len(a \o Y) = Len(a) + Len(Y)
        /\ \A k \in 1 .. Len(a) : (a \o Y)[k] = a[k]
        /\ \A k \in 1 .. Len(Y) : (a \o Y)[Len(a) + k] = Y[k]
    BY ONLY <2>0, Concatenated
  <2> HIDE DEF b
  <2>2. b = a \o Y
    BY DEF b
  <2>3. /\ (x + 2) + n = x + n + 2 /\ x + 1 \in 1 .. x + 2 /\ x + 2 \in 1 .. x + 2
        /\ \A k \in 1 .. x : k \in 1 .. x + 2
    OBVIOUS
  <2> QED BY <1>n, <1>3, <2>1, <2>2, <2>3
<1> HIDE DEF b
<1>z. x + n + 3 = (x + n + 2) + 1
  OBVIOUS
<1>5. /\ Len(t) = x + n + 3 /\ t[x + 1] = "AND" /\ t[x + 2] = "(" /\ t[x + n + 3] = ")"
      /\ \A k \in 1 .. x : t[k] = X[k]
      /\ \A k \in 1 .. n : t[x + 2 + k] = Y[k]
  <2>1. Len(<<")">>) = 1 /\ <<")">>[1] = ")"
    OBVIOUS
  <2>2. /\ Len(t) = (x + n + 2) + 1 /\ t[(x + n + 2) + 1] = ")"
        /\ \A k \in 1 .. x + n + 2 : t[k] = b[k]
    <3> DEFINE e == <<")">>
    <3>1. e \in Seq(W) /\ Len(e) = 1 /\ e[1] = ")"
      BY <1>1, <2>1
    <3> HIDE DEF e
    <3>0. b \in Seq(W) /\ e \in Seq(W)
      BY <1>4, <3>1
    <3>2. /\ Len(b \o e) = Len(b) + Len(e)
          /\ \A k \in 1 .. Len(b) : (b \o e)[k] = b[k]
          /\ \A k \in 1 .. Len(e) : (b \o e)[Len(b) + k] = e[k]
      BY ONLY <3>0, Concatenated
    <3>3. t = b \o e /\ 1 \in 1 .. 1
      BY DEF e
    <3> HIDE DEF t
    <3> QED BY <1>4, <3>1, <3>2, <3>3
  <2>3. /\ x + 1 \in 1 .. x + n + 2 /\ x + 2 \in 1 .. x + n + 2
        /\ \A k \in 1 .. x : k \in 1 .. x + n + 2
        /\ \A k \in 1 .. n : x + 2 + k \in 1 .. x + n + 2
    OBVIOUS
  <2> QED BY <1>4, <1>z, <2>2, <2>3
<1> HIDE DEF t
<1>6. Joint(X, Y, t)
  BY <1>n, <1>x, <1>5 DEF Joint
<1> QED BY <1>6 DEF a, b, c, t

(* Several matched entries are fit together when each of them is.            *)
LEMMA JoinedFit ==
  ASSUME NEW S, Words \subseteq S, NEW entries \in Seq(Seq(S)),
         \A i \in 1 .. Len(entries) : Matched(entries[i]), NEW m \in 1 .. Len(entries)
  PROVE  /\ Closed(Joined(entries)[m])
         /\ \A ships \in BOOLEAN :
              FitFor(Joined(entries)[m], ships) <=> \A i \in 1 .. m : FitFor(entries[i], ships)
<1>n. PICK n \in Nat : n = Len(entries)
  BY LenNat
<1> n \in Nat
  BY <1>n
<1> DEFINE J == Joined(entries)
           Fit(k) == /\ Closed(J[k])
                     /\ \A ships \in BOOLEAN :
                          FitFor(J[k], ships) <=> \A i \in 1 .. k : FitFor(entries[i], ships)
           T == {k \in Nat : k \in 1 .. n => Fit(k)}
<1>1. ASSUME NEW k \in 0 .. n PROVE J[k] \in Seq(S) /\ J[k] = JoinOne(entries, J, k)
  BY <1>n, JoinedIs
<1>2. ASSUME NEW k \in 1 .. n PROVE entries[k] \in Seq(S) /\ Matched(entries[k])
  BY <1>n
<1> HIDE DEF J
<1>3. ASSUME NEW k \in Nat, \A l \in Nat : l < k => l \in T PROVE k \in T
  <2> SUFFICES ASSUME k \in 1 .. n PROVE Fit(k)
    OBVIOUS
  <2>1. J[k] \in Seq(S) /\ J[k] = JoinOne(entries, J, k) /\ k # 0
    BY <1>1
  <2>2. CASE k = 1
    <3>1. J[0] = <<>>
      <4>1. 0 \in 0 .. n
        OBVIOUS
      <4> QED BY <1>1, <4>1 DEF JoinOne
    <3>2. J[1] = <<>> \o <<>> \o <<"(">> \o entries[1] \o <<")">>
      <4>1. J[1] = JoinOne(entries, J, 1) /\ 1 - 1 = 0 /\ 1 # 0
        BY <2>1, <2>2
      <4>2. JoinOne(entries, J, 1) = J[1 - 1] \o <<>> \o <<"(">> \o entries[1] \o <<")">>
        BY DEF JoinOne
      <4> QED BY <3>1, <4>1, <4>2
    <3>3. Enclosed(entries[1], J[1])
      BY <1>2, <2>2, <3>2, TextEnclosed
    <3>4. /\ Closed(J[1])
          /\ \A ships \in BOOLEAN : FitFor(J[1], ships) <=> FitFor(entries[1], ships)
      BY <1>2, <2>1, <2>2, <3>3, FirstStep
    <3>5. \A i : i \in 1 .. 1 <=> i = 1
      OBVIOUS
    <3> QED BY <2>2, <3>4, <3>5
  <2>3. CASE k # 1
    <3>1. k - 1 \in Nat /\ k - 1 < k /\ k - 1 \in 1 .. n /\ k - 1 \in 0 .. n
      BY <2>3
    <3>2. Fit(k - 1) /\ J[k - 1] \in Seq(S)
      BY <1>1, <1>3, <3>1
    <3>3. J[k] = J[k - 1] \o <<"AND">> \o <<"(">> \o entries[k] \o <<")">>
      BY <2>1, <2>3 DEF JoinOne
    <3>4. Joint(J[k - 1], entries[k], J[k])
      BY <1>2, <3>2, <3>3, TextJoint
    <3>5. /\ Closed(J[k])
          /\ \A ships \in BOOLEAN :
               FitFor(J[k], ships) <=> FitFor(J[k - 1], ships) /\ FitFor(entries[k], ships)
      BY <1>2, <2>1, <3>2, <3>4, JoinStep
    <3>6. \A i : i \in 1 .. k <=> i \in 1 .. k - 1 \/ i = k
      OBVIOUS
    <3> QED BY <3>2, <3>5, <3>6
  <2> QED BY <2>2, <2>3
<1>4. Nat \subseteq T
  <2> HIDE DEF T
  <2> QED BY <1>3, Complete
<1>5. m \in Nat /\ m \in 1 .. n
  BY <1>n
<1>6. Fit(m)
  BY <1>4, <1>5
<1> QED BY <1>6 DEF J

LEMMA WiderSeq ==
  ASSUME NEW A, NEW B, A \subseteq B
  PROVE  Seq(A) \subseteq Seq(B)
OBVIOUS

(* The licence of a component is fit exactly when it has an entry and each   *)
(* of its entries is.                                                        *)
LEMMA LicenceFit ==
  ASSUME NEW S, Words \subseteq S, NEW p, p.licences \in Seq(Seq(S)), NEW ships \in BOOLEAN,
         Len(p.licences) > 1 => \A i \in DOMAIN p.licences : Matched(p.licences[i])
  PROVE  /\ LicenceOf(p) \in Seq(S)
         /\ FitFor(LicenceOf(p), ships) <=>
              p.licences # <<>> /\ \A i \in DOMAIN p.licences : FitFor(p.licences[i], ships)
<1> DEFINE parts == p.licences
<1>0. parts \in Seq(Seq(S)) /\ DOMAIN parts = 1 .. Len(parts)
  OBVIOUS
<1>1. LicenceOf(p) = IF Len(parts) = 1 THEN parts[1] ELSE Joined(parts)[Len(parts)]
  BY DEF LicenceOf
<1>2. Len(parts) > 1 => \A i \in 1 .. Len(parts) : Matched(parts[i])
  OBVIOUS
<1> HIDE DEF parts
<1>n. PICK n \in Nat : n = Len(parts)
  BY <1>0, LenNat
<1> n \in Nat
  BY <1>n
<1>3. CASE n = 0
  <2>1. parts = <<>> /\ 0 \in 0 .. Len(parts)
    BY <1>0, <1>n, <1>3
  <2>2. Joined(parts)[0] = <<>>
    BY <1>0, <2>1, JoinedIs DEF JoinOne
  <2>3. LicenceOf(p) = <<>> /\ <<>> \in Seq(S) /\ Len(<<>>) = 0
    BY <1>1, <1>n, <1>3, <2>2
  <2>4. ~ FitFor(<<>>, ships)
    <3> DEFINE e == <<>>
    <3>1. e \in Seq(S) /\ Len(e) = 0
      BY <2>3
    <3> HIDE DEF e
    <3>2. Readings(e) = {}
      BY ONLY <3>1, EmptyIsUnread
    <3>3. ~ FitFor(e, ships)
      BY <3>2 DEF FitFor
    <3> QED BY <3>3 DEF e
  <2> QED BY <2>1, <2>3, <2>4 DEF parts
<1>4. CASE n = 1
  <2>1. LicenceOf(p) = parts[1] /\ parts # <<>> /\ DOMAIN parts = {1}
    <3>1. 1 .. 1 = {1}
      OBVIOUS
    <3>2. LicenceOf(p) = parts[1]
      BY <1>1, <1>n, <1>4
    <3>3. DOMAIN parts = 1 .. Len(parts) /\ Len(parts) = 1
      BY <1>0, <1>n, <1>4
    <3>4. parts # <<>>
      <4>1. ASSUME parts = <<>> PROVE FALSE
        <5>1. Len(parts) = 0
          BY <4>1
        <5> QED BY <3>3, <5>1
      <4> QED BY <4>1
    <3> QED BY <3>1, <3>2, <3>3, <3>4
  <2>2. parts[1] \in Seq(S)
    BY <1>0, <2>1
  <2> QED BY <2>1, <2>2 DEF parts
<1>5. CASE n > 1
  <2>1. /\ LicenceOf(p) = Joined(parts)[n] /\ parts # <<>> /\ DOMAIN parts = 1 .. n
        /\ n \in 1 .. Len(parts) /\ n \in 0 .. Len(parts) /\ \A i \in 1 .. Len(parts) : Matched(parts[i])
    BY <1>0, <1>1, <1>2, <1>n, <1>5
  <2>2. Joined(parts)[n] \in Seq(S)
    BY <1>0, <2>1, JoinedIs
  <2>3. FitFor(Joined(parts)[n], ships) <=> \A i \in 1 .. n : FitFor(parts[i], ships)
    BY <1>0, <2>1, JoinedFit
  <2> QED BY <2>1, <2>2, <2>3 DEF parts
<1>6. n = 0 \/ n = 1 \/ n > 1
  OBVIOUS
<1> QED BY <1>3, <1>4, <1>5, <1>6

(* Where the assertion puts a package is where its code goes.                *)
LEMMA ClassShips ==
  ASSUME NEW p \in Packages, NEW hasGraph \in BOOLEAN
  PROVE  ClassOf(p, hasGraph) # "No" <=> Ships(p, hasGraph)
<1>1. /\ Component(p).ecosystem = p.ecosystem
      /\ Component(p).shipped = IF p.ecosystem = "npm" THEN (IF p.dev THEN "false" ELSE "true") ELSE "absent"
  BY DEF Component, ShippedProperty
<1>2. CASE p.ecosystem = "npm"
  <2>1. p.dev \in BOOLEAN
    BY <1>2 DEF Packages
  <2>2. CASE p.dev
    BY <1>1, <1>2, <2>2 DEF ClassOf, Ships
  <2>3. CASE ~ p.dev
    BY <1>1, <1>2, <2>3 DEF ClassOf, Ships
  <2> QED BY <2>1, <2>2, <2>3
<1>3. CASE p.ecosystem = "cargo"
  <2>1. p.normal \in BOOLEAN /\ p.build \in BOOLEAN
    BY <1>3 DEF Packages
  <2>2. Component(p).shipped = "absent"
    BY <1>1, <1>3
  <2>3. CASE ~ hasGraph
    BY <1>1, <1>3, <2>2, <2>3 DEF ClassOf, Ships
  <2>4. CASE hasGraph
    <3>1. ClassOf(p, hasGraph) = GraphClass(p)
      BY <1>1, <1>3, <2>2, <2>4 DEF ClassOf
    <3>2. CASE p.normal
      BY <1>3, <2>4, <3>1, <3>2 DEF GraphClass, Ships
    <3>3. CASE ~ p.normal /\ p.build
      BY <1>3, <2>4, <3>1, <3>3 DEF GraphClass, Ships
    <3>4. CASE ~ p.normal /\ ~ p.build
      BY <1>3, <2>4, <3>1, <3>4 DEF GraphClass, Ships
    <3> QED BY <2>1, <3>2, <3>3, <3>4
  <2> QED BY <2>3, <2>4
<1> QED BY <1>2, <1>3 DEF Packages

Policy(packages, hasGraph) ==
  \A p \in packages :
    /\ hasGraph => TreesAgree(p)
    /\ p.licences # <<>>
    /\ \A i \in DOMAIN p.licences : FitFor(p.licences[i], Ships(p, hasGraph))

(* The assertion is the policy.                                              *)
LEMMA AssertionIsPolicy ==
  ASSUME NEW packages, NEW hasGraph \in BOOLEAN,
         \A p \in packages :
           /\ p \in Packages
           /\ Len(p.licences) > 1 => \A i \in DOMAIN p.licences : Matched(p.licences[i])
  PROVE  AssertDocs(packages, hasGraph) <=> Policy(packages, hasGraph)
<1>1. ASSUME NEW p \in packages
      PROVE  Judge(Component(p).licence, ClassOf(p, hasGraph)) # "Fail" <=>
               p.licences # <<>>
               /\ \A i \in DOMAIN p.licences : FitFor(p.licences[i], Ships(p, hasGraph))
  <2>1. p \in Packages /\ p.licences \in Seq(Seq(STRING))
    BY DEF Packages
  <2> DEFINE S == STRING \cup Words
  <2>2. p.licences \in Seq(Seq(S))
    <3>1. Seq(STRING) \subseteq Seq(S)
      BY WiderSeq
    <3> QED BY <2>1, <3>1, WiderSeq
  <2> DEFINE ships == ClassOf(p, hasGraph) # "No"
  <2>3. ships \in BOOLEAN /\ (ships <=> Ships(p, hasGraph))
    BY <2>1, ClassShips
  <2>4. /\ LicenceOf(p) \in Seq(S)
        /\ FitFor(LicenceOf(p), ships) <=>
             p.licences # <<>> /\ \A i \in DOMAIN p.licences : FitFor(p.licences[i], ships)
    <3>1. Words \subseteq S
      OBVIOUS
    <3>2. Len(p.licences) > 1 => \A i \in DOMAIN p.licences : Matched(p.licences[i])
      OBVIOUS
    <3> HIDE DEF S, ships
    <3> QED BY <2>2, <2>3, <3>1, <3>2, LicenceFit
  <2>5. Judge(LicenceOf(p), ClassOf(p, hasGraph)) # "Fail" <=> FitFor(LicenceOf(p), ships)
    BY <2>4, JudgeIsPolicy
  <2>6. Component(p).licence = LicenceOf(p)
    BY DEF Component
  <2>7. \A t : FitFor(t, ships) <=> FitFor(t, Ships(p, hasGraph))
    BY <2>3 DEF FitFor
  <2> QED BY <2>4, <2>5, <2>6, <2>7
<1>2. AssertDocs(packages, hasGraph) <=>
        /\ hasGraph => \A p \in packages : TreesAgree(p)
        /\ \A p \in packages : Judge(Component(p).licence, ClassOf(p, hasGraph)) # "Fail"
  BY DEF AssertDocs
<1> QED BY <1>1, <1>2 DEF Policy

(* An assertion says what it found then, and is forgotten at the next step.  *)
LEMMA Asserted == Next => UNCHANGED assertion \/ assertion' = NotAsked
                          \/ \E packages \in Sboms, hasGraph \in BOOLEAN : Sbom(packages, hasGraph)
<1> SUFFICES ASSUME Next PROVE UNCHANGED assertion \/ assertion' = NotAsked
                          \/ \E packages \in Sboms, hasGraph \in BOOLEAN : Sbom(packages, hasGraph)
  OBVIOUS
<1> USE DEF Goes, Ends
<1>1. ASSUME NEW v \in Version, EditRust(v) \/ EditWeb(v) PROVE assertion' = NotAsked
  BY <1>1 DEF EditRust, EditWeb
<1>2. CASE CleanOutput \/ Stop \/ StartReport \/ StartBuildWeb
  BY <1>2 DEF CleanOutput, Stop, StartReport, StartBuildWeb, Start
<1>3. ASSUME NEW targets \in Builds, NEW epoch \in Epoch, NEW skip \in BOOLEAN,
             StartDist(targets, epoch, skip)
      PROVE  assertion' = NotAsked
  BY <1>3 DEF StartDist, Start
<1>4. CASE WriteReport \/ ViteEmpties \/ ViteEmptied \/ ViteEmits \/ WriteStamp \/ CheckBundle
  BY <1>4 DEF WriteReport, ViteEmpties, ViteEmptied, ViteEmits, WriteStamp, CheckBundle
<1>5. ASSUME ListBundle \/ Cleared \/ \E files \in Entrywise : RemoveDirAll(files)
      PROVE  assertion' = NotAsked
  BY <1>5 DEF ListBundle, Cleared, RemoveDirAll
<1>6. ASSUME NEW arch \in Range(MacTargets), Build(arch) PROVE assertion' = NotAsked
  BY <1>6 DEF Build
<1>7. CASE CheckSlices \/ Sign \/ StageApp \/ StageBare \/ PackBare \/ PackApp
  BY <1>7 DEF CheckSlices, Sign, StageApp, StageBare, PackBare, PackApp
<1>8. CASE ReadBack \/ ScanMagic \/ WriteManifest \/ CreateSums \/ WriteSums
  BY <1>8 DEF ReadBack, ScanMagic, WriteManifest, CreateSums, WriteSums
<1> QED BY <1>1, <1>2, <1>3, <1>4, <1>5, <1>6, <1>7, <1>8 DEF Next

LEMMA LicencesKept == LicencesHold /\ [Next]_vars => LicencesHold'
<1> SUFFICES ASSUME LicencesHold, [Next]_vars PROVE LicencesHold'
  OBVIOUS
<1>1. CASE UNCHANGED assertion
  BY <1>1 DEF LicencesHold
<1>2. CASE assertion' = NotAsked
  BY <1>2 DEF LicencesHold
<1>3. ASSUME NEW packages \in Sboms, NEW hasGraph \in BOOLEAN, Sbom(packages, hasGraph)
      PROVE  LicencesHold'
  <2>1. AssertDocs(packages, hasGraph) <=> Policy(packages, hasGraph)
    BY SbomsAssumption, AssertionIsPolicy
  <2>2. /\ assertion'.packages = packages /\ assertion'.graph = hasGraph
        /\ assertion'.passed = AssertDocs(packages, hasGraph)
    BY <1>3 DEF Sbom
  <2>3. AssertDocs(packages, hasGraph) \in BOOLEAN /\ Policy(packages, hasGraph) \in BOOLEAN
    BY DEF AssertDocs, Policy
  <2>4. assertion'.passed = Policy(assertion'.packages, assertion'.graph)
    BY <2>1, <2>2, <2>3
  <2> QED BY <2>4 DEF LicencesHold, Policy
<1>4. CASE UNCHANGED vars
  BY <1>1, <1>4 DEF vars
<1> QED BY <1>1, <1>2, <1>3, <1>4, Asserted

-----------------------------------------------------------------------------
(* The theorems                                                              *)

LEMMA Inductive == IInv /\ [Next]_vars => IInv'
<1> SUFFICES ASSUME IInv, [Next]_vars PROVE IInv'
  OBVIOUS
<1>1. CASE Next
  BY <1>1, TypeKept, StampKept, SlicesKept, ExeKept, FilesKept, PackedKept,
     FrontEndKept, ReleaseKept DEF IInv
<1>2. CASE UNCHANGED vars
  <2>1. PackedInv'
    BY <1>2 DEF vars, IInv, PackedInv, Files, Here
  <2> QED BY <1>2, <2>1 DEF vars, IInv, TypeInv, StampInv, SlicesInv, ExeInv, FilesInv,
     FrontEndIsCurrent, ReleaseIsOne, Summed, Whole, Here, Files, Said
<1> QED BY <1>1, <1>2

(* The working tree, the front end, the command's variables and the output   *)
(* directories have their types in every reachable state (dist.rs, build.rs, *)
(* write-stamp.mjs).                                                         *)
THEOREM TypeCorrect == Spec => []TypeInv
<1>1. IInv => TypeInv
  BY DEF IInv
<1> QED BY Starts, Inductive, <1>1, PTL DEF Spec

(* Whatever stopped the runs before it, a list of checksums that is not      *)
(* empty names three artifacts of one run, whose archives read back as what  *)
(* was staged, whatever their headers hold, with one signed executable of    *)
(* exactly the label's architectures (dist.rs:26-35, :777, archive.rs:1-16). *)
THEOREM ReleasedTogether == Spec => []ReleaseIsOne
<1>1. IInv => ReleaseIsOne
  BY DEF IInv
<1> QED BY Starts, Inductive, <1>1, PTL DEF Spec

(* No slice embeds a bundle of other sources than those it was built beside, *)
(* except of a bundle stamped after an edit (build_web.rs:15-16, build.rs).  *)
THEOREM FrontEndServed == Spec => []FrontEndIsCurrent
<1>1. IInv => FrontEndIsCurrent
  BY DEF IInv
<1> QED BY Starts, Inductive, <1>1, PTL DEF Spec

(* The assertion of `sbom` passes a set of packages exactly when the policy  *)
(* holds of it, whatever the lists, the packages and the graph: the parser   *)
(* finds a derivation whenever there is one and reads what it says, and what *)
(* it joins with AND stands or falls with each entry (sbom.rs:38-50, :110-   *)
(* 222, :358-387).                                                           *)
THEOREM LicencesChecked == Spec => []LicencesHold
<1>1. Init => LicencesHold
  BY DEF Init, LicencesHold
<1>2. LicencesHold /\ [Next]_vars => LicencesHold'
  BY LicencesKept
<1> QED BY <1>1, <1>2, PTL DEF Spec
=============================================================================
