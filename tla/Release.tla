------------------------------- MODULE Release -------------------------------
(* `cargo xtask dist` and the commands around it: validation-report,        *)
(* build-web with npm run build, the build script of pfp-server, the        *)
(* archives, SHA256SUMS and the sbom assertion.  One command runs at a time *)
(* and may stop anywhere, by an error or killed; a developer edits, and     *)
(* cleans the build output, whenever he likes.                              *)
EXTENDS Archive, Licences

CONSTANTS MacTargets,   \* the architectures of the two macOS targets, sorted
          Builds,       \* the target lists asked for
          Installed,    \* the targets this toolchain has
          Version,      \* contents the Rust sources, and those of web/, may have
          Containing,   \* <<"rust", v>> and <<"web", v>> with the container magic in them
          Epoch,        \* values of --source-date-epoch
          Sboms         \* the sets of packages an assertion is run over

\* The command line sorts and deduplicates the targets; without any it takes the host's
ASSUME ReleaseAssumption ==
  \A b \in Builds :
    /\ b \in Seq(Range(MacTargets)) /\ b # <<>>
    /\ \A i, j \in 1 .. Len(b) : b[i] = b[j] => i = j

\* The documents written here give a component one entry, the licence field as it
\* stands; of a document that gives several, each is taken to close what it opens
ASSUME SbomsAssumption ==
  \A packages \in Sboms : \A p \in packages :
    /\ p \in Packages
    /\ Len(p.licences) > 1 => \A i \in DOMAIN p.licences : Matched(p.licences[i])

VARIABLES rust, web,    \* the working tree: Rust sources and inputs of the front end
          report,       \* whether build/validation-report.json exists
          dist,         \* web/dist: the bundle's source, its stamp
          out,          \* the output directory of each label, a function of its files
          pc, job,      \* the command: its next step and its variables
          assertion     \* what an sbom assertion answered, if that was the last step

vars == <<rust, web, report, dist, out, pc, job, assertion>>

(* The label is a function of the targets and names the output directory.   *)
Label == {Range(b) : b \in Builds}
Absent == 0
NoDist == [there |-> FALSE, index |-> Absent, stamp |-> Absent, edited |-> FALSE]
NoFiles == << >>
NotAsked == [packages |-> {}, graph |-> FALSE, passed |-> FALSE]
Idle == [goal |-> "none", targets |-> <<>>, epoch |-> 0, listing |-> Absent,
         todo |-> <<>>, slices |-> {}, exe |-> [slices |-> {}, signed |-> FALSE]]

Text(name) == [text |-> name]
ContainsMagic(bytes) ==
  /\ "slices" \in DOMAIN bytes
  /\ \E s \in bytes.slices : {<<"rust", s.rust>>, <<"web", s.bundle>>} \cap Containing # {}

Here == Range(job.targets)
Files == out[Here]
Write(file, content) ==
  out' = [out EXCEPT ![Here] = [f \in DOMAIN Files \cup {file} |->
                                  IF f = file THEN content ELSE Files[f]]]

Init ==
  /\ rust \in Version /\ web \in Version
  /\ {<<"rust", rust>>, <<"web", web>>} \cap Containing = {}
  /\ report = FALSE /\ dist = NoDist
  /\ out = [l \in Label |-> NoFiles]
  /\ pc = "idle" /\ job = Idle /\ assertion = NotAsked

-----------------------------------------------------------------------------
(* The developer. `edited` notes that web/ changed between the reading of   *)
(* the inputs and the stamp of a bundle; no code reads it.                  *)
EditRust(v) ==
  /\ v # rust /\ rust' = v /\ assertion' = NotAsked
  /\ UNCHANGED <<web, report, dist, out, pc, job>>

EditWeb(v) ==
  /\ v # web /\ web' = v /\ assertion' = NotAsked
  /\ dist' = [dist EXCEPT !.edited = @ \/ pc \in {"empty", "emit", "stamp"}]
  /\ UNCHANGED <<rust, report, out, pc, job>>

CleanOutput ==
  /\ pc = "idle" /\ report' = FALSE /\ dist' = NoDist /\ assertion' = NotAsked
  /\ UNCHANGED <<rust, web, out, pc, job>>

-----------------------------------------------------------------------------
(* The commands: parse, label, and what each reads before its first step.   *)
Start(goal, targets, epoch, first) ==
  /\ pc = "idle"
  /\ pc' = first
  /\ job' = [Idle EXCEPT !.goal = goal, !.targets = targets, !.epoch = epoch]
  /\ assertion' = NotAsked
  /\ UNCHANGED <<rust, web, report, dist, out>>

StartReport == Start("validation-report", <<>>, 0, "report")
StartBuildWeb == Start("build-web", <<>>, 0, "npm")
TargetsInstalled(targets) == Range(targets) \subseteq Installed
StartDist(targets, epoch, skipPrepare) ==
  /\ TargetsInstalled(targets)
  /\ Start("dist", targets, epoch, IF skipPrepare THEN "list" ELSE "report")

(* Any step may fail, and any command may be killed: what is on disk stays. *)
Stop ==
  /\ pc # "idle" /\ pc' = "idle" /\ job' = Idle /\ assertion' = NotAsked
  /\ UNCHANGED <<rust, web, report, dist, out>>

Goes(next) == pc' = next /\ UNCHANGED <<rust, web>> /\ assertion' = NotAsked
Ends == pc' = "idle" /\ job' = Idle /\ UNCHANGED <<rust, web>> /\ assertion' = NotAsked

(* 1. prepare: the report's JSON, which carries nothing the model needs.    *)
WriteReport ==
  /\ pc = "report" /\ report' = TRUE
  /\ IF job.goal = "dist" THEN Goes("npm") /\ UNCHANGED job ELSE Ends
  /\ UNCHANGED <<dist, out>>

(* npm run build: vite reads the inputs and empties dist in the order of    *)
(* its names, the stamp first and index.html last, emits the bundle, and    *)
(* write-stamp.mjs hashes the inputs as they are by then.                   *)
ViteEmpties ==
  /\ pc = "npm" /\ Goes("empty")
  /\ dist' = [dist EXCEPT !.stamp = Absent, !.edited = FALSE]
  /\ job' = [job EXCEPT !.listing = web]
  /\ UNCHANGED <<report, out>>

ViteEmptied ==
  /\ pc = "empty" /\ Goes("emit")
  /\ dist' = [dist EXCEPT !.there = TRUE, !.index = Absent]
  /\ UNCHANGED <<report, out, job>>

ViteEmits ==
  /\ pc = "emit" /\ Goes("stamp")
  /\ dist' = [dist EXCEPT !.index = job.listing]
  /\ UNCHANGED <<report, out, job>>

WriteStamp ==
  /\ pc = "stamp" /\ dist.index # Absent /\ Goes("tree")
  /\ dist' = [dist EXCEPT !.stamp = web]
  /\ UNCHANGED <<report, out, job>>

(* build-web: the tree is what vite emits, and the stamp is the input hash. *)
CheckBundle ==
  /\ pc = "tree" /\ dist.index # Absent /\ dist.stamp = web
  /\ IF job.goal = "dist" THEN Goes("list") /\ UNCHANGED job ELSE Ends
  /\ UNCHANGED <<report, dist, out>>

(* The listing of web/dist that the manifest records.                       *)
ListBundle ==
  /\ pc = "list" /\ dist.there /\ Goes("clear")
  /\ job' = [job EXCEPT !.listing = dist.index]
  /\ UNCHANGED <<report, dist, out>>

(* 2. remove_dir_all takes one entry after another, in any order; the       *)
(* staging directories, which no later step looks at, go together.          *)
Staging == {"work", "app", "bare"}
Artifacts == {"bare.tgz", "app.tgz", "dist-manifest.json"}
Entrywise == {Staging} \cup {{f} : f \in Artifacts \cup {"SHA256SUMS"}}

RemoveDirAll(files) ==
  /\ pc = "clear" /\ files \cap DOMAIN Files # {} /\ Goes("clear")
  /\ out' = [out EXCEPT ![Here] = Restrict(@, DOMAIN @ \ files)]
  /\ UNCHANGED <<report, dist, job>>

\* mutant: what is left of the last run stays
ClearedInPart ==
  /\ pc = "clear" /\ Goes("build")
  /\ job' = [job EXCEPT !.todo = job.targets]
  /\ UNCHANGED <<report, dist, out>>

Cleared ==
  /\ pc = "clear" /\ Files = NoFiles /\ Goes("build")
  /\ job' = [job EXCEPT !.todo = job.targets]
  /\ UNCHANGED <<report, dist, out>>

(* build.rs of pfp-server in the release profile.                           *)
\* mutant: any stamp will do
FreshIfStamped == dist.stamp # Absent

Fresh == dist.stamp # Absent /\ dist.stamp = web
BuildScriptPasses == report /\ dist.index # Absent /\ Fresh

(* One cargo build: the sources are read at one instant, the bundle is      *)
(* embedded, and the slice has whatever architecture the toolchain gave it. *)
Build(arch) ==
  /\ pc = "build" /\ job.todo # <<>> /\ BuildScriptPasses
  /\ job' = [job EXCEPT !.todo = Tail(@),
                        !.slices = @ \cup {[arch |-> arch, rust |-> rust, web |-> web,
                                            bundle |-> dist.index, edited |-> dist.edited]}]
  /\ Goes(IF Len(job.todo) = 1 THEN "check" ELSE "build")
  /\ UNCHANGED <<report, dist, out>>

(* What of a slice is in the executable: code and bundle; the build command *)
(* keeps the path, the time and any wrapper out.                            *)
Embedded(s) == [arch |-> s.arch, rust |-> s.rust, bundle |-> s.bundle]

(* lipo, and 3. the architectures are those asked for, fat only if two.     *)
Arches(exe) == {s.arch : s \in exe.slices}
CheckSlices ==
  /\ pc = "check" /\ Arches(job) = Here /\ Goes("sign")
  /\ job' = [job EXCEPT !.exe = [slices |-> {Embedded(s) : s \in job.slices}, signed |-> FALSE]]
  /\ UNCHANGED <<report, dist, out>>

(* 4. one copy in work/ is signed, verified and, on its own machine, run.   *)
Sign ==
  /\ pc = "sign" /\ Goes("app")
  /\ job' = [job EXCEPT !.exe.signed = TRUE]
  /\ Write("work", [job.exe EXCEPT !.signed = TRUE])
  /\ UNCHANGED <<report, dist>>

(* 5. the two channels, each staged from work/pfp and normalised.           *)
Licence == Name("LICENSE", 3)
Notice == Name("NOTICE", 3)
Bundle == Name("Personal Financial Modeling.app", 3)
Contents == Name("Contents", 3)
MacOS == Name("MacOS", 3)
Plist == Name("Info.plist", 3)
Pfp == Name("pfp", 3)
BareName == Name("pfp-macos", 2)
AppName == Name("pfp-macos-app", 2)

BarePath == <<Pfp>>
AppPath == <<Bundle, Contents, MacOS, Pfp>>

Documents(path) ==
  IF path = <<Licence>> THEN File(Text("LICENSE"), 1, FALSE) ELSE File(Text("NOTICE"), 1, FALSE)

StagedApp(exe) ==
  [path \in {<<Bundle>>, <<Bundle, Contents>>, <<Bundle, Contents, Plist>>,
             <<Bundle, Contents, MacOS>>, AppPath, <<Licence>>, <<Notice>>} |->
     CASE path \in {<<Bundle>>, <<Bundle, Contents>>, <<Bundle, Contents, MacOS>>} -> Dir
       [] path = <<Bundle, Contents, Plist>> -> File(Text("Info.plist"), 1, FALSE)
       [] path = AppPath -> File(exe, 4, TRUE)
       [] OTHER -> Documents(path)]

StagedBare(exe) ==
  [path \in {BarePath, <<Licence>>, <<Notice>>} |->
     IF path = BarePath THEN File(exe, 4, TRUE) ELSE Documents(path)]

StageApp ==
  /\ pc = "app" /\ Goes("bare") /\ Write("app", StagedApp(Files["work"]))
  /\ UNCHANGED <<report, dist, job>>

StageBare ==
  /\ pc = "bare" /\ Goes("bare.tgz") /\ Write("bare", StagedBare(Files["work"]))
  /\ UNCHANGED <<report, dist, job>>

PackBare ==
  /\ pc = "bare.tgz" /\ CanTarGz(Files["bare"], <<BareName>>, job.epoch)
  /\ Goes("app.tgz") /\ Write("bare.tgz", TarGz(Files["bare"], <<BareName>>, job.epoch))
  /\ UNCHANGED <<report, dist, job>>

PackApp ==
  /\ pc = "app.tgz" /\ CanTarGz(Files["app"], <<AppName>>, job.epoch)
  /\ Goes("readback") /\ Write("app.tgz", TarGz(Files["app"], <<AppName>>, job.epoch))
  /\ UNCHANGED <<report, dist, job>>

(* The same bytes in every channel, read back from what was written.        *)
Holds(stream, path, exe) ==
  \E m \in ReadTar(stream) : m.path = path /\ m.data = {exe}

ReadBack ==
  /\ pc = "readback" /\ Goes("magic")
  /\ Holds(Files["app.tgz"], <<AppName>> \o AppPath, job.exe)
  /\ Holds(Files["bare.tgz"], <<BareName>> \o BarePath, job.exe)
  /\ Files["app"][AppPath].bytes = job.exe /\ Files["bare"][BarePath].bytes = job.exe
  /\ UNCHANGED <<report, dist, out, job>>

(* 6. the container magic, in the executable and in every staged or packed  *)
(* file.                                                                    *)
BytesOf(tree) == {tree[p].bytes : p \in {q \in DOMAIN tree : tree[q].kind = "file"}}
Unpacked(stream) == UNION {m.data : m \in ReadTar(stream)}
Scanned ==
  {Files["work"]} \cup BytesOf(Files["app"]) \cup BytesOf(Files["bare"])
    \cup Unpacked(Files["bare.tgz"]) \cup Unpacked(Files["app.tgz"])

ScanMagic ==
  /\ pc = "magic" /\ (\A bytes \in Scanned : ~ ContainsMagic(bytes)) /\ Goes("manifest")
  /\ UNCHANGED <<report, dist, out, job>>

(* 7. the manifest, then SHA256SUMS over whatever is in artifacts/, created *)
(* empty and then filled: a digest stands for its content.                  *)
WriteManifest ==
  /\ pc = "manifest" /\ Goes("sums")
  /\ Write("dist-manifest.json",
           [targets |-> Here, source_date_epoch |-> job.epoch,
            web_dist |-> job.listing, signed_sha256 |-> job.exe])
  /\ UNCHANGED <<report, dist, job>>

Render(files) == [f \in DOMAIN files \cap Artifacts |-> files[f]]

CreateSums ==
  /\ pc = "sums" /\ Render(Files) # NoFiles /\ Goes("sumlines")
  /\ Write("SHA256SUMS", NoFiles)
  /\ UNCHANGED <<report, dist, job>>

WriteSums ==
  /\ pc = "sumlines" /\ Goes("done")
  /\ Write("SHA256SUMS", Render(Files))
  /\ UNCHANGED <<report, dist, job>>

(* After a build, the sbom assertion: over what cargo-cyclonedx and the     *)
(* lockfile list with the graph of the target, or over given documents.     *)
Sbom(packages, hasGraph) ==
  /\ pc = "done" /\ pc' = "idle" /\ job' = Idle
  /\ assertion' = [packages |-> packages, graph |-> hasGraph,
                   passed |-> AssertDocs(packages, hasGraph)]
  /\ UNCHANGED <<rust, web, report, dist, out>>

Next ==
  \/ \E v \in Version : EditRust(v) \/ EditWeb(v)
  \/ CleanOutput \/ StartReport \/ StartBuildWeb \/ Stop
  \/ \E targets \in Builds, epoch \in Epoch, skip \in BOOLEAN : StartDist(targets, epoch, skip)
  \/ WriteReport \/ ViteEmpties \/ ViteEmptied \/ ViteEmits \/ WriteStamp \/ CheckBundle
  \/ ListBundle \/ (\E files \in Entrywise : RemoveDirAll(files)) \/ Cleared
  \/ \E arch \in Range(MacTargets) : Build(arch)
  \/ CheckSlices \/ Sign \/ StageApp \/ StageBare \/ PackBare \/ PackApp
  \/ ReadBack \/ ScanMagic \/ WriteManifest \/ CreateSums \/ WriteSums
  \/ \E packages \in Sboms, hasGraph \in BOOLEAN : Sbom(packages, hasGraph)

Spec == Init /\ [][Next]_vars

-----------------------------------------------------------------------------
(* Every SHA256SUMS there is, after any sequence of runs, failures, kills   *)
(* and half-done removals, is empty or lists three artifacts of one run:    *)
(* both archives read back as the staged trees, whole paths, kinds, modes   *)
(* and bytes at the manifest's one time, though a header cuts a path in     *)
(* two; in both is the one signed executable the manifest names, for        *)
(* exactly the label's architectures, free of the container magic, each     *)
(* slice with the bundle the manifest lists; and what is still there is     *)
(* what it says (dist.rs:26-35, archive.rs:1-16, dist.rs:777                *)
(* "identical_executable_in_every_channel").                                *)
Summed == {label \in Label : "SHA256SUMS" \in DOMAIN out[label]
                               /\ out[label]["SHA256SUMS"] # NoFiles}

Members(tree, name, mtime) ==
  {[path |-> e.path, typeflag |-> e.node.kind, mode |-> Mode(e.node), mtime |-> mtime,
    data |-> Data(e.node)] : e \in EntriesFromDir(tree, <<name>>)}

OneRelease(files, label) ==
  LET sums == files["SHA256SUMS"]
      said == sums["dist-manifest.json"]
      exe == said.signed_sha256
      mtime == said.source_date_epoch
  IN /\ DOMAIN sums = Artifacts
     /\ \A f \in Artifacts \cap DOMAIN files : files[f] = sums[f]
     /\ ReadTar(sums["app.tgz"]) = Members(StagedApp(exe), AppName, mtime)
     /\ ReadTar(sums["bare.tgz"]) = Members(StagedBare(exe), BareName, mtime)
     /\ exe.signed /\ ~ ContainsMagic(exe) /\ said.targets = label
     /\ Arches(exe) = label /\ Cardinality(exe.slices) = Cardinality(label)
     /\ \A s \in exe.slices : s.bundle = said.web_dist

ReleaseIsOne == \A label \in Summed : OneRelease(out[label], label)

(* "A release build refuses a bundle that is absent or older than its      *)
(* inputs" (build_web.rs:15-16): every slice embeds a bundle of the web/    *)
(* sources it was built beside, unless web/ was edited between the reading  *)
(* of vite and the stamp, which then vouches for sources vite never saw.    *)
(* No kill, no skipped preparation, no edit at another time and no older    *)
(* bundle makes another exception.                                          *)
FrontEndIsCurrent == \A s \in job.slices : s.bundle = s.web \/ s.edited

(* The assertion passes exactly the packages that satisfy the policy its    *)
(* documentation states (sbom.rs:38-50), each licence entry read by the     *)
(* grammar and each package by where its code ends up.                      *)
LicencesHold ==
  assertion # NotAsked =>
    assertion.passed =
      \A p \in assertion.packages :
        /\ assertion.graph => TreesAgree(p)
        /\ p.licences # <<>>
        /\ \A i \in DOMAIN p.licences : FitFor(p.licences[i], Ships(p, assertion.graph))
=============================================================================
