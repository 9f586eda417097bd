------------------------------- MODULE Archive -------------------------------
(* The ustar archives of the release (xtask/src/archive.rs).  A file name is *)
(* a record of a name and its length in bytes, a path a sequence of names,   *)
(* and a tar stream the set of its members: the order tar_bytes sorts them   *)
(* into, the padding and the checksum are layout.  A directory on disk is a  *)
(* function from paths below it to nodes.                                    *)
EXTENDS Naturals, Sequences, FiniteSets, SequencesExt, FiniteSetsExt

CONSTANTS NameMax,     \* bytes of the name field of a header
          PrefixMax,   \* bytes of its prefix field
          FieldMax     \* the largest number a size or time field holds

ASSUME LimitsAssumption ==
  /\ NameMax \in Nat \ {0} /\ PrefixMax \in Nat \ {0} /\ FieldMax \in Nat

Name(text, len) == [text |-> text, len |-> len]
DotDot == Name("..", 2)
NoName == Name("", 0)

Dir == [kind |-> "dir"]
File(bytes, size, executable) ==
  [kind |-> "file", bytes |-> bytes, size |-> size, executable |-> executable]

Entry(path, node) == [path |-> path, node |-> node]

(* The bytes of a path with `/` between its names, and after a directory.   *)
PathLen(path) == FoldLeft(LAMBDA n, c : n + c.len, 0, path) + Len(path) - 1
HeaderLen(e) == PathLen(e.path) + (IF e.node.kind = "dir" THEN 1 ELSE 0)

(* entries_from_dir: everything under a directory, below the archive's      *)
(* top-level name; whether any of it is neither a file nor a directory.     *)
EntriesFromDir(tree, prefix) ==
  {Entry(prefix, Dir)} \cup {Entry(prefix \o path, tree[path]) : path \in DOMAIN tree}
Archivable(entries) == \A e \in entries : e.node.kind \in {"dir", "file"}

(* split_name: a path that fits the name field stays whole; otherwise it is *)
(* cut at the last `/` that leaves both parts in their fields.  A           *)
(* directory's own `/` is such a place too, with an empty name after it.    *)
Cuts(e) ==
  {i \in 1 .. Len(e.path) - (IF e.node.kind = "dir" THEN 0 ELSE 1) :
     /\ PathLen(SubSeq(e.path, 1, i)) <= PrefixMax
     /\ HeaderLen(e) - PathLen(SubSeq(e.path, 1, i)) - 1 <= NameMax}
Cut(e) == IF HeaderLen(e) <= NameMax THEN 0 ELSE Max(Cuts(e))
Splittable(e) == HeaderLen(e) <= NameMax \/ Cuts(e) # {}

(* octal: a number fits its field or the archive is refused.                *)
OctalFits(value) == value <= FieldMax

Size(node) == IF node.kind = "file" THEN node.size ELSE 0
Mode(node) == IF node.kind = "dir" \/ node.executable THEN "0755" ELSE "0644"
Data(node) == IF node.kind = "file" THEN {node.bytes} ELSE {}

(* header: owners are 0 and modes one of two, whatever the file had.        *)
Header(e, mtime) ==
  [prefix |-> SubSeq(e.path, 1, Cut(e)), name |-> SubSeq(e.path, Cut(e) + 1, Len(e.path)),
   typeflag |-> e.node.kind, mode |-> Mode(e.node), size |-> Size(e.node), mtime |-> mtime]

Clean(path) == path # <<>> /\ ToSet(path) \cap {DotDot, NoName} = {}
NoDuplicates(entries) == \A d, e \in entries : d.path = e.path => d = e

(* Whether tar_bytes returns a stream for these entries.                    *)
Tarable(entries, mtime) ==
  /\ Archivable(entries) /\ NoDuplicates(entries)
  /\ \A e \in entries :
       Clean(e.path) /\ Splittable(e) /\ OctalFits(Size(e.node)) /\ OctalFits(mtime)

(* tar_bytes: each member is a header and the bytes after it.               *)
TarBytes(entries, mtime) ==
  {[header |-> Header(e, mtime), data |-> Data(e.node)] : e \in entries}

(* read_tar: the path from the two fields, the rest as it stands.           *)
ReadTar(stream) ==
  {[path |-> m.header.prefix \o m.header.name, typeflag |-> m.header.typeflag,
    mode |-> m.header.mode, mtime |-> m.header.mtime, data |-> m.data] : m \in stream}

(* write_tar_gz; gzip -n adds nothing of its own to the stream.             *)
TarGz(tree, prefix, mtime) == TarBytes(EntriesFromDir(tree, prefix), mtime)
CanTarGz(tree, prefix, mtime) == Tarable(EntriesFromDir(tree, prefix), mtime)
=============================================================================
