------------------------------ MODULE WebBundle ------------------------------
(***************************************************************************)
(* The web shell served from memory (crates/pfp-server/src/assets.rs) and  *)
(* the content security policy that must fit it (csp.rs).                  *)
(*                                                                         *)
(* A path is a sequence of segments.  NameOf gives what the code reads in  *)
(* the last segment: the characters before the last dot, the extension     *)
(* after it (None without a dot) and whether it begins with a dot.  The    *)
(* content of a file is [id, utf8, tags, urls]: its bytes stand for their  *)
(* SHA-256, `tags` are the elements of a document, `urls` the absolute     *)
(* URLs the text names.                                                    *)
(***************************************************************************)
EXTENDS Integers, Sequences

CONSTANTS
  NameOf,            \* [stem, ext, hidden] of every segment
  HashLen,           \* VITE_HASH_LEN
  InertUrls,         \* the URLs that begin with an inert prefix
  Placeholder,       \* the content of the built-in shell
  Absent             \* no value

Index == <<"index.html">>

Kinds ==
  [html |-> "document", js |-> "script", css |-> "style", svg |-> "image",
   png |-> "image", woff2 |-> "font", json |-> "data", txt |-> "data"]

Last(path) == NameOf[path[Len(path)]]
Known(path) == Last(path).ext \in DOMAIN Kinds
Kind(path) == Kinds[Last(path).ext]

IsAsset(path) == Len(path) = 2 /\ path[1] = "assets" /\ path[2] # ""

-----------------------------------------------------------------------------
(* AssetManifest: a function from paths to contents.                       *)

\* What from_files finds wrong with the i-th file, after the ones before it
FileFault(files, i) ==
  LET path == files[i].path
  IN  IF path # Index /\ ~IsAsset(path) THEN "UnexpectedPath"
      ELSE IF ~Known(path) THEN "UnknownType"
      ELSE IF \E j \in 1 .. i - 1 : files[j].path = path THEN "Duplicate"
      ELSE Absent

FromFiles(files) ==
  LET faulty == {i \in DOMAIN files : FileFault(files, i) # Absent}
      first == CHOOSE i \in faulty : \A j \in faulty : i <= j
      paths == {files[i].path : i \in DOMAIN files}
      content(p) == files[CHOOSE i \in DOMAIN files : files[i].path = p].content
  IN  IF faulty # {} THEN [ok |-> FALSE, error |-> FileFault(files, first)]
      ELSE IF Index \notin paths THEN [ok |-> FALSE, error |-> "MissingIndex"]
      ELSE [ok |-> TRUE, manifest |-> [p \in paths |-> content(p)]]

Visible(file) == ~Last(file.path).hidden

\* The bundle compiled in, without the stamp beside it, or the placeholder
Embedded(dist) ==
  IF dist = Absent THEN [ok |-> TRUE, manifest |-> [p \in {Index} |-> Placeholder]]
  ELSE FromFiles(SelectSeq(dist, Visible))

-----------------------------------------------------------------------------
(* csp::derive returns the fixed policy when it fits, and otherwise the    *)
(* server does not start.                                                  *)

IsText(path, content) == Kind(path) # "font" /\ Last(path).ext # "png" /\ content.utf8

\* Root-relative, and the name of a file of the bundle
ReferenceIsServed(ref, manifest) == ref.rooted /\ ref.path \in DOMAIN manifest

TagFits(tag, manifest) ==
  /\ tag.name = "script" => tag.src # <<>>
  /\ tag.name \notin {"style", "base"}
  /\ tag.name = "meta" => ~tag.httpEquiv
  /\ ~tag.style /\ ~tag.handler
  /\ \A i \in DOMAIN tag.src : ReferenceIsServed(tag.src[i], manifest)
  /\ \A i \in DOMAIN tag.href : ReferenceIsServed(tag.href[i], manifest)

HashAlphabet == {"x", "-"}      \* a letter, digit or underscore; a hyphen

\* <base>-<hash>.<extension>: the hash is taken by its length
HashNamed(path) ==
  LET stem == Last(path).stem
      at == Len(stem) - HashLen
  IN  /\ Last(path).ext # Absent
      /\ Len(stem) >= HashLen + 2
      /\ stem[at] = "-"
      /\ \A i \in at + 1 .. Len(stem) : stem[i] \in HashAlphabet

PolicyFits(manifest) ==
  /\ Index \in DOMAIN manifest /\ IsText(Index, manifest[Index])
  /\ \A i \in DOMAIN manifest[Index].tags : TagFits(manifest[Index].tags[i], manifest)
  /\ \A p \in DOMAIN manifest :
       /\ p[1] = "assets" => HashNamed(p)
       /\ IsText(p, manifest[p]) => manifest[p].urls \subseteq InertUrls

-----------------------------------------------------------------------------
(* AssetManifest::respond.  `tags` are the entity tags of If-None-Match;   *)
(* the tag of an asset is the SHA-256 of its bytes.                        *)

\* The file an admitted path names: "/" the document, else a file under assets/
FileAt(url, manifest) ==
  IF url = <<>> THEN Index
  ELSE IF url[1] = "assets" /\ url \in DOMAIN manifest THEN url
  ELSE Absent

NotModified(url, manifest, tags) ==
  url # <<>> /\ manifest[FileAt(url, manifest)].id \in tags

Respond(url, manifest, tags) ==
  IF FileAt(url, manifest) = Absent THEN [status |-> 404, content |-> Absent]
  ELSE IF NotModified(url, manifest, tags) THEN [status |-> 304, content |-> Absent]
  ELSE [status |-> 200, content |-> manifest[FileAt(url, manifest)].id]
=============================================================================
