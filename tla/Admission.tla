------------------------------ MODULE Admission ------------------------------
(***************************************************************************)
(* Request admission (crates/pfp-server/src/admission.rs): which requests  *)
(* reach a handler, decided from the head alone.  A header is the sequence *)
(* of the values it was sent with: <<>> when absent, one value, or several *)
(* (HeaderFact).  A path is the sequence of its segments, <<>> for "/".    *)
(***************************************************************************)
EXTENDS Integers, Sequences

LOCAL INSTANCE TLC

CONSTANTS
  Port,              \* the port the listener is bound to
  JsonTypes,         \* the Content-Types whose essence is application/json
  MaxBody,           \* MAX_BODY_BYTES
  MaxHeader,         \* MAX_HEADER_BYTES
  None

ASSUME CapsAssumption == MaxBody \in Nat /\ MaxHeader \in Nat

(* CanonicalOrigin: the IP literal with the port, one string each, no pattern *)
HostHeader(port) == "127.0.0.1:" \o ToString(port)
OriginOf(port) == "https://" \o HostHeader(port)

OwnHost == HostHeader(Port)
OwnOrigin == OriginOf(Port)

(* A Content-Length that is not a number *)
Unreadable == -1

Class(path) ==
  IF path = <<>> THEN "document"
  ELSE IF path[1] = "api" THEN "api"
  ELSE "static"

\* An absolute-form target must agree with the Host header
HostIsOwn(r) ==
  /\ r.host = <<OwnHost>>
  /\ r.authority \in {None, OwnHost}

Safe(r) == r.method \in {"GET", "HEAD"}

\* ApiReadRule: the build ships PostOnly, an API request always names its origin
MayOmitOrigin(r) == Class(r.path) # "api" /\ Safe(r)

\* MUTANT of OriginIsOwn: the first of several values counts
OriginFirst(r) ==
  \/ r.origin # <<>> /\ r.origin[1] = OwnOrigin
  \/ r.origin = <<>> /\ MayOmitOrigin(r)

OriginIsOwn(r) ==
  \/ r.origin = <<OwnOrigin>>
  \/ r.origin = <<>> /\ MayOmitOrigin(r)

Navigates(r) ==
  /\ r.site = <<"none">> /\ r.mode = <<"navigate">> /\ r.dest = <<"document">>

FetchSiteIsOwn(r) ==
  \/ r.site = <<"same-origin">>
  \/ r.site = <<>> /\ Class(r.path) # "api"
  \/ Navigates(r) /\ Class(r.path) = "document"

MethodIsAllowed(r) == Class(r.path) = "api" \/ Safe(r)

\* A repeated or unreadable length counts as too large, never as zero
DeclaresLength(r, n) == r.length = <<n>> /\ n # Unreadable
LengthFits(r) == r.length = <<>> \/ \E n \in 0 .. MaxBody : DeclaresLength(r, n)

HasBody(r) ==
  r.chunked \/ (r.length # <<>> /\ \E n \in 1 .. MaxBody : DeclaresLength(r, n))

BodyIsJson(r) == HasBody(r) => \E t \in JsonTypes : r.type = <<t>>

(* admit: the refusal of the first rule that fails *)
Rules(r) ==
  << [refusal |-> "misdirected_host", holds |-> HostIsOwn(r)],
     [refusal |-> "origin_forbidden", holds |-> OriginIsOwn(r)],
     [refusal |-> "fetch_site_forbidden", holds |-> FetchSiteIsOwn(r)],
     [refusal |-> "method_not_allowed", holds |-> MethodIsAllowed(r)],
     [refusal |-> "payload_too_large", holds |-> LengthFits(r)],
     [refusal |-> "unsupported_media_type", holds |-> BodyIsJson(r)] >>

Refusal(r) ==
  LET rules == Rules(r)
      broken == {i \in DOMAIN rules : ~rules[i].holds}
      first == CHOOSE i \in broken : \A j \in broken : i <= j
  IN  IF broken = {} THEN None ELSE rules[first].refusal

(* The service checks the size of the head before it looks at anything     *)
(* else: what hyper's own cap lets through is measured exactly.            *)
HeadFits(r) == r.head <= MaxHeader

Admitted(r) == HeadFits(r) /\ Refusal(r) = None
=============================================================================
