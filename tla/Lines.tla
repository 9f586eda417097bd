------------------------------- MODULE Lines -------------------------------
(***************************************************************************)
(* pfp-explain: the audit trail of a computation.  A line is one computed  *)
(* value with the lines it was computed from, the parameter cells it read  *)
(* and the rounding rule that produced it (line.rs); a trace is a sequence *)
(* of lines in computation order, in which an id occurs once and an input  *)
(* comes before the line that names it (lines.rs); a name that enters a    *)
(* reference is validated first (id.rs).                                   *)
(*                                                                         *)
(* A name is a text; SpellingOf says how it is spelled: its length in      *)
(* bytes and its dot-separated segments, each "lower" for [a-z0-9_]+,      *)
(* "mixed" when it also has capitals, "other" or "empty".                  *)
(***************************************************************************)
EXTENDS Integers, Sequences, FiniteSets, Money

CONSTANTS
  SpellingOf,    \* name -> [bytes, segments]
  None           \* an absent part of a reference, a rounding that was not applied

MaxIdLength == 96

Lower == {"lower"}
Mixed == {"lower", "mixed"}

\* Dot-separated, non-empty segments over an alphabet; or one segment, where dots are not allowed
ValidId(name, alphabet, dots) ==
  LET s == SpellingOf[name]
  IN  /\ s.bytes \in 1 .. MaxIdLength
      /\ dots \/ Len(s.segments) = 1
      /\ \A i \in DOMAIN s.segments : s.segments[i] \in alphabet

-----------------------------------------------------------------------------
(* A reference to one cell of a parameter table                            *)

Whole(paramId) == [paramId |-> paramId, year |-> None, key |-> None, element |-> None]
WithYear(ref, year) == [ref EXCEPT !.year = year]

NewRef(paramId) == IF ValidId(paramId, Lower, TRUE) THEN Ok(Whole(paramId)) ELSE Err("Id")

WithKey(ref, key) ==
  IF ValidId(key, Mixed, FALSE) THEN Ok([ref EXCEPT !.key = key]) ELSE Err("Id")

WithElement(ref, element) ==
  IF ValidId(element, Mixed, TRUE) THEN Ok([ref EXCEPT !.element = element]) ELSE Err("Id")

\* A reference read back from its wire form is validated again, part by part
ReadRef(raw) ==
  IF /\ ValidId(raw.paramId, Lower, TRUE)
     /\ raw.key # None => ValidId(raw.key, Mixed, FALSE)
     /\ raw.element # None => ValidId(raw.element, Mixed, TRUE)
  THEN Ok(raw) ELSE Err("Id")

-----------------------------------------------------------------------------
(* A line and the calls that complete it                                   *)

Line(id, value) ==
  [id |-> id, value |-> value, inputs |-> <<>>, params |-> <<>>, rounding |-> None]
Input(line, id) == [line EXCEPT !.inputs = Append(@, id)]
Inputs(line, ids) == [line EXCEPT !.inputs = @ \o ids]
Param(line, ref) == [line EXCEPT !.params = Append(@, ref)]
RoundedBy(line, rule) == [line EXCEPT !.rounding = rule]

-----------------------------------------------------------------------------
(* A trace                                                                 *)

Ids(lines) == {lines[i].id : i \in DOMAIN lines}
InputsOf(line) == {line.inputs[i] : i \in DOMAIN line.inputs}

Push(lines, line) ==
  IF line.id \in Ids(lines) THEN Err("DuplicateLine")
  ELSE IF ~(InputsOf(line) \subseteq Ids(lines)) THEN Err("UnknownInput")
  ELSE Ok(Append(lines, line))

IndexOf(lines, id) == CHOOSE i \in DOMAIN lines : lines[i].id = id
Get(lines, id) == IF id \in Ids(lines) THEN Ok(lines[IndexOf(lines, id)]) ELSE Err("None")
ValueOf(lines, id) == IF id \in Ids(lines) THEN Ok(lines[IndexOf(lines, id)].value) ELSE Err("None")

\* Reading a trace back pushes its lines one by one
ReadBack(raw) ==
  LET read[n \in 0 .. Len(raw)] ==
        IF n = 0 THEN Ok(<<>>)
        ELSE IF read[n - 1].ok THEN Push(read[n - 1].value, raw[n])
        ELSE read[n - 1]
  IN  read[Len(raw)]

\* The places of the line and of everything it was computed from, transitively
TrailOf(lines, id) ==
  LET from[i \in DOMAIN lines] ==
        {i} \cup UNION {from[IndexOf(lines, j)] : j \in InputsOf(lines[i])}
  IN  from[IndexOf(lines, id)]

\* The audit trail: those lines in computation order, the line itself last
Trail(lines, id) ==
  LET places == TrailOf(lines, id)
      nth(n) == CHOOSE i \in places : Cardinality({j \in places : j < i}) = n - 1
  IN  [n \in 1 .. Cardinality(places) |-> lines[nth(n)]]

=============================================================================
