------------------------------ MODULE Licences ------------------------------
(* The no-copyleft assertion of `cargo xtask sbom` (xtask/src/sbom.rs): the *)
(* reading of an SPDX expression, the classification of a component and the *)
(* verdict.  An expression is its sequence of tokens: tokenize only cuts at *)
(* spaces and parentheses and reads `/` as OR.  A licence is its name, and  *)
(* the lists below hold the names the code's lists and families stand for.  *)
EXTENDS Integers, Sequences, FiniteSets, SequencesExt

CONSTANTS Allowed,            \* the allowlist
          ForbiddenAnywhere,  \* the families no component may carry
          ForbiddenShipped,   \* the families that may not ship
          Unknown,            \* what says that the licence is not known
          KnownExceptions     \* the exceptions understood after WITH

Operators == {"OR", "AND", "WITH"}
Parentheses == {"(", ")"}

(* No list names a word of the grammar, and no exception is a licence.      *)
ASSUME ListsAssumption ==
  LET families == ForbiddenAnywhere \cup ForbiddenShipped \cup Unknown
      words == Operators \cup Parentheses
  IN KnownExceptions \cap words = {} /\ families \cap (words \cup KnownExceptions) = {}

(* An Expr is what the verdict asks of its tree: whether it is a single     *)
(* identifier, its identifiers, whether its exceptions are known and        *)
(* whether it can be satisfied from the allowlist.                          *)
Exprs(tokens) ==
  [single : BOOLEAN, ids : SUBSET ToSet(tokens), known : BOOLEAN, fit : BOOLEAN]

Id(name) == [single |-> TRUE, ids |-> {name}, known |-> TRUE, fit |-> name \in Allowed]
With(base, exception) ==
  [single |-> FALSE, ids |-> base.ids, known |-> exception \in KnownExceptions, fit |-> base.fit]
And(a, b) ==
  [single |-> FALSE, ids |-> a.ids \cup b.ids, known |-> a.known /\ b.known,
   fit |-> a.fit /\ b.fit]
Or(a, b) ==
  [single |-> FALSE, ids |-> a.ids \cup b.ids, known |-> a.known /\ b.known,
   fit |-> a.fit \/ b.fit]

(* What a parsing function returns: an expression and the token after it,   *)
(* or no expression, at no token.  `?` is the early return on Failed.       *)
NoExpr == [single |-> FALSE, ids |-> {}, known |-> FALSE, fit |-> FALSE]
Parsed(expr, at) == [expr |-> expr, at |-> at]
Failed == Parsed(NoExpr, 0)
Peeks(tokens, at, word) == at \in 1 .. Len(tokens) /\ tokens[at] = word

(* The Parser's functions and the loops of `or` and `and`, each given the   *)
(* results of the calls it makes; a loop is called with what is on its left.*)
Calls(tokens) ==
  [fn : {"or", "or_loop", "and", "and_loop", "with", "primary"},
   at : 1 .. Len(tokens) + 1, left : Exprs(tokens)]
Call(fn, at) == [fn |-> fn, at |-> at, left |-> NoExpr]
Loop(fn, left) == [fn |-> fn, at |-> left.at, left |-> left.expr]

Primary(tokens, parse, at) ==
  IF at > Len(tokens) \/ (tokens[at] \in Operators \cup {")"}) THEN Failed
  ELSE IF tokens[at] # "(" THEN Parsed(Id(tokens[at]), at + 1)
  ELSE LET inner == parse[Call("or", at + 1)]
       IN IF Peeks(tokens, inner.at, ")") THEN Parsed(inner.expr, inner.at + 1) ELSE Failed

ParseWith(tokens, parse, at) ==
  LET base == parse[Call("primary", at)]
  IN IF ~ Peeks(tokens, base.at, "WITH") THEN base
     ELSE IF base.expr.single /\ base.at < Len(tokens)
     THEN Parsed(With(base.expr, tokens[base.at + 1]), base.at + 2) ELSE Failed

ParseAnd(parse, at) ==
  LET first == parse[Call("with", at)]
  IN IF first.at = 0 THEN Failed ELSE parse[Loop("and_loop", first)]

AndLoop(tokens, parse, left) ==
  IF ~ Peeks(tokens, left.at, "AND") THEN left
  ELSE LET right == parse[Call("with", left.at + 1)]
       IN IF right.at = 0 THEN Failed
          ELSE parse[Loop("and_loop", Parsed(And(left.expr, right.expr), right.at))]

ParseOr(parse, at) ==
  LET first == parse[Call("and", at)]
  IN IF first.at = 0 THEN Failed ELSE parse[Loop("or_loop", first)]

OrLoop(tokens, parse, left) ==
  IF ~ Peeks(tokens, left.at, "OR") THEN left
  ELSE LET right == parse[Call("and", left.at + 1)]
       IN IF right.at = 0 THEN Failed
          ELSE parse[Loop("or_loop", Parsed(Or(left.expr, right.expr), right.at))]

Returns(tokens, parse, call) ==
  CASE call.fn = "primary" -> Primary(tokens, parse, call.at)
    [] call.fn = "with" -> ParseWith(tokens, parse, call.at)
    [] call.fn = "and" -> ParseAnd(parse, call.at)
    [] call.fn = "and_loop" -> AndLoop(tokens, parse, Parsed(call.left, call.at))
    [] call.fn = "or" -> ParseOr(parse, call.at)
    [] call.fn = "or_loop" -> OrLoop(tokens, parse, Parsed(call.left, call.at))

Parser(tokens) ==
  LET parse[call \in Calls(tokens)] == Returns(tokens, parse, call) IN parse

(* parse_expr: the whole text, with nothing after it.                       *)
\* mutant: what follows the expression is not looked at
ParseExprLeading(tokens) == Parser(tokens)[Call("or", 1)]

ParseExpr(tokens) ==
  LET e == Parser(tokens)[Call("or", 1)] IN IF e.at = Len(tokens) + 1 THEN e ELSE Failed

(* Where a component's code ends up.                                        *)
Shipped == {"Linked", "BuildTime", "No"}

(* judge: the verdict on one licence, <<>> being none declared.             *)
Judge(tokens, shipped) ==
  LET parsed == ParseExpr(tokens)
      e == parsed.expr
  IN IF parsed.at = 0 \/ e.ids \cap (Unknown \cup ForbiddenAnywhere) # {} \/ ~ e.known
     THEN "Fail"
     ELSE IF e.ids \cap ForbiddenShipped = {} /\ e.fit THEN "Ok"
     ELSE IF shipped = "No" THEN "Warn" ELSE "Fail"

(* A package as the two resolvers know it: an npm package of the lockfile,  *)
(* `dev` or not, or a crate with the listings of `cargo tree` that name it. *)
(* licences is the licence entries of its component.                        *)
Packages ==
  [ecosystem : {"npm"}, dev : BOOLEAN, licences : Seq(Seq(STRING))] \cup
  [ecosystem : {"cargo"}, normal : BOOLEAN, build : BOOLEAN, licences : Seq(Seq(STRING))]
Npm(dev, licences) == [ecosystem |-> "npm", dev |-> dev, licences |-> licences]
Crate(normal, build, licences) ==
  [ecosystem |-> "cargo", normal |-> normal, build |-> build, licences |-> licences]

(* web_sbom writes `pfp:shipped` from `dev`; cargo-cyclonedx writes none.   *)
ShippedProperty(package) ==
  IF package.ecosystem = "npm" THEN (IF package.dev THEN "false" ELSE "true") ELSE "absent"

(* licence_of: several entries apply together.                              *)
Joined(entries) ==
  LET joined[m \in 0 .. Len(entries)] ==
        IF m = 0 THEN <<>>
        ELSE joined[m - 1] \o (IF m = 1 THEN <<>> ELSE <<"AND">>) \o <<"(">> \o entries[m] \o <<")">>
  IN joined
LicenceOf(package) ==
  LET parts == package.licences
  IN IF Len(parts) = 1 THEN parts[1] ELSE Joined(parts)[Len(parts)]

(* graph_from_tree, and the look-up of a crate in the graph.                *)
GraphClass(package) ==
  CASE package.normal -> "Linked" [] package.build -> "BuildTime" [] OTHER -> "No"

(* collect_components: what the assertion sees of a package's component; a  *)
(* crate's Cargo targets, listed below it, are skipped.                     *)
Component(package) ==
  [ecosystem |-> package.ecosystem, licence |-> LicenceOf(package),
   shipped |-> ShippedProperty(package)]

(* assert_docs: where one component counts as going; without a graph every  *)
(* Rust component counts as shipped.                                        *)
ClassOf(package, hasGraph) ==
  LET c == Component(package)
  IN CASE c.shipped = "true" -> "Linked"
       [] c.shipped = "false" -> "No"
       [] c.shipped = "absent" /\ hasGraph /\ c.ecosystem = "cargo" -> GraphClass(package)
       [] OTHER -> "Linked"

(* A listing over the normal edges inside that over normal and build edges. *)
TreesAgree(package) == package.ecosystem = "npm" \/ (package.normal => package.build)

AssertDocs(packages, hasGraph) ==
  /\ hasGraph => \A p \in packages : TreesAgree(p)
  /\ \A p \in packages : Judge(Component(p).licence, ClassOf(p, hasGraph)) # "Fail"

-----------------------------------------------------------------------------
(* What an expression means, without a parser: the grammar's derivations of *)
(* a span of tokens, read as the combinations of licences one may choose to *)
(* comply with.                                                             *)
Sole(name) == [single |-> TRUE, ways |-> {{name}}]
Excepted(a) == [single |-> FALSE, ways |-> a.ways]
Both(a, b) == [single |-> FALSE, ways |-> {v \cup w : v \in a.ways, w \in b.ways}]
Either(a, b) == [single |-> FALSE, ways |-> a.ways \cup b.ways]

(* The tokens of a span are those from its first up to, not including, its  *)
(* last.                                                                    *)
Spans(tokens) ==
  [level : {"or", "and", "with", "primary"},
   from : 1 .. Len(tokens) + 1, to : 1 .. Len(tokens) + 1]
Span(level, from, to) == [level |-> level, from |-> from, to |-> to]
Places(tokens, word, i, j) == {k \in i + 1 .. j - 2 : tokens[k] = word}

OfPrimary(tokens, derives, i, j) ==
  IF j = i + 1 /\ tokens[i] \notin Operators \cup Parentheses THEN {Sole(tokens[i])}
  ELSE IF j > i + 2 /\ tokens[i] = "(" /\ tokens[j - 1] = ")" THEN derives[Span("or", i + 1, j - 1)]
  ELSE {}

OfWith(tokens, derives, i, j) ==
  derives[Span("primary", i, j)] \cup
    (IF j > i + 2 /\ tokens[j - 2] = "WITH"
     THEN {Excepted(a) : a \in {b \in derives[Span("primary", i, j - 2)] : b.single}} ELSE {})

OfAnd(tokens, derives, i, j) ==
  derives[Span("with", i, j)] \cup
    UNION {{Both(a, b) : a \in derives[Span("and", i, k)], b \in derives[Span("with", k + 1, j)]} :
             k \in Places(tokens, "AND", i, j)}

OfOr(tokens, derives, i, j) ==
  derives[Span("and", i, j)] \cup
    UNION {{Either(a, b) : a \in derives[Span("or", i, k)], b \in derives[Span("and", k + 1, j)]} :
             k \in Places(tokens, "OR", i, j)}

Reads(tokens, derives, span) ==
  CASE span.level = "primary" -> OfPrimary(tokens, derives, span.from, span.to)
    [] span.level = "with" -> OfWith(tokens, derives, span.from, span.to)
    [] span.level = "and" -> OfAnd(tokens, derives, span.from, span.to)
    [] span.level = "or" -> OfOr(tokens, derives, span.from, span.to)

Grammar(tokens) ==
  LET derives[span \in Spans(tokens)] == Reads(tokens, derives, span) IN derives
Readings(tokens) == Grammar(tokens)[Span("or", 1, Len(tokens) + 1)]

Exceptions(tokens) == {tokens[i] : i \in {j \in 2 .. Len(tokens) : tokens[j - 1] = "WITH"}}

(* The parentheses of an entry match. Those of a lone entry need not.       *)
Nesting(token) == IF token = "(" THEN 1 ELSE IF token = ")" THEN -1 ELSE 0
Nests(tokens, depth) ==
  depth[0] = 0 /\ \A i \in 1 .. Len(tokens) : depth[i] = depth[i - 1] + Nesting(tokens[i])
Matched(entry) ==
  \E depth \in [0 .. Len(entry) -> 0 .. Len(entry)] : Nests(entry, depth) /\ depth[Len(entry)] = 0

(* The policy of sbom.rs:38-50, on the tokens and the derivations alone.    *)
FitFor(tokens, ships) ==
  \E reading \in Readings(tokens) :
    /\ ToSet(tokens) \cap (Unknown \cup ForbiddenAnywhere) = {}
    /\ Exceptions(tokens) \subseteq KnownExceptions
    /\ ships => /\ ToSet(tokens) \cap ForbiddenShipped = {}
                /\ \E way \in reading.ways : way \subseteq Allowed
Ships(package, hasGraph) ==
  IF package.ecosystem = "npm" THEN ~ package.dev
  ELSE hasGraph => (package.normal \/ package.build)
=============================================================================
