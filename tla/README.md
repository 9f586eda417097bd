# TLA+ models of pfp, the personal financial modeling application

The repository is a local-first tax planning application. A launcher (`crates/pfp-app`)
issues a TLS certificate, starts an HTTPS server on 127.0.0.1 (`crates/pfp-server`) and opens
the user's browser at a one-time link; the browser runs the application (`web/src`), which
computes through the server's API on an engine of pure crates (`pfp-money`, `pfp-tax`,
`pfp-params`, `pfp-explain`, `pfp-domain`). `xtask` is the developers' build tool.

This directory holds TLA+ specifications of that code, TLC configurations for small
instances, and proofs checked by TLAPS.

## 1. Inventory

| component | state it keeps | operations | interacts with | what makes it correct |
|---|---|---|---|---|
| Session manager (`session.rs`, `api/session.rs`) | one launch token, one session, the highest clock reading; all under one mutex | mint, bootstrap, check, check_proof, relaunch, note_interaction, check_idle | request threads, the idle ticker, the clock, hooks called after the unlock | tokens single use and short lived; re-opens throttled and paid for; idleness reported |
| Launcher (`launch.rs`, `leaf_store.rs`, `lock.rs`, `tls/store.rs`) | flock, three files, the user's trust settings | serve, trust remove | other launches, crashes, the platform | what is served is what is stored and survives; the trust it reports is real |
| Transport (`accept.rs`, `linger.rs`, `server.rs`, `limits.rs`) | permits, a set of tasks, per connection the early-response mark and drain budgets | accept loop, handshake, request, response, graceful close, shutdown | peers, hyper, the handlers | bounded tasks; a refusal is not a reset; everything timed ends |
| Admission and pipeline (`admission.rs`, `service.rs`) | a request in flight | receive, read the body, handle, answer; deadline, vanished client | transport, session manager, event log | the order of the rules; nothing happens that the answer does not say |
| API handlers, wire formats (`api/*`) | none | JSON in, report or file out | session manager, engine | every answer explained; no served year answers an internal error |
| Response policy (`headers.rs`, `csp.rs`, `assets.rs`, `redact.rs`) | the embedded bundle | accept a bundle at start, look up a file, headers of an answer | pipeline | the policy fits the bundle; the cookie leaves once |
| Event log (`events.rs`) | a ring of 512 events, the next number | record, snapshot | all threads | the newest events, in order, none missing |
| Listener binding (`bind.rs`, `origin.rs`) | none | bind with one fallback | launcher | loopback only; warn before opening |
| Browser session (`session/*`, `api/client.ts`, `App.tsx`, `main.tsx`) | sessionStorage proof per tab, the shared cookie jar, a reducer | handshake, probe, screen calls, re-open | server, other tabs | one tab per session; no proof given up or kept wrongly; the button works |
| Rate schedule screen (`screens/rate-schedule/*`) | a reducer, requests in flight | edit, calculate, retry, export | server | the file is of the result shown |
| Other screens, router, formatting | loaded data | load, retry, sort | server | no superseded answer |
| Money (`pfp-money`) | none (pure) | cents, ratios, rounding rules, `mul_ratio` | tax, parameters | rounds once, to the neighbour the rule says; never overflows silently |
| Tax (`pfp-tax`) | the loop of one worksheet | `from_parts`, `tax` | handlers, lines | the brackets hold the whole income; it always comes out |
| Explanation lines (`pfp-explain`) | a trace under construction | push, read back, trail | tax, export | every line after its inputs; nothing left out of the audit |
| Parameters (`pfp-params`) | a vintage | parse tables and series, lock, value in force, project | handlers, tax | what is accepted can be served; one rounding per projection |
| Domain types | none | bounds of a year, statuses | parameters, handlers | |
| Build and release tooling (`xtask`, `build.rs`, `web/scripts`) | files: report, bundle, stamp, one output directory per label | validation-report, build-web, dist, sbom | the developer who edits, cleans and kills | a checksum list names one release; no stale front end; the licence policy |
| Command line, hardening, data, docs | none at run time | | | |

The hard behaviours are these: the session manager releases its lock between steps that belong
together; the store is three files and a machine may lose power between any two system calls;
requests of several connections interleave at their awaits and at two locks; connections run
on several threads with timers and budgets; browser tabs share cookies, and answers overtake
each other, get lost or are cut short; screens issue requests whose answers come late; a release
is a dozen commands over directories that may be edited, cleaned or left half-removed; and the
arithmetic is exact only if nothing overflows, nothing is rounded twice and the loader lets
nothing through that the calculator cannot use. `PROJECT.json` lists each hazard at its line
with the properties aimed at it.

## 2. Modules

| module | models |
|---|---|
| `SessionPromise` | the abstract specification: tokens are issued, withdrawn, redeemed; one session at a time |
| `SessionManager` | `session.rs` with the handlers and the gate around it |
| `Launcher` | `launch.rs`, `leaf_store.rs`, `lock.rs` with crashes and power losses |
| `Connections` | `accept.rs`, `linger.rs` and the connection service of `server.rs` |
| `Admission` | `admission.rs`: the rules, in their order |
| `WebBundle` | `assets.rs`, `csp.rs`: which bundle is accepted and what is served from it |
| `EventLog` | `events.rs`: the ring and its numbers |
| `Requests` | `service.rs`, the routes of `api/` and `headers.rs`, over the three above and `SessionPromise` |
| `RateScreen` | the rate schedule reducer, its effects and requests in flight |
| `BrowserTabs` | tabs, jar and messages, composed with the server as `SessionPromise` |
| `Money` | `pfp-money`: cents, ratios, rounding, the wide intermediate |
| `Lines` | `pfp-explain`: line, trace, trail, identifiers |
| `ParameterTables`, `IndexSeries` | `pfp-params`: the loader, table by table and series by series |
| `Parameters` | `pfp-params/view.rs`: the vintage, its content id, values in force, projection |
| `RateWorksheet` | `pfp-tax`: the constructor and the loop over the brackets |
| `Calculation` | the calculating handlers over all of these |
| `Archive` | `xtask/archive.rs`: tar members, and reading them back |
| `Licences` | `xtask/sbom.rs`: SPDX expressions and the copyleft assertion |
| `Release` | `dist.rs`, `build_web.rs`, `build.rs`, `write-stamp.mjs` and the commands around them |
| `CalculationProofs` | proofs about `Money`, `RateWorksheet`, the loader and the handlers |
| other `*Proofs` | the proofs about the module of that name |
| `MC*` | instances for TLC |

Three composition lines hold them together. `SessionManager` implements `SessionPromise`
(checked and proved), and `SessionPromise` is what the server is to `Requests` and to
`BrowserTabs`. `Requests` EXTENDS `Admission`, `WebBundle` and `EventLog`. `Calculation`
EXTENDS `RateWorksheet` and `Parameters`, and its steps implement `RateWorksheet`'s
specification (`WorksheetSpec`), which is what the proof of the worksheet is about.

### SessionManager

A secret is a number: 256 random bits do not repeat, so the n-th token is token `n` and cookie
and proof of a session are its number. `launch` and `session` are the two `Option`s under the
mutex and `latest_now` is the clock mark. Each critical section is one action, and what runs
outside the lock is a separate step of a worker (`pc`): the gate's `check_proof`
(`GateRelaunch`), the charge (`RelaunchCharges`), the mint that pays for it (`RelaunchMints`,
or `RelaunchNoEntropy`), the hook after a replaced session. `bootstrap` is four actions, one
per way through it: no match, expired or without entropy, established, and the later hook.
`Tick` and `StepBack` are the clock. `minted`, `consumed`, `opened`, `charges` and `voided` (the
tokens outstanding when the clock was seen to step back) are history variables, written and never
read by the code's actions.

### Launcher

A generation is one call of `issue`: CA, leaf and key. A file holds the number of its
generation. `disk` is what a process reads, `durable` what a loss of power leaves: each write
is a rename after an fsync of the file, and only the directory sync makes the three names
durable, so `PowerLoss` may bring any of them back. `serve` and `trust remove` are program
counters whose steps are single system calls on the store; `Exit` is the end of either, and a
crash may come at each point. `Ages` and `Loosened` are a certificate nearing its end and a key
file somebody made readable. `excused` remembers the generations for which the code is entitled
to lose the certificate (a failed read, a removal, a save cut off before the sync).

### Connections

A slot is an entry of the accept loop's `JoinSet`. The loop's `select!` is biased, and tasks
run on other threads, so a poll of shutdown and the set (`PollSelect`) and the poll of the
listener (`Accept`, `RefuseAtCap`, `NothingToAccept`, `AcceptFails`) are separate steps. A
connection goes through handshake, head, serving, answering, shutting and draining. Bodies are
counted in units. `Answer` is where the pipeline's response exists and `EarlyResponse` is
marked. hyper is external: after a response with an unread body it reads once more and keeps
the connection, or gives the stream back with what it read ahead. Timers are actions. Off-loopback peers
are left out: the socket is bound to 127.0.0.1 and the code itself says the branch cannot
happen.

### Requests, with Admission, WebBundle and EventLog

A request is a record of what the rules read in its head, and of its body as far as a handler
tells bodies apart. A header is the sequence of the values it was sent with, so a header sent
twice is not one value. `Rules` are those of `admission.rs` in their order, and the first that
fails gives the code (`Refusal`). `Bind` is the start of the server: a bundle `FromFiles` refuses, or that the
policy does not fit (`PolicyFits`), is not served.

`service.rs` runs a request to its answer with three places where others may come between:
awaiting the body, taking the session lock anew for each step of a relaunch, and taking the
lock of the log for each event. So `Receive` is admission, gate and everything up to the first
of these; `Handle` is the next stage (`reading`, `charging`, `minting`, `opening`, then one
`Note` per event in `todo`, and the answer). `Deadline` and `PeerGone` end a request only
where the code can be cancelled: while it reads the body. The session manager is `SessionPromise`,
so a token may be found expired, and a relaunch throttled, whenever the code could find it so.
`noted` and `effects` are history.

Left out: the event of the idle timeout (the tick is there), the method and route of an event,
the echo on stderr, the constant headers. The instance's assumptions say what a client cannot
do: send a body without a length or a chunked coding in its head (`ShapesAssumption`).

### RateScreen

The fields of the form are one value. A calculation and an export are requests that stay in
flight as long as they like and are answered in any order, also after the screen was left.
`lastInputs`, `pending`, `phase` and `exportPhase` are the reducer's fields.

### BrowserTabs

The server side is the abstract `SessionPromise`; `SessionManagerProofs!Refinement` is what
entitles it to be. Set-Cookie takes effect when an answer's headers arrive, so two bootstraps
may set the jar in the other order. A page may be closed or reloaded with requests in
flight (`Orphaned` keeps what may still change the server or the jar), and another site on
127.0.0.1 may write the cookie (`OtherSite`: cookies ignore ports). The application may stop and
be launched again on the port it prefers while the tabs stay open (`Restart`): a new link is
issued and the live session is gone with its process.

### Calculation, with Money, Lines, Parameters and RateWorksheet

`Money` has the code's integers: `MaxInt` is i64::MAX, and the 128-bit intermediate is bounded
as it is there, so that every `checked_*` may fail where the code's may. A rounding rule is
[increment, direction, basis]. `RoundRational` divides with floor and decides by the remainder,
as `rounding.rs` does, and not by a formula for the result.

A parameter document is the TOML value the library yields: a function from keys to typed
values. `TableOk` and `SeriesOk` hold when the reader returns no error; their conjuncts follow
the checks of `raw.rs`, `provenance.rs`, `table.rs` and `series.rs`. Which of the errors is
reported is left out, for the caller gives up on each. `ParamTable` builds the table that
`Parameters` serves: `Published`, `ValueInForce`, `Project` with its base year, its index years
and its single rounding, `ContentId` and `VintageId` as `view.rs` computes them.

`RateWorksheet` is the loop of `BracketTable::tax`: `Begin`, one `Bracket` per round, `Total`,
and a `failed` state for each early return. `Lines` is the trace it pushes to. `Calculation`
binds a build (or refuses it), serves one request at a time - the handlers share nothing that
changes - and answers the worksheet, its export cell by cell, the catalogue of assumptions and
the report. It says what a wrong request or a defective table answers.

### Release, with Archive and Licences

Each command of a release is a step of `pc`, and the files they leave are the state: the
sources, the report, `web/dist` with its stamp, and `out`, one directory of files per label.
A file's content is what it was made from: a slice of the executable knows the Rust sources
and the bundle it embeds, a universal binary is its set of slices. `Stop` ends the command at any
point (an error, a kill, a missing target, an epoch that does not fit); `EditRust`, `EditWeb` and
`CleanOutput` are the developer. Emptying a directory is entry by entry (`RemoveDirAll`,
`Cleared`), so a killed one is half-empty. vite empties `web/dist` in the order of its names, the
stamp first (`ViteEmpties`, `ViteEmptied`). The container magic may be in a Rust source or in the
bundle an executable embeds, and `ContainsMagic` finds it in either; the documents beside the
executable are fixed texts without it. `Archive` is the tar format: a path is cut in two where
`split_name` cuts it, `Tarable` refuses what does not fit a field, so that nothing is truncated, and
`ReadTar` puts the parts together. `ReadBack` is the check that both archives hold the signed
executable; that their other members are as staged is checked by no code, and is in `ReleaseIsOne`.

Left out: two dist runs at once (no lock forbids them; the code is written for one developer),
sources or `web/dist` changing while the build script checks them and cargo reads them (one
instant here), the commit and
worktree fields of the manifest, how fresh the validation report is under `--skip-prepare`, the
inside of Mach-O files, the comparison of two outputs, disk images, and the CI workflow. The
order of members in a stream, padding and checksums are layout.

`Licences`, which `Release` EXTENDS, is the assertion of `sbom.rs`. Its parser calls itself, and is
one recursive function here: over the calls of the Parser's functions, a turn of a loop being a call too
(`Calls`, `Returns`). An `Expr` is what `judge` asks of the tree. What an expression means is a
second, independent definition: the derivations the grammar has for each span of tokens
(`Grammar`), each with the combinations of licences one may choose to comply with, and on these the
policy of `sbom.rs:38-50` (`FitFor`). The documents this code writes give a component one licence
entry (`sbom.rs:667-668`, `:722`); where one has several, each is taken to close the parentheses
it opens (`SbomsAssumption`), for `MIT ) OR ( Zlib` between the parentheses `licence_of` puts around
it would be read as something it is not.

## 3. What the runs check

| run | question | result |
|---|---|---|
| `sessions` | two workers, ticker, clock: single use, validity, throttle, payment, refinement | holds; 480,612 states |
| `idle` | idleness is reported under the ticker's fairness | holds; 29,463 states |
| `gate` | is a re-open charged to the session whose proof was shown? (`session.rs:393`) | violated |
| `launcher` | two processes, two generations, crashes, power losses: store, trust, survival, reports | holds; 239,513 states |
| `rate_screen` | results, exports and waiting under any order of answers | holds; 8,502 states |
| `rate_export` | is the file reported done the file of the result on screen? (`state.ts:54`) | violated |
| `tabs` | two tabs, one jar: proofs, shells and waiting | holds; 262,158 states |
| `tab_button` | is the button offered only where it can work? (`SessionNotice.tsx:8-9`) | violated |
| `connections` | the loop at its cap, uploads, timers, shutdown | holds; 31,841 states |
| `requests` | the pipeline: explained answers, told effects, own page only, the ring | holds; 759,031 states |
| `calculation` | what a build embeds is loaded or refused; worksheets add up, are audited, monotone; projections round once | holds; 33,047 states |
| `release` | checksum lists and what their archives read back as, stale front ends, licences, through kills and edits | holds; 298,736 states |

Each violated property quotes a document or comment of the repository. They are:

* **gate.** The gate checks the proof under one lock, `relaunch` charges the current session
  under another. A bootstrap between the two makes the new session pay.
* **rate_export.** `export-result` does not say which export it answers. Export, recalculate,
  export again: the first answer is shown as the second's.
* **tab_button.** Two calls are out when the session ends; the answer 409 of the one arrives
  after the 401 of the other and makes the session "displaced" again, with a button but without
  a proof.

What else was seen while modelling, with no run of its own:

* The 401 to a re-open does not go through the path that drops the proof (`api.ts:85-86` says
  every 401 does). One more 401 follows and nothing else.
* A declared length over the cap is refused with nothing read; the drain then reads two caps.
  An upload of more than that is cut, where `limits.rs:48-49` counts on three.
* `trust remove` removes the anchor of the certificate that is stored and readable; an anchor of
  an earlier generation stays (`launch.rs:331` against `README.md:189`). The platform of this
  version installs none, so the defect is at the seam.
* `write-stamp.mjs:66` reads the inputs when it writes the stamp. An edit of `web/` after vite has
  read them is vouched for by a stamp that never saw the bundle built from it, against
  `build_web.rs:15-16`. `FrontEndIsCurrent` names this as its one exception.
* `ContentId` covers, of two series with one document id, the one read last
  (`view.rs:136-170`); the other may change without a change of the id.
* The loader accepts edge names that are no identifiers (`id.rs:5-6`) and edges that are equal
  (`table.rs:448`); each request that reads them answers INTERNAL. `OnlyKnownDefects` says these
  are the only two ways to it.
* `dto.rs` describes a vintage as `name@sha256:...`; `view.rs:100` prints `name@<hex>`.
* The years "02026" and "2026" are two keys of a document and one year (`raw.rs:153` parses any run
  of digits). `ParameterTablesAssumption` leaves such a pair out of the documents.
* `csp.rs` accepts a reference to `/index.html`, which `assets.rs` answers with 404.
* The manifest's commit and worktree flag are read before the preparation
  (`dist.rs:455`), which may itself take the edit of a developer.
* A body that breaks off may be recorded as a 413 nobody sees.

### Bounds, and why they are enough

* `sessions`: two workers are enough for every interleaving of two critical sections; three
  tokens and two sessions allow a launch, a re-open and a token that replaces it; the clock's
  three readings, with `TTL` and `MinInterval` of 2, allow a token that outlives a tick, one that
  expires on the edge, a step back, and a re-open at each distance from the last. `FailCap = 0` in this run makes every failed bootstrap saturate; `idle` has
  a cap of 2.
* `launcher`: two processes (the lock has one holder), two generations (an old and a new one
  is all the store can mix), crashes at each step and power losses without bound.
* `rate_screen`: two inputs, two calculations, two exports and one re-entry: superseding needs
  two of each. `rate_export` needs no re-entry.
* `tabs`: two tabs, two tokens, three page loads (a tab, one that takes over, a reload), two
  messages at a time; `tab_button` has three messages and two loads. Sessions are told apart by
  number, and properties relate two tabs at most.
* `connections`: one permit and three slots give the cap, the unreaped task and the reuse of a
  slot; connections share nothing but permits and the loop. `BodyCap = 1`, `LingerMax = 2`
  keep the code's proportion, and bodies of up to five units exceed cap, unit, read-ahead and
  drain together.
* `requests`: two connections, three requests (one to open a session, two to race), two tokens,
  a ring of two so that it overflows in every run. The requests are a well-formed one of each
  kind and those that differ from it in one respect, so that each rule is the only one broken by
  some request; the builds likewise. The first request is a bootstrap: without a session all
  others meet refusals.
* `calculation`: two statuses, two edges, four archived years, years 2024 (before the first
  published row) to 2027 (two projections); incomes below, on and beside the edges, negative
  and above the cap. `MaxInt = 20000` keeps the wide intermediate within
  TLC's own integers; no income here reaches it, and what happens at the ends is asserted for the
  checked operations and proved for the worksheet (`Totality`). Fifteen builds that are accepted, and sixty and more with one
  fault each; the faults of form are asserted when the model is loaded, before any state.
* `release`: the two macOS architectures, one label for both, two contents of each source, of
  which one, of the front end, carries the container magic; every licence text of up to two tokens, those of three
  in which a rule of the grammar can begin, and longer ones for precedence.

Deadlock is not checked where the model stops at a bound, or the system really stops (a stopped
server, all pages closed, a build that is refused).

### Fairness

* `idle`: the ticker task runs until the server stops (`server.rs:297-303`).
* `rate_screen`: every request is answered by the server, whose deadline is 30 s, or by a fetch
  that fails.
* `tabs`: every message travels; nothing is assumed of users.
* `connections`: the runtime polls the loop, the armed timers fire, and the steps of the close
  that wait for nobody are taken. Nothing makes a peer send, read or close. Writing a response
  has no timer, and `PhasesEnd` leaves that phase out.

## 4. What is proved

All theorems hold for every value of the constants that meets the named assumptions.

**SessionManagerProofs**, from `LimitsAssumption` (every limit is a natural number).
`TypeOK` alone is inductive (`TypesKept`). The properties are not: single use needs to know that
the outstanding token is the last minted, newer than every opened one and never one that
was presented before (`TokensInv`); validity needs that `latest_now` bounds the times of mints and
openings, and that a token written off when the clock stepped back is outstanding no more (`TimesInv`); the
throttle needs that a session's charges are numbered below its counter and lie before its last
one (`BudgetInv`), and that needs sessions to be numbered as opened (`SessionInv`); payment
needs that a receipt in a worker's hands is charged and unspent (`PaidInv`). `IInv` is their
conjunction; the steps are first reduced to a few shapes (`StepShapes`, `BudgetShapes`,
`ReceiptShapes`) so that each part is proved over shapes, not over every action. From `IInv`:
`SingleUse`, `Validity`, `Throttle`, `Paid`, and `Refinement` to `SessionPromise`. `LossesHaveReasons`
is of steps: the outstanding token is lost only to its own presentation, to a newer token or to a
clock seen to step back.

**LauncherProofs**, from `LauncherAssumption`. `LockInv`: whoever is past the lock holds it.
`StageInv`: how far the store is between empty and whole for the holder's step. `SyncInv`: a
whole set on disk is durable, excused or being saved. `SurviveInv`: a served and fit generation
is the one on disk and nobody is about to replace it. `AgeInv`: nothing is newer than the
last issue. With these, `TrustModeIsTrue` is inductive, and `StoreHeld`, `Survival`,
`TrustIsTrue` and `Reports` follow.

**ConnectionsProofs**, from `LimitsAssumption`. The set is bounded only because the loop, when it
turns to the listener, has just seen at most `MaxConnections` entries (`LoopInv`), though tasks may
end meanwhile. What is read is bounded because a connection's budget and what it has taken
add up to less than the cap, the unit over it and the drain in every stage (`WithinLimits`).
`RefusalsComeThrough` is of steps: no close of the server's own cuts off an upload that fits the
drain's budget.

**RequestsProofs**, from `CapsAssumption`, `CapacityAssumption`, `ShapesAssumption` and
`NoneAssumption`. `LogInv` is the ring and its numbers. `JobsInv` says of a request in
flight what its stage entitles it to: while it reads, it is of the own page and has done
nothing; while it charges, mints or opens, it holds a proof of a session there was and has done
exactly the steps before; when it answers, its code's effects are those of `Outcome` and an event
that explains the status is recorded, or in the list of those it will record (`Explained`,
`Ahead`). A session that was live stays a number at most `live`, which keeps the
claim of one request true under the steps of all others. From `IInv`: `LogKeepsNewest`,
`EveryAnswerExplained`, `EveryEffectTold`, `OwnPageOnly`. The proofs say nothing of the builds:
they hold for any bundle.

**RateScreenProofs**, from `RateScreenAssumption`. A request in flight that is still awaited
carries the inputs that are pending (`CalcsInv`), an export in flight is of something that was
on screen (`ExportsInv`), and a ready screen shows the inputs it would export (`ScreenInv`).

**BrowserTabsProofs**. One tab per proof is not inductive: a reloaded tab may hold a handshake
and a proof, and two answers may carry one session. `IInv` adds that a page waits for one
handshake and has asked nothing else (`WaitsFor`, `OneHandshake`), that a session
leaves in one answer (`OneAnswer`), and that no tab knows its proof while it travels (`Untold`). The
steps of a message on its way are one lemma (`ReplacedKeeps`), those of a tab another.
`NothingIsGivenUp` is of steps: a page gives up its proof only when the server no longer honours it
or the answer to a reloaded page's probe broke off.

**CalculationProofs**. From `MoneyAssumption` (an integer type with a largest value of at least 2)
first the operators. `RoundsToANeighbour`: a rounding yields a multiple of the increment, less
than one increment away, within a half for the half rules, and on the right side for up and down,
for every sign and tie. `RoundingIsMonotone`. `WideNeverOverflows`: the comment of `mul_ratio` that
its intermediate cannot overflow, for every width. Sums over finite sets, element by element, and
the greatest common divisor (`GcdUnfolds`, `GcdDivides`), are proved by induction over the set of
numbers for which the claim holds: every non-empty set of naturals has a least element
(`WellFoundedInduction`), so that no operator has to be passed to a theorem.

Then `Totality`: the worksheet comes out for every accepted schedule, income and width, but for a
negative income, a bad name and an income within half a dollar of the largest integer. The
invariant is that the income covered after n brackets is that below the n-th edge, the sum of taxes
is no more than it (rates are at most one), and the trace has exactly the ids of those brackets, so
that no push can be refused.

Then all the invariants the `calculation` run checks, for any documents, any requests, any number of
brackets and any width. The assumptions, beyond `MoneyAssumption`:

* `CalculationAssumption`: the largest income a request may state is one the integers hold
  (2^53 - 1 of 2^63 - 1), the names the code itself gives its table and statuses are identifiers, and
  what is embedded is a TOML tree of the depth any reader looks into (`IsDocument`). A
  document may still lack, repeat or mistype anything.
* `LiteralsAssumption`: a decimal has digits and places that are natural numbers.
* `ParameterTablesAssumption`: a year is written in one way.
* `IndexSeriesAssumption`: powers of ten are positive, which is arithmetic the provers do not do.

The argument follows a document to the answer. `TableLoaded` and `SeriesLoaded` say what the loader
has made sure of when it returns no error, `ValueLoaded` and `RatesLoaded` what the view makes of
that in each of its branches (published, in force, derived, indexed, projected), and
`NotSchedulable` that `from_parts` then has nothing left to refuse but edges that do not increase. `CalcInv`
is inductive: what is served was loaded (`Served`); the schedule on the worksheet is the one in
force for the request being computed (`JobGood`); the worksheet is somewhere in its loop with
the lines of the brackets done and no others (`SheetInv`); an error it stopped at is one its
input explains (`Blamed`); and the answer, and the one before it, hold a complete worksheet of
the schedule that is still in force (`Answered`). The last is what `TaxIsMonotone` lacks: it speaks of two
answers and not of how they came about. `CalcInv` quantifies over sums and schedules without bound,
so TLC checks the properties that follow from it, not itself.

`Implements` is the refinement: each step of the server is a step of `WorksheetSpec` or leaves the
worksheet alone. `AddsUpInService`, `Audited`, `NeverTaxedLess` (each bracket rounded on its own is
monotone, and the bracket in which two incomes part is the only one that differs),
`DefectsAreKnown` and `WhatIsServedIsComplete` follow from `CalcInv`. `ProjectionRoundsOnce`
needs more: that a ratio of index values reduced by its greatest common divisor is the same number
(`FactorIsExact`), and that the product is rounded below it by less than an increment
(`StepDown`).

**ReleaseProofs**, from `ListsAssumption` and `SbomsAssumption` for the licences (below), and for the rest
from `ReleaseAssumption` (the targets of a run are some, and none twice: the command
line sorts and deduplicates them, and takes the host's without any, `dist.rs:150-151`, `:431`) and
`LimitsAssumption`. `ReleaseIsOne` speaks of a file on disk after any number of killed runs; what
makes it inductive is what the run at work knows at each step. `StampInv`: a stamp is of the sources the
bundle was made of, or `web/` was edited meanwhile, and there is none before it is written. `SlicesInv`:
slices and targets still to build are together no more than the targets, and each slice embeds
the bundle listed. With the check that no target lacks its slice, that leaves exactly one for each
(`EmbeddedWhole`, by counting: a map of a finite set onto one as large), which is `ExeInv`. `FilesInv`: the
directory is empty while slices are built, has no list of checksums until the end, and holds at
each step the executable that was signed and scanned, and the manifest of it. `PackedInv`: what is staged and packed is the signed executable
and its documents. That the listed archives read back as those trees (`PackedReadsBack`) rests on
`RoundTrip`: for every tree the writer accepts, every width of the two header fields and every
path, the parts of a cut path are the path (`CutInside`, `TwoParts`). From `IInv`: `TypeCorrect`,
`ReleasedTogether` and `FrontEndServed`.

`LicencesChecked` is `LicencesHold` for any lists, packages, texts and graph. Beside
`SbomsAssumption` it needs that no list holds a word of the grammar and that no exception is also the
name of a barred licence (`ListsAssumption`). Its heart is `JudgeIsPolicy`, for any text: `judge`
fails it exactly when the policy on the grammar's derivations does not admit it. That takes three steps.
The parser and the grammar are the functions their recursive definitions say (`ParserIs`,
`GrammarIs`, from one lemma on recursion over a measure, `Recursion`): a call reads tokens further
on or goes down a level. `Soundness`: what the parser returns has a derivation, and agrees with it.
`Completeness`: whatever has a derivation is what the parser finds, and no other reading disagrees
with it (`ReadIsParsed`), though the loops take the longest run of operands and the grammar splits a span
anywhere. Then joining: a text whose entries are put in parentheses and joined with AND has the
readings of its entries, taken together (`JoinedIs`, `JoinedFit`), because a derivation does not depend
on where in a text its span is (`Moves`) and closes the parentheses it opens (`Level`), so that no split
can fall inside an entry. All of it is induction by `LeastElement`, on the set of numbers for which
a claim fails, as in `CalculationProofs`.

Only model-checked: liveness (`IdleIsReported`, `CalculationEnds`, `ExportEnds`, `RequestingEnds`,
`PhasesEnd`, `ShutdownEnds`), which is out of the prover's reach, with `ENABLED`. Every safety
invariant and action property of the passing runs is a theorem.

The type invariants of `Connections`, `RateScreen`, `BrowserTabs` and `Requests` are stated in the
modules for the reader; the `sessions` run checks its own, and proofs carry what they need of the others.

## 5. Not modelled

* Other screens, router and formatting: views of data loaded once. `useLoadable` drops a
  superseded answer by one flag per attempt, set where the attempt is replaced.
* Command line, process hardening, binding to a port: decided once, before anything runs, and
  kept nowhere. Of binding, the origin it yields is in `Admission`.
* Rendering, wording, wire layout, OpenAPI text, constant headers, redaction of debug output,
  certificate contents: no state and no history.
* Of xtask: the gates that scan texts (hygiene, dollars, lint-server, protected paths, the
  catalogue), the content of the validation report and of the manifest's descriptive fields. Each
  is a function of files that nothing changes meanwhile.
* Parameter data, fixtures, packaging and documents.
* Branches no state of the program reaches: the export that fails after its worksheet came out
  (`tax.rs:131-135`, `:141-142`), and a path of a release that is not ASCII (`archive.rs:160-162`; every
  staged name is a constant of `dist.rs`).
* Digits: of a decimal's integer part `series.rs:331` bounds the characters, leading zeros
  among them, and the model counts the digits of the number.
* Six hazards have no property, each with its reason in `PROJECT.json`. Three the code settles
  otherwise than a property would ask: a store that cannot be read is replaced (`launch.rs:75`, and
  `ServedSurvives` excuses it), a probe refused or cut short gives the proof up (`handshake.ts:91`, and
  `ProofGivenUpIsDead` excuses it), and `trust remove` knows one anchor (`launch.rs:331`). Three have
  nothing to state: the order of two session hooks (`session.rs:355`), a 401 outside the common path
  (`client.ts:126`), and a peer that stops reading (`accept.rs:88`).

## 6. What is left

1. The event of the idle timeout in `Requests`, and `SessionManager` itself under it in the place
   of its promise, for budgets and times; then the refinement between the two, proved.
2. The shared loads of the web client as a module, if they come to share more than one flag.
