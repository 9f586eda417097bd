----------------------------- MODULE MCRequests -----------------------------
(***************************************************************************)
(* An instance of Requests for TLC: two connections, a ring of two events, *)
(* and requests that are well formed or differ from a well-formed one in   *)
(* one respect, so that every rule is the only one broken by some request. *)
(***************************************************************************)
EXTENDS Requests

Post(path) ==
  [path |-> path, method |-> "POST", authority |-> None, host |-> <<OwnHost>>,
   origin |-> <<OwnOrigin>>, site |-> <<"same-origin">>, mode |-> <<>>, dest |-> <<>>,
   type |-> <<>>, length |-> <<>>, chunked |-> FALSE, head |-> 1,
   body |-> "none", size |-> 0, proof |-> <<"live">>, cookies |-> <<"live">>,
   token |-> "none", tags |-> {}]

\* Requests with a body: bootstrap and the worksheet
Redeeming ==
  [Post(Bootstrap) EXCEPT !.type = <<"application/json">>, !.length = <<1>>,
     !.body = "valid", !.size = 1, !.proof = <<>>, !.cookies = <<>>, !.token = "newest"]
Computing ==
  [Post(RateSchedule) EXCEPT !.type = <<"Application/JSON; charset=utf-8">>,
     !.chunked = TRUE, !.body = "valid", !.size = 2]

\* A page load and the files it asks for
Get(path) ==
  [Post(path) EXCEPT !.method = "GET", !.origin = <<>>, !.proof = <<>>, !.cookies = <<>>]
Navigation ==
  [Get(<<>>) EXCEPT !.site = <<"none">>, !.mode = <<"navigate">>, !.dest = <<"document">>]
Script == <<"assets", "index-xx.js">>

MCShapes ==
  { Redeeming,
    [Redeeming EXCEPT !.token = "old"],
    [Redeeming EXCEPT !.length = <<>>, !.type = <<>>, !.body = "none", !.size = 0],
    [Redeeming EXCEPT !.host = <<OwnHost, OwnHost>>],
    [Redeeming EXCEPT !.authority = "elsewhere"],
    [Redeeming EXCEPT !.origin = <<OwnOrigin, "foreign">>],
    [Redeeming EXCEPT !.site = <<>>],
    [Redeeming EXCEPT !.type = <<"text/plain">>],
    [Redeeming EXCEPT !.length = <<Unreadable>>],
    [Redeeming EXCEPT !.head = 2],
    Computing,
    [Computing EXCEPT !.size = 3],
    [Computing EXCEPT !.path = RateScheduleExport, !.body = "misshapen"],
    Post(SessionStatus),
    [Post(SessionStatus) EXCEPT !.proof = <<"old">>],
    [Post(SessionStatus) EXCEPT !.proof = <<"live", "live">>],
    [Post(SessionStatus) EXCEPT !.cookies = <<"live", "old">>],
    [Post(SessionStatus) EXCEPT !.origin = <<>>, !.method = "GET"],
    [Post(Assumptions) EXCEPT !.method = "PUT"],
    [Post(Relaunch) EXCEPT !.cookies = <<>>],
    Post(<<"api", "v1", "runs">>),
    Navigation,
    [Navigation EXCEPT !.mode = <<"cors">>],
    Get(Script),
    [Get(Script) EXCEPT !.tags = {"script"}],
    [Get(Script) EXCEPT !.method = "POST", !.origin = <<OwnOrigin>>],
    Get(<<"assets", "gone-xx.js">>) }

\* Without a session every request but the bootstrap only meets refusals
MCFirstShapes == {Redeeming}

-----------------------------------------------------------------------------
MCNameOf ==
  [name \in {"index.html", "index-xx.js", "font.woff2", ".stamp", "x.exe"} |->
     CASE name = "index.html" -> [stem |-> <<"x">>, ext |-> "html", hidden |-> FALSE]
       [] name = "index-xx.js" -> [stem |-> <<"x", "-", "x", "-">>, ext |-> "js", hidden |-> FALSE]
       [] name = "font.woff2" -> [stem |-> <<"x", "x", "x", "x">>, ext |-> "woff2", hidden |-> FALSE]
       [] name = ".stamp" -> [stem |-> <<>>, ext |-> "stamp", hidden |-> TRUE]
       [] name = "x.exe" -> [stem |-> <<"x">>, ext |-> "exe", hidden |-> FALSE]]

Text(id) == [id |-> id, utf8 |-> TRUE, tags |-> <<>>, urls |-> {}]
MCPlaceholder == Text("placeholder")

Tag(name) ==
  [name |-> name, src |-> <<>>, href |-> <<>>, style |-> FALSE, handler |-> FALSE,
   httpEquiv |-> FALSE]
ScriptTag == [Tag("script") EXCEPT !.src = <<[rooted |-> TRUE, path |-> Script]>>]
Document(tags) == [Text("shell") EXCEPT !.tags = tags]

Bundle(tags) ==
  << [path |-> <<".stamp">>, content |-> Text("stamp")],
     [path |-> Script, content |-> [Text("script") EXCEPT !.urls = {"http://www.w3.org/svg"}]],
     [path |-> Index, content |-> Document(tags)] >>

Build(dist, opener) == [dist |-> dist, opener |-> opener]

\* The shipped bundle, none, and bundles the server must not start with
MCBuilds ==
  {Build(Bundle(<<Tag("html"), ScriptTag>>), TRUE), Build(Absent, FALSE)} \cup
  {Build(dist, TRUE) : dist \in
    { SubSeq(Bundle(<<>>), 1, 2),
      Append(Bundle(<<>>), [path |-> <<"x.exe">>, content |-> Text("x")]),
      Append(Bundle(<<>>), [path |-> <<"assets", "x.exe">>, content |-> Text("x")]),
      Append(Bundle(<<>>), [path |-> Script, content |-> Text("again")]),
      Append(Bundle(<<>>), [path |-> <<"assets", "font.woff2">>,
                            content |-> [Text("font") EXCEPT !.utf8 = FALSE]]),
      Bundle(<<Tag("script")>>),
      Bundle(<<[Tag("p") EXCEPT !.handler = TRUE]>>),
      Bundle(<<[Tag("a") EXCEPT !.href = <<[rooted |-> TRUE, path |-> <<"gone">>]>>]>>) }}
=============================================================================
