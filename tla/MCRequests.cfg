\* Two requests in flight, three in all
SPECIFICATION Spec
CONSTANTS
  Conn = {c1, c2}
  None = None
  Absent = Absent
  Port = 8443
  JsonTypes = {"application/json", "Application/JSON; charset=utf-8"}
  InertUrls = {"http://www.w3.org/svg"}
  MaxBody = 2
  MaxHeader = 1
  HashLen = 2
  Capacity = 2
  MaxRequests = 3
  MaxToken = 2
  Shapes <- MCShapes
  FirstShapes <- MCFirstShapes
  Builds <- MCBuilds
  NameOf <- MCNameOf
  Placeholder <- MCPlaceholder
INVARIANTS
  RingHoldsNewest
  AnswersAreExplained
  AnswersTellTheEffect
  OnlyOwnPageActs
CHECK_DEADLOCK FALSE
