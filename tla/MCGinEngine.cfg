\* The set-up may fail.
CONSTANTS
  r1 = r1
  r2 = r2
  c1 = c1
  c2 = c2
  h = h
  Requests = {r1, r2}
  Contexts = {c1, c2}
  Methods = {"GET", "POST"}
  method <- MCMethod
  asked <- MCAsked
  Paths <- MCPaths
  Wild = {":p", ":q"}
  Handlers = {h}
  HandlerLists <- MCHandlerLists
  AddRoute <- TreeAddRoute
  Routes <- TreeRoutes
  Fields = {"Errors"}
  MaxInt8 = 7
  Redirects = TRUE
  HandlerMethodNotAllowed = TRUE
  None = None
  NoHandlers = NoHandlers
  Conflict = Conflict
  MethodLists <- MCMethodLists
  MaxSetUp = 4
  Deployed <- MCDeployed
  MaxCalls <- MCMaxCalls
SYMMETRY MCSymmetry
SPECIFICATION Spec
INVARIANTS
  TypeOK
  Isolated
  SetUpKept
PROPERTY ChainOrder
CHECK_DEADLOCK FALSE
