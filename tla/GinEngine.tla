----------------------------- MODULE GinEngine -----------------------------
(***************************************************************************)
(* gin/gin.go, context.go and routergroup.go: an engine is set up with     *)
(* middleware and routes and then serves requests concurrently, each on a  *)
(* context from a pool.  The tree of a method's routes is a value that     *)
(* AddRoute makes and Routes lists: GinRoutes gives both their meaning.    *)
(*                                                                         *)
(* A request is a stack of frames: the functions that are active in its    *)
(* goroutine and have something left to do.  What a handler does is its    *)
(* user's choice, so that any handler may make any call of Context.  A     *)
(* handler, and the data a request leaves in a context, stand for a name   *)
(* and for the request itself.                                             *)
(***************************************************************************)
EXTENDS Integers, Sequences, SequencesExt, FiniteSets

CONSTANTS
  Requests, Contexts,
  Methods, Paths,
  method, asked,   \* of each request, its method and the paths it may ask for
  Handlers,
  HandlerLists,    \* what is given to a call that sets the engine up
  Fields,          \* of a context, those that hold data of the request
  MaxInt8,         \* 127 in the code
  Redirects,       \* RedirectTrailingSlash or RedirectFixedPath of the engine
  HandlerMethodNotAllowed,
  None, NoHandlers, Conflict,
  AddRoute(_, _, _),  \* a tree with one more path and its chain, or Conflict
  Routes(_),          \* the routes of a tree, in the order of Engine.Routes
  MethodLists,     \* what GET, Any and the like register for
  MaxSetUp,        \* a bound on the calls that set the engine up,
  Deployed,        \*   on the set-ups that are served,
  MaxCalls         \*   and on the calls of HandleContext and of the static
                   \*   handler's failure, for each request

ASSUME GinAssumption ==
  /\ MaxInt8 \in Nat /\ MaxInt8 > 1
  /\ MaxSetUp \in Nat /\ MaxCalls \in [Requests -> Nat]
  /\ HandlerLists \subseteq Seq(Handlers)
  /\ Fields \subseteq {"Params", "Keys", "Errors", "Accepted", "queryCache", "formCache", "sameSite"}
  /\ method \in [Requests -> Methods] /\ asked \in [Requests -> SUBSET Paths]
  /\ Redirects \in BOOLEAN /\ HandlerMethodNotAllowed \in BOOLEAN

VARIABLES
  phase,       \* "setup", "serving", or "panic" when the set-up failed
  groups,      \* RouterGroup.Handlers of the engine and of a group it made
  noRoute, noMethod, allNoRoute, allNoMethod,
  trees,       \* the root of each method's tree, or None
  calls,       \* how many calls have set it up
  registered,  \* history: the routes added, with the chain each was promised
  pool,        \* the contexts in Engine.pool
  ctx,         \* [Live -> contexts]: those that are allocated
  req          \* [Serving -> requests]: what each request's goroutine is doing

setup == <<groups, noRoute, noMethod, allNoRoute, allNoMethod, trees, calls, registered>>
vars == <<phase, setup, pool, ctx, req>>

\* Mutant: Abort leaves no room above its index.
AbortIndexHigh == MaxInt8

abortIndex == MaxInt8 \div 2
\* index++ on an int8
Inc(i) == IF i = MaxInt8 THEN - MaxInt8 - 1 ELSE i + 1

\* ------------------------------------------------------ setting up
Init ==
  /\ phase = "setup"
  /\ groups = [engine |-> <<>>, sub |-> None]
  /\ noRoute = <<>> /\ noMethod = <<>>
  /\ allNoRoute = <<>> /\ allNoMethod = <<>>
  /\ trees = [m \in Methods |-> None]
  /\ calls = 0
  /\ registered = <<>>
  /\ pool = {}
  /\ ctx = <<>>
  /\ req = <<>>

TooMany(chain) == Len(chain) >= abortIndex

combineHandlers(g, handlers) == groups[g] \o handlers

\* A set-up call keeps what it does not name, and the requests; or it fails.
Fail ==
  /\ phase' = "panic"
  /\ UNCHANGED <<groups, noRoute, noMethod, allNoRoute, allNoMethod, trees, registered>>

\* Engine.Use: the two chains for requests without a route are built again.
Use(handlers) ==
  /\ LET new == combineHandlers("engine", handlers)
     IN IF TooMany(new \o noRoute) \/ TooMany(new \o noMethod)
        THEN Fail
        ELSE /\ groups' = [groups EXCEPT !["engine"] = new]
             /\ allNoRoute' = new \o noRoute
             /\ allNoMethod' = new \o noMethod
             /\ UNCHANGED <<phase, noRoute, noMethod, trees, registered>>

GroupUse(handlers) ==
  /\ groups["sub"] # None
  /\ groups' = [groups EXCEPT !["sub"] = @ \o handlers]
  /\ UNCHANGED <<phase, noRoute, noMethod, allNoRoute, allNoMethod, trees, registered>>

\* The chain of a new group is a copy.
Group(handlers) ==
  /\ groups["sub"] = None
  /\ LET chain == combineHandlers("engine", handlers)
     IN IF TooMany(chain) THEN Fail
        ELSE /\ groups' = [groups EXCEPT !["sub"] = chain]
             /\ UNCHANGED <<phase, noRoute, noMethod, allNoRoute, allNoMethod, trees, registered>>

NoRoute(handlers) ==
  LET chain == combineHandlers("engine", handlers)
  IN IF TooMany(chain) THEN Fail
     ELSE /\ noRoute' = handlers /\ allNoRoute' = chain
          /\ UNCHANGED <<phase, groups, noMethod, allNoMethod, trees, registered>>

NoMethod(handlers) ==
  LET chain == combineHandlers("engine", handlers)
  IN IF TooMany(chain) THEN Fail
     ELSE /\ noMethod' = handlers /\ allNoMethod' = chain
          /\ UNCHANGED <<phase, groups, noRoute, allNoRoute, trees, registered>>

\* handle, for the methods ms in their order: one for GET and the like, two for
\* a static file, all for Any and Match.
Handle(g, ms, path, handlers) ==
  /\ groups[g] # None
  /\ LET chain == combineHandlers(g, handlers)
         Add(s, m) == IF s.failed # None THEN s
                      ELSE LET tree == AddRoute(s.trees[m], path, chain)
                           IN IF tree = Conflict THEN [s EXCEPT !.failed = tree]
                              ELSE [s EXCEPT !.trees[m] = tree]
         r == FoldLeft(Add, [trees |-> trees, failed |-> None], ms)
     IN IF TooMany(chain) \/ chain = <<>> \/ r.failed # None THEN Fail
        ELSE /\ trees' = r.trees
             /\ registered' = Append(registered, [methods |-> ms, path |-> path, chain |-> chain])
             /\ UNCHANGED <<phase, groups, noRoute, noMethod, allNoRoute, allNoMethod>>

\* Run and its variants, for the set-ups the bound names.
Run ==
  /\ phase = "setup"
  /\ [groups |-> groups, noRoute |-> noRoute, noMethod |-> noMethod,
      registered |-> registered] \in Deployed
  /\ phase' = "serving"
  /\ calls' = MaxSetUp
  /\ UNCHANGED <<groups, noRoute, noMethod, allNoRoute, allNoMethod, trees, registered, pool, ctx, req>>

SetUp ==
  /\ phase = "setup" /\ calls < MaxSetUp
  /\ calls' = calls + 1
  /\ \E handlers \in HandlerLists :
       \/ Use(handlers) \/ GroupUse(handlers)
       \/ Group(handlers) \/ NoRoute(handlers) \/ NoMethod(handlers)
       \/ \E g \in {"engine", "sub"}, ms \in MethodLists, path \in Paths : Handle(g, ms, path, handlers)
  /\ UNCHANGED <<pool, ctx, req>>

\* ------------------------------------------------------ a request
\* The chain a tree has for a path, NoHandlers if none (getValue).
Lookup(tree, path) ==
  LET found == {route \in ToSet(Routes(tree)) : route.path = path}
  IN IF found = {} THEN NoHandlers ELSE (CHOOSE route \in found : TRUE).handlers

\* Mutant: what the last request stored stays.
ResetHandlers(c) == [c EXCEPT !.handlers = <<>>, !.index = -1]

\* A context as reset leaves it.
Reset(c) ==
  [c EXCEPT !.handlers = <<>>, !.index = -1, !.data = [f \in Fields |-> {}]]

\* What a request remembers for the properties: the last handler started of the
\* present chain, whether it was aborted, and whether HandleContext has left its
\* chain to the loops of another one.  missed says that a static folder did not
\* find a file.
Fresh == [last |-> -1, aborted |-> FALSE, mixed |-> FALSE]

Advance(c) == [c EXCEPT !.index = Inc(@)]

\* redirectTrailingSlash and redirectFixedPath answer with another address.
Redirected(c) == [c EXCEPT !.written = TRUE]

\* handleHTTPRequest up to its call of Next: the context and the frames to push.
\* tsr says that the tree recommends another path when it finds nothing.
handleHTTPRequest(c, m, path, tsr) ==
  LET own == Lookup(trees[m], path)
      others == {other \in Methods \ {m} : Lookup(trees[other], path) # NoHandlers}
      Error(chain) ==
        [c |-> Advance([c EXCEPT !.handlers = chain]),
         frames |-> <<[kind |-> "serveError"], [kind |-> "Next"]>>]
  IN IF own # NoHandlers
     THEN [c |-> Advance([c EXCEPT !.handlers = own]),
           frames |-> <<[kind |-> "serve"], [kind |-> "Next"]>>]
     ELSE IF trees[m] # None /\ m # "CONNECT" /\ path # <<"/">> /\ tsr /\ Redirects
     THEN [c |-> Redirected(c), frames |-> <<>>]
     ELSE IF HandlerMethodNotAllowed /\ others # {} THEN Error(allNoMethod)
     ELSE Error(allNoRoute)

Serving == DOMAIN req
Live == DOMAIN ctx

\* A frame that has only a kind.
Frame(kind) == [kind |-> kind]
Top(r) == Last(req[r].stack)
Active(r, kind) == phase = "serving" /\ r \in Serving /\ req[r].stack # <<>> /\ Top(r).kind = kind
Ctx(r) == ctx[req[r].c]

NewContext == [handlers |-> <<>>, index |-> -1, data |-> [f \in Fields |-> {}],
               written |-> FALSE]

\* Get takes a context from the pool or, when it finds none, a new one.
ServeHTTP(r, c, path, tsr) ==
  /\ phase = "serving" /\ r \notin Serving
  /\ c \in pool \/ c \notin Live
  /\ LET clean == Reset(IF c \in pool THEN [ctx[c] EXCEPT !.written = FALSE]
                        ELSE NewContext)
         go == handleHTTPRequest(clean, method[r], path, tsr)
         q == [c |-> c, stack |-> go.frames, calls |-> 0, run |-> Fresh, missed |-> FALSE]
     IN /\ ctx' = [d \in Live \cup {c} |-> IF d = c THEN go.c ELSE ctx[d]]
        /\ req' = [s \in Serving \cup {r} |-> IF s = r THEN q ELSE req[s]]
  /\ pool' = pool \ {c}
  /\ UNCHANGED <<phase, setup>>

\* One step of r that leaves its context as c and its goroutine as q.
Step(r, c, q) ==
  /\ ctx' = [ctx EXCEPT ![req[r].c] = c]
  /\ req' = [req EXCEPT ![r] = q]
  /\ UNCHANGED <<phase, setup, pool>>

\* r loses its context to the collector: the panic unwound past ServeHTTP.
Lost(r) ==
  /\ ctx' = Restrict(ctx, Live \ {req[r].c})
  /\ req' = Restrict(req, Serving \ {r})
  /\ UNCHANGED <<phase, setup, pool>>

\* The loop of Next: the handler at index starts, or the loop ends.
NextLoop(r) ==
  /\ Active(r, "Next")
  /\ LET c == Ctx(r)
     IN IF c.index >= Len(c.handlers)
        THEN Step(r, c, [req[r] EXCEPT !.stack = Front(@)])
        ELSE IF c.index < 0 THEN Lost(r)
        ELSE Step(r, c, [req[r] EXCEPT !.stack = Append(@, [kind |-> "handler", nexted |-> FALSE]),
                                       !.run.last = IF req[r].run.mixed THEN -1 ELSE c.index])

\* Mutant: only Next increments, not its loop.
ReturnStays(r) ==
  /\ Active(r, "handler")
  /\ Step(r, Ctx(r), [req[r] EXCEPT !.stack = Front(@)])

\* The handler returns into the loop that called it.
Return(r) ==
  /\ Active(r, "handler")
  /\ Step(r, Advance(Ctx(r)), [req[r] EXCEPT !.stack = Front(@)])

\* A handler calls Next, once: MaxInt8 leaves room for no more.
CallNext(r) ==
  /\ Active(r, "handler") /\ ~ Top(r).nexted
  /\ Step(r, Advance(Ctx(r)),
          [req[r] EXCEPT !.stack = Append(Front(@) \o <<[Top(r) EXCEPT !.nexted = TRUE]>>, Frame("Next"))])

Aborted(r) == [req[r] EXCEPT !.run.aborted = ~ req[r].run.mixed]

Abort(r) ==
  /\ Active(r, "handler")
  /\ Step(r, [Ctx(r) EXCEPT !.index = abortIndex], Aborted(r))

Added(c, f, r) == IF f \in Fields THEN [c EXCEPT !.data[f] = @ \cup {r}] ELSE c
AddError(c, r) == Added(c, "Errors", r)

AbortWithStatus(r) ==
  /\ Active(r, "handler")
  /\ Step(r, [Ctx(r) EXCEPT !.written = TRUE, !.index = abortIndex], Aborted(r))

Failing(c, r) == AddError([c EXCEPT !.written = TRUE, !.index = abortIndex], r)

AbortWithError(r) ==
  /\ Active(r, "handler")
  /\ Step(r, Failing(Ctx(r), r), Aborted(r))

\* Bind and its variants change the context when the conversion fails.
Bind(r) == AbortWithError(r)

\* Render, which JSON and the like call: the body is written, or the chain ends
\* with an error and the header not yet sent.
Render(r, ok) ==
  /\ Active(r, "handler")
  /\ IF ok THEN Step(r, [Ctx(r) EXCEPT !.written = TRUE], req[r])
     ELSE Step(r, AddError([Ctx(r) EXCEPT !.index = abortIndex], r), Aborted(r))

\* Set, Error, AddParam and SetSameSite.
Set(r, f) ==
  /\ Active(r, "handler")
  /\ Step(r, Added(Ctx(r), f, r), req[r])

\* The query, the form and Accept are read once and kept.
Cached(c, f, r) == IF f \in Fields /\ c.data[f] = {} THEN [c EXCEPT !.data[f] = {r}] ELSE c
InitCache(r, f) ==
  /\ Active(r, "handler")
  /\ Step(r, Cached(Ctx(r), f, r), req[r])

\* Negotiate fails when none of the formats is accepted; otherwise it renders.
Negotiate(r) ==
  /\ Active(r, "handler")
  /\ Step(r, Failing(Cached(Ctx(r), "Accepted", r), r), Aborted(r))

\* The request is served again on the same context, of which the index is kept.
HandleContext(r, path, tsr) ==
  /\ Active(r, "handler") /\ req[r].calls < MaxCalls[r]
  /\ LET go == handleHTTPRequest(Reset(Ctx(r)), method[r], path, tsr)
         saved == [kind |-> "HandleContext", index |-> Ctx(r).index]
     IN Step(r, go.c, [req[r] EXCEPT !.stack = @ \o <<saved>> \o go.frames,
                                     !.calls = @ + 1, !.run = Fresh])

HandleContextEnd(r) ==
  /\ Active(r, "HandleContext")
  /\ Step(r, [Ctx(r) EXCEPT !.index = Top(r).index],
          [req[r] EXCEPT !.stack = Front(@), !.run = [Fresh EXCEPT !.mixed = TRUE]])

\* The handler of a static folder, the last of its chain, does not find the
\* file: the handlers for requests without a route, and not the engine's, run
\* from the start in the loop it returns to.
StaticMissing(r) ==
  /\ Active(r, "handler") /\ ~ Top(r).nexted /\ req[r].calls < MaxCalls[r]
  /\ \E a \in ToSet(registered) : Ctx(r).handlers = a.chain
  /\ Ctx(r).index = Len(Ctx(r).handlers) - 1
  /\ Step(r, [Ctx(r) EXCEPT !.handlers = noRoute, !.index = 0],
          [req[r] EXCEPT !.stack = Front(@), !.calls = @ + 1,
                         !.run = Fresh, !.missed = TRUE])

\* What handleHTTPRequest and serveError do after Next: whatever the handlers
\* left undone, the header is written.
ServeEnd(r) ==
  /\ Active(r, "serve") \/ Active(r, "serveError")
  /\ Step(r, [Ctx(r) EXCEPT !.written = TRUE], [req[r] EXCEPT !.stack = Front(@)])

\* ServeHTTP returns and puts the context back.  Its index and handlers, which
\* reset assigns before anything reads them, are forgotten to save states.
ServeHTTPEnd(r) ==
  /\ phase = "serving" /\ r \in Serving /\ req[r].stack = <<>>
  /\ pool' = pool \cup {req[r].c}
  /\ req' = Restrict(req, Serving \ {r})
  /\ ctx' = [ctx EXCEPT ![req[r].c].handlers = <<>>, ![req[r].c].index = -1]
  /\ UNCHANGED <<phase, setup>>

\* A handler panics, and the server recovers outside ServeHTTP.
Panic(r) == Active(r, "handler") /\ Lost(r)

\* A collection empties the pool.
Collect ==
  /\ pool # {}
  /\ ctx' = Restrict(ctx, Live \ pool)
  /\ pool' = {}
  /\ UNCHANGED <<phase, setup, req>>

Serve(r) ==
  \/ \E c \in Contexts, path \in asked[r], tsr \in BOOLEAN : ServeHTTP(r, c, path, tsr)
  \/ NextLoop(r) \/ Return(r) \/ CallNext(r)
  \/ Abort(r) \/ AbortWithStatus(r) \/ AbortWithError(r) \/ Bind(r) \/ Negotiate(r)
  \/ \E ok \in BOOLEAN : Render(r, ok)
  \/ \E f \in {"Params", "Keys", "Errors", "sameSite"} : Set(r, f)
  \/ \E f \in {"Accepted", "queryCache", "formCache"} : InitCache(r, f)
  \/ \E path \in asked[r], tsr \in BOOLEAN : HandleContext(r, path, tsr)
  \/ HandleContextEnd(r) \/ StaticMissing(r)
  \/ ServeEnd(r) \/ ServeHTTPEnd(r) \/ Panic(r)

Next == SetUp \/ Run \/ Collect \/ \E r \in Requests : Serve(r)

Spec == Init /\ [][Next]_vars

\* ------------------------------------------------------ what must hold
Chain == Seq(Handlers)

\* The index, an int8, does not wrap: Abort leaves room above the longest chain
\* for one increment per handler that returns and one per call of Next.  The
\* exception is a request for which a static folder did not find a file, as the
\* handlers for requests without a route start on top of those of its own chain.
IndexFits == \A r \in Serving : ~ req[r].missed => Ctx(r).index >= -1

TypeOK ==
  /\ phase \in {"setup", "serving", "panic"} /\ calls \in 0..MaxSetUp
  /\ groups["engine"] \in Chain /\ (groups["sub"] = None \/ groups["sub"] \in Chain)
  /\ {noRoute, noMethod, allNoRoute, allNoMethod} \subseteq Chain
  /\ pool \subseteq Live /\ Live \subseteq Contexts /\ Serving \subseteq Requests
  /\ \A c \in Live :
       /\ ctx[c].handlers \in Chain /\ ~ TooMany(ctx[c].handlers)
       /\ ctx[c].index \in (- MaxInt8 - 1)..MaxInt8
       /\ ctx[c].data \in [Fields -> SUBSET Requests]
       /\ ctx[c].written \in BOOLEAN
  /\ \A r \in Serving : req[r].c \in Live /\ req[r].calls \in 0..MaxCalls[r]
  /\ IndexFits

\* The handlers of a chain run one after the other, each once and none left out,
\* whichever of them call Next, and none starts after one has called Abort; the
\* exception is a chain whose handlers called HandleContext.
Starts(r) == Active(r, "Next") /\ r \in Serving' /\ Len(req'[r].stack) > Len(req[r].stack)
ChainOrder ==
  [][\A r \in Requests : Starts(r) /\ ~ req[r].run.mixed =>
       ~ req[r].run.aborted /\ Ctx(r).index = req[r].run.last + 1]_vars

\* Requests do not share a context, a context holds nothing of an earlier
\* request, and it goes back to the pool when its response has been sent.
Isolated ==
  /\ \A r \in Serving :
       /\ req[r].c \in Live \ pool
       /\ \A other \in Serving : req[other].c = req[r].c => other = r
       /\ \A f \in Fields : Ctx(r).data[f] \subseteq {r}
  /\ \A c \in pool : ctx[c].written

\* Every route is listed once for each of its methods, with the chain its group
\* had when it was added.
RoutesKept ==
  \A m \in Methods :
    LET listed == Routes(trees[m])
        added == {i \in DOMAIN registered : m \in ToSet(registered[i].methods)}
        Listing(a) == [path |-> a.path, fullPath |-> a.path, handlers |-> a.chain]
    IN /\ Len(listed) = Cardinality(added)
       /\ ToSet(listed) = {Listing(registered[i]) : i \in added}

\* The chains for other requests are those of the engine as it is now.
ErrorChainsKept ==
  /\ allNoRoute = groups["engine"] \o noRoute
  /\ allNoMethod = groups["engine"] \o noMethod
=============================================================================
