-------------------------- MODULE GinEngineProofs --------------------------
(***************************************************************************)
(* The theorems of GinEngine, for any requests, contexts, handlers, routes *)
(* and any size of the index.  Requests meet only in the pool: what is     *)
(* shared is one invariant, and everything else is said of one request,    *)
(* its goroutine and its context, and is kept by each of its steps.  What  *)
(* depends on the chains that requests are given is proved from            *)
(* RoutesKept, which the run of GinRoutes checks of the trees.             *)
(***************************************************************************)
EXTENDS GinEngine, SequenceTheorems, TLAPS

(* Numbers, and what a request is. *)

Int8 == (- MaxInt8 - 1)..MaxInt8

\* There is room for an index twice as high as Abort's.
LEMMA Numbers ==
  /\ MaxInt8 \in Nat /\ abortIndex \in Nat
  /\ abortIndex >= 1 /\ 2 * abortIndex <= MaxInt8
BY GinAssumption DEF GinAssumption, abortIndex

LEMMA IncIs ==
  ASSUME NEW i \in Int8
  PROVE  /\ Inc(i) \in Int8
         /\ Inc(i) = i + 1 \/ Inc(i) < 0
         /\ i < MaxInt8 => Inc(i) = i + 1
BY Numbers DEF Inc, Int8

Serves == {"serve", "serveError"}
FrameT ==
  [kind : Serves \cup {"Next"}] \cup [kind : {"handler"}, nexted : BOOLEAN]
    \cup [kind : {"HandleContext"}, index : Int8]
RunT == [last : Int8, aborted : BOOLEAN, mixed : BOOLEAN]
RequestT == [c : Contexts, stack : Seq(FrameT), calls : Nat, run : RunT, missed : BOOLEAN]

IsContext(c) ==
  c \in [handlers : {c.handlers}, index : Int8, data : [Fields -> SUBSET Requests],
         written : BOOLEAN]

\* What may be below a frame: the functions call each other in this order.
Below(f, g) ==
  /\ g.kind \in Serves => f.kind = "HandleContext"
  /\ g.kind = "Next" => f.kind \in Serves \/ (f.kind = "handler" /\ f.nexted)
  /\ g.kind = "handler" => f.kind = "Next"
  /\ g.kind = "HandleContext" => f.kind = "handler"

Stacked(s) ==
  /\ s \in Seq(FrameT)
  /\ s # <<>> => s[1].kind \in Serves
  /\ \A i \in 2..Len(s) : Below(s[i - 1], s[i])

-----------------------------------------------------------------------------
(* The stack of a request. *)

LEMMA StackFacts ==
  ASSUME NEW s \in Seq(FrameT)
  PROVE  /\ Len(s) \in Nat /\ DOMAIN s = 1..Len(s) /\ (s = <<>> <=> Len(s) = 0)
         /\ s # <<>> => /\ Last(s) = s[Len(s)] /\ Len(s) \in 1..Len(s)
                        /\ Last(s) \in FrameT
                        /\ Front(s) \in Seq(FrameT) /\ Len(Front(s)) = Len(s) - 1
                        /\ \A i \in 1..(Len(s) - 1) : Front(s)[i] = s[i]
<1>1. Len(s) \in Nat /\ DOMAIN s = 1..Len(s) /\ (s = <<>> <=> Len(s) = 0)
  BY EmptySeq
<1>2. ASSUME s # <<>>
      PROVE  /\ Len(s) \in 1..Len(s) /\ Last(s) = s[Len(s)] /\ Last(s) \in FrameT
  BY <1>1, <1>2, ElementOfSeq DEF Last
<1>3. ASSUME s # <<>>
      PROVE  /\ Front(s) \in Seq(FrameT) /\ Len(Front(s)) = Len(s) - 1
             /\ \A i \in 1..(Len(s) - 1) : Front(s)[i] = s[i]
  <2>1. 1 \in 1..(Len(s) + 1) /\ Len(s) - 1 \in 0..Len(s)
    BY <1>1, <1>3
  <2>. QED
    BY <1>1, <1>3, <2>1, SubSeqProperties DEF Front
<1>. QED
  BY <1>1, <1>2, <1>3

\* A function returns.
LEMMA Pops ==
  ASSUME NEW s, Stacked(s), s # <<>>
  PROVE  /\ Stacked(Front(s))
         /\ Len(s) > 1 => /\ Front(s) # <<>> /\ Last(Front(s)) = s[Len(s) - 1]
                          /\ Below(Last(Front(s)), Last(s))
         /\ Last(s).kind \notin Serves => Len(s) > 1
<1>. DEFINE t == Front(s)
<1>1. /\ Len(s) \in Nat /\ Len(s) >= 1 /\ Last(s) = s[Len(s)]
      /\ t \in Seq(FrameT) /\ Len(t) = Len(s) - 1
      /\ \A i \in 1..(Len(s) - 1) : t[i] = s[i]
      /\ t = <<>> <=> Len(t) = 0
  BY StackFacts DEF Stacked
<1>2. Stacked(t)
  <2>1. t # <<>> => t[1].kind \in Serves
    BY <1>1 DEF Stacked
  <2>2. ASSUME NEW i \in 2..Len(t) PROVE Below(t[i - 1], t[i])
    <3>1. i \in 2..Len(s) /\ t[i - 1] = s[i - 1] /\ t[i] = s[i]
      BY <1>1
    <3>. QED
      BY <3>1 DEF Stacked
  <2>. QED
    BY <1>1, <2>1, <2>2 DEF Stacked
<1>3. ASSUME Len(s) > 1
      PROVE  t # <<>> /\ Last(t) = s[Len(s) - 1] /\ Below(Last(t), Last(s))
  <2>1. Len(s) \in 2..Len(s) /\ Len(t) \in 1..(Len(s) - 1) /\ t # <<>>
    BY <1>1, <1>3
  <2>2. Last(t) = s[Len(s) - 1]
    BY <1>1, <2>1 DEF Last
  <2>. QED
    BY <1>1, <2>1, <2>2 DEF Stacked
<1>4. Last(s).kind \notin Serves => Len(s) > 1
  BY <1>1 DEF Stacked
<1>. QED
  BY <1>2, <1>3, <1>4

\* A function is called.
LEMMA Pushes ==
  ASSUME NEW s, NEW f \in FrameT, Stacked(s),
         s = <<>> => f.kind \in Serves,
         s # <<>> => Below(Last(s), f)
  PROVE  /\ Stacked(Append(s, f)) /\ Append(s, f) # <<>> /\ Last(Append(s, f)) = f
         /\ Len(Append(s, f)) = Len(s) + 1
         /\ \A i \in 1..Len(s) : Append(s, f)[i] = s[i]
<1>. DEFINE t == Append(s, f)
<1>1. /\ Len(s) \in Nat /\ (s = <<>> <=> Len(s) = 0) /\ (s # <<>> => Last(s) = s[Len(s)])
      /\ s \in Seq(FrameT)
  BY StackFacts DEF Stacked
<1>2. /\ t \in Seq(FrameT) /\ Len(t) = Len(s) + 1 /\ t[Len(s) + 1] = f
      /\ \A i \in 1..Len(s) : t[i] = s[i]
  BY <1>1, AppendProperties
<1>3. t # <<>> /\ Last(t) = f
  BY <1>1, <1>2, EmptySeq DEF Last
<1>4. t[1].kind \in Serves
  BY <1>1, <1>2 DEF Stacked
<1>5. ASSUME NEW i \in 2..Len(t) PROVE Below(t[i - 1], t[i])
  <2>1. CASE i = Len(t)
    BY <1>1, <1>2, <2>1
  <2>2. CASE i # Len(t)
    <3>1. i \in 2..Len(s) /\ t[i - 1] = s[i - 1] /\ t[i] = s[i]
      BY <1>1, <1>2, <2>2
    <3>. QED
      BY <3>1 DEF Stacked
  <2>. QED
    BY <2>1, <2>2
<1>. QED
  BY <1>2, <1>3, <1>4, <1>5 DEF Stacked

\* A function returns and another one calls.
LEMMA Swaps ==
  ASSUME NEW s, NEW g \in FrameT, Stacked(s), s # <<>>,
         Last(s).kind = "handler", g.kind = "handler"
  PROVE  /\ Stacked(Front(s) \o <<g>>) /\ Front(s) \o <<g>> # <<>>
         /\ Last(Front(s) \o <<g>>) = g /\ Len(Front(s) \o <<g>>) = Len(s)
         /\ \A i \in 1..(Len(s) - 1) : (Front(s) \o <<g>>)[i] = s[i]
<1>1. Last(s).kind \notin Serves
  BY DEF Serves
<1>2. /\ Stacked(Front(s)) /\ Front(s) # <<>> /\ Below(Last(Front(s)), Last(s))
  BY <1>1, Pops, StackFacts DEF Stacked
<1>3. Below(Last(Front(s)), g)
  BY <1>2 DEF Below, Serves
<1>4. Front(s) \o <<g>> = Append(Front(s), g)
  BY <1>2, AppendIsConcat DEF Stacked
<1>5. /\ s \in Seq(FrameT) /\ Len(Front(s)) = Len(s) - 1 /\ Len(s) \in Nat
      /\ \A i \in 1..(Len(s) - 1) : Front(s)[i] = s[i]
  BY StackFacts DEF Stacked
<1>. DEFINE t == Append(Front(s), g)
<1>6. /\ Stacked(t) /\ t # <<>> /\ Last(t) = g /\ Len(t) = Len(Front(s)) + 1
      /\ \A i \in 1..Len(Front(s)) : t[i] = Front(s)[i]
  BY <1>2, <1>3, Pushes
<1>. HIDE DEF t
<1>7. Len(t) = Len(s) /\ \A i \in 1..(Len(s) - 1) : t[i] = s[i]
  BY <1>5, <1>6
<1>8. Front(s) \o <<g>> = t
  BY <1>4 DEF t
<1>. QED
  BY <1>6, <1>7, <1>8

LEMMA Pairs ==
  ASSUME NEW f \in FrameT, NEW g \in FrameT
  PROVE  <<f>> \o <<g>> = <<f, g>> /\ <<f>> \in Seq(FrameT) /\ <<g>> \in Seq(FrameT)
<1>1. <<f>> \in Seq(FrameT) /\ <<g>> \in Seq(FrameT) /\ <<f, g>> \in Seq(FrameT)
  OBVIOUS
<1>2. /\ Len(<<f>>) = 1 /\ Len(<<g>>) = 1 /\ Len(<<f, g>>) = 2
      /\ <<f>>[1] = f /\ <<g>>[1] = g /\ <<f, g>>[1] = f /\ <<f, g>>[2] = g
  OBVIOUS
<1>3. <<f>> \o <<g>> \in Seq(FrameT) /\ Len(<<f>> \o <<g>>) = 2
  BY <1>1, <1>2, ConcatProperties
<1>4. (<<f>> \o <<g>>)[1] = f /\ (<<f>> \o <<g>>)[2] = g
  BY <1>1, <1>2, ConcatProperties
<1>. DEFINE s == <<f>> \o <<g>>
            t == <<f, g>>
<1>5. /\ s \in Seq(FrameT) /\ t \in Seq(FrameT) /\ Len(s) = 2 /\ Len(t) = 2
      /\ s[1] = t[1] /\ s[2] = t[2]
  BY <1>1, <1>2, <1>3, <1>4
<1>. HIDE DEF s, t
<1>6. \A i \in 1..Len(s) : s[i] = t[i]
  BY <1>5
<1>7. s = t
  BY <1>5, <1>6, SeqEqual
<1>. QED
  BY <1>1, <1>7 DEF s, t

\* The frames of a chain that starts, on an empty stack or above HandleContext.
LEMMA ChainStarts ==
  ASSUME NEW s, NEW k \in Serves, Stacked(s),
         s # <<>> => Last(s).kind = "HandleContext"
  PROVE  LET t == s \o <<Frame(k), Frame("Next")>>
         IN /\ Stacked(t) /\ t # <<>> /\ Last(t) = Frame("Next")
            /\ Len(t) = Len(s) + 2 /\ t[Len(s) + 1] = Frame(k)
            /\ \A i \in 1..Len(s) : t[i] = s[i]
<1>. DEFINE f == Frame(k)
            g == Frame("Next")
            u == Append(s, f)
            t == Append(u, g)
<1>1. /\ f \in FrameT /\ f.kind \in Serves /\ g \in FrameT /\ g.kind = "Next"
  BY DEF FrameT, Frame, Serves
<1>2. s # <<>> => Below(Last(s), f)
  BY <1>1 DEF Below, Serves
<1>3. /\ Stacked(u) /\ u # <<>> /\ Last(u) = f /\ Len(u) = Len(s) + 1
      /\ \A i \in 1..Len(s) : u[i] = s[i]
  BY <1>1, <1>2, Pushes
<1>4. Below(f, g)
  BY <1>1 DEF Below, Serves
<1>5. /\ Stacked(t) /\ t # <<>> /\ Last(t) = g /\ Len(t) = Len(u) + 1
      /\ \A i \in 1..Len(u) : t[i] = u[i]
  BY <1>1, <1>3, <1>4, Pushes
<1>6. s \in Seq(FrameT) /\ Len(s) \in Nat
  BY StackFacts DEF Stacked
<1>7. u[Len(s) + 1] = f
  BY <1>3, <1>6 DEF Last
<1>8. s \o <<f, g>> = t
  <2>1. u \in Seq(FrameT) /\ t = u \o <<g>> /\ u = s \o <<f>>
    BY <1>1, <1>3, <1>6, AppendIsConcat DEF Stacked
  <2>2. <<f>> \in Seq(FrameT) /\ <<g>> \in Seq(FrameT) /\ <<f>> \o <<g>> = <<f, g>>
    BY <1>1, Pairs
  <2>3. (s \o <<f>>) \o <<g>> = s \o (<<f>> \o <<g>>)
    BY <1>6, <2>2, ConcatAssociative
  <2>. QED
    BY <2>1, <2>2, <2>3
<1>9. /\ Len(t) = Len(s) + 2 /\ t[Len(s) + 1] = f
      /\ \A i \in 1..Len(s) : t[i] = s[i]
  BY <1>3, <1>5, <1>6, <1>7
<1>. QED
  BY <1>5, <1>8, <1>9

-----------------------------------------------------------------------------
(* The context of a request. *)

\* A context holds nothing of another request than r.
Own(r, c) == IsContext(c) /\ \A f \in Fields : c.data[f] \subseteq {r}

LEMMA SetsIndex ==
  ASSUME NEW r, NEW c, Own(r, c), NEW i \in Int8
  PROVE  /\ Own(r, [c EXCEPT !.index = i]) /\ [c EXCEPT !.index = i].index = i
         /\ [c EXCEPT !.index = i].handlers = c.handlers
         /\ [c EXCEPT !.index = i].written = c.written
BY DEF Own, IsContext

LEMMA SetsWritten ==
  ASSUME NEW r, NEW c, Own(r, c)
  PROVE  /\ Own(r, [c EXCEPT !.written = TRUE]) /\ [c EXCEPT !.written = TRUE].written
         /\ [c EXCEPT !.written = TRUE].index = c.index
         /\ [c EXCEPT !.written = TRUE].handlers = c.handlers
BY DEF Own, IsContext

LEMMA SetsHandlers ==
  ASSUME NEW r, NEW c, Own(r, c), NEW h
  PROVE  /\ Own(r, [c EXCEPT !.handlers = h]) /\ [c EXCEPT !.handlers = h].handlers = h
         /\ [c EXCEPT !.handlers = h].index = c.index
         /\ [c EXCEPT !.handlers = h].written = c.written
BY DEF Own, IsContext

LEMMA Stores ==
  ASSUME NEW r \in Requests, NEW c, Own(r, c), NEW f
  PROVE  /\ Own(r, Added(c, f, r)) /\ Added(c, f, r).index = c.index
         /\ Added(c, f, r).handlers = c.handlers
         /\ Own(r, Cached(c, f, r)) /\ Cached(c, f, r).index = c.index
         /\ Cached(c, f, r).handlers = c.handlers
<1>1. ASSUME f \in Fields, NEW v \in SUBSET {r}
      PROVE  LET d == [c EXCEPT !.data[f] = v]
             IN Own(r, d) /\ d.index = c.index /\ d.handlers = c.handlers
  BY <1>1 DEF Own, IsContext
<1>2. f \in Fields => c.data[f] \cup {r} \in SUBSET {r} /\ {r} \in SUBSET {r}
  BY DEF Own
<1>3. f \in Fields => Added(c, f, r) = [c EXCEPT !.data[f] = c.data[f] \cup {r}]
  BY DEF Added, Own, IsContext
<1>4. f \notin Fields => Added(c, f, r) = c
  BY DEF Added
<1>5. Cached(c, f, r) = c \/ (f \in Fields /\ Cached(c, f, r) = [c EXCEPT !.data[f] = {r}])
  BY DEF Cached
<1>6. ASSUME f \in Fields
      PROVE  /\ Own(r, [c EXCEPT !.data[f] = c.data[f] \cup {r}])
             /\ Own(r, [c EXCEPT !.data[f] = {r}])
             /\ [c EXCEPT !.data[f] = c.data[f] \cup {r}].index = c.index
             /\ [c EXCEPT !.data[f] = c.data[f] \cup {r}].handlers = c.handlers
             /\ [c EXCEPT !.data[f] = {r}].index = c.index
             /\ [c EXCEPT !.data[f] = {r}].handlers = c.handlers
  BY <1>1, <1>2, <1>6
<1>7. /\ Own(r, Added(c, f, r)) /\ Added(c, f, r).index = c.index
      /\ Added(c, f, r).handlers = c.handlers
  BY <1>3, <1>4, <1>6, Zenon
<1>8. /\ Own(r, Cached(c, f, r)) /\ Cached(c, f, r).index = c.index
      /\ Cached(c, f, r).handlers = c.handlers
  BY <1>5, <1>6, Zenon
<1>. QED
  BY <1>7, <1>8

\* reset leaves nothing of anybody.
LEMMA Resets ==
  ASSUME NEW r \in Requests, NEW c, IsContext(c)
  PROVE  /\ Own(r, Reset(c)) /\ Reset(c).index = -1 /\ Reset(c).handlers = <<>>
         /\ Reset(c).written = c.written
<1>1. -1 \in Int8
  BY Numbers DEF Int8
<1>2. [f \in Fields |-> {}] \in [Fields -> SUBSET Requests]
  OBVIOUS
<1>. QED
  BY <1>1, <1>2 DEF Own, IsContext, Reset

\* handleHTTPRequest answers, or starts a chain: one that the tree has or one of
\* the engine's own.
Chosen(m, path) ==
  {allNoMethod, allNoRoute} \cup ({Lookup(trees[m], path)} \ {NoHandlers})

Answered(c) == [c |-> Redirected(c), frames |-> <<>>]
Started(c, chain, k) ==
  [c |-> Advance([c EXCEPT !.handlers = chain]), frames |-> <<Frame(k), Frame("Next")>>]

LEMMA Handles ==
  ASSUME NEW c, NEW m, NEW path, NEW tsr
  PROVE  \/ handleHTTPRequest(c, m, path, tsr) = Answered(c)
         \/ \E chain \in Chosen(m, path), k \in Serves :
              handleHTTPRequest(c, m, path, tsr) = Started(c, chain, k)
<1>. DEFINE own == Lookup(trees[m], path)
            others == {other \in Methods \ {m} : Lookup(trees[other], path) # NoHandlers}
            tree == trees[m] # None /\ m # "CONNECT" /\ path # <<"/">> /\ tsr /\ Redirects
            go == handleHTTPRequest(c, m, path, tsr)
<1>1. go = IF own # NoHandlers THEN Started(c, own, "serve")
           ELSE IF tree THEN Answered(c)
           ELSE IF HandlerMethodNotAllowed /\ others # {} THEN Started(c, allNoMethod, "serveError")
           ELSE Started(c, allNoRoute, "serveError")
  BY DEF handleHTTPRequest, Frame, Started, Answered
<1>2. /\ "serve" \in Serves /\ "serveError" \in Serves
      /\ allNoMethod \in Chosen(m, path) /\ allNoRoute \in Chosen(m, path)
      /\ own # NoHandlers => own \in Chosen(m, path)
  BY DEF Serves, Chosen
<1>. HIDE DEF own, others, tree, go
<1>3. \/ go = Answered(c)
      \/ \E chain \in Chosen(m, path), k \in Serves : go = Started(c, chain, k)
  BY <1>1, <1>2
<1>. QED
  BY <1>3 DEF go

\* The same of a context that has been reset.
LEMMA HandlesReset ==
  ASSUME NEW r \in Requests, NEW c, Own(r, c), c.index = -1,
         NEW m, NEW path, NEW tsr
  PROVE  LET go == handleHTTPRequest(c, m, path, tsr)
         IN /\ Own(r, go.c)
            /\ \/ /\ go.frames = <<>> /\ go.c.written
                  /\ go.c.index = -1 /\ go.c.handlers = c.handlers
               \/ /\ \E k \in Serves : go.frames = <<Frame(k), Frame("Next")>>
                  /\ go.c.index = 0 /\ go.c.handlers \in Chosen(m, path)
<1>1. 0 \in Int8 /\ Inc(-1) = 0
  BY Numbers DEF Int8, Inc
<1>2. LET go == Answered(c)
      IN /\ Own(r, go.c) /\ go.frames = <<>> /\ go.c.written
         /\ go.c.index = -1 /\ go.c.handlers = c.handlers
  BY SetsWritten DEF Answered, Redirected
<1>3. ASSUME NEW chain, NEW k
      PROVE  LET go == Started(c, chain, k)
             IN /\ Own(r, go.c) /\ go.c.index = 0 /\ go.c.handlers = chain
                /\ go.frames = <<Frame(k), Frame("Next")>>
  <2>. DEFINE d == [c EXCEPT !.handlers = chain]
              e == [d EXCEPT !.index = 0]
  <2>1. Own(r, d) /\ d.handlers = chain /\ d.index = -1
    BY SetsHandlers
  <2>2. /\ Started(c, chain, k).c = Advance(d)
        /\ Started(c, chain, k).frames = <<Frame(k), Frame("Next")>>
    BY DEF Started
  <2>. HIDE DEF d
  <2>3. Own(r, e) /\ e.handlers = chain /\ e.index = 0
    BY <1>1, <2>1, SetsIndex
  <2>4. Advance(d) = e
    BY <1>1, <2>1 DEF Advance
  <2>. QED
    BY <2>2, <2>3, <2>4
<1>. QED
  BY <1>2, <1>3, Handles

-----------------------------------------------------------------------------
(* Requests and contexts, whatever their chains. *)

\* What is true of a request r that is q, and of its context c.
Local(r, c, q) ==
  /\ Own(r, c) /\ q \in RequestT /\ Stacked(q.stack)
  /\ q.stack = <<>> => c.written

\* A context serves one request or is in the pool.
Shared ==
  /\ pool \subseteq Live /\ Live \subseteq Contexts /\ Serving \subseteq Requests
  /\ \A c \in pool : IsContext(ctx[c]) /\ ctx[c].written
  /\ \A r \in Serving : req[r].c \in Live \ pool
  /\ \A r, s \in Serving : req[r].c = req[s].c => r = s
  /\ Live \ pool \subseteq {req[r].c : r \in Serving}
Locals == \A r \in Serving : Local(r, Ctx(r), req[r])
Inv == Shared /\ Locals

LEMMA StepKeeps ==
  ASSUME Inv, NEW r \in Serving, NEW c, NEW q, Step(r, c, q),
         q.c = req[r].c, Local(r, c, q)
  PROVE  Inv'
<1>. USE DEF Inv, Shared, Locals, Step, Serving, Live, Ctx
<1>1. Live' = Live /\ Serving' = Serving /\ pool' = pool
  OBVIOUS
<1>2. \A s \in Serving : req'[s] = IF s = r THEN q ELSE req[s]
  OBVIOUS
<1>3. \A d \in Live : ctx'[d] = IF d = req[r].c THEN c ELSE ctx[d]
  OBVIOUS
<1>4. \A s \in Serving : req'[s].c = req[s].c
  BY <1>2
<1>5. \A s \in Serving : Ctx(s)' = IF s = r THEN c ELSE Ctx(s)
  BY <1>2, <1>3
<1>6. Locals'
  BY <1>1, <1>2, <1>5
<1>7. \A d \in pool : ctx'[d] = ctx[d]
  BY <1>3
<1>8. Shared'
  BY <1>1, <1>4, <1>7
<1>. QED
  BY <1>6, <1>8

\* The goroutine of r ends, and its context goes where c says.
LEMMA LostKeeps ==
  ASSUME Inv, NEW r \in Serving, Lost(r)
  PROVE  Inv'
<1>. USE DEF Inv, Shared, Locals, Lost, Restrict, Serving, Live, Ctx
<1>1. /\ Live' = Live \ {req[r].c} /\ Serving' = Serving \ {r} /\ pool' = pool
      /\ \A s \in Serving' : req'[s] = req[s]
      /\ \A d \in Live' : ctx'[d] = ctx[d]
  OBVIOUS
<1>2. \A s \in Serving' : s \in Serving /\ req[s].c \in Live' /\ Ctx(s)' = Ctx(s)
  BY <1>1
<1>3. Locals'
  BY <1>1, <1>2
<1>4. Shared'
  BY <1>1, <1>2
<1>. QED
  BY <1>3, <1>4

\* ServeHTTP takes a context from the pool or makes one, and resets it.
Fetched(c) == Reset(IF c \in pool THEN [ctx[c] EXCEPT !.written = FALSE] ELSE NewContext)

LEMMA Fetches ==
  ASSUME Inv, NEW r \in Requests, NEW c
  PROVE  Own(r, Fetched(c)) /\ Fetched(c).index = -1 /\ Fetched(c).handlers = <<>>
<1>1. IsContext(NewContext)
  BY Numbers DEF IsContext, NewContext, Int8
<1>2. c \in pool => IsContext([ctx[c] EXCEPT !.written = FALSE])
  BY DEF Inv, Shared, IsContext
<1>3. IsContext(IF c \in pool THEN [ctx[c] EXCEPT !.written = FALSE] ELSE NewContext)
  BY <1>1, <1>2
<1>. QED
  BY <1>3, Resets DEF Fetched

ServedAs(c, go) ==
  [c |-> c, stack |-> go.frames, calls |-> 0, run |-> Fresh, missed |-> FALSE]

LEMMA ServesLocally ==
  ASSUME Inv, NEW r \in Requests, NEW c \in Contexts, NEW path, NEW tsr
  PROVE  LET go == handleHTTPRequest(Fetched(c), method[r], path, tsr)
         IN Local(r, go.c, ServedAs(c, go))
<1>. DEFINE go == handleHTTPRequest(Fetched(c), method[r], path, tsr)
<1>1. /\ Own(r, go.c)
      /\ \/ go.frames = <<>> /\ go.c.written
         \/ \E k \in Serves : go.frames = <<Frame(k), Frame("Next")>>
  BY Fetches, HandlesReset
<1>. HIDE DEF go
<1>2. Stacked(<<>>)
  BY DEF Stacked
<1>3. \A k \in Serves : /\ Stacked(<<Frame(k), Frame("Next")>>)
                        /\ <<Frame(k), Frame("Next")>> # <<>>
  <2>. SUFFICES ASSUME NEW k \in Serves
                PROVE  /\ Stacked(<<Frame(k), Frame("Next")>>)
                       /\ <<Frame(k), Frame("Next")>> # <<>>
    OBVIOUS
  <2>1. /\ Stacked(<<>> \o <<Frame(k), Frame("Next")>>)
    BY <1>2, ChainStarts
  <2>2. Frame(k) \in FrameT /\ Frame("Next") \in FrameT
    BY DEF Frame, FrameT, Serves
  <2>3. <<Frame(k), Frame("Next")>> \in Seq(FrameT)
    BY <2>2
  <2>4. <<>> \o <<Frame(k), Frame("Next")>> = <<Frame(k), Frame("Next")>>
    BY <2>3, ConcatEmptySeq
  <2>. QED
    BY <2>1, <2>4
<1>4. Stacked(go.frames) /\ (go.frames = <<>> => go.c.written)
  BY <1>1, <1>2, <1>3
<1>5. Fresh \in RunT
  BY Numbers DEF Fresh, RunT, Int8
<1>6. ServedAs(c, go) \in RequestT /\ ServedAs(c, go).stack = go.frames
  BY <1>4, <1>5 DEF ServedAs, RequestT, Stacked
<1>7. Local(r, go.c, ServedAs(c, go))
  BY <1>1, <1>4, <1>6 DEF Local
<1>. QED
  BY <1>7 DEF go

LEMMA ServeKeeps ==
  ASSUME Inv, NEW r \in Requests, NEW c \in Contexts, NEW path, NEW tsr,
         ServeHTTP(r, c, path, tsr)
  PROVE  Inv'
<1>. DEFINE go == handleHTTPRequest(Fetched(c), method[r], path, tsr)
            q == ServedAs(c, go)
<1>1. Local(r, go.c, q)
  BY ServesLocally
<1>2. q.c = c
  BY DEF ServedAs
<1>3. /\ r \notin Serving /\ (c \in pool \/ c \notin Live)
      /\ ctx' = [d \in Live \cup {c} |-> IF d = c THEN go.c ELSE ctx[d]]
      /\ req' = [s \in Serving \cup {r} |-> IF s = r THEN q ELSE req[s]]
      /\ pool' = pool \ {c}
  BY DEF ServeHTTP, Fetched, ServedAs
<1>. HIDE DEF go, q
<1>. USE DEF Inv, Shared, Locals, Serving, Live, Ctx
<1>4. /\ Live' = Live \cup {c} /\ Serving' = Serving \cup {r}
      /\ \A s \in Serving : req'[s] = req[s] /\ s # r
      /\ req'[r] = q /\ ctx'[c] = go.c
      /\ \A d \in Live : d # c => ctx'[d] = ctx[d]
  BY <1>3
<1>5. \A s \in Serving : req[s].c # c /\ req[s].c \in Live
  BY <1>3
<1>6. /\ \A s \in Serving : Ctx(s)' = Ctx(s)
      /\ Ctx(r)' = go.c
  BY <1>2, <1>4, <1>5
<1>7. Locals'
  BY <1>1, <1>4, <1>6
<1>8. Shared'
  <2>1. /\ pool' \subseteq Live' /\ Live' \subseteq Contexts /\ Serving' \subseteq Requests
        /\ \A d \in pool' : IsContext(ctx'[d]) /\ ctx'[d].written
    BY <1>3, <1>4
  <2>2. \A s \in Serving' : req'[s].c \in Live' \ pool'
    BY <1>2, <1>3, <1>4, <1>5
  <2>3. \A s, t \in Serving' : req'[s].c = req'[t].c => s = t
    BY <1>2, <1>4, <1>5
  <2>4. Live' \ pool' \subseteq {req'[s].c : s \in Serving'}
    BY <1>2, <1>3, <1>4
  <2>. QED
    BY <2>1, <2>2, <2>3, <2>4
<1>. QED
  BY <1>7, <1>8

\* A context goes back to the pool.
LEMMA EndKeeps ==
  ASSUME Inv, NEW r \in Requests, ServeHTTPEnd(r)
  PROVE  Inv'
<1>. DEFINE c == req[r].c
            d == [ctx[c] EXCEPT !.handlers = <<>>, !.index = -1]
<1>1. /\ r \in Serving /\ req[r].stack = <<>> /\ pool' = pool \cup {c}
      /\ Serving' = Serving \ {r} /\ \A s \in Serving' : req'[s] = req[s]
  BY DEF ServeHTTPEnd, Restrict, Serving
<1>2. /\ c \in Live \ pool /\ IsContext(ctx[c]) /\ ctx[c].written
  BY <1>1 DEF Inv, Shared, Locals, Local, Own, Ctx
<1>3. /\ DOMAIN ctx' = DOMAIN ctx /\ ctx'[c] = d
      /\ \A x \in Live \ {c} : ctx'[x] = ctx[x]
  BY <1>2 DEF ServeHTTPEnd, Live
<1>4. IsContext(d) /\ d.written
  <2>. DEFINE e == [ctx[c] EXCEPT !.handlers = <<>>]
  <2>1. -1 \in Int8 /\ Own(r, ctx[c]) /\ ctx[c].written
    BY <1>1, <1>2, Numbers DEF Int8, Inv, Locals, Local, Ctx
  <2>2. Own(r, e) /\ e.written
    BY <2>1, SetsHandlers
  <2>3. d = [e EXCEPT !.index = -1]
    OBVIOUS
  <2>. HIDE DEF e, d
  <2>4. Own(r, d) /\ d.written
    BY <2>1, <2>2, <2>3, SetsIndex
  <2>. QED
    BY <2>4 DEF Own
<1>. HIDE DEF c, d
<1>. USE DEF Inv, Shared, Locals, Serving, Live, Ctx
<1>5. \A s \in Serving' : s \in Serving /\ req[s].c # c /\ req[s].c \in Live
  BY <1>1 DEF c
<1>6. \A s \in Serving' : Ctx(s)' = Ctx(s)
  BY <1>1, <1>3, <1>5
<1>7. Locals'
  BY <1>1, <1>5, <1>6
<1>8. Shared'
  <2>1. /\ pool' \subseteq Live' /\ Live' \subseteq Contexts /\ Serving' \subseteq Requests
        /\ \A x \in pool' : IsContext(ctx'[x]) /\ ctx'[x].written
    BY <1>1, <1>2, <1>3, <1>4
  <2>2. \A s \in Serving' : req'[s].c \in Live' \ pool'
    BY <1>1, <1>3, <1>5
  <2>3. \A s, t \in Serving' : req'[s].c = req'[t].c => s = t
    BY <1>1, <1>5
  <2>4. Live' \ pool' \subseteq {req'[s].c : s \in Serving'}
    BY <1>1, <1>3 DEF c
  <2>. QED
    BY <2>1, <2>2, <2>3, <2>4
<1>. QED
  BY <1>7, <1>8

LEMMA CollectKeeps ==
  ASSUME Inv, Collect
  PROVE  Inv'
<1>. USE DEF Inv, Shared, Locals, Collect, Restrict, Serving, Live, Ctx
<1>1. /\ Live' = Live \ pool /\ pool' = {} /\ Serving' = Serving /\ req' = req
      /\ \A d \in Live' : ctx'[d] = ctx[d]
  OBVIOUS
<1>2. \A s \in Serving : req[s].c \in Live' /\ Ctx(s)' = Ctx(s)
  BY <1>1
<1>3. Locals'
  BY <1>1, <1>2
<1>4. Shared'
  BY <1>1, <1>2
<1>. QED
  BY <1>3, <1>4

-----------------------------------------------------------------------------
(* One step of one request. *)

\* A call of Context by a handler: it stores what is r's in the context, and
\* leaves the index where it is or aborts.
Wrote(r) ==
  \E d : /\ Own(r, d) /\ d.handlers = Ctx(r).handlers
         /\ \/ d.index = Ctx(r).index /\ Step(r, d, req[r])
            \/ d.index = abortIndex /\ Step(r, d, Aborted(r))

Calls(r) ==
  \/ Abort(r) \/ AbortWithStatus(r) \/ AbortWithError(r) \/ Bind(r) \/ Negotiate(r)
  \/ \E ok \in BOOLEAN : Render(r, ok)
  \/ \E f \in {"Params", "Keys", "Errors", "sameSite"} : Set(r, f)
  \/ \E f \in {"Accepted", "queryCache", "formCache"} : InitCache(r, f)

\* r is being served, and kind is what runs.
LEMMA ActiveIs ==
  ASSUME Inv, NEW r, NEW kind, Active(r, kind)
  PROVE  /\ r \in Serving /\ r \in Requests /\ Own(r, Ctx(r)) /\ Ctx(r).index \in Int8
         /\ Local(r, Ctx(r), req[r]) /\ req[r] \in RequestT
         /\ Stacked(req[r].stack) /\ req[r].stack # <<>>
         /\ Last(req[r].stack).kind = kind /\ Last(req[r].stack) \in FrameT
         /\ req[r].stack \in Seq(FrameT) /\ req[r].run \in RunT
<1>1. /\ r \in Serving /\ r \in Requests /\ Local(r, Ctx(r), req[r])
      /\ req[r].stack # <<>> /\ Last(req[r].stack).kind = kind
  BY DEF Inv, Shared, Locals, Active, Top
<1>2. Own(r, Ctx(r)) /\ req[r] \in RequestT /\ Stacked(req[r].stack)
  BY <1>1 DEF Local
<1>3. Ctx(r).index \in Int8 /\ req[r].stack \in Seq(FrameT) /\ req[r].run \in RunT
  BY <1>2 DEF Own, IsContext, RequestT
<1>. QED
  BY <1>1, <1>2, <1>3, StackFacts

LEMMA CallsWrite ==
  ASSUME Inv, NEW r, Calls(r)
  PROVE  Wrote(r) /\ Active(r, "handler")
<1>. DEFINE c == Ctx(r)
            a == [c EXCEPT !.index = abortIndex]
            w == [c EXCEPT !.written = TRUE]
            aw == [w EXCEPT !.index = abortIndex]
<1>1. Active(r, "handler")
  BY DEF Calls, Abort, AbortWithStatus, AbortWithError, Bind, Negotiate, Render, Set, InitCache
<1>2. /\ r \in Requests /\ Own(r, c) /\ abortIndex \in Int8
  BY <1>1, ActiveIs, Numbers DEF Int8
<1>3. Own(r, a) /\ a.index = abortIndex /\ a.handlers = c.handlers
  BY <1>2, SetsIndex
<1>4. Own(r, w) /\ w.index = c.index /\ w.handlers = c.handlers
  BY <1>2, SetsWritten
<1>5. Own(r, aw) /\ aw.index = abortIndex /\ aw.handlers = c.handlers
  <2>. HIDE DEF w
  <2>. QED
    BY <1>2, <1>4, SetsIndex
<1>6. [c EXCEPT !.written = TRUE, !.index = abortIndex] = aw
  OBVIOUS
<1>. HIDE DEF a, w, aw
<1>7. CASE Abort(r)
  BY <1>3, <1>7 DEF Abort, Wrote, a, c
<1>8. CASE AbortWithStatus(r)
  BY <1>5, <1>6, <1>8 DEF AbortWithStatus, Wrote, c
<1>9. ASSUME NEW d, Own(r, d), d.index = abortIndex, d.handlers = c.handlers,
             Step(r, AddError(d, r), Aborted(r))
      PROVE  Wrote(r)
  BY <1>2, <1>9, Stores DEF AddError, Wrote, c
<1>10. CASE AbortWithError(r) \/ Bind(r)
  <2>1. Failing(c, r) = AddError(aw, r)
    BY <1>6 DEF Failing
  <2>2. Step(r, Failing(c, r), Aborted(r))
    BY <1>10 DEF Bind, AbortWithError, c
  <2>. QED
    BY <1>1, <1>5, <1>9, <2>1, <2>2
<1>11. ASSUME NEW ok \in BOOLEAN, Render(r, ok)
       PROVE  Wrote(r)
  <2>1. CASE ok
    BY <1>4, <1>11, <2>1 DEF Render, Wrote, w, c
  <2>2. CASE ~ ok
    <3>1. Step(r, AddError(a, r), Aborted(r))
      BY <1>11, <2>2 DEF Render, a, c
    <3>. QED
      BY <1>3, <1>9, <3>1
  <2>. QED
    BY <2>1, <2>2
<1>12. ASSUME NEW f, Set(r, f)
       PROVE  Wrote(r)
  BY <1>2, <1>12, Stores DEF Set, Wrote, c
<1>13. ASSUME NEW f, InitCache(r, f)
       PROVE  Wrote(r)
  BY <1>2, <1>13, Stores DEF InitCache, Wrote, c
<1>14. CASE Negotiate(r)
  <2>. DEFINE d == Cached(c, "Accepted", r)
              dw == [d EXCEPT !.written = TRUE]
              da == [dw EXCEPT !.index = abortIndex]
  <2>1. Own(r, d) /\ d.handlers = c.handlers
    BY <1>2, Stores
  <2>. HIDE DEF d
  <2>2. Own(r, dw) /\ dw.handlers = c.handlers
    BY <2>1, SetsWritten
  <2>3. Own(r, da) /\ da.handlers = c.handlers /\ da.index = abortIndex
    <3>. HIDE DEF dw
    <3>. QED
      BY <1>2, <2>2, SetsIndex
  <2>4. [d EXCEPT !.written = TRUE, !.index = abortIndex] = da
    OBVIOUS
  <2>. HIDE DEF dw, da
  <2>5. Failing(d, r) = AddError(da, r)
    BY <2>4 DEF Failing
  <2>6. Step(r, Failing(d, r), Aborted(r))
    BY <1>14 DEF Negotiate, d, c
  <2>. QED
    BY <1>1, <1>9, <2>3, <2>5, <2>6
<1>. QED
  BY <1>1, <1>7, <1>8, <1>10, <1>11, <1>12, <1>13, <1>14 DEF Calls

\* What r remembers of its run does not matter here.
LEMMA AbortedIs ==
  ASSUME NEW r, req[r] \in RequestT
  PROVE  /\ Aborted(r) = [req[r] EXCEPT !.run = [req[r].run EXCEPT !.aborted = ~ req[r].run.mixed]]
         /\ Aborted(r) \in RequestT /\ Aborted(r).c = req[r].c
         /\ Aborted(r).stack = req[r].stack /\ Aborted(r).missed = req[r].missed
         /\ Aborted(r).run.aborted = ~ req[r].run.mixed
         /\ Aborted(r).run.mixed = req[r].run.mixed /\ Aborted(r).run.last = req[r].run.last
         /\ Aborted(r).calls = req[r].calls
BY DEF Aborted, RequestT, RunT

LEMMA CallsKeep ==
  ASSUME Inv, NEW r, Calls(r)
  PROVE  Inv'
<1>1. /\ r \in Serving /\ req[r] \in RequestT /\ Stacked(req[r].stack)
      /\ req[r].stack # <<>>
  BY CallsWrite, ActiveIs
<1>2. PICK d : /\ Own(r, d)
               /\ Step(r, d, req[r]) \/ Step(r, d, Aborted(r))
  BY CallsWrite DEF Wrote
<1>3. CASE Step(r, d, req[r])
  <2>1. Local(r, d, req[r])
    BY <1>1, <1>2 DEF Local
  <2>. QED
    BY <1>1, <1>3, <2>1, StepKeeps
<1>4. CASE Step(r, d, Aborted(r))
  <2>1. Local(r, d, Aborted(r)) /\ Aborted(r).c = req[r].c
    BY <1>1, <1>2, AbortedIs DEF Local
  <2>. QED
    BY <1>1, <1>4, <2>1, StepKeeps
<1>. QED
  BY <1>2, <1>3, <1>4

\* A request that goes on with another stack.
LEMMA GoesOn ==
  ASSUME Inv, NEW r \in Serving, NEW d, NEW q, Step(r, d, q), Own(r, d),
         q \in RequestT, q.c = req[r].c, Stacked(q.stack),
         q.stack = <<>> => d.written
  PROVE  Inv'
BY StepKeeps DEF Local

\* A frame that is not the last one returns.
LEMMA Returns ==
  ASSUME NEW q \in RequestT, Stacked(q.stack), q.stack # <<>>
  PROVE  LET p == [q EXCEPT !.stack = Front(@)]
         IN /\ p \in RequestT /\ p.c = q.c /\ p.stack = Front(q.stack) /\ Stacked(p.stack)
            /\ Last(q.stack).kind \notin Serves => p.stack # <<>>
            /\ p.run = q.run /\ p.missed = q.missed /\ p.calls = q.calls
<1>1. Front(q.stack) \in Seq(FrameT)
  BY StackFacts DEF RequestT
<1>2. /\ Stacked(Front(q.stack))
      /\ Last(q.stack).kind \notin Serves => Front(q.stack) # <<>>
  BY Pops
<1>. QED
  BY <1>1, <1>2 DEF RequestT

\* What the loop of Next pushes.
Handling == [kind |-> "handler", nexted |-> FALSE]
Handled(q, i) ==
  [q EXCEPT !.stack = Append(@, Handling), !.run.last = IF q.run.mixed THEN -1 ELSE i]

LEMMA HandledIs ==
  ASSUME NEW q \in RequestT, Stacked(q.stack), q.stack # <<>>,
         Last(q.stack).kind = "Next", NEW i \in Int8
  PROVE  LET p == Handled(q, i)
         IN /\ p \in RequestT /\ p.c = q.c /\ Stacked(p.stack) /\ p.stack # <<>>
            /\ p.stack = Append(q.stack, Handling) /\ Last(p.stack) = Handling
            /\ p.missed = q.missed /\ p.run.aborted = q.run.aborted
            /\ p.run.mixed = q.run.mixed /\ p.run.last = IF q.run.mixed THEN -1 ELSE i
            /\ p.calls = q.calls
<1>1. Handling \in FrameT /\ Handling.kind = "handler" /\ Below(Last(q.stack), Handling)
  BY DEF Handling, FrameT, Below, Serves
<1>2. /\ Stacked(Append(q.stack, Handling)) /\ Append(q.stack, Handling) # <<>>
      /\ Last(Append(q.stack, Handling)) = Handling
  BY <1>1, Pushes
<1>3. Append(q.stack, Handling) \in Seq(FrameT)
  BY <1>2 DEF Stacked
<1>4. (IF q.run.mixed THEN -1 ELSE i) \in Int8
  BY Numbers DEF Int8
<1>. HIDE DEF Handling
<1>5. /\ Handled(q, i) \in RequestT /\ Handled(q, i).c = q.c
      /\ Handled(q, i).stack = Append(q.stack, Handling)
      /\ Handled(q, i).missed = q.missed /\ Handled(q, i).calls = q.calls
      /\ Handled(q, i).run = [q.run EXCEPT !.last = IF q.run.mixed THEN -1 ELSE i]
  BY <1>3, <1>4 DEF Handled, RequestT, RunT
<1>6. q.run \in RunT
  BY DEF RequestT
<1>. QED
  BY <1>2, <1>5, <1>6 DEF RunT

LEMMA NextLoopKeeps ==
  ASSUME Inv, NEW r, NextLoop(r)
  PROVE  Inv'
<1>. DEFINE c == Ctx(r)
            q == req[r]
<1>1. Active(r, "Next")
  BY DEF NextLoop
<1>2. /\ r \in Serving /\ Own(r, c) /\ c.index \in Int8 /\ q \in RequestT
      /\ Stacked(q.stack) /\ q.stack # <<>> /\ Last(q.stack).kind = "Next"
  BY <1>1, ActiveIs
<1>3. \/ Step(r, c, [q EXCEPT !.stack = Front(@)])
      \/ Lost(r)
      \/ Step(r, c, Handled(q, c.index))
  BY DEF NextLoop, Handled, Handling
<1>4. CASE Step(r, c, [q EXCEPT !.stack = Front(@)])
  BY <1>2, <1>4, Returns, GoesOn DEF Serves
<1>5. CASE Lost(r)
  BY <1>2, <1>5, LostKeeps
<1>6. CASE Step(r, c, Handled(q, c.index))
  BY <1>2, <1>6, HandledIs, GoesOn
<1>. QED
  BY <1>3, <1>4, <1>5, <1>6

LEMMA Advances ==
  ASSUME NEW r, NEW c, Own(r, c)
  PROVE  /\ Own(r, Advance(c)) /\ Advance(c).index = Inc(c.index)
         /\ Advance(c).handlers = c.handlers /\ Advance(c).written = c.written
<1>1. c.index \in Int8 /\ Inc(c.index) \in Int8
  BY IncIs DEF Own, IsContext
<1>2. Advance(c) = [c EXCEPT !.index = Inc(c.index)]
  BY DEF Advance
<1>. QED
  BY <1>1, <1>2, SetsIndex

LEMMA ReturnKeeps ==
  ASSUME Inv, NEW r, Return(r)
  PROVE  Inv'
<1>1. Active(r, "handler") /\ Step(r, Advance(Ctx(r)), [req[r] EXCEPT !.stack = Front(@)])
  BY DEF Return
<1>2. /\ r \in Serving /\ Own(r, Ctx(r)) /\ req[r] \in RequestT
      /\ Stacked(req[r].stack) /\ req[r].stack # <<>> /\ Last(req[r].stack).kind = "handler"
  BY <1>1, ActiveIs
<1>3. Own(r, Advance(Ctx(r)))
  BY <1>2, Advances
<1>. QED
  BY <1>1, <1>2, <1>3, Returns, GoesOn DEF Serves

\* What a call of Next leaves.
Nexted(q) ==
  [q EXCEPT !.stack = Append(Front(@) \o <<[Last(q.stack) EXCEPT !.nexted = TRUE]>>, Frame("Next"))]

LEMMA NextedIs ==
  ASSUME NEW q \in RequestT, Stacked(q.stack), q.stack # <<>>, Last(q.stack).kind = "handler"
  PROVE  LET p == Nexted(q)
             n == Len(q.stack)
         IN /\ p \in RequestT /\ p.c = q.c /\ Stacked(p.stack) /\ p.stack # <<>>
            /\ Last(p.stack) = Frame("Next") /\ Len(p.stack) = n + 1
            /\ p.stack[n].kind = "handler" /\ \A i \in 1..(n - 1) : p.stack[i] = q.stack[i]
            /\ p.run = q.run /\ p.missed = q.missed /\ p.calls = q.calls
<1>. DEFINE s == q.stack
            g == [Last(s) EXCEPT !.nexted = TRUE]
            t == Front(s) \o <<g>>
            u == Append(t, Frame("Next"))
            n == Len(s)
<1>1. Last(s) \in FrameT /\ s \in Seq(FrameT) /\ n \in Nat /\ n >= 1
  BY StackFacts DEF RequestT
<1>2. g \in FrameT /\ g.kind = "handler" /\ g.nexted
  BY <1>1 DEF FrameT, Serves
<1>. HIDE DEF g
<1>3. /\ Stacked(t) /\ t # <<>> /\ Last(t) = g /\ Len(t) = n
      /\ \A i \in 1..(n - 1) : t[i] = s[i]
  BY <1>2, Swaps
<1>4. t[n] = g
  BY <1>3 DEF Last
<1>. HIDE DEF t
<1>5. Frame("Next") \in FrameT /\ Below(g, Frame("Next"))
  BY <1>2 DEF Frame, FrameT, Below, Serves
<1>6. /\ Stacked(u) /\ u # <<>> /\ Last(u) = Frame("Next") /\ Len(u) = n + 1
      /\ \A i \in 1..n : u[i] = t[i]
  BY <1>3, <1>5, Pushes
<1>7. u[n].kind = "handler" /\ \A i \in 1..(n - 1) : u[i] = s[i]
  BY <1>1, <1>2, <1>3, <1>4, <1>6
<1>8. u \in Seq(FrameT) /\ Nexted(q) = [q EXCEPT !.stack = u]
  BY <1>6 DEF Stacked, Nexted, t, g
<1>. HIDE DEF u
<1>9. /\ Nexted(q) \in RequestT /\ Nexted(q).c = q.c /\ Nexted(q).stack = u
      /\ Nexted(q).run = q.run /\ Nexted(q).missed = q.missed /\ Nexted(q).calls = q.calls
  BY <1>8 DEF RequestT
<1>. QED
  BY <1>6, <1>7, <1>9

LEMMA CallNextKeeps ==
  ASSUME Inv, NEW r, CallNext(r)
  PROVE  Inv'
<1>1. Active(r, "handler") /\ Step(r, Advance(Ctx(r)), Nexted(req[r]))
  BY DEF CallNext, Nexted, Top
<1>2. /\ r \in Serving /\ Own(r, Ctx(r)) /\ req[r] \in RequestT
      /\ Stacked(req[r].stack) /\ req[r].stack # <<>> /\ Last(req[r].stack).kind = "handler"
  BY <1>1, ActiveIs
<1>3. Own(r, Advance(Ctx(r)))
  BY <1>2, Advances
<1>. QED
  BY <1>1, <1>2, <1>3, NextedIs, GoesOn

\* What a call of HandleContext leaves.
Saved(i) == [kind |-> "HandleContext", index |-> i]
Handed(q, i, frames) ==
  [q EXCEPT !.stack = @ \o <<Saved(i)>> \o frames, !.calls = @ + 1, !.run = Fresh]

Begins(frames) ==
  frames = <<>> \/ \E k \in Serves : frames = <<Frame(k), Frame("Next")>>

LEMMA HandedIs ==
  ASSUME NEW q \in RequestT, Stacked(q.stack), q.stack # <<>>,
         Last(q.stack).kind = "handler", NEW i \in Int8, NEW frames, Begins(frames)
  PROVE  LET p == Handed(q, i, frames)
             n == Len(q.stack)
         IN /\ p \in RequestT /\ p.c = q.c /\ Stacked(p.stack) /\ p.stack # <<>>
            /\ \A j \in 1..n : p.stack[j] = q.stack[j]
            /\ p.stack[n + 1] = Saved(i)
            /\ IF frames = <<>> THEN Len(p.stack) = n + 1 /\ Last(p.stack) = Saved(i)
               ELSE /\ Len(p.stack) = n + 3 /\ Last(p.stack) = Frame("Next")
                    /\ p.stack[n + 2].kind \in Serves
            /\ p.run = Fresh /\ p.missed = q.missed /\ p.calls = q.calls + 1
<1>. DEFINE s == q.stack
            n == Len(s)
            t == Append(s, Saved(i))
            u == t \o frames
<1>1. Saved(i) \in FrameT /\ Saved(i).kind = "HandleContext" /\ Below(Last(s), Saved(i))
  BY DEF Saved, FrameT, Below, Serves
<1>2. /\ Stacked(t) /\ t # <<>> /\ Last(t) = Saved(i) /\ Len(t) = n + 1
      /\ \A j \in 1..n : t[j] = s[j]
  BY <1>1, Pushes
<1>3. s \in Seq(FrameT) /\ n \in Nat /\ t \in Seq(FrameT) /\ t[n + 1] = Saved(i)
  BY <1>2, StackFacts DEF Stacked, Last
<1>4. s \o <<Saved(i)>> \o frames = u
  <2>1. s \o <<Saved(i)>> = t
    BY <1>1, <1>3, AppendIsConcat
  <2>. QED
    BY <2>1, Zenon
<1>. HIDE DEF t
<1>5. /\ Stacked(u) /\ u # <<>> /\ \A j \in 1..(n + 1) : u[j] = t[j]
      /\ IF frames = <<>> THEN Len(u) = n + 1 /\ Last(u) = Saved(i)
         ELSE /\ Len(u) = n + 3 /\ Last(u) = Frame("Next")
              /\ u[n + 2].kind \in Serves
  <2>1. CASE frames = <<>>
    <3>1. u = t
      BY <1>3, <2>1, ConcatEmptySeq
    <3>. QED
      BY <1>2, <2>1, <3>1
  <2>2. CASE frames # <<>>
    <3>1. PICK k \in Serves : frames = <<Frame(k), Frame("Next")>>
      BY <2>2 DEF Begins
    <3>2. Last(t).kind = "HandleContext"
      BY <1>1, <1>2
    <3>3. u = t \o <<Frame(k), Frame("Next")>>
      BY <3>1
    <3>4. /\ Stacked(u) /\ u # <<>> /\ Last(u) = Frame("Next")
          /\ Len(u) = Len(t) + 2 /\ u[Len(t) + 1] = Frame(k)
          /\ \A j \in 1..Len(t) : u[j] = t[j]
      BY <1>2, <3>2, <3>3, ChainStarts
    <3>. HIDE DEF u
    <3>5. Frame(k).kind \in Serves /\ Len(t) + 1 = n + 2 /\ Len(t) + 2 = n + 3
      BY <1>2, <1>3 DEF Frame
    <3>. QED
      BY <1>2, <2>2, <3>4, <3>5
  <2>. QED
    BY <2>1, <2>2
<1>. HIDE DEF u
<1>6. Fresh \in RunT
  BY Numbers DEF Fresh, RunT, Int8
<1>7. u \in Seq(FrameT)
  BY <1>5 DEF Stacked
<1>8. Handed(q, i, frames) = [q EXCEPT !.stack = u, !.calls = q.calls + 1, !.run = Fresh]
  BY <1>4 DEF Handed
<1>9. /\ Handed(q, i, frames) \in RequestT /\ Handed(q, i, frames).c = q.c
      /\ Handed(q, i, frames).stack = u /\ Handed(q, i, frames).run = Fresh
      /\ Handed(q, i, frames).missed = q.missed /\ Handed(q, i, frames).calls = q.calls + 1
  <2>. DEFINE a == [q EXCEPT !.stack = u]
              b == [a EXCEPT !.calls = q.calls + 1]
              d == [b EXCEPT !.run = Fresh]
  <2>1. /\ a \in RequestT /\ a.c = q.c /\ a.stack = u /\ a.missed = q.missed
        /\ q.calls + 1 \in Nat
    BY <1>7 DEF RequestT
  <2>. HIDE DEF a
  <2>2. /\ b \in RequestT /\ b.c = q.c /\ b.stack = u /\ b.missed = q.missed
        /\ b.calls = q.calls + 1
    BY <2>1 DEF RequestT
  <2>. HIDE DEF b
  <2>3. /\ d \in RequestT /\ d.c = q.c /\ d.stack = u /\ d.missed = q.missed
        /\ d.calls = q.calls + 1 /\ d.run = Fresh
    BY <1>6, <2>2 DEF RequestT
  <2>4. Handed(q, i, frames) = d
    BY <1>8 DEF a, b
  <2>. QED
    BY <2>3, <2>4
<1>10. /\ \A j \in 1..n : u[j] = s[j]
       /\ u[n + 1] = Saved(i)
  BY <1>2, <1>3, <1>5
<1>. QED
  BY <1>5, <1>9, <1>10

LEMMA HandleContextKeeps ==
  ASSUME Inv, NEW r, NEW path, NEW tsr, HandleContext(r, path, tsr)
  PROVE  Inv'
<1>. DEFINE go == handleHTTPRequest(Reset(Ctx(r)), method[r], path, tsr)
            i == Ctx(r).index
<1>1. Active(r, "handler") /\ Step(r, go.c, Handed(req[r], i, go.frames))
  BY DEF HandleContext, Handed, Saved
<1>2. /\ r \in Serving /\ r \in Requests /\ Own(r, Ctx(r)) /\ i \in Int8 /\ req[r] \in RequestT
      /\ Stacked(req[r].stack) /\ req[r].stack # <<>> /\ Last(req[r].stack).kind = "handler"
  BY <1>1, ActiveIs
<1>3. Own(r, Reset(Ctx(r))) /\ Reset(Ctx(r)).index = -1
  BY <1>2, Resets DEF Own
<1>4. Own(r, go.c) /\ Begins(go.frames)
  BY <1>2, <1>3, HandlesReset DEF Begins
<1>. HIDE DEF go
<1>. QED
  BY <1>1, <1>2, <1>4, HandedIs, GoesOn

\* What the end of HandleContext leaves.
Mixed == [Fresh EXCEPT !.mixed = TRUE]

LEMMA RestoredIs ==
  ASSUME NEW q \in RequestT, Stacked(q.stack), q.stack # <<>>,
         Last(q.stack).kind = "HandleContext"
  PROVE  LET p == [q EXCEPT !.stack = Front(@), !.run = Mixed]
         IN /\ p \in RequestT /\ p.c = q.c /\ p.stack = Front(q.stack) /\ Stacked(p.stack)
            /\ p.stack # <<>> /\ p.run = Mixed /\ p.missed = q.missed /\ p.calls = q.calls
            /\ Last(q.stack).index \in Int8 /\ p.run.mixed
<1>. DEFINE f == [q EXCEPT !.stack = Front(@)]
<1>1. /\ f \in RequestT /\ f.c = q.c /\ f.stack = Front(q.stack) /\ Stacked(f.stack)
      /\ f.stack # <<>> /\ f.missed = q.missed /\ f.calls = q.calls
  BY Returns DEF Serves
<1>2. Mixed \in RunT /\ Mixed.mixed
  <2>1. Fresh \in RunT
    BY Numbers DEF Fresh, RunT, Int8
  <2>. QED
    BY <2>1 DEF RunT, Mixed
<1>3. Last(q.stack).index \in Int8
  BY StackFacts DEF RequestT, FrameT, Serves
<1>4. [q EXCEPT !.stack = Front(@), !.run = Mixed] = [f EXCEPT !.run = Mixed]
  OBVIOUS
<1>. HIDE DEF f
<1>. DEFINE g == [f EXCEPT !.run = Mixed]
<1>5. /\ g \in RequestT /\ g.c = f.c /\ g.stack = f.stack /\ g.run = Mixed
      /\ g.missed = f.missed /\ g.calls = f.calls
  BY <1>1, <1>2 DEF RequestT
<1>. HIDE DEF g
<1>6. [q EXCEPT !.stack = Front(@), !.run = Mixed] = g
  BY <1>4 DEF g
<1>. QED
  BY <1>1, <1>2, <1>3, <1>5, <1>6

LEMMA HandleContextEndKeeps ==
  ASSUME Inv, NEW r, HandleContextEnd(r)
  PROVE  Inv'
<1>. DEFINE d == [Ctx(r) EXCEPT !.index = Last(req[r].stack).index]
            q == [req[r] EXCEPT !.stack = Front(@), !.run = Mixed]
<1>1. Active(r, "HandleContext") /\ Step(r, d, q)
  BY DEF HandleContextEnd, Mixed, Top
<1>2. /\ r \in Serving /\ Own(r, Ctx(r)) /\ req[r] \in RequestT
      /\ Stacked(req[r].stack) /\ req[r].stack # <<>>
      /\ Last(req[r].stack).kind = "HandleContext"
  BY <1>1, ActiveIs
<1>3. /\ q \in RequestT /\ q.c = req[r].c /\ Stacked(q.stack) /\ q.stack # <<>>
      /\ Last(req[r].stack).index \in Int8
  BY <1>2, RestoredIs
<1>4. Own(r, d)
  BY <1>2, <1>3, SetsIndex
<1>. HIDE DEF d, q
<1>. QED
  BY <1>1, <1>2, <1>3, <1>4, GoesOn

\* What a static folder leaves that does not find the file.
Missed(q) ==
  [q EXCEPT !.stack = Front(@), !.calls = @ + 1, !.run = Fresh, !.missed = TRUE]

LEMMA MissedIs ==
  ASSUME NEW q \in RequestT, Stacked(q.stack), q.stack # <<>>,
         Last(q.stack).kind = "handler"
  PROVE  LET p == Missed(q)
         IN /\ p \in RequestT /\ p.c = q.c /\ p.stack = Front(q.stack) /\ Stacked(p.stack)
            /\ p.stack # <<>> /\ p.run = Fresh /\ p.missed /\ p.calls = q.calls + 1
<1>. DEFINE a == [q EXCEPT !.stack = Front(@)]
            b == [a EXCEPT !.calls = q.calls + 1]
            d == [b EXCEPT !.run = Fresh]
            e == [d EXCEPT !.missed = TRUE]
<1>1. /\ a \in RequestT /\ a.c = q.c /\ a.stack = Front(q.stack) /\ Stacked(a.stack)
      /\ a.stack # <<>> /\ q.calls + 1 \in Nat
  <2>1. q.calls + 1 \in Nat
    BY DEF RequestT
  <2>. QED
    BY <2>1, Returns DEF Serves
<1>2. Missed(q) = e
  BY DEF Missed
<1>. HIDE DEF a
<1>3. b \in RequestT /\ b.c = a.c /\ b.stack = a.stack /\ b.calls = q.calls + 1
  BY <1>1 DEF RequestT
<1>. HIDE DEF b
<1>4. Fresh \in RunT
  BY Numbers DEF Fresh, RunT, Int8
<1>5. d \in RequestT /\ d.c = b.c /\ d.stack = b.stack /\ d.calls = b.calls /\ d.run = Fresh
  BY <1>3, <1>4 DEF RequestT
<1>. HIDE DEF d
<1>6. /\ e \in RequestT /\ e.c = d.c /\ e.stack = d.stack /\ e.calls = d.calls
      /\ e.run = d.run /\ e.missed
  BY <1>5 DEF RequestT
<1>. HIDE DEF e
<1>. QED
  BY <1>1, <1>2, <1>3, <1>5, <1>6

LEMMA StaticMissingKeeps ==
  ASSUME Inv, NEW r, StaticMissing(r)
  PROVE  Inv'
<1>. DEFINE c == Ctx(r)
            d == [c EXCEPT !.handlers = noRoute]
            e == [d EXCEPT !.index = 0]
<1>1. Active(r, "handler") /\ Step(r, [c EXCEPT !.handlers = noRoute, !.index = 0], Missed(req[r]))
  BY DEF StaticMissing, Missed
<1>2. /\ r \in Serving /\ Own(r, c) /\ req[r] \in RequestT
      /\ Stacked(req[r].stack) /\ req[r].stack # <<>> /\ Last(req[r].stack).kind = "handler"
  BY <1>1, ActiveIs
<1>3. Step(r, e, Missed(req[r]))
  BY <1>1
<1>4. Own(r, d)
  BY <1>2, SetsHandlers
<1>6. 0 \in Int8
  BY Numbers DEF Int8
<1>. HIDE DEF d
<1>5. Own(r, e)
  BY <1>4, <1>6, SetsIndex
<1>. HIDE DEF e
<1>. QED
  BY <1>2, <1>3, <1>5, MissedIs, GoesOn

LEMMA ServeEndKeeps ==
  ASSUME Inv, NEW r, ServeEnd(r)
  PROVE  Inv'
<1>. DEFINE d == [Ctx(r) EXCEPT !.written = TRUE]
            q == [req[r] EXCEPT !.stack = Front(@)]
<1>1. Step(r, d, q) /\ \E k \in Serves : Active(r, k)
  BY DEF ServeEnd, Serves
<1>2. /\ r \in Serving /\ Own(r, Ctx(r)) /\ req[r] \in RequestT
      /\ Stacked(req[r].stack) /\ req[r].stack # <<>>
  BY <1>1, ActiveIs
<1>3. Own(r, d) /\ d.written
  BY <1>2, SetsWritten
<1>4. q \in RequestT /\ q.c = req[r].c /\ Stacked(q.stack)
  BY <1>2, Returns
<1>. HIDE DEF d, q
<1>. QED
  BY <1>1, <1>2, <1>3, <1>4, GoesOn

LEMMA ServeStepKeeps ==
  ASSUME Inv, NEW r \in Requests, Serve(r)
  PROVE  Inv'
<1>1. ASSUME NEW c \in Contexts, NEW path, NEW tsr, ServeHTTP(r, c, path, tsr)
      PROVE  Inv'
  BY <1>1, ServeKeeps
<1>2. ASSUME Panic(r) PROVE Inv'
  <2>1. r \in Serving /\ Lost(r)
    BY <1>2 DEF Panic, Active
  <2>. QED
    BY <2>1, LostKeeps
<1>3. \/ \E c \in Contexts, path \in asked[r], tsr \in BOOLEAN : ServeHTTP(r, c, path, tsr)
      \/ NextLoop(r) \/ Return(r) \/ CallNext(r) \/ Calls(r)
      \/ \E path \in asked[r], tsr \in BOOLEAN : HandleContext(r, path, tsr)
      \/ HandleContextEnd(r) \/ StaticMissing(r)
      \/ ServeEnd(r) \/ ServeHTTPEnd(r) \/ Panic(r)
  BY Zenon DEF Serve, Calls
<1>. QED
  BY <1>1, <1>2, <1>3, NextLoopKeeps, ReturnKeeps, CallNextKeeps, CallsKeep,
     HandleContextKeeps, HandleContextEndKeeps, StaticMissingKeeps, ServeEndKeeps, EndKeeps

LEMMA StillKeeps ==
  ASSUME Inv, UNCHANGED <<pool, ctx, req>>
  PROVE  Inv'
BY DEF Inv, Shared, Locals, Live, Serving, Ctx

LEMMA InitInv == Init => Inv
<1>. SUFFICES ASSUME Init PROVE Inv
  OBVIOUS
<1>1. Live = {} /\ Serving = {} /\ pool = {}
  BY DEF Init, Live, Serving
<1>. QED
  BY <1>1 DEF Inv, Shared, Locals

LEMMA NextKeeps == Inv /\ [Next]_vars => Inv'
<1>. SUFFICES ASSUME Inv, [Next]_vars PROVE Inv'
  OBVIOUS
<1>1. CASE SetUp
  BY <1>1, StillKeeps DEF SetUp
<1>2. CASE Run
  BY <1>2, StillKeeps DEF Run
<1>3. CASE Collect
  BY <1>3, CollectKeeps
<1>4. CASE \E r \in Requests : Serve(r)
  BY <1>4, ServeStepKeeps
<1>5. CASE UNCHANGED vars
  BY <1>5, StillKeeps DEF vars
<1>. QED
  BY <1>1, <1>2, <1>3, <1>4, <1>5 DEF Next

THEOREM InvHolds == Spec => []Inv
BY InitInv, NextKeeps, PTL DEF Spec

\* Requests do not share a context, a context holds nothing of an earlier
\* request, and it is in the pool only when its response has been sent: of any
\* number of requests and contexts, whatever the routes and the handlers do
\* (Engine.ServeHTTP and the pool, Context.reset, HandleContext).
THEOREM IsolatedHolds == Spec => []Isolated
<1>1. Inv => Isolated
  BY DEF Inv, Shared, Locals, Local, Own, Isolated
<1>. QED
  BY <1>1, InvHolds, PTL

-----------------------------------------------------------------------------
(* The calls that set the engine up. *)

\* A chain that combineHandlers lets through.
Short(chain) == chain \in Seq(Handlers) /\ ~ TooMany(chain)

RouteT == [methods : MethodLists, path : Paths, chain : Seq(Handlers)]

SetUpT ==
  /\ phase \in {"setup", "serving", "panic"} /\ calls \in 0..MaxSetUp
  /\ groups \in [{"engine", "sub"} -> Seq(Handlers) \cup {None}]
  /\ groups["engine"] \in Seq(Handlers)
  /\ noRoute \in Seq(Handlers) /\ noMethod \in Seq(Handlers)
  /\ Short(noRoute) /\ Short(allNoRoute) /\ Short(allNoMethod)
  /\ registered \in Seq(RouteT)
  /\ \A i \in DOMAIN registered : Short(registered[i].chain)
  /\ ErrorChainsKept

\* The length of a chain that is combined of two.
LEMMA Combined ==
  ASSUME NEW a \in Seq(Handlers), NEW b \in Seq(Handlers)
  PROVE  a \o b \in Seq(Handlers) /\ (~ TooMany(a \o b) => Short(b) /\ Short(a \o b))
<1>1. /\ a \o b \in Seq(Handlers) /\ Len(a \o b) = Len(a) + Len(b)
      /\ Len(a) \in Nat /\ Len(b) \in Nat /\ abortIndex \in Nat
  BY ConcatProperties, Numbers
<1>. QED
  BY <1>1 DEF TooMany, Short

LEMMA SetUpKeeps ==
  ASSUME SetUpT, SetUp
  PROVE  SetUpT'
<1>. USE DEF SetUpT
<1>1. calls' \in 0..MaxSetUp
  BY GinAssumption DEF GinAssumption, SetUp
<1>2. PICK handlers \in HandlerLists :
        \/ Use(handlers) \/ GroupUse(handlers)
        \/ Group(handlers) \/ NoRoute(handlers) \/ NoMethod(handlers)
        \/ \E g \in {"engine", "sub"}, ms \in MethodLists, path \in Paths : Handle(g, ms, path, handlers)
  BY DEF SetUp
<1>3. handlers \in Seq(Handlers)
  BY GinAssumption DEF GinAssumption
<1>4. ASSUME NEW g \in {"engine", "sub"}, groups[g] # None
      PROVE  groups[g] \in Seq(Handlers)
  BY <1>4
<1>5. CASE Fail
  BY <1>1, <1>5 DEF Fail, ErrorChainsKept
<1>6. CASE Use(handlers)
  <2>. DEFINE new == groups["engine"] \o handlers
  <2>1. CASE TooMany(new \o noRoute) \/ TooMany(new \o noMethod)
    BY <1>5, <1>6, <2>1 DEF Use, combineHandlers
  <2>2. CASE ~ (TooMany(new \o noRoute) \/ TooMany(new \o noMethod))
    <3>1. /\ groups' = [groups EXCEPT !["engine"] = new]
          /\ allNoRoute' = new \o noRoute /\ allNoMethod' = new \o noMethod
          /\ UNCHANGED <<phase, noRoute, noMethod, registered>>
      BY <1>6, <2>2 DEF Use, combineHandlers
    <3>2. new \in Seq(Handlers)
      BY <1>3, ConcatProperties
    <3>. HIDE DEF new
    <3>3. Short(new \o noRoute) /\ Short(new \o noMethod)
      BY <2>2, <3>2, Combined
    <3>4. groups' \in [{"engine", "sub"} -> Seq(Handlers) \cup {None}] /\ groups'["engine"] = new
      BY <3>1, <3>2
    <3>. QED
      BY <1>1, <3>1, <3>2, <3>3, <3>4 DEF ErrorChainsKept
  <2>. QED
    BY <2>1, <2>2
<1>7. CASE GroupUse(handlers)
  <2>1. groups["sub"] \o handlers \in Seq(Handlers)
    BY <1>3, <1>4, <1>7, ConcatProperties DEF GroupUse
  <2>2. /\ groups' \in [{"engine", "sub"} -> Seq(Handlers) \cup {None}]
        /\ groups'["engine"] = groups["engine"]
    BY <1>7, <2>1 DEF GroupUse
  <2>. QED
    BY <1>1, <1>7, <2>2 DEF GroupUse, ErrorChainsKept
<1>8. CASE Group(handlers)
  <2>. DEFINE chain == groups["engine"] \o handlers
  <2>1. CASE TooMany(chain)
    BY <1>5, <1>8, <2>1 DEF Group, combineHandlers
  <2>2. CASE ~ TooMany(chain)
    <3>1. chain \in Seq(Handlers)
      BY <1>3, ConcatProperties
    <3>2. /\ groups' \in [{"engine", "sub"} -> Seq(Handlers) \cup {None}]
          /\ groups'["engine"] = groups["engine"]
      BY <1>8, <2>2, <3>1 DEF Group, combineHandlers
    <3>. QED
      BY <1>1, <1>8, <2>2, <3>2 DEF Group, combineHandlers, ErrorChainsKept
  <2>. QED
    BY <2>1, <2>2
<1>9. CASE NoRoute(handlers)
  <2>. DEFINE chain == groups["engine"] \o handlers
  <2>1. CASE TooMany(chain)
    BY <1>5, <1>9, <2>1 DEF NoRoute, combineHandlers
  <2>2. CASE ~ TooMany(chain)
    <3>1. Short(chain) /\ Short(handlers)
      BY <1>3, <2>2, Combined
    <3>. QED
      BY <1>1, <1>3, <1>9, <2>2, <3>1 DEF NoRoute, combineHandlers, ErrorChainsKept
  <2>. QED
    BY <2>1, <2>2
<1>10. CASE NoMethod(handlers)
  <2>. DEFINE chain == groups["engine"] \o handlers
  <2>1. CASE TooMany(chain)
    BY <1>5, <1>10, <2>1 DEF NoMethod, combineHandlers
  <2>2. CASE ~ TooMany(chain)
    <3>1. Short(chain)
      BY <1>3, <2>2, Combined
    <3>. QED
      BY <1>1, <1>3, <1>10, <2>2, <3>1 DEF NoMethod, combineHandlers, ErrorChainsKept
  <2>. QED
    BY <2>1, <2>2
<1>11. ASSUME NEW g \in {"engine", "sub"}, NEW ms \in MethodLists, NEW path \in Paths,
              Handle(g, ms, path, handlers)
       PROVE  SetUpT'
  <2>. DEFINE chain == groups[g] \o handlers
              new == [methods |-> ms, path |-> path, chain |-> chain]
  <2>1. groups[g] # None /\ \/ Fail
                            \/ /\ ~ TooMany(chain)
                               /\ registered' = Append(registered, new)
                               /\ UNCHANGED <<phase, groups, noRoute, noMethod, allNoRoute, allNoMethod>>
    BY <1>11, Zenon DEF Handle, combineHandlers
  <2>2. Short(chain) \/ Fail
    BY <1>3, <1>4, <2>1, Combined
  <2>3. CASE ~ Fail
    <3>1. chain \in Seq(Handlers) /\ Short(chain)
      BY <2>2, <2>3 DEF Short
    <3>. HIDE DEF chain
    <3>2. new \in RouteT /\ new.chain = chain
      BY <3>1 DEF RouteT
    <3>. HIDE DEF new
    <3>6. registered' = Append(registered, new) /\ registered \in Seq(RouteT)
      BY <2>1, <2>3
    <3>7. new \in RouteT
      BY <3>2
    <3>3. /\ registered' \in Seq(RouteT) /\ Len(registered') = Len(registered) + 1
          /\ registered'[Len(registered) + 1] = new
          /\ \A i \in 1..Len(registered) : registered'[i] = registered[i]
      BY <3>6, <3>7, AppendProperties
    <3>4. /\ DOMAIN registered = 1..Len(registered) /\ Len(registered) \in Nat
          /\ DOMAIN registered' = 1..Len(registered')
      BY <3>3, <3>6
    <3>5. ASSUME NEW i \in DOMAIN registered' PROVE Short(registered'[i].chain)
      <4>1. CASE i = Len(registered) + 1
        BY <3>1, <3>2, <3>3, <4>1
      <4>2. CASE i # Len(registered) + 1
        <5>1. i \in DOMAIN registered /\ registered'[i] = registered[i]
          BY <3>3, <3>4, <4>2
        <5>. QED
          BY <5>1
      <4>. QED
        BY <4>1, <4>2
    <3>. QED
      BY <1>1, <2>1, <2>3, <3>3, <3>5 DEF ErrorChainsKept
  <2>. QED
    BY <1>5, <2>3
<1>. QED
  BY <1>2, <1>6, <1>7, <1>8, <1>9, <1>10, <1>11

LEMMA SetUpHolds == Spec => []SetUpT
<1>1. Init => SetUpT
  <2>1. abortIndex >= 1 /\ abortIndex \in Nat /\ Len(<<>>) = 0 /\ <<>> \in Seq(Handlers)
    BY Numbers
  <2>2. Short(<<>>)
    BY <2>1 DEF Short, TooMany
  <2>3. <<>> \in Seq(RouteT) /\ DOMAIN <<>> = {}
    OBVIOUS
  <2>4. 0 \in 0..MaxSetUp
    BY GinAssumption DEF GinAssumption
  <2>5. SUFFICES ASSUME Init PROVE SetUpT
    OBVIOUS
  <2>6. groups \in [{"engine", "sub"} -> Seq(Handlers) \cup {None}] /\ groups["engine"] = <<>>
    <3>1. groups = [engine |-> <<>>, sub |-> None]
      BY <2>5 DEF Init
    <3>2. DOMAIN groups = {"engine", "sub"} /\ groups["engine"] = <<>> /\ groups["sub"] = None
      BY <3>1
    <3>3. groups = [x \in {"engine", "sub"} |-> groups[x]]
      BY <3>1
    <3>. QED
      BY <2>1, <3>2, <3>3
  <2>7. <<>> \o <<>> = <<>>
    BY <2>1, ConcatEmptySeq
  <2>8. ErrorChainsKept
    BY <2>5, <2>6, <2>7 DEF ErrorChainsKept, Init
  <2>. QED
    BY <2>1, <2>2, <2>3, <2>4, <2>5, <2>6, <2>8 DEF Init, SetUpT
<1>2. SetUpT /\ [Next]_vars => SetUpT'
  <2>. SUFFICES ASSUME SetUpT, [Next]_vars PROVE SetUpT'
    OBVIOUS
  <2>1. ASSUME UNCHANGED <<groups, noRoute, noMethod, allNoRoute, allNoMethod, registered>>,
               calls' \in 0..MaxSetUp, phase' \in {"setup", "serving", "panic"}
        PROVE  SetUpT'
    BY <2>1 DEF SetUpT, ErrorChainsKept
  <2>2. CASE SetUp
    BY <2>2, SetUpKeeps
  <2>3. CASE Run
    BY <2>1, <2>3, GinAssumption DEF Run, GinAssumption
  <2>4. ASSUME UNCHANGED <<phase, setup>> PROVE SetUpT'
    BY <2>1, <2>4 DEF SetUpT, setup
  <2>5. CASE Collect
    BY <2>4, <2>5 DEF Collect
  <2>6. ASSUME NEW r \in Requests, Serve(r) PROVE UNCHANGED <<phase, setup>>
    BY <2>6 DEF Serve, ServeHTTP, NextLoop, Return, CallNext, Abort, AbortWithStatus,
      AbortWithError, Bind, Negotiate, Render, Set, InitCache, HandleContext,
      HandleContextEnd, StaticMissing, ServeEnd, ServeHTTPEnd, Panic, Lost, Step
  <2>7. CASE UNCHANGED vars
    BY <2>4, <2>7 DEF vars
  <2>. QED
    BY <2>2, <2>3, <2>4, <2>5, <2>6, <2>7 DEF Next
<1>. QED
  BY <1>1, <1>2, PTL DEF Spec

\* The chains for requests without a route and with another method's are always
\* those of the engine as it is: Use builds them again, and NoRoute and NoMethod
\* replace their own part, in whatever order the calls come.
THEOREM ErrorChainsKeptHolds == Spec => []ErrorChainsKept
<1>1. SetUpT => ErrorChainsKept
  BY DEF SetUpT
<1>. QED
  BY <1>1, SetUpHolds, PTL

-----------------------------------------------------------------------------
(* The index of a context, when the chains are short. *)

\* A tree gives only chains that have been registered.
LEMMA ChosenShort ==
  ASSUME SetUpT, RoutesKept, NEW m \in Methods, NEW path, NEW chain \in Chosen(m, path)
  PROVE  Short(chain)
<1>1. CASE chain \in {allNoMethod, allNoRoute}
  BY <1>1 DEF SetUpT
<1>2. CASE chain = Lookup(trees[m], path) /\ chain # NoHandlers
  <2>. DEFINE found == {route \in ToSet(Routes(trees[m])) : route.path = path}
  <2>1. found # {} /\ chain = (CHOOSE route \in found : TRUE).handlers
    BY <1>2 DEF Lookup
  <2>2. PICK route \in ToSet(Routes(trees[m])) : chain = route.handlers
    BY <2>1
  <2>3. PICK i \in DOMAIN registered :
          route = [path |-> registered[i].path, fullPath |-> registered[i].path,
                   handlers |-> registered[i].chain]
    BY <2>2 DEF RoutesKept
  <2>. QED
    BY <2>2, <2>3 DEF SetUpT
<1>. QED
  BY <1>1, <1>2 DEF Chosen

\* The frame f is d above the serve of its chain and i is the index when it runs
\* next.  Every handler below it has started at an index of its own, and raises
\* the index once more when it returns; one that has not called Next may do so.
RoomFor(f, d, i) ==
  /\ f.kind = "Next" =>
       d - 1 <= 2 * i /\ 2 * i + d - 1 <= 4 * abortIndex /\ d - 1 <= 2 * abortIndex - 2
  /\ f.kind = "handler" /\ f.nexted =>
       d <= 2 * i /\ 2 * i + d <= 4 * abortIndex /\ d <= 2 * abortIndex - 2
  /\ f.kind = "handler" /\ ~ f.nexted =>
       d <= 2 * i + 2 /\ 2 * i + d + 2 <= 4 * abortIndex /\ d <= 2 * abortIndex - 2

Roomy(i) == i \in -1..(2 * abortIndex)

Fits(s, p, i) ==
  /\ Roomy(i)
  /\ p > 0 /\ s[p].kind # "HandleContext" =>
       \E b \in 1..p : s[b].kind \in Serves /\ RoomFor(s[p], p - b, i)

\* A chain that HandleContext interrupts goes on at the index it saved.
Room(s, i) ==
  /\ Fits(s, Len(s), i)
  /\ \A p \in 1..Len(s) : s[p].kind = "HandleContext" => Fits(s, p - 1, s[p].index)

\* What happens above the first k frames.
LEMMA RoomAbove ==
  ASSUME NEW s \in Seq(FrameT), NEW t \in Seq(FrameT), NEW i, NEW j, Room(s, i),
         NEW k \in Nat, k <= Len(s), k <= Len(t), \A p \in 1..k : t[p] = s[p],
         \A p \in (k + 1)..Len(t) : t[p].kind = "HandleContext" => Fits(t, p - 1, t[p].index),
         Fits(t, Len(t), j)
  PROVE  Room(t, j)
<1>1. Len(s) \in Nat /\ Len(t) \in Nat
  OBVIOUS
<1>2. ASSUME NEW p \in 1..k, t[p].kind = "HandleContext"
      PROVE  Fits(t, p - 1, t[p].index)
  <2>1. t[p] = s[p] /\ p \in 1..Len(s)
    BY <1>1
  <2>2. Fits(s, p - 1, t[p].index)
    BY <1>2, <2>1 DEF Room
  <2>3. \A b \in 1..(p - 1) : t[b] = s[b]
    BY <1>1
  <2>4. p - 1 > 0 => p - 1 \in 1..(p - 1)
    OBVIOUS
  <2>. QED
    BY <2>2, <2>3, <2>4 DEF Fits
<1>3. ASSUME NEW p \in 1..Len(t), t[p].kind = "HandleContext"
      PROVE  Fits(t, p - 1, t[p].index)
  <2>1. CASE p <= k
    BY <1>2, <1>3, <2>1
  <2>2. CASE ~ (p <= k)
    BY <1>1, <1>3, <2>2
  <2>. QED
    BY <2>1, <2>2
<1>. QED
  BY <1>3 DEF Room

\* The base of the chain that runs.
LEMMA Base ==
  ASSUME NEW s, Stacked(s), s # <<>>, NEW i, Room(s, i)
  PROVE  /\ Roomy(i)
         /\ Last(s).kind # "HandleContext" =>
              \E b \in 1..Len(s) : s[b].kind \in Serves /\ RoomFor(Last(s), Len(s) - b, i)
BY StackFacts DEF Room, Fits, Stacked

\* The same stack, at another index.
LEMMA RoomStays ==
  ASSUME NEW s, Stacked(s), s # <<>>, NEW i, NEW j, Room(s, i), Roomy(j),
         Last(s).kind # "HandleContext",
         \A d \in Nat : RoomFor(Last(s), d, i) => RoomFor(Last(s), d, j)
  PROVE  Room(s, j)
<1>1. /\ s \in Seq(FrameT) /\ Len(s) \in Nat /\ Last(s) = s[Len(s)]
  BY StackFacts DEF Stacked
<1>2. PICK b \in 1..Len(s) : s[b].kind \in Serves /\ RoomFor(Last(s), Len(s) - b, i)
  BY Base
<1>3. RoomFor(s[Len(s)], Len(s) - b, j)
  BY <1>1, <1>2
<1>. QED
  BY <1>1, <1>2, <1>3 DEF Room, Fits

\* A frame f returns that is not the base of its chain.
LEMMA RoomPops ==
  ASSUME NEW s, Stacked(s), s # <<>>, NEW i \in Int, NEW j, Room(s, i), Roomy(j),
         Last(s).kind \in {"Next", "handler"},
         \A d \in Nat : RoomFor(Last(s), d + 1, i) => RoomFor(Last(Front(s)), d, j)
  PROVE  Room(Front(s), j)
<1>. DEFINE t == Front(s)
            n == Len(s)
<1>1. /\ s \in Seq(FrameT) /\ n \in Nat /\ Last(s) = s[n]
      /\ t \in Seq(FrameT) /\ Len(t) = n - 1 /\ \A p \in 1..(n - 1) : t[p] = s[p]
  BY StackFacts DEF Stacked
<1>2. n > 1 /\ Last(t) = s[n - 1]
  BY Pops DEF Serves
<1>3. PICK b \in 1..n : s[b].kind \in Serves /\ RoomFor(Last(s), n - b, i)
  BY Base
<1>4. b \in 1..(n - 1) /\ n - 1 - b \in Nat
  BY <1>1, <1>3 DEF Serves
<1>. HIDE DEF t, n
<1>5. RoomFor(Last(t), (n - 1) - b, j)
  <2>1. n - b = (n - 1 - b) + 1
    BY <1>1, <1>4
  <2>. QED
    BY <1>3, <1>4, <2>1 DEF t
<1>6. Fits(t, n - 1, j)
  <2>1. t[n - 1] = Last(t) /\ t[b] = s[b]
    BY <1>1, <1>2, <1>4
  <2>. QED
    BY <1>3, <1>4, <1>5, <2>1 DEF Fits
<1>. QED
  <2>1. n - 1 \in Nat /\ n - 1 <= Len(s) /\ n - 1 <= Len(t) /\ (n - 1 + 1)..Len(t) = {}
    BY <1>1, <1>2 DEF n
  <2>. QED
    BY <1>1, <1>6, <2>1, RoomAbove DEF t

\* The base of a chain, or HandleContext itself, returns.
LEMMA RoomEnds ==
  ASSUME NEW s, Stacked(s), s # <<>>, NEW i, NEW j, Room(s, i), Roomy(j),
         \/ Last(s).kind \in Serves
         \/ Last(s).kind = "HandleContext" /\ j = Last(s).index
  PROVE  Room(Front(s), j)
<1>. DEFINE t == Front(s)
            n == Len(s)
<1>1. /\ s \in Seq(FrameT) /\ n \in Nat /\ n >= 1 /\ Last(s) = s[n]
      /\ t \in Seq(FrameT) /\ Len(t) = n - 1 /\ \A p \in 1..(n - 1) : t[p] = s[p]
  BY StackFacts DEF Stacked
<1>2. n > 1 => Below(t[n - 1], s[n])
  BY <1>1, Pops DEF Last
<1>. HIDE DEF t, n
<1>3. Fits(t, n - 1, j)
  <2>1. CASE Last(s).kind \in Serves
    <3>1. n > 1 => t[n - 1].kind = "HandleContext"
      BY <1>1, <1>2, <2>1 DEF Below
    <3>. QED
      BY <1>1, <3>1 DEF Fits
  <2>2. CASE Last(s).kind = "HandleContext" /\ j = Last(s).index
    <3>1. Fits(s, n - 1, j)
      BY <1>1, <2>2 DEF Room, n
    <3>. QED
      BY <1>1, <3>1 DEF Fits
  <2>. QED
    BY <2>1, <2>2
<1>4. n - 1 \in Nat /\ n - 1 <= Len(s) /\ n - 1 <= Len(t) /\ (n - 1 + 1)..Len(t) = {}
  BY <1>1 DEF n
<1>. QED
  BY <1>1, <1>3, <1>4, RoomAbove DEF t

\* A frame f is called by the last one, of which at most nexted changes: t is
\* what s becomes.
LEMMA RoomCalls ==
  ASSUME NEW s, Stacked(s), s # <<>>, NEW i \in Int, NEW j, Room(s, i), Roomy(j),
         Last(s).kind \notin {"HandleContext"},
         NEW t, Stacked(t), Len(t) = Len(s) + 1,
         \A p \in 1..(Len(s) - 1) : t[p] = s[p],
         t[Len(s)].kind = Last(s).kind, Last(t).kind \in {"Next", "handler"},
         \A d \in Nat : RoomFor(Last(s), d, i) => RoomFor(Last(t), d + 1, j)
  PROVE  Room(t, j)
<1>. DEFINE n == Len(s)
<1>1. /\ s \in Seq(FrameT) /\ n \in Nat /\ n >= 1 /\ Last(s) = s[n]
      /\ t \in Seq(FrameT) /\ Len(t) = n + 1 /\ \A p \in 1..(n - 1) : t[p] = s[p]
  BY StackFacts DEF Stacked
<1>2. Last(t) = t[n + 1]
  BY <1>1 DEF Last
<1>3. PICK b \in 1..n : s[b].kind \in Serves /\ RoomFor(Last(s), n - b, i)
  BY Base
<1>4. n - b \in Nat /\ t[b].kind \in Serves
  BY <1>1, <1>3
<1>. HIDE DEF n
<1>5. RoomFor(t[n + 1], (n + 1) - b, j)
  <2>1. (n + 1) - b = (n - b) + 1
    BY <1>1, <1>4
  <2>. QED
    BY <1>2, <1>3, <1>4, <2>1
<1>6. Fits(t, n + 1, j)
  BY <1>1, <1>3, <1>4, <1>5 DEF Fits
<1>7. \A p \in (n - 1 + 1)..Len(t) : t[p].kind # "HandleContext"
  BY <1>1, <1>2
<1>. QED
  <2>1. n - 1 \in Nat /\ n - 1 <= Len(s) /\ n - 1 <= Len(t)
    BY <1>1 DEF n
  <2>. QED
    BY <1>1, <1>6, <1>7, <2>1, RoomAbove

\* A chain starts, on an empty stack or above HandleContext.
LEMMA StartFits ==
  ASSUME NEW t \in Seq(FrameT), NEW b \in Nat, b >= 1, t[b].kind \in Serves,
         t[b + 1] = Frame("Next")
  PROVE  Fits(t, b + 1, 0)
<1>1. RoomFor(t[b + 1], (b + 1) - b, 0)
  <2>1. t[b + 1].kind = "Next" /\ (b + 1) - b = 1
    BY DEF Frame
  <2>. QED
    BY <2>1, Numbers DEF RoomFor
<1>2. Roomy(0)
  BY Numbers DEF Roomy
<1>. QED
  BY <1>1, <1>2 DEF Fits

LEMMA RoomStarts ==
  ASSUME NEW frames, Begins(frames), NEW j, j = IF frames = <<>> THEN -1 ELSE 0
  PROVE  Room(frames, j)
<1>1. CASE frames = <<>>
  BY <1>1, Numbers DEF Room, Fits, Roomy
<1>2. CASE frames # <<>>
  <2>1. PICK k \in Serves : frames = <<Frame(k), Frame("Next")>>
    BY <1>2 DEF Begins
  <2>2. Frame(k) \in FrameT /\ Frame("Next") \in FrameT
    BY DEF Frame, FrameT, Serves
  <2>3. /\ frames \in Seq(FrameT) /\ Len(frames) = 2
        /\ frames[1] = Frame(k) /\ frames[2] = Frame("Next")
    BY <2>1, <2>2
  <2>4. frames[1].kind \in Serves /\ \A p \in 1..2 : frames[p].kind # "HandleContext"
    BY <2>3 DEF Frame, Serves
  <2>5. Fits(frames, 1 + 1, 0)
    BY <2>3, <2>4, StartFits
  <2>. QED
    BY <1>2, <2>3, <2>4, <2>5 DEF Room
<1>. QED
  BY <1>1, <1>2

\* HandleContext saves the index of the handler that called it.
LEMMA RoomHanded ==
  ASSUME NEW q \in RequestT, Stacked(q.stack), q.stack # <<>>,
         Last(q.stack).kind = "handler", NEW i \in Int8, NEW frames, Begins(frames),
         Room(q.stack, i), NEW j, j = IF frames = <<>> THEN -1 ELSE 0
  PROVE  Room(Handed(q, i, frames).stack, j)
<1>. DEFINE s == q.stack
            n == Len(s)
            t == Handed(q, i, frames).stack
<1>1. /\ Stacked(t) /\ \A p \in 1..n : t[p] = s[p]
      /\ t[n + 1] = Saved(i)
      /\ IF frames = <<>> THEN Len(t) = n + 1 /\ Last(t) = Saved(i)
         ELSE /\ Len(t) = n + 3 /\ Last(t) = Frame("Next")
              /\ t[n + 2].kind \in Serves
  BY HandedIs
<1>. HIDE DEF t
<1>2. /\ s \in Seq(FrameT) /\ n \in Nat /\ t \in Seq(FrameT) /\ n >= 1
  BY <1>1, StackFacts DEF Stacked
<1>3. Saved(i).kind = "HandleContext" /\ Saved(i).index = i
  BY DEF Saved
<1>4. Fits(t, n, i)
  <2>1. Fits(s, n, i)
    BY DEF Room
  <2>2. s[n].kind = "handler" /\ t[n] = s[n]
    BY <1>1, <1>2 DEF Last
  <2>3. PICK b \in 1..n : s[b].kind \in Serves /\ RoomFor(s[n], n - b, i)
    BY <1>2, <2>1, <2>2 DEF Fits
  <2>4. t[b].kind \in Serves /\ RoomFor(t[n], n - b, i)
    BY <1>1, <2>2, <2>3
  <2>. QED
    BY <2>1, <2>4 DEF Fits
<1>5. Fits(t, Len(t), j)
  <2>1. CASE frames = <<>>
    BY <1>1, <1>3, <2>1, Numbers DEF Fits, Roomy
  <2>2. CASE frames # <<>>
    <3>1. Len(t) = n + 2 + 1 /\ t[n + 2 + 1] = Frame("Next") /\ n + 2 \in Nat /\ n + 2 >= 1
      BY <1>1, <1>2, <2>2 DEF Last
    <3>2. Fits(t, n + 2 + 1, 0)
      BY <1>1, <1>2, <2>2, <3>1, StartFits
    <3>. QED
      BY <2>2, <3>1, <3>2
  <2>. QED
    BY <2>1, <2>2
<1>6. ASSUME NEW p \in (n + 1)..Len(t), t[p].kind = "HandleContext"
      PROVE  Fits(t, p - 1, t[p].index)
  <2>1. CASE p = n + 1
    BY <1>1, <1>2, <1>3, <1>4, <2>1
  <2>2. CASE p # n + 1
    <3>1. frames # <<>> /\ p \in {n + 2, n + 3}
      BY <1>1, <1>2, <2>2
    <3>2. t[n + 3].kind = "Next"
      BY <1>1, <1>2, <3>1 DEF Last, Frame
    <3>. QED
      BY <1>1, <1>6, <3>1, <3>2 DEF Serves
  <2>. QED
    BY <2>1, <2>2
<1>. QED
  <2>1. n <= Len(s) /\ n <= Len(t)
    BY <1>1, <1>2
  <2>. QED
    BY <1>1, <1>2, <1>5, <1>6, <2>1, RoomAbove DEF t

-----------------------------------------------------------------------------
(* The order of the handlers of a chain. *)

\* The last frame t of a request, the index i of its context and the length n of
\* its chain, when HandleContext has not left it to the loops of another one.
\* An index that has wrapped ends its loop, with a panic.
InOrder(t, i, n, run) ==
  /\ t.kind = "Next" =>
       IF run.aborted THEN i < 0 \/ i >= abortIndex ELSE i < 0 \/ i >= n \/ i = run.last + 1
  /\ t.kind = "handler" =>
       /\ i >= 0
       /\ IF run.aborted THEN i >= abortIndex ELSE IF t.nexted THEN i >= n ELSE i = run.last

Order(c, q) ==
  q.stack # <<>> /\ ~ q.run.mixed =>
    InOrder(Last(q.stack), c.index, Len(c.handlers), q.run)

Steady(r, c, q) ==
  /\ Short(c.handlers) /\ q.calls <= MaxCalls[r] /\ Order(c, q)
  /\ ~ q.missed => Room(q.stack, c.index)

\* A loop of Next ends.
LEMMA LoopEnds ==
  ASSUME NEW r, NEW c, NEW q \in RequestT, Own(r, c), Stacked(q.stack), q.stack # <<>>,
         Last(q.stack).kind = "Next", Steady(r, c, q), c.index >= Len(c.handlers)
  PROVE  Steady(r, c, [q EXCEPT !.stack = Front(@)])
<1>. DEFINE p == [q EXCEPT !.stack = Front(@)]
            i == c.index
            n == Len(c.handlers)
<1>1. /\ p.stack = Front(q.stack) /\ p.stack # <<>> /\ Stacked(p.stack)
      /\ p.run = q.run /\ p.missed = q.missed /\ p.calls = q.calls
  BY Returns DEF Serves
<1>. HIDE DEF p
<1>2. Last(p.stack).kind \in Serves \/ (Last(p.stack).kind = "handler" /\ Last(p.stack).nexted)
  <2>1. Len(q.stack) > 1
    BY Pops DEF Serves
  <2>2. Below(Last(p.stack), Last(q.stack))
    BY <1>1, <2>1, Pops
  <2>. QED
    BY <2>2 DEF Below
<1>3. i \in Int /\ n \in Nat /\ abortIndex \in Nat /\ n < abortIndex
  BY Numbers DEF Own, IsContext, Int8, Steady, Short, TooMany
<1>4. Order(c, p)
  <2>1. ASSUME ~ q.run.mixed
        PROVE  IF q.run.aborted THEN i < 0 \/ i >= abortIndex
               ELSE i < 0 \/ i >= n \/ i = q.run.last + 1
    BY <2>1 DEF Steady, Order, InOrder
  <2>2. Last(p.stack).kind # "Next"
    BY <1>2 DEF Serves
  <2>3. i >= 0 /\ i >= n
    BY <1>3
  <2>4. ASSUME Last(p.stack).kind = "handler"
        PROVE  Last(p.stack).nexted
    BY <1>2, <2>4 DEF Serves
  <2>. QED
    BY <1>1, <1>3, <2>1, <2>2, <2>3, <2>4 DEF Order, InOrder
<1>5. ASSUME ~ q.missed PROVE Room(p.stack, i)
  <2>1. Room(q.stack, i)
    BY <1>5 DEF Steady
  <2>2. Roomy(i)
    BY <2>1, Base
  <2>3. ASSUME NEW d \in Nat, RoomFor(Last(q.stack), d + 1, i)
        PROVE  RoomFor(Last(p.stack), d, i)
    BY <1>2, <1>3, <2>3 DEF RoomFor, Serves
  <2>. QED
    BY <1>1, <1>3, <2>1, <2>2, <2>3, RoomPops
<1>. QED
  BY <1>1, <1>4, <1>5 DEF Steady, p

\* It starts the handler at the index.
LEMMA LoopStarts ==
  ASSUME NEW r, NEW c, NEW q \in RequestT, Own(r, c), Stacked(q.stack), q.stack # <<>>,
         Last(q.stack).kind = "Next", Steady(r, c, q),
         c.index < Len(c.handlers), c.index >= 0
  PROVE  /\ Steady(r, c, Handled(q, c.index))
         /\ ~ q.run.mixed => ~ q.run.aborted /\ c.index = q.run.last + 1
<1>. DEFINE p == Handled(q, c.index)
            i == c.index
            n == Len(c.handlers)
<1>1. i \in Int /\ i \in Int8 /\ n \in Nat /\ abortIndex \in Nat /\ n < abortIndex
  BY Numbers DEF Own, IsContext, Int8, Steady, Short, TooMany
<1>2. /\ p.stack = Append(q.stack, Handling) /\ p.stack # <<>> /\ Stacked(p.stack)
      /\ Last(p.stack) = Handling /\ p.missed = q.missed /\ p.calls = q.calls
      /\ p.run.aborted = q.run.aborted /\ p.run.mixed = q.run.mixed
      /\ p.run.last = IF q.run.mixed THEN -1 ELSE i
  BY <1>1, HandledIs
<1>. HIDE DEF p
<1>3. ASSUME ~ q.run.mixed
      PROVE  ~ q.run.aborted /\ i = q.run.last + 1
  BY <1>1, <1>3 DEF Steady, Order, InOrder
<1>4. Handling.kind = "handler" /\ ~ Handling.nexted
  BY DEF Handling
<1>5. Order(c, p)
  BY <1>1, <1>2, <1>3, <1>4 DEF Order, InOrder
<1>6. ASSUME ~ q.missed PROVE Room(p.stack, i)
  <2>1. Room(q.stack, i)
    BY <1>6 DEF Steady
  <2>2. Roomy(i)
    BY <2>1, Base
  <2>3. ASSUME NEW d \in Nat, RoomFor(Last(q.stack), d, i)
        PROVE  RoomFor(Last(p.stack), d + 1, i)
    BY <1>1, <1>2, <1>4, <2>3 DEF RoomFor
  <2>4. /\ Len(p.stack) = Len(q.stack) + 1
        /\ \A x \in 1..Len(q.stack) : p.stack[x] = q.stack[x]
    BY <1>2, AppendProperties, Handling \in FrameT DEF Stacked, Handling, FrameT
  <2>5. Last(q.stack) = q.stack[Len(q.stack)] /\ Len(q.stack) \in Nat /\ Len(q.stack) >= 1
    BY StackFacts DEF Stacked
  <2>6. /\ p.stack[Len(q.stack)].kind = Last(q.stack).kind
        /\ \A x \in 1..(Len(q.stack) - 1) : p.stack[x] = q.stack[x]
    BY <2>4, <2>5
  <2>. QED
    BY <1>1, <1>2, <1>4, <2>1, <2>2, <2>3, <2>4, <2>6, RoomCalls
<1>. QED
  BY <1>2, <1>3, <1>5, <1>6 DEF Steady, p

\* A handler returns to the loop that started it.
LEMMA HandlerReturns ==
  ASSUME NEW r, NEW c, NEW q \in RequestT, Own(r, c), Stacked(q.stack), q.stack # <<>>,
         Last(q.stack).kind = "handler", Steady(r, c, q)
  PROVE  Steady(r, Advance(c), [q EXCEPT !.stack = Front(@)])
<1>. DEFINE p == [q EXCEPT !.stack = Front(@)]
            i == c.index
            j == Inc(i)
            n == Len(c.handlers)
            t == Last(q.stack)
<1>1. /\ p.stack = Front(q.stack) /\ p.stack # <<>> /\ Stacked(p.stack)
      /\ p.run = q.run /\ p.missed = q.missed /\ p.calls = q.calls
  BY Returns DEF Serves
<1>. HIDE DEF p
<1>2. Last(p.stack).kind = "Next"
  <2>1. Len(q.stack) > 1
    BY Pops DEF Serves
  <2>2. Below(Last(p.stack), Last(q.stack))
    BY <1>1, <2>1, Pops
  <2>. QED
    BY <2>2 DEF Below
<1>3. i \in Int /\ i \in Int8 /\ n \in Nat /\ abortIndex \in Nat /\ n < abortIndex
  BY Numbers DEF Own, IsContext, Int8, Steady, Short, TooMany
<1>4. Advance(c).index = j /\ Advance(c).handlers = c.handlers
  BY Advances
<1>5. j \in Int8 /\ (j = i + 1 \/ j < 0) /\ (i < MaxInt8 => j = i + 1)
  BY <1>3, IncIs
<1>. HIDE DEF i, j, n
<1>6. ASSUME ~ q.run.mixed
      PROVE  InOrder(Last(p.stack), j, n, q.run)
  <2>1. InOrder(t, i, n, q.run)
    BY <1>6 DEF Steady, Order, i, n
  <2>. QED
    BY <1>2, <1>3, <1>5, <2>1 DEF InOrder, Int8
<1>7. Order(Advance(c), p)
  BY <1>1, <1>4, <1>6 DEF Order, n
<1>8. ASSUME ~ q.missed PROVE Room(p.stack, j)
  <2>1. Room(q.stack, i)
    BY <1>8 DEF Steady, i
  <2>2. Roomy(i)
    BY <2>1, Base
  <2>3. j = i + 1 /\ Roomy(j)
    <3>1. PICK b \in 1..Len(q.stack) : /\ q.stack[b].kind \in Serves
                                       /\ RoomFor(t, Len(q.stack) - b, i)
      BY <2>1, Base
    <3>2. Len(q.stack) - b >= 1 /\ Len(q.stack) - b \in Nat
      <4>1. Last(q.stack) = q.stack[Len(q.stack)] /\ Len(q.stack) \in Nat
        BY StackFacts DEF Stacked
      <4>. QED
        BY <3>1, <4>1 DEF Serves
    <3>5. ASSUME NEW d \in Nat, d >= 1, RoomFor(t, d, i)
          PROVE  2 * i + 1 <= 4 * abortIndex
      <4>1. 2 * i + d <= 4 * abortIndex \/ 2 * i + d + 2 <= 4 * abortIndex
        BY <3>5 DEF RoomFor
      <4>. QED
        BY <1>3, <3>5, <4>1
    <3>3. 2 * i + 1 <= 4 * abortIndex
      BY <3>1, <3>2, <3>5
    <3>4. i + 1 <= 2 * abortIndex /\ i < MaxInt8
      BY <1>3, <3>3, Numbers
    <3>. QED
      BY <1>3, <1>5, <2>2, <3>4 DEF Roomy
  <2>4. ASSUME NEW d \in Nat, RoomFor(t, d + 1, i)
        PROVE  RoomFor(Last(p.stack), d, j)
    BY <1>2, <1>3, <2>3, <2>4 DEF RoomFor
  <2>. QED
    BY <1>1, <1>3, <2>1, <2>3, <2>4, RoomPops
<1>. QED
  BY <1>1, <1>4, <1>7, <1>8 DEF Steady, p

\* A handler calls Next.
LEMMA HandlerNexts ==
  ASSUME NEW r, NEW c, NEW q \in RequestT, Own(r, c), Stacked(q.stack), q.stack # <<>>,
         Last(q.stack).kind = "handler", ~ Last(q.stack).nexted, Steady(r, c, q)
  PROVE  Steady(r, Advance(c), Nexted(q))
<1>. DEFINE p == Nexted(q)
            i == c.index
            j == Inc(i)
            n == Len(c.handlers)
            t == Last(q.stack)
            m == Len(q.stack)
<1>1. /\ p.stack # <<>> /\ Stacked(p.stack)
      /\ Last(p.stack) = Frame("Next") /\ Len(p.stack) = m + 1
      /\ p.stack[m].kind = "handler" /\ \A x \in 1..(m - 1) : p.stack[x] = q.stack[x]
      /\ p.run = q.run /\ p.missed = q.missed /\ p.calls = q.calls
  BY NextedIs
<1>. HIDE DEF p
<1>2. Last(p.stack).kind = "Next"
  BY <1>1 DEF Frame
<1>3. i \in Int /\ i \in Int8 /\ n \in Nat /\ abortIndex \in Nat /\ n < abortIndex
  BY Numbers DEF Own, IsContext, Int8, Steady, Short, TooMany
<1>4. Advance(c).index = j /\ Advance(c).handlers = c.handlers
  BY Advances
<1>5. j \in Int8 /\ (j = i + 1 \/ j < 0) /\ (i < MaxInt8 => j = i + 1)
  BY <1>3, IncIs
<1>. HIDE DEF i, j, n
<1>6. ASSUME ~ q.run.mixed
      PROVE  InOrder(Last(p.stack), j, n, q.run)
  <2>1. InOrder(t, i, n, q.run)
    BY <1>6 DEF Steady, Order, i, n
  <2>. QED
    BY <1>2, <1>3, <1>5, <2>1 DEF InOrder, Int8
<1>7. Order(Advance(c), p)
  BY <1>1, <1>4, <1>6 DEF Order, n
<1>8. ASSUME ~ q.missed PROVE Room(p.stack, j)
  <2>1. Room(q.stack, i)
    BY <1>8 DEF Steady, i
  <2>2. Roomy(i)
    BY <2>1, Base
  <2>3. j = i + 1 /\ Roomy(j)
    <3>1. PICK b \in 1..Len(q.stack) : RoomFor(t, Len(q.stack) - b, i)
      BY <2>1, Base
    <3>2. Len(q.stack) - b \in Nat
      BY <3>1, StackFacts DEF Stacked
    <3>3. ASSUME NEW d \in Nat, RoomFor(t, d, i)
          PROVE  2 * i + 2 <= 4 * abortIndex
      <4>1. 2 * i + d + 2 <= 4 * abortIndex
        BY <3>3 DEF RoomFor
      <4>. QED
        BY <1>3, <3>3, <4>1
    <3>4. 2 * i + 2 <= 4 * abortIndex
      BY <3>1, <3>2, <3>3
    <3>5. i + 1 <= 2 * abortIndex /\ i < MaxInt8
      BY <1>3, <3>4, Numbers
    <3>. QED
      BY <1>3, <1>5, <2>2, <3>5 DEF Roomy
  <2>4. ASSUME NEW d \in Nat, RoomFor(t, d, i)
        PROVE  RoomFor(Last(p.stack), d + 1, j)
    <3>1. d <= 2 * i + 2 /\ 2 * i + d + 2 <= 4 * abortIndex /\ d <= 2 * abortIndex - 2
      BY <2>4 DEF RoomFor
    <3>. QED
      BY <1>2, <1>3, <2>3, <3>1 DEF RoomFor
  <2>. QED
    BY <1>1, <1>2, <1>3, <2>1, <2>3, <2>4, RoomCalls
<1>. QED
  BY <1>1, <1>4, <1>7, <1>8 DEF Steady, p

\* A handler aborts the chain, or calls something that leaves the index.
LEMMA HandlerCalls ==
  ASSUME NEW r, NEW c, NEW d, NEW q \in RequestT, Own(r, c), Stacked(q.stack),
         q.stack # <<>>, Last(q.stack).kind = "handler", Steady(r, c, q),
         d.handlers = c.handlers, NEW p,
         p.stack = q.stack, p.missed = q.missed, p.calls = q.calls,
         p.run.mixed = q.run.mixed,
         \/ d.index = c.index /\ p.run = q.run
         \/ d.index = abortIndex /\ p.run.aborted = ~ q.run.mixed
  PROVE  Steady(r, d, p)
<1>. DEFINE t == Last(q.stack)
<1>1. c.index \in Int /\ abortIndex \in Nat /\ Len(c.handlers) < abortIndex /\ Len(c.handlers) \in Nat
  BY Numbers DEF Own, IsContext, Int8, Steady, Short, TooMany
<1>2. CASE d.index = c.index /\ p.run = q.run
  BY <1>2 DEF Steady, Order
<1>3. CASE d.index = abortIndex /\ p.run.aborted = ~ q.run.mixed
  <2>1. Order(d, p)
    <3>1. ASSUME ~ p.run.mixed PROVE p.run.aborted
      <4>1. ~ q.run.mixed /\ p.run.aborted = ~ q.run.mixed
        BY <1>3, <3>1
      <4>. QED
        BY <4>1, Zenon
    <3>2. d.index >= 0 /\ d.index >= abortIndex /\ t.kind # "Next" /\ t = Last(p.stack)
      BY <1>1, <1>3
    <3>. QED
      BY <3>1, <3>2 DEF Order, InOrder
  <2>2. ASSUME ~ q.missed PROVE Room(q.stack, abortIndex)
    <3>1. Room(q.stack, c.index)
      BY <2>2 DEF Steady
    <3>2. Roomy(abortIndex)
      BY <1>1 DEF Roomy
    <3>3. ASSUME NEW x \in Nat, RoomFor(t, x, c.index)
          PROVE  RoomFor(t, x, abortIndex)
      <4>1. x <= 2 * abortIndex - 2
        BY <3>3 DEF RoomFor
      <4>. QED
        BY <1>1, <3>3, <4>1 DEF RoomFor
    <3>. QED
      BY <3>1, <3>2, <3>3, RoomStays
  <2>. QED
    BY <1>3, <2>1, <2>2 DEF Steady
<1>. QED
  BY <1>2, <1>3

\* A chain starts that a tree or the engine has.
LEMMA Starting ==
  ASSUME NEW r, NEW c, NEW q, Short(c.handlers), q.calls <= MaxCalls[r],
         q.run = Fresh, NEW frames, Begins(frames),
         c.index = IF frames = <<>> THEN -1 ELSE 0,
         frames # <<>> => Last(q.stack) = Frame("Next"),
         frames = <<>> => q.stack = <<>> \/ Last(q.stack).kind = "HandleContext",
         ~ q.missed => Room(q.stack, c.index)
  PROVE  Steady(r, c, q)
<1>1. Fresh.last = -1 /\ ~ Fresh.aborted
  BY DEF Fresh
<1>2. CASE frames = <<>>
  BY <1>2 DEF Steady, Order, InOrder
<1>3. CASE frames # <<>>
  <2>1. Last(q.stack).kind = "Next" /\ c.index = q.run.last + 1 /\ ~ q.run.aborted
    BY <1>1, <1>3 DEF Frame
  <2>. QED
    BY <2>1 DEF Steady, Order, InOrder
<1>. QED
  BY <1>2, <1>3

\* The chain that HandleContext interrupted goes on, at the index it was at.
LEMMA Resumes ==
  ASSUME NEW r, NEW c, NEW q \in RequestT, Own(r, c), Stacked(q.stack), q.stack # <<>>,
         Last(q.stack).kind = "HandleContext", Steady(r, c, q),
         NEW d, d.handlers = c.handlers, d.index = Last(q.stack).index
  PROVE  Steady(r, d, [q EXCEPT !.stack = Front(@), !.run = Mixed])
<1>. DEFINE p == [q EXCEPT !.stack = Front(@), !.run = Mixed]
            j == Last(q.stack).index
<1>1. /\ p.stack = Front(q.stack) /\ p.run.mixed /\ p.missed = q.missed /\ p.calls = q.calls
  BY RestoredIs
<1>. HIDE DEF p
<1>2. ASSUME ~ q.missed PROVE Room(p.stack, j)
  <2>1. Room(q.stack, c.index)
    BY <1>2 DEF Steady
  <2>2. Last(q.stack) = q.stack[Len(q.stack)] /\ Len(q.stack) \in 1..Len(q.stack)
    BY StackFacts DEF Stacked
  <2>3. Roomy(j)
    BY <2>1, <2>2 DEF Room, Fits
  <2>. QED
    BY <1>1, <2>1, <2>3, RoomEnds
<1>. QED
  BY <1>1, <1>2 DEF Steady, Order, p

\* handleHTTPRequest returns.
LEMMA ChainEnds ==
  ASSUME NEW r, NEW c, NEW q \in RequestT, Own(r, c), Stacked(q.stack), q.stack # <<>>,
         Last(q.stack).kind \in Serves, Steady(r, c, q),
         NEW d, d.handlers = c.handlers, d.index = c.index
  PROVE  Steady(r, d, [q EXCEPT !.stack = Front(@)])
<1>. DEFINE p == [q EXCEPT !.stack = Front(@)]
<1>1. /\ p.stack = Front(q.stack) /\ p.run = q.run /\ p.missed = q.missed /\ p.calls = q.calls
  BY Returns
<1>. HIDE DEF p
<1>2. p.stack # <<>> => Last(p.stack).kind = "HandleContext"
  <2>1. /\ Len(Front(q.stack)) = Len(q.stack) - 1 /\ Len(q.stack) \in Nat
        /\ Len(q.stack) >= 1 /\ Front(q.stack) \in Seq(FrameT)
    BY StackFacts DEF Stacked
  <2>3. Front(q.stack) # <<>> => Len(Front(q.stack)) # 0
    BY <2>1, StackFacts
  <2>2. p.stack # <<>> => Below(Last(p.stack), Last(q.stack))
    BY <1>1, <2>1, <2>3, Pops
  <2>. QED
    BY <2>2 DEF Below
<1>3. ASSUME ~ q.missed PROVE Room(p.stack, c.index)
  <2>1. Room(q.stack, c.index)
    BY <1>3 DEF Steady
  <2>2. Roomy(c.index)
    BY <2>1, Base
  <2>. QED
    BY <1>1, <2>1, <2>2, RoomEnds
<1>. QED
  BY <1>1, <1>2, <1>3 DEF Steady, Order, InOrder, p

-----------------------------------------------------------------------------
(* All requests. *)

Steadies ==
  /\ \A r \in Serving : Steady(r, Ctx(r), req[r])
  /\ \A c \in pool : Short(ctx[c].handlers)

\* What the proofs of a step start from.
Known == Inv /\ SetUpT /\ RoutesKept /\ Steadies

LEMMA SteadyStep ==
  ASSUME Inv, Steadies, NEW r \in Serving, NEW c, NEW q, Step(r, c, q),
         q.c = req[r].c, Steady(r, c, q)
  PROVE  Steadies'
<1>. USE DEF Inv, Shared, Steadies, Step, Serving, Live, Ctx
<1>1. Live' = Live /\ Serving' = Serving /\ pool' = pool
  OBVIOUS
<1>2. \A s \in Serving : req'[s] = IF s = r THEN q ELSE req[s]
  OBVIOUS
<1>3. \A d \in Live : ctx'[d] = IF d = req[r].c THEN c ELSE ctx[d]
  OBVIOUS
<1>4. \A s \in Serving : req'[s].c = req[s].c
  BY <1>2
<1>5. \A s \in Serving : Ctx(s)' = IF s = r THEN c ELSE Ctx(s)
  BY <1>2, <1>3
<1>6. \A d \in pool : ctx'[d] = ctx[d]
  BY <1>3
<1>. QED
  BY <1>1, <1>2, <1>5, <1>6

LEMMA SteadyLost ==
  ASSUME Inv, Steadies, NEW r \in Serving, Lost(r)
  PROVE  Steadies'
<1>. USE DEF Inv, Shared, Steadies, Lost, Restrict, Serving, Live, Ctx
<1>1. /\ Live' = Live \ {req[r].c} /\ Serving' = Serving \ {r} /\ pool' = pool
      /\ \A s \in Serving' : req'[s] = req[s]
      /\ \A d \in Live' : ctx'[d] = ctx[d]
  OBVIOUS
<1>2. \A s \in Serving' : s \in Serving /\ req[s].c \in Live' /\ Ctx(s)' = Ctx(s)
  BY <1>1
<1>3. pool \subseteq Live'
  BY <1>1
<1>. QED
  BY <1>1, <1>2, <1>3

LEMMA SteadyCollect ==
  ASSUME Inv, Steadies, Collect
  PROVE  Steadies'
<1>. USE DEF Inv, Shared, Steadies, Collect, Restrict, Serving, Live, Ctx
<1>1. /\ Live' = Live \ pool /\ pool' = {} /\ Serving' = Serving /\ req' = req
      /\ \A d \in Live' : ctx'[d] = ctx[d]
  OBVIOUS
<1>2. \A s \in Serving : req[s].c \in Live' /\ Ctx(s)' = Ctx(s)
  BY <1>1
<1>. QED
  BY <1>1, <1>2

LEMMA EmptyShort == Short(<<>>)
BY Numbers DEF Short, TooMany

LEMMA SteadyEnd ==
  ASSUME Inv, Steadies, NEW r \in Requests, ServeHTTPEnd(r)
  PROVE  Steadies'
<1>. DEFINE c == req[r].c
            d == [ctx[c] EXCEPT !.handlers = <<>>, !.index = -1]
<1>1. /\ r \in Serving /\ pool' = pool \cup {c}
      /\ Serving' = Serving \ {r} /\ \A s \in Serving' : req'[s] = req[s]
  BY DEF ServeHTTPEnd, Restrict, Serving
<1>2. c \in Live \ pool /\ IsContext(ctx[c])
  BY <1>1 DEF Inv, Shared, Locals, Local, Own, Ctx
<1>3. /\ DOMAIN ctx' = DOMAIN ctx /\ ctx'[c] = d
      /\ \A x \in Live \ {c} : ctx'[x] = ctx[x]
  BY <1>2 DEF ServeHTTPEnd, Live
<1>4. Short(d.handlers)
  BY <1>2, EmptyShort DEF IsContext
<1>. HIDE DEF c, d
<1>. USE DEF Inv, Shared, Steadies, Serving, Live, Ctx
<1>5. \A s \in Serving' : s \in Serving /\ req[s].c # c /\ req[s].c \in Live
  BY <1>1 DEF c
<1>6. \A s \in Serving' : Ctx(s)' = Ctx(s)
  BY <1>1, <1>3, <1>5
<1>7. \A x \in pool' : Short(ctx'[x].handlers)
  BY <1>1, <1>2, <1>3, <1>4
<1>. QED
  BY <1>1, <1>5, <1>6, <1>7

\* The context and the frames with which a request starts to be served.
LEMMA Served ==
  ASSUME SetUpT, RoutesKept, NEW r \in Requests, NEW c, Own(r, c), c.index = -1,
         c.handlers = <<>>, NEW path, NEW tsr
  PROVE  LET go == handleHTTPRequest(c, method[r], path, tsr)
         IN /\ Own(r, go.c) /\ Begins(go.frames) /\ Short(go.c.handlers)
            /\ go.c.index = IF go.frames = <<>> THEN -1 ELSE 0
<1>. DEFINE go == handleHTTPRequest(c, method[r], path, tsr)
<1>1. /\ Own(r, go.c)
      /\ \/ /\ go.frames = <<>> /\ go.c.written
            /\ go.c.index = -1 /\ go.c.handlers = c.handlers
         \/ /\ \E k \in Serves : go.frames = <<Frame(k), Frame("Next")>>
            /\ go.c.index = 0 /\ go.c.handlers \in Chosen(method[r], path)
  BY HandlesReset
<1>2. method[r] \in Methods
  BY GinAssumption DEF GinAssumption
<1>. HIDE DEF go
<1>3. Begins(go.frames)
  BY <1>1, Zenon DEF Begins
<1>4. CASE go.frames = <<>> /\ go.c.index = -1 /\ go.c.handlers = c.handlers
  <2>1. Short(go.c.handlers)
    BY <1>4, EmptyShort, Zenon
  <2>. QED
    BY <1>1, <1>3, <1>4, <2>1 DEF go
<1>5. CASE /\ \E k \in Serves : go.frames = <<Frame(k), Frame("Next")>>
           /\ go.c.index = 0 /\ go.c.handlers \in Chosen(method[r], path)
  <2>1. Short(go.c.handlers)
    BY <1>2, <1>5, ChosenShort
  <2>2. go.frames # <<>>
    BY <1>5
  <2>. QED
    BY <1>1, <1>3, <1>5, <2>1, <2>2 DEF go
<1>. QED
  BY <1>1, <1>4, <1>5

LEMMA SteadyServe ==
  ASSUME Known, NEW r \in Requests, NEW c \in Contexts, NEW path, NEW tsr,
         ServeHTTP(r, c, path, tsr)
  PROVE  Steadies'
<1>. DEFINE go == handleHTTPRequest(Fetched(c), method[r], path, tsr)
            q == ServedAs(c, go)
<1>. USE DEF Known
<1>1. /\ Begins(go.frames) /\ Short(go.c.handlers)
      /\ go.c.index = IF go.frames = <<>> THEN -1 ELSE 0
  BY Fetches, Served
<1>2. /\ q.c = c /\ q.stack = go.frames /\ q.calls = 0 /\ q.run = Fresh /\ ~ q.missed
  BY DEF ServedAs
<1>3. /\ r \notin Serving /\ (c \in pool \/ c \notin Live)
      /\ ctx' = [d \in Live \cup {c} |-> IF d = c THEN go.c ELSE ctx[d]]
      /\ req' = [s \in Serving \cup {r} |-> IF s = r THEN q ELSE req[s]]
      /\ pool' = pool \ {c}
  BY DEF ServeHTTP, Fetched, ServedAs
<1>. HIDE DEF go, q
<1>4. Steady(r, go.c, q)
  <2>1. Room(q.stack, go.c.index)
    BY <1>1, <1>2, RoomStarts
  <2>2. q.calls <= MaxCalls[r]
    BY <1>2, GinAssumption DEF GinAssumption
  <2>3. ASSUME go.frames # <<>>
        PROVE  Last(q.stack) = Frame("Next")
    <3>1. PICK k \in Serves : q.stack = <<Frame(k), Frame("Next")>>
      BY <1>1, <1>2, <2>3 DEF Begins
    <3>2. Len(q.stack) = 2 /\ q.stack[2] = Frame("Next")
      BY <3>1
    <3>. QED
      BY <3>2 DEF Last
  <2>. QED
    BY <1>1, <1>2, <2>1, <2>2, <2>3, Starting
<1>. USE DEF Inv, Shared, Steadies, Serving, Live, Ctx
<1>5. /\ Live' = Live \cup {c} /\ Serving' = Serving \cup {r}
      /\ \A s \in Serving : req'[s] = req[s] /\ s # r
      /\ req'[r] = q /\ ctx'[c] = go.c
      /\ \A d \in Live : d # c => ctx'[d] = ctx[d]
  BY <1>3
<1>6. \A s \in Serving : req[s].c # c /\ req[s].c \in Live
  BY <1>3
<1>7. /\ \A s \in Serving : Ctx(s)' = Ctx(s)
      /\ Ctx(r)' = go.c
  BY <1>2, <1>5, <1>6
<1>8. \A d \in pool' : Short(ctx'[d].handlers)
  BY <1>3, <1>5
<1>. QED
  BY <1>4, <1>5, <1>7, <1>8

\* What a handler of r does, and the end of a chain.
LEMMA SteadyLoop ==
  ASSUME Known, NEW r, NextLoop(r)
  PROVE  /\ Steadies'
         /\ Starts(r) /\ ~ req[r].run.mixed =>
              ~ req[r].run.aborted /\ Ctx(r).index = req[r].run.last + 1
<1>. DEFINE c == Ctx(r)
            q == req[r]
            p == [q EXCEPT !.stack = Front(@)]
<1>1. Active(r, "Next")
  BY DEF NextLoop
<1>2. /\ r \in Serving /\ Own(r, c) /\ c.index \in Int8 /\ q \in RequestT
      /\ Stacked(q.stack) /\ q.stack # <<>> /\ Last(q.stack).kind = "Next"
  BY <1>1, ActiveIs DEF Known
<1>3. Steady(r, c, q)
  BY <1>2 DEF Known, Steadies
<1>4. c.index \in Int /\ Len(c.handlers) \in Nat
  BY <1>2, <1>3 DEF Int8, Steady, Short
<1>5. \/ c.index >= Len(c.handlers) /\ Step(r, c, p)
      \/ Lost(r)
      \/ c.index < Len(c.handlers) /\ c.index >= 0 /\ Step(r, c, Handled(q, c.index))
  BY <1>4 DEF NextLoop, Handled, Handling
<1>6. CASE c.index >= Len(c.handlers) /\ Step(r, c, p)
  <2>1. p.c = q.c /\ p.stack = Front(q.stack)
    BY <1>2, Returns
  <2>2. Steady(r, c, p)
    BY <1>2, <1>3, <1>6, LoopEnds
  <2>3. Steadies'
    BY <1>2, <1>6, <2>1, <2>2, SteadyStep DEF Known
  <2>4. ~ Starts(r)
    <3>1. req'[r] = p
      BY <1>2, <1>6 DEF Step, Serving
    <3>2. Len(Front(q.stack)) = Len(q.stack) - 1 /\ Len(q.stack) \in Nat
      BY <1>2, StackFacts DEF Stacked
    <3>. QED
      BY <2>1, <3>1, <3>2 DEF Starts
  <2>. QED
    BY <2>3, <2>4
<1>7. CASE Lost(r)
  <2>1. Steadies'
    BY <1>2, <1>7, SteadyLost DEF Known
  <2>2. r \notin Serving'
    BY <1>7 DEF Lost, Restrict, Serving
  <2>. QED
    BY <2>1, <2>2 DEF Starts
<1>8. CASE c.index < Len(c.handlers) /\ c.index >= 0 /\ Step(r, c, Handled(q, c.index))
  <2>1. /\ Steady(r, c, Handled(q, c.index))
        /\ ~ q.run.mixed => ~ q.run.aborted /\ c.index = q.run.last + 1
    BY <1>2, <1>3, <1>8, LoopStarts
  <2>2. Handled(q, c.index).c = q.c
    BY <1>2, HandledIs
  <2>3. Steadies'
    BY <1>2, <1>8, <2>1, <2>2, SteadyStep DEF Known
  <2>. QED
    BY <2>1, <2>3
<1>. QED
  BY <1>5, <1>6, <1>7, <1>8

LEMMA SteadyReturn ==
  ASSUME Known, NEW r, Return(r) \/ CallNext(r)
  PROVE  Steadies'
<1>. DEFINE c == Ctx(r)
            q == req[r]
            p == [q EXCEPT !.stack = Front(@)]
<1>1. \/ Step(r, Advance(c), p)
      \/ ~ Last(q.stack).nexted /\ Step(r, Advance(c), Nexted(q))
  BY DEF Return, CallNext, Nexted, Top
<1>2. /\ r \in Serving /\ Own(r, c) /\ q \in RequestT
      /\ Stacked(q.stack) /\ q.stack # <<>> /\ Last(q.stack).kind = "handler"
  BY ActiveIs DEF Known, Return, CallNext
<1>3. Steady(r, c, q)
  BY <1>2 DEF Known, Steadies
<1>4. Steady(r, Advance(c), p) /\ p.c = q.c
  BY <1>2, <1>3, HandlerReturns, Returns
<1>5. ~ Last(q.stack).nexted => Steady(r, Advance(c), Nexted(q)) /\ Nexted(q).c = q.c
  BY <1>2, <1>3, HandlerNexts, NextedIs
<1>. HIDE DEF p
<1>. QED
  BY <1>1, <1>2, <1>4, <1>5, SteadyStep DEF Known

LEMMA SteadyCalls ==
  ASSUME Known, NEW r, Calls(r)
  PROVE  Steadies'
<1>. DEFINE c == Ctx(r)
            q == req[r]
<1>1. Active(r, "handler") /\ Wrote(r)
  BY CallsWrite DEF Known
<1>2. /\ r \in Serving /\ Own(r, c) /\ q \in RequestT
      /\ Stacked(q.stack) /\ q.stack # <<>> /\ Last(q.stack).kind = "handler"
  BY <1>1, ActiveIs DEF Known
<1>3. Steady(r, c, q)
  BY <1>2 DEF Known, Steadies
<1>4. PICK d : /\ Own(r, d) /\ d.handlers = c.handlers
               /\ \/ d.index = c.index /\ Step(r, d, q)
                  \/ d.index = abortIndex /\ Step(r, d, Aborted(r))
  BY <1>1 DEF Wrote
<1>5. CASE d.index = c.index /\ Step(r, d, q)
  <2>1. Steady(r, d, q)
    BY <1>2, <1>3, <1>4, <1>5, HandlerCalls
  <2>. QED
    BY <1>2, <1>5, <2>1, SteadyStep DEF Known
<1>6. CASE d.index = abortIndex /\ Step(r, d, Aborted(r))
  <2>1. /\ Aborted(r).c = q.c /\ Aborted(r).stack = q.stack
        /\ Aborted(r).missed = q.missed /\ Aborted(r).calls = q.calls
        /\ Aborted(r).run.aborted = ~ q.run.mixed
        /\ Aborted(r).run.mixed = q.run.mixed
    BY <1>2, AbortedIs
  <2>2. Steady(r, d, Aborted(r))
    BY <1>2, <1>3, <1>4, <1>6, <2>1, HandlerCalls
  <2>. QED
    BY <1>2, <1>6, <2>1, <2>2, SteadyStep DEF Known
<1>. QED
  BY <1>4, <1>5, <1>6

LEMMA CallsFit ==
  ASSUME Known, NEW r \in Requests, req[r].calls \in Nat, req[r].calls < MaxCalls[r]
  PROVE  req[r].calls + 1 <= MaxCalls[r]
BY GinAssumption DEF GinAssumption

LEMMA SteadyHandleContext ==
  ASSUME Known, NEW r, NEW path, NEW tsr, HandleContext(r, path, tsr)
  PROVE  Steadies'
<1>. DEFINE c == Ctx(r)
            q == req[r]
            go == handleHTTPRequest(Reset(c), method[r], path, tsr)
            p == Handed(q, c.index, go.frames)
<1>1. Active(r, "handler") /\ q.calls < MaxCalls[r] /\ Step(r, go.c, p)
  BY DEF HandleContext, Handed, Saved
<1>2. /\ r \in Serving /\ r \in Requests /\ Own(r, c) /\ c.index \in Int8 /\ q \in RequestT
      /\ Stacked(q.stack) /\ q.stack # <<>> /\ Last(q.stack).kind = "handler"
  BY <1>1, ActiveIs DEF Known
<1>3. Steady(r, c, q)
  BY <1>2 DEF Known, Steadies
<1>4. Own(r, Reset(c)) /\ Reset(c).index = -1 /\ Reset(c).handlers = <<>>
  BY <1>2, Resets DEF Own
<1>5. /\ Begins(go.frames) /\ Short(go.c.handlers)
      /\ go.c.index = IF go.frames = <<>> THEN -1 ELSE 0
  BY <1>2, <1>4, Served DEF Known
<1>. HIDE DEF go
<1>6. /\ p.c = q.c /\ p.run = Fresh /\ p.missed = q.missed /\ p.calls = q.calls + 1
      /\ IF go.frames = <<>> THEN Last(p.stack) = Saved(c.index)
         ELSE Last(p.stack) = Frame("Next")
  BY <1>2, <1>5, HandedIs
<1>7. ~ q.missed => Room(p.stack, go.c.index)
  <2>1. ~ q.missed => Room(q.stack, c.index)
    BY <1>3 DEF Steady
  <2>. QED
    BY <1>2, <1>5, <2>1, RoomHanded
<1>8. p.calls <= MaxCalls[r]
  BY <1>1, <1>2, <1>6, CallsFit DEF RequestT
<1>. HIDE DEF p
<1>9. Saved(c.index).kind = "HandleContext"
  BY DEF Saved
<1>10. Steady(r, go.c, p)
  BY <1>5, <1>6, <1>7, <1>8, <1>9, Starting
<1>. QED
  BY <1>1, <1>2, <1>6, <1>10, SteadyStep DEF Known

LEMMA SteadyHandleContextEnd ==
  ASSUME Known, NEW r, HandleContextEnd(r)
  PROVE  Steadies'
<1>. DEFINE c == Ctx(r)
            q == req[r]
            d == [c EXCEPT !.index = Last(q.stack).index]
            p == [q EXCEPT !.stack = Front(@), !.run = Mixed]
<1>1. Active(r, "HandleContext") /\ Step(r, d, p)
  BY DEF HandleContextEnd, Mixed, Top
<1>2. /\ r \in Serving /\ Own(r, c) /\ q \in RequestT
      /\ Stacked(q.stack) /\ q.stack # <<>> /\ Last(q.stack).kind = "HandleContext"
  BY <1>1, ActiveIs DEF Known
<1>3. Steady(r, c, q)
  BY <1>2 DEF Known, Steadies
<1>4. p.c = q.c /\ Last(q.stack).index \in Int8
  BY <1>2, RestoredIs
<1>5. d.handlers = c.handlers /\ d.index = Last(q.stack).index
  BY <1>2, <1>4, SetsIndex
<1>. HIDE DEF d
<1>6. Steady(r, d, p)
  BY <1>2, <1>3, <1>5, Resumes
<1>. HIDE DEF p
<1>. QED
  BY <1>1, <1>2, <1>4, <1>6, SteadyStep DEF Known

LEMMA SteadyStaticMissing ==
  ASSUME Known, NEW r, StaticMissing(r)
  PROVE  Steadies'
<1>. DEFINE c == Ctx(r)
            q == req[r]
            d == [c EXCEPT !.handlers = noRoute]
            e == [d EXCEPT !.index = 0]
<1>1. /\ Active(r, "handler") /\ q.calls < MaxCalls[r]
      /\ Step(r, [c EXCEPT !.handlers = noRoute, !.index = 0], Missed(q))
  BY DEF StaticMissing, Missed
<1>2. /\ r \in Serving /\ r \in Requests /\ Own(r, c) /\ q \in RequestT
      /\ Stacked(q.stack) /\ q.stack # <<>> /\ Last(q.stack).kind = "handler"
  BY <1>1, ActiveIs DEF Known
<1>3. Step(r, e, Missed(q))
  BY <1>1
<1>4. Own(r, d) /\ d.handlers = noRoute
  BY <1>2, SetsHandlers
<1>5. 0 \in Int8
  BY Numbers DEF Int8
<1>. HIDE DEF d
<1>6. e.handlers = noRoute /\ e.index = 0
  BY <1>4, <1>5, SetsIndex
<1>. HIDE DEF e
<1>7. /\ Missed(q).c = q.c /\ Missed(q).stack = Front(q.stack) /\ Missed(q).run = Fresh
      /\ Missed(q).missed /\ Missed(q).calls = q.calls + 1
  BY <1>2, MissedIs
<1>8. Missed(q).calls <= MaxCalls[r]
  BY <1>1, <1>2, <1>7, CallsFit DEF RequestT
<1>9. Short(e.handlers)
  BY <1>6 DEF Known, SetUpT
<1>10. Order(e, Missed(q))
  <2>1. Last(Missed(q).stack).kind = "Next"
    <3>1. Len(q.stack) > 1
      BY <1>2, Pops DEF Serves
    <3>2. Below(Last(Front(q.stack)), Last(q.stack))
      BY <1>2, <3>1, Pops
    <3>. QED
      BY <1>2, <1>7, <3>2 DEF Below
  <2>2. e.index = Missed(q).run.last + 1 /\ ~ Missed(q).run.aborted
    BY <1>6, <1>7 DEF Fresh
  <2>. QED
    BY <2>1, <2>2 DEF Order, InOrder
<1>11. Steady(r, e, Missed(q))
  BY <1>7, <1>8, <1>9, <1>10 DEF Steady
<1>. QED
  BY <1>2, <1>3, <1>7, <1>11, SteadyStep DEF Known

LEMMA SteadyServeEnd ==
  ASSUME Known, NEW r, ServeEnd(r)
  PROVE  Steadies'
<1>. DEFINE c == Ctx(r)
            q == req[r]
            d == [c EXCEPT !.written = TRUE]
            p == [q EXCEPT !.stack = Front(@)]
<1>1. Step(r, d, p) /\ \E k \in Serves : Active(r, k)
  BY DEF ServeEnd, Serves
<1>2. /\ r \in Serving /\ Own(r, c) /\ q \in RequestT
      /\ Stacked(q.stack) /\ q.stack # <<>> /\ Last(q.stack).kind \in Serves
  BY <1>1, ActiveIs DEF Known
<1>3. Steady(r, c, q)
  BY <1>2 DEF Known, Steadies
<1>4. d.handlers = c.handlers /\ d.index = c.index
  BY <1>2, SetsWritten
<1>5. p.c = q.c
  BY <1>2, Returns
<1>. HIDE DEF d
<1>6. Steady(r, d, p)
  BY <1>2, <1>3, <1>4, ChainEnds
<1>. HIDE DEF p
<1>. QED
  BY <1>1, <1>2, <1>5, <1>6, SteadyStep DEF Known

LEMMA SteadyStill ==
  ASSUME Steadies, UNCHANGED <<pool, ctx, req>>
  PROVE  Steadies'
BY DEF Steadies, Live, Serving, Ctx

LEMMA SteadyNext ==
  ASSUME Known, [Next]_vars
  PROVE  Steadies'
<1>. USE DEF Known
<1>1. CASE SetUp
  BY <1>1, SteadyStill DEF SetUp
<1>2. CASE Run
  BY <1>2, SteadyStill DEF Run
<1>3. CASE Collect
  BY <1>3, SteadyCollect
<1>4. ASSUME NEW r \in Requests, Serve(r)
      PROVE  Steadies'
  <2>1. ASSUME NEW c \in Contexts, NEW path, NEW tsr, ServeHTTP(r, c, path, tsr)
        PROVE  Steadies'
    BY <2>1, SteadyServe
  <2>2. CASE Panic(r)
    <3>1. r \in Serving /\ Lost(r)
      BY <2>2 DEF Panic, Active
    <3>. QED
      BY <3>1, SteadyLost
  <2>3. \/ \E c \in Contexts, path \in asked[r], tsr \in BOOLEAN : ServeHTTP(r, c, path, tsr)
        \/ NextLoop(r) \/ Return(r) \/ CallNext(r) \/ Calls(r)
        \/ \E path \in asked[r], tsr \in BOOLEAN : HandleContext(r, path, tsr)
        \/ HandleContextEnd(r) \/ StaticMissing(r)
        \/ ServeEnd(r) \/ ServeHTTPEnd(r) \/ Panic(r)
    BY <1>4, Zenon DEF Serve, Calls
  <2>. QED
    BY <2>1, <2>2, <2>3, SteadyLoop, SteadyReturn, SteadyCalls, SteadyHandleContext,
       SteadyHandleContextEnd, SteadyStaticMissing, SteadyServeEnd, SteadyEnd
<1>5. CASE UNCHANGED vars
  BY <1>5, SteadyStill DEF vars
<1>. QED
  BY <1>1, <1>2, <1>3, <1>4, <1>5 DEF Next

LEMMA KnownHolds == Spec /\ []RoutesKept => []Known
<1>1. Init => Steadies
  BY DEF Init, Steadies, Serving
<1>2. Inv /\ SetUpT /\ RoutesKept /\ Steadies /\ [Next]_vars => Steadies'
  BY SteadyNext DEF Known
<1>3. Spec /\ []RoutesKept => [](Inv /\ SetUpT /\ RoutesKept /\ Steadies)
  BY <1>1, <1>2, InvHolds, SetUpHolds, PTL DEF Spec
<1>4. Inv /\ SetUpT /\ RoutesKept /\ Steadies => Known
  BY DEF Known
<1>. QED
  BY <1>3, <1>4, PTL

\* The index of a request's context, an int8, stays where Abort leaves room for
\* it however deep its handlers nest Next and HandleContext, unless a static
\* folder did not find its file: when the trees give the chains that were
\* registered (RoutesKept), all of which combineHandlers has let through.
THEOREM TypeCorrect == Spec /\ []RoutesKept => []TypeOK
<1>1. Known => TypeOK
  <2>. SUFFICES ASSUME Known PROVE TypeOK
    OBVIOUS
  <2>. USE DEF Known
  <2>1. /\ phase \in {"setup", "serving", "panic"} /\ calls \in 0..MaxSetUp
        /\ groups["engine"] \in Chain /\ (groups["sub"] = None \/ groups["sub"] \in Chain)
        /\ {noRoute, noMethod, allNoRoute, allNoMethod} \subseteq Chain
    BY DEF SetUpT, Chain, Short
  <2>2. pool \subseteq Live /\ Live \subseteq Contexts /\ Serving \subseteq Requests
    BY DEF Inv, Shared
  <2>3. ASSUME NEW c \in Live
        PROVE  IsContext(ctx[c]) /\ Short(ctx[c].handlers)
    <3>1. CASE c \in pool
      BY <3>1 DEF Inv, Shared, Steadies
    <3>2. CASE c \notin pool
      <4>1. PICK r \in Serving : req[r].c = c
        BY <2>3, <3>2 DEF Inv, Shared
      <4>. QED
        BY <4>1 DEF Inv, Locals, Local, Own, Steadies, Steady, Ctx
    <3>. QED
      BY <3>1, <3>2
  <2>4. ASSUME NEW c \in Live
        PROVE  /\ ctx[c].handlers \in Chain /\ ~ TooMany(ctx[c].handlers)
               /\ ctx[c].index \in (- MaxInt8 - 1)..MaxInt8
               /\ ctx[c].data \in [Fields -> SUBSET Requests]
               /\ ctx[c].written \in BOOLEAN
    BY <2>3 DEF IsContext, Short, Chain, Int8
  <2>5. ASSUME NEW r \in Serving
        PROVE  req[r].c \in Live /\ req[r].calls \in 0..MaxCalls[r]
    <3>1. r \in Requests /\ req[r].calls \in Nat /\ req[r].calls <= MaxCalls[r]
      BY DEF Inv, Shared, Locals, Local, RequestT, Steadies, Steady
    <3>. QED
      BY <3>1, GinAssumption DEF GinAssumption, Inv, Shared
  <2>6. ASSUME NEW r \in Serving, ~ req[r].missed
        PROVE  Ctx(r).index >= -1
    BY <2>6 DEF Steadies, Steady, Room, Fits, Roomy
  <2>. QED
    BY <2>1, <2>2, <2>4, <2>5, <2>6 DEF TypeOK, IndexFits
<1>. QED
  BY <1>1, KnownHolds, PTL

\* A step of another request.
LEMMA OthersStay ==
  ASSUME Known, NEW r \in Serving, NEW s \in Requests, s # r, Serve(s), r \in Serving'
  PROVE  req'[r] = req[r]
<1>. USE DEF Known
<1>1. ASSUME NEW c, NEW q, Step(s, c, q)
      PROVE  req'[r] = req[r]
  BY <1>1 DEF Step
<1>2. ASSUME Lost(s) PROVE req'[r] = req[r]
  BY <1>2 DEF Lost, Restrict, Serving
<1>3. ASSUME ServeHTTPEnd(s) PROVE req'[r] = req[r]
  BY <1>3 DEF ServeHTTPEnd, Restrict, Serving
<1>4. ASSUME NEW c, NEW path, NEW tsr, ServeHTTP(s, c, path, tsr)
      PROVE  req'[r] = req[r]
  BY <1>4 DEF ServeHTTP
<1>5. ASSUME Calls(s) PROVE \E c, q : Step(s, c, q)
  BY <1>5, CallsWrite DEF Wrote
<1>6. ASSUME \/ NextLoop(s) \/ Return(s) \/ CallNext(s)
             \/ \E path \in asked[s], tsr \in BOOLEAN : HandleContext(s, path, tsr)
             \/ HandleContextEnd(s) \/ StaticMissing(s) \/ ServeEnd(s) \/ Panic(s)
      PROVE  Lost(s) \/ \E c, q : Step(s, c, q)
  <2>1. CASE NextLoop(s)
    BY <2>1, Zenon DEF NextLoop
  <2>2. CASE Return(s) \/ CallNext(s) \/ HandleContextEnd(s) \/ StaticMissing(s) \/ ServeEnd(s)
    BY <2>2, Zenon DEF Return, CallNext, HandleContextEnd, StaticMissing, ServeEnd
  <2>3. ASSUME NEW path, NEW tsr, HandleContext(s, path, tsr)
        PROVE  \E c, q : Step(s, c, q)
    BY <2>3, Zenon DEF HandleContext
  <2>4. CASE Panic(s)
    BY <2>4 DEF Panic
  <2>. QED
    BY <1>6, <2>1, <2>2, <2>3, <2>4
<1>7. \/ \E c \in Contexts, path \in asked[s], tsr \in BOOLEAN : ServeHTTP(s, c, path, tsr)
      \/ NextLoop(s) \/ Return(s) \/ CallNext(s) \/ Calls(s)
      \/ \E path \in asked[s], tsr \in BOOLEAN : HandleContext(s, path, tsr)
      \/ HandleContextEnd(s) \/ StaticMissing(s)
      \/ ServeEnd(s) \/ ServeHTTPEnd(s) \/ Panic(s)
  BY Zenon DEF Serve, Calls
<1>. QED
  BY <1>1, <1>2, <1>3, <1>4, <1>5, <1>6, <1>7

\* While a loop of Next is what runs, nothing else of its request does.
LEMMA OnlyTheLoop ==
  ASSUME Known, NEW r, Active(r, "Next"), Serve(r)
  PROVE  NextLoop(r)
<1>1. /\ r \in Serving /\ req[r].stack # <<>>
      /\ \A kind : Active(r, kind) => kind = "Next"
  BY DEF Active
<1>2. ~ Calls(r)
  BY <1>1, CallsWrite DEF Known
<1>. QED
  BY <1>1, <1>2, Zenon DEF Serve, Calls, ServeHTTP, Return, CallNext, HandleContext,
     HandleContextEnd, StaticMissing, ServeEnd, ServeHTTPEnd, Panic

\* The handlers of a chain run one after the other, each once, whichever of them
\* call Next and whenever they do, and none starts after one has aborted; until
\* HandleContext leaves a chain to the loops of another one.  Again when the
\* trees give the chains that were registered.
THEOREM ChainOrderHolds == Spec /\ []RoutesKept => ChainOrder
<1>. DEFINE InTurn(r) == Starts(r) /\ ~ req[r].run.mixed =>
              ~ req[r].run.aborted /\ Ctx(r).index = req[r].run.last + 1
            Turns == \A r \in Requests : InTurn(r)
<1>1. Known /\ [Next]_vars => [Turns]_vars
  <2>. SUFFICES ASSUME Known, Next, NEW r \in Requests, Starts(r)
                PROVE  InTurn(r)
    BY Zenon
  <2>1. /\ r \in Serving /\ r \in Serving' /\ Active(r, "Next")
        /\ Len(req'[r].stack) > Len(req[r].stack)
    BY DEF Starts, Active
  <2>2. req' # req
    <3>1. Len(req[r].stack) \in Nat
      BY <2>1, ActiveIs DEF Known
    <3>. QED
      BY <2>1, <3>1
  <2>3. req'[r] # req[r]
    <3>1. Len(req[r].stack) \in Nat
      BY <2>1, ActiveIs DEF Known
    <3>. QED
      BY <2>1, <3>1
  <2>4. PICK s \in Requests : Serve(s)
    BY <2>2 DEF Next, SetUp, Run, Collect
  <2>5. s = r
    BY <2>1, <2>3, <2>4, OthersStay
  <2>6. NextLoop(r)
    BY <2>1, <2>4, <2>5, OnlyTheLoop
  <2>. QED
    BY <2>6, SteadyLoop
<1>. HIDE DEF Turns
<1>2. Spec /\ []RoutesKept => [][Turns]_vars
  BY <1>1, KnownHolds, PTL DEF Spec
<1>. QED
  BY <1>2, PTL DEF ChainOrder, Turns
=============================================================================
