-------------------------- MODULE RetryQueueProofs --------------------------
(***************************************************************************)
(* For any number of workers and tasks, whatever fails: no token is lost   *)
(* or doubled, and no send on the channel signal ever blocks; no task is   *)
(* lost or doubled, and the array stays a heap.                            *)
(***************************************************************************)
EXTENDS RetryQueue, TLAPS, SequenceTheorems, FiniteSetTheorems,
        NaturalsInduction, WellFoundedInduction

\* What the tokens need of the types; those of the heap and the tasks are below.
Typing ==
  /\ signal \in Seq(Workers)
  /\ pc \in {"select", "take", "empty", "return", "start"}
  /\ index \in Workers \cup {NoWorker}
  /\ work = [k \in Workers |-> work[k]]
  /\ \A k \in Workers :
       work[k] = [at |-> work[k].at, task |-> work[k].task, failed |-> work[k].failed]

\* Between two selects the dispatcher has a token in hand.
IndexOK == pc = "select" <=> index = NoWorker

IInv == Typing /\ IndexOK /\ OneToken

-----------------------------------------------------------------------------
(* The channel *)

\* Receiving takes the first token, and only that one.
LEMMA Receive ==
  ASSUME NEW s \in Seq(Workers), s # <<>>, IsInjective(s)
  PROVE  /\ Head(s) \in Workers /\ Tail(s) \in Seq(Workers)
         /\ IsInjective(Tail(s))
         /\ Range(Tail(s)) = Range(s) \ {Head(s)}
<1>1. /\ Head(s) \in Workers /\ Tail(s) \in Seq(Workers)
      /\ Len(s) \in Nat /\ Len(s) > 0 /\ Head(s) = s[1]
      /\ Len(Tail(s)) = Len(s) - 1
      /\ DOMAIN s = 1..Len(s) /\ DOMAIN Tail(s) = 1..Len(s) - 1
      /\ \A i \in 1..Len(s) - 1 : Tail(s)[i] = s[i + 1]
  BY HeadTailProperties, EmptySeq, LenProperties
<1>2. IsInjective(Tail(s))
  BY <1>1 DEF IsInjective
<1>3. \A x : x \in Range(Tail(s)) <=> x \in Range(s) \ {Head(s)}
  <2>1. ASSUME NEW i \in 1..Len(s) - 1
        PROVE  Tail(s)[i] \in Range(s) \ {Head(s)}
    BY <1>1, <2>1 DEF IsInjective, Range
  <2>2. ASSUME NEW i \in 1..Len(s), s[i] # Head(s)
        PROVE  s[i] \in Range(Tail(s))
    <3>1. i - 1 \in 1..Len(s) - 1 /\ Tail(s)[i - 1] = s[i]
      BY <1>1, <2>2
    <3>. QED
      BY <1>1, <3>1 DEF Range
  <2>. QED
    BY <1>1, <2>1, <2>2 DEF Range
<1>. QED
  BY <1>1, <1>2, <1>3

\* Sending adds a token that was not there.
LEMMA Send ==
  ASSUME NEW s \in Seq(Workers), NEW k \in Workers, IsInjective(s), k \notin Range(s)
  PROVE  /\ Append(s, k) \in Seq(Workers)
         /\ IsInjective(Append(s, k))
         /\ Range(Append(s, k)) = Range(s) \cup {k}
<1>1. /\ Append(s, k) \in Seq(Workers)
      /\ Len(s) \in Nat
      /\ DOMAIN s = 1..Len(s) /\ DOMAIN Append(s, k) = 1..Len(s) + 1
      /\ \A i \in 1..Len(s) : Append(s, k)[i] = s[i]
      /\ Append(s, k)[Len(s) + 1] = k
  BY AppendProperties, LenProperties
<1>2. \A i \in DOMAIN Append(s, k) : i \in 1..Len(s) \/ i = Len(s) + 1
  BY <1>1
<1>3. \A i \in 1..Len(s) : s[i] # k
  BY <1>1 DEF Range
<1>4. IsInjective(Append(s, k))
  BY <1>1, <1>2, <1>3 DEF IsInjective
<1>5. Len(s) + 1 \in DOMAIN Append(s, k) /\ 1..Len(s) \subseteq DOMAIN Append(s, k)
  BY <1>1
<1>6. Range(Append(s, k)) = Range(s) \cup {k}
  BY <1>1, <1>2, <1>5 DEF Range
<1>. QED
  BY <1>1, <1>4, <1>6

\* A channel without some worker's token is not full.
LEMMA NotFull ==
  ASSUME NEW s \in Seq(Workers), IsInjective(s), NEW k \in Workers, k \notin Range(s)
  PROVE  Len(s) < Cardinality(Workers)
<1>1. Len(s) \in Nat /\ DOMAIN s = 1..Len(s) /\ s \in [1..Len(s) -> Workers]
  BY LenProperties
<1>2. s \in Injection(1..Len(s), Workers)
  BY <1>1 DEF Injection, IsInjective
<1>3. s \notin Surjection(1..Len(s), Workers)
  BY <1>1 DEF Surjection, Range
<1>4. Cardinality(1..Len(s)) = Len(s)
  BY <1>1, FS_Interval
<1>5. /\ Cardinality(1..Len(s)) <= Cardinality(Workers)
      /\ Cardinality(1..Len(s)) # Cardinality(Workers)
  BY <1>2, <1>3, FS_Injection, RetryAssumption
<1>6. Cardinality(Workers) \in Nat
  BY FS_CardinalityType, RetryAssumption
<1>. QED
  BY <1>1, <1>4, <1>5, <1>6

-----------------------------------------------------------------------------
(* The steps *)

\* What moves no token keeps the invariant.
LEMMA TokensFrame ==
  ASSUME IInv, UNCHANGED <<signal, index>>,
         pc' \in {"select", "take", "empty", "return", "start"},
         pc = "select" <=> pc' = "select",
         work' = [k \in Workers |-> work'[k]],
         \A k \in Workers :
           /\ work'[k] = [at |-> work'[k].at, task |-> work'[k].task,
                          failed |-> work'[k].failed]
           /\ work[k].at = "idle" <=> work'[k].at = "idle"
  PROVE  IInv'
<1>1. Busy' = Busy
  BY DEF Busy
<1>. QED
  BY <1>1 DEF IInv, Typing, IndexOK, OneToken

\* A worker's record with one field replaced.
LEMMA RecordUpdated ==
  ASSUME Typing, NEW k \in Workers, NEW x
  PROVE  /\ [work[k] EXCEPT !.at = x]
              = [at |-> x, task |-> work[k].task, failed |-> work[k].failed]
         /\ [work[k] EXCEPT !.failed = x]
              = [at |-> work[k].at, task |-> work[k].task, failed |-> x]
<1>1. ASSUME NEW a, NEW t, NEW f
      PROVE  /\ [[at |-> a, task |-> t, failed |-> f] EXCEPT !.at = x]
                  = [at |-> x, task |-> t, failed |-> f]
             /\ [[at |-> a, task |-> t, failed |-> f] EXCEPT !.failed = x]
                  = [at |-> a, task |-> t, failed |-> x]
  OBVIOUS
<1>. DEFINE r == [at |-> work[k].at, task |-> work[k].task, failed |-> work[k].failed]
<1>2. work[k] = r
  BY DEF Typing
<1>3. /\ [r EXCEPT !.at = x]
           = [at |-> x, task |-> work[k].task, failed |-> work[k].failed]
      /\ [r EXCEPT !.failed = x]
           = [at |-> work[k].at, task |-> work[k].task, failed |-> x]
  BY <1>1
<1>. HIDE DEF r
<1>. QED
  BY <1>2, <1>3

\* One worker's record is replaced; the others keep theirs.
LEMMA WorkUpdated ==
  ASSUME Typing, NEW k \in Workers, NEW a, NEW t, NEW f,
         work' = [work EXCEPT ![k] = [at |-> a, task |-> t, failed |-> f]]
  PROVE  /\ work' = [j \in Workers |-> work'[j]]
         /\ \A j \in Workers : work'[j] = [at |-> work'[j].at, task |-> work'[j].task,
                                           failed |-> work'[j].failed]
         /\ work'[k].at = a
         /\ \A j \in Workers : j # k => work'[j].at = work[j].at
<1>1. work' = [j \in Workers |-> IF j = k THEN [at |-> a, task |-> t, failed |-> f]
                                           ELSE work[j]]
  BY DEF Typing
<1>2. \A j \in Workers : j # k => work'[j] = work[j]
  BY <1>1
<1>3. work'[k] = [at |-> a, task |-> t, failed |-> f]
  BY <1>1
<1>4. work'[k].at = a /\ work'[k].task = t /\ work'[k].failed = f
  BY <1>3
<1>. QED
  BY <1>1, <1>2, <1>3, <1>4 DEF Typing

\* The dispatcher and the workers hand the tokens round.
LEMMA StepKeeps == IInv /\ [Next]_vars => IInv'
<1> SUFFICES ASSUME IInv, [Next]_vars PROVE IInv'
  OBVIOUS
<1>0. Typing /\ IndexOK /\ OneToken /\ NoWorker \notin Workers
  BY RetryAssumption DEF IInv
<1>1. ASSUME NEW t \in Tasks, AddTask(t) PROVE IInv'
  BY <1>0, <1>1, TokensFrame DEF AddTask, dispatcher, Typing
<1>2. CASE Doze
  BY <1>0, <1>2, TokensFrame DEF Doze, dispatcher, Typing
<1>3. CASE TakeToken
  <2>1. /\ signal # <<>> /\ index = NoWorker
        /\ index' = Head(signal) /\ signal' = Tail(signal) /\ pc' = "take"
        /\ UNCHANGED work
    BY <1>0, <1>3 DEF TakeToken, IndexOK
  <2>2. /\ Head(signal) \in Workers /\ Tail(signal) \in Seq(Workers)
        /\ IsInjective(Tail(signal))
        /\ Range(Tail(signal)) = Range(signal) \ {Head(signal)}
    BY <1>0, <2>1, Receive DEF Typing, OneToken
  <2>3. Head(signal) \in Range(signal)
    BY <1>0, <2>1, HeadTailProperties, EmptySeq, LenProperties DEF Typing, Range
  <2>4. Typing' /\ IndexOK'
    BY <1>0, <2>1, <2>2 DEF Typing, IndexOK
  <2>5. OneToken'
    BY <1>0, <2>1, <2>2, <2>3 DEF OneToken, Busy
  <2>. QED
    BY <2>4, <2>5 DEF IInv
<1>4. CASE TakeTask
  BY <1>0, <1>4, TokensFrame DEF TakeTask, Typing
<1>5. CASE Loaf
  BY <1>0, <1>5, TokensFrame DEF Loaf, Typing
<1>6. CASE ReturnToken
  <2>1. /\ index \in Workers /\ index' = NoWorker
        /\ signal' = Append(signal, index) /\ pc' = "select"
        /\ UNCHANGED work
    BY <1>0, <1>6 DEF ReturnToken, IndexOK, Typing
  <2>2. index \notin Range(signal) /\ index \notin Busy
    BY <1>0, <2>1 DEF OneToken
  <2>3. /\ Append(signal, index) \in Seq(Workers)
        /\ IsInjective(Append(signal, index))
        /\ Range(Append(signal, index)) = Range(signal) \cup {index}
    BY <1>0, <2>1, <2>2, Send DEF Typing, OneToken
  <2>4. Typing' /\ IndexOK'
    BY <1>0, <2>1, <2>3 DEF Typing, IndexOK
  <2>5. OneToken'
    BY <1>0, <2>1, <2>2, <2>3 DEF OneToken, Busy
  <2>. QED
    BY <2>4, <2>5 DEF IInv
<1>7. CASE Start
  <2>1. /\ index \in Workers /\ index' = NoWorker /\ pc' = "select"
        /\ work' = [work EXCEPT ![index] = [at |-> "exec", task |-> cur, failed |-> 0]]
        /\ UNCHANGED signal
    BY <1>0, <1>7 DEF Start, IndexOK, Typing
  <2>2. /\ work' = [j \in Workers |-> work'[j]]
        /\ \A j \in Workers : work'[j] = [at |-> work'[j].at, task |-> work'[j].task,
                                          failed |-> work'[j].failed]
        /\ work'[index].at = "exec"
        /\ \A j \in Workers : j # index => work'[j].at = work[j].at
    BY <1>0, <2>1, WorkUpdated
  <2>3. Busy' = Busy \cup {index}
    BY <2>1, <2>2 DEF Busy
  <2>4. Typing' /\ IndexOK'
    BY <1>0, <2>1, <2>2 DEF Typing, IndexOK
  <2>5. OneToken'
    BY <1>0, <2>1, <2>3 DEF OneToken
  <2>. QED
    BY <2>4, <2>5 DEF IInv
<1>8. ASSUME NEW k \in Workers, Succeed(k) PROVE IInv'
  <2>1. /\ work[k].at = "exec"
        /\ work' = [work EXCEPT ![k] = [at |-> "done", task |-> work[k].task,
                                        failed |-> work[k].failed]]
    BY <1>0, <1>8, RecordUpdated DEF Succeed
  <2>. QED
    BY <1>0, <1>8, <2>1, WorkUpdated, TokensFrame DEF Succeed, dispatcher, Typing
<1>9. ASSUME NEW k \in Workers, Fail(k) PROVE IInv'
  <2>1. work[k].at = "exec"
    BY <1>9 DEF Fail
  <2>2. CASE work' = [work EXCEPT ![k] = [work[k] EXCEPT !.at = PutBackAt]]
    <3>1. work' = [work EXCEPT ![k] = [at |-> "push", task |-> work[k].task,
                                       failed |-> work[k].failed]]
      BY <1>0, <2>2, RecordUpdated DEF PutBackAt
    <3>. QED
      BY <1>0, <1>9, <2>1, <3>1, WorkUpdated, TokensFrame DEF Fail, dispatcher, Typing
  <2>3. CASE work' = [work EXCEPT ![k] = [work[k] EXCEPT !.failed = work[k].failed + 1]]
    <3>1. work' = [work EXCEPT ![k] = [at |-> "exec", task |-> work[k].task,
                                       failed |-> work[k].failed + 1]]
      <4>. DEFINE x == work[k].failed + 1
      <4>1. [work[k] EXCEPT !.failed = x]
              = [at |-> work[k].at, task |-> work[k].task, failed |-> x]
        BY <1>0, RecordUpdated
      <4>. QED
        BY <2>1, <2>3, <4>1
    <3>. QED
      BY <1>0, <1>9, <2>1, <3>1, WorkUpdated, TokensFrame DEF Fail, dispatcher, Typing
  <2>. QED
    BY <1>9, <2>2, <2>3 DEF Fail
<1>10. ASSUME NEW k \in Workers, PutBack(k) PROVE IInv'
  <2>1. /\ work[k].at = "push"
        /\ work' = [work EXCEPT ![k] = [at |-> "done", task |-> work[k].task,
                                        failed |-> work[k].failed]]
        /\ UNCHANGED signal
    BY <1>0, <1>10, RecordUpdated DEF PutBack, SignalAfterPutBack
  <2>2. UNCHANGED <<index, pc>> /\ pc' \in {"select", "take", "empty", "return", "start"}
    BY <1>0, <1>10 DEF PutBack, dispatcher, Typing
  <2>. DEFINE t == work[k].task
              f == work[k].failed
  <2>. HIDE DEF t, f
  <2>3. work' = [work EXCEPT ![k] = [at |-> "done", task |-> t, failed |-> f]]
    BY <2>1 DEF t, f
  <2>4. /\ work' = [j \in Workers |-> work'[j]]
        /\ \A j \in Workers : work'[j] = [at |-> work'[j].at, task |-> work'[j].task,
                                          failed |-> work'[j].failed]
        /\ work'[k].at = "done"
        /\ \A j \in Workers : j # k => work'[j].at = work[j].at
    BY <1>0, <2>3, WorkUpdated
  <2>. QED
    BY <2>1, <2>2, <2>4, TokensFrame
<1>11. ASSUME NEW k \in Workers, Done(k) PROVE IInv'
  <2>1. /\ work[k].at = "done"
        /\ signal' = Append(signal, k)
        /\ work' = [work EXCEPT ![k] = [at |-> "idle", task |-> NoTask, failed |-> 0]]
        /\ UNCHANGED <<pc, index>>
    BY <1>11 DEF Done, Idle, dispatcher
  <2>2. k \in Busy
    BY <2>1 DEF Busy
  <2>3. k \notin Range(signal) /\ index # k
    BY <1>0, <2>2 DEF OneToken
  <2>4. /\ Append(signal, k) \in Seq(Workers)
        /\ IsInjective(Append(signal, k))
        /\ Range(Append(signal, k)) = Range(signal) \cup {k}
    BY <1>0, <2>3, Send DEF Typing, OneToken
  <2>5. /\ work' = [j \in Workers |-> work'[j]]
        /\ \A j \in Workers : work'[j] = [at |-> work'[j].at, task |-> work'[j].task,
                                          failed |-> work'[j].failed]
        /\ work'[k].at = "idle"
        /\ \A j \in Workers : j # k => work'[j].at = work[j].at
    BY <1>0, <2>1, WorkUpdated
  <2>6. Busy' = Busy \ {k}
    BY <2>1, <2>5 DEF Busy
  <2>7. Typing' /\ IndexOK'
    BY <1>0, <2>1, <2>4, <2>5 DEF Typing, IndexOK
  <2>8. OneToken'
    BY <1>0, <2>1, <2>3, <2>4, <2>6 DEF OneToken
  <2>. QED
    BY <2>7, <2>8 DEF IInv
<1>12. CASE UNCHANGED vars
  BY <1>0, <1>12, TokensFrame DEF vars, dispatcher, Typing
<1>. QED
  BY <1>1, <1>2, <1>3, <1>4, <1>5, <1>6, <1>7, <1>8, <1>9, <1>10, <1>11, <1>12
  DEF Next, Dispatch, Run

\* NewRetryQuery puts every token in the channel.
LEMMA InitHolds == Init => IInv
<1> SUFFICES ASSUME Init PROVE IInv
  OBVIOUS
<1> DEFINE n == Cardinality(Workers)
<1>1. n \in Nat
  BY FS_CardinalityType, RetryAssumption
<1> HIDE DEF n
<1>2. /\ signal \in [1..n -> Workers] /\ IsInjective(signal)
      /\ \A k \in Workers : k \in Range(signal)
  BY DEF Init, Bijection, Injection, Surjection, Range, n
<1>3. signal \in Seq(Workers)
  BY <1>1, <1>2, SeqDef
<1>4. Typing /\ IndexOK
  BY <1>3, RetryAssumption DEF Init, Typing, IndexOK, Idle
<1>5. OneToken
  BY <1>2, RetryAssumption DEF Init, OneToken, Busy, Idle
<1>. QED
  BY <1>4, <1>5 DEF IInv

\* The invariant holds in every state of every behaviour.
LEMMA Invariance == Spec => []IInv
<1>. QED
  BY InitHolds, StepKeeps, PTL DEF Spec

-----------------------------------------------------------------------------
\* Each worker's token is in one place (lines 127, 207, 221 and 225).
THEOREM OneTokenHolds == Spec => []OneToken
<1>1. IInv => OneToken
  BY DEF IInv
<1>. QED
  BY <1>1, Invariance, PTL

\* Neither the dispatcher at line 221 nor a worker at line 127 ever blocks.
THEOREM NoSendBlocksHolds == Spec => []NoSendBlocks
<1>1. IInv => NoSendBlocks
  <2> SUFFICES ASSUME IInv, NEW k \in Workers, index = k \/ work[k].at = "done"
               PROVE  Room
    BY DEF IInv, Typing, IndexOK, NoSendBlocks
  <2>1. k \notin Range(signal)
    BY DEF IInv, OneToken, Busy
  <2>. QED
    BY <2>1, NotFull DEF IInv, Typing, OneToken, Room
<1>. QED
  BY <1>1, Invariance, PTL

-----------------------------------------------------------------------------
(* The heap: up is a recursive function of the position, and stops at the root *)

\* Every set of natural numbers has a least one.
LEMMA Least ==
  ASSUME NEW T \in SUBSET Nat, T # {}
  PROVE  \E n \in T : \A m \in Nat : m < n => m \notin T
<1>1. PICK n \in T : \A m \in T : ~(<<m, n>> \in OpToRel(<, Nat))
  BY NatLessThanWellFounded, WFMin
<1>2. \A m \in Nat : m < n => <<m, n>> \in OpToRel(<, Nat)
  BY DEF OpToRel
<1>. QED
  BY <1>1, <1>2

\* One level of up, with g for the levels above it.
Sift(g, n) ==
  [a \in Seq(Tasks) |->
     IF n <= 1 \/ ~GoesAbove(a[n], a[n \div 2])
       THEN a
       ELSE g[n \div 2][Swap(a, n, n \div 2)]]

\* A level depends on the one level above it only.
LEMMA SiftLocal ==
  ASSUME NEW n \in Nat, NEW g, NEW h, n > 1 => g[n \div 2] = h[n \div 2]
  PROVE  Sift(g, n) = Sift(h, n)
  BY DEF Sift

\* The parent of a position is a smaller position.
LEMMA Half ==
  ASSUME NEW n \in Nat
  PROVE  n \div 2 \in Nat /\ (n > 0 => n \div 2 < n) /\ (n > 1 => n \div 2 > 0)
         /\ (n = 2 * (n \div 2) \/ n = 2 * (n \div 2) + 1)
  OBVIOUS

\* g is up for the positions up to n.
UpTo(g, n) == g = [m \in 0..n |-> Sift(g, m)]

\* Two functions that agree with the definition on a part of the positions agree.
LEMMA UpToUnique ==
  ASSUME NEW n \in Nat, NEW m \in Nat, NEW g, NEW h, UpTo(g, n), UpTo(h, m),
         NEW k \in Nat, k <= n, k <= m
  PROVE  g[k] = h[k]
<1> DEFINE T == {i \in Nat : i <= n /\ i <= m /\ g[i] # h[i]}
<1>1. CASE T = {}
  BY <1>1
<1>2. CASE T # {}
  <2>1. PICK i \in T : \A l \in Nat : l < i => l \notin T
    BY <1>2, Least
  <2>2. i \in Nat /\ i \in 0..n /\ i \in 0..m /\ i <= n /\ i <= m
    OBVIOUS
  <2>3. g[i] = Sift(g, i) /\ h[i] = Sift(h, i)
    BY <2>2 DEF UpTo
  <2>4. i > 1 => g[i \div 2] = h[i \div 2]
    <3> SUFFICES ASSUME i > 1 PROVE g[i \div 2] = h[i \div 2]
      OBVIOUS
    <3>1. i \div 2 \in Nat /\ i \div 2 < i
      BY <2>2, Half
    <3>. QED
      BY <2>1, <2>2, <3>1
  <2>. QED
    BY <2>1, <2>2, <2>3, <2>4, SiftLocal
<1>. QED
  BY <1>1, <1>2

\* There is such a function for every bound: a least bound without one has none.
LEMMA UpToExists ==
  ASSUME NEW n \in Nat
  PROVE  \E g : UpTo(g, n)
<1> DEFINE T == {i \in Nat : ~ \E g : UpTo(g, i)}
<1>1. CASE T = {}
  BY <1>1
<1>2. CASE T # {}
  <2>1. PICK i \in T : \A l \in Nat : l < i => l \notin T
    BY <1>2, Least
  <2>2. i \in Nat /\ ~ \E g : UpTo(g, i)
    OBVIOUS
  <2>3. i > 0 => \E g : UpTo(g, i - 1)
    BY <2>1, <2>2
  <2>4. PICK g : i > 0 => UpTo(g, i - 1)
    BY <2>3
  <2> DEFINE h == [m \in 0..i |-> Sift(g, m)]
  <2>5. ASSUME NEW m \in 0..i PROVE Sift(g, m) = Sift(h, m)
    <3>1. CASE m > 1
      <4>1. m \div 2 \in 0..i - 1 /\ m \div 2 \in 0..i /\ i > 0
        BY <2>2, <3>1, Half
      <4>2. g[m \div 2] = Sift(g, m \div 2)
        BY <2>4, <4>1 DEF UpTo
      <4>3. h[m \div 2] = Sift(g, m \div 2)
        BY <4>1
      <4>. QED
        BY <3>1, <4>2, <4>3, SiftLocal
    <3>2. CASE ~(m > 1)
      BY <2>2, <3>2, SiftLocal
    <3>. QED
      BY <3>1, <3>2
  <2>6. h = [m \in 0..i |-> Sift(h, m)]
    BY <2>5
  <2>. QED
    BY <2>2, <2>6 DEF UpTo
<1>. QED
  BY <1>1, <1>2

\* The recursive definition of Up has a solution, which Up is.
LEMMA UpDef == \A n \in Nat : Up[n] = Sift(Up, n)
<1> DEFINE part == [n \in Nat |-> CHOOSE g : UpTo(g, n)]
           all == [n \in Nat |-> part[n][n]]
<1>1. ASSUME NEW n \in Nat PROVE UpTo(part[n], n)
  BY UpToExists
<1> HIDE DEF part
<1>2. ASSUME NEW n \in Nat PROVE all[n] = Sift(all, n)
  <2>1. all[n] = part[n][n]
    OBVIOUS
  <2>2. part[n][n] = Sift(part[n], n)
    <3>1. part[n] = [m \in 0..n |-> Sift(part[n], m)]
      BY <1>1 DEF UpTo
    <3> DEFINE g == part[n]
    <3>2. g = [m \in 0..n |-> Sift(g, m)]
      BY <3>1
    <3> HIDE DEF g
    <3>3. g[n] = Sift(g, n)
      BY <3>2
    <3>. QED
      BY <3>3 DEF g
  <2>3. n > 1 => part[n][n \div 2] = all[n \div 2]
    <3> SUFFICES ASSUME n > 1 PROVE part[n][n \div 2] = all[n \div 2]
      OBVIOUS
    <3>1. n \div 2 \in Nat /\ n \div 2 <= n /\ n \div 2 <= n \div 2
      BY Half
    <3>2. UpTo(part[n], n) /\ UpTo(part[n \div 2], n \div 2)
      BY <1>1, <3>1
    <3>3. part[n][n \div 2] = part[n \div 2][n \div 2]
      BY <3>1, <3>2, UpToUnique
    <3>. QED
      BY <3>1, <3>3
  <2>. QED
    BY <2>1, <2>2, <2>3, SiftLocal
<1>3. all = [n \in Nat |-> Sift(all, n)]
  BY <1>2
<1> HIDE DEF all
<1>4. Up = [n \in Nat |-> Sift(Up, n)]
  BY <1>3 DEF Up, Sift
<1>. QED
  BY <1>4

\* Two elements change places.
LEMMA SwapElements ==
  ASSUME NEW a \in Seq(Tasks), NEW i \in 1..Len(a), NEW k \in 1..Len(a), i # k
  PROVE  /\ Swap(a, i, k) \in Seq(Tasks) /\ Len(Swap(a, i, k)) = Len(a)
         /\ Swap(a, i, k)[i] = a[k] /\ Swap(a, i, k)[k] = a[i]
         /\ \A p \in 1..Len(a) : p # i /\ p # k => Swap(a, i, k)[p] = a[p]
<1>1. Len(a) \in Nat /\ a \in [1..Len(a) -> Tasks]
  BY LenProperties
<1> DEFINE n == Len(a)
           b == Swap(a, i, k)
<1> HIDE DEF n
<1>2. n \in Nat /\ a \in [1..n -> Tasks] /\ i \in 1..n /\ k \in 1..n
  BY <1>1 DEF n
<1>3. b = [[a EXCEPT ![i] = a[k]] EXCEPT ![k] = a[i]]
  BY DEF Swap
<1>4. b \in [1..n -> Tasks] /\ b[i] = a[k] /\ b[k] = a[i]
      /\ \A p \in 1..n : p # i /\ p # k => b[p] = a[p]
  BY <1>2, <1>3
<1> HIDE DEF b
<1>5. b \in Seq(Tasks) /\ Len(b) = n
  BY <1>2, <1>4, SeqDef, LenProperties
<1>. QED
  BY <1>4, <1>5 DEF b, n

\* The positions of an element are finitely many.
LEMMA CopiesFinite ==
  ASSUME NEW T, NEW a \in Seq(T), NEW x
  PROVE  IsFiniteSet(Copies(a, x)) /\ Cardinality(Copies(a, x)) \in Nat
<1>1. Len(a) \in Nat
  BY LenProperties
<1>2. IsFiniteSet(1..Len(a))
  BY <1>1, FS_Interval
<1>3. Copies(a, x) \in SUBSET (1..Len(a))
  BY DEF Copies
<1>. QED
  BY <1>2, <1>3, FS_Subset, FS_CardinalityType

\* An exchange keeps the number of copies of every element.
LEMMA SwapCopies ==
  ASSUME NEW a \in Seq(Tasks), NEW i \in 1..Len(a), NEW k \in 1..Len(a), i # k, NEW x
  PROVE  Cardinality(Copies(Swap(a, i, k), x)) = Cardinality(Copies(a, x))
<1> DEFINE b == Swap(a, i, k)
           there(p) == IF p = i THEN k ELSE IF p = k THEN i ELSE p
           f == [p \in Copies(a, x) |-> there(p)]
<1>1. /\ Len(b) = Len(a) /\ b[i] = a[k] /\ b[k] = a[i]
      /\ \A p \in 1..Len(a) : p # i /\ p # k => b[p] = a[p]
  BY SwapElements
<1> HIDE DEF b
<1>2. /\ \A p : p \in Copies(a, x) <=> p \in 1..Len(a) /\ a[p] = x
      /\ \A p : p \in Copies(b, x) <=> p \in 1..Len(a) /\ b[p] = x
  BY <1>1 DEF Copies
<1>3. \A p \in Copies(a, x) : there(p) \in Copies(b, x)
  BY <1>1, <1>2
<1>4. \A p \in Copies(b, x) : there(p) \in Copies(a, x) /\ there(there(p)) = p
  BY <1>1, <1>2
<1>5. f \in Bijection(Copies(a, x), Copies(b, x))
  <2>1. f \in [Copies(a, x) -> Copies(b, x)]
    BY <1>3
  <2>2. \A p, q \in Copies(a, x) : f[p] = f[q] => p = q
    OBVIOUS
  <2>3. \A q \in Copies(b, x) : \E p \in Copies(a, x) : f[p] = q
    <3> SUFFICES ASSUME NEW q \in Copies(b, x)
                 PROVE  f[there(q)] = q /\ there(q) \in Copies(a, x)
      OBVIOUS
    <3>. QED
      BY <1>4
  <2>. QED
    BY <2>1, <2>2, <2>3 DEF Bijection, Injection, Surjection, IsInjective
<1>6. IsFiniteSet(Copies(a, x)) /\ ExistsBijection(Copies(a, x), Copies(b, x))
  BY <1>5, CopiesFinite DEF ExistsBijection
<1>7. Cardinality(Copies(b, x)) = Cardinality(Copies(a, x))
  BY <1>6, FS_Bijection
<1>. QED
  BY <1>7 DEF b

\* HeapOrdered, of any array.
Ordered(a) == \A i \in 2..Len(a) : Priority[a[i]] <= Priority[a[i \div 2]]

\* A heap but for the element at j, which may belong above.
OrderedBut(a, j) ==
  \A i \in 2..Len(a) :
    /\ i # j => Priority[a[i]] <= Priority[a[i \div 2]]
    /\ i \div 2 = j /\ j > 1 => Priority[a[i]] <= Priority[a[j \div 2]]

\* One exchange of an element and its parent moves the place out of order up.
LEMMA SwapOrders ==
  ASSUME NEW a \in Seq(Tasks), NEW j \in 2..Len(a), OrderedBut(a, j),
         GoesAbove(a[j], a[j \div 2])
  PROVE  OrderedBut(Swap(a, j, j \div 2), j \div 2)
<1> DEFINE n == Len(a)
           p == j \div 2
           b == Swap(a, j, p)
<1>1. n \in Nat /\ j \in 2..n
  BY LenProperties
<1>2. p \in 1..n /\ p < j /\ p \in Nat
  BY <1>1, Half
<1>3. /\ Len(b) = n /\ b[j] = a[p] /\ b[p] = a[j]
      /\ \A i \in 1..n : i # j /\ i # p => b[i] = a[i]
  <2>1. j \in 1..Len(a) /\ p \in 1..Len(a) /\ j # p
    BY <1>1, <1>2
  <2>. HIDE DEF p
  <2>. QED
    BY <2>1, SwapElements
<1>4. \A i \in 1..n : Priority[a[i]] \in Nat
  <2>1. \A i \in 1..n : a[i] \in Tasks
    BY LenProperties
  <2>. QED
    BY <2>1, RetryAssumption
<1>5. \A i \in 2..n :
        /\ i # j => Priority[a[i]] <= Priority[a[i \div 2]]
        /\ i \div 2 = j => Priority[a[i]] <= Priority[a[p]]
  BY <1>1 DEF OrderedBut
<1>6. Priority[a[p]] <= Priority[a[j]]
  BY <1>1, <1>2, <1>4 DEF GoesAbove
<1>7. p > 1 => p \div 2 \in 1..n /\ p \div 2 < p /\ p \in 2..n
  BY <1>1, <1>2, Half
<1>8. j \div 2 = p
  OBVIOUS
<1> HIDE DEF n, b, p
<1>9. ASSUME NEW i \in 2..n
      PROVE  /\ i # p => Priority[b[i]] <= Priority[b[i \div 2]]
             /\ i \div 2 = p /\ p > 1 => Priority[b[i]] <= Priority[b[p \div 2]]
  <2> DEFINE h == i \div 2
  <2>1. h \in 1..n /\ h < i /\ i \in 1..n
    BY <1>1, Half
  <2>2. /\ i # j => Priority[a[i]] <= Priority[a[h]]
        /\ h = j => Priority[a[i]] <= Priority[a[p]]
    BY <1>5
  <2>3. i = j => h = p
    BY <1>8
  <2> HIDE DEF h
  <2>4. i # p => Priority[b[i]] <= Priority[b[h]]
    <3>1. CASE i = j
      BY <1>3, <1>6, <2>3, <3>1
    <3>2. CASE i # j /\ i # p
      <4>0. b[i] = a[i]
        BY <1>3, <2>1, <3>2
      <4>1. CASE h = j
        BY <1>3, <2>2, <4>0, <4>1
      <4>2. CASE h = p
        BY <1>1, <1>2, <1>3, <1>4, <1>6, <2>1, <2>2, <3>2, <4>0, <4>2
      <4>3. CASE h # j /\ h # p
        BY <1>3, <2>1, <2>2, <3>2, <4>0, <4>3
      <4>. QED
        BY <4>1, <4>2, <4>3
    <3>. QED
      BY <3>1, <3>2
  <2>5. h = p /\ p > 1 => Priority[b[i]] <= Priority[b[p \div 2]]
    <3> SUFFICES ASSUME h = p, p > 1 PROVE Priority[b[i]] <= Priority[b[p \div 2]]
      OBVIOUS
    <3>1. b[p \div 2] = a[p \div 2] /\ p \div 2 \in 1..n
      BY <1>1, <1>2, <1>3, <1>7
    <3>2. Priority[a[p]] <= Priority[a[p \div 2]]
      BY <1>1, <1>2, <1>5, <1>7
    <3>3. CASE i = j
      BY <1>3, <3>1, <3>2, <3>3
    <3>4. CASE i # j
      <4>1. b[i] = a[i] /\ Priority[a[i]] <= Priority[a[p]]
        BY <1>2, <1>3, <2>1, <2>2, <3>4
      <4>. QED
        BY <1>2, <1>4, <2>1, <3>1, <3>2, <4>1
    <3>. QED
      BY <3>3, <3>4
  <2>. QED
    BY <2>4, <2>5 DEF h
<1>. QED
  BY <1>3, <1>9 DEF OrderedBut, b, p, n

\* What up leaves: the same elements, in the order of a heap.
Sifts(j) ==
  \A a \in Seq(Tasks) :
    j \in 1..Len(a) =>
      /\ Up[j][a] \in Seq(Tasks) /\ Len(Up[j][a]) = Len(a)
      /\ \A x : Cardinality(Copies(Up[j][a], x)) = Cardinality(Copies(a, x))
      /\ OrderedBut(a, j) => Ordered(Up[j][a])

\* One level of up, from what the levels above it do.
LEMMA SiftsStep ==
  ASSUME NEW j \in Nat, j > 1 => Sifts(j \div 2)
  PROVE  Sifts(j)
<1> SUFFICES ASSUME NEW a \in Seq(Tasks), j \in 1..Len(a)
             PROVE  /\ Up[j][a] \in Seq(Tasks) /\ Len(Up[j][a]) = Len(a)
                    /\ \A x : Cardinality(Copies(Up[j][a], x)) = Cardinality(Copies(a, x))
                    /\ OrderedBut(a, j) => Ordered(Up[j][a])
  BY DEF Sifts
<1> DEFINE p == j \div 2
           b == Swap(a, j, p)
<1>1. Up[j][a] = IF j <= 1 \/ ~GoesAbove(a[j], a[p]) THEN a ELSE Up[p][b]
  BY UpDef DEF Sift
<1>2. Len(a) \in Nat
  BY LenProperties
<1>3. CASE j <= 1
  <2>1. j = 1 /\ Up[j][a] = a
    BY <1>1, <1>3
  <2>. QED
    BY <2>1 DEF OrderedBut, Ordered
<1>4. CASE j > 1 /\ ~GoesAbove(a[j], a[p])
  <2>1. Up[j][a] = a
    BY <1>1, <1>4
  <2>2. p \in 1..Len(a)
    BY <1>2, <1>4, Half
  <2>3. Priority[a[j]] \in Nat /\ Priority[a[p]] \in Nat
    <3>1. a[j] \in Tasks /\ a[p] \in Tasks
      BY <2>2, LenProperties
    <3>. QED
      BY <3>1, RetryAssumption
  <2>4. Priority[a[j]] <= Priority[a[p]]
    BY <1>4, <2>3 DEF GoesAbove
  <2>. QED
    BY <2>1, <2>4 DEF OrderedBut, Ordered
<1>5. CASE j > 1 /\ GoesAbove(a[j], a[p])
  <2>1. Up[j][a] = Up[p][b]
    BY <1>1, <1>5
  <2>2. p \in 1..Len(a) /\ j # p /\ j \in 2..Len(a)
    BY <1>2, <1>5, Half
  <2>3. b \in Seq(Tasks) /\ Len(b) = Len(a)
    BY <2>2, SwapElements
  <2>4. OrderedBut(a, j) => OrderedBut(b, p)
    BY <1>5, <2>2, SwapOrders
  <2>5. \A x : Cardinality(Copies(b, x)) = Cardinality(Copies(a, x))
    BY <2>2, SwapCopies
  <2> HIDE DEF b
  <2>6. /\ Up[p][b] \in Seq(Tasks) /\ Len(Up[p][b]) = Len(b)
        /\ \A x : Cardinality(Copies(Up[p][b], x)) = Cardinality(Copies(b, x))
        /\ OrderedBut(b, p) => Ordered(Up[p][b])
    BY <1>5, <2>2, <2>3 DEF Sifts
  <2>. QED
    BY <2>1, <2>3, <2>4, <2>5, <2>6
<1>. QED
  BY <1>3, <1>4, <1>5

\* Every call of up, whatever the length of the array.
LEMMA UpSifts == \A j \in Nat : Sifts(j)
<1> DEFINE T == {i \in Nat : ~Sifts(i)}
<1>1. CASE T = {}
  BY <1>1
<1>2. CASE T # {}
  <2>1. PICK j \in T : \A l \in Nat : l < j => l \notin T
    BY <1>2, Least
  <2>2. j > 1 => j \div 2 \in Nat /\ j \div 2 < j
    BY Half
  <2>3. j > 1 => Sifts(j \div 2)
    BY <2>1, <2>2
  <2>. QED
    BY <2>3, SiftsStep
<1>. QED
  BY <1>1, <1>2

\* Appending an element adds one copy of it, and none of another.
LEMMA AppendCopies ==
  ASSUME NEW a \in Seq(Tasks), NEW t \in Tasks, NEW x
  PROVE  Cardinality(Copies(Append(a, t), x))
           = Cardinality(Copies(a, x)) + (IF x = t THEN 1 ELSE 0)
<1> DEFINE n == Len(a)
           b == Append(a, t)
<1>1. /\ n \in Nat /\ Len(b) = n + 1 /\ b[n + 1] = t
      /\ \A i \in 1..n : b[i] = a[i]
  BY AppendProperties, LenProperties
<1> HIDE DEF b, n
<1>2. /\ \A i : i \in Copies(a, x) <=> i \in 1..n /\ a[i] = x
      /\ \A i : i \in Copies(b, x) <=> i \in 1..n + 1 /\ b[i] = x
  BY <1>1 DEF Copies, n
<1>3. IsFiniteSet(Copies(a, x)) /\ Cardinality(Copies(a, x)) \in Nat
  BY CopiesFinite
<1>4. CASE x = t
  <2>1. n + 1 \notin Copies(a, x) /\ Copies(b, x) = Copies(a, x) \cup {n + 1}
    BY <1>1, <1>2, <1>4
  <2>2. Cardinality(Copies(b, x)) = Cardinality(Copies(a, x)) + 1
    BY <1>3, <2>1, FS_AddElement
  <2>. QED
    BY <1>4, <2>2 DEF b
<1>5. CASE x # t
  <2>1. n + 1 \notin Copies(b, x)
    BY <1>1, <1>2, <1>5
  <2>2. \A i : i \in Copies(b, x) <=> i \in Copies(a, x)
    BY <1>1, <1>2, <2>1
  <2>3. Copies(b, x) = Copies(a, x)
    BY <2>2
  <2>. QED
    BY <1>3, <1>5, <2>3 DEF b
<1>. QED
  BY <1>4, <1>5

\* Cutting the last element off takes one copy of it, and none of another.
LEMMA CutCopies ==
  ASSUME NEW a \in Seq(Tasks), a # <<>>, NEW x
  PROVE  LET b == SubSeq(a, 1, Len(a) - 1)
         IN  /\ b \in Seq(Tasks) /\ a[Len(a)] \in Tasks /\ Len(b) = Len(a) - 1
             /\ Cardinality(Copies(a, x))
                  = Cardinality(Copies(b, x)) + (IF x = a[Len(a)] THEN 1 ELSE 0)
             /\ Ordered(a) => Ordered(b)
<1> DEFINE n == Len(a)
           b == SubSeq(a, 1, n - 1)
           t == a[n]
<1>1. n \in Nat /\ n > 0 /\ a \in [1..n -> Tasks]
  BY EmptySeq, LenProperties
<1>2. /\ b \in Seq(Tasks) /\ Len(b) = n - 1 /\ t \in Tasks
      /\ \A i \in 1..n - 1 : b[i] = a[i]
  <2>1. 1 \in 1..n + 1 /\ n - 1 \in 1 - 1..n
    BY <1>1
  <2>2. b \in Seq(Tasks) /\ Len(b) = n - 1
        /\ \A i \in 1..n - 1 : b[i] = a[1 + i - 1]
    BY <1>1, <2>1, SubSeqProperties
  <2>. QED
    BY <1>1, <2>2
<1> HIDE DEF b, n
<1>3. /\ \A i : i \in Copies(a, x) <=> i \in 1..n /\ a[i] = x
      /\ \A i : i \in Copies(b, x) <=> i \in 1..n - 1 /\ b[i] = x
  BY <1>2 DEF Copies, n
<1>4. IsFiniteSet(Copies(b, x)) /\ Cardinality(Copies(b, x)) \in Nat
  BY <1>2, CopiesFinite
<1>5. Cardinality(Copies(a, x)) = Cardinality(Copies(b, x)) + (IF x = t THEN 1 ELSE 0)
  <2>1. CASE x = t
    <3>1. n \notin Copies(b, x) /\ Copies(a, x) = Copies(b, x) \cup {n}
      BY <1>1, <1>2, <1>3, <2>1
    <3>2. Cardinality(Copies(a, x)) = Cardinality(Copies(b, x)) + 1
      BY <1>4, <3>1, FS_AddElement
    <3>. QED
      BY <2>1, <3>2
  <2>2. CASE x # t
    <3>1. n \notin Copies(a, x)
      BY <1>3, <2>2
    <3>2. \A i : i \in Copies(a, x) <=> i \in Copies(b, x)
      BY <1>1, <1>2, <1>3, <3>1
    <3>3. Copies(a, x) = Copies(b, x)
      BY <3>2
    <3>. QED
      BY <1>4, <2>2, <3>3
  <2>. QED
    BY <2>1, <2>2
<1>6. Ordered(a) => Ordered(b)
  <2> SUFFICES ASSUME Ordered(a), NEW i \in 2..n - 1
               PROVE  Priority[b[i]] <= Priority[b[i \div 2]]
    BY <1>2 DEF Ordered
  <2>1. i \div 2 \in 1..n - 1 /\ i \in 1..n - 1 /\ i \in 2..n
    BY <1>1, Half
  <2>2. Priority[a[i]] <= Priority[a[i \div 2]]
    BY <2>1 DEF Ordered, n
  <2>. QED
    BY <1>2, <2>1, <2>2
<1>. QED
  BY <1>2, <1>5, <1>6 DEF b, n

\* container/heap's Push keeps a heap, and adds one copy of the task.
LEMMA Pushed ==
  ASSUME arena \in Seq(Tasks), NEW t \in Tasks
  PROVE  /\ HeapPush(t) \in Seq(Tasks)
         /\ \A x : Cardinality(Copies(HeapPush(t), x))
                     = Cardinality(Copies(arena, x)) + (IF x = t THEN 1 ELSE 0)
         /\ Ordered(arena) => Ordered(HeapPush(t))
<1> DEFINE n == Len(arena)
           b == Append(arena, t)
<1>1. /\ n \in Nat /\ b \in Seq(Tasks) /\ Len(b) = n + 1
      /\ \A i \in 1..n : b[i] = arena[i]
  BY AppendProperties, LenProperties
<1>2. \A x : Cardinality(Copies(b, x))
               = Cardinality(Copies(arena, x)) + (IF x = t THEN 1 ELSE 0)
  BY AppendCopies
<1>3. Sifts(n + 1)
  BY <1>1, UpSifts
<1>4. HeapPush(t) = Up[n + 1][b]
  BY DEF HeapPush
<1> HIDE DEF b, n
<1>5. /\ Up[n + 1][b] \in Seq(Tasks)
      /\ \A x : Cardinality(Copies(Up[n + 1][b], x)) = Cardinality(Copies(b, x))
      /\ OrderedBut(b, n + 1) => Ordered(Up[n + 1][b])
  <2>1. n + 1 \in 1..Len(b)
    BY <1>1
  <2>. QED
    BY <1>1, <1>3, <2>1 DEF Sifts
<1>6. ASSUME Ordered(arena) PROVE OrderedBut(b, n + 1)
  <2> SUFFICES ASSUME NEW i \in 2..n + 1
               PROVE  /\ i # n + 1 => Priority[b[i]] <= Priority[b[i \div 2]]
                      /\ i \div 2 # n + 1
    BY <1>1 DEF OrderedBut
  <2>1. i \div 2 < i /\ i \div 2 \in 1..n
    BY <1>1, Half
  <2>2. i # n + 1 => i \in 1..n /\ Priority[arena[i]] <= Priority[arena[i \div 2]]
    BY <1>1, <1>6 DEF Ordered, n
  <2>. QED
    BY <1>1, <2>1, <2>2
<1>. QED
  BY <1>2, <1>4, <1>5, <1>6

-----------------------------------------------------------------------------
(* The tasks *)

\* The workers that hold the task, and the number of its copies in the heap.
Holding(t) == {k \in Workers : work[k].task = t /\ work[k].at \in {"exec", "push"}}
InHeap(t) == Cardinality(Copies(arena, t))

\* The dispatcher has a task in hand between its Pop and the start of a worker,
\* and no worker at work is without one.
TaskTypes ==
  /\ arena \in Seq(Tasks)
  /\ cur \in Tasks \cup {NoTask}
  /\ pc = "start" <=> cur # NoTask
  /\ \A k \in Workers :
       /\ work[k].at \in {"idle", "exec", "push", "done"}
       /\ work[k].failed \in 0..Retries - 1
       /\ work[k].task \in Tasks \cup {NoTask}
       /\ work[k].at # "idle" => work[k].task \in Tasks

\* Finitely many tasks have been added, and only added ones have succeeded.
HistoryTypes == added \subseteq Tasks /\ IsFiniteSet(added) /\ finished \subseteq added

IdleTypes ==
  /\ remained \in {0, 1}
  /\ loaf \in BOOLEAN
  /\ times \in 1..Width
  /\ wait \in Int

\* The inductive invariant of the tasks, on top of that of the tokens.
TInv == TaskTypes /\ HistoryTypes /\ IdleTypes /\ TasksKept

\* Where the copies of a task are counted.
LEMMA Counts ==
  ASSUME NEW t
  PROVE  /\ arena \in Seq(Tasks) => InHeap(t) \in Nat
         /\ IsFiniteSet(Holding(t)) /\ Cardinality(Holding(t)) \in Nat
<1>1. arena \in Seq(Tasks) => InHeap(t) \in Nat
  BY CopiesFinite DEF InHeap
<1>2. Holding(t) \in SUBSET Workers
  BY DEF Holding
<1>3. IsFiniteSet(Holding(t)) /\ Cardinality(Holding(t)) \in Nat
  BY <1>2, FS_Subset, FS_CardinalityType, RetryAssumption
<1>. QED
  BY <1>1, <1>3

\* Only one worker changes: it takes the task, drops it, or neither.
LEMMA OneWorkerMoves ==
  ASSUME NEW k \in Workers, \A j \in Workers : j # k => work'[j] = work[j], NEW t
  PROVE  /\ k \notin Holding(t) /\ k \in Holding(t)'
              => Cardinality(Holding(t)') = Cardinality(Holding(t)) + 1
         /\ k \in Holding(t) /\ k \notin Holding(t)'
              => Cardinality(Holding(t)') = Cardinality(Holding(t)) - 1
         /\ (k \in Holding(t) <=> k \in Holding(t)')
              => Cardinality(Holding(t)') = Cardinality(Holding(t))
<1>1. \A j : j # k => (j \in Holding(t) <=> j \in Holding(t)')
  BY DEF Holding
<1>2. IsFiniteSet(Holding(t)) /\ Cardinality(Holding(t)) \in Nat
  BY Counts
<1>3. ASSUME k \notin Holding(t), k \in Holding(t)'
      PROVE  Cardinality(Holding(t)') = Cardinality(Holding(t)) + 1
  <2>1. Holding(t)' = Holding(t) \cup {k}
    BY <1>1, <1>3
  <2>. QED
    BY <1>2, <1>3, <2>1, FS_AddElement
<1>4. ASSUME k \in Holding(t), k \notin Holding(t)'
      PROVE  Cardinality(Holding(t)') = Cardinality(Holding(t)) - 1
  <2>1. Holding(t)' = Holding(t) \ {k}
    BY <1>1, <1>4
  <2>. QED
    BY <1>2, <1>4, <2>1, FS_RemoveElement
<1>5. ASSUME k \in Holding(t) <=> k \in Holding(t)'
      PROVE  Cardinality(Holding(t)') = Cardinality(Holding(t))
  <2>1. \A j : j \in Holding(t) <=> j \in Holding(t)'
    BY <1>1, <1>5
  <2>2. Holding(t)' = Holding(t)
    BY <2>1
  <2>. QED
    BY <2>2
<1>. QED
  BY <1>3, <1>4, <1>5

\* The two halves of TasksKept, in these terms.
LEMMA OneCopyCounted ==
  /\ OneCopy <=> \A t \in Tasks :
       InHeap(t) + (IF cur = t THEN 1 ELSE 0) + Cardinality(Holding(t))
         = IF t \in added \ finished THEN 1 ELSE 0
  /\ HeapOrdered <=> Ordered(arena)
  BY DEF OneCopy, InHeap, Holding, HeapOrdered, Ordered

\* A new task is in the heap, and nowhere else.
LEMMA AddTaskKeepsTasks ==
  ASSUME TInv, NEW t \in Tasks, AddTask(t)
  PROVE  TInv'
<1>1. /\ t \notin added /\ added' = added \cup {t} /\ arena' = HeapPush(t) /\ loaf' = FALSE
      /\ UNCHANGED <<pc, cur, work, finished, remained, times, wait>>
  BY DEF AddTask, dispatcher
<1>2. arena \in Seq(Tasks)
  BY DEF TInv, TaskTypes
<1>3. /\ arena' \in Seq(Tasks)
      /\ \A x : InHeap(x)' = InHeap(x) + (IF x = t THEN 1 ELSE 0)
      /\ Ordered(arena) => Ordered(arena')
  BY <1>1, <1>2, Pushed DEF InHeap
<1>4. TaskTypes'
  BY <1>1, <1>3 DEF TInv, TaskTypes
<1>5. HistoryTypes'
  <2>1. IsFiniteSet(added')
    BY <1>1, FS_AddElement DEF TInv, HistoryTypes
  <2>. QED
    BY <1>1, <2>1 DEF TInv, HistoryTypes
<1>6. IdleTypes'
  BY <1>1 DEF TInv, IdleTypes
<1>7. OneCopy'
  <2>. SUFFICES ASSUME NEW x \in Tasks
                PROVE  InHeap(x)' + (IF cur' = x THEN 1 ELSE 0) + Cardinality(Holding(x)')
                         = IF x \in added' \ finished' THEN 1 ELSE 0
    BY OneCopyCounted DEF OneCopy, InHeap, Holding
  <2>1. InHeap(x) \in Nat /\ Cardinality(Holding(x)) \in Nat
    BY <1>2, Counts
  <2>2. InHeap(x) + (IF cur = x THEN 1 ELSE 0) + Cardinality(Holding(x))
          = IF x \in added \ finished THEN 1 ELSE 0
    BY OneCopyCounted DEF TInv, TasksKept
  <2>3. Holding(x)' = Holding(x)
    BY <1>1 DEF Holding
  <2>4. x \in added' \ finished' <=> x \in added \ finished \/ x = t
    BY <1>1 DEF TInv, HistoryTypes
  <2>5. x = t => x \notin added \ finished
    BY <1>1
  <2>. QED
    BY <1>1, <1>3, <2>1, <2>2, <2>3, <2>4, <2>5
<1>8. HeapOrdered'
  BY <1>1, <1>3, OneCopyCounted DEF TInv, TasksKept, HeapOrdered, Ordered
<1>. QED
  BY <1>4, <1>5, <1>6, <1>7, <1>8 DEF TInv, TasksKept

\* The task that goes to the dispatcher is the one cut off the heap.
LEMMA TakeTaskKeepsTasks ==
  ASSUME TInv, TakeTask
  PROVE  TInv'
<1>1. /\ pc = "take" /\ UNCHANGED <<work, added, finished, remained, loaf, times, wait>>
      /\ \/ arena = <<>> /\ pc' = "empty" /\ UNCHANGED <<arena, cur>>
         \/ /\ arena # <<>> /\ cur' = arena[Len(arena)]
            /\ arena' = SubSeq(arena, 1, Len(arena) - 1) /\ pc' = "start"
  BY DEF TakeTask, ArenaAfterPop
<1>2. HistoryTypes' /\ IdleTypes'
  BY <1>1 DEF TInv, HistoryTypes, IdleTypes
<1>3. arena \in Seq(Tasks) /\ cur = NoTask /\ NoTask \notin Tasks
  BY <1>1, RetryAssumption DEF TInv, TaskTypes
<1>4. CASE arena = <<>>
  <2>1. pc' = "empty" /\ UNCHANGED <<arena, cur>>
    BY <1>1, <1>4
  <2>2. TaskTypes'
    BY <1>1, <2>1 DEF TInv, TaskTypes
  <2>3. TasksKept'
    BY <1>1, <2>1 DEF TInv, TasksKept, OneCopy, HeapOrdered, Copies
  <2>. QED
    BY <1>2, <2>2, <2>3 DEF TInv
<1>5. CASE arena # <<>>
  <2>1. /\ cur' = arena[Len(arena)] /\ arena' = SubSeq(arena, 1, Len(arena) - 1)
        /\ pc' = "start"
    BY <1>1, <1>5
  <2>2. /\ arena' \in Seq(Tasks) /\ cur' \in Tasks
        /\ \A x : InHeap(x) = InHeap(x)' + (IF x = cur' THEN 1 ELSE 0)
        /\ Ordered(arena) => Ordered(arena')
    BY <1>3, <1>5, <2>1, CutCopies DEF InHeap
  <2>3. TaskTypes'
    BY <1>1, <1>3, <2>1, <2>2 DEF TInv, TaskTypes
  <2>4. OneCopy'
    <3>. SUFFICES ASSUME NEW x \in Tasks
                  PROVE  InHeap(x)' + (IF cur' = x THEN 1 ELSE 0) + Cardinality(Holding(x)')
                           = IF x \in added' \ finished' THEN 1 ELSE 0
      BY DEF OneCopy, InHeap, Holding
    <3>1. InHeap(x)' \in Nat /\ Cardinality(Holding(x)) \in Nat
      <4>1. InHeap(x)' \in Nat
        BY <2>2, CopiesFinite DEF InHeap
      <4>. QED
        BY <4>1, Counts
    <3>2. InHeap(x) + (IF cur = x THEN 1 ELSE 0) + Cardinality(Holding(x))
            = IF x \in added \ finished THEN 1 ELSE 0
      BY OneCopyCounted DEF TInv, TasksKept
    <3>3. Holding(x)' = Holding(x)
      BY <1>1 DEF Holding
    <3>. QED
      BY <1>1, <1>3, <2>2, <3>1, <3>2, <3>3
  <2>5. HeapOrdered'
    BY <2>2, OneCopyCounted DEF TInv, TasksKept, HeapOrdered, Ordered
  <2>. QED
    BY <1>2, <2>3, <2>4, <2>5 DEF TInv, TasksKept
<1>. QED
  BY <1>4, <1>5

\* The dispatcher hands its task to the worker whose token it has: an idle one.
LEMMA StartKeepsTasks ==
  ASSUME IInv, TInv, Start
  PROVE  TInv'
<1>1. /\ pc = "start" /\ pc' = "select" /\ cur' = NoTask
      /\ work' = [work EXCEPT ![index] = [at |-> "exec", task |-> cur, failed |-> 0]]
      /\ UNCHANGED <<arena, added, finished, remained, loaf, times, wait>>
  BY DEF Start
<1>2. HistoryTypes' /\ IdleTypes'
  BY <1>1 DEF TInv, HistoryTypes, IdleTypes
<1>3. /\ arena \in Seq(Tasks) /\ cur \in Tasks /\ NoTask \notin Tasks
  BY <1>1, RetryAssumption DEF TInv, TaskTypes
<1>4. /\ index \in Workers /\ work[index].at = "idle"
  <2>1. index \in Workers
    BY <1>1 DEF IInv, Typing, IndexOK
  <2>2. index \notin Busy
    BY <2>1 DEF IInv, OneToken
  <2>. QED
    BY <2>1, <2>2 DEF Busy
<1>5. /\ work'[index] = [at |-> "exec", task |-> cur, failed |-> 0]
      /\ \A j \in Workers : j # index => work'[j] = work[j]
  <2>1. work = [j \in Workers |-> work[j]]
    BY DEF IInv, Typing
  <2>. QED
    BY <1>1, <1>4, <2>1
<1>6. work'[index].at = "exec" /\ work'[index].task = cur /\ work'[index].failed = 0
  BY <1>5
<1>7. 0 \in 0..Retries - 1
  BY RetryAssumption
<1>8. TaskTypes'
  BY <1>1, <1>3, <1>5, <1>6, <1>7 DEF TInv, TaskTypes
<1>9. OneCopy'
  <2>. SUFFICES ASSUME NEW x \in Tasks
                PROVE  InHeap(x)' + (IF cur' = x THEN 1 ELSE 0) + Cardinality(Holding(x)')
                         = IF x \in added' \ finished' THEN 1 ELSE 0
    BY DEF OneCopy, InHeap, Holding
  <2>1. InHeap(x) \in Nat /\ Cardinality(Holding(x)) \in Nat
    BY <1>3, Counts
  <2>2. InHeap(x) + (IF cur = x THEN 1 ELSE 0) + Cardinality(Holding(x))
          = IF x \in added \ finished THEN 1 ELSE 0
    BY OneCopyCounted DEF TInv, TasksKept
  <2>3. InHeap(x)' = InHeap(x)
    BY <1>1 DEF InHeap, Copies
  <2>4. index \notin Holding(x) /\ (index \in Holding(x)' <=> x = cur)
    BY <1>4, <1>6 DEF Holding
  <2>5. Cardinality(Holding(x)') = Cardinality(Holding(x)) + (IF x = cur THEN 1 ELSE 0)
    BY <1>4, <1>5, <2>1, <2>4, OneWorkerMoves
  <2>. QED
    BY <1>1, <1>3, <2>1, <2>2, <2>3, <2>5
<1>10. HeapOrdered'
  BY <1>1 DEF TInv, TasksKept, HeapOrdered
<1>. QED
  BY <1>2, <1>8, <1>9, <1>10 DEF TInv, TasksKept

\* A worker at work holds its task, which was added and has not succeeded.
LEMMA HeldIsOwed ==
  ASSUME TInv, NEW k \in Workers, work[k].at \in {"exec", "push"}
  PROVE  /\ work[k].task \in Tasks /\ k \in Holding(work[k].task)
         /\ work[k].task \in added \ finished
<1> DEFINE t == work[k].task
<1>1. arena \in Seq(Tasks) /\ t \in Tasks
  BY DEF TInv, TaskTypes
<1>2. k \in Holding(t)
  BY DEF Holding
<1>3. InHeap(t) \in Nat /\ IsFiniteSet(Holding(t)) /\ Cardinality(Holding(t)) \in Nat
  BY <1>1, Counts
<1>4. Cardinality(Holding(t)) # 0
  BY <1>2, <1>3, FS_EmptySet
<1>5. InHeap(t) + (IF cur = t THEN 1 ELSE 0) + Cardinality(Holding(t))
        = IF t \in added \ finished THEN 1 ELSE 0
  BY <1>1, OneCopyCounted DEF TInv, TasksKept
<1>6. t \in added \ finished
  BY <1>3, <1>4, <1>5
<1>. QED
  BY <1>1, <1>2, <1>6

\* What a worker does to its own record, to the heap and to the history.
LEMMA WorkerKeepsTasks ==
  ASSUME TInv, NEW k \in Workers,
         \A j \in Workers : j # k => work'[j] = work[j],
         work'[k].at \in {"idle", "exec", "push", "done"},
         work'[k].failed \in 0..Retries - 1,
         work'[k].task \in Tasks \cup {NoTask},
         work'[k].at # "idle" => work'[k].task \in Tasks,
         arena' \in Seq(Tasks), Ordered(arena'),
         HistoryTypes',
         UNCHANGED <<pc, cur, remained, loaf, times, wait>>,
         \A x \in Tasks :
           InHeap(x)' + Cardinality(Holding(x)') + (IF x \in added \ finished THEN 1 ELSE 0)
             = InHeap(x) + Cardinality(Holding(x)) + (IF x \in added' \ finished' THEN 1 ELSE 0)
  PROVE  TInv'
<1>1. TaskTypes'
  BY DEF TInv, TaskTypes
<1>2. IdleTypes'
  BY DEF TInv, IdleTypes
<1>3. OneCopy'
  <2>. SUFFICES ASSUME NEW x \in Tasks
                PROVE  InHeap(x)' + (IF cur' = x THEN 1 ELSE 0) + Cardinality(Holding(x)')
                         = IF x \in added' \ finished' THEN 1 ELSE 0
    BY DEF OneCopy, InHeap, Holding
  <2>1. InHeap(x) \in Nat /\ Cardinality(Holding(x)) \in Nat
    BY Counts DEF TInv, TaskTypes
  <2>2. InHeap(x)' \in Nat /\ Cardinality(Holding(x)') \in Nat
    <3>1. InHeap(x)' \in Nat
      BY CopiesFinite DEF InHeap
    <3>2. Holding(x)' \in SUBSET Workers
      BY DEF Holding
    <3>3. Cardinality(Holding(x)') \in Nat
      BY <3>2, FS_Subset, FS_CardinalityType, RetryAssumption
    <3>. QED
      BY <3>1, <3>3
  <2>3. InHeap(x) + (IF cur = x THEN 1 ELSE 0) + Cardinality(Holding(x))
          = IF x \in added \ finished THEN 1 ELSE 0
    BY OneCopyCounted DEF TInv, TasksKept
  <2>4. InHeap(x)' + Cardinality(Holding(x)') + (IF x \in added \ finished THEN 1 ELSE 0)
          = InHeap(x) + Cardinality(Holding(x)) + (IF x \in added' \ finished' THEN 1 ELSE 0)
    OBVIOUS
  <2>5. (IF cur' = x THEN 1 ELSE 0) = IF cur = x THEN 1 ELSE 0
    OBVIOUS
  <2>6. (IF cur = x THEN 1 ELSE 0) \in Nat
    OBVIOUS
  <2> DEFINE d == IF cur = x THEN 1 ELSE 0
             o == IF x \in added \ finished THEN 1 ELSE 0
             p == IF x \in added' \ finished' THEN 1 ELSE 0
  <2>7. d \in Nat /\ o \in Nat /\ p \in Nat
    OBVIOUS
  <2>8. InHeap(x) + d + Cardinality(Holding(x)) = o
    BY <2>3
  <2> HIDE DEF d, o, p
  <2>9. InHeap(x)' + d + Cardinality(Holding(x)') = p
    BY <2>1, <2>2, <2>4, <2>7, <2>8 DEF o, p
  <2>. QED
    BY <2>5, <2>9 DEF d, p
<1>4. HeapOrdered'
  BY DEF HeapOrdered, Ordered
<1>. QED
  BY <1>1, <1>2, <1>3, <1>4 DEF TInv, TasksKept

\* The task that succeeds leaves its worker for good.
LEMMA SucceedKeepsTasks ==
  ASSUME IInv, TInv, NEW k \in Workers, Succeed(k)
  PROVE  TInv'
<1> DEFINE t == work[k].task
<1>1. /\ work[k].at = "exec" /\ finished' = finished \cup {t}
      /\ work' = [work EXCEPT ![k] = [at |-> "done", task |-> t, failed |-> work[k].failed]]
      /\ UNCHANGED <<arena, added, pc, cur, remained, loaf, times, wait>>
  BY RecordUpdated DEF Succeed, dispatcher, IInv
<1>2. t \in Tasks /\ k \in Holding(t) /\ t \in added \ finished
  BY <1>1, HeldIsOwed
<1>3. /\ work'[k] = [at |-> "done", task |-> t, failed |-> work[k].failed]
      /\ \A j \in Workers : j # k => work'[j] = work[j]
  <2>1. work = [j \in Workers |-> work[j]]
    BY DEF IInv, Typing
  <2>. QED
    BY <1>1, <2>1
<1> HIDE DEF t
<1>4. work'[k].at = "done" /\ work'[k].task = t /\ work'[k].failed = work[k].failed
  BY <1>3
<1>5. HistoryTypes'
  BY <1>1, <1>2 DEF TInv, HistoryTypes
<1>6. ASSUME NEW x \in Tasks
      PROVE  InHeap(x)' + Cardinality(Holding(x)') + (IF x \in added \ finished THEN 1 ELSE 0)
               = InHeap(x) + Cardinality(Holding(x))
                   + (IF x \in added' \ finished' THEN 1 ELSE 0)
  <2>1. InHeap(x) \in Nat /\ Cardinality(Holding(x)) \in Nat
    BY Counts DEF TInv, TaskTypes
  <2>2. InHeap(x)' = InHeap(x)
    BY <1>1 DEF InHeap, Copies
  <2>3. k \notin Holding(x)' /\ (k \in Holding(x) <=> x = t)
    BY <1>1, <1>4 DEF Holding, t
  <2>4. Cardinality(Holding(x)') = Cardinality(Holding(x)) - (IF x = t THEN 1 ELSE 0)
    BY <1>3, <2>1, <2>3, OneWorkerMoves
  <2>5. x \in added' \ finished' <=> x \in added \ finished /\ x # t
    BY <1>1
  <2>. QED
    BY <1>2, <2>1, <2>2, <2>4, <2>5
<1>7. arena' \in Seq(Tasks) /\ Ordered(arena') /\ work[k].failed \in 0..Retries - 1
  BY <1>1, OneCopyCounted DEF TInv, TasksKept, TaskTypes
<1>. QED
  BY <1>1, <1>2, <1>3, <1>4, <1>5, <1>6, <1>7, WorkerKeepsTasks

\* A task that fails stays with its worker, to be tried again or put back.
LEMMA FailKeepsTasks ==
  ASSUME IInv, TInv, NEW k \in Workers, Fail(k)
  PROVE  TInv'
<1> DEFINE t == work[k].task
           f == work[k].failed
<1>1. /\ work[k].at = "exec"
      /\ UNCHANGED <<arena, added, finished, pc, cur, remained, loaf, times, wait>>
      /\ \/ work' = [work EXCEPT ![k] = [at |-> "push", task |-> t, failed |-> f]]
         \/ /\ ~(f + 1 >= Retries)
            /\ work' = [work EXCEPT ![k] = [at |-> "exec", task |-> t, failed |-> f + 1]]
  <2>1. /\ work[k].at = "exec"
        /\ UNCHANGED <<arena, added, finished, pc, cur, remained, loaf, times, wait>>
    BY DEF Fail, dispatcher
  <2>2. CASE f + 1 >= Retries
    <3>1. work' = [work EXCEPT ![k] = [work[k] EXCEPT !.at = "push"]]
      BY <2>2 DEF Fail, PutBackAt
    <3>. QED
      BY <2>1, <3>1, RecordUpdated DEF IInv
  <2>3. CASE ~(f + 1 >= Retries)
    <3>1. work' = [work EXCEPT ![k] = [work[k] EXCEPT !.failed = f + 1]]
      BY <2>3 DEF Fail
    <3> DEFINE x == f + 1
    <3>2. [work[k] EXCEPT !.failed = x] = [at |-> work[k].at, task |-> t, failed |-> x]
      BY RecordUpdated DEF IInv
    <3>. QED
      BY <2>1, <2>3, <3>1, <3>2
  <2>. QED
    BY <2>2, <2>3
<1>2. t \in Tasks /\ k \in Holding(t)
  BY <1>1, HeldIsOwed
<1>3. f \in 0..Retries - 1 /\ Retries \in Nat
  BY RetryAssumption DEF TInv, TaskTypes
<1>4. PICK a \in {"exec", "push"}, g \in 0..Retries - 1 :
        work' = [work EXCEPT ![k] = [at |-> a, task |-> t, failed |-> g]]
  <2>1. ~(f + 1 >= Retries) => f + 1 \in 0..Retries - 1
    BY <1>3
  <2> HIDE DEF f, t
  <2>. QED
    BY <1>1, <1>3, <2>1
<1>5. /\ work'[k] = [at |-> a, task |-> t, failed |-> g]
      /\ \A j \in Workers : j # k => work'[j] = work[j]
  <2>1. work = [j \in Workers |-> work[j]]
    BY DEF IInv, Typing
  <2>. QED
    BY <1>4, <2>1
<1> HIDE DEF t, f
<1>6. work'[k].at = a /\ work'[k].task = t /\ work'[k].failed = g
  BY <1>5
<1>7. HistoryTypes'
  BY <1>1 DEF TInv, HistoryTypes
<1>8. ASSUME NEW x \in Tasks
      PROVE  InHeap(x)' + Cardinality(Holding(x)') + (IF x \in added \ finished THEN 1 ELSE 0)
               = InHeap(x) + Cardinality(Holding(x))
                   + (IF x \in added' \ finished' THEN 1 ELSE 0)
  <2>1. InHeap(x)' = InHeap(x)
    BY <1>1 DEF InHeap, Copies
  <2>2. k \in Holding(x)' <=> k \in Holding(x)
    BY <1>1, <1>6 DEF Holding, t
  <2>3. Cardinality(Holding(x)') = Cardinality(Holding(x))
    BY <1>5, <2>2, OneWorkerMoves
  <2>. QED
    BY <1>1, <2>1, <2>3
<1>9. arena' \in Seq(Tasks) /\ Ordered(arena')
  BY <1>1, OneCopyCounted DEF TInv, TasksKept, TaskTypes
<1>. QED
  BY <1>1, <1>2, <1>5, <1>6, <1>7, <1>8, <1>9, WorkerKeepsTasks

\* A task that is put back leaves its worker for the heap.
LEMMA PutBackKeepsTasks ==
  ASSUME IInv, TInv, NEW k \in Workers, PutBack(k)
  PROVE  TInv'
<1> DEFINE t == work[k].task
<1>1. /\ work[k].at = "push" /\ arena' = HeapPush(t)
      /\ work' = [work EXCEPT ![k] = [at |-> "done", task |-> t, failed |-> work[k].failed]]
      /\ UNCHANGED <<added, finished, pc, cur, remained, loaf, times, wait>>
  BY RecordUpdated DEF PutBack, dispatcher, IInv
<1>2. t \in Tasks /\ k \in Holding(t)
  BY <1>1, HeldIsOwed
<1>3. /\ work'[k] = [at |-> "done", task |-> t, failed |-> work[k].failed]
      /\ \A j \in Workers : j # k => work'[j] = work[j]
  <2>1. work = [j \in Workers |-> work[j]]
    BY DEF IInv, Typing
  <2>. QED
    BY <1>1, <2>1
<1> HIDE DEF t
<1>4. work'[k].at = "done" /\ work'[k].task = t /\ work'[k].failed = work[k].failed
  BY <1>3
<1>5. HistoryTypes'
  BY <1>1 DEF TInv, HistoryTypes
<1>6. arena \in Seq(Tasks) /\ Ordered(arena) /\ work[k].failed \in 0..Retries - 1
  BY OneCopyCounted DEF TInv, TasksKept, TaskTypes
<1>7. /\ arena' \in Seq(Tasks)
      /\ \A x : InHeap(x)' = InHeap(x) + (IF x = t THEN 1 ELSE 0)
      /\ Ordered(arena')
  BY <1>1, <1>2, <1>6, Pushed DEF InHeap
<1>8. ASSUME NEW x \in Tasks
      PROVE  InHeap(x)' + Cardinality(Holding(x)') + (IF x \in added \ finished THEN 1 ELSE 0)
               = InHeap(x) + Cardinality(Holding(x))
                   + (IF x \in added' \ finished' THEN 1 ELSE 0)
  <2>1. InHeap(x) \in Nat /\ Cardinality(Holding(x)) \in Nat
    BY <1>6, Counts
  <2>2. k \notin Holding(x)' /\ (k \in Holding(x) <=> x = t)
    BY <1>1, <1>4 DEF Holding, t
  <2>3. Cardinality(Holding(x)') = Cardinality(Holding(x)) - (IF x = t THEN 1 ELSE 0)
    BY <1>3, <2>1, <2>2, OneWorkerMoves
  <2>. QED
    BY <1>1, <1>7, <2>1, <2>3
<1>. QED
  BY <1>1, <1>2, <1>3, <1>4, <1>5, <1>6, <1>7, <1>8, WorkerKeepsTasks

\* A worker that is done holds no task any more.
LEMMA DoneKeepsTasks ==
  ASSUME IInv, TInv, NEW k \in Workers, Done(k)
  PROVE  TInv'
<1>1. /\ work[k].at = "done"
      /\ work' = [work EXCEPT ![k] = [at |-> "idle", task |-> NoTask, failed |-> 0]]
      /\ UNCHANGED <<arena, added, finished, pc, cur, remained, loaf, times, wait>>
  BY DEF Done, Idle, dispatcher
<1>2. /\ work'[k] = [at |-> "idle", task |-> NoTask, failed |-> 0]
      /\ \A j \in Workers : j # k => work'[j] = work[j]
  <2>1. work = [j \in Workers |-> work[j]]
    BY DEF IInv, Typing
  <2>. QED
    BY <1>1, <2>1
<1>3. work'[k].at = "idle" /\ work'[k].task = NoTask /\ work'[k].failed = 0
  BY <1>2
<1>4. HistoryTypes'
  BY <1>1 DEF TInv, HistoryTypes
<1>5. ASSUME NEW x \in Tasks
      PROVE  InHeap(x)' + Cardinality(Holding(x)') + (IF x \in added \ finished THEN 1 ELSE 0)
               = InHeap(x) + Cardinality(Holding(x))
                   + (IF x \in added' \ finished' THEN 1 ELSE 0)
  <2>1. InHeap(x)' = InHeap(x)
    BY <1>1 DEF InHeap, Copies
  <2>2. k \notin Holding(x)' /\ k \notin Holding(x)
    BY <1>1, <1>3 DEF Holding
  <2>3. Cardinality(Holding(x)') = Cardinality(Holding(x))
    BY <1>2, <2>2, OneWorkerMoves
  <2>. QED
    BY <1>1, <2>1, <2>3
<1>6. /\ arena' \in Seq(Tasks) /\ Ordered(arena') /\ 0 \in 0..Retries - 1
  BY <1>1, OneCopyCounted, RetryAssumption DEF TInv, TasksKept, TaskTypes
<1>. QED
  BY <1>1, <1>2, <1>3, <1>4, <1>5, <1>6, WorkerKeepsTasks

\* What leaves the heap, the tasks in hand and the history alone.
LEMMA TasksFrame ==
  ASSUME TInv, UNCHANGED <<arena, cur, work, added, finished>>,
         pc = "start" <=> pc' = "start",
         IdleTypes'
  PROVE  TInv'
<1>1. TaskTypes'
  BY DEF TInv, TaskTypes
<1>2. HistoryTypes'
  BY DEF TInv, HistoryTypes
<1>3. TasksKept'
  BY DEF TInv, TasksKept, OneCopy, HeapOrdered, Copies
<1>. QED
  BY <1>1, <1>2, <1>3 DEF TInv

\* The back-off is a duration, whatever has wrapped.
LEMMA DozeKeepsTasks ==
  ASSUME TInv, Doze
  PROVE  TInv'
<1>1. /\ UNCHANGED <<arena, loaf, pc, cur, work, added, finished>>
      /\ remained' \in {0, 1}
      /\ \/ wait' = IdleWait /\ times' = IF times < Width THEN times + 1 ELSE times
         \/ wait' = Base /\ times' = 1
  <2>1. UNCHANGED <<arena, loaf, pc, cur, work, added, finished>> /\ remained' \in {0, 1}
    BY DEF Doze, dispatcher
  <2>. QED
    BY <2>1 DEF Doze
<1>2. times \in 1..Width /\ Width \in Nat \ {0} /\ Base \in Nat \ {0} /\ MaxSleep \in Nat \ {0}
  BY RetryAssumption DEF TInv, IdleTypes
<1>3. times' \in 1..Width
  BY <1>1, <1>2
<1>4. IdleWait \in Int
  <2>1. 2^times \in Int /\ 2^(Width - 1) \in Int
    BY <1>2
  <2>2. \A n \in Int : Signed(n) \in Int
    <3>1. \A m \in Int, z \in Nat \ {0} : m % z \in Int
      OBVIOUS
    <3>. SUFFICES ASSUME NEW n \in Int PROVE Signed(n) \in Int
      OBVIOUS
    <3>2. n + 2^(Width - 1) \in Int
      BY <2>1
    <3>3. (n + 2^(Width - 1)) % 2^Width \in Int
      BY <3>1, <3>2, PowerAssumption
    <3>. QED
      BY <2>1, <3>3 DEF Signed
  <2>3. Base * 2^times \in Int
    BY <1>2, <2>1
  <2>4. Signed(Base * 2^times) \in Int
    BY <2>2, <2>3
  <2>. QED
    BY <1>2, <2>4 DEF IdleWait
<1>5. IdleTypes'
  BY <1>1, <1>2, <1>3, <1>4 DEF TInv, IdleTypes
<1>. QED
  BY <1>1, <1>5, TasksFrame

\* Every step.
LEMMA StepKeepsTasks == IInv /\ TInv /\ [Next]_vars => TInv'
<1> SUFFICES ASSUME IInv, TInv, [Next]_vars PROVE TInv'
  OBVIOUS
<1>1. ASSUME NEW t \in Tasks, AddTask(t) PROVE TInv'
  BY <1>1, AddTaskKeepsTasks
<1>2. CASE Doze
  BY <1>2, DozeKeepsTasks
<1>3. CASE TakeToken
  <2>1. IdleTypes'
    BY <1>3 DEF TakeToken, TInv, IdleTypes
  <2>. QED
    BY <1>3, <2>1, TasksFrame DEF TakeToken
<1>4. CASE TakeTask
  BY <1>4, TakeTaskKeepsTasks
<1>5. CASE Loaf
  <2>1. IdleTypes'
    BY <1>5 DEF Loaf, TInv, IdleTypes
  <2>. QED
    BY <1>5, <2>1, TasksFrame DEF Loaf
<1>6. CASE ReturnToken
  <2>1. IdleTypes'
    BY <1>6 DEF ReturnToken, TInv, IdleTypes
  <2>. QED
    BY <1>6, <2>1, TasksFrame DEF ReturnToken
<1>7. CASE Start
  BY <1>7, StartKeepsTasks
<1>8. ASSUME NEW k \in Workers, Run(k) PROVE TInv'
  BY <1>8, SucceedKeepsTasks, FailKeepsTasks, PutBackKeepsTasks, DoneKeepsTasks DEF Run
<1>9. CASE UNCHANGED vars
  <2>1. IdleTypes'
    BY <1>9 DEF vars, TInv, IdleTypes
  <2>. QED
    BY <1>9, <2>1, TasksFrame DEF vars, dispatcher
<1>. QED
  BY <1>1, <1>2, <1>3, <1>4, <1>5, <1>6, <1>7, <1>8, <1>9 DEF Next, Dispatch

\* Nothing has been added.
LEMMA InitHoldsTasks == Init => TInv
<1> SUFFICES ASSUME Init PROVE TInv
  OBVIOUS
<1>1. /\ arena = <<>> /\ cur = NoTask /\ pc = "select"
      /\ \A k \in Workers : /\ work[k].at = "idle" /\ work[k].task = NoTask
                            /\ work[k].failed = 0
      /\ added = {} /\ finished = {}
  BY DEF Init, Idle
<1>2. NoTask \notin Tasks /\ 0 \in 0..Retries - 1
  BY RetryAssumption
<1>3. TaskTypes
  BY <1>1, <1>2, EmptySeq DEF TaskTypes
<1>4. HistoryTypes
  BY <1>1, FS_EmptySet DEF HistoryTypes
<1>5. IdleTypes
  BY RetryAssumption DEF Init, IdleTypes
<1>6. Len(arena) = 0
  BY <1>1
<1>7. OneCopy
  <2> SUFFICES ASSUME NEW x \in Tasks
               PROVE  InHeap(x) + (IF cur = x THEN 1 ELSE 0) + Cardinality(Holding(x))
                        = IF x \in added \ finished THEN 1 ELSE 0
    BY OneCopyCounted
  <2>1. Copies(arena, x) = {} /\ Holding(x) = {}
    BY <1>1, <1>2, <1>6 DEF Copies, Holding
  <2>. QED
    <3>1. InHeap(x) = 0 /\ Cardinality(Holding(x)) = 0
      BY <2>1, FS_EmptySet DEF InHeap
    <3>2. cur # x /\ x \notin added \ finished
      BY <1>1, <1>2
    <3>. QED
      BY <3>1, <3>2
<1>8. HeapOrdered
  BY <1>6 DEF HeapOrdered
<1>. QED
  BY <1>3, <1>4, <1>5, <1>7, <1>8 DEF TInv, TasksKept

\* The heap holds no task twice, and none that was not added.
LEMMA HeapBounded ==
  ASSUME TInv
  PROVE  Len(arena) <= Cardinality(added)
<1>1. /\ arena \in Seq(Tasks) /\ IsFiniteSet(added)
      /\ Len(arena) \in Nat /\ arena \in [1..Len(arena) -> Tasks]
  BY LenProperties DEF TInv, TaskTypes, HistoryTypes
<1> DEFINE n == Len(arena)
<1>2. ASSUME NEW i \in 1..n
      PROVE  /\ arena[i] \in added
             /\ Cardinality(Copies(arena, arena[i])) = 1
  <2> DEFINE x == arena[i]
  <2>1. x \in Tasks /\ i \in Copies(arena, x)
    BY <1>1 DEF Copies
  <2>2. /\ IsFiniteSet(Copies(arena, x)) /\ InHeap(x) \in Nat
        /\ Cardinality(Holding(x)) \in Nat
    BY <1>1, CopiesFinite, Counts DEF InHeap
  <2>3. InHeap(x) # 0
    BY <2>1, <2>2, FS_EmptySet DEF InHeap
  <2>4. InHeap(x) + (IF cur = x THEN 1 ELSE 0) + Cardinality(Holding(x))
          = IF x \in added \ finished THEN 1 ELSE 0
    BY <2>1, OneCopyCounted DEF TInv, TasksKept
  <2> HIDE DEF x
  <2>5. x \in added /\ InHeap(x) = 1
    BY <2>2, <2>3, <2>4
  <2>. QED
    BY <2>5 DEF x, InHeap
<1>3. ASSUME NEW i \in 1..n, NEW j \in 1..n, arena[i] = arena[j] PROVE i = j
  <2> DEFINE C == Copies(arena, arena[i])
  <2>1. i \in C /\ j \in C /\ C = Copies(arena, arena[i])
    BY <1>3 DEF Copies
  <2>2. IsFiniteSet(C) /\ Cardinality(C) = 1
    BY <1>1, <1>2, CopiesFinite
  <2> HIDE DEF C
  <2>3. PICK y : C = {y}
    BY <2>2, FS_Singleton
  <2>. QED
    BY <2>1, <2>3
<1>4. arena \in Injection(1..n, added)
  <2>1. arena \in [1..n -> added]
    BY <1>1, <1>2
  <2>2. IsInjective(arena)
    BY <1>1, <1>3 DEF IsInjective
  <2>. QED
    BY <2>1, <2>2 DEF Injection
<1>5. Cardinality(1..n) = n
  BY <1>1, FS_Interval
<1>6. Cardinality(1..n) <= Cardinality(added)
  BY <1>1, <1>4, FS_Injection
<1>. QED
  BY <1>5, <1>6

\* Both invariants hold in every state of every behaviour.
LEMMA TasksInvariance == Spec => [](IInv /\ TInv)
<1>1. Init => IInv /\ TInv
  BY InitHolds, InitHoldsTasks
<1>2. (IInv /\ TInv) /\ [Next]_vars => (IInv /\ TInv)'
  BY StepKeeps, StepKeepsTasks
<1>. QED
  BY <1>1, <1>2, PTL DEF Spec

\* Putting back failed tasks while others are added and taken (lines 119 and 212)
\* neither loses nor doubles a task and keeps the array a heap.
THEOREM TasksKeptHolds == Spec => []TasksKept
<1>1. TInv => TasksKept
  BY DEF TInv
<1>. QED
  BY <1>1, TasksInvariance, PTL

\* Every variable keeps its type, and the heap never outgrows the tasks added.
THEOREM TypeCorrect == Spec => []TypeOK
<1>1. IInv /\ TInv => TypeOK
  <2> SUFFICES ASSUME IInv, TInv PROVE TypeOK
    OBVIOUS
  <2>1. Len(arena) <= Cardinality(added)
    BY HeapBounded
  <2>2. work \in [Workers -> [at : {"idle", "exec", "push", "done"},
                              task : Tasks \cup {NoTask}, failed : 0..Retries - 1]]
    <3>1. ASSUME NEW k \in Workers
          PROVE  work[k] \in [at : {"idle", "exec", "push", "done"},
                              task : Tasks \cup {NoTask}, failed : 0..Retries - 1]
      BY DEF IInv, Typing, TInv, TaskTypes
    <3>2. work = [k \in Workers |-> work[k]]
      BY DEF IInv, Typing
    <3>. QED
      BY <3>1, <3>2
  <2>3. /\ signal \in Seq(Workers) /\ index \in Workers \cup {NoWorker}
        /\ pc \in {"select", "take", "empty", "return", "start"}
    BY DEF IInv, Typing
  <2>4. arena \in Seq(Tasks) /\ cur \in Tasks \cup {NoTask}
    BY DEF TInv, TaskTypes
  <2>5. added \subseteq Tasks /\ finished \subseteq added
    BY DEF TInv, HistoryTypes
  <2>6. remained \in {0, 1} /\ loaf \in BOOLEAN /\ times \in 1..Width /\ wait \in Int
    BY DEF TInv, IdleTypes
  <2>. QED
    BY <2>1, <2>2, <2>3, <2>4, <2>5, <2>6 DEF TypeOK
<1>. QED
  BY <1>1, TasksInvariance, PTL
=============================================================================
