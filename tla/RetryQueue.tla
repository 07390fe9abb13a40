----------------------------- MODULE RetryQueue -----------------------------
(***************************************************************************)
(* retryQueue.go: tasks wait in a heap (arena); the dispatcher, Run, takes *)
(* the token of an idle worker from the channel signal, gives the worker a *)
(* task, and gets the token back when the worker is done.  A task that     *)
(* fails maxRetryTimesPerTime times in a row goes back to the heap.  With  *)
(* nothing to do the dispatcher sleeps, for longer and longer.             *)
(*                                                                         *)
(* A critical section under rw is one step.  loaf is written by AddTask    *)
(* under rw and by the dispatcher without.                                 *)
(***************************************************************************)
EXTENDS Integers, Sequences, FiniteSets, Functions

CONSTANTS
  Tasks,
  Workers,        \* the indices of the workers
  Priority,       \* of each task
  Retries,        \* maxRetryTimesPerTime
  Base,           \* baseWaitTime, in the unit of a time.Duration
  MaxSleep,       \* maxSleepTime
  Width,          \* bits of a time.Duration
  NoTask, NoWorker

ASSUME RetryAssumption ==
  /\ IsFiniteSet(Workers) /\ NoWorker \notin Workers /\ NoTask \notin Tasks
  /\ Priority \in [Tasks -> Nat]
  /\ Retries \in Nat \ {0} /\ Base \in Nat \ {0} /\ MaxSleep \in Nat \ {0} /\ Width \in Nat \ {0}

\* Arithmetic, which the provers have no theory of.
ASSUME PowerAssumption == 2^Width \in Nat \ {0}

VARIABLES
  arena,          \* the heap, as an array
  signal,         \* the channel of idle workers' tokens
  remained,       \* the number of elements in the channel remained
  loaf,
  pc, cur, index, \* the dispatcher: where it is and its locals
  times, wait,    \* its counter of idle rounds, and nowWaitTime
  work,           \* each worker: where it is, its task, failures of this round
  added, finished \* history: the tasks handed to AddTask, and those that succeeded

dispatcher == <<pc, cur, index>>
vars == <<arena, signal, remained, loaf, dispatcher, times, wait, work, added, finished>>

Idle == [at |-> "idle", task |-> NoTask, failed |-> 0]

\* NewRetryQuery puts the token of every worker in signal, in some order.
Init ==
  /\ arena = <<>>
  /\ signal \in Bijection(1..Cardinality(Workers), Workers)
  /\ remained = 0
  /\ loaf = TRUE
  /\ pc = "select" /\ cur = NoTask /\ index = NoWorker
  /\ times = 1 /\ wait = Base
  /\ work = [k \in Workers |-> Idle]
  /\ added = {} /\ finished = {}

-----------------------------------------------------------------------------
(* The heap *)

\* Mutant: the child is compared the wrong way round.
GoesBelow(t, u) == Priority[t] < Priority[u]

\* Less, of a child t and its parent u: equal priorities change places too.
GoesAbove(t, u) == Priority[t] >= Priority[u]

Swap(a, i, j) == [a EXCEPT ![i] = a[j], ![j] = a[i]]

\* container/heap's up, from position j of the array a.
Up[j \in Nat] ==
  [a \in Seq(Tasks) |->
     IF j <= 1 \/ ~GoesAbove(a[j], a[j \div 2])
       THEN a
       ELSE Up[j \div 2][Swap(a, j, j \div 2)]]

HeapPush(t) == Up[Len(arena) + 1][Append(arena, t)]

-----------------------------------------------------------------------------
(* Clients.  Each task is added once, which bounds their number. *)

AddTask(t) ==
  /\ t \notin added
  /\ added' = added \cup {t}
  /\ arena' = HeapPush(t)
  /\ loaf' = FALSE
  /\ UNCHANGED <<signal, remained, dispatcher, times, wait, work, finished>>

-----------------------------------------------------------------------------
(* The dispatcher *)

Signed(n) == ((n + 2^(Width - 1)) % 2^Width) - 2^(Width - 1)

\* baseWaitTime * (1 << times), capped by maxSleepTime after it has wrapped.
IdleWait ==
  LET backoff == Signed(Base * 2^times)
  IN  IF backoff > MaxSleep THEN MaxSleep ELSE backoff

\* case <-query.remained; the sleep is the time until the next step.  A shift by
\* Width or more gives zero, so that times stops there.
Doze ==
  /\ pc = "select"
  /\ remained = 1
  /\ \/ /\ loaf
        /\ wait' = IdleWait
        /\ times' = IF times < Width THEN times + 1 ELSE times
        /\ UNCHANGED remained
     \/ /\ ~loaf
        /\ wait' = Base
        /\ times' = 1
        /\ remained' = 0
  /\ UNCHANGED <<arena, signal, loaf, dispatcher, work, added, finished>>

\* case workIndex := <-query.signal
TakeToken ==
  /\ pc = "select"
  /\ signal # <<>>
  /\ index' = Head(signal)
  /\ signal' = Tail(signal)
  /\ pc' = "take"
  /\ UNCHANGED <<arena, remained, loaf, cur, times, wait, work, added, finished>>

\* Mutant: the array is not cut.
ArenaAfterPeek == arena

\* taskArena.Pop: the last element of the array goes.
ArenaAfterPop == SubSeq(arena, 1, Len(arena) - 1)

TakeTask ==
  /\ pc = "take"
  /\ \/ arena = <<>> /\ pc' = "empty" /\ UNCHANGED <<arena, cur>>
     \/ /\ arena # <<>>
        /\ cur' = arena[Len(arena)]
        /\ arena' = ArenaAfterPop
        /\ pc' = "start"
  /\ UNCHANGED <<signal, remained, loaf, index, times, wait, work, added, finished>>

\* Outside the lock: an AddTask may have come in between.
Loaf ==
  /\ pc = "empty"
  /\ loaf' = TRUE
  /\ remained' = 1
  /\ pc' = "return"
  /\ UNCHANGED <<arena, signal, cur, index, times, wait, work, added, finished>>

Room == Len(signal) < Cardinality(Workers)

ReturnToken ==
  /\ pc = "return"
  /\ Room
  /\ signal' = Append(signal, index)
  /\ index' = NoWorker
  /\ pc' = "select"
  /\ UNCHANGED <<arena, remained, loaf, cur, times, wait, work, added, finished>>

Start ==
  /\ pc = "start"
  /\ work' = [work EXCEPT ![index] = [at |-> "exec", task |-> cur, failed |-> 0]]
  /\ cur' = NoTask
  /\ index' = NoWorker
  /\ pc' = "select"
  /\ UNCHANGED <<arena, signal, remained, loaf, times, wait, added, finished>>

-----------------------------------------------------------------------------
(* A worker, running the function of its task *)

Succeed(k) ==
  /\ work[k].at = "exec"
  /\ work' = [work EXCEPT ![k].at = "done"]
  /\ finished' = finished \cup {work[k].task}
  /\ UNCHANGED <<arena, signal, remained, loaf, dispatcher, times, wait, added>>

\* Mutant: a task that has failed too often is dropped.
GiveUpAt == "done"

PutBackAt == "push"

Fail(k) ==
  /\ work[k].at = "exec"
  /\ IF work[k].failed + 1 >= Retries
       THEN work' = [work EXCEPT ![k].at = PutBackAt]
       ELSE work' = [work EXCEPT ![k].failed = @ + 1]
  /\ UNCHANGED <<arena, signal, remained, loaf, dispatcher, times, wait, added, finished>>

\* Mutant: the token is returned where the task is put back, and again by Done.
SignalAfterEarlyReturn(k) == Append(signal, k)

SignalAfterPutBack(k) == signal

PutBack(k) ==
  /\ work[k].at = "push"
  /\ arena' = HeapPush(work[k].task)
  /\ work' = [work EXCEPT ![k].at = "done"]
  /\ signal' = SignalAfterPutBack(k)
  /\ UNCHANGED <<remained, loaf, dispatcher, times, wait, added, finished>>

\* The token goes back; the goroutine ends, and its task is no longer looked at.
Done(k) ==
  /\ work[k].at = "done"
  /\ Room
  /\ signal' = Append(signal, k)
  /\ work' = [work EXCEPT ![k] = Idle]
  /\ UNCHANGED <<arena, remained, loaf, dispatcher, times, wait, added, finished>>

-----------------------------------------------------------------------------
Dispatch == TakeTask \/ Loaf \/ ReturnToken \/ Start
Run(k) == Succeed(k) \/ Fail(k) \/ PutBack(k) \/ Done(k)

Next ==
  \/ \E t \in Tasks : AddTask(t)
  \/ Doze \/ TakeToken \/ Dispatch
  \/ \E k \in Workers : Run(k)

\* Goroutines run; a select that finds both channels ready does not neglect one
\* for ever; a task that is tried again and again succeeds at last.
Fairness ==
  /\ WF_vars(Dispatch)
  /\ SF_vars(TakeToken)
  /\ \A k \in Workers : WF_vars(Run(k))
  /\ \A t \in Tasks : SF_vars(\E k \in Workers : work[k].task = t /\ Succeed(k))

Spec == Init /\ [][Next]_vars /\ Fairness

-----------------------------------------------------------------------------
(* Properties *)

Busy == {k \in Workers : work[k].at # "idle"}
Copies(s, x) == {i \in 1..Len(s) : s[i] = x}

\* Every variable keeps its type; the heap never outgrows the tasks added.
TypeOK ==
  /\ arena \in Seq(Tasks) /\ Len(arena) <= Cardinality(added)
  /\ signal \in Seq(Workers)
  /\ remained \in {0, 1}
  /\ loaf \in BOOLEAN
  /\ pc \in {"select", "take", "empty", "return", "start"}
  /\ cur \in Tasks \cup {NoTask}
  /\ index \in Workers \cup {NoWorker}
  /\ times \in 1..Width
  /\ wait \in Int
  /\ work \in [Workers -> [at : {"idle", "exec", "push", "done"},
                           task : Tasks \cup {NoTask}, failed : 0..Retries - 1]]
  /\ added \subseteq Tasks /\ finished \subseteq added

\* The token of each worker is in one place: in the channel, once, with the
\* dispatcher, or with the goroutine that works; so that a worker never gets a
\* second task while it runs.
OneToken ==
  /\ IsInjective(signal)
  /\ \A k \in Workers :
       LET channelled == k \in Range(signal)
           dispatched == index = k
           working    == k \in Busy
       IN  /\ channelled \/ dispatched \/ working
           /\ ~(channelled /\ dispatched) /\ ~(channelled /\ working)
           /\ ~(dispatched /\ working)

\* The channel has room for whoever returns a token: no send on signal blocks.
NoSendBlocks == pc = "return" \/ (\E k \in Workers : work[k].at = "done") => Room

\* A task that was added and has not succeeded is in one place: in the heap,
\* once, with the dispatcher, or with a worker.
OneCopy ==
  \A t \in Tasks :
    Cardinality(Copies(arena, t)) + (IF cur = t THEN 1 ELSE 0)
      + Cardinality({k \in Workers : work[k].task = t /\ work[k].at \in {"exec", "push"}})
      = IF t \in added \ finished THEN 1 ELSE 0

\* The array is a heap: no task lies under one of lower priority.
HeapOrdered ==
  \A i \in 2..Len(arena) : Priority[arena[i]] <= Priority[arena[i \div 2]]

\* Putting back failed tasks while others are added and taken (line 212 past
\* heap.Pop, line 119 from a worker) neither loses nor doubles a task, and
\* leaves an array that the next Push can build on.
TasksKept == OneCopy /\ HeapOrdered

\* Whatever fails in between, every task that is added succeeds in the end.
AllSucceed == \A t \in Tasks : t \in added ~> t \in finished

\* A dispatcher with nothing to do sleeps (the comment of retryQueue.go:46).
SleepsWhenIdle == loaf => wait > 0
=============================================================================
