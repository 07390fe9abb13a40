------------------------------ MODULE SyncMutex ------------------------------
(***************************************************************************)
(* sync/mutex.go: a mutex whose whole state is one word, read and changed  *)
(* only by atomic operations, and a runtime semaphore on which goroutines  *)
(* park.  In normal mode an unlocker wakes one waiter, which then competes *)
(* with newcomers; a waiter that waited too long switches the mutex to     *)
(* starving mode, in which the lock is handed to the head of the queue.    *)
(*                                                                         *)
(* One action is one atomic access to the word or one semaphore operation: *)
(* everything a goroutine does between two of them is local.  A local      *)
(* variable that is overwritten before it is read again holds its default. *)
(***************************************************************************)
EXTENDS Integers, Sequences, FiniteSets

CONSTANTS
  Goroutines,
  MaxSpin       \* iterations for which runtime_canSpin may answer true

ASSUME MutexAssumption == MaxSpin \in Nat

\* A program has finitely many goroutines: what is counted is a number.
ASSUME FiniteAssumption == IsFiniteSet(Goroutines)

VARIABLES
  state,        \* Mutex.state: three flags and the number of waiters
  sema,         \* Mutex.sema: the permits of the semaphore,
  queue,        \*   and the goroutines parked on it
  pc,           \* where each goroutine is
  old,          \* the locals of lockSlow and unlockSlow:
  awoke,
  starving,
  waited,       \* waitStartTime # 0, set once the goroutine has parked
  iter

locals == <<old, awoke, starving, waited, iter>>
vars == <<state, sema, queue, pc, locals>>

Unlocked == [locked |-> FALSE, woken |-> FALSE, starving |-> FALSE, waiters |-> 0]
States == [locked : BOOLEAN, woken : BOOLEAN, starving : BOOLEAN, waiters : Int]

InLock == {"read", "loop", "sem", "queued", "woke", "handoff"}
InUnlock == {"uloop", "uread", "urelease", "ustarve"}
Labels == {"idle", "try", "cs"} \cup InLock \cup InUnlock

Init ==
  /\ state = Unlocked
  /\ sema = 0
  /\ queue = <<>>
  /\ pc = [g \in Goroutines |-> "idle"]
  /\ old = [g \in Goroutines |-> Unlocked]
  /\ awoke = [g \in Goroutines |-> FALSE]
  /\ starving = [g \in Goroutines |-> FALSE]
  /\ waited = [g \in Goroutines |-> FALSE]
  /\ iter = [g \in Goroutines |-> 0]

Goto(g, label) == pc' = [pc EXCEPT ![g] = label]
Remember(g, s) == old' = [old EXCEPT ![g] = s]

\* The locals of lockSlow end with the call.
Forget(g) ==
  /\ Remember(g, Unlocked)
  /\ awoke' = [awoke EXCEPT ![g] = FALSE]
  /\ starving' = [starving EXCEPT ![g] = FALSE]
  /\ waited' = [waited EXCEPT ![g] = FALSE]
  /\ iter' = [iter EXCEPT ![g] = 0]

-----------------------------------------------------------------------------
(* The runtime semaphore: a permit left by a release goes to whoever asks  *)
(* first, and a released goroutine asks again; with handoff the permit     *)
(* goes to the head of the queue itself.                                   *)

\* Mutant: newcomers go to the front too.
EnqueueFront(g, lifo) == <<g>> \o queue

Enqueue(g, lifo) == IF lifo THEN <<g>> \o queue ELSE Append(queue, g)

SemAcquire(g, lifo) ==
  \/ /\ sema > 0
     /\ sema' = sema - 1
     /\ Goto(g, "woke")
     /\ UNCHANGED queue
  \/ /\ sema = 0
     /\ queue' = Enqueue(g, lifo)
     /\ Goto(g, "queued")
     /\ UNCHANGED sema

SemRelease(g, handoff) ==
  \/ /\ queue = <<>>
     /\ sema' = sema + 1
     /\ Goto(g, "idle")
     /\ UNCHANGED queue
  \/ /\ queue # <<>>
     /\ queue' = Tail(queue)
     /\ sema' = IF handoff THEN sema ELSE sema + 1
     /\ pc' = [pc EXCEPT ![g] = "idle",
                         ![Head(queue)] = IF handoff THEN "woke" ELSE "sem"]

-----------------------------------------------------------------------------
(* Lock *)

\* Mutant: a free lock is taken whatever the mode.
ContendedIfLocked(s) == s.locked

Contended(s) == s.locked \/ s.starving

LockFast(g) ==
  /\ pc[g] = "idle"
  /\ state = Unlocked
  /\ state' = [state EXCEPT !.locked = TRUE]
  /\ Goto(g, "cs")
  /\ UNCHANGED <<sema, queue, locals>>

LockContended(g) ==
  /\ pc[g] = "idle"
  /\ state # Unlocked
  /\ Goto(g, "read")
  /\ UNCHANGED <<state, sema, queue, locals>>

\* old = m.state, on entering lockSlow, after a spin and after a failed CAS.
ReadState(g) ==
  /\ pc[g] = "read"
  /\ Remember(g, state)
  /\ Goto(g, "loop")
  /\ UNCHANGED <<state, sema, queue, awoke, starving, waited, iter>>

\* A spinning goroutine claims the wake-up, so that Unlock wakes nobody.
MayClaim(g) == ~awoke[g] /\ ~old[g].woken /\ old[g].waiters # 0

Claim(g) ==
  /\ MayClaim(g)
  /\ state = old[g]
  /\ state' = [state EXCEPT !.woken = TRUE]
  /\ awoke' = [awoke EXCEPT ![g] = TRUE]

\* Mutant: one spin too many.
CanSpinOnceMore(g) == old[g].locked /\ ~old[g].starving /\ iter[g] <= MaxSpin

\* runtime_canSpin may also refuse for reasons of its own: LockCAS is enabled too.
CanSpin(g) == old[g].locked /\ ~old[g].starving /\ iter[g] < MaxSpin

Spin(g) ==
  /\ pc[g] = "loop"
  /\ CanSpin(g)
  /\ \/ Claim(g)
     \/ ~(MayClaim(g) /\ state = old[g]) /\ UNCHANGED <<state, awoke>>
  /\ iter' = [iter EXCEPT ![g] = @ + 1]
  /\ Remember(g, Unlocked)
  /\ Goto(g, "read")
  /\ UNCHANGED <<sema, queue, starving, waited>>

\* Mutant: the locked flag is set in starving mode too.
NewStateBarging(s, hungry, awake) ==
  [locked   |-> TRUE,
   woken    |-> s.woken /\ ~awake,
   starving |-> s.starving \/ (hungry /\ s.locked),
   waiters  |-> IF Contended(s) THEN s.waiters + 1 ELSE s.waiters]

\* Mutant: the woken flag is not given back.
NewStateKeepsWoken(s, hungry, awake) ==
  [locked   |-> s.locked \/ ~s.starving,
   woken    |-> s.woken,
   starving |-> s.starving \/ (hungry /\ s.locked),
   waiters  |-> IF Contended(s) THEN s.waiters + 1 ELSE s.waiters]

\* The word a goroutine that saw s wants to install.
NewState(s, hungry, awake) ==
  [locked   |-> s.locked \/ ~s.starving,
   woken    |-> s.woken /\ ~awake,
   starving |-> s.starving \/ (hungry /\ s.locked),
   waiters  |-> IF Contended(s) THEN s.waiters + 1 ELSE s.waiters]

\* A throw ends the program: the step that would throw is not enabled here, and
\* NoThrow says that no goroutine comes to one.
Inconsistent(g) == awoke[g] /\ ~old[g].woken

LockCAS(g) ==
  /\ pc[g] = "loop"
  /\ ~Inconsistent(g)
  /\ UNCHANGED <<sema, queue>>
  /\ \/ /\ state # old[g]
        /\ Remember(g, Unlocked)
        /\ Goto(g, "read")
        /\ UNCHANGED <<state, awoke, starving, waited, iter>>
     \/ /\ state = old[g]
        /\ state' = NewState(old[g], starving[g], awoke[g])
        /\ \/ ~Contended(old[g]) /\ Goto(g, "cs") /\ Forget(g)
           \/ /\ Contended(old[g])
              /\ Goto(g, "sem")
              /\ Remember(g, Unlocked)
              /\ awoke' = [awoke EXCEPT ![g] = FALSE]
              /\ iter' = [iter EXCEPT ![g] = 0]
              /\ UNCHANGED <<starving, waited>>

\* runtime_SemacquireMutex: one that has waited before goes to the front.
Park(g) ==
  /\ pc[g] = "sem"
  /\ SemAcquire(g, waited[g])
  /\ UNCHANGED <<state, locals>>

\* The invariant the code checks on a goroutine woken in starving mode.
HandoffOK(s) == ~s.locked /\ ~s.woken /\ s.waiters # 0

\* Waking, reading the clock (late: beyond starvationThresholdNs) and the word.
Wake(g, late) ==
  /\ pc[g] = "woke"
  /\ starving' = [starving EXCEPT ![g] = @ \/ late]
  /\ waited' = [waited EXCEPT ![g] = TRUE]
  /\ Remember(g, state)
  /\ \/ state.starving /\ HandoffOK(state) /\ Goto(g, "handoff") /\ UNCHANGED awoke
     \/ ~state.starving /\ Goto(g, "loop") /\ awoke' = [awoke EXCEPT ![g] = TRUE]
  /\ UNCHANGED <<state, sema, queue, iter>>

\* The lock was handed over: take it by adding a delta computed from old.
Handoff(g) ==
  /\ pc[g] = "handoff"
  /\ state' = [locked   |-> TRUE,
               woken    |-> state.woken,
               starving |-> state.starving /\ starving[g] /\ old[g].waiters # 1,
               waiters  |-> state.waiters - 1]
  /\ Goto(g, "cs")
  /\ Forget(g)
  /\ UNCHANGED <<sema, queue>>

-----------------------------------------------------------------------------
(* TryLock: a call that finds the word contended answers false and changes *)
(* nothing; otherwise one CAS decides.                                     *)

TryLockRead(g) ==
  /\ pc[g] = "idle"
  /\ ~Contended(state)
  /\ Remember(g, state)
  /\ Goto(g, "try")
  /\ UNCHANGED <<state, sema, queue, awoke, starving, waited, iter>>

TryLockCAS(g) ==
  /\ pc[g] = "try"
  /\ \/ /\ state = old[g]
        /\ state' = [state EXCEPT !.locked = TRUE]
        /\ Goto(g, "cs")
     \/ state # old[g] /\ Goto(g, "idle") /\ UNCHANGED state
  /\ Remember(g, Unlocked)
  /\ UNCHANGED <<sema, queue, awoke, starving, waited, iter>>

-----------------------------------------------------------------------------
(* Unlock, called by the holder *)

Unlock(g) ==
  /\ pc[g] = "cs"
  /\ state.locked
  /\ state' = [state EXCEPT !.locked = FALSE]
  /\ \/ state' = Unlocked /\ Goto(g, "idle") /\ UNCHANGED old
     \/ state' # Unlocked /\ state'.starving /\ Goto(g, "ustarve") /\ UNCHANGED old
     \/ state' # Unlocked /\ ~state'.starving /\ Goto(g, "uloop") /\ Remember(g, state')
  /\ UNCHANGED <<sema, queue, awoke, starving, waited, iter>>

\* Mutant: the last waiter is forgotten.
NoWakeForOne(s) == s.waiters <= 1 \/ s.locked \/ s.woken \/ s.starving

\* Nobody to wake, or somebody else is about to run.
NoWakeNeeded(s) == s.waiters = 0 \/ s.locked \/ s.woken \/ s.starving

UnlockReturn(g) ==
  /\ pc[g] = "uloop"
  /\ NoWakeNeeded(old[g])
  /\ Goto(g, "idle")
  /\ Remember(g, Unlocked)
  /\ UNCHANGED <<state, sema, queue, awoke, starving, waited, iter>>

\* Mutants: the flag is not raised; the waiter stays counted.
WakeOneUnmarked(s) == [s EXCEPT !.waiters = @ - 1]
WakeOneUncounted(s) == [s EXCEPT !.woken = TRUE]

\* Hand the wake-up to one waiter, which stops being counted.
WakeOne(s) ==
  [locked |-> s.locked, woken |-> TRUE, starving |-> s.starving, waiters |-> s.waiters - 1]

UnlockCAS(g) ==
  /\ pc[g] = "uloop"
  /\ ~NoWakeNeeded(old[g])
  /\ \/ /\ state = old[g]
        /\ state' = WakeOne(old[g])
        /\ Goto(g, "urelease")
     \/ state # old[g] /\ Goto(g, "uread") /\ UNCHANGED state
  /\ Remember(g, Unlocked)
  /\ UNCHANGED <<sema, queue, awoke, starving, waited, iter>>

UnlockReread(g) ==
  /\ pc[g] = "uread"
  /\ Remember(g, state)
  /\ Goto(g, "uloop")
  /\ UNCHANGED <<state, sema, queue, awoke, starving, waited, iter>>

UnlockRelease(g) ==
  /\ pc[g] = "urelease"
  /\ SemRelease(g, FALSE)
  /\ UNCHANGED <<state, locals>>

UnlockHandoff(g) ==
  /\ pc[g] = "ustarve"
  /\ SemRelease(g, TRUE)
  /\ UNCHANGED <<state, locals>>

-----------------------------------------------------------------------------
\* Calls begin when the client likes.
Call(g) == LockFast(g) \/ LockContended(g) \/ TryLockRead(g)

\* What a goroutine does inside a call, and the holder's call of Unlock.
Step(g) ==
  \/ ReadState(g) \/ Spin(g) \/ LockCAS(g) \/ Park(g)
  \/ (\E late \in BOOLEAN : Wake(g, late)) \/ Handoff(g)
  \/ TryLockCAS(g)
  \/ Unlock(g) \/ UnlockReturn(g) \/ UnlockCAS(g) \/ UnlockReread(g)
  \/ UnlockRelease(g) \/ UnlockHandoff(g)

Next == \E g \in Goroutines : Call(g) \/ Step(g)

\* The scheduler keeps running a runnable goroutine, and a holder unlocks.
Fairness == \A g \in Goroutines : WF_vars(Step(g))

SafeSpec == Init /\ [][Next]_vars
Spec == SafeSpec /\ Fairness
-----------------------------------------------------------------------------
(* Properties *)

\* Every variable keeps its type, and no goroutine spins beyond the bound.
TypeOK ==
  /\ state \in States
  /\ sema \in Nat
  /\ queue \in Seq(Goroutines)
  /\ pc \in [Goroutines -> Labels]
  /\ old \in [Goroutines -> States]
  /\ awoke \in [Goroutines -> BOOLEAN]
  /\ starving \in [Goroutines -> BOOLEAN]
  /\ waited \in [Goroutines -> BOOLEAN]
  /\ iter \in [Goroutines -> 0..MaxSpin]

\* Lock and TryLock let one goroutine at a time past mutexLocked.
MutualExclusion == \A g, h \in Goroutines : pc[g] = "cs" /\ pc[h] = "cs" => g = h

\* None of the three consistency checks of the code (the throws of lines 112,
\* 139 and 180) ever fires for a client that unlocks what it holds, and a lock
\* that is handed over is still free and counted when the taker adds its delta.
NoThrow ==
  \A g \in Goroutines :
    /\ pc[g] = "loop" => ~Inconsistent(g)
    /\ pc[g] = "woke" /\ state.starving => HandoffOK(state)
    /\ pc[g] = "handoff" => state.starving /\ HandoffOK(state)
    /\ pc[g] = "cs" => state.locked

\* g carries the wake-up: it is about to release the semaphore, has come back
\* from it, or is competing for the lock with awoke set.
Carries(g) ==
  \/ pc[g] \in {"urelease", "ustarve", "woke", "handoff"}
  \/ pc[g] \in {"read", "loop"} /\ awoke[g]

\* There is never more than one wake-up under way, as a permit or in the hands
\* of a goroutine, and in normal mode mutexWoken says whether there is one.
OneWakeup ==
  /\ sema \in {0, 1}
  /\ sema = 1 => \A g \in Goroutines : ~Carries(g)
  /\ \A g, h \in Goroutines : Carries(g) /\ Carries(h) => g = h
  /\ ~state.starving =>
       (state.woken <=> sema = 1 \/ \E g \in Goroutines : Carries(g))

\* The high bits count the goroutines asleep or going to sleep: in normal mode
\* the unlocker takes its waiter off before it wakes it, in starving mode the
\* waiter takes itself off when the lock is handed to it.
WaitersCounted ==
  LET In(labels) == Cardinality({g \in Goroutines : pc[g] \in labels})
  IN state.waiters = IF state.starving
                       THEN In({"sem", "queued", "woke", "handoff"})
                       ELSE In({"sem", "queued"}) - In({"urelease"}) - sema

\* What the three throws guard and what they take for granted: the flags and the
\* count of the word agree with what the goroutines are doing.
WordConsistent == NoThrow /\ WaitersCounted

\* An unlocked mutex with waiters is never left alone: a wake-up is under way,
\* or an unlocker is about to issue one with a CAS that cannot fail.
NoLostWakeup ==
  ~state.locked /\ state.waiters > 0 =>
    \/ sema = 1
    \/ \E g \in Goroutines : Carries(g)
    \/ \E g \in Goroutines : pc[g] = "uloop" /\ old[g] = state

\* In starving mode a free mutex goes to the goroutine it is handed to, never
\* to one that arrives or spins.
NoBarging ==
  [][state.starving /\ ~state.locked /\ state'.locked =>
       \E g \in Goroutines : pc[g] = "handoff" /\ pc'[g] = "cs"]_vars

\* While starving mode lasts, every goroutine that sleeps gets its turn.
StarvingServed ==
  \A g \in Goroutines :
    state.starving /\ pc[g] = "queued" ~> ~state.starving \/ pc[g] = "cs"

\* The mutex implements the abstract lock: at most one holder, and a lock that
\* is free while goroutines wait for it is taken.
Phase(label) ==
  CASE label = "cs" -> "holding"
    [] label \in InLock \cup {"try"} -> "waiting"
    [] OTHER -> "idle"

Abstract == INSTANCE AbstractLock
              WITH phase <- [g \in Goroutines |-> Phase(pc[g])]

ImplementsLock == Abstract!Spec
=============================================================================
