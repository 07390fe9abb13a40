-------------------------- MODULE SyncMutexProofs --------------------------
(***************************************************************************)
(* Safety of the mutex for any number of goroutines.  The induction rests  *)
(* on who carries the one wake-up: in normal mode mutexWoken mirrors it,   *)
(* in starving mode the absence of mutexLocked does.  On top of it come    *)
(* the counts of the word, the wake-up that is always owed to a waiter,    *)
(* and the steps of the abstract lock.                                     *)
(***************************************************************************)
EXTENDS SyncMutex, Counting, SequenceTheorems

\* The queue holds parked goroutines, each once.
QueueOK ==
  /\ \A i \in 1..Len(queue) : pc[queue[i]] = "queued"
  /\ \A i, j \in 1..Len(queue) : queue[i] = queue[j] => i = j

\* mutexLocked is set exactly while some goroutine holds the lock, and one does.
HolderOK ==
  /\ \A g, h \in Goroutines : pc[g] = "cs" /\ pc[h] = "cs" => g = h
  /\ state.locked <=> \E g \in Goroutines : pc[g] = "cs"

\* What a goroutine knows from its locals.
LocalsOK ==
  \A g \in Goroutines :
    /\ pc[g] \notin InLock => ~awoke[g] /\ ~starving[g]
    /\ pc[g] \in {"read", "loop"} /\ starving[g] => awoke[g]
    /\ pc[g] = "loop" => ~Inconsistent(g)
    /\ pc[g] = "try" => ~Contended(old[g])

\* In starving mode the wake-up is the lock itself, and goes from ustarve to the
\* sleeper without competition; outside it nobody hands the lock over.
ModeOK ==
  IF state.starving
    THEN /\ ~state.woken
         /\ ~state.locked <=> sema = 1 \/ \E g \in Goroutines : Carries(g)
         /\ \A g \in Goroutines :
              Carries(g) => pc[g] \in {"ustarve", "woke", "handoff"}
    ELSE \A g \in Goroutines : pc[g] \notin {"ustarve", "handoff"}

IInv == QueueOK /\ HolderOK /\ LocalsOK /\ OneWakeup /\ ModeOK

-----------------------------------------------------------------------------
(* What the helpers return. *)

\* A goroutine only ever tries to install a well-formed word (line 117).
LEMMA NewStateType ==
  ASSUME NEW s \in States, NEW hungry \in BOOLEAN, NEW awake \in BOOLEAN
  PROVE  NewState(s, hungry, awake) \in States
  BY DEF NewState, Contended, States

\* Three of its fields, as lines 96-115 compute them.
LEMMA NewStateFields ==
  ASSUME NEW s, NEW hungry, NEW awake
  PROVE  /\ NewState(s, hungry, awake).locked = (s.locked \/ ~s.starving)
         /\ NewState(s, hungry, awake).woken = (s.woken /\ ~awake)
         /\ NewState(s, hungry, awake).starving = (s.starving \/ (hungry /\ s.locked))
  BY DEF NewState

\* So does an unlocker (line 189).
LEMMA WakeOneType ==
  ASSUME NEW s \in States
  PROVE  WakeOne(s) \in States
  BY DEF WakeOne, States

\* Parking and releasing keep a queue of goroutines.
LEMMA QueueType ==
  ASSUME queue \in Seq(Goroutines), NEW g \in Goroutines
  PROVE  /\ \A lifo \in BOOLEAN : Enqueue(g, lifo) \in Seq(Goroutines)
         /\ queue # <<>> => /\ Head(queue) \in Goroutines
                            /\ Tail(queue) \in Seq(Goroutines)
<1>1. <<g>> \in Seq(Goroutines)
  OBVIOUS
<1>. QED
  BY <1>1, ConcatProperties, AppendProperties, HeadTailProperties DEF Enqueue

\* A release moves the releaser and at most the head of the queue.
LEMMA ReleaseType ==
  ASSUME queue \in Seq(Goroutines), sema \in Nat, pc \in [Goroutines -> Labels],
         NEW g \in Goroutines, NEW handoff \in BOOLEAN, SemRelease(g, handoff)
  PROVE  /\ sema' \in Nat
         /\ queue' \in Seq(Goroutines)
         /\ pc' \in [Goroutines -> Labels]
<1>1. {"idle", "woke", "sem"} \subseteq Labels
  BY DEF Labels, InLock
<1>2. CASE queue = <<>>
  BY <1>1, <1>2 DEF SemRelease, Goto
<1>3. CASE queue # <<>>
  <2>1. Head(queue) \in Goroutines /\ Tail(queue) \in Seq(Goroutines)
    BY <1>3, QueueType
  <2>. QED
    BY <1>1, <1>3, <2>1 DEF SemRelease
<1>. QED
  BY <1>2, <1>3

\* The values to which locals are reset.
LEMMA DefaultsType == Unlocked \in States /\ 0 \in 0..MaxSpin
  BY MutexAssumption DEF Unlocked, States

\* The locals that end with a call are reset within their types.
LEMMA ForgetType ==
  ASSUME TypeOK, NEW g \in Goroutines, Forget(g)
  PROVE  /\ old' \in [Goroutines -> States]
         /\ awoke' \in [Goroutines -> BOOLEAN] /\ starving' \in [Goroutines -> BOOLEAN]
         /\ waited' \in [Goroutines -> BOOLEAN] /\ iter' \in [Goroutines -> 0..MaxSpin]
  BY DefaultsType DEF TypeOK, Forget, Remember

-----------------------------------------------------------------------------
\* Every step keeps every variable in its type.
LEMMA TypeStep == TypeOK /\ [Next]_vars => TypeOK'
<1> SUFFICES ASSUME TypeOK, [Next]_vars PROVE TypeOK'
  OBVIOUS
<1> USE MutexAssumption DEF TypeOK, States, Labels, InLock, InUnlock, locals
<1>1. CASE UNCHANGED vars
  BY <1>1 DEF vars
<1>2. CASE Next
  <2>. PICK g \in Goroutines : Call(g) \/ Step(g)
    BY <1>2 DEF Next
  <2>1. CASE LockFast(g)
    BY <2>1 DEF LockFast, Goto, Unlocked
  <2>2. CASE LockContended(g)
    BY <2>2 DEF LockContended, Goto
  <2>3. CASE TryLockRead(g)
    BY <2>3 DEF TryLockRead, Goto, Remember
  <2>4. CASE ReadState(g)
    BY <2>4 DEF ReadState, Goto, Remember
  <2>5. CASE Spin(g)
    <3>1. state' \in States
      BY <2>5 DEF Spin, Claim
    <3>2. pc' \in [Goroutines -> Labels]
      BY <2>5 DEF Spin, Goto
    <3>3. sema' \in Nat /\ queue' \in Seq(Goroutines)
      BY <2>5 DEF Spin
    <3>4. old' \in [Goroutines -> States]
      BY <2>5 DEF Spin, Remember, Unlocked
    <3>5. iter' \in [Goroutines -> 0..MaxSpin]
      BY <2>5 DEF Spin, CanSpin
    <3>6. awoke' \in [Goroutines -> BOOLEAN] /\ UNCHANGED <<starving, waited>>
      BY <2>5 DEF Spin, Claim
    <3>. QED
      BY <3>1, <3>2, <3>3, <3>4, <3>5, <3>6
  <2>6. CASE LockCAS(g)
    <3>1. state' \in States
      BY <2>6, NewStateType DEF LockCAS
    <3>2. pc' \in [Goroutines -> Labels]
      BY <2>6 DEF LockCAS, Goto
    <3>3. sema' \in Nat /\ queue' \in Seq(Goroutines)
      BY <2>6 DEF LockCAS
    <3>4. /\ old' \in [Goroutines -> States]
          /\ awoke' \in [Goroutines -> BOOLEAN] /\ starving' \in [Goroutines -> BOOLEAN]
          /\ waited' \in [Goroutines -> BOOLEAN] /\ iter' \in [Goroutines -> 0..MaxSpin]
      <4>1. CASE Forget(g)
        BY <4>1, ForgetType
      <4>2. CASE ~Forget(g)
        <5>1. UNCHANGED <<starving, waited>>
          BY <2>6, <4>2 DEF LockCAS
        <5>2. old' \in [Goroutines -> States]
          BY <2>6, <4>2, DefaultsType DEF LockCAS, Remember
        <5>3. awoke' \in [Goroutines -> BOOLEAN]
          BY <2>6, <4>2 DEF LockCAS
        <5>4. iter' \in [Goroutines -> 0..MaxSpin]
          BY <2>6, <4>2, DefaultsType DEF LockCAS
        <5>. QED
          BY <5>1, <5>2, <5>3, <5>4
      <4>. QED
        BY <4>1, <4>2
    <3>. QED
      BY <3>1, <3>2, <3>3, <3>4
  <2>7. CASE Park(g)
    <3>1. pc' \in [Goroutines -> Labels]
      BY <2>7 DEF Park, SemAcquire, Goto
    <3>2. sema' \in Nat
      BY <2>7 DEF Park, SemAcquire
    <3>3. queue' \in Seq(Goroutines)
      BY <2>7, QueueType DEF Park, SemAcquire
    <3>4. UNCHANGED <<state, locals>>
      BY <2>7 DEF Park
    <3>. QED
      BY <3>1, <3>2, <3>3, <3>4
  <2>8. ASSUME NEW late \in BOOLEAN, Wake(g, late) PROVE TypeOK'
    BY <2>8 DEF Wake, Goto, Remember
  <2>9. CASE Handoff(g)
    BY <2>9 DEF Handoff, Goto, Remember, Forget, Unlocked
  <2>10. CASE TryLockCAS(g)
    <3>1. state' \in States
      BY <2>10 DEF TryLockCAS
    <3>2. pc' \in [Goroutines -> Labels]
      BY <2>10 DEF TryLockCAS, Goto
    <3>3. old' \in [Goroutines -> States]
      BY <2>10 DEF TryLockCAS, Remember, Unlocked
    <3>4. UNCHANGED <<sema, queue, awoke, starving, waited, iter>>
      BY <2>10 DEF TryLockCAS
    <3>. QED
      BY <3>1, <3>2, <3>3, <3>4
  <2>11. CASE Unlock(g)
    <3>1. state' \in States
      BY <2>11 DEF Unlock
    <3>2. pc' \in [Goroutines -> Labels]
      BY <2>11 DEF Unlock, Goto
    <3>3. old' \in [Goroutines -> States]
      BY <2>11, <3>1 DEF Unlock, Remember
    <3>4. UNCHANGED <<sema, queue, awoke, starving, waited, iter>>
      BY <2>11 DEF Unlock
    <3>. QED
      BY <3>1, <3>2, <3>3, <3>4
  <2>12. CASE UnlockReturn(g)
    BY <2>12 DEF UnlockReturn, Goto, Remember, Unlocked
  <2>13. CASE UnlockCAS(g)
    <3>1. state' \in States
      BY <2>13, WakeOneType DEF UnlockCAS
    <3>2. pc' \in [Goroutines -> Labels]
      BY <2>13 DEF UnlockCAS, Goto
    <3>3. old' \in [Goroutines -> States]
      BY <2>13 DEF UnlockCAS, Remember, Unlocked
    <3>4. UNCHANGED <<sema, queue, awoke, starving, waited, iter>>
      BY <2>13 DEF UnlockCAS
    <3>. QED
      BY <3>1, <3>2, <3>3, <3>4
  <2>14. CASE UnlockReread(g)
    BY <2>14 DEF UnlockReread, Goto, Remember
  <2>15. CASE UnlockRelease(g)
    BY <2>15, ReleaseType DEF UnlockRelease
  <2>16. CASE UnlockHandoff(g)
    BY <2>16, ReleaseType DEF UnlockHandoff
  <2>. QED
    BY <2>1, <2>2, <2>3, <2>4, <2>5, <2>6, <2>7, <2>8, <2>9, <2>10, <2>11, <2>12, <2>13, <2>14, <2>15, <2>16 DEF Call, Step
<1>. QED
  BY <1>1, <1>2 DEF Next

-----------------------------------------------------------------------------
(* What leaves each part of the invariant alone. *)

\* Parked goroutines stay where they are while others move.
LEMMA QueueFrame ==
  ASSUME TypeOK, QueueOK, UNCHANGED queue,
         \A h \in Goroutines : pc[h] = "queued" => pc'[h] = "queued"
  PROVE  QueueOK'
<1>1. \A i \in 1..Len(queue) : queue[i] \in Goroutines
  BY DEF TypeOK
<1>. QED
  BY <1>1 DEF QueueOK

\* A step after which the same goroutine holds the lock.
LEMMA HolderFrame ==
  ASSUME HolderOK, state'.locked = state.locked,
         \A h \in Goroutines : pc'[h] = "cs" <=> pc[h] = "cs"
  PROVE  HolderOK'
  BY DEF HolderOK

\* A step that takes a free lock and sets mutexLocked.
LEMMA HolderEnters ==
  ASSUME HolderOK, ~state.locked, state'.locked, NEW g \in Goroutines,
         \A h \in Goroutines : pc'[h] = "cs" <=> h = g \/ pc[h] = "cs"
  PROVE  HolderOK'
  BY DEF HolderOK

\* A step that gives the lock back and clears mutexLocked.
LEMMA HolderLeaves ==
  ASSUME HolderOK, ~state'.locked, NEW g \in Goroutines, pc[g] = "cs",
         \A h \in Goroutines : pc'[h] = "cs" <=> h # g /\ pc[h] = "cs"
  PROVE  HolderOK'
  BY DEF HolderOK

\* A step that leaves the wake-up with whoever carries it.
LEMMA WakeupFrame ==
  ASSUME OneWakeup, UNCHANGED sema,
         state'.woken = state.woken, state'.starving = state.starving,
         \A h \in Goroutines : Carries(h)' <=> Carries(h)
  PROVE  OneWakeup'
  BY DEF OneWakeup

\* A step that leaves the mode, and the wake-up, as they are.
LEMMA ModeFrame ==
  ASSUME ModeOK, UNCHANGED sema, state'.locked = state.locked,
         state'.woken = state.woken, state'.starving = state.starving,
         \A h \in Goroutines : Carries(h)' <=> Carries(h),
         \A h \in Goroutines : pc'[h] = pc[h] \/
           (pc'[h] \notin {"ustarve", "handoff"} /\ ~Carries(h)')
  PROVE  ModeOK'
  BY DEF ModeOK

\* A release takes the head off a queue that stays well formed.
LEMMA ReleaseKeepsQueue ==
  ASSUME TypeOK, QueueOK, NEW g \in Goroutines, pc[g] # "queued",
         NEW handoff \in BOOLEAN, SemRelease(g, handoff)
  PROVE  QueueOK'
<1>1. CASE queue = <<>>
  BY <1>1 DEF QueueOK, SemRelease
<1>2. CASE queue # <<>>
  <2>1. /\ queue' = Tail(queue)
        /\ pc' = [pc EXCEPT ![g] = "idle",
                            ![Head(queue)] = IF handoff THEN "woke" ELSE "sem"]
    BY <1>2 DEF SemRelease
  <2>2. /\ Head(queue) = queue[1] /\ 1 \in 1..Len(queue)
        /\ \A i \in 1..Len(queue') :
             i + 1 \in 1..Len(queue) /\ queue'[i] = queue[i + 1]
    BY <1>2, <2>1, HeadTailProperties, EmptySeq DEF TypeOK
  <2>3. \A i \in 1..Len(queue) : queue[i] \in Goroutines
    BY DEF TypeOK
  <2>4. ASSUME NEW i \in 1..Len(queue')
        PROVE  queue'[i] # Head(queue) /\ queue'[i] # g /\ pc[queue'[i]] = "queued"
    BY <2>2 DEF QueueOK
  <2>5. \A i \in 1..Len(queue') : pc'[queue'[i]] = "queued"
    BY <2>1, <2>2, <2>3, <2>4 DEF TypeOK
  <2>6. \A i, j \in 1..Len(queue') : queue'[i] = queue'[j] => i = j
    BY <2>2 DEF QueueOK
  <2>. QED
    BY <2>5, <2>6 DEF QueueOK
<1>. QED
  BY <1>1, <1>2

\* A release with goroutines parked moves a parked one, and nobody else.
LEMMA ReleaseMoves ==
  ASSUME TypeOK, QueueOK, NEW g \in Goroutines, pc[g] # "queued",
         NEW handoff \in BOOLEAN, SemRelease(g, handoff), queue # <<>>
  PROVE  /\ sema' = IF handoff THEN sema ELSE sema + 1
         /\ \E h \in Goroutines :
              /\ h # g
              /\ pc[h] = "queued"
              /\ pc'[g] = "idle"
              /\ pc'[h] = IF handoff THEN "woke" ELSE "sem"
              /\ \A k \in Goroutines \ {g, h} : pc'[k] = pc[k]
<1>1. /\ sema' = IF handoff THEN sema ELSE sema + 1
      /\ pc' = [pc EXCEPT ![g] = "idle",
                          ![Head(queue)] = IF handoff THEN "woke" ELSE "sem"]
  BY DEF SemRelease
<1>2. Head(queue) \in Goroutines /\ pc[Head(queue)] = "queued"
  <2>1. Head(queue) = queue[1] /\ 1 \in 1..Len(queue)
    BY HeadTailProperties, EmptySeq DEF TypeOK
  <2>. QED
    BY <2>1 DEF QueueOK, TypeOK
<1>3. Head(queue) # g
  BY <1>2
<1>. QED
  BY <1>1, <1>2, <1>3 DEF TypeOK

-----------------------------------------------------------------------------
(* Every step keeps the invariant: one lemma per action. *)

\* The free word is taken by one CAS (line 38).
LEMMA LockFastKeeps ==
  ASSUME TypeOK, IInv, NEW g \in Goroutines, LockFast(g)
  PROVE  IInv'
<1>. USE DEF TypeOK, States, Labels, InLock, InUnlock, locals
<1>1. QueueOK'
  BY DEF IInv, QueueOK, LockFast, Goto, Unlocked
<1>2. HolderOK'
  BY DEF IInv, HolderOK, OneWakeup, ModeOK, Carries, LocalsOK, Contended, LockFast, Goto, Unlocked
<1>3. LocalsOK'
  BY DEF IInv, QueueOK, LocalsOK, Inconsistent, Contended, OneWakeup, Carries, ModeOK, LockFast, Goto, Unlocked
<1>4. OneWakeup'
  BY DEF IInv, QueueOK, OneWakeup, ModeOK, Carries, LocalsOK, Inconsistent, LockFast, Goto, Unlocked
<1>5. ModeOK'
  BY DEF IInv, QueueOK, ModeOK, OneWakeup, HolderOK, LocalsOK, Carries, Contended, LockFast, Goto, Unlocked
<1>. QED
  BY <1>1, <1>2, <1>3, <1>4, <1>5 DEF IInv

\* LockSlow begins (lines 44 and 60-70).
LEMMA LockContendedKeeps ==
  ASSUME TypeOK, IInv, NEW g \in Goroutines, LockContended(g)
  PROVE  IInv'
<1>. USE DEF TypeOK, States, Labels, InLock, InUnlock, locals
<1>1. QueueOK'
  BY DEF IInv, QueueOK, LockContended, Goto
<1>2. HolderOK'
  BY DEF IInv, HolderOK, OneWakeup, ModeOK, Carries, LocalsOK, Contended, LockContended, Goto
<1>3. LocalsOK'
  BY DEF IInv, QueueOK, LocalsOK, Inconsistent, Contended, OneWakeup, Carries, ModeOK, LockContended, Goto
<1>4. OneWakeup'
  <2>1. \A h \in Goroutines : Carries(h)' <=> Carries(h)
    BY DEF IInv, LocalsOK, Carries, LockContended, Goto
  <2>. QED
    BY <2>1, WakeupFrame DEF IInv, LockContended
<1>5. ModeOK'
  BY DEF IInv, QueueOK, ModeOK, OneWakeup, HolderOK, LocalsOK, Carries, Contended, LockContended, Goto
<1>. QED
  BY <1>1, <1>2, <1>3, <1>4, <1>5 DEF IInv

\* TryLock saw an uncontended word (lines 48-51).
LEMMA TryLockReadKeeps ==
  ASSUME TypeOK, IInv, NEW g \in Goroutines, TryLockRead(g)
  PROVE  IInv'
<1>. USE DEF TypeOK, States, Labels, InLock, InUnlock, locals
<1>1. QueueOK'
  BY DEF IInv, QueueOK, TryLockRead, Goto, Remember
<1>2. HolderOK'
  BY DEF IInv, HolderOK, OneWakeup, ModeOK, Carries, LocalsOK, Contended, TryLockRead, Goto, Remember
<1>3. LocalsOK'
  BY DEF IInv, QueueOK, LocalsOK, Inconsistent, Contended, OneWakeup, Carries, ModeOK, TryLockRead, Goto, Remember
<1>4. OneWakeup'
  BY DEF IInv, QueueOK, OneWakeup, ModeOK, Carries, LocalsOK, Inconsistent, TryLockRead, Goto, Remember
<1>5. ModeOK'
  BY DEF IInv, QueueOK, ModeOK, OneWakeup, HolderOK, LocalsOK, Carries, Contended, TryLockRead, Goto, Remember
<1>. QED
  BY <1>1, <1>2, <1>3, <1>4, <1>5 DEF IInv

\* LockSlow reads the word (lines 70, 88 and 151).
LEMMA ReadStateKeeps ==
  ASSUME TypeOK, IInv, NEW g \in Goroutines, ReadState(g)
  PROVE  IInv'
<1>. USE DEF TypeOK, States, Labels, InLock, InUnlock, locals
<1>1. QueueOK'
  BY DEF IInv, QueueOK, ReadState, Goto, Remember
<1>2. HolderOK'
  BY DEF IInv, HolderOK, OneWakeup, ModeOK, Carries, LocalsOK, Contended, ReadState, Goto, Remember
<1>3. LocalsOK'
  BY DEF IInv, QueueOK, LocalsOK, Inconsistent, Contended, OneWakeup, Carries, ModeOK, ReadState, Goto, Remember
<1>4. OneWakeup'
  BY DEF IInv, QueueOK, OneWakeup, ModeOK, Carries, LocalsOK, Inconsistent, ReadState, Goto, Remember
<1>5. ModeOK'
  BY DEF IInv, QueueOK, ModeOK, OneWakeup, HolderOK, LocalsOK, Carries, Contended, ReadState, Goto, Remember
<1>. QED
  BY <1>1, <1>2, <1>3, <1>4, <1>5 DEF IInv

\* One spin, which may claim the wake-up (lines 77-90).
LEMMA SpinKeeps ==
  ASSUME TypeOK, IInv, NEW g \in Goroutines, Spin(g)
  PROVE  IInv'
<1>. USE DEF TypeOK, States, Labels, InLock, InUnlock, locals
<1>1. QueueOK'
  BY DEF IInv, QueueOK, Spin, Claim, MayClaim, CanSpin, Goto, Remember
<1>2. HolderOK'
  BY DEF IInv, HolderOK, OneWakeup, ModeOK, Carries, LocalsOK, Contended, Spin, Claim, MayClaim, CanSpin, Goto, Remember
<1>3. LocalsOK'
  BY DEF IInv, QueueOK, LocalsOK, Inconsistent, Contended, OneWakeup, Carries, ModeOK, Spin, Claim, MayClaim, CanSpin, Goto, Remember
<1>4. OneWakeup'
  BY DEF IInv, QueueOK, OneWakeup, ModeOK, Carries, LocalsOK, Inconsistent, Spin, Claim, MayClaim, CanSpin, Goto, Remember
<1>5. ModeOK'
  BY DEF IInv, QueueOK, ModeOK, OneWakeup, HolderOK, LocalsOK, Carries, Contended, Spin, Claim, MayClaim, CanSpin, Goto, Remember
<1>. QED
  BY <1>1, <1>2, <1>3, <1>4, <1>5 DEF IInv

\* The CAS of lockSlow fails, takes the lock, or joins the waiters (lines 96-123).
LEMMA LockCASKeeps ==
  ASSUME TypeOK, IInv, NEW g \in Goroutines, LockCAS(g)
  PROVE  IInv'
<1>. USE DEF TypeOK, States, Labels, InLock, InUnlock, locals
<1>1. CASE state # old[g]
  <2>1. /\ UNCHANGED <<state, sema, queue, awoke, starving, waited, iter>>
        /\ pc' = [pc EXCEPT ![g] = "read"] /\ pc[g] = "loop"
        /\ old' = [old EXCEPT ![g] = Unlocked]
    BY <1>1 DEF LockCAS, Goto, Remember
  <2>2. \A h \in Goroutines : Carries(h)' <=> Carries(h)
    BY <2>1 DEF Carries
  <2>3. QueueOK'
    BY <2>1, QueueFrame DEF IInv
  <2>4. HolderOK'
    BY <2>1, HolderFrame DEF IInv
  <2>5. LocalsOK'
    BY <2>1 DEF IInv, LocalsOK, Inconsistent, Contended
  <2>6. OneWakeup'
    BY <2>1, <2>2, WakeupFrame DEF IInv
  <2>7. ModeOK'
    BY <2>1, <2>2 DEF IInv, ModeOK
  <2>. QED
    BY <2>3, <2>4, <2>5, <2>6, <2>7 DEF IInv
<1>2. CASE state = old[g] /\ ~Contended(old[g])
  <2>1. /\ UNCHANGED <<sema, queue>>
        /\ pc' = [pc EXCEPT ![g] = "cs"] /\ pc[g] = "loop"
        /\ awoke' = [awoke EXCEPT ![g] = FALSE]
        /\ starving' = [starving EXCEPT ![g] = FALSE]
        /\ old' = [old EXCEPT ![g] = Unlocked]
        /\ ~Inconsistent(g)
    BY <1>2 DEF LockCAS, Goto, Forget, Remember
  <2>2. /\ ~state.locked /\ ~state.starving /\ state'.locked /\ ~state'.starving
        /\ state'.woken <=> state.woken /\ ~awoke[g]
    <3>1. state' = NewState(state, starving[g], awoke[g])
      BY <1>2 DEF LockCAS
    <3>2. /\ state.locked \in BOOLEAN /\ state.woken \in BOOLEAN /\ state.starving \in BOOLEAN
          /\ starving[g] \in BOOLEAN /\ awoke[g] \in BOOLEAN
      OBVIOUS
    <3>. QED
      BY <1>2, <3>1, <3>2, NewStateFields DEF Contended
  <2>3. QueueOK'
    BY <2>1, QueueFrame DEF IInv
  <2>4. HolderOK'
    BY <2>1, <2>2, HolderEnters DEF IInv
  <2>5. LocalsOK'
    BY <2>1 DEF IInv, LocalsOK, Inconsistent, Contended
  <2>6. OneWakeup'
    BY <2>1, <2>2 DEF IInv, OneWakeup, Carries
  <2>7. ModeOK'
    BY <2>1, <2>2 DEF IInv, ModeOK
  <2>. QED
    BY <2>3, <2>4, <2>5, <2>6, <2>7 DEF IInv
<1>3. CASE state = old[g] /\ Contended(old[g])
  <2>1. /\ UNCHANGED <<sema, queue, starving>>
        /\ pc' = [pc EXCEPT ![g] = "sem"] /\ pc[g] = "loop"
        /\ awoke' = [awoke EXCEPT ![g] = FALSE]
        /\ old' = [old EXCEPT ![g] = Unlocked]
        /\ ~Inconsistent(g)
    BY <1>3 DEF LockCAS, Goto, Remember
  <2>2. /\ state'.locked = state.locked
        /\ state'.woken <=> state.woken /\ ~awoke[g]
        /\ state'.starving <=> state.starving \/ (starving[g] /\ state.locked)
        /\ state.locked \/ state.starving
    <3>1. state' = NewState(state, starving[g], awoke[g])
      BY <1>3 DEF LockCAS
    <3>2. /\ state.locked \in BOOLEAN /\ state.woken \in BOOLEAN /\ state.starving \in BOOLEAN
          /\ starving[g] \in BOOLEAN /\ awoke[g] \in BOOLEAN
      OBVIOUS
    <3>3. state.locked \/ state.starving
      BY <1>3 DEF Contended
    <3>4. /\ state'.locked = (state.locked \/ ~state.starving)
          /\ state'.woken = (state.woken /\ ~awoke[g])
          /\ state'.starving = (state.starving \/ (starving[g] /\ state.locked))
      <4>1. /\ state'.locked = NewState(state, starving[g], awoke[g]).locked
            /\ state'.woken = NewState(state, starving[g], awoke[g]).woken
            /\ state'.starving = NewState(state, starving[g], awoke[g]).starving
        BY <3>1
      <4>2. /\ NewState(state, starving[g], awoke[g]).locked = (state.locked \/ ~state.starving)
            /\ NewState(state, starving[g], awoke[g]).woken = (state.woken /\ ~awoke[g])
            /\ NewState(state, starving[g], awoke[g]).starving
                 = (state.starving \/ (starving[g] /\ state.locked))
        BY DEF NewState
      <4>. QED
        BY <4>1, <4>2
    <3>5. CASE state.locked
      BY <3>2, <3>4, <3>5
    <3>6. CASE ~state.locked
      BY <3>2, <3>3, <3>4, <3>6
    <3>. QED
      BY <3>5, <3>6
  <2>3. starving[g] => awoke[g]
    BY <2>1 DEF IInv, LocalsOK
  <2>4. awoke[g] => Carries(g) /\ ~state.starving
    BY <2>1 DEF IInv, ModeOK, Carries
  <2>5. \A h \in Goroutines : Carries(h)' <=> h # g /\ Carries(h)
    BY <2>1 DEF Carries
  <2>6. QueueOK'
    BY <2>1, QueueFrame DEF IInv
  <2>7. HolderOK'
    BY <2>1, <2>2, HolderFrame DEF IInv
  <2>8. LocalsOK'
    BY <2>1 DEF IInv, LocalsOK, Inconsistent, Contended, InLock
  <2>9. OneWakeup'
    <3>1. CASE awoke[g]
      BY <2>1, <2>2, <2>4, <2>5, <3>1 DEF IInv, OneWakeup
    <3>2. CASE ~awoke[g]
      <4>1. ~Carries(g)
        BY <2>1, <3>2 DEF Carries
      <4>. QED
        BY <2>1, <2>2, <2>3, <2>5, <3>2, <4>1 DEF IInv, OneWakeup
    <3>. QED
      BY <3>1, <3>2
  <2>10. ModeOK'
    <3>1. CASE state.starving
      <4>1. ~awoke[g] /\ ~Carries(g)
        BY <2>1, <2>4, <3>1 DEF Carries
      <4>. QED
        BY <2>1, <2>2, <2>5, <3>1, <4>1 DEF IInv, ModeOK
    <3>2. CASE ~state.starving /\ starving[g]
      BY <2>1, <2>2, <2>3, <2>4, <2>5, <3>2 DEF IInv, ModeOK, OneWakeup
    <3>3. CASE ~state.starving /\ ~starving[g]
      BY <2>1, <2>2, <3>3 DEF IInv, ModeOK
    <3>. QED
      BY <3>1, <3>2, <3>3
  <2>. QED
    BY <2>6, <2>7, <2>8, <2>9, <2>10 DEF IInv
<1>. QED
  BY <1>1, <1>2, <1>3

\* A goroutine takes a permit or sleeps (line 134).
LEMMA ParkKeeps ==
  ASSUME TypeOK, IInv, NEW g \in Goroutines, Park(g)
  PROVE  IInv'
<1>. USE DEF TypeOK, States, Labels, InLock, InUnlock, locals
<1>1. QueueOK'
  <2>1. CASE sema > 0
    <3>1. \A h \in Goroutines : pc[h] = "queued" => pc'[h] = "queued"
      BY <2>1 DEF Park, SemAcquire, Goto
    <3>. QED
      BY <2>1, <3>1, QueueFrame DEF IInv, Park, SemAcquire
  <2>2. CASE ~(sema > 0)
    <3>1. pc' = [pc EXCEPT ![g] = "queued"] /\ queue' = Enqueue(g, waited[g])
      BY <2>2 DEF Park, SemAcquire, Goto
    <3>2. \A i \in 1..Len(queue) :
            queue[i] \in Goroutines /\ pc[queue[i]] = "queued" /\ queue[i] # g
      BY DEF IInv, QueueOK, Park
    <3>3. CASE waited[g]
      <4>1. /\ Len(queue') = Len(queue) + 1 /\ Len(queue) \in Nat
            /\ queue'[1] = g
            /\ \A i \in 2..Len(queue') : queue'[i] = queue[i - 1]
        BY <3>1, <3>3 DEF Enqueue
      <4>2. \A i \in 1..Len(queue') : i = 1 \/ (i - 1 \in 1..Len(queue) /\ queue'[i] = queue[i - 1])
        BY <4>1
      <4>3. ASSUME NEW i \in 1..Len(queue') PROVE pc'[queue'[i]] = "queued"
        <5>1. CASE i = 1
          BY <3>1, <4>1, <5>1
        <5>2. CASE i # 1
          BY <3>1, <3>2, <4>2, <5>2
        <5>. QED
          BY <5>1, <5>2
      <4>4. ASSUME NEW i \in 1..Len(queue'), NEW j \in 1..Len(queue'), queue'[i] = queue'[j]
            PROVE  i = j
        <5>1. \A k, l \in 1..Len(queue) : queue[k] = queue[l] => k = l
          BY DEF IInv, QueueOK
        <5>. \A k \in 1..Len(queue) : queue[k] # g
          BY <3>2
        <5>2. CASE i = 1 \/ j = 1
          <6>1. CASE i = 1
            BY <4>1, <4>2, <4>4, <6>1
          <6>2. CASE j = 1
            BY <4>1, <4>2, <4>4, <6>2
          <6>. QED
            BY <5>2, <6>1, <6>2
        <5>3. CASE i # 1 /\ j # 1
          <6>1. queue'[i] = queue[i - 1] /\ queue'[j] = queue[j - 1]
                /\ i - 1 \in 1..Len(queue) /\ j - 1 \in 1..Len(queue)
            BY <4>2, <5>3
          <6>2. i - 1 = j - 1
            BY <4>4, <5>1, <6>1
          <6>. QED
            BY <6>2
        <5>. QED
          BY <5>2, <5>3
      <4>. QED
        BY <4>3, <4>4 DEF QueueOK
    <3>4. CASE ~waited[g]
      <4>1. /\ Len(queue') = Len(queue) + 1 /\ Len(queue) \in Nat
            /\ queue'[Len(queue) + 1] = g
            /\ \A i \in 1..Len(queue) : queue'[i] = queue[i]
        BY <3>1, <3>4 DEF Enqueue
      <4>2. \A i \in 1..Len(queue') : i = Len(queue) + 1 \/ (i \in 1..Len(queue) /\ queue'[i] = queue[i])
        BY <4>1
      <4>3. ASSUME NEW i \in 1..Len(queue') PROVE pc'[queue'[i]] = "queued"
        <5>1. CASE i = Len(queue) + 1
          BY <3>1, <4>1, <5>1
        <5>2. CASE i # Len(queue) + 1
          BY <3>1, <3>2, <4>2, <5>2
        <5>. QED
          BY <5>1, <5>2
      <4>4. ASSUME NEW i \in 1..Len(queue'), NEW j \in 1..Len(queue'), queue'[i] = queue'[j]
            PROVE  i = j
        <5>1. \A k, l \in 1..Len(queue) : queue[k] = queue[l] => k = l
          BY DEF IInv, QueueOK
        <5>. \A k \in 1..Len(queue) : queue[k] # g
          BY <3>2
        <5>2. CASE i = Len(queue) + 1 \/ j = Len(queue) + 1
          <6>1. CASE i = Len(queue) + 1
            BY <4>1, <4>2, <4>4, <6>1
          <6>2. CASE j = Len(queue) + 1
            BY <4>1, <4>2, <4>4, <6>2
          <6>. QED
            BY <5>2, <6>1, <6>2
        <5>3. CASE i # Len(queue) + 1 /\ j # Len(queue) + 1
          <6>1. queue'[i] = queue[i] /\ queue'[j] = queue[j]
                /\ i \in 1..Len(queue) /\ j \in 1..Len(queue)
            BY <4>2, <5>3
          <6>2. i = j
            BY <4>4, <5>1, <6>1
          <6>. QED
            BY <6>2
        <5>. QED
          BY <5>2, <5>3
      <4>. QED
        BY <4>3, <4>4 DEF QueueOK
    <3>. QED
      BY <3>3, <3>4
  <2>. QED
    BY <2>1, <2>2
<1>2. HolderOK'
  <2>1. \A h \in Goroutines : pc'[h] = "cs" <=> pc[h] = "cs"
    BY DEF Park, SemAcquire, Goto
  <2>. QED
    BY <2>1, HolderFrame DEF IInv, Park
<1>3. LocalsOK'
  BY DEF IInv, QueueOK, LocalsOK, Inconsistent, Contended, OneWakeup, Carries, ModeOK, Park, SemAcquire, Goto
<1>4. OneWakeup'
  <2>1. CASE sema > 0
    <3>1. pc' = [pc EXCEPT ![g] = "woke"] /\ sema' = sema - 1 /\ UNCHANGED <<state, awoke>>
      BY <2>1 DEF Park, SemAcquire, Goto
    <3>2. sema = 1 /\ sema' = 0 /\ pc[g] = "sem"
      BY <2>1, <3>1 DEF IInv, OneWakeup, Park
    <3>3. \A h \in Goroutines : Carries(h)' <=> h = g \/ Carries(h)
      BY <3>1, <3>2 DEF Carries
    <3>. QED
      BY <3>1, <3>2, <3>3 DEF IInv, OneWakeup, ModeOK
  <2>2. CASE ~(sema > 0)
    <3>1. pc' = [pc EXCEPT ![g] = "queued"] /\ pc[g] = "sem" /\ UNCHANGED <<state, sema, awoke>>
      BY <2>2 DEF Park, SemAcquire, Goto, locals
    <3>2. \A h \in Goroutines : Carries(h)' <=> Carries(h)
      BY <3>1 DEF Carries
    <3>. QED
      BY <3>1, <3>2, WakeupFrame DEF IInv
  <2>. QED
    BY <2>1, <2>2
<1>5. ModeOK'
  <2>1. CASE sema > 0
    <3>1. pc' = [pc EXCEPT ![g] = "woke"] /\ sema' = sema - 1 /\ UNCHANGED <<state, awoke>>
      BY <2>1 DEF Park, SemAcquire, Goto
    <3>2. sema = 1 /\ sema' = 0 /\ pc[g] = "sem"
      BY <2>1, <3>1 DEF IInv, OneWakeup, Park
    <3>3. \A h \in Goroutines : Carries(h)' <=> h = g \/ Carries(h)
      BY <3>1, <3>2 DEF Carries
    <3>. QED
      BY <3>1, <3>2, <3>3 DEF IInv, OneWakeup, ModeOK
  <2>2. CASE ~(sema > 0)
    <3>1. pc' = [pc EXCEPT ![g] = "queued"] /\ pc[g] = "sem" /\ UNCHANGED <<state, sema, awoke>>
      BY <2>2 DEF Park, SemAcquire, Goto, locals
    <3>2. \A h \in Goroutines : Carries(h)' <=> Carries(h)
      BY <3>1 DEF Carries
    <3>. QED
      BY <3>1, <3>2, ModeFrame DEF IInv, ModeOK
  <2>. QED
    BY <2>1, <2>2
<1>. QED
  BY <1>1, <1>2, <1>3, <1>4, <1>5 DEF IInv

\* A woken goroutine reads the word (lines 135-149).
LEMMA WakeKeeps ==
  ASSUME TypeOK, IInv, NEW g \in Goroutines, NEW late \in BOOLEAN, Wake(g, late)
  PROVE  IInv'
<1>. USE DEF TypeOK, States, Labels, InLock, InUnlock, locals
<1>1. QueueOK'
  BY DEF IInv, QueueOK, Wake, HandoffOK, Goto, Remember
<1>2. HolderOK'
  <2>1. \A h \in Goroutines : pc'[h] = "cs" <=> pc[h] = "cs"
    BY DEF Wake, Goto
  <2>. QED
    BY <2>1, HolderFrame DEF IInv, Wake
<1>3. LocalsOK'
  BY DEF IInv, QueueOK, LocalsOK, Inconsistent, Contended, OneWakeup, Carries, ModeOK, Wake, HandoffOK, Goto, Remember
<1>4. OneWakeup'
  <2>1. \A h \in Goroutines : Carries(h)' <=> Carries(h)
    BY DEF Wake, Goto, Carries
  <2>. QED
    BY <2>1, WakeupFrame DEF IInv, Wake
<1>5. ModeOK'
  <2>1. CASE state.starving
    BY <2>1 DEF IInv, ModeOK, Carries, Wake, Goto
  <2>2. CASE ~state.starving
    BY <2>2 DEF IInv, ModeOK, Wake, Goto
  <2>. QED
    BY <2>1, <2>2
<1>. QED
  BY <1>1, <1>2, <1>3, <1>4, <1>5 DEF IInv

\* A goroutine takes a lock that was handed to it (lines 141-146).
LEMMA HandoffKeeps ==
  ASSUME TypeOK, IInv, NEW g \in Goroutines, Handoff(g)
  PROVE  IInv'
<1>. USE DEF TypeOK, States, Labels, InLock, InUnlock, locals
<1>1. QueueOK'
  BY DEF IInv, QueueOK, Handoff, Goto, Remember, Forget
<1>2. HolderOK'
  BY DEF IInv, HolderOK, OneWakeup, ModeOK, Carries, LocalsOK, Contended, Handoff, Goto, Remember, Forget
<1>3. LocalsOK'
  BY DEF IInv, QueueOK, LocalsOK, Inconsistent, Contended, OneWakeup, Carries, ModeOK, Handoff, Goto, Remember, Forget
<1>4. OneWakeup'
  BY DEF IInv, QueueOK, OneWakeup, ModeOK, Carries, LocalsOK, Inconsistent, Handoff, Goto, Remember, Forget
<1>5. ModeOK'
  BY DEF IInv, QueueOK, ModeOK, OneWakeup, HolderOK, LocalsOK, Carries, Contended, Handoff, Goto, Remember, Forget
<1>. QED
  BY <1>1, <1>2, <1>3, <1>4, <1>5 DEF IInv

\* The CAS of TryLock (line 52).
LEMMA TryLockCASKeeps ==
  ASSUME TypeOK, IInv, NEW g \in Goroutines, TryLockCAS(g)
  PROVE  IInv'
<1>. USE DEF TypeOK, States, Labels, InLock, InUnlock, locals
<1>1. QueueOK'
  BY DEF IInv, QueueOK, TryLockCAS, Goto, Remember
<1>2. HolderOK'
  <2>1. CASE state = old[g]
    <3>1. ~state.locked /\ state'.locked
      BY <2>1 DEF IInv, LocalsOK, Contended, TryLockCAS
    <3>2. \A h \in Goroutines : pc'[h] = "cs" <=> h = g \/ pc[h] = "cs"
      BY <2>1 DEF TryLockCAS, Goto
    <3>. QED
      BY <3>1, <3>2, HolderEnters DEF IInv
  <2>2. CASE state # old[g]
    <3>1. \A h \in Goroutines : pc'[h] = "cs" <=> pc[h] = "cs"
      BY <2>2 DEF TryLockCAS, Goto
    <3>. QED
      BY <2>2, <3>1, HolderFrame DEF IInv, TryLockCAS
  <2>. QED
    BY <2>1, <2>2
<1>3. LocalsOK'
  BY DEF IInv, LocalsOK, Inconsistent, TryLockCAS, Goto, Remember
<1>4. /\ UNCHANGED awoke /\ pc[g] = "try" /\ pc'[g] \in {"cs", "idle"}
      /\ \A h \in Goroutines : h # g => pc'[h] = pc[h]
  BY DEF TryLockCAS, Goto
<1>5. OneWakeup'
  <2>1. \A h \in Goroutines : Carries(h)' <=> Carries(h)
    BY <1>4 DEF Carries
  <2>2. state'.woken = state.woken /\ state'.starving = state.starving
    <3>1. state' = [state EXCEPT !.locked = TRUE] \/ state' = state
      BY DEF TryLockCAS
    <3>. QED
      BY <3>1
  <2>3. OneWakeup /\ UNCHANGED sema
    BY DEF IInv, TryLockCAS
  <2>. QED
    BY <2>1, <2>2, <2>3, WakeupFrame
<1>6. ModeOK'
  <2>1. CASE state = old[g]
    <3>1. ~state.starving /\ ~state'.starving
      BY <2>1 DEF IInv, LocalsOK, Contended, TryLockCAS
    <3>. QED
      BY <1>4, <3>1 DEF IInv, ModeOK
  <2>2. CASE state # old[g]
    <3>1. /\ state' = state /\ sema' = sema
          /\ \A h \in Goroutines : Carries(h)' <=> Carries(h)
      BY <2>2 DEF TryLockCAS, Goto, Carries
    <3>2. \A h \in Goroutines : Carries(h) => pc'[h] = pc[h]
      BY <1>4 DEF Carries
    <3>. QED
      BY <1>4, <3>1, <3>2 DEF IInv, ModeOK
  <2>. QED
    BY <2>1, <2>2
<1>. QED
  BY <1>1, <1>2, <1>3, <1>5, <1>6 DEF IInv

\* The holder clears mutexLocked (lines 172-183).
LEMMA UnlockKeeps ==
  ASSUME TypeOK, IInv, NEW g \in Goroutines, Unlock(g)
  PROVE  IInv'
<1>. USE DEF TypeOK, States, Labels, InLock, InUnlock, locals
<1>1. QueueOK'
  BY DEF IInv, QueueOK, Unlock, Unlocked, Goto, Remember
<1>2. HolderOK'
  <2>1. \A h \in Goroutines : pc'[h] = "cs" <=> h # g /\ pc[h] = "cs"
    BY DEF Unlock, Goto
  <2>2. ~state'.locked
    BY DEF Unlock
  <2>. QED
    BY <2>1, <2>2, HolderLeaves DEF IInv, Unlock
<1>3. LocalsOK'
  BY DEF IInv, LocalsOK, Inconsistent, Unlock, Goto, Remember
<1>4. OneWakeup'
  BY DEF IInv, QueueOK, OneWakeup, ModeOK, Carries, LocalsOK, Inconsistent, Unlock, Unlocked, Goto, Remember
<1>5. ModeOK'
  <2>1. state.locked /\ ~state'.locked /\ state'.woken = state.woken
        /\ state'.starving = state.starving /\ sema' = sema
    BY DEF Unlock
  <2>2. CASE state.starving
    <3>1. pc' = [pc EXCEPT ![g] = "ustarve"]
      BY <2>1, <2>2 DEF Unlock, Goto, Unlocked
    <3>. QED
      BY <2>1, <2>2, <3>1 DEF IInv, ModeOK, Carries, Unlock
  <2>3. CASE ~state.starving
    <3>1. pc'[g] \in {"idle", "uloop"} /\ \A h \in Goroutines \ {g} : pc'[h] = pc[h]
      BY <2>1, <2>3 DEF Unlock, Goto
    <3>. QED
      BY <2>1, <2>3, <3>1 DEF IInv, ModeOK
  <2>. QED
    BY <2>2, <2>3
<1>. QED
  BY <1>1, <1>2, <1>3, <1>4, <1>5 DEF IInv

\* An unlocker has nobody to wake (line 185).
LEMMA UnlockReturnKeeps ==
  ASSUME TypeOK, IInv, NEW g \in Goroutines, UnlockReturn(g)
  PROVE  IInv'
<1>. USE DEF TypeOK, States, Labels, InLock, InUnlock, locals
<1>1. QueueOK'
  BY DEF IInv, QueueOK, UnlockReturn, Goto, Remember
<1>2. HolderOK'
  BY DEF IInv, HolderOK, OneWakeup, ModeOK, Carries, LocalsOK, Contended, UnlockReturn, Goto, Remember
<1>3. LocalsOK'
  BY DEF IInv, LocalsOK, Inconsistent, UnlockReturn, Goto, Remember
<1>4. OneWakeup'
  BY DEF IInv, QueueOK, OneWakeup, ModeOK, Carries, LocalsOK, Inconsistent, UnlockReturn, Goto, Remember
<1>5. ModeOK'
  BY DEF IInv, QueueOK, ModeOK, OneWakeup, HolderOK, LocalsOK, Carries, Contended, UnlockReturn, Goto, Remember
<1>. QED
  BY <1>1, <1>2, <1>3, <1>4, <1>5 DEF IInv

\* An unlocker takes a waiter off and raises mutexWoken (lines 188-189).
LEMMA UnlockCASKeeps ==
  ASSUME TypeOK, IInv, NEW g \in Goroutines, UnlockCAS(g)
  PROVE  IInv'
<1>. USE DEF TypeOK, States, Labels, InLock, InUnlock, locals
<1>1. QueueOK'
  BY DEF IInv, QueueOK, UnlockCAS, WakeOne, NoWakeNeeded, Goto, Remember
<1>2. HolderOK'
  <2>1. \A h \in Goroutines : pc'[h] = "cs" <=> pc[h] = "cs"
    BY DEF UnlockCAS, Goto
  <2>2. state'.locked = state.locked
    BY DEF UnlockCAS, WakeOne
  <2>. QED
    BY <2>1, <2>2, HolderFrame DEF IInv
<1>3. LocalsOK'
  BY DEF IInv, LocalsOK, Inconsistent, UnlockCAS, Goto, Remember
<1>4. OneWakeup'
  <2>1. CASE state = old[g]
    <3>1. ~state.starving /\ ~state.woken /\ ~state'.starving /\ state'.woken
      BY <2>1 DEF UnlockCAS, WakeOne, NoWakeNeeded
    <3>2. pc' = [pc EXCEPT ![g] = "urelease"] /\ UNCHANGED <<sema, awoke>>
      BY <2>1 DEF UnlockCAS, Goto
    <3>3. Carries(g)' /\ \A h \in Goroutines \ {g} : Carries(h)' <=> Carries(h)
      BY <3>2 DEF Carries
    <3>. QED
      BY <3>1, <3>2, <3>3 DEF IInv, OneWakeup
  <2>2. CASE state # old[g]
    <3>1. \A h \in Goroutines : Carries(h)' <=> Carries(h)
      BY <2>2 DEF UnlockCAS, Goto, Carries
    <3>. QED
      BY <2>2, <3>1, WakeupFrame DEF IInv, UnlockCAS
  <2>. QED
    BY <2>1, <2>2
<1>5. ModeOK'
  <2>1. CASE state = old[g]
    <3>1. ~state.starving /\ ~state'.starving
      BY <2>1 DEF UnlockCAS, WakeOne, NoWakeNeeded
    <3>2. \A h \in Goroutines : pc'[h] = pc[h] \/ pc'[h] = "urelease"
      BY <2>1 DEF UnlockCAS, Goto
    <3>. QED
      BY <3>1, <3>2 DEF IInv, ModeOK
  <2>2. CASE state # old[g]
    <3>1. \A h \in Goroutines : Carries(h)' <=> Carries(h)
      BY <2>2 DEF UnlockCAS, Goto, Carries
    <3>2. UNCHANGED <<state, sema>> /\ pc' = [pc EXCEPT ![g] = "uread"]
      BY <2>2 DEF UnlockCAS, Goto
    <3>3. \A h \in Goroutines : pc'[h] = pc[h] \/
            (pc'[h] \notin {"ustarve", "handoff"} /\ ~Carries(h)')
      BY <3>2 DEF Carries
    <3>. QED
      BY <3>1, <3>2, <3>3, ModeFrame DEF IInv
  <2>. QED
    BY <2>1, <2>2
<1>. QED
  BY <1>1, <1>2, <1>3, <1>4, <1>5 DEF IInv

\* An unlocker reads the word again (line 195).
LEMMA UnlockRereadKeeps ==
  ASSUME TypeOK, IInv, NEW g \in Goroutines, UnlockReread(g)
  PROVE  IInv'
<1>. USE DEF TypeOK, States, Labels, InLock, InUnlock, locals
<1>1. QueueOK'
  BY DEF IInv, QueueOK, UnlockReread, Goto, Remember
<1>2. HolderOK'
  BY DEF IInv, HolderOK, OneWakeup, ModeOK, Carries, LocalsOK, Contended, UnlockReread, Goto, Remember
<1>3. LocalsOK'
  BY DEF IInv, LocalsOK, Inconsistent, UnlockReread, Goto, Remember
<1>4. OneWakeup'
  BY DEF IInv, QueueOK, OneWakeup, ModeOK, Carries, LocalsOK, Inconsistent, UnlockReread, Goto, Remember
<1>5. ModeOK'
  BY DEF IInv, QueueOK, ModeOK, OneWakeup, HolderOK, LocalsOK, Carries, Contended, UnlockReread, Goto, Remember
<1>. QED
  BY <1>1, <1>2, <1>3, <1>4, <1>5 DEF IInv

\* An unlocker releases the semaphore (line 192).
LEMMA UnlockReleaseKeeps ==
  ASSUME TypeOK, IInv, NEW g \in Goroutines, UnlockRelease(g)
  PROVE  IInv'
<1>. USE DEF TypeOK, States, Labels, InLock, InUnlock, locals
<1>r. /\ sema' = sema + 1
      /\ pc'[g] = "idle"
      /\ \A h \in Goroutines \ {g} : pc'[h] = pc[h] \/ (pc[h] = "queued" /\ pc'[h] = "sem")
  <2>1. CASE queue = <<>>
    BY <2>1 DEF UnlockRelease, SemRelease, Goto
  <2>2. CASE queue # <<>>
    <3>1. SemRelease(g, FALSE) /\ QueueOK /\ pc[g] = "urelease"
      BY DEF UnlockRelease, IInv
    <3>. QED
      BY <2>2, <3>1, ReleaseMoves
  <2>. QED
    BY <2>1, <2>2
<1>s. /\ Carries(g) /\ UNCHANGED <<state, awoke>>
      /\ \A h \in Goroutines : Carries(h)' <=> h # g /\ Carries(h)
  BY <1>r DEF Carries, UnlockRelease
<1>1. QueueOK'
  BY ReleaseKeepsQueue DEF IInv, UnlockRelease
<1>2. HolderOK'
  <2>1. \A h \in Goroutines : pc'[h] = "cs" <=> pc[h] = "cs"
    BY <1>r DEF UnlockRelease
  <2>. QED
    BY <2>1, HolderFrame DEF IInv, UnlockRelease
<1>3. LocalsOK'
  BY <1>r DEF IInv, LocalsOK, Inconsistent, UnlockRelease
<1>4. OneWakeup'
  BY <1>r, <1>s DEF IInv, OneWakeup, ModeOK, UnlockRelease
<1>5. ModeOK'
  BY <1>r, <1>s DEF IInv, OneWakeup, ModeOK, UnlockRelease
<1>. QED
  BY <1>1, <1>2, <1>3, <1>4, <1>5 DEF IInv

\* An unlocker hands the lock over (line 198).
LEMMA UnlockHandoffKeeps ==
  ASSUME TypeOK, IInv, NEW g \in Goroutines, UnlockHandoff(g)
  PROVE  IInv'
<1>. USE DEF TypeOK, States, Labels, InLock, InUnlock, locals
<1>r. /\ pc[g] = "ustarve" /\ pc'[g] = "idle" /\ UNCHANGED <<state, awoke>>
      /\ \/ /\ sema' = sema + 1
            /\ \A h \in Goroutines \ {g} : pc'[h] = pc[h]
         \/ /\ sema' = sema
            /\ \E h \in Goroutines \ {g} :
                 /\ pc[h] = "queued" /\ pc'[h] = "woke"
                 /\ \A k \in Goroutines \ {g, h} : pc'[k] = pc[k]
  <2>1. SemRelease(g, TRUE) /\ QueueOK /\ pc[g] = "ustarve" /\ UNCHANGED <<state, awoke>>
    BY DEF UnlockHandoff, IInv
  <2>2. CASE queue = <<>>
    BY <2>1, <2>2 DEF SemRelease, Goto
  <2>3. CASE queue # <<>>
    <3>1. /\ sema' = sema
          /\ \E h \in Goroutines :
               /\ h # g /\ pc[h] = "queued" /\ pc'[g] = "idle" /\ pc'[h] = "woke"
               /\ \A k \in Goroutines \ {g, h} : pc'[k] = pc[k]
      <4>1. TRUE \in BOOLEAN /\ pc[g] # "queued"
        BY <2>1
      <4>. HIDE DEF TypeOK
      <4>. QED
        BY <2>1, <2>3, <4>1, ReleaseMoves
    <3>. QED
      BY <2>1, <3>1
  <2>. QED
    BY <2>1, <2>2, <2>3
<1>s. /\ Carries(g) /\ ~Carries(g)'
      /\ \/ /\ sema' = sema + 1
            /\ \A h \in Goroutines \ {g} : Carries(h)' <=> Carries(h)
         \/ /\ sema' = sema
            /\ \E h \in Goroutines \ {g} :
                 /\ Carries(h)' /\ pc'[h] = "woke"
                 /\ \A k \in Goroutines \ {g, h} : Carries(k)' <=> Carries(k)
  BY <1>r DEF Carries
<1>1. QueueOK'
  BY ReleaseKeepsQueue DEF IInv, UnlockHandoff
<1>2. HolderOK'
  <2>1. \A h \in Goroutines : pc'[h] = "cs" <=> pc[h] = "cs"
    BY <1>r DEF UnlockHandoff
  <2>. QED
    BY <2>1, HolderFrame DEF IInv, UnlockHandoff
<1>3. LocalsOK'
  BY <1>r DEF IInv, LocalsOK, Inconsistent, UnlockHandoff
<1>4. OneWakeup'
  <2>1. state.starving /\ ~state.locked /\ ~state.woken /\ sema = 0
        /\ \A h \in Goroutines \ {g} : ~Carries(h)
    BY <1>r, <1>s DEF IInv, ModeOK, OneWakeup
  <2>2. CASE sema' = sema + 1 /\ \A h \in Goroutines \ {g} : Carries(h)' <=> Carries(h)
    <3>1. \A h \in Goroutines : ~Carries(h)'
      BY <1>s, <2>1, <2>2
    <3>. sema' = 1
      BY <2>1, <2>2
    <3>2. \A h \in Goroutines : pc'[h] \notin {"ustarve", "handoff"} \/ h = g
      BY <3>1 DEF Carries
    <3>. QED
      BY <1>r, <2>1, <3>1, <3>2 DEF OneWakeup
  <2>3. CASE /\ sema' = sema
             /\ \E h \in Goroutines \ {g} :
                  /\ Carries(h)' /\ pc'[h] = "woke"
                  /\ \A k \in Goroutines \ {g, h} : Carries(k)' <=> Carries(k)
    <3>1. PICK h \in Goroutines \ {g} :
            /\ Carries(h)' /\ pc'[h] = "woke"
            /\ \A k \in Goroutines \ {g, h} : Carries(k)' <=> Carries(k)
      BY <2>3
    <3>2. \A k \in Goroutines : Carries(k)' <=> k = h
      BY <1>s, <2>1, <3>1
    <3>. QED
      BY <1>r, <2>1, <2>3, <3>1, <3>2 DEF OneWakeup
  <2>. QED
    BY <1>s, <2>2, <2>3
<1>5. ModeOK'
  <2>1. state.starving /\ ~state.locked /\ ~state.woken /\ sema = 0
        /\ \A h \in Goroutines \ {g} : ~Carries(h)
    BY <1>r, <1>s DEF IInv, ModeOK, OneWakeup
  <2>2. CASE sema' = sema + 1 /\ \A h \in Goroutines \ {g} : Carries(h)' <=> Carries(h)
    <3>1. \A h \in Goroutines : ~Carries(h)'
      BY <1>s, <2>1, <2>2
    <3>. sema' = 1
      BY <2>1, <2>2
    <3>2. \A h \in Goroutines : pc'[h] \notin {"ustarve", "handoff"} \/ h = g
      BY <3>1 DEF Carries
    <3>. QED
      BY <1>r, <2>1, <3>1, <3>2 DEF ModeOK
  <2>3. CASE /\ sema' = sema
             /\ \E h \in Goroutines \ {g} :
                  /\ Carries(h)' /\ pc'[h] = "woke"
                  /\ \A k \in Goroutines \ {g, h} : Carries(k)' <=> Carries(k)
    <3>1. PICK h \in Goroutines \ {g} :
            /\ Carries(h)' /\ pc'[h] = "woke"
            /\ \A k \in Goroutines \ {g, h} : Carries(k)' <=> Carries(k)
      BY <2>3
    <3>2. \A k \in Goroutines : Carries(k)' <=> k = h
      BY <1>s, <2>1, <3>1
    <3>. QED
      BY <1>r, <2>1, <2>3, <3>1, <3>2 DEF ModeOK
  <2>. QED
    BY <1>s, <2>2, <2>3
<1>. QED
  BY <1>1, <1>2, <1>3, <1>4, <1>5 DEF IInv

-----------------------------------------------------------------------------
(* The theorems. *)

\* Every step of Next keeps the inductive invariant.
LEMMA StepKeeps == TypeOK /\ IInv /\ [Next]_vars => IInv'
<1> SUFFICES ASSUME TypeOK, IInv, [Next]_vars PROVE IInv'
  OBVIOUS
<1>1. CASE UNCHANGED vars
  <2>1. \A g \in Goroutines : Carries(g)' <=> Carries(g)
    BY <1>1 DEF Carries, vars, locals
  <2>. QED
    BY <1>1, <2>1 DEF vars, locals, IInv, QueueOK, HolderOK, LocalsOK, Inconsistent,
         Contended, OneWakeup, ModeOK
<1>2. CASE Next
  <2>. PICK g \in Goroutines : Call(g) \/ Step(g)
    BY <1>2 DEF Next
  <2>1. CASE Call(g)
    BY <2>1, LockFastKeeps, LockContendedKeeps, TryLockReadKeeps DEF Call
  <2>2. CASE Step(g)
    BY <2>2, ReadStateKeeps, SpinKeeps, LockCASKeeps, ParkKeeps, WakeKeeps, HandoffKeeps,
       TryLockCASKeeps, UnlockKeeps, UnlockReturnKeeps, UnlockCASKeeps,
       UnlockRereadKeeps, UnlockReleaseKeeps, UnlockHandoffKeeps DEF Step
  <2>. QED
    BY <2>1, <2>2
<1>. QED
  BY <1>1, <1>2

\* Every variable of the mutex keeps its type (mutex.go).
THEOREM TypeCorrect == SafeSpec => []TypeOK
<1>1. Init => TypeOK
  BY DefaultsType, EmptySeq DEF Init, TypeOK, Labels
<1>. QED
  BY <1>1, TypeStep, PTL DEF SafeSpec

\* The inductive invariant.
THEOREM Invariance == SafeSpec => []IInv
<1>1. Init => IInv
  BY EmptySeq DEF Init, Unlocked, IInv, QueueOK, HolderOK, LocalsOK, OneWakeup, ModeOK, Carries, InLock
<1>. QED
  BY <1>1, StepKeeps, TypeCorrect, PTL DEF SafeSpec

\* Lock and TryLock let one goroutine at a time in, for any number of goroutines.
THEOREM MutualExclusionHolds == SafeSpec => []MutualExclusion
<1>1. IInv => MutualExclusion
  BY DEF IInv, HolderOK, MutualExclusion
<1>. QED
  BY <1>1, Invariance, PTL

\* At most one wake-up is under way, and mutexWoken tells (lines 78, 111, 188).
THEOREM OneWakeupHolds == SafeSpec => []OneWakeup
<1>1. IInv => OneWakeup
  BY DEF IInv
<1>. QED
  BY <1>1, Invariance, PTL

\* In starving mode a free lock is only taken by whom it was handed to.
THEOREM NoBargingHolds == SafeSpec => NoBarging
<1> DEFINE Taken == \E g \in Goroutines : pc[g] = "handoff" /\ pc'[g] = "cs"
<1>1. TypeOK /\ IInv /\ [Next]_vars =>
        [state.starving /\ ~state.locked /\ state'.locked => Taken]_vars
  <2> SUFFICES ASSUME TypeOK, IInv, Next, state.starving, ~state.locked, state'.locked
               PROVE  Taken
    BY DEF vars, locals
  <2>. PICK g \in Goroutines : Call(g) \/ Step(g)
    BY DEF Next
  <2>1. CASE Handoff(g)
    BY <2>1 DEF Handoff, Goto, TypeOK
  <2>2. CASE ~Handoff(g)
    <3>1. CASE LockFast(g)
      BY <3>1 DEF LockFast, Unlocked
    <3>2. CASE Spin(g)
      BY <3>2 DEF Spin, Claim, TypeOK, States
    <3>3. CASE LockCAS(g)
      <4>1. state' = state \/ state' = NewState(state, starving[g], awoke[g])
        BY <3>3 DEF LockCAS
      <4>. QED
        BY <4>1, NewStateFields
    <3>4. CASE TryLockCAS(g)
      BY <3>4 DEF TryLockCAS, IInv, LocalsOK, Contended
    <3>5. CASE Unlock(g)
      BY <3>5 DEF Unlock
    <3>6. CASE UnlockCAS(g)
      BY <3>6 DEF UnlockCAS, WakeOne
    <3>7. CASE UNCHANGED state
      BY <3>7
    <3>. QED
      BY <2>2, <3>1, <3>2, <3>3, <3>4, <3>5, <3>6, <3>7 DEF Call, Step, LockContended,
         TryLockRead, ReadState, Park, Wake, UnlockReturn, UnlockReread, UnlockRelease,
         UnlockHandoff
  <2>. QED
    BY <2>1, <2>2
<1>. QED
  BY <1>1, TypeCorrect, Invariance, PTL DEF SafeSpec, NoBarging
-----------------------------------------------------------------------------
(* The waiters of the word.  In normal mode the unlocker takes a waiter off *)
(* before it releases it, in starving mode the waiter does when it has the  *)
(* lock; the two counts agree at the changes of mode because the one        *)
(* wake-up is then with the goroutine that changes it.                      *)

Asleep == Count(Goroutines, pc, {"sem", "queued"})
Owed == Count(Goroutines, pc, {"sem", "queued", "woke", "handoff"})
Releasing == Count(Goroutines, pc, {"urelease"})

CountOK == state.waiters = IF state.starving THEN Owed ELSE Asleep - Releasing - sema

\* CountOK is WaitersCounted with its three numbers named.
LEMMA CountOKMeans == WaitersCounted <=> CountOK
  BY DEF WaitersCounted, CountOK, Asleep, Owed, Releasing, Count

\* What a step of g does to the three numbers, if nobody else changes sides.
LEMMA Moved ==
  ASSUME TypeOK, NEW g \in Goroutines,
         \A h \in Goroutines \ {g} :
           /\ pc'[h] \in {"sem", "queued"} <=> pc[h] \in {"sem", "queued"}
           /\ pc'[h] \in {"woke", "handoff"} <=> pc[h] \in {"woke", "handoff"}
           /\ pc'[h] = "urelease" <=> pc[h] = "urelease"
  PROVE  /\ Asleep \in Nat /\ Owed \in Nat /\ Releasing \in Nat
         /\ Asleep' = Asleep - (IF pc[g] \in {"sem", "queued"} THEN 1 ELSE 0)
                             + (IF pc'[g] \in {"sem", "queued"} THEN 1 ELSE 0)
         /\ Owed' = Owed - (IF pc[g] \in {"sem", "queued", "woke", "handoff"} THEN 1 ELSE 0)
                         + (IF pc'[g] \in {"sem", "queued", "woke", "handoff"} THEN 1 ELSE 0)
         /\ Releasing' = Releasing - (IF pc[g] = "urelease" THEN 1 ELSE 0)
                                   + (IF pc'[g] = "urelease" THEN 1 ELSE 0)
<1>1. Asleep \in Nat /\ Owed \in Nat /\ Releasing \in Nat
  BY CountType, FiniteAssumption DEF Asleep, Owed, Releasing
<1>2. Asleep' = Asleep - (IF pc[g] \in {"sem", "queued"} THEN 1 ELSE 0)
                       + (IF pc'[g] \in {"sem", "queued"} THEN 1 ELSE 0)
  BY CountMoves, FiniteAssumption DEF Asleep
<1>3. Owed' = Owed - (IF pc[g] \in {"sem", "queued", "woke", "handoff"} THEN 1 ELSE 0)
                   + (IF pc'[g] \in {"sem", "queued", "woke", "handoff"} THEN 1 ELSE 0)
  <2>1. \A h \in Goroutines \ {g} : pc'[h] \in {"sem", "queued", "woke", "handoff"}
                                 <=> pc[h] \in {"sem", "queued", "woke", "handoff"}
    OBVIOUS
  <2>. QED
    BY <2>1, CountMoves, FiniteAssumption DEF Owed
<1>4. Releasing' = Releasing - (IF pc[g] \in {"urelease"} THEN 1 ELSE 0)
                             + (IF pc'[g] \in {"urelease"} THEN 1 ELSE 0)
  <2>1. \A h \in Goroutines \ {g} : pc'[h] \in {"urelease"} <=> pc[h] \in {"urelease"}
    OBVIOUS
  <2>. QED
    BY <2>1, CountMoves, FiniteAssumption DEF Releasing
<1>. QED
  BY <1>1, <1>2, <1>3, <1>4

\* Numbers and permits stay when nobody changes sides.
LEMMA CountFrame ==
  ASSUME TypeOK, CountOK, UNCHANGED sema,
         state'.waiters = state.waiters, state'.starving = state.starving,
         \A h \in Goroutines :
           /\ pc'[h] \in {"sem", "queued"} <=> pc[h] \in {"sem", "queued"}
           /\ pc'[h] \in {"woke", "handoff"} <=> pc[h] \in {"woke", "handoff"}
           /\ pc'[h] = "urelease" <=> pc[h] = "urelease"
  PROVE  CountOK'
<1>1. Asleep' = Asleep
  BY CountSame DEF Asleep
<1>2. Owed' = Owed
  <2>1. \A h \in Goroutines : pc'[h] \in {"sem", "queued", "woke", "handoff"}
                           <=> pc[h] \in {"sem", "queued", "woke", "handoff"}
    OBVIOUS
  <2>. QED
    BY <2>1, CountSame DEF Owed
<1>3. Releasing' = Releasing
  <2>1. \A h \in Goroutines : pc'[h] \in {"urelease"} <=> pc[h] \in {"urelease"}
    OBVIOUS
  <2>. QED
    BY <2>1, CountSame DEF Releasing
<1>. QED
  BY <1>1, <1>2, <1>3 DEF CountOK

\* While only g carries a wake-up, everybody else who is counted is asleep: the
\* two ways of counting agree but for g.
LEMMA LoneCarrier ==
  ASSUME OneWakeup, NEW g \in Goroutines, Carries(g)
  PROVE  /\ sema = 0
         /\ \A h \in Goroutines \ {g} : pc[h] \notin {"urelease", "woke", "handoff"}
         /\ pc[g] = "loop" => Owed = Asleep /\ Releasing = 0
         /\ pc[g] = "handoff" => Owed = Asleep + 1 /\ Releasing = 0
<1>1. sema = 0 /\ \A h \in Goroutines \ {g} : ~Carries(h)
  BY DEF OneWakeup
<1>2. \A h \in Goroutines \ {g} : pc[h] \notin {"urelease", "woke", "handoff"}
  BY <1>1 DEF Carries
<1>3. pc[g] \in {"loop", "handoff"} => Releasing = 0
  BY <1>2, CountType, FiniteAssumption DEF Releasing
<1>4. Owed = Asleep + Count(Goroutines, pc, {"woke", "handoff"})
  <2>1. {"sem", "queued", "woke", "handoff"} = {"sem", "queued"} \cup {"woke", "handoff"}
    OBVIOUS
  <2>2. {"sem", "queued"} \cap {"woke", "handoff"} = {}
    OBVIOUS
  <2>. QED
    BY <2>1, <2>2, CountSplit, FiniteAssumption DEF Owed, Asleep
<1>5. Asleep \in Nat
  BY CountType, FiniteAssumption DEF Asleep
<1>6. pc[g] = "loop" => Count(Goroutines, pc, {"woke", "handoff"}) = 0
  BY <1>2, CountType, FiniteAssumption
<1>7. pc[g] = "handoff" => Count(Goroutines, pc, {"woke", "handoff"}) = 1
  <2>1. ASSUME pc[g] = "handoff"
        PROVE  Count(Goroutines, pc, {"woke", "handoff"}) = 1
    <3>1. {h \in Goroutines : pc[h] \in {"woke", "handoff"}} = {g}
      BY <1>2, <2>1
    <3>. QED
      BY <3>1, FS_Singleton DEF Count
  <2>. QED
    BY <2>1
<1>. QED
  BY <1>1, <1>2, <1>3, <1>4, <1>5, <1>6, <1>7

\* Going to sleep: the CAS that counts the goroutine in, perhaps with the switch
\* to starving mode (lines 96-121).
LEMMA LockCASCounts ==
  ASSUME TypeOK, IInv, CountOK, NEW g \in Goroutines, LockCAS(g)
  PROVE  CountOK'
<1>1. pc[g] = "loop" /\ UNCHANGED sema /\ state \in States /\ old[g] = old[g]
  BY DEF LockCAS, TypeOK
<1>2. \A h \in Goroutines \ {g} : pc'[h] = pc[h]
  BY DEF LockCAS, Goto, TypeOK
<1>3. CASE pc'[g] # "sem"
  <2>1. pc'[g] \in {"read", "cs"}
    BY <1>1, <1>3 DEF LockCAS, Goto, TypeOK
  <2>2. state'.waiters = state.waiters /\ state'.starving = state.starving
    <3>1. CASE state' = state
      BY <3>1
    <3>2. CASE state' # state
      <4>1. state' = NewState(state, starving[g], awoke[g]) /\ ~Contended(state)
        BY <1>1, <1>3, <3>2 DEF LockCAS, Goto, TypeOK
      <4>. QED
        BY <4>1 DEF NewState, Contended, TypeOK, States
    <3>. QED
      BY <3>1, <3>2
  <2>. QED
    BY <1>1, <1>2, <2>1, <2>2, CountFrame
<1>4. CASE pc'[g] = "sem"
  <2>1. state' = NewState(state, starving[g], awoke[g]) /\ Contended(state)
    BY <1>1, <1>4 DEF LockCAS, Goto, TypeOK
  <2>2. /\ state'.waiters = state.waiters + 1
        /\ state'.starving = (state.starving \/ (starving[g] /\ state.locked))
    BY <2>1 DEF NewState
  <2>3. /\ Asleep \in Nat /\ Owed \in Nat /\ Releasing \in Nat
        /\ Asleep' = Asleep + 1 /\ Owed' = Owed + 1 /\ Releasing' = Releasing
    BY <1>1, <1>2, <1>4, Moved
  <2>4. starving[g] => sema = 0 /\ Owed = Asleep /\ Releasing = 0
    <3>1. starving[g] => Carries(g)
      BY <1>1 DEF IInv, LocalsOK, Carries
    <3>. QED
      BY <1>1, <3>1, LoneCarrier DEF IInv
  <2>. QED
    BY <1>1, <2>2, <2>3, <2>4 DEF CountOK, TypeOK, States
<1>. QED
  BY <1>3, <1>4

\* Parking takes the permit of a release or joins the queue (line 128).
LEMMA ParkCounts ==
  ASSUME TypeOK, IInv, CountOK, NEW g \in Goroutines, Park(g)
  PROVE  CountOK'
<1>1. /\ pc[g] = "sem" /\ state' = state
      /\ \/ pc'[g] = "woke" /\ sema' = sema - 1
         \/ pc'[g] = "queued" /\ sema' = sema
      /\ \A h \in Goroutines \ {g} : pc'[h] = pc[h]
  BY DEF Park, SemAcquire, Goto, TypeOK
<1>2. /\ Asleep \in Nat /\ Owed \in Nat /\ Releasing \in Nat
      /\ Asleep' = Asleep - 1 + (IF pc'[g] = "queued" THEN 1 ELSE 0)
      /\ Owed' = Owed /\ Releasing' = Releasing
  BY <1>1, Moved
<1>. QED
  BY <1>1, <1>2 DEF CountOK, TypeOK, States

\* The taker of a handed lock takes itself off, perhaps with the switch back to
\* normal mode (lines 142-148).
LEMMA HandoffCounts ==
  ASSUME TypeOK, IInv, CountOK, NEW g \in Goroutines, Handoff(g)
  PROVE  CountOK'
<1>1. /\ pc[g] = "handoff" /\ pc'[g] = "cs" /\ sema' = sema
      /\ state'.waiters = state.waiters - 1
      /\ \A h \in Goroutines \ {g} : pc'[h] = pc[h]
  BY DEF Handoff, Goto, TypeOK
<1>2. Carries(g) /\ state.starving
  BY <1>1 DEF Carries, IInv, ModeOK
<1>3. sema = 0 /\ Owed = Asleep + 1 /\ Releasing = 0
  BY <1>1, <1>2, LoneCarrier DEF IInv
<1>4. /\ Asleep \in Nat /\ Owed' = Owed - 1
      /\ Asleep' = Asleep /\ Releasing' = Releasing
  BY <1>1, <1>3, Moved
<1>. QED
  BY <1>1, <1>2, <1>3, <1>4 DEF CountOK

\* The unlocker takes its waiter off before it wakes it (line 189).
LEMMA UnlockCASCounts ==
  ASSUME TypeOK, IInv, CountOK, NEW g \in Goroutines, UnlockCAS(g)
  PROVE  CountOK'
<1>1. /\ pc[g] = "uloop" /\ sema' = sema
      /\ \A h \in Goroutines \ {g} : pc'[h] = pc[h]
  BY DEF UnlockCAS, Goto, TypeOK
<1>2. CASE pc'[g] = "urelease"
  <2>1. state' = WakeOne(state) /\ ~state.starving
    BY <1>1, <1>2 DEF UnlockCAS, Goto, TypeOK, NoWakeNeeded
  <2>2. state'.waiters = state.waiters - 1 /\ ~state'.starving
    BY <2>1 DEF WakeOne
  <2>3. /\ Asleep \in Nat /\ Releasing \in Nat
        /\ Asleep' = Asleep /\ Releasing' = Releasing + 1
    BY <1>1, <1>2, Moved
  <2>. QED
    BY <1>1, <2>1, <2>2, <2>3 DEF CountOK, TypeOK
<1>3. CASE pc'[g] # "urelease"
  <2>1. pc'[g] = "uread" /\ state' = state
    BY <1>1, <1>3 DEF UnlockCAS, Goto, TypeOK
  <2>. QED
    BY <1>1, <2>1, CountFrame
<1>. QED
  BY <1>2, <1>3

\* A release turns the releaser's promise into a permit, or puts the head of the
\* queue back on its way to the semaphore (line 192).
LEMMA UnlockReleaseCounts ==
  ASSUME TypeOK, IInv, CountOK, NEW g \in Goroutines, UnlockRelease(g)
  PROVE  CountOK'
<1>1. pc[g] = "urelease" /\ SemRelease(g, FALSE) /\ state' = state
  BY DEF UnlockRelease
<1>2. ~state.starving
  BY <1>1 DEF IInv, ModeOK, Carries
<1>3. CASE queue = <<>>
  <2>1. /\ sema' = sema + 1 /\ pc'[g] = "idle"
        /\ \A h \in Goroutines \ {g} : pc'[h] = pc[h]
    BY <1>1, <1>3 DEF SemRelease, Goto, TypeOK
  <2>2. /\ Asleep \in Nat /\ Releasing \in Nat
        /\ Asleep' = Asleep /\ Releasing' = Releasing - 1
    BY <1>1, <2>1, Moved
  <2>. QED
    BY <1>1, <1>2, <2>1, <2>2 DEF CountOK, TypeOK
<1>4. CASE queue # <<>>
  <2>1. PICK h \in Goroutines :
          /\ h # g /\ pc[h] = "queued" /\ pc'[g] = "idle" /\ pc'[h] = "sem"
          /\ \A k \in Goroutines \ {g, h} : pc'[k] = pc[k]
    BY <1>1, <1>4, ReleaseMoves DEF IInv
  <2>2. sema' = sema + 1
    BY <1>1, <1>4 DEF SemRelease
  <2>3. /\ Asleep \in Nat /\ Releasing \in Nat
        /\ Asleep' = Asleep /\ Releasing' = Releasing - 1
    BY <1>1, <2>1, Moved
  <2>. QED
    BY <1>1, <1>2, <2>2, <2>3 DEF CountOK, TypeOK
<1>. QED
  BY <1>3, <1>4

\* A handoff of the semaphore leaves everybody counted (line 207).
LEMMA UnlockHandoffCounts ==
  ASSUME TypeOK, IInv, CountOK, NEW g \in Goroutines, UnlockHandoff(g)
  PROVE  CountOK'
<1>1. pc[g] = "ustarve" /\ SemRelease(g, TRUE) /\ state' = state
  BY DEF UnlockHandoff
<1>2. state.starving
  BY <1>1 DEF IInv, ModeOK
<1>3. \A k \in Goroutines : pc'[k] \in {"sem", "queued", "woke", "handoff"}
                         <=> pc[k] \in {"sem", "queued", "woke", "handoff"}
  <2>1. CASE queue = <<>>
    BY <1>1, <2>1 DEF SemRelease, Goto, TypeOK
  <2>2. CASE queue # <<>>
    <3>1. PICK h \in Goroutines :
            /\ h # g /\ pc[h] = "queued" /\ pc'[g] = "idle" /\ pc'[h] = "woke"
            /\ \A k \in Goroutines \ {g, h} : pc'[k] = pc[k]
      BY <1>1, <2>2, ReleaseMoves DEF IInv
    <3>. QED
      BY <1>1, <3>1
  <2>. QED
    BY <2>1, <2>2
<1>4. Owed' = Owed
  BY <1>3, CountSame DEF Owed
<1>. QED
  BY <1>1, <1>2, <1>4 DEF CountOK

\* Every step keeps the two counts.
LEMMA CountKeeps == TypeOK /\ IInv /\ CountOK /\ [Next]_vars => CountOK'
<1> SUFFICES ASSUME TypeOK, IInv, CountOK, [Next]_vars PROVE CountOK'
  OBVIOUS
<1>1. CASE UNCHANGED vars
  BY <1>1, CountFrame DEF vars
<1>2. CASE Next
  <2>. PICK g \in Goroutines : Call(g) \/ Step(g)
    BY <1>2 DEF Next
  <2>1. CASE LockCAS(g) \/ Park(g) \/ Handoff(g) \/ UnlockCAS(g)
             \/ UnlockRelease(g) \/ UnlockHandoff(g)
    BY <2>1, LockCASCounts, ParkCounts, HandoffCounts, UnlockCASCounts,
       UnlockReleaseCounts, UnlockHandoffCounts
  <2>2. CASE LockFast(g) \/ LockContended(g) \/ TryLockRead(g) \/ ReadState(g)
    BY <2>2, CountFrame DEF LockFast, LockContended, TryLockRead, ReadState, Goto, TypeOK, States
  <2>3. CASE Spin(g)
    BY <2>3, CountFrame DEF Spin, Claim, Goto, TypeOK, States
  <2>4. ASSUME NEW late \in BOOLEAN, Wake(g, late) PROVE CountOK'
    <3>1. CASE state.starving
      <4>1. \A h \in Goroutines :
              /\ pc'[h] \in {"sem", "queued"} <=> pc[h] \in {"sem", "queued"}
              /\ pc'[h] \in {"woke", "handoff"} <=> pc[h] \in {"woke", "handoff"}
              /\ pc'[h] = "urelease" <=> pc[h] = "urelease"
        BY <2>4, <3>1 DEF Wake, Goto, TypeOK
      <4>. QED
        BY <2>4, <4>1, CountFrame DEF Wake
    <3>2. CASE ~state.starving
      <4>1. /\ pc[g] = "woke" /\ pc'[g] = "loop" /\ state' = state /\ sema' = sema
            /\ \A h \in Goroutines \ {g} : pc'[h] = pc[h]
        BY <2>4, <3>2 DEF Wake, Goto, TypeOK
      <4>2. Asleep \in Nat /\ Releasing \in Nat /\ Asleep' = Asleep /\ Releasing' = Releasing
        BY <4>1, Moved
      <4>. QED
        BY <3>2, <4>1, <4>2 DEF CountOK
    <3>. QED
      BY <3>1, <3>2
  <2>5. CASE TryLockCAS(g)
    BY <2>5, CountFrame DEF TryLockCAS, Goto, TypeOK, States
  <2>6. CASE Unlock(g)
    BY <2>6, CountFrame DEF Unlock, Goto, TypeOK, States
  <2>7. CASE UnlockReturn(g) \/ UnlockReread(g)
    BY <2>7, CountFrame DEF UnlockReturn, UnlockReread, Goto, TypeOK
  <2>. QED
    BY <2>1, <2>2, <2>3, <2>4, <2>5, <2>6, <2>7 DEF Call, Step
<1>. QED
  BY <1>1, <1>2

\* The throws of lines 112, 139 and 180 never fire: whoever is woken in starving
\* mode carries the one wake-up, so the lock is free, and is still counted.
LEMMA CountsForbidThrows == TypeOK /\ IInv /\ CountOK => NoThrow
<1> SUFFICES ASSUME TypeOK, IInv, CountOK, NEW g \in Goroutines
             PROVE  /\ pc[g] = "loop" => ~Inconsistent(g)
                    /\ pc[g] = "woke" /\ state.starving => HandoffOK(state)
                    /\ pc[g] = "handoff" => state.starving /\ HandoffOK(state)
                    /\ pc[g] = "cs" => state.locked
  BY DEF NoThrow
<1>1. pc[g] = "loop" => ~Inconsistent(g)
  BY DEF IInv, LocalsOK
<1>2. pc[g] = "cs" => state.locked
  BY DEF IInv, HolderOK
<1>3. pc[g] = "handoff" => state.starving
  BY DEF IInv, ModeOK
<1>4. ASSUME pc[g] \in {"woke", "handoff"}, state.starving
      PROVE  HandoffOK(state)
  <2>1. ~state.locked /\ ~state.woken
    BY <1>4 DEF IInv, ModeOK, Carries
  <2>2. Owed # 0
    BY <1>4, CountType, FiniteAssumption DEF Owed
  <2>. QED
    BY <1>4, <2>1, <2>2 DEF CountOK, HandoffOK
<1>. QED
  BY <1>1, <1>2, <1>3, <1>4

\* The flags and the count of the word agree with what the goroutines do.
THEOREM WordConsistentHolds == SafeSpec => []WordConsistent
<1>1. Init => CountOK
  <2>1. ASSUME Init PROVE Asleep = 0 /\ Releasing = 0
    BY <2>1, CountType, FiniteAssumption DEF Init, Asleep, Releasing
  <2>. QED
    BY <2>1 DEF Init, CountOK, Unlocked
<1>2. TypeOK /\ IInv /\ CountOK => WordConsistent
  BY CountsForbidThrows, CountOKMeans DEF WordConsistent
<1>. QED
  BY <1>1, <1>2, CountKeeps, TypeCorrect, Invariance, PTL DEF SafeSpec

-----------------------------------------------------------------------------
(* No wake-up is lost. *)

\* The unlocker that saw the word as it is now stays in front of its CAS while
\* nobody else changes the word and nobody carries a wake-up.
LEMMA UnlockerStays ==
  ASSUME TypeOK, Next, UNCHANGED state, NEW h \in Goroutines,
         pc[h] = "uloop", old[h] = state, ~NoWakeNeeded(state),
         \A k \in Goroutines : ~Carries(k)
  PROVE  pc'[h] = "uloop" /\ old'[h] = state'
<1>. PICK g \in Goroutines : Call(g) \/ Step(g)
  BY DEF Next
<1>1. ~UnlockRelease(g) /\ ~UnlockHandoff(g) /\ ~Handoff(g)
      /\ \A late \in BOOLEAN : ~Wake(g, late)
  BY DEF UnlockRelease, UnlockHandoff, Handoff, Wake, Carries
<1>2. g = h => FALSE
  <2>1. ~UnlockCAS(h)
    BY DEF UnlockCAS, WakeOne, NoWakeNeeded, TypeOK, States
  <2>. QED
    BY <1>1, <2>1 DEF Call, Step, LockFast, LockContended, TryLockRead, ReadState, Spin,
       LockCAS, Park, TryLockCAS, Unlock, UnlockReturn, UnlockReread
<1>3. CASE LockFast(g) \/ LockContended(g) \/ TryLockRead(g) \/ ReadState(g) \/ Park(g)
  BY <1>2, <1>3 DEF LockFast, LockContended, TryLockRead, ReadState, Park, SemAcquire,
     Goto, Remember, locals, TypeOK
<1>4. CASE Spin(g) \/ TryLockCAS(g) \/ Unlock(g)
  BY <1>2, <1>4 DEF Spin, TryLockCAS, Unlock, Goto, Remember, TypeOK
<1>5. CASE LockCAS(g)
  BY <1>2, <1>5 DEF LockCAS, Forget, Goto, Remember, TypeOK
<1>6. CASE UnlockReturn(g) \/ UnlockCAS(g) \/ UnlockReread(g)
  BY <1>2, <1>6 DEF UnlockReturn, UnlockCAS, UnlockReread, Goto, Remember, TypeOK
<1>. QED
  BY <1>1, <1>3, <1>4, <1>5, <1>6 DEF Call, Step

\* A step that leaves the mutex unlocked in normal mode leaves the word alone,
\* raises mutexWoken, or is the Unlock that saw the word it left.
LEMMA FreeingSteps ==
  ASSUME TypeOK, IInv, Next, ~state'.starving, ~state'.locked, ~state'.woken,
         state'.waiters > 0
  PROVE  \/ UNCHANGED state
         \/ \E g \in Goroutines : pc'[g] = "uloop" /\ old'[g] = state'
<1>. PICK g \in Goroutines : Call(g) \/ Step(g)
  BY DEF Next
<1>1. CASE LockFast(g)
  BY <1>1 DEF LockFast, TypeOK, States
<1>2. CASE Spin(g)
  BY <1>2 DEF Spin, Claim, TypeOK, States
<1>3. CASE LockCAS(g)
  <2>1. state' = state \/ state' = NewState(state, starving[g], awoke[g])
    BY <1>3 DEF LockCAS
  <2>. QED
    BY <2>1, NewStateFields DEF TypeOK, States
<1>4. CASE Handoff(g)
  BY <1>4 DEF Handoff
<1>5. CASE TryLockCAS(g)
  BY <1>5 DEF TryLockCAS, TypeOK, States
<1>6. CASE Unlock(g)
  <2>1. state' # Unlocked
    BY DEF Unlocked
  <2>. QED
    BY <1>6, <2>1 DEF Unlock, Goto, Remember, TypeOK
<1>7. CASE UnlockCAS(g)
  BY <1>7 DEF UnlockCAS, WakeOne
<1>8. CASE UNCHANGED state
  BY <1>8
<1>. QED
  BY <1>1, <1>2, <1>3, <1>4, <1>5, <1>6, <1>7, <1>8 DEF Call, Step, LockContended,
     TryLockRead, ReadState, Park, Wake, UnlockReturn, UnlockReread, UnlockRelease,
     UnlockHandoff

\* A free mutex with waiters always has a wake-up under way or about to be issued.
THEOREM NoLostWakeupHolds == SafeSpec => []NoLostWakeup
<1>1. Init => NoLostWakeup
  BY DEF Init, Unlocked, NoLostWakeup
<1>2. TypeOK /\ IInv /\ IInv' /\ NoLostWakeup /\ [Next]_vars => NoLostWakeup'
  <2> SUFFICES ASSUME TypeOK, IInv, IInv', NoLostWakeup, [Next]_vars,
                      ~state'.locked, state'.waiters > 0,
                      sema' # 1, \A g \in Goroutines : ~Carries(g)'
               PROVE  \E g \in Goroutines : pc'[g] = "uloop" /\ old'[g] = state'
    BY DEF NoLostWakeup
  <2>1. ~state'.starving /\ ~state'.woken
    BY DEF IInv, ModeOK, OneWakeup
  <2>2. CASE UNCHANGED vars
    BY <2>2 DEF vars, locals, NoLostWakeup, Carries
  <2>3. CASE Next /\ UNCHANGED state
    <3>1. sema # 1 /\ \A k \in Goroutines : ~Carries(k)
      BY <2>1, <2>3 DEF IInv, OneWakeup
    <3>2. PICK h \in Goroutines : pc[h] = "uloop" /\ old[h] = state
      BY <2>3, <3>1 DEF NoLostWakeup
    <3>3. ~NoWakeNeeded(state)
      BY <2>1, <2>3 DEF NoWakeNeeded, TypeOK, States
    <3>. QED
      BY <2>3, <3>1, <3>2, <3>3, UnlockerStays
  <2>4. CASE Next /\ ~UNCHANGED state
    BY <2>1, <2>4, FreeingSteps
  <2>. QED
    BY <2>2, <2>3, <2>4
<1>. QED
  BY <1>1, <1>2, TypeCorrect, Invariance, PTL DEF SafeSpec

-----------------------------------------------------------------------------
(* The mutex is a lock: each step is a step of AbstractLock or none.       *)

LockPhase == [g \in Goroutines |-> Phase(pc[g])]

\* The phase a label stands for.
LEMMA PhaseOf ==
  /\ Phase("cs") = "holding"
  /\ \A label \in InLock \cup {"try"} : Phase(label) = "waiting"
  /\ \A label \in InUnlock \cup {"idle"} : Phase(label) = "idle"
  /\ \A label : Phase(label) = "holding" => label = "cs"
  BY DEF Phase, InLock, InUnlock

\* A step of g that moves g alone moves its phase alone.
LEMMA PhaseMoves ==
  ASSUME TypeOK, NEW g \in Goroutines, NEW label, Goto(g, label)
  PROVE  LockPhase' = [LockPhase EXCEPT ![g] = Phase(label)] /\ LockPhase[g] = Phase(pc[g])
<1>1. \A h \in Goroutines : pc'[h] = IF h = g THEN label ELSE pc[h]
  BY DEF Goto, TypeOK
<1>2. [h \in Goroutines |-> Phase(pc'[h])] =
        [[h \in Goroutines |-> Phase(pc[h])] EXCEPT ![g] = Phase(label)]
  BY <1>1
<1>. QED
  BY <1>2 DEF LockPhase

\* So it does not, while g stays in a call that has the same phase throughout.
LEMMA PhaseStays ==
  ASSUME TypeOK, NEW g \in Goroutines, NEW label, Goto(g, label), Phase(label) = Phase(pc[g])
  PROVE  LockPhase' = LockPhase
<1>1. \A h \in Goroutines : pc'[h] = IF h = g THEN label ELSE pc[h]
  BY DEF Goto, TypeOK
<1>2. \A h \in Goroutines : Phase(pc'[h]) = Phase(pc[h])
  BY <1>1
<1>. QED
  BY <1>2 DEF LockPhase

\* A release moves a sleeper within its call of Lock: no phase changes.
LEMMA ReleaseIsSilent ==
  ASSUME TypeOK, QueueOK, NEW g \in Goroutines, pc[g] \in InUnlock, NEW handoff \in BOOLEAN,
         SemRelease(g, handoff)
  PROVE  LockPhase' = LockPhase
<1>1. CASE queue = <<>>
  BY <1>1, PhaseStays, PhaseOf DEF SemRelease
<1>2. CASE queue # <<>>
  <2>1. PICK h \in Goroutines :
          /\ h # g /\ pc[h] = "queued" /\ pc'[g] = "idle"
          /\ pc'[h] = IF handoff THEN "woke" ELSE "sem"
          /\ \A k \in Goroutines \ {g, h} : pc'[k] = pc[k]
    BY <1>2, ReleaseMoves DEF InUnlock
  <2>2. \A k \in Goroutines : Phase(pc'[k]) = Phase(pc[k])
    <3>1. Phase(pc'[g]) = Phase(pc[g])
      BY <2>1, PhaseOf
    <3>2. Phase(pc'[h]) = Phase(pc[h])
      BY <2>1, PhaseOf DEF InLock
    <3>. QED
      BY <2>1, <3>1, <3>2
  <2>. QED
    BY <2>2 DEF LockPhase
<1>. QED
  BY <1>1, <1>2

\* What a goroutine does when it comes to hold the lock: nobody else holds it.
LEMMA Taking ==
  ASSUME TypeOK, IInv, ~state.locked, NEW g \in Goroutines, Goto(g, "cs"),
         pc[g] \in InLock \cup {"idle", "try"}
  PROVE  Abstract!Acquire(g)
<1>1. \A h \in Goroutines : LockPhase[h] # "holding"
  BY PhaseOf DEF LockPhase, IInv, HolderOK
<1>2. LockPhase[g] \in {"idle", "waiting"}
  BY PhaseOf DEF LockPhase
<1>3. LockPhase' = [LockPhase EXCEPT ![g] = "holding"]
  BY PhaseMoves, PhaseOf
<1>. QED
  BY <1>1, <1>2, <1>3 DEF LockPhase, Abstract!Acquire, Abstract!Free

\* Every step of the mutex is a request, a refusal, an acquisition or a release
\* of the lock, or leaves it as it is.
LEMMA LockStep ==
  ASSUME TypeOK, IInv, NEW g \in Goroutines, Call(g) \/ Step(g)
  PROVE  \/ Abstract!Request(g) \/ Abstract!GiveUp(g)
         \/ Abstract!Acquire(g) \/ Abstract!Release(g)
         \/ LockPhase' = LockPhase
<1>1. CASE LockFast(g)
  BY <1>1, Taking DEF LockFast, Unlocked
<1>2. CASE LockContended(g) \/ TryLockRead(g)
  <2>1. PICK label \in {"read", "try"} : Goto(g, label)
    BY <1>2 DEF LockContended, TryLockRead
  <2>2. Phase(pc[g]) = "idle" /\ Phase(label) = "waiting"
    BY <1>2, PhaseOf DEF LockContended, TryLockRead, InLock
  <2>. QED
    BY <2>1, <2>2, PhaseMoves DEF LockPhase, Abstract!Request
<1>3. CASE ReadState(g)
  BY <1>3, PhaseStays, PhaseOf DEF ReadState, InLock
<1>4. CASE Spin(g)
  BY <1>4, PhaseStays, PhaseOf DEF Spin, InLock
<1>5. CASE LockCAS(g)
  <2>1. CASE Goto(g, "cs") /\ ~Contended(old[g]) /\ state = old[g]
    BY <1>5, <2>1, Taking DEF LockCAS, InLock, Contended
  <2>2. CASE ~(Goto(g, "cs") /\ ~Contended(old[g]) /\ state = old[g])
    <3>1. PICK label \in {"read", "sem"} : Goto(g, label)
      BY <1>5, <2>2 DEF LockCAS
    <3>. QED
      BY <1>5, <3>1, PhaseStays, PhaseOf DEF LockCAS, InLock
  <2>. QED
    BY <2>1, <2>2
<1>6. CASE Park(g)
  <2>1. PICK label \in {"woke", "queued"} : Goto(g, label)
    BY <1>6 DEF Park, SemAcquire
  <2>. QED
    BY <1>6, <2>1, PhaseStays, PhaseOf DEF Park, InLock
<1>7. ASSUME NEW late \in BOOLEAN, Wake(g, late) PROVE LockPhase' = LockPhase
  <2>1. PICK label \in {"handoff", "loop"} : Goto(g, label)
    BY <1>7 DEF Wake
  <2>. QED
    BY <1>7, <2>1, PhaseStays, PhaseOf DEF Wake, InLock
<1>8. CASE Handoff(g)
  <2>1. ~state.locked
    BY <1>8 DEF Handoff, IInv, ModeOK, Carries
  <2>. QED
    BY <1>8, <2>1, Taking DEF Handoff, InLock
<1>9. CASE TryLockCAS(g)
  <2>1. CASE state = old[g] /\ Goto(g, "cs")
    BY <1>9, <2>1, Taking DEF TryLockCAS, IInv, LocalsOK, Contended
  <2>2. CASE Goto(g, "idle")
    <3>1. Phase(pc[g]) = "waiting" /\ Phase("idle") = "idle"
      BY <1>9, PhaseOf DEF TryLockCAS
    <3>. QED
      BY <2>2, <3>1, PhaseMoves DEF LockPhase, Abstract!GiveUp
  <2>. QED
    BY <1>9, <2>1, <2>2 DEF TryLockCAS
<1>10. CASE Unlock(g)
  <2>1. PICK label \in {"idle", "ustarve", "uloop"} : Goto(g, label)
    BY <1>10 DEF Unlock
  <2>2. Phase(pc[g]) = "holding" /\ Phase(label) = "idle"
    BY <1>10, PhaseOf DEF Unlock, InUnlock
  <2>. QED
    BY <2>1, <2>2, PhaseMoves DEF LockPhase, Abstract!Release
<1>11. CASE UnlockReturn(g) \/ UnlockReread(g)
  BY <1>11, PhaseStays, PhaseOf DEF UnlockReturn, UnlockReread, InUnlock
<1>12. CASE UnlockCAS(g)
  <2>1. PICK label \in {"urelease", "uread"} : Goto(g, label)
    BY <1>12 DEF UnlockCAS
  <2>. QED
    BY <1>12, <2>1, PhaseStays, PhaseOf DEF UnlockCAS, InUnlock
<1>13. CASE UnlockRelease(g)
  BY <1>13, ReleaseIsSilent DEF UnlockRelease, IInv, InUnlock
<1>14. CASE UnlockHandoff(g)
  BY <1>14, ReleaseIsSilent DEF UnlockHandoff, IInv, InUnlock
<1>. QED
  BY <1>1, <1>2, <1>3, <1>4, <1>5, <1>6, <1>7, <1>8, <1>9, <1>10, <1>11, <1>12, <1>13,
     <1>14 DEF Call, Step

\* Whatever sequence of calls its callers make, the mutex behaves as the abstract
\* lock does; that a free lock is eventually taken is left to the runs.
THEOREM ImplementsLockSafely == SafeSpec => Abstract!SafeSpec
<1>1. Init => Abstract!Init
  BY PhaseOf DEF Init, Abstract!Init
<1>2. TypeOK /\ IInv /\ [Next]_vars => [Abstract!Next]_LockPhase
  <2> SUFFICES ASSUME TypeOK, IInv, [Next]_vars, LockPhase' # LockPhase
               PROVE  Abstract!Next
    OBVIOUS
  <2>1. ~UNCHANGED vars
    BY DEF vars, LockPhase
  <2>. PICK g \in Goroutines : Call(g) \/ Step(g)
    BY <2>1 DEF Next
  <2>. QED
    BY LockStep DEF Abstract!Next
<1>. QED
  BY <1>1, <1>2, TypeCorrect, Invariance, PTL DEF SafeSpec, Abstract!SafeSpec, LockPhase
=============================================================================
