----------------------------- MODULE SyncRWMutex -----------------------------
(***************************************************************************)
(* sync/rwmutex.go: readers count themselves in readerCount; a writer      *)
(* first takes the mutex w, then announces itself by making readerCount    *)
(* negative, and waits for the readers it found to leave.                  *)
(*                                                                         *)
(* The file has no Unlock: a writer holds the lock until the program ends, *)
(* and nothing ever releases readerSem, so that a reader that comes after  *)
(* the announcement (label "rwait") stays.  The mutex w is the abstract    *)
(* lock that SyncMutex implements.                                         *)
(***************************************************************************)
EXTENDS Integers, FiniteSets

CONSTANTS
  Goroutines,
  MaxReaders    \* rwmutexMaxReader: more than there are goroutines

ASSUME RWAssumption ==
  /\ IsFiniteSet(Goroutines)
  /\ MaxReaders \in Nat /\ Cardinality(Goroutines) < MaxReaders

VARIABLES
  w,            \* RWMutex.w, as the phase of each goroutine
  readerCount,
  readerWait,
  writerSem,
  pc,
  saved         \* the local c of TryRLock and r of Lock

vars == <<w, readerCount, readerWait, writerSem, pc, saved>>

W == INSTANCE AbstractLock WITH phase <- w

Labels == {"idle", "rwait", "tryr", "tryload", "reading", "rslow", "rrelease",
           "wlock", "wheld", "wadd", "wwait", "writing", "try", "tried"}

Init ==
  /\ W!Init
  /\ readerCount = 0
  /\ readerWait = 0
  /\ writerSem = 0
  /\ pc = [g \in Goroutines |-> "idle"]
  /\ saved = [g \in Goroutines |-> 0]

Goto(g, label) == pc' = [pc EXCEPT ![g] = label]
Save(g, n) == saved' = [saved EXCEPT ![g] = n]

-----------------------------------------------------------------------------
(* Readers *)

RLock(g) ==
  /\ pc[g] = "idle"
  /\ readerCount' = readerCount + 1
  /\ Goto(g, IF readerCount' < 0 THEN "rwait" ELSE "reading")
  /\ UNCHANGED <<w, readerWait, writerSem, saved>>

\* A TryRLock that finds a writer answers false; it changes nothing, so that a
\* first load that finds one is no step.
TryRLockLoad(g) ==
  /\ \/ pc[g] = "idle" /\ readerCount >= 0
     \/ pc[g] = "tryload"
  /\ Goto(g, IF readerCount < 0 THEN "idle" ELSE "tryr")
  /\ Save(g, IF readerCount < 0 THEN 0 ELSE readerCount)
  /\ UNCHANGED <<w, readerCount, readerWait, writerSem>>

\* Mutant: a store in place of the CAS.
TryRLockStore(g) ==
  /\ pc[g] = "tryr"
  /\ readerCount' = saved[g] + 1 /\ Goto(g, "reading")
  /\ Save(g, 0)
  /\ UNCHANGED <<w, readerWait, writerSem>>

TryRLockCAS(g) ==
  /\ pc[g] = "tryr"
  /\ \/ /\ readerCount = saved[g]
        /\ readerCount' = readerCount + 1
        /\ Goto(g, "reading")
     \/ readerCount # saved[g] /\ Goto(g, "tryload") /\ UNCHANGED readerCount
  /\ Save(g, 0)
  /\ UNCHANGED <<w, readerWait, writerSem>>

\* "RUnlock of unlocked RWMutex", for the count n before the decrement: a throw
\* ends the program and is not a step.
Unbalanced(n) == n \in {0, -MaxReaders}

\* Mutant: the count reaching zero is taken for a writer's announcement.
WriterPendingOrLast(n) == n <= 0

WriterPending(n) == n < 0

RUnlock(g) ==
  /\ pc[g] = "reading"
  /\ ~Unbalanced(readerCount)
  /\ readerCount' = readerCount - 1
  /\ Goto(g, IF WriterPending(readerCount') THEN "rslow" ELSE "idle")
  /\ UNCHANGED <<w, readerWait, writerSem, saved>>

\* Mutant: the last but one wakes the writer.
LastReaderButOne(n) == n = 1

\* The last reader the writer waits for wakes it.
LastReader(n) == n = 0

RUnlockSlow(g) ==
  /\ pc[g] = "rslow"
  /\ readerWait' = readerWait - 1
  /\ Goto(g, IF LastReader(readerWait') THEN "rrelease" ELSE "idle")
  /\ UNCHANGED <<w, readerCount, writerSem, saved>>

RUnlockRelease(g) ==
  /\ pc[g] = "rrelease"
  /\ writerSem' = writerSem + 1
  /\ Goto(g, "idle")
  /\ UNCHANGED <<w, readerCount, readerWait, saved>>

-----------------------------------------------------------------------------
(* Writers *)

LockW(g) ==
  /\ pc[g] = "idle"
  /\ W!Request(g)
  /\ Goto(g, "wlock")
  /\ UNCHANGED <<readerCount, readerWait, writerSem, saved>>

WGranted(g) ==
  /\ pc[g] = "wlock"
  /\ W!Acquire(g)
  /\ Goto(g, "wheld")
  /\ UNCHANGED <<readerCount, readerWait, writerSem, saved>>

\* The count before the announcement is the number of readers to wait for.
Announce(g) ==
  /\ pc[g] = "wheld"
  /\ readerCount' = readerCount - MaxReaders
  /\ Save(g, readerCount)
  /\ Goto(g, IF readerCount = 0 THEN "writing" ELSE "wadd")
  /\ UNCHANGED <<w, readerWait, writerSem>>

\* Mutant: the writer looks at readerWait without adding its readers.
WaitForNobody(r) == readerWait

\* Readers that left since the announcement have already counted down.
WaitFor(r) == readerWait + r

AddWait(g) ==
  /\ pc[g] = "wadd"
  /\ readerWait' = WaitFor(saved[g])
  /\ Save(g, 0)
  /\ Goto(g, IF readerWait' = 0 THEN "writing" ELSE "wwait")
  /\ UNCHANGED <<w, readerCount, writerSem>>

WriterWakes(g) ==
  /\ pc[g] = "wwait"
  /\ writerSem > 0
  /\ writerSem' = writerSem - 1
  /\ Goto(g, "writing")
  /\ UNCHANGED <<w, readerCount, readerWait, saved>>

\* w.TryLock may fail for reasons of its own; it then answers false and changes
\* nothing.
TryLockW(g) ==
  /\ pc[g] = "idle"
  /\ W!Acquire(g)
  /\ Goto(g, "try")
  /\ UNCHANGED <<readerCount, readerWait, writerSem, saved>>

\* As the code has it: the CAS that succeeds answers false and gives w back, the
\* CAS that fails answers true (label "tried").
TryLockCAS(g) ==
  /\ pc[g] = "try"
  /\ \/ /\ readerCount = 0
        /\ readerCount' = -MaxReaders
        /\ W!Release(g)
        /\ Goto(g, "idle")
     \/ readerCount # 0 /\ Goto(g, "tried") /\ UNCHANGED <<w, readerCount>>
  /\ UNCHANGED <<readerWait, writerSem, saved>>

-----------------------------------------------------------------------------
Call(g) ==
  \/ RLock(g) \/ (pc[g] = "idle" /\ TryRLockLoad(g)) \/ LockW(g) \/ TryLockW(g)

\* Inside a call, and the RUnlock of a reader.
Step(g) ==
  \/ (pc[g] # "idle" /\ TryRLockLoad(g)) \/ TryRLockCAS(g)
  \/ RUnlock(g) \/ RUnlockSlow(g) \/ RUnlockRelease(g)
  \/ Announce(g) \/ AddWait(g) \/ WriterWakes(g) \/ TryLockCAS(g)

Next == \E g \in Goroutines : Call(g) \/ WGranted(g) \/ Step(g)

\* Goroutines run, readers leave, and w makes the progress it promises.
Fairness ==
  /\ \A g \in Goroutines : WF_vars(Step(g))
  /\ WF_vars(\E g \in Goroutines : WGranted(g))

Spec == Init /\ [][Next]_vars /\ Fairness

-----------------------------------------------------------------------------
(* Properties *)

At(labels) == Cardinality({g \in Goroutines : pc[g] \in labels})

\* Every variable keeps its type, the counters within the number of goroutines.
TypeOK ==
  /\ w \in [Goroutines -> W!Phases]
  /\ readerCount \in -2 * MaxReaders..Cardinality(Goroutines)
  /\ readerWait \in -MaxReaders..Cardinality(Goroutines)
  /\ writerSem \in 0..1
  /\ pc \in [Goroutines -> Labels]
  /\ saved \in [Goroutines -> -MaxReaders..Cardinality(Goroutines)]

\* A writer that Lock has let in is alone: no other writer, no reader.
WriterExcludes ==
  \A g \in Goroutines :
    pc[g] = "writing" => \A h \in Goroutines \ {g} : pc[h] \notin {"reading", "writing"}

\* A goroutine that RWMutex lets write, by Lock or by a TryLock that answers
\* true, is alone (the annotations of lines 112-115).
TryLockExcludes ==
  \A g \in Goroutines :
    pc[g] \in {"writing", "tried"} =>
      \A h \in Goroutines \ {g} : pc[h] \notin {"reading", "writing", "tried"}

\* Whatever was announced, readerCount tells the readers admitted or waiting,
\* and the check of RUnlock does not fire on one that reads.
ReadersCounted ==
  /\ (readerCount + 2 * MaxReaders) % MaxReaders = At({"reading", "rwait"})
  /\ At({"reading"}) > 0 => ~Unbalanced(readerCount)

\* A lone announcement: not on top of one left behind by a TryLock.
Announced == readerCount < 0 /\ readerCount >= -MaxReaders

\* A writer waits for exactly the readers still inside, also while they leave
\* between its two additions, and the last of them has its wake-up in hand.
WriterOwed ==
  Announced =>
    \A g \in Goroutines :
      /\ pc[g] = "wadd" => readerWait + saved[g] = At({"reading", "rslow"})
      /\ pc[g] = "wwait" =>
           /\ readerWait = At({"reading", "rslow"})
           /\ readerWait = 0 <=> writerSem + At({"rrelease"}) = 1

\* Once a writer has announced itself it gets in when the readers have left, no
\* matter how many readers keep arriving.
WriterAdmitted ==
  \A g \in Goroutines :
    Announced /\ pc[g] \in {"wadd", "wwait"} ~> pc[g] = "writing"
=============================================================================
