------------------------- MODULE SyncRWMutexProofs -------------------------
(***************************************************************************)
(* Safety of the readers-writer mutex for any number of goroutines below   *)
(* rwmutexMaxReader.  The lock is open, closed for good by a TryLock that  *)
(* answered false, or closed by the one writer that Lock lets through; in  *)
(* each case the counters are functions of where the goroutines are.       *)
(***************************************************************************)
EXTENDS SyncRWMutex, Counting

Total == Cardinality(Goroutines)

Reading == At({"reading"})
Waiting == At({"rwait"})
Leaving == At({"rslow"})
Releasing == At({"rrelease"})

\* Who has w, which Lock never gives back, and who has announced itself.
HasW == {"wheld", "wadd", "wwait", "writing", "try", "tried"}
Announcers == {"wadd", "wwait", "writing"}

\* The variables, without the bounds of the counters.
Types ==
  /\ w \in [Goroutines -> W!Phases]
  /\ readerCount \in Int /\ readerWait \in Int /\ writerSem \in Int
  /\ pc \in [Goroutines -> Labels]
  /\ saved \in [Goroutines -> Int]

\* w is where the code between its calls has it, and has one holder.
HolderOK ==
  /\ \A g \in Goroutines :
       w[g] = IF pc[g] = "wlock" THEN "waiting"
              ELSE IF pc[g] \in HasW THEN "holding" ELSE "idle"
  /\ \A g, h \in Goroutines : pc[g] \in HasW /\ pc[h] \in HasW => g = h

\* The locals live from the load to the CAS, and from one addition to the next.
SavedOK ==
  \A g \in Goroutines :
    /\ pc[g] \notin {"tryr", "wadd"} => saved[g] = 0
    /\ pc[g] = "tryr" => saved[g] \in 0..Total

\* No writer has announced itself.
Open ==
  /\ readerCount = Reading
  /\ \A g \in Goroutines : pc[g] \notin {"rwait", "rslow", "rrelease"} \cup Announcers
  /\ readerWait = 0 /\ writerSem = 0

\* A TryLock has closed the lock and answered false: a Lock that comes after it
\* takes MaxReaders off a second time, and waits for a negative number.
Shut ==
  /\ \A g \in Goroutines : pc[g] \notin {"reading", "rslow", "rrelease", "writing"}
  /\ writerSem = 0
  /\ \/ /\ readerCount = Waiting - MaxReaders
        /\ \A g \in Goroutines : pc[g] \notin Announcers
        /\ readerWait = 0
     \/ /\ readerCount = Waiting - 2 * MaxReaders
        /\ \E g \in Goroutines : pc[g] \in Announcers
  /\ \A g \in Goroutines :
       /\ pc[g] = "wadd" => readerWait = 0 /\ saved[g] \in -MaxReaders..-1
       /\ pc[g] = "wwait" => readerWait \in -MaxReaders..-1

\* A Lock has announced itself on an open lock, and its readers leave.
Closing ==
  /\ readerCount = Reading + Waiting - MaxReaders
  /\ \E g \in Goroutines : pc[g] \in Announcers
  /\ \A g \in Goroutines :
       /\ pc[g] = "wadd" =>
            /\ saved[g] \in 1..Total /\ readerWait <= 0
            /\ readerWait + saved[g] = Reading + Leaving
            /\ Releasing = 0 /\ writerSem = 0
       /\ pc[g] = "wwait" =>
            /\ readerWait = Reading + Leaving
            /\ writerSem >= 0
            /\ writerSem + Releasing = IF readerWait = 0 THEN 1 ELSE 0
       /\ pc[g] = "writing" =>
            /\ Reading = 0 /\ Leaving = 0 /\ Releasing = 0
            /\ readerWait = 0 /\ writerSem = 0

Mode == Open \/ Shut \/ Closing

RWInv == Types /\ HolderOK /\ SavedOK /\ Mode

-----------------------------------------------------------------------------
(* What the numbers say. *)

\* The four numbers are natural, zero when nobody is counted, and the readers
\* inside or waiting fall short of rwmutexMaxReader.
LEMMA Numbers ==
  /\ Reading \in Nat /\ Waiting \in Nat /\ Leaving \in Nat /\ Releasing \in Nat
  /\ Reading = 0 <=> \A g \in Goroutines : pc[g] # "reading"
  /\ Waiting = 0 <=> \A g \in Goroutines : pc[g] # "rwait"
  /\ Leaving = 0 <=> \A g \in Goroutines : pc[g] # "rslow"
  /\ Releasing = 0 <=> \A g \in Goroutines : pc[g] # "rrelease"
  /\ Total \in Nat /\ MaxReaders \in Nat /\ Total < MaxReaders
  /\ Reading + Waiting <= Total /\ Reading + Leaving <= Total
  /\ Reading + Waiting = At({"reading", "rwait"})
  /\ Reading + Leaving = At({"reading", "rslow"})
<1> DEFINE C(L) == Count(Goroutines, pc, L)
<1>1. \A L : At(L) = C(L)
  BY DEF At, Count
<1>2. /\ C({"reading"}) \in Nat /\ C({"rwait"}) \in Nat
      /\ C({"rslow"}) \in Nat /\ C({"rrelease"}) \in Nat
      /\ C({"reading", "rwait"}) <= Total /\ C({"reading", "rslow"}) <= Total
  BY CountType, RWAssumption DEF Total
<1>3. /\ C({"reading"}) = 0 <=> \A g \in Goroutines : pc[g] \notin {"reading"}
      /\ C({"rwait"}) = 0 <=> \A g \in Goroutines : pc[g] \notin {"rwait"}
      /\ C({"rslow"}) = 0 <=> \A g \in Goroutines : pc[g] \notin {"rslow"}
      /\ C({"rrelease"}) = 0 <=> \A g \in Goroutines : pc[g] \notin {"rrelease"}
  BY CountType, RWAssumption
<1>4. C({"reading", "rwait"}) = C({"reading"}) + C({"rwait"})
  <2>1. {"reading", "rwait"} = {"reading"} \cup {"rwait"} /\ {"reading"} \cap {"rwait"} = {}
    OBVIOUS
  <2>. QED
    BY <2>1, CountSplit, RWAssumption
<1>5. C({"reading", "rslow"}) = C({"reading"}) + C({"rslow"})
  <2>1. {"reading", "rslow"} = {"reading"} \cup {"rslow"} /\ {"reading"} \cap {"rslow"} = {}
    OBVIOUS
  <2>. QED
    BY <2>1, CountSplit, RWAssumption
<1>6. Total \in Nat
  BY FS_CardinalityType, RWAssumption DEF Total
<1>. HIDE DEF C
<1>. QED
  BY <1>1, <1>2, <1>3, <1>4, <1>5, <1>6, RWAssumption
     DEF Reading, Waiting, Leaving, Releasing, Total

\* What a step of one goroutine does to them.
LEMMA Moved ==
  ASSUME Types, NEW g \in Goroutines, NEW label, Goto(g, label)
  PROVE  /\ Reading' = Reading - (IF pc[g] = "reading" THEN 1 ELSE 0)
                               + (IF label = "reading" THEN 1 ELSE 0)
         /\ Waiting' = Waiting - (IF pc[g] = "rwait" THEN 1 ELSE 0)
                               + (IF label = "rwait" THEN 1 ELSE 0)
         /\ Leaving' = Leaving - (IF pc[g] = "rslow" THEN 1 ELSE 0)
                               + (IF label = "rslow" THEN 1 ELSE 0)
         /\ Releasing' = Releasing - (IF pc[g] = "rrelease" THEN 1 ELSE 0)
                                   + (IF label = "rrelease" THEN 1 ELSE 0)
         /\ \A h \in Goroutines : pc'[h] = IF h = g THEN label ELSE pc[h]
<1>1. \A h \in Goroutines : pc'[h] = IF h = g THEN label ELSE pc[h]
  BY DEF Goto, Types
<1>2. \A L : Count(Goroutines, pc', L) = Count(Goroutines, pc, L)
                                         - (IF pc[g] \in L THEN 1 ELSE 0)
                                         + (IF label \in L THEN 1 ELSE 0)
  <2>. TAKE L
  <2>1. \A h \in Goroutines \ {g} : pc'[h] \in L <=> pc[h] \in L
    BY <1>1
  <2>2. Count(Goroutines, pc', L) = Count(Goroutines, pc, L)
                                    - (IF pc[g] \in L THEN 1 ELSE 0)
                                    + (IF pc'[g] \in L THEN 1 ELSE 0)
    BY <2>1, CountMoves, RWAssumption
  <2>. QED
    BY <1>1, <2>2
<1>3. /\ Reading = Count(Goroutines, pc, {"reading"})
      /\ Reading' = Count(Goroutines, pc', {"reading"})
      /\ Waiting = Count(Goroutines, pc, {"rwait"})
      /\ Waiting' = Count(Goroutines, pc', {"rwait"})
      /\ Leaving = Count(Goroutines, pc, {"rslow"})
      /\ Leaving' = Count(Goroutines, pc', {"rslow"})
      /\ Releasing = Count(Goroutines, pc, {"rrelease"})
      /\ Releasing' = Count(Goroutines, pc', {"rrelease"})
  BY DEF Reading, Waiting, Leaving, Releasing, At, Count
<1>. QED
  BY <1>1, <1>2, <1>3

-----------------------------------------------------------------------------
(* Each step keeps the variables typed, w held by one, and the locals. *)

\* Calls of w's operations.
LEMMA WStep ==
  ASSUME Types, NEW g \in Goroutines
  PROVE  /\ W!Request(g) => w' = [w EXCEPT ![g] = "waiting"]
         /\ W!Acquire(g) => /\ w' = [w EXCEPT ![g] = "holding"]
                            /\ \A h \in Goroutines : w[h] # "holding"
         /\ W!Release(g) => w' = [w EXCEPT ![g] = "idle"]
         /\ {"idle", "waiting", "holding"} = W!Phases
  BY DEF W!Request, W!Acquire, W!Release, W!Free, W!Phases

\* Every step keeps the types.
LEMMA TypesStep == Types /\ [Next]_vars => Types'
<1> SUFFICES ASSUME Types, [Next]_vars PROVE Types'
  OBVIOUS
<1>0. MaxReaders \in Int
  BY RWAssumption
<1>1. CASE UNCHANGED vars
  BY <1>1 DEF vars, Types
<1>2. CASE Next
  <2>. PICK g \in Goroutines : Call(g) \/ WGranted(g) \/ Step(g)
    BY <1>2 DEF Next
  <2>. USE DEF Types, Labels, Goto, Save
  <2>1. CASE RLock(g) \/ TryRLockLoad(g) \/ TryRLockCAS(g)
    BY <2>1 DEF RLock, TryRLockLoad, TryRLockCAS
  <2>2. CASE RUnlock(g) \/ RUnlockSlow(g) \/ RUnlockRelease(g)
    BY <2>2 DEF RUnlock, RUnlockSlow, RUnlockRelease
  <2>3. CASE LockW(g) \/ WGranted(g) \/ TryLockW(g)
    BY <2>3, WStep DEF LockW, WGranted, TryLockW
  <2>4. CASE Announce(g) \/ AddWait(g) \/ WriterWakes(g)
    BY <1>0, <2>4 DEF Announce, AddWait, WaitFor, WriterWakes
  <2>5. CASE TryLockCAS(g)
    BY <1>0, <2>5, WStep DEF TryLockCAS
  <2>. QED
    BY <2>1, <2>2, <2>3, <2>4, <2>5 DEF Call, Step
<1>. QED
  BY <1>1, <1>2

\* w follows the code between its calls.
LEMMA HolderStep == Types /\ HolderOK /\ [Next]_vars => HolderOK'
<1> SUFFICES ASSUME Types, HolderOK, [Next]_vars PROVE HolderOK'
  OBVIOUS
<1>1. CASE UNCHANGED vars
  BY <1>1 DEF vars, HolderOK
<1>2. CASE Next
  <2>. PICK g \in Goroutines : Call(g) \/ WGranted(g) \/ Step(g)
    BY <1>2 DEF Next
  <2>. USE DEF HolderOK, HasW, Types, Goto
  <2>1. CASE RLock(g) \/ TryRLockLoad(g) \/ TryRLockCAS(g)
    BY <2>1 DEF RLock, TryRLockLoad, TryRLockCAS
  <2>2. CASE RUnlock(g) \/ RUnlockSlow(g) \/ RUnlockRelease(g)
    BY <2>2 DEF RUnlock, RUnlockSlow, RUnlockRelease
  <2>3. CASE LockW(g)
    BY <2>3, WStep DEF LockW
  <2>4. CASE WGranted(g) \/ TryLockW(g)
    BY <2>4, WStep DEF WGranted, TryLockW
  <2>5. CASE Announce(g) \/ AddWait(g) \/ WriterWakes(g)
    BY <2>5 DEF Announce, AddWait, WriterWakes
  <2>6. CASE TryLockCAS(g)
    BY <2>6, WStep DEF TryLockCAS
  <2>. QED
    BY <2>1, <2>2, <2>3, <2>4, <2>5, <2>6 DEF Call, Step
<1>. QED
  BY <1>1, <1>2

\* A count that TryRLock saved was one of an open lock.
LEMMA SavedStep == Types /\ SavedOK /\ Mode /\ [Next]_vars => SavedOK'
<1> SUFFICES ASSUME Types, SavedOK, Mode, [Next]_vars PROVE SavedOK'
  OBVIOUS
<1>1. CASE UNCHANGED vars
  BY <1>1 DEF vars, SavedOK
<1>2. CASE Next
  <2>. PICK g \in Goroutines : Call(g) \/ WGranted(g) \/ Step(g)
    BY <1>2 DEF Next
  <2>0. readerCount >= 0 => readerCount \in 0..Total
    BY Numbers DEF Mode, Open, Shut, Closing
  <2>. USE DEF SavedOK, Types, Goto, Save
  <2>1. CASE RLock(g) \/ RUnlock(g) \/ RUnlockSlow(g) \/ RUnlockRelease(g)
    BY <2>1 DEF RLock, RUnlock, RUnlockSlow, RUnlockRelease
  <2>2. CASE TryRLockLoad(g)
    BY <2>0, <2>2 DEF TryRLockLoad
  <2>3. CASE TryRLockCAS(g)
    BY <2>3 DEF TryRLockCAS
  <2>4. CASE LockW(g) \/ WGranted(g) \/ TryLockW(g) \/ WriterWakes(g) \/ TryLockCAS(g)
    BY <2>4 DEF LockW, WGranted, TryLockW, WriterWakes, TryLockCAS
  <2>5. CASE Announce(g) \/ AddWait(g)
    BY <2>5 DEF Announce, AddWait
  <2>. QED
    BY <2>1, <2>2, <2>3, <2>4, <2>5 DEF Call, Step
<1>. QED
  BY <1>1, <1>2

-----------------------------------------------------------------------------
(* Each step keeps the mode, or closes an open lock. *)

\* Where the counters say nothing of a goroutine.
Quiet == {"idle", "tryr", "tryload", "wlock", "wheld", "try", "tried"}

\* A step between such places that leaves the counters alone.
LEMMA ModeFrame ==
  ASSUME Types, Mode, NEW g \in Goroutines, NEW label \in Quiet, pc[g] \in Quiet,
         Goto(g, label), UNCHANGED <<readerCount, readerWait, writerSem>>,
         \A h \in Goroutines : pc[h] = "wadd" => saved'[h] = saved[h]
  PROVE  Mode'
<1>1. /\ Reading' = Reading /\ Waiting' = Waiting
      /\ Leaving' = Leaving /\ Releasing' = Releasing
      /\ \A h \in Goroutines : pc'[h] = IF h = g THEN label ELSE pc[h]
  BY Moved, Numbers DEF Quiet
<1>2. Total' = Total
  BY DEF Total
<1>3. ASSUME Open PROVE Open'
  BY <1>1, <1>3 DEF Open, Quiet, Announcers
<1>4. ASSUME Shut PROVE Shut'
  BY <1>1, <1>4 DEF Shut, Quiet, Announcers
<1>5. ASSUME Closing PROVE Closing'
  BY <1>1, <1>2, <1>5 DEF Closing, Quiet, Announcers
<1>. QED
  BY <1>3, <1>4, <1>5 DEF Mode

\* A reader comes: past an announcement it goes to sleep.
LEMMA RLockKeepsMode ==
  ASSUME Types, Mode, NEW g \in Goroutines, RLock(g)
  PROVE  Mode'
<1>. DEFINE label == IF readerCount' < 0 THEN "rwait" ELSE "reading"
<1>1. Goto(g, label) /\ pc[g] = "idle" /\ readerCount' = readerCount + 1
      /\ UNCHANGED <<readerWait, writerSem, saved>> /\ Total' = Total
  BY DEF RLock, Total
<1>2. /\ Reading' = Reading + (IF label = "reading" THEN 1 ELSE 0)
      /\ Waiting' = Waiting + (IF label = "rwait" THEN 1 ELSE 0)
      /\ Leaving' = Leaving /\ Releasing' = Releasing
      /\ \A h \in Goroutines : pc'[h] = IF h = g THEN label ELSE pc[h]
  BY <1>1, Moved, Numbers
<1>3. Reading + Waiting + 1 < MaxReaders
  <2>1. (Reading + Waiting <= Total)'
    BY Numbers, PTL
  <2>. QED
    BY <1>1, <1>2, <2>1, Numbers
<1>4. CASE Open
  <2>1. label = "reading"
    BY <1>1, <1>4, Numbers DEF Open
  <2>2. Open'
    BY <1>1, <1>2, <1>4, <2>1, Numbers DEF Open, Announcers
  <2>. QED
    BY <2>2 DEF Mode
<1>5. CASE Shut
  <2>1. label = "rwait"
    BY <1>1, <1>3, <1>5, Numbers DEF Shut
  <2>2. Shut'
    BY <1>1, <1>2, <1>5, <2>1, Numbers DEF Shut, Announcers
  <2>. QED
    BY <2>2 DEF Mode
<1>6. CASE Closing
  <2>1. label = "rwait"
    BY <1>1, <1>3, <1>6, Numbers DEF Closing
  <2>2. Closing'
    BY <1>1, <1>2, <1>6, <2>1, Numbers DEF Closing, Announcers
  <2>. QED
    BY <2>2 DEF Mode
<1>. QED
  BY <1>4, <1>5, <1>6 DEF Mode

\* A TryRLock whose CAS succeeds comes to an open lock.
LEMMA TryRLockCASKeepsMode ==
  ASSUME Types, SavedOK, Mode, NEW g \in Goroutines, TryRLockCAS(g)
  PROVE  Mode'
<1>1. pc[g] = "tryr" /\ UNCHANGED <<readerWait, writerSem>>
      /\ saved' = [saved EXCEPT ![g] = 0] /\ Total' = Total
  BY DEF TryRLockCAS, Save, Total
<1>2. CASE readerCount = saved[g] /\ readerCount' = readerCount + 1 /\ Goto(g, "reading")
  <2>1. Open
    BY <1>1, <1>2, Numbers DEF Mode, Shut, Closing, SavedOK
  <2>2. /\ Reading' = Reading + 1 /\ Waiting' = Waiting
        /\ Leaving' = Leaving /\ Releasing' = Releasing
        /\ \A h \in Goroutines : pc'[h] = IF h = g THEN "reading" ELSE pc[h]
    BY <1>1, <1>2, Moved, Numbers
  <2>3. Open'
    BY <1>1, <1>2, <2>1, <2>2 DEF Open, Announcers
  <2>. QED
    BY <2>3 DEF Mode
<1>3. CASE Goto(g, "tryload") /\ UNCHANGED readerCount
  BY <1>1, <1>3, ModeFrame DEF Quiet, Types
<1>. QED
  BY <1>2, <1>3 DEF TryRLockCAS

\* A reader leaves: past an announcement it will count down.
LEMMA RUnlockKeepsMode ==
  ASSUME Types, Mode, NEW g \in Goroutines, RUnlock(g)
  PROVE  Mode'
<1>. DEFINE label == IF WriterPending(readerCount') THEN "rslow" ELSE "idle"
<1>1. Goto(g, label) /\ pc[g] = "reading" /\ readerCount' = readerCount - 1
      /\ UNCHANGED <<readerWait, writerSem, saved>> /\ Total' = Total
  BY DEF RUnlock, Total
<1>2. /\ Reading' = Reading - 1
      /\ Waiting' = Waiting
      /\ Leaving' = Leaving + (IF label = "rslow" THEN 1 ELSE 0)
      /\ Releasing' = Releasing
      /\ \A h \in Goroutines : pc'[h] = IF h = g THEN label ELSE pc[h]
  BY <1>1, Moved, Numbers
<1>3. Reading \in Nat \ {0} /\ Reading + Waiting < MaxReaders
  BY <1>1, Numbers
<1>4. CASE Open
  <2>1. label = "idle"
    BY <1>1, <1>3, <1>4 DEF Open, WriterPending
  <2>2. Open'
    BY <1>1, <1>2, <1>3, <1>4, <2>1 DEF Open, Announcers
  <2>. QED
    BY <2>2 DEF Mode
<1>5. CASE Closing
  <2>1. label = "rslow"
    BY <1>1, <1>3, <1>5, Numbers DEF Closing, WriterPending
  <2>2. readerCount' = Reading' + Waiting' - MaxReaders
    BY <1>1, <1>2, <1>5, Numbers DEF Closing
  <2>3. \E h \in Goroutines : pc'[h] \in Announcers
    BY <1>1, <1>2, <1>5 DEF Closing, Announcers
  <2>4. Reading' + Leaving' = Reading + Leaving
    BY <1>2, <2>1, Numbers
  <2>5. Closing'
    BY <1>1, <1>2, <1>3, <1>5, <2>1, <2>2, <2>3, <2>4, Numbers DEF Closing
  <2>. QED
    BY <2>5 DEF Mode
<1>. QED
  BY <1>1, <1>4, <1>5 DEF Mode, Shut

\* A reader counts down, and the last one has the writer's wake-up in hand.
LEMMA RUnlockSlowKeepsMode ==
  ASSUME Types, HolderOK, Mode, NEW g \in Goroutines, RUnlockSlow(g)
  PROVE  Mode'
<1>. DEFINE label == IF LastReader(readerWait') THEN "rrelease" ELSE "idle"
<1>1. Goto(g, label) /\ pc[g] = "rslow" /\ readerWait' = readerWait - 1
      /\ UNCHANGED <<readerCount, writerSem, saved>> /\ Total' = Total
  BY DEF RUnlockSlow, Total
<1>2. label \in {"rrelease", "idle"} /\ (label = "rrelease" <=> readerWait' = 0)
  BY DEF LastReader
<1>. HIDE DEF label
<1>3. /\ Reading' = Reading /\ Waiting' = Waiting
      /\ Leaving' = Leaving - 1
      /\ Releasing' = Releasing + (IF label = "rrelease" THEN 1 ELSE 0)
      /\ \A h \in Goroutines : pc'[h] = IF h = g THEN label ELSE pc[h]
  BY <1>1, <1>2, Moved, Numbers
<1>4. Leaving \in Nat \ {0} /\ Reading \in Nat /\ Waiting \in Nat /\ Releasing \in Nat
  BY <1>1, Numbers
<1>5. Closing
  BY <1>1 DEF Mode, Open, Shut
<1>6. PICK a \in Goroutines : pc[a] \in {"wadd", "wwait"}
  BY <1>4, <1>5 DEF Closing, Announcers
<1>7. \A h \in Goroutines : pc[h] \in Announcers => h = a
  BY <1>6 DEF HolderOK, HasW, Announcers
<1>8. \A h \in Goroutines : pc'[h] \in Announcers => h = a /\ pc'[a] = pc[a]
  BY <1>1, <1>2, <1>3, <1>6, <1>7 DEF Announcers
<1>9. pc'[a] = pc[a] /\ pc'[a] \in Announcers /\ saved'[a] = saved[a]
  BY <1>1, <1>2, <1>3, <1>6 DEF Announcers
<1>10. CASE pc[a] = "wadd"
  <2>1. /\ saved[a] \in 1..Total /\ readerWait <= 0
        /\ readerWait + saved[a] = Reading + Leaving
        /\ Releasing = 0 /\ writerSem = 0
    BY <1>5, <1>10 DEF Closing
  <2>2. /\ saved'[a] \in 1..Total' /\ readerWait' <= 0
        /\ readerWait' + saved'[a] = Reading' + Leaving'
        /\ Releasing' = 0 /\ writerSem' = 0
    BY <1>1, <1>2, <1>3, <1>4, <1>9, <2>1, Numbers DEF Types
  <2>3. Closing'
    BY <1>1, <1>2, <1>3, <1>5, <1>8, <1>9, <1>10, <2>2 DEF Closing, Announcers
  <2>. QED
    BY <2>3 DEF Mode
<1>11. CASE pc[a] = "wwait"
  <2>1. /\ readerWait = Reading + Leaving /\ writerSem >= 0
        /\ writerSem + Releasing = IF readerWait = 0 THEN 1 ELSE 0
    BY <1>5, <1>11 DEF Closing
  <2>2. /\ readerWait' = Reading' + Leaving' /\ writerSem' >= 0
        /\ writerSem' + Releasing' = IF readerWait' = 0 THEN 1 ELSE 0
    BY <1>1, <1>2, <1>3, <1>4, <2>1 DEF Types
  <2>3. Closing'
    BY <1>1, <1>2, <1>3, <1>5, <1>8, <1>9, <1>11, <2>2 DEF Closing, Announcers
  <2>. QED
    BY <2>3 DEF Mode
<1>. QED
  BY <1>6, <1>10, <1>11

\* The permit of the last reader takes the place of the reader that has it in hand.
LEMMA RUnlockReleaseKeepsMode ==
  ASSUME Types, HolderOK, Mode, NEW g \in Goroutines, RUnlockRelease(g)
  PROVE  Mode'
<1>1. Goto(g, "idle") /\ pc[g] = "rrelease" /\ writerSem' = writerSem + 1
      /\ UNCHANGED <<readerCount, readerWait, saved>> /\ Total' = Total
  BY DEF RUnlockRelease, Total
<1>2. /\ Reading' = Reading /\ Waiting' = Waiting
      /\ Leaving' = Leaving /\ Releasing' = Releasing - 1
      /\ \A h \in Goroutines : pc'[h] = IF h = g THEN "idle" ELSE pc[h]
  <2>1. /\ Reading' = Reading - 0 + 0 /\ Waiting' = Waiting - 0 + 0
        /\ Leaving' = Leaving - 0 + 0 /\ Releasing' = Releasing - 1 + 0
        /\ \A h \in Goroutines : pc'[h] = IF h = g THEN "idle" ELSE pc[h]
    BY <1>1, Moved
  <2>. QED
    BY <2>1, Numbers
<1>3. Releasing \in Nat \ {0}
  BY <1>1, Numbers
<1>4. Closing
  BY <1>1 DEF Mode, Open, Shut
<1>5. \A h \in Goroutines : pc[h] \in Announcers => pc[h] = "wwait" /\ pc'[h] = "wwait"
  BY <1>1, <1>2, <1>3, <1>4 DEF Closing, Announcers
<1>6. \A h \in Goroutines : pc'[h] \in Announcers => pc[h] = "wwait"
  BY <1>1, <1>2, <1>5 DEF Announcers
<1>7. \A h \in Goroutines : pc[h] = "wwait" =>
        /\ readerWait' = Reading' + Leaving' /\ writerSem' >= 0
        /\ writerSem' + Releasing' = IF readerWait' = 0 THEN 1 ELSE 0
  BY <1>1, <1>2, <1>3, <1>4 DEF Closing, Types
<1>8. Closing'
  BY <1>1, <1>2, <1>4, <1>5, <1>6, <1>7 DEF Closing, Announcers
<1>. QED
  BY <1>8 DEF Mode

\* A writer announces itself: on an open lock it will wait for the readers there
\* are, behind a TryLock for a number that nobody counts.
LEMMA AnnounceKeepsMode ==
  ASSUME Types, HolderOK, Mode, NEW g \in Goroutines, Announce(g)
  PROVE  Mode'
<1>. DEFINE label == IF readerCount = 0 THEN "writing" ELSE "wadd"
<1>1. Goto(g, label) /\ pc[g] = "wheld" /\ readerCount' = readerCount - MaxReaders
      /\ saved' = [saved EXCEPT ![g] = readerCount]
      /\ UNCHANGED <<readerWait, writerSem>> /\ Total' = Total
  BY DEF Announce, Save, Total
<1>2. label \in {"writing", "wadd"} /\ (label = "writing" <=> readerCount = 0)
  OBVIOUS
<1>. HIDE DEF label
<1>3. /\ Reading' = Reading /\ Waiting' = Waiting
      /\ Leaving' = Leaving /\ Releasing' = Releasing
      /\ \A h \in Goroutines : pc'[h] = IF h = g THEN label ELSE pc[h]
  BY <1>1, <1>2, Moved, Numbers
<1>4. \A h \in Goroutines : pc[h] \notin Announcers
  BY <1>1 DEF HolderOK, HasW, Announcers
<1>5. \A h \in Goroutines : pc'[h] \in Announcers <=> h = g
  BY <1>2, <1>3, <1>4 DEF Announcers
<1>6. saved'[g] = readerCount /\ pc'[g] = label
  BY <1>1, <1>3 DEF Types
<1>7. CASE Open
  <2>1. /\ readerCount = Reading /\ Waiting = 0 /\ Leaving = 0 /\ Releasing = 0
        /\ Reading \in 0..Total /\ readerWait = 0 /\ writerSem = 0
    BY <1>7, Numbers DEF Open
  <2>2. readerCount' = Reading' + Waiting' - MaxReaders
    BY <1>1, <1>3, <2>1, Numbers
  <2>3. Closing'
    BY <1>1, <1>2, <1>3, <1>5, <1>6, <2>1, <2>2 DEF Closing, Announcers
  <2>. QED
    BY <2>3 DEF Mode
<1>8. CASE Shut
  <2>1. /\ readerCount = Waiting - MaxReaders /\ readerWait = 0
        /\ readerCount \in -MaxReaders..-1
    BY <1>4, <1>8, Numbers DEF Shut
  <2>2. label = "wadd"
    BY <1>2, <2>1
  <2>3. readerCount' = Waiting' - 2 * MaxReaders
    BY <1>1, <1>3, <2>1, Numbers
  <2>4. Shut'
    BY <1>1, <1>3, <1>5, <1>6, <1>8, <2>1, <2>2, <2>3 DEF Shut, Announcers
  <2>. QED
    BY <2>4 DEF Mode
<1>. QED
  BY <1>4, <1>7, <1>8 DEF Mode, Closing

\* The writer adds its readers: the sum is who has not counted down yet.
LEMMA AddWaitKeepsMode ==
  ASSUME Types, HolderOK, Mode, NEW g \in Goroutines, AddWait(g)
  PROVE  Mode'
<1>. DEFINE label == IF readerWait' = 0 THEN "writing" ELSE "wwait"
<1>1. Goto(g, label) /\ pc[g] = "wadd" /\ readerWait' = readerWait + saved[g]
      /\ UNCHANGED <<readerCount, writerSem>> /\ Total' = Total
  BY DEF AddWait, WaitFor, Total
<1>2. label \in {"writing", "wwait"} /\ (label = "writing" <=> readerWait' = 0)
  OBVIOUS
<1>. HIDE DEF label
<1>3. /\ Reading' = Reading /\ Waiting' = Waiting
      /\ Leaving' = Leaving /\ Releasing' = Releasing
      /\ \A h \in Goroutines : pc'[h] = IF h = g THEN label ELSE pc[h]
  BY <1>1, <1>2, Moved, Numbers
<1>4. \A h \in Goroutines : pc'[h] \in Announcers <=> h = g
  BY <1>1, <1>2, <1>3 DEF HolderOK, HasW, Announcers
<1>5. pc'[g] = label
  BY <1>3
<1>6. CASE Shut
  <2>1. readerWait' \in -MaxReaders..-1 /\ label = "wwait"
    BY <1>1, <1>2, <1>6, RWAssumption DEF Shut
  <2>2. Shut'
    BY <1>1, <1>3, <1>4, <1>5, <1>6, <2>1 DEF Shut, Announcers
  <2>. QED
    BY <2>2 DEF Mode
<1>7. CASE Closing
  <2>1. readerWait' = Reading + Leaving /\ Releasing = 0 /\ writerSem = 0
    BY <1>1, <1>7 DEF Closing
  <2>2. readerWait' = 0 => Reading = 0 /\ Leaving = 0
    BY <2>1, Numbers
  <2>3. Closing'
    BY <1>1, <1>2, <1>3, <1>4, <1>5, <1>7, <2>1, <2>2 DEF Closing, Announcers
  <2>. QED
    BY <2>3 DEF Mode
<1>. QED
  BY <1>1, <1>6, <1>7 DEF Mode, Open, Announcers

\* The writer gets in: all it waited for have counted down.
LEMMA WriterWakesKeepsMode ==
  ASSUME Types, HolderOK, Mode, NEW g \in Goroutines, WriterWakes(g)
  PROVE  Mode'
<1>1. Goto(g, "writing") /\ pc[g] = "wwait" /\ writerSem > 0 /\ writerSem' = writerSem - 1
      /\ UNCHANGED <<readerCount, readerWait, saved>> /\ Total' = Total
  BY DEF WriterWakes, Total
<1>2. /\ Reading' = Reading /\ Waiting' = Waiting
      /\ Leaving' = Leaving /\ Releasing' = Releasing
      /\ \A h \in Goroutines : pc'[h] = IF h = g THEN "writing" ELSE pc[h]
  BY <1>1, Moved, Numbers
<1>3. \A h \in Goroutines : pc'[h] \in Announcers <=> h = g
  BY <1>1, <1>2 DEF HolderOK, HasW, Announcers
<1>4. Closing
  BY <1>1 DEF Mode, Open, Shut
<1>5. /\ readerWait = Reading + Leaving
      /\ writerSem + Releasing = IF readerWait = 0 THEN 1 ELSE 0
  BY <1>1, <1>4 DEF Closing
<1>6. readerWait = 0 /\ Reading = 0 /\ Leaving = 0 /\ Releasing = 0 /\ writerSem' = 0
  BY <1>1, <1>5, Numbers DEF Types
<1>7. Closing'
  BY <1>1, <1>2, <1>3, <1>4, <1>6 DEF Closing, Announcers
<1>. QED
  BY <1>7 DEF Mode

\* The CAS of TryLock closes an open lock without readers.
LEMMA TryLockCASKeepsMode ==
  ASSUME Types, HolderOK, Mode, NEW g \in Goroutines, TryLockCAS(g)
  PROVE  Mode'
<1>1. pc[g] = "try" /\ UNCHANGED <<readerWait, writerSem, saved>> /\ Total' = Total
  BY DEF TryLockCAS, Total
<1>2. CASE readerCount = 0 /\ readerCount' = -MaxReaders /\ Goto(g, "idle")
  <2>1. Open
    BY <1>2, Numbers DEF Mode, Shut, Closing
  <2>2. /\ Reading' = Reading /\ Waiting' = Waiting
        /\ \A h \in Goroutines : pc'[h] = IF h = g THEN "idle" ELSE pc[h]
    BY <1>1, <1>2, Moved, Numbers
  <2>3. \A h \in Goroutines : pc[h] # "reading" /\ pc[h] # "rwait"
    BY <1>2, <2>1, Numbers DEF Open
  <2>4. Waiting = 0
    BY <2>3, Numbers
  <2>5. Shut'
    BY <1>1, <1>2, <2>1, <2>2, <2>3, <2>4, Numbers DEF Shut, Open, Announcers
  <2>. QED
    BY <2>5 DEF Mode
<1>3. CASE Goto(g, "tried") /\ UNCHANGED readerCount
  BY <1>1, <1>3, ModeFrame DEF Quiet
<1>. QED
  BY <1>2, <1>3 DEF TryLockCAS

-----------------------------------------------------------------------------
(* The theorems. *)

\* Every step keeps the inductive invariant.
LEMMA StepKeeps == RWInv /\ [Next]_vars => RWInv'
<1> SUFFICES ASSUME RWInv, [Next]_vars PROVE Mode'
  BY TypesStep, HolderStep, SavedStep DEF RWInv
<1>0. Types /\ HolderOK /\ SavedOK /\ Mode
  BY DEF RWInv
<1>1. CASE UNCHANGED vars
  <2>1. /\ Reading' = Reading /\ Waiting' = Waiting /\ Leaving' = Leaving
        /\ Releasing' = Releasing /\ Total' = Total
    BY <1>1 DEF vars, Reading, Waiting, Leaving, Releasing, Total, At
  <2>. QED
    BY <1>0, <1>1, <2>1 DEF vars, Mode, Open, Shut, Closing
<1>2. CASE Next
  <2>. PICK g \in Goroutines : Call(g) \/ WGranted(g) \/ Step(g)
    BY <1>2 DEF Next
  <2>1. CASE TryRLockLoad(g)
    <3>. DEFINE label == IF readerCount < 0 THEN "idle" ELSE "tryr"
    <3>1. /\ Goto(g, label) /\ label \in Quiet /\ pc[g] \in Quiet
          /\ UNCHANGED <<readerCount, readerWait, writerSem>>
          /\ \A h \in Goroutines : pc[h] = "wadd" => saved'[h] = saved[h]
      BY <1>0, <2>1 DEF TryRLockLoad, Quiet, Save, Types
    <3>. HIDE DEF label
    <3>. QED
      BY <1>0, <3>1, ModeFrame
  <2>2. CASE LockW(g) \/ WGranted(g) \/ TryLockW(g)
    BY <1>0, <2>2, ModeFrame DEF LockW, WGranted, TryLockW, Quiet
  <2>. QED
    BY <1>0, <2>1, <2>2, RLockKeepsMode, TryRLockCASKeepsMode, RUnlockKeepsMode,
       RUnlockSlowKeepsMode, RUnlockReleaseKeepsMode, AnnounceKeepsMode, AddWaitKeepsMode,
       WriterWakesKeepsMode, TryLockCASKeepsMode DEF Call, Step
<1>. QED
  BY <1>1, <1>2

\* The inductive invariant.
THEOREM Invariance == Spec => []RWInv
<1>1. Init => RWInv
  <2> SUFFICES ASSUME Init PROVE RWInv
    OBVIOUS
  <2>1. Types
    BY DEF Init, Types, W!Init, W!Phases, Labels
  <2>2. HolderOK /\ SavedOK
    BY DEF Init, W!Init, HolderOK, SavedOK, HasW
  <2>3. Reading = 0
    BY Numbers DEF Init
  <2>4. Open
    BY <2>3 DEF Init, Open, Announcers
  <2>. QED
    BY <2>1, <2>2, <2>4 DEF RWInv, Mode
<1>. QED
  BY <1>1, StepKeeps, PTL DEF Spec

\* Every variable of the readers-writer mutex keeps its type, the two counters
\* between the announcements of two writers and the number of goroutines.
THEOREM TypeCorrect == Spec => []TypeOK
<1>1. RWInv => TypeOK
  <2> SUFFICES ASSUME RWInv PROVE TypeOK
    OBVIOUS
  <2>1. readerCount \in -2 * MaxReaders..Total
    BY Numbers DEF RWInv, Types, Mode, Open, Shut, Closing
  <2>2. \A g \in Goroutines : saved[g] \in -MaxReaders..Total
    <3> TAKE g \in Goroutines
    <3>1. CASE pc[g] # "wadd"
      BY <3>1, Numbers DEF RWInv, SavedOK, Types
    <3>2. CASE pc[g] = "wadd"
      <4>1. saved[g] \in -MaxReaders..-1 \/ saved[g] \in 1..Total
        BY <3>2 DEF RWInv, Mode, Open, Shut, Closing, Announcers
      <4>. QED
        BY <4>1, Numbers
    <3>. QED
      BY <3>1, <3>2
  <2>3. readerWait \in -MaxReaders..Total /\ writerSem \in 0..1
    <3>1. CASE Open
      BY <3>1, Numbers DEF Open
    <3>2. CASE Shut
      BY <3>2, Numbers DEF Shut, Announcers
    <3>3. CASE Closing
      <4>1. PICK g \in Goroutines : pc[g] \in Announcers
        BY <3>3 DEF Closing
      <4>2. CASE pc[g] = "wadd"
        <5>1. /\ saved[g] \in 1..Total /\ readerWait <= 0 /\ writerSem = 0
              /\ readerWait + saved[g] = Reading + Leaving
          BY <3>3, <4>2 DEF Closing
        <5>. QED
          BY <5>1, Numbers DEF RWInv, Types
      <4>3. CASE pc[g] = "wwait"
        <5>1. /\ readerWait = Reading + Leaving /\ writerSem >= 0
              /\ writerSem + Releasing = IF readerWait = 0 THEN 1 ELSE 0
          BY <3>3, <4>3 DEF Closing
        <5>. QED
          BY <5>1, Numbers DEF RWInv, Types
      <4>4. CASE pc[g] = "writing"
        BY <3>3, <4>4, Numbers DEF Closing
      <4>. QED
        BY <4>1, <4>2, <4>3, <4>4 DEF Announcers
    <3>. QED
      BY <3>1, <3>2, <3>3 DEF RWInv, Mode
  <2>. QED
    BY <2>1, <2>2, <2>3 DEF RWInv, Types, TypeOK, Total
<1>. QED
  BY <1>1, Invariance, PTL

\* A writer that Lock has let in is alone, whatever TryLock has done before.
THEOREM WriterExcludesHolds == Spec => []WriterExcludes
<1>1. RWInv => WriterExcludes
  <2> SUFFICES ASSUME RWInv, NEW g \in Goroutines, pc[g] = "writing",
                      NEW h \in Goroutines \ {g}
               PROVE  pc[h] \notin {"reading", "writing"}
    BY DEF WriterExcludes
  <2>1. pc[h] # "writing"
    BY DEF RWInv, HolderOK, HasW
  <2>2. Reading = 0
    BY DEF RWInv, Mode, Open, Shut, Closing, Announcers
  <2>. QED
    BY <2>1, <2>2, Numbers
<1>. QED
  BY <1>1, Invariance, PTL

\* A number below the modulus is what is left of it after any of the two
\* announcements that Lock and TryLock may have made.
LEMMA ModuloAnnouncements ==
  ASSUME NEW n \in Nat, NEW m \in Nat, n < m
  PROVE  n % m = n /\ (n + m) % m = n /\ (n + 2 * m) % m = n
  OBVIOUS

\* readerCount is the number of readers inside or waiting, less rwmutexMaxReader
\* for each announcement, and RUnlock's check spares a reader (line 70).
THEOREM ReadersCountedHolds == Spec => []ReadersCounted
<1>1. RWInv => ReadersCounted
  <2> SUFFICES ASSUME RWInv PROVE ReadersCounted
    OBVIOUS
  <2>. DEFINE inside == Reading + Waiting
  <2>1. inside \in Nat /\ inside < MaxReaders /\ MaxReaders \in Nat
    BY Numbers
  <2>2. \/ readerCount = inside
        \/ readerCount = inside - MaxReaders
        \/ readerCount = inside - 2 * MaxReaders
    BY Numbers DEF RWInv, Mode, Open, Shut, Closing
  <2>3. \/ readerCount + 2 * MaxReaders = inside + 2 * MaxReaders
        \/ readerCount + 2 * MaxReaders = inside + MaxReaders
        \/ readerCount + 2 * MaxReaders = inside
    BY <2>1, <2>2
  <2>4. (readerCount + 2 * MaxReaders) % MaxReaders = inside
    <3>. HIDE DEF inside
    <3>. QED
      BY <2>1, <2>3, ModuloAnnouncements
  <2>5. Reading > 0 => ~Unbalanced(readerCount)
    BY Numbers DEF RWInv, Mode, Open, Shut, Closing, Unbalanced
  <2>. QED
    BY <2>4, <2>5, Numbers DEF ReadersCounted, Reading
<1>. QED
  BY <1>1, Invariance, PTL

\* A writer waits for exactly the readers still inside, and the last of them has
\* its wake-up in hand (lines 74 and 84-86).
THEOREM WriterOwedHolds == Spec => []WriterOwed
<1>1. RWInv => WriterOwed
  <2> SUFFICES ASSUME RWInv, Announced, NEW g \in Goroutines
               PROVE  /\ pc[g] = "wadd" => readerWait + saved[g] = Reading + Leaving
                      /\ pc[g] = "wwait" =>
                           /\ readerWait = Reading + Leaving
                           /\ readerWait = 0 <=> writerSem + Releasing = 1
    BY Numbers DEF WriterOwed, Releasing
  <2>1. pc[g] \in Announcers => Closing
    BY Numbers DEF RWInv, Mode, Open, Shut, Announced
  <2>. QED
    BY <2>1, Numbers DEF Closing, Announcers
<1>. QED
  BY <1>1, Invariance, PTL
=============================================================================
