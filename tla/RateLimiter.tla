----------------------------- MODULE RateLimiter -----------------------------
(***************************************************************************)
(* rateLimiter.go: a window of time is cut into sub-windows that each      *)
(* count the permits granted in them.  A call that comes after the window  *)
(* has ended starts a goroutine that moves the beginning of the window and *)
(* forgets the sub-windows up to the caller's offset; calls wait on a      *)
(* condition variable while that goroutine is due.                         *)
(*                                                                         *)
(* Callers run their critical section in one step: the mutex is theirs     *)
(* from the first line of TryAcquire to the answer or to cond.Wait.  The   *)
(* cleaner holds it over several steps, and time passes between any two.   *)
(***************************************************************************)
EXTENDS Integers, FiniteSets

CONSTANTS
  Callers,
  WindowsSize,     \* windowsSize, in ticks of the clock
  SubWindows,      \* subWindowsSize
  Permits,         \* permitsPerWindows
  MaxElapsed       \* bound on the age of a window, for model checking

Dist == WindowsSize \div SubWindows     \* smallWindowsDistance

ASSUME RateAssumption ==
  /\ SubWindows \in Nat \ {0} /\ WindowsSize \in Nat /\ Dist \in Nat \ {0}
  /\ Permits \in Nat
  /\ MaxElapsed \in Nat /\ MaxElapsed > WindowsSize

VARIABLES
  elapsed,         \* the time now less limiter.timestamp
  windows,
  totalCount,
  clearFlag,
  pc,              \* of each caller: idle, ready for the mutex, or in cond.Wait
  cleaner,         \* the goroutine started by TryAcquire
  granted          \* history: the permits granted 0, 1, 2, ... ticks ago

vars == <<elapsed, windows, totalCount, clearFlag, pc, cleaner, granted>>

Index(diff) == diff \div Dist

Slots == 0..Index(WindowsSize)
Ages == 0..WindowsSize - 1

NoCleaner == [at |-> "none", diff |-> 0, invalid |-> 0, i |-> 0]

Init ==
  /\ elapsed = 0
  /\ windows = [k \in Slots |-> 0]
  /\ totalCount = 0
  /\ clearFlag = 0
  /\ pc = [c \in Callers |-> "idle"]
  /\ cleaner = NoCleaner
  /\ granted = [a \in Ages |-> 0]

-----------------------------------------------------------------------------
Goto(c, label) == pc' = [pc EXCEPT ![c] = label]

Call(c) ==
  /\ pc[c] = "idle"
  /\ Goto(c, "ready")
  /\ UNCHANGED <<elapsed, windows, totalCount, clearFlag, cleaner, granted>>

\* The caller obtains the mutex, which only the cleaner holds for long.
Enters(c) == pc[c] = "ready" /\ cleaner.at # "cleaning"

Wait(c) ==
  /\ Enters(c)
  /\ clearFlag # 0
  /\ Goto(c, "waiting")
  /\ UNCHANGED <<elapsed, windows, totalCount, clearFlag, cleaner, granted>>

\* Mutant: one permit too many.
HasPermitLeft == totalCount <= Permits

HasPermit == totalCount < Permits

Grant(c) ==
  /\ Enters(c)
  /\ clearFlag = 0
  /\ elapsed <= WindowsSize
  /\ HasPermit
  /\ totalCount' = totalCount + 1
  /\ windows' = [windows EXCEPT ![Index(elapsed)] = @ + 1]
  /\ granted' = [granted EXCEPT ![0] = @ + 1]
  /\ Goto(c, "idle")
  /\ UNCHANGED <<elapsed, clearFlag, cleaner>>

Refuse(c) ==
  /\ Enters(c)
  /\ clearFlag = 0
  /\ elapsed <= WindowsSize
  /\ ~HasPermit
  /\ Goto(c, "idle")
  /\ UNCHANGED <<elapsed, windows, totalCount, clearFlag, cleaner, granted>>

\* Mutant: the sub-window after the caller's offset is forgotten too.
InvalidUpToNext(diff) == (Index(diff) + 1) % SubWindows

InvalidUpTo(diff) == Index(diff) % SubWindows

\* The window is over: start the cleaner, give the mutex back and try again.
\* clearFlag only changes under the mutex, so that the CAS cannot fail.
Expire(c) ==
  /\ Enters(c)
  /\ clearFlag = 0
  /\ elapsed > WindowsSize
  /\ clearFlag' = 1
  /\ cleaner' = [at |-> "due", diff |-> elapsed, invalid |-> InvalidUpTo(elapsed), i |-> 0]
  /\ UNCHANGED <<elapsed, windows, totalCount, pc, granted>>

-----------------------------------------------------------------------------
(* The cleaner *)

CleanerLocks ==
  /\ cleaner.at = "due"
  /\ cleaner' = [cleaner EXCEPT !.at = "cleaning"]
  /\ elapsed' = elapsed - cleaner.diff
  /\ UNCHANGED <<windows, totalCount, clearFlag, pc, granted>>

\* Mutant: the sub-window keeps its count.
KeepCount(k) == windows

ResetCount(k) == [windows EXCEPT ![k] = 0]

CleanWindow ==
  /\ cleaner.at = "cleaning"
  /\ cleaner.i <= cleaner.invalid
  /\ totalCount' = totalCount - windows[cleaner.i]
  /\ windows' = ResetCount(cleaner.i)
  /\ cleaner' = [cleaner EXCEPT !.i = @ + 1]
  /\ UNCHANGED <<elapsed, clearFlag, pc, granted>>

\* Mutant: the waiters are not told.
NoBroadcast == pc

Broadcast == [c \in Callers |-> IF pc[c] = "waiting" THEN "ready" ELSE pc[c]]

CleanerDone ==
  /\ cleaner.at = "cleaning"
  /\ cleaner.i > cleaner.invalid
  /\ clearFlag' = 0
  /\ pc' = Broadcast
  /\ cleaner' = NoCleaner
  /\ UNCHANGED <<elapsed, windows, totalCount, granted>>

-----------------------------------------------------------------------------
\* The clock; MaxElapsed bounds it.
Tick ==
  /\ elapsed < MaxElapsed
  /\ elapsed' = elapsed + 1
  /\ granted' = [a \in Ages |-> IF a = 0 THEN 0 ELSE granted[a - 1]]
  /\ UNCHANGED <<windows, totalCount, clearFlag, pc, cleaner>>

Clean == CleanerLocks \/ CleanWindow \/ CleanerDone

Next ==
  \/ Tick
  \/ Clean
  \/ \E c \in Callers : Call(c) \/ Wait(c) \/ Grant(c) \/ Refuse(c) \/ Expire(c)

\* The cleaner's goroutine is scheduled; clients and the clock do as they like.
Spec == Init /\ [][Next]_vars /\ WF_vars(Clean)

-----------------------------------------------------------------------------
(* Properties *)

\* Every variable keeps its type: no count goes below zero.
TypeOK ==
  /\ elapsed \in Nat
  /\ windows \in [Slots -> Nat]
  /\ totalCount \in Nat
  /\ clearFlag \in {0, 1}
  /\ pc \in [Callers -> {"idle", "ready", "waiting"}]
  /\ cleaner \in [at : {"none", "due", "cleaning"}, diff : Nat,
                  invalid : 0..SubWindows - 1, i : 0..SubWindows]
  /\ granted \in [Ages -> Nat]

\* The check of rateLimiter_test.go:63, at every moment of a clean-up too.
WithinPermits == totalCount <= Permits

\* The permits that f counts at the indices S, one by one: their number is the sum.
PermitsOf(f, S) == UNION {{k} \X (1..f[k]) : k \in S}

\* The total is the sum of the sub-windows, although callers add to both and
\* the cleaner takes from both step by step.
CountsAgree == totalCount = Cardinality(PermitsOf(windows, Slots))

GrantedWithin(period) == Cardinality(PermitsOf(granted, period))

\* What the limiter does guarantee of the rate: at most permitsPerWindows in any
\* period one sub-window shorter than the window.
BoundedRate == GrantedWithin(0..(SubWindows - 1) * Dist) <= Permits

\* What WithWindowsSize promises: at most permitsPerWindows in any period of the
\* length of the window.
PromisedRate == GrantedWithin(Ages) <= Permits

\* A caller sleeps only while a cleaner is due that will wake it.
NobodyStranded == \A c \in Callers : pc[c] = "waiting" ~> pc[c] # "waiting"
=============================================================================
