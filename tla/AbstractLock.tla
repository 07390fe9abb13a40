---------------------------- MODULE AbstractLock ----------------------------
(***************************************************************************)
(* What a mutual-exclusion lock promises its callers, whatever the         *)
(* implementation: a goroutine is idle, asking for the lock, or holding    *)
(* it; the lock goes to a goroutine only while nobody holds it.  SyncMutex *)
(* implements this specification and SyncRWMutex is written on top of it.  *)
(***************************************************************************)

CONSTANT Goroutines

VARIABLE phase

Phases == {"idle", "waiting", "holding"}

Free == \A g \in Goroutines : phase[g] # "holding"

Init == phase = [g \in Goroutines |-> "idle"]

\* A call of Lock or TryLock that has not been decided yet.
Request(g) ==
  /\ phase[g] = "idle"
  /\ phase' = [phase EXCEPT ![g] = "waiting"]

\* A TryLock that answers false.
GiveUp(g) ==
  /\ phase[g] = "waiting"
  /\ phase' = [phase EXCEPT ![g] = "idle"]

\* An idle goroutine may acquire in one step: the uncontended path.
Acquire(g) ==
  /\ phase[g] \in {"idle", "waiting"}
  /\ Free
  /\ phase' = [phase EXCEPT ![g] = "holding"]

Release(g) ==
  /\ phase[g] = "holding"
  /\ phase' = [phase EXCEPT ![g] = "idle"]

Next == \E g \in Goroutines : Request(g) \/ GiveUp(g) \/ Acquire(g) \/ Release(g)

\* A lock that stays free while goroutines wait for it is taken by one of them.
Progress == WF_phase(\E g \in Goroutines : phase[g] = "waiting" /\ Acquire(g))

SafeSpec == Init /\ [][Next]_phase
Spec == SafeSpec /\ Progress
=============================================================================
