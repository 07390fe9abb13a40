--------------------------- MODULE DistLockProofs ---------------------------
(***************************************************************************)
(* Proofs about DistLock: its types, for any machines, and, for clients    *)
(* whose nodeIDs differ, that only an expiry lets a second client in.      *)
(***************************************************************************)
EXTENDS DistLock, TLAPS

\* What line 24 says of nodeID.
UniqueNodeIDs == \A c, d \in Clients : nodeID[c] = nodeID[d] => c = d

\* A client that SETNX has let in, and whose key has not expired, has the key.
KeyIsOwn ==
  \A c \in Clients :
    pc[c] \in {"granted", "held", "unlock"} /\ c \notin expired => owner = c

\* A machine is the machine of some client.
LEMMA MachineOf == \A c \in Clients : nodeID[c] \in Machines
  BY DEF Machines

-----------------------------------------------------------------------------
(* Types *)

\* Caching a hash keeps the type of cacheHash (lines 200 and 246).
LEMMA CacheTyped ==
  ASSUME TypeOK, NEW c \in Clients, NEW script \in Scripts, Cache(c, script)
  PROVE  cacheHash' \in [Machines -> SUBSET Scripts]
  BY MachineOf DEF TypeOK, Cache

\* A deletion keeps the types of the key (lines 227-231).
LEMMA DeleteTyped ==
  ASSUME TypeOK, NEW c \in Clients, Delete(c)
  PROVE  /\ owner' \in Clients \cup {NoOne}
         /\ ttl' \in 0..Expires /\ (owner' = NoOne <=> ttl' = 0)
         /\ expired' \subseteq Clients
  BY LockAssumption DEF TypeOK, Delete

\* A renewal keeps the types of the key (lines 174-180).
LEMMA RenewedTyped ==
  ASSUME TypeOK, NEW c \in Clients, Renewed(c)
  PROVE  /\ owner' \in Clients \cup {NoOne}
         /\ ttl' \in 0..Expires /\ (owner' = NoOne <=> ttl' = 0)
         /\ expired' \subseteq Clients
  BY LockAssumption DEF TypeOK, Renewed, Mine, TtlRenewed

LEMMA InitTyped == Init => TypeOK
  BY LockAssumption DEF Init, TypeOK, Machines, Scripts

\* Each step of a client that takes or waits for the lock keeps the types.
LEMMA LockingTyped ==
  ASSUME TypeOK, NEW c \in Clients,
         (\E lock \in BOOLEAN : Call(c, lock)) \/ Acquire(c) \/ Enter(c)
           \/ Refused(c) \/ UnLock(c) \/ WakeUp(c)
  PROVE  TypeOK'
<1>. USE DEF TypeOK, Goto, Dog, server, scripts
<1>1. CASE \E lock \in BOOLEAN : Call(c, lock)
  BY <1>1 DEF Call
<1>2. CASE Acquire(c)
  BY <1>2, LockAssumption DEF Acquire, KeyExists
<1>3. CASE Enter(c)
  BY <1>3 DEF Enter
<1>4. CASE Refused(c)
  BY <1>4 DEF Refused
<1>5. CASE UnLock(c)
  BY <1>5 DEF UnLock
<1>6. CASE WakeUp(c)
  BY <1>6 DEF WakeUp
<1>. QED
  BY <1>1, <1>2, <1>3, <1>4, <1>5, <1>6

\* Each step of a watchdog, or of a client that gives the lock back, keeps the types.
LEMMA RunningTyped ==
  ASSUME TypeOK, NEW c \in Clients, Running(c)
  PROVE  TypeOK'
<1>. USE DEF Goto, Dog, server, scripts
<1>1. CASE RenewEval(c)
  <2>1. /\ owner' \in Clients \cup {NoOne}
        /\ ttl' \in 0..Expires /\ (owner' = NoOne <=> ttl' = 0)
        /\ expired' \subseteq Clients
    BY <1>1, RenewedTyped DEF RenewEval, TypeOK
  <2>2. cacheHash' \in [Machines -> SUBSET Scripts]
    BY <1>1, CacheTyped DEF RenewEval, TypeOK, Scripts
  <2>3. loaded' \subseteq Scripts
    BY <1>1 DEF RenewEval, TypeOK, Scripts
  <2>. QED
    BY <1>1, <2>1, <2>2, <2>3 DEF RenewEval, AfterFailure, TypeOK
<1>2. CASE RenewEvalSha(c)
  <2>1. /\ owner' \in Clients \cup {NoOne}
        /\ ttl' \in 0..Expires /\ (owner' = NoOne <=> ttl' = 0)
        /\ expired' \subseteq Clients
    BY <1>2, RenewedTyped DEF RenewEvalSha, TypeOK
  <2>. QED
    BY <1>2, <2>1 DEF RenewEvalSha, AfterFailure, TypeOK
<1>3. CASE StopWatchdog(c)
  BY <1>3 DEF StopWatchdog, AfterDone, TypeOK
<1>4. CASE ReleaseEval(c)
  <2>1. /\ owner' \in Clients \cup {NoOne}
        /\ ttl' \in 0..Expires /\ (owner' = NoOne <=> ttl' = 0)
        /\ expired' \subseteq Clients
    BY <1>4, DeleteTyped DEF ReleaseEval, TypeOK
  <2>2. cacheHash' \in [Machines -> SUBSET Scripts] /\ loaded' \subseteq Scripts
    BY <1>4, CacheTyped DEF ReleaseEval, TypeOK, Scripts
  <2>. QED
    BY <1>4, <2>1, <2>2 DEF ReleaseEval, TypeOK
<1>5. CASE ReleaseEvalSha(c)
  <2>1. /\ owner' \in Clients \cup {NoOne}
        /\ ttl' \in 0..Expires /\ (owner' = NoOne <=> ttl' = 0)
        /\ expired' \subseteq Clients
    BY <1>5, DeleteTyped DEF ReleaseEvalSha, TypeOK
  <2>. QED
    BY <1>5, <2>1 DEF ReleaseEvalSha, TypeOK
<1>. QED
  BY <1>1, <1>2, <1>3, <1>4, <1>5 DEF Running

LEMMA TypeStep == TypeOK /\ [Next]_vars => TypeOK'
<1> SUFFICES ASSUME TypeOK, [Next]_vars PROVE TypeOK'
  OBVIOUS
<1>1. CASE Tick
  BY <1>1, LockAssumption DEF Tick, TypeOK, scripts
<1>2. CASE \E m \in Machines : Crash(m)
  BY <1>2 DEF Crash, TypeOK, server
<1>3. CASE \E c \in Clients :
             \/ \E lock \in BOOLEAN : Call(c, lock)
             \/ Acquire(c) \/ Enter(c) \/ Refused(c) \/ UnLock(c)
             \/ WakeUp(c) \/ Running(c)
  BY <1>3, LockingTyped, RunningTyped
<1>4. CASE UNCHANGED vars
  BY <1>4 DEF TypeOK, vars
<1>. QED
  BY <1>1, <1>2, <1>3, <1>4 DEF Next

\* The types of the key, the scripts, the clients and their watchdogs
\* (go-lock.go, the whole of it), whatever the machines of the clients.
THEOREM TypeCorrect == Spec => []TypeOK
  BY InitTyped, TypeStep, PTL DEF Spec

-----------------------------------------------------------------------------
(* Exclusion *)

IInv == TypeOK /\ KeyIsOwn

\* With unique nodeIDs a script only touches the key that its client created.
LEMMA MineIsOwner ==
  ASSUME UniqueNodeIDs, TypeOK, NEW c \in Clients, Mine(c)
  PROVE  owner = c
  BY DEF UniqueNodeIDs, TypeOK, Mine

\* A deletion takes the key from nobody but its client, which is past the lock
\* (lines 227-231).
LEMMA DeleteKeeps ==
  ASSUME UniqueNodeIDs, IInv, NEW c \in Clients, Delete(c),
         pc[c] \in {"eval", "evalsha"},
         NEW label \in {"evalsha", "idle"}, Goto(c, label)
  PROVE  KeyIsOwn'
<1> SUFFICES ASSUME NEW d \in Clients, d \notin expired',
                    pc'[d] \in {"granted", "held", "unlock"}
             PROVE  owner' = d
  BY DEF KeyIsOwn
<1>1. pc'[c] = label /\ d # c /\ pc'[d] = pc[d]
  BY DEF Goto, IInv, TypeOK
<1>2. owner = d
  BY <1>1 DEF IInv, KeyIsOwn, Delete
<1>. QED
  BY <1>1, <1>2, MineIsOwner DEF Delete, IInv

\* A step that leaves the owner and the expired alone, and lets nobody further into
\* the lock, keeps the invariant.
LEMMA OthersKeep ==
  ASSUME KeyIsOwn, UNCHANGED <<owner, expired>>,
         \A d \in Clients : pc'[d] \in {"granted", "held", "unlock"}
                              => pc[d] \in {"granted", "held", "unlock"}
  PROVE  KeyIsOwn'
  BY DEF KeyIsOwn

\* The key is only created where there is none, and only an expiry or its own
\* client takes it from the client that created it.
LEMMA KeyStep == UniqueNodeIDs /\ IInv /\ [Next]_vars => KeyIsOwn'
<1> SUFFICES ASSUME UniqueNodeIDs, IInv, [Next]_vars PROVE KeyIsOwn'
  OBVIOUS
<1>. USE DEF IInv, TypeOK, Goto, Dog, server, scripts
<1>1. CASE Tick
  BY <1>1 DEF Tick, KeyIsOwn
<1>2. CASE \E m \in Machines : Crash(m)
  BY <1>2 DEF Crash, KeyIsOwn
<1>3. CASE \E c \in Clients :
             \/ \E lock \in BOOLEAN : Call(c, lock)
             \/ Acquire(c) \/ Enter(c) \/ Refused(c) \/ UnLock(c)
             \/ WakeUp(c) \/ Running(c)
  <2>. PICK c \in Clients :
             \/ \E lock \in BOOLEAN : Call(c, lock)
             \/ Acquire(c) \/ Enter(c) \/ Refused(c) \/ UnLock(c)
             \/ WakeUp(c) \/ Running(c)
    BY <1>3
  <2>1. CASE \E lock \in BOOLEAN : Call(c, lock)
    BY <2>1 DEF Call, KeyIsOwn
  <2>2. CASE Acquire(c)
    <3>1. \A d \in Clients : pc[d] \in {"granted", "held", "unlock"} => d \in expired
      BY <2>2, LockAssumption DEF Acquire, KeyExists, KeyIsOwn
    <3>. QED
      BY <2>2, <3>1 DEF Acquire, KeyIsOwn
  <2>3. CASE Enter(c)
    BY <2>3 DEF Enter, KeyIsOwn
  <2>4. CASE Refused(c)
    BY <2>4 DEF Refused, KeyIsOwn
  <2>5. CASE UnLock(c)
    BY <2>5 DEF UnLock, KeyIsOwn
  <2>6. CASE WakeUp(c)
    BY <2>6 DEF WakeUp, KeyIsOwn
  <2>7. CASE RenewEval(c) \/ RenewEvalSha(c)
    <3>1. UNCHANGED <<owner, expired, pc>>
      BY <2>7 DEF RenewEval, RenewEvalSha, Renewed
    <3>. QED
      BY <3>1 DEF KeyIsOwn
  <2>8. CASE StopWatchdog(c)
    BY <2>8 DEF StopWatchdog, KeyIsOwn
  <2>9. CASE ReleaseEval(c)
    <3>1. CASE Delete(c)
      BY <2>9, <3>1, DeleteKeeps DEF ReleaseEval
    <3>2. CASE UNCHANGED server
      BY <2>9, <3>2, OthersKeep DEF ReleaseEval
    <3>. QED
      BY <2>9, <3>1, <3>2 DEF ReleaseEval
  <2>10. CASE ReleaseEvalSha(c)
    <3>1. CASE Delete(c)
      BY <2>10, <3>1, DeleteKeeps DEF ReleaseEvalSha
    <3>2. CASE UNCHANGED server
      BY <2>10, <3>2, OthersKeep DEF ReleaseEvalSha
    <3>. QED
      BY <2>10, <3>1, <3>2 DEF ReleaseEvalSha
  <2>. QED
    BY <2>1, <2>2, <2>3, <2>4, <2>5, <2>6, <2>7, <2>8, <2>9, <2>10 DEF Running
<1>4. CASE UNCHANGED vars
  BY <1>4 DEF vars, KeyIsOwn
<1>. QED
  BY <1>1, <1>2, <1>3, <1>4 DEF Next

\* A client that is in the lock and whose key has not expired since it created it
\* is the one whose key is at the server (go-lock.go:169 and 228).
THEOREM HolderOwnsKey ==
  ASSUME UniqueNodeIDs
  PROVE  Spec => []KeyIsOwn
<1>1. Init => IInv
  BY InitTyped DEF Init, IInv, KeyIsOwn
<1>2. IInv /\ [Next]_vars => IInv'
  BY UniqueNodeIDs, TypeStep, KeyStep DEF IInv
<1>3. IInv => KeyIsOwn
  BY DEF IInv
<1>. QED
  BY <1>1, <1>2, <1>3, PTL DEF Spec

\* Two clients in the lock would both own the key: the mutual exclusion that Lock
\* and TryLock are for, as long as renewals arrive (go-lock.go:123 and 158).
THEOREM ExclusionHolds ==
  ASSUME UniqueNodeIDs
  PROVE  Spec => []Exclusion
<1>1. KeyIsOwn => Exclusion
  BY DEF KeyIsOwn, Exclusion
<1>. QED
  BY <1>1, HolderOwnsKey, PTL
=============================================================================
