------------------------------ MODULE DistLock ------------------------------
(***************************************************************************)
(* go-lock.go: a lock that is a Redis key with an expiry.  Whoever creates *)
(* the key holds the lock; a goroutine, the watchdog, renews the key until *)
(* UnLock stops it and deletes the key.  The value of the key is the       *)
(* address of the machine, and renewal and deletion compare it.            *)
(*                                                                         *)
(* A command takes effect at the server in one step, while the client      *)
(* waits; or it is lost.  The answers of SETNX and of the renewal may be   *)
(* lost too; those of the release are not looked at.  A client is a Mutex  *)
(* object of its own; clients of one machine share a process.              *)
(***************************************************************************)
EXTENDS Integers

CONSTANTS
  Clients,
  nodeID,        \* of each client: its machine
  Expires,       \* expiresTime, in ticks of the clock
  NoOne

ASSUME LockAssumption ==
  /\ NoOne \notin Clients
  /\ nodeID \in [Clients -> {nodeID[c] : c \in Clients}]
  /\ Expires \in Nat \ {0}

Machines == {nodeID[c] : c \in Clients}
Scripts == {"delay", "release"}

VARIABLES
  owner,         \* the client whose SETNX created the key; nodeID[owner] is its value
  ttl,           \* ticks until the key expires
  loaded,        \* the scripts that the server has
  cacheHash,     \* per process: the scripts whose hash is cached
  pc,            \* where each client is
  loops,         \* whether it is in the loop of Lock
  watchdog,      \* its goroutine
  expired        \* history: clients whose key expired since they created it

vars == <<owner, ttl, loaded, cacheHash, pc, loops, watchdog, expired>>
server == <<owner, ttl, expired>>
scripts == <<loaded, cacheHash>>

Init ==
  /\ owner = NoOne /\ ttl = 0
  /\ loaded = {}
  /\ cacheHash = [m \in Machines |-> {}]
  /\ pc = [c \in Clients |-> "idle"]
  /\ loops = [c \in Clients |-> FALSE]
  /\ watchdog = [c \in Clients |-> "off"]
  /\ expired = {}

Goto(c, label) == pc' = [pc EXCEPT ![c] = label]
Dog(c, label) == watchdog' = [watchdog EXCEPT ![c] = label]

-----------------------------------------------------------------------------
(* Lock and TryLock *)

Call(c, lock) ==
  /\ pc[c] = "idle"
  /\ Goto(c, "acquire")
  /\ loops' = [loops EXCEPT ![c] = lock]
  /\ UNCHANGED <<server, scripts, watchdog>>

\* Mutant: SET in the place of SETNX.
KeyTaken == FALSE

KeyExists == owner # NoOne

\* SETNX creates the key.
Acquire(c) ==
  /\ pc[c] = "acquire"
  /\ ~KeyExists
  /\ owner' = c
  /\ ttl' = Expires
  /\ expired' = expired \ {c}
  /\ Goto(c, "granted")
  /\ UNCHANGED <<scripts, loops, watchdog>>

\* The answer arrives: Lock starts the watchdog.
Enter(c) ==
  /\ pc[c] = "granted"
  /\ Goto(c, "held")
  /\ Dog(c, IF loops[c] THEN "select" ELSE "off")
  /\ loops' = [loops EXCEPT ![c] = FALSE]
  /\ UNCHANGED <<server, scripts>>

\* The answer is lost, or SETNX found the key or failed.  Lock pauses and tries
\* again, with a pause that shrinks; TryLock gives up.
Refused(c) ==
  /\ \/ pc[c] = "granted"
     \/ pc[c] = "acquire" /\ ~loops[c]
  /\ Goto(c, IF loops[c] THEN "acquire" ELSE "idle")
  /\ UNCHANGED <<server, scripts, loops, watchdog>>

-----------------------------------------------------------------------------
(* The watchdog *)

\* No UnLock is waiting at delayDone, and the pause is over.
WakeUp(c) ==
  /\ watchdog[c] = "select"
  /\ pc[c] # "unlock"
  /\ Dog(c, "renew")
  /\ UNCHANGED <<server, scripts, pc, loops>>

\* Mutant: the watchdog ends when a renewal fails.
AfterFailureEnd == "off"

AfterFailure == "select"

\* Mutant: the expiry is added to what is left.
TtlAdded == ttl + Expires

TtlRenewed == Expires

\* The key's value is compared with the client's.
Mine(c) == owner # NoOne /\ nodeID[owner] = nodeID[c]

\* What a renewal does at the server.
Renewed(c) ==
  /\ ttl' = IF Mine(c) THEN TtlRenewed ELSE ttl
  /\ UNCHANGED <<owner, expired>>

Cache(c, script) ==
  cacheHash' = [cacheHash EXCEPT ![nodeID[c]] = @ \cup {script}]

\* The first renewal of a process sends the script; an answer that the key is
\* renewed is followed by a second command, with the hash.
RenewEval(c) ==
  /\ watchdog[c] = "renew"
  /\ "delay" \notin cacheHash[nodeID[c]]
  /\ \/ /\ Mine(c)
        /\ Renewed(c)
        /\ loaded' = loaded \cup {"delay"}
        /\ Cache(c, "delay")
        /\ UNCHANGED watchdog
     \/ /\ \/ Renewed(c) /\ loaded' = loaded \cup {"delay"}
           \/ UNCHANGED <<server, loaded>>
        /\ Dog(c, AfterFailure)
        /\ UNCHANGED cacheHash
  /\ UNCHANGED <<pc, loops>>

RenewEvalSha(c) ==
  /\ watchdog[c] = "renew"
  /\ "delay" \in cacheHash[nodeID[c]]
  /\ \/ /\ "delay" \in loaded
        /\ Renewed(c)
        /\ Dog(c, "select")
     \/ /\ UNCHANGED server
        /\ Dog(c, AfterFailure)
  /\ UNCHANGED <<scripts, pc, loops>>

-----------------------------------------------------------------------------
(* UnLock *)

UnLock(c) ==
  /\ pc[c] = "held"
  /\ Goto(c, "unlock")
  /\ UNCHANGED <<server, scripts, loops, watchdog>>

\* Mutant: the watchdog takes the message and goes on.
AfterDoneGoOn == "select"

AfterDone == "off"

\* The watchdog receives from delayDone.  Without a watchdog, after TryLock, the
\* client stays here.
StopWatchdog(c) ==
  /\ pc[c] = "unlock"
  /\ watchdog[c] = "select"
  /\ Dog(c, AfterDone)
  /\ Goto(c, IF "release" \in cacheHash[nodeID[c]] THEN "evalsha" ELSE "eval")
  /\ UNCHANGED <<server, scripts, loops>>

Delete(c) ==
  /\ owner' = IF Mine(c) THEN NoOne ELSE owner
  /\ ttl' = IF Mine(c) THEN 0 ELSE ttl
  /\ UNCHANGED expired

\* The first release of a process sends the script, and then its hash as well:
\* the hash is cached whether or not the script arrived.
ReleaseEval(c) ==
  /\ pc[c] = "eval"
  /\ \/ Delete(c) /\ loaded' = loaded \cup {"release"}
     \/ UNCHANGED <<server, loaded>>
  /\ Cache(c, "release")
  /\ Goto(c, "evalsha")
  /\ UNCHANGED <<loops, watchdog>>

ReleaseEvalSha(c) ==
  /\ pc[c] = "evalsha"
  /\ \/ "release" \in loaded /\ Delete(c)
     \/ UNCHANGED server
  /\ Goto(c, "idle")
  /\ UNCHANGED <<scripts, loops, watchdog>>

-----------------------------------------------------------------------------
(* The server's clock, and the end of a process, which is then started again *)

Tick ==
  /\ owner # NoOne
  /\ ttl' = ttl - 1
  /\ IF ttl = 1
       THEN owner' = NoOne /\ expired' = expired \cup {owner}
       ELSE UNCHANGED <<owner, expired>>
  /\ UNCHANGED <<scripts, pc, loops, watchdog>>

Crash(m) ==
  /\ pc' = [c \in Clients |-> IF nodeID[c] = m THEN "idle" ELSE pc[c]]
  /\ watchdog' = [c \in Clients |-> IF nodeID[c] = m THEN "off" ELSE watchdog[c]]
  /\ cacheHash' = [cacheHash EXCEPT ![m] = {}]
  /\ loops' = [c \in Clients |-> loops[c] /\ nodeID[c] # m]
  /\ UNCHANGED <<server, loaded>>

-----------------------------------------------------------------------------
Running(c) ==
  \/ RenewEval(c) \/ RenewEvalSha(c) \/ StopWatchdog(c)
  \/ ReleaseEval(c) \/ ReleaseEvalSha(c)

Next ==
  \/ Tick
  \/ \E m \in Machines : Crash(m)
  \/ \E c \in Clients :
       \/ \E lock \in BOOLEAN : Call(c, lock)
       \/ Acquire(c) \/ Enter(c) \/ Refused(c) \/ UnLock(c)
       \/ WakeUp(c) \/ Running(c)

\* Time passes at the server; every command ends, with its answer or with
\* cancelTime, and its goroutine goes on.
Fairness == WF_vars(Tick) /\ \A c \in Clients : WF_vars(Running(c))

Spec == Init /\ [][Next]_vars /\ Fairness

-----------------------------------------------------------------------------
(* Properties *)

\* Every variable keeps its type; the key's time to live never exceeds expiresTime,
\* and only clients that hold the lock or are giving it back have a watchdog.
TypeOK ==
  /\ owner \in Clients \cup {NoOne}
  /\ ttl \in 0..Expires /\ (owner = NoOne <=> ttl = 0)
  /\ loaded \subseteq Scripts
  /\ cacheHash \in [Machines -> SUBSET Scripts]
  /\ pc \in [Clients -> {"idle", "acquire", "granted", "held", "unlock", "eval", "evalsha"}]
  /\ loops \in [Clients -> BOOLEAN]
  /\ watchdog \in [Clients -> {"off", "select", "renew"}]
  /\ expired \subseteq Clients
  /\ \A c \in Clients : watchdog[c] # "off" => pc[c] \in {"held", "unlock"}

\* Two clients only ever hold the lock at the same time when the key of one of them
\* has expired: as long as renewals arrive, neither a release nor a renewal of
\* another client, a lost answer or a crash lets a second one in.  It takes what line
\* 24 says of nodeID, that it is unique.
Exclusion ==
  \A c, d \in Clients :
    pc[c] = "held" /\ pc[d] = "held" /\ c # d => c \in expired \/ d \in expired

\* The key of a client that has left, or has crashed, or never learnt that it had
\* the lock, does not stay ("if the release failed", line 239).
KeyFreed ==
  \A c \in Clients :
    owner = c /\ pc[c] \in {"idle", "acquire"} ~> owner # c

\* UnLock returns, whatever becomes of its commands and those of the watchdog, for
\* a client that has a watchdog.
UnLockReturns ==
  \A c \in Clients :
    pc[c] = "unlock" /\ watchdog[c] # "off" ~> pc[c] = "idle"
=============================================================================
