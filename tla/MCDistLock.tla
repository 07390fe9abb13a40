----------------------------- MODULE MCDistLock -----------------------------
\* Two clients: one whose key expires or is lost, and one that takes the lock
\* meanwhile.
EXTENDS DistLock

\* Each client on a machine of its own, or all on one.
OwnMachines == [c \in Clients |-> c]
OneMachine == [c \in Clients |-> "m"]
=============================================================================
