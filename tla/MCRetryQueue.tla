---------------------------- MODULE MCRetryQueue ----------------------------
\* Three tasks of two priorities for two workers: the heap gets a third element
\* whose parent is the root, and tasks of one priority meet.  A duration has six
\* bits, so that the back-off wraps after four idle rounds.
EXTENDS RetryQueue

CONSTANTS t1, t2, t3

MCPriority == [t \in Tasks |-> IF t = t3 THEN 2 ELSE 1]
=============================================================================
