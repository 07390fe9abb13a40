----------------------------- MODULE MCNetConn -----------------------------
\* A kernel buffer that does not hold a whole flush, and calls that ask for more
\* than one byte; a connection that is read, and one that is written, with bytes for
\* a second flush that waits after the poller has ended the first.
EXTENDS NetConn

MCUses == {[read |-> 2, write |-> 0, timeouts |-> TRUE],
           [read |-> 0, write |-> 3, timeouts |-> TRUE]}
=============================================================================
