--------------------------- MODULE MCSyncRWMutex ---------------------------
\* Four goroutines: two readers that leave around one writer, and a latecomer
\* or a second writer.
EXTENDS SyncRWMutex
=============================================================================
