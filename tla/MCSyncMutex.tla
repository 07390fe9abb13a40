---------------------------- MODULE MCSyncMutex ----------------------------
\* Three goroutines that lock, try and unlock for ever: two contenders are
\* enough for every race on the word, a third for a queue that has an order.
EXTENDS SyncMutex
=============================================================================
