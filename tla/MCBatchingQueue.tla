-------------------------- MODULE MCBatchingQueue --------------------------
\* Four concurrent Enqueue calls: two full batches of two, or one and a rest.
EXTENDS BatchingQueue
============================================================================
