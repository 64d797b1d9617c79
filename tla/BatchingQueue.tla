--------------------------- MODULE BatchingQueue ---------------------------
(***************************************************************************)
(* util.BatchingQueue between message.Cache.AddMessage and the goroutine   *)
(* message.Cache.processMessageBatches that writes the batches.            *)
(*                                                                         *)
(* Every element is enqueued by a goroutine of its own (a request handler), *)
(* so Enqueue calls overlap in every possible way.  A step is one critical *)
(* section of q.mu, one rendezvous on the unbuffered channel q.out, or one *)
(* database transaction.  Between leaving q.mu and the rendezvous a caller *)
(* or the ticker holds its batch in a local variable (held).               *)
(***************************************************************************)
EXTENDS Naturals, Sequences, Functions

CONSTANTS
    Elements,           \* the messages, one Enqueue call each
    BatchSize,          \* q.batchSize (cache-batch-size); 0 = no size limit
    HasTimeout          \* q.timeout # 0 (cache-batch-timeout)

Ticker == "timeoutTicker"
Senders == Elements \union {Ticker}

\* newCache creates a queue only if one of the two settings is positive.
QueueConfigured == BatchSize > 0 \/ HasTimeout

ASSUME ConfigAssumption ==
    /\ BatchSize \in Nat
    /\ HasTimeout \in BOOLEAN
    /\ QueueConfigured
ASSUME TickerAssumption == Ticker \notin Elements

VARIABLES
    pc,                 \* per Enqueue call: not yet called, blocked on out, returned, killed
    in,                 \* q.in
    held,               \* per sender: the batch taken from q.in, not yet received
    writing,            \* the batch processMessageBatches is writing
    stored,             \* rows of the messages table, by autoincrement id
    lost,               \* history: messages dropped by a failed write or a crash
    order               \* history: the order in which calls passed q.mu

vars == <<pc, in, held, writing, stored, lost, order>>

PCs == {"new", "sending", "returned", "killed"}

NoneHeld == [s \in Senders |-> <<>>]

Init ==
    /\ pc = [e \in Elements |-> "new"]
    /\ in = <<>>
    /\ held = NoneHeld
    /\ writing = <<>>
    /\ stored = <<>>
    /\ lost = {}
    /\ order = <<>>

-----------------------------------------------------------------------------

\* dequeueAll without the truncation of q.in.
dequeueAllKeepsIn(s, elements) ==
    /\ held' = [held EXCEPT ![s] = elements]
    /\ in' = elements

\* dequeueAll: the caller's copy of q.in, which is emptied.
dequeueAll(s, elements) ==
    /\ held' = [held EXCEPT ![s] = elements]
    /\ in' = <<>>

\* Enqueue pushing to the front of q.in.
EnqueueFront(e) ==
    /\ pc[e] = "new"
    /\ order' = Append(order, e)
    /\ \/ /\ Len(in) + 1 = BatchSize
          /\ dequeueAll(e, <<e>> \o in)
          /\ pc' = [pc EXCEPT ![e] = "sending"]
       \/ /\ Len(in) + 1 # BatchSize
          /\ in' = <<e>> \o in
          /\ pc' = [pc EXCEPT ![e] = "returned"]
          /\ UNCHANGED held
    /\ UNCHANGED <<writing, stored, lost>>

\* Enqueue testing the size before the append.
EnqueueLate(e) ==
    /\ pc[e] = "new"
    /\ order' = Append(order, e)
    /\ \/ /\ Len(in) = BatchSize
          /\ dequeueAll(e, Append(in, e))
          /\ pc' = [pc EXCEPT ![e] = "sending"]
       \/ /\ Len(in) # BatchSize
          /\ in' = Append(in, e)
          /\ pc' = [pc EXCEPT ![e] = "returned"]
          /\ UNCHANGED held
    /\ UNCHANGED <<writing, stored, lost>>

\* Enqueue, up to q.mu.Unlock: append, and take the batch if it is full.
Enqueue(e) ==
    /\ pc[e] = "new"
    /\ order' = Append(order, e)
    /\ \/ /\ Len(in) + 1 = BatchSize
          /\ dequeueAll(e, Append(in, e))
          /\ pc' = [pc EXCEPT ![e] = "sending"]
       \/ /\ Len(in) + 1 # BatchSize
          /\ in' = Append(in, e)
          /\ pc' = [pc EXCEPT ![e] = "returned"]
          /\ UNCHANGED held
    /\ UNCHANGED <<writing, stored, lost>>

\* A ticker that waits for a full batch.
TickWhenFull ==
    /\ HasTimeout
    /\ held[Ticker] = <<>>
    /\ Len(in) = BatchSize
    /\ dequeueAll(Ticker, in)
    /\ UNCHANGED <<pc, writing, stored, lost, order>>

\* timeoutTicker: one tick; it does nothing while a send of its own is blocked.
Tick ==
    /\ HasTimeout
    /\ held[Ticker] = <<>>
    /\ in # <<>>
    /\ dequeueAll(Ticker, in)
    /\ UNCHANGED <<pc, writing, stored, lost, order>>

\* q.out <- elements meets the range over q.Dequeue(); an Enqueue then returns.
Receive(s) ==
    /\ held[s] # <<>>
    /\ writing = <<>>
    /\ writing' = held[s]
    /\ held' = [held EXCEPT ![s] = <<>>]
    /\ pc' = IF s \in Elements THEN [pc EXCEPT ![s] = "returned"] ELSE pc
    /\ UNCHANGED <<in, stored, lost, order>>

\* addMessages that reports success and leaves the batch in place.
addMessagesTwice ==
    /\ writing # <<>>
    /\ stored' = stored \o writing
    /\ UNCHANGED <<pc, in, held, writing, lost, order>>

\* addMessages commits the transaction: rows in batch order.
addMessages ==
    /\ writing # <<>>
    /\ stored' = stored \o writing
    /\ writing' = <<>>
    /\ UNCHANGED <<pc, in, held, lost, order>>

\* addMessages fails: the transaction rolls back, the error is only logged.
addMessagesFails ==
    /\ writing # <<>>
    /\ lost' = lost \union Range(writing)
    /\ writing' = <<>>
    /\ UNCHANGED <<pc, in, held, stored, order>>

\* What lives in the memory of the process.
InMemory == {e \in Elements :
    \/ e \in Range(in)
    \/ e \in Range(writing)
    \/ \E s \in Senders : e \in Range(held[s])}

\* The process ends (Stop does not drain the queue) and is started again.
Crash ==
    /\ pc' = [e \in Elements |-> IF pc[e] = "sending" THEN "killed" ELSE pc[e]]
    /\ in' = <<>>
    /\ held' = NoneHeld
    /\ writing' = <<>>
    /\ lost' = lost \union InMemory
    /\ UNCHANGED <<stored, order>>

Next ==
    \/ \E e \in Elements : Enqueue(e)
    \/ Tick
    \/ \E s \in Senders : Receive(s)
    \/ addMessages
    \/ addMessagesFails
    \/ Crash

(***************************************************************************)
(* The ticker keeps ticking and the consumer keeps consuming.  A goroutine *)
(* blocked on a channel send is queued first come, first served by the Go  *)
(* runtime, so no sender is passed over for ever.                          *)
(***************************************************************************)
Fairness ==
    /\ WF_vars(Tick)
    /\ WF_vars(addMessages)
    /\ \A s \in Senders : SF_vars(Receive(s))

Spec == Init /\ [][Next]_vars
FairSpec == Spec /\ Fairness

-----------------------------------------------------------------------------
\* Properties.

TypeOK ==
    /\ pc \in [Elements -> PCs]
    /\ in \in Seq(Elements)
    /\ held \in [Senders -> Seq(Elements)]
    /\ writing \in Seq(Elements)
    /\ stored \in Seq(Elements)
    /\ lost \in SUBSET Elements
    /\ order \in Seq(Elements)

Accepted == {e \in Elements : pc[e] # "new"}

Held(s) == Range(held[s])

\* Every place an accepted message can be in.
Covered == InMemory \union Range(stored) \union lost

\* No message is in two places.
Disjoint == \A e \in Elements :
    /\ \A s \in Senders : e \in Held(s) =>
           e \notin Range(in) \union Range(writing) \union Range(stored) \union lost
    /\ \A s, t \in Senders : e \in Held(s) /\ e \in Held(t) => s = t
    /\ e \in Range(in) => e \notin Range(writing) \union Range(stored) \union lost
    /\ e \in Range(writing) => e \notin Range(stored) \union lost
    /\ e \in Range(stored) => e \notin lost

\* No message is twice in the same place.
NoDuplicates ==
    /\ IsInjective(in)
    /\ IsInjective(writing)
    /\ IsInjective(stored)
    /\ \A s \in Senders : IsInjective(held[s])

(***************************************************************************)
(* Exactly once: whatever callers, ticker and consumer do, a message that  *)
(* passed Enqueue's critical section is in exactly one place, once: in the *)
(* queue, in one batch in flight, in the table, or lost with a failed      *)
(* write or the process.  Nothing else is in any of these places.          *)
(***************************************************************************)
ExactlyOnce == Covered = Accepted /\ Disjoint /\ NoDuplicates

(***************************************************************************)
(* q.in never reaches the batch size outside q.mu: the equality test in    *)
(* Enqueue cannot be stepped over, so a full batch is always emitted.      *)
(***************************************************************************)
NeverFull == BatchSize > 0 => Len(in) < BatchSize

\* A batch is a run of consecutive Enqueue calls, in their order.
RunOfOrder(b) == \E i \in 0 .. Len(order) :
    /\ i + Len(b) <= Len(order)
    /\ b = SubSeq(order, i + 1, i + Len(b))

(***************************************************************************)
(* dequeueAll copies q.in before reusing its array: every batch, wherever  *)
(* it is, holds consecutive Enqueue calls in call order, and q.in holds    *)
(* the latest ones.                                                        *)
(***************************************************************************)
BatchesAreRuns ==
    /\ \A s \in Senders : RunOfOrder(held[s])
    /\ RunOfOrder(writing)
    /\ Len(in) <= Len(order)
    /\ in = SubSeq(order, Len(order) - Len(in) + 1, Len(order))

(***************************************************************************)
(* A request handler waits on q.out exactly while it holds a batch, and    *)
(* that batch is full: only the call that completed a batch pays for it.   *)
(***************************************************************************)
BlockedHoldsFullBatch ==
    \A e \in Elements :
        /\ pc[e] = "sending" => held[e] # <<>> /\ Len(held[e]) = BatchSize
        /\ pc[e] # "sending" => held[e] = <<>>

(***************************************************************************)
(* With a timeout configured, an accepted message is eventually written,   *)
(* unless a write fails or the process ends.                               *)
(***************************************************************************)
EventuallyStored ==
    \A e \in Elements : e \in Accepted ~> e \in Range(stored) \union lost

\* The queue and its consumer implement the promise of an asynchronous store.
Abstract == INSTANCE AsyncStore WITH accepted <- Accepted
RefinesAsyncStore == Abstract!ASpec

-----------------------------------------------------------------------------
\* Not guaranteed: what a comment or a document says and TLC refutes (see the README).

(***************************************************************************)
(* docs/config.md says of cache-batch-timeout "if zero, writes are         *)
(* synchronous": AddMessage returning means that the row is written.       *)
(***************************************************************************)
SynchronousIfNoTimeout ==
    ~HasTimeout => \A e \in Elements : pc[e] = "returned" => e \in Range(stored) \union lost

=============================================================================
