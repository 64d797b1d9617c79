----------------------------- MODULE NtfyProofs -----------------------------
(***************************************************************************)
(* Proofs about two parts of ntfy.                                         *)
(*                                                                         *)
(* BatchingQueue, for every set of messages, batch size and timeout        *)
(* setting: type correctness, exactly-once bookkeeping, the bound on q.in, *)
(* the order of the batches, and the refinement of AsyncStore.             *)
(*                                                                         *)
(* AccessCache, for any number of users, mutating goroutines and writes:   *)
(* what the sequence number guarantees.                                    *)
(***************************************************************************)
EXTENDS BatchingQueue, AccessCache, TLAPS, SequenceTheorems

-----------------------------------------------------------------------------
\* Ranges and injectivity of the sequences the queue is built from.

\* Appending adds one value to the range.
LEMMA RangeAppend ==
  ASSUME NEW S, NEW s \in Seq(S), NEW e \in S
  PROVE  Range(Append(s, e)) = Range(s) \union {e}
<1> DEFINE t == Append(s, e)
<1>1. /\ t \in Seq(S)
      /\ Len(t) = Len(s) + 1
      /\ \A i \in 1 .. Len(s) : t[i] = s[i]
      /\ t[Len(s) + 1] = e
      /\ DOMAIN t = 1 .. Len(s) + 1
      /\ DOMAIN s = 1 .. Len(s)
      /\ Len(s) \in Nat
  BY AppendProperties, LenProperties
<1> HIDE DEF t
<1>2. \A i \in DOMAIN t : i \in DOMAIN s \/ i = Len(s) + 1
  BY <1>1
<1>3. Len(s) + 1 \in DOMAIN t /\ DOMAIN s \subseteq DOMAIN t
  BY <1>1
<1>4. Range(t) \subseteq Range(s) \union {e}
  BY <1>1, <1>2 DEF Range
<1>5. Range(s) \union {e} \subseteq Range(t)
  BY <1>1, <1>3 DEF Range
<1> QED BY <1>4, <1>5 DEF t

\* Appending a new value keeps a sequence free of duplicates.
LEMMA InjectiveAppend ==
  ASSUME NEW S, NEW s \in Seq(S), NEW e \in S, IsInjective(s), e \notin Range(s)
  PROVE  IsInjective(Append(s, e))
<1> DEFINE t == Append(s, e)
<1>1. /\ \A i \in 1 .. Len(s) : t[i] = s[i]
      /\ t[Len(s) + 1] = e
      /\ DOMAIN t = 1 .. Len(s) + 1
      /\ DOMAIN s = 1 .. Len(s)
      /\ Len(s) \in Nat
  BY AppendProperties, LenProperties
<1>2. \A i \in 1 .. Len(s) : s[i] # e
  BY <1>1 DEF Range
<1> QED BY <1>1, <1>2 DEF IsInjective

\* Concatenation joins the ranges.
LEMMA RangeConcat ==
  ASSUME NEW S, NEW s \in Seq(S), NEW u \in Seq(S)
  PROVE  Range(s \o u) = Range(s) \union Range(u)
<1> DEFINE t == s \o u
<1>1. /\ t \in Seq(S)
      /\ Len(t) = Len(s) + Len(u)
      /\ \A i \in 1 .. Len(s) + Len(u) : t[i] = IF i <= Len(s) THEN s[i] ELSE u[i - Len(s)]
      /\ DOMAIN t = 1 .. Len(s) + Len(u)
      /\ DOMAIN s = 1 .. Len(s)
      /\ DOMAIN u = 1 .. Len(u)
      /\ Len(s) \in Nat /\ Len(u) \in Nat
  BY ConcatProperties, LenProperties
<1> HIDE DEF t
<1>2. \A i \in DOMAIN s : i \in DOMAIN t /\ t[i] = s[i]
  BY <1>1
<1>3. \A i \in DOMAIN u : i + Len(s) \in DOMAIN t /\ t[i + Len(s)] = u[i]
  BY <1>1
<1>4. \A i \in DOMAIN t : (i \in DOMAIN s /\ t[i] = s[i]) \/ (i - Len(s) \in DOMAIN u /\ t[i] = u[i - Len(s)])
  BY <1>1
<1>5. Range(s) \subseteq Range(t) /\ Range(u) \subseteq Range(t)
  BY <1>2, <1>3 DEF Range
<1>6. Range(t) \subseteq Range(s) \union Range(u)
  BY <1>4 DEF Range
<1> QED BY <1>5, <1>6 DEF t

\* Joining duplicate-free sequences over disjoint ranges gives one.
LEMMA InjectiveConcat ==
  ASSUME NEW S, NEW s \in Seq(S), NEW u \in Seq(S),
         IsInjective(s), IsInjective(u), Range(s) \intersect Range(u) = {}
  PROVE  IsInjective(s \o u)
<1> DEFINE t == s \o u
<1>1. /\ \A i \in 1 .. Len(s) + Len(u) : t[i] = IF i <= Len(s) THEN s[i] ELSE u[i - Len(s)]
      /\ DOMAIN t = 1 .. Len(s) + Len(u)
      /\ DOMAIN s = 1 .. Len(s)
      /\ DOMAIN u = 1 .. Len(u)
      /\ Len(s) \in Nat /\ Len(u) \in Nat
  BY ConcatProperties, LenProperties
<1> HIDE DEF t
<1>2. \A i \in DOMAIN s, j \in DOMAIN u : s[i] # u[j]
  BY DEF Range
<1>3. ASSUME NEW i \in DOMAIN t, NEW j \in DOMAIN t, t[i] = t[j]
      PROVE  i = j
  <2>1. CASE i <= Len(s) /\ j <= Len(s)
    BY <2>1, <1>1, <1>3 DEF IsInjective
  <2>2. CASE i > Len(s) /\ j > Len(s)
    <3>1. i - Len(s) \in DOMAIN u /\ j - Len(s) \in DOMAIN u /\ u[i - Len(s)] = u[j - Len(s)]
      BY <2>2, <1>1, <1>3
    <3>2. i - Len(s) = j - Len(s)
      BY <3>1 DEF IsInjective
    <3> QED BY <3>2, <1>1
  <2>3. CASE i <= Len(s) /\ j > Len(s)
    <3>1. i \in DOMAIN s /\ j - Len(s) \in DOMAIN u /\ s[i] = u[j - Len(s)]
      BY <2>3, <1>1, <1>3
    <3> QED BY <3>1, <1>2
  <2>4. CASE i > Len(s) /\ j <= Len(s)
    <3>1. j \in DOMAIN s /\ i - Len(s) \in DOMAIN u /\ s[j] = u[i - Len(s)]
      BY <2>4, <1>1, <1>3
    <3> QED BY <3>1, <1>2
  <2> QED BY <2>1, <2>2, <2>3, <2>4, <1>1
<1> QED BY <1>3 DEF IsInjective, t

\* The empty sequence: a member of every Seq(S), nothing in it.
LEMMA EmptyFacts ==
  /\ \A S : <<>> \in Seq(S)
  /\ Range(<<>>) = {}
  /\ IsInjective(<<>>)
  /\ Len(<<>>) = 0
BY DEF Range, IsInjective

\* The range of a sequence over S is a subset of S.
LEMMA RangeSubset ==
  ASSUME NEW S, NEW s \in Seq(S)
  PROVE  Range(s) \subseteq S
BY LenProperties DEF Range

-----------------------------------------------------------------------------
\* Type correctness.

\* The initial state has the right types.
LEMMA InitTypeOK == Init => TypeOK
BY EmptyFacts, ConfigAssumption DEF Init, TypeOK, PCs, NoneHeld

\* Every step keeps the types.
LEMMA NextTypeOK == TypeOK /\ [Next]_vars => TypeOK'
<1> SUFFICES ASSUME TypeOK, [Next]_vars PROVE TypeOK'
  OBVIOUS
<1> USE DEF TypeOK, PCs, Senders
<1>1. ASSUME NEW e \in Elements, Enqueue(e) PROVE TypeOK'
  <2>1. Append(in, e) \in Seq(Elements) /\ Append(order, e) \in Seq(Elements)
    BY AppendProperties
  <2> QED BY <1>1, <2>1, EmptyFacts DEF Enqueue, dequeueAll
<1>2. CASE Tick
  BY <1>2, EmptyFacts DEF Tick, dequeueAll
<1>3. ASSUME NEW s \in Senders, Receive(s) PROVE TypeOK'
  <2>1. pc' \in [Elements -> PCs]
    BY <1>3 DEF Receive
  <2>2. held' \in [Senders -> Seq(Elements)] /\ writing' \in Seq(Elements)
    BY <1>3, EmptyFacts DEF Receive
  <2> QED BY <1>3, <2>1, <2>2 DEF Receive
<1>4. CASE addMessages
  BY <1>4, EmptyFacts, ConcatProperties DEF addMessages
<1>5. CASE addMessagesFails
  BY <1>5, EmptyFacts, RangeSubset DEF addMessagesFails
<1>6. CASE Crash
  BY <1>6, EmptyFacts DEF Crash, NoneHeld, InMemory
<1>7. CASE UNCHANGED vars
  BY <1>7 DEF vars
<1> QED BY <1>1, <1>2, <1>3, <1>4, <1>5, <1>6, <1>7 DEF Next

\* Every state of the queue and its consumer has the types TypeOK gives it.
THEOREM TypeCorrect == Spec => []TypeOK
<1>1. Init => TypeOK
  BY InitTypeOK
<1>2. TypeOK /\ [Next]_vars => TypeOK'
  BY NextTypeOK
<1> QED BY <1>1, <1>2, PTL DEF Spec

-----------------------------------------------------------------------------
\* The bound on q.in.

(***************************************************************************)
(* Outside q.mu the queue is shorter than the batch size, so the test      *)
(* len(q.in) == q.batchSize in Enqueue is never stepped over.              *)
(***************************************************************************)
THEOREM BoundedQueue == Spec => []NeverFull
<1>1. Init => NeverFull
  BY EmptyFacts, ConfigAssumption DEF Init, NeverFull
<1>2. ASSUME TypeOK, NeverFull, [Next]_vars PROVE NeverFull'
  <2> USE ConfigAssumption, EmptyFacts DEF NeverFull
  <2>1. ASSUME NEW e \in Elements, Enqueue(e) PROVE NeverFull'
    <3>1. Len(Append(in, e)) = Len(in) + 1 /\ Len(in) \in Nat
      BY <1>2, AppendProperties, LenProperties DEF TypeOK
    <3> QED BY <1>2, <2>1, <3>1 DEF Enqueue, dequeueAll
  <2>2. CASE Tick
    BY <2>2 DEF Tick, dequeueAll
  <2>3. CASE Crash
    BY <2>3 DEF Crash
  <2>4. CASE UNCHANGED in
    BY <1>2, <2>4
  <2> QED BY <1>2, <2>1, <2>2, <2>3, <2>4 DEF Next, Receive, addMessages, addMessagesFails, vars
<1> QED BY <1>1, <1>2, TypeCorrect, PTL DEF Spec

-----------------------------------------------------------------------------
\* Exactly once.

\* Nothing has been accepted in the initial state.
LEMMA InitExactlyOnce == Init => ExactlyOnce
BY EmptyFacts DEF Init, ExactlyOnce, Covered, InMemory, Accepted, Disjoint, NoDuplicates, Held, NoneHeld, Senders

\* A batch moves to held[s]: what dequeueAll does to the places.
LEMMA HeldExcept ==
  ASSUME TypeOK, NEW s \in Senders, NEW b \in Seq(Elements),
         held' = [held EXCEPT ![s] = b]
  PROVE  /\ held'[s] = b
         /\ \A t \in Senders : t # s => held'[t] = held[t]
BY DEF TypeOK

\* A caller takes its batch when it starts waiting and gives it up when it stops.
LEMMA NextBlocked == TypeOK /\ BlockedHoldsFullBatch /\ [Next]_vars => BlockedHoldsFullBatch'
<1> SUFFICES ASSUME TypeOK, BlockedHoldsFullBatch, [Next]_vars PROVE BlockedHoldsFullBatch'
  OBVIOUS
<1> USE DEF BlockedHoldsFullBatch, Senders
<1>1. ASSUME NEW e \in Elements, Enqueue(e) PROVE BlockedHoldsFullBatch'
  <2> HIDE DEF BlockedHoldsFullBatch
  <2>0. in \in Seq(Elements)
    BY DEF TypeOK
  <2>1. /\ Append(in, e) \in Seq(Elements)
        /\ Len(Append(in, e)) = Len(in) + 1
        /\ Append(in, e) # <<>>
    BY <2>0, AppendProperties
  <2> USE DEF BlockedHoldsFullBatch
  <2>2. CASE Len(in) + 1 = BatchSize
    BY <1>1, <2>1, <2>2 DEF Enqueue, dequeueAll, TypeOK
  <2>3. CASE Len(in) + 1 # BatchSize
    BY <1>1, <2>3 DEF Enqueue, TypeOK
  <2> QED BY <2>2, <2>3
<1>2. CASE Tick
  BY <1>2, TickerAssumption DEF Tick, dequeueAll, TypeOK
<1>3. ASSUME NEW s \in Senders, Receive(s) PROVE BlockedHoldsFullBatch'
  <2>1. CASE s \in Elements
    BY <1>3, <2>1 DEF Receive, TypeOK
  <2>2. CASE s = Ticker
    BY <1>3, <2>2, TickerAssumption DEF Receive, TypeOK
  <2> QED BY <2>1, <2>2
<1>4. CASE Crash
  BY <1>4 DEF Crash, NoneHeld, TypeOK
<1>5. CASE UNCHANGED <<pc, held>>
  BY <1>5
<1> QED BY <1>1, <1>2, <1>3, <1>4, <1>5 DEF Next, addMessages, addMessagesFails, vars

\* Every step keeps every accepted message in exactly one place.
LEMMA NextExactlyOnce ==
  TypeOK /\ BlockedHoldsFullBatch /\ ExactlyOnce /\ [Next]_vars => ExactlyOnce'
<1> SUFFICES ASSUME TypeOK, BlockedHoldsFullBatch, ExactlyOnce, [Next]_vars PROVE ExactlyOnce'
  OBVIOUS
<1> USE DEF ExactlyOnce
<1>0. /\ Range(in) \subseteq Elements
      /\ Range(writing) \subseteq Elements
      /\ Range(stored) \subseteq Elements
      /\ \A s \in Senders : Range(held[s]) \subseteq Elements
  BY RangeSubset DEF TypeOK
<1>1. ASSUME NEW e \in Elements, Enqueue(e) PROVE ExactlyOnce'
  <2> DEFINE b == Append(in, e)
  <2>1. e \notin Covered
    BY <1>1 DEF Enqueue, Accepted
  <2>2. /\ b \in Seq(Elements)
        /\ Range(b) = Range(in) \union {e}
        /\ IsInjective(b)
    BY <2>1, <1>0, AppendProperties, RangeAppend, InjectiveAppend
    DEF TypeOK, NoDuplicates, Covered, InMemory
  <2>3. Accepted' = Accepted \union {e}
    BY <1>1 DEF Enqueue, Accepted, TypeOK
  <2>4. UNCHANGED <<writing, stored, lost>>
    BY <1>1 DEF Enqueue
  <2>5. e \in Senders
    BY DEF Senders
  <2>6. CASE Len(in) + 1 = BatchSize
    <3>1. in' = <<>> /\ held' = [held EXCEPT ![e] = b]
      BY <1>1, <2>6 DEF Enqueue, dequeueAll
    <3>2. held[e] = <<>>
      BY <1>1 DEF BlockedHoldsFullBatch, Enqueue
    <3>3. held'[e] = b /\ \A t \in Senders : t # e => held'[t] = held[t]
      BY <3>1, <2>2, <2>5, HeldExcept
    <3>4. Covered' = Covered \union {e}
      BY <3>1, <3>2, <3>3, <2>2, <2>4, <2>5, <1>0, EmptyFacts DEF Covered, InMemory
    <3>5. Disjoint'
      BY <3>1, <3>3, <2>1, <2>2, <2>4, <2>5, <1>0, EmptyFacts DEF Disjoint, Covered, InMemory, Held
    <3>6. NoDuplicates'
      BY <3>1, <3>3, <2>2, <2>4, EmptyFacts DEF NoDuplicates
    <3> QED BY <3>4, <3>5, <3>6, <2>3
  <2>7. CASE Len(in) + 1 # BatchSize
    <3>1. in' = b /\ held' = held
      BY <1>1, <2>7 DEF Enqueue
    <3>2. Covered' = Covered \union {e}
      BY <3>1, <2>2, <2>4, <1>0 DEF Covered, InMemory
    <3>3. Disjoint'
      BY <3>1, <2>1, <2>2, <2>4, <2>5, <1>0 DEF Disjoint, Covered, InMemory, Held
    <3>4. NoDuplicates'
      BY <3>1, <2>2, <2>4 DEF NoDuplicates
    <3> QED BY <3>2, <3>3, <3>4, <2>3
  <2> QED BY <2>6, <2>7
<1>2. CASE Tick
  <2>1. in' = <<>> /\ held' = [held EXCEPT ![Ticker] = in] /\ held[Ticker] = <<>>
    BY <1>2 DEF Tick, dequeueAll
  <2>2. UNCHANGED <<pc, writing, stored, lost>>
    BY <1>2 DEF Tick
  <2>3. Ticker \in Senders
    BY DEF Senders
  <2>4. held'[Ticker] = in /\ \A t \in Senders : t # Ticker => held'[t] = held[t]
    BY <2>1, <2>3, HeldExcept DEF TypeOK
  <2>5. Covered' = Covered /\ Accepted' = Accepted
    BY <2>1, <2>2, <2>3, <2>4, EmptyFacts DEF Covered, InMemory, Accepted
  <2>6. Disjoint'
    BY <2>1, <2>2, <2>3, <2>4, EmptyFacts DEF Disjoint, Held
  <2>7. NoDuplicates'
    BY <2>1, <2>2, <2>4, EmptyFacts DEF NoDuplicates
  <2> QED BY <2>5, <2>6, <2>7
<1>3. ASSUME NEW s \in Senders, Receive(s) PROVE ExactlyOnce'
  <2>1. writing = <<>> /\ writing' = held[s] /\ held' = [held EXCEPT ![s] = <<>>]
    BY <1>3 DEF Receive
  <2>2. UNCHANGED <<in, stored, lost>>
    BY <1>3 DEF Receive
  <2>3. held'[s] = <<>> /\ \A t \in Senders : t # s => held'[t] = held[t]
    BY <2>1, HeldExcept, EmptyFacts
  <2>4. Accepted' = Accepted
    <3>1. CASE s \in Elements
      <4>1. pc' = [pc EXCEPT ![s] = "returned"] /\ pc[s] = "sending"
        BY <1>3, <3>1 DEF Receive, BlockedHoldsFullBatch
      <4> QED BY <4>1, <3>1 DEF Accepted, TypeOK
    <3>2. CASE s \notin Elements
      BY <1>3, <3>2 DEF Receive, Accepted
    <3> QED BY <3>1, <3>2
  <2>5. Covered' = Covered
    BY <2>1, <2>2, <2>3, EmptyFacts DEF Covered, InMemory
  <2>6. Disjoint'
    BY <2>1, <2>2, <2>3, EmptyFacts DEF Disjoint, Held
  <2>7. NoDuplicates'
    BY <2>1, <2>2, <2>3, EmptyFacts DEF NoDuplicates
  <2> QED BY <2>4, <2>5, <2>6, <2>7
<1>4. CASE addMessages
  <2>1. stored' = stored \o writing /\ writing' = <<>> /\ UNCHANGED <<pc, in, held, lost>>
    BY <1>4 DEF addMessages
  <2>2. Range(stored') = Range(stored) \union Range(writing)
    BY <2>1, RangeConcat DEF TypeOK
  <2>3. Range(stored) \intersect Range(writing) = {}
    BY <1>0 DEF Disjoint
  <2>4. IsInjective(stored')
    BY <2>1, <2>3, InjectiveConcat DEF TypeOK, NoDuplicates
  <2>5. Covered' = Covered /\ Accepted' = Accepted
    BY <2>1, <2>2, <1>0, EmptyFacts DEF Covered, InMemory, Accepted
  <2>6. Disjoint'
    BY <2>1, <2>2, EmptyFacts DEF Disjoint, Held
  <2>7. NoDuplicates'
    BY <2>1, <2>4, EmptyFacts DEF NoDuplicates
  <2> QED BY <2>5, <2>6, <2>7
<1>5. CASE addMessagesFails
  <2>1. lost' = lost \union Range(writing) /\ writing' = <<>> /\ UNCHANGED <<pc, in, held, stored>>
    BY <1>5 DEF addMessagesFails
  <2>2. Covered' = Covered /\ Accepted' = Accepted
    BY <2>1, <1>0, EmptyFacts DEF Covered, InMemory, Accepted
  <2>3. Disjoint'
    BY <2>1, EmptyFacts DEF Disjoint, Held
  <2>4. NoDuplicates'
    BY <2>1, EmptyFacts DEF NoDuplicates
  <2> QED BY <2>2, <2>3, <2>4
<1>6. CASE Crash
  <2>1. /\ in' = <<>> /\ writing' = <<>> /\ stored' = stored
        /\ lost' = lost \union InMemory
        /\ \A t \in Senders : held'[t] = <<>>
    BY <1>6 DEF Crash, NoneHeld
  <2>2. InMemory' = {}
    BY <2>1, EmptyFacts DEF InMemory
  <2>3. Accepted' = Accepted
    BY <1>6 DEF Crash, Accepted, TypeOK
  <2>4. Covered' = Covered
    BY <2>1, <2>2 DEF Covered
  <2>5. \A e \in Elements : e \in InMemory => e \notin Range(stored)
    BY DEF InMemory, Disjoint, Held
  <2>6. Disjoint'
    BY <2>1, <2>5, EmptyFacts DEF Disjoint, Held
  <2>7. NoDuplicates'
    BY <2>1, EmptyFacts DEF NoDuplicates
  <2> QED BY <2>3, <2>4, <2>6, <2>7
<1>7. CASE UNCHANGED vars
  BY <1>7 DEF vars, Covered, InMemory, Accepted, Disjoint, NoDuplicates, Held
<1> QED BY <1>1, <1>2, <1>3, <1>4, <1>5, <1>6, <1>7 DEF Next

\* A caller waiting on q.out holds a full batch, every other caller none.
THEOREM BlockedCallers == Spec => []BlockedHoldsFullBatch
<1>1. Init => BlockedHoldsFullBatch
  BY DEF Init, BlockedHoldsFullBatch, NoneHeld, Senders
<1>2. TypeOK /\ BlockedHoldsFullBatch /\ [Next]_vars => BlockedHoldsFullBatch'
  BY NextBlocked
<1> QED BY <1>1, <1>2, TypeCorrect, PTL DEF Spec

(***************************************************************************)
(* Callers, ticker, consumer, failing writes and crashes together keep     *)
(* every accepted message in exactly one place, once.                      *)
(***************************************************************************)
THEOREM ExactlyOnceAlways == Spec => []ExactlyOnce
<1>1. Init => ExactlyOnce
  BY InitExactlyOnce
<1>2. TypeOK /\ BlockedHoldsFullBatch /\ ExactlyOnce /\ [Next]_vars => ExactlyOnce'
  BY NextExactlyOnce
<1> QED BY <1>1, <1>2, TypeCorrect, BlockedCallers, PTL DEF Spec

-----------------------------------------------------------------------------
\* The order of the batches.

\* RunOfOrder and the last conjuncts of BatchesAreRuns, about any order o.
Run(b, o) == \E i \in 0 .. Len(o) : i + Len(b) <= Len(o) /\ b = SubSeq(o, i + 1, i + Len(b))
Latest(b, o) == Len(b) <= Len(o) /\ b = SubSeq(o, Len(o) - Len(b) + 1, Len(o))

\* The empty batch is a run, and the latest one.
LEMMA EmptyRun ==
  ASSUME NEW S, NEW o \in Seq(S)
  PROVE  Run(<<>>, o) /\ Latest(<<>>, o)
<1>1. Len(<<>>) = 0 /\ Len(o) \in Nat
  BY EmptySeq
<1>2. SubSeq(o, 1, 0) = <<>> /\ SubSeq(o, Len(o) + 1, Len(o)) = <<>>
  BY <1>1, SubSeqEmpty
<1> QED BY <1>1, <1>2 DEF Run, Latest

\* The latest calls are a run.
LEMMA LatestIsRun ==
  ASSUME NEW S, NEW o \in Seq(S), NEW b \in Seq(S), Latest(b, o)
  PROVE  Run(b, o)
<1> DEFINE i == Len(o) - Len(b)
<1>1. i \in 0 .. Len(o) /\ i + Len(b) = Len(o) /\ i + Len(b) <= Len(o)
  BY DEF Latest
<1>2. b = SubSeq(o, i + 1, i + Len(b))
  BY <1>1 DEF Latest
<1> QED BY <1>1, <1>2 DEF Run

\* A run stays one when another call comes.
LEMMA RunStays ==
  ASSUME NEW S, NEW o \in Seq(S), NEW b \in Seq(S), NEW e \in S, Run(b, o)
  PROVE  Run(b, Append(o, e))
<1> DEFINE n == Append(o, e)
<1>1. n = o \o <<e>> /\ <<e>> \in Seq(S) /\ Len(n) = Len(o) + 1
  BY AppendIsConcat, AppendProperties
<1>2. PICK i \in 0 .. Len(o) : i + Len(b) <= Len(o) /\ b = SubSeq(o, i + 1, i + Len(b))
  BY DEF Run
<1>3. i + 1 \in 1 .. Len(o) + 1 /\ i + Len(b) \in i + 1 - 1 .. Len(o)
  BY <1>2
<1>4. SubSeq(n, i + 1, i + Len(b)) = b
  <2>1. CASE Len(b) = 0
    <3>1. i + Len(b) < i + 1 /\ i + 1 \in Int /\ i + Len(b) \in Int
      BY <2>1
    <3>2. SubSeq(n, i + 1, i + Len(b)) = <<>>
      BY <3>1, SubSeqEmpty
    <3> QED BY <2>1, <3>2, EmptySeq
  <2>2. CASE Len(b) # 0
    <3>1. i + 1 \in 1 .. Len(o) /\ i + Len(b) \in i + 1 .. Len(o)
      BY <1>2, <2>2
    <3> QED BY <1>1, <1>2, <3>1, SubSeqOfConcat1
  <2> QED BY <2>1, <2>2
<1>5. i \in 0 .. Len(n) /\ i + Len(b) <= Len(n)
  BY <1>1, <1>2
<1> HIDE DEF n
<1>6. Run(b, n)
  BY <1>4, <1>5 DEF Run
<1> QED BY <1>6 DEF n

\* The latest calls with the next one are the latest calls then.
LEMMA LatestGrows ==
  ASSUME NEW S, NEW o \in Seq(S), NEW b \in Seq(S), NEW e \in S, Latest(b, o)
  PROVE  Latest(Append(b, e), Append(o, e))
<1> DEFINE n == Append(o, e)
           c == Append(b, e)
           m == Len(n) - Len(c)
           s == SubSeq(n, m + 1, Len(n))
           r == SubSeq(o, Len(o) - Len(b) + 1, Len(o))
<1>1. /\ n \in Seq(S) /\ Len(n) = Len(o) + 1 /\ n[Len(o) + 1] = e
      /\ \A i \in 1 .. Len(o) : n[i] = o[i]
  BY AppendProperties
<1>2. /\ c \in Seq(S) /\ Len(c) = Len(b) + 1 /\ c[Len(b) + 1] = e
      /\ \A i \in 1 .. Len(b) : c[i] = b[i]
  BY AppendProperties
<1>3. m = Len(o) - Len(b) /\ m \in 0 .. Len(o) /\ m + Len(b) = Len(o)
  BY <1>1, <1>2 DEF Latest
<1>4. ASSUME NEW i \in 1 .. Len(b) PROVE b[i] = o[m + i]
  <2>1. \A j \in m + 1 .. Len(o) : o[j] \in S
    BY <1>3
  <2>2. \A j \in 1 .. Len(o) - (m + 1) + 1 : SubSeq(o, m + 1, Len(o))[j] = o[(m + 1) + j - 1]
    BY <1>3, <2>1, SubSeqProperties
  <2>3. b = SubSeq(o, m + 1, Len(o))
    BY <1>3 DEF Latest
  <2> HIDE DEF m
  <2>4. i \in 1 .. Len(o) - (m + 1) + 1 /\ (m + 1) + i - 1 = m + i
    BY <1>3, <1>4
  <2> QED BY <2>2, <2>3, <2>4
<1>5. /\ s \in Seq(S) /\ Len(s) = Len(c)
      /\ \A i \in 1 .. Len(c) : s[i] = n[m + i]
  <2>1. \A j \in m + 1 .. Len(n) : n[j] \in S
    BY <1>1, <1>3
  <2>2. /\ s \in Seq(S)
        /\ Len(s) = IF m + 1 <= Len(n) THEN Len(n) - (m + 1) + 1 ELSE 0
        /\ \A i \in 1 .. Len(n) - (m + 1) + 1 : s[i] = n[(m + 1) + i - 1]
    <3>1. m + 1 \in Int /\ Len(n) \in Int
      BY <1>1, <1>3
    <3> HIDE DEF m, n, c
    <3> QED BY <1>1, <2>1, <3>1, SubSeqProperties
  <2>3. m + 1 <= Len(n) /\ Len(n) - (m + 1) + 1 = Len(c)
    <3>1. Len(o) \in Nat /\ Len(b) \in Nat
      OBVIOUS
    <3> HIDE DEF m, n, c
    <3> QED BY <1>1, <1>2, <1>3, <3>1
  <2>4. \A i \in 1 .. Len(c) : (m + 1) + i - 1 = m + i
    BY <1>3
  <2> HIDE DEF s, m, n, c
  <2> QED BY <2>2, <2>3, <2>4
<1> HIDE DEF s, m, n, c
<1>6. ASSUME NEW i \in 1 .. Len(c) PROVE c[i] = s[i]
  <2>1. CASE i \in 1 .. Len(b)
    <3>1. m + i \in 1 .. Len(o)
      BY <1>3, <2>1
    <3> QED BY <1>1, <1>2, <1>4, <1>5, <1>6, <2>1, <3>1
  <2>2. CASE i = Len(b) + 1
    <3>1. m + i = Len(o) + 1
      BY <1>3, <2>2
    <3> QED BY <1>1, <1>2, <1>5, <1>6, <2>2, <3>1
  <2>3. i \in 1 .. Len(b) \/ i = Len(b) + 1
    BY <1>2, <1>6
  <2> QED BY <2>1, <2>2, <2>3
<1>7. c = s
  BY <1>2, <1>5, <1>6, SeqEqual
<1>8. Len(c) <= Len(n)
  BY <1>1, <1>2 DEF Latest
<1> QED BY <1>7, <1>8 DEF Latest, s, m, n, c

(***************************************************************************)
(* Callers and ticker take q.in whole and the consumer a batch whole, in   *)
(* whatever order they do: a batch is always a run of calls.               *)
(***************************************************************************)
THEOREM BatchesAreRunsAlways == Spec => []BatchesAreRuns
<1>0. BatchesAreRuns <=>
        (\A s \in Senders : Run(held[s], order)) /\ Run(writing, order) /\ Latest(in, order)
  BY DEF BatchesAreRuns, RunOfOrder, Run, Latest
<1>1. Init => BatchesAreRuns
  <2> SUFFICES ASSUME Init PROVE BatchesAreRuns
    OBVIOUS
  <2>1. Run(<<>>, <<>>) /\ Latest(<<>>, <<>>)
    BY EmptyRun, EmptySeq
  <2> QED BY <1>0, <2>1 DEF Init, NoneHeld
<1>2. ASSUME TypeOK, BatchesAreRuns, [Next]_vars PROVE BatchesAreRuns'
  <2>1. BatchesAreRuns' <=>
          (\A s \in Senders : Run(held'[s], order')) /\ Run(writing', order') /\ Latest(in', order')
    BY DEF BatchesAreRuns, RunOfOrder, Run, Latest
  <2>2. /\ held \in [Senders -> Seq(Elements)] /\ in \in Seq(Elements)
        /\ writing \in Seq(Elements) /\ order \in Seq(Elements)
        /\ \A s \in Senders : held[s] \in Seq(Elements) /\ Run(held[s], order)
        /\ Run(writing, order) /\ Latest(in, order) /\ Run(in, order)
    BY <1>0, <1>2, LatestIsRun DEF TypeOK
  <2>3. Run(<<>>, order) /\ Latest(<<>>, order)
    BY <2>2, EmptyRun
  <2>4. ASSUME NEW e \in Elements, Enqueue(e) PROVE BatchesAreRuns'
    <3> DEFINE o == Append(order, e)
               b == Append(in, e)
    <3>1. order' = o /\ writing' = writing /\ o \in Seq(Elements) /\ b \in Seq(Elements)
      BY <2>2, <2>4, AppendProperties DEF Enqueue
    <3>2. Latest(b, o) /\ Run(b, o) /\ Latest(<<>>, o) /\ Run(writing, o)
      BY <2>2, <3>1, LatestGrows, LatestIsRun, EmptyRun, RunStays
    <3>3. \A s \in Senders : Run(held[s], o)
      BY <2>2, RunStays
    <3>4. e \in Senders
      BY DEF Senders
    <3>5. \/ held' = [held EXCEPT ![e] = b] /\ in' = <<>>
          \/ held' = held /\ in' = b
      BY <2>4 DEF Enqueue, dequeueAll
    <3> HIDE DEF o, b
    <3>6. \A s \in Senders : Run(held'[s], o)
      BY <2>2, <3>2, <3>3, <3>4, <3>5
    <3> QED BY <2>1, <3>1, <3>2, <3>5, <3>6
  <2>5. CASE Tick
    <3>1. held' = [held EXCEPT ![Ticker] = in] /\ in' = <<>> /\ UNCHANGED <<writing, order>>
      BY <2>5 DEF Tick, dequeueAll
    <3> QED BY <2>1, <2>2, <2>3, <3>1
  <2>6. ASSUME NEW s \in Senders, Receive(s) PROVE BatchesAreRuns'
    <3>1. held' = [held EXCEPT ![s] = <<>>] /\ writing' = held[s] /\ UNCHANGED <<in, order>>
      BY <2>6 DEF Receive
    <3> QED BY <2>1, <2>2, <2>3, <3>1
  <2>7. CASE addMessages \/ addMessagesFails
    <3>1. writing' = <<>> /\ UNCHANGED <<in, held, order>>
      BY <2>7 DEF addMessages, addMessagesFails
    <3> QED BY <2>1, <2>2, <2>3, <3>1
  <2>8. CASE Crash
    <3>1. writing' = <<>> /\ in' = <<>> /\ held' = NoneHeld /\ order' = order
      BY <2>8 DEF Crash
    <3> QED BY <2>1, <2>3, <3>1 DEF NoneHeld
  <2>9. CASE UNCHANGED vars
    BY <1>0, <1>2, <2>1, <2>9 DEF vars
  <2> QED BY <1>2, <2>4, <2>5, <2>6, <2>7, <2>8, <2>9 DEF Next
<1> QED BY <1>1, <1>2, TypeCorrect, PTL DEF Spec

-----------------------------------------------------------------------------
\* Refinement of AsyncStore.

\* What a concatenation added is its suffix.
LEMMA SuffixOfConcat ==
  ASSUME NEW S, NEW s \in Seq(S), NEW u \in Seq(S)
  PROVE  SubSeq(s \o u, Len(s) + 1, Len(s \o u)) = u
BY ConcatProperties, LenProperties, SubSeqOfConcat2

\* Every step of the queue is a step of AsyncStore or leaves it unchanged.
LEMMA StepRefines ==
  TypeOK /\ BlockedHoldsFullBatch /\ ExactlyOnce /\ [Next]_vars => [Abstract!ANext]_(Abstract!avars)
<1> SUFFICES ASSUME TypeOK, BlockedHoldsFullBatch, ExactlyOnce, [Next]_vars
             PROVE  [Abstract!ANext]_(Abstract!avars)
  OBVIOUS
<1> USE DEF ExactlyOnce
<1>0. Abstract!Outstanding = Accepted \ (Range(stored) \union lost)
  BY DEF Abstract!Outstanding, Abstract!Range, Range
<1>1. ASSUME NEW e \in Elements, Enqueue(e) PROVE Abstract!ANext
  <2>1. Accepted' = Accepted \union {e} /\ e \notin Accepted
    BY <1>1 DEF Enqueue, Accepted, TypeOK
  <2>2. UNCHANGED <<stored, lost>>
    BY <1>1 DEF Enqueue
  <2>3. Abstract!AAccept(e)
    BY <2>1, <2>2 DEF Abstract!AAccept
  <2> QED BY <2>3 DEF Abstract!ANext
<1>2. CASE Tick
  BY <1>2 DEF Tick, Abstract!avars, Accepted
<1>3. ASSUME NEW s \in Senders, Receive(s) PROVE UNCHANGED Abstract!avars
  <2>1. Accepted' = Accepted
    <3>1. CASE s \in Elements
      <4>1. pc' = [pc EXCEPT ![s] = "returned"] /\ pc[s] = "sending"
        BY <1>3, <3>1 DEF Receive, BlockedHoldsFullBatch
      <4> QED BY <4>1, <3>1 DEF Accepted, TypeOK
    <3>2. CASE s \notin Elements
      BY <1>3, <3>2 DEF Receive, Accepted
    <3> QED BY <3>1, <3>2
  <2> QED BY <1>3, <2>1 DEF Receive, Abstract!avars
<1>4. CASE addMessages
  <2>1. stored' = stored \o writing /\ UNCHANGED <<pc, lost>>
    BY <1>4 DEF addMessages
  <2>2. SubSeq(stored', Len(stored) + 1, Len(stored')) = writing
    BY <2>1, SuffixOfConcat DEF TypeOK
  <2>3. Range(writing) \subseteq Abstract!Outstanding
    BY <1>0, RangeSubset DEF Covered, InMemory, Disjoint, TypeOK
  <2>4. Abstract!IsInjective(writing) /\ Abstract!Range(writing) = Range(writing)
    BY DEF NoDuplicates, Abstract!IsInjective, IsInjective, Abstract!Range, Range
  <2>5. Abstract!AStore(writing)
    BY <2>1, <2>3, <2>4 DEF Abstract!AStore, Accepted
  <2> QED BY <2>2, <2>5 DEF Abstract!ANext
<1>5. CASE addMessagesFails
  <2>1. Range(writing) \subseteq Abstract!Outstanding
    BY <1>0, RangeSubset DEF Covered, InMemory, Disjoint, TypeOK
  <2>2. Abstract!ALose
    BY <1>5, <2>1 DEF addMessagesFails, Abstract!ALose, Accepted
  <2> QED BY <2>2 DEF Abstract!ANext
<1>6. CASE Crash
  <2>1. InMemory \subseteq Abstract!Outstanding
    BY <1>0 DEF Covered, InMemory, Disjoint, Held
  <2>2. Accepted' = Accepted
    BY <1>6 DEF Crash, Accepted, TypeOK
  <2>3. Abstract!ALose
    BY <1>6, <2>1, <2>2 DEF Crash, Abstract!ALose
  <2> QED BY <2>3 DEF Abstract!ANext
<1>7. CASE UNCHANGED vars
  BY <1>7 DEF vars, Abstract!avars, Accepted
<1> QED BY <1>1, <1>2, <1>3, <1>4, <1>5, <1>6, <1>7 DEF Next

(***************************************************************************)
(* The queue with its consumer implements the asynchronous store: a row is *)
(* written only for an accepted message, once, and rows are only appended. *)
(***************************************************************************)
THEOREM Refinement == Spec => RefinesAsyncStore
<1>1. Init => Abstract!AInit
  BY DEF Init, Abstract!AInit, Accepted
<1>2. TypeOK /\ BlockedHoldsFullBatch /\ ExactlyOnce /\ [Next]_vars => [Abstract!ANext]_(Abstract!avars)
  BY StepRefines
<1> QED BY <1>1, <1>2, TypeCorrect, BlockedCallers, ExactlyOnceAlways, PTL
    DEF Spec, RefinesAsyncStore, Abstract!ASpec

-----------------------------------------------------------------------------
\* The access cache.

(***************************************************************************)
(* The inductive invariant: neither the cache nor a scan is ahead of the   *)
(* table, and a full reload that was not raced has scanned nothing older   *)
(* than what is in the cache.                                              *)
(***************************************************************************)
Behind == \A n \in Names : cache[n] <= table[n]

ScansBehind == \A p \in Procs : stage[p] = "scanned" => \A n \in Names : scan[p][n] <= table[n]

UnracedScanIsNewer ==
    \A p \in Procs : (stage[p] = "scanned" /\ p \notin raced) =>
        \A n \in Names : cache[n] <= scan[p][n]

CacheInv == CacheTypeOK /\ Behind /\ ScansBehind /\ UnracedScanIsNewer

\* Versions of a name are natural numbers up to the bound.
LEMMA VersionFacts ==
    /\ MaxWrites \in Nat
    /\ 0 \in 0 .. MaxWrites
    /\ \A f \in Versions : \A n \in Names : f[n] \in 0 .. MaxWrites /\ f[n] \in Nat
  BY AccessCacheAssumption DEF Versions

\* The initial state satisfies the invariant.
LEMMA CacheInitInv == CacheInit => CacheInv
<1> SUFFICES ASSUME CacheInit PROVE CacheInv
  OBVIOUS
<1> USE VersionFacts DEF CacheInit, Procs
<1>1. CacheTypeOK
  BY DEF CacheTypeOK, Versions, Stages
<1>2. Behind
  BY DEF Behind
<1>3. ScansBehind /\ UnracedScanIsNewer
  BY DEF ScansBehind, UnracedScanIsNewer
<1> QED
  BY <1>1, <1>2, <1>3 DEF CacheInv

\* A commit keeps the invariant: only the table moves, and it moves forward.
LEMMA CommitInv ==
    ASSUME CacheInv, NEW p \in Mutators, NEW names \in SUBSET Names, NEW reload \in SUBSET Names,
           Commit(p, names, reload)
    PROVE CacheInv'
<1> USE VersionFacts DEF CacheInv, Procs
<1>1. p \in Procs /\ p # Poller
  BY AccessCacheAssumption
<1>2. table' \in Versions /\ \A n \in Names : table[n] <= table'[n]
  BY DEF Commit, Written, CacheTypeOK, Versions
<1>3. wrote' \in [Procs -> Versions]
  <2>1. [n \in Names |-> IF n \in names THEN table[n] + 1 ELSE 0] \in Versions
    BY DEF Commit, CacheTypeOK, Versions
  <2> QED
    BY <1>1, <2>1 DEF Commit, CacheTypeOK
<1>4. CacheTypeOK'
  BY <1>1, <1>2, <1>3 DEF Commit, CacheTypeOK, Stages
<1>5. Behind'
  BY <1>2, <1>4 DEF Commit, Behind, CacheTypeOK
<1>6. UnracedScanIsNewer'
  BY <1>1 DEF Commit, UnracedScanIsNewer, CacheTypeOK
<1>7. ScansBehind'
  <2> SUFFICES ASSUME NEW q \in Procs, stage'[q] = "scanned", NEW n \in Names
               PROVE scan'[q][n] <= table'[n]
    BY DEF ScansBehind
  <2>1. stage[q] = "scanned" /\ scan' = scan
    BY <1>1 DEF Commit, CacheTypeOK
  <2>2. scan[q][n] <= table[n] /\ scan[q][n] \in Nat
    BY <2>1 DEF ScansBehind, CacheTypeOK
  <2> QED
    BY <1>2, <2>1, <2>2 DEF CacheTypeOK
<1> QED
  BY <1>4, <1>5, <1>6, <1>7

\* The local variables of a reload that returns have their types.
LEMMA ReturnType ==
    ASSUME CacheTypeOK, NEW p \in Procs, Return(p)
    PROVE /\ stage' \in [Procs -> Stages]
          /\ scope' \in [Procs -> SUBSET Names] /\ scope'[Poller] = {}
          /\ scan' \in [Procs -> Versions]
          /\ wrote' \in [Procs -> Versions]
<1>1. [n \in Names |-> 0] \in Versions
  BY VersionFacts DEF Versions
<1>2. Poller \in Procs
  BY DEF Procs
<1> QED
  BY <1>1, <1>2 DEF Return, CacheTypeOK, Stages

\* So has the history of what was promised.
LEMMA PromisedType ==
    ASSUME CacheTypeOK, NEW p \in Procs, ReturnNil(p)
    PROVE promised' \in Versions
<1>1. wrote[p] \in Versions /\ promised \in Versions
  BY DEF CacheTypeOK
<1> QED
  BY <1>1 DEF ReturnNil, Versions

\* Putting a scan into the cache keeps the invariant.
LEMMA ApplyInv ==
    ASSUME CacheInv, NEW p \in Procs, Apply(p)
    PROVE CacheInv'
<1> USE VersionFacts DEF CacheInv
<1>1. Return(p) /\ table' = table
  BY DEF Apply, ReturnNil
<1>2. cache' \in Versions
  BY DEF Apply, Merged, CacheTypeOK, Versions
<1>3. CacheTypeOK'
  BY <1>1, <1>2, ReturnType, PromisedType DEF Apply, BumpSeq, CacheTypeOK
<1>4. Behind'
  BY <1>1, <1>2 DEF Apply, Merged, Behind, ScansBehind, CacheTypeOK
<1>5. UnracedScanIsNewer'
  BY DEF Apply, ReturnNil, Return, BumpSeq, UnracedScanIsNewer, CacheTypeOK
<1>6. ScansBehind'
  BY <1>1 DEF Return, ScansBehind, CacheTypeOK
<1> QED
  BY <1>3, <1>4, <1>5, <1>6

\* Returning without touching the cache keeps it, too.
LEMMA ReturnInv ==
    ASSUME CacheInv, NEW p \in Procs, Return(p), raced' = raced \ {p},
           UNCHANGED <<table, cache>>, promised' \in Versions
    PROVE CacheInv'
<1> USE DEF CacheInv
<1>1. CacheTypeOK'
  BY ReturnType DEF CacheTypeOK
<1>2. Behind'
  BY DEF Behind
<1>3. ScansBehind' /\ UnracedScanIsNewer'
  BY DEF Return, ScansBehind, UnracedScanIsNewer, CacheTypeOK
<1> QED
  BY <1>1, <1>2, <1>3

\* Every step keeps the invariant.
LEMMA CacheNextInv == CacheInv /\ [CacheNext]_cacheVars => CacheInv'
<1> SUFFICES ASSUME CacheInv, [CacheNext]_cacheVars PROVE CacheInv'
  OBVIOUS
<1> USE VersionFacts
<1>1. ASSUME NEW p \in Mutators, NEW n \in Names, AllowAccess(p, n) PROVE CacheInv'
  <2>1. Commit(p, {n}, {n})
    BY <1>1 DEF AllowAccess
  <2>2. {n} \in SUBSET Names
    OBVIOUS
  <2> QED
    BY <2>1, <2>2, CommitInv
<1>2. ASSUME NEW p \in Mutators, NEW u \in Users, ResetAccess(p, u) PROVE CacheInv'
  <2>1. PICK names \in {{u}, {Everyone}, {u, Everyone}} : Commit(p, names, {u, Everyone})
    BY <1>2 DEF ResetAccess
  <2>2. names \in SUBSET Names /\ {u, Everyone} \in SUBSET Names
    BY DEF Names
  <2> QED
    BY <2>1, <2>2, CommitInv
<1>3. ASSUME NEW p \in Mutators, ChangeRole(p) PROVE CacheInv'
  <2>1. PICK names \in SUBSET Names \ {{}} : Commit(p, names, {})
    BY <1>3 DEF ChangeRole
  <2> QED
    BY <2>1, CommitInv
<1>4. ASSUME NEW n \in Names, External(n) PROVE CacheInv'
  <2>1. table' \in Versions /\ \A k \in Names : table[k] <= table'[k]
    BY <1>4 DEF External, Written, CacheInv, CacheTypeOK, Versions
  <2>2. CacheTypeOK'
    BY <1>4, <2>1 DEF External, CacheInv, CacheTypeOK
  <2>3. Behind'
    <3> SUFFICES ASSUME NEW k \in Names PROVE cache[k] <= table'[k]
      BY <1>4 DEF External, Behind
    <3>1. cache[k] <= table[k] /\ cache[k] \in Nat /\ table[k] \in Nat /\ table'[k] \in Nat
      BY <2>1 DEF CacheInv, Behind, CacheTypeOK
    <3> QED
      BY <2>1, <3>1
  <2>4. ScansBehind'
    <3> SUFFICES ASSUME NEW q \in Procs, stage[q] = "scanned", NEW k \in Names
                 PROVE scan[q][k] <= table'[k]
      BY <1>4 DEF External, ScansBehind
    <3>1. scan[q][k] <= table[k] /\ scan[q][k] \in Nat
      BY DEF CacheInv, ScansBehind, CacheTypeOK
    <3> QED
      BY <2>1, <3>1 DEF CacheInv, CacheTypeOK
  <2>5. UnracedScanIsNewer'
    BY <1>4 DEF External, CacheInv, UnracedScanIsNewer
  <2> QED
    BY <2>2, <2>3, <2>4, <2>5 DEF CacheInv
<1>5. CASE Poll
  BY <1>5 DEF Poll, CacheInv, CacheTypeOK, Stages, Behind, ScansBehind, UnracedScanIsNewer
<1>6. ASSUME NEW p \in Procs, ReadSeq(p) PROVE CacheInv'
  BY <1>6 DEF ReadSeq, CacheInv, CacheTypeOK, Stages, Behind, ScansBehind, UnracedScanIsNewer
<1>7. ASSUME NEW p \in Procs, Query(p) PROVE CacheInv'
  BY <1>7 DEF Query, CacheInv, CacheTypeOK, Stages, Behind, ScansBehind, UnracedScanIsNewer
<1>8. ASSUME NEW p \in Procs, Apply(p) PROVE CacheInv'
  BY <1>8, ApplyInv
<1>9. ASSUME NEW p \in Procs, Skip(p) PROVE CacheInv'
  BY <1>9, ReturnInv, PromisedType DEF Skip, ReturnNil, CacheInv
<1>10. ASSUME NEW p \in Procs, QueryFails(p) PROVE CacheInv'
  BY <1>10, ReturnInv DEF QueryFails, CacheInv, CacheTypeOK
<1>11. CASE UNCHANGED cacheVars
  BY <1>11 DEF cacheVars, CacheInv, CacheTypeOK, Behind, ScansBehind, UnracedScanIsNewer
<1> QED
  BY <1>1, <1>2, <1>3, <1>4, <1>5, <1>6, <1>7, <1>8, <1>9, <1>10, <1>11 DEF CacheNext, ReloadStep

\* The invariant holds in every reachable state.
LEMMA CacheInvariant == CacheSpec => []CacheInv
  BY CacheInitInv, CacheNextInv, PTL DEF CacheSpec

(***************************************************************************)
(* Type correctness of the cache and of everybody who reloads it.          *)
(***************************************************************************)
THEOREM CacheTypeCorrect == CacheSpec => []CacheTypeOK
<1>1. CacheInv => CacheTypeOK
  BY DEF CacheInv
<1> QED
  BY <1>1, CacheInvariant, PTL

(***************************************************************************)
(* accessCache.Reload: applying a full reload never brings back rules that *)
(* are older than the cached ones, whatever raced its scan.                *)
(***************************************************************************)
THEOREM FullReload == CacheSpec => FullReloadNeverGoesBack
<1>1. ASSUME CacheInv, NEW p \in Procs, Full(p), Apply(p), NEW n \in Names
      PROVE cache'[n] >= cache[n]
  <2>1. cache'[n] = scan[p][n]
    BY <1>1 DEF Apply, Merged
  <2>2. cache[n] <= scan[p][n]
    BY <1>1 DEF Apply, CacheInv, UnracedScanIsNewer
  <2>3. cache[n] \in Nat /\ scan[p][n] \in Nat
    BY <1>1, VersionFacts DEF CacheInv, CacheTypeOK
  <2> QED
    BY <2>1, <2>2, <2>3
<1>2. CacheInv => [\A p \in Procs : (Full(p) /\ Apply(p)) => \A n \in Names : cache'[n] >= cache[n]]_cacheVars
  BY <1>1
<1> QED
  BY <1>2, CacheInvariant, PTL DEF FullReloadNeverGoesBack

-----------------------------------------------------------------------------
(***************************************************************************)
(* Any number of goroutines change access rules.  Whatever a mutation has  *)
(* written is in the table, it reloads the names it touched or everything, *)
(* and it has scanned what it wrote, since it scans after its transaction. *)
(***************************************************************************)
Reloads(p, n) == Full(p) \/ n \in scope[p]

WritesScanned ==
    \A p \in Procs, n \in Names : wrote[p][n] > 0 =>
        /\ Reloads(p, n)
        /\ wrote[p][n] <= table[n]
        /\ stage[p] = "scanned" => wrote[p][n] <= scan[p][n]

\* All numbers of the cache are natural numbers.
LEMMA CacheNumbers ==
    ASSUME CacheTypeOK
    PROVE  \A p \in Procs, n \in Names :
              /\ wrote[p][n] \in Nat /\ scan[p][n] \in Nat
              /\ table[n] \in Nat /\ cache[n] \in Nat
  BY VersionFacts DEF CacheTypeOK

\* A commit writes what it will reload.
LEMMA CommitScanned ==
    ASSUME CacheInv, WritesScanned, NEW w \in Mutators, NEW names \in SUBSET Names, NEW reload \in SUBSET Names,
           names \subseteq reload \/ reload = {}, Commit(w, names, reload)
    PROVE  WritesScanned'
<1> SUFFICES ASSUME NEW p \in Procs, NEW n \in Names, wrote'[p][n] > 0
             PROVE  /\ Reloads(p, n)'
                    /\ wrote'[p][n] <= table'[n]
                    /\ stage'[p] = "scanned" => wrote'[p][n] <= scan'[p][n]
  BY DEF WritesScanned
<1>1. /\ wrote[p][n] \in Nat /\ table[n] \in Nat
      /\ table'[n] = IF n \in names THEN table[n] + 1 ELSE table[n]
  BY CacheNumbers DEF Commit, Written, CacheInv
<1>2. w \in Procs /\ wrote \in [Procs -> Versions] /\ scope \in [Procs -> SUBSET Names] /\ stage \in [Procs -> Stages]
  BY DEF CacheInv, CacheTypeOK, Procs
<1>3. CASE p = w
  <2>1. /\ wrote'[p][n] = IF n \in names THEN table[n] + 1 ELSE 0
        /\ scope'[p] = reload /\ stage'[p] = "committed"
    BY <1>2, <1>3 DEF Commit
  <2>2. n \in names
    BY <2>1
  <2> QED
    BY <1>1, <2>1, <2>2 DEF Reloads, Full
<1>4. CASE p # w
  <2>1. wrote'[p] = wrote[p] /\ scope'[p] = scope[p] /\ stage'[p] = stage[p] /\ scan' = scan
    BY <1>2, <1>4 DEF Commit
  <2> QED
    BY <1>1, <2>1 DEF WritesScanned, Reloads, Full
<1> QED
  BY <1>3, <1>4

\* A reload that returns has nothing left to reload.
LEMMA ReturnScanned ==
    ASSUME CacheInv, WritesScanned, NEW q \in Procs, Return(q), table' = table
    PROVE  WritesScanned'
<1> SUFFICES ASSUME NEW p \in Procs, NEW n \in Names, wrote'[p][n] > 0
             PROVE  /\ Reloads(p, n)'
                    /\ wrote'[p][n] <= table'[n]
                    /\ stage'[p] = "scanned" => wrote'[p][n] <= scan'[p][n]
  BY DEF WritesScanned
<1>1. p # q
  BY DEF Return, CacheInv, CacheTypeOK
<1>2. wrote'[p] = wrote[p] /\ scope'[p] = scope[p] /\ stage'[p] = stage[p] /\ scan'[p] = scan[p]
  BY <1>1 DEF Return, CacheInv, CacheTypeOK
<1> QED
  BY <1>2 DEF WritesScanned, Reloads, Full

\* Every step keeps it.
LEMMA NextScanned == CacheInv /\ WritesScanned /\ [CacheNext]_cacheVars => WritesScanned'
<1> SUFFICES ASSUME CacheInv, WritesScanned, [CacheNext]_cacheVars PROVE WritesScanned'
  OBVIOUS
<1>0. \A p \in Procs, n \in Names : wrote[p][n] \in Nat /\ table[n] \in Nat
  BY CacheNumbers DEF CacheInv
<1>1. ASSUME NEW p \in Mutators, NEW n \in Names, AllowAccess(p, n) PROVE WritesScanned'
  BY <1>1, CommitScanned DEF AllowAccess
<1>2. ASSUME NEW p \in Mutators, NEW u \in Users, ResetAccess(p, u) PROVE WritesScanned'
  <2>1. PICK names \in {{u}, {Everyone}, {u, Everyone}} : Commit(p, names, {u, Everyone})
    BY <1>2 DEF ResetAccess
  <2>2. names \in SUBSET Names /\ {u, Everyone} \in SUBSET Names /\ names \subseteq {u, Everyone}
    BY DEF Names
  <2> QED
    BY <2>1, <2>2, CommitScanned
<1>3. ASSUME NEW p \in Mutators, ChangeRole(p) PROVE WritesScanned'
  <2>1. PICK names \in SUBSET Names \ {{}} : Commit(p, names, {})
    BY <1>3 DEF ChangeRole
  <2> QED
    BY <2>1, CommitScanned
<1>4. ASSUME NEW k \in Names, External(k) PROVE WritesScanned'
  <2>1. \A n \in Names : table[n] \in Nat /\ table'[n] \in Nat /\ table[n] <= table'[n]
    <3>1. \A n \in Names : table[n] \in Nat
      BY VersionFacts DEF CacheInv, CacheTypeOK
    <3>2. \A n \in Names : table'[n] = IF n \in {k} THEN table[n] + 1 ELSE table[n]
      BY <1>4 DEF External, Written
    <3> QED
      BY <3>1, <3>2
  <2>2. UNCHANGED <<wrote, scope, stage, scan>>
    BY <1>4 DEF External
  <2> SUFFICES ASSUME NEW p \in Procs, NEW n \in Names, wrote[p][n] > 0
               PROVE  wrote[p][n] <= table'[n]
    BY <2>2 DEF WritesScanned, Reloads, Full
  <2>3. wrote[p][n] <= table[n]
    BY DEF WritesScanned
  <2> QED
    BY <1>0, <2>1, <2>3
<1>5. CASE Poll
  BY <1>5 DEF Poll, WritesScanned, Reloads, Full, CacheInv, CacheTypeOK
<1>6. ASSUME NEW p \in Procs, ReadSeq(p) PROVE WritesScanned'
  BY <1>6 DEF ReadSeq, WritesScanned, Reloads, Full, CacheInv, CacheTypeOK
<1>7. ASSUME NEW p \in Procs, Query(p) PROVE WritesScanned'
  BY <1>7 DEF Query, WritesScanned, Reloads, Full, CacheInv, CacheTypeOK
<1>8. ASSUME NEW p \in Procs, Apply(p) PROVE WritesScanned'
  BY <1>8, ReturnScanned DEF Apply, ReturnNil
<1>9. ASSUME NEW p \in Procs, Skip(p) PROVE WritesScanned'
  BY <1>9, ReturnScanned DEF Skip, ReturnNil
<1>10. ASSUME NEW p \in Procs, QueryFails(p) PROVE WritesScanned'
  BY <1>10, ReturnScanned DEF QueryFails
<1>11. CASE UNCHANGED cacheVars
  BY <1>11 DEF cacheVars, WritesScanned, Reloads, Full
<1> QED
  BY <1>1, <1>2, <1>3, <1>4, <1>5, <1>6, <1>7, <1>8, <1>9, <1>10, <1>11 DEF CacheNext, ReloadStep

(***************************************************************************)
(* However many goroutines change access rules, in every way there is: the *)
(* reload of a mutation leaves what the mutation wrote in the cache, and   *)
(* only a raced reload of single users takes back what the cache had.      *)
(***************************************************************************)
THEOREM ReloadVisible == CacheSpec => ReloadIsVisible
<1>1. CacheInit => WritesScanned
  BY VersionFacts DEF CacheInit, WritesScanned
<1>2. ASSUME CacheInv, WritesScanned, NEW p \in Procs, Apply(p), NEW n \in Names
      PROVE  /\ cache'[n] >= wrote[p][n]
             /\ cache'[n] < cache[n] => p \in raced /\ n \in scope[p]
  <2>1. /\ stage[p] = "scanned"
        /\ Full(p) => p \notin raced
        /\ cache'[n] = IF Reloads(p, n) THEN scan[p][n] ELSE cache[n]
    BY <1>2 DEF Apply, Merged, Reloads
  <2>2. wrote[p][n] \in Nat /\ scan[p][n] \in Nat /\ cache[n] \in Nat
    BY <1>2, CacheNumbers DEF CacheInv
  <2>3. cache'[n] >= wrote[p][n]
    BY <1>2, <2>1, <2>2 DEF WritesScanned
  <2>4. p \notin raced => cache[n] <= scan[p][n]
    BY <1>2, <2>1 DEF CacheInv, UnracedScanIsNewer
  <2>5. cache'[n] < cache[n] => p \in raced /\ n \in scope[p]
    BY <2>1, <2>2, <2>4 DEF Reloads
  <2> QED
    BY <2>3, <2>5
<1>3. CacheInv /\ WritesScanned =>
         [\A p \in Procs : Apply(p) =>
             \A n \in Names :
                 /\ cache'[n] >= wrote[p][n]
                 /\ cache'[n] < cache[n] => p \in raced /\ n \in scope[p]]_cacheVars
  BY <1>2
<1> QED
  BY <1>1, <1>3, CacheInvariant, NextScanned, PTL DEF CacheSpec, ReloadIsVisible

=============================================================================
