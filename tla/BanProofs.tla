----------------------------- MODULE BanProofs -----------------------------
(***************************************************************************)
(* The ban feed, for any number of prefixes, any weights, threshold and    *)
(* window and any delay at the lock: types, how little pruning forgets,    *)
(* how far apart the lines of a prefix are, and that the feed loses and    *)
(* reorders nothing.                                                       *)
(*                                                                         *)
(* A call may have read the clock before calls that had the lock before    *)
(* it, so the times of a tracker are not ordered: the invariant says that  *)
(* they differ by one delay at most, and what is left of a line once its   *)
(* tracker is forgotten, which is that the window is nearly over.          *)
(***************************************************************************)
EXTENDS Ban, SequenceTheorems, TLAPS

\* A tracker in use: what it let through or emitted was at most a delay after it was last seen.
Known(t, time) ==
    /\ t \in Trackers
    /\ t.seen \in Nat /\ t.seen <= time
    /\ t.last <= time /\ t.last <= t.seen + MaxDelay
    /\ t.emitted <= time /\ t.emitted <= t.seen + MaxDelay

\* A call that has the lock at this time may have read "at" from the clock.
Reads(at, time) == at \in Nat /\ time \in Nat /\ at <= time /\ time <= at + MaxDelay

InUse(t, time) == t = NoTracker \/ Known(t, time)

Accounts == \A p \in Prefixes : InUse(trackers[p], now)

\* A line is remembered by the tracker of its prefix, or nearly a window ago.
Recalled(line, t, time) ==
    /\ line.time <= time
    /\ \/ line.time <= t.emitted /\ line.time <= t.seen + MaxDelay
       \/ time >= line.time + Window - MaxDelay

Remembered == \A i \in DOMAIN banned : Recalled(banned[i], trackers[banned[i].prefix], now)

IInv == TypeOK /\ Accounts /\ Remembered /\ OnePerWindow

-----------------------------------------------------------------------------
\* Arithmetic.

\* A product of natural numbers is one.
LEMMA Product == \A a, b \in Nat : a * b \in Nat
  OBVIOUS

\* Multiplying keeps the order.
LEMMA Order == \A a, b, c \in Nat : a >= b => a * c >= b * c
  OBVIOUS

\* A full bucket is Threshold * Window units.
LEMMA FullNat == Full \in Nat
  BY Product, BanAssumption DEF Full

\* What a limiter has is never negative and never more than full.
LEMMA AvailableType ==
    ASSUME NEW t \in Trackers, NEW at \in Int
    PROVE  Available(t, at) \in 0 .. Full
<1> DEFINE elapsed == IF at > t.last THEN at - t.last ELSE 0
           x == elapsed * Threshold
<1>1. t.tokens \in 0 .. Full /\ t.last \in Nat
  BY DEF Trackers
<1>2. x \in Nat
  BY <1>1, Product, BanAssumption
<1>3. Available(t, at) = IF t.tokens + x > Full THEN Full ELSE t.tokens + x
  BY DEF Available
<1> HIDE DEF x, elapsed
<1> QED
  BY <1>1, <1>2, <1>3, FullNat

\* What a limiter has some time after it last let something through.
LEMMA Refilled ==
    ASSUME NEW t \in Trackers, NEW at \in Int, NEW missing \in Nat, at - t.last >= Window - missing
    PROVE  Available(t, at) >= Full - missing * Threshold
<1> DEFINE elapsed == IF at > t.last THEN at - t.last ELSE 0
           x == elapsed * Threshold
           y == missing * Threshold
<1>1. t.tokens \in 0 .. Full /\ t.last \in Nat
  BY DEF Trackers
<1>2. elapsed \in Nat /\ elapsed + missing >= Window
  BY <1>1, BanAssumption
<1>3. x \in Nat /\ y \in Nat
  BY <1>2, Product, BanAssumption
<1>4. (elapsed + missing) * Threshold >= Window * Threshold
  <2> HIDE DEF elapsed
  <2> QED
    BY <1>2, Order, BanAssumption
<1>5. (elapsed + missing) * Threshold = x + y
  <2> HIDE DEF elapsed
  <2> QED
    BY <1>2, BanAssumption DEF x, y
<1>6. Window * Threshold = Full
  BY BanAssumption DEF Full
<1>7. Available(t, at) = IF t.tokens + x > Full THEN Full ELSE t.tokens + x
  BY DEF Available
<1>8. x + y >= Full
  BY <1>4, <1>5, <1>6
<1>9. Available(t, at) >= Full - y
  <2> HIDE DEF x, y, elapsed
  <2> QED
    BY <1>1, <1>3, <1>7, <1>8, FullNat
<1> QED
  BY <1>9 DEF y

\* What a call may have read is a time of the last delay.
LEMMA ReadingType ==
    ASSUME TypeOK, NEW at \in Readings
    PROVE  Reads(at, now)
  BY BanAssumption DEF TypeOK, Readings, Reads

-----------------------------------------------------------------------------
\* One strike.

\* A tracker in use is not the one that stands for none.
LEMMA KnownIsTracker == ASSUME NEW t, NEW time, Known(t, time) PROVE t # NoTracker
<1>1. t.tokens # Never
  BY FullNat DEF Known, Trackers, Never
<1>2. NoTracker.tokens = Never
  BY DEF NoTracker
<1> QED
  BY <1>1, <1>2

\* The tracker a strike starts from: in use, or new.
LEMMA TrackerType ==
    ASSUME NEW t, NEW time \in Nat, NEW at \in Nat, at <= time, InUse(t, time)
    PROVE  /\ Tracker(t, at) \in Trackers
           /\ Tracker(t, at).last <= time
           /\ Tracker(t, at).emitted <= time
           /\ Tracker(t, at).emitted = t.emitted
<1>1. CASE t = NoTracker
  <2>1. Tracker(t, at) = [tokens |-> Full, last |-> at, seen |-> Never, emitted |-> Never]
    BY <1>1 DEF Tracker, Fresh
  <2>2. t.emitted = Never
    BY <1>1 DEF NoTracker
  <2> QED
    BY <2>1, <2>2, FullNat DEF Trackers, Times, Never
<1>2. CASE Known(t, time)
  <2>1. Tracker(t, at) = t
    BY <1>2, KnownIsTracker DEF Tracker
  <2> QED
    BY <1>2, <2>1 DEF Known
<1> QED
  BY <1>1, <1>2 DEF InUse

\* A strike, field by field.
LEMMA StruckFields ==
    ASSUME NEW t, NEW weight, NEW at, Tracker(t, at) \in Trackers
    PROVE  LET a == Tracker(t, at)
               allow == AllowN(a, weight, at)
           IN Struck(t, weight, at) =
                 [tokens |-> IF allow THEN Available(a, at) - weight * Window ELSE a.tokens,
                  last |-> IF allow THEN at ELSE a.last,
                  seen |-> at,
                  emitted |-> IF allow \/ Throttled(a, at) THEN a.emitted ELSE at]
<1> DEFINE a == Tracker(t, at)
           b == [a EXCEPT !.seen = at]
<1>1. b = [tokens |-> a.tokens, last |-> a.last, seen |-> at, emitted |-> a.emitted]
  BY DEF Trackers
<1>2. Available(b, at) = Available(a, at) /\ (Throttled(b, at) <=> Throttled(a, at))
  BY <1>1 DEF Available, Throttled
<1>3. AllowN(b, weight, at) <=> AllowN(a, weight, at)
  BY <1>2 DEF AllowN
<1>4. Struck(t, weight, at) =
         IF AllowN(b, weight, at) THEN [b EXCEPT !.tokens = Available(b, at) - weight * Window, !.last = at]
         ELSE IF Throttled(b, at) THEN b ELSE [b EXCEPT !.emitted = at]
  BY DEF Struck
<1> HIDE DEF a
<1>5. CASE AllowN(a, weight, at)
  BY <1>1, <1>2, <1>3, <1>4, <1>5 DEF a
<1>6. CASE ~AllowN(a, weight, at) /\ Throttled(a, at)
  BY <1>1, <1>2, <1>3, <1>4, <1>6 DEF a
<1>7. CASE ~AllowN(a, weight, at) /\ ~Throttled(a, at)
  BY <1>1, <1>2, <1>3, <1>4, <1>7 DEF a
<1> QED
  BY <1>5, <1>6, <1>7

\* A strike gives a tracker in use, which is seen and perhaps emitted at the call's time.
LEMMA StruckKnown ==
    ASSUME NEW t, NEW weight \in Nat, NEW at, NEW time, Reads(at, time),
           InUse(t, time)
    PROVE  /\ Known(Struck(t, weight, at), time)
           /\ Struck(t, weight, at).seen = at
           /\ Breach(t, weight, at) => Struck(t, weight, at).emitted = at
           /\ ~Breach(t, weight, at) => Struck(t, weight, at).emitted = t.emitted
<1> DEFINE a == Tracker(t, at)
           s == Struck(t, weight, at)
<1>0. at \in Nat /\ time \in Nat /\ at <= time /\ time <= at + MaxDelay
  BY DEF Reads
<1>1. a \in Trackers /\ a.last <= time /\ a.emitted <= time /\ a.emitted = t.emitted
  BY <1>0, TrackerType
<1>2. /\ a.tokens \in 0 .. Full /\ a.last \in Nat /\ a.emitted \in Times
      /\ Available(a, at) \in 0 .. Full
  BY <1>0, <1>1, AvailableType DEF Trackers
<1>3. weight * Window \in Nat
  BY Product, BanAssumption
<1>4. AllowN(a, weight, at) => Available(a, at) - weight * Window \in 0 .. Full
  BY <1>2, <1>3, FullNat DEF AllowN
<1>5. /\ s.tokens = IF AllowN(a, weight, at) THEN Available(a, at) - weight * Window ELSE a.tokens
      /\ s.last = IF AllowN(a, weight, at) THEN at ELSE a.last
      /\ s.seen = at
      /\ s.emitted = IF AllowN(a, weight, at) \/ Throttled(a, at) THEN a.emitted ELSE at
      /\ s = [tokens |-> s.tokens, last |-> s.last, seen |-> s.seen, emitted |-> s.emitted]
  BY <1>1, StruckFields
<1> HIDE DEF s
<1>6. /\ s.tokens \in 0 .. Full /\ s.last \in Nat /\ s.last <= time
      /\ s.emitted \in Times /\ s.emitted <= time
  BY <1>0, <1>1, <1>2, <1>4, <1>5 DEF Times
<1>7. s \in Trackers
  BY <1>0, <1>5, <1>6 DEF Trackers, Times
<1>8. Known(s, time)
  BY <1>0, <1>5, <1>6, <1>7, BanAssumption DEF Known, Times, Never
<1>9. /\ Breach(t, weight, at) => s.emitted = at
      /\ ~Breach(t, weight, at) => s.emitted = t.emitted
  BY <1>1, <1>5 DEF Breach
<1> QED
  BY <1>5, <1>8, <1>9 DEF s

\* A line is made only by a call that is not throttled by the tracker it finds.
LEMMA BreachUnthrottled ==
    ASSUME NEW t, NEW weight, NEW time \in Nat, NEW at \in Nat, at <= time,
           InUse(t, time), Breach(t, weight, at)
    PROVE  t.emitted = Never \/ at - t.emitted >= Window
<1>1. Tracker(t, at) \in Trackers /\ Tracker(t, at).emitted = t.emitted
  BY TrackerType
<1>2. t.emitted \in Times
  BY <1>1 DEF Trackers
<1> QED
  BY <1>1, <1>2, BanAssumption DEF Breach, Throttled, Times, Never

-----------------------------------------------------------------------------
\* The steps.

\* The initial state satisfies the invariant.
LEMMA InitInv == Init => IInv
<1> SUFFICES ASSUME Init PROVE IInv
  OBVIOUS
<1>1. TypeOK
  <2>1. <<>> \in Seq(Lines)
    OBVIOUS
  <2>2. closed \in BOOLEAN
    BY DEF Init
  <2>3. now \in 0 .. MaxTime /\ faults \in 0 .. MaxFaults /\ lost \in Nat /\ before \in Nat
    BY BanAssumption DEF Init
  <2> QED
    BY <2>1, <2>2, <2>3 DEF Init, TypeOK
<1>2. Accounts
  BY DEF Init, Accounts, InUse
<1>3. Remembered /\ OnePerWindow
  BY DEF Init, Remembered, OnePerWindow
<1> QED
  BY <1>1, <1>2, <1>3 DEF IInv

\* What the lines are.
LEMMA LineTypes ==
    ASSUME TypeOK
    PROVE  \A i \in DOMAIN banned :
              banned[i].prefix \in Prefixes /\ banned[i].time \in Nat /\ i \in Nat
<1>1. banned \in Seq(Lines)
  BY DEF TypeOK
<1>2. \A i \in DOMAIN banned : banned[i] \in Lines /\ i \in Nat
  BY <1>1
<1> QED
  BY <1>2 DEF Lines

\* What the trackers are.
LEMMA TrackerTimes ==
    ASSUME TypeOK, NEW p \in Prefixes
    PROVE  trackers[p].emitted \in Times /\ trackers[p].seen \in Times
  BY DEF TypeOK, Trackers, NoTracker, Times, Never

\* A strike changes the tracker of its prefix.
LEMMA RecordAccounts ==
    ASSUME IInv, NEW q \in Prefixes, NEW weight \in Strikes, NEW at \in Readings, Record(q, weight, at)
    PROVE  Accounts' /\ trackers' \in [Prefixes -> Trackers \union {NoTracker}]
<1>1. /\ now' = now /\ weight \in Nat
      /\ trackers \in [Prefixes -> Trackers \union {NoTracker}]
      /\ trackers' = [trackers EXCEPT ![q] = Struck(trackers[q], weight, at)]
  BY BanAssumption DEF Record, IInv, TypeOK
<1>2. Reads(at, now)
  BY ReadingType DEF IInv
<1>3. Known(Struck(trackers[q], weight, at), now)
  BY <1>1, <1>2, StruckKnown DEF IInv, Accounts
<1>4. \A p \in Prefixes : trackers'[p] = NoTracker \/ Known(trackers'[p], now)
  BY <1>1, <1>3 DEF IInv, Accounts, InUse
<1>5. Struck(trackers[q], weight, at) \in Trackers
  BY <1>3 DEF Known
<1> QED
  BY <1>1, <1>4, <1>5 DEF Accounts, InUse

\* A strike leaves every line remembered, its own too.
LEMMA RecordLines ==
    ASSUME IInv, NEW q \in Prefixes, NEW weight \in Strikes, NEW at \in Readings, Record(q, weight, at)
    PROVE  Remembered' /\ OnePerWindow'
<1> DEFINE t == trackers[q]
           u == trackers'[q]
           breach == Breach(t, weight, at)
<1>1. /\ now' = now /\ weight \in Nat
      /\ \A p \in Prefixes : p # q => trackers'[p] = trackers[p]
      /\ u = Struck(t, weight, at)
      /\ banned \in Seq(Lines)
      /\ Window \in Nat /\ MaxDelay \in Nat
  BY BanAssumption DEF Record, IInv, TypeOK
<1>2. at \in Nat /\ now \in Nat /\ at <= now /\ now <= at + MaxDelay
  BY ReadingType DEF IInv, Reads
<1>3. InUse(t, now)
  BY DEF IInv, Accounts
<1>4. u.seen = at /\ (breach => u.emitted = at) /\ (~breach => u.emitted = t.emitted)
  <2>1. Reads(at, now)
    BY ReadingType DEF IInv
  <2>2. /\ Struck(t, weight, at).seen = at
        /\ Breach(t, weight, at) => Struck(t, weight, at).emitted = at
        /\ ~Breach(t, weight, at) => Struck(t, weight, at).emitted = t.emitted
    <3>1. weight \in Nat
      BY <1>1
    <3> HIDE DEF t
    <3> QED
      BY <3>1, <1>3, <2>1, StruckKnown
  <2> QED
    BY <1>1, <2>2
<1>5. t.emitted \in Times /\ t.seen \in Times
  BY TrackerTimes DEF IInv
<1>6. breach => t.emitted = Never \/ at - t.emitted >= Window
  BY <1>2, <1>3, BreachUnthrottled
<1> HIDE DEF t, u, breach
<1>7. ASSUME NEW line, line.time \in Nat, Recalled(line, t, now)
      PROVE  /\ Recalled(line, u, now)
             /\ breach => at - line.time >= Window - 2 * MaxDelay
  <2>1. CASE line.time <= t.emitted /\ line.time <= t.seen + MaxDelay
    <3>1. t.emitted \in Nat
      BY <1>5, <1>7, <2>1 DEF Times, Never
    <3>2. breach => at - t.emitted >= Window
      BY <1>6, <3>1 DEF Never
    <3>3. line.time <= now /\ t.emitted \in Nat /\ at \in Nat /\ now <= at + MaxDelay /\ MaxDelay \in Nat
      BY <1>1, <1>2, <1>7, <3>1 DEF Recalled
    <3>4. CASE breach
      <4>1. line.time <= at /\ at - line.time >= Window
        BY <1>1, <1>7, <2>1, <3>2, <3>3, <3>4
      <4>2. u.emitted = at /\ u.seen = at
        BY <1>4, <3>4
      <4>3. line.time <= u.emitted /\ line.time <= u.seen + MaxDelay
        BY <1>7, <3>3, <4>1, <4>2
      <4>4. at - line.time >= Window - 2 * MaxDelay
        BY <1>1, <1>7, <3>3, <4>1
      <4> QED
        BY <3>3, <4>3, <4>4 DEF Recalled
    <3>5. CASE ~breach
      <4>1. u.emitted = t.emitted /\ u.seen = at
        BY <1>4, <3>5
      <4>2. line.time <= u.emitted /\ line.time <= u.seen + MaxDelay
        BY <1>2, <1>7, <2>1, <3>3, <4>1
      <4> QED
        BY <3>3, <3>5, <4>2 DEF Recalled
    <3> QED
      BY <3>4, <3>5
  <2>2. CASE now >= line.time + Window - MaxDelay
    BY <1>1, <1>2, <1>7, <2>2 DEF Recalled
  <2> QED
    BY <1>7, <2>1, <2>2 DEF Recalled
<1>8. \A i \in DOMAIN banned : banned[i].prefix \in Prefixes /\ banned[i].time \in Nat /\ i \in Nat
  BY LineTypes DEF IInv
<1>9. \A i \in DOMAIN banned :
         /\ Recalled(banned[i], trackers'[banned[i].prefix], now)
         /\ breach /\ banned[i].prefix = q => at - banned[i].time >= Window - 2 * MaxDelay
  <2> SUFFICES ASSUME NEW i \in DOMAIN banned
               PROVE  /\ Recalled(banned[i], trackers'[banned[i].prefix], now)
                      /\ breach /\ banned[i].prefix = q => at - banned[i].time >= Window - 2 * MaxDelay
    OBVIOUS
  <2>1. Recalled(banned[i], trackers[banned[i].prefix], now) /\ banned[i].time \in Nat
    BY <1>8 DEF IInv, Remembered
  <2>2. CASE banned[i].prefix = q
    BY <1>7, <2>1, <2>2 DEF t, u
  <2>3. CASE banned[i].prefix # q
    BY <1>1, <1>8, <2>1, <2>3
  <2> QED
    BY <2>2, <2>3
<1>10. CASE ~breach
  <2>1. banned' = banned
    BY <1>1, <1>10 DEF Record, breach, t
  <2> QED
    BY <1>1, <1>9, <2>1 DEF IInv, OnePerWindow, Remembered
<1>11. CASE breach
  <2> DEFINE line == [prefix |-> q, time |-> at]
             n == Len(banned) + 1
  <2>1. banned' = Append(banned, line)
    BY <1>1, <1>11 DEF Record, breach, t
  <2>2. /\ DOMAIN banned' = DOMAIN banned \union {n}
        /\ n \notin DOMAIN banned /\ n \in Nat
        /\ \A i \in DOMAIN banned : banned'[i] = banned[i] /\ i \in Nat /\ i < n
        /\ banned'[n] = line
    BY <1>1, <2>1
  <2>3. Recalled(line, u, now)
    BY <1>1, <1>2, <1>4, <1>11 DEF Recalled
  <2> HIDE DEF n
  <2>4. Remembered'
    BY <1>1, <1>9, <2>2, <2>3 DEF Remembered, u
  <2>5. OnePerWindow'
    <3> SUFFICES ASSUME NEW i \in DOMAIN banned', NEW j \in DOMAIN banned',
                        i < j, banned'[i].prefix = banned'[j].prefix
                 PROVE  banned'[j].time - banned'[i].time >= Window - 2 * MaxDelay
      BY DEF OnePerWindow
    <3>1. CASE j \in DOMAIN banned
      <4>1. i \in DOMAIN banned
        BY <2>2, <3>1
      <4> QED
        BY <2>2, <3>1, <4>1 DEF IInv, OnePerWindow
    <3>2. CASE j = n
      <4>1. i \in DOMAIN banned
        BY <2>2, <3>2
      <4>2. banned[i].prefix = q /\ banned'[i] = banned[i] /\ banned'[j].time = at
        BY <2>2, <3>2, <4>1
      <4> QED
        BY <1>9, <1>11, <4>1, <4>2
    <3> QED
      BY <2>2, <3>1, <3>2
  <2> QED
    BY <2>4, <2>5
<1> QED
  BY <1>10, <1>11

\* A strike keeps the types.
LEMMA RecordTypes ==
    ASSUME IInv, NEW q \in Prefixes, NEW weight \in Strikes, NEW at \in Readings, Record(q, weight, at)
    PROVE  TypeOK'
<1> USE DEF IInv
<1>1. trackers' \in [Prefixes -> Trackers \union {NoTracker}]
  BY RecordAccounts
<1>2. banned' \in Seq(Lines) /\ pending' \in Seq(Lines)
  <2> DEFINE new == IF Breach(trackers[q], weight, at) THEN <<[prefix |-> q, time |-> at]>> ELSE <<>>
  <2>1. [prefix |-> q, time |-> at] \in Lines
    BY ReadingType DEF Reads, Lines
  <2>2. new \in Seq(Lines)
    BY <2>1
  <2>3. banned' = banned \o new /\ pending' = pending \o new
    BY DEF Record
  <2> HIDE DEF new
  <2> QED
    BY <2>2, <2>3 DEF TypeOK
<1>3. closed' \in BOOLEAN
  BY DEF Record, TypeOK
<1> QED
  BY <1>1, <1>2, <1>3 DEF Record, feed, TypeOK

(***************************************************************************)
(* What prune forgets was last seen a window before the time prune read,   *)
(* and so let through and emitted nothing since a window and a delay.      *)
(***************************************************************************)
LEMMA Forgotten ==
    ASSUME IInv, NEW at \in Readings, NEW p \in Prefixes, Known(trackers[p], now),
           at - trackers[p].seen >= Window
    PROVE  /\ now >= trackers[p].last + Window - MaxDelay
           /\ now >= trackers[p].emitted + Window - MaxDelay
           /\ now >= trackers[p].seen + Window
<1>1. at \in Nat /\ now \in Nat /\ at <= now
  BY ReadingType DEF IInv, Reads
<1>2. /\ trackers[p].last \in Nat /\ trackers[p].emitted \in Times /\ trackers[p].seen \in Nat
  BY DEF Known, Trackers
<1> QED
  BY <1>1, <1>2, BanAssumption DEF Known, Times, Never

\* Pruning leaves the lines remembered and the trackers in use.
LEMMA PruneInv == ASSUME IInv, NEW at \in Readings, prune(at) PROVE IInv'
<1>1. /\ now' = now /\ banned' = banned /\ closed' = closed
      /\ trackers' = [p \in Prefixes |->
            IF trackers[p] # NoTracker /\ at - trackers[p].seen >= Window THEN NoTracker ELSE trackers[p]]
  BY DEF prune
<1>2. TypeOK'
  <2>1. trackers' \in [Prefixes -> Trackers \union {NoTracker}]
    BY <1>1 DEF IInv, TypeOK
  <2>2. closed' \in BOOLEAN
    BY <1>1 DEF IInv, TypeOK
  <2> QED
    BY <1>1, <2>1, <2>2 DEF prune, feed, IInv, TypeOK
<1>3. Accounts'
  BY <1>1 DEF IInv, Accounts, InUse
<1>4. Remembered'
  <2> SUFFICES ASSUME NEW i \in DOMAIN banned
               PROVE  Recalled(banned[i], trackers'[banned[i].prefix], now)
    BY <1>1 DEF Remembered
  <2> DEFINE p == banned[i].prefix
  <2>1. /\ p \in Prefixes /\ banned[i].time \in Nat
        /\ Recalled(banned[i], trackers[p], now)
    BY LineTypes DEF IInv, Remembered
  <2> HIDE DEF p
  <2>2. CASE trackers[p] # NoTracker /\ at - trackers[p].seen >= Window
    <3>1. /\ Known(trackers[p], now)
          /\ now >= trackers[p].emitted + Window - MaxDelay
      BY <2>1, <2>2, Forgotten DEF IInv, Accounts, InUse
    <3>2. trackers[p].emitted \in Times /\ now \in Nat
      BY <2>1, TrackerTimes, BanAssumption DEF IInv, TypeOK
    <3>3. now >= banned[i].time + Window - MaxDelay
      BY <2>1, <3>1, <3>2, BanAssumption DEF Recalled, Times, Never
    <3> QED
      BY <2>1, <3>3 DEF Recalled, p
  <2>3. CASE ~(trackers[p] # NoTracker /\ at - trackers[p].seen >= Window)
    BY <1>1, <2>1, <2>3 DEF p
  <2> QED
    BY <2>2, <2>3
<1>5. OnePerWindow'
  BY <1>1 DEF IInv, OnePerWindow
<1> QED
  BY <1>2, <1>3, <1>4, <1>5 DEF IInv

\* As time goes on, what is in use stays so and what is remembered too.
LEMMA LaterInv ==
    ASSUME IInv, TypeOK', UNCHANGED accounting, now' \in {now, now + 1}
    PROVE  IInv'
<1>1. /\ trackers' = trackers /\ banned' = banned /\ now \in Nat /\ now' \in Nat /\ now' >= now
      /\ Window \in Nat /\ MaxDelay \in Nat
  BY BanAssumption DEF accounting, IInv, TypeOK
<1>2. Accounts'
  <2> SUFFICES ASSUME NEW p \in Prefixes, Known(trackers[p], now) PROVE Known(trackers[p], now')
    BY <1>1 DEF IInv, Accounts, InUse
  <2>1. trackers[p].last \in Nat /\ trackers[p].emitted \in Times /\ trackers[p].seen \in Nat
    BY DEF Known, Trackers
  <2> QED
    BY <1>1, <2>1 DEF Known, Times, Never
<1>3. Remembered'
  <2> SUFFICES ASSUME NEW i \in DOMAIN banned
               PROVE  Recalled(banned[i], trackers[banned[i].prefix], now')
    BY <1>1 DEF Remembered
  <2>1. banned[i].time \in Nat /\ Recalled(banned[i], trackers[banned[i].prefix], now)
    BY LineTypes DEF IInv, Remembered
  <2> QED
    BY <1>1, <2>1 DEF Recalled
<1>4. OnePerWindow'
  BY <1>1 DEF IInv, OnePerWindow
<1> QED
  BY <1>2, <1>3, <1>4 DEF IInv

\* The clock, the write loop and Close keep the types.
LEMMA OtherTypes == ASSUME IInv, Tick \/ WriterStep \/ FlushFails \/ Close PROVE TypeOK'
<1> USE DEF IInv, accounting, feed
<1>1. CASE Tick
  <2>1. closed' \in BOOLEAN
    BY <1>1 DEF Tick, TypeOK
  <2> QED
    BY <1>1, <2>1, BanAssumption DEF Tick, TypeOK
<1>2. ASSUME NEW state \in {"writing", "final"}, Take(state) PROVE TypeOK'
  <2>1. closed' \in BOOLEAN
    BY <1>2 DEF Take, TypeOK
  <2> QED
    BY <1>2, <2>1 DEF Take, TypeOK
<1>3. CASE WriteLine
  <2>1. closed' \in BOOLEAN
    BY <1>3 DEF WriteLine, TypeOK
  <2>2. Head(lines) \in Lines /\ Tail(lines) \in Seq(Lines)
    BY <1>3 DEF WriteLine, TypeOK
  <2> QED
    BY <1>3, <2>1, <2>2 DEF WriteLine, TypeOK
<1>4. CASE FlushDone
  <2>1. closed' \in BOOLEAN
    BY <1>4 DEF FlushDone, TypeOK
  <2> QED
    BY <1>4, <2>1 DEF FlushDone, AfterFlush, TypeOK
<1>5. CASE FlushFails
  <2>1. closed' \in BOOLEAN
    BY <1>5 DEF FlushFails, TypeOK
  <2>2. faults' \in 0 .. MaxFaults /\ lost' \in Nat /\ lines' \in Seq(Lines)
    BY <1>5, BanAssumption DEF FlushFails, TypeOK
  <2> QED
    BY <1>5, <2>1, <2>2 DEF FlushFails, AfterFlush, TypeOK
<1>6. CASE Close
  <2>1. closed' \in BOOLEAN
    BY <1>6 DEF Close
  <2> QED
    BY <1>6, <2>1 DEF Close, TypeOK
<1> QED
  BY <1>1, <1>2, <1>3, <1>4, <1>5, <1>6 DEF WriterStep, FlushTick, FlushOnClose

\* Every step keeps the invariant.
LEMMA NextInv == IInv /\ [Next]_vars => IInv'
<1> SUFFICES ASSUME IInv, [Next]_vars PROVE IInv'
  OBVIOUS
<1>1. ASSUME NEW p \in Prefixes, NEW weight \in Strikes, NEW at \in Readings, Record(p, weight, at) PROVE IInv'
  BY <1>1, RecordAccounts, RecordLines, RecordTypes DEF IInv
<1>2. ASSUME NEW at \in Readings, prune(at) PROVE IInv'
  BY <1>2, PruneInv
<1>3. CASE Tick \/ WriterStep \/ FlushFails \/ Close
  <2>1. UNCHANGED accounting /\ now' \in {now, now + 1}
    BY <1>3 DEF Tick, WriterStep, FlushTick, FlushOnClose, Take, WriteLine, FlushDone, FlushFails, Close
  <2> QED
    BY <1>3, <2>1, OtherTypes, LaterInv
<1>4. CASE UNCHANGED vars
  <2>1. UNCHANGED accounting /\ now' \in {now, now + 1} /\ closed' = closed
    BY <1>4 DEF vars
  <2>2. TypeOK'
    BY <1>4, <2>1 DEF vars, accounting, feed, IInv, TypeOK
  <2> QED
    BY <2>1, <2>2, LaterInv
<1> QED
  BY <1>1, <1>2, <1>3, <1>4 DEF Next

\* Hence it holds always.
THEOREM InvAlways == Spec => []IInv
  BY InitInv, NextInv, PTL DEF Spec

\* The variables of the ban feed have their types.
THEOREM TypeCorrect == Spec => []TypeOK
<1>1. IInv => TypeOK
  BY DEF IInv
<1> QED
  BY <1>1, InvAlways, PTL

\* Only prune forgets a tracker.
LEMMA OnlyPruneForgets ==
    ASSUME IInv, [Next]_vars, NEW p \in Prefixes, Forgets(p)
    PROVE  \E at \in Readings : at - trackers[p].seen >= Window
<1>1. trackers' # trackers
  BY DEF Forgets
<1>2. ASSUME NEW q \in Prefixes, NEW weight \in Strikes, NEW at \in Readings, Record(q, weight, at)
      PROVE  FALSE
  <2>1. /\ trackers \in [Prefixes -> Trackers \union {NoTracker}] /\ weight \in Nat
        /\ trackers' = [trackers EXCEPT ![q] = Struck(trackers[q], weight, at)]
    BY <1>2, BanAssumption DEF Record, IInv, TypeOK
  <2>2. Struck(trackers[q], weight, at) # NoTracker
    BY <1>2, <2>1, ReadingType, StruckKnown, KnownIsTracker DEF IInv, Accounts
  <2> QED
    BY <2>1, <2>2 DEF Forgets
<1>3. ASSUME NEW at \in Readings, prune(at) PROVE at - trackers[p].seen >= Window
  BY <1>3 DEF prune, Forgets
<1>4. ~(Tick \/ WriterStep \/ FlushFails \/ Close \/ UNCHANGED vars)
  BY <1>1 DEF Tick, WriterStep, FlushTick, FlushOnClose, Take, WriteLine, FlushDone, FlushFails, Close,
              vars, accounting
<1> QED
  BY <1>2, <1>3, <1>4 DEF Next

(***************************************************************************)
(* A prefix that is forgotten has refilled and is past its throttle for    *)
(* every later call, but for two delays at the lock, whatever the          *)
(* threshold, the window, the weights and the delay.                       *)
(***************************************************************************)
THEOREM PruningForgetsLittle == Spec => PruneForgetsLittle
<1>1. ASSUME IInv, [Next]_vars, NEW p \in Prefixes, Forgets(p)
      PROVE  LET t == trackers[p]
                 earliest == now - MaxDelay
             IN /\ Available(t, earliest) >= Full - 2 * MaxDelay * Threshold
                /\ t.emitted # Never => earliest - t.emitted >= Window - 2 * MaxDelay
  <2>1. PICK at \in Readings : at - trackers[p].seen >= Window
    BY <1>1, OnlyPruneForgets
  <2>2. Known(trackers[p], now)
    BY <1>1 DEF IInv, Accounts, Forgets, InUse
  <2>3. /\ now >= trackers[p].last + Window - MaxDelay
        /\ now >= trackers[p].emitted + Window - MaxDelay
    BY <1>1, <2>1, <2>2, Forgotten
  <2>4. /\ trackers[p] \in Trackers /\ trackers[p].last \in Nat /\ trackers[p].emitted \in Times
        /\ now \in Nat /\ MaxDelay \in Nat /\ Window \in Nat
    BY <1>1, <2>2, BanAssumption DEF Known, Trackers, IInv, TypeOK
  <2>5. /\ now - MaxDelay \in Int /\ 2 * MaxDelay \in Nat
        /\ (now - MaxDelay) - trackers[p].last >= Window - 2 * MaxDelay
    BY <2>3, <2>4
  <2>6. Available(trackers[p], now - MaxDelay) >= Full - 2 * MaxDelay * Threshold
    BY <2>4, <2>5, Refilled
  <2>7. trackers[p].emitted # Never => (now - MaxDelay) - trackers[p].emitted >= Window - 2 * MaxDelay
    BY <2>3, <2>4 DEF Times, Never
  <2> QED
    BY <2>6, <2>7
<1>2. IInv /\ [Next]_vars =>
         [\A p \in Prefixes : Forgets(p) =>
             LET t == trackers[p]
                 earliest == now - MaxDelay
             IN /\ Available(t, earliest) >= Full - 2 * MaxDelay * Threshold
                /\ t.emitted # Never => earliest - t.emitted >= Window - 2 * MaxDelay]_vars
  BY <1>1
<1> QED
  BY <1>2, InvAlways, PTL DEF Spec, PruneForgetsLittle

(***************************************************************************)
(* Two ban lines of one prefix are a window apart but for two delays at    *)
(* the lock, however often the prefix was forgotten in between.            *)
(***************************************************************************)
THEOREM OneLinePerWindow == Spec => []OnePerWindow
<1>1. IInv => OnePerWindow
  BY DEF IInv
<1> QED
  BY <1>1, InvAlways, PTL

-----------------------------------------------------------------------------
\* The feed: a line is banned, pending, taken and then in the file or lost.

(***************************************************************************)
(* The queue from Record to the file, place by place: after the k lines    *)
(* that were lost and those of the file f come the lines l that flush has  *)
(* taken, and then the pending ones p, as they are in b.                   *)
(***************************************************************************)
Queue(f, k, l, p, b) ==
    /\ Len(p) = Len(b) - k - Len(f) - Len(l)
    /\ \A i \in 1 .. Len(l) : l[i] = b[Len(f) + k + i]
    /\ \A i \in 1 .. Len(p) : p[i] = b[Len(f) + k + Len(l) + i]
    /\ k = 0 => \A i \in 1 .. Len(f) : f[i] = b[i]

\* Between flushes the loop holds no line, and the last flush takes all that Close saw.
Drained ==
    /\ writer \in {"waiting", "ended"} => lines = <<>>
    /\ before <= Len(banned)
    /\ writer \in {"final", "ended"} => Len(file) + lost + Len(lines) >= before
    /\ ~closed => before = 0 /\ writer \in {"waiting", "writing"}

FeedInv ==
    /\ Queue(file, lost, lines, pending, banned)
    /\ Drained

\* Record adds at the end of the queue.
LEMMA QueueAdd ==
    ASSUME NEW S, NEW f \in Seq(S), NEW k \in Nat, NEW l \in Seq(S), NEW p \in Seq(S), NEW b \in Seq(S),
           NEW new \in Seq(S), Queue(f, k, l, p, b)
    PROVE  Queue(f, k, l, p \o new, b \o new)
<1> DEFINE q == p \o new
           c == b \o new
<1>1. /\ Len(q) = Len(p) + Len(new) /\ Len(c) = Len(b) + Len(new)
      /\ \A i \in 1 .. Len(q) : q[i] = IF i <= Len(p) THEN p[i] ELSE new[i - Len(p)]
      /\ \A i \in 1 .. Len(c) : c[i] = IF i <= Len(b) THEN b[i] ELSE new[i - Len(b)]
  BY ConcatProperties
<1>2. Len(f) \in Nat /\ Len(l) \in Nat /\ Len(p) \in Nat /\ Len(b) \in Nat /\ Len(new) \in Nat
  OBVIOUS
<1> HIDE DEF q, c
<1>3. Len(q) = Len(c) - k - Len(f) - Len(l)
  <2>1. Len(q) = Len(p) + Len(new) /\ Len(c) = Len(b) + Len(new)
    BY <1>1
  <2> QED
    BY <2>1 DEF Queue
<1>4. ASSUME NEW i \in 1 .. Len(l) PROVE l[i] = c[Len(f) + k + i]
  <2> DEFINE j == Len(f) + k + i
  <2>1. j \in 1 .. Len(b)
    BY <1>2, <1>4 DEF Queue
  <2>2. l[i] = b[j]
    BY <1>4 DEF Queue
  <2> HIDE DEF j
  <2>3. j \in 1 .. Len(c) /\ j <= Len(b)
    BY <1>1, <1>2, <2>1
  <2>4. c[j] = b[j]
    BY <1>1, <2>3
  <2> QED
    BY <2>2, <2>4 DEF j
<1>5. ASSUME NEW i \in 1 .. Len(q) PROVE q[i] = c[Len(f) + k + Len(l) + i]
  <2> DEFINE j == Len(f) + k + Len(l) + i
  <2>1. /\ j \in 1 .. Len(c) /\ (i <= Len(p) <=> j <= Len(b))
        /\ j - Len(b) = i - Len(p)
    BY <1>2, <1>3, <1>5 DEF Queue
  <2>2. i <= Len(p) => p[i] = b[j]
    BY <1>2, <1>5 DEF Queue
  <2> HIDE DEF j
  <2>3. q[i] = c[j]
    BY <1>1, <1>5, <2>1, <2>2
  <2> QED
    BY <2>3 DEF j
<1>6. ASSUME k = 0, NEW i \in 1 .. Len(f) PROVE f[i] = c[i]
  <2>1. f[i] = b[i] /\ i \in 1 .. Len(b)
    BY <1>2, <1>6 DEF Queue
  <2>2. i \in 1 .. Len(c) /\ i <= Len(b)
    BY <1>1, <1>2, <2>1
  <2> QED
    BY <1>1, <2>1, <2>2
<1>7. Queue(f, k, l, q, c)
  BY <1>3, <1>4, <1>5, <1>6 DEF Queue
<1> QED
  BY <1>7 DEF q, c

\* flush takes all that is pending.
LEMMA QueueTake ==
    ASSUME NEW S, NEW f \in Seq(S), NEW k \in Nat, NEW p \in Seq(S), NEW b \in Seq(S),
           Queue(f, k, <<>>, p, b)
    PROVE  Queue(f, k, p, <<>>, b)
<1>1. Len(<<>>) = 0 /\ Len(f) \in Nat /\ Len(p) \in Nat /\ Len(b) \in Nat
  BY EmptySeq
<1>2. Len(<<>>) = Len(b) - k - Len(f) - Len(p)
  BY <1>1 DEF Queue
<1>3. ASSUME NEW i \in 1 .. Len(p) PROVE p[i] = b[Len(f) + k + i]
  <2>1. Len(f) + k + Len(<<>>) + i = Len(f) + k + i
    BY <1>1
  <2> QED
    BY <1>3, <2>1 DEF Queue
<1> QED
  BY <1>1, <1>2, <1>3 DEF Queue

\* A line that is written moves from the front of the batch to the end of the file.
LEMMA QueueWrite ==
    ASSUME NEW S, NEW f \in Seq(S), NEW k \in Nat, NEW l \in Seq(S), NEW p \in Seq(S), NEW b \in Seq(S),
           l # <<>>, Queue(f, k, l, p, b)
    PROVE  Queue(Append(f, Head(l)), k, Tail(l), p, b)
<1> DEFINE g == Append(f, Head(l))
           m == Tail(l)
<1>1. /\ Head(l) = l[1] /\ Len(l) \in Nat \ {0}
      /\ Len(m) = Len(l) - 1
      /\ \A i \in 1 .. Len(m) : m[i] = l[i + 1]
  BY HeadTailProperties
<1>2. /\ Len(g) = Len(f) + 1
      /\ \A i \in 1 .. Len(f) : g[i] = f[i]
      /\ g[Len(f) + 1] = l[1]
  BY <1>1, AppendProperties
<1>3. Len(f) \in Nat /\ Len(p) \in Nat /\ Len(b) \in Nat
  OBVIOUS
<1> HIDE DEF g, m
<1>4. Len(p) = Len(b) - k - Len(g) - Len(m)
  <2>1. Len(g) = Len(f) + 1 /\ Len(m) = Len(l) - 1
    BY <1>1, <1>2
  <2> QED
    BY <2>1 DEF Queue
<1>5. \A i \in 1 .. Len(m) : m[i] = b[Len(g) + k + i]
  <2> SUFFICES ASSUME NEW i \in 1 .. Len(m) PROVE m[i] = b[Len(g) + k + i]
    OBVIOUS
  <2>1. m[i] = l[i + 1] /\ i + 1 \in 1 .. Len(l)
    BY <1>1
  <2>2. l[i + 1] = b[Len(f) + k + (i + 1)]
    BY <2>1 DEF Queue
  <2>3. Len(f) + k + (i + 1) = Len(g) + k + i
    BY <1>2, <1>3
  <2> QED
    BY <2>1, <2>2, <2>3
<1>6. \A i \in 1 .. Len(p) : p[i] = b[Len(g) + k + Len(m) + i]
  BY <1>1, <1>2, <1>3 DEF Queue
<1>7. ASSUME k = 0, NEW i \in 1 .. Len(g) PROVE g[i] = b[i]
  <2>1. l[1] = b[Len(f) + 1]
    BY <1>1, <1>3, <1>7 DEF Queue
  <2>2. CASE i \in 1 .. Len(f)
    BY <1>2, <1>7, <2>2 DEF Queue
  <2>3. CASE i = Len(f) + 1
    BY <1>2, <2>1, <2>3
  <2>4. i \in 1 .. Len(f) \/ i = Len(f) + 1
    BY <1>2, <1>3, <1>7
  <2> QED
    BY <2>2, <2>3, <2>4
<1>8. Queue(g, k, m, p, b)
  BY <1>4, <1>5, <1>6, <1>7 DEF Queue
<1> QED
  BY <1>8 DEF g, m

\* A failing write drops the rest of the batch.
LEMMA QueueDrop ==
    ASSUME NEW S, NEW f \in Seq(S), NEW k \in Nat, NEW l \in Seq(S), NEW p \in Seq(S), NEW b \in Seq(S),
           l # <<>>, Queue(f, k, l, p, b)
    PROVE  Queue(f, k + Len(l), <<>>, p, b)
<1>1. Len(l) \in Nat \ {0} /\ Len(f) \in Nat /\ Len(p) \in Nat /\ Len(b) \in Nat /\ Len(<<>>) = 0
  BY EmptySeq
<1>2. \A i \in 1 .. Len(p) : p[i] = b[Len(f) + (k + Len(l)) + Len(<<>>) + i]
  BY <1>1 DEF Queue
<1> QED
  BY <1>1, <1>2 DEF Queue

\* The queue read as sequences.
LEMMA QueueIsRest ==
    ASSUME NEW S, NEW f \in Seq(S), NEW k \in Nat, NEW l \in Seq(S), NEW p \in Seq(S), NEW b \in Seq(S),
           Queue(f, k, l, p, b)
    PROVE  /\ Len(f) + k + Len(l \o p) = Len(b)
           /\ l \o p = SubSeq(b, Len(f) + k + 1, Len(b))
           /\ k = 0 => f = SubSeq(b, 1, Len(f) + k)
<1> DEFINE r == l \o p
           n == Len(f) + k
           s == SubSeq(b, n + 1, Len(b))
           t == SubSeq(b, 1, n)
<1>1. Len(f) \in Nat /\ Len(p) \in Nat /\ Len(b) \in Nat /\ Len(l) \in Nat /\ n \in Nat
  OBVIOUS
<1>2. /\ r \in Seq(S) /\ Len(r) = Len(l) + Len(p)
      /\ \A i \in 1 .. Len(r) : r[i] = IF i <= Len(l) THEN l[i] ELSE p[i - Len(l)]
  BY ConcatProperties
<1>3. n + Len(r) = Len(b)
  BY <1>1, <1>2 DEF Queue
<1>4. \A i \in 1 .. Len(r) : r[i] = b[n + i]
  BY <1>1, <1>2 DEF Queue
<1>5. n + 1 \in 1 .. Len(b) + 1 /\ n \in 0 .. Len(b) /\ Len(b) \in n .. Len(b)
  BY <1>1, <1>2, <1>3
<1>6. /\ s \in Seq(S) /\ Len(s) = Len(r)
      /\ \A i \in 1 .. Len(r) : s[i] = b[n + i]
  <2>1. /\ s \in Seq(S)
        /\ Len(s) = IF n + 1 <= Len(b) THEN Len(b) - (n + 1) + 1 ELSE 0
        /\ \A i \in 1 .. Len(b) - (n + 1) + 1 : s[i] = b[(n + 1) + i - 1]
    BY <1>1, <1>5, SubSeqProperties
  <2>2. Len(r) \in Nat
    BY <1>2
  <2> HIDE DEF s, r, n
  <2>3. Len(b) - (n + 1) + 1 = Len(r) /\ (n + 1 <= Len(b) \/ Len(r) = 0)
    BY <1>1, <1>3, <2>2
  <2>4. \A i \in 1 .. Len(r) : (n + 1) + i - 1 = n + i
    BY <1>1, <2>2
  <2> QED
    BY <2>1, <2>2, <2>3, <2>4
<1>7. /\ t \in Seq(S) /\ Len(t) = n
      /\ \A i \in 1 .. n : t[i] = b[i]
  <2>1. /\ t \in Seq(S)
        /\ Len(t) = IF 1 <= n THEN n - 1 + 1 ELSE 0
        /\ \A i \in 1 .. n - 1 + 1 : t[i] = b[1 + i - 1]
    BY <1>1, <1>5, SubSeqProperties
  <2> HIDE DEF t, n
  <2> QED
    BY <2>1, <1>1
<1> HIDE DEF r, s, t
<1>8. r = s
  BY <1>2, <1>4, <1>6, SeqEqual
<1>9. k = 0 => f = t
  BY <1>1, <1>7, SeqEqual DEF Queue
<1> QED
  BY <1>3, <1>8, <1>9 DEF r, s, t

\* The feed is empty at first.
LEMMA InitFeed == Init => FeedInv
<1>1. Len(<<>>) = 0
  BY EmptySeq
<1>2. ASSUME NEW e, Len(e) = 0 PROVE Queue(e, 0, e, e, e)
  <2>1. Len(e) = Len(e) - 0 - Len(e) - Len(e) /\ 1 .. Len(e) = {}
    BY <1>2
  <2> QED
    BY <2>1 DEF Queue
<1>3. Queue(<<>>, 0, <<>>, <<>>, <<>>)
  BY <1>1, <1>2
<1> QED
  BY <1>1, <1>3 DEF Init, FeedInv, Drained

\* Every step keeps the queue and the draining.
LEMMA NextFeed == IInv /\ FeedInv /\ [Next]_vars => FeedInv'
<1> SUFFICES ASSUME TypeOK, FeedInv, [Next]_vars PROVE FeedInv'
  BY DEF IInv
<1> DEFINE Q == Queue(file, lost, lines, pending, banned)
<1>1. /\ file \in Seq(Lines) /\ lost \in Nat /\ lines \in Seq(Lines) /\ before \in Nat
      /\ pending \in Seq(Lines) /\ banned \in Seq(Lines)
      /\ Len(file) \in Nat /\ Len(lines) \in Nat /\ Len(banned) \in Nat
      /\ Q
  BY DEF TypeOK, FeedInv
<1>2. ASSUME NEW p \in Prefixes, NEW weight \in Strikes, NEW at \in Readings, Record(p, weight, at) PROVE FeedInv'
  <2> DEFINE new == IF Breach(trackers[p], weight, at) THEN <<[prefix |-> p, time |-> at]>> ELSE <<>>
  <2>1. [prefix |-> p, time |-> at] \in Lines
    BY ReadingType DEF Reads, Lines
  <2>2. new \in Seq(Lines)
    BY <2>1
  <2>3. /\ banned' = banned \o new /\ pending' = pending \o new
        /\ UNCHANGED <<file, lost, lines, writer, closed, before>>
    BY <1>2 DEF Record, feed
  <2> HIDE DEF new
  <2>4. Queue(file, lost, lines, pending \o new, banned \o new)
    BY <1>1, <2>2, QueueAdd
  <2>5. Len(banned \o new) >= Len(banned)
    BY <1>1, <2>2
  <2>6. Drained'
    BY <1>1, <2>2, <2>3, <2>5 DEF FeedInv, Drained
  <2> QED
    BY <2>3, <2>4, <2>6 DEF FeedInv
<1>3. ASSUME NEW state \in {"writing", "final"}, Take(state), state = "final" => closed PROVE FeedInv'
  <2>1. lines = <<>> /\ lines' = pending /\ pending' = <<>> /\ writer' = state
    BY <1>3 DEF Take, FeedInv, Drained
  <2>2. UNCHANGED <<file, lost, banned, closed, before>>
    BY <1>3 DEF Take, accounting
  <2>3. Queue(file, lost, pending, <<>>, banned)
    BY <1>1, <2>1, QueueTake
  <2>4. Len(file) + lost + Len(pending) = Len(banned)
    BY <1>1, <2>1 DEF Queue
  <2>5. Drained'
    BY <1>1, <1>3, <2>1, <2>2, <2>4 DEF FeedInv, Drained
  <2> QED
    BY <2>1, <2>2, <2>3, <2>5 DEF FeedInv
<1>4. CASE WriteLine
  <2>1. /\ lines # <<>> /\ file' = Append(file, Head(lines)) /\ lines' = Tail(lines)
        /\ UNCHANGED <<lost, pending, banned, writer, closed, before>>
        /\ writer \in {"writing", "final"}
    BY <1>4 DEF WriteLine, Writing, accounting
  <2>2. Queue(Append(file, Head(lines)), lost, Tail(lines), pending, banned)
    BY <1>1, <2>1, QueueWrite
  <2>3. Len(file') = Len(file) + 1 /\ Len(lines') = Len(lines) - 1
    BY <1>1, <2>1
  <2>4. Drained'
    BY <1>1, <2>1, <2>3 DEF FeedInv, Drained
  <2> QED
    BY <2>1, <2>2, <2>4 DEF FeedInv
<1>5. CASE FlushDone
  <2>1. /\ lines = <<>> /\ writer' = AfterFlush /\ writer \in {"writing", "final"}
        /\ UNCHANGED <<file, lost, lines, pending, banned, closed, before>>
    BY <1>5 DEF FlushDone, Writing, accounting
  <2>2. Drained'
    BY <2>1 DEF FeedInv, Drained, AfterFlush
  <2> QED
    BY <2>1, <2>2, <1>1 DEF FeedInv
<1>6. CASE FlushFails
  <2>1. /\ lines # <<>> /\ lines' = <<>> /\ lost' = lost + Len(lines)
        /\ writer' = AfterFlush /\ writer \in {"writing", "final"}
        /\ UNCHANGED <<file, pending, banned, closed, before>>
    BY <1>6 DEF FlushFails, Writing, accounting
  <2>2. Queue(file, lost + Len(lines), <<>>, pending, banned)
    BY <1>1, <2>1, QueueDrop
  <2>3. Len(lines') = 0
    BY <2>1
  <2>4. Drained'
    BY <1>1, <2>1, <2>3 DEF FeedInv, Drained, AfterFlush
  <2> QED
    BY <2>1, <2>2, <2>4 DEF FeedInv
<1>7. CASE Close
  <2>1. /\ ~closed /\ closed' = TRUE /\ before' = Len(banned)
        /\ UNCHANGED <<file, lost, lines, pending, banned, writer>>
    BY <1>7 DEF Close, accounting, feed
  <2>2. Drained'
    BY <1>1, <2>1 DEF FeedInv, Drained
  <2> QED
    BY <2>1, <2>2, <1>1 DEF FeedInv
<1>8. CASE (\E at \in Readings : prune(at)) \/ Tick \/ UNCHANGED vars
  <2>1. UNCHANGED <<file, lost, lines, pending, banned, writer, closed, before>>
    BY <1>8 DEF prune, Tick, vars, accounting, feed
  <2> QED
    BY <2>1 DEF FeedInv, Drained
<1> QED
  BY <1>2, <1>3, <1>4, <1>5, <1>6, <1>7, <1>8 DEF Next, WriterStep, FlushTick, FlushOnClose

\* Hence the feed is in order always.
THEOREM FeedAlways == Spec => []FeedInv
  BY InvAlways, InitFeed, NextFeed, PTL DEF Spec

(***************************************************************************)
(* No line of Record is written twice or out of order, or lost without a   *)
(* failing write, whatever ticks, strikes and Close come between flush's   *)
(* taking the lines and writing them.                                      *)
(***************************************************************************)
THEOREM NothingLostAlways == Spec => []NothingLost
<1>1. IInv /\ FeedInv => NothingLost
  <2> SUFFICES ASSUME IInv, FeedInv PROVE NothingLost
    OBVIOUS
  <2>1. /\ file \in Seq(Lines) /\ lost \in Nat /\ lines \in Seq(Lines)
        /\ pending \in Seq(Lines) /\ banned \in Seq(Lines)
    BY DEF IInv, TypeOK
  <2>2. Queue(file, lost, lines, pending, banned)
    BY DEF FeedInv
  <2>3. /\ Len(file) + lost + Len(lines \o pending) = Len(banned)
        /\ lines \o pending = SubSeq(banned, Len(file) + lost + 1, Len(banned))
        /\ lost = 0 => file = SubSeq(banned, 1, Len(file) + lost)
    BY <2>1, <2>2, QueueIsRest, SMTT(60)
  <2> QED
    BY <2>3 DEF NothingLost
<1> QED
  BY <1>1, InvAlways, FeedAlways, PTL

(***************************************************************************)
(* Once the write loop has ended, every line from before Close is in the   *)
(* file or was dropped by a failing write.                                 *)
(***************************************************************************)
THEOREM ClosedMeansFlushedAlways == Spec => []ClosedMeansFlushed
<1>1. IInv /\ FeedInv => ClosedMeansFlushed
  BY DEF IInv, TypeOK, FeedInv, Drained, ClosedMeansFlushed
<1> QED
  BY <1>1, InvAlways, FeedAlways, PTL

=============================================================================
