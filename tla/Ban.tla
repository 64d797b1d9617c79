-------------------------------- MODULE Ban --------------------------------
(***************************************************************************)
(* The abuse ban-feed (ban/service.go): strikes are counted per address    *)
(* prefix, a breach buffers one line per prefix and window, the write loop *)
(* appends buffered lines to the ban file, and the prune loop forgets idle *)
(* prefixes.  Record, the loops and Close run concurrently; a step is one  *)
(* critical section of Service.mu or one write to the file.                *)
(*                                                                         *)
(* Record and prune read the clock before they lock Service.mu.  There are *)
(* as many calls of Record as requests, so a call that waits for the lock  *)
(* is not kept in the state: whatever the clock has shown in the last      *)
(* MaxDelay ticks may be what the call that gets the lock has read, and a  *)
(* call may overtake one that has read the clock before it.                *)
(*                                                                         *)
(* Strikes are counted in units of 1/Window, so that the rate limiter's    *)
(* refill of Threshold per Window is a whole number per tick of the clock. *)
(***************************************************************************)
EXTENDS Integers, Sequences

CONSTANTS
    Prefixes,           \* masked addresses, the unit that is banned
    Strikes,            \* the weights that rejections have; BanWeights computes them
    Threshold,          \* ban-threshold
    Window,             \* ban-window
    MaxDelay,           \* the longest time from reading the clock to having Service.mu
    MaxTime,            \* bound: the clock
    MaxFaults           \* bound: writes to the ban file that fail

ASSUME BanAssumption ==
    /\ Strikes \subseteq Nat
    /\ Threshold \in Nat \ {0}
    /\ Window \in Nat \ {0}
    /\ MaxDelay \in Nat
    /\ MaxTime \in Nat
    /\ MaxFaults \in Nat

VARIABLES
    now,                \* the clock
    trackers,           \* Service.trackers
    pending,            \* Service.pending
    lines,              \* the lines flush has taken and not written yet
    file,               \* the ban file
    lost,               \* how many lines were dropped on an error
    writer,             \* where runWriteLoop is
    closed,             \* closeChan is closed
    banned,             \* history: all lines Record made, in order
    before,             \* history: how many of them before Close
    faults              \* failing writes so far

accounting == <<trackers, banned>>
feed == <<lines, file, lost, writer, faults>>
vars == <<now, accounting, pending, feed, closed, before>>

Never == -1
Full == Threshold * Window
Fresh == [tokens |-> Full, last |-> 0, seen |-> Never, emitted |-> Never]
NoTracker == [tokens |-> Never, last |-> Never, seen |-> Never, emitted |-> Never]
Times == {Never} \union Nat
Trackers == [tokens : 0 .. Full, last : Nat, seen : Times, emitted : Times]
Lines == [prefix : Prefixes, time : Nat]

Init ==
    /\ now = 0
    /\ trackers = [p \in Prefixes |-> NoTracker]
    /\ pending = <<>>
    /\ lines = <<>>
    /\ file = <<>>
    /\ lost = 0
    /\ writer = "waiting"
    /\ closed = FALSE
    /\ banned = <<>>
    /\ before = 0
    /\ faults = 0

-----------------------------------------------------------------------------
\* Record.

\* What a call that gets the lock now may have read from the clock.
Readings == {at \in 0 .. now : now - at <= MaxDelay}

\* The tokens of a rate.Limiter: refilled since it last let something through, but not back in time.
Available(t, at) ==
    LET elapsed == IF at > t.last THEN at - t.last ELSE 0
        refilled == t.tokens + elapsed * Threshold
    IN IF refilled > Full THEN Full ELSE refilled

\* The tracker of a prefix, made anew if there is none.
Tracker(t, at) == IF t = NoTracker THEN [Fresh EXCEPT !.last = at] ELSE t

\* rate.Limiter.AllowN(now, weight).
AllowN(t, weight, at) == weight * Window <= Available(t, at)

Throttled(t, at) == t.emitted # Never /\ at - t.emitted < Window

Breach(t, weight, at) == ~AllowN(Tracker(t, at), weight, at) /\ ~Throttled(Tracker(t, at), at)

\* What one strike makes of a tracker.
Struck(t, weight, at) ==
    LET u == [Tracker(t, at) EXCEPT !.seen = at]
    IN IF AllowN(u, weight, at)
       THEN [u EXCEPT !.tokens = Available(u, at) - weight * Window, !.last = at]
       ELSE IF Throttled(u, at) THEN u
       ELSE [u EXCEPT !.emitted = at]

\* One line for every strike beyond the threshold.
RecordEach(p, weight, at) ==
    /\ weight # 0
    /\ trackers' = [trackers EXCEPT ![p] = Struck(@, weight, at)]
    /\ LET new == IF AllowN(Tracker(trackers[p], at), weight, at) THEN <<>> ELSE <<[prefix |-> p, time |-> at]>>
       IN banned' = banned \o new /\ pending' = pending \o new
    /\ UNCHANGED <<now, feed, closed, before>>

\* A rejected request whose error has a weight: it has read the clock at "at" and has the lock now.
Record(p, weight, at) ==
    /\ weight # 0
    /\ trackers' = [trackers EXCEPT ![p] = Struck(@, weight, at)]
    /\ LET new == IF Breach(trackers[p], weight, at) THEN <<[prefix |-> p, time |-> at]>> ELSE <<>>
       IN banned' = banned \o new /\ pending' = pending \o new
    /\ UNCHANGED <<now, feed, closed, before>>

\* Pruning by half the window.
pruneEarly(at) ==
    /\ trackers' = [p \in Prefixes |->
          IF trackers[p] # NoTracker /\ 2 * (at - trackers[p].seen) >= Window THEN NoTracker ELSE trackers[p]]
    /\ UNCHANGED <<now, banned, pending, feed, closed, before>>

\* runPruneLoop: idle for a full window.
prune(at) ==
    /\ trackers' = [p \in Prefixes |->
          IF trackers[p] # NoTracker /\ at - trackers[p].seen >= Window THEN NoTracker ELSE trackers[p]]
    /\ UNCHANGED <<now, banned, pending, feed, closed, before>>

Tick ==
    /\ now < MaxTime
    /\ now' = now + 1
    /\ UNCHANGED <<accounting, pending, feed, closed, before>>

-----------------------------------------------------------------------------
\* runWriteLoop, flush and Close.

\* A flush that leaves what it takes.
TakeCopy(state) ==
    /\ writer = "waiting"
    /\ lines' = pending
    /\ writer' = state
    /\ UNCHANGED <<now, accounting, pending, file, lost, closed, before, faults>>

\* flush takes what is pending, at a tick or after Close; "final" is the last time.
Take(state) ==
    /\ writer = "waiting"
    /\ lines' = pending
    /\ pending' = <<>>
    /\ writer' = state
    /\ UNCHANGED <<now, accounting, file, lost, closed, before, faults>>

FlushTick == Take("writing")

\* The loop that stops at Close without a last flush.
FlushOnCloseNot ==
    /\ closed
    /\ writer = "waiting"
    /\ writer' = "final"
    /\ UNCHANGED <<now, accounting, pending, lines, file, lost, closed, before, faults>>

FlushOnClose == closed /\ Take("final")

Writing == writer \in {"writing", "final"}

WriteLine ==
    /\ Writing /\ lines # <<>>
    /\ file' = Append(file, Head(lines))
    /\ lines' = Tail(lines)
    /\ UNCHANGED <<now, accounting, pending, lost, writer, closed, before, faults>>

\* flush returns: wait for the next tick, or end and close writeDone.
AfterFlush == IF writer = "final" THEN "ended" ELSE "waiting"

FlushDone ==
    /\ Writing /\ lines = <<>>
    /\ writer' = AfterFlush
    /\ UNCHANGED <<now, accounting, pending, lines, file, lost, closed, before, faults>>

\* The file cannot be opened or written: the rest of the batch is dropped.
FlushFails ==
    /\ Writing /\ lines # <<>>
    /\ faults < MaxFaults
    /\ faults' = faults + 1
    /\ lost' = lost + Len(lines)
    /\ lines' = <<>>
    /\ writer' = AfterFlush
    /\ UNCHANGED <<now, accounting, pending, file, closed, before>>

\* Close closes closeChan, and returns once the writer has ended.
Close ==
    /\ ~closed
    /\ closed' = TRUE
    /\ before' = Len(banned)
    /\ UNCHANGED <<now, accounting, pending, feed>>

WriterStep == FlushTick \/ FlushOnClose \/ WriteLine \/ FlushDone

Next ==
    \/ \E p \in Prefixes, weight \in Strikes, at \in Readings : Record(p, weight, at)
    \/ \E at \in Readings : prune(at)
    \/ Tick
    \/ WriterStep
    \/ FlushFails
    \/ Close

(***************************************************************************)
(* The write loop's ticker keeps firing; once closeChan is closed, select  *)
(* does not choose the ticker for ever.                                    *)
(***************************************************************************)
Fairness == WF_vars(WriterStep) /\ SF_vars(FlushOnClose)

Spec == Init /\ [][Next]_vars
FairSpec == Spec /\ Fairness

-----------------------------------------------------------------------------
\* Properties.

TypeOK ==
    /\ now \in 0 .. MaxTime
    /\ trackers \in [Prefixes -> Trackers \union {NoTracker}]
    /\ pending \in Seq(Lines)
    /\ lines \in Seq(Lines)
    /\ file \in Seq(Lines)
    /\ lost \in Nat
    /\ writer \in {"waiting", "writing", "final", "ended"}
    /\ closed \in BOOLEAN
    /\ banned \in Seq(Lines)
    /\ before \in Nat
    /\ faults \in 0 .. MaxFaults

(***************************************************************************)
(* "their bucket has refilled, so forgetting them is a no-op": at whatever *)
(* time a later call has read the clock, the tracker that prune forgets    *)
(* would have been full and past its throttle for that call, but for what  *)
(* two delays at the lock make up.  With no delay that is a no-op.         *)
(***************************************************************************)
Forgets(p) == trackers[p] # NoTracker /\ trackers'[p] = NoTracker

PruneForgetsLittle ==
    [][\A p \in Prefixes : Forgets(p) =>
          LET t == trackers[p]
              earliest == now - MaxDelay
          IN /\ Available(t, earliest) >= Full - 2 * MaxDelay * Threshold
             /\ t.emitted # Never => earliest - t.emitted >= Window - 2 * MaxDelay]_vars

(***************************************************************************)
(* "one ban line per prefix per window", also across pruning, but for two  *)
(* delays: a strike that is overtaken sets the time a prefix was last seen *)
(* back by one, and the call that finds it forgotten may be as late.       *)
(***************************************************************************)
OnePerWindow ==
    \A i, j \in DOMAIN banned :
        (i < j /\ banned[i].prefix = banned[j].prefix) =>
            banned[j].time - banned[i].time >= Window - 2 * MaxDelay

\* Not guaranteed: the sentence as it is written, when calls overtake one another at the lock.
ExactlyOnePerWindow ==
    \A i, j \in DOMAIN banned :
        (i < j /\ banned[i].prefix = banned[j].prefix) => banned[j].time - banned[i].time >= Window

(***************************************************************************)
(* No line is written twice or out of order, or lost without an error:     *)
(* what is not in the file yet is exactly the end of what Record made.     *)
(***************************************************************************)
NothingLost ==
    LET settled == Len(file) + lost
        rest == lines \o pending
    IN /\ settled + Len(rest) = Len(banned)
       /\ rest = SubSeq(banned, settled + 1, Len(banned))
       /\ lost = 0 => file = SubSeq(banned, 1, settled)

\* When Close returns, all lines from before it are in the file, but for failed writes.
ClosedMeansFlushed == writer = "ended" => Len(file) + lost >= before

\* Every line from before Close is written in the end, or dropped by a failing write.
EventuallyWritten ==
    \A i \in 1 .. MaxTime + 1 : (Len(banned) >= i /\ ~closed) ~> (Len(file) + lost >= i)

=============================================================================
