-------------------------- MODULE ObservationWindow --------------------------
(***************************************************************************)
(* The rolling observation window of one quota and one of its keys:        *)
(* sizing.Window (internal/sizing/window.go) and the write-behind cache of *)
(* controller.Observer (internal/controller/observation.go) that keeps it  *)
(* in memory and persists it on the state Lease.                           *)
(*                                                                         *)
(* Instants are natural numbers, DayLen of them to a day.  A day bucket    *)
(* keeps the time of day of its first and last sample, the longest gap and *)
(* the peak (-1: the key was never reported).                              *)
(***************************************************************************)
EXTENDS Integers, FiniteSets

CONSTANTS
    DayLen,                    \* instants in a day
    FirstBy, LastBy,           \* coverageFirstBy, coverageLastBy
    MaxGap,                    \* dayCoverageMaxGap
    Heartbeat,                 \* observationHeartbeat
    WindowSizes,               \* values the window-days annotation takes
    Usages,                    \* values status.used takes, -1: key not reported
    MaxMilli,                  \* the largest usage MilliValue() can represent
    MaxUp, MaxUpsets, MaxBack  \* bounds: instants, failures, clock set-backs

ASSUME WindowAssumption ==
    /\ DayLen \in Nat \ {0} /\ FirstBy \in 0 .. DayLen - 1 /\ LastBy \in FirstBy .. DayLen - 1
    /\ MaxGap \in Nat \ {0} /\ Heartbeat \in Nat \ {0} /\ WindowSizes \subseteq Nat \ {0}
    /\ Usages \subseteq Nat \cup {-1} /\ MaxMilli \in Nat
    /\ MaxUp \in Nat /\ MaxUpsets \in Nat /\ MaxBack \in 0 .. DayLen

VARIABLES
    up,      \* time that has really passed
    back,    \* how far the wall clock has been set back
    uid,     \* metadata.uid of the ResourceQuota
    mem,     \* Observer.cached: whether it holds the quota, and the window
    lease,   \* the annotation: whether DecodeWindow accepts it, and the window
    upsets,  \* failures so far
    taken    \* history: every sample taken of this ResourceQuota

vars == <<up, back, uid, mem, lease, upsets, taken>>

Never == -1
NoUID == 0

Date(t) == t \div DayLen

\* Mutant: the stamp instead of the time of day.
TimeOfDay_Absolute(t) == t

TimeOfDay(t) == t % DayLen

\* The clock starts a day in, so that it can be set back.
now == up + DayLen - back

EmptyWindow == [uid |-> NoUID, lastSample |-> Never, lastWrite |-> Never, days |-> <<>>]

larger(a, b) == IF a >= b THEN a ELSE b

-----------------------------------------------------------------------------
(* sizing.Window *)

\* Empty, unreadable, another version or a date twice: start from scratch.
DecodeWindow(raw) == IF raw.valid THEN raw.window ELSE EmptyWindow

prune(days, t, windowDays) ==
    [d \in {d \in DOMAIN days : d <= Date(t) /\ d >= Date(t) - windowDays} |-> days[d]]

\* The window Observe works on: another UID means another object.
Restarted(w, u) == w.uid \notin {NoUID, u}
StartFrom(w, u) == IF Restarted(w, u) THEN EmptyWindow ELSE w

\* Today's bucket before and after the sample, and the other days kept.  The
\* gap is measured against the previous sample, on whatever day that was.
Fold(w, t, usage, windowDays) ==
    LET kept  == prune(w.days, t, windowDays)
        isNew == Date(t) \notin DOMAIN kept
        b     == IF isNew THEN [first |-> TimeOfDay(t), last |-> TimeOfDay(t),
                                maxGap |-> 0, peak |-> -1]
                 ELSE kept[Date(t)]
        gap   == IF w.lastSample = Never THEN 0 ELSE t - w.lastSample
    IN  [before |-> b, isNew |-> isNew, kept |-> kept,
         after  |-> [b EXCEPT !.last = TimeOfDay(t), !.maxGap = larger(@, gap),
                              !.peak = larger(@, usage)]]

Pruned(w, f) == DOMAIN f.kept # DOMAIN w.days

Observed(w, f, u, t) ==
    [uid |-> u, lastSample |-> t, lastWrite |-> w.lastWrite,
     days |-> [d \in DOMAIN f.kept \cup {Date(t)} |->
                 IF d = Date(t) THEN f.after ELSE f.kept[d]]]

\* Worth persisting: a bucket pruned, a day begun or a peak risen.
Changed(w, f) == Pruned(w, f) \/ f.isNew \/ f.after.peak > f.before.peak

\* Mutant: gaps are recorded and never looked at.
covered_NoGap(b) == b.first <= FirstBy /\ b.last >= LastBy

covered(b) == b.first <= FirstBy /\ b.last >= LastBy /\ b.maxGap <= MaxGap

\* Completed days only, today excluded.
Completed(t, windowDays) == Date(t) - windowDays .. Date(t) - 1

IsComplete(w, t, windowDays) ==
    \A d \in Completed(t, windowDays) :
        d \in DOMAIN w.days /\ covered(w.days[d]) /\ w.days[d].peak >= 0

\* Mutant: the oldest day of the window is left out.
Peak_OldestSkipped(w, t, windowDays) ==
    LET usable == {w.days[d].peak : d \in DOMAIN w.days \cap Completed(t, windowDays - 1)}
    IN  CHOOSE p \in usable \cup {-1} : \A q \in usable : p >= q

\* The highest representable peak of the completed days, -1 when there is none.
Peak(w, t, windowDays) ==
    LET usable == {p \in {w.days[d].peak : d \in DOMAIN w.days \cap Completed(t, windowDays)} :
                      p <= MaxMilli}
    IN  CHOOSE p \in usable \cup {-1} : \A q \in usable : p >= q

-----------------------------------------------------------------------------
(* Observer *)

\* Mutant: compares the wrong way round at the boundary.
heartbeatElapsed_Late(w, t) == w.lastWrite = Never \/ t - w.lastWrite > Heartbeat

heartbeatElapsed(w, t) == w.lastWrite = Never \/ t - w.lastWrite >= Heartbeat

(***************************************************************************)
(* What a failed write leaves in the cache.  The window is a struct copied *)
(* out of the map, but its buckets live in a shared backing array and each *)
(* bucket's peaks in a shared map: today's bucket is already updated in    *)
(* place, unless pruning copied the array, which still shares the peaks.   *)
(* UID, LastSampleAt and LastWriteAt keep their old values.                *)
(***************************************************************************)
LeftBehind(w, f, restarted, t) ==
    IF restarted \/ Date(t) \notin DOMAIN w.days THEN w
    ELSE IF Pruned(w, f) THEN [w EXCEPT !.days[Date(t)].peak = f.after.peak]
    ELSE [w EXCEPT !.days[Date(t)] = f.after]

Init ==
    /\ up = 0 /\ back = 0 /\ uid = 1
    /\ mem = [warm |-> FALSE, window |-> EmptyWindow]
    /\ lease = [valid |-> FALSE, window |-> EmptyWindow]
    /\ upsets = 0
    /\ taken = {}

Upset == upsets < MaxUpsets /\ upsets' = upsets + 1

\* History.
Take(usage, ok) == taken' = taken \cup {[at |-> now, up |-> up, usage |-> usage, ok |-> ok]}

Cached == IF mem.warm THEN mem.window ELSE DecodeWindow(lease)

\* Observe, when nothing has to be written, and when the write succeeds.
Observe(usage, windowDays) ==
    LET w == StartFrom(Cached, uid)
        f == Fold(w, now, usage, windowDays)
        r == Observed(w, f, uid, now)
    IN  /\ \A s \in taken : s.up # up
        /\ IF Changed(w, f) \/ heartbeatElapsed(w, now)
           THEN /\ lease' = [valid |-> TRUE, window |-> [r EXCEPT !.lastWrite = now]]
                /\ mem' = [warm |-> TRUE, window |-> [r EXCEPT !.lastWrite = now]]
           ELSE /\ mem' = [warm |-> TRUE, window |-> r]
                /\ UNCHANGED lease
        /\ Take(usage, TRUE)
        /\ UNCHANGED <<up, back, uid, upsets>>

\* Observe, when MutateState returns an error, with or without effect.
ObserveFails(usage, windowDays) ==
    LET w == StartFrom(Cached, uid)
        f == Fold(w, now, usage, windowDays)
        r == Observed(w, f, uid, now)
    IN  /\ \A s \in taken : s.up # up
        /\ Changed(w, f) \/ heartbeatElapsed(w, now)
        /\ lease' \in {lease, [valid |-> TRUE, window |-> [r EXCEPT !.lastWrite = now]]}
        /\ mem' = IF mem.warm
                  THEN [mem EXCEPT !.window = LeftBehind(@, f, Restarted(@, uid), now)]
                  ELSE mem
        /\ Take(usage, FALSE)
        /\ Upset
        /\ UNCHANGED <<up, back, uid>>

\* The Lease holds a sample's peak.
Persisted(s) ==
    /\ lease.valid /\ lease.window.uid = uid
    /\ Date(s.at) \in DOMAIN lease.window.days
    /\ lease.window.days[Date(s.at)].peak >= s.usage

\* The controller dies; samples the Lease does not hold are gone with it.
Crash ==
    /\ mem.warm
    /\ mem' = [mem EXCEPT !.warm = FALSE, !.window = EmptyWindow]
    /\ taken' = {[s EXCEPT !.ok = @ /\ Persisted(s)] : s \in taken}
    /\ Upset
    /\ UNCHANGED <<up, back, uid, lease>>

\* The quota is deleted and recreated; a reconcile in between calls Forget,
\* and the garbage collector may have taken the Lease.
Recreate ==
    /\ uid' = uid + 1
    /\ mem' \in {mem, [warm |-> FALSE, window |-> EmptyWindow]}
    /\ lease' \in {lease, [valid |-> FALSE, window |-> EmptyWindow]}
    /\ taken' = {}
    /\ Upset
    /\ UNCHANGED <<up, back>>

\* The clock is set back; samples then dated after today never happened.
SetBack(n) ==
    /\ back + n <= MaxBack
    /\ back' = back + n
    /\ taken' = {[s EXCEPT !.ok = @ /\ Date(s.at) <= Date(now - n)] : s \in taken}
    /\ Upset
    /\ UNCHANGED <<up, uid, mem, lease>>

Tick == up < MaxUp /\ up' = up + 1 /\ UNCHANGED <<back, uid, mem, lease, upsets, taken>>

Next ==
    \/ \E usage \in Usages, windowDays \in WindowSizes :
          Observe(usage, windowDays) \/ ObserveFails(usage, windowDays)
    \/ Crash \/ Recreate
    \/ \E n \in 1 .. MaxBack : SetBack(n)
    \/ Tick

Spec == Init /\ [][Next]_vars

-----------------------------------------------------------------------------
Bucket == [first : 0 .. DayLen - 1, last : 0 .. DayLen - 1, maxGap : Nat, peak : Usages \cup {-1}]

WindowOK(w) ==
    /\ w.uid \in 0 .. uid
    /\ w.lastSample \in Nat \cup {Never} /\ w.lastWrite \in Nat \cup {Never}
    /\ \A d \in DOMAIN w.days : d \in Nat /\ w.days[d] \in Bucket

\* Every variable has its type: buckets keep times of day, and gaps that are
\* not negative.
TypeOK ==
    /\ up \in 0 .. MaxUp /\ back \in 0 .. MaxBack /\ uid \in Nat /\ upsets \in 0 .. MaxUpsets
    /\ mem.warm \in BOOLEAN /\ WindowOK(mem.window)
    /\ lease.valid \in BOOLEAN /\ WindowOK(lease.window)
    /\ taken \subseteq [at : Nat, up : Nat, usage : Usages, ok : BOOLEAN]

\* The window a reconcile would decide on.
Current == mem.warm /\ mem.window.uid = uid

\* dayCoverageMaxGap, "the longest gap between two samples that still counts
\* as continuous observation": a window that claims to be complete was really
\* sampled, in every stretch of MaxGap instants between the bracketing times of
\* each of its days, across crashes, failed writes and recreated quotas, as
\* long as the clock is not set back.
CoverageSound ==
    \A n \in WindowSizes : Current /\ back = 0 /\ IsComplete(mem.window, now, n) =>
        \A d \in Completed(now, n), t \in FirstBy .. LastBy - MaxGap + 1 :
            \E s \in taken : s.at \in d * DayLen + t .. d * DayLen + t + MaxGap - 1

\* Peak, "the highest value observed across the completed days": complete
\* history yields the maximum of the samples taken on its days, no sample of
\* another object and none missing but those a crash lost.
PeakFaithful ==
    \A n \in WindowSizes : Current /\ IsComplete(mem.window, now, n) =>
        LET p  == Peak(mem.window, now, n)
            on == {s \in taken : Date(s.at) \in Completed(now, n)}
        IN  /\ \A s \in on : s.ok => p >= s.usage
            /\ \E s \in on : s.usage = p

\* Every window that was ever asked for reaches back to the sample, whether or
\* not the clock was set back since.
Wanted(s) == \A n \in WindowSizes : Date(s.at) >= Date(up + DayLen) - n

\* observationHeartbeat, "the longest a sample may go unpersisted": whatever
\* writes failed, a sample that was recorded without an error is on the Lease or
\* newer than the Lease, and none that was is newer by a heartbeat; a clock that
\* was set back adds what it was set back by.
LossBounded ==
    \A s, t \in taken :
        s.ok /\ t.ok /\ ~Persisted(s) /\ Wanted(s) =>
            /\ lease.window.lastWrite <= s.at + back
            /\ t.at - lease.window.lastWrite < Heartbeat + back
=============================================================================
