---------------------------- MODULE WindowProofs ----------------------------
(***************************************************************************)
(* Theorems about ObservationWindow, for days of any length, any window    *)
(* sizes and any bounds.                                                   *)
(***************************************************************************)
EXTENDS ObservationWindow, FiniteSetTheorems, NaturalsInduction, WellFoundedInduction, TLAPS

(* Dates *)

\* The first instant of day d.
Midnight(d) == d * DayLen

LEMMA DateFacts ==
    ASSUME NEW t \in Nat
    PROVE  /\ Date(t) \in Nat /\ TimeOfDay(t) \in 0 .. DayLen - 1
           /\ Midnight(Date(t)) \in Nat /\ t = Midnight(Date(t)) + TimeOfDay(t)
  BY WindowAssumption DEF Date, TimeOfDay, Midnight

LEMMA DateMonotone ==
    ASSUME NEW s \in Nat, NEW t \in Nat, s <= t
    PROVE  Date(s) <= Date(t)
  BY WindowAssumption DEF Date

LEMMA NextDay ==
    ASSUME NEW t \in Nat
    PROVE  Date(t + DayLen) = Date(t) + 1
  BY WindowAssumption DEF Date

-----------------------------------------------------------------------------
(* The invariant *)

Days == UNION {[D -> Bucket] : D \in SUBSET Nat}

Window == [uid : Nat, lastSample : Nat \cup {Never}, lastWrite : Nat \cup {Never}, days : Days]

Sample == [at : Nat, up : Nat, usage : Usages, ok : BOOLEAN]

\* Every peak is one of the samples of its day.
Peaks(w, T) ==
    \A d \in DOMAIN w.days : w.days[d].peak >= 0 =>
        \E s \in T : Date(s.at) = d /\ s.usage = w.days[d].peak

\* A sample of day d at time of day x, or less than gap after it.
Within(s, d, x, gap) ==
    LET at == s.at - Midnight(d) IN at = x \/ (x <= at /\ at < x + gap)

\* A bucket is sampled from its first to its last time of day with no longer
\* gaps than it admits.
Covers(w, T) ==
    \A d \in DOMAIN w.days : \A x \in w.days[d].first .. w.days[d].last :
        \E s \in T : Within(s, d, x, w.days[d].maxGap)

\* The gap to the next sample is measured from no later than where the bucket
\* ends.
Lasts(w) ==
    \A d \in DOMAIN w.days :
        /\ w.lastSample # Never
        /\ d < Date(w.lastSample) \/ w.lastSample <= Midnight(d) + w.days[d].last

\* A window, in memory or on the Lease, and what it says of this object.
WindowInv(w) ==
    /\ w \in Window /\ w.uid <= uid /\ w.lastSample <= up + DayLen /\ w.lastWrite <= up + DayLen
    /\ w.uid = NoUID => DOMAIN w.days = {} /\ w.lastSample = Never
    /\ w.uid = uid => Peaks(w, taken) /\ (back = 0 => Covers(w, taken) /\ Lasts(w))

WindowsOK ==
    /\ up \in 0 .. MaxUp /\ back \in 0 .. MaxBack /\ uid \in Nat \ {0} /\ upsets \in 0 .. MaxUpsets
    /\ mem.warm \in BOOLEAN /\ mem = [warm |-> mem.warm, window |-> mem.window]
    /\ lease.valid \in BOOLEAN /\ lease = [valid |-> lease.valid, window |-> lease.window]
    /\ taken \subseteq Sample
    /\ \A s \in taken : s.at <= up + DayLen /\ (s.ok => Date(s.at) <= Date(now))
    /\ WindowInv(mem.window) /\ WindowInv(lease.window)
    /\ ~lease.valid => lease.window = EmptyWindow

\* The window holds the sample's peak, or has pruned its day for good.
Known(s, w) ==
    /\ w.uid = uid
    /\ IF Date(s.at) \in DOMAIN w.days THEN w.days[Date(s.at)].peak >= s.usage ELSE ~Wanted(s)

\* No sample that was recorded is forgotten by what the next one is added to.
KeptInv == \A s \in taken : s.ok => Known(s, Cached)

\* The Lease is no further behind than the cache says.
LossInv ==
    /\ mem.warm /\ mem.window.uid = uid =>
          lease.window.uid = uid /\ mem.window.lastWrite <= lease.window.lastWrite + back
    /\ \A s \in taken : s.ok =>
          /\ lease.window.uid = uid /\ s.at < lease.window.lastWrite + Heartbeat + back
          /\ Known(s, lease.window) \/ lease.window.lastWrite <= s.at + back

ObserverInv == WindowsOK /\ KeptInv /\ LossInv

-----------------------------------------------------------------------------
(* Windows *)

LEMMA DaysFacts ==
    ASSUME NEW f \in Days
    PROVE  /\ DOMAIN f \subseteq Nat /\ f = [d \in DOMAIN f |-> f[d]]
           /\ \A d \in DOMAIN f : f[d] \in Bucket
  <1>1. PICK D \in SUBSET Nat : f \in [D -> Bucket]
    BY DEF Days
  <1> QED BY <1>1

LEMMA DaysIntro ==
    ASSUME NEW f, f = [d \in DOMAIN f |-> f[d]], DOMAIN f \subseteq Nat,
           \A d \in DOMAIN f : f[d] \in Bucket
    PROVE  f \in Days
  <1>1. f \in [DOMAIN f -> Bucket]
    OBVIOUS
  <1> QED BY <1>1 DEF Days

LEMMA UsageFacts == \A u \in Usages \cup {-1} : u \in Int /\ u >= -1
  <1>1. Usages \subseteq Nat \cup {-1}
    BY WindowAssumption
  <1> QED BY <1>1

LEMMA BucketFacts ==
    ASSUME NEW b \in Bucket
    PROVE  /\ b.first \in 0 .. DayLen - 1 /\ b.last \in 0 .. DayLen - 1 /\ b.maxGap \in Nat
           /\ b.peak \in Usages \cup {-1} /\ b.peak \in Int /\ b.first \in Int /\ b.last \in Int
           /\ b = [first |-> b.first, last |-> b.last, maxGap |-> b.maxGap, peak |-> b.peak]
  <1>1. /\ b.first \in 0 .. DayLen - 1 /\ b.last \in 0 .. DayLen - 1 /\ b.maxGap \in Nat
        /\ b.peak \in Usages \cup {-1}
    BY DEF Bucket
  <1>2. b = [first |-> b.first, last |-> b.last, maxGap |-> b.maxGap, peak |-> b.peak]
    BY DEF Bucket
  <1>3. b.peak \in Int /\ b.first \in Int /\ b.last \in Int
    <2>1. DayLen \in Nat
      BY WindowAssumption
    <2> QED BY <1>1, <2>1, UsageFacts
  <1> QED BY <1>1, <1>2, <1>3

LEMMA EmptyFacts ==
    /\ EmptyWindow \in Window /\ DOMAIN EmptyWindow.days = {} /\ EmptyWindow.uid = NoUID
    /\ EmptyWindow.lastSample = Never /\ EmptyWindow.lastWrite = Never
  <1>1. <<>> \in Days /\ DOMAIN <<>> = {}
    <2>1. DOMAIN <<>> = {}
      OBVIOUS
    <2>2. <<>> = [d \in {} |-> d]
      OBVIOUS
    <2>3. <<>> \in [{} -> Bucket]
      BY <2>2
    <2> QED BY <2>1, <2>3 DEF Days
  <1> QED BY <1>1 DEF EmptyWindow, Window, NoUID, Never

LEMMA NowFacts ==
    ASSUME WindowsOK
    PROVE  /\ up \in Nat /\ back \in Nat /\ now \in Nat /\ up <= now /\ now + back = up + DayLen
           /\ Date(up) <= Date(now) /\ Date(now) <= Date(up) + 1 /\ Date(up + DayLen) = Date(up) + 1
           /\ Date(now) \in Nat /\ Date(up) \in Nat
  <1>1. up \in Nat /\ back \in Nat /\ back <= DayLen /\ DayLen \in Nat
    BY WindowAssumption DEF WindowsOK
  <1>2. now \in Nat /\ up <= now /\ now + back = up + DayLen /\ now <= up + DayLen
    BY <1>1 DEF now
  <1>3. up + DayLen \in Nat
    BY <1>1
  <1> HIDE DEF now
  <1> QED BY <1>1, <1>2, <1>3, NextDay, DateMonotone, DateFacts

\* An empty window says nothing wrong.
LEMMA EmptyInv ==
    ASSUME uid \in Nat, up \in Nat
    PROVE  WindowInv(EmptyWindow)
  BY EmptyFacts, WindowAssumption DEF WindowInv, Peaks, Covers, Lasts, NoUID, Never

LEMMA EmptyInvNext ==
    ASSUME uid' \in Nat, up' \in Nat, NEW w, w = EmptyWindow
    PROVE  WindowInv(w)'
  <1>0. DayLen \in Nat
    BY WindowAssumption
  <1>1. w \in Window /\ DOMAIN w.days = {} /\ w.uid = 0 /\ w.lastSample = -1 /\ w.lastWrite = -1
    BY EmptyFacts DEF NoUID, Never
  <1>2. w.uid <= uid' /\ w.lastSample <= up' + DayLen /\ w.lastWrite <= up' + DayLen
    <2>1. \A n \in Nat : 0 <= n /\ -1 <= n + DayLen
      BY <1>0
    <2> QED BY <1>1, <2>1
  <1>3. Peaks(w, taken') /\ Covers(w, taken') /\ Lasts(w)
    BY <1>1 DEF Peaks, Covers, Lasts
  <1> QED BY <1>1, <1>2, <1>3 DEF WindowInv, NoUID, Never

-----------------------------------------------------------------------------
(* Observe on a window *)

LEMMA LargerFacts ==
    ASSUME NEW a \in Int, NEW b \in Int
    PROVE  /\ larger(a, b) \in {a, b} /\ larger(a, b) >= a /\ larger(a, b) >= b
           /\ larger(a, b) \in Int
  BY DEF larger

\* What Observe starts from is a window of this object, or an empty one.
LEMMA StartFacts ==
    ASSUME WindowsOK, NEW c, WindowInv(c), NEW w, w = StartFrom(c, uid)
    PROVE  /\ w \in Window /\ w.uid \in {NoUID, uid}
           /\ w.lastSample <= up + DayLen /\ w.lastWrite <= up + DayLen
           /\ DOMAIN w.days # {} => w = c /\ w.uid = uid
           /\ c.uid = uid => w = c
           /\ Peaks(w, taken) /\ (back = 0 => Covers(w, taken) /\ Lasts(w))
  <1>1. CASE w = EmptyWindow /\ c.uid # uid
    <2>1. up \in Nat
      BY NowFacts
    <2> QED BY <1>1, <2>1, EmptyFacts, WindowAssumption DEF Peaks, Covers, Lasts, Never
  <1>2. CASE w = c /\ c.uid = uid
    BY <1>2 DEF WindowInv
  <1>3. CASE w = c /\ c.uid = NoUID
    BY <1>3 DEF WindowInv, Peaks, Covers, Lasts
  <1> QED BY <1>1, <1>2, <1>3 DEF StartFrom, Restarted

LEMMA FoldFacts ==
    ASSUME WindowsOK, NEW w \in Window, NEW usage \in Usages, NEW n \in WindowSizes,
           NEW f, f = Fold(w, now, usage, n)
    PROVE  /\ f.kept \in Days
           /\ DOMAIN f.kept = {d \in DOMAIN w.days : d <= Date(now) /\ d >= Date(now) - n}
           /\ \A d \in DOMAIN f.kept : f.kept[d] = w.days[d]
           /\ Date(now) \in DOMAIN w.days => Date(now) \in DOMAIN f.kept /\ f.before = w.days[Date(now)]
           /\ Date(now) \notin DOMAIN w.days =>
                /\ f.before.first = TimeOfDay(now) /\ f.before.last = TimeOfDay(now)
                /\ f.before.peak = -1
           /\ f.isNew = (Date(now) \notin DOMAIN w.days)
           /\ f.before \in Bucket /\ f.after \in Bucket
           /\ f.after.first = f.before.first /\ f.after.last = TimeOfDay(now)
           /\ f.after.maxGap >= f.before.maxGap
           /\ w.lastSample # Never => f.after.maxGap >= now - w.lastSample
           /\ f.after.peak >= f.before.peak /\ f.after.peak >= usage
           /\ f.after.peak \in {f.before.peak, usage}
  <1> DEFINE kept == prune(w.days, now, n)
             isNew == Date(now) \notin DOMAIN kept
             b == IF isNew THEN [first |-> TimeOfDay(now), last |-> TimeOfDay(now),
                                 maxGap |-> 0, peak |-> -1]
                  ELSE kept[Date(now)]
             gap == IF w.lastSample = Never THEN 0 ELSE now - w.lastSample
             after == [b EXCEPT !.last = TimeOfDay(now), !.maxGap = larger(@, gap),
                                !.peak = larger(@, usage)]
  <1>1. f = [before |-> b, isNew |-> isNew, kept |-> kept, after |-> after]
    BY DEF Fold
  <1>2. w.days \in Days /\ w.lastSample \in Nat \cup {Never} /\ n \in Nat /\ usage \in Int
        /\ now \in Nat /\ Date(now) \in Nat /\ TimeOfDay(now) \in 0 .. DayLen - 1
    <2>1. w.days \in Days /\ w.lastSample \in Nat \cup {Never}
      BY DEF Window
    <2>2. n \in Nat /\ usage \in Int
      BY WindowAssumption
    <2>3. now \in Nat
      BY NowFacts
    <2> HIDE DEF now
    <2> QED BY <2>1, <2>2, <2>3, DateFacts
  <1>3. /\ DOMAIN kept = {d \in DOMAIN w.days : d <= Date(now) /\ d >= Date(now) - n}
        /\ \A d \in DOMAIN kept : kept[d] = w.days[d]
        /\ kept = [d \in DOMAIN kept |-> kept[d]]
    BY DEF prune
  <1>4. kept \in Days
    <2> HIDE DEF kept
    <2>1. DOMAIN kept \subseteq Nat /\ \A d \in DOMAIN kept : kept[d] \in Bucket
      BY <1>2, <1>3, DaysFacts
    <2> QED BY <1>3, <2>1, DaysIntro
  <1> HIDE DEF kept
  <1>5. isNew = (Date(now) \notin DOMAIN w.days)
    BY <1>2, <1>3
  <1>6. b \in Bucket
    <2>1. CASE isNew
      BY <1>2, <2>1 DEF Bucket
    <2>2. CASE ~isNew
      BY <1>4, <2>2, DaysFacts
    <2> QED BY <2>1, <2>2
  <1>7. /\ Date(now) \in DOMAIN w.days => Date(now) \in DOMAIN kept /\ b = w.days[Date(now)]
        /\ Date(now) \notin DOMAIN w.days =>
             b.first = TimeOfDay(now) /\ b.last = TimeOfDay(now) /\ b.peak = -1
    BY <1>3, <1>5
  <1>8. gap \in Int /\ (w.lastSample # Never => gap = now - w.lastSample)
    BY <1>2 DEF Never
  <1> HIDE DEF b, gap, isNew
  <1>9. /\ after.first = b.first /\ after.last = TimeOfDay(now)
        /\ after.maxGap = larger(b.maxGap, gap) /\ after.peak = larger(b.peak, usage)
        /\ after = [first |-> b.first, last |-> TimeOfDay(now),
                    maxGap |-> larger(b.maxGap, gap), peak |-> larger(b.peak, usage)]
    <2> DEFINE g == larger(b.maxGap, gap)
               p == larger(b.peak, usage)
               x == TimeOfDay(now)
    <2>1. after = [b EXCEPT !.last = x, !.maxGap = g, !.peak = p]
      OBVIOUS
    <2> HIDE DEF g, p, x, after
    <2>2. after.first = b.first /\ after.last = x /\ after.maxGap = g /\ after.peak = p
          /\ after = [first |-> b.first, last |-> x, maxGap |-> g, peak |-> p]
      BY <1>6, <2>1 DEF Bucket
    <2> QED BY <2>2 DEF g, p, x
  <1> HIDE DEF after
  <1>10. /\ larger(b.maxGap, gap) \in Nat /\ larger(b.maxGap, gap) >= b.maxGap
         /\ larger(b.maxGap, gap) >= gap
    BY <1>6, <1>8, BucketFacts DEF larger
  <1>11. /\ larger(b.peak, usage) \in {b.peak, usage} /\ larger(b.peak, usage) >= b.peak
         /\ larger(b.peak, usage) >= usage
    BY <1>2, <1>6, BucketFacts, LargerFacts
  <1>12. after \in Bucket
    <2>1. larger(b.peak, usage) \in Usages \cup {-1}
      BY <1>6, <1>11, BucketFacts
    <2>2. b.first \in 0 .. DayLen - 1
      BY <1>6, BucketFacts
    <2> HIDE DEF now
    <2> QED BY <1>2, <1>9, <1>10, <2>1, <2>2 DEF Bucket
  <1>13. f.before = b /\ f.isNew = isNew /\ f.kept = kept /\ f.after = after
    BY <1>1
  <1> HIDE DEF now
  <1> QED BY <1>3, <1>4, <1>5, <1>6, <1>7, <1>8, <1>9, <1>10, <1>11, <1>12, <1>13

\* What is in front of Observe: a window w, a sample e, and the history T.
Sampling(w, e, T) ==
    /\ WindowsOK /\ w \in Window /\ w.lastSample <= up + DayLen
    /\ Peaks(w, taken) /\ (back = 0 => Covers(w, taken) /\ Lasts(w))
    /\ taken \subseteq T /\ T \subseteq Sample /\ e \in T /\ e.at = now

LEMMA GapGrows ==
    ASSUME NEW s \in Sample, NEW d \in Nat, NEW x \in Int, NEW g \in Nat, NEW h \in Nat, g <= h,
           Within(s, d, x, g)
    PROVE  Within(s, d, x, h)
  <1>1. Midnight(d) \in Int
    BY WindowAssumption DEF Midnight
  <1>2. s.at \in Int
    BY DEF Sample
  <1> QED BY <1>1, <1>2 DEF Within

\* Today's bucket after the sample is as true to the history as it was before.
LEMMA AfterFacts ==
    ASSUME NEW w, NEW e, NEW T, Sampling(w, e, T), e.usage \in Usages, NEW n \in WindowSizes,
           NEW f, f = Fold(w, now, e.usage, n)
    PROVE  /\ f.after.peak >= 0 =>
                \E s \in T : Date(s.at) = Date(now) /\ s.usage = f.after.peak
           /\ back = 0 => \A x \in f.after.first .. f.after.last :
                \E s \in T : Within(s, Date(now), x, f.after.maxGap)
  <1> DEFINE d == Date(now)
             at == TimeOfDay(now)
             m == Midnight(d)
  <1>1. WindowsOK /\ w \in Window /\ Peaks(w, taken) /\ taken \subseteq T /\ e \in T /\ e.at = now
        /\ T \subseteq Sample
    BY DEF Sampling
  <1>2. /\ now \in Nat /\ d \in Nat /\ at \in 0 .. DayLen - 1 /\ at \in Int /\ m \in Nat /\ now = m + at
    <2>1. now \in Nat /\ DayLen \in Nat
      BY <1>1, NowFacts, WindowAssumption
    <2> HIDE DEF now
    <2> QED BY <2>1, DateFacts
  <1>3. /\ d \in DOMAIN w.days => f.before = w.days[d]
        /\ d \notin DOMAIN w.days => f.before.first = at /\ f.before.last = at /\ f.before.peak = -1
        /\ f.before \in Bucket /\ f.after \in Bucket
        /\ f.after.first = f.before.first /\ f.after.last = at
        /\ f.after.maxGap >= f.before.maxGap
        /\ w.lastSample # Never => f.after.maxGap >= now - w.lastSample
        /\ f.after.peak \in {f.before.peak, e.usage}
    BY <1>1, FoldFacts
  <1>4. ASSUME f.after.peak >= 0
        PROVE  \E s \in T : Date(s.at) = d /\ s.usage = f.after.peak
    <2>1. CASE f.after.peak = e.usage
      BY <1>1, <2>1
    <2>2. CASE f.after.peak = f.before.peak
      <3>1. d \in DOMAIN w.days
        BY <1>3, <1>4, <2>2
      <3> QED BY <1>1, <1>3, <1>4, <2>2, <3>1 DEF Peaks
    <2> QED BY <1>3, <2>1, <2>2
  <1> HIDE DEF at, m
  <1>5. ASSUME back = 0, NEW x \in f.after.first .. f.after.last
        PROVE  \E s \in T : Within(s, d, x, f.after.maxGap)
    <2> HIDE DEF now
    <2>1. /\ f.before.first \in Int /\ f.before.last \in Int /\ f.before.maxGap \in Nat
          /\ f.after.maxGap \in Nat /\ x \in Int
      BY <1>2, <1>3, BucketFacts
    <2>2. CASE d \notin DOMAIN w.days
      <3>1. x = at
        BY <1>2, <1>3, <2>2, <2>1
      <3>2. e.at - m = x
        BY <1>1, <1>2, <3>1
      <3>3. Within(e, d, x, f.after.maxGap)
        BY <3>2 DEF Within, m
      <3> QED BY <1>1, <3>3
    <2>3. CASE d \in DOMAIN w.days /\ x <= f.before.last
      <3>1. x \in w.days[d].first .. w.days[d].last
        BY <1>2, <1>3, <2>1, <2>3
      <3>2. PICK s \in taken : Within(s, d, x, w.days[d].maxGap)
        BY <1>5, <2>3, <3>1 DEF Sampling, Covers
      <3>3. s \in Sample
        BY <1>1
      <3>4. Within(s, d, x, f.after.maxGap)
        BY <1>2, <1>3, <2>1, <2>3, <3>2, <3>3, GapGrows
      <3> QED BY <1>1, <3>4
    <2>4. CASE d \in DOMAIN w.days /\ x > f.before.last
      <3>1. w.lastSample # Never /\ (d < Date(w.lastSample) \/ w.lastSample <= m + f.before.last)
        BY <1>3, <1>5, <2>4 DEF Sampling, Lasts, m
      <3>2. w.lastSample \in Nat /\ w.lastSample <= now
        <4>1. w.lastSample \in Nat
          BY <1>1, <3>1 DEF Window
        <4>2. w.lastSample <= up + DayLen /\ now + back = up + DayLen
          BY <1>1, NowFacts DEF Sampling
        <4> QED BY <1>2, <1>5, <4>1, <4>2
      <3>3. Date(w.lastSample) <= d /\ Date(w.lastSample) \in Nat
        BY <1>2, <3>2, DateMonotone, DateFacts
      <3>4. w.lastSample <= m + f.before.last
        BY <1>2, <3>1, <3>3
      <3>5. x <= at /\ at < x + f.after.maxGap
        BY <1>2, <1>3, <2>1, <2>4, <3>1, <3>2, <3>4
      <3>6. e.at - m = at
        BY <1>1, <1>2
      <3>7. Within(e, d, x, f.after.maxGap)
        BY <3>5, <3>6 DEF Within, m
      <3> QED BY <1>1, <3>7
    <2> QED BY <2>1, <2>2, <2>3, <2>4
  <1> QED BY <1>4, <1>5

LEMMA ObservedFacts ==
    ASSUME WindowsOK, NEW w \in Window, NEW usage \in Usages, NEW n \in WindowSizes,
           NEW f, f = Fold(w, now, usage, n), NEW r, r = Observed(w, f, uid, now)
    PROVE  /\ r \in Window /\ r.uid = uid /\ r.lastSample = now /\ r.lastWrite = w.lastWrite
           /\ DOMAIN r.days = DOMAIN f.kept \cup {Date(now)} /\ r.days[Date(now)] = f.after
           /\ \A d \in DOMAIN f.kept : d # Date(now) => r.days[d] = w.days[d]
  <1> DEFINE d == Date(now)
             days == [i \in DOMAIN f.kept \cup {d} |-> IF i = d THEN f.after ELSE f.kept[i]]
  <1>1. /\ f.kept \in Days /\ f.after \in Bucket
        /\ \A i \in DOMAIN f.kept : f.kept[i] = w.days[i]
    BY FoldFacts
  <1>2. now \in Nat /\ d \in Nat /\ uid \in Nat /\ w.lastWrite \in Nat \cup {Never}
    BY NowFacts DEF WindowsOK, Window
  <1>3. r = [uid |-> uid, lastSample |-> now, lastWrite |-> w.lastWrite, days |-> days]
    BY DEF Observed
  <1> HIDE DEF d, now
  <1>4. /\ DOMAIN days = DOMAIN f.kept \cup {d} /\ days[d] = f.after
        /\ \A i \in DOMAIN f.kept : i # d => days[i] = f.kept[i]
        /\ days = [i \in DOMAIN days |-> days[i]]
    OBVIOUS
  <1> HIDE DEF days
  <1>5. days \in Days
    <2>1. DOMAIN days \subseteq Nat /\ \A i \in DOMAIN days : days[i] \in Bucket
      BY <1>1, <1>2, <1>4, DaysFacts
    <2> QED BY <1>4, <2>1, DaysIntro
  <1>6. r \in Window /\ r.uid = uid /\ r.lastSample = now /\ r.lastWrite = w.lastWrite /\ r.days = days
    BY <1>2, <1>3, <1>5 DEF Window
  <1> QED BY <1>1, <1>4, <1>6 DEF d

-----------------------------------------------------------------------------
(* What becomes of a window *)

\* No sample is taken back; a failure may only change what became of it.
Carried == \A s \in taken : \E z \in taken' : z.at = s.at /\ z.usage = s.usage

LEMMA WindowKept ==
    ASSUME NEW w, WindowInv(w), up \in Nat, up' \in Nat, up <= up', uid' = uid,
           back' = 0 => back = 0, Carried
    PROVE  WindowInv(w)'
  <1>1. w \in Window /\ w.uid <= uid /\ (w.uid = NoUID => DOMAIN w.days = {} /\ w.lastSample = Never)
    BY DEF WindowInv
  <1>2. w.lastSample <= up' + DayLen /\ w.lastWrite <= up' + DayLen
    <2>1. w.lastSample \in Int /\ w.lastWrite \in Int /\ DayLen \in Int
      BY <1>1, WindowAssumption DEF Window, Never
    <2>2. w.lastSample <= up + DayLen /\ w.lastWrite <= up + DayLen
      BY DEF WindowInv
    <2> QED BY <2>1, <2>2
  <1>3. ASSUME w.uid = uid, NEW d \in DOMAIN w.days, w.days[d].peak >= 0
        PROVE  \E z \in taken' : Date(z.at) = d /\ z.usage = w.days[d].peak
    <2>1. PICK s \in taken : Date(s.at) = d /\ s.usage = w.days[d].peak
      BY <1>3 DEF WindowInv, Peaks
    <2> QED BY <2>1 DEF Carried
  <1>4. ASSUME w.uid = uid, back' = 0, NEW d \in DOMAIN w.days,
               NEW x \in w.days[d].first .. w.days[d].last
        PROVE  \E z \in taken' : Within(z, d, x, w.days[d].maxGap)
    <2>1. PICK s \in taken : Within(s, d, x, w.days[d].maxGap)
      BY <1>4 DEF WindowInv, Covers
    <2>2. PICK z \in taken' : z.at = s.at
      BY DEF Carried
    <2>3. Within(z, d, x, w.days[d].maxGap)
      BY <2>1, <2>2 DEF Within
    <2> QED BY <2>3
  <1>5. w.uid = uid /\ back' = 0 => Lasts(w)
    BY DEF WindowInv
  <1> QED BY <1>1, <1>2, <1>3, <1>4, <1>5 DEF WindowInv, Peaks, Covers

\* A window of another object says nothing of this one.
LEMMA OtherKept ==
    ASSUME NEW w, WindowInv(w), uid \in Nat, uid' = uid + 1, up' = up
    PROVE  WindowInv(w)'
  <1>1. w \in Window /\ w.uid <= uid /\ w.uid \in Nat
    BY DEF WindowInv, Window
  <1>2. w.uid # uid' /\ w.uid <= uid'
    BY <1>1
  <1> QED BY <1>1, <1>2 DEF WindowInv

\* What Observe makes of a window, written or not.
Results(r) == {r, [r EXCEPT !.lastWrite = now]}

LEMMA ResultFacts ==
    ASSUME WindowsOK, NEW r \in Window, NEW v \in Results(r)
    PROVE  /\ v \in Window /\ v.uid = r.uid /\ v.lastSample = r.lastSample /\ v.days = r.days
           /\ v.lastWrite \in {r.lastWrite, now}
           /\ [r EXCEPT !.lastWrite = now].lastWrite = now
  <1>1. now \in Nat
    BY NowFacts
  <1> HIDE DEF now
  <1> QED BY <1>1 DEF Results, Window

LEMMA ResultInv ==
    ASSUME NEW w, NEW e, Sampling(w, e, taken'), e.usage \in Usages, NEW n \in WindowSizes,
           NEW f, f = Fold(w, now, e.usage, n), NEW r, r = Observed(w, f, uid, now),
           NEW v \in Results(r), w.lastWrite <= up + DayLen, UNCHANGED <<up, back, uid>>
    PROVE  WindowInv(v)'
  <1>1. WindowsOK /\ w \in Window /\ Peaks(w, taken) /\ taken \subseteq taken'
    BY DEF Sampling
  <1>2. /\ r \in Window /\ r.uid = uid /\ r.lastSample = now /\ r.lastWrite = w.lastWrite
        /\ DOMAIN r.days = DOMAIN f.kept \cup {Date(now)} /\ r.days[Date(now)] = f.after
        /\ \A d \in DOMAIN f.kept : d # Date(now) => r.days[d] = w.days[d]
    BY <1>1, ObservedFacts
  <1>3. /\ v \in Window /\ v.uid = uid /\ v.lastSample = now /\ v.days = r.days
        /\ v.lastWrite \in {w.lastWrite, now}
    BY <1>1, <1>2, ResultFacts
  <1>4. /\ DOMAIN f.kept = {d \in DOMAIN w.days : d <= Date(now) /\ d >= Date(now) - n}
        /\ f.after.last = TimeOfDay(now)
    BY <1>1, FoldFacts
  <1>5. now \in Nat /\ now <= up + DayLen /\ uid \in Nat \ {0} /\ Date(now) \in Nat
        /\ now = Midnight(Date(now)) + TimeOfDay(now)
    <2>1. now \in Nat /\ back \in Nat /\ now + back = up + DayLen /\ up \in Nat /\ DayLen \in Nat
      BY <1>1, NowFacts, WindowAssumption
    <2>2. uid \in Nat \ {0}
      BY <1>1 DEF WindowsOK
    <2> HIDE DEF now
    <2> QED BY <2>1, <2>2, DateFacts
  <1> HIDE DEF now
  <1>6. Peaks(v, taken')
    BY <1>1, <1>2, <1>3, <1>4, AfterFacts DEF Peaks
  <1>7. ASSUME back = 0 PROVE Covers(v, taken')
    <2> SUFFICES ASSUME NEW d \in DOMAIN v.days, NEW x \in v.days[d].first .. v.days[d].last
                 PROVE  \E s \in taken' : Within(s, d, x, v.days[d].maxGap)
      BY DEF Covers
    <2>1. CASE d = Date(now)
      BY <1>2, <1>3, <1>7, <2>1, AfterFacts
    <2>2. CASE d # Date(now)
      <3>1. d \in DOMAIN w.days /\ v.days[d] = w.days[d]
        BY <1>2, <1>3, <1>4, <2>2
      <3>2. Covers(w, taken)
        BY <1>7 DEF Sampling
      <3> QED BY <1>1, <3>1, <3>2 DEF Covers
    <2> QED BY <2>1, <2>2
  <1>8. Lasts(v)
    <2> SUFFICES ASSUME NEW d \in DOMAIN v.days
                 PROVE  /\ v.lastSample # Never
                        /\ d < Date(v.lastSample) \/ v.lastSample <= Midnight(d) + v.days[d].last
      BY DEF Lasts
    <2>1. v.lastSample # Never
      BY <1>3, <1>5 DEF Never
    <2>2. CASE d = Date(now)
      BY <1>2, <1>3, <1>4, <1>5, <2>1, <2>2
    <2>3. CASE d # Date(now)
      <3>1. d \in Nat /\ d <= Date(now)
        <4>1. w.days \in Days
          BY <1>1 DEF Window
        <4> QED BY <1>2, <1>3, <1>4, <2>3, <4>1, DaysFacts
      <3> QED BY <1>3, <1>5, <2>1, <2>3, <3>1
    <2> QED BY <2>2, <2>3
  <1>9. v.lastSample <= up + DayLen /\ v.lastWrite <= up + DayLen /\ v.uid # NoUID
    BY <1>3, <1>5 DEF NoUID
  <1>10. v.uid <= uid
    BY <1>3, <1>5
  <1> QED BY <1>3, <1>6, <1>7, <1>8, <1>9, <1>10 DEF WindowInv

\* A recorded sample stays known, or its day is pruned for good.
LEMMA ResultKnown ==
    ASSUME WindowsOK, NEW w \in Window, NEW usage \in Usages, NEW n \in WindowSizes,
           NEW f, f = Fold(w, now, usage, n), NEW r, r = Observed(w, f, uid, now),
           NEW v \in Results(r), NEW s \in Sample, Date(s.at) <= Date(now), Known(s, w)
    PROVE  Known(s, v)
  <1> DEFINE d == Date(s.at)
  <1>1. /\ DOMAIN r.days = DOMAIN f.kept \cup {Date(now)} /\ r.days[Date(now)] = f.after
        /\ \A i \in DOMAIN f.kept : i # Date(now) => r.days[i] = w.days[i]
        /\ r \in Window /\ r.uid = uid
    BY ObservedFacts
  <1>2. v.days = r.days /\ v.uid = uid
    BY <1>1, ResultFacts
  <1>3. /\ DOMAIN f.kept = {i \in DOMAIN w.days : i <= Date(now) /\ i >= Date(now) - n}
        /\ Date(now) \in DOMAIN w.days => f.before = w.days[Date(now)]
        /\ f.before \in Bucket /\ f.after \in Bucket /\ f.after.peak >= f.before.peak
    BY FoldFacts
  <1>4. s.at \in Nat /\ s.usage \in Int /\ d \in Nat
    <2>1. s.at \in Nat /\ s.usage \in Usages
      BY DEF Sample
    <2> QED BY <2>1, UsageFacts, DateFacts
  <1>5. /\ Date(now) \in Nat /\ Date(up) \in Nat /\ n \in Nat \ {0} /\ Date(up) <= Date(now)
        /\ Date(now) <= Date(up) + 1 /\ Date(up + DayLen) = Date(up) + 1
    BY NowFacts, WindowAssumption
  <1> HIDE DEF d, now
  <1>6. IF d \in DOMAIN w.days THEN w.days[d].peak >= s.usage ELSE ~Wanted(s)
    BY DEF Known, d
  <1>7. CASE d = Date(now)
    <2>1. d \in DOMAIN w.days
      <3>1. Date(s.at) >= Date(up + DayLen) - 1
        BY <1>4, <1>5, <1>7 DEF d
      <3>2. Wanted(s)
        <4> SUFFICES ASSUME NEW k \in WindowSizes PROVE Date(s.at) >= Date(up + DayLen) - k
          BY DEF Wanted
        <4>1. k \in Nat \ {0}
          BY WindowAssumption
        <4> QED BY <1>4, <1>5, <3>1, <4>1 DEF d
      <3> QED BY <1>6, <3>2
    <2>2. f.before.peak >= s.usage /\ f.before.peak \in Int /\ f.after.peak \in Int
      BY <1>3, <1>6, <1>7, <2>1, BucketFacts
    <2>3. f.after.peak >= s.usage
      BY <1>3, <1>4, <2>2
    <2> QED BY <1>1, <1>2, <1>7, <2>3 DEF Known, d
  <1>8. CASE d # Date(now) /\ d \in DOMAIN f.kept
    BY <1>1, <1>2, <1>3, <1>6, <1>8 DEF Known, d
  <1>9. CASE d # Date(now) /\ d \notin DOMAIN f.kept
    <2>1. ~Wanted(s)
      <3>1. CASE d \notin DOMAIN w.days
        BY <1>6, <3>1
      <3>2. CASE d \in DOMAIN w.days
        <4>1. ~(d >= Date(now) - n)
          BY <1>3, <1>9, <3>2 DEF d
        <4>2. ~(d >= Date(up + DayLen) - n)
          BY <1>4, <1>5, <4>1
        <4> QED BY <4>2 DEF Wanted, d
      <3> QED BY <3>1, <3>2
    <2> QED BY <1>1, <1>2, <1>9, <2>1 DEF Known, d
  <1> QED BY <1>7, <1>8, <1>9

\* The sample itself is known.
LEMMA SampleKnown ==
    ASSUME WindowsOK, NEW w \in Window, NEW e, e.usage \in Usages, e.at = now, NEW n \in WindowSizes,
           NEW f, f = Fold(w, now, e.usage, n), NEW r, r = Observed(w, f, uid, now),
           NEW v \in Results(r)
    PROVE  Known(e, v)
  <1>1. /\ DOMAIN r.days = DOMAIN f.kept \cup {Date(now)} /\ r.days[Date(now)] = f.after
        /\ r \in Window /\ r.uid = uid
    BY ObservedFacts
  <1>2. v.days = r.days /\ v.uid = uid
    BY <1>1, ResultFacts
  <1>3. f.after.peak >= e.usage
    BY FoldFacts
  <1> QED BY <1>1, <1>2, <1>3 DEF Known

\* What a failed write leaves in the cache is as true to the history as what
\* was there.
LEMMA LeftFacts ==
    ASSUME NEW m, WindowInv(m), NEW w, w = StartFrom(m, uid), NEW e, Sampling(w, e, taken'),
           e.usage \in Usages, NEW n \in WindowSizes, NEW f, f = Fold(w, now, e.usage, n),
           NEW v, v = LeftBehind(m, f, Restarted(m, uid), now), UNCHANGED <<up, back, uid>>
    PROVE  /\ WindowInv(v)' /\ v.uid = m.uid /\ v.lastWrite = m.lastWrite
           /\ \A s \in Sample : Known(s, m) => Known(s, v)
  <1> DEFINE d == Date(now)
  <1>1. WindowsOK /\ w \in Window /\ Peaks(w, taken) /\ taken \subseteq taken' /\ m \in Window
    BY DEF Sampling, WindowInv
  <1>2. CASE v = m
    <2>1. Carried
      BY <1>1 DEF Carried
    <2>2. up \in Nat /\ up <= up'
      BY <1>1, NowFacts
    <2> QED BY <1>2, <2>1, <2>2, WindowKept
  <1>3. CASE v # m
    <2>1. ~Restarted(m, uid) /\ d \in DOMAIN m.days
      BY <1>3 DEF LeftBehind
    <2>2. w = m /\ m.uid = uid
      <3>1. w = m
        BY <2>1 DEF StartFrom
      <3> QED BY <2>1, <3>1 DEF WindowInv, Restarted
    <2>3. m.days \in Days /\ d \in Nat /\ now \in Nat /\ now = Midnight(d) + TimeOfDay(now)
      <3>1. m.days \in Days /\ now \in Nat
        BY <1>1, NowFacts DEF Window
      <3> HIDE DEF now
      <3> QED BY <3>1, DateFacts
    <2> HIDE DEF now
    <2>4. /\ f.before = m.days[d] /\ f.before \in Bucket /\ f.after \in Bucket
          /\ f.after.last = TimeOfDay(now) /\ f.after.peak >= f.before.peak
      BY <1>1, <2>1, <2>2, FoldFacts
    <2> DEFINE b == IF Pruned(m, f) THEN [m.days[d] EXCEPT !.peak = f.after.peak] ELSE f.after
               days == [m.days EXCEPT ![d] = b]
    <2>5. /\ b \in Bucket /\ b.peak = f.after.peak
          /\ b = f.after \/ (/\ b.first = m.days[d].first /\ b.last = m.days[d].last
                             /\ b.maxGap = m.days[d].maxGap)
      <3>1. CASE Pruned(m, f)
        BY <2>4, <3>1 DEF Bucket
      <3>2. CASE ~Pruned(m, f)
        BY <2>4, <3>2
      <3> QED BY <3>1, <3>2
    <2>6. v = [m EXCEPT !.days = days]
      <3>1. CASE Pruned(m, f)
        BY <2>1, <3>1 DEF LeftBehind
      <3>2. CASE ~Pruned(m, f)
        BY <2>1, <3>2 DEF LeftBehind
      <3> QED BY <3>1, <3>2
    <2> HIDE DEF b
    <2>7. /\ DOMAIN days = DOMAIN m.days /\ days[d] = b
          /\ \A i \in DOMAIN m.days : i # d => days[i] = m.days[i]
          /\ days = [i \in DOMAIN days |-> days[i]]
      BY <2>1
    <2> HIDE DEF days, d
    <2>8. days \in Days
      <3>1. DOMAIN days \subseteq Nat /\ \A i \in DOMAIN days : days[i] \in Bucket
        BY <2>3, <2>5, <2>7, DaysFacts
      <3> QED BY <2>7, <3>1, DaysIntro
    <2>9. /\ v \in Window /\ v.uid = m.uid /\ v.lastSample = m.lastSample
          /\ v.lastWrite = m.lastWrite /\ v.days = days
      BY <1>1, <2>6, <2>8 DEF Window
    <2>10. /\ f.after.peak >= 0 =>
                \E s \in taken' : Date(s.at) = d /\ s.usage = f.after.peak
           /\ back = 0 => \A x \in f.after.first .. f.after.last :
                \E s \in taken' : Within(s, d, x, f.after.maxGap)
      BY AfterFacts DEF d
    <2>11. Peaks(v, taken')
      BY <1>1, <2>2, <2>5, <2>7, <2>9, <2>10 DEF Peaks
    <2>12. ASSUME back = 0 PROVE Covers(v, taken')
      <3>1. Covers(m, taken)
        BY <2>2, <2>12 DEF Sampling
      <3> SUFFICES ASSUME NEW i \in DOMAIN v.days, NEW x \in v.days[i].first .. v.days[i].last
                   PROVE  \E s \in taken' : Within(s, i, x, v.days[i].maxGap)
        BY DEF Covers
      <3>2. CASE i = d /\ b = f.after
        BY <2>7, <2>9, <2>10, <2>12, <3>2
      <3>3. CASE i # d \/ b # f.after
        <4>1. /\ i \in DOMAIN m.days /\ v.days[i].first = m.days[i].first
              /\ v.days[i].last = m.days[i].last /\ v.days[i].maxGap = m.days[i].maxGap
          BY <2>5, <2>7, <2>9, <3>3
        <4> QED BY <1>1, <3>1, <4>1 DEF Covers
      <3> QED BY <3>2, <3>3
    <2>13. ASSUME back = 0 PROVE Lasts(v)
      <3>1. Lasts(m)
        BY <2>2, <2>13 DEF Sampling
      <3>2. m.lastSample <= now
        <4>1. m.lastSample <= up + DayLen /\ now + back = up + DayLen
          BY <1>1, NowFacts DEF WindowInv
        <4> QED BY <2>3, <2>13, <4>1
      <3> SUFFICES ASSUME NEW i \in DOMAIN v.days
                   PROVE  /\ v.lastSample # Never
                          /\ i < Date(v.lastSample) \/ v.lastSample <= Midnight(i) + v.days[i].last
        BY DEF Lasts
      <3>3. CASE i = d /\ b = f.after
        BY <2>1, <2>3, <2>4, <2>7, <2>9, <3>1, <3>2, <3>3 DEF Lasts, d
      <3>4. CASE i # d \/ b # f.after
        <4>1. i \in DOMAIN m.days /\ v.days[i].last = m.days[i].last
          BY <2>5, <2>7, <2>9, <3>4
        <4> QED BY <2>9, <3>1, <4>1 DEF Lasts
      <3> QED BY <3>3, <3>4
    <2>14. WindowInv(v)'
      <3>1. /\ v.uid <= uid /\ v.lastSample <= up + DayLen /\ v.lastWrite <= up + DayLen
            /\ v.uid # NoUID
        BY <1>1, <2>2, <2>9 DEF WindowInv, WindowsOK, NoUID
      <3> QED BY <2>9, <2>11, <2>12, <2>13, <3>1 DEF WindowInv
    <2>15. ASSUME NEW s \in Sample, Known(s, m) PROVE Known(s, v)
      <3>1. CASE Date(s.at) = d
        <4>1. m.days[d].peak >= s.usage
          BY <2>1, <2>15, <3>1 DEF Known, d
        <4>2. s.usage \in Int /\ f.before.peak \in Int /\ f.after.peak \in Int
          <5>1. s.usage \in Usages
            BY DEF Sample
          <5> QED BY <2>4, <5>1, UsageFacts, BucketFacts
        <4>3. b.peak >= s.usage
          BY <2>4, <2>5, <4>1, <4>2
        <4> QED BY <2>1, <2>2, <2>7, <2>9, <3>1, <4>3 DEF Known, d
      <3>2. CASE Date(s.at) # d
        BY <2>7, <2>9, <2>15, <3>2 DEF Known
      <3> QED BY <3>1, <3>2
    <2> QED BY <2>9, <2>14, <2>15
  <1> QED BY <1>2, <1>3

-----------------------------------------------------------------------------
(* The actions *)

LEMMA CachedFacts ==
    ASSUME WindowsOK
    PROVE  /\ Cached = (IF mem.warm THEN mem.window ELSE lease.window) /\ WindowInv(Cached)
           /\ DecodeWindow(lease) = lease.window
  BY DEF WindowsOK, Cached, DecodeWindow

\* The history with one sample more.
LEMMA SamplingFacts ==
    ASSUME WindowsOK, NEW c, WindowInv(c), NEW w, w = StartFrom(c, uid), NEW e \in Sample,
           e.at = now, taken' = taken \cup {e}
    PROVE  /\ Sampling(w, e, taken') /\ w \in Window /\ w.lastWrite <= up + DayLen
           /\ DOMAIN w.days # {} => w = c /\ w.uid = uid
           /\ c.uid = uid => w = c
  <1>1. /\ w \in Window /\ w.lastSample <= up + DayLen /\ w.lastWrite <= up + DayLen
        /\ DOMAIN w.days # {} => w = c /\ w.uid = uid
        /\ c.uid = uid => w = c
        /\ Peaks(w, taken) /\ (back = 0 => Covers(w, taken) /\ Lasts(w))
    BY StartFacts
  <1>2. taken' \subseteq Sample
    BY DEF WindowsOK
  <1> QED BY <1>1, <1>2 DEF Sampling

LEMMA SampleFacts ==
    ASSUME WindowsOK, NEW usage \in Usages, NEW ok \in BOOLEAN,
           NEW e, e = [at |-> now, up |-> up, usage |-> usage, ok |-> ok]
    PROVE  e \in Sample /\ e.at = now /\ e.usage = usage /\ e.ok = ok
  <1>1. now \in Nat /\ up \in Nat
    BY NowFacts
  <1> HIDE DEF now
  <1> QED BY <1>1 DEF Sample

\* The rest of what Observe does to the types, whether or not it fails.
LEMMA TakenFacts ==
    ASSUME WindowsOK, NEW e \in Sample, e.at = now, taken' = taken \cup {e},
           UNCHANGED <<up, back, uid>>, upsets' \in 0 .. MaxUpsets,
           NEW m, NEW l, WindowInv(m)', WindowInv(l)', NEW x \in BOOLEAN, NEW y \in BOOLEAN,
           mem' = [warm |-> x, window |-> m], lease' = [valid |-> y, window |-> l],
           ~y => l = EmptyWindow
    PROVE  WindowsOK'
  <1>1. /\ mem'.warm = x /\ mem'.window = m /\ lease'.valid = y /\ lease'.window = l
    OBVIOUS
  <1>2. \A s \in taken' : s.at <= up' + DayLen /\ (s.ok => Date(s.at) <= Date(now'))
    <2>1. now' = now
      BY DEF now
    <2>2. now <= up + DayLen /\ Date(now) \in Nat
      <3>1. now \in Nat /\ back \in Nat /\ now + back = up + DayLen /\ Date(now) \in Nat
        BY NowFacts
      <3> HIDE DEF now
      <3> QED BY <3>1
    <2> HIDE DEF now
    <2> QED BY <2>1, <2>2 DEF WindowsOK
  <1>3. WindowInv(mem.window)' /\ WindowInv(lease.window)'
    BY <1>1 DEF WindowInv
  <1>4. taken' \subseteq Sample
    BY DEF WindowsOK
  <1>5. mem' = [warm |-> mem'.warm, window |-> mem'.window]
        /\ lease' = [valid |-> lease'.valid, window |-> lease'.window]
    BY <1>1
  <1> QED BY <1>1, <1>2, <1>3, <1>4, <1>5 DEF WindowsOK

LEMMA ObserveStep ==
    ASSUME ObserverInv, NEW usage \in Usages, NEW windowDays \in WindowSizes,
           Observe(usage, windowDays)
    PROVE  ObserverInv'
  <1>w. PICK w : w = StartFrom(Cached, uid)
    OBVIOUS
  <1>f. PICK f : f = Fold(w, now, usage, windowDays)
    OBVIOUS
  <1>r. PICK r : r = Observed(w, f, uid, now)
    OBVIOUS
  <1>u. PICK u : u = [r EXCEPT !.lastWrite = now]
    OBVIOUS
  <1>e. PICK e : e = [at |-> now, up |-> up, usage |-> usage, ok |-> TRUE]
    OBVIOUS
  <1> DEFINE written == Changed(w, f) \/ heartbeatElapsed(w, now)
  <1>v. PICK v : v = IF written THEN u ELSE r
    OBVIOUS
  <1>1. WindowsOK /\ KeptInv /\ LossInv
    BY DEF ObserverInv
  <1>2. /\ UNCHANGED <<up, back, uid, upsets>> /\ taken' = taken \cup {e}
        /\ mem' = [warm |-> TRUE, window |-> v]
        /\ lease' = IF written THEN [valid |-> TRUE, window |-> u] ELSE lease
    BY <1>w, <1>f, <1>r, <1>u, <1>e, <1>v DEF Observe, Take
  <1>3. Cached = (IF mem.warm THEN mem.window ELSE lease.window) /\ WindowInv(Cached)
    BY <1>1, CachedFacts
  <1>4. /\ Sampling(w, e, taken') /\ e.usage = usage /\ e.at = now /\ e.ok = TRUE /\ e \in Sample
        /\ w \in Window /\ w.lastWrite <= up + DayLen
        /\ DOMAIN w.days # {} => w = Cached /\ w.uid = uid
        /\ Cached.uid = uid => w = Cached
    <2>1. PICK c : c = Cached
      OBVIOUS
    <2>2. e \in Sample /\ e.at = now /\ e.usage = usage /\ e.ok = TRUE
      BY <1>1, <1>e, SampleFacts
    <2>3. WindowInv(c) /\ w = StartFrom(c, uid)
      BY <1>3, <1>w, <2>1
    <2>4. /\ Sampling(w, e, taken') /\ w \in Window /\ w.lastWrite <= up + DayLen
          /\ DOMAIN w.days # {} => w = c /\ w.uid = uid
          /\ c.uid = uid => w = c
      BY <1>1, <1>2, <2>2, <2>3, SamplingFacts
    <2> QED BY <2>1, <2>2, <2>4
  <1>5. f = Fold(w, now, e.usage, windowDays) /\ e.usage \in Usages
    BY <1>4, <1>f
  <1>6. r \in Window /\ r.uid = uid /\ r.lastWrite = w.lastWrite /\ f.isNew = (Date(now) \notin DOMAIN w.days)
    BY <1>1, <1>4, <1>r, <1>f, ObservedFacts, FoldFacts
  <1>7. v \in Results(r) /\ u \in Results(r) /\ v.uid = uid
        /\ v.lastWrite = (IF written THEN now ELSE w.lastWrite)
    <2>1. v \in Results(r) /\ u \in Results(r)
      BY <1>u, <1>v DEF Results
    <2>2. u.lastWrite = now
      BY <1>1, <1>6, <2>1, <1>u, ResultFacts
    <2> QED BY <1>1, <1>6, <2>1, <2>2, <1>v, ResultFacts
  <1> HIDE DEF written
  <1>8. WindowInv(v)'
    BY <1>2, <1>4, <1>5, <1>7, <1>r, ResultInv
  <1>9. Known(e, v) /\ \A s \in taken : s.ok => Known(s, v)
    <2>1. Known(e, v)
      BY <1>1, <1>4, <1>5, <1>7, <1>r, SampleKnown
    <2>2. ASSUME NEW s \in taken, s.ok PROVE Known(s, v)
      <3>1. Known(s, w)
        BY <1>1, <1>4, <2>2 DEF KeptInv, Known
      <3>2. s \in Sample /\ Date(s.at) <= Date(now)
        BY <1>1, <2>2 DEF WindowsOK
      <3> QED BY <1>1, <1>4, <1>5, <1>7, <3>1, <3>2, <1>r, ResultKnown
    <2> QED BY <2>1, <2>2
  <1>10. \A s : Known(s, v)' = Known(s, v)
    BY <1>2 DEF Known, Wanted
  <1>11. WindowsOK'
    <2>1. upsets' \in 0 .. MaxUpsets
      BY <1>1, <1>2 DEF WindowsOK
    <2>2. CASE written
      <3>1. lease' = [valid |-> TRUE, window |-> v]
        BY <1>2, <2>2, <1>v
      <3> QED BY <1>1, <1>2, <1>4, <1>8, <2>1, <3>1, TakenFacts
    <2>3. CASE ~written
      <3>1. /\ lease' = [valid |-> lease.valid, window |-> lease.window] /\ lease.valid \in BOOLEAN
            /\ ~lease.valid => lease.window = EmptyWindow
        BY <1>1, <1>2, <2>3 DEF WindowsOK
      <3>2. WindowInv(lease.window)
        BY <1>1 DEF WindowsOK
      <3>5. PICK l : l = lease.window
        OBVIOUS
      <3>3. WindowInv(l)'
        <4>1. Carried
          BY <1>2 DEF Carried
        <4>2. up \in Nat /\ up <= up'
          BY <1>1, <1>2, NowFacts
        <4>3. WindowInv(l)
          BY <3>2, <3>5
        <4> QED BY <1>2, <4>1, <4>2, <4>3, WindowKept
      <3>4. lease' = [valid |-> lease.valid, window |-> l] /\ (~lease.valid => l = EmptyWindow)
        BY <3>1, <3>5
      <3> QED BY <1>1, <1>2, <1>4, <1>8, <2>1, <3>1, <3>3, <3>4, TakenFacts
    <2> QED BY <2>2, <2>3
  <1>12. mem'.warm /\ mem'.window = v
    BY <1>2
  <1>13. KeptInv'
    <2>1. Cached' = v
      BY <1>12 DEF Cached
    <2> QED BY <1>2, <1>9, <1>10, <2>1 DEF KeptInv
  <1>14. LossInv'
    <2>1. /\ now \in Nat /\ back \in Nat /\ up \in Nat /\ now + back = up + DayLen
          /\ DayLen \in Nat /\ Heartbeat \in Nat \ {0}
      BY <1>1, NowFacts, WindowAssumption
    <2>2. \A s \in taken' : s.at \in Nat /\ s.at <= up + DayLen
      BY <1>2, <1>11 DEF WindowsOK, Sample
    <2>3. CASE written
      <3>1. lease'.window = v /\ v.lastWrite = now
        BY <1>2, <1>7, <2>3, <1>v
      <3> HIDE DEF now
      <3>2. \A s \in taken' : s.at < v.lastWrite + Heartbeat + back
        BY <2>1, <2>2, <3>1
      <3>3. v.lastWrite <= v.lastWrite + back
        BY <2>1, <3>1
      <3> QED BY <1>2, <1>7, <1>9, <1>10, <1>12, <3>1, <3>2, <3>3 DEF LossInv
    <2>4. CASE ~written
      <3>1. w = Cached /\ w.uid = uid
        <4>1. ~f.isNew
          BY <2>4 DEF written, Changed
        <4> QED BY <1>4, <1>6, <4>1
      <3>2. w.lastWrite # Never /\ w.lastWrite \in Nat /\ now - w.lastWrite < Heartbeat
        <4>1. w.lastWrite # Never /\ ~(now - w.lastWrite >= Heartbeat)
          BY <2>4 DEF written, heartbeatElapsed
        <4>2. w.lastWrite \in Nat
          BY <1>4, <4>1 DEF Window
        <4> HIDE DEF now
        <4> QED BY <2>1, <4>1, <4>2
      <3> HIDE DEF now
      <3>3. lease.window.uid = uid /\ lease.window.lastWrite \in Int
            /\ lease.window.lastWrite <= up + DayLen
            /\ w.lastWrite <= lease.window.lastWrite + back
        <4>1. lease.window.lastWrite \in Int /\ lease.window.lastWrite <= up + DayLen
          BY <1>1 DEF WindowsOK, WindowInv, Window, Never
        <4>2. CASE mem.warm
          BY <1>1, <1>3, <3>1, <4>1, <4>2 DEF LossInv
        <4>3. CASE ~mem.warm
          BY <1>3, <2>1, <3>1, <3>2, <4>1, <4>3
        <4> QED BY <4>2, <4>3
      <3>4. lease' = lease /\ v.lastWrite = w.lastWrite
        BY <1>2, <1>7, <2>4
      <3>5. e.at < lease.window.lastWrite + Heartbeat + back /\ lease.window.lastWrite <= e.at + back
        BY <1>4, <2>1, <3>2, <3>3
      <3>6. \A s : Known(s, lease.window)' = Known(s, lease.window)
        BY <1>2, <3>4 DEF Known, Wanted
      <3> QED BY <1>1, <1>2, <1>7, <1>12, <3>3, <3>4, <3>5, <3>6 DEF LossInv
    <2> QED BY <2>3, <2>4
  <1> QED BY <1>11, <1>13, <1>14 DEF ObserverInv

LEMMA FailsStep ==
    ASSUME ObserverInv, NEW usage \in Usages, NEW windowDays \in WindowSizes,
           ObserveFails(usage, windowDays)
    PROVE  ObserverInv'
  <1>c. PICK c : c = Cached
    OBVIOUS
  <1>w. PICK w : w = StartFrom(c, uid)
    OBVIOUS
  <1>f. PICK f : f = Fold(w, now, usage, windowDays)
    OBVIOUS
  <1>r. PICK r : r = Observed(w, f, uid, now)
    OBVIOUS
  <1>u. PICK u : u = [r EXCEPT !.lastWrite = now]
    OBVIOUS
  <1>e. PICK e : e = [at |-> now, up |-> up, usage |-> usage, ok |-> FALSE]
    OBVIOUS
  <1>m. PICK m : m = mem.window
    OBVIOUS
  <1>v. PICK v : v = IF mem.warm THEN LeftBehind(m, f, Restarted(m, uid), now) ELSE m
    OBVIOUS
  <1>1. WindowsOK /\ KeptInv /\ LossInv
    BY DEF ObserverInv
  <1>2. /\ UNCHANGED <<up, back, uid>> /\ taken' = taken \cup {e} /\ upsets' = upsets + 1
        /\ upsets < MaxUpsets
        /\ mem' = IF mem.warm
                  THEN [mem EXCEPT !.window = LeftBehind(mem.window, f, Restarted(mem.window, uid), now)]
                  ELSE mem
        /\ lease' \in {lease, [valid |-> TRUE, window |-> u]}
    BY <1>c, <1>w, <1>f, <1>r, <1>u, <1>e DEF ObserveFails, Take, Upset
  <1>3. c = (IF mem.warm THEN m ELSE lease.window) /\ WindowInv(c) /\ WindowInv(m)
    BY <1>1, <1>c, <1>m, CachedFacts DEF WindowsOK
  <1>4. e \in Sample /\ e.at = now /\ e.usage = usage /\ e.ok = FALSE
    BY <1>1, <1>e, SampleFacts
  <1>5. /\ Sampling(w, e, taken') /\ w \in Window /\ w.lastWrite <= up + DayLen
        /\ DOMAIN w.days # {} => w = c /\ w.uid = uid
        /\ c.uid = uid => w = c
    BY <1>1, <1>2, <1>3, <1>4, <1>w, SamplingFacts
  <1>6. f = Fold(w, now, e.usage, windowDays) /\ e.usage \in Usages
    BY <1>4, <1>f
  <1>7. r \in Window /\ r.uid = uid /\ u \in Results(r)
    BY <1>1, <1>5, <1>f, <1>r, <1>u, ObservedFacts DEF Results
  <1>8. u.uid = uid /\ u.lastWrite = now /\ WindowInv(u)'
    <2>1. u.uid = uid /\ u.lastWrite = now
      BY <1>1, <1>7, <1>u, ResultFacts
    <2>2. WindowInv(u)'
      BY <1>2, <1>5, <1>6, <1>7, <1>r, ResultInv
    <2> QED BY <2>1, <2>2
  <1>9. mem' = [warm |-> mem.warm, window |-> v] /\ mem'.warm = mem.warm /\ mem'.window = v
    <2>1. mem = [warm |-> mem.warm, window |-> mem.window]
      BY <1>1 DEF WindowsOK
    <2> QED BY <1>2, <1>m, <1>v, <2>1
  <1>10. Carried /\ up \in Nat /\ up <= up'
    <2>1. up \in Nat
      BY <1>1, NowFacts
    <2> QED BY <1>2, <2>1 DEF Carried
  <1>11. /\ WindowInv(v)' /\ v.uid = m.uid /\ v.lastWrite = m.lastWrite
         /\ \A s \in Sample : Known(s, m) => Known(s, v)
    <2>1. CASE mem.warm
      <3>1. w = StartFrom(m, uid) /\ v = LeftBehind(m, f, Restarted(m, uid), now)
        BY <1>3, <1>w, <1>v, <2>1
      <3> QED BY <1>2, <1>3, <1>5, <1>6, <3>1, LeftFacts
    <2>2. CASE ~mem.warm
      <3>1. v = m
        BY <1>v, <2>2
      <3> QED BY <1>2, <1>3, <1>10, <3>1, WindowKept
    <2> QED BY <2>1, <2>2
  <1>12. ASSUME NEW s \in taken', s.ok
         PROVE  s \in taken /\ s \in Sample /\ Known(s, c) /\ Known(s, u)
    <2>1. s \in taken
      BY <1>2, <1>4, <1>12
    <2>2. s \in Sample /\ Date(s.at) <= Date(now)
      BY <1>1, <1>12, <2>1 DEF WindowsOK
    <2>3. Known(s, c)
      BY <1>1, <1>c, <1>12, <2>1 DEF KeptInv
    <2>4. Known(s, w)
      BY <1>5, <2>3 DEF Known
    <2>5. Known(s, u)
      BY <1>1, <1>5, <1>7, <1>f, <1>r, <2>2, <2>4, ResultKnown
    <2> QED BY <2>1, <2>2, <2>3, <2>5
  <1>13. \A s, x : Known(s, x)' = Known(s, x)
    BY <1>2 DEF Known, Wanted
  <1>14. upsets' \in 0 .. MaxUpsets
    BY <1>1, <1>2, WindowAssumption DEF WindowsOK
  <1>15. mem.warm \in BOOLEAN
    BY <1>1 DEF WindowsOK
  <1>16. /\ now \in Nat /\ back \in Nat /\ up \in Nat /\ now + back = up + DayLen
         /\ DayLen \in Nat /\ Heartbeat \in Nat \ {0}
    BY <1>1, NowFacts, WindowAssumption
  <1>17. m.lastWrite \in Int /\ m.lastWrite <= up + DayLen
    BY <1>3 DEF WindowInv, Window, Never
  <1>18. CASE lease' = lease
    <2>1. PICK l : l = lease.window
      OBVIOUS
    <2>2. /\ lease' = [valid |-> lease.valid, window |-> l] /\ lease.valid \in BOOLEAN
          /\ (~lease.valid => l = EmptyWindow) /\ WindowInv(l)
      BY <1>1, <1>18, <2>1 DEF WindowsOK
    <2>3. WindowInv(l)'
      BY <1>2, <1>10, <2>2, WindowKept
    <2>4. WindowsOK'
      BY <1>1, <1>2, <1>4, <1>9, <1>11, <1>14, <1>15, <2>2, <2>3, TakenFacts
    <2>5. KeptInv'
      <3>1. Cached' = IF mem.warm THEN v ELSE l
        <4>1. DecodeWindow(lease) = l
          BY <1>1, <2>1, CachedFacts
        <4> QED BY <1>9, <1>18, <4>1 DEF Cached, DecodeWindow
      <3>2. CASE mem.warm
        BY <1>3, <1>11, <1>12, <1>13, <3>1, <3>2 DEF KeptInv
      <3>3. CASE ~mem.warm
        BY <1>3, <1>12, <1>13, <2>1, <3>1, <3>3 DEF KeptInv
      <3> QED BY <3>2, <3>3
    <2>6. LossInv'
      BY <1>1, <1>2, <1>9, <1>11, <1>12, <1>13, <1>18, <1>m DEF LossInv
    <2> QED BY <2>4, <2>5, <2>6 DEF ObserverInv
  <1>19. CASE lease' = [valid |-> TRUE, window |-> u]
    <2>1. lease'.valid /\ lease'.window = u
      BY <1>19
    <2>2. WindowsOK'
      BY <1>1, <1>2, <1>4, <1>8, <1>9, <1>11, <1>14, <1>15, <1>19, TakenFacts
    <2>3. KeptInv'
      <3>1. Cached' = IF mem.warm THEN v ELSE u
        BY <1>9, <2>1 DEF Cached, DecodeWindow
      <3>2. CASE mem.warm
        BY <1>3, <1>11, <1>12, <1>13, <3>1, <3>2 DEF KeptInv
      <3>3. CASE ~mem.warm
        BY <1>12, <1>13, <3>1, <3>3 DEF KeptInv
      <3> QED BY <3>2, <3>3
    <2>4. LossInv'
      <3> HIDE DEF now
      <3>1. v.lastWrite <= u.lastWrite + back
        BY <1>8, <1>11, <1>16, <1>17
      <3>2. ASSUME NEW s \in taken', s.ok
            PROVE  s.at < u.lastWrite + Heartbeat + back /\ Known(s, u)
        <4>1. s.at \in Nat /\ s.at <= up + DayLen
          BY <1>1, <1>12, <3>2 DEF WindowsOK, Sample
        <4> QED BY <1>8, <1>12, <1>16, <3>2, <4>1
      <3> QED BY <1>2, <1>8, <1>9, <1>13, <2>1, <3>1, <3>2 DEF LossInv
    <2> QED BY <2>2, <2>3, <2>4 DEF ObserverInv
  <1> QED BY <1>2, <1>18, <1>19

\* A step that takes no sample, neither forgets one nor makes it better than it
\* was, and leaves every window what it was or empty.
LEMMA QuietTypes ==
    ASSUME WindowsOK, uid' = uid, up' \in 0 .. MaxUp, up <= up', back' \in 0 .. MaxBack,
           back' = 0 => back = 0, upsets' \in 0 .. MaxUpsets, lease' = lease,
           NEW x \in BOOLEAN, NEW m \in {mem.window, EmptyWindow}, mem' = [warm |-> x, window |-> m],
           taken' \subseteq Sample, Carried,
           \A z \in taken' : z.at <= up' + DayLen /\ (z.ok => Date(z.at) <= Date(now'))
    PROVE  WindowsOK'
  <1>1. /\ mem'.warm = x /\ mem'.window = m /\ mem' = [warm |-> mem'.warm, window |-> mem'.window]
    OBVIOUS
  <1>2. up \in Nat /\ up' \in Nat /\ uid' \in Nat
    BY NowFacts DEF WindowsOK
  <1>3. WindowInv(m)'
    <2>1. CASE m = mem.window
      <3>1. WindowInv(m)
        BY <2>1 DEF WindowsOK
      <3> QED BY <1>2, <3>1, WindowKept
    <2>2. CASE m = EmptyWindow
      BY <1>2, <2>2, EmptyInvNext
    <2> QED BY <2>1, <2>2
  <1>4. PICK l : l = lease.window
    OBVIOUS
  <1>5. WindowInv(l)'
    <2>1. WindowInv(l)
      BY <1>4 DEF WindowsOK
    <2> QED BY <1>2, <2>1, WindowKept
  <1>6. WindowInv(mem.window)' /\ WindowInv(lease.window)'
    BY <1>1, <1>3, <1>4, <1>5 DEF WindowInv
  <1> HIDE DEF now
  <1> QED BY <1>1, <1>6 DEF WindowsOK

LEMMA CrashStep ==
    ASSUME ObserverInv, Crash
    PROVE  ObserverInv'
  <1>1. WindowsOK /\ KeptInv /\ LossInv
    BY DEF ObserverInv
  <1>2. /\ UNCHANGED <<up, back, uid, lease>> /\ upsets' = upsets + 1 /\ upsets < MaxUpsets
        /\ mem' = [mem EXCEPT !.warm = FALSE, !.window = EmptyWindow]
        /\ taken' = {[s EXCEPT !.ok = @ /\ Persisted(s)] : s \in taken}
    BY DEF Crash, Upset
  <1>3. mem' = [warm |-> FALSE, window |-> EmptyWindow]
    BY <1>1, <1>2 DEF WindowsOK
  <1>4. ASSUME NEW z \in taken'
        PROVE  z \in Sample /\ \E s \in taken :
                  z.at = s.at /\ z.usage = s.usage /\ (z.ok => s.ok /\ Persisted(s))
    <2>1. PICK s \in taken : z = [s EXCEPT !.ok = @ /\ Persisted(s)]
      BY <1>2
    <2>2. s \in Sample
      BY <1>1 DEF WindowsOK
    <2>3. CASE Persisted(s)
      BY <2>1, <2>2, <2>3 DEF Sample
    <2>4. CASE ~Persisted(s)
      BY <2>1, <2>2, <2>4 DEF Sample
    <2> QED BY <2>3, <2>4
  <1>5. Carried
    <2> SUFFICES ASSUME NEW s \in taken PROVE \E z \in taken' : z.at = s.at /\ z.usage = s.usage
      BY DEF Carried
    <2>1. PICK z : z = [s EXCEPT !.ok = @ /\ Persisted(s)]
      OBVIOUS
    <2>2. z \in taken' /\ s \in Sample
      BY <1>1, <1>2, <2>1 DEF WindowsOK
    <2>3. z.at = s.at /\ z.usage = s.usage
      BY <2>1, <2>2 DEF Sample
    <2> QED BY <2>2, <2>3
  <1>6. WindowsOK'
    <2>1. \A z \in taken' : z.at <= up' + DayLen /\ (z.ok => Date(z.at) <= Date(now'))
      <3>1. now' = now
        BY <1>2 DEF now
      <3> HIDE DEF now
      <3> QED BY <1>1, <1>2, <1>4, <3>1 DEF WindowsOK
    <2>2. /\ up \in 0 .. MaxUp /\ back \in 0 .. MaxBack /\ upsets' \in 0 .. MaxUpsets /\ up <= up'
      BY <1>1, <1>2, WindowAssumption DEF WindowsOK
    <2>3. taken' \subseteq Sample
      BY <1>4
    <2> QED BY <1>1, <1>2, <1>3, <1>5, <2>1, <2>2, <2>3, QuietTypes
  <1>7. ASSUME NEW z \in taken', z.ok
        PROVE  Known(z, lease.window)' /\ \E s \in taken : s.ok /\ z.at = s.at
    <2>1. PICK s \in taken : z.at = s.at /\ z.usage = s.usage /\ s.ok /\ Persisted(s)
      BY <1>4, <1>7
    <2> QED BY <1>2, <2>1 DEF Known, Persisted
  <1>8. KeptInv'
    <2>1. Cached' = lease'.window
      <3>1. DecodeWindow(lease) = lease.window
        BY <1>1, CachedFacts
      <3> QED BY <1>2, <1>3, <3>1 DEF Cached, DecodeWindow
    <2> QED BY <1>7, <2>1 DEF KeptInv, Known
  <1>9. LossInv'
    <2>1. ~mem'.warm
      BY <1>3
    <2> QED BY <1>1, <1>2, <1>7, <2>1 DEF LossInv
  <1> QED BY <1>6, <1>8, <1>9 DEF ObserverInv

LEMMA RecreateStep ==
    ASSUME ObserverInv, Recreate
    PROVE  ObserverInv'
  <1>1. WindowsOK
    BY DEF ObserverInv
  <1>2. /\ UNCHANGED <<up, back>> /\ uid' = uid + 1 /\ taken' = {} /\ upsets' = upsets + 1
        /\ upsets < MaxUpsets
        /\ mem' \in {mem, [warm |-> FALSE, window |-> EmptyWindow]}
        /\ lease' \in {lease, [valid |-> FALSE, window |-> EmptyWindow]}
    BY DEF Recreate, Upset
  <1>3. /\ up \in 0 .. MaxUp /\ back \in 0 .. MaxBack /\ uid \in Nat \ {0} /\ uid' \in Nat \ {0}
        /\ upsets' \in 0 .. MaxUpsets /\ up \in Nat
    <2>1. up \in Nat
      BY <1>1, NowFacts
    <2> QED BY <1>1, <1>2, <2>1, WindowAssumption DEF WindowsOK
  <1>4. PICK m, l : m = mem'.window /\ l = lease'.window
    OBVIOUS
  <1>5. /\ mem'.warm \in BOOLEAN /\ mem' = [warm |-> mem'.warm, window |-> mem'.window]
        /\ m \in {mem.window, EmptyWindow}
    <2>1. CASE mem' = mem
      BY <1>1, <1>4, <2>1 DEF WindowsOK
    <2>2. CASE mem' = [warm |-> FALSE, window |-> EmptyWindow]
      <3>1. mem'.warm = FALSE /\ mem'.window = EmptyWindow
        BY <2>2
      <3> QED BY <1>4, <2>2, <3>1
    <2> QED BY <1>2, <2>1, <2>2
  <1>6. /\ lease'.valid \in BOOLEAN /\ lease' = [valid |-> lease'.valid, window |-> lease'.window]
        /\ l \in {lease.window, EmptyWindow} /\ (~lease'.valid => l = EmptyWindow)
    <2>1. CASE lease' = lease
      BY <1>1, <1>4, <2>1 DEF WindowsOK
    <2>2. CASE lease' = [valid |-> FALSE, window |-> EmptyWindow]
      <3>1. lease'.valid = FALSE /\ lease'.window = EmptyWindow
        BY <2>2
      <3> QED BY <1>4, <2>2, <3>1
    <2> QED BY <1>2, <2>1, <2>2
  <1>7. ASSUME NEW v \in {mem.window, lease.window, EmptyWindow}
        PROVE  WindowInv(v)' /\ v.uid # uid'
    <2>1. CASE v \in {mem.window, lease.window}
      <3>1. WindowInv(v)
        BY <1>1, <2>1 DEF WindowsOK
      <3>2. v.uid \in Nat /\ v.uid <= uid
        BY <3>1 DEF WindowInv, Window
      <3> QED BY <1>2, <1>3, <3>1, <3>2, OtherKept
    <2>2. CASE v = EmptyWindow
      <3>1. WindowInv(v)'
        BY <1>2, <1>3, <2>2, EmptyInvNext
      <3> QED BY <1>3, <2>2, <3>1, EmptyFacts DEF NoUID
    <2> QED BY <1>7, <2>1, <2>2
  <1>8. WindowInv(m)' /\ WindowInv(l)' /\ m.uid # uid'
    BY <1>5, <1>6, <1>7
  <1>9. WindowInv(mem.window)' /\ WindowInv(lease.window)'
    BY <1>4, <1>8 DEF WindowInv
  <1>10. WindowsOK'
    BY <1>2, <1>3, <1>4, <1>5, <1>6, <1>9 DEF WindowsOK
  <1> QED BY <1>2, <1>4, <1>8, <1>10 DEF ObserverInv, KeptInv, LossInv

LEMMA SetBackStep ==
    ASSUME ObserverInv, NEW n \in 1 .. MaxBack, SetBack(n)
    PROVE  ObserverInv'
  <1>1. WindowsOK /\ KeptInv /\ LossInv
    BY DEF ObserverInv
  <1>2. /\ UNCHANGED <<up, uid, mem, lease>> /\ upsets' = upsets + 1 /\ upsets < MaxUpsets
        /\ back + n <= MaxBack /\ back' = back + n
    BY DEF SetBack, Upset
  <1>3. taken' = {[s EXCEPT !.ok = @ /\ Date(s.at) <= Date(now - n)] : s \in taken}
    BY DEF SetBack
  <1>4. /\ up \in Nat /\ back \in Nat /\ n \in Nat /\ n # 0 /\ MaxBack \in Nat /\ back' \in 0 .. MaxBack
        /\ back' # 0 /\ upsets' \in 0 .. MaxUpsets
    <2>1. up \in Nat /\ back \in Nat /\ MaxBack \in Nat /\ n \in Nat /\ n # 0
      BY <1>1, NowFacts, WindowAssumption
    <2>2. upsets' \in 0 .. MaxUpsets
      BY <1>1, <1>2, WindowAssumption DEF WindowsOK
    <2> QED BY <1>2, <2>1, <2>2
  <1>5. now' = now - n
    <2>1. DayLen \in Nat
      BY WindowAssumption
    <2> QED BY <1>2, <1>4, <2>1 DEF now
  <1> HIDE DEF now
  <1>6. ASSUME NEW z \in taken'
        PROVE  z \in Sample /\ \E s \in taken :
                  z.at = s.at /\ z.usage = s.usage /\ (z.ok => s.ok /\ Date(s.at) <= Date(now'))
    <2>1. PICK s \in taken : z = [s EXCEPT !.ok = @ /\ Date(s.at) <= Date(now - n)]
      BY <1>3
    <2>2. s \in Sample
      BY <1>1 DEF WindowsOK
    <2>3. CASE Date(s.at) <= Date(now - n)
      BY <1>5, <2>1, <2>2, <2>3 DEF Sample
    <2>4. CASE ~(Date(s.at) <= Date(now - n))
      BY <2>1, <2>2, <2>4 DEF Sample
    <2> QED BY <2>3, <2>4
  <1>7. Carried
    <2> SUFFICES ASSUME NEW s \in taken PROVE \E z \in taken' : z.at = s.at /\ z.usage = s.usage
      BY DEF Carried
    <2>1. PICK z : z = [s EXCEPT !.ok = @ /\ Date(s.at) <= Date(now - n)]
      OBVIOUS
    <2>2. z \in taken' /\ s \in Sample
      BY <1>1, <1>3, <2>1 DEF WindowsOK
    <2>3. z.at = s.at /\ z.usage = s.usage
      BY <2>1, <2>2 DEF Sample
    <2> QED BY <2>2, <2>3
  <1>8. WindowsOK'
    <2>1. \A z \in taken' : z.at <= up' + DayLen /\ (z.ok => Date(z.at) <= Date(now'))
      BY <1>1, <1>2, <1>6 DEF WindowsOK
    <2>2. up' \in 0 .. MaxUp /\ up <= up' /\ mem.warm \in BOOLEAN
          /\ mem' = [warm |-> mem.warm, window |-> mem.window]
      BY <1>1, <1>2, <1>4 DEF WindowsOK
    <2>3. taken' \subseteq Sample
      BY <1>6
    <2> QED BY <1>1, <1>2, <1>4, <1>7, <2>1, <2>2, <2>3, QuietTypes
  <1>9. ASSUME NEW z \in taken', z.ok
        PROVE  \E s \in taken : /\ s.ok /\ z.at = s.at /\ s.at \in Nat
                                /\ \A w : Known(s, w) => Known(z, w)'
    <2>1. PICK s \in taken : s.ok /\ z.at = s.at /\ z.usage = s.usage
      BY <1>6, <1>9
    <2>2. \A w : Known(s, w) => Known(z, w)'
      BY <1>2, <2>1 DEF Known, Wanted
    <2>3. s.at \in Nat
      BY <1>1 DEF WindowsOK, Sample
    <2> QED BY <2>1, <2>2, <2>3
  <1>10. KeptInv'
    <2>1. Cached' = Cached
      BY <1>2 DEF Cached, DecodeWindow
    <2>2. PICK c : c = Cached
      OBVIOUS
    <2> QED BY <1>1, <1>9, <2>1, <2>2 DEF KeptInv
  <1>11. LossInv'
    <2>1. lease.window.lastWrite \in Int /\ mem.window.lastWrite \in Int /\ Heartbeat \in Nat
      BY <1>1, WindowAssumption DEF WindowsOK, WindowInv, Window, Never
    <2>2. PICK l : l = lease.window
      OBVIOUS
    <2>3. mem'.warm /\ mem'.window.uid = uid' =>
             lease'.window.uid = uid' /\ mem'.window.lastWrite <= lease'.window.lastWrite + back'
      BY <1>1, <1>2, <1>4, <2>1 DEF LossInv
    <2>4. ASSUME NEW z \in taken', z.ok
          PROVE  /\ l.uid = uid' /\ z.at < l.lastWrite + Heartbeat + back'
                 /\ Known(z, l)' \/ l.lastWrite <= z.at + back'
      <3>1. PICK s \in taken : /\ s.ok /\ z.at = s.at /\ s.at \in Nat
                               /\ \A w : Known(s, w) => Known(z, w)'
        BY <1>9, <2>4
      <3>2. /\ l.uid = uid /\ s.at < l.lastWrite + Heartbeat + back
            /\ Known(s, l) \/ l.lastWrite <= s.at + back
        BY <1>1, <2>2, <3>1 DEF LossInv
      <3>3. s.at < l.lastWrite + Heartbeat + back' /\ (l.lastWrite <= s.at + back => l.lastWrite <= s.at + back')
        BY <1>2, <1>4, <2>1, <2>2, <3>1, <3>2
      <3> QED BY <1>2, <3>1, <3>2, <3>3
    <2>5. lease'.window = l
      BY <1>2, <2>2
    <2> QED BY <2>3, <2>4, <2>5 DEF LossInv, Known
  <1> QED BY <1>8, <1>10, <1>11 DEF ObserverInv

LEMMA TickStep ==
    ASSUME ObserverInv, Tick
    PROVE  ObserverInv'
  <1>1. WindowsOK /\ KeptInv /\ LossInv
    BY DEF ObserverInv
  <1>2. up < MaxUp /\ up' = up + 1 /\ UNCHANGED <<back, uid, mem, lease, upsets, taken>>
    BY DEF Tick
  <1>3. /\ up \in Nat /\ up' \in Nat /\ up' \in 0 .. MaxUp /\ up <= up' /\ now \in Nat /\ now' = now + 1
        /\ DayLen \in Nat
    <2>1. up \in Nat /\ back \in Nat /\ now \in Nat /\ DayLen \in Nat /\ MaxUp \in Nat
      BY <1>1, NowFacts, WindowAssumption
    <2>2. now' = now + 1
      BY <1>2, <2>1 DEF now
    <2> HIDE DEF now
    <2> QED BY <1>2, <2>1, <2>2
  <1> HIDE DEF now
  <1>4. Date(now) <= Date(now') /\ Date(now) \in Nat /\ Date(now') \in Nat
    <2>1. now + 1 \in Nat /\ now <= now + 1
      BY <1>3
    <2> QED BY <1>3, <2>1, DateMonotone, DateFacts
  <1>5. ASSUME NEW s \in taken
        PROVE  /\ s \in Sample /\ s.at \in Nat /\ Date(s.at) \in Nat
               /\ s.at <= up' + DayLen /\ (s.ok => Date(s.at) <= Date(now'))
               /\ ~Wanted(s) => ~Wanted(s)'
    <2>1. s \in Sample /\ s.at \in Nat /\ s.at <= up + DayLen /\ (s.ok => Date(s.at) <= Date(now))
      BY <1>1 DEF WindowsOK, Sample
    <2>2. Date(s.at) \in Nat
      BY <2>1, DateFacts
    <2>3. s.at <= up' + DayLen /\ (s.ok => Date(s.at) <= Date(now'))
      BY <1>3, <1>4, <2>1, <2>2
    <2>4. Date(up + DayLen) <= Date(up' + DayLen) /\ Date(up + DayLen) \in Nat /\ Date(up' + DayLen) \in Nat
      <3>1. up + DayLen \in Nat /\ up' + DayLen \in Nat /\ up + DayLen <= up' + DayLen
        <4>1. \A i, j, k \in Nat : i <= j => i + k \in Nat /\ j + k \in Nat /\ i + k <= j + k
          OBVIOUS
        <4> QED BY <1>3, <4>1
      <3> QED BY <3>1, DateMonotone, DateFacts
    <2>5. ASSUME NEW k \in WindowSizes, ~(Date(s.at) >= Date(up + DayLen) - k)
          PROVE  ~(Date(s.at) >= Date(up' + DayLen) - k)
      <3>1. k \in Nat
        BY WindowAssumption
      <3> QED BY <2>2, <2>4, <2>5, <3>1
    <2> QED BY <2>1, <2>2, <2>3, <2>5 DEF Wanted
  <1>6. WindowsOK'
    <2>1. /\ back' \in 0 .. MaxBack /\ upsets' \in 0 .. MaxUpsets /\ mem.warm \in BOOLEAN
          /\ mem' = [warm |-> mem.warm, window |-> mem.window] /\ taken' \subseteq Sample
      BY <1>1, <1>2 DEF WindowsOK
    <2>2. Carried
      BY <1>2 DEF Carried
    <2>3. \A z \in taken' : z.at <= up' + DayLen /\ (z.ok => Date(z.at) <= Date(now'))
      BY <1>2, <1>5
    <2> QED BY <1>1, <1>2, <1>3, <2>1, <2>2, <2>3, QuietTypes
  <1>7. \A s \in taken : \A w : Known(s, w) => Known(s, w)'
    BY <1>2, <1>5 DEF Known
  <1>8. KeptInv'
    <2>1. Cached' = Cached
      BY <1>2 DEF Cached, DecodeWindow
    <2>2. PICK c : c = Cached
      OBVIOUS
    <2> QED BY <1>1, <1>2, <1>7, <2>1, <2>2 DEF KeptInv
  <1>9. LossInv'
    <2>1. PICK l : l = lease.window
      OBVIOUS
    <2>2. lease'.window = l
      BY <1>2, <2>1
    <2>3. \A s \in taken : s.ok =>
             /\ l.uid = uid /\ s.at < l.lastWrite + Heartbeat + back
             /\ Known(s, l)' \/ l.lastWrite <= s.at + back
      BY <1>1, <1>7, <2>1 DEF LossInv
    <2>4. mem'.warm /\ mem'.window.uid = uid' =>
             lease'.window.uid = uid' /\ mem'.window.lastWrite <= lease'.window.lastWrite + back'
      BY <1>1, <1>2 DEF LossInv
    <2> QED BY <1>2, <2>2, <2>3, <2>4 DEF LossInv, Known
  <1> QED BY <1>6, <1>8, <1>9 DEF ObserverInv

LEMMA ObserverInductive ==
    /\ Init => ObserverInv
    /\ ObserverInv /\ [Next]_vars => ObserverInv'
  <1>1. ASSUME Init PROVE ObserverInv
    <2>1. /\ up = 0 /\ back = 0 /\ uid = 1 /\ upsets = 0 /\ taken = {}
          /\ mem = [warm |-> FALSE, window |-> EmptyWindow]
          /\ lease = [valid |-> FALSE, window |-> EmptyWindow]
      BY <1>1 DEF Init
    <2>2. /\ up \in 0 .. MaxUp /\ back \in 0 .. MaxBack /\ upsets \in 0 .. MaxUpsets
          /\ uid \in Nat \ {0} /\ up \in Nat
      BY <2>1, WindowAssumption
    <2>3. mem.warm = FALSE /\ mem.window = EmptyWindow /\ lease.valid = FALSE /\ lease.window = EmptyWindow
      BY <2>1
    <2>4. WindowInv(EmptyWindow)
      BY <2>2, EmptyInv
    <2>5. WindowsOK
      BY <2>1, <2>2, <2>3, <2>4 DEF WindowsOK
    <2> QED BY <2>1, <2>3, <2>5 DEF ObserverInv, KeptInv, LossInv
  <1>2. ASSUME ObserverInv, [Next]_vars PROVE ObserverInv'
    <2>1. CASE \E usage \in Usages, windowDays \in WindowSizes :
                  Observe(usage, windowDays) \/ ObserveFails(usage, windowDays)
      BY <1>2, <2>1, ObserveStep, FailsStep
    <2>2. CASE Crash
      BY <1>2, <2>2, CrashStep
    <2>3. CASE Recreate
      BY <1>2, <2>3, RecreateStep
    <2>4. CASE \E n \in 1 .. MaxBack : SetBack(n)
      BY <1>2, <2>4, SetBackStep
    <2>5. CASE Tick
      BY <1>2, <2>5, TickStep
    <2>6. CASE UNCHANGED vars
      BY <1>2, <2>6 DEF vars, ObserverInv, WindowsOK, WindowInv, KeptInv, LossInv, Known, Wanted,
                        Cached, DecodeWindow, now
    <2> QED BY <1>2, <2>1, <2>2, <2>3, <2>4, <2>5, <2>6 DEF Next
  <1> QED BY <1>1, <1>2

-----------------------------------------------------------------------------
(* The theorems *)

LEMMA ObserverTyped ==
    ASSUME ObserverInv
    PROVE  TypeOK
  <1>1. WindowsOK
    BY DEF ObserverInv
  <1>2. ASSUME NEW w, WindowInv(w)
        PROVE  WindowOK(w)
    <2>1. w \in Window /\ w.uid \in Nat /\ w.uid <= uid /\ uid \in Nat /\ w.days \in Days
      BY <1>1, <1>2 DEF WindowInv, Window, WindowsOK
    <2>2. w.lastSample \in Nat \cup {Never} /\ w.lastWrite \in Nat \cup {Never}
      BY <2>1 DEF Window
    <2>3. w.uid \in 0 .. uid
      BY <2>1
    <2> QED BY <2>1, <2>2, <2>3, DaysFacts DEF WindowOK
  <1>3. WindowInv(mem.window) /\ WindowInv(lease.window)
    BY <1>1 DEF WindowsOK
  <1>4. WindowOK(mem.window) /\ WindowOK(lease.window)
    BY <1>2, <1>3
  <1> QED BY <1>1, <1>4 DEF TypeOK, WindowsOK, Sample

\* Every variable keeps its type (Observe, DecodeWindow, prune): whatever write
\* fails and whenever the controller dies, the clock is set back or the quota
\* is recreated, a bucket keeps times of day and a gap that is not negative.
THEOREM ObserverTypeCorrect == Spec => []TypeOK
  <1>1. Init => ObserverInv
    BY ObserverInductive
  <1>2. ObserverInv /\ [Next]_vars => ObserverInv'
    BY ObserverInductive
  <1>3. ObserverInv => TypeOK
    BY ObserverTyped
  <1> QED BY <1>1, <1>2, <1>3, PTL DEF Spec

LEMMA LossNoWorse ==
    ASSUME ObserverInv
    PROVE  LossBounded
  <1> SUFFICES ASSUME NEW s \in taken, NEW t \in taken, s.ok, t.ok, ~Persisted(s), Wanted(s)
               PROVE  /\ lease.window.lastWrite <= s.at + back
                      /\ t.at - lease.window.lastWrite < Heartbeat + back
    BY DEF LossBounded
  <1>1. WindowsOK /\ LossInv
    BY DEF ObserverInv
  <1>2. /\ lease.window.uid = uid /\ t.at < lease.window.lastWrite + Heartbeat + back
        /\ Known(s, lease.window) \/ lease.window.lastWrite <= s.at + back
    BY <1>1 DEF LossInv
  <1>3. lease.valid
    <2>1. uid # NoUID
      BY <1>1 DEF WindowsOK, NoUID
    <2> QED BY <1>1, <1>2, <2>1, EmptyFacts DEF WindowsOK
  <1>4. ~Known(s, lease.window)
    BY <1>2, <1>3 DEF Known, Persisted
  <1>5. /\ t.at \in Nat /\ lease.window.lastWrite \in Int /\ Heartbeat \in Nat /\ back \in Nat
    <2>1. t.at \in Nat /\ lease.window.lastWrite \in Int
      BY <1>1 DEF WindowsOK, WindowInv, Window, Sample, Never
    <2> QED BY <1>1, <2>1, NowFacts, WindowAssumption
  <1> QED BY <1>2, <1>4, <1>5

\* observationHeartbeat bounds what a crash can lose (Observer.Observe): a
\* recorded sample that the Lease does not hold is newer than the Lease, and
\* none is newer than it by a heartbeat and what the clock was set back by.
THEOREM LossStaysBounded == Spec => []LossBounded
  <1>1. Init => ObserverInv
    BY ObserverInductive
  <1>2. ObserverInv /\ [Next]_vars => ObserverInv'
    BY ObserverInductive
  <1>3. ObserverInv => LossBounded
    BY LossNoWorse
  <1> QED BY <1>1, <1>2, <1>3, PTL DEF Spec

LEMMA CompleteMeansSampled ==
    ASSUME ObserverInv
    PROVE  CoverageSound
  <1> SUFFICES ASSUME NEW n \in WindowSizes, Current, back = 0, IsComplete(mem.window, now, n),
                      NEW d \in Completed(now, n), NEW t \in FirstBy .. LastBy - MaxGap + 1
               PROVE  \E s \in taken : s.at \in d * DayLen + t .. d * DayLen + t + MaxGap - 1
    BY DEF CoverageSound
  <1>1. WindowsOK
    BY DEF ObserverInv
  <1>2. PICK w : w = mem.window
    OBVIOUS
  <1>3. WindowInv(w) /\ w.uid = uid
    BY <1>1, <1>2 DEF WindowsOK, Current
  <1>4. d \in DOMAIN w.days /\ covered(w.days[d])
    BY <1>2 DEF IsComplete
  <1>5. w.days \in Days /\ Covers(w, taken)
    BY <1>3 DEF WindowInv, Window
  <1>6. w.days[d] \in Bucket /\ d \in Nat
    BY <1>4, <1>5, DaysFacts
  <1>7. PICK first, last, gap : first = w.days[d].first /\ last = w.days[d].last /\ gap = w.days[d].maxGap
    OBVIOUS
  <1>8. first \in Int /\ last \in Int /\ gap \in Nat
    BY <1>6, <1>7, BucketFacts
  <1>9. first <= FirstBy /\ last >= LastBy /\ gap <= MaxGap
    BY <1>4, <1>7 DEF covered
  <1>10. /\ DayLen \in Nat /\ FirstBy \in Int /\ LastBy \in Int /\ MaxGap \in Nat \ {0} /\ t \in Int
    BY WindowAssumption
  <1>11. t \in first .. last
    BY <1>8, <1>9, <1>10
  <1>12. PICK s \in taken : Within(s, d, t, gap)
    BY <1>4, <1>5, <1>7, <1>11 DEF Covers
  <1>13. PICK m \in Int : m = d * DayLen
    BY <1>6, <1>10
  <1>14. s.at \in Nat
    BY <1>1 DEF WindowsOK, Sample
  <1>15. s.at - m = t \/ (t <= s.at - m /\ s.at - m < t + gap)
    BY <1>12, <1>13 DEF Within, Midnight
  <1>16. s.at \in m + t .. m + t + MaxGap - 1
    BY <1>8, <1>9, <1>10, <1>13, <1>14, <1>15
  <1> QED BY <1>13, <1>16

\* dayCoverageMaxGap is what IsComplete says it is (DayBucket.covered): a
\* window that claims to be complete was sampled in every stretch of MaxGap
\* instants between the bracketing times of each of its days.
THEOREM CoverageStaysSound == Spec => []CoverageSound
  <1>1. Init => ObserverInv
    BY ObserverInductive
  <1>2. ObserverInv /\ [Next]_vars => ObserverInv'
    BY ObserverInductive
  <1>3. ObserverInv => CoverageSound
    BY CompleteMeansSampled
  <1> QED BY <1>1, <1>2, <1>3, PTL DEF Spec

\* Every usage is one MilliValue() can represent.
Representable == \A u \in Usages : u <= MaxMilli

LEMMA GreatestUsage ==
    ASSUME NEW S \in SUBSET (Usages \cup {-1}), S # {}, \A u \in S : u <= MaxMilli
    PROVE  \E p \in S : \A q \in S : p >= q
  <1>1. MaxMilli \in Nat /\ \A u \in S : u \in Int
    BY WindowAssumption, UsageFacts
  <1> DEFINE T == {MaxMilli - u : u \in S}
  <1>2. T \in SUBSET Nat /\ T # {}
    <2>1. \A u \in S : MaxMilli - u \in Nat
      BY <1>1
    <2> QED BY <2>1
  <1>3. PICK t \in T : \A v \in T : ~(<<v, t>> \in OpToRel(<, Nat))
    BY <1>2, NatLessThanWellFounded, WFMin
  <1>4. \A v \in T : ~(v < t)
    BY <1>2, <1>3 DEF OpToRel
  <1>5. PICK p \in S : t = MaxMilli - p
    OBVIOUS
  <1>6. ASSUME NEW q \in S PROVE p >= q
    <2>1. MaxMilli - q \in T
      OBVIOUS
    <2>2. ~(MaxMilli - q < MaxMilli - p)
      BY <1>4, <1>5, <2>1
    <2> QED BY <1>1, <2>2
  <1> QED BY <1>6

LEMMA PeakIsGreatest ==
    ASSUME Representable, ObserverInv
    PROVE  PeakFaithful
  <1> SUFFICES ASSUME NEW n \in WindowSizes, Current, IsComplete(mem.window, now, n)
               PROVE  LET p  == Peak(mem.window, now, n)
                          on == {s \in taken : Date(s.at) \in Completed(now, n)}
                      IN  /\ \A s \in on : s.ok => p >= s.usage
                          /\ \E s \in on : s.usage = p
    BY DEF PeakFaithful
  <1>1. WindowsOK /\ KeptInv
    BY DEF ObserverInv
  <1>2. PICK w : w = mem.window
    OBVIOUS
  <1>3. PICK days : days = Completed(now, n)
    OBVIOUS
  <1>4. WindowInv(w) /\ w.uid = uid /\ Cached = w
    BY <1>1, <1>2 DEF WindowsOK, Current, Cached
  <1>5. w.days \in Days /\ Peaks(w, taken)
    BY <1>4 DEF WindowInv, Window
  <1>6. \A d \in days : d \in DOMAIN w.days /\ w.days[d].peak >= 0
    BY <1>2, <1>3 DEF IsComplete
  <1>7. \A d \in days : w.days[d].peak \in Usages \cup {-1} /\ w.days[d].peak \in Int
    BY <1>5, <1>6, DaysFacts, BucketFacts
  <1>8. Date(now) - 1 \in days
    <2>1. Date(now) \in Nat /\ n \in Nat \ {0}
      BY <1>1, NowFacts, WindowAssumption
    <2> QED BY <1>3, <2>1 DEF Completed
  <1> DEFINE S == {w.days[d].peak : d \in days}
             U == {p \in {w.days[d].peak : d \in DOMAIN w.days \cap days} : p <= MaxMilli}
  <1>9. MaxMilli \in Nat /\ \A q \in S : q \in Usages \cup {-1} /\ q \in Int /\ q <= MaxMilli /\ q >= 0
    BY <1>6, <1>7, WindowAssumption DEF Representable
  <1>10. U = S
    BY <1>6, <1>9
  <1>11. PICK p \in S : \A q \in S : p >= q
    <2>1. S \in SUBSET (Usages \cup {-1}) /\ S # {} /\ \A q \in S : q <= MaxMilli
      BY <1>8, <1>9
    <2> QED BY <2>1, GreatestUsage
  <1>12. PICK x : x = Peak(mem.window, now, n)
    OBVIOUS
  <1>13. x = CHOOSE y \in U \cup {-1} : \A q \in U : y >= q
    BY <1>2, <1>3, <1>12 DEF Peak
  <1>14. x \in S \cup {-1} /\ \A q \in S : x >= q
    <2> HIDE DEF S, U
    <2> QED BY <1>10, <1>11, <1>13
  <1>15. x \in S
    <2>1. x >= p /\ p >= 0 /\ p \in Int
      BY <1>9, <1>11, <1>14
    <2>2. x # -1
      BY <2>1
    <2> QED BY <1>14, <2>2
  <1>16. \E s \in taken : Date(s.at) \in days /\ s.usage = x
    <2>1. PICK d \in days : x = w.days[d].peak
      BY <1>15
    <2> QED BY <1>5, <1>6, <2>1 DEF Peaks
  <1>17. ASSUME NEW s \in taken, Date(s.at) \in days, s.ok
         PROVE  x >= s.usage
    <2>1. Known(s, w)
      BY <1>1, <1>4, <1>17 DEF KeptInv
    <2>2. w.days[Date(s.at)].peak >= s.usage
      BY <1>6, <1>17, <2>1 DEF Known
    <2>3. PICK q \in S : q = w.days[Date(s.at)].peak
      BY <1>17
    <2>4. q \in Int /\ x \in Int /\ x >= q
      BY <1>9, <1>14, <1>15
    <2>5. s.usage \in Int
      <3>1. s.usage \in Usages
        BY <1>1 DEF WindowsOK, Sample
      <3> QED BY <3>1, UsageFacts
    <2> QED BY <2>2, <2>3, <2>4, <2>5
  <1> QED BY <1>3, <1>12, <1>16, <1>17

\* Peak is the highest value observed across the completed days (Window.Peak,
\* Window.IsComplete): when every usage fits into milli-units, a complete
\* window yields a usage that was sampled of this very quota on those days,
\* and none that was recorded is higher.
THEOREM PeakStaysFaithful == Representable => (Spec => []PeakFaithful)
  <1> SUFFICES ASSUME Representable PROVE Spec => []PeakFaithful
    OBVIOUS
  <1>1. Init => ObserverInv
    BY ObserverInductive
  <1>2. ObserverInv /\ [Next]_vars => ObserverInv'
    BY ObserverInductive
  <1>3. ObserverInv => PeakFaithful
    BY PeakIsGreatest
  <1> QED BY <1>1, <1>2, <1>3, PTL DEF Spec
=============================================================================
