---------------------------- MODULE PolicyProofs ----------------------------
(***************************************************************************)
(* Theorems about Policy, for any quota keys, annotations and values.      *)
(***************************************************************************)
EXTENDS Policy, NaturalsInduction, WellFoundedInduction, TLAPS

(* The invariant *)

Noted(f) ==
    DOMAIN f \subseteq Annotations /\ \A a \in DOMAIN f : f[a] \in Values[a.attr]

\* The annotations the loop has been over, and of those the accepted ones.
Looked == DOMAIN seen \ DOMAIN todo
Heard(attr) == {a \in Looked : a.attr = attr /\ Accepted(attr, seen[a])}

\* ParsePolicy looks at what it was given, and at the end has looked at all.
NotesOK ==
    /\ DOMAIN annotations = Namespaces /\ \A ns \in Namespaces : Noted(annotations[ns])
    /\ Noted(seen) /\ DOMAIN todo \subseteq DOMAIN seen /\ \A a \in DOMAIN todo : todo[a] = seen[a]
    /\ pc \in {"scan", "done"} /\ (pc = "done" => DOMAIN todo = {})

Refs == {"base", "own"}

PolicyFields ==
    [headroom : Refs, min : Refs, tolerance : 0 .. 99, windowDays : Nat \ {0},
     maxShrinkStep : 1 .. 99, shrinkCooldown : Int, shrinkPRTTL : Int, growCooldown : Int,
     enabled : BOOLEAN, shrinkEnabled : BOOLEAN]

\* The base policy stays what it is, and ParsePolicy writes to maps of its own.
MapsOK ==
    /\ enableShrink \in BOOLEAN /\ out \in PolicyFields
    /\ DOMAIN heap = Refs /\ heap["base"] = BaseMaps
    /\ \A ref \in Refs : heap[ref] = [headroom |-> heap[ref].headroom, min |-> heap[ref].min]
    /\ pc = "scan" => out.headroom = "own" /\ out.min = "own"

\* Every spelling's collection holds what that spelling said so far.
FromOK ==
    /\ DOMAIN from = Range(Spellings)
    /\ \A s \in Range(Spellings) :
          /\ DOMAIN from[s] = {suffixKey(a) : a \in Heard(s)}
          /\ \A k \in DOMAIN from[s] :
                \E a \in Heard(s) : suffixKey(a) = k /\ from[s][k] = AsHeadroom(s, seen[a])

\* The collections are applied at the end.
HeadroomOK ==
    heap[out.headroom].headroom =
        IF pc = "done" THEN Over(Precedence, BaseMaps.headroom) ELSE BaseMaps.headroom

Minimums == {a \in Looked : a.attr = "min" /\ seen[a] # Unparsable}

MinOK ==
    /\ DOMAIN heap[out.min].min = {a.res : a \in Minimums}
    /\ \A a \in Minimums : heap[out.min].min[a.res] = seen[a]

SwitchOK ==
    out.shrinkEnabled <=>
        enableShrink /\ \A a \in Looked : a.attr = "shrink-enabled" => Fold(seen[a]) = "true"

\* Durations that fit are what they say.
DurationsOK ==
    Fits => /\ out.shrinkPRTTL \in Nat \ {0}
            /\ out.shrinkCooldown \in Nat /\ out.growCooldown \in Nat

Rejections == {Rejected(a) : a \in {a \in Looked : ~Accepted(a.attr, seen[a])}}

Deprecations ==
    {Deprecated(res, "increment") : res \in DOMAIN from["increment"] \ DOMAIN from["headroom"]}
      \cup {Deprecated(res, "threshold") : res \in DOMAIN from["threshold"]
                                             \ (DOMAIN from["headroom"] \cup DOMAIN from["increment"])}

WarnOK == warned = IF pc = "done" THEN Rejections \cup Deprecations ELSE Rejections

PolicyInv ==
    NotesOK /\ MapsOK /\ FromOK /\ HeadroomOK /\ MinOK /\ SwitchOK /\ DurationsOK /\ WarnOK

-----------------------------------------------------------------------------
(* Maps, names and values *)

LEMMA SpellingFacts ==
    /\ Range(Spellings) = {"headroom", "increment", "threshold"}
    /\ DOMAIN Spellings = 1 .. 3
    /\ Spellings[1] = "headroom" /\ Spellings[2] = "increment" /\ Spellings[3] = "threshold"
  BY DEF Spellings, Range

LEMMA NameFacts ==
    ASSUME NEW a \in Annotations
    PROVE  /\ a = [res |-> a.res, attr |-> a.attr]
           /\ a.attr \in Range(Spellings) \cup {"min"} \cup Scalars \cup Switches
  BY PolicyAssumption

LEMMA EmptyMap == DOMAIN Empty = {}
  BY DEF Empty

\* An accepted headroom is one Decide can work with.
LEMMA AcceptedHeadroom ==
    ASSUME NEW s \in Range(Spellings), NEW v, Accepted(s, v)
    PROVE  AsHeadroom(s, v) \in Nat
  <1>1. s \in {"headroom", "increment", "threshold"}
    BY SpellingFacts
  <1>2. CASE s = "threshold"
    <2>1. v \in 1 .. 100
      BY <1>2 DEF Accepted, validRange
    <2>2. PICK q \in Int : q = 10000 \div v
      BY <2>1
    <2>3. v * q <= 10000 /\ 10000 < v * (q + 1)
      BY <2>1, <2>2
    <2>4. q >= 100
      <3> SUFFICES ASSUME q < 100 PROVE FALSE
        BY <2>2
      <3>1. q + 1 <= 100
        BY <2>2
      <3>2. CASE q + 1 <= 0
        <4>1. v * (q + 1) <= 0
          BY <2>1, <2>2, <3>2
        <4> QED BY <2>1, <2>2, <2>3, <4>1
      <3>3. CASE q + 1 > 0
        <4>1. v * (q + 1) <= 100 * (q + 1)
          BY <2>1, <2>2, <3>3
        <4>2. 100 * (q + 1) <= 10000
          BY <2>2, <3>1
        <4> QED BY <2>1, <2>2, <2>3, <4>1, <4>2
      <3> QED BY <2>2, <3>2, <3>3
    <2> QED BY <1>2, <2>2, <2>4 DEF AsHeadroom
  <1>3. CASE s # "threshold"
    <2>1. v \in Nat
      BY <1>1, <1>3 DEF Accepted, validRange
    <2> QED BY <1>3, <2>1 DEF AsHeadroom
  <1> QED BY <1>2, <1>3

\* What one turn of the loop adds to what has been looked at.
LEMMA LookedFacts ==
    ASSUME NotesOK, NEW name \in DOMAIN todo, todo' = Without(todo, name), seen' = seen
    PROVE  /\ Looked' = Looked \cup {name} /\ name \in DOMAIN seen /\ name \in Annotations
           /\ todo[name] = seen[name] /\ seen[name] \in Values[name.attr]
           /\ \A attr : name.attr # attr \/ ~Accepted(attr, seen[name]) => Heard(attr)' = Heard(attr)
           /\ \A attr : name.attr = attr /\ Accepted(attr, seen[name]) =>
                           Heard(attr)' = Heard(attr) \cup {name}
  <1>1. DOMAIN todo' = DOMAIN todo \ {name}
    BY DEF Without
  <1>2. name \in DOMAIN seen /\ name \in Annotations /\ todo[name] = seen[name]
        /\ seen[name] \in Values[name.attr]
    BY DEF NotesOK, Noted
  <1>3. Looked' = Looked \cup {name}
    BY <1>1, <1>2 DEF Looked, NotesOK
  <1>4. \A attr : name.attr # attr \/ ~Accepted(attr, seen[name]) => Heard(attr)' = Heard(attr)
    BY <1>3 DEF Heard
  <1>5. \A attr : name.attr = attr /\ Accepted(attr, seen[name]) =>
                     Heard(attr)' = Heard(attr) \cup {name}
    BY <1>3 DEF Heard
  <1> QED BY <1>2, <1>3, <1>4, <1>5

\* Nothing has been looked at that is not looked at again.
LEMMA NothingHeard ==
    ASSUME DOMAIN seen \subseteq DOMAIN todo
    PROVE  Looked = {} /\ \A attr : Heard(attr) = {}
  BY DEF Looked, Heard

-----------------------------------------------------------------------------
(* The actions *)

\* A number of units that fits is the Duration it should be, and any other is
\* some Duration.
LEMMA DurationFacts ==
    ASSUME NEW v \in Nat, NEW unit \in Nat \ {0}
    PROVE  /\ Duration(v, unit) \in Int
           /\ v * unit <= MaxDuration => Duration(v, unit) = v * unit
           /\ v > 0 => v * unit > 0
  <1>1. PICK m \in Nat : m = MaxDuration
    BY PolicyAssumption
  <1>2. PICK d \in Nat : d = v * unit /\ (v > 0 => d > 0)
    OBVIOUS
  <1>3. Duration(v, unit) = ((d + m + 1) % (2 * (m + 1))) - (m + 1)
    BY <1>1, <1>2 DEF Duration
  <1>4. PICK w \in Nat \ {0} : w = 2 * (m + 1)
    BY <1>1
  <1>5. PICK x \in Nat : x = d + m + 1
    BY <1>1, <1>2
  <1>6. x % w \in Int /\ (x < w => x % w = x)
    BY <1>4, <1>5
  <1>7. d <= m => x < w
    BY <1>1, <1>2, <1>4, <1>5
  <1>8. PICK y \in Int : y = x % w
    BY <1>6
  <1>9. Duration(v, unit) = y - (m + 1)
    BY <1>3, <1>4, <1>5, <1>8
  <1>10. d <= m => y = d + m + 1
    BY <1>5, <1>6, <1>7, <1>8
  <1>11. y - (m + 1) \in Int /\ (d <= m => y - (m + 1) = d)
    BY <1>1, <1>2, <1>8, <1>10
  <1> QED BY <1>1, <1>2, <1>9, <1>11

LEMMA UnitFacts ==
    /\ Minute \in Nat \ {0} /\ Day \in Nat \ {0}
    /\ 7 * Day \in Nat \ {0} /\ 60 * Minute \in Nat
  BY PolicyAssumption

\* The defaults with maps of the given reference.
Defaults(ref, week, hour) ==
    [headroom |-> ref, min |-> ref, tolerance |-> 15, windowDays |-> 14, maxShrinkStep |-> 25,
     shrinkCooldown |-> week, shrinkPRTTL |-> week, growCooldown |-> hour, enabled |-> TRUE,
     shrinkEnabled |-> enableShrink]

LEMMA DefaultFacts ==
    ASSUME enableShrink \in BOOLEAN, NEW ref \in Refs, NEW week \in Nat \ {0}, NEW hour \in Nat,
           NEW d, d = Defaults(ref, week, hour)
    PROVE  /\ d \in PolicyFields
           /\ d.headroom = ref /\ d.min = ref /\ d.shrinkEnabled = enableShrink
           /\ d.shrinkPRTTL = week /\ d.shrinkCooldown = week /\ d.growCooldown = hour
  <1>1. enableShrink \in BOOLEAN
    OBVIOUS
  <1>2. 15 \in 0 .. 99 /\ 14 \in Nat \ {0} /\ 25 \in 1 .. 99
    OBVIOUS
  <1>3. d \in PolicyFields
    BY <1>1, <1>2 DEF PolicyFields, Defaults
  <1>4. /\ d.headroom = ref /\ d.min = ref /\ d.shrinkEnabled = enableShrink
        /\ d.shrinkPRTTL = week /\ d.shrinkCooldown = week /\ d.growCooldown = hour
    BY DEF Defaults
  <1> QED BY <1>3, <1>4

LEMMA DefaultRefs ==
    ASSUME NEW week, week = 7 * Day, NEW hour, hour = 60 * Minute
    PROVE  /\ DefaultPolicy = Defaults("base", week, hour)
           /\ [DefaultPolicy EXCEPT !.headroom = "own", !.min = "own"] = Defaults("own", week, hour)
  <1>1. DefaultPolicy = Defaults("base", week, hour)
    BY DEF DefaultPolicy, Defaults
  <1>2. PICK d : d = [DefaultPolicy EXCEPT !.headroom = "own"]
    OBVIOUS
  <1>3. d = [headroom |-> "own", min |-> "base", tolerance |-> 15, windowDays |-> 14,
             maxShrinkStep |-> 25, shrinkCooldown |-> week, shrinkPRTTL |-> week,
             growCooldown |-> hour, enabled |-> TRUE, shrinkEnabled |-> enableShrink]
    BY <1>1, <1>2 DEF Defaults
  <1>4. PICK e : e = [d EXCEPT !.min = "own"]
    OBVIOUS
  <1>5. e = Defaults("own", week, hour)
    BY <1>3, <1>4 DEF Defaults
  <1>6. [DefaultPolicy EXCEPT !.headroom = "own", !.min = "own"] = e
    BY <1>2, <1>4
  <1> QED BY <1>1, <1>5, <1>6

\* The defaults are Durations.
LEMMA DefaultsFit ==
    enableShrink \in BOOLEAN => \A ref \in Refs :
        \A o : o = (IF ref = "base" THEN DefaultPolicy
                   ELSE [DefaultPolicy EXCEPT !.headroom = "own", !.min = "own"]) =>
            /\ o \in PolicyFields
            /\ o.headroom = ref /\ o.min = ref /\ o.shrinkEnabled = enableShrink
            /\ o.shrinkPRTTL \in Nat \ {0} /\ o.shrinkCooldown \in Nat /\ o.growCooldown \in Nat
  <1> SUFFICES ASSUME enableShrink \in BOOLEAN, NEW ref \in Refs, NEW o,
                      o = (IF ref = "base" THEN DefaultPolicy
                           ELSE [DefaultPolicy EXCEPT !.headroom = "own", !.min = "own"])
               PROVE  /\ o \in PolicyFields
                      /\ o.headroom = ref /\ o.min = ref /\ o.shrinkEnabled = enableShrink
                      /\ o.shrinkPRTTL \in Nat \ {0} /\ o.shrinkCooldown \in Nat
                      /\ o.growCooldown \in Nat
    OBVIOUS
  <1>1. PICK week \in Nat \ {0} : week = 7 * Day
    BY UnitFacts
  <1>2. PICK hour \in Nat : hour = 60 * Minute
    BY UnitFacts
  <1>3. o = Defaults(ref, week, hour)
    BY <1>1, <1>2, DefaultRefs DEF Refs
  <1>4. /\ o \in PolicyFields
        /\ o.headroom = ref /\ o.min = ref /\ o.shrinkEnabled = enableShrink
        /\ o.shrinkPRTTL = week /\ o.shrinkCooldown = week /\ o.growCooldown = hour
    <2>1. \A w \in Nat \ {0}, t \in Nat : \A d : d = Defaults(ref, w, t) =>
             /\ d \in PolicyFields
             /\ d.headroom = ref /\ d.min = ref /\ d.shrinkEnabled = enableShrink
             /\ d.shrinkPRTTL = w /\ d.shrinkCooldown = w /\ d.growCooldown = t
      BY DefaultFacts
    <2>2. week \in Nat \ {0} /\ hour \in Nat
      BY <1>1, <1>2
    <2>3. \A d : d = Defaults(ref, week, hour) =>
             /\ d \in PolicyFields
             /\ d.headroom = ref /\ d.min = ref /\ d.shrinkEnabled = enableShrink
             /\ d.shrinkPRTTL = week /\ d.shrinkCooldown = week /\ d.growCooldown = hour
      BY <2>1, <2>2
    <2> QED BY <1>3, <2>3
  <1> QED BY <1>1, <1>2, <1>4

LEMMA BaseFacts ==
    /\ BaseMaps = [headroom |-> BaseMaps.headroom, min |-> BaseMaps.min]
    /\ DOMAIN BaseMaps.headroom = {DefaultKey} /\ BaseMaps.headroom[DefaultKey] = 25
    /\ DOMAIN BaseMaps.min = {}
  BY EmptyMap DEF BaseMaps

LEMMA PolicyInit ==
    ASSUME Init
    PROVE  PolicyInv
  <1>1. /\ annotations = [ns \in Namespaces |-> Empty] /\ todo = Empty /\ seen = Empty
        /\ heap = [ref \in Refs |-> BaseMaps] /\ out = DefaultPolicy /\ enableShrink \in BOOLEAN
        /\ from = [s \in Range(Spellings) |-> Empty] /\ warned = {} /\ pc = "done"
    BY DEF Init, Refs
  <1>2. Looked = {} /\ \A attr : Heard(attr) = {}
    BY <1>1, NothingHeard
  <1>3. NotesOK
    BY <1>1, EmptyMap DEF NotesOK, Noted
  <1>4. PICK base : base \in Refs /\ base = "base"
    BY DEF Refs
  <1>5. /\ out \in PolicyFields /\ out.headroom = base /\ out.min = base
        /\ out.shrinkEnabled = enableShrink
        /\ out.shrinkPRTTL \in Nat \ {0} /\ out.shrinkCooldown \in Nat /\ out.growCooldown \in Nat
    BY <1>1, <1>4, DefaultsFit
  <1>6. heap[base] = BaseMaps /\ DOMAIN heap = Refs /\ \A ref \in Refs : heap[ref] = BaseMaps
    BY <1>1, <1>4
  <1>7. MapsOK
    BY <1>1, <1>4, <1>5, <1>6, BaseFacts DEF MapsOK
  <1>8. FromOK
    BY <1>1, <1>2, EmptyMap DEF FromOK
  <1>9. DOMAIN from["headroom"] = {} /\ DOMAIN from["increment"] = {} /\ DOMAIN from["threshold"] = {}
    BY <1>1, SpellingFacts, EmptyMap
  <1>10. HeadroomOK
    <2>1. DOMAIN Precedence = {}
      <3>1. PICK f, g, h : f = from["headroom"] /\ g = from["increment"] /\ h = from["threshold"]
        OBVIOUS
      <3>2. DOMAIN f = {} /\ DOMAIN g = {} /\ DOMAIN h = {}
        BY <1>9, <3>1
      <3>3. PICK i : i = Over(g, h)
        OBVIOUS
      <3>4. DOMAIN i = {}
        BY <3>2, <3>3 DEF Over
      <3>5. DOMAIN Over(f, i) = {}
        BY <3>2, <3>4 DEF Over
      <3> QED BY <3>1, <3>3, <3>5 DEF Precedence
    <2>2. Over(Precedence, BaseMaps.headroom) = BaseMaps.headroom
      <3>1. PICK f : f = Precedence
        OBVIOUS
      <3> QED BY <2>1, <3>1 DEF Over, BaseMaps
    <2> QED BY <1>1, <1>5, <1>6, <2>2 DEF HeadroomOK
  <1>11. MinOK
    BY <1>2, <1>5, <1>6, BaseFacts DEF MinOK, Minimums
  <1>12. SwitchOK
    BY <1>2, <1>5 DEF SwitchOK
  <1>13. WarnOK
    BY <1>1, <1>2, <1>9 DEF WarnOK, Rejections, Deprecations
  <1>14. DurationsOK
    BY <1>5 DEF DurationsOK
  <1> QED BY <1>3, <1>7, <1>8, <1>10, <1>11, <1>12, <1>13, <1>14 DEF PolicyInv

LEMMA BeginStep ==
    ASSUME PolicyInv, NEW ns \in Namespaces, Begin(ns)
    PROVE  PolicyInv'
  <1>1. /\ todo' = annotations[ns] /\ seen' = annotations[ns] /\ annotations' = annotations
        /\ from' = [s \in Range(Spellings) |-> Empty] /\ warned' = {} /\ pc' = "scan"
        /\ out' = [DefaultPolicy EXCEPT !.headroom = "own", !.min = "own"]
        /\ heap' = [heap EXCEPT !["own"] = heap["base"]] /\ enableShrink' = enableShrink
    BY DEF Begin, copyMaps
  <1>2. NotesOK /\ MapsOK
    BY DEF PolicyInv
  <1>3. Looked' = {} /\ \A attr : Heard(attr)' = {}
    BY <1>1 DEF Looked, Heard
  <1>4. NotesOK'
    BY <1>1, <1>2 DEF NotesOK, Noted
  <1>5. PICK own : own \in Refs /\ own = "own"
    BY DEF Refs
  <1>6. /\ out' \in PolicyFields /\ out'.headroom = own /\ out'.min = own
        /\ out'.shrinkEnabled = enableShrink
        /\ out'.shrinkPRTTL \in Nat \ {0} /\ out'.shrinkCooldown \in Nat /\ out'.growCooldown \in Nat
    BY <1>1, <1>2, <1>5, DefaultsFit DEF MapsOK
  <1>7. DOMAIN heap' = Refs /\ \A ref \in Refs : heap'[ref] = BaseMaps
    BY <1>1, <1>2 DEF MapsOK, Refs
  <1>8. MapsOK'
    BY <1>1, <1>2, <1>5, <1>6, <1>7, BaseFacts DEF MapsOK, Refs
  <1>9. FromOK'
    BY <1>1, <1>3, EmptyMap DEF FromOK
  <1>10. HeadroomOK'
    BY <1>1, <1>5, <1>6, <1>7 DEF HeadroomOK
  <1>11. MinOK'
    BY <1>3, <1>5, <1>6, <1>7, BaseFacts DEF MinOK, Minimums
  <1>12. SwitchOK'
    BY <1>1, <1>3, <1>6 DEF SwitchOK
  <1>13. WarnOK'
    BY <1>1, <1>3 DEF WarnOK, Rejections
  <1>14. DurationsOK'
    BY <1>6 DEF DurationsOK
  <1> QED BY <1>4, <1>8, <1>9, <1>10, <1>11, <1>12, <1>13, <1>14 DEF PolicyInv

\* What a scalar makes of the policy.
LEMMA AppliedFacts ==
    ASSUME out \in PolicyFields, NEW attr \in Scalars \cup Switches, NEW v,
           Accepted(attr, v) \/ attr = "shrink-enabled",
           NEW o, o = Applied(attr, v)
    PROVE  /\ o \in PolicyFields /\ o.headroom = out.headroom /\ o.min = out.min
           /\ attr # "shrink-enabled" => o.shrinkEnabled = out.shrinkEnabled
           /\ attr = "shrink-enabled" => (o.shrinkEnabled <=> out.shrinkEnabled /\ Fold(v) = "true")
           /\ attr \in {"shrink-cooldown-days", "shrink-pr-ttl-days", "cooldown-minutes"} => v \in Nat
           /\ attr = "shrink-pr-ttl-days" => v # 0
           /\ o.shrinkCooldown = IF attr = "shrink-cooldown-days" THEN Duration(v, Day)
                                 ELSE out.shrinkCooldown
           /\ o.shrinkPRTTL = IF attr = "shrink-pr-ttl-days" THEN Duration(v, Day) ELSE out.shrinkPRTTL
           /\ o.growCooldown = IF attr = "cooldown-minutes" THEN Duration(v, Minute)
                               ELSE out.growCooldown
  <1>1. CASE attr = "tolerance"
    <2>1. v \in 0 .. 99
      BY <1>1 DEF Accepted, validRange
    <2>2. o = [out EXCEPT !.tolerance = v]
      BY <1>1 DEF Applied
    <2> QED BY <1>1, <2>1, <2>2 DEF PolicyFields
  <1>2. CASE attr = "max-shrink-step"
    <2>1. v \in 1 .. 99
      BY <1>2 DEF Accepted, validRange
    <2>2. o = [out EXCEPT !.maxShrinkStep = v]
      BY <1>2 DEF Applied
    <2> QED BY <1>2, <2>1, <2>2 DEF PolicyFields
  <1>3. CASE attr = "window-days"
    <2>1. v \in Nat \ {0}
      BY <1>3 DEF Accepted, validRange
    <2>2. o = [out EXCEPT !.windowDays = v]
      BY <1>3 DEF Applied
    <2> QED BY <1>3, <2>1, <2>2 DEF PolicyFields
  <1>4. CASE attr = "shrink-cooldown-days"
    <2>1. v \in Nat
      BY <1>4 DEF Accepted, validRange
    <2>2. PICK d \in Int : d = Duration(v, Day)
      BY <2>1, DurationFacts, UnitFacts
    <2>3. o = [out EXCEPT !.shrinkCooldown = d]
      BY <1>4, <2>2 DEF Applied
    <2> QED BY <1>4, <2>1, <2>2, <2>3 DEF PolicyFields
  <1>5. CASE attr = "shrink-pr-ttl-days"
    <2>1. v \in Nat \ {0}
      BY <1>5 DEF Accepted, validRange
    <2>2. PICK d \in Int : d = Duration(v, Day)
      BY <2>1, DurationFacts, UnitFacts
    <2>3. o = [out EXCEPT !.shrinkPRTTL = d]
      BY <1>5, <2>2 DEF Applied
    <2> QED BY <1>5, <2>1, <2>2, <2>3 DEF PolicyFields
  <1>6. CASE attr = "cooldown-minutes"
    <2>1. v \in Nat
      BY <1>6 DEF Accepted, validRange
    <2>2. PICK d \in Int : d = Duration(v, Minute)
      BY <2>1, DurationFacts, UnitFacts
    <2>3. o = [out EXCEPT !.growCooldown = d]
      BY <1>6, <2>2 DEF Applied
    <2> QED BY <1>6, <2>1, <2>2, <2>3 DEF PolicyFields
  <1>7. CASE attr = "enabled"
    <2>1. PICK b : b = (v # "false")
      OBVIOUS
    <2>2. b \in BOOLEAN
      BY <2>1
    <2>3. o = [out EXCEPT !.enabled = b]
      BY <1>7, <2>1 DEF Applied
    <2> QED BY <1>7, <2>2, <2>3 DEF PolicyFields
  <1>8. CASE attr = "shrink-enabled"
    <2>1. PICK b : b = (out.shrinkEnabled /\ Fold(v) = "true")
      OBVIOUS
    <2>2. b \in BOOLEAN /\ (b <=> out.shrinkEnabled /\ Fold(v) = "true")
      BY <2>1
    <2>3. o = [out EXCEPT !.shrinkEnabled = b]
      BY <1>8, <2>1 DEF Applied, parseShrinkOptOut
    <2>4. /\ o \in PolicyFields /\ o.headroom = out.headroom /\ o.min = out.min /\ o.shrinkEnabled = b
          /\ o.shrinkCooldown = out.shrinkCooldown /\ o.shrinkPRTTL = out.shrinkPRTTL
          /\ o.growCooldown = out.growCooldown
      BY <2>2, <2>3 DEF PolicyFields
    <2> QED BY <1>8, <2>2, <2>4
  <1> QED BY <1>1, <1>2, <1>3, <1>4, <1>5, <1>6, <1>7, <1>8 DEF Scalars, Switches

\* One annotation more in the collection of its spelling.
LEMMA SpellingHeard ==
    ASSUME NotesOK, FromOK, NEW name \in DOMAIN todo, todo' = Without(todo, name), seen' = seen,
           name.attr \in Range(Spellings), Accepted(name.attr, seen[name]),
           from' = [from EXCEPT ![name.attr] =
                       With(@, suffixKey(name), AsHeadroom(name.attr, seen[name]))]
    PROVE  FromOK'
  <1>1. PICK s : s = name.attr
    OBVIOUS
  <1>2. PICK k : k = suffixKey(name)
    OBVIOUS
  <1>3. PICK h : h = AsHeadroom(s, seen[name])
    OBVIOUS
  <1>4. PICK f : f = With(from[s], k, h)
    OBVIOUS
  <1>5. /\ DOMAIN from' = Range(Spellings) /\ from'[s] = f
        /\ \A t \in Range(Spellings) : t # s => from'[t] = from[t]
    BY <1>1, <1>2, <1>3, <1>4 DEF FromOK
  <1>6. /\ DOMAIN f = DOMAIN from[s] \cup {k} /\ f[k] = h
        /\ \A x \in DOMAIN from[s] : x # k => f[x] = from[s][x]
    BY <1>4 DEF With
  <1>7. /\ Heard(s)' = Heard(s) \cup {name}
        /\ \A t \in Range(Spellings) : t # s => Heard(t)' = Heard(t)
    BY <1>1, LookedFacts
  <1>8. /\ DOMAIN from[s] = {suffixKey(a) : a \in Heard(s)}
        /\ \A x \in DOMAIN from[s] :
              \E a \in Heard(s) : suffixKey(a) = x /\ from[s][x] = AsHeadroom(s, seen[a])
    BY <1>1 DEF FromOK
  <1>9. DOMAIN f = {suffixKey(a) : a \in Heard(s)'}
    BY <1>2, <1>6, <1>7, <1>8
  <1>10. ASSUME NEW x \in DOMAIN f
         PROVE  \E a \in Heard(s)' : suffixKey(a) = x /\ f[x] = AsHeadroom(s, seen[a])
    <2>1. CASE x = k
      BY <1>2, <1>3, <1>6, <1>7, <2>1
    <2>2. CASE x # k
      BY <1>6, <1>7, <1>8, <2>2
    <2> QED BY <2>1, <2>2
  <1>11. ASSUME NEW t \in Range(Spellings)
         PROVE  /\ DOMAIN from'[t] = {suffixKey(a) : a \in Heard(t)'}
                /\ \A x \in DOMAIN from'[t] :
                      \E a \in Heard(t)' : suffixKey(a) = x /\ from'[t][x] = AsHeadroom(t, seen'[a])
    <2>1. CASE t = s
      BY <1>5, <1>9, <1>10, <2>1
    <2>2. CASE t # s
      BY <1>5, <1>7, <2>2 DEF FromOK
    <2> QED BY <2>1, <2>2
  <1> QED BY <1>5, <1>11 DEF FromOK

\* An annotation that says nothing of a headroom leaves the collections alone.
LEMMA SpellingNotHeard ==
    ASSUME NotesOK, FromOK, NEW name \in DOMAIN todo, todo' = Without(todo, name), seen' = seen,
           name.attr \notin Range(Spellings) \/ ~Accepted(name.attr, seen[name]), from' = from
    PROVE  FromOK'
  <1>1. \A s \in Range(Spellings) : Heard(s)' = Heard(s)
    BY LookedFacts
  <1> QED BY <1>1 DEF FromOK

LEMMA LookAtStep ==
    ASSUME PolicyInv, NEW name \in DOMAIN todo, LookAt(name)
    PROVE  PolicyInv'
  <1>1. NotesOK /\ MapsOK /\ FromOK /\ HeadroomOK /\ MinOK /\ SwitchOK /\ DurationsOK /\ WarnOK
    BY DEF PolicyInv
  <1>2. /\ pc = "scan" /\ pc' = "scan" /\ todo' = Without(todo, name) /\ seen' = seen
        /\ annotations' = annotations /\ enableShrink' = enableShrink
    BY DEF LookAt
  <1>3. /\ Looked' = Looked \cup {name} /\ name \in DOMAIN seen /\ name \in Annotations
        /\ todo[name] = seen[name]
    BY <1>1, <1>2, LookedFacts
  <1>4. PICK v : v = seen[name]
    OBVIOUS
  <1>5. PICK attr : attr = name.attr
    OBVIOUS
  <1>6. \/ /\ attr \in Range(Spellings) /\ Accepted(attr, v) /\ UNCHANGED <<heap, out>>
           /\ from' = [from EXCEPT ![attr] = With(@, suffixKey(name), AsHeadroom(attr, v))]
        \/ /\ attr \notin Range(Spellings) /\ (Accepted(attr, v) \/ attr = "shrink-enabled")
           /\ parseScalar(name, v) /\ UNCHANGED from
        \/ /\ ~Accepted(attr, v) /\ attr # "shrink-enabled" /\ UNCHANGED <<heap, out, from>>
    BY <1>3, <1>4, <1>5, SpellingFacts DEF LookAt
  <1>7. warned' = IF Accepted(attr, v) THEN warned ELSE warned \cup {Rejected(name)}
    BY <1>3, <1>4, <1>5 DEF LookAt, Warn
  <1>8. NotesOK'
    <2>1. DOMAIN todo' = DOMAIN todo \ {name} /\ \A a \in DOMAIN todo' : todo'[a] = todo[a]
      BY <1>2 DEF Without
    <2> QED BY <1>1, <1>2, <2>1 DEF NotesOK, Noted
  <1>9. WarnOK'
    <2>1. warned = Rejections
      BY <1>1, <1>2 DEF WarnOK
    <2>2. CASE Accepted(attr, v)
      <3>1. Rejections' = Rejections
        BY <1>2, <1>3, <1>4, <1>5, <2>2 DEF Rejections
      <3> QED BY <1>2, <1>7, <2>1, <2>2, <3>1 DEF WarnOK
    <2>3. CASE ~Accepted(attr, v)
      <3>1. Rejections' = Rejections \cup {Rejected(name)}
        BY <1>2, <1>3, <1>4, <1>5, <2>3 DEF Rejections
      <3> QED BY <1>2, <1>7, <2>1, <2>3, <3>1 DEF WarnOK
    <2> QED BY <2>2, <2>3
  <1>10. FromOK'
    <2>1. CASE attr \in Range(Spellings) /\ Accepted(attr, v)
      <3>1. from' = [from EXCEPT ![name.attr] =
                        With(@, suffixKey(name), AsHeadroom(name.attr, seen[name]))]
        BY <1>4, <1>5, <1>6, <2>1
      <3> QED BY <1>1, <1>2, <1>4, <1>5, <2>1, <3>1, SpellingHeard
    <2>2. CASE ~(attr \in Range(Spellings) /\ Accepted(attr, v))
      <3>1. from' = from
        BY <1>6, <2>2
      <3> QED BY <1>1, <1>2, <1>4, <1>5, <2>2, <3>1, SpellingNotHeard
    <2> QED BY <2>1, <2>2
  <1>11. attr \in Range(Spellings) \cup {"min"} \cup Scalars \cup Switches
    BY <1>3, <1>5, NameFacts
  <1>12. out.headroom = "own" /\ out.min = "own" /\ "own" \in Refs /\ "base" \in Refs
    BY <1>1, <1>2 DEF MapsOK, Refs
  \* The maps, the minimum and the switch: where the annotation is a minimum, a
  \* scalar, or changes nothing here.
  <1>12a. Fits' = Fits
    BY <1>2 DEF Fits
  <1>13. CASE attr = "min" /\ Accepted(attr, v)
    <2>1. v # Unparsable
      BY <1>13 DEF Accepted
    <2>2. /\ out' = out
          /\ heap' = [heap EXCEPT ![out.min].min = With(@, name.res, v)]
      BY <1>5, <1>6, <1>13, SpellingFacts DEF parseScalar
    <2>3. PICK m : m = With(heap[out.min].min, name.res, v)
      OBVIOUS
    <2>4. /\ DOMAIN heap' = Refs /\ heap'["base"] = heap["base"]
          /\ heap'["own"] = [headroom |-> heap["own"].headroom, min |-> m]
      BY <1>1, <1>12, <2>2, <2>3 DEF MapsOK, Refs
    <2>5. MapsOK'
      BY <1>1, <1>2, <2>2, <2>4 DEF MapsOK, Refs
    <2>6. HeadroomOK'
      BY <1>1, <1>2, <1>12, <2>2, <2>4 DEF HeadroomOK
    <2>7. Minimums' = Minimums \cup {name}
      BY <1>2, <1>3, <1>4, <1>5, <1>13, <2>1 DEF Minimums
    <2>8. /\ DOMAIN m = DOMAIN heap[out.min].min \cup {name.res} /\ m[name.res] = v
          /\ \A x \in DOMAIN heap[out.min].min : x # name.res => m[x] = heap[out.min].min[x]
      BY <2>3 DEF With
    <2>9. ASSUME NEW a \in Minimums, a.res = name.res
          PROVE  a = name
      <3>1. a \in Annotations /\ a.attr = "min"
        BY <1>1 DEF Minimums, Looked, NotesOK, Noted
      <3> QED BY <1>3, <1>5, <1>13, <2>9, <3>1, NameFacts
    <2>10. heap'[out'.min].min = m
      BY <1>12, <2>2, <2>4
    <2>11. MinOK'
      BY <1>1, <1>2, <1>4, <2>7, <2>8, <2>9, <2>10 DEF MinOK
    <2>12. SwitchOK'
      BY <1>1, <1>2, <1>3, <1>5, <1>13, <2>2 DEF SwitchOK
    <2>13. DurationsOK'
      BY <1>1, <1>12a, <2>2 DEF DurationsOK
    <2> QED BY <1>8, <1>9, <1>10, <2>5, <2>6, <2>11, <2>12, <2>13 DEF PolicyInv
  <1>14. CASE attr \in Scalars \cup Switches /\ (Accepted(attr, v) \/ attr = "shrink-enabled")
    <2>1. attr # "min" /\ attr \notin Range(Spellings)
      BY <1>14, SpellingFacts DEF Scalars, Switches
    <2>2. heap' = heap /\ out' = Applied(attr, v)
      BY <1>5, <1>6, <1>14, <2>1 DEF parseScalar
    <2>3. PICK o : o = Applied(attr, v)
      OBVIOUS
    <2>4. out \in PolicyFields
      BY <1>1 DEF MapsOK
    <2>5. /\ o \in PolicyFields /\ o.headroom = out.headroom /\ o.min = out.min
          /\ attr # "shrink-enabled" => o.shrinkEnabled = out.shrinkEnabled
          /\ attr = "shrink-enabled" => (o.shrinkEnabled <=> out.shrinkEnabled /\ Fold(v) = "true")
          /\ attr \in {"shrink-cooldown-days", "shrink-pr-ttl-days", "cooldown-minutes"} => v \in Nat
          /\ attr = "shrink-pr-ttl-days" => v # 0
          /\ o.shrinkCooldown = IF attr = "shrink-cooldown-days" THEN Duration(v, Day)
                                ELSE out.shrinkCooldown
          /\ o.shrinkPRTTL = IF attr = "shrink-pr-ttl-days" THEN Duration(v, Day) ELSE out.shrinkPRTTL
          /\ o.growCooldown = IF attr = "cooldown-minutes" THEN Duration(v, Minute)
                              ELSE out.growCooldown
      BY <1>14, <2>3, <2>4, AppliedFacts
    <2>6. MapsOK'
      BY <1>1, <1>2, <1>12, <2>2, <2>3, <2>5 DEF MapsOK
    <2>7. HeadroomOK'
      BY <1>1, <1>2, <2>2, <2>3, <2>5 DEF HeadroomOK
    <2>8. Minimums' = Minimums
      BY <1>2, <1>3, <1>5, <2>1 DEF Minimums
    <2>9. MinOK'
      BY <1>1, <1>2, <2>2, <2>3, <2>5, <2>8 DEF MinOK
    <2>10. SwitchOK'
      BY <1>1, <1>2, <1>3, <1>4, <1>5, <2>2, <2>3, <2>5 DEF SwitchOK
    <2>11. DurationsOK'
      <3> SUFFICES ASSUME Fits
                   PROVE  /\ o.shrinkPRTTL \in Nat \ {0}
                          /\ o.shrinkCooldown \in Nat /\ o.growCooldown \in Nat
        BY <1>12a, <2>2, <2>3 DEF DurationsOK
      <3>1. /\ out.shrinkPRTTL \in Nat \ {0}
            /\ out.shrinkCooldown \in Nat /\ out.growCooldown \in Nat
        BY <1>1 DEF DurationsOK
      <3>2. /\ attr \in {"shrink-cooldown-days", "shrink-pr-ttl-days"} => v * Day <= MaxDuration
            /\ attr = "cooldown-minutes" => v * Minute <= MaxDuration
        BY <1>3, <1>4, <1>5, <2>5 DEF Fits
      <3>3. /\ attr = "shrink-cooldown-days" => Duration(v, Day) \in Nat
            /\ attr = "cooldown-minutes" => Duration(v, Minute) \in Nat
        BY <2>5, <3>2, UnitFacts, DurationFacts
      <3>4. attr = "shrink-pr-ttl-days" => Duration(v, Day) \in Nat \ {0}
        BY <2>5, <3>2, UnitFacts, DurationFacts
      <3>5. o.shrinkPRTTL \in Nat \ {0}
        BY <2>5, <3>1, <3>4
      <3>6. o.shrinkCooldown \in Nat /\ o.growCooldown \in Nat
        BY <2>5, <3>1, <3>3
      <3> QED BY <3>5, <3>6
    <2> QED BY <1>8, <1>9, <1>10, <2>6, <2>7, <2>9, <2>10, <2>11 DEF PolicyInv
  <1>15. CASE attr \in Range(Spellings) \/ (~Accepted(attr, v) /\ attr # "shrink-enabled")
    <2>1. heap' = heap /\ out' = out
      BY <1>6, <1>15
    <2>2. MapsOK' /\ HeadroomOK'
      BY <1>1, <1>2, <2>1 DEF MapsOK, HeadroomOK
    <2>3. Minimums' = Minimums
      <3>1. attr = "min" => v = Unparsable
        BY <1>15, SpellingFacts DEF Accepted
      <3> QED BY <1>2, <1>3, <1>4, <1>5, <3>1 DEF Minimums
    <2>4. MinOK'
      BY <1>1, <1>2, <2>1, <2>3 DEF MinOK
    <2>5. SwitchOK'
      <3>1. attr # "shrink-enabled"
        BY <1>15, SpellingFacts
      <3> QED BY <1>1, <1>2, <1>3, <1>5, <2>1, <3>1 DEF SwitchOK
    <2>6. DurationsOK'
      BY <1>1, <1>12a, <2>1 DEF DurationsOK
    <2> QED BY <1>8, <1>9, <1>10, <2>2, <2>4, <2>5, <2>6 DEF PolicyInv
  <1> QED BY <1>11, <1>13, <1>14, <1>15

\* What follows of the state when nothing but the annotations in the cluster or
\* the program counter changes.
LEMMA SameHeard ==
    ASSUME UNCHANGED <<seen, todo>>
    PROVE  Looked' = Looked /\ (\A attr : Heard(attr)' = Heard(attr)) /\ Minimums' = Minimums
           /\ Rejections' = Rejections /\ Fits' = Fits
  BY DEF Looked, Heard, Minimums, Rejections, Fits

LEMMA FinishStep ==
    ASSUME PolicyInv, Finish
    PROVE  PolicyInv'
  <1>1. NotesOK /\ MapsOK /\ FromOK /\ HeadroomOK /\ MinOK /\ SwitchOK /\ DurationsOK /\ WarnOK
    BY DEF PolicyInv
  <1>2. /\ pc = "scan" /\ pc' = "done" /\ todo = Empty
        /\ UNCHANGED <<enableShrink, annotations, out, todo, from, seen>>
        /\ heap' = [heap EXCEPT ![out.headroom].headroom = Over(Precedence, @)]
    BY DEF Finish
  <1>3. warned' = warned \cup Deprecations
    BY DEF Finish, Deprecations
  <1>4. Looked' = Looked /\ (\A attr : Heard(attr)' = Heard(attr)) /\ Minimums' = Minimums
        /\ Rejections' = Rejections /\ Fits' = Fits
    BY <1>2, SameHeard
  <1>5. NotesOK'
    BY <1>1, <1>2, EmptyMap DEF NotesOK, Noted
  <1>6. FromOK'
    BY <1>1, <1>2, <1>4 DEF FromOK
  <1>7. Precedence' = Precedence /\ Deprecations' = Deprecations
    BY <1>2 DEF Precedence, Deprecations
  <1>8. out.headroom = "own" /\ out.min = "own"
    BY <1>1, <1>2 DEF MapsOK
  <1>9. PICK h : h = Over(Precedence, heap["own"].headroom)
    OBVIOUS
  <1>10. /\ DOMAIN heap' = Refs /\ heap'["base"] = heap["base"]
         /\ heap'["own"] = [headroom |-> h, min |-> heap["own"].min]
    BY <1>1, <1>2, <1>8, <1>9 DEF MapsOK, Refs
  <1>11. MapsOK'
    BY <1>1, <1>2, <1>10 DEF MapsOK, Refs
  <1>12. HeadroomOK'
    <2>1. heap["own"].headroom = BaseMaps.headroom
      BY <1>1, <1>2, <1>8 DEF HeadroomOK
    <2> QED BY <1>2, <1>7, <1>8, <1>9, <1>10, <2>1 DEF HeadroomOK
  <1>13. MinOK'
    BY <1>1, <1>2, <1>4, <1>8, <1>10 DEF MinOK
  <1>14. SwitchOK'
    BY <1>1, <1>2, <1>4 DEF SwitchOK
  <1>15. WarnOK'
    BY <1>1, <1>2, <1>3, <1>4, <1>7 DEF WarnOK
  <1>16. DurationsOK'
    BY <1>1, <1>2, <1>4 DEF DurationsOK
  <1> QED BY <1>5, <1>6, <1>11, <1>12, <1>13, <1>14, <1>15, <1>16 DEF PolicyInv

LEMMA AnnotateStep ==
    ASSUME PolicyInv, NEW ns \in Namespaces, NEW name \in Annotations, Annotate(ns, name)
    PROVE  PolicyInv'
  <1>1. NotesOK /\ MapsOK /\ FromOK /\ HeadroomOK /\ MinOK /\ SwitchOK /\ DurationsOK /\ WarnOK
    BY DEF PolicyInv
  <1>2. /\ UNCHANGED <<enableShrink, heap, out, todo, from, warned, seen, pc>>
        /\ \/ \E v \in Values[name.attr] :
                 annotations' = [annotations EXCEPT ![ns] = With(@, name, v)]
           \/ annotations' = [annotations EXCEPT ![ns] = Without(@, name)]
    BY DEF Annotate
  <1>3. Looked' = Looked /\ (\A attr : Heard(attr)' = Heard(attr)) /\ Minimums' = Minimums
        /\ Rejections' = Rejections /\ Fits' = Fits
    BY <1>2, SameHeard
  <1>4. DOMAIN annotations = Namespaces /\ Noted(annotations[ns])
    BY <1>1 DEF NotesOK
  <1>5. \E f : Noted(f) /\ annotations' = [annotations EXCEPT ![ns] = f]
    <2>1. CASE \E v \in Values[name.attr] :
                  annotations' = [annotations EXCEPT ![ns] = With(@, name, v)]
      <3>1. PICK v \in Values[name.attr] : annotations' = [annotations EXCEPT ![ns] = With(@, name, v)]
        BY <2>1
      <3>2. PICK f : f = With(annotations[ns], name, v)
        OBVIOUS
      <3>3. Noted(f)
        BY <1>4, <3>2 DEF With, Noted
      <3> QED BY <3>1, <3>2, <3>3
    <2>2. CASE annotations' = [annotations EXCEPT ![ns] = Without(@, name)]
      <3>1. PICK f : f = Without(annotations[ns], name)
        OBVIOUS
      <3>2. Noted(f)
        BY <1>4, <3>1 DEF Without, Noted
      <3> QED BY <2>2, <3>1, <3>2
    <2> QED BY <1>2, <2>1, <2>2
  <1>6. NotesOK'
    <2>1. PICK f : Noted(f) /\ annotations' = [annotations EXCEPT ![ns] = f]
      BY <1>5
    <2>2. DOMAIN annotations' = Namespaces /\ \A m \in Namespaces : annotations'[m] = IF m = ns THEN f ELSE annotations[m]
      BY <1>4, <2>1
    <2> QED BY <1>1, <1>2, <2>1, <2>2 DEF NotesOK, Noted
  <1>7. FromOK' /\ MapsOK'
    BY <1>1, <1>2, <1>3 DEF FromOK, MapsOK
  <1>8. HeadroomOK' /\ MinOK' /\ SwitchOK'
    BY <1>1, <1>2, <1>3 DEF HeadroomOK, MinOK, SwitchOK, Precedence
  <1>9. WarnOK'
    BY <1>1, <1>2, <1>3 DEF WarnOK, Deprecations
  <1>10. DurationsOK'
    BY <1>1, <1>2, <1>3 DEF DurationsOK
  <1> QED BY <1>6, <1>7, <1>8, <1>9, <1>10 DEF PolicyInv

LEMMA PolicyInductive ==
    /\ Init => PolicyInv
    /\ PolicyInv /\ [Next]_vars => PolicyInv'
  <1>1. ASSUME PolicyInv, [Next]_vars PROVE PolicyInv'
    <2>1. CASE \E ns \in Namespaces : Begin(ns)
      BY <1>1, <2>1, BeginStep
    <2>2. CASE \E name \in DOMAIN todo : LookAt(name)
      BY <1>1, <2>2, LookAtStep
    <2>3. CASE Finish
      BY <1>1, <2>3, FinishStep
    <2>4. CASE \E ns \in Namespaces, name \in Annotations : Annotate(ns, name)
      BY <1>1, <2>4, AnnotateStep
    <2>5. CASE UNCHANGED vars
      <3>1. UNCHANGED <<enableShrink, annotations, heap, out, todo, from, warned, seen, pc>>
        BY <2>5 DEF vars
      <3>2. Looked' = Looked /\ (\A attr : Heard(attr)' = Heard(attr)) /\ Minimums' = Minimums
            /\ Rejections' = Rejections /\ Fits' = Fits
        BY <3>1, SameHeard
      <3> QED BY <1>1, <3>1, <3>2 DEF PolicyInv, NotesOK, Noted, MapsOK, FromOK, HeadroomOK, MinOK,
                                      SwitchOK, DurationsOK, WarnOK, Precedence, Deprecations
    <2> QED BY <1>1, <2>1, <2>2, <2>3, <2>4, <2>5 DEF Next
  <1> QED BY <1>1, PolicyInit

-----------------------------------------------------------------------------
(* Looking up a key *)

LEMMA MinFacts ==
    ASSUME NEW S \in SUBSET Nat, S # {}
    PROVE  Min(S) \in S /\ \A x \in S : Min(S) <= x
  <1>1. PICK n \in S : \A m \in S : ~ (<<m, n>> \in OpToRel(<, Nat))
    BY NatLessThanWellFounded, WFMin
  <1>2. \A m \in S : ~(m < n)
    BY <1>1 DEF OpToRel
  <1>3. \A m \in S : n <= m
    BY <1>2
  <1> QED BY <1>3 DEF Min

\* A key speaks of at most one family, and a key named as the default of none.
LEMMA FamilyFacts ==
    ASSUME NEW key
    PROVE  /\ resourceFamily(key) \in {<<>>, <<"cpu">>, <<"memory">>, <<"storage">>}
           /\ key.scope = <<>> /\ key.measure = DefaultKey => resourceFamily(key) = <<>>
  <1> DEFINE named == {i \in DOMAIN Families : Families[i] \in Range(measureOf(key))}
  <1>1. DOMAIN Families = 1 .. 3 /\ Families[1] = "cpu" /\ Families[2] = "memory" /\ Families[3] = "storage"
    BY DEF Families
  <1>2. named \in SUBSET Nat /\ named \subseteq {1, 2, 3}
    BY <1>1
  <1>3. resourceFamily(key) = IF named = {} THEN <<>> ELSE <<Families[Min(named)]>>
    BY DEF resourceFamily
  <1>4. ASSUME key.scope = <<>>, key.measure = DefaultKey
        PROVE  named = {}
    <2>1. <<"count">> # <<>>
      OBVIOUS
    <2>2. measureOf(key) = <<"default">>
      BY <1>4, <2>1 DEF measureOf, DefaultKey
    <2>3. Range(measureOf(key)) = {"default"}
      BY <2>2 DEF Range
    <2> QED BY <1>1, <2>3
  <1> HIDE DEF named
  <1>5. CASE named = {}
    BY <1>3, <1>5
  <1>6. CASE named # {}
    <2>1. Min(named) \in {1, 2, 3}
      BY <1>2, <1>6, MinFacts
    <2>2. Families[Min(named)] \in {"cpu", "memory", "storage"}
      BY <1>1, <2>1
    <2> QED BY <1>3, <1>4, <1>6, <2>2
  <1> QED BY <1>5, <1>6

LEMMA Single ==
    ASSUME NEW X, NEW x \in X
    PROVE  /\ <<x>> \in Seq(X) /\ Len(<<x>>) = 1 /\ <<x>>[1] = x
           /\ <<>> \in Seq(X) /\ Len(<<>>) = 0
  OBVIOUS

\* The entries of a key, the default last: a default that comes earlier is
\* followed by nothing else.
LEMMA EntriesFacts ==
    ASSUME NEW key, NEW S, S = Specificity(key), NEW E, E = S \o <<DefaultKey>>
    PROVE  /\ DOMAIN S \in SUBSET Nat /\ DOMAIN E \in SUBSET Nat
           /\ \E k \in DOMAIN E : E[k] = DefaultKey
           /\ \A k, m \in DOMAIN E : E[k] = DefaultKey /\ k < m => E[m] = DefaultKey
  <1> DEFINE X == {key.measure, resourceFamily(key), DefaultKey}
             A == IF key.scope = <<>> THEN <<key.measure>> ELSE <<>>
             B == IF resourceFamily(key) = <<>> THEN <<>> ELSE <<resourceFamily(key)>>
             D == <<DefaultKey>>
  <1>1. /\ A \in Seq(X) /\ Len(A) \in {0, 1} /\ (Len(A) = 1 => key.scope = <<>> /\ A[1] = key.measure)
    <2>1. CASE key.scope = <<>>
      BY <2>1, Single
    <2>2. CASE key.scope # <<>>
      BY <2>2, Single
    <2> QED BY <2>1, <2>2
  <1>2. /\ B \in Seq(X) /\ Len(B) \in {0, 1}
        /\ (Len(B) = 1 => resourceFamily(key) # <<>> /\ B[1] = resourceFamily(key))
    <2>1. PICK f : f = resourceFamily(key)
      OBVIOUS
    <2>2. f \in X /\ B = IF f = <<>> THEN <<>> ELSE <<f>>
      BY <2>1
    <2> HIDE DEF X, B
    <2>3. CASE f = <<>>
      BY <2>2, <2>3, Single
    <2>4. CASE f # <<>>
      BY <2>1, <2>2, <2>4, Single
    <2> QED BY <2>3, <2>4
  <1>3. D \in Seq(X) /\ Len(D) = 1 /\ D[1] = DefaultKey
    OBVIOUS
  <1>4. S = A \o B /\ E = S \o D
    BY DEF Specificity
  <1> HIDE DEF A, B, D, X
  <1>5. /\ S \in Seq(X) /\ Len(S) = Len(A) + Len(B) /\ DOMAIN S = 1 .. Len(S)
        /\ \A i \in 1 .. Len(S) : S[i] = IF i <= Len(A) THEN A[i] ELSE B[i - Len(A)]
    BY <1>1, <1>2, <1>4
  <1>6. /\ E \in Seq(X) /\ Len(E) = Len(S) + 1 /\ DOMAIN E = 1 .. Len(E)
        /\ \A i \in 1 .. Len(E) : E[i] = IF i <= Len(S) THEN S[i] ELSE D[i - Len(S)]
    BY <1>3, <1>4, <1>5
  <1>7. E[Len(E)] = DefaultKey /\ Len(E) \in DOMAIN E
    BY <1>1, <1>2, <1>3, <1>5, <1>6
  <1>8. ASSUME NEW k \in DOMAIN E, NEW m \in DOMAIN E, E[k] = DefaultKey, k < m
        PROVE  E[m] = DefaultKey
    <2>1. CASE m = Len(E)
      BY <1>7, <2>1
    <2>2. CASE m # Len(E)
      <3>1. /\ k = 1 /\ m = 2 /\ Len(A) = 1 /\ Len(B) = 1
        <4>1. PICK x, y : x = Len(A) /\ y = Len(B)
          OBVIOUS
        <4>2. x \in {0, 1} /\ y \in {0, 1} /\ Len(E) = x + y + 1
          BY <1>1, <1>2, <1>5, <1>6, <4>1
        <4>3. k \in Nat /\ m \in Nat /\ 1 <= k /\ k < m /\ m < x + y + 1
          BY <1>6, <1>8, <2>2, <4>2
        <4> QED BY <4>1, <4>2, <4>3
      <3>2. E[1] = key.measure /\ key.scope = <<>> /\ resourceFamily(key) # <<>>
        BY <1>1, <1>2, <1>5, <1>6, <3>1
      <3> QED BY <1>8, <3>1, <3>2, FamilyFacts
    <2> QED BY <2>1, <2>2
  <1> QED BY <1>5, <1>6, <1>7, <1>8

\* FirstIn finds the first entry that is there.
There(map, names) == {i \in DOMAIN names : names[i] \in DOMAIN map}

LEMMA FirstInFacts ==
    ASSUME NEW map, NEW names, DOMAIN names \in SUBSET Nat, NEW none
    PROVE  /\ There(map, names) = {} => FirstIn(map, names, none) = none
           /\ There(map, names) # {} =>
                 \E k \in There(map, names) :
                    /\ \A i \in There(map, names) : k <= i
                    /\ FirstIn(map, names, none) = map[names[k]]
  <1>1. PICK there : there = There(map, names)
    OBVIOUS
  <1>2. there \in SUBSET Nat
    BY <1>1 DEF There
  <1>3. there # {} => Min(there) \in there /\ \A i \in there : Min(there) <= i
    BY <1>2, MinFacts
  <1>4. FirstIn(map, names, none) = IF there = {} THEN none ELSE map[names[Min(there)]]
    BY <1>1 DEF FirstIn, There
  <1> QED BY <1>1, <1>3, <1>4

\* Headroom goes before increment, and increment before threshold.
LEMMA PrecedenceFacts ==
    \E f, g, h :
        /\ f = from["headroom"] /\ g = from["increment"] /\ h = from["threshold"]
        /\ DOMAIN Precedence = DOMAIN f \cup DOMAIN g \cup DOMAIN h
        /\ \A e \in DOMAIN f : Precedence[e] = f[e]
        /\ \A e \in DOMAIN g \ DOMAIN f : Precedence[e] = g[e]
        /\ \A e \in DOMAIN h \ (DOMAIN f \cup DOMAIN g) : Precedence[e] = h[e]
  <1>0. PICK f, g, h : f = from["headroom"] /\ g = from["increment"] /\ h = from["threshold"]
    OBVIOUS
  <1>1. PICK i : i = Over(g, h)
    OBVIOUS
  <1>2. /\ DOMAIN i = DOMAIN g \cup DOMAIN h
        /\ \A e \in DOMAIN g : i[e] = g[e]
        /\ \A e \in DOMAIN h \ DOMAIN g : i[e] = h[e]
    BY <1>1 DEF Over
  <1>3. Precedence = Over(f, i)
    BY <1>0, <1>1 DEF Precedence
  <1>4. /\ DOMAIN Over(f, i) = DOMAIN f \cup DOMAIN i
        /\ \A e \in DOMAIN f : Over(f, i)[e] = f[e]
        /\ \A e \in DOMAIN i \ DOMAIN f : Over(f, i)[e] = i[e]
    BY DEF Over
  <1>5. /\ DOMAIN Precedence = DOMAIN f \cup DOMAIN g \cup DOMAIN h
        /\ \A e \in DOMAIN f : Precedence[e] = f[e]
        /\ \A e \in DOMAIN g \ DOMAIN f : Precedence[e] = g[e]
        /\ \A e \in DOMAIN h \ (DOMAIN f \cup DOMAIN g) : Precedence[e] = h[e]
    BY <1>2, <1>3, <1>4
  <1> QED BY <1>0, <1>5

\* Every headroom is one Decide can work with.
LEMMA HeadroomsNatural ==
    ASSUME PolicyInv, NEW H, H = heap[out.headroom].headroom
    PROVE  /\ DefaultKey \in DOMAIN H /\ \A e \in DOMAIN H : H[e] \in Nat
  <1>1. FromOK /\ HeadroomOK
    BY DEF PolicyInv
  <1>2. \A s \in Range(Spellings) : \A e \in DOMAIN from[s] : from[s][e] \in Nat
    <2> SUFFICES ASSUME NEW s \in Range(Spellings), NEW e \in DOMAIN from[s]
                 PROVE  from[s][e] \in Nat
      OBVIOUS
    <2>1. PICK a \in Heard(s) : from[s][e] = AsHeadroom(s, seen[a])
      BY <1>1 DEF FromOK
    <2>2. Accepted(s, seen[a])
      BY <2>1 DEF Heard
    <2> QED BY <2>1, <2>2, AcceptedHeadroom
  <1>3. \A e \in DOMAIN Precedence : Precedence[e] \in Nat
    <2>1. PICK f, g, h :
            /\ f = from["headroom"] /\ g = from["increment"] /\ h = from["threshold"]
            /\ DOMAIN Precedence = DOMAIN f \cup DOMAIN g \cup DOMAIN h
            /\ \A e \in DOMAIN f : Precedence[e] = f[e]
            /\ \A e \in DOMAIN g \ DOMAIN f : Precedence[e] = g[e]
            /\ \A e \in DOMAIN h \ (DOMAIN f \cup DOMAIN g) : Precedence[e] = h[e]
      BY PrecedenceFacts
    <2>2. /\ \A e \in DOMAIN f : f[e] \in Nat
          /\ \A e \in DOMAIN g : g[e] \in Nat
          /\ \A e \in DOMAIN h : h[e] \in Nat
      BY <1>2, <2>1, SpellingFacts
    <2> QED BY <2>1, <2>2
  <1>4. CASE pc = "done"
    <2>1. PICK p, b : p = Precedence /\ b = BaseMaps.headroom
      OBVIOUS
    <2>2. H = Over(p, b) /\ DOMAIN b = {DefaultKey} /\ b[DefaultKey] = 25
      BY <1>1, <1>4, <2>1, BaseFacts DEF HeadroomOK
    <2>3. \A e \in DOMAIN p : p[e] \in Nat
      BY <1>3, <2>1
    <2> QED BY <2>2, <2>3 DEF Over
  <1>5. CASE pc # "done"
    <2>1. H = BaseMaps.headroom
      BY <1>1, <1>5 DEF HeadroomOK
    <2> QED BY <2>1, BaseFacts
  <1> QED BY <1>4, <1>5

LEMMA ReadyAlways ==
    ASSUME PolicyInv
    PROVE  SizingReady
  <1>1. out \in PolicyFields
    BY DEF PolicyInv, MapsOK
  <1>2. /\ out.tolerance \in 0 .. 99 /\ out.maxShrinkStep \in 1 .. 99
        /\ out.windowDays \in Nat \ {0}
    BY <1>1 DEF PolicyFields
  <1>2a. Fits => /\ out.shrinkPRTTL \in Nat \ {0}
                 /\ out.shrinkCooldown \in Nat /\ out.growCooldown \in Nat
    BY DEF PolicyInv, DurationsOK
  <1>3. ASSUME NEW key \in QuotaKeys
        PROVE  HeadroomFor(key) \in Nat
    <2>1. PICK H : H = heap[out.headroom].headroom
      OBVIOUS
    <2>2. PICK S : S = Specificity(key)
      OBVIOUS
    <2>3. PICK E : E = S \o <<DefaultKey>>
      OBVIOUS
    <2>4. DOMAIN E \in SUBSET Nat
      BY <2>2, <2>3, EntriesFacts, SMTT(60)
    <2>5. PICK v : v = FirstIn(H, E, 25)
      OBVIOUS
    <2>6. v = 25 \/ \E k \in There(H, E) : v = H[E[k]]
      BY <2>4, <2>5, FirstInFacts
    <2>7. \A e \in DOMAIN H : H[e] \in Nat
      BY <2>1, HeadroomsNatural
    <2>8. v \in Nat
      BY <2>6, <2>7 DEF There
    <2> QED BY <2>1, <2>2, <2>3, <2>5, <2>8 DEF HeadroomFor
  <1> QED BY <1>2, <1>2a, <1>3 DEF SizingReady

\* In the end every collection holds what its spelling says.
LEMMA SaysFacts ==
    ASSUME FromOK, Looked = DOMAIN seen, NEW s \in Range(Spellings), NEW e
    PROVE  /\ Says(e, s) # {} <=> e \in DOMAIN from[s]
           /\ e \in DOMAIN from[s] => from[s][e] \in Says(e, s)
  <1>1. Heard(s) = {a \in DOMAIN seen : a.attr = s /\ Accepted(s, seen[a])}
    BY DEF Heard
  <1>2. Says(e, s) = {AsHeadroom(s, seen[a]) : a \in {a \in Heard(s) : suffixKey(a) = e}}
    BY <1>1 DEF Says
  <1>3. /\ DOMAIN from[s] = {suffixKey(a) : a \in Heard(s)}
        /\ \A k \in DOMAIN from[s] :
              \E a \in Heard(s) : suffixKey(a) = k /\ from[s][k] = AsHeadroom(s, seen[a])
    BY DEF FromOK
  <1> QED BY <1>2, <1>3

\* The newest spelling wins.
LEMMA NewestFacts ==
    ASSUME FromOK, Looked = DOMAIN seen, NEW p, p = Precedence, NEW e
    PROVE  /\ Newest(e) # {} <=> e \in DOMAIN p
           /\ e \in DOMAIN p => p[e] \in Newest(e)
  <1>1. PICK f, g, h :
            /\ f = from["headroom"] /\ g = from["increment"] /\ h = from["threshold"]
            /\ DOMAIN Precedence = DOMAIN f \cup DOMAIN g \cup DOMAIN h
            /\ \A x \in DOMAIN f : Precedence[x] = f[x]
            /\ \A x \in DOMAIN g \ DOMAIN f : Precedence[x] = g[x]
            /\ \A x \in DOMAIN h \ (DOMAIN f \cup DOMAIN g) : Precedence[x] = h[x]
    BY PrecedenceFacts
  <1>2. PICK A, B, C : A = Says(e, "headroom") /\ B = Says(e, "increment") /\ C = Says(e, "threshold")
    OBVIOUS
  <1>3. /\ A # {} <=> e \in DOMAIN f
        /\ B # {} <=> e \in DOMAIN g
        /\ C # {} <=> e \in DOMAIN h
        /\ e \in DOMAIN f => f[e] \in A
        /\ e \in DOMAIN g => g[e] \in B
        /\ e \in DOMAIN h => h[e] \in C
    <2>1. \A s \in Range(Spellings) : /\ Says(e, s) # {} <=> e \in DOMAIN from[s]
                                      /\ e \in DOMAIN from[s] => from[s][e] \in Says(e, s)
      BY SaysFacts
    <2>2. PICK s : s = "headroom" /\ s \in Range(Spellings)
      BY SpellingFacts
    <2>3. PICK t : t = "increment" /\ t \in Range(Spellings)
      BY SpellingFacts
    <2>4. PICK u : u = "threshold" /\ u \in Range(Spellings)
      BY SpellingFacts
    <2>5. (A # {} <=> e \in DOMAIN f) /\ (e \in DOMAIN f => f[e] \in A)
      BY <1>1, <1>2, <2>1, <2>2
    <2>6. (B # {} <=> e \in DOMAIN g) /\ (e \in DOMAIN g => g[e] \in B)
      BY <1>1, <1>2, <2>1, <2>3
    <2>7. (C # {} <=> e \in DOMAIN h) /\ (e \in DOMAIN h => h[e] \in C)
      BY <1>1, <1>2, <2>1, <2>4
    <2> QED BY <2>5, <2>6, <2>7
  <1>4. PICK speaking : speaking = {i \in DOMAIN Spellings : Says(e, Spellings[i]) # {}}
    OBVIOUS
  <1>5. /\ speaking \subseteq 1 .. 3
        /\ (1 \in speaking <=> A # {}) /\ (2 \in speaking <=> B # {}) /\ (3 \in speaking <=> C # {})
    <2>1. Says(e, Spellings[1]) = A /\ Says(e, Spellings[2]) = B /\ Says(e, Spellings[3]) = C
      BY <1>2, SpellingFacts
    <2> QED BY <1>4, <2>1, SpellingFacts
  <1>6. Newest(e) = IF speaking = {} THEN {} ELSE Says(e, Spellings[Min(speaking)])
    BY <1>4 DEF Newest
  <1>7. speaking # {} => Min(speaking) \in speaking /\ \A i \in speaking : Min(speaking) <= i
    <2>1. speaking \in SUBSET Nat
      BY <1>5
    <2> QED BY <2>1, MinFacts
  <1>8. PICK k : k = Min(speaking)
    OBVIOUS
  <1>9. Newest(e) = IF A # {} THEN A ELSE IF B # {} THEN B ELSE C
    <2>1. CASE A # {}
      <3>1. speaking # {} /\ k \in {1, 2, 3} /\ k <= 1
        <4>1. 1 \in speaking
          BY <1>5, <2>1
        <4>2. k \in speaking /\ k <= 1
          BY <1>7, <1>8, <4>1
        <4>3. speaking \subseteq {1, 2, 3}
          BY <1>5
        <4> QED BY <4>1, <4>2, <4>3
      <3>2. k = 1
        BY <3>1
      <3>3. Newest(e) = Says(e, "headroom")
        BY <1>6, <1>8, <3>1, <3>2, SpellingFacts
      <3> QED BY <1>2, <2>1, <3>3
    <2>2. CASE A = {} /\ B # {}
      <3>1. speaking # {} /\ k \in {2, 3} /\ k <= 2
        <4>1. 2 \in speaking /\ 1 \notin speaking
          BY <1>5, <2>2
        <4>2. k \in speaking /\ k <= 2
          BY <1>7, <1>8, <4>1
        <4>3. speaking \subseteq {1, 2, 3}
          BY <1>5
        <4> QED BY <4>1, <4>2, <4>3
      <3>2. k = 2
        BY <3>1
      <3>3. Newest(e) = Says(e, "increment")
        BY <1>6, <1>8, <3>1, <3>2, SpellingFacts
      <3> QED BY <1>2, <2>2, <3>3
    <2>3. CASE A = {} /\ B = {} /\ C # {}
      <3>1. speaking # {} /\ k \in {3} /\ k <= 3
        <4>1. 3 \in speaking /\ 1 \notin speaking /\ 2 \notin speaking
          BY <1>5, <2>3
        <4>2. k \in speaking /\ k <= 3
          BY <1>7, <1>8, <4>1
        <4>3. speaking \subseteq {1, 2, 3}
          BY <1>5
        <4> QED BY <4>1, <4>2, <4>3
      <3>2. k = 3
        BY <3>1
      <3>3. Newest(e) = Says(e, "threshold")
        BY <1>6, <1>8, <3>1, <3>2, SpellingFacts
      <3> QED BY <1>2, <2>3, <3>3
    <2>4. CASE A = {} /\ B = {} /\ C = {}
      <3>1. speaking = {}
        BY <1>5, <2>4
      <3> QED BY <1>6, <2>4, <3>1
    <2> QED BY <2>1, <2>2, <2>3, <2>4
  <1> QED BY <1>1, <1>3, <1>9

LEMMA SpecificWins ==
    ASSUME PolicyInv
    PROVE  MostSpecificWins
  <1> SUFFICES ASSUME pc = "done", NEW key \in QuotaKeys
               PROVE  LET entries == Specificity(key) \o <<DefaultKey>>
                          written == {i \in DOMAIN entries : Newest(entries[i]) # {}}
                      IN  IF written = {} THEN HeadroomFor(key) = 25
                          ELSE HeadroomFor(key) \in Newest(entries[Min(written)])
    BY DEF MostSpecificWins
  <1>1. FromOK /\ Looked = DOMAIN seen /\ HeadroomOK
    BY DEF PolicyInv, NotesOK, Looked
  <1>2. PICK H : H = heap[out.headroom].headroom
    OBVIOUS
  <1>3. PICK p : p = Precedence
    OBVIOUS
  <1>4. /\ DOMAIN H = DOMAIN p \cup {DefaultKey} /\ \A e \in DOMAIN p : H[e] = p[e]
        /\ DefaultKey \notin DOMAIN p => H[DefaultKey] = 25
    <2>1. PICK b : b = BaseMaps.headroom
      OBVIOUS
    <2>2. H = Over(p, b) /\ DOMAIN b = {DefaultKey} /\ b[DefaultKey] = 25
      BY <1>1, <1>2, <1>3, <2>1, BaseFacts DEF HeadroomOK
    <2> QED BY <2>2 DEF Over
  <1>5. \A e : (Newest(e) # {} <=> e \in DOMAIN p) /\ (e \in DOMAIN p => p[e] \in Newest(e))
    BY <1>1, <1>3, NewestFacts
  <1>6a. PICK S : S = Specificity(key)
    OBVIOUS
  <1>6. PICK E : E = S \o <<DefaultKey>>
    OBVIOUS
  <1>7. /\ DOMAIN E \in SUBSET Nat
        /\ \E k \in DOMAIN E : E[k] = DefaultKey
        /\ \A k, m \in DOMAIN E : E[k] = DefaultKey /\ k < m => E[m] = DefaultKey
    BY <1>6a, <1>6, EntriesFacts, SMTT(60)
  <1>8. PICK v : v = FirstIn(H, E, 25)
    OBVIOUS
  <1>9. HeadroomFor(key) = v
    BY <1>2, <1>6a, <1>6, <1>8 DEF HeadroomFor
  <1>10. There(H, E) # {}
    BY <1>4, <1>7 DEF There
  <1>11. PICK k \in There(H, E) : (\A i \in There(H, E) : k <= i) /\ v = H[E[k]]
    BY <1>7, <1>8, <1>10, FirstInFacts
  <1>12. /\ k \in DOMAIN E /\ E[k] \in DOMAIN p \cup {DefaultKey}
         /\ \A i \in DOMAIN E : E[i] \in DOMAIN p => k <= i
    BY <1>4, <1>11 DEF There
  <1>13. PICK written : written = {i \in DOMAIN E : Newest(E[i]) # {}}
    OBVIOUS
  <1>14. written = {i \in DOMAIN E : E[i] \in DOMAIN p}
    BY <1>5, <1>13
  <1>15. CASE written = {}
    <2>1. E[k] = DefaultKey /\ DefaultKey \notin DOMAIN p
      BY <1>12, <1>14, <1>15
    <2>2. v = 25
      BY <1>4, <1>11, <2>1
    <2> QED BY <1>6a, <1>6, <1>9, <1>13, <1>15, <2>2
  <1>16. CASE written # {}
    <2>1. Min(written) \in written /\ \A i \in written : Min(written) <= i
      <3>1. written \in SUBSET Nat
        BY <1>7, <1>14
      <3> QED BY <1>16, <3>1, MinFacts
    <2>2. PICK m \in written : m = Min(written)
      BY <2>1
    <2>3. k <= m /\ k \in Nat /\ m \in Nat /\ m \in DOMAIN E
      BY <1>7, <1>12, <1>14, <2>2
    <2>4. k \in written
      <3> SUFFICES ASSUME k \notin written PROVE FALSE
        OBVIOUS
      <3>1. E[k] = DefaultKey /\ DefaultKey \notin DOMAIN p /\ k # m
        BY <1>12, <1>14, <2>2
      <3>2. E[m] = DefaultKey
        BY <1>7, <1>12, <2>3, <3>1
      <3> QED BY <1>14, <2>2, <3>1, <3>2
    <2>5. k = m
      BY <2>1, <2>2, <2>3, <2>4
    <2>6. v \in Newest(E[m])
      BY <1>4, <1>5, <1>11, <1>14, <2>4, <2>5
    <2> QED BY <1>6a, <1>6, <1>9, <1>13, <1>16, <2>2, <2>6
  <1> QED BY <1>15, <1>16

\* Of an entry the collection of minimums holds what is written for it.
LEMMA MinimumFacts ==
    ASSUME PolicyInv, Looked = DOMAIN seen, NEW M, M = heap[out.min].min, NEW e
    PROVE  /\ Minimum(e) # {} <=> e \in DOMAIN M
           /\ e \in DOMAIN M => M[e] \in Minimum(e)
  <1>1. NotesOK /\ MinOK
    BY DEF PolicyInv
  <1>2. /\ DOMAIN M = {a.res : a \in Minimums} /\ \A a \in Minimums : M[a.res] = seen[a]
    BY <1>1 DEF MinOK
  <1>3. \A a \in DOMAIN seen : a = [res |-> a.res, attr |-> a.attr]
    BY <1>1, NameFacts DEF NotesOK, Noted
  <1>4. PICK w : w = [res |-> e, attr |-> "min"]
    OBVIOUS
  <1>5. w.res = e /\ w.attr = "min"
    BY <1>4
  <1>6. Minimum(e) = {seen[a] : a \in {a \in DOMAIN seen : a = w /\ seen[a] # Unparsable}}
    BY <1>4 DEF Minimum
  <1>7. Minimums = {a \in DOMAIN seen : a.attr = "min" /\ seen[a] # Unparsable}
    BY DEF Minimums
  <1>8. \A a \in Minimums : a.res = e => a = w
    BY <1>3, <1>4, <1>7
  <1>9. CASE w \in Minimums
    <2>1. seen[w] \in Minimum(e)
      BY <1>6, <1>7, <1>9
    <2>2. e \in DOMAIN M /\ M[e] = seen[w]
      BY <1>2, <1>5, <1>9
    <2> QED BY <2>1, <2>2
  <1>10. CASE w \notin Minimums
    <2>1. Minimum(e) = {}
      BY <1>5, <1>6, <1>7, <1>10
    <2>2. e \notin DOMAIN M
      BY <1>2, <1>8, <1>10
    <2> QED BY <2>1, <2>2
  <1> QED BY <1>9, <1>10

LEMMA MinimumsOwn ==
    ASSUME PolicyInv
    PROVE  OwnMinimum
  <1> SUFFICES ASSUME pc = "done", NEW key \in QuotaKeys
               PROVE  LET entries == Specificity(key)
                          written == {i \in DOMAIN entries : Minimum(entries[i]) # {}}
                      IN  IF written = {} THEN MinFor(key) = 0
                          ELSE MinFor(key) \in Minimum(entries[Min(written)])
    BY DEF OwnMinimum
  <1>1. Looked = DOMAIN seen
    BY DEF PolicyInv, NotesOK, Looked
  <1>2. PICK M : M = heap[out.min].min
    OBVIOUS
  <1>3. PICK S : S = Specificity(key)
    OBVIOUS
  <1>4. DOMAIN S \in SUBSET Nat
    <2>1. PICK E : E = S \o <<DefaultKey>>
      OBVIOUS
    <2> QED BY <1>3, <2>1, EntriesFacts, SMTT(60)
  <1>5. \A e : (Minimum(e) # {} <=> e \in DOMAIN M) /\ (e \in DOMAIN M => M[e] \in Minimum(e))
    BY <1>1, <1>2, MinimumFacts
  <1>6. PICK written : written = There(M, S)
    OBVIOUS
  <1>7. written = {i \in DOMAIN S : Minimum(S[i]) # {}} /\ written \in SUBSET Nat
    BY <1>4, <1>5, <1>6 DEF There
  <1>8. MinFor(key) = IF written = {} THEN 0 ELSE M[S[Min(written)]]
    BY <1>2, <1>3, <1>6 DEF MinFor, FirstIn, There
  <1>9. CASE written = {}
    BY <1>3, <1>7, <1>8, <1>9
  <1>10. CASE written # {}
    <2>1. Min(written) \in written
      BY <1>7, <1>10, MinFacts
    <2>2. PICK m \in written : m = Min(written)
      BY <2>1
    <2>3. M[S[m]] \in Minimum(S[m])
      BY <1>5, <1>6, <2>2 DEF There
    <2> QED BY <1>3, <1>7, <1>8, <1>10, <2>2, <2>3
  <1> QED BY <1>9, <1>10

\* A spelling is overridden where a newer one has the entry.
LEMMA OverriddenFacts ==
    ASSUME FromOK, Looked = DOMAIN seen, NEW a
    PROVE  /\ a.attr = "increment" => (Overridden(a) <=> suffixKey(a) \in DOMAIN from["headroom"])
           /\ a.attr = "threshold" =>
                 (Overridden(a) <=> suffixKey(a) \in DOMAIN from["headroom"] \cup DOMAIN from["increment"])
  <1>1. \A s \in {"headroom", "increment"} :
           DOMAIN from[s] = {suffixKey(b) : b \in {b \in DOMAIN seen : b.attr = s /\ Accepted(s, seen[b])}}
    BY SpellingFacts DEF FromOK, Heard
  <1>2. CASE a.attr = "increment"
    <2>1. Overridden(a) <=> \E b \in DOMAIN seen : /\ b.attr = "headroom" /\ suffixKey(b) = suffixKey(a)
                                                   /\ Accepted(b.attr, seen[b])
      BY <1>2 DEF Overridden
    <2> QED BY <1>1, <1>2, <2>1
  <1>3. CASE a.attr = "threshold"
    <2>1. Overridden(a) <=> \E b \in DOMAIN seen : /\ b.attr \in {"headroom", "increment"}
                                                   /\ suffixKey(b) = suffixKey(a)
                                                   /\ Accepted(b.attr, seen[b])
      BY <1>3 DEF Overridden
    <2> QED BY <1>1, <1>3, <2>1
  <1> QED BY <1>2, <1>3

LEMMA WarningsExact ==
    ASSUME PolicyInv
    PROVE  WarnedExactly
  <1> SUFFICES ASSUME pc = "done"
               PROVE  warned =
                        {Rejected(a) : a \in {a \in DOMAIN seen : ~Accepted(a.attr, seen[a])}}
                          \cup {Deprecated(suffixKey(a), a.attr) :
                                  a \in {a \in DOMAIN seen : /\ a.attr \in {"increment", "threshold"}
                                                             /\ Accepted(a.attr, seen[a]) /\ ~Overridden(a)}}
    BY DEF WarnedExactly
  <1>1. FromOK /\ Looked = DOMAIN seen /\ warned = Rejections \cup Deprecations
    BY DEF PolicyInv, NotesOK, Looked, WarnOK
  <1>2. Rejections = {Rejected(a) : a \in {a \in DOMAIN seen : ~Accepted(a.attr, seen[a])}}
    BY <1>1 DEF Rejections
  <1> DEFINE Live(s) == {a \in DOMAIN seen : a.attr = s /\ Accepted(a.attr, seen[a]) /\ ~Overridden(a)}
  <1>3. \A s \in {"increment", "threshold"} :
           DOMAIN from[s] = {suffixKey(b) : b \in {b \in DOMAIN seen : b.attr = s /\ Accepted(s, seen[b])}}
    BY <1>1, SpellingFacts DEF FromOK, Heard
  <1>4. DOMAIN from["increment"] \ DOMAIN from["headroom"] = {suffixKey(a) : a \in Live("increment")}
    BY <1>1, <1>3, OverriddenFacts
  <1>5. DOMAIN from["threshold"] \ (DOMAIN from["headroom"] \cup DOMAIN from["increment"])
          = {suffixKey(a) : a \in Live("threshold")}
    BY <1>1, <1>3, OverriddenFacts
  <1>6. Deprecations = {Deprecated(res, "increment") : res \in {suffixKey(a) : a \in Live("increment")}}
                 \cup {Deprecated(res, "threshold") : res \in {suffixKey(a) : a \in Live("threshold")}}
    BY <1>4, <1>5 DEF Deprecations
  <1>7. Deprecations = {Deprecated(suffixKey(a), a.attr) : a \in Live("increment") \cup Live("threshold")}
    BY <1>6
  <1>8. Live("increment") \cup Live("threshold")
          = {a \in DOMAIN seen : /\ a.attr \in {"increment", "threshold"}
                                 /\ Accepted(a.attr, seen[a]) /\ ~Overridden(a)}
    OBVIOUS
  <1> QED BY <1>1, <1>2, <1>7, <1>8

LEMMA OptOuts ==
    ASSUME PolicyInv
    PROVE  OptOutOnly
  BY DEF PolicyInv, NotesOK, Looked, SwitchOK, OptOutOnly

-----------------------------------------------------------------------------
(* The theorems *)

LEMMA PolicyStays == Spec => []PolicyInv
  <1>1. Init => PolicyInv
    BY PolicyInit
  <1>2. PolicyInv /\ [Next]_vars => PolicyInv'
    BY PolicyInductive
  <1> QED BY <1>1, <1>2, PTL DEF Spec

\* Whatever annotations are written, ParsePolicy hands sizing.Decide a policy
\* it can work with: the ranges parseScalar and ParsePolicy test are enough.
THEOREM PolicyStaysReady == Spec => []SizingReady
  <1>1. PolicyInv => SizingReady
    BY ReadyAlways
  <1> QED BY <1>1, PolicyStays, PTL

\* The most specific entry decides a headroom, the newest spelling within it,
\* in whatever order the map yields the annotations and whatever other
\* namespaces were parsed before (ParsePolicy, HeadroomFor).  The one exception
\* is a namespace that writes both headroom and default-headroom: the order
\* decides between those two.
THEOREM MostSpecificAlwaysWins == Spec => []MostSpecificWins
  <1>1. PolicyInv => MostSpecificWins
    BY SpecificWins
  <1> QED BY <1>1, PolicyStays, PTL

\* A minimum comes from the annotations of the namespace itself: copyQuantityMap
\* keeps every ParsePolicy from the maps of the others (MinFor).
THEOREM MinimumStaysOwn == Spec => []OwnMinimum
  <1>1. PolicyInv => OwnMinimum
    BY MinimumsOwn
  <1> QED BY <1>1, PolicyStays, PTL

\* A namespace can turn shrinking off and never on (parseShrinkOptOut).
THEOREM ShrinkingNeverOptedIn == Spec => []OptOutOnly
  <1>1. PolicyInv => OptOutOnly
    BY OptOuts
  <1> QED BY <1>1, PolicyStays, PTL

\* ParsePolicy warns of each value that failed validation and of each deprecated
\* spelling that was honoured, and of nothing else.
THEOREM WarningsStayExact == Spec => []WarnedExactly
  <1>1. PolicyInv => WarnedExactly
    BY WarningsExact
  <1> QED BY <1>1, PolicyStays, PTL
=============================================================================
