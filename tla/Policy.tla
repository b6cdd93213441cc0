------------------------------- MODULE Policy -------------------------------
(***************************************************************************)
(* sizing.Policy: what the annotations of a namespace make of the global   *)
(* defaults (internal/sizing/policy.go).  One ParsePolicy after the other  *)
(* goes over the annotations of some namespace in the order the Go map     *)
(* yields, and all start from the one BasePolicy of the process, whose     *)
(* maps are references.  Fractions are percentages.                        *)
(***************************************************************************)
EXTENDS Integers, Sequences, FiniteSetsExt, Functions

CONSTANTS
    Namespaces,
    QuotaKeys,     \* keys of quotas: [scope, measure], each the words of the
                   \* key in front of and behind its last '/'
    Annotations,   \* names under resizer.io/: [res, attr], res the words of
                   \* the resource, none in a bare name
    Values,        \* for every attr the values somebody may write
    Unparsable,    \* a value that does not parse
    Minute, Day,   \* of time.Duration
    MaxDuration,   \* the largest Duration: 106751 days and a bit
    MaxEdits       \* bound: how often somebody edits an annotation

\* Attributes that stand behind a resource or alone, those of numbers that
\* stand alone, and those of words.
Spellings == <<"headroom", "increment", "threshold">>
Scalars == {"tolerance", "max-shrink-step", "window-days", "shrink-cooldown-days",
            "shrink-pr-ttl-days", "cooldown-minutes"}
Switches == {"enabled", "shrink-enabled"}

ASSUME PolicyAssumption ==
    /\ QuotaKeys \subseteq [scope : Seq(STRING), measure : Seq(STRING)]
    /\ Annotations \subseteq [res : Seq(STRING), attr : Range(Spellings)]
                      \cup [res : Seq(STRING) \ {<<>>}, attr : {"min"}]
                      \cup [res : {<<>>}, attr : Scalars \cup Switches]
    /\ Unparsable \notin Int
    /\ \A a \in Annotations : a.attr \notin Switches =>
          Values[a.attr] \subseteq Int \cup {Unparsable}
    /\ MaxEdits \in Nat
    /\ Minute \in Nat \ {0} /\ Day = 1440 * Minute
    /\ MaxDuration \in Nat /\ 7 * Day <= MaxDuration

VARIABLES
    enableShrink, \* --enable-shrink, as the process was started
    annotations,  \* of every namespace
    heap,         \* the maps: those of BasePolicy, and those of ParsePolicy's out
    out,          \* the Policy under construction, its maps by reference
    todo,         \* annotations not yet looked at
    from,         \* fromHeadroom, fromIncrement, fromThreshold
    warned,       \* warnings so far
    seen,         \* the annotations this ParsePolicy was called with
    pc, edits

vars == <<enableShrink, annotations, heap, out, todo, from, warned, seen, pc, edits>>

\* Maps.
Empty == <<>>
Without(f, k) == [x \in DOMAIN f \ {k} |-> f[x]]
With(f, k, v) == [x \in DOMAIN f \cup {k} |-> IF x = k THEN v ELSE f[x]]
Over(f, g) == [x \in DOMAIN f \cup DOMAIN g |-> IF x \in DOMAIN f THEN f[x] ELSE g[x]]

DefaultKey == <<"default">>

DefaultPolicy ==
    [headroom |-> "base", min |-> "base", tolerance |-> 15, windowDays |-> 14,
     maxShrinkStep |-> 25, shrinkCooldown |-> 7 * Day, shrinkPRTTL |-> 7 * Day,
     growCooldown |-> 60 * Minute, enabled |-> TRUE, shrinkEnabled |-> enableShrink]

\* measureOf: a scope is not part of what a key measures, "count/" is.
measureOf(key) == IF key.scope = <<"count">> THEN key.scope \o key.measure ELSE key.measure

\* The first family the key speaks of: none or one.
Families == <<"cpu", "memory", "storage">>

resourceFamily(key) ==
    LET named == {i \in DOMAIN Families : Families[i] \in Range(measureOf(key))}
    IN  IF named = {} THEN <<>> ELSE <<Families[Min(named)]>>

\* The entries of a map that apply to a quota key, most specific first.
Specificity(key) ==
    (IF key.scope = <<>> THEN <<key.measure>> ELSE <<>>)
      \o (IF resourceFamily(key) = <<>> THEN <<>> ELSE <<resourceFamily(key)>>)

FirstIn(map, names, none) ==
    LET there == {i \in DOMAIN names : names[i] \in DOMAIN map}
    IN  IF there = {} THEN none ELSE map[names[Min(there)]]

HeadroomFor(key) == FirstIn(heap[out.headroom].headroom, Specificity(key) \o <<DefaultKey>>, 25)

MinFor(key) == FirstIn(heap[out.min].min, Specificity(key), 0)

-----------------------------------------------------------------------------
(* What values are accepted, and what they mean. *)

\* Mutant: a tolerance of 100 percent is let through.
validRange_WideTolerance(attr) ==
    CASE attr = "threshold"                              -> 1 .. 100
      [] attr = "tolerance"                              -> 0 .. 100
      [] attr = "max-shrink-step"                        -> 1 .. 99
      [] attr \in {"window-days", "shrink-pr-ttl-days"}  -> Nat \ {0}
      [] OTHER                                           -> Nat

validRange(attr) ==
    CASE attr = "threshold"                              -> 1 .. 100
      [] attr = "tolerance"                              -> 0 .. 99
      [] attr = "max-shrink-step"                        -> 1 .. 99
      [] attr \in {"window-days", "shrink-pr-ttl-days"}  -> Nat \ {0}
      [] OTHER                                           -> Nat

\* A bare name is the namespace default.
suffixKey(name) == IF name.res = <<>> THEN DefaultKey ELSE name.res

\* The headroom a value of each spelling stands for.
AsHeadroom(attr, v) == IF attr = "threshold" THEN 10000 \div v - 100 ELSE v

\* strings.EqualFold: "True" and "False" stand for every other capitalisation.
Fold(v) ==
    CASE v = "True"  -> "true"
      [] v = "False" -> "false"
      [] OTHER       -> v

Accepted(attr, v) ==
    CASE attr = "enabled"        -> TRUE
      [] attr = "shrink-enabled" -> Fold(v) \in {"true", "false"}
      [] attr = "min"            -> v # Unparsable
      [] OTHER                   -> v # Unparsable /\ v \in validRange(attr)

Rejected(name) == [kind |-> "rejected", name |-> name]
Deprecated(res, attr) == [kind |-> "deprecated", name |-> [res |-> res, attr |-> attr]]

-----------------------------------------------------------------------------
(* ParsePolicy *)

\* Mutant: the maps of the base policy are used as they are.
copyMaps_Shared ==
    /\ out' = DefaultPolicy
    /\ UNCHANGED heap

\* copyFloatMap, copyQuantityMap.
copyMaps ==
    /\ out' = [DefaultPolicy EXCEPT !.headroom = "own", !.min = "own"]
    /\ heap' = [heap EXCEPT !["own"] = heap["base"]]

Begin(ns) ==
    /\ pc = "done"
    /\ copyMaps
    /\ todo' = annotations[ns] /\ seen' = annotations[ns]
    /\ from' = [s \in Range(Spellings) |-> Empty] /\ warned' = {}
    /\ pc' = "scan"
    /\ UNCHANGED <<enableShrink, annotations, edits>>

\* Mutant: the annotation says whether to shrink, whatever the flag says.
parseShrinkOptOut_OptIn(was, v) == Fold(v) = "true"

\* Whether shrinking stays on: "true" leaves it as it was, any other value
\* switches it off.
parseShrinkOptOut(was, v) == was /\ Fold(v) = "true"

\* So many units as a Duration, which wraps around.
Duration(v, unit) == ((v * unit + MaxDuration + 1) % (2 * (MaxDuration + 1))) - (MaxDuration + 1)

\* What an accepted value makes of the policy; an opt-out applies, accepted or
\* not.
Applied(attr, v) ==
    CASE attr = "tolerance"            -> [out EXCEPT !.tolerance = v]
      [] attr = "max-shrink-step"      -> [out EXCEPT !.maxShrinkStep = v]
      [] attr = "window-days"          -> [out EXCEPT !.windowDays = v]
      [] attr = "shrink-cooldown-days" -> [out EXCEPT !.shrinkCooldown = Duration(v, Day)]
      [] attr = "shrink-pr-ttl-days"   -> [out EXCEPT !.shrinkPRTTL = Duration(v, Day)]
      [] attr = "cooldown-minutes"     -> [out EXCEPT !.growCooldown = Duration(v, Minute)]
      [] attr = "enabled"              -> [out EXCEPT !.enabled = (v # "false")]
      [] attr = "shrink-enabled"       ->
             [out EXCEPT !.shrinkEnabled = parseShrinkOptOut(@, v)]

parseScalar(name, v) ==
    IF name.attr = "min"
    THEN heap' = [heap EXCEPT ![out.min].min = With(@, name.res, v)] /\ UNCHANGED out
    ELSE out' = Applied(name.attr, v) /\ UNCHANGED heap

\* Mutant: what is rejected is dropped silently.
Warn_Never(name, v) == UNCHANGED warned

Warn(name, v) ==
    warned' = IF Accepted(name.attr, v) THEN warned ELSE warned \cup {Rejected(name)}

\* One turn of the loop over the annotations.
LookAt(name) ==
    LET v == todo[name]
    IN  /\ pc = "scan"
        /\ todo' = Without(todo, name)
        /\ Warn(name, v)
        /\ CASE name.attr \in Range(Spellings) /\ Accepted(name.attr, v) ->
                    /\ from' = [from EXCEPT ![name.attr] =
                                   With(@, suffixKey(name), AsHeadroom(name.attr, v))]
                    /\ UNCHANGED <<heap, out>>
             [] name.attr \notin Range(Spellings)
                  /\ (Accepted(name.attr, v) \/ name.attr = "shrink-enabled") ->
                    parseScalar(name, v) /\ UNCHANGED from
             [] OTHER -> UNCHANGED <<heap, out, from>>
        /\ UNCHANGED <<enableShrink, annotations, seen, pc, edits>>

\* Mutant: the deprecated spellings are applied last.
Precedence_DeprecatedWin == Over(from["threshold"], Over(from["increment"], from["headroom"]))

\* headroom > increment > threshold.
Precedence == Over(from["headroom"], Over(from["increment"], from["threshold"]))

\* The loops over the three collections.
Finish ==
    /\ pc = "scan" /\ todo = Empty
    /\ heap' = [heap EXCEPT ![out.headroom].headroom = Over(Precedence, @)]
    /\ warned' = warned
         \cup {Deprecated(res, "increment") : res \in DOMAIN from["increment"] \ DOMAIN from["headroom"]}
         \cup {Deprecated(res, "threshold") : res \in DOMAIN from["threshold"]
                                                \ (DOMAIN from["headroom"] \cup DOMAIN from["increment"])}
    /\ pc' = "done"
    /\ UNCHANGED <<enableShrink, annotations, out, todo, from, seen, edits>>

-----------------------------------------------------------------------------
\* Somebody writes or removes an annotation.  ParsePolicy works on the object
\* it was given, so between two calls is often enough.
Annotate(ns, name) ==
    /\ pc = "done" /\ edits < MaxEdits /\ edits' = edits + 1
    /\ \/ \E v \in Values[name.attr] :
             annotations' = [annotations EXCEPT ![ns] = With(@, name, v)]
       \/ /\ name \in DOMAIN annotations[ns]
          /\ annotations' = [annotations EXCEPT ![ns] = Without(@, name)]
    /\ UNCHANGED <<enableShrink, heap, out, todo, from, warned, seen, pc>>

BaseMaps == [headroom |-> [entry \in {DefaultKey} |-> 25], min |-> Empty]

Init ==
    /\ enableShrink \in BOOLEAN
    /\ annotations = [ns \in Namespaces |-> Empty]
    /\ heap = [ref \in {"base", "own"} |-> BaseMaps]
    /\ out = DefaultPolicy /\ todo = Empty /\ seen = Empty
    /\ from = [s \in Range(Spellings) |-> Empty] /\ warned = {}
    /\ pc = "done" /\ edits = 0

Next ==
    \/ \E ns \in Namespaces : Begin(ns)
    \/ \E name \in DOMAIN todo : LookAt(name)
    \/ Finish
    \/ \E ns \in Namespaces, name \in Annotations : Annotate(ns, name)

Spec == Init /\ [][Next]_vars

-----------------------------------------------------------------------------
\* Every number of days or minutes in the annotations is a Duration.
Fits ==
    \A a \in DOMAIN seen :
        /\ a.attr \in {"shrink-cooldown-days", "shrink-pr-ttl-days"} /\ seen[a] \in Nat =>
              seen[a] * Day <= MaxDuration
        /\ a.attr = "cooldown-minutes" /\ seen[a] \in Nat => seen[a] * Minute <= MaxDuration

\* What sizing.Decide takes for granted (SizingAssumption in Sizing) holds of
\* the policy at every point, whatever the annotations say, but for a minimum,
\* which may be negative and is then as good as none; what the cooldowns and the
\* TTL do as long as no Duration overflows.
SizingReady ==
    /\ out.tolerance \in 0 .. 99 /\ out.maxShrinkStep \in 1 .. 99
    /\ out.windowDays \in Nat \ {0}
    /\ Fits => /\ out.shrinkPRTTL \in Nat \ {0}
               /\ out.shrinkCooldown \in Nat /\ out.growCooldown \in Nat
    /\ \A key \in QuotaKeys : HeadroomFor(key) \in Nat

\* The headrooms this spelling gives an entry: two where both a bare and a
\* default- name are written.
Says(entry, attr) ==
    {AsHeadroom(attr, seen[a]) :
        a \in {a \in DOMAIN seen : a.attr = attr /\ suffixKey(a) = entry
                                     /\ Accepted(attr, seen[a])}}

\* What the newest spelling that says anything of an entry says.
Newest(entry) ==
    LET speaking == {i \in DOMAIN Spellings : Says(entry, Spellings[i]) # {}}
    IN  IF speaking = {} THEN {} ELSE Says(entry, Spellings[Min(speaking)])

\* INSTALLATION.md, the migration chain, and HeadroomFor: the most specific
\* entry decides, the newest spelling within it, a rejected value counts as not
\* written, and what other namespaces were parsed before makes no difference.
\* Nor does the order of the annotations, with one exception: where headroom and
\* default-headroom are both written (or two such names of another spelling),
\* the one the map yields last decides, and Newest has both values.
MostSpecificWins ==
    pc = "done" =>
        \A key \in QuotaKeys :
            LET entries == Specificity(key) \o <<DefaultKey>>
                written == {i \in DOMAIN entries : Newest(entries[i]) # {}}
            IN  IF written = {} THEN HeadroomFor(key) = 25
                ELSE HeadroomFor(key) \in Newest(entries[Min(written)])

\* The valid minimum written for an entry.
Minimum(entry) ==
    {seen[a] : a \in {a \in DOMAIN seen : a = [res |-> entry, attr |-> "min"]
                                            /\ seen[a] # Unparsable}}

\* OPERATIONS.md 3, "Hard floor": the minimum of a key is the one written for it
\* or its family in this namespace, and none from any other namespace.
OwnMinimum ==
    pc = "done" =>
        \A key \in QuotaKeys :
            LET entries == Specificity(key)
                written == {i \in DOMAIN entries : Minimum(entries[i]) # {}}
            IN  IF written = {} THEN MinFor(key) = 0
                ELSE MinFor(key) \in Minimum(entries[Min(written)])

\* INSTALLATION.md, "an opt-out, not an opt-in": shrinking is on exactly where
\* the flag is set and the namespace says nothing or "true" in any capitals; no
\* annotation, in this namespace or in one parsed before, switches it on against
\* the flag.
OptOutOnly ==
    pc = "done" =>
        (out.shrinkEnabled <=>
            /\ enableShrink
            /\ \A a \in DOMAIN seen : a.attr = "shrink-enabled" => Fold(seen[a]) = "true")

Overridden(a) ==
    \E b \in DOMAIN seen : /\ b.attr \in {"headroom", "increment"} \ {a.attr}
                           /\ a.attr = "increment" => b.attr = "headroom"
                           /\ suffixKey(b) = suffixKey(a) /\ Accepted(b.attr, seen[b])

\* ParsePolicy, "a warning for every annotation worth telling the operator
\* about": one for each value that failed validation, the unrecognised one that
\* switches shrinking off included, one for each deprecated spelling that was
\* honoured, and no other, in particular none for a spelling that was overridden.
WarnedExactly ==
    pc = "done" =>
        warned = {Rejected(a) : a \in {a \in DOMAIN seen : ~Accepted(a.attr, seen[a])}}
            \cup {Deprecated(suffixKey(a), a.attr) :
                    a \in {a \in DOMAIN seen : /\ a.attr \in {"increment", "threshold"}
                                               /\ Accepted(a.attr, seen[a]) /\ ~Overridden(a)}}
=============================================================================
