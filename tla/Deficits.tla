------------------------------ MODULE Deficits ------------------------------
(***************************************************************************)
(* From FailedCreate events and Pod templates to the deficit of every key  *)
(* of a quota: internal/sizing/deficit.go, calculateWorkloadDeficit,       *)
(* collectDeficits and resolveQuotaKey.  Amounts are milli-units.  A       *)
(* resource list is a function from resource names to amounts; the name of *)
(* an object is the sequence of its '-'-separated segments.                *)
(***************************************************************************)
EXTENDS Integers, Sequences, FiniteSets, SequencesExt, FiniteSetsExt, Functions

CONSTANTS
    Workloads,   \* the objects of the namespace that create Pods
    Kind, Name,  \* kind and name of each
    Template     \* its Pod template: containers, init containers, claims

Sides == {"requests", "limits"}

\* What a container may name (gpu stands for any extended resource), and the
\* kinds of objects that create Pods.
ContainerResources == {"cpu", "memory", "ephemeral-storage", "gpu"}
Kinds == {"StatefulSet", "DaemonSet", "ReplicaSet", "Job"}

IsResourceList(list, names) ==
    DOMAIN list \subseteq names /\ \A res \in DOMAIN list : list[res] \in Nat

\* The API server admits no other workloads.
ASSUME WorkloadAssumption ==
    /\ IsFiniteSet(Workloads)
    /\ \A w \in Workloads :
          /\ Kind[w] \in Kinds
          /\ \A part \in {"containers", "init", "claims"} : IsFiniteSet(DOMAIN Template[w][part])
          /\ \A c \in Range(Template[w].containers) \cup Range(Template[w].init), side \in Sides :
                IsResourceList(c[side], ContainerResources)
          /\ \A c \in Range(Template[w].claims) : IsResourceList(c, {"storage"})

\* The quota key that charges a container's resource; other names stay.
LongKey ==
    [requests |-> [cpu |-> "requests.cpu", memory |-> "requests.memory",
                   storage |-> "requests.storage"],
     limits   |-> [cpu |-> "limits.cpu", memory |-> "limits.memory"]]

keyOf(side, res) == IF res \in DOMAIN LongKey[side] THEN LongKey[side][res] ELSE res

\* The entries of a container's resources, and those under key k.
Entries(c) == {e \in Sides \X UNION {DOMAIN c[s] : s \in Sides} : e[2] \in DOMAIN c[e[1]]}

Under(c, k) == {e \in Entries(c) : keyOf(e[1], e[2]) = k}

\* addResources: requests and limits that share a key are added up.
AppAmount(c, k) == SumFunction([e \in Under(c, k) |-> c[e[1]][e[2]]])

\* addInit: the limit overwrites a request of the same key.
InitAmount(c, k) ==
    LET under == Under(c, k)
        side  == IF \E e \in under : e[1] = "limits" THEN "limits" ELSE "requests"
    IN  Max({c[side][e[2]] : e \in {e \in under : e[1] = side}} \cup {0})

\* max(sum(app containers), max(init containers)) per key.
PodRequests(spec, k) ==
    Max({SumFunction([i \in DOMAIN spec.containers |-> AppAmount(spec.containers[i], k)])}
            \cup {InitAmount(spec.init[i], k) : i \in DOMAIN spec.init})

\* The storage all volume claim templates ask for.
PVCRequests(claims, k) ==
    LET under(c) == {res \in DOMAIN c : keyOf("requests", res) = k}
    IN  SumFunction([i \in DOMAIN claims |->
                        SumFunction([res \in under(claims[i]) |-> claims[i][res]])])

\* Every key one of the Pods of w, or its claims, come under.
RequestKeys(w) ==
    LET t == Template[w]
    IN  {keyOf(e[1], e[2]) : e \in UNION {Entries(c) : c \in Range(t.containers) \cup Range(t.init)}}
          \cup {keyOf("requests", res) : res \in UNION {DOMAIN c : c \in Range(t.claims)}}

-----------------------------------------------------------------------------
\* The last segment of the involved object's name is taken off.
WorkloadKey(name) == IF Len(name) = 1 THEN name ELSE Front(name)

\* The keys of a quota, in the order a message lists those that are exceeded.
KeyOrder ==
    <<"cpu", "limits.cpu", "limits.memory", "memory", "requests.cpu", "requests.gpu",
      "requests.memory", "requests.storage">>

\* Only the first one is read.
ParseEventMessage(evt) ==
    KeyOrder[Min({i \in DOMAIN KeyOrder : KeyOrder[i] \in DOMAIN evt.requested})]

\* What one replica asks for: its Pod, and the claims of a StatefulSet.
PerReplica ==
    [w \in Workloads |->
        [k \in RequestKeys(w) |-> PodRequests(Template[w], k) + PVCRequests(Template[w].claims, k)]]

\* Mutant: one Pod whatever is missing.
applySmartCalculation_OnePod(w, missing) == PerReplica[w]

\* Multiplied by the missing replicas.
applySmartCalculation(w, missing) == [k \in DOMAIN PerReplica[w] |-> missing * PerReplica[w][k]]

\* What the event asks for: from the template when the object could be read
\* and lacks replicas, else the one resource and amount of the message.
calculateWorkloadDeficit(evt, readable, missing) ==
    LET w == evt.workload
        r == ParseEventMessage(evt)
    IN  IF Kind[w] \in {"StatefulSet", "DaemonSet", "ReplicaSet"} /\ w \in readable /\ missing[w] > 0
        THEN applySmartCalculation(w, missing[w])
        ELSE [res \in {r} |-> evt.requested[res]]

\* The short and the long name of one resource.
Aliases ==
    {<<"cpu", "requests.cpu">>, <<"memory", "requests.memory">>, <<"storage", "requests.storage">>}

\* Mutant: no alias is tried.
resolveQuotaKey_Exact(hard, res) == IF res \in DOMAIN hard THEN {res} ELSE {}

\* The key of the quota the resource counts under: none or one.
resolveQuotaKey(hard, res) ==
    IF res \in DOMAIN hard THEN {res}
    ELSE {k \in DOMAIN hard : <<res, k>> \in Aliases \/ <<k, res>> \in Aliases}

\* Mutant: every event of a workload counts.
PerWorkload_Accumulated(found, res, key) ==
    SumFunction([f \in {f \in found : f.key = key /\ res \in DOMAIN f.deficits} |->
                    f.deficits[res]])

\* The maximum over the events of one workload.
PerWorkload(found, res, key) ==
    Max({f.deficits[res] : f \in {f \in found : f.key = key /\ res \in DOMAIN f.deficits}} \cup {0})

\* The maximum per workload, summed over the workloads, under the quota's keys.
collectDeficits(hard, events, readable, missing) ==
    LET found == {[key |-> WorkloadKey(Name[e.workload]), evt |-> e,
                   deficits |-> calculateWorkloadDeficit(e, readable, missing)] : e \in events}
        names == UNION {DOMAIN f.deficits : f \in found}
        total(res) == SumFunction([key \in {f.key : f \in found} |-> PerWorkload(found, res, key)])
        under(k) == {res \in names : k \in resolveQuotaKey(hard, res)}
    IN  [k \in DOMAIN hard |-> SumFunction([res \in under(k) |-> total(res)])]
=============================================================================
