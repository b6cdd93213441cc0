--------------------------- MODULE MCShortageLoop ---------------------------
(* ShortageLoop with workloads of several kinds and shapes.                *)
EXTENDS ShortageLoop, TLC

CONSTANTS api, db, batch, train

Cpu(amount) == [requests |-> [cpu |-> amount], limits |-> [cpu |-> amount]]

\* A ReplicaSet of two containers and a StatefulSet with claims and an init
\* container larger than its Pod, whose names share a key; a Job; and a
\* ReplicaSet that asks for an extended resource.
MCKind == (api :> "ReplicaSet") @@ (db :> "StatefulSet") @@ (batch :> "Job")
            @@ (train :> "ReplicaSet")
MCName == (api :> <<"app", "5d7">>) @@ (db :> <<"app", "db">>) @@ (batch :> <<"batch">>)
            @@ (train :> <<"train", "7f9">>)
MCTemplate ==
    (api :> [containers |-> <<Cpu(2), Cpu(1)>>, init |-> <<>>, claims |-> <<>>])
      @@ (db :> [containers |-> <<Cpu(3)>>, init |-> <<Cpu(4)>>, claims |-> <<[storage |-> 5]>>])
      @@ (batch :> [containers |-> <<Cpu(6)>>, init |-> <<>>, claims |-> <<>>])
      @@ (train :> [containers |-> <<[requests |-> [gpu |-> 4], limits |-> [gpu |-> 4]]>>,
                    init |-> <<>>, claims |-> <<>>])

\* A quota that uses the short name of a request.
MCResources == {"cpu", "requests.storage"}
MCHard == [cpu |-> 6] @@ ("requests.storage" :> 5)

\* A quota on an extended resource.
GpuOnly == {"requests.gpu"}
GpuHard == "requests.gpu" :> 6

ScaledTo == {Deleted, 0, 2}

MCHeadroom == [r \in Resources |-> 25]
\* A minimum for claims above the limit they start with.
ClaimMinimum == [r \in Resources |-> IF r = "requests.storage" THEN 6 ELSE 0]
NoMinimum == [r \in Resources |-> 0]
CoarseGranule == [r \in Resources |-> 8]
Amd64 == MinInt
FineGranule == [r \in Resources |-> 1]
=============================================================================
