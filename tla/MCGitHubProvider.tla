-------------------------- MODULE MCGitHubProvider --------------------------
(* GitHubProvider in small repositories.                                   *)
EXTENDS GitHubProvider, TLC

\* Quota compute of namespace team-a, and quota a-compute of namespace team.
compute == [ns |-> <<"team", "a">>, name |-> <<"compute">>]
aCompute == [ns |-> <<"team">>, name |-> <<"a", "compute">>]
TwoQuotas == {compute, aCompute}

\* A file per quota, next to one of a quota nobody resizes, which also holds a
\* role, and before them a file without quotas whose LimitRange is called like one.
pods == [ns |-> <<"team">>, name |-> <<"pods">>]
OwnFiles == [compute |-> {compute}] @@ ("a-compute" :> {aCompute}) @@ [pods |-> {pods}, ranges |-> {}]
OwnObjects == [compute |-> {}] @@ ("a-compute" :> {<<"a", "compute", "viewer">>})
              @@ [pods |-> {<<"a", "viewer">>}, ranges |-> {<<"a", "compute">>}]
OwnDirs == (<<"team", "a">> :> <<"compute">>) @@ (<<"team">> :> <<"ranges", "pods", "a-compute">>)

\* One file for all quotas of a namespace.
SharedFile == [quotas |-> {aCompute, pods}] @@ [compute |-> {compute}]
SharedObjects == [quotas |-> {}, compute |-> {}]
SharedDirs == (<<"team", "a">> :> <<"compute">>) @@ (<<"team">> :> <<"quotas">>)

\* From before the upgrade: resize/team-a-compute-1700000000, a shrink.
OldShrink == <<[quota |-> compute, dir |-> "shrink", labels |-> <<"shrink">>]>>
=============================================================================
