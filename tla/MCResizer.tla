------------------------------ MODULE MCResizer ------------------------------
(* Resizer on small instances.                                             *)
EXTENDS Resizer

\* One quota, web/limits.
OneQuota == {[ns |-> <<"web">>, name |-> <<"limits">>]}

\* Quota b of namespace team-a, and quota a-b of namespace team.
CollidingQuotas == {[ns |-> <<"team", "a">>, name |-> <<"b">>],
                    [ns |-> <<"team">>, name |-> <<"a", "b">>]}
=============================================================================
