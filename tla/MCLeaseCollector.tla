-------------------------- MODULE MCLeaseCollector --------------------------
(* LeaseCollector on a small instance.                                     *)
EXTENDS LeaseCollector

\* One quota, web/limits.
OneQuota == {[ns |-> <<"web">>, name |-> <<"limits">>]}
=============================================================================
