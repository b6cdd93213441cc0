------------------------------ MODULE MCPolicy ------------------------------
(* Policy with two namespaces and a handful of annotations and values.  A  *)
(* Duration holds two weeks, so that a TTL of 20 days overflows.           *)
EXTENDS Policy, TLC

CONSTANTS shop, lab

Key(scope, measure) == [scope |-> scope, measure |-> measure]

\* requests.cpu, limits.cpu, pods, count/storage, and the claims of a class.
MCQuotaKeys ==
    {Key(<<>>, <<"requests", "cpu">>), Key(<<>>, <<"limits", "cpu">>), Key(<<>>, <<"pods">>),
     Key(<<"count">>, <<"storage">>),
     Key(<<"gold", "storageclass", "storage">>, <<"persistentvolumeclaims">>)}

MCAnnotations ==
    ({<<>>, <<"cpu">>} \X {"headroom", "increment", "threshold"})
      \cup {<<<<"default">>, "headroom">>, <<<<"requests", "cpu">>, "threshold">>,
            <<<<"storage">>, "headroom">>}
      \cup {<<<<"cpu">>, "min">>, <<<<"limits", "cpu">>, "min">>}
      \cup ({<<>>} \X {"tolerance", "max-shrink-step", "window-days", "shrink-cooldown-days",
                       "shrink-pr-ttl-days", "cooldown-minutes", "enabled", "shrink-enabled"})

Names == {[res |-> a[1], attr |-> a[2]] : a \in MCAnnotations}

MCValues ==
    [headroom |-> {40, -1}, increment |-> {20, Unparsable}, threshold |-> {50, 0},
     min |-> {2, Unparsable}, tolerance |-> {0, 100}, enabled |-> {"false", "no"}]
      @@ ("max-shrink-step" :> {10, 0}) @@ ("window-days" :> {21, 0})
      @@ ("shrink-cooldown-days" :> {0, -1}) @@ ("shrink-pr-ttl-days" :> {3, 0, 20})
      @@ ("cooldown-minutes" :> {0, Unparsable})
      @@ ("shrink-enabled" :> {"true", "True", "false", "off"})

Symmetry == Permutations({shop, lab})
=============================================================================
