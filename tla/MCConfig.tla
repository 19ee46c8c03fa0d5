------------------------------ MODULE MCConfig ------------------------------
(* A small configuration: one provider that takes its prices from its maker, *)
(* a rehost of the same models, two wires, and what administrators, the      *)
(* price feed and the next release may do to it.                             *)
EXTENDS Config

SmallCatalogIds == {"maker", "rehost"}
SmallMapped == SmallCatalogIds
SmallRehosts == {"rehost"}
SmallIdRank == [i \in SmallCatalogIds |-> IF i = "maker" THEN 2 ELSE 1]
SmallUndated == [m \in 1..3 |-> IF m = 3 THEN 1 ELSE m]
SmallWires == {"chat", "messages"}
SmallProxyIds == {"x"}
SmallProxySettings == {"s2"}

Route == [on |-> TRUE, priority |-> Inherit, weight |-> Inherit]
Typed(cost, override) == [cost |-> cost, override |-> override] @@ Route
Provider(name, catalog, key) ==
    [name |-> name, enabled |-> TRUE, key |-> key, catalog |-> catalog, proxy |-> NoProxy,
     priority |-> 0, weight |-> 1]
TwoWires == ("chat" :> [origin |-> 1, adapter |-> "openai-compatible"])
            @@ ("messages" :> [origin |-> 1, adapter |-> "anthropic-compatible"])
Typo == "caht" :> [origin |-> 1, adapter |-> "openai-compatible"]

SmallSaved ==
    [rows |-> 0 :> [Provider(<<"acme">>, "maker", TRUE) EXCEPT !.proxy = "x"],
     models |-> 0 :> (1 :> Typed(0, FALSE) @@ 2 :> Typed(0, FALSE)),
     endpoints |-> 0 :> TwoWires,
     proxies |-> "x" :> "s1",
     feed |-> "maker" :> (1 :> 2 @@ 2 :> 3)]
SmallDrafts ==
    {[row |-> Provider(<<"acme", "anthropic">>, NoCatalog, TRUE),
      models |-> 3 :> Typed(0, FALSE), endpoints |-> TwoWires],
     [row |-> Provider(<<"half">>, NoCatalog, FALSE),
      models |-> 1 :> Typed(3, TRUE), endpoints |-> TwoWires]}
SmallPatches ==
    {[row |-> [name |-> <<>>]],
     [row |-> [proxy |-> NoProxy, weight |-> 0], endpoints |-> Typo],
     [row |-> [enabled |-> FALSE, priority |-> 1], models |-> 2 :> Typed(-1, TRUE)]}
SmallRoutePatches == {[on |-> FALSE, priority |-> 5]}
SmallQuotes == {"maker" :> (1 :> 2), "maker" :> (1 :> 99 @@ 2 :> 3)}
SmallCatalogues ==
    <<[generated |-> "maker" :> (1 :> 1), manual |-> "rehost" :> (3 :> 0)],
      [generated |-> "maker" :> (1 :> 1), manual |-> "maker" :> (1 :> 7)]>>
=============================================================================
