---------------------------- MODULE MCMigration ----------------------------
(* Databases as earlier releases left them: with services, tokens and        *)
(* payloads, with a rename cut in half, and with folded token counts over    *)
(* endpoints of three shapes.                                                *)
EXTENDS Migration, TLC

Url(host) == [host |-> host, full |-> FALSE]
Old(cols, rows) == [cols |-> cols, id |-> "INTEGER", rows |-> rows]
Upstream(host, adapter) == [base |-> Url(host), adapter |-> adapter]
SmallDefaultWires == [a \in {"openai", "anthropic"} |->
              IF a = "anthropic" THEN {"messages"} ELSE {"chat", "models"}]
SmallScale == [u \in {"per_1k", "per_call"} |-> IF u = "per_1k" THEN 3 ELSE 1]
Call(user, session, input, cached) ==
    [user |-> user, session |-> session, input |-> input, cached |-> cached, cost |-> 1]
RawCalls == <<Call("u1", "s1", 5, 0), Call("u2", "s1", 3, 0)>>
FoldedCalls == <<Call("u1", "s1", 5, 2), Call("u1", "s2", 3, 4)>>
(* Integer ids, tokens, payloads, the credential pool, no wires yet. *)
ServicesEra ==
    "services" :> Old({"base_url", "adapter"},
                      <<Upstream("h1", "openai"), Upstream("h2", "anthropic")>>)
    @@ "service_models" :> Old({}, <<[unit |-> "per_1k", rate |-> 2], [unit |-> "", rate |-> 0]>>)
    @@ "service_credentials" :> Old({}, 1 :> <<"k1", "k2">>)
    @@ "tokens" :> Old({}, [u \in {"u1", "u2"} |-> TRUE])
    @@ "calls" :> Old({"token_id"}, RawCalls)
    @@ "payloads" :> Old({}, 1 :> TRUE)
    @@ "context_composition" :> Old({}, 2 :> TRUE)
(* An interrupted rename: old tables beside new, empty ones. *)
HalfRenamed ==
    "providers" :> Table({"base_url", "adapter"}, <<Upstream("h1", "openai")>>)
    @@ "provider_models" :> Table({}, <<[unit |-> "per_call", rate |-> 2]>>)
    @@ "service_wires" :> Table({}, <<1, "chat">> :> TRUE)
    @@ "provider_wires" :> Table({}, <<>>)
    @@ "tokens" :> Table({}, "u1" :> TRUE) @@ "users" :> Table({}, <<>>)
    @@ "calls" :> Table({"token_id"}, RawCalls)
    @@ "payloads" :> Table({}, 1 :> TRUE) @@ "raw" :> Table({}, <<>>)
(* Folded token counts, a sessions rollup, endpoints that are base URLs. *)
FoldedEra(endpoints, providerCols, wires) ==
    "providers" :> Table({"api_key"} \cup providerCols,
                         <<[key |-> "k0"] @@ Upstream("h1", "openai")>>)
    @@ "provider_models" :> Table({"cost"}, <<[unit |-> "", rate |-> 0, cost |-> 4]>>)
    @@ "provider_endpoints" :> endpoints
    @@ "provider_wires" :> Table({}, [k \in {1} \X wires |-> TRUE])
    @@ "service_credentials" :> Table({}, 1 :> <<"k1">>)
    @@ "users" :> Table({}, "u1" :> TRUE)
    @@ "calls" :> Table({"user_id", "cached_tokens"}, FoldedCalls)
    @@ "sessions" :> Table({}, [s \in {"s1", "s2"} |-> 5])
BaseUrls == Table({"base_url", "adapter"},
                  <<1, "chat">> :> [url |-> Url("h3"), adapter |-> "anthropic"])
FullUrls == Table({"endpoint", "adapter"},
                  <<1, "models">> :> [url |-> Url("h3"), adapter |-> "openai"])
SmallEras ==
    {<<>>, ServicesEra, HalfRenamed,
     FoldedEra(BaseUrls, {"base_url", "adapter"}, {"chat", "models"}),
     FoldedEra(BaseUrls, {}, {"chat"}),
     FoldedEra(BaseUrls, {}, {"chat", "models"}),
     FoldedEra(FullUrls, {}, {"chat", "models"})}
=============================================================================
