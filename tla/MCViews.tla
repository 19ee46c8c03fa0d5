------------------------------ MODULE MCViews -------------------------------
(* A call log with every kind of ending, two models beyond the top two, a    *)
(* row that ended without a status, and an agent whose parent is gone.       *)
EXTENDS Integers, TLC

By(model, user) == ("model" :> model) @@ ("user" :> user)
Arrival(ts, model, user, session, agent, parent) ==
    [ts |-> ts, by |-> By(model, user), session |-> session, agent |-> agent, parent |-> parent]
SmallArrivals ==
    {Arrival(0, 1, 1, "s", "", ""), Arrival(2, 0, 0, "", "", ""),
     Arrival(3, 5, 1, "s", "deep", "sub")}
End(status, err, cost) ==
    [status |-> status, err |-> err, cost |-> cost, input |-> 2 * cost, cached |-> cost,
     output |-> cost, latency |-> cost]
SmallEndings ==
    {End(200, "", 1), End(200, "stream_error", 2), End(429, "", 0), End(500, "", 0),
     End(429, "rate_limited", 0), End(402, "budget_exceeded", 0), End(499, "client_gone", 3),
     End(502, "transport_error", 0), End(403, "model_not_allowed", 0)}
SmallLogged ==
    {<<>>, <<Arrival(1, 3, 2, "s", "lost", "gone") @@ End(200, "", 2),
             Arrival(2, 1, 1, "", "", "") @@ End(0, "", 0),
             Arrival(1, 2, 2, "s", "sub", "") @@ End(500, "", 0)>>}
SmallDepth == [a \in {"", "gone", "lost", "sub", "deep"} |->
                  IF a \in {"lost", "sub"} THEN 1 ELSE IF a = "deep" THEN 2 ELSE 0]
SmallCallIds == {4, 5}
SmallDimensions == {"model", "user"}
SmallScopes == {[user |-> 0, filter |-> <<>>], [user |-> 1, filter |-> "model" :> {1, 2}]}
SmallWindows == {<<0, 4>>, <<1, 3>>}
=============================================================================
