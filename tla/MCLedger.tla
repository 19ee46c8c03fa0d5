------------------------------ MODULE MCLedger ------------------------------
(* The plans are the writes of proxy.go and websocket.go for one call.     *)
EXTENDS Ledger

CONSTANTS c1, c2

Denied == <<"create", "finalize">>
Captured == <<"create", "payload", "finalize", "composition", "payload">>
DeniedCaptured == <<"create", "finalize", "payload">>
WebSocket == <<"upsert">>
Flush == <<"barrier">>

AllPlans == {Captured, WebSocket, Flush}
Bodies == [c \in Calls |-> IF c = c1 THEN 3 ELSE 1]
=============================================================================
