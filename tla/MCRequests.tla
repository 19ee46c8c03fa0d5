----------------------------- MODULE MCRequests -----------------------------
EXTENDS Requests

CONSTANTS a, b, u

Owner == [c \in Clients |-> u]
=============================================================================
