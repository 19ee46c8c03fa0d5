------------------------------- MODULE MCGate -------------------------------
(* Small instances of Gate: the callers and limits are in the .cfg files. *)
EXTENDS Gate
=============================================================================
