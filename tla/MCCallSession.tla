--------------------------- MODULE MCCallSession ---------------------------
(* One call between two peers. *)
EXTENDS CallSession
=============================================================================
