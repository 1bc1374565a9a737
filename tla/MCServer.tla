------------------------------ MODULE MCServer ------------------------------
(* Server for two requests: one may wait for, fail because of, or overtake the other. *)
EXTENDS Server

CONSTANTS r1, r2
MCRequests == {r1, r2}
=============================================================================
