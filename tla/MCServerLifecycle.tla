------------------------- MODULE MCServerLifecycle -------------------------
(***************************************************************************)
(* Small instance of ServerLifecycle: two requests, to either server.      *)
(***************************************************************************)
EXTENDS ServerLifecycle

CONSTANTS r1, r2

MCRequests == {r1, r2}

=============================================================================
