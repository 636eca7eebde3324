-------------------------- MODULE MCNackRequester --------------------------
(* The numbers wrap around after the third packet; a jump of four exceeds  *)
(* the two places of the list; the age limit is reached.                   *)
EXTENDS NackRequester
============================================================================
