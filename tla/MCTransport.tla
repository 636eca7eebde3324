---------------------------- MODULE MCTransport ----------------------------
(* Two fingerprints that peers have and one of the wrong length: a first   *)
(* answer, a second one, and one that fails.                               *)
EXTENDS Transport
============================================================================
