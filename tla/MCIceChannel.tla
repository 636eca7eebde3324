---- MODULE MCIceChannel ----
(* Two remote addresses of equal priority, so that connections differ by   *)
(* their state and their round-trip time.                                  *)
EXTENDS IceChannel

CONSTANTS a1, a2

MCPriority == a1 :> 1 @@ a2 :> 1
====
