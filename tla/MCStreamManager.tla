-------------------------- MODULE MCStreamManager --------------------------
(* Two users of one stream name in both modes.  A push and two pulls are   *)
(* enough for one stream to displace another; kDisconnected is left out of *)
(* the reports, the code treats it like kConnecting.                       *)
EXTENDS StreamManager
============================================================================
