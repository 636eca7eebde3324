----------------------------- MODULE MCShutdown -----------------------------
(* Two signaling workers and an RTC worker, two signals that interrupt     *)
(* each other and come again, and a request under way while they stop.     *)
EXTENDS Shutdown

MCSigWorkers == <<"sw1", "sw2">>
MCRtcWorkers == <<"rw1">>
=============================================================================
