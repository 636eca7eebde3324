---------------------------- MODULE MCStreamStat ----------------------------
(* Numbers around the wrap-around of the number space (late, lost and      *)
(* duplicate packets) and a pair beyond the reordering threshold (restarts *)
(* there and back).                                                        *)
EXTENDS StreamStat
=============================================================================
