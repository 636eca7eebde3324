----------------------------- MODULE MCReports -----------------------------
(* What the server reports to a pushing client, and what it learns of it.  *)
(*                                                                         *)
(* Losses: as in MCStreamStat.                                             *)
(*                                                                         *)
(* Times: compact NTP of the server wraps at tick 2 and that of the client *)
(* at tick 3, so that exchanges begin before and end after a wrap; two     *)
(* packets of the client may overtake each other.                          *)
(*                                                                         *)
(* The two share no state and no property, so that interleaving them would *)
(* only multiply the states: in a behaviour one of them moves.             *)
EXTENDS MCStreamStat, Rtcp

VARIABLE part

MCInit == Init /\ RtcpInit /\ part \in {"losses", "times"}

MCNext ==
  \/ part = "losses" /\ Next /\ UNCHANGED <<part, rtcpVars>>
  \/ part = "times" /\ RtcpNext /\ UNCHANGED <<part, vars>>

MCSpec == MCInit /\ [][MCNext]_<<part, vars, rtcpVars>>
=============================================================================
