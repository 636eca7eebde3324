------------------------ MODULE MCSignalingPipeline ------------------------
(* c1 pulls, c2 answers for the same uid, c3 pushes.  The stream name      *)
(* hashes to the other RtcWorker than the uid, so that a request routed by *)
(* name lands elsewhere.  Other clients all push, and may be exchanged.    *)
EXTENDS SignalingPipeline, TLC

MCReq ==
  [c \in Clients |->
     [cmd |-> CASE c = "c1" -> "PULL" [] c = "c2" -> "ANSWER" [] OTHER -> "PUSH",
      type |-> "pull", uid |-> 2, name |-> "room"]]

MCCrc == [n \in {"room"} |-> 7]

ClientSymmetry == Permutations(Clients)
============================================================================
