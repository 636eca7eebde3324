------------------------------ MODULE MCMedia ------------------------------
(* What a push stream hands on, and what pull streams are told of it.      *)
(*                                                                         *)
(* Forwarding: packets whose numbers wrap around after the third and come  *)
(* round to the first number again, with key frames of two and three       *)
(* packets; the rest belongs to other frames.                              *)
(*                                                                         *)
(* Descriptions: two pushes, each answered up to twice: with and without   *)
(* RTX, without audio and with two video tracks whose lines are mixed, and *)
(* with a line that cannot be parsed; one user who pulls before, between   *)
(* and after.                                                              *)
(*                                                                         *)
(* The two share no state and no property, so that interleaving them would *)
(* only multiply the states: in a behaviour one of them moves.             *)
EXTENDS VideoForward, PeerConnection

VARIABLE part

MCKeyFrames == {<<2, 4>>, <<6, 7>>, <<12, 13>>, <<16, 18>>, <<23, 24>>}

M(media)    == [type |-> "m", media |-> media]
S(ssrc, t)  == [type |-> "ssrc", ssrc |-> ssrc, track |-> t]
Fid(a, b)   == [type |-> "group", ssrcs |-> <<a, b>>]
Bad         == [type |-> "bad"]

MCAnswers ==
  { <<M("audio"), S(1, "mic"), M("video"), Fid(11, 12), S(11, "cam"), S(12, "cam"), S(11, "cam")>>,
    <<Bad, M("video"), S(21, "cam"), M("audio"), S(2, "mic")>>,
    <<M("video"), Fid(31, 32), Fid(41, 42), S(31, "cam"), S(41, "screen"), S(42, "screen"), S(32, "cam")>>,
    <<M("audio"), S(1, "mic"), M("video"), S(11, "cam"), Bad>> }

MCInit == Init /\ PeerInit /\ part \in {"forward", "describe"}

MCNext ==
  \/ part = "forward" /\ Next /\ UNCHANGED <<part, peerVars>>
  \/ part = "describe" /\ PeerNext /\ UNCHANGED <<part, vars>>

MCSpec == MCInit /\ [][MCNext]_<<part, vars, peerVars>>
=============================================================================
