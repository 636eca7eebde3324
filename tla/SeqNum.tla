------------------------------- MODULE SeqNum -------------------------------
(***************************************************************************)
(* Arithmetic of RTP sequence numbers (uint16_t in the code: SeqSpace is   *)
(* 2^16) as the code uses it through webrtc's sequence_number_util.h.      *)
(***************************************************************************)
EXTENDS Integers

CONSTANT SeqSpace

ASSUME SeqSpaceAssumption == SeqSpace \in Nat /\ SeqSpace >= 2 /\ SeqSpace % 2 = 0

SeqNums == 0 .. SeqSpace - 1

(* How far one has to count from a to reach b.                             *)
ForwardDiff(a, b) == (b - a) % SeqSpace

(* a is at or up to half the number space after b; exactly half decides    *)
(* for the larger number.                                                  *)
AheadOrAt(a, b) ==
  \/ ForwardDiff(b, a) < SeqSpace \div 2
  \/ ForwardDiff(b, a) = SeqSpace \div 2 /\ b < a

AheadOf(a, b) == a # b /\ AheadOrAt(a, b)
=============================================================================
