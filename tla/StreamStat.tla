----------------------------- MODULE StreamStat -----------------------------
(***************************************************************************)
(* modules/rtp_rtcp/receive_stat.cpp, class StreamStat: the loss ledger of *)
(* one received SSRC and the numbers its RTCP report blocks carry.         *)
(*                                                                         *)
(* Packets arrive with any sequence number: lost, late, duplicated or      *)
(* restarted somewhere else.  Jitter is left out.  Time matters only for   *)
(* the 8 s without an in-order packet after which nothing is reported.     *)
(***************************************************************************)
EXTENDS SeqNum, Sequences, FiniteSets

CONSTANTS
  MaxReorderingThreshold,  \* kMaxReorderingThreshold (450)
  MaxReported,             \* 0x7FFFFF
  Seqs,                    \* sequence numbers that packets arrive with
  FirstSeqs,               \* ... and the first of them
  MaxPackets, MaxReports,  \* bounds
  None                     \* absl::nullopt

ASSUME ThresholdAssumption ==
  MaxReorderingThreshold \in Nat /\ 2 * MaxReorderingThreshold < SeqSpace
ASSUME SeqsAssumption == Seqs \subseteq SeqNums /\ FirstSeqs \subseteq Seqs
ASSUME BoundsAssumption == {MaxReported, MaxPackets, MaxReports} \subseteq Nat
ASSUME NoneAssumption == None \notin SeqNums

VARIABLES
  cumulative_loss_, received_seq_first_, received_seq_max_,
  received_seq_out_of_order_,
  unwrapped,                \* last_value_ of seq_unwrapper_
  last_report_seq_max_, last_report_cumulative_loss_,
  cumulative_loss_rtcp_offset_,
  silent,                   \* now - last_received_time_ms_ > 8000
  packets,                  \* number of packets received
  blocks,                   \* history: report blocks sent
  counted,                  \* history: positions received
  extra,                    \* history: packets received at such a position again,
                            \* or before the first
  restarts                  \* history: confirmed jumps of the number space

ledger == <<cumulative_loss_, received_seq_first_, received_seq_max_,
            received_seq_out_of_order_, unwrapped>>
baseline == <<last_report_seq_max_, last_report_cumulative_loss_,
              cumulative_loss_rtcp_offset_>>
vars == <<ledger, baseline, silent, packets, blocks, counted, extra, restarts>>

Init ==
  /\ cumulative_loss_ = 0
  /\ received_seq_first_ = -1
  /\ received_seq_max_ = -1
  /\ received_seq_out_of_order_ = None
  /\ unwrapped = None
  /\ last_report_seq_max_ = -1
  /\ last_report_cumulative_loss_ = 0
  /\ cumulative_loss_rtcp_offset_ = 0
  /\ silent = TRUE
  /\ packets = 0
  /\ blocks = <<>>
  /\ counted = {}
  /\ extra = 0
  /\ restarts = 0

ReceivedRtpPacket == received_seq_first_ >= 0

----------------------------------------------------------------------------
(* UpdateCounters                                                          *)

(* webrtc::Unwrapper::UnwrapWithoutUpdate: the position nearest to the     *)
(* last one, except that it does not go below 0.                           *)
Unwrap(seq) ==
  LET delta == seq - (unwrapped % SeqSpace)
      newer == AheadOf(seq, unwrapped % SeqSpace)
  IN  CASE unwrapped = None -> seq
        [] unwrapped # None /\ newer /\ delta < 0 -> unwrapped + delta + SeqSpace
        [] unwrapped # None /\ ~newer /\ delta > 0 /\ unwrapped + delta >= SeqSpace ->
             unwrapped + delta - SeqSpace
        [] OTHER -> unwrapped + delta

Distance(a, b) == IF a > b THEN a - b ELSE b - a

(* UpdateOutOfOrder: the second of two consecutive numbers after a jump    *)
(* confirms the jump as a restart.                                         *)
ConfirmsRestart(seq) ==
  /\ received_seq_out_of_order_ # None
  /\ seq = (received_seq_out_of_order_ + 1) % SeqSpace

FarAway(pos) == Distance(pos, received_seq_max_) > MaxReorderingThreshold

(* A packet that counts: the ledger is charged with the positions from the *)
(* front to it, and credited with the packet.                              *)
InOrder(pos, front, first) ==
  /\ cumulative_loss_' = cumulative_loss_ - 1 + (pos - front)
  /\ received_seq_max_' = pos
  /\ received_seq_first_' = first
  /\ received_seq_out_of_order_' = None
  /\ unwrapped' = pos
  /\ silent' = FALSE

(* A packet far away: perhaps a restart, its credit is taken back.         *)
Postpone(seq) ==
  /\ received_seq_out_of_order_' = seq
  /\ UNCHANGED <<cumulative_loss_, received_seq_first_, received_seq_max_,
                 unwrapped, silent>>

\* Mutant: a late packet is not credited.
LateUncredited ==
  /\ received_seq_out_of_order_' = None
  /\ UNCHANGED <<cumulative_loss_, received_seq_first_, received_seq_max_,
                 unwrapped, silent>>

(* A packet not ahead of the front: it is credited, nothing else changes.  *)
Late ==
  /\ cumulative_loss_' = cumulative_loss_ - 1
  /\ received_seq_out_of_order_' = None
  /\ UNCHANGED <<received_seq_first_, received_seq_max_, unwrapped, silent>>

Counted(pos) ==
  /\ counted' = IF pos >= received_seq_first_' THEN counted \cup {pos} ELSE counted
  /\ extra' = IF pos \in counted \/ pos < received_seq_first_' THEN extra + 1 ELSE extra

UpdateCounters(seq) ==
  LET pos == Unwrap(seq)
  IN  /\ packets < MaxPackets
      /\ packets' = packets + 1
      /\ \/ /\ ~ReceivedRtpPacket /\ seq \in FirstSeqs
            /\ InOrder(pos, pos - 1, pos)
            /\ Counted(pos) /\ restarts' = restarts
         \/ /\ ReceivedRtpPacket /\ ConfirmsRestart(seq)
            /\ InOrder(pos, pos - 2, received_seq_first_)
            /\ Counted(pos) /\ restarts' = restarts + 1
         \/ /\ ReceivedRtpPacket /\ ~ConfirmsRestart(seq) /\ FarAway(pos)
            /\ Postpone(seq)
            /\ UNCHANGED <<counted, extra, restarts>>
         \/ /\ ReceivedRtpPacket /\ ~ConfirmsRestart(seq) /\ ~FarAway(pos)
            /\ pos > received_seq_max_
            /\ InOrder(pos, received_seq_max_, received_seq_first_)
            /\ Counted(pos) /\ restarts' = restarts
         \/ /\ ReceivedRtpPacket /\ ~ConfirmsRestart(seq) /\ ~FarAway(pos)
            /\ pos <= received_seq_max_
            /\ Late
            /\ Counted(pos) /\ restarts' = restarts
      /\ UNCHANGED <<baseline, blocks>>

----------------------------------------------------------------------------
(* MaybeAppendReportBlockAndReset                                          *)

(* 255 * loss / expected since the last report, before it is stored in the *)
(* 8 bits of SetFractionLost.                                              *)
FractionLost ==
  LET exp == received_seq_max_ - last_report_seq_max_
      loss == cumulative_loss_ - last_report_cumulative_loss_
  IN  IF exp > 0 /\ loss > 0 THEN (255 * loss) \div exp ELSE 0

\* Mutant: a negative ledger is clipped, the offset does not follow.
OffsetClipped == cumulative_loss_rtcp_offset_

Offset ==
  IF cumulative_loss_ + cumulative_loss_rtcp_offset_ < 0
  THEN -cumulative_loss_ ELSE cumulative_loss_rtcp_offset_

Capped(n) == IF n > MaxReported THEN MaxReported ELSE n

PacketsLost ==
  LET n == cumulative_loss_ + cumulative_loss_rtcp_offset_
  IN  IF n < 0 THEN 0 ELSE Capped(n)

MaybeAppendReportBlockAndReset ==
  /\ Len(blocks) < MaxReports
  /\ ~silent /\ ReceivedRtpPacket
  /\ blocks' = Append(blocks, [fraction |-> FractionLost, lost |-> PacketsLost,
                               ledger |-> cumulative_loss_, max |-> received_seq_max_])
  /\ cumulative_loss_rtcp_offset_' = Offset
  /\ last_report_seq_max_' = received_seq_max_
  /\ last_report_cumulative_loss_' = cumulative_loss_
  /\ UNCHANGED <<ledger, silent, packets, counted, extra, restarts>>

(* 8 s pass without an in-order packet; then reports are empty.            *)
FallSilent ==
  /\ ~silent
  /\ silent' = TRUE
  /\ UNCHANGED <<ledger, baseline, packets, blocks, counted, extra, restarts>>

Next ==
  \/ \E seq \in Seqs : UpdateCounters(seq)
  \/ MaybeAppendReportBlockAndReset
  \/ FallSilent

Spec == Init /\ [][Next]_vars

----------------------------------------------------------------------------
TypeOK ==
  /\ cumulative_loss_ \in Int
  /\ received_seq_first_ \in Nat \cup {-1}
  /\ received_seq_max_ \in Nat \cup {-1}
  /\ received_seq_out_of_order_ \in SeqNums \cup {None}
  /\ unwrapped \in Nat \cup {None}
  /\ last_report_seq_max_ \in Nat \cup {-1}
  /\ last_report_cumulative_loss_ \in Int
  /\ cumulative_loss_rtcp_offset_ \in Nat
  /\ silent \in BOOLEAN
  /\ packets \in 0 .. MaxPackets
  /\ \A i \in DOMAIN blocks : blocks[i].lost \in 0 .. MaxReported

(* Positions between the first and the front that did not arrive.          *)
Missing == (received_seq_first_ .. received_seq_max_) \ counted

(* Until the sender restarts its numbers, the ledger is the number of      *)
(* missing packets less the packets that came more often or earlier than   *)
(* expected, in whatever order packets came; a packet far away that was    *)
(* not confirmed leaves no trace.                                          *)
LedgerCountsMissing ==
  ReceivedRtpPacket /\ restarts = 0 =>
    cumulative_loss_ = Cardinality(Missing) - extra

(* The number reported is the ledger shifted by the deepest negative       *)
(* ledger of this and the reports before ("偏移定格历史最深负值",          *)
(* receive_stat.cpp:161), up to the cap: never negative, and from report   *)
(* to report it changes as the ledger does, except across a new low and at *)
(* the cap.                                                                *)
ReportsShiftedLedger ==
  \A i \in DOMAIN blocks :
    LET shift == CHOOSE d \in {0} \cup {-blocks[j].ledger : j \in 1 .. i} :
                   \A j \in 1 .. i : d >= -blocks[j].ledger /\ d >= 0
    IN  blocks[i].lost =
          IF blocks[i].ledger + shift > MaxReported THEN MaxReported
          ELSE blocks[i].ledger + shift

(* The reported loss never falls from one report to a later one.           *)
Monotone == \A i, j \in DOMAIN blocks : i < j => blocks[i].lost <= blocks[j].lost

(* Below the cap, two reports differ by as much as the ledger did.         *)
DifferencesKept ==
  \A i, j \in DOMAIN blocks :
    blocks[i].lost < MaxReported /\ blocks[j].lost < MaxReported =>
      blocks[j].lost - blocks[i].lost = blocks[j].ledger - blocks[i].ledger

(* "offset 保持差分不变, 报出值恒非负且单调" (receive_stat.cpp:157) says    *)
(* that the reported loss has both qualities.  This says less: that no     *)
(* sequence of packets and reports breaks them both.                       *)
MonotoneOrExact == Monotone \/ DifferencesKept
=============================================================================
