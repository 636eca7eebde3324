---------------------------- MODULE ReportProofs ----------------------------
(***************************************************************************)
(* Proofs about what receivers and senders report to each other: the loss  *)
(* ledger and the report blocks of StreamStat, for any number space,       *)
(* threshold, cap and number of packets and reports, and the round-trip    *)
(* times of Rtcp, for any clocks, window and bounds.  The formulas of      *)
(* StreamStat have their plain names (Spec), those of Rtcp its prefix      *)
(* (RtcpSpec).                                                             *)
(***************************************************************************)
EXTENDS StreamStat, Rtcp, FiniteSetTheorems, WellFoundedInduction, TLAPS

-----------------------------------------------------------------------------
(* Receive statistics                                                      *)

Front ==
  /\ cumulative_loss_ \in Int /\ extra \in Int
  /\ received_seq_first_ \in Int /\ received_seq_max_ \in Int
  /\ unwrapped \in Int \cup {None}
  /\ received_seq_out_of_order_ \in SeqNums \cup {None}
  /\ restarts \in Nat

(* Before the first packet the ledger is empty; later the counted          *)
(* positions lie between the first and the front, as long as the numbers   *)
(* were not restarted.                                                     *)
CountedBetween ==
  /\ ~ReceivedRtpPacket =>
       cumulative_loss_ = 0 /\ extra = 0 /\ counted = {} /\ restarts = 0 /\ unwrapped = None
  /\ ReceivedRtpPacket /\ restarts = 0 =>
       /\ received_seq_first_ <= received_seq_max_
       /\ counted \subseteq received_seq_first_ .. received_seq_max_

IInv == Front /\ CountedBetween /\ LedgerCountsMissing

(* UnwrapWithoutUpdate yields an integer.                                  *)
LEMMA UnwrapType ==
  ASSUME Front, NEW seq \in SeqNums PROVE Unwrap(seq) \in Int
  <1>1. SeqSpace \in Int /\ SeqSpace > 0 /\ seq \in Int
    BY SeqSpaceAssumption DEF SeqNums
  <1>2. CASE unwrapped = None
    BY <1>1, <1>2 DEF Unwrap
  <1>3. CASE unwrapped # None
    <2>1. unwrapped \in Int /\ unwrapped % SeqSpace \in Int
      BY <1>1, <1>3 DEF Front
    <2> QED BY <1>1, <1>3, <2>1 DEF Unwrap
  <1> QED BY <1>2, <1>3

(* The positions that a packet ahead of the front adds to the missing      *)
(* ones.                                                                   *)
LEMMA GapCardinality ==
  ASSUME NEW first \in Int, NEW max \in Int, NEW pos \in Int, first <= max, max < pos,
         NEW C \in SUBSET (first .. max)
  PROVE  Cardinality((first .. pos) \ (C \cup {pos}))
           = Cardinality((first .. max) \ C) + (pos - max - 1)
  <1> DEFINE old == (first .. max) \ C
             gap == (max + 1) .. (pos - 1)
  <1>1. (first .. pos) \ (C \cup {pos}) = old \cup gap
    OBVIOUS
  <1>2. old \cap gap = {}
    OBVIOUS
  <1>3. IsFiniteSet(old)
    BY FS_Interval, FS_Difference
  <1>4. IsFiniteSet(gap) /\ Cardinality(gap) = pos - max - 1
    BY FS_Interval
  <1>5. Cardinality(old \cup gap) = Cardinality(old) + Cardinality(gap) - Cardinality(old \cap gap)
    BY <1>3, <1>4, FS_Union
  <1>6. Cardinality(old) \in Nat /\ Cardinality(old \cap gap) = 0
    BY <1>2, <1>3, FS_CardinalityType, FS_EmptySet
  <1> HIDE DEF old, gap
  <1>7. Cardinality(old \cup gap) = Cardinality(old) + (pos - max - 1)
    BY <1>4, <1>5, <1>6
  <1> QED BY <1>1, <1>7 DEF old

(* The position that a late packet takes from the missing ones.            *)
LEMMA LateCardinality ==
  ASSUME NEW first \in Int, NEW max \in Int, NEW pos \in first .. max, NEW C, pos \notin C
  PROVE  Cardinality((first .. max) \ (C \cup {pos})) = Cardinality((first .. max) \ C) - 1
  <1> DEFINE old == (first .. max) \ C
  <1>1. (first .. max) \ (C \cup {pos}) = old \ {pos}
    OBVIOUS
  <1>2. IsFiniteSet(old) /\ pos \in old
    BY FS_Interval, FS_Difference
  <1> HIDE DEF old
  <1>3. Cardinality(old \ {pos}) = Cardinality(old) - 1
    BY <1>2, FS_RemoveElement
  <1> QED BY <1>1, <1>3 DEF old

(* Finitely many packets are missing.                                      *)
LEMMA MissingFinite ==
  ASSUME Front PROVE IsFiniteSet(Missing) /\ Cardinality(Missing) \in Nat
  BY FS_Interval, FS_Difference, FS_CardinalityType DEF Front, Missing

(* Every packet keeps the ledger.                                          *)
LEMMA UpdateCountersIInv ==
  ASSUME IInv, NEW seq \in Seqs, UpdateCounters(seq)
  PROVE  IInv'
  <1> DEFINE pos == Unwrap(seq)
  <1>1. pos \in Int /\ seq \in SeqNums
    BY UnwrapType, SeqsAssumption DEF IInv
  <1>2. seq \in Int /\ seq >= 0
    BY <1>1, SeqSpaceAssumption DEF SeqNums
  <1>3. CASE ~ReceivedRtpPacket /\ InOrder(pos, pos - 1, pos) /\ Counted(pos)
             /\ restarts' = restarts
    <2>1. pos = seq
      BY <1>3 DEF IInv, CountedBetween, Unwrap
    <2> HIDE DEF pos
    <2>2. /\ cumulative_loss_' = 0 /\ received_seq_max_' = pos /\ received_seq_first_' = pos
          /\ received_seq_out_of_order_' = None /\ unwrapped' = pos /\ restarts' = 0
          /\ counted' = {pos} /\ extra' = 0
      BY <1>1, <1>3 DEF InOrder, Counted, IInv, Front, CountedBetween
    <2>3. Front' /\ CountedBetween' /\ ReceivedRtpPacket'
      BY <1>1, <1>2, <2>1, <2>2 DEF Front, CountedBetween, ReceivedRtpPacket
    <2>4. Missing' = {}
      BY <1>1, <2>2 DEF Missing
    <2> QED BY <2>2, <2>3, <2>4, FS_EmptySet DEF IInv, LedgerCountsMissing
  <1>4. CASE ReceivedRtpPacket /\ InOrder(pos, pos - 2, received_seq_first_)
             /\ Counted(pos) /\ restarts' = restarts + 1
    <2> HIDE DEF pos
    <2>1. Front' /\ restarts' # 0
      BY <1>1, <1>4 DEF InOrder, Counted, IInv, Front
    <2>2. ReceivedRtpPacket'
      BY <1>4 DEF InOrder, ReceivedRtpPacket
    <2> QED BY <2>1, <2>2 DEF IInv, CountedBetween, LedgerCountsMissing
  <1>5. CASE ReceivedRtpPacket /\ Postpone(seq) /\ UNCHANGED <<counted, extra, restarts>>
    BY <1>1, <1>5 DEF Postpone, IInv, Front, CountedBetween, LedgerCountsMissing,
       Missing, ReceivedRtpPacket
  <1>6. CASE ReceivedRtpPacket /\ pos > received_seq_max_
             /\ InOrder(pos, received_seq_max_, received_seq_first_)
             /\ Counted(pos) /\ restarts' = restarts
    <2> HIDE DEF pos
    <2>1. /\ cumulative_loss_' = cumulative_loss_ - 1 + (pos - received_seq_max_)
          /\ received_seq_max_' = pos /\ received_seq_first_' = received_seq_first_
      BY <1>6 DEF InOrder
    <2>2. Front' /\ ReceivedRtpPacket'
      BY <1>1, <1>6 DEF InOrder, Counted, IInv, Front, ReceivedRtpPacket
    <2>3. CASE restarts = 0
      <3>1. /\ counted' = counted \cup {pos} /\ extra' = extra
            /\ counted \subseteq received_seq_first_ .. received_seq_max_
            /\ received_seq_first_ <= received_seq_max_
        BY <1>1, <1>6, <2>1, <2>3 DEF Counted, IInv, Front, CountedBetween
      <3>2. CountedBetween'
        BY <1>1, <1>6, <2>1, <2>2, <3>1 DEF CountedBetween, IInv, Front
      <3>3. Cardinality(Missing') = Cardinality(Missing) + (pos - received_seq_max_ - 1)
        <4>1. Missing' = (received_seq_first_ .. pos) \ (counted \cup {pos})
          BY <2>1, <3>1 DEF Missing
        <4>2. received_seq_first_ \in Int /\ received_seq_max_ \in Int /\ received_seq_max_ < pos
          BY <1>1, <1>6 DEF IInv, Front
        <4>3. counted \in SUBSET (received_seq_first_ .. received_seq_max_)
          BY <3>1
        <4>4. Cardinality((received_seq_first_ .. pos) \ (counted \cup {pos}))
                = Cardinality((received_seq_first_ .. received_seq_max_) \ counted)
                  + (pos - received_seq_max_ - 1)
          BY ONLY <1>1, <3>1, <4>2, <4>3, GapCardinality, Zenon
        <4> QED BY <4>1, <4>4 DEF Missing
      <3>4. cumulative_loss_ = Cardinality(Missing) - extra
        BY <1>6, <2>3 DEF IInv, LedgerCountsMissing
      <3>5. cumulative_loss_' = Cardinality(Missing') - extra'
        BY <1>1, <2>1, <3>1, <3>3, <3>4, MissingFinite DEF IInv, Front
      <3> QED BY <2>2, <3>2, <3>5 DEF IInv, LedgerCountsMissing
    <2>4. CASE restarts # 0
      BY <1>6, <2>2, <2>4 DEF IInv, CountedBetween, LedgerCountsMissing
    <2> QED BY <2>3, <2>4
  <1>7. CASE ReceivedRtpPacket /\ pos <= received_seq_max_ /\ Late
             /\ Counted(pos) /\ restarts' = restarts
    <2> HIDE DEF pos
    <2>1. /\ cumulative_loss_' = cumulative_loss_ - 1
          /\ received_seq_max_' = received_seq_max_
          /\ received_seq_first_' = received_seq_first_
      BY <1>7 DEF Late
    <2>2. Front' /\ ReceivedRtpPacket'
      BY <1>1, <1>7 DEF Late, Counted, IInv, Front, ReceivedRtpPacket
    <2>3. CASE restarts = 0
      <3>0. /\ counted \subseteq received_seq_first_ .. received_seq_max_
            /\ received_seq_first_ <= received_seq_max_
            /\ cumulative_loss_ = Cardinality(Missing) - extra
        BY <1>7, <2>3 DEF IInv, CountedBetween, LedgerCountsMissing
      <3>1. CASE pos \in counted \/ pos < received_seq_first_
        <4>1. counted' = counted /\ extra' = extra + 1 /\ Missing' = Missing
          BY <1>1, <1>7, <2>1, <3>1 DEF Counted, Missing, IInv, Front
        <4>2. cumulative_loss_' = Cardinality(Missing') - extra'
          BY <2>1, <3>0, <4>1, MissingFinite DEF IInv, Front
        <4> QED BY <1>7, <2>1, <2>2, <3>0, <4>1, <4>2
                DEF IInv, CountedBetween, LedgerCountsMissing
      <3>2. CASE pos \notin counted /\ pos >= received_seq_first_
        <4>1. counted' = counted \cup {pos} /\ extra' = extra
          BY <1>1, <1>7, <2>1, <3>2 DEF Counted, IInv, Front
        <4>2. pos \in received_seq_first_ .. received_seq_max_
          BY <1>1, <1>7, <3>2 DEF IInv, Front
        <4>3. Cardinality(Missing') = Cardinality(Missing) - 1
          BY <2>1, <3>2, <4>1, <4>2, LateCardinality DEF Missing, IInv, Front
        <4>4. cumulative_loss_' = Cardinality(Missing') - extra'
          BY <2>1, <3>0, <4>1, <4>3, MissingFinite DEF IInv, Front
        <4> QED BY <1>7, <2>1, <2>2, <3>0, <4>1, <4>2, <4>4
                DEF IInv, CountedBetween, LedgerCountsMissing
      <3> QED BY <1>1, <3>1, <3>2 DEF IInv, Front
    <2>4. CASE restarts # 0
      BY <1>7, <2>2, <2>4 DEF IInv, CountedBetween, LedgerCountsMissing
    <2> QED BY <2>3, <2>4
  <1> QED BY <1>3, <1>4, <1>5, <1>6, <1>7 DEF UpdateCounters

(* The ledger counts the missing packets in every reachable state.         *)
THEOREM LedgerInvariance == Spec => []IInv
  <1>1. Init => IInv
    BY DEF Init, IInv, Front, CountedBetween, LedgerCountsMissing, ReceivedRtpPacket
  <1>2. IInv /\ [Next]_vars => IInv'
    <2> SUFFICES ASSUME IInv, [Next]_vars PROVE IInv'
      OBVIOUS
    <2>1. ASSUME NEW seq \in Seqs, UpdateCounters(seq) PROVE IInv'
      BY <2>1, UpdateCountersIInv
    <2>2. CASE UNCHANGED <<ledger, counted, extra, restarts>>
      BY <2>2 DEF ledger, IInv, Front, CountedBetween, LedgerCountsMissing, Missing,
         ReceivedRtpPacket
    <2> QED BY <2>1, <2>2 DEF Next, MaybeAppendReportBlockAndReset, FallSilent, vars
  <1> QED BY <1>1, <1>2, PTL DEF Spec

(* In whatever order packets come, the ledger of StreamStat is the number  *)
(* of missing packets less those that came again or too early, until the   *)
(* sender restarts its numbers.                                            *)
THEOREM LedgerIsExact == Spec => []LedgerCountsMissing
  BY LedgerInvariance, PTL DEF IInv

----------------------------------------------------------------------------
(* The report blocks                                                       *)

(* d is the deepest negative ledger of the first i blocks, as a positive   *)
(* number.                                                                 *)
IsShift(bs, i, d) ==
  /\ d \in {0} \cup {-bs[j].ledger : j \in 1 .. i}
  /\ d >= 0
  /\ \A j \in 1 .. i : d >= -bs[j].ledger

Block == [fraction : Int, lost : Int, ledger : Int, max : Int]

(* The offset is the shift of the blocks sent so far, and each of them     *)
(* carries the ledger under the shift of its time.                         *)
ReportInv ==
  /\ blocks \in Seq(Block)
  /\ cumulative_loss_rtcp_offset_ \in Int
  /\ last_report_seq_max_ \in Int /\ last_report_cumulative_loss_ \in Int
  /\ IsShift(blocks, Len(blocks), cumulative_loss_rtcp_offset_)
  /\ \A i \in 1 .. Len(blocks) :
       \E d \in Int : IsShift(blocks, i, d) /\ blocks[i].lost = Capped(blocks[i].ledger + d)

(* The ledger of a block is a number.                                      *)
LEMMA BlockOfSeq ==
  ASSUME NEW bs \in Seq(Block)
  PROVE  \A j \in 1 .. Len(bs) : bs[j].ledger \in Int
  <1> SUFFICES ASSUME NEW j \in 1 .. Len(bs) PROVE bs[j].ledger \in Int
    OBVIOUS
  <1>1. bs[j] \in Block
    OBVIOUS
  <1> QED BY <1>1 DEF Block

(* There is only one such number.                                          *)
LEMMA ShiftUnique ==
  ASSUME NEW bs \in Seq(Block), NEW i \in 1 .. Len(bs), NEW d, NEW e,
         IsShift(bs, i, d), IsShift(bs, i, e)
  PROVE  d = e
  <1>1. \A j \in 1 .. i : bs[j].ledger \in Int
    BY BlockOfSeq, i \in 1 .. Len(bs), Len(bs) \in Nat
  <1>2. d \in Int /\ e \in Int
    BY <1>1 DEF IsShift
  <1>3. d <= e
    BY <1>1, <1>2 DEF IsShift
  <1>4. e <= d
    BY <1>1, <1>2 DEF IsShift
  <1> QED BY <1>2, <1>3, <1>4

(* It depends on the first i blocks only.                                  *)
LEMMA ShiftOfPrefix ==
  ASSUME NEW bs, NEW cs, NEW i \in Nat, NEW d, \A j \in 1 .. i : bs[j] = cs[j],
         IsShift(bs, i, d)
  PROVE  IsShift(cs, i, d)
  BY DEF IsShift

(* A report keeps the offset at the deepest negative ledger.               *)
LEMMA ReportStep ==
  ASSUME Front, ReportInv, MaybeAppendReportBlockAndReset
  PROVE  ReportInv'
  <1> DEFINE n == Len(blocks)
             b == [fraction |-> FractionLost, lost |-> PacketsLost,
                   ledger |-> cumulative_loss_, max |-> received_seq_max_]
  <1>1. MaxReported \in Nat
    BY BoundsAssumption
  <1>2. FractionLost \in Int
    <2>1. ASSUME NEW e \in Int, NEW l \in Int, e > 0, l > 0 PROVE (255 * l) \div e \in Int
      BY <2>1
    <2> QED BY <2>1 DEF FractionLost, Front, ReportInv
  <1>3. PacketsLost \in Int /\ Offset \in Int
    BY <1>1 DEF PacketsLost, Capped, Offset, Front, ReportInv
  <1>4. /\ blocks' = Append(blocks, b) /\ cumulative_loss_rtcp_offset_' = Offset
        /\ last_report_seq_max_' = received_seq_max_
        /\ last_report_cumulative_loss_' = cumulative_loss_
    BY DEF MaybeAppendReportBlockAndReset
  <1>5. b \in Block /\ b.ledger = cumulative_loss_ /\ b.lost = PacketsLost
    BY <1>2, <1>3 DEF Block, Front
  <1> HIDE DEF b
  <1>6. /\ n \in Nat /\ Len(blocks') = n + 1 /\ blocks' \in Seq(Block)
        /\ \A j \in 1 .. n : blocks'[j] = blocks[j]
        /\ blocks'[n + 1] = b
    BY <1>4, <1>5 DEF ReportInv
  <1>7. \A j \in 1 .. n : blocks[j].ledger \in Int
    BY BlockOfSeq DEF ReportInv
  <1> DEFINE o == cumulative_loss_rtcp_offset_
             l == cumulative_loss_
  <1>8. o \in Int /\ l \in Int /\ IsShift(blocks, n, o)
    BY DEF ReportInv, Front
  <1>9. Offset = IF l + o < 0 THEN -l ELSE o
    BY DEF Offset
  <1> HIDE DEF n, o, l
  <1>10. IsShift(blocks', n + 1, Offset)
    <2>0. o >= 0
      BY <1>8 DEF IsShift
    <2>1. Offset >= 0 /\ Offset >= o /\ Offset >= -l
      BY ONLY <1>8, <1>9, <2>0
    <2>2. \A j \in 1 .. n + 1 : Offset >= -blocks'[j].ledger
      <3> SUFFICES ASSUME NEW j \in 1 .. n + 1 PROVE Offset >= -blocks'[j].ledger
        OBVIOUS
      <3>1. CASE j = n + 1
        BY <1>5, <1>6, <2>1, <3>1 DEF l
      <3>2. CASE j \in 1 .. n
        <4>1. blocks'[j].ledger = blocks[j].ledger /\ blocks[j].ledger \in Int
          BY <1>6, <1>7, <3>2
        <4>2. o >= -blocks[j].ledger
          BY <1>8, <3>2 DEF IsShift
        <4> QED BY <1>3, <1>8, <2>1, <4>1, <4>2
      <3> QED BY <1>6, <3>1, <3>2
    <2>3. Offset \in {0} \cup {-blocks'[j].ledger : j \in 1 .. n + 1}
      <3>1. CASE l + o < 0
        <4>1. Offset = -blocks'[n + 1].ledger
          BY <1>5, <1>6, <1>9, <3>1 DEF l
        <4>2. n + 1 \in 1 .. n + 1
          BY <1>6
        <4> QED BY <4>1, <4>2
      <3>2. CASE ~(l + o < 0)
        <4>1. Offset = o
          BY <1>9, <3>2
        <4>2. CASE o = 0
          BY <4>1, <4>2
        <4>3. CASE o # 0
          <5>1. PICK j \in 1 .. n : o = -blocks[j].ledger
            BY <1>8, <4>3 DEF IsShift
          <5>2. j \in 1 .. n + 1 /\ blocks'[j] = blocks[j]
            BY <1>6
          <5> QED BY <4>1, <5>1, <5>2
        <4> QED BY <4>2, <4>3
      <3> QED BY <3>1, <3>2
    <2> QED BY <2>1, <2>2, <2>3 DEF IsShift
  <1>11. PacketsLost = Capped(l + Offset)
    BY <1>1, <1>8, <1>9 DEF PacketsLost, Capped, l, o
  <1>12. ASSUME NEW i \in 1 .. n + 1
         PROVE  \E d \in Int : /\ IsShift(blocks', i, d)
                               /\ blocks'[i].lost = Capped(blocks'[i].ledger + d)
    <2>1. CASE i = n + 1
      BY <1>3, <1>5, <1>6, <1>10, <1>11, <2>1 DEF l
    <2>2. CASE i \in 1 .. n
      <3>1. PICK d \in Int : IsShift(blocks, i, d) /\ blocks[i].lost = Capped(blocks[i].ledger + d)
        BY <2>2 DEF ReportInv, n
      <3>2. \A j \in 1 .. i : blocks[j] = blocks'[j]
        BY <1>6, <2>2
      <3>3. IsShift(blocks', i, d)
        BY <2>2, <3>1, <3>2, ShiftOfPrefix
      <3>4. blocks'[i] = blocks[i]
        BY <1>6, <2>2
      <3> QED BY <3>1, <3>3, <3>4
    <2> QED BY <1>6, <2>1, <2>2
  <1> QED BY <1>3, <1>4, <1>6, <1>10, <1>12 DEF ReportInv, Front

(* Every report block carries the ledger shifted by the deepest negative   *)
(* ledger reported until then (MaybeAppendReportBlockAndReset), so that    *)
(* the differences of two reports are exact up to the cap.                 *)
THEOREM ReportsAreShifted == Spec => []ReportsShiftedLedger
  <1>1. Init => ReportInv
    BY DEF Init, ReportInv, IsShift
  <1>2. Front /\ ReportInv /\ [Next]_vars => ReportInv'
    <2> SUFFICES ASSUME Front, ReportInv, [Next]_vars PROVE ReportInv'
      OBVIOUS
    <2>1. CASE MaybeAppendReportBlockAndReset
      BY <2>1, ReportStep
    <2>2. CASE UNCHANGED <<baseline, blocks>>
      BY <2>2 DEF baseline, ReportInv
    <2> QED BY <2>1, <2>2 DEF Next, UpdateCounters, FallSilent, vars
  <1>3. ReportInv => ReportsShiftedLedger
    <2> SUFFICES ASSUME ReportInv, NEW i \in DOMAIN blocks
                 PROVE  LET shift == CHOOSE d \in {0} \cup {-blocks[j].ledger : j \in 1 .. i} :
                               \A j \in 1 .. i : d >= -blocks[j].ledger /\ d >= 0
                        IN  blocks[i].lost =
                              IF blocks[i].ledger + shift > MaxReported THEN MaxReported
                              ELSE blocks[i].ledger + shift
      BY DEF ReportsShiftedLedger
    <2> DEFINE S == {0} \cup {-blocks[j].ledger : j \in 1 .. i}
               P(d) == \A j \in 1 .. i : d >= -blocks[j].ledger /\ d >= 0
               shift == CHOOSE d \in S : P(d)
    <2>1. i \in 1 .. Len(blocks) /\ blocks \in Seq(Block)
      BY DEF ReportInv
    <2>2. PICK d \in Int : IsShift(blocks, i, d) /\ blocks[i].lost = Capped(blocks[i].ledger + d)
      BY <2>1 DEF ReportInv
    <2>3. d \in S /\ P(d)
      BY <2>2 DEF IsShift
    <2>4. shift \in S /\ P(shift)
      BY <2>3, Zenon
    <2> HIDE DEF shift
    <2>5. i \in 1 .. i
      BY <2>1
    <2>6. IsShift(blocks, i, shift)
      BY <2>4, <2>5 DEF IsShift
    <2>7. shift = d
      BY <2>1, <2>2, <2>6, ShiftUnique
    <2> QED BY <2>2, <2>7 DEF shift, Capped
  <1>4. Spec => []Front
    BY LedgerInvariance, PTL DEF IInv
  <1> QED BY <1>1, <1>2, <1>3, <1>4, PTL DEF Spec


-----------------------------------------------------------------------------
(* Compact NTP                                                             *)

(* A remainder is determined by its range, and whole multiples of the      *)
(* modulus do not matter.                                                  *)
LEMMA Remainder ==
  ASSUME NEW m \in Nat \ {0}, NEW q \in Int, NEW r \in 0 .. m - 1
  PROVE  (q * m + r) % m = r
  OBVIOUS

(* Quotient and remainder.                                                 *)
LEMMA Quotient ==
  ASSUME NEW m \in Nat \ {0}, NEW a \in Int
  PROVE  a \div m \in Int /\ a % m \in 0 .. m - 1 /\ a = (a \div m) * m + (a % m)
  OBVIOUS

(* The difference of two compact times, less what was waited in between,   *)
(* is the difference of the times, as long as it is less than a round of   *)
(* the clock.                                                              *)
LEMMA CompactDiff ==
  ASSUME NEW m \in Nat \ {0}, NEW a \in Int, NEW b \in Int, NEW w \in Int,
         0 <= a - b - w, a - b - w < m
  PROVE  ((a % m) - w - (b % m)) % m = a - b - w /\ ((a % m) - (b % m) - w) % m = a - b - w
  <1> DEFINE p == a \div m
             q == b \div m
             x == a % m
             y == b % m
             k == q - p
             d == a - b - w
  <1>1. p \in Int /\ q \in Int /\ x \in Int /\ y \in Int /\ a = p * m + x /\ b = q * m + y
    BY Quotient
  <1>2. d \in 0 .. m - 1
    OBVIOUS
  <1> HIDE DEF p, q, x, y
  <1>3. x - w - y = k * m + d /\ x - y - w = k * m + d /\ k \in Int
    BY <1>1
  <1> HIDE DEF k, d
  <1>4. (k * m + d) % m = d
    BY <1>2, <1>3, Remainder
  <1> QED BY <1>3, <1>4 DEF x, y, d

(* A bounded set of numbers has a largest member, which Max takes.         *)
LEMMA MaxIs ==
  ASSUME NEW S \in SUBSET Nat, S # {}, NEW n \in Nat, \A x \in S : x <= n
  PROVE  Max(S) \in S /\ \A x \in S : x <= Max(S)
  <1> DEFINE T == {k \in Nat : n - k \in S}
  <1>1. T \in SUBSET Nat
    OBVIOUS
  <1>2. T # {}
    <2>1. PICK x \in S : TRUE
      OBVIOUS
    <2>2. n - x \in Nat /\ n - (n - x) = x
      BY <2>1
    <2> QED BY <2>1, <2>2
  <1>3. PICK k \in T : \A j \in T : ~(<<j, k>> \in OpToRel(<, Nat))
    <2> HIDE DEF T
    <2> QED BY <1>1, <1>2, NatLessThanWellFounded, WFMin
  <1>4. \A j \in T : ~(j < k)
    BY <1>1, <1>3 DEF OpToRel
  <1>5. n - k \in S /\ k \in Nat
    OBVIOUS
  <1>6. ASSUME NEW x \in S PROVE x <= n - k
    <2>1. n - x \in Nat /\ n - (n - x) = x
      OBVIOUS
    <2>2. n - x \in T
      BY <2>1
    <2>3. ~(n - x < k)
      BY <1>4, <2>2
    <2> QED BY <1>5, <2>1, <2>3
  <1>7. \E x \in S : \A y \in S : x >= y
    BY <1>5, <1>6
  <1>8. Max(S) \in S /\ \A y \in S : Max(S) >= y
    BY <1>7 DEF Max
  <1> QED BY <1>8

(* Max, by what it is.                                                     *)
LEMMA MaxUnique ==
  ASSUME NEW S \in SUBSET Nat, NEW x \in S, \A y \in S : y <= x
  PROVE  Max(S) = x
  <1>1. x \in Nat /\ S # {}
    OBVIOUS
  <1>2. Max(S) \in S /\ \A y \in S : y <= Max(S)
    BY <1>1, MaxIs
  <1>3. Max(S) <= x /\ x <= Max(S) /\ Max(S) \in Nat
    BY <1>2
  <1> QED BY <1>1, <1>3

-----------------------------------------------------------------------------
(* The round-trip times                                                    *)

(* CompactNtpRttToMs of a time that is not negative.                       *)
AtLeastOne(t) == IF t = 0 THEN 1 ELSE t

Recent(ms, last) == {m \in ms : last - m.time <= RttTimeout}

Reports(ms) == {[time |-> m.time, rtt |-> AtLeastOne(m.transit)] : m \in ms}

(* The NTP time and the arrival kept are those of one packet, which came   *)
(* no earlier than it was sent, and srTransit is how long it took.         *)
SrOK(sr, transit) ==
  \/ sr = NoSr
  \/ \E sent \in 0 .. now : \E came \in sent .. now :
       /\ sr = [ntp |-> PeerNtp + sent, arrival |-> ServerNtp + came]
       /\ transit = came - sent

(* The client keeps when an RRTR was sent, in compact NTP, and when it     *)
(* came.                                                                   *)
RrtrOK(rrtr) ==
  /\ rrtr.arrival \in 0 .. now
  /\ rrtr.last = 0 \/ \E sent \in 0 .. rrtr.arrival :
                        /\ rrtr.last = CompactNtp(ServerNtp + sent)
                        /\ rrtr.transit = rrtr.arrival - sent

DlrrOK(dlrr, now_) ==
  \/ dlrr.last = 0
  \/ \E came \in 0 .. now_ : \E sent \in 0 .. came :
       /\ dlrr.last = CompactNtp(ServerNtp + sent)
       /\ dlrr.delay = now_ - came
       /\ dlrr.transit = came - sent

BadTypes == {"badHeader", "badBody"}

ToServerOK(p) ==
  /\ p.sent \in 0 .. now
  /\ p.blocks[1].type \notin BadTypes => p.blocks[1].ntp = PeerNtp + p.sent
  /\ p.blocks[2].type \notin BadTypes => DlrrOK(p.blocks[2], p.sent)

(* What the NACK requester has is the largest of what was measured within  *)
(* RttTimeout of the last measurement.                                     *)
RttOK ==
  /\ \A m \in measured : m.time \in 0 .. now /\ m.transit \in 0 .. now
  /\ measured = {} => rtt_reports_ = {}
  /\ measured # {} =>
       \E last \in 0 .. now :
         /\ \E m \in measured : m.time = last
         /\ \A m \in measured : m.time <= last
         /\ rtt_reports_ = Reports(Recent(measured, last))
         /\ rtt_ = Max({r.rtt : r \in rtt_reports_})

RtcpInv ==
  /\ now \in 0 .. MaxTime
  /\ SrOK(lastSr, srTransit)
  /\ RrtrOK(peerRrtr)
  /\ \A p \in toPeer : p.sent \in 0 .. now
  /\ \A p \in toServer : ToServerOK(p)
  /\ RttOK

(* A packet that is put on the network is the only new one.                *)
LEMMA SentIs ==
  ASSUME NEW net, NEW bound, NEW p, NEW q \in Sent(net, bound, p)
  PROVE  q \in net \/ q = p
  BY DEF Sent

(* The round trip computed from an answer is the time its two packets      *)
(* were under way.                                                         *)
LEMMA RttIsTransit ==
  ASSUME now \in 0 .. MaxTime,
         NEW sent \in 0 .. now, NEW dlrr, dlrr.last # 0, DlrrOK(dlrr, sent)
  PROVE  /\ dlrr.transit + (now - sent) \in 0 .. now
         /\ CompactNtpRttToMs((CompactNtp(ServerNtp + now) - dlrr.delay - dlrr.last) % NtpMod)
              = AtLeastOne(dlrr.transit + (now - sent))
  <1>1. PICK came \in 0 .. sent : \E s \in 0 .. came :
          /\ dlrr.last = CompactNtp(ServerNtp + s)
          /\ dlrr.delay = sent - came
          /\ dlrr.transit = came - s
    BY DEF DlrrOK
  <1>2. PICK s \in 0 .. came :
          /\ dlrr.last = CompactNtp(ServerNtp + s)
          /\ dlrr.delay = sent - came
          /\ dlrr.transit = came - s
    BY <1>1
  <1> DEFINE a == ServerNtp + now
             b == ServerNtp + s
             w == sent - came
             d == dlrr.transit + (now - sent)
  <1>3. /\ now \in Nat /\ MaxTime \in Nat /\ sent \in Nat /\ came \in Nat /\ s \in Nat
        /\ ServerNtp \in Nat /\ NtpMod \in Nat \ {0} /\ NtpMod > 2 * MaxTime
        /\ s <= came /\ came <= sent /\ sent <= now /\ now <= MaxTime
    BY RtcpAssumption
  <1>4. /\ a \in Int /\ b \in Int /\ w \in Int
        /\ a - b - w = d /\ d \in 0 .. now /\ 0 <= d /\ 2 * d <= NtpMod /\ d < NtpMod
    BY <1>2, <1>3
  <1> HIDE DEF a, b, w, d
  <1>5. ((a % NtpMod) - w - (b % NtpMod)) % NtpMod = d
    BY <1>3, <1>4, CompactDiff
  <1>6. (CompactNtp(ServerNtp + now) - dlrr.delay - dlrr.last) % NtpMod = d
    BY <1>2, <1>5 DEF CompactNtp, a, b, w
  <1>7. CompactNtpRttToMs(d) = AtLeastOne(d)
    BY <1>3, <1>4 DEF CompactNtpRttToMs, AtLeastOne
  <1> QED BY <1>4, <1>6, <1>7 DEF d

(* A new measurement: the window moves to it.                              *)
LEMMA OnRttUpdateOK ==
  ASSUME RttOK, now \in Nat, NEW transit \in 0 .. now,
         OnRttUpdate(AtLeastOne(transit)),
         measured' = measured \cup {[time |-> now, transit |-> transit]},
         now' = now
  PROVE  RttOK'
  <1> DEFINE new == [time |-> now, transit |-> transit]
  <1>1. \A m \in measured' : m.time \in 0 .. now' /\ m.transit \in 0 .. now'
    BY DEF RttOK
  <1>2. measured' # {} /\ new \in measured' /\ new.time = now
    OBVIOUS
  <1>3. \A m \in measured' : m.time <= now
    BY <1>1
  <1>4. rtt_reports_' = Reports(Recent(measured', now))
    <2>1. RttTimeout \in Nat
      BY RtcpAssumption
    <2>2. Reports(Recent(measured', now))
            = Reports(Recent(measured, now)) \cup {[time |-> now, rtt |-> AtLeastOne(transit)]}
      <3>1. now - new.time <= RttTimeout /\ new.transit = transit /\ new.time = now
        BY <2>1
      <3> HIDE DEF new
      <3>2. Recent(measured', now) = Recent(measured, now) \cup {new}
        BY <3>1 DEF Recent, new
      <3> DEFINE M == Recent(measured, now)
      <3> HIDE DEF M
      <3>3. Reports(M \cup {new}) = Reports(M) \cup {[time |-> new.time, rtt |-> AtLeastOne(new.transit)]}
        BY DEF Reports
      <3> QED BY <3>1, <3>2, <3>3 DEF M
    <2>3. {r \in rtt_reports_ : now - r.time <= RttTimeout} = Reports(Recent(measured, now))
      <3>1. CASE measured = {}
        BY <3>1 DEF RttOK, Reports, Recent
      <3>2. CASE measured # {}
        <4>1. PICK last \in 0 .. now :
                /\ \A m \in measured : m.time <= last
                /\ rtt_reports_ = Reports(Recent(measured, last))
          BY <3>2 DEF RttOK
        <4>2. Recent(measured, now) \subseteq Recent(measured, last)
          BY <2>1, <4>1 DEF Recent, RttOK
        <4>3. \A r \in rtt_reports_ : now - r.time <= RttTimeout => r \in Reports(Recent(measured, now))
          BY <4>1 DEF Reports, Recent
        <4>4. \A r \in Reports(Recent(measured, now)) : r \in rtt_reports_ /\ now - r.time <= RttTimeout
          BY <4>1, <4>2 DEF Reports, Recent
        <4> QED BY <4>3, <4>4
      <3> QED BY <3>1, <3>2
    <2>4. rtt_reports_' = {r \in rtt_reports_ : now - r.time <= RttTimeout}
                            \cup {[time |-> now, rtt |-> AtLeastOne(transit)]}
      BY <2>1 DEF OnRttUpdate
    <2> QED BY <2>2, <2>3, <2>4
  <1>5. rtt_' = Max({r.rtt : r \in rtt_reports_'})
    BY DEF OnRttUpdate
  <1>6. now \in 0 .. now'
    OBVIOUS
  <1> HIDE DEF new
  <1>7. \E last \in 0 .. now' :
         /\ \E m \in measured' : m.time = last
         /\ \A m \in measured' : m.time <= last
         /\ rtt_reports_' = Reports(Recent(measured', last))
         /\ rtt_' = Max({r.rtt : r \in rtt_reports_'})
    BY <1>2, <1>3, <1>4, <1>5, <1>6
  <1> QED BY <1>1, <1>2, <1>7 DEF RttOK

(* The invariant is kept by every step.                                    *)
LEMMA RtcpStep ==
  ASSUME RtcpInv, [RtcpNext]_rtcpVars PROVE RtcpInv'
  <1>1. now \in Nat /\ MaxTime \in Nat /\ now <= MaxTime
    BY RtcpAssumption DEF RtcpInv
  <1>2. CASE UNCHANGED rtcpVars
    BY <1>2 DEF rtcpVars, srVars, RtcpInv, SrOK, RrtrOK, ToServerOK, RttOK
  <1>3. CASE OnRtpPacket \/ StreamTimeout
    BY <1>3 DEF OnRtpPacket, StreamTimeout, srVars, rttVars, peerVars,
                RtcpInv, SrOK, RrtrOK, ToServerOK, RttOK
  <1>4. CASE TimeToSendRTCP \/ RequestPliCb \/ SendNack
    <2>1. /\ UNCHANGED senderOnly
          /\ \E types : toPeer' = Sent(toPeer, MaxToPeer, [types |-> types, sent |-> now])
      BY <1>4 DEF TimeToSendRTCP, RequestPliCb, SendNack, SendRTCP
    <2>2. \A p \in toPeer' : p.sent \in 0 .. now
      BY <1>1, <2>1, SentIs DEF RtcpInv
    <2> QED BY <2>1, <2>2 DEF senderOnly, srVars, rttVars, peerVars, RtcpInv, SrOK, RrtrOK, ToServerOK, RttOK
  <1>5. ASSUME NEW p \in toServer, IncomingRtcpPacket(p) PROVE RtcpInv'
    <2>1. UNCHANGED <<now, peerRrtr, toPeer>> /\ toServer' \subseteq toServer
      BY <1>5 DEF IncomingRtcpPacket, peerVars
    <2>2. /\ p.sent \in 0 .. now
          /\ p.blocks[1].type \notin BadTypes => p.blocks[1].ntp = PeerNtp + p.sent
          /\ p.blocks[2].type \notin BadTypes => DlrrOK(p.blocks[2], p.sent)
      BY DEF RtcpInv, ToServerOK
    <2>3. SrOK(lastSr, srTransit)'
      <3>1. CASE UNCHANGED srVars
        BY <2>1, <3>1 DEF RtcpInv, SrOK, srVars
      <3>2. CASE Parsed(p, 1) /\ HandleSr(p.blocks[1]) /\ srTransit' = now - p.sent
        <4>1. p.blocks[1].ntp = PeerNtp + p.sent
          BY <2>2, <3>2 DEF Parsed, BadTypes
        <4>2. lastSr' = [ntp |-> PeerNtp + p.sent, arrival |-> ServerNtp + now]
          BY <3>2, <4>1 DEF HandleSr
        <4>3. p.sent \in 0 .. now' /\ now \in p.sent .. now'
          BY <1>1, <2>1, <2>2
        <4> QED BY <3>2, <4>2, <4>3 DEF SrOK
      <3> QED BY <1>5, <3>1, <3>2 DEF IncomingRtcpPacket, HandlesSr
    <2>4. RttOK'
      <3>1. CASE UNCHANGED rttVars
        BY <2>1, <3>1 DEF RtcpInv, RttOK, rttVars
      <3>2. CASE Parsed(p, 2) /\ HandleXrDlrrReport(p.blocks[2], now - p.sent) /\ ~UNCHANGED rttVars
        <4> DEFINE dlrr == p.blocks[2]
                   transit == dlrr.transit + (now - p.sent)
        <4>1. DlrrOK(dlrr, p.sent)
          BY <2>2, <3>2 DEF Parsed, BadTypes
        <4>2. /\ dlrr.last # 0
              /\ OnRttUpdate(CompactNtpRttToMs(
                   (CompactNtp(ServerNtp + now) - dlrr.delay - dlrr.last) % NtpMod))
              /\ measured' = measured \cup {[time |-> now, transit |-> transit]}
          BY <3>2 DEF HandleXrDlrrReport
        <4>3. now \in 0 .. MaxTime /\ RttOK
          BY DEF RtcpInv
        <4> HIDE DEF dlrr
        <4>4. /\ transit \in 0 .. now
              /\ CompactNtpRttToMs((CompactNtp(ServerNtp + now) - dlrr.delay - dlrr.last) % NtpMod)
                   = AtLeastOne(transit)
          BY <2>2, <4>1, <4>2, <4>3, RttIsTransit
        <4> HIDE DEF transit
        <4>5. OnRttUpdate(AtLeastOne(transit))
          BY <4>2, <4>4
        <4> QED BY <1>1, <2>1, <4>2, <4>3, <4>4, <4>5, OnRttUpdateOK
      <3> QED BY <1>5, <3>1, <3>2 DEF IncomingRtcpPacket
    <2>5. now \in 0 .. MaxTime /\ RrtrOK(peerRrtr)'
      BY <2>1 DEF RtcpInv, RrtrOK
    <2>6. \A q \in toServer' : ToServerOK(q)'
      BY <2>1 DEF RtcpInv, ToServerOK
    <2>7. \A q \in toPeer' : q.sent \in 0 .. now
      BY <2>1 DEF RtcpInv
    <2> QED BY <2>1, <2>3, <2>4, <2>5, <2>6, <2>7 DEF RtcpInv
  <1>6. ASSUME NEW p \in toPeer, PeerReceive(p) PROVE RtcpInv'
    <2>1. UNCHANGED <<now, srVars, rttVars, toServer>> /\ toPeer' \subseteq toPeer
      BY <1>6 DEF PeerReceive
    <2>2. RrtrOK(peerRrtr)'
      <3>1. CASE UNCHANGED peerRrtr
        BY <2>1, <3>1 DEF RtcpInv, RrtrOK
      <3>2. CASE peerRrtr' = [last |-> CompactNtp(ServerNtp + p.sent), arrival |-> now,
                              transit |-> now - p.sent]
        <4>1. p.sent \in 0 .. now /\ now \in 0 .. now
          BY <1>1 DEF RtcpInv
        <4> QED BY <2>1, <3>2, <4>1 DEF RrtrOK
      <3> QED BY <1>6, <3>1, <3>2 DEF PeerReceive
    <2> QED BY <2>1, <2>2 DEF srVars, rttVars, RtcpInv, SrOK, ToServerOK, RttOK
  <1>7. CASE PeerReport
    <2>1. UNCHANGED <<now, srVars, rttVars, peerRrtr, toPeer>>
      BY <1>7 DEF PeerReport
    <2>2. PICK b \in {<<Sr("remote"), Dlrr("local")>>, <<Sr("rtx"), Dlrr("other")>>,
               <<BadHeader, Dlrr("local")>>, <<BadBody, Dlrr("local")>>,
               <<Sr("remote"), BadHeader>>} :
            toServer' = Sent(toServer, MaxToServer, [blocks |-> b, sent |-> now])
      BY <1>7 DEF PeerReport
    <2> DEFINE p == [blocks |-> b, sent |-> now]
    <2>3. p.sent = now /\ p.blocks = b /\ now \in 0 .. now
      BY <1>1
    <2>4. \A ssrc : DlrrOK(Dlrr(ssrc), now)
      <3>1. SUFFICES ASSUME NEW ssrc, peerRrtr.last # 0 PROVE DlrrOK(Dlrr(ssrc), now)
        BY DEF DlrrOK, Dlrr
      <3>2. peerRrtr.arrival \in 0 .. now
        BY DEF RtcpInv, RrtrOK
      <3>3. PICK sent \in 0 .. peerRrtr.arrival :
              /\ peerRrtr.last = CompactNtp(ServerNtp + sent)
              /\ peerRrtr.transit = peerRrtr.arrival - sent
        BY <3>1 DEF RtcpInv, RrtrOK
      <3> QED BY <3>2, <3>3 DEF DlrrOK, Dlrr
    <2>5. /\ b[1].type \notin BadTypes => b[1].ntp = PeerNtp + now
          /\ b[2].type \notin BadTypes => \E ssrc : b[2] = Dlrr(ssrc)
      BY <2>2 DEF Sr, BadHeader, BadBody, BadTypes
    <2>6. ToServerOK(p)
      BY <2>3, <2>4, <2>5 DEF ToServerOK
    <2> HIDE DEF p
    <2>7. \A q \in toServer' : ToServerOK(q)
      BY <2>2, <2>6, SentIs DEF p, RtcpInv
    <2>8. \A q \in toServer' : ToServerOK(q)'
      BY <2>1, <2>7 DEF ToServerOK
    <2> QED BY <2>1, <2>8 DEF srVars, rttVars, RtcpInv, SrOK, RrtrOK, RttOK
  <1>8. CASE Lose
    <2>1. /\ UNCHANGED <<now, srVars, rttVars, peerRrtr>>
          /\ toServer' \subseteq toServer /\ toPeer' \subseteq toPeer
      BY <1>8 DEF Lose, peerVars
    <2> QED BY <2>1 DEF srVars, rttVars, RtcpInv, SrOK, RrtrOK, ToServerOK, RttOK
  <1>9. CASE Tick
    <2>1. /\ UNCHANGED <<srVars, rttVars, peerRrtr, toServer, toPeer>>
          /\ now' \in 0 .. MaxTime /\ 0 .. now \subseteq 0 .. now'
          /\ \A i \in 0 .. now : i .. now \subseteq i .. now'
      BY <1>1, <1>9 DEF Tick, peerVars
    <2>2. SrOK(lastSr, srTransit)'
      BY <2>1 DEF RtcpInv, SrOK, srVars
    <2>3. RttOK'
      BY <2>1 DEF RtcpInv, RttOK, rttVars
    <2>4. \A q \in toServer' : ToServerOK(q)'
      BY <2>1 DEF RtcpInv, ToServerOK
    <2>5. RrtrOK(peerRrtr)' /\ \A p \in toPeer' : (p.sent \in 0 .. now)'
      BY <2>1 DEF RtcpInv, RrtrOK
    <2> QED BY <2>1, <2>2, <2>3, <2>4, <2>5 DEF RtcpInv
  <1> QED BY <1>2, <1>3, <1>4, <1>5, <1>6, <1>7, <1>8, <1>9 DEF RtcpNext

(* RtcpInv is an invariant, for any clocks, window and bounds.             *)
THEOREM RtcpInvariance == RtcpSpec => []RtcpInv
  <1>1. RtcpInit => RtcpInv
    <2>1. MaxTime \in Nat
      BY RtcpAssumption
    <2> QED BY <2>1 DEF RtcpInit, NoRrtr, RtcpInv, SrOK, RrtrOK, RttOK
  <1>2. RtcpInv /\ [RtcpNext]_rtcpVars => RtcpInv'
    BY RtcpStep
  <1> QED BY <1>1, <1>2, PTL DEF RtcpSpec

(* LSR and DLSR of a report are of one SR, the last that came: the client  *)
(* computes from them how long the packet with it really took              *)
(* (RTCPReceiver::HandleSr, RTCPSender::CreateRtcpReportBlocks), whichever *)
(* SRs were lost or overtaken and wherever compact NTP wraps.              *)
THEOREM ReportTimesSr == RtcpSpec => []ClientRttIsTransit
  <1>1. RtcpInv => ClientRttIsTransit
    <2> SUFFICES ASSUME RtcpInv, ReportBlock.lsr # 0
                 PROVE  (CompactNtp(PeerNtp + now) - ReportBlock.lsr - ReportBlock.dlsr) % NtpMod
                          = srTransit
      BY DEF ClientRttIsTransit
    <2>1. live /\ FeedbackState.last_rr > 0 /\ NTP
      BY DEF ReportBlock, FeedbackState
    <2>2. PICK sent \in 0 .. now : \E came \in sent .. now :
            /\ lastSr = [ntp |-> PeerNtp + sent, arrival |-> ServerNtp + came]
            /\ srTransit = came - sent
      BY <2>1 DEF RtcpInv, SrOK, NTP, NoSr
    <2>3. PICK came \in sent .. now :
            /\ lastSr = [ntp |-> PeerNtp + sent, arrival |-> ServerNtp + came]
            /\ srTransit = came - sent
      BY <2>2
    <2> DEFINE a == ServerNtp + now
               b == ServerNtp + came
               w == now - came
               c == PeerNtp + now
               d == PeerNtp + sent
               z == 0
    <2>4. /\ now \in Nat /\ MaxTime \in Nat /\ sent \in Nat /\ came \in Nat
          /\ ServerNtp \in Nat /\ PeerNtp \in Nat /\ NtpMod \in Nat \ {0} /\ NtpMod > 2 * MaxTime
          /\ sent <= came /\ came <= now /\ now <= MaxTime
      BY RtcpAssumption DEF RtcpInv
    <2>5. /\ ReportBlock.lsr = CompactNtp(d)
          /\ ReportBlock.dlsr = (CompactNtp(a) - CompactNtp(b)) % NtpMod
      BY <2>1, <2>3 DEF ReportBlock, FeedbackState
    <2>6. /\ a \in Int /\ b \in Int /\ c \in Int /\ d \in Int /\ w \in Int /\ 0 \in Int
          /\ a - b - 0 = w /\ 0 <= a - b - 0 /\ a - b - 0 < NtpMod
          /\ c - d - w = came - sent /\ 0 <= c - d - w /\ c - d - w < NtpMod
      BY <2>4
    <2> HIDE DEF a, b, c, d, w, z
    <2>7. ((a % NtpMod) - (b % NtpMod) - z) % NtpMod = w
      <3>1. NtpMod \in Nat \ {0} /\ a \in Int /\ b \in Int /\ z \in Int /\ 0 <= a - b - z /\ a - b - z < NtpMod
        BY <2>4, <2>6 DEF z
      <3>2. ((a % NtpMod) - (b % NtpMod) - z) % NtpMod = a - b - z
        BY ONLY <3>1, CompactDiff
      <3> QED BY <2>6, <3>2 DEF z
    <2>8. ((c % NtpMod) - (d % NtpMod) - w) % NtpMod = came - sent
      <3>1. NtpMod \in Nat \ {0} /\ c \in Int /\ d \in Int /\ w \in Int /\ 0 <= c - d - w /\ c - d - w < NtpMod
        BY <2>4, <2>6
      <3>2. ((c % NtpMod) - (d % NtpMod) - w) % NtpMod = c - d - w
        BY ONLY <3>1, CompactDiff
      <3> QED BY <2>6, <3>2
    <2>9. a % NtpMod \in Int /\ b % NtpMod \in Int
      BY <2>4, <2>6
    <2>10. ReportBlock.dlsr = w
      BY <2>5, <2>7, <2>9 DEF CompactNtp, z
    <2> QED BY <2>3, <2>5, <2>6, <2>8, <2>10 DEF CompactNtp, c
  <1> QED BY <1>1, RtcpInvariance, PTL

(* The round-trip time in use is the largest that the exchanges answered   *)
(* within RttTimeout of the last answer really took (OnRttUpdate), whatever *)
(* was lost, late or overtaken.                                            *)
THEOREM RttIsRecentMax == RtcpSpec => []NackRttIsRecentMax
  <1>1. RtcpInv => NackRttIsRecentMax
    <2> SUFFICES ASSUME RtcpInv, measured # {} PROVE NackRttIsRecentMax
      BY DEF NackRttIsRecentMax
    <2>1. now \in Nat /\ RttTimeout \in Nat
      BY RtcpAssumption DEF RtcpInv
    <2>2. \A m \in measured : m.time \in 0 .. now /\ m.transit \in 0 .. now
      BY DEF RtcpInv, RttOK
    <2>3. PICK last \in 0 .. now :
            /\ \E m \in measured : m.time = last
            /\ \A m \in measured : m.time <= last
            /\ rtt_reports_ = Reports(Recent(measured, last))
            /\ rtt_ = Max({r.rtt : r \in rtt_reports_})
      BY DEF RtcpInv, RttOK
    <2>4. Max({m.time : m \in measured}) = last
      <3> DEFINE S == {m.time : m \in measured}
      <3>1. S \in SUBSET Nat /\ last \in S /\ \A y \in S : y <= last
        BY <2>1, <2>2, <2>3
      <3> HIDE DEF S
      <3>2. Max(S) = last
        BY <3>1, MaxUnique
      <3> QED BY <3>2 DEF S
    <2> DEFINE M == Recent(measured, last)
               R == {r.rtt : r \in rtt_reports_}
               T == {1} \cup {m.transit : m \in M}
    <2>5. R = {AtLeastOne(m.transit) : m \in M}
      <3>1. rtt_reports_ = {[time |-> m.time, rtt |-> AtLeastOne(m.transit)] : m \in M}
        BY <2>3 DEF Reports
      <3>2. \A m \in M : [time |-> m.time, rtt |-> AtLeastOne(m.transit)].rtt = AtLeastOne(m.transit)
        OBVIOUS
      <3> HIDE DEF M
      <3>3. \A x \in R : \E m \in M : x = AtLeastOne(m.transit)
        BY <3>1
      <3>4. \A m \in M : AtLeastOne(m.transit) \in R
        BY <3>1, <3>2
      <3> HIDE DEF R
      <3> QED BY <3>3, <3>4
    <2>6. M \subseteq measured /\ M # {}
      BY <2>1, <2>3 DEF Recent
    <2>7. R \in SUBSET Nat /\ R # {} /\ \A x \in R : x <= now + 1
      <3>1. \A m \in M : AtLeastOne(m.transit) \in Nat /\ AtLeastOne(m.transit) <= now + 1
        BY <2>1, <2>2, <2>6 DEF AtLeastOne
      <3> HIDE DEF M, R
      <3> QED BY <2>5, <2>6, <3>1
    <2>8. rtt_ \in R /\ \A x \in R : x <= rtt_
      <3> HIDE DEF R
      <3>1. now + 1 \in Nat
        BY <2>1
      <3>2. Max(R) \in R /\ \A x \in R : x <= Max(R)
        BY <2>7, <3>1, MaxIs
      <3> QED BY <2>3, <3>2 DEF R
    <2>9. T \in SUBSET Nat
      BY <2>1, <2>2, <2>6
    <2>10. rtt_ \in T
      <3>1. PICK m \in M : rtt_ = AtLeastOne(m.transit)
        BY <2>5, <2>8
      <3> QED BY <3>1 DEF AtLeastOne
    <2>11. \A x \in T : x <= rtt_
      <3>1. \A m \in M : AtLeastOne(m.transit) <= rtt_
        BY <2>5, <2>8
      <3>2. rtt_ \in Nat
        BY <2>7, <2>8
      <3>3. \A m \in M : m.transit \in Nat
        BY <2>1, <2>2, <2>6
      <3>4. \A m \in M : m.transit <= rtt_ /\ 1 <= rtt_
        BY <3>1, <3>2, <3>3 DEF AtLeastOne
      <3> QED BY <2>6, <3>4
    <2>12. Max(T) = rtt_
      <3> HIDE DEF T
      <3> QED BY <2>9, <2>10, <2>11, MaxUnique
    <2> QED BY <2>4, <2>12 DEF NackRttIsRecentMax, Recent
  <1> QED BY <1>1, RtcpInvariance, PTL
=============================================================================
