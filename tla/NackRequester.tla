--------------------------- MODULE NackRequester ---------------------------
(***************************************************************************)
(* modules/video_coding/nack_requester.cpp: the list of missing packets of *)
(* a pushed video stream and the NACKs sent for them, by the arrival of    *)
(* packets and by a 20 ms timer.                                           *)
(*                                                                         *)
(* A time is kept as the age the code computes from it (now - t), which    *)
(* matters only until it exceeds every RTT.  send_nack_delay_ms_ is 0 and  *)
(* nobody sets it.  The answer of the reordering histogram is              *)
(* any number up to MaxWait once it has a sample.                          *)
(*                                                                         *)
(* The history counts packets from the first one on, which is at position  *)
(* 0, while their numbers wrap around any number of times.                 *)
(***************************************************************************)
EXTENDS SeqNum, FiniteSets

CONSTANTS
  MaxNackRetries, MaxPacketAge, MaxNackPackets,  \* kMaxXxx
  DefaultRtt,   \* kDefaultRttMs
  Rtts,         \* round-trip times that RTCP measures
  MaxRtt,       \* the largest of them
  MaxWait,      \* the largest answer of the histogram
  FirstSeq,     \* the first sequence number received
  MaxAdvance,   \* bound: how many packets the stream has after the first
  MaxJump,      \* bound: how far ahead of the newest a packet can be
  MaxLate       \* bound: how far behind the newest a packet can be

ASSUME RetriesAssumption == MaxNackRetries \in Nat \ {0}
ASSUME RttAssumption ==
  MaxRtt \in Nat /\ DefaultRtt \in 0 .. MaxRtt /\ Rtts \subseteq 0 .. MaxRtt
ASSUME WaitAssumption == MaxWait \in Nat
ASSUME AgeAssumption ==
  {MaxNackPackets, MaxPacketAge} \subseteq Nat /\ MaxNackPackets < MaxPacketAge
ASSUME SpaceAssumption ==
  /\ {MaxJump, MaxLate} \subseteq Nat /\ MaxLate < MaxPacketAge
  /\ 2 * (MaxPacketAge + MaxJump) < SeqSpace
ASSUME AdvanceAssumption == FirstSeq \in SeqNums /\ MaxAdvance \in Nat

Never == -1                  \* send_at_time of a packet not yet NACKed
Ages == 0 .. MaxRtt + 1
NackInfo == [send_at_seq_num : SeqNums, send_at_time : Ages \cup {Never},
             retries : 0 .. MaxNackRetries - 1]
Positions == 0 .. MaxAdvance

VARIABLES
  initialized_, newest_seq_num_,
  nack_list_,      \* missing packet -> NackInfo
  keyframe_list_,  \* first packets of key frames
  rtt_ms_,
  wait,            \* WaitNumberOfPackets(0.5)
  front,           \* history: position of newest_seq_num_
  received,        \* history: positions of the packets received
  dropped,         \* history: positions given up for lack of room
  nacks,           \* history: NACKs sent per position
  since            \* history: age of the last NACK per position

code == <<initialized_, newest_seq_num_, nack_list_, keyframe_list_, rtt_ms_, wait>>
vars == <<code, front, received, dropped, nacks, since>>

Init ==
  /\ initialized_ = FALSE
  /\ newest_seq_num_ = 0
  /\ nack_list_ = [s \in {} |-> Never]
  /\ keyframe_list_ = {}
  /\ rtt_ms_ = DefaultRtt
  /\ wait = 0
  /\ front = 0
  /\ received = {}
  /\ dropped = {}
  /\ nacks = [i \in Positions |-> 0]
  /\ since = [i \in Positions |-> Never]

Plus(s, n) == (s + n) % SeqSpace

(* The positions of numbers at or behind the newest one, which is at pos.  *)
At(S, newest, pos) == {pos - ForwardDiff(s, newest) : s \in S}

(* What is left of a set of numbers once everything before                 *)
(* lower_bound(from) is erased.                                            *)
NotOlder(S, from) == {s \in S : AheadOrAt(s, from)}

Restricted(list, S) == [s \in S |-> list[s]]

----------------------------------------------------------------------------
(* GetNackBatch                                                            *)

\* Mutant: the arrival of packets repeats NACKs, too.
BySeqNumAgain(list, newest) ==
  {s \in DOMAIN list : AheadOrAt(newest, list[s].send_at_seq_num)}

(* kSeqNumOnly: never NACKed, and the newest packet reached the wait line. *)
BySeqNum(list, newest) ==
  {s \in DOMAIN list : /\ list[s].send_at_time = Never
                       /\ AheadOrAt(newest, list[s].send_at_seq_num)}

\* Mutant: the timer only repeats NACKs, it never sends the first one.
ByTimeRepeatsOnly(list) == {s \in DOMAIN list : list[s].send_at_time > rtt_ms_}

(* kTimeOnly: now - send_at_time > rtt_ms_, true also of a packet that was *)
(* never NACKed, whose send_at_time is -1.                                 *)
ByTime(list) ==
  {s \in DOMAIN list : \/ list[s].send_at_time = Never
                       \/ list[s].send_at_time > rtt_ms_}

(* Packets that this NACK brings to the maximum leave the list.            *)
GivenUp(list, batch) == {s \in batch : list[s].retries + 1 >= MaxNackRetries}

(* The list after a batch, whose packets are at the given positions, was   *)
(* taken from it, and SignalNackSend.                                      *)
SendNacks(list, batch, at) ==
  /\ nack_list_' =
       [s \in DOMAIN list \ GivenUp(list, batch) |->
          IF s \in batch
          THEN [list[s] EXCEPT !.retries = @ + 1, !.send_at_time = 0] ELSE list[s]]
  /\ nacks' = [i \in Positions |-> IF i \in at THEN nacks[i] + 1 ELSE nacks[i]]
  /\ since' = [i \in Positions |-> IF i \in at THEN 0 ELSE since[i]]

----------------------------------------------------------------------------
(* OnReceivedPacket                                                        *)

FirstPacket(seq, is_keyframe) ==
  /\ ~initialized_
  /\ initialized_' = TRUE
  /\ newest_seq_num_' = seq
  /\ keyframe_list_' = IF is_keyframe THEN {seq} ELSE {}
  /\ received' = {0}
  /\ UNCHANGED <<nack_list_, rtt_ms_, wait, front, dropped, nacks, since>>

\* Mutant: a late packet is counted, but stays listed as missing.
OldPacketStaysListed(seq, is_retransmitted) ==
  /\ initialized_ /\ AheadOf(newest_seq_num_, seq)
  /\ ForwardDiff(seq, newest_seq_num_) <= MaxLate
  /\ \/ is_retransmitted /\ wait' = wait
     \/ ~is_retransmitted /\ wait' \in 0 .. MaxWait
  /\ received' = received \cup (At({seq}, newest_seq_num_, front) \cap Positions)
  /\ UNCHANGED <<initialized_, newest_seq_num_, nack_list_, keyframe_list_, rtt_ms_,
                 front, dropped, nacks, since>>

(* Recovered by a retransmission, or merely out of order: the latter is a  *)
(* sample for the histogram.  It may be older than the first packet.       *)
OldPacket(seq, is_retransmitted) ==
  /\ initialized_ /\ AheadOf(newest_seq_num_, seq)
  /\ ForwardDiff(seq, newest_seq_num_) <= MaxLate
  /\ nack_list_' = Restricted(nack_list_, DOMAIN nack_list_ \ {seq})
  /\ \/ is_retransmitted /\ wait' = wait
     \/ ~is_retransmitted /\ wait' \in 0 .. MaxWait
  /\ received' = received \cup (At({seq}, newest_seq_num_, front) \cap Positions)
  /\ UNCHANGED <<initialized_, newest_seq_num_, keyframe_list_, rtt_ms_,
                 front, dropped, nacks, since>>

(* The numbers skipped by a packet ahead of the newest.                    *)
Gap(seq) == {Plus(newest_seq_num_, i) : i \in 1 .. ForwardDiff(newest_seq_num_, seq) - 1}

Fits(list, gap) == Cardinality(list) + Cardinality(gap) <= MaxNackPackets

(* RemovePacketsUntilKeyFrame as AddPacketsToNack repeats it: the anchors  *)
(* are tried from the oldest on, until what is left after an anchor fits.  *)
Anchors(missing, keys, gap) == {k \in keys : Fits(NotOlder(missing, k), gap)}
OldestOf(S) == CHOOSE k \in S : \A j \in S : AheadOrAt(j, k)

(* What the list holds after AddPacketsToNack: nothing, not even the new   *)
(* gap, if it does not fit after any anchor.                               *)
Kept(missing, keys, gap) ==
  CASE Fits(missing, gap) -> missing \cup gap
    [] ~Fits(missing, gap) /\ Anchors(missing, keys, gap) # {} ->
         NotOlder(missing, OldestOf(Anchors(missing, keys, gap))) \cup gap
    [] OTHER -> {}

(* The anchors left: those tried in vain are discarded.                    *)
KeptKeys(missing, keys, gap) ==
  CASE Fits(missing, gap) -> keys
    [] ~Fits(missing, gap) /\ Anchors(missing, keys, gap) # {} ->
         NotOlder(keys, OldestOf(Anchors(missing, keys, gap)))
    [] OTHER -> {}

\* Mutant: of a gap only the last packet is listed.
AddPacketsToNackShort(kept, gap) ==
  [s \in {x \in kept : x \notin gap \/ Plus(x, 1) \notin gap} |->
     IF s \in gap
     THEN [send_at_seq_num |-> Plus(s, wait), send_at_time |-> Never, retries |-> 0]
     ELSE nack_list_[s]]

AddPacketsToNack(kept, gap) ==
  [s \in kept |->
     IF s \in gap
     THEN [send_at_seq_num |-> Plus(s, wait), send_at_time |-> Never, retries |-> 0]
     ELSE nack_list_[s]]

(* A packet ahead of the newest: prune the anchors and the list by age,    *)
(* list the gap, NACK what has passed its wait line.                       *)
NewPacket(seq, is_keyframe) ==
  LET oldest == Plus(seq, -MaxPacketAge)
      keys == NotOlder(keyframe_list_ \cup (IF is_keyframe THEN {seq} ELSE {}), oldest)
      missing == NotOlder(DOMAIN nack_list_, oldest)
      kept == Kept(missing, keys, Gap(seq))
      list == AddPacketsToNack(kept, Gap(seq))
      pos == front + ForwardDiff(newest_seq_num_, seq)
  IN  /\ initialized_ /\ seq # newest_seq_num_ /\ AheadOf(seq, newest_seq_num_)
      /\ ForwardDiff(newest_seq_num_, seq) <= MaxJump
      /\ pos <= MaxAdvance
      /\ keyframe_list_' = KeptKeys(missing, keys, Gap(seq))
      /\ newest_seq_num_' = seq
      /\ SendNacks(list, BySeqNum(list, seq), At(BySeqNum(list, seq), seq, pos))
      /\ front' = pos
      /\ received' = received \cup {pos}
      /\ dropped' = dropped \cup At((missing \cup Gap(seq)) \ kept, seq, pos)
      /\ UNCHANGED <<initialized_, rtt_ms_, wait>>

----------------------------------------------------------------------------
(* The timer, every 20 ms.                                                 *)
ProcessNacks ==
  /\ ByTime(nack_list_) # {}
  /\ SendNacks(nack_list_, ByTime(nack_list_),
               At(ByTime(nack_list_), newest_seq_num_, front))
  /\ UNCHANGED <<initialized_, newest_seq_num_, keyframe_list_, rtt_ms_, wait,
                 front, received, dropped>>

UpdateRtt(rtt) ==
  /\ rtt # rtt_ms_
  /\ rtt_ms_' = rtt
  /\ UNCHANGED <<initialized_, newest_seq_num_, nack_list_, keyframe_list_, wait,
                 front, received, dropped, nacks, since>>

Older(age) == IF age \in 0 .. MaxRtt THEN age + 1 ELSE age

(* Time passes.                                                            *)
Tick ==
  /\ nack_list_' = [s \in DOMAIN nack_list_ |->
                      [nack_list_[s] EXCEPT !.send_at_time = Older(@)]]
  /\ since' = [i \in Positions |-> Older(since[i])]
  /\ UNCHANGED <<initialized_, newest_seq_num_, keyframe_list_, rtt_ms_, wait,
                 front, received, dropped, nacks>>

Next ==
  \/ \E key \in BOOLEAN : FirstPacket(FirstSeq, key)
  \/ \E s \in SeqNums, b \in BOOLEAN : OldPacket(s, b) \/ NewPacket(s, b)
  \/ ProcessNacks
  \/ \E rtt \in Rtts : UpdateRtt(rtt)
  \/ Tick

Spec == Init /\ [][Next]_vars

(* The clock runs, and the repeating timer of the event loop fires.        *)
FairSpec == Spec /\ WF_vars(Tick) /\ WF_vars(ProcessNacks)

----------------------------------------------------------------------------
TypeOK ==
  /\ initialized_ \in BOOLEAN
  /\ newest_seq_num_ \in SeqNums
  /\ DOMAIN nack_list_ \subseteq SeqNums
  /\ \A s \in DOMAIN nack_list_ : nack_list_[s] \in NackInfo
  /\ keyframe_list_ \subseteq SeqNums
  /\ rtt_ms_ \in 0 .. MaxRtt
  /\ wait \in 0 .. MaxWait
  /\ front \in Positions
  /\ received \subseteq Positions
  /\ dropped \subseteq Positions
  /\ nacks \in [Positions -> Nat]
  /\ since \in [Positions -> Ages \cup {Never}]

(* The list never outgrows kMaxNackPackets, and all it holds lies within   *)
(* kMaxPacketAge behind the newest packet: the half of the number space in *)
(* which DescendingSeqNumComp orders it is never left.                     *)
ListBounded ==
  /\ Cardinality(DOMAIN nack_list_) <= MaxNackPackets
  /\ \A s \in DOMAIN nack_list_ :
       ForwardDiff(s, newest_seq_num_) \in 1 .. MaxPacketAge

Listed == At(DOMAIN nack_list_, newest_seq_num_, front)

(* What is in the list has not arrived, early, late or by retransmission,  *)
(* and the list keeps its bounds.                                          *)
ListedIsMissing == Listed \cap received = {} /\ ListBounded

(* No gap is forgotten: a packet that was skipped, did not arrive, was not *)
(* dropped for lack of room, is not too old and still has retries left is  *)
(* in the list.                                                            *)
GapsListed ==
  \A i \in 1 .. front : \/ i \in received \cup dropped \cup Listed
                        \/ nacks[i] = MaxNackRetries
                        \/ front - i > MaxPacketAge

(* Backoff: whichever trigger sends it, a repeated NACK for a packet comes *)
(* more than the current RTT after the previous one.                       *)
RepeatsAfterRtt ==
  [][\A i \in Positions :
       nacks'[i] > nacks[i] /\ nacks[i] > 0 => since[i] > rtt_ms_]_vars

(* A listed packet does not stay listed: it arrives, is given up after     *)
(* kMaxNackRetries NACKs or dropped.                                       *)
MissingResolved ==
  \A s \in SeqNums : s \in DOMAIN nack_list_ ~> s \notin DOMAIN nack_list_
============================================================================
