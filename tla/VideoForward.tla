---------------------------- MODULE VideoForward ----------------------------
(***************************************************************************)
(* stream/push_stream.cpp: the video packets of a live push stream, their  *)
(* cache, and the in-order forwarding to the pull streams with its restart *)
(* at a complete key frame.                                                *)
(*                                                                         *)
(* The pushing client sends packets 0, 1, 2, ... whose sequence numbers    *)
(* start anywhere and wrap around.  The network loses, delays, reorders    *)
(* and duplicates them; a packet recovered by RTX arrives like any other.  *)
(* One action is one packet received: RtpVideoStreamReceiver::OnRtpPacket  *)
(* first hands it to PushStream::OnRtpPacket and then to the frame         *)
(* assembler, which may call PushStream::OnFrame before returning.         *)
(***************************************************************************)
EXTENDS Integers, Sequences, FiniteSets, SequencesExt, SeqNum

CONSTANTS
  CacheSize,   \* kVideoPacketCacheSize
  MaxPacket,   \* bound: the last packet the client sends
  FirstSeq,    \* sequence number of packet 0
  KeyFrames,   \* <<first packet, last packet>> of every key frame
  Window,      \* bound: a packet arrives less than this behind the newest
  Span,        \* bound: a packet arrives at most this far ahead of the last
               \* packet forwarded
  None         \* empty cache slot (nullptr)

Packets == 0 .. MaxPacket

(* The cache is a small part of the number space (2048 of 65536).          *)
ASSUME CacheAssumption ==
  /\ CacheSize \in Nat \ {0}
  /\ SeqSpace % CacheSize = 0 /\ 4 * CacheSize <= SeqSpace
ASSUME PacketsAssumption == MaxPacket \in Nat
ASSUME FirstSeqAssumption == FirstSeq \in SeqNums
ASSUME WindowAssumption == Window \in Nat /\ Span \in Nat
(* Frames are disjoint runs of packets that fit into the cache.            *)
ASSUME KeyFramesAssumption ==
  /\ KeyFrames \subseteq Packets \X Packets
  /\ \A f \in KeyFrames : f[1] <= f[2] /\ f[2] < f[1] + CacheSize
  /\ \A f, g \in KeyFrames : f = g \/ f[2] < g[1] \/ g[2] < f[1]
ASSUME NoneAssumption == None \notin Packets

(* The network delays packets, and a gap stalls forwarding, for no longer  *)
(* than the cache remembers.                                               *)
WithinCache == Window <= CacheSize /\ Span < CacheSize

(* The conversion of a computed number to uint16_t.                        *)
Wrap(n) == n % SeqSpace

SeqNo(p) == Wrap(FirstSeq + p)
Slots == 0 .. CacheSize - 1

VARIABLES
  video_data_buffer_,  \* slot -> packet
  video_seq_,          \* newest sequence number forwarded without a gap
  started,             \* first_seq_time_ # -1
  forwarded,           \* history: packets handed to the pull streams
  received             \* history: packets received (also what the frame
                       \* assembler knows)

vars == <<video_data_buffer_, video_seq_, started, forwarded, received>>

Init ==
  /\ video_data_buffer_ = [i \in Slots |-> None]
  /\ video_seq_ = 0
  /\ started = FALSE
  /\ forwarded = <<>>
  /\ received = {}

----------------------------------------------------------------------------
(* The cache                                                               *)

(* FindVideoPacket: the slot holds a packet with exactly this number.      *)
InCache(buffer, seq) ==
  buffer[seq % CacheSize] # None /\ SeqNo(buffer[seq % CacheSize]) = seq

(* CacheVideoPacket: an older packet in the slot is overwritten.           *)
CacheVideoPacket(buffer, p) ==
  IF InCache(buffer, SeqNo(p)) THEN buffer
  ELSE [buffer EXCEPT ![SeqNo(p) % CacheSize] = p]

(* ClearVideoPacketCache empties the slots of the numbers from .. to,      *)
(* whatever they hold, and gives up after CacheSize + 1 numbers.           *)
ClearVideoPacketCache(buffer, from, to) ==
  [i \in Slots |->
     IF \E n \in 0 .. CacheSize :
          /\ \A m \in 0 .. n : AheadOrAt(to, Wrap(from + m))
          /\ i = Wrap(from + n) % CacheSize
     THEN None ELSE buffer[i]]

\* Mutant: only the packet that has just arrived is forwarded.
RunLengthOne(buffer, seq) == IF InCache(buffer, seq) THEN 1 ELSE 0

(* The do-while loops: how many consecutive numbers from seq on are cached,*)
(* at most CacheSize + 1.                                                  *)
RunLength(buffer, seq) ==
  CHOOSE n \in 0 .. CacheSize + 1 :
    /\ \A i \in 0 .. n - 1 : InCache(buffer, Wrap(seq + i))
    /\ n <= CacheSize => ~InCache(buffer, Wrap(seq + n))

Run(buffer, seq, n) ==
  [i \in 1 .. n |-> buffer[Wrap(seq + i - 1) % CacheSize]]

----------------------------------------------------------------------------
(* ProcessVideoPacket and OnFrame, on a record of the fields they change.  *)

\* Mutant: a packet after a gap is forwarded at once.
InOrderOrAhead(st, p) == AheadOf(SeqNo(p), st.seq)

(* Not a duplicate or late packet, and no gap before it.                   *)
InOrder(st, p) ==
  ~AheadOrAt(st.seq, SeqNo(p)) /\ SeqNo(p) = Wrap(st.seq + 1)

(* CacheVideoPacket comes first, for every packet; the first packet ever   *)
(* is forwarded and taken as the start; later ones only in order, followed *)
(* by what they release from the cache.                                    *)
ProcessVideoPacket(st, p) ==
  LET buffer == CacheVideoPacket(st.buffer, p)
      n == RunLength(buffer, SeqNo(p))
  IN  CASE ~st.started ->
             [buffer |-> buffer, seq |-> SeqNo(p), started |-> TRUE,
              sent |-> Append(st.sent, p)]
        [] st.started /\ InOrder(st, p) ->
             [buffer |-> buffer, seq |-> Wrap(SeqNo(p) + n - 1), started |-> TRUE,
              sent |-> st.sent \o Run(buffer, SeqNo(p), n)]
        [] OTHER -> [st EXCEPT !.buffer = buffer]

\* Mutant: a key frame restarts forwarding even when it is not ahead.
RestartsAlways(st, first) == TRUE

\* Mutant: a key frame restarts forwarding only when nothing is missing before it.
RestartsOnlyNext(st, first) == SeqNo(first) = Wrap(st.seq + 1)

Restarts(st, first) == AheadOf(SeqNo(first), st.seq)

(* OnFrame of a key frame: forward from its first packet on, forget what   *)
(* was skipped.                                                            *)
OnFrame(st, first) ==
  LET n == RunLength(st.buffer, SeqNo(first))
  IN  IF ~Restarts(st, first) THEN st
      ELSE [buffer |-> ClearVideoPacketCache(st.buffer, Wrap(st.seq + 1),
                                             Wrap(SeqNo(first) - 1)),
            seq |-> Wrap(SeqNo(first) + n - 1),
            started |-> TRUE,
            sent |-> st.sent \o Run(st.buffer, SeqNo(first), n)]

(* The frame assembler (webrtc PacketBuffer): a frame is complete when the *)
(* last missing packet of it arrives.                                      *)
Completes(p, f) ==
  /\ p \notin received
  /\ f[1] <= p /\ p <= f[2]
  /\ (f[1] .. f[2]) \ {p} \subseteq received

(* Packet p arrives.                                                       *)
OnRtpPacket(p) ==
  LET st == ProcessVideoPacket([buffer |-> video_data_buffer_, seq |-> video_seq_,
                                started |-> started, sent |-> forwarded], p)
      key == {f \in KeyFrames : Completes(p, f)}
      new == IF key = {} THEN st ELSE OnFrame(st, (CHOOSE f \in key : TRUE)[1])
  IN  /\ \A q \in received : q - p < Window
      /\ forwarded # <<>> => p <= Last(forwarded) + Span
      /\ video_data_buffer_' = new.buffer
      /\ video_seq_' = new.seq
      /\ started' = new.started
      /\ forwarded' = new.sent
      /\ received' = received \cup {p}

Next == \E p \in Packets : OnRtpPacket(p)

Spec == Init /\ [][Next]_vars

----------------------------------------------------------------------------
TypeOK ==
  /\ video_data_buffer_ \in [Slots -> Packets \cup {None}]
  /\ video_seq_ \in SeqNums
  /\ started \in BOOLEAN
  /\ forwarded \in Seq(Packets)
  /\ received \subseteq Packets

(* The pull streams see every packet at most once and in the order it was  *)
(* sent, across loss, reordering, duplicates, restarts and wrap-around.    *)
ForwardedInOrder ==
  \A i \in 1 .. Len(forwarded) - 1 : forwarded[i] < forwarded[i + 1]

Complete(f) == f[1] .. f[2] \subseteq received

(* A gap in what the pull streams see ends at the first packet of a key    *)
(* frame that had arrived completely: they never get the rest of a frame   *)
(* they cannot decode.                                                     *)
GapEndsAtKeyFrame ==
  \A i \in 1 .. Len(forwarded) - 1 : forwarded[i + 1] # forwarded[i] + 1 =>
    \E f \in KeyFrames : f[1] = forwarded[i + 1] /\ Complete(f)

(* Nothing that could go out is kept back: the successor of the last       *)
(* forwarded packet is not in the cache.                                   *)
NothingHeldBack == started => ~InCache(video_data_buffer_, Wrap(video_seq_ + 1))

(* Recovery: the newest key frame that arrived completely, if it starts    *)
(* after the packet forwarding began with, has been forwarded as a whole,  *)
(* whatever is missing before it.                                          *)
KeyFrameDelivered ==
  \A f \in KeyFrames :
    /\ Complete(f) /\ f[1] > forwarded[1]
    /\ \A g \in KeyFrames : Complete(g) => g[1] <= f[1]
    => f[1] .. f[2] \subseteq ToSet(forwarded)
=============================================================================
