------------------------------- MODULE Rtcp -------------------------------
(***************************************************************************)
(* The RTCP module of a video receive stream (RtpRtcpImpl with its         *)
(* RTCPSender and RTCPReceiver), the report blocks of ReceiveStat and the  *)
(* round-trip times that PeerConnection hands to the NACK requester.       *)
(*                                                                         *)
(* The other end is the client that pushes the stream: it sends sender     *)
(* reports (SR) and, in an extended report, the answer to the receiver     *)
(* reference time of the server (DLRR).  Packets may be lost, delayed and  *)
(* overtaken.  Time is counted in units of compact NTP, which wraps at     *)
(* NtpMod (2^32 in the code).  The two clocks run equally fast and are     *)
(* apart by an arbitrary offset.  Every module is in kCompound mode, which *)
(* is what the constructors of all streams set; XR is on, as for video.    *)
(***************************************************************************)
EXTENDS Integers, Sequences, FiniteSets, FiniteSetsExt

CONSTANTS
  NtpMod,       \* compact NTP is taken modulo this number
  ServerNtp,    \* NTP time of the server at time 0
  PeerNtp,      \* NTP time of the client at time 0
  RttTimeout,   \* kRttTimeoutMs, in ticks
  MaxTime,      \* bound: ticks
  MaxSrs,       \* bound: compound packets the client sends
  MaxToServer,  \* bound: packets under way to the server
  MaxToPeer     \* bound: packets under way to the client

ASSUME RtcpAssumption ==
  /\ {NtpMod, ServerNtp, PeerNtp, MaxTime, MaxSrs,
      MaxToServer, MaxToPeer} \subseteq Nat \ {0}
  /\ RttTimeout \in Nat
  /\ NtpMod > 2 * MaxTime

VARIABLES
  now,
  report_flags_,           \* types waiting in RTCPSender
  live,                    \* ReceiveStat: some stream has a block to report
  lastSr,                  \* RTCPReceiver: NTP of the last SR and its arrival, or NoSr
  srTransit,               \* history: how long the packet with that SR was under way
  rtt_reports_,            \* PeerConnection: recent [time, rtt]
  rtt_,                    \* NackRequester: the round-trip time in use
  measured,                \* history: [time, transit] of every round trip measured
  peerRrtr,                \* the client: the last RRTR and its arrival
  srs,                     \* the number of packets the client has sent
  toServer, toPeer         \* packets under way

rtcpVars == <<now, report_flags_, live, lastSr, srTransit,
              rtt_reports_, rtt_, measured, peerRrtr, srs, toServer, toPeer>>

srVars   == <<lastSr, srTransit>>
rttVars  == <<rtt_reports_, rtt_, measured>>
peerVars == <<peerRrtr, srs>>

NoSr   == [ntp |-> 0, arrival |-> 0]
NoRrtr == [last |-> 0, arrival |-> 0, transit |-> 0]

CompactNtp(ntp) == ntp % NtpMod

RtcpInit ==
  /\ now = 0
  /\ report_flags_ = {}
  /\ live = FALSE
  /\ lastSr = NoSr /\ srTransit = 0
  /\ rtt_reports_ = {} /\ rtt_ = 0 /\ measured = {}
  /\ peerRrtr = NoRrtr /\ srs = 0
  /\ toServer = {} /\ toPeer = {}

\* A packet is put on the network; it is lost when bound packets are under way.
Sent(net, bound, p) == IF Cardinality(net) < bound THEN net \cup {p} ELSE net

-----------------------------------------------------------------------------
(* ReceiveStat *)

\* OnRtpPacket: a stream has packets to report.
OnRtpPacket ==
  /\ live' = TRUE
  /\ UNCHANGED <<now, report_flags_, srVars, rttVars, peerVars, toServer, toPeer>>

\* No packet for kStreamStatTimeoutMs: reports have no blocks.
StreamTimeout ==
  /\ live
  /\ live' = FALSE
  /\ UNCHANGED <<now, report_flags_, srVars, rttVars, peerVars, toServer, toPeer>>

-----------------------------------------------------------------------------
(* RTCPSender *)

\* PrepareReport of a receiver in kCompound mode: a request for a report is
\* consumed, RR is added unless it is there, and XR goes with it.
PrepareReport(flags) ==
  IF flags \cap {"SR", "RR"} # {} THEN flags \cup {"XR"}
  ELSE (flags \ {"REPORT"}) \cup {"RR", "XR"}

\* NTP: whether an SR has come.
NTP == lastSr.arrival # 0

\* GetFeedbackState: what a report says about the last SR.
FeedbackState ==
  [remote_sr |-> IF NTP THEN CompactNtp(lastSr.ntp) ELSE 0,
   last_rr   |-> IF NTP THEN lastSr.arrival ELSE 0]

\* CreateRtcpReportBlocks: LSR and DLSR of the blocks.
ReportBlock ==
  IF live /\ FeedbackState.last_rr > 0
  THEN [lsr |-> FeedbackState.remote_sr,
        dlsr |-> (CompactNtp(ServerNtp + now) - CompactNtp(FeedbackState.last_rr)) % NtpMod]
  ELSE [lsr |-> 0, dlsr |-> 0]

\* The blocks built from the flags; REPORT has no builder.
Built(flags) == flags \ {"REPORT"}

\* SendRTCP, ComputeCompoundRTCPPacket: every flag is volatile, so all are
\* erased as their blocks are built; one packet is sent.
SendRTCP(type) ==
  LET flags == PrepareReport(report_flags_ \cup {type})
  IN  /\ report_flags_' = {}
      /\ toPeer' = Sent(toPeer, MaxToPeer, [types |-> Built(flags), sent |-> now])

senderOnly == <<now, live, srVars, rttVars, peerVars, toServer>>

\* The report timer, the PLI timer and the NACK requester.
TimeToSendRTCP == SendRTCP("REPORT") /\ UNCHANGED senderOnly
RequestPliCb   == SendRTCP("PLI")    /\ UNCHANGED senderOnly
SendNack       == SendRTCP("NACK")   /\ UNCHANGED senderOnly

-----------------------------------------------------------------------------
(* RTCPReceiver and PeerConnection *)

\* Mutant: the NTP time is that of the first SR, only its arrival is renewed.
HandleSrKeepsNtp(sr) ==
  lastSr' = [ntp |-> IF lastSr = NoSr THEN sr.ntp ELSE lastSr.ntp, arrival |-> ServerNtp + now]

\* HandleSr: remembers the last SR of the media stream and when it came.
HandleSr(sr) == lastSr' = [ntp |-> sr.ntp, arrival |-> ServerNtp + now]

\* webrtc::CompactNtpRttToMs: a negative interval, and zero, become the least time.
CompactNtpRttToMs(d) == IF 2 * d > NtpMod \/ d = 0 THEN 1 ELSE d

\* Mutant: the last value, not the largest.
OnRttUpdateLast(rtt) ==
  /\ rtt_reports_' = {r \in rtt_reports_ \cup {[time |-> now, rtt |-> rtt]} :
                        now - r.time <= RttTimeout}
  /\ rtt_' = rtt

\* PeerConnection::OnRttUpdate: the largest time of the last RttTimeout.
OnRttUpdate(rtt) ==
  /\ rtt_reports_' = {r \in rtt_reports_ \cup {[time |-> now, rtt |-> rtt]} :
                        now - r.time <= RttTimeout}
  /\ rtt_' = Max({r.rtt : r \in rtt_reports_'})

\* HandleXrDlrrReport: ignored for another SSRC, and when the client has had no RRTR.
HandleXrDlrrReport(dlrr, transit) ==
  IF dlrr.ssrc # "local" \/ dlrr.last = 0
  THEN UNCHANGED rttVars
  ELSE /\ OnRttUpdate(CompactNtpRttToMs(
                        (CompactNtp(ServerNtp + now) - dlrr.delay - dlrr.last) % NtpMod))
       /\ measured' = measured \cup {[time |-> now, transit |-> dlrr.transit + transit]}

\* ParseCompoundPacket: a block whose header cannot be parsed ends the packet,
\* one whose body cannot be parsed is skipped; the SR of another stream is ignored.
Parsed(p, b) ==
  /\ b \in DOMAIN p.blocks /\ p.blocks[b].type # "badBody"
  /\ \A c \in 1 .. b : p.blocks[c].type # "badHeader"

HandlesSr(p) == Parsed(p, 1) /\ p.blocks[1].ssrc = "remote"

IncomingRtcpPacket(p) ==
  /\ p \in toServer
  /\ toServer' = toServer \ {p}
  /\ IF HandlesSr(p)
     THEN HandleSr(p.blocks[1]) /\ srTransit' = now - p.sent ELSE UNCHANGED srVars
  /\ IF Parsed(p, 2)
     THEN HandleXrDlrrReport(p.blocks[2], now - p.sent) ELSE UNCHANGED rttVars
  /\ UNCHANGED <<now, report_flags_, live, peerVars, toPeer>>

-----------------------------------------------------------------------------
(* The client and the network (external) *)

Sr(ssrc)   == [type |-> "SR", ssrc |-> ssrc, ntp |-> PeerNtp + now]
Dlrr(ssrc) == [type |-> "DLRR", ssrc |-> ssrc, last |-> peerRrtr.last,
               delay |-> now - peerRrtr.arrival, transit |-> peerRrtr.transit]
BadHeader  == [type |-> "badHeader"]
BadBody    == [type |-> "badBody"]

\* The client sends an SR and its answer to the last RRTR it has; reports of
\* its RTX stream and about other streams, and blocks that cannot be parsed.
PeerReport ==
  /\ srs < MaxSrs
  /\ srs' = srs + 1
  /\ \E b \in {<<Sr("remote"), Dlrr("local")>>, <<Sr("rtx"), Dlrr("other")>>,
               <<BadHeader, Dlrr("local")>>, <<BadBody, Dlrr("local")>>,
               <<Sr("remote"), BadHeader>>} :
       toServer' = Sent(toServer, MaxToServer, [blocks |-> b, sent |-> now])
  /\ UNCHANGED <<now, report_flags_, live, srVars, rttVars, peerRrtr, toPeer>>

PeerReceive(p) ==
  /\ p \in toPeer
  /\ toPeer' = toPeer \ {p}
  /\ peerRrtr' = IF "XR" \in p.types
                 THEN [last |-> CompactNtp(ServerNtp + p.sent), arrival |-> now,
                       transit |-> now - p.sent]
                 ELSE peerRrtr
  /\ UNCHANGED <<now, report_flags_, live, srVars, rttVars, srs, toServer>>

Lose ==
  /\ \/ \E p \in toServer : toServer' = toServer \ {p} /\ UNCHANGED toPeer
     \/ \E p \in toPeer : toPeer' = toPeer \ {p} /\ UNCHANGED toServer
  /\ UNCHANGED <<now, report_flags_, live, srVars, rttVars, peerVars>>

Tick ==
  /\ now < MaxTime
  /\ now' = now + 1
  /\ UNCHANGED <<report_flags_, live, srVars, rttVars, peerVars, toServer, toPeer>>

RtcpNext ==
  \/ OnRtpPacket \/ StreamTimeout
  \/ TimeToSendRTCP \/ RequestPliCb \/ SendNack
  \/ \E p \in toServer : IncomingRtcpPacket(p)
  \/ \E p \in toPeer : PeerReceive(p)
  \/ PeerReport \/ Lose \/ Tick

RtcpSpec == RtcpInit /\ [][RtcpNext]_rtcpVars

-----------------------------------------------------------------------------
(* A report lets the client compute the time its SR and the report were    *)
(* under way: LSR and DLSR of a report sent now describe one SR, the last  *)
(* that came, and the client arrives at the time the packet with it really *)
(* took, also when SRs overtake each other and compact NTP wraps between   *)
(* them.  (A client takes LSR 0 for: no SR yet.)                           *)
ClientRttIsTransit ==
  ReportBlock.lsr # 0 =>
    (CompactNtp(PeerNtp + now) - ReportBlock.lsr - ReportBlock.dlsr) % NtpMod = srTransit

(* The round-trip time the NACK requester works with is the largest of     *)
(* those really taken by the exchanges answered in the window before the   *)
(* last answer, whatever was late, lost or overtaken.                      *)
NackRttIsRecentMax ==
  measured # {} =>
    LET last == Max({m.time : m \in measured})
    IN  rtt_ = Max({1} \cup {m.transit : m \in {k \in measured : last - k.time <= RttTimeout}})
============================================================================
