# A TLA+ model of xrtc-server 2.0

xrtc-server is a WebRTC media server (an SFU). A signaling client asks over TCP
for a stream to be pushed or pulled; the server answers with an SDP offer, sets
up ICE, DTLS and SRTP with the media client over UDP, and forwards the RTP
packets of a push stream to the pull streams of the same name, with NACK
retransmission and RTCP reports.

This directory holds TLA+ modules translated from the code under `src/src/`,
the TLC configurations that check them, and TLAPS proofs. `PROJECT.json` maps
every definition to the lines it stands for, and lists the runs, the hazards
and the findings. Paths below are relative to `src/src/`.

    tlc -config MCLockFreeQueue.cfg MCLockFreeQueue     # one run
    tlapm LockFreeQueueProofs.tla                       # the proofs

## 1. The system

### Threads

| thread | code | talks to |
|---|---|---|
| acceptor | `server/signaling_server.cpp` | hands an accepted fd to a signaling worker, round robin |
| signaling workers | `server/signaling_worker.cpp` | own the TCP connections, parse requests, pass them to RtcServer, send replies |
| RtcServer | `server/rtc_server.cpp` | chooses the RtcWorker by uid or stream name, owns the DTLS certificate |
| RtcWorkers | `server/rtc_worker.cpp` | execute requests; own the streams, transports and UDP sockets |
| log writer | `base/log.cpp` | writes log lines |

Each thread is a libev loop (`base/event_loop.cpp`). Threads share no tables.
They pass messages through queues (`base/lock_free_queue.h`, or a deque under a
mutex) and announce each message by an int written to the pipe of the queue's
owner. Within a thread a callback runs to its end, so inside an RtcWorker the
only concurrency is the order of callbacks; but callbacks nest through sigslot
signals, and objects are deleted from inside their own callbacks.

### Components

| component | state | operations | hard behaviour | what makes it correct |
|---|---|---|---|---|
| lock-free queue | linked list with `first`, `divider`, `last`, an atomic size | Produce, Consume | producer frees nodes while the consumer walks | memory safety, FIFO |
| signaling and routing | tables of connections, queues, pipes | accept, read a request, time out, route, execute, reply | idle timeout against a late result; reuse of fds and of addresses; blocking pipe writes | a reply goes to the asker; nothing is stranded; requests of a uid keep their order |
| stream manager | `push_streams_`, `pull_streams_`, `multi_pull_streams_`, timers | PUSH, PULL, ANSWER, STOP, state reports, 30 s timeout | removal by (uid, name) from four paths | map entries and objects agree; packets reach whom they should |
| video forwarding | ring of 2048 packets, last forwarded number | packet received, key frame complete | loss, reordering, duplicates, 16-bit wrap-around, restart | in order, gaps end at key frames, no freeze |
| NACK requester | list of missing packets, key-frame anchors, RTT | packet received, 20 ms timer, RTT update | two triggers, list at its limit, wrap-around | bounded, complete, backs off, ends |
| receive statistics | loss ledger, baseline of the last report | packet received, report | late, duplicate and far packets, restarts | the ledger is the number of missing packets |
| ICE channel | connections, controller, selected connection, states | packet, response, error, ping timer | nested callbacks, deletion under way, timeouts | sends on a usable connection; reports what is; fails when the peer is gone |
| DTLS, SRTP, transport controller | handshake state, keys, aggregate state | ICE state, packet, fingerprint | order of ClientHello, answer and ICE writability; order of slots | keys of the verified session only; the reported state is current; the handshake ends |
| peer connection, SDP, media streams | descriptions, receive and send streams, times of the last SR | offer, answer, packet, SR, destroy | answers refused half-way, answered again, push replaced under its pulls | an offer says what the last answer said; clients get what they were told of |
| RTCP sender/receiver | report flags, last SR, round-trip window | report timer, PLI timer, NACK, packet | loss, overtaking, 32-bit time arithmetic | both sides compute the round trip that was |
| start and shutdown | threads, pipes, mutex of the log | signal, QUIT, join | handlers interrupt main anywhere and each other; pipes closed under writers | a signal ends the process, bottom up |

How they interact: a request goes acceptor → signaling worker → RtcServer →
RtcWorker → stream manager, and its result back the same way. The stream manager
owns streams; a stream owns a peer connection; that owns a transport controller
with an ICE agent, one ICE channel and one DTLS/SRTP transport per transport.
States travel upwards by signals: connection → channel → agent and DTLS →
controller → peer connection → stream → manager, which deletes the stream on
kFailed. Media travels upwards through the same objects to the push stream,
whose video forwarding hands packets to the manager, which hands them to the
pull streams. NACKs go the other way.

The hazards, each with its line and with the properties that would catch it,
are in `PROJECT.json`.

## 2. The modules

| module | models | checked by |
|---|---|---|
| `FifoQueue` | abstract queue of one producer and one consumer | refinement |
| `LockFreeQueue` | `base/lock_free_queue.h`, one action per access to shared memory | `MCLockFreeQueue` |
| `SignalingPipeline` | `server/*`: a request from `accept` to its reply | `MCSignalingPipeline` |
| `StreamManager` | `stream/rtc_stream_manager.cpp`, `rtc_stream.cpp`, destruction of the peer connection | `MCStreamManager` |
| `SeqNum` | 16-bit sequence-number arithmetic of webrtc (external) | by its users |
| `VideoForward` | `stream/push_stream.cpp` | `MCMedia` |
| `NackRequester` | `modules/video_coding/nack_requester.cpp` | `MCNackRequester` |
| `StreamStat` | `modules/rtp_rtcp/receive_stat.cpp`, class StreamStat | `MCReports`, `MCStreamStat` |
| `IceChannel` | `ice/`: channel, controller, connections, the port's dispatch, STUN requests | `MCIceChannel` |
| `PeerConnection` | `pc/peer_connection.cpp`, the SSRC lines of `pc/session_description.cpp`, `video/`, `audio/`, sources copied from push to pull | `MCMedia` |
| `Rtcp` | `modules/rtp_rtcp/` sender, receiver and module, the RTT window of `pc/peer_connection.cpp` | `MCReports` |
| `Shutdown` | `main.cpp`, Start, Stop, InnerStop and Join of servers and workers, the mutex of `base/log.cpp` | `MCShutdown` |
| `Transport` | `pc/dtls_transport.cpp`, `dtls_srtp_transport.cpp`, `srtp_transport.cpp`, `transport_controller.cpp`, `ice/ice_agent.cpp`, for one bundled transport | `MCTransport` |

The theorems are in modules of their own, which tlapm checks (section 4). `LockFreeQueueProofs`, `SignalingProofs`,
`StreamManagerProofs`, `NackRequesterProofs` and `ShutdownProofs` are about the modules they are named after; three others hold two
components that share lemmas: `TransportProofs` (`Transport` and `IceChannel`), `ReportProofs` (`StreamStat` and `Rtcp`) and
`MediaProofs` (`VideoForward` and `PeerConnection`). So that the two can be extended together, the formulas of the second one have a
prefix: `IceSpec`, `RtcpSpec`, `PeerSpec`.

Variables keep the names of the code's members. A definition that begins
with "Mutant" in its comment is a plausible wrong variant of the definition
that follows it; it is not used by the specification and documents which
mistake a property excludes.

**LockFreeQueue.** Produce is: build a node and link it (`LinkNode`), publish it
(`AdvanceLast`), count it, then compare `first` with `divider` and free, in a
loop. Consume is: compare `divider` with `last`, read the value, advance
`divider`, uncount. Each is a step, so that the two threads interleave at every
access. A node is a number in allocation order; `freed` are the deleted ones.

**SignalingPipeline.** A message pushed into a queue and the int written to the
pipe are two steps; the write waits while the pipe is full, and a thread that owes
an int does nothing else. A connection carries one request, so a message is
named by its client. The idle timer may run out at any time after the
connection is open. `conn` are TcpConnection objects by address; the
allocator may return the address of a deleted one at any time. Two histories serve the properties: `slot` is the
worker, fd and address that a client's connection got, and `uncertified` are the clients whose
request RtcServer dropped.

**StreamManager.** One handler is one action, with all removals and deletions it
does. What a peer connection reports is any of the states the transport
controller computes. A stream is `alive`, then `dying` while only its peer
connection exists, then `gone`.

**VideoForward.** One action is one received packet, through the cache, the
forwarding loop and the frame assembler to `OnFrame`, as in the code, where the
assembler is called after the forwarding and calls back before it returns.

**NackRequester**, **StreamStat.** One action per branch of the packet handler and
one per timer. Times are kept as ages, capped where the code no longer tells
them apart. The histories of `NackRequester` count packets by position, from the first one on, while the code's numbers wrap.

**IceChannel.** The state of connections and channel is one record that
the code's nested calls transform; an action composes them in the order in which the
code makes the calls. The code uses connections after it has deleted them
(section 6). Such a step either finds the contents still there or sets `wild`, which
ends the behaviour: nothing is claimed beyond it.

**Transport.** One action is one callback of the loop: a change of the channel's
connections, an answer, a packet of the peer or an event that the SSL adapter
posted. An operator on the record `s` is a handler with all the slots it runs, in
the order in which they were connected; the controller's come before those of the SRTP
transport, so `kConnected` is reported before the keys are installed, but within
the same callback, and no other can see the difference. The adapter
(`rtc::SSLStreamAdapter`) is external: its state is what the code can learn of the
handshake. `set_remote_ice_params` and `SetRemoteFingerprint` of one answer are a
`ChannelUpdate` and a `SetRemoteFingerprint`.

**PeerConnection.** The streams of one name in live mode. A session description is a
sequence of lines, reduced to those about SSRCs and those that cannot be parsed; parsing
(`Section`, `SsrcInfo`, `CreateTrackFromSsrcInfo`, `Tracks`) and writing (`BuildSsrc`, `OfferText`) are
separate translations, so that `OfferReadsAsAnswer` compares what one side writes with what the
other would read. An answer replaces the description first and adds the tracks last, and a line
that is refused ends it in between. A packet is its SSRC; `wire` is what the last step sent.

**Rtcp.** One RTCP module of a video receive stream and the client at the other end, which is
external: it sends SR and DLRR blocks, some of other streams, some whose header cannot be parsed (which ends
the packet) and some whose body cannot (which are skipped). The history `srTransit` is
taken from the packet of the last SR as it comes, not from what the receiver keeps of it. Both
clocks run equally fast with an arbitrary offset; the time is in units of compact NTP, which wraps.
The network loses, delays and reorders.

**Shutdown.** The main thread, the two servers and their workers. A signal handler is a frame on
a stack on top of main: as long as there is one, main does nothing else. It takes the mutex
of the log, writes QUIT to one pipe and then to the other. A server that reads QUIT closes its
pipe, one end after the other, and stops and joins its workers one by one; requests
go on meanwhile. A write to a pipe whose read end is closed kills the process (SIGPIPE);
a write to a closed descriptor is lost.

## 3. The runs

| run | states | question |
|---|---|---|
| `queue` | 4,637 | Is the list memory safe and a FIFO under every interleaving? |
| `signaling` | 675,421 | Three clients, two workers of each kind, one hang-up, one certificate failure, any timeout, any fd and any address reused: do tables, queues and pipes stay consistent, do replies go home or at least to the same slot, does every request get one? |
| `signaling_reuse` | violation | Two clients one after the other in the same slot: a reply reaches the wrong one. |
| `signaling_gridlock` | violation | Six clients, pipes of one int: three threads wait for each other in blocking writes. |
| `streams` | 256,724 | Two uids, three streams, both modes, every order of requests, reports and timers: do maps and objects agree? |
| `media` | 359,102 | 25 packets round the whole number space, five key frames, any loss, delay within the cache, duplication: order, gaps, recovery. Two pushes with two answers each, out of four kinds, under a user who pulls before, between and after: do offers and packets agree with the answers? |
| `nack` | 81,262 | The list at its limit, both triggers, changing RTT, wrap-around. |
| `reports` | 1,976,775 | Any six packets from seven numbers near the wrap-around and beyond the reordering threshold, with reports in between. Two SRs and their answers lost, late and overtaking, with NTP wrapping: are the round trips of both sides right? |
| `stat_claim` | violation | Is the reported loss monotone, or do at least its differences equal those of the ledger? A late packet and a duplicate break both. |
| `ice` | 491,014 | Two connections that answer, err, time out and are deleted in every order. |
| `transport` | 1,774 | ICE changes, ClientHellos, answers and ends of sessions in every order: are reports current, keys those of the verified session, and does the handshake end? |
| `shutdown` | 622,392 | Three signals, two of which may nest, two signaling workers, one RTC worker, one request in flight: does everything end, in order, without touching closed pipes when idle? |

Runs `media` and `reports` each hold two components that share no state and no property. In a behaviour one of them moves and the other stays
as it began, so that their states add up (292,038 and 67,064; 119,385 and 1,857,390) instead of multiplying.

What each property says is in the comment above its definition. Every property
of a passing run is broken by at least one mutant of the code it is about
(`PROJECT.json`, `mutants`). `TypeOK` is checked as a property of `LockFreeQueue` only; elsewhere it is part of the
invariants that are proved (section 4).

**Bounds.** `queue`: four nodes are one more than are ever needed to have a deleted,
a consumed and a pending node at a time with the next one being linked; the proofs
remove the bound. `signaling`: two fds for three clients force reuse of an fd
while a reply is under way, a pipe of two ints can fill; the requests (PULL and
ANSWER of one uid, a PUSH) exercise both routings. Two addresses are enough, since at most two
connections exist at a time, and a third one then takes the address of a closed one. What three requests cannot bring about is the gridlock of
the three pipes, which takes `3 * (PipeCap + 1)` messages and descriptors under way (`GridlockTakesFullPipes`): nine with two ints to a pipe, six with one, and
49,155 with the 16,384 ints of a Linux pipe. `signaling_gridlock` has six requests and pipes of one int, one worker of each kind, and reaches it. With as many requests
`ReplyOrClose` holds only by its exception for `Gridlock`; in run `signaling` no state is a gridlock, and the exception is never used. `streams`: three objects are a
registered stream, one that displaces it and one that arrives later, in one
name, since names never interact. `media`, forwarding: SeqSpace 20 and a cache of 5 keep what the code relies on
(the cache divides the number space and is at most a quarter of it; 2048 and 65536 in the code);
25 packets from number 17 on pass the wrap-around, use every slot five times and some numbers twice. `Window` and `Span` bound how late and how far ahead
packets come, as far as the cache allows; the proofs remove the other bounds. `nack`: age 3, list 2, retries 2 against 10000, 1000, 10: every limit
is met; `SpaceAssumption` states what the real numbers satisfy. `reports`, losses: threshold 4 for 450. `ice`: two
addresses are needed for selection and enough for it, since the controller
compares pairs; one tick is 2.5 s, longer than any ping interval, and the timeouts are counted in ticks. `transport`:
two good fingerprints and one of the wrong length, and four DTLS sessions: a first handshake, its
replacement by another answer, a failure, and a handshake after it. `reports`, times: the run passes the wrap-around of compact NTP
between an SR and its report, with as many packets under way as it takes for one to overtake
another, and answers that leave the window of the round-trip times. `media`, descriptions: four answers (with RTX; without, with a bad line outside
all sections; without audio and two tracks with mixed lines; refused after its first tracks) in every
sequence of two for two pushes. One user is enough, because pulls do not influence each other. `shutdown`: two signaling workers are
needed for one to be stopped while the other still sends requests; the third signal comes while the first two are being handled.

**Fairness.** `signaling`: an event loop with an int to read or a writable
socket runs the handler; a thread inside `write` goes on when the pipe has room. No
client and no idle timer has to act. `streams`: an armed timer fires. `nack`: the
clock runs and the repeating timer fires. `ice`: while the ping timer runs, time
passes, and a tick needs the timer to have fired. `transport`: the loop runs what was posted to it,
and a client that waits for DTLS sends its flights again, as RFC 6347 demands; ICE and the answer need not come
(`HandshakeEnds` assumes them in its premise). `shutdown`: every thread that can go on does (weak fairness), and a
handler that waits for the mutex of the log gets it if it is free again and again (strong fairness: the others hold it
for the time of a queue operation, and glibc hands a contended mutex on sooner or later). No client and no signal has to come.
Safety runs assume none.

`CHECK_DEADLOCK FALSE` appears where the system may stop: all clients
served, all bounded objects used, or undefined behaviour reached.

## 4. What is proved

TLC checks small instances; the theorems below hold for every value of the constants that satisfies the
named `ASSUME`s of the modules (which TLC evaluates in the runs). Each component has an
inductive invariant (`IInv`; `IceInv`, `RtcpInv` and `PeerInv` for the second component of a module) that the initial states satisfy and every action
preserves, one lemma per action; TLC has checked each of them on the instance of the run before it was proved. The
types that the proofs need are part of it. Every safety property that a passing run checks is the statement of a theorem.

| module | theorems (the property each one states) |
|---|---|
| `LockFreeQueueProofs` | `TypeCorrect` (`TypeOK`), `MemorySafe` (`NoUseAfterFree`), `SizeCorrect` (`SizeTracksLength`), `ReclaimComplete` (`ReclaimCatchesUp`), `Refinement` (`ImplementsFifo`) |
| `SignalingProofs` | `TablesAreSound` (`ConnTableSound`), `RepliesReachAskerOrSlot` (`ReplyToAskerOrSlot`), `PullsInOrder` (`PullOrder`), `IntsAreMessages` (`IntsMatchMessages`), `GridlockTakesFullPipes` |
| `StreamManagerProofs` | `EntriesDoNotDangle` (`NoDanglingEntry`), `StreamsDoNotLeak` (`NoLeak`), `FanOutIsExact` (`FanOut`) |
| `MediaProofs` | `SentInOrder` (`ForwardedInOrder`), `GapsEndAtKeys` (`GapEndsAtKeyFrame`), `NothingWaits` (`NothingHeldBack`), `KeyFramesArrive` (`KeyFrameDelivered`); `OfferIsAnswer` (`OfferReadsAsAnswer`), `SentWasAnnounced` (`SentIsAnnounced`), `SrIsOfPush` (`SrFollowsPush`) |
| `NackRequesterProofs` | `ListIsMissing` (`ListedIsMissing`), `NoGapForgotten` (`GapsListed`), `RepeatsKeepDistance` (`RepeatsAfterRtt`) |
| `ReportProofs` | `LedgerIsExact` (`LedgerCountsMissing`), `ReportsAreShifted` (`ReportsShiftedLedger`); `ReportTimesSr` (`ClientRttIsTransit`), `RttIsRecentMax` (`NackRttIsRecentMax`) |
| `TransportProofs` | `ReportsAreCurrent` (`ReportIsCurrent`), `KeysAreVerified` (`KeysOfVerifiedSession`), `HelloIsKept` (`HelloNotLost`); `IceTypeCorrect` (`IceTypeOK`), `ChannelReportIsCurrent` (`ReportsCurrentState`), `SelectionIsUsable` (`SelectedIsUsable`), `SwitchesImprove` (`SwitchImproves`) |
| `ShutdownProofs` | `ThreadsEndBottomUp` (`EndsBottomUp`), `IdleStopsClean` (`CleanWhenIdle`) |

**LockFreeQueueProofs**, for any values and any number of nodes. The contents of the dummy node are any value.
Memory safety is not inductive. `IInv` adds to the types that
`first <= divider <= last`, that these are the lengths of the histories and that exactly the nodes before
`first` are deleted (`PointersInOrder`); that the nodes up to `last` form one chain that holds the
published values, with at most the linked node beyond (`Chain`); and what each thread knows
between two accesses (`ThreadFacts`): the producer frees only below the `divider` it compared
with, which can only have grown, and the consumer reads beyond a `divider` that only it
moves and below a `last` that only grows. The refinement maps the abstract queue to `Pending`, the values
of the nodes from `divider` on up to `last`: `AdvanceLast` appends to it, `AdvanceDivider`
takes its head, and every other access is a stuttering step.

**SignalingProofs**, for any clients, workers, descriptors, addresses and capacities of pipes. Uids and checksums are natural
numbers (`RequestsAssumption`), and a null pointer is none of the objects (`NullAssumption`). The tables are
sound because a descriptor on its way to a worker is open, in no table and on its way once (`QueuedFds`), and
a descriptor is in one table at most. `RepliesReachAskerOrSlot` has no premise about the allocator. A client has one
connection in its life (`OneSocket`), and a connection in a table lies in the slot of its client (`SlotsHeld`); a message names the slot of
its sender (`MsgsRefer`), and a reply is queued only at a connection in that slot (`OwnReplies`). Two clients in one slot are there one after the other,
so the sender's connection is closed by then. Run `signaling_reuse` shows that this case occurs. The order rests on `OrderInv`: at each RTC worker, what was
executed entered before what is queued, and that before what is queued at RtcServer. `IntsMatchMessages` needs the types and
`QueuedFds` only; the work is in counting: what a read, a write and a beginning debt do to the two cardinalities.
`GridlockTakesFullPipes` follows from it: a full pipe and a write to it account for `PipeCap + 1` messages of its owner.

**StreamManagerProofs**, for any users, names and number of streams. `NoDanglingEntry` and `NoLeak` need each
other (a stream is destroyed through its entry, and the entry goes with it) and that ids not yet given out have left no
trace (`Lifecycle`). `FanOut` follows: the entry of a name is the only existing push of that name.

**MediaProofs, VideoForward**, for any number space, cache that divides it and is at most a quarter of it, key frames that are disjoint and fit
into the cache, and streams of any length, whose numbers may wrap around any number of times. The theorems have one premise, about the network and not about the code, `WithinCache`: a packet comes less than
`Window` behind the newest one and at most `Span` ahead of the last one forwarded, and both are within the cache. In a longer
stall slots collide, and a complete key frame may be lost (section 6).
`IInv` says that what the cache holds was received, sits in its own slot and is less than the cache size behind, and at most `Span` ahead
of, the last packet sent (`Fresh`); so equal numbers are equal packets, equal slots too, and `AheadOrAt` is their
order, which the first part of the module proves from the arithmetic of remainders. It says further that all that came ahead of its turn is still there (`Holds`),
that the next packet is not (`Stopped`), that what was skipped lies before a complete key frame
that forwarding went on with (`SkippedForKey`), and that forwarding has reached every complete key frame (`KeysReached`). The lemma
`Forward` is about the loop that `ProcessVideoPacket` and `OnFrame` share; that it ends within the cache needs `Fresh`, and that
`ClearVideoPacketCache` removes nothing that is still needed is `ClearIs` and `AdvanceCached`. `NothingHeldBack` and the
delivery of key frames are two sides of one argument: had the rest of a complete key frame not gone out, its next packet would be cached
by `Holds`, against `Stopped`.

**MediaProofs, PeerConnection**, for any set of answers, that is any sequences of lines, and any users and numbers of pushes.
`OfferIsAnswer` says that writing and reading a description are inverse to each other on all that reading can yield. The tracks that
`Tracks` returns are `Described`: each has an SSRC, no name and no SSRC occurs twice, and a group is in the track of its first SSRC
(`TracksDescribed`). Of such tracks it is proved where their lines are in what `BuildSsrc` writes (`Laid`), in which section they are in the
offer, and that reading these finds the same tracks in the same order (`SectionRead`, `OfferRead`). The invariant
`PeerInv` then says that a push has the description of its last answer, or none if that was refused, and as SSRC of a medium the first one of its first track
(`PushOK`); that offer and send streams of a pull are those of the answers it was made from (`PullOK`); and that after an SR of the present
push no pull keeps the one of an earlier push (`SrCurrent`).

**NackRequesterProofs**, for any number space, limits and RTTs, and through any number of wrap-arounds: the history is
kept by position in the stream. All that the code compares lies within `MaxPacketAge + MaxJump` behind the newest packet, which is less than
half the number space (`SpaceAssumption`: with `kMaxPacketAge` 10000 it allows jumps up to 22767). There the wrapping
distance is the difference of positions and `AheadOrAt` their order; the first part of the module proves
that. `IInv` says that the entries agree with the history of their
positions, that anchors lie within the age limit, and that the future is untouched. A gap that exceeds the age limit is no exception to
`GapsListed`: it is longer than `MaxNackPackets < MaxPacketAge`, so that it is never listed, and counted as dropped.

**ReportProofs, StreamStat**, for any number space, threshold, cap and number of packets and reports. As long as there was no restart, the counted
positions lie between the first and the front (`CountedBetween`), so a packet ahead adds as many missing positions as the
code adds to the ledger, and a late one fills one. For the reports, the offset is the deepest negative ledger so far
(`IsShift`), which is unique, so that it is what the property's `CHOOSE` takes.

**ReportProofs, Rtcp**, for any clocks, window and numbers of packets. The one premise is in `RtcpAssumption`: `NtpMod > 2 * MaxTime`, a run is shorter than half
the cycle of compact NTP (which is 18 hours), and begins anywhere in it. Neither property speaks of packets that are still on
their way, so `RtcpInv` does: an SR, an RRTR and a DLRR block, wherever they are kept, carry the times at which they were really sent and came, the two times kept of an SR are those of one packet, and `srTransit` is how long that took
(`SrOK`, `RrtrOK`, `DlrrOK`, `ToServerOK`), whichever packets were lost and in whatever order the others come. Then a difference of wrapped times is the
elapsed time. `RttOK` adds that the window holds what was measured within `RttTimeout` of the last measurement, and that the
requester was told the largest of it.

**TransportProofs, Transport**, for any certificates and number of sessions. `IInv` relates the state of DTLS to that of the SSL adapter
(`Handshake`), the certificate to the answer (`Verified`), the keys to the session (`Keyed`), and the ClientHello to the
cache (`Remembered`). Since slots run inside handlers, the lemmas are about the operators on the record `s`: each nested call keeps
the parts that later calls of the same handler rely on.

**TransportProofs, IceChannel**, for any addresses, priorities, round-trip times and timeouts, up to the step that
sets `wild`. `IceInv` says that the list of the controller holds exactly the live connections, each once (`Core`, `Complete`), that a
selected connection is listed and can be sent on (`Usable`), and that what was last reported is what the connections say
(`IceReported`). Inside a handler this is not always so: each nested call is proved to keep
`Core`, and `SortConnectionsAndUpdateState` to restore the rest. That the sorted list has the same connections needs that there is a sorted
one at all, which the section "Sorting" proves by counting for each connection how many come before it. For
`SwitchImproves`, the nested calls are shown to change the controller's selection only to a smaller round-trip time (`Improves`), which is
transitive, as a handler may switch several times.

**ShutdownProofs**, for any number of workers, signals and requests; a server may have no worker.
`EndsBottomUp` needs how far main and each server are (`MainOrder`, `ServerOrder`: the workers before `next` have ended).
`CleanWhenIdle` needs that with one signal everybody is asked to stop at most once and before closing (`Quiet`).

**Only model-checked.**

* Liveness, which is out of the prover's reach: `ReplyOrClose`, `UnconnectedIsReaped`, `MissingResolved`, `FailsWhenSilent`,
  `HandshakeEnds`, `SignalEndsProcess`.

Induction over data is out of reach as well, in the form of the library's theorems. Where a proof needs what a loop or a recursive function computes
(`UpdateConnectionStates`, the flattening of SSRC lines, the forwarding loop), it takes the least index at which the claim fails
and derives a contradiction from the one before.

## 5. Findings

* `signaling_worker.cpp:140`: a late result meets a new connection with the
  same fd and address, and the reply goes to another client (run `signaling_reuse`).
* `signaling_worker.cpp:112`: the pipes between signaling workers, RtcServer and RtcWorkers are blocking and written from inside handlers, so
  that three full pipes stop three threads for ever, and the requests of everybody with them (run `signaling_gridlock`). Note v2_15.3, line 69,
  demands of such channels that a receiver never hangs its sender; only the pipe of `RtcStreamManager` is set to `O_NONBLOCK`. It takes
  some 49,000 requests under way at once.
* `receive_stat.cpp:157` calls the reported loss monotone and says that the offset preserves differences. Late packets lower it (run
  `stat_claim`), and when the ledger falls to a new low the offset changes with it, so that the reports differ by less than the ledger did (the same run).
  What does hold is `ReportsShiftedLedger`.

## 6. Met while modelling, without a run

* `rtc_stream_manager.cpp:306`: a transparent PULL of another uid overwrites the
  entry of an existing stream, which is then not destroyed when it fails, although `rtc_stream.cpp:58` relies on it.
  `NoLeak` and `UnconnectedIsReaped` except transparent pulls for this reason.
* `push_stream.cpp:116`: packets are cached before late ones are dropped, so that
  the range cleared by a restart fills again, against the comment at 195.
* `push_stream.cpp:84-94`: a packet takes its slot from whatever is there. In a stall longer than the cache (`Window` and `Span` 7, a cache of 5,
  twelve packets) a late packet can overwrite the first packet of a later key frame; when that frame is complete, `OnFrame` finds nothing to forward, moves
  `video_seq_` before it, and the pull streams wait for another key frame. With those constants TLC refutes `KeyFrameDelivered` and not the
  other three properties.
* `ice_transport_channel.cpp:205`: after the selected connection is destroyed the
  controller goes on comparing with it, and a usable one is not selected unless it is clearly better.
* `signaling_server.cpp:202`: QUIT is ignored as long as `thread_` is not assigned, and the thread runs before that:
  a signal in this window stops the RTC server only. `Shutdown` models it; `SignalEndsProcess` is
  stated for signals handled after Start.
* `main.cpp:86`: the handler of one signal may interrupt that of the other inside its log line and
  then waits for ever for a mutex that its own thread holds (`Stuck`). SIGPIPE is not ignored, so a write between
  the two `close` calls of `InnerStop` (`signaling_worker.cpp:125-126`) ends the process; a second signal, and requests
  during the shutdown, write to closed descriptors.
* `peer_connection.cpp:461`: `remote_desc_` is replaced before the answer is parsed. After an answer that is refused the push
  goes on with its old receive streams, but later pulls get no sources and are sent nothing; neither does a
  pull that came before the answer ever get send streams.
* `peer_connection.cpp:606-615`: `remote_video_rtx_ssrc_` keeps its value when a later answer has no RTX.
* `rtc_stream_manager.cpp:285-295`: pulls that exist when the push is replaced or answered again are forwarded
  SSRCs that their offers did not announce (`SentIsAnnounced` says exactly when), and keep the time line of the old push until
  the first SR of the new one.
* `peer_connection.cpp:710`: a retransmission to a pull without an RTX SSRC goes out with SSRC 0.
  `peer_connection.cpp:683-699`: everything is sent on the transport named audio, so a session without audio sends nothing.
* `peer_connection.cpp:480` looks for the bundle in a line `m=group:BUNDLE`. The receive stream
  takes the first video track, the send stream the last, and RTX is the second SSRC in the order of the lines, whatever the FID group says.
* `pull_stream.cpp:70`: `!pc && state() != kConnected` was meant as "or".
* `rtcp_receiver.cpp:163`: the case of XR falls through into that of RTPFB, and the block is counted as skipped.
* `async_udp_socket.cpp:92`: packets that the socket does not take are queued without a bound, and an error of an old
  packet drops the new one.
* `ice_connection.cpp:245-248`: UpdateState goes on with a connection it deleted.
  `stun_request.cpp:67`: an error response deletes the connection and its
  requests, then the request again. `udp_port.cpp:146`: connections are never
  removed from the port's map, so later packets reach a deleted one. All three are
  undefined behaviour; `IceChannel` models them as `wild`.
* `nack_requester.cpp:49` (and the comment in the header, line 55) say the timer repeats NACKs already
  sent; `send_at_time` is -1 before the first one, so the timer sends that too. The
  model follows the code.
* `receive_stat.cpp:104`: when a restart of the sender is confirmed, the postponed packet
  (whose credit line 111 took back) is charged and never credited, so that the ledger is one
  too high although everything arrived; `receive_stat.h:46-47` says it is then even. `LedgerCountsMissing` is
  therefore stated until the first restart.
* `receive_stat.cpp:144-150`: the first report divides by
  `received_seq_max_ + 1`; after a restart to smaller numbers the fraction may need more than
  8 bits.
* `transport_controller.cpp:85-86` connects the slot for writability to the
  receiving signal; `ReportIsCurrent` shows that no report is missed for it, since each change of
  writability that matters comes with a change of state.
* `transport_controller.cpp:229` counts a closed DTLS transport with the connected ones, so a stream
  whose client closed DTLS stays until ICE fails.
* `dtls_transport.cpp:361`: the end of the handshake sets `writable` although ICE may have stopped being
  writable meanwhile. Packets are then handed to a channel that drops them.
* `transport_controller.cpp:298` takes for granted that an answer carries a fingerprint.

## 7. What is not modelled, and why

* `Transport` and `StreamManager` are not composed: `StreamManager` lets a peer connection report
  any state in any order. In `Transport`, packets of media, the RTP and RTCP transports without
  bundling, and destruction are left out.
* STUN and RTP encoding, the other lines of SDP, encryption: data without control.
* Sockets, the watchers of the event loop, log files and configuration: thin layers over the system. The send list of
  `AsyncUdpSocket` is left for later. The histogram of reordering distances is a number up to `MaxWait` to `NackRequester`, which asks it how long to
  wait (`nack_requester.cpp:138-144`); how it computes its quantile is left out.
* In `SignalingPipeline`: partial reads and writes of a TCP socket (a request is read and a
  reply written at once), and the contents of requests. Left out of `ReadQuery` are a failure of `SendRtcMsg`, that is of the write to a pipe, which
  closes the connection (pipes are written while they are open; closing them is in `Shutdown`), and bytes after a complete request.
* In `Shutdown`: the capacity of pipes, descriptors that are reused after they were closed, and
  what a handler may not do besides taking the mutex.
* In `PeerConnection`: transparent mode, several users, sequence numbers and payloads of RTX packets.
* In `Rtcp`: the layout of packets; the rotation of report blocks (`receive_stat.cpp:226-245`), since a
  module has two SSRCs at most and a report room for 31 blocks.
* In `StreamStat`: jitter, and the rotation of report blocks over more than 31 SSRCs.
* In `IceChannel`: gathering of local candidates, and the destructor.
* Vendored libraries (`third_party/`).

## 8. Plan

1. An abstract specification of what a peer connection reports, which `Transport` implements and
   `StreamManager` uses.
2. Loss recovery from end to end: `VideoForward`, `NackRequester`, `Rtcp` and RTX.
3. A composition of routing and stream managers: PULL is routed by uid and PUSH by name, so with several
   workers a pull can miss its push (the repository's note v2_15.1).
