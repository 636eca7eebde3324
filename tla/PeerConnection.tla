--------------------------- MODULE PeerConnection ---------------------------
(***************************************************************************)
(* The media sessions of one stream name in live mode: what the peer       *)
(* connection of the pushing client takes from its answer, what a pull     *)
(* stream copies of that for its own offer, and what is then sent to the   *)
(* pulling clients (pc/peer_connection.cpp, stream/push_stream.cpp,        *)
(* stream/pull_stream.cpp, video/ and audio/).                             *)
(*                                                                         *)
(* An SSRC is a positive number; 0 is no SSRC, as in the code.  A session  *)
(* description is a sequence of lines, of which those are kept that say    *)
(* something about SSRCs, and those that cannot be parsed: [type "m",      *)
(* media], [type "ssrc", ssrc, track], [type "group", ssrcs], [type "bad"]. *)
(* RTP payloads, sequence numbers and the order of forwarding are the      *)
(* subject of VideoForward.                                                *)
(***************************************************************************)
EXTENDS Integers, Sequences, FiniteSets, SequencesExt

CONSTANTS
  Uids,        \* pulling users
  Answers,     \* answers of pushing clients
  MaxPushes,   \* bound: push streams created
  MaxAnswers,  \* bound: answers to one push stream
  MaxSent      \* bound: packets sent to one pull stream

Line == [type : {"m"}, media : {"audio", "video"}]
          \cup [type : {"ssrc"}, ssrc : Nat \ {0}, track : STRING]
          \cup [type : {"group"}, ssrcs : Seq(Nat \ {0}) \ {<<>>}] \cup [type : {"bad"}]

ASSUME AnswersAssumption == \A a \in Answers : a \in Seq(Line)
ASSUME PeerBoundsAssumption == {MaxPushes, MaxAnswers, MaxSent} \subseteq Nat \ {0}

VARIABLES
  pushes,    \* the number of push streams created so far
  push,      \* the push stream, or NoStream
  pull,      \* the pull stream of each user, or NoStream
  wire       \* what the last step sent to pulling clients

peerVars == <<pushes, push, pull, wire>>

NoStream == [id |-> 0]
NoDesc   == [audio |-> <<>>, video |-> <<>>]
NoSr     == [push |-> 0, media |-> "none"]
NoVideoStream == [ssrc |-> 0, rtx |-> 0]

PeerInit ==
  /\ pushes = 0
  /\ push = NoStream
  /\ pull = [u \in Uids |-> NoStream]
  /\ wire = {}

-----------------------------------------------------------------------------
(* Session descriptions *)

\* The media section that a line is in.
Section(sdp, i) ==
  LET ms == {j \in 1 .. i : sdp[j].type = "m"}
  IN  IF ms = {} THEN "none" ELSE sdp[Max(ms)].media

\* A line of a media section that ParseTransportInfo, ParseSsrcInfo or
\* ParseSsrcGroupInfo refuses; other lines are not looked at.
Refused(sdp) == \E i \in DOMAIN sdp : sdp[i].type = "bad" /\ Section(sdp, i) # "none"

\* The numbers of a finite set, in ascending order.
Ascending(S) ==
  CHOOSE f \in [1 .. Cardinality(S) -> S] : \A i, j \in DOMAIN f : i < j => f[i] < f[j]

\* ParseSsrcInfo: one entry for each SSRC, in the order in which they come;
\* of several lines about an SSRC the last one counts.
SsrcInfo(sdp, media) ==
  LET lines    == {i \in DOMAIN sdp : sdp[i].type = "ssrc" /\ Section(sdp, i) = media}
      About(i) == {j \in lines : sdp[j].ssrc = sdp[i].ssrc}
      first    == Ascending({i \in lines : \A j \in About(i) : i <= j})
  IN  [k \in DOMAIN first |-> [ssrc_id |-> sdp[first[k]].ssrc,
                               track_id |-> sdp[Max(About(first[k]))].track]]

\* CreateTrackFromSsrcInfo: SSRCs of the same track, in the order of their lines.
CreateTrackFromSsrcInfo(infos) ==
  LET InTrack(k) == {j \in DOMAIN infos : infos[j].track_id = infos[k].track_id}
      first      == Ascending({k \in DOMAIN infos : \A j \in InTrack(k) : k <= j})
      Ssrcs(k)   == LET mine == Ascending(InTrack(k)) IN [j \in DOMAIN mine |-> infos[mine[j]].ssrc_id]
  IN  [k \in DOMAIN first |-> [id |-> infos[first[k]].track_id, ssrcs |-> Ssrcs(first[k])]]

\* The tracks of a medium; SSRC groups, of video only, go to the track that has
\* their first SSRC.
Tracks(sdp, media) ==
  LET tracks    == CreateTrackFromSsrcInfo(SsrcInfo(sdp, media))
      Groups(k) == LET mine == Ascending({i \in DOMAIN sdp :
                                 /\ sdp[i].type = "group" /\ Section(sdp, i) = media
                                 /\ media = "video" /\ sdp[i].ssrcs[1] \in Range(tracks[k].ssrcs)})
                   IN  [j \in DOMAIN mine |-> sdp[mine[j]]]
  IN  [k \in DOMAIN tracks |-> [id |-> tracks[k].id, ssrcs |-> tracks[k].ssrcs, groups |-> Groups(k)]]

\* BuildSsrc: the lines of a section of an offer.
BuildSsrc(tracks) ==
  FlattenSeq([k \in DOMAIN tracks |->
    tracks[k].groups \o [j \in DOMAIN tracks[k].ssrcs |->
       [type |-> "ssrc", ssrc |-> tracks[k].ssrcs[j], track |-> tracks[k].id]]])

\* SessionDescription::ToString: a section for each medium of the offer.
OfferText(media, audio, video) ==
  (IF "audio" \in media THEN <<[type |-> "m", media |-> "audio"]>> \o BuildSsrc(audio) ELSE <<>>)
  \o (IF "video" \in media THEN <<[type |-> "m", media |-> "video"]>> \o BuildSsrc(video) ELSE <<>>)

FirstSsrc(track) == IF track.ssrcs = <<>> THEN 0 ELSE track.ssrcs[1]

-----------------------------------------------------------------------------
(* The push stream *)

\* CreatePushStream: a stream of that name is deleted; pull streams stay.
CreatePushStream ==
  /\ pushes < MaxPushes
  /\ pushes' = pushes + 1
  /\ push' = [id |-> pushes + 1, remote_desc_ |-> NoDesc,
              remote_audio_ssrc_ |-> 0, remote_video_ssrc_ |-> 0,
              remote_video_rtx_ssrc_ |-> 0,
              audio_receive_stream_ |-> 0,
              video_receive_stream_ |-> NoVideoStream,
              srs |-> {}, answers |-> <<>>]
  /\ wire' = {}
  /\ UNCHANGED pull

StopPush ==
  /\ push # NoStream
  /\ push' = NoStream
  /\ wire' = {}
  /\ UNCHANGED <<pushes, pull>>

\* The media stream, and the RTX stream that is there when its SSRC is known.
VideoReceiveStream(ssrc, rtx) == [ssrc |-> ssrc, rtx |-> rtx]

\* Only the first track counts, and its second SSRC is taken for RTX.
CreateVideoReceiveStream(p, video) ==
  IF video = <<>> \/ FirstSsrc(video[1]) = 0 THEN p
  ELSE LET ssrcs == video[1].ssrcs
           rtx   == IF Len(ssrcs) >= 2 THEN ssrcs[2] ELSE p.remote_video_rtx_ssrc_
       IN  [p EXCEPT !.remote_video_ssrc_ = ssrcs[1],
                     !.remote_video_rtx_ssrc_ = rtx,
                     !.video_receive_stream_ = VideoReceiveStream(ssrcs[1], rtx)]

CreateAudioReceiveStream(p, audio) ==
  IF audio = <<>> \/ FirstSsrc(audio[1]) = 0 THEN p
  ELSE [p EXCEPT !.remote_audio_ssrc_ = FirstSsrc(audio[1]),
                 !.audio_receive_stream_ = FirstSsrc(audio[1])]

\* Mutant: a description that is there is completed instead of replaced.
RemoteDescMerged(p, a) ==
  IF Refused(a) THEN p.remote_desc_
  ELSE [audio |-> IF Tracks(a, "audio") = <<>> THEN p.remote_desc_.audio ELSE Tracks(a, "audio"),
        video |-> IF Tracks(a, "video") = <<>> THEN p.remote_desc_.video ELSE Tracks(a, "video")]

\* remote_desc_ is replaced before the answer is parsed, and the tracks are
\* added when all of it has been.
RemoteDesc(p, a) ==
  IF Refused(a) THEN NoDesc ELSE [audio |-> Tracks(a, "audio"), video |-> Tracks(a, "video")]

\* SetRemoteSdp: an answer that is refused leaves the streams as they are.
SetRemoteSdp(a) ==
  /\ push # NoStream
  /\ Len(push.answers) < MaxAnswers
  /\ LET desc == RemoteDesc(push, a)
         p    == [push EXCEPT !.remote_desc_ = desc, !.answers = Append(@, a)]
     IN  push' = IF Refused(a) THEN p
                 ELSE CreateAudioReceiveStream(CreateVideoReceiveStream(p, desc.video), desc.audio)
  /\ wire' = {}
  /\ UNCHANGED <<pushes, pull>>

-----------------------------------------------------------------------------
(* The pull streams *)

\* CreateAudioSendStream, CreateVideoSendStream: a stream is made for every
\* track and the last one stays, with the last RTX SSRC that was seen.
SendStream(tracks) ==
  LET withRtx == {k \in DOMAIN tracks : Len(tracks[k].ssrcs) >= 2}
  IN  [ssrc |-> IF tracks = <<>> THEN 0 ELSE FirstSsrc(tracks[Len(tracks)]),
       rtx  |-> IF withRtx = {} THEN 0 ELSE tracks[Max(withRtx)].ssrcs[2]]

\* GetSource: the tracks of the answer as the push has it at that moment.
GetSource(media) == push.remote_desc_[media]

\* CreateOffer of a pull stream: only the media the user asked for are in the
\* offer, and have send streams.
CreateOffer(media, audio_source, video_source) ==
  LET as == IF "audio" \in media THEN audio_source ELSE <<>>
      vs == IF "video" \in media THEN video_source ELSE <<>>
  IN  [offer |-> OfferText(media, as, vs),
       audio_send_stream_ |-> SendStream(as).ssrc,
       video_send_stream_ |-> SendStream(vs)]

CreatePullStream(u, media) ==
  /\ push # NoStream
  /\ pull' = [pull EXCEPT ![u] =
       LET offer == CreateOffer(media, GetSource("audio"), GetSource("video"))
       IN  [id |-> push.id, answers |-> push.answers, media |-> media, offer |-> offer.offer,
            audio_send_stream_ |-> offer.audio_send_stream_,
            video_send_stream_ |-> offer.video_send_stream_,
            audioSr |-> NoSr, videoSr |-> NoSr, audioCount |-> 0, videoCount |-> 0]]
  /\ wire' = {}
  /\ UNCHANGED <<pushes, push>>

StopPull(u) ==
  /\ pull[u] # NoStream
  /\ pull' = [pull EXCEPT ![u] = NoStream]
  /\ wire' = {}
  /\ UNCHANGED <<pushes, push>>

-----------------------------------------------------------------------------
(* Packets *)

\* SendRtp, SendRtcp: everything goes to the transport named audio, which a
\* session without audio does not have.
SendRtp(us, m) == {[m EXCEPT !.to = u] : u \in {v \in us : "audio" \in pull[v].media}}

Packet(kind, ssrc) == [to |-> 0, kind |-> kind, ssrc |-> ssrc, sr |-> NoSr, count |-> 0]

Audio == {u \in Uids : pull[u] # NoStream /\ pull[u].audio_send_stream_ # 0}
Video == {u \in Uids : pull[u] # NoStream /\ pull[u].video_send_stream_.ssrc # 0}

\* SendPacket: a packet is counted whether or not the transport takes it.
Counted(us, media) ==
  [u \in Uids |-> CASE u \in us /\ media = "audio" -> [pull[u] EXCEPT !.audioCount = @ + 1]
                    [] u \in us /\ media = "video" -> [pull[u] EXCEPT !.videoCount = @ + 1]
                    [] OTHER -> pull[u]]

BelowBound(us) == \A u \in us : pull[u].audioCount + pull[u].videoCount < MaxSent

\* GetMediaType
GetMediaType(ssrc) ==
  CASE ssrc \in {push.remote_video_ssrc_, push.remote_video_rtx_ssrc_} -> "video"
    [] ssrc = push.remote_audio_ssrc_ -> "audio"
    [] OTHER -> "any"

\* Mutant: a packet of the RTX stream is passed on as it came.
MediaSsrcAsReceived(ssrc) == ssrc

\* VideoReceiveStream and RtxReceiveStream: a packet of the RTX stream becomes
\* a packet of the media stream.
MediaSsrc(ssrc) ==
  IF ssrc = push.video_receive_stream_.rtx THEN push.video_receive_stream_.ssrc ELSE ssrc

\* An RTP packet of the pushing client is forwarded to all pull streams.
OnRtpPacketReceived(ssrc) ==
  /\ push # NoStream
  /\ \/ /\ GetMediaType(ssrc) = "video" /\ push.video_receive_stream_.ssrc # 0
        /\ BelowBound(Video)
        /\ wire' = SendRtp(Video, Packet("rtp", MediaSsrc(ssrc)))
        /\ pull' = Counted(Video, "video")
     \/ /\ GetMediaType(ssrc) = "audio" /\ push.audio_receive_stream_ # 0
        /\ BelowBound(Audio)
        /\ wire' = SendRtp(Audio, Packet("rtp", ssrc))
        /\ pull' = Counted(Audio, "audio")
  /\ UNCHANGED <<pushes, push>>

\* OnNackReceived: a packet from the cache is sent again as an RTX packet.
OnNackReceived(u) ==
  /\ push # NoStream /\ u \in Video
  /\ BelowBound({u})
  /\ wire' = SendRtp({u}, Packet("rtx", pull[u].video_send_stream_.rtx))
  /\ pull' = Counted({u}, "video")
  /\ UNCHANGED <<pushes, push>>

\* Mutant: SetSrInfo keeps the first time that it was given.
SetSrInfoOnce(s, media) ==
  LET sr == [push |-> push.id, media |-> media]
  IN  IF media = "video" THEN [s EXCEPT !.videoSr = IF @ = NoSr THEN sr ELSE @]
      ELSE [s EXCEPT !.audioSr = IF @ = NoSr THEN sr ELSE @]

\* SetSrInfo: the pair of times of an SR, known by the stream it came from.
SetSrInfo(s, media) ==
  LET sr == [push |-> push.id, media |-> media]
  IN  IF media = "video" THEN [s EXCEPT !.videoSr = sr] ELSE [s EXCEPT !.audioSr = sr]

\* An SR of the pushing client: OnSrInfo of all pull streams.
OnSrInfo(ssrc) ==
  /\ push # NoStream /\ ssrc # 0
  /\ \E media \in {"audio", "video"} :
       /\ \/ media = "video" /\ ssrc = push.video_receive_stream_.ssrc
          \/ media = "audio" /\ ssrc = push.audio_receive_stream_
       /\ pull' = [u \in Uids |->
            IF u \in (IF media = "video" THEN Video ELSE Audio)
            THEN SetSrInfo(pull[u], media) ELSE pull[u]]
       /\ push' = [push EXCEPT !.srs = @ \cup {media}]
  /\ wire' = {}
  /\ UNCHANGED pushes

\* BuildSR: nothing is sent before SetSrInfo.
SenderReport(ssrc, sr, count) ==
  [to |-> 0, kind |-> "sr", ssrc |-> ssrc, sr |-> sr, count |-> count]

TimeToSendRTCP(u) ==
  /\ \/ /\ u \in Video /\ pull[u].videoSr # NoSr
        /\ wire' = SendRtp({u}, SenderReport(pull[u].video_send_stream_.ssrc,
                                             pull[u].videoSr, pull[u].videoCount))
     \/ /\ u \in Audio /\ pull[u].audioSr # NoSr
        /\ wire' = SendRtp({u}, SenderReport(pull[u].audio_send_stream_,
                                             pull[u].audioSr, pull[u].audioCount))
  /\ UNCHANGED <<pushes, push, pull>>

-----------------------------------------------------------------------------
Announced(sdp) == {sdp[i].ssrc : i \in {j \in DOMAIN sdp : sdp[j].type = "ssrc"}}

PeerNext ==
  \/ CreatePushStream \/ StopPush
  \/ \E a \in Answers : SetRemoteSdp(a)
  \/ \E u \in Uids : \/ \E media \in SUBSET {"audio", "video"} : CreatePullStream(u, media)
                     \/ StopPull(u) \/ OnNackReceived(u) \/ TimeToSendRTCP(u)
  \/ \E ssrc \in UNION {Announced(a) : a \in Answers} : OnRtpPacketReceived(ssrc) \/ OnSrInfo(ssrc)

PeerSpec == PeerInit /\ [][PeerNext]_peerVars

-----------------------------------------------------------------------------
(* A client that reads the offer of a pull stream finds, for each medium   *)
(* it asked for, the tracks, SSRCs and groups of the last answer that the  *)
(* push had then, in the same order, and nothing when that answer was      *)
(* refused; two answers are never mixed (rtc_stream_manager.cpp:285-295).  *)
OfferReadsAsAnswer ==
  \A u \in Uids : pull[u] # NoStream =>
    LET answers == pull[u].answers
        known   == answers # <<>> /\ ~Refused(Last(answers))
    IN  \A m \in {"audio", "video"} :
          Tracks(pull[u].offer, m)
            = IF known /\ m \in pull[u].media THEN Tracks(Last(answers), m) ELSE <<>>

(* A pulling client is sent only SSRCs that its offer announced, and media *)
(* packets of others only after the push was replaced or answered again.   *)
(* (A retransmission goes out with SSRC 0 if no video track of the offer   *)
(* has an SSRC for RTX.)                                                   *)
SentIsAnnounced ==
  \A m \in wire :
    LET s       == pull[m.to]
        changed == s.id # push.id \/ s.answers # push.answers
    IN  \/ m.ssrc \in Announced(s.offer)
        \/ m.kind = "rtp" /\ changed
        \/ m.kind = "rtx" /\ m.ssrc = 0 /\ \A t \in Range(Tracks(s.offer, "video")) : Len(t.ssrcs) < 2

(* Sender reports to pulling clients are on the time line of the push that *)
(* media comes from, once that push has sent one ("拉流端收到的 RTP        *)
(* timestamp 和 SR 都来自推流端原始时间线", note/v2_9.7:101).              *)
SrFollowsPush ==
  \A m \in wire : m.kind = "sr" /\ push # NoStream /\ m.sr.media \in push.srs => m.sr.push = push.id
=============================================================================
