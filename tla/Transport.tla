----------------------------- MODULE Transport -----------------------------
(***************************************************************************)
(* pc/transport_controller.cpp, pc/dtls_transport.cpp,                     *)
(* pc/dtls_srtp_transport.cpp, pc/srtp_transport.cpp and ice/ice_agent.cpp:*)
(* what happens between one ICE channel and the peer connection.  The      *)
(* channel's writability starts DTLS, the DTLS state installs or drops the *)
(* SRTP keys, and both make up the state that the peer connection reports. *)
(*                                                                         *)
(* The offer bundles all media (peer_connection.cpp 262-269), so there is  *)
(* one channel, one DtlsTransport and one DtlsSrtpTransport.  Handlers     *)
(* call each other through signals within one callback of the event loop:  *)
(* an operator that takes and returns the record s is a handler with all   *)
(* the slots it runs, in the order in which they were connected.           *)
(*                                                                         *)
(* rtc::SSLStreamAdapter is external.  Its state s.ssl is none (no         *)
(* adapter), idle, started, hello (a ClientHello was read), verify (the    *)
(* handshake is complete, the fingerprint of the peer is not known yet),   *)
(* posted (verified later; SE_OPEN is posted to the loop), open or closed. *)
(* RTP and RTCP packets change nothing here.                               *)
(***************************************************************************)
EXTENDS Naturals

CONSTANTS
  Fingerprints,      \* certificate digests that answers announce
  BadFingerprints,   \* ... of a length that does not fit their algorithm
  MaxSessions,       \* bound: SSLStreamAdapters created
  None

ASSUME FingerprintsAssumption ==
  BadFingerprints \subseteq Fingerprints /\ None \notin Fingerprints
ASSUME MaxSessionsAssumption == MaxSessions \in Nat

Certificates == Fingerprints \ BadFingerprints  \* that peers may present

IceStates == {"kNew", "kChecking", "kConnected", "kDisconnected", "kFailed"}
DtlsStates == {"kNew", "kConnecting", "kConnected", "kClosed", "kFailed"}
PcStates == {"kNew", "kConnecting", "kConnected", "kDisconnected", "kFailed"}

VARIABLES
  is_dtls_,  \* whether the stream asked for DTLS
  s,         \* channel, agent, DTLS, SRTP and controller
  heard      \* history: this session was sent a ClientHello

vars == <<is_dtls_, s, heard>>

(* What SetLocalDescription creates.                                       *)
Init ==
  /\ is_dtls_ \in BOOLEAN
  /\ heard = FALSE
  /\ s = [ice_writable |-> FALSE, ice_receiving |-> FALSE, ice_state |-> "kNew",
          had_connection |-> FALSE, has_been_connection |-> FALSE,
          agent_state |-> "kNew",
          dtls_state |-> "kNew", writable |-> FALSE, receiving |-> FALSE,
          cached_client_hello |-> "none", remote_fingerprint |-> None,
          ssl |-> "none", session |-> 0, cert |-> None, srtp |-> FALSE,
          keys |-> 0, pc_state |-> "kNew"]

----------------------------------------------------------------------------
(* TransportController                                                     *)

(* With one transport every count is 0 or 1.                               *)
PcState(ice, dtls) ==
  IF "kFailed" \in {ice, dtls} THEN "kFailed"
  ELSE IF ice = "kDisconnected" THEN "kDisconnected"
  ELSE IF ice = "kNew" /\ dtls \in {"kNew", "kClosed"} THEN "kNew"
  ELSE IF ice \in {"kNew", "kChecking"} \/ dtls \in {"kNew", "kConnecting"}
       THEN "kConnecting"
  ELSE "kConnected"

UpdateState(t) == [t EXCEPT !.pc_state = PcState(t.ice_state, t.dtls_state)]

(* Without DTLS the state of the agent is passed on.                       *)
PlainPcState(ice) == IF ice = "kChecking" THEN "kConnecting" ELSE ice

OnIceState(t) ==
  IF is_dtls_ THEN UpdateState(t)
  ELSE [t EXCEPT !.pc_state = PlainPcState(t.agent_state)]

----------------------------------------------------------------------------
(* DtlsSrtpTransport                                                       *)

(* SrtpTransport: the two sessions are created and deleted together.       *)
SetRtpParams(t) == [t EXCEPT !.keys = t.session]

ResetParams(t) == [t EXCEPT !.keys = 0]

(* ExtractParams fails when the peer did not negotiate an SRTP profile.    *)
MaybeSetupDtlsSrtp(t) ==
  IF t.keys = 0 /\ t.writable /\ t.srtp THEN SetRtpParams(t) ELSE t

\* Mutant: the keys survive the end of the DTLS session.
SrtpOnDtlsStateKeepsKeys(t) ==
  IF t.dtls_state = "kConnected" THEN MaybeSetupDtlsSrtp(t) ELSE t

SrtpOnDtlsState(t) ==
  IF t.dtls_state = "kConnected" THEN MaybeSetupDtlsSrtp(t) ELSE ResetParams(t)

----------------------------------------------------------------------------
(* DtlsTransport                                                           *)

\* Mutant: SignalDtlsState is emitted before the assignment.
SetDtlsStateSignalsFirst(t, state) ==
  IF t.dtls_state = state THEN t
  ELSE SrtpOnDtlsState([UpdateState(t) EXCEPT !.dtls_state = state])

(* SignalDtlsState runs the controller's slot, then that of the SRTP       *)
(* transport.                                                              *)
SetDtlsState(t, state) ==
  IF t.dtls_state = state THEN t
  ELSE SrtpOnDtlsState(UpdateState([t EXCEPT !.dtls_state = state]))

(* Nobody is connected to SignalWritableState of a DtlsTransport.          *)
SetWritableState(t, w) == [t EXCEPT !.writable = w]

(* HandleDtlsPacket of the cached ClientHello, which fails on a wrong      *)
(* record length.                                                          *)
HandleCachedHello(t) ==
  [(CASE t.cached_client_hello = "none" -> t
      [] t.cached_client_hello = "good" -> [t EXCEPT !.ssl = "hello"]
      [] t.cached_client_hello = "bad" -> SetDtlsState(t, "kFailed"))
   EXCEPT !.cached_client_hello = "none"]

\* Mutant: the cache is cleared before it is used.
MaybeStartDtlsForgets(t) ==
  IF t.ssl = "none" \/ ~t.ice_writable THEN t
  ELSE [SetDtlsState([t EXCEPT !.ssl = "started"], "kConnecting")
        EXCEPT !.cached_client_hello = "none"]

(* StartSSL fails on an adapter that was started before.                   *)
MaybeStartDtls(t) ==
  IF t.ssl = "none" \/ ~t.ice_writable THEN t
  ELSE IF t.ssl # "idle" THEN SetDtlsState(t, "kFailed")
  ELSE HandleCachedHello(SetDtlsState([t EXCEPT !.ssl = "started"], "kConnecting"))

(* The caller turns the failure to set a known fingerprint into kFailed.   *)
SetupDtls(t) ==
  LET new == [t EXCEPT !.ssl = "idle", !.session = @ + 1, !.cert = None, !.srtp = FALSE]
  IN  IF t.remote_fingerprint \in BadFingerprints THEN SetDtlsState(new, "kFailed")
      ELSE MaybeStartDtls(new)

(* OnDtlsEvent with SE_OPEN; with the end of the stream or of the          *)
(* handshake.                                                              *)
OnDtlsOpen(t) ==
  SetDtlsState(SetWritableState([t EXCEPT !.ssl = "open"], TRUE), "kConnected")

OnDtlsClose(t, state) ==
  SetDtlsState(SetWritableState([t EXCEPT !.ssl = "closed"], FALSE), state)

\* Mutant: DTLS is started only by the answer or a ClientHello.
OnWritableStateIgnored(t) ==
  IF t.dtls_state = "kConnected" THEN SetWritableState(t, t.ice_writable) ELSE t

OnWritableState(t) ==
  CASE t.dtls_state = "kNew" -> MaybeStartDtls(t)
    [] t.dtls_state = "kConnected" -> SetWritableState(t, t.ice_writable)
    [] OTHER -> t

(* SignalReceivingState of the DtlsTransport runs UpdateState (twice).     *)
OnReceivingState(t) ==
  IF t.receiving = t.ice_receiving THEN t
  ELSE UpdateState([t EXCEPT !.receiving = t.ice_receiving])

----------------------------------------------------------------------------
(* IceAgent with one channel, and IceTransportChannel::UpdateState         *)

AgentUpdateState(t) ==
  IF t.agent_state = t.ice_state THEN t
  ELSE OnIceState([t EXCEPT !.agent_state = t.ice_state])

SetIceWritable(t, w) ==
  IF t.ice_writable = w THEN t
  ELSE LET u == AgentUpdateState([t EXCEPT !.ice_writable = w,
                                           !.has_been_connection = @ \/ w])
       IN  IF is_dtls_ THEN OnWritableState(u) ELSE u

SetIceReceiving(t, r) ==
  IF t.ice_receiving = r THEN t
  ELSE LET u == AgentUpdateState([t EXCEPT !.ice_receiving = r])
       IN  IF is_dtls_ THEN OnReceivingState(u) ELSE u

ComputeIceTransportState(t, active) ==
  IF t.had_connection /\ ~active THEN "kFailed"
  ELSE IF t.has_been_connection /\ ~t.ice_writable THEN "kDisconnected"
  ELSE IF ~active THEN "kNew"
  ELSE IF ~t.ice_writable THEN "kChecking"
  ELSE "kConnected"

(* The connections of the channel changed: whether the selected one is     *)
(* writable, whether one receives and whether one is active.               *)
ChannelUpdate(w, r, active) ==
  LET t == SetIceReceiving(SetIceWritable([s EXCEPT !.had_connection = @ \/ active], w), r)
  IN  /\ w => active
      /\ r => s.had_connection \/ active
      /\ s' = AgentUpdateState([t EXCEPT !.ice_state = ComputeIceTransportState(t, active)])
      /\ UNCHANGED <<is_dtls_, heard>>

----------------------------------------------------------------------------
(* The answer, and packets from the peer                                   *)

(* SetPeerCertificateDigest on an existing adapter: checked at once if the *)
(* handshake has already ended.                                            *)
SetPeerCertificateDigest(t, f) ==
  CASE f \in BadFingerprints -> SetDtlsState(t, "kFailed")
    [] f \notin BadFingerprints /\ t.ssl = "verify" ->
         IF t.cert = f THEN [t EXCEPT !.ssl = "posted"]
         ELSE SetDtlsState([t EXCEPT !.ssl = "closed"], "kFailed")
    [] OTHER -> t

ResetDtls(t) ==
  SetWritableState(SetDtlsState([t EXCEPT !.ssl = "none"], "kNew"), FALSE)

(* SetRemoteDescription; an identical fingerprint is ignored.              *)
SetRemoteFingerprint(f) ==
  LET change == s.remote_fingerprint # None
      t == [s EXCEPT !.remote_fingerprint = f]
  IN  /\ is_dtls_ /\ f # s.remote_fingerprint
      /\ IF s.ssl # "none" /\ ~change
         THEN /\ s' = SetPeerCertificateDigest(t, f)
              /\ UNCHANGED heard
         ELSE /\ s.session < MaxSessions
              /\ s' = SetupDtls(IF s.ssl # "none" THEN ResetDtls(t) ELSE t)
              /\ heard' = (heard /\ ~change)
      /\ UNCHANGED is_dtls_

(* A ClientHello while the state is kNew is kept; the first one sets up    *)
(* DTLS although the answer has not come.                                  *)
OnClientHello(kind) ==
  LET t == [s EXCEPT !.cached_client_hello = kind]
  IN  /\ is_dtls_ /\ s.dtls_state = "kNew"
      /\ s.ssl = "none" => s.session < MaxSessions
      /\ s' = IF s.ssl = "none" THEN SetupDtls(t) ELSE t
      /\ heard' = (heard \/ kind = "good")
      /\ UNCHANGED is_dtls_

(* A ClientHello during the handshake; a malformed one is dropped.         *)
OnLaterClientHello ==
  /\ is_dtls_ /\ s.dtls_state = "kConnecting" /\ s.ssl = "started"
  /\ s' = [s EXCEPT !.ssl = "hello"]
  /\ heard' = TRUE
  /\ UNCHANGED is_dtls_

(* The peer's last flight, with its certificate and whether it negotiated  *)
(* SRTP.  A certificate that is not the announced one ends the handshake.  *)
OnLastFlight(cert, srtp) ==
  LET t == [s EXCEPT !.ssl = "verify", !.cert = cert, !.srtp = srtp]
  IN  /\ s.dtls_state = "kConnecting" /\ s.ssl = "hello"
      /\ s' = CASE s.remote_fingerprint = None -> t
                [] s.remote_fingerprint = cert -> OnDtlsOpen(t)
                [] OTHER -> OnDtlsClose(t, "kFailed")
      /\ UNCHANGED <<is_dtls_, heard>>

(* The SE_OPEN that the adapter posted.                                    *)
OnPostedOpen ==
  /\ s.ssl = "posted"
  /\ s' = OnDtlsOpen(s)
  /\ UNCHANGED <<is_dtls_, heard>>

(* The handshake times out or is refused; the peer closes the session or   *)
(* sends garbage in it.                                                    *)
OnDtlsEnd(state) ==
  /\ \/ s.ssl \in {"started", "hello"} /\ state = "kFailed"
     \/ s.ssl = "open" /\ state \in {"kClosed", "kFailed"}
  /\ s' = OnDtlsClose(s, state)
  /\ UNCHANGED <<is_dtls_, heard>>

----------------------------------------------------------------------------
Peer ==
  \/ \E kind \in {"good", "bad"} : OnClientHello(kind)
  \/ OnLaterClientHello
  \/ \E cert \in Certificates, srtp \in BOOLEAN : OnLastFlight(cert, srtp)
  \/ \E state \in {"kClosed", "kFailed"} : OnDtlsEnd(state)

Next ==
  \/ \E w, r, active \in BOOLEAN : ChannelUpdate(w, r, active)
  \/ \E f \in Fingerprints : SetRemoteFingerprint(f)
  \/ Peer
  \/ OnPostedOpen

Spec == Init /\ [][Next]_vars

(* The loop runs what was posted to it, and a client that waits for DTLS   *)
(* sends its flights again until they are answered.                        *)
FairSpec ==
  /\ Spec
  /\ WF_vars(OnPostedOpen)
  /\ WF_vars(OnLaterClientHello)
  /\ WF_vars(\E cert \in Certificates, srtp \in BOOLEAN : OnLastFlight(cert, srtp))

----------------------------------------------------------------------------
TypeOK ==
  /\ is_dtls_ \in BOOLEAN /\ heard \in BOOLEAN
  /\ s.ice_state \in IceStates /\ s.agent_state \in IceStates
  /\ s.dtls_state \in DtlsStates /\ s.pc_state \in PcStates
  /\ s.cached_client_hello \in {"none", "good", "bad"}
  /\ s.remote_fingerprint \in Fingerprints \cup {None}
  /\ s.ssl \in {"none", "idle", "started", "hello", "verify", "posted", "open", "closed"}
  /\ s.session \in 0 .. MaxSessions /\ s.keys \in 0 .. MaxSessions

(* The state that the peer connection last reported is the one its ICE     *)
(* channel and its DTLS transport have now, although slots run while the   *)
(* channel has announced its writability and not yet its state.            *)
ReportIsCurrent ==
  s.pc_state = IF is_dtls_ THEN PcState(s.ice_state, s.dtls_state)
               ELSE PlainPcState(s.ice_state)

(* SRTP keys are installed exactly while DTLS is connected (and SRTP was   *)
(* negotiated).  They are those of the present session, whose peer showed  *)
(* the certificate that the last answer announced: a new answer, a failed  *)
(* or a closed session leaves no old key behind.                           *)
KeysOfVerifiedSession ==
  /\ s.keys # 0 <=> s.dtls_state = "kConnected" /\ s.srtp
  /\ s.keys # 0 => /\ s.keys = s.session
                   /\ s.cert = s.remote_fingerprint
                   /\ s.ssl = "open"

(* A ClientHello that came before DTLS could start, because ICE was not    *)
(* writable or there was no answer, is not lost: once the handshake runs,  *)
(* it has been read.                                                       *)
HelloNotLost == s.dtls_state = "kConnecting" /\ heard => s.ssl # "started"

(* Whatever came first, once the answer is known and ICE stays writable    *)
(* the handshake ends.                                                     *)
HandshakeEnds ==
  <>[](is_dtls_ /\ s.ice_writable /\ s.remote_fingerprint # None)
    => <>[](s.dtls_state \notin {"kNew", "kConnecting"})
============================================================================
