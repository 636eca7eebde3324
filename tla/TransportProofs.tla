-------------------------- MODULE TransportProofs --------------------------
(***************************************************************************)
(* Proofs about a transport, from the ICE channel up.  Of Transport, for   *)
(* any certificates and any number of DTLS sessions: what the peer         *)
(* connection reports, which keys SRTP uses, and that a ClientHello is not *)
(* lost.  Of IceChannel, for any addresses, priorities and timeouts: what  *)
(* the channel reports and which connection it sends on.                   *)
(***************************************************************************)
EXTENDS Transport, IceChannel, FiniteSetTheorems, SequenceTheorems, TLAPS

SslStates == {"none", "idle", "started", "hello", "verify", "posted", "open", "closed"}

State ==
  [ice_writable : BOOLEAN, ice_receiving : BOOLEAN, ice_state : IceStates,
   had_connection : BOOLEAN, has_been_connection : BOOLEAN,
   agent_state : IceStates,
   dtls_state : DtlsStates, writable : BOOLEAN, receiving : BOOLEAN,
   cached_client_hello : {"none", "good", "bad"},
   remote_fingerprint : Fingerprints \cup {None},
   ssl : SslStates, session : 0 .. MaxSessions, cert : Certificates \cup {None},
   srtp : BOOLEAN, keys : 0 .. MaxSessions, pc_state : PcStates]

(* The parts of the invariant, of a state t of which is_dtls_ is d and     *)
(* heard is h.  Handlers keep them at every call, not only at their end.   *)

(* The agent has seen the state of the channel, and the last report is     *)
(* that of now.                                                            *)
Reported(d, t) ==
  /\ t.agent_state = t.ice_state
  /\ t.pc_state = IF d THEN PcState(t.ice_state, t.dtls_state)
                  ELSE PlainPcState(t.ice_state)

(* The state of DTLS and that of the SSL adapter agree.                    *)
Handshake(d, t) ==
  /\ ~d => t.ssl = "none"
  /\ t.ssl = "none" => t.dtls_state = "kNew"
  /\ t.dtls_state = "kNew" => t.ssl \in {"none", "idle"}
  /\ t.dtls_state = "kConnecting" => t.ssl \in {"started", "hello", "verify", "posted"}
  /\ t.dtls_state = "kConnected" <=> t.ssl = "open"
  /\ t.ssl # "none" => t.session # 0

(* A finished handshake has a certificate, and a verified one has that of  *)
(* the answer.                                                             *)
Verified(t) ==
  /\ t.ssl = "verify" => t.cert # None
  /\ t.ssl \in {"posted", "open"} => t.cert = t.remote_fingerprint /\ t.cert # None

Keyed(t) ==
  /\ t.keys # 0 <=> t.dtls_state = "kConnected" /\ t.srtp
  /\ t.keys # 0 => t.keys = t.session

(* A ClientHello is kept until the handshake starts, and read then.        *)
Remembered(t, h) ==
  /\ h /\ t.dtls_state = "kNew" => t.cached_client_hello # "none"
  /\ h /\ t.dtls_state = "kConnecting" => t.ssl # "started"

Good(d, t, h) ==
  /\ t \in State
  /\ Reported(d, t)
  /\ Handshake(d, t)
  /\ Verified(t)
  /\ Keyed(t)
  /\ Remembered(t, h)

IInv == is_dtls_ \in BOOLEAN /\ heard \in BOOLEAN /\ Good(is_dtls_, s, heard)

(* The reported states are states of a peer connection.                    *)
LEMMA PcStateType ==
  /\ \A i \in IceStates, d \in DtlsStates : PcState(i, d) \in PcStates
  /\ \A i \in IceStates : PlainPcState(i) \in PcStates
  BY DEF PcState, PlainPcState, IceStates, DtlsStates, PcStates

(* What SetDtlsState does, with the slots of the controller and of the     *)
(* SRTP transport that it runs.                                            *)
LEMMA SetDtlsStateEffect ==
  ASSUME NEW t \in State, NEW st \in DtlsStates, t.dtls_state # st
  PROVE  LET u == SetDtlsState(t, st)
         IN  /\ u \in State
             /\ u = [t EXCEPT !.dtls_state = st,
                              !.pc_state = PcState(t.ice_state, st),
                              !.keys = IF st # "kConnected" THEN 0
                                       ELSE IF t.keys = 0 /\ t.writable /\ t.srtp
                                            THEN t.session ELSE t.keys]
  <1> DEFINE v == [t EXCEPT !.dtls_state = st, !.pc_state = PcState(t.ice_state, st)]
  <1>1. /\ v \in State
        /\ v.dtls_state = st /\ v.keys = t.keys /\ v.writable = t.writable
        /\ v.srtp = t.srtp /\ v.session = t.session
    BY PcStateType DEF State
  <1>2. UpdateState([t EXCEPT !.dtls_state = st]) = v
    BY DEF UpdateState, State
  <1>3. SetDtlsState(t, st) = SrtpOnDtlsState(v)
    BY <1>2 DEF SetDtlsState
  <1> HIDE DEF v
  <1>4. SrtpOnDtlsState(v) = [v EXCEPT !.keys = IF st # "kConnected" THEN 0
                                       ELSE IF t.keys = 0 /\ t.writable /\ t.srtp
                                            THEN t.session ELSE t.keys]
    BY <1>1 DEF SrtpOnDtlsState, MaybeSetupDtlsSrtp, SetRtpParams, ResetParams, State
  <1>5. SrtpOnDtlsState(v) \in State
    BY <1>1, <1>4, MaxSessionsAssumption DEF State
  <1> QED BY <1>3, <1>4, <1>5 DEF v

(* The transport is created in a good state.                               *)
LEMMA InitIInv == Init => IInv
  <1> SUFFICES ASSUME Init PROVE IInv
    OBVIOUS
  <1>1. s \in State
    BY MaxSessionsAssumption
    DEF Init, State, IceStates, DtlsStates, PcStates, SslStates
  <1>2. Reported(is_dtls_, s) /\ Handshake(is_dtls_, s)
    BY DEF Init, Reported, Handshake, PcState, PlainPcState
  <1>3. Verified(s) /\ Keyed(s) /\ Remembered(s, heard)
    BY DEF Init, Verified, Keyed, Remembered
  <1> QED BY <1>1, <1>2, <1>3 DEF Init, IInv, Good

(* A session that fails while it is not open stays good.                   *)
LEMMA FailGood ==
  ASSUME NEW t, NEW h \in BOOLEAN, Good(TRUE, t, h), t.ssl \notin {"none", "open"}
  PROVE  Good(TRUE, SetDtlsState(t, "kFailed"), h)
  <1> DEFINE u == SetDtlsState(t, "kFailed")
  <1>1. CASE t.dtls_state = "kFailed"
    BY <1>1 DEF SetDtlsState
  <1>2. CASE t.dtls_state # "kFailed"
    <2>1. /\ u \in State
          /\ u = [t EXCEPT !.dtls_state = "kFailed",
                           !.pc_state = PcState(t.ice_state, "kFailed"), !.keys = 0]
      BY <1>2, SetDtlsStateEffect DEF Good, DtlsStates
    <2> QED BY <2>1, ZenonT(40) DEF Good, Reported, Handshake, Verified, Keyed, Remembered, State
  <1> QED BY <1>1, <1>2

(* HandleDtlsPacket of the cached ClientHello, right after StartSSL.       *)
LEMMA CachedHelloGood ==
  ASSUME NEW t, NEW h \in BOOLEAN, t \in State, Reported(TRUE, t), Handshake(TRUE, t),
         Verified(t), Keyed(t), t.dtls_state = "kConnecting", t.ssl = "started",
         h => t.cached_client_hello # "none"
  PROVE  Good(TRUE, HandleCachedHello(t), h)
  <1> DEFINE r == HandleCachedHello(t)
  <1>1. CASE t.cached_client_hello = "none"
    <2>1. r = [t EXCEPT !.cached_client_hello = "none"] /\ ~h
      BY <1>1 DEF HandleCachedHello
    <2> QED BY <2>1 DEF Good, Reported, Handshake, Verified, Keyed, Remembered, State
  <1>2. CASE t.cached_client_hello = "good"
    <2>1. r = [t EXCEPT !.ssl = "hello", !.cached_client_hello = "none"]
      BY <1>2 DEF HandleCachedHello
    <2> QED BY <2>1 DEF Good, Reported, Handshake, Verified, Keyed, Remembered, State,
                        SslStates
  <1>3. CASE t.cached_client_hello = "bad"
    <2> DEFINE u == SetDtlsState(t, "kFailed")
    <2>1. /\ u \in State
          /\ u = [t EXCEPT !.dtls_state = "kFailed",
                           !.pc_state = PcState(t.ice_state, "kFailed"), !.keys = 0]
      BY SetDtlsStateEffect DEF DtlsStates
    <2>2. r = [u EXCEPT !.cached_client_hello = "none"]
      BY <1>3 DEF HandleCachedHello
    <2>3. Good(TRUE, u, h)
      BY <2>1 DEF Good, Reported, Handshake, Verified, Keyed, Remembered, State
    <2>4. u.dtls_state = "kFailed"
      BY <2>1 DEF State
    <2> HIDE DEF u
    <2> QED BY <2>2, <2>3, <2>4 DEF Good, Reported, Handshake, Verified, Keyed, Remembered, State
  <1> QED BY <1>1, <1>2, <1>3 DEF State

(* MaybeStartDtls in the state kNew, in which it is called.                *)
LEMMA StartGood ==
  ASSUME NEW t, NEW h \in BOOLEAN, Good(TRUE, t, h), t.dtls_state = "kNew"
  PROVE  Good(TRUE, MaybeStartDtls(t), h)
  <1> DEFINE a == [t EXCEPT !.ssl = "started"]
             b == SetDtlsState(a, "kConnecting")
  <1>1. CASE t.ssl = "none" \/ ~t.ice_writable
    BY <1>1 DEF MaybeStartDtls
  <1>2. CASE ~(t.ssl = "none" \/ ~t.ice_writable)
    <2>1. MaybeStartDtls(t) = HandleCachedHello(b) /\ t.ssl = "idle"
      BY <1>2 DEF MaybeStartDtls, Good, Handshake
    <2>2. a \in State /\ a.dtls_state = "kNew" /\ a.ice_state = t.ice_state
      BY DEF Good, State, SslStates
    <2>3. /\ b \in State
          /\ b = [a EXCEPT !.dtls_state = "kConnecting",
                           !.pc_state = PcState(t.ice_state, "kConnecting"), !.keys = 0]
      BY <2>2, SetDtlsStateEffect DEF DtlsStates
    <2> HIDE DEF b
    <2>4. /\ Reported(TRUE, b) /\ Handshake(TRUE, b) /\ Verified(b) /\ Keyed(b)
          /\ b.dtls_state = "kConnecting" /\ b.ssl = "started"
          /\ h => b.cached_client_hello # "none"
      BY <2>1, <2>3 DEF Good, Reported, Handshake, Verified, Keyed, Remembered, State
    <2> QED BY <2>1, <2>3, <2>4, CachedHelloGood
  <1> QED BY <1>1, <1>2

(* SetupDtls of a transport that has no adapter, or no longer.             *)
LEMMA SetupGood ==
  ASSUME NEW t, NEW h \in BOOLEAN, t \in State, Reported(TRUE, t),
         t.dtls_state = "kNew", t.keys = 0, t.session < MaxSessions,
         h => t.cached_client_hello # "none"
  PROVE  Good(TRUE, SetupDtls(t), h)
  <1> DEFINE new == [t EXCEPT !.ssl = "idle", !.session = @ + 1, !.cert = None, !.srtp = FALSE]
  <1>0. t.session \in Nat /\ t.session + 1 \in 0 .. MaxSessions
    BY MaxSessionsAssumption DEF State
  <1>1. /\ new \in State /\ new.ssl = "idle" /\ new.dtls_state = "kNew"
        /\ new.session = t.session + 1 /\ new.cert = None /\ new.srtp = FALSE /\ new.keys = 0
        /\ new.ice_state = t.ice_state /\ new.agent_state = t.agent_state
        /\ new.pc_state = t.pc_state /\ new.cached_client_hello = t.cached_client_hello
    BY <1>0, ZenonT(40) DEF State, SslStates
  <1>2. SetupDtls(t) = IF t.remote_fingerprint \in BadFingerprints
                       THEN SetDtlsState(new, "kFailed") ELSE MaybeStartDtls(new)
    BY DEF SetupDtls
  <1> HIDE DEF new
  <1>3. Good(TRUE, new, h)
    BY <1>1 DEF Good, Reported, Handshake, Verified, Keyed, Remembered, State
  <1> QED BY <1>1, <1>2, <1>3, FailGood, StartGood

----------------------------------------------------------------------------
(* The slots of the channel's signals                                      *)

(* IceAgent sees no change while the channel keeps its state.              *)
LEMMA AgentIdle ==
  ASSUME NEW t, t.agent_state = t.ice_state
  PROVE  AgentUpdateState(t) = t
  BY DEF AgentUpdateState

(* The new writability of the channel, up to the start of DTLS.            *)
LEMMA SetIceWritableGood ==
  ASSUME NEW t, NEW w \in BOOLEAN, is_dtls_ \in BOOLEAN, heard \in BOOLEAN,
         Good(is_dtls_, t, heard)
  PROVE  Good(is_dtls_, SetIceWritable(t, w), heard)
  <1> DEFINE u == [t EXCEPT !.ice_writable = w, !.has_been_connection = @ \/ w]
  <1>1. CASE t.ice_writable = w
    BY <1>1 DEF SetIceWritable
  <1>2. CASE t.ice_writable # w
    <2>0. t \in State /\ (t.has_been_connection \/ w) \in BOOLEAN
      BY DEF Good
    <2>1. Good(is_dtls_, u, heard)
      <3>1. u \in State
        BY <2>0 DEF State
      <3> QED BY <2>0, <3>1 DEF Good, Reported, Handshake, Verified, Keyed, Remembered, State
    <2>2. SetIceWritable(t, w) = IF is_dtls_ THEN OnWritableState(u) ELSE u
      BY <1>2, <2>1, AgentIdle DEF SetIceWritable, Good, Reported
    <2> HIDE DEF u
    <2>3. ASSUME is_dtls_ PROVE Good(TRUE, OnWritableState(u), heard)
      <3>1. CASE u.dtls_state = "kNew"
        BY <2>1, <2>3, <3>1, StartGood DEF OnWritableState
      <3>2. CASE u.dtls_state = "kConnected"
        <4>1. OnWritableState(u) = [u EXCEPT !.writable = u.ice_writable]
          BY <3>2 DEF OnWritableState, SetWritableState
        <4> QED BY <2>1, <2>3, <4>1
                DEF Good, Reported, Handshake, Verified, Keyed, Remembered, State
      <3>3. CASE u.dtls_state \notin {"kNew", "kConnected"}
        BY <2>1, <2>3, <3>3 DEF OnWritableState
      <3> QED BY <3>1, <3>2, <3>3
    <2> QED BY <2>1, <2>2, <2>3
  <1> QED BY <1>1, <1>2

(* Whether the channel receives is reported with the state of now.         *)
LEMMA SetIceReceivingGood ==
  ASSUME NEW t, NEW r \in BOOLEAN, is_dtls_ \in BOOLEAN, heard \in BOOLEAN,
         Good(is_dtls_, t, heard)
  PROVE  Good(is_dtls_, SetIceReceiving(t, r), heard)
  <1> DEFINE u == [t EXCEPT !.ice_receiving = r]
  <1>1. CASE t.ice_receiving = r
    BY <1>1 DEF SetIceReceiving
  <1>2. CASE t.ice_receiving # r
    <2>1. Good(is_dtls_, u, heard)
      BY DEF Good, Reported, Handshake, Verified, Keyed, Remembered, State
    <2>2. SetIceReceiving(t, r) = IF is_dtls_ THEN OnReceivingState(u) ELSE u
      BY <1>2, <2>1, AgentIdle DEF SetIceReceiving, Good, Reported
    <2> HIDE DEF u
    <2>3. ASSUME is_dtls_ PROVE Good(TRUE, OnReceivingState(u), heard)
      <3>1. CASE u.receiving = u.ice_receiving
        BY <2>1, <2>3, <3>1 DEF OnReceivingState
      <3>2. CASE u.receiving # u.ice_receiving
        <4>1. OnReceivingState(u) =
                [u EXCEPT !.receiving = u.ice_receiving,
                          !.pc_state = PcState(u.ice_state, u.dtls_state)]
          BY <2>1, <3>2 DEF OnReceivingState, UpdateState, Good, State
        <4>2. PcState(u.ice_state, u.dtls_state) = u.pc_state
          BY <2>1, <2>3 DEF Good, Reported
        <4>3. OnReceivingState(u) = [u EXCEPT !.receiving = u.ice_receiving]
          BY <2>1, <4>1, <4>2 DEF Good, State
        <4> QED BY <2>1, <2>3, <4>3
                DEF Good, Reported, Handshake, Verified, Keyed, Remembered, State
      <3> QED BY <3>1, <3>2
    <2> QED BY <2>1, <2>2, <2>3
  <1> QED BY <1>1, <1>2

(* IceTransportChannel::UpdateState as a whole.                            *)
LEMMA ChannelUpdateIInv ==
  ASSUME IInv, NEW w \in BOOLEAN, NEW r \in BOOLEAN, NEW active \in BOOLEAN,
         ChannelUpdate(w, r, active)
  PROVE  IInv'
  <1> DEFINE had == [s EXCEPT !.had_connection = @ \/ active]
             t == SetIceReceiving(SetIceWritable(had, w), r)
             st == ComputeIceTransportState(t, active)
             u == [t EXCEPT !.ice_state = st]
  <1>1. Good(is_dtls_, had, heard)
    BY DEF IInv, Good, Reported, Handshake, Verified, Keyed, Remembered, State
  <1>2. Good(is_dtls_, t, heard)
    BY <1>1, SetIceWritableGood, SetIceReceivingGood DEF IInv
  <1>3. s' = AgentUpdateState(u) /\ UNCHANGED <<is_dtls_, heard>>
    BY DEF ChannelUpdate
  <1> HIDE DEF t
  <1>4. st \in IceStates
    BY DEF ComputeIceTransportState, IceStates
  <1> HIDE DEF st
  <1>5. CASE t.ice_state = st
    <2>1. u = t
      BY <1>2, <1>5 DEF Good, State
    <2> QED BY <1>2, <1>3, <2>1, AgentIdle DEF IInv, Good, Reported
  <1>6. CASE t.ice_state # st
    <2>1. AgentUpdateState(u) = OnIceState([t EXCEPT !.ice_state = st, !.agent_state = st])
      BY <1>2, <1>6 DEF AgentUpdateState, Good, Reported, State
    <2> DEFINE v == [t EXCEPT !.ice_state = st, !.agent_state = st,
                              !.pc_state = IF is_dtls_ THEN PcState(st, t.dtls_state)
                                           ELSE PlainPcState(st)]
    <2>2. s' = v
      BY <1>2, <1>3, <2>1 DEF OnIceState, UpdateState, Good, State
    <2>3. (IF is_dtls_ THEN PcState(st, t.dtls_state) ELSE PlainPcState(st)) \in PcStates
      BY <1>2, <1>4, PcStateType DEF Good, State
    <2>4. Good(is_dtls_, v, heard)
      BY <1>2, <1>4, <2>3 DEF Good, Reported, Handshake, Verified, Keyed, Remembered, State
    <2> QED BY <1>3, <2>2, <2>4 DEF IInv
  <1> QED BY <1>5, <1>6

----------------------------------------------------------------------------
(* The answer, and packets from the peer                                   *)

(* OnDtlsEvent with SE_OPEN, of a session whose certificate is verified.   *)
LEMMA OpenGood ==
  ASSUME NEW t, NEW h \in BOOLEAN, t \in State, t.agent_state = t.ice_state,
         t.dtls_state # "kConnected", t.keys = 0, t.session # 0,
         t.cert = t.remote_fingerprint, t.cert # None
  PROVE  Good(TRUE, OnDtlsOpen(t), h)
  <1> DEFINE a == [t EXCEPT !.ssl = "open", !.writable = TRUE]
             b == SetDtlsState(a, "kConnected")
  <1>1. /\ a \in State /\ a.dtls_state = t.dtls_state /\ a.ice_state = t.ice_state
        /\ a.keys = 0 /\ a.writable /\ a.srtp = t.srtp /\ a.session = t.session
    BY DEF State, SslStates
  <1>2. OnDtlsOpen(t) = b
    BY DEF OnDtlsOpen, SetWritableState
  <1>3. /\ b \in State
        /\ b = [a EXCEPT !.dtls_state = "kConnected",
                         !.pc_state = PcState(t.ice_state, "kConnected"),
                         !.keys = IF t.srtp THEN t.session ELSE 0]
    BY <1>1, SetDtlsStateEffect, ZenonT(40) DEF DtlsStates
  <1> HIDE DEF b
  <1>4. Reported(TRUE, b) /\ Handshake(TRUE, b) /\ Verified(b) /\ Remembered(b, h)
    BY <1>3 DEF Reported, Handshake, Verified, Remembered, State
  <1>5. Keyed(b)
    BY <1>3 DEF Keyed, State
  <1> QED BY <1>2, <1>3, <1>4, <1>5 DEF Good

(* OnDtlsEvent with the end of the stream or of the handshake.             *)
LEMMA CloseGood ==
  ASSUME NEW t, NEW h \in BOOLEAN, t \in State, NEW st \in {"kClosed", "kFailed"},
         Reported(TRUE, t), Keyed(t), t.session # 0
  PROVE  Good(TRUE, OnDtlsClose(t, st), h)
  <1> DEFINE a == [t EXCEPT !.ssl = "closed", !.writable = FALSE]
             b == SetDtlsState(a, st)
  <1>1. /\ a \in State /\ a.dtls_state = t.dtls_state /\ a.ice_state = t.ice_state
        /\ a.session = t.session /\ a.ssl = "closed" /\ a.keys = t.keys
        /\ a.agent_state = t.agent_state /\ a.pc_state = t.pc_state /\ a.srtp = t.srtp
    BY DEF State, SslStates
  <1>2. OnDtlsClose(t, st) = b
    BY DEF OnDtlsClose, SetWritableState
  <1>3. CASE t.dtls_state = st
    <2>1. b = a
      BY <1>1, <1>3 DEF SetDtlsState
    <2> HIDE DEF a, b
    <2> QED BY <1>1, <1>2, <1>3, <2>1
            DEF Good, Reported, Handshake, Verified, Keyed, Remembered
  <1>4. CASE t.dtls_state # st
    <2>1. /\ b \in State
          /\ b = [a EXCEPT !.dtls_state = st, !.pc_state = PcState(t.ice_state, st),
                           !.keys = 0]
      BY <1>1, <1>4, SetDtlsStateEffect DEF DtlsStates
    <2> HIDE DEF a, b
    <2> QED BY <1>1, <1>2, <2>1
            DEF Good, Reported, Handshake, Verified, Keyed, Remembered, State
  <1> QED BY <1>3, <1>4

(* ResetDtls leaves a transport without adapter and without keys.          *)
LEMMA ResetEffect ==
  ASSUME NEW t \in State, Reported(TRUE, t), Keyed(t)
  PROVE  LET u == ResetDtls(t)
         IN  /\ u \in State /\ Reported(TRUE, u)
             /\ u.dtls_state = "kNew" /\ u.keys = 0 /\ u.session = t.session
             /\ u.cached_client_hello = t.cached_client_hello
  <1> DEFINE a == [t EXCEPT !.ssl = "none"]
             b == SetDtlsState(a, "kNew")
  <1>1. /\ a \in State /\ a.dtls_state = t.dtls_state /\ a.ice_state = t.ice_state
        /\ a.session = t.session /\ a.keys = t.keys /\ a.agent_state = t.agent_state
        /\ a.pc_state = t.pc_state /\ a.cached_client_hello = t.cached_client_hello
    BY DEF State, SslStates
  <1>2. ResetDtls(t) = [b EXCEPT !.writable = FALSE]
    BY DEF ResetDtls, SetWritableState
  <1>3. /\ b \in State /\ Reported(TRUE, b)
        /\ b.dtls_state = "kNew" /\ b.keys = 0 /\ b.session = t.session
        /\ b.cached_client_hello = t.cached_client_hello
    <2>1. CASE t.dtls_state = "kNew"
      <3>1. b = a
        BY <1>1, <2>1 DEF SetDtlsState
      <3> HIDE DEF a, b
      <3> QED BY <1>1, <2>1, <3>1 DEF Reported, Keyed
    <2>2. CASE t.dtls_state # "kNew"
      <3>1. /\ b \in State
            /\ b = [a EXCEPT !.dtls_state = "kNew", !.pc_state = PcState(t.ice_state, "kNew"),
                             !.keys = 0]
        BY <1>1, <2>2, SetDtlsStateEffect DEF DtlsStates
      <3> HIDE DEF a, b
      <3> QED BY <1>1, <3>1 DEF Reported, State
    <2> QED BY <2>1, <2>2
  <1> HIDE DEF b
  <1> QED BY <1>2, <1>3, ZenonT(40) DEF Reported, State

(* SetRemoteDescription with a fingerprint that is new.                    *)
LEMMA SetRemoteFingerprintIInv ==
  ASSUME IInv, NEW f \in Fingerprints, SetRemoteFingerprint(f)
  PROVE  IInv'
  <1> DEFINE t == [s EXCEPT !.remote_fingerprint = f]
  <1>1. /\ t \in State /\ t.ssl = s.ssl /\ t.cert = s.cert /\ t.session = s.session
        /\ t.dtls_state = s.dtls_state /\ t.keys = s.keys /\ t.remote_fingerprint = f
        /\ t.cached_client_hello = s.cached_client_hello /\ t.srtp = s.srtp
        /\ Reported(TRUE, t) /\ Handshake(TRUE, t) /\ Keyed(t) /\ Remembered(t, heard)
        /\ is_dtls_ = TRUE
    BY DEF SetRemoteFingerprint, IInv, Good, Reported, Handshake, Keyed, Remembered, State
  <1>2. UNCHANGED is_dtls_
    BY DEF SetRemoteFingerprint
  <1>3. CASE s.ssl # "none" /\ s.remote_fingerprint = None
    <2>1. s' = SetPeerCertificateDigest(t, f) /\ UNCHANGED heard
      BY <1>3 DEF SetRemoteFingerprint
    <2> HIDE DEF t
    <2>2. t.ssl \notin {"none", "open", "posted"} /\ Good(TRUE, t, heard)
      BY <1>1, <1>3 DEF IInv, Good, Verified
    <2>3. CASE f \in BadFingerprints
      BY <1>1, <1>2, <2>1, <2>2, <2>3, FailGood DEF SetPeerCertificateDigest, IInv
    <2>4. CASE f \notin BadFingerprints /\ t.ssl = "verify" /\ t.cert = f
      <3>1. s' = [t EXCEPT !.ssl = "posted"]
        BY <2>1, <2>4 DEF SetPeerCertificateDigest
      <3>2. Good(TRUE, s', heard)
        BY <1>1, <2>2, <2>4, <3>1
        DEF Good, Reported, Handshake, Verified, Keyed, Remembered, State, SslStates
      <3> QED BY <1>1, <1>2, <2>1, <3>2 DEF IInv
    <2>5. CASE f \notin BadFingerprints /\ t.ssl = "verify" /\ t.cert # f
      <3> DEFINE a == [t EXCEPT !.ssl = "closed"]
      <3>1. s' = SetDtlsState(a, "kFailed")
        BY <2>1, <2>5 DEF SetPeerCertificateDigest
      <3>2. /\ a \in State /\ a.dtls_state = t.dtls_state /\ a.ice_state = t.ice_state
            /\ a.agent_state = t.agent_state /\ a.session = t.session /\ a.keys = t.keys
            /\ a.ssl = "closed" /\ a.pc_state = t.pc_state /\ a.srtp = t.srtp
        BY <1>1 DEF State, SslStates
      <3>3. Good(TRUE, SetDtlsState(a, "kFailed"), heard)
        <4>1. CASE t.dtls_state = "kFailed"
          <5>1. SetDtlsState(a, "kFailed") = a
            BY <3>2, <4>1 DEF SetDtlsState
          <5> HIDE DEF a
          <5> QED BY <2>2, <3>2, <4>1, <5>1
                  DEF Good, Reported, Handshake, Verified, Keyed, Remembered
        <4>2. CASE t.dtls_state # "kFailed"
          <5> DEFINE b == SetDtlsState(a, "kFailed")
          <5>1. /\ b \in State
                /\ b = [a EXCEPT !.dtls_state = "kFailed",
                                 !.pc_state = PcState(t.ice_state, "kFailed"), !.keys = 0]
            BY <3>2, <4>2, SetDtlsStateEffect DEF DtlsStates
          <5> HIDE DEF a, b
          <5>2. Good(TRUE, b, heard)
            BY <2>2, <3>2, <5>1
            DEF Good, Reported, Handshake, Verified, Keyed, Remembered, State
          <5> QED BY <5>2 DEF b
        <4> QED BY <4>1, <4>2
      <3> QED BY <1>1, <1>2, <2>1, <3>1, <3>3 DEF IInv
    <2>6. CASE f \notin BadFingerprints /\ t.ssl # "verify"
      BY <1>1, <1>2, <2>1, <2>2, <2>6 DEF SetPeerCertificateDigest, IInv
    <2> QED BY <2>3, <2>4, <2>5, <2>6
  <1>4. CASE ~(s.ssl # "none" /\ s.remote_fingerprint = None)
    <2>1. /\ s.session < MaxSessions
          /\ s' = SetupDtls(IF s.ssl # "none" THEN ResetDtls(t) ELSE t)
          /\ heard' = (heard /\ ~(s.remote_fingerprint # None))
      BY <1>4 DEF SetRemoteFingerprint
    <2> HIDE DEF t
    <2> DEFINE u == IF s.ssl # "none" THEN ResetDtls(t) ELSE t
    <2>2. /\ u \in State /\ Reported(TRUE, u) /\ u.dtls_state = "kNew" /\ u.keys = 0
          /\ u.session < MaxSessions
          /\ heard' \in BOOLEAN
          /\ heard' => u.cached_client_hello # "none"
      <3>1. CASE s.ssl # "none"
        BY <1>1, <1>4, <2>1, <3>1, ResetEffect DEF IInv
      <3>2. CASE s.ssl = "none"
        BY <1>1, <2>1, <3>2 DEF IInv, Handshake, Keyed, Remembered
      <3> QED BY <3>1, <3>2
    <2> HIDE DEF u
    <2>3. Good(TRUE, SetupDtls(u), heard')
      BY <2>2, SetupGood
    <2> QED BY <1>1, <1>2, <2>1, <2>2, <2>3 DEF IInv, u
  <1> QED BY <1>3, <1>4

(* A ClientHello before the handshake; the first one sets up DTLS.         *)
LEMMA OnClientHelloIInv ==
  ASSUME IInv, NEW kind \in {"good", "bad"}, OnClientHello(kind)
  PROVE  IInv'
  <1> DEFINE t == [s EXCEPT !.cached_client_hello = kind]
  <1>1. /\ t \in State /\ t.cached_client_hello = kind /\ t.dtls_state = "kNew"
        /\ t.keys = 0 /\ t.session = s.session
        /\ Reported(TRUE, t) /\ Handshake(TRUE, t) /\ Verified(t) /\ Keyed(t)
        /\ is_dtls_ = TRUE
    BY DEF OnClientHello, IInv, Good, Reported, Handshake, Verified, Keyed, State
  <1>2. /\ s.ssl = "none" => s.session < MaxSessions
        /\ s' = IF s.ssl = "none" THEN SetupDtls(t) ELSE t
        /\ heard' = (heard \/ kind = "good")
        /\ UNCHANGED is_dtls_
    BY DEF OnClientHello
  <1> HIDE DEF t
  <1>3. heard' \in BOOLEAN
    BY <1>2
  <1>4. CASE s.ssl = "none"
    BY <1>1, <1>2, <1>3, <1>4, SetupGood DEF IInv
  <1>5. CASE s.ssl # "none"
    BY <1>1, <1>2, <1>3, <1>5 DEF IInv, Good, Remembered
  <1> QED BY <1>4, <1>5

(* A repeated ClientHello.                                                 *)
LEMMA OnLaterClientHelloIInv == ASSUME IInv, OnLaterClientHello PROVE IInv'
  <1>1. s' = [s EXCEPT !.ssl = "hello"] /\ heard' = TRUE /\ UNCHANGED is_dtls_
    BY DEF OnLaterClientHello
  <1>2. Good(is_dtls_, s', TRUE)
    BY <1>1 DEF OnLaterClientHello, IInv, Good, Reported, Handshake, Verified, Keyed,
       Remembered, State, SslStates
  <1> QED BY <1>1, <1>2 DEF IInv

(* The end of the handshake: the certificate is not known yet, verified or *)
(* refused.                                                                *)
LEMMA OnLastFlightIInv ==
  ASSUME IInv, NEW cert \in Certificates, NEW srtp \in BOOLEAN, OnLastFlight(cert, srtp)
  PROVE  IInv'
  <1> DEFINE t == [s EXCEPT !.ssl = "verify", !.cert = cert, !.srtp = srtp]
  <1>1. /\ t \in State /\ t.ssl = "verify" /\ t.cert = cert /\ t.cert # None
        /\ t.dtls_state = "kConnecting" /\ t.keys = 0 /\ t.session # 0
        /\ t.remote_fingerprint = s.remote_fingerprint
        /\ Reported(TRUE, t) /\ Handshake(TRUE, t) /\ Verified(t) /\ Keyed(t)
        /\ Remembered(t, heard)
        /\ is_dtls_ = TRUE
    BY FingerprintsAssumption
    DEF OnLastFlight, IInv, Good, Reported, Handshake, Verified, Keyed, Remembered,
        State, SslStates, Certificates
  <1>2. /\ s' = CASE s.remote_fingerprint = None -> t
                  [] s.remote_fingerprint = cert -> OnDtlsOpen(t)
                  [] OTHER -> OnDtlsClose(t, "kFailed")
        /\ UNCHANGED <<is_dtls_, heard>>
    BY DEF OnLastFlight
  <1> HIDE DEF t
  <1>3. CASE s.remote_fingerprint = None
    BY <1>1, <1>2, <1>3 DEF IInv, Good
  <1>4. CASE s.remote_fingerprint # None /\ s.remote_fingerprint = cert
    BY <1>1, <1>2, <1>4, OpenGood DEF IInv, Reported
  <1>5. CASE s.remote_fingerprint # None /\ s.remote_fingerprint # cert
    BY <1>1, <1>2, <1>5, CloseGood DEF IInv
  <1> QED BY <1>3, <1>4, <1>5

(* The adapter reports the end of the handshake.                           *)
LEMMA OnPostedOpenIInv == ASSUME IInv, OnPostedOpen PROVE IInv'
  <1>1. s' = OnDtlsOpen(s) /\ UNCHANGED <<is_dtls_, heard>>
    BY DEF OnPostedOpen
  <1>2. /\ s \in State /\ s.agent_state = s.ice_state /\ s.dtls_state # "kConnected"
        /\ s.keys = 0 /\ s.session # 0 /\ s.cert = s.remote_fingerprint /\ s.cert # None
        /\ is_dtls_ = TRUE
    BY DEF OnPostedOpen, IInv, Good, Reported, Handshake, Verified, Keyed
  <1> QED BY <1>1, <1>2, OpenGood DEF IInv

(* A session is closed or fails.                                           *)
LEMMA OnDtlsEndIInv ==
  ASSUME IInv, NEW st \in {"kClosed", "kFailed"}, OnDtlsEnd(st)
  PROVE  IInv'
  <1>1. s' = OnDtlsClose(s, st) /\ UNCHANGED <<is_dtls_, heard>>
    BY DEF OnDtlsEnd
  <1>2. s \in State /\ Reported(TRUE, s) /\ Keyed(s) /\ s.session # 0 /\ is_dtls_ = TRUE
    BY DEF OnDtlsEnd, IInv, Good, Reported, Handshake
  <1> QED BY <1>1, <1>2, CloseGood DEF IInv

----------------------------------------------------------------------------
(* The inductive invariant holds of every reachable state.                 *)
THEOREM Invariance == Spec => []IInv
  <1>1. IInv /\ [Next]_vars => IInv'
    <2> SUFFICES ASSUME IInv, [Next]_vars PROVE IInv'
      OBVIOUS
    <2>1. CASE UNCHANGED vars
      BY <2>1 DEF vars, IInv
    <2>2. CASE Next
      BY <2>2, ChannelUpdateIInv, SetRemoteFingerprintIInv, OnClientHelloIInv,
         OnLaterClientHelloIInv, OnLastFlightIInv, OnDtlsEndIInv, OnPostedOpenIInv
      DEF Next, Peer
    <2> QED BY <2>1, <2>2
  <1> QED BY <1>1, InitIInv, PTL DEF Spec

(* TransportController::UpdateState and OnIceState: what the peer          *)
(* connection was told last is the state that its channel and its DTLS     *)
(* transport have now.                                                     *)
THEOREM ReportsAreCurrent == Spec => []ReportIsCurrent
  <1>1. IInv => ReportIsCurrent
    BY DEF IInv, Good, Reported, ReportIsCurrent
  <1> QED BY <1>1, Invariance, PTL

(* SRTP has keys exactly while DTLS is connected with a negotiated         *)
(* profile; they are of the present session, and its peer showed the       *)
(* certificate that the last answer announced.                             *)
THEOREM KeysAreVerified == Spec => []KeysOfVerifiedSession
  <1>1. IInv => KeysOfVerifiedSession
    BY DEF IInv, Good, Handshake, Verified, Keyed, KeysOfVerifiedSession
  <1> QED BY <1>1, Invariance, PTL

(* A ClientHello that came too early has been read once the handshake      *)
(* runs.                                                                   *)
THEOREM HelloIsKept == Spec => []HelloNotLost
  <1>1. IInv => HelloNotLost
    BY DEF IInv, Good, Remembered, HelloNotLost
  <1> QED BY <1>1, Invariance, PTL

-----------------------------------------------------------------------------
(* Sorting                                                                 *)

(* A strict order on the first n numbers.                                  *)
StrictOrder(R, n) ==
  /\ \A i \in 1 .. n : <<i, i>> \notin R
  /\ \A i, j \in 1 .. n : i # j => <<i, j>> \in R \/ <<j, i>> \in R
  /\ \A i, j, k \in 1 .. n : <<i, j>> \in R /\ <<j, k>> \in R => <<i, k>> \in R

(* The numbers before j are a proper part of those before a later one.     *)
LEMMA EarlierHasFewer ==
  ASSUME NEW n \in Nat, NEW R, StrictOrder(R, n), NEW i \in 1 .. n, NEW j \in 1 .. n, <<i, j>> \in R
  PROVE  Cardinality({k \in 1 .. n : <<k, i>> \in R}) < Cardinality({k \in 1 .. n : <<k, j>> \in R})
  <1> DEFINE A == {k \in 1 .. n : <<k, i>> \in R}
             B == {k \in 1 .. n : <<k, j>> \in R}
  <1>1. IsFiniteSet(1 .. n)
    BY FS_Interval
  <1>2. A \in SUBSET B
    BY DEF StrictOrder
  <1>3. i \in B /\ i \notin A
    BY DEF StrictOrder
  <1>4. B \in SUBSET (1 .. n)
    OBVIOUS
  <1> HIDE DEF A, B
  <1>5. IsFiniteSet(B)
    BY <1>1, <1>4, FS_Subset
  <1>6. IsFiniteSet(A) /\ Cardinality(A) <= Cardinality(B) /\ (Cardinality(B) = Cardinality(A) => B = A)
    BY <1>2, <1>5, FS_Subset
  <1>7. Cardinality(A) \in Nat /\ Cardinality(B) \in Nat
    BY <1>5, <1>6, FS_CardinalityType
  <1>8. Cardinality(A) < Cardinality(B)
    BY <1>3, <1>6, <1>7
  <1> QED BY <1>8 DEF A, B

(* Every strict order on the first n numbers can be listed.                *)
LEMMA OrderExists ==
  ASSUME NEW n \in Nat, NEW R, StrictOrder(R, n)
  PROVE  \E p \in [1 .. n -> 1 .. n] : \A i, j \in 1 .. n : i < j => <<p[i], p[j]>> \in R
  <1> DEFINE D == 1 .. n
             Before(i) == {k \in D : <<k, i>> \in R}
             r == [i \in D |-> 1 + Cardinality(Before(i))]
  <1>1. IsFiniteSet(D) /\ Cardinality(D) = n
    BY FS_Interval
  <1>2. ASSUME NEW i \in D PROVE r[i] \in D
    <2> DEFINE S == D \ {i}
    <2>1. Before(i) \in SUBSET S
      BY DEF StrictOrder
    <2>2. IsFiniteSet(S) /\ Cardinality(S) = n - 1
      BY <1>1, FS_RemoveElement
    <2>3. Cardinality(Before(i)) \in Nat /\ Cardinality(Before(i)) <= n - 1
      <3> HIDE DEF Before, S
      <3> QED BY <2>1, <2>2, FS_Subset, FS_CardinalityType
    <2> QED BY <2>3
  <1>3. \A i, j \in D : <<i, j>> \in R => r[i] < r[j]
    <2> SUFFICES ASSUME NEW i \in D, NEW j \in D, <<i, j>> \in R PROVE r[i] < r[j]
      OBVIOUS
    <2>1. Cardinality(Before(i)) < Cardinality(Before(j))
      BY EarlierHasFewer
    <2>2. r[i] = 1 + Cardinality(Before(i)) /\ r[j] = 1 + Cardinality(Before(j))
      OBVIOUS
    <2>3. r[i] \in Int /\ r[j] \in Int
      BY <1>2
    <2>4. IsFiniteSet(Before(i)) /\ IsFiniteSet(Before(j))
      BY <1>1, FS_Subset
    <2>5. Cardinality(Before(i)) \in Nat /\ Cardinality(Before(j)) \in Nat
      BY <2>4, FS_CardinalityType
    <2> HIDE DEF r, Before
    <2> QED BY <2>1, <2>2, <2>5
  <1>4. r \in [D -> D]
    BY <1>2
  <1> HIDE DEF r
  <1>5. \A i, j \in D : r[i] = r[j] => i = j
    <2> SUFFICES ASSUME NEW i \in D, NEW j \in D, i # j PROVE r[i] # r[j]
      OBVIOUS
    <2>1. <<i, j>> \in R \/ <<j, i>> \in R
      BY DEF StrictOrder
    <2>2. r[i] < r[j] \/ r[j] < r[i]
      BY <1>3, <2>1
    <2>3. r[i] \in Int /\ r[j] \in Int
      BY <1>4
    <2> QED BY <2>2, <2>3
  <1>6. r \in Injection(D, D)
    BY <1>4, <1>5 DEF Injection, IsInjective
  <1>7. r \in Surjection(D, D)
    BY <1>1, <1>6, FS_Injection
  <1>8. \A k \in D : \E i \in D : r[i] = k
    BY <1>7 DEF Surjection
  <1> DEFINE p == [k \in D |-> CHOOSE i \in D : r[i] = k]
  <1>9. \A k \in D : p[k] \in D /\ r[p[k]] = k
    BY <1>8
  <1>10. p \in [D -> D]
    BY <1>9
  <1> HIDE DEF p
  <1>11. \A i, j \in D : i < j => <<p[i], p[j]>> \in R
    <2> SUFFICES ASSUME NEW i \in D, NEW j \in D, i < j PROVE <<p[i], p[j]>> \in R
      OBVIOUS
    <2>1. p[i] # p[j]
      BY <1>9
    <2>2. ~(<<p[j], p[i]>> \in R)
      BY <1>3, <1>9
    <2> QED BY <1>9, <2>1, <2>2 DEF StrictOrder
  <1> QED BY <1>10, <1>11

-----------------------------------------------------------------------------
(* The states of the channel                                               *)

Channel ==
  [connections : Seq(Addrs), unpinged : SUBSET Addrs, pinged : SUBSET Addrs,
   ctlSelected : Addrs \cup {NoConnection}, selected : Addrs \cup {NoConnection},
   had : BOOLEAN, hasBeen : BOOLEAN, writable : BOOLEAN, receiving : BOOLEAN,
   state : {"kNew", "kChecking", "kConnected", "kDisconnected", "kFailed"},
   pinging : BOOLEAN]

ChannelStates == [conn : [Addrs -> Connection], ch : Channel]

Listed(v) == ToSet(v.ch.connections)

(* Each live connection is in the list of the controller once.             *)
Core(v) ==
  /\ v \in ChannelStates
  /\ IsInjective(v.ch.connections)
  /\ \A a \in Listed(v) : v.conn[a].life = "live"

Usable(v) ==
  v.ch.selected # NoConnection =>
    /\ v.ch.selected \in Listed(v)
    /\ v.conn[v.ch.selected].write \in {Writable, Unreliable}
    /\ v.ch.ctlSelected = v.ch.selected

(* What the channel reported is what its connections say.                  *)
IceReported(v) ==
  LET active == \E a \in Listed(v) : v.conn[a].write # TimedOut
  IN  /\ v.ch.writable = (v.ch.selected # NoConnection /\ v.conn[v.ch.selected].write = Writable)
      /\ v.ch.writable => v.ch.hasBeen
      /\ v.ch.receiving = \E a \in Listed(v) : v.conn[a].receiving
      /\ v.ch.state = IF v.ch.had /\ ~active THEN "kFailed"
                      ELSE IF v.ch.hasBeen /\ ~v.ch.writable THEN "kDisconnected"
                      ELSE IF ~active THEN "kNew"
                      ELSE IF ~v.ch.writable THEN "kChecking"
                      ELSE "kConnected"

IceGood(v) == Core(v) /\ Usable(v) /\ IceReported(v)

(* A step from v to w inside a handler: round-trip times stay, and the     *)
(* controller changes its selected connection only for a better one.       *)
Improves(v, w) ==
  /\ \A a \in Addrs : w.conn[a].rtt = v.conn[a].rtt
  /\ \/ w.ch.ctlSelected = v.ch.ctlSelected
     \/ v.ch.ctlSelected = NoConnection
     \/ /\ w.ch.ctlSelected # NoConnection
        /\ v.conn[w.ch.ctlSelected].rtt < v.conn[v.ch.ctlSelected].rtt

(* ... and no live connection drops out of the list.                       *)
Keeps(v, w) ==
  \A a \in Addrs : w.conn[a].life = "live" =>
    v.conn[a].life = "live" /\ (a \in Listed(v) => a \in Listed(w))

Complete(v) == \A a \in Addrs : v.conn[a].life = "live" => a \in Listed(v)

IceInv ==
  /\ IceGood(Now) /\ Complete(Now)
  /\ {remote, silent, fired, wild} \subseteq BOOLEAN

Pings     == BoundedSeq(Ages, ConnectFails)
RttValues == Rtts \cup {InitialRtt}
Heards    == 0 .. ReceivingTimeout
Opens     == 0 .. MaxOpen

(* Connection, with names for the sets that its fields are taken from.     *)
LEMMA ConnectionType ==
  Connection = [life : {"none", "live", "freed"}, password : BOOLEAN,
                write : 0 .. 3, receiving : BOOLEAN, heard : Heards,
                answered : BOOLEAN, idle : 0 .. 1, pings : Pings, open : Opens, rtt : RttValues]
  BY DEF Connection, Writable, TimedOut, Pings, RttValues, Heards, Opens

(* No pings.                                                               *)
LEMMA NoPings == <<>> \in Pings
  <1>1. ConnectFails \in Nat
    BY TimeoutAssumption
  <1>2. <<>> \in [1 .. 0 -> Ages] /\ 0 \in 0 .. ConnectFails
    BY <1>1
  <1> QED BY <1>2 DEF Pings, BoundedSeq, SeqOf

(* The fields of a connection that the controller and the channel read.    *)
LEMMA ConnectionFields ==
  ASSUME NEW v \in ChannelStates, NEW a \in Addrs
  PROVE  /\ v.conn[a] \in Connection
         /\ v.conn[a].write \in 0 .. 3 /\ v.conn[a].receiving \in BOOLEAN
         /\ v.conn[a].rtt \in Nat
         /\ Priority[a] \in Nat
  <1>1. v.conn[a] \in Connection
    BY DEF ChannelStates
  <1>2. v.conn[a].write \in 0 .. 3 /\ v.conn[a].receiving \in BOOLEAN /\ v.conn[a].rtt \in Rtts \cup {InitialRtt}
    BY <1>1 DEF Connection, Writable, TimedOut
  <1>3. v.conn[a].rtt \in Nat
    <2>1. InitialRtt \in Nat /\ \A r \in Rtts : r \in 0 .. InitialRtt - 1
      BY RttsAssumption
    <2> QED BY <1>2, <2>1
  <1> QED BY <1>1, <1>2, <1>3, AddrsAssumption

(* Better is a strict weak order.                                          *)
LEMMA BetterOrder ==
  ASSUME NEW v \in ChannelStates, NEW a \in Addrs, NEW b \in Addrs, NEW c \in Addrs
  PROVE  /\ ~Better(v, a, a)
         /\ ~(Better(v, a, b) /\ Better(v, b, a))
         /\ Better(v, a, b) /\ ~Better(v, c, b) => Better(v, a, c)
         /\ ~Better(v, b, a) /\ Better(v, b, c) => Better(v, a, c)
         /\ ~Better(v, b, a) /\ ~Better(v, c, b) => ~Better(v, c, a)
  <1> DEFINE wa == v.conn[a].write
             wb == v.conn[b].write
             wc == v.conn[c].write
             ra == v.conn[a].rtt
             rb == v.conn[b].rtt
             rc == v.conn[c].rtt
             va == v.conn[a].receiving
             vb == v.conn[b].receiving
             vc == v.conn[c].receiving
             pa == Priority[a]
             pb == Priority[b]
             pc == Priority[c]
  <1>1. /\ wa \in Int /\ wb \in Int /\ wc \in Int /\ ra \in Int /\ rb \in Int /\ rc \in Int
        /\ va \in BOOLEAN /\ vb \in BOOLEAN /\ vc \in BOOLEAN
        /\ pa \in Int /\ pb \in Int /\ pc \in Int
    BY ConnectionFields
  <1> DEFINE B(w, r, x, p, w2, r2, x2, p2) ==
               \/ w < w2
               \/ w = w2 /\ x /\ ~x2
               \/ /\ w = w2 /\ x = x2
                  /\ \/ p > p2
                     \/ p = p2 /\ r < r2
  <1>2. /\ Better(v, a, a) = B(wa, ra, va, pa, wa, ra, va, pa)
        /\ Better(v, a, b) = B(wa, ra, va, pa, wb, rb, vb, pb)
        /\ Better(v, b, a) = B(wb, rb, vb, pb, wa, ra, va, pa)
        /\ Better(v, c, b) = B(wc, rc, vc, pc, wb, rb, vb, pb)
        /\ Better(v, b, c) = B(wb, rb, vb, pb, wc, rc, vc, pc)
        /\ Better(v, a, c) = B(wa, ra, va, pa, wc, rc, vc, pc)
        /\ Better(v, c, a) = B(wc, rc, vc, pc, wa, ra, va, pa)
    BY DEF Better
  <1> HIDE DEF wa, wb, wc, ra, rb, rc, va, vb, vc, pa, pb, pc
  <1> QED BY <1>1, <1>2

(* Sorted rearranges the list of the controller and nothing else.          *)
LEMMA SortedIsPermutation ==
  ASSUME NEW v \in ChannelStates
  PROVE  /\ Sorted(v) \in Seq(Addrs)
         /\ ToSet(Sorted(v)) = Listed(v)
         /\ IsInjective(v.ch.connections) => IsInjective(Sorted(v))
         /\ Len(Sorted(v)) = Len(v.ch.connections)
  <1> DEFINE list == v.ch.connections
             n == Len(list)
             B(i, j) == Better(v, list[i], list[j]) \/ (~Better(v, list[j], list[i]) /\ i < j)
             R == {q \in (1 .. n) \X (1 .. n) : B(q[1], q[2])}
             OK(p) == \A i, j \in 1 .. n : i < j => B(p[i], p[j])
             order == CHOOSE p \in [1 .. n -> 1 .. n] : OK(p)
  <1>1. list \in Seq(Addrs)
    BY DEF ChannelStates, Channel
  <1>2. n \in Nat /\ DOMAIN list = 1 .. n /\ list \in [1 .. n -> Addrs]
    BY <1>1
  <1>3. Sorted(v) = [i \in 1 .. n |-> list[order[i]]]
    BY <1>2 DEF Sorted
  <1> HIDE DEF list, n
  <1>4. \A i, j \in 1 .. n : <<i, j>> \in R <=> B(i, j)
    OBVIOUS
  <1>5. StrictOrder(R, n)
    <2>1. \A i \in 1 .. n : ~B(i, i)
      BY <1>2, BetterOrder
    <2>2. \A i, j \in 1 .. n : i # j => B(i, j) \/ B(j, i)
      BY <1>2
    <2>3. ASSUME NEW i \in 1 .. n, NEW j \in 1 .. n, NEW k \in 1 .. n, B(i, j), B(j, k)
          PROVE  B(i, k)
      <3> DEFINE a == list[i]
                 b == list[j]
                 c == list[k]
      <3>1. a \in Addrs /\ b \in Addrs /\ c \in Addrs
        BY <1>2
      <3> HIDE DEF a, b, c
      <3>2. /\ ~(Better(v, a, b) /\ Better(v, b, a)) /\ ~(Better(v, c, b) /\ Better(v, b, c))
            /\ Better(v, a, b) /\ ~Better(v, c, b) => Better(v, a, c)
            /\ ~Better(v, b, a) /\ Better(v, b, c) => Better(v, a, c)
            /\ ~Better(v, b, a) /\ ~Better(v, c, b) => ~Better(v, c, a)
        BY <3>1, BetterOrder
      <3>3. i < j /\ j < k => i < k
        BY <1>2
      <3> QED BY <2>3, <3>2, <3>3 DEF a, b, c
    <2> HIDE DEF B, R
    <2> QED BY <1>4, <2>1, <2>2, <2>3 DEF StrictOrder
  <1>6. PICK p0 \in [1 .. n -> 1 .. n] : \A i, j \in 1 .. n : i < j => <<p0[i], p0[j]>> \in R
    <2> HIDE DEF R
    <2> QED BY <1>2, <1>5, OrderExists
  <1>7. OK(p0)
    <2> HIDE DEF B, R
    <2> QED BY <1>4, <1>6
  <1>8. order \in [1 .. n -> 1 .. n] /\ OK(order)
    <2> HIDE DEF OK
    <2> QED BY <1>7
  <1> HIDE DEF order
  <1>9. \A i, j \in 1 .. n : i # j => order[i] # order[j]
    <2> SUFFICES ASSUME NEW i \in 1 .. n, NEW j \in 1 .. n, i < j PROVE order[i] # order[j]
      BY <1>2
    <2>1. <<order[i], order[j]>> \in R /\ order[i] \in 1 .. n
      <3> HIDE DEF B, R
      <3> QED BY <1>4, <1>8
    <2> HIDE DEF R
    <2> QED BY <1>5, <2>1 DEF StrictOrder
  <1>10. order \in Injection(1 .. n, 1 .. n)
    BY <1>8, <1>9 DEF Injection, IsInjective
  <1>11. order \in Surjection(1 .. n, 1 .. n)
    BY <1>2, <1>10, FS_Injection, FS_Interval
  <1>12. \A k \in 1 .. n : \E i \in 1 .. n : order[i] = k
    BY <1>11 DEF Surjection
  <1>13. Sorted(v) \in [1 .. n -> Addrs]
    BY <1>2, <1>3, <1>8
  <1>14. Sorted(v) \in Seq(Addrs) /\ Len(Sorted(v)) = n /\ DOMAIN Sorted(v) = 1 .. n
    BY <1>2, <1>13
  <1>15. ToSet(Sorted(v)) = ToSet(list)
    <2>1. \A i \in 1 .. n : Sorted(v)[i] = list[order[i]] /\ order[i] \in 1 .. n
      BY <1>3, <1>8
    <2>2. ToSet(Sorted(v)) = {Sorted(v)[i] : i \in 1 .. n} /\ ToSet(list) = {list[i] : i \in 1 .. n}
      BY <1>2, <1>14 DEF ToSet
    <2> DEFINE sorted == Sorted(v)
    <2> HIDE DEF sorted
    <2>3. \A x \in ToSet(sorted) : x \in ToSet(list)
      BY <2>1, <2>2 DEF sorted
    <2>4. \A x \in ToSet(list) : x \in ToSet(sorted)
      <3> SUFFICES ASSUME NEW k \in 1 .. n PROVE list[k] \in ToSet(sorted)
        BY <2>2
      <3>1. PICK i \in 1 .. n : order[i] = k
        BY <1>12
      <3>2. sorted[i] = list[k]
        BY <2>1, <3>1 DEF sorted
      <3> QED BY <2>2, <3>2 DEF sorted
    <2> QED BY <2>3, <2>4 DEF sorted
  <1>16. IsInjective(list) => IsInjective(Sorted(v))
    <2> SUFFICES ASSUME IsInjective(list), NEW i \in 1 .. n, NEW j \in 1 .. n, Sorted(v)[i] = Sorted(v)[j]
                 PROVE  i = j
      BY <1>14 DEF IsInjective
    <2>1. order[i] = order[j]
      BY <1>2, <1>3, <1>8 DEF IsInjective
    <2> QED BY <1>9, <2>1
  <1> QED BY <1>14, <1>15, <1>16 DEF Listed, list, n

-----------------------------------------------------------------------------
(* The callbacks                                                           *)

(* UpdateState of the channel: what it writes, and that it reports what    *)
(* the connections say.                                                    *)
LEMMA UpdateChannelStateEffect ==
  ASSUME NEW v \in ChannelStates
  PROVE  /\ UpdateChannelState(v) \in ChannelStates
         /\ UpdateChannelState(v).conn = v.conn
         /\ UpdateChannelState(v).ch.connections = v.ch.connections
         /\ UpdateChannelState(v).ch.selected = v.ch.selected
         /\ UpdateChannelState(v).ch.ctlSelected = v.ch.ctlSelected
         /\ IceReported(UpdateChannelState(v))
  <1> DEFINE writable == v.ch.selected # NoConnection /\ v.conn[v.ch.selected].write = Writable
             hasBeen == v.ch.hasBeen \/ writable
             receiving == \E a \in Listed(v) : v.conn[a].receiving
             state == ComputeState(v, writable, hasBeen)
             u == [v EXCEPT !.ch.writable = writable, !.ch.hasBeen = hasBeen,
                            !.ch.receiving = receiving, !.ch.state = state]
             d == [v.ch EXCEPT !.writable = writable, !.hasBeen = hasBeen,
                               !.receiving = receiving, !.state = state]
  <1>1. UpdateChannelState(v) = u
    BY DEF UpdateChannelState, Listed
  <1>2. v.ch \in Channel /\ v.conn \in [Addrs -> Connection] /\ v = [conn |-> v.conn, ch |-> v.ch]
    BY DEF ChannelStates
  <1>3. writable \in BOOLEAN /\ hasBeen \in BOOLEAN /\ receiving \in BOOLEAN
        /\ state \in {"kNew", "kChecking", "kConnected", "kDisconnected", "kFailed"}
    BY <1>2 DEF Channel, ComputeState
  <1>4. u = [conn |-> v.conn, ch |-> d]
    <2> HIDE DEF writable, hasBeen, receiving, state
    <2>1. u.ch = d
      BY <1>2
    <2>2. u.conn = v.conn
      BY <1>2
    <2>3. u = [v EXCEPT !.ch = u.ch]
      BY <1>2
    <2> HIDE DEF u, d
    <2> QED BY <1>2, <2>1, <2>2, <2>3
  <1> HIDE DEF u
  <1>5. /\ d \in Channel /\ d.connections = v.ch.connections /\ d.selected = v.ch.selected
        /\ d.ctlSelected = v.ch.ctlSelected /\ d.had = v.ch.had
        /\ d.writable = writable /\ d.hasBeen = hasBeen /\ d.receiving = receiving /\ d.state = state
    <2> HIDE DEF writable, hasBeen, receiving, state
    <2> QED BY <1>2, <1>3 DEF Channel
  <1>6. state = LET active == \E a \in Listed(v) : v.conn[a].write # TimedOut
                IN  IF v.ch.had /\ ~active THEN "kFailed"
                    ELSE IF hasBeen /\ ~writable THEN "kDisconnected"
                    ELSE IF ~active THEN "kNew"
                    ELSE IF ~writable THEN "kChecking"
                    ELSE "kConnected"
    BY DEF ComputeState, Listed
  <1> HIDE DEF d, state
  <1>7. u \in ChannelStates /\ u.conn = v.conn /\ u.ch = d
    BY <1>2, <1>4, <1>5 DEF ChannelStates
  <1>8. IceReported(u)
    BY <1>5, <1>6, <1>7 DEF IceReported, Listed
  <1> QED BY <1>1, <1>5, <1>7, <1>8

(* MaybeStartPinging touches nothing of this.                              *)
LEMMA MaybeStartPingingEffect ==
  ASSUME NEW v \in ChannelStates, IceReported(v)
  PROVE  /\ MaybeStartPinging(v) \in ChannelStates
         /\ MaybeStartPinging(v).conn = v.conn
         /\ MaybeStartPinging(v).ch.connections = v.ch.connections
         /\ MaybeStartPinging(v).ch.selected = v.ch.selected
         /\ MaybeStartPinging(v).ch.ctlSelected = v.ch.ctlSelected
         /\ IceReported(MaybeStartPinging(v))
  <1> DEFINE pinging == v.ch.pinging \/ \E a \in Listed(v) : v.conn[a].password
             d == [v.ch EXCEPT !.pinging = pinging]
             u == [conn |-> v.conn, ch |-> d]
  <1>1. v.ch \in Channel /\ v.conn \in [Addrs -> Connection] /\ v = [conn |-> v.conn, ch |-> v.ch]
    BY DEF ChannelStates
  <1>2. MaybeStartPinging(v) = u
    BY <1>1 DEF MaybeStartPinging, Listed
  <1>3. pinging \in BOOLEAN
    BY <1>1 DEF Channel
  <1> HIDE DEF pinging
  <1>4. /\ d \in Channel /\ d.connections = v.ch.connections /\ d.selected = v.ch.selected
        /\ d.ctlSelected = v.ch.ctlSelected /\ d.had = v.ch.had /\ d.writable = v.ch.writable
        /\ d.hasBeen = v.ch.hasBeen /\ d.receiving = v.ch.receiving /\ d.state = v.ch.state
    BY <1>1, <1>3 DEF Channel
  <1> HIDE DEF d
  <1>5. u \in ChannelStates /\ u.conn = v.conn /\ u.ch = d
    BY <1>1, <1>4 DEF ChannelStates
  <1> HIDE DEF u
  <1>6. IceReported(u)
    BY <1>4, <1>5 DEF IceReported, Listed
  <1> QED BY <1>2, <1>4, <1>5, <1>6

(* SortConnectionsAndUpdateState keeps the connections, reports what they  *)
(* say, and either keeps the selection or makes one that can be used.      *)
LEMMA SortEffect ==
  ASSUME NEW v, Core(v)
  PROVE  LET w == SortConnectionsAndUpdateState(v)
         IN  /\ Core(w) /\ IceReported(w) /\ Improves(v, w)
             /\ w.conn = v.conn /\ Listed(w) = Listed(v)
             /\ \/ w.ch.selected = v.ch.selected /\ w.ch.ctlSelected = v.ch.ctlSelected
                \/ w.ch.selected # NoConnection /\ Usable(w)
  <1> DEFINE list == Sorted(v)
             x == [v EXCEPT !.ch.connections = list]
             top == SortAndSwitchConnection(x)
             y == IF top = NoConnection THEN x ELSE SwitchSelectedConnection(x, top)
             z == UpdateChannelState(y)
             w == MaybeStartPinging(z)
  <1>1. SortConnectionsAndUpdateState(v) = w
    BY DEF SortConnectionsAndUpdateState
  <1>2. v \in ChannelStates /\ v.ch \in Channel /\ v.conn \in [Addrs -> Connection]
        /\ v = [conn |-> v.conn, ch |-> v.ch]
    BY DEF Core, ChannelStates
  <1>3. list \in Seq(Addrs) /\ ToSet(list) = Listed(v) /\ IsInjective(list)
    BY <1>2, SortedIsPermutation DEF Core
  <1> HIDE DEF list
  <1>4. /\ x \in ChannelStates /\ x.conn = v.conn /\ x.ch.connections = list
        /\ x.ch.selected = v.ch.selected /\ x.ch.ctlSelected = v.ch.ctlSelected
    BY <1>2, <1>3 DEF ChannelStates, Channel
  <1> HIDE DEF x
  <1>5. top # NoConnection =>
          /\ top \in ToSet(list) /\ top \in Addrs
          /\ v.conn[top].write \in {Writable, Unreliable}
          /\ v.ch.ctlSelected = NoConnection \/ v.conn[top].rtt <= v.conn[v.ch.ctlSelected].rtt - 1
    <2> SUFFICES ASSUME top # NoConnection
                 PROVE  /\ top \in ToSet(list) /\ top \in Addrs
                        /\ v.conn[top].write \in {Writable, Unreliable}
                        /\ v.ch.ctlSelected = NoConnection
                             \/ v.conn[top].rtt <= v.conn[v.ch.ctlSelected].rtt - 1
      OBVIOUS
    <2>1. list # <<>> => list[1] \in ToSet(list) /\ list[1] \in Addrs
      BY <1>3 DEF ToSet
    <2>2. top = list[1] /\ list # <<>> /\ ReadyToSend(x, top)
          /\ (x.ch.ctlSelected = NoConnection \/ x.conn[top].rtt <= x.conn[x.ch.ctlSelected].rtt - 1)
      BY <1>4 DEF SortAndSwitchConnection
    <2> HIDE DEF top
    <2> QED BY <1>4, <2>1, <2>2 DEF ReadyToSend
  <1> HIDE DEF top
  <1>6. /\ y \in ChannelStates /\ y.conn = v.conn /\ y.ch.connections = list
        /\ y.ch.selected = IF top = NoConnection THEN v.ch.selected ELSE top
        /\ y.ch.ctlSelected = IF top = NoConnection THEN v.ch.ctlSelected ELSE top
    <2>1. CASE top = NoConnection
      BY <1>4, <2>1
    <2>2. CASE top # NoConnection
      <3>1. x.ch \in Channel /\ x.conn \in [Addrs -> Connection] /\ x = [conn |-> x.conn, ch |-> x.ch]
        BY <1>4 DEF ChannelStates
      <3> DEFINE d == [x.ch EXCEPT !.selected = top, !.ctlSelected = top]
      <3>2. y = [conn |-> x.conn, ch |-> d]
        BY <2>2, <3>1 DEF SwitchSelectedConnection, Channel
      <3>3. d \in Channel /\ d.connections = x.ch.connections /\ d.selected = top /\ d.ctlSelected = top
        BY <1>5, <2>2, <3>1 DEF Channel
      <3> HIDE DEF d
      <3> QED BY <1>4, <2>2, <3>1, <3>2, <3>3 DEF ChannelStates
    <2> QED BY <2>1, <2>2
  <1> HIDE DEF y
  <1>7. /\ z \in ChannelStates /\ z.conn = v.conn /\ z.ch.connections = list
        /\ z.ch.selected = y.ch.selected /\ z.ch.ctlSelected = y.ch.ctlSelected /\ IceReported(z)
    BY <1>6, UpdateChannelStateEffect
  <1> HIDE DEF z
  <1>8. /\ w \in ChannelStates /\ w.conn = v.conn /\ w.ch.connections = list
        /\ w.ch.selected = y.ch.selected /\ w.ch.ctlSelected = y.ch.ctlSelected /\ IceReported(w)
    BY <1>7, MaybeStartPingingEffect
  <1> HIDE DEF w
  <1>9. Core(w) /\ Listed(w) = Listed(v)
    BY <1>3, <1>8 DEF Core, Listed
  <1>10. Improves(v, w)
    <2>1. CASE top = NoConnection
      BY <1>6, <1>8, <2>1 DEF Improves
    <2>2. CASE top # NoConnection /\ v.ch.ctlSelected = NoConnection
      BY <1>8, <2>2 DEF Improves
    <2>3. CASE top # NoConnection /\ v.ch.ctlSelected # NoConnection
      <3>1. v.ch.ctlSelected \in Addrs
        BY <1>2, <2>3 DEF Channel
      <3>2. v.conn[top].rtt \in Nat /\ v.conn[v.ch.ctlSelected].rtt \in Nat
        BY <1>2, <1>5, <2>3, <3>1, ConnectionFields
      <3> QED BY <1>5, <1>6, <1>8, <2>3, <3>2 DEF Improves
    <2> QED BY <2>1, <2>2, <2>3
  <1>11. \/ w.ch.selected = v.ch.selected /\ w.ch.ctlSelected = v.ch.ctlSelected
         \/ w.ch.selected # NoConnection /\ Usable(w)
    BY <1>3, <1>5, <1>6, <1>8 DEF Usable, Listed
  <1> QED BY <1>1, <1>8, <1>9, <1>10, <1>11

(* Erasing a connection from a list that has it once.                      *)
LEMMA RemoveFirstEffect ==
  ASSUME NEW list \in Seq(Addrs), IsInjective(list), NEW a \in ToSet(list)
  PROVE  /\ RemoveFirst(list, a) \in Seq(Addrs)
         /\ IsInjective(RemoveFirst(list, a))
         /\ ToSet(RemoveFirst(list, a)) = ToSet(list) \ {a}
  <1> DEFINE n == Len(list)
  <1>1. n \in Nat /\ DOMAIN list = 1 .. n /\ \A i \in 1 .. n : list[i] \in Addrs
    OBVIOUS
  <1>2. PICK k \in 1 .. n : list[k] = a
    BY <1>1 DEF ToSet
  <1>3. \A i \in 1 .. n : list[i] = a => i = k
    BY <1>1, <1>2 DEF IsInjective
  <1> DEFINE I == {i \in 1 .. Len(list) : list[i] = a}
  <1>4. I = {k}
    BY <1>2, <1>3
  <1> HIDE DEF I
  <1>5. Min(I) = k
    BY <1>2, <1>4 DEF Min
  <1>6. RemoveFirst(list, a) = RemoveAt(list, k)
    <2>1. SelectInSeq(list, LAMBDA v : v = a) = k
      BY <1>4, <1>5 DEF SelectInSeq, I
    <2> QED BY <1>2, <2>1 DEF RemoveFirst
  <1> DEFINE r == RemoveAt(list, k)
  <1>7. /\ r \in Seq(Addrs) /\ Len(r) = n - 1 /\ DOMAIN r = 1 .. n - 1
        /\ \A i \in 1 .. n - 1 : r[i] = IF i < k THEN list[i] ELSE list[i + 1]
    <2> DEFINE x == SubSeq(list, 1, k - 1)
               y == SubSeq(list, k + 1, Len(list))
    <2>1. x \in Seq(Addrs) /\ Len(x) = k - 1 /\ \A i \in 1 .. k - 1 : x[i] = list[i]
      BY <1>1, <1>2
    <2>2. y \in Seq(Addrs) /\ Len(y) = n - k /\ \A i \in 1 .. n - k : y[i] = list[k + i]
      <3>1. k + 1 \in 1 .. Len(list) + 1 /\ Len(list) \in (k + 1) - 1 .. Len(list)
        BY <1>1, <1>2
      <3>2. y \in Seq(Addrs) /\ Len(y) = Len(list) - (k + 1) + 1
            /\ \A i \in 1 .. Len(list) - (k + 1) + 1 : y[i] = list[(k + 1) + i - 1]
        BY <3>1, SubSeqProperties
      <3>3. Len(list) - (k + 1) + 1 = n - k /\ \A i \in 1 .. n - k : (k + 1) + i - 1 = k + i
        BY <1>1, <1>2
      <3> QED BY <3>2, <3>3
    <2>3. r = x \o y
      BY DEF RemoveAt
    <2> HIDE DEF x, y, r, n
    <2>4. r \in Seq(Addrs) /\ Len(r) = n - 1 /\ DOMAIN r = 1 .. n - 1
      <3>1. r \in Seq(Addrs) /\ Len(r) = Len(x) + Len(y)
        BY <2>1, <2>2, <2>3, ConcatProperties
      <3>2. Len(x) + Len(y) = n - 1
        BY <1>1, <1>2, <2>1, <2>2
      <3> QED BY <3>1, <3>2
    <2>5. ASSUME NEW i \in 1 .. n - 1 PROVE r[i] = IF i < k THEN list[i] ELSE list[i + 1]
      <3>1. CASE i < k
        BY <1>1, <1>2, <2>1, <2>2, <2>3, <3>1
      <3>2. CASE ~(i < k)
        <4>1. r[i] = y[i - (k - 1)]
          BY <1>1, <1>2, <2>1, <2>2, <2>3, <3>2
        <4>2. i - (k - 1) \in 1 .. n - k /\ k + (i - (k - 1)) = i + 1
          BY <1>1, <1>2, <3>2
        <4> QED BY <2>2, <3>2, <4>1, <4>2
      <3> QED BY <3>1, <3>2
    <2> QED BY <2>4, <2>5
  <1> HIDE DEF r, n
  <1>8. IsInjective(r)
    <2> SUFFICES ASSUME NEW i \in 1 .. n - 1, NEW j \in 1 .. n - 1, r[i] = r[j] PROVE i = j
      BY <1>7 DEF IsInjective
    <2> DEFINE i2 == IF i < k THEN i ELSE i + 1
               j2 == IF j < k THEN j ELSE j + 1
    <2>1. i2 \in 1 .. n /\ j2 \in 1 .. n /\ list[i2] = list[j2]
      BY <1>1, <1>2, <1>7
    <2>2. i2 = j2
      BY <1>1, <2>1 DEF IsInjective
    <2> QED BY <1>1, <1>2, <2>2
  <1>9. ToSet(r) = ToSet(list) \ {a}
    <2>1. ASSUME NEW x \in ToSet(r) PROVE x \in ToSet(list) \ {a}
      <3>1. PICK i \in 1 .. n - 1 : x = r[i]
        BY <1>7 DEF ToSet
      <3> DEFINE i2 == IF i < k THEN i ELSE i + 1
      <3>2. i2 \in 1 .. n /\ i2 # k /\ x = list[i2]
        BY <1>1, <1>2, <1>7, <3>1
      <3> HIDE DEF i2
      <3> QED BY <1>1, <1>3, <3>2 DEF ToSet
    <2>2. ASSUME NEW x \in ToSet(list), x # a PROVE x \in ToSet(r)
      <3>1. PICK i \in 1 .. n : x = list[i]
        BY <1>1 DEF ToSet
      <3> DEFINE i2 == IF i < k THEN i ELSE i - 1
      <3>2. i # k
        BY <1>2, <2>2, <3>1
      <3>3. i2 \in 1 .. n - 1 /\ r[i2] = x
        BY <1>1, <1>2, <1>7, <3>1, <3>2
      <3> HIDE DEF i2
      <3> QED BY <1>7, <3>3 DEF ToSet
    <2> QED BY <2>1, <2>2
  <1> QED BY <1>6, <1>7, <1>8, <1>9 DEF r

(* Improvements in a row.                                                  *)
LEMMA ImprovesTransitive ==
  ASSUME NEW v \in ChannelStates, NEW w \in ChannelStates, NEW x \in ChannelStates,
         Improves(v, w), Improves(w, x)
  PROVE  Improves(v, x)
  <1>1. \A a \in Addrs : x.conn[a].rtt = v.conn[a].rtt
    BY DEF Improves
  <1>2. CASE \/ v.ch.ctlSelected = NoConnection
             \/ w.ch.ctlSelected = v.ch.ctlSelected
             \/ x.ch.ctlSelected = w.ch.ctlSelected
    <2>1. /\ v.ch.ctlSelected # NoConnection => v.ch.ctlSelected \in Addrs
          /\ x.ch.ctlSelected # NoConnection => x.ch.ctlSelected \in Addrs
      BY DEF ChannelStates, Channel
    <2> QED BY <1>1, <1>2, <2>1 DEF Improves
  <1>3. CASE /\ v.ch.ctlSelected # NoConnection
             /\ w.ch.ctlSelected # v.ch.ctlSelected
             /\ x.ch.ctlSelected # w.ch.ctlSelected
    <2> DEFINE a == v.ch.ctlSelected
               b == w.ch.ctlSelected
               c == x.ch.ctlSelected
    <2>1. b # NoConnection /\ v.conn[b].rtt < v.conn[a].rtt
      BY <1>3 DEF Improves
    <2>2. c # NoConnection /\ w.conn[c].rtt < w.conn[b].rtt
      BY <1>3, <2>1 DEF Improves
    <2>3. a \in Addrs /\ b \in Addrs /\ c \in Addrs
      BY <1>3, <2>1, <2>2 DEF ChannelStates, Channel
    <2>4. /\ v.conn[a].rtt \in Nat /\ v.conn[b].rtt \in Nat /\ v.conn[c].rtt \in Nat
          /\ w.conn[b].rtt = v.conn[b].rtt /\ w.conn[c].rtt = v.conn[c].rtt
      BY <2>3, ConnectionFields DEF Improves
    <2>5. v.conn[c].rtt < v.conn[a].rtt
      BY <2>1, <2>2, <2>4
    <2> QED BY <1>1, <2>2, <2>5 DEF Improves
  <1> QED BY <1>2, <1>3

(* Keeping in a row.                                                       *)
LEMMA KeepsTransitive ==
  ASSUME NEW v, NEW w, NEW x, Keeps(v, w), Keeps(w, x) PROVE Keeps(v, x)
  BY DEF Keeps

SameReport(v, w) ==
  /\ w.ch.connections = v.ch.connections /\ w.ch.selected = v.ch.selected
  /\ w.ch.had = v.ch.had /\ w.ch.hasBeen = v.ch.hasBeen /\ w.ch.writable = v.ch.writable
  /\ w.ch.receiving = v.ch.receiving /\ w.ch.state = v.ch.state

(* Nothing that is reported depends on more than the write and the         *)
(* receiving state of the connections.                                     *)
LEMMA ReportedSame ==
  ASSUME NEW v, NEW w, IceReported(v), SameReport(v, w), Listed(v) \subseteq Addrs,
         v.ch.selected \in Addrs \cup {NoConnection},
         \A a \in Addrs : w.conn[a].write = v.conn[a].write
                            /\ w.conn[a].receiving = v.conn[a].receiving
  PROVE  IceReported(w)
  <1>1. Listed(w) = Listed(v)
    BY DEF SameReport, Listed
  <1>2. (\E a \in Listed(w) : w.conn[a].write # TimedOut) <=> (\E a \in Listed(v) : v.conn[a].write # TimedOut)
    BY <1>1
  <1>3. (\E a \in Listed(w) : w.conn[a].receiving) <=> (\E a \in Listed(v) : v.conn[a].receiving)
    BY <1>1
  <1>4. v.ch.selected # NoConnection => w.conn[v.ch.selected].write = v.conn[v.ch.selected].write
    OBVIOUS
  <1> QED BY <1>2, <1>3, <1>4 DEF IceReported, SameReport

(* A change of one connection in the state of the channel.                 *)
LEMMA ConnChange ==
  ASSUME NEW v \in ChannelStates, NEW a \in Addrs, NEW c \in Connection
  PROVE  LET w == [v EXCEPT !.conn = [v.conn EXCEPT ![a] = c]]
         IN  /\ w \in ChannelStates /\ w.ch = v.ch /\ w.conn[a] = c
             /\ \A b \in Addrs : b # a => w.conn[b] = v.conn[b]
  BY DEF ChannelStates

(* The list holds addresses, and the two selections are addresses or none. *)
LEMMA ChannelFields ==
  ASSUME NEW v \in ChannelStates
  PROVE  /\ v.ch.connections \in Seq(Addrs) /\ Listed(v) \subseteq Addrs
         /\ v.ch.selected \in Addrs \cup {NoConnection}
         /\ v.ch.ctlSelected \in Addrs \cup {NoConnection}
         /\ v.ch \in Channel /\ v.conn \in [Addrs -> Connection]
         /\ v = [conn |-> v.conn, ch |-> v.ch]
  <1>1. v.ch \in Channel /\ v.conn \in [Addrs -> Connection] /\ v = [conn |-> v.conn, ch |-> v.ch]
    BY DEF ChannelStates
  <1>2. v.ch.connections \in Seq(Addrs)
    BY <1>1 DEF Channel
  <1>3. \A i \in DOMAIN v.ch.connections : v.ch.connections[i] \in Addrs
    BY <1>2
  <1> QED BY <1>1, <1>2, <1>3 DEF Channel, Listed, ToSet

(* A change of one live connection after which it is still live, followed  *)
(* by SortConnectionsAndUpdateState.  Only that connection can be selected *)
(* without being ready to send.                                            *)
LEMMA ChangeAndSort ==
  ASSUME NEW v, Core(v), Usable(v), NEW a \in Listed(v), NEW c \in Connection,
         c.life = "live", c.rtt = v.conn[a].rtt
  PROVE  LET w == SortConnectionsAndUpdateState([v EXCEPT !.conn = [v.conn EXCEPT ![a] = c]])
         IN  /\ Core(w) /\ IceReported(w) /\ Improves(v, w) /\ Listed(w) = Listed(v)
             /\ w.conn = [v.conn EXCEPT ![a] = c]
             /\ \/ Usable(w)
                \/ v.ch.selected = a /\ w.ch.selected = a /\ c.write \notin {Writable, Unreliable}
  <1> DEFINE x == [v EXCEPT !.conn = [v.conn EXCEPT ![a] = c]]
             w == SortConnectionsAndUpdateState(x)
  <1>1. v \in ChannelStates /\ Listed(v) \subseteq Addrs /\ a \in Addrs
        /\ v.ch.selected \in Addrs \cup {NoConnection} /\ v.ch.ctlSelected \in Addrs \cup {NoConnection}
        /\ v.conn \in [Addrs -> Connection]
    BY ChannelFields DEF Core
  <1>2. /\ x \in ChannelStates /\ x.ch = v.ch /\ x.conn[a] = c
        /\ \A b \in Addrs : b # a => x.conn[b] = v.conn[b]
    BY <1>1, ConnChange
  <1>3. x.conn = [v.conn EXCEPT ![a] = c]
    BY <1>1 DEF ChannelStates
  <1> HIDE DEF x
  <1>4. Core(x) /\ Listed(x) = Listed(v)
    BY <1>1, <1>2 DEF Core, Listed
  <1>5. /\ Core(w) /\ IceReported(w) /\ Improves(x, w)
        /\ w.conn = x.conn /\ Listed(w) = Listed(x)
        /\ \/ w.ch.selected = x.ch.selected /\ w.ch.ctlSelected = x.ch.ctlSelected
           \/ w.ch.selected # NoConnection /\ Usable(w)
    BY <1>4, SortEffect
  <1> HIDE DEF w
  <1>6. \A b \in Addrs : x.conn[b].rtt = v.conn[b].rtt
    BY <1>1, <1>2
  <1>7. Improves(v, x)
    BY <1>2, <1>6 DEF Improves
  <1>8. w \in ChannelStates
    BY <1>5 DEF Core
  <1>9. Improves(v, w)
    BY <1>1, <1>2, <1>5, <1>7, <1>8, ImprovesTransitive
  <1>10. \/ Usable(w)
         \/ v.ch.selected = a /\ w.ch.selected = a /\ c.write \notin {Writable, Unreliable}
    <2> SUFFICES ASSUME w.ch.selected = v.ch.selected, w.ch.ctlSelected = v.ch.ctlSelected,
                        v.ch.selected # NoConnection,
                        w.ch.selected # a \/ c.write \in {Writable, Unreliable}
                 PROVE  Usable(w)
      BY <1>2, <1>5 DEF Usable
    <2>1. /\ v.ch.selected \in Listed(v) /\ v.ch.ctlSelected = v.ch.selected
          /\ v.conn[v.ch.selected].write \in {Writable, Unreliable}
      BY DEF Usable
    <2>2. w.conn[v.ch.selected].write \in {Writable, Unreliable}
      BY <1>1, <1>2, <1>5, <2>1
    <2> QED BY <1>4, <1>5, <2>1, <2>2 DEF Usable
  <1> QED BY <1>3, <1>4, <1>5, <1>9, <1>10 DEF w, x

(* A connection with another write state is one.                           *)
LEMMA ConnectionWithWrite ==
  ASSUME NEW c \in Connection, NEW w \in 0 .. 3
  PROVE  /\ [c EXCEPT !.write = w] \in Connection
         /\ [c EXCEPT !.write = w].write = w
         /\ [c EXCEPT !.write = w].life = c.life /\ [c EXCEPT !.write = w].rtt = c.rtt
  BY ConnectionType

(* A connection with another receiving state is one.                       *)
LEMMA ConnectionWithReceiving ==
  ASSUME NEW c \in Connection, NEW r \in BOOLEAN
  PROVE  /\ [c EXCEPT !.receiving = r] \in Connection
         /\ [c EXCEPT !.receiving = r].write = c.write
         /\ [c EXCEPT !.receiving = r].life = c.life /\ [c EXCEPT !.receiving = r].rtt = c.rtt
  BY ConnectionType

(* What is kept of a freed connection.                                     *)
LEMMA FreedConnection ==
  ASSUME NEW c \in Connection
  PROVE  LET f == [c EXCEPT !.life = "freed", !.heard = ReceivingTimeout, !.answered = FALSE,
                            !.pings = <<>>, !.open = 0]
         IN  f \in Connection /\ f.write = c.write /\ f.receiving = c.receiving /\ f.rtt = c.rtt
             /\ f.life = "freed"
  <1>1. ReceivingTimeout \in Heards /\ 0 \in Opens
    BY TimeoutAssumption DEF Heards, Opens
  <1> QED BY <1>1, NoPings, ConnectionType

(* set_write_state of a listed connection.                                 *)
LEMMA SetWriteStateEffect ==
  ASSUME NEW v, IceGood(v), NEW a \in Listed(v), NEW st \in 0 .. 3
  PROVE  LET w == SetWriteState(v, a, st)
         IN  /\ Core(w) /\ IceReported(w) /\ Improves(v, w) /\ Keeps(v, w) /\ Listed(w) = Listed(v)
             /\ Usable(w) \/ (w.ch.selected = a /\ st \notin {Writable, Unreliable})
  <1>1. CASE v.conn[a].write = st
    BY <1>1 DEF SetWriteState, IceGood, Improves, Keeps
  <1>2. CASE v.conn[a].write # st
    <2> DEFINE c == [v.conn[a] EXCEPT !.write = st]
               x == [v EXCEPT !.conn = [v.conn EXCEPT ![a] = c]]
    <2>1. v \in ChannelStates /\ a \in Addrs /\ v.conn \in [Addrs -> Connection] /\ v.conn[a].life = "live"
          /\ Core(v) /\ Usable(v) /\ v = [conn |-> v.conn, ch |-> v.ch]
      BY ChannelFields DEF IceGood, Core
    <2>2. c \in Connection /\ c.life = "live" /\ c.rtt = v.conn[a].rtt /\ c.write = st
      BY <2>1, ConnectionWithWrite
    <2>3. [v EXCEPT !.conn[a].write = st] = x
      BY <2>1
    <2>4. SetWriteState(v, a, st) = SortConnectionsAndUpdateState(x)
      BY <1>2, <2>3 DEF SetWriteState
    <2> HIDE DEF c
    <2> DEFINE w == SetWriteState(v, a, st)
    <2>5. /\ Core(w) /\ IceReported(w) /\ Improves(v, w) /\ Listed(w) = Listed(v)
          /\ w.conn = [v.conn EXCEPT ![a] = c]
          /\ Usable(w) \/ (w.ch.selected = a /\ c.write \notin {Writable, Unreliable})
      BY <2>1, <2>2, <2>4, ChangeAndSort
    <2> HIDE DEF w
    <2>6. Keeps(v, w)
      BY <2>1, <2>2, <2>5 DEF Keeps
    <2> QED BY <2>2, <2>5, <2>6 DEF w
  <1> QED BY <1>1, <1>2

(* UpdateReceiving of a listed connection.                                 *)
LEMMA UpdateReceivingEffect ==
  ASSUME NEW v, IceGood(v), NEW a \in Listed(v)
  PROVE  LET w == UpdateReceiving(v, a)
         IN  /\ IceGood(w) /\ Improves(v, w) /\ Keeps(v, w) /\ Listed(w) = Listed(v)
  <1> DEFINE r == v.conn[a].answered \/ v.conn[a].heard < ReceivingTimeout
  <1>1. CASE r = v.conn[a].receiving
    BY <1>1 DEF UpdateReceiving, IceGood, Improves, Keeps
  <1>2. CASE r # v.conn[a].receiving
    <2> DEFINE c == [v.conn[a] EXCEPT !.receiving = r]
               x == [v EXCEPT !.conn = [v.conn EXCEPT ![a] = c]]
    <2>1. v \in ChannelStates /\ a \in Addrs /\ v.conn \in [Addrs -> Connection] /\ v.conn[a].life = "live"
          /\ Core(v) /\ Usable(v) /\ v = [conn |-> v.conn, ch |-> v.ch]
      BY ChannelFields DEF IceGood, Core
    <2>2. r \in BOOLEAN
      BY <2>1 DEF Connection
    <2>3. [v EXCEPT !.conn[a].receiving = r] = x
      BY <2>1
    <2>4. UpdateReceiving(v, a) = SortConnectionsAndUpdateState(x)
      BY <1>2, <2>3 DEF UpdateReceiving
    <2> HIDE DEF r
    <2>5. c \in Connection /\ c.life = "live" /\ c.rtt = v.conn[a].rtt /\ c.write = v.conn[a].write
      BY <2>1, <2>2, ConnectionWithReceiving
    <2> HIDE DEF c
    <2> DEFINE w == UpdateReceiving(v, a)
    <2>6. /\ Core(w) /\ IceReported(w) /\ Improves(v, w) /\ Listed(w) = Listed(v)
          /\ w.conn = [v.conn EXCEPT ![a] = c]
          /\ \/ Usable(w)
             \/ v.ch.selected = a /\ w.ch.selected = a /\ c.write \notin {Writable, Unreliable}
      BY <2>1, <2>4, <2>5, ChangeAndSort
    <2>7. a # NoConnection
      BY <2>1, AddrsAssumption
    <2> HIDE DEF w
    <2>8. Usable(w)
      BY <2>1, <2>5, <2>6, <2>7 DEF Usable
    <2>9. Keeps(v, w)
      BY <2>1, <2>5, <2>6 DEF Keeps
    <2> QED BY <2>6, <2>8, <2>9 DEF IceGood, w
  <1> QED BY <1>1, <1>2

(* OnConnectionDestroyed leaves the other connections, and a selection     *)
(* that can be used, or none.                                              *)
LEMMA DestroyedEffect ==
  ASSUME NEW v, Core(v), NEW a \in Listed(v), Usable(v) \/ v.ch.selected = a
  PROVE  LET w == OnConnectionDestroyed(v, a)
         IN  /\ IceGood(w) /\ Improves(v, w) /\ Listed(w) = Listed(v) \ {a} /\ w.conn = v.conn
  <1> DEFINE list == RemoveFirst(v.ch.connections, a)
             d == [v.ch EXCEPT !.pinged = @ \ {a}, !.unpinged = @ \ {a}, !.connections = list]
             gone == [v EXCEPT !.ch.pinged = @ \ {a}, !.ch.unpinged = @ \ {a},
                               !.ch.connections = RemoveFirst(@, a)]
             none == SwitchSelectedConnection(gone, NoConnection)
             w == OnConnectionDestroyed(v, a)
  <1>1. /\ v \in ChannelStates /\ v.ch \in Channel /\ v.conn \in [Addrs -> Connection]
        /\ v.ch.connections \in Seq(Addrs) /\ a \in Addrs /\ Listed(v) \subseteq Addrs
        /\ v = [conn |-> v.conn, ch |-> v.ch] /\ IsInjective(v.ch.connections)
    BY ChannelFields DEF Core
  <1>2. list \in Seq(Addrs) /\ IsInjective(list) /\ ToSet(list) = Listed(v) \ {a}
    BY <1>1, RemoveFirstEffect DEF Listed
  <1>3. gone.ch = d /\ gone.conn = v.conn /\ gone = [v EXCEPT !.ch = gone.ch]
    <2>1. gone.ch = d
      BY <1>1
    <2>2. gone.conn = v.conn
      BY <1>1
    <2>3. gone = [v EXCEPT !.ch = gone.ch]
      BY <1>1
    <2> QED BY <2>1, <2>2, <2>3
  <1>4. w = IF v.ch.selected = a THEN SortConnectionsAndUpdateState(none) ELSE UpdateChannelState(gone)
    BY DEF OnConnectionDestroyed
  <1> HIDE DEF gone, list
  <1>5. /\ d \in Channel /\ d.connections = list /\ d.selected = v.ch.selected
        /\ d.ctlSelected = v.ch.ctlSelected
    BY <1>1, <1>2 DEF Channel
  <1> HIDE DEF d
  <1>6. gone = [conn |-> v.conn, ch |-> d]
    BY <1>1, <1>3
  <1>7. gone \in ChannelStates /\ Core(gone) /\ Listed(gone) = Listed(v) \ {a}
    <2>1. gone \in ChannelStates
      BY <1>1, <1>5, <1>6 DEF ChannelStates
    <2>2. Listed(gone) = Listed(v) \ {a}
      BY <1>2, <1>3, <1>5 DEF Listed
    <2>3. \A b \in Listed(gone) : gone.conn[b].life = "live"
      BY <1>3, <2>2 DEF Core
    <2> QED BY <1>2, <1>3, <1>5, <2>1, <2>2, <2>3 DEF Core
  <1>8. CASE v.ch.selected # a
    <2> DEFINE u == UpdateChannelState(gone)
    <2>1. /\ u \in ChannelStates /\ u.conn = gone.conn /\ u.ch.connections = gone.ch.connections
          /\ u.ch.selected = gone.ch.selected /\ u.ch.ctlSelected = gone.ch.ctlSelected
          /\ IceReported(u)
      BY <1>7, UpdateChannelStateEffect
    <2> HIDE DEF u
    <2>2. u.conn = v.conn /\ u.ch.selected = v.ch.selected /\ u.ch.ctlSelected = v.ch.ctlSelected
      BY <1>3, <1>5, <2>1
    <2>3. Core(u) /\ Listed(u) = Listed(v) \ {a}
      BY <1>7, <2>1 DEF Core, Listed
    <2>4. Usable(u)
      BY <1>8, <2>2, <2>3 DEF Usable
    <2>5. Improves(v, u)
      BY <2>2 DEF Improves
    <2>6. w = u
      BY <1>4, <1>8 DEF u
    <2> QED BY <2>1, <2>2, <2>3, <2>4, <2>5, <2>6 DEF IceGood
  <1>9. CASE v.ch.selected = a
    <2>1. none.ch = [d EXCEPT !.selected = NoConnection] /\ none.conn = v.conn
          /\ none = [conn |-> none.conn, ch |-> none.ch]
      <3>1. none = [gone EXCEPT !.ch.selected = NoConnection, !.ch.ctlSelected = gone.ch.ctlSelected]
        BY DEF SwitchSelectedConnection
      <3>2. none.ch = [d EXCEPT !.selected = NoConnection, !.ctlSelected = d.ctlSelected]
        BY <1>6, <3>1
      <3>3. none.ch = [d EXCEPT !.selected = NoConnection]
        BY <1>5, <3>2 DEF Channel
      <3>4. none.conn = v.conn /\ none = [conn |-> none.conn, ch |-> none.ch]
        BY <1>6, <3>1
      <3> QED BY <3>3, <3>4
    <2> HIDE DEF none
    <2>2. /\ none.ch \in Channel /\ none.ch.connections = list /\ none.ch.selected = NoConnection
          /\ none.ch.ctlSelected = v.ch.ctlSelected
      BY <1>5, <2>1 DEF Channel
    <2>3. none \in ChannelStates
      BY <1>1, <2>1, <2>2 DEF ChannelStates
    <2>4. Core(none) /\ Listed(none) = Listed(v) \ {a}
      BY <1>3, <1>5, <1>7, <2>1, <2>2, <2>3 DEF Core, Listed
    <2> DEFINE u == SortConnectionsAndUpdateState(none)
    <2>5. /\ Core(u) /\ IceReported(u) /\ Improves(none, u)
          /\ u.conn = none.conn /\ Listed(u) = Listed(none)
          /\ \/ u.ch.selected = none.ch.selected /\ u.ch.ctlSelected = none.ch.ctlSelected
             \/ u.ch.selected # NoConnection /\ Usable(u)
      BY <2>4, SortEffect
    <2> HIDE DEF u
    <2>6. Usable(u)
      BY <2>2, <2>5 DEF Usable
    <2>7. Improves(v, u)
      BY <2>1, <2>2, <2>5 DEF Improves
    <2>8. w = u
      BY <1>4, <1>9 DEF u
    <2> QED BY <2>1, <2>4, <2>5, <2>6, <2>7, <2>8 DEF IceGood
  <1> QED BY <1>8, <1>9

(* FailAndDestroy frees a connection that nothing refers to any more,      *)
(* except the controller's memory of the selected one.                     *)
LEMMA FailAndDestroyEffect ==
  ASSUME NEW v, Core(v), NEW a \in Listed(v), Usable(v) \/ v.ch.selected = a
  PROVE  LET w == FailAndDestroy(v, a)
         IN  /\ IceGood(w) /\ Improves(v, w) /\ Keeps(v, w) /\ Listed(w) = Listed(v) \ {a}
  <1> DEFINE x == OnConnectionDestroyed(v, a)
             c == [x.conn[a] EXCEPT !.life = "freed", !.heard = ReceivingTimeout, !.answered = FALSE,
                                    !.pings = <<>>, !.open = 0]
             w == [x EXCEPT !.conn = [x.conn EXCEPT ![a] = c]]
  <1>1. IceGood(x) /\ Improves(v, x) /\ Listed(x) = Listed(v) \ {a} /\ x.conn = v.conn
    BY DestroyedEffect
  <1> HIDE DEF x
  <1>2. /\ v \in ChannelStates /\ x \in ChannelStates /\ a \in Addrs /\ x.conn \in [Addrs -> Connection]
        /\ x = [conn |-> x.conn, ch |-> x.ch] /\ Listed(x) \subseteq Addrs
        /\ x.ch.selected \in Addrs \cup {NoConnection}
    BY <1>1, ChannelFields DEF IceGood, Core
  <1>3. FailAndDestroy(v, a) = w
    BY <1>2 DEF FailAndDestroy, x
  <1>4. c \in Connection /\ c.write = x.conn[a].write /\ c.receiving = x.conn[a].receiving
        /\ c.rtt = x.conn[a].rtt /\ c.life = "freed"
    BY <1>2, FreedConnection
  <1> HIDE DEF c
  <1>5. /\ w \in ChannelStates /\ w.ch = x.ch /\ w.conn[a] = c
        /\ \A b \in Addrs : b # a => w.conn[b] = x.conn[b]
    BY <1>2, <1>4, ConnChange
  <1> HIDE DEF w
  <1>6. \A b \in Addrs : /\ w.conn[b].write = x.conn[b].write
                         /\ w.conn[b].receiving = x.conn[b].receiving
                         /\ w.conn[b].rtt = x.conn[b].rtt
    BY <1>4, <1>5
  <1>7. IceReported(w)
    <2>1. SameReport(x, w)
      BY <1>5 DEF SameReport
    <2> QED BY <1>1, <1>2, <1>6, <2>1, ReportedSame DEF IceGood
  <1>8. Listed(w) = Listed(v) \ {a}
    BY <1>1, <1>5 DEF Listed
  <1>9. Core(w)
    BY <1>1, <1>2, <1>5, <1>8 DEF IceGood, Core, Listed
  <1>10. Usable(w)
    BY <1>1, <1>5, <1>6, <1>2, <1>8 DEF IceGood, Usable
  <1>11. Improves(v, w)
    BY <1>1, <1>5, <1>6 DEF Improves
  <1>12. Keeps(v, w)
    BY <1>1, <1>4, <1>5, <1>8 DEF Keeps
  <1> QED BY <1>3, <1>7, <1>8, <1>9, <1>10, <1>11, <1>12 DEF IceGood

(* UpdateState of a listed connection, down to its own deletion.           *)
LEMMA ConnectionUpdateStateEffect ==
  ASSUME NEW v, IceGood(v), NEW a \in Listed(v)
  PROVE  LET w == ConnectionUpdateState(v, a)
         IN  /\ IceGood(w) /\ Improves(v, w) /\ Keeps(v, w)
             /\ Listed(w) \subseteq Listed(v) /\ Listed(v) \ {a} \subseteq Listed(w)
  <1> DEFINE down == IF Unwritable(v.conn[a]) THEN SetWriteState(v, a, Unreliable) ELSE v
             out == SetWriteState(down, a, TimedOut)
  <1>1. ConnectionUpdateState(v, a) = IF Expired(down.conn[a]) THEN FailAndDestroy(out, a)
                                      ELSE UpdateReceiving(down, a)
    BY DEF ConnectionUpdateState
  <1>2. IceGood(down) /\ Improves(v, down) /\ Keeps(v, down) /\ Listed(down) = Listed(v)
    <2>1. CASE ~Unwritable(v.conn[a])
      BY <2>1 DEF Improves, Keeps
    <2>2. CASE Unwritable(v.conn[a])
      <3>1. Unreliable \in 0 .. 3
        BY DEF Unreliable
      <3> HIDE DEF down
      <3>2. down = SetWriteState(v, a, Unreliable)
        BY <2>2 DEF down
      <3> DEFINE w == SetWriteState(v, a, Unreliable)
      <3>3. /\ Core(w) /\ IceReported(w) /\ Improves(v, w) /\ Keeps(v, w) /\ Listed(w) = Listed(v)
            /\ Usable(w) \/ (w.ch.selected = a /\ Unreliable \notin {Writable, Unreliable})
        BY <3>1, SetWriteStateEffect
      <3> QED BY <3>2, <3>3 DEF IceGood
    <2> QED BY <2>1, <2>2
  <1> HIDE DEF down
  <1>3. CASE ~Expired(down.conn[a])
    <2> DEFINE w == UpdateReceiving(down, a)
    <2>1. IceGood(w) /\ Improves(down, w) /\ Keeps(down, w) /\ Listed(w) = Listed(down)
      BY <1>2, UpdateReceivingEffect
    <2>2. v \in ChannelStates /\ down \in ChannelStates /\ w \in ChannelStates
      BY <1>2, <2>1 DEF IceGood, Core
    <2> HIDE DEF w
    <2>3. Improves(v, w) /\ Keeps(v, w)
      BY <1>2, <2>1, <2>2, ImprovesTransitive, KeepsTransitive
    <2>4. ConnectionUpdateState(v, a) = w
      BY <1>1, <1>3 DEF w
    <2> QED BY <1>2, <2>1, <2>3, <2>4
  <1>4. CASE Expired(down.conn[a])
    <2>1. TimedOut \in 0 .. 3
      BY DEF TimedOut
    <2>2. /\ Core(out) /\ Improves(down, out) /\ Keeps(down, out) /\ Listed(out) = Listed(down)
          /\ Usable(out) \/ out.ch.selected = a
      BY <1>2, <2>1, SetWriteStateEffect
    <2> HIDE DEF out
    <2> DEFINE w == FailAndDestroy(out, a)
    <2>3. IceGood(w) /\ Improves(out, w) /\ Keeps(out, w) /\ Listed(w) = Listed(out) \ {a}
      BY <1>2, <2>2, FailAndDestroyEffect
    <2> HIDE DEF w
    <2>4. v \in ChannelStates /\ down \in ChannelStates /\ out \in ChannelStates /\ w \in ChannelStates
      BY <1>2, <2>2, <2>3 DEF IceGood, Core
    <2>5. Improves(v, out) /\ Keeps(v, out)
      BY <1>2, <2>2, <2>4, ImprovesTransitive, KeepsTransitive
    <2>6. Improves(v, w) /\ Keeps(v, w)
      BY <2>3, <2>4, <2>5, ImprovesTransitive, KeepsTransitive
    <2>7. ConnectionUpdateState(v, a) = w
      BY <1>1, <1>4 DEF w
    <2> QED BY <1>2, <2>2, <2>3, <2>6, <2>7
  <1> QED BY <1>3, <1>4

(* A set of numbers that is not empty has a least member.                  *)
LEMMA LeastNumber ==
  ASSUME NEW S \in SUBSET Nat, S # {}
  PROVE  \E k \in S : \A j \in S : k <= j
  <1>1. PICK k \in S : \A j \in S : ~(<<j, k>> \in OpToRel(<, Nat))
    BY NatLessThanWellFounded, WFMin
  <1>2. \A j \in S : ~(j < k)
    BY <1>1 DEF OpToRel
  <1>3. k \in Nat /\ \A j \in S : j \in Nat
    OBVIOUS
  <1> QED BY <1>2, <1>3

(* Loop(f, v, list, k): f holds the states before and after each of the    *)
(* first k turns of the loop of UpdateConnectionStates.                    *)
Loop(f, v, list, k) ==
  f = [i \in 0 .. k |-> IF i = 0 THEN v ELSE ConnectionUpdateState(f[i - 1], list[i])]

(* The loop can be run for any number of turns.                            *)
LEMMA LoopExists ==
  ASSUME NEW v, NEW list, NEW n \in Nat
  PROVE  \E f : Loop(f, v, list, n)
  <1> DEFINE Bad == {k \in Nat : ~\E f : Loop(f, v, list, k)}
  <1> SUFFICES ASSUME Bad # {} PROVE FALSE
    OBVIOUS
  <1>1. PICK k \in Bad : \A j \in Bad : k <= j
    <2>1. Bad \in SUBSET Nat
      OBVIOUS
    <2> HIDE DEF Bad
    <2> QED BY <2>1, LeastNumber
  <1>2. k \in Nat /\ ~\E f : Loop(f, v, list, k)
    OBVIOUS
  <1>3. CASE k = 0
    <2> DEFINE f == [i \in 0 .. 0 |-> v]
    <2>1. \A i \in 0 .. 0 : i = 0
      OBVIOUS
    <2>2. f = [i \in 0 .. 0 |-> IF i = 0 THEN v ELSE ConnectionUpdateState(f[i - 1], list[i])]
      BY <2>1
    <2> QED BY <1>2, <1>3, <2>2 DEF Loop
  <1>4. CASE k > 0
    <2>1. k - 1 \in Nat /\ ~(k <= k - 1)
      BY <1>2, <1>4
    <2>2. PICK g : Loop(g, v, list, k - 1)
      BY <1>1, <2>1
    <2> DEFINE f == [i \in 0 .. k |-> IF i = k THEN ConnectionUpdateState(g[k - 1], list[k]) ELSE g[i]]
               h == [i \in 0 .. k |-> IF i = 0 THEN v ELSE ConnectionUpdateState(f[i - 1], list[i])]
    <2>3. \A i \in 0 .. k - 1 :
            g[i] = IF i = 0 THEN v ELSE ConnectionUpdateState(g[i - 1], list[i])
      BY <2>2 DEF Loop
    <2>4. \A i \in 0 .. k - 1 : i \in 0 .. k /\ i # k /\ f[i] = g[i]
      BY <1>2
    <2>5. ASSUME NEW i \in 0 .. k PROVE f[i] = h[i]
      <3>1. CASE i = 0
        BY <1>2, <1>4, <2>3, <3>1
      <3>2. CASE i = k
        <4>1. k - 1 \in 0 .. k - 1 /\ k # 0
          BY <1>2, <1>4
        <4>2. f[k - 1] = g[k - 1]
          BY <2>4, <4>1
        <4>3. f[i] = ConnectionUpdateState(g[k - 1], list[k])
          BY <3>2
        <4>4. h[i] = ConnectionUpdateState(f[k - 1], list[k])
          BY <3>2, <4>1
        <4> QED BY <4>2, <4>3, <4>4
      <3>3. CASE i # 0 /\ i # k
        <4>1. i \in 0 .. k - 1 /\ i - 1 \in 0 .. k - 1
          BY <1>2, <3>3
        <4>2. f[i] = g[i] /\ f[i - 1] = g[i - 1]
          BY <2>4, <4>1
        <4>3. h[i] = ConnectionUpdateState(f[i - 1], list[i])
          BY <3>3
        <4>4. g[i] = ConnectionUpdateState(g[i - 1], list[i])
          BY <2>3, <3>3, <4>1
        <4> QED BY <4>2, <4>3, <4>4
      <3> QED BY <3>1, <3>2, <3>3
    <2>6. f = h
      BY <2>5
    <2>7. Loop(f, v, list, k)
      BY <2>6 DEF Loop
    <2> QED BY <1>2, <2>7
  <1> QED BY <1>2, <1>3, <1>4

(* UpdateConnectionStates: each connection of the list is still there when *)
(* its turn comes, whatever happened to the ones before it.                *)
LEMMA UpdateConnectionStatesEffect ==
  ASSUME NEW v, IceGood(v)
  PROVE  LET w == UpdateConnectionStates(v) IN IceGood(w) /\ Improves(v, w) /\ Keeps(v, w)
  <1> DEFINE list == v.ch.connections
             n == Len(list)
             after == CHOOSE f : Loop(f, v, list, n)
  <1>1. v \in ChannelStates /\ list \in Seq(Addrs) /\ n \in Nat /\ DOMAIN list = 1 .. n
        /\ IsInjective(list) /\ Listed(v) = {list[i] : i \in 1 .. n}
    BY ChannelFields DEF IceGood, Core, Listed, ToSet
  <1>2. UpdateConnectionStates(v) = after[n]
    BY DEF UpdateConnectionStates, Loop
  <1> HIDE DEF list, n
  <1>3. Loop(after, v, list, n)
    BY <1>1, LoopExists
  <1> HIDE DEF after
  <1>4. /\ after[0] = v
        /\ \A i \in 0 .. n : i # 0 => after[i] = ConnectionUpdateState(after[i - 1], list[i])
    BY <1>1, <1>3 DEF Loop
  <1> DEFINE OK(i) == /\ IceGood(after[i]) /\ Improves(v, after[i]) /\ Keeps(v, after[i])
                      /\ \A j \in i + 1 .. n : list[j] \in Listed(after[i])
             Bad == {i \in 0 .. n : ~OK(i)}
  <1>5. Bad = {}
    <2> SUFFICES ASSUME Bad # {} PROVE FALSE
      OBVIOUS
    <2>1. Bad \in SUBSET Nat
      OBVIOUS
    <2>2. PICK k \in Bad : \A j \in Bad : k <= j
      <3> HIDE DEF Bad
      <3> QED BY <2>1, LeastNumber
    <2>3. k \in 0 .. n /\ ~OK(k) /\ k \in Nat
      BY <1>1
    <2>4. CASE k = 0
      <3>1. \A j \in 1 .. n : list[j] \in Listed(v)
        BY <1>1
      <3>2. Improves(v, v) /\ Keeps(v, v)
        BY DEF Improves, Keeps
      <3> QED BY <1>4, <2>3, <2>4, <3>1, <3>2
    <2>5. CASE k > 0
      <3>1. k - 1 \in 0 .. n /\ ~(k <= k - 1) /\ k \in (k - 1) + 1 .. n /\ k # 0 /\ k \in 1 .. n
        BY <1>1, <2>3, <2>5
      <3>2. OK(k - 1)
        BY <2>2, <3>1
      <3> DEFINE x == after[k - 1]
                 a == list[k]
                 w == ConnectionUpdateState(x, a)
      <3>3. IceGood(x) /\ Improves(v, x) /\ Keeps(v, x) /\ a \in Listed(x)
        BY <3>1, <3>2
      <3>4. w = after[k]
        BY <1>4, <2>3, <3>1
      <3>5. \A j \in k + 1 .. n : list[j] \in Listed(x) /\ list[j] # a
        <4> SUFFICES ASSUME NEW j \in k + 1 .. n PROVE list[j] \in Listed(x) /\ list[j] # a
          OBVIOUS
        <4>1. j \in (k - 1) + 1 .. n /\ j \in 1 .. n /\ j # k
          BY <1>1, <2>3
        <4>2. list[j] \in Listed(x)
          BY <3>2, <4>1
        <4>3. list[j] # a
          BY <1>1, <3>1, <4>1 DEF IsInjective
        <4> QED BY <4>2, <4>3
      <3> HIDE DEF x, a
      <3>6. IceGood(w) /\ Improves(x, w) /\ Keeps(x, w) /\ Listed(x) \ {a} \subseteq Listed(w)
        BY <3>3, ConnectionUpdateStateEffect
      <3> HIDE DEF w
      <3>7. x \in ChannelStates /\ w \in ChannelStates
        BY <3>3, <3>6 DEF IceGood, Core
      <3>8. Improves(v, w) /\ Keeps(v, w)
        BY <1>1, <3>3, <3>6, <3>7, ImprovesTransitive, KeepsTransitive
      <3>9. OK(k)
        BY <3>4, <3>5, <3>6, <3>8
      <3> QED BY <2>3, <3>9
    <2> QED BY <2>3, <2>4, <2>5
  <1>6. OK(n)
    BY <1>1, <1>5
  <1> QED BY <1>2, <1>6

-----------------------------------------------------------------------------
(* What the handlers write into a connection                               *)

(* The lesser of two ages.                                                 *)
LEMMA MinOfTwo ==
  ASSUME NEW x \in Nat, NEW y \in Nat
  PROVE  Min({x, y}) \in {x, y} /\ Min({x, y}) <= x /\ Min({x, y}) <= y
  <1>1. \E z \in {x, y} : \A u \in {x, y} : z <= u
    OBVIOUS
  <1>2. Min({x, y}) \in {x, y} /\ \A u \in {x, y} : Min({x, y}) <= u
    BY <1>1 DEF Min
  <1> QED BY <1>2

(* Ages stay below their cap.                                              *)
LEMMA OlderType ==
  ASSUME NEW cap \in Nat, NEW age \in 0 .. cap
  PROVE  Older(age, cap) \in 0 .. cap
  <1>1. age + 1 \in Nat
    OBVIOUS
  <1>2. Min({age + 1, cap}) \in {age + 1, cap} /\ Min({age + 1, cap}) <= cap
    BY <1>1, MinOfTwo
  <1> QED BY <1>1, <1>2 DEF Older

(* The pings without a response, when one is sent and when time passes.    *)
LEMMA PingsType ==
  ASSUME NEW p \in Pings
  PROVE  /\ (IF Len(p) < ConnectFails THEN Append(p, 0) ELSE p) \in Pings
         /\ [i \in DOMAIN p |-> Older(p[i], WriteTimeout + 1)] \in Pings
  <1>1. ConnectFails \in Nat /\ WriteTimeout + 1 \in Nat /\ 0 \in Ages
    BY TimeoutAssumption DEF Ages
  <1>2. PICK m \in 0 .. ConnectFails : p \in [1 .. m -> Ages]
    BY DEF Pings, BoundedSeq, SeqOf
  <1>3. p \in Seq(Ages) /\ Len(p) = m /\ DOMAIN p = 1 .. m /\ m \in Nat
    BY <1>1, <1>2
  <1>4. (IF Len(p) < ConnectFails THEN Append(p, 0) ELSE p) \in Pings
    <2>1. CASE m < ConnectFails
      <3>1. m + 1 \in 0 .. ConnectFails
        BY <1>1, <1>3, <2>1
      <3>2. Append(p, 0) \in Seq(Ages) /\ Len(Append(p, 0)) = m + 1
        BY <1>1, <1>3, AppendProperties
      <3>3. Append(p, 0) \in [1 .. m + 1 -> Ages]
        <4> DEFINE q == Append(p, 0)
        <4>1. q \in Seq(Ages) /\ Len(q) = m + 1
          BY <3>2
        <4> HIDE DEF q
        <4>2. q \in [1 .. m + 1 -> Ages]
          BY <4>1
        <4> QED BY <4>2 DEF q
      <3> QED BY <1>3, <2>1, <3>1, <3>3 DEF Pings, BoundedSeq, SeqOf
    <2>2. CASE ~(m < ConnectFails)
      BY <1>3, <2>2
    <2> QED BY <2>1, <2>2
  <1>5. [i \in DOMAIN p |-> Older(p[i], WriteTimeout + 1)] \in Pings
    <2>1. \A i \in 1 .. m : Older(p[i], WriteTimeout + 1) \in Ages
      BY <1>1, <1>2, OlderType DEF Ages
    <2>2. [i \in DOMAIN p |-> Older(p[i], WriteTimeout + 1)] \in [1 .. m -> Ages]
      BY <1>3, <2>1
    <2> QED BY <2>2 DEF Pings, BoundedSeq, SeqOf
  <1> QED BY <1>4, <1>5

SameForChannel(c, d) ==
  d.write = c.write /\ d.receiving = c.receiving /\ d.life = c.life

(* A password, a packet, a response, an error, a ping and a tick: the      *)
(* result is a connection, and only a response changes the round-trip time. *)
LEMMA ConnectionWrites ==
  ASSUME NEW c \in Connection
  PROVE  /\ \A p \in BOOLEAN : LET d == [c EXCEPT !.password = @ \/ p]
                               IN  d \in Connection /\ SameForChannel(c, d) /\ d.rtt = c.rtt
         /\ LET d == [c EXCEPT !.heard = 0]
            IN  d \in Connection /\ SameForChannel(c, d) /\ d.rtt = c.rtt
         /\ c.open > 0 => \A r \in Rtts :
              LET d == [c EXCEPT !.rtt = r, !.heard = 0, !.answered = TRUE,
                                 !.pings = <<>>, !.open = @ - 1]
              IN  d \in Connection /\ SameForChannel(c, d)
         /\ c.open > 0 => LET d == [c EXCEPT !.open = @ - 1]
                          IN  d \in Connection /\ SameForChannel(c, d) /\ d.rtt = c.rtt
  <1>1. 0 \in Heards /\ <<>> \in Pings /\ \A r \in Rtts : r \in RttValues
    <2>1. 0 \in Heards /\ \A r \in Rtts : r \in RttValues
      BY TimeoutAssumption DEF Heards, RttValues
    <2> QED BY <2>1, NoPings
  <1>2. c.open > 0 => c.open - 1 \in Opens
    BY ConnectionType, TimeoutAssumption DEF Opens
  <1>3. ASSUME NEW p \in BOOLEAN
        PROVE  LET d == [c EXCEPT !.password = @ \/ p]
               IN  d \in Connection /\ SameForChannel(c, d) /\ d.rtt = c.rtt
    BY ConnectionType DEF SameForChannel
  <1>4. LET d == [c EXCEPT !.heard = 0]
        IN  d \in Connection /\ SameForChannel(c, d) /\ d.rtt = c.rtt
    BY <1>1, ConnectionType DEF SameForChannel
  <1>5. ASSUME c.open > 0, NEW r \in Rtts
        PROVE  LET d == [c EXCEPT !.rtt = r, !.heard = 0, !.answered = TRUE,
                                  !.pings = <<>>, !.open = @ - 1]
               IN  d \in Connection /\ SameForChannel(c, d)
    BY <1>1, <1>2, <1>5, ConnectionType DEF SameForChannel
  <1>6. ASSUME c.open > 0
        PROVE  LET d == [c EXCEPT !.open = @ - 1]
               IN  d \in Connection /\ SameForChannel(c, d) /\ d.rtt = c.rtt
    BY <1>2, <1>6, ConnectionType DEF SameForChannel
  <1> QED BY <1>3, <1>4, <1>5, <1>6

(* A ping.                                                                 *)
LEMMA ConnectionPinged ==
  ASSUME NEW c \in Connection
  PROVE  LET d == [c EXCEPT !.idle = 0, !.answered = FALSE,
                            !.pings = IF Len(@) < ConnectFails THEN Append(@, 0) ELSE @,
                            !.open = Min({@ + 1, MaxOpen})]
         IN  d \in Connection /\ SameForChannel(c, d) /\ d.rtt = c.rtt
  <1> DEFINE p == IF Len(c.pings) < ConnectFails THEN Append(c.pings, 0) ELSE c.pings
             o == Min({c.open + 1, MaxOpen})
  <1>1. c.pings \in Pings /\ c.open \in Opens
    BY ConnectionType
  <1>2. p \in Pings
    BY <1>1, PingsType
  <1>3. o \in Opens
    <2>1. c.open + 1 \in Nat /\ MaxOpen \in Nat
      BY <1>1, TimeoutAssumption DEF Opens
    <2>2. o \in {c.open + 1, MaxOpen} /\ o <= MaxOpen
      BY <2>1, MinOfTwo
    <2> HIDE DEF o
    <2> QED BY <2>1, <2>2 DEF Opens
  <1> HIDE DEF p, o
  <1> DEFINE d == [c EXCEPT !.idle = 0, !.answered = FALSE, !.pings = p, !.open = o]
  <1>4. 0 \in 0 .. 1
    OBVIOUS
  <1>5. d \in Connection
    BY <1>2, <1>3, <1>4, ConnectionType
  <1>6. SameForChannel(c, d) /\ d.rtt = c.rtt
    BY ConnectionType DEF SameForChannel
  <1>7. [c EXCEPT !.idle = 0, !.answered = FALSE,
                  !.pings = IF Len(@) < ConnectFails THEN Append(@, 0) ELSE @,
                  !.open = Min({@ + 1, MaxOpen})] = d
    BY ConnectionType DEF p, o
  <1> HIDE DEF d
  <1> QED BY <1>5, <1>6, <1>7

(* A tick.                                                                 *)
LEMMA ConnectionAged ==
  ASSUME NEW c \in Connection
  PROVE  LET d == [c EXCEPT !.heard = Older(@, ReceivingTimeout), !.idle = 1,
                            !.pings = [i \in DOMAIN @ |-> Older(@[i], WriteTimeout + 1)]]
         IN  d \in Connection /\ SameForChannel(c, d) /\ d.rtt = c.rtt
  <1> DEFINE p == [i \in DOMAIN c.pings |-> Older(c.pings[i], WriteTimeout + 1)]
             h == Older(c.heard, ReceivingTimeout)
  <1>1. c.pings \in Pings /\ c.heard \in Heards
    BY ConnectionType
  <1>2. p \in Pings
    BY <1>1, PingsType
  <1>3. h \in Heards
    <2>1. ReceivingTimeout \in Nat
      BY TimeoutAssumption
    <2> QED BY <1>1, <2>1, OlderType DEF Heards
  <1> HIDE DEF p, h
  <1> DEFINE d == [c EXCEPT !.heard = h, !.idle = 1, !.pings = p]
  <1>4. 1 \in 0 .. 1
    OBVIOUS
  <1>5. d \in Connection
    BY <1>2, <1>3, <1>4, ConnectionType
  <1>6. SameForChannel(c, d) /\ d.rtt = c.rtt
    BY ConnectionType DEF SameForChannel
  <1>7. [c EXCEPT !.heard = Older(@, ReceivingTimeout), !.idle = 1,
                  !.pings = [i \in DOMAIN @ |-> Older(@[i], WriteTimeout + 1)]] = d
    BY ConnectionType DEF p, h
  <1> HIDE DEF d
  <1> QED BY <1>5, <1>6, <1>7
-----------------------------------------------------------------------------
(* The handlers                                                            *)

(* x can be the state after a handler: it has the invariant, and the       *)
(* controller's selected connection changed only for a better one, as the  *)
(* round-trip times are in x.                                              *)
Moves(x) ==
  /\ IceGood(x) /\ Complete(x)
  /\ \E v \in ChannelStates : v.ch.ctlSelected = ch.ctlSelected /\ Improves(v, x)

(* Nothing the invariant reads is changed.                                 *)
LEMMA QuietChange ==
  ASSUME NEW v, IceGood(v), NEW w \in ChannelStates, SameReport(v, w),
         w.ch.ctlSelected = v.ch.ctlSelected,
         \A a \in Addrs : SameForChannel(v.conn[a], w.conn[a])
  PROVE  IceGood(w) /\ Listed(w) = Listed(v) /\ (Complete(v) => Complete(w))
  <1>1. v \in ChannelStates /\ Listed(v) \subseteq Addrs /\ v.ch.selected \in Addrs \cup {NoConnection}
    BY ChannelFields DEF IceGood, Core
  <1>2. Listed(w) = Listed(v)
    BY DEF SameReport, Listed
  <1>3. Core(w)
    BY <1>1, <1>2 DEF IceGood, Core, SameReport, SameForChannel
  <1>4. Usable(w)
    BY <1>1, <1>2 DEF IceGood, Usable, SameReport, SameForChannel
  <1>5. IceReported(w)
    BY <1>1, ReportedSame DEF IceGood, SameForChannel
  <1>6. Complete(v) => Complete(w)
    BY <1>2 DEF Complete, SameForChannel
  <1> QED BY <1>2, <1>3, <1>4, <1>5, <1>6 DEF IceGood

(* A quiet change after steps of the channel.                              *)
LEMMA QuietEnd ==
  ASSUME NEW v, Moves(v), NEW w \in ChannelStates, SameReport(v, w),
         w.ch.ctlSelected = v.ch.ctlSelected,
         \A a \in Addrs : SameForChannel(v.conn[a], w.conn[a]) /\ w.conn[a].rtt = v.conn[a].rtt
  PROVE  Moves(w)
  <1>1. IceGood(w) /\ Complete(w)
    BY QuietChange DEF Moves
  <1>2. PICK u \in ChannelStates : u.ch.ctlSelected = ch.ctlSelected /\ Improves(u, v)
    BY DEF Moves
  <1>3. Improves(u, w)
    BY <1>2 DEF Improves
  <1> QED BY <1>1, <1>2, <1>3 DEF Moves

(* Steps of the channel after a change of the connections.                 *)
LEMMA StepsEnd ==
  ASSUME NEW v, IceGood(v), Complete(v), v.ch.ctlSelected = ch.ctlSelected,
         NEW w, IceGood(w), Improves(v, w), Keeps(v, w)
  PROVE  Moves(w)
  <1>1. Complete(w)
    BY DEF Complete, Keeps
  <1>2. v \in ChannelStates
    BY DEF IceGood, Core
  <1> QED BY <1>1, <1>2 DEF Moves

(* The sort of SortConnectionsAndUpdateState after a change that leaves    *)
(* the selected connection usable.                                         *)
LEMMA SortEnd ==
  ASSUME NEW v, Core(v), Usable(v), Complete(v), v.ch.ctlSelected = ch.ctlSelected
  PROVE  Moves(SortConnectionsAndUpdateState(v))
  <1> DEFINE w == SortConnectionsAndUpdateState(v)
  <1>1. /\ Core(w) /\ IceReported(w) /\ Improves(v, w)
        /\ w.conn = v.conn /\ Listed(w) = Listed(v)
        /\ \/ w.ch.selected = v.ch.selected /\ w.ch.ctlSelected = v.ch.ctlSelected
           \/ w.ch.selected # NoConnection /\ Usable(w)
    BY SortEffect
  <1> HIDE DEF w
  <1>2. Usable(w)
    BY <1>1 DEF Usable
  <1>3. Complete(w)
    BY <1>1 DEF Complete
  <1>4. v \in ChannelStates
    BY DEF Core
  <1>5. Moves(w)
    BY <1>1, <1>2, <1>3, <1>4 DEF Moves, IceGood
  <1> QED BY <1>5 DEF w

(* A handler that writes fields of the connections only the pings read.    *)
LEMMA ConnectionsEnd ==
  ASSUME IceInv, NEW f \in [Addrs -> Connection],
         \A a \in Addrs : SameForChannel(conn[a], f[a]) /\ f[a].rtt = conn[a].rtt
  PROVE  Moves([conn |-> f, ch |-> ch])
  <1> DEFINE w == [conn |-> f, ch |-> ch]
  <1>1. IceGood(Now) /\ Complete(Now) /\ Now \in ChannelStates
    BY DEF IceInv, IceGood, Core
  <1>2. Now.conn = conn /\ Now.ch = ch /\ w.conn = f /\ w.ch = ch
    BY DEF Now
  <1>3. w \in ChannelStates
    BY <1>1, <1>2 DEF ChannelStates
  <1>4. SameReport(Now, w)
    BY <1>2 DEF SameReport
  <1>5. Moves(Now)
    BY <1>1, <1>2 DEF Moves, Improves
  <1> HIDE DEF w
  <1>6. Moves(w)
    BY <1>2, <1>3, <1>4, <1>5, QuietEnd
  <1> QED BY <1>6 DEF w

(* What the invariant says of the variables.                               *)
LEMMA NowFields ==
  ASSUME IceInv
  PROVE  /\ IceGood(Now) /\ Complete(Now) /\ Core(Now) /\ Usable(Now) /\ Now \in ChannelStates
         /\ Now.conn = conn /\ Now.ch = ch
         /\ conn \in [Addrs -> Connection] /\ ch \in Channel
         /\ Listed(Now) = ToSet(ch.connections) /\ Listed(Now) \subseteq Addrs
         /\ ch.connections \in Seq(Addrs)
  <1>1. IceGood(Now) /\ Complete(Now) /\ Core(Now) /\ Usable(Now) /\ Now \in ChannelStates
    BY DEF IceInv, IceGood, Core
  <1>2. Now.conn = conn /\ Now.ch = ch
    BY DEF Now
  <1> QED BY <1>1, <1>2, ChannelFields DEF Listed

(* SetRemoteIceParams.                                                     *)
LEMMA SetRemoteIceParamsMoves ==
  ASSUME IceInv, NEW same, SetRemoteIceParams(same)
  PROVE  \E x : Moves(x) /\ Becomes(x)
  <1> DEFINE f == [a \in Addrs |-> [conn[a] EXCEPT !.password = @ \/ a \in same]]
             v == [Now EXCEPT !.conn = f]
  <1>1. /\ IceGood(Now) /\ Complete(Now) /\ Now \in ChannelStates
        /\ Now.conn = conn /\ Now.ch = ch /\ conn \in [Addrs -> Connection]
    BY NowFields
  <1>2. ASSUME NEW a \in Addrs
        PROVE  f[a] \in Connection /\ SameForChannel(conn[a], f[a])
    <2> DEFINE p == a \in same
    <2>1. p \in BOOLEAN /\ conn[a] \in Connection
      BY <1>1
    <2> HIDE DEF p
    <2>2. LET d == [conn[a] EXCEPT !.password = @ \/ p] IN d \in Connection /\ SameForChannel(conn[a], d)
      BY <2>1, ConnectionWrites
    <2> QED BY <2>2 DEF p
  <1>3. f \in [Addrs -> Connection]
    BY <1>2
  <1>4. \A a \in Addrs : SameForChannel(conn[a], f[a])
    BY <1>2
  <1> HIDE DEF f
  <1>5. v \in ChannelStates /\ v.ch = ch /\ v.conn = f
    BY <1>1, <1>3 DEF ChannelStates
  <1>6. Becomes(SortConnectionsAndUpdateState(v))
    BY DEF SetRemoteIceParams, f
  <1> HIDE DEF v
  <1>7. SameReport(Now, v)
    BY <1>1, <1>5 DEF SameReport
  <1>8. IceGood(v) /\ Complete(v)
    BY <1>1, <1>4, <1>5, <1>7, QuietChange
  <1>9. Moves(SortConnectionsAndUpdateState(v))
    BY <1>5, <1>8, SortEnd DEF IceGood
  <1> QED BY <1>6, <1>9
(* A connection that is created for an address.                            *)
LEMMA CreatedConnection ==
  ASSUME NEW r \in BOOLEAN
  PROVE  LET c == [NewConnection EXCEPT !.life = "live", !.password = r]
         IN  c \in Connection /\ c.life = "live"
  <1>1. ReceivingTimeout \in Heards /\ 0 \in Opens /\ InitialRtt \in RttValues
    BY TimeoutAssumption DEF Heards, Opens, RttValues
  <1>2. 1 \in 0 .. 1 /\ 2 \in 0 .. 3
    OBVIOUS
  <1> QED BY <1>1, <1>2, NoPings, ConnectionType DEF NewConnection, WriteInit

(* A new connection at the end of the list.                                *)
LEMMA AppendEffect ==
  ASSUME NEW list \in Seq(Addrs), IsInjective(list), NEW a \in Addrs, a \notin ToSet(list)
  PROVE  /\ Append(list, a) \in Seq(Addrs)
         /\ IsInjective(Append(list, a))
         /\ ToSet(Append(list, a)) = ToSet(list) \cup {a}
  <1> DEFINE n == Len(list)
             l == Append(list, a)
  <1>1. n \in Nat /\ DOMAIN list = 1 .. n
    OBVIOUS
  <1>2. l \in Seq(Addrs) /\ DOMAIN l = 1 .. n + 1 /\ l[n + 1] = a /\ \A i \in 1 .. n : l[i] = list[i]
    OBVIOUS
  <1>3. ToSet(l) = {l[i] : i \in 1 .. n + 1} /\ ToSet(list) = {list[i] : i \in 1 .. n}
    BY <1>1, <1>2 DEF ToSet
  <1> HIDE DEF l, n
  <1>4. \A i \in 1 .. n + 1 : i \in 1 .. n \/ i = n + 1
    BY <1>1
  <1>5. 1 .. n \subseteq 1 .. n + 1 /\ n + 1 \in 1 .. n + 1
    BY <1>1
  <1>6. ToSet(l) = ToSet(list) \cup {a}
    BY <1>2, <1>3, <1>4, <1>5
  <1>7. \A i \in 1 .. n : list[i] # a
    BY <1>3
  <1>8. IsInjective(l)
    BY <1>1, <1>2, <1>4, <1>7 DEF IsInjective
  <1> QED BY <1>2, <1>6, <1>8 DEF l

(* OnUnknownAddress.                                                       *)
LEMMA OnUnknownAddressMoves ==
  ASSUME IceInv, NEW a \in Addrs, OnUnknownAddress(a)
  PROVE  \E x : Moves(x) /\ Becomes(x)
  <1> DEFINE c == [NewConnection EXCEPT !.life = "live", !.password = remote]
             d == [ch EXCEPT !.had = TRUE, !.connections = Append(@, a), !.unpinged = @ \cup {a}]
             v == [conn |-> [conn EXCEPT ![a] = c], ch |-> d]
  <1>1. /\ Core(Now) /\ Usable(Now) /\ Complete(Now) /\ Now.conn = conn /\ Now.ch = ch
        /\ conn \in [Addrs -> Connection] /\ ch \in Channel
        /\ Listed(Now) = ToSet(ch.connections) /\ Listed(Now) \subseteq Addrs
        /\ ch.connections \in Seq(Addrs)
    BY NowFields
  <1>2. c \in Connection /\ c.life = "live"
    <2>1. remote \in BOOLEAN
      BY DEF IceInv
    <2> QED BY <2>1, CreatedConnection
  <1>3. Becomes(SortConnectionsAndUpdateState(v)) /\ conn[a].life = "none"
    BY DEF OnUnknownAddress
  <1> HIDE DEF c
  <1>4. a \notin Listed(Now)
    BY <1>1, <1>3 DEF Core
  <1>5. /\ Append(ch.connections, a) \in Seq(Addrs) /\ IsInjective(Append(ch.connections, a))
        /\ ToSet(Append(ch.connections, a)) = Listed(Now) \cup {a}
    BY <1>1, <1>4, AppendEffect DEF Core
  <1>6. /\ d \in Channel /\ d.connections = Append(ch.connections, a)
        /\ d.selected = ch.selected /\ d.ctlSelected = ch.ctlSelected
    <2> DEFINE l == Append(ch.connections, a)
               U == ch.unpinged \cup {a}
    <2>1. l \in Seq(Addrs) /\ U \in SUBSET Addrs
      BY <1>1, <1>5 DEF Channel
    <2>2. d = [ch EXCEPT !.had = TRUE, !.connections = l, !.unpinged = U]
      BY <1>1 DEF Channel
    <2> HIDE DEF l, U, d
    <2>3. d \in Channel /\ d.connections = l /\ d.selected = ch.selected /\ d.ctlSelected = ch.ctlSelected
      BY <1>1, <2>1, <2>2 DEF Channel
    <2> QED BY <2>3 DEF l
  <1> HIDE DEF d
  <1>7. /\ v \in ChannelStates /\ v.ch = d /\ v.conn[a] = c
        /\ \A b \in Addrs : b # a => v.conn[b] = conn[b]
    BY <1>1, <1>2, <1>6 DEF ChannelStates
  <1> HIDE DEF v
  <1>8. Listed(v) = Listed(Now) \cup {a}
    BY <1>5, <1>6, <1>7 DEF Listed
  <1>9. Core(v)
    <2>1. \A b \in Listed(v) : v.conn[b].life = "live"
      BY <1>1, <1>2, <1>7, <1>8 DEF Core
    <2>2. IsInjective(v.ch.connections)
      BY <1>5, <1>6, <1>7
    <2> QED BY <1>7, <2>1, <2>2 DEF Core
  <1>10. Usable(v)
    <2>1. v.ch.selected = ch.selected /\ v.ch.ctlSelected = ch.ctlSelected
      BY <1>6, <1>7
    <2>2. ch.selected # NoConnection => ch.selected \in Listed(Now)
            /\ conn[ch.selected].write \in {Writable, Unreliable} /\ ch.ctlSelected = ch.selected
      BY <1>1 DEF Usable
    <2>3. ch.selected # NoConnection => v.conn[ch.selected] = conn[ch.selected]
      BY <1>1, <1>4, <1>7, <2>2
    <2> QED BY <1>8, <2>1, <2>2, <2>3 DEF Usable
  <1>11. Complete(v)
    <2> SUFFICES ASSUME NEW b \in Addrs, v.conn[b].life = "live" PROVE b \in Listed(v)
      BY DEF Complete
    <2>1. b # a => b \in Listed(Now)
      BY <1>1, <1>7 DEF Complete
    <2> QED BY <1>8, <2>1
  <1>12. Moves(SortConnectionsAndUpdateState(v))
    BY <1>6, <1>7, <1>9, <1>10, <1>11, SortEnd
  <1> QED BY <1>3, <1>12

(* OnReadPacket, of a connection that is there.                            *)
LEMMA OnReadPacketMoves ==
  ASSUME IceInv, NEW a \in Addrs, OnReadPacket(a)
  PROVE  \E x : Moves(x) /\ Becomes(x)
  <1> DEFINE c == [conn[a] EXCEPT !.heard = 0]
             f == [conn EXCEPT ![a] = c]
  <1>1. conn \in [Addrs -> Connection] /\ conn[a] \in Connection
    BY NowFields
  <1>2. c \in Connection /\ SameForChannel(conn[a], c) /\ c.rtt = conn[a].rtt
    BY <1>1, ConnectionWrites
  <1>3. conn' = f /\ ch' = ch
    BY <1>1 DEF OnReadPacket
  <1> HIDE DEF c
  <1>4. f \in [Addrs -> Connection]
    BY <1>1, <1>2
  <1>5. \A b \in Addrs : SameForChannel(conn[b], f[b]) /\ f[b].rtt = conn[b].rtt
    BY <1>1, <1>2 DEF SameForChannel
  <1> HIDE DEF f
  <1>6. Moves([conn |-> f, ch |-> ch])
    BY <1>4, <1>5, ConnectionsEnd
  <1>7. Becomes([conn |-> f, ch |-> ch])
    BY <1>3 DEF Becomes
  <1> QED BY <1>6, <1>7

(* An error response that a later ping may mend.                           *)
LEMMA OnRetryableErrorMoves ==
  ASSUME IceInv, NEW a \in Addrs, OnRetryableError(a)
  PROVE  \E x : Moves(x) /\ Becomes(x)
  <1> DEFINE c == [conn[a] EXCEPT !.open = @ - 1]
             f == [conn EXCEPT ![a] = c]
  <1>1. conn \in [Addrs -> Connection] /\ conn[a] \in Connection
    BY NowFields
  <1>2. c \in Connection /\ SameForChannel(conn[a], c) /\ c.rtt = conn[a].rtt
    <2>1. conn[a].open > 0
      BY DEF OnRetryableError
    <2> QED BY <1>1, <2>1, ConnectionWrites
  <1>3. conn' = f /\ ch' = ch
    BY <1>1 DEF OnRetryableError
  <1> HIDE DEF c
  <1>4. f \in [Addrs -> Connection]
    BY <1>1, <1>2
  <1>5. \A b \in Addrs : SameForChannel(conn[b], f[b]) /\ f[b].rtt = conn[b].rtt
    BY <1>1, <1>2 DEF SameForChannel
  <1> HIDE DEF f
  <1>6. Moves([conn |-> f, ch |-> ch])
    BY <1>4, <1>5, ConnectionsEnd
  <1>7. Becomes([conn |-> f, ch |-> ch])
    BY <1>3 DEF Becomes
  <1> QED BY <1>6, <1>7

(* Time passes.                                                            *)
LEMMA TickMoves ==
  ASSUME IceInv, Tick
  PROVE  \E x : Moves(x) /\ Becomes(x)
  <1> DEFINE f == [a \in Addrs |->
                     [conn[a] EXCEPT !.heard = Older(@, ReceivingTimeout), !.idle = 1,
                                     !.pings = [i \in DOMAIN @ |-> Older(@[i], WriteTimeout + 1)]]]
  <1>1. conn \in [Addrs -> Connection]
    BY NowFields
  <1>2. ASSUME NEW a \in Addrs
        PROVE  f[a] \in Connection /\ SameForChannel(conn[a], f[a]) /\ f[a].rtt = conn[a].rtt
    BY <1>1, ConnectionAged
  <1>3. conn' = f /\ ch' = ch
    BY DEF Tick
  <1>4. f \in [Addrs -> Connection]
    BY <1>2
  <1>5. \A b \in Addrs : SameForChannel(conn[b], f[b]) /\ f[b].rtt = conn[b].rtt
    BY <1>2
  <1> HIDE DEF f
  <1>6. Moves([conn |-> f, ch |-> ch])
    BY <1>4, <1>5, ConnectionsEnd
  <1>7. Becomes([conn |-> f, ch |-> ch])
    BY <1>3 DEF Becomes
  <1> QED BY <1>6, <1>7
(* A smoothed round-trip time is one of the values it may take.            *)
LEMMA NextRttsType ==
  ASSUME NEW c, NEW sample \in Rtts PROVE NextRtts(c, sample) \subseteq Rtts
  BY DEF NextRtts

(* OnConnectionRequestResponse.                                            *)
LEMMA OnConnectionRequestResponseMoves ==
  ASSUME IceInv, NEW a \in Addrs, NEW sample \in Rtts, OnConnectionRequestResponse(a, sample)
  PROVE  \E x : Moves(x) /\ Becomes(x)
  <1>1. /\ IceGood(Now) /\ Complete(Now) /\ Now \in ChannelStates /\ Now.conn = conn /\ Now.ch = ch
        /\ conn \in [Addrs -> Connection] /\ conn[a] \in Connection
    BY NowFields
  <1>2. conn[a].life = "live" /\ conn[a].open > 0
    BY DEF OnConnectionRequestResponse
  <1>3. PICK rtt \in NextRtts(conn[a], sample) :
          Becomes(SetWriteState(UpdateReceiving(
            [Now EXCEPT !.conn[a] = [@ EXCEPT !.rtt = rtt, !.heard = 0, !.answered = TRUE,
                                              !.pings = <<>>, !.open = conn[a].open - 1]], a), a, Writable))
    BY DEF OnConnectionRequestResponse
  <1> DEFINE c == [Now.conn[a] EXCEPT !.rtt = rtt, !.heard = 0, !.answered = TRUE,
                                      !.pings = <<>>, !.open = conn[a].open - 1]
             v == [Now EXCEPT !.conn = [Now.conn EXCEPT ![a] = c]]
             y == UpdateReceiving(v, a)
             z == SetWriteState(y, a, Writable)
  <1>4. rtt \in Rtts
    BY NextRttsType
  <1>5. c \in Connection /\ SameForChannel(conn[a], c)
    <2>1. c = [conn[a] EXCEPT !.rtt = rtt, !.heard = 0, !.answered = TRUE, !.pings = <<>>, !.open = @ - 1]
      BY <1>1
    <2> HIDE DEF c
    <2> QED BY <1>1, <1>2, <1>4, <2>1, ConnectionWrites
  <1>6. [Now EXCEPT !.conn[a] = [@ EXCEPT !.rtt = rtt, !.heard = 0, !.answered = TRUE,
                                          !.pings = <<>>, !.open = conn[a].open - 1]] = v
    <2>1. Now = [conn |-> Now.conn, ch |-> Now.ch] /\ Now.conn \in [Addrs -> Connection]
      BY <1>1, ChannelFields
    <2> QED BY <2>1
  <1>7. Becomes(z)
    BY <1>3, <1>6
  <1> HIDE DEF c
  <1>8. /\ v \in ChannelStates /\ v.ch = ch /\ v.conn[a] = c
        /\ \A b \in Addrs : b # a => v.conn[b] = conn[b]
    BY <1>1, <1>5, ConnChange
  <1> HIDE DEF v
  <1>9. \A b \in Addrs : SameForChannel(conn[b], v.conn[b])
    BY <1>5, <1>8 DEF SameForChannel
  <1>10. SameReport(Now, v)
    BY <1>1, <1>8 DEF SameReport
  <1>11. IceGood(v) /\ Complete(v) /\ v.ch.ctlSelected = ch.ctlSelected
    BY <1>1, <1>8, <1>9, <1>10, QuietChange
  <1>12. a \in Listed(v)
    BY <1>2, <1>9, <1>11 DEF Complete, SameForChannel
  <1>13. IceGood(y) /\ Improves(v, y) /\ Keeps(v, y) /\ Listed(y) = Listed(v)
    BY <1>11, <1>12, UpdateReceivingEffect
  <1> HIDE DEF y
  <1>14. Writable \in 0 .. 3
    BY DEF Writable
  <1>15. IceGood(z) /\ Improves(y, z) /\ Keeps(y, z)
    <2>1. /\ Core(z) /\ IceReported(z) /\ Improves(y, z) /\ Keeps(y, z)
          /\ Usable(z) \/ (z.ch.selected = a /\ Writable \notin {Writable, Unreliable})
      BY <1>12, <1>13, <1>14, SetWriteStateEffect
    <2> QED BY <2>1 DEF IceGood
  <1> HIDE DEF z
  <1>16. Improves(v, z)
    BY <1>8, <1>13, <1>15, ImprovesTransitive DEF IceGood, Core
  <1>17. Keeps(v, z)
    BY <1>13, <1>15, KeepsTransitive
  <1>18. Moves(z)
    BY <1>11, <1>15, <1>16, <1>17, StepsEnd
  <1> QED BY <1>7, <1>18

(* An error response that ends the connection.                             *)
LEMMA OnFatalErrorMoves ==
  ASSUME IceInv, NEW a \in Addrs, OnFatalError(a)
  PROVE  \E x : Moves(x) /\ Becomes(x)
  <1> DEFINE w == FailAndDestroy(Now, a)
  <1>1. /\ IceGood(Now) /\ Complete(Now) /\ Core(Now) /\ Usable(Now) /\ Now.conn = conn /\ Now.ch = ch
    BY NowFields
  <1>2. conn[a].life = "live" /\ Becomes(w)
    BY DEF OnFatalError
  <1>3. a \in Listed(Now)
    BY <1>1, <1>2 DEF Complete
  <1>4. IceGood(w) /\ Improves(Now, w) /\ Keeps(Now, w)
    BY <1>1, <1>3, FailAndDestroyEffect
  <1> HIDE DEF w
  <1>5. Moves(w)
    BY <1>1, <1>4, StepsEnd
  <1> QED BY <1>2, <1>5

(* The states after the timer looked at every connection.                  *)
LEMMA UpdatedMoves ==
  ASSUME IceInv PROVE Moves(UpdateConnectionStates(Now))
  <1> DEFINE w == UpdateConnectionStates(Now)
  <1>1. IceGood(Now) /\ Complete(Now) /\ Now.ch = ch
    BY NowFields
  <1>2. IceGood(w) /\ Improves(Now, w) /\ Keeps(Now, w)
    BY <1>1, UpdateConnectionStatesEffect
  <1> HIDE DEF w
  <1>3. Moves(w)
    BY <1>1, <1>2, StepsEnd
  <1> QED BY <1>3 DEF w

(* The sets of pinged and unpinged connections are no one else's business. *)
LEMMA PingedSetsMoves ==
  ASSUME NEW v, Moves(v), NEW P \in SUBSET Addrs, NEW U \in SUBSET Addrs
  PROVE  LET w == [conn |-> v.conn, ch |-> [v.ch EXCEPT !.unpinged = U, !.pinged = P]]
         IN  Moves(w) /\ w.ch.ctlSelected = v.ch.ctlSelected
  <1> DEFINE d == [v.ch EXCEPT !.unpinged = U, !.pinged = P]
             w == [conn |-> v.conn, ch |-> d]
  <1>1. v \in ChannelStates /\ v.ch \in Channel /\ v.conn \in [Addrs -> Connection]
    BY ChannelFields DEF Moves, IceGood, Core
  <1>2. /\ d.connections = v.ch.connections /\ d.selected = v.ch.selected
        /\ d.had = v.ch.had /\ d.hasBeen = v.ch.hasBeen /\ d.writable = v.ch.writable
        /\ d.receiving = v.ch.receiving /\ d.state = v.ch.state /\ d.ctlSelected = v.ch.ctlSelected
    BY <1>1 DEF Channel
  <1>3. d \in Channel
    BY <1>1 DEF Channel
  <1> HIDE DEF d
  <1>4. w \in ChannelStates /\ w.ch = d /\ w.conn = v.conn
    BY <1>1, <1>3 DEF ChannelStates
  <1> HIDE DEF w
  <1>5. SameReport(v, w) /\ w.ch.ctlSelected = v.ch.ctlSelected
    BY <1>2, <1>4 DEF SameReport
  <1>6. \A a \in Addrs : SameForChannel(v.conn[a], w.conn[a]) /\ w.conn[a].rtt = v.conn[a].rtt
    BY <1>4 DEF SameForChannel
  <1>7. Moves(w)
    BY <1>4, <1>5, <1>6, QuietEnd
  <1> QED BY <1>5, <1>7 DEF w, d

(* Round.                                                                  *)
LEMMA RoundMoves ==
  ASSUME NEW v, Moves(v), NEW due PROVE Moves(Round(v, due))
  <1> DEFINE U == v.ch.unpinged \cup v.ch.pinged
             P == {}
             w == [conn |-> v.conn, ch |-> [v.ch EXCEPT !.unpinged = U, !.pinged = P]]
  <1>1. v \in ChannelStates /\ v.ch \in Channel /\ v = [conn |-> v.conn, ch |-> v.ch]
    BY ChannelFields DEF Moves, IceGood, Core
  <1>2. U \in SUBSET Addrs /\ P \in SUBSET Addrs
    BY <1>1 DEF Channel
  <1>3. Round(v, due) = v \/ Round(v, due) = w
    <2>1. [v EXCEPT !.ch.unpinged = @ \cup v.ch.pinged, !.ch.pinged = {}]
            = [conn |-> v.conn, ch |-> [v.ch EXCEPT !.unpinged = @ \cup v.ch.pinged, !.pinged = {}]]
      <3> DEFINE u == [v EXCEPT !.ch.unpinged = @ \cup v.ch.pinged, !.ch.pinged = {}]
                 d == [v.ch EXCEPT !.unpinged = @ \cup v.ch.pinged, !.pinged = {}]
      <3>1. u.ch = d /\ u.conn = v.conn /\ u = [v EXCEPT !.ch = u.ch]
        <4>1. u.ch = d
          BY <1>1
        <4>2. u.conn = v.conn
          BY <1>1
        <4>3. u = [v EXCEPT !.ch = u.ch]
          BY <1>1
        <4> QED BY <4>1, <4>2, <4>3
      <3> HIDE DEF u, d
      <3>2. u = [conn |-> v.conn, ch |-> d]
        BY <1>1, <3>1
      <3> QED BY <3>2 DEF u, d
    <2>2. [v.ch EXCEPT !.unpinged = @ \cup v.ch.pinged, !.pinged = {}]
            = [v.ch EXCEPT !.unpinged = U, !.pinged = P]
      BY <1>1 DEF Channel
    <2> QED BY <2>1, <2>2 DEF Round
  <1> HIDE DEF U, P
  <1>4. Moves(w)
    BY <1>2, PingedSetsMoves
  <1> QED BY <1>3, <1>4

(* A ping and the mark of MarkConnectionPinged.                            *)
LEMMA PingAndMarkMoves ==
  ASSUME NEW v, Moves(v), NEW a \in Addrs PROVE Moves(PingAndMark(v, a))
  <1> DEFINE c == [v.conn[a] EXCEPT !.idle = 0, !.answered = FALSE,
                            !.pings = IF Len(@) < ConnectFails THEN Append(@, 0) ELSE @,
                            !.open = Min({@ + 1, MaxOpen})]
             x == [v EXCEPT !.conn = [v.conn EXCEPT ![a] = c]]
             P == x.ch.pinged \cup {a}
             U == IF a \in x.ch.pinged THEN x.ch.unpinged ELSE x.ch.unpinged \ {a}
             w == [conn |-> x.conn, ch |-> [x.ch EXCEPT !.unpinged = U, !.pinged = P]]
  <1>1. v \in ChannelStates /\ v.ch \in Channel /\ v.conn \in [Addrs -> Connection]
        /\ v = [conn |-> v.conn, ch |-> v.ch] /\ v.conn[a] \in Connection
    BY ChannelFields DEF Moves, IceGood, Core
  <1>2. c \in Connection /\ SameForChannel(v.conn[a], c) /\ c.rtt = v.conn[a].rtt
    BY <1>1, ConnectionPinged
  <1>3. Ping(v, a) = x
    <2> DEFINE q == IF Len(v.conn[a].pings) < ConnectFails THEN Append(v.conn[a].pings, 0)
                    ELSE v.conn[a].pings
               o == Min({v.conn[a].open + 1, MaxOpen})
    <2>1. v.conn[a] \in [life : {"none", "live", "freed"}, password : BOOLEAN,
                write : 0 .. 3, receiving : BOOLEAN, heard : Heards,
                answered : BOOLEAN, idle : 0 .. 1, pings : Pings, open : Opens, rtt : RttValues]
      BY <1>1, ConnectionType
    <2>2. c = [v.conn[a] EXCEPT !.idle = 0, !.answered = FALSE, !.pings = q, !.open = o]
      BY <2>1
    <2>3. Ping(v, a) = [v EXCEPT !.conn[a].idle = 0, !.conn[a].answered = FALSE,
                                 !.conn[a].pings = q, !.conn[a].open = o]
      BY <1>1, <2>1 DEF Ping
    <2> HIDE DEF q, o, c
    <2> DEFINE u == [v EXCEPT !.conn[a].idle = 0, !.conn[a].answered = FALSE,
                              !.conn[a].pings = q, !.conn[a].open = o]
               g == [v.conn EXCEPT ![a].idle = 0, ![a].answered = FALSE, ![a].pings = q, ![a].open = o]
    <2>4. u.conn = g
      BY <1>1
    <2>5. u.ch = v.ch
      BY <1>1
    <2>6. u = [v EXCEPT !.conn = u.conn]
      BY <1>1
    <2>7. g = [v.conn EXCEPT ![a] = c]
      <3>1. g[a] = c
        BY <1>1, <2>1, <2>2
      <3>2. g = [v.conn EXCEPT ![a] = g[a]]
        BY <1>1
      <3> HIDE DEF g
      <3> QED BY <3>1, <3>2
    <2> HIDE DEF u, g
    <2>8. u = x
      BY <2>4, <2>6, <2>7
    <2> QED BY <2>3, <2>8 DEF u
  <1> HIDE DEF c
  <1>4. /\ x \in ChannelStates /\ x.ch = v.ch /\ x.conn[a] = c
        /\ \A b \in Addrs : b # a => x.conn[b] = v.conn[b]
    BY <1>1, <1>2, ConnChange
  <1> HIDE DEF x
  <1>5. \A b \in Addrs : SameForChannel(v.conn[b], x.conn[b]) /\ x.conn[b].rtt = v.conn[b].rtt
    BY <1>2, <1>4 DEF SameForChannel
  <1>6. SameReport(v, x) /\ x.ch.ctlSelected = v.ch.ctlSelected
    BY <1>4 DEF SameReport
  <1>7. Moves(x)
    BY <1>4, <1>5, <1>6, QuietEnd
  <1>8. P \in SUBSET Addrs /\ U \in SUBSET Addrs
    BY <1>1, <1>4 DEF Channel
  <1>9. MarkConnectionPinged(x, a) = w
    <2>1. x = [conn |-> x.conn, ch |-> x.ch] /\ x.ch \in Channel
      BY <1>4, ChannelFields
    <2>2. [x EXCEPT !.ch.pinged = @ \cup {a}, !.ch.unpinged = IF a \in x.ch.pinged THEN @ ELSE @ \ {a}]
            = [conn |-> x.conn,
               ch |-> [x.ch EXCEPT !.pinged = @ \cup {a},
                                   !.unpinged = IF a \in x.ch.pinged THEN @ ELSE @ \ {a}]]
      <3> DEFINE u == [x EXCEPT !.ch.pinged = @ \cup {a},
                                !.ch.unpinged = IF a \in x.ch.pinged THEN @ ELSE @ \ {a}]
                 d == [x.ch EXCEPT !.pinged = @ \cup {a},
                                   !.unpinged = IF a \in x.ch.pinged THEN @ ELSE @ \ {a}]
      <3>1. u.ch = d
        BY <2>1
      <3>2. u.conn = x.conn
        BY <2>1
      <3>3. u = [x EXCEPT !.ch = u.ch]
        BY <2>1
      <3> HIDE DEF u, d
      <3>4. u = [conn |-> x.conn, ch |-> d]
        BY <2>1, <3>1, <3>2, <3>3
      <3> QED BY <3>4 DEF u, d
    <2>3. [x.ch EXCEPT !.pinged = @ \cup {a}, !.unpinged = IF a \in x.ch.pinged THEN @ ELSE @ \ {a}]
            = [x.ch EXCEPT !.unpinged = U, !.pinged = P]
      BY <2>1 DEF Channel
    <2> QED BY <2>2, <2>3 DEF MarkConnectionPinged
  <1> HIDE DEF P, U
  <1>10. Moves(w)
    BY <1>7, <1>8, PingedSetsMoves
  <1> QED BY <1>3, <1>9, <1>10 DEF PingAndMark
(* OnCheckAndPing.                                                         *)
LEMMA OnCheckAndPingMoves ==
  ASSUME IceInv, NEW due, OnCheckAndPing(due)
  PROVE  \E x : Moves(x) /\ Becomes(x)
  <1> DEFINE v == UpdateConnectionStates(Now)
             w == Round(v, due)
  <1>1. \/ SelectedFirst(v, due) /\ Becomes(PingAndMark(v, v.ch.ctlSelected))
        \/ Becomes(w)
        \/ \E a \in NextPingable(w, due) : Becomes(PingAndMark(w, a))
    BY DEF OnCheckAndPing
  <1>2. Moves(v)
    BY UpdatedMoves
  <1> HIDE DEF v
  <1>3. Moves(w)
    BY <1>2, RoundMoves
  <1> HIDE DEF w
  <1>4. CASE SelectedFirst(v, due) /\ Becomes(PingAndMark(v, v.ch.ctlSelected))
    <2>1. v \in ChannelStates
      BY <1>2 DEF Moves, IceGood, Core
    <2>2. v.ch.ctlSelected \in Addrs
      BY <1>4, <2>1, ChannelFields DEF SelectedFirst
    <2> QED BY <1>2, <1>4, <2>2, PingAndMarkMoves
  <1>5. CASE \E a \in NextPingable(w, due) : Becomes(PingAndMark(w, a))
    <2>1. PICK a \in NextPingable(w, due) : Becomes(PingAndMark(w, a))
      BY <1>5
    <2>2. w \in ChannelStates /\ w.ch \in Channel
      BY <1>3, ChannelFields DEF Moves, IceGood, Core
    <2>3. a \in Addrs
      BY <2>2 DEF NextPingable, Channel
    <2> QED BY <1>3, <2>1, <2>3, PingAndMarkMoves
  <1> QED BY <1>1, <1>3, <1>4, <1>5

(* OnCheckOnly.                                                            *)
LEMMA OnCheckOnlyMoves ==
  ASSUME IceInv, OnCheckOnly
  PROVE  \E x : Moves(x) /\ Becomes(x)
  BY UpdatedMoves DEF OnCheckOnly

(* A step that leaves the connections and the channel alone.               *)
LEMMA StutterMoves ==
  ASSUME IceInv, conn' = conn, ch' = ch
  PROVE  \E x : Moves(x) /\ Becomes(x)
  <1>1. IceGood(Now) /\ Complete(Now) /\ Now \in ChannelStates /\ Now.conn = conn /\ Now.ch = ch
    BY NowFields
  <1>2. Moves(Now) /\ Becomes(Now)
    BY <1>1 DEF Moves, Improves, Becomes
  <1> QED BY <1>2

(* Every step.                                                             *)
LEMMA IceNextMoves ==
  ASSUME IceInv, [IceNext]_iceVars
  PROVE  /\ IceGood(Now') /\ Complete(Now')
         /\ \E v \in ChannelStates : v.ch.ctlSelected = ch.ctlSelected /\ Improves(v, Now')
  <1>1. \E x : Moves(x) /\ Becomes(x)
    <2>1. ASSUME NEW same \in SUBSET Addrs, SetRemoteIceParams(same) PROVE \E x : Moves(x) /\ Becomes(x)
      BY <2>1, SetRemoteIceParamsMoves
    <2>2. ASSUME NEW a \in Addrs, Receive(a) PROVE \E x : Moves(x) /\ Becomes(x)
      <3>1. CASE OnUnknownAddress(a)
        BY <3>1, OnUnknownAddressMoves
      <3>2. CASE OnReadPacket(a)
        BY <3>2, OnReadPacketMoves
      <3>3. CASE OnReadPacketFreed(a)
        BY <3>3, StutterMoves DEF OnReadPacketFreed
      <3>4. ASSUME NEW sample \in Rtts, OnConnectionRequestResponse(a, sample)
            PROVE  \E x : Moves(x) /\ Becomes(x)
        BY <3>4, OnConnectionRequestResponseMoves
      <3>5. CASE OnRetryableError(a)
        BY <3>5, OnRetryableErrorMoves
      <3>6. CASE OnFatalError(a)
        BY <3>6, OnFatalErrorMoves
      <3> QED BY <2>2, <3>1, <3>2, <3>3, <3>4, <3>5, <3>6 DEF Receive
    <2>3. CASE FallSilent
      BY <2>3, StutterMoves DEF FallSilent
    <2>4. ASSUME NEW due \in Dues, OnCheckAndPing(due) PROVE \E x : Moves(x) /\ Becomes(x)
      BY <2>4, OnCheckAndPingMoves
    <2>5. CASE OnCheckOnly
      BY <2>5, OnCheckOnlyMoves
    <2>6. CASE Tick
      BY <2>6, TickMoves
    <2>7. CASE UNCHANGED iceVars
      BY <2>7, StutterMoves DEF iceVars
    <2> QED BY <2>1, <2>2, <2>3, <2>4, <2>5, <2>6, <2>7 DEF IceNext
  <1>2. PICK x : Moves(x) /\ Becomes(x)
    BY <1>1
  <1>3. x \in ChannelStates
    BY <1>2 DEF Moves, IceGood, Core
  <1>4. Now' = x
    <2>1. x = [conn |-> x.conn, ch |-> x.ch]
      BY <1>3, ChannelFields
    <2>2. Now' = [conn |-> conn', ch |-> ch']
      BY DEF Now
    <2> QED BY <1>2, <2>1, <2>2 DEF Becomes
  <1> QED BY <1>2, <1>4 DEF Moves

(* The channel reports what its connections say, its selected connection   *)
(* is one it can send on, and the controller lists exactly the live ones.  *)
THEOREM IceInvariance == IceSpec => []IceInv
  <1>1. IceInit => IceInv
    <2> SUFFICES ASSUME IceInit PROVE IceInv
      OBVIOUS
    <2>1. NewConnection \in Connection
      <3>1. ReceivingTimeout \in Heards /\ 0 \in Opens /\ InitialRtt \in RttValues
        BY TimeoutAssumption DEF Heards, Opens, RttValues
      <3>2. 1 \in 0 .. 1 /\ 2 \in 0 .. 3
        OBVIOUS
      <3> QED BY <3>1, <3>2, NoPings, ConnectionType DEF NewConnection, WriteInit
    <2>2. Now.conn = conn /\ Now.ch = ch
      BY DEF Now
    <2>3. ch.connections = <<>> /\ ch.selected = NoConnection /\ ch.state = "kNew"
          /\ ch.had = FALSE /\ ch.hasBeen = FALSE /\ ch.writable = FALSE /\ ch.receiving = FALSE
      BY DEF IceInit
    <2>4. Listed(Now) = {}
      BY <2>2, <2>3 DEF Listed, ToSet
    <2>5. Now \in ChannelStates
      <3>1. conn \in [Addrs -> Connection]
        BY <2>1 DEF IceInit
      <3>2. <<>> \in Seq(Addrs)
        OBVIOUS
      <3>3. ch \in Channel
        BY <3>2 DEF IceInit, Channel
      <3> QED BY <3>1, <3>3 DEF Now, ChannelStates
    <2>6. Core(Now)
      <3>1. IsInjective(Now.ch.connections)
        BY <2>2, <2>3 DEF IsInjective
      <3> QED BY <2>4, <2>5, <3>1 DEF Core
    <2>7. Usable(Now)
      BY <2>2, <2>3 DEF Usable
    <2>8. IceReported(Now)
      BY <2>2, <2>3, <2>4 DEF IceReported
    <2>9. Complete(Now)
      <3>1. \A a \in Addrs : Now.conn[a].life = "none"
        BY <2>2 DEF IceInit, NewConnection
      <3> QED BY <3>1 DEF Complete
    <2> QED BY <2>6, <2>7, <2>8, <2>9 DEF IceInv, IceGood, IceInit
  <1>2. IceInv /\ [IceNext]_iceVars => IceInv'
    <2> SUFFICES ASSUME IceInv, [IceNext]_iceVars PROVE IceInv'
      OBVIOUS
    <2>1. IceGood(Now') /\ Complete(Now')
      BY IceNextMoves
    <2>2. {remote', silent', fired', wild'} \subseteq BOOLEAN
      <3>1. {remote, silent, fired, wild} \subseteq BOOLEAN
        BY DEF IceInv
      <3> QED BY <3>1 DEF IceNext, iceVars, Receive, SetRemoteIceParams, OnUnknownAddress, OnReadPacket,
                   OnReadPacketFreed, OnConnectionRequestResponse, OnRetryableError, OnFatalError,
                   FallSilent, OnCheckAndPing, OnCheckOnly, Tick, Touches
    <2> QED BY <2>1, <2>2 DEF IceInv
  <1> QED BY <1>1, <1>2, PTL DEF IceSpec

(* IceTypeOK: connections, the list, the controller's sets and selections  *)
(* stay of their types through every nesting of callbacks.                 *)
THEOREM IceTypeCorrect == IceSpec => []IceTypeOK
  <1>1. IceInv => IceTypeOK
    <2> SUFFICES ASSUME IceInv PROVE IceTypeOK
      OBVIOUS
    <2>1. Now \in ChannelStates /\ Now.conn = conn /\ Now.ch = ch
      BY DEF IceInv, IceGood, Core, Now
    <2>2. conn \in [Addrs -> Connection] /\ ch \in Channel
      BY <2>1 DEF ChannelStates
    <2>3. ToSet(ch.connections) \subseteq Addrs
      <3>1. ch.connections \in Seq(Addrs)
        BY <2>2 DEF Channel
      <3> QED BY <3>1 DEF ToSet
    <2>4. /\ ch.unpinged \cup ch.pinged \subseteq Addrs
          /\ {ch.selected, ch.ctlSelected} \subseteq Addrs \cup {NoConnection}
          /\ {ch.had, ch.hasBeen, ch.writable, ch.receiving, ch.pinging} \subseteq BOOLEAN
          /\ ch.state \in {"kNew", "kChecking", "kConnected", "kDisconnected", "kFailed"}
      BY <2>2 DEF Channel
    <2> QED BY <2>2, <2>3, <2>4 DEF IceTypeOK, IceInv
  <1> QED BY <1>1, IceInvariance, PTL

(* ReportsCurrentState: no handler changes or removes a connection and     *)
(* leaves the channel with what it reported before.                        *)
THEOREM ChannelReportIsCurrent == IceSpec => []ReportsCurrentState
  <1>1. IceInv => ReportsCurrentState
    <2> SUFFICES ASSUME IceInv PROVE UpdateChannelState(Now) = Now
      BY DEF ReportsCurrentState
    <2> DEFINE writable == Now.ch.selected # NoConnection /\ Now.conn[Now.ch.selected].write = Writable
               hasBeen == Now.ch.hasBeen \/ writable
               receiving == \E a \in Listed(Now) : Now.conn[a].receiving
               state == ComputeState(Now, writable, hasBeen)
    <2>1. IceReported(Now) /\ Now \in ChannelStates /\ Now.ch \in Channel
          /\ Now = [conn |-> Now.conn, ch |-> Now.ch]
      BY ChannelFields DEF IceInv, IceGood, Core
    <2>2. writable = Now.ch.writable /\ receiving = Now.ch.receiving
      BY <2>1 DEF IceReported
    <2>3. hasBeen = Now.ch.hasBeen
      <3>1. Now.ch.writable \in BOOLEAN /\ Now.ch.hasBeen \in BOOLEAN /\ (Now.ch.writable => Now.ch.hasBeen)
        BY <2>1 DEF IceReported, Channel
      <3> HIDE DEF writable
      <3> QED BY <2>2, <3>1
    <2>4. state = Now.ch.state
      <3> HIDE DEF writable, hasBeen
      <3> QED BY <2>1, <2>2, <2>3 DEF IceReported, ComputeState, Listed
    <2>5. UpdateChannelState(Now) = [Now EXCEPT !.ch.writable = writable, !.ch.hasBeen = hasBeen,
                                                !.ch.receiving = receiving, !.ch.state = state]
      BY DEF UpdateChannelState, Listed
    <2> HIDE DEF writable, hasBeen, receiving, state
    <2> DEFINE c == Now.ch
               d == [c EXCEPT !.writable = c.writable, !.hasBeen = c.hasBeen,
                              !.receiving = c.receiving, !.state = c.state]
               u == [Now EXCEPT !.ch.writable = writable, !.ch.hasBeen = hasBeen,
                                !.ch.receiving = receiving, !.ch.state = state]
    <2>6. u.ch = d
      BY <2>1, <2>2, <2>3, <2>4
    <2>7. u = [Now EXCEPT !.ch = u.ch]
      BY <2>1
    <2>8. d = c
      <3> HIDE DEF c
      <3>1. c \in Channel
        BY <2>1 DEF c
      <3> QED BY <3>1 DEF Channel
    <2> HIDE DEF u, d
    <2>9. u = Now
      BY <2>1, <2>6, <2>7, <2>8
    <2> QED BY <2>5, <2>9 DEF u
  <1> QED BY <1>1, IceInvariance, PTL

(* SelectedIsUsable: SendPacket never meets a deleted connection, nor one  *)
(* that is not ready to send.                                              *)
THEOREM SelectionIsUsable == IceSpec => []SelectedIsUsable
  <1>1. IceInv => SelectedIsUsable
    <2> SUFFICES ASSUME IceInv, ch.selected # NoConnection PROVE SelectedIsUsable
      BY DEF SelectedIsUsable
    <2>1. Core(Now) /\ Usable(Now) /\ Now.conn = conn /\ Now.ch = ch /\ Listed(Now) = ToSet(ch.connections)
      BY NowFields
    <2>2. /\ ch.selected \in Listed(Now) /\ conn[ch.selected].write \in {Writable, Unreliable}
          /\ ch.ctlSelected = ch.selected
      BY <2>1 DEF Usable
    <2>3. conn[ch.selected].life = "live"
      BY <2>1, <2>2 DEF Core
    <2>4. ReadyToSend(Now, ch.selected)
      BY <2>1, <2>2 DEF ReadyToSend
    <2> QED BY <2>1, <2>2, <2>3, <2>4 DEF SelectedIsUsable
  <1> QED BY <1>1, IceInvariance, PTL

(* SwitchImproves: media moves from one live connection to another only    *)
(* for a round trip better by kMinImprovement.                             *)
THEOREM SwitchesImprove == IceSpec => SwitchImproves
  <1>1. IceInv /\ [IceNext]_iceVars =>
          ((/\ ch.selected # NoConnection
            /\ ch'.selected \notin {NoConnection, ch.selected}
            /\ conn'[ch.selected].life = "live")
           => conn'[ch'.selected].rtt < conn'[ch.selected].rtt)
    <2> SUFFICES ASSUME IceInv, [IceNext]_iceVars, ch.selected # NoConnection,
                        ch'.selected \notin {NoConnection, ch.selected}
                 PROVE  conn'[ch'.selected].rtt < conn'[ch.selected].rtt
      OBVIOUS
    <2>1. PICK v \in ChannelStates : v.ch.ctlSelected = ch.ctlSelected /\ Improves(v, Now')
      BY IceNextMoves
    <2>2. Now'.conn = conn' /\ Now'.ch = ch' /\ Now.ch = ch
      BY DEF Now
    <2>3. ch.ctlSelected = ch.selected /\ ch.selected \in Addrs
      BY <2>2, ChannelFields DEF IceInv, IceGood, Core, Usable
    <2>4. ch'.ctlSelected = ch'.selected /\ ch'.selected \in Addrs
      <3> DEFINE w == Now'
      <3>1. IceGood(w)
        BY IceNextMoves
      <3>2. w.ch = ch'
        BY <2>2
      <3> HIDE DEF w
      <3> QED BY <3>1, <3>2, ChannelFields DEF IceGood, Core, Usable
    <2> QED BY <2>1, <2>2, <2>3, <2>4 DEF Improves
  <1> QED BY <1>1, IceInvariance, PTL DEF IceSpec, SwitchImproves
=============================================================================
