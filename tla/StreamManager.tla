--------------------------- MODULE StreamManager ---------------------------
(***************************************************************************)
(* stream/rtc_stream_manager.cpp and stream/rtc_stream.cpp: the streams of *)
(* one RtcWorker, the three maps that own them, and the callbacks by which *)
(* a stream that failed or never connected asks to be removed.             *)
(*                                                                         *)
(* Everything here runs on the worker's event loop, so one handler is one  *)
(* action; what interleaves is the order of requests, of state reports of  *)
(* the PeerConnections, of the 30 s ICE timers and of the 10 ms timers     *)
(* that delete a PeerConnection after its stream.  Requests that fail      *)
(* (PULL without a push, ANSWER for a missing stream or another uid, STOP  *)
(* of nothing) return early and change nothing.                            *)
(***************************************************************************)
EXTENDS Naturals

CONSTANTS Uids, Names,
          Modes,        \* modes clients ask for: "transparent" or "live"
          ReportedStates, \* values of PeerConnectionState that are reported
          MaxStreams,   \* bound: stream objects ever created
          None          \* absent map entry

ASSUME ModesAssumption == Modes \subseteq {"transparent", "live"}
(* TransportController::UpdateState never computes kClosed.                *)
ASSUME StatesAssumption ==
  /\ {"kNew", "kConnected", "kFailed"} \subseteq ReportedStates
  /\ ReportedStates \subseteq
       {"kNew", "kConnecting", "kConnected", "kDisconnected", "kFailed"}
ASSUME MaxStreamsAssumption == MaxStreams \in Nat
ASSUME NoneAssumption == None \notin 1 .. MaxStreams

Ids == 1 .. MaxStreams
Info == [kind : {"push", "pull"}, uid : Uids, name : Names, mode : Modes]
NoInfo == [kind |-> "none"]

VARIABLES
  created,     \* number of streams created so far
  info,        \* the fields of a stream fixed when it is created
  status,      \* unused, alive, dying (stream deleted, its PeerConnection
               \* waits for the destroy timer), gone
  state_,      \* RtcStream::state_
  timer,       \* ice_timeout_watcher_ is running
  answered,    \* the PeerConnection has a remote description
  push_streams_, pull_streams_,  \* name -> stream
  multi_pull_streams_,           \* name -> uid -> stream
  slots                          \* names that have a UserStreamMap

maps == <<push_streams_, pull_streams_, multi_pull_streams_, slots>>
vars == <<created, info, status, state_, timer, answered, maps>>

Init ==
  /\ created = 0
  /\ info = [s \in Ids |-> NoInfo]
  /\ status = [s \in Ids |-> "unused"]
  /\ state_ = [s \in Ids |-> "kNew"]
  /\ timer = [s \in Ids |-> FALSE]
  /\ answered = [s \in Ids |-> FALSE]
  /\ push_streams_ = [n \in Names |-> None]
  /\ pull_streams_ = [n \in Names |-> None]
  /\ multi_pull_streams_ = [n \in Names |-> [u \in Uids |-> None]]
  /\ slots = {}

Alive(s) == status[s] = "alive"

----------------------------------------------------------------------------
(* The streams a removal deletes: FindXxx(name), then the check of the uid.*)

PushVictims(u, n) == {s \in Ids : s = push_streams_[n] /\ info[s].uid = u}
PullVictims(u, n) == {s \in Ids : s = pull_streams_[n] /\ info[s].uid = u}
PullVictimsM(u, n) == {s \in Ids : n \in slots /\ s = multi_pull_streams_[n][u]}

(* delete stream: ~RtcStream stops the ICE timer and calls pc->Destroy().  *)
(* off: the streams whose timer the caller has stopped already.            *)
DeleteStreams(dead, off) ==
  /\ status' = [s \in Ids |-> IF s \in dead THEN "dying" ELSE status[s]]
  /\ timer' = [s \in Ids |-> timer[s] /\ s \notin dead \cup off]

Erase(map, n, dead) == [map EXCEPT ![n] = IF @ \in dead THEN None ELSE @]

\* Mutant: the map entry survives the stream.
RemovePushStreamKeepsEntry(u, n, off) ==
  /\ DeleteStreams(PushVictims(u, n), off)
  /\ UNCHANGED maps

RemovePushStream(u, n, off) ==
  /\ push_streams_' = Erase(push_streams_, n, PushVictims(u, n))
  /\ DeleteStreams(PushVictims(u, n), off)
  /\ UNCHANGED <<pull_streams_, multi_pull_streams_, slots>>

RemovePullStream(u, n, off) ==
  /\ pull_streams_' = Erase(pull_streams_, n, PullVictims(u, n))
  /\ DeleteStreams(PullVictims(u, n), off)
  /\ UNCHANGED <<push_streams_, multi_pull_streams_, slots>>

(* The outer map without uid u under name n, and the names left in it: an  *)
(* emptied UserStreamMap is erased too.                                    *)
ErasedM(u, n) == [multi_pull_streams_ EXCEPT ![n][u] = None]

SlotsAfterErase(u, n) ==
  IF \A v \in Uids \ {u} : multi_pull_streams_[n][v] = None
  THEN slots \ {n} ELSE slots

RemovePullStreamM(u, n, off) ==
  /\ multi_pull_streams_' = ErasedM(u, n)
  /\ slots' = SlotsAfterErase(u, n)
  /\ DeleteStreams(PullVictimsM(u, n), off)
  /\ UNCHANGED <<push_streams_, pull_streams_>>

----------------------------------------------------------------------------
(* Requests of clients                                                     *)

(* new PushStream/PullStream, Start() which arms the 30 s timer, and the   *)
(* deletion of the streams it replaces.                                    *)
NewStream(i, dead) ==
  /\ created < MaxStreams
  /\ created' = created + 1
  /\ info' = [info EXCEPT ![created + 1] = i]
  /\ status' = [s \in Ids |-> IF s = created + 1 THEN "alive"
                              ELSE IF s \in dead THEN "dying" ELSE status[s]]
  /\ timer' = [s \in Ids |-> s = created + 1 \/ (timer[s] /\ s \notin dead)]
  /\ UNCHANGED <<state_, answered>>

\* Mutant: the old push is replaced only when the same uid pushes again.
CreatePushStreamSameUid(u, n, m) ==
  /\ NewStream([kind |-> "push", uid |-> u, name |-> n, mode |-> m],
               PushVictims(u, n))
  /\ push_streams_' = [push_streams_ EXCEPT ![n] = created + 1]
  /\ UNCHANGED <<pull_streams_, multi_pull_streams_, slots>>

(* Whoever pushed under this name before is replaced.                      *)
CreatePushStream(u, n, m) ==
  /\ NewStream([kind |-> "push", uid |-> u, name |-> n, mode |-> m],
               {s \in Ids : s = push_streams_[n]})
  /\ push_streams_' = [push_streams_ EXCEPT ![n] = created + 1]
  /\ UNCHANGED <<pull_streams_, multi_pull_streams_, slots>>

\* Mutant: AddPullStreamM without the preceding RemovePullStreamM.
CreatePullStreamLiveKeepsOld(u, n) ==
  /\ push_streams_[n] # None
  /\ NewStream([kind |-> "pull", uid |-> u, name |-> n, mode |-> "live"], {})
  /\ multi_pull_streams_' = [multi_pull_streams_ EXCEPT ![n][u] = created + 1]
  /\ slots' = slots \cup {n}
  /\ UNCHANGED <<push_streams_, pull_streams_>>

(* RemovePullStreamM, then AddPullStreamM.                                 *)
CreatePullStreamLive(u, n) ==
  /\ push_streams_[n] # None
  /\ NewStream([kind |-> "pull", uid |-> u, name |-> n, mode |-> "live"],
               PullVictimsM(u, n))
  /\ multi_pull_streams_' = [ErasedM(u, n) EXCEPT ![n][u] = created + 1]
  /\ slots' = SlotsAfterErase(u, n) \cup {n}
  /\ UNCHANGED <<push_streams_, pull_streams_>>

(* RemovePullStream deletes the registered stream only if it has the same  *)
(* uid; the assignment then overwrites the entry in either case.           *)
CreatePullStreamTransparent(u, n) ==
  /\ push_streams_[n] # None
  /\ NewStream([kind |-> "pull", uid |-> u, name |-> n, mode |-> "transparent"],
               PullVictims(u, n))
  /\ pull_streams_' = [pull_streams_ EXCEPT ![n] = created + 1]
  /\ UNCHANGED <<push_streams_, multi_pull_streams_, slots>>

CreatePullStream(u, n, m) ==
  \/ m = "transparent" /\ CreatePullStreamTransparent(u, n)
  \/ m = "live" /\ CreatePullStreamLive(u, n)

(* The stream an ANSWER is for, after the lookup and the check of the uid. *)
AnswerTargets(u, n, type, m) ==
  CASE type = "push" -> PushVictims(u, n)
    [] type = "pull" /\ m = "transparent" -> PullVictims(u, n)
    [] OTHER -> {s \in PullVictimsM(u, n) : info[s].uid = u}

SetAnswer(u, n, type, m) ==
  /\ AnswerTargets(u, n, type, m) # {}
  /\ answered' = [s \in Ids |-> answered[s] \/ s \in AnswerTargets(u, n, type, m)]
  /\ UNCHANGED <<created, info, status, state_, timer, maps>>

StopPush(u, n) ==
  /\ RemovePushStream(u, n, {})
  /\ UNCHANGED <<created, info, state_, answered>>

StopPull(u, n, m) ==
  /\ \/ m = "transparent" /\ RemovePullStream(u, n, {})
     \/ m = "live" /\ RemovePullStreamM(u, n, {})
  /\ UNCHANGED <<created, info, state_, answered>>

----------------------------------------------------------------------------
(* Callbacks of the streams                                                *)

(* The manager's answer to a stream that gave up (OnStreamException, and   *)
(* OnConnectionState with kFailed): it removes by the uid and the name of  *)
(* the stream that calls, not by the stream itself.                        *)
RemoveFailed(s) ==
  LET i == info[s]
  IN  \/ i.kind = "push" /\ RemovePushStream(i.uid, i.name, {s})
      \/ i.kind = "pull" /\ i.mode = "transparent" /\ RemovePullStream(i.uid, i.name, {s})
      \/ i.kind = "pull" /\ i.mode = "live" /\ RemovePullStreamM(i.uid, i.name, {s})

(* The report of a new state other than kFailed; kConnected stops the      *)
(* timer for good.                                                         *)
OnConnectionState(s, st) ==
  /\ Alive(s) /\ st # state_[s] /\ st # "kFailed"
  /\ state_' = [state_ EXCEPT ![s] = st]
  /\ timer' = [timer EXCEPT ![s] = @ /\ st # "kConnected"]
  /\ UNCHANGED <<created, info, status, answered, maps>>

\* Mutant: the manager does not act on kFailed.
OnConnectionFailedIgnored(s) ==
  /\ Alive(s) /\ state_[s] # "kFailed"
  /\ state_' = [state_ EXCEPT ![s] = "kFailed"]
  /\ timer' = [timer EXCEPT ![s] = FALSE]
  /\ UNCHANGED <<created, info, status, answered, maps>>

(* The report of kFailed stops the timer and has the manager remove.       *)
OnConnectionFailed(s) ==
  /\ Alive(s) /\ state_[s] # "kFailed"
  /\ state_' = [state_ EXCEPT ![s] = "kFailed"]
  /\ RemoveFailed(s)
  /\ UNCHANGED <<created, info, answered>>

(* IceTimeoutCb: the one-shot timer of Start() runs out.                   *)
IceTimeout(s) ==
  /\ Alive(s) /\ timer[s] /\ state_[s] # "kConnected"
  /\ RemoveFailed(s)
  /\ UNCHANGED <<created, info, state_, answered>>

(* DestroyTimerCb, 10 ms after the stream: delete pc.  What the model      *)
(* remembers of the deleted objects is dropped.                            *)
DestroyTimer(s) ==
  /\ status[s] = "dying"
  /\ status' = [status EXCEPT ![s] = "gone"]
  /\ info' = [info EXCEPT ![s] = NoInfo]
  /\ state_' = [state_ EXCEPT ![s] = "kNew"]
  /\ answered' = [answered EXCEPT ![s] = FALSE]
  /\ UNCHANGED <<created, timer, maps>>

----------------------------------------------------------------------------
Request ==
  \E u \in Uids, n \in Names :
    \/ StopPush(u, n)
    \/ \E m \in Modes :
         \/ CreatePushStream(u, n, m)
         \/ CreatePullStream(u, n, m)
         \/ StopPull(u, n, m)
         \/ \E type \in {"push", "pull"} : SetAnswer(u, n, type, m)

Callback ==
  \E s \in Ids :
    \/ \E st \in ReportedStates : OnConnectionState(s, st)
    \/ OnConnectionFailed(s)
    \/ IceTimeout(s)
    \/ DestroyTimer(s)

Next == Request \/ Callback

Spec == Init /\ [][Next]_vars

(* Timers of the event loop that are armed fire.                           *)
FairSpec ==
  Spec /\ \A s \in Ids : WF_vars(IceTimeout(s)) /\ WF_vars(DestroyTimer(s))

----------------------------------------------------------------------------
(* Whom a packet received on stream s is handed to                         *)

(* Media of a live-mode push, and its sender reports: every UserStreamMap  *)
(* entry of the name.                                                      *)
OnRtpPacket(s) ==
  {p \in Ids : /\ info[s].kind = "push" /\ info[s].mode = "live"
               /\ \E u \in Uids : p = multi_pull_streams_[info[s].name][u]}

(* RTP and RTCP of a transparent push, RTCP of a transparent pull.         *)
OnRtcpPacketReceived(s) ==
  {p \in Ids : /\ info[s].mode = "transparent"
               /\ \/ info[s].kind = "push" /\ p = pull_streams_[info[s].name]
                  \/ info[s].kind = "pull" /\ p = push_streams_[info[s].name]}

(* The push stream whose cache answers a NACK of a pull stream.            *)
OnNackReceived(s) ==
  {p \in Ids : info[s].kind = "pull" /\ p = push_streams_[info[s].name]}

----------------------------------------------------------------------------
TypeOK ==
  /\ created \in 0 .. MaxStreams
  /\ info \in [Ids -> Info \cup {NoInfo}]
  /\ status \in [Ids -> {"unused", "alive", "dying", "gone"}]
  /\ state_ \in [Ids -> ReportedStates]
  /\ timer \in [Ids -> BOOLEAN]
  /\ answered \in [Ids -> BOOLEAN]
  /\ push_streams_ \in [Names -> Ids \cup {None}]
  /\ pull_streams_ \in [Names -> Ids \cup {None}]
  /\ multi_pull_streams_ \in [Names -> [Uids -> Ids \cup {None}]]
  /\ slots \in SUBSET Names

(* Every pointer in the three maps is to a stream that still exists and    *)
(* that has the kind, name, mode and uid it is filed under: whichever of   *)
(* STOP, replacement, failure and timeout removed a stream, its entry went *)
(* with it.                                                                *)
NoDanglingEntry ==
  \A n \in Names :
    /\ \A s \in Ids : s = push_streams_[n] =>
         Alive(s) /\ info[s].kind = "push" /\ info[s].name = n
    /\ \A s \in Ids : s = pull_streams_[n] =>
         Alive(s) /\ info[s].kind = "pull" /\ info[s].name = n
                  /\ info[s].mode = "transparent"
    /\ \A u \in Uids, s \in Ids : s = multi_pull_streams_[n][u] =>
         Alive(s) /\ info[s] = [kind |-> "pull", uid |-> u, name |-> n, mode |-> "live"]

(* The outer map has an entry exactly for the names somebody pulls in live *)
(* mode; rtc_stream_manager.cpp:199 wants no empty UserStreamMap left.     *)
NoEmptySlot ==
  slots = {n \in Names : \E u \in Uids : multi_pull_streams_[n][u] # None}

Owned(s) ==
  LET i == info[s]
  IN  \/ i.kind = "push" /\ push_streams_[i.name] = s
      \/ i.kind = "pull" /\ i.mode = "live" /\ multi_pull_streams_[i.name][i.uid] = s
      \/ i.kind = "pull" /\ i.mode = "transparent" /\ pull_streams_[i.name] = s

TransparentPull(s) == info[s].kind = "pull" /\ info[s].mode = "transparent"

(* No push stream and no live-mode pull stream is ever leaked: as long as  *)
(* the object exists, its map entry points to it, so STOP, failure and     *)
(* timeout can find it; and no name keeps an empty UserStreamMap.          *)
NoLeak ==
  /\ \A s \in Ids : Alive(s) /\ ~TransparentPull(s) => Owned(s)
  /\ NoEmptySlot

ExistingPulls(n) == {p \in Ids : Alive(p) /\ info[p].kind = "pull" /\ info[p].name = n}
ExistingPushes(n) == {p \in Ids : Alive(p) /\ info[p].kind = "push" /\ info[p].name = n}

(* Fan-out: a packet of a live push reaches every existing live-mode pull  *)
(* stream of that name, whoever created it and however often its uid       *)
(* pulled before, and nobody else; a NACK of any pull stream, also of one  *)
(* older than the push that replaced its source, reaches the one existing  *)
(* push stream of that name; RTCP of a transparent pull, too.              *)
FanOut ==
  \A s \in Ids : Alive(s) =>
    LET n == info[s].name
    IN  /\ info[s].kind = "push" /\ info[s].mode = "live" =>
             OnRtpPacket(s) = {p \in ExistingPulls(n) : info[p].mode = "live"}
        /\ info[s].kind = "pull" => OnNackReceived(s) = ExistingPushes(n)
        /\ TransparentPull(s) => OnRtcpPacketReceived(s) = ExistingPushes(n)

(* A push or live-mode pull stream whose 30 s timer runs either connects   *)
(* or is deleted: nothing that never connected stays in the maps.          *)
UnconnectedIsReaped ==
  \A s \in Ids :
    Alive(s) /\ timer[s] /\ ~TransparentPull(s)
      ~> ~Alive(s) \/ state_[s] = "kConnected"
============================================================================
