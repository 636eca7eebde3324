------------------------ MODULE StreamManagerProofs ------------------------
(***************************************************************************)
(* Proofs about StreamManager for any sets of users and stream names and   *)
(* any number of streams: the three maps own exactly the streams that      *)
(* exist, and packets reach exactly the streams they are meant for.        *)
(***************************************************************************)
EXTENDS StreamManager, TLAPS

(* A stream that has not been created has left no trace, and one that      *)
(* exists knows what it is.                                                *)
Lifecycle ==
  /\ \A s \in Ids : s > created => status[s] = "unused"
  /\ \A s \in Ids : Alive(s) => info[s] \in Info

IInv ==
  /\ TypeOK
  /\ Lifecycle
  /\ NoDanglingEntry
  /\ NoLeak

(* The constructor's empty maps satisfy the invariant.                     *)
LEMMA InitIInv == Init => IInv
  BY StatesAssumption, MaxStreamsAssumption, NoneAssumption
  DEF Init, IInv, TypeOK, Lifecycle, NoDanglingEntry, NoLeak, NoEmptySlot,
      Alive, Ids, NoInfo

(* A push stream replaces the one before it.                               *)
LEMMA CreatePushIInv ==
  ASSUME IInv, NEW u \in Uids, NEW n \in Names, NEW m \in Modes,
         CreatePushStream(u, n, m)
  PROVE  IInv'
  <1> DEFINE new == created + 1
             i == [kind |-> "push", uid |-> u, name |-> n, mode |-> m]
  <1> USE MaxStreamsAssumption, NoneAssumption, ModesAssumption
  <1>1. /\ new \in Ids /\ i \in Info
        /\ created' = new
        /\ info' = [info EXCEPT ![new] = i]
        /\ push_streams_' = [push_streams_ EXCEPT ![n] = new]
        /\ UNCHANGED <<state_, answered, pull_streams_, multi_pull_streams_, slots>>
        /\ status[new] = "unused"
    BY DEF CreatePushStream, NewStream, IInv, TypeOK, Lifecycle, Ids, Info
  <1>2. /\ status' = [s \in Ids |-> IF s = new THEN "alive"
                        ELSE IF s = push_streams_[n] THEN "dying" ELSE status[s]]
        /\ timer' = [s \in Ids |-> s = new \/ (timer[s] /\ s # push_streams_[n])]
    BY DEF CreatePushStream, NewStream
  <1> HIDE DEF new, i
  <1>3. TypeOK'
    BY <1>1, <1>2 DEF IInv, TypeOK, Ids
  <1>4. Lifecycle'
    BY <1>1, <1>2 DEF IInv, TypeOK, Lifecycle, NoDanglingEntry, Alive, Ids, new
  <1>5. NoDanglingEntry'
    BY <1>1, <1>2 DEF IInv, TypeOK, NoDanglingEntry, Alive, i
  <1>6. NoLeak'
    BY <1>1, <1>2 DEF IInv, TypeOK, Lifecycle, NoDanglingEntry, NoLeak, NoEmptySlot,
       Owned, TransparentPull, Alive, i
  <1> QED BY <1>3, <1>4, <1>5, <1>6 DEF IInv

(* A live-mode pull replaces the one of the same user.                     *)
LEMMA CreatePullLiveIInv ==
  ASSUME IInv, NEW u \in Uids, NEW n \in Names, "live" \in Modes,
         CreatePullStreamLive(u, n)
  PROVE  IInv'
  <1> DEFINE new == created + 1
             i == [kind |-> "pull", uid |-> u, name |-> n, mode |-> "live"]
  <1> USE MaxStreamsAssumption, NoneAssumption
  <1>1. /\ new \in Ids /\ i \in Info
        /\ created' = new
        /\ info' = [info EXCEPT ![new] = i]
        /\ UNCHANGED <<state_, answered, push_streams_, pull_streams_>>
        /\ status[new] = "unused"
    BY DEF CreatePullStreamLive, NewStream, IInv, TypeOK, Lifecycle, Ids, Info
  <1>2. /\ status' = [s \in Ids |-> IF s = new THEN "alive"
                        ELSE IF s = multi_pull_streams_[n][u] THEN "dying" ELSE status[s]]
        /\ timer' = [s \in Ids |-> s = new \/ (timer[s] /\ s # multi_pull_streams_[n][u])]
    BY DEF CreatePullStreamLive, NewStream, PullVictimsM, IInv, TypeOK, NoLeak,
           NoEmptySlot, Ids
  <1>3. /\ multi_pull_streams_' = [multi_pull_streams_ EXCEPT ![n][u] = new]
        /\ slots' = slots \cup {n}
    BY DEF CreatePullStreamLive, ErasedM, SlotsAfterErase, IInv, TypeOK
  <1> HIDE DEF new, i
  <1>4. TypeOK'
    BY <1>1, <1>2, <1>3 DEF IInv, TypeOK, Ids
  <1>5. Lifecycle'
    BY <1>1, <1>2, SMTT(30) DEF IInv, TypeOK, Lifecycle, NoDanglingEntry, Alive, Ids, new
  <1>6. NoDanglingEntry'
    BY <1>1, <1>2, <1>3 DEF IInv, TypeOK, NoDanglingEntry, Alive, i
  <1>7. NoEmptySlot'
    BY <1>1, <1>3 DEF IInv, TypeOK, NoLeak, NoEmptySlot, Ids
  <1>8. NoLeak'
    BY <1>1, <1>2, <1>3, <1>7 DEF IInv, TypeOK, Lifecycle, NoDanglingEntry, NoLeak,
       Owned, TransparentPull, Alive, i
  <1> QED BY <1>4, <1>5, <1>6, <1>8 DEF IInv

(* A transparent pull takes over the entry of its name; a stream of        *)
(* another user that was filed there goes on without an entry.             *)
LEMMA CreatePullTransparentIInv ==
  ASSUME IInv, NEW u \in Uids, NEW n \in Names, "transparent" \in Modes,
         CreatePullStreamTransparent(u, n)
  PROVE  IInv'
  <1> DEFINE new == created + 1
             i == [kind |-> "pull", uid |-> u, name |-> n, mode |-> "transparent"]
             dead == PullVictims(u, n)
  <1> USE MaxStreamsAssumption, NoneAssumption
  <1>1. /\ new \in Ids /\ i \in Info
        /\ created' = new
        /\ info' = [info EXCEPT ![new] = i]
        /\ pull_streams_' = [pull_streams_ EXCEPT ![n] = new]
        /\ UNCHANGED <<state_, answered, push_streams_, multi_pull_streams_, slots>>
        /\ status[new] = "unused"
    BY DEF CreatePullStreamTransparent, NewStream, IInv, TypeOK, Lifecycle, Ids, Info
  <1>2. /\ status' = [s \in Ids |-> IF s = new THEN "alive"
                        ELSE IF s \in dead THEN "dying" ELSE status[s]]
        /\ timer' = [s \in Ids |-> s = new \/ (timer[s] /\ s \notin dead)]
        /\ dead \subseteq {s \in Ids : s = pull_streams_[n]}
    BY DEF CreatePullStreamTransparent, NewStream, PullVictims
  <1> HIDE DEF new, i, dead
  <1>3. TypeOK'
    BY <1>1, <1>2 DEF IInv, TypeOK, Ids
  <1>4. Lifecycle'
    BY <1>1, <1>2 DEF IInv, TypeOK, Lifecycle, NoDanglingEntry, Alive, Ids, new
  <1>5. NoDanglingEntry'
    BY <1>1, <1>2 DEF IInv, TypeOK, NoDanglingEntry, Alive, i
  <1>6. NoLeak'
    BY <1>1, <1>2 DEF IInv, TypeOK, Lifecycle, NoDanglingEntry, NoLeak, NoEmptySlot,
       Owned, TransparentPull, Alive, i
  <1> QED BY <1>3, <1>4, <1>5, <1>6 DEF IInv

(* The removal of a stream, whoever asks for it, takes its entry with it.  *)
LEMMA RemovePushIInv ==
  ASSUME IInv, NEW u \in Uids, NEW n \in Names, NEW off,
         RemovePushStream(u, n, off), UNCHANGED <<created, info, answered>>,
         state_' \in [Ids -> ReportedStates]
  PROVE  IInv'
  <1> USE MaxStreamsAssumption, NoneAssumption
  <1>1. TypeOK'
    BY DEF RemovePushStream, Erase, DeleteStreams, IInv, TypeOK
  <1>2. Lifecycle'
    BY DEF RemovePushStream, DeleteStreams, PushVictims, IInv, TypeOK, Lifecycle,
           NoDanglingEntry, Alive, Ids
  <1>3. NoDanglingEntry'
    BY DEF RemovePushStream, Erase, DeleteStreams, PushVictims, IInv, TypeOK,
           NoDanglingEntry, Alive, Ids
  <1>4. NoLeak'
    BY DEF RemovePushStream, Erase, DeleteStreams, PushVictims, IInv, TypeOK,
           Lifecycle, NoDanglingEntry, NoLeak, NoEmptySlot, Owned, TransparentPull,
           Alive, Ids
  <1> QED BY <1>1, <1>2, <1>3, <1>4 DEF IInv

(* The same for a transparent pull stream.                                 *)
LEMMA RemovePullIInv ==
  ASSUME IInv, NEW u \in Uids, NEW n \in Names, NEW off,
         RemovePullStream(u, n, off), UNCHANGED <<created, info, answered>>,
         state_' \in [Ids -> ReportedStates]
  PROVE  IInv'
  <1> USE MaxStreamsAssumption, NoneAssumption
  <1>1. TypeOK'
    BY DEF RemovePullStream, Erase, DeleteStreams, IInv, TypeOK
  <1>2. Lifecycle'
    BY DEF RemovePullStream, DeleteStreams, PullVictims, IInv, TypeOK, Lifecycle,
           NoDanglingEntry, Alive, Ids
  <1>3. NoDanglingEntry'
    BY DEF RemovePullStream, Erase, DeleteStreams, PullVictims, IInv, TypeOK,
           NoDanglingEntry, Alive, Ids
  <1>4. NoLeak'
    BY DEF RemovePullStream, Erase, DeleteStreams, PullVictims, IInv, TypeOK,
           Lifecycle, NoDanglingEntry, NoLeak, NoEmptySlot, Owned, TransparentPull,
           Alive, Ids
  <1> QED BY <1>1, <1>2, <1>3, <1>4 DEF IInv

(* The same for a live pull stream, whose map goes with its last entry.    *)
LEMMA RemovePullMIInv ==
  ASSUME IInv, NEW u \in Uids, NEW n \in Names, NEW off,
         RemovePullStreamM(u, n, off), UNCHANGED <<created, info, answered>>,
         state_' \in [Ids -> ReportedStates]
  PROVE  IInv'
  <1> USE MaxStreamsAssumption, NoneAssumption
  <1>1. /\ multi_pull_streams_' = [multi_pull_streams_ EXCEPT ![n][u] = None]
        /\ status' = [s \in Ids |-> IF s = multi_pull_streams_[n][u] THEN "dying"
                                    ELSE status[s]]
        /\ UNCHANGED <<push_streams_, pull_streams_>>
    BY DEF RemovePullStreamM, ErasedM, DeleteStreams, PullVictimsM, IInv, TypeOK,
           NoLeak, NoEmptySlot, Ids
  <1>2. TypeOK'
    BY <1>1 DEF RemovePullStreamM, SlotsAfterErase, DeleteStreams, IInv, TypeOK
  <1>3. Lifecycle'
    <2>1. \A s \in Ids : s = multi_pull_streams_[n][u] => Alive(s)
      BY DEF IInv, TypeOK, NoDanglingEntry, Alive
    <2> QED BY <1>1, <2>1 DEF IInv, TypeOK, Lifecycle, Alive, Ids
  <1>4. NoDanglingEntry'
    <2>1. \A k \in Names, v \in Uids, s \in Ids :
            s = multi_pull_streams_'[k][v] => s = multi_pull_streams_[k][v] /\ ~(k = n /\ v = u)
      BY <1>1 DEF IInv, TypeOK, Ids
    <2>2. \A s \in Ids : s = multi_pull_streams_[n][u] =>
            info[s] = [kind |-> "pull", uid |-> u, name |-> n, mode |-> "live"]
      BY DEF IInv, NoDanglingEntry
    <2> QED BY <1>1, <2>1, <2>2 DEF IInv, TypeOK, NoDanglingEntry, Alive
  <1>5. NoEmptySlot'
    BY <1>1 DEF RemovePullStreamM, SlotsAfterErase, IInv, TypeOK, NoLeak, NoEmptySlot, Ids
  <1>6. NoLeak'
    BY <1>1, <1>5 DEF IInv, TypeOK, Lifecycle, NoDanglingEntry, NoLeak, Owned,
           TransparentPull, Alive, Ids
  <1> QED BY <1>2, <1>3, <1>4, <1>6 DEF IInv

(* The manager's answer to a stream that gave up.                          *)
LEMMA RemoveFailedIInv ==
  ASSUME IInv, NEW s \in Ids, Alive(s), RemoveFailed(s),
         UNCHANGED <<created, info, answered>>, state_' \in [Ids -> ReportedStates]
  PROVE  IInv'
  <1>1. info[s].uid \in Uids /\ info[s].name \in Names
    BY DEF IInv, Lifecycle, Info
  <1> QED BY <1>1, RemovePushIInv, RemovePullIInv, RemovePullMIInv DEF RemoveFailed

(* Every request keeps the invariant.                                      *)
LEMMA RequestIInv == ASSUME IInv, Request PROVE IInv'
  <1>1. PICK u \in Uids, n \in Names :
          \/ StopPush(u, n)
          \/ \E m \in Modes :
               \/ CreatePushStream(u, n, m)
               \/ CreatePullStream(u, n, m)
               \/ StopPull(u, n, m)
               \/ \E type \in {"push", "pull"} : SetAnswer(u, n, type, m)
    BY DEF Request
  <1>2. CASE StopPush(u, n)
    BY <1>2, RemovePushIInv DEF StopPush, IInv, TypeOK
  <1>3. ASSUME NEW m \in Modes, CreatePushStream(u, n, m) PROVE IInv'
    BY <1>3, CreatePushIInv
  <1>4. ASSUME NEW m \in Modes, CreatePullStream(u, n, m) PROVE IInv'
    BY <1>4, CreatePullLiveIInv, CreatePullTransparentIInv DEF CreatePullStream
  <1>5. ASSUME NEW m \in Modes, StopPull(u, n, m) PROVE IInv'
    BY <1>5, RemovePullIInv, RemovePullMIInv DEF StopPull, IInv, TypeOK
  <1>6. ASSUME NEW m \in Modes, NEW type, SetAnswer(u, n, type, m) PROVE IInv'
    BY <1>6 DEF SetAnswer, maps, IInv, TypeOK, Lifecycle, NoDanglingEntry, NoLeak,
       NoEmptySlot, Owned, TransparentPull, Alive
  <1> QED BY <1>1, <1>2, <1>3, <1>4, <1>5, <1>6

(* Every callback of a stream and every timer keeps the invariant.         *)
LEMMA CallbackIInv == ASSUME IInv, Callback PROVE IInv'
  <1> USE MaxStreamsAssumption, NoneAssumption, StatesAssumption
  <1>1. PICK s \in Ids :
          \/ \E st \in ReportedStates : OnConnectionState(s, st)
          \/ OnConnectionFailed(s)
          \/ IceTimeout(s)
          \/ DestroyTimer(s)
    BY DEF Callback
  <1>2. ASSUME NEW st \in ReportedStates, OnConnectionState(s, st) PROVE IInv'
    BY <1>2 DEF OnConnectionState, maps, IInv, TypeOK, Lifecycle, NoDanglingEntry,
       NoLeak, NoEmptySlot, Owned, TransparentPull, Alive
  <1>3. CASE OnConnectionFailed(s)
    BY <1>3, RemoveFailedIInv DEF OnConnectionFailed, IInv, TypeOK
  <1>4. CASE IceTimeout(s)
    BY <1>4, RemoveFailedIInv DEF IceTimeout, IInv, TypeOK
  <1>5. CASE DestroyTimer(s)
    BY <1>5 DEF DestroyTimer, maps, IInv, TypeOK, Lifecycle, NoDanglingEntry, NoLeak,
       NoEmptySlot, Owned, TransparentPull, Alive, NoInfo, Ids
  <1> QED BY <1>1, <1>2, <1>3, <1>4, <1>5

(* The inductive invariant holds of every reachable state.                 *)
THEOREM Invariance == Spec => []IInv
  <1>1. IInv /\ [Next]_vars => IInv'
    <2> SUFFICES ASSUME IInv, [Next]_vars PROVE IInv'
      OBVIOUS
    <2>1. CASE UNCHANGED vars
      BY <2>1 DEF vars, maps, IInv, TypeOK, Lifecycle, NoDanglingEntry, NoLeak,
         NoEmptySlot, Owned, TransparentPull, Alive
    <2> QED BY <2>1, RequestIInv, CallbackIInv DEF Next
  <1> QED BY <1>1, InitIInv, PTL DEF Spec

(* Every pointer in push_streams_, pull_streams_ and multi_pull_streams_   *)
(* is to an existing stream with the kind, name, mode and uid it is filed  *)
(* under.                                                                  *)
THEOREM EntriesDoNotDangle == Spec => []NoDanglingEntry
  BY Invariance, PTL DEF IInv

(* No push stream and no live-mode pull stream loses its map entry, and no *)
(* empty UserStreamMap is left.                                            *)
THEOREM StreamsDoNotLeak == Spec => []NoLeak
  BY Invariance, PTL DEF IInv

(* OnRtpPacket, OnNackReceived and OnRtcpPacketReceived reach exactly the  *)
(* existing streams of the name.                                           *)
THEOREM FanOutIsExact == Spec => []FanOut
  <1>1. IInv => FanOut
    <2> SUFFICES ASSUME IInv, NEW s \in Ids, Alive(s)
                 PROVE  LET n == info[s].name
                        IN  /\ info[s].kind = "push" /\ info[s].mode = "live" =>
                                 OnRtpPacket(s) = {p \in ExistingPulls(n) : info[p].mode = "live"}
                            /\ info[s].kind = "pull" => OnNackReceived(s) = ExistingPushes(n)
                            /\ TransparentPull(s) => OnRtcpPacketReceived(s) = ExistingPushes(n)
      BY DEF FanOut
    <2>1. info[s].name \in Names
      BY DEF IInv, Lifecycle, Info
    <2>2. \A p \in Ids : Alive(p) => info[p].uid \in Uids
      BY DEF IInv, Lifecycle, Info
    <2> DEFINE n == info[s].name
    <2>3. ASSUME info[s].kind = "push", info[s].mode = "live"
          PROVE  OnRtpPacket(s) = {p \in ExistingPulls(n) : info[p].mode = "live"}
      <3>1. OnRtpPacket(s) = {p \in Ids : \E u \in Uids : p = multi_pull_streams_[n][u]}
        BY <2>3 DEF OnRtpPacket
      <3>2. ASSUME NEW p \in Ids, NEW u \in Uids, p = multi_pull_streams_[n][u]
            PROVE  Alive(p) /\ info[p].kind = "pull" /\ info[p].name = n /\ info[p].mode = "live"
        BY <2>1, <3>2 DEF IInv, TypeOK, NoDanglingEntry, Alive
      <3>3. ASSUME NEW p \in Ids, Alive(p), info[p].kind = "pull", info[p].name = n,
                   info[p].mode = "live"
            PROVE  \E u \in Uids : p = multi_pull_streams_[n][u]
        BY <2>2, <3>3 DEF IInv, NoLeak, Owned, TransparentPull
      <3> QED BY <3>1, <3>2, <3>3 DEF ExistingPulls
    <2>4. {p \in Ids : p = push_streams_[n]} = ExistingPushes(n)
      BY <2>1 DEF IInv, NoDanglingEntry, NoLeak, Owned, TransparentPull, ExistingPushes
    <2>5. info[s].kind = "pull" => OnNackReceived(s) = ExistingPushes(n)
      BY <2>4 DEF OnNackReceived
    <2>6. TransparentPull(s) => OnRtcpPacketReceived(s) = ExistingPushes(n)
      BY <2>4 DEF OnRtcpPacketReceived, TransparentPull
    <2> QED BY <2>3, <2>5, <2>6
  <1> QED BY <1>1, Invariance, PTL
=============================================================================
