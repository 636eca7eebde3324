----------------------------- MODULE IceChannel -----------------------------
(***************************************************************************)
(* ice/: the ICE-lite side of one transport channel.  A UDP port creates a *)
(* connection for every remote address that sends a valid binding request; *)
(* the channel pings the connections, selects the one to send on and       *)
(* derives its own state from them (ice_transport_channel.cpp,             *)
(* ice_controller.cpp, ice_connection.cpp, udp_port.cpp,                   *)
(* stun_request.cpp).                                                      *)
(*                                                                         *)
(* UDPPort::connections_ is never erased from, so an address gets at most  *)
(* one connection in the life of a channel, the branch of CreateConnection *)
(* that replaces one is not reachable, and an address names its connection.*)
(* A second port of the same channel is a second set of addresses.         *)
(*                                                                         *)
(* Time is counted in ticks of 2500 ms, longer than every ping interval    *)
(* and than twice every RTT; a moment t is kept as its age now - t, up to  *)
(* the largest age the code tells apart.                                   *)
(*                                                                         *)
(* The code goes on using connections that it deleted.  Their memory still *)
(* holds what it held or it does not: a step that touches a freed          *)
(* connection reads its last contents, or sets wild, which stands for      *)
(* every other outcome and ends the behaviour.                             *)
(***************************************************************************)
EXTENDS Integers, Sequences, SequencesExt, FiniteSetsExt

CONSTANTS
  Addrs,             \* remote addresses
  Priority,          \* IceConnection::priority() of the connection at an address
  Rtts,              \* round-trip times, in units of kMinImprovement
  InitialRtt,        \* rtt_ before the first sample
  ReceivingTimeout,  \* WEAK_CONNECTION_RECEIVE_TIMEOUT
  ConnectFails, ConnectTimeout,  \* CONNECTION_WRITE_CONNECT_FAILS, _TIMEOUT
  WriteTimeout,      \* CONNECTION_WRITE_TIMEOUT
  MaxOpen,           \* bound: requests whose response can still arrive
  NoConnection

ASSUME AddrsAssumption == NoConnection \notin Addrs /\ Priority \in [Addrs -> Nat]
ASSUME RttsAssumption == InitialRtt \in Nat /\ Rtts \subseteq 0 .. InitialRtt - 1
ASSUME TimeoutAssumption ==
  /\ {ReceivingTimeout, ConnectFails, MaxOpen} \subseteq Nat \ {0}
  /\ ConnectTimeout \in Nat /\ WriteTimeout \in Nat /\ ConnectTimeout < WriteTimeout

\* IceConnection::WriteState
Writable == 0
Unreliable == 1
WriteInit == 2
TimedOut == 3

Ages == 0 .. WriteTimeout + 1

Connection ==
  [life : {"none", "live", "freed"},
   password : BOOLEAN,  \* its remote password is known
   write : Writable .. TimedOut,
   receiving : BOOLEAN,
   heard : 0 .. ReceivingTimeout,  \* age of last_received()
   answered : BOOLEAN,  \* last_ping_sent_ < last_ping_response_received_
   idle : 0 .. 1,       \* age of last_ping_sent_
   pings : BoundedSeq(Ages, ConnectFails),  \* pings_since_last_response_
   open : 0 .. MaxOpen, \* size of requests_
   rtt : Rtts \cup {InitialRtt}]  \* InitialRtt until rtt_samples_ > 0

VARIABLES
  conn,    \* the connections, by address
  ch,      \* the channel and its controller
  remote,  \* the remote ICE parameters are known
  silent,  \* the peer has stopped sending for good
  fired,   \* the ping timer has come due since the last tick
  wild     \* an undefined step had an outcome other than the usual one

iceVars == <<conn, ch, remote, silent, fired, wild>>

NewConnection ==
  [life |-> "none", password |-> FALSE, write |-> WriteInit,
   receiving |-> FALSE, heard |-> ReceivingTimeout, answered |-> FALSE, idle |-> 1,
   pings |-> <<>>, open |-> 0, rtt |-> InitialRtt]

IceInit ==
  /\ conn = [a \in Addrs |-> NewConnection]
  /\ ch = [connections |-> <<>>, unpinged |-> {}, pinged |-> {},
           ctlSelected |-> NoConnection,  \* IceController::selected_connection_
           selected |-> NoConnection,     \* IceTransportChannel::selected_connection_
           had |-> FALSE, hasBeen |-> FALSE, writable |-> FALSE, receiving |-> FALSE,
           state |-> "kNew", pinging |-> FALSE]
  /\ remote = FALSE
  /\ silent = FALSE
  /\ fired = FALSE
  /\ wild = FALSE

Freed(a) == a # NoConnection /\ conn[a].life = "freed"

-----------------------------------------------------------------------------
(***************************************************************************)
(* Callbacks run inside one handler, so they are functions on the pair     *)
(* s = [conn, ch].                                                         *)
(***************************************************************************)
ReadyToSend(s, a) == a # NoConnection /\ s.conn[a].write \in {Writable, Unreliable}

\* CompareConnections, then the RTT, then the old position (a stable sort).
Better(s, a, b) ==
  LET x == s.conn[a]
      y == s.conn[b]
  IN  \/ x.write < y.write
      \/ x.write = y.write /\ x.receiving /\ ~y.receiving
      \/ /\ x.write = y.write /\ x.receiving = y.receiving
         /\ \/ Priority[a] > Priority[b]
            \/ Priority[a] = Priority[b] /\ x.rtt < y.rtt

\* absl::c_stable_sort
Sorted(s) ==
  LET list == s.ch.connections
      Before(i, j) == \/ Better(s, list[i], list[j])
                      \/ ~Better(s, list[j], list[i]) /\ i < j
      order == CHOOSE p \in [DOMAIN list -> DOMAIN list] :
                 \A i, j \in DOMAIN list : i < j => Before(p[i], p[j])
  IN  [i \in DOMAIN list |-> list[order[i]]]

\* Mutant: any better round trip switches, without kMinImprovement.
SortAndSwitchEager(s) ==
  LET top == IF s.ch.connections = <<>> THEN NoConnection ELSE s.ch.connections[1]
      sel == s.ch.ctlSelected
  IN  IF ReadyToSend(s, top) /\ sel # top /\ (sel = NoConnection \/ s.conn[top].rtt <= s.conn[sel].rtt)
      THEN top ELSE NoConnection

\* The connection to switch to, or NoConnection.
SortAndSwitchConnection(s) ==
  LET top == IF s.ch.connections = <<>> THEN NoConnection ELSE s.ch.connections[1]
      sel == s.ch.ctlSelected
  IN  IF /\ ReadyToSend(s, top)
         /\ sel # top
         /\ sel = NoConnection \/ s.conn[top].rtt <= s.conn[sel].rtt - 1
      THEN top ELSE NoConnection

SwitchSelectedConnection(s, a) ==
  [s EXCEPT !.ch.selected = a, !.ch.ctlSelected = IF a = NoConnection THEN @ ELSE a]

ComputeState(s, writable, hasBeen) ==
  LET active == \E a \in ToSet(s.ch.connections) : s.conn[a].write # TimedOut
  IN  IF s.ch.had /\ ~active THEN "kFailed"
      ELSE IF hasBeen /\ ~writable THEN "kDisconnected"
      ELSE IF ~active THEN "kNew"
      ELSE IF ~writable THEN "kChecking"
      ELSE "kConnected"

UpdateChannelState(s) ==
  LET writable == s.ch.selected # NoConnection /\ s.conn[s.ch.selected].write = Writable
      hasBeen == s.ch.hasBeen \/ writable
  IN  [s EXCEPT !.ch.writable = writable,
                !.ch.hasBeen = hasBeen,
                !.ch.receiving = \E a \in ToSet(s.ch.connections) : s.conn[a].receiving,
                !.ch.state = ComputeState(s, writable, hasBeen)]

\* Nothing has been pinged before, so no ping interval stands in the way.
MaybeStartPinging(s) ==
  [s EXCEPT !.ch.pinging = @ \/ \E a \in ToSet(s.ch.connections) : s.conn[a].password]

SortConnectionsAndUpdateState(s) ==
  LET sorted == [s EXCEPT !.ch.connections = Sorted(s)]
      top == SortAndSwitchConnection(sorted)
      switched == IF top = NoConnection THEN sorted ELSE SwitchSelectedConnection(sorted, top)
  IN  MaybeStartPinging(UpdateChannelState(switched))

\* Mutants: the state is recomputed only for the selected connection; the
\* selected connection is kept.
DestroyedSilently(s, a) ==
  LET gone == [s EXCEPT !.ch.pinged = @ \ {a}, !.ch.unpinged = @ \ {a},
                        !.ch.connections = RemoveFirst(@, a)]
  IN  IF s.ch.selected = a
      THEN SortConnectionsAndUpdateState(SwitchSelectedConnection(gone, NoConnection))
      ELSE gone

DestroyedStillSelected(s, a) ==
  UpdateChannelState([s EXCEPT !.ch.pinged = @ \ {a}, !.ch.unpinged = @ \ {a},
                               !.ch.connections = RemoveFirst(@, a)])

OnConnectionDestroyed(s, a) ==
  LET gone == [s EXCEPT !.ch.pinged = @ \ {a}, !.ch.unpinged = @ \ {a},
                        !.ch.connections = RemoveFirst(@, a)]
  IN  IF s.ch.selected = a
      THEN SortConnectionsAndUpdateState(SwitchSelectedConnection(gone, NoConnection))
      ELSE UpdateChannelState(gone)

\* Of a freed connection nothing below reads more than is kept here.
FailAndDestroy(s, a) ==
  [OnConnectionDestroyed(s, a) EXCEPT
     !.conn[a] = [@ EXCEPT !.life = "freed", !.heard = ReceivingTimeout, !.answered = FALSE,
                           !.pings = <<>>, !.open = 0]]

UpdateReceiving(s, a) ==
  LET c == s.conn[a]
      receiving == c.answered \/ c.heard < ReceivingTimeout
      next == [s EXCEPT !.conn[a].receiving = receiving]
  IN  IF receiving = c.receiving THEN s ELSE SortConnectionsAndUpdateState(next)

SetWriteState(s, a, state) ==
  LET next == [s EXCEPT !.conn[a].write = state]
  IN  IF s.conn[a].write = state THEN s ELSE SortConnectionsAndUpdateState(next)

-----------------------------------------------------------------------------
\* What the timer does to one connection, IceConnection::UpdateState.
TooLongWithoutResponse(c, age) == c.pings # <<>> /\ c.pings[1] > age

TooManyPingFails(c) == Len(c.pings) >= ConnectFails /\ c.pings[ConnectFails] >= 1

Unwritable(c) ==
  c.write = Writable /\ TooManyPingFails(c) /\ TooLongWithoutResponse(c, ConnectTimeout)

\* Mutant: a connection that never answered does not expire.
ExpiredOnceWritable(c) == c.write = Unreliable /\ TooLongWithoutResponse(c, WriteTimeout)

Expired(c) ==
  c.write \in {Unreliable, WriteInit} /\ TooLongWithoutResponse(c, WriteTimeout)

\* A connection that expires is deleted, and UpdateReceiving then reads it.
ConnectionUpdateState(s, a) ==
  LET down == IF Unwritable(s.conn[a]) THEN SetWriteState(s, a, Unreliable) ELSE s
  IN  IF Expired(down.conn[a])
      THEN FailAndDestroy(SetWriteState(down, a, TimedOut), a)
      ELSE UpdateReceiving(down, a)

\* The loop runs over a copy of the list, one connection after the other.
UpdateConnectionStates(s) ==
  LET list == s.ch.connections
      after[i \in 0 .. Len(list)] ==
        IF i = 0 THEN s ELSE ConnectionUpdateState(after[i - 1], list[i])
  IN  after[Len(list)]

-----------------------------------------------------------------------------
\* due: the connections whose ping interval has passed.
Weak(s) ==
  LET sel == s.ch.ctlSelected
  IN  sel = NoConnection \/ ~(s.conn[sel].write = Writable /\ s.conn[sel].receiving)

IsPingable(s, a, due) == s.conn[a].password /\ (Weak(s) \/ a \in due)

\* The unpinged connections; all of them again if none of those can be pinged.
Round(s, due) ==
  IF \E a \in s.ch.unpinged : IsPingable(s, a, due) THEN s
  ELSE [s EXCEPT !.ch.unpinged = @ \cup s.ch.pinged, !.ch.pinged = {}]

SelectedFirst(s, due) ==
  LET sel == s.ch.ctlSelected
  IN  sel # NoConnection /\ s.conn[sel].write = Writable /\ sel \in due

\* Candidates of a round: pingable, and no other was pinged longer ago.
NextPingable(s, due) ==
  LET can == {a \in s.ch.unpinged : IsPingable(s, a, due)}
  IN  {a \in can : \A b \in can : s.conn[b].idle <= s.conn[a].idle}

Ping(s, a) ==
  [s EXCEPT !.conn[a].idle = 0, !.conn[a].answered = FALSE,
            !.conn[a].pings = IF Len(@) < ConnectFails THEN Append(@, 0) ELSE @,
            !.conn[a].open = Min({@ + 1, MaxOpen})]

MarkConnectionPinged(s, a) ==
  [s EXCEPT !.ch.pinged = @ \cup {a},
            !.ch.unpinged = IF a \in s.ch.pinged THEN @ ELSE @ \ {a}]

PingAndMark(s, a) == MarkConnectionPinged(Ping(s, a), a)

-----------------------------------------------------------------------------
(***************************************************************************)
(* The handlers.                                                           *)
(***************************************************************************)
Now == [conn |-> conn, ch |-> ch]

Becomes(s) == conn' = s.conn /\ ch' = s.ch

\* The step touches freed memory if some connection it uses is freed.
Touches(freed) == IF freed THEN wild' \in BOOLEAN ELSE wild' = wild

DanglingController == Freed(ch.ctlSelected) \/ \E a \in ch.unpinged \cup ch.pinged : Freed(a)

\* same: the connections created by requests with the ufrag that is set now.
SetRemoteIceParams(same) ==
  /\ ~remote
  /\ same \subseteq ToSet(ch.connections)
  /\ remote' = TRUE
  /\ LET s == [Now EXCEPT !.conn = [a \in Addrs |->
                 [conn[a] EXCEPT !.password = @ \/ a \in same]]]
     IN  Becomes(SortConnectionsAndUpdateState(s))
  /\ Touches(DanglingController)
  /\ UNCHANGED <<silent, fired>>

\* A binding request from an address without a connection.
OnUnknownAddress(a) ==
  /\ conn[a].life = "none"
  /\ LET c == [NewConnection EXCEPT !.life = "live", !.password = remote]
         s == [conn |-> [conn EXCEPT ![a] = c],
               ch |-> [ch EXCEPT !.had = TRUE,
                                 !.connections = Append(@, a), !.unpinged = @ \cup {a}]]
     IN  Becomes(SortConnectionsAndUpdateState(s))
  /\ Touches(DanglingController)
  /\ UNCHANGED <<remote, silent, fired>>

\* Media or DTLS, or a binding request with the connection's own user name.
OnReadPacket(a) ==
  /\ conn[a].life = "live"
  /\ conn' = [conn EXCEPT ![a].heard = 0]
  /\ UNCHANGED <<ch, remote, silent, fired, wild>>

\* Any packet from an address whose connection was deleted.
OnReadPacketFreed(a) ==
  /\ Freed(a)
  /\ Touches(TRUE)
  /\ UNCHANGED <<conn, ch, remote, silent, fired>>

NextRtts(c, sample) ==
  IF c.rtt # InitialRtt THEN {r \in Rtts : r \in Min({c.rtt, sample}) .. Max({c.rtt, sample})}
  ELSE {sample}

OnConnectionRequestResponse(a, sample) ==
  /\ conn[a].life = "live"
  /\ conn[a].open > 0
  /\ \E rtt \in NextRtts(conn[a], sample) :
       LET s == [Now EXCEPT !.conn[a] = [@ EXCEPT !.rtt = rtt, !.heard = 0, !.answered = TRUE,
                                                  !.pings = <<>>,
                                                  !.open = conn[a].open - 1]]
       IN  Becomes(SetWriteState(UpdateReceiving(s, a), a, Writable))
  /\ Touches(DanglingController)
  /\ UNCHANGED <<remote, silent, fired>>

\* UNAUTHORIZED, UNKNOWN_ATTRIBUTE and SERVER_ERROR: a later ping may succeed.
OnRetryableError(a) ==
  /\ conn[a].life = "live"
  /\ conn[a].open > 0
  /\ conn' = [conn EXCEPT ![a].open = @ - 1]
  /\ UNCHANGED <<ch, remote, silent, fired, wild>>

\* Any other error.  Deleting the connection deletes the request, which
\* CheckResponse then deletes again.
OnFatalError(a) ==
  /\ conn[a].life = "live"
  /\ conn[a].open > 0
  /\ Becomes(FailAndDestroy(Now, a))
  /\ Touches(TRUE)
  /\ UNCHANGED <<remote, silent, fired>>

\* due is any set that has every connection last pinged a tick or more ago.
Dues == {d \in SUBSET Addrs : {a \in Addrs : conn[a].idle = 1} \subseteq d}

OnCheckAndPing(due) ==
  /\ ch.pinging
  /\ LET s == UpdateConnectionStates(Now)
         t == Round(s, due)
         next == NextPingable(t, due)
     IN  /\ \/ SelectedFirst(s, due) /\ Becomes(PingAndMark(s, s.ch.ctlSelected))
            \/ /\ ~SelectedFirst(s, due)
               /\ \/ next = {} /\ Becomes(t)
                  \/ \E a \in next : Becomes(PingAndMark(t, a))
         /\ Touches(DanglingController \/ Len(s.ch.connections) # Len(ch.connections))
  /\ fired' = TRUE
  /\ UNCHANGED <<remote, silent>>

\* The timer fires before the ping interval has passed.
OnCheckOnly ==
  /\ ch.pinging
  /\ LET s == UpdateConnectionStates(Now)
     IN  /\ Becomes(s)
         /\ Touches(DanglingController \/ Len(s.ch.connections) # Len(ch.connections))
  /\ UNCHANGED <<remote, silent, fired>>

Older(age, cap) == Min({age + 1, cap})

\* The ping timer, once started, comes due several times in a tick.
Tick ==
  /\ ch.pinging => fired
  /\ fired' = FALSE
  /\ conn' = [a \in Addrs |->
       [conn[a] EXCEPT !.heard = Older(@, ReceivingTimeout),
                       !.idle = 1,
                       !.pings = [i \in DOMAIN @ |-> Older(@[i], WriteTimeout + 1)]]]
  /\ UNCHANGED <<ch, remote, silent, wild>>

FallSilent == ~silent /\ silent' = TRUE /\ UNCHANGED <<conn, ch, remote, fired, wild>>

Receive(a) ==
  \/ OnUnknownAddress(a)
  \/ OnReadPacket(a)
  \/ OnReadPacketFreed(a)
  \/ \E sample \in Rtts : OnConnectionRequestResponse(a, sample)
  \/ OnRetryableError(a)
  \/ OnFatalError(a)

IceNext ==
  /\ ~wild
  /\ \/ \E same \in SUBSET Addrs : SetRemoteIceParams(same)
     \/ ~silent /\ \E a \in Addrs : Receive(a)
     \/ FallSilent
     \/ \E due \in Dues : OnCheckAndPing(due)
     \/ OnCheckOnly
     \/ Tick

IceSpec == IceInit /\ [][IceNext]_iceVars

\* Time goes on, and with it the timer: the event loop always returns to it.
IceFairSpec == IceSpec /\ ([]<>(wild \/ ~ch.pinging) \/ []<><<Tick>>_iceVars)

-----------------------------------------------------------------------------
IceTypeOK ==
  /\ conn \in [Addrs -> Connection]
  /\ ToSet(ch.connections) \subseteq Addrs
  /\ ch.unpinged \cup ch.pinged \subseteq Addrs
  /\ {ch.selected, ch.ctlSelected} \subseteq Addrs \cup {NoConnection}
  /\ {ch.had, ch.hasBeen, ch.writable, ch.receiving, ch.pinging} \subseteq BOOLEAN
  /\ ch.state \in {"kNew", "kChecking", "kConnected", "kDisconnected", "kFailed"}
  /\ {remote, silent, fired, wild} \subseteq BOOLEAN

\* What the channel last reported (writable, receiving and its state) is what
\* its connections say now: no handler changes or removes a connection without
\* running UpdateState afterwards.
ReportsCurrentState == UpdateChannelState(Now) = Now

\* SendPacket never meets a deleted connection, and refuses a packet only while
\* nothing is selected: the selected connection is one of the controller's, and
\* stays ready to send until it is removed.
SelectedIsUsable ==
  ch.selected # NoConnection =>
    /\ conn[ch.selected].life = "live"
    /\ ch.selected \in ToSet(ch.connections)
    /\ ReadyToSend(Now, ch.selected)
    /\ ch.ctlSelected = ch.selected

\* SortAndSwitchConnection's hysteresis over whole handlers: media moves from
\* one live connection to another only for a round trip better by
\* kMinImprovement.
SwitchImproves ==
  [][(/\ ch.selected # NoConnection
      /\ ch'.selected \notin {NoConnection, ch.selected}
      /\ conn'[ch.selected].life = "live")
     => conn'[ch'.selected].rtt < conn'[ch.selected].rtt]_iceVars

\* A channel that can ping all its connections and whose peer falls silent
\* fails in the end, whatever the connections were doing.  Excepted: the
\* controller's selected connection was deleted while writable, for then
\* FindNextPingableConnection may keep returning it.
FailsWhenSilent ==
  (/\ silent /\ ch.had
   /\ \A a \in ToSet(ch.connections) : conn[a].password
   /\ ~(Freed(ch.ctlSelected) /\ conn[ch.ctlSelected].write = Writable))
  ~> (ch.state = "kFailed" \/ wild)

=============================================================================
