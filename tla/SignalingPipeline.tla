------------------------- MODULE SignalingPipeline -------------------------
(***************************************************************************)
(* server/signaling_server.cpp, signaling_worker.cpp, rtc_server.cpp and   *)
(* rtc_worker.cpp: the path of a request from the accepted TCP connection  *)
(* to the RtcWorker that executes it and back to the client.               *)
(*                                                                         *)
(* Threads: one acceptor, SigNum signaling workers, the RtcServer and      *)
(* RtcNum RtcWorkers, each an event loop.  They talk through queues; after *)
(* every push into a queue the sender writes one int to the pipe of the    *)
(* queue's owner, and the owner pops one message per int.  Push and write  *)
(* are two steps here, and the write blocks while the pipe is full.        *)
(*                                                                         *)
(* A connection carries one request ("短连接处理"), so a message is named  *)
(* by the client that sent it.  Time is abstracted: the idle timer of a    *)
(* connection may run out at any moment.  A handler that touches only the  *)
(* worker's own table (CloseConn: close(fd), then RemoveConn) is one step: *)
(* a reused fd comes back to that worker only through its pipe.            *)
(***************************************************************************)
EXTENDS Naturals, Sequences, FiniteSets, SequencesExt

CONSTANTS
  Clients,
  Req,           \* the request of each client: [cmd, type, uid, name]
  Crc,           \* rtc::ComputeCrc32 of each stream name (external)
  Fds,           \* file descriptors the kernel hands out (numbers)
  Addrs,         \* addresses operator new hands out for TcpConnection (numbers)
  SigNum, RtcNum,\* worker_num of the two servers
  PipeCap,       \* capacity of a pipe, in ints
  MaxCertFailures, \* bound: for how many requests no certificate is generated
  MayHangUp,     \* bound: the clients that may close their end
  Null           \* nullptr, and an unused fd

ASSUME WorkersAssumption == SigNum \in Nat \ {0} /\ RtcNum \in Nat \ {0}
ASSUME NumbersAssumption == Fds \subseteq Nat /\ Addrs \subseteq Nat
ASSUME HangUpAssumption == MayHangUp \subseteq Clients
ASSUME BoundAssumption == MaxCertFailures \in Nat
ASSUME PipeAssumption == PipeCap \in Nat \ {0}
ASSUME RequestsAssumption == \A c \in Clients : {Req[c].uid, Crc[Req[c].name]} \subseteq Nat

Acceptor == <<"acceptor", 0>>
Server == <<"server", 0>>
Sigs == {<<"sig", i>> : i \in 0 .. SigNum - 1}
Rtcs == {<<"rtc", i>> : i \in 0 .. RtcNum - 1}
Owners == {Server} \cup Sigs \cup Rtcs        \* threads with a pipe
Threads == {Acceptor} \cup Owners

Msgs == [from : Clients, worker : Sigs, conn : Addrs, fd : Fds]
Conns == [fd : Fds, client : Clients, sent : BOOLEAN, reply_list : Seq(Clients)]

ASSUME NullAssumption ==
  /\ Null \notin Addrs /\ Null \notin Clients /\ Null \notin Conns
  /\ Null \notin Sigs \X Fds \X Addrs

VARIABLES
  fdOwner,       \* kernel: which client's socket an open fd is
  cstate,        \* the connection of a client: none, accepted, open, closed
  hungup,        \* clients that closed their end
  next_worker_index_,
  q_conn_,       \* per signaling worker: fds to take over
  q_msg_,        \* per queue owner: messages
  pipe,          \* per queue owner: ints not yet read
  owing,         \* per thread: the <<owner, int>> it is about to write
  conns_,        \* per signaling worker: fd -> TcpConnection
  conn,          \* the TcpConnection objects
  uncertified,   \* history: clients whose request was dropped by RtcServer
  slot,          \* history: <<worker, fd, address>> of a client's connection
  got,           \* history: whose replies a client has received
  entered,       \* history: requests in the order they entered RtcServer
  processed      \* history: per RtcWorker, requests in execution order

kernel == <<fdOwner, cstate, hungup>>
queues == <<q_conn_, q_msg_, pipe, owing>>
table == <<conns_, conn, slot>>
history == <<got, entered, processed>>
vars == <<kernel, next_worker_index_, queues, table, uncertified, history>>

Init ==
  /\ fdOwner = [f \in Fds |-> Null]
  /\ cstate = [c \in Clients |-> "none"]
  /\ hungup = {}
  /\ next_worker_index_ = 0
  /\ q_conn_ = [w \in Sigs |-> <<>>]
  /\ q_msg_ = [o \in Owners |-> <<>>]
  /\ pipe = [o \in Owners |-> <<>>]
  /\ owing = [t \in Threads |-> <<>>]
  /\ conns_ = [w \in Sigs |-> [f \in Fds |-> Null]]
  /\ conn = [a \in Addrs |-> Null]
  /\ uncertified = {}
  /\ slot = [c \in Clients |-> Null]
  /\ got = [c \in Clients |-> {}]
  /\ entered = <<>>
  /\ processed = [r \in Rtcs |-> <<>>]

----------------------------------------------------------------------------
(* Queues and pipes                                                        *)

Idle(t) == owing[t] = <<>>

(* SendRtcMsg up to the write: PushMsg.                                    *)
PushMsg(t, dst, m) ==
  /\ q_msg_' = [q_msg_ EXCEPT ![dst] = Append(@, m)]
  /\ owing' = [owing EXCEPT ![t] = <<dst, "RTC_MSG">>]

\* Mutant: no int is written while the pipe still holds one.
NotifyCoalesced(t) ==
  /\ owing[t] # <<>>
  /\ Len(pipe[owing[t][1]]) < PipeCap
  /\ pipe' = IF pipe[owing[t][1]] = <<>>
             THEN [pipe EXCEPT ![owing[t][1]] = Append(@, owing[t][2])] ELSE pipe
  /\ owing' = [owing EXCEPT ![t] = <<>>]
  /\ UNCHANGED <<kernel, next_worker_index_, q_conn_, q_msg_, table, uncertified, history>>

(* Notify: write(notify_send_fd_, ...), which blocks on a full pipe.       *)
Notify(t) ==
  /\ owing[t] # <<>>
  /\ Len(pipe[owing[t][1]]) < PipeCap
  /\ pipe' = [pipe EXCEPT ![owing[t][1]] = Append(@, owing[t][2])]
  /\ owing' = [owing EXCEPT ![t] = <<>>]
  /\ UNCHANGED <<kernel, next_worker_index_, q_conn_, q_msg_, table, uncertified, history>>

(* XxxRecvNotify: the thread is in its loop and reads the next int.        *)
RecvNotify(t, token) ==
  /\ Idle(t)
  /\ pipe[t] # <<>> /\ Head(pipe[t]) = token
  /\ pipe' = [pipe EXCEPT ![t] = Tail(@)]

----------------------------------------------------------------------------
(* The acceptor                                                            *)

NextIndex ==
  IF next_worker_index_ + 1 >= SigNum THEN 0 ELSE next_worker_index_ + 1

(* accept(2) returns the lowest number that is free.                       *)
LowestFree(f) == fdOwner[f] = Null /\ \A g \in Fds : g < f => fdOwner[g] # Null

(* AcceptNewConn and DispatchNewConn up to the write of the pipe.          *)
AcceptNewConn(c, f) ==
  /\ Idle(Acceptor)
  /\ cstate[c] = "none" /\ LowestFree(f)
  /\ fdOwner' = [fdOwner EXCEPT ![f] = c]
  /\ cstate' = [cstate EXCEPT ![c] = "accepted"]
  /\ LET w == <<"sig", next_worker_index_>>
     IN  /\ q_conn_' = [q_conn_ EXCEPT ![w] = Append(@, f)]
         /\ owing' = [owing EXCEPT ![Acceptor] = <<w, "NEW_CONN">>]
  /\ next_worker_index_' = NextIndex
  /\ UNCHANGED <<hungup, q_msg_, pipe, table, uncertified, history>>

----------------------------------------------------------------------------
(* A signaling worker                                                      *)

(* operator new: the address of a deleted connection, or one never handed  *)
(* out before; which of the latter is immaterial.                          *)
FreeAddrs ==
  LET used == {a \in Addrs : \E c \in Clients : slot[c] # Null /\ slot[c][3] = a}
  IN  {a \in Addrs : conn[a] = Null /\ \A b \in Addrs : b < a => b \in used}

(* NEW_CONN: q_conn_.Consume, then NewConn(fd).                            *)
NewConn(w) ==
  /\ RecvNotify(w, "NEW_CONN")
  /\ q_conn_[w] # <<>>
  /\ LET f == Head(q_conn_[w])
         c == fdOwner[f]
     IN  \E a \in FreeAddrs :
           /\ conn' = [conn EXCEPT ![a] =
                [fd |-> f, client |-> c, sent |-> FALSE, reply_list |-> <<>>]]
           /\ conns_' = [conns_ EXCEPT ![w][f] = a]
           /\ slot' = [slot EXCEPT ![c] = <<w, f, a>>]
           /\ cstate' = [cstate EXCEPT ![c] = "open"]
  /\ q_conn_' = [q_conn_ EXCEPT ![w] = Tail(@)]
  /\ UNCHANGED <<fdOwner, hungup, next_worker_index_, q_msg_, owing, uncertified, history>>

\* Mutant: the table entry is not cleared.
CloseConnKeepsEntry(w, a) ==
  /\ fdOwner' = [fdOwner EXCEPT ![conn[a].fd] = Null]
  /\ cstate' = [cstate EXCEPT ![conn[a].client] = "closed"]
  /\ conn' = [conn EXCEPT ![a] = Null]
  /\ UNCHANGED <<hungup, next_worker_index_, queues, conns_, slot, uncertified, history>>

(* CloseConn and RemoveConn: close(fd), stop the watchers, clear the table *)
(* entry, delete the connection with its unsent replies.                   *)
CloseConn(w, a) ==
  /\ fdOwner' = [fdOwner EXCEPT ![conn[a].fd] = Null]
  /\ cstate' = [cstate EXCEPT ![conn[a].client] = "closed"]
  /\ conns_' = [conns_ EXCEPT ![w][conn[a].fd] = Null]
  /\ conn' = [conn EXCEPT ![a] = Null]
  /\ UNCHANGED <<hungup, next_worker_index_, queues, slot, uncertified, history>>

(* The message that ProcessPush, ProcessPull, ProcessStopPush,             *)
(* ProcessStopPull and ProcessAnswer make of a request: its fields are     *)
(* those of Req[from], and the rest says where the result has to go.       *)
RequestMsg(w, a) == [from |-> conn[a].client, worker |-> w, conn |-> a, fd |-> conn[a].fd]

(* ReadQuery of a complete request: ProcessQueryBuffer and ProcessRequest  *)
(* up to the push into RtcServer.  Bytes that do not complete a request    *)
(* change nothing modelled here.                                           *)
ReadQuery(w, f) ==
  LET a == conns_[w][f]
  IN  /\ Idle(w)
      /\ a # Null /\ ~conn[a].sent
      /\ PushMsg(w, Server, RequestMsg(w, a))
      /\ conn' = [conn EXCEPT ![a].sent = TRUE]
      /\ entered' = Append(entered, conn[a].client)
      /\ UNCHANGED <<kernel, next_worker_index_, q_conn_, pipe, conns_, slot,
                     uncertified, got, processed>>

(* ReadQuery that fails: the peer hung up, or the request is malformed.    *)
ReadQueryFails(w, f) ==
  LET a == conns_[w][f]
  IN  /\ Idle(w)
      /\ a # Null
      /\ conn[a].client \in hungup \/ ~conn[a].sent
      /\ CloseConn(w, a)

(* ConnTimeCb, ProcessTimeout: idle for connection_timeout.                *)
ProcessTimeout(w, f) ==
  /\ Idle(w)
  /\ conns_[w][f] # Null
  /\ CloseConn(w, conns_[w][f])

\* Mutant: the table is trusted without comparing the connection.
IsCurrentFdOnly(w, m) == conns_[w][m.fd] # Null

(* The check of ResponseServerOffer: conns_[fd] == c.                      *)
IsCurrent(w, m) == conns_[w][m.fd] = m.conn

(* RTC_MSG: PopMsg and ResponseServerOffer, which drops the reply of a     *)
(* connection that is no longer in the table and queues it otherwise.      *)
ResponseServerOffer(w) ==
  /\ RecvNotify(w, "RTC_MSG")
  /\ q_msg_[w] # <<>>
  /\ LET m == Head(q_msg_[w])
     IN  conn' = IF IsCurrent(w, m)
                 THEN [conn EXCEPT ![conns_[w][m.fd]].reply_list = Append(@, m.from)]
                 ELSE conn
  /\ q_msg_' = [q_msg_ EXCEPT ![w] = Tail(@)]
  /\ UNCHANGED <<kernel, next_worker_index_, q_conn_, owing, conns_, slot,
                 uncertified, history>>

(* WriteReply: the loop writes the whole reply_list.                       *)
WriteReply(w, f) ==
  LET a == conns_[w][f]
  IN  /\ Idle(w)
      /\ a # Null /\ conn[a].reply_list # <<>>
      /\ got' = [got EXCEPT ![fdOwner[f]] = @ \cup ToSet(conn[a].reply_list)]
      /\ conn' = [conn EXCEPT ![a].reply_list = <<>>]
      /\ UNCHANGED <<kernel, next_worker_index_, queues, conns_, slot,
                     uncertified, entered, processed>>

(* WriteReply that fails because the peer is gone.                         *)
WriteReplyFails(w, f) ==
  LET a == conns_[w][f]
  IN  /\ Idle(w)
      /\ a # Null /\ conn[a].reply_list # <<>>
      /\ conn[a].client \in hungup
      /\ CloseConn(w, a)

----------------------------------------------------------------------------
(* RtcServer                                                               *)

\* Mutant: the answer of a pull stream is routed like that of a push stream.
GetWorkerAnswerByName(c) ==
  LET q == Req[c]
  IN  IF q.cmd \in {"PULL", "STOPPULL"}
      THEN <<"rtc", q.uid % RtcNum>> ELSE <<"rtc", Crc[q.name] % RtcNum>>

(* Everything about a pull stream goes by uid, the rest by stream name.    *)
GetWorker(c) ==
  LET q == Req[c]
  IN  IF q.cmd \in {"PULL", "STOPPULL"} \/ (q.cmd = "ANSWER" /\ q.type = "pull")
      THEN <<"rtc", q.uid % RtcNum>> ELSE <<"rtc", Crc[q.name] % RtcNum>>

(* ProcessRtcMsg: PopMsg, then PushMsg to the worker.                      *)
Route ==
  /\ RecvNotify(Server, "RTC_MSG")
  /\ q_msg_[Server] # <<>>
  /\ LET m == Head(q_msg_[Server])
         r == GetWorker(m.from)
     IN  /\ q_msg_' = [q_msg_ EXCEPT ![Server] = Tail(@), ![r] = Append(@, m)]
         /\ owing' = [owing EXCEPT ![Server] = <<r, "RTC_MSG">>]
  /\ UNCHANGED <<kernel, next_worker_index_, q_conn_, table, uncertified, history>>

(* GenerateAndCheckCertificate fails: the message is dropped, unanswered.  *)
RouteFails ==
  /\ Cardinality(uncertified) < MaxCertFailures
  /\ RecvNotify(Server, "RTC_MSG")
  /\ q_msg_[Server] # <<>>
  /\ q_msg_' = [q_msg_ EXCEPT ![Server] = Tail(@)]
  /\ uncertified' = uncertified \cup {Head(q_msg_[Server]).from}
  /\ UNCHANGED <<kernel, next_worker_index_, q_conn_, owing, table, history>>

----------------------------------------------------------------------------
(* An RtcWorker                                                            *)

\* Mutant: ANSWER is executed but its result is not sent back.
ProcessRtcMsgAnswerSilent(r) ==
  /\ RecvNotify(r, "RTC_MSG")
  /\ q_msg_[r] # <<>>
  /\ LET m == Head(q_msg_[r])
         back == Req[m.from].cmd # "ANSWER"
     IN  /\ q_msg_' = [o \in Owners |->
              CASE o = r -> Tail(q_msg_[r])
                [] o = m.worker /\ back -> Append(q_msg_[o], m)
                [] OTHER -> q_msg_[o]]
         /\ owing' = [owing EXCEPT ![r] = IF back THEN <<m.worker, "RTC_MSG">> ELSE <<>>]
         /\ processed' = [processed EXCEPT ![r] = Append(@, m.from)]
  /\ UNCHANGED <<kernel, next_worker_index_, q_conn_, table, uncertified, got, entered>>

(* ProcessRtcMsg: PopMsg, ProcessPush/Pull/Answer/StopPush/StopPull (what  *)
(* they do to the streams is StreamManager), then the result is pushed     *)
(* back to the signaling worker the request came from.                     *)
ProcessRtcMsg(r) ==
  /\ RecvNotify(r, "RTC_MSG")
  /\ q_msg_[r] # <<>>
  /\ LET m == Head(q_msg_[r])
     IN  /\ q_msg_' = [q_msg_ EXCEPT ![r] = Tail(@), ![m.worker] = Append(@, m)]
         /\ owing' = [owing EXCEPT ![r] = <<m.worker, "RTC_MSG">>]
         /\ processed' = [processed EXCEPT ![r] = Append(@, m.from)]
  /\ UNCHANGED <<kernel, next_worker_index_, q_conn_, table, uncertified, got, entered>>

----------------------------------------------------------------------------
(* A client closes its end.                                                *)
HangUp(c) ==
  /\ cstate[c] \in {"accepted", "open"} /\ c \notin hungup
  /\ hungup' = hungup \cup {c}
  /\ UNCHANGED <<fdOwner, cstate, next_worker_index_, queues, table, uncertified, history>>

Next ==
  \/ \E c \in Clients, f \in Fds : AcceptNewConn(c, f)
  \/ \E t \in Threads : Notify(t)
  \/ \E w \in Sigs :
       \/ NewConn(w)
       \/ ResponseServerOffer(w)
       \/ \E f \in Fds :
            \/ ReadQuery(w, f)
            \/ ReadQueryFails(w, f)
            \/ ProcessTimeout(w, f)
            \/ WriteReply(w, f)
            \/ WriteReplyFails(w, f)
  \/ Route
  \/ RouteFails
  \/ \E r \in Rtcs : ProcessRtcMsg(r)
  \/ \E c \in MayHangUp : HangUp(c)

Spec == Init /\ [][Next]_vars

(* Event loops that have an int to read, or a writable socket with a       *)
(* reply, run its handler; nothing obliges a client or a timer.            *)
FairSpec ==
  /\ Spec
  /\ \A t \in Threads : WF_vars(Notify(t))
  /\ \A w \in Sigs : /\ WF_vars(NewConn(w))
                     /\ WF_vars(ResponseServerOffer(w))
                     /\ \A f \in Fds : WF_vars(WriteReply(w, f))
  /\ WF_vars(Route)
  /\ \A r \in Rtcs : WF_vars(ProcessRtcMsg(r))

----------------------------------------------------------------------------
TypeOK ==
  /\ fdOwner \in [Fds -> Clients \cup {Null}]
  /\ cstate \in [Clients -> {"none", "accepted", "open", "closed"}]
  /\ hungup \subseteq Clients
  /\ next_worker_index_ \in 0 .. SigNum - 1
  /\ q_conn_ \in [Sigs -> Seq(Fds)]
  /\ q_msg_ \in [Owners -> Seq(Msgs)]
  /\ pipe \in [Owners -> Seq({"NEW_CONN", "RTC_MSG"})]
  /\ owing \in [Threads -> {<<>>} \cup (Owners \X {"NEW_CONN", "RTC_MSG"})]
  /\ conns_ \in [Sigs -> [Fds -> Addrs \cup {Null}]]
  /\ conn \in [Addrs -> Conns \cup {Null}]
  /\ uncertified \subseteq Clients
  /\ slot \in [Clients -> (Sigs \X Fds \X Addrs) \cup {Null}]
  /\ got \in [Clients -> SUBSET Clients]
  /\ entered \in Seq(Clients)
  /\ processed \in [Rtcs -> Seq(Clients)]

Ints(o, token) == Cardinality({i \in 1 .. Len(pipe[o]) : pipe[o][i] = token})
Writers(o, token) == Cardinality({t \in Threads : owing[t] = <<o, token>>})

(* One int per message: what lies in a queue is matched by the ints in the *)
(* pipe and the writes still to come, however senders interleave.  So no   *)
(* message is stranded in a queue and no int finds its queue empty.        *)
IntsMatchMessages ==
  /\ \A o \in Owners : Len(q_msg_[o]) = Ints(o, "RTC_MSG") + Writers(o, "RTC_MSG")
  /\ \A w \in Sigs : Len(q_conn_[w]) = Ints(w, "NEW_CONN") + Writers(w, "NEW_CONN")

(* The table of a worker refers to existing connections under their own    *)
(* fd, that fd still is the socket of the connection's client, and no      *)
(* connection is in two tables: closing on one worker while the kernel     *)
(* gives the number out again on another never mixes two clients' sockets. *)
ConnTableSound ==
  \A w \in Sigs, f \in Fds : conns_[w][f] # Null =>
    /\ conn[conns_[w][f]] # Null
    /\ conn[conns_[w][f]].fd = f
    /\ fdOwner[f] = conn[conns_[w][f]].client
    /\ \A v \in Sigs \ {w}, g \in Fds : conns_[v][g] # conns_[w][f]

(* "由 ResponseServerOffer 原路回传真实处理结果" (signaling_worker.cpp     *)
(* 427-428): a result goes back to the client that asked for it.           *)
ReplyToAsker == \A c \in Clients : got[c] \subseteq {c}

(* A reply reaches another client than the asker only by mistaken          *)
(* identity: the asker's connection is closed, and that of the receiver    *)
(* has its worker, its fd and its address, which is all that               *)
(* ResponseServerOffer compares.  No other timing of timeouts, reused fds  *)
(* and late results misdelivers a reply.                                   *)
ReplyToAskerOrSlot ==
  \A c \in Clients : \A d \in got[c] :
    d = c \/ (cstate[d] = "closed" /\ slot[d] # Null /\ slot[d] = slot[c])

OfPull(c) ==
  Req[c].cmd \in {"PULL", "STOPPULL"} \/ (Req[c].cmd = "ANSWER" /\ Req[c].type = "pull")

Before(s, c, d) == \E i, j \in 1 .. Len(s) : i < j /\ s[i] = c /\ s[j] = d

(* The requests of one uid about its pull streams are executed by one      *)
(* worker in the order in which they entered RtcServer, across signaling   *)
(* workers, queues and pipes (the "uid 粘性" of the pull routing).         *)
PullOrder ==
  \A c, d \in Clients : OfPull(c) /\ OfPull(d) /\ Req[c].uid = Req[d].uid =>
    \A r, p \in Rtcs :
      /\ c \in ToSet(processed[r]) /\ d \in ToSet(processed[p]) => r = p
      /\ Before(processed[r], c, d) => Before(entered, c, d)

(* A thread sits in the write of a full pipe.                              *)
Waits(t) == owing[t] # <<>> /\ Len(pipe[owing[t][1]]) = PipeCap

(* RtcServer waits for an RtcWorker, that one for a signaling worker, and  *)
(* that one for RtcServer: none of the three reads its pipe again.         *)
WaitCycle(r, w) ==
  /\ Waits(Server) /\ owing[Server][1] = r
  /\ Waits(r) /\ owing[r][1] = w
  /\ Waits(w) /\ owing[w][1] = Server

Gridlock == \E r \in Rtcs, w \in Sigs : WaitCycle(r, w)

(* A request that entered RtcServer is answered, unless its connection is  *)
(* closed first, RtcServer dropped this very request for want of a         *)
(* certificate, or the blocking pipes have gridlocked.                     *)
ReplyOrClose ==
  \A c \in Clients : c \in ToSet(entered) ~>
    c \in got[c] \/ cstate[c] = "closed" \/ c \in uncertified \/ Gridlock

(* "发送方永远不能被接收方拖死" (note v2_15.3, 3.2, of the notification    *)
(* pipes): no cycle of senders hangs, each in the write of a full pipe     *)
(* whose reader is the next of them.                                       *)
SendersGoOn == ~Gridlock
============================================================================
