-------------------------- MODULE SignalingProofs --------------------------
(***************************************************************************)
(* Proofs about SignalingPipeline for any number of clients, workers,      *)
(* descriptors and addresses and any capacity of the pipes: the tables of  *)
(* the signaling workers, the way of a reply, the order of requests, and   *)
(* the ints that announce messages.                                        *)
(***************************************************************************)
EXTENDS SignalingPipeline, FiniteSetTheorems, SequenceTheorems, TLAPS

(* A descriptor on its way to a worker is open, in no table, and on its    *)
(* way once.                                                               *)
QueuedFds ==
  /\ \A w \in Sigs : \A i \in 1 .. Len(q_conn_[w]) :
       /\ fdOwner[q_conn_[w][i]] # Null
       /\ \A v \in Sigs : conns_[v][q_conn_[w][i]] = Null
  /\ \A w, v \in Sigs : \A i \in 1 .. Len(q_conn_[w]), j \in 1 .. Len(q_conn_[v]) :
       q_conn_[w][i] = q_conn_[v][j] => w = v /\ i = j

OneTable ==
  \A w, v \in Sigs, f \in Fds : conns_[w][f] # Null /\ conns_[v][f] # Null => w = v

TableEntries ==
  \A w \in Sigs, f \in Fds : conns_[w][f] # Null =>
    /\ conn[conns_[w][f]] # Null
    /\ conn[conns_[w][f]].fd = f
    /\ fdOwner[f] = conn[conns_[w][f]].client

TableInv == TypeOK /\ QueuedFds /\ OneTable /\ TableEntries

(* A client has one socket at most, before its connection is closed, and   *)
(* an open connection is at the address, in the table and under the fd     *)
(* that slot names.                                                        *)
OneSocket ==
  /\ \A f \in Fds : fdOwner[f] # Null => cstate[fdOwner[f]] \in {"accepted", "open"}
  /\ \A f, g \in Fds : fdOwner[f] # Null /\ fdOwner[f] = fdOwner[g] => f = g
  /\ \A w \in Sigs : \A i \in 1 .. Len(q_conn_[w]) :
       cstate[fdOwner[q_conn_[w][i]]] = "accepted"

SlotsHeld ==
  /\ \A c \in Clients : slot[c] # Null => cstate[c] \in {"open", "closed"}
  /\ \A c \in Clients : cstate[c] = "open" =>
       slot[c] # Null /\ conn[slot[c][3]] # Null /\ conn[slot[c][3]].client = c
  /\ \A w \in Sigs, f \in Fds : conns_[w][f] # Null =>
       slot[conn[conns_[w][f]].client] = <<w, f, conns_[w][f]>>

ClientInv == OneSocket /\ SlotsHeld

(* A message names the slot of its client's connection, results are queued *)
(* at the worker of that slot, and what waits to be written to a client is *)
(* its own result or one of a closed connection with the same slot.        *)
MsgsRefer ==
  \A o \in Owners : \A i \in 1 .. Len(q_msg_[o]) :
    LET m == q_msg_[o][i] IN slot[m.from] = <<m.worker, m.fd, m.conn>>

ResultsHome == \A w \in Sigs : \A i \in 1 .. Len(q_msg_[w]) : q_msg_[w][i].worker = w

SameSlot(c, d) == d = c \/ (cstate[d] = "closed" /\ slot[d] # Null /\ slot[d] = slot[c])

OwnReplies ==
  \A a \in Addrs : conn[a] # Null =>
    \A i \in 1 .. Len(conn[a].reply_list) : SameSlot(conn[a].client, conn[a].reply_list[i])

RepliesInv == MsgsRefer /\ ResultsHome /\ OwnReplies /\ ReplyToAskerOrSlot

(* Requests are at the worker of their uid or name, and those further on   *)
(* their way entered RtcServer earlier: Sorted and Ahead compare the       *)
(* places in the sequence e of what entered.                               *)
Froms(q) == [i \in 1 .. Len(q) |-> q[i].from]

Routed ==
  \A r \in Rtcs :
    /\ \A i \in 1 .. Len(q_msg_[r]) : GetWorker(Froms(q_msg_[r])[i]) = r
    /\ \A i \in 1 .. Len(processed[r]) : GetWorker(processed[r][i]) = r

AllIn(e, s) == \A i \in 1 .. Len(s) : \E k \in 1 .. Len(e) : e[k] = s[i]
Sorted(e, s) == \A i, j \in 1 .. Len(s) : i < j => Before(e, s[i], s[j])
Ahead(e, s, t) == \A i \in 1 .. Len(s), j \in 1 .. Len(t) : Before(e, s[i], t[j])

InOrder(e, p, r, s) ==
  /\ AllIn(e, p) /\ AllIn(e, r) /\ AllIn(e, s)
  /\ Sorted(e, p) /\ Sorted(e, r) /\ Sorted(e, s)
  /\ Ahead(e, p, r) /\ Ahead(e, p, s) /\ Ahead(e, r, s)

OrderInv ==
  \A r \in Rtcs : InOrder(entered, processed[r], Froms(q_msg_[r]), Froms(q_msg_[Server]))

IInv == TableInv /\ ClientInv /\ RepliesInv /\ Routed /\ OrderInv

----------------------------------------------------------------------------
(* The threads                                                             *)

(* The kinds of threads are disjoint.                                      *)
LEMMA ThreadKinds ==
  /\ Server \in Owners /\ Sigs \subseteq Owners /\ Rtcs \subseteq Owners
  /\ Owners \subseteq Threads /\ Acceptor \in Threads
  /\ Server \notin Sigs /\ Server \notin Rtcs /\ \A w \in Sigs : w \notin Rtcs
  /\ Acceptor \notin Owners
  BY DEF Server, Sigs, Rtcs, Owners, Threads, Acceptor

(* The round robin of the acceptor stays among the workers.                *)
LEMMA NextWorker ==
  ASSUME next_worker_index_ \in 0 .. SigNum - 1
  PROVE  <<"sig", next_worker_index_>> \in Sigs /\ NextIndex \in 0 .. SigNum - 1
  BY WorkersAssumption DEF Sigs, NextIndex

(* GetWorker chooses one of the RTC workers.                               *)
LEMMA WorkerOfRequest ==
  ASSUME NEW c \in Clients
  PROVE  GetWorker(c) \in Rtcs
  <1>1. ASSUME NEW x \in Nat PROVE <<"rtc", x % RtcNum>> \in Rtcs
    <2>1. x % RtcNum \in 0 .. RtcNum - 1
      BY WorkersAssumption
    <2> QED BY <2>1 DEF Rtcs
  <1> QED BY <1>1, RequestsAssumption DEF GetWorker

(* The elements of a tail are those of the sequence, one place on.         *)
LEMMA TailElements ==
  ASSUME NEW S, NEW q \in Seq(S), q # <<>>
  PROVE  /\ Tail(q) \in Seq(S) /\ Len(Tail(q)) = Len(q) - 1
         /\ \A i \in 1 .. Len(Tail(q)) : i + 1 \in 1 .. Len(q) /\ Tail(q)[i] = q[i + 1]
  OBVIOUS

----------------------------------------------------------------------------
(* The tables of the signaling workers                                     *)

(* Empty tables and queues are sound.                                      *)
LEMMA InitTable == Init => TableInv
  <1> SUFFICES ASSUME Init PROVE TableInv
    OBVIOUS
  <1>1. /\ fdOwner \in [Fds -> Clients \cup {Null}]
        /\ cstate \in [Clients -> {"none", "accepted", "open", "closed"}]
        /\ hungup \subseteq Clients
        /\ next_worker_index_ \in 0 .. SigNum - 1
    BY WorkersAssumption DEF Init
  <1>2. q_conn_ \in [Sigs -> Seq(Fds)]
    BY DEF Init
  <1>3. q_msg_ \in [Owners -> Seq(Msgs)]
    BY DEF Init
  <1>4. pipe \in [Owners -> Seq({"NEW_CONN", "RTC_MSG"})]
    BY DEF Init
  <1>5. owing \in [Threads -> {<<>>} \cup (Owners \X {"NEW_CONN", "RTC_MSG"})]
    BY DEF Init
  <1>6. /\ conns_ \in [Sigs -> [Fds -> Addrs \cup {Null}]]
        /\ conn \in [Addrs -> Conns \cup {Null}]
        /\ uncertified \subseteq Clients
        /\ slot \in [Clients -> (Sigs \X Fds \X Addrs) \cup {Null}]
    BY DEF Init
  <1>7. got \in [Clients -> SUBSET Clients]
    BY DEF Init
  <1>8. entered \in Seq(Clients) /\ processed \in [Rtcs -> Seq(Clients)]
    BY DEF Init
  <1>9. TypeOK
    BY <1>1, <1>2, <1>3, <1>4, <1>5, <1>6, <1>7, <1>8 DEF TypeOK
  <1>10. QueuedFds /\ OneTable /\ TableEntries
    BY DEF Init, QueuedFds, OneTable, TableEntries
  <1> QED BY <1>9, <1>10 DEF TableInv

(* What Notify and reading an int leave in the pipe.                       *)
LEMMA NotifyTable ==
  ASSUME TableInv, NEW t \in Threads, Notify(t)
  PROVE  TableInv'
  <1> DEFINE Tokens == {"NEW_CONN", "RTC_MSG"}
  <1>1. owing[t] \in Owners \X Tokens
    BY DEF TableInv, TypeOK, Notify
  <1>2. owing[t][1] \in Owners /\ owing[t][2] \in Tokens
    BY <1>1
  <1>3. Append(pipe[owing[t][1]], owing[t][2]) \in Seq(Tokens)
    BY <1>2 DEF TableInv, TypeOK
  <1>4. pipe' \in [Owners -> Seq(Tokens)]
    BY <1>2, <1>3 DEF TableInv, TypeOK, Notify
  <1>5. owing' \in [Threads -> {<<>>} \cup (Owners \X Tokens)]
    BY DEF TableInv, TypeOK, Notify
  <1>6. UNCHANGED <<kernel, next_worker_index_, q_conn_, q_msg_, table, uncertified, history>>
    BY DEF Notify
  <1>7. TypeOK'
    BY <1>4, <1>5, <1>6 DEF TableInv, TypeOK, kernel, table, history
  <1> QED BY <1>6, <1>7 DEF TableInv, QueuedFds, OneTable, TableEntries,
                            kernel, table

(* Reading an int keeps the types; who reads owes nothing.                 *)
LEMMA RecvType ==
  ASSUME TypeOK, NEW t \in Owners, NEW k, RecvNotify(t, k)
  PROVE  pipe' \in [Owners -> Seq({"NEW_CONN", "RTC_MSG"})] /\ owing[t] = <<>>
  <1>1. Tail(pipe[t]) \in Seq({"NEW_CONN", "RTC_MSG"})
    BY DEF TypeOK, RecvNotify
  <1> QED BY <1>1 DEF TypeOK, RecvNotify, Idle

(* A push into the queue of dst.                                           *)
LEMMA PushType ==
  ASSUME TypeOK, NEW t \in Threads, NEW dst \in Owners, NEW m \in Msgs, PushMsg(t, dst, m)
  PROVE  /\ q_msg_' \in [Owners -> Seq(Msgs)]
         /\ owing' \in [Threads -> {<<>>} \cup (Owners \X {"NEW_CONN", "RTC_MSG"})]
  <1>1. Append(q_msg_[dst], m) \in Seq(Msgs)
    BY DEF TypeOK
  <1>2. q_msg_' \in [Owners -> Seq(Msgs)]
    BY <1>1 DEF TypeOK, PushMsg
  <1>3. <<dst, "RTC_MSG">> \in {<<>>} \cup (Owners \X {"NEW_CONN", "RTC_MSG"})
    OBVIOUS
  <1>4. owing' = [owing EXCEPT ![t] = <<dst, "RTC_MSG">>]
    BY DEF PushMsg
  <1> QED BY <1>2, <1>3, <1>4 DEF TypeOK

(* The new descriptor was free: it is in no queue and in no table.         *)
LEMMA AcceptTable ==
  ASSUME TableInv, NEW c \in Clients, NEW f \in Fds, AcceptNewConn(c, f)
  PROVE  TableInv'
  <1> USE ThreadKinds
  <1> DEFINE w == <<"sig", next_worker_index_>>
  <1>1. w \in Sigs /\ NextIndex \in 0 .. SigNum - 1
    BY NextWorker DEF TableInv, TypeOK
  <1>2. /\ fdOwner[f] = Null
        /\ fdOwner' = [fdOwner EXCEPT ![f] = c]
        /\ cstate' = [cstate EXCEPT ![c] = "accepted"]
        /\ q_conn_' = [q_conn_ EXCEPT ![w] = Append(@, f)]
        /\ owing' = [owing EXCEPT ![Acceptor] = <<w, "NEW_CONN">>]
        /\ next_worker_index_' = NextIndex
        /\ UNCHANGED <<hungup, q_msg_, pipe, table, uncertified, history>>
    BY DEF AcceptNewConn, LowestFree
  <1> HIDE DEF w
  <1>3. /\ fdOwner \in [Fds -> Clients \cup {Null}] /\ q_conn_ \in [Sigs -> Seq(Fds)]
        /\ conns_ \in [Sigs -> [Fds -> Addrs \cup {Null}]]
        /\ conn \in [Addrs -> Conns \cup {Null}]
        /\ owing \in [Threads -> {<<>>} \cup (Owners \X {"NEW_CONN", "RTC_MSG"})]
    BY DEF TableInv, TypeOK
  <1>4. /\ q_conn_[w] \in Seq(Fds) /\ Len(q_conn_[w]) \in Nat
        /\ q_conn_'[w] = Append(q_conn_[w], f)
        /\ \A v \in Sigs : v # w => q_conn_'[v] = q_conn_[v]
    BY <1>1, <1>2, <1>3
  <1>5. TypeOK'
    <2>1. q_conn_' \in [Sigs -> Seq(Fds)]
      BY <1>1, <1>2, <1>3, <1>4
    <2>2. <<w, "NEW_CONN">> \in {<<>>} \cup (Owners \X {"NEW_CONN", "RTC_MSG"})
      BY <1>1
    <2>3. owing' \in [Threads -> {<<>>} \cup (Owners \X {"NEW_CONN", "RTC_MSG"})]
      BY <1>2, <1>3, <2>2
    <2> QED BY <1>1, <1>2, <2>1, <2>3 DEF TableInv, TypeOK, table, history
  <1>6. \A v \in Sigs : conns_[v][f] = Null
    <2> SUFFICES ASSUME NEW v \in Sigs, conns_[v][f] # Null PROVE FALSE
      OBVIOUS
    <2>1. conns_[v][f] \in Addrs /\ conn[conns_[v][f]] \in Conns
      BY <1>3 DEF TableInv, TableEntries
    <2>2. conn[conns_[v][f]].client \in Clients
      BY <2>1 DEF Conns
    <2> QED BY <1>2, <2>2, NullAssumption DEF TableInv, TableEntries
  <1>7. \A v \in Sigs : \A i \in 1 .. Len(q_conn_[v]) : q_conn_[v][i] # f
    BY <1>2 DEF TableInv, QueuedFds
  <1>8. \A v \in Sigs : \A i \in 1 .. Len(q_conn_'[v]) :
          \/ i \in 1 .. Len(q_conn_[v]) /\ q_conn_'[v][i] = q_conn_[v][i]
          \/ v = w /\ i = Len(q_conn_[w]) + 1 /\ q_conn_'[v][i] = f
    BY <1>4
  <1>9. c # Null /\ conns_' = conns_ /\ conn' = conn
    BY <1>2, NullAssumption DEF table
  <1>10. QueuedFds'
    <2>1. \A v \in Sigs : \A i \in 1 .. Len(q_conn_'[v]) :
            /\ fdOwner'[q_conn_'[v][i]] # Null
            /\ \A u \in Sigs : conns_'[u][q_conn_'[v][i]] = Null
      BY <1>2, <1>3, <1>6, <1>8, <1>9 DEF TableInv, QueuedFds
    <2>2. \A u, v \in Sigs : \A i \in 1 .. Len(q_conn_'[u]), j \in 1 .. Len(q_conn_'[v]) :
            q_conn_'[u][i] = q_conn_'[v][j] => u = v /\ i = j
      BY <1>7, <1>8, SMTT(30) DEF TableInv, QueuedFds
    <2> QED BY <2>1, <2>2 DEF QueuedFds
  <1>11. OneTable' /\ TableEntries'
    BY <1>2, <1>3, <1>6, <1>9 DEF TableInv, OneTable, TableEntries
  <1> QED BY <1>5, <1>10, <1>11 DEF TableInv

(* The descriptor leaves the queue for the table, under an address that no *)
(* table holds.                                                            *)
LEMMA NewConnTable ==
  ASSUME TableInv, NEW w \in Sigs, NewConn(w)
  PROVE  TableInv'
  <1> USE ThreadKinds
  <1> DEFINE f == Head(q_conn_[w])
             c == fdOwner[f]
             k == [fd |-> f, client |-> c, sent |-> FALSE, reply_list |-> <<>>]
  <1>1. /\ fdOwner \in [Fds -> Clients \cup {Null}] /\ q_conn_ \in [Sigs -> Seq(Fds)]
        /\ conns_ \in [Sigs -> [Fds -> Addrs \cup {Null}]]
        /\ conn \in [Addrs -> Conns \cup {Null}]
        /\ slot \in [Clients -> (Sigs \X Fds \X Addrs) \cup {Null}]
    BY DEF TableInv, TypeOK
  <1>2. PICK a \in FreeAddrs :
           /\ conn' = [conn EXCEPT ![a] = k]
           /\ conns_' = [conns_ EXCEPT ![w][f] = a]
           /\ slot' = [slot EXCEPT ![c] = <<w, f, a>>]
           /\ cstate' = [cstate EXCEPT ![c] = "open"]
    BY DEF NewConn
  <1>3. /\ q_conn_[w] # <<>> /\ q_conn_' = [q_conn_ EXCEPT ![w] = Tail(@)]
        /\ UNCHANGED <<fdOwner, hungup, next_worker_index_, q_msg_, owing, uncertified, history>>
    BY DEF NewConn
  <1>4. /\ q_conn_[w] \in Seq(Fds) /\ Len(q_conn_[w]) \in Nat \ {0} /\ f = q_conn_[w][1]
        /\ f \in Fds /\ Tail(q_conn_[w]) \in Seq(Fds)
    BY <1>1, <1>3
  <1>5. c \in Clients
    BY <1>1, <1>4 DEF TableInv, QueuedFds
  <1>6. k \in Conns /\ k.fd = f /\ k.client = c
    BY <1>4, <1>5 DEF Conns
  <1>7. a \in Addrs /\ conn[a] = Null /\ a # Null /\ k # Null
    BY <1>6, NullAssumption DEF FreeAddrs
  <1>8. \A v \in Sigs : conns_[v][f] = Null
    BY <1>4 DEF TableInv, QueuedFds
  <1> HIDE DEF k, c, f
  <1>9. /\ conns_' \in [Sigs -> [Fds -> Addrs \cup {Null}]]
        /\ \A v \in Sigs, g \in Fds :
             conns_'[v][g] = IF v = w /\ g = f THEN a ELSE conns_[v][g]
    BY <1>1, <1>2, <1>4, <1>7
  <1>10. /\ q_conn_' \in [Sigs -> Seq(Fds)]
         /\ \A v \in Sigs : v # w => q_conn_'[v] = q_conn_[v]
         /\ q_conn_'[w] = Tail(q_conn_[w])
    BY <1>1, <1>3, <1>4
  <1>11. TypeOK'
    <2>1. /\ conn' \in [Addrs -> Conns \cup {Null}]
          /\ slot' \in [Clients -> (Sigs \X Fds \X Addrs) \cup {Null}]
      BY <1>1, <1>2, <1>4, <1>6, <1>7
    <2>2. cstate' \in [Clients -> {"none", "accepted", "open", "closed"}]
      BY <1>2 DEF TableInv, TypeOK
    <2>3. pipe' \in [Owners -> Seq({"NEW_CONN", "RTC_MSG"})]
      BY RecvType DEF NewConn, TableInv
    <2> QED BY <1>3, <1>9, <1>10, <2>1, <2>2, <2>3 DEF TableInv, TypeOK, history
  <1>12. \A v \in Sigs : \A i \in 1 .. Len(q_conn_'[v]) :
           \/ v # w /\ i \in 1 .. Len(q_conn_[v]) /\ q_conn_'[v][i] = q_conn_[v][i]
           \/ v = w /\ i + 1 \in 1 .. Len(q_conn_[v]) /\ q_conn_'[v][i] = q_conn_[v][i + 1]
    <2>1. ASSUME NEW v \in Sigs, v # w, NEW i \in 1 .. Len(q_conn_'[v])
          PROVE  i \in 1 .. Len(q_conn_[v]) /\ q_conn_'[v][i] = q_conn_[v][i]
      BY <1>10, <2>1
    <2>2. ASSUME NEW i \in 1 .. Len(q_conn_'[w])
          PROVE  i + 1 \in 1 .. Len(q_conn_[w]) /\ q_conn_'[w][i] = q_conn_[w][i + 1]
      BY <1>3, <1>4, <1>10, <2>2, TailElements
    <2> QED BY <2>1, <2>2
  <1>13. \A v \in Sigs : \A i \in 1 .. Len(q_conn_'[v]) : q_conn_'[v][i] # f
    <2> SUFFICES ASSUME NEW v \in Sigs, NEW i \in 1 .. Len(q_conn_'[v]), q_conn_'[v][i] = f
                 PROVE FALSE
      OBVIOUS
    <2>1. 1 \in 1 .. Len(q_conn_[w]) /\ i \in Nat /\ i > 0
      BY <1>4, <1>10
    <2>2. CASE v # w
      BY <1>4, <1>12, <2>1, <2>2 DEF TableInv, QueuedFds
    <2>3. CASE v = w
      <3>1. q_conn_[w][i + 1] = q_conn_[w][1] /\ i + 1 \in 1 .. Len(q_conn_[w])
        BY <1>4, <1>12, <2>3
      <3>2. i + 1 = 1
        BY <2>1, <3>1 DEF TableInv, QueuedFds
      <3> QED BY <2>1, <3>2
    <2> QED BY <2>2, <2>3
  <1>14. QueuedFds'
    <2>1. ASSUME NEW v \in Sigs, NEW i \in 1 .. Len(q_conn_'[v])
          PROVE  /\ fdOwner'[q_conn_'[v][i]] # Null
                 /\ \A u \in Sigs : conns_'[u][q_conn_'[v][i]] = Null
      <3>1. PICK j \in 1 .. Len(q_conn_[v]) : q_conn_'[v][i] = q_conn_[v][j]
        BY <1>12
      <3>2. q_conn_'[v][i] \in Fds
        BY <1>1, <3>1
      <3>3. /\ fdOwner[q_conn_[v][j]] # Null
            /\ \A u \in Sigs : conns_[u][q_conn_[v][j]] = Null
        BY DEF TableInv, QueuedFds
      <3>4. q_conn_'[v][i] # f
        BY <1>13
      <3> QED BY <1>3, <1>9, <3>1, <3>2, <3>3, <3>4
    <2>2. ASSUME NEW u \in Sigs, NEW v \in Sigs,
                 NEW i \in 1 .. Len(q_conn_'[u]), NEW j \in 1 .. Len(q_conn_'[v]),
                 q_conn_'[u][i] = q_conn_'[v][j]
          PROVE  u = v /\ i = j
      <3>1. PICK x \in 1 .. Len(q_conn_[u]), y \in 1 .. Len(q_conn_[v]) :
               q_conn_'[u][i] = q_conn_[u][x] /\ q_conn_'[v][j] = q_conn_[v][y]
        BY <1>12, SMTT(30)
      <3>2. q_conn_[u][x] = q_conn_[v][y]
        BY <2>2, <3>1
      <3>3. u = v
        BY <3>2 DEF TableInv, QueuedFds
      <3>4. CASE u = w
        <4>1. i + 1 = j + 1
          BY <1>12, <2>2, <3>3, <3>4 DEF TableInv, QueuedFds
        <4>2. i \in Int /\ j \in Int
          BY <1>10
        <4> QED BY <3>3, <4>1, <4>2
      <3>5. CASE u # w
        BY <1>12, <2>2, <3>3, <3>5 DEF TableInv, QueuedFds
      <3> QED BY <3>4, <3>5
    <2> QED BY <2>1, <2>2 DEF QueuedFds
  <1>15. OneTable'
    BY <1>8, <1>9 DEF TableInv, OneTable
  <1>16. TableEntries'
    <2> SUFFICES ASSUME NEW v \in Sigs, NEW g \in Fds, conns_'[v][g] # Null
                 PROVE  /\ conn'[conns_'[v][g]] # Null
                        /\ conn'[conns_'[v][g]].fd = g
                        /\ fdOwner'[g] = conn'[conns_'[v][g]].client
      BY DEF TableEntries
    <2>1. CASE v = w /\ g = f
      <3>1. conns_'[v][g] = a /\ conn'[a] = k
        BY <1>1, <1>2, <1>7, <1>9, <2>1
      <3> QED BY <1>3, <1>6, <1>7, <2>1, <3>1 DEF c
    <2>2. CASE ~(v = w /\ g = f)
      <3>1. conns_'[v][g] = conns_[v][g] /\ conns_[v][g] # a
        BY <1>7, <1>9, <2>2 DEF TableInv, TableEntries
      <3>2. conn'[conns_[v][g]] = conn[conns_[v][g]]
        BY <1>1, <1>2, <3>1
      <3> QED BY <1>3, <3>1, <3>2 DEF TableInv, TableEntries
    <2> QED BY <2>1, <2>2
  <1> QED BY <1>11, <1>14, <1>15, <1>16 DEF TableInv

(* A closed descriptor leaves the only table it was in.                    *)
LEMMA CloseConnTable ==
  ASSUME TableInv, NEW w \in Sigs, NEW f \in Fds, conns_[w][f] # Null,
         CloseConn(w, conns_[w][f])
  PROVE  TableInv'
  <1> DEFINE a == conns_[w][f]
  <1>1. /\ fdOwner \in [Fds -> Clients \cup {Null}] /\ q_conn_ \in [Sigs -> Seq(Fds)]
        /\ conns_ \in [Sigs -> [Fds -> Addrs \cup {Null}]]
        /\ conn \in [Addrs -> Conns \cup {Null}]
    BY DEF TableInv, TypeOK
  <1>2. a \in Addrs /\ conn[a] # Null /\ conn[a].fd = f
    BY <1>1 DEF TableInv, TableEntries
  <1>3. /\ fdOwner' = [fdOwner EXCEPT ![f] = Null]
        /\ cstate' = [cstate EXCEPT ![conn[a].client] = "closed"]
        /\ conns_' = [conns_ EXCEPT ![w][f] = Null]
        /\ conn' = [conn EXCEPT ![a] = Null]
        /\ UNCHANGED <<hungup, next_worker_index_, queues, slot, uncertified, history>>
    BY <1>2 DEF CloseConn
  <1> HIDE DEF a
  <1>4. /\ conns_' \in [Sigs -> [Fds -> Addrs \cup {Null}]]
        /\ \A v \in Sigs, g \in Fds :
             conns_'[v][g] = IF v = w /\ g = f THEN Null ELSE conns_[v][g]
    BY <1>1, <1>3
  <1>5. TypeOK'
    BY <1>1, <1>3, <1>4 DEF TableInv, TypeOK, queues, history
  <1>6. \A v \in Sigs : \A i \in 1 .. Len(q_conn_[v]) : q_conn_[v][i] # f /\ q_conn_[v][i] \in Fds
    BY <1>1 DEF TableInv, QueuedFds
  <1>7. QueuedFds'
    BY <1>1, <1>3, <1>4, <1>6 DEF TableInv, QueuedFds, queues
  <1>8. OneTable'
    BY <1>1, <1>3, <1>4 DEF TableInv, OneTable
  <1>9. TableEntries'
    <2> SUFFICES ASSUME NEW v \in Sigs, NEW g \in Fds, conns_'[v][g] # Null
                 PROVE  /\ conn'[conns_'[v][g]] # Null
                        /\ conn'[conns_'[v][g]].fd = g
                        /\ fdOwner'[g] = conn'[conns_'[v][g]].client
      BY DEF TableEntries
    <2>1. conns_'[v][g] = conns_[v][g] /\ ~(v = w /\ g = f)
      BY <1>4
    <2>2. g # f
      BY <2>1 DEF TableInv, OneTable
    <2>3. conns_[v][g] # a
      BY <1>2, <2>1, <2>2 DEF TableInv, TableEntries
    <2> QED BY <1>1, <1>3, <2>1, <2>2, <2>3 DEF TableInv, TableEntries
  <1> QED BY <1>5, <1>7, <1>8, <1>9 DEF TableInv

(* Only what a connection has sent, or has to send, changes.               *)
LEMMA SameConnTable ==
  ASSUME TableInv, TypeOK', UNCHANGED <<fdOwner, q_conn_, conns_>>,
         \A a \in Addrs : /\ conn'[a] # Null <=> conn[a] # Null
                          /\ conn[a] # Null => /\ conn'[a].fd = conn[a].fd
                                               /\ conn'[a].client = conn[a].client
  PROVE  TableInv'
  <1>1. \A w \in Sigs, f \in Fds : conns_[w][f] # Null => conns_[w][f] \in Addrs
    BY DEF TableInv, TypeOK
  <1>2. QueuedFds' /\ OneTable'
    BY DEF TableInv, QueuedFds, OneTable
  <1>3. TableEntries'
    BY <1>1 DEF TableInv, TableEntries
  <1> QED BY <1>2, <1>3 DEF TableInv

(* The entry of a table is a connection.                                   *)
LEMMA EntryType ==
  ASSUME TableInv, NEW w \in Sigs, NEW f \in Fds, conns_[w][f] # Null
  PROVE  /\ conns_[w][f] \in Addrs
         /\ conn[conns_[w][f]] \in Conns /\ conn[conns_[w][f]] # Null
         /\ conn[conns_[w][f]].fd = f /\ conn[conns_[w][f]].client = fdOwner[f]
         /\ fdOwner[f] \in Clients
         /\ RequestMsg(w, conns_[w][f]) \in Msgs
  <1>1. conns_[w][f] \in Addrs /\ conn[conns_[w][f]] \in Conns
    BY DEF TableInv, TypeOK, TableEntries
  <1> QED BY <1>1 DEF TableInv, TableEntries, Conns, RequestMsg, Msgs

(* Reading a request changes no table.                                     *)
LEMMA ReadQueryTable ==
  ASSUME TableInv, NEW w \in Sigs, NEW f \in Fds, ReadQuery(w, f)
  PROVE  TableInv'
  <1> USE ThreadKinds
  <1> DEFINE a == conns_[w][f]
  <1>1. /\ a \in Addrs /\ conn[a] \in Conns /\ conn[a].client \in Clients /\ conn[a] # Null
        /\ RequestMsg(w, a) \in Msgs
    BY EntryType DEF ReadQuery
  <1>2. /\ PushMsg(w, Server, RequestMsg(w, a))
        /\ conn' = [conn EXCEPT ![a].sent = TRUE]
        /\ entered' = Append(entered, conn[a].client)
        /\ UNCHANGED <<kernel, next_worker_index_, q_conn_, pipe, conns_, slot,
                       uncertified, got, processed>>
    BY DEF ReadQuery
  <1> HIDE DEF a
  <1>3. /\ [conn[a] EXCEPT !.sent = TRUE] \in Conns
        /\ [conn[a] EXCEPT !.sent = TRUE].fd = conn[a].fd
        /\ [conn[a] EXCEPT !.sent = TRUE].client = conn[a].client
    BY <1>1 DEF Conns
  <1>4. /\ conn' \in [Addrs -> Conns \cup {Null}] /\ conn'[a] = [conn[a] EXCEPT !.sent = TRUE]
        /\ \A b \in Addrs : b # a => conn'[b] = conn[b]
    BY <1>1, <1>2, <1>3 DEF TableInv, TypeOK
  <1>5. /\ q_msg_' \in [Owners -> Seq(Msgs)]
        /\ owing' \in [Threads -> {<<>>} \cup (Owners \X {"NEW_CONN", "RTC_MSG"})]
    BY <1>1, <1>2, PushType DEF TableInv
  <1>6. entered' \in Seq(Clients)
    BY <1>1, <1>2 DEF TableInv, TypeOK
  <1>7. TypeOK'
    BY <1>2, <1>4, <1>5, <1>6 DEF TableInv, TypeOK, kernel
  <1>8. [conn[a] EXCEPT !.sent = TRUE] # Null
    BY <1>3, NullAssumption
  <1> QED BY <1>1, <1>2, <1>3, <1>4, <1>7, <1>8, SameConnTable DEF kernel

(* A result queued for its connection, or dropped, keeps the tables.       *)
LEMMA ResponseTable ==
  ASSUME TableInv, NEW w \in Sigs, ResponseServerOffer(w)
  PROVE  TableInv'
  <1> USE ThreadKinds
  <1> DEFINE m == Head(q_msg_[w])
             a == conns_[w][m.fd]
  <1>1. /\ conn' = IF IsCurrent(w, m)
                   THEN [conn EXCEPT ![a].reply_list = Append(@, m.from)]
                   ELSE conn
        /\ q_msg_[w] # <<>> /\ q_msg_' = [q_msg_ EXCEPT ![w] = Tail(@)]
        /\ UNCHANGED <<kernel, next_worker_index_, q_conn_, owing, conns_, slot,
                       uncertified, history>>
    BY DEF ResponseServerOffer
  <1>2. q_msg_[w] \in Seq(Msgs)
    BY DEF TableInv, TypeOK
  <1>3. m \in Msgs /\ Tail(q_msg_[w]) \in Seq(Msgs)
    <2>1. q_msg_[w] # <<>>
      BY <1>1
    <2> QED BY ONLY <1>2, <2>1
  <1>4. m.fd \in Fds /\ m.from \in Clients /\ m.conn \in Addrs
    BY <1>3 DEF Msgs
  <1>5. q_msg_' \in [Owners -> Seq(Msgs)]
    BY <1>1, <1>3 DEF TableInv, TypeOK
  <1>6. pipe' \in [Owners -> Seq({"NEW_CONN", "RTC_MSG"})]
    BY RecvType DEF ResponseServerOffer, TableInv
  <1>7. CASE conn' = conn
    <2>1. TypeOK'
      BY <1>1, <1>5, <1>6, <1>7 DEF TableInv, TypeOK, kernel, history
    <2> QED BY <1>1, <1>7, <2>1, SameConnTable DEF kernel
  <1>8. CASE IsCurrent(w, m)
    <2> DEFINE k == [conn[a] EXCEPT !.reply_list = Append(@, m.from)]
    <2>1. a # Null /\ conn' = [conn EXCEPT ![a].reply_list = Append(@, m.from)]
      BY <1>1, <1>4, <1>8, NullAssumption DEF IsCurrent
    <2>2. a \in Addrs /\ conn[a] \in Conns /\ conn[a] # Null
      BY <1>4, <2>1, EntryType
    <2> HIDE DEF a, m
    <2>3. conn[a].reply_list \in Seq(Clients)
      BY <2>2 DEF Conns
    <2>4. Append(conn[a].reply_list, m.from) \in Seq(Clients)
      BY <1>4, <2>3
    <2>5. k \in Conns /\ k.fd = conn[a].fd /\ k.client = conn[a].client
      BY <2>2, <2>4 DEF Conns
    <2>6. conn' = [conn EXCEPT ![a] = k]
      BY <2>1
    <2> HIDE DEF k
    <2>7. /\ conn' \in [Addrs -> Conns \cup {Null}] /\ conn'[a] = k
          /\ \A b \in Addrs : b # a => conn'[b] = conn[b]
      BY <2>2, <2>5, <2>6 DEF TableInv, TypeOK
    <2>8. TypeOK'
      BY <1>1, <1>5, <1>6, <2>7 DEF TableInv, TypeOK, kernel, history
    <2>9. k # Null
      BY <2>5, NullAssumption
    <2> QED BY <1>1, <2>2, <2>5, <2>7, <2>8, <2>9, SameConnTable DEF kernel
  <1> QED BY <1>1, <1>7, <1>8

(* A reply that is written leaves the list of its connection.              *)
LEMMA WriteReplyTable ==
  ASSUME TableInv, NEW w \in Sigs, NEW f \in Fds, WriteReply(w, f)
  PROVE  TableInv'
  <1> DEFINE a == conns_[w][f]
             k == [conn[a] EXCEPT !.reply_list = <<>>]
  <1>1. a \in Addrs /\ conn[a] \in Conns /\ conn[a] # Null
    BY EntryType DEF WriteReply
  <1>2. /\ got' = [got EXCEPT ![fdOwner[f]] = @ \cup ToSet(conn[a].reply_list)]
        /\ conn' = [conn EXCEPT ![a] = k]
        /\ UNCHANGED <<kernel, next_worker_index_, queues, conns_, slot,
                       uncertified, entered, processed>>
    BY DEF WriteReply
  <1> HIDE DEF a
  <1>3. k \in Conns /\ k.fd = conn[a].fd /\ k.client = conn[a].client
    <2>1. <<>> \in Seq(Clients)
      OBVIOUS
    <2> QED BY <1>1, <2>1 DEF Conns
  <1>4. conn[a].reply_list \in Seq(Clients)
    BY <1>1 DEF Conns
  <1>5. ToSet(conn[a].reply_list) \subseteq Clients
    BY <1>4 DEF ToSet
  <1> HIDE DEF k
  <1>6. /\ conn' \in [Addrs -> Conns \cup {Null}] /\ conn'[a] = k
        /\ \A b \in Addrs : b # a => conn'[b] = conn[b]
    BY <1>1, <1>2, <1>3 DEF TableInv, TypeOK
  <1>7. got' \in [Clients -> SUBSET Clients]
    BY <1>2, <1>5 DEF TableInv, TypeOK
  <1>8. TypeOK'
    BY <1>2, <1>6, <1>7 DEF TableInv, TypeOK, kernel, queues
  <1>9. k # Null
    BY <1>3, NullAssumption
  <1> QED BY <1>1, <1>2, <1>3, <1>6, <1>8, <1>9, SameConnTable DEF kernel, queues

(* A message moves from one queue to another.                              *)
LEMMA MoveType ==
  ASSUME TypeOK, NEW t \in Owners, NEW u \in Owners, t # u, q_msg_[t] # <<>>,
         q_msg_' = [q_msg_ EXCEPT ![t] = Tail(@), ![u] = Append(@, Head(q_msg_[t]))],
         owing' = [owing EXCEPT ![t] = <<u, "RTC_MSG">>]
  PROVE  /\ q_msg_' \in [Owners -> Seq(Msgs)]
         /\ owing' \in [Threads -> {<<>>} \cup (Owners \X {"NEW_CONN", "RTC_MSG"})]
         /\ Head(q_msg_[t]) \in Msgs
         /\ q_msg_'[t] = Tail(q_msg_[t]) /\ q_msg_'[u] = Append(q_msg_[u], Head(q_msg_[t]))
         /\ \A o \in Owners : o # t /\ o # u => q_msg_'[o] = q_msg_[o]
  <1>1. q_msg_[t] \in Seq(Msgs) /\ q_msg_[u] \in Seq(Msgs)
    BY DEF TypeOK
  <1>2. Head(q_msg_[t]) \in Msgs /\ Tail(q_msg_[t]) \in Seq(Msgs)
    BY <1>1
  <1>3. Append(q_msg_[u], Head(q_msg_[t])) \in Seq(Msgs)
    BY <1>1, <1>2
  <1>4. /\ q_msg_'[t] = Tail(q_msg_[t]) /\ q_msg_'[u] = Append(q_msg_[u], Head(q_msg_[t]))
        /\ \A o \in Owners : o # t /\ o # u => q_msg_'[o] = q_msg_[o]
    BY DEF TypeOK
  <1>5. q_msg_' \in [Owners -> Seq(Msgs)]
    BY <1>2, <1>3 DEF TypeOK
  <1>6. <<u, "RTC_MSG">> \in {<<>>} \cup (Owners \X {"NEW_CONN", "RTC_MSG"})
    OBVIOUS
  <1>7. owing' \in [Threads -> {<<>>} \cup (Owners \X {"NEW_CONN", "RTC_MSG"})]
    BY <1>6 DEF TypeOK
  <1> QED BY <1>2, <1>4, <1>5, <1>7

(* Route and ProcessRtcMsg as moves.                                       *)
LEMMA RouteMoves ==
  ASSUME TypeOK, Route
  PROVE  /\ Server \in Owners /\ GetWorker(Head(q_msg_[Server]).from) \in Rtcs
         /\ q_msg_[Server] # <<>> /\ Head(q_msg_[Server]) \in Msgs
         /\ q_msg_' = [q_msg_ EXCEPT ![Server] = Tail(@),
                        ![GetWorker(Head(q_msg_[Server]).from)] = Append(@, Head(q_msg_[Server]))]
         /\ owing' = [owing EXCEPT ![Server] = <<GetWorker(Head(q_msg_[Server]).from), "RTC_MSG">>]
  <1>1. Head(q_msg_[Server]) \in Msgs
    BY ThreadKinds DEF TypeOK, Route
  <1>2. Head(q_msg_[Server]).from \in Clients
    BY <1>1 DEF Msgs
  <1> QED BY <1>1, <1>2, WorkerOfRequest, ThreadKinds DEF Route

(* An RTC worker moves a message back to the signaling worker it came      *)
(* from.                                                                   *)
LEMMA ProcessMoves ==
  ASSUME TypeOK, NEW r \in Rtcs, ProcessRtcMsg(r)
  PROVE  /\ r \in Owners /\ Head(q_msg_[r]).worker \in Sigs
         /\ q_msg_[r] # <<>> /\ Head(q_msg_[r]) \in Msgs
         /\ q_msg_' = [q_msg_ EXCEPT ![r] = Tail(@),
                        ![Head(q_msg_[r]).worker] = Append(@, Head(q_msg_[r]))]
         /\ owing' = [owing EXCEPT ![r] = <<Head(q_msg_[r]).worker, "RTC_MSG">>]
  <1>1. Head(q_msg_[r]) \in Msgs
    BY ThreadKinds DEF TypeOK, ProcessRtcMsg
  <1>2. Head(q_msg_[r]).worker \in Sigs
    BY <1>1 DEF Msgs
  <1> QED BY <1>1, <1>2, ThreadKinds DEF ProcessRtcMsg

(* Routing and executing requests does not touch the tables.               *)
LEMMA RoutingTable ==
  ASSUME TableInv, Route \/ RouteFails \/ \E r \in Rtcs : ProcessRtcMsg(r)
  PROVE  TableInv'
  <1> USE ThreadKinds
  <1>1. TypeOK
    BY DEF TableInv
  <1>2. CASE Route
    <2>1. pipe' \in [Owners -> Seq({"NEW_CONN", "RTC_MSG"})]
      BY <1>1, <1>2, RecvType DEF Route
    <2>2. UNCHANGED <<kernel, next_worker_index_, q_conn_, table, uncertified, history>>
      BY <1>2 DEF Route
    <2>3. GetWorker(Head(q_msg_[Server]).from) \in Owners \ {Server}
      BY <1>1, <1>2, RouteMoves
    <2>4. /\ q_msg_' \in [Owners -> Seq(Msgs)]
          /\ owing' \in [Threads -> {<<>>} \cup (Owners \X {"NEW_CONN", "RTC_MSG"})]
      BY <1>1, <1>2, <2>3, RouteMoves, MoveType
    <2>5. TypeOK'
      BY <2>1, <2>2, <2>4 DEF TableInv, TypeOK, kernel, table, history
    <2> QED BY <2>2, <2>5, SameConnTable DEF kernel, table
  <1>3. CASE RouteFails
    <2>1. pipe' \in [Owners -> Seq({"NEW_CONN", "RTC_MSG"})]
      BY <1>1, <1>3, RecvType DEF RouteFails
    <2>2. UNCHANGED <<kernel, next_worker_index_, q_conn_, owing, table, history>>
      BY <1>3 DEF RouteFails
    <2>3. Tail(q_msg_[Server]) \in Seq(Msgs)
      BY <1>1, <1>3 DEF RouteFails, TypeOK
    <2>4. q_msg_' \in [Owners -> Seq(Msgs)]
      BY <1>1, <1>3, <2>3 DEF RouteFails, TypeOK
    <2>5. uncertified' \subseteq Clients
      <3>1. Head(q_msg_[Server]) \in Msgs
        BY <1>1, <1>3 DEF RouteFails, TypeOK
      <3>2. Head(q_msg_[Server]).from \in Clients
        BY <3>1 DEF Msgs
      <3> QED BY <1>1, <1>3, <3>2 DEF RouteFails, TypeOK
    <2>6. TypeOK'
      BY <2>1, <2>2, <2>4, <2>5 DEF TableInv, TypeOK, kernel, table, history
    <2> QED BY <2>2, <2>6, SameConnTable DEF kernel, table
  <1>4. ASSUME NEW r \in Rtcs, ProcessRtcMsg(r) PROVE TableInv'
    <2>1. pipe' \in [Owners -> Seq({"NEW_CONN", "RTC_MSG"})]
      BY <1>1, <1>4, RecvType DEF ProcessRtcMsg
    <2>2. UNCHANGED <<kernel, next_worker_index_, q_conn_, table, uncertified, got, entered>>
      BY <1>4 DEF ProcessRtcMsg
    <2>3. Head(q_msg_[r]).worker \in Owners \ {r}
      BY <1>1, <1>4, ProcessMoves
    <2>4. /\ q_msg_' \in [Owners -> Seq(Msgs)]
          /\ owing' \in [Threads -> {<<>>} \cup (Owners \X {"NEW_CONN", "RTC_MSG"})]
      BY <1>1, <1>4, <2>3, ProcessMoves, MoveType
    <2>5. Head(q_msg_[r]).from \in Clients
      BY <1>1, <1>4, ProcessMoves DEF Msgs
    <2>6. Append(processed[r], Head(q_msg_[r]).from) \in Seq(Clients)
      BY <1>1, <2>5 DEF TypeOK
    <2>7. processed' \in [Rtcs -> Seq(Clients)]
      BY <1>1, <1>4, <2>6 DEF TypeOK, ProcessRtcMsg
    <2>8. TypeOK'
      BY <2>1, <2>2, <2>4, <2>7 DEF TableInv, TypeOK, kernel, table
    <2> QED BY <2>2, <2>8, SameConnTable DEF kernel, table
  <1> QED BY <1>2, <1>3, <1>4

(* A client that hangs up changes no table by that.                        *)
LEMMA HangUpTable ==
  ASSUME TableInv, NEW c \in MayHangUp, HangUp(c)
  PROVE  TableInv'
  <1>1. TypeOK'
    BY HangUpAssumption DEF TableInv, TypeOK, HangUp, queues, table, history
  <1> QED BY <1>1, SameConnTable DEF HangUp, queues, table

(* However clients connect, hang up, time out and come back on the same    *)
(* descriptor, the tables agree with the kernel.                           *)
THEOREM TableInvariance == Spec => []TableInv
  <1>1. TableInv /\ [Next]_vars => TableInv'
    <2> SUFFICES ASSUME TableInv, [Next]_vars PROVE TableInv'
      OBVIOUS
    <2>1. ASSUME NEW w \in Sigs, NEW f \in Fds,
                 \/ ReadQuery(w, f) \/ ReadQueryFails(w, f) \/ ProcessTimeout(w, f)
                 \/ WriteReply(w, f) \/ WriteReplyFails(w, f)
          PROVE  TableInv'
      BY <2>1, ReadQueryTable, WriteReplyTable, CloseConnTable
         DEF ReadQueryFails, ProcessTimeout, WriteReplyFails
    <2>2. CASE UNCHANGED vars
      <3>1. TypeOK'
        BY <2>2 DEF vars, kernel, queues, table, history, TableInv, TypeOK
      <3> QED BY <2>2, <3>1, SameConnTable DEF vars, kernel, queues, table
    <2>3. CASE Next
      BY <2>1, <2>3, AcceptTable, NotifyTable, NewConnTable, ResponseTable, RoutingTable,
         HangUpTable DEF Next
    <2> QED BY <2>2, <2>3
  <1> QED BY <1>1, InitTable, PTL DEF Spec

(* The table of a worker never confuses the sockets of two clients, for    *)
(* any number of workers, although the kernel reuses numbers at once       *)
(* (NewConn, CloseConn and RemoveConn of SignalingWorker).                 *)
THEOREM TablesAreSound == Spec => []ConnTableSound
  <1>1. TableInv => ConnTableSound
    <2> SUFFICES ASSUME TableInv, NEW w \in Sigs, NEW f \in Fds, conns_[w][f] # Null
                 PROVE  /\ conn[conns_[w][f]] # Null
                        /\ conn[conns_[w][f]].fd = f
                        /\ fdOwner[f] = conn[conns_[w][f]].client
                        /\ \A v \in Sigs \ {w}, g \in Fds : conns_[v][g] # conns_[w][f]
      BY DEF ConnTableSound
    <2>1. \A v \in Sigs \ {w}, g \in Fds : conns_[v][g] # conns_[w][f]
      BY DEF TableInv, TableEntries, OneTable
    <2> QED BY <2>1 DEF TableInv, TableEntries
  <1> QED BY <1>1, TableInvariance, PTL

----------------------------------------------------------------------------
(* Clients and their slots                                                 *)

(* What a step may not do to a slot that was given, or to a closed client. *)
SlotsKept ==
  \A c \in Clients : /\ slot[c] # Null => slot'[c] = slot[c]
                     /\ cstate[c] = "closed" => cstate'[c] = "closed"

(* A client is accepted once, so it owned no descriptor before.            *)
LEMMA AcceptClients ==
  ASSUME TableInv, ClientInv, NEW c \in Clients, NEW f \in Fds, AcceptNewConn(c, f)
  PROVE  ClientInv' /\ SlotsKept
  <1> DEFINE w == <<"sig", next_worker_index_>>
  <1>1. w \in Sigs
    BY NextWorker DEF TableInv, TypeOK
  <1>2. /\ fdOwner[f] = Null /\ cstate[c] = "none"
        /\ fdOwner' = [fdOwner EXCEPT ![f] = c]
        /\ cstate' = [cstate EXCEPT ![c] = "accepted"]
        /\ q_conn_' = [q_conn_ EXCEPT ![w] = Append(@, f)]
        /\ UNCHANGED <<conns_, conn, slot>>
    BY DEF AcceptNewConn, LowestFree, table
  <1> HIDE DEF w
  <1>3. /\ fdOwner \in [Fds -> Clients \cup {Null}] /\ cstate \in [Clients -> {"none", "accepted", "open", "closed"}]
        /\ q_conn_ \in [Sigs -> Seq(Fds)]
        /\ conns_ \in [Sigs -> [Fds -> Addrs \cup {Null}]]
        /\ conn \in [Addrs -> Conns \cup {Null}]
        /\ slot \in [Clients -> (Sigs \X Fds \X Addrs) \cup {Null}]
    BY DEF TableInv, TypeOK
  <1>4. /\ \A d \in Clients : cstate'[d] = IF d = c THEN "accepted" ELSE cstate[d]
        /\ \A g \in Fds : fdOwner'[g] = IF g = f THEN c ELSE fdOwner[g]
        /\ \A g \in Fds : fdOwner[g] # c
    <2>1. \A g \in Fds : fdOwner[g] # c
      BY <1>2, NullAssumption DEF ClientInv, OneSocket
    <2> QED BY <1>2, <1>3, <2>1
  <1>5. \A v \in Sigs : \A i \in 1 .. Len(q_conn_'[v]) :
          \/ i \in 1 .. Len(q_conn_[v]) /\ q_conn_'[v][i] = q_conn_[v][i]
          \/ q_conn_'[v][i] = f
    BY <1>1, <1>2, <1>3
  <1>6. \A v \in Sigs : \A i \in 1 .. Len(q_conn_[v]) :
          /\ q_conn_[v][i] \in Fds /\ q_conn_[v][i] # f
          /\ fdOwner[q_conn_[v][i]] \in Clients
    BY <1>2, <1>3 DEF TableInv, QueuedFds
  <1>7. OneSocket'
    <2>1. \A g \in Fds : fdOwner'[g] # Null => cstate'[fdOwner'[g]] \in {"accepted", "open"}
      BY <1>3, <1>4 DEF ClientInv, OneSocket
    <2>2. \A g, h \in Fds : fdOwner'[g] # Null /\ fdOwner'[g] = fdOwner'[h] => g = h
      BY <1>4 DEF ClientInv, OneSocket
    <2>3. \A v \in Sigs : \A i \in 1 .. Len(q_conn_'[v]) :
            cstate'[fdOwner'[q_conn_'[v][i]]] = "accepted"
      <3> SUFFICES ASSUME NEW v \in Sigs, NEW i \in 1 .. Len(q_conn_'[v])
                   PROVE  cstate'[fdOwner'[q_conn_'[v][i]]] = "accepted"
        OBVIOUS
      <3>1. CASE q_conn_'[v][i] = f
        BY <1>4, <3>1
      <3>2. CASE i \in 1 .. Len(q_conn_[v]) /\ q_conn_'[v][i] = q_conn_[v][i]
        BY <1>4, <1>6, <3>2 DEF ClientInv, OneSocket
      <3> QED BY <1>5, <3>1, <3>2
    <2> QED BY <2>1, <2>2, <2>3 DEF OneSocket
  <1>8. slot[c] = Null
    BY <1>2 DEF ClientInv, SlotsHeld
  <1>9. SlotsHeld'
    BY <1>2, <1>4, <1>8 DEF ClientInv, SlotsHeld
  <1>10. SlotsKept
    BY <1>2, <1>4 DEF SlotsKept
  <1> QED BY <1>7, <1>9, <1>10 DEF ClientInv

(* The client of a new connection gets its slot, and its only one; the     *)
(* address was that of no open connection.                                 *)
LEMMA NewConnClients ==
  ASSUME TableInv, ClientInv, NEW w \in Sigs, NewConn(w)
  PROVE  ClientInv' /\ SlotsKept
  <1> DEFINE f == Head(q_conn_[w])
             c == fdOwner[f]
             k == [fd |-> f, client |-> c, sent |-> FALSE, reply_list |-> <<>>]
  <1>1. /\ fdOwner \in [Fds -> Clients \cup {Null}] /\ cstate \in [Clients -> {"none", "accepted", "open", "closed"}]
        /\ q_conn_ \in [Sigs -> Seq(Fds)]
        /\ conns_ \in [Sigs -> [Fds -> Addrs \cup {Null}]]
        /\ conn \in [Addrs -> Conns \cup {Null}]
        /\ slot \in [Clients -> (Sigs \X Fds \X Addrs) \cup {Null}]
    BY DEF TableInv, TypeOK
  <1>2. PICK a \in FreeAddrs :
           /\ conn' = [conn EXCEPT ![a] = k]
           /\ conns_' = [conns_ EXCEPT ![w][f] = a]
           /\ slot' = [slot EXCEPT ![c] = <<w, f, a>>]
           /\ cstate' = [cstate EXCEPT ![c] = "open"]
    BY DEF NewConn
  <1>3. q_conn_[w] # <<>> /\ q_conn_' = [q_conn_ EXCEPT ![w] = Tail(@)] /\ fdOwner' = fdOwner
    BY DEF NewConn
  <1>4. q_conn_[w] \in Seq(Fds)
    BY <1>1
  <1>5. 1 \in 1 .. Len(q_conn_[w]) /\ f = q_conn_[w][1] /\ f \in Fds
    BY <1>3, <1>4
  <1>6. c \in Clients /\ cstate[c] = "accepted" /\ slot[c] = Null /\ c # Null
    <2>1. c # Null
      BY <1>5 DEF TableInv, QueuedFds
    <2>2. c \in Clients /\ cstate[c] = "accepted"
      BY <1>1, <1>5, <2>1 DEF ClientInv, OneSocket
    <2>3. slot[c] = Null
      BY <2>2 DEF ClientInv, SlotsHeld
    <2> QED BY <2>1, <2>2, <2>3
  <1>7. k.client = c /\ k # Null
    <2>1. k \in Conns
      BY <1>5, <1>6 DEF Conns
    <2> QED BY <2>1, NullAssumption
  <1>8. /\ a \in Addrs /\ conn[a] = Null /\ a # Null
        /\ <<w, f, a>> # Null /\ <<w, f, a>>[3] = a
    BY <1>5, NullAssumption DEF FreeAddrs
  <1> HIDE DEF k, c, f
  <1>9. /\ \A v \in Sigs, g \in Fds :
             conns_'[v][g] = IF v = w /\ g = f THEN a ELSE conns_[v][g]
        /\ \A b \in Addrs : conn'[b] = IF b = a THEN k ELSE conn[b]
        /\ \A d \in Clients : slot'[d] = IF d = c THEN <<w, f, a>> ELSE slot[d]
        /\ \A d \in Clients : cstate'[d] = IF d = c THEN "open" ELSE cstate[d]
    BY <1>1, <1>2, <1>5, <1>6, <1>8
  <1>10. /\ \A v \in Sigs : v # w => q_conn_'[v] = q_conn_[v]
         /\ q_conn_'[w] = Tail(q_conn_[w])
    BY <1>1, <1>3
  <1>11. \A i \in 1 .. Len(q_conn_'[w]) :
           /\ i + 1 \in 1 .. Len(q_conn_[w]) /\ i + 1 # 1
           /\ q_conn_'[w][i] = q_conn_[w][i + 1]
    <2>1. q_conn_[w] # <<>> /\ q_conn_'[w] = Tail(q_conn_[w])
      BY <1>3, <1>10
    <2>2. /\ Len(Tail(q_conn_[w])) \in Nat
          /\ \A i \in 1 .. Len(Tail(q_conn_[w])) :
               i + 1 \in 1 .. Len(q_conn_[w]) /\ Tail(q_conn_[w])[i] = q_conn_[w][i + 1]
      BY <1>4, <2>1, TailElements
    <2> QED BY <2>1, <2>2
  <1>12. OneSocket'
    <2>1. \A g \in Fds : fdOwner'[g] # Null => cstate'[fdOwner'[g]] \in {"accepted", "open"}
      BY <1>1, <1>3, <1>9 DEF ClientInv, OneSocket
    <2>2. \A g, h \in Fds : fdOwner'[g] # Null /\ fdOwner'[g] = fdOwner'[h] => g = h
      BY <1>3 DEF ClientInv, OneSocket
    <2>3. ASSUME NEW v \in Sigs, NEW i \in 1 .. Len(q_conn_'[v])
          PROVE  cstate'[fdOwner'[q_conn_'[v][i]]] = "accepted"
      <3>1. PICK j \in 1 .. Len(q_conn_[v]) :
              q_conn_'[v][i] = q_conn_[v][j] /\ (v = w => j # 1)
        <4>1. CASE v = w
          BY <1>11, <4>1
        <4>2. CASE v # w
          BY <1>10, <4>2
        <4> QED BY <4>1, <4>2
      <3>2. q_conn_[v][j] \in Fds /\ fdOwner[q_conn_[v][j]] \in Clients
        BY <1>1 DEF TableInv, QueuedFds
      <3>3. q_conn_[v][j] # f
        BY <1>5, <3>1 DEF TableInv, QueuedFds
      <3>4. fdOwner[q_conn_[v][j]] # c
        BY <1>5, <1>6, <3>2, <3>3 DEF ClientInv, OneSocket, c
      <3> QED BY <1>3, <1>9, <3>1, <3>2, <3>4 DEF ClientInv, OneSocket
    <2> QED BY <2>1, <2>2, <2>3 DEF OneSocket
  <1>13. SlotsHeld'
    <2>1. \A d \in Clients : slot'[d] # Null => cstate'[d] \in {"open", "closed"}
      BY <1>9 DEF ClientInv, SlotsHeld
    <2>2. ASSUME NEW d \in Clients, cstate'[d] = "open"
          PROVE  slot'[d] # Null /\ conn'[slot'[d][3]] # Null /\ conn'[slot'[d][3]].client = d
      <3>1. CASE d = c
        <4>1. slot'[d] = <<w, f, a>>
          BY <1>9, <3>1
        <4>2. slot'[d][3] = a /\ conn'[a] = k
          BY <1>8, <1>9, <4>1
        <4> QED BY <1>7, <1>8, <3>1, <4>1, <4>2
      <3>2. CASE d # c
        <4>1. /\ slot'[d] = slot[d] /\ slot[d] # Null
              /\ conn[slot[d][3]] # Null /\ conn[slot[d][3]].client = d
          BY <1>9, <2>2, <3>2 DEF ClientInv, SlotsHeld
        <4>2. slot[d] \in Sigs \X Fds \X Addrs
          BY <1>1, <4>1
        <4>3. slot[d][3] \in Addrs /\ slot[d][3] # a
          BY <1>8, <4>1, <4>2
        <4> QED BY <1>9, <4>1, <4>3
      <3> QED BY <3>1, <3>2
    <2>3. ASSUME NEW v \in Sigs, NEW g \in Fds, conns_'[v][g] # Null
          PROVE  slot'[conn'[conns_'[v][g]].client] = <<v, g, conns_'[v][g]>>
      <3>1. CASE v = w /\ g = f
        <4>1. conns_'[v][g] = a /\ conn'[a] = k
          BY <1>8, <1>9, <3>1
        <4> QED BY <1>6, <1>7, <1>9, <3>1, <4>1
      <3>2. CASE ~(v = w /\ g = f)
        <4> DEFINE b == conns_[v][g]
        <4>1. conns_'[v][g] = b /\ b # Null
          BY <1>9, <2>3, <3>2
        <4>2. b \in Addrs /\ conn[b] # Null /\ conn[b].client \in Clients
          BY <4>1, EntryType
        <4>3. slot[conn[b].client] = <<v, g, b>>
          BY <4>1 DEF ClientInv, SlotsHeld
        <4> HIDE DEF b
        <4>4. conn'[b] = conn[b]
          BY <1>8, <1>9, <4>2
        <4>5. <<v, g, b>> # Null
          BY <4>2, NullAssumption
        <4>6. conn[b].client # c
          BY <1>6, <4>3, <4>5
        <4> QED BY <1>9, <4>1, <4>2, <4>3, <4>4, <4>6
      <3> QED BY <3>1, <3>2
    <2> QED BY <2>1, <2>2, <2>3 DEF SlotsHeld
  <1>14. SlotsKept
    BY <1>6, <1>9 DEF SlotsKept
  <1> QED BY <1>12, <1>13, <1>14 DEF ClientInv

(* Closing takes the descriptor from the one client that owned it.         *)
LEMMA CloseConnClients ==
  ASSUME TableInv, ClientInv, NEW w \in Sigs, NEW f \in Fds, conns_[w][f] # Null,
         CloseConn(w, conns_[w][f])
  PROVE  ClientInv' /\ SlotsKept
  <1> DEFINE a == conns_[w][f]
             c == conn[a].client
  <1>1. /\ fdOwner \in [Fds -> Clients \cup {Null}] /\ cstate \in [Clients -> {"none", "accepted", "open", "closed"}]
        /\ q_conn_ \in [Sigs -> Seq(Fds)]
        /\ conns_ \in [Sigs -> [Fds -> Addrs \cup {Null}]]
        /\ conn \in [Addrs -> Conns \cup {Null}]
        /\ slot \in [Clients -> (Sigs \X Fds \X Addrs) \cup {Null}]
    BY DEF TableInv, TypeOK
  <1>2. /\ a \in Addrs /\ conn[a] # Null /\ conn[a].fd = f /\ c = fdOwner[f] /\ c \in Clients
        /\ slot[c] = <<w, f, a>>
    BY EntryType DEF ClientInv, SlotsHeld
  <1>3. /\ fdOwner' = [fdOwner EXCEPT ![f] = Null]
        /\ cstate' = [cstate EXCEPT ![c] = "closed"]
        /\ conns_' = [conns_ EXCEPT ![w][f] = Null]
        /\ conn' = [conn EXCEPT ![a] = Null]
        /\ UNCHANGED <<q_conn_, slot>>
    BY <1>2 DEF CloseConn, queues
  <1> HIDE DEF a, c
  <1>4. /\ \A v \in Sigs, g \in Fds :
             conns_'[v][g] = IF v = w /\ g = f THEN Null ELSE conns_[v][g]
        /\ \A b \in Addrs : conn'[b] = IF b = a THEN Null ELSE conn[b]
        /\ \A d \in Clients : cstate'[d] = IF d = c THEN "closed" ELSE cstate[d]
        /\ \A g \in Fds : fdOwner'[g] = IF g = f THEN Null ELSE fdOwner[g]
    BY <1>1, <1>2, <1>3
  <1>5. \A g \in Fds : g # f => fdOwner[g] # c
    BY <1>2, NullAssumption DEF ClientInv, OneSocket
  <1>6. OneSocket'
    <2>1. \A g \in Fds : fdOwner'[g] # Null => cstate'[fdOwner'[g]] \in {"accepted", "open"}
      BY <1>1, <1>4, <1>5 DEF ClientInv, OneSocket
    <2>2. \A g, h \in Fds : fdOwner'[g] # Null /\ fdOwner'[g] = fdOwner'[h] => g = h
      BY <1>4 DEF ClientInv, OneSocket
    <2>3. ASSUME NEW v \in Sigs, NEW i \in 1 .. Len(q_conn_'[v])
          PROVE  cstate'[fdOwner'[q_conn_'[v][i]]] = "accepted"
      <3>1. /\ q_conn_' = q_conn_ /\ i \in 1 .. Len(q_conn_[v]) /\ q_conn_[v][i] \in Fds
            /\ q_conn_[v][i] # f /\ fdOwner[q_conn_[v][i]] \in Clients
        <4>1. q_conn_' = q_conn_ /\ i \in 1 .. Len(q_conn_[v])
          BY <1>3
        <4>2. conns_[w][f] # Null
          OBVIOUS
        <4> QED BY <1>1, <4>1, <4>2 DEF TableInv, QueuedFds
      <3> QED BY <1>4, <1>5, <3>1 DEF ClientInv, OneSocket
    <2> QED BY <2>1, <2>2, <2>3 DEF OneSocket
  <1>7. SlotsHeld'
    <2>1. \A d \in Clients : slot'[d] # Null => cstate'[d] \in {"open", "closed"}
      BY <1>3, <1>4 DEF ClientInv, SlotsHeld
    <2>2. ASSUME NEW d \in Clients, cstate'[d] = "open"
          PROVE  slot'[d] # Null /\ conn'[slot'[d][3]] # Null /\ conn'[slot'[d][3]].client = d
      <3>1. /\ slot'[d] = slot[d] /\ slot[d] # Null /\ d # c
            /\ conn[slot[d][3]] # Null /\ conn[slot[d][3]].client = d
        BY <1>3, <1>4, <2>2 DEF ClientInv, SlotsHeld
      <3>2. slot[d] \in Sigs \X Fds \X Addrs
        BY <1>1, <3>1
      <3>3. slot[d][3] \in Addrs /\ slot[d][3] # a
        BY <3>1, <3>2 DEF c
      <3> QED BY <1>4, <3>1, <3>3
    <2>3. ASSUME NEW v \in Sigs, NEW g \in Fds, conns_'[v][g] # Null
          PROVE  slot'[conn'[conns_'[v][g]].client] = <<v, g, conns_'[v][g]>>
      <3> DEFINE b == conns_[v][g]
      <3>1. conns_'[v][g] = b /\ b # Null /\ ~(v = w /\ g = f)
        BY <1>4, <2>3
      <3>2. b \in Addrs /\ conn[b] # Null /\ slot[conn[b].client] = <<v, g, b>>
        BY <3>1, EntryType DEF ClientInv, SlotsHeld
      <3> HIDE DEF b
      <3>3. b # a
        <4> SUFFICES ASSUME b = a PROVE FALSE
          OBVIOUS
        <4>1. <<v, g, b>> = <<w, f, a>>
          BY <1>2, <3>2 DEF c
        <4> QED BY <3>1, <4>1
      <3>4. conn'[b] = conn[b]
        BY <1>4, <3>2, <3>3
      <3> QED BY <1>3, <3>1, <3>2, <3>4
    <2> QED BY <2>1, <2>2, <2>3 DEF SlotsHeld
  <1>8. SlotsKept
    BY <1>3, <1>4 DEF SlotsKept
  <1> QED BY <1>6, <1>7, <1>8 DEF ClientInv

(* Only what a connection has sent, or has to send, changes.               *)
LEMMA SameConnClients ==
  ASSUME TableInv, ClientInv, UNCHANGED <<fdOwner, cstate, q_conn_, conns_, slot>>,
         \A a \in Addrs : /\ conn'[a] # Null <=> conn[a] # Null
                          /\ conn[a] # Null => conn'[a].client = conn[a].client
  PROVE  ClientInv' /\ SlotsKept
  <1>1. OneSocket'
    BY DEF ClientInv, OneSocket
  <1>2. \A w \in Sigs, f \in Fds : conns_[w][f] # Null =>
          conns_[w][f] \in Addrs /\ conn[conns_[w][f]] # Null
    BY EntryType
  <1>3. \A c \in Clients : slot[c] # Null => slot[c][3] \in Addrs
    <2> SUFFICES ASSUME NEW c \in Clients, slot[c] # Null PROVE slot[c][3] \in Addrs
      OBVIOUS
    <2>1. slot[c] \in Sigs \X Fds \X Addrs
      BY DEF TableInv, TypeOK
    <2> QED BY <2>1
  <1>4. SlotsHeld'
    BY <1>2, <1>3 DEF ClientInv, SlotsHeld
  <1>5. SlotsKept
    BY DEF SlotsKept
  <1> QED BY <1>1, <1>4, <1>5 DEF ClientInv

(* A field of one connection is set: the others, and its client, stay.     *)
LEMMA SetFieldKeepsClient ==
  ASSUME TypeOK, NEW a \in Addrs, conn[a] \in Conns, NEW k \in Conns,
         k.client = conn[a].client, conn' = [conn EXCEPT ![a] = k]
  PROVE  /\ \A b \in Addrs : /\ conn'[b] # Null <=> conn[b] # Null
                             /\ conn[b] # Null => conn'[b].client = conn[b].client
         /\ conn'[a] = k /\ \A b \in Addrs : b # a => conn'[b] = conn[b]
  BY NullAssumption DEF TypeOK

(* The connection that ReadQuery, ResponseServerOffer and WriteReply       *)
(* leave.                                                                  *)
LEMMA FieldsOfConn ==
  ASSUME NEW k \in Conns, NEW c \in Clients
  PROVE  /\ LET r == [k EXCEPT !.sent = TRUE]
            IN  r \in Conns /\ r.client = k.client /\ r.reply_list = k.reply_list
         /\ LET r == [k EXCEPT !.reply_list = Append(@, c)]
            IN  r \in Conns /\ r.client = k.client /\ r.reply_list = Append(k.reply_list, c)
         /\ LET r == [k EXCEPT !.reply_list = <<>>]
            IN  r \in Conns /\ r.client = k.client /\ r.reply_list = <<>>
         /\ k.reply_list \in Seq(Clients)
  <1>1. k.reply_list \in Seq(Clients)
    BY DEF Conns
  <1>2. Append(k.reply_list, c) \in Seq(Clients) /\ <<>> \in Seq(Clients)
    BY <1>1
  <1> QED BY <1>1, <1>2 DEF Conns

(* Clients are accepted once and keep their slot in every step.            *)
LEMMA StepClients ==
  ASSUME TableInv, ClientInv, [Next]_vars
  PROVE  ClientInv' /\ SlotsKept
  <1>1. TypeOK
    BY DEF TableInv
  <1>2. ASSUME UNCHANGED <<fdOwner, cstate, q_conn_, conns_, slot, conn>>
        PROVE  ClientInv' /\ SlotsKept
    BY <1>2, SameConnClients
  <1>3. ASSUME NEW w \in Sigs, NEW f \in Fds, ReadQuery(w, f)
        PROVE  ClientInv' /\ SlotsKept
    <2> DEFINE a == conns_[w][f]
               k == [conn[a] EXCEPT !.sent = TRUE]
    <2>1. a \in Addrs /\ conn[a] \in Conns /\ conn[a].client \in Clients
      BY <1>3, EntryType DEF ReadQuery
    <2>2. k \in Conns /\ k.client = conn[a].client
      BY <2>1, FieldsOfConn
    <2>3. conn' = [conn EXCEPT ![a] = k] /\ UNCHANGED <<fdOwner, cstate, q_conn_, conns_, slot>>
      BY <1>3 DEF ReadQuery, kernel
    <2> HIDE DEF a, k
    <2>4. \A b \in Addrs : /\ conn'[b] # Null <=> conn[b] # Null
                           /\ conn[b] # Null => conn'[b].client = conn[b].client
      BY <1>1, <2>1, <2>2, <2>3, SetFieldKeepsClient
    <2> QED BY <2>3, <2>4, SameConnClients
  <1>4. ASSUME NEW w \in Sigs, NEW f \in Fds, WriteReply(w, f)
        PROVE  ClientInv' /\ SlotsKept
    <2> DEFINE a == conns_[w][f]
               k == [conn[a] EXCEPT !.reply_list = <<>>]
    <2>1. a \in Addrs /\ conn[a] \in Conns /\ conn[a].client \in Clients
      BY <1>4, EntryType DEF WriteReply
    <2>2. k \in Conns /\ k.client = conn[a].client
      BY <2>1, FieldsOfConn
    <2>3. conn' = [conn EXCEPT ![a] = k] /\ UNCHANGED <<fdOwner, cstate, q_conn_, conns_, slot>>
      BY <1>4 DEF WriteReply, kernel, queues
    <2> HIDE DEF a, k
    <2>4. \A b \in Addrs : /\ conn'[b] # Null <=> conn[b] # Null
                           /\ conn[b] # Null => conn'[b].client = conn[b].client
      BY <1>1, <2>1, <2>2, <2>3, SetFieldKeepsClient
    <2> QED BY <2>3, <2>4, SameConnClients
  <1>5. ASSUME NEW w \in Sigs, ResponseServerOffer(w)
        PROVE  ClientInv' /\ SlotsKept
    <2>1. UNCHANGED <<fdOwner, cstate, q_conn_, conns_, slot>>
      BY <1>5 DEF ResponseServerOffer, kernel
    <2>2. CASE conn' = conn
      BY <1>2, <2>1, <2>2
    <2>3. CASE conn' # conn
      <3> DEFINE m == Head(q_msg_[w])
                 a == conns_[w][m.fd]
                 k == [conn[a] EXCEPT !.reply_list = Append(@, m.from)]
      <3>1. IsCurrent(w, m) /\ conn' = [conn EXCEPT ![a] = k] /\ q_msg_[w] # <<>>
        BY <1>5, <2>3 DEF ResponseServerOffer
      <3>2. q_msg_[w] \in Seq(Msgs)
        BY <1>1, ThreadKinds DEF TypeOK
      <3>3. m \in Msgs
        <4>1. q_msg_[w] # <<>>
          BY <3>1
        <4> QED BY ONLY <3>2, <4>1
      <3>4. m.fd \in Fds /\ m.conn \in Addrs /\ m.from \in Clients /\ a # Null
        BY <3>1, <3>3, NullAssumption DEF Msgs, IsCurrent
      <3>5. a \in Addrs /\ conn[a] \in Conns
        BY <3>4, EntryType
      <3>6. k \in Conns /\ k.client = conn[a].client
        BY <3>4, <3>5, FieldsOfConn
      <3> HIDE DEF a, k, m
      <3>7. \A b \in Addrs : /\ conn'[b] # Null <=> conn[b] # Null
                             /\ conn[b] # Null => conn'[b].client = conn[b].client
        BY <1>1, <3>1, <3>5, <3>6, SetFieldKeepsClient
      <3> QED BY <2>1, <3>7, SameConnClients
    <2> QED BY <2>2, <2>3
  <1>6. ASSUME NEW w \in Sigs, NEW f \in Fds,
               ReadQueryFails(w, f) \/ ProcessTimeout(w, f) \/ WriteReplyFails(w, f)
        PROVE  ClientInv' /\ SlotsKept
    BY <1>6, CloseConnClients DEF ReadQueryFails, ProcessTimeout, WriteReplyFails
  <1>7. CASE \/ \E t \in Threads : Notify(t)
             \/ Route \/ RouteFails \/ \E r \in Rtcs : ProcessRtcMsg(r)
             \/ \E c \in MayHangUp : HangUp(c)
             \/ UNCHANGED vars
    <2>1. UNCHANGED <<fdOwner, cstate, q_conn_, conns_, slot, conn>>
      BY <1>7 DEF Notify, Route, RouteFails, ProcessRtcMsg, HangUp, vars, kernel, queues, table
    <2> QED BY <1>2, <2>1
  <1> QED BY <1>3, <1>4, <1>5, <1>6, <1>7, AcceptClients, NewConnClients DEF Next

(* Every client has one socket and one slot, whatever the kernel and the   *)
(* allocator hand out again (AcceptNewConn, NewConn, CloseConn).           *)
THEOREM ClientInvariance == Spec => []ClientInv
  <1>1. Init => ClientInv
    BY DEF Init, ClientInv, OneSocket, SlotsHeld
  <1>2. TableInv /\ ClientInv /\ [Next]_vars => ClientInv'
    BY StepClients
  <1> QED BY <1>1, <1>2, TableInvariance, PTL DEF Spec

----------------------------------------------------------------------------
(* The way of a reply                                                      *)

(* Every message of the next state is in some queue already.               *)
MsgsKept ==
  \A o \in Owners : \A i \in 1 .. Len(q_msg_'[o]) :
    \E p \in Owners : \E j \in 1 .. Len(q_msg_[p]) : q_msg_'[o][i] = q_msg_[p][j]

(* Taking a message, and moving it, invents none.                          *)
LEMMA PopKeeps ==
  ASSUME TypeOK, NEW t \in Owners, q_msg_[t] # <<>>, q_msg_' = [q_msg_ EXCEPT ![t] = Tail(@)]
  PROVE  /\ MsgsKept /\ q_msg_'[t] = Tail(q_msg_[t])
         /\ \A o \in Owners : o # t => q_msg_'[o] = q_msg_[o]
  <1>1. q_msg_[t] \in Seq(Msgs)
    BY DEF TypeOK
  <1>2. q_msg_'[t] = Tail(q_msg_[t]) /\ \A o \in Owners : o # t => q_msg_'[o] = q_msg_[o]
    BY DEF TypeOK
  <1>3. \A i \in 1 .. Len(Tail(q_msg_[t])) :
          i + 1 \in 1 .. Len(q_msg_[t]) /\ Tail(q_msg_[t])[i] = q_msg_[t][i + 1]
    BY <1>1, TailElements
  <1>4. ASSUME NEW o \in Owners, NEW i \in 1 .. Len(q_msg_'[o])
        PROVE  \E p \in Owners : \E j \in 1 .. Len(q_msg_[p]) : q_msg_'[o][i] = q_msg_[p][j]
    <2>1. CASE o = t
      BY <1>2, <1>3, <2>1
    <2>2. CASE o # t
      BY <1>2, <2>2
    <2> QED BY <2>1, <2>2
  <1> QED BY <1>2, <1>4 DEF MsgsKept

(* A message moved from one queue to another is still the same message.    *)
LEMMA MoveKeeps ==
  ASSUME TypeOK, NEW t \in Owners, NEW u \in Owners, t # u, q_msg_[t] # <<>>,
         q_msg_'[t] = Tail(q_msg_[t]), q_msg_'[u] = Append(q_msg_[u], Head(q_msg_[t])),
         \A o \in Owners : o # t /\ o # u => q_msg_'[o] = q_msg_[o]
  PROVE  MsgsKept
  <1>1. q_msg_[t] \in Seq(Msgs) /\ q_msg_[u] \in Seq(Msgs)
    BY DEF TypeOK
  <1>2. \A i \in 1 .. Len(Tail(q_msg_[t])) :
          i + 1 \in 1 .. Len(q_msg_[t]) /\ Tail(q_msg_[t])[i] = q_msg_[t][i + 1]
    BY <1>1, TailElements
  <1>3. Head(q_msg_[t]) = q_msg_[t][1] /\ 1 \in 1 .. Len(q_msg_[t])
    BY <1>1
  <1>4. \A i \in 1 .. Len(q_msg_'[u]) :
          \/ i \in 1 .. Len(q_msg_[u]) /\ q_msg_'[u][i] = q_msg_[u][i]
          \/ q_msg_'[u][i] = q_msg_[t][1]
    BY <1>1, <1>3
  <1>5. ASSUME NEW o \in Owners, NEW i \in 1 .. Len(q_msg_'[o])
        PROVE  \E p \in Owners : \E j \in 1 .. Len(q_msg_[p]) : q_msg_'[o][i] = q_msg_[p][j]
    <2>1. CASE o = t
      BY <1>2, <2>1
    <2>2. CASE o = u
      BY <1>3, <1>4, <2>2
    <2>3. CASE o # t /\ o # u
      BY <2>3
    <2> QED BY <2>1, <2>2, <2>3
  <1> QED BY <1>5 DEF MsgsKept

(* Routing and executing invent no message.                                *)
LEMMA RoutingKeeps ==
  ASSUME TypeOK, Route \/ RouteFails \/ \E r \in Rtcs : ProcessRtcMsg(r)
  PROVE  MsgsKept
  <1> USE ThreadKinds
  <1>1. CASE Route
    <2>1. GetWorker(Head(q_msg_[Server]).from) \in Owners \ {Server}
      BY <1>1, RouteMoves
    <2> QED BY <1>1, <2>1, RouteMoves, MoveType, MoveKeeps
  <1>2. CASE RouteFails
    BY <1>2, PopKeeps DEF RouteFails
  <1>3. ASSUME NEW r \in Rtcs, ProcessRtcMsg(r) PROVE MsgsKept
    <2>1. Head(q_msg_[r]).worker \in Owners \ {r}
      BY <1>3, ProcessMoves
    <2>2. /\ q_msg_'[r] = Tail(q_msg_[r])
          /\ q_msg_'[Head(q_msg_[r]).worker] = Append(q_msg_[Head(q_msg_[r]).worker], Head(q_msg_[r]))
          /\ \A o \in Owners : o # r /\ o # Head(q_msg_[r]).worker => q_msg_'[o] = q_msg_[o]
      BY <1>3, <2>1, ProcessMoves, MoveType
    <2> QED BY <1>3, <2>1, <2>2, ProcessMoves, MoveKeeps, SMTT(30)
  <1> QED BY <1>1, <1>2, <1>3

(* SameSlot after the step.                                                *)
SharesNext(c, d) == d = c \/ (cstate'[d] = "closed" /\ slot'[d] # Null /\ slot'[d] = slot'[c])

(* Two clients that share a slot go on sharing it.                         *)
LEMMA SharingKept ==
  ASSUME SlotsKept, NEW c \in Clients, NEW d \in Clients, SameSlot(c, d)
  PROVE  SharesNext(c, d)
  BY DEF SlotsKept, SameSlot, SharesNext

(* What OwnReplies says of the next state.                                 *)
LEMMA OwnRepliesNext ==
  ASSUME \A a \in Addrs : conn'[a] # Null =>
           \A i \in 1 .. Len(conn'[a].reply_list) :
             SharesNext(conn'[a].client, conn'[a].reply_list[i])
  PROVE  OwnReplies'
  BY DEF OwnReplies, SameSlot, SharesNext

(* Messages go on naming the slot of their client.                         *)
LEMMA ReferKept ==
  ASSUME TypeOK, MsgsRefer, MsgsKept, SlotsKept
  PROVE  MsgsRefer'
  <1> SUFFICES ASSUME NEW o \in Owners, NEW i \in 1 .. Len(q_msg_'[o])
               PROVE  slot'[q_msg_'[o][i].from] =
                        <<q_msg_'[o][i].worker, q_msg_'[o][i].fd, q_msg_'[o][i].conn>>
    BY DEF MsgsRefer
  <1>1. PICK p \in Owners : \E j \in 1 .. Len(q_msg_[p]) : q_msg_'[o][i] = q_msg_[p][j]
    BY DEF MsgsKept
  <1>2. PICK j \in 1 .. Len(q_msg_[p]) : q_msg_'[o][i] = q_msg_[p][j]
    BY <1>1
  <1> DEFINE m == q_msg_[p][j]
  <1>3. m \in Msgs
    BY DEF TypeOK
  <1>4. slot[m.from] = <<m.worker, m.fd, m.conn>>
    BY DEF MsgsRefer
  <1> HIDE DEF m
  <1>5. m.from \in Clients /\ slot[m.from] # Null
    BY <1>3, <1>4, NullAssumption DEF Msgs
  <1>6. slot'[m.from] = <<m.worker, m.fd, m.conn>>
    BY <1>4, <1>5 DEF SlotsKept
  <1> QED BY <1>2, <1>6 DEF m

(* Results are pushed to the worker that they name, and only RTC workers   *)
(* push to signaling workers.                                              *)
LEMMA ResultsStayHome ==
  ASSUME TypeOK, ResultsHome, [Next]_vars
  PROVE  ResultsHome'
  <1> USE ThreadKinds
  <1>1. ASSUME \A w \in Sigs : q_msg_'[w] = q_msg_[w] PROVE ResultsHome'
    BY <1>1 DEF ResultsHome
  <1>2. ASSUME NEW w \in Sigs, NEW f \in Fds, ReadQuery(w, f) PROVE ResultsHome'
    <2>1. \A v \in Sigs : q_msg_'[v] = q_msg_[v]
      BY <1>2 DEF ReadQuery, PushMsg, TypeOK
    <2> QED BY <1>1, <2>1
  <1>3. CASE Route
    <2>1. GetWorker(Head(q_msg_[Server]).from) \in Owners \ {Server}
      BY <1>3, RouteMoves
    <2>2. \A o \in Owners : o # Server /\ o # GetWorker(Head(q_msg_[Server]).from) =>
            q_msg_'[o] = q_msg_[o]
      BY <1>3, <2>1, RouteMoves, MoveType
    <2>3. \A v \in Sigs : q_msg_'[v] = q_msg_[v]
      BY <1>3, <2>2, RouteMoves
    <2> QED BY <1>1, <2>3
  <1>4. CASE RouteFails
    <2>1. \A v \in Sigs : q_msg_'[v] = q_msg_[v]
      BY <1>4 DEF RouteFails, TypeOK
    <2> QED BY <1>1, <2>1
  <1>5. ASSUME NEW r \in Rtcs, ProcessRtcMsg(r) PROVE ResultsHome'
    <2> DEFINE m == Head(q_msg_[r])
    <2>1. m.worker \in Sigs /\ m.worker \in Owners \ {r} /\ m \in Msgs
      BY <1>5, ProcessMoves
    <2>2. /\ q_msg_'[m.worker] = Append(q_msg_[m.worker], m)
          /\ \A o \in Owners : o # r /\ o # m.worker => q_msg_'[o] = q_msg_[o]
      <3>1. /\ r \in Owners /\ m.worker \in Owners /\ r # m.worker /\ q_msg_[r] # <<>>
            /\ q_msg_' = [q_msg_ EXCEPT ![r] = Tail(@), ![m.worker] = Append(@, Head(q_msg_[r]))]
            /\ owing' = [owing EXCEPT ![r] = <<m.worker, "RTC_MSG">>]
        BY <1>5, <2>1, ProcessMoves
      <3> DEFINE u == m.worker
      <3> HIDE DEF u
      <3>2. /\ q_msg_'[u] = Append(q_msg_[u], Head(q_msg_[r]))
            /\ \A o \in Owners : o # r /\ o # u => q_msg_'[o] = q_msg_[o]
        BY <3>1, MoveType DEF u
      <3> QED BY <3>2 DEF u
    <2> HIDE DEF m
    <2>3. ASSUME NEW v \in Sigs, NEW i \in 1 .. Len(q_msg_'[v])
          PROVE  q_msg_'[v][i].worker = v
      <3>1. CASE v = m.worker
        <4>1. q_msg_[v] \in Seq(Msgs)
          BY DEF TypeOK
        <4>2. \/ i \in 1 .. Len(q_msg_[v]) /\ q_msg_'[v][i] = q_msg_[v][i]
              \/ q_msg_'[v][i] = m
          BY <2>1, <2>2, <3>1, <4>1
        <4> QED BY <3>1, <4>2 DEF ResultsHome
      <3>2. CASE v # m.worker
        BY <2>2, <3>2 DEF ResultsHome
      <3> QED BY <3>1, <3>2
    <2> QED BY <2>3 DEF ResultsHome
  <1>6. ASSUME NEW w \in Sigs, ResponseServerOffer(w) PROVE ResultsHome'
    <2>1. /\ q_msg_[w] \in Seq(Msgs) /\ q_msg_[w] # <<>>
          /\ q_msg_'[w] = Tail(q_msg_[w])
          /\ \A v \in Sigs : v # w => q_msg_'[v] = q_msg_[v]
      BY <1>6 DEF ResponseServerOffer, TypeOK
    <2>2. \A i \in 1 .. Len(q_msg_'[w]) :
            i + 1 \in 1 .. Len(q_msg_[w]) /\ q_msg_'[w][i] = q_msg_[w][i + 1]
      BY <2>1, TailElements
    <2>3. ASSUME NEW v \in Sigs, NEW i \in 1 .. Len(q_msg_'[v])
          PROVE  q_msg_'[v][i].worker = v
      <3>1. CASE v = w
        BY <2>2, <3>1 DEF ResultsHome
      <3>2. CASE v # w
        BY <2>1, <3>2 DEF ResultsHome
      <3> QED BY <3>1, <3>2
    <2> QED BY <2>3 DEF ResultsHome
  <1>7. ASSUME NEW w \in Sigs, NEW f \in Fds,
               \/ ReadQueryFails(w, f) \/ ProcessTimeout(w, f)
               \/ WriteReply(w, f) \/ WriteReplyFails(w, f)
        PROVE  q_msg_' = q_msg_
    BY <1>7 DEF ReadQueryFails, ProcessTimeout, WriteReply, WriteReplyFails, CloseConn, queues
  <1>8. CASE \/ \E c \in Clients, f \in Fds : AcceptNewConn(c, f)
             \/ \E t \in Threads : Notify(t)
             \/ \E w \in Sigs : NewConn(w)
             \/ \E c \in MayHangUp : HangUp(c)
             \/ UNCHANGED vars
    <2>1. q_msg_' = q_msg_
      BY <1>8 DEF AcceptNewConn, Notify, NewConn, HangUp, vars, queues
    <2> QED BY <1>1, <2>1
  <1> QED BY <1>1, <1>2, <1>3, <1>4, <1>5, <1>6, <1>7, <1>8 DEF Next

(* Replies that are neither added nor written go on being their client's.  *)
LEMMA OwnRepliesKept ==
  ASSUME TypeOK, TypeOK', OwnReplies, SlotsKept,
         \A a \in Addrs : conn'[a] # Null =>
           \/ /\ conn[a] # Null /\ conn'[a].client = conn[a].client
              /\ conn'[a].reply_list = conn[a].reply_list
           \/ conn'[a].reply_list = <<>>
  PROVE  OwnReplies'
  <1> SUFFICES ASSUME NEW a \in Addrs, conn'[a] # Null, NEW i \in 1 .. Len(conn'[a].reply_list)
               PROVE  SharesNext(conn'[a].client, conn'[a].reply_list[i])
    BY OwnRepliesNext
  <1>1. /\ conn[a] # Null /\ conn'[a].client = conn[a].client
        /\ conn'[a].reply_list = conn[a].reply_list
    OBVIOUS
  <1>2. conn[a] \in Conns
    BY <1>1 DEF TypeOK
  <1>3. conn[a].client \in Clients /\ conn[a].reply_list \in Seq(Clients)
    BY <1>2 DEF Conns
  <1>4. conn[a].reply_list[i] \in Clients
    BY <1>1, <1>3
  <1>5. SameSlot(conn[a].client, conn[a].reply_list[i])
    BY <1>1 DEF OwnReplies
  <1>6. SharesNext(conn[a].client, conn[a].reply_list[i])
    BY <1>3, <1>4, <1>5, SharingKept
  <1> QED BY <1>1, <1>6

(* The same of the replies that were written.                              *)
LEMMA GotKept ==
  ASSUME TypeOK, ReplyToAskerOrSlot, SlotsKept, got' = got
  PROVE  ReplyToAskerOrSlot'
  <1>1. \A c \in Clients : got[c] \subseteq Clients
    BY DEF TypeOK
  <1> QED BY <1>1 DEF ReplyToAskerOrSlot, SlotsKept

(* A step that takes or moves messages, makes or deletes a connection.     *)
LEMMA SameReplies ==
  ASSUME TypeOK, TypeOK', RepliesInv, SlotsKept, MsgsKept, ResultsHome', got' = got,
         \A a \in Addrs : conn'[a] # Null =>
           \/ /\ conn[a] # Null /\ conn'[a].client = conn[a].client
              /\ conn'[a].reply_list = conn[a].reply_list
           \/ conn'[a].reply_list = <<>>
  PROVE  RepliesInv'
  BY ReferKept, OwnRepliesKept, GotKept DEF RepliesInv

(* Queues that do not change keep their messages.                          *)
LEMMA SameMsgs ==
  ASSUME TypeOK, q_msg_' = q_msg_
  PROVE  MsgsKept
  BY DEF MsgsKept

(* A connection starts without replies and takes them with it.             *)
LEMMA NewAndClosedReplies ==
  ASSUME TableInv, TypeOK', RepliesInv, SlotsKept, ResultsHome', NEW w \in Sigs,
         \/ NewConn(w)
         \/ \E f \in Fds : conns_[w][f] # Null /\ CloseConn(w, conns_[w][f])
  PROVE  RepliesInv'
  <1>1. TypeOK
    BY DEF TableInv
  <1>2. q_msg_' = q_msg_ /\ got' = got
    BY DEF NewConn, CloseConn, queues, history
  <1>3. CASE NewConn(w)
    <2> DEFINE f == Head(q_conn_[w])
               k == [fd |-> f, client |-> fdOwner[f], sent |-> FALSE, reply_list |-> <<>>]
    <2>1. PICK a \in FreeAddrs : conn' = [conn EXCEPT ![a] = k]
      BY <1>3 DEF NewConn
    <2>2. a \in Addrs /\ k.reply_list = <<>>
      BY DEF FreeAddrs
    <2> HIDE DEF k
    <2>3. \A b \in Addrs : conn'[b] = IF b = a THEN k ELSE conn[b]
      BY <1>1, <2>1, <2>2 DEF TypeOK
    <2> QED BY <1>1, <1>2, <2>2, <2>3, SameMsgs, SameReplies
  <1>4. ASSUME NEW f \in Fds, conns_[w][f] # Null, CloseConn(w, conns_[w][f]) PROVE RepliesInv'
    <2> DEFINE a == conns_[w][f]
    <2>1. a \in Addrs /\ conn' = [conn EXCEPT ![a] = Null]
      BY <1>4, EntryType DEF CloseConn
    <2>2. \A b \in Addrs : conn'[b] = IF b = a THEN Null ELSE conn[b]
      BY <1>1, <2>1 DEF TypeOK
    <2> QED BY <1>1, <1>2, <2>2, SameMsgs, SameReplies
  <1> QED BY <1>3, <1>4

(* The new message names the slot of the connection it came from.          *)
LEMMA ReadQueryReplies ==
  ASSUME TableInv, TypeOK', ClientInv, RepliesInv, SlotsKept, ResultsHome',
         NEW w \in Sigs, NEW f \in Fds, ReadQuery(w, f)
  PROVE  RepliesInv'
  <1> USE ThreadKinds
  <1> DEFINE a == conns_[w][f]
             m == RequestMsg(w, a)
             k == [conn[a] EXCEPT !.sent = TRUE]
  <1>1. /\ TypeOK /\ a \in Addrs /\ conn[a] \in Conns /\ conn[a] # Null /\ m \in Msgs
        /\ conn[a].client \in Clients /\ conn[a].fd = f /\ slot[conn[a].client] = <<w, f, a>>
    <2>1. a # Null /\ TypeOK
      BY DEF ReadQuery, TableInv
    <2>2. slot[conn[a].client] = <<w, f, a>>
      BY <2>1 DEF ClientInv, SlotsHeld
    <2> QED BY <2>1, <2>2, EntryType
  <1>2. /\ q_msg_' = [q_msg_ EXCEPT ![Server] = Append(@, m)]
        /\ conn' = [conn EXCEPT ![a] = k]
        /\ UNCHANGED <<slot, got>>
    BY DEF ReadQuery, PushMsg
  <1>3. k \in Conns /\ k.client = conn[a].client /\ k.reply_list = conn[a].reply_list
    BY <1>1, FieldsOfConn
  <1>4. m.from = conn[a].client /\ m.worker = w /\ m.fd = f /\ m.conn = a
    BY <1>1 DEF RequestMsg
  <1> HIDE DEF m, k, a
  <1>5. /\ conn'[a] = k /\ \A b \in Addrs : b # a => conn'[b] = conn[b]
        /\ q_msg_'[Server] = Append(q_msg_[Server], m)
        /\ \A o \in Owners : o # Server => q_msg_'[o] = q_msg_[o]
        /\ q_msg_[Server] \in Seq(Msgs)
    BY <1>1, <1>2 DEF TypeOK
  <1>6. MsgsRefer'
    <2> SUFFICES ASSUME NEW o \in Owners, NEW i \in 1 .. Len(q_msg_'[o])
                 PROVE  slot'[q_msg_'[o][i].from] =
                          <<q_msg_'[o][i].worker, q_msg_'[o][i].fd, q_msg_'[o][i].conn>>
      BY DEF MsgsRefer
    <2>1. CASE o = Server /\ i = Len(q_msg_[Server]) + 1
      <3>1. q_msg_'[o][i] = m
        BY <1>5, <2>1
      <3> QED BY <1>1, <1>2, <1>4, <3>1
    <2>2. CASE i \in 1 .. Len(q_msg_[o]) /\ q_msg_'[o][i] = q_msg_[o][i]
      BY <1>2, <2>2 DEF RepliesInv, MsgsRefer
    <2> QED BY <1>5, <2>1, <2>2
  <1>7. OwnReplies'
    BY <1>1, <1>3, <1>5, OwnRepliesKept DEF RepliesInv
  <1>8. ReplyToAskerOrSlot'
    BY <1>1, <1>2, GotKept DEF RepliesInv
  <1> QED BY <1>6, <1>7, <1>8 DEF RepliesInv

(* The reply is queued for the connection that has the slot of the         *)
(* message: that of its client, or of one that came after it.              *)
LEMMA ResponseReplies ==
  ASSUME TableInv, TypeOK', ClientInv, RepliesInv, SlotsKept, ResultsHome',
         NEW w \in Sigs, ResponseServerOffer(w)
  PROVE  RepliesInv'
  <1> USE ThreadKinds
  <1> DEFINE m == Head(q_msg_[w])
             a == conns_[w][m.fd]
             k == [conn[a] EXCEPT !.reply_list = Append(@, m.from)]
  <1>1. /\ conn' = IF IsCurrent(w, m) THEN [conn EXCEPT ![a] = k] ELSE conn
        /\ q_msg_[w] # <<>> /\ q_msg_' = [q_msg_ EXCEPT ![w] = Tail(@)]
        /\ UNCHANGED <<cstate, slot, got>>
    BY DEF ResponseServerOffer, kernel, history
  <1>2. TypeOK /\ MsgsKept
    BY <1>1, PopKeeps DEF TableInv
  <1>3. CASE conn' = conn
    BY <1>1, <1>2, <1>3, SameReplies
  <1>4. CASE IsCurrent(w, m)
    <2>1. q_msg_[w] \in Seq(Msgs)
      BY DEF TableInv, TypeOK
    <2>2. m = q_msg_[w][1] /\ 1 \in 1 .. Len(q_msg_[w]) /\ m \in Msgs
      <3>1. q_msg_[w] # <<>>
        BY <1>1
      <3> QED BY ONLY <2>1, <3>1
    <2>3. m.fd \in Fds /\ m.conn \in Addrs /\ a = m.conn /\ m.from \in Clients
      BY <1>4, <2>2 DEF Msgs, IsCurrent
    <2>4. a \in Addrs /\ conn[a] \in Conns /\ conn[a] # Null /\ conn[a].client \in Clients
      BY <2>3, EntryType, NullAssumption
    <2>5. slot[m.from] = <<w, m.fd, a>> /\ slot[conn[a].client] = <<w, m.fd, a>>
      <3>1. slot[m.from] = <<m.worker, m.fd, m.conn>> /\ m.worker = w
        BY <2>2 DEF RepliesInv, MsgsRefer, ResultsHome
      <3>2. slot[conn[a].client] = <<w, m.fd, a>>
        BY <2>3, NullAssumption DEF ClientInv, SlotsHeld
      <3> QED BY <2>3, <3>1, <3>2
    <2>6. SameSlot(conn[a].client, m.from)
      <3>1. slot[m.from] # Null /\ slot[m.from][3] = a
        <4>1. w \in Sigs /\ m.fd \in Fds /\ a \in Addrs
          BY <2>3, <2>4
        <4>2. <<w, m.fd, a>> \in Sigs \X Fds \X Addrs /\ <<w, m.fd, a>>[3] = a
          BY ONLY <4>1
        <4> QED BY ONLY <2>5, <4>2, NullAssumption
      <3>2. cstate[m.from] = "closed" \/ conn[a].client = m.from
        BY <2>3, <3>1 DEF ClientInv, SlotsHeld
      <3> QED BY <2>5, <3>1, <3>2 DEF SameSlot
    <2>7. conn' = [conn EXCEPT ![a] = k]
      BY <1>1, <1>4
    <2> HIDE DEF a, m
    <2>8. /\ k \in Conns /\ k.client = conn[a].client
          /\ k.reply_list = Append(conn[a].reply_list, m.from)
          /\ conn[a].reply_list \in Seq(Clients)
      BY <2>3, <2>4, FieldsOfConn
    <2> HIDE DEF k
    <2>9. conn'[a] = k /\ \A b \in Addrs : b # a => conn'[b] = conn[b]
      BY <2>4, <2>7 DEF TableInv, TypeOK
    <2>10. \A i \in 1 .. Len(k.reply_list) : SameSlot(k.client, k.reply_list[i])
      <3>1. \A i \in 1 .. Len(conn[a].reply_list) : SameSlot(conn[a].client, conn[a].reply_list[i])
        BY <2>4 DEF RepliesInv, OwnReplies
      <3> QED BY <2>3, <2>6, <2>8, <3>1
    <2>11. OwnReplies'
      <3> SUFFICES ASSUME NEW b \in Addrs, conn'[b] # Null, NEW i \in 1 .. Len(conn'[b].reply_list)
                   PROVE  SharesNext(conn'[b].client, conn'[b].reply_list[i])
        BY OwnRepliesNext
      <3>1. SameSlot(conn'[b].client, conn'[b].reply_list[i])
        <4>1. CASE b = a
          BY <2>9, <2>10, <4>1
        <4>2. CASE b # a
          BY <2>9, <4>2 DEF RepliesInv, OwnReplies
        <4> QED BY <4>1, <4>2
      <3> QED BY <1>1, <3>1 DEF SameSlot, SharesNext
    <2> QED BY <1>1, <1>2, <2>11, ReferKept, GotKept DEF RepliesInv
  <1> QED BY <1>1, <1>3, <1>4

(* What is written comes from the connection's own list.                   *)
LEMMA WriteReplyReplies ==
  ASSUME TableInv, TypeOK', RepliesInv, SlotsKept, ResultsHome',
         NEW w \in Sigs, NEW f \in Fds, WriteReply(w, f)
  PROVE  RepliesInv'
  <1> DEFINE a == conns_[w][f]
             k == [conn[a] EXCEPT !.reply_list = <<>>]
  <1>1. /\ a \in Addrs /\ conn[a] \in Conns /\ conn[a] # Null /\ fdOwner[f] \in Clients
        /\ conn[a].client = fdOwner[f]
    BY EntryType DEF WriteReply
  <1>2. /\ got' = [got EXCEPT ![fdOwner[f]] = @ \cup ToSet(conn[a].reply_list)]
        /\ conn' = [conn EXCEPT ![a] = k]
        /\ UNCHANGED <<q_msg_, cstate, slot>>
    BY DEF WriteReply, queues, kernel
  <1> HIDE DEF a
  <1>3. k.reply_list = <<>> /\ conn[a].reply_list \in Seq(Clients) /\ TypeOK
    BY <1>1, FieldsOfConn DEF TableInv
  <1> HIDE DEF k
  <1>4. conn'[a] = k /\ \A b \in Addrs : b # a => conn'[b] = conn[b]
    BY <1>1, <1>2, <1>3 DEF TypeOK
  <1>5. MsgsRefer'
    BY <1>2, <1>3, ReferKept, SameMsgs DEF RepliesInv
  <1>6. OwnReplies'
    BY <1>3, <1>4, OwnRepliesKept DEF RepliesInv
  <1>7. \A d \in ToSet(conn[a].reply_list) : SameSlot(fdOwner[f], d)
    BY <1>1, <1>3 DEF ToSet, RepliesInv, OwnReplies
  <1>8. ReplyToAskerOrSlot'
    BY <1>1, <1>2, <1>3, <1>7 DEF RepliesInv, ReplyToAskerOrSlot, SameSlot, TypeOK
  <1> QED BY <1>5, <1>6, <1>8 DEF RepliesInv

(* Whatever descriptors and addresses are handed out again meanwhile, a    *)
(* result is written to the client that asked for it, or the connection of *)
(* that client is closed and the receiver's has its worker, descriptor and *)
(* address: the comparison in ResponseServerOffer misses nothing else.     *)
THEOREM RepliesReachAskerOrSlot == Spec => []ReplyToAskerOrSlot
  <1>1. Init => RepliesInv
    <2> SUFFICES ASSUME Init PROVE RepliesInv
      OBVIOUS
    <2>1. \A o \in Owners : Len(q_msg_[o]) = 0
      BY DEF Init
    <2>2. (\A a \in Addrs : conn[a] = Null) /\ (\A c \in Clients : got[c] = {})
      BY DEF Init
    <2>3. MsgsRefer /\ ResultsHome
      BY <2>1, ThreadKinds DEF MsgsRefer, ResultsHome
    <2>4. OwnReplies /\ ReplyToAskerOrSlot
      BY <2>2 DEF OwnReplies, ReplyToAskerOrSlot
    <2> QED BY <2>3, <2>4 DEF RepliesInv
  <1>2. TableInv /\ TableInv' /\ ClientInv /\ RepliesInv /\ [Next]_vars => RepliesInv'
    <2> SUFFICES ASSUME TableInv, TableInv', ClientInv, RepliesInv, [Next]_vars PROVE RepliesInv'
      OBVIOUS
    <2>1. TypeOK /\ TypeOK' /\ SlotsKept
      BY StepClients DEF TableInv
    <2>2. ResultsHome'
      BY <2>1, ResultsStayHome DEF RepliesInv
    <2>3. ASSUME NEW w \in Sigs, NEW f \in Fds,
                 \/ ReadQuery(w, f) \/ ReadQueryFails(w, f) \/ ProcessTimeout(w, f)
                 \/ WriteReply(w, f) \/ WriteReplyFails(w, f)
          PROVE  RepliesInv'
      BY <2>1, <2>2, <2>3, ReadQueryReplies, WriteReplyReplies, NewAndClosedReplies
         DEF ReadQueryFails, ProcessTimeout, WriteReplyFails
    <2>4. CASE Route \/ RouteFails \/ \E r \in Rtcs : ProcessRtcMsg(r)
      <3>1. UNCHANGED <<conn, got>>
        BY <2>4 DEF Route, RouteFails, ProcessRtcMsg, table, history
      <3> QED BY <2>1, <2>2, <2>4, <3>1, RoutingKeeps, SameReplies
    <2>5. CASE \/ \E c \in Clients, f \in Fds : AcceptNewConn(c, f)
               \/ \E t \in Threads : Notify(t)
               \/ \E c \in MayHangUp : HangUp(c)
               \/ UNCHANGED vars
      <3>1. UNCHANGED <<q_msg_, conn, got>>
        BY <2>5 DEF AcceptNewConn, Notify, HangUp, vars, queues, table, history
      <3> QED BY <2>1, <2>2, <3>1, SameMsgs, SameReplies
    <2>6. ASSUME NEW w \in Sigs, NewConn(w) \/ ResponseServerOffer(w) PROVE RepliesInv'
      BY <2>1, <2>2, <2>6, NewAndClosedReplies, ResponseReplies
    <2> QED BY <2>3, <2>4, <2>5, <2>6 DEF Next
  <1>3. RepliesInv => ReplyToAskerOrSlot
    BY DEF RepliesInv
  <1> QED BY <1>1, <1>2, <1>3, TableInvariance, ClientInvariance, PTL DEF Spec

----------------------------------------------------------------------------
(* The order of requests                                                   *)

(* The clients of a queue are a sequence of its length.                    *)
LEMMA FromsSeq ==
  ASSUME NEW q \in Seq(Msgs)
  PROVE  /\ Froms(q) \in Seq(Clients) /\ Len(Froms(q)) = Len(q)
         /\ \A i \in 1 .. Len(q) : Froms(q)[i] = q[i].from
  <1>1. \A i \in 1 .. Len(q) : q[i].from \in Clients
    <2> SUFFICES ASSUME NEW i \in 1 .. Len(q) PROVE q[i].from \in Clients
      OBVIOUS
    <2>1. q[i] \in Msgs
      OBVIOUS
    <2> QED BY <2>1 DEF Msgs
  <1>2. Len(q) \in Nat
    OBVIOUS
  <1> QED BY <1>1, <1>2 DEF Froms

(* Taking a message takes its client.                                      *)
LEMMA FromsTail ==
  ASSUME NEW q \in Seq(Msgs), q # <<>>
  PROVE  /\ Froms(Tail(q)) = Tail(Froms(q)) /\ Froms(q) # <<>>
         /\ Head(Froms(q)) = Head(q).from
  <1>1. /\ Froms(q) \in Seq(Clients) /\ Len(Froms(q)) = Len(q)
        /\ \A i \in 1 .. Len(q) : Froms(q)[i] = q[i].from
    BY FromsSeq
  <1>2. /\ Tail(q) \in Seq(Msgs) /\ Len(Tail(q)) = Len(q) - 1
        /\ \A i \in 1 .. Len(Tail(q)) : i + 1 \in 1 .. Len(q) /\ Tail(q)[i] = q[i + 1]
    BY TailElements
  <1>3. /\ Froms(Tail(q)) \in Seq(Clients) /\ Len(Froms(Tail(q))) = Len(q) - 1
        /\ \A i \in 1 .. Len(q) - 1 : Froms(Tail(q))[i] = Tail(q)[i].from
    BY <1>2, FromsSeq
  <1>4. Len(q) \in Nat \ {0} /\ Head(q) = q[1]
    OBVIOUS
  <1>5. Froms(q) # <<>> /\ Head(Froms(q)) = Head(q).from
    BY <1>1, <1>4
  <1>6. /\ Tail(Froms(q)) \in Seq(Clients) /\ Len(Tail(Froms(q))) = Len(q) - 1
        /\ \A i \in 1 .. Len(q) - 1 : Tail(Froms(q))[i] = Froms(q)[i + 1]
    BY <1>1, <1>5, TailElements
  <1>7. \A i \in 1 .. Len(q) - 1 : Froms(Tail(q))[i] = Tail(Froms(q))[i]
    BY <1>1, <1>2, <1>3, <1>6
  <1>8. Froms(Tail(q)) = Tail(Froms(q))
    BY <1>3, <1>6, <1>7, SeqEqual
  <1> QED BY <1>5, <1>8

(* Appending a message appends its client.                                 *)
LEMMA FromsAppend ==
  ASSUME NEW q \in Seq(Msgs), NEW m \in Msgs
  PROVE  Froms(Append(q, m)) = Append(Froms(q), m.from)
  <1>1. /\ Froms(q) \in Seq(Clients) /\ Len(Froms(q)) = Len(q)
        /\ \A i \in 1 .. Len(q) : Froms(q)[i] = q[i].from
    BY FromsSeq
  <1>2. m.from \in Clients /\ Append(q, m) \in Seq(Msgs) /\ Len(Append(q, m)) = Len(q) + 1
    BY DEF Msgs
  <1>3. /\ Froms(Append(q, m)) \in Seq(Clients) /\ Len(Froms(Append(q, m))) = Len(q) + 1
        /\ \A i \in 1 .. Len(q) + 1 : Froms(Append(q, m))[i] = Append(q, m)[i].from
    BY <1>2, FromsSeq
  <1>4. /\ Append(Froms(q), m.from) \in Seq(Clients)
        /\ Len(Append(Froms(q), m.from)) = Len(q) + 1
    BY <1>1, <1>2
  <1>5. \A i \in 1 .. Len(q) + 1 : Append(q, m)[i] = IF i = Len(q) + 1 THEN m ELSE q[i]
    OBVIOUS
  <1>6. \A i \in 1 .. Len(q) + 1 :
          Append(Froms(q), m.from)[i] = IF i = Len(q) + 1 THEN m.from ELSE Froms(q)[i]
    BY <1>1, <1>2
  <1>7. \A i \in 1 .. Len(q) + 1 : Froms(Append(q, m))[i] = Append(Froms(q), m.from)[i]
    BY <1>1, <1>3, <1>5, <1>6
  <1> QED BY <1>3, <1>4, <1>7, SeqEqual

(* b hands its first element over to a, which is ahead of it.              *)
LEMMA HandOver ==
  ASSUME NEW e, NEW a \in Seq(Clients), NEW b \in Seq(Clients), b # <<>>,
         AllIn(e, a), AllIn(e, b), Sorted(e, a), Sorted(e, b), Ahead(e, a, b)
  PROVE  /\ AllIn(e, Append(a, Head(b))) /\ AllIn(e, Tail(b))
         /\ Sorted(e, Append(a, Head(b))) /\ Sorted(e, Tail(b))
         /\ Ahead(e, Append(a, Head(b)), Tail(b))
         /\ \A c \in Seq(Clients) : Ahead(e, c, b) => Ahead(e, c, Tail(b))
         /\ \A c \in Seq(Clients) : Ahead(e, b, c) => Ahead(e, Tail(b), c)
         /\ \A c \in Seq(Clients) : Ahead(e, c, a) /\ Ahead(e, c, b)
                                    => Ahead(e, c, Append(a, Head(b)))
         /\ \A c \in Seq(Clients) : Ahead(e, a, c) /\ Ahead(e, b, c)
                                    => Ahead(e, Append(a, Head(b)), c)
  <1> DEFINE x == Append(a, Head(b))
             y == Tail(b)
  <1>1. /\ Len(y) \in Nat
        /\ \A i \in 1 .. Len(y) : i \in Nat /\ i + 1 > 1 /\ i + 1 \in 1 .. Len(b) /\ y[i] = b[i + 1]
    BY TailElements
  <1>2. /\ Len(x) = Len(a) + 1 /\ Len(a) \in Nat /\ 1 \in 1 .. Len(b)
        /\ \A i \in 1 .. Len(a) : x[i] = a[i]
        /\ x[Len(a) + 1] = b[1]
    OBVIOUS
  <1> HIDE DEF x, y
  <1>3. \A i \in 1 .. Len(x) : (i \in 1 .. Len(a) /\ x[i] = a[i]) \/ (i = Len(a) + 1 /\ x[i] = b[1])
    BY <1>2
  <1>4. AllIn(e, x) /\ AllIn(e, y)
    <2>1. ASSUME NEW i \in 1 .. Len(x) PROVE \E k \in 1 .. Len(e) : e[k] = x[i]
      <3>1. CASE i \in 1 .. Len(a) /\ x[i] = a[i]
        BY <3>1 DEF AllIn
      <3>2. CASE x[i] = b[1]
        <4>1. \E k \in 1 .. Len(e) : e[k] = b[1]
          BY <1>2 DEF AllIn
        <4> QED BY <3>2, <4>1
      <3> QED BY <1>3, <3>1, <3>2
    <2>2. ASSUME NEW i \in 1 .. Len(y) PROVE \E k \in 1 .. Len(e) : e[k] = y[i]
      BY <1>1 DEF AllIn
    <2> QED BY <2>1, <2>2 DEF AllIn
  <1>5. Sorted(e, x)
    BY <1>2, <1>3 DEF Sorted, Ahead
  <1>6. Sorted(e, y)
    BY <1>1 DEF Sorted
  <1>7. Ahead(e, x, y)
    <2> SUFFICES ASSUME NEW i \in 1 .. Len(x), NEW j \in 1 .. Len(y) PROVE Before(e, x[i], y[j])
      BY DEF Ahead
    <2>1. y[j] = b[j + 1] /\ j + 1 \in 1 .. Len(b) /\ 1 < j + 1
      BY <1>1
    <2>2. CASE i \in 1 .. Len(a) /\ x[i] = a[i]
      BY <2>1, <2>2 DEF Ahead
    <2>3. CASE x[i] = b[1]
      BY <1>2, <2>1, <2>3 DEF Sorted
    <2> QED BY <1>3, <2>2, <2>3
  <1>8. ASSUME NEW c \in Seq(Clients)
        PROVE  /\ Ahead(e, c, b) => Ahead(e, c, y)
               /\ Ahead(e, b, c) => Ahead(e, y, c)
    BY <1>1 DEF Ahead
  <1>9. ASSUME NEW c \in Seq(Clients)
        PROVE  /\ Ahead(e, c, a) /\ Ahead(e, c, b) => Ahead(e, c, x)
               /\ Ahead(e, a, c) /\ Ahead(e, b, c) => Ahead(e, x, c)
    BY <1>2, <1>3 DEF Ahead
  <1> QED BY <1>4, <1>5, <1>6, <1>7, <1>8, <1>9 DEF x, y

(* A newcomer is behind everyone.                                          *)
LEMMA Newcomer ==
  ASSUME NEW e \in Seq(Clients), NEW z \in Clients, NEW p \in Seq(Clients),
         NEW r \in Seq(Clients), NEW s \in Seq(Clients), InOrder(e, p, r, s)
  PROVE  InOrder(Append(e, z), p, r, Append(s, z))
  <1> DEFINE f == Append(e, z)
             t == Append(s, z)
  <1>1. /\ Len(f) = Len(e) + 1 /\ Len(e) \in Nat /\ f[Len(e) + 1] = z
        /\ \A i \in 1 .. Len(e) : f[i] = e[i]
    OBVIOUS
  <1>2. /\ Len(t) = Len(s) + 1 /\ Len(s) \in Nat /\ t[Len(s) + 1] = z
        /\ \A i \in 1 .. Len(s) : t[i] = s[i]
    OBVIOUS
  <1> HIDE DEF f, t
  <1>3. \A i \in 1 .. Len(t) : (i \in 1 .. Len(s) /\ t[i] = s[i]) \/ (i = Len(s) + 1 /\ t[i] = z)
    BY <1>2
  <1>4. ASSUME NEW x, NEW y, Before(e, x, y) PROVE Before(f, x, y)
    BY <1>1, <1>4 DEF Before
  <1>5. ASSUME NEW k \in 1 .. Len(e) PROVE Before(f, e[k], z)
    BY <1>1 DEF Before
  <1>6. ASSUME NEW k \in 1 .. Len(e) PROVE \E l \in 1 .. Len(f) : f[l] = e[k]
    BY <1>1
  <1>7. AllIn(f, p) /\ AllIn(f, r)
    BY <1>6 DEF AllIn, InOrder
  <1>8. AllIn(f, t)
    <2>1. Len(e) + 1 \in 1 .. Len(f)
      BY <1>1
    <2> QED BY <1>1, <1>3, <1>6, <2>1 DEF AllIn, InOrder
  <1>9. Sorted(f, p) /\ Sorted(f, r) /\ Ahead(f, p, r)
    BY <1>4 DEF Sorted, Ahead, InOrder
  <1>10. ASSUME NEW u \in Seq(Clients), AllIn(e, u), NEW i \in 1 .. Len(u)
         PROVE  Before(f, u[i], z)
    <2>1. PICK k \in 1 .. Len(e) : e[k] = u[i]
      BY <1>10 DEF AllIn
    <2> QED BY <1>5, <2>1
  <1>11. Sorted(f, t)
    <2> SUFFICES ASSUME NEW i \in 1 .. Len(t), NEW j \in 1 .. Len(t), i < j
                 PROVE  Before(f, t[i], t[j])
      BY DEF Sorted
    <2>1. i \in 1 .. Len(s) /\ t[i] = s[i]
      BY <1>2, <1>3
    <2>2. CASE j \in 1 .. Len(s) /\ t[j] = s[j]
      BY <1>4, <2>1, <2>2 DEF Sorted, InOrder
    <2>3. CASE t[j] = z
      BY <1>10, <2>1, <2>3 DEF InOrder
    <2> QED BY <1>3, <2>2, <2>3
  <1>12. ASSUME NEW u \in Seq(Clients), AllIn(e, u), Ahead(e, u, s)
         PROVE  Ahead(f, u, t)
    <2> SUFFICES ASSUME NEW i \in 1 .. Len(u), NEW j \in 1 .. Len(t) PROVE Before(f, u[i], t[j])
      BY DEF Ahead
    <2>1. CASE j \in 1 .. Len(s) /\ t[j] = s[j]
      BY <1>4, <1>12, <2>1 DEF Ahead
    <2>2. CASE t[j] = z
      BY <1>10, <1>12, <2>2
    <2> QED BY <1>3, <2>1, <2>2
  <1>13. Ahead(f, p, t) /\ Ahead(f, r, t)
    BY <1>12 DEF InOrder
  <1> QED BY <1>7, <1>8, <1>9, <1>11, <1>13 DEF InOrder, f, t

(* Queues and histories are sequences of clients.                          *)
LEMMA OrderTypes ==
  ASSUME TypeOK
  PROVE  /\ entered \in Seq(Clients)
         /\ \A o \in Owners : q_msg_[o] \in Seq(Msgs) /\ Froms(q_msg_[o]) \in Seq(Clients)
         /\ \A r \in Rtcs : processed[r] \in Seq(Clients)
  BY FromsSeq DEF TypeOK

SameOrder == UNCHANGED <<entered, processed>>
             /\ \A o \in {Server} \cup Rtcs : q_msg_'[o] = q_msg_[o]

(* Steps that move no request keep the order.                              *)
LEMMA SameOrderInv ==
  ASSUME OrderInv, Routed, SameOrder
  PROVE  OrderInv' /\ Routed'
  BY DEF OrderInv, Routed, SameOrder

(* A request read enters behind all others.                                *)
LEMMA ReadQueryOrder ==
  ASSUME TableInv, OrderInv, Routed, NEW w \in Sigs, NEW f \in Fds, ReadQuery(w, f)
  PROVE  OrderInv' /\ Routed'
  <1> USE ThreadKinds
  <1> DEFINE m == RequestMsg(w, conns_[w][f])
  <1>1. m \in Msgs /\ m.from \in Clients /\ m.from = conn[conns_[w][f]].client
    BY EntryType DEF ReadQuery, RequestMsg
  <1>2. /\ q_msg_' = [q_msg_ EXCEPT ![Server] = Append(@, m)]
        /\ entered' = Append(entered, m.from) /\ processed' = processed
    BY <1>1 DEF ReadQuery, PushMsg
  <1> HIDE DEF m
  <1>3. /\ q_msg_'[Server] = Append(q_msg_[Server], m)
        /\ \A r \in Rtcs : q_msg_'[r] = q_msg_[r]
    BY <1>2 DEF TableInv, TypeOK
  <1>4. Froms(q_msg_'[Server]) = Append(Froms(q_msg_[Server]), m.from)
    BY <1>1, <1>3, OrderTypes, FromsAppend DEF TableInv
  <1>5. ASSUME NEW r \in Rtcs
        PROVE  InOrder(entered', processed'[r], Froms(q_msg_'[r]), Froms(q_msg_'[Server]))
    <2>1. InOrder(entered, processed[r], Froms(q_msg_[r]), Froms(q_msg_[Server]))
      BY DEF OrderInv
    <2> DEFINE e == entered
               z == m.from
               p == processed[r]
               R == Froms(q_msg_[r])
               S == Froms(q_msg_[Server])
    <2>2. /\ e \in Seq(Clients) /\ z \in Clients /\ p \in Seq(Clients)
          /\ R \in Seq(Clients) /\ S \in Seq(Clients)
      BY <1>1, OrderTypes DEF TableInv
    <2> HIDE DEF e, z, p, R, S
    <2>3. InOrder(Append(e, z), p, R, Append(S, z))
      BY <2>1, <2>2, Newcomer DEF e, p, R, S
    <2> QED BY <1>2, <1>3, <1>4, <2>3 DEF e, z, p, R, S
  <1> QED BY <1>2, <1>3, <1>5 DEF OrderInv, Routed

(* The first request of RtcServer's queue goes behind those of its worker. *)
LEMMA RouteOrder ==
  ASSUME TableInv, OrderInv, Routed, Route
  PROVE  OrderInv' /\ Routed'
  <1> USE ThreadKinds
  <1> DEFINE m == Head(q_msg_[Server])
             u == GetWorker(m.from)
             S == Froms(q_msg_[Server])
  <1>1. TypeOK
    BY DEF TableInv
  <1>2. u \in Rtcs /\ u \in Owners /\ u # Server /\ q_msg_[Server] # <<>>
    BY <1>1, RouteMoves
  <1>3. /\ m \in Msgs
        /\ q_msg_'[Server] = Tail(q_msg_[Server]) /\ q_msg_'[u] = Append(q_msg_[u], m)
        /\ \A o \in Owners : o # Server /\ o # u => q_msg_'[o] = q_msg_[o]
    BY <1>1, <1>2, RouteMoves, MoveType
  <1>4. entered' = entered /\ processed' = processed
    BY DEF Route, history
  <1>5. /\ q_msg_[Server] \in Seq(Msgs) /\ q_msg_[u] \in Seq(Msgs)
        /\ S \in Seq(Clients) /\ Froms(q_msg_[u]) \in Seq(Clients)
    BY <1>1, <1>2, OrderTypes
  <1>6. /\ Froms(q_msg_'[Server]) = Tail(S) /\ S # <<>> /\ Head(S) = m.from
        /\ Froms(q_msg_'[u]) = Append(Froms(q_msg_[u]), Head(S))
    BY <1>2, <1>3, <1>5, FromsTail, FromsAppend
  <1> DEFINE e == entered
  <1> HIDE DEF S, u, m
  <1>7. ASSUME NEW r \in Rtcs
        PROVE  InOrder(e', processed'[r], Froms(q_msg_'[r]), Froms(q_msg_'[Server]))
    <2> DEFINE p == processed[r]
               R == Froms(q_msg_[r])
    <2>1. InOrder(e, p, R, S) /\ p \in Seq(Clients) /\ R \in Seq(Clients)
      BY <1>1, OrderTypes DEF OrderInv, S
    <2>2. CASE r = u
      <3>1. Froms(q_msg_'[r]) = Append(R, Head(S)) /\ Froms(q_msg_'[Server]) = Tail(S)
        BY <1>6, <2>2
      <3> HIDE DEF p, R
      <3>2. InOrder(e, p, Append(R, Head(S)), Tail(S))
        BY <1>5, <1>6, <2>1, HandOver DEF InOrder
      <3> QED BY <1>4, <3>1, <3>2 DEF p
    <2>3. CASE r # u
      <3>1. Froms(q_msg_'[r]) = R /\ Froms(q_msg_'[Server]) = Tail(S)
        BY <1>3, <1>6, <2>3
      <3> HIDE DEF p, R
      <3>2. InOrder(e, p, R, Tail(S))
        BY <1>5, <1>6, <2>1, HandOver DEF InOrder
      <3> QED BY <1>4, <3>1, <3>2 DEF p
    <2> QED BY <2>2, <2>3
  <1>8. OrderInv'
    BY <1>7 DEF OrderInv
  <1>9. Routed'
    <2>1. ASSUME NEW r \in Rtcs, NEW i \in 1 .. Len(q_msg_'[r])
          PROVE  GetWorker(Froms(q_msg_'[r])[i]) = r
      <3>1. CASE r # u
        BY <1>3, <2>1, <3>1 DEF Routed
      <3>2. CASE r = u /\ i = Len(q_msg_[u]) + 1
        <4>1. Froms(q_msg_'[u])[i] = m.from
          BY <1>5, <1>6, <3>2, FromsSeq
        <4> QED BY <3>2, <4>1 DEF u
      <3>3. CASE r = u /\ i \in 1 .. Len(q_msg_[u])
        <4>1. Froms(q_msg_'[u])[i] = Froms(q_msg_[u])[i]
          BY <1>5, <1>6, <3>3, FromsSeq
        <4> QED BY <1>2, <3>3, <4>1 DEF Routed
      <3> QED BY <1>3, <1>5, <3>1, <3>2, <3>3
    <2> QED BY <1>4, <2>1 DEF Routed
  <1> QED BY <1>8, <1>9

(* A request that is dropped leaves the others in order.                   *)
LEMMA RouteFailsOrder ==
  ASSUME TableInv, OrderInv, Routed, RouteFails
  PROVE  OrderInv' /\ Routed'
  <1> USE ThreadKinds
  <1>1. TypeOK
    BY DEF TableInv
  <1> DEFINE S == Froms(q_msg_[Server])
  <1>2. /\ q_msg_[Server] # <<>> /\ q_msg_'[Server] = Tail(q_msg_[Server])
        /\ \A r \in Rtcs : q_msg_'[r] = q_msg_[r]
        /\ entered' = entered /\ processed' = processed
    BY <1>1, PopKeeps DEF RouteFails, history
  <1>3. Froms(q_msg_'[Server]) = Tail(S) /\ S # <<>> /\ S \in Seq(Clients)
    BY <1>1, <1>2, OrderTypes, FromsTail
  <1>4. ASSUME NEW r \in Rtcs
        PROVE  InOrder(entered', processed'[r], Froms(q_msg_'[r]), Froms(q_msg_'[Server]))
    <2> DEFINE e == entered
               p == processed[r]
               R == Froms(q_msg_[r])
    <2>1. InOrder(e, p, R, S) /\ p \in Seq(Clients) /\ R \in Seq(Clients)
      BY <1>1, OrderTypes DEF OrderInv
    <2> HIDE DEF p, R, S, e
    <2>2. InOrder(e, p, R, Tail(S))
      BY <1>3, <2>1, HandOver DEF InOrder
    <2> QED BY <1>2, <1>3, <2>2 DEF p, R, e
  <1> QED BY <1>2, <1>4 DEF OrderInv, Routed

(* The worker executes its first request.                                  *)
LEMMA ProcessOrder ==
  ASSUME TableInv, OrderInv, Routed, NEW u \in Rtcs, ProcessRtcMsg(u)
  PROVE  OrderInv' /\ Routed'
  <1> USE ThreadKinds
  <1> DEFINE m == Head(q_msg_[u])
             U == Froms(q_msg_[u])
             P == processed[u]
  <1>1. TypeOK
    BY DEF TableInv
  <1>2. u \in Owners /\ m.worker \in Sigs /\ m.worker # u /\ q_msg_[u] # <<>> /\ m \in Msgs
    BY <1>1, ProcessMoves
  <1>3. /\ q_msg_'[u] = Tail(q_msg_[u])
        /\ \A o \in Owners : o # u /\ o # m.worker => q_msg_'[o] = q_msg_[o]
    BY <1>1, <1>2, ProcessMoves, MoveType
  <1>4. entered' = entered /\ processed' = [processed EXCEPT ![u] = Append(@, m.from)]
    BY DEF ProcessRtcMsg
  <1>5. q_msg_[u] \in Seq(Msgs) /\ U \in Seq(Clients) /\ P \in Seq(Clients)
    BY <1>1, <1>2, OrderTypes
  <1>6. Froms(q_msg_'[u]) = Tail(U) /\ U # <<>> /\ Head(U) = m.from
    BY <1>2, <1>3, <1>5, FromsTail
  <1>7. /\ processed'[u] = Append(P, Head(U))
        /\ \A r \in Rtcs : r # u => processed'[r] = processed[r]
    BY <1>1, <1>4, <1>6 DEF TypeOK
  <1>8. q_msg_'[Server] = q_msg_[Server] /\ \A r \in Rtcs : r # u => q_msg_'[r] = q_msg_[r]
    BY <1>2, <1>3
  <1> HIDE DEF m
  <1>9. ASSUME NEW r \in Rtcs
        PROVE  InOrder(entered', processed'[r], Froms(q_msg_'[r]), Froms(q_msg_'[Server]))
    <2>1. CASE r = u
      <3> DEFINE e == entered
                 S == Froms(q_msg_[Server])
      <3>1. InOrder(e, P, U, S) /\ S \in Seq(Clients)
        BY <1>1, OrderTypes DEF OrderInv
      <3> HIDE DEF U, P, S, e
      <3>2. InOrder(e, Append(P, Head(U)), Tail(U), S)
        BY <1>5, <1>6, <3>1, HandOver DEF InOrder
      <3> QED BY <1>4, <1>6, <1>7, <1>8, <2>1, <3>2 DEF S, e
    <2>2. CASE r # u
      BY <1>4, <1>7, <1>8, <2>2 DEF OrderInv
    <2> QED BY <2>1, <2>2
  <1>10. OrderInv'
    BY <1>9 DEF OrderInv
  <1>11. Routed'
    <2>1. Len(q_msg_[u]) = Len(U) /\ Len(q_msg_[u]) \in Nat \ {0}
      BY <1>2, <1>5, FromsSeq
    <2>2. GetWorker(Head(U)) = u
      <3>1. Head(U) = U[1] /\ 1 \in 1 .. Len(q_msg_[u])
        BY <1>5, <1>6, <2>1
      <3> QED BY <3>1 DEF Routed
    <2>3. \A i \in 1 .. Len(processed'[u]) : GetWorker(processed'[u][i]) = u
      <3>1. \A i \in 1 .. Len(P) : GetWorker(P[i]) = u
        BY DEF Routed
      <3>2. \A i \in 1 .. Len(processed'[u]) :
              processed'[u][i] = Head(U) \/ (i \in 1 .. Len(P) /\ processed'[u][i] = P[i])
        BY <1>5, <1>7
      <3> QED BY <2>2, <3>1, <3>2
    <2>4. \A i \in 1 .. Len(q_msg_'[u]) : GetWorker(Froms(q_msg_'[u])[i]) = u
      <3>1. /\ Len(q_msg_'[u]) = Len(q_msg_[u]) - 1
            /\ \A i \in 1 .. Len(q_msg_'[u]) : i + 1 \in 1 .. Len(q_msg_[u]) /\ Tail(U)[i] = U[i + 1]
        BY <1>2, <1>3, <1>5, <1>6, <2>1, TailElements
      <3>2. \A j \in 1 .. Len(q_msg_[u]) : GetWorker(U[j]) = u
        BY DEF Routed
      <3> HIDE DEF U
      <3> QED BY <1>6, <3>1, <3>2
    <2> QED BY <1>7, <1>8, <2>3, <2>4 DEF Routed
  <1> QED BY <1>10, <1>11

(* The requests of one uid about its pull streams are executed by one      *)
(* worker in the order in which they entered RtcServer, for any number of  *)
(* workers on both sides (GetWorker and the queues of RtcServer and        *)
(* RtcWorker).                                                             *)
THEOREM PullsInOrder == Spec => []PullOrder
  <1>1. Init => OrderInv /\ Routed
    <2> SUFFICES ASSUME Init PROVE OrderInv /\ Routed
      OBVIOUS
    <2>1. /\ entered = <<>> /\ \A r \in Rtcs : processed[r] = <<>>
          /\ \A o \in Owners : q_msg_[o] = <<>>
      BY DEF Init
    <2>2. Len(Froms(<<>>)) = 0
      BY DEF Froms
    <2> QED BY <2>1, <2>2, ThreadKinds DEF OrderInv, Routed, InOrder, AllIn, Sorted, Ahead
  <1>2. TableInv /\ OrderInv /\ Routed /\ [Next]_vars => OrderInv' /\ Routed'
    <2> SUFFICES ASSUME TableInv, OrderInv, Routed, [Next]_vars PROVE OrderInv' /\ Routed'
      OBVIOUS
    <2>1. ASSUME NEW w \in Sigs, ResponseServerOffer(w) PROVE SameOrder
      <3>1. UNCHANGED <<entered, processed>>
        BY <2>1 DEF ResponseServerOffer, history
      <3>2. w \in Owners /\ q_msg_[w] # <<>> /\ q_msg_' = [q_msg_ EXCEPT ![w] = Tail(@)]
        BY <2>1, ThreadKinds DEF ResponseServerOffer
      <3>3. \A o \in Owners : o # w => q_msg_'[o] = q_msg_[o]
        BY <3>2, PopKeeps DEF TableInv
      <3> QED BY <3>1, <3>3, ThreadKinds DEF SameOrder
    <2>2. ASSUME UNCHANGED <<q_msg_, entered, processed>> PROVE SameOrder
      BY <2>2 DEF SameOrder
    <2>3. ASSUME NEW w \in Sigs, NEW f \in Fds,
                 \/ ReadQueryFails(w, f) \/ ProcessTimeout(w, f)
                 \/ WriteReply(w, f) \/ WriteReplyFails(w, f)
          PROVE  UNCHANGED <<q_msg_, entered, processed>>
      BY <2>3 DEF ReadQueryFails, ProcessTimeout, WriteReply, WriteReplyFails, CloseConn,
                  queues, history
    <2>4. CASE \/ \E c \in Clients, f \in Fds : AcceptNewConn(c, f)
               \/ \E t \in Threads : Notify(t)
               \/ \E w \in Sigs : NewConn(w)
               \/ \E c \in MayHangUp : HangUp(c)
               \/ UNCHANGED vars
      <3>1. UNCHANGED <<q_msg_, entered, processed>>
        BY <2>4 DEF AcceptNewConn, Notify, NewConn, HangUp, vars, queues, history
      <3> QED BY <2>2, <3>1, SameOrderInv
    <2> QED BY <2>1, <2>2, <2>3, <2>4, SameOrderInv, ReadQueryOrder, RouteOrder,
               RouteFailsOrder, ProcessOrder DEF Next
  <1>3. TableInv /\ OrderInv /\ Routed => PullOrder
    <2> SUFFICES ASSUME TableInv, OrderInv, Routed,
                        NEW c \in Clients, NEW d \in Clients, OfPull(c), OfPull(d),
                        Req[c].uid = Req[d].uid, NEW r \in Rtcs, NEW p \in Rtcs
                 PROVE  /\ c \in ToSet(processed[r]) /\ d \in ToSet(processed[p]) => r = p
                        /\ Before(processed[r], c, d) => Before(entered, c, d)
      BY DEF PullOrder
    <2>1. GetWorker(c) = GetWorker(d)
      BY DEF GetWorker, OfPull
    <2>2. c \in ToSet(processed[r]) => GetWorker(c) = r
      BY OrderTypes, SMTT(30) DEF TableInv, ToSet, Routed
    <2>3. d \in ToSet(processed[p]) => GetWorker(d) = p
      BY OrderTypes, SMTT(30) DEF TableInv, ToSet, Routed
    <2>4. Before(processed[r], c, d) => Before(entered, c, d)
      <3>1. Sorted(entered, processed[r])
        BY DEF OrderInv, InOrder
      <3> QED BY <3>1 DEF Sorted, Before
    <2> QED BY <2>1, <2>2, <2>3, <2>4
  <1> QED BY <1>1, <1>2, <1>3, TableInvariance, PTL DEF Spec

----------------------------------------------------------------------------
(* One int per message                                                     *)

Tokens == {"NEW_CONN", "RTC_MSG"}
Places(p, k) == {i \in 1 .. Len(p) : p[i] = k}

(* The positions of a token are a finite set.                              *)
LEMMA PlacesFinite ==
  ASSUME NEW p \in Seq(Tokens), NEW k
  PROVE  IsFiniteSet(Places(p, k)) /\ Cardinality(Places(p, k)) \in Nat
  <1>1. Len(p) \in Nat
    OBVIOUS
  <1>2. IsFiniteSet(1 .. Len(p))
    BY <1>1, FS_Interval
  <1>3. Places(p, k) \in SUBSET (1 .. Len(p))
    BY DEF Places
  <1>4. IsFiniteSet(Places(p, k))
    BY <1>2, <1>3, FS_Subset
  <1> QED BY <1>4, FS_CardinalityType

(* Writing a token adds one position of it.                                *)
LEMMA PlacesAppend ==
  ASSUME NEW p \in Seq(Tokens), NEW x \in Tokens, NEW k
  PROVE  Cardinality(Places(Append(p, x), k)) =
           Cardinality(Places(p, k)) + (IF x = k THEN 1 ELSE 0)
  <1> DEFINE q == Append(p, x)
             n == Len(p) + 1
  <1>1. /\ Len(q) = n /\ n \in Nat /\ q[n] = x /\ \A i \in 1 .. Len(p) : q[i] = p[i]
        /\ 1 .. n = (1 .. Len(p)) \cup {n} /\ n \notin 1 .. Len(p)
    OBVIOUS
  <1>2. IsFiniteSet(Places(p, k)) /\ Cardinality(Places(p, k)) \in Nat
    BY PlacesFinite
  <1> HIDE DEF q, n
  <1>3. n \notin Places(p, k)
    BY <1>1 DEF Places
  <1>4. CASE x = k
    <2>1. Places(q, k) = Places(p, k) \cup {n}
      BY <1>1, <1>4 DEF Places
    <2>2. Cardinality(Places(q, k)) = Cardinality(Places(p, k)) + 1
      BY <1>2, <1>3, <2>1, FS_AddElement
    <2> QED BY <1>4, <2>2 DEF q
  <1>5. CASE x # k
    <2>1. Places(q, k) = Places(p, k)
      BY <1>1, <1>5 DEF Places
    <2> QED BY <1>2, <1>5, <2>1 DEF q
  <1> QED BY <1>4, <1>5

(* Reading a token removes one position of it.                             *)
LEMMA PlacesTail ==
  ASSUME NEW p \in Seq(Tokens), p # <<>>, NEW k
  PROVE  Cardinality(Places(Tail(p), k)) =
           Cardinality(Places(p, k)) - (IF Head(p) = k THEN 1 ELSE 0)
  <1> DEFINE q == Tail(p)
             S == Places(q, k)
             T == Places(p, k) \ {1}
             f == [i \in S |-> i + 1]
  <1>1. /\ q \in Seq(Tokens) /\ Len(q) = Len(p) - 1 /\ Len(p) \in Nat \ {0} /\ Head(p) = p[1]
        /\ \A i \in 1 .. Len(q) : i + 1 \in 1 .. Len(p) /\ q[i] = p[i + 1]
    BY TailElements
  <1>2. IsFiniteSet(Places(p, k)) /\ Cardinality(Places(p, k)) \in Nat
    BY PlacesFinite
  <1>3. /\ IsFiniteSet(T)
        /\ Cardinality(T) = Cardinality(Places(p, k)) - (IF Head(p) = k THEN 1 ELSE 0)
    <2>1. 1 \in Places(p, k) <=> Head(p) = k
      BY <1>1 DEF Places
    <2> QED BY <1>2, <2>1, FS_RemoveElement
  <1>4. f \in [S -> T]
    <2> SUFFICES ASSUME NEW i \in S PROVE i + 1 \in T
      OBVIOUS
    <2>1. i \in 1 .. Len(q) /\ q[i] = k
      BY DEF Places
    <2> QED BY <1>1, <2>1 DEF Places
  <1>5. \A i \in S : i \in Int
    BY <1>1 DEF Places
  <1>6. ASSUME NEW j \in T PROVE \E i \in S : f[i] = j
    <2>1. j \in 1 .. Len(p) /\ p[j] = k /\ j # 1
      BY DEF Places
    <2>2. j - 1 \in 1 .. Len(q) /\ (j - 1) + 1 = j
      BY <1>1, <2>1
    <2>3. q[j - 1] = k
      BY <1>1, <2>1, <2>2
    <2>4. j - 1 \in S
      BY <2>2, <2>3 DEF Places
    <2> QED BY <2>2, <2>4
  <1>7. f \in Injection(S, T) /\ f \in Surjection(S, T)
    <2>1. \A a, b \in S : f[a] = f[b] => a = b
      BY <1>5
    <2> QED BY <1>4, <1>6, <2>1 DEF Injection, Surjection, IsInjective
  <1> HIDE DEF f, S, T
  <1>8. Cardinality(S) = Cardinality(T)
    BY <1>3, <1>7, FS_Injection
  <1> QED BY <1>3, <1>8 DEF S

(* There are finitely many threads.                                        *)
LEMMA ThreadsFinite == IsFiniteSet(Threads)
  <1>1. IsFiniteSet(Sigs)
    <2> DEFINE I == 0 .. SigNum - 1
               f == [i \in I |-> <<"sig", i>>]
    <2>1. IsFiniteSet(I)
      BY WorkersAssumption, FS_Interval
    <2>2. f \in Surjection(I, Sigs)
      BY DEF Surjection, Sigs
    <2> HIDE DEF f, I
    <2> QED BY <2>1, <2>2, FS_Surjection
  <1>2. IsFiniteSet(Rtcs)
    <2> DEFINE I == 0 .. RtcNum - 1
               f == [i \in I |-> <<"rtc", i>>]
    <2>1. IsFiniteSet(I)
      BY WorkersAssumption, FS_Interval
    <2>2. f \in Surjection(I, Rtcs)
      BY DEF Surjection, Rtcs
    <2> HIDE DEF f, I
    <2> QED BY <2>1, <2>2, FS_Surjection
  <1>3. IsFiniteSet({Server}) /\ IsFiniteSet({Acceptor})
    BY FS_Singleton
  <1>4. IsFiniteSet({Server} \cup Sigs \cup Rtcs)
    BY <1>1, <1>2, <1>3, FS_Union
  <1>5. IsFiniteSet({Acceptor} \cup ({Server} \cup Sigs \cup Rtcs))
    BY <1>3, <1>4, FS_Union
  <1> QED BY <1>5 DEF Threads, Owners

(* The threads that are about to write k to the pipe of o.                 *)
Owing(o, k) == {t \in Threads : owing[t] = <<o, k>>}

(* What the property counts are sizes of finite sets.                      *)
LEMMA CountTypes ==
  ASSUME TypeOK, NEW o \in Owners, NEW k
  PROVE  /\ Ints(o, k) \in Nat /\ Writers(o, k) \in Nat /\ IsFiniteSet(Owing(o, k))
         /\ Ints(o, k) = Cardinality(Places(pipe[o], k))
         /\ Writers(o, k) = Cardinality(Owing(o, k))
  <1>1. pipe[o] \in Seq(Tokens)
    BY DEF TypeOK, Tokens
  <1>2. Owing(o, k) \in SUBSET Threads
    BY DEF Owing
  <1>3. IsFiniteSet(Owing(o, k))
    BY <1>2, ThreadsFinite, FS_Subset
  <1>4. /\ Ints(o, k) = Cardinality(Places(pipe[o], k))
        /\ Writers(o, k) = Cardinality(Owing(o, k))
    BY DEF Ints, Places, Writers, Owing
  <1> QED BY <1>1, <1>3, <1>4, PlacesFinite, FS_CardinalityType

(* Reading an int takes one from the pipe.                                 *)
LEMMA RecvCounts ==
  ASSUME TypeOK, NEW t \in Owners, NEW j, RecvNotify(t, j), NEW o \in Owners, NEW k
  PROVE  /\ o = t /\ k = j => Ints(o, k)' = Ints(o, k) - 1
         /\ ~(o = t /\ k = j) => Ints(o, k)' = Ints(o, k)
  <1>1. pipe[o] \in Seq(Tokens) /\ pipe[t] \in Seq(Tokens)
    BY DEF TypeOK, Tokens
  <1>2. /\ pipe[t] # <<>> /\ Head(pipe[t]) = j /\ pipe' = [pipe EXCEPT ![t] = Tail(@)]
        /\ pipe'[o] = IF o = t THEN Tail(pipe[t]) ELSE pipe[o]
    BY DEF RecvNotify, TypeOK
  <1>3. Ints(o, k) = Cardinality(Places(pipe[o], k)) /\ Ints(o, k) \in Nat
    BY CountTypes
  <1>4. Ints(o, k)' = Cardinality(Places(pipe'[o], k))
    BY DEF Ints, Places
  <1>5. CASE o = t
    BY <1>1, <1>2, <1>3, <1>4, <1>5, PlacesTail
  <1>6. CASE o # t
    BY <1>2, <1>3, <1>4, <1>6
  <1> QED BY <1>5, <1>6

(* A thread that begins to owe an int is one writer more.                  *)
LEMMA OweCounts ==
  ASSUME TypeOK, NEW t \in Threads, Idle(t), \A u \in Threads \ {t} : owing'[u] = owing[u],
         NEW o \in Owners, NEW k
  PROVE  /\ owing'[t] = <<o, k>> => Writers(o, k)' = Writers(o, k) + 1
         /\ owing'[t] # <<o, k>> => Writers(o, k)' = Writers(o, k)
  <1>1. /\ Writers(o, k) \in Nat /\ IsFiniteSet(Owing(o, k))
        /\ Writers(o, k) = Cardinality(Owing(o, k))
        /\ Writers(o, k)' = Cardinality(Owing(o, k)')
    BY CountTypes DEF Writers, Owing
  <1>2. t \notin Owing(o, k)
    BY DEF Owing, Idle
  <1>3. CASE owing'[t] = <<o, k>>
    <2>1. Owing(o, k)' = Owing(o, k) \cup {t}
      BY <1>3 DEF Owing
    <2> QED BY <1>1, <1>2, <1>3, <2>1, FS_AddElement
  <1>4. CASE owing'[t] # <<o, k>>
    <2>1. Owing(o, k)' = Owing(o, k)
      BY <1>2, <1>4 DEF Owing
    <2> QED BY <1>1, <1>4, <2>1
  <1> QED BY <1>3, <1>4

(* The write moves an int from the writers to the pipe.                    *)
LEMMA NotifyCounts ==
  ASSUME TypeOK, NEW t \in Threads, Notify(t), NEW o \in Owners, NEW k
  PROVE  Ints(o, k)' + Writers(o, k)' = Ints(o, k) + Writers(o, k)
  <1> DEFINE d == owing[t][1]
             j == owing[t][2]
  <1>1. d \in Owners /\ j \in Tokens /\ owing[t] = <<d, j>>
    <2>1. owing[t] \in Owners \X {"NEW_CONN", "RTC_MSG"}
      BY DEF TypeOK, Notify
    <2> QED BY <2>1 DEF Tokens
  <1>2. /\ Writers(o, k) \in Nat /\ IsFiniteSet(Owing(o, k)) /\ Ints(o, k) \in Nat
        /\ Writers(o, k) = Cardinality(Owing(o, k)) /\ Ints(o, k) = Cardinality(Places(pipe[o], k))
        /\ Writers(o, k)' = Cardinality(Owing(o, k)')
        /\ Ints(o, k)' = Cardinality(Places(pipe'[o], k))
    BY CountTypes DEF Writers, Owing, Ints, Places
  <1>3. pipe' = [pipe EXCEPT ![d] = Append(@, j)] /\ owing' = [owing EXCEPT ![t] = <<>>]
    BY DEF Notify
  <1> HIDE DEF d, j
  <1>4. /\ pipe'[o] = IF o = d THEN Append(pipe[d], j) ELSE pipe[o]
        /\ pipe[d] \in Seq(Tokens)
        /\ \A u \in Threads : owing'[u] = IF u = t THEN <<>> ELSE owing[u]
    BY <1>1, <1>3 DEF TypeOK, Tokens
  <1>5. CASE o = d /\ k = j
    <2>0. owing[t] = <<o, k>> /\ <<>> # <<o, k>>
      BY <1>1, <1>5
    <2>1. Owing(o, k)' = Owing(o, k) \ {t} /\ t \in Owing(o, k)
      BY <1>4, <2>0 DEF Owing
    <2>2. Writers(o, k)' = Writers(o, k) - 1
      BY <1>2, <2>1, FS_RemoveElement
    <2>3. Ints(o, k)' = Ints(o, k) + 1
      BY <1>1, <1>2, <1>4, <1>5, PlacesAppend
    <2> QED BY <1>2, <2>2, <2>3
  <1>6. CASE ~(o = d /\ k = j)
    <2>1. Owing(o, k)' = Owing(o, k)
      BY <1>1, <1>4, <1>6 DEF Owing
    <2>2. Ints(o, k)' = Ints(o, k)
      <3>1. CASE o = d
        BY <1>1, <1>2, <1>4, <1>6, <3>1, PlacesAppend
      <3>2. CASE o # d
        BY <1>2, <1>4, <3>2
      <3> QED BY <3>1, <3>2
    <2> QED BY <1>2, <2>1, <2>2
  <1> QED BY <1>5, <1>6

(* Neither pipes nor writes to come change.                                *)
LEMMA SameCounts ==
  ASSUME UNCHANGED <<pipe, owing>>, NEW o, NEW k
  PROVE  Ints(o, k)' = Ints(o, k) /\ Writers(o, k)' = Writers(o, k)
  BY DEF Ints, Writers

(* Writers change only with what is owed.                                  *)
LEMMA SameWriters ==
  ASSUME UNCHANGED owing, NEW o, NEW k
  PROVE  Writers(o, k)' = Writers(o, k)
  BY DEF Writers

(* Ints change only with the pipes.                                        *)
LEMMA SameInts ==
  ASSUME UNCHANGED pipe, NEW o, NEW k
  PROVE  Ints(o, k)' = Ints(o, k)
  BY DEF Ints

(* Queues grow and shrink by one.                                          *)
LEMMA LenChange ==
  ASSUME NEW S, NEW q \in Seq(S)
  PROVE  /\ Len(q) \in Nat
         /\ \A x \in S : Len(Append(q, x)) = Len(q) + 1
         /\ q # <<>> => Len(Tail(q)) = Len(q) - 1
  BY TailElements

(* Queues are sequences.                                                   *)
LEMMA QueueTypes ==
  ASSUME TypeOK
  PROVE  /\ \A o \in Owners : q_msg_[o] \in Seq(Msgs)
         /\ \A o \in Sigs : q_conn_[o] \in Seq(Fds)
  BY DEF TypeOK

(* The accounts of a queue before a step.                                  *)
LEMMA MsgAccounts ==
  ASSUME TypeOK, IntsMatchMessages, NEW o \in Owners
  PROVE  /\ Ints(o, "RTC_MSG") \in Nat /\ Writers(o, "RTC_MSG") \in Nat
         /\ Len(q_msg_[o]) = Ints(o, "RTC_MSG") + Writers(o, "RTC_MSG")
  BY CountTypes DEF IntsMatchMessages

(* The same for the descriptors handed to a signaling worker.              *)
LEMMA ConnAccounts ==
  ASSUME TypeOK, IntsMatchMessages, NEW o \in Sigs
  PROVE  /\ Ints(o, "NEW_CONN") \in Nat /\ Writers(o, "NEW_CONN") \in Nat
         /\ Len(q_conn_[o]) = Ints(o, "NEW_CONN") + Writers(o, "NEW_CONN")
  BY CountTypes, ThreadKinds DEF IntsMatchMessages

(* A new message, or descriptor, comes with a write to come.               *)
LEMMA ReadQueryInts ==
  ASSUME TableInv, TableInv', IntsMatchMessages, NEW w \in Sigs, NEW f \in Fds, ReadQuery(w, f)
  PROVE  IntsMatchMessages'
  <1> USE ThreadKinds
  <1> DEFINE m == RequestMsg(w, conns_[w][f])
  <1>1. TypeOK /\ Idle(w) /\ w \in Threads /\ m \in Msgs
    BY EntryType DEF ReadQuery, TableInv
  <1>2. /\ q_msg_' = [q_msg_ EXCEPT ![Server] = Append(@, m)]
        /\ owing' = [owing EXCEPT ![w] = <<Server, "RTC_MSG">>]
        /\ UNCHANGED <<q_conn_, pipe>>
    BY DEF ReadQuery, PushMsg
  <1> HIDE DEF m
  <1>3. /\ owing'[w] = <<Server, "RTC_MSG">>
        /\ \A u \in Threads \ {w} : owing'[u] = owing[u]
        /\ q_msg_'[Server] = Append(q_msg_[Server], m)
        /\ \A o \in Owners \ {Server} : q_msg_'[o] = q_msg_[o]
    BY <1>1, <1>2 DEF TypeOK
  <1>4. ASSUME NEW o \in Owners PROVE Len(q_msg_'[o]) = Ints(o, "RTC_MSG")' + Writers(o, "RTC_MSG")'
    <2>1. Ints(o, "RTC_MSG")' = Ints(o, "RTC_MSG")
      BY <1>2, SameInts
    <2>2. CASE o = Server
      <3>1. Writers(o, "RTC_MSG")' = Writers(o, "RTC_MSG") + 1
        BY <1>1, <1>3, <2>2, OweCounts
      <3>2. Len(q_msg_'[o]) = Len(q_msg_[o]) + 1
        BY <1>1, <1>3, <2>2, QueueTypes, LenChange
      <3> QED BY <1>1, <2>1, <3>1, <3>2, MsgAccounts
    <2>3. CASE o # Server
      <3>1. Writers(o, "RTC_MSG")' = Writers(o, "RTC_MSG")
        BY <1>1, <1>3, <2>3, OweCounts
      <3> QED BY <1>1, <1>3, <2>1, <2>3, <3>1, MsgAccounts
    <2> QED BY <2>2, <2>3
  <1>5. ASSUME NEW o \in Sigs PROVE Len(q_conn_'[o]) = Ints(o, "NEW_CONN")' + Writers(o, "NEW_CONN")'
    <2>1. Ints(o, "NEW_CONN")' = Ints(o, "NEW_CONN")
      BY <1>2, SameInts
    <2>2. Writers(o, "NEW_CONN")' = Writers(o, "NEW_CONN")
      BY <1>1, <1>3, OweCounts
    <2> QED BY <1>1, <1>2, <2>1, <2>2, ConnAccounts
  <1> QED BY <1>4, <1>5 DEF IntsMatchMessages

(* A descriptor accepted comes with a write to come.                       *)
LEMMA AcceptInts ==
  ASSUME TableInv, TableInv', IntsMatchMessages, NEW c \in Clients, NEW f \in Fds,
         AcceptNewConn(c, f)
  PROVE  IntsMatchMessages'
  <1> USE ThreadKinds
  <1> DEFINE w == <<"sig", next_worker_index_>>
  <1>1. TypeOK /\ Idle(Acceptor) /\ w \in Sigs
    BY NextWorker DEF AcceptNewConn, TableInv, TypeOK
  <1>2. /\ q_conn_' = [q_conn_ EXCEPT ![w] = Append(@, f)]
        /\ owing' = [owing EXCEPT ![Acceptor] = <<w, "NEW_CONN">>]
        /\ UNCHANGED <<q_msg_, pipe>>
    BY DEF AcceptNewConn
  <1> HIDE DEF w
  <1>3. /\ owing'[Acceptor] = <<w, "NEW_CONN">>
        /\ \A u \in Threads \ {Acceptor} : owing'[u] = owing[u]
        /\ q_conn_'[w] = Append(q_conn_[w], f)
        /\ \A o \in Sigs \ {w} : q_conn_'[o] = q_conn_[o]
    BY <1>1, <1>2 DEF TypeOK
  <1>4. ASSUME NEW o \in Owners PROVE Len(q_msg_'[o]) = Ints(o, "RTC_MSG")' + Writers(o, "RTC_MSG")'
    <2>1. Ints(o, "RTC_MSG")' = Ints(o, "RTC_MSG")
      BY <1>2, SameInts
    <2>2. Writers(o, "RTC_MSG")' = Writers(o, "RTC_MSG")
      BY <1>1, <1>3, OweCounts
    <2> QED BY <1>1, <1>2, <2>1, <2>2, MsgAccounts
  <1>5. ASSUME NEW o \in Sigs PROVE Len(q_conn_'[o]) = Ints(o, "NEW_CONN")' + Writers(o, "NEW_CONN")'
    <2>1. Ints(o, "NEW_CONN")' = Ints(o, "NEW_CONN")
      BY <1>2, SameInts
    <2>2. CASE o = w
      <3>1. Writers(o, "NEW_CONN")' = Writers(o, "NEW_CONN") + 1
        BY <1>1, <1>3, <2>2, OweCounts
      <3>2. Len(q_conn_'[o]) = Len(q_conn_[o]) + 1
        BY <1>1, <1>3, <2>2, QueueTypes, LenChange
      <3> QED BY <1>1, <2>1, <3>1, <3>2, ConnAccounts
    <2>3. CASE o # w
      <3>1. Writers(o, "NEW_CONN")' = Writers(o, "NEW_CONN")
        BY <1>1, <1>3, <2>3, OweCounts
      <3> QED BY <1>1, <1>3, <2>1, <2>3, <3>1, ConnAccounts
    <2> QED BY <2>2, <2>3
  <1> QED BY <1>4, <1>5 DEF IntsMatchMessages

(* Reading an int takes one message.                                       *)
LEMMA NewConnInts ==
  ASSUME TableInv, TableInv', IntsMatchMessages, NEW w \in Sigs, NewConn(w)
  PROVE  IntsMatchMessages'
  <1> USE ThreadKinds
  <1>1. TypeOK /\ RecvNotify(w, "NEW_CONN")
    BY DEF NewConn, TableInv
  <1>2. /\ q_conn_[w] # <<>> /\ q_conn_' = [q_conn_ EXCEPT ![w] = Tail(@)]
        /\ UNCHANGED <<q_msg_, owing>>
    BY DEF NewConn
  <1>3. /\ q_conn_'[w] = Tail(q_conn_[w])
        /\ \A o \in Sigs \ {w} : q_conn_'[o] = q_conn_[o]
    BY <1>1, <1>2 DEF TypeOK
  <1>4. ASSUME NEW o \in Owners PROVE Len(q_msg_'[o]) = Ints(o, "RTC_MSG")' + Writers(o, "RTC_MSG")'
    <2>1. Ints(o, "RTC_MSG")' = Ints(o, "RTC_MSG")
      BY <1>1, RecvCounts
    <2>2. Writers(o, "RTC_MSG")' = Writers(o, "RTC_MSG")
      BY <1>2, SameWriters
    <2> QED BY <1>1, <1>2, <2>1, <2>2, MsgAccounts
  <1>5. ASSUME NEW o \in Sigs PROVE Len(q_conn_'[o]) = Ints(o, "NEW_CONN")' + Writers(o, "NEW_CONN")'
    <2>1. Writers(o, "NEW_CONN")' = Writers(o, "NEW_CONN")
      BY <1>2, SameWriters
    <2>2. CASE o = w
      <3>1. Ints(o, "NEW_CONN")' = Ints(o, "NEW_CONN") - 1
        BY <1>1, <2>2, RecvCounts
      <3>2. Len(q_conn_'[o]) = Len(q_conn_[o]) - 1
        BY <1>1, <1>2, <1>3, <2>2, QueueTypes, LenChange
      <3> QED BY <1>1, <2>1, <3>1, <3>2, ConnAccounts
    <2>3. CASE o # w
      <3>1. Ints(o, "NEW_CONN")' = Ints(o, "NEW_CONN")
        BY <1>1, <2>3, RecvCounts
      <3> QED BY <1>1, <1>3, <2>1, <2>3, <3>1, ConnAccounts
    <2> QED BY <2>2, <2>3
  <1> QED BY <1>4, <1>5 DEF IntsMatchMessages

(* A message taken and dropped: one int read, one message fewer.           *)
LEMMA PopInts ==
  ASSUME TypeOK, IntsMatchMessages, NEW t \in Owners, RecvNotify(t, "RTC_MSG"),
         q_msg_[t] # <<>>, q_msg_' = [q_msg_ EXCEPT ![t] = Tail(@)],
         UNCHANGED <<q_conn_, owing>>
  PROVE  IntsMatchMessages'
  <1> USE ThreadKinds
  <1>1. /\ q_msg_'[t] = Tail(q_msg_[t])
        /\ \A o \in Owners \ {t} : q_msg_'[o] = q_msg_[o]
    BY DEF TypeOK
  <1>2. ASSUME NEW o \in Owners PROVE Len(q_msg_'[o]) = Ints(o, "RTC_MSG")' + Writers(o, "RTC_MSG")'
    <2>1. Writers(o, "RTC_MSG")' = Writers(o, "RTC_MSG")
      BY SameWriters
    <2>2. CASE o = t
      <3>1. Ints(o, "RTC_MSG")' = Ints(o, "RTC_MSG") - 1
        BY <2>2, RecvCounts
      <3>2. Len(q_msg_'[o]) = Len(q_msg_[o]) - 1
        BY <1>1, <2>2, QueueTypes, LenChange
      <3> QED BY <2>1, <3>1, <3>2, MsgAccounts
    <2>3. CASE o # t
      <3>1. Ints(o, "RTC_MSG")' = Ints(o, "RTC_MSG")
        BY <2>3, RecvCounts
      <3> QED BY <1>1, <2>1, <2>3, <3>1, MsgAccounts
    <2> QED BY <2>2, <2>3
  <1>3. ASSUME NEW o \in Sigs PROVE Len(q_conn_'[o]) = Ints(o, "NEW_CONN")' + Writers(o, "NEW_CONN")'
    <2>1. Writers(o, "NEW_CONN")' = Writers(o, "NEW_CONN")
      BY SameWriters
    <2>2. Ints(o, "NEW_CONN")' = Ints(o, "NEW_CONN")
      BY RecvCounts
    <2> QED BY <2>1, <2>2, ConnAccounts
  <1> QED BY <1>2, <1>3 DEF IntsMatchMessages

(* Reading an int takes one message, which goes on with a write to come.   *)
LEMMA MoveInts ==
  ASSUME TypeOK, IntsMatchMessages, NEW t \in Owners, NEW u \in Owners, t # u,
         RecvNotify(t, "RTC_MSG"), q_msg_[t] # <<>>,
         q_msg_' = [q_msg_ EXCEPT ![t] = Tail(@), ![u] = Append(@, Head(q_msg_[t]))],
         owing' = [owing EXCEPT ![t] = <<u, "RTC_MSG">>], UNCHANGED q_conn_
  PROVE  IntsMatchMessages'
  <1> USE ThreadKinds
  <1>1. /\ q_msg_'[t] = Tail(q_msg_[t]) /\ q_msg_'[u] = Append(q_msg_[u], Head(q_msg_[t]))
        /\ \A o \in Owners \ {t, u} : q_msg_'[o] = q_msg_[o]
        /\ Head(q_msg_[t]) \in Msgs
    BY MoveType DEF TypeOK
  <1>2. Idle(t) /\ t \in Threads
    BY DEF RecvNotify
  <1>3. owing'[t] = <<u, "RTC_MSG">> /\ \A v \in Threads \ {t} : owing'[v] = owing[v]
    BY <1>2 DEF TypeOK
  <1>4. ASSUME NEW o \in Owners PROVE Len(q_msg_'[o]) = Ints(o, "RTC_MSG")' + Writers(o, "RTC_MSG")'
    <2>1. CASE o = t
      <3>1. Ints(o, "RTC_MSG")' = Ints(o, "RTC_MSG") - 1
        BY <2>1, RecvCounts
      <3>2. Writers(o, "RTC_MSG")' = Writers(o, "RTC_MSG")
        BY <1>2, <1>3, <2>1, OweCounts
      <3>3. Len(q_msg_'[o]) = Len(q_msg_[o]) - 1
        BY <1>1, <2>1, QueueTypes, LenChange
      <3>4. /\ Ints(o, "RTC_MSG") \in Nat /\ Writers(o, "RTC_MSG") \in Nat
            /\ Len(q_msg_[o]) = Ints(o, "RTC_MSG") + Writers(o, "RTC_MSG")
        BY MsgAccounts
      <3> QED BY ONLY <3>1, <3>2, <3>3, <3>4
    <2>2. CASE o = u
      <3>1. Ints(o, "RTC_MSG")' = Ints(o, "RTC_MSG")
        BY <2>2, RecvCounts
      <3>2. Writers(o, "RTC_MSG")' = Writers(o, "RTC_MSG") + 1
        BY <1>2, <1>3, <2>2, OweCounts
      <3>3. Len(q_msg_'[o]) = Len(q_msg_[o]) + 1
        BY <1>1, <2>2, QueueTypes, LenChange
      <3> QED BY <3>1, <3>2, <3>3, MsgAccounts, SMTT(30)
    <2>3. CASE o # t /\ o # u
      <3>1. Ints(o, "RTC_MSG")' = Ints(o, "RTC_MSG")
        BY <2>3, RecvCounts
      <3>2. Writers(o, "RTC_MSG")' = Writers(o, "RTC_MSG")
        BY <1>2, <1>3, <2>3, OweCounts
      <3> QED BY <1>1, <2>3, <3>1, <3>2, MsgAccounts
    <2> QED BY <2>1, <2>2, <2>3
  <1>5. ASSUME NEW o \in Sigs PROVE Len(q_conn_'[o]) = Ints(o, "NEW_CONN")' + Writers(o, "NEW_CONN")'
    <2>1. Ints(o, "NEW_CONN")' = Ints(o, "NEW_CONN")
      BY RecvCounts
    <2>2. Writers(o, "NEW_CONN")' = Writers(o, "NEW_CONN")
      BY <1>2, <1>3, OweCounts
    <2> QED BY <2>1, <2>2, ConnAccounts
  <1> QED BY <1>4, <1>5 DEF IntsMatchMessages

(* Routing and executing read an int and owe another one.                  *)
LEMMA RoutingInts ==
  ASSUME TableInv, TableInv', IntsMatchMessages, Route \/ RouteFails \/ \E r \in Rtcs : ProcessRtcMsg(r)
  PROVE  IntsMatchMessages'
  <1> USE ThreadKinds
  <1>1. TypeOK /\ TypeOK'
    BY DEF TableInv
  <1>2. CASE Route
    <2>1. GetWorker(Head(q_msg_[Server]).from) \in Owners \ {Server}
      BY <1>1, <1>2, RouteMoves
    <2>2. RecvNotify(Server, "RTC_MSG") /\ UNCHANGED q_conn_
      BY <1>2 DEF Route
    <2> QED BY <1>1, <1>2, <2>1, <2>2, RouteMoves, MoveInts
  <1>3. CASE RouteFails
    BY <1>1, <1>3, PopInts DEF RouteFails
  <1>4. ASSUME NEW r \in Rtcs, ProcessRtcMsg(r) PROVE IntsMatchMessages'
    <2>1. Head(q_msg_[r]).worker \in Owners \ {r}
      BY <1>1, <1>4, ProcessMoves
    <2>2. RecvNotify(r, "RTC_MSG") /\ UNCHANGED q_conn_
      BY <1>4 DEF ProcessRtcMsg
    <2>3. /\ q_msg_[r] # <<>>
          /\ q_msg_' = [q_msg_ EXCEPT ![r] = Tail(@),
                         ![Head(q_msg_[r]).worker] = Append(@, Head(q_msg_[r]))]
          /\ owing' = [owing EXCEPT ![r] = <<Head(q_msg_[r]).worker, "RTC_MSG">>]
      BY <1>1, <1>4, ProcessMoves
    <2> QED BY <1>1, <2>1, <2>2, <2>3, MoveInts
  <1> QED BY <1>2, <1>3, <1>4

(* At every moment the ints in the pipe of a queue's owner and the writes  *)
(* still to come are as many as the messages in the queue, for any number  *)
(* of threads and any capacity of the pipes: Notify and RecvNotify strand  *)
(* no message and never find the queue empty.                              *)
THEOREM IntsAreMessages == Spec => []IntsMatchMessages
  <1>1. Init => IntsMatchMessages
    <2> SUFFICES ASSUME Init PROVE IntsMatchMessages
      OBVIOUS
    <2>1. TypeOK
      BY InitTable DEF TableInv
    <2>2. \A o \in Owners, k \in Tokens : Places(pipe[o], k) = {} /\ Owing(o, k) = {}
      <3>1. \A o \in Owners : pipe[o] = <<>>
        BY DEF Init
      <3>2. \A t \in Threads : owing[t] = <<>>
        BY DEF Init
      <3>3. \A o, k : <<>> # <<o, k>>
        OBVIOUS
      <3>4. \A o \in Owners, k \in Tokens : Places(pipe[o], k) = {}
        BY <3>1 DEF Places
      <3>5. \A o \in Owners, k \in Tokens : Owing(o, k) = {}
        BY <3>2, <3>3 DEF Owing
      <3> QED BY <3>4, <3>5
    <2>3. \A o \in Owners, k \in Tokens : Ints(o, k) = 0 /\ Writers(o, k) = 0
      BY <2>1, <2>2, CountTypes, FS_EmptySet
    <2> QED BY <2>3, ThreadKinds DEF IntsMatchMessages, Tokens, Init
  <1>2. TableInv /\ TableInv' /\ IntsMatchMessages /\ [Next]_vars => IntsMatchMessages'
    <2> SUFFICES ASSUME TableInv, TableInv', IntsMatchMessages, [Next]_vars
                 PROVE  IntsMatchMessages'
      OBVIOUS
    <2>1. TypeOK /\ TypeOK'
      BY DEF TableInv
    <2>2. ASSUME UNCHANGED <<q_conn_, q_msg_, pipe, owing>> PROVE IntsMatchMessages'
      BY <2>2, SameCounts DEF IntsMatchMessages
    <2>3. ASSUME NEW t \in Threads, Notify(t) PROVE IntsMatchMessages'
      <3>1. UNCHANGED <<q_conn_, q_msg_>>
        BY <2>3 DEF Notify
      <3>2. \A o \in Owners, k \in Tokens :
              Ints(o, k)' + Writers(o, k)' = Ints(o, k) + Writers(o, k)
        BY <2>1, <2>3, NotifyCounts
      <3> QED BY <3>1, <3>2, ThreadKinds DEF IntsMatchMessages, Tokens
    <2>4. ASSUME NEW w \in Sigs, NEW f \in Fds,
                 \/ ReadQueryFails(w, f) \/ ProcessTimeout(w, f)
                 \/ WriteReply(w, f) \/ WriteReplyFails(w, f)
          PROVE  UNCHANGED <<q_conn_, q_msg_, pipe, owing>>
      BY <2>4 DEF ReadQueryFails, ProcessTimeout, WriteReply, WriteReplyFails, CloseConn, queues
    <2>5. CASE (\E c \in MayHangUp : HangUp(c)) \/ UNCHANGED vars
      BY <2>2, <2>5 DEF HangUp, vars, queues
    <2>6. ASSUME NEW w \in Sigs, ResponseServerOffer(w) PROVE IntsMatchMessages'
      BY <2>1, <2>6, PopInts, ThreadKinds DEF ResponseServerOffer
    <2> QED BY <2>2, <2>3, <2>4, <2>5, <2>6, AcceptInts, NewConnInts, ReadQueryInts,
               RoutingInts DEF Next
  <1> QED BY <1>1, <1>2, TableInvariance, PTL DEF Spec

----------------------------------------------------------------------------
(* What a gridlock takes                                                   *)

(* Only signaling workers are told of new connections.                     *)
OnlyMessages ==
  \A o \in Owners \ Sigs :
    /\ \A i \in 1 .. Len(pipe[o]) : pipe[o][i] = "RTC_MSG"
    /\ \A t \in Threads : owing[t] # <<o, "NEW_CONN">>

(* A cycle of waiting threads has 3 * (PipeCap + 1) messages or new        *)
(* descriptors queued: those that fill the three pipes and the three whose *)
(* ints are being written.                                                 *)
GridlockIsFull ==
  \A r \in Rtcs, w \in Sigs : WaitCycle(r, w) =>
    Len(q_msg_[Server]) + Len(q_msg_[r]) + (Len(q_msg_[w]) + Len(q_conn_[w]))
      >= 3 * (PipeCap + 1)

(* Tokens go where their queues are.                                       *)
LEMMA TokensByQueue ==
  ASSUME TypeOK, TypeOK', OnlyMessages, [Next]_vars
  PROVE  OnlyMessages'
  <1> USE ThreadKinds
  <1>1. ASSUME UNCHANGED <<pipe, owing>> PROVE OnlyMessages'
    BY <1>1 DEF OnlyMessages
  <1>2. ASSUME NEW t \in Threads, NEW d \in Owners, NEW k \in Tokens,
               owing' = [owing EXCEPT ![t] = <<d, k>>], k = "NEW_CONN" => d \in Sigs,
               \A o \in Owners \ Sigs : \A i \in 1 .. Len(pipe'[o]) : pipe'[o][i] = "RTC_MSG"
        PROVE  OnlyMessages'
    <2>1. \A u \in Threads : owing'[u] = IF u = t THEN <<d, k>> ELSE owing[u]
      BY <1>2 DEF TypeOK
    <2> QED BY <1>2, <2>1 DEF OnlyMessages
  <1>3. ASSUME NEW t \in Owners, NEW k, RecvNotify(t, k)
        PROVE  \A o \in Owners \ Sigs : \A i \in 1 .. Len(pipe'[o]) : pipe'[o][i] = "RTC_MSG"
    <2>1. /\ pipe[t] \in Seq(Tokens) /\ pipe[t] # <<>> /\ pipe'[t] = Tail(pipe[t])
          /\ \A o \in Owners : o # t => pipe'[o] = pipe[o]
      BY <1>3 DEF RecvNotify, TypeOK, Tokens
    <2>2. \A i \in 1 .. Len(pipe'[t]) :
            i + 1 \in 1 .. Len(pipe[t]) /\ pipe'[t][i] = pipe[t][i + 1]
      BY <2>1, TailElements
    <2>3. ASSUME NEW o \in Owners \ Sigs, NEW i \in 1 .. Len(pipe'[o])
          PROVE  pipe'[o][i] = "RTC_MSG"
      <3>1. CASE o = t
        BY <2>2, <3>1 DEF OnlyMessages
      <3>2. CASE o # t
        BY <2>1, <3>2 DEF OnlyMessages
      <3> QED BY <3>1, <3>2
    <2> QED BY <2>3
  <1>4. ASSUME NEW t \in Owners, NEW k, RecvNotify(t, k), owing' = owing PROVE OnlyMessages'
    BY <1>3, <1>4 DEF OnlyMessages
  <1>5. ASSUME NEW t \in Threads, Notify(t) PROVE OnlyMessages'
    <2>1. owing[t] \in Owners \X Tokens
      BY <1>5 DEF Notify, TypeOK, Tokens
    <2> DEFINE d == owing[t][1]
               k == owing[t][2]
    <2>2. d \in Owners /\ k \in Tokens /\ owing[t] = <<d, k>>
      BY <2>1
    <2>3. pipe' = [pipe EXCEPT ![d] = Append(@, k)] /\ owing' = [owing EXCEPT ![t] = <<>>]
      BY <1>5 DEF Notify
    <2> HIDE DEF d, k
    <2>4. d \notin Sigs => k = "RTC_MSG"
      BY <2>2 DEF OnlyMessages, Tokens
    <2>5. /\ pipe[d] \in Seq(Tokens) /\ pipe'[d] = Append(pipe[d], k)
          /\ \A o \in Owners : o # d => pipe'[o] = pipe[o]
          /\ \A u \in Threads : owing'[u] = IF u = t THEN <<>> ELSE owing[u]
      BY <2>2, <2>3 DEF TypeOK, Tokens
    <2>6. \A i \in 1 .. Len(pipe'[d]) :
            \/ i \in 1 .. Len(pipe[d]) /\ pipe'[d][i] = pipe[d][i]
            \/ pipe'[d][i] = k
      BY <2>2, <2>5
    <2>7. ASSUME NEW o \in Owners \ Sigs, NEW i \in 1 .. Len(pipe'[o])
          PROVE  pipe'[o][i] = "RTC_MSG"
      <3>1. CASE o = d
        BY <2>4, <2>6, <3>1 DEF OnlyMessages
      <3>2. CASE o # d
        BY <2>5, <3>2 DEF OnlyMessages
      <3> QED BY <3>1, <3>2
    <2>8. \A o \in Owners \ Sigs, u \in Threads : owing'[u] # <<o, "NEW_CONN">>
      <3>1. \A o \in Owners : <<>> # <<o, "NEW_CONN">>
        OBVIOUS
      <3> QED BY <2>5, <3>1 DEF OnlyMessages
    <2> QED BY <2>7, <2>8 DEF OnlyMessages
  <1>6. ASSUME NEW c \in Clients, NEW f \in Fds, AcceptNewConn(c, f) PROVE OnlyMessages'
    <2> DEFINE w == <<"sig", next_worker_index_>>
    <2>1. w \in Sigs /\ owing' = [owing EXCEPT ![Acceptor] = <<w, "NEW_CONN">>] /\ pipe' = pipe
      BY <1>6, NextWorker DEF AcceptNewConn, TypeOK
    <2> HIDE DEF w
    <2> QED BY <1>2, <2>1 DEF OnlyMessages, Tokens
  <1>7. ASSUME NEW w \in Sigs, NEW f \in Fds, ReadQuery(w, f) PROVE OnlyMessages'
    <2>1. owing' = [owing EXCEPT ![w] = <<Server, "RTC_MSG">>] /\ pipe' = pipe
      BY <1>7 DEF ReadQuery, PushMsg
    <2> QED BY <1>2, <2>1 DEF OnlyMessages, Tokens
  <1>8. CASE Route
    <2>1. GetWorker(Head(q_msg_[Server]).from) \in Owners /\ RecvNotify(Server, "RTC_MSG")
      BY <1>8, RouteMoves DEF Route
    <2>2. owing' = [owing EXCEPT ![Server] = <<GetWorker(Head(q_msg_[Server]).from), "RTC_MSG">>]
      BY <1>8, RouteMoves
    <2> QED BY <1>2, <1>3, <2>1, <2>2 DEF Tokens
  <1>9. ASSUME NEW r \in Rtcs, ProcessRtcMsg(r) PROVE OnlyMessages'
    <2>1. Head(q_msg_[r]).worker \in Owners /\ RecvNotify(r, "RTC_MSG")
      BY <1>9, ProcessMoves DEF ProcessRtcMsg
    <2>2. owing' = [owing EXCEPT ![r] = <<Head(q_msg_[r]).worker, "RTC_MSG">>]
      BY <1>9, ProcessMoves
    <2> QED BY <1>2, <1>3, <2>1, <2>2 DEF Tokens
  <1>10. CASE RouteFails \/ \E w \in Sigs : NewConn(w) \/ ResponseServerOffer(w)
    <2>1. CASE RouteFails
      BY <1>4, <2>1 DEF RouteFails
    <2>2. ASSUME NEW w \in Sigs, NewConn(w) PROVE OnlyMessages'
      BY <1>4, <2>2 DEF NewConn
    <2>3. ASSUME NEW w \in Sigs, ResponseServerOffer(w) PROVE OnlyMessages'
      BY <1>4, <2>3 DEF ResponseServerOffer
    <2> QED BY <1>10, <2>1, <2>2, <2>3
  <1>11. ASSUME NEW w \in Sigs, NEW f \in Fds,
                \/ ReadQueryFails(w, f) \/ ProcessTimeout(w, f)
                \/ WriteReply(w, f) \/ WriteReplyFails(w, f)
         PROVE  OnlyMessages'
    BY <1>1, <1>11 DEF ReadQueryFails, ProcessTimeout, WriteReply, WriteReplyFails, CloseConn, queues
  <1>12. CASE (\E c \in MayHangUp : HangUp(c)) \/ UNCHANGED vars
    BY <1>1, <1>12 DEF HangUp, vars, queues
  <1> QED BY <1>5, <1>6, <1>7, <1>8, <1>9, <1>10, <1>11, <1>12 DEF Next

(* Every int of a pipe is of one kind or the other.                        *)
LEMMA KindsOfInts ==
  ASSUME TypeOK, NEW o \in Owners
  PROVE  Len(pipe[o]) = Ints(o, "RTC_MSG") + Ints(o, "NEW_CONN")
  <1> DEFINE A == Places(pipe[o], "RTC_MSG")
             B == Places(pipe[o], "NEW_CONN")
  <1>1. pipe[o] \in Seq(Tokens)
    BY DEF TypeOK, Tokens
  <1>2. Len(pipe[o]) \in Nat /\ \A i \in 1 .. Len(pipe[o]) : pipe[o][i] \in Tokens
    BY <1>1
  <1>3. A \cup B = 1 .. Len(pipe[o]) /\ A \cap B = {}
    BY <1>2 DEF Places, Tokens
  <1>4. /\ IsFiniteSet(A) /\ IsFiniteSet(B)
        /\ Cardinality(A) \in Nat /\ Cardinality(B) \in Nat
    BY <1>1, PlacesFinite
  <1>5. Ints(o, "RTC_MSG") = Cardinality(A) /\ Ints(o, "NEW_CONN") = Cardinality(B)
    BY DEF Ints, Places
  <1> HIDE DEF A, B
  <1>6. Cardinality(A \cup B) = Cardinality(A) + Cardinality(B)
    <2>1. Cardinality(A \cap B) = 0
      BY <1>3, FS_EmptySet
    <2>2. Cardinality(A \cup B) = Cardinality(A) + Cardinality(B) - Cardinality(A \cap B)
      BY <1>4, FS_Union
    <2> QED BY <1>4, <2>1, <2>2
  <1>7. Cardinality(1 .. Len(pipe[o])) = Len(pipe[o])
    BY <1>2, FS_Interval
  <1> QED BY <1>3, <1>5, <1>6, <1>7

(* A thread that waits for o counts among its writers.                     *)
LEMMA WriterCounts ==
  ASSUME TypeOK, NEW t \in Threads, NEW o \in Owners, Waits(t), owing[t][1] = o
  PROVE  /\ Len(pipe[o]) = PipeCap
         /\ owing[t] = <<o, "RTC_MSG">> \/ owing[t] = <<o, "NEW_CONN">>
         /\ \A k \in Tokens : owing[t] = <<o, k>> => Writers(o, k) >= 1
  <1>1. owing[t] \in Owners \X Tokens
    BY DEF Waits, TypeOK, Tokens
  <1>2. owing[t] = <<o, "RTC_MSG">> \/ owing[t] = <<o, "NEW_CONN">>
    BY <1>1 DEF Tokens
  <1>3. ASSUME NEW k \in Tokens, owing[t] = <<o, k>> PROVE Writers(o, k) >= 1
    <2>1. IsFiniteSet(Owing(o, k)) /\ t \in Owing(o, k)
      BY <1>3, ThreadsFinite, FS_Subset DEF Owing
    <2>2. Cardinality(Owing(o, k)) \in Nat /\ Cardinality(Owing(o, k)) # 0
      BY <2>1, FS_CardinalityType, FS_EmptySet
    <2>3. Writers(o, k) = Cardinality(Owing(o, k))
      BY DEF Writers, Owing
    <2> QED BY <2>2, <2>3
  <1> QED BY <1>2, <1>3 DEF Waits

(* The blocking pipes can lock up RtcServer, an RtcWorker and a signaling  *)
(* worker only with 3 * (PipeCap + 1) messages under way (Notify of the    *)
(* three classes), for any number of clients and workers.                  *)
THEOREM GridlockTakesFullPipes == Spec => []GridlockIsFull
  <1>1. Init => OnlyMessages
    BY ThreadKinds DEF Init, OnlyMessages
  <1>2. TableInv /\ TableInv' /\ OnlyMessages /\ [Next]_vars => OnlyMessages'
    BY TokensByQueue DEF TableInv
  <1>3. TableInv /\ OnlyMessages /\ IntsMatchMessages => GridlockIsFull
    <2> SUFFICES ASSUME TableInv, OnlyMessages, IntsMatchMessages, NEW r \in Rtcs, NEW w \in Sigs,
                        WaitCycle(r, w)
                 PROVE  Len(q_msg_[Server]) + Len(q_msg_[r]) + (Len(q_msg_[w]) + Len(q_conn_[w]))
                          >= 3 * (PipeCap + 1)
      BY DEF GridlockIsFull
    <2> USE ThreadKinds
    <2>1. TypeOK
      BY DEF TableInv
    <2>2. ASSUME NEW o \in Owners \ Sigs, NEW t \in Threads, Waits(t), owing[t][1] = o
          PROVE  Len(q_msg_[o]) >= PipeCap + 1
      <3>1. Len(pipe[o]) = PipeCap /\ owing[t] = <<o, "RTC_MSG">> /\ Writers(o, "RTC_MSG") >= 1
        BY <2>1, <2>2, WriterCounts DEF OnlyMessages, Tokens
      <3>2. Ints(o, "NEW_CONN") = 0
        <4>1. Places(pipe[o], "NEW_CONN") = {}
          BY DEF OnlyMessages, Places
        <4> QED BY <4>1, FS_EmptySet DEF Ints, Places
      <3>3. Len(pipe[o]) = Ints(o, "RTC_MSG") + Ints(o, "NEW_CONN")
        BY <2>1, KindsOfInts
      <3>4. /\ Ints(o, "RTC_MSG") \in Nat /\ Writers(o, "RTC_MSG") \in Nat
            /\ Len(q_msg_[o]) = Ints(o, "RTC_MSG") + Writers(o, "RTC_MSG")
        BY <2>1, MsgAccounts
      <3> QED BY <3>1, <3>2, <3>3, <3>4, PipeAssumption
    <2>3. Len(q_msg_[Server]) >= PipeCap + 1 /\ Len(q_msg_[r]) >= PipeCap + 1
      <3>1. Server \in Owners \ Sigs /\ r \in Owners \ Sigs /\ w \in Threads /\ Server \in Threads
        OBVIOUS
      <3> QED BY <2>2, <3>1 DEF WaitCycle
    <2>4. Len(q_msg_[w]) + Len(q_conn_[w]) >= PipeCap + 1
      <3>1. /\ Len(pipe[w]) = PipeCap
            /\ Writers(w, "RTC_MSG") >= 1 \/ Writers(w, "NEW_CONN") >= 1
        BY <2>1, WriterCounts DEF WaitCycle, Tokens
      <3>2. Len(pipe[w]) = Ints(w, "RTC_MSG") + Ints(w, "NEW_CONN")
        BY <2>1, KindsOfInts
      <3>3. /\ Ints(w, "RTC_MSG") \in Nat /\ Writers(w, "RTC_MSG") \in Nat
            /\ Len(q_msg_[w]) = Ints(w, "RTC_MSG") + Writers(w, "RTC_MSG")
        BY <2>1, MsgAccounts
      <3>4. /\ Ints(w, "NEW_CONN") \in Nat /\ Writers(w, "NEW_CONN") \in Nat
            /\ Len(q_conn_[w]) = Ints(w, "NEW_CONN") + Writers(w, "NEW_CONN")
        BY <2>1, ConnAccounts
      <3> QED BY <3>1, <3>2, <3>3, <3>4, PipeAssumption
    <2>5. /\ Len(q_msg_[Server]) \in Nat /\ Len(q_msg_[r]) \in Nat
          /\ Len(q_msg_[w]) \in Nat /\ Len(q_conn_[w]) \in Nat
      BY <2>1, QueueTypes, LenChange
    <2>6. \A a, b, c, d, n \in Nat :
            a >= n + 1 /\ b >= n + 1 /\ c + d >= n + 1 => a + b + (c + d) >= 3 * (n + 1)
      OBVIOUS
    <2> QED BY ONLY <2>3, <2>4, <2>5, <2>6, PipeAssumption
  <1> QED BY <1>1, <1>2, <1>3, TableInvariance, IntsAreMessages, PTL DEF Spec
=============================================================================
