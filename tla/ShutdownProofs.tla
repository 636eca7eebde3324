--------------------------- MODULE ShutdownProofs ---------------------------
(***************************************************************************)
(* Proofs about Shutdown for any number of workers, signals and requests:  *)
(* the order in which threads end, and that one signal without traffic     *)
(* ends them without a write to a closed pipe.                             *)
(***************************************************************************)
EXTENDS Shutdown, SequenceTheorems, TLAPS

States == {"new", "run", "stopped", "closing", "stopWorker", "joinWorker", "break", "ended"}
Mains  == {"startSig", "assignSig", "startRtc", "joinSig", "joinRtc", "done"}
Msgs   == {Quit} \cup {RtcMsg(w) : w \in Range(SigWorkers)}
Frames == [sig : Signals, pc : {"log", "locked", "sig", "rtc"}, early : BOOLEAN]

TypeOK ==
  /\ main \in Mains
  /\ handlers \in Seq(Frames)
  /\ thread \in [Threads -> States]
  /\ next \in [Servers -> Nat]
  /\ pipe \in [Threads -> Seq(Msgs)]
  /\ fds \in [Threads -> {"open", "half", "closed"}]
  /\ killed \in BOOLEAN /\ lost \in BOOLEAN /\ asked \in BOOLEAN
  /\ received \in Nat /\ requests \in Nat

(* main starts a server once, and has joined what it has passed.           *)
MainOrder ==
  /\ main = "startSig" => thread["sig"] = "new"
  /\ main \in {"startSig", "assignSig", "startRtc"} => thread["rtc"] = "new"
  /\ main \in {"joinRtc", "done"} => thread["sig"] = "ended"
  /\ main = "done" => thread["rtc"] = "ended"

(* A server has ended the workers before next, and is through with all of  *)
(* them when it leaves its loop.                                           *)
ServerOrder ==
  \A s \in Servers :
    /\ thread[s] \in {"new", "run", "stopped", "closing"} => next[s] = 1
    /\ thread[s] \in {"stopWorker", "joinWorker"} => next[s] \in 1 .. Len(Workers(s))
    /\ thread[s] \in {"break", "ended"} => next[s] = Len(Workers(s)) + 1
    /\ \A j \in 1 .. Len(Workers(s)) : j < next[s] => thread[Workers(s)[j]] = "ended"

OrderInv == TypeOK /\ MainOrder /\ ServerOrder

(* Nobody has asked the thread to stop, and it has not begun to.           *)
Untouched(t) == fds[t] = "open" /\ pipe[t] = <<>> /\ thread[t] \in {"new", "run"}

(* With one signal and no request each thread is asked to stop once, while *)
(* its pipe is open.                                                       *)
Quiet ==
  /\ ~killed /\ ~lost
  /\ \A t \in Threads : pipe[t] \in Seq({Quit})
  /\ received = 0 => handlers = <<>> /\ Untouched("sig") /\ Untouched("rtc")
  /\ handlers # <<>> => Len(handlers) = 1
  /\ handlers # <<>> => Untouched("rtc")
  /\ handlers # <<>> => handlers[1].pc = "rtc" \/ Untouched("sig")
  /\ \A s \in Servers : \A j \in 1 .. Len(Workers(s)) :
       (j > next[s] \/ (j = next[s] /\ thread[s] # "joinWorker")) => Untouched(Workers(s)[j])

IInv == OrderInv /\ (received <= 1 /\ requests = 0 => Quiet)

----------------------------------------------------------------------------
(* The threads                                                             *)

(* Every worker has one place in one of the two sequences, and is none of  *)
(* the servers.                                                            *)
LEMMA WorkerPlaces ==
  /\ \A s \in Servers : Workers(s) \in Seq(AllWorkers)
  /\ \A s \in Servers : \A i \in 1 .. Len(Workers(s)) : Workers(s)[i] \in AllWorkers
  /\ \A s, u \in Servers : \A i \in 1 .. Len(Workers(s)), j \in 1 .. Len(Workers(u)) :
       Workers(s)[i] = Workers(u)[j] => s = u /\ i = j
  <1> DEFINE A == SigWorkers
             B == RtcWorkers
  <1>1. A \in Seq(AllWorkers) /\ B \in Seq(AllWorkers)
    BY ShutdownAssumption
  <1>2. \A x, y \in 1 .. Len(A) + Len(B) : (A \o B)[x] = (A \o B)[y] => x = y
    BY <1>1, ShutdownAssumption, SMTT(30) DEF IsInjective
  <1>3. /\ \A i \in 1 .. Len(A) : (A \o B)[i] = A[i]
        /\ \A j \in 1 .. Len(B) : (A \o B)[Len(A) + j] = B[j]
    BY <1>1
  <1>4. Len(A) \in Nat /\ Len(B) \in Nat
    BY <1>1
  <1> HIDE DEF A, B
  <1>5. \A i \in 1 .. Len(A), j \in 1 .. Len(B) : A[i] # B[j]
    <2> SUFFICES ASSUME NEW i \in 1 .. Len(A), NEW j \in 1 .. Len(B), A[i] = B[j] PROVE FALSE
      OBVIOUS
    <2>1. (A \o B)[i] = (A \o B)[Len(A) + j]
      BY <1>3
    <2> QED BY <1>2, <1>4, <2>1
  <1>6. \A i, j \in 1 .. Len(A) : A[i] = A[j] => i = j
    BY <1>2, <1>3, <1>4
  <1>7. \A i, j \in 1 .. Len(B) : B[i] = B[j] => i = j
    <2> SUFFICES ASSUME NEW i \in 1 .. Len(B), NEW j \in 1 .. Len(B), B[i] = B[j] PROVE i = j
      OBVIOUS
    <2>1. (A \o B)[Len(A) + i] = (A \o B)[Len(A) + j]
      BY <1>3
    <2>2. Len(A) + i \in 1 .. Len(A) + Len(B) /\ Len(A) + j \in 1 .. Len(A) + Len(B)
      BY <1>4
    <2>3. Len(A) + i = Len(A) + j
      BY <1>2, <2>1, <2>2
    <2> QED BY <1>4, <2>3
  <1>8. \A s \in Servers : Workers(s) = A \/ Workers(s) = B
    BY DEF Workers, A, B
  <1>9. Workers("sig") = A /\ Workers("rtc") = B
    BY DEF Workers, A, B
  <1>10. \A s, u \in Servers : \A i \in 1 .. Len(Workers(s)), j \in 1 .. Len(Workers(u)) :
           Workers(s)[i] = Workers(u)[j] => s = u /\ i = j
    BY <1>5, <1>6, <1>7, <1>9 DEF Servers
  <1>11. \A s \in Servers : Workers(s) \in Seq(AllWorkers)
    BY <1>1, <1>8 DEF A, B
  <1> QED BY <1>10, <1>11

(* Servers and workers are different threads.                              *)
LEMMA ThreadFacts ==
  /\ "sig" \in Servers /\ "rtc" \in Servers
  /\ Servers \subseteq Threads /\ AllWorkers \subseteq Threads
  /\ Range(SigWorkers) \subseteq AllWorkers /\ Range(RtcWorkers) \subseteq AllWorkers
  /\ \A w \in AllWorkers : w \notin Servers
  BY ShutdownAssumption DEF Servers, Threads, AllWorkers

(* The innermost handler moves on.                                         *)
LEMMA FrameMoves ==
  ASSUME handlers \in Seq(Frames), n > 0, NEW p \in {"log", "locked", "sig", "rtc"},
         handlers' = [handlers EXCEPT ![n].pc = p]
  PROVE  /\ handlers' \in Seq(Frames) /\ Len(handlers') = n
         /\ n \in Nat /\ handlers'[n].pc = p
  <1>1. n \in 1 .. Len(handlers) /\ handlers[n] \in Frames
    BY DEF n
  <1>2. [handlers[n] EXCEPT !.pc = p] \in Frames /\ [handlers[n] EXCEPT !.pc = p].pc = p
    BY <1>1 DEF Frames
  <1>3. handlers' = [handlers EXCEPT ![n] = [handlers[n] EXCEPT !.pc = p]]
    OBVIOUS
  <1> HIDE DEF n
  <1> QED BY <1>1, <1>2, <1>3 DEF n

----------------------------------------------------------------------------
(* Types                                                                   *)

(* What Notify leaves in the pipes.                                        *)
LEMMA NotifyType ==
  ASSUME TypeOK, NEW t \in Threads, NEW m \in Msgs, Notify(t, m)
  PROVE  pipe' \in [Threads -> Seq(Msgs)] /\ killed' \in BOOLEAN /\ lost' \in BOOLEAN
  <1>1. pipe[t] \in Seq(Msgs)
    BY DEF TypeOK
  <1>2. Append(pipe[t], m) \in Seq(Msgs)
    BY <1>1
  <1>3. pipe' \in [Threads -> Seq(Msgs)]
    BY <1>2 DEF Notify, TypeOK
  <1>4. lost' \in BOOLEAN /\ killed' \in BOOLEAN
    BY DEF Notify, TypeOK
  <1> QED BY <1>3, <1>4

(* What a thread reads from its pipe.                                      *)
LEMMA HeadMsg ==
  ASSUME TypeOK, NEW t \in Threads, NEW y, Reads(t, y)
  PROVE  /\ pipe[t] \in Seq(Msgs) /\ pipe[t] # <<>>
         /\ Head(pipe[t]) \in Msgs /\ Tail(pipe[t]) \in Seq(Msgs)
         /\ Head(pipe[t]).type = y
  BY DEF TypeOK, Reads

(* Before main has started anything the invariant holds.                   *)
LEMMA InitIInv == Init => IInv
  <1> USE ThreadFacts
  <1> SUFFICES ASSUME Init PROVE IInv
    OBVIOUS
  <1>1. TypeOK
    <2>1. <<>> \in Seq(Frames) /\ <<>> \in Seq(Msgs)
      OBVIOUS
    <2>2. pipe \in [Threads -> Seq(Msgs)] /\ handlers \in Seq(Frames)
      BY <2>1 DEF Init
    <2>3. thread \in [Threads -> States]
      BY DEF Init, States
    <2>4. main \in Mains /\ next \in [Servers -> Nat]
      BY DEF Init, Mains
    <2>5. /\ killed \in BOOLEAN /\ lost \in BOOLEAN /\ asked \in BOOLEAN
          /\ received \in Nat /\ requests \in Nat
      BY DEF Init
    <2>6. fds \in [Threads -> {"open", "half", "closed"}]
      BY DEF Init
    <2> QED BY <2>2, <2>3, <2>4, <2>5, <2>6 DEF TypeOK
  <1>2. MainOrder
    BY DEF Init, MainOrder
  <1>3. ServerOrder
    BY WorkerPlaces DEF Init, ServerOrder, Servers
  <1>4. Quiet
    <2>1. \A s \in Servers : Untouched(s)
      BY DEF Untouched, Init
    <2>2. \A w \in AllWorkers : Untouched(w)
      BY DEF Untouched, Init
    <2> QED BY <2>1, <2>2, WorkerPlaces DEF Quiet, Init
  <1> QED BY <1>1, <1>2, <1>3, <1>4 DEF IInv, OrderInv

----------------------------------------------------------------------------
(* main and the signal handlers                                            *)

(* Nothing that ServerOrder and MainOrder speak of changes.                *)
LEMMA SameOrder ==
  ASSUME OrderInv, UNCHANGED <<main, thread, next>>
  PROVE  MainOrder' /\ ServerOrder'
  BY DEF OrderInv, MainOrder, ServerOrder

(* What main does outside handlers.                                        *)
LEMMA MainIInv ==
  ASSUME IInv, Spawn \/ StartRtc \/ Join
  PROVE  IInv'
  <1> USE ThreadFacts
  <1>1. TypeOK'
    BY DEF IInv, OrderInv, TypeOK, Mains, States, Spawn, StartRtc, Join, mainOnly,
           pipeVars, countVars
  <1>2. MainOrder'
    BY DEF IInv, OrderInv, TypeOK, MainOrder, Spawn, StartRtc, Join, mainOnly
  <1>3. ServerOrder'
    <2>1. \A t \in Threads : thread[t] = "ended" => thread'[t] = "ended"
      BY DEF IInv, OrderInv, TypeOK, MainOrder, Spawn, StartRtc, Join
    <2>2. \A s \in Servers : thread'[s] = thread[s] \/ (thread[s] = "new" /\ thread'[s] = "run")
      BY DEF IInv, OrderInv, TypeOK, MainOrder, Spawn, StartRtc, Join
    <2>3. next' = next
      BY DEF Spawn, StartRtc, Join, mainOnly
    <2>4. \A s \in Servers : \A j \in 1 .. Len(Workers(s)) :
            j < next'[s] => thread'[Workers(s)[j]] = "ended"
      BY <2>1, <2>3, WorkerPlaces DEF IInv, OrderInv, ServerOrder
    <2>5. \A s \in Servers :
            /\ thread'[s] \in {"new", "run", "stopped", "closing"} => next'[s] = 1
            /\ thread'[s] \in {"stopWorker", "joinWorker"} => next'[s] \in 1 .. Len(Workers(s))
            /\ thread'[s] \in {"break", "ended"} => next'[s] = Len(Workers(s)) + 1
      BY <2>2, <2>3 DEF IInv, OrderInv, ServerOrder
    <2> QED BY <2>4, <2>5 DEF ServerOrder
  <1>4. ASSUME Quiet PROVE Quiet'
    <2>1. UNCHANGED <<handlers, next, pipe, killed, lost, fds, received>>
      BY DEF Spawn, StartRtc, Join, mainOnly, pipeVars, countVars
    <2>2. \A s \in Servers : thread'[s] = thread[s] \/ (thread[s] = "new" /\ thread'[s] = "run")
      BY DEF IInv, OrderInv, TypeOK, MainOrder, Spawn, StartRtc, Join
    <2>3. \A w \in AllWorkers : thread'[w] = thread[w]
      BY DEF IInv, OrderInv, TypeOK, Spawn, StartRtc, Join
    <2>4. \A t \in Threads : Untouched(t) => Untouched(t)'
      BY <2>1, <2>2, <2>3 DEF Untouched, Threads
    <2>5. \A s \in Servers : thread'[s] # "joinWorker" => thread[s] # "joinWorker"
      BY <2>2
    <2> QED BY <1>4, <2>1, <2>4, <2>5, WorkerPlaces DEF Quiet
  <1>5. received' = received /\ requests' = requests
    BY DEF Spawn, StartRtc, Join, mainOnly, countVars
  <1> QED BY <1>1, <1>2, <1>3, <1>4, <1>5 DEF IInv, OrderInv

(* A signal interrupts main.                                               *)
LEMMA SignalIInv ==
  ASSUME IInv, NEW g \in Signals, Signal(g)
  PROVE  IInv'
  <1> USE ThreadFacts
  <1> DEFINE f == [sig |-> g, pc |-> "log",
                   early |-> main \in {"startSig", "assignSig", "startRtc"}]
  <1>1. f \in Frames /\ f.pc = "log"
    BY DEF Frames
  <1>2. handlers' = Append(handlers, f) /\ received' = received + 1
    BY DEF Signal
  <1> HIDE DEF f
  <1>3. UNCHANGED <<main, thread, next, pipe, killed, lost, fds, requests, asked>>
    BY DEF Signal, pipeVars
  <1>4. TypeOK'
    BY <1>1, <1>2, <1>3 DEF IInv, OrderInv, TypeOK
  <1>5. ASSUME received' <= 1, Quiet PROVE Quiet'
    <2>1. received = 0 /\ handlers = <<>>
      BY <1>2, <1>5 DEF IInv, OrderInv, TypeOK, Quiet
    <2>2. Untouched("sig")' /\ Untouched("rtc")'
      BY <1>3, <1>5, <2>1 DEF Untouched, Quiet
    <2>3. Len(handlers') = 1 /\ received' # 0
      BY <1>2, <2>1
    <2> QED BY <1>3, <1>5, <2>2, <2>3 DEF Quiet, Untouched
  <1>6. received' <= 1 => received <= 1
    BY <1>2 DEF IInv, OrderInv, TypeOK
  <1> QED BY <1>3, <1>4, <1>5, <1>6, SameOrder DEF IInv, OrderInv

(* The log line of a handler, and those of other threads.                  *)
LEMMA LogIInv ==
  ASSUME IInv, HandlerLock \/ HandlerUnlock \/ OtherLock \/ OtherUnlock
  PROVE  IInv'
  <1>1. UNCHANGED <<main, thread, next, pipe, killed, lost, fds, received, requests, asked>>
    BY DEF HandlerLock, HandlerUnlock, OtherLock, OtherUnlock, pipeVars, countVars
  <1>2. CASE handlers' = handlers
    BY <1>1, <1>2, SameOrder DEF IInv, OrderInv, TypeOK, Quiet, Untouched
  <1>3. CASE HandlerLock \/ HandlerUnlock
    <2>1. PICK p \in {"locked", "sig"} : handlers' = [handlers EXCEPT ![n].pc = p]
      BY <1>3 DEF HandlerLock, HandlerUnlock
    <2>2. n > 0 /\ Top.pc \in {"log", "locked"}
      BY <1>3 DEF HandlerLock, HandlerUnlock
    <2>3. /\ handlers' \in Seq(Frames) /\ Len(handlers') = n
          /\ n \in Nat /\ handlers'[n].pc = p
      BY <2>1, <2>2, FrameMoves DEF IInv, OrderInv, TypeOK
    <2>4. TypeOK'
      BY <1>1, <2>3 DEF IInv, OrderInv, TypeOK
    <2>5. ASSUME Quiet PROVE Quiet'
      <3>1. handlers # <<>> /\ n = 1 /\ received # 0
        BY <2>2, <2>5 DEF Quiet, n
      <3>2. Untouched("sig") /\ Untouched("rtc")
        BY <2>2, <2>5, <3>1 DEF Quiet, Top
      <3>3. Untouched("sig")' /\ Untouched("rtc")'
        BY <1>1, <3>2 DEF Untouched
      <3>4. received' # 0 /\ Len(handlers') = 1
        BY <1>1, <2>3, <3>1
      <3> QED BY <1>1, <2>5, <3>3, <3>4 DEF Quiet, Untouched
    <2> QED BY <1>1, <2>4, <2>5, SameOrder DEF IInv, OrderInv
  <1> QED BY <1>2, <1>3 DEF OtherLock, OtherUnlock

(* A handler writes QUIT to the pipe of a server: with one signal, while   *)
(* that server has not begun to stop.                                      *)
LEMMA HandlerStopIInv ==
  ASSUME IInv, HandlerStop
  PROVE  IInv'
  <1> USE ThreadFacts
  <1>1. UNCHANGED <<main, thread, next, fds, received, requests>>
    BY DEF HandlerStop, countVars
  <1>2. n \in 1 .. Len(handlers) /\ Top \in Frames
    BY DEF HandlerStop, n, Top, IInv, OrderInv, TypeOK
  <1>3. Quit \in Msgs
    BY DEF Msgs
  <1>4. CASE Top.pc = "sig" /\ Notify("sig", Quit) /\ UNCHANGED asked
             /\ handlers' = [handlers EXCEPT ![n].pc = "rtc"]
    <2>1. /\ handlers' \in Seq(Frames) /\ Len(handlers') = n
          /\ n \in Nat /\ handlers'[n].pc = "rtc"
      BY <1>4, FrameMoves DEF IInv, OrderInv, TypeOK, HandlerStop
    <2>2. TypeOK'
      BY <1>1, <1>3, <1>4, <2>1, NotifyType DEF IInv, OrderInv, TypeOK
    <2>3. ASSUME Quiet PROVE Quiet'
      <3>1. handlers # <<>> /\ n = 1 /\ received # 0
        BY <1>2, <2>3 DEF Quiet, n
      <3>2. Untouched("sig") /\ Untouched("rtc")
        BY <1>4, <2>3, <3>1 DEF Quiet, Top
      <3>3. /\ pipe' = [pipe EXCEPT !["sig"] = Append(@, Quit)]
            /\ ~killed' /\ ~lost'
        BY <1>4, <2>3, <3>2 DEF Notify, Untouched, Quiet
      <3>4. \A t \in Threads : t # "sig" /\ Untouched(t) => Untouched(t)'
        BY <1>1, <3>3 DEF Untouched, IInv, OrderInv, TypeOK
      <3>5. \A t \in Threads : pipe'[t] \in Seq({Quit})
        BY <2>3, <3>3 DEF Quiet, IInv, OrderInv, TypeOK
      <3>6. received' # 0 /\ Len(handlers') = 1 /\ handlers'[1].pc = "rtc"
        BY <1>1, <2>1, <3>1
      <3>7. \A s \in Servers : \A j \in 1 .. Len(Workers(s)) :
              Workers(s)[j] \in Threads /\ Workers(s)[j] # "sig"
        BY WorkerPlaces
      <3> QED BY <1>1, <2>3, <3>2, <3>3, <3>4, <3>5, <3>6, <3>7 DEF Quiet, Servers
    <2> QED BY <1>1, <2>2, <2>3, SameOrder DEF IInv, OrderInv
  <1>5. CASE Top.pc = "rtc" /\ Notify("rtc", Quit)
             /\ handlers' = Front(handlers) /\ asked' = (asked \/ ~Top.early)
    <2>1. handlers' \in Seq(Frames)
      BY <1>2, <1>5 DEF Front, IInv, OrderInv, TypeOK
    <2>2. asked' \in BOOLEAN
      BY <1>5 DEF IInv, OrderInv, TypeOK
    <2>3. TypeOK'
      BY <1>1, <1>3, <1>5, <2>1, <2>2, NotifyType DEF IInv, OrderInv, TypeOK
    <2>4. ASSUME Quiet PROVE Quiet'
      <3>1. handlers # <<>> /\ n = 1 /\ received # 0
        BY <1>2, <2>4 DEF Quiet, n
      <3>2. Untouched("rtc")
        BY <2>4, <3>1 DEF Quiet
      <3>3. /\ pipe' = [pipe EXCEPT !["rtc"] = Append(@, Quit)]
            /\ ~killed' /\ ~lost'
        BY <1>5, <2>4, <3>2 DEF Notify, Untouched, Quiet
      <3>4. \A t \in Threads : t # "rtc" /\ Untouched(t) => Untouched(t)'
        BY <1>1, <3>3 DEF Untouched, IInv, OrderInv, TypeOK
      <3>5. \A t \in Threads : pipe'[t] \in Seq({Quit})
        BY <2>4, <3>3 DEF Quiet, IInv, OrderInv, TypeOK
      <3>6. handlers' = <<>>
        <4>1. handlers' = SubSeq(handlers, 1, 0)
          BY <1>5, <3>1 DEF Front, n
        <4> QED BY <4>1, SubSeqEmpty
      <3>7. \A s \in Servers : \A j \in 1 .. Len(Workers(s)) :
              Workers(s)[j] \in Threads /\ Workers(s)[j] # "rtc"
        BY WorkerPlaces
      <3> QED BY <1>1, <2>4, <3>1, <3>3, <3>4, <3>5, <3>6, <3>7 DEF Quiet
    <2> QED BY <1>1, <2>3, <2>4, SameOrder DEF IInv, OrderInv
  <1> QED BY <1>4, <1>5 DEF HandlerStop

----------------------------------------------------------------------------
(* The threads                                                             *)

(* A thread takes QUIT from its pipe.                                      *)
LEMMA ReadQuitIInv ==
  ASSUME IInv, NEW t \in Threads, ReadQuit(t)
  PROVE  IInv'
  <1> USE ThreadFacts
  <1>1. /\ UNCHANGED <<main, handlers, next, fds, killed, lost, received, requests, asked>>
        /\ pipe' = [pipe EXCEPT ![t] = Tail(@)]
    BY DEF ReadQuit, threadOnly, countVars
  <1>2. /\ thread[t] = "run" /\ pipe[t] # <<>> /\ main # "done"
        /\ thread' \in {thread, [thread EXCEPT ![t] = "stopped"]}
    BY DEF ReadQuit, Reads, InnerStop
  <1>3. TypeOK'
    <2>1. Tail(pipe[t]) \in Seq(Msgs)
      BY HeadMsg DEF ReadQuit, IInv, OrderInv
    <2>2. pipe' \in [Threads -> Seq(Msgs)]
      BY <1>1, <2>1 DEF IInv, OrderInv, TypeOK
    <2>3. thread' \in [Threads -> States]
      BY <1>2 DEF IInv, OrderInv, TypeOK, States
    <2> QED BY <1>1, <2>2, <2>3 DEF IInv, OrderInv, TypeOK
  <1>4. MainOrder'
    BY <1>1, <1>2 DEF IInv, OrderInv, TypeOK, MainOrder
  <1>5. ServerOrder'
    <2>1. \A u \in Threads : thread[u] = "ended" => thread'[u] = "ended"
      BY <1>2 DEF IInv, OrderInv, TypeOK
    <2>2. \A s \in Servers : thread'[s] = thread[s] \/ (thread[s] = "run" /\ thread'[s] = "stopped")
      BY <1>2 DEF IInv, OrderInv, TypeOK
    <2>3. \A s \in Servers : \A j \in 1 .. Len(Workers(s)) :
            j < next'[s] => thread'[Workers(s)[j]] = "ended"
      BY <1>1, <2>1, WorkerPlaces DEF IInv, OrderInv, ServerOrder
    <2>4. \A s \in Servers :
            /\ thread'[s] \in {"new", "run", "stopped", "closing"} => next'[s] = 1
            /\ thread'[s] \in {"stopWorker", "joinWorker"} => next'[s] \in 1 .. Len(Workers(s))
            /\ thread'[s] \in {"break", "ended"} => next'[s] = Len(Workers(s)) + 1
      BY <1>1, <2>2 DEF IInv, OrderInv, ServerOrder
    <2> QED BY <2>3, <2>4 DEF ServerOrder
  <1>6. ASSUME Quiet PROVE Quiet'
    <2>1. ~Untouched(t)
      BY <1>2 DEF Untouched
    <2>2. \A u \in Threads : Untouched(u) => Untouched(u)'
      BY <1>1, <1>2, <2>1 DEF Untouched, IInv, OrderInv, TypeOK
    <2>3. \A u \in Threads : pipe'[u] \in Seq({Quit})
      BY <1>1, <1>2, <1>6, SMTT(30) DEF Quiet, IInv, OrderInv, TypeOK
    <2>4. \A s \in Servers : thread'[s] # "joinWorker" => thread[s] # "joinWorker"
      BY <1>2 DEF IInv, OrderInv, TypeOK
    <2> QED BY <1>1, <1>6, <2>2, <2>3, <2>4, WorkerPlaces DEF Quiet
  <1> QED BY <1>1, <1>3, <1>4, <1>5, <1>6 DEF IInv, OrderInv

(* A request or a reply: there is none in quiet.                           *)
LEMMA ReadRtcMsgIInv ==
  ASSUME IInv, NEW t \in Threads, ReadRtcMsg(t)
  PROVE  IInv'
  <1> USE ThreadFacts
  <1> DEFINE msg == Head(pipe[t])
             rest == [pipe EXCEPT ![t] = Tail(@)]
  <1>1. UNCHANGED <<main, handlers, thread, next, fds, received, requests, asked>>
    BY DEF ReadRtcMsg, threadOnly, countVars
  <1>2. /\ pipe[t] \in Seq(Msgs) /\ pipe[t] # <<>>
        /\ msg \in Msgs /\ Tail(pipe[t]) \in Seq(Msgs) /\ msg.type = "RTC_MSG"
    BY HeadMsg DEF ReadRtcMsg, IInv, OrderInv
  <1>3. msg # Quit /\ msg.worker \in Range(SigWorkers)
    BY <1>2 DEF Msgs, Quit, RtcMsg
  <1>4. rest \in [Threads -> Seq(Msgs)]
    BY <1>2 DEF IInv, OrderInv, TypeOK
  <1>5. \/ pipe' = rest /\ UNCHANGED <<killed, lost>>
        \/ \E w \in Threads :
             /\ pipe' = IF fds[w] = "open" THEN [rest EXCEPT ![w] = Append(@, msg)] ELSE rest
             /\ killed' = (fds[w] = "half")
             /\ lost' = (lost \/ fds[w] = "closed")
    BY <1>3 DEF ReadRtcMsg
  <1> HIDE DEF rest
  <1>6. TypeOK'
    <2>1. CASE pipe' = rest /\ UNCHANGED <<killed, lost>>
      BY <1>1, <1>4, <2>1 DEF IInv, OrderInv, TypeOK
    <2>2. ASSUME NEW w \in Threads,
                 pipe' = IF fds[w] = "open" THEN [rest EXCEPT ![w] = Append(@, msg)] ELSE rest,
                 killed' = (fds[w] = "half"),
                 lost' = (lost \/ fds[w] = "closed")
          PROVE  TypeOK'
      <3>1. Append(rest[w], msg) \in Seq(Msgs)
        BY <1>2, <1>4
      <3>2. pipe' \in [Threads -> Seq(Msgs)]
        BY <1>4, <2>2, <3>1
      <3>3. killed' \in BOOLEAN /\ lost' \in BOOLEAN
        BY <2>2 DEF IInv, OrderInv, TypeOK
      <3> QED BY <1>1, <3>2, <3>3 DEF IInv, OrderInv, TypeOK
    <2> QED BY <1>5, <2>1, <2>2
  <1>7. ~Quiet
    <2> SUFFICES ASSUME Quiet PROVE FALSE
      OBVIOUS
    <2>1. pipe[t] \in Seq({Quit})
      BY DEF Quiet
    <2> QED BY <1>2, <1>3, <2>1
  <1> QED BY <1>1, <1>6, <1>7, SameOrder DEF IInv, OrderInv

(* The pipe is closed; a server turns to its workers.                      *)
LEMMA CloseIInv ==
  ASSUME IInv, NEW t \in Threads, Close(t)
  PROVE  IInv'
  <1> USE ThreadFacts
  <1> DEFINE to == IF thread[t] = "stopped" THEN "closing"
                   ELSE IF t \in Servers /\ Workers(t) # <<>> THEN "stopWorker" ELSE "break"
  <1>1. UNCHANGED <<main, handlers, next, pipe, killed, lost, received, requests, asked>>
    BY DEF Close, threadOnly, countVars, pipeVars
  <1>2. /\ thread[t] \in {"stopped", "closing"} /\ main # "done"
        /\ thread' = [thread EXCEPT ![t] = to]
        /\ fds' \in {[fds EXCEPT ![t] = "half"], [fds EXCEPT ![t] = "closed"]}
    BY DEF Close
  <1>3. TypeOK'
    BY <1>1, <1>2 DEF IInv, OrderInv, TypeOK, States
  <1>4. MainOrder'
    BY <1>1, <1>2 DEF IInv, OrderInv, TypeOK, MainOrder
  <1>5. ServerOrder'
    <2>1. \A u \in Threads : thread[u] = "ended" => thread'[u] = "ended"
      BY <1>2 DEF IInv, OrderInv, TypeOK
    <2>2. \A s \in Servers : \A j \in 1 .. Len(Workers(s)) :
            j < next'[s] => thread'[Workers(s)[j]] = "ended"
      BY <1>1, <2>1, WorkerPlaces DEF IInv, OrderInv, ServerOrder
    <2>3. ASSUME NEW s \in Servers
          PROVE  /\ thread'[s] \in {"new", "run", "stopped", "closing"} => next'[s] = 1
                 /\ thread'[s] \in {"stopWorker", "joinWorker"} => next'[s] \in 1 .. Len(Workers(s))
                 /\ thread'[s] \in {"break", "ended"} => next'[s] = Len(Workers(s)) + 1
      <3>1. CASE s = t
        <4>1. next'[t] = 1 /\ thread'[t] = to
          BY <1>1, <1>2, <3>1 DEF IInv, OrderInv, ServerOrder, TypeOK
        <4>2. Workers(t) \in Seq(AllWorkers)
          BY <3>1, WorkerPlaces
        <4>3. IF Workers(t) = <<>> THEN Len(Workers(t)) = 0 ELSE 1 \in 1 .. Len(Workers(t))
          BY <4>2
        <4> QED BY <3>1, <4>1, <4>3
      <3>2. CASE s # t
        BY <1>1, <1>2, <3>2 DEF IInv, OrderInv, ServerOrder, TypeOK
      <3> QED BY <3>1, <3>2
    <2> QED BY <2>2, <2>3 DEF ServerOrder
  <1>6. ASSUME Quiet PROVE Quiet'
    <2>1. ~Untouched(t)
      BY <1>2 DEF Untouched
    <2>2. \A u \in Threads : Untouched(u) => Untouched(u)'
      BY <1>1, <1>2, <2>1 DEF Untouched, IInv, OrderInv, TypeOK
    <2>3. \A s \in Servers : thread'[s] # "joinWorker" => thread[s] # "joinWorker"
      BY <1>2 DEF IInv, OrderInv, TypeOK
    <2> QED BY <1>1, <1>6, <2>2, <2>3, WorkerPlaces DEF Quiet
  <1> QED BY <1>1, <1>3, <1>4, <1>5, <1>6 DEF IInv, OrderInv

(* A thread leaves its loop.                                               *)
LEMMA EndIInv ==
  ASSUME IInv, NEW t \in Threads, End(t)
  PROVE  IInv'
  <1> USE ThreadFacts
  <1>1. UNCHANGED <<main, handlers, next, pipe, killed, lost, fds, received, requests, asked>>
    BY DEF End, threadOnly, countVars, pipeVars
  <1>2. thread[t] = "break" /\ thread' = [thread EXCEPT ![t] = "ended"] /\ main # "done"
    BY DEF End
  <1>3. TypeOK'
    BY <1>1, <1>2 DEF IInv, OrderInv, TypeOK, States
  <1>4. MainOrder'
    BY <1>1, <1>2 DEF IInv, OrderInv, TypeOK, MainOrder
  <1>5. ServerOrder'
    <2>1. \A s \in Servers : \A j \in 1 .. Len(Workers(s)) :
            j < next'[s] => thread'[Workers(s)[j]] = "ended"
      BY <1>1, <1>2, WorkerPlaces DEF IInv, OrderInv, ServerOrder, TypeOK
    <2>2. \A s \in Servers :
            /\ thread'[s] \in {"new", "run", "stopped", "closing"} => next'[s] = 1
            /\ thread'[s] \in {"stopWorker", "joinWorker"} => next'[s] \in 1 .. Len(Workers(s))
            /\ thread'[s] \in {"break", "ended"} => next'[s] = Len(Workers(s)) + 1
      BY <1>1, <1>2 DEF IInv, OrderInv, ServerOrder, TypeOK
    <2> QED BY <2>1, <2>2 DEF ServerOrder
  <1>6. ASSUME Quiet PROVE Quiet'
    <2>1. \A u \in Threads : Untouched(u) => Untouched(u)'
      BY <1>1, <1>2 DEF Untouched, IInv, OrderInv, TypeOK
    <2>2. \A s \in Servers : thread'[s] # "joinWorker" => thread[s] # "joinWorker"
      BY <1>2 DEF IInv, OrderInv, TypeOK
    <2> QED BY <1>1, <1>6, <2>1, <2>2, WorkerPlaces DEF Quiet
  <1> QED BY <1>1, <1>3, <1>4, <1>5, <1>6 DEF IInv, OrderInv

(* A server asks the next worker to stop, which nobody has done before.    *)
LEMMA StopWorkerIInv ==
  ASSUME IInv, NEW s \in Servers, StopWorker(s)
  PROVE  IInv'
  <1> USE ThreadFacts
  <1> DEFINE w == Workers(s)[next[s]]
  <1>1. UNCHANGED <<main, handlers, next, fds, received, requests, asked>>
    BY DEF StopWorker, threadOnly, countVars
  <1>2. /\ thread[s] = "stopWorker" /\ thread' = [thread EXCEPT ![s] = "joinWorker"]
        /\ next[s] \in 1 .. Len(Workers(s)) /\ w \in AllWorkers /\ Notify(w, Quit)
    BY WorkerPlaces DEF StopWorker, IInv, OrderInv, ServerOrder
  <1>3. TypeOK'
    <2>1. Quit \in Msgs
      BY DEF Msgs
    <2>2. pipe' \in [Threads -> Seq(Msgs)] /\ killed' \in BOOLEAN /\ lost' \in BOOLEAN
      BY <1>2, <2>1, NotifyType DEF IInv, OrderInv
    <2> QED BY <1>1, <1>2, <2>2 DEF IInv, OrderInv, TypeOK, States
  <1>4. MainOrder'
    BY <1>1, <1>2 DEF IInv, OrderInv, TypeOK, MainOrder
  <1>5. ServerOrder'
    <2>1. \A x \in AllWorkers : thread'[x] = thread[x]
      BY <1>2 DEF IInv, OrderInv, TypeOK
    <2>2. \A u \in Servers : \A j \in 1 .. Len(Workers(u)) :
            j < next'[u] => thread'[Workers(u)[j]] = "ended"
      BY <1>1, <2>1, WorkerPlaces DEF IInv, OrderInv, ServerOrder
    <2>3. \A u \in Servers :
            /\ thread'[u] \in {"new", "run", "stopped", "closing"} => next'[u] = 1
            /\ thread'[u] \in {"stopWorker", "joinWorker"} => next'[u] \in 1 .. Len(Workers(u))
            /\ thread'[u] \in {"break", "ended"} => next'[u] = Len(Workers(u)) + 1
      BY <1>1, <1>2 DEF IInv, OrderInv, ServerOrder, TypeOK
    <2> QED BY <2>2, <2>3 DEF ServerOrder
  <1> HIDE DEF w
  <1>6. ASSUME Quiet PROVE Quiet'
    <2>1. Untouched(w)
      BY <1>2, <1>6 DEF Quiet, w
    <2>2. ~killed' /\ ~lost' /\ pipe' = [pipe EXCEPT ![w] = Append(@, Quit)]
      BY <1>2, <1>6, <2>1 DEF Notify, Untouched, Quiet
    <2>3. ~Untouched(s)
      BY <1>2 DEF Untouched
    <2>4. \A u \in Threads : u # w /\ Untouched(u) => Untouched(u)'
      BY <1>1, <1>2, <2>2, <2>3 DEF Untouched, IInv, OrderInv, TypeOK
    <2>5. \A u \in Threads : pipe'[u] \in Seq({Quit})
      <3>1. pipe[w] \in Seq({Quit})
        BY <1>2, <1>6 DEF Quiet
      <3>2. Append(pipe[w], Quit) \in Seq({Quit})
        BY <3>1
      <3> QED BY <1>2, <1>6, <2>2, <3>2 DEF Quiet, IInv, OrderInv, TypeOK
    <2>6. ASSUME NEW u \in Servers, NEW j \in 1 .. Len(Workers(u)),
                 j > next'[u] \/ (j = next'[u] /\ thread'[u] # "joinWorker")
          PROVE  Untouched(Workers(u)[j])'
      <3>1. j > next[u] \/ (j = next[u] /\ u # s /\ thread[u] # "joinWorker")
        BY <1>1, <1>2, <2>6 DEF IInv, OrderInv, TypeOK
      <3>2. Workers(u)[j] # w
        <4>1. ~(u = s /\ j = next[s])
          BY <3>1 DEF IInv, OrderInv, TypeOK
        <4> QED BY <1>2, <4>1, WorkerPlaces DEF w
      <3>3. Untouched(Workers(u)[j])
        BY <1>6, <3>1 DEF Quiet
      <3> QED BY <2>4, <3>2, <3>3, WorkerPlaces
    <2>7. "sig" # w /\ "rtc" # w
      BY <1>2
    <2> QED BY <1>1, <1>6, <2>2, <2>4, <2>5, <2>6, <2>7 DEF Quiet
  <1> QED BY <1>1, <1>3, <1>4, <1>5, <1>6 DEF IInv, OrderInv

(* It goes on to the next worker when this one has ended.                  *)
LEMMA JoinWorkerIInv ==
  ASSUME IInv, NEW s \in Servers, JoinWorker(s)
  PROVE  IInv'
  <1> USE ThreadFacts
  <1> DEFINE to == IF next[s] = Len(Workers(s)) THEN "break" ELSE "stopWorker"
  <1>1. UNCHANGED <<main, handlers, pipe, killed, lost, fds, received, requests, asked>>
    BY DEF JoinWorker, threadOnly, countVars, pipeVars
  <1>2. /\ thread[s] = "joinWorker" /\ thread[Workers(s)[next[s]]] = "ended"
        /\ next[s] \in 1 .. Len(Workers(s)) /\ Len(Workers(s)) \in Nat
        /\ next' = [next EXCEPT ![s] = @ + 1]
        /\ thread' = [thread EXCEPT ![s] = to]
    BY WorkerPlaces DEF JoinWorker, IInv, OrderInv, ServerOrder
  <1>3. TypeOK'
    BY <1>1, <1>2 DEF IInv, OrderInv, TypeOK, States
  <1>4. MainOrder'
    BY <1>1, <1>2 DEF IInv, OrderInv, TypeOK, MainOrder
  <1>5. ServerOrder'
    <2>1. \A u \in Servers : \A j \in 1 .. Len(Workers(u)) :
            j < next'[u] => thread[Workers(u)[j]] = "ended"
      BY <1>2 DEF IInv, OrderInv, ServerOrder, TypeOK
    <2>2. \A w \in AllWorkers : thread'[w] = thread[w]
      BY <1>2 DEF IInv, OrderInv, TypeOK
    <2>3. \A u \in Servers :
            /\ thread'[u] \in {"new", "run", "stopped", "closing"} => next'[u] = 1
            /\ thread'[u] \in {"stopWorker", "joinWorker"} => next'[u] \in 1 .. Len(Workers(u))
            /\ thread'[u] \in {"break", "ended"} => next'[u] = Len(Workers(u)) + 1
      BY <1>2, SMTT(30) DEF IInv, OrderInv, ServerOrder, TypeOK
    <2> QED BY <2>1, <2>2, <2>3, WorkerPlaces DEF ServerOrder
  <1>6. ASSUME Quiet PROVE Quiet'
    <2>1. \A u \in Threads : Untouched(u) => Untouched(u)'
      BY <1>1, <1>2 DEF Untouched, IInv, OrderInv, TypeOK
    <2>2. \A u \in Servers : \A j \in 1 .. Len(Workers(u)) :
            j > next'[u] \/ (j = next'[u] /\ thread'[u] # "joinWorker")
            => j > next[u] \/ (j = next[u] /\ thread[u] # "joinWorker")
      BY <1>2 DEF IInv, OrderInv, TypeOK
    <2> QED BY <1>1, <1>6, <2>1, <2>2, WorkerPlaces DEF Quiet
  <1> QED BY <1>1, <1>3, <1>4, <1>5, <1>6 DEF IInv, OrderInv

(* A request ends the quiet.                                               *)
LEMMA ReadQueryIInv ==
  ASSUME IInv, NEW w \in Range(SigWorkers), ReadQuery(w)
  PROVE  IInv'
  <1> USE ThreadFacts
  <1>1. /\ UNCHANGED <<main, handlers, thread, next, fds, received, asked>>
        /\ requests' = requests + 1 /\ Notify("rtc", RtcMsg(w))
    BY DEF ReadQuery
  <1>2. RtcMsg(w) \in Msgs
    BY DEF Msgs
  <1>3. pipe' \in [Threads -> Seq(Msgs)] /\ killed' \in BOOLEAN /\ lost' \in BOOLEAN
    BY <1>1, <1>2, NotifyType DEF IInv, OrderInv
  <1>4. TypeOK'
    BY <1>1, <1>3 DEF IInv, OrderInv, TypeOK
  <1>5. requests' # 0
    BY <1>1 DEF IInv, OrderInv, TypeOK
  <1> QED BY <1>1, <1>4, <1>5, SameOrder DEF IInv, OrderInv

----------------------------------------------------------------------------

(* Whatever signals come, in or after Start, alone or nested, main and the *)
(* servers keep their order, and no write goes astray in quiet.            *)
THEOREM Invariance == Spec => []IInv
  <1>1. IInv /\ [Next]_vars => IInv'
    <2> SUFFICES ASSUME IInv, [Next]_vars PROVE IInv'
      OBVIOUS
    <2>1. ASSUME NEW t \in Threads, Step(t) PROVE IInv'
      BY <2>1, ReadQuitIInv, ReadRtcMsgIInv, CloseIInv, EndIInv, StopWorkerIInv,
         JoinWorkerIInv DEF Step, Stop
    <2>2. CASE UNCHANGED vars
      BY <2>2 DEF vars, IInv, OrderInv, TypeOK, MainOrder, ServerOrder, Quiet, Untouched
    <2> QED BY <2>1, <2>2, MainIInv, SignalIInv, LogIInv, HandlerStopIInv, ReadQueryIInv
            DEF Next
  <1> QED BY <1>1, InitIInv, PTL DEF Spec

(* A server's thread ends after its workers, and main after both, for any  *)
(* number of workers and signals, with whatever is still in the pipes      *)
(* (InnerStop and Join of SignalingServer and RtcServer).                  *)
THEOREM ThreadsEndBottomUp == Spec => []EndsBottomUp
  <1>1. IInv => EndsBottomUp
    <2> SUFFICES ASSUME IInv PROVE EndsBottomUp
      OBVIOUS
    <2>1. ASSUME NEW s \in Servers, thread[s] = "ended", NEW w \in Range(Workers(s))
          PROVE  thread[w] = "ended"
      <3>1. Workers(s) \in Seq(AllWorkers)
        BY WorkerPlaces
      <3>2. PICK j \in 1 .. Len(Workers(s)) : w = Workers(s)[j]
        BY <3>1 DEF Range
      <3>3. j < next[s]
        BY <2>1, <3>1 DEF IInv, OrderInv, ServerOrder
      <3> QED BY <3>2, <3>3 DEF IInv, OrderInv, ServerOrder
    <2>2. ASSUME main = "done", NEW t \in Threads PROVE thread[t] = "ended"
      <3>1. thread["sig"] = "ended" /\ thread["rtc"] = "ended"
        BY <2>2 DEF IInv, OrderInv, MainOrder
      <3>2. t \in Servers \/ t \in Range(Workers("sig")) \/ t \in Range(Workers("rtc"))
        BY DEF Threads, AllWorkers, Workers
      <3> QED BY <2>1, <3>1, <3>2, ThreadFacts DEF Servers
    <2> QED BY <2>1, <2>2 DEF EndsBottomUp
  <1> QED BY <1>1, Invariance, PTL

(* One signal and no traffic never make a thread write to a pipe whose     *)
(* reader has closed it: no SIGPIPE and no lost QUIT.                      *)
THEOREM IdleStopsClean == Spec => []CleanWhenIdle
  <1>1. IInv => CleanWhenIdle
    BY DEF IInv, Quiet, CleanWhenIdle
  <1> QED BY <1>1, Invariance, PTL
=============================================================================
