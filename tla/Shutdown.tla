------------------------------ MODULE Shutdown ------------------------------
(***************************************************************************)
(* How the process ends (main.cpp, and the Start, Stop, Notify, InnerStop  *)
(* and Join of the two servers and their workers): a signal makes main     *)
(* write QUIT to the pipes of both servers; a server that reads it leaves  *)
(* its event loop, closes its pipe, and stops and joins its workers one by *)
(* one; main joins the servers.                                            *)
(*                                                                         *)
(* Handlers run on the main thread and interrupt it anywhere, also in a    *)
(* handler of the other signal.  They write a log line, for which they     *)
(* need the mutex of the log, as the other threads do.  Meanwhile requests *)
(* go on: signaling workers write to the pipe of the RTC server, it to its *)
(* workers, and these to the signaling workers.  A pipe is closed one end  *)
(* after the other: a write in between kills the process (SIGPIPE, which   *)
(* nothing handles), a write after that is lost.                           *)
(***************************************************************************)
EXTENDS Integers, Sequences, FiniteSets, SequencesExt

CONSTANTS
  SigWorkers,   \* the signaling workers, in the order of workers_
  RtcWorkers,   \* the RTC workers
  Signals,      \* signals that ProcessSignal acts on
  MaxSignals,   \* bound: signals received
  MaxRequests   \* bound: requests read by signaling workers

Servers == {"sig", "rtc"}
Workers(s) == IF s = "sig" THEN SigWorkers ELSE RtcWorkers
AllWorkers == Range(SigWorkers) \cup Range(RtcWorkers)
Threads == Servers \cup AllWorkers

ASSUME ShutdownAssumption ==
  /\ {SigWorkers, RtcWorkers} \subseteq Seq(AllWorkers)
  /\ IsInjective(SigWorkers \o RtcWorkers) /\ AllWorkers \cap Servers = {}
  /\ {MaxSignals, MaxRequests} \subseteq Nat
  /\ Signals \cap {"free", "other"} = {}

VARIABLES
  main,       \* where main is
  handlers,   \* running signal handlers, the innermost last: [sig, pc, early]
  mtx,        \* the mutex of the log: "free", "other" or the signal of a handler
  thread,     \* where each thread is
  next,       \* servers: the worker to stop or to join
  pipe,       \* what was written to the pipe of each thread and is not read
  fds,        \* the ends of its pipe: "open", "half" (only the write end), "closed"
  killed,     \* the process was ended by SIGPIPE
  received, requests,
  lost,       \* history: some message was lost
  asked       \* history: a handler that began after Start has asked both servers

vars == <<main, handlers, mtx, thread, next, pipe, fds, killed,
          received, requests, lost, asked>>
pipeVars    == <<pipe, killed, lost>>
countVars   == <<received, requests>>

Quit == [type |-> "QUIT"]
RtcMsg(w) == [type |-> "RTC_MSG", worker |-> w]

\* Init of both servers has been called: workers run, the servers do not.
Init ==
  /\ main = "startSig" /\ handlers = <<>> /\ mtx = "free"
  /\ thread = [t \in Threads |-> IF t \in Servers THEN "new" ELSE "run"]
  /\ next = [s \in Servers |-> 1]
  /\ pipe = [t \in Threads |-> <<>>] /\ fds = [t \in Threads |-> "open"]
  /\ killed = FALSE /\ lost = FALSE /\ asked = FALSE
  /\ received = 0 /\ requests = 0

\* Notify: write() to the pipe of t.
Notify(t, msg) ==
  /\ pipe' = IF fds[t] = "open" THEN [pipe EXCEPT ![t] = Append(@, msg)] ELSE pipe
  /\ killed' = (fds[t] = "half")
  /\ lost' = (lost \/ fds[t] = "closed")

-----------------------------------------------------------------------------
(* main *)

mainOnly == <<handlers, mtx, next, pipeVars, fds, countVars, asked>>

\* Start of the signaling server: the thread runs before thread_ is assigned.
Spawn ==
  /\ ~killed /\ handlers = <<>> /\ main = "startSig"
  /\ main' = "assignSig"
  /\ thread' = [thread EXCEPT !["sig"] = "run"]
  /\ UNCHANGED mainOnly

\* thread_ is assigned, and the RTC server started.
StartRtc ==
  /\ ~killed /\ handlers = <<>>
  /\ \/ main = "assignSig" /\ main' = "startRtc" /\ UNCHANGED thread
     \/ main = "startRtc" /\ main' = "joinSig"
        /\ thread' = [thread EXCEPT !["rtc"] = "run"]
  /\ UNCHANGED mainOnly

Join ==
  /\ ~killed /\ handlers = <<>>
  /\ \/ main = "joinSig" /\ thread["sig"] = "ended" /\ main' = "joinRtc"
     \/ main = "joinRtc" /\ thread["rtc"] = "ended" /\ main' = "done"
  /\ UNCHANGED <<thread, mainOnly>>

-----------------------------------------------------------------------------
(* ProcessSignal, on the main thread *)

n   == Len(handlers)
Top == handlers[n]

\* A signal is blocked while its own handler runs.
Signal(sig) ==
  /\ ~killed /\ main # "done" /\ received < MaxSignals
  /\ \A i \in 1 .. n : handlers[i].sig # sig
  /\ handlers' = Append(handlers,
       [sig |-> sig, pc |-> "log", early |-> main \in {"startSig", "assignSig", "startRtc"}])
  /\ received' = received + 1
  /\ UNCHANGED <<main, mtx, thread, next, pipeVars, fds, requests, asked>>

\* RTC_LOG: takes the mutex, for which a handler may have to wait, and frees it.
HandlerLock ==
  /\ ~killed /\ n > 0 /\ Top.pc = "log" /\ mtx = "free"
  /\ mtx' = Top.sig
  /\ handlers' = [handlers EXCEPT ![n].pc = "locked"]
  /\ UNCHANGED <<main, thread, next, pipeVars, fds, countVars, asked>>

HandlerUnlock ==
  /\ ~killed /\ n > 0 /\ Top.pc = "locked"
  /\ mtx' = "free"
  /\ handlers' = [handlers EXCEPT ![n].pc = "sig"]
  /\ UNCHANGED <<main, thread, next, pipeVars, fds, countVars, asked>>

\* Stop of the signaling server, then of the RTC server.
HandlerStop ==
  /\ ~killed /\ n > 0
  /\ \/ Top.pc = "sig" /\ Notify("sig", Quit)
        /\ handlers' = [handlers EXCEPT ![n].pc = "rtc"]
        /\ UNCHANGED asked
     \/ Top.pc = "rtc" /\ Notify("rtc", Quit)
        /\ handlers' = Front(handlers)
        /\ asked' = (asked \/ ~Top.early)
  /\ UNCHANGED <<main, mtx, thread, next, fds, countVars>>

\* Other threads log, and the log thread takes the lines.
OtherLock ==
  /\ ~killed /\ main # "done" /\ mtx = "free" /\ mtx' = "other"
  /\ UNCHANGED <<main, handlers, thread, next, pipeVars, fds, countVars, asked>>

OtherUnlock ==
  /\ ~killed /\ mtx = "other" /\ mtx' = "free"
  /\ UNCHANGED <<main, handlers, thread, next, pipeVars, fds, countVars, asked>>

-----------------------------------------------------------------------------
(* The threads *)

threadOnly == <<main, handlers, mtx, countVars, asked>>

Reads(t, type) ==
  /\ ~killed /\ main # "done"
  /\ thread[t] = "run" /\ pipe[t] # <<>> /\ Head(pipe[t]).type = type

\* Mutant: a worker stays in its event loop.
InnerStopStays(t) ==
  thread' = [thread EXCEPT ![t] = IF t \in AllWorkers THEN "run" ELSE "stopped"]

\* InnerStop: leaves the event loop when the callback returns; the signaling
\* server ignores QUIT as long as thread_ is not assigned.
InnerStop(t) ==
  thread' = IF t = "sig" /\ main = "assignSig" THEN thread
            ELSE [thread EXCEPT ![t] = "stopped"]

ReadQuit(t) ==
  /\ Reads(t, "QUIT")
  /\ pipe' = [pipe EXCEPT ![t] = Tail(@)]
  /\ InnerStop(t)
  /\ UNCHANGED <<threadOnly, next, fds, killed, lost>>

\* ProcessRtcMsg: the request goes to one of the RTC workers, and the reply to
\* the worker that has the connection.
ReadRtcMsg(t) ==
  /\ Reads(t, "RTC_MSG")
  /\ LET msg  == Head(pipe[t])
         rest == [pipe EXCEPT ![t] = Tail(@)]
         to   == CASE t = "rtc" -> Range(RtcWorkers)
                   [] t \in Range(RtcWorkers) -> {msg.worker}
                   [] OTHER -> {}
     IN  \/ /\ to = {} /\ pipe' = rest /\ UNCHANGED <<killed, lost>>
         \/ \E w \in to :
              /\ pipe' = IF fds[w] = "open" THEN [rest EXCEPT ![w] = Append(@, msg)] ELSE rest
              /\ killed' = (fds[w] = "half")
              /\ lost' = (lost \/ fds[w] = "closed")
  /\ UNCHANGED <<threadOnly, thread, next, fds>>

\* The rest of InnerStop: both ends of the pipe are closed.
Close(t) ==
  /\ ~killed /\ main # "done"
  /\ \/ /\ thread[t] = "stopped"
        /\ fds' = [fds EXCEPT ![t] = "half"]
        /\ thread' = [thread EXCEPT ![t] = "closing"]
     \/ /\ thread[t] = "closing"
        /\ fds' = [fds EXCEPT ![t] = "closed"]
        /\ thread' = [thread EXCEPT ![t] = IF t \in Servers /\ Workers(t) # <<>>
                                            THEN "stopWorker" ELSE "break"]
  /\ UNCHANGED <<threadOnly, next, pipeVars>>

\* Mutant: the first worker is stopped again and again.
StopWorkerFirst(s) ==
  /\ thread[s] = "stopWorker"
  /\ Notify(Workers(s)[1], Quit)
  /\ thread' = [thread EXCEPT ![s] = "joinWorker"]
  /\ UNCHANGED <<threadOnly, next, fds>>

\* A server stops its workers one after the other ...
StopWorker(s) ==
  /\ thread[s] = "stopWorker"
  /\ Notify(Workers(s)[next[s]], Quit)
  /\ thread' = [thread EXCEPT ![s] = "joinWorker"]
  /\ UNCHANGED <<threadOnly, next, fds>>

\* Mutant: the server does not wait for the worker.
JoinWorkerDetached(s) ==
  /\ thread[s] = "joinWorker"
  /\ next' = [next EXCEPT ![s] = @ + 1]
  /\ thread' = [thread EXCEPT ![s] = IF next[s] = Len(Workers(s)) THEN "break" ELSE "stopWorker"]
  /\ UNCHANGED <<threadOnly, pipeVars, fds>>

\* ... and waits for each to end before it stops the next.
JoinWorker(s) ==
  /\ thread[s] = "joinWorker" /\ thread[Workers(s)[next[s]]] = "ended"
  /\ next' = [next EXCEPT ![s] = @ + 1]
  /\ thread' = [thread EXCEPT ![s] = IF next[s] = Len(Workers(s)) THEN "break" ELSE "stopWorker"]
  /\ UNCHANGED <<threadOnly, pipeVars, fds>>

\* EventLoop::Stop: the loop ends after the callbacks of this round.
End(t) ==
  /\ ~killed /\ main # "done" /\ thread[t] = "break"
  /\ thread' = [thread EXCEPT ![t] = "ended"]
  /\ UNCHANGED <<threadOnly, next, pipeVars, fds>>

\* A signaling worker reads a request of a client, also in the round in which
\* it stops, and sends it to the RTC server.
ReadQuery(w) ==
  /\ ~killed /\ main # "done" /\ requests < MaxRequests
  /\ thread["sig"] # "new" /\ thread[w] \in {"run", "break"}
  /\ requests' = requests + 1
  /\ Notify("rtc", RtcMsg(w))
  /\ UNCHANGED <<main, handlers, mtx, received, asked, thread, next, fds>>

Stop(s) == ~killed /\ main # "done" /\ (StopWorker(s) \/ JoinWorker(s))

Step(t) ==
  \/ ReadQuit(t) \/ ReadRtcMsg(t) \/ Close(t) \/ End(t)
  \/ t \in Servers /\ Stop(t)

Next ==
  \/ Spawn \/ StartRtc \/ Join
  \/ \E sig \in Signals : Signal(sig)
  \/ HandlerLock \/ HandlerUnlock \/ HandlerStop
  \/ OtherLock \/ OtherUnlock
  \/ \E t \in Threads : Step(t)
  \/ \E w \in Range(SigWorkers) : ReadQuery(w)

\* The threads are scheduled fairly; one that waits for the mutex of the log
\* gets it when it is freed again and again.
Fairness ==
  /\ WF_vars(Spawn) /\ WF_vars(StartRtc) /\ WF_vars(Join)
  /\ SF_vars(HandlerLock) /\ WF_vars(HandlerUnlock) /\ WF_vars(HandlerStop)
  /\ WF_vars(OtherUnlock)
  /\ \A t \in Threads : WF_vars(Step(t))

Spec == Init /\ [][Next]_vars /\ Fairness

-----------------------------------------------------------------------------
(* Nobody outlives the thread that joins it: when a server has ended all   *)
(* its workers have, and main returns after all threads; whatever QUITs    *)
(* and requests are in the pipes (signaling_server.cpp:222-227,            *)
(* main.cpp:129-130).                                                      *)
EndsBottomUp ==
  /\ \A s \in Servers : thread[s] = "ended" =>
       \A w \in Range(Workers(s)) : thread[w] = "ended"
  /\ main = "done" => \A t \in Threads : thread[t] = "ended"

(* One signal and no traffic: no message is written to a pipe that is      *)
(* closed, or half closed, although both servers stop at the same time.    *)
CleanWhenIdle == received <= 1 /\ requests = 0 => ~killed /\ ~lost

\* main waits for the mutex that an interrupted handler holds.
Stuck == n > 1 /\ Top.pc = "log" /\ mtx = handlers[n - 1].sig

(* A signal handled after Start ends the process: servers, workers and     *)
(* main never wait for each other in a circle.  The exceptions are what    *)
(* the code leaves open: SIGPIPE, and a handler that interrupts another    *)
(* one in its log line.                                                    *)
SignalEndsProcess == asked ~> (main = "done" \/ killed \/ Stuck)
=============================================================================
