---------------------------- MODULE ServerQueue ----------------------------
(***************************************************************************)
(* The threads of ds4-server (ds4_server.c): the main thread accepts       *)
(* connections and shuts the process down, one detached thread per client  *)
(* parses a request and queues a job that lives on its own stack, and one  *)
(* worker thread owns the model session and runs the jobs in order.  A     *)
(* SIGINT or SIGTERM may arrive at any moment, on any allowed thread.      *)
(*                                                                         *)
(* A section between pthread_mutex_lock and pthread_mutex_unlock is one    *)
(* action; a pthread_cond_wait ends one action and starts another.         *)
(***************************************************************************)
EXTENDS Naturals, Sequences, FiniteSets

CONSTANTS Client,        \* the connections that may ever be made
          NoJob,         \* the null job pointer
          SignalThreads  \* which threads may run the handler: "main", "other"

ASSUME ClientAssumption == IsFiniteSet(Client) /\ NoJob \notin Client
ASSUME SignalAssumption == SignalThreads \subseteq {"main", "other"}

VARIABLES
  stopFlag,     \* g_stop_requested
  gListen,      \* g_listen_fd >= 0
  lfdOpen,      \* the listening descriptor has not been closed
  listenCloses, \* how many times close() was called on that descriptor number
  handlerPc,    \* the handler when another thread than main runs it
  killed,       \* _exit(130)
  mainPc,
  newFd,        \* the client whose connection main has just accepted
  stopping,     \* s.stopping
  clients,      \* s.clients
  queue,        \* s.head .. s.tail: pointers to the jobs, oldest first
  workerPc,
  workerJob,    \* the job the worker holds a pointer to
  pc,           \* where each client thread is
  done,         \* j.done of each client's job
  answer,       \* what was written to each client's socket
  resOpen       \* engine, session, caches and mutexes still exist

signalVars == <<stopFlag, gListen, lfdOpen, listenCloses, handlerPc, killed>>
mainVars   == <<mainPc, newFd>>
workerVars == <<workerPc, workerJob>>
clientVars == <<pc, done, answer>>
vars == <<signalVars, mainVars, stopping, clients, queue, workerVars,
          clientVars, resOpen>>

MainPcs == {"listen", "publish", "loop", "callAccept", "accepting",
            "acceptFailed", "accepted", "spawn", "closeListen", "closing",
            "announce", "join", "drain", "drainWait", "checkpoint",
            "joinAbandoned", "closeRes", "exited"}
WorkerPcs == {"dequeue", "waiting", "generate", "finish", "exited"}
ClientPcs == {"none", "backlog", "accepted", "handle", "enqueue", "holding",
              "sleeping", "close", "leave", "gone", "dropped"}

\* The client's stack frame that holds the job exists, and the job is not done.
JobAlive(c) == pc[c] \in {"holding", "sleeping"} /\ ~done[c]

\* Main has counted the connection in s.clients and its thread has not left.
Counted(c) == pc[c] \in {"handle", "enqueue", "holding", "sleeping", "close", "leave"}

Init ==
  /\ stopFlag = FALSE /\ gListen = FALSE /\ lfdOpen = FALSE
  /\ listenCloses = 0 /\ handlerPc = "idle" /\ killed = FALSE
  /\ mainPc = "listen" /\ newFd = NoJob
  /\ stopping = FALSE /\ clients = 0 /\ queue = <<>>
  /\ workerPc = "dequeue" /\ workerJob = NoJob
  /\ pc = [c \in Client |-> "none"]
  /\ done = [c \in Client |-> FALSE]
  /\ answer = [c \in Client |-> "none"]
  /\ resOpen = TRUE
-----------------------------------------------------------------------------
(* The signal handler. *)

\* The handler forgets the descriptor before it closes it.
\* (mutant: it closes and leaves the number published)
ClaimKept == UNCHANGED gListen
Claim == gListen' = FALSE

\* A close() of the listening descriptor's number, by the handler or by main.
CloseListener == /\ lfdOpen' = FALSE
                 /\ listenCloses' = listenCloses + 1

\* The first signal, delivered to the main thread: the whole handler runs
\* before main takes another step, and a blocked accept() returns EINTR.
SignalOnMain ==
  /\ "main" \in SignalThreads
  /\ ~stopFlag
  /\ mainPc # "exited"
  /\ stopFlag' = TRUE
  /\ Claim
  /\ IF gListen THEN CloseListener ELSE UNCHANGED <<lfdOpen, listenCloses>>
  /\ mainPc' = IF mainPc = "accepting" THEN "acceptFailed" ELSE mainPc
  /\ UNCHANGED <<handlerPc, killed, newFd, stopping, clients, queue,
                 workerVars, clientVars, resOpen>>

\* The first signal on another thread: main runs on between its steps, and a
\* main thread that is already blocked in accept() is not woken.
SignalElsewhere ==
  /\ "other" \in SignalThreads
  /\ ~stopFlag
  /\ mainPc # "exited"
  /\ stopFlag' = TRUE
  /\ handlerPc' = "test"
  /\ UNCHANGED <<gListen, lfdOpen, listenCloses, killed, mainVars, stopping,
                 clients, queue, workerVars, clientVars, resOpen>>

HandlerTest ==
  /\ handlerPc = "test"
  /\ handlerPc' = IF gListen THEN "claim" ELSE "returned"
  /\ UNCHANGED <<stopFlag, gListen, lfdOpen, listenCloses, killed, mainVars,
                 stopping, clients, queue, workerVars, clientVars, resOpen>>

\* The handler takes the number.  If main has closed the descriptor since the
\* test, what it takes is -1, and closing that does nothing.
HandlerClaim ==
  /\ handlerPc = "claim"
  /\ handlerPc' = IF gListen THEN "close" ELSE "returned"
  /\ Claim
  /\ UNCHANGED <<stopFlag, lfdOpen, listenCloses, killed, mainVars, stopping,
                 clients, queue, workerVars, clientVars, resOpen>>

HandlerClose ==
  /\ handlerPc = "close"
  /\ handlerPc' = "returned"
  /\ CloseListener
  /\ UNCHANGED <<stopFlag, gListen, killed, mainVars, stopping, clients, queue,
                 workerVars, clientVars, resOpen>>

\* A second signal does not wait for anything.
SecondSignal ==
  /\ stopFlag
  /\ mainPc # "exited"
  /\ killed' = TRUE
  /\ UNCHANGED <<stopFlag, gListen, lfdOpen, listenCloses, handlerPc, mainVars,
                 stopping, clients, queue, workerVars, clientVars, resOpen>>
-----------------------------------------------------------------------------
(* The main thread: listen and accept. *)

\* pthread_cond_signal or pthread_cond_broadcast on s.cv; the worker is the
\* only waiter.  (mutant: nobody is woken)
WakeNobody == UNCHANGED workerPc
WakeWorker == workerPc' = IF workerPc = "waiting" THEN "dequeue" ELSE workerPc

MainGoto(from, to) == mainPc = from /\ mainPc' = to

ListenOk ==
  /\ MainGoto("listen", "publish")
  /\ lfdOpen' = TRUE
  /\ UNCHANGED <<stopFlag, gListen, listenCloses, handlerPc, killed, newFd,
                 stopping, clients, queue, workerVars, clientVars, resOpen>>

\* listen_on() fails: the worker is told to stop and the process gives up.
ListenFails ==
  /\ MainGoto("listen", "joinAbandoned")
  /\ stopping' = TRUE
  /\ WakeWorker
  /\ UNCHANGED <<signalVars, newFd, clients, queue, workerJob, clientVars, resOpen>>

PublishListener ==
  /\ MainGoto("publish", "loop")
  /\ gListen' = TRUE
  /\ UNCHANGED <<stopFlag, lfdOpen, listenCloses, handlerPc, killed, newFd,
                 stopping, clients, queue, workerVars, clientVars, resOpen>>

LoopTest ==
  /\ MainGoto("loop", IF stopFlag THEN "closeListen" ELSE "callAccept")
  /\ UNCHANGED <<signalVars, newFd, stopping, clients, queue, workerVars,
                 clientVars, resOpen>>

\* accept() on a closed descriptor fails at once, otherwise it blocks.
CallAccept ==
  /\ MainGoto("callAccept", IF lfdOpen THEN "accepting" ELSE "acceptFailed")
  /\ UNCHANGED <<signalVars, newFd, stopping, clients, queue, workerVars,
                 clientVars, resOpen>>

AcceptReturns(c) ==
  /\ MainGoto("accepting", "accepted")
  /\ pc[c] = "backlog"
  /\ newFd' = c
  /\ pc' = [pc EXCEPT ![c] = "accepted"]
  /\ UNCHANGED <<signalVars, stopping, clients, queue, workerVars, done,
                 answer, resOpen>>

\* EINTR, ECONNABORTED, EMFILE ...
AcceptError ==
  /\ MainGoto("accepting", "acceptFailed")
  /\ UNCHANGED <<signalVars, newFd, stopping, clients, queue, workerVars,
                 clientVars, resOpen>>

AcceptFailed ==
  /\ MainGoto("acceptFailed", IF stopFlag THEN "closeListen" ELSE "loop")
  /\ UNCHANGED <<signalVars, newFd, stopping, clients, queue, workerVars,
                 clientVars, resOpen>>

\* A stop that arrived during accept() closes the new connection unserved.
DropAccepted ==
  /\ MainGoto("accepted", "closeListen")
  /\ stopFlag
  /\ pc' = [pc EXCEPT ![newFd] = "dropped"]
  /\ newFd' = NoJob
  /\ UNCHANGED <<signalVars, stopping, clients, queue, workerVars, done,
                 answer, resOpen>>

\* s.clients++ before the thread exists.  (mutant: it is left out)
CountNothing == UNCHANGED clients
CountUp == clients' = clients + 1

CountClient ==
  /\ MainGoto("accepted", "spawn")
  /\ ~stopFlag
  /\ CountUp
  /\ UNCHANGED <<signalVars, newFd, stopping, queue, workerVars, clientVars, resOpen>>

SpawnOk ==
  /\ MainGoto("spawn", "loop")
  /\ pc' = [pc EXCEPT ![newFd] = "handle"]
  /\ newFd' = NoJob
  /\ UNCHANGED <<signalVars, stopping, clients, queue, workerVars, done,
                 answer, resOpen>>

\* s.clients-- when there will be no thread.  (mutant: it is left out)
CountStays == UNCHANGED clients
CountTakenBack == clients' = clients - 1

\* pthread_create fails: the count is taken back and the socket is closed.
SpawnFails ==
  /\ MainGoto("spawn", "loop")
  /\ CountTakenBack
  /\ pc' = [pc EXCEPT ![newFd] = "dropped"]
  /\ newFd' = NoJob
  /\ UNCHANGED <<signalVars, stopping, queue, workerVars, done, answer, resOpen>>
-----------------------------------------------------------------------------
(* The main thread: shut down. *)

TestListener ==
  /\ MainGoto("closeListen", IF gListen THEN "closing" ELSE "announce")
  /\ UNCHANGED <<signalVars, newFd, stopping, clients, queue, workerVars,
                 clientVars, resOpen>>

MainClosesListener ==
  /\ MainGoto("closing", "announce")
  /\ CloseListener
  /\ gListen' = FALSE
  /\ UNCHANGED <<stopFlag, handlerPc, killed, newFd, stopping, clients, queue,
                 workerVars, clientVars, resOpen>>

AnnounceStop ==
  /\ MainGoto("announce", "join")
  /\ stopping' = TRUE
  /\ WakeWorker
  /\ UNCHANGED <<signalVars, newFd, clients, queue, workerJob, clientVars, resOpen>>

\* (mutant: main waits for an empty queue, not for the thread)
QueueDrained == queue = <<>>
WorkerReturned == workerPc = "exited"

\* pthread_join(worker): the worker has drained the queue and returned.
JoinWorker ==
  /\ WorkerReturned
  /\ \/ MainGoto("join", "drain")
     \/ MainGoto("joinAbandoned", "closeRes")
  /\ UNCHANGED <<signalVars, newFd, stopping, clients, queue, workerVars,
                 clientVars, resOpen>>

\* while (s.clients > 0)  (mutant: main does not wait)
NoWait == TRUE
ClientsGone == clients = 0

DrainClients ==
  /\ MainGoto("drain", IF ClientsGone THEN "checkpoint" ELSE "drainWait")
  /\ UNCHANGED <<signalVars, newFd, stopping, clients, queue, workerVars,
                 clientVars, resOpen>>

\* kv_cache_store_current(&s, "shutdown") reads the session from main.
ShutdownCheckpoint ==
  /\ MainGoto("checkpoint", "closeRes")
  /\ UNCHANGED <<signalVars, newFd, stopping, clients, queue, workerVars,
                 clientVars, resOpen>>

CloseResources ==
  /\ MainGoto("closeRes", "exited")
  /\ resOpen' = FALSE
  /\ UNCHANGED <<signalVars, newFd, stopping, clients, queue, workerVars, clientVars>>
-----------------------------------------------------------------------------
(* The client threads. *)

\* A peer connects while the kernel still has the socket in listening state.
Connect(c) ==
  /\ pc[c] = "none"
  /\ lfdOpen \/ mainPc = "accepting"
  /\ pc' = [pc EXCEPT ![c] = "backlog"]
  /\ UNCHANGED <<signalVars, mainVars, stopping, clients, queue, workerVars,
                 done, answer, resOpen>>

\* client_main answers without the worker: a bad or unparsable request, an
\* unknown endpoint, a GET of the models, or a prompt beyond the context.
AnswerDirectly(c) ==
  /\ pc[c] = "handle"
  /\ answer' = [answer EXCEPT ![c] = "refused"]
  /\ pc' = [pc EXCEPT ![c] = "close"]
  /\ UNCHANGED <<signalVars, mainVars, stopping, clients, queue, workerVars,
                 done, resOpen>>

\* The request is parsed, the job is built on the stack and j.mu is locked.
ParseOk(c) ==
  /\ pc[c] = "handle"
  /\ pc' = [pc EXCEPT ![c] = "enqueue"]
  /\ UNCHANGED <<signalVars, mainVars, stopping, clients, queue, workerVars,
                 done, answer, resOpen>>

\* The job is linked behind s->tail.  (mutant: in front of s->head)
PushedFront(c) == <<c>> \o queue
Pushed(c) == Append(queue, c)

Enqueue(c) ==
  /\ pc[c] = "enqueue"
  /\ ~stopping
  /\ queue' = Pushed(c)
  /\ WakeWorker
  /\ pc' = [pc EXCEPT ![c] = "holding"]
  /\ UNCHANGED <<signalVars, mainVars, stopping, clients, workerJob, done,
                 answer, resOpen>>

\* enqueue() returns false: 503, and the job is destroyed unqueued.
EnqueueRefused(c) ==
  /\ pc[c] = "enqueue"
  /\ stopping
  /\ answer' = [answer EXCEPT ![c] = "refused"]
  /\ pc' = [pc EXCEPT ![c] = "close"]
  /\ UNCHANGED <<signalVars, mainVars, stopping, clients, queue, workerVars,
                 done, resOpen>>

\* A woken client tests j.done again.  (mutant: `if` instead of `while`)
WokenDoesNotTest == "close"
Woken == "holding"

\* while (!j.done) pthread_cond_wait(&j.cv, &j.mu), then the job is destroyed.
TestDone(c) ==
  /\ pc[c] = "holding"
  /\ pc' = [pc EXCEPT ![c] = IF done[c] THEN "close" ELSE "sleeping"]
  /\ UNCHANGED <<signalVars, mainVars, stopping, clients, queue, workerVars,
                 done, answer, resOpen>>

CloseSocket(c) ==
  /\ pc[c] = "close"
  /\ pc' = [pc EXCEPT ![c] = "leave"]
  /\ UNCHANGED <<signalVars, mainVars, stopping, clients, queue, workerVars,
                 done, answer, resOpen>>

ClientDone(c) ==
  /\ pc[c] = "leave"
  /\ clients' = IF clients > 0 THEN clients - 1 ELSE clients
  /\ mainPc' = IF mainPc = "drainWait" THEN "drain" ELSE mainPc
  /\ pc' = [pc EXCEPT ![c] = "gone"]
  /\ UNCHANGED <<signalVars, newFd, stopping, queue, workerVars, done, answer, resOpen>>
-----------------------------------------------------------------------------
(* The worker thread. *)

DequeueJob ==
  /\ workerPc = "dequeue"
  /\ queue # <<>>
  /\ workerJob' = Head(queue)
  /\ queue' = Tail(queue)
  /\ workerPc' = "generate"
  /\ UNCHANGED <<signalVars, mainVars, stopping, clients, clientVars, resOpen>>

\* Nothing is queued and the server runs: wait on s->cv.
WaitForJob ==
  /\ workerPc = "dequeue"
  /\ queue = <<>>
  /\ ~stopping
  /\ workerPc' = "waiting"
  /\ UNCHANGED <<signalVars, mainVars, stopping, clients, queue, workerJob,
                 clientVars, resOpen>>

\* dequeue() returns NULL.  (mutant: as soon as the server stops)
StopsAtOnce == stopping
NothingLeft == stopping /\ queue = <<>>

WorkerExits ==
  /\ workerPc = "dequeue"
  /\ NothingLeft
  /\ workerPc' = "exited"
  /\ UNCHANGED <<signalVars, mainVars, stopping, clients, queue, workerJob,
                 clientVars, resOpen>>

\* generate_job() reads j->req and writes the response to j->fd.
Generate ==
  /\ workerPc = "generate"
  /\ answer' = [answer EXCEPT ![workerJob] = "served"]
  /\ workerPc' = "finish"
  /\ UNCHANGED <<signalVars, mainVars, stopping, clients, queue, workerJob, pc,
                 done, resOpen>>

\* j->mu is free only when its owner sleeps in pthread_cond_wait.
FinishJob ==
  /\ workerPc = "finish"
  /\ pc[workerJob] # "holding"
  /\ done' = [done EXCEPT ![workerJob] = TRUE]
  /\ pc' = [pc EXCEPT ![workerJob] = IF @ = "sleeping" THEN Woken ELSE @]
  /\ workerJob' = NoJob
  /\ workerPc' = "dequeue"
  /\ UNCHANGED <<signalVars, mainVars, stopping, clients, queue, answer, resOpen>>
-----------------------------------------------------------------------------
\* pthread_cond_wait may return without a signal, in any of the three waits.
SpuriousWakeup ==
  /\ \/ /\ workerPc = "waiting"
        /\ workerPc' = "dequeue"
        /\ UNCHANGED <<mainPc, pc>>
     \/ /\ MainGoto("drainWait", "drain")
        /\ UNCHANGED <<workerPc, pc>>
     \/ /\ \E c \in Client : /\ pc[c] = "sleeping"
                             /\ pc' = [pc EXCEPT ![c] = Woken]
        /\ UNCHANGED <<mainPc, workerPc>>
  /\ UNCHANGED <<signalVars, newFd, stopping, clients, queue, workerJob, done,
                 answer, resOpen>>

MainStep ==
  \/ ListenOk \/ ListenFails \/ PublishListener \/ LoopTest \/ CallAccept
  \/ (\E c \in Client : AcceptReturns(c)) \/ AcceptFailed
  \/ DropAccepted \/ CountClient \/ SpawnOk \/ SpawnFails
  \/ TestListener \/ MainClosesListener \/ AnnounceStop \/ JoinWorker
  \/ DrainClients \/ ShutdownCheckpoint \/ CloseResources

ClientStep(c) ==
  \/ AnswerDirectly(c) \/ ParseOk(c) \/ Enqueue(c) \/ EnqueueRefused(c)
  \/ TestDone(c) \/ CloseSocket(c) \/ ClientDone(c)

WorkerStep == DequeueJob \/ WaitForJob \/ WorkerExits \/ Generate \/ FinishJob

HandlerStep == HandlerTest \/ HandlerClaim \/ HandlerClose

\* Another thread is inside the handler.
HandlerMidway == handlerPc \in {"test", "claim", "close"}

Running ==
  \/ SignalOnMain \/ SignalElsewhere \/ HandlerStep \/ SecondSignal
  \/ MainStep
  \/ AcceptError
  \/ \E c \in Client : Connect(c) \/ ClientStep(c)
  \/ WorkerStep
  \/ SpuriousWakeup

\* main() returned or _exit() was called: no thread of the process runs.
Ended == killed \/ mainPc = "exited"

Next == \/ ~Ended /\ Running
        \/ Ended /\ UNCHANGED vars

Spec == Init /\ [][Next]_vars

(***************************************************************************)
(* Fairness: the operating system schedules every thread that can run; a   *)
(* receive times out after DS4_SERVER_IO_TIMEOUT_SEC and a send after      *)
(* DS4_SERVER_SEND_STALL_TIMEOUT_MS, and generation stops at max_tokens,   *)
(* so parsing and generating end.  FinishJob is strongly fair because a     *)
(* spuriously waking client may take j.mu between any two tries of the     *)
(* worker: a mutex that is free again and again is eventually obtained.    *)
(* Nobody has to connect, send a signal or wake spuriously, and accept()   *)
(* need not fail.                                                          *)
(***************************************************************************)
Fairness ==
  /\ WF_vars(~Ended /\ MainStep)
  /\ WF_vars(~Ended /\ WorkerStep)
  /\ SF_vars(~Ended /\ FinishJob)
  /\ WF_vars(~Ended /\ HandlerStep)
  /\ \A c \in Client : WF_vars(~Ended /\ ClientStep(c))

FairSpec == Spec /\ Fairness
-----------------------------------------------------------------------------
(* Properties. *)

TypeOK ==
  /\ stopFlag \in BOOLEAN /\ gListen \in BOOLEAN /\ lfdOpen \in BOOLEAN
  /\ listenCloses \in Nat
  /\ handlerPc \in {"idle", "test", "claim", "close", "returned"}
  /\ killed \in BOOLEAN
  /\ mainPc \in MainPcs
  /\ newFd \in Client \cup {NoJob}
  /\ (newFd # NoJob) <=> (mainPc \in {"accepted", "spawn"})
  /\ stopping \in BOOLEAN
  /\ clients \in Nat
  /\ queue \in Seq(Client)
  /\ workerPc \in WorkerPcs
  /\ workerJob \in Client \cup {NoJob}
  /\ (workerJob # NoJob) <=> (workerPc \in {"generate", "finish"})
  /\ pc \in [Client -> ClientPcs]
  /\ done \in [Client -> BOOLEAN]
  /\ answer \in [Client -> {"none", "refused", "served"}]
  /\ resOpen \in BOOLEAN

\* Every job pointer in the queue or in the worker's hands points to a job on
\* the stack of a client thread that is still blocked in client_main, and no
\* job is held twice: nothing is read or answered after the frame is gone.
NoDanglingJob ==
  /\ \A i \in DOMAIN queue : JobAlive(queue[i])
  /\ \A i, j \in DOMAIN queue : queue[i] = queue[j] => i = j
  /\ workerJob # NoJob =>
        /\ JobAlive(workerJob)
        /\ \A i \in DOMAIN queue : queue[i] # workerJob

\* The session has one user at a time and what server_close_resources() frees
\* has none: from main's shutdown checkpoint on the worker has returned, and no
\* client thread that main counted is still inside client_main.
NoUseAfterClose ==
  mainPc \in {"checkpoint", "closeRes", "exited"} =>
     /\ workerPc = "exited"
     /\ \A c \in Client : ~Counted(c)

\* Outside main's accept bookkeeping s.clients counts exactly the client
\* threads that have not yet passed client_done().
ClientCount ==
  clients = Cardinality({c \in Client : Counted(c)})
              + (IF mainPc = "spawn" THEN 1 ELSE 0)

\* Once the worker has returned nobody waits for it: the queue is empty, and
\* every client that still waits on j.cv finds its job done.
NoStrandedJob ==
  workerPc = "exited" =>
     /\ stopping
     /\ queue = <<>>
     /\ \A c \in Client : pc[c] \in {"holding", "sleeping"} => done[c]

\* Whichever thread runs the handler, the listening descriptor is given up once
\* main has announced the stop: its number is no longer published, and it is
\* closed but for a handler that is about to.  Its number is closed once, unless
\* the handler ran on another thread: main may test g_listen_fd before that
\* handler takes it and close it as well, and then the second close may hit a
\* file that was opened in between.
ListenerGivenUp ==
  /\ mainPc \in {"announce", "join", "drain", "drainWait", "checkpoint",
                "closeRes", "exited"}
        => ~gListen /\ (lfdOpen => handlerPc = "close")
  /\ listenCloses <= IF handlerPc = "returned" THEN 2 ELSE 1

\* The threads together implement the one-at-a-time FIFO service.
Service == INSTANCE RequestService WITH
             fifo    <- queue,
             active  <- IF workerPc = "generate" THEN workerJob ELSE NoJob,
             outcome <- answer,
             up      <- resOpen
ImplementsService == Service!Spec

\* Every client whose thread was started is answered and its thread leaves,
\* unless a second signal kills the process.
EveryClientLeaves ==
  \A c \in Client : pc[c] = "handle" ~> (pc[c] = "gone" \/ killed)

\* After SIGINT or SIGTERM the process drains its clients and exits, whichever
\* thread ran the handler, unless main is already blocked in accept().
StopEndsProcess ==
  (stopFlag /\ ~HandlerMidway /\ mainPc # "accepting") ~> Ended

\* A main thread that is blocked in accept() because the handler ran on another
\* thread notices at the next connection, and that one is not waited for.
NextConnectionEndsStop ==
  (stopFlag /\ \E c \in Client : pc[c] = "backlog") ~> Ended
=============================================================================
