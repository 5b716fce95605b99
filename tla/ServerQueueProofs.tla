------------------------- MODULE ServerQueueProofs -------------------------
(***************************************************************************)
(* Proofs about ServerQueue for any finite set of clients: no job pointer  *)
(* dangles, nobody is left waiting, what main frees has no user left, and  *)
(* the threads implement the one-at-a-time FIFO service.                   *)
(***************************************************************************)
EXTENDS ServerQueue, FiniteSetTheorems, TLAPS

NotStarted == {"none", "backlog", "accepted", "handle", "enqueue"}

CountedClients == {c \in Client : Counted(c)}

\* What main holds between accept() and pthread_create() is a connection that
\* no thread serves yet.
HandoffInv == mainPc \in {"accepted", "spawn"} => pc[newFd] = "accepted"

\* A job is fresh until it is queued, and a client that waits for an unfinished
\* job is known to the worker: its job is queued or in the worker's hands.
WaitInv ==
  \A c \in Client :
    /\ pc[c] \in NotStarted => ~done[c]
    /\ JobAlive(c) => workerJob = c \/ \E i \in DOMAIN queue : queue[i] = c

\* How far main is in its shutdown tells what the worker and the clients did.
PhaseInv ==
  /\ mainPc \in {"join", "drain", "drainWait", "checkpoint", "joinAbandoned",
                 "closeRes", "exited"} => stopping
  /\ mainPc \in {"drain", "drainWait", "checkpoint", "closeRes", "exited"}
        => workerPc = "exited"
  /\ mainPc \in {"listen", "publish", "joinAbandoned"}
        => \A c \in Client : ~Counted(c)
  /\ workerPc = "exited" => stopping /\ queue = <<>>
  /\ resOpen <=> mainPc # "exited"

\* Nobody is answered before the worker, or the client's own thread, does it.
AnswerInv ==
  \A c \in Client :
    \/ pc[c] \in NotStarted
    \/ \E i \in DOMAIN queue : queue[i] = c
    \/ workerPc = "generate" /\ workerJob = c
    => answer[c] = "none"

IInv == /\ TypeOK
        /\ AnswerInv
        /\ HandoffInv
        /\ NoDanglingJob
        /\ WaitInv
        /\ PhaseInv
        /\ NoUseAfterClose
        /\ ClientCount
-----------------------------------------------------------------------------
\* The initial state satisfies the invariant.
LEMMA InitIInv == Init => IInv
<1> SUFFICES ASSUME Init PROVE IInv
  OBVIOUS
<1>1. ClientCount
  <2>1. CountedClients = {}
    BY DEF Init, CountedClients, Counted
  <2>2. Cardinality(CountedClients) = 0
    BY <2>1, FS_EmptySet
  <2> QED
    BY <2>2 DEF Init, ClientCount, CountedClients
<1>2. TypeOK
  <2>2. queue \in Seq(Client)
    BY DEF Init
  <2>3. /\ stopFlag \in BOOLEAN /\ gListen \in BOOLEAN /\ lfdOpen \in BOOLEAN
        /\ killed \in BOOLEAN /\ stopping \in BOOLEAN /\ resOpen \in BOOLEAN
    BY DEF Init
  <2>4. /\ done \in [Client -> BOOLEAN]
        /\ pc \in [Client -> ClientPcs]
        /\ answer \in [Client -> {"none", "refused", "served"}]
    BY DEF Init, ClientPcs
  <2>5. /\ (newFd # NoJob) <=> (mainPc \in {"accepted", "spawn"})
        /\ (workerJob # NoJob) <=> (workerPc \in {"generate", "finish"})
    BY DEF Init
  <2> QED
    BY <2>2, <2>3, <2>4, <2>5 DEF Init, TypeOK, MainPcs, WorkerPcs
<1>3. HandoffInv /\ NoDanglingJob /\ WaitInv /\ AnswerInv /\ PhaseInv /\ NoUseAfterClose
  BY ClientAssumption
  DEF Init, HandoffInv, NoDanglingJob, WaitInv, AnswerInv, PhaseInv, NoUseAfterClose,
      JobAlive, Counted, NotStarted
<1> QED
  BY <1>1, <1>2, <1>3 DEF IInv
-----------------------------------------------------------------------------
\* The number of counted clients is a natural number.
LEMMA CountedIsFinite ==
  /\ IsFiniteSet(CountedClients)
  /\ Cardinality(CountedClients) \in Nat
<1>1. CountedClients \in SUBSET Client
  BY DEF CountedClients
<1> QED
  BY <1>1, ClientAssumption, FS_Subset, FS_CardinalityType

\* Closing the listening descriptor keeps its types.
LEMMA CloseTypes ==
  ASSUME listenCloses \in Nat, CloseListener
  PROVE  listenCloses' \in Nat /\ lfdOpen' \in BOOLEAN
<1>1. listenCloses' \in Nat
  BY DEF CloseListener
<1>2. lfdOpen' \in BOOLEAN
  BY DEF CloseListener
<1> QED
  BY <1>1, <1>2

\* Every step keeps the types.
LEMMA TypeStep == IInv /\ Running => TypeOK'
<1> SUFFICES ASSUME TypeOK, ClientCount, NoDanglingJob, Running PROVE TypeOK'
  BY DEF IInv
<1> USE DEF TypeOK, MainGoto
<1>1. CASE SignalOnMain \/ SignalElsewhere \/ HandlerStep \/ SecondSignal
  <2>1. CASE SignalOnMain
    <3>1. listenCloses' \in Nat /\ lfdOpen' \in BOOLEAN
      BY <2>1, CloseTypes DEF SignalOnMain
    <3> QED
      BY <2>1, <3>1 DEF SignalOnMain, Claim, MainPcs, workerVars, clientVars
  <2>2. CASE SignalElsewhere
    BY <2>2 DEF SignalElsewhere, mainVars, workerVars, clientVars
  <2>3. CASE HandlerTest \/ HandlerClaim
    BY <2>3 DEF HandlerTest, HandlerClaim, Claim, mainVars, workerVars, clientVars
  <2>4. CASE HandlerClose
    BY <2>4, CloseTypes DEF HandlerClose, mainVars, workerVars, clientVars
  <2>5. CASE SecondSignal
    BY <2>5 DEF SecondSignal, mainVars, workerVars, clientVars
  <2> QED
    BY <1>1, <2>1, <2>2, <2>3, <2>4, <2>5 DEF HandlerStep
<1>2. CASE \/ ListenOk \/ ListenFails \/ PublishListener \/ LoopTest \/ CallAccept
           \/ AcceptFailed \/ AcceptError
  <2>1. CASE ListenOk
    BY <2>1 DEF ListenOk, MainPcs, workerVars, clientVars
  <2>2. CASE ListenFails
    BY <2>2 DEF ListenFails, WakeWorker, MainPcs, WorkerPcs, signalVars, clientVars
  <2>3. CASE PublishListener
    BY <2>3 DEF PublishListener, MainPcs, workerVars, clientVars
  <2>4. CASE LoopTest \/ CallAccept \/ AcceptFailed \/ AcceptError
    BY <2>4 DEF LoopTest, CallAccept, AcceptFailed, AcceptError, MainPcs,
       signalVars, workerVars, clientVars
  <2> QED
    BY <1>2, <2>1, <2>2, <2>3, <2>4
<1>3. ASSUME NEW c \in Client, AcceptReturns(c) PROVE TypeOK'
  BY <1>3, ClientAssumption DEF AcceptReturns, MainPcs, ClientPcs, signalVars, workerVars
<1>4. CASE DropAccepted \/ CountClient \/ SpawnOk
  <2>1. CASE DropAccepted
    BY <2>1 DEF DropAccepted, MainPcs, ClientPcs, signalVars, workerVars
  <2>2. CASE CountClient
    BY <2>2 DEF CountClient, CountUp, MainPcs, signalVars, workerVars, clientVars
  <2>3. CASE SpawnOk
    BY <2>3 DEF SpawnOk, MainPcs, ClientPcs, signalVars, workerVars
  <2> QED
    BY <1>4, <2>1, <2>2, <2>3
<1>5. CASE SpawnFails
  <2>1. clients - 1 \in Nat
    BY <1>5, CountedIsFinite DEF SpawnFails, ClientCount, CountedClients
  <2> QED
    BY <1>5, <2>1 DEF SpawnFails, CountTakenBack, MainPcs, ClientPcs,
       signalVars, workerVars
<1>6. CASE \/ TestListener \/ MainClosesListener \/ AnnounceStop \/ JoinWorker
           \/ DrainClients \/ ShutdownCheckpoint \/ CloseResources
  <2>1. CASE TestListener \/ JoinWorker \/ DrainClients \/ ShutdownCheckpoint
    BY <2>1 DEF TestListener, JoinWorker, DrainClients, ShutdownCheckpoint,
       MainPcs, signalVars, workerVars, clientVars
  <2>2. CASE MainClosesListener
    BY <2>2, CloseTypes DEF MainClosesListener, MainPcs, workerVars, clientVars
  <2>3. CASE AnnounceStop
    BY <2>3 DEF AnnounceStop, WakeWorker, MainPcs, WorkerPcs, signalVars, clientVars
  <2>4. CASE CloseResources
    BY <2>4 DEF CloseResources, MainPcs, signalVars, workerVars, clientVars
  <2> QED
    BY <1>6, <2>1, <2>2, <2>3, <2>4
<1>7. ASSUME NEW c \in Client, Connect(c) \/ ClientStep(c) PROVE TypeOK'
  <2>1. CASE Connect(c) \/ AnswerDirectly(c) \/ ParseOk(c) \/ EnqueueRefused(c)
             \/ TestDone(c) \/ CloseSocket(c)
    BY <2>1 DEF Connect, AnswerDirectly, ParseOk, EnqueueRefused, TestDone,
       CloseSocket, ClientPcs, signalVars, mainVars, workerVars
  <2>2. CASE Enqueue(c)
    BY <2>2 DEF Enqueue, Pushed, WakeWorker, ClientPcs, WorkerPcs, signalVars, mainVars
  <2>3. CASE ClientDone(c)
    BY <2>3 DEF ClientDone, ClientPcs, MainPcs, signalVars, workerVars
  <2> QED
    BY <1>7, <2>1, <2>2, <2>3 DEF ClientStep
<1>8. CASE WorkerStep
  <2>1. CASE DequeueJob
    BY <2>1, ClientAssumption DEF DequeueJob, WorkerPcs, signalVars, mainVars, clientVars
  <2>2. CASE WaitForJob \/ WorkerExits
    BY <2>2 DEF WaitForJob, WorkerExits, WorkerPcs, signalVars, mainVars, clientVars
  <2>3. CASE Generate
    BY <2>3 DEF Generate, WorkerPcs, signalVars, mainVars
  <2>4. CASE FinishJob
    BY <2>4 DEF FinishJob, Woken, WorkerPcs, ClientPcs, signalVars, mainVars
  <2> QED
    BY <1>8, <2>1, <2>2, <2>3, <2>4 DEF WorkerStep
<1>9. CASE SpuriousWakeup
  BY <1>9 DEF SpuriousWakeup, Woken, MainPcs, WorkerPcs, ClientPcs, signalVars
<1> QED
  BY <1>1, <1>2, <1>3, <1>4, <1>5, <1>6, <1>7, <1>8, <1>9 DEF Running, MainStep
-----------------------------------------------------------------------------
(* The jobs: no dangling pointer, nobody forgotten. *)

JobInv == NoDanglingJob /\ WaitInv

\* A step that moves one client without starting or ending its wait keeps the
\* job invariants.
LEMMA MoveClient ==
  ASSUME TypeOK, JobInv, NEW c \in Client, NEW to \in ClientPcs,
         pc' = [pc EXCEPT ![c] = to],
         UNCHANGED <<queue, workerJob, done>>,
         JobAlive(c) <=> (to \in {"holding", "sleeping"} /\ ~done[c]),
         to \in NotStarted => pc[c] \in NotStarted
  PROVE  JobInv'
<1>1. \A d \in Client : JobAlive(d)' <=> JobAlive(d)
  BY DEF TypeOK, JobAlive
<1>2. \A i \in DOMAIN queue : queue[i] \in Client
  BY DEF TypeOK
<1>3. NoDanglingJob'
  <2>1. /\ \A i \in DOMAIN queue : JobAlive(queue[i])'
        /\ workerJob # NoJob => JobAlive(workerJob)'
    BY <1>1, <1>2 DEF TypeOK, JobInv, NoDanglingJob
  <2> QED
    BY <2>1 DEF JobInv, NoDanglingJob, JobAlive
<1>4. WaitInv'
  BY <1>1 DEF TypeOK, JobInv, WaitInv
<1> QED
  BY <1>3, <1>4 DEF JobInv

\* Linking a new job behind the others.
LEMMA EnqueueJobs ==
  ASSUME TypeOK, JobInv, NEW c \in Client, Enqueue(c) PROVE JobInv'
<1> DEFINE n == Len(queue) + 1
           AliveAfter(d) == pc'[d] \in {"holding", "sleeping"} /\ ~done'[d]
<1>1. /\ DOMAIN queue = 1..Len(queue) /\ Len(queue) \in Nat
      /\ DOMAIN queue' = 1..n
      /\ queue'[n] = c
      /\ \A i \in DOMAIN queue : queue'[i] = queue[i] /\ queue[i] \in Client
  BY DEF TypeOK, Enqueue, Pushed
<1>2. ~JobAlive(c) /\ AliveAfter(c)
  BY DEF TypeOK, Enqueue, JobAlive, JobInv, WaitInv, NotStarted
<1>3. \A d \in Client : d # c => (AliveAfter(d) <=> JobAlive(d)) /\ pc'[d] = pc[d]
  BY DEF TypeOK, Enqueue, JobAlive
<1>4. \A i \in DOMAIN queue : queue[i] # c
  BY <1>2 DEF JobInv, NoDanglingJob
<1>5. workerJob # c /\ workerJob' = workerJob
  BY <1>2, ClientAssumption DEF JobInv, NoDanglingJob, Enqueue
<1>6. NoDanglingJob'
  <2>1. \A i \in DOMAIN queue' : AliveAfter(queue'[i])
    <3> TAKE i \in DOMAIN queue'
    <3>1. CASE i = n
      BY <3>1, <1>1, <1>2
    <3>2. CASE i # n
      BY <3>2, <1>1, <1>3, <1>4 DEF JobInv, NoDanglingJob
    <3> QED
      BY <3>1, <3>2
  <2>2. \A i, j \in DOMAIN queue' : queue'[i] = queue'[j] => i = j
    <3> SUFFICES ASSUME NEW i \in DOMAIN queue', NEW j \in DOMAIN queue', queue'[i] = queue'[j]
                 PROVE  i = j
      OBVIOUS
    <3>1. CASE i = n \/ j = n
      BY <3>1, <1>1, <1>4
    <3>2. CASE i # n /\ j # n
      BY <3>2, <1>1 DEF JobInv, NoDanglingJob
    <3> QED
      BY <3>1, <3>2
  <2>3. workerJob' # NoJob => /\ AliveAfter(workerJob')
                             /\ \A i \in DOMAIN queue' : queue'[i] # workerJob'
    <3> HIDE DEF AliveAfter
    <3>1. SUFFICES ASSUME workerJob # NoJob
                   PROVE  /\ AliveAfter(workerJob)
                          /\ \A i \in DOMAIN queue' : queue'[i] # workerJob
      BY <1>5
    <3>2. workerJob \in Client /\ JobAlive(workerJob)
      BY <3>1 DEF TypeOK, JobInv, NoDanglingJob
    <3>3. \A i \in DOMAIN queue' : queue'[i] # workerJob
      BY <3>1, <1>1, <1>5 DEF JobInv, NoDanglingJob
    <3> QED
      BY <3>2, <3>3, <1>3, <1>5
  <2> QED
    BY <2>1, <2>2, <2>3 DEF NoDanglingJob, JobAlive
<1>7. WaitInv'
  <2>1. done' = done /\ pc'[c] = "holding"
    BY DEF Enqueue, TypeOK
  <2> SUFFICES ASSUME NEW d \in Client
               PROVE /\ pc'[d] \in NotStarted => ~done'[d]
                     /\ AliveAfter(d) => workerJob' = d \/ \E i \in DOMAIN queue' : queue'[i] = d
    BY DEF WaitInv, JobAlive
  <2>2. CASE d = c
    BY <2>1, <2>2, <1>1 DEF NotStarted
  <2>3. CASE d # c
    BY <2>1, <2>3, <1>1, <1>3, <1>5 DEF JobInv, WaitInv
  <2> QED
    BY <2>2, <2>3
<1> QED
  BY <1>6, <1>7 DEF JobInv

\* The worker takes the oldest job.
LEMMA DequeueJobs == ASSUME TypeOK, JobInv, DequeueJob PROVE JobInv'
<1>1. /\ DOMAIN queue = 1..Len(queue) /\ Len(queue) \in Nat \ {0}
      /\ DOMAIN queue' = 1..(Len(queue) - 1)
      /\ workerJob' = queue[1]
      /\ \A i \in DOMAIN queue' : queue'[i] = queue[i + 1]
      /\ \A i \in DOMAIN queue : queue[i] \in Client
  BY DEF TypeOK, DequeueJob
<1>2. pc' = pc /\ done' = done /\ workerJob = NoJob
  BY DEF DequeueJob, clientVars, TypeOK
<1>3. \A i \in DOMAIN queue' : i + 1 \in DOMAIN queue /\ i + 1 # 1
  BY <1>1
<1>4. NoDanglingJob'
  BY <1>1, <1>2, <1>3 DEF JobInv, NoDanglingJob, JobAlive
<1>5. \A c \in Client : (\E i \in DOMAIN queue : queue[i] = c)
                         => workerJob' = c \/ \E i \in DOMAIN queue' : queue'[i] = c
  <2> TAKE c \in Client
  <2> HAVE \E i \in DOMAIN queue : queue[i] = c
  <2>1. PICK i \in DOMAIN queue : queue[i] = c
    OBVIOUS
  <2>2. CASE i = 1
    BY <2>1, <2>2, <1>1
  <2>3. CASE i # 1
    <3>1. i - 1 \in DOMAIN queue' /\ queue'[i - 1] = queue[i]
      BY <2>3, <1>1
    <3> QED
      BY <3>1, <2>1
  <2> QED
    BY <2>2, <2>3
<1>6. WaitInv'
  BY <1>2, <1>5, ClientAssumption DEF JobInv, WaitInv, JobAlive
<1> QED
  BY <1>4, <1>6 DEF JobInv

\* The worker marks its job done; it held the only pointer to it.
LEMMA FinishJobs == ASSUME TypeOK, JobInv, FinishJob PROVE JobInv'
<1> DEFINE w == workerJob
<1>1. w \in Client /\ JobAlive(w) /\ \A i \in DOMAIN queue : queue[i] # w
  BY DEF TypeOK, FinishJob, JobInv, NoDanglingJob
<1>2. queue' = queue /\ workerJob' = NoJob /\ done'[w] /\ pc'[w] = "holding"
  BY <1>1 DEF FinishJob, TypeOK, Woken, JobAlive
<1>3. \A d \in Client : d # w => pc'[d] = pc[d] /\ done'[d] = done[d]
  BY DEF FinishJob, TypeOK
<1>4. \A i \in DOMAIN queue : queue[i] \in Client
  BY DEF TypeOK
<1>5. NoDanglingJob'
  BY <1>1, <1>2, <1>3, <1>4 DEF JobInv, NoDanglingJob, JobAlive
<1>6. WaitInv'
  BY <1>1, <1>2, <1>3 DEF JobInv, WaitInv, JobAlive, NotStarted
<1> QED
  BY <1>5, <1>6 DEF JobInv

\* Every step keeps the job invariants.
LEMMA JobStep == IInv /\ Running => JobInv'
<1> SUFFICES ASSUME TypeOK, JobInv, HandoffInv, Running PROVE JobInv'
  BY DEF IInv, JobInv
<1> USE DEF MainGoto
<1>1. ASSUME UNCHANGED <<queue, workerJob, pc, done>> PROVE JobInv'
  BY <1>1 DEF JobInv, NoDanglingJob, WaitInv, JobAlive
<1>2. CASE SignalOnMain \/ SignalElsewhere \/ HandlerStep \/ SecondSignal
  BY <1>1, <1>2 DEF SignalOnMain, SignalElsewhere, HandlerStep, HandlerTest,
     HandlerClaim, HandlerClose, SecondSignal, workerVars, clientVars
<1>3. CASE \/ ListenOk \/ ListenFails \/ PublishListener \/ LoopTest \/ CallAccept
           \/ AcceptFailed \/ AcceptError \/ CountClient
  BY <1>1, <1>3 DEF ListenOk, ListenFails, PublishListener, LoopTest, CallAccept,
     AcceptFailed, AcceptError, CountClient, workerVars, clientVars
<1>4. CASE \/ TestListener \/ MainClosesListener \/ AnnounceStop \/ JoinWorker
           \/ DrainClients \/ ShutdownCheckpoint \/ CloseResources
  BY <1>1, <1>4 DEF TestListener, MainClosesListener, AnnounceStop, JoinWorker,
     DrainClients, ShutdownCheckpoint, CloseResources, workerVars, clientVars
<1>5. CASE DropAccepted \/ SpawnOk \/ SpawnFails
  <2>1. newFd \in Client /\ pc[newFd] = "accepted"
    BY <1>5 DEF DropAccepted, SpawnOk, SpawnFails, TypeOK, HandoffInv
  <2>2. PICK to \in {"dropped", "handle"} :
          /\ pc' = [pc EXCEPT ![newFd] = to]
          /\ UNCHANGED <<queue, workerJob, done>>
    BY <1>5 DEF DropAccepted, SpawnOk, SpawnFails, workerVars
  <2> QED
    BY <2>1, <2>2, MoveClient DEF JobAlive, ClientPcs, NotStarted
<1>6. ASSUME NEW c \in Client,
             \/ AcceptReturns(c) \/ Connect(c) \/ AnswerDirectly(c) \/ ParseOk(c)
             \/ EnqueueRefused(c) \/ CloseSocket(c) \/ ClientDone(c)
      PROVE  JobInv'
  <2>1. PICK to \in {"accepted", "backlog", "close", "enqueue", "leave", "gone"} :
          /\ pc' = [pc EXCEPT ![c] = to]
          /\ UNCHANGED <<queue, workerJob, done>>
          /\ pc[c] \notin {"holding", "sleeping"}
          /\ to \in NotStarted => pc[c] \in NotStarted
    BY <1>6 DEF AcceptReturns, Connect, AnswerDirectly, ParseOk, EnqueueRefused,
       CloseSocket, ClientDone, NotStarted, workerVars
  <2> QED
    BY <2>1, MoveClient DEF JobAlive, ClientPcs
<1>7. ASSUME NEW c \in Client, TestDone(c) PROVE JobInv'
  <2>1. CASE done[c]
    BY <1>7, <2>1, MoveClient DEF TestDone, JobAlive, ClientPcs, NotStarted, workerVars
  <2>2. CASE ~done[c]
    BY <1>7, <2>2, MoveClient DEF TestDone, JobAlive, ClientPcs, NotStarted, workerVars
  <2> QED
    BY <2>1, <2>2
<1>8. CASE SpuriousWakeup
  <2>1. CASE UNCHANGED pc
    BY <1>1, <1>8, <2>1 DEF SpuriousWakeup
  <2>2. ASSUME NEW c \in Client, pc[c] = "sleeping", pc' = [pc EXCEPT ![c] = "holding"]
        PROVE  JobInv'
    BY <1>8, <2>2, MoveClient DEF SpuriousWakeup, JobAlive, ClientPcs, NotStarted
  <2> QED
    BY <1>8, <2>1, <2>2 DEF SpuriousWakeup, Woken
<1>9. CASE WorkerStep
  <2>1. CASE WaitForJob \/ WorkerExits \/ Generate
    BY <1>1, <2>1 DEF WaitForJob, WorkerExits, Generate, clientVars
  <2> QED
    BY <1>9, <2>1, DequeueJobs, FinishJobs DEF WorkerStep
<1> QED
  BY <1>2, <1>3, <1>4, <1>5, <1>6, <1>7, <1>8, <1>9, EnqueueJobs
  DEF Running, MainStep, ClientStep
-----------------------------------------------------------------------------
(* The count of client threads. *)

\* Every step keeps s.clients equal to the number of client threads.
LEMMA CountStep == IInv /\ Running => ClientCount'
<1> SUFFICES ASSUME TypeOK, ClientCount, HandoffInv, Running PROVE ClientCount'
  BY DEF IInv
<1> USE DEF MainGoto
<1>1. ASSUME CountedClients' = CountedClients, clients' = clients,
             mainPc' = "spawn" <=> mainPc = "spawn"
      PROVE  ClientCount'
  BY <1>1 DEF ClientCount, CountedClients
<1>2. ASSUME UNCHANGED <<pc, clients, mainPc>> PROVE ClientCount'
  BY <1>2 DEF ClientCount, Counted
<1>3. ASSUME NEW c \in Client, NEW to \in ClientPcs,
             pc' = [pc EXCEPT ![c] = to], clients' = clients,
             mainPc' = "spawn" <=> mainPc = "spawn",
             Counted(c) <=> to \in {"handle", "enqueue", "holding", "sleeping",
                                   "close", "leave"}
      PROVE  ClientCount'
  <2>1. CountedClients' = CountedClients
    BY <1>3 DEF CountedClients, Counted, TypeOK
  <2> QED
    BY <1>1, <1>3, <2>1
<1>4. CASE SignalOnMain \/ SignalElsewhere \/ HandlerStep \/ SecondSignal
  <2>1. /\ UNCHANGED <<pc, clients>>
        /\ mainPc' = "spawn" <=> mainPc = "spawn"
    BY <1>4 DEF SignalOnMain, SignalElsewhere, HandlerStep, HandlerTest,
       HandlerClaim, HandlerClose, SecondSignal, mainVars, clientVars
  <2>2. CountedClients' = CountedClients
    BY <2>1 DEF CountedClients, Counted
  <2> QED
    BY <1>1, <2>1, <2>2
<1>5. CASE \/ ListenOk \/ ListenFails \/ PublishListener \/ LoopTest \/ CallAccept
           \/ AcceptFailed \/ AcceptError
           \/ TestListener \/ MainClosesListener \/ AnnounceStop \/ JoinWorker
           \/ DrainClients \/ ShutdownCheckpoint \/ CloseResources
  <2>1. /\ UNCHANGED <<pc, clients>>
        /\ mainPc' = "spawn" <=> mainPc = "spawn"
    BY <1>5 DEF ListenOk, ListenFails, PublishListener, LoopTest, CallAccept,
       AcceptFailed, AcceptError, TestListener, MainClosesListener, AnnounceStop,
       JoinWorker, DrainClients, ShutdownCheckpoint, CloseResources, clientVars
  <2>2. CountedClients' = CountedClients
    BY <2>1 DEF CountedClients, Counted
  <2> QED
    BY <1>1, <2>1, <2>2
<1>6. CASE DropAccepted
  BY <1>3, <1>6 DEF DropAccepted, TypeOK, HandoffInv, Counted, ClientPcs
<1>7. CASE CountClient
  <2>1. CountedClients' = CountedClients
    BY <1>7 DEF CountClient, CountedClients, Counted, clientVars
  <2> QED
    BY <1>7, <2>1, CountedIsFinite DEF CountClient, CountUp, ClientCount, CountedClients
<1>8. CASE SpawnOk
  <2>1. newFd \in Client /\ newFd \notin CountedClients
    BY <1>8 DEF SpawnOk, TypeOK, HandoffInv, CountedClients, Counted
  <2>2. CountedClients' = CountedClients \cup {newFd}
    BY <1>8, <2>1 DEF SpawnOk, TypeOK, CountedClients, Counted
  <2>3. Cardinality(CountedClients') = Cardinality(CountedClients) + 1
    BY <2>1, <2>2, CountedIsFinite, FS_AddElement
  <2>4. mainPc = "spawn" /\ mainPc' = "loop" /\ clients' = clients
    BY <1>8 DEF SpawnOk
  <2>5. clients = Cardinality(CountedClients) + 1
    BY <2>4 DEF ClientCount, CountedClients
  <2>6. clients' = Cardinality(CountedClients') + (IF mainPc' = "spawn" THEN 1 ELSE 0)
    BY <2>3, <2>4, <2>5, CountedIsFinite
  <2> QED
    BY <2>6 DEF ClientCount, CountedClients
<1>9. CASE SpawnFails
  <2>1. newFd \in Client /\ ~Counted(newFd)
    BY <1>9 DEF SpawnFails, TypeOK, HandoffInv, Counted
  <2>2. CountedClients' = CountedClients
    BY <1>9, <2>1 DEF SpawnFails, TypeOK, CountedClients, Counted
  <2>3. clients = Cardinality(CountedClients) + 1
    BY <1>9 DEF SpawnFails, ClientCount, CountedClients
  <2>4. clients' = Cardinality(CountedClients') + (IF mainPc' = "spawn" THEN 1 ELSE 0)
    BY <1>9, <2>2, <2>3, CountedIsFinite DEF SpawnFails, CountTakenBack
  <2> QED
    BY <2>4 DEF ClientCount, CountedClients
<1>10. ASSUME NEW c \in Client, ClientDone(c) PROVE ClientCount'
  <2>1. c \in CountedClients
    BY <1>10 DEF ClientDone, CountedClients, Counted
  <2>2. CountedClients' = CountedClients \ {c}
    BY <1>10 DEF ClientDone, TypeOK, CountedClients, Counted
  <2>3. Cardinality(CountedClients') = Cardinality(CountedClients) - 1
    BY <2>1, <2>2, CountedIsFinite, FS_RemoveElement
  <2>4. Cardinality(CountedClients) # 0
    BY <2>1, CountedIsFinite, FS_EmptySet
  <2>5. mainPc' = "spawn" <=> mainPc = "spawn"
    BY <1>10 DEF ClientDone
  <2>6. clients = Cardinality(CountedClients) + (IF mainPc = "spawn" THEN 1 ELSE 0)
    BY DEF ClientCount, CountedClients
  <2>7. clients' = clients - 1
    BY <1>10, <2>4, <2>6, CountedIsFinite DEF ClientDone
  <2>8. clients' = Cardinality(CountedClients') + (IF mainPc' = "spawn" THEN 1 ELSE 0)
    BY <2>3, <2>5, <2>6, <2>7, CountedIsFinite
  <2> QED
    BY <2>8 DEF ClientCount, CountedClients
<1>11. ASSUME NEW c \in Client,
              \/ AcceptReturns(c) \/ Connect(c) \/ AnswerDirectly(c) \/ ParseOk(c)
              \/ Enqueue(c) \/ EnqueueRefused(c) \/ TestDone(c) \/ CloseSocket(c)
       PROVE  ClientCount'
  <2>1. PICK to \in ClientPcs :
          /\ pc' = [pc EXCEPT ![c] = to]
          /\ clients' = clients
          /\ mainPc' = "spawn" <=> mainPc = "spawn"
          /\ Counted(c) <=> to \in {"handle", "enqueue", "holding", "sleeping",
                                   "close", "leave"}
    BY <1>11 DEF AcceptReturns, Connect, AnswerDirectly, ParseOk, Enqueue,
       EnqueueRefused, TestDone, CloseSocket, Counted, ClientPcs, mainVars
  <2> QED
    BY <1>3, <2>1
<1>12. CASE WorkerStep
  <2>1. CASE DequeueJob \/ WaitForJob \/ WorkerExits \/ Generate
    BY <1>2, <2>1 DEF DequeueJob, WaitForJob, WorkerExits, Generate, mainVars, clientVars
  <2>2. CASE FinishJob
    <3>1. workerJob \in Client
      BY <2>2 DEF FinishJob, TypeOK
    <3>2. CountedClients' = CountedClients
      BY <2>2, <3>1 DEF FinishJob, Woken, TypeOK, CountedClients, Counted
    <3> QED
      BY <1>1, <2>2, <3>2 DEF FinishJob, mainVars
  <2> QED
    BY <1>12, <2>1, <2>2 DEF WorkerStep
<1>13. CASE SpuriousWakeup
  <2>1. CASE UNCHANGED pc
    <3>1. CountedClients' = CountedClients
      BY <2>1 DEF CountedClients, Counted
    <3> QED
      BY <1>1, <1>13, <3>1 DEF SpuriousWakeup
  <2>2. ASSUME NEW c \in Client, pc[c] = "sleeping", pc' = [pc EXCEPT ![c] = "holding"]
        PROVE  ClientCount'
    <3>1. CountedClients' = CountedClients
      BY <2>2 DEF TypeOK, CountedClients, Counted
    <3> QED
      BY <1>1, <1>13, <3>1 DEF SpuriousWakeup
  <2> QED
    BY <1>13, <2>1, <2>2 DEF SpuriousWakeup, Woken
<1> QED
  BY <1>4, <1>5, <1>6, <1>7, <1>8, <1>9, <1>10, <1>11, <1>12, <1>13
  DEF Running, MainStep, ClientStep
-----------------------------------------------------------------------------
(* How far main is. *)

\* Every step keeps the connection main holds unserved.
LEMMA HandoffStep == IInv /\ Running => HandoffInv'
<1> SUFFICES ASSUME TypeOK, HandoffInv, Running PROVE HandoffInv'
  BY DEF IInv
<1> USE DEF MainGoto
<1>1. CASE MainStep \/ AcceptError
  BY <1>1 DEF HandoffInv, TypeOK, MainStep, AcceptError, ListenOk, ListenFails,
     PublishListener, LoopTest, CallAccept, AcceptReturns, AcceptFailed,
     DropAccepted, CountClient, SpawnOk, SpawnFails, TestListener,
     MainClosesListener, AnnounceStop, JoinWorker, DrainClients,
     ShutdownCheckpoint, CloseResources, clientVars
<1>2. CASE SignalOnMain \/ SignalElsewhere \/ HandlerStep \/ SecondSignal
  BY <1>2 DEF HandoffInv, SignalOnMain, SignalElsewhere, HandlerStep,
     HandlerTest, HandlerClaim, HandlerClose, SecondSignal, mainVars, clientVars
<1>3. ASSUME NEW c \in Client, Connect(c) \/ ClientStep(c) PROVE HandoffInv'
  BY <1>3 DEF HandoffInv, TypeOK, ClientStep, Connect, AnswerDirectly, ParseOk,
     Enqueue, EnqueueRefused, TestDone, CloseSocket, ClientDone, mainVars
<1>4. CASE WorkerStep
  BY <1>4 DEF HandoffInv, TypeOK, WorkerStep, DequeueJob, WaitForJob,
     WorkerExits, Generate, FinishJob, mainVars, clientVars
<1>5. CASE SpuriousWakeup
  BY <1>5 DEF HandoffInv, TypeOK, SpuriousWakeup
<1> QED
  BY <1>1, <1>2, <1>3, <1>4, <1>5 DEF Running

\* Every step keeps what main's place in its shutdown says about the others.
LEMMA PhaseStep == IInv /\ ~Ended /\ Running => PhaseInv' /\ NoUseAfterClose'
<1> SUFFICES ASSUME IInv, ~Ended, Running PROVE PhaseInv' /\ NoUseAfterClose'
  OBVIOUS
<1> USE DEF MainGoto, IInv, Ended
<1>1. CASE SignalOnMain \/ SignalElsewhere \/ HandlerStep \/ SecondSignal
  BY <1>1 DEF PhaseInv, NoUseAfterClose, Counted, SignalOnMain, SignalElsewhere,
     HandlerStep, HandlerTest, HandlerClaim, HandlerClose, SecondSignal, mainVars, workerVars,
     clientVars
<1>2. CASE \/ ListenOk \/ PublishListener \/ LoopTest \/ CallAccept \/ AcceptFailed
           \/ AcceptError \/ CountClient \/ TestListener \/ MainClosesListener
           \/ ShutdownCheckpoint
  BY <1>2 DEF PhaseInv, NoUseAfterClose, Counted, ListenOk, PublishListener,
     LoopTest, CallAccept, AcceptFailed, AcceptError, CountClient, TestListener,
     MainClosesListener, ShutdownCheckpoint, workerVars, clientVars
<1>3. CASE ListenFails \/ AnnounceStop
  BY <1>3 DEF PhaseInv, NoUseAfterClose, Counted, ListenFails, AnnounceStop,
     WakeWorker, clientVars
<1>4. CASE DropAccepted \/ SpawnOk \/ SpawnFails
  BY <1>4 DEF PhaseInv, NoUseAfterClose, DropAccepted, SpawnOk, SpawnFails, workerVars
<1>5. CASE JoinWorker
  BY <1>5 DEF PhaseInv, NoUseAfterClose, Counted, JoinWorker, WorkerReturned,
     workerVars, clientVars
<1>6. CASE DrainClients
  <2>1. clients = 0 => CountedClients = {}
    BY <1>6, CountedIsFinite, FS_EmptySet DEF DrainClients, ClientCount, CountedClients
  <2> QED
    BY <1>6, <2>1 DEF PhaseInv, NoUseAfterClose, Counted, CountedClients,
       DrainClients, ClientsGone, workerVars, clientVars
<1>7. CASE CloseResources
  BY <1>7 DEF PhaseInv, NoUseAfterClose, Counted, CloseResources, workerVars, clientVars
<1>8. ASSUME NEW c \in Client,
             \/ AcceptReturns(c) \/ Connect(c) \/ AnswerDirectly(c) \/ ParseOk(c)
             \/ EnqueueRefused(c) \/ TestDone(c) \/ CloseSocket(c)
      PROVE  PhaseInv' /\ NoUseAfterClose'
  BY <1>8 DEF PhaseInv, NoUseAfterClose, Counted, TypeOK, AcceptReturns, Connect,
     AnswerDirectly, ParseOk, EnqueueRefused, TestDone, CloseSocket, mainVars,
     workerVars
<1>9. ASSUME NEW c \in Client, Enqueue(c) PROVE PhaseInv' /\ NoUseAfterClose'
  BY <1>9 DEF PhaseInv, NoUseAfterClose, Counted, TypeOK, Enqueue, WakeWorker, mainVars
<1>10. ASSUME NEW c \in Client, ClientDone(c) PROVE PhaseInv' /\ NoUseAfterClose'
  BY <1>10 DEF PhaseInv, NoUseAfterClose, Counted, TypeOK, ClientDone, workerVars
<1>11. CASE WorkerStep
  BY <1>11 DEF PhaseInv, NoUseAfterClose, Counted, TypeOK, WorkerStep, DequeueJob,
     WaitForJob, WorkerExits, NothingLeft, Generate, FinishJob, mainVars, clientVars
<1>12. CASE SpuriousWakeup
  BY <1>12 DEF PhaseInv, NoUseAfterClose, Counted, TypeOK, SpuriousWakeup
<1> QED
  BY <1>1, <1>2, <1>3, <1>4, <1>5, <1>6, <1>7, <1>8, <1>9, <1>10, <1>11, <1>12
  DEF Running, MainStep, ClientStep
-----------------------------------------------------------------------------
(* The answers. *)

\* Every step keeps unfinished jobs unanswered.
LEMMA AnswerStep == IInv /\ Running => AnswerInv'
<1> SUFFICES ASSUME TypeOK, AnswerInv, JobInv, HandoffInv, Running PROVE AnswerInv'
  BY DEF IInv, JobInv
<1> USE DEF MainGoto
<1>1. ASSUME UNCHANGED <<pc, queue, workerJob, answer>>,
             workerPc' = "generate" => workerPc = "generate"
      PROVE  AnswerInv'
  BY <1>1 DEF AnswerInv
<1>2. ASSUME NEW c \in Client, NEW to \in ClientPcs, pc' = [pc EXCEPT ![c] = to],
             UNCHANGED <<queue, workerJob, workerPc, answer>>,
             to \in NotStarted => pc[c] \in NotStarted
      PROVE  AnswerInv'
  BY <1>2 DEF AnswerInv, TypeOK
<1>3. CASE SignalOnMain \/ SignalElsewhere \/ HandlerStep \/ SecondSignal
  BY <1>1, <1>3 DEF SignalOnMain, SignalElsewhere, HandlerStep, HandlerTest,
     HandlerClaim, HandlerClose, SecondSignal, workerVars, clientVars
<1>4. CASE \/ ListenOk \/ ListenFails \/ PublishListener \/ LoopTest \/ CallAccept
           \/ AcceptFailed \/ AcceptError \/ CountClient \/ AnnounceStop
  BY <1>1, <1>4 DEF ListenOk, ListenFails, PublishListener, LoopTest, CallAccept,
     AcceptFailed, AcceptError, CountClient, AnnounceStop, WakeWorker, workerVars,
     clientVars
<1>5. CASE \/ TestListener \/ MainClosesListener \/ JoinWorker \/ DrainClients
           \/ ShutdownCheckpoint \/ CloseResources
  BY <1>1, <1>5 DEF TestListener, MainClosesListener, JoinWorker, DrainClients,
     ShutdownCheckpoint, CloseResources, workerVars, clientVars
<1>6. CASE DropAccepted \/ SpawnOk \/ SpawnFails
  <2>1. newFd \in Client /\ pc[newFd] = "accepted"
    BY <1>6 DEF DropAccepted, SpawnOk, SpawnFails, TypeOK, HandoffInv
  <2>2. PICK to \in {"dropped", "handle"} :
          /\ pc' = [pc EXCEPT ![newFd] = to]
          /\ UNCHANGED <<queue, workerJob, workerPc, answer>>
    BY <1>6 DEF DropAccepted, SpawnOk, SpawnFails, workerVars
  <2> QED
    BY <1>2, <2>1, <2>2 DEF ClientPcs, NotStarted
<1>7. ASSUME NEW c \in Client,
             \/ AcceptReturns(c) \/ Connect(c) \/ ParseOk(c) \/ TestDone(c)
             \/ CloseSocket(c) \/ ClientDone(c)
      PROVE  AnswerInv'
  <2>1. PICK to \in ClientPcs :
          /\ pc' = [pc EXCEPT ![c] = to]
          /\ UNCHANGED <<queue, workerJob, workerPc, answer>>
          /\ to \in NotStarted => pc[c] \in NotStarted
    BY <1>7 DEF AcceptReturns, Connect, ParseOk, TestDone, CloseSocket, ClientDone,
       ClientPcs, NotStarted, workerVars
  <2> QED
    BY <1>2, <2>1
<1>8. ASSUME NEW c \in Client, AnswerDirectly(c) \/ EnqueueRefused(c) PROVE AnswerInv'
  <2>1. /\ ~JobAlive(c)
        /\ UNCHANGED <<queue, workerJob, workerPc>>
        /\ pc'[c] = "close"
        /\ \A d \in Client : d # c => pc'[d] = pc[d] /\ answer'[d] = answer[d]
    BY <1>8 DEF AnswerDirectly, EnqueueRefused, TypeOK, JobAlive, workerVars
  <2>2. workerJob # c /\ \A i \in DOMAIN queue : queue[i] # c
    BY <2>1, ClientAssumption DEF JobInv, NoDanglingJob
  <2> QED
    BY <2>1, <2>2 DEF AnswerInv, NotStarted
<1>9. ASSUME NEW c \in Client, Enqueue(c) PROVE AnswerInv'
  <2>1. \A i \in DOMAIN queue' : queue'[i] = c \/ (i \in DOMAIN queue /\ queue'[i] = queue[i])
    BY <1>9 DEF Enqueue, Pushed, TypeOK
  <2>2. /\ UNCHANGED <<workerJob, answer>>
        /\ workerPc' = "generate" => workerPc = "generate"
        /\ pc[c] \in NotStarted
        /\ \A d \in Client : d # c => pc'[d] = pc[d]
    BY <1>9 DEF Enqueue, WakeWorker, TypeOK, NotStarted
  <2> QED
    BY <2>1, <2>2 DEF AnswerInv
<1>10. CASE DequeueJob
  <2>1. /\ \A i \in DOMAIN queue' : i + 1 \in DOMAIN queue /\ queue'[i] = queue[i + 1]
        /\ 1 \in DOMAIN queue /\ workerJob' = queue[1]
        /\ UNCHANGED <<pc, answer>>
    BY <1>10 DEF DequeueJob, TypeOK, clientVars
  <2> QED
    BY <2>1 DEF AnswerInv
<1>11. CASE WaitForJob \/ WorkerExits
  BY <1>1, <1>11 DEF WaitForJob, WorkerExits, clientVars
<1>12. CASE Generate
  <2>1. /\ workerJob \in Client /\ JobAlive(workerJob)
        /\ \A i \in DOMAIN queue : queue[i] # workerJob
    BY <1>12 DEF Generate, TypeOK, JobInv, NoDanglingJob
  <2> QED
    BY <1>12, <2>1 DEF Generate, AnswerInv, TypeOK, JobAlive, NotStarted
<1>13. CASE FinishJob
  <2>1. /\ UNCHANGED <<queue, answer>> /\ workerPc' = "dequeue"
        /\ \A d \in Client : pc'[d] = pc[d] \/ pc'[d] = "holding"
    BY <1>13 DEF FinishJob, Woken, TypeOK
  <2> QED
    BY <2>1 DEF AnswerInv, NotStarted
<1>14. CASE SpuriousWakeup
  <2>1. CASE UNCHANGED pc
    BY <1>1, <1>14, <2>1 DEF SpuriousWakeup
  <2>2. ASSUME NEW c \in Client, pc' = [pc EXCEPT ![c] = "holding"],
               UNCHANGED <<queue, workerJob, workerPc, answer>>
        PROVE  AnswerInv'
    BY <1>2, <2>2 DEF ClientPcs, NotStarted
  <2> QED
    BY <1>14, <2>1, <2>2 DEF SpuriousWakeup, Woken
<1> QED
  BY <1>3, <1>4, <1>5, <1>6, <1>7, <1>8, <1>9, <1>10, <1>11, <1>12, <1>13, <1>14
  DEF Running, MainStep, ClientStep, WorkerStep
-----------------------------------------------------------------------------
(* The theorems. *)

\* The strengthened invariant holds in every reachable state.
LEMMA Invariance == Spec => []IInv
<1>1. IInv /\ [Next]_vars => IInv'
  <2> SUFFICES ASSUME IInv, [Next]_vars PROVE IInv'
    OBVIOUS
  <2>1. CASE UNCHANGED vars
    BY <2>1 DEF vars, signalVars, mainVars, workerVars, clientVars, IInv, TypeOK,
       AnswerInv, HandoffInv, NoDanglingJob, WaitInv, PhaseInv, NoUseAfterClose,
       ClientCount, JobAlive, Counted
  <2>2. CASE ~Ended /\ Running
    BY <2>2, TypeStep, AnswerStep, HandoffStep, JobStep, PhaseStep, CountStep
    DEF IInv, JobInv
  <2> QED
    BY <2>1, <2>2 DEF Next
<1> QED
  BY InitIInv, <1>1, PTL DEF Spec

\* ds4-server's threads keep the types of their shared state.
THEOREM TypeCorrect == Spec => []TypeOK
<1>1. IInv => TypeOK
  BY DEF IInv
<1> QED
  BY <1>1, Invariance, PTL

\* No job pointer outlives the stack frame of the client that owns the job.
THEOREM JobsNeverDangle == Spec => []NoDanglingJob
<1>1. IInv => NoDanglingJob
  BY DEF IInv
<1> QED
  BY <1>1, Invariance, PTL

\* main checkpoints and frees the session only when it is alone.
THEOREM ShutdownIsExclusive == Spec => []NoUseAfterClose
<1>1. IInv => NoUseAfterClose
  BY DEF IInv
<1> QED
  BY <1>1, Invariance, PTL

\* s.clients is the number of client threads that main has to wait for.
THEOREM ClientsAreCounted == Spec => []ClientCount
<1>1. IInv => ClientCount
  BY DEF IInv
<1> QED
  BY <1>1, Invariance, PTL

\* The worker returns only after the last admitted job.
THEOREM NobodyStranded == Spec => []NoStrandedJob
<1>1. IInv => NoStrandedJob
  <2> SUFFICES ASSUME IInv, workerPc = "exited" PROVE NoStrandedJob
    BY DEF NoStrandedJob
  <2>1. stopping /\ queue = <<>> /\ workerJob = NoJob
    BY DEF IInv, PhaseInv, TypeOK
  <2>2. \A c \in Client : ~JobAlive(c)
    BY <2>1, ClientAssumption DEF IInv, WaitInv
  <2> QED
    BY <2>1, <2>2 DEF NoStrandedJob, JobAlive
<1> QED
  BY <1>1, Invariance, PTL
-----------------------------------------------------------------------------
(* The listening descriptor. *)

\* A published descriptor is an open one.  While it is not published any more,
\* it is closed or about to be: by the handler that took it, or by a main
\* thread that tested it before.
ListenInv ==
  /\ mainPc \in {"listen", "publish", "joinAbandoned"}
        => listenCloses = 0 /\ ~gListen /\ handlerPc \notin {"claim", "close"}
  /\ mainPc \in {"listen", "joinAbandoned"} => ~lfdOpen
  /\ gListen => listenCloses = 0
  /\ lfdOpen => gListen \/ handlerPc = "close" \/ mainPc = "publish"
  /\ handlerPc # "idle" => stopFlag
  /\ mainPc \in {"closeListen", "closing", "announce", "join", "drain",
                 "drainWait", "checkpoint"} => stopFlag
  /\ mainPc \in {"announce", "join", "drain", "drainWait", "checkpoint",
                 "closeRes", "exited"} => ~gListen
  /\ handlerPc \in {"idle", "test"} /\ mainPc = "closing" => listenCloses = 0
  /\ handlerPc = "claim" /\ mainPc = "closing" => listenCloses = 0
  /\ handlerPc = "close" => ~gListen
  /\ handlerPc = "close" /\ mainPc = "closing" => listenCloses = 0
  /\ mainPc = "closing" => listenCloses <= 1
  /\ listenCloses <= IF handlerPc = "returned" THEN 2 ELSE 1

\* The listening descriptor is given up when main announces the stop, and its
\* number is closed once unless the handler ran beside main, for any number of
\* clients and signals on any thread.
THEOREM ListenerIsGivenUp == Spec => []ListenerGivenUp
<1>1. Init => ListenInv
  BY DEF Init, ListenInv
<1>2. TypeOK /\ ListenInv /\ [Next]_vars => ListenInv'
  <2> SUFFICES ASSUME TypeOK, ListenInv, [Next]_vars PROVE ListenInv'
    OBVIOUS
  <2> USE DEF MainGoto, TypeOK, ListenInv
  <2>1. CASE UNCHANGED vars
    BY <2>1 DEF vars, signalVars, mainVars
  <2>2. CASE SignalOnMain
    BY <2>2 DEF SignalOnMain, CloseListener, Claim
  <2>3. CASE SignalElsewhere \/ HandlerStep
    BY <2>3 DEF SignalElsewhere, HandlerStep, HandlerTest, HandlerClaim, HandlerClose,
       Claim, CloseListener, mainVars
  <2>4. CASE SecondSignal
    BY <2>4 DEF SecondSignal, mainVars
  <2>5. CASE \/ ListenOk \/ ListenFails \/ PublishListener \/ LoopTest \/ CallAccept
             \/ AcceptFailed \/ AcceptError
    BY <2>5 DEF ListenOk, ListenFails, PublishListener, LoopTest, CallAccept,
       AcceptFailed, AcceptError, signalVars
  <2>6. CASE DropAccepted \/ CountClient \/ SpawnOk \/ SpawnFails
    BY <2>6 DEF DropAccepted, CountClient, SpawnOk, SpawnFails, signalVars
  <2>7. CASE \/ TestListener \/ AnnounceStop \/ JoinWorker \/ DrainClients
             \/ ShutdownCheckpoint \/ CloseResources
    BY <2>7 DEF TestListener, AnnounceStop, JoinWorker, DrainClients,
       ShutdownCheckpoint, CloseResources, signalVars
  <2>8. CASE MainClosesListener
    BY <2>8 DEF MainClosesListener, CloseListener
  <2>9. ASSUME NEW c \in Client, AcceptReturns(c) \/ Connect(c) \/ ClientStep(c)
        PROVE  ListenInv'
    BY <2>9 DEF AcceptReturns, Connect, ClientStep, AnswerDirectly, ParseOk, Enqueue,
       EnqueueRefused, TestDone, CloseSocket, ClientDone, signalVars, mainVars
  <2>10. CASE WorkerStep \/ SpuriousWakeup
    BY <2>10 DEF WorkerStep, DequeueJob, WaitForJob, WorkerExits, Generate,
       FinishJob, SpuriousWakeup, signalVars, mainVars
  <2> QED
    BY <2>1, <2>2, <2>3, <2>4, <2>5, <2>6, <2>7, <2>8, <2>9, <2>10
    DEF Next, Running, MainStep
<1>3. ListenInv => ListenerGivenUp
  BY DEF ListenInv, ListenerGivenUp
<1> QED
  BY <1>1, <1>2, <1>3, TypeCorrect, PTL DEF Spec
-----------------------------------------------------------------------------
(* The threads implement the service. *)

Active == IF workerPc = "generate" THEN workerJob ELSE NoJob

\* Every step of the threads is a step of the service or none.
LEMMA ServiceStep == IInv /\ [Next]_vars => [Service!Next]_(Service!vars)
<1> SUFFICES ASSUME IInv, [Next]_vars PROVE Service!Next \/ UNCHANGED Service!vars
  OBVIOUS
<1> USE DEF MainGoto, IInv
<1>1. ASSUME UNCHANGED <<queue, answer, resOpen, Active>> PROVE UNCHANGED Service!vars
  BY <1>1 DEF Service!vars, Active
<1>2. CASE UNCHANGED vars
  BY <1>1, <1>2 DEF vars, workerVars, clientVars, Active
<1>3. ASSUME ~Ended, Running PROVE Service!Next \/ UNCHANGED Service!vars
  <2>1. resOpen
    BY <1>3 DEF Ended, PhaseInv
  <2>2. CASE SignalOnMain \/ SignalElsewhere \/ HandlerStep \/ SecondSignal
    BY <1>1, <2>2 DEF SignalOnMain, SignalElsewhere, HandlerStep, HandlerTest,
       HandlerClaim, HandlerClose, SecondSignal, workerVars, clientVars, Active
  <2>3. CASE \/ ListenOk \/ ListenFails \/ PublishListener \/ LoopTest \/ CallAccept
             \/ AcceptFailed \/ AcceptError \/ CountClient \/ AnnounceStop
    BY <1>1, <2>3 DEF ListenOk, ListenFails, PublishListener, LoopTest, CallAccept,
       AcceptFailed, AcceptError, CountClient, AnnounceStop, WakeWorker, workerVars,
       clientVars, Active
  <2>4. CASE \/ DropAccepted \/ SpawnOk \/ SpawnFails \/ TestListener
             \/ MainClosesListener \/ JoinWorker \/ DrainClients \/ ShutdownCheckpoint
    BY <1>1, <2>4 DEF DropAccepted, SpawnOk, SpawnFails, TestListener,
       MainClosesListener, JoinWorker, DrainClients, ShutdownCheckpoint, workerVars,
       clientVars, Active
  <2>5. CASE CloseResources
    <3>1. workerPc = "exited" /\ queue = <<>>
      BY <2>5 DEF CloseResources, NoUseAfterClose, PhaseInv
    <3>2. Service!Owed = {}
      BY <3>1 DEF Service!Owed
    <3>3. Service!GoDown
      BY <2>1, <2>5, <3>2 DEF CloseResources, Service!GoDown, workerVars, clientVars
    <3> QED
      BY <3>3 DEF Service!Next
  <2>6. ASSUME NEW c \in Client,
               \/ AcceptReturns(c) \/ Connect(c) \/ ParseOk(c) \/ TestDone(c)
               \/ CloseSocket(c) \/ ClientDone(c)
        PROVE  UNCHANGED Service!vars
    BY <1>1, <2>6 DEF AcceptReturns, Connect, ParseOk, TestDone, CloseSocket,
       ClientDone, workerVars, Active
  <2>7. ASSUME NEW c \in Client, ~JobAlive(c) PROVE c \notin Service!Owed
    BY <2>7 DEF Service!Owed, NoDanglingJob
  <2>8. ASSUME NEW c \in Client, AnswerDirectly(c) \/ EnqueueRefused(c)
        PROVE  Service!Next
    <3>1. answer[c] = "none" /\ ~JobAlive(c)
      BY <2>8 DEF AnswerDirectly, EnqueueRefused, AnswerInv, NotStarted, JobAlive
    <3>2. Service!Refuse(c)
      BY <2>1, <2>7, <2>8, <3>1
      DEF AnswerDirectly, EnqueueRefused, Service!Refuse, workerVars
    <3> QED
      BY <3>2 DEF Service!Next
  <2>9. ASSUME NEW c \in Client, Enqueue(c) PROVE Service!Next
    <3>1. answer[c] = "none" /\ ~JobAlive(c)
      BY <2>9 DEF Enqueue, AnswerInv, NotStarted, JobAlive
    <3>2. Active' = Active
      BY <2>9 DEF Enqueue, WakeWorker, Active
    <3>3. Service!Admit(c)
      BY <2>1, <2>7, <2>9, <3>1, <3>2 DEF Enqueue, Pushed, Active, Service!Admit
    <3> QED
      BY <3>3 DEF Service!Next
  <2>10. CASE DequeueJob
    <3>1. Service!Start
      BY <2>1, <2>10 DEF DequeueJob, clientVars, Service!Start
    <3> QED
      BY <3>1 DEF Service!Next
  <2>11. CASE Generate
    <3>1. workerJob \in Client /\ workerJob # NoJob /\ answer[workerJob] = "none"
      BY <2>11, ClientAssumption DEF Generate, TypeOK, AnswerInv
    <3>2. Service!Serve
      BY <2>1, <2>11, <3>1 DEF Generate, Service!Serve
    <3> QED
      BY <3>2 DEF Service!Next
  <2>12. CASE WaitForJob \/ WorkerExits \/ FinishJob
    BY <1>1, <2>12 DEF WaitForJob, WorkerExits, FinishJob, clientVars, Active
  <2>13. CASE SpuriousWakeup
    BY <1>1, <2>13 DEF SpuriousWakeup, Active
  <2> QED
    BY <1>3, <2>2, <2>3, <2>4, <2>5, <2>6, <2>8, <2>9, <2>10, <2>11, <2>12, <2>13
    DEF Running, MainStep, ClientStep, WorkerStep
<1> QED
  BY <1>2, <1>3 DEF Next

\* The accept loop, the client threads and the worker together are the
\* one-at-a-time FIFO service, for any number of clients and any signals.
THEOREM ThreadsImplementService == Spec => ImplementsService
<1>1. Init => Service!Init
  BY DEF Init, Service!Init
<1> QED
  BY <1>1, ServiceStep, Invariance, PTL DEF Spec, ImplementsService, Service!Spec
=============================================================================
