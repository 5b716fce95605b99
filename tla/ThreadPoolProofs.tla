-------------------------- MODULE ThreadPoolProofs --------------------------
(***************************************************************************)
(* Proofs about the worker pool for every number of threads, every job     *)
(* size and every modulus of the generation count.                         *)
(***************************************************************************)
EXTENDS ThreadPool, FiniteSetTheorems, TLAPS

-----------------------------------------------------------------------------
(***************************************************************************)
(* The slices of a job.                                                    *)
(***************************************************************************)
LEMMA DivBounds ==
  ASSUME NEW a \in Nat, NEW b \in Nat \ {0}
  PROVE  a \div b \in Nat /\ b * (a \div b) <= a /\ a < b * (a \div b) + b
OBVIOUS

LEMMA TimesMonotone ==
  ASSUME NEW a \in Nat, NEW b \in Nat, NEW c \in Nat, a <= b
  PROVE  a * c <= b * c
OBVIOUS

LEMMA RowsPerThreadType ==
  ASSUME NEW n \in Nat
  PROVE  RowsPerThread(n) \in Nat /\ n <= NThreads * RowsPerThread(n)
<1>1. NThreads \in Nat \ {0}
  BY NThreadsAssumption
<1>2. n + NThreads - 1 \in Nat
  BY <1>1
<1> QED BY <1>1, <1>2, DivBounds DEF RowsPerThread

\* No row belongs to two threads.
LEMMA SlicesDisjoint ==
  ASSUME NEW n \in Nat, NEW t \in Nat, NEW u \in Nat, t # u,
         NEW r \in Slice(t, n)
  PROVE  r \notin Slice(u, n)
<1>1. RowsPerThread(n) \in Nat
  BY RowsPerThreadType
<1>2. ASSUME NEW a \in Nat, NEW b \in Nat, a < b
      PROVE  a * RowsPerThread(n) + RowsPerThread(n) <= b * RowsPerThread(n)
  <2>1. (a + 1) * RowsPerThread(n) <= b * RowsPerThread(n)
    BY <1>1, <1>2, TimesMonotone
  <2> QED BY <1>1, <2>1
<1>3. t < u \/ u < t
  OBVIOUS
<1>4. t * RowsPerThread(n) \in Nat /\ u * RowsPerThread(n) \in Nat /\ r \in Int
  BY <1>1 DEF Slice
<1> QED BY <1>1, <1>2, <1>3, <1>4 DEF Slice

\* Every row of the job belongs to a thread of the pool: rounding up leaves
\* none over, and the last thread is not given more than there is.
THEOREM SlicesCoverTheJob ==
  ASSUME NEW n \in Nat, NEW r \in 0 .. n - 1
  PROVE  \E t \in 0 .. NThreads - 1 : r \in Slice(t, n)
<1> DEFINE R == RowsPerThread(n)
           t == r \div R
<1>1. R \in Nat /\ n <= NThreads * R /\ NThreads \in Nat
  BY RowsPerThreadType, NThreadsAssumption
<1>2. R # 0 /\ r \in Nat
  BY <1>1
<1>3. t \in Nat /\ R * t <= r /\ r < R * t + R
  <2> HIDE DEF R
  <2> QED BY <1>1, <1>2, DivBounds
<1>4. t < NThreads
  <2> SUFFICES ASSUME NThreads <= t PROVE FALSE
    BY <1>1, <1>3
  <2>1. NThreads * R <= t * R
    BY <1>1, <1>3, TimesMonotone
  <2>2. t * R = R * t
    BY <1>1, <1>3
  <2> HIDE DEF R, t
  <2> QED BY <1>1, <1>3, <2>1, <2>2
<1>5. t * R = R * t
  BY <1>1, <1>3
<1>6. r \in Slice(t, n)
  BY <1>3, <1>5 DEF Slice
<1> QED BY <1>1, <1>3, <1>4, <1>6

-----------------------------------------------------------------------------
(***************************************************************************)
(* The inductive invariant.                                                *)
(***************************************************************************)
Sharing == caller \in {"compute", "wait", "asleep"}

\* A worker that is done with the job whose generation is the pool's.
Finished == {w \in Worker : worker[w] \in {"check", "asleep"} /\ seen[w] = generation}

\* A worker that has not looked at the job yet, and one that is at it.
Late == {w \in Worker : worker[w] = "check" /\ seen[w] # generation}
Busy == {w \in Worker : worker[w] \in {"compute", "finish"} /\ seen[w] = generation
                                                          /\ slice[w] = asked}

\* The flags say where the caller is.
FlagsOK ==
  /\ ~initialized => /\ caller = "idle" /\ generation = 0
                     /\ \A w \in Worker : worker[w] = "none"
  /\ shutdown <=> caller = "join"

\* Between calls every worker has seen the last job and is back at the wait.
QuietOK ==
  initialized /\ caller \in {"idle", "called", "return"} => Finished = Worker

\* During a call every worker is late, at it or finished, and the finished ones
\* are counted.
SharingOK ==
  Sharing => /\ nRows = asked
             /\ \A w \in Worker : w \in Late \/ w \in Busy \/ w \in Finished
             /\ done = Cardinality(Finished)

JoinOK ==
  caller = "join" => \A w \in Worker : worker[w] \in {"check", "exited"}

\* The threads that have computed their slice of the job.
HasComputed(t) ==
  IF t = 0 THEN caller # "compute"
           ELSE worker[t] = "finish" \/ t \in Finished

CountsOK ==
  /\ computed \in [0 .. asked - 1 -> Nat]
  /\ caller = "called" => \A r \in 0 .. asked - 1 : computed[r] = 0
  /\ caller = "return" => \A r \in 0 .. asked - 1 : computed[r] = 1
  /\ Sharing => \A t \in 0 .. NThreads - 1 : \A r \in Slice(t, asked) :
                  computed[r] = IF HasComputed(t) THEN 1 ELSE 0

IInv == TypeOK /\ FlagsOK /\ QuietOK /\ SharingOK /\ JoinOK /\ CountsOK

-----------------------------------------------------------------------------
LEMMA WorkerCount ==
  /\ NThreads \in Nat /\ NThreads - 1 \in Nat
  /\ IsFiniteSet(Worker) /\ Cardinality(Worker) = NThreads - 1
  /\ \A w \in Worker : w \in Nat /\ w # 0 /\ w \in 0 .. NThreads - 1
<1>1. NThreads \in Nat \ {0}
  BY NThreadsAssumption
<1>2. CASE NThreads = 1
  <2>1. Worker = {}
    BY <1>2 DEF Worker
  <2> QED BY <1>2, <2>1, FS_EmptySet
<1>3. CASE NThreads # 1
  <2>1. IsFiniteSet(1 .. NThreads - 1) /\ Cardinality(1 .. NThreads - 1) = NThreads - 1
    <3>1. 1 \in Int /\ NThreads - 1 \in Int /\ 1 <= NThreads - 1
      BY <1>1, <1>3
    <3> HIDE <1>1
    <3>2. /\ IsFiniteSet(1 .. NThreads - 1)
          /\ Cardinality(1 .. NThreads - 1) = NThreads - 1 - 1 + 1
      BY <3>1, FS_Interval
    <3> QED BY <3>1, <3>2
  <2> QED BY <1>1, <2>1 DEF Worker
<1> QED BY <1>2, <1>3

\* A new generation is one that no worker has seen.
LEMMA BumpIsNew ==
  ASSUME NEW g \in 0 .. GenerationMod - 1
  PROVE  Bump(g) \in 0 .. GenerationMod - 1 /\ Bump(g) # g
<1>1. GenerationMod \in Nat /\ GenerationMod # 0 /\ GenerationMod # 1
  BY GenerationAssumption
<1> QED BY <1>1 DEF Bump

\* A worker at a job is at the job of the call in progress.
LEMMA WorkerRuns ==
  ASSUME IInv, NEW w \in Worker, worker[w] \in {"compute", "finish"}
  PROVE  Sharing /\ w \in Busy
<1>1. w \notin Finished /\ w \notin Late
  BY DEF Finished, Late
<1>2. initialized
  BY DEF IInv, FlagsOK
<1>3. caller # "join"
  BY DEF IInv, JoinOK
<1>4. Sharing
  BY <1>1, <1>2, <1>3 DEF IInv, TypeOK, QuietOK, Sharing
<1> QED BY <1>1, <1>4 DEF IInv, SharingOK

\* A worker that finds a new generation finds the job of the call in progress.
LEMMA WorkerFindsJob ==
  ASSUME IInv, NEW w \in Worker, worker[w] = "check", seen[w] # generation, ~shutdown
  PROVE  Sharing /\ w \in Late
<1>1. w \notin Finished /\ w \in Late
  BY DEF Finished, Late
<1>2. initialized /\ caller # "join"
  BY DEF IInv, FlagsOK
<1>3. Sharing
  BY <1>1, <1>2 DEF IInv, TypeOK, QuietOK, Sharing
<1> QED BY <1>1, <1>3

LEMMA IInvInit == Init => IInv
<1> SUFFICES ASSUME Init PROVE IInv
  OBVIOUS
<1>1. 0 \in 0 .. GenerationMod - 1 /\ 0 \in 0 .. NThreads - 1
  BY WorkerCount, GenerationAssumption
<1>2. TypeOK
  BY <1>1 DEF Init, TypeOK
<1>3. computed \in [0 .. asked - 1 -> Nat]
  <2>1. 0 .. 0 - 1 = {}
    OBVIOUS
  <2>2. computed = [r \in {} |-> 0]
    BY DEF Init
  <2> QED BY <2>1, <2>2 DEF Init
<1> QED BY <1>2, <1>3 DEF Init, IInv, FlagsOK, QuietOK, SharingOK, JoinOK, CountsOK,
                         Sharing

-----------------------------------------------------------------------------
(***************************************************************************)
(* Every action preserves the invariant: the caller's.                     *)
(***************************************************************************)

\* Computing a slice counts its rows once more, and no other thread's.
LEMMA ComputeCounts ==
  ASSUME asked \in Nat, computed \in [0 .. asked - 1 -> Nat],
         NEW t \in 0 .. NThreads - 1, Compute(Slice(t, asked))
  PROVE  /\ computed' \in [0 .. asked - 1 -> Nat]
         /\ \A r \in Slice(t, asked) : computed'[r] = computed[r] + 1
         /\ \A u \in 0 .. NThreads - 1 : \A r \in Slice(u, asked) :
              u # t => computed'[r] = computed[r]
<1>1. DOMAIN computed = 0 .. asked - 1 /\ \A r \in 0 .. asked - 1 : computed[r] \in Nat
  OBVIOUS
<1>2. t \in Nat /\ \A u \in 0 .. NThreads - 1 : u \in Nat
  BY WorkerCount
<1>3. \A u : Slice(u, asked) \subseteq 0 .. asked - 1
  BY DEF Slice
<1>4. \A u \in 0 .. NThreads - 1 : \A r \in Slice(u, asked) :
        u # t => r \notin Slice(t, asked)
  BY <1>2, SlicesDisjoint
<1>5. \A r \in 0 .. asked - 1 : computed'[r] = IF r \in Slice(t, asked)
                                               THEN computed[r] + 1 ELSE computed[r]
  BY <1>1 DEF Compute
<1>6. computed' = [r \in 0 .. asked - 1 |-> IF r \in Slice(t, asked)
                                             THEN computed[r] + 1 ELSE computed[r]]
  BY <1>1 DEF Compute
<1>7. computed' \in [0 .. asked - 1 -> Nat]
  BY <1>1, <1>6
<1> QED BY <1>3, <1>4, <1>5, <1>7

LEMMA CallOK == ASSUME IInv, NEW n \in RowCounts, Call(n) PROVE IInv'
<1>1. n \in Nat
  BY RowsAssumption
<1>2. 0 \in 0 .. GenerationMod - 1
  BY GenerationAssumption
<1>3. TypeOK'
  BY <1>1, <1>2 DEF Call, IInv, TypeOK
<1>4. FlagsOK' /\ SharingOK' /\ JoinOK'
  BY DEF Call, IInv, FlagsOK, SharingOK, JoinOK, Sharing
<1>5. QuietOK'
  <2>1. CASE initialized
    BY <2>1 DEF Call, IInv, QuietOK, Finished
  <2>2. CASE ~initialized
    <3>1. generation' = 0
      BY <2>2 DEF Call, IInv, FlagsOK
    <3>2. \A w \in Worker : worker'[w] = "check" /\ seen'[w] = 0
      BY <2>2 DEF Call
    <3> QED BY <3>1, <3>2 DEF QuietOK, Finished
  <2> QED BY <2>1, <2>2
<1>6. CountsOK'
  <2>1. computed' = [r \in 0 .. n - 1 |-> 0] /\ asked' = n /\ caller' = "called"
    BY DEF Call
  <2>2. computed' \in [0 .. asked' - 1 -> Nat] /\ \A r \in 0 .. asked' - 1 : computed'[r] = 0
    BY <1>1, <2>1
  <2> QED BY <2>1, <2>2 DEF CountsOK, Sharing
<1> QED BY <1>3, <1>4, <1>5, <1>6 DEF IInv

LEMMA RunSeriallyOK == ASSUME IInv, NEW min, RunSerially(min) PROVE IInv'
<1>1. TypeOK'
  BY DEF RunSerially, IInv, TypeOK, pool
<1>2. FlagsOK' /\ SharingOK' /\ JoinOK'
  BY DEF RunSerially, IInv, FlagsOK, SharingOK, JoinOK, Sharing, pool
<1>3. QuietOK'
  BY DEF RunSerially, IInv, QuietOK, Finished, pool
<1>4. CountsOK'
  <2>1. asked \in Nat /\ computed \in [0 .. asked - 1 -> Nat]
        /\ \A r \in 0 .. asked - 1 : computed[r] = 0
    BY DEF RunSerially, IInv, TypeOK, CountsOK
  <2>2. computed' = [r \in 0 .. asked - 1 |-> 1]
    BY <2>1 DEF RunSerially, Compute
  <2>3. caller' = "return" /\ asked' = asked
    BY DEF RunSerially
  <2> QED BY <2>1, <2>2, <2>3 DEF CountsOK, Sharing
<1> QED BY <1>1, <1>2, <1>3, <1>4 DEF IInv

LEMMA PostOK == ASSUME IInv, NEW min, Post(min) PROVE IInv'
<1>1. 0 \in 0 .. NThreads - 1
  BY WorkerCount
<1>2. generation \in 0 .. GenerationMod - 1 /\ generation' = Bump(generation)
  BY DEF Post, IInv, TypeOK
<1>3. generation' \in 0 .. GenerationMod - 1 /\ generation' # generation
  BY <1>2, BumpIsNew
<1>4. Finished = Worker
  BY DEF Post, IInv, QuietOK, FlagsOK
<1>5. \A w \in Worker : worker'[w] = "check" /\ seen'[w] # generation'
  BY <1>3, <1>4 DEF Post, WakeWorkers, Finished
<1>6. TypeOK'
  BY <1>1, <1>3 DEF Post, IInv, TypeOK, WakeWorkers, history
<1>7. FlagsOK' /\ QuietOK' /\ JoinOK'
  BY DEF Post, IInv, FlagsOK, QuietOK, JoinOK
<1>8. SharingOK'
  <2>1. Finished' = {} /\ \A w \in Worker : w \in Late'
    BY <1>5 DEF Finished, Late
  <2>2. done' = Cardinality(Finished')
    BY <2>1, FS_EmptySet DEF Post
  <2> QED BY <2>1, <2>2 DEF Post, SharingOK, history
<1>9. CountsOK'
  <2>1. \A t \in 0 .. NThreads - 1 : ~HasComputed(t)'
    <3> SUFFICES ASSUME NEW t \in 0 .. NThreads - 1, t # 0
                 PROVE  ~HasComputed(t)'
      BY DEF Post, HasComputed
    <3>1. t \in Worker
      BY WorkerCount DEF Worker
    <3> QED BY <1>5, <3>1 DEF HasComputed, Finished
  <2>2. \A t : Slice(t, asked) \subseteq 0 .. asked - 1
    BY DEF Slice
  <2>3. computed' = computed /\ asked' = asked /\ caller' = "compute"
        /\ computed \in [0 .. asked - 1 -> Nat]
        /\ \A r \in 0 .. asked - 1 : computed[r] = 0
    BY DEF Post, IInv, CountsOK, history
  <2> QED BY <2>1, <2>2, <2>3 DEF CountsOK
<1> QED BY <1>6, <1>7, <1>8, <1>9 DEF IInv

LEMMA ComputeOwnSliceOK == ASSUME IInv, ComputeOwnSlice PROVE IInv'
<1>1. TypeOK'
  BY DEF ComputeOwnSlice, IInv, TypeOK, pool
<1>2. FlagsOK' /\ QuietOK' /\ JoinOK'
  BY DEF ComputeOwnSlice, IInv, FlagsOK, QuietOK, JoinOK, pool
<1>3. SharingOK'
  BY DEF ComputeOwnSlice, IInv, SharingOK, Sharing, Late, Busy, Finished, pool
<1>4. CountsOK'
  <2>1. 0 \in 0 .. NThreads - 1
    BY WorkerCount
  <2>2. /\ asked \in Nat /\ computed \in [0 .. asked - 1 -> Nat] /\ Sharing
        /\ ~HasComputed(0)
        /\ \A t \in 0 .. NThreads - 1 : \A r \in Slice(t, asked) :
              computed[r] = IF HasComputed(t) THEN 1 ELSE 0
    BY DEF ComputeOwnSlice, IInv, TypeOK, CountsOK, Sharing, HasComputed
  <2>3. /\ computed' \in [0 .. asked - 1 -> Nat]
        /\ \A r \in Slice(0, asked) : computed'[r] = computed[r] + 1
        /\ \A u \in 0 .. NThreads - 1 : \A r \in Slice(u, asked) :
             u # 0 => computed'[r] = computed[r]
    BY <2>1, <2>2, ComputeCounts DEF ComputeOwnSlice
  <2>4. HasComputed(0)' /\ \A t \in 0 .. NThreads - 1 : t # 0 => (HasComputed(t)' <=> HasComputed(t))
    BY DEF ComputeOwnSlice, HasComputed, Finished, pool
  <2>5. asked' = asked /\ caller' = "wait"
    BY DEF ComputeOwnSlice
  <2>6. ASSUME NEW t \in 0 .. NThreads - 1, NEW r \in Slice(t, asked)
        PROVE  computed'[r] = IF HasComputed(t)' THEN 1 ELSE 0
    <3>1. CASE t = 0
      BY <2>1, <2>2, <2>3, <2>4, <3>1
    <3>2. CASE t # 0
      BY <2>2, <2>3, <2>4, <3>2
    <3> QED BY <3>1, <3>2
  <2> QED BY <2>3, <2>5, <2>6 DEF CountsOK
<1> QED BY <1>1, <1>2, <1>3, <1>4 DEF IInv

\* The caller goes on when every worker is counted, and then every row of the
\* job has been computed once.
LEMMA AllFinished ==
  ASSUME IInv, caller = "wait", ~(done < NThreads - 1)
  PROVE  Finished = Worker /\ \A r \in 0 .. asked - 1 : computed[r] = 1
<1>1. Finished = Worker
  <2>1. IsFiniteSet(Finished) /\ Cardinality(Finished) \in Nat
        /\ Cardinality(Finished) <= NThreads - 1
        /\ (Cardinality(Finished) = NThreads - 1 => Finished = Worker)
    BY WorkerCount, FS_Subset, FS_CardinalityType DEF Finished
  <2>2. done = Cardinality(Finished)
    BY DEF IInv, SharingOK, Sharing
  <2> QED BY WorkerCount, <2>1, <2>2
<1>2. ASSUME NEW r \in 0 .. asked - 1
      PROVE  computed[r] = 1
  <2>1. asked \in Nat
    BY DEF IInv, TypeOK
  <2>2. PICK t \in 0 .. NThreads - 1 : r \in Slice(t, asked)
    BY <2>1, SlicesCoverTheJob
  <2>3. t = 0 \/ t \in Worker
    BY WorkerCount DEF Worker
  <2>4. HasComputed(t)
    BY <1>1, <2>3 DEF HasComputed
  <2> QED BY <2>2, <2>4 DEF IInv, CountsOK, Sharing
<1> QED BY <1>1, <1>2

LEMMA AwaitWorkersOK == ASSUME IInv, AwaitWorkers PROVE IInv'
<1>1. TypeOK'
  BY DEF AwaitWorkers, IInv, TypeOK, pool, history
<1>2. FlagsOK' /\ JoinOK'
  BY DEF AwaitWorkers, IInv, FlagsOK, JoinOK, pool
<1>3. CASE done < NThreads - 1
  <2>1. QuietOK' /\ SharingOK'
    BY <1>3 DEF AwaitWorkers, IInv, QuietOK, SharingOK, Sharing, Late, Busy, Finished,
                pool, history
  <2>2. CountsOK'
    BY <1>3 DEF AwaitWorkers, IInv, CountsOK, Sharing, HasComputed, Finished, pool, history
  <2> QED BY <1>1, <1>2, <2>1, <2>2 DEF IInv
<1>4. CASE ~(done < NThreads - 1)
  <2>1. Finished = Worker /\ \A r \in 0 .. asked - 1 : computed[r] = 1
    BY <1>4, AllFinished DEF AwaitWorkers
  <2>2. caller' = "return" /\ UNCHANGED <<pool, worker, seen, slice, history>>
    BY <1>4 DEF AwaitWorkers
  <2>3. QuietOK' /\ SharingOK'
    BY <2>1, <2>2 DEF QuietOK, SharingOK, Sharing, Finished, pool
  <2>4. CountsOK'
    BY <2>1, <2>2 DEF IInv, CountsOK, Sharing, history
  <2> QED BY <1>1, <1>2, <2>3, <2>4 DEF IInv
<1> QED BY <1>3, <1>4

LEMMA CallerWakesOK == ASSUME IInv, CallerWakes PROVE IInv'
<1>1. TypeOK' /\ FlagsOK' /\ QuietOK' /\ JoinOK'
  BY DEF CallerWakes, IInv, TypeOK, FlagsOK, QuietOK, JoinOK, pool, history
<1>2. SharingOK'
  BY DEF CallerWakes, IInv, SharingOK, Sharing, Late, Busy, Finished, pool, history
<1>3. CountsOK'
  BY DEF CallerWakes, IInv, CountsOK, Sharing, HasComputed, Finished, pool, history
<1> QED BY <1>1, <1>2, <1>3 DEF IInv

LEMMA ReturnOK == ASSUME IInv, Return PROVE IInv'
<1>1. TypeOK' /\ FlagsOK' /\ JoinOK' /\ SharingOK'
  BY DEF Return, IInv, TypeOK, FlagsOK, SharingOK, Sharing, JoinOK, pool, history
<1>2. QuietOK'
  BY DEF Return, IInv, QuietOK, Finished, pool
<1>3. CountsOK'
  BY DEF Return, IInv, CountsOK, Sharing, history
<1> QED BY <1>1, <1>2, <1>3 DEF IInv

LEMMA ShutdownOK == ASSUME IInv, Shutdown PROVE IInv'
<1>1. generation' \in 0 .. GenerationMod - 1
  BY BumpIsNew DEF Shutdown, IInv, TypeOK
<1>2. \A w \in Worker : worker'[w] = "check"
  BY DEF Shutdown, IInv, QuietOK, Finished, WakeWorkers
<1>3. TypeOK'
  BY <1>1 DEF Shutdown, IInv, TypeOK, WakeWorkers, history
<1>4. FlagsOK' /\ QuietOK' /\ SharingOK' /\ CountsOK'
  BY DEF Shutdown, IInv, FlagsOK, QuietOK, SharingOK, CountsOK, Sharing, history
<1>5. JoinOK'
  BY <1>2 DEF JoinOK
<1> QED BY <1>3, <1>4, <1>5 DEF IInv

LEMMA JoinedOK == ASSUME IInv, Joined PROVE IInv'
<1>1. 0 \in 0 .. GenerationMod - 1 /\ 0 \in 0 .. NThreads - 1
  BY WorkerCount, GenerationAssumption
<1>2. TypeOK'
  BY <1>1 DEF Joined, IInv, TypeOK, history
<1>3. FlagsOK' /\ QuietOK' /\ SharingOK' /\ CountsOK' /\ JoinOK'
  BY DEF Joined, IInv, FlagsOK, QuietOK, SharingOK, CountsOK, JoinOK, Sharing, history
<1> QED BY <1>2, <1>3 DEF IInv

-----------------------------------------------------------------------------
(***************************************************************************)
(* Every action preserves the invariant: a worker's.                       *)
(***************************************************************************)

\* Going to sleep and waking up change nothing that the invariant counts.
LEMMA SleepOK == ASSUME IInv, NEW w \in Worker, Sleep(w) PROVE IInv'
<1>1. Finished' = Finished /\ Late' = Late /\ Busy' = Busy
  BY DEF Sleep, IInv, TypeOK, Finished, Late, Busy, pool, history
<1>2. TypeOK' /\ FlagsOK' /\ JoinOK'
  BY DEF Sleep, IInv, TypeOK, FlagsOK, JoinOK, pool, history
<1>3. QuietOK' /\ SharingOK'
  BY <1>1 DEF Sleep, IInv, QuietOK, SharingOK, Sharing, pool, history
<1>4. CountsOK'
  <2>1. \A t : HasComputed(t)' <=> HasComputed(t)
    BY <1>1 DEF Sleep, IInv, TypeOK, HasComputed
  <2> QED BY <2>1 DEF Sleep, IInv, CountsOK, Sharing, history
<1> QED BY <1>2, <1>3, <1>4 DEF IInv

LEMMA WorkerWakesOK == ASSUME IInv, NEW w \in Worker, WorkerWakes(w) PROVE IInv'
<1>1. Finished' = Finished /\ Busy' = Busy /\ Late \subseteq Late'
  BY DEF WorkerWakes, IInv, TypeOK, Finished, Late, Busy, pool, history
<1>2. TypeOK' /\ FlagsOK' /\ JoinOK'
  BY DEF WorkerWakes, IInv, TypeOK, FlagsOK, JoinOK, pool, history
<1>3. QuietOK' /\ SharingOK'
  BY <1>1 DEF WorkerWakes, IInv, QuietOK, SharingOK, Sharing, pool, history
<1>4. CountsOK'
  <2>1. \A t : HasComputed(t)' <=> HasComputed(t)
    BY <1>1 DEF WorkerWakes, IInv, TypeOK, HasComputed
  <2> QED BY <2>1 DEF WorkerWakes, IInv, CountsOK, Sharing, history
<1> QED BY <1>2, <1>3, <1>4 DEF IInv

LEMMA ExitOK == ASSUME IInv, NEW w \in Worker, Exit(w) PROVE IInv'
<1>1. caller = "join"
  BY DEF Exit, IInv, FlagsOK
<1>2. TypeOK' /\ FlagsOK' /\ JoinOK'
  BY DEF Exit, IInv, TypeOK, FlagsOK, JoinOK, pool, history
<1>3. QuietOK' /\ SharingOK' /\ CountsOK'
  BY <1>1 DEF Exit, IInv, QuietOK, SharingOK, CountsOK, Sharing, pool, history
<1> QED BY <1>2, <1>3 DEF IInv

LEMMA TakeOK == ASSUME IInv, NEW w \in Worker, Take(w) PROVE IInv'
<1>1. Sharing /\ w \in Late
  BY WorkerFindsJob DEF Take
<1>2. nRows = asked
  BY <1>1 DEF IInv, SharingOK
<1>3. Finished' = Finished /\ Late' = Late \ {w} /\ Busy' = Busy \cup {w}
  BY <1>2 DEF Take, IInv, TypeOK, Finished, Late, Busy, pool, history
<1>4. TypeOK' /\ FlagsOK' /\ JoinOK'
  BY <1>1 DEF Take, IInv, TypeOK, FlagsOK, JoinOK, Sharing, pool, history
<1>5. QuietOK' /\ SharingOK'
  BY <1>1, <1>3 DEF Take, IInv, QuietOK, SharingOK, Sharing, pool, history
<1>6. CountsOK'
  <2>1. \A t : HasComputed(t)' <=> HasComputed(t)
    BY <1>3 DEF Take, IInv, TypeOK, HasComputed
  <2> QED BY <2>1 DEF Take, IInv, CountsOK, Sharing, history
<1> QED BY <1>4, <1>5, <1>6 DEF IInv

LEMMA ComputeSliceOK == ASSUME IInv, NEW w \in Worker, ComputeSlice(w) PROVE IInv'
<1>1. Sharing /\ w \in Busy /\ slice[w] = asked
  BY WorkerRuns DEF ComputeSlice, Busy
<1>2. Finished' = Finished /\ Late' = Late /\ Busy' = Busy
  BY DEF ComputeSlice, IInv, TypeOK, Finished, Late, Busy, pool
<1>3. TypeOK' /\ FlagsOK' /\ JoinOK'
  BY <1>1 DEF ComputeSlice, IInv, TypeOK, FlagsOK, JoinOK, Sharing, pool
<1>4. QuietOK' /\ SharingOK'
  BY <1>1, <1>2 DEF ComputeSlice, IInv, QuietOK, SharingOK, Sharing, pool
<1>5. CountsOK'
  <2>1. w \in 0 .. NThreads - 1 /\ w # 0
    BY WorkerCount
  <2>2. /\ asked \in Nat /\ computed \in [0 .. asked - 1 -> Nat]
        /\ \A t \in 0 .. NThreads - 1 : \A r \in Slice(t, asked) :
              computed[r] = IF HasComputed(t) THEN 1 ELSE 0
    BY <1>1 DEF IInv, TypeOK, CountsOK
  <2>3. ~HasComputed(w)
    BY <1>1, <2>1 DEF ComputeSlice, HasComputed, Finished
  <2>4. /\ computed' \in [0 .. asked - 1 -> Nat]
        /\ \A r \in Slice(w, asked) : computed'[r] = computed[r] + 1
        /\ \A u \in 0 .. NThreads - 1 : \A r \in Slice(u, asked) :
             u # w => computed'[r] = computed[r]
    BY <1>1, <2>1, <2>2, ComputeCounts DEF ComputeSlice
  <2>5. HasComputed(w)' /\ \A t \in 0 .. NThreads - 1 : t # w => (HasComputed(t)' <=> HasComputed(t))
    BY <1>2, <2>1 DEF ComputeSlice, IInv, TypeOK, HasComputed
  <2>6. asked' = asked /\ Sharing' /\ caller' = caller
    BY <1>1 DEF ComputeSlice, Sharing
  <2>7. ASSUME NEW t \in 0 .. NThreads - 1, NEW r \in Slice(t, asked)
        PROVE  computed'[r] = IF HasComputed(t)' THEN 1 ELSE 0
    <3>1. CASE t = w
      BY <2>1, <2>2, <2>3, <2>4, <2>5, <3>1
    <3>2. CASE t # w
      BY <2>2, <2>4, <2>5, <3>2
    <3> QED BY <3>1, <3>2
  <2> QED BY <1>1, <2>4, <2>6, <2>7 DEF CountsOK, Sharing
<1> QED BY <1>3, <1>4, <1>5 DEF IInv

LEMMA FinishOK == ASSUME IInv, NEW w \in Worker, Finish(w) PROVE IInv'
<1>1. Sharing /\ w \in Busy
  BY WorkerRuns DEF Finish
<1>2. Finished' = Finished \cup {w} /\ Late' = Late /\ Busy' = Busy \ {w}
  BY <1>1 DEF Finish, IInv, TypeOK, Finished, Late, Busy, history
<1>3. w \notin Finished
  BY DEF Finish, Finished
<1>4. done = Cardinality(Finished)
  BY <1>1 DEF IInv, SharingOK
<1>5. IsFiniteSet(Finished) /\ done' = Cardinality(Finished')
  <2>1. IsFiniteSet(Finished)
    BY WorkerCount, FS_Subset DEF Finished
  <2> QED BY <1>2, <1>3, <1>4, <2>1, FS_AddElement DEF Finish
<1>6. done' \in 0 .. NThreads - 1
  <2>1. IsFiniteSet(Finished') /\ Cardinality(Finished') <= NThreads - 1
        /\ Finished' \subseteq Worker
    BY <1>2, WorkerCount, FS_Subset DEF Finished
  <2>2. Cardinality(Finished') \in Nat
    BY <2>1, FS_CardinalityType
  <2> QED BY <1>5, <2>1, <2>2, WorkerCount
<1>7. Sharing' /\ (caller' = "compute" <=> caller = "compute")
  BY <1>1 DEF Finish, Sharing
<1>8. TypeOK'
  BY <1>6, <1>7 DEF Finish, IInv, TypeOK, Sharing, history
<1>9. FlagsOK' /\ QuietOK' /\ JoinOK'
  BY <1>1, <1>7 DEF Finish, IInv, FlagsOK, QuietOK, JoinOK, Sharing
<1>10. SharingOK'
  BY <1>1, <1>2, <1>5 DEF Finish, IInv, SharingOK, history
<1>11. CountsOK'
  <2>1. \A t : HasComputed(t)' <=> HasComputed(t)
    BY <1>2, <1>3, <1>7 DEF Finish, IInv, TypeOK, HasComputed
  <2> QED BY <1>1, <1>7, <2>1 DEF Finish, IInv, CountsOK, Sharing, history
<1> QED BY <1>8, <1>9, <1>10, <1>11 DEF IInv

-----------------------------------------------------------------------------
LEMMA IInvNext == IInv /\ [Next]_vars => IInv'
<1> SUFFICES ASSUME IInv, [Next]_vars PROVE IInv'
  OBVIOUS
<1>1. ASSUME NEW n \in RowCounts, Call(n) PROVE IInv'
  BY <1>1, CallOK
<1>2. CASE Shutdown
  BY <1>2, ShutdownOK
<1>3. CASE CallerSteps
  BY <1>3, RunSeriallyOK, PostOK, ComputeOwnSliceOK, AwaitWorkersOK, ReturnOK, JoinedOK
     DEF CallerSteps
<1>4. CASE CallerWakes
  BY <1>4, CallerWakesOK
<1>5. ASSUME NEW w \in Worker, WorkerSteps(w) \/ WorkerWakes(w) PROVE IInv'
  BY <1>5, SleepOK, ExitOK, TakeOK, ComputeSliceOK, FinishOK, WorkerWakesOK
     DEF WorkerSteps
<1>6. CASE UNCHANGED vars
  BY <1>6 DEF IInv, TypeOK, FlagsOK, QuietOK, SharingOK, JoinOK, CountsOK, Sharing,
              HasComputed, Late, Busy, Finished, vars, pool, history
<1> QED BY <1>1, <1>2, <1>3, <1>4, <1>5, <1>6 DEF Next

LEMMA Invariance == Spec => []IInv
<1> QED BY IInvInit, IInvNext, PTL DEF Spec

\* The pool's variables keep their types, and no more workers are counted than
\* there are, for any number of threads.
THEOREM TypeSafety == Spec => []TypeOK
<1>1. IInv => TypeOK
  BY DEF IInv
<1> QED BY <1>1, Invariance, PTL

\* No worker runs the function of a call that has returned, whose context was
\* on the caller's stack.
THEOREM NoWorkerLeftInJob == Spec => []JobOutlivesWorkers
<1>1. IInv => JobOutlivesWorkers
  BY WorkerRuns DEF JobOutlivesWorkers, Sharing, Busy
<1> QED BY <1>1, Invariance, PTL

-----------------------------------------------------------------------------
(***************************************************************************)
(* The pool implements RowJob.                                             *)
(***************************************************************************)
Computed == {r \in DOMAIN computed : computed[r] = 1}
Calling == caller \notin {"idle", "join"}

\* Rows that nobody had computed are added to those that were.
LEMMA ComputeAdds ==
  ASSUME computed \in [0 .. asked - 1 -> Nat], NEW rows,
         \A r \in rows : r \in DOMAIN computed => computed[r] = 0, Compute(rows)
  PROVE  Computed \subseteq Computed' /\ Computed' \subseteq 0 .. asked - 1
<1>1. DOMAIN computed' = DOMAIN computed /\ DOMAIN computed = 0 .. asked - 1
  BY DEF Compute
<1>2. \A r \in DOMAIN computed : computed[r] = 1 => computed'[r] = 1
  BY DEF Compute
<1> QED BY <1>1, <1>2 DEF Computed

\* A step that computes rows is a step of the abstract job.
LEMMA ComputeIsCompute ==
  ASSUME IInv, Calling, Calling', asked' = asked,
         NEW rows, \A r \in rows : r \in DOMAIN computed => computed[r] = 0, Compute(rows)
  PROVE  Job!Next
<1>1. computed \in [0 .. asked - 1 -> Nat]
  BY DEF IInv, CountsOK
<1>2. Computed \subseteq Computed' /\ Computed' \subseteq 0 .. asked - 1
  BY <1>1, ComputeAdds
<1>3. Job!Compute
  BY <1>2 DEF Job!Compute, Computed, Calling
<1> QED BY <1>3 DEF Job!Next

LEMMA StepRefines == IInv /\ [Next]_vars => [Job!Next]_(Job!vars)
<1> SUFFICES ASSUME IInv, [Next]_vars PROVE [Job!Next]_(Job!vars)
  OBVIOUS
<1>1. ASSUME NEW n \in RowCounts, Call(n) PROVE Job!Next
  <2>1. n \in Nat
    BY RowsAssumption
  <2>2. Computed' = {}
    BY <1>1 DEF Call, Computed
  <2>3. Job!Begin
    BY <1>1, <2>1, <2>2 DEF Call, Job!Begin, Computed
  <2> QED BY <2>3 DEF Job!Next
<1>2. ASSUME NEW min \in MinRows, RunSerially(min) PROVE Job!Next
  <2>1. \A r \in 0 .. asked - 1 : r \in DOMAIN computed => computed[r] = 0
    BY <1>2 DEF RunSerially, IInv, CountsOK
  <2>2. Calling /\ Calling' /\ asked' = asked
    BY <1>2 DEF RunSerially, Calling
  <2> QED BY <1>2, <2>1, <2>2, ComputeIsCompute DEF RunSerially
<1>3. CASE ComputeOwnSlice
  <2>1. Sharing /\ ~HasComputed(0) /\ 0 \in 0 .. NThreads - 1
    BY <1>3, WorkerCount DEF ComputeOwnSlice, Sharing, HasComputed
  <2>2. \A r \in Slice(0, asked) : computed[r] = 0
    BY <2>1 DEF IInv, CountsOK
  <2>3. Calling /\ Calling' /\ asked' = asked
    BY <1>3 DEF ComputeOwnSlice, Calling
  <2> QED BY <1>3, <2>2, <2>3, ComputeIsCompute DEF ComputeOwnSlice
<1>4. ASSUME NEW w \in Worker, ComputeSlice(w) PROVE Job!Next
  <2>1. Sharing /\ slice[w] = asked
    BY <1>4, WorkerRuns DEF ComputeSlice, Busy
  <2>2. w \in 0 .. NThreads - 1 /\ ~HasComputed(w)
    BY <1>4, WorkerCount DEF ComputeSlice, HasComputed, Finished
  <2>3. \A r \in Slice(w, asked) : computed[r] = 0
    BY <2>1, <2>2 DEF IInv, CountsOK
  <2>4. Calling /\ Calling' /\ asked' = asked
    BY <1>4, <2>1 DEF ComputeSlice, Calling, Sharing
  <2> QED BY <1>4, <2>1, <2>3, <2>4, ComputeIsCompute DEF ComputeSlice
<1>5. CASE Return
  <2>1. \A r \in 0 .. asked - 1 : computed[r] = 1
    BY <1>5 DEF Return, IInv, CountsOK
  <2>2. DOMAIN computed = 0 .. asked - 1
    BY DEF IInv, CountsOK
  <2>3. Job!Return
    BY <1>5, <2>1, <2>2 DEF Return, Job!Return, history
  <2> QED BY <2>3 DEF Job!Next
<1>6. CASE \/ \E min \in MinRows : Post(min)
           \/ AwaitWorkers \/ CallerWakes \/ Shutdown \/ Joined \/ UNCHANGED vars
  <2>1. Calling' = Calling /\ UNCHANGED <<computed, asked>>
    BY <1>6 DEF Post, AwaitWorkers, CallerWakes, Shutdown, Joined, vars, history, Calling
  <2> QED BY <2>1 DEF Job!vars, Calling
<1>7. ASSUME NEW w \in Worker,
             Sleep(w) \/ WorkerWakes(w) \/ Exit(w) \/ Take(w) \/ Finish(w)
      PROVE  UNCHANGED Job!vars
  <2>1. Calling' = Calling /\ UNCHANGED <<computed, asked>>
    BY <1>7 DEF Sleep, WorkerWakes, Exit, Take, Finish, history, Calling
  <2> QED BY <2>1 DEF Job!vars, Calling
<1> QED BY <1>1, <1>2, <1>3, <1>4, <1>5, <1>6, <1>7 DEF Next, CallerSteps, WorkerSteps

\* Whatever the number of threads and of rows, however the workers are delayed
\* and whenever the generations wrap: a call returns when each of its rows has
\* been computed by exactly one thread.
THEOREM Refinement == Spec => ImplementsRowJob
<1>1. Init => Job!Init
  BY DEF Init, Job!Init
<1>2. IInv /\ [Next]_vars => [Job!Next]_(Job!vars)
  BY StepRefines
<1> QED BY <1>1, <1>2, Invariance, PTL DEF Spec, ImplementsRowJob, Job!Spec
=============================================================================
