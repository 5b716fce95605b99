----------------------------- MODULE ThreadPool -----------------------------
(***************************************************************************)
(* The CPU worker pool of ds4.c.  One thread calls, NThreads - 1 workers   *)
(* wait for it.  A call that is worth sharing posts the job under a        *)
(* mutex, bumps the generation and wakes the workers; each worker takes    *)
(* its slice of the rows from its own number, computes it outside the      *)
(* mutex and adds itself to done; the caller computes the first slice and  *)
(* waits for the count.                                                    *)
(*                                                                         *)
(* An action is one critical section, from taking the mutex to releasing   *)
(* it or to sleeping on a condition variable, or one stretch of computing  *)
(* between two of them.  Everything the threads share is read and written  *)
(* under the mutex, except for what only the caller writes while no worker *)
(* exists.  A thread asleep on a condition runs again after a signal, or   *)
(* for no reason at all.  Calls made from inside a job run their rows in   *)
(* place (g_parallel_depth > 0) and change nothing here.                   *)
(***************************************************************************)
EXTENDS Integers, FiniteSets

CONSTANTS
  NThreads,      \* the threads of the pool, the caller among them
  GenerationMod, \* generations wrap here: 2^32 in the code
  RowCounts,     \* the job sizes that are asked for
  MinRows        \* the thresholds that callers set

ASSUME NThreadsAssumption == NThreads \in Nat \ {0}
ASSUME GenerationAssumption == GenerationMod \in Nat \ {0, 1}
ASSUME RowsAssumption == RowCounts \subseteq Nat /\ MinRows \subseteq Nat

Worker == 1 .. NThreads - 1

VARIABLES
  initialized, shutdown,  \* the pool's flags
  generation,             \* counts the jobs, and the shutdown
  nRows,                  \* the rows of the job that was posted last
  done,                   \* the workers that finished it
  caller,                 \* where the calling thread is
  worker,                 \* where each worker is
  seen,                   \* each worker's seen_generation
  slice,                  \* the rows a worker read its slice from
  computed,               \* history: how often each row was computed
  asked                   \* history: the rows of the call in progress

pool == <<initialized, shutdown, generation, nRows, done>>
history == <<computed, asked>>
vars == <<pool, caller, worker, seen, slice, history>>

-----------------------------------------------------------------------------
\* Rows t * share up to (t + 1) * share, cut off at the end of the job.
\* (mutant: rounded down, the last rows are nobody's)
RoundedDown(n) == n \div NThreads

RowsPerThread(n) == (n + NThreads - 1) \div NThreads

Slice(t, n) == {r \in 0 .. n - 1 : t * RowsPerThread(n) <= r
                                   /\ r < t * RowsPerThread(n) + RowsPerThread(n)}

Bump(g) == IF g = GenerationMod - 1 THEN 0 ELSE g + 1

\* (mutant: a signal where the code broadcasts)
WakeOneWorker ==
  LET w0 == CHOOSE w \in Worker : worker[w] = "asleep" \/ \A v \in Worker : worker[v] # "asleep"
  IN  [w \in Worker |-> IF w = w0 /\ worker[w] = "asleep" THEN "check" ELSE worker[w]]

WakeWorkers == [w \in Worker |-> IF worker[w] = "asleep" THEN "check" ELSE worker[w]]

Compute(rows) == computed' = [r \in DOMAIN computed |->
                                IF r \in rows THEN computed[r] + 1 ELSE computed[r]]

\* The pool starts as zero memory.
Init ==
  /\ initialized = FALSE /\ shutdown = FALSE
  /\ generation = 0 /\ nRows = 0 /\ done = 0
  /\ caller = "idle"
  /\ worker = [w \in Worker |-> "none"]
  /\ seen = [w \in Worker |-> 0] /\ slice = [w \in Worker |-> 0]
  /\ computed = <<>> /\ asked = 0

-----------------------------------------------------------------------------
(***************************************************************************)
(* The caller.                                                             *)
(***************************************************************************)

\* A call begins.  The first one starts the workers.
Call(n) ==
  /\ caller = "idle"
  /\ caller' = "called"
  /\ asked' = n /\ computed' = [r \in 0 .. n - 1 |-> 0]
  /\ initialized' = TRUE
  /\ worker' = IF initialized THEN worker ELSE [w \in Worker |-> "check"]
  /\ seen' = IF initialized THEN seen ELSE [w \in Worker |-> 0]
  /\ UNCHANGED <<shutdown, generation, nRows, done, slice>>

\* A job below the caller's threshold, or a pool of one thread: no sharing.
RunSerially(min) ==
  /\ caller = "called"
  /\ NThreads <= 1 \/ asked < min
  /\ Compute(0 .. asked - 1)
  /\ caller' = "return"
  /\ UNCHANGED <<pool, worker, seen, slice, asked>>

\* The job is published and the workers are woken.
\* (mutant: done is not reset)
PostKeepingDone(min) ==
  /\ caller = "called"
  /\ NThreads > 1 /\ asked >= min
  /\ nRows' = asked /\ generation' = Bump(generation)
  /\ worker' = WakeWorkers
  /\ caller' = "compute"
  /\ UNCHANGED <<initialized, shutdown, done, seen, slice, history>>

Post(min) ==
  /\ caller = "called"
  /\ NThreads > 1 /\ asked >= min
  /\ nRows' = asked /\ done' = 0 /\ generation' = Bump(generation)
  /\ worker' = WakeWorkers
  /\ caller' = "compute"
  /\ UNCHANGED <<initialized, shutdown, seen, slice, history>>

ComputeOwnSlice ==
  /\ caller = "compute"
  /\ Compute(Slice(0, asked))
  /\ caller' = "wait"
  /\ UNCHANGED <<pool, worker, seen, slice, asked>>

\* The caller sleeps until the last worker signals, and looks again.
\* (mutant: the count is compared with one worker too few)
AwaitAllButOne ==
  /\ caller = "wait"
  /\ caller' = IF done < NThreads - 2 THEN "asleep" ELSE "return"
  /\ UNCHANGED <<pool, worker, seen, slice, history>>

AwaitWorkers ==
  /\ caller = "wait"
  /\ caller' = IF done < NThreads - 1 THEN "asleep" ELSE "return"
  /\ UNCHANGED <<pool, worker, seen, slice, history>>

CallerWakes ==
  /\ caller = "asleep"
  /\ caller' = "wait"
  /\ UNCHANGED <<pool, worker, seen, slice, history>>

Return ==
  /\ caller = "return"
  /\ caller' = "idle"
  /\ UNCHANGED <<pool, worker, seen, slice, history>>

Shutdown ==
  /\ caller = "idle" /\ initialized
  /\ shutdown' = TRUE /\ generation' = Bump(generation)
  /\ worker' = WakeWorkers
  /\ caller' = "join"
  /\ UNCHANGED <<initialized, nRows, done, seen, slice, history>>

\* Every worker is joined; the pool is zeroed and may be started again.
Joined ==
  /\ caller = "join" /\ \A w \in Worker : worker[w] = "exited"
  /\ initialized' = FALSE /\ shutdown' = FALSE
  /\ generation' = 0 /\ nRows' = 0 /\ done' = 0
  /\ worker' = [w \in Worker |-> "none"]
  /\ caller' = "idle"
  /\ UNCHANGED <<seen, slice, history>>

-----------------------------------------------------------------------------
(***************************************************************************)
(* A worker.                                                               *)
(***************************************************************************)
Sleep(w) ==
  /\ worker[w] = "check"
  /\ seen[w] = generation /\ ~shutdown
  /\ worker' = [worker EXCEPT ![w] = "asleep"]
  /\ UNCHANGED <<pool, caller, seen, slice, history>>

WorkerWakes(w) ==
  /\ worker[w] = "asleep"
  /\ worker' = [worker EXCEPT ![w] = "check"]
  /\ UNCHANGED <<pool, caller, seen, slice, history>>

Exit(w) ==
  /\ worker[w] = "check" /\ shutdown
  /\ worker' = [worker EXCEPT ![w] = "exited"]
  /\ UNCHANGED <<pool, caller, seen, slice, history>>

Take(w) ==
  /\ worker[w] = "check"
  /\ seen[w] # generation /\ ~shutdown
  /\ seen' = [seen EXCEPT ![w] = generation]
  /\ slice' = [slice EXCEPT ![w] = nRows]
  /\ worker' = [worker EXCEPT ![w] = "compute"]
  /\ UNCHANGED <<pool, caller, history>>

ComputeSlice(w) ==
  /\ worker[w] = "compute"
  /\ Compute(Slice(w, slice[w]))
  /\ worker' = [worker EXCEPT ![w] = "finish"]
  /\ UNCHANGED <<pool, caller, seen, slice, asked>>

\* The last worker wakes the caller; then the loop starts over.
Finish(w) ==
  /\ worker[w] = "finish"
  /\ done' = done + 1
  /\ caller' = IF caller = "asleep" /\ done' = NThreads - 1 THEN "wait" ELSE caller
  /\ worker' = [worker EXCEPT ![w] = "check"]
  /\ UNCHANGED <<initialized, shutdown, generation, nRows, seen, slice, history>>

-----------------------------------------------------------------------------
CallerSteps ==
  \/ \E min \in MinRows : RunSerially(min) \/ Post(min)
  \/ ComputeOwnSlice \/ AwaitWorkers \/ Return \/ Joined

WorkerSteps(w) == Sleep(w) \/ Exit(w) \/ Take(w) \/ ComputeSlice(w) \/ Finish(w)

Next ==
  \/ \E n \in RowCounts : Call(n)
  \/ Shutdown
  \/ CallerSteps
  \/ CallerWakes
  \/ \E w \in Worker : WorkerSteps(w) \/ WorkerWakes(w)

Spec == Init /\ [][Next]_vars

\* Threads that can run do run.  Nothing makes a condition variable wake for
\* no reason, nothing makes anyone call or shut down.
Fairness == WF_vars(CallerSteps) /\ \A w \in Worker : WF_vars(WorkerSteps(w))

FairSpec == Spec /\ Fairness

-----------------------------------------------------------------------------
(***************************************************************************)
(* Properties.                                                             *)
(***************************************************************************)

\* Every variable has its type; no more workers finish than there are.
TypeOK ==
  /\ initialized \in BOOLEAN /\ shutdown \in BOOLEAN
  /\ generation \in 0 .. GenerationMod - 1
  /\ nRows \in Nat /\ asked \in Nat
  /\ done \in 0 .. NThreads - 1
  /\ caller \in {"idle", "called", "compute", "wait", "asleep", "return", "join"}
  /\ worker \in [Worker -> {"none", "check", "asleep", "compute", "finish", "exited"}]
  /\ seen \in [Worker -> 0 .. GenerationMod - 1]
  /\ slice \in [Worker -> Nat]

\* ctx points into the caller's stack frame, and the rows into buffers that
\* the caller reuses for the next kernel.  A worker that runs fn runs it for
\* the call in progress, with that call's number of rows.
JobOutlivesWorkers ==
  \A w \in Worker :
    worker[w] = "compute" => /\ caller \in {"compute", "wait", "asleep"}
                             /\ slice[w] = asked

\* A call returns when each of its rows was computed, by one thread.
Job == INSTANCE RowJob WITH
         calling  <- caller \notin {"idle", "join"},
         rows     <- asked,
         computed <- {r \in DOMAIN computed : computed[r] = 1}

ImplementsRowJob == Job!Spec

\* Every call and every shutdown comes to an end: no wakeup is lost, whatever
\* the generation count has wrapped to and however late a worker looks.
CallsReturn == (caller # "idle") ~> (caller = "idle")
=============================================================================
