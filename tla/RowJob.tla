------------------------------- MODULE RowJob -------------------------------
(***************************************************************************)
(* What a caller of ds4_parallel_for_min_rows (ds4.c) may rely on: between *)
(* the call and its return every row of the job is computed, each by one   *)
(* thread, and nobody touches the job's rows outside that time.            *)
(***************************************************************************)
EXTENDS Integers

VARIABLES
  calling,   \* a call has begun and not returned
  rows,      \* how many rows its job has
  computed   \* the rows computed since it began

vars == <<calling, rows, computed>>

Init == calling = FALSE /\ rows = 0 /\ computed = {}

Begin ==
  /\ ~calling /\ calling'
  /\ rows' \in Nat
  /\ computed' = {}

\* A thread computes rows that no thread has computed.
Compute ==
  /\ calling /\ calling'
  /\ computed \subseteq computed' /\ computed' \subseteq 0 .. rows - 1
  /\ UNCHANGED rows

Return ==
  /\ calling /\ ~calling'
  /\ computed = 0 .. rows - 1
  /\ UNCHANGED <<rows, computed>>

Next == Begin \/ Compute \/ Return

Spec == Init /\ [][Next]_vars
=============================================================================
