--------------------------- MODULE RequestService ---------------------------
(***************************************************************************)
(* What ds4-server promises the HTTP clients it accepts, with no threads,  *)
(* mutexes or condition variables: a request is admitted or refused, the   *)
(* admitted ones are generated one at a time in the order of admission,    *)
(* none is lost, and the service goes down only when nothing is owed.      *)
(***************************************************************************)
EXTENDS Sequences, FiniteSets

CONSTANTS Client,   \* the connections that may ever be made
          NoJob     \* no client: the session is idle

VARIABLES fifo,     \* admitted requests, oldest first
          active,   \* the request that owns the model session, or NoJob
          outcome,  \* what each client was told
          up        \* whether the service still exists

vars == <<fifo, active, outcome, up>>

Outcomes == {"none", "refused", "served"}

\* The admitted requests that are still owed an answer.
Owed == {fifo[i] : i \in DOMAIN fifo} \cup ({active} \ {NoJob})

Init == /\ fifo = <<>>
        /\ active = NoJob
        /\ outcome = [c \in Client |-> "none"]
        /\ up = TRUE

Admit(c) == /\ up
            /\ outcome[c] = "none"
            /\ c \notin Owed
            /\ fifo' = Append(fifo, c)
            /\ UNCHANGED <<active, outcome, up>>

\* A client that is not admitted may be answered with an error at once.
Refuse(c) == /\ up
             /\ outcome[c] = "none"
             /\ c \notin Owed
             /\ outcome' = [outcome EXCEPT ![c] = "refused"]
             /\ UNCHANGED <<fifo, active, up>>

Start == /\ up
         /\ active = NoJob
         /\ fifo # <<>>
         /\ active' = Head(fifo)
         /\ fifo' = Tail(fifo)
         /\ UNCHANGED <<outcome, up>>

Serve == /\ up
         /\ active # NoJob
         /\ outcome[active] = "none"
         /\ outcome' = [outcome EXCEPT ![active] = "served"]
         /\ active' = NoJob
         /\ UNCHANGED <<fifo, up>>

GoDown == /\ up
          /\ Owed = {}
          /\ up' = FALSE
          /\ UNCHANGED <<fifo, active, outcome>>

Next == \/ \E c \in Client : Admit(c) \/ Refuse(c)
        \/ Start
        \/ Serve
        \/ GoDown

Spec == Init /\ [][Next]_vars
=============================================================================
