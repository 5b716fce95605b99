---------------------------- MODULE PrefixStore ----------------------------
(***************************************************************************)
(* What the server may expect of its disk cache (ds4_server.c): sessions   *)
(* kept under the text they were saved for.  The store may forget, but a   *)
(* lookup that gives a session back gives one that was saved under a       *)
(* prefix of the prompt, token for token, by an engine that lays out its   *)
(* caches the same way; and nothing else happens before it is answered.    *)
(***************************************************************************)
EXTENDS Sequences, SequencesExt

CONSTANTS
  Session,   \* what the engine may hold: [tokens, chunk] records
  Prompt,    \* the texts that are asked for
  None,      \* no session, no engine, no lookup
  Saves(_)   \* the texts a session may be saved under

VARIABLES
  store,     \* text -> the session saved under it
  live,      \* what the engine holds, or None
  chunk,     \* how the running engine chunks its prefill, or None
  asked      \* the prompt that is being looked up, or None

vars == <<store, live, chunk, asked>>

Init == store = <<>> /\ live = None /\ chunk = None /\ asked = None

\* The process starts, or dies with what it held; files may go with it.
Boot == /\ chunk' = None \/ (chunk = None /\ chunk' # None)
        /\ live' = None /\ asked' = None
        /\ \E keep \in SUBSET DOMAIN store : store' = [k \in keep |-> store[k]]

\* Between two lookups the session is the engine's own business.
Compute == /\ asked = None /\ chunk # None
           /\ live' \in {s \in Session : s.chunk = chunk} \cup {None}
           /\ UNCHANGED <<store, chunk, asked>>

Put(k) ==
  /\ asked = None
  /\ live # None /\ k \in Saves(live)
  /\ store' = [t \in DOMAIN store \cup {k} |-> IF t = k THEN live ELSE store[t]]
  /\ UNCHANGED <<live, chunk, asked>>

Forget ==
  /\ asked = None
  /\ \E keep \in SUBSET DOMAIN store : store' = [k \in keep |-> store[k]]
  /\ UNCHANGED <<live, chunk, asked>>

Ask(prompt) ==
  /\ asked = None /\ chunk # None
  /\ asked' = prompt
  /\ UNCHANGED <<store, live, chunk>>

\* The lookup gives nothing back, and may have cost the session.
Miss ==
  /\ asked # None /\ asked' = None
  /\ live' \in {live, None}
  /\ UNCHANGED <<store, chunk>>

\* A session read back may be dropped from the store in the same step.
Recall(k) ==
  /\ asked # None /\ asked' = None
  /\ IsPrefix(k, asked)
  /\ live' = store[k] /\ live'.chunk = chunk
  /\ store' \in {store, [t \in DOMAIN store \ {k} |-> store[t]]}
  /\ UNCHANGED chunk

Next == \/ Boot \/ Compute \/ Forget \/ Miss
        \/ live # None /\ \E k \in Saves(live) : Put(k)
        \/ \E prompt \in Prompt : Ask(prompt)
        \/ \E k \in DOMAIN store : Recall(k)

Spec == Init /\ [][Next]_vars
=============================================================================
