---------------------------- MODULE KvDiskCache ----------------------------
(***************************************************************************)
(* The disk cache of session snapshots (ds4_server.c, from kv_cache_open   *)
(* to kv_cache_try_load): one file per cached text, written to a temporary *)
(* name and renamed, evicted under a budget, read back by the longest text *)
(* prefix of a prompt, over crashes, power losses and restarts under       *)
(* another configuration.  The worker thread is the only writer.  A text   *)
(* is a sequence of pieces, and stands for its SHA1 too.                   *)
(***************************************************************************)
EXTENDS Naturals, Sequences, SequencesExt, FiniteSets, Functions

CONSTANTS
  Piece,        \* what a text is made of
  HiddenPiece,  \* sampled reasoning: in the session, not in a visible text
  History,      \* the token histories a session may have
  Prompt,       \* the rendered prompts of requests
  Setup,        \* configurations the server is started with
  None,         \* nothing: no session, no running server, no prompt
  RejectQuant,  \* --kv-cache-reject-different-quant
  MinTokens, ColdMax, Trim, Align, Interval,   \* kv_cache_options
  Budget,       \* --kv-disk-space-mb, in units of Size
  MaxHits,      \* bound on the hit counter
  MaxFaults     \* bound on crashes, power losses and restarts

ASSUME OptionsAssumption ==
  /\ {MinTokens, ColdMax, Trim, Align, Interval, Budget, MaxHits,
      MaxFaults} \subseteq Nat
  /\ ColdMax = 0 \/ ColdMax >= MinTokens
  /\ RejectQuant \in BOOLEAN

ASSUME SetupAssumption ==
  /\ History \cup Prompt \subseteq Seq(Piece)
  /\ Setup \subseteq [quant: {2, 4}, ctx: Nat, chunk: Nat \ {0}]
  /\ None \notin Setup /\ None \notin Prompt /\ \A s \in Setup : s.chunk # None

VARIABLES
  setup,    \* the running server's configuration, or None
  disk,     \* the files: text -> snapshot
  live,     \* the session: [tokens, chunk], or None
  job,      \* what the worker is doing: op, the text, the prompt to load next
  blocked,  \* a file could not be deleted since the server started
  faults    \* crashes, power losses and restarts so far

vars == <<setup, disk, live, job, blocked, faults>>
-----------------------------------------------------------------------------
(* Lengths at which a snapshot is taken.                                   *)

\* kv_cache_store_len.
StoreLen(tokens) ==
  LET kept == tokens - Trim
      stable == IF Align > 0 THEN kept - (kept % Align) ELSE kept
  IN  IF tokens > MinTokens + Trim /\ stable >= MinTokens THEN stable ELSE tokens

\* kv_cache_continued_step: the interval rounded up to the alignment.
ContinuedStep ==
  IF Interval = 0 \/ Align = 0 THEN Interval
  ELSE ((Interval + Align - 1) \div Align) * Align

AtFrontier(n) == ContinuedStep > 0 /\ n >= MinTokens /\ n % ContinuedStep = 0

AtColdBoundary(n) ==
  \E prompt \in n..(n + Trim + Align) :
    prompt >= MinTokens /\ prompt <= ColdMax /\ StoreLen(prompt) = n
-----------------------------------------------------------------------------
(* Files.                                                                  *)

Visible(tokens) == SelectSeq(tokens, LAMBDA p : p # HiddenPiece)

Texts == History \cup {Visible(h) : h \in History}

Snapshot == [tokens: History, setup: Setup, hits: 0..MaxHits, map: 0..1,
             whole: BOOLEAN]

\* kv_cache_refresh: a file shorter than its header says is not an entry.
Entries == {k \in DOMAIN disk : disk[k].whole}

\* Payload and text grow with the tokens; the tool map comes on top.
Size(f) == Len(f.tokens) + f.map

Total == SumFunction([k \in Entries |-> Size(disk[k])])

\* kv_entry_eviction_score, compared without dividing.
Score(f) == (f.hits + 1) * Len(f.tokens)
NotWorthMore(f, g) == Score(f) * Size(g) <= Score(g) * Size(f)

\* Seconds of last use break ties: any of the least valuable.
Victims == {k \in Entries : \A j \in Entries : NotWorthMore(disk[k], disk[j])}

Without(k) == [j \in DOMAIN disk \ {k} |-> disk[j]]
With(k, f) == [j \in DOMAIN disk \cup {k} |-> IF j = k THEN f ELSE disk[j]]

\* This server may use the file.  (mutant: the contexts compared the wrong way)
FitsBackwards(f) == f.setup.ctx >= setup.ctx
Fits(f) == /\ f.setup.ctx <= setup.ctx
           /\ RejectQuant => f.setup.quant = setup.quant

\* The text of the file is what the prompt begins with.
\* (mutant: the lengths are compared, not the texts)
MatchesLength(k, prompt) == Len(k) <= Len(prompt)
Matches(k, prompt) == IsPrefix(k, prompt)

\* kv_cache_find_text_prefix.
Found(prompt) ==
  LET hits == {k \in Entries : /\ Matches(k, prompt)
                               /\ Len(disk[k].tokens) >= MinTokens
                               /\ Fits(disk[k])}
  IN  {k \in hits : \A j \in hits : Len(j) <= Len(k)}

\* ds4_session_load_payload.
PayloadLoads(f) ==
  /\ f.setup.ctx <= setup.ctx /\ Len(f.tokens) < setup.ctx
  /\ f.setup.chunk = setup.chunk
-----------------------------------------------------------------------------
Idle == [op |-> "idle", key |-> <<>>, prompt |-> None]

Init ==
  /\ setup = None /\ disk = <<>> /\ live = None /\ job = Idle
  /\ blocked = FALSE /\ faults = 0

Serving == setup # None

\* A store has ended: the worker goes on to load what the request asks for.
AfterStore == IF job.prompt = None THEN Idle ELSE [job EXCEPT !.op = "load"]

\* The engine computes; the session may be invalidated.
Work ==
  /\ Serving /\ job = Idle
  /\ \/ live' = None
     \/ \E h \in History : /\ Len(h) < setup.ctx
                           /\ live' = [tokens |-> h, chunk |-> setup.chunk]
  /\ UNCHANGED <<setup, disk, job, blocked, faults>>

\* The texts the session may be stored under: its own, at the cold boundary or
\* a continued frontier, or for the whole session also the visible one.
MayBeStoredAs(current) ==
  IF current THEN {live.tokens, Visible(live.tokens)}
  ELSE {k \in {live.tokens} : AtFrontier(Len(k)) \/ AtColdBoundary(Len(k))}

\* Sessions below the minimum are not stored.  (mutant: they are)
AnyLength(s) == s # None
LongEnough(s) == s # None /\ Len(s.tokens) >= MinTokens

\* kv_cache_store_live_prefix_text: a file this server may use stays, and only
\* its tool map is written again, in place and with no look at the budget.
KeepFile(key, next) ==
  /\ key \in Entries /\ Fits(disk[key])
  /\ \E m \in 0..1 : disk' = [disk EXCEPT ![key].map = m]
  /\ job' = IF next = None THEN Idle
            ELSE [op |-> "load", key |-> <<>>, prompt |-> next]
  /\ UNCHANGED <<setup, live, blocked, faults>>

\* Another file of this text is deleted, and a temporary file is written.
NewFile(key, next) ==
  /\ ~(key \in Entries /\ Fits(disk[key]))
  /\ disk' \in IF key \in Entries THEN {disk, Without(key)} ELSE {disk}
  /\ job' = [op |-> "write", key |-> key, prompt |-> next]
  /\ UNCHANGED <<setup, live, blocked, faults>>

BeginStore(key, next) == KeepFile(key, next) \/ NewFile(key, next)

\* A cold, continued or shutdown store.
Store ==
  /\ Serving /\ job = Idle /\ LongEnough(live)
  /\ \E current \in BOOLEAN : \E key \in MayBeStoredAs(current) :
       BeginStore(key, None)

\* A request that misses the live session stores it before it asks the disk.
SwitchAway ==
  /\ Serving /\ job = Idle /\ LongEnough(live)
  /\ \E prompt \in Prompt : \E key \in MayBeStoredAs(TRUE) :
       BeginStore(key, prompt)

SwitchFromNothing ==
  /\ Serving /\ job = Idle /\ ~LongEnough(live)
  /\ \E prompt \in Prompt :
       job' = [op |-> "load", key |-> <<>>, prompt |-> prompt]
  /\ UNCHANGED <<setup, disk, live, blocked, faults>>

Fresh(m) == [tokens |-> live.tokens, setup |-> setup, hits |-> 0, map |-> m,
             whole |-> TRUE]

\* The complete temporary file takes the name.
Publish ==
  /\ job.op = "write"
  /\ \E m \in 0..1 : disk' = With(job.key, Fresh(m))
  /\ job' = [job EXCEPT !.op = "evict"]
  /\ UNCHANGED <<setup, live, blocked, faults>>

\* A write, the flush or the rename fails: the temporary file is deleted.
StoreFails ==
  /\ job.op = "write"
  /\ job' = AfterStore
  /\ UNCHANGED <<setup, disk, live, blocked, faults>>

\* kv_cache_evict: one victim at a time, and a failed unlink ends it.
\* (mutant: up to one snapshot too many is left)
OverBudgetByOne == Total > Budget + MinTokens
OverBudget == Total > Budget

EvictOne ==
  /\ job.op = "evict" /\ OverBudget
  /\ \E k \in Victims : disk' = Without(k)
  /\ UNCHANGED <<setup, live, job, blocked, faults>>

EvictFails ==
  /\ job.op = "evict" /\ OverBudget
  /\ blocked' = TRUE
  /\ job' = AfterStore
  /\ UNCHANGED <<setup, disk, live, faults>>

EvictDone ==
  /\ job.op = "evict" /\ ~OverBudget
  /\ job' = AfterStore
  /\ UNCHANGED <<setup, disk, live, blocked, faults>>
-----------------------------------------------------------------------------
(* kv_cache_try_load_text.                                                 *)

\* A file of the found text cannot be opened, or there is none.
LoadNothing ==
  /\ job.op = "load"
  /\ job' = Idle
  /\ UNCHANGED <<setup, disk, live, blocked, faults>>

\* The engine refuses the payload: the session is gone, the file stays.
LoadRefused ==
  /\ job.op = "load"
  /\ \E k \in Found(job.prompt) : ~PayloadLoads(disk[k])
  /\ live' = None
  /\ job' = Idle
  /\ UNCHANGED <<setup, disk, blocked, faults>>

Hit(f) == [f EXCEPT !.hits = IF @ < MaxHits THEN @ + 1 ELSE @]

\* The session is restored; a large file is consumed, another is touched.
Load ==
  /\ job.op = "load"
  /\ \E k \in Found(job.prompt) :
       /\ PayloadLoads(disk[k])
       /\ live' = [tokens |-> disk[k].tokens, chunk |-> setup.chunk]
       /\ IF ColdMax > 0 /\ Len(disk[k].tokens) > ColdMax
          THEN disk' \in {Without(k), disk}
          ELSE disk' \in {With(k, Hit(disk[k])), disk}
  /\ job' = Idle
  /\ UNCHANGED <<setup, blocked, faults>>
-----------------------------------------------------------------------------
(* Faults.  A temporary file left behind is never read or counted again.   *)

\* kv_cache_open: the directory is brought under the budget at once.
Start ==
  /\ setup = None /\ faults < MaxFaults
  /\ setup' \in Setup
  /\ job' = [op |-> "evict", key |-> <<>>, prompt |-> None]
  /\ blocked' = FALSE
  /\ faults' = faults + 1
  /\ UNCHANGED <<disk, live>>

\* The process dies anywhere, or exits after its shutdown store.
Crash ==
  /\ Serving
  /\ setup' = None /\ live' = None /\ job' = Idle
  /\ UNCHANGED <<disk, blocked, faults>>

\* The machine dies: nothing was flushed to the disk, and files may be short.
PowerLoss ==
  /\ Serving
  /\ setup' = None /\ live' = None /\ job' = Idle
  /\ \E short \in SUBSET DOMAIN disk :
       disk' = [k \in DOMAIN disk |->
                 [disk[k] EXCEPT !.whole = @ /\ k \notin short]]
  /\ UNCHANGED <<blocked, faults>>

Next == \/ Work \/ Store \/ SwitchAway \/ SwitchFromNothing
        \/ Publish \/ StoreFails \/ EvictOne \/ EvictFails \/ EvictDone
        \/ LoadNothing \/ LoadRefused \/ Load
        \/ Start \/ Crash \/ PowerLoss

Spec == Init /\ [][Next]_vars
-----------------------------------------------------------------------------
(* Properties.                                                             *)

\* The state is well formed, and no file holds less than the minimum
\* (kv_cache_store_live_prefix_text's first test, on every path to a store).
TypeOK ==
  /\ setup \in Setup \cup {None}
  /\ DOMAIN disk \subseteq Texts
  /\ \A k \in DOMAIN disk : /\ disk[k] \in Snapshot
                            /\ Len(disk[k].tokens) >= MinTokens
  /\ live # None => /\ Serving /\ live.tokens \in History
                    /\ live.chunk = setup.chunk
  /\ job.op \in {"idle", "write", "evict", "load"}
  /\ blocked \in BOOLEAN /\ faults \in 0..MaxFaults

\* Between the moment the worker asks the cache (job.op = "load") and the end of
\* that lookup nothing else happens, and what the lookup gives back, whether it
\* consumes the file or keeps it, is a session saved under a prefix of the
\* prompt, by an engine of the same chunk layout, whatever crashed in between
\* (kv_cache_store_live_prefix_text and kv_cache_try_load_text).
Abstract ==
  INSTANCE PrefixStore WITH
    Session <- [tokens: History, chunk: {s.chunk : s \in Setup}],
    Saves <- LAMBDA s : {s.tokens, Visible(s.tokens)},
    store <- [k \in Entries |-> [tokens |-> disk[k].tokens,
                                 chunk |-> disk[k].setup.chunk]],
    live <- live,
    chunk <- IF Serving THEN setup.chunk ELSE None,
    asked <- IF job.op = "load" THEN job.prompt ELSE None

ImplementsPrefixStore == Abstract!Spec

\* While the server runs, a snapshot leaves the directory only for the budget,
\* for one this server cannot use, or because it is the session now, and what
\* is saved under a text is replaced only if this server cannot use it
\* (kv_cache_existing_compatible, kv_cache_evict, the consumed file).
NothingLostWhileServing ==
  [][Serving /\ setup' = setup =>
       \A k \in Entries :
         \/ /\ k \in DOMAIN disk' /\ disk'[k].whole
            /\ disk'[k].tokens = disk[k].tokens
         \/ disk[k].setup.ctx > setup.ctx
         \/ RejectQuant /\ disk[k].setup.quant # setup.quant
         \/ Total > Budget /\ job.op = "evict"
         \/ live' = [tokens |-> disk[k].tokens, chunk |-> disk[k].setup.chunk]
      ]_vars

\* Tool maps aside, which are rewritten without a look at the budget, a server
\* that is not in the middle of a store is within it, unless the file system
\* refused a deletion (kv_cache_evict after every new file and at the start).
WithinBudget ==
  Serving /\ job.op \in {"idle", "load"} /\ ~blocked =>
    SumFunction([k \in Entries |-> Len(disk[k].tokens)]) <= Budget

\* "If the existing file cannot be used by this server, replace it so this
\* context can still populate its own cache" (above kv_cache_file_text_matches):
\* a file that is kept instead of a new one can be loaded by this server.
KeptFilesLoad ==
  [][\A key \in Texts, next \in Prompt \cup {None} :
       Serving /\ job = Idle /\ KeepFile(key, next) => PayloadLoads(disk[key])
    ]_vars
=============================================================================
