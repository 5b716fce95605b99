---------------------------- MODULE ToolMemory ----------------------------
(***************************************************************************)
(* The memory of sampled tool calls and the tool-id maps of the KV files   *)
(* (ds4_server.c tool_memory, kv_tool_map).  The worker puts the DSML      *)
(* block of a turn under the ids of its calls; the parser threads restore  *)
(* ids from the files and render a replayed call by its sampled block.     *)
(*                                                                         *)
(* Every section under tool_mu is one action.  A file is read record by    *)
(* record without a lock, while the worker may rewrite its map in place.   *)
(***************************************************************************)
EXTENDS Naturals, Sequences, FiniteSets, SequencesExt, Functions

CONSTANTS
  Parser,          \* threads that parse requests
  Worker,          \* the worker, which also reads the file it loads
  None,            \* no file, no id
  Turns,           \* the call ids of each tool-call turn, in order
  Chain,           \* the turns in the session's text when turn n ends
  Dsml,            \* the blocks the model may sample
  Histories,       \* what a request may replay: messages, each the ids of its calls
  MaxEntries,      \* tool_memory_max_entries
  MaxBytes,        \* tool_memory_max_bytes
  EntryBytes,      \* size of an entry
  BlockBytes,      \* size of a block
  DiskEnabled,     \* kv.enabled
  MaxRestarts      \* bound: process restarts

Before(n) == IF Len(Chain[n]) = 1 THEN 0 ELSE Chain[n][Len(Chain[n]) - 1]

Ids == UNION {ToSet(Turns[n]) : n \in DOMAIN Turns}

\* Call ids are random (random_tool_id): no two turns share one.
ASSUME ToolMemoryAssumption ==
  /\ Worker \notin Parser /\ None \notin Ids
  /\ Turns \in Seq(Seq(Ids) \ {<<>>})
  /\ \A m, n \in DOMAIN Turns : m # n => ToSet(Turns[m]) \cap ToSet(Turns[n]) = {}
  /\ \A n \in DOMAIN Turns :
       /\ Chain[n] \in Seq(1..n) \ {<<>>} /\ Last(Chain[n]) = n
       /\ Len(Chain[n]) > 1 => Chain[Before(n)] = Front(Chain[n])
  /\ Histories \subseteq Seq(Seq(Ids) \ {<<>>})
  /\ {MaxEntries, MaxBytes} \subseteq Nat \ {0}
  /\ {EntryBytes, BlockBytes, MaxRestarts} \subseteq Nat
  /\ DiskEnabled \in BOOLEAN

VARIABLES
  mem,        \* s->tool_mem
  said,       \* the block sampled in each turn so far
  live,       \* the turn whose end the session's text has reached, 0 if none
  files,      \* the KV file of the text of turn n: present, flagged, its map
  worker,     \* where the worker is in kv_cache_store_live_prefix_text
  reader,     \* where each thread is in reading maps, and what it has open
  raw,        \* raw_dsml of the messages of each parser's last request
  restarts,
  torn        \* history: some record was read across a rewrite

vars == <<mem, said, live, files, worker, reader, raw, restarts, torn>>

Thread == Parser \cup {Worker}

\* The block the model sampled for a call.
Sampled(id) == said[CHOOSE n \in DOMAIN Turns : id \in ToSet(Turns[n])]

SaidIds == UNION {ToSet(Turns[n]) : n \in DOMAIN said}
-----------------------------------------------------------------------------
(* The memory: entries by id in order of use, blocks by text.              *)

Empty == [lru    |-> <<>>,   \* head .. tail
          dsml   |-> <<>>,   \* the block each id leads to
          refs   |-> <<>>,   \* block->refs
          owners |-> <<>>,   \* block->entries, newest first
          bytes  |-> 0]

Known(m) == DOMAIN m.dsml
Without(f, x) == Restrict(f, DOMAIN f \ {x})
With(f, x, y) == [z \in DOMAIN f \cup {x} |-> IF z = x THEN y ELSE f[z]]
Less(a, b) == IF a >= b THEN a - b ELSE 0

\* tool_memory_touch
Touch(m, id) == [m EXCEPT !.lru = <<id>> \o RemoveFirst(@, id)]

\* tool_memory_release_block_locked.  (mutant: the first release frees)
ReleaseAtOnce(m, d) ==
  [m EXCEPT !.refs = Without(@, d), !.owners = Without(@, d), !.bytes = Less(@, BlockBytes)]
ReleaseBlock(m, d) ==
  IF m.refs[d] > 1 THEN [m EXCEPT !.refs[d] = @ - 1]
  ELSE [m EXCEPT !.refs = Without(@, d), !.owners = Without(@, d),
                 !.bytes = Less(@, BlockBytes)]

\* tool_memory_remove_entry_locked
RemoveEntry(m, id) ==
  LET d == m.dsml[id]
  IN ReleaseBlock([lru    |-> RemoveFirst(m.lru, id),
                   dsml   |-> Without(m.dsml, id),
                   refs   |-> m.refs,
                   owners |-> [m.owners EXCEPT ![d] = RemoveFirst(@, id)],
                   bytes  |-> Less(m.bytes, EntryBytes)], d)

\* tool_memory_get_block_locked
GetBlock(m, d) ==
  IF d \in DOMAIN m.refs THEN m
  ELSE [m EXCEPT !.refs = With(@, d, 0), !.owners = With(@, d, <<>>),
                 !.bytes = @ + BlockBytes]

NewEntry(m, id, d) ==
  [lru    |-> <<id>> \o m.lru,
   dsml   |-> With(m.dsml, id, d),
   refs   |-> [m.refs EXCEPT ![d] = @ + 1],
   owners |-> [m.owners EXCEPT ![d] = <<id>> \o @],
   bytes  |-> m.bytes + EntryBytes]

\* (mutant: only the entries are counted)
OverEntries(m) == Len(m.lru) > MaxEntries
Over(m) == Len(m.lru) > MaxEntries \/ m.bytes > MaxBytes

\* The entry that is forgotten first.  (mutant: the newest)
Newest(m) == Head(m.lru)
Victim(m) == Last(m.lru)

\* tool_memory_prune_locked: the loop stops at the first k that fits.
Prune(m) ==
  LET after[k \in 0..Len(m.lru)] ==
        IF k = 0 THEN m ELSE RemoveEntry(after[k - 1], Victim(after[k - 1]))
      stop == CHOOSE k \in 0..Len(m.lru) :
                /\ k = Len(m.lru) \/ ~Over(after[k])
                /\ \A j \in 0..(k - 1) : Over(after[j])
  IN after[stop]

\* tool_memory_put_locked
Put(m, id, d) ==
  IF id \in Known(m) /\ m.dsml[id] = d THEN Prune(Touch(m, id))
  ELSE LET rest == IF id \in Known(m) THEN RemoveEntry(m, id) ELSE m
       IN Prune(NewEntry(GetBlock(rest, d), id, d))

\* tool_memory_remember
PutAll(m, ids, d) == FoldLeft(LAMBDA acc, id : Put(acc, id, d), m, ids)

\* What tool_memory_attach_to_messages gives a message with these call ids: the
\* block all of them lead to, or nothing.  (mutant: the block of the first)
FirstBlock(m, ids) == IF ids[1] \in Known(m) THEN {m.dsml[ids[1]]} ELSE {}
ExactBlock(m, ids) ==
  {d \in DOMAIN m.refs : \A i \in DOMAIN ids : ids[i] \in Known(m) /\ m.dsml[ids[i]] = d}

LookUpAll(m, ids) ==
  FoldLeft(LAMBDA acc, id : IF id \in Known(acc) THEN Touch(acc, id) ELSE acc, m, ids)

LookUpMessages(m, h) == FoldLeft(LookUpAll, m, h)
-----------------------------------------------------------------------------
(* Tool-id maps. *)

NoFile == [there |-> FALSE, flag |-> FALSE, map |-> <<>>]

\* The blocks in the text of file n.
Text(n) == [i \in DOMAIN Chain[n] |-> said[Chain[n][i]]]

\* tool_memory_count_dsml_in_text finds something.
CountsAny(n) == \E i \in DOMAIN Text(n) : Text(n)[i] \in DOMAIN mem.refs

\* kv_tool_map_write: the ids of each known block of the text, blocks in order of
\* their first appearance.  (mutant: all blocks that are remembered)
Records(d) == [i \in DOMAIN mem.owners[d] |-> [id |-> mem.owners[d][i], dsml |-> d]]
MapOfAll(n) ==
  [i \in DOMAIN mem.lru |-> [id |-> mem.lru[i], dsml |-> mem.dsml[mem.lru[i]]]]
MapFor(n) ==
  LET text == Text(n)
      first == {i \in DOMAIN text :
                  text[i] \in DOMAIN mem.refs /\ \A j \in 1..(i - 1) : text[j] # text[i]}
  IN FlattenSeq([i \in DOMAIN text |-> IF i \in first THEN Records(text[i]) ELSE <<>>])

Reading(n) == {t \in Thread : reader[t].file = n /\ reader[t].linked}

\* Whoever has file n open sees its map replaced in place.
SeenRewritten(n, map) ==
  reader' = [t \in Thread |-> IF t \in Reading(n) THEN [reader[t] EXCEPT !.map = map]
                              ELSE reader[t]]

\* Whoever has one of these files open keeps the old one.
Unlinked(ns) ==
  [t \in Thread |-> IF reader[t].file \in ns THEN [reader[t] EXCEPT !.linked = FALSE]
                    ELSE reader[t]]
-----------------------------------------------------------------------------
IdleWorker == [pc |-> "idle", n |-> 0, flag |-> FALSE]

IdleReader == [pc |-> "idle", request |-> <<>>, wanted |-> {}, todo |-> {},
               file |-> 0, linked |-> FALSE, map |-> <<>>, pos |-> 0, count |-> 0,
               id |-> None]

Init ==
  /\ mem = Empty
  /\ said = <<>> /\ live = 0
  /\ files = [n \in DOMAIN Turns |-> NoFile]
  /\ worker = IdleWorker
  /\ reader = [t \in Thread |-> IdleReader]
  /\ raw = [p \in Parser |-> {}]
  /\ restarts = 0 /\ torn = FALSE
-----------------------------------------------------------------------------
(* The worker. *)

WorkerFree == worker.pc = "idle"

\* The prompt of the parser's request has the text of turn n as a prefix: each of
\* its calls is rendered by the block that was sampled.
Renders(p, n) ==
  n \in DOMAIN said /\ \A i \in ToSet(Chain[n]) :
                         [ids |-> Turns[i], dsml |-> said[i]] \in raw[p]

\* The session is prefilled with the prompt, as far as turn n.
Prefill(p, n) ==
  /\ WorkerFree
  /\ Renders(p, n)
  /\ live' = n
  /\ UNCHANGED <<mem, said, files, worker, reader, raw, restarts, torn>>

\* A turn, the first of its conversation or after the one the session holds, ends
\* in tool calls: tool_memory_remember under fresh ids.
Remember ==
  /\ WorkerFree
  /\ Len(said) < Len(Turns)
  /\ LET n == Len(said) + 1
     IN /\ Before(n) \in {0, live}
        /\ live' = n
        /\ \E d \in Dsml :
             /\ said' = Append(said, d)
             /\ mem' = PutAll(mem, Turns[n], d)
  /\ UNCHANGED <<files, worker, reader, raw, restarts, torn>>

\* The session is stored.  A compatible file is kept and its map rewritten, unless
\* no block of its text is remembered; a new file gets the flag now and its map
\* later.
Store ==
  /\ DiskEnabled /\ WorkerFree
  /\ live # 0
  /\ files[live].there => CountsAny(live)
  /\ worker' = [pc |-> IF files[live].there THEN "truncate" ELSE "create",
                n |-> live, flag |-> CountsAny(live)]
  /\ UNCHANGED <<mem, said, live, files, reader, raw, restarts, torn>>

\* kv_cache_rewrite_tool_map, in three steps a crash can separate.
Truncate ==
  /\ worker.pc = "truncate"
  /\ files' = [files EXCEPT ![worker.n].map = <<>>]
  /\ SeenRewritten(worker.n, <<>>)
  /\ worker' = [worker EXCEPT !.pc = "map"]
  /\ UNCHANGED <<mem, said, live, raw, restarts, torn>>

\* Records reach the file one after the other; a failed write leaves some of them.
WriteMap ==
  /\ worker.pc = "map"
  /\ LET map == MapFor(worker.n)
     IN \E k \in 0..Len(map) :
          /\ files' = [files EXCEPT ![worker.n].map = SubSeq(map, 1, k)]
          /\ SeenRewritten(worker.n, SubSeq(map, 1, k))
          /\ worker' = IF map = <<>> \/ k < Len(map) THEN IdleWorker
                       ELSE [worker EXCEPT !.pc = "flag"]
  /\ UNCHANGED <<mem, said, live, raw, restarts, torn>>

WriteFlag ==
  /\ worker.pc = "flag"
  /\ files' = [files EXCEPT ![worker.n].flag = TRUE]
  /\ worker' = IdleWorker
  /\ UNCHANGED <<mem, said, live, reader, raw, restarts, torn>>

\* The new file is written aside and renamed, then files may be evicted, the new
\* one too; or the write fails and leaves nothing.
Create ==
  /\ worker.pc = "create"
  /\ LET new == [files EXCEPT ![worker.n] =
                   [there |-> TRUE, flag |-> worker.flag, map |-> MapFor(worker.n)]]
     IN \/ UNCHANGED <<files, reader>>
        \/ \E evicted \in SUBSET {n \in DOMAIN files : new[n].there} :
             /\ files' = [n \in DOMAIN files |-> IF n \in evicted THEN NoFile ELSE new[n]]
             /\ reader' = Unlinked(evicted)
  /\ worker' = IdleWorker
  /\ UNCHANGED <<mem, said, live, raw, restarts, torn>>

\* kv_cache_try_load_text has loaded the payload of file n for a request; it reads
\* the whole map and may consume the file.
Load(p, n) ==
  /\ DiskEnabled /\ WorkerFree
  /\ files[n].there
  /\ Renders(p, n)
  /\ live' = n
  /\ worker' = [pc |-> "load", n |-> n, flag |-> FALSE]
  /\ reader' = [reader EXCEPT ![Worker] =
                  [IdleReader EXCEPT !.pc = "scan", !.wanted = Ids, !.todo = {n}]]
  /\ UNCHANGED <<mem, said, files, raw, restarts, torn>>

LoadDone ==
  /\ worker.pc = "load"
  /\ reader[Worker].pc = "scan" /\ reader[Worker].todo = {}
  /\ \/ /\ UNCHANGED files
        /\ reader' = [reader EXCEPT ![Worker] = IdleReader]
     \/ /\ files' = [files EXCEPT ![worker.n] = NoFile]
        /\ reader' = [Unlinked({worker.n}) EXCEPT ![Worker] = IdleReader]
  /\ worker' = IdleWorker
  /\ UNCHANGED <<mem, said, live, raw, restarts, torn>>
-----------------------------------------------------------------------------
(* A request is parsed: its ids are restored from all files, then its messages *)
(* are looked up.                                                           *)

Ask(p, h) ==
  /\ reader[p].pc = "idle"
  /\ \A i \in DOMAIN h : ToSet(h[i]) \subseteq SaidIds
  /\ reader' = [reader EXCEPT ![p] =
                  [IdleReader EXCEPT !.pc = "scan", !.request = h,
                     !.wanted = UNION {ToSet(h[i]) : i \in DOMAIN h},
                     !.todo = IF DiskEnabled
                              THEN {n \in DOMAIN files : files[n].there} ELSE {}]]
  /\ raw' = [raw EXCEPT ![p] = {}]
  /\ UNCHANGED <<mem, said, live, files, worker, restarts, torn>>

\* The file may be gone, its header may not announce a map, or the map may be
\* empty or claim more than four times the memory's entries.
Open(t) ==
  /\ reader[t].pc = "scan"
  /\ \E n \in reader[t].todo :
       LET f == files[n]
           usable == f.there /\ f.flag /\ Len(f.map) \in 1..(4 * MaxEntries)
           next == [reader[t] EXCEPT !.todo = @ \ {n}]
       IN reader' = [reader EXCEPT ![t] =
            IF usable THEN [next EXCEPT !.pc = "read", !.file = n, !.linked = TRUE,
                              !.map = f.map, !.pos = 1, !.count = Len(f.map)]
            ELSE next]
  /\ UNCHANGED <<mem, said, live, files, worker, raw, restarts, torn>>

\* (mutant: the file is left open)
LeaveOpen(r) == [r EXCEPT !.pc = "scan"]
CloseFile(r) == [r EXCEPT !.pc = "scan", !.file = 0, !.linked = FALSE, !.map = <<>>,
                          !.pos = 0, !.count = 0, !.id = None]

Ends(r) == r.pos > r.count \/ r.pos > Len(r.map)

\* The id of the next record, as far as the stdio buffer reaches.
ReadId(t) ==
  /\ reader[t].pc = "read"
  /\ LET r == reader[t]
     IN reader' = [reader EXCEPT ![t] =
          IF Ends(r) THEN CloseFile(r)
          ELSE [r EXCEPT !.pc = "rest", !.id = r.map[r.pos].id]]
  /\ UNCHANGED <<mem, said, live, files, worker, raw, restarts, torn>>

\* The block of the record, from what the file holds now, is put under tool_mu
\* when its id is wanted.
ReadBlock(t) ==
  /\ reader[t].pc = "rest"
  /\ LET r == reader[t]
     IN IF Ends(r)
        THEN /\ reader' = [reader EXCEPT ![t] = CloseFile(r)]
             /\ UNCHANGED <<mem, torn>>
        ELSE /\ reader' = [reader EXCEPT ![t].pc = "read", ![t].pos = @ + 1, ![t].id = None]
             /\ IF r.id \in r.wanted
                THEN /\ mem' = Put(mem, r.id, r.map[r.pos].dsml)
                     /\ torn' = (torn \/ r.map[r.pos].id # r.id)
                ELSE UNCHANGED <<mem, torn>>
  /\ UNCHANGED <<said, live, files, worker, raw, restarts>>

\* tool_memory_attach_to_messages, all messages under one lock.
Attach(p) ==
  /\ reader[p].pc = "scan" /\ reader[p].todo = {}
  /\ LET h == reader[p].request
     IN /\ mem' = LookUpMessages(mem, h)
        /\ raw' = [raw EXCEPT ![p] =
                     UNION {{[ids |-> h[i], dsml |-> d] : d \in ExactBlock(mem, h[i])}
                              : i \in DOMAIN h}]
  /\ reader' = [reader EXCEPT ![p] = IdleReader]
  /\ UNCHANGED <<said, live, files, worker, restarts, torn>>
-----------------------------------------------------------------------------
\* The process dies anywhere; a new one has the files.
Restart ==
  /\ restarts < MaxRestarts
  /\ restarts' = restarts + 1
  /\ mem' = Empty
  /\ live' = 0
  /\ worker' = IdleWorker
  /\ reader' = [t \in Thread |-> IdleReader]
  /\ raw' = [p \in Parser |-> {}]
  /\ UNCHANGED <<said, files, torn>>

Next ==
  \/ Remember \/ Store
  \/ \E p \in Parser, n \in DOMAIN files : Prefill(p, n) \/ Load(p, n)
  \/ Truncate \/ WriteMap \/ WriteFlag \/ Create \/ LoadDone
  \/ \E p \in Parser : \/ \E h \in Histories : Ask(p, h)
                       \/ Attach(p)
  \/ \E t \in Thread : Open(t) \/ ReadId(t) \/ ReadBlock(t)
  \/ Restart

Spec == Init /\ [][Next]_vars
-----------------------------------------------------------------------------
(* Properties. *)

\* The shape of the state: only the worker that loads reads as the worker, and
\* an open map is the one its file has, unless the file was replaced.
TypeOK ==
  /\ said \in Seq(Dsml) /\ Len(said) <= Len(Turns) /\ live \in 0..Len(said)
  /\ worker.pc \in {"idle", "truncate", "map", "flag", "create", "load"}
  /\ reader[Worker].pc # "idle" => worker.pc = "load"
  /\ \A t \in Thread :
       /\ reader[t].pc \in {"idle", "scan", "read", "rest"}
       /\ reader[t].file # 0 <=> reader[t].pc \in {"read", "rest"}
       /\ reader[t].linked => /\ reader[t].file # 0
                              /\ reader[t].map = files[reader[t].file].map
  /\ Known(mem) \subseteq SaidIds

\* No entry points to a freed block and no block outlives its entries: the use
\* list, the id map, the blocks' own lists, their reference counts and the byte
\* count all tell the same story after every section under tool_mu.
BlocksCounted ==
  /\ ToSet(mem.lru) = Known(mem) /\ IsInjective(mem.lru)
  /\ DOMAIN mem.refs = {mem.dsml[id] : id \in Known(mem)}
  /\ \A d \in DOMAIN mem.refs :
       /\ ToSet(mem.owners[d]) = {id \in Known(mem) : mem.dsml[id] = d}
       /\ IsInjective(mem.owners[d])
       /\ mem.refs[d] = Len(mem.owners[d])
  /\ mem.bytes = EntryBytes * Len(mem.lru) + BlockBytes * Cardinality(DOMAIN mem.refs)

\* The bounds hold whenever tool_mu is free, whatever mixture of turns, restores
\* and reused blocks filled the memory.
BoundsKept == Len(mem.lru) <= MaxEntries /\ mem.bytes <= MaxBytes

\* Forgetting goes by last use: an id is forgotten only if every id that was used
\* before it is forgotten, too, except the one that is just being put; and a turn
\* is remembered at the expense of older ones, never the other way round: its last
\* id stays unless even alone it does not fit.
ForgetsOldest ==
  [][restarts' = restarts =>
       /\ \A i, j \in DOMAIN mem.lru :
            i < j /\ mem.lru[i] \notin Known(mem') =>
              mem.lru[j] \notin Known(mem') \/ mem'.lru[1] = mem.lru[j]
       /\ Len(said') > Len(said) /\ Known(mem') # {} =>
            mem'.lru[1] = Last(Turns[Len(said')])]_vars

\* ds4_server.c:7560: a client that sends an id back gets the sampled block
\* verbatim: no message, not one that mixes calls of several turns either, is
\* rendered by a block that was not sampled for all of its calls.
SampledVerbatim ==
  \A p \in Parser : \A r \in raw[p] :
    \A i \in DOMAIN r.ids : Sampled(r.ids[i]) = r.dsml

\* The same, as long as no record was read across a rewrite of its file.
ReplayVerbatim == ~torn => SampledVerbatim

\* The map of a file names only blocks of its own text, each under ids it was
\* sampled for, across crashes, restarts and partial restores.
MapsFitTheirText ==
  ~torn => \A n \in DOMAIN files : \A i \in DOMAIN files[n].map :
             LET r == files[n].map[i]
             IN r.dsml \in ToSet(Text(n)) /\ Sampled(r.id) = r.dsml
=============================================================================
