# Verification of ds4-server

ds4 runs one large model on one machine. `ds4-server` puts HTTP APIs (OpenAI
chat and completions, OpenAI Responses, Anthropic messages) in front of one
inference session. The session is expensive: its KV state is kept alive
between requests, saved to disk, and continued whenever a new request can be
shown to extend it. This directory holds TLA+ specifications of the parts of
that program in which order, failure and sharing decide about correctness, the
TLC configurations that check them, and proofs for instances of any size: of every
safety, action and refinement property of the job queue, the live session, the
disk cache, the tool call memory, the inference session with its speculative
decoding, a streamed turn and the CPU worker pool.

Line numbers below are of `src/ds4_server.c` unless another file is named.

## 1. The system

| Component | State | Operations | Interacts with |
|---|---|---|---|
| Server threads and job queue (37–52, 10963–11003, 11150–11242, 11352, 11586–11717) | `g_stop_requested`, `g_listen_fd`, `stopping`, `clients`, the list of `job`s on the clients' stacks | accept, spawn, enqueue, dequeue, finish, `client_done`, signal, shutdown | owns the thread that runs everything below |
| Live session continuation (`generate_job`, 10168–10961) | `responses_live`, `anthropic_live`, `thinking_live`, cache source, finish reason | lookup, refuse, prefill, decode, remember, canonicalize | session, disk cache, tool memory, parser threads (through `tool_mu`) |
| Disk KV cache (8115–9243) | `<sha>.kv` files, `kv.entry`, `continued_last_store_tokens` | store, find, load, touch, evict, tool map rewrite | session payload, tool memory |
| Tool call memory (7556–7745, 7885–8030) | id map, DSML blocks with reference counts, LRU list, byte count | put, lookup, prune, attach, save to and load from KV files | parser threads, worker, disk cache |
| Session (`ds4.c` 15676–18425) | `checkpoint`, `checkpoint_valid`, backend KV state, MTP draft | sync, eval, invalidate, rewind, snapshot, save, load | backend |
| Speculative decoding (`ds4.c` 16010–16117, 17811–18404) | draft token, frontier snapshot | draft, verify, commit, roll back | session, backend |
| Parsing and rendering (2395–4000) | a `request` | validate tool outputs, render prompt | tool memory, live bindings |
| Streaming and generated-text parsing (4146–4560, 5150–7480) | per-request trackers, stream projections | feed, split into deltas, final parse | decode loop, socket |
| CPU worker pool (`ds4.c` 608–774) | posted job, generation, `done`, the workers' `seen_generation` | call, post, wait, work, shutdown | CPU reference kernels |
| Backends (Metal, CUDA, Ascend) | device buffers, weight caches | kernels | session |
| CLI, benchmark, gguf tools, vendored rax and linenoise | – | – | – |

What is hard:

* **Threads.** A job lives on the stack of its client's thread, the worker
  holds a pointer to it, `main` frees the session after both. Signals arrive on
  any thread; condition variables wake spuriously.
* **Evidence.** A client does not replay hidden reasoning. Whether its next
  request continues the live session is decided from a token prefix, from a
  remembered visible transcript or from tool call ids – the last two together
  with the *length* of the session only. Every path that changes the session
  must keep that evidence true, failing ones included.
* **Time of check.** The parser thread looks at live ids; the worker executes
  the request after others have replaced the session.
* **Persistence.** A file is keyed by visible text but holds hidden tokens; it
  outlives the process.
* **Limits.** Context size, disk budget, tool memory bounds.

What makes each component correct:

* queue: no dangling job, exclusive shutdown, nobody stranded, everybody
  answered, the threads together are a FIFO service;
* continuation: a request is answered from its own transcript; a binding
  describes the session; direct follow-ups keep hidden reasoning;
* disk cache: a file restores what its key says, the store schedule follows the
  session, a crash at any step leaves files that load or are passed over, and
  nothing is forgotten while the server runs except for the budget;
* tool memory: reference counts and byte counts are exact, bounds hold, the least
  recently used id is forgotten first, a message is rendered only by the block
  that was sampled for all its calls, the map of a file fits its text;
* session: `checkpoint_valid` implies that the backend holds exactly the
  checkpoint, as long as the session was not rewound; speculative decoding commits
  what plain decoding would have produced, until a batch verifier has committed
  rows of its own, and reports what it commits;
* streaming: what was streamed adds up to what the whole text means, where the two
  readers of the text begin at the same marker, and nothing is shown that may have
  to be taken back;
* worker pool: a call returns when every row was computed once and no worker is
  left in the job, and it always returns.

## 2. Modules

| Module | Models | Refines / uses |
|---|---|---|
| `RequestService` | abstract: an admitted request is served once, one at a time, in the order of admission, and the service goes down when it is idle | – |
| `ServerQueue` | the threads of ds4-server | implements `RequestService` |
| `MCServerQueue` | TLC instance: two connections, signals on any thread | `ServerQueue` |
| `ServerQueueProofs` | theorems for any finite set of clients | `ServerQueue`, TLAPS |
| `LiveSession` | `generate_job`, the live bindings, `ds4_session_sync`, the disk cache as the worker sees it, clients that retry | – |
| `MCLiveSession` | TLC instance: a Responses, an Anthropic and a chat client | `LiveSession` |
| `LiveSessionProofs` | theorems about late errors, evidence, answers, files, reasoning and the store schedule, for any conversations, context, chunk size and schedule | `LiveSession`, `CountingLemmas` |
| `ToolMemory` | the memory of sampled tool calls and the tool-id maps of KV files, shared by worker and parser threads | – |
| `MCToolMemory` | TLC instance: conversations of one and two turns with one or two calls each | `ToolMemory` |
| `ToolMemoryProofs` | theorems for any turns, blocks, limits, parser threads and histories | `ToolMemory`, `CountingLemmas` |
| `PrefixStore` | abstract: a store of sessions under text prefixes that may forget but answers a lookup with nothing or with one of them | – |
| `KvDiskCache` | the directory of snapshots: store, rename, evict, find, load, consume, crash, power loss, restart with other options | implements `PrefixStore` |
| `MCKvDiskCache` | TLC instance: four histories, three configurations | `KvDiskCache` |
| `KvDiskCacheProofs` | theorems for any histories, prompts, configurations and options | `KvDiskCache`, `CountingLemmas` |
| `EngineSession` | one session of `ds4.c`: sync, eval, speculative decoding, save, load, rewind, invalidate, against the backend's rows | – |
| `MCEngineSession` | TLC instance: a context of nine tokens, a ring of six rows | `EngineSession` |
| `EngineSessionProofs` | theorems for any model, prompts, sizes and number of drafts | `EngineSession`, `CountingLemmas` |
| `DsmlText` | the grammar of generated turns: markers, the parse of a whole text, the decode tracker | – |
| `StreamOutput` | the decode loop and the three stream projections of one turn | `DsmlText` |
| `MCStreamOutput` | TLC instance: 26 texts, every request | `StreamOutput` |
| `StreamOutputProofs` | theorems for any texts, tokens, requests and ends of a turn | `StreamOutput`, `CountingLemmas` |
| `RowJob` | abstract: between call and return every row is computed by one thread | – |
| `ThreadPool` | the CPU worker pool | implements `RowJob` |
| `MCThreadPool` | TLC instance: four threads | `ThreadPool` |
| `ThreadPoolProofs` | theorems for any number of threads, job sizes and thresholds | `ThreadPool`, TLAPS |
| `CountingLemmas` | induction over numbers and sequences, division, sums over finite sets, folds, joined sequences | TLAPS |

### ServerQueue

State corresponds one to one: `stopFlag` = `g_stop_requested`, `gListen` =
`g_listen_fd >= 0`, `stopping`, `clients`, `queue` = the list from `head` to `tail`,
`done` = `j.done`, `workerJob` = the worker's local pointer. `mainPc`, `workerPc`
and `pc` are the positions of the threads. A section between `pthread_mutex_lock`
and `unlock` is one action, and a `pthread_cond_wait` ends one action and begins
another, so that every interleaving of the sections is explored; `SpuriousWakeup`
models waits that return without a signal. `holding` is the client thread while it
owns `j.mu` (from before `enqueue` until it sleeps): `FinishJob` needs that mutex.
`SignalOnMain` runs the handler in one step, because the interrupted main thread
cannot move meanwhile. The code masks the signals in no thread, so a handler may
also run beside main: `SignalElsewhere` enters it, `HandlerTest` looks at
`g_listen_fd`, `HandlerClaim` takes the number out of it – minus one, if main was
there in between (11691–11694) – and `HandlerClose` closes it. Both may then close
the same number, which by the second time may belong to another file.
`ListenerGivenUp` says what is left of that: once main is past the listener no
number is published, the descriptor is closed or the handler is about to close it,
and a second `close` happens only beside such a handler (`listenCloses`). `answer`
records what was written to the socket. `_exit(130)` of the second signal is
`killed`, after which nothing moves.

### LiveSession

One token stands for one message: which conversation it belongs to, its place
in the transcript and how the session spells it (`visible` as clients replay
it, `hidden` reasoning, a tool call `sampled` differently from its canonical
form, a `partial` message of a broken stream). Text is rendered token by token,
so a byte prefix is a prefix of the sequence. The first message is shared by
all conversations, as a system prompt is. Actions follow `generate_job` from
top to bottom: `Begin`, then one of `LiveHit`, `Refuse` (409) and `LiveMiss`
according to `Candidates`, which lists the seven sources in the order the code
tries them; `DiskHit`, `DiskLoadFails`, `DiskMiss`; `PrefillChunk`,
`ColdPrefixDone`, `PrefillDone`, `PrefillFails` for `ds4_session_sync`;
`ClientGone`, `DecodeReasoning`, `DecodeEnd` for the loop; `Finish` or
`BeginRebuild` … `EndRebuild` for what follows it. `SendReplay` and
`SendToolOutput` are clients and the parser threads, which run at any time and
read the bindings. A turn with tool calls may be rendered canonically and tokenized
again (`Canonical`, 9917): its reasoning may then be of any length up to
`MaxReasoning`, so that the rebuilt session may be shorter than the sampled one. Two
fields are history only: `was` in a binding is the
session it was remembered for, and `stale` notes a "binding" whose length fits a
session it does not describe, which a failed request left, and a "schedule" ahead of
the session, which a failed prefill that had started over or a rebuild from nothing
left.

Abstractions: a file is a key and a token sequence, complete or absent, and any
file may be the victim of an eviction; a prefill chunk is optional, since a
short suffix is evaluated without callbacks and a due store may fail anyway;
`raw_cap` is at least the chunk size; all conversations think, and those with
tools neither replay nor are remembered by the thinking binding
(`prompt_preserves_reasoning`).

### ToolMemory

`mem` is `s->tool_mem`: `lru` the list from `head` to `tail`, `dsml` the map
`by_id`, `refs` and `owners` the blocks of `by_block` with their counts and
entry lists, `bytes`. The helpers are named after their `tool_memory_` functions
and run inside one action, as they run inside one section of `tool_mu`: `Prune`
unrolls the loop as a function of the number of removals and stops at the first
that fits. `live` is the turn whose end the session's text has reached, which
`Remember` (a turn ends in tool calls), `Prefill` and `Load` move. A file is the
text up to the end of a turn (`Chain`), whether its header announces a map, and
the map. `Store` decides as `kv_cache_store_live_prefix_text` does: a file that
is there is kept and its map rewritten in place – `Truncate`, `WriteMap` (which
may fail after any record) and `WriteFlag` are separate, so that parser threads
and a crash come between – a new one is written aside and renamed (`Create`), with
the flag from the earlier look at the memory. `Ask`, `Open`, `ReadId`,
`ReadBlock` and `Attach` are a parser thread that restores the ids of a request
from every file and then renders its messages; the worker reads a file it loads
in the same way. A thread sees what the file holds now, until the file is
unlinked; then it keeps the old content. `torn` is history: a record was put
whose id and block come from before and after a rewrite.

Assumptions: a turn samples at least one call, no id is sampled in two turns, and
the text up to the end of a turn (`Chain`) is that of an earlier turn with this one
behind it. Abstractions: ids and blocks have one length each, so a rewrite shifts
records but does not cut through them; fresh ids are different from all others (they
are random, and tested against the memory); a canonical rendering of a call differs
from the sampled block, and other text than tool calls is left out; a file that is
there is compatible; whether an entry came from RAM or disk, which only statistics
use, and `--disable-exact-dsml-tool-replay`, which turns all of this off, are left
out.

### KvDiskCache

`disk` maps a text to the snapshot in its file; the text stands for its SHA1, a
token is one piece, and `Visible` drops hidden reasoning, so a history may be
saved under two texts. `job` is where the worker stands in a store (`write`,
then `evict`) or a lookup (`load`), with the text it stores and the prompt it
will look up next. `Store` and `SwitchAway` decide like
`kv_cache_store_live_prefix_text`: a compatible file is kept, any other is
replaced. `Publish` is the rename, after which the file is whole; a crash before
it leaves a temporary file that nothing reads. `EvictOne` takes a victim with
the lowest score per byte and `EvictFails` is an `unlink` that fails, which ends
the loop. `Found` is the longest usable text that is a prefix of the prompt;
`Load` consumes or touches the file, and both may fail silently; `LoadRefused`
is the engine's own test of the payload. `PowerLoss` may leave any file short,
because nothing is flushed.

`PrefixStore` is what the rest of the server relies on: it may forget anything, but a
lookup (`Ask`) is answered with nothing (`Miss`, which may have cost the session) or
with a session that was saved under a prefix of the prompt, token for token, by an
engine of the same layout (`Recall`). While a prompt is `asked` for, the engine
computes nothing and nothing is saved or forgotten, so a session that is live after
a load can only be one the store held, whether the load consumed its file or kept
it. `Saves` is a parameter because which texts a session may be saved under is the
business of its user.

### EngineSession

A backend row is identified with the text it was computed from: `gpu.raw` is the
ring of recent rows, `gpu.comp` the compressed rows, `ncomp` their counter and
`front` the compressor's frontier; a kernel that reads a row of another text
computes `Garbage`. All layers are one, since all of them move together.
`call` is what a running call remembers between two of its steps, and a failure
may end it after any of them. A prefill runs in batches (`PrefillChunk`), as one
graph (`PrefillWhole`) or token by token (`ExtendToken`), as
`ds4_session_sync` chooses. Speculative decoding evaluates the first token,
drafts (`SpecDraft` takes any token for a draft, so nothing rests on the
drafter), and verifies with one, two or a batch of tokens – a batch only if it is
not larger than a prefill batch (`ds4.c` 13753) – or falls back to
sequential decoding; `Frontier` and `Restore` are the snapshot and roll-back of
the counters, which leave the rows where they are. `Save`, `Load` and
`LoadFails` are the payload; `CallerInvalidates` is what the server does after a
failed load. `Rewind` is `ds4_session_rewind` (`ds4.c` 18412), which shortens the
checkpoint and touches nothing else: the session stays valid while rows, counters,
frontier and logits are those of the longer text. `RewindTo` bounds the lengths it
is called with. Two variables are history. `tainted` says that the backend was left
ahead of the checkpoint, by a rewind or by a roll-back that failed and was ignored,
until a prefill from the first token or a load. `rounded` says that rows of the
session were computed by the batch verifier.

The batch verifier does not compute what one-token decoding does: it "may pick a
different greedy token when batched reductions perturb nearly-tied logits" (`ds4.c`
17979, and 13828). The target model is therefore two parameters: `Greedy`,
the token decoding one by one puts first, and `Close`, the tokens that a batch may put
first instead. `RoundingAssumption` says that the former is one of the latter, and
nothing else is assumed of them. A batch chooses within `Close`, and so does
everything behind rows it has committed (`TopsWhen`).

Abstractions: apart from that choice a row is right or wrong; one compression ratio
above two stands for 4 and 128; the MTP cache follows the same counters.

### DsmlText and StreamOutput

A text is a sequence of atoms: the pieces of a marker that a token boundary can
separate (`<`, its name, `>`), letters, quotes, a newline, an entity and a
two-byte character. `DsmlText` reads whole texts: where a literal starts or may
start, the descent of `parse_generated_message` (`ParseCalls`, `ParseArgs`: one
recursive function each over the positions of the text, whose step, `CallsFrom`
and `ArgsFrom`, takes the function as a parameter) and the decode tracker
(`Track`). There are two searches for the block: the streams, the tracker and the
marker scan take the first marker (`ToolStart`, `find_any_tool_start` 4183), the
final parser takes the first that stands behind a blank line, wherever it is, and
only without one the first (`BlockStart`, 4392). A raw argument is reduced to the one
JSON value it begins with, kept as it is when it begins with none, and `null` when it
is empty (`Minified`, `ArgValue`, 4280–4291); that is the final parser's doing only.
`StreamOutput` is a turn: `Token` appends
up to `MaxToken` atoms of one of the scripts and does what the loop body does in
its order – tracker, stop strings, stream update, marker scan –; `OneToken` says
that `</think>` and the name of the tool marker are tokens of the vocabulary
(`ds4.c` 14882), so no token of other text ends in one or goes on behind one;
`EndTurn` ends
it at any point for any reason, `LoseClient` is a failed write, and `Finish`
runs the recovery, the final parse and the API's finish stage. `out` is kept as
what a client makes of the events. The three projections share the state
machine of modes and differ in what they hold back, when they open blocks and
how they send arguments, which `Update` and the `Finish…` operators take per
API.

Abstractions: a text keeps to one of the three spellings of a marker (the final parser
prefers the first spelling to an earlier marker of another, which is the same
disagreement with the streams as that about blank lines); names and the layout of
JSON are left out, and with it the whitespace that `json_minify_raw_value` takes out
of the inside of an object; an argument is its list of atoms; `Window` replaces the 80
bytes in which a split marker is looked for; legacy completions and the item
events of Responses are left out.

### ThreadPool

An action is one critical section of `g_pool.mutex`, or one stretch of computing
between two. `generation`, `nRows`, `done` are the pool's fields, `seen` each
worker's `seen_generation`, `slice` the rows it read when it took the job.
`WakeWorkers` is the broadcast; a thread asleep also wakes for no reason.
`computed` and `asked` are history for the refinement: how often each row was
computed, and the size of the call. `RowJob` states what callers rely on.

## 3. Runs

| Run | Instance | Shows |
|---|---|---|
| `server_queue` | 2 clients, signals on any thread | `TypeOK`, `NoDanglingJob`, `NoUseAfterClose`, `NoStrandedJob`, `ListenerGivenUp`, `ImplementsService`, `EveryClientLeaves`, `StopEndsProcess`, `NextConnectionEndsStop` |
| `session_continuation` | 3 clients, transcripts of up to 8 messages, context of 8, no disk | `AnsweredFromOwnTranscript`, `LateContextErrorIsLive`, `ReasoningKept` |
| `session_failures` | 2 clients, one file, restarts at any time, everything may fail, tool calls are canonicalized to more or fewer tokens, context of 5 | `BindingsDescribeSession`, `KeyDescribesPayload`, `ScheduleNotAhead` |
| `session_stale_binding` | 2 clients, prefills may fail | *violated*: `ReadOwnTranscript` |
| `tool_memory` | 2 turns, 3 ids, 2 blocks, 1 parser, files, memory for 2 ids or 5 bytes, one restart | `TypeOK`, `BlocksCounted`, `BoundsKept`, `ForgetsOldest`, `ReplayVerbatim`, `MapsFitTheirText` |
| `tool_torn` | 3 turns in 2 conversations, 2 parsers | *violated*: `SampledVerbatim` |
| `kv_disk` | 4 histories, 2 prompts, 3 configurations, a budget of 6, two faults | `TypeOK`, `WithinBudget`, `ImplementsPrefixStore`, `NothingLostWhileServing` |
| `kv_poisoned` | the same, other quantisations accepted | *violated*: `KeptFilesLoad` |
| `engine_session` | context 9, ring of 6, batches of 4, 4 prompts, up to 3 drafts, rewinds to 8, nearly tied tokens at some lengths | `TypeOK`, `ValidMeansExact`, `FilesExact`, `DraftsAreGreedy`, `ReportsWhatItCommits` |
| `stream` | 26 texts, three APIs, tokens of up to 3 atoms | `StreamedMatchesFinal`, `NoToolSyntaxShown`, `NoSplitCharacters`, `StopNotShown`, `BlocksClosed` |
| `stream_final_object` | the same | *violated*: `StreamsFinalObject` |
| `thread_pool` | 4 threads, jobs of 0 to 7 rows, generations modulo 2 | `TypeOK`, `JobOutlivesWorkers`, `ImplementsRowJob`, `CallsReturn` |

**Bounds.** Two clients are enough for one job in the worker's hands and one in the
queue, or one that is just accepted or leaving; the proofs are for any number. A
session needs two conversations to confuse and a third turn to show what the second
turn remembered; the context is as long as the longest transcript in
`session_continuation`, and in both runs hidden reasoning may make a prompt longer
than it. `Chunk` 3 puts a chunk boundary inside a prompt, `ColdMax` 4 lies between the
prompts so that files are both kept and consumed, and one file makes every second
store an eviction. `MaxVisible` and `MaxReasoning` only bound the exploration, and the
server may restart any number of times. In `tool_memory` an entry counts one byte and
a block two, so that two entries of two blocks exceed the bytes that two entries of
one block fit in: both limits are reached, every restore of the whole conversation
forgets something, and rewritten maps lose records. In `kv_disk` the three histories
longer than one piece do not fit together, `ColdMax` is below the longer ones, and the
three configurations differ from each other in quantisation, in chunk and in context;
two faults are a crash and a start under another configuration with files of the
first. `engine_session` has a ring that wraps inside the context, a window shorter
than a batch, prompts that extend each other by one token, by less and by more than
the shortest resumed prefill, one that leaves the others after the first token, and a
model that ends a turn inside an accepted draft. Its rewinds go to eight tokens of a
context of nine, where both a rewind that gives up tokens and one that does not are
met. The texts of `stream` put every marker, whitespace before it, an entity, a
two-byte character, a stop string and a malformed or unfinished block at every token
boundary; four of them have a marker, or a block begun badly, before one behind a
blank line, and three a raw value the final parser rewrites. Four threads with 5 rows
leave the last thread without any; generations modulo 2 make a worker that missed a
job see its own number again, which is what 2^32 jobs would do.

**Deadlock** is checked in the queue, session engine and pool runs (an ended
process stutters). The continuation runs say `CHECK_DEADLOCK FALSE`: when every
client has reached `MaxVisible` the server is idle and nothing has to happen.
The tool and cache runs say it too: with all turns sampled, or all faults used
up, nothing is due. A finished turn of `stream` is over.

**Fairness.** `server_queue`: weak fairness of main, the worker, the handler and
every client thread: the system schedules runnable threads, and the I/O
timeouts and `max_tokens` bound parsing and generating. `FinishJob` is strongly
fair: a client may take `j.mu` again after each spurious wakeup, so the worker
can find it busy again and again, and a mutex that is free infinitely often is
eventually obtained. No fairness for clients that connect, for signals,
spurious wakeups or failing calls. A signal handled on another thread does not
wake a blocked `accept()`: `StopEndsProcess` is about a stop that finds main
elsewhere, and `NextConnectionEndsStop` says that a connection that is waiting is
enough otherwise. `thread_pool`: weak fairness of the caller and of every
worker, none for spurious wakeups or for new calls.

### What the violated runs show

* `session_stale_binding`: `ds4_session_sync` fails for client B after its first
  chunk; `generate_job` returns before it clears A's binding. The session now
  holds a prefix of B's prompt with the length of A's binding, so A's next
  replay is taken for a continuation and is answered behind B's tokens. The
  passing runs show that this is the only way: as long as no failed request has
  left such a binding (`"binding" \notin stale`), evidence, answers and files are right.
* `tool_torn`: a file holds the map [a, b]. Another conversation samples the
  block of a once more under c, so the next rewrite of the map is [c, a, b]. A
  parser thread has read the id b of the second record, the worker rewrites the
  file in place, the parser reads the block of the second record, which is now
  that of a, and `tool_memory_put_locked` replaces what the memory held for b: the
  next replay of b is rendered as a. `ReplayVerbatim` shows that reading across a
  rewrite is the only way to a wrong block.
* `stream_final_object`: an Anthropic turn calls a tool with an empty raw
  argument. The projection sends the key, the colon and the closing brace
  (`anthropic_tool_stream_update`), the final parser makes `null` of the value
  (4288), although the comment above the projection says it streams "exactly the
  same object that the final DSML parser will build" (6889). The same property fails
  where the two readers begin at different markers. There the harm can be larger: if
  the first block fails live (6997), its tool block stays open, and the calls of the
  block behind the blank line are sent inside it.
* `kv_poisoned`: a server with a small context writes a file; below 2048 tokens
  the prefill chunk is the context size, and it is part of the payload. A server
  with a larger context finds the file, judges it by quantisation and context
  only and keeps it instead of storing its own; every load refuses it and
  invalidates the session, until it is evicted.

### Where properties name an exception

Properties that hold but for one case state that case, and it is something the
code does:

* `ReasoningKept` – after a Responses turn that sent only a tool output, the text
  remembered with the live frontier is that tail and the answer (10788); the
  next full replay does not begin with it, the live session is missed and its
  hidden reasoning is lost.
* `ScheduleNotAhead` (`"schedule" \notin stale`) – two things leave the schedule of
  continued stores (8815) ahead of the session, and no checkpoint is stored until the
  session is as long as it was. A prefill of an invalid session that starts over and
  fails behind the first chunk: a retry that continues the short session by text
  (10256) counts as cached, so 10273 does not restart the schedule. And a tool call
  that is rebuilt from nothing (10056–10130), when the canonical text has fewer tokens
  than were sampled: only a file that is loaded for it sets the schedule.
* `LateContextErrorIsLive` – the context limit is tested on the client's prompt
  (4680); the prompt that is run also holds hidden reasoning and may be rejected
  by the session with a 500. The property says that only requests that continue
  the session, from the live session or from a file, meet this.
* `Refuse` answers lost tool state with 409 (10225), where `misc/RESPONSE_API.md`
  names 400.
* `Typed` – an argument without a `string` attribute is accepted by the final
  parse and stops the live projections (5544, 7044, 4467), so the client is told
  to run a call whose arguments it never got whole.
* `BlockInReasoning` – a block that begins in the reasoning may hold a `</think>`
  and another start marker in one of its values. The final parser (4402) reads the
  outer block; the projection ends the reasoning at the `</think>` (7207), takes
  the inner marker for the block and may be left with a tool block that is open:
  `BlocksClosed` is about the other turns.
* `ThinksFirst` – without a `</think>` the streamed reasoning has no end, and the
  final parser takes the whole text for content; `StreamedMatchesFinal` is about
  turns that close their reasoning, before a tool block if there is one.
* `ObserveToolMarkers` – an end marker counts only behind a start marker, but one
  that was ignored before is read again with the overlap of the next scan
  (4215), so a start marker makes it count.
* `FirstBlock` – the final parser takes a marker behind a blank line before an earlier
  one (4392), the streams take the first (4183). `StreamedMatchesFinal` and
  `BlocksClosed` are about texts whose first marker is the one the final parser takes,
  and about those without any; `StreamsFinalObject` shows what happens to the others.
* `Verbatim` – the final parser rewrites a raw value that is empty or is more than one
  JSON value; `StreamedMatchesFinal` is about blocks without such values.
* The tracker – it steps over a `<` that stands alone at the end of the text inside an
  argument and then misses the closing marker (5294), so what it says depends on how
  the tokens were cut. It only chooses the sampling temperature, and the code's one
  reading of a whole text to compare it with (`dsml_decode_state_for_text`) belongs to
  a test and scans JSON values in another way; the tracker is modelled, but no property
  is about it.
* `tainted` in `EngineSession` – the result of restoring the frontier is ignored
  (`ds4.c` 18273), and `ds4_session_rewind` leaves the session valid with the backend
  ahead of it. `ValidMeansExact`, `FilesExact` and `DraftsAreGreedy` are about sessions
  neither has happened to since they were filled; without the exception they are
  violated. What the code does guard is the capacity of the compressed cache, which a session that is rewound and
  decoded again fills with a row each time it passes the same boundary: `TypeOK`.
  The rewind is part of the engine's interface (`ds4.h` 178); nothing in the repository
  calls it.
* `rounded` in `EngineSession` – speculation is exact as long as no batch verifier has
  committed rows; from then on `DraftsAreGreedy` says that what is accepted is nearly
  tied with it (`Close`).
* `SizesAssumption` – the raw ring is clamped to 8192 rows (`ds4.c` 13982), so a
  window and a prefill chunk have to fit in that, as the comment above the function
  says; the code does not test it. Without it (a window of 3, chunks of 4, a ring
  of 4) a batch overwrites rows it still reads and `ValidMeansExact` fails.

## 4. Proofs

### The job queue

`ServerQueueProofs` proves, for every finite set `Client` and every
`SignalThreads`: `TypeCorrect`, `JobsNeverDangle`, `ShutdownIsExclusive`,
`ClientsAreCounted`, `NobodyStranded`, `ListenerIsGivenUp` and
`ThreadsImplementService`. The assumptions are those of `ServerQueue`: `Client` is
finite, `NoJob` is not one of them.

None of these invariants is inductive alone. `IInv` conjoins `TypeOK`,
`NoDanglingJob`, `NoUseAfterClose` and `ClientCount` with

* `AnswerInv` – nobody is answered before the worker, or the client's own
  thread, does it: a client that has not reached the queue, is queued, or is in
  the worker's hands before `generate_job` has no answer,
* `HandoffInv` – what main holds between `accept()` and `pthread_create()` is a
  connection that no thread serves yet,
* `WaitInv` – a job is fresh until it is queued, and a client that waits for an
  unfinished job is known to the worker: its job is queued or in its hands,
* `PhaseInv` – how far main is in its shutdown tells what the worker and the
  clients did: `stopping` is set, the worker has returned with an empty queue,
  no client is counted, the resources are open.

`Invariance` proves `Init => IInv` and `IInv /\ [Next]_vars => IInv'`, one step
per action and one per conjunct the action can disturb; the theorems project
from it. The refinement theorem maps the initial state and every step to a step
of `RequestService` or a stutter, with the FIFO order from `Enqueue` and
`DequeueJob`, the unanswered client of `Serve` and `Refuse` from `AnswerInv`, and
the idle condition of `GoDown` from `PhaseInv`.

### The live session

`LiveSessionProofs` proves `LateErrorsContinue`: `LateContextErrorIsLive`, for all
conversations, limits and failures under the assumptions of `LiveSession`. The
invariant keeps every text of the system (the session, the files, the bindings,
the queued requests) a sequence of messages, and adds

* `JobOK` – the text of a request in the worker's hands is not empty and
  shorter than the context, which is all that `request_exceeds_context` asked
  when the request was parsed,
* `PromptOK` – while the session is synchronised, the part of the prompt the
  sync runs to is a nonempty prefix of it.

A prompt that is the job's own text therefore fits. What may not fit is a prompt
put together from what the session holds, or a file just loaded into it, and the
rest of the text; and such a prompt extends a session that is not empty.

*Evidence.* `AnswersFollowOwnTranscript`, `LengthIsEvidence` and
`FilesRestoreTheirKeys` project from one invariant, `EvidenceInv`. Its part
`RequestsKnown` says what every request is: the whole transcript of its client up
to the next message, or that message alone, with the call its client last learnt
of. The part `Truth` holds unless a failed request left a binding that fits
another session (`"binding" \notin stale`) and says

* `BindingsFaithful`, `FilesRestore` – what a binding says of the session it was
  remembered for, and a key of the session in its file, is true: they show the same
  text,
* `RestTrue` – between jobs no binding with the length of the session was
  remembered for a session that shows something else,
* `SyncTrue`, `DecodeTrue`, `FinishTrue`, `RebuildTrue` – by the position of the
  worker: the prompt shows the transcript of the client and is longer than the
  binding the request continues from; the bindings that are left are of that
  kind, and the session is the prompt and hidden reasoning; the finished turn
  shows its answer; the canonical text shows it too, and every binding that has just
  been remembered tells of this transcript.

So while a turn is decoded the only binding left is the one it continues from,
which is shorter than the session, and it is replaced or cleared when the turn
ends. `Visible` is a
function on sequences; `VisibleConcat`, `PlainShowsItself` and
`HiddenShowsNothing` are what the steps need of it.

*Reasoning.* `ReasoningIsKept` rests on `TurnsInv`: a binding with a text was
remembered at the end of the turn this text tells of, and its session ends in the
answer. A looked-up request that begins with what the session shows therefore
begins with the text of the binding, unless that is of a tail (`text[1].at # 1`).

*Schedule.* `ScheduleStaysBehind` proves `ScheduleNotAhead`. `ScheduleInv` says, by the
position of the worker and unless `stale` notes the schedule, how far it is
(`Scheduled`): never beyond the session, or beyond what a prefill or a rebuild that
continues the session will make of it. Every step keeps it for a reason of its own: a
hit makes a prompt that is not shorter than the session, a load sets the schedule to
what it loaded, a miss restarts it, a store puts it where the session is, and a
failure that leaves a shorter session is noted. Of a rebuild from nothing it says
nothing; whether that has left a shorter session is noted at its end.

### The disk cache

`KvDiskCacheProofs` proves, for all histories, prompts, configurations and
options that satisfy the assumptions of `KvDiskCache`:

* `StoreLenBounds`: the length a snapshot is taken at is never more than the
  session has, and never less than the minimum once the session has that;
* `TypeSafety`: `TypeOK`, with the snapshots of the directory at least as long
  as the minimum, which is where that bound is needed;
* `NothingIsLost`: `NothingLostWhileServing`. An eviction is the only removal
  that needs an argument of its own: it happens in `evict` and over the budget;
  a publish replaces a file only if `NewFile` was true of it when the store
  began, which the invariant carries to the publish;
* `DirectoryIsAPrefixStore`: `ImplementsPrefixStore`. The abstract store is what
  the whole files hold (`Held`), and `asked` is the prompt the worker is about to look
  up. So a kept, touched or failed file is a stutter, a removal or a power loss a
  `Forget` or a `Boot`, a publish a `Put`, a switch or the end of the store before it an
  `Ask`, a load a `Recall` and a load that finds nothing or is refused a `Miss`. The
  invariant `RefInv` adds what these steps need: the text a store was begun for is
  still one of the session's when it is published, since the worker does nothing else
  between, and a load is for a prompt;
* `StaysWithinBudget`: `WithinBudget`. The size of the directory is a sum over
  its files, a fold that chooses a file at every step; `SumIs` and `SumTakesAny`
  solve it, `SumMonotone` says that a removal does not make it larger. `BudgetInv`
  carries that the directory is finite, and within the budget whenever the worker
  is not between a publish and the end of the eviction behind it, unless an
  `unlink` failed.

### The tool call memory

`ToolMemoryProofs` proves, for all turns, blocks, limits, histories and parser
threads that satisfy the assumptions of `ToolMemory`, every property of its run:

* `CountsAgree`, `MemoryIsBounded`: `BlocksCounted` and `BoundsKept`. `Counted` says
  of a memory that the use list lists the ids of the map once each, that the
  entry list of a block lists the ids that map to it, `refs` is how many, and `bytes`
  the weight of the ids and the blocks. Each `tool_memory_` helper preserves it;
  `Prune` is a function of the number of removals, solved by induction on the
  length of the list, which it shortens from the tail until it fits.
* `ReplaysWhatWasSampled`, `MapsAreOfTheirText`: `ReplayVerbatim` and
  `MapsFitTheirText`. `Recs` are the records that may exist at all – an id with
  the block sampled for it, and any once a map was read across a rewrite – and
  `IInv` says that the memory, every file and unlinked copy, what the worker is
  writing and what a reader has in hand hold such records only. A step grows
  `Recs` or leaves it, so only what the step itself writes has to be looked at.
  The folds over what is looked up or put are solved by `SomeFold`.
* `ForgetsTheOldest`: the helpers keep the order of the use list (`Ahead`) among the
  ids they do not touch, and the ones that are forgotten are its tail.
* `TypeCorrect`: `TypeOK`.

### The inference session

`EngineSessionProofs` proves `TypeSafety`, `ValidSessionsAreExact`,
`PayloadsAreExact`, `SpeculationIsGreedy` and `ReportsAreExact`, which are all the
properties of its run, under `SizesAssumption`, `TokenAssumption` and
`RoundingAssumption`: for every target model, every notion of nearly tied, drafter,
context, window, ring, batch, ratio above two, number of drafts and failure. `IInv`
conjoins `Types`, `FileInv` and `CallInv`, which has one part for each kind of
running call:

* `AtRest` – a valid session between calls has every row it will attend to,
* `PrefillInv`, `ExtendInv`, `WholeInv` – while a prompt is read in, the rows are
  those of the prompt up to where the prefill is (`Holding`), wherever it began,
* `DraftInv`, `VerifyInv`, `SequentialInv` – while tokens are drafted, verified or
  decoded one by one, the session is at rest, the checkpoint is where the call began
  and what it accepted, the drafts fit the request and the context, and the first
  of them is what the model continues with.

The central argument is about the ring: `RingIsLongEnough` and `RoomInRing` show
that a batch overwrites no row that it or what follows it still reads, also after
a roll-back that leaves the rows of rejected drafts where they are
(`RestoreHolds`, `RestoreGood`); rows above the restored counters are written again
before they are read (`StoredKeeps`). `SpeculationIsGreedy` and `ReportsAreExact`
follow a call from its first token to its end: what `Commit` and `SequentialToken`
accept is what `Greedy` continues with, or is within `Close` of it once the session is
`rounded`, and the caller is told exactly that. Of a `tainted` session `AtRest` says
nothing: all that is kept of it is that its counters stay within the caches (`Types`).

### The worker pool

`ThreadPoolProofs` proves, for every number of threads, every set of job sizes
and thresholds and every modulus of the generation: `TypeSafety`,
`NoWorkerLeftInJob` (`JobOutlivesWorkers`), `SlicesCoverTheJob`, and
`Refinement` (`ImplementsRowJob`). The inductive invariant conjoins `TypeOK` with

* `FlagsOK` – an uninitialized pool has no workers and generation zero, and
  `shutdown` is set exactly while the caller joins them,
* `QuietOK` – outside of a shared job every worker has finished the last one,
* `SharingOK` – in a shared job every worker is late for it, at it, or finished
  and counted in `done`,
* `JoinOK` – a worker that is told to leave is about to look or gone,
* `CountsOK` – a row of a slice was computed once if its thread is past its
  slice, and not at all otherwise.

`done = NThreads - 1` then leaves no worker late or at the job, so it may be
released, and since the slices are disjoint and cover the job
(`SlicesCoverTheJob`, from the share being rounded up), every row was computed
once.

### The streamed turn

`StreamOutputProofs` proves `SplitsNone`, `StopsBeforeStop`, `NoSyntaxShown`,
`StreamedIsFinal` and `BlocksAreClosed`: `NoSplitCharacters`, `StopNotShown`,
`NoToolSyntaxShown`, `StreamedMatchesFinal` and `BlocksClosed`, for every set of
requests and of texts over the atoms, every length of a token and of the window,
every cut into tokens and every end of a turn. The only assumption is
`StreamAssumption`: the texts are sequences of atoms and the two sizes are not zero.
What the two last theorems leave out is in the properties themselves (`FirstBlock`,
`Verbatim`, see above).
Three invariants build on each other.

*What has been sent fits the text* (`StreamInvariant`, from which `SplitsNone` and
`StopsBeforeStop` project). `StreamInv` conjoins

* `Turn` – the text is what has been sampled of the script,
* `Sending` – until the turn is over the projection `Fits` the script: its cursors
  are within `Reach(text)`, which is what has been sampled up to a stop string, and
  not in the middle of a character; its mode, the state of its block, the open
  block of the client and the calls belong together (a call that is shown has the id
  of its place, all but the last are closed, the last is open exactly while its
  arguments are sent); or the client is gone and gets no more,
* `Stopping` – a text with its stop string whole has been cut at it, and the scan
  that goes on from `seen.stopFrom` has passed over none (`StopAhead`).

`Fits` has to be kept by a projection that looks at the first n atoms of a text
only, before it is known how the text goes on: the lemmas are about a text t and a
text s it is the beginning of (`Begins`, `Looks`, `Within`), and say that a search
within the first n atoms finds in t what it finds in s (`SearchIs`, `BeginsFind`).

*What is shown is the prose* (`ProseInvariant`). `Shaped` says of a text that it
closes its reasoning before a tool block, or has none. `Prose` says then, by the
mode, that the reasoning and the content shown are those of the whole script up to
the cursor; `Passed` that what the projection took for the end of the reasoning or
the start of the block has been sampled whole. `HoldMarker` is what makes it hold at
the end of a token: the space before a marker and the beginning of one are not
shown, and `OneToken` makes a marker that is whole begin where the projection may
look (`Sees`), though a stop string or a cut character holds back what is behind.
`NoSyntaxShown` follows.

*The calls shown and the calls to be read are the calls of the final parse*
(`FollowInvariant`). The projection reads a block forwards, piece by piece; the
final parser is a recursive function over the whole text. `Followed` relates the
two at every cursor: between two calls the parser reads the rest of the calls from
there (`InvokesOn`); between two arguments, what has been shown of the object and
the arguments that the parser reads from there are the object (`ParamsOn`); in a
value the rest of the value and a quotation mark come between (`ValueOn`). `Follows`
says so of every text that the script may be cut to and that can be read from the
first marker (`Readable`), since nobody knows yet where the turn ends; that the
argument objects are those of the parse, word for word, it says of texts whose raw
values the final parser does not rewrite (`Verbatim`), and of the others that the
calls are as many; a step of the projection moves one call, one
tag or one piece of a value from what is to be read to what has been shown
(`FollowCalls`, `FollowArgs`, `FollowValue`), and an entity that is held back is not
cut in two (`PieceJoins`). `ArgsFrom` and `CallsFrom` at a place look only at places
behind it (`ArgsFromLocal`, `CallsFromLocal`), so there is a function that satisfies
their recursive definitions (`ReadsBackwards`, by induction from the end of the
text). `Caught` adds that the projection does not fall behind: it goes on until a
round changes nothing (`ToolUpdateRests`), so a block that is whole in the text,
or lacks only what is held back, has all its calls shown (`WaitingIs`).

At the end of the turn `LastClosed` says what the last look leaves: a block that has
been read to its end, or none, and nothing open. With `ParseIs`, which solves the
final parser for a text whose first marker it takes (`FirstBlock`), `Prose` gives
the content and the reasoning and `CallsMatch` the calls, for the three finish
stages, with the ids of `Remembered`.

### Induction

`CountingLemmas` holds the facts that several proofs need. Induction over numbers
and sequences is done with sets: `LeastMember` takes the least number that lacks a
property from the well-foundedness of `<`, `EveryNumber` and `EverySequence` put it
as an induction rule for a set, and the recursive functions and folds of the models
are solved with them; so is the library's `FlattenSeq` (`FlattenConcat`: joining
part by part joins the whole).

### Only model-checked

Liveness, which is outside the prover's reach: `EveryClientLeaves`,
`StopEndsProcess` and `NextConnectionEndsStop` of the queue and `CallsReturn` of
the worker pool. Every other property of a passing run has a theorem.

## 5. Not modelled

* Request parsing and prompt rendering: sequential text processing; the models
  take its results as request fields.
* Socket I/O: one thread and one descriptor at a time; its outcomes are the
  failures of the server models.
* Tensor layout of payloads, model loading, tokenizer and the CPU reference:
  numerical code and pure I/O.
* The Metal, CUDA and Ascend kernels: numerical code behind vendor runtimes that
  are not in the repository. Together with the vendored `rax.c` and
  `linenoise.c` and the offline tools they are more than half of its lines. The
  weight cache of `ds4_ascend.c` is bookkeeping of a single thread.
* In the modelled components: leaving out of memory (the process ends), lock
  files and other processes in the cache directory, freeing at exit, statistics
  and logging.

`PROJECT.json` lists every component with its reason.

## 6. What is left

1. The decode tracker: what it may get wrong about the sampling temperature, and for
   how long, when a token ends in a `<` inside an argument.
2. `WeightCache`: byte accounting and eviction per device of `ds4_ascend.c`.
3. The item events of the Responses projection, with their sequence numbers.
