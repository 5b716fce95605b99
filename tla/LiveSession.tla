---------------------------- MODULE LiveSession ----------------------------
(***************************************************************************)
(* The worker's one model session and the evidence that lets a request     *)
(* continue from it (ds4_server.c generate_job and the live bindings,      *)
(* ds4.c ds4_session_sync).  Several client conversations take turns on    *)
(* the session; hidden reasoning stays in the session and is not replayed  *)
(* by clients, so "does this request continue the live state?" is decided  *)
(* by token prefix, by a remembered visible transcript or by tool-call     *)
(* ids, the last two together with the LENGTH of the session only.         *)
(*                                                                         *)
(* A token stands for a message: the message's place in the transcript its *)
(* client sees, and how the session spells it.  Text is rendered token by  *)
(* token, so a text prefix is a prefix of the sequence.                    *)
(***************************************************************************)
EXTENDS Naturals, Sequences, FiniteSets, SequencesExt

CONSTANTS
  Conv,            \* client conversations
  None,            \* no tool-call id, no job, nobody's message
  ApiOf,           \* [Conv -> {"responses", "anthropic", "chat"}]
  ToolConvs,       \* the conversations whose requests carry tools
  Ctx,             \* ds4_session_ctx
  MaxVisible,      \* bound: longest transcript a client builds up
  MaxReasoning,    \* bound: hidden tokens sampled in one turn
  Chunk,           \* prefill_cap: the prefill reports progress per chunk
  MinTokens,       \* kv.opt.min_tokens
  ColdMax,         \* kv.opt.cold_max_tokens
  StoreStep,       \* kv_cache_continued_step
  MaxFiles,        \* the disk budget, in files
  DiskEnabled,     \* kv.enabled
  ExactReplay,     \* ~ disable_exact_dsml_tool_replay
  MayFail,         \* whether a prefill, an eval or a file read may fail
  MayRestart       \* whether the server may stop and start again

ASSUME LiveSessionAssumption ==
  /\ ApiOf \in [Conv -> {"responses", "anthropic", "chat"}]
  /\ ToolConvs \subseteq Conv /\ None \notin Conv
  /\ {Ctx, Chunk, MinTokens, StoreStep} \subseteq Nat \ {0}
  /\ {MaxVisible, MaxReasoning, ColdMax, MaxFiles} \subseteq Nat
  /\ {DiskEnabled, ExactReplay, MayFail, MayRestart} \subseteq BOOLEAN

VARIABLES
  tokens,      \* session->checkpoint
  valid,       \* session->checkpoint_valid
  responses,   \* s->responses_live
  anthropic,   \* s->anthropic_live
  thinking,    \* s->thinking_live
  disk,        \* the KV files: the text key and the session it restores
  lastStore,   \* kv.continued_last_store_tokens
  pc,          \* where the worker is in generate_job
  job,         \* the request it executes
  eff,         \* prompt_for_sync
  goal,        \* how much of eff the current ds4_session_sync asks for
  cached,      \* cached
  source,      \* cache_source
  finish,      \* final_finish
  hist,        \* how many messages each client has in its transcript
  pending,     \* the tool call each client has to answer, or None
  queue,       \* parsed requests, oldest first
  status,      \* the HTTP status each client got last, 0 while it waits
  stale        \* history: what failed requests left behind that is not true of the
               \* session: a "binding" to another one, a "schedule" ahead of it

sessionVars == <<tokens, valid>>
bindings    == <<responses, anthropic, thinking>>
diskVars    == <<disk, lastStore>>
syncVars    == <<eff, goal, cached, source>>
jobVars     == <<pc, job, syncVars, finish>>
clientVars  == <<hist, pending, queue, status>>
vars == <<sessionVars, bindings, diskVars, jobVars, clientVars, stale>>
-----------------------------------------------------------------------------
(* Tokens and texts. *)

\* The first message, system prompt and tool schemas, is the same for all.
Token(c, n, k) == [of |-> IF n = 1 THEN None ELSE c, at |-> n, kind |-> k]

\* The transcript of c as its client replays it.
Transcript(c, n) == [i \in 1..n |-> Token(c, i, "visible")]

\* What a client would see of a session: no reasoning, canonical tool calls.
Shown(t) == IF t.kind = "hidden" THEN <<>>
            ELSE <<[t EXCEPT !.kind = IF @ = "sampled" THEN "visible" ELSE @]>>
Visible(s) ==
  LET seen[i \in 0..Len(s)] == IF i = 0 THEN <<>> ELSE seen[i - 1] \o Shown(s[i])
  IN seen[Len(s)]

Drop(s, n) == SubSeq(s, n + 1, Len(s))

pos == Len(tokens)

\* ds4_session_common_prefix: nothing is shared with an invalid checkpoint.
SessionCommon(p) ==
  IF valid
  THEN CHOOSE k \in 0..pos :
         /\ k <= Len(p) /\ SubSeq(tokens, 1, k) = SubSeq(p, 1, k)
         /\ k < pos /\ k < Len(p) => tokens[k + 1] # p[k + 1]
  ELSE 0
-----------------------------------------------------------------------------
(* Live bindings.  "was" is a history field: the session at that moment. *)

NoBinding == [valid |-> FALSE, len |-> 0, text |-> <<>>, ids |-> None, was |-> <<>>]

\* responses_live_remember, anthropic_live_remember, thinking_live_remember.
\* (mutant: with the length the prompt had)
RememberPrompt(text, id) ==
  [valid |-> TRUE, len |-> Len(eff), text |-> text, ids |-> id, was |-> tokens]
Remember(text, id) ==
  [valid |-> TRUE, len |-> pos, text |-> text, ids |-> id, was |-> tokens]

\* The session is where the binding left it.  (mutant: this is not asked)
AnyFrontier(b) == b.valid
AtFrontier(b) == b.valid /\ b.len = pos

TextMatches(b, text) == /\ AtFrontier(b)
                        /\ Len(b.text) > 0 /\ Len(b.text) < Len(text)
                        /\ IsPrefix(b.text, text)

IdsMatch(b, id) == id # None /\ AtFrontier(b) /\ b.ids = id

\* A session t would be taken for the one some binding remembers.
Misleads(t) ==
  \E b \in {responses, anthropic, thinking} :
     b.valid /\ b.len > 0 /\ b.len = Len(t) /\ Visible(b.was) # Visible(t)
-----------------------------------------------------------------------------
(* The disk cache as the worker sees it. *)

File(key, session) == [key |-> key, tokens |-> session]

\* kv_cache_store_live_prefix_text of the whole session s succeeds: a file for
\* the key is kept if there is one, and a new one may push out any other.
Stored(before, after, key, s) ==
  IF \E f \in before : f.key = key THEN after = before
  ELSE LET all == before \cup {File(key, s)}
       IN IF Cardinality(all) <= MaxFiles THEN after = all
          ELSE \E victim \in all : after = all \ {victim}

\* A binding with a text that claims the session.  (mutant: of any length)
ClaimsAnyLength(b) == b.valid /\ b.text # <<>>
Claims(b) == b.valid /\ b.len = pos /\ b.text # <<>>

\* kv_cache_store_current: keyed by the visible transcript of the binding that
\* claims the session, else by the session's own text.
StoreCurrent(before, after) ==
  \/ after = before
  \/ /\ DiskEnabled /\ valid /\ pos >= MinTokens
     /\ Stored(before, after,
               IF Claims(responses) THEN responses.text
               ELSE IF Claims(thinking) THEN thinking.text ELSE tokens,
               tokens)

\* kv_cache_note_store after a store that may have failed.
StoredAndNoted(s) ==
  \/ Stored(disk, disk', s, s) /\ lastStore' = Max({lastStore, Len(s)})
  \/ UNCHANGED diskVars

\* kv_cache_maybe_store_continued for a session s.
Continued(s, ok) ==
  IF /\ DiskEnabled /\ ok /\ Len(s) >= MinTokens
     /\ Len(s) % StoreStep = 0 /\ Len(s) > lastStore
  THEN StoredAndNoted(s)
  ELSE UNCHANGED diskVars

\* kv_cache_find_text_prefix: the longest key, then the most tokens.
Hits(text) == {f \in disk : /\ DiskEnabled
                            /\ Len(f.key) <= Len(text) /\ IsPrefix(f.key, text)
                            /\ Len(f.tokens) >= MinTokens}
Best(files) == {f \in files : \A g \in files :
                  \/ Len(g.key) < Len(f.key)
                  \/ Len(g.key) = Len(f.key) /\ Len(g.tokens) <= Len(f.tokens)}

\* kv_cache_store_len with a trim of one and no alignment; 0 is no cold store.
ColdLen(text) ==
  LET n == Len(text)
  IN IF DiskEnabled /\ ColdMax > 0 /\ n >= MinTokens /\ n <= ColdMax
     THEN IF n > MinTokens + 1 THEN n - 1 ELSE n
     ELSE 0
-----------------------------------------------------------------------------
NoRequest == [conv |-> None, n |-> 0, text |-> <<>>, ids |-> None, live |-> FALSE]

Init ==
  /\ tokens = <<>> /\ valid = FALSE
  /\ responses = NoBinding /\ anthropic = NoBinding /\ thinking = NoBinding
  /\ disk = {} /\ lastStore = 0
  /\ pc = "idle" /\ job = NoRequest
  /\ eff = <<>> /\ goal = 0 /\ cached = 0 /\ source = "none" /\ finish = "none"
  /\ hist = [c \in Conv |-> 1]
  /\ pending = [c \in Conv |-> None]
  /\ queue = <<>>
  /\ status = [c \in Conv |-> 200]
  /\ stale = {}

(* Clients and the threads that parse for them. *)

Request(c, text, live) ==
  [conv |-> c, n |-> hist[c] + 1, text |-> text, ids |-> pending[c], live |-> live]

MaySend(c) == status[c] # 0 /\ hist[c] + 1 <= MaxVisible

Answer(c, code) == status' = [status EXCEPT ![c] = code]

\* (mutant: the request is queued without asking)
SubmitUnchecked(c, request) == Answer(c, 0) /\ queue' = Append(queue, request)

\* request_exceeds_context is asked of the prompt as the client wrote it.
Submit(c, request) ==
  IF Len(request.text) >= Ctx THEN Answer(c, 400) /\ UNCHANGED queue
  ELSE Answer(c, 0) /\ queue' = Append(queue, request)

\* The next message with the whole history in front of it.
SendReplay(c) ==
  /\ MaySend(c)
  /\ Submit(c, Request(c, Transcript(c, hist[c] + 1), FALSE))
  /\ UNCHANGED <<sessionVars, bindings, diskVars, jobVars, hist, pending, stale>>

\* Only the tool output.  responses_validate_tool_outputs and
\* anthropic_validate_tool_results accept it while the id is live, else 400.
SendToolOutput(c) ==
  /\ MaySend(c)
  /\ pending[c] # None
  /\ ApiOf[c] \in {"responses", "anthropic"}
  /\ LET b == IF ApiOf[c] = "responses" THEN responses ELSE anthropic
     IN IF b.valid /\ b.ids = pending[c]
        THEN Submit(c, Request(c, <<Token(c, hist[c] + 1, "visible")>>, TRUE))
        ELSE Answer(c, 400) /\ UNCHANGED queue
  /\ UNCHANGED <<sessionVars, bindings, diskVars, jobVars, hist, pending, stale>>
-----------------------------------------------------------------------------
(* generate_job: find what the request continues from. *)

Begin ==
  /\ pc = "idle"
  /\ queue # <<>>
  /\ job' = Head(queue)
  /\ queue' = Tail(queue)
  /\ pc' = "lookup"
  /\ UNCHANGED <<sessionVars, bindings, diskVars, syncVars, finish, hist,
                 pending, status, stale>>

Api == ApiOf[job.conv]

\* The candidates in the order generate_job tries them; each is the source,
\* whether it applies, and the effective prompt it would build.
Candidates ==
  <<[source |-> "responses-visible",
     ok     |-> Api = "responses" /\ TextMatches(responses, job.text),
     prompt |-> tokens \o Drop(job.text, Len(responses.text))],
    [source |-> "responses-tool-output",
     ok     |-> Api = "responses" /\ IdsMatch(responses, job.ids),
     prompt |-> Append(tokens, Last(job.text))],
    [source |-> "anthropic-tool-output",
     ok     |-> Api = "anthropic" /\ IdsMatch(anthropic, job.ids),
     prompt |-> Append(tokens, Last(job.text))],
    [source |-> "refused",
     ok     |-> job.live,
     prompt |-> <<>>],
    [source |-> "memory-token",
     ok     |-> SessionCommon(job.text) = pos /\ Len(job.text) >= pos,
     prompt |-> job.text],
    [source |-> "thinking-visible",
     ok     |-> Api # "responses" /\ TextMatches(thinking, job.text),
     prompt |-> tokens \o Drop(job.text, Len(thinking.text))],
    [source |-> "memory-text",
     ok     |-> IsPrefix(tokens, job.text),
     prompt |-> tokens \o Drop(job.text, pos)]>>

\* The first that applies; with nothing cached all but the refusal are a miss.
Winner ==
  LET all == Candidates
      ok  == {i \in DOMAIN all : all[i].ok /\ (pos > 0 \/ all[i].source = "refused")}
  IN IF ok = {} THEN [source |-> "none", prompt |-> <<>>] ELSE all[Min(ok)]

\* The job ends.
Return == /\ pc' = "idle" /\ job' = NoRequest /\ eff' = <<>> /\ goal' = 0
          /\ cached' = 0 /\ source' = "none" /\ finish' = "none"

\* HTTP 409: the live state the parser saw is gone.
Refuse ==
  /\ pc = "lookup"
  /\ Winner.source = "refused"
  /\ Answer(job.conv, 409)
  /\ Return
  /\ UNCHANGED <<sessionVars, bindings, diskVars, hist, pending, queue, stale>>

LiveHit ==
  /\ pc = "lookup"
  /\ LET w == Winner
     IN /\ w.source \notin {"refused", "none"}
        /\ source' = w.source
        /\ eff' = w.prompt
        /\ goal' = Len(w.prompt)
  /\ cached' = pos
  /\ pc' = "sync"
  /\ UNCHANGED <<sessionVars, bindings, diskVars, job, finish, clientVars, stale>>

\* continued_last_store_tokens = 0.  (mutant: the old schedule goes on)
KeepSchedule == UNCHANGED lastStore
RestartSchedule == lastStore' = 0

\* Nothing live: restart the store schedule and persist the session first.
LiveMiss ==
  /\ pc = "lookup"
  /\ Winner.source = "none"
  /\ RestartSchedule
  /\ StoreCurrent(disk, disk')
  /\ pc' = "load"
  /\ stale' = stale \ {"schedule"}
  /\ UNCHANGED <<sessionVars, bindings, job, syncVars, finish, clientVars>>

\* kv_cache_try_load_text: the file's session replaces the live one, and is
\* consumed when it is larger than ColdMax.
Load(f, text) ==
  /\ tokens' = f.tokens
  /\ valid' = TRUE
  /\ eff' = f.tokens \o Drop(text, Len(f.key))
  /\ goal' = Len(eff')
  /\ cached' = Len(f.tokens)
  /\ lastStore' = Len(f.tokens)
  /\ disk' = IF ColdMax > 0 /\ Len(f.tokens) > ColdMax THEN disk \ {f} ELSE disk

\* It fails: the file cannot be opened or has a bad header, or its payload
\* cannot be read, or is not what the header says and the file is deleted.
LoadBreaks(f) ==
  /\ MayFail
  /\ \/ UNCHANGED <<sessionVars, disk>>
     \/ /\ tokens' = <<>> /\ valid' = FALSE
        /\ disk' \in {disk, disk \ {f}}
  /\ UNCHANGED lastStore

DiskHit ==
  /\ pc = "load"
  /\ \E f \in Best(Hits(job.text)) : Load(f, job.text)
  /\ source' = "disk-text"
  /\ pc' = "sync"
  /\ UNCHANGED <<bindings, job, finish, clientVars, stale>>

\* A cold prompt is prefilled first to the boundary that gets its own file.
StartCold ==
  /\ eff' = job.text
  /\ goal' = IF ColdLen(job.text) >= MinTokens THEN ColdLen(job.text)
             ELSE Len(job.text)
  /\ cached' = 0
  /\ source' = "none"
  /\ pc' = "sync"
  /\ UNCHANGED <<bindings, job, finish, clientVars, stale>>

DiskLoadFails ==
  /\ pc = "load"
  /\ \E f \in Best(Hits(job.text)) : LoadBreaks(f)
  /\ StartCold

DiskMiss ==
  /\ pc = "load"
  /\ Hits(job.text) = {}
  /\ StartCold
  /\ UNCHANGED <<sessionVars, diskVars>>
-----------------------------------------------------------------------------
(* ds4_session_sync(prefix of eff of length goal), for a request ("sync") or   *)
(* for the canonical form of a tool call ("rebuild").                       *)

Target == SubSeq(eff, 1, goal)

\* The checkpoint is extended; otherwise the target is prefilled from zero.
Extends == valid /\ pos <= goal /\ IsPrefix(tokens, Target)

NextChunk == IF Extends THEN (pos \div Chunk + 1) * Chunk ELSE Chunk

\* A chunk short of the target is done: the progress callback moves the
\* checkpoint to it and, beyond the cached part, may store it.  A short suffix
\* is evaluated token by token without callbacks, so this step is optional.
PrefillChunk ==
  /\ pc \in {"sync", "rebuild"}
  /\ goal < Ctx
  /\ NextChunk < goal
  /\ tokens' = SubSeq(eff, 1, NextChunk)
  /\ valid' = TRUE
  /\ IF NextChunk > cached THEN Continued(tokens', TRUE) ELSE UNCHANGED diskVars
  /\ UNCHANGED <<bindings, jobVars, clientVars, stale>>

\* "prompt exceeds context", before anything is touched, or the backend fails
\* and leaves the checkpoint where the last chunk or token put it, invalid.
SyncFails ==
  /\ \/ goal >= Ctx /\ UNCHANGED sessionVars
     \/ /\ goal < Ctx /\ MayFail /\ ~(Extends /\ pos = goal)
        /\ \/ UNCHANGED tokens
           \/ Extends /\ \E k \in pos..(goal - 1) : tokens' = SubSeq(eff, 1, k)
        /\ valid' = FALSE
  /\ stale' = stale \cup {what \in {"binding", "schedule"} :
                           \/ what = "binding" /\ Misleads(tokens')
                           \/ what = "schedule" /\ lastStore > Len(tokens')}

\* The early return of generate_job: HTTP 500, and no binding is cleared.
PrefillFails ==
  /\ pc = "sync"
  /\ SyncFails
  /\ Answer(job.conv, 500)
  /\ Return
  /\ UNCHANGED <<bindings, diskVars, hist, pending, queue>>

SyncDone == /\ goal < Ctx
            /\ tokens' = Target
            /\ valid' = TRUE

\* The session is at the cold boundary: store it and go on to the full prompt.
ColdPrefixDone ==
  /\ pc = "sync"
  /\ goal < Len(eff)
  /\ SyncDone
  /\ StoredAndNoted(Target)
  /\ goal' = Len(eff)
  /\ UNCHANGED <<bindings, pc, job, eff, cached, source, finish, clientVars, stale>>

\* This request continues from the binding.  (mutant: whatever it came from)
ContinuesAnyway(b) == TRUE
ContinuesFrom(b) ==
  \/ b = "responses" /\ source \in {"responses-visible", "responses-tool-output"}
  \/ b = "anthropic" /\ source = "anthropic-tool-output"
  \/ b = "thinking" /\ source = "thinking-visible"

\* The prompt is in the session.  Bindings this request does not continue from
\* are cleared, and the checkpoint may be due on disk.
PrefillDone ==
  /\ pc = "sync"
  /\ goal = Len(eff)
  /\ SyncDone
  /\ responses' = IF ContinuesFrom("responses") THEN responses ELSE NoBinding
  /\ anthropic' = IF ContinuesFrom("anthropic") THEN anthropic ELSE NoBinding
  /\ thinking'  = IF ContinuesFrom("thinking")  THEN thinking  ELSE NoBinding
  /\ \/ Continued(eff, TRUE)
     \/ cached = 0 /\ ColdLen(eff) = Len(eff) /\ StoredAndNoted(eff)
  /\ pc' = "decode"
  /\ UNCHANGED <<job, syncVars, finish, clientVars, stale>>
-----------------------------------------------------------------------------
(* The decode loop. *)

\* The SSE headers or the first event cannot be written.
ClientGone ==
  /\ pc = "decode"
  /\ tokens = eff
  /\ Answer(job.conv, 499)
  /\ Return
  /\ UNCHANGED <<sessionVars, bindings, diskVars, hist, pending, queue, stale>>

DecodeReasoning ==
  /\ pc = "decode"
  /\ pos < Ctx
  /\ pos < Len(eff) + MaxReasoning
  /\ Continued(tokens, valid)
  /\ tokens' = Append(tokens, Token(job.conv, job.n + 1, "hidden"))
  /\ UNCHANGED <<valid, bindings, jobVars, clientVars, stale>>

\* A sampled tool call is spelled as the client will replay it only when the
\* server replays exact DSML; otherwise it may differ from the canonical text.
ToolSpellings == IF ExactReplay THEN {"visible"} ELSE {"visible", "sampled"}

Sample(kind) == pos < Ctx /\ tokens' = Append(tokens, Token(job.conv, job.n + 1, kind))

\* The last sampled message, by the reason the loop ends: end of sequence;
\* max_tokens or a full context; a stop sequence, which invalidates the session;
\* a closed tool call; a broken stream, an open tool call or a stop of the
\* server; a failed eval.
DecodeEnd(why) ==
  /\ pc = "decode"
  /\ finish' = why
  /\ Continued(tokens, valid)
  /\ \/ why = "stop" /\ Sample("visible") /\ UNCHANGED valid
     \/ /\ why = "length"
        /\ \/ Sample("visible")
           \/ pos = Ctx /\ UNCHANGED tokens
        /\ UNCHANGED valid
     \/ why = "stop" /\ pos < Ctx /\ tokens' = <<>> /\ valid' = FALSE
     \/ /\ why = "tool_calls"
        /\ job.conv \in ToolConvs
        /\ \E k \in ToolSpellings : Sample(k)
        /\ UNCHANGED valid
     \/ /\ why = "error"
        /\ \/ Sample("partial")
           \/ UNCHANGED tokens
        /\ UNCHANGED valid
     \/ why = "error" /\ MayFail /\ UNCHANGED tokens /\ valid' = FALSE
  /\ pc' = "finish"
  /\ UNCHANGED <<bindings, job, syncVars, clientVars, stale>>
-----------------------------------------------------------------------------
(* After the decode loop. *)

Ok == finish \in {"stop", "tool_calls"}
CallId == IF finish = "tool_calls" THEN <<job.conv, job.n + 1>> ELSE None

\* The prompt the request was rendered to, and the answer.
VisibleAfter == Append(job.text, Token(job.conv, job.n + 1, "visible"))

\* should_remember_thinking_checkpoint: a finished thinking turn without tools.
RemembersThinking == Ok /\ CallId = None /\ job.conv \notin ToolConvs

Bind ==
  /\ responses' = IF Api # "responses" THEN responses
                  ELSE IF Ok THEN Remember(VisibleAfter, CallId) ELSE NoBinding
  /\ anthropic' = IF Api # "anthropic" THEN anthropic
                  ELSE IF CallId # None THEN Remember(<<>>, CallId) ELSE NoBinding
  /\ thinking'  = IF RemembersThinking THEN Remember(VisibleAfter, None) ELSE NoBinding

\* The client learns the answer, and an error leaves its transcript unchanged;
\* or the final write fails.
TellClient ==
  \/ /\ finish # "error"
     /\ Answer(job.conv, 200)
     /\ hist' = [hist EXCEPT ![job.conv] = job.n + 1]
     /\ pending' = [pending EXCEPT ![job.conv] = CallId]
  \/ /\ Answer(job.conv, IF finish = "error" THEN 500 ELSE 499)
     /\ UNCHANGED <<hist, pending>>

\* The transcript the next request will render, with this turn's reasoning: it is
\* tokenized again, to k tokens, more or fewer than were sampled.
Canonical(k) == job.text \o [i \in 1..k |-> Token(job.conv, job.n + 1, "hidden")]
                  \o <<Token(job.conv, job.n + 1, "visible")>>
CanonicalLengths == IF pos > Len(eff) + 1 THEN 0..MaxReasoning ELSE {0}

\* should_canonicalize_tool_checkpoint: without exact replay, and without ids that
\* bind the next request to the session.
Canonicalizes == CallId # None /\ Api # "responses" /\ ~ExactReplay

\* canonicalize_tool_checkpoint has to replace sampled tokens.
NeedsRebuild(k) ==
  /\ Canonicalizes
  /\ Canonical(k) # tokens
  /\ SessionCommon(Canonical(k)) >= Len(job.text)
  /\ Len(Canonical(k)) < Ctx

\* A session that already spells the canonical form is extended by the end of the
\* sentence, which is no message, and that may fail.
Finish ==
  /\ pc = "finish"
  /\ \E k \in CanonicalLengths :
       /\ ~NeedsRebuild(k)
       /\ \/ UNCHANGED valid
          \/ MayFail /\ Canonicalizes /\ Canonical(k) = tokens /\ valid' = FALSE
  /\ Bind
  /\ TellClient
  /\ Return
  /\ UNCHANGED <<tokens, diskVars, queue, stale>>

\* The bindings are remembered before the session is rebuilt, from a disk
\* checkpoint of the canonical text or from nothing.
BeginRebuild ==
  /\ pc = "finish"
  /\ \E k \in CanonicalLengths :
       LET c == Canonical(k)
           anew == /\ tokens' = <<>> /\ valid' = FALSE
                   /\ eff' = c /\ goal' = Len(c) /\ cached' = 0
       IN /\ NeedsRebuild(k)
          /\ \/ \E f \in Best(Hits(c)) : Load(f, c)
             \/ \E f \in Best(Hits(c)) : LoadBreaks(f) /\ anew
             \/ Hits(c) = {} /\ anew /\ UNCHANGED diskVars
  /\ Bind
  /\ pc' = "rebuild"
  /\ UNCHANGED <<job, source, finish, clientVars, stale>>

\* A failed rebuild is only logged.  A rebuild from nothing does not restart the
\* schedule of the continued checkpoints.
EndRebuild ==
  /\ pc = "rebuild"
  /\ \/ /\ SyncDone
        /\ stale' = stale \cup {what \in {"schedule"} : cached = 0 /\ lastStore > Len(tokens')}
     \/ SyncFails
  /\ TellClient
  /\ Return
  /\ UNCHANGED <<bindings, diskVars, queue>>
-----------------------------------------------------------------------------
\* The process dies, or stops after its last request and stores the session;
\* a new one starts with the files that are left.
Restart ==
  /\ MayRestart
  /\ \/ UNCHANGED disk
     \/ pc = "idle" /\ queue = <<>> /\ StoreCurrent(disk, disk')
  /\ tokens' = <<>> /\ valid' = FALSE
  /\ responses' = NoBinding /\ anthropic' = NoBinding /\ thinking' = NoBinding
  /\ lastStore' = 0
  /\ Return
  /\ queue' = <<>>
  /\ status' = [c \in Conv |-> IF status[c] = 0 THEN 499 ELSE status[c]]
  /\ stale' = stale \ {"schedule"}
  /\ UNCHANGED <<hist, pending>>

Next ==
  \/ \E c \in Conv : SendReplay(c) \/ SendToolOutput(c)
  \/ Begin \/ Refuse \/ LiveHit \/ LiveMiss \/ DiskHit \/ DiskLoadFails \/ DiskMiss
  \/ PrefillChunk \/ PrefillFails \/ ColdPrefixDone \/ PrefillDone
  \/ ClientGone \/ DecodeReasoning
  \/ \E why \in {"stop", "length", "tool_calls", "error"} : DecodeEnd(why)
  \/ Finish \/ BeginRebuild \/ EndRebuild
  \/ Restart

Spec == Init /\ [][Next]_vars
-----------------------------------------------------------------------------
(* Properties. *)

\* When the model starts to answer, what it has read is this client's own
\* transcript up to this message, and nobody else's, however it was put together.
ReadOwnTranscript ==
  pc = "decode" /\ tokens = eff => Visible(tokens) = Transcript(job.conv, job.n)

\* The same, as long as no failed request left a binding on a foreign session.
AnsweredFromOwnTranscript == "binding" \notin stale => ReadOwnTranscript

\* "The session has the remembered length" is good evidence: whenever a request
\* is looked up, it implies that the session still is what was remembered.
BindingsDescribeSession ==
  "binding" \notin stale /\ pc \in {"idle", "lookup"} => ~Misleads(tokens)

\* A file restores what its key says: whoever is matched by the key's text gets
\* a session that shows exactly this text.  Keys that do not begin at a first
\* message (a tool output without its history) match no replayed transcript.
KeyDescribesPayload ==
  "binding" \notin stale =>
    \A f \in disk : f.key[1].at = 1 => Visible(f.tokens) = Visible(f.key)

\* The schedule of the continued checkpoints never is ahead of the session that
\* is decoding, so that the next frontier it reaches is stored, unless one of two
\* things left a session shorter than the schedule to be continued: a prefill that
\* started over and failed, or a tool call that was rebuilt from nothing and came
\* to fewer tokens (continued_last_store_tokens restarts only when a request finds
\* nothing cached or a file is loaded).
ScheduleNotAhead == pc = "decode" /\ "schedule" \notin stale => lastStore <= pos

\* A session with hidden reasoning is not thrown away while it still is the one
\* a binding was remembered for, under a whole transcript, and the looked-up
\* request goes on from there.
Continues(b) == /\ b.valid /\ b.was = tokens /\ pos > 0
                /\ Len(Visible(tokens)) < Len(job.text)
                /\ IsPrefix(Visible(tokens), job.text)
Evidence == IF Api = "responses" THEN responses ELSE thinking
Dropped == pc = "lookup" /\ pc' = "load"
ReasoningKept ==
  [][Dropped /\ Continues(Evidence) => Evidence.text # <<>> /\ Evidence.text[1].at # 1]_vars

\* A prompt that no longer fits when the worker gets to it fitted as the client
\* wrote it, and is put together from what the session holds: whoever has to be
\* prefilled from the start is never refused late.
LateContextErrorIsLive ==
  pc = "sync" /\ Len(eff) >= Ctx => Len(job.text) < Ctx /\ pos > 0 /\ IsPrefix(tokens, eff)
=============================================================================
