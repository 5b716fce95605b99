--------------------------- MODULE EngineSession ---------------------------
(***************************************************************************)
(* One inference session (ds4.c): the tokens it says it holds              *)
(* (checkpoint), the backend rows that must be those tokens, the logits    *)
(* that must be those of the last one, and every call that moves them:     *)
(* synchronizing to a prompt, evaluating a token, speculative decoding     *)
(* with roll-back, saving, loading, invalidating and rewinding.            *)
(*                                                                         *)
(* A row of the backend is identified with the text it was computed from,  *)
(* its own token last: a row is right if that text is the session's.  All  *)
(* layers are one layer with a raw ring and a compressor.  The rounding of *)
(* a prefill is that of the session it builds; the rounding of the batch   *)
(* verifier is not that of decoding, and the model tells them apart.       *)
(***************************************************************************)
EXTENDS Integers, Sequences, FiniteSets

CONSTANTS
  Token,        \* token ids
  Eos,          \* the end of sequence token
  Prompts,      \* the prompts callers synchronize to
  CtxSize,      \* ctx_size
  Window,       \* DS4_N_SWA, the sliding window of raw attention
  PrefillCap,   \* prefill_cap, tokens per prefill batch
  Ratio,        \* tokens per compressed row
  RawAlign,     \* the raw ring is padded to a multiple of this (256)
  RawMax,       \* and holds no more than this (8192)
  ResumeMin,    \* metal_graph_resume_prefill_min_tokens
  DraftMax,     \* mtp_draft_tokens
  SaveAt,       \* the lengths at which callers save (a bound)
  RewindTo,     \* the positions callers rewind to (a bound)
  Greedy(_),    \* the target model: the next token of a text, decoded one by one
  Close(_)      \* the tokens that a batch may put first instead, nearly tied with it

ASSUME SizesAssumption ==
  /\ {CtxSize, Window, PrefillCap, Ratio, RawAlign, RawMax, ResumeMin, DraftMax}
        \subseteq Nat \ {0}
  /\ Window <= CtxSize /\ PrefillCap <= CtxSize
  /\ Window + PrefillCap <= RawMax    \* the ring is never clamped below a batch
  /\ SaveAt \subseteq Nat /\ RewindTo \subseteq Int
  /\ Ratio > 2      \* two drafts are never a whole compressed row (ratios 4 and 128)
ASSUME TokenAssumption ==
  /\ Eos \in Token /\ Token \subseteq Nat \ {0}
  /\ \A p \in Prompts : p \in Seq(Token) /\ Len(p) \in 1 .. CtxSize - 1
ASSUME RoundingAssumption ==
  \A t \in UNION {[1 .. n -> Token] : n \in 1 .. CtxSize} : Greedy(t) \in Close(t)

VARIABLES
  checkpoint,   \* s->checkpoint
  valid,        \* s->checkpoint_valid
  logits,       \* s->logits: the text they were computed from, or Garbage
  draft,        \* s->mtp_draft_token, or NoDraft (mtp_draft_valid is false)
  gpu,          \* s->graph: raw ring, compressed rows and compressor frontier
  call,         \* the call that is running
  accepted,     \* the tokens the speculative call has reported, until the next call
  file,         \* the payload that was saved last, or NoFile
  tainted,      \* history: the backend was left ahead of the checkpoint, by a
                \* frontier that could not be restored or by a rewind
  rounded       \* history: rows of the session were computed by the batch verifier

vars == <<checkpoint, valid, logits, draft, gpu, call, accepted, file, tainted, rounded>>
sessionVars == <<checkpoint, valid, logits, draft, gpu>>

-----------------------------------------------------------------------------
(* Rows and the kernels that compute them *)

IsText(t) == t \in Seq(Token) /\ Len(t) <= CtxSize
Garbage == <<>>              \* no row and no logits belong to the empty text
NoDraft == 0
Lesser(a, b) == IF a < b THEN a ELSE b
Greater(a, b) == IF a > b THEN a ELSE b
Upto(t, n) == SubSeq(t, 1, n)
IsPrefixOf(s, t) == Len(s) <= Len(t) /\ Upto(t, Len(s)) = s

\* Mutant: a strict ring of one window, without room for speculative rows.
StrictRing == Window

\* The raw ring covers the window and one batch, as far as the context goes.
RawCap ==
  LET wanted == Lesser(Window + PrefillCap, CtxSize)
      padded == ((wanted + RawAlign - 1) \div RawAlign) * RawAlign
  IN Lesser(Greater(Lesser(padded, RawMax), Window), CtxSize)

CompCap == CtxSize \div Ratio + 2

Slot(p) == p % RawCap

Blank == [raw   |-> [s \in 0 .. RawCap - 1 |-> Garbage],
          comp  |-> [i \in 0 .. CompCap - 1 |-> Garbage],
          ncomp |-> 0,
          front |-> Garbage]

\* The raw rows that the token at position p attends to, its own left out.
Past(p) == Greater(0, p - Window + 1) .. p - 1

\* Compressed rows and frontier are those of text t.
CompressedFor(g, t) ==
  /\ g.front = t /\ g.ncomp = Len(t) \div Ratio
  /\ \A i \in 0 .. g.ncomp - 1 : g.comp[i] = Upto(t, (i + 1) * Ratio)

\* The backend after the rows of t from position start on were stored and
\* compressed, each computed from what it attends to: from Garbage if not good.
Stored(g, t, start, good) ==
  LET row(n)   == IF good THEN Upto(t, n) ELSE Garbage
      written(s) == {p \in start .. Len(t) - 1 : Slot(p) = s}
      last(s)  == CHOOSE p \in written(s) : \A q \in written(s) : q <= p
      emitted  == Len(t) \div Ratio - start \div Ratio
  IN [raw   |-> [s \in DOMAIN g.raw |->
                   IF written(s) = {} THEN g.raw[s] ELSE row(last(s) + 1)],
      comp  |-> [i \in DOMAIN g.comp |->
                   IF i \in g.ncomp .. g.ncomp + emitted - 1
                   THEN row((start \div Ratio + i - g.ncomp + 1) * Ratio)
                   ELSE g.comp[i]],
      ncomp |-> g.ncomp + emitted,
      front |-> row(Len(t))]

\* One token through the decode kernels: its row replaces the one a ring
\* length before it, which must have left the window.
DecodeToken(g, t) ==
  LET pos == Len(t) - 1
      good == /\ CompressedFor(g, Upto(t, pos))
              /\ \A p \in Past(pos) : Slot(p) # Slot(pos) /\ g.raw[Slot(p)] = Upto(t, p + 1)
  IN Stored(g, t, pos, good)

\* Mutant: compressed rows are appended whether there is room or not.
InAnyCaches(g) == TRUE

\* A kernel whose compressed row has no place fails.
InCaches(g) == g.ncomp <= CompCap

\* Several tokens in one batch: all rows are stored before the first is read.
Batch(g, t, start) ==
  LET new == start .. Len(t) - 1
      good == /\ CompressedFor(g, Upto(t, start))
              /\ \A pos \in new : \A p \in Past(pos) :
                    /\ \A q \in new : q # p => Slot(q) # Slot(p)
                    /\ p < start => g.raw[Slot(p)] = Upto(t, p + 1)
  IN IF start = 0 THEN Stored(Blank, t, 0, TRUE) ELSE Stored(g, t, start, good)

\* A batch from position 0 rebuilds the compressor from its last Ratio tokens
\* and cannot do so with fewer.
BatchWorks(t, start) == start = 0 => Len(t) >= Ratio

RowOf(g) == g.front          \* logits are computed from the last row

\* Commands failed half-way: the rows of the batch and the frontier are lost.
Scrambled(g, start, n) ==
  [g EXCEPT !.raw = [s \in DOMAIN g.raw |->
                       IF \E p \in start .. start + n - 1 : Slot(p) = s THEN Garbage ELSE g.raw[s]],
            !.front = Garbage]

Frontier(g) == [ncomp |-> g.ncomp, front |-> g.front]
Restore(g, f) == [g EXCEPT !.ncomp = f.ncomp, !.front = f.front]

\* What comes first in logits: the model's own choice, or a token nearly tied with
\* it if the batch verifier has computed the last row or one before it.
TopsWhen(batched, l) ==
  IF l = Garbage THEN Token ELSE IF batched THEN Close(l) ELSE {Greedy(l)}
Tops(l) == TopsWhen(rounded, l)

-----------------------------------------------------------------------------
(* Calls *)

Idle == [op |-> "idle"]
Busy == call.op # "idle"

\* The rows a payload holds: the last window of raw rows, in logical order.
Live(n) == Greater(0, n - Window) .. n - 1
NoFile == [text |-> <<>>]

Init ==
  /\ checkpoint = <<>> /\ valid = FALSE /\ logits = Garbage /\ draft = NoDraft
  /\ gpu = Blank /\ call = Idle /\ accepted = <<>> /\ file = NoFile
  /\ tainted = FALSE /\ rounded = FALSE

Holds(t, g) ==
  /\ InCaches(g)
  /\ checkpoint' = t /\ gpu' = g /\ logits' = RowOf(g)

Lost ==
  /\ valid' = FALSE /\ gpu' = Blank /\ logits' = Garbage

\* ds4_session_sync: extend the live checkpoint or start over.
Sync(p, notes) ==
  LET suffix == Len(p) - Len(checkpoint)
      extends == valid /\ IsPrefixOf(checkpoint, p)
      prefill(from) == [op |-> "prefill", prompt |-> p, start |-> from, pos |-> from, notes |-> notes]
  IN
  /\ ~Busy
  /\ \/ /\ extends /\ suffix >= ResumeMin
        /\ call' = prefill(Len(checkpoint)) /\ draft' = NoDraft
     \/ /\ extends /\ suffix > 0 /\ suffix < ResumeMin
        /\ call' = [op |-> "extend", prompt |-> p] /\ draft' = NoDraft
     \/ /\ extends /\ suffix = 0
        /\ draft' = NoDraft /\ UNCHANGED call
     \/ /\ ~extends /\ Len(p) > PrefillCap
        /\ call' = prefill(0) /\ UNCHANGED draft
     \/ /\ ~extends /\ Len(p) <= PrefillCap
        /\ call' = [op |-> "whole", prompt |-> p] /\ UNCHANGED draft
  /\ accepted' = <<>>
  /\ UNCHANGED <<checkpoint, valid, logits, gpu, file, tainted, rounded>>

\* Where the chunk that begins at pos ends: resumed chunks meet the boundaries
\* of a cold prefill.
ChunkEnd(start, pos, end) ==
  LET cap == IF start = 0 THEN PrefillCap
             ELSE Lesser(Lesser(PrefillCap, RawCap), PrefillCap - (pos % PrefillCap))
  IN Lesser(pos + cap, end)

\* One batch of metal_graph_prefill_chunked_range.  With a progress callback the
\* session is made to hold what has been prefilled, so that it can be saved.
PrefillChunk ==
  /\ call.op = "prefill"
  /\ LET end  == ChunkEnd(call.start, call.pos, Len(call.prompt))
         done == end = Len(call.prompt)
         t    == Upto(call.prompt, end)
         g    == Batch(gpu, t, call.pos)
     IN
     /\ BatchWorks(t, call.pos) /\ InCaches(g)
     /\ IF done \/ call.notes
        THEN Holds(t, g) /\ valid' = TRUE
        ELSE gpu' = g /\ UNCHANGED <<checkpoint, valid, logits>>
     /\ draft' = IF call.notes \/ (done /\ call.start = 0) THEN NoDraft ELSE draft
     /\ call' = IF done THEN Idle ELSE [call EXCEPT !.pos = end]
     /\ tainted' = (tainted /\ call.start # 0) /\ rounded' = (rounded /\ call.start # 0)
  /\ UNCHANGED <<accepted, file>>

\* A prompt that fits one batch and continues nothing.
PrefillWhole ==
  /\ call.op = "whole" /\ BatchWorks(call.prompt, 0)
  /\ Holds(call.prompt, Batch(gpu, call.prompt, 0))
  /\ valid' = TRUE /\ draft' = NoDraft /\ call' = Idle
  /\ tainted' = FALSE /\ rounded' = FALSE
  /\ UNCHANGED <<accepted, file>>

\* A short suffix is decoded token by token.
ExtendToken ==
  /\ call.op = "extend"
  /\ LET t == Upto(call.prompt, Len(checkpoint) + 1) IN
     /\ Holds(t, DecodeToken(gpu, t))
     /\ call' = IF t = call.prompt THEN Idle ELSE call
  /\ UNCHANGED <<valid, draft, accepted, file, tainted, rounded>>

\* Any kernel or readback of a synchronization may fail.
SyncFails ==
  /\ call.op \in {"prefill", "whole", "extend"}
  /\ Lost /\ call' = Idle
  /\ UNCHANGED <<checkpoint, draft, accepted, file, tainted, rounded>>

\* ds4_session_eval, while the context has room.  The draft model may then propose
\* a token; it may also fail.
Evaluated(x) ==
  LET t == Append(checkpoint, x) IN
  /\ Holds(t, DecodeToken(gpu, t))
  /\ draft' \in IF DraftMax > 1 THEN Token \cup {NoDraft} ELSE {NoDraft}
  /\ UNCHANGED valid

MayEval == ~Busy /\ valid /\ Len(checkpoint) < CtxSize

Eval(x) ==
  /\ MayEval /\ Evaluated(x)
  /\ accepted' = <<>>
  /\ UNCHANGED <<call, file, tainted, rounded>>

EvalFails ==
  /\ MayEval
  /\ Lost /\ draft' = NoDraft
  /\ accepted' = <<>>
  /\ UNCHANGED <<checkpoint, call, file, tainted, rounded>>

-----------------------------------------------------------------------------
(* ds4_session_eval_speculative_argmax *)

\* The first token is the model's own and is committed as usual.
SpecEval(x, maxTokens) ==
  /\ MayEval /\ x \in Tops(logits) /\ Evaluated(x)
  /\ accepted' = <<x>>
  /\ call' = [op |-> "draft", base |-> checkpoint, max |-> maxTokens]
  /\ UNCHANGED <<file, tainted, rounded>>

\* Mutant: the context is not looked at.
DraftCapNoRoom ==
  LET cap == Lesser(DraftMax, call.max - 1)
  IN IF draft = Eos THEN Lesser(cap, 1) ELSE cap

DraftCap ==
  LET room == CtxSize - Len(checkpoint)
      cap  == Lesser(Lesser(DraftMax, call.max - 1), room - 1)
  IN IF draft = Eos THEN Lesser(cap, 1) ELSE cap

\* The draft model extends its first token; it stops at Eos.
Drafts ==
  {d \in UNION {[1 .. n -> Token] : n \in 1 .. DraftCap} :
     /\ d[1] = draft
     /\ \A i \in 1 .. Len(d) - 1 : d[i] # Eos
     /\ Len(d) < DraftCap => d[Len(d)] = Eos}

\* Draft a suffix if the model agrees with its first token.  Strict (--quality)
\* verifies two drafts with the decode kernels.
SpecDraft(d, strict) ==
  /\ DraftMax > 1 /\ draft # NoDraft /\ accepted[1] # Eos /\ DraftCap > 0
  /\ draft \in Tops(logits) /\ d \in Drafts
  /\ call' = [op |-> "verify", base |-> call.base, max |-> call.max, drafts |-> d,
              start |-> Len(checkpoint), strict |-> strict]
  /\ draft' = NoDraft
  /\ UNCHANGED <<checkpoint, valid, logits, gpu, accepted, file, tainted, rounded>>

\* Nothing is drafted, or the first draft is wrong, or drafting the second fails.
SpecStop ==
  /\ call.op = "draft"
  /\ draft' = IF accepted[1] # Eos /\ DraftCap > 0 THEN NoDraft ELSE draft
  /\ \/ draft = NoDraft \/ accepted[1] = Eos \/ DraftCap <= 0
     \/ DraftCap > 1 \/ \E x \in Tops(logits) : x # draft
  /\ call' = Idle
  /\ UNCHANGED <<checkpoint, valid, logits, gpu, accepted, file, tainted, rounded>>

Verifying == call.op = "verify"
DraftText(k) == Upto(checkpoint, call.start) \o Upto(call.drafts, k)

\* Mutant: the first draft the target disagrees with is accepted too.
AgreedOneMore(tops) ==
  CHOOSE k \in DOMAIN call.drafts :
    /\ \A i \in 2 .. k - 1 : call.drafts[i] = tops[i - 1]
    /\ k < Len(call.drafts) => k > 1 /\ call.drafts[k] # tops[k - 1]

\* How many drafts follow each other in the target's choice after each of them.
Agreed(tops) ==
  CHOOSE k \in DOMAIN call.drafts :
    /\ \A i \in 2 .. k : call.drafts[i] = tops[i - 1]
    /\ k < Len(call.drafts) => call.drafts[k + 1] # tops[k]

\* The choices after all drafts but the last that rows with such tops may show.
RowTops(batched) ==
  {tops \in [1 .. Len(call.drafts) - 1 -> Token] :
     \A i \in DOMAIN tops : tops[i] \in TopsWhen(batched, DraftText(i))}

\* Commit the first k drafts, whose rows g holds, and return.
Commit(k, g) ==
  /\ Holds(DraftText(k), g)
  /\ valid' = TRUE /\ draft' = NoDraft
  /\ accepted' = accepted \o Upto(call.drafts, k)
  /\ call' = Idle

\* Give up: without a frontier to go back to the session is lost.
SpecLost ==
  /\ Lost /\ checkpoint' = Upto(checkpoint, call.start)
  /\ call' = Idle
  /\ UNCHANGED <<draft, accepted>>

\* Go back to the frontier saved before the drafts and verify them one by one.
\* The result of the restore is not looked at.
FallBack(g) ==
  /\ \/ gpu' = Restore(g, Frontier(gpu)) /\ UNCHANGED tainted
     \/ g # gpu /\ gpu' = g /\ tainted' = TRUE
  /\ call' = [call EXCEPT !.op = "sequential"]
  /\ UNCHANGED <<checkpoint, valid, logits, draft, accepted>>

\* The draft model is not sure of the second draft: decode only the first.
VerifyOne ==
  /\ Verifying /\ ~call.strict /\ Len(call.drafts) = 2
  /\ \/ Commit(1, DecodeToken(gpu, DraftText(1)))
     \/ Lost /\ call' = Idle /\ UNCHANGED <<checkpoint, draft, accepted>>
  /\ UNCHANGED <<file, tainted, rounded>>

\* Both drafts through the decode kernels, the state after the first kept aside.
VerifyTwo ==
  /\ Verifying /\ call.strict /\ Len(call.drafts) = 2
  /\ LET g1 == DecodeToken(gpu, DraftText(1))
         g2 == DecodeToken(g1, DraftText(2))
         fails == Scrambled(gpu, call.start, 2)
     IN
     \/ /\ InCaches(g1) /\ InCaches(g2) /\ UNCHANGED tainted
        /\ \E tops \in RowTops(rounded) :
             \/ Agreed(tops) = 2 /\ Commit(2, g2)
             \/ Agreed(tops) = 1 /\ Commit(1, Restore(g2, Frontier(g1)))
     \/ FallBack(fails)
     \/ FallBack(gpu)           \* the snapshot itself failed
  /\ UNCHANGED <<file, rounded>>

\* The drafts in one batch, which has room for PrefillCap tokens and else refuses.
\* What it commits are its own rows: from them on the session is rounded.
VerifyBatch ==
  /\ Verifying /\ ~(call.strict /\ Len(call.drafts) = 2)
  /\ LET n == Len(call.drafts)
         g == Batch(gpu, DraftText(n), call.start)
         saved == n > 2
         first == Frontier(DecodeToken(gpu, DraftText(1)))
     IN
     \/ /\ n <= PrefillCap /\ InCaches(g)
        /\ \E tops \in RowTops(TRUE) :
             \/ Agreed(tops) = n /\ Commit(n, g)
             \/ Agreed(tops) < n /\ ~saved /\ Commit(1, Restore(g, first))
             \/ /\ saved        \* restored, then the agreed drafts again in a batch
                /\ LET k == Agreed(tops)
                   IN Commit(k, Batch(Restore(g, Frontier(gpu)), DraftText(k), call.start))
        /\ rounded' = TRUE /\ UNCHANGED tainted
     \/ /\ \/ n <= PrefillCap /\ saved /\ FallBack(Scrambled(gpu, call.start, n))
           \/ saved /\ FallBack(gpu)
           \/ ~saved /\ SpecLost /\ UNCHANGED tainted
        /\ UNCHANGED rounded
  /\ UNCHANGED file

\* The safety fallback: drafts are verified with one-token decodes.
Next1 == Len(checkpoint) - call.start + 1

SequentialToken ==
  /\ call.op = "sequential" /\ Next1 <= Len(call.drafts)
  /\ LET x == call.drafts[Next1]
         t == Append(checkpoint, x)
     IN /\ x \in Tops(logits)
        /\ Holds(t, DecodeToken(gpu, t))
        /\ accepted' = Append(accepted, x)
  /\ UNCHANGED <<valid, draft, call, file, tainted, rounded>>

\* The logits are read back once, when all drafts are done or one is refused.
SequentialEnd ==
  /\ call.op = "sequential"
  /\ Next1 <= Len(call.drafts) => \E x \in Tops(logits) : x # call.drafts[Next1]
  /\ call' = Idle
  /\ UNCHANGED <<sessionVars, accepted, file, tainted, rounded>>

SequentialFails ==
  /\ call.op = "sequential"
  /\ Lost /\ call' = Idle
  /\ UNCHANGED <<checkpoint, draft, accepted, file, tainted, rounded>>

-----------------------------------------------------------------------------
(* Payloads and the other calls *)

\* ds4_session_save_payload, from an idle session or a progress callback.
Save ==
  /\ valid /\ Len(checkpoint) \in SaveAt
  /\ ~Busy \/ (call.op = "prefill" /\ call.notes)
  /\ file' = [text   |-> checkpoint,
              logits |-> logits,
              raw    |-> [p \in Live(Len(checkpoint)) |-> gpu.raw[Slot(p)]],
              comp   |-> [i \in 0 .. gpu.ncomp - 1 |-> gpu.comp[i]],
              ncomp  |-> gpu.ncomp,
              front  |-> gpu.front,
              tainted |-> tainted,
              rounded |-> rounded]
  /\ accepted' = <<>>
  /\ UNCHANGED <<sessionVars, call, tainted, rounded>>

\* Mutant: the rows go back in file order, as from a dump of the ring.
LoadedInFileOrder(f) ==
  LET first == Len(f.text) - Cardinality(DOMAIN f.raw) IN
  [raw   |-> [s \in DOMAIN Blank.raw |->
                IF first + s \in DOMAIN f.raw THEN f.raw[first + s] ELSE Garbage],
   comp  |-> [i \in DOMAIN Blank.comp |-> IF i < f.ncomp THEN f.comp[i] ELSE Garbage],
   ncomp |-> f.ncomp,
   front |-> f.front]

\* ds4_session_load_payload puts the rows where the ring of this session wants them.
Loaded(f) ==
  [raw   |-> [s \in DOMAIN Blank.raw |->
                IF \E p \in DOMAIN f.raw : Slot(p) = s
                THEN f.raw[CHOOSE p \in DOMAIN f.raw : Slot(p) = s] ELSE Garbage],
   comp  |-> [i \in DOMAIN Blank.comp |-> IF i < f.ncomp THEN f.comp[i] ELSE Garbage],
   ncomp |-> f.ncomp,
   front |-> f.front]

Fits(f) == f # NoFile /\ Len(f.text) < CtxSize

Load ==
  /\ ~Busy /\ Fits(file)
  /\ checkpoint' = file.text /\ valid' = TRUE /\ logits' = file.logits /\ draft' = NoDraft
  /\ gpu' = Loaded(file)
  /\ tainted' = file.tainted /\ rounded' = file.rounded
  /\ accepted' = <<>>
  /\ UNCHANGED <<call, file>>

\* The file ends too early: rows have been overwritten, valid still stands.
LoadFails ==
  /\ ~Busy /\ Fits(file)
  /\ logits' = Garbage /\ gpu' = Blank
  /\ call' = [op |-> "loadFailed"]
  /\ accepted' = <<>>
  /\ UNCHANGED <<checkpoint, valid, draft, file, tainted, rounded>>

\* kv_cache_try_load_text invalidates the session after a failed load.
CallerInvalidates ==
  /\ call.op = "loadFailed"
  /\ checkpoint' = <<>> /\ valid' = FALSE /\ draft' = NoDraft
  /\ call' = Idle
  /\ UNCHANGED <<logits, gpu, accepted, file, tainted, rounded>>

Invalidate ==
  /\ ~Busy
  /\ checkpoint' = <<>> /\ valid' = FALSE /\ draft' = NoDraft
  /\ accepted' = <<>>
  /\ UNCHANGED <<logits, gpu, call, file, tainted, rounded>>

\* ds4_session_rewind, which nothing in the repository calls: the checkpoint is
\* cut and stays as valid as it was, the backend stays where it is.
Rewind(pos) ==
  LET to == Lesser(Greater(0, pos), Len(checkpoint)) IN
  /\ ~Busy
  /\ checkpoint' = Upto(checkpoint, to) /\ draft' = NoDraft
  /\ tainted' = (tainted \/ to < Len(checkpoint))
  /\ accepted' = <<>>
  /\ UNCHANGED <<valid, logits, gpu, call, file, rounded>>

Synchronize == \E p \in Prompts, notes \in BOOLEAN : Sync(p, notes)
Decode == \E x \in Token : Eval(x)
Speculate == \E x \in Token, n \in 1 .. DraftMax + 1 : SpecEval(x, n)
Propose ==
  call.op = "draft" /\ \E strict \in BOOLEAN : \E d \in Drafts : SpecDraft(d, strict)

Next ==
  \/ Synchronize \/ PrefillChunk \/ PrefillWhole \/ ExtendToken \/ SyncFails
  \/ Decode \/ EvalFails
  \/ Speculate \/ Propose \/ SpecStop \/ VerifyOne \/ VerifyTwo \/ VerifyBatch
  \/ SequentialToken \/ SequentialEnd \/ SequentialFails
  \/ Save \/ Load \/ LoadFails \/ CallerInvalidates \/ Invalidate
  \/ \E pos \in RewindTo : Rewind(pos)

Spec == Init /\ [][Next]_vars

-----------------------------------------------------------------------------
(* Properties *)

\* Types, and no count of rows outgrows its cache (layer_comp_cap), not even in a
\* session that is rewound and decoded again and again.
TypeOK ==
  /\ IsText(checkpoint) /\ IsText(logits) /\ IsText(accepted) /\ IsText(file.text)
  /\ valid \in BOOLEAN /\ {tainted, rounded} \subseteq BOOLEAN /\ draft \in Token \cup {NoDraft}
  /\ gpu.ncomp \in 0 .. CompCap /\ IsText(gpu.front)
  /\ DOMAIN gpu.raw = 0 .. RawCap - 1 /\ \A s \in DOMAIN gpu.raw : IsText(gpu.raw[s])
  /\ DOMAIN gpu.comp = 0 .. CompCap - 1 /\ \A i \in DOMAIN gpu.comp : IsText(gpu.comp[i])

Exact(t, g, l) ==
  /\ l = t /\ CompressedFor(g, t)
  /\ \A p \in Past(Len(t)) : g.raw[Slot(p)] = Upto(t, p + 1)

\* Between calls, and whenever a progress callback may look, a session that says
\* its checkpoint is valid has the logits, the raw window, the compressed rows
\* and the compressor frontier of exactly those tokens (the comment above
\* ds4_session_sync).  Not so, in the code as in the model, after a frontier that
\* could not be restored and after ds4_session_rewind, which both leave the
\* session valid, until a prefill from the first token or a load.
ValidMeansExact ==
  valid /\ ~tainted /\ (~Busy \/ (call.op = "prefill" /\ call.notes))
    => Exact(checkpoint, gpu, logits)

\* A payload holds what a session needs to go on after exactly its tokens,
\* whether it was saved between calls or from the middle of a prefill.
FilesExact ==
  file # NoFile /\ ~file.tainted =>
    /\ file.logits = file.text
    /\ Exact(file.text, Loaded(file), file.logits)

Speculating == call.op \in {"draft", "verify", "sequential"}

\* Every token a speculative call accepts after its first is the one the target
\* model would have chosen there, decoding one by one ("the target model still
\* defines the exact output stream"), as long as no batch verifier has added to
\* the session; its rows may choose another that is nearly tied, and no worse
\* (the comment above use_decode2_exact).
DraftsAreGreedy ==
  [][Speculating /\ ~tainted =>
       \A k \in Len(accepted) + 1 .. Len(accepted') :
          LET t == call.base \o Upto(accepted', k - 1)
          IN IF rounded' THEN accepted'[k] \in Close(t) ELSE accepted'[k] = Greedy(t)]_vars

\* When a speculative call returns, the checkpoint has grown by exactly the
\* tokens it reports, no more than were asked for, and drafts leave room for one
\* token more.
ReportsWhatItCommits ==
  [][Speculating /\ call' = Idle /\ valid' =>
       /\ checkpoint' = call.base \o accepted'
       /\ Len(accepted') <= call.max
       /\ Len(accepted') > 1 => Len(checkpoint') < CtxSize]_vars
=============================================================================
