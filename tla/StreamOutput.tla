---------------------------- MODULE StreamOutput ----------------------------
(* One streamed chat turn of ds4_server.c, from the first sampled token to   *)
(* the last event: the decode loop of generate_job, which decides when the   *)
(* turn is over, and the three stream projections (OpenAI, Anthropic and     *)
(* Responses), which turn the text sampled so far into events the client     *)
(* cannot be asked to forget.  When the loop ends the whole text is parsed   *)
(* again; the finish stage sends what the projection has not.                *)
(*                                                                           *)
(* The model's text is one of Script; tokens reveal it one to MaxToken atoms *)
(* at a time and the turn may end anywhere.  Events are kept as what the     *)
(* client makes of them: reasoning, content, calls and the open block.       *)
EXTENDS DsmlText

Api == {"openai", "anthropic", "responses"}

CONSTANTS
  Request,   \* records [api, think, tools, stop]
  Script,    \* texts the model would generate if nothing stopped it
  MaxToken,  \* bound: atoms of a token
  Window     \* the 80 bytes in which a split marker is looked for, in atoms

ASSUME StreamAssumption ==
  /\ Request \subseteq [api : Api, think : BOOLEAN, tools : BOOLEAN, stop : BOOLEAN]
  /\ Script \subseteq Seq(Atom)
  /\ MaxToken \in Nat \ {0}
  /\ Window \in Nat \ {0}

VARIABLES
  req,      \* the request
  script,   \* what the model has in mind
  text,     \* buf text: what it has sampled
  phase,    \* "decode", "finish", "done"
  finish,   \* why the loop ended
  seen,     \* [start, end, from, stopFrom]: tool markers seen, where scans resume
  tracker,  \* dsml_decode_tracker
  out,      \* the projection's state and what the client has received
  final     \* what the final parse made of the text

vars == <<req, script, text, phase, finish, seen, tracker, out, final>>

Stop == <<"s", "t">>

-----------------------------------------------------------------------------
(* How much of the first n atoms may be shown: what could still turn out to  *)
(* be the beginning of something that must not be is held.                   *)

Utf8Anywhere(t, start, limit) == limit

Utf8SafeLen(t, start, limit) ==
  IF limit > start /\ t[limit] = "u1" THEN limit - 1 ELSE limit

EntitySafeLen(t, start, limit) ==
  IF limit > start /\ t[limit] = "&" THEN limit - 1 ELSE limit

StopSafeLen(n) == IF n > Len(Stop) - 1 THEN n - (Len(Stop) - 1) ELSE 0

\* Where the last "<" of the window is; n when there is none.
LastMarker(t, start, n) ==
  LET scan == IF n - start > Window THEN n - Window ELSE start
      open == {i \in (scan + 1)..n : t[i] = "<"}
  IN  IF open = {} THEN n ELSE (CHOOSE i \in open : \A j \in open : j <= i) - 1

HoldNoWs(t, start, n) == LastMarker(t, start, n)

\* Whitespace before a marker belongs to the marker, so it is held as well.
HoldMarker(t, start, n) ==
  LET shown == TrimWs(t, start, n)
      marker == LastMarker(t, start, n)
  IN  TrimWs(t, start, IF marker < shown THEN marker ELSE shown)


TextSafeLimit(t, start, n, tools, last) ==
  LET tool == FindLit(t, Len(t), start, Start("tools"))
  IN  CASE n <= start -> n
        [] n > start /\ tools /\ tool # NotFound -> TrimWs(t, start, tool)
        [] n > start /\ tools /\ tool = NotFound /\ ~last ->
             Utf8SafeLen(t, start, HoldMarker(t, start, n))
        [] n > start /\ ~tools /\ ~last -> Utf8SafeLen(t, start, n)
        [] OTHER -> n

\* Only the end marker of the value and a cut entity are held inside a value.
ValueSafeLen(t, start, n, isString) ==
  LET scan == IF n > start + 3 THEN n - 3 ELSE start
      cut == {p \in scan..(n - 1) : PartialLit(t, n, p, End("arg"), 1)}
      limit == IF cut = {} THEN n ELSE First(cut)
  IN  Utf8SafeLen(t, start, IF isString THEN EntitySafeLen(t, start, limit) ELSE limit)

-----------------------------------------------------------------------------
(* What the client receives.                                                 *)

Cut(t, from, to) == SubSeq(t, from + 1, to)

\* A delta that goes on in the middle of a character.
Splits(t, from, to) == from > 0 /\ from < to /\ t[from] = "u1" /\ t[from + 1] = "u2"

\* Only Anthropic events live in blocks; another kind cannot be opened inside one.
OpenBlock(o, kind) ==
  CASE req.api # "anthropic" \/ o.block = kind -> o
    [] req.api = "anthropic" /\ o.block = "none" -> [o EXCEPT !.block = kind]
    [] OTHER -> [o EXCEPT !.ok = FALSE]

CloseBlock(o) == [o EXCEPT !.block = "none"]

\* A reasoning or content delta that moves the cursor to position to.
Show(o, t, field, to) ==
  LET opened == OpenBlock(o, field)
  IN  IF to <= o.pos THEN o
      ELSE IF ~opened.ok THEN opened
      ELSE [opened EXCEPT ![field] = @ \o Cut(t, o.pos, to), !.pos = to,
                          !.split = @ \/ Splits(t, o.pos, to)]

AddArgs(o, piece) == [o EXCEPT !.calls[Len(o.calls)].args = @ \o piece]

-----------------------------------------------------------------------------
(* The live projection of a tool block, the same for OpenAI and Anthropic    *)
(* but for the blocks.                                                       *)

ToolIdle == [state |-> "none", pos |-> 0, index |-> 0,
             emitted |-> FALSE, first |-> TRUE, str |-> FALSE]

ToolInit(p) == [ToolIdle EXCEPT !.state = "invokes", !.pos = p]

ToolActive(o) == o.tool.state \in {"invokes", "params", "value"}

ToolFail(o) == [o EXCEPT !.tool.state = "error"]

StartCall(o, tagEnd) ==
  [OpenBlock(o, "tool") EXCEPT
     !.calls = Append(@, [id |-> <<"stream", o.tool.index + 1>>, args |-> <<"{">>, open |-> TRUE]),
     !.tool.emitted = TRUE, !.tool.first = TRUE,
     !.tool.pos = tagEnd, !.tool.state = "params"]

FinishCallOnly(o, p) ==
  [AddArgs(o, <<"}">>) EXCEPT
     !.calls[Len(o.calls)].open = FALSE,
     !.tool.pos = p + 3, !.tool.index = @ + 1, !.tool.state = "invokes"]

FinishCall(o, p) ==
  [CloseBlock(AddArgs(o, <<"}">>)) EXCEPT
     !.calls[Len(o.calls)].open = FALSE,
     !.tool.pos = p + 3, !.tool.index = @ + 1, !.tool.state = "invokes"]

\* The live projection has no nested arguments: one without the string attribute ends it.
StartArg(o, attr, tagEnd) ==
  LET quote == IF attr = "str" THEN <<"q">> ELSE <<>>
  IN  IF attr = "none" THEN ToolFail(o)
      ELSE [AddArgs(o, Member(o.tool.first, quote)) EXCEPT
              !.tool.first = FALSE, !.tool.str = (attr = "str"),
              !.tool.pos = tagEnd, !.tool.state = "value"]

ShowValue(o, t, to) ==
  LET piece == Cut(t, o.tool.pos, to)
  IN  IF to <= o.tool.pos THEN o
      ELSE [AddArgs(o, IF o.tool.str THEN Unescape(piece) ELSE piece) EXCEPT
              !.tool.pos = to, !.split = @ \/ Splits(t, o.tool.pos, to)]

FinishArg(o, t, close) ==
  LET shown == ShowValue(o, t, close)
  IN  [(IF o.tool.str THEN AddArgs(shown, <<"q">>) ELSE shown) EXCEPT
         !.tool.pos = close + 3, !.tool.state = "params"]

BetweenCalls(o, t, n) ==
  LET p == SkipWs(t, n, o.tool.pos)
      at == [o EXCEPT !.tool.pos = p]
      tagEnd == TagEnd(t, n, p)
  IN  CASE FullLit(t, n, p, End("tools")) ->
             [at EXCEPT !.tool.pos = p + 3, !.tool.state = "done"]
        [] PartialLit(t, n, p, End("tools"), 0) \/ PartialLit(t, n, p, Start("call"), 0) -> at
        [] FullLit(t, n, p, Start("call")) ->
             IF tagEnd = NotFound THEN at ELSE StartCall(at, tagEnd)
        [] OTHER -> ToolFail(at)

BetweenArgs(o, t, n) ==
  LET p == SkipWs(t, n, o.tool.pos)
      at == [o EXCEPT !.tool.pos = p]
      tagEnd == TagEnd(t, n, p)
  IN  CASE FullLit(t, n, p, End("call")) -> FinishCall(at, p)
        [] PartialLit(t, n, p, End("call"), 0) \/ PartialLit(t, n, p, Start("arg"), 0) -> at
        [] FullLit(t, n, p, Start("arg")) ->
             IF tagEnd = NotFound THEN at ELSE StartArg(at, Attr(t, p, tagEnd), tagEnd)
        [] OTHER -> ToolFail(at)

InValue(o, t, n) ==
  LET close == FindLit(t, n, o.tool.pos, End("arg"))
  IN  IF close # NotFound THEN FinishArg(o, t, close)
      ELSE ShowValue(o, t, ValueSafeLen(t, o.tool.pos, n, o.tool.str))

ToolStep(o, t, n) ==
  CASE o.tool.state = "invokes" -> BetweenCalls(o, t, n)
    [] o.tool.state = "params" -> BetweenArgs(o, t, n)
    [] OTHER -> InValue(o, t, n)

ToolRound(o, t, n) ==
  IF ToolActive(o) /\ o.tool.pos < n THEN ToolStep(o, t, n) ELSE o

\* A step moves on, leaves the block or is the last: n + 2 are enough.
ToolUpdate(o, t, n) ==
  LET after[k \in 0..(n + 2)] == IF k = 0 THEN o ELSE ToolRound(after[k - 1], t, n)
  IN  after[n + 2]

-----------------------------------------------------------------------------
(* The projection: thinking, then text, then a tool block, each handing over *)
(* within one update.  n atoms may be looked at, but markers are searched    *)
(* for in the whole text.                                                    *)

\* A think marker the model repeats is skipped, once enough is there to tell.
CheckThinkPrefix(o, t, n, last) ==
  CASE o.checked -> o
    [] ~o.checked /\ ~last /\ PartialLit(t, n, 0, Start("think"), 0) -> o
    [] OTHER -> [o EXCEPT !.checked = TRUE,
                          !.pos = IF FullLit(t, n, 0, Start("think")) THEN 2 ELSE @]

HoldThink(o, t, n) ==
  Utf8SafeLen(t, o.pos, IF n > 2 THEN n - 2 ELSE o.pos)

Thinking(o, t, n, last) ==
  LET close == FindLit(t, Len(t), o.pos, End("think"))
      limit == IF close # NotFound THEN close ELSE IF last THEN n ELSE HoldThink(o, t, n)
      shown == Show(o, t, "reasoning", limit)
  IN  CASE ~o.checked \/ ~shown.ok -> shown
        [] o.checked /\ shown.ok /\ close # NotFound ->
             [CloseBlock(shown) EXCEPT !.pos = close + 3, !.mode = "text"]
        [] o.checked /\ shown.ok /\ close = NotFound /\ last ->
             [CloseBlock(shown) EXCEPT !.mode = "suppress"]
        [] OTHER -> shown

\* At the last look Anthropic leaves a block it first sees to the finish stage.
Projects(t, n, tool, last) ==
  /\ req.api # "responses"
  /\ req.api = "anthropic" => ~last
  /\ FullLit(t, n, tool, Start("tools"))

TextPart(o, t, n, last) ==
  LET tool == IF req.tools THEN FindLit(t, Len(t), o.pos, Start("tools")) ELSE NotFound
      shown == Show(o, t, "content", TextSafeLimit(t, o.pos, n, req.tools, last))
  IN  CASE ~shown.ok -> shown
        [] shown.ok /\ tool # NotFound ->
             [CloseBlock(shown) EXCEPT
                !.pos = tool,
                !.mode = IF Projects(t, n, tool, last) THEN "tool" ELSE "suppress",
                !.tool = IF Projects(t, n, tool, last) THEN ToolInit(tool + 2) ELSE @]
        [] shown.ok /\ tool = NotFound /\ last -> [CloseBlock(shown) EXCEPT !.mode = "suppress"]
        [] OTHER -> shown

ToolPart(o, t, n) ==
  LET done == ToolUpdate(o, t, n)
  IN  IF ToolActive(done) THEN done ELSE [done EXCEPT !.mode = "suppress"]

ThinkingPart(o, t, n, last) == IF o.checked THEN Thinking(o, t, n, last) ELSE o

FromTool(o, t, n) == IF o.mode = "tool" THEN ToolPart(o, t, n) ELSE o

FromText(o, t, n, last) ==
  FromTool(IF o.mode = "text" THEN TextPart(o, t, n, last) ELSE o, t, n)

Update(o, t, n, last) ==
  FromText(IF o.mode = "thinking"
           THEN ThinkingPart(CheckThinkPrefix(o, t, n, last), t, n, last) ELSE o, t, n, last)

-----------------------------------------------------------------------------
(* The decode loop.                                                          *)

NoFinal == [ok |-> FALSE, reasoning |-> <<>>, content |-> <<>>, calls |-> <<>>,
            finish |-> "none", recovered |-> FALSE]

OutInit(think) ==
  [mode |-> IF think THEN "thinking" ELSE "text", pos |-> 0, checked |-> FALSE,
   ok |-> TRUE, block |-> "none", reasoning |-> <<>>, content |-> <<>>, calls |-> <<>>,
   tool |-> ToolIdle, legal |-> TRUE, split |-> FALSE, stopped |-> FALSE]

Init ==
  /\ req \in Request
  /\ script \in Script
  /\ text = <<>>
  /\ phase = "decode"
  /\ finish = "length"
  /\ seen = [start |-> FALSE, end |-> FALSE, from |-> 0, stopFrom |-> 0]
  /\ tracker = TrackerInit
  /\ out = OutInit(req.think)
  /\ final = NoFinal

\* Markers of the last Window atoms and the new ones; an end counts once a start was seen.
ObserveToolMarkers(t) ==
  LET n == Len(t)
      start == FindLit(t, n, seen.from, Start("tools"))
      scan == IF seen.start THEN seen.from ELSE start
      end == IF scan = NotFound THEN NotFound ELSE FindLit(t, n, scan, End("tools"))
  IN  [seen EXCEPT !.start = @ \/ start # NotFound,
                   !.end = @ \/ end # NotFound,
                   !.from = IF n > Window THEN n - Window ELSE 0]

\* A stop string is looked for where the last token could have completed one.
StopAt(t) == IF req.stop THEN FindLit(t, Len(t), seen.stopFrom, Stop) ELSE NotFound

StreamAll(t) ==
  LET n == Len(t)
  IN  IF StopAt(t) # NotFound THEN StopAt(t) ELSE Utf8SafeLen(t, 0, n)

\* What the projections may look at: up to the stop string, or short of one that may begin.
StreamLen(t) ==
  LET n == Len(t)
  IN  IF StopAt(t) # NotFound THEN StopAt(t)
      ELSE Utf8SafeLen(t, 0, IF req.stop THEN StopSafeLen(n) ELSE n)

\* </think> and the name of the tool marker are tokens of the vocabulary: a token
\* of other text is over before one of them is whole.
Marker(t, p) == FullLit(t, Len(t), p, End("think")) \/ FullLit(t, Len(t), p, Start("tools"))

OneToken(t, from) == \A p \in (from + 1)..Len(t) : ~Marker(t, p)

\* One token of k atoms: text, tracker, projection, markers, and whether the turn is over.
Token(k) ==
  /\ phase = "decode"
  /\ Len(text) + k <= Len(script)
  /\ OneToken(SubSeq(script, 1, Len(text) + k), Len(text))
  /\ LET t == SubSeq(script, 1, Len(text) + k)
         hit == StopAt(t) # NotFound
         marks == IF req.tools THEN ObserveToolMarkers(t) ELSE seen
         over == req.tools /\ marks.end
     IN  /\ text' = IF hit THEN SubSeq(t, 1, StopAt(t)) ELSE t
         /\ tracker' = IF req.tools THEN Track(tracker, t) ELSE tracker
         /\ out' = Update(out, t, StreamLen(t), FALSE)
         /\ seen' = [marks EXCEPT !.stopFrom = IF hit \/ ~req.stop THEN @ ELSE StopSafeLen(Len(t))]
         /\ finish' = IF hit THEN "stop" ELSE IF over THEN "tool_calls" ELSE finish
         /\ phase' = IF hit \/ over THEN "finish" ELSE "decode"
  /\ UNCHANGED <<req, script, final>>

\* End of sequence, the token limit, or a failed decode or a stop signal.
EndTurn(why) ==
  /\ phase = "decode"
  /\ finish' = why
  /\ phase' = "finish"
  /\ UNCHANGED <<req, script, text, seen, tracker, out, final>>

\* The client is gone: a write fails and so does every later one.
LoseClient ==
  /\ phase = "decode"
  /\ finish' = "error"
  /\ phase' = "finish"
  /\ out' = [out EXCEPT !.ok = FALSE, !.mode = "gone"]
  /\ UNCHANGED <<req, script, text, seen, tracker, final>>

-----------------------------------------------------------------------------
(* The end of the turn.                                                      *)

\* A block that was begun and not ended fails the turn.
FailUnterminated ==
  IF req.tools /\ seen.start /\ ~seen.end THEN "error" ELSE finish

FreshId(i) == <<"final", i>>

\* Calls the client has seen keep the id it has seen.
ToolId(i) == IF i <= Len(out.calls) THEN <<"stream", i>> ELSE <<"final", i>>

Remembered(calls) == [i \in DOMAIN calls |-> [id |-> ToolId(i), args |-> calls[i], open |-> FALSE]]

\* What generate_job returns and remembers.
ConcludeFrom(p, why) ==
  LET recovered == ~p.ok /\ req.tools /\ seen.start /\ why # "error"
  IN  [ok |-> p.ok, reasoning |-> p.reasoning, content |-> p.content,
       calls |-> Remembered(p.calls), recovered |-> recovered,
       finish |-> CASE p.calls # <<>> -> "tool_calls"
                    [] p.calls = <<>> /\ recovered /\ why # "length" -> "stop"
                    [] OTHER -> why]

Conclude == ConcludeFrom(ParseMessage(text), FailUnterminated)

FinishOpenAI(o, f) ==
  [o EXCEPT !.calls = IF o.tool.emitted THEN @ ELSE f.calls, !.stopped = TRUE]

\* A turn of thinking alone gets an empty text block; calls not shown live follow.
FinishAnthropic(o, f) ==
  LET empty == o.reasoning # <<>> /\ o.content = <<>> /\ f.calls = <<>>
      o1 == IF empty THEN CloseBlock(OpenBlock(o, "content")) ELSE o
      shown == IF o.tool.emitted THEN o.tool.index ELSE 0
      rest == SubSeq(f.calls, shown + 1, Len(f.calls))
  IN  IF empty /\ ~OpenBlock(o, "content").ok THEN [o EXCEPT !.ok = FALSE]
      ELSE [o1 EXCEPT !.calls = @ \o rest, !.stopped = TRUE,
                      !.legal = @ /\ o1.block = "none"]

\* Text taken back from a block that could not be read is shown after all.
FinishResponses(o, t, f) ==
  [o EXCEPT !.content = IF f.recovered THEN @ \o Cut(t, o.pos, Len(t)) ELSE @,
            !.split = @ \/ (f.recovered /\ Splits(t, o.pos, Len(t))),
            !.calls = f.calls, !.stopped = TRUE]

FinishMessage(o, t, f) ==
  CASE ~o.ok -> o
    [] o.ok /\ req.api = "openai" -> FinishOpenAI(o, f)
    [] o.ok /\ req.api = "anthropic" -> FinishAnthropic(o, f)
    [] OTHER -> FinishResponses(o, t, f)

FinishStream(o, t, f) ==
  FinishMessage(IF o.ok THEN Update(o, t, Len(t), TRUE) ELSE o, t, f)

Finish ==
  /\ phase = "finish"
  /\ final' = Conclude
  /\ out' = FinishStream(out, text, final')
  /\ phase' = "done"
  /\ UNCHANGED <<req, script, text, finish, seen, tracker>>

Next ==
  \/ \E k \in 1..MaxToken : Token(k)
  \/ \E why \in {"stop", "length", "error"} : EndTurn(why)
  \/ LoseClient
  \/ Finish

Spec == Init /\ [][Next]_vars

-----------------------------------------------------------------------------
(* Properties.                                                               *)

Opened(t) == FindLit(t, Len(t), 0, End("think"))
ArgMarkers(t) == {p \in 0..Len(t) : FullLit(t, Len(t), p, Start("arg"))}

\* Reasoning is closed before a tool block begins, and only where it was asked for.
ThinksFirst(t) ==
  IF req.think THEN Opened(t) # NotFound /\ (ToolStart(t) = NotFound \/ Opened(t) < ToolStart(t))
  ELSE Opened(t) = NotFound

\* Every argument tag says whether its value is a string.
Typed(t) ==
  \A p \in ArgMarkers(t) : TagEnd(t, Len(t), p) # NotFound => Attr(t, p, TagEnd(t, Len(t), p)) # "none"

\* The final parser takes the marker at which the streams see a block begin.
FirstBlock(t) == BlockStart(t) = ToolStart(t)

\* The streams send a raw value as the model writes it, the final parser one JSON
\* value and null for none.  Here both are the same for every raw value.
Verbatim(t) ==
  \A p \in ArgMarkers(t) :
    LET tagEnd == TagEnd(t, Len(t), p)
        close == FindLit(t, Len(t), tagEnd, End("arg"))
        value == Cut(t, tagEnd, close)
    IN  tagEnd # NotFound /\ close # NotFound /\ Attr(t, p, tagEnd) = "raw"
        => ArgValue(value, "raw") = value

\* The turn is over, the client is there and has not been told of an error.
Concluded == phase = "done" /\ out.mode # "gone" /\ final.finish # "error"

\* A client that put the deltas together holds what a client that did not
\* stream would have been sent: the same reasoning, content, call ids and
\* argument objects, whatever the tokens cut apart and wherever the turn ended.
\* Left out is what StreamsFinalObject refutes: a marker the final parser prefers
\* to the first one, and a raw value it rewrites.
StreamedMatchesFinal ==
  Concluded /\ final.ok
    /\ ThinksFirst(text) /\ Typed(text) /\ (req.tools \/ ToolStart(text) = NotFound)
    /\ FirstBlock(text) /\ Verbatim(text)
  => /\ out.ok /\ out.stopped
     /\ out.content = final.content
     /\ out.reasoning = final.reasoning
     /\ out.calls = final.calls

\* Nothing of a tool block, not even the first atom of its marker or the space
\* before it, is shown as content while more may come or once the marker is
\* whole: what is shown is the beginning of the text before the block, for
\* blocks that are cut short or unreadable too.
NoToolSyntaxShown ==
  req.tools /\ ~final.recovered /\ (phase = "done" => ToolStart(text) # NotFound)
    /\ ToolStart(script) # NotFound /\ ThinksFirst(script)
  => LET start == ToolStart(script)
         from == IF req.think THEN Opened(script) + 3 ELSE 0
     IN  IsPrefix(out.content, Cut(script, from, TrimWs(script, from, start)))

\* No delta begins in the middle of a character.
NoSplitCharacters == ~out.split

\* While the model goes on nothing from the first stop string on is shown, not
\* even its first atom before the rest of it has been sampled, and once the
\* stop string has been sampled it is gone from the text.
StopNotShown ==
  LET stop == FindLit(script, Len(script), 0, Stop)
  IN  req.stop /\ stop # NotFound
      => /\ phase # "done" => out.pos <= stop /\ out.tool.pos <= stop
         /\ Len(text) < stop + Len(Stop)

\* A block that was begun in the reasoning, with the end of the reasoning in one
\* of its values: what the projection takes for a block is not what the final
\* parser does.
BlockInReasoning(t) ==
  req.think /\ ToolStart(t) # NotFound /\ ToolStart(t) < Opened(t)

\* Every block is closed when the message stops, for a turn that did not fail
\* and whose block the live projection could follow to its end.  Where the final
\* parser prefers a later marker it may not: a call of the second block is sent
\* inside the block the first one left open.
BlocksClosed ==
  Concluded /\ final.ok /\ Typed(text) /\ FirstBlock(text) /\ ~BlockInReasoning(text)
  => out.ok /\ out.legal

\* "We stream exactly the same object that the final DSML parser will build"
\* (ds4_server.c:6889): the objects of the calls a client was sent are those of
\* the final parse.  Neither stream keeps to it, in two ways.  The streams begin at the
\* first tool marker, the final parser at the first behind a blank line, if there
\* is one.  And the final parser reduces a raw value to one JSON value and makes
\* null of an empty one, where the streams send nothing behind the colon.
StreamsFinalObject ==
  Concluded /\ final.ok /\ req.api = "anthropic" /\ req.tools /\ ThinksFirst(text) /\ Typed(text)
  => \A i \in DOMAIN out.calls :
       i \in DOMAIN final.calls /\ out.calls[i].args = final.calls[i].args

=============================================================================
