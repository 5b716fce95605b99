------------------------------ MODULE DsmlText ------------------------------
(* The text a model generates for one turn, and the readers of it that look  *)
(* at the text alone: the final parser of ds4_server.c, which splits it into *)
(* reasoning, content and tool calls, and the decode tracker, which says     *)
(* whether the next token is tool syntax or payload.                         *)
(*                                                                           *)
(* A text is a sequence of atoms.  A marker is several atoms, because a      *)
(* tokenizer may cut it anywhere: Start(t) for an opening marker and End(t)  *)
(* for a closing one, with t in {"think", "tools", "call", "arg"}.  A call   *)
(* or argument tag goes on to ">"; the argument's string attribute is the    *)
(* atom "str" (string="true"), "raw" (string="false") or absent.  The other  *)
(* atoms: "w" a newline, "&" ";" the two halves of an escape entity, "u1"    *)
(* "u2" the two halves of a UTF-8 character, "q" and "esc" the JSON quote    *)
(* and backslash, "s" "t" the halves of a stop string, any other plain text; *)
(* in a value that is JSON, plain atoms are a number or a literal, and what   *)
(* stands behind a backslash is what JSON lets it escape.  Names of tools    *)
(* and parameters are left out, as is the choice among three marker          *)
(* spellings: a text keeps to one.                                           *)
EXTENDS Integers, Sequences, SequencesExt

Marks == {"think", "tools", "call", "arg"}
Special == {"<", "/", ">", "str", "raw", "w", "&", ";", "u1", "u2", "q", "esc", "s", "t"}
Json == {"amp", "key", ",", "{", "}", "null"}

\* What a text and the JSON made of it consist of.
Atom == Marks \cup Special \cup Json \cup STRING

Start(t) == <<"<", t>>
End(t) == <<"<", "/", t>>

-----------------------------------------------------------------------------
(* Searching.  A position is the number of atoms before it; a search is      *)
(* bounded by the first n atoms.                                             *)

NotFound == -1

First(S) == IF S = {} THEN NotFound ELSE CHOOSE p \in S : \A q \in S : p <= q

FullLit(t, n, p, lit) ==
  p + Len(lit) <= n /\ SubSeq(t, p + 1, p + Len(lit)) = lit

\* The text ends at position p + min or later inside a possible literal.
PartialLit(t, n, p, lit, min) ==
  /\ p <= n
  /\ n - p < Len(lit)
  /\ n - p >= min
  /\ SubSeq(t, p + 1, n) = SubSeq(lit, 1, n - p)

FindLit(t, n, p, lit) == First({q \in p..n : FullLit(t, n, q, lit)})

SkipWs(t, n, p) == First({q \in p..n : q = n \/ t[q + 1] # "w"})

\* The position behind the tag that starts at p, NotFound when it is not closed.
TagEnd(t, n, p) ==
  LET close == FindLit(t, n, p, <<">">>)
  IN  IF close = NotFound THEN NotFound ELSE close + 1

Attr(t, p, tagEnd) ==
  LET tag == SubSeq(t, p + 1, tagEnd)
  IN  CASE Contains(tag, "str") -> "str"
        [] Contains(tag, "raw") -> "raw"
        [] OTHER -> "none"

-----------------------------------------------------------------------------
(* What a value becomes: entities are decoded, one atom for each.            *)

Unescaped(v, i) ==
  CASE v[i] = "&" /\ i < Len(v) /\ v[i + 1] = ";" -> <<"amp">>
    [] v[i] = ";" /\ i > 1 /\ v[i - 1] = "&" -> <<>>
    [] OTHER -> <<v[i]>>

Unescape(v) == FlattenSeq([i \in DOMAIN v |-> Unescaped(v, i)])

Quoted(v) == <<"q">> \o Unescape(v) \o <<"q">>

Plain(a) == a \notin Marks \cup Special \cup Json

\* An odd number of backslashes stands before position i.
Escaped(v, i) ==
  \E k \in 1..(i - 1) :
    /\ k % 2 = 1
    /\ \A j \in (i - k)..(i - 1) : v[j] = "esc"
    /\ i - k = 1 \/ v[i - k - 1] # "esc"

\* Where the JSON value that begins at p ends: a quoted string, a number or a
\* literal.  NotFound when there is none.
JsonEnd(v, p) ==
  LET n == Len(v)
      quote == First({e \in (p + 2)..n : v[e] = "q" /\ ~Escaped(v, e)})
      plain == First({e \in p..n : e = n \/ ~Plain(v[e + 1])})
  IN  CASE p < n /\ v[p + 1] = "q" -> quote
        [] p < n /\ Plain(v[p + 1]) -> plain
        [] OTHER -> NotFound

\* The JSON value a raw value begins with; one that cannot be read stays as it is.
Minified(v) ==
  LET p == SkipWs(v, Len(v), 0)
      e == JsonEnd(v, p)
  IN  IF e = NotFound THEN v ELSE SubSeq(v, p + 1, e)

\* A value as JSON: string values are decoded and quoted, raw ones reduced to
\* one JSON value, null where nothing is left.
ArgValue(v, attr) ==
  CASE attr # "raw" -> Quoted(v)
    [] attr = "raw" /\ Minified(v) = <<>> -> <<"null">>
    [] OTHER -> Minified(v)

Member(first, value) == (IF first THEN <<>> ELSE <<",">>) \o <<"key">> \o value

-----------------------------------------------------------------------------
(* The final parser.  Each reader returns whether it could read, where it    *)
(* stopped, and the JSON it built.                                           *)

Bad == [ok |-> FALSE, next |-> 0, out |-> <<>>]

\* One argument without children, at p.
LeafValue(t, p, tagEnd, close) ==
  IF tagEnd = NotFound \/ close = NotFound THEN Bad
  ELSE [ok |-> TRUE, next |-> close + 3,
        out |-> ArgValue(SubSeq(t, tagEnd + 1, close), Attr(t, p, tagEnd))]

ParseLeaf(t, p) ==
  LET tagEnd == TagEnd(t, Len(t), p)
  IN  LeafValue(t, p, tagEnd, FindLit(t, Len(t), tagEnd, End("arg")))

\* One element and, when it could be read, the rest of its list.
Before(first, one, rest) ==
  IF one.ok THEN [rest EXCEPT !.out = Member(first, one.out) \o @] ELSE Bad

\* The child arguments of an argument without a string attribute.
ParseNested(t, from) ==
  LET n == Len(t)
      read[p \in 0..n] ==
        LET q == SkipWs(t, n, p)
            leaf == ParseLeaf(t, q)
        IN  IF FullLit(t, n, q, Start("arg"))
            THEN Before(p = from, leaf, read[leaf.next])
            ELSE [ok |-> p # from, next |-> q, out |-> <<>>]
  IN  read[from]

\* The end marker of an argument with children may be missing.
NestedValue(t, nested) ==
  LET n == Len(t)
      behind == SkipWs(t, n, nested.next)
  IN  IF ~nested.ok THEN Bad
      ELSE [ok |-> TRUE,
            next |-> behind + IF FullLit(t, n, behind, End("arg")) THEN 3 ELSE 0,
            out |-> <<"{">> \o nested.out \o <<"}">>]

ParseArg(t, p) ==
  LET n == Len(t)
      tagEnd == TagEnd(t, n, p)
  IN  IF tagEnd = NotFound THEN Bad
      ELSE IF Attr(t, p, tagEnd) = "none" /\ FullLit(t, n, SkipWs(t, n, tagEnd), Start("arg"))
      THEN NestedValue(t, ParseNested(t, tagEnd))
      ELSE ParseLeaf(t, p)

\* The arguments of a call from p on and its end marker, given how the rest of them reads.
ArgsFrom(t, p, first, rest) ==
  LET n == Len(t)
      q == SkipWs(t, n, p)
      arg == ParseArg(t, q)
  IN  CASE FullLit(t, n, q, End("call")) -> [ok |-> TRUE, next |-> q + 3, out |-> <<"}">>]
        [] FullLit(t, n, q, Start("arg")) -> Before(first, arg, rest[arg.next])
        [] OTHER -> Bad

\* The arguments behind the first, from each place on.
RestArgs(t) ==
  LET rest[p \in 0..Len(t)] == ArgsFrom(t, p, FALSE, rest)
  IN  rest

\* The arguments of the call whose tag ends at from.
ParseArgs(t, from) == ArgsFrom(t, from, TRUE, RestArgs(t))

BeforeCalls(args, rest) ==
  IF args.ok THEN [rest EXCEPT !.out = <<(<<"{">> \o args.out)>> \o @] ELSE Bad

\* The calls from p on and the end of the block, given how the rest of them reads.
CallsFrom(t, p, rest) ==
  LET n == Len(t)
      q == SkipWs(t, n, p)
      tagEnd == TagEnd(t, n, q)
      args == ParseArgs(t, tagEnd)
  IN  CASE FullLit(t, n, q, End("tools")) -> [ok |-> TRUE, next |-> q + 3, out |-> <<>>]
        [] FullLit(t, n, q, Start("call")) /\ tagEnd # NotFound ->
             BeforeCalls(args, rest[args.next])
        [] OTHER -> Bad

\* The calls of the block whose start marker ends at from, as their argument objects.
ParseCalls(t, from) ==
  LET rest[p \in 0..Len(t)] == CallsFrom(t, p, rest)
  IN  rest[from]

\* The first marker, where the streams see a block begin.
ToolStart(t) == FindLit(t, Len(t), 0, Start("tools"))

\* The marker the final parser takes: the first behind a blank line, wherever
\* it is, and only without such a one the first.
BlockStart(t) ==
  LET apart == FindLit(t, Len(t), 0, <<"w", "w">> \o Start("tools"))
  IN  IF apart = NotFound THEN ToolStart(t) ELSE apart + 2

\* The last position at or before p with no whitespace just before it, from start on.
TrimWs(t, start, p) ==
  CHOOSE q \in start..p : /\ \A i \in (q + 1)..p : t[i] = "w"
                          /\ q = start \/ t[q] # "w"

\* What is before a closing think marker is reasoning; without one all is content.
SplitReasoning(t) ==
  LET from == IF FullLit(t, Len(t), 0, Start("think")) THEN 2 ELSE 0
      close == FindLit(t, Len(t), from, End("think"))
  IN  IF close = NotFound THEN [reasoning |-> <<>>, content |-> t]
      ELSE [reasoning |-> SubSeq(t, from + 1, close),
            content |-> SubSeq(t, close + 4, Len(t))]

\* A block that cannot be read makes the whole text content.
WithCalls(t, block, split) ==
  IF block.ok
  THEN [ok |-> TRUE, reasoning |-> split.reasoning, content |-> split.content,
        calls |-> block.out]
  ELSE [ok |-> FALSE, reasoning |-> <<>>, content |-> t, calls |-> <<>>]

ParseMessage(t) ==
  LET start == BlockStart(t)
  IN  IF start = NotFound
      THEN WithCalls(t, [ok |-> TRUE, next |-> 0, out |-> <<>>], SplitReasoning(t))
      ELSE WithCalls(t, ParseCalls(t, start + 2),
                     SplitReasoning(SubSeq(t, 1, TrimWs(t, 0, start))))

-----------------------------------------------------------------------------
(* The decode tracker: fed the whole text after every token, it goes on from *)
(* where it stopped.                                                         *)

TrackerInit == [mode |-> "search", pos |-> 0, decode |-> "outside",
                inString |-> FALSE, escaped |-> FALSE]

\* Positions searched for the block start are not searched again, but for a marker's length.
TrackSearch(dt, t) ==
  LET n == Len(t)
      start == FindLit(t, n, dt.pos, Start("tools"))
  IN  IF start = NotFound
      THEN [dt EXCEPT !.pos = IF n > 2 THEN n - 2 ELSE 0]
      ELSE [dt EXCEPT !.pos = start + 2, !.mode = "structural", !.decode = "structural"]

EndOfValue(dt) ==
  [dt EXCEPT !.pos = @ + 3, !.mode = "structural", !.decode = "structural"]

TrackString(dt, t) ==
  LET n == Len(t)
  IN  CASE dt.pos = n -> [dt EXCEPT !.decode = "string"]
        [] FullLit(t, n, dt.pos, End("arg")) -> EndOfValue(dt)
        [] PartialLit(t, n, dt.pos, End("arg"), 2) -> [dt EXCEPT !.decode = "structural"]
        [] OTHER -> [dt EXCEPT !.pos = @ + 1, !.decode = "string"]

\* One more character of a JSON value: inside a string only a quote ends it.
JsonStep(dt, c) ==
  [dt EXCEPT !.pos = @ + 1,
             !.escaped = dt.inString /\ ~dt.escaped /\ c = "esc",
             !.inString = IF c = "q" /\ ~dt.escaped THEN ~dt.inString ELSE dt.inString]

TrackJson(dt, t) ==
  LET n == Len(t)
  IN  CASE dt.pos = n ->
             [dt EXCEPT !.decode = IF dt.inString THEN "jsonString" ELSE "json"]
        [] dt.pos < n /\ ~dt.inString /\ FullLit(t, n, dt.pos, End("arg")) -> EndOfValue(dt)
        [] dt.pos < n /\ ~dt.inString /\ PartialLit(t, n, dt.pos, End("arg"), 2) ->
             [dt EXCEPT !.decode = "structural"]
        [] OTHER -> JsonStep(dt, t[dt.pos + 1])

\* Tags between values; anything unknown leaves the tracker where it is.
TrackStructural(dt, t) ==
  LET n == Len(t)
      p == SkipWs(t, n, dt.pos)
      tagEnd == TagEnd(t, n, p)
      at == [dt EXCEPT !.pos = p, !.decode = "structural"]
  IN  CASE FullLit(t, n, p, End("tools")) ->
             [at EXCEPT !.pos = p + 3, !.mode = "done", !.decode = "outside"]
        [] FullLit(t, n, p, End("call")) -> [at EXCEPT !.pos = p + 3]
        [] FullLit(t, n, p, Start("call")) /\ tagEnd # NotFound -> [at EXCEPT !.pos = tagEnd]
        [] FullLit(t, n, p, Start("arg")) /\ tagEnd # NotFound ->
             IF Attr(t, p, tagEnd) = "str"
             THEN [at EXCEPT !.pos = tagEnd, !.mode = "string", !.decode = "string"]
             ELSE [at EXCEPT !.pos = tagEnd, !.mode = "json", !.decode = "json",
                             !.inString = FALSE, !.escaped = FALSE]
        [] OTHER -> at

TrackStep(dt, t) ==
  CASE dt.mode = "search" -> TrackSearch(dt, t)
    [] dt.mode = "string" -> TrackString(dt, t)
    [] dt.mode = "json" -> TrackJson(dt, t)
    [] dt.mode = "structural" -> TrackStructural(dt, t)
    [] OTHER -> dt

\* A step moves on, enters another mode or is the last: Len(t) + 3 are enough.
Track(dt, t) ==
  LET after[k \in 0..(Len(t) + 3)] ==
        IF k = 0 THEN dt ELSE TrackStep(after[k - 1], t)
  IN  after[Len(t) + 3]

=============================================================================
