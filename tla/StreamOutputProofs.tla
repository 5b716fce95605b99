------------------------ MODULE StreamOutputProofs ------------------------
(***************************************************************************)
(* Proofs about a streamed turn, for any texts a model may generate, cut   *)
(* into tokens in any way, and any request.                                *)
(***************************************************************************)
EXTENDS StreamOutput, CountingLemmas, SequenceTheorems, TLAPS

\* The texts a turn can sample.
Texts == Seq(Atom)

-----------------------------------------------------------------------------
(* Markers and searches, atom by atom.                                     *)

\* A literal of two atoms.
LEMMA FullLit2 ==
  ASSUME NEW t \in Texts, NEW n \in 0..Len(t), NEW p \in Nat, NEW a \in Atom, NEW b \in Atom
  PROVE  FullLit(t, n, p, <<a, b>>) <=> p + 2 <= n /\ t[p + 1] = a /\ t[p + 2] = b
<1> DEFINE lit == <<a, b>>
<1>1. lit \in Seq(Atom)
  OBVIOUS
<1>0. Len(lit) = 2 /\ lit[1] = a /\ lit[2] = b
  OBVIOUS
<1> HIDE DEF lit
<1>2. CASE p + 2 <= n
  <2>1. t \in Seq(Atom) /\ p + 1 \in 1..Len(t) + 1 /\ p + 2 \in p .. Len(t)
    BY <1>2 DEF Texts
  <2> DEFINE s == SubSeq(t, p + 1, p + 2)
  <2>2. Len(s) = 2 /\ s \in Seq(Atom) /\ s[1] = t[p + 1] /\ s[2] = t[p + 2]
    BY <2>1, SubSeqProperties
  <2> HIDE DEF s
  <2>3. ASSUME s[1] = lit[1], s[2] = lit[2] PROVE s = lit
    <3>1. \A i \in 1..Len(s) : s[i] = lit[i]
      BY <2>2, <2>3
    <3> QED BY <1>0, <1>1, <2>2, <3>1, SeqEqual
  <2> QED BY <1>0, <1>2, <2>2, <2>3 DEF FullLit, s, lit
<1>3. CASE ~(p + 2 <= n)
  BY <1>0, <1>3 DEF FullLit, lit
<1> QED BY <1>2, <1>3

\* A literal of three atoms.
LEMMA FullLit3 ==
  ASSUME NEW t \in Texts, NEW n \in 0..Len(t), NEW p \in Nat,
         NEW a \in Atom, NEW b \in Atom, NEW c \in Atom
  PROVE  FullLit(t, n, p, <<a, b, c>>)
           <=> p + 3 <= n /\ t[p + 1] = a /\ t[p + 2] = b /\ t[p + 3] = c
<1> DEFINE lit == <<a, b, c>>
<1>1. lit \in Seq(Atom)
  OBVIOUS
<1>0. Len(lit) = 3 /\ lit[1] = a /\ lit[2] = b /\ lit[3] = c
  OBVIOUS
<1> HIDE DEF lit
<1>2. CASE p + 3 <= n
  <2>1. t \in Seq(Atom) /\ p + 1 \in 1..Len(t) + 1 /\ p + 3 \in p .. Len(t)
    BY <1>2 DEF Texts
  <2>4. \A i \in (p + 1)..(p + 3) : t[i] \in Atom
    BY <1>2, <2>1
  <2> DEFINE s == SubSeq(t, p + 1, p + 3)
  <2>2. Len(s) = 3 /\ s \in Seq(Atom) /\ s[1] = t[p + 1] /\ s[2] = t[p + 2] /\ s[3] = t[p + 3]
    BY <2>1, <2>4, SubSeqProperties
  <2> HIDE DEF s
  <2>3. ASSUME s[1] = lit[1], s[2] = lit[2], s[3] = lit[3] PROVE s = lit
    <3>1. \A i \in 1..Len(s) : s[i] = lit[i]
      BY <2>2, <2>3
    <3> QED BY <1>0, <1>1, <2>2, <3>1, SeqEqual
  <2> QED BY <1>0, <1>2, <2>2, <2>3 DEF FullLit, s, lit
<1>3. CASE ~(p + 3 <= n)
  BY <1>0, <1>3 DEF FullLit, lit
<1> QED BY <1>2, <1>3

\* What a search finds is the first of what it looks for.
LEMMA FirstIsLeast ==
  ASSUME NEW S \in SUBSET Nat
  PROVE  /\ S = {} => First(S) = NotFound
         /\ S # {} => First(S) \in S /\ \A q \in S : First(S) <= q
BY LeastMember DEF First

\* A search finds the first match.
LEMMA FindLitIs ==
  ASSUME NEW t, NEW n \in Nat, NEW p \in Nat, NEW lit
  PROVE  LET q == FindLit(t, n, p, lit)
         IN  \/ q = NotFound /\ \A i \in p..n : ~FullLit(t, n, i, lit)
             \/ q \in p..n /\ FullLit(t, n, q, lit) /\ \A i \in p..n : FullLit(t, n, i, lit) => q <= i
<1> DEFINE S == {q \in p..n : FullLit(t, n, q, lit)}
<1>1. S \in SUBSET Nat
  OBVIOUS
<1>2. FindLit(t, n, p, lit) = First(S)
  BY DEF FindLit
<1> HIDE DEF S
<1>3. CASE S = {}
  BY <1>1, <1>2, <1>3, FirstIsLeast DEF S
<1>4. CASE S # {}
  <2>1. First(S) \in S /\ \A q \in S : First(S) <= q
    BY <1>1, <1>4, FirstIsLeast
  <2> QED BY <1>2, <2>1 DEF S
<1> QED BY <1>3, <1>4

\* Only whitespace is skipped.
LEMMA SkipWsIs ==
  ASSUME NEW t, NEW n \in Nat, NEW p \in 0..n
  PROVE  LET q == SkipWs(t, n, p)
         IN  /\ q \in p..n /\ (q = n \/ t[q + 1] # "w")
             /\ \A i \in (p + 1)..q : t[i] = "w"
<1> DEFINE S == {q \in p..n : q = n \/ t[q + 1] # "w"}
           r == SkipWs(t, n, p)
<1>1. S \in SUBSET Nat /\ n \in S
  OBVIOUS
<1>2. r = First(S)
  BY DEF SkipWs
<1>3. r \in S /\ \A q \in S : r <= q
  <2> HIDE DEF S, r
  <2> QED BY <1>1, <1>2, FirstIsLeast
<1>4. ASSUME NEW i \in (p + 1)..r PROVE t[i] = "w"
  <2>1. i - 1 \notin S
    BY <1>3
  <2>2. i - 1 \in p..n /\ (i - 1) + 1 = i
    BY <1>3
  <2> QED BY <2>1, <2>2
<1> QED BY <1>3, <1>4

\* Only whitespace is trimmed.
LEMMA TrimWsIs ==
  ASSUME NEW t, NEW start \in Nat, NEW p \in Nat, start <= p
  PROVE  LET q == TrimWs(t, start, p)
         IN  /\ q \in start..p /\ (q = start \/ t[q] # "w")
             /\ \A i \in (q + 1)..p : t[i] = "w"
<1> DEFINE S == {q \in start..p : \A i \in (q + 1)..p : t[i] = "w"}
<1>1. S \in SUBSET Nat /\ p \in S
  OBVIOUS
<1>2. PICK m \in S : \A q \in S : m <= q
  <2> HIDE DEF S
  <2> QED BY <1>1, LeastMember
<1>3. m = start \/ t[m] # "w"
  <2> SUFFICES ASSUME m # start, t[m] = "w" PROVE FALSE
    OBVIOUS
  <2>1. m - 1 \in start..p /\ \A i \in ((m - 1) + 1)..p : t[i] = "w"
    OBVIOUS
  <2>2. m - 1 \in S
    BY <2>1
  <2> QED BY <1>2, <2>2
<1>4. \E q \in start..p : /\ \A i \in (q + 1)..p : t[i] = "w"
                          /\ q = start \/ t[q] # "w"
  BY <1>3
<1> QED BY <1>4 DEF TrimWs

\* An opening and a closing marker, atom by atom.
LEMMA FullStart ==
  ASSUME NEW t \in Texts, NEW n \in 0..Len(t), NEW p \in Nat, NEW x \in Marks
  PROVE  FullLit(t, n, p, Start(x)) <=> p + 2 <= n /\ t[p + 1] = "<" /\ t[p + 2] = x
<1>1. "<" \in Atom /\ x \in Atom
  BY DEF Atom, Special, Marks
<1> QED BY <1>1, FullLit2 DEF Start

\* An end marker, atom by atom.
LEMMA FullEnd ==
  ASSUME NEW t \in Texts, NEW n \in 0..Len(t), NEW p \in Nat, NEW x \in Marks
  PROVE  FullLit(t, n, p, End(x))
           <=> p + 3 <= n /\ t[p + 1] = "<" /\ t[p + 2] = "/" /\ t[p + 3] = x
<1>1. "<" \in Atom /\ "/" \in Atom /\ x \in Atom
  BY DEF Atom, Special, Marks
<1> QED BY <1>1, FullLit3 DEF End

\* What a partial literal is.
LEMMA PartialLitIs ==
  ASSUME NEW t \in Texts, NEW n \in 0..Len(t), NEW p \in Nat, NEW min \in Nat,
         NEW lit \in Seq(Atom)
  PROVE  PartialLit(t, n, p, lit, min)
           <=> p <= n /\ n - p < Len(lit) /\ n - p >= min /\ \A i \in 1..(n - p) : t[p + i] = lit[i]
<1> SUFFICES ASSUME p <= n, n - p < Len(lit), n - p >= min
             PROVE  SubSeq(t, p + 1, n) = SubSeq(lit, 1, n - p)
                      <=> \A i \in 1..(n - p) : t[p + i] = lit[i]
  BY DEF PartialLit
<1> DEFINE a == SubSeq(t, p + 1, n)
           b == SubSeq(lit, 1, n - p)
<1>0. t \in Seq(Atom) /\ Len(t) \in Nat /\ Len(lit) \in Nat /\ n - p \in Nat /\ n \in Nat
  BY DEF Texts
<1>1. a \in Seq(Atom) /\ Len(a) = n - p /\ \A i \in 1..(n - p) : a[i] = t[p + i]
  <2>1. \A i \in (p + 1)..n : t[i] \in Atom
    BY <1>0
  <2>2. /\ a \in Seq(Atom) /\ Len(a) = IF p + 1 <= n THEN n - (p + 1) + 1 ELSE 0
        /\ \A i \in 1..(n - (p + 1) + 1) : a[i] = t[(p + 1) + i - 1]
    BY <1>0, <2>1, SubSeqProperties
  <2>3. \A i \in 1..(n - p) : (p + 1) + i - 1 = p + i
    BY <1>0
  <2> HIDE DEF a
  <2> QED BY <1>0, <2>2, <2>3
<1>2. b \in Seq(Atom) /\ Len(b) = n - p /\ \A i \in 1..(n - p) : b[i] = lit[i]
  <2>1. \A i \in 1..(n - p) : lit[i] \in Atom
    BY <1>0
  <2>2. /\ b \in Seq(Atom) /\ Len(b) = IF 1 <= n - p THEN (n - p) - 1 + 1 ELSE 0
        /\ \A i \in 1..((n - p) - 1 + 1) : b[i] = lit[1 + i - 1]
    BY <1>0, <2>1, SubSeqProperties
  <2>3. \A i \in 1..(n - p) : 1 + i - 1 = i
    BY <1>0
  <2> HIDE DEF b
  <2> QED BY <1>0, <2>2, <2>3
<1> HIDE DEF a, b
<1>3. ASSUME \A i \in 1..(n - p) : t[p + i] = lit[i] PROVE a = b
  <2>1. \A i \in 1..Len(a) : a[i] = b[i]
    BY <1>1, <1>2, <1>3
  <2> QED BY <1>1, <1>2, <2>1, SeqEqual
<1>4. ASSUME a = b PROVE \A i \in 1..(n - p) : t[p + i] = lit[i]
  BY <1>1, <1>2, <1>4
<1> QED BY <1>3, <1>4 DEF a, b

\* The atoms of a marker.
LEMMA MarkerType ==
  ASSUME NEW x \in Marks
  PROVE  /\ Start(x) \in Seq(Atom) /\ Len(Start(x)) = 2 /\ Start(x)[1] = "<" /\ Start(x)[2] = x
         /\ End(x) \in Seq(Atom) /\ Len(End(x)) = 3 /\ End(x)[1] = "<" /\ End(x)[2] = "/"
         /\ End(x)[3] = x
<1>1. "<" \in Atom /\ "/" \in Atom /\ x \in Atom
  BY DEF Atom, Special, Marks
<1>2. <<"<", x>> \in Seq(Atom) /\ <<"<", "/", x>> \in Seq(Atom)
  <2> HIDE DEF Atom
  <2> DEFINE c == "<"
             d == "/"
  <2>1. c \in Atom /\ d \in Atom
    BY <1>1
  <2> HIDE DEF c, d
  <2>2. <<c, x>> \in Seq(Atom) /\ <<c, d, x>> \in Seq(Atom)
    BY <1>1, <2>1
  <2> QED BY <2>2 DEF c, d
<1> QED BY <1>2 DEF Start, End

\* How much of a marker may be missing at the end of the text.
LEMMA PartialStart ==
  ASSUME NEW t \in Texts, NEW n \in 0..Len(t), NEW p \in Nat, NEW x \in Marks
  PROVE  PartialLit(t, n, p, Start(x), 0) <=> p = n \/ (p + 1 = n /\ t[p + 1] = "<")
<1> DEFINE lit == Start(x)
<1>0. lit \in Seq(Atom) /\ Len(lit) = 2 /\ lit[1] = "<" /\ n \in Nat
  BY MarkerType DEF Texts
<1> HIDE DEF lit
<1>1. PartialLit(t, n, p, lit, 0)
        <=> p <= n /\ n - p < 2 /\ n - p >= 0 /\ \A i \in 1..(n - p) : t[p + i] = lit[i]
  <2>1. \A min \in Nat :
          PartialLit(t, n, p, lit, min)
            <=> p <= n /\ n - p < Len(lit) /\ n - p >= min /\ \A i \in 1..(n - p) : t[p + i] = lit[i]
    BY <1>0, PartialLitIs
  <2> QED BY <1>0, <2>1
<1>2. n - p < 2 /\ p <= n <=> p = n \/ p + 1 = n
  BY <1>0
<1>3. ASSUME p = n PROVE PartialLit(t, n, p, lit, 0)
  BY <1>0, <1>1, <1>3
<1>4. ASSUME p + 1 = n
      PROVE  t[p + 1] = "<" <=> PartialLit(t, n, p, lit, 0)
  <2>1. 1..(n - p) = {1} /\ p <= n /\ n - p < 2 /\ n - p >= 0
    BY <1>0, <1>4
  <2> QED BY <1>0, <1>1, <2>1
<1> QED BY <1>1, <1>2, <1>3, <1>4 DEF lit

\* A partial end marker.
LEMMA PartialEnd ==
  ASSUME NEW t \in Texts, NEW n \in 0..Len(t), NEW p \in Nat, NEW x \in Marks, NEW min \in 0..2
  PROVE  PartialLit(t, n, p, End(x), min)
           <=> \/ min = 0 /\ p = n
               \/ min <= 1 /\ p + 1 = n /\ t[p + 1] = "<"
               \/ p + 2 = n /\ t[p + 1] = "<" /\ t[p + 2] = "/"
<1> DEFINE lit == End(x)
           Q == \A i \in 1..(n - p) : t[p + i] = lit[i]
<1>0. lit \in Seq(Atom) /\ Len(lit) = 3 /\ lit[1] = "<" /\ lit[2] = "/" /\ n \in Nat /\ min \in Nat
  BY MarkerType DEF Texts
<1> HIDE DEF lit
<1>1. PartialLit(t, n, p, lit, min) <=> p <= n /\ n - p < 3 /\ n - p >= min /\ Q
  BY <1>0, PartialLitIs
<1>2. ASSUME p = n PROVE Q
  BY <1>0, <1>2
<1>3. ASSUME p + 1 = n PROVE Q <=> t[p + 1] = "<"
  <2>1. 1..(n - p) = {1}
    BY <1>0, <1>3
  <2> QED BY <1>0, <2>1
<1>4. ASSUME p + 2 = n PROVE Q <=> t[p + 1] = "<" /\ t[p + 2] = "/"
  <2>1. \A i \in 1..(n - p) : i = 1 \/ i = 2
    BY <1>0, <1>4
  <2>2. 1 \in 1..(n - p) /\ 2 \in 1..(n - p)
    BY <1>0, <1>4
  <2>3. Q <=> t[p + 1] = lit[1] /\ t[p + 2] = lit[2]
    BY <2>1, <2>2
  <2> QED BY <1>0, <2>3
<1> HIDE DEF Q
<1>5. p <= n /\ n - p < 3 <=> p = n \/ p + 1 = n \/ p + 2 = n
  BY <1>0
<1>6. CASE p = n
  BY <1>0, <1>1, <1>2, <1>6 DEF lit
<1>7. CASE p + 1 = n
  BY <1>0, <1>1, <1>3, <1>7 DEF lit
<1>8. CASE p + 2 = n
  BY <1>0, <1>1, <1>4, <1>8 DEF lit
<1>9. CASE ~(p = n \/ p + 1 = n \/ p + 2 = n)
  BY <1>0, <1>1, <1>5, <1>9 DEF lit
<1> QED BY <1>6, <1>7, <1>8, <1>9

-----------------------------------------------------------------------------
(* A reader of the first atoms of a text: t is what has been sampled of s,   *)
(* and the first n atoms of t may be looked at.                              *)

\* t is the start of s.
Begins(t, s) ==
  /\ s \in Texts /\ t \in Texts
  /\ Len(t) <= Len(s)
  /\ \A i \in 1..Len(t) : t[i] = s[i]

\* Position p of the text is not inside a character.
Whole(s, p) == ~(p > 0 /\ p < Len(s) /\ s[p] = "u1" /\ s[p + 1] = "u2")

\* Lengths and atoms of a text.
LEMMA LenType ==
  ASSUME NEW t \in Texts
  PROVE  Len(t) \in Nat /\ \A i \in 1..Len(t) : t[i] \in Atom
BY DEF Texts

\* What may be shown ends where no character is cut.
LEMMA Utf8SafeLenIs ==
  ASSUME NEW t, NEW s, Begins(t, s), NEW start \in Nat, NEW limit \in 0..Len(t)
  PROVE  LET r == Utf8SafeLen(t, start, limit)
         IN  /\ r \in 0..limit /\ (start <= limit => start <= r)
             /\ r <= start \/ Whole(s, r)
<1>1. Len(t) \in Nat /\ Len(s) \in Nat /\ Len(t) <= Len(s)
  BY LenType DEF Begins
<1>2. CASE limit > start /\ t[limit] = "u1"
  <2>1. Utf8SafeLen(t, start, limit) = limit - 1 /\ s[limit] = "u1"
    BY <1>1, <1>2 DEF Utf8SafeLen, Begins
  <2> QED BY <1>1, <1>2, <2>1 DEF Whole
<1>3. CASE ~(limit > start /\ t[limit] = "u1")
  <2>1. Utf8SafeLen(t, start, limit) = limit
    BY <1>3 DEF Utf8SafeLen
  <2>2. limit > start => s[limit] # "u1"
    BY <1>1, <1>3 DEF Begins
  <2> QED BY <1>1, <1>3, <2>1, <2>2 DEF Whole
<1> QED BY <1>2, <1>3

\* A cut before an entity stays in range.
LEMMA EntitySafeLenIs ==
  ASSUME NEW t \in Texts, NEW start \in Nat, NEW limit \in 0..Len(t)
  PROVE  LET r == EntitySafeLen(t, start, limit)
         IN  r \in 0..limit /\ (start <= limit => start <= r)
BY LenType DEF EntitySafeLen

\* The last "<" of a text, or its end.
LEMMA LastMarkerIs ==
  ASSUME NEW t \in Texts, NEW n \in 0..Len(t), NEW start \in 0..n
  PROVE  LET r == LastMarker(t, start, n)
         IN  /\ r \in start..n
             /\ start < n /\ t[n] = "<" => r = n - 1
<1> DEFINE scan == IF n - start > Window THEN n - Window ELSE start
           open == {i \in (scan + 1)..n : t[i] = "<"}
<1>1. n \in Nat /\ Window \in Nat \ {0} /\ scan \in start..n /\ (start < n => scan < n)
  BY StreamAssumption, LenType
<1>2. CASE open = {}
  BY <1>1, <1>2 DEF LastMarker
<1>3. CASE open # {}
  <2> HIDE DEF scan
  <2>1. open \in SUBSET Nat /\ \A i \in open : i <= n
    BY <1>1
  <2>2. \E m \in open : \A j \in open : j <= m
    <3> HIDE DEF open
    <3> QED BY <1>1, <1>3, <2>1, GreatestMember
  <2>3. LastMarker(t, start, n) = (CHOOSE i \in open : \A j \in open : j <= i) - 1
    BY <1>3 DEF LastMarker, scan
  <2>4. PICK m \in open : /\ \A j \in open : j <= m
                           /\ LastMarker(t, start, n) = m - 1
    <3> HIDE DEF open
    <3> QED BY <2>2, <2>3
  <2>5. m - 1 \in start..n
    BY <1>1, <2>4
  <2>6. ASSUME start < n, t[n] = "<" PROVE m = n
    BY <1>1, <2>4, <2>6
  <2> QED BY <2>4, <2>5, <2>6
<1> QED BY <1>2, <1>3

\* Nothing that may begin a marker is shown, nor whitespace at the end.
LEMMA HoldMarkerIs ==
  ASSUME NEW t \in Texts, NEW n \in 0..Len(t), NEW start \in 0..n
  PROVE  LET r == HoldMarker(t, start, n)
         IN  /\ r \in start..n /\ (r = start \/ t[r] # "w")
             /\ start < n /\ t[n] = "<" => r < n
<1> DEFINE shown == TrimWs(t, start, n)
           marker == LastMarker(t, start, n)
           least == IF marker < shown THEN marker ELSE shown
<1>1. n \in Nat /\ start \in Nat
  BY LenType
<1>2. shown \in start..n
  BY <1>1, TrimWsIs
<1>3. marker \in start..n /\ (start < n /\ t[n] = "<" => marker = n - 1)
  BY LastMarkerIs
<1> HIDE DEF shown, marker
<1>4. least \in start..n /\ (start < n /\ t[n] = "<" => least < n)
  BY <1>1, <1>2, <1>3
<1>5. HoldMarker(t, start, n) = TrimWs(t, start, least)
  BY DEF HoldMarker, shown, marker
<1> HIDE DEF least
<1>6. TrimWs(t, start, least) \in start..least
      /\ (TrimWs(t, start, least) = start \/ t[TrimWs(t, start, least)] # "w")
  <2>1. least \in Nat /\ start <= least
    BY <1>1, <1>4
  <2> QED BY <1>1, <2>1, TrimWsIs
<1> QED BY <1>1, <1>4, <1>5, <1>6

-----------------------------------------------------------------------------
(* The decoding of values: decoding two parts and joining them is decoding   *)
(* the whole, but where an entity is cut in two.                             *)

\* The atoms the server writes itself.
LEMMA AtomType == {"amp", "key", ",", "{", "}", "q", ">", "<", "/", "w"} \subseteq Atom
BY DEF Atom, Special, Json

\* One decoded atom is a text.
LEMMA UnescapedType ==
  ASSUME NEW v \in Texts, NEW i \in 1..Len(v)
  PROVE  Unescaped(v, i) \in Texts
<1>1. v[i] \in Atom /\ "amp" \in Atom
  BY LenType, AtomType
<1>2. <<v[i]>> \in Seq(Atom) /\ <<"amp">> \in Seq(Atom) /\ <<>> \in Seq(Atom)
  <2> DEFINE a == v[i]
             b == "amp"
  <2>1. a \in Atom /\ b \in Atom
    BY <1>1
  <2> HIDE DEF a, b, Atom
  <2>2. <<a>> \in Seq(Atom) /\ <<b>> \in Seq(Atom)
    BY <2>1
  <2> QED BY <2>2, EmptySeq DEF a, b
<1> HIDE DEF Atom
<1> QED BY <1>2 DEF Unescaped, Texts

\* All of them, decoded.
LEMMA UnescapeSeq ==
  ASSUME NEW v \in Texts
  PROVE  LET f == [i \in DOMAIN v |-> Unescaped(v, i)]
         IN  f \in Seq(Texts) /\ Len(f) = Len(v) /\ \A i \in 1..Len(v) : f[i] = Unescaped(v, i)
<1> DEFINE n == Len(v)
           e(i) == Unescaped(v, i)
           f == [i \in 1..n |-> e(i)]
<1>1. n \in Nat /\ DOMAIN v = 1..n
  BY DEF Texts
<1>2. \A i \in 1..n : e(i) \in Texts
  BY UnescapedType
<1>3. f \in Seq(Texts)
  <2> HIDE DEF e, n
  <2> QED BY <1>1, <1>2, IsASeq
<1>4. Len(f) = n /\ \A i \in 1..n : f[i] = e(i)
  <2> HIDE DEF e, n
  <2>1. DOMAIN f = 1..n
    OBVIOUS
  <2> QED BY <1>1, <1>3, <2>1, LenProperties
<1> HIDE DEF n
<1> QED BY <1>1, <1>3, <1>4 DEF n

\* A decoded text is a text.
LEMMA UnescapeType ==
  ASSUME NEW v \in Texts
  PROVE  Unescape(v) \in Texts
<1> DEFINE f == [i \in DOMAIN v |-> Unescaped(v, i)]
<1>1. f \in Seq(Seq(Atom))
  BY UnescapeSeq DEF Texts
<1>2. Unescape(v) = FlattenSeq(f)
  BY DEF Unescape
<1> HIDE DEF f
<1> QED BY <1>1, <1>2, FlattenType DEF Texts

\* The end of an entity (a name the solvers can read).
Semicolon == ";"

\* How one atom is decoded.
LEMMA UnescapedIs ==
  ASSUME NEW v, NEW i
  PROVE  LET starts == v[i] = "&" /\ i < Len(v) /\ v[i + 1] = Semicolon
             ends == v[i] = Semicolon /\ i > 1 /\ v[i - 1] = "&"
         IN  /\ starts => Unescaped(v, i) = <<"amp">>
             /\ ends => Unescaped(v, i) = <<>>
             /\ ~starts /\ ~ends => Unescaped(v, i) = <<v[i]>>
<1> DEFINE starts == v[i] = "&" /\ i < Len(v) /\ v[i + 1] = Semicolon
           ends == v[i] = Semicolon /\ i > 1 /\ v[i - 1] = "&"
<1>1. Unescaped(v, i) = CASE starts -> <<"amp">> [] ends -> <<>> [] OTHER -> <<v[i]>>
  BY Zenon DEF Unescaped, Semicolon
<1>2. ~(starts /\ ends)
  <2>1. "&" # ";"
    BY Zenon
  <2> QED BY Zenon, <2>1 DEF Semicolon
<1> HIDE DEF starts, ends
<1>3. /\ starts => Unescaped(v, i) = <<"amp">>
      /\ ends => Unescaped(v, i) = <<>>
      /\ ~starts /\ ~ends => Unescaped(v, i) = <<v[i]>>
  BY <1>1, <1>2
<1> QED BY <1>3 DEF starts, ends

\* Atoms of either part, in the whole.
LEMMA UnescapedParts ==
  ASSUME NEW m \in Nat, NEW n \in Nat, NEW u, NEW v, NEW w,
         Len(u) = m, Len(v) = n, Len(w) = m + n,
         \A i \in 1..(m + n) : w[i] = IF i <= m THEN u[i] ELSE v[i - m],
         m = 0 \/ n = 0 \/ u[m] # "&" \/ v[1] # Semicolon
  PROVE  /\ \A i \in 1..m : Unescaped(w, i) = Unescaped(u, i)
         /\ \A i \in 1..n : Unescaped(w, m + i) = Unescaped(v, i)
<1>1. \A i \in 1..m : Unescaped(w, i) = Unescaped(u, i)
  <2> TAKE i \in 1..m
  <2>1. w[i] = u[i] /\ (i > 1 => w[i - 1] = u[i - 1])
    OBVIOUS
  <2>2. i < m => w[i + 1] = u[i + 1]
    OBVIOUS
  <2>3. i = m /\ i < m + n => w[i + 1] = v[1] /\ n > 0 /\ m > 0
    OBVIOUS
  <2>4. w[i] = "&" /\ i < Len(w) /\ w[i + 1] = Semicolon <=> u[i] = "&" /\ i < Len(u) /\ u[i + 1] = Semicolon
    <3>1. CASE i < m
      BY <2>1, <2>2, <3>1
    <3>2. CASE i = m
      BY <2>1, <2>3, <3>2
    <3> QED BY <3>1, <3>2
  <2> QED BY <2>1, <2>4, UnescapedIs
<1>2. \A i \in 1..n : Unescaped(w, m + i) = Unescaped(v, i)
  <2> TAKE i \in 1..n
  <2>1. w[m + i] = v[i] /\ (i > 1 => w[m + i - 1] = v[i - 1])
    OBVIOUS
  <2>2. (m + i < m + n <=> i < n) /\ (i < n => w[m + i + 1] = v[i + 1])
    OBVIOUS
  <2>3. i = 1 /\ m + i > 1 => w[m + i - 1] = u[m] /\ m > 0 /\ n > 0
    OBVIOUS
  <2>4. w[m + i] = Semicolon /\ m + i > 1 /\ w[m + i - 1] = "&" <=> v[i] = Semicolon /\ i > 1 /\ v[i - 1] = "&"
    <3>1. CASE i > 1
      BY <2>1, <3>1
    <3>2. CASE i = 1
      BY <2>1, <2>3, <3>2
    <3> QED BY <3>1, <3>2
  <2>5. w[m + i] = "&" /\ m + i < Len(w) /\ w[m + i + 1] = Semicolon
          <=> v[i] = "&" /\ i < Len(v) /\ v[i + 1] = Semicolon
    BY <2>1, <2>2
  <2> DEFINE starts(x, k) == x[k] = "&" /\ k < Len(x) /\ x[k + 1] = Semicolon
             ends(x, k) == x[k] = Semicolon /\ k > 1 /\ x[k - 1] = "&"
  <2>6. \A x, k : /\ starts(x, k) => Unescaped(x, k) = <<"amp">>
                  /\ ends(x, k) => Unescaped(x, k) = <<>>
                  /\ ~starts(x, k) /\ ~ends(x, k) => Unescaped(x, k) = <<x[k]>>
    BY UnescapedIs
  <2>7. (starts(w, m + i) <=> starts(v, i)) /\ (ends(w, m + i) <=> ends(v, i))
    BY <2>4, <2>5
  <2>8. w[m + i] = v[i]
    BY <2>1
  <2> HIDE DEF starts, ends
  <2> QED BY <2>6, <2>7, <2>8
<1> QED BY <1>1, <1>2

\* Decoding goes part by part.
LEMMA UnescapeConcat ==
  ASSUME NEW u \in Texts, NEW v \in Texts,
         ~(Len(u) > 0 /\ Len(v) > 0 /\ u[Len(u)] = "&" /\ v[1] = Semicolon)
  PROVE  Unescape(u \o v) = Unescape(u) \o Unescape(v)
<1> DEFINE w == u \o v
           m == Len(u)
           n == Len(v)
           f == [i \in DOMAIN u |-> Unescaped(u, i)]
           g == [i \in DOMAIN v |-> Unescaped(v, i)]
           h == [i \in DOMAIN w |-> Unescaped(w, i)]
<1>1. /\ m \in Nat /\ n \in Nat /\ w \in Texts /\ Len(w) = m + n
      /\ \A i \in 1..(m + n) : w[i] = IF i <= m THEN u[i] ELSE v[i - m]
  BY ConcatProperties, LenType DEF Texts
<1>2. f \in Seq(Texts) /\ Len(f) = m /\ \A i \in 1..m : f[i] = Unescaped(u, i)
  BY UnescapeSeq
<1>3. g \in Seq(Texts) /\ Len(g) = n /\ \A i \in 1..n : g[i] = Unescaped(v, i)
  BY UnescapeSeq
<1>4. h \in Seq(Texts) /\ Len(h) = m + n /\ \A i \in 1..(m + n) : h[i] = Unescaped(w, i)
  <2> HIDE DEF w
  <2> QED BY <1>1, UnescapeSeq
<1>5. m = 0 \/ n = 0 \/ u[m] # "&" \/ v[1] # Semicolon
  BY <1>1
<1> HIDE DEF w, m, n, f, g, h
<1>6. /\ \A i \in 1..m : Unescaped(w, i) = Unescaped(u, i)
      /\ \A i \in 1..n : Unescaped(w, m + i) = Unescaped(v, i)
  <2>1. m \in Nat /\ n \in Nat /\ Len(u) = m /\ Len(v) = n
    BY <1>1 DEF m, n
  <2> QED BY <1>1, <1>5, <2>1, UnescapedParts
<1>8. h = f \o g
  <2>1. /\ f \o g \in Seq(Texts) /\ Len(f \o g) = m + n
        /\ \A i \in 1..(m + n) : (f \o g)[i] = IF i <= m THEN f[i] ELSE g[i - m]
    BY <1>2, <1>3, ConcatProperties
  <2>2. \A i \in 1..(m + n) : h[i] = (f \o g)[i]
    <3>1. m \in Nat /\ n \in Nat
      BY <1>1
    <3> TAKE i \in 1..(m + n)
    <3>2. CASE i <= m
      BY <1>2, <1>4, <1>6, <2>1, <3>1, <3>2
    <3>3. CASE i > m
      <4>1. i - m \in 1..n /\ m + (i - m) = i
        BY <3>1, <3>3
      <4> QED BY <1>3, <1>4, <1>6, <2>1, <3>1, <3>3, <4>1
    <3>4. i <= m \/ i > m
      BY <3>1
    <3> QED BY <3>2, <3>3, <3>4
  <2> QED BY <1>1, <1>4, <2>1, <2>2, SeqEqual
<1>9. FlattenSeq(f \o g) = FlattenSeq(f) \o FlattenSeq(g)
  BY <1>2, <1>3, FlattenConcat DEF Texts
<1> QED BY <1>8, <1>9 DEF Unescape, w, f, g, h

-----------------------------------------------------------------------------
(* What the projection keeps, and what the client holds.                   *)

\* The types of the output's parts.
CallT == [id : {"stream", "final"} \X Nat, args : Texts, open : BOOLEAN]

ToolT == [state : {"none", "invokes", "params", "value", "done", "error"}, pos : Nat,
          index : Nat, emitted : BOOLEAN, first : BOOLEAN, str : BOOLEAN]

OutT == [mode : {"thinking", "text", "tool", "suppress", "gone"}, pos : Nat,
         checked : BOOLEAN, ok : BOOLEAN, block : {"none", "reasoning", "content", "tool"},
         reasoning : Texts, content : Texts, calls : Seq(CallT), tool : ToolT,
         legal : BOOLEAN, split : BOOLEAN, stopped : BOOLEAN]

\* What the projection of a tool block leaves as it is.
SameText(o, r) ==
  /\ r.mode = o.mode /\ r.pos = o.pos /\ r.checked = o.checked
  /\ r.reasoning = o.reasoning /\ r.content = o.content
  /\ r.legal = o.legal /\ r.stopped = o.stopped

\* A call is being shown.
InCall(o) == o.tool.state \in {"params", "value"}

\* The calls shown live: numbered from one, all closed but the one being shown.
CallsFit(o) ==
  /\ \A i \in 1..Len(o.calls) : o.calls[i].id = <<"stream", i>>
  /\ \A i \in 1..o.tool.index : ~o.calls[i].open
  /\ o.tool.emitted <=> Len(o.calls) > 0
  /\ o.tool.index <= Len(o.calls) /\ Len(o.calls) <= o.tool.index + 1
  /\ InCall(o) => Len(o.calls) = o.tool.index + 1
  /\ o.tool.state \in {"none", "invokes", "done"} => Len(o.calls) = o.tool.index

\* A call is shown in a block of its own, where there are blocks.
BlockFits(o) ==
  /\ req.api # "anthropic" => o.block = "none"
  /\ InCall(o) /\ req.api = "anthropic" => o.block = "tool"
  /\ o.tool.state \in {"invokes", "done"} => o.block = "none"
  /\ o.block \in {"none", "tool"}

\* A block is being followed.
InTool(s, o) ==
  /\ o \in OutT /\ o.ok /\ o.tool.state # "none"
  /\ CallsFit(o) /\ BlockFits(o)
  /\ ~o.split /\ Whole(s, o.tool.pos)

\* A cut, atom by atom.
LEMMA CutIs ==
  ASSUME NEW t \in Texts, NEW from \in Nat, NEW to \in 0..Len(t), from <= to
  PROVE  /\ Cut(t, from, to) \in Texts /\ Len(Cut(t, from, to)) = to - from
         /\ \A i \in 1..(to - from) : Cut(t, from, to)[i] = t[from + i]
<1>1. \A i \in (from + 1)..to : t[i] \in Atom
  BY LenType
<1>2. /\ SubSeq(t, from + 1, to) \in Seq(Atom)
      /\ Len(SubSeq(t, from + 1, to)) = IF from + 1 <= to THEN to - (from + 1) + 1 ELSE 0
      /\ \A i \in 1..(to - (from + 1) + 1) : SubSeq(t, from + 1, to)[i] = t[(from + 1) + i - 1]
  BY <1>1, LenType, SubSeqProperties
<1>3. \A i \in 1..(to - from) : (from + 1) + i - 1 = from + i
  BY LenType
<1>4. to - (from + 1) + 1 = to - from /\ (from + 1 > to => to - from = 0)
  BY LenType
<1> QED BY <1>2, <1>3, <1>4 DEF Cut, Texts

\* More arguments for the call that is being shown.
LEMMA AddArgsIs ==
  ASSUME NEW o \in OutT, NEW piece \in Texts, Len(o.calls) > 0
  PROVE  LET r == AddArgs(o, piece)
             k == Len(o.calls)
         IN  /\ r = [o EXCEPT !.calls = r.calls]
             /\ r \in OutT /\ Len(r.calls) = k
             /\ \A i \in 1..(k - 1) : r.calls[i] = o.calls[i]
             /\ r.calls[k] = [o.calls[k] EXCEPT !.args = @ \o piece]
<1> DEFINE k == Len(o.calls)
           last == o.calls[k]
           new == [last EXCEPT !.args = @ \o piece]
           c == [o.calls EXCEPT ![k] = new]
           r == AddArgs(o, piece)
<1>1. o.calls \in Seq(CallT) /\ k \in Nat /\ k \in 1..k
  BY DEF OutT
<1>2. last \in CallT /\ new \in CallT
  <2>1. last \in CallT
    BY <1>1
  <2>2. last.args \o piece \in Texts
    <3>1. last.args \in Texts
      BY <2>1 DEF CallT
    <3> QED BY <3>1, ConcatProperties DEF Texts
  <2> HIDE DEF last
  <2> QED BY <2>1, <2>2 DEF CallT
<1>3. c \in Seq(CallT) /\ Len(c) = k /\ \A i \in 1..k : c[i] = IF i = k THEN new ELSE o.calls[i]
  <2> HIDE DEF new
  <2> QED BY <1>1, <1>2, ExceptSeq
<1>4. r = [o EXCEPT !.calls = c]
  BY DEF AddArgs
<1> HIDE DEF c, new, r
<1>5. r.calls = c /\ r \in OutT
  BY <1>3, <1>4 DEF OutT
<1>6. \A i \in 1..(k - 1) : r.calls[i] = o.calls[i]
  <2>1. \A i \in 1..(k - 1) : i \in 1..k /\ i # k
    BY <1>1
  <2> HIDE DEF k
  <2> QED BY <1>3, <1>5, <2>1
<1>7. r.calls[k] = new
  <2> HIDE DEF k
  <2> QED BY <1>1, <1>3, <1>5
<1>8. r = [o EXCEPT !.calls = r.calls] /\ r \in OutT /\ Len(r.calls) = k
  <2> HIDE DEF k
  <2> QED BY <1>3, <1>4, <1>5
<1> QED BY <1>6, <1>7, <1>8 DEF r, new

\* A block opens where none is open, and where there are none nothing happens.
LEMMA OpenBlockIs ==
  ASSUME NEW o \in OutT, NEW kind \in {"reasoning", "content", "tool"},
         req.api # "anthropic" => o.block = "none", o.block \in {"none", kind}
  PROVE  LET b == IF req.api = "anthropic" THEN kind ELSE "none"
         IN  OpenBlock(o, kind) = [o EXCEPT !.block = b] /\ b \in {"none", kind}
<1>1. \A b : o.block = b => [o EXCEPT !.block = b] = o
  BY DEF OutT
<1>2. CASE req.api # "anthropic" \/ o.block = kind
  BY <1>1, <1>2 DEF OpenBlock
<1>3. CASE req.api = "anthropic" /\ o.block # kind
  BY <1>3 DEF OpenBlock
<1> QED BY <1>2, <1>3

\* The two ends of an object (names the solvers can read).
BraceL == <<"{">>
\* The end of an argument object.
BraceR == <<"}">>

\* A call is announced.
LEMMA StartCallIs ==
  ASSUME NEW s, NEW o, InTool(s, o), o.tool.state = "invokes", NEW tagEnd \in Nat, Whole(s, tagEnd)
  PROVE  LET r == StartCall(o, tagEnd)
         IN  /\ InTool(s, r) /\ SameText(o, r)
             /\ r.tool.state = "params" /\ r.tool.pos = tagEnd /\ r.tool.first
             /\ r.tool.index = o.tool.index
             /\ \A i \in 1..o.tool.index : r.calls[i] = o.calls[i]
             /\ r.calls[o.tool.index + 1].args = BraceL
<1> DEFINE b == IF req.api = "anthropic" THEN "tool" ELSE "none"
           k == o.tool.index
           call == [id |-> <<"stream", k + 1>>, args |-> BraceL, open |-> TRUE]
           c == Append(o.calls, call)
           tl == [o.tool EXCEPT !.emitted = TRUE, !.first = TRUE, !.pos = tagEnd, !.state = "params"]
           r == StartCall(o, tagEnd)
<1>1. o \in OutT /\ o.ok /\ CallsFit(o) /\ BlockFits(o) /\ ~o.split /\ o.tool \in ToolT
  BY DEF InTool, OutT
<1>2. OpenBlock(o, "tool") = [o EXCEPT !.block = b] /\ b \in {"none", "tool"}
  BY <1>1, OpenBlockIs DEF BlockFits
<1>3. o.calls \in Seq(CallT) /\ Len(o.calls) = k /\ k \in Nat
  BY <1>1 DEF CallsFit, OutT, ToolT
<1>4. call \in CallT /\ call.id = <<"stream", k + 1>> /\ call.args = BraceL /\ call.open
  <2>1. BraceL \in Texts
    <3> DEFINE x == "{"
    <3>1. x \in Atom
      BY AtomType
    <3> HIDE DEF x, Atom
    <3>2. <<x>> \in Seq(Atom)
      BY <3>1
    <3> QED BY <3>2 DEF x, Texts, BraceL
  <2>2. <<"stream", k + 1>> \in {"stream", "final"} \X Nat
    <3>1. k + 1 \in Nat
      BY <1>3
    <3> HIDE DEF k
    <3> QED BY <3>1
  <2> QED BY <2>1, <2>2 DEF CallT
<1>5. /\ c \in Seq(CallT) /\ Len(c) = k + 1 /\ c[k + 1] = call
      /\ \A i \in 1..k : c[i] = o.calls[i]
  <2> HIDE DEF call, k
  <2>1. /\ c \in Seq(CallT) /\ Len(c) = Len(o.calls) + 1 /\ c[Len(o.calls) + 1] = call
        /\ \A i \in 1..Len(o.calls) : c[i] = o.calls[i]
    <3>1. call \in CallT
      BY <1>4
    <3> QED BY <1>3, <3>1, AppendProperties
  <2> HIDE DEF c
  <2> QED BY <1>3, <2>1
<1>6. tl \in ToolT /\ tl.emitted /\ tl.first /\ tl.pos = tagEnd /\ tl.state = "params" /\ tl.index = k
  BY <1>1 DEF ToolT
<1>7. r = [o EXCEPT !.block = b, !.calls = c, !.tool = tl]
  BY <1>1, <1>2 DEF StartCall, OutT, ToolT, BraceL
<1> HIDE DEF b, call, c, tl, r
<1>8. r \in OutT /\ r.block = b /\ r.calls = c /\ r.tool = tl /\ r.ok /\ ~r.split /\ SameText(o, r)
  BY <1>1, <1>2, <1>5, <1>6, <1>7 DEF OutT, SameText
<1>9. CallsFit(r)
  <2>1. \A i \in 1..(k + 1) : c[i].id = <<"stream", i>>
    <3> TAKE i \in 1..(k + 1)
    <3>1. CASE i \in 1..k
      BY <1>1, <1>3, <1>5, <3>1 DEF CallsFit
    <3>2. CASE i = k + 1
      BY <1>4, <1>5, <3>2
    <3> HIDE DEF k
    <3> QED BY <1>3, <3>1, <3>2
  <2>2. \A i \in 1..k : ~c[i].open
    BY <1>1, <1>5 DEF CallsFit
  <2> HIDE DEF k
  <2> QED BY <1>3, <1>5, <1>6, <1>8, <2>1, <2>2 DEF CallsFit, InCall
<1>10. BlockFits(r)
  BY <1>6, <1>8 DEF BlockFits, InCall, b
<1>11. InTool(s, r)
  BY <1>6, <1>8, <1>9, <1>10 DEF InTool
<1> HIDE DEF k
<1>12. \A i \in 1..k : r.calls[i] = o.calls[i]
  BY <1>3, <1>5, <1>8
<1>13. r.calls[k + 1].args = BraceL
  BY <1>3, <1>4, <1>5, <1>8
<1> QED BY <1>6, <1>8, <1>11, <1>12, <1>13 DEF r, k


\* It is a text.
LEMMA CloseBrace == BraceR \in Texts /\ <<"q">> \in Texts
<1> DEFINE x == "}"
           y == "q"
<1>1. x \in Atom /\ y \in Atom
  BY AtomType
<1> HIDE DEF x, y, Atom
<1>2. <<x>> \in Seq(Atom) /\ <<y>> \in Seq(Atom)
  BY <1>1
<1> QED BY <1>2 DEF x, y, Texts, BraceR

\* A call is closed.
LEMMA FinishCallIs ==
  ASSUME NEW s, NEW o, InTool(s, o), o.tool.state = "params", NEW p \in Nat, Whole(s, p + 3)
  PROVE  LET r == FinishCall(o, p)
             k == Len(o.calls)
         IN  /\ InTool(s, r) /\ SameText(o, r)
             /\ r.tool.state = "invokes" /\ r.tool.pos = p + 3 /\ r.tool.index = o.tool.index + 1
             /\ k = o.tool.index + 1 /\ \A i \in 1..o.tool.index : r.calls[i] = o.calls[i]
             /\ r.calls[k].args = o.calls[k].args \o BraceR
<1> DEFINE k == Len(o.calls)
           m == AddArgs(o, BraceR)
           end == [m.calls[k] EXCEPT !.open = FALSE]
           c == [m.calls EXCEPT ![k] = end]
           tl == [o.tool EXCEPT !.pos = p + 3, !.index = @ + 1, !.state = "invokes"]
           r == FinishCall(o, p)
<1>1. o \in OutT /\ o.ok /\ CallsFit(o) /\ BlockFits(o) /\ ~o.split /\ o.tool \in ToolT
  BY DEF InTool, OutT
<1>2. o.calls \in Seq(CallT) /\ k = o.tool.index + 1 /\ o.tool.index \in Nat
  BY <1>1 DEF CallsFit, OutT, ToolT, InCall
<1>3. /\ m = [o EXCEPT !.calls = m.calls] /\ m \in OutT /\ Len(m.calls) = k
      /\ \A i \in 1..(k - 1) : m.calls[i] = o.calls[i]
      /\ m.calls[k] = [o.calls[k] EXCEPT !.args = @ \o BraceR]
  <2>1. Len(o.calls) > 0
    BY <1>2
  <2>2. BraceR \in Texts
    BY CloseBrace
  <2> QED BY <1>1, <2>1, <2>2, AddArgsIs
<1> HIDE DEF m
<1>4. m.calls \in Seq(CallT) /\ k \in 1..k /\ k \in 1..Len(m.calls)
  <2>1. m.calls \in Seq(CallT)
    BY <1>3 DEF OutT
  <2>2. k \in 1..k
    BY <1>2
  <2> HIDE DEF k
  <2> QED BY <1>3, <2>1, <2>2
<1>5. o.calls[k] \in CallT /\ m.calls[k] \in CallT
  <2> HIDE DEF k
  <2>1. k \in 1..Len(o.calls)
    BY <1>4 DEF k
  <2> QED BY <1>2, <1>4, <2>1, ElementOfSeq
<1>6. end \in CallT /\ end.id = o.calls[k].id /\ ~end.open /\ end.args = o.calls[k].args \o BraceR
  <2> HIDE DEF k
  <2> QED BY <1>3, <1>5 DEF CallT
<1>7. c \in Seq(CallT) /\ Len(c) = k /\ c[k] = end /\ \A i \in 1..(k - 1) : c[i] = o.calls[i]
  <2> HIDE DEF k, end
  <2>1. c \in Seq(CallT) /\ Len(c) = k /\ \A i \in 1..k : c[i] = IF i = k THEN end ELSE m.calls[i]
    <3>1. c \in Seq(CallT) /\ Len(c) = Len(m.calls)
          /\ \A i \in 1..Len(m.calls) : c[i] = IF i = k THEN end ELSE m.calls[i]
      <4>1. end \in CallT
        BY <1>6
      <4> QED BY <1>4, <4>1, ExceptSeq
    <3> HIDE DEF c
    <3> QED BY <1>3, <3>1
  <2> HIDE DEF c
  <2>2. \A i \in 1..(k - 1) : i \in 1..k /\ i # k
    BY <1>2
  <2> QED BY <1>3, <1>4, <2>1, <2>2
<1>8. tl \in ToolT /\ tl.emitted = o.tool.emitted /\ tl.pos = p + 3 /\ tl.state = "invokes"
      /\ tl.index = o.tool.index + 1
  <2>1. p + 3 \in Nat /\ o.tool.index + 1 \in Nat
    BY <1>2
  <2> QED BY <1>1, <2>1 DEF ToolT
<1>9. r = [o EXCEPT !.block = "none", !.calls = c, !.tool = tl]
  <2>1. m.tool = o.tool
    BY <1>1, <1>3 DEF OutT
  <2>2. r = [m EXCEPT !.block = "none", !.calls = c, !.tool = tl]
    BY <1>3, <2>1 DEF FinishCall, CloseBlock, m, OutT, ToolT, BraceR
  <2> HIDE DEF c, tl, r
  <2> QED BY <1>1, <1>3, <2>2 DEF OutT
<1> HIDE DEF end, c, tl, r
<1>10. /\ r \in OutT /\ r.block = "none" /\ r.calls = c /\ r.tool = tl /\ r.ok /\ ~r.split
       /\ SameText(o, r)
  BY <1>1, <1>7, <1>8, <1>9 DEF OutT, SameText
<1>11. CallsFit(r)
  <2>1. \A i \in 1..k : c[i].id = <<"stream", i>> /\ ~c[i].open
    <3> TAKE i \in 1..k
    <3>1. CASE i \in 1..(k - 1)
      BY <1>1, <1>2, <1>7, <3>1 DEF CallsFit
    <3>2. CASE i = k
      BY <1>1, <1>4, <1>6, <1>7, <3>2 DEF CallsFit
    <3> HIDE DEF k
    <3> QED BY <1>2, <3>1, <3>2
  <2>2. o.tool.emitted /\ k > 0
    BY <1>1, <1>2 DEF CallsFit
  <2>3. /\ r.calls = c /\ Len(c) = k /\ r.tool.index = k /\ r.tool.emitted
        /\ r.tool.state = "invokes"
    <3> HIDE DEF k
    <3> QED BY <1>2, <1>7, <1>8, <1>10, <2>2
  <2> HIDE DEF k
  <2> QED BY <1>2, <2>1, <2>2, <2>3 DEF CallsFit, InCall
<1>12. BlockFits(r)
  BY <1>8, <1>10 DEF BlockFits, InCall
<1>13. InTool(s, r)
  BY <1>8, <1>10, <1>11, <1>12 DEF InTool
<1>14. \A i \in 1..o.tool.index : r.calls[i] = o.calls[i]
  <2> HIDE DEF k
  <2> QED BY <1>2, <1>7, <1>10
<1> QED BY <1>2, <1>6, <1>7, <1>8, <1>10, <1>13, <1>14 DEF r

\* Other arguments of the call being shown, and nothing else.
OnlyArgs(o, r, piece) ==
  LET k == Len(o.calls)
  IN  /\ Len(r.calls) = k /\ k = o.tool.index + 1
      /\ \A i \in 1..o.tool.index : r.calls[i] = o.calls[i]
      /\ r.calls[k].args = o.calls[k].args \o piece

\* A piece of arguments is shown.
LEMMA MoreArgs ==
  ASSUME NEW s, NEW o, InTool(s, o), InCall(o), NEW piece \in Texts
  PROVE  LET r == AddArgs(o, piece)
         IN  /\ InTool(s, r) /\ SameText(o, r) /\ r.tool = o.tool /\ OnlyArgs(o, r, piece)
<1> DEFINE k == Len(o.calls)
           r == AddArgs(o, piece)
<1>1. o \in OutT /\ o.ok /\ CallsFit(o) /\ BlockFits(o) /\ ~o.split /\ o.tool \in ToolT
  BY DEF InTool, OutT
<1>2. o.calls \in Seq(CallT) /\ k = o.tool.index + 1 /\ o.tool.index \in Nat
  BY <1>1 DEF CallsFit, OutT, ToolT
<1>3. /\ r = [o EXCEPT !.calls = r.calls] /\ r \in OutT /\ Len(r.calls) = k
      /\ \A i \in 1..(k - 1) : r.calls[i] = o.calls[i]
      /\ r.calls[k] = [o.calls[k] EXCEPT !.args = @ \o piece]
  <2>1. Len(o.calls) > 0
    BY <1>2
  <2> QED BY <1>1, <2>1, AddArgsIs
<1> HIDE DEF r
<1>4. k \in 1..k /\ k - 1 = o.tool.index /\ k > 0
  <2> HIDE DEF k
  <2> QED BY <1>2
<1>5. o.calls[k] \in CallT
  <2> HIDE DEF k
  <2>1. k \in 1..Len(o.calls)
    BY <1>4 DEF k
  <2> QED BY <1>2, <2>1, ElementOfSeq
<1>6. /\ r.calls[k].id = o.calls[k].id /\ r.calls[k].args = o.calls[k].args \o piece
  <2> HIDE DEF k
  <2> QED BY <1>3, <1>5 DEF CallT
<1>7. /\ SameText(o, r) /\ r.tool = o.tool /\ r.block = o.block /\ r.ok /\ ~r.split
  BY <1>1, <1>3 DEF OutT, SameText
<1>8. \A i \in 1..o.tool.index : r.calls[i] = o.calls[i]
  <2> HIDE DEF k
  <2> QED BY <1>3, <1>4
<1>9. CallsFit(r)
  <2>1. \A i \in 1..k : r.calls[i].id = <<"stream", i>>
    <3> TAKE i \in 1..k
    <3>1. CASE i \in 1..(k - 1)
      BY <1>1, <1>2, <1>3, <3>1 DEF CallsFit
    <3>2. CASE i = k
      BY <1>1, <1>4, <1>6, <3>2 DEF CallsFit
    <3> HIDE DEF k
    <3> QED BY <1>2, <3>1, <3>2
  <2>2. \A i \in 1..o.tool.index : ~r.calls[i].open
    BY <1>1, <1>8 DEF CallsFit
  <2>3. o.tool.emitted
    <3> HIDE DEF k
    <3>1. Len(o.calls) > 0
      BY <1>4 DEF k
    <3> QED BY <1>1, <3>1 DEF CallsFit
  <2> HIDE DEF k
  <2>4. InCall(r)
    BY <1>7 DEF InCall
  <2> QED BY <1>2, <1>3, <1>4, <1>7, <2>1, <2>2, <2>3, <2>4 DEF CallsFit, InCall
<1>10. BlockFits(r)
  BY <1>1, <1>7 DEF BlockFits, InCall
<1>11. InTool(s, r)
  BY <1>3, <1>7, <1>9, <1>10 DEF InTool
<1> QED BY <1>2, <1>3, <1>6, <1>7, <1>8, <1>11 DEF r, OnlyArgs

\* The cursor moves within a call.
LEMMA ToolMoves ==
  ASSUME NEW s, NEW o, InTool(s, o), InCall(o), NEW tl \in ToolT,
         tl.index = o.tool.index, tl.emitted = o.tool.emitted,
         tl.state \in {"params", "value"}, Whole(s, tl.pos)
  PROVE  LET r == [o EXCEPT !.tool = tl]
         IN  InTool(s, r) /\ SameText(o, r) /\ r.calls = o.calls /\ r.tool = tl
<1> DEFINE r == [o EXCEPT !.tool = tl]
<1>1. o \in OutT /\ o.ok /\ CallsFit(o) /\ BlockFits(o) /\ ~o.split
  BY DEF InTool
<1>2. /\ r \in OutT /\ SameText(o, r) /\ r.calls = o.calls /\ r.tool = tl /\ r.ok /\ ~r.split
      /\ r.block = o.block
  BY <1>1 DEF OutT, SameText
<1> HIDE DEF r
<1>3. InCall(r)
  BY <1>2 DEF InCall
<1>4. CallsFit(r) /\ BlockFits(r)
  BY <1>1, <1>2, <1>3 DEF CallsFit, BlockFits, InCall
<1> QED BY <1>2, <1>4 DEF InTool, r

\* The block is given up.
LEMMA ToolFailIs ==
  ASSUME NEW s, NEW o, InTool(s, o)
  PROVE  LET r == ToolFail(o)
         IN  InTool(s, r) /\ SameText(o, r) /\ r.calls = o.calls
             /\ r.tool = [o.tool EXCEPT !.state = "error"] /\ r.tool.state = "error"
             /\ r.tool.pos = o.tool.pos
<1> DEFINE tl == [o.tool EXCEPT !.state = "error"]
           r == ToolFail(o)
<1>1. o \in OutT /\ o.ok /\ CallsFit(o) /\ BlockFits(o) /\ ~o.split /\ o.tool \in ToolT
      /\ Whole(s, o.tool.pos)
  BY DEF InTool, OutT
<1>2. /\ tl \in ToolT /\ tl.state = "error" /\ tl.pos = o.tool.pos /\ tl.index = o.tool.index
      /\ tl.emitted = o.tool.emitted
  BY <1>1 DEF ToolT
<1>3. r = [o EXCEPT !.tool = tl]
  BY <1>1 DEF ToolFail, OutT, ToolT
<1> HIDE DEF tl, r
<1>4. /\ r \in OutT /\ SameText(o, r) /\ r.calls = o.calls /\ r.tool = tl /\ r.ok /\ ~r.split
      /\ r.block = o.block
  BY <1>1, <1>2, <1>3 DEF OutT, SameText
<1>5. CallsFit(r) /\ BlockFits(r)
  BY <1>1, <1>2, <1>4 DEF CallsFit, BlockFits, InCall
<1> QED BY <1>1, <1>2, <1>4, <1>5 DEF InTool, r, tl

\* A member's name is a text.
LEMMA MemberType ==
  ASSUME NEW first \in BOOLEAN, NEW value \in Texts
  PROVE  Member(first, value) \in Texts
<1> DEFINE a == ","
           b == "key"
<1>1. a \in Atom /\ b \in Atom
  BY AtomType
<1> HIDE DEF a, b, Atom
<1>2. <<a>> \in Seq(Atom) /\ <<b>> \in Seq(Atom) /\ <<>> \in Seq(Atom)
  BY <1>1, EmptySeq
<1>3. (IF first THEN <<>> ELSE <<a>>) \in Seq(Atom)
  BY <1>2
<1>4. (IF first THEN <<>> ELSE <<a>>) \o <<b>> \in Seq(Atom)
  BY <1>2, <1>3, ConcatProperties
<1>5. (IF first THEN <<>> ELSE <<a>>) \o <<b>> \o value \in Seq(Atom)
  BY <1>4, ConcatProperties DEF Texts
<1> QED BY <1>5 DEF Member, Texts, a, b

\* An argument begins.
LEMMA StartArgIs ==
  ASSUME NEW s, NEW o, InTool(s, o), o.tool.state = "params", NEW tagEnd \in Nat, Whole(s, tagEnd),
         NEW attr \in {"str", "raw"}
  PROVE  LET r == StartArg(o, attr, tagEnd)
             quote == IF attr = "str" THEN <<"q">> ELSE <<>>
         IN  /\ InTool(s, r) /\ SameText(o, r)
             /\ r.tool.state = "value" /\ r.tool.pos = tagEnd /\ r.tool.index = o.tool.index
             /\ r.tool.str = (attr = "str") /\ ~r.tool.first
             /\ OnlyArgs(o, r, Member(o.tool.first, quote))
<1> DEFINE quote == IF attr = "str" THEN <<"q">> ELSE <<>>
           piece == Member(o.tool.first, quote)
           m == AddArgs(o, piece)
           tl == [o.tool EXCEPT !.first = FALSE, !.str = (attr = "str"),
                                !.pos = tagEnd, !.state = "value"]
           r == StartArg(o, attr, tagEnd)
<1>1. o \in OutT /\ o.tool \in ToolT /\ InCall(o)
  BY DEF InTool, OutT, InCall
<1>2. piece \in Texts
  <2>1. quote \in Texts
    BY CloseBrace, EmptySeq DEF Texts
  <2>2. o.tool.first \in BOOLEAN
    BY <1>1 DEF ToolT
  <2> HIDE DEF quote
  <2> QED BY <2>1, <2>2, MemberType
<1> HIDE DEF piece
<1>3. InTool(s, m) /\ SameText(o, m) /\ m.tool = o.tool /\ OnlyArgs(o, m, piece)
  BY <1>1, <1>2, MoreArgs
<1> HIDE DEF m
<1>4. /\ tl \in ToolT /\ tl.index = o.tool.index /\ tl.emitted = o.tool.emitted /\ tl.pos = tagEnd
      /\ tl.state = "value" /\ tl.str = (attr = "str") /\ ~tl.first
  <2>1. (attr = "str") \in BOOLEAN
    OBVIOUS
  <2> QED BY <1>1, <2>1 DEF ToolT
<1>5. m \in OutT /\ InCall(m)
  BY <1>1, <1>3 DEF InTool, InCall
<1>6. r = [m EXCEPT !.tool = tl]
  BY <1>1, <1>3, <1>5 DEF StartArg, OutT, ToolT, m, piece
<1> HIDE DEF tl, r
<1>7. InTool(s, r) /\ SameText(m, r) /\ r.calls = m.calls /\ r.tool = tl
  BY <1>3, <1>4, <1>5, <1>6, ToolMoves
<1>8. SameText(o, r)
  BY <1>3, <1>7 DEF SameText
<1>9. OnlyArgs(o, r, piece)
  BY <1>3, <1>7 DEF OnlyArgs
<1> QED BY <1>4, <1>7, <1>8, <1>9 DEF r, piece

\* What a piece of a value adds to the arguments.
ValuePiece(o, t, to) ==
  IF to <= o.tool.pos THEN <<>>
  ELSE IF o.tool.str THEN Unescape(Cut(t, o.tool.pos, to)) ELSE Cut(t, o.tool.pos, to)

\* Nothing is shown.
LEMMA NoPiece ==
  ASSUME NEW s, NEW o, InTool(s, o), InCall(o)
  PROVE  OnlyArgs(o, o, <<>>)
<1> DEFINE k == Len(o.calls)
<1>1. o \in OutT /\ CallsFit(o) /\ o.tool \in ToolT
  BY DEF InTool, OutT
<1>2. o.calls \in Seq(CallT) /\ k = o.tool.index + 1 /\ o.tool.index \in Nat
  BY <1>1 DEF CallsFit, OutT, ToolT
<1>3. k \in 1..Len(o.calls)
  BY <1>2
<1>4. o.calls[k] \in CallT
  <2> HIDE DEF k
  <2> QED BY <1>2, <1>3, ElementOfSeq
<1>5. o.calls[k].args \in Seq(Atom)
  <2> HIDE DEF k
  <2> QED BY <1>4 DEF CallT, Texts
<1>6. o.calls[k].args \o <<>> = o.calls[k].args
  BY <1>5, ConcatEmptySeq
<1> QED BY <1>2, <1>6 DEF OnlyArgs

\* A part of a value is shown.
LEMMA ShowValueIs ==
  ASSUME NEW t, NEW s, Begins(t, s), NEW o, InTool(s, o), o.tool.state = "value",
         NEW to \in 0..Len(t), to <= o.tool.pos \/ Whole(s, to)
  PROVE  LET r == ShowValue(o, t, to)
             p == IF to <= o.tool.pos THEN o.tool.pos ELSE to
         IN  /\ InTool(s, r) /\ SameText(o, r)
             /\ r.tool.state = "value" /\ r.tool.pos = p
             /\ r.tool.index = o.tool.index /\ r.tool.str = o.tool.str /\ r.tool.first = o.tool.first
             /\ OnlyArgs(o, r, ValuePiece(o, t, to))
<1> DEFINE r == ShowValue(o, t, to)
           from == o.tool.pos
           cut == Cut(t, from, to)
           piece == IF o.tool.str THEN Unescape(cut) ELSE cut
           m == AddArgs(o, piece)
           tl == [o.tool EXCEPT !.pos = to]
<1>1. o \in OutT /\ o.tool \in ToolT /\ InCall(o) /\ Whole(s, from) /\ ~o.split
  BY DEF InTool, OutT, InCall
<1>2. t \in Texts /\ s \in Texts /\ Len(t) \in Nat /\ Len(s) \in Nat /\ from \in Nat /\ to \in Nat
      /\ Len(t) <= Len(s)
  BY <1>1, LenType DEF Begins, ToolT
<1>3. CASE to <= from
  <2>1. r = o /\ ValuePiece(o, t, to) = <<>>
    BY <1>3 DEF ShowValue, ValuePiece
  <2>2. OnlyArgs(o, o, <<>>)
    BY <1>1, NoPiece
  <2> QED BY <1>1, <1>3, <2>1, <2>2 DEF SameText
<1>4. CASE ~(to <= from)
  <2>1. piece \in Texts
    <3>1. cut \in Texts
      <4>1. from \in Nat /\ from <= to
        BY <1>2, <1>4
      <4> HIDE DEF from
      <4> QED BY <1>2, <4>1, CutIs
    <3> HIDE DEF cut
    <3> QED BY <3>1, UnescapeType
  <2>2. ValuePiece(o, t, to) = piece
    BY <1>4 DEF ValuePiece
  <2>3. ~Splits(t, from, to)
    <3>1. SUFFICES ASSUME from > 0, from < to, t[from] = "u1", t[from + 1] = "u2" PROVE FALSE
      BY DEF Splits
    <3>2. from \in 1..Len(t) /\ from + 1 \in 1..Len(t) /\ from < Len(s)
      BY <1>2, <3>1
    <3>3. s[from] = "u1" /\ s[from + 1] = "u2"
      BY <3>1, <3>2 DEF Begins
    <3> QED BY <1>1, <3>1, <3>2, <3>3 DEF Whole
  <2> HIDE DEF piece
  <2>4. InTool(s, m) /\ SameText(o, m) /\ m.tool = o.tool /\ OnlyArgs(o, m, piece)
    BY <1>1, <2>1, MoreArgs
  <2>5. /\ tl \in ToolT /\ tl.index = o.tool.index /\ tl.emitted = o.tool.emitted /\ tl.pos = to
        /\ tl.state = "value" /\ tl.str = o.tool.str /\ tl.first = o.tool.first
    BY <1>1, <1>2 DEF ToolT
  <2>6. m \in OutT /\ InCall(m) /\ ~m.split
    BY <1>1, <2>4 DEF InTool, InCall
  <2>7. r = [m EXCEPT !.tool = tl]
    <3>1. r = [m EXCEPT !.tool.pos = to, !.split = @ \/ Splits(t, from, to)]
      BY <1>4 DEF ShowValue, piece
    <3>2. (m.split \/ Splits(t, from, to)) = m.split
      <4>1. m.split = FALSE
        BY <2>6 DEF OutT
      <4> QED BY <2>3, <4>1
    <3> HIDE DEF m, r
    <3>3. [m EXCEPT !.tool.pos = to, !.split = @ \/ Splits(t, from, to)]
            = [m EXCEPT !.tool = [m.tool EXCEPT !.pos = to], !.split = m.split]
      BY <2>6, <3>2 DEF OutT
    <3>4. [m EXCEPT !.tool = tl, !.split = m.split] = [m EXCEPT !.tool = tl]
      BY <2>6 DEF OutT
    <3> QED BY <2>4, <3>1, <3>3, <3>4
  <2> HIDE DEF tl, r, m
  <2>8. InTool(s, r) /\ SameText(m, r) /\ r.calls = m.calls /\ r.tool = tl
    BY <1>4, <2>4, <2>5, <2>6, <2>7, ToolMoves
  <2>9. SameText(o, r)
    BY <2>4, <2>8 DEF SameText
  <2>10. OnlyArgs(o, r, piece)
    BY <2>4, <2>8 DEF OnlyArgs
  <2> QED BY <1>4, <2>2, <2>5, <2>8, <2>9, <2>10 DEF r, tl
<1> QED BY <1>3, <1>4

\* A value ends.
LEMMA FinishArgIs ==
  ASSUME NEW t, NEW s, Begins(t, s), NEW o, InTool(s, o), o.tool.state = "value",
         NEW close \in 0..Len(t), o.tool.pos <= close, Whole(s, close), Whole(s, close + 3)
  PROVE  LET r == FinishArg(o, t, close)
             quote == IF o.tool.str THEN <<"q">> ELSE <<>>
         IN  /\ InTool(s, r) /\ SameText(o, r)
             /\ r.tool.state = "params" /\ r.tool.pos = close + 3
             /\ r.tool.index = o.tool.index /\ r.tool.first = o.tool.first
             /\ OnlyArgs(o, r, ValuePiece(o, t, close) \o quote)
<1> DEFINE quote == IF o.tool.str THEN <<"q">> ELSE <<>>
           piece == ValuePiece(o, t, close)
           k == Len(o.calls)
           v == ShowValue(o, t, close)
           m == IF o.tool.str THEN AddArgs(v, <<"q">>) ELSE v
           tl == [m.tool EXCEPT !.pos = close + 3, !.state = "params"]
           r == FinishArg(o, t, close)
<1>1. o \in OutT /\ o.tool \in ToolT /\ InCall(o) /\ close \in Nat
  BY LenType DEF InTool, OutT, InCall, Begins
<1>2. /\ InTool(s, v) /\ SameText(o, v) /\ v.tool.state = "value"
      /\ v.tool.index = o.tool.index /\ v.tool.str = o.tool.str /\ v.tool.first = o.tool.first
      /\ OnlyArgs(o, v, piece)
  <2>1. close <= o.tool.pos \/ Whole(s, close)
    OBVIOUS
  <2> QED BY <2>1, ShowValueIs
<1> HIDE DEF v, piece
<1>3. InCall(v) /\ v \in OutT
  BY <1>2 DEF InCall, InTool
<1>4. /\ InTool(s, m) /\ SameText(v, m) /\ m.tool = v.tool /\ OnlyArgs(v, m, quote)
  <2>1. CASE o.tool.str
    <3>1. <<"q">> \in Texts
      BY CloseBrace
    <3>2. m = AddArgs(v, <<"q">>) /\ quote = <<"q">>
      BY <2>1
    <3> HIDE DEF m, quote
    <3> QED BY <1>2, <1>3, <3>1, <3>2, MoreArgs
  <2>2. CASE ~o.tool.str
    <3>1. m = v /\ quote = <<>>
      BY <2>2
    <3> HIDE DEF m, quote
    <3>2. OnlyArgs(v, v, <<>>)
      BY <1>2, <1>3, NoPiece
    <3> QED BY <1>2, <3>1, <3>2 DEF SameText
  <2> QED BY <2>1, <2>2
<1>5. r = [m EXCEPT !.tool.pos = close + 3, !.tool.state = "params"]
  BY DEF FinishArg, v
<1> HIDE DEF m
<1>6. m \in OutT /\ InCall(m) /\ m.tool \in ToolT
  BY <1>2, <1>4 DEF InTool, InCall, OutT
<1>7. /\ tl \in ToolT /\ tl.index = m.tool.index /\ tl.emitted = m.tool.emitted
      /\ tl.pos = close + 3 /\ tl.state = "params" /\ tl.first = m.tool.first
  <2>1. close + 3 \in Nat
    BY <1>1
  <2> QED BY <1>6, <2>1 DEF ToolT
<1>8. r = [m EXCEPT !.tool = tl]
  BY <1>5, <1>6 DEF OutT, ToolT
<1> HIDE DEF tl, r
<1>9. InTool(s, r) /\ SameText(m, r) /\ r.calls = m.calls /\ r.tool = tl
  BY <1>4, <1>6, <1>7, <1>8, ToolMoves
<1>10. SameText(o, r)
  BY <1>2, <1>4, <1>9 DEF SameText
<1>11. OnlyArgs(o, r, piece \o quote)
  <2>1. Len(r.calls) = k /\ k = o.tool.index + 1
    BY <1>2, <1>4, <1>9 DEF OnlyArgs
  <2>2. \A i \in 1..o.tool.index : r.calls[i] = o.calls[i]
    BY <1>2, <1>4, <1>9 DEF OnlyArgs
  <2>3. r.calls[k].args = (o.calls[k].args \o piece) \o quote
    BY <1>2, <1>4, <1>9 DEF OnlyArgs
  <2>4. (o.calls[k].args \o piece) \o quote = o.calls[k].args \o (piece \o quote)
    <3>1. o.calls[k].args \in Seq(Atom)
      <4>1. o.calls \in Seq(CallT) /\ o.tool.index \in Nat
        BY <1>1 DEF OutT, ToolT
      <4>2. k \in 1..Len(o.calls)
        BY <2>1, <4>1
      <4>3. o.calls[k] \in CallT
        <5> HIDE DEF k
        <5> QED BY <4>1, <4>2, ElementOfSeq
      <4> HIDE DEF k
      <4> QED BY <4>3 DEF CallT, Texts
    <3>2. piece \in Seq(Atom)
      <4>1. close > o.tool.pos => Cut(t, o.tool.pos, close) \in Texts
        <5>1. t \in Texts /\ o.tool.pos \in Nat
          BY <1>1 DEF Begins, ToolT
        <5> QED BY <5>1, CutIs
      <4>2. Cut(t, o.tool.pos, close) \in Texts => Unescape(Cut(t, o.tool.pos, close)) \in Texts
        BY UnescapeType
      <4>3. o.tool.pos \in Nat /\ close \in Nat
        BY <1>1 DEF ToolT
      <4>4. CASE close <= o.tool.pos
        BY <4>4, EmptySeq DEF piece, ValuePiece
      <4>5. CASE close > o.tool.pos
        BY <4>1, <4>2, <4>3, <4>5 DEF piece, ValuePiece, Texts
      <4> QED BY <4>3, <4>4, <4>5
    <3>3. quote \in Seq(Atom)
      BY CloseBrace, EmptySeq DEF Texts
    <3> DEFINE a == o.calls[k].args
    <3>4. a \in Seq(Atom)
      BY <3>1
    <3> HIDE DEF quote, a
    <3>5. (a \o piece) \o quote = a \o (piece \o quote)
      BY <3>2, <3>3, <3>4, ConcatAssociative
    <3> QED BY <3>5 DEF a
  <2> HIDE DEF k
  <2>5. r.calls[k].args = o.calls[k].args \o (piece \o quote)
    BY <2>3, <2>4
  <2> QED BY <2>1, <2>2, <2>5 DEF OnlyArgs, k
<1> QED BY <1>2, <1>4, <1>7, <1>9, <1>10, <1>11 DEF r, piece

-----------------------------------------------------------------------------
(* One step of the projection of a tool block.                             *)

\* A literal of one atom.
LEMMA FullLit1 ==
  ASSUME NEW t \in Texts, NEW n \in 0..Len(t), NEW p \in Nat, NEW a \in Atom
  PROVE  FullLit(t, n, p, <<a>>) <=> p + 1 <= n /\ t[p + 1] = a
<1> DEFINE lit == <<a>>
<1>1. lit \in Seq(Atom) /\ Len(lit) = 1 /\ lit[1] = a
  OBVIOUS
<1> HIDE DEF lit
<1>2. CASE p + 1 <= n
  <2>1. t \in Seq(Atom) /\ p + 1 \in 1..Len(t) /\ n \in Nat
    BY <1>2, LenType DEF Texts
  <2>2. \A i \in (p + 1)..(p + 1) : t[i] \in Atom
    BY <2>1
  <2> DEFINE s == SubSeq(t, p + 1, p + 1)
  <2>3. Len(s) = 1 /\ s \in Seq(Atom) /\ s[1] = t[p + 1]
    BY <2>1, <2>2, SubSeqProperties
  <2> HIDE DEF s
  <2>4. ASSUME s[1] = lit[1] PROVE s = lit
    <3>1. \A i \in 1..Len(s) : s[i] = lit[i]
      BY <2>3, <2>4
    <3> QED BY <1>1, <2>3, <3>1, SeqEqual
  <2> QED BY <1>1, <1>2, <2>3, <2>4 DEF FullLit, s, lit
<1>3. CASE ~(p + 1 <= n)
  BY <1>1, <1>3 DEF FullLit, lit
<1> QED BY <1>2, <1>3

\* The end of a tag is the first ">".
LEMMA TagEndIs ==
  ASSUME NEW t \in Texts, NEW n \in 0..Len(t), NEW p \in Nat
  PROVE  LET r == TagEnd(t, n, p)
         IN  \/ r = NotFound /\ \A i \in (p + 1)..n : t[i] # ">"
             \/ r \in (p + 1)..n /\ t[r] = ">" /\ \A i \in (p + 1)..(r - 1) : t[i] # ">"
<1> DEFINE q == FindLit(t, n, p, <<">">>)
<1>0. ">" \in Atom
  BY Zenon, AtomType
<1>1. n \in Nat
  BY LenType
<1>2. \A i \in Nat : FullLit(t, n, i, <<">">>) <=> i + 1 <= n /\ t[i + 1] = ">"
  BY <1>0, FullLit1
<1>3. \/ q = NotFound /\ \A i \in p..n : ~FullLit(t, n, i, <<">">>)
      \/ /\ q \in p..n /\ FullLit(t, n, q, <<">">>)
         /\ \A i \in p..n : FullLit(t, n, i, <<">">>) => q <= i
  BY <1>1, FindLitIs
<1> HIDE DEF q
<1>4. CASE q = NotFound /\ \A i \in p..n : ~FullLit(t, n, i, <<">">>)
  <2>1. ASSUME NEW i \in (p + 1)..n PROVE t[i] # ">"
    <3>1. i - 1 \in p..n /\ i - 1 \in Nat /\ (i - 1) + 1 = i /\ i <= n
      BY <1>1
    <3> QED BY <1>2, <1>4, <3>1
  <2> QED BY <1>4, <2>1 DEF TagEnd, q
<1>5. CASE /\ q \in p..n /\ FullLit(t, n, q, <<">">>)
           /\ \A i \in p..n : FullLit(t, n, i, <<">">>) => q <= i
  <2>1. q \in Nat /\ q # NotFound /\ q + 1 <= n /\ t[q + 1] = ">" /\ q + 1 \in (p + 1)..n
    BY <1>1, <1>2, <1>5 DEF NotFound
  <2>2. ASSUME NEW i \in (p + 1)..((q + 1) - 1) PROVE t[i] # ">"
    <3>1. i - 1 \in p..n /\ i - 1 \in Nat /\ (i - 1) + 1 = i /\ i <= n /\ ~(q <= i - 1)
      BY <1>1, <2>1
    <3> QED BY <1>2, <1>5, <3>1
  <2>3. TagEnd(t, n, p) = q + 1
    BY <2>1 DEF TagEnd, q
  <2> QED BY <2>1, <2>2, <2>3
<1> QED BY <1>3, <1>4, <1>5

\* Where no character is split.
LEMMA WholeAt ==
  ASSUME NEW t, NEW s, Begins(t, s), NEW p \in Nat
  PROVE  /\ p > 0 /\ p <= Len(t) /\ t[p] # "u1" => Whole(s, p)
         /\ p < Len(t) /\ t[p + 1] # "u2" => Whole(s, p)
         /\ p = 0 => Whole(s, p)
<1>1. Len(t) \in Nat /\ Len(s) \in Nat /\ Len(t) <= Len(s)
  BY LenType DEF Begins
<1>2. p > 0 /\ p <= Len(t) => s[p] = t[p]
  BY <1>1 DEF Begins
<1>3. p < Len(t) => s[p + 1] = t[p + 1]
  BY <1>1 DEF Begins
<1> QED BY <1>1, <1>2, <1>3 DEF Whole

\* What is safe of a value splits none.
LEMMA ValueSafeLenIs ==
  ASSUME NEW t, NEW s, Begins(t, s), NEW n \in 0..Len(t), NEW start \in 0..n, NEW isString
  PROVE  LET r == ValueSafeLen(t, start, n, isString)
         IN  r \in start..n /\ (r <= start \/ Whole(s, r))
<1> DEFINE scan == IF n > start + 3 THEN n - 3 ELSE start
           cut == {p \in scan..(n - 1) : PartialLit(t, n, p, End("arg"), 1)}
           limit == IF cut = {} THEN n ELSE First(cut)
           hold == IF isString THEN EntitySafeLen(t, start, limit) ELSE limit
<1>1. t \in Texts /\ Len(t) \in Nat /\ n \in Nat /\ start \in Nat /\ scan \in start..n
  BY LenType DEF Begins
<1>2. limit \in start..n
  <2> HIDE DEF scan
  <2>1. cut \in SUBSET Nat /\ cut \subseteq start..n
    BY <1>1
  <2> HIDE DEF cut
  <2>2. cut # {} => First(cut) \in cut
    BY <2>1, FirstIsLeast
  <2>3. n \in start..n
    BY <1>1
  <2>4. CASE cut = {}
    BY <2>3, <2>4
  <2>5. CASE cut # {}
    BY <2>1, <2>2, <2>5
  <2> QED BY <2>4, <2>5
<1>3. ValueSafeLen(t, start, n, isString) = Utf8SafeLen(t, start, hold)
  BY DEF ValueSafeLen
<1> HIDE DEF limit
<1>4. hold \in start..n
  <2>1. limit \in 0..Len(t) /\ start <= limit
    BY <1>1, <1>2
  <2>2. EntitySafeLen(t, start, limit) \in start..limit
    <3>1. EntitySafeLen(t, start, limit) \in 0..limit /\ start <= EntitySafeLen(t, start, limit)
      BY <1>1, <2>1, EntitySafeLenIs
    <3> QED BY <1>1, <2>1, <3>1
  <2> QED BY <1>1, <1>2, <2>1, <2>2
<1> HIDE DEF hold
<1>5. hold \in 0..Len(t) /\ start <= hold
  BY <1>1, <1>4
<1>6. LET r == Utf8SafeLen(t, start, hold)
      IN  r \in 0..hold /\ start <= r /\ (r <= start \/ Whole(s, r))
  BY <1>1, <1>5, Utf8SafeLenIs
<1> QED BY <1>1, <1>3, <1>4, <1>6

\* The cursor moves over whitespace, and to the end of the block.
MoveTo(o, p) == [o EXCEPT !.tool.pos = p]
\* The block ends at p.
EndBlock(o, p) == [o EXCEPT !.tool.pos = p, !.tool.state = "done"]

\* Moving on shows nothing.
LEMMA ToolSkips ==
  ASSUME NEW s, NEW o, InTool(s, o), NEW p \in Nat, Whole(s, p)
  PROVE  LET r == MoveTo(o, p)
         IN  /\ InTool(s, r) /\ SameText(o, r) /\ r.calls = o.calls
             /\ r.tool.pos = p /\ r.tool.state = o.tool.state /\ r.tool.index = o.tool.index
             /\ r.tool.first = o.tool.first /\ r.tool.str = o.tool.str
<1> DEFINE tl == [o.tool EXCEPT !.pos = p]
           r == MoveTo(o, p)
<1>1. o \in OutT /\ o.ok /\ CallsFit(o) /\ BlockFits(o) /\ ~o.split /\ o.tool \in ToolT
      /\ o.tool.state # "none"
  BY DEF InTool, OutT
<1>2. /\ tl \in ToolT /\ tl.state = o.tool.state /\ tl.pos = p /\ tl.index = o.tool.index
      /\ tl.emitted = o.tool.emitted /\ tl.first = o.tool.first /\ tl.str = o.tool.str
  BY <1>1 DEF ToolT
<1>3. r = [o EXCEPT !.tool = tl]
  BY <1>1 DEF OutT, ToolT, MoveTo, EndBlock
<1> HIDE DEF tl, r
<1>4. /\ r \in OutT /\ SameText(o, r) /\ r.calls = o.calls /\ r.tool = tl /\ r.ok /\ ~r.split
      /\ r.block = o.block
  BY <1>1, <1>2, <1>3 DEF OutT, SameText
<1>5. CallsFit(r)
  BY <1>1, <1>2, <1>4 DEF CallsFit, InCall
<1>6. BlockFits(r)
  BY <1>1, <1>2, <1>4 DEF BlockFits, InCall
<1>7. InTool(s, r)
  BY <1>1, <1>2, <1>4, <1>5, <1>6 DEF InTool
<1> QED BY <1>2, <1>4, <1>7 DEF r

\* Nor does the end.
LEMMA ToolEnds ==
  ASSUME NEW s, NEW o, InTool(s, o), NEW p \in Nat, Whole(s, p), o.tool.state = "invokes"
  PROVE  LET r == EndBlock(o, p)
         IN  /\ InTool(s, r) /\ SameText(o, r) /\ r.calls = o.calls
             /\ r.tool.pos = p /\ r.tool.state = "done" /\ r.tool.index = o.tool.index
             /\ r.tool.first = o.tool.first /\ r.tool.str = o.tool.str
<1> DEFINE tl == [o.tool EXCEPT !.pos = p, !.state = "done"]
           r == EndBlock(o, p)
<1>1. o \in OutT /\ o.ok /\ CallsFit(o) /\ BlockFits(o) /\ ~o.split /\ o.tool \in ToolT
      /\ o.tool.state # "none"
  BY DEF InTool, OutT
<1>2. /\ tl \in ToolT /\ tl.state = "done" /\ tl.pos = p /\ tl.index = o.tool.index
      /\ tl.emitted = o.tool.emitted /\ tl.first = o.tool.first /\ tl.str = o.tool.str
  BY <1>1 DEF ToolT
<1>3. r = [o EXCEPT !.tool = tl]
  BY <1>1 DEF OutT, ToolT, MoveTo, EndBlock
<1> HIDE DEF tl, r
<1>4. /\ r \in OutT /\ SameText(o, r) /\ r.calls = o.calls /\ r.tool = tl /\ r.ok /\ ~r.split
      /\ r.block = o.block
  BY <1>1, <1>2, <1>3 DEF OutT, SameText
<1>5. CallsFit(r)
  BY <1>1, <1>2, <1>4 DEF CallsFit, InCall
<1>6. BlockFits(r)
  BY <1>1, <1>2, <1>4 DEF BlockFits, InCall
<1>7. InTool(s, r)
  BY <1>1, <1>2, <1>4, <1>5, <1>6 DEF InTool
<1> QED BY <1>2, <1>4, <1>7 DEF r

\* Skipping whitespace splits none.
LEMMA SkipIs ==
  ASSUME NEW t, NEW s, Begins(t, s), NEW n \in 0..Len(t), NEW from \in 0..n, Whole(s, from)
  PROVE  LET p == SkipWs(t, n, from)
         IN  p \in from..n /\ (p = n \/ t[p + 1] # "w") /\ Whole(s, p)
             /\ \A i \in (from + 1)..p : t[i] = "w"
<1> DEFINE p == SkipWs(t, n, from)
<1>1. t \in Texts /\ Len(t) \in Nat /\ n \in Nat
  BY LenType DEF Begins
<1>2. p \in from..n /\ (p = n \/ t[p + 1] # "w") /\ \A i \in (from + 1)..p : t[i] = "w"
  BY <1>1, SkipWsIs
<1> HIDE DEF p
<1>3. CASE p = from
  BY <1>2, <1>3 DEF p
<1>4. CASE p > from
  <2>1. p \in (from + 1)..p /\ p > 0 /\ p <= Len(t) /\ p \in Nat
    BY <1>1, <1>2, <1>4
  <2>2. t[p] # "u1"
    BY <1>2, <2>1
  <2> QED BY <1>2, <2>1, <2>2, WholeAt DEF p
<1> QED BY <1>1, <1>2, <1>3, <1>4

\* A marker begins and ends with a whole character.
LEMMA WholeMarkers ==
  ASSUME NEW t, NEW s, Begins(t, s), NEW n \in 0..Len(t), NEW p \in Nat, NEW x \in Marks
  PROVE  /\ FullLit(t, n, p, Start(x)) => p + 2 <= n /\ Whole(s, p) /\ Whole(s, p + 2)
         /\ FullLit(t, n, p, End(x)) => p + 3 <= n /\ Whole(s, p) /\ Whole(s, p + 3)
<1>1. t \in Texts /\ Len(t) \in Nat /\ n \in Nat
  BY LenType DEF Begins
<1>2. x # "u1" /\ "<" # "u2"
  BY DEF Marks
<1>3. ASSUME FullLit(t, n, p, Start(x)) PROVE p + 2 <= n /\ Whole(s, p) /\ Whole(s, p + 2)
  <2>1. p + 2 <= n /\ t[p + 1] = "<" /\ t[p + 2] = x
    BY <1>1, <1>3, FullStart
  <2> QED BY <1>1, <1>2, <2>1, WholeAt
<1>4. ASSUME FullLit(t, n, p, End(x)) PROVE p + 3 <= n /\ Whole(s, p) /\ Whole(s, p + 3)
  <2>1. p + 3 <= n /\ t[p + 1] = "<" /\ t[p + 3] = x
    BY <1>1, <1>4, FullEnd
  <2> QED BY <1>1, <1>2, <2>1, WholeAt
<1> QED BY <1>3, <1>4

\* The markers.
LEMMA MarkNames == {"think", "tools", "call", "arg"} = Marks
BY DEF Marks

\* Between two calls: the block ends, a call begins, more is awaited, or it cannot be read.
NextCall(o, t, n, r) ==
  LET p == SkipWs(t, n, o.tool.pos)
      tagEnd == TagEnd(t, n, p)
      ends == FullLit(t, n, p, End("tools"))
      begins == FullLit(t, n, p, Start("call"))
      part == PartialLit(t, n, p, End("tools"), 0) \/ PartialLit(t, n, p, Start("call"), 0)
  IN  /\ r.tool.index = o.tool.index
      /\ \A i \in 1..o.tool.index : r.calls[i] = o.calls[i]
      /\ \/ ends /\ r.tool.state = "done" /\ r.tool.pos = p + 3
         \/ /\ ~ends /\ begins /\ tagEnd # NotFound
            /\ r.tool.state = "params" /\ r.tool.pos = tagEnd /\ r.tool.first
            /\ r.calls[o.tool.index + 1].args = BraceL
         \/ /\ ~ends /\ (part \/ (begins /\ tagEnd = NotFound))
            /\ r.tool.state = "invokes" /\ r.tool.pos = p
         \/ ~ends /\ ~begins /\ ~part /\ r.tool.state = "error" /\ r.tool.pos = p

\* Each of these keeps what holds in a block.
LEMMA BetweenCallsIs ==
  ASSUME NEW t, NEW s, Begins(t, s), NEW n \in 0..Len(t), NEW o, InTool(s, o),
         o.tool.state = "invokes", o.tool.pos <= n
  PROVE  LET r == BetweenCalls(o, t, n)
         IN  InTool(s, r) /\ SameText(o, r) /\ NextCall(o, t, n, r)
<1> DEFINE r == BetweenCalls(o, t, n)
           p == SkipWs(t, n, o.tool.pos)
           tagEnd == TagEnd(t, n, p)
           at == MoveTo(o, p)
           ends == FullLit(t, n, p, End("tools"))
           begins == FullLit(t, n, p, Start("call"))
           part == PartialLit(t, n, p, End("tools"), 0) \/ PartialLit(t, n, p, Start("call"), 0)
<1>0. r = CASE ends -> EndBlock(at, p + 3)
            [] part -> at
            [] begins -> IF tagEnd = NotFound THEN at ELSE StartCall(at, tagEnd)
            [] OTHER -> ToolFail(at)
  BY Zenon DEF BetweenCalls, MoveTo, EndBlock
<1>1. t \in Texts /\ Len(t) \in Nat /\ n \in Nat /\ o \in OutT /\ o.tool \in ToolT
      /\ o.tool.pos \in 0..n /\ Whole(s, o.tool.pos) /\ o.tool.index \in Nat
  BY LenType DEF Begins, InTool, OutT, ToolT
<1>2. p \in o.tool.pos..n /\ p \in Nat /\ Whole(s, p)
  BY <1>1, SkipIs
<1> HIDE DEF p
<1>3. "tools" \in Marks /\ "call" \in Marks
  BY MarkNames
<1>4. /\ InTool(s, at) /\ SameText(o, at) /\ at.calls = o.calls /\ at.tool.pos = p
      /\ at.tool.state = "invokes" /\ at.tool.index = o.tool.index
  BY <1>2, ToolSkips
<1>10. ~(ends /\ part) /\ ~(ends /\ begins) /\ ~(part /\ begins)
  <2>1. ends => p + 3 <= n /\ t[p + 2] = "/"
    BY <1>1, <1>2, <1>3, FullEnd
  <2>2. begins => p + 2 <= n /\ t[p + 2] = "call"
    BY <1>1, <1>2, <1>3, FullStart
  <2>3. part => p + 2 > n \/ (p + 2 = n /\ t[p + 2] = "/")
    BY <1>1, <1>2, <1>3, PartialStart, PartialEnd
  <2> HIDE DEF ends, begins, part
  <2> QED BY <1>1, <1>2, <2>1, <2>2, <2>3
<1>5. CASE ends
  <2> DEFINE m == EndBlock(at, p + 3)
  <2>1. r = m
    <3> HIDE DEF ends, begins, part, at, tagEnd, r
    <3> QED BY <1>0, <1>5, <1>10
  <2>2. p + 3 \in Nat /\ Whole(s, p + 3)
    BY <1>2, <1>3, <1>5, WholeMarkers
  <2> HIDE DEF at
  <2>3. /\ InTool(s, m) /\ SameText(at, m) /\ m.calls = at.calls /\ m.tool.pos = p + 3
        /\ m.tool.state = "done" /\ m.tool.index = at.tool.index
    BY <1>4, <2>2, ToolEnds
  <2> HIDE DEF m, r
  <2> QED BY <1>4, <1>5, <2>1, <2>3 DEF NextCall, SameText, r, p
<1>6. CASE ~ends /\ part
  <2>1. r = at
    <3> HIDE DEF ends, begins, part, at, tagEnd, r
    <3> QED BY <1>0, <1>6, <1>10
  <2> HIDE DEF at, r, ends, begins, part, tagEnd
  <2> QED BY <1>4, <1>6, <2>1 DEF NextCall, r, p, ends, part, begins, tagEnd
<1>7. CASE ~ends /\ ~part /\ begins /\ tagEnd = NotFound
  <2>1. r = at
    <3> HIDE DEF ends, begins, part, at, tagEnd, r
    <3> QED BY <1>0, <1>7, <1>10
  <2> HIDE DEF at, r, ends, begins, part, tagEnd
  <2> QED BY <1>4, <1>7, <2>1 DEF NextCall, r, p, ends, part, begins, tagEnd
<1>8. CASE ~ends /\ ~part /\ begins /\ tagEnd # NotFound
  <2>1. r = StartCall(at, tagEnd)
    <3> HIDE DEF ends, begins, part, at, tagEnd, r
    <3> QED BY <1>0, <1>8, <1>10
  <2>2. tagEnd \in Nat /\ Whole(s, tagEnd)
    <3>1. tagEnd \in (p + 1)..n /\ t[tagEnd] = ">"
      BY <1>1, <1>2, <1>8, TagEndIs
    <3> HIDE DEF tagEnd
    <3> QED BY <1>1, <1>2, <3>1, WholeAt
  <2> HIDE DEF at, tagEnd
  <2>3. LET m == StartCall(at, tagEnd)
        IN  /\ InTool(s, m) /\ SameText(at, m)
            /\ m.tool.state = "params" /\ m.tool.pos = tagEnd /\ m.tool.first
            /\ m.tool.index = at.tool.index
            /\ \A i \in 1..at.tool.index : m.calls[i] = at.calls[i]
            /\ m.calls[at.tool.index + 1].args = BraceL
    BY <1>4, <2>2, StartCallIs
  <2> HIDE DEF r, ends, begins, part
  <2> QED BY <1>4, <1>8, <2>1, <2>3 DEF NextCall, SameText, r, p, ends, begins, part, tagEnd
<1>9. CASE ~ends /\ ~part /\ ~begins
  <2>1. r = ToolFail(at)
    <3> HIDE DEF ends, begins, part, at, tagEnd, r
    <3> QED BY <1>0, <1>9, <1>10
  <2> HIDE DEF at
  <2>2. LET m == ToolFail(at)
        IN  /\ InTool(s, m) /\ SameText(at, m) /\ m.calls = at.calls
            /\ m.tool = [at.tool EXCEPT !.state = "error"] /\ m.tool.state = "error"
            /\ m.tool.pos = at.tool.pos
    BY <1>4, ToolFailIs
  <2>3. ToolFail(at).tool.index = at.tool.index
    <3>1. at.tool \in ToolT
      BY <1>4 DEF InTool, OutT
    <3> QED BY <2>2, <3>1 DEF ToolT
  <2> HIDE DEF r, ends, begins, part
  <2> QED BY <1>4, <1>9, <2>1, <2>2, <2>3 DEF NextCall, SameText, r, p, ends, begins, part
<1> HIDE DEF r, p, tagEnd, at, ends, begins, part
<1> QED BY <1>5, <1>6, <1>7, <1>8, <1>9

\* A tag's attribute.
LEMMA AttrIs ==
  ASSUME NEW t, NEW p, NEW tagEnd
  PROVE  Attr(t, p, tagEnd) \in {"str", "raw", "none"}
<1> DEFINE str == Contains(SubSeq(t, p + 1, tagEnd), "str")
           raw == Contains(SubSeq(t, p + 1, tagEnd), "raw")
<1>1. Attr(t, p, tagEnd) = CASE str -> "str" [] raw -> "raw" [] OTHER -> "none"
  BY Zenon DEF Attr
<1> HIDE DEF str, raw
<1>2. CASE str /\ raw
  <2>1. Attr(t, p, tagEnd) = CASE TRUE -> "str" [] TRUE -> "raw" [] OTHER -> "none"
    BY <1>1, <1>2
  <2> QED BY <2>1
<1>3. CASE ~(str /\ raw)
  BY <1>1, <1>3
<1> QED BY <1>2, <1>3

\* Within a call: the call ends, an argument begins, more is awaited, or it cannot be followed.
NextArg(o, t, n, r) ==
  LET p == SkipWs(t, n, o.tool.pos)
      tagEnd == TagEnd(t, n, p)
      attr == Attr(t, p, tagEnd)
      ends == FullLit(t, n, p, End("call"))
      begins == FullLit(t, n, p, Start("arg"))
      part == PartialLit(t, n, p, End("call"), 0) \/ PartialLit(t, n, p, Start("arg"), 0)
      k == o.tool.index + 1
  IN  /\ \A i \in 1..o.tool.index : r.calls[i] = o.calls[i]
      /\ \/ /\ ends /\ r.tool.state = "invokes" /\ r.tool.pos = p + 3
            /\ r.tool.index = k /\ r.calls[k].args = o.calls[k].args \o BraceR
         \/ /\ ~ends /\ begins /\ tagEnd # NotFound /\ attr # "none"
            /\ r.tool.state = "value" /\ r.tool.pos = tagEnd /\ r.tool.index = o.tool.index
            /\ r.tool.str = (attr = "str") /\ ~r.tool.first
            /\ OnlyArgs(o, r, Member(o.tool.first, IF attr = "str" THEN <<"q">> ELSE <<>>))
         \/ /\ ~ends /\ (part \/ (begins /\ tagEnd = NotFound))
            /\ r = MoveTo(o, p) /\ r.tool.state = "params" /\ r.tool.pos = p
            /\ r.tool.index = o.tool.index /\ r.tool.first = o.tool.first
            /\ r.calls = o.calls
         \/ /\ ~ends /\ ~part /\ (begins => tagEnd # NotFound /\ attr = "none")
            /\ r.tool.state = "error" /\ r.tool.pos = p /\ r.tool.index = o.tool.index

\* So between two arguments,
LEMMA BetweenArgsIs ==
  ASSUME NEW t, NEW s, Begins(t, s), NEW n \in 0..Len(t), NEW o, InTool(s, o),
         o.tool.state = "params", o.tool.pos <= n
  PROVE  LET r == BetweenArgs(o, t, n)
         IN  InTool(s, r) /\ SameText(o, r) /\ NextArg(o, t, n, r)
<1> DEFINE r == BetweenArgs(o, t, n)
           p == SkipWs(t, n, o.tool.pos)
           tagEnd == TagEnd(t, n, p)
           attr == Attr(t, p, tagEnd)
           at == MoveTo(o, p)
           ends == FullLit(t, n, p, End("call"))
           begins == FullLit(t, n, p, Start("arg"))
           part == PartialLit(t, n, p, End("call"), 0) \/ PartialLit(t, n, p, Start("arg"), 0)
           quote == IF attr = "str" THEN <<"q">> ELSE <<>>
           k == o.tool.index + 1
<1>0. r = CASE ends -> FinishCall(at, p)
            [] part -> at
            [] begins -> IF tagEnd = NotFound THEN at ELSE StartArg(at, attr, tagEnd)
            [] OTHER -> ToolFail(at)
  BY Zenon DEF BetweenArgs, MoveTo
<1>1. t \in Texts /\ Len(t) \in Nat /\ n \in Nat /\ o \in OutT /\ o.tool \in ToolT
      /\ o.tool.pos \in 0..n /\ Whole(s, o.tool.pos) /\ o.tool.index \in Nat
  BY LenType DEF Begins, InTool, OutT, ToolT
<1>2. p \in o.tool.pos..n /\ p \in Nat /\ Whole(s, p)
  BY <1>1, SkipIs
<1> HIDE DEF p
<1>3. "call" \in Marks /\ "arg" \in Marks
  BY MarkNames
<1>4. /\ InTool(s, at) /\ SameText(o, at) /\ at.calls = o.calls /\ at.tool.pos = p
      /\ at.tool.state = "params" /\ at.tool.index = o.tool.index /\ at.tool.first = o.tool.first
  BY <1>2, ToolSkips
<1>10. ~(ends /\ part) /\ ~(ends /\ begins) /\ ~(part /\ begins)
  <2>1. ends => p + 3 <= n /\ t[p + 2] = "/"
    BY <1>1, <1>2, <1>3, FullEnd
  <2>2. begins => p + 2 <= n /\ t[p + 2] = "arg"
    BY <1>1, <1>2, <1>3, FullStart
  <2>3. part => p + 2 > n \/ (p + 2 = n /\ t[p + 2] = "/")
    BY <1>1, <1>2, <1>3, PartialStart, PartialEnd
  <2> HIDE DEF ends, begins, part
  <2> QED BY <1>1, <1>2, <2>1, <2>2, <2>3
<1>11. tagEnd # NotFound => tagEnd \in Nat /\ Whole(s, tagEnd)
  <2> SUFFICES ASSUME tagEnd # NotFound PROVE tagEnd \in Nat /\ Whole(s, tagEnd)
    OBVIOUS
  <2>1. tagEnd \in (p + 1)..n /\ t[tagEnd] = ">"
    BY <1>1, <1>2, TagEndIs
  <2> HIDE DEF tagEnd
  <2> QED BY <1>1, <1>2, <2>1, WholeAt
<1>12. attr \in {"str", "raw", "none"}
  BY AttrIs
<1> HIDE DEF at, tagEnd, attr
<1>5. CASE ends
  <2>1. r = FinishCall(at, p)
    <3> HIDE DEF ends, begins, part, r
    <3> QED BY <1>0, <1>5, <1>10
  <2>2. p \in Nat /\ Whole(s, p + 3)
    BY <1>2, <1>3, <1>5, WholeMarkers
  <2> HIDE DEF r
  <2>3. /\ InTool(s, r) /\ SameText(at, r)
        /\ r.tool.state = "invokes" /\ r.tool.pos = p + 3 /\ r.tool.index = at.tool.index + 1
        /\ Len(at.calls) = at.tool.index + 1 /\ \A i \in 1..at.tool.index : r.calls[i] = at.calls[i]
        /\ r.calls[Len(at.calls)].args = at.calls[Len(at.calls)].args \o BraceR
    <3>1. LET m == FinishCall(at, p)
              j == Len(at.calls)
          IN  /\ InTool(s, m) /\ SameText(at, m)
              /\ m.tool.state = "invokes" /\ m.tool.pos = p + 3 /\ m.tool.index = at.tool.index + 1
              /\ j = at.tool.index + 1 /\ \A i \in 1..at.tool.index : m.calls[i] = at.calls[i]
              /\ m.calls[j].args = at.calls[j].args \o BraceR
      <4>1. InTool(s, at) /\ at.tool.state = "params" /\ p \in Nat /\ Whole(s, p + 3)
        BY <1>4, <2>2
      <4> QED BY ONLY <4>1, FinishCallIs
    <3> QED BY Zenon, <2>1, <3>1
  <2>4. SameText(o, r)
    BY <1>4, <2>3 DEF SameText
  <2> HIDE DEF ends, begins, part
  <2> QED BY <1>4, <1>5, <2>3, <2>4 DEF NextArg, r, p, ends
<1>6. CASE ~ends /\ (part \/ (begins /\ tagEnd = NotFound))
  <2>1. r = at
    <3> HIDE DEF ends, begins, part, r
    <3> QED BY <1>0, <1>6, <1>10
  <2>2. /\ InTool(s, r) /\ SameText(o, r) /\ r.calls = o.calls /\ r.tool.pos = p /\ r = MoveTo(o, p)
        /\ r.tool.state = "params" /\ r.tool.index = o.tool.index /\ r.tool.first = o.tool.first
    <3> HIDE DEF r
    <3> QED BY <1>4, <2>1 DEF at
  <2> HIDE DEF r, ends, begins, part
  <2> QED BY <1>6, <2>2 DEF NextArg, r, p, ends, part, begins, tagEnd
<1>7. CASE ~ends /\ ~part /\ begins /\ tagEnd # NotFound /\ attr # "none"
  <2>1. r = StartArg(at, attr, tagEnd)
    <3> HIDE DEF ends, begins, part, r
    <3> QED BY <1>0, <1>7, <1>10
  <2>2. /\ InTool(s, r) /\ SameText(at, r)
        /\ r.tool.state = "value" /\ r.tool.pos = tagEnd /\ r.tool.index = at.tool.index
        /\ r.tool.str = (attr = "str") /\ ~r.tool.first
        /\ OnlyArgs(at, r, Member(at.tool.first, quote))
    <3>1. attr \in {"str", "raw"}
      BY <1>7, <1>12
    <3> HIDE DEF r
    <3> QED BY <1>4, <1>7, <1>11, <2>1, <3>1, StartArgIs
  <2> HIDE DEF r, quote
  <2>3. SameText(o, r)
    BY <1>4, <2>2 DEF SameText
  <2>4. OnlyArgs(o, r, Member(o.tool.first, quote)) /\ \A i \in 1..o.tool.index : r.calls[i] = o.calls[i]
    BY <1>4, <2>2 DEF OnlyArgs
  <2> HIDE DEF ends, begins, part
  <2> QED BY <1>4, <1>7, <2>2, <2>3, <2>4 DEF NextArg, r, p, ends, begins, part, tagEnd, attr, quote
<1>8. CASE ~ends /\ ~part /\ (begins => tagEnd # NotFound /\ attr = "none")
  <2>1. r = ToolFail(at)
    <3>1. attr = "none" => StartArg(at, attr, tagEnd) = ToolFail(at)
      BY DEF StartArg
    <3> HIDE DEF ends, begins, part, r
    <3> QED BY <1>0, <1>8, <3>1
  <2> HIDE DEF r
  <2>2. /\ InTool(s, r) /\ SameText(at, r) /\ r.calls = at.calls
        /\ r.tool = [at.tool EXCEPT !.state = "error"] /\ r.tool.state = "error"
        /\ r.tool.pos = at.tool.pos
    BY <1>4, <2>1, ToolFailIs
  <2>3. r.tool.index = at.tool.index
    <3>1. at.tool \in ToolT
      BY <1>4 DEF InTool, OutT
    <3> QED BY <2>2, <3>1 DEF ToolT
  <2>4. SameText(o, r)
    BY <1>4, <2>2 DEF SameText
  <2> HIDE DEF ends, begins, part
  <2> QED BY <1>4, <1>8, <2>2, <2>3, <2>4 DEF NextArg, r, p, ends, begins, part, tagEnd, attr
<1> HIDE DEF r, p, tagEnd, attr, at, ends, begins, part, quote, k
<1> QED BY <1>5, <1>6, <1>7, <1>8

\* Within a value: its end marker is there, or what is safe of it is shown.
NextPiece(o, t, n, r) ==
  LET close == FindLit(t, n, o.tool.pos, End("arg"))
      safe == ValueSafeLen(t, o.tool.pos, n, o.tool.str)
      quote == IF o.tool.str THEN <<"q">> ELSE <<>>
  IN  /\ r.tool.index = o.tool.index /\ r.tool.first = o.tool.first
      /\ \/ /\ close # NotFound /\ close \in o.tool.pos..n /\ close + 3 <= n
            /\ r.tool.state = "params" /\ r.tool.pos = close + 3
            /\ OnlyArgs(o, r, ValuePiece(o, t, close) \o quote)
         \/ /\ close = NotFound /\ safe \in o.tool.pos..n
            /\ r.tool.state = "value" /\ r.tool.pos = safe /\ r.tool.str = o.tool.str
            /\ OnlyArgs(o, r, ValuePiece(o, t, safe))

\* and in a value.
LEMMA InValueIs ==
  ASSUME NEW t, NEW s, Begins(t, s), NEW n \in 0..Len(t), NEW o, InTool(s, o),
         o.tool.state = "value", o.tool.pos <= n
  PROVE  LET r == InValue(o, t, n)
         IN  InTool(s, r) /\ SameText(o, r) /\ NextPiece(o, t, n, r)
<1> DEFINE r == InValue(o, t, n)
           close == FindLit(t, n, o.tool.pos, End("arg"))
           safe == ValueSafeLen(t, o.tool.pos, n, o.tool.str)
           quote == IF o.tool.str THEN <<"q">> ELSE <<>>
<1>1. t \in Texts /\ Len(t) \in Nat /\ n \in Nat /\ o \in OutT /\ o.tool \in ToolT
      /\ o.tool.pos \in 0..n /\ o.tool.pos \in Nat /\ o.tool.index \in Nat
  BY LenType DEF Begins, InTool, OutT, ToolT
<1>2. "arg" \in Marks
  BY MarkNames
<1>3. close = NotFound \/ (close \in o.tool.pos..n /\ FullLit(t, n, close, End("arg")))
  BY <1>1, FindLitIs
<1>4. r = IF close # NotFound THEN FinishArg(o, t, close) ELSE ShowValue(o, t, safe)
  BY DEF InValue
<1>5. safe \in o.tool.pos..n /\ (safe <= o.tool.pos \/ Whole(s, safe))
  BY <1>1, ValueSafeLenIs
<1> HIDE DEF close, safe
<1>6. CASE close # NotFound
  <2>1. close \in o.tool.pos..n /\ close \in Nat /\ FullLit(t, n, close, End("arg"))
    BY <1>1, <1>3, <1>6
  <2>2. close + 3 <= n /\ Whole(s, close) /\ Whole(s, close + 3) /\ close \in 0..Len(t)
    BY <1>1, <1>2, <2>1, WholeMarkers
  <2>3. r = FinishArg(o, t, close)
    BY <1>4, <1>6
  <2> HIDE DEF r, quote
  <2>4. /\ InTool(s, r) /\ SameText(o, r)
        /\ r.tool.state = "params" /\ r.tool.pos = close + 3
        /\ r.tool.index = o.tool.index /\ r.tool.first = o.tool.first
        /\ OnlyArgs(o, r, ValuePiece(o, t, close) \o quote)
    BY <1>1, <2>1, <2>2, <2>3, FinishArgIs DEF quote
  <2> QED BY <1>6, <2>1, <2>2, <2>4 DEF NextPiece, r, close, quote
<1>7. CASE close = NotFound
  <2>1. safe \in 0..Len(t) /\ (safe <= o.tool.pos \/ Whole(s, safe)) /\ safe \in Nat
        /\ (safe <= o.tool.pos => safe = o.tool.pos)
    BY <1>1, <1>5
  <2>2. r = ShowValue(o, t, safe)
    BY <1>4, <1>7
  <2> HIDE DEF r, quote
  <2>3. LET p == IF safe <= o.tool.pos THEN o.tool.pos ELSE safe
        IN  /\ InTool(s, r) /\ SameText(o, r)
            /\ r.tool.state = "value" /\ r.tool.pos = p
            /\ r.tool.index = o.tool.index /\ r.tool.str = o.tool.str /\ r.tool.first = o.tool.first
            /\ OnlyArgs(o, r, ValuePiece(o, t, safe))
    BY <2>1, <2>2, ShowValueIs
  <2>4. r.tool.pos = safe
    BY <2>1, <2>3
  <2> QED BY <1>5, <1>7, <2>3, <2>4 DEF NextPiece, r, close, safe
<1> QED BY <1>6, <1>7

\* What a step of the projection of a tool block leaves true.
LEMMA ToolStepKeeps ==
  ASSUME NEW t, NEW s, Begins(t, s), NEW n \in 0..Len(t), NEW o, InTool(s, o),
         ToolActive(o), o.tool.pos <= n
  PROVE  LET r == ToolStep(o, t, n)
         IN  InTool(s, r) /\ SameText(o, r) /\ r.tool.pos <= n
<1> DEFINE r == ToolStep(o, t, n)
<1>0. n \in Nat /\ t \in Texts /\ o.tool.pos \in 0..n
  BY LenType DEF InTool, OutT, ToolT, Begins
<1>1. o.tool.state = "invokes" \/ o.tool.state = "params" \/ o.tool.state = "value"
  BY DEF ToolActive
<1> DEFINE p == SkipWs(t, n, o.tool.pos)
<1>2. p \in 0..n /\ p \in Nat
  <2>1. p \in o.tool.pos..n
    BY <1>0, SkipWsIs
  <2> HIDE DEF p
  <2> QED BY <1>0, <2>1
<1> HIDE DEF p
<1>3. /\ FullLit(t, n, p, End("tools")) => p + 3 <= n
      /\ FullLit(t, n, p, End("call")) => p + 3 <= n
  BY <1>0, <1>2, MarkNames, WholeMarkers
<1>4. TagEnd(t, n, p) # NotFound => TagEnd(t, n, p) <= n
  <2>1. TagEnd(t, n, p) = NotFound \/ TagEnd(t, n, p) \in (p + 1)..n
    BY <1>0, <1>2, TagEndIs
  <2> QED BY <1>0, <1>2, <2>1
<1>5. CASE o.tool.state = "invokes"
  <2>1. r = BetweenCalls(o, t, n)
    BY <1>5 DEF ToolStep
  <2> HIDE DEF r
  <2>2. InTool(s, r) /\ SameText(o, r) /\ NextCall(o, t, n, r)
    BY <1>5, <2>1, BetweenCallsIs
  <2>3. (r.tool.pos = p + 3 /\ FullLit(t, n, p, End("tools"))) \/ r.tool.pos = p
        \/ (r.tool.pos = TagEnd(t, n, p) /\ TagEnd(t, n, p) # NotFound)
    BY <2>2 DEF NextCall, p
  <2> QED BY <1>2, <1>3, <1>4, <2>2, <2>3 DEF r
<1>6. CASE o.tool.state = "params"
  <2>1. r = BetweenArgs(o, t, n)
    BY <1>6 DEF ToolStep
  <2> HIDE DEF r
  <2>2. InTool(s, r) /\ SameText(o, r) /\ NextArg(o, t, n, r)
    BY <1>6, <2>1, BetweenArgsIs
  <2>3. (r.tool.pos = p + 3 /\ FullLit(t, n, p, End("call"))) \/ r.tool.pos = p
        \/ (r.tool.pos = TagEnd(t, n, p) /\ TagEnd(t, n, p) # NotFound)
    BY <2>2 DEF NextArg, p
  <2> QED BY <1>2, <1>3, <1>4, <2>2, <2>3 DEF r
<1>7. CASE o.tool.state = "value"
  <2>1. r = InValue(o, t, n)
    BY <1>7 DEF ToolStep
  <2> HIDE DEF r
  <2>2. InTool(s, r) /\ SameText(o, r) /\ NextPiece(o, t, n, r)
    BY <1>7, <2>1, InValueIs
  <2> DEFINE close == FindLit(t, n, o.tool.pos, End("arg"))
             safe == ValueSafeLen(t, o.tool.pos, n, o.tool.str)
  <2>3. (close + 3 <= n /\ r.tool.pos = close + 3) \/ (r.tool.pos = safe /\ safe \in o.tool.pos..n)
    BY <2>2 DEF NextPiece
  <2> HIDE DEF close, safe
  <2>4. r.tool.pos <= n
    BY <1>0, <2>3
  <2> QED BY <2>2, <2>4 DEF r
<1> QED BY <1>1, <1>5, <1>6, <1>7

-----------------------------------------------------------------------------
(* The rounds of one update.                                               *)

\* f is the first m rounds.
Rounds(o, t, n, m, f) == f = [k \in 0..m |-> IF k = 0 THEN o ELSE ToolRound(f[k - 1], t, n)]

\* Each from the one before.
LEMMA RoundsAt ==
  ASSUME NEW o, NEW t, NEW n, NEW m \in Nat, NEW f, Rounds(o, t, n, m, f)
  PROVE  f[0] = o /\ \A k \in 1..m : f[k] = ToolRound(f[k - 1], t, n)
<1> DEFINE e(k) == IF k = 0 THEN o ELSE ToolRound(f[k - 1], t, n)
<1>1. f = [k \in 0..m |-> e(k)]
  BY DEF Rounds
<1>2. \A k \in 0..m : f[k] = e(k)
  <2> HIDE DEF e
  <2> QED BY <1>1
<1>3. 0 \in 0..m /\ \A k \in 1..m : k \in 0..m /\ k # 0
  OBVIOUS
<1> QED BY <1>2, <1>3

\* There are such rounds.
LEMMA SomeRounds ==
  ASSUME NEW o, NEW t, NEW n, NEW m \in Nat
  PROVE  \E f : Rounds(o, t, n, m, f)
<1> DEFINE N == {k \in Nat : \E f : Rounds(o, t, n, k, f)}
<1>1. 0 \in N
  <2> DEFINE g == [k \in 0..0 |-> o]
  <2>1. g = [k \in 0..0 |-> IF k = 0 THEN o ELSE ToolRound(g[k - 1], t, n)]
    OBVIOUS
  <2>2. Rounds(o, t, n, 0, g)
    BY <2>1 DEF Rounds
  <2> QED BY <2>2
<1>2. ASSUME NEW k \in Nat, k \in N PROVE k + 1 \in N
  <2>1. PICK f : Rounds(o, t, n, k, f)
    BY <1>2
  <2> DEFINE e(i) == IF i = 0 THEN o ELSE ToolRound(f[i - 1], t, n)
             g == [i \in 0..(k + 1) |-> e(i)]
             h(i) == IF i = 0 THEN o ELSE ToolRound(g[i - 1], t, n)
  <2>2. f[0] = o /\ \A i \in 1..k : f[i] = ToolRound(f[i - 1], t, n)
    BY <1>2, <2>1, RoundsAt
  <2>3. \A i \in 0..(k + 1) : g[i] = e(i)
    <3> HIDE DEF e
    <3> QED OBVIOUS
  <2>4. \A i \in 0..k : g[i] = f[i]
    <3> TAKE i \in 0..k
    <3>1. i \in 0..(k + 1) /\ (i = 0 \/ i \in 1..k)
      BY <1>2
    <3> HIDE DEF g
    <3> QED BY <2>2, <2>3, <3>1
  <2>5. \A i \in 0..(k + 1) : g[i] = h(i)
    <3> TAKE i \in 0..(k + 1)
    <3>1. i # 0 => i - 1 \in 0..k
      BY <1>2
    <3> HIDE DEF g
    <3> QED BY <2>3, <2>4, <3>1
  <2>6. g = [i \in 0..(k + 1) |-> h(i)]
    <3>1. g = [i \in 0..(k + 1) |-> g[i]]
      <4> HIDE DEF e
      <4> QED OBVIOUS
    <3> HIDE DEF h, g
    <3> QED BY <2>5, <3>1
  <2>7. Rounds(o, t, n, k + 1, g)
    BY <2>6 DEF Rounds
  <2> HIDE DEF g
  <2> QED BY <1>2, <2>7
<1>3. Nat \subseteq N
  <2> HIDE DEF N
  <2> QED BY <1>1, <1>2, EveryNumber
<1> QED BY <1>3

\* An update is the last.
LEMMA ToolUpdateIs ==
  ASSUME NEW o, NEW t, NEW n \in Nat
  PROVE  \E f : Rounds(o, t, n, n + 2, f) /\ ToolUpdate(o, t, n) = f[n + 2]
<1> DEFINE f == CHOOSE f : f = [k \in 0..(n + 2) |->
                                  IF k = 0 THEN o ELSE ToolRound(f[k - 1], t, n)]
<1>1. \E g : g = [k \in 0..(n + 2) |-> IF k = 0 THEN o ELSE ToolRound(g[k - 1], t, n)]
  <2>1. n + 2 \in Nat
    OBVIOUS
  <2>2. \E g : Rounds(o, t, n, n + 2, g)
    BY <2>1, SomeRounds
  <2> QED BY <2>2 DEF Rounds
<1>2. f = [k \in 0..(n + 2) |-> IF k = 0 THEN o ELSE ToolRound(f[k - 1], t, n)]
  BY <1>1
<1>3. ToolUpdate(o, t, n) = f[n + 2]
  BY DEF ToolUpdate
<1> HIDE DEF f
<1> QED BY <1>2, <1>3 DEF Rounds

\* What every round keeps, the update keeps.
LEMMA ToolUpdateIn ==
  ASSUME NEW S, NEW o \in S, NEW t, NEW n \in Nat,
         \A x \in S : ToolRound(x, t, n) \in S
  PROVE  ToolUpdate(o, t, n) \in S
<1>1. PICK f : Rounds(o, t, n, n + 2, f) /\ ToolUpdate(o, t, n) = f[n + 2]
  BY ToolUpdateIs
<1>2. f[0] = o /\ \A k \in 1..(n + 2) : f[k] = ToolRound(f[k - 1], t, n)
  <2>1. n + 2 \in Nat
    OBVIOUS
  <2> QED BY <1>1, <2>1, RoundsAt
<1> DEFINE N == {k \in Nat : k <= n + 2 => f[k] \in S}
<1>3. 0 \in N
  BY <1>2
<1>4. ASSUME NEW k \in Nat, k \in N PROVE k + 1 \in N
  <2> SUFFICES ASSUME k + 1 <= n + 2 PROVE f[k + 1] \in S
    OBVIOUS
  <2>1. k + 1 \in 1..(n + 2) /\ (k + 1) - 1 = k /\ f[k] \in S
    BY <1>4
  <2> QED BY <1>2, <2>1
<1>5. Nat \subseteq N
  <2> HIDE DEF N
  <2> QED BY <1>3, <1>4, EveryNumber
<1> QED BY <1>1, <1>5

\* Each keeps what holds in a block.
LEMMA ToolRoundKeeps ==
  ASSUME NEW t, NEW s, Begins(t, s), NEW n \in 0..Len(t), NEW o, InTool(s, o)
  PROVE  LET r == ToolRound(o, t, n)
         IN  InTool(s, r) /\ SameText(o, r) /\ (o.tool.pos <= n => r.tool.pos <= n)
             /\ (o.tool.pos > n => r = o)
<1>1. n \in Nat /\ o.tool.pos \in Nat
  BY LenType DEF Begins, InTool, OutT, ToolT
<1>2. CASE ToolActive(o) /\ o.tool.pos < n
  <2>1. o.tool.pos <= n
    BY <1>1, <1>2
  <2> QED BY <1>1, <1>2, <2>1, ToolStepKeeps DEF ToolRound
<1>3. CASE ~(ToolActive(o) /\ o.tool.pos < n)
  <2>1. ToolRound(o, t, n) = o
    BY <1>3 DEF ToolRound
  <2> QED BY <1>1, <2>1 DEF SameText
<1> QED BY <1>2, <1>3

\* An update of a tool block touches nothing else and stays within what may be looked at.
LEMMA ToolUpdateKeeps ==
  ASSUME NEW t, NEW s, Begins(t, s), NEW n \in 0..Len(t), NEW o, InTool(s, o)
  PROVE  LET r == ToolUpdate(o, t, n)
         IN  InTool(s, r) /\ SameText(o, r) /\ (o.tool.pos <= n => r.tool.pos <= n)
             /\ (o.tool.pos > n => r = o)
<1> DEFINE S == {x \in OutT : /\ InTool(s, x) /\ SameText(o, x)
                              /\ (o.tool.pos <= n => x.tool.pos <= n)
                              /\ (o.tool.pos > n => x = o)}
<1>1. n \in Nat
  BY LenType DEF Begins
<1>2. o \in S
  BY DEF SameText, InTool
<1>3. ASSUME NEW x \in S PROVE ToolRound(x, t, n) \in S
  <2>1. InTool(s, x) /\ SameText(o, x) /\ (o.tool.pos <= n => x.tool.pos <= n)
        /\ (o.tool.pos > n => x = o)
    BY <1>3
  <2> DEFINE r == ToolRound(x, t, n)
  <2>2. /\ InTool(s, r) /\ SameText(x, r) /\ (x.tool.pos <= n => r.tool.pos <= n)
        /\ (x.tool.pos > n => r = x)
    BY <2>1, ToolRoundKeeps
  <2> HIDE DEF r
  <2>3. SameText(o, r) /\ r \in OutT
    BY <2>1, <2>2 DEF SameText, InTool
  <2>4. (o.tool.pos <= n => r.tool.pos <= n) /\ (o.tool.pos > n => r = o)
    BY <2>1, <2>2
  <2> QED BY <2>2, <2>3, <2>4 DEF r
<1>4. ToolUpdate(o, t, n) \in S
  <2> HIDE DEF S
  <2> QED BY <1>1, <1>2, <1>3, ToolUpdateIn
<1> QED BY <1>4

-----------------------------------------------------------------------------
(* The projection as a whole.                                              *)

\* No call is shown.
NoTool(o) == o.tool = ToolIdle /\ o.calls = <<>>

\* What has been sent so far, of the text s of which m atoms could be looked at.
Fits(s, m, o) ==
  /\ o \in OutT /\ o.ok /\ ~o.split /\ o.legal /\ ~o.stopped
  /\ o.pos <= m /\ o.tool.pos <= m /\ Whole(s, o.pos) /\ Whole(s, o.tool.pos)
  /\ req.api # "anthropic" => o.block = "none"
  /\ o.mode \in {"thinking", "text", "tool", "suppress"}
  /\ o.mode = "thinking" => /\ NoTool(o) /\ o.block \in {"none", "reasoning"}
                            /\ o.checked \/ o.pos = 0
  /\ o.mode = "text" => NoTool(o) /\ o.block \in {"none", "content"}
  /\ o.mode = "tool" => InTool(s, o) /\ ToolActive(o)
  /\ o.mode = "suppress" =>
       (NoTool(o) /\ o.block = "none") \/ (InTool(s, o) /\ ~ToolActive(o))

\* The text t, a beginning of s, of which n atoms may be looked at: all of it at the last look.
Looks(s, t, n, last) ==
  /\ Begins(t, s) /\ n \in 0..Len(t)
  /\ last \in BOOLEAN /\ (last => s = t /\ n = Len(t))

\* The first m atoms hold what may be looked at, and the markers that are whole.
Within(t, n, m) ==
  /\ m \in n..Len(t)
  /\ \A p \in Nat : FullLit(t, Len(t), p, End("think")) => p + 3 <= m
  /\ \A p \in Nat : FullLit(t, Len(t), p, Start("tools")) => p + 2 <= m

\* What a delta of reasoning or content leaves as it is.
SameTool(o, r) ==
  /\ r.mode = o.mode /\ r.checked = o.checked /\ r.calls = o.calls /\ r.tool = o.tool
  /\ r.legal = o.legal /\ r.stopped = o.stopped /\ r.ok = o.ok

\* From a whole place none is split at the start.
LEMMA NoSplitFrom ==
  ASSUME NEW t, NEW s, Begins(t, s), NEW from \in Nat, NEW to \in 0..Len(t), Whole(s, from)
  PROVE  ~Splits(t, from, to)
<1>1. SUFFICES ASSUME from > 0, from < to, t[from] = "u1", t[from + 1] = "u2" PROVE FALSE
  BY DEF Splits
<1>2. from \in 1..Len(t) /\ from + 1 \in 1..Len(t) /\ from < Len(s)
  BY <1>1, LenType DEF Begins
<1>3. s[from] = "u1" /\ s[from + 1] = "u2"
  BY <1>1, <1>2 DEF Begins
<1> QED BY <1>1, <1>2, <1>3 DEF Whole

\* What a delta adds.
More(t, from, to) == IF to <= from THEN <<>> ELSE Cut(t, from, to)
\* More is added.
Adds(before, after, more) == after = before \o more

\* Reasoning is shown.
LEMMA ShowReasoningIs ==
  ASSUME NEW t, NEW s, Begins(t, s), NEW o \in OutT, o.ok, ~o.split, Whole(s, o.pos),
         req.api # "anthropic" => o.block = "none", o.block \in {"none", "reasoning"},
         NEW to \in 0..Len(t)
  PROVE  LET r == Show(o, t, "reasoning", to)
         IN  /\ r \in OutT /\ SameTool(o, r) /\ ~r.split
             /\ r.pos = (IF to <= o.pos THEN o.pos ELSE to)
             /\ r.block \in {"none", "reasoning"} /\ (req.api # "anthropic" => r.block = "none")
             /\ r.content = o.content /\ Adds(o.reasoning, r.reasoning, More(t, o.pos, to))
<1> DEFINE r == Show(o, t, "reasoning", to)
           b == IF req.api = "anthropic" THEN "reasoning" ELSE "none"
           cut == Cut(t, o.pos, to)
<1>1. t \in Texts /\ Len(t) \in Nat /\ o.pos \in Nat /\ to \in Nat /\ o.reasoning \in Seq(Atom)
  BY LenType DEF Begins, OutT, Texts
<1>2. OpenBlock(o, "reasoning") = [o EXCEPT !.block = b] /\ b \in {"none", "reasoning"}
  BY OpenBlockIs
<1>3. CASE to <= o.pos
  <2>1. r = o
    BY <1>3 DEF Show
  <2>2. o.reasoning \o <<>> = o.reasoning
    BY <1>1, ConcatEmptySeq
  <2> QED BY <1>3, <2>1, <2>2 DEF SameTool, More, Adds
<1>4. CASE ~(to <= o.pos)
  <2>1. cut \in Texts
    <3>1. o.pos <= to
      BY <1>1, <1>4
    <3> QED BY ONLY <1>1, <3>1, CutIs
  <2>2. ~Splits(t, o.pos, to)
    BY <1>1, NoSplitFrom
  <2>3. o.reasoning \o cut \in Texts
    <3> HIDE DEF cut
    <3> QED BY <1>1, <2>1, ConcatProperties DEF Texts
  <2>4. (o.split \/ Splits(t, o.pos, to)) = FALSE
    BY <2>2
  <2>5. r = [[o EXCEPT !.block = b] EXCEPT !.reasoning = @ \o cut, !.pos = to,
                                           !.split = @ \/ Splits(t, o.pos, to)]
    BY <1>2, <1>4 DEF Show, OutT
  <2> HIDE DEF b, cut
  <2>6. r = [o EXCEPT !.block = b, !.reasoning = o.reasoning \o cut, !.pos = to, !.split = FALSE]
    BY <2>4, <2>5 DEF OutT
  <2> HIDE DEF r
  <2>7. /\ r \in OutT /\ SameTool(o, r) /\ ~r.split /\ r.pos = to /\ r.block = b
        /\ r.content = o.content /\ r.reasoning = o.reasoning \o cut
    <3> DEFINE more == o.reasoning \o cut
    <3>1. more \in Texts
      BY <2>3
    <3> HIDE DEF more
    <3>2. r = [o EXCEPT !.block = b, !.reasoning = more, !.pos = to, !.split = FALSE]
      BY <2>6 DEF more
    <3>3. /\ r \in OutT /\ SameTool(o, r) /\ ~r.split /\ r.pos = to /\ r.block = b
          /\ r.content = o.content /\ r.reasoning = more
      BY <1>1, <1>2, <3>1, <3>2 DEF OutT, SameTool
    <3> QED BY <3>3 DEF more
  <2>8. req.api # "anthropic" => b = "none"
    BY DEF b
  <2> QED BY <1>2, <1>4, <2>7, <2>8 DEF r, cut, More, Adds
<1> QED BY <1>3, <1>4

\* Content is shown.
LEMMA ShowContentIs ==
  ASSUME NEW t, NEW s, Begins(t, s), NEW o \in OutT, o.ok, ~o.split, Whole(s, o.pos),
         req.api # "anthropic" => o.block = "none", o.block \in {"none", "content"},
         NEW to \in 0..Len(t)
  PROVE  LET r == Show(o, t, "content", to)
         IN  /\ r \in OutT /\ SameTool(o, r) /\ ~r.split
             /\ r.pos = (IF to <= o.pos THEN o.pos ELSE to)
             /\ r.block \in {"none", "content"} /\ (req.api # "anthropic" => r.block = "none")
             /\ r.reasoning = o.reasoning /\ Adds(o.content, r.content, More(t, o.pos, to))
<1> DEFINE r == Show(o, t, "content", to)
           b == IF req.api = "anthropic" THEN "content" ELSE "none"
           cut == Cut(t, o.pos, to)
<1>1. t \in Texts /\ Len(t) \in Nat /\ o.pos \in Nat /\ to \in Nat /\ o.content \in Seq(Atom)
  BY LenType DEF Begins, OutT, Texts
<1>2. OpenBlock(o, "content") = [o EXCEPT !.block = b] /\ b \in {"none", "content"}
  BY OpenBlockIs
<1>3. CASE to <= o.pos
  <2>1. r = o
    BY <1>3 DEF Show
  <2>2. o.content \o <<>> = o.content
    BY <1>1, ConcatEmptySeq
  <2> QED BY <1>3, <2>1, <2>2 DEF SameTool, More, Adds
<1>4. CASE ~(to <= o.pos)
  <2>1. cut \in Texts
    <3>1. o.pos <= to
      BY <1>1, <1>4
    <3> QED BY ONLY <1>1, <3>1, CutIs
  <2>2. ~Splits(t, o.pos, to)
    BY <1>1, NoSplitFrom
  <2>3. o.content \o cut \in Texts
    <3> HIDE DEF cut
    <3> QED BY <1>1, <2>1, ConcatProperties DEF Texts
  <2>4. (o.split \/ Splits(t, o.pos, to)) = FALSE
    BY <2>2
  <2>5. r = [[o EXCEPT !.block = b] EXCEPT !.content = @ \o cut, !.pos = to,
                                           !.split = @ \/ Splits(t, o.pos, to)]
    BY <1>2, <1>4 DEF Show, OutT
  <2> HIDE DEF b, cut
  <2>6. r = [o EXCEPT !.block = b, !.content = o.content \o cut, !.pos = to, !.split = FALSE]
    BY <2>4, <2>5 DEF OutT
  <2> HIDE DEF r
  <2>7. /\ r \in OutT /\ SameTool(o, r) /\ ~r.split /\ r.pos = to /\ r.block = b
        /\ r.reasoning = o.reasoning /\ r.content = o.content \o cut
    <3> DEFINE more == o.content \o cut
    <3>1. more \in Texts
      BY <2>3
    <3> HIDE DEF more
    <3>2. r = [o EXCEPT !.block = b, !.content = more, !.pos = to, !.split = FALSE]
      BY <2>6 DEF more
    <3>3. /\ r \in OutT /\ SameTool(o, r) /\ ~r.split /\ r.pos = to /\ r.block = b
          /\ r.reasoning = o.reasoning /\ r.content = more
      BY <1>1, <1>2, <3>1, <3>2 DEF OutT, SameTool
    <3> QED BY <3>3 DEF more
  <2>8. req.api # "anthropic" => b = "none"
    BY DEF b
  <2> QED BY <1>2, <1>4, <2>7, <2>8 DEF r, cut, More, Adds
<1> QED BY <1>3, <1>4

\* The skipping of a repeated think marker.
LEMMA CheckIs ==
  ASSUME NEW s, NEW t, NEW n, NEW last, Looks(s, t, n, last), NEW m, Within(t, n, m),
         NEW o, Fits(s, m, o), o.mode = "thinking"
  PROVE  LET r == CheckThinkPrefix(o, t, n, last)
             skip == FullLit(t, n, 0, Start("think"))
             waits == ~last /\ PartialLit(t, n, 0, Start("think"), 0)
         IN  /\ Fits(s, m, r) /\ r.mode = "thinking" /\ r.reasoning = o.reasoning
             /\ r.content = o.content
             /\ \/ (o.checked \/ waits) /\ r = o
                \/ /\ ~o.checked /\ ~waits /\ r.checked
                   /\ r.pos = IF skip THEN 2 ELSE o.pos
<1> DEFINE r == CheckThinkPrefix(o, t, n, last)
           skip == FullLit(t, n, 0, Start("think"))
           waits == ~last /\ PartialLit(t, n, 0, Start("think"), 0)
           p == IF skip THEN 2 ELSE o.pos
<1>1. r = CASE o.checked -> o
            [] ~o.checked /\ waits -> o
            [] OTHER -> [o EXCEPT !.checked = TRUE, !.pos = p]
  BY Zenon DEF CheckThinkPrefix
<1>2. t \in Texts /\ Len(t) \in Nat /\ n \in 0..Len(t) /\ n \in Nat /\ Begins(t, s) /\ o.pos \in Nat
      /\ m \in n..Len(t) /\ o \in OutT
  BY LenType DEF Looks, Begins, Fits, OutT, Within
<1>3. skip => 2 <= n /\ Whole(s, 2)
  <2>1. "think" \in Marks /\ 0 \in Nat /\ 0 + 2 = 2
    BY MarkNames
  <2> QED BY <1>2, <2>1, WholeMarkers
<1> HIDE DEF skip, waits
<1>4. CASE o.checked \/ waits
  <2>1. r = o
    <3> HIDE DEF r, p
    <3> QED BY <1>1, <1>4
  <2> HIDE DEF r
  <2> QED BY <1>4, <2>1 DEF r, waits
<1>5. CASE ~o.checked /\ ~waits
  <2>1. r = [o EXCEPT !.checked = TRUE, !.pos = p]
    <3> HIDE DEF r, p
    <3> QED BY <1>1, <1>5
  <2>2. p \in Nat /\ p <= m /\ Whole(s, p)
    BY <1>2, <1>3 DEF Fits
  <2> HIDE DEF r, p
  <2>3. /\ r \in OutT /\ r.mode = "thinking" /\ r.reasoning = o.reasoning /\ r.content = o.content
        /\ r.checked /\ r.pos = p /\ r.tool = o.tool /\ r.calls = o.calls /\ r.block = o.block
        /\ r.ok = o.ok /\ r.split = o.split /\ r.legal = o.legal /\ r.stopped = o.stopped
    BY <1>2, <2>1, <2>2 DEF OutT
  <2>4. Fits(s, m, r)
    BY <2>2, <2>3 DEF Fits, NoTool
  <2> QED BY <1>5, <2>3, <2>4 DEF r, p, skip, waits
<1> QED BY <1>4, <1>5

\* Leaving a mode for another closes the block.
Leave(o, p, mode) == [CloseBlock(o) EXCEPT !.pos = p, !.mode = mode]

\* A mode is left.
LEMMA LeaveIs ==
  ASSUME NEW o \in OutT, NEW p \in Nat, NEW mode \in {"text", "tool", "suppress"}
  PROVE  LET r == Leave(o, p, mode)
         IN  /\ r \in OutT /\ r.mode = mode /\ r.pos = p /\ r.block = "none"
             /\ r.checked = o.checked /\ r.ok = o.ok /\ r.reasoning = o.reasoning
             /\ r.content = o.content /\ r.calls = o.calls /\ r.tool = o.tool
             /\ r.legal = o.legal /\ r.split = o.split /\ r.stopped = o.stopped
BY DEF Leave, CloseBlock, OutT

\* The reasoning goes on, or ends at its marker or with the text.
LEMMA ThinkingIs ==
  ASSUME NEW s, NEW t, NEW n, NEW last, Looks(s, t, n, last), NEW m, Within(t, n, m),
         NEW o, Fits(s, m, o), o.mode = "thinking", o.checked
  PROVE  LET r == Thinking(o, t, n, last)
             close == FindLit(t, Len(t), o.pos, End("think"))
             limit == IF close # NotFound THEN close ELSE IF last THEN n ELSE HoldThink(o, t, n)
             pos == IF limit <= o.pos THEN o.pos ELSE limit
         IN  /\ Fits(s, m, r) /\ limit \in 0..m
             /\ Adds(o.reasoning, r.reasoning, More(t, o.pos, limit)) /\ r.content = o.content
             /\ r.checked
             /\ \/ close # NotFound /\ r.mode = "text" /\ r.pos = close + 3
                \/ close = NotFound /\ last /\ r.mode = "suppress" /\ r.pos = pos /\ NoTool(r)
                \/ close = NotFound /\ ~last /\ r.mode = "thinking" /\ r.pos = pos
<1> DEFINE r == Thinking(o, t, n, last)
           close == FindLit(t, Len(t), o.pos, End("think"))
           limit == IF close # NotFound THEN close ELSE IF last THEN n ELSE HoldThink(o, t, n)
           pos == IF limit <= o.pos THEN o.pos ELSE limit
           shown == Show(o, t, "reasoning", limit)
<1>1. /\ t \in Texts /\ Len(t) \in Nat /\ n \in 0..Len(t) /\ n \in Nat /\ Begins(t, s)
      /\ o.pos \in Nat /\ m \in n..Len(t) /\ m \in Nat /\ o \in OutT /\ o.pos <= m /\ o.ok /\ ~o.split
      /\ Whole(s, o.pos) /\ NoTool(o) /\ o.block \in {"none", "reasoning"}
      /\ (req.api # "anthropic" => o.block = "none") /\ Whole(s, o.tool.pos) /\ o.tool.pos <= m
      /\ o.legal /\ ~o.stopped
  BY LenType DEF Looks, Begins, Fits, OutT, Within
<1>2. "think" \in Marks
  BY MarkNames
<1>3. close # NotFound => /\ close \in Nat /\ close + 3 <= m
                          /\ Whole(s, close) /\ Whole(s, close + 3)
  <2> SUFFICES ASSUME close # NotFound
               PROVE  /\ close \in Nat /\ close + 3 <= m
                      /\ Whole(s, close) /\ Whole(s, close + 3)
    OBVIOUS
  <2>1. close \in o.pos..Len(t) /\ FullLit(t, Len(t), close, End("think"))
    BY <1>1, FindLitIs
  <2> HIDE DEF close
  <2>2. close \in Nat /\ Len(t) \in 0..Len(t)
    BY <1>1, <2>1
  <2> QED BY <1>1, <1>2, <2>1, <2>2, WholeMarkers DEF Within
<1>4. limit \in 0..m /\ (limit <= o.pos \/ Whole(s, limit))
  <2>1. CASE close # NotFound
    <3> HIDE DEF close
    <3> QED BY <1>1, <1>3, <2>1
  <2>2. CASE close = NotFound /\ last
    <3>1. Whole(s, n)
      BY <1>1, <2>2 DEF Looks, Whole
    <3> HIDE DEF close
    <3> QED BY <1>1, <2>2, <3>1
  <2>3. CASE close = NotFound /\ ~last
    <3> DEFINE lim == IF n > 2 THEN n - 2 ELSE o.pos
    <3>1. lim \in 0..Len(t) /\ lim <= m
      BY <1>1
    <3>2. limit = Utf8SafeLen(t, o.pos, lim)
      BY <2>3 DEF HoldThink
    <3> HIDE DEF lim, limit
    <3>3. limit \in 0..lim /\ (limit <= o.pos \/ Whole(s, limit))
      BY <1>1, <3>1, <3>2, Utf8SafeLenIs
    <3> QED BY <1>1, <3>1, <3>3
  <2> QED BY <2>1, <2>2, <2>3
<1> HIDE DEF close, limit
<1>5. /\ shown \in OutT /\ SameTool(o, shown) /\ ~shown.split /\ shown.pos = pos
      /\ shown.block \in {"none", "reasoning"} /\ (req.api # "anthropic" => shown.block = "none")
      /\ shown.content = o.content /\ Adds(o.reasoning, shown.reasoning, More(t, o.pos, limit))
  <2>1. /\ limit \in 0..Len(t) /\ Begins(t, s) /\ o \in OutT /\ o.ok /\ ~o.split
        /\ Whole(s, o.pos) /\ o.block \in {"none", "reasoning"}
        /\ (req.api # "anthropic" => o.block = "none")
    BY <1>1, <1>4
  <2> QED BY ONLY <2>1, ShowReasoningIs
<1> HIDE DEF shown
<1>6. /\ shown.mode = "thinking" /\ shown.checked /\ NoTool(shown) /\ shown.legal /\ ~shown.stopped
      /\ shown.ok /\ shown.tool = o.tool
  BY <1>1, <1>5 DEF SameTool, NoTool
<1>7. pos \in Nat /\ pos <= m /\ Whole(s, pos)
  BY <1>1, <1>4
<1> HIDE DEF pos
<1>8. r = CASE ~o.checked \/ ~shown.ok -> shown
            [] o.checked /\ shown.ok /\ close # NotFound -> Leave(shown, close + 3, "text")
            [] o.checked /\ shown.ok /\ close = NotFound /\ last ->
                 [CloseBlock(shown) EXCEPT !.mode = "suppress"]
            [] OTHER -> shown
  BY Zenon DEF Thinking, Leave, close, limit, shown
<1> HIDE DEF r
<1>9. CASE close # NotFound
  <2> DEFINE after == close + 3
  <2>1. r = Leave(shown, after, "text") /\ shown \in OutT
    BY <1>5, <1>6, <1>8, <1>9
  <2>2. after \in Nat
    BY <1>3, <1>9
  <2>5. after = close + 3
    OBVIOUS
  <2> HIDE DEF after
  <2>3. /\ r \in OutT /\ r.mode = "text" /\ r.pos = after /\ r.block = "none"
        /\ r.checked = shown.checked /\ r.ok = shown.ok /\ r.reasoning = shown.reasoning
        /\ r.content = shown.content /\ r.calls = shown.calls /\ r.tool = shown.tool
        /\ r.legal = shown.legal /\ r.split = shown.split /\ r.stopped = shown.stopped
    BY ONLY <2>1, <2>2, LeaveIs
  <2>4. Fits(s, m, r)
    BY <1>1, <1>3, <1>5, <1>6, <1>9, <2>3, <2>5 DEF Fits, NoTool
  <2> QED BY <1>4, <1>5, <1>6, <1>9, <2>3, <2>4, <2>5 DEF r, close, limit
<1>10. CASE close = NotFound /\ last
  <2>1. r = Leave(shown, pos, "suppress")
    <3>1. r = [CloseBlock(shown) EXCEPT !.mode = "suppress"]
      BY <1>6, <1>8, <1>10
    <3>2. [CloseBlock(shown) EXCEPT !.mode = "suppress"] = Leave(shown, pos, "suppress")
      BY <1>5 DEF CloseBlock, Leave, OutT
    <3> QED BY <3>1, <3>2
  <2>3. /\ r \in OutT /\ r.mode = "suppress" /\ r.pos = pos /\ r.block = "none"
        /\ r.checked = shown.checked /\ r.ok = shown.ok /\ r.reasoning = shown.reasoning
        /\ r.content = shown.content /\ r.calls = shown.calls /\ r.tool = shown.tool
        /\ r.legal = shown.legal /\ r.split = shown.split /\ r.stopped = shown.stopped
    <3>1. shown \in OutT /\ pos \in Nat /\ "suppress" \in {"text", "tool", "suppress"}
      BY <1>5, <1>7
    <3> QED BY ONLY <2>1, <3>1, LeaveIs
  <2>4. Fits(s, m, r) /\ NoTool(r)
    BY <1>1, <1>5, <1>6, <1>7, <2>3 DEF Fits, NoTool
  <2> QED BY <1>4, <1>5, <1>6, <1>10, <2>3, <2>4 DEF r, close, limit, pos
<1>11. CASE close = NotFound /\ ~last
  <2>1. r = shown
    BY <1>6, <1>8, <1>11
  <2>4. Fits(s, m, shown)
    BY <1>1, <1>5, <1>6, <1>7 DEF Fits, NoTool
  <2> QED BY <1>4, <1>5, <1>6, <1>11, <2>1, <2>4 DEF r, close, limit, pos
<1> QED BY <1>9, <1>10, <1>11

\* Content is held short of what may become a tool block.
LEMMA TextSafeLimitIs ==
  ASSUME NEW s, NEW t, NEW n, NEW last, Looks(s, t, n, last), NEW m, Within(t, n, m),
         NEW start \in Nat, start <= m, NEW tools \in BOOLEAN
  PROVE  LET r == TextSafeLimit(t, start, n, tools, last)
             tool == FindLit(t, Len(t), start, Start("tools"))
         IN  /\ r \in 0..m
             /\ r <= start \/ Whole(s, r)
             /\ n <= start => r = n
             /\ n > start /\ tools /\ tool # NotFound => r = TrimWs(t, start, tool)
             /\ n > start /\ tools /\ tool = NotFound /\ ~last => r <= HoldMarker(t, start, n)
             /\ n > start /\ last /\ (tools => tool = NotFound) => r = n
<1> DEFINE r == TextSafeLimit(t, start, n, tools, last)
           tool == FindLit(t, Len(t), start, Start("tools"))
           hold == HoldMarker(t, start, n)
<1>1. /\ t \in Texts /\ Len(t) \in Nat /\ n \in 0..Len(t) /\ n \in Nat /\ Begins(t, s)
      /\ m \in n..Len(t) /\ m \in Nat /\ last \in BOOLEAN /\ (last => Whole(s, n))
  BY LenType DEF Looks, Begins, Within, Whole
<1> DEFINE a == n <= start
           b == n > start /\ tools /\ tool # NotFound
           c == n > start /\ tools /\ tool = NotFound /\ ~last
           d == n > start /\ ~tools /\ ~last
<1>2. /\ a => r = n
      /\ b => r = TrimWs(t, start, tool)
      /\ c => r = Utf8SafeLen(t, start, hold)
      /\ d => r = Utf8SafeLen(t, start, n)
      /\ ~a /\ ~b /\ ~c /\ ~d => r = n
  <2>1. r = CASE a -> n [] b -> TrimWs(t, start, tool) [] c -> Utf8SafeLen(t, start, hold)
              [] d -> Utf8SafeLen(t, start, n) [] OTHER -> n
    BY Zenon DEF TextSafeLimit
  <2>2. /\ a => ~b /\ ~c /\ ~d
        /\ b => ~c /\ ~d
        /\ c => ~d
    <3> HIDE DEF tool
    <3> QED BY <1>1
  <2> DEFINE u == TrimWs(t, start, tool)
             v == Utf8SafeLen(t, start, hold)
             w == Utf8SafeLen(t, start, n)
  <2> HIDE DEF r, a, b, c, d, u, v, w
  <2>3. /\ a => r = n
        /\ b => r = u
        /\ c => r = v
        /\ d => r = w
        /\ ~a /\ ~b /\ ~c /\ ~d => r = n
    <3>1. r = CASE a -> n [] b -> u [] c -> v [] d -> w [] OTHER -> n
      BY Zenon, <2>1 DEF u, v, w
    <3> QED BY <2>2, <3>1
  <2> QED BY Zenon, <2>3 DEF u, v, w
<1>3. tool = NotFound \/ (tool \in start..Len(t) /\ FullLit(t, Len(t), tool, Start("tools")))
  BY <1>1, FindLitIs
<1>4. "tools" \in Marks
  BY MarkNames
<1> HIDE DEF r, tool, hold, a, b, c, d
<1>5. ASSUME a PROVE r \in 0..m /\ (r <= start \/ Whole(s, r))
  BY <1>1, <1>2, <1>5 DEF a
<1>6. ASSUME b PROVE r \in 0..m /\ (r <= start \/ Whole(s, r))
  <2> DEFINE q == TrimWs(t, start, tool)
  <2>1. r = q
    BY <1>2, <1>6
  <2>2. tool \in Nat /\ start <= tool /\ FullLit(t, Len(t), tool, Start("tools")) /\ tool <= Len(t)
    BY <1>1, <1>3, <1>6 DEF b
  <2>3. tool + 2 <= m /\ t[tool + 1] = "<" /\ tool + 2 <= Len(t)
    BY <1>1, <1>4, <2>2, FullStart DEF Within
  <2>4. q \in start..tool /\ (q = start \/ t[q] # "w") /\ \A i \in (q + 1)..tool : t[i] = "w"
    BY <2>2, TrimWsIs
  <2> HIDE DEF q
  <2>5. t[q + 1] # "u2" /\ q < Len(t) /\ q \in Nat
    <3>1. CASE q = tool
      BY <1>1, <2>2, <2>3, <3>1
    <3>2. CASE q # tool
      <4>1. q + 1 \in (q + 1)..tool
        BY <2>2, <2>4, <3>2
      <4> QED BY <1>1, <2>2, <2>3, <2>4, <4>1
    <3> QED BY <3>1, <3>2
  <2>6. Whole(s, q)
    BY <1>1, <2>5, WholeAt
  <2> QED BY <1>1, <2>1, <2>2, <2>3, <2>4, <2>6
<1>7. c => r \in 0..m /\ (r <= start \/ Whole(s, r)) /\ r <= hold
  <2> SUFFICES ASSUME c PROVE r \in 0..m /\ (r <= start \/ Whole(s, r)) /\ r <= hold
    OBVIOUS
  <2>1. r = Utf8SafeLen(t, start, hold)
    BY <1>2
  <2>2. hold \in start..n
    BY <1>1, HoldMarkerIs DEF hold, c
  <2>3. hold \in 0..Len(t)
    BY <1>1, <2>2
  <2>4. r \in 0..hold /\ (r <= start \/ Whole(s, r))
    BY <1>1, <2>1, <2>3, Utf8SafeLenIs
  <2> QED BY <1>1, <2>2, <2>4
<1>8. ASSUME d PROVE r \in 0..m /\ (r <= start \/ Whole(s, r))
  <2>1. r = Utf8SafeLen(t, start, n)
    BY <1>2, <1>8
  <2>2. r \in 0..n /\ (r <= start \/ Whole(s, r))
    BY <1>1, <2>1, Utf8SafeLenIs
  <2> QED BY <1>1, <2>2
<1>9. ASSUME ~a /\ ~b /\ ~c /\ ~d PROVE r \in 0..m /\ (r <= start \/ Whole(s, r))
  <2>1. r = n /\ last
    BY <1>1, <1>2, <1>9 DEF a, b, c, d
  <2> QED BY <1>1, <2>1
<1>10. n > start /\ last /\ (tools => tool = NotFound) => ~a /\ ~b /\ ~c /\ ~d
  BY <1>1 DEF a, b, c, d
<1>11. r \in 0..m /\ (r <= start \/ Whole(s, r))
  BY <1>5, <1>6, <1>7, <1>8, <1>9
<1>12. /\ a => r = n
       /\ b => r = TrimWs(t, start, tool)
       /\ c => r <= hold
       /\ n > start /\ last /\ (tools => tool = NotFound) => r = n
  BY <1>2, <1>7, <1>10
<1> QED BY <1>11, <1>12 DEF r, tool, hold, a, b, c

\* A tool block begins.
Enter(o, p) == [Leave(o, p, "tool") EXCEPT !.tool = ToolInit(p + 2)]

\* No block yet.
LEMMA ToolIdleIs ==
  /\ ToolIdle \in ToolT /\ ToolIdle.state = "none" /\ ToolIdle.pos = 0 /\ ToolIdle.index = 0
  /\ ~ToolIdle.emitted /\ ToolIdle.first /\ ~ToolIdle.str
BY DEF ToolIdle, ToolT

\* A block at its start.
LEMMA ToolInitIs ==
  ASSUME NEW p \in Nat
  PROVE  LET tl == ToolInit(p)
         IN  /\ tl \in ToolT /\ tl.state = "invokes" /\ tl.pos = p /\ tl.index = 0
             /\ ~tl.emitted /\ tl.first
<1> DEFINE tl == ToolInit(p)
<1>1. tl = [ToolIdle EXCEPT !.state = "invokes", !.pos = p]
  BY DEF ToolInit
<1> HIDE DEF tl
<1>2. /\ tl \in ToolT /\ tl.state = "invokes" /\ tl.pos = p /\ tl.index = 0
      /\ ~tl.emitted /\ tl.first
  BY <1>1, ToolIdleIs DEF ToolT
<1> QED BY <1>2 DEF tl

\* A block is entered.
LEMMA EnterIs ==
  ASSUME NEW s, NEW o \in OutT, o.ok, ~o.split, o.legal, ~o.stopped, NoTool(o),
         NEW p \in Nat, NEW m \in Nat, p + 2 <= m, Whole(s, p), Whole(s, p + 2)
  PROVE  LET r == Enter(o, p)
         IN  /\ Fits(s, m, r) /\ r.mode = "tool" /\ r.pos = p /\ r.tool = ToolInit(p + 2)
             /\ r.calls = <<>> /\ r.reasoning = o.reasoning /\ r.content = o.content
             /\ r.checked = o.checked
<1> DEFINE r == Enter(o, p)
           tl == ToolInit(p + 2)
<1>1. /\ tl \in ToolT /\ tl.state = "invokes" /\ tl.pos = p + 2 /\ tl.index = 0 /\ ~tl.emitted
  <2>1. p + 2 \in Nat
    OBVIOUS
  <2> QED BY ONLY <2>1, ToolInitIs
<1>2. r = [o EXCEPT !.block = "none", !.pos = p, !.mode = "tool", !.tool = tl]
  BY DEF Enter, Leave, CloseBlock, OutT
<1> HIDE DEF r, tl
<1>3. /\ r \in OutT /\ r.mode = "tool" /\ r.pos = p /\ r.tool = tl /\ r.block = "none"
      /\ r.calls = o.calls /\ r.reasoning = o.reasoning /\ r.content = o.content
      /\ r.checked = o.checked /\ r.ok /\ ~r.split /\ r.legal /\ ~r.stopped
  BY <1>1, <1>2 DEF OutT
<1>4. r.calls = <<>> /\ Len(r.calls) = 0
  BY <1>3, EmptySeq DEF NoTool
<1>5. CallsFit(r) /\ BlockFits(r)
  BY <1>1, <1>3, <1>4 DEF CallsFit, BlockFits, InCall
<1>6. InTool(s, r) /\ ToolActive(r)
  BY <1>1, <1>3, <1>5 DEF InTool, ToolActive
<1>7. Fits(s, m, r)
  <2>1. r.pos <= m /\ r.tool.pos <= m
    BY <1>1, <1>3
  <2> QED BY <1>1, <1>3, <1>6, <2>1 DEF Fits
<1> QED BY <1>3, <1>4, <1>7 DEF r, tl

\* The content goes on, or ends at a tool block or with the text.
LEMMA TextPartIs ==
  ASSUME NEW s, NEW t, NEW n, NEW last, Looks(s, t, n, last), NEW m, Within(t, n, m),
         NEW o, Fits(s, m, o), o.mode = "text", req.tools \in BOOLEAN
  PROVE  LET r == TextPart(o, t, n, last)
             tool == IF req.tools THEN FindLit(t, Len(t), o.pos, Start("tools")) ELSE NotFound
             limit == TextSafeLimit(t, o.pos, n, req.tools, last)
             pos == IF limit <= o.pos THEN o.pos ELSE limit
         IN  /\ Fits(s, m, r) /\ limit \in 0..m
             /\ Adds(o.content, r.content, More(t, o.pos, limit)) /\ r.reasoning = o.reasoning
             /\ \/ /\ tool # NotFound /\ r.pos = tool
                   /\ \/ Projects(t, n, tool, last) /\ r.mode = "tool" /\ r.tool = ToolInit(tool + 2)
                      \/ ~Projects(t, n, tool, last) /\ r.mode = "suppress" /\ NoTool(r)
                \/ tool = NotFound /\ last /\ r.mode = "suppress" /\ r.pos = pos /\ NoTool(r)
                \/ tool = NotFound /\ ~last /\ r.mode = "text" /\ r.pos = pos
<1> DEFINE r == TextPart(o, t, n, last)
           tool == IF req.tools THEN FindLit(t, Len(t), o.pos, Start("tools")) ELSE NotFound
           limit == TextSafeLimit(t, o.pos, n, req.tools, last)
           pos == IF limit <= o.pos THEN o.pos ELSE limit
           shown == Show(o, t, "content", limit)
           projects == Projects(t, n, tool, last)
<1>1. /\ t \in Texts /\ Len(t) \in Nat /\ n \in 0..Len(t) /\ n \in Nat /\ Begins(t, s)
      /\ o.pos \in Nat /\ m \in n..Len(t) /\ m \in Nat /\ o \in OutT /\ o.pos <= m /\ o.ok /\ ~o.split
      /\ Whole(s, o.pos) /\ NoTool(o) /\ o.block \in {"none", "content"}
      /\ (req.api # "anthropic" => o.block = "none") /\ Whole(s, o.tool.pos) /\ o.tool.pos <= m
      /\ o.legal /\ ~o.stopped /\ last \in BOOLEAN
  BY LenType DEF Looks, Begins, Fits, OutT, Within
<1>2. "tools" \in Marks
  BY MarkNames
<1>3. tool # NotFound => /\ tool \in Nat /\ tool + 2 <= m
                         /\ Whole(s, tool) /\ Whole(s, tool + 2)
  <2> SUFFICES ASSUME tool # NotFound
               PROVE  tool \in Nat /\ tool + 2 <= m /\ Whole(s, tool) /\ Whole(s, tool + 2)
    OBVIOUS
  <2>1. tool = FindLit(t, Len(t), o.pos, Start("tools"))
    OBVIOUS
  <2> HIDE DEF tool
  <2>2. tool \in o.pos..Len(t) /\ FullLit(t, Len(t), tool, Start("tools"))
    BY <1>1, <2>1, FindLitIs
  <2>3. tool \in Nat /\ Len(t) \in 0..Len(t)
    BY <1>1, <2>2
  <2> QED BY <1>1, <1>2, <2>2, <2>3, WholeMarkers DEF Within
<1>4. limit \in 0..m /\ (limit <= o.pos \/ Whole(s, limit))
  BY <1>1, TextSafeLimitIs
<1> HIDE DEF tool, limit
<1>5. /\ shown \in OutT /\ SameTool(o, shown) /\ ~shown.split /\ shown.pos = pos
      /\ shown.block \in {"none", "content"} /\ (req.api # "anthropic" => shown.block = "none")
      /\ shown.reasoning = o.reasoning /\ Adds(o.content, shown.content, More(t, o.pos, limit))
  <2>1. /\ limit \in 0..Len(t) /\ Begins(t, s) /\ o \in OutT /\ o.ok /\ ~o.split
        /\ Whole(s, o.pos) /\ o.block \in {"none", "content"}
        /\ (req.api # "anthropic" => o.block = "none")
    BY <1>1, <1>4
  <2> QED BY ONLY <2>1, ShowContentIs
<1> HIDE DEF shown
<1>6. /\ shown.mode = "text" /\ NoTool(shown) /\ shown.legal /\ ~shown.stopped
      /\ shown.ok /\ shown.tool = o.tool
  BY <1>1, <1>5 DEF SameTool, NoTool
<1>7. pos \in Nat /\ pos <= m /\ Whole(s, pos)
  BY <1>1, <1>4
<1> HIDE DEF pos, projects
<1>8. r = CASE ~shown.ok -> shown
            [] shown.ok /\ tool # NotFound ->
                 [CloseBlock(shown) EXCEPT
                    !.pos = tool, !.mode = IF projects THEN "tool" ELSE "suppress",
                    !.tool = IF projects THEN ToolInit(tool + 2) ELSE @]
            [] shown.ok /\ tool = NotFound /\ last -> [CloseBlock(shown) EXCEPT !.mode = "suppress"]
            [] OTHER -> shown
  BY Zenon DEF TextPart, Leave, tool, limit, shown, projects
<1> DEFINE found == [CloseBlock(shown) EXCEPT
                       !.pos = tool, !.mode = IF projects THEN "tool" ELSE "suppress",
                       !.tool = IF projects THEN ToolInit(tool + 2) ELSE @]
           ended == [CloseBlock(shown) EXCEPT !.mode = "suppress"]
<1>12. /\ tool # NotFound => r = found
       /\ tool = NotFound /\ last => r = ended
       /\ tool = NotFound /\ ~last => r = shown
  <2>1. shown.ok = TRUE
    BY <1>5, <1>6 DEF OutT
  <2> HIDE DEF found, ended, r
  <2>2. r = CASE ~shown.ok -> shown
            [] shown.ok /\ tool # NotFound -> found
            [] shown.ok /\ tool = NotFound /\ last -> ended
            [] OTHER -> shown
    BY Zenon, <1>8 DEF found, ended
  <2> QED BY <1>1, <2>1, <2>2
<1> HIDE DEF r
<1>9. CASE tool # NotFound /\ projects
  <2>1. found = Enter(shown, tool)
    BY <1>9 DEF Enter, Leave, CloseBlock, found
  <2> HIDE DEF found
  <2>2. /\ shown \in OutT /\ shown.ok /\ ~shown.split /\ shown.legal /\ ~shown.stopped
        /\ NoTool(shown) /\ tool \in Nat /\ tool + 2 <= m /\ Whole(s, tool) /\ Whole(s, tool + 2)
        /\ m \in Nat
    BY <1>1, <1>3, <1>5, <1>6, <1>9
  <2>3. r = Enter(shown, tool)
    BY <1>9, <1>12, <2>1
  <2>4. LET x == Enter(shown, tool)
        IN  /\ Fits(s, m, x) /\ x.mode = "tool" /\ x.pos = tool /\ x.tool = ToolInit(tool + 2)
            /\ x.calls = <<>> /\ x.reasoning = shown.reasoning /\ x.content = shown.content
            /\ x.checked = shown.checked
    BY ONLY <2>2, EnterIs
  <2>5. /\ Fits(s, m, r) /\ r.mode = "tool" /\ r.pos = tool /\ r.tool = ToolInit(tool + 2)
        /\ r.reasoning = shown.reasoning /\ r.content = shown.content
    BY ONLY <2>3, <2>4
  <2> QED BY <1>4, <1>5, <1>9, <2>5 DEF r, tool, limit, projects
<1>10. CASE tool # NotFound /\ ~projects
  <2>1. found = Leave(shown, tool, "suppress")
    <3>1. CloseBlock(shown) \in OutT
      BY <1>5 DEF CloseBlock, OutT
    <3>2. found = [CloseBlock(shown) EXCEPT !.pos = tool, !.mode = "suppress",
                                            !.tool = CloseBlock(shown).tool]
      BY <1>10
    <3> DEFINE c == CloseBlock(shown)
    <3>3. c \in OutT
      BY <3>1
    <3> HIDE DEF c, found
    <3>4. [c EXCEPT !.pos = tool, !.mode = "suppress", !.tool = c.tool]
            = [c EXCEPT !.pos = tool, !.mode = "suppress"]
      BY <3>3 DEF OutT
    <3> QED BY <3>2, <3>4 DEF Leave, c
  <2> HIDE DEF found
  <2>2. shown \in OutT /\ tool \in Nat
    BY <1>3, <1>5, <1>10
  <2>3. r = Leave(shown, tool, "suppress")
    BY <1>10, <1>12, <2>1
  <2>4. /\ r \in OutT /\ r.mode = "suppress" /\ r.pos = tool /\ r.block = "none"
        /\ r.checked = shown.checked /\ r.ok = shown.ok /\ r.reasoning = shown.reasoning
        /\ r.content = shown.content /\ r.calls = shown.calls /\ r.tool = shown.tool
        /\ r.legal = shown.legal /\ r.split = shown.split /\ r.stopped = shown.stopped
    BY ONLY <2>2, <2>3, LeaveIs
  <2>5. tool <= m
    BY <1>1, <1>3, <1>10
  <2>6. Fits(s, m, r) /\ NoTool(r)
    BY <1>1, <1>3, <1>5, <1>6, <1>10, <2>4, <2>5 DEF Fits, NoTool
  <2> QED BY <1>4, <1>5, <1>10, <2>4, <2>6 DEF r, tool, limit, projects
<1>11. CASE tool = NotFound
  <2>1. CASE last
    <3>1. ended = Leave(shown, pos, "suppress")
      BY <1>5 DEF CloseBlock, Leave, OutT
    <3>2. r = Leave(shown, pos, "suppress")
      BY <1>11, <1>12, <2>1, <3>1
    <3>3. shown \in OutT /\ pos \in Nat
      BY <1>5, <1>7
    <3>4. /\ r \in OutT /\ r.mode = "suppress" /\ r.pos = pos /\ r.block = "none"
          /\ r.checked = shown.checked /\ r.ok = shown.ok /\ r.reasoning = shown.reasoning
          /\ r.content = shown.content /\ r.calls = shown.calls /\ r.tool = shown.tool
          /\ r.legal = shown.legal /\ r.split = shown.split /\ r.stopped = shown.stopped
      BY ONLY <3>2, <3>3, LeaveIs
    <3>5. Fits(s, m, r) /\ NoTool(r)
      BY <1>1, <1>5, <1>6, <1>7, <3>4 DEF Fits, NoTool
    <3> QED BY <1>4, <1>5, <1>11, <2>1, <3>4, <3>5 DEF r, tool, limit, pos
  <2>2. CASE ~last
    <3>1. r = shown
      BY <1>11, <1>12, <2>2
    <3>2. Fits(s, m, shown)
      BY <1>1, <1>5, <1>6, <1>7 DEF Fits, NoTool
    <3> QED BY <1>4, <1>5, <1>6, <1>11, <2>2, <3>1, <3>2 DEF r, tool, limit, pos
  <2> QED BY <2>1, <2>2
<1> QED BY <1>9, <1>10, <1>11

\* A tool block is followed, to its end or until it cannot be read.
LEMMA ToolPartIs ==
  ASSUME NEW s, NEW t, NEW n, NEW last, Looks(s, t, n, last), NEW m, Within(t, n, m),
         NEW o, Fits(s, m, o), o.mode = "tool"
  PROVE  LET r == ToolPart(o, t, n)
             done == ToolUpdate(o, t, n)
         IN  /\ Fits(s, m, r) /\ r.content = o.content /\ r.reasoning = o.reasoning /\ r.pos = o.pos
             /\ r.tool = done.tool /\ r.calls = done.calls
             /\ InTool(s, r) /\ r.mode = (IF ToolActive(done) THEN "tool" ELSE "suppress")
<1> DEFINE r == ToolPart(o, t, n)
           done == ToolUpdate(o, t, n)
<1>1. /\ Begins(t, s) /\ n \in 0..Len(t) /\ n \in Nat /\ m \in n..Len(t) /\ m \in Nat
      /\ InTool(s, o) /\ o \in OutT /\ o.legal /\ ~o.stopped /\ o.pos <= m /\ Whole(s, o.pos)
      /\ o.tool.pos <= m /\ o.tool.pos \in Nat
  BY LenType DEF Looks, Begins, Fits, OutT, ToolT, Within
<1>2. /\ InTool(s, done) /\ SameText(o, done) /\ (o.tool.pos <= n => done.tool.pos <= n)
      /\ (o.tool.pos > n => done = o)
  BY <1>1, ToolUpdateKeeps
<1>3. r = IF ToolActive(done) THEN done ELSE [done EXCEPT !.mode = "suppress"]
  BY DEF ToolPart
<1> HIDE DEF r, done
<1>4. /\ done \in OutT /\ done.mode = "tool" /\ done.legal /\ ~done.stopped /\ done.pos = o.pos
      /\ done.content = o.content /\ done.reasoning = o.reasoning /\ done.ok /\ ~done.split
      /\ Whole(s, done.tool.pos) /\ done.tool.pos \in Nat
      /\ (req.api # "anthropic" => done.block = "none")
  BY <1>1, <1>2 DEF InTool, SameText, BlockFits, OutT, ToolT
<1>5. done.tool.pos <= m
  <2>1. CASE o.tool.pos <= n
    BY <1>1, <1>2, <1>4, <2>1
  <2>2. CASE o.tool.pos > n
    BY <1>1, <1>2, <2>2
  <2> QED BY <1>1, <2>1, <2>2
<1>6. CASE ToolActive(done)
  <2>1. r = done
    BY <1>3, <1>6
  <2>2. Fits(s, m, done)
    BY <1>1, <1>2, <1>4, <1>5, <1>6 DEF Fits
  <2> QED BY <1>2, <1>4, <1>6, <2>1, <2>2 DEF r, done
<1>7. CASE ~ToolActive(done)
  <2>1. r = [done EXCEPT !.mode = "suppress"]
    BY <1>3, <1>7
  <2>2. /\ r \in OutT /\ r.mode = "suppress" /\ r.pos = done.pos /\ r.block = done.block
        /\ r.ok = done.ok /\ r.reasoning = done.reasoning /\ r.content = done.content
        /\ r.calls = done.calls /\ r.tool = done.tool /\ r.legal = done.legal
        /\ r.split = done.split /\ r.stopped = done.stopped
    BY <1>4, <2>1 DEF OutT
  <2>3. InTool(s, r) /\ ~ToolActive(r)
    BY <1>2, <1>7, <2>2 DEF InTool, CallsFit, BlockFits, InCall, ToolActive
  <2>4. Fits(s, m, r)
    BY <1>1, <1>4, <1>5, <2>2, <2>3 DEF Fits
  <2> QED BY <1>4, <1>7, <2>2, <2>3, <2>4 DEF r, done
<1> QED BY <1>6, <1>7

\* The three parts of one update.
AfterThinking(o, t, n, last) ==
  IF o.mode = "thinking" THEN ThinkingPart(CheckThinkPrefix(o, t, n, last), t, n, last) ELSE o

\* The second part of an update.
AfterText(o, t, n, last) == IF o.mode = "text" THEN TextPart(o, t, n, last) ELSE o

\* An update in its parts.
LEMMA UpdateParts ==
  ASSUME NEW o, NEW t, NEW n, NEW last
  PROVE  LET c == AfterThinking(o, t, n, last)
             u == AfterText(c, t, n, last)
         IN  Update(o, t, n, last) = IF u.mode = "tool" THEN ToolPart(u, t, n) ELSE u
BY DEF Update, FromText, FromTool, AfterThinking, AfterText

\* An update leaves the projection in a state it can be in.
LEMMA UpdateFits ==
  ASSUME NEW s, NEW t, NEW n, NEW last, Looks(s, t, n, last), NEW m, Within(t, n, m),
         NEW o, Fits(s, m, o), req.tools \in BOOLEAN
  PROVE  /\ Fits(s, m, AfterThinking(o, t, n, last))
         /\ Fits(s, m, AfterText(AfterThinking(o, t, n, last), t, n, last))
         /\ Fits(s, m, Update(o, t, n, last))
<1> DEFINE k == CheckThinkPrefix(o, t, n, last)
           c == AfterThinking(o, t, n, last)
           u == AfterText(c, t, n, last)
<1>1. Fits(s, m, c)
  <2>1. CASE o.mode = "thinking"
    <3>1. Fits(s, m, k) /\ k.mode = "thinking"
      BY <2>1, CheckIs
    <3>2. c = IF k.checked THEN Thinking(k, t, n, last) ELSE k
      BY <2>1 DEF AfterThinking, ThinkingPart
    <3> HIDE DEF k, c
    <3>3. k.checked => Fits(s, m, Thinking(k, t, n, last))
      BY <3>1, ThinkingIs
    <3> QED BY <3>1, <3>2, <3>3
  <2>2. CASE o.mode # "thinking"
    BY <2>2 DEF AfterThinking
  <2> QED BY <2>1, <2>2
<1> HIDE DEF c
<1>2. Fits(s, m, u)
  <2>1. c.mode = "text" => Fits(s, m, TextPart(c, t, n, last))
    BY <1>1, TextPartIs
  <2> QED BY <1>1, <2>1 DEF AfterText
<1> HIDE DEF u
<1>3. u.mode = "tool" => Fits(s, m, ToolPart(u, t, n))
  BY <1>2, ToolPartIs
<1>4. Update(o, t, n, last) = IF u.mode = "tool" THEN ToolPart(u, t, n) ELSE u
  BY UpdateParts DEF c, u
<1> QED BY <1>1, <1>2, <1>3, <1>4 DEF c, u

-----------------------------------------------------------------------------
(* What one token brings into view.                                        *)

\* A text and its beginning have the same atoms where both have any.
LEMMA BeginsCut ==
  ASSUME NEW t, NEW s, Begins(t, s), NEW from \in Nat, NEW to \in 0..Len(t)
  PROVE  SubSeq(t, from + 1, to) = SubSeq(s, from + 1, to)
<1> DEFINE a == SubSeq(t, from + 1, to)
           b == SubSeq(s, from + 1, to)
<1>0. t \in Seq(Atom) /\ s \in Seq(Atom) /\ Len(t) \in Nat /\ Len(s) \in Nat /\ Len(t) <= Len(s)
      /\ to \in Nat /\ \A i \in 1..Len(t) : t[i] = s[i]
  BY LenType DEF Begins, Texts
<1>1. /\ a \in Seq(Atom) /\ Len(a) = (IF from + 1 <= to THEN to - (from + 1) + 1 ELSE 0)
      /\ \A i \in 1..(to - (from + 1) + 1) : a[i] = t[(from + 1) + i - 1]
  <2>1. \A i \in (from + 1)..to : t[i] \in Atom
    BY <1>0
  <2> QED BY <1>0, <2>1, SubSeqProperties
<1>2. /\ b \in Seq(Atom) /\ Len(b) = (IF from + 1 <= to THEN to - (from + 1) + 1 ELSE 0)
      /\ \A i \in 1..(to - (from + 1) + 1) : b[i] = s[(from + 1) + i - 1]
  <2>1. \A i \in (from + 1)..to : s[i] \in Atom
    BY <1>0
  <2> QED BY <1>0, <2>1, SubSeqProperties
<1> HIDE DEF a, b
<1>3. ASSUME NEW i \in 1..Len(a) PROVE a[i] = b[i]
  <2>1. i \in 1..(to - (from + 1) + 1) /\ (from + 1) + i - 1 \in 1..Len(t)
    BY <1>0, <1>1
  <2> QED BY <1>0, <1>1, <1>2, <2>1
<1>4. a = b
  BY <1>1, <1>2, <1>3, SeqEqual
<1> QED BY <1>4 DEF a, b

\* A literal of the start is one of the whole.
LEMMA BeginsLit ==
  ASSUME NEW t, NEW s, Begins(t, s), NEW n \in 0..Len(t), NEW p \in Nat, NEW lit \in Seq(Atom)
  PROVE  FullLit(t, n, p, lit) <=> FullLit(s, n, p, lit)
<1>1. Len(lit) \in Nat /\ n \in Nat /\ Len(t) \in Nat
  BY LenType DEF Begins
<1>2. CASE p + Len(lit) <= n
  <2>1. p + Len(lit) \in 0..Len(t)
    BY <1>1, <1>2
  <2>2. SubSeq(t, p + 1, p + Len(lit)) = SubSeq(s, p + 1, p + Len(lit))
    BY <2>1, BeginsCut
  <2> QED BY <2>2 DEF FullLit
<1>3. CASE ~(p + Len(lit) <= n)
  BY <1>3 DEF FullLit
<1> QED BY <1>2, <1>3

\* A text that has been sampled of a script begins it.
LEMMA SampledBegins ==
  ASSUME NEW s \in Texts, NEW k \in 0..Len(s)
  PROVE  LET t == SubSeq(s, 1, k)
         IN  /\ Begins(t, s) /\ Len(t) = k
             /\ \A j \in 0..k : SubSeq(t, 1, j) = SubSeq(s, 1, j)
<1> DEFINE t == SubSeq(s, 1, k)
<1>1. s \in Seq(Atom) /\ Len(s) \in Nat /\ k \in Nat
  BY LenType DEF Texts
<1>2. /\ t \in Seq(Atom) /\ Len(t) = (IF 1 <= k THEN k - 1 + 1 ELSE 0)
      /\ \A i \in 1..(k - 1 + 1) : t[i] = s[1 + i - 1]
  <2>1. \A i \in 1..k : s[i] \in Atom
    BY <1>1
  <2> QED BY <1>1, <2>1, SubSeqProperties
<1> HIDE DEF t
<1>3. Len(t) = k
  BY <1>1, <1>2
<1>4. \A i \in 1..k : t[i] = s[i]
  <2>1. \A i \in 1..k : i \in 1..(k - 1 + 1) /\ 1 + i - 1 = i
    BY <1>1
  <2> QED BY <1>2, <2>1
<1>5. Begins(t, s)
  BY <1>1, <1>2, <1>3, <1>4 DEF Begins, Texts
<1>6. ASSUME NEW j \in 0..k PROVE SubSeq(t, 1, j) = SubSeq(s, 1, j)
  <2>1. SubSeq(t, 0 + 1, j) = SubSeq(s, 0 + 1, j)
    <3>1. 0 \in Nat /\ j \in 0..Len(t)
      BY <1>1, <1>3
    <3> QED BY <1>5, <3>1, BeginsCut
  <2> QED BY <2>1
<1> QED BY <1>3, <1>5, <1>6 DEF t

\* The first stop string of a text.
StopOf(s) == FindLit(s, Len(s), 0, Stop)

\* The stop string, atom by atom.
LEMMA StopIs ==
  /\ Stop \in Seq(Atom) /\ Len(Stop) = 2
  /\ \A t \in Texts, n \in Nat, p \in Nat :
       n <= Len(t) => (FullLit(t, n, p, Stop) <=> p + 2 <= n /\ t[p + 1] = "s" /\ t[p + 2] = "t")
<1>1. "s" \in Atom /\ "t" \in Atom
  BY Zenon DEF Atom, Special
<1> DEFINE a == "s"
           b == "t"
<1>2. a \in Atom /\ b \in Atom
  BY <1>1
<1>3. <<a, b>> \in Seq(Atom) /\ Len(<<a, b>>) = 2
  <2> HIDE DEF a, b
  <2> QED BY <1>2
<1>4. ASSUME NEW t \in Texts, NEW n \in Nat, NEW p \in Nat, n <= Len(t)
      PROVE  FullLit(t, n, p, <<a, b>>) <=> p + 2 <= n /\ t[p + 1] = a /\ t[p + 2] = b
  <2>1. n \in 0..Len(t)
    BY <1>4, LenType
  <2> HIDE DEF a, b
  <2> QED BY <1>2, <2>1, FullLit2
<1> QED BY <1>3, <1>4 DEF Stop

\* Where a text first has it.
LEMMA StopOfIs ==
  ASSUME NEW s \in Texts
  PROVE  /\ StopOf(s) = NotFound \/ (/\ StopOf(s) \in Nat /\ StopOf(s) + 2 <= Len(s)
                                     /\ s[StopOf(s) + 1] = "s" /\ s[StopOf(s) + 2] = "t")
         /\ \A p \in Nat : FullLit(s, Len(s), p, Stop) => StopOf(s) # NotFound /\ StopOf(s) <= p
<1> DEFINE q == StopOf(s)
<1>1. Len(s) \in Nat /\ Len(s) <= Len(s) /\ 0 \in Nat
  BY LenType
<1>2. \/ q = NotFound /\ \A i \in 0..Len(s) : ~FullLit(s, Len(s), i, Stop)
      \/ q \in 0..Len(s) /\ FullLit(s, Len(s), q, Stop)
         /\ \A i \in 0..Len(s) : FullLit(s, Len(s), i, Stop) => q <= i
  BY <1>1, FindLitIs DEF StopOf
<1> HIDE DEF q
<1>3. \A p \in Nat : FullLit(s, Len(s), p, Stop) <=> p + 2 <= Len(s) /\ s[p + 1] = "s" /\ s[p + 2] = "t"
  BY <1>1, StopIs
<1>4. q = NotFound \/ (q \in Nat /\ q + 2 <= Len(s) /\ s[q + 1] = "s" /\ s[q + 2] = "t")
  BY <1>1, <1>2, <1>3
<1>5. ASSUME NEW p \in Nat, FullLit(s, Len(s), p, Stop) PROVE q # NotFound /\ q <= p
  <2>1. p \in 0..Len(s)
    BY <1>1, <1>3, <1>5
  <2> QED BY <1>2, <1>5, <2>1 DEF NotFound
<1> QED BY <1>4, <1>5 DEF q

\* Where the text that the client may see ends.
Stops == req.stop /\ StopOf(script) # NotFound

\* How far of t may be looked at.
Reach(t) == IF Stops /\ StopOf(script) < Len(t) THEN StopOf(script) ELSE Len(t)

\* The stop string has not been sampled, and the next token is searched for it.
StopAhead(t, from) == Stops => from <= StopOf(script) /\ Len(t) < StopOf(script) + 2

\* A stop string is found as soon as it has been sampled, and nowhere else.
LEMMA StopAtIs ==
  ASSUME NEW t, Begins(t, script), seen.stopFrom \in Nat, StopAhead(text, seen.stopFrom)
  PROVE  LET stop == StopOf(script)
         IN  /\ StopAt(t) # NotFound => Stops /\ StopAt(t) = stop /\ stop + 2 <= Len(t) /\ stop \in Nat
             /\ StopAt(t) = NotFound => (Stops => Len(t) < stop + 2)
<1> DEFINE stop == StopOf(script)
           q == FindLit(t, Len(t), seen.stopFrom, Stop)
<1>1. t \in Texts /\ script \in Texts /\ Len(t) \in Nat /\ Len(script) \in Nat /\ Len(t) <= Len(script)
      /\ Len(t) <= Len(t) /\ \A i \in 1..Len(t) : t[i] = script[i]
  BY LenType DEF Begins
<1>2. \/ q = NotFound /\ \A i \in seen.stopFrom..Len(t) : ~FullLit(t, Len(t), i, Stop)
      \/ q \in seen.stopFrom..Len(t) /\ FullLit(t, Len(t), q, Stop)
         /\ \A i \in seen.stopFrom..Len(t) : FullLit(t, Len(t), i, Stop) => q <= i
  BY <1>1, FindLitIs
<1>3. StopAt(t) = IF req.stop THEN q ELSE NotFound
  BY DEF StopAt
<1> HIDE DEF q
<1>4. \A p \in Nat : FullLit(t, Len(t), p, Stop) <=> p + 2 <= Len(t) /\ t[p + 1] = "s" /\ t[p + 2] = "t"
  BY <1>1, StopIs
<1>5. \A p \in Nat : FullLit(script, Len(script), p, Stop)
                       <=> p + 2 <= Len(script) /\ script[p + 1] = "s" /\ script[p + 2] = "t"
  BY <1>1, StopIs
<1>6. /\ stop = NotFound \/ (/\ stop \in Nat /\ stop + 2 <= Len(script)
                             /\ script[stop + 1] = "s" /\ script[stop + 2] = "t")
      /\ \A p \in Nat : FullLit(script, Len(script), p, Stop) => stop # NotFound /\ stop <= p
  BY <1>1, StopOfIs
<1> HIDE DEF stop
<1>7. ASSUME NEW p \in Nat, FullLit(t, Len(t), p, Stop) PROVE stop # NotFound /\ stop <= p
  <2>1. p + 2 <= Len(t) /\ t[p + 1] = "s" /\ t[p + 2] = "t"
    BY <1>4, <1>7
  <2>2. p + 2 <= Len(script) /\ script[p + 1] = "s" /\ script[p + 2] = "t"
    BY <1>1, <2>1
  <2> QED BY <1>5, <1>6, <2>2
<1>8. ASSUME stop # NotFound, stop + 2 <= Len(t) PROVE FullLit(t, Len(t), stop, Stop)
  <2>1. stop \in Nat /\ script[stop + 1] = "s" /\ script[stop + 2] = "t"
    BY <1>6, <1>8
  <2>2. t[stop + 1] = "s" /\ t[stop + 2] = "t"
    BY <1>1, <1>8, <2>1
  <2> QED BY <1>4, <1>8, <2>1, <2>2
<1>9. ASSUME StopAt(t) # NotFound
      PROVE  Stops /\ StopAt(t) = stop /\ stop + 2 <= Len(t) /\ stop \in Nat
  <2>1. req.stop /\ q # NotFound /\ StopAt(t) = q
    BY <1>3, <1>9
  <2>2. q \in seen.stopFrom..Len(t) /\ FullLit(t, Len(t), q, Stop) /\ q \in Nat
    BY <1>1, <1>2, <2>1
  <2>3. stop # NotFound /\ stop <= q /\ q + 2 <= Len(t)
    BY <1>4, <1>7, <2>2
  <2>4. stop \in Nat /\ stop + 2 <= Len(t)
    BY <1>1, <1>6, <2>2, <2>3
  <2>5. Stops /\ seen.stopFrom <= stop
    BY <2>1, <2>3 DEF Stops, StopAhead, stop
  <2>6. stop \in seen.stopFrom..Len(t)
    BY <1>1, <2>4, <2>5
  <2>7. q <= stop
    BY <1>2, <1>8, <2>1, <2>3, <2>4, <2>6
  <2> QED BY <2>1, <2>2, <2>3, <2>4, <2>5, <2>7
<1>10. ASSUME StopAt(t) = NotFound, Stops PROVE Len(t) < stop + 2
  <2>1. q = NotFound /\ stop # NotFound /\ stop \in Nat /\ seen.stopFrom <= stop
    BY <1>3, <1>6, <1>10 DEF Stops, StopAhead, stop
  <2>2. ~(q \in seen.stopFrom..Len(t))
    BY <1>1, <2>1 DEF NotFound
  <2>3. stop + 2 <= Len(t) => stop \in seen.stopFrom..Len(t)
    BY <1>1, <2>1
  <2>4. ~(stop + 2 <= Len(t))
    BY <1>2, <1>8, <2>1, <2>2, <2>3
  <2> QED BY <1>1, <2>1, <2>4
<1> QED BY <1>9, <1>10 DEF stop

\* No more than the text that the client may see is looked at, and a marker that is whole lies in it.
LEMMA TokenWithin ==
  ASSUME NEW t, Begins(t, script), text \in Texts, Len(text) <= Len(t), OneToken(t, Len(text)),
         seen.stopFrom \in Nat, StopAhead(text, seen.stopFrom)
  PROVE  LET n == StreamLen(t)
         IN  n \in 0..Len(t) /\ Within(t, n, Reach(t))
<1> DEFINE n == StreamLen(t)
           stop == StopOf(script)
           safe == IF req.stop THEN StopSafeLen(Len(t)) ELSE Len(t)
<1>1. t \in Texts /\ script \in Texts /\ Len(t) \in Nat /\ Len(script) \in Nat /\ Len(t) <= Len(script)
      /\ Len(t) \in 0..Len(t) /\ Len(text) \in Nat /\ \A i \in 1..Len(t) : t[i] = script[i]
  BY LenType DEF Begins
<1>2. /\ stop = NotFound \/ (/\ stop \in Nat /\ stop + 2 <= Len(script)
                             /\ script[stop + 1] = "s" /\ script[stop + 2] = "t")
  BY <1>1, StopOfIs
<1>3. /\ StopAt(t) # NotFound => Stops /\ StopAt(t) = stop /\ stop + 2 <= Len(t) /\ stop \in Nat
      /\ StopAt(t) = NotFound => (Stops => Len(t) < stop + 2)
  BY StopAtIs
<1>4. n = IF StopAt(t) # NotFound THEN StopAt(t) ELSE Utf8SafeLen(t, 0, safe)
  BY DEF StreamLen
<1>5. safe \in 0..Len(t) /\ (req.stop => safe = IF Len(t) > 1 THEN Len(t) - 1 ELSE 0)
  BY <1>1, StopIs DEF StopSafeLen
<1> HIDE DEF safe
<1>6. Utf8SafeLen(t, 0, safe) \in 0..safe
  <2>1. 0 \in Nat /\ Begins(t, t)
    BY <1>1 DEF Begins
  <2> QED BY ONLY <1>5, <2>1, Utf8SafeLenIs
<1>7. Stops => req.stop /\ stop # NotFound
  BY DEF Stops
<1>8. /\ Reach(t) = (IF Stops /\ stop < Len(t) THEN stop ELSE Len(t))
      /\ StopAhead(text, seen.stopFrom) => (Stops => Len(text) < stop + 2)
  BY DEF Reach, StopAhead
<1>9. \A p \in Nat : FullLit(t, Len(t), p, End("think")) =>
        p + 3 <= Len(t) /\ t[p + 1] = "<" /\ t[p + 2] = "/" /\ t[p + 3] = "think"
  BY <1>1, MarkNames, FullEnd
<1>10. \A p \in Nat : FullLit(t, Len(t), p, Start("tools")) =>
        p + 2 <= Len(t) /\ t[p + 1] = "<" /\ t[p + 2] = "tools"
  BY <1>1, MarkNames, FullStart
<1>11. \A p \in Nat : Marker(t, p) => p <= Len(text)
  <2> SUFFICES ASSUME NEW p \in Nat, Marker(t, p) PROVE p <= Len(text)
    OBVIOUS
  <2>1. p <= Len(t)
    BY <1>1, <1>9, <1>10 DEF Marker
  <2>2. ~(p \in (Len(text) + 1)..Len(t))
    BY DEF OneToken
  <2> QED BY <1>1, <2>1, <2>2
<1> HIDE DEF n, stop
<1>12. n \in 0..Len(t) /\ Reach(t) \in n..Len(t)
  <2>1. CASE StopAt(t) # NotFound
    BY <1>1, <1>3, <1>4, <1>8, <2>1
  <2>2. CASE StopAt(t) = NotFound /\ ~Stops
    BY <1>1, <1>4, <1>5, <1>6, <1>8, <2>2
  <2>3. CASE StopAt(t) = NotFound /\ Stops
    <3>1. stop \in Nat /\ Len(t) < stop + 2 /\ safe <= stop
      BY <1>1, <1>2, <1>3, <1>5, <1>7, <2>3
    <3> QED BY <1>1, <1>4, <1>5, <1>6, <1>8, <2>3, <3>1
  <2> QED BY <2>1, <2>2, <2>3
<1>13. ASSUME NEW p \in Nat, FullLit(t, Len(t), p, End("think")) PROVE p + 3 <= Reach(t)
  <2>1. /\ p + 3 <= Len(t) /\ t[p + 1] = "<" /\ t[p + 2] = "/" /\ t[p + 3] = "think"
        /\ p <= Len(text)
    BY <1>9, <1>11, <1>13 DEF Marker
  <2>2. CASE Stops /\ stop < Len(t)
    <3>1. stop \in Nat /\ Len(text) < stop + 2 /\ t[stop + 1] = "s" /\ (stop + 2 <= Len(t) => t[stop + 2] = "t")
      BY <1>1, <1>2, <1>7, <1>8, <2>2
    <3>2. stop # p /\ stop # p + 1 /\ stop # p + 2
      BY <2>1, <3>1
    <3>3. p # stop + 1
      BY <2>1, <3>1
    <3> QED BY <1>1, <1>8, <2>1, <2>2, <3>1, <3>2, <3>3
  <2> QED BY <1>8, <2>1, <2>2
<1>14. ASSUME NEW p \in Nat, FullLit(t, Len(t), p, Start("tools")) PROVE p + 2 <= Reach(t)
  <2>1. /\ p + 2 <= Len(t) /\ t[p + 1] = "<" /\ t[p + 2] = "tools" /\ p <= Len(text)
    BY <1>10, <1>11, <1>14 DEF Marker
  <2>2. CASE Stops /\ stop < Len(t)
    <3>1. stop \in Nat /\ Len(text) < stop + 2 /\ t[stop + 1] = "s" /\ (stop + 2 <= Len(t) => t[stop + 2] = "t")
      BY <1>1, <1>2, <1>7, <1>8, <2>2
    <3>2. stop # p /\ stop # p + 1
      BY <2>1, <3>1
    <3>3. p # stop + 1
      BY <2>1, <3>1
    <3> QED BY <1>1, <1>8, <2>1, <2>2, <3>1, <3>2, <3>3
  <2> QED BY <1>8, <2>1, <2>2
<1> QED BY <1>12, <1>13, <1>14 DEF Within, n

-----------------------------------------------------------------------------
(* What holds throughout a turn.                                           *)

\* The type of the tracker.
SeenT == [start : BOOLEAN, end : BOOLEAN, from : Nat, stopFrom : Nat]

\* The text is what has been sampled of the script.
Turn ==
  /\ req \in Request /\ script \in Script
  /\ Len(text) \in 0..Len(script) /\ text = SubSeq(script, 1, Len(text))
  /\ phase \in {"decode", "finish", "done"}
  /\ seen \in SeenT

\* The client is gone.
Gone(m, o) == o \in OutT /\ o.mode = "gone" /\ ~o.ok /\ o.pos <= m /\ o.tool.pos <= m

\* What has been sent fits the text, up to a stop string; a client that is gone gets no more.
Sending ==
  /\ ~out.split
  /\ phase # "done" => Gone(Reach(text), out) \/ Fits(script, Reach(text), out)
  /\ phase = "decode" => ~Gone(Reach(text), out)

\* The stop string ends the turn.
Stopping ==
  /\ Stops => Len(text) < StopOf(script) + 2
  /\ phase = "decode" => StopAhead(text, seen.stopFrom)

\* The inductive invariant.
StreamInv == Turn /\ Sending /\ Stopping

\* The types of the turn.
LEMMA TurnIs ==
  ASSUME Turn
  PROVE  /\ req \in [api : Api, think : BOOLEAN, tools : BOOLEAN, stop : BOOLEAN]
         /\ req.tools \in BOOLEAN /\ req.think \in BOOLEAN /\ req.stop \in BOOLEAN
         /\ script \in Texts /\ Len(script) \in Nat
         /\ Begins(text, script) /\ text \in Texts /\ Len(text) \in Nat /\ Len(text) <= Len(script)
         /\ \A j \in 0..Len(text) : SubSeq(text, 1, j) = SubSeq(script, 1, j)
<1>1. /\ req \in [api : Api, think : BOOLEAN, tools : BOOLEAN, stop : BOOLEAN]
      /\ script \in Texts /\ Len(script) \in Nat
  BY StreamAssumption, LenType DEF Turn, Texts
<1>2. /\ Begins(text, script)
      /\ \A j \in 0..Len(text) : SubSeq(text, 1, j) = SubSeq(script, 1, j)
  <2> DEFINE k == Len(text)
  <2>1. k \in 0..Len(script) /\ text = SubSeq(script, 1, k)
    BY DEF Turn
  <2> HIDE DEF k
  <2>2. Begins(text, script) /\ Len(text) = k
        /\ \A j \in 0..k : SubSeq(text, 1, j) = SubSeq(script, 1, j)
    BY <1>1, <2>1, SampledBegins
  <2> QED BY <2>2
<1>3. text \in Texts /\ Len(text) \in Nat /\ Len(text) <= Len(script)
  BY <1>2, LenType DEF Begins
<1> QED BY <1>1, <1>2, <1>3

\* More of the text may be looked at.
LEMMA FitsMore ==
  ASSUME NEW s, NEW m \in Nat, NEW k \in Nat, m <= k, NEW o, Fits(s, m, o)
  PROVE  Fits(s, k, o)
<1>1. o.pos \in Nat /\ o.tool.pos \in Nat
  BY DEF Fits, OutT, ToolT
<1>2. o.pos <= k /\ o.tool.pos <= k
  BY <1>1 DEF Fits
<1> QED BY <1>2 DEF Fits

\* More text reaches farther.
LEMMA ReachGrows ==
  ASSUME NEW t \in Texts, text \in Texts, Len(text) <= Len(t), script \in Texts
  PROVE  Reach(text) \in Nat /\ Reach(t) \in Nat /\ Reach(text) <= Reach(t) /\ Reach(t) <= Len(t)
<1>1. Len(t) \in Nat /\ Len(text) \in Nat /\ (Stops => StopOf(script) \in Nat)
  BY LenType, StopOfIs DEF Stops
<1> DEFINE stop == StopOf(script)
<1> HIDE DEF stop
<1> QED BY <1>1 DEF Reach, stop

\* Nothing sent fits.
LEMMA OutInitFits ==
  ASSUME NEW s, req.api \in Api, req.think \in BOOLEAN
  PROVE  Fits(s, 0, OutInit(req.think))
<1> DEFINE o == OutInit(req.think)
           mode == IF req.think THEN "thinking" ELSE "text"
<1>1. <<>> \in Texts /\ <<>> \in Seq(CallT)
  BY DEF Texts
<1>2. mode \in {"thinking", "text"}
  OBVIOUS
<1>3. o = [mode |-> mode, pos |-> 0, checked |-> FALSE,
           ok |-> TRUE, block |-> "none", reasoning |-> <<>>, content |-> <<>>, calls |-> <<>>,
           tool |-> ToolIdle, legal |-> TRUE, split |-> FALSE, stopped |-> FALSE]
  BY DEF OutInit
<1> HIDE DEF o, mode
<1>4. o \in OutT
  BY <1>1, <1>2, <1>3, ToolIdleIs DEF OutT
<1>5. Whole(s, 0)
  BY DEF Whole
<1>6. NoTool(o)
  BY <1>3 DEF NoTool
<1>7. o.pos = 0 /\ o.tool.pos = 0 /\ o.mode = mode /\ o.block = "none" /\ o.ok /\ ~o.split /\ o.legal /\ ~o.stopped
  BY <1>3, ToolIdleIs
<1> QED BY <1>2, <1>4, <1>5, <1>6, <1>7 DEF Fits, o

\* What fits depends on the request alone.
LEMMA FitsNext ==
  ASSUME req' = req, script' = script, Fits(script, Reach(text'), out')
  PROVE  Fits(script, Reach(text), out)'
<1>1. Reach(text)' = Reach(text')
  BY DEF Reach, Stops, StopOf
<1> QED BY <1>1 DEF Fits, InTool, BlockFits, CallsFit, InCall, ToolActive, NoTool

\* It holds at first,
LEMMA InitStream == Init => StreamInv
<1> SUFFICES ASSUME Init PROVE StreamInv
  OBVIOUS
<1>1. /\ req \in [api : Api, think : BOOLEAN, tools : BOOLEAN, stop : BOOLEAN]
      /\ script \in Texts /\ Len(script) \in Nat
  BY StreamAssumption, LenType DEF Init, Texts
<1>2. Len(text) = 0 /\ text = SubSeq(script, 1, 0)
  <2>1. text = <<>>
    BY DEF Init
  <2>2. SubSeq(script, 1, 0) = <<>>
    <3>1. 0 \in 0..Len(script)
      BY <1>1
    <3>2. Len(SubSeq(script, 1, 0)) = 0 /\ Begins(SubSeq(script, 1, 0), script)
      BY <1>1, <3>1, SampledBegins
    <3> QED BY <3>2, EmptySeq DEF Begins, Texts
  <2> QED BY <2>1, <2>2
<1>3. seen \in SeenT /\ seen.stopFrom = 0
  BY DEF Init, SeenT
<1>4. Turn
  BY <1>1, <1>2, <1>3 DEF Init, Turn
<1>5. Stops => StopOf(script) \in Nat
  BY <1>1, StopOfIs DEF Stops
<1>6. Reach(text) = 0
  <2>1. ~(Stops /\ StopOf(script) < 0)
    BY <1>5
  <2> QED BY <1>2, <2>1 DEF Reach
<1>7. Stopping
  <2>1. Stops => 0 <= StopOf(script) /\ 0 < StopOf(script) + 2
    BY <1>5
  <2> QED BY <1>2, <1>3, <2>1 DEF Stopping, StopAhead
<1>8. Fits(script, Reach(text), out)
  <2>1. out = OutInit(req.think)
    BY DEF Init
  <2> QED BY <1>1, <1>6, <2>1, OutInitFits
<1>9. Sending
  <2>1. ~Gone(Reach(text), out)
    BY <1>8 DEF Fits, Gone
  <2> QED BY <1>8, <2>1 DEF Sending, Fits
<1> QED BY <1>4, <1>7, <1>9 DEF StreamInv

\* One token: what is shown of the text that is there now.
LEMMA TokenStream ==
  ASSUME StreamInv, NEW k \in 1..MaxToken, Token(k)
  PROVE  StreamInv'
<1> DEFINE t == SubSeq(script, 1, Len(text) + k)
           stop == StopOf(script)
           hit == StopAt(t) # NotFound
           marks == IF req.tools THEN ObserveToolMarkers(t) ELSE seen
           m == Reach(t)
<1>1. /\ phase = "decode" /\ Len(text) + k <= Len(script) /\ OneToken(t, Len(text))
      /\ text' = (IF hit THEN SubSeq(t, 1, StopAt(t)) ELSE t)
      /\ out' = Update(out, t, StreamLen(t), FALSE)
      /\ seen' = [marks EXCEPT !.stopFrom = IF hit \/ ~req.stop THEN @ ELSE StopSafeLen(Len(t))]
      /\ phase' \in {"decode", "finish"} /\ (hit => phase' = "finish")
      /\ req' = req /\ script' = script
  BY DEF Token
<1>2. /\ req \in [api : Api, think : BOOLEAN, tools : BOOLEAN, stop : BOOLEAN] /\ req.tools \in BOOLEAN
      /\ script \in Texts /\ Len(script) \in Nat /\ text \in Texts /\ Len(text) \in Nat
      /\ k \in Nat \ {0} /\ req \in Request /\ script \in Script /\ seen \in SeenT
  <2>1. k \in Nat \ {0}
    BY StreamAssumption
  <2> QED BY <2>1, TurnIs DEF StreamInv, Turn
<1>3. /\ Begins(t, script) /\ Len(t) = Len(text) + k /\ t \in Texts
      /\ \A j \in 0..Len(t) : SubSeq(t, 1, j) = SubSeq(script, 1, j)
  <2>1. Len(text) + k \in 0..Len(script)
    BY <1>1, <1>2
  <2>2. /\ Begins(t, script) /\ Len(t) = Len(text) + k
        /\ \A j \in 0..(Len(text) + k) : SubSeq(t, 1, j) = SubSeq(script, 1, j)
    BY ONLY <1>2, <2>1, SampledBegins
  <2> HIDE DEF t
  <2> QED BY <2>2 DEF Begins
<1> HIDE DEF t
<1>4. /\ seen.stopFrom \in Nat /\ StopAhead(text, seen.stopFrom)
  BY <1>1, <1>2 DEF StreamInv, Stopping, SeenT
<1>5. /\ hit => Stops /\ StopAt(t) = stop /\ stop + 2 <= Len(t) /\ stop \in Nat
      /\ ~hit => (Stops => Len(t) < stop + 2)
  BY <1>3, <1>4, StopAtIs
<1>6. Len(text) <= Len(t) /\ Len(t) \in Nat /\ Len(t) <= Len(script)
  BY <1>1, <1>2, <1>3
<1>7. StreamLen(t) \in 0..Len(t) /\ Within(t, StreamLen(t), m)
  BY <1>1, <1>2, <1>3, <1>4, <1>6, TokenWithin
<1>8. m \in Nat /\ Reach(text) \in Nat /\ Reach(text) <= m
  BY <1>2, <1>3, <1>6, ReachGrows
<1>9. Fits(script, m, out)
  <2>1. Fits(script, Reach(text), out)
    BY <1>1 DEF StreamInv, Sending
  <2> HIDE DEF m
  <2> QED BY <1>8, <2>1, FitsMore
<1>10. Fits(script, m, out')
  <2>1. Looks(script, t, StreamLen(t), FALSE)
    BY <1>3, <1>7 DEF Looks
  <2> QED BY <1>1, <1>2, <1>7, <1>9, <2>1, UpdateFits
<1>11. m = Reach(text') /\ text' = SubSeq(script, 1, Len(text')) /\ Len(text') \in 0..Len(script)
       /\ (Stops => Len(text') < stop + 2)
  <2>1. CASE hit
    <3>1. stop \in 0..Len(t) /\ stop \in 0..Len(script) /\ stop < Len(t)
      BY <1>2, <1>5, <1>6, <2>1
    <3>2. text' = SubSeq(script, 1, stop)
      BY <1>1, <1>3, <1>5, <2>1, <3>1
    <3>3. Len(text') = stop
      BY <1>2, <3>1, <3>2, SampledBegins
    <3>4. m = stop /\ Reach(text') = stop
      BY <1>5, <2>1, <3>1, <3>3 DEF Reach
    <3> QED BY <1>5, <2>1, <3>1, <3>2, <3>3, <3>4
  <2>2. CASE ~hit
    <3>1. text' = t
      BY <1>1, <2>2
    <3>2. t = SubSeq(script, 1, Len(t))
      BY <1>3 DEF t
    <3> QED BY <1>5, <1>6, <2>2, <3>1, <3>2
  <2> QED BY <2>1, <2>2
<1>12. seen' \in SeenT /\ (hit \/ ~req.stop \/ seen'.stopFrom = StopSafeLen(Len(t)))
  <2>1. ObserveToolMarkers(t) \in SeenT
    <3>1. Window \in Nat
      BY StreamAssumption
    <3> DEFINE a == FindLit(t, Len(t), seen.from, Start("tools"))
               b == IF seen.start THEN seen.from ELSE a
               c == IF b = NotFound THEN NotFound ELSE FindLit(t, Len(t), b, End("tools"))
               d == IF Len(t) > Window THEN Len(t) - Window ELSE 0
    <3>2. ObserveToolMarkers(t) = [seen EXCEPT !.start = @ \/ a # NotFound,
                                               !.end = @ \/ c # NotFound, !.from = d]
      BY Zenon DEF ObserveToolMarkers
    <3>3. d \in Nat
      BY <1>6, <3>1
    <3> HIDE DEF a, b, c, d
    <3>4. (seen.start \/ a # NotFound) \in BOOLEAN /\ (seen.end \/ c # NotFound) \in BOOLEAN
      OBVIOUS
    <3> QED BY <1>2, <3>2, <3>3, <3>4 DEF SeenT
  <2>2. marks \in SeenT
    BY <1>2, <2>1
  <2>3. StopSafeLen(Len(t)) \in Nat
    BY <1>6, StopIs DEF StopSafeLen
  <2> HIDE DEF marks, hit
  <2> QED BY <1>1, <2>2, <2>3 DEF SeenT
<1>13. phase' = "decode" => StopAhead(text', seen'.stopFrom)
  <2> SUFFICES ASSUME phase' = "decode", Stops
               PROVE  seen'.stopFrom <= stop /\ Len(text') < stop + 2
    BY DEF StopAhead
  <2>1. ~hit /\ req.stop /\ stop \in Nat /\ Len(t) < stop + 2
    BY <1>1, <1>2, <1>5, StopOfIs DEF Stops
  <2>2. StopSafeLen(Len(t)) <= stop
    BY <1>6, <2>1, StopIs DEF StopSafeLen
  <2> QED BY <1>11, <1>12, <2>1, <2>2
<1> HIDE DEF m, hit, stop
<1>14. Turn'
  BY <1>1, <1>2, <1>11, <1>12 DEF Turn
<1>15. Sending'
  <2>1. Fits(script, Reach(text), out)'
    BY <1>1, <1>10, <1>11, FitsNext
  <2>2. ~out'.split /\ out'.mode # "gone"
    BY <1>10 DEF Fits
  <2> QED BY <1>1, <2>1, <2>2 DEF Sending, Gone
<1>16. Stopping'
  BY <1>1, <1>11, <1>13 DEF Stopping, StopAhead, Stops, StopOf, stop
<1> QED BY <1>14, <1>15, <1>16 DEF StreamInv

\* after the turn's end,
LEMMA EndTurnStream ==
  ASSUME StreamInv, NEW why, EndTurn(why)
  PROVE  StreamInv'
<1>1. /\ phase = "decode" /\ phase' = "finish" /\ req' = req /\ script' = script /\ text' = text
      /\ seen' = seen /\ out' = out
  BY DEF EndTurn
<1>2. Turn'
  BY <1>1 DEF StreamInv, Turn
<1>3. Reach(text)' = Reach(text) /\ Reach(text') = Reach(text)
  BY <1>1 DEF Reach, Stops, StopOf
<1>4. Sending'
  <2>1. Fits(script, Reach(text'), out')
    BY <1>1, <1>3 DEF StreamInv, Sending
  <2>2. Fits(script, Reach(text), out)'
    BY <1>1, <2>1, FitsNext
  <2> QED BY <1>1, <2>1, <2>2 DEF Sending, Fits
<1>5. Stopping'
  BY <1>1 DEF StreamInv, Stopping, StopAhead, Stops, StopOf
<1> QED BY <1>2, <1>4, <1>5 DEF StreamInv

\* after a lost client,
LEMMA LoseClientStream ==
  ASSUME StreamInv, LoseClient
  PROVE  StreamInv'
<1>1. /\ phase = "decode" /\ phase' = "finish" /\ req' = req /\ script' = script /\ text' = text
      /\ seen' = seen /\ out' = [out EXCEPT !.ok = FALSE, !.mode = "gone"]
  BY DEF LoseClient
<1>2. Turn'
  BY <1>1 DEF StreamInv, Turn
<1>3. Reach(text)' = Reach(text)
  BY <1>1 DEF Reach, Stops, StopOf
<1>4. Sending'
  <2>1. Fits(script, Reach(text), out)
    BY <1>1 DEF StreamInv, Sending
  <2>2. Gone(Reach(text), out') /\ ~out'.split
    BY <1>1, <2>1 DEF Fits, OutT, Gone
  <2>3. Gone(Reach(text), out)'
    BY <1>3, <2>2 DEF Gone
  <2> QED BY <1>1, <2>2, <2>3 DEF Sending
<1>5. Stopping'
  BY <1>1 DEF StreamInv, Stopping, StopAhead, Stops, StopOf
<1> QED BY <1>2, <1>4, <1>5 DEF StreamInv

\* The last look at the text, and what the finish stage adds.
LEMMA LastLook ==
  ASSUME Turn, Fits(script, Reach(text), out), phase = "finish"
  PROVE  LET n == Len(text)
         IN  /\ Fits(text, n, out) /\ Looks(text, text, n, TRUE) /\ Within(text, n, n)
             /\ n \in Nat /\ Fits(text, n, Update(out, text, n, TRUE))
<1>1. /\ req.tools \in BOOLEAN /\ script \in Texts /\ Begins(text, script) /\ text \in Texts
      /\ Len(text) \in Nat /\ Len(text) <= Len(script) /\ Len(script) \in Nat
  BY TurnIs
<1> DEFINE n == Len(text)
<1>2. Reach(text) \in Nat /\ Reach(text) <= n
  BY <1>1, ReachGrows
<1>3. Fits(script, n, out)
  BY <1>1, <1>2, FitsMore
<1>4. \A p : Whole(script, p) /\ p \in Nat => Whole(text, p)
  BY <1>1 DEF Whole, Begins
<1>5. out.pos \in Nat /\ out.tool.pos \in Nat
  BY <1>3 DEF Fits, OutT, ToolT
<1>6. \A o : InTool(script, o) /\ o.tool.pos \in Nat => InTool(text, o)
  BY <1>4 DEF InTool
<1>7. Fits(text, n, out)
  BY <1>3, <1>4, <1>5, <1>6 DEF Fits
<1>8. Looks(text, text, n, TRUE)
  BY <1>1 DEF Looks, Begins
<1>9. Within(text, n, n)
  <2>1. n \in 0..Len(text) /\ n \in n..Len(text)
    BY <1>1
  <2>2. \A p \in Nat : FullLit(text, n, p, End("think")) => p + 3 <= n
    BY <1>1, <2>1, MarkNames, FullEnd
  <2>3. \A p \in Nat : FullLit(text, n, p, Start("tools")) => p + 2 <= n
    BY <1>1, <2>1, MarkNames, FullStart
  <2> QED BY <2>1, <2>2, <2>3 DEF Within
<1>10. Fits(text, n, Update(out, text, n, TRUE))
  BY <1>1, <1>7, <1>8, <1>9, UpdateFits
<1> QED BY <1>1, <1>7, <1>8, <1>9, <1>10

\* (the final message splits no character)
LEMMA FinishSplit ==
  ASSUME NEW t \in Texts, NEW o, Fits(t, Len(t), o), NEW f
  PROVE  ~FinishMessage(o, t, f).split
<1>1. o \in OutT /\ o.ok /\ ~o.split /\ Whole(t, o.pos) /\ o.pos \in Nat
  BY DEF Fits, OutT
<1>2. ~Splits(t, o.pos, Len(t))
  <2>1. Begins(t, t) /\ Len(t) \in 0..Len(t)
    BY LenType DEF Begins
  <2> QED BY <1>1, <2>1, NoSplitFrom
<1>3. ~FinishOpenAI(o, f).split
  BY <1>1 DEF FinishOpenAI, OutT
<1>4. ~FinishAnthropic(o, f).split
  <2> DEFINE opened == OpenBlock(o, "content")
  <2>1. opened \in OutT /\ ~opened.split
    BY <1>1 DEF OpenBlock, OutT
  <2> HIDE DEF opened
  <2>2. CloseBlock(opened) \in OutT /\ ~CloseBlock(opened).split
    BY <2>1 DEF CloseBlock, OutT
  <2> DEFINE empty == o.reasoning # <<>> /\ o.content = <<>> /\ f.calls = <<>>
             o1 == IF empty THEN CloseBlock(opened) ELSE o
             rest == SubSeq(f.calls, (IF o.tool.emitted THEN o.tool.index ELSE 0) + 1, Len(f.calls))
             last == [o1 EXCEPT !.calls = @ \o rest, !.stopped = TRUE, !.legal = @ /\ o1.block = "none"]
  <2>3. FinishAnthropic(o, f) = IF empty /\ ~opened.ok THEN [o EXCEPT !.ok = FALSE] ELSE last
    BY DEF FinishAnthropic, opened
  <2>4. o1 \in OutT /\ ~o1.split
    BY <1>1, <2>2
  <2> HIDE DEF o1, empty, rest
  <2>5. last.split = o1.split
    BY <2>4 DEF OutT
  <2>6. ~[o EXCEPT !.ok = FALSE].split
    BY <1>1 DEF OutT
  <2> HIDE DEF last
  <2> QED BY <2>3, <2>4, <2>5, <2>6
<1>5. ~FinishResponses(o, t, f).split
  <2> DEFINE content == IF f.recovered THEN o.content \o Cut(t, o.pos, Len(t)) ELSE o.content
             split == o.split \/ (f.recovered /\ Splits(t, o.pos, Len(t)))
  <2>1. FinishResponses(o, t, f) = [o EXCEPT !.content = content, !.split = split,
                                             !.calls = f.calls, !.stopped = TRUE]
    BY <1>1 DEF FinishResponses, OutT
  <2>2. ~split
    BY <1>1, <1>2
  <2> HIDE DEF content, split
  <2> QED BY <1>1, <2>1, <2>2 DEF OutT
<1> QED BY <1>1, <1>3, <1>4, <1>5 DEF FinishMessage

\* after the final message,
LEMMA FinishStreamInv ==
  ASSUME StreamInv, Finish
  PROVE  StreamInv'
<1>1. /\ phase = "finish" /\ phase' = "done" /\ req' = req /\ script' = script /\ text' = text
      /\ seen' = seen /\ out' = FinishStream(out, text, final')
  BY DEF Finish
<1>2. Turn'
  BY <1>1 DEF StreamInv, Turn
<1>3. ~out'.split
  <2>1. CASE Gone(Reach(text), out)
    <3>1. ~out.ok /\ ~out.split
      BY <2>1 DEF Gone, StreamInv, Sending
    <3> QED BY <1>1, <3>1 DEF FinishStream, FinishMessage
  <2>2. CASE Fits(script, Reach(text), out)
    <3>1. Fits(text, Len(text), Update(out, text, Len(text), TRUE)) /\ text \in Texts
      BY <1>1, <2>2, LastLook, TurnIs DEF StreamInv
    <3>2. out.ok
      BY <2>2 DEF Fits
    <3> QED BY <1>1, <3>1, <3>2, FinishSplit DEF FinishStream
  <2> QED BY <1>1, <2>1, <2>2 DEF StreamInv, Sending
<1>4. Sending'
  BY <1>1, <1>3 DEF Sending
<1>5. Stopping'
  BY <1>1 DEF StreamInv, Stopping, Stops, StopOf
<1> QED BY <1>2, <1>4, <1>5 DEF StreamInv

\* and when nothing changes.
LEMMA StutterStream ==
  ASSUME StreamInv, UNCHANGED vars
  PROVE  StreamInv'
<1>1. /\ req' = req /\ script' = script /\ text' = text /\ seen' = seen /\ out' = out /\ phase' = phase
  BY DEF vars
<1>2. Turn'
  BY <1>1 DEF StreamInv, Turn
<1>3. Reach(text)' = Reach(text) /\ Reach(text') = Reach(text)
  BY <1>1 DEF Reach, Stops, StopOf
<1>4. Sending'
  <2>1. Fits(script, Reach(text), out) => Fits(script, Reach(text), out)'
    BY <1>1, <1>3, FitsNext
  <2>2. Gone(Reach(text), out)' <=> Gone(Reach(text), out)
    BY <1>1, <1>3 DEF Gone
  <2> QED BY <1>1, <2>1, <2>2 DEF StreamInv, Sending
<1>5. Stopping'
  BY <1>1 DEF StreamInv, Stopping, StopAhead, Stops, StopOf
<1> QED BY <1>2, <1>4, <1>5 DEF StreamInv

\* What has been sent fits the text throughout a turn.
THEOREM StreamInvariant == Spec => []StreamInv
<1>1. Init => StreamInv
  BY InitStream
<1>2. StreamInv /\ [Next]_vars => StreamInv'
  <2> SUFFICES ASSUME StreamInv, [Next]_vars PROVE StreamInv'
    OBVIOUS
  <2>1. ASSUME NEW k \in 1..MaxToken, Token(k) PROVE StreamInv'
    BY <2>1, TokenStream
  <2>2. ASSUME NEW why \in {"stop", "length", "error"}, EndTurn(why) PROVE StreamInv'
    BY <2>2, EndTurnStream
  <2>3. CASE LoseClient
    BY <2>3, LoseClientStream
  <2>4. CASE Finish
    BY <2>4, FinishStreamInv
  <2>5. CASE UNCHANGED vars
    BY <2>5, StutterStream
  <2> QED BY <2>1, <2>2, <2>3, <2>4, <2>5 DEF Next
<1> QED BY <1>1, <1>2, PTL DEF Spec

\* No delta begins in the middle of a character, however the tokens cut the text.
THEOREM SplitsNone == Spec => []NoSplitCharacters
<1>1. StreamInv => NoSplitCharacters
  BY DEF StreamInv, Sending, NoSplitCharacters
<1> QED BY <1>1, StreamInvariant, PTL

\* Nothing of a stop string is shown while the model goes on, and it is gone from the text.
THEOREM StopsBeforeStop == Spec => []StopNotShown
<1>1. StreamInv => StopNotShown
  <2> SUFFICES ASSUME StreamInv, Stops
               PROVE  /\ phase # "done" => out.pos <= StopOf(script) /\ out.tool.pos <= StopOf(script)
                      /\ Len(text) < StopOf(script) + 2
    BY StopIs DEF StopNotShown, Stops, StopOf
  <2>1. script \in Texts /\ text \in Texts /\ Len(text) \in Nat
    BY TurnIs DEF StreamInv
  <2>2. StopOf(script) \in Nat /\ Len(text) < StopOf(script) + 2
    BY <2>1, StopOfIs DEF StreamInv, Stopping, Stops
  <2>3. Reach(text) <= StopOf(script) /\ Reach(text) \in Nat
    BY <2>1, <2>2 DEF Reach
  <2>4. ASSUME phase # "done" PROVE out.pos <= StopOf(script) /\ out.tool.pos <= StopOf(script)
    <3>1. out.pos <= Reach(text) /\ out.tool.pos <= Reach(text)
      BY <2>4 DEF StreamInv, Sending, Gone, Fits
    <3>2. out.pos \in Nat /\ out.tool.pos \in Nat
      BY <2>4 DEF StreamInv, Sending, Gone, Fits, OutT, ToolT
    <3> QED BY <2>2, <2>3, <3>1, <3>2
  <2> QED BY <2>2, <2>4
<1> QED BY <1>1, StreamInvariant, PTL

-----------------------------------------------------------------------------
(* What has been shown as reasoning and content.                           *)

\* A cut of the start is one of the whole.
LEMMA CutBegins ==
  ASSUME NEW t, NEW s, Begins(t, s), NEW from \in Nat, NEW to \in 0..Len(t)
  PROVE  Cut(t, from, to) = Cut(s, from, to)
BY BeginsCut DEF Cut

\* The empty cut.
LEMMA CutNone ==
  ASSUME NEW t \in Texts, NEW p \in 0..Len(t)
  PROVE  Cut(t, p, p) = <<>>
<1>1. Cut(t, p, p) \in Texts /\ Len(Cut(t, p, p)) = p - p /\ p \in Nat
  <2>1. p \in Nat /\ p <= p
    BY LenType
  <2> QED BY <2>1, CutIs
<1>2. Len(Cut(t, p, p)) = 0
  BY <1>1
<1> QED BY <1>1, <1>2, EmptySeq DEF Texts

\* Two cuts that follow one another are one.
LEMMA CutJoins ==
  ASSUME NEW t \in Texts, NEW from \in Nat, NEW mid \in Nat, NEW to \in 0..Len(t),
         from <= mid, mid <= to
  PROVE  Cut(t, from, mid) \o Cut(t, mid, to) = Cut(t, from, to)
<1> DEFINE a == Cut(t, from, mid)
           b == Cut(t, mid, to)
           c == Cut(t, from, to)
<1>1. Len(t) \in Nat /\ to \in Nat /\ mid \in 0..Len(t) /\ from <= to
  BY LenType
<1>2. a \in Seq(Atom) /\ Len(a) = mid - from /\ \A i \in 1..(mid - from) : a[i] = t[from + i]
  BY <1>1, CutIs DEF Texts
<1>3. b \in Seq(Atom) /\ Len(b) = to - mid /\ \A i \in 1..(to - mid) : b[i] = t[mid + i]
  BY <1>1, CutIs DEF Texts
<1>4. c \in Seq(Atom) /\ Len(c) = to - from /\ \A i \in 1..(to - from) : c[i] = t[from + i]
  BY <1>1, CutIs DEF Texts
<1> HIDE DEF a, b, c
<1>5. /\ a \o b \in Seq(Atom) /\ Len(a \o b) = Len(a) + Len(b)
      /\ \A i \in 1..(Len(a) + Len(b)) : (a \o b)[i] = IF i <= Len(a) THEN a[i] ELSE b[i - Len(a)]
  BY <1>2, <1>3, ConcatProperties
<1> DEFINE d == a \o b
<1> HIDE DEF d
<1>6. d \in Seq(Atom) /\ Len(d) = Len(c)
  BY <1>1, <1>2, <1>3, <1>4, <1>5 DEF d
<1>7. ASSUME NEW i \in 1..Len(d) PROVE d[i] = c[i]
  <2>1. d[i] = IF i <= Len(a) THEN a[i] ELSE b[i - Len(a)]
    BY <1>2, <1>3, <1>5, <1>6, <1>7 DEF d
  <2>2. CASE i <= mid - from
    BY <1>1, <1>2, <1>4, <1>6, <2>1, <2>2
  <2>3. CASE ~(i <= mid - from)
    <3>1. i - (mid - from) \in 1..(to - mid) /\ mid + (i - (mid - from)) = from + i
          /\ i \in 1..(to - from)
      BY <1>1, <1>4, <1>6, <2>3
    <3> QED BY <1>1, <1>2, <1>3, <1>4, <2>1, <2>3, <3>1
  <2> QED BY <2>2, <2>3
<1>8. d = c
  BY <1>4, <1>6, <1>7, SeqEqual
<1> QED BY <1>8 DEF a, b, c, d

\* A delta that goes on where the last one ended.
LEMMA MoreIs ==
  ASSUME NEW t, NEW s, Begins(t, s), NEW from \in Nat, NEW pos \in Nat, from <= pos,
         NEW to \in 0..Len(t), NEW after, Adds(Cut(s, from, pos), after, More(t, pos, to)),
         pos <= Len(s)
  PROVE  after = Cut(s, from, IF to <= pos THEN pos ELSE to)
<1>1. s \in Texts /\ Len(s) \in Nat /\ Len(t) \in Nat /\ Len(t) <= Len(s) /\ pos \in 0..Len(s)
  BY LenType DEF Begins
<1>2. CASE to <= pos
  <2>1. Cut(s, from, pos) \in Seq(Atom)
    BY <1>1, CutIs DEF Texts
  <2> DEFINE a == Cut(s, from, pos)
  <2> HIDE DEF a
  <2>2. a \in Seq(Atom) /\ after = a \o <<>>
    BY <1>2, <2>1 DEF Adds, More, a
  <2>3. after = a
    BY <2>2, ConcatEmptySeq
  <2> QED BY <1>2, <2>3 DEF a
<1>3. CASE ~(to <= pos)
  <2>1. to \in 0..Len(s) /\ pos <= to
    BY <1>1, <1>3
  <2>2. Cut(t, pos, to) = Cut(s, pos, to)
    BY CutBegins
  <2>3. after = Cut(s, from, pos) \o Cut(s, pos, to)
    BY <1>3, <2>2 DEF Adds, More
  <2> QED BY <1>1, <1>3, <2>1, <2>3, CutJoins
<1> QED BY <1>2, <1>3

\* What is searched for in a text from before its first place on is found there, once it is whole.
LEMMA SearchIs ==
  ASSUME NEW t, NEW s, Begins(t, s), NEW p \in Nat, NEW lit \in Seq(Atom),
         FindLit(s, Len(s), 0, lit) # NotFound => p <= FindLit(s, Len(s), 0, lit)
  PROVE  LET f == FindLit(s, Len(s), 0, lit)
             q == FindLit(t, Len(t), p, lit)
         IN  /\ q # NotFound => q = f /\ f \in Nat /\ f + Len(lit) <= Len(t)
             /\ q = NotFound /\ f # NotFound => f \in Nat /\ f + Len(lit) > Len(t)
<1> DEFINE f == FindLit(s, Len(s), 0, lit)
           q == FindLit(t, Len(t), p, lit)
<1>1. /\ s \in Texts /\ Len(s) \in Nat /\ Len(t) \in Nat /\ Len(t) <= Len(s) /\ 0 \in Nat
      /\ Len(t) \in 0..Len(t) /\ Len(lit) \in Nat
  BY LenType DEF Begins
<1>2. \/ f = NotFound /\ \A i \in 0..Len(s) : ~FullLit(s, Len(s), i, lit)
      \/ f \in 0..Len(s) /\ FullLit(s, Len(s), f, lit)
         /\ \A i \in 0..Len(s) : FullLit(s, Len(s), i, lit) => f <= i
  BY ONLY <1>1, FindLitIs
<1>3. \/ q = NotFound /\ \A i \in p..Len(t) : ~FullLit(t, Len(t), i, lit)
      \/ q \in p..Len(t) /\ FullLit(t, Len(t), q, lit)
         /\ \A i \in p..Len(t) : FullLit(t, Len(t), i, lit) => q <= i
  BY <1>1, FindLitIs
<1>4. f # NotFound => p <= f
  OBVIOUS
<1> HIDE DEF f, q
<1>5. \A i \in Nat : FullLit(t, Len(t), i, lit) <=> FullLit(s, Len(t), i, lit)
  BY <1>1, BeginsLit
<1>6. \A i \in Nat : FullLit(s, Len(t), i, lit) <=> FullLit(s, Len(s), i, lit) /\ i + Len(lit) <= Len(t)
  BY <1>1 DEF FullLit
<1>7. ASSUME q # NotFound PROVE q = f /\ f \in Nat /\ f + Len(lit) <= Len(t)
  <2>1. q \in p..Len(t) /\ q \in Nat /\ FullLit(s, Len(s), q, lit) /\ q + Len(lit) <= Len(t)
    BY <1>1, <1>3, <1>5, <1>6, <1>7
  <2>2. q \in 0..Len(s)
    BY <1>1, <2>1
  <2>3. f \in 0..Len(s) /\ FullLit(s, Len(s), f, lit) /\ f <= q /\ f # NotFound
    BY <1>2, <2>1, <2>2 DEF NotFound
  <2>4. f \in p..Len(t) /\ f + Len(lit) <= Len(t) /\ f \in Nat
    BY <1>1, <1>4, <2>1, <2>3
  <2>5. q <= f
    BY <1>3, <1>5, <1>6, <1>7, <2>3, <2>4
  <2> QED BY <2>1, <2>3, <2>4, <2>5
<1>8. ASSUME q = NotFound, f # NotFound PROVE f \in Nat /\ f + Len(lit) > Len(t)
  <2>1. f \in Nat /\ p <= f /\ FullLit(s, Len(s), f, lit)
    BY <1>1, <1>2, <1>4, <1>8
  <2>2. ASSUME f + Len(lit) <= Len(t) PROVE FALSE
    <3>1. f \in p..Len(t) /\ FullLit(t, Len(t), f, lit)
      BY <1>1, <1>5, <1>6, <2>1, <2>2
    <3>2. ~(q \in p..Len(t))
      BY <1>1, <1>8 DEF NotFound
    <3> QED BY <1>3, <3>1, <3>2
  <2> QED BY <1>1, <2>1, <2>2
<1> QED BY <1>7, <1>8 DEF f, q

\* A marker found in a text is the one that is found when the text goes on, and one that is not
\* found ends behind it.
LEMMA MarksGrow ==
  ASSUME NEW t, NEW s, Begins(t, s)
  PROVE  /\ Opened(t) # NotFound => Opened(t) = Opened(s) /\ Opened(t) \in Nat /\ Opened(t) + 3 <= Len(t)
         /\ Opened(t) = NotFound /\ Opened(s) # NotFound => Opened(s) \in Nat /\ Opened(s) + 3 > Len(t)
         /\ ToolStart(t) # NotFound => /\ ToolStart(t) = ToolStart(s) /\ ToolStart(t) \in Nat
                                       /\ ToolStart(t) + 2 <= Len(t)
         /\ ToolStart(t) = NotFound /\ ToolStart(s) # NotFound =>
              ToolStart(s) \in Nat /\ ToolStart(s) + 2 > Len(t)
<1>1. Len(s) \in Nat /\ 0 \in Nat
  BY LenType DEF Begins
<1>2. ASSUME NEW lit \in Seq(Atom)
      PROVE  LET f == FindLit(s, Len(s), 0, lit)
                 q == FindLit(t, Len(t), 0, lit)
             IN  /\ q # NotFound => q = f /\ f \in Nat /\ f + Len(lit) <= Len(t)
                 /\ q = NotFound /\ f # NotFound => f \in Nat /\ f + Len(lit) > Len(t)
  <2>1. FindLit(s, Len(s), 0, lit) = NotFound \/ FindLit(s, Len(s), 0, lit) \in 0..Len(s)
    BY ONLY <1>1, FindLitIs
  <2>2. FindLit(s, Len(s), 0, lit) # NotFound => 0 <= FindLit(s, Len(s), 0, lit)
    BY <1>1, <2>1
  <2> QED BY ONLY <1>1, <2>2, Begins(t, s), lit \in Seq(Atom), SearchIs
<1> DEFINE l == Start("tools")
           k == End("think")
<1>3. l \in Seq(Atom) /\ Len(l) = 2 /\ k \in Seq(Atom) /\ Len(k) = 3
  BY MarkNames, MarkerType
<1>4. /\ ToolStart(t) = FindLit(t, Len(t), 0, l) /\ ToolStart(s) = FindLit(s, Len(s), 0, l)
      /\ Opened(t) = FindLit(t, Len(t), 0, k) /\ Opened(s) = FindLit(s, Len(s), 0, k)
  BY DEF ToolStart, Opened
<1> HIDE DEF l, k
<1> QED BY <1>2, <1>3, <1>4

\* Where the reasoning and the content of a text begin and end, for a text that thinks first.
Skips(s) == IF FullLit(s, Len(s), 0, Start("think")) THEN 2 ELSE 0

\* Where the content begins.
From(s) == IF req.think THEN Opened(s) + 3 ELSE 0

Ends(s) ==
  IF req.tools /\ ToolStart(s) # NotFound THEN TrimWs(s, From(s), ToolStart(s)) ELSE Len(s)

Thoughts(s) == IF req.think THEN Cut(s, Skips(s), Opened(s)) ELSE <<>>

Shaped(s) ==
  req.think => Opened(s) # NotFound /\ (ToolStart(s) = NotFound \/ Opened(s) < ToolStart(s))

\* What is shown is the reasoning and the content, as far as the projection has come.
Prose(s, o) ==
  /\ o.mode = "thinking" =>
       /\ req.think /\ o.content = <<>> /\ o.pos <= Opened(s)
       /\ IF o.checked THEN Skips(s) <= o.pos /\ o.reasoning = Cut(s, Skips(s), o.pos)
          ELSE o.pos = 0 /\ o.reasoning = <<>>
  /\ o.mode = "text" =>
       /\ o.pos \in From(s)..Ends(s)
       /\ o.content = Cut(s, From(s), o.pos) /\ o.reasoning = Thoughts(s)
  /\ o.mode \in {"tool", "suppress"} =>
       /\ o.content = Cut(s, From(s), Ends(s)) /\ o.reasoning = Thoughts(s)
       /\ req.tools /\ ToolStart(s) # NotFound => o.pos = ToolStart(s)

LEMMA MarkIs ==
  ASSUME NEW s \in Texts
  PROVE  /\ \/ Opened(s) = NotFound
            \/ /\ Opened(s) \in Nat /\ Opened(s) + 3 <= Len(s) /\ s[Opened(s) + 1] = "<"
               /\ s[Opened(s) + 2] = "/" /\ s[Opened(s) + 3] = "think"
         /\ \/ ToolStart(s) = NotFound
            \/ /\ ToolStart(s) \in Nat /\ ToolStart(s) + 2 <= Len(s)
               /\ s[ToolStart(s) + 1] = "<" /\ s[ToolStart(s) + 2] = "tools"
         /\ Skips(s) = 0 \/ (Skips(s) = 2 /\ 2 <= Len(s) /\ s[1] = "<" /\ s[2] = "think")
<1>1. Len(s) \in Nat /\ Len(s) \in 0..Len(s) /\ 0 \in Nat
  BY LenType
<1>2. Opened(s) = NotFound \/ (Opened(s) \in 0..Len(s) /\ FullLit(s, Len(s), Opened(s), End("think")))
  BY <1>1, FindLitIs DEF Opened
<1>3. ToolStart(s) = NotFound
      \/ (ToolStart(s) \in 0..Len(s) /\ FullLit(s, Len(s), ToolStart(s), Start("tools")))
  BY <1>1, FindLitIs DEF ToolStart
<1>4. \A p \in Nat : FullLit(s, Len(s), p, End("think")) =>
        p + 3 <= Len(s) /\ s[p + 1] = "<" /\ s[p + 2] = "/" /\ s[p + 3] = "think"
  BY <1>1, MarkNames, FullEnd
<1>5. \A p \in Nat : FullLit(s, Len(s), p, Start("tools")) =>
        p + 2 <= Len(s) /\ s[p + 1] = "<" /\ s[p + 2] = "tools"
  BY <1>1, MarkNames, FullStart
<1>6. FullLit(s, Len(s), 0, Start("think")) => 0 + 2 <= Len(s) /\ s[0 + 1] = "<" /\ s[0 + 2] = "think"
  BY <1>1, MarkNames, FullStart
<1>7. Skips(s) = 0 \/ (Skips(s) = 2 /\ FullLit(s, Len(s), 0, Start("think")))
  BY DEF Skips
<1> QED BY <1>1, <1>2, <1>3, <1>4, <1>5, <1>6, <1>7

LEMMA ShapeIs ==
  ASSUME NEW s \in Texts, Shaped(s)
  PROVE  /\ req.think => /\ Opened(s) \in Nat /\ Skips(s) <= Opened(s)
         /\ From(s) \in Nat /\ From(s) <= Len(s) /\ Skips(s) \in Nat
         /\ Ends(s) \in From(s)..Len(s)
         /\ req.tools /\ ToolStart(s) # NotFound =>
              /\ ToolStart(s) \in Nat /\ From(s) <= ToolStart(s) /\ Ends(s) <= ToolStart(s)
              /\ Ends(s) = From(s) \/ s[Ends(s)] # "w"
              /\ \A i \in (Ends(s) + 1)..ToolStart(s) : s[i] = "w"
              /\ s[ToolStart(s) + 1] = "<" /\ s[ToolStart(s) + 2] = "tools"
              /\ ToolStart(s) + 2 <= Len(s)
         /\ ~(req.tools /\ ToolStart(s) # NotFound) => Ends(s) = Len(s)
<1> DEFINE a == ToolStart(s)
           c == Opened(s)
           f == From(s)
<1>1. Len(s) \in Nat
  BY LenType
<1>2. /\ c = NotFound \/ (c \in Nat /\ c + 3 <= Len(s) /\ s[c + 1] = "<" /\ s[c + 2] = "/" /\ s[c + 3] = "think")
      /\ a = NotFound \/ (a \in Nat /\ a + 2 <= Len(s) /\ s[a + 1] = "<" /\ s[a + 2] = "tools")
      /\ Skips(s) = 0 \/ (Skips(s) = 2 /\ 2 <= Len(s) /\ s[1] = "<" /\ s[2] = "think")
  BY MarkIs
<1>3. /\ req.think => c # NotFound /\ (a = NotFound \/ c < a)
      /\ f = (IF req.think THEN c + 3 ELSE 0)
  BY DEF Shaped, From
<1>4. Ends(s) = IF req.tools /\ a # NotFound THEN TrimWs(s, f, a) ELSE Len(s)
  BY DEF Ends
<1> HIDE DEF a, c, f
<1>5. req.think => c \in Nat /\ Skips(s) <= c
  <2> SUFFICES ASSUME req.think PROVE c \in Nat /\ Skips(s) <= c
    OBVIOUS
  <2>1. c \in Nat /\ s[c + 1] = "<" /\ s[c + 2] = "/"
    BY <1>2, <1>3
  <2>2. Skips(s) = 2 => c # 0 /\ c # 1
    BY <1>2, <2>1
  <2> QED BY <1>2, <2>1, <2>2
<1>6. f \in Nat /\ f <= Len(s) /\ Skips(s) \in Nat
  BY <1>1, <1>2, <1>3
<1>7. ASSUME req.tools, a # NotFound
      PROVE  /\ a \in Nat /\ f <= a /\ Ends(s) \in f..a
             /\ Ends(s) = f \/ s[Ends(s)] # "w"
             /\ \A i \in (Ends(s) + 1)..a : s[i] = "w"
             /\ s[a + 1] = "<" /\ s[a + 2] = "tools" /\ a + 2 <= Len(s)
  <2>1. a \in Nat /\ a + 2 <= Len(s) /\ s[a + 1] = "<" /\ s[a + 2] = "tools"
    BY <1>2, <1>7
  <2>2. f <= a
    <3>1. CASE req.think
      <4>1. c \in Nat /\ c < a /\ s[c + 2] = "/" /\ s[c + 3] = "think" /\ f = c + 3
        BY <1>2, <1>3, <1>7, <3>1
      <4>2. a # c + 1 /\ a # c + 2
        BY <2>1, <4>1
      <4> QED BY <2>1, <4>1, <4>2
    <3>2. CASE ~req.think
      BY <1>3, <2>1, <3>2
    <3> QED BY <3>1, <3>2
  <2>3. Ends(s) = TrimWs(s, f, a)
    BY <1>4, <1>7
  <2>4. /\ Ends(s) \in f..a /\ (Ends(s) = f \/ s[Ends(s)] # "w")
        /\ \A i \in (Ends(s) + 1)..a : s[i] = "w"
    <3>1. f \in Nat /\ a \in Nat /\ f <= a
      BY <1>6, <2>1, <2>2
    <3> DEFINE q == TrimWs(s, f, a)
    <3>2. q \in f..a /\ (q = f \/ s[q] # "w") /\ \A i \in (q + 1)..a : s[i] = "w"
      BY ONLY <3>1, TrimWsIs
    <3>3. Ends(s) = q
      BY <2>3
    <3> HIDE DEF q
    <3> QED BY <3>2, <3>3
  <2> QED BY <2>1, <2>2, <2>4
<1>8. Ends(s) \in f..Len(s)
  BY <1>1, <1>4, <1>6, <1>7
<1> QED BY <1>4, <1>5, <1>6, <1>7, <1>8 DEF a, c, f

\* A repeated think marker is skipped if, and only if, the text begins with one.
LEMMA ProseCheck ==
  ASSUME NEW s, NEW t, NEW n, NEW last, Looks(s, t, n, last), NEW m, Within(t, n, m),
         NEW o, Fits(s, m, o), o.mode = "thinking", Shaped(s), Prose(s, o)
  PROVE  LET r == CheckThinkPrefix(o, t, n, last)
         IN  Fits(s, m, r) /\ r.mode = "thinking" /\ Prose(s, r)
<1> DEFINE r == CheckThinkPrefix(o, t, n, last)
           skip == FullLit(t, n, 0, Start("think"))
           waits == ~last /\ PartialLit(t, n, 0, Start("think"), 0)
<1>1. /\ Fits(s, m, r) /\ r.mode = "thinking" /\ r.reasoning = o.reasoning
      /\ r.content = o.content
      /\ \/ (o.checked \/ waits) /\ r = o
         \/ /\ ~o.checked /\ ~waits /\ r.checked
            /\ r.pos = IF skip THEN 2 ELSE o.pos
  BY CheckIs
<1>2. /\ s \in Texts /\ t \in Texts /\ Len(t) \in Nat /\ Len(s) \in Nat /\ Len(t) <= Len(s)
      /\ n \in 0..Len(t) /\ n \in Nat
      /\ (last => s = t /\ n = Len(t)) /\ \A i \in 1..Len(t) : t[i] = s[i]
  BY LenType DEF Looks, Begins
<1>3. /\ skip <=> 0 + 2 <= n /\ t[0 + 1] = "<" /\ t[0 + 2] = "think"
      /\ FullLit(s, Len(s), 0, Start("think")) <=> 0 + 2 <= Len(s) /\ s[0 + 1] = "<" /\ s[0 + 2] = "think"
      /\ PartialLit(t, n, 0, Start("think"), 0) <=> 0 = n \/ (0 + 1 = n /\ t[0 + 1] = "<")
  <2>1. 0 \in Nat /\ Len(s) \in 0..Len(s)
    BY <1>2
  <2> QED BY <1>2, <2>1, MarkNames, FullStart, PartialStart
<1>4. Skips(s) = IF FullLit(s, Len(s), 0, Start("think")) THEN 2 ELSE 0
  BY DEF Skips
<1>5. /\ req.think => Opened(s) \in Nat /\ Skips(s) <= Opened(s)
      /\ Skips(s) \in Nat
  BY <1>2, ShapeIs
<1>6. /\ req.think /\ o.content = <<>> /\ o.pos <= Opened(s)
      /\ o.checked \/ (o.pos = 0 /\ o.reasoning = <<>>)
  BY DEF Prose
<1> HIDE DEF r
<1>7. CASE r = o
  BY <1>1, <1>7 DEF r
<1>8. CASE r # o
  <2>1. ~o.checked /\ ~waits /\ r.checked /\ r.pos = IF skip THEN 2 ELSE o.pos
    BY <1>1, <1>8
  <2>2. skip <=> FullLit(s, Len(s), 0, Start("think"))
    <3>1. CASE last
      BY <1>2, <3>1
    <3>2. CASE ~last
      <4>1. ~(0 = n \/ (0 + 1 = n /\ t[0 + 1] = "<"))
        BY <1>3, <2>1, <3>2
      <4> HIDE DEF skip, waits
      <4> QED BY <1>2, <1>3, <4>1
    <3> QED BY <3>1, <3>2
  <2>3. r.pos = Skips(s)
    BY <1>4, <1>6, <2>1, <2>2
  <2>4. Cut(s, Skips(s), Skips(s)) = <<>>
    <3>1. Skips(s) \in 0..Len(s)
      BY <1>2, MarkIs
    <3> QED BY <1>2, <3>1, CutNone
  <2> HIDE DEF skip, waits
  <2>5. Prose(s, r)
    BY <1>1, <1>5, <1>6, <2>1, <2>3, <2>4 DEF Prose
  <2> QED BY <1>1, <2>5 DEF r
<1> QED BY <1>7, <1>8

\* The reasoning is shown up to its end marker, and never an atom of the marker.
LEMMA ProseThinking ==
  ASSUME NEW s, NEW t, NEW n, NEW last, Looks(s, t, n, last), NEW m, Within(t, n, m),
         NEW o, Fits(s, m, o), o.mode = "thinking", o.checked, Shaped(s), Prose(s, o)
  PROVE  Prose(s, Thinking(o, t, n, last))
<1> DEFINE r == Thinking(o, t, n, last)
           close == FindLit(t, Len(t), o.pos, End("think"))
           hold == HoldThink(o, t, n)
           limit == IF close # NotFound THEN close ELSE IF last THEN n ELSE hold
           pos == IF limit <= o.pos THEN o.pos ELSE limit
<1>1. /\ limit \in 0..m
      /\ Adds(o.reasoning, r.reasoning, More(t, o.pos, limit)) /\ r.content = o.content
      /\ r.checked
      /\ \/ close # NotFound /\ r.mode = "text" /\ r.pos = close + 3
         \/ close = NotFound /\ last /\ r.mode = "suppress"
         \/ close = NotFound /\ ~last /\ r.mode = "thinking" /\ r.pos = pos
  <2> HIDE DEF hold
  <2> QED BY ThinkingIs DEF hold
<1>2. /\ Begins(t, s) /\ s \in Texts /\ t \in Texts /\ Len(t) \in Nat /\ Len(s) \in Nat /\ Len(t) <= Len(s)
      /\ n \in 0..Len(t) /\ n \in Nat /\ m \in n..Len(t) /\ m \in Nat /\ o.pos \in Nat /\ o.pos <= m
      /\ last \in BOOLEAN /\ (last => s = t /\ n = Len(t))
  BY LenType DEF Looks, Begins, Within, Fits, OutT
<1>3. /\ req.think /\ o.content = <<>> /\ o.pos <= Opened(s)
      /\ Skips(s) <= o.pos /\ o.reasoning = Cut(s, Skips(s), o.pos)
  BY DEF Prose
<1>4. /\ Opened(s) \in Nat /\ Opened(s) + 3 <= Len(s) /\ Skips(s) \in Nat
      /\ From(s) = Opened(s) + 3 /\ Ends(s) \in From(s)..Len(s)
      /\ Thoughts(s) = Cut(s, Skips(s), Opened(s))
  BY <1>2, <1>3, ShapeIs DEF From, Thoughts
<1>5. /\ close # NotFound => close = Opened(s)
      /\ close = NotFound => Opened(s) + 3 > Len(t)
  <2>1. End("think") \in Seq(Atom) /\ Len(End("think")) = 3
    BY MarkNames, MarkerType
  <2>2. Opened(s) = FindLit(s, Len(s), 0, End("think"))
    BY DEF Opened
  <2>3. Opened(s) # NotFound
    BY <1>4 DEF NotFound
  <2> DEFINE lit == End("think")
  <2> HIDE DEF lit
  <2>4. LET f == FindLit(s, Len(s), 0, lit)
            q == FindLit(t, Len(t), o.pos, lit)
        IN  /\ q # NotFound => q = f /\ f \in Nat /\ f + Len(lit) <= Len(t)
            /\ q = NotFound /\ f # NotFound => f \in Nat /\ f + Len(lit) > Len(t)
    <3>1. lit \in Seq(Atom) /\ (FindLit(s, Len(s), 0, lit) # NotFound => o.pos <= FindLit(s, Len(s), 0, lit))
      BY <1>3, <2>1, <2>2 DEF lit
    <3> QED BY ONLY <1>2, <3>1, SearchIs
  <2> QED BY <2>1, <2>2, <2>3, <2>4 DEF lit
<1>6. hold <= Opened(s) \/ Opened(s) + 3 <= Len(t)
  <2> DEFINE most == IF n > 2 THEN n - 2 ELSE o.pos
  <2>1. most \in 0..Len(t)
    BY <1>2
  <2>2. hold = Utf8SafeLen(t, o.pos, most)
    BY DEF HoldThink
  <2>3. hold \in 0..most
    <3> HIDE DEF hold, most
    <3> QED BY ONLY <1>2, <2>1, <2>2, Utf8SafeLenIs
  <2>4. most <= Opened(s) \/ Opened(s) + 3 <= Len(t)
    BY <1>2, <1>3, <1>4
  <2> HIDE DEF hold, most
  <2> QED BY <1>2, <1>4, <2>1, <2>3, <2>4
<1> HIDE DEF r, close, hold
<1>7. r.reasoning = Cut(s, Skips(s), pos)
  <2>1. limit \in 0..Len(t) /\ o.pos <= Len(s)
    BY <1>1, <1>2
  <2> HIDE DEF limit
  <2> QED BY <1>1, <1>2, <1>3, <1>4, <2>1, MoreIs
<1>8. CASE close # NotFound
  <2>1. pos = Opened(s) /\ r.mode = "text" /\ r.pos = From(s)
    BY <1>1, <1>2, <1>3, <1>4, <1>5, <1>8
  <2>2. Cut(s, From(s), From(s)) = <<>>
    <3>1. From(s) \in 0..Len(s)
      BY <1>2, <1>4
    <3> QED BY <1>2, <3>1, CutNone
  <2>3. From(s) \in From(s)..Ends(s)
    BY <1>2, <1>4
  <2> HIDE DEF pos, limit
  <2> QED BY <1>1, <1>3, <1>4, <1>7, <2>1, <2>2, <2>3 DEF Prose, r
<1>9. CASE close = NotFound /\ last
  BY <1>2, <1>4, <1>5, <1>9
<1>10. CASE close = NotFound /\ ~last
  <2>1. limit = hold /\ hold <= Opened(s)
    BY <1>2, <1>4, <1>5, <1>6, <1>10
  <2>2. pos <= Opened(s) /\ Skips(s) <= pos /\ r.mode = "thinking" /\ r.pos = pos
    BY <1>1, <1>2, <1>3, <1>4, <1>10, <2>1
  <2> HIDE DEF pos, limit
  <2> QED BY <1>1, <1>3, <1>7, <2>2 DEF Prose, r
<1> QED BY <1>2, <1>8, <1>9, <1>10

\* Tool markers that are whole begin where the projection may look.
Sees(t, n) == \A p \in Nat : FullLit(t, Len(t), p, Start("tools")) => p < n

\* The content is shown up to the space before a tool block, and never an atom of its marker.
LEMMA ProseText ==
  ASSUME NEW s, NEW t, NEW n, NEW last, Looks(s, t, n, last), NEW m, Within(t, n, m), Sees(t, n),
         NEW o, Fits(s, m, o), o.mode = "text", req.tools \in BOOLEAN, Shaped(s), Prose(s, o)
  PROVE  Prose(s, TextPart(o, t, n, last))
<1> DEFINE r == TextPart(o, t, n, last)
           found == FindLit(t, Len(t), o.pos, Start("tools"))
           tool == IF req.tools THEN found ELSE NotFound
           limit == TextSafeLimit(t, o.pos, n, req.tools, last)
           pos == IF limit <= o.pos THEN o.pos ELSE limit
           hold == HoldMarker(t, o.pos, n)
           a == ToolStart(s)
           e == Ends(s)
<1>1. /\ limit \in 0..m
      /\ Adds(o.content, r.content, More(t, o.pos, limit)) /\ r.reasoning = o.reasoning
      /\ \/ tool # NotFound /\ r.mode \in {"tool", "suppress"} /\ r.pos = tool
         \/ tool = NotFound /\ last /\ r.mode = "suppress"
         \/ tool = NotFound /\ ~last /\ r.mode = "text" /\ r.pos = pos
  <2> HIDE DEF limit
  <2> QED BY TextPartIs DEF limit
<1>2. /\ Begins(t, s) /\ s \in Texts /\ t \in Texts /\ Len(t) \in Nat /\ Len(s) \in Nat /\ Len(t) <= Len(s)
      /\ n \in 0..Len(t) /\ n \in Nat /\ m \in n..Len(t) /\ m \in Nat /\ o.pos \in Nat /\ o.pos <= m
      /\ last \in BOOLEAN /\ (last => s = t /\ n = Len(t)) /\ \A i \in 1..Len(t) : t[i] = s[i]
  BY LenType DEF Looks, Begins, Within, Fits, OutT
<1>3. /\ o.pos \in From(s)..e /\ o.content = Cut(s, From(s), o.pos) /\ o.reasoning = Thoughts(s)
  BY DEF Prose
<1>4. /\ From(s) \in Nat /\ From(s) <= Len(s) /\ e \in From(s)..Len(s)
      /\ req.tools /\ a # NotFound =>
           /\ a \in Nat /\ From(s) <= a /\ e <= a
           /\ e = From(s) \/ s[e] # "w"
           /\ \A i \in (e + 1)..a : s[i] = "w"
           /\ s[a + 1] = "<" /\ a + 2 <= Len(s)
      /\ ~(req.tools /\ a # NotFound) => e = Len(s)
  BY <1>2, ShapeIs
<1>5. /\ n <= o.pos => limit = n
      /\ n > o.pos /\ req.tools /\ found # NotFound => limit = TrimWs(t, o.pos, found)
      /\ n > o.pos /\ req.tools /\ found = NotFound /\ ~last => limit <= hold
      /\ n > o.pos /\ last /\ (req.tools => found = NotFound) => limit = n
  <2> HIDE DEF hold
  <2> QED BY <1>2, TextSafeLimitIs DEF hold
<1>6. req.tools =>
        /\ found # NotFound => found = a /\ a \in Nat /\ a + 2 <= Len(t)
        /\ found = NotFound /\ a # NotFound => a \in Nat /\ a + 2 > Len(t)
  <2> SUFFICES ASSUME req.tools
               PROVE  /\ found # NotFound => found = a /\ a \in Nat /\ a + 2 <= Len(t)
                      /\ found = NotFound /\ a # NotFound => a \in Nat /\ a + 2 > Len(t)
    OBVIOUS
  <2> DEFINE lit == Start("tools")
  <2>1. lit \in Seq(Atom) /\ Len(lit) = 2
    BY MarkNames, MarkerType
  <2> HIDE DEF lit
  <2>2. a = FindLit(s, Len(s), 0, lit) /\ found = FindLit(t, Len(t), o.pos, lit)
    BY DEF ToolStart, lit
  <2>3. a # NotFound => o.pos <= a
    BY <1>2, <1>3, <1>4
  <2> HIDE DEF a, found
  <2>4. LET f == FindLit(s, Len(s), 0, lit)
            q == FindLit(t, Len(t), o.pos, lit)
        IN  /\ q # NotFound => q = f /\ f \in Nat /\ f + Len(lit) <= Len(t)
            /\ q = NotFound /\ f # NotFound => f \in Nat /\ f + Len(lit) > Len(t)
    <3>1. lit \in Seq(Atom) /\ (FindLit(s, Len(s), 0, lit) # NotFound => o.pos <= FindLit(s, Len(s), 0, lit))
      BY <2>1, <2>2, <2>3
    <3> QED BY ONLY <1>2, <3>1, SearchIs
  <2> QED BY <2>1, <2>2, <2>4
<1>7. found # NotFound => found < n
  <2>1. Len(t) \in Nat /\ o.pos \in Nat
    BY <1>2
  <2>2. found = NotFound \/ (found \in o.pos..Len(t) /\ FullLit(t, Len(t), found, Start("tools")))
    BY ONLY <2>1, FindLitIs
  <2> HIDE DEF found
  <2> QED BY <1>2, <2>2 DEF Sees
<1>8. n > o.pos => /\ hold \in o.pos..n /\ (hold = o.pos \/ t[hold] # "w")
                   /\ t[n] = "<" => hold < n
  <2> SUFFICES ASSUME n > o.pos
               PROVE  /\ hold \in o.pos..n /\ (hold = o.pos \/ t[hold] # "w")
                      /\ t[n] = "<" => hold < n
    OBVIOUS
  <2>1. o.pos \in 0..n /\ o.pos < n
    BY <1>2
  <2> QED BY ONLY <1>2, <2>1, HoldMarkerIs
<1> HIDE DEF r, limit, hold, found, a, e
<1>9. r.content = Cut(s, From(s), pos)
  <2>1. limit \in 0..Len(t) /\ o.pos <= Len(s) /\ From(s) <= o.pos
    BY <1>1, <1>2, <1>3, <1>4
  <2> QED BY <1>1, <1>2, <1>3, <1>4, <2>1, MoreIs
<1>10. CASE tool # NotFound
  <2>1. req.tools /\ found # NotFound /\ found = a /\ a \in Nat /\ a + 2 <= Len(t)
    BY <1>6, <1>10
  <2>2. a # NotFound
    BY <2>1 DEF NotFound
  <2>3. o.pos <= a /\ a < n /\ limit = TrimWs(t, o.pos, a)
    BY <1>2, <1>3, <1>4, <1>5, <1>7, <2>1, <2>2
  <2>4. limit \in o.pos..a /\ (limit = o.pos \/ t[limit] # "w")
        /\ \A i \in (limit + 1)..a : t[i] = "w"
    <3> DEFINE q == TrimWs(t, o.pos, a)
    <3>1. q \in o.pos..a /\ (q = o.pos \/ t[q] # "w") /\ \A i \in (q + 1)..a : t[i] = "w"
      <4>1. o.pos \in Nat /\ a \in Nat /\ o.pos <= a
        BY <1>2, <2>1, <2>3
      <4> QED BY ONLY <4>1, TrimWsIs
    <3> HIDE DEF q
    <3>2. limit = q
      BY <2>3 DEF q
    <3> QED BY <3>1, <3>2
  <2>5. limit = e
    <3>1. ~(limit > e)
      <4> SUFFICES ASSUME limit > e PROVE FALSE
        OBVIOUS
      <4>1. limit \in (e + 1)..a /\ limit # o.pos /\ limit \in 1..Len(t)
        BY <1>2, <1>3, <1>4, <2>1, <2>4
      <4> QED BY <1>2, <1>4, <2>1, <2>2, <2>4, <4>1
    <3>2. ~(limit < e)
      <4> SUFFICES ASSUME limit < e PROVE FALSE
        OBVIOUS
      <4>1. e \in (limit + 1)..a /\ e # From(s) /\ e \in 1..Len(t)
        BY <1>2, <1>3, <1>4, <2>1, <2>2, <2>4
      <4> QED BY <1>2, <1>4, <2>1, <2>2, <2>4, <4>1
    <3> QED BY <1>2, <1>4, <2>1, <2>4, <3>1, <3>2
  <2>6. pos = e /\ r.mode \in {"tool", "suppress"} /\ r.pos = a
    BY <1>1, <1>2, <1>10, <2>1, <2>4, <2>5
  <2> HIDE DEF pos, tool
  <2> QED BY <1>1, <1>3, <1>9, <2>6 DEF Prose, r, e, a
<1>11. CASE tool = NotFound /\ last
  <2>1. req.tools => found = NotFound
    BY <1>11
  <2>2. e = Len(s) /\ n = Len(s)
    BY <1>2, <1>4, <1>6, <1>11, <2>1
  <2>4. ~(req.tools /\ a # NotFound)
    BY <1>2, <1>4, <1>6, <1>11, <2>1
  <2>3. pos = e /\ r.mode = "suppress"
    <3>1. o.pos \in Nat /\ o.pos <= n /\ e = n
      BY <1>2, <1>3, <1>4, <2>2
    <3>2. limit = n
      <4>1. n <= o.pos \/ n > o.pos
        BY <1>2
      <4> QED BY <1>5, <1>11, <2>1, <4>1
    <3>3. pos = e
      BY <1>2, <3>1, <3>2
    <3> QED BY <1>1, <1>11, <3>3
  <2> HIDE DEF pos, tool
  <2> QED BY <1>1, <1>3, <1>9, <2>3, <2>4 DEF Prose, r, e, a
<1>12. CASE tool = NotFound /\ ~last
  <2>1. req.tools => found = NotFound
    BY <1>12
  <2>2. limit <= o.pos \/ limit <= e
    <3>1. CASE req.tools /\ a # NotFound /\ n > o.pos
      <4>1. limit <= hold /\ a + 2 > Len(t) /\ a \in Nat
        BY <1>5, <1>6, <1>12, <2>1, <3>1
      <4>2. hold \in o.pos..n /\ (hold = o.pos \/ t[hold] # "w") /\ (t[n] = "<" => hold < n)
        BY <1>8, <3>1
      <4>3. hold <= a
        <5>1. n = a + 1 => t[n] = "<"
          BY <1>2, <1>4, <3>1, <4>1
        <5> QED BY <1>2, <4>1, <4>2, <5>1
      <4>4. hold <= e
        <5> SUFFICES ASSUME hold > e PROVE FALSE
          BY <1>2, <1>4, <4>2
        <5>1. hold \in (e + 1)..a /\ hold \in 1..Len(t) /\ hold # o.pos
          BY <1>2, <1>3, <1>4, <4>2, <4>3
        <5> QED BY <1>2, <1>4, <3>1, <4>2, <5>1
      <4> QED BY <1>1, <1>2, <1>4, <4>1, <4>2, <4>4
    <3>2. CASE ~(req.tools /\ a # NotFound)
      BY <1>1, <1>2, <1>4, <3>2
    <3>3. CASE ~(n > o.pos)
      BY <1>2, <1>5, <3>3
    <3> QED BY <3>1, <3>2, <3>3
  <2>3. pos \in From(s)..e /\ r.mode = "text" /\ r.pos = pos
    BY <1>1, <1>2, <1>3, <1>4, <1>12, <2>2
  <2> HIDE DEF pos, tool
  <2> QED BY <1>1, <1>3, <1>9, <2>3 DEF Prose, r, e
<1> QED BY <1>2, <1>10, <1>11, <1>12

\* What is shown between the parts of an update.
LEMMA ProseParts ==
  ASSUME NEW s, NEW t, NEW n, NEW last, Looks(s, t, n, last), NEW m, Within(t, n, m), Sees(t, n),
         NEW o, Fits(s, m, o), req.tools \in BOOLEAN, Shaped(s), Prose(s, o)
  PROVE  /\ Prose(s, AfterThinking(o, t, n, last))
         /\ Prose(s, AfterText(AfterThinking(o, t, n, last), t, n, last))
<1> DEFINE k == CheckThinkPrefix(o, t, n, last)
           c == AfterThinking(o, t, n, last)
           u == AfterText(c, t, n, last)
<1>1. Fits(s, m, c)
  BY UpdateFits
<1>2. Prose(s, c)
  <2>1. CASE o.mode = "thinking"
    <3>1. Fits(s, m, k) /\ k.mode = "thinking" /\ Prose(s, k)
      BY <2>1, ProseCheck
    <3>2. c = IF k.checked THEN Thinking(k, t, n, last) ELSE k
      BY <2>1 DEF AfterThinking, ThinkingPart
    <3> HIDE DEF k, c
    <3>3. k.checked => Prose(s, Thinking(k, t, n, last))
      BY <3>1, ProseThinking
    <3> QED BY <3>1, <3>2, <3>3
  <2>2. CASE o.mode # "thinking"
    BY <2>2 DEF AfterThinking
  <2> QED BY <2>1, <2>2
<1> HIDE DEF c
<1>3. Prose(s, u)
  <2>1. c.mode = "text" => Prose(s, TextPart(c, t, n, last))
    BY <1>1, <1>2, ProseText
  <2> QED BY <1>2, <2>1 DEF AfterText
<1> QED BY <1>2, <1>3 DEF c

\* An update of the projection shows no more than the reasoning and the content.
LEMMA ProseUpdate ==
  ASSUME NEW s, NEW t, NEW n, NEW last, Looks(s, t, n, last), NEW m, Within(t, n, m), Sees(t, n),
         NEW o, Fits(s, m, o), req.tools \in BOOLEAN, Shaped(s), Prose(s, o)
  PROVE  Prose(s, Update(o, t, n, last))
<1> DEFINE c == AfterThinking(o, t, n, last)
           u == AfterText(c, t, n, last)
<1>1. Fits(s, m, u)
  BY UpdateFits
<1>2. Prose(s, u)
  BY ProseParts
<1> HIDE DEF u
<1>3. ASSUME u.mode = "tool" PROVE Prose(s, ToolPart(u, t, n))
  <2> DEFINE r == ToolPart(u, t, n)
  <2>1. /\ r.content = u.content /\ r.reasoning = u.reasoning
        /\ r.mode \in {"tool", "suppress"} /\ r.pos = u.pos
    BY <1>1, <1>3, ToolPartIs
  <2> HIDE DEF r
  <2> QED BY <1>2, <1>3, <2>1 DEF Prose, r
<1>4. Update(o, t, n, last) = IF u.mode = "tool" THEN ToolPart(u, t, n) ELSE u
  BY UpdateParts DEF c, u
<1> QED BY <1>2, <1>3, <1>4

\* What is shown is a beginning of the content.
LEMMA ProseShows ==
  ASSUME NEW s \in Texts, Shaped(s), NEW o, Prose(s, o), o.mode # "gone", o \in OutT
  PROVE  \E p \in From(s)..Ends(s) : o.content = Cut(s, From(s), p)
<1>1. From(s) \in Nat /\ From(s) <= Len(s) /\ Ends(s) \in From(s)..Len(s) /\ Len(s) \in Nat
  BY ShapeIs, LenType
<1>2. Cut(s, From(s), From(s)) = <<>>
  <2>1. From(s) \in 0..Len(s)
    BY <1>1
  <2> QED BY <2>1, CutNone
<1>3. From(s) \in From(s)..Ends(s) /\ Ends(s) \in From(s)..Ends(s)
  BY <1>1
<1>4. o.mode \in {"thinking", "text", "tool", "suppress"}
  BY DEF OutT
<1> QED BY <1>2, <1>3, <1>4 DEF Prose

\* A tool block begins within what may be looked at.
LEMMA TokenSees ==
  ASSUME NEW t, Begins(t, script), text \in Texts, Len(text) <= Len(t), OneToken(t, Len(text)),
         seen.stopFrom \in Nat, StopAhead(text, seen.stopFrom)
  PROVE  Sees(t, StreamLen(t))
<1> DEFINE n == StreamLen(t)
           stop == StopOf(script)
           safe == IF req.stop THEN StopSafeLen(Len(t)) ELSE Len(t)
<1>1. t \in Texts /\ Len(t) \in Nat /\ Len(t) \in 0..Len(t)
  BY LenType DEF Begins
<1>2. SUFFICES ASSUME NEW p \in Nat, FullLit(t, Len(t), p, Start("tools")) PROVE p < n
  BY DEF Sees
<1>3. p + 2 <= Len(t) /\ t[p + 1] = "<" /\ t[p + 2] = "tools"
  BY <1>1, <1>2, MarkNames, FullStart
<1>4. n = IF StopAt(t) # NotFound THEN StopAt(t) ELSE Utf8SafeLen(t, 0, safe)
  BY DEF StreamLen
<1>5. CASE StopAt(t) # NotFound
  <2>1. Stops /\ StopAt(t) = stop /\ stop + 2 <= Len(t) /\ stop \in Nat
    BY <1>5, StopAtIs
  <2>2. p + 2 <= Reach(t)
    BY <1>2, TokenWithin DEF Within
  <2>3. Reach(t) = stop
    BY <1>1, <2>1 DEF Reach
  <2> HIDE DEF stop, n
  <2> QED BY <1>4, <1>5, <2>1, <2>2, <2>3
<1>6. CASE StopAt(t) = NotFound
  <2>1. safe = Len(t) \/ safe = Len(t) - 1
    BY <1>1, <1>3, StopIs DEF StopSafeLen
  <2> HIDE DEF safe
  <2>2. safe \in Nat /\ p + 1 <= safe
    BY <1>1, <1>3, <2>1
  <2>3. Utf8SafeLen(t, 0, safe) = IF safe > 0 /\ t[safe] = "u1" THEN safe - 1 ELSE safe
    BY DEF Utf8SafeLen
  <2>4. safe = p + 1 => t[safe] # "u1"
    BY <1>3
  <2> HIDE DEF n
  <2> QED BY <1>4, <1>6, <2>2, <2>3, <2>4
<1> QED BY <1>5, <1>6

\* A beginning of a text that thinks first, the reasoning and its end marker in it.
LEMMA ShapeBegins ==
  ASSUME NEW t, NEW s, Begins(t, s), Shaped(s), req.think => Opened(t) # NotFound
  PROVE  /\ Shaped(t) /\ From(t) = From(s) /\ Thoughts(t) = Thoughts(s) /\ From(t) <= Len(t)
         /\ req.think => Opened(t) = Opened(s) /\ Skips(t) = Skips(s)
         /\ ToolStart(t) # NotFound => ToolStart(t) = ToolStart(s)
         /\ ToolStart(t) = NotFound /\ ToolStart(s) # NotFound =>
              ToolStart(s) \in Nat /\ ToolStart(s) + 2 > Len(t)
         /\ req.tools /\ ToolStart(t) # NotFound => Ends(t) = Ends(s)
<1>1. /\ s \in Texts /\ t \in Texts /\ Len(t) \in Nat /\ Len(s) \in Nat /\ Len(t) <= Len(s)
      /\ \A i \in 1..Len(t) : t[i] = s[i]
  BY LenType DEF Begins
<1>3. /\ Opened(t) # NotFound => Opened(t) = Opened(s) /\ Opened(t) \in Nat /\ Opened(t) + 3 <= Len(t)
      /\ ToolStart(t) # NotFound => ToolStart(t) = ToolStart(s) /\ ToolStart(t) \in Nat
                                    /\ ToolStart(t) + 2 <= Len(t)
      /\ ToolStart(t) = NotFound /\ ToolStart(s) # NotFound =>
              ToolStart(s) \in Nat /\ ToolStart(s) + 2 > Len(t)
  BY MarksGrow
<1>4. Shaped(t)
  BY <1>3 DEF Shaped
<1>5. From(t) = From(s)
  BY <1>3 DEF From
<1>6. req.think => Skips(t) = Skips(s)
  <2> SUFFICES ASSUME req.think PROVE Skips(t) = Skips(s)
    OBVIOUS
  <2>1. 2 <= Len(t) /\ t[1] = s[1] /\ t[2] = s[2] /\ 2 <= Len(s)
    BY <1>1, <1>3
  <2>2. /\ FullLit(t, Len(t), 0, Start("think")) <=> 0 + 2 <= Len(t) /\ t[0 + 1] = "<" /\ t[0 + 2] = "think"
        /\ FullLit(s, Len(s), 0, Start("think")) <=> 0 + 2 <= Len(s) /\ s[0 + 1] = "<" /\ s[0 + 2] = "think"
    <3>1. 0 \in Nat /\ Len(s) \in 0..Len(s) /\ Len(t) \in 0..Len(t)
      BY <1>1
    <3> QED BY <1>1, <3>1, MarkNames, FullStart
  <2> QED BY <2>1, <2>2 DEF Skips
<1>7. Thoughts(t) = Thoughts(s)
  <2>1. ASSUME req.think PROVE Cut(t, Skips(s), Opened(s)) = Cut(s, Skips(s), Opened(s))
    <3>1. Skips(s) \in Nat /\ Opened(s) \in 0..Len(t)
      BY <1>1, <1>3, <2>1, ShapeIs
    <3> QED BY <3>1, CutBegins
  <2> QED BY <1>3, <1>6, <2>1 DEF Thoughts
<1>8. From(t) <= Len(t)
  BY <1>1, <1>4, ShapeIs
<1>9. ASSUME req.tools, ToolStart(t) # NotFound PROVE Ends(t) = Ends(s)
  <2> DEFINE a == ToolStart(s)
             f == From(s)
             e == Ends(s)
             d == Ends(t)
  <2>1. a \in Nat /\ a # NotFound /\ a + 2 <= Len(t) /\ ToolStart(t) = a
    BY <1>3, <1>9
  <2>2. /\ e \in f..a /\ (e = f \/ s[e] # "w") /\ \A i \in (e + 1)..a : s[i] = "w"
        /\ f \in Nat
    <3>1. /\ e \in f..Len(s) /\ e <= a /\ f \in Nat
          /\ e = f \/ s[e] # "w"
          /\ \A i \in (e + 1)..a : s[i] = "w"
      BY <1>1, <1>9, <2>1, ShapeIs
    <3> HIDE DEF a, e, f
    <3> QED BY <1>1, <2>1, <3>1
  <2>3. /\ d \in f..a /\ (d = f \/ t[d] # "w") /\ \A i \in (d + 1)..a : t[i] = "w"
    <3>1. /\ d \in f..Len(t) /\ d <= a /\ f \in Nat
          /\ d = f \/ t[d] # "w"
          /\ \A i \in (d + 1)..a : t[i] = "w"
      BY <1>1, <1>4, <1>5, <1>9, <2>1, ShapeIs
    <3> HIDE DEF a, d, f
    <3> QED BY <1>1, <2>1, <3>1
  <2> HIDE DEF a, f, e, d
  <2>4. ~(d < e)
    <3> SUFFICES ASSUME d < e PROVE FALSE
      OBVIOUS
    <3>1. e \in (d + 1)..a /\ e # f /\ e \in 1..Len(t)
      BY <1>1, <2>1, <2>2, <2>3
    <3> QED BY <1>1, <2>2, <2>3, <3>1
  <2>5. ~(e < d)
    <3> SUFFICES ASSUME e < d PROVE FALSE
      OBVIOUS
    <3>1. d \in (e + 1)..a /\ d # f /\ d \in 1..Len(t)
      BY <1>1, <2>1, <2>2, <2>3
    <3> QED BY <1>1, <2>2, <2>3, <3>1
  <2> QED BY <2>1, <2>2, <2>3, <2>4, <2>5 DEF d, e
<1> QED BY <1>3, <1>4, <1>5, <1>6, <1>7, <1>8, <1>9

\* A marker in a text is not before the first one.
LEMMA FoundIn ==
  ASSUME NEW t, NEW s, Begins(t, s), NEW p \in Nat, NEW lit \in Seq(Atom), FullLit(t, Len(t), p, lit)
  PROVE  FindLit(s, Len(s), 0, lit) \in 0..p /\ FindLit(s, Len(s), 0, lit) # NotFound
<1> DEFINE f == FindLit(s, Len(s), 0, lit)
<1>1. Len(s) \in Nat /\ Len(t) \in Nat /\ Len(t) <= Len(s) /\ 0 \in Nat /\ Len(lit) \in Nat
      /\ Len(t) \in 0..Len(t)
  BY LenType DEF Begins
<1>2. \/ f = NotFound /\ \A i \in 0..Len(s) : ~FullLit(s, Len(s), i, lit)
      \/ f \in 0..Len(s) /\ FullLit(s, Len(s), f, lit)
         /\ \A i \in 0..Len(s) : FullLit(s, Len(s), i, lit) => f <= i
  BY ONLY <1>1, FindLitIs
<1> HIDE DEF f
<1>3. FullLit(s, Len(t), p, lit)
  BY <1>1, BeginsLit
<1>4. FullLit(s, Len(s), p, lit) /\ p \in 0..Len(s)
  BY <1>1, <1>3 DEF FullLit
<1> QED BY <1>1, <1>2, <1>4 DEF f, NotFound

\* Where a mode was left, its end has been sampled.
Passed(s, m, o) ==
  /\ req.think /\ o.mode # "thinking" => Opened(s) # NotFound /\ Opened(s) + 3 <= m
  /\ o.mode \in {"tool", "suppress"} =>
       req.tools /\ ToolStart(s) # NotFound /\ ToolStart(s) + 2 <= m /\ o.pos + 2 <= m

LEMMA PassedUpdate ==
  ASSUME NEW s, NEW t, NEW n, NEW last, ~last, Looks(s, t, n, last), NEW m, Within(t, n, m),
         NEW o, Fits(s, m, o), req.tools \in BOOLEAN, Passed(s, m, o)
  PROVE  Passed(s, m, Update(o, t, n, last))
<1> DEFINE k == CheckThinkPrefix(o, t, n, last)
           c == AfterThinking(o, t, n, last)
           u == AfterText(c, t, n, last)
<1>1. Fits(s, m, c) /\ Fits(s, m, u)
  BY UpdateFits
<1>2. /\ Begins(t, s) /\ s \in Texts /\ t \in Texts /\ Len(t) \in Nat /\ Len(s) \in Nat
      /\ n \in 0..Len(t) /\ n \in Nat /\ m \in n..Len(t) /\ m \in Nat
  BY LenType DEF Looks, Begins, Within
<1>3. Passed(s, m, c)
  <2>1. CASE o.mode = "thinking"
    <3>1. Fits(s, m, k) /\ k.mode = "thinking"
      BY <2>1, CheckIs
    <3>2. c = IF k.checked THEN Thinking(k, t, n, last) ELSE k
      BY <2>1 DEF AfterThinking, ThinkingPart
    <3> HIDE DEF k, c
    <3>3. CASE k.checked
      <4> DEFINE close == FindLit(t, Len(t), k.pos, End("think"))
                 r == Thinking(k, t, n, last)
      <4>1. (close # NotFound /\ r.mode = "text") \/ r.mode = "thinking"
        BY <3>1, <3>3, ThinkingIs
      <4>2. ASSUME close # NotFound PROVE Opened(s) # NotFound /\ Opened(s) + 3 <= m
        <5>1. k.pos \in Nat
          BY <3>1 DEF Fits, OutT
        <5>2. close = NotFound \/ (close \in k.pos..Len(t) /\ FullLit(t, Len(t), close, End("think")))
          BY ONLY <1>2, <5>1, FindLitIs
        <5>3. close \in Nat /\ FullLit(t, Len(t), close, End("think")) /\ close + 3 <= m
          <6> HIDE DEF close
          <6> QED BY <1>2, <4>2, <5>1, <5>2 DEF Within
        <5>4. End("think") \in Seq(Atom)
          BY MarkNames, MarkerType
        <5> DEFINE lit == End("think")
        <5> HIDE DEF close, lit
        <5>5. FullLit(t, Len(t), close, lit) /\ lit \in Seq(Atom)
          BY <5>3, <5>4 DEF lit
        <5>6. FindLit(s, Len(s), 0, lit) \in 0..close /\ FindLit(s, Len(s), 0, lit) # NotFound
          BY ONLY <1>2, <5>3, <5>5, FoundIn
        <5>7. Opened(s) \in 0..close /\ Opened(s) # NotFound
          BY <5>6 DEF Opened, lit
        <5> QED BY <1>2, <5>3, <5>7
      <4> HIDE DEF r, close
      <4> QED BY <3>2, <3>3, <4>1, <4>2 DEF Passed, r
    <3>4. CASE ~k.checked
      BY <3>1, <3>2, <3>4 DEF Passed
    <3> QED BY <3>3, <3>4
  <2>2. CASE o.mode # "thinking"
    BY <2>2 DEF AfterThinking
  <2> QED BY <2>1, <2>2
<1> HIDE DEF c
<1>4. Passed(s, m, u)
  <2>1. CASE c.mode = "text"
    <3> DEFINE r == TextPart(c, t, n, last)
               tool == IF req.tools THEN FindLit(t, Len(t), c.pos, Start("tools")) ELSE NotFound
    <3>1. (tool # NotFound /\ r.mode \in {"tool", "suppress"} /\ r.pos = tool) \/ r.mode = "text"
      BY <1>1, <2>1, TextPartIs
    <3>2. ASSUME tool # NotFound
          PROVE  req.tools /\ ToolStart(s) # NotFound /\ ToolStart(s) + 2 <= m /\ tool + 2 <= m
      <4>1. req.tools /\ tool = FindLit(t, Len(t), c.pos, Start("tools")) /\ c.pos \in Nat
        BY <1>1, <3>2 DEF Fits, OutT
      <4> HIDE DEF tool
      <4>2. tool = NotFound \/ (tool \in c.pos..Len(t) /\ FullLit(t, Len(t), tool, Start("tools")))
        BY <1>2, <4>1, FindLitIs
      <4>3. tool \in Nat /\ FullLit(t, Len(t), tool, Start("tools")) /\ tool + 2 <= m
        BY <1>2, <3>2, <4>1, <4>2 DEF Within
      <4>4. Start("tools") \in Seq(Atom)
        BY MarkNames, MarkerType
      <4> DEFINE lit == Start("tools")
      <4> HIDE DEF lit
      <4>5. FullLit(t, Len(t), tool, lit) /\ lit \in Seq(Atom)
        BY <4>3, <4>4 DEF lit
      <4>6. FindLit(s, Len(s), 0, lit) \in 0..tool /\ FindLit(s, Len(s), 0, lit) # NotFound
        BY ONLY <1>2, <4>3, <4>5, FoundIn
      <4>7. ToolStart(s) \in 0..tool /\ ToolStart(s) # NotFound
        BY <4>6 DEF ToolStart, lit
      <4>8. ToolStart(s) + 2 <= m
        BY <1>2, <4>3, <4>7
      <4> QED BY <4>1, <4>3, <4>7, <4>8
    <3> HIDE DEF r, tool
    <3>3. u = r
      BY <2>1 DEF AfterText, r
    <3> HIDE DEF u
    <3> QED BY <1>3, <2>1, <3>1, <3>2, <3>3 DEF Passed
  <2>2. CASE c.mode # "text"
    BY <1>3, <2>2 DEF AfterText
  <2> QED BY <2>1, <2>2
<1> HIDE DEF u
<1>5. ASSUME u.mode = "tool" PROVE Passed(s, m, ToolPart(u, t, n))
  <2> DEFINE r == ToolPart(u, t, n)
  <2>1. r.pos = u.pos /\ r.mode \in {"tool", "suppress"}
    BY <1>1, <1>5, ToolPartIs
  <2> HIDE DEF r
  <2> QED BY <1>4, <1>5, <2>1 DEF Passed, r
<1>6. Update(o, t, n, last) = IF u.mode = "tool" THEN ToolPart(u, t, n) ELSE u
  BY UpdateParts DEF c, u
<1> QED BY <1>4, <1>5, <1>6

\* What has been shown at the end of the decode loop is what the text at its end has to show.
LEMMA ProseLast ==
  ASSUME NEW s, NEW t, Begins(t, s), NEW m \in Nat, m <= Len(t), NEW o, Fits(s, m, o),
         Shaped(s), Prose(s, o), Passed(s, m, o), req.think => Opened(t) # NotFound
  PROVE  Shaped(t) /\ Prose(t, o)
<1>1. /\ s \in Texts /\ t \in Texts /\ Len(t) \in Nat /\ Len(s) \in Nat /\ Len(t) <= Len(s)
      /\ o.pos \in Nat /\ o.pos <= m
  BY LenType DEF Begins, Fits, OutT
<1>2. /\ Shaped(t) /\ From(t) = From(s) /\ Thoughts(t) = Thoughts(s) /\ From(t) <= Len(t)
      /\ req.think => Opened(t) = Opened(s) /\ Skips(t) = Skips(s)
      /\ ToolStart(t) # NotFound => ToolStart(t) = ToolStart(s)
      /\ ToolStart(t) = NotFound /\ ToolStart(s) # NotFound =>
           ToolStart(s) \in Nat /\ ToolStart(s) + 2 > Len(t)
      /\ req.tools /\ ToolStart(t) # NotFound => Ends(t) = Ends(s)
  BY ShapeBegins
<1>3. /\ From(s) \in Nat /\ Skips(s) \in Nat /\ Ends(s) \in From(s)..Len(s)
      /\ Ends(t) \in From(t)..Len(t)
      /\ ~(req.tools /\ ToolStart(t) # NotFound) => Ends(t) = Len(t)
      /\ ~(req.tools /\ ToolStart(s) # NotFound) => Ends(s) = Len(s)
  BY <1>1, <1>2, ShapeIs
<1>4. \A f \in Nat, p \in 0..Len(t) : Cut(t, f, p) = Cut(s, f, p)
  BY CutBegins
<1>5. CASE o.mode = "thinking"
  <2>1. /\ req.think /\ o.content = <<>> /\ o.pos <= Opened(s)
        /\ IF o.checked THEN Skips(s) <= o.pos /\ o.reasoning = Cut(s, Skips(s), o.pos)
           ELSE o.pos = 0 /\ o.reasoning = <<>>
    BY <1>5 DEF Prose
  <2>2. Cut(t, Skips(s), o.pos) = Cut(s, Skips(s), o.pos)
    BY <1>1, <1>3, <1>4
  <2> QED BY <1>2, <1>5, <2>1, <2>2 DEF Prose
<1>6. CASE o.mode = "text"
  <2>1. /\ o.pos \in From(s)..Ends(s)
        /\ o.content = Cut(s, From(s), o.pos) /\ o.reasoning = Thoughts(s)
    BY <1>6 DEF Prose
  <2>2. Cut(t, From(s), o.pos) = Cut(s, From(s), o.pos)
    BY <1>1, <1>3, <1>4
  <2>3. o.pos \in From(t)..Ends(t)
    BY <1>1, <1>2, <1>3, <2>1
  <2> QED BY <1>2, <1>6, <2>1, <2>2, <2>3 DEF Prose
<1>7. CASE o.mode \in {"tool", "suppress"}
  <2>1. /\ o.content = Cut(s, From(s), Ends(s)) /\ o.reasoning = Thoughts(s)
        /\ req.tools /\ ToolStart(s) # NotFound /\ o.pos + 2 <= m /\ o.pos = ToolStart(s)
    BY <1>7 DEF Prose, Passed
  <2>2. ToolStart(t) = ToolStart(s) /\ ToolStart(t) # NotFound
    BY <1>1, <1>2, <2>1
  <2>3. Ends(t) = Ends(s) /\ Ends(t) \in 0..Len(t)
    BY <1>1, <1>2, <1>3, <2>1, <2>2
  <2>4. Cut(t, From(s), Ends(s)) = Cut(s, From(s), Ends(s))
    BY <1>3, <1>4, <2>3
  <2> QED BY <1>2, <1>7, <2>1, <2>2, <2>3, <2>4 DEF Prose
<1>8. o.mode \in {"thinking", "text", "tool", "suppress"}
  BY DEF Fits
<1> QED BY <1>2, <1>5, <1>6, <1>7, <1>8

\* The beginning of the content, and no more.
Shown(s, o) == \E p \in From(s)..Ends(s) : o.content = Cut(s, From(s), p)

\* A tool block was taken for one at the end of the turn.
TakenBlock == ~final.recovered /\ req.tools /\ ToolStart(text) # NotFound

ProseInv ==
  /\ phase # "done" /\ out.mode # "gone" => Passed(script, Reach(text), out)
  /\ phase # "done" /\ out.mode # "gone" /\ Shaped(script) => Prose(script, out)
  /\ Shaped(script) /\ (phase = "done" => out.mode = "gone" \/ TakenBlock) => Shown(script, out)

\* What the last look leaves, when the text is one that thinks first.
LEMMA ProseFinish ==
  ASSUME StreamInv, ProseInv, phase = "finish", out.mode # "gone",
         Shaped(script), req.think => Opened(text) # NotFound
  PROVE  LET o == Update(out, text, Len(text), TRUE)
         IN  /\ out.ok /\ Fits(text, Len(text), o)
             /\ Shaped(text) /\ Prose(text, out) /\ Prose(text, o)
<1>1. Fits(script, Reach(text), out)
  BY DEF StreamInv, Sending, Gone
<1>2. /\ Begins(text, script) /\ text \in Texts /\ script \in Texts /\ Len(text) \in Nat
      /\ req.tools \in BOOLEAN /\ Len(text) <= Len(text)
  BY TurnIs DEF StreamInv
<1>3. Reach(text) \in Nat /\ Reach(text) <= Len(text)
  BY <1>2, ReachGrows
<1>4. /\ Fits(text, Len(text), out) /\ Looks(text, text, Len(text), TRUE)
      /\ Within(text, Len(text), Len(text))
      /\ Fits(text, Len(text), Update(out, text, Len(text), TRUE))
  BY <1>1, LastLook DEF StreamInv
<1>5. Shaped(text) /\ Prose(text, out)
  <2>1. Prose(script, out) /\ Passed(script, Reach(text), out)
    BY DEF ProseInv
  <2> DEFINE m == Reach(text)
  <2> HIDE DEF m
  <2>2. Prose(script, out) /\ Passed(script, m, out) /\ Fits(script, m, out) /\ m \in Nat /\ m <= Len(text)
    BY <1>1, <1>3, <2>1 DEF m
  <2> QED BY <1>2, <2>2, ProseLast
<1>6. Sees(text, Len(text))
  <2> SUFFICES ASSUME NEW p \in Nat, FullLit(text, Len(text), p, Start("tools")) PROVE p < Len(text)
    BY DEF Sees
  <2>1. p + 2 <= Len(text)
    BY <1>4 DEF Within
  <2> QED BY <1>2, <2>1
<1>7. Prose(text, Update(out, text, Len(text), TRUE))
  <2> DEFINE last == TRUE
             n == Len(text)
  <2>1. Looks(text, text, n, last) /\ Within(text, n, n) /\ Fits(text, n, out) /\ Sees(text, n)
    BY <1>4, <1>6
  <2> HIDE DEF last, n
  <2>2. Prose(text, Update(out, text, n, last))
    BY <1>2, <1>5, <2>1, ProseUpdate
  <2> QED BY <2>2 DEF last, n
<1>8. out.ok
  BY <1>1 DEF Fits
<1> QED BY <1>4, <1>5, <1>7, <1>8

\* The finish stage adds content only where a block could not be read.
LEMMA FinishKeeps ==
  ASSUME NEW o \in OutT, NEW t, NEW f
  PROVE  LET r == FinishMessage(o, t, f)
         IN  /\ r.mode = o.mode /\ r.reasoning = o.reasoning /\ r.tool = o.tool
             /\ ~f.recovered => r.content = o.content
<1> DEFINE Same(r) == r.mode = o.mode /\ r.reasoning = o.reasoning /\ r.tool = o.tool
                      /\ (~f.recovered => r.content = o.content)
<1>1. Same(FinishOpenAI(o, f))
  BY DEF FinishOpenAI, OutT
<1>2. Same(FinishAnthropic(o, f))
  <2> DEFINE opened == OpenBlock(o, "content")
             closed == CloseBlock(opened)
             empty == o.reasoning # <<>> /\ o.content = <<>> /\ f.calls = <<>>
             o1 == IF empty THEN closed ELSE o
             rest == SubSeq(f.calls, (IF o.tool.emitted THEN o.tool.index ELSE 0) + 1, Len(f.calls))
             last == [o1 EXCEPT !.calls = @ \o rest, !.stopped = TRUE, !.legal = @ /\ o1.block = "none"]
  <2>1. opened \in OutT /\ Same(opened)
    BY DEF OpenBlock, OutT
  <2>2. FinishAnthropic(o, f) = IF empty /\ ~opened.ok THEN [o EXCEPT !.ok = FALSE] ELSE last
    BY DEF FinishAnthropic
  <2> HIDE DEF opened
  <2>3. closed \in OutT /\ Same(closed)
    BY <2>1 DEF CloseBlock, OutT
  <2> HIDE DEF closed
  <2>4. o1 \in OutT /\ Same(o1)
    BY <2>3
  <2>5. Same([o EXCEPT !.ok = FALSE])
    BY DEF OutT
  <2> HIDE DEF o1, empty, rest
  <2>6. Same(last)
    <3>1. /\ last.mode = o1.mode /\ last.reasoning = o1.reasoning /\ last.tool = o1.tool
          /\ last.content = o1.content
      BY <2>4 DEF OutT
    <3> HIDE DEF last
    <3> QED BY <2>4, <3>1
  <2> HIDE DEF last, Same
  <2> QED BY <2>2, <2>5, <2>6
<1>3. Same(FinishResponses(o, t, f))
  <2> DEFINE more == o.content \o Cut(t, o.pos, Len(t))
             content == IF f.recovered THEN more ELSE o.content
             split == o.split \/ (f.recovered /\ Splits(t, o.pos, Len(t)))
  <2>1. FinishResponses(o, t, f) = [o EXCEPT !.content = content, !.split = split,
                                             !.calls = f.calls, !.stopped = TRUE]
    BY DEF FinishResponses, OutT
  <2>2. ~f.recovered => content = o.content
    OBVIOUS
  <2> HIDE DEF content, split
  <2> QED BY <2>1, <2>2 DEF OutT
<1>4. Same(o)
  OBVIOUS
<1>5. Same(FinishMessage(o, t, f))
  <2> HIDE DEF Same
  <2> QED BY <1>1, <1>2, <1>3, <1>4 DEF FinishMessage
<1> QED BY <1>5

LEMMA InitProse == Init => ProseInv
<1> SUFFICES ASSUME Init PROVE ProseInv
  OBVIOUS
<1>1. /\ req.think \in BOOLEAN /\ script \in Texts /\ phase = "decode" /\ out = OutInit(req.think)
      /\ StreamInv
  BY InitStream, TurnIs DEF Init, StreamInv
<1>2. /\ out.mode = (IF req.think THEN "thinking" ELSE "text") /\ out.pos = 0 /\ ~out.checked
      /\ out.reasoning = <<>> /\ out.content = <<>> /\ out \in OutT
  <2>1. out \in OutT
    BY <1>1 DEF StreamInv, Sending, Gone, Fits
  <2> QED BY <1>1, <2>1 DEF OutInit
<1>3. Passed(script, Reach(text), out)
  BY <1>1, <1>2 DEF Passed
<1>4. ASSUME Shaped(script) PROVE Prose(script, out) /\ Shown(script, out)
  <2>1. /\ req.think => Opened(script) \in Nat
        /\ From(script) \in Nat /\ Ends(script) \in From(script)..Len(script) /\ Len(script) \in Nat
    BY <1>1, <1>4, ShapeIs, LenType
  <2>2. Cut(script, 0, 0) = <<>>
    <3>1. 0 \in 0..Len(script)
      BY <2>1
    <3> QED BY <1>1, <3>1, CutNone
  <2>3. ASSUME req.think PROVE Prose(script, out)
    <3>1. out.mode = "thinking" /\ 0 <= Opened(script)
      BY <1>2, <2>1, <2>3
    <3> QED BY <1>2, <2>3, <3>1 DEF Prose
  <2>4. ASSUME ~req.think PROVE Prose(script, out)
    <3>1. From(script) = 0 /\ Thoughts(script) = <<>>
      BY <2>4 DEF From, Thoughts
    <3>2. out.mode = "text" /\ out.pos \in From(script)..Ends(script)
      BY <1>2, <2>1, <2>4, <3>1
    <3>3. out.content = Cut(script, From(script), out.pos)
      BY <1>2, <2>2, <3>1
    <3> QED BY <1>2, <3>1, <3>2, <3>3 DEF Prose
  <2>5. Prose(script, out)
    BY <1>1, <2>3, <2>4
  <2>6. Shown(script, out)
    <3>1. out.mode # "gone"
      BY <1>2
    <3> QED BY <1>1, <1>2, <1>4, <2>5, <3>1, ProseShows DEF Shown
  <2> QED BY <2>5, <2>6
<1> QED BY <1>1, <1>3, <1>4 DEF ProseInv

LEMMA TokenProse ==
  ASSUME StreamInv, ProseInv, NEW k \in 1..MaxToken, Token(k)
  PROVE  ProseInv'
<1> DEFINE t == SubSeq(script, 1, Len(text) + k)
           hit == StopAt(t) # NotFound
           m == Reach(t)
           n == StreamLen(t)
           last == FALSE
<1>1. /\ phase = "decode" /\ Len(text) + k <= Len(script) /\ OneToken(t, Len(text))
      /\ text' = (IF hit THEN SubSeq(t, 1, StopAt(t)) ELSE t)
      /\ out' = Update(out, t, n, last)
      /\ phase' \in {"decode", "finish"}
      /\ req' = req /\ script' = script
  BY DEF Token
<1>2. /\ req.tools \in BOOLEAN /\ script \in Texts /\ Len(script) \in Nat /\ text \in Texts
      /\ Len(text) \in Nat /\ k \in Nat
  <2>1. k \in Nat
    BY StreamAssumption
  <2> QED BY <2>1, TurnIs DEF StreamInv
<1>3. /\ Begins(t, script) /\ Len(t) = Len(text) + k /\ t \in Texts
  <2>1. Len(text) + k \in 0..Len(script)
    BY <1>1, <1>2
  <2>2. /\ Begins(t, script) /\ Len(t) = Len(text) + k
    BY ONLY <1>2, <2>1, SampledBegins
  <2> HIDE DEF t
  <2> QED BY <2>2 DEF Begins
<1> HIDE DEF t
<1>4. seen.stopFrom \in Nat /\ StopAhead(text, seen.stopFrom)
  BY <1>1 DEF StreamInv, Turn, Stopping, SeenT
<1>5. Len(text) <= Len(t) /\ Len(t) \in Nat
  BY <1>1, <1>2, <1>3
<1>6. n \in 0..Len(t) /\ Within(t, n, m) /\ Sees(t, n)
  BY <1>1, <1>2, <1>3, <1>4, <1>5, TokenWithin, TokenSees
<1>7. m \in Nat /\ Reach(text) \in Nat /\ Reach(text) <= m /\ m <= Len(t)
  BY <1>2, <1>3, <1>5, ReachGrows
<1>8. Fits(script, Reach(text), out) /\ out.mode # "gone"
  BY <1>1 DEF StreamInv, Sending, Fits
<1>9. Fits(script, m, out) /\ Looks(script, t, n, last)
  <2>1. Looks(script, t, n, last)
    BY <1>3, <1>6 DEF Looks
  <2> HIDE DEF m
  <2> QED BY <1>7, <1>8, <2>1, FitsMore
<1>10. Passed(script, m, out)
  <2>1. Passed(script, Reach(text), out) /\ out.pos \in Nat
    BY <1>1, <1>8 DEF ProseInv, Fits, OutT
  <2>2. /\ Opened(script) = NotFound \/ Opened(script) \in Nat
        /\ ToolStart(script) = NotFound \/ ToolStart(script) \in Nat
    BY <1>2, MarkIs
  <2> HIDE DEF m
  <2> QED BY <1>7, <2>1, <2>2 DEF Passed
<1>11. ~last
  OBVIOUS
<1> HIDE DEF last, m, n
<1>12. Passed(script, m, out') /\ Fits(script, m, out')
  BY <1>1, <1>2, <1>6, <1>9, <1>10, <1>11, PassedUpdate, UpdateFits
<1>13. ASSUME Shaped(script) PROVE Prose(script, out') /\ Shown(script, out')
  <2>1. Prose(script, out)
    BY <1>1, <1>8, <1>13 DEF ProseInv
  <2>2. Prose(script, out')
    BY <1>1, <1>2, <1>6, <1>9, <1>13, <2>1, ProseUpdate
  <2>3. out'.mode # "gone" /\ out' \in OutT
    BY <1>12 DEF Fits
  <2> QED BY <1>2, <1>13, <2>2, <2>3, ProseShows DEF Shown
<1>14. m = Reach(text')
  <2>1. CASE hit
    <3>1. /\ Stops /\ StopAt(t) = StopOf(script) /\ StopOf(script) + 2 <= Len(t) /\ StopOf(script) \in Nat
      BY <1>3, <1>4, <2>1, StopAtIs
    <3>2. StopOf(script) \in 0..Len(t) /\ StopOf(script) < Len(t)
      BY <1>5, <3>1
    <3>3. Len(text') = StopOf(script)
      <4>1. text' = SubSeq(t, 1, StopOf(script))
        BY <1>1, <2>1, <3>1
      <4> QED BY <1>3, <3>2, <4>1, SampledBegins
    <3> QED BY <3>1, <3>2, <3>3 DEF Reach, m
  <2>2. CASE ~hit
    BY <1>1, <2>2 DEF m
  <2> QED BY <2>1, <2>2
<1>15. /\ Shaped(script)' <=> Shaped(script)
       /\ Shown(script, out)' <=> Shown(script, out')
       /\ Prose(script, out)' <=> Prose(script, out')
       /\ Passed(script, Reach(text), out)' <=> Passed(script, m, out')
  BY <1>1, <1>14 DEF Shaped, Shown, Prose, Passed, From, Ends, Skips, Thoughts, Reach, Stops, StopOf
<1> QED BY <1>1, <1>12, <1>13, <1>15 DEF ProseInv

\* What was shown is so as long as the request, the script and what was sent are.
LEMMA ProseNext ==
  ASSUME req' = req, script' = script
  PROVE  /\ Shaped(script)' <=> Shaped(script)
         /\ Shown(script, out)' <=> Shown(script, out')
         /\ Prose(script, out)' <=> Prose(script, out')
         /\ text' = text => (Passed(script, Reach(text), out)' <=> Passed(script, Reach(text), out'))
BY DEF Shaped, Shown, Prose, Passed, From, Ends, Skips, Thoughts, Reach, Stops, StopOf

LEMMA QuietProse ==
  ASSUME ProseInv, EndTurn("stop") \/ EndTurn("length") \/ EndTurn("error") \/ UNCHANGED vars
  PROVE  ProseInv'
<1>1. /\ req' = req /\ script' = script /\ text' = text /\ out' = out /\ final' = final
      /\ phase' = "done" => phase = "done"
      /\ phase = "done" => phase' = "done"
  BY DEF EndTurn, vars
<1> QED BY <1>1, ProseNext DEF ProseInv, TakenBlock

LEMMA LoseClientProse ==
  ASSUME StreamInv, ProseInv, LoseClient
  PROVE  ProseInv'
<1>1. /\ phase = "decode" /\ phase' = "finish" /\ req' = req /\ script' = script
      /\ out' = [out EXCEPT !.ok = FALSE, !.mode = "gone"]
  BY DEF LoseClient
<1>2. out \in OutT
  BY <1>1 DEF StreamInv, Sending, Gone, Fits
<1>3. out'.mode = "gone" /\ out'.content = out.content
  BY <1>1, <1>2 DEF OutT
<1>4. Shown(script, out) => Shown(script, out')
  BY <1>3 DEF Shown
<1> QED BY <1>1, <1>3, <1>4, ProseNext DEF ProseInv

LEMMA FinishProse ==
  ASSUME StreamInv, ProseInv, Finish
  PROVE  ProseInv'
<1>1. /\ phase = "finish" /\ phase' = "done" /\ req' = req /\ script' = script /\ text' = text
      /\ out' = FinishStream(out, text, final')
  BY DEF Finish
<1>2. SUFFICES ASSUME Shaped(script), out'.mode = "gone" \/ TakenBlock' PROVE Shown(script, out')
  BY <1>1, ProseNext DEF ProseInv
<1>3. Shown(script, out)
  BY <1>1, <1>2 DEF ProseInv
<1>4. CASE out.mode = "gone"
  <2>1. ~out.ok
    BY <1>1, <1>4 DEF StreamInv, Sending, Gone, Fits
  <2>2. out' = out
    BY <1>1, <2>1 DEF FinishStream, FinishMessage
  <2> QED BY <1>3, <2>2
<1>5. CASE out.mode # "gone"
  <2> DEFINE o == Update(out, text, Len(text), TRUE)
  <2>1. Fits(script, Reach(text), out) /\ out.ok
    BY <1>1, <1>5 DEF StreamInv, Sending, Gone, Fits
  <2>2. out' = FinishMessage(o, text, final')
    BY <1>1, <2>1 DEF FinishStream
  <2>3. o \in OutT /\ o.mode # "gone"
    <3>1. Fits(text, Len(text), o)
      BY <1>1, <2>1, LastLook DEF StreamInv
    <3> QED BY <3>1 DEF Fits
  <2> HIDE DEF o
  <2>4. /\ out'.mode = o.mode
        /\ ~final'.recovered => out'.content = o.content
    BY <2>2, <2>3, FinishKeeps
  <2>5. TakenBlock' /\ req.tools /\ ToolStart(text) # NotFound /\ ~final'.recovered
    BY <1>1, <1>2, <2>3, <2>4 DEF TakenBlock
  <2>6. /\ Begins(text, script) /\ text \in Texts /\ script \in Texts /\ Len(text) \in Nat
        /\ Len(text) <= Len(script) /\ Len(script) \in Nat
    BY TurnIs DEF StreamInv
  <2>7. req.think => Opened(text) # NotFound
    <3>1. ToolStart(script) = ToolStart(text) /\ ToolStart(text) + 2 <= Len(text) /\ ToolStart(text) \in Nat
      BY <2>5, <2>6, MarksGrow
    <3>2. req.think => Opened(script) \in Nat /\ Opened(script) + 3 <= ToolStart(script)
      BY <1>2, <2>5, <2>6, <3>1, ShapeIs DEF From
    <3>3. Opened(text) = NotFound /\ Opened(script) # NotFound => Opened(script) + 3 > Len(text)
      BY <2>6, MarksGrow
    <3> QED BY <2>6, <3>1, <3>2, <3>3 DEF NotFound
  <2>8. Shaped(text) /\ Prose(text, o)
    BY <1>1, <1>2, <1>5, <2>7, ProseFinish DEF o
  <2>9. Shown(text, o)
    BY <2>3, <2>6, <2>8, ProseShows DEF Shown
  <2>10. From(text) = From(script) /\ Ends(text) = Ends(script) /\ Ends(text) <= Len(text)
    BY <1>2, <2>5, <2>6, <2>7, <2>8, ShapeBegins, ShapeIs
  <2>11. From(text) \in Nat /\ Ends(text) \in Nat
    BY <2>6, <2>8, ShapeIs
  <2>12. \A p \in From(text)..Ends(text) : Cut(text, From(text), p) = Cut(script, From(text), p)
    BY <2>6, <2>10, <2>11, CutBegins
  <2>13. out'.content = o.content
    BY <2>4, <2>5
  <2> QED BY <2>9, <2>10, <2>12, <2>13 DEF Shown
<1> QED BY <1>4, <1>5

\* What is shown is the reasoning and the content, throughout a turn.
THEOREM ProseInvariant == Spec => []ProseInv
<1>1. Init => ProseInv
  BY InitProse
<1>2. StreamInv /\ ProseInv /\ [Next]_vars => ProseInv'
  <2> SUFFICES ASSUME StreamInv, ProseInv, [Next]_vars PROVE ProseInv'
    OBVIOUS
  <2>1. ASSUME NEW k \in 1..MaxToken, Token(k) PROVE ProseInv'
    BY <2>1, TokenProse
  <2>2. ASSUME NEW why \in {"stop", "length", "error"}, EndTurn(why) PROVE ProseInv'
    BY <2>2, QuietProse
  <2>3. CASE LoseClient
    BY <2>3, LoseClientProse
  <2>4. CASE Finish
    BY <2>4, FinishProse
  <2>5. CASE UNCHANGED vars
    BY <2>5, QuietProse
  <2> QED BY <2>1, <2>2, <2>3, <2>4, <2>5 DEF Next
<1> QED BY <1>1, <1>2, StreamInvariant, PTL DEF Spec

\* Nothing of a tool block is shown as content, not the first atom of its marker nor the space
\* before it, for blocks that are cut short or unreadable too.
THEOREM NoSyntaxShown == Spec => []NoToolSyntaxShown
<1>1. StreamInv /\ ProseInv => NoToolSyntaxShown
  <2> SUFFICES ASSUME StreamInv, ProseInv, req.tools, ~final.recovered,
                      phase = "done" => ToolStart(text) # NotFound,
                      ToolStart(script) # NotFound, ThinksFirst(script)
               PROVE  LET start == ToolStart(script)
                          from == IF req.think THEN Opened(script) + 3 ELSE 0
                      IN  IsPrefix(out.content, Cut(script, from, TrimWs(script, from, start)))
    BY DEF NoToolSyntaxShown
  <2>1. Shaped(script) /\ script \in Texts
    BY TurnIs DEF StreamInv, ThinksFirst, Shaped
  <2>2. Shown(script, out)
    BY <2>1 DEF ProseInv, TakenBlock
  <2> DEFINE f == From(script)
             e == Ends(script)
  <2>3. PICK p \in f..e : out.content = Cut(script, f, p)
    BY <2>2 DEF Shown
  <2>4. f \in Nat /\ e \in f..Len(script) /\ Len(script) \in Nat
    BY <2>1, ShapeIs, LenType
  <2>5. e = TrimWs(script, f, ToolStart(script)) /\ f = IF req.think THEN Opened(script) + 3 ELSE 0
    BY DEF Ends, From
  <2> HIDE DEF f, e
  <2>6. Cut(script, f, e) = Cut(script, f, p) \o Cut(script, p, e)
    <3>1. p \in Nat /\ e \in 0..Len(script) /\ f <= p /\ p <= e
      BY <2>3, <2>4
    <3> QED BY ONLY <2>1, <2>4, <3>1, CutJoins
  <2>7. /\ Cut(script, f, p) \in Texts /\ Cut(script, p, e) \in Texts
    <3>1. p \in Nat /\ e \in 0..Len(script) /\ f <= p /\ p <= e /\ p \in 0..Len(script)
      BY <2>3, <2>4
    <3> QED BY ONLY <2>1, <2>4, <3>1, CutIs
  <2>8. IsPrefix(out.content, Cut(script, f, e))
    <3> DEFINE a == Cut(script, f, p)
               b == Cut(script, p, e)
    <3> HIDE DEF a, b
    <3>1. a \in Texts /\ b \in Texts
      BY <2>7 DEF a, b
    <3>2. out.content = a /\ Cut(script, f, e) = a \o b
      BY <2>3, <2>6 DEF a, b
    <3> DEFINE c == a \o b
    <3>3. /\ c \in Seq(Atom) /\ Len(c) = Len(a) + Len(b)
          /\ \A i \in 1..(Len(a) + Len(b)) : c[i] = IF i <= Len(a) THEN a[i] ELSE b[i - Len(a)]
      BY <3>1, ConcatProperties DEF Texts
    <3> HIDE DEF c
    <3>4. Len(a) \in Nat /\ Len(b) \in Nat /\ c \in Texts
      BY <3>1, <3>3, LenType DEF Texts
    <3>5. Begins(a, c)
      <4>1. ASSUME NEW i \in 1..Len(a) PROVE a[i] = c[i]
        BY <3>3, <3>4, <4>1
      <4> QED BY <3>1, <3>3, <3>4, <4>1 DEF Begins
    <3>6. SubSeq(a, 0 + 1, Len(a)) = SubSeq(c, 0 + 1, Len(a))
      <4>1. 0 \in Nat /\ Len(a) \in 0..Len(a)
        BY <3>4
      <4> QED BY <3>5, <4>1, BeginsCut
    <3>7. SubSeq(a, 1, Len(a)) = a
      BY <3>1, SubSeqFull DEF Texts
    <3>8. IsPrefix(a, c)
      BY <3>3, <3>4, <3>6, <3>7 DEF IsPrefix
    <3> QED BY <3>2, <3>8 DEF c
  <2> QED BY <2>5, <2>8
<1> QED BY <1>1, StreamInvariant, ProseInvariant, PTL

-----------------------------------------------------------------------------
(* What the live projection looks at is in the first n atoms.              *)

\* A search within the first n atoms does not see how the text goes on.
LEMMA BeginsFind ==
  ASSUME NEW t, NEW s, Begins(t, s), NEW n \in 0..Len(t), NEW p \in Nat, NEW lit \in Seq(Atom)
  PROVE  FindLit(t, n, p, lit) = FindLit(s, n, p, lit)
<1>1. \A q \in p..n : FullLit(t, n, q, lit) <=> FullLit(s, n, q, lit)
  <2>1. \A q \in p..n : q \in Nat
    OBVIOUS
  <2> QED BY <2>1, BeginsLit
<1>2. {q \in p..n : FullLit(t, n, q, lit)} = {q \in p..n : FullLit(s, n, q, lit)}
  BY <1>1
<1> QED BY <1>2 DEF FindLit

\* Nor does a step over white space,
LEMMA BeginsSkip ==
  ASSUME NEW t, NEW s, Begins(t, s), NEW n \in 0..Len(t), NEW p \in Nat
  PROVE  SkipWs(t, n, p) = SkipWs(s, n, p)
<1>0. Len(t) \in Nat
  BY LenType DEF Begins
<1>1. ASSUME NEW q \in p..n PROVE q = n \/ t[q + 1] # "w" <=> q = n \/ s[q + 1] # "w"
  <2>1. q = n \/ q + 1 \in 1..Len(t)
    BY <1>0
  <2>2. q = n \/ t[q + 1] = s[q + 1]
    BY <2>1 DEF Begins
  <2> QED BY <2>2
<1>2. {q \in p..n : q = n \/ t[q + 1] # "w"} = {q \in p..n : q = n \/ s[q + 1] # "w"}
  BY <1>1
<1> QED BY <1>2 DEF SkipWs

\* the search for the end of a tag,
LEMMA BeginsTag ==
  ASSUME NEW t, NEW s, Begins(t, s), NEW n \in 0..Len(t), NEW p \in Nat
  PROVE  TagEnd(t, n, p) = TagEnd(s, n, p)
<1>1. <<">">> \in Seq(Atom)
  <2>1. ">" \in Atom
    BY Zenon, AtomType
  <2> QED BY <2>1
<1> QED BY <1>1, BeginsFind DEF TagEnd

\* the reading of an attribute,
LEMMA BeginsAttr ==
  ASSUME NEW t, NEW s, Begins(t, s), NEW p \in Nat, NEW to \in 0..Len(t)
  PROVE  Attr(t, p, to) = Attr(s, p, to)
<1>1. SubSeq(t, p + 1, to) = SubSeq(s, p + 1, to)
  BY BeginsCut
<1> QED BY <1>1, Zenon DEF Attr

\* the question whether a marker has begun,
LEMMA BeginsPart ==
  ASSUME NEW t, NEW s, Begins(t, s), NEW n \in 0..Len(t), NEW p \in Nat, NEW lit, NEW min
  PROVE  PartialLit(t, n, p, lit, min) <=> PartialLit(s, n, p, lit, min)
<1>1. SubSeq(t, p + 1, n) = SubSeq(s, p + 1, n)
  BY BeginsCut
<1> QED BY <1>1 DEF PartialLit

\* and how much of a value may be shown.
LEMMA BeginsSafe ==
  ASSUME NEW t, NEW s, Begins(t, s), NEW n \in 0..Len(t), NEW start \in 0..n, NEW str
  PROVE  ValueSafeLen(t, start, n, str) = ValueSafeLen(s, start, n, str)
<1> DEFINE scan == IF n > start + 3 THEN n - 3 ELSE start
           cut(u) == {p \in scan..(n - 1) : PartialLit(u, n, p, End("arg"), 1)}
           limit(u) == IF cut(u) = {} THEN n ELSE First(cut(u))
           hold(u) == IF str THEN EntitySafeLen(u, start, limit(u)) ELSE limit(u)
<1>1. Len(t) \in Nat /\ n \in Nat /\ start \in Nat /\ scan \in start..n
  BY LenType DEF Begins
<1>2. cut(t) = cut(s)
  <2>1. \A p \in scan..(n - 1) : p \in Nat
    BY <1>1
  <2> HIDE DEF scan
  <2> QED BY <2>1, BeginsPart
<1>3. limit(t) = limit(s) /\ limit(t) \in start..n
  <2> HIDE DEF scan
  <2>1. cut(t) \in SUBSET Nat /\ cut(t) \subseteq start..n
    BY <1>1
  <2>2. n \in start..n
    BY <1>1
  <2> HIDE DEF cut
  <2>3. cut(t) # {} => First(cut(t)) \in cut(t)
    BY <2>1, FirstIsLeast
  <2> QED BY <1>2, <2>1, <2>2, <2>3
<1>4. ASSUME NEW i \in start..n PROVE i > start => t[i] = s[i]
  BY <1>1 DEF Begins
<1> HIDE DEF limit
<1>5. hold(t) = hold(s) /\ hold(t) \in start..n
  BY <1>1, <1>3, <1>4 DEF EntitySafeLen
<1> HIDE DEF hold
<1>6. Utf8SafeLen(t, start, hold(t)) = Utf8SafeLen(s, start, hold(s))
  BY <1>4, <1>5 DEF Utf8SafeLen
<1>7. /\ ValueSafeLen(t, start, n, str) = Utf8SafeLen(t, start, hold(t))
      /\ ValueSafeLen(s, start, n, str) = Utf8SafeLen(s, start, hold(s))
  BY DEF ValueSafeLen, hold, limit
<1> QED BY <1>6, <1>7

\* What a round does between two calls, with each place named once.
LEMMA BetweenCallsCases ==
  ASSUME NEW o, NEW t, NEW n
  PROVE  LET p == SkipWs(t, n, o.tool.pos)
             tagEnd == TagEnd(t, n, p)
             at == MoveTo(o, p)
         IN  BetweenCalls(o, t, n) =
               CASE FullLit(t, n, p, End("tools")) -> EndBlock(at, p + 3)
                 [] PartialLit(t, n, p, End("tools"), 0) \/ PartialLit(t, n, p, Start("call"), 0) -> at
                 [] FullLit(t, n, p, Start("call")) ->
                      IF tagEnd = NotFound THEN at ELSE StartCall(at, tagEnd)
                 [] OTHER -> ToolFail(at)
BY Zenon DEF BetweenCalls, MoveTo, EndBlock

\* What a round does between two arguments of a call.
LEMMA BetweenArgsCases ==
  ASSUME NEW o, NEW t, NEW n
  PROVE  LET p == SkipWs(t, n, o.tool.pos)
             tagEnd == TagEnd(t, n, p)
             at == MoveTo(o, p)
         IN  BetweenArgs(o, t, n) =
               CASE FullLit(t, n, p, End("call")) -> FinishCall(at, p)
                 [] PartialLit(t, n, p, End("call"), 0) \/ PartialLit(t, n, p, Start("arg"), 0) -> at
                 [] FullLit(t, n, p, Start("arg")) ->
                      IF tagEnd = NotFound THEN at ELSE StartArg(at, Attr(t, p, tagEnd), tagEnd)
                 [] OTHER -> ToolFail(at)
BY Zenon DEF BetweenArgs, MoveTo

\* A step of the live projection does not see how the text goes on.
LEMMA BeginsStep ==
  ASSUME NEW t, NEW s, Begins(t, s), NEW n \in 0..Len(t), NEW o, o.tool.pos \in 0..n
  PROVE  ToolStep(o, t, n) = ToolStep(o, s, n)
<1> DEFINE p == SkipWs(t, n, o.tool.pos)
           e == TagEnd(t, n, p)
<1>0. Len(t) \in Nat /\ n \in Nat /\ o.tool.pos \in Nat /\ Len(s) \in Nat /\ n <= Len(s) /\ n <= Len(t)
  BY LenType DEF Begins
<1>1. p = SkipWs(s, n, o.tool.pos) /\ p \in 0..n /\ p \in Nat
  <2>1. p \in o.tool.pos..n
    BY <1>0, SkipWsIs
  <2> QED BY <1>0, <2>1, BeginsSkip
<1> HIDE DEF p
<1>2. /\ e = TagEnd(s, n, p)
      /\ e # NotFound => Attr(t, p, e) = Attr(s, p, e)
  <2>1. e = NotFound \/ e \in 0..Len(t)
    <3>1. t \in Texts
      BY DEF Begins
    <3>2. e = NotFound \/ e \in (p + 1)..n
      BY <1>0, <1>1, <3>1, TagEndIs
    <3> QED BY <1>0, <1>1, <3>2
  <2>2. e = TagEnd(s, n, p)
    BY <1>1, BeginsTag
  <2> HIDE DEF e
  <2> QED BY <1>1, <2>1, <2>2, BeginsAttr
<1> HIDE DEF e
<1>3. ASSUME NEW x \in Marks
      PROVE  /\ FullLit(t, n, p, Start(x)) <=> FullLit(s, n, p, Start(x))
             /\ FullLit(t, n, p, End(x)) <=> FullLit(s, n, p, End(x))
             /\ PartialLit(t, n, p, Start(x), 0) <=> PartialLit(s, n, p, Start(x), 0)
             /\ PartialLit(t, n, p, End(x), 0) <=> PartialLit(s, n, p, End(x), 0)
  BY <1>1, MarkerType, BeginsLit, BeginsPart
<1>4. ASSUME NEW x \in Marks PROVE FindLit(t, n, o.tool.pos, End(x)) = FindLit(s, n, o.tool.pos, End(x))
  BY <1>0, MarkerType, BeginsFind
<1>9. \A i \in 1..Len(t) : t[i] = s[i]
  BY DEF Begins
<1>5. "tools" \in Marks /\ "call" \in Marks /\ "arg" \in Marks
  BY MarkNames
<1>6. BetweenCalls(o, t, n) = BetweenCalls(o, s, n)
  <2> DEFINE ends == FullLit(t, n, p, End("tools"))
             begins == FullLit(t, n, p, Start("call"))
             p1 == PartialLit(t, n, p, End("tools"), 0)
             p2 == PartialLit(t, n, p, Start("call"), 0)
  <2>1. /\ ends <=> FullLit(s, n, p, End("tools"))
        /\ begins <=> FullLit(s, n, p, Start("call"))
        /\ p1 <=> PartialLit(s, n, p, End("tools"), 0)
        /\ p2 <=> PartialLit(s, n, p, Start("call"), 0)
    BY <1>3, <1>5
  <2>2. /\ e = TagEnd(s, n, p) /\ e = TagEnd(t, n, p)
        /\ p = SkipWs(s, n, o.tool.pos) /\ p = SkipWs(t, n, o.tool.pos)
    BY <1>1, <1>2 DEF p, e
  <2> DEFINE at == MoveTo(o, p)
             pick(u) == CASE FullLit(u, n, p, End("tools")) -> EndBlock(at, p + 3)
                          [] PartialLit(u, n, p, End("tools"), 0) \/ PartialLit(u, n, p, Start("call"), 0) -> at
                          [] FullLit(u, n, p, Start("call")) ->
                               IF e = NotFound THEN at ELSE StartCall(at, e)
                          [] OTHER -> ToolFail(at)
  <2>3. BetweenCalls(o, t, n) = pick(t)
    BY <2>2, BetweenCallsCases, Zenon
  <2>4. BetweenCalls(o, s, n) = pick(s)
    BY <2>2, BetweenCallsCases, Zenon
  <2>5. pick(t) = pick(s)
    <3> HIDE DEF at
    <3> QED BY <2>1
  <2> QED BY <2>3, <2>4, <2>5
<1>7. BetweenArgs(o, t, n) = BetweenArgs(o, s, n)
  <2> DEFINE ends == FullLit(t, n, p, End("call"))
             begins == FullLit(t, n, p, Start("arg"))
             p1 == PartialLit(t, n, p, End("call"), 0)
             p2 == PartialLit(t, n, p, Start("arg"), 0)
  <2>1. /\ ends <=> FullLit(s, n, p, End("call"))
        /\ begins <=> FullLit(s, n, p, Start("arg"))
        /\ p1 <=> PartialLit(s, n, p, End("call"), 0)
        /\ p2 <=> PartialLit(s, n, p, Start("arg"), 0)
    BY <1>3, <1>5
  <2>2. /\ e = TagEnd(s, n, p) /\ e = TagEnd(t, n, p)
        /\ p = SkipWs(s, n, o.tool.pos) /\ p = SkipWs(t, n, o.tool.pos)
        /\ e # NotFound => Attr(t, p, e) = Attr(s, p, e)
    BY <1>1, <1>2 DEF p, e
  <2> DEFINE at == MoveTo(o, p)
             pick(u) == CASE FullLit(u, n, p, End("call")) -> FinishCall(at, p)
                          [] PartialLit(u, n, p, End("call"), 0) \/ PartialLit(u, n, p, Start("arg"), 0) -> at
                          [] FullLit(u, n, p, Start("arg")) ->
                               IF e = NotFound THEN at ELSE StartArg(at, Attr(u, p, e), e)
                          [] OTHER -> ToolFail(at)
  <2>3. BetweenArgs(o, t, n) = pick(t)
    BY <2>2, BetweenArgsCases, Zenon
  <2>4. BetweenArgs(o, s, n) = pick(s)
    BY <2>2, BetweenArgsCases, Zenon
  <2>5. pick(t) = pick(s)
    <3> HIDE DEF at
    <3> QED BY <2>1, <2>2
  <2> QED BY <2>3, <2>4, <2>5
<1>8. InValue(o, t, n) = InValue(o, s, n)
  <2> DEFINE v == FindLit(t, n, o.tool.pos, End("arg"))
             w == ValueSafeLen(t, o.tool.pos, n, o.tool.str)
  <2>1. v = FindLit(s, n, o.tool.pos, End("arg")) /\ w = ValueSafeLen(s, o.tool.pos, n, o.tool.str)
    BY <1>4, <1>5, BeginsSafe
  <2>2. (v # NotFound => v \in 0..Len(t)) /\ w \in 0..Len(t)
    <3>1. v = NotFound \/ v \in o.tool.pos..n
      BY <1>0, FindLitIs
    <3>2. w \in o.tool.pos..n
      BY <1>0, ValueSafeLenIs
    <3> HIDE DEF v, w
    <3> QED BY <1>0, <3>1, <3>2
  <2>3. v # NotFound => ShowValue(o, t, v) = ShowValue(o, s, v)
    <3>1. v # NotFound => Cut(t, o.tool.pos, v) = Cut(s, o.tool.pos, v) /\ Splits(t, o.tool.pos, v) = Splits(s, o.tool.pos, v)
      <4> SUFFICES ASSUME v # NotFound PROVE Cut(t, o.tool.pos, v) = Cut(s, o.tool.pos, v) /\ Splits(t, o.tool.pos, v) = Splits(s, o.tool.pos, v)
        OBVIOUS
      <4> HIDE DEF v
      <4>1. Cut(t, o.tool.pos, v) = Cut(s, o.tool.pos, v)
        BY <1>0, <2>2, CutBegins
      <4>2. o.tool.pos > 0 /\ o.tool.pos < v => t[o.tool.pos] = s[o.tool.pos] /\ t[o.tool.pos + 1] = s[o.tool.pos + 1]
        BY <1>0, <1>9, <2>2
      <4> QED BY <4>1, <4>2 DEF Splits
    <3> QED BY <3>1, Zenon DEF ShowValue
  <2>4. ShowValue(o, t, w) = ShowValue(o, s, w)
    <3> HIDE DEF w
    <3>1. Cut(t, o.tool.pos, w) = Cut(s, o.tool.pos, w)
      BY <1>0, <2>2, CutBegins
    <3>2. o.tool.pos > 0 /\ o.tool.pos < w => t[o.tool.pos] = s[o.tool.pos] /\ t[o.tool.pos + 1] = s[o.tool.pos + 1]
      BY <1>0, <1>9, <2>2
    <3>3. Splits(t, o.tool.pos, w) = Splits(s, o.tool.pos, w)
      BY <3>2 DEF Splits
    <3> QED BY <3>1, <3>3, Zenon DEF ShowValue
  <2>5. InValue(o, t, n) = IF v # NotFound THEN FinishArg(o, t, v) ELSE ShowValue(o, t, w)
    BY Zenon DEF InValue
  <2>6. InValue(o, s, n) = IF v # NotFound THEN FinishArg(o, s, v) ELSE ShowValue(o, s, w)
    BY <2>1, Zenon DEF InValue
  <2>7. v # NotFound => FinishArg(o, t, v) = FinishArg(o, s, v)
    BY <2>3, Zenon DEF FinishArg
  <2> QED BY <2>4, <2>5, <2>6, <2>7
<1> QED BY <1>6, <1>7, <1>8 DEF ToolStep

\* Nor does a round of it.
LEMMA BeginsRound ==
  ASSUME NEW t, NEW s, Begins(t, s), NEW n \in 0..Len(t), NEW o, o.tool.pos \in Nat
  PROVE  ToolRound(o, t, n) = ToolRound(o, s, n)
<1>1. o.tool.pos < n => o.tool.pos \in 0..n
  OBVIOUS
<1> QED BY <1>1, BeginsStep DEF ToolRound

-----------------------------------------------------------------------------
(* Rounds of the live projection go on until the next one would change nothing. *)

\* A round would change nothing.
Rests(o, t, n) == ToolRound(o, t, n) = o

\* To move to the place one is at is to stay there.
LEMMA StaysPut ==
  ASSUME NEW o \in OutT
  PROVE  MoveTo(o, o.tool.pos) = o
<1>1. o.tool \in ToolT
  BY DEF OutT
<1>2. [o.tool EXCEPT !.pos = o.tool.pos] = o.tool
  BY <1>1 DEF ToolT
<1>3. [o EXCEPT !.tool = o.tool] = o
  BY DEF OutT
<1> QED BY <1>2, <1>3 DEF MoveTo

\* A step of a block that is being read moves on, ends the block, or changes nothing.
LEMMA StepMoves ==
  ASSUME NEW t, NEW s, Begins(t, s), NEW n \in 0..Len(t), NEW o, InTool(s, o),
         ToolActive(o), o.tool.pos <= n
  PROVE  LET r == ToolStep(o, t, n)
         IN  r = o \/ ~ToolActive(r) \/ r.tool.pos > o.tool.pos
<1> DEFINE r == ToolStep(o, t, n)
           pos == o.tool.pos
           p == SkipWs(t, n, pos)
           e == TagEnd(t, n, p)
<1>0. /\ n \in Nat /\ o.tool.pos \in Nat /\ t \in Texts /\ o \in OutT /\ pos \in 0..n /\ n \in 0..Len(t)
      /\ Len(t) \in Nat
  BY LenType DEF Begins, InTool, OutT, ToolT
<1>1. p \in pos..n /\ p \in Nat
  <2>1. n \in Nat /\ pos \in 0..n /\ pos \in Nat
    BY <1>0
  <2> HIDE DEF pos, r
  <2>2. p \in pos..n
    BY ONLY <2>1, SkipWsIs
  <2> HIDE DEF p
  <2> QED BY ONLY <2>1, <2>2
<1>2. e = NotFound \/ e \in (p + 1)..n
  BY <1>0, <1>1, TagEndIs
<1>3. o.tool.state \in {"invokes", "params", "value"}
  BY DEF ToolActive
<1>4. p = pos => MoveTo(o, p) = o
  BY <1>0, StaysPut
<1>5. CASE o.tool.state = "invokes"
  <2>1. r = BetweenCalls(o, t, n)
    BY <1>5 DEF ToolStep
  <2>2. NextCall(o, t, n, r)
    BY <1>5, <2>1, BetweenCallsIs
  <2> DEFINE ends == FullLit(t, n, p, End("tools"))
             begins == FullLit(t, n, p, Start("call"))
             part == PartialLit(t, n, p, End("tools"), 0) \/ PartialLit(t, n, p, Start("call"), 0)
  <2>3. r = CASE ends -> EndBlock(MoveTo(o, p), p + 3)
              [] part -> MoveTo(o, p)
              [] begins -> IF e = NotFound THEN MoveTo(o, p) ELSE StartCall(MoveTo(o, p), e)
              [] OTHER -> ToolFail(MoveTo(o, p))
    BY <2>1, BetweenCallsCases, Zenon
  <2>4. \/ ends /\ r.tool.state = "done"
        \/ e # NotFound /\ r.tool.pos = e
        \/ ~ends /\ (part \/ (begins /\ e = NotFound)) /\ r.tool.pos = p
        \/ r.tool.state = "error"
    BY <2>2 DEF NextCall
  <2>9. ~(ends /\ part) /\ ~(ends /\ begins) /\ ~(part /\ begins)
    <3>1. "tools" \in Marks /\ "call" \in Marks
      BY MarkNames
    <3>2. ends => p + 3 <= n /\ t[p + 2] = "/"
      BY <1>0, <1>1, <3>1, FullEnd
    <3>3. begins => p + 2 <= n /\ t[p + 2] = "call"
      BY <1>0, <1>1, <3>1, FullStart
    <3>4. part => p + 2 > n \/ (p + 2 = n /\ t[p + 2] = "/")
      BY <1>0, <1>1, <3>1, PartialStart, PartialEnd
    <3> HIDE DEF ends, begins, part, p
    <3> QED BY <1>0, <1>1, <3>2, <3>3, <3>4
  <2> HIDE DEF r, ends, begins, part, e, p
  <2>5. ~ends /\ (part \/ (begins /\ e = NotFound)) => r = MoveTo(o, p)
    <3> DEFINE at == MoveTo(o, p)
               x == EndBlock(at, p + 3)
               y == StartCall(at, e)
               z == ToolFail(at)
    <3>1. r = CASE ends -> x [] part -> at [] begins -> IF e = NotFound THEN at ELSE y [] OTHER -> z
      BY <2>3
    <3>2. ~(ends /\ part) /\ ~(ends /\ begins) /\ ~(part /\ begins)
      BY <2>9
    <3> HIDE DEF x, y, z, at
    <3>3. ~ends /\ part => r = at
      BY <3>1, <3>2
    <3>4. ~ends /\ ~part /\ begins /\ e = NotFound => r = at
      BY <3>1, <3>2
    <3> QED BY <3>3, <3>4 DEF at
  <2>6. r.tool.state = "done" \/ r.tool.state = "error" => ~ToolActive(r)
    BY DEF ToolActive
  <2>7. e # NotFound => e > pos
    BY <1>0, <1>1, <1>2
  <2>8. p > pos \/ p = pos
    BY <1>0, <1>1
  <2> QED BY <1>4, <2>4, <2>5, <2>6, <2>7, <2>8 DEF r
<1>6. CASE o.tool.state = "params"
  <2>1. r = BetweenArgs(o, t, n)
    BY <1>6 DEF ToolStep
  <2>2. NextArg(o, t, n, r)
    BY <1>6, <2>1, BetweenArgsIs
  <2>4. \/ r.tool.pos = p + 3
        \/ e # NotFound /\ r.tool.pos = e
        \/ r = MoveTo(o, p) /\ r.tool.pos = p
        \/ r.tool.state = "error"
    BY <2>2 DEF NextArg
  <2> HIDE DEF r, e, p
  <2>6. r.tool.state = "error" => ~ToolActive(r)
    BY DEF ToolActive
  <2>7. (e # NotFound => e > pos) /\ p + 3 > pos
    BY <1>0, <1>1, <1>2
  <2>8. p > pos \/ p = pos
    BY <1>0, <1>1
  <2> QED BY <1>4, <2>4, <2>6, <2>7, <2>8 DEF r
<1>7. CASE o.tool.state = "value"
  <2> DEFINE close == FindLit(t, n, pos, End("arg"))
             safe == ValueSafeLen(t, pos, n, o.tool.str)
  <2>1. r = InValue(o, t, n)
    BY <1>7 DEF ToolStep
  <2>2. NextPiece(o, t, n, r)
    BY <1>7, <2>1, InValueIs
  <2>3. \/ close # NotFound /\ close \in pos..n /\ r.tool.pos = close + 3
        \/ close = NotFound /\ safe \in pos..n /\ r.tool.pos = safe
    BY <2>2 DEF NextPiece
  <2>4. close = NotFound => r = ShowValue(o, t, safe)
    BY <2>1, Zenon DEF InValue
  <2>5. safe <= pos => ShowValue(o, t, safe) = o
    BY Zenon DEF ShowValue
  <2> HIDE DEF r, close, safe
  <2>6. close \in pos..n => close + 3 > pos
    BY <1>0
  <2>7. safe \in pos..n => safe > pos \/ safe <= pos
    BY <1>0
  <2> QED BY <2>3, <2>4, <2>5, <2>6, <2>7 DEF r
<1> QED BY <1>3, <1>5, <1>6, <1>7

\* A round moves on, or the next one changes nothing.
LEMMA RoundMoves ==
  ASSUME NEW t, NEW s, Begins(t, s), NEW n \in 0..Len(t), NEW o, InTool(s, o)
  PROVE  LET r == ToolRound(o, t, n)
         IN  r = o \/ Rests(r, t, n) \/ r.tool.pos > o.tool.pos
<1>0. n \in Nat /\ o.tool.pos \in Nat
  BY LenType DEF Begins, InTool, OutT, ToolT
<1>1. CASE ToolActive(o) /\ o.tool.pos < n
  <2>1. o.tool.pos <= n
    BY <1>0, <1>1
  <2>2. ToolRound(o, t, n) = ToolStep(o, t, n)
    BY <1>1 DEF ToolRound
  <2> QED BY <1>1, <2>1, <2>2, StepMoves DEF Rests, ToolRound
<1>2. CASE ~(ToolActive(o) /\ o.tool.pos < n)
  BY <1>2 DEF ToolRound
<1> QED BY <1>1, <1>2

\* An update goes on until there is nothing more to read in what it may look at.
LEMMA ToolUpdateRests ==
  ASSUME NEW t, NEW s, Begins(t, s), NEW n \in 0..Len(t), NEW o, InTool(s, o), o.tool.pos <= n
  PROVE  Rests(ToolUpdate(o, t, n), t, n)
<1>0. n \in Nat /\ n + 2 \in Nat /\ o.tool.pos \in Nat
  BY LenType DEF Begins, InTool, OutT, ToolT
<1>1. PICK f : Rounds(o, t, n, n + 2, f) /\ ToolUpdate(o, t, n) = f[n + 2]
  BY <1>0, ToolUpdateIs
<1>2. f[0] = o /\ \A k \in 1..(n + 2) : f[k] = ToolRound(f[k - 1], t, n)
  BY <1>0, <1>1, RoundsAt
<1> DEFINE N == {k \in Nat : k <= n + 2 =>
                   InTool(s, f[k]) /\ f[k].tool.pos <= n /\ (Rests(f[k], t, n) \/ f[k].tool.pos >= k)}
<1>3. 0 \in N
  BY <1>0, <1>2
<1>4. ASSUME NEW k \in Nat, k \in N PROVE k + 1 \in N
  <2> SUFFICES ASSUME k + 1 <= n + 2
               PROVE  LET r == f[k + 1]
                      IN  InTool(s, r) /\ r.tool.pos <= n /\ (Rests(r, t, n) \/ r.tool.pos >= k + 1)
    OBVIOUS
  <2> DEFINE x == f[k]
             r == f[k + 1]
  <2>1. InTool(s, x) /\ x.tool.pos <= n /\ (Rests(x, t, n) \/ x.tool.pos >= k)
    BY <1>0, <1>4
  <2>2. r = ToolRound(x, t, n)
    <3>1. k + 1 \in 1..(n + 2) /\ (k + 1) - 1 = k
      BY <1>0
    <3> QED BY <1>2, <3>1
  <2> HIDE DEF x, r
  <2>3. InTool(s, r) /\ r.tool.pos <= n
    BY <2>1, <2>2, ToolRoundKeeps
  <2>4. r = x \/ Rests(r, t, n) \/ r.tool.pos > x.tool.pos
    BY <2>1, <2>2, RoundMoves
  <2>5. Rests(x, t, n) => r = x
    BY <2>2 DEF Rests
  <2>6. r = x => Rests(r, t, n)
    BY <2>2 DEF Rests
  <2>7. x.tool.pos \in Nat /\ r.tool.pos \in Nat
    BY <2>1, <2>3 DEF InTool, OutT, ToolT
  <2>8. Rests(r, t, n) \/ r.tool.pos >= k + 1
    BY <2>1, <2>4, <2>5, <2>6, <2>7
  <2> QED BY <2>3, <2>8 DEF r
<1>5. Nat \subseteq N
  <2> HIDE DEF N
  <2> QED BY <1>3, <1>4, EveryNumber
<1>6. InTool(s, f[n + 2]) /\ f[n + 2].tool.pos <= n /\ (Rests(f[n + 2], t, n) \/ f[n + 2].tool.pos >= n + 2)
  BY <1>0, <1>5
<1>7. f[n + 2].tool.pos \in Nat
  BY <1>6 DEF InTool, OutT, ToolT
<1> QED BY <1>0, <1>1, <1>6, <1>7

-----------------------------------------------------------------------------
(* The readers of the final parser, unfolded once.                         *)

\* What the readers of the final parser return.
ReadT == [ok : BOOLEAN, next : Nat, out : Texts]

\* One JSON value of a raw value lies within it.
LEMMA MinifiedType ==
  ASSUME NEW v \in Texts
  PROVE  Minified(v) \in Texts
<1> DEFINE n == Len(v)
           p == SkipWs(v, n, 0)
           e == JsonEnd(v, p)
           quoted == {i \in (p + 2)..n : v[i] = "q" /\ ~Escaped(v, i)}
           plain == {i \in p..n : i = n \/ ~Plain(v[i + 1])}
<1>1. n \in Nat
  BY LenType
<1>2. p \in 0..n
  BY <1>1, SkipWsIs
<1>3. JsonEnd(v, p) \in {First(quoted), First(plain), NotFound}
  BY DEF JsonEnd
<1>4. First(quoted) \in quoted \cup {NotFound} /\ First(plain) \in plain \cup {NotFound}
  <2> HIDE DEF p, n
  <2>1. quoted \in SUBSET Nat /\ plain \in SUBSET Nat
    BY <1>1, <1>2
  <2> HIDE DEF quoted, plain
  <2> QED BY <2>1, FirstIsLeast
<1>5. e # NotFound => e \in 0..n /\ p <= e
  <2> HIDE DEF p, n
  <2> QED BY <1>1, <1>2, <1>3, <1>4
<1>6. Minified(v) = IF e = NotFound THEN v ELSE Cut(v, p, e)
  BY DEF Minified, Cut
<1>7. p \in Nat
  BY <1>2
<1> HIDE DEF p, e
<1> QED BY <1>5, <1>6, <1>7, CutIs

\* The value of an argument is a text.
LEMMA ArgValueType ==
  ASSUME NEW v \in Texts, NEW attr
  PROVE  ArgValue(v, attr) \in Texts
<1>1. <<"q">> \in Seq(Atom) /\ Unescape(v) \in Seq(Atom)
  BY CloseBrace, UnescapeType DEF Texts
<1>2. Quoted(v) \in Seq(Atom)
  <2> DEFINE u == Unescape(v)
             x == <<"q">>
  <2> HIDE DEF u, x
  <2>1. x \in Seq(Atom) /\ u \in Seq(Atom)
    BY <1>1 DEF u, x
  <2>2. (x \o u) \o x \in Seq(Atom)
    BY <2>1
  <2>3. Quoted(v) = (x \o u) \o x
    BY Zenon DEF Quoted, u, x
  <2> QED BY <2>2, <2>3
<1>3. <<"null">> \in Texts
  <2> DEFINE x == "null"
  <2>1. x \in Atom
    BY DEF Atom, Json
  <2> HIDE DEF x, Atom
  <2> QED BY <2>1 DEF Texts, x
<1>4. ArgValue(v, attr) \in {Quoted(v), <<"null">>, Minified(v)}
  BY Zenon DEF ArgValue
<1>5. Quoted(v) \in Texts /\ Minified(v) \in Texts
  BY <1>2, MinifiedType DEF Texts
<1> QED BY <1>3, <1>4, <1>5

\* One argument without children.
LEMMA LeafIs ==
  ASSUME NEW t \in Texts, NEW p \in 0..Len(t)
  PROVE  LET n == Len(t)
             e == TagEnd(t, n, p)
             v == FindLit(t, n, e, End("arg"))
             leaf == ParseLeaf(t, p)
         IN  /\ leaf \in ReadT
             /\ leaf.ok => /\ e \in (p + 1)..n /\ v \in e..n /\ v + 3 <= n /\ FullLit(t, n, v, End("arg"))
                           /\ leaf.next = v + 3 /\ leaf.out = ArgValue(Cut(t, e, v), Attr(t, p, e))
<1> DEFINE n == Len(t)
           e == TagEnd(t, n, p)
           v == FindLit(t, n, e, End("arg"))
           leaf == ParseLeaf(t, p)
           value == ArgValue(Cut(t, e, v), Attr(t, p, e))
<1>0. n \in Nat /\ n \in 0..Len(t) /\ p \in Nat
  BY LenType
<1>1. e = NotFound \/ e \in (p + 1)..n
  BY <1>0, TagEndIs
<1>2. e # NotFound => v = NotFound \/ (v \in e..n /\ FullLit(t, n, v, End("arg")))
  <2>1. e # NotFound => e \in Nat
    BY <1>0, <1>1
  <2> HIDE DEF e
  <2> QED BY <1>0, <2>1, FindLitIs
<1>3. leaf = IF e = NotFound \/ v = NotFound THEN Bad ELSE [ok |-> TRUE, next |-> v + 3, out |-> value]
  BY Zenon DEF ParseLeaf, LeafValue, Cut
<1>4. Bad \in ReadT /\ Bad.ok = FALSE
  BY DEF Bad, ReadT, Texts
<1>5. e # NotFound /\ v # NotFound => v + 3 <= n /\ v \in Nat /\ v \in e..n /\ v \in 0..n /\ e \in Nat /\ e <= v
  <2> SUFFICES ASSUME e # NotFound, v # NotFound PROVE v + 3 <= n /\ v \in Nat /\ v \in e..n /\ v \in 0..n /\ e \in Nat /\ e <= v
    OBVIOUS
  <2>1. e \in (p + 1)..n /\ v \in e..n /\ FullLit(t, n, v, End("arg"))
    BY <1>1, <1>2
  <2> HIDE DEF e, v
  <2>2. v \in Nat /\ e \in Nat /\ v \in 0..n /\ e <= v
    BY <1>0, <2>1
  <2>3. "arg" \in Marks
    BY MarkNames
  <2>4. v + 3 <= n
    BY <1>0, <2>1, <2>2, <2>3, FullEnd
  <2> QED BY <2>1, <2>2, <2>4
<1>6. e # NotFound /\ v # NotFound => value \in Texts
  <2> HIDE DEF e, v
  <2> QED BY <1>0, <1>5, CutIs, ArgValueType
<1> HIDE DEF e, v, value, leaf
<1>7. leaf \in ReadT
  <2>1. v \in Nat => v + 3 \in Nat
    OBVIOUS
  <2> QED BY <1>3, <1>4, <1>5, <1>6, <2>1 DEF ReadT
<1>8. leaf.ok => e # NotFound /\ v # NotFound /\ leaf = [ok |-> TRUE, next |-> v + 3, out |-> value]
  BY <1>3, <1>4
<1> QED BY <1>1, <1>2, <1>5, <1>7, <1>8 DEF e, v, value, leaf

\* Where every argument has its string attribute, none has children.
LEMMA TypedArg ==
  ASSUME NEW t \in Texts, Typed(t), NEW p \in 0..Len(t), FullLit(t, Len(t), p, Start("arg"))
  PROVE  /\ ParseArg(t, p) = ParseLeaf(t, p)
         /\ TagEnd(t, Len(t), p) # NotFound => Attr(t, p, TagEnd(t, Len(t), p)) # "none"
<1> DEFINE e == TagEnd(t, Len(t), p)
<1>1. e # NotFound => Attr(t, p, e) # "none"
  BY DEF Typed, ArgMarkers
<1>2. e = NotFound => ParseArg(t, p) = Bad /\ ParseLeaf(t, p) = Bad
  BY Zenon DEF ParseArg, ParseLeaf, LeafValue
<1>3. e # NotFound => ParseArg(t, p) = ParseLeaf(t, p)
  BY <1>1, Zenon DEF ParseArg
<1> QED BY <1>1, <1>2, <1>3

\* A member of an argument object before the rest of it.
MemberOf(first, one, rest) == Member(first, one) \o rest

\* The arguments from p on: the end of the call, or one argument and the rest of them.
LEMMA ArgsFromIs ==
  ASSUME NEW t \in Texts, Typed(t), NEW p \in 0..Len(t), NEW first, NEW f
  PROVE  LET n == Len(t)
             q == SkipWs(t, n, p)
             leaf == ParseLeaf(t, q)
             r == ArgsFrom(t, p, first, f)
             ends == FullLit(t, n, q, End("call"))
             begins == FullLit(t, n, q, Start("arg"))
         IN  /\ q \in p..n
             /\ ends => r = [ok |-> TRUE, next |-> q + 3, out |-> BraceR]
             /\ ~ends /\ begins /\ leaf.ok =>
                  r = [f[leaf.next] EXCEPT !.out = MemberOf(first, leaf.out, f[leaf.next].out)]
             /\ ~ends /\ ~(begins /\ leaf.ok) => r = Bad
<1> DEFINE n == Len(t)
           q == SkipWs(t, n, p)
           leaf == ParseLeaf(t, q)
           r == ArgsFrom(t, p, first, f)
           ends == FullLit(t, n, q, End("call"))
           begins == FullLit(t, n, q, Start("arg"))
           arg == ParseArg(t, q)
           joined == Member(first, arg.out)
<1>1. q \in p..n /\ q \in 0..Len(t)
  <2>1. n \in Nat
    BY LenType
  <2>2. q \in p..n
    BY <2>1, SkipWsIs
  <2> QED BY <2>1, <2>2
<1>2. begins => arg = leaf
  <2> HIDE DEF q
  <2> QED BY <1>1, TypedArg
<1>3. r = CASE ends -> [ok |-> TRUE, next |-> q + 3, out |-> BraceR]
            [] begins -> IF arg.ok THEN [f[arg.next] EXCEPT !.out = MemberOf(first, arg.out, f[arg.next].out)] ELSE Bad
            [] OTHER -> Bad
  BY Zenon DEF ArgsFrom, BraceR, Before, MemberOf
<1>4. ~(ends /\ begins)
  <2>1. "call" \in Marks /\ "arg" \in Marks /\ q \in Nat /\ n \in 0..Len(t)
    BY <1>1, MarkNames, LenType
  <2> HIDE DEF q
  <2>2. ends => t[q + 2] = "/"
    BY <2>1, FullEnd
  <2>3. begins => t[q + 2] = "arg"
    BY <2>1, FullStart
  <2> QED BY <2>2, <2>3
<1> DEFINE x == [ok |-> TRUE, next |-> q + 3, out |-> BraceR]
           y == [f[arg.next] EXCEPT !.out = MemberOf(first, arg.out, f[arg.next].out)]
<1>5. r = CASE ends -> x [] begins -> IF arg.ok THEN y ELSE Bad [] OTHER -> Bad
  BY <1>3
<1>6. (ends => r = x) /\ (begins /\ arg.ok => r = y) /\ (begins /\ ~arg.ok => r = Bad) /\ (~ends /\ ~begins => r = Bad)
  <2> HIDE DEF x, y, ends, begins, arg, r
  <2> QED BY <1>4, <1>5
<1>7. ends => r = x
  BY <1>6
<1>8. ~ends /\ begins /\ leaf.ok =>
        r = [f[leaf.next] EXCEPT !.out = MemberOf(first, leaf.out, f[leaf.next].out)]
  <2> SUFFICES ASSUME begins, leaf.ok PROVE r = [f[leaf.next] EXCEPT !.out = MemberOf(first, leaf.out, f[leaf.next].out)]
    OBVIOUS
  <2>1. arg = leaf
    BY <1>2
  <2>2. r = y
    BY <1>6, <2>1, Zenon
  <2> QED BY <2>1, <2>2, Zenon
<1>9. ~ends /\ ~(begins /\ leaf.ok) => r = Bad
  <2> HIDE DEF ends, begins, arg, leaf, r
  <2> QED BY <1>2, <1>6
<1> HIDE DEF r
<1> QED BY <1>1, <1>7, <1>8, <1>9 DEF r

\* Only what comes after is asked for.
LEMMA ArgsFromLocal ==
  ASSUME NEW t \in Texts, Typed(t), NEW p \in 0..Len(t), NEW first, NEW f, NEW g,
         \A x \in (p + 1)..Len(t) : f[x] = g[x]
  PROVE  ArgsFrom(t, p, first, f) = ArgsFrom(t, p, first, g)
<1> DEFINE n == Len(t)
           q == SkipWs(t, n, p)
           leaf == ParseLeaf(t, q)
           ends == FullLit(t, n, q, End("call"))
           begins == FullLit(t, n, q, Start("arg"))
<1>0. n \in Nat /\ p \in Nat
  BY LenType
<1>1. q \in p..n /\ q \in 0..Len(t)
  <2>1. q \in p..n
    BY ArgsFromIs
  <2> QED BY <1>0, <2>1
<1>2. leaf.ok => leaf.next \in (p + 1)..n
  <2> HIDE DEF q
  <2> DEFINE e == TagEnd(t, n, q)
             v == FindLit(t, n, e, End("arg"))
  <2>1. leaf.ok => e \in (q + 1)..n /\ v \in e..n /\ v + 3 <= n /\ leaf.next = v + 3
    BY <1>1, LeafIs
  <2> HIDE DEF e, v, leaf
  <2> QED BY <1>0, <1>1, <2>1
<1>3. leaf.ok => f[leaf.next] = g[leaf.next]
  BY <1>2
<1>4. CASE ends
  <2>1. ArgsFrom(t, p, first, f) = [ok |-> TRUE, next |-> q + 3, out |-> BraceR]
    BY <1>4, ArgsFromIs
  <2>2. ArgsFrom(t, p, first, g) = [ok |-> TRUE, next |-> q + 3, out |-> BraceR]
    BY <1>4, ArgsFromIs
  <2> QED BY <2>1, <2>2
<1>5. CASE ~ends /\ begins /\ leaf.ok
  <2>1. ArgsFrom(t, p, first, f) = [f[leaf.next] EXCEPT !.out = MemberOf(first, leaf.out, f[leaf.next].out)]
    BY <1>5, ArgsFromIs
  <2>2. ArgsFrom(t, p, first, g) = [g[leaf.next] EXCEPT !.out = MemberOf(first, leaf.out, g[leaf.next].out)]
    BY <1>5, ArgsFromIs
  <2>3. f[leaf.next] = g[leaf.next]
    BY <1>3, <1>5
  <2> QED BY <2>1, <2>2, <2>3, Zenon
<1>6. CASE ~ends /\ ~(begins /\ leaf.ok)
  BY <1>6, ArgsFromIs
<1> QED BY <1>4, <1>5, <1>6

\* What the rest of the arguments reads, when it can be read.
ReadsOn(t, p, r) == r \in ReadT /\ (r.ok => r.next \in (p + 3)..Len(t))

\* The arguments read from p on are a text, and the reading goes on behind p.
LEMMA ArgsFromType ==
  ASSUME NEW t \in Texts, Typed(t), NEW p \in 0..Len(t), NEW first \in BOOLEAN, NEW f,
         \A x \in (p + 1)..Len(t) : ReadsOn(t, x, f[x])
  PROVE  ReadsOn(t, p, ArgsFrom(t, p, first, f))
<1> DEFINE n == Len(t)
           q == SkipWs(t, n, p)
           leaf == ParseLeaf(t, q)
           r == ArgsFrom(t, p, first, f)
           ends == FullLit(t, n, q, End("call"))
           begins == FullLit(t, n, q, Start("arg"))
<1>0. n \in Nat /\ p \in Nat /\ n \in 0..Len(t)
  BY LenType
<1>1. q \in p..n /\ q \in 0..Len(t) /\ q \in Nat
  <2>1. q \in p..n
    BY ArgsFromIs
  <2> QED BY <1>0, <2>1
<1>2. leaf \in ReadT /\ (leaf.ok => leaf.next \in (p + 1)..n)
  <2> HIDE DEF q
  <2> DEFINE e == TagEnd(t, n, q)
             v == FindLit(t, n, e, End("arg"))
  <2>1. leaf \in ReadT /\ (leaf.ok => e \in (q + 1)..n /\ v \in e..n /\ v + 3 <= n /\ leaf.next = v + 3)
    BY <1>1, LeafIs
  <2> HIDE DEF e, v, leaf
  <2> QED BY <1>0, <1>1, <2>1
<1>3. CASE ends
  <2>1. r = [ok |-> TRUE, next |-> q + 3, out |-> BraceR]
    BY <1>3, ArgsFromIs
  <2>2. q + 3 <= n
    <3>1. "call" \in Marks
      BY MarkNames
    <3> HIDE DEF q
    <3> QED BY <1>0, <1>1, <1>3, <3>1, FullEnd
  <2> HIDE DEF q, r
  <2>3. q + 3 \in (p + 3)..n /\ q + 3 \in Nat /\ BraceR \in Texts
    BY <1>0, <1>1, <2>2, CloseBrace
  <2>4. r \in ReadT /\ r.next = q + 3
    BY <2>1, <2>3 DEF ReadT
  <2> QED BY <2>3, <2>4 DEF ReadsOn, r
<1>4. CASE ~ends /\ begins /\ leaf.ok
  <2> DEFINE z == f[leaf.next]
             joined == MemberOf(first, leaf.out, z.out)
  <2>1. r = [z EXCEPT !.out = joined]
    BY <1>4, ArgsFromIs
  <2>2. ReadsOn(t, leaf.next, z) /\ leaf.next \in (p + 1)..n
    BY <1>2, <1>4
  <2> HIDE DEF leaf, r
  <2>3. joined \in Texts
    <3>1. leaf.out \in Texts /\ z.out \in Texts
      BY <1>2, <2>2 DEF ReadsOn, ReadT
    <3> DEFINE y == Member(first, leaf.out)
    <3>2. y \in Texts
      BY <3>1, MemberType
    <3> HIDE DEF y, z
    <3>3. y \o z.out \in Texts
      BY <3>1, <3>2 DEF Texts
    <3> QED BY <3>3 DEF MemberOf, y
  <2> HIDE DEF joined, z
  <2>4. r \in ReadT /\ r.ok = z.ok /\ r.next = z.next
    BY <2>1, <2>2, <2>3 DEF ReadsOn, ReadT
  <2>5. z.ok => z.next \in (p + 3)..n
    <3> DEFINE x == leaf.next
    <3>1. x \in (p + 1)..n /\ (z.ok => z.next \in (x + 3)..n)
      BY <2>2 DEF ReadsOn
    <3> HIDE DEF x
    <3> QED BY <1>0, <3>1
  <2> QED BY <2>4, <2>5 DEF ReadsOn, r
<1>5. CASE ~ends /\ ~(begins /\ leaf.ok)
  <2>1. r = Bad
    BY <1>5, ArgsFromIs
  <2>2. Bad \in ReadT /\ ~Bad.ok
    BY DEF Bad, ReadT, Texts
  <2> QED BY <2>1, <2>2 DEF ReadsOn
<1> QED BY <1>3, <1>4, <1>5

\* How the arguments behind the first read from p on, or how the calls do.
ReadFrom(t, p, calls, f) == IF calls THEN CallsFrom(t, p, f) ELSE ArgsFrom(t, p, FALSE, f)

\* A step of the reading that uses only later places is one a function satisfies everywhere.
LEMMA ReadsBackwards ==
  ASSUME NEW t \in Texts, NEW calls,
         \A p \in 0..Len(t) : \A f, g :
           (\A x \in (p + 1)..Len(t) : f[x] = g[x]) => ReadFrom(t, p, calls, f) = ReadFrom(t, p, calls, g)
  PROVE  \E f : f = [p \in 0..Len(t) |-> ReadFrom(t, p, calls, f)]
<1> DEFINE n == Len(t)
           Good(k) == \E f : \A p \in (n - k)..n : f[p] = ReadFrom(t, p, calls, f)
           N == {k \in Nat : k <= n => Good(k)}
<1>0. n \in Nat
  BY LenType
<1>1. 0 \in N
  <2> DEFINE g == [p \in 0..n |-> p]
             f == [p \in 0..n |-> ReadFrom(t, p, calls, g)]
  <2>1. n \in 0..n /\ n \in 0..Len(t)
    BY <1>0
  <2>2. f[n] = ReadFrom(t, n, calls, g)
    BY <2>1
  <2>3. \A x \in (n + 1)..n : f[x] = g[x]
    BY <1>0
  <2> HIDE DEF f, g
  <2>4. ReadFrom(t, n, calls, f) = ReadFrom(t, n, calls, g)
    BY <2>1, <2>3
  <2>5. \A p \in (n - 0)..n : p = n
    BY <1>0
  <2>6. \A p \in (n - 0)..n : f[p] = ReadFrom(t, p, calls, f)
    BY <2>2, <2>4, <2>5
  <2> QED BY <2>6
<1>2. ASSUME NEW k \in Nat, k \in N PROVE k + 1 \in N
  <2> HIDE DEF Good
  <2> SUFFICES ASSUME k + 1 <= n PROVE Good(k + 1)
    OBVIOUS
  <2>6. Good(k)
    BY <1>0, <1>2
  <2> USE DEF Good
  <2>1. PICK f : \A p \in (n - k)..n : f[p] = ReadFrom(t, p, calls, f)
    BY <2>6
  <2> DEFINE m == n - (k + 1)
             v == ReadFrom(t, m, calls, f)
             g == [p \in 0..n |-> IF p = m THEN v ELSE f[p]]
  <2>2. m \in 0..n /\ m \in 0..Len(t) /\ m \in Nat
    BY <1>0
  <2> HIDE DEF v
  <2>3. g[m] = v /\ \A p \in (m + 1)..n : g[p] = f[p]
    <3>1. \A p \in (m + 1)..n : p \in 0..n /\ p # m
      BY <1>0, <2>2
    <3> HIDE DEF m
    <3> QED BY <2>2, <3>1
  <2>4. m + 1 = n - k
    BY <1>0
  <2> HIDE DEF g, m
  <2>5. ASSUME NEW p \in m..n PROVE g[p] = ReadFrom(t, p, calls, g)
    <3>1. p \in 0..Len(t) /\ \A x \in (p + 1)..Len(t) : x \in (m + 1)..n
      BY <1>0, <2>2
    <3>2. \A x \in (p + 1)..Len(t) : f[x] = g[x]
      BY <2>3, <3>1
    <3>3. ReadFrom(t, p, calls, f) = ReadFrom(t, p, calls, g)
      BY <3>1, <3>2
    <3>4. CASE p = m
      BY <2>3, <3>3, <3>4 DEF v
    <3>5. CASE p # m
      <4>1. p \in (n - k)..n /\ p \in (m + 1)..n
        BY <1>0, <2>2, <2>4, <3>5
      <4> QED BY <2>1, <2>3, <3>3, <4>1
    <3> QED BY <3>4, <3>5
  <2> QED BY <2>5 DEF m
<1>3. Good(n)
  <2>1. Nat \subseteq N
    <3> HIDE DEF N
    <3> QED BY <1>1, <1>2, EveryNumber
  <2>2. n \in N
    BY <1>0, <2>1
  <2> HIDE DEF Good
  <2> QED BY <1>0, <2>2
<1>4. PICK f : \A p \in (n - n)..n : f[p] = ReadFrom(t, p, calls, f)
  BY <1>3
<1> DEFINE g == [p \in 0..n |-> f[p]]
<1>5. ASSUME NEW p \in 0..n PROVE g[p] = ReadFrom(t, p, calls, g)
  <2>1. p \in (n - n)..n /\ p \in 0..Len(t) /\ \A x \in (p + 1)..Len(t) : x \in 0..n
    BY <1>0
  <2>2. \A x \in 0..n : g[x] = f[x]
    OBVIOUS
  <2> HIDE DEF g
  <2>3. \A x \in (p + 1)..Len(t) : f[x] = g[x]
    BY <2>1, <2>2
  <2>4. ReadFrom(t, p, calls, f) = ReadFrom(t, p, calls, g)
    BY <2>1, <2>3
  <2> QED BY <1>4, <2>1, <2>2, <2>4
<1>6. g = [p \in 0..n |-> g[p]]
  OBVIOUS
<1>7. g = [p \in 0..Len(t) |-> ReadFrom(t, p, calls, g)]
  <2> HIDE DEF g
  <2> QED BY <1>5, <1>6
<1> HIDE DEF g
<1> QED BY <1>7

\* Reading backwards from the end of the text there is such a rest, and only such a one.
LEMMA SomeRest ==
  ASSUME NEW t \in Texts, Typed(t)
  PROVE  \E f : f = [p \in 0..Len(t) |-> ArgsFrom(t, p, FALSE, f)]
<1>1. \A p \in 0..Len(t) : \A f, g :
        (\A x \in (p + 1)..Len(t) : f[x] = g[x]) => ReadFrom(t, p, FALSE, f) = ReadFrom(t, p, FALSE, g)
  BY ArgsFromLocal DEF ReadFrom
<1>2. PICK f : f = [p \in 0..Len(t) |-> ReadFrom(t, p, FALSE, f)]
  <2> HIDE DEF ReadFrom
  <2> QED BY <1>1, ReadsBackwards
<1>3. \A p : ReadFrom(t, p, FALSE, f) = ArgsFrom(t, p, FALSE, f)
  BY DEF ReadFrom
<1> QED BY <1>2, <1>3

\* The recursive function that reads the arguments satisfies its equation,
LEMMA RestArgsIs ==
  ASSUME NEW t \in Texts, Typed(t)
  PROVE  \A p \in 0..Len(t) : RestArgs(t)[p] = ArgsFrom(t, p, FALSE, RestArgs(t))
<1> DEFINE f == CHOOSE f : f = [p \in 0..Len(t) |-> ArgsFrom(t, p, FALSE, f)]
<1>1. f = [p \in 0..Len(t) |-> ArgsFrom(t, p, FALSE, f)]
  BY SomeRest
<1>2. RestArgs(t) = f
  BY DEF RestArgs
<1> HIDE DEF f
<1>3. \A p \in 0..Len(t) : f[p] = ArgsFrom(t, p, FALSE, f)
  BY <1>1
<1> QED BY <1>2, <1>3

\* and returns what a reader may.
LEMMA RestArgsType ==
  ASSUME NEW t \in Texts, Typed(t)
  PROVE  \A p \in 0..Len(t) : ReadsOn(t, p, RestArgs(t)[p])
<1> DEFINE n == Len(t)
           f == RestArgs(t)
           N == {k \in Nat : k <= n => \A p \in (n - k)..n : ReadsOn(t, p, f[p])}
<1>0. n \in Nat
  BY LenType
<1>1. \A p \in 0..n : f[p] = ArgsFrom(t, p, FALSE, f)
  BY RestArgsIs
<1> HIDE DEF f
<1>2. 0 \in N
  <2>1. n \in 0..Len(t) /\ \A x \in (n + 1)..Len(t) : ReadsOn(t, x, f[x])
    BY <1>0
  <2>2. ReadsOn(t, n, ArgsFrom(t, n, FALSE, f))
    BY <2>1, ArgsFromType
  <2>3. \A p \in (n - 0)..n : p = n
    BY <1>0
  <2> QED BY <1>0, <1>1, <2>1, <2>2, <2>3
<1>3. ASSUME NEW k \in Nat, k \in N PROVE k + 1 \in N
  <2> SUFFICES ASSUME k + 1 <= n, NEW p \in (n - (k + 1))..n PROVE ReadsOn(t, p, f[p])
    OBVIOUS
  <2>1. \A x \in (n - k)..n : ReadsOn(t, x, f[x])
    BY <1>0, <1>3
  <2>2. p \in 0..Len(t) /\ \A x \in (p + 1)..Len(t) : x \in (n - k)..n
    BY <1>0
  <2>3. ReadsOn(t, p, ArgsFrom(t, p, FALSE, f))
    BY <2>1, <2>2, ArgsFromType
  <2> QED BY <1>1, <2>2, <2>3
<1>4. Nat \subseteq N
  <2> HIDE DEF N
  <2> QED BY <1>2, <1>3, EveryNumber
<1>5. n \in N
  BY <1>0, <1>4
<1>6. \A p \in 0..n : p \in (n - n)..n
  BY <1>0
<1> QED BY <1>0, <1>5, <1>6 DEF f

-----------------------------------------------------------------------------
(* The calls of a block, unfolded once.                                    *)

\* The arguments of the call that stands behind p.
ArgsAt(t, p) == ParseArgs(t, TagEnd(t, Len(t), SkipWs(t, Len(t), p)))
\* The object they make.
Object(args) == BraceL \o args.out

\* What the reader of a block returns.
BlockT == [ok : BOOLEAN, next : Nat, out : Seq(Texts)]

\* The arguments of a call are read from the end of its tag on.
LEMMA ParseArgsType ==
  ASSUME NEW t \in Texts, Typed(t), NEW p \in 0..Len(t)
  PROVE  ReadsOn(t, p, ParseArgs(t, p))
<1>1. \A x \in (p + 1)..Len(t) : ReadsOn(t, x, RestArgs(t)[x])
  <2>1. \A x \in (p + 1)..Len(t) : x \in 0..Len(t)
    BY LenType
  <2> QED BY <2>1, RestArgsType
<1>2. ReadsOn(t, p, ArgsFrom(t, p, TRUE, RestArgs(t)))
  BY <1>1, ArgsFromType
<1> QED BY <1>2 DEF ParseArgs

\* The calls read from p on, by what stands there.
LEMMA CallsFromIs ==
  ASSUME NEW t \in Texts, Typed(t), NEW p \in 0..Len(t), NEW f
  PROVE  LET n == Len(t)
             q == SkipWs(t, n, p)
             tagEnd == TagEnd(t, n, q)
             args == ArgsAt(t, p)
             r == CallsFrom(t, p, f)
             ends == FullLit(t, n, q, End("tools"))
             begins == FullLit(t, n, q, Start("call")) /\ tagEnd # NotFound
         IN  /\ q \in p..n
             /\ begins => tagEnd \in (q + 1)..n /\ ReadsOn(t, tagEnd, args)
             /\ ends => q + 3 <= n /\ r = [ok |-> TRUE, next |-> q + 3, out |-> <<>>]
             /\ ~ends /\ begins /\ args.ok =>
                  r = [f[args.next] EXCEPT !.out = <<Object(args)>> \o f[args.next].out]
             /\ ~ends /\ ~(begins /\ args.ok) => r = Bad
<1> DEFINE n == Len(t)
           q == SkipWs(t, n, p)
           tagEnd == TagEnd(t, n, q)
           args == ArgsAt(t, p)
           r == CallsFrom(t, p, f)
           ends == FullLit(t, n, q, End("tools"))
           begins == FullLit(t, n, q, Start("call")) /\ tagEnd # NotFound
           x == [ok |-> TRUE, next |-> q + 3, out |-> <<>>]
           y == [f[args.next] EXCEPT !.out = <<Object(args)>> \o f[args.next].out]
<1>0. n \in Nat /\ p \in Nat /\ n \in 0..Len(t)
  BY LenType
<1>1. q \in p..n /\ q \in 0..Len(t) /\ q \in Nat
  <2>1. q \in p..n
    BY <1>0, SkipWsIs
  <2> QED BY <1>0, <2>1
<1>2. tagEnd = NotFound \/ tagEnd \in (q + 1)..n
  <2> HIDE DEF q
  <2> QED BY <1>0, <1>1, TagEndIs
<1>3. tagEnd # NotFound => ReadsOn(t, tagEnd, args)
  <2>1. tagEnd # NotFound => tagEnd \in 0..Len(t)
    <3> HIDE DEF q, tagEnd
    <3> QED BY <1>0, <1>1, <1>2
  <2>2. args = ParseArgs(t, tagEnd)
    BY DEF ArgsAt
  <2> HIDE DEF tagEnd, args
  <2> QED BY <2>1, <2>2, ParseArgsType
<1>4. /\ ends => q + 3 <= n /\ t[q + 2] = "/"
      /\ FullLit(t, n, q, Start("call")) => t[q + 2] = "call"
  <2>1. "call" \in Marks /\ "tools" \in Marks
    BY MarkNames
  <2> HIDE DEF q
  <2> QED BY <1>0, <1>1, <2>1, FullEnd, FullStart
<1>5. ~(ends /\ begins)
  BY <1>4
<1>6. r = CASE ends -> x [] begins -> IF args.ok THEN y ELSE Bad [] OTHER -> Bad
  BY Zenon DEF CallsFrom, BeforeCalls, ArgsAt, Object, BraceL
<1>7. /\ ends => r = x
      /\ ~ends /\ begins /\ args.ok => r = y
      /\ ~ends /\ ~(begins /\ args.ok) => r = Bad
  <2> HIDE DEF x, y, ends, begins, args, r
  <2> QED BY <1>5, <1>6
<1>8. ends => r = x
  BY <1>7
<1>9. ~ends /\ begins /\ args.ok => r = y
  BY <1>7
<1>10. ~ends /\ ~(begins /\ args.ok) => r = Bad
  BY <1>7
<1> HIDE DEF r
<1>11. begins => tagEnd \in (q + 1)..n /\ ReadsOn(t, tagEnd, args)
  BY <1>2, <1>3
<1> QED BY <1>1, <1>4, <1>8, <1>9, <1>10, <1>11 DEF r

\* What the reading of a block at p says depends on what it says behind p only,
LEMMA CallsFromLocal ==
  ASSUME NEW t \in Texts, Typed(t), NEW p \in 0..Len(t), NEW f, NEW g,
         \A x \in (p + 1)..Len(t) : f[x] = g[x]
  PROVE  CallsFrom(t, p, f) = CallsFrom(t, p, g)
<1> DEFINE n == Len(t)
           q == SkipWs(t, n, p)
           tagEnd == TagEnd(t, n, q)
           args == ArgsAt(t, p)
           ends == FullLit(t, n, q, End("tools"))
           begins == FullLit(t, n, q, Start("call")) /\ tagEnd # NotFound
<1>0. n \in Nat /\ p \in Nat
  BY LenType
<1>1. q \in p..n /\ (begins => tagEnd \in (q + 1)..n /\ ReadsOn(t, tagEnd, args))
  BY CallsFromIs
<1>2. begins /\ args.ok => args.next \in (p + 1)..n
  <2> HIDE DEF q, tagEnd, args, begins
  <2>1. begins /\ args.ok => args.next \in (tagEnd + 3)..n
    BY <1>1 DEF ReadsOn
  <2> QED BY <1>0, <1>1, <2>1
<1>3. CASE ends
  <2>1. CallsFrom(t, p, f) = [ok |-> TRUE, next |-> q + 3, out |-> <<>>]
    BY <1>3, CallsFromIs
  <2>2. CallsFrom(t, p, g) = [ok |-> TRUE, next |-> q + 3, out |-> <<>>]
    BY <1>3, CallsFromIs
  <2> QED BY <2>1, <2>2
<1>4. CASE ~ends /\ begins /\ args.ok
  <2>1. CallsFrom(t, p, f) = [f[args.next] EXCEPT !.out = <<Object(args)>> \o f[args.next].out]
    BY <1>4, CallsFromIs
  <2>2. CallsFrom(t, p, g) = [g[args.next] EXCEPT !.out = <<Object(args)>> \o g[args.next].out]
    BY <1>4, CallsFromIs
  <2>3. f[args.next] = g[args.next]
    <3> HIDE DEF args
    <3> QED BY <1>2, <1>4
  <2> QED BY <2>1, <2>2, <2>3, Zenon
<1>5. CASE ~ends /\ ~(begins /\ args.ok)
  <2>1. CallsFrom(t, p, f) = Bad
    BY <1>5, CallsFromIs
  <2>2. CallsFrom(t, p, g) = Bad
    BY <1>5, CallsFromIs
  <2> QED BY <2>1, <2>2
<1> QED BY <1>3, <1>4, <1>5

\* so there is a function that satisfies the equation of the recursive definition,
LEMMA SomeBlock ==
  ASSUME NEW t \in Texts, Typed(t)
  PROVE  \E f : f = [p \in 0..Len(t) |-> CallsFrom(t, p, f)]
<1>1. \A p \in 0..Len(t) : \A f, g :
        (\A x \in (p + 1)..Len(t) : f[x] = g[x]) => ReadFrom(t, p, TRUE, f) = ReadFrom(t, p, TRUE, g)
  BY CallsFromLocal DEF ReadFrom
<1>2. PICK f : f = [p \in 0..Len(t) |-> ReadFrom(t, p, TRUE, f)]
  <2> HIDE DEF ReadFrom
  <2> QED BY <1>1, ReadsBackwards
<1>3. \A p : ReadFrom(t, p, TRUE, f) = CallsFrom(t, p, f)
  BY DEF ReadFrom
<1> QED BY <1>2, <1>3

\* and the calls of a block satisfy that equation.
LEMMA ParseCallsIs ==
  ASSUME NEW t \in Texts, Typed(t)
  PROVE  \E f : /\ \A p : ParseCalls(t, p) = f[p]
                /\ \A p \in 0..Len(t) : f[p] = CallsFrom(t, p, f)
<1> DEFINE f == CHOOSE f : f = [p \in 0..Len(t) |-> CallsFrom(t, p, f)]
<1>1. f = [p \in 0..Len(t) |-> CallsFrom(t, p, f)]
  BY SomeBlock
<1>2. ASSUME NEW p PROVE ParseCalls(t, p) = f[p]
  BY DEF ParseCalls
<1> HIDE DEF f
<1>3. \A p \in 0..Len(t) : f[p] = CallsFrom(t, p, f)
  BY <1>1
<1> QED BY <1>2, <1>3

\* The reading of a block goes on behind p.
BlockOn(t, p, c) == c \in BlockT /\ (c.ok => c.next \in (p + 3)..Len(t))

\* A call before the calls behind it.
LEMMA PrependCall ==
  ASSUME NEW x \in Texts, NEW s \in Seq(Texts)
  PROVE  LET r == <<x>> \o s
         IN  /\ r \in Seq(Texts) /\ Len(r) = Len(s) + 1 /\ r[1] = x /\ Len(s) \in Nat
             /\ \A i \in 1..Len(s) : r[i + 1] = s[i]
<1> DEFINE r == <<x>> \o s
<1>1. <<x>> \in Seq(Texts) /\ Len(<<x>>) = 1 /\ <<x>>[1] = x
  OBVIOUS
<1>2. /\ r \in Seq(Texts) /\ Len(r) = 1 + Len(s)
      /\ \A i \in 1..(1 + Len(s)) : r[i] = IF i <= 1 THEN <<x>>[i] ELSE s[i - 1]
  <2> DEFINE y == <<x>>
  <2>1. y \in Seq(Texts) /\ Len(y) = 1
    BY <1>1
  <2> HIDE DEF y
  <2>2. /\ y \o s \in Seq(Texts) /\ Len(y \o s) = Len(y) + Len(s)
        /\ \A i \in 1..(Len(y) + Len(s)) : (y \o s)[i] = IF i <= Len(y) THEN y[i] ELSE s[i - Len(y)]
    BY <2>1, ConcatProperties
  <2> QED BY <2>1, <2>2 DEF y
<1> HIDE DEF r
<1>3. Len(s) \in Nat
  OBVIOUS
<1>4. r[1] = x
  BY <1>1, <1>2, <1>3
<1>5. ASSUME NEW i \in 1..Len(s) PROVE r[i + 1] = s[i]
  <2>1. i + 1 \in 1..(1 + Len(s)) /\ ~(i + 1 <= 1) /\ (i + 1) - 1 = i
    BY <1>3
  <2> QED BY <1>2, <2>1
<1> QED BY <1>2, <1>3, <1>4, <1>5 DEF r

\* An argument object is a text.
LEMMA ObjectType ==
  ASSUME NEW args \in ReadT
  PROVE  Object(args) \in Texts
<1> DEFINE b == BraceL
           o == args.out
<1>1. b \in Seq(Atom) /\ o \in Seq(Atom)
  <2>1. "{" \in Atom
    BY Zenon, AtomType
  <2> DEFINE c == "{"
  <2>2. c \in Atom
    BY <2>1
  <2> HIDE DEF c
  <2>3. <<c>> \in Seq(Atom)
    BY <2>2
  <2>4. b = <<c>>
    BY Zenon DEF BraceL, c
  <2> QED BY <2>3, <2>4 DEF ReadT, Texts
<1> HIDE DEF b, o
<1>2. b \o o \in Seq(Atom)
  BY <1>1
<1> QED BY <1>2 DEF Object, Texts, b, o

\* What one step of the reading returns,
LEMMA CallsFromType ==
  ASSUME NEW t \in Texts, Typed(t), NEW p \in 0..Len(t), NEW f,
         \A x \in (p + 1)..Len(t) : BlockOn(t, x, f[x])
  PROVE  BlockOn(t, p, CallsFrom(t, p, f))
<1> DEFINE n == Len(t)
           q == SkipWs(t, n, p)
           tagEnd == TagEnd(t, n, q)
           args == ArgsAt(t, p)
           ends == FullLit(t, n, q, End("tools"))
           begins == FullLit(t, n, q, Start("call")) /\ tagEnd # NotFound
           r == CallsFrom(t, p, f)
<1>0. n \in Nat /\ p \in Nat
  BY LenType
<1>1. /\ q \in p..n /\ (begins => tagEnd \in (q + 1)..n /\ ReadsOn(t, tagEnd, args))
      /\ ends => q + 3 <= n
  BY CallsFromIs
<1>2. CASE ends
  <2>1. r = [ok |-> TRUE, next |-> q + 3, out |-> <<>>]
    BY <1>2, CallsFromIs
  <2> HIDE DEF q, r
  <2>2. q + 3 \in (p + 3)..n /\ q + 3 \in Nat
    BY <1>0, <1>1, <1>2
  <2>3. r \in BlockT /\ r.next = q + 3
    BY <2>1, <2>2 DEF BlockT
  <2> QED BY <2>2, <2>3 DEF BlockOn, r
<1>3. CASE ~ends /\ begins /\ args.ok
  <2> DEFINE z == f[args.next]
             joined == <<Object(args)>> \o z.out
  <2>1. r = [z EXCEPT !.out = joined]
    BY <1>3, CallsFromIs
  <2> HIDE DEF r
  <2>2. args.next \in (p + 1)..n /\ args \in ReadT
    <3> HIDE DEF q, tagEnd, args, begins
    <3>1. args.next \in (tagEnd + 3)..n /\ args \in ReadT
      BY <1>1, <1>3 DEF ReadsOn
    <3> QED BY <1>0, <1>1, <1>3, <3>1
  <2> HIDE DEF args
  <2>3. BlockOn(t, args.next, z)
    BY <2>2
  <2>4. joined \in Seq(Texts)
    <3>1. z.out \in Seq(Texts) /\ Object(args) \in Texts
      BY <2>2, <2>3, ObjectType DEF BlockOn, BlockT
    <3> HIDE DEF z
    <3> QED BY <3>1, PrependCall
  <2> HIDE DEF joined, z
  <2>5. r \in BlockT /\ r.ok = z.ok /\ r.next = z.next
    BY <2>1, <2>3, <2>4 DEF BlockOn, BlockT
  <2>6. z.ok => z.next \in (p + 3)..n
    <3> DEFINE x == args.next
    <3>1. x \in (p + 1)..n /\ (z.ok => z.next \in (x + 3)..n)
      BY <2>2, <2>3 DEF BlockOn
    <3> HIDE DEF x
    <3> QED BY <1>0, <3>1
  <2> QED BY <2>5, <2>6 DEF BlockOn, r
<1>4. CASE ~ends /\ ~(begins /\ args.ok)
  <2>1. r = Bad
    BY <1>4, CallsFromIs
  <2>2. Bad \in BlockT /\ ~Bad.ok
    BY DEF Bad, BlockT
  <2> QED BY <2>1, <2>2 DEF BlockOn
<1> QED BY <1>2, <1>3, <1>4

\* and what the whole reading does.
LEMMA ParseCallsType ==
  ASSUME NEW t \in Texts, Typed(t)
  PROVE  \A p \in 0..Len(t) : BlockOn(t, p, ParseCalls(t, p))
<1>1. PICK f : /\ \A p : ParseCalls(t, p) = f[p]
               /\ \A p \in 0..Len(t) : f[p] = CallsFrom(t, p, f)
  BY ParseCallsIs
<1> DEFINE n == Len(t)
           N == {k \in Nat : k <= n => \A p \in (n - k)..n : BlockOn(t, p, f[p])}
<1>0. n \in Nat
  BY LenType
<1>2. 0 \in N
  <2>1. n \in 0..Len(t) /\ \A x \in (n + 1)..Len(t) : BlockOn(t, x, f[x])
    BY <1>0
  <2>2. BlockOn(t, n, CallsFrom(t, n, f))
    BY <2>1, CallsFromType
  <2>3. \A p \in (n - 0)..n : p = n
    BY <1>0
  <2> QED BY <1>0, <1>1, <2>1, <2>2, <2>3
<1>3. ASSUME NEW k \in Nat, k \in N PROVE k + 1 \in N
  <2> SUFFICES ASSUME k + 1 <= n, NEW p \in (n - (k + 1))..n PROVE BlockOn(t, p, f[p])
    OBVIOUS
  <2>1. \A x \in (n - k)..n : BlockOn(t, x, f[x])
    BY <1>0, <1>3
  <2>2. p \in 0..Len(t) /\ \A x \in (p + 1)..Len(t) : x \in (n - k)..n
    BY <1>0
  <2>3. BlockOn(t, p, CallsFrom(t, p, f))
    BY <2>1, <2>2, CallsFromType
  <2> QED BY <1>1, <2>2, <2>3
<1>4. Nat \subseteq N
  <2> HIDE DEF N
  <2> QED BY <1>2, <1>3, EveryNumber
<1>5. n \in N
  BY <1>0, <1>4
<1>6. \A p \in 0..n : p \in (n - n)..n
  BY <1>0
<1> QED BY <1>0, <1>1, <1>5, <1>6

\* A block that can be read ends, or has a call that can be read and more of the block behind it.
LEMMA BlockIs ==
  ASSUME NEW t \in Texts, Typed(t), NEW p \in 0..Len(t), ParseCalls(t, p).ok
  PROVE  LET n == Len(t)
             q == SkipWs(t, n, p)
             tagEnd == TagEnd(t, n, q)
             args == ParseArgs(t, tagEnd)
             c == ParseCalls(t, p)
             d == ParseCalls(t, args.next)
         IN  /\ q \in p..n
             /\ \/ FullLit(t, n, q, End("tools")) /\ c.out = <<>> /\ q + 3 <= n
                \/ /\ ~FullLit(t, n, q, End("tools")) /\ FullLit(t, n, q, Start("call"))
                   /\ tagEnd \in (q + 1)..n /\ args \in ReadT /\ args.ok
                   /\ args.next \in (tagEnd + 3)..n /\ args.next + 3 <= n
                   /\ d \in BlockT /\ d.ok /\ c.out = <<Object(args)>> \o d.out
<1>1. PICK f : /\ \A x : ParseCalls(t, x) = f[x]
               /\ \A x \in 0..Len(t) : f[x] = CallsFrom(t, x, f)
  BY ParseCallsIs
<1> DEFINE n == Len(t)
           q == SkipWs(t, n, p)
           tagEnd == TagEnd(t, n, q)
           args == ParseArgs(t, tagEnd)
           ends == FullLit(t, n, q, End("tools"))
           begins == FullLit(t, n, q, Start("call")) /\ tagEnd # NotFound
           c == ParseCalls(t, p)
           d == ParseCalls(t, args.next)
<1>0. n \in Nat /\ p \in Nat
  BY LenType
<1>2. c = CallsFrom(t, p, f) /\ args = ArgsAt(t, p)
  BY <1>1 DEF ArgsAt
<1>3. /\ q \in p..n /\ (begins => tagEnd \in (q + 1)..n /\ ReadsOn(t, tagEnd, args))
      /\ ends => q + 3 <= n
  BY <1>2, CallsFromIs
<1>4. CASE ends
  <2>1. c = [ok |-> TRUE, next |-> q + 3, out |-> <<>>]
    BY <1>2, <1>4, CallsFromIs
  <2>2. c.out = <<>>
    BY <2>1
  <2> QED BY <1>3, <1>4, <2>2
<1>5. CASE ~ends /\ begins /\ args.ok
  <2>1. c = [d EXCEPT !.out = <<Object(args)>> \o d.out]
    <3>1. c = [f[args.next] EXCEPT !.out = <<Object(args)>> \o f[args.next].out]
      BY <1>2, <1>5, CallsFromIs
    <3>2. d = f[args.next]
      BY <1>1
    <3> QED BY <3>1, <3>2, Zenon
  <2> DEFINE x == args.next
  <2>2. args \in ReadT /\ x \in (tagEnd + 3)..n /\ tagEnd \in (q + 1)..n
    BY <1>3, <1>5 DEF ReadsOn
  <2>3. x \in 0..n /\ x \in Nat
    <3> HIDE DEF x, tagEnd, q
    <3> QED BY <1>0, <1>3, <2>2
  <2>4. BlockOn(t, x, d)
    <3> HIDE DEF x
    <3>1. d = ParseCalls(t, x)
      BY DEF x
    <3> QED BY <2>3, <3>1, ParseCallsType
  <2> DEFINE joined == <<Object(args)>> \o d.out
  <2> HIDE DEF c, d, joined
  <2>5. c.ok = d.ok /\ c.out = joined
    <3>1. d \in BlockT
      BY <2>4 DEF BlockOn
    <3> QED BY <2>1, <3>1 DEF BlockT, joined
  <2>6. c.ok
    BY DEF c
  <2>7. d.ok /\ d \in BlockT /\ d.next \in (x + 3)..n
    BY <2>4, <2>5, <2>6 DEF BlockOn
  <2>8. x + 3 <= n
    <3> HIDE DEF x
    <3> QED BY <1>0, <2>3, <2>7
  <2> QED BY <1>3, <1>5, <2>2, <2>5, <2>7, <2>8 DEF c, d, joined
<1>6. CASE ~ends /\ ~(begins /\ args.ok)
  <2>1. c = Bad
    <3>0. ~ends /\ ~(begins /\ ArgsAt(t, p).ok)
      BY <1>2, <1>6
    <3>1. CallsFrom(t, p, f) = Bad
      BY <3>0, CallsFromIs
    <3> QED BY <1>2, <3>1
  <2>2. c.ok
    OBVIOUS
  <2> HIDE DEF c
  <2> QED BY <2>1, <2>2 DEF Bad
<1> QED BY <1>4, <1>5, <1>6

-----------------------------------------------------------------------------
(* What has been seen of a text that goes on.                              *)

\* The first place behind white space is the only one there is.
LEMMA SkipUnique ==
  ASSUME NEW t, NEW n \in Nat, NEW p \in 0..n, NEW q \in p..n,
         q = n \/ t[q + 1] # "w", \A i \in (p + 1)..q : t[i] = "w"
  PROVE  SkipWs(t, n, p) = q
<1> DEFINE r == SkipWs(t, n, p)
<1>1. /\ r \in p..n /\ (r = n \/ t[r + 1] # "w")
      /\ \A i \in (p + 1)..r : t[i] = "w"
  BY SkipWsIs
<1> HIDE DEF r
<1>2. ~(r < q)
  <2> SUFFICES ASSUME r < q PROVE FALSE
    OBVIOUS
  <2>1. r + 1 \in (p + 1)..q /\ r # n
    BY <1>1
  <2> QED BY <1>1, <2>1
<1>3. ~(q < r)
  <2> SUFFICES ASSUME q < r PROVE FALSE
    OBVIOUS
  <2>1. q + 1 \in (p + 1)..r /\ q # n
    BY <1>1
  <2> QED BY <1>1, <2>1
<1>4. r = q
  BY <1>1, <1>2, <1>3
<1> QED BY <1>4 DEF r

\* A step over white space that stops before the end of what may be looked at stops there in the whole text.
LEMMA SkipMore ==
  ASSUME NEW t \in Texts, NEW n \in 0..Len(t), NEW p \in 0..n
  PROVE  LET r == SkipWs(t, n, p)
         IN  /\ r \in p..n
             /\ r < n => SkipWs(t, Len(t), p) = r
             /\ SkipWs(t, Len(t), r) = SkipWs(t, Len(t), p)
<1> DEFINE r == SkipWs(t, n, p)
           m == Len(t)
           q == SkipWs(t, m, p)
<1>0. n \in Nat /\ m \in Nat /\ p \in Nat /\ p \in 0..m /\ n <= m
  BY LenType
<1>1. /\ r \in p..n /\ (r = n \/ t[r + 1] # "w")
      /\ \A i \in (p + 1)..r : t[i] = "w"
  BY <1>0, SkipWsIs
<1>2. /\ q \in p..m /\ (q = m \/ t[q + 1] # "w")
      /\ \A i \in (p + 1)..q : t[i] = "w"
  BY <1>0, SkipWsIs
<1> HIDE DEF r
<1>3. r < n => q = r
  <2> SUFFICES ASSUME r < n PROVE q = r
    OBVIOUS
  <2>1. r \in p..m /\ (r = m \/ t[r + 1] # "w")
    BY <1>0, <1>1
  <2> QED BY <1>0, <1>1, <2>1, SkipUnique
<1> HIDE DEF q
<1>4. r <= q
  <2> SUFFICES ASSUME q < r PROVE FALSE
    BY <1>0, <1>1, <1>2
  <2>1. q + 1 \in (p + 1)..r /\ q # m
    BY <1>0, <1>1, <1>2
  <2> QED BY <1>1, <1>2, <2>1
<1>5. SkipWs(t, m, r) = q
  <2>1. r \in 0..m /\ q \in r..m /\ \A i \in (r + 1)..q : i \in (p + 1)..q
    BY <1>0, <1>1, <1>2, <1>4
  <2>2. \A i \in (r + 1)..q : t[i] = "w"
    BY <1>2, <2>1
  <2>3. r \in 0..m /\ q \in r..m /\ (q = m \/ t[q + 1] # "w")
    BY <1>2, <2>1
  <2> HIDE DEF m
  <2> QED BY <1>0, <2>2, <2>3, SkipUnique
<1> QED BY <1>1, <1>3, <1>5 DEF r, q

\* A marker that may be taken for one, and one that has begun, against what the whole text holds there.
LEMMA SeenMore ==
  ASSUME NEW t \in Texts, NEW n \in 0..Len(t), NEW p \in 0..n, NEW x \in Marks, NEW y \in Marks
  PROVE  LET m == Len(t)
             ends == FullLit(t, n, p, End(x))
             begins == FullLit(t, n, p, Start(y))
             part == PartialLit(t, n, p, End(x), 0) \/ PartialLit(t, n, p, Start(y), 0)
         IN  /\ ends => p < n /\ p + 3 <= n /\ FullLit(t, m, p, End(x))
             /\ begins => p < n /\ p + 2 <= n /\ FullLit(t, m, p, Start(y))
             /\ ~part => p < n
             /\ ~part /\ FullLit(t, m, p, End(x)) => ends
             /\ ~part /\ FullLit(t, m, p, Start(y)) => begins
             /\ FullLit(t, m, p, End(x)) /\ p + 3 <= n => ends
             /\ FullLit(t, m, p, Start(y)) /\ p + 2 <= n => begins
             /\ ~(FullLit(t, m, p, End(x)) /\ FullLit(t, m, p, Start(y)))
<1>0. Len(t) \in Nat /\ n \in Nat /\ p \in Nat /\ Len(t) \in 0..Len(t)
  BY LenType
<1>1. /\ FullLit(t, n, p, End(x)) <=> p + 3 <= n /\ t[p + 1] = "<" /\ t[p + 2] = "/" /\ t[p + 3] = x
      /\ FullLit(t, Len(t), p, End(x)) <=> p + 3 <= Len(t) /\ t[p + 1] = "<" /\ t[p + 2] = "/" /\ t[p + 3] = x
  BY <1>0, FullEnd
<1>2. /\ FullLit(t, n, p, Start(y)) <=> p + 2 <= n /\ t[p + 1] = "<" /\ t[p + 2] = y
      /\ FullLit(t, Len(t), p, Start(y)) <=> p + 2 <= Len(t) /\ t[p + 1] = "<" /\ t[p + 2] = y
  BY <1>0, FullStart
<1>3. PartialLit(t, n, p, Start(y), 0) <=> p = n \/ (p + 1 = n /\ t[p + 1] = "<")
  BY <1>0, PartialStart
<1>4. PartialLit(t, n, p, End(x), 0) <=> \/ p = n \/ (p + 1 = n /\ t[p + 1] = "<")
                                         \/ (p + 2 = n /\ t[p + 1] = "<" /\ t[p + 2] = "/")
  BY <1>0, PartialEnd
<1>5. y # "/"
  BY DEF Marks
<1> QED BY <1>0, <1>1, <1>2, <1>3, <1>4, <1>5

\* The end of a tag that has been seen is its end.
LEMMA TagMore ==
  ASSUME NEW t \in Texts, NEW n \in 0..Len(t), NEW p \in 0..n
  PROVE  LET e == TagEnd(t, n, p)
             d == TagEnd(t, Len(t), p)
         IN  /\ e # NotFound => e \in (p + 1)..n /\ d = e
             /\ d # NotFound /\ d <= n => e = d
<1> DEFINE e == TagEnd(t, n, p)
           d == TagEnd(t, Len(t), p)
<1>0. Len(t) \in Nat /\ n \in Nat /\ p \in Nat /\ Len(t) \in 0..Len(t) /\ n <= Len(t)
  BY LenType
<1>1. \/ e = NotFound /\ \A i \in (p + 1)..n : t[i] # ">"
      \/ e \in (p + 1)..n /\ t[e] = ">" /\ \A i \in (p + 1)..(e - 1) : t[i] # ">"
  BY <1>0, TagEndIs
<1>2. \/ d = NotFound /\ \A i \in (p + 1)..Len(t) : t[i] # ">"
      \/ d \in (p + 1)..Len(t) /\ t[d] = ">" /\ \A i \in (p + 1)..(d - 1) : t[i] # ">"
  BY <1>0, TagEndIs
<1> HIDE DEF e, d
<1>3. e # NotFound => e \in (p + 1)..n /\ d = e
  <2> SUFFICES ASSUME e # NotFound PROVE e \in (p + 1)..n /\ d = e
    OBVIOUS
  <2>1. e \in (p + 1)..n /\ t[e] = ">" /\ e \in (p + 1)..Len(t) /\ \A i \in (p + 1)..(e - 1) : t[i] # ">"
    BY <1>0, <1>1
  <2>2. d \in (p + 1)..Len(t) /\ t[d] = ">" /\ \A i \in (p + 1)..(d - 1) : t[i] # ">"
    BY <1>2, <2>1
  <2>3. ~(d < e) /\ ~(e < d)
    <3>1. d < e => d \in (p + 1)..(e - 1)
      BY <1>0, <2>1, <2>2
    <3>2. e < d => e \in (p + 1)..(d - 1)
      BY <1>0, <2>1, <2>2
    <3> QED BY <2>1, <2>2, <3>1, <3>2
  <2> QED BY <1>0, <2>1, <2>2, <2>3
<1>4. d # NotFound /\ d <= n => e # NotFound
  <2> SUFFICES ASSUME d # NotFound, d <= n, e = NotFound PROVE FALSE
    OBVIOUS
  <2>1. d \in (p + 1)..n /\ t[d] = ">"
    BY <1>0, <1>2
  <2>2. \A i \in (p + 1)..n : t[i] # ">"
    BY <1>0, <1>1 DEF NotFound
  <2> QED BY <2>1, <2>2
<1> QED BY <1>3, <1>4 DEF e, d

\* White space before a call or an argument does not count.
LEMMA SameSkip ==
  ASSUME NEW t, NEW p, NEW q, SkipWs(t, Len(t), p) = SkipWs(t, Len(t), q), NEW first, NEW f
  PROVE  /\ CallsFrom(t, p, f) = CallsFrom(t, q, f)
         /\ ArgsFrom(t, p, first, f) = ArgsFrom(t, q, first, f)
<1>1. CallsFrom(t, p, f) = CallsFrom(t, q, f)
  BY Zenon DEF CallsFrom
<1>2. ArgsFrom(t, p, first, f) = ArgsFrom(t, q, first, f)
  BY Zenon DEF ArgsFrom
<1> QED BY <1>1, <1>2

\* Nor does it for what a block holds.
LEMMA SameBlock ==
  ASSUME NEW t \in Texts, Typed(t), NEW p \in 0..Len(t), NEW q \in 0..Len(t),
         SkipWs(t, Len(t), p) = SkipWs(t, Len(t), q)
  PROVE  ParseCalls(t, p) = ParseCalls(t, q)
<1>1. PICK f : /\ \A x : ParseCalls(t, x) = f[x]
               /\ \A x \in 0..Len(t) : f[x] = CallsFrom(t, x, f)
  BY ParseCallsIs
<1>2. CallsFrom(t, p, f) = CallsFrom(t, q, f)
  BY SameSkip
<1> QED BY <1>1, <1>2

-----------------------------------------------------------------------------
(* What the final parser will read of a block the live projection is in.   *)

\* The arguments of a call from p on and its end.
ArgsHere(t, p, first) == ArgsFrom(t, p, first, RestArgs(t))

\* The arguments that can be read behind p: none, or one and the rest of them.
LEMMA ArgsHereIs ==
  ASSUME NEW t \in Texts, Typed(t), NEW p \in 0..Len(t), NEW first \in BOOLEAN, ArgsHere(t, p, first).ok
  PROVE  LET n == Len(t)
             q == SkipWs(t, n, p)
             e == TagEnd(t, n, q)
             v == FindLit(t, n, e, End("arg"))
             attr == Attr(t, q, e)
             a == ArgsHere(t, p, first)
             r == ArgsHere(t, v + 3, FALSE)
         IN  /\ q \in p..n /\ a \in ReadT
             /\ \/ FullLit(t, n, q, End("call")) /\ a.next = q + 3 /\ q + 3 <= n /\ a.out = BraceR
                \/ /\ ~FullLit(t, n, q, End("call")) /\ FullLit(t, n, q, Start("arg"))
                   /\ e \in (q + 1)..n /\ v \in e..n /\ v + 3 <= n /\ attr \in {"str", "raw"}
                   /\ r \in ReadT /\ r.ok /\ a.next = r.next
                   /\ a.out = MemberOf(first, ArgValue(Cut(t, e, v), attr), r.out)
<1> DEFINE n == Len(t)
           q == SkipWs(t, n, p)
           e == TagEnd(t, n, q)
           v == FindLit(t, n, e, End("arg"))
           attr == Attr(t, q, e)
           f == RestArgs(t)
           a == ArgsFrom(t, p, first, f)
           leaf == ParseLeaf(t, q)
           ends == FullLit(t, n, q, End("call"))
           begins == FullLit(t, n, q, Start("arg"))
<1>0. n \in Nat /\ p \in Nat /\ n \in 0..Len(t) /\ a.ok /\ ArgsHere(t, p, first) = a
  BY LenType DEF ArgsHere
<1>1. q \in p..n /\ q \in 0..n
  <2>1. q \in p..n
    BY <1>0, SkipWsIs
  <2> QED BY <1>0, <2>1
<1>2. \A x \in 0..n : ReadsOn(t, x, f[x]) /\ f[x] = ArgsFrom(t, x, FALSE, f)
  BY RestArgsType, RestArgsIs
<1>3. a \in ReadT
  <2>1. \A x \in (p + 1)..Len(t) : x \in 0..n
    BY <1>0
  <2>2. \A x \in (p + 1)..Len(t) : ReadsOn(t, x, f[x])
    BY <1>2, <2>1
  <2> HIDE DEF f
  <2> QED BY <2>2, ArgsFromType DEF ReadsOn
<1>4. CASE ends
  <2>1. a = [ok |-> TRUE, next |-> q + 3, out |-> BraceR]
    BY <1>4, ArgsFromIs
  <2>2. q + 3 <= n
    <3>1. "call" \in Marks
      BY MarkNames
    <3> HIDE DEF q
    <3> QED BY <1>0, <1>1, <1>4, <3>1, FullEnd
  <2>3. a.next = q + 3 /\ a.out = BraceR
    BY <2>1
  <2> QED BY <1>0, <1>1, <1>3, <1>4, <2>2, <2>3
<1>5. CASE ~ends /\ begins /\ leaf.ok
  <2> DEFINE z == f[v + 3]
             joined == MemberOf(first, leaf.out, z.out)
  <2>1. leaf \in ReadT /\ e \in (q + 1)..n /\ v \in e..n /\ v + 3 <= n /\ leaf.next = v + 3
        /\ leaf.out = ArgValue(Cut(t, e, v), attr)
    BY <1>1, <1>5, LeafIs
  <2>2. attr \in {"str", "raw"}
    <3>1. e # NotFound
      BY <1>0, <1>1, <2>1 DEF NotFound
    <3>2. attr # "none"
      BY <1>1, <1>5, <3>1, TypedArg
    <3> QED BY <3>2, AttrIs
  <2>3. a = [f[leaf.next] EXCEPT !.out = MemberOf(first, leaf.out, f[leaf.next].out)]
    BY <1>5, ArgsFromIs
  <2>4. a = [z EXCEPT !.out = joined]
    BY <2>1, <2>3, Zenon
  <2>5. v + 3 \in 0..n
    <3> HIDE DEF v, e, q
    <3> QED BY <1>0, <1>1, <2>1
  <2>6. z \in ReadT /\ z = ArgsHere(t, v + 3, FALSE)
    <3> HIDE DEF v
    <3> QED BY <1>2, <2>5 DEF ReadsOn, ArgsHere
  <2> HIDE DEF z, joined, a
  <2>7. a.ok = z.ok /\ a.next = z.next /\ a.out = joined
    <3>1. z \in [ok : BOOLEAN, next : Nat, out : Texts]
      BY <2>6 DEF ReadT
    <3> QED BY <2>4, <3>1
  <2> QED BY <1>0, <1>1, <1>3, <1>5, <2>1, <2>2, <2>6, <2>7 DEF joined
<1>6. CASE ~ends /\ ~(begins /\ leaf.ok)
  <2>1. a = Bad
    BY <1>6, ArgsFromIs
  <2> HIDE DEF a
  <2> QED BY <1>0, <2>1 DEF Bad
<1> QED BY <1>4, <1>5, <1>6

\* An end marker that has been seen is the first one, and one that has not ends behind what may be looked at.
LEMMA FindMore ==
  ASSUME NEW t \in Texts, NEW n \in 0..Len(t), NEW p \in 0..n, NEW x \in Marks
  PROVE  LET c == FindLit(t, n, p, End(x))
             v == FindLit(t, Len(t), p, End(x))
         IN  /\ v # NotFound => v \in p..Len(t) /\ v + 3 <= Len(t) /\ t[v + 1] = "<" /\ t[v + 2] = "/" /\ t[v + 3] = x
             /\ c # NotFound => v = c
             /\ c = NotFound /\ v # NotFound => v + 3 > n
             /\ \A q \in p..Len(t) : v # NotFound /\ q <= v => FindLit(t, Len(t), q, End(x)) = v
<1> DEFINE c == FindLit(t, n, p, End(x))
           m == Len(t)
           v == FindLit(t, m, p, End(x))
<1>0. m \in Nat /\ n \in Nat /\ p \in Nat /\ m \in 0..Len(t) /\ n <= m
  BY LenType
<1>1. \A i \in Nat : /\ FullLit(t, n, i, End(x)) <=> i + 3 <= n /\ t[i + 1] = "<" /\ t[i + 2] = "/" /\ t[i + 3] = x
                     /\ FullLit(t, m, i, End(x)) <=> i + 3 <= m /\ t[i + 1] = "<" /\ t[i + 2] = "/" /\ t[i + 3] = x
  BY <1>0, FullEnd
<1>2. \/ c = NotFound /\ \A i \in p..n : ~FullLit(t, n, i, End(x))
      \/ c \in p..n /\ FullLit(t, n, c, End(x)) /\ \A i \in p..n : FullLit(t, n, i, End(x)) => c <= i
  BY <1>0, FindLitIs
<1>3. \/ v = NotFound /\ \A i \in p..m : ~FullLit(t, m, i, End(x))
      \/ v \in p..m /\ FullLit(t, m, v, End(x)) /\ \A i \in p..m : FullLit(t, m, i, End(x)) => v <= i
  BY <1>0, FindLitIs
<1> HIDE DEF c, v, m
<1>4. v # NotFound => v \in p..m /\ v \in Nat /\ FullLit(t, m, v, End(x)) /\ v + 3 <= m /\ t[v + 1] = "<" /\ t[v + 2] = "/" /\ t[v + 3] = x
  <2> SUFFICES ASSUME v # NotFound PROVE v \in p..m /\ v \in Nat /\ FullLit(t, m, v, End(x)) /\ v + 3 <= m /\ t[v + 1] = "<" /\ t[v + 2] = "/" /\ t[v + 3] = x
    OBVIOUS
  <2>1. v \in p..m /\ FullLit(t, m, v, End(x))
    BY <1>3
  <2>2. v \in Nat
    BY <1>0, <2>1
  <2> QED BY <1>1, <2>1, <2>2
<1>5. c # NotFound => v = c
  <2> SUFFICES ASSUME c # NotFound PROVE v = c
    OBVIOUS
  <2>1. c \in p..n /\ FullLit(t, n, c, End(x)) /\ c \in Nat /\ c \in p..m
    BY <1>0, <1>2
  <2>2. FullLit(t, m, c, End(x))
    BY <1>0, <1>1, <2>1
  <2>3. v # NotFound /\ v <= c
    BY <1>3, <2>1, <2>2, <1>0 DEF NotFound
  <2>4. v \in Nat /\ FullLit(t, m, v, End(x)) /\ v \in p..m
    BY <1>4, <2>3
  <2>5. c + 3 <= n
    BY <1>1, <2>1
  <2>6. v + 3 <= n /\ v \in p..n
    BY <1>0, <2>1, <2>3, <2>4, <2>5
  <2>7. FullLit(t, n, v, End(x))
    BY <1>1, <2>4, <2>6
  <2>8. c <= v
    BY <1>2, <2>1, <2>6, <2>7
  <2> QED BY <2>1, <2>3, <2>4, <2>8
<1>6. c = NotFound /\ v # NotFound => v + 3 > n
  <2> SUFFICES ASSUME c = NotFound, v # NotFound, v + 3 <= n PROVE FALSE
    BY <1>0, <1>4
  <2>1. v \in p..n /\ FullLit(t, n, v, End(x))
    BY <1>0, <1>1, <1>4
  <2>2. c \notin p..n
    BY <1>0 DEF NotFound
  <2> QED BY <1>2, <2>1, <2>2
<1>7. ASSUME NEW q \in p..m, v # NotFound, q <= v PROVE FindLit(t, m, q, End(x)) = v
  <2> DEFINE w == FindLit(t, m, q, End(x))
  <2>0. q \in Nat /\ v \in q..m /\ \A i \in q..m : i \in p..m
    BY <1>0, <1>4, <1>7
  <2>1. \/ w = NotFound /\ \A i \in q..m : ~FullLit(t, m, i, End(x))
        \/ w \in q..m /\ FullLit(t, m, w, End(x)) /\ \A i \in q..m : FullLit(t, m, i, End(x)) => w <= i
    BY <1>0, <2>0, FindLitIs
  <2> HIDE DEF w
  <2>2. w \in q..m /\ FullLit(t, m, w, End(x)) /\ w <= v
    BY <1>4, <1>7, <2>0, <2>1
  <2>3. v <= w
    BY <1>3, <1>7, <2>0, <2>2
  <2>4. w = v
    BY <1>0, <2>0, <2>2, <2>3
  <2> QED BY <2>4 DEF w
<1> QED BY <1>4, <1>5, <1>6, <1>7 DEF c, v, m

-----------------------------------------------------------------------------
\* The calls of b behind the first k.
Ahead(b, k, calls) ==
  Len(b) = k + Len(calls) /\ \A i \in 1..Len(calls) : b[k + i] = calls[i]

\* They are those the parser reads from p on.
CallsAhead(t, p, b, k) ==
  p \in 0..Len(t) /\ ParseCalls(t, p).ok /\ Ahead(b, k, ParseCalls(t, p).out)

\* The call behind the first k is what has been shown of it and what a reads on, where no
\* raw value is rewritten.
ArgsAhead(t, a, b, k, args) ==
  /\ a \in ReadT /\ a.ok
  /\ Verbatim(t) => b[k + 1] = args \o a.out
  /\ CallsAhead(t, a.next, b, k + 1)

\* So are the calls that are complete shown as the parser reads them.
Shows(t, o, b) == Verbatim(t) => \A i \in 1..o.tool.index : o.calls[i].args = b[i]

\* What of a value stands before a place, as it is shown.
Piece(o, t, to) ==
  IF o.tool.str THEN Unescape(Cut(t, o.tool.pos, to)) ELSE Cut(t, o.tool.pos, to)

\* The quotation mark of a string.
Quote(o) == IF o.tool.str THEN <<"q">> ELSE <<>>

\* Between two calls the parser reads the others from where the projection stands,
InvokesOn(t, b, o) ==
  o.tool.state = "invokes" /\ CallsAhead(t, o.tool.pos, b, o.tool.index)

\* between two arguments what has been shown of the object goes on with what is read there,
ParamsOn(t, b, o) ==
  LET k == o.tool.index
  IN  o.tool.state = "params" /\ ArgsAhead(t, ArgsHere(t, o.tool.pos, o.tool.first), b, k, o.calls[k + 1].args)

\* and in a value with the rest of the value and the arguments behind it.
ValueOn(t, b, o) ==
  LET k == o.tool.index
      v == FindLit(t, Len(t), o.tool.pos, End("arg"))
  IN  /\ o.tool.state = "value" /\ v # NotFound /\ v + 3 \in 0..Len(t) /\ ~o.tool.first /\ o.tool.pos <= v
      /\ ArgsAhead(t, ArgsHere(t, v + 3, FALSE), b, k, o.calls[k + 1].args \o (Piece(o, t, v) \o Quote(o)))

\* What has been shown of the calls b goes on as the parser reads it.
Followed(t, b, o) ==
  /\ Shows(t, o, b) /\ o.tool.pos \in 0..Len(t)
  /\ \/ InvokesOn(t, b, o)
     \/ ParamsOn(t, b, o)
     \/ ValueOn(t, b, o)
     \/ o.tool.state = "done" /\ o.tool.index = Len(b)

\* The first call ahead is the next one,
LEMMA AheadShift ==
  ASSUME NEW b, NEW k \in Nat, NEW x \in Texts, NEW w \in Seq(Texts), Ahead(b, k, <<x>> \o w)
  PROVE  b[k + 1] = x /\ Ahead(b, k + 1, w)
<1> DEFINE c == <<x>> \o w
<1>1. /\ Len(c) = Len(w) + 1 /\ c[1] = x /\ Len(w) \in Nat
      /\ \A i \in 1..Len(w) : c[i + 1] = w[i]
  BY PrependCall
<1>0. Len(b) = k + Len(c) /\ \A i \in 1..Len(c) : b[k + i] = c[i]
  BY DEF Ahead
<1> DEFINE l == Len(w)
<1> HIDE DEF l, c
<1>2. l \in Nat /\ Len(c) = l + 1 /\ \A i \in 1..l : c[i + 1] = w[i]
  BY <1>1 DEF l
<1>3. b[k + 1] = x
  BY <1>0, <1>1, <1>2
<1>4. Len(b) = (k + 1) + l
  <2> DEFINE lb == Len(b)
             lc == Len(c)
  <2>1. lb = k + lc /\ lc = l + 1
    BY <1>0, <1>2
  <2> HIDE DEF lb, lc
  <2>2. lb = (k + 1) + l
    BY <1>2, <2>1
  <2> QED BY <2>2 DEF lb
<1>5. ASSUME NEW i \in 1..l PROVE b[(k + 1) + i] = w[i]
  <2>1. i + 1 \in 1..Len(c) /\ k + (i + 1) = (k + 1) + i
    BY <1>2
  <2> QED BY <1>0, <1>2, <2>1
<1> QED BY <1>3, <1>4, <1>5 DEF l, Ahead

\* and when none is ahead all have been shown.
LEMMA AheadEnd ==
  ASSUME NEW b, NEW k \in Nat, Ahead(b, k, <<>>)
  PROVE  k = Len(b)
<1>1. Len(b) = k + 0
  BY DEF Ahead
<1> QED BY <1>1

\* A step between two calls.
LEMMA FollowCalls ==
  ASSUME NEW t \in Texts, Typed(t), NEW n \in 0..Len(t), NEW b, NEW s, Begins(t, s), NEW o, InTool(s, o),
         o.tool.state = "invokes", o.tool.pos <= n, Followed(t, b, o)
  PROVE  Followed(t, b, BetweenCalls(o, t, n))
<1> DEFINE r == BetweenCalls(o, t, n)
           m == Len(t)
           pos == o.tool.pos
           k == o.tool.index
           p == SkipWs(t, n, pos)
           q == SkipWs(t, m, pos)
           e == TagEnd(t, n, p)
           d == TagEnd(t, m, q)
           args == ParseArgs(t, d)
           c == ParseCalls(t, pos)
           rest == ParseCalls(t, args.next)
           ends == FullLit(t, n, p, End("tools"))
           begins == FullLit(t, n, p, Start("call"))
           part == PartialLit(t, n, p, End("tools"), 0) \/ PartialLit(t, n, p, Start("call"), 0)
<1>0. /\ m \in Nat /\ n \in Nat /\ pos \in Nat /\ n <= m /\ pos \in 0..n /\ pos \in 0..m /\ k \in Nat
      /\ "tools" \in Marks /\ "call" \in Marks
  BY LenType, MarkNames DEF InTool, OutT, ToolT
<1>1. NextCall(o, t, n, r)
  BY BetweenCallsIs
<1>2. Shows(t, o, b) /\ CallsAhead(t, pos, b, k)
  BY DEF Followed, InvokesOn, ParamsOn, ValueOn
<1>3. p \in pos..n /\ p \in 0..n /\ p \in 0..m /\ p \in Nat /\ (p < n => q = p) /\ SkipWs(t, m, p) = q
  <2>1. p \in pos..n /\ (p < n => q = p) /\ SkipWs(t, m, p) = q
    BY <1>0, SkipMore
  <2> HIDE DEF p
  <2> QED BY <1>0, <2>1
<1>4. /\ q \in pos..m
      /\ \/ FullLit(t, m, q, End("tools")) /\ c.out = <<>> /\ q + 3 <= m
         \/ /\ ~FullLit(t, m, q, End("tools")) /\ FullLit(t, m, q, Start("call"))
            /\ d \in (q + 1)..m /\ args \in ReadT /\ args.ok
            /\ args.next \in (d + 3)..m /\ args.next + 3 <= m
            /\ rest \in BlockT /\ rest.ok /\ c.out = <<Object(args)>> \o rest.out
  <2>1. c.ok
    BY <1>2 DEF CallsAhead
  <2> QED BY <1>0, <2>1, BlockIs
<1>5. /\ ends => p < n /\ p + 3 <= n /\ FullLit(t, m, p, End("tools"))
      /\ begins => p < n /\ FullLit(t, m, p, Start("call"))
      /\ ~part => p < n
      /\ ~part /\ FullLit(t, m, p, End("tools")) => ends
      /\ ~part /\ FullLit(t, m, p, Start("call")) => begins
      /\ ~(FullLit(t, m, p, End("tools")) /\ FullLit(t, m, p, Start("call")))
  <2> HIDE DEF p
  <2> QED BY <1>0, <1>3, SeenMore
<1>6. Ahead(b, k, c.out)
  BY <1>2 DEF CallsAhead
<1>7. /\ r.tool.index = k /\ \A i \in 1..k : r.calls[i] = o.calls[i]
      /\ \/ ends /\ r.tool.state = "done" /\ r.tool.pos = p + 3
         \/ /\ ~ends /\ begins /\ e # NotFound
            /\ r.tool.state = "params" /\ r.tool.pos = e /\ r.tool.first
            /\ r.calls[k + 1].args = BraceL
         \/ r.tool.state = "invokes" /\ r.tool.pos = p
         \/ ~ends /\ ~begins /\ ~part /\ r.tool.state = "error"
  BY <1>1 DEF NextCall
<1> SUFFICES Followed(t, b, r)
  OBVIOUS
<1> HIDE DEF r, p, q, c, rest, args, d, ends, begins, part, e
<1>8. Shows(t, r, b)
  BY <1>2, <1>7 DEF Shows
<1>9. CASE ends /\ r.tool.state = "done" /\ r.tool.pos = p + 3
  <2>1. c.out = <<>>
    BY <1>3, <1>4, <1>5, <1>9
  <2>2. k = Len(b)
    BY <1>0, <1>6, <2>1, AheadEnd
  <2>3. p + 3 \in 0..m
    BY <1>0, <1>3, <1>5, <1>9
  <2> QED BY <1>7, <1>8, <1>9, <2>2, <2>3 DEF Followed
<1>10. CASE ~ends /\ begins /\ e # NotFound /\ r.tool.state = "params" /\ r.tool.pos = e /\ r.tool.first
             /\ r.calls[k + 1].args = BraceL
  <2>1. q = p /\ ~FullLit(t, m, q, End("tools"))
    BY <1>3, <1>5, <1>10
  <2>2. e = d /\ e \in 0..m
    <3>1. e \in (p + 1)..n /\ TagEnd(t, m, p) = e
      BY <1>3, <1>10, TagMore DEF e
    <3>2. d = e
      BY <2>1, <3>1 DEF d
    <3> HIDE DEF e, d
    <3> QED BY <1>0, <1>3, <3>1, <3>2
  <2>3. /\ args \in ReadT /\ args.ok /\ args.next + 3 <= m /\ args.next \in (d + 3)..m
        /\ rest \in BlockT /\ rest.ok /\ c.out = <<Object(args)>> \o rest.out
    BY <1>4, <2>1
  <2>4. args = ArgsHere(t, e, TRUE)
    BY <2>2 DEF args, ArgsHere, ParseArgs
  <2> DEFINE w == rest.out
             y == Object(args)
  <2>5. b[k + 1] = y /\ Ahead(b, k + 1, w)
    <3>1. w \in Seq(Texts) /\ y \in Texts /\ c.out = <<y>> \o w
      BY <2>3, ObjectType DEF BlockT
    <3>2. k \in Nat /\ Ahead(b, k, <<y>> \o w)
      BY <1>0, <1>6, <3>1, Zenon
    <3> HIDE DEF w, y, k
    <3> QED BY <3>1, <3>2, AheadShift
  <2>6. b[k + 1] = BraceL \o args.out
    BY <2>5 DEF Object
  <2> DEFINE x == args.next
  <2>7. CallsAhead(t, x, b, k + 1)
    <3>1. x \in (d + 3)..m
      BY <2>3
    <3> HIDE DEF x
    <3>2. x \in 0..m
      BY <1>0, <2>2, <3>1
    <3> QED BY <2>3, <2>5, <3>2 DEF CallsAhead, rest, x
  <2>8. ArgsAhead(t, args, b, k, BraceL)
    BY <2>3, <2>6, <2>7 DEF ArgsAhead
  <2> QED BY <1>7, <1>8, <1>10, <2>2, <2>4, <2>8 DEF Followed, ParamsOn
<1>11. CASE r.tool.state = "invokes" /\ r.tool.pos = p
  <2>1. ParseCalls(t, p) = c
    <3>1. SkipWs(t, Len(t), p) = SkipWs(t, Len(t), pos)
      BY <1>3 DEF q
    <3> QED BY <1>0, <1>3, <3>1, SameBlock DEF c
  <2>2. CallsAhead(t, p, b, k)
    BY <1>2, <1>3, <2>1 DEF CallsAhead, c
  <2> QED BY <1>3, <1>7, <1>8, <1>11, <2>2 DEF Followed, InvokesOn
<1>12. CASE ~ends /\ ~begins /\ ~part /\ r.tool.state = "error"
  BY <1>3, <1>4, <1>5, <1>12
<1> QED BY <1>7, <1>9, <1>10, <1>11, <1>12

-----------------------------------------------------------------------------
\* There is nothing in nothing.
LEMMA UnescapeNone == Unescape(<<>>) = <<>>
<1> DEFINE v == <<>>
           f == [i \in DOMAIN v |-> Unescaped(v, i)]
<1>1. v \in Texts /\ Len(v) = 0
  BY DEF Texts
<1> HIDE DEF v
<1>2. f \in Seq(Texts) /\ Len(f) = 0
  BY <1>1, UnescapeSeq
<1>3. FlattenSeq(f) = f
  BY <1>2, Zenon DEF FlattenSeq
<1>4. f = <<>>
  <2> HIDE DEF f
  <2> QED BY <1>2
<1>5. Unescape(v) = FlattenSeq(f)
  BY DEF Unescape
<1> QED BY <1>3, <1>4, <1>5 DEF v

\* A piece of a value is a text.
LEMMA PieceIs ==
  ASSUME NEW t \in Texts, NEW o, o.tool.pos \in Nat, NEW to \in 0..Len(t), o.tool.pos <= to
  PROVE  Piece(o, t, to) = ValuePiece(o, t, to) /\ Piece(o, t, to) \in Texts
<1> DEFINE p == o.tool.pos
           c == Cut(t, p, to)
<1>1. to \in Nat /\ p \in Nat /\ p <= to
  BY LenType
<1>2. c \in Texts
  BY CutIs
<1>3. CASE to <= p
  <2>1. to = p
    BY <1>1, <1>3
  <2>2. c = <<>>
    <3> HIDE DEF p
    <3> QED BY <1>1, <2>1, CutNone
  <2>3. ValuePiece(o, t, to) = <<>>
    BY <1>3 DEF ValuePiece
  <2>4. Piece(o, t, to) = <<>>
    BY <2>2, UnescapeNone DEF Piece
  <2>5. <<>> \in Texts
    BY DEF Texts
  <2> QED BY <2>3, <2>4, <2>5
<1>4. CASE ~(to <= p)
  <2>1. Piece(o, t, to) = ValuePiece(o, t, to)
    BY <1>4 DEF ValuePiece, Piece
  <2> QED BY <1>2, <2>1, UnescapeType DEF Piece
<1> QED BY <1>3, <1>4

\* So is the quotation mark.
LEMMA QuoteIs ==
  ASSUME NEW o
  PROVE  Quote(o) \in Texts
<1>1. <<>> \in Texts
  BY DEF Texts
<1> QED BY <1>1, CloseBrace, Zenon DEF Quote

\* A member may be shown piece by piece.
LEMMA MemberSplit ==
  ASSUME NEW first \in BOOLEAN, NEW x \in Texts, NEW y \in Texts
  PROVE  Member(first, x \o y) = Member(first, x) \o y
<1> DEFINE a == ","
           b == "key"
           h == (IF first THEN <<>> ELSE <<a>>) \o <<b>>
<1>1. a \in Atom /\ b \in Atom
  BY AtomType
<1>2. h \in Seq(Atom)
  <2> HIDE DEF a, b, Atom
  <2>1. <<a>> \in Seq(Atom) /\ <<b>> \in Seq(Atom) /\ <<>> \in Seq(Atom)
    BY <1>1, EmptySeq
  <2>2. (IF first THEN <<>> ELSE <<a>>) \in Seq(Atom)
    BY <2>1
  <2> QED BY <2>1, <2>2, ConcatProperties
<1>3. \A z : Member(first, z) = h \o z
  BY Zenon DEF Member
<1> HIDE DEF h
<1>4. x \in Seq(Atom) /\ y \in Seq(Atom)
  BY DEF Texts
<1>5. h \o (x \o y) = (h \o x) \o y
  BY <1>2, <1>4, ConcatAssociative
<1> QED BY <1>3, <1>5

\* One value of a call: the quote it begins with, its text and the quote it ends with.
LEMMA ArgParts ==
  ASSUME NEW x \in Texts, NEW attr \in {"str", "raw"}
  PROVE  LET quote == IF attr = "str" THEN <<"q">> ELSE <<>>
             piece == IF attr = "str" THEN Unescape(x) ELSE x
         IN  /\ (attr = "raw" => ArgValue(x, "raw") = x) => ArgValue(x, attr) = quote \o (piece \o quote)
             /\ quote \in Texts /\ piece \in Texts
<1> DEFINE q == <<"q">>
           u == Unescape(x)
<1>1. q \in Seq(Atom) /\ u \in Seq(Atom) /\ x \in Seq(Atom) /\ <<>> \in Seq(Atom)
  BY CloseBrace, UnescapeType DEF Texts
<1>2. CASE attr = "str"
  <2>1. ArgValue(x, attr) = (q \o u) \o q
    BY <1>2, Zenon DEF ArgValue, Quoted
  <2>2. (q \o u) \o q = q \o (u \o q)
    <3> HIDE DEF q, u
    <3> QED BY <1>1, ConcatAssociative
  <2> QED BY <1>1, <1>2, <2>1, <2>2, Zenon DEF Texts
<1>3. CASE attr = "raw"
  <2>1. (attr = "raw" => ArgValue(x, "raw") = x) => ArgValue(x, attr) = x
    BY <1>3
  <2>2. <<>> \o (x \o <<>>) = x
    BY <1>1, ConcatEmptySeq
  <2>3. attr # "str"
    BY <1>3
  <2> QED BY <1>1, <2>1, <2>2, <2>3, Zenon DEF Texts
<1> QED BY <1>2, <1>3

\* Shown so far, the name of an argument and all it reads on.
Joined(args, first, quote, piece, rest) ==
  args \o MemberOf(first, quote \o (piece \o quote), rest)
    = ((args \o Member(first, quote)) \o (piece \o quote)) \o rest

\* What has been shown of an object and the pieces of a member are together what the parser reads.
LEMMA ArgJoins ==
  ASSUME NEW args \in Texts, NEW first \in BOOLEAN, NEW quote \in Texts, NEW piece \in Texts, NEW rest \in Texts
  PROVE  Joined(args, first, quote, piece, rest)
<1> DEFINE y == piece \o quote
           m == Member(first, quote)
<1>1. y \in Texts /\ m \in Texts
  BY MemberType DEF Texts
<1>2. MemberOf(first, quote \o y, rest) = (m \o y) \o rest
  BY <1>1, MemberSplit, Zenon DEF MemberOf
<1> HIDE DEF y, m
<1>3. /\ args \in Seq(Atom) /\ m \in Seq(Atom) /\ y \in Seq(Atom) /\ rest \in Seq(Atom)
      /\ m \o y \in Seq(Atom) /\ args \o m \in Seq(Atom)
  BY <1>1 DEF Texts
<1>4. args \o ((m \o y) \o rest) = (args \o (m \o y)) \o rest
  BY <1>3, ConcatAssociative
<1>5. args \o (m \o y) = (args \o m) \o y
  BY <1>3, ConcatAssociative
<1> QED BY <1>2, <1>4, <1>5 DEF y, m, Joined

-----------------------------------------------------------------------------
\* A step between two arguments.
LEMMA FollowArgs ==
  ASSUME NEW t \in Texts, Typed(t), NEW n \in 0..Len(t), NEW b, NEW s, Begins(t, s), NEW o, InTool(s, o),
         o.tool.state = "params", o.tool.pos <= n, Followed(t, b, o)
  PROVE  Followed(t, b, BetweenArgs(o, t, n))
<1> DEFINE r == BetweenArgs(o, t, n)
           m == Len(t)
           pos == o.tool.pos
           k == o.tool.index
           first == o.tool.first
           p == SkipWs(t, n, pos)
           q == SkipWs(t, m, pos)
           e == TagEnd(t, n, p)
           d == TagEnd(t, m, q)
           v == FindLit(t, m, d, End("arg"))
           attr == Attr(t, q, d)
           a == ArgsHere(t, pos, first)
           rest == ArgsHere(t, v + 3, FALSE)
           args == o.calls[k + 1].args
           ends == FullLit(t, n, p, End("call"))
           begins == FullLit(t, n, p, Start("arg"))
           part == PartialLit(t, n, p, End("call"), 0) \/ PartialLit(t, n, p, Start("arg"), 0)
           value == ArgValue(Cut(t, d, v), attr)
           Q(at) == IF at = "str" THEN <<"q">> ELSE <<>>
<1>0. /\ m \in Nat /\ n \in Nat /\ pos \in Nat /\ n <= m /\ pos \in 0..n /\ pos \in 0..m /\ k \in Nat
      /\ "arg" \in Marks /\ "call" \in Marks /\ first \in BOOLEAN /\ args \in Texts
  <2>1. pos \in Nat /\ k \in Nat /\ first \in BOOLEAN /\ Len(o.calls) = k + 1 /\ o.calls \in Seq(CallT)
    BY DEF InTool, OutT, ToolT, CallsFit, InCall
  <2>2. o.calls[k + 1] \in CallT
    BY <2>1
  <2>3. args \in Texts
    BY <2>2 DEF CallT
  <2>4. m \in Nat /\ n \in Nat /\ n <= m /\ pos \in 0..n /\ pos \in 0..m
    BY <2>1, LenType
  <2>5. "arg" \in Marks /\ "call" \in Marks
    BY MarkNames
  <2> QED BY <2>1, <2>3, <2>4, <2>5
<1>1. NextArg(o, t, n, r)
  BY BetweenArgsIs
<1>2. Shows(t, o, b) /\ ArgsAhead(t, a, b, k, args)
  BY DEF Followed, InvokesOn, ParamsOn, ValueOn
<1>3. p \in pos..n /\ p \in 0..n /\ p \in 0..m /\ p \in Nat /\ (p < n => q = p) /\ SkipWs(t, m, p) = q
  <2>1. p \in pos..n /\ (p < n => q = p) /\ SkipWs(t, m, p) = q
    BY <1>0, SkipMore
  <2> HIDE DEF p
  <2> QED BY <1>0, <2>1
<1>4. /\ q \in pos..m
      /\ \/ FullLit(t, m, q, End("call")) /\ a.next = q + 3 /\ q + 3 <= m /\ a.out = BraceR
         \/ /\ ~FullLit(t, m, q, End("call")) /\ FullLit(t, m, q, Start("arg"))
            /\ d \in (q + 1)..m /\ v \in d..m /\ v + 3 <= m /\ attr \in {"str", "raw"}
            /\ rest \in ReadT /\ rest.ok /\ a.next = rest.next
            /\ a.out = MemberOf(first, value, rest.out)
  <2>1. a.ok
    BY <1>2 DEF ArgsAhead
  <2> QED BY <1>0, <2>1, ArgsHereIs
<1>5. /\ ends => p < n /\ p + 3 <= n /\ FullLit(t, m, p, End("call"))
      /\ begins => p < n /\ FullLit(t, m, p, Start("arg"))
      /\ ~part => p < n
      /\ ~part /\ FullLit(t, m, p, End("call")) => ends
      /\ ~part /\ FullLit(t, m, p, Start("arg")) => begins
      /\ ~(FullLit(t, m, p, End("call")) /\ FullLit(t, m, p, Start("arg")))
  <2> HIDE DEF p
  <2> QED BY <1>0, <1>3, SeenMore
<1>6. /\ a \in ReadT /\ a.ok /\ CallsAhead(t, a.next, b, k + 1)
      /\ Verbatim(t) => b[k + 1] = args \o a.out
  BY <1>2 DEF ArgsAhead
<1>7. /\ \A i \in 1..k : r.calls[i] = o.calls[i]
      /\ \/ /\ ends /\ r.tool.state = "invokes" /\ r.tool.pos = p + 3
            /\ r.tool.index = k + 1 /\ r.calls[k + 1].args = args \o BraceR
         \/ /\ ~ends /\ begins /\ e # NotFound /\ r.tool.index = k
            /\ r.tool.state = "value" /\ r.tool.pos = e /\ ~r.tool.first
            /\ r.tool.str = (Attr(t, p, e) = "str")
            /\ r.calls[k + 1].args = args \o Member(first, Q(Attr(t, p, e)))
         \/ /\ r.tool.state = "params" /\ r.tool.pos = p /\ r.tool.index = k
            /\ r.tool.first = first /\ r.calls = o.calls
         \/ ~ends /\ ~part /\ (begins => e # NotFound /\ Attr(t, p, e) = "none") /\ r.tool.state = "error"
  <2> HIDE DEF r
  <2> QED BY <1>1 DEF NextArg, OnlyArgs
<1>8. begins => e = NotFound \/ (e = d /\ e \in (p + 1)..n /\ e \in 0..m)
  <2> SUFFICES ASSUME begins, e # NotFound PROVE e = d /\ e \in (p + 1)..n /\ e \in 0..m
    OBVIOUS
  <2>1. e \in (p + 1)..n /\ TagEnd(t, m, p) = e
    BY <1>3, TagMore
  <2>2. q = p
    BY <1>3, <1>5
  <2>3. d = e
    BY <2>1, <2>2
  <2> HIDE DEF e, d, p
  <2> QED BY <1>0, <1>3, <2>1, <2>3
<1> SUFFICES Followed(t, b, r)
  OBVIOUS
<1> HIDE DEF r, p, q, a, rest, d, ends, begins, part, e, v, attr, Q, value
<1>9. CASE /\ ends /\ r.tool.state = "invokes" /\ r.tool.pos = p + 3
           /\ r.tool.index = k + 1 /\ r.calls[k + 1].args = args \o BraceR
  <2>1. q = p
    BY <1>3, <1>5, <1>9
  <2>2. a.next = p + 3 /\ a.out = BraceR /\ p + 3 \in 0..m
    <3>1. a.next = q + 3 /\ a.out = BraceR
      BY <1>4, <1>5, <1>9, <2>1
    <3>2. p + 3 \in 0..m
      <4>1. p + 3 <= n /\ p \in Nat
        BY <1>3, <1>5, <1>9
      <4> QED BY <1>0, <4>1
    <3> QED BY <2>1, <3>1, <3>2
  <2>3. Shows(t, r, b)
    <3> SUFFICES ASSUME Verbatim(t), NEW i \in 1..(k + 1) PROVE r.calls[i].args = b[i]
      BY <1>9 DEF Shows
    <3>1. CASE i = k + 1
      BY <1>6, <1>9, <2>2, <3>1
    <3>2. CASE i # k + 1
      <4>1. i \in 1..k
        BY <1>0, <3>2
      <4> QED BY <1>2, <1>7, <4>1 DEF Shows
    <3> QED BY <3>1, <3>2
  <2>4. CallsAhead(t, p + 3, b, k + 1)
    BY <1>6, <2>2
  <2> QED BY <1>9, <2>2, <2>3, <2>4 DEF Followed, InvokesOn
<1>10. CASE /\ ~ends /\ begins /\ e # NotFound /\ r.tool.index = k
            /\ r.tool.state = "value" /\ r.tool.pos = e /\ ~r.tool.first
            /\ r.tool.str = (Attr(t, p, e) = "str")
            /\ r.calls[k + 1].args = args \o Member(first, Q(Attr(t, p, e)))
  <2>1. q = p /\ e = d /\ e \in 0..m /\ e \in Nat
    <3>1. q = p
      BY <1>3, <1>5, <1>10
    <3>2. e = d /\ e \in 0..m
      BY <1>8, <1>10
    <3>3. e \in Nat
      BY <1>0, <3>2
    <3> QED BY <3>1, <3>2, <3>3
  <2>2. Attr(t, p, e) = attr
    BY <2>1 DEF attr
  <2>3. /\ v \in d..m /\ v + 3 <= m /\ attr \in {"str", "raw"}
        /\ rest \in ReadT /\ rest.ok /\ a.next = rest.next
        /\ a.out = MemberOf(first, value, rest.out)
    BY <1>4, <1>5, <1>10, <2>1
  <2>4. FindLit(t, m, e, End("arg")) = v /\ v \in Nat /\ v \in 0..m /\ e <= v /\ v + 3 \in 0..m /\ v # NotFound
    <3>1. FindLit(t, m, e, End("arg")) = v
      BY <2>1 DEF v
    <3> QED BY <1>0, <2>1, <2>3, <3>1 DEF NotFound
  <2> DEFINE x == Cut(t, e, v)
             quote == IF attr = "str" THEN <<"q">> ELSE <<>>
             piece == IF attr = "str" THEN Unescape(x) ELSE x
  <2>5. x \in Texts
    BY <2>1, <2>4, CutIs
  <2>6. (Verbatim(t) => value = quote \o (piece \o quote)) /\ quote \in Texts /\ piece \in Texts
    <3>1. value = ArgValue(x, attr)
      BY <2>1 DEF value
    <3>2. Verbatim(t) /\ attr = "raw" => ArgValue(x, "raw") = x
      <4>1. FullLit(t, m, q, Start("arg")) /\ q \in 0..m
        BY <1>3, <1>5, <1>10, <2>1
      <4>2. q \in ArgMarkers(t) /\ TagEnd(t, Len(t), q) = e /\ FindLit(t, Len(t), e, End("arg")) = v
            /\ Attr(t, q, e) = attr
        BY <2>1, <2>2, <2>4, <4>1 DEF ArgMarkers, d
      <4>3. e # NotFound
        BY <2>1 DEF NotFound
      <4> QED BY <2>4, <4>2, <4>3 DEF Verbatim
    <3> HIDE DEF x
    <3>3. /\ (attr = "raw" => ArgValue(x, "raw") = x) => ArgValue(x, attr) = quote \o (piece \o quote)
          /\ quote \in Texts /\ piece \in Texts
      BY <2>3, <2>5, ArgParts
    <3> QED BY <3>1, <3>2, <3>3
  <2>7. Piece(r, t, v) = piece /\ Quote(r) = quote
    BY <1>10, <2>2, Zenon DEF Piece, Quote
  <2>8. Q(Attr(t, p, e)) = quote
    BY <2>2, Zenon DEF Q
  <2> HIDE DEF quote, piece, x
  <2>9. Verbatim(t) => b[k + 1] = (r.calls[k + 1].args \o (piece \o quote)) \o rest.out
    <3> SUFFICES ASSUME Verbatim(t) PROVE b[k + 1] = (r.calls[k + 1].args \o (piece \o quote)) \o rest.out
      OBVIOUS
    <3>1. rest.out \in Texts
      BY <2>3 DEF ReadT
    <3>2. args \o MemberOf(first, quote \o (piece \o quote), rest.out)
            = ((args \o Member(first, quote)) \o (piece \o quote)) \o rest.out
      <4> DEFINE z == rest.out
      <4>1. args \in Texts /\ first \in BOOLEAN
        BY <1>0
      <4> HIDE DEF args, first, z
      <4>2. z \in Texts
        BY <3>1 DEF z
      <4>4. quote \in Texts /\ piece \in Texts
        BY <2>6
      <4>3. Joined(args, first, quote, piece, z)
        BY ONLY <4>1, <4>2, <4>4, ArgJoins
      <4> QED BY <4>3 DEF z, Joined
    <3>3. a.out = MemberOf(first, quote \o (piece \o quote), rest.out)
      BY <2>3, <2>6
    <3>4. r.calls[k + 1].args = args \o Member(first, quote)
      BY <1>10, <2>8
    <3>5. b[k + 1] = args \o a.out
      BY <1>6
    <3> HIDE DEF args
    <3> QED BY <3>2, <3>3, <3>4, <3>5, Zenon
  <2>10. ArgsAhead(t, rest, b, k, r.calls[k + 1].args \o (piece \o quote))
    BY <1>6, <2>3, <2>9 DEF ArgsAhead
  <2>11. Shows(t, r, b)
    BY <1>2, <1>7, <1>10 DEF Shows
  <2>12. ArgsHere(t, v + 3, FALSE) = rest
    BY DEF rest
  <2>13. ValueOn(t, b, r)
    BY <1>10, <2>4, <2>7, <2>10, <2>12 DEF ValueOn
  <2> QED BY <1>10, <2>1, <2>11, <2>13 DEF Followed
<1>11. CASE /\ r.tool.state = "params" /\ r.tool.pos = p /\ r.tool.index = k
            /\ r.tool.first = first /\ r.calls = o.calls
  <2>1. ArgsHere(t, p, first) = a
    <3>1. SkipWs(t, Len(t), p) = SkipWs(t, Len(t), pos)
      BY <1>3 DEF q
    <3> QED BY <3>1, SameSkip DEF a, ArgsHere
  <2>2. Shows(t, r, b)
    BY <1>2, <1>11 DEF Shows
  <2>3. ParamsOn(t, b, r)
    BY <1>2, <1>11, <2>1 DEF ParamsOn
  <2> QED BY <1>3, <1>11, <2>2, <2>3 DEF Followed
<1>12. CASE ~ends /\ ~part /\ (begins => e # NotFound /\ Attr(t, p, e) = "none") /\ r.tool.state = "error"
  <2>1. q = p /\ begins /\ attr \in {"str", "raw"}
    BY <1>3, <1>4, <1>5, <1>12
  <2>2. e = d /\ Attr(t, p, e) = "none"
    BY <1>8, <1>12, <2>1
  <2> QED BY <2>1, <2>2 DEF attr
<1> QED BY <1>7, <1>9, <1>10, <1>11, <1>12

-----------------------------------------------------------------------------
\* What may be shown of a value ends before its end marker and never between the two halves of an entity.
LEMMA ValueHolds ==
  ASSUME NEW t \in Texts, NEW n \in 0..Len(t), NEW start \in 0..n, NEW isString,
         NEW v \in Nat, start <= v, v + 3 > n, t[v + 1] = "<", t[v + 2] = "/"
  PROVE  LET r == ValueSafeLen(t, start, n, isString)
         IN  r <= v /\ (isString /\ start < r => ~(t[r] = "&" /\ t[r + 1] = Semicolon))
<1> DEFINE scan == IF n > start + 3 THEN n - 3 ELSE start
           cut == {p \in scan..(n - 1) : PartialLit(t, n, p, End("arg"), 1)}
           limit == IF cut = {} THEN n ELSE First(cut)
           hold == IF isString THEN EntitySafeLen(t, start, limit) ELSE limit
           r == Utf8SafeLen(t, start, hold)
<1>1. Len(t) \in Nat /\ n \in Nat /\ start \in Nat /\ n <= Len(t) /\ start <= n /\ "arg" \in Marks
      /\ scan \in start..n /\ scan \in Nat
  BY LenType, MarkNames
<1>2. \A p \in Nat : PartialLit(t, n, p, End("arg"), 1)
                       <=> (p + 1 = n /\ t[p + 1] = "<") \/ (p + 2 = n /\ t[p + 1] = "<" /\ t[p + 2] = "/")
  <2>1. 1 \in 0..2
    OBVIOUS
  <2> QED BY <1>1, <2>1, PartialEnd
<1>3. limit \in Nat /\ limit <= v /\ limit <= n
  <2>1. cut \in SUBSET Nat /\ \A p \in cut : p < n
    <3> HIDE DEF scan
    <3> QED BY <1>1
  <2>2. v < n => v \in cut
    <3> SUFFICES ASSUME v < n PROVE v \in cut
      OBVIOUS
    <3>1. v \in scan..(n - 1)
      BY <1>1
    <3>2. PartialLit(t, n, v, End("arg"), 1)
      BY <1>1, <1>2
    <3> QED BY <3>1, <3>2
  <2> HIDE DEF cut
  <2>3. cut # {} => First(cut) \in cut /\ \A p \in cut : First(cut) <= p
    BY <2>1, FirstIsLeast
  <2>4. CASE cut = {}
    <3>1. ~(v < n) /\ limit = n
      BY <2>2, <2>4
    <3> QED BY <1>1, <3>1
  <2>5. CASE cut # {}
    <3>1. limit = First(cut) /\ limit \in cut /\ (v < n => limit <= v)
      BY <2>2, <2>3, <2>5
    <3>2. limit \in Nat /\ limit < n
      BY <2>1, <3>1
    <3> QED BY <1>1, <3>1, <3>2
  <2> QED BY <2>4, <2>5
<1> HIDE DEF limit
<1>4. /\ hold \in Nat /\ hold <= limit
      /\ isString /\ start < hold => \/ hold = limit /\ t[hold] # "&"
                                     \/ hold + 1 = limit /\ t[hold + 1] = "&"
  BY <1>1, <1>3 DEF EntitySafeLen
<1> HIDE DEF hold
<1>5. r \in Nat /\ r <= hold /\ (start < r => r = hold \/ (r + 1 = hold /\ t[r + 1] = "u1"))
  BY <1>1, <1>4 DEF Utf8SafeLen
<1>6. Semicolon # "&" /\ Semicolon # "u1"
  BY Zenon DEF Semicolon
<1> HIDE DEF r
<1>7. isString /\ start < r => ~(t[r] = "&" /\ t[r + 1] = Semicolon)
  <2> SUFFICES ASSUME isString, start < r, t[r] = "&", t[r + 1] = Semicolon PROVE FALSE
    OBVIOUS
  <2>1. r = hold
    BY <1>5, <1>6
  <2> QED BY <1>1, <1>4, <1>6, <2>1
<1>8. ValueSafeLen(t, start, n, isString) = r
  BY DEF ValueSafeLen, r, hold, limit
<1> QED BY <1>1, <1>3, <1>4, <1>5, <1>7, <1>8

\* The piece of a value before a place is that before a place in it, and the rest.
Goes(o, r, t, to) == Piece(o, t, to) = Piece(o, t, r.tool.pos) \o Piece(r, t, to)

\* It is, when no entity is cut in two there.
LEMMA PieceJoins ==
  ASSUME NEW t \in Texts, NEW o, NEW r, NEW to \in 0..Len(t), o.tool.pos \in Nat,
         r.tool.pos \in 0..Len(t), r.tool.str = o.tool.str,
         o.tool.pos <= r.tool.pos, r.tool.pos <= to,
         o.tool.str /\ o.tool.pos < r.tool.pos => ~(t[r.tool.pos] = "&" /\ t[r.tool.pos + 1] = Semicolon)
  PROVE  Goes(o, r, t, to)
<1> DEFINE pos == o.tool.pos
           mid == r.tool.pos
           x == Cut(t, pos, mid)
           y == Cut(t, mid, to)
<1>0. mid \in Nat /\ to \in Nat /\ pos \in Nat /\ pos <= mid /\ mid <= to /\ mid \in 0..Len(t)
  BY LenType
<1>1. Cut(t, pos, to) = x \o y
  <2> HIDE DEF pos, mid
  <2> QED BY <1>0, CutJoins
<1>2. /\ x \in Texts /\ Len(x) = mid - pos /\ \A i \in 1..(mid - pos) : x[i] = t[pos + i]
      /\ y \in Texts /\ Len(y) = to - mid /\ \A i \in 1..(to - mid) : y[i] = t[mid + i]
  <2> HIDE DEF pos, mid
  <2> QED BY <1>0, CutIs
<1>3. Piece(o, t, to) = (IF o.tool.str THEN Unescape(x \o y) ELSE x \o y)
      /\ Piece(o, t, mid) = (IF o.tool.str THEN Unescape(x) ELSE x)
      /\ Piece(r, t, to) = (IF o.tool.str THEN Unescape(y) ELSE y)
  BY <1>1, Zenon DEF Piece
<1> HIDE DEF x, y
<1>4. o.tool.str => Unescape(x \o y) = Unescape(x) \o Unescape(y)
  <2> SUFFICES ASSUME o.tool.str PROVE Unescape(x \o y) = Unescape(x) \o Unescape(y)
    OBVIOUS
  <2>1. ~(Len(x) > 0 /\ Len(y) > 0 /\ x[Len(x)] = "&" /\ y[1] = Semicolon)
    <3> SUFFICES ASSUME Len(x) > 0, Len(y) > 0, x[Len(x)] = "&", y[1] = Semicolon PROVE FALSE
      OBVIOUS
    <3>1. pos < mid /\ mid < to /\ mid - pos \in 1..(mid - pos) /\ 1 \in 1..(to - mid) /\ pos + (mid - pos) = mid
      <4> DEFINE a == Len(x)
                 b == Len(y)
      <4>1. a = mid - pos /\ b = to - mid /\ a > 0 /\ b > 0
        BY <1>2
      <4> HIDE DEF a, b, pos, mid
      <4> QED BY ONLY <1>0, <4>1
    <3>2. x[mid - pos] = t[mid] /\ y[1] = t[mid + 1]
      BY <1>2, <3>1
    <3> QED BY <1>2, <3>1, <3>2
  <2> QED BY <1>2, <2>1, UnescapeConcat
<1>5. Piece(o, t, to) = Piece(o, t, mid) \o Piece(r, t, to)
  BY <1>3, <1>4
<1> QED BY <1>5 DEF Goes

\* The concatenation of four texts, grouped either way,
Regrouped(u, v, w, x) == u \o ((v \o w) \o x) = (u \o v) \o (w \o x)

\* is one and the same.
LEMMA Regroup ==
  ASSUME NEW u \in Texts, NEW v \in Texts, NEW w \in Texts, NEW x \in Texts
  PROVE  Regrouped(u, v, w, x)
<1>1. u \in Seq(Atom) /\ v \in Seq(Atom) /\ w \in Seq(Atom) /\ x \in Seq(Atom)
  BY DEF Texts
<1>2. (v \o w) \o x = v \o (w \o x)
  BY <1>1, ConcatAssociative
<1> DEFINE z == w \o x
<1>3. z \in Seq(Atom)
  BY <1>1
<1> HIDE DEF z
<1>4. (u \o v) \o z = u \o (v \o z)
  BY <1>1, <1>3, ConcatAssociative
<1> QED BY <1>2, <1>4 DEF z, Regrouped

\* A step in a value: a piece of it is shown, up to its end marker when that has been seen.
LEMMA FollowValue ==
  ASSUME NEW t \in Texts, Typed(t), NEW n \in 0..Len(t), NEW b, NEW s, Begins(t, s), NEW o, InTool(s, o),
         o.tool.state = "value", o.tool.pos <= n, Followed(t, b, o)
  PROVE  Followed(t, b, InValue(o, t, n))
<1> DEFINE r == InValue(o, t, n)
           m == Len(t)
           pos == o.tool.pos
           k == o.tool.index
           v == FindLit(t, m, pos, End("arg"))
           close == FindLit(t, n, pos, End("arg"))
           safe == ValueSafeLen(t, pos, n, o.tool.str)
           rest == ArgsHere(t, v + 3, FALSE)
           args == o.calls[k + 1].args
           quote == Quote(o)
<1>0. /\ m \in Nat /\ n \in Nat /\ pos \in Nat /\ n <= m /\ pos \in 0..n /\ pos \in 0..m /\ k \in Nat
      /\ "arg" \in Marks /\ args \in Texts
  <2>1. pos \in Nat /\ k \in Nat /\ Len(o.calls) = k + 1 /\ o.calls \in Seq(CallT)
    BY DEF InTool, OutT, ToolT, CallsFit, InCall
  <2>2. o.calls[k + 1] \in CallT
    BY <2>1
  <2>3. args \in Texts
    BY <2>2 DEF CallT
  <2>4. m \in Nat /\ n \in Nat /\ n <= m /\ pos \in 0..n /\ pos \in 0..m
    BY <2>1, LenType
  <2>5. "arg" \in Marks
    BY MarkNames
  <2> QED BY <2>1, <2>3, <2>4, <2>5
<1>1. NextPiece(o, t, n, r)
  BY InValueIs
<1>2. /\ Shows(t, o, b) /\ v # NotFound /\ v + 3 \in 0..m /\ ~o.tool.first /\ pos <= v
      /\ ArgsAhead(t, rest, b, k, args \o (Piece(o, t, v) \o quote))
  BY DEF Followed, InvokesOn, ParamsOn, ValueOn
<1>3. /\ v \in pos..m /\ v + 3 <= m /\ t[v + 1] = "<" /\ t[v + 2] = "/"
      /\ close # NotFound => v = close
      /\ close = NotFound => v + 3 > n
      /\ \A q \in pos..m : q <= v => FindLit(t, m, q, End("arg")) = v
  BY <1>0, <1>2, FindMore
<1>4. v \in Nat /\ v \in 0..m
  BY <1>0, <1>3
<1>5. /\ r.tool.index = k /\ r.tool.first = o.tool.first /\ \A i \in 1..k : r.calls[i] = o.calls[i]
      /\ \/ /\ close # NotFound /\ r.tool.state = "params" /\ r.tool.pos = close + 3
            /\ r.calls[k + 1].args = args \o (ValuePiece(o, t, close) \o quote)
         \/ /\ close = NotFound /\ safe \in pos..n
            /\ r.tool.state = "value" /\ r.tool.pos = safe /\ r.tool.str = o.tool.str
            /\ r.calls[k + 1].args = args \o ValuePiece(o, t, safe)
  <2> HIDE DEF r
  <2> QED BY <1>1 DEF NextPiece, OnlyArgs, Quote
<1>6. Shows(t, r, b)
  BY <1>2, <1>5 DEF Shows
<1> SUFFICES Followed(t, b, r)
  OBVIOUS
<1>7. quote \in Texts /\ Piece(o, t, v) \in Texts /\ Piece(o, t, v) = ValuePiece(o, t, v)
  <2>1. quote \in Texts
    BY QuoteIs
  <2> HIDE DEF v
  <2> QED BY <1>0, <1>2, <1>4, <2>1, PieceIs
<1>8. safe \in pos..n /\ close = NotFound
        => safe <= v /\ (o.tool.str /\ pos < safe => ~(t[safe] = "&" /\ t[safe + 1] = Semicolon))
  <2> SUFFICES ASSUME close = NotFound PROVE safe <= v /\ (o.tool.str /\ pos < safe => ~(t[safe] = "&" /\ t[safe + 1] = Semicolon))
    OBVIOUS
  <2>1. v + 3 > n
    BY <1>3
  <2> HIDE DEF v
  <2> QED BY <1>0, <1>2, <1>3, <1>4, <2>1, ValueHolds
<1> HIDE DEF r, v, close, safe, rest, quote
<1>9. CASE /\ close # NotFound /\ r.tool.state = "params" /\ r.tool.pos = close + 3
           /\ r.calls[k + 1].args = args \o (ValuePiece(o, t, close) \o quote)
  <2>1. v = close
    BY <1>3, <1>9
  <2>2. ArgsAhead(t, rest, b, k, r.calls[k + 1].args)
    BY <1>2, <1>7, <1>9, <2>1
  <2>3. r.tool.first = FALSE /\ r.tool.index = k
    <3>1. o.tool.first = FALSE
      BY <1>2 DEF InTool, OutT, ToolT
    <3> QED BY <1>5, <3>1
  <2>4. rest = ArgsHere(t, r.tool.pos, r.tool.first)
    BY <1>9, <2>1, <2>3 DEF rest
  <2>5. ParamsOn(t, b, r)
    BY <1>9, <2>2, <2>3, <2>4 DEF ParamsOn
  <2>6. r.tool.pos \in 0..Len(t)
    BY <1>2, <1>9, <2>1
  <2> QED BY <1>6, <2>5, <2>6 DEF Followed
<1>10. CASE /\ close = NotFound /\ safe \in pos..n
            /\ r.tool.state = "value" /\ r.tool.pos = safe /\ r.tool.str = o.tool.str
            /\ r.calls[k + 1].args = args \o ValuePiece(o, t, safe)
  <2>1. safe <= v /\ (o.tool.str /\ pos < safe => ~(t[safe] = "&" /\ t[safe + 1] = Semicolon))
    BY <1>8, <1>10
  <2>2. safe \in 0..m /\ safe \in Nat /\ safe \in pos..m /\ pos <= safe
    <3>1. m \in Nat /\ n \in Nat /\ n <= m /\ pos \in Nat /\ safe \in pos..n
      BY <1>0, <1>10
    <3> HIDE DEF m, pos
    <3> QED BY ONLY <3>1
  <2>3. FindLit(t, m, safe, End("arg")) = v
    BY <1>3, <2>1, <2>2
  <2> DEFINE x == Piece(o, t, safe)
             y == Piece(r, t, v)
  <2>4. x \in Texts /\ x = ValuePiece(o, t, safe)
    BY <1>0, <2>2, PieceIs
  <2>5. y \in Texts
    BY <1>4, <1>10, <2>1, <2>2, PieceIs
  <2>6. Piece(o, t, v) = x \o y
    <3>1. r.tool.pos \in 0..m /\ r.tool.str = o.tool.str /\ pos <= r.tool.pos /\ r.tool.pos <= v
          /\ (o.tool.str /\ pos < r.tool.pos => ~(t[r.tool.pos] = "&" /\ t[r.tool.pos + 1] = Semicolon))
      BY <1>10, <2>1, <2>2
    <3>2. Goes(o, r, t, v)
      BY <1>0, <1>4, <3>1, PieceJoins
    <3> QED BY <1>10, <3>2 DEF Goes
  <2>7. Quote(r) = quote
    BY <1>10 DEF Quote, quote
  <2>8. args \o ((x \o y) \o quote) = (args \o x) \o (y \o quote)
    <3>1. args \in Texts /\ x \in Texts /\ y \in Texts /\ quote \in Texts
      BY <1>0, <1>7, <2>4, <2>5
    <3> HIDE DEF x, y, args
    <3>2. Regrouped(args, x, y, quote)
      BY ONLY <3>1, Regroup
    <3> QED BY <3>2 DEF Regrouped
  <2>9. ArgsAhead(t, rest, b, k, r.calls[k + 1].args \o (y \o quote))
    <3>1. ArgsAhead(t, rest, b, k, args \o ((x \o y) \o quote))
      BY <1>2, <2>6
    <3> HIDE DEF x, y, args
    <3>2. r.calls[k + 1].args = args \o x
      BY <1>10, <2>4 DEF args
    <3> QED BY <2>8, <3>1, <3>2, Zenon
  <2>10. ValueOn(t, b, r)
    <3>1. ArgsHere(t, v + 3, FALSE) = rest
      BY DEF rest
    <3> QED BY <1>2, <1>5, <1>10, <2>1, <2>3, <2>7, <2>9, <3>1 DEF ValueOn
  <2> QED BY <1>6, <1>10, <2>2, <2>10 DEF Followed
<1> QED BY <1>5, <1>9, <1>10

-----------------------------------------------------------------------------
\* A round of the live projection.
LEMMA FollowRound ==
  ASSUME NEW t \in Texts, Typed(t), NEW n \in 0..Len(t), NEW b, NEW s, Begins(t, s), NEW o, InTool(s, o),
         Followed(t, b, o)
  PROVE  Followed(t, b, ToolRound(o, t, n))
<1>0. n \in Nat /\ o.tool.pos \in Nat
  BY LenType DEF InTool, OutT, ToolT
<1>1. CASE ~(ToolActive(o) /\ o.tool.pos < n)
  BY <1>1 DEF ToolRound
<1>2. CASE ToolActive(o) /\ o.tool.pos < n
  <2>1. ToolRound(o, t, n) = ToolStep(o, t, n) /\ o.tool.pos <= n
    BY <1>0, <1>2 DEF ToolRound
  <2>2. CASE o.tool.state = "invokes"
    <3>1. ToolStep(o, t, n) = BetweenCalls(o, t, n)
      BY <2>2 DEF ToolStep
    <3> QED BY <2>1, <2>2, <3>1, FollowCalls
  <2>3. CASE o.tool.state = "params"
    <3>1. ToolStep(o, t, n) = BetweenArgs(o, t, n)
      BY <2>3 DEF ToolStep
    <3> QED BY <2>1, <2>3, <3>1, FollowArgs
  <2>4. CASE o.tool.state = "value"
    <3>1. ToolStep(o, t, n) = InValue(o, t, n)
      BY <2>4 DEF ToolStep
    <3> QED BY <2>1, <2>4, <3>1, FollowValue
  <2> QED BY <1>2, <2>2, <2>3, <2>4 DEF ToolActive
<1> QED BY <1>1, <1>2

\* An update of the text sampled so far follows what any more of it will be parsed to.
LEMMA FollowUpdate ==
  ASSUME NEW t, NEW s, Begins(t, s), NEW n \in 0..Len(t), NEW more, Begins(more, s), Typed(more), n <= Len(more),
         NEW b, NEW o, InTool(s, o), Followed(more, b, o)
  PROVE  Followed(more, b, ToolUpdate(o, t, n))
<1> DEFINE S == {x \in OutT : InTool(s, x) /\ Followed(more, b, x)}
<1>0. n \in Nat /\ more \in Texts /\ n \in 0..Len(more) /\ t \in Texts
  BY LenType DEF Begins
<1>1. o \in S
  BY DEF InTool
<1>2. ASSUME NEW x \in S PROVE ToolRound(x, t, n) \in S
  <2> DEFINE r == ToolRound(x, t, n)
  <2>1. InTool(s, x) /\ Followed(more, b, x)
    BY <1>2
  <2>2. x.tool.pos \in Nat
    BY <2>1 DEF InTool, OutT, ToolT
  <2>3. r = ToolRound(x, s, n) /\ ToolRound(x, more, n) = ToolRound(x, s, n)
    BY <1>0, <2>2, BeginsRound
  <2>4. InTool(s, r)
    BY <2>1, ToolRoundKeeps
  <2>5. Followed(more, b, ToolRound(x, more, n))
    BY <1>0, <2>1, FollowRound
  <2> HIDE DEF r
  <2>6. r \in OutT /\ Followed(more, b, r)
    BY <2>3, <2>4, <2>5 DEF InTool
  <2> QED BY <2>4, <2>6 DEF r
<1>3. ToolUpdate(o, t, n) \in S
  <2> HIDE DEF S
  <2> QED BY <1>0, <1>1, <1>2, ToolUpdateIn
<1> QED BY <1>3

-----------------------------------------------------------------------------
(* Where the live projection waits, the block has little left.             *)


\* A marker that is whole is not one that has only begun.
LEMMA WholeNotPart ==
  ASSUME NEW t \in Texts, NEW n \in 0..Len(t), NEW p \in 0..n, NEW x \in Marks, NEW y \in Marks,
         FullLit(t, n, p, Start(y))
  PROVE  ~(PartialLit(t, n, p, End(x), 0) \/ PartialLit(t, n, p, Start(y), 0))
<1>0. Len(t) \in Nat /\ n \in Nat /\ p \in Nat /\ 0 \in 0..2
  BY LenType
<1>1. p + 2 <= n /\ t[p + 1] = "<" /\ t[p + 2] = y
  BY <1>0, FullStart
<1>2. PartialLit(t, n, p, Start(y), 0) <=> p = n \/ (p + 1 = n /\ t[p + 1] = "<")
  BY <1>0, PartialStart
<1>3. PartialLit(t, n, p, End(x), 0) <=> \/ p = n \/ (p + 1 = n /\ t[p + 1] = "<")
                                         \/ (p + 2 = n /\ t[p + 1] = "<" /\ t[p + 2] = "/")
  BY <1>0, PartialEnd
<1>4. y # "/"
  BY DEF Marks
<1> QED BY <1>0, <1>1, <1>2, <1>3, <1>4

\* A projection that waits within two atoms of the end of a block the parser can read has shown its calls.
LEMMA WaitingCalls ==
  ASSUME NEW t \in Texts, Typed(t), NEW n \in 0..Len(t), n + 2 >= Len(t), NEW b, NEW s, Begins(t, s),
         NEW o, InTool(s, o), o.tool.state = "invokes", Rests(o, t, n), Followed(t, b, o)
  PROVE  o.tool.index = Len(b) /\ n < Len(t)
<1> DEFINE m == Len(t)
           pos == o.tool.pos
           k == o.tool.index
           p == SkipWs(t, n, pos)
           q == SkipWs(t, m, pos)
           e == TagEnd(t, n, p)
           d == TagEnd(t, m, q)
           args == ParseArgs(t, d)
           c == ParseCalls(t, pos)
           ends == FullLit(t, n, p, End("tools"))
           begins == FullLit(t, n, p, Start("call"))
<1>0. /\ m \in Nat /\ n \in Nat /\ pos \in Nat /\ n <= m /\ k \in Nat
      /\ "tools" \in Marks /\ "call" \in Marks /\ n + 2 >= m
  <2>1. pos \in Nat /\ k \in Nat
    BY DEF InTool, OutT, ToolT
  <2>2. m \in Nat /\ n \in Nat /\ n <= m
    BY LenType
  <2> QED BY <2>1, <2>2, MarkNames
<1>1. CallsAhead(t, pos, b, k)
  BY DEF Followed, InvokesOn, ParamsOn, ValueOn
<1>2. pos \in 0..m /\ c.ok /\ Ahead(b, k, c.out)
  BY <1>1 DEF CallsAhead
<1>3. /\ q \in pos..m
      /\ \/ FullLit(t, m, q, End("tools")) /\ c.out = <<>> /\ q + 3 <= m
         \/ /\ FullLit(t, m, q, Start("call"))
            /\ d \in (q + 1)..m /\ args.next \in (d + 3)..m /\ args.next + 3 <= m
  BY <1>2, BlockIs
<1>4. q + 3 <= m /\ q \in Nat /\ (c.out # <<>> => d + 6 <= m /\ d \in Nat /\ q < d)
  <2> DEFINE x == args.next
  <2>1. CASE FullLit(t, m, q, End("tools")) /\ c.out = <<>> /\ q + 3 <= m
    BY <1>0, <1>3, <2>1
  <2>2. CASE d \in (q + 1)..m /\ x \in (d + 3)..m /\ x + 3 <= m
    <3> HIDE DEF x, d, q
    <3> QED BY <1>0, <1>3, <2>2
  <2> QED BY <1>3, <2>1, <2>2
<1>5. pos < n /\ pos \in 0..n
  <2> HIDE DEF q
  <2> QED BY <1>0, <1>3, <1>4
<1>6. /\ p \in pos..n /\ p \in 0..n /\ p \in 0..m /\ p \in Nat /\ (p < n => q = p) /\ SkipWs(t, m, p) = q
  <2>1. p \in pos..n /\ (p < n => q = p) /\ SkipWs(t, m, p) = q
    BY <1>5, SkipMore
  <2> HIDE DEF p
  <2> QED BY <1>0, <2>1
<1>7. ToolStep(o, t, n) = o /\ ToolStep(o, t, n) = BetweenCalls(o, t, n)
  BY <1>5 DEF Rests, ToolRound, ToolActive, ToolStep
<1>8. NextCall(o, t, n, BetweenCalls(o, t, n))
  BY <1>0, <1>5, BetweenCallsIs
<1>9. ~ends /\ (begins => e = NotFound) /\ p = pos
  <2>1. NextCall(o, t, n, o)
    BY <1>7, <1>8
  <2>2. begins => ~(PartialLit(t, n, p, End("tools"), 0) \/ PartialLit(t, n, p, Start("call"), 0))
    <3> HIDE DEF p
    <3> QED BY <1>0, <1>6, WholeNotPart
  <2> HIDE DEF p, ends, begins, e
  <2> QED BY <2>1, <2>2 DEF NextCall, p, ends, begins, e
<1>10. q = p
  <2>1. p < n
    <3> HIDE DEF q
    <3> QED BY <1>5, <1>9
  <2> QED BY <1>6, <2>1
<1>11. FullLit(t, m, p, End("tools")) /\ p + 3 <= n => ends
  <2> HIDE DEF p
  <2> QED BY <1>6, <1>0, SeenMore
<1>12. FullLit(t, m, p, Start("call")) /\ p + 2 <= n => begins
  <2> HIDE DEF p
  <2> QED BY <1>6, <1>0, SeenMore
<1>13. TagEnd(t, m, p) # NotFound /\ TagEnd(t, m, p) <= n => e # NotFound
  <2> HIDE DEF p
  <2> QED BY <1>6, TagMore
<1>14. c.out = <<>>
  <2> SUFFICES ASSUME c.out # <<>> PROVE FALSE
    OBVIOUS
  <2>1. d + 6 <= m /\ d \in Nat /\ q < d /\ FullLit(t, m, q, Start("call"))
    BY <1>3, <1>4
  <2>2. d = TagEnd(t, m, p)
    BY <1>10
  <2> HIDE DEF p, q, d
  <2>3. d <= n /\ p + 2 <= n /\ d # NotFound
    BY <1>0, <1>6, <1>10, <2>1 DEF NotFound
  <2> QED BY <1>9, <1>10, <1>12, <1>13, <2>1, <2>2, <2>3
<1>15. k = Len(b)
  <2>1. k \in Nat /\ Ahead(b, k, <<>>)
    BY <1>0, <1>2, <1>14
  <2> HIDE DEF k
  <2> QED BY <2>1, AheadEnd
<1>16. n < m
  <2>1. FullLit(t, m, q, End("tools"))
    <3>1. FullLit(t, m, q, End("tools")) \/ c.out # <<>>
      <4> SUFFICES ASSUME FullLit(t, m, q, Start("call")), d \in (q + 1)..m, args.next \in (d + 3)..m, args.next + 3 <= m,
                          ~FullLit(t, m, q, End("tools"))
                   PROVE FALSE
        BY <1>3
      <4> DEFINE x == args.next
      <4>1. x \in (d + 3)..m /\ x + 3 <= m
        OBVIOUS
      <4> HIDE DEF x, q, d
      <4>2. d + 6 <= m /\ d \in Nat /\ q < d
        BY <1>0, <1>4, <4>1
      <4>3. d = TagEnd(t, m, p)
        BY <1>10 DEF d
      <4> HIDE DEF p
      <4>4. d <= n /\ p + 2 <= n /\ d # NotFound
        BY <1>0, <1>6, <1>10, <4>2 DEF NotFound
      <4> QED BY <1>9, <1>10, <1>12, <1>13, <4>3, <4>4
    <3> QED BY <1>14, <3>1
  <2> HIDE DEF p, q
  <2> QED BY <1>0, <1>4, <1>9, <1>10, <1>11, <2>1
<1> QED BY <1>15, <1>16

\* A block that can be read ends behind the place it is read from,
LEMMA CallsEnd ==
  ASSUME NEW t \in Texts, Typed(t), NEW p, NEW b, NEW k, CallsAhead(t, p, b, k)
  PROVE  p \in Nat /\ p + 3 <= Len(t)
<1>1. p \in 0..Len(t) /\ ParseCalls(t, p).ok /\ Len(t) \in Nat
  BY LenType DEF CallsAhead
<1> DEFINE c == ParseCalls(t, p)
<1>2. BlockOn(t, p, c)
  BY <1>1, ParseCallsType
<1> HIDE DEF c
<1>3. c.next \in (p + 3)..Len(t)
  BY <1>1, <1>2 DEF BlockOn, c
<1> QED BY <1>1, <1>3

\* and so does a call.
LEMMA ArgsEnd ==
  ASSUME NEW t \in Texts, Typed(t), NEW p \in 0..Len(t), ArgsHere(t, p, FALSE).ok
  PROVE  ArgsHere(t, p, FALSE).next \in (p + 3)..Len(t)
<1>1. RestArgs(t)[p] = ArgsHere(t, p, FALSE)
  BY RestArgsIs DEF ArgsHere
<1>2. ReadsOn(t, p, RestArgs(t)[p])
  BY RestArgsType
<1> QED BY <1>1, <1>2 DEF ReadsOn

\* A projection that rests between two arguments has not seen the end of the call, so the block is not whole.
LEMMA WaitingArgs ==
  ASSUME NEW t \in Texts, Typed(t), NEW n \in 0..Len(t), n + 2 >= Len(t), NEW b, NEW s, Begins(t, s),
         NEW o, InTool(s, o), o.tool.state = "params", Rests(o, t, n), Followed(t, b, o)
  PROVE  FALSE
<1> DEFINE m == Len(t)
           pos == o.tool.pos
           first == o.tool.first
           p == SkipWs(t, n, pos)
           q == SkipWs(t, m, pos)
           e == TagEnd(t, n, p)
           d == TagEnd(t, m, q)
           v == FindLit(t, m, d, End("arg"))
           a == ArgsHere(t, pos, first)
           rest == ArgsHere(t, v + 3, FALSE)
           ends == FullLit(t, n, p, End("call"))
           begins == FullLit(t, n, p, Start("arg"))
<1>0. /\ m \in Nat /\ n \in Nat /\ pos \in Nat /\ n <= m /\ first \in BOOLEAN
      /\ "arg" \in Marks /\ "call" \in Marks /\ n + 2 >= m
  <2>1. pos \in Nat /\ first \in BOOLEAN
    BY DEF InTool, OutT, ToolT
  <2>2. m \in Nat /\ n \in Nat /\ n <= m
    BY LenType
  <2> QED BY <2>1, <2>2, MarkNames
<1>1. ArgsAhead(t, a, b, o.tool.index, o.calls[o.tool.index + 1].args) /\ pos \in 0..m
  BY DEF Followed, InvokesOn, ParamsOn, ValueOn
<1>2. a.ok /\ a.next \in Nat /\ a.next + 3 <= m
  <2> DEFINE x == a.next
  <2>1. a.ok /\ CallsAhead(t, x, b, o.tool.index + 1)
    BY <1>1 DEF ArgsAhead
  <2> HIDE DEF x
  <2>2. x \in Nat /\ x + 3 <= m
    BY <2>1, CallsEnd
  <2> QED BY <2>1, <2>2 DEF x
<1>3. /\ q \in pos..m
      /\ \/ FullLit(t, m, q, End("call")) /\ a.next = q + 3
         \/ /\ FullLit(t, m, q, Start("arg")) /\ d \in (q + 1)..m /\ v \in d..m /\ v + 3 <= m
            /\ rest.ok /\ a.next = rest.next
  BY <1>0, <1>1, <1>2, ArgsHereIs
<1> HIDE DEF a
<1>4. /\ q \in Nat /\ q + 6 <= m
      /\ ~FullLit(t, m, q, End("call")) => d \in Nat /\ d + 9 <= m /\ q < d /\ FullLit(t, m, q, Start("arg"))
  <2>1. CASE FullLit(t, m, q, End("call")) /\ a.next = q + 3
    <3> HIDE DEF q
    <3> QED BY <1>0, <1>2, <1>3, <2>1
  <2>2. CASE FullLit(t, m, q, Start("arg")) /\ d \in (q + 1)..m /\ v \in d..m /\ v + 3 <= m
             /\ rest.ok /\ a.next = rest.next
    <3> HIDE DEF q, d, v
    <3>1. v \in Nat /\ v + 3 \in 0..m /\ d \in Nat /\ q \in Nat /\ q < d /\ d <= v
      BY <1>0, <1>3, <2>2
    <3>2. rest.next \in ((v + 3) + 3)..m
      BY <2>2, <3>1, ArgsEnd
    <3> HIDE DEF rest
    <3> QED BY <1>0, <1>2, <2>2, <3>1, <3>2
  <2> QED BY <1>3, <2>1, <2>2
<1>5. pos < n /\ pos \in 0..n
  <2> HIDE DEF q, d
  <2> QED BY <1>0, <1>3, <1>4
<1>6. /\ p \in pos..n /\ p \in 0..n /\ p \in Nat /\ (p < n => q = p)
  <2>1. p \in pos..n /\ (p < n => q = p)
    BY <1>5, SkipMore
  <2> HIDE DEF p
  <2> QED BY <1>0, <2>1
<1>7. ToolStep(o, t, n) = o /\ ToolStep(o, t, n) = BetweenArgs(o, t, n)
  BY <1>5 DEF Rests, ToolRound, ToolActive, ToolStep
<1>8. NextArg(o, t, n, BetweenArgs(o, t, n))
  BY <1>0, <1>5, BetweenArgsIs
<1>9. ~ends /\ (begins => e = NotFound) /\ p = pos
  <2>1. NextArg(o, t, n, o)
    BY <1>7, <1>8
  <2>2. begins => ~(PartialLit(t, n, p, End("call"), 0) \/ PartialLit(t, n, p, Start("arg"), 0))
    <3> HIDE DEF p
    <3> QED BY <1>0, <1>6, WholeNotPart
  <2> HIDE DEF p, ends, begins, e
  <2> QED BY <2>1, <2>2 DEF NextArg, p, ends, begins, e
<1>10. q = p
  <2>1. p < n
    <3> HIDE DEF q
    <3> QED BY <1>5, <1>9
  <2> QED BY <1>6, <2>1
<1>11. FullLit(t, m, p, End("call")) /\ p + 3 <= n => ends
  <2> HIDE DEF p
  <2> QED BY <1>6, <1>0, SeenMore
<1>12. FullLit(t, m, p, Start("arg")) /\ p + 2 <= n => begins
  <2> HIDE DEF p
  <2> QED BY <1>6, <1>0, SeenMore
<1>13. TagEnd(t, m, p) # NotFound /\ TagEnd(t, m, p) <= n => e # NotFound
  <2> HIDE DEF p
  <2> QED BY <1>6, TagMore
<1>14. d = TagEnd(t, m, p)
  BY <1>10
<1> HIDE DEF p, q, d
<1>15. p + 3 <= n /\ p + 2 <= n /\ (~FullLit(t, m, q, End("call")) => d <= n /\ d # NotFound)
  BY <1>0, <1>4, <1>6, <1>10 DEF NotFound
<1> QED BY <1>4, <1>9, <1>10, <1>11, <1>12, <1>13, <1>14, <1>15

\* One that rests in a value has not seen the end of the argument.
LEMMA WaitingValue ==
  ASSUME NEW t \in Texts, Typed(t), NEW n \in 0..Len(t), n + 2 >= Len(t), NEW b, NEW s, Begins(t, s),
         NEW o, InTool(s, o), o.tool.state = "value", Rests(o, t, n), Followed(t, b, o)
  PROVE  FALSE
<1> DEFINE m == Len(t)
           pos == o.tool.pos
           v == FindLit(t, m, pos, End("arg"))
           close == FindLit(t, n, pos, End("arg"))
           rest == ArgsHere(t, v + 3, FALSE)
<1>0. /\ m \in Nat /\ n \in Nat /\ pos \in Nat /\ n <= m /\ "arg" \in Marks /\ n + 2 >= m
  <2>1. pos \in Nat
    BY DEF InTool, OutT, ToolT
  <2>2. m \in Nat /\ n \in Nat /\ n <= m
    BY LenType
  <2> QED BY <2>1, <2>2, MarkNames
<1>1. /\ v # NotFound /\ v + 3 \in 0..m /\ pos <= v /\ pos \in 0..m
      /\ rest.ok /\ CallsAhead(t, rest.next, b, o.tool.index + 1)
  BY DEF Followed, InvokesOn, ParamsOn, ValueOn, ArgsAhead
<1>2. v \in Nat
  <2>1. v \in pos..m
    BY <1>1, <1>0, FindMore
  <2> QED BY <1>0, <2>1
<1>3. rest.next \in ((v + 3) + 3)..m /\ rest.next + 3 <= m
  <2> HIDE DEF v
  <2> QED BY <1>1, ArgsEnd, CallsEnd
<1>4. v + 3 <= n /\ pos < n /\ pos \in 0..n
  <2> HIDE DEF v, rest
  <2> QED BY <1>0, <1>1, <1>2, <1>3
<1>5. close # NotFound
  <2>1. close = NotFound /\ v # NotFound => v + 3 > n
    BY <1>0, <1>4, FindMore
  <2> HIDE DEF v, close
  <2> QED BY <1>0, <1>1, <1>2, <1>4, <2>1
<1>6. ToolStep(o, t, n) = o /\ ToolStep(o, t, n) = InValue(o, t, n)
  BY <1>4 DEF Rests, ToolRound, ToolActive, ToolStep
<1>7. NextPiece(o, t, n, InValue(o, t, n))
  BY <1>0, <1>4, InValueIs
<1>8. NextPiece(o, t, n, o)
  BY <1>6, <1>7
<1> QED BY <1>5, <1>8 DEF NextPiece

\* So it waits, if it does, at the end of the block, and an end that is whole it takes.
LEMMA WaitingIs ==
  ASSUME NEW t \in Texts, Typed(t), NEW n \in 0..Len(t), n + 2 >= Len(t), NEW b, NEW s, Begins(t, s),
         NEW o, InTool(s, o), ToolActive(o), Rests(o, t, n), Followed(t, b, o)
  PROVE  o.tool.index = Len(b) /\ n < Len(t) /\ o.tool.state = "invokes"
<1>1. o.tool.state = "invokes"
  BY WaitingArgs, WaitingValue DEF ToolActive
<1> QED BY <1>1, WaitingCalls

-----------------------------------------------------------------------------
\* The block of a text.
Taken(t) == ParseCalls(t, ToolStart(t) + 2)

\* A text whose block can be read.
Readable(t) == Typed(t) /\ ToolStart(t) # NotFound /\ Taken(t).ok

\* What has been shown of a block is what will be read, wherever the text will end behind m.
Follows(s, m, o) ==
  o.tool.state # "none" =>
    /\ req.tools /\ ToolStart(s) # NotFound /\ ToolStart(s) + 2 <= m
    /\ \A j \in m..Len(s) :
         LET more == SubSeq(s, 1, j)
         IN  Readable(more) => Followed(more, Taken(more).out, o)

\* Only what is kept of the block counts.
LEMMA SameFollowed ==
  ASSUME NEW t, NEW b, NEW o, NEW r, r.tool = o.tool, r.calls = o.calls, Followed(t, b, o)
  PROVE  Followed(t, b, r)
<1>1. /\ Shows(t, r, b) <=> Shows(t, o, b)
      /\ InvokesOn(t, b, r) <=> InvokesOn(t, b, o)
      /\ ParamsOn(t, b, r) <=> ParamsOn(t, b, o)
  BY Zenon DEF Shows, InvokesOn, ParamsOn
<1>2. /\ \A v : Piece(r, t, v) = Piece(o, t, v)
      /\ Quote(r) = Quote(o)
  BY Zenon DEF Piece, Quote
<1>3. ValueOn(t, b, r) <=> ValueOn(t, b, o)
  BY Zenon, <1>2 DEF ValueOn
<1> QED BY Zenon, <1>1, <1>3 DEF Followed

\* The place of the block does not depend on where the text ends.
LEMMA StartIs ==
  ASSUME NEW t, NEW s, Begins(t, s), ToolStart(t) # NotFound
  PROVE  /\ ToolStart(t) = ToolStart(s) /\ ToolStart(s) # NotFound
         /\ ToolStart(s) \in Nat /\ ToolStart(s) + 2 <= Len(t)
BY MarksGrow

\* A block that begins is followed, whatever its calls.
LEMMA FollowsEnter ==
  ASSUME NEW more, NEW s, Begins(more, s), Readable(more), NEW o, o.tool = ToolInit(ToolStart(s) + 2)
  PROVE  Followed(more, Taken(more).out, o)
<1> DEFINE a == ToolStart(s)
           p == a + 2
           c == ParseCalls(more, p)
           b == c.out
<1>1. ToolStart(more) = a /\ a \in Nat /\ p <= Len(more)
  BY StartIs DEF Readable
<1>2. Len(more) \in Nat /\ more \in Texts
  BY LenType DEF Begins
<1> HIDE DEF a
<1>3. p \in 0..Len(more) /\ p \in Nat
  BY <1>1, <1>2
<1>4. Taken(more) = c /\ c.ok /\ Typed(more)
  BY <1>1 DEF Readable, Taken
<1>5. o.tool = ToolInit(p)
  BY DEF a
<1> HIDE DEF p
<1>6. /\ o.tool.state = "invokes" /\ o.tool.pos = p /\ o.tool.index = 0
  BY <1>3, <1>5, ToolInitIs
<1>7. BlockOn(more, p, c)
  BY <1>2, <1>3, <1>4, ParseCallsType
<1>8. b \in Seq(Texts)
  <2> HIDE DEF c
  <2> QED BY <1>7 DEF BlockOn, BlockT
<1>9. Ahead(b, 0, b)
  <2> HIDE DEF b
  <2>1. Len(b) \in Nat
    BY <1>8
  <2>2. Len(b) = 0 + Len(b) /\ \A i \in 1..Len(b) : 0 + i = i
    BY <2>1
  <2> QED BY <2>2 DEF Ahead
<1>10. CallsAhead(more, p, b, 0)
  BY <1>3, <1>4, <1>9 DEF CallsAhead
<1> HIDE DEF b
<1>11. Shows(more, o, b)
  BY <1>6 DEF Shows
<1> QED BY <1>3, <1>4, <1>6, <1>10, <1>11 DEF Followed, InvokesOn, b

\* What holds of the text from m on holds of it from a later place on.
LEMMA FollowsMore ==
  ASSUME NEW s \in Texts, NEW m \in Nat, NEW k \in Nat, m <= k, NEW o, Follows(s, m, o)
  PROVE  Follows(s, k, o)
<1> SUFFICES ASSUME o.tool.state # "none"
             PROVE  /\ req.tools /\ ToolStart(s) # NotFound /\ ToolStart(s) + 2 <= k
                    /\ \A j \in k..Len(s) :
                         LET more == SubSeq(s, 1, j)
                         IN  Readable(more) => Followed(more, Taken(more).out, o)
  BY DEF Follows
<1>1. /\ req.tools /\ ToolStart(s) # NotFound /\ ToolStart(s) + 2 <= m
      /\ \A j \in m..Len(s) :
           LET more == SubSeq(s, 1, j)
           IN  Readable(more) => Followed(more, Taken(more).out, o)
  BY DEF Follows
<1>2. ToolStart(s) \in Nat /\ Len(s) \in Nat
  BY <1>1, MarkIs, LenType
<1>3. ToolStart(s) + 2 <= k /\ \A j \in k..Len(s) : j \in m..Len(s)
  BY <1>1, <1>2
<1> QED BY <1>1, <1>3

\* No block has been begun, or the one that was is left as it is.
LEMMA ThinkingTool ==
  ASSUME NEW s, NEW t, NEW n, NEW last, Looks(s, t, n, last), NEW m, Within(t, n, m),
         NEW o, Fits(s, m, o), req.tools \in BOOLEAN
  PROVE  LET c == AfterThinking(o, t, n, last)
         IN  c = o \/ (c.tool.state = "none" /\ c.mode # "tool")
<1> DEFINE k == CheckThinkPrefix(o, t, n, last)
           c == AfterThinking(o, t, n, last)
<1>1. CASE o.mode = "thinking"
  <2>1. Fits(s, m, k) /\ k.mode = "thinking"
    BY <1>1, CheckIs
  <2>2. c = IF k.checked THEN Thinking(k, t, n, last) ELSE k
    BY <1>1 DEF AfterThinking, ThinkingPart
  <2> HIDE DEF k, c
  <2>3. ASSUME NEW r, Fits(s, m, r), r.mode \in {"thinking", "text"} \/ (r.mode = "suppress" /\ NoTool(r))
        PROVE  r.tool.state = "none" /\ r.mode # "tool"
    BY <2>3, ToolIdleIs DEF Fits, NoTool
  <2>4. CASE k.checked
    <3> DEFINE r == Thinking(k, t, n, last)
    <3>1. Fits(s, m, r) /\ (r.mode \in {"thinking", "text"} \/ (r.mode = "suppress" /\ NoTool(r)))
      BY <2>1, <2>4, ThinkingIs
    <3> HIDE DEF r
    <3>2. r.tool.state = "none" /\ r.mode # "tool"
      BY <2>3, <3>1
    <3> QED BY <2>2, <2>4, <3>2 DEF r, c
  <2>5. CASE ~k.checked
    <3>1. k.tool.state = "none" /\ k.mode # "tool"
      BY <2>1, <2>3
    <3> QED BY <2>2, <2>5, <3>1 DEF c
  <2> QED BY <2>4, <2>5
<1>2. CASE o.mode # "thinking"
  BY <1>2 DEF AfterThinking
<1> QED BY <1>1, <1>2

\* A tool block has been begun where it stands in the text, or none has.
LEMMA TextTool ==
  ASSUME NEW s, NEW t, NEW n, NEW last, Looks(s, t, n, last), NEW m, Within(t, n, m),
         NEW c, Fits(s, m, c), c.mode = "text", req.tools \in BOOLEAN,
         Prose(s, TextPart(c, t, n, last))
  PROVE  LET u == TextPart(c, t, n, last)
         IN  \/ u.tool.state = "none" /\ u.mode # "tool"
             \/ /\ u.mode = "tool" /\ u.tool = ToolInit(ToolStart(s) + 2)
                /\ req.tools /\ ToolStart(s) # NotFound /\ ToolStart(s) + 2 <= m
<1> DEFINE r == TextPart(c, t, n, last)
           tool == IF req.tools THEN FindLit(t, Len(t), c.pos, Start("tools")) ELSE NotFound
<1>1. /\ Fits(s, m, r)
      /\ \/ /\ tool # NotFound /\ r.pos = tool
            /\ \/ r.mode = "tool" /\ r.tool = ToolInit(tool + 2)
               \/ r.mode = "suppress" /\ NoTool(r)
         \/ r.mode = "suppress" /\ NoTool(r)
         \/ r.mode = "text"
  BY TextPartIs
<1>2. /\ Begins(t, s) /\ s \in Texts /\ t \in Texts /\ Len(t) \in Nat /\ Len(s) \in Nat
      /\ n \in 0..Len(t) /\ n \in Nat /\ m \in n..Len(t) /\ m \in Nat
  BY LenType DEF Looks, Begins, Within
<1>3. ASSUME tool # NotFound PROVE req.tools /\ ToolStart(s) # NotFound /\ tool + 2 <= m
  <2>1. req.tools /\ tool = FindLit(t, Len(t), c.pos, Start("tools")) /\ c.pos \in Nat
    BY <1>3 DEF Fits, OutT
  <2> HIDE DEF tool, r
  <2>2. tool = NotFound \/ (tool \in c.pos..Len(t) /\ FullLit(t, Len(t), tool, Start("tools")))
    BY <1>2, <2>1, FindLitIs
  <2>3. tool \in Nat /\ FullLit(t, Len(t), tool, Start("tools")) /\ tool + 2 <= m
    BY <1>2, <1>3, <2>1, <2>2 DEF Within
  <2>4. Start("tools") \in Seq(Atom)
    BY MarkNames, MarkerType
  <2> DEFINE lit == Start("tools")
  <2> HIDE DEF lit
  <2>5. FullLit(t, Len(t), tool, lit) /\ lit \in Seq(Atom)
    BY <2>3, <2>4 DEF lit
  <2>6. FindLit(s, Len(s), 0, lit) # NotFound
    BY ONLY <1>2, <2>3, <2>5, FoundIn
  <2> QED BY <2>1, <2>3, <2>6 DEF ToolStart, lit
<1>4. r.mode \in {"text", "suppress"} /\ (r.mode = "suppress" => NoTool(r)) => r.tool.state = "none"
  <2> HIDE DEF r
  <2> QED BY <1>1, ToolIdleIs DEF Fits, NoTool
<1>5. r.mode = "tool" /\ req.tools /\ ToolStart(s) # NotFound => r.pos = ToolStart(s)
  <2> HIDE DEF r
  <2>1. Prose(s, r)
    BY DEF r
  <2> QED BY <2>1 DEF Prose
<1> HIDE DEF r, tool
<1>6. CASE r.mode = "tool"
  BY <1>1, <1>3, <1>5, <1>6 DEF r
<1>7. CASE r.mode # "tool"
  BY <1>1, <1>4, <1>7 DEF r
<1> QED BY <1>6, <1>7

\* An update shows of a block what will be read.
LEMMA UpdateFollows ==
  ASSUME NEW s, NEW t, NEW n, NEW last, Looks(s, t, n, last), NEW m, Within(t, n, m), Sees(t, n),
         NEW o, Fits(s, m, o), req.tools \in BOOLEAN, Shaped(s), Prose(s, o), Follows(s, m, o)
  PROVE  Follows(s, m, Update(o, t, n, last))
<1> DEFINE c == AfterThinking(o, t, n, last)
           u == AfterText(c, t, n, last)
<1>1. Fits(s, m, c) /\ Fits(s, m, u)
  BY UpdateFits
<1>2. Prose(s, c) /\ Prose(s, u)
  BY ProseParts
<1>3. /\ Begins(t, s) /\ s \in Texts /\ t \in Texts /\ Len(t) \in Nat /\ Len(s) \in Nat
      /\ n \in 0..Len(t) /\ n \in Nat /\ m \in n..Len(t) /\ m \in Nat
  BY LenType DEF Looks, Begins, Within
<1>4. c = o \/ (c.tool.state = "none" /\ c.mode # "tool")
  BY ThinkingTool
<1>5. ASSUME NEW j \in m..Len(s)
      PROVE  Begins(SubSeq(s, 1, j), s) /\ Len(SubSeq(s, 1, j)) = j
  <2>1. j \in 0..Len(s)
    BY <1>3
  <2> QED BY <1>3, <2>1, SampledBegins
<1> HIDE DEF c
<1>6. Follows(s, m, c)
  BY <1>4 DEF Follows
<1>7. Follows(s, m, u)
  <2>1. CASE c.mode = "text"
    <3>1. u = TextPart(c, t, n, last)
      BY <2>1 DEF AfterText
    <3> DEFINE r == TextPart(c, t, n, last)
    <3>2. \/ r.tool.state = "none"
          \/ /\ r.tool = ToolInit(ToolStart(s) + 2)
             /\ req.tools /\ ToolStart(s) # NotFound /\ ToolStart(s) + 2 <= m
      BY <1>1, <1>2, <2>1, <3>1, TextTool
    <3> HIDE DEF r, u
    <3>3. ASSUME r.tool = ToolInit(ToolStart(s) + 2), NEW j \in m..Len(s), Readable(SubSeq(s, 1, j))
          PROVE  Followed(SubSeq(s, 1, j), Taken(SubSeq(s, 1, j)).out, r)
      BY <1>5, <3>3, FollowsEnter
    <3>4. Follows(s, m, r)
      BY <3>2, <3>3 DEF Follows
    <3> QED BY <3>1, <3>4 DEF r
  <2>2. CASE c.mode # "text"
    BY <1>6, <2>2 DEF AfterText
  <2> QED BY <2>1, <2>2
<1> HIDE DEF u
<1>8. ASSUME u.mode = "tool" PROVE Follows(s, m, ToolPart(u, t, n))
  <2> DEFINE r == ToolPart(u, t, n)
             done == ToolUpdate(u, t, n)
  <2>1. r.tool = done.tool /\ r.calls = done.calls
    BY <1>1, <1>8, ToolPartIs
  <2>2. InTool(s, u) /\ u.tool.state # "none"
    BY <1>1, <1>8 DEF Fits, InTool
  <2>3. /\ req.tools /\ ToolStart(s) # NotFound /\ ToolStart(s) + 2 <= m
        /\ \A j \in m..Len(s) :
             LET more == SubSeq(s, 1, j)
             IN  Readable(more) => Followed(more, Taken(more).out, u)
    BY <1>7, <2>2 DEF Follows
  <2>4. ASSUME NEW j \in m..Len(s), Readable(SubSeq(s, 1, j))
        PROVE  Followed(SubSeq(s, 1, j), Taken(SubSeq(s, 1, j)).out, r)
    <3> DEFINE more == SubSeq(s, 1, j)
               b == Taken(more).out
    <3>1. Followed(more, b, u) /\ Typed(more) /\ Begins(more, s) /\ Len(more) = j
      BY <1>5, <2>3, <2>4 DEF Readable
    <3> HIDE DEF more, b, done, r
    <3>2. n <= Len(more)
      BY <1>3, <3>1
    <3>3. Followed(more, b, done)
      BY <1>3, <2>2, <3>1, <3>2, FollowUpdate DEF done
    <3>4. Followed(more, b, r)
      BY <2>1, <3>3, SameFollowed
    <3> QED BY <3>4 DEF more, b
  <2> HIDE DEF r
  <2> QED BY <2>3, <2>4 DEF Follows, r
<1>9. Update(o, t, n, last) = IF u.mode = "tool" THEN ToolPart(u, t, n) ELSE u
  BY UpdateParts DEF c, u
<1> QED BY <1>7, <1>8, <1>9

\* What a text shows of its shape is the shape of all it can become.
LEMMA ShapeGrows ==
  ASSUME NEW t, NEW s, Begins(t, s), Shaped(t)
  PROVE  /\ Shaped(s)
         /\ req.think => Opened(t) # NotFound /\ Opened(t) = Opened(s)
<1> SUFFICES ASSUME req.think
             PROVE  Opened(s) # NotFound /\ (ToolStart(s) = NotFound \/ Opened(s) < ToolStart(s))
                    /\ Opened(t) # NotFound /\ Opened(t) = Opened(s)
  BY DEF Shaped
<1>1. Opened(t) # NotFound /\ (ToolStart(t) = NotFound \/ Opened(t) < ToolStart(t))
  BY DEF Shaped
<1>2. Len(t) \in Nat
  BY LenType DEF Begins
<1> QED BY <1>1, <1>2, MarksGrow

\* A block that has been sampled is taken for one, and followed as far as may be looked at.
LEMMA UpdateCaught ==
  ASSUME NEW s, NEW t, NEW n, NEW last, Looks(s, t, n, last), NEW m, Within(t, n, m), Sees(t, n),
         NEW o, Fits(s, m, o), req.tools, req.tools \in BOOLEAN, Shaped(s), Prose(s, o),
         ToolStart(s) # NotFound, ToolStart(s) + 2 <= Len(t), req.think => last \/ n >= 2
  PROVE  LET r == Update(o, t, n, last)
         IN  r.mode \in {"tool", "suppress"} /\ (r.mode = "tool" => Rests(r, t, n))
<1> DEFINE k == CheckThinkPrefix(o, t, n, last)
           c == AfterThinking(o, t, n, last)
           u == AfterText(c, t, n, last)
           a == ToolStart(s)
<1>1. Fits(s, m, c) /\ Fits(s, m, u) /\ Prose(s, c) /\ Prose(s, u)
  BY UpdateFits, ProseParts
<1>2. /\ Begins(t, s) /\ s \in Texts /\ t \in Texts /\ Len(t) \in Nat /\ Len(s) \in Nat
      /\ n \in 0..Len(t) /\ n \in Nat /\ m \in n..Len(t) /\ m \in Nat
  BY LenType DEF Looks, Begins, Within
<1>3. /\ a \in Nat /\ From(s) \in Nat /\ From(s) <= a /\ Ends(s) <= a
      /\ req.think => Opened(s) \in Nat /\ From(s) = Opened(s) + 3
  BY <1>2, ShapeIs DEF From
<1>4. c.mode # "thinking"
  <2>1. CASE o.mode = "thinking"
    <3> DEFINE waits == ~last /\ PartialLit(t, n, 0, Start("think"), 0)
    <3>1. /\ Fits(s, m, k) /\ k.mode = "thinking" /\ Prose(s, k)
          /\ ((o.checked \/ waits) /\ k = o) \/ k.checked
      BY <2>1, CheckIs, ProseCheck
    <3>2. ~waits
      <4>1. PartialLit(t, n, 0, Start("think"), 0) <=> 0 = n \/ (0 + 1 = n /\ t[0 + 1] = "<")
        <5>1. 0 \in Nat /\ 0 <= n
          BY <1>2
        <5> QED BY <1>2, <5>1, MarkNames, PartialStart
      <4>2. req.think
        BY <3>1 DEF Prose
      <4> QED BY <1>2, <4>1, <4>2
    <3>3. k.checked
      BY <3>1, <3>2
    <3>4. c = Thinking(k, t, n, last)
      BY <2>1, <3>3 DEF AfterThinking, ThinkingPart
    <3>5. req.think /\ k.pos <= Opened(s) /\ k.pos \in Nat
      BY <3>1 DEF Prose, Fits, OutT
    <3> DEFINE lit == End("think")
               close == FindLit(t, Len(t), k.pos, lit)
    <3>6. close # NotFound
      <4>1. lit \in Seq(Atom) /\ Len(lit) = 3
        BY MarkNames, MarkerType
      <4>2. Opened(s) = FindLit(s, Len(s), 0, lit)
        BY DEF Opened
      <4> HIDE DEF lit, k
      <4> DEFINE f == FindLit(s, Len(s), 0, lit)
                 kp == k.pos
      <4> HIDE DEF kp
      <4>3. kp \in Nat /\ (f # NotFound => kp <= f)
        BY <3>5, <4>2 DEF kp
      <4>4. FindLit(t, Len(t), kp, lit) = NotFound /\ f # NotFound => f \in Nat /\ f + Len(lit) > Len(t)
        BY ONLY <1>2, <4>1, <4>3, SearchIs
      <4>5. close = FindLit(t, Len(t), kp, lit)
        BY DEF kp
      <4>6. f # NotFound /\ f + 3 <= Len(t)
        <5>1. f \in Nat /\ f + 3 <= a
          BY <1>3, <3>5, <4>2
        <5> HIDE DEF f
        <5> QED BY <1>2, <1>3, <5>1 DEF NotFound
      <4> HIDE DEF f, close
      <4> QED BY <1>2, <4>1, <4>4, <4>5, <4>6
    <3> DEFINE r == Thinking(k, t, n, last)
    <3>7. r.mode = "text"
      BY <3>1, <3>3, <3>6, ThinkingIs
    <3> HIDE DEF r, k, c
    <3> QED BY <3>4, <3>7 DEF r
  <2>2. CASE o.mode # "thinking"
    BY <2>2 DEF AfterThinking
  <2> QED BY <2>1, <2>2
<1> HIDE DEF c
<1>5. u.mode \in {"tool", "suppress"}
  <2>1. CASE c.mode = "text"
    <3> DEFINE lit == Start("tools")
               cp == c.pos
               f == FindLit(s, Len(s), 0, lit)
               tool == IF req.tools THEN FindLit(t, Len(t), c.pos, Start("tools")) ELSE NotFound
               r == TextPart(c, t, n, last)
    <3>1. cp \in Nat /\ cp <= a
      <4>1. cp \in From(s)..Ends(s) /\ Ends(s) \in Nat
        BY <1>1, <1>2, <2>1, ShapeIs DEF Prose
      <4> HIDE DEF cp
      <4> QED BY <1>3, <4>1
    <3>2. lit \in Seq(Atom) /\ Len(lit) = 2
      BY MarkNames, MarkerType
    <3>3. a = f /\ tool = FindLit(t, Len(t), cp, lit)
      BY DEF ToolStart
    <3>4. tool # NotFound
      <4> HIDE DEF lit, cp
      <4>1. f # NotFound => cp <= f
        <5> HIDE DEF f, a
        <5> QED BY <3>1, <3>3
      <4>2. FindLit(t, Len(t), cp, lit) = NotFound /\ f # NotFound => f \in Nat /\ f + Len(lit) > Len(t)
        BY ONLY <1>2, <3>1, <3>2, <4>1, SearchIs
      <4> HIDE DEF f, tool
      <4> QED BY <1>2, <1>3, <3>2, <3>3, <4>2
    <3>5. r.mode \in {"tool", "suppress"}
      <4>1. Fits(s, m, c) /\ c.mode = "text"
        BY <1>1, <2>1
      <4>2. \/ /\ tool # NotFound /\ r.pos = tool
               /\ \/ r.mode = "tool" /\ r.tool = ToolInit(tool + 2)
                  \/ r.mode = "suppress" /\ NoTool(r)
            \/ r.mode = "suppress" /\ NoTool(r)
            \/ tool = NotFound /\ r.mode = "text"
        BY ONLY <4>1, Looks(s, t, n, last), Within(t, n, m), req.tools \in BOOLEAN, TextPartIs
      <4> HIDE DEF r, tool
      <4> QED BY <3>4, <4>2
    <3>6. u = r
      BY <2>1 DEF AfterText
    <3> HIDE DEF r, u
    <3> QED BY <3>5, <3>6
  <2>2. CASE c.mode # "text"
    <3>1. u = c
      BY <2>2 DEF AfterText
    <3> HIDE DEF u
    <3> QED BY <1>1, <1>4, <2>2, <3>1 DEF Fits
  <2> QED BY <2>1, <2>2
<1> HIDE DEF u
<1>6. ASSUME u.mode = "tool"
      PROVE  LET r == ToolPart(u, t, n)
             IN  r.mode \in {"tool", "suppress"} /\ (r.mode = "tool" => Rests(r, t, n))
  <2> DEFINE r == ToolPart(u, t, n)
             done == ToolUpdate(u, t, n)
  <2>1. r.mode = IF ToolActive(done) THEN "tool" ELSE "suppress"
    BY <1>1, <1>6, ToolPartIs
  <2>2. InTool(s, u) /\ u.tool.pos \in Nat
    BY <1>1, <1>6 DEF Fits, InTool, OutT, ToolT
  <2>3. ToolActive(done) => r = done
    BY DEF ToolPart
  <2>4. Rests(done, t, n)
    <3>1. CASE u.tool.pos <= n
      BY <1>2, <2>2, <3>1, ToolUpdateRests
    <3>2. CASE u.tool.pos > n
      <4>1. done = u
        BY <1>2, <2>2, <3>2, ToolUpdateKeeps
      <4>2. ToolRound(u, t, n) = u
        BY <1>2, <2>2, <3>2 DEF ToolRound
      <4> HIDE DEF done
      <4> QED BY <4>1, <4>2 DEF Rests
    <3> QED BY <1>2, <2>2, <3>1, <3>2
  <2> HIDE DEF r, done
  <2> QED BY <2>1, <2>3, <2>4 DEF r
<1>7. Update(o, t, n, last) = IF u.mode = "tool" THEN ToolPart(u, t, n) ELSE u
  BY UpdateParts DEF c, u
<1> QED BY <1>5, <1>6, <1>7

\* Throughout a turn what has been shown of a block is what will be read of it.
FollowInv ==
  phase # "done" /\ out.mode # "gone" /\ Shaped(script) => Follows(script, Reach(text), out)

\* A block that has been sampled is taken for one, and when it can be read its calls are shown.
CaughtUp(o, t) ==
  /\ o.mode \in {"tool", "suppress"}
  /\ o.mode = "tool" /\ Readable(t) => o.tool.index = Len(Taken(t).out)

\* A block that has been sampled has been seen, and its calls have been shown when it is whole.
Caught ==
  phase # "done" /\ out.mode # "gone" /\ Shaped(text) /\ req.tools /\ ToolStart(text) # NotFound
    => CaughtUp(out, text)

\* These are about the request and the script, which do not change.
LEMMA FollowNext ==
  ASSUME req' = req, script' = script
  PROVE  /\ \A s : Shaped(s)' <=> Shaped(s)
         /\ Shaped(text)' <=> Shaped(text')
         /\ Shaped(script)' <=> Shaped(script)
         /\ Reach(text)' = Reach(text')
         /\ Follows(script, Reach(text), out)' <=> Follows(script, Reach(text'), out')
BY DEF Follows, Shaped, Reach, Stops, StopOf

\* What may be looked at leaves at most two atoms of the text.
LEMMA LooksNear ==
  ASSUME NEW t, Begins(t, script), text \in Texts, Len(text) <= Len(t), OneToken(t, Len(text)),
         seen.stopFrom \in Nat, StopAhead(text, seen.stopFrom),
         NEW after, after = IF StopAt(t) # NotFound THEN SubSeq(t, 1, StopAt(t)) ELSE t
  PROVE  LET n == StreamLen(t)
         IN  /\ Begins(after, script) /\ Len(after) <= Len(t) /\ n \in 0..Len(after) /\ n + 2 >= Len(after)
             /\ Reach(t) = Reach(after) /\ Reach(t) <= Len(after)
<1> DEFINE n == StreamLen(t)
           stop == StopOf(script)
           safe == IF req.stop THEN StopSafeLen(Len(t)) ELSE Len(t)
<1>1. t \in Texts /\ Len(t) \in Nat /\ script \in Texts /\ Len(script) \in Nat /\ Len(t) <= Len(script)
  BY LenType DEF Begins
<1>2. n = IF StopAt(t) # NotFound THEN StopAt(t) ELSE Utf8SafeLen(t, 0, safe)
  BY DEF StreamLen
<1>3. n \in 0..Len(t)
  BY TokenWithin
<1>4. CASE StopAt(t) # NotFound
  <2>1. Stops /\ StopAt(t) = stop /\ stop + 2 <= Len(t) /\ stop \in Nat
    BY <1>4, StopAtIs
  <2>2. after = SubSeq(t, 1, stop) /\ stop \in 0..Len(t)
    BY <1>1, <1>4, <2>1
  <2> HIDE DEF stop
  <2>3. Begins(after, t) /\ Len(after) = stop
    BY <1>1, <2>2, SampledBegins
  <2>4. Begins(after, script)
    <3>1. after \in Texts /\ Len(after) <= Len(script) /\ \A i \in 1..Len(after) : i \in 1..Len(t)
      BY <1>1, <2>1, <2>3 DEF Begins
    <3>2. \A i \in 1..Len(after) : after[i] = script[i]
      BY <2>3, <3>1 DEF Begins
    <3> QED BY <1>1, <3>1, <3>2 DEF Begins
  <2>5. Reach(t) = stop /\ Reach(after) = stop
    BY <1>1, <2>1, <2>3 DEF Reach, stop
  <2> HIDE DEF n
  <2> QED BY <1>1, <1>2, <1>4, <2>1, <2>3, <2>4, <2>5 DEF n
<1>5. CASE StopAt(t) = NotFound
  <2>1. after = t
    BY <1>5
  <2>2. safe = Len(t) \/ (safe = Len(t) - 1 /\ Len(t) > 1) \/ (safe = 0 /\ Len(t) <= 1)
    BY <1>1, StopIs DEF StopSafeLen
  <2> HIDE DEF safe
  <2>3. safe \in Nat /\ safe + 1 >= Len(t)
    BY <1>1, <2>2
  <2>4. Utf8SafeLen(t, 0, safe) = IF safe > 0 /\ t[safe] = "u1" THEN safe - 1 ELSE safe
    BY DEF Utf8SafeLen
  <2>5. Reach(t) <= Len(t)
    BY <1>1, StopOfIs DEF Reach, Stops
  <2> HIDE DEF n
  <2>6. n + 2 >= Len(t)
    BY <1>1, <1>2, <1>5, <2>3, <2>4
  <2>7. /\ Begins(after, script) /\ Len(after) <= Len(t) /\ Reach(t) = Reach(after)
        /\ n \in 0..Len(after) /\ n + 2 >= Len(after) /\ Reach(t) <= Len(after)
    <3>1. Begins(after, script) /\ Len(after) <= Len(t) /\ Len(t) \in Nat
      BY ONLY Begins(t, script), <1>1, <2>1
    <3>2. Reach(t) = Reach(after) /\ Reach(t) <= Len(after)
      BY <2>1, <2>5
    <3>3. n \in 0..Len(after) /\ n + 2 >= Len(after)
      BY <1>3, <2>1, <2>6
    <3> QED BY <3>1, <3>2, <3>3
  <2> QED BY <2>7 DEF n
<1> QED BY <1>4, <1>5

\* What waits at the end of a text that can be read has been shown to its last call.
LEMMA CaughtIs ==
  ASSUME NEW t, NEW s, Begins(t, s), NEW n \in 0..Len(t), n + 2 >= Len(t), NEW m, m <= Len(t), m \in Nat,
         NEW u, Begins(u, s), n <= Len(u),
         NEW r, Fits(s, m, r), Follows(s, m, r), r.mode = "tool", Rests(r, u, n), Readable(t)
  PROVE  r.tool.index = Len(Taken(t).out) /\ n < Len(t) /\ r.tool.state = "invokes"
<1>1. t \in Texts /\ s \in Texts /\ u \in Texts /\ Len(t) \in Nat /\ Len(s) \in Nat /\ Len(t) <= Len(s)
      /\ Len(u) \in Nat
  BY LenType DEF Begins
<1>2. InTool(s, r) /\ ToolActive(r) /\ r.tool.pos \in Nat /\ r.tool.state # "none"
  BY DEF Fits, InTool, OutT, ToolT
<1>3. Rests(r, t, n)
  <2>1. ToolRound(r, t, n) = ToolRound(r, s, n)
    BY <1>2, BeginsRound
  <2>2. ToolRound(r, u, n) = ToolRound(r, s, n)
    <3>1. n \in 0..Len(u)
      BY <1>1
    <3> QED BY <1>2, <3>1, BeginsRound
  <2> QED BY <2>1, <2>2 DEF Rests
<1>4. SubSeq(s, 1, Len(t)) = t
  <2>1. SubSeq(t, 0 + 1, Len(t)) = SubSeq(s, 0 + 1, Len(t))
    <3>1. 0 \in Nat /\ Len(t) \in 0..Len(t)
      BY <1>1
    <3> QED BY <3>1, BeginsCut
  <2>2. SubSeq(t, 1, Len(t)) = t
    BY <1>1, SubSeqFull DEF Texts
  <2> QED BY <2>1, <2>2
<1>5. Followed(t, Taken(t).out, r)
  <2>1. Len(t) \in m..Len(s)
    BY <1>1
  <2> DEFINE j == Len(t)
  <2> HIDE DEF j
  <2>2. j \in m..Len(s) /\ SubSeq(s, 1, j) = t
    BY <1>4, <2>1 DEF j
  <2> QED BY <1>2, <2>2 DEF Follows
<1> DEFINE b == Taken(t).out
<1> HIDE DEF b
<1>6. Followed(t, b, r) /\ Typed(t)
  BY <1>5 DEF b, Readable
<1>7. r.tool.index = Len(b) /\ n < Len(t) /\ r.tool.state = "invokes"
  <2>1. t \in Texts /\ Typed(t) /\ n \in 0..Len(t) /\ n + 2 >= Len(t) /\ Begins(t, s) /\ InTool(s, r)
        /\ ToolActive(r) /\ Rests(r, t, n) /\ Followed(t, b, r)
    BY <1>1, <1>2, <1>3, <1>6
  <2> QED BY ONLY <2>1, WaitingIs
<1> QED BY <1>7 DEF b

\* A token: what it shows of the block is what the parser will read of it.
LEMMA TokenFollows ==
  ASSUME StreamInv, ProseInv, FollowInv, NEW k \in 1..MaxToken, Token(k)
  PROVE  FollowInv' /\ Caught'
<1> DEFINE t == SubSeq(script, 1, Len(text) + k)
           hit == StopAt(t) # NotFound
           m == Reach(t)
           n == StreamLen(t)
           last == FALSE
           r == Update(out, t, n, last)
<1>1. /\ phase = "decode" /\ Len(text) + k <= Len(script) /\ OneToken(t, Len(text))
      /\ text' = (IF hit THEN SubSeq(t, 1, StopAt(t)) ELSE t)
      /\ out' = r
      /\ phase' \in {"decode", "finish"}
      /\ req' = req /\ script' = script
  BY DEF Token
<1>2. /\ req.tools \in BOOLEAN /\ req.think \in BOOLEAN /\ script \in Texts /\ Len(script) \in Nat
      /\ text \in Texts /\ Len(text) \in Nat /\ k \in Nat
  <2>1. k \in Nat
    BY StreamAssumption
  <2> QED BY <2>1, TurnIs DEF StreamInv
<1>3. /\ Begins(t, script) /\ Len(t) = Len(text) + k /\ t \in Texts
  <2>1. Len(text) + k \in 0..Len(script)
    BY <1>1, <1>2
  <2>2. /\ Begins(t, script) /\ Len(t) = Len(text) + k
    BY ONLY <1>2, <2>1, SampledBegins
  <2> HIDE DEF t
  <2> QED BY <2>2 DEF Begins
<1> HIDE DEF t
<1>4. seen.stopFrom \in Nat /\ StopAhead(text, seen.stopFrom)
  BY <1>1 DEF StreamInv, Turn, Stopping, SeenT
<1>5. Len(text) <= Len(t) /\ Len(t) \in Nat
  BY <1>1, <1>2, <1>3
<1>6. n \in 0..Len(t) /\ Within(t, n, m) /\ Sees(t, n)
  BY <1>1, <1>2, <1>3, <1>4, <1>5, TokenWithin, TokenSees
<1>7. m \in Nat /\ Reach(text) \in Nat /\ Reach(text) <= m /\ m <= Len(t)
  BY <1>2, <1>3, <1>5, ReachGrows
<1>8. Fits(script, Reach(text), out) /\ out.mode # "gone"
  BY <1>1 DEF StreamInv, Sending, Fits
<1>9. Fits(script, m, out) /\ Looks(script, t, n, last)
  <2>1. Looks(script, t, n, last)
    BY <1>3, <1>6 DEF Looks
  <2> HIDE DEF m
  <2> QED BY <1>7, <1>8, <2>1, FitsMore
<1> DEFINE after == IF hit THEN SubSeq(t, 1, StopAt(t)) ELSE t
<1>10. /\ Begins(after, script) /\ Len(after) <= Len(t) /\ n \in 0..Len(after) /\ n + 2 >= Len(after)
       /\ m = Reach(after) /\ m <= Len(after)
  <2>1. after = IF StopAt(t) # NotFound THEN SubSeq(t, 1, StopAt(t)) ELSE t
    OBVIOUS
  <2> HIDE DEF after
  <2> QED BY <1>1, <1>2, <1>3, <1>4, <1>5, <2>1, LooksNear
<1>11. text' = after
  BY <1>1
<1> HIDE DEF last, m, n, after, hit, r
<1>12. Fits(script, m, r)
  BY <1>2, <1>6, <1>9, UpdateFits DEF r
<1>13. ASSUME Shaped(script) PROVE Prose(script, out) /\ Follows(script, m, r)
  <2>1. Prose(script, out)
    BY <1>1, <1>8, <1>13 DEF ProseInv
  <2>2. Follows(script, Reach(text), out)
    BY <1>1, <1>8, <1>13 DEF FollowInv
  <2>3. Follows(script, m, out)
    BY <1>2, <1>7, <2>2, FollowsMore
  <2>4. Follows(script, m, r)
    BY <1>2, <1>6, <1>9, <1>13, <2>1, <2>3, UpdateFollows DEF r
  <2> QED BY <2>1, <2>4
<1>14. ASSUME Shaped(after), req.tools, ToolStart(after) # NotFound PROVE CaughtUp(r, after)
  <2>1. Shaped(script) /\ (req.think => Opened(after) = Opened(script))
    BY <1>10, <1>14, ShapeGrows
  <2>2. ToolStart(script) # NotFound /\ ToolStart(script) \in Nat /\ ToolStart(script) + 2 <= Len(after)
    BY <1>10, <1>14, StartIs
  <2>3. ToolStart(script) + 2 <= Len(t)
    BY <1>5, <1>10, <2>2
  <2>4. req.think => n >= 2
    <3> SUFFICES ASSUME req.think PROVE n >= 2
      OBVIOUS
    <3>1. Opened(script) \in Nat /\ From(script) = Opened(script) + 3 /\ From(script) <= ToolStart(script)
      BY <1>2, <1>14, <2>1, <2>2, ShapeIs DEF From
    <3>2. Len(after) \in Nat
      BY <1>10, LenType DEF Begins
    <3> QED BY <1>10, <2>2, <3>1, <3>2
  <2>5. r.mode \in {"tool", "suppress"} /\ (r.mode = "tool" => Rests(r, t, n))
    BY <1>2, <1>6, <1>9, <1>13, <1>14, <2>1, <2>2, <2>3, <2>4, UpdateCaught DEF r
  <2>6. ASSUME r.mode = "tool", Readable(after) PROVE r.tool.index = Len(Taken(after).out)
    <3>1. Rests(r, t, n) /\ Follows(script, m, r) /\ n <= Len(t)
      BY <1>5, <1>6, <1>13, <2>1, <2>5, <2>6
    <3> QED BY <1>3, <1>7, <1>10, <1>12, <2>6, <3>1, CaughtIs
  <2> QED BY <2>5, <2>6 DEF CaughtUp
<1>15. Reach(text') = m
  BY <1>10, <1>11
<1>16. FollowInv'
  BY <1>1, <1>13, <1>15, FollowNext DEF FollowInv
<1>17. Caught'
  <2>1. Shaped(text)' <=> Shaped(text')
    BY <1>1, FollowNext
  <2>2. CaughtUp(out, text)' <=> CaughtUp(out', text')
    BY DEF CaughtUp
  <2>3. ToolStart(text)' = ToolStart(text')
    OBVIOUS
  <2>4. (Shaped(text') /\ req.tools /\ ToolStart(text') # NotFound) => CaughtUp(out', text')
    BY <1>1, <1>11, <1>14
  <2> QED BY <1>1, <2>1, <2>2, <2>3, <2>4 DEF Caught
<1> QED BY <1>16, <1>17

\* At the start there is no block.
LEMMA InitFollows == Init => FollowInv /\ Caught
<1> SUFFICES ASSUME Init PROVE FollowInv /\ Caught
  OBVIOUS
<1>1. out = OutInit(req.think) /\ text = <<>>
  BY DEF Init
<1>2. out.tool.state = "none"
  <2>1. out.tool = ToolIdle
    BY <1>1 DEF OutInit
  <2> QED BY <2>1, ToolIdleIs
<1>3. ToolStart(text) = NotFound
  <2>1. text \in Texts /\ Len(text) = 0
    BY <1>1, EmptySeq DEF Texts
  <2> QED BY <2>1, MarkIs
<1> QED BY <1>2, <1>3 DEF FollowInv, Caught, Follows

\* A turn that ends as it stands has shown the same.
LEMMA QuietFollows ==
  ASSUME FollowInv, Caught, EndTurn("stop") \/ EndTurn("length") \/ EndTurn("error") \/ UNCHANGED vars
  PROVE  FollowInv' /\ Caught'
<1>1. /\ req' = req /\ script' = script /\ text' = text /\ out' = out
      /\ phase' # "done" => phase # "done"
  BY DEF EndTurn, vars
<1>2. FollowInv'
  BY <1>1, FollowNext DEF FollowInv
<1>3. Caught'
  <2>1. Shaped(text)' <=> Shaped(text)
    BY <1>1, FollowNext
  <2>2. CaughtUp(out, text)' <=> CaughtUp(out, text)
    BY <1>1 DEF CaughtUp
  <2> QED BY <1>1, <2>1, <2>2 DEF Caught
<1> QED BY <1>2, <1>3

\* A client that is gone, or a turn that is over, has no claim.
LEMMA GoneFollows ==
  ASSUME StreamInv, LoseClient \/ Finish
  PROVE  FollowInv' /\ Caught'
<1>1. CASE LoseClient
  <2>1. out \in OutT /\ out' = [out EXCEPT !.ok = FALSE, !.mode = "gone"]
    BY <1>1 DEF StreamInv, Sending, Gone, Fits, LoseClient
  <2>2. out'.mode = "gone"
    BY <2>1 DEF OutT
  <2> QED BY <2>2 DEF FollowInv, Caught
<1>2. CASE Finish
  <2>1. phase' = "done"
    BY <1>2 DEF Finish
  <2> QED BY <2>1 DEF FollowInv, Caught
<1> QED BY <1>1, <1>2

\* The whole text that is parsed is a beginning of it, to the space before a block.
Parsed(t) == IF ToolStart(t) = NotFound THEN t ELSE SubSeq(t, 1, TrimWs(t, 0, ToolStart(t)))

\* What is split into reasoning and content is the text up to the block.
LEMMA ParsedIs ==
  ASSUME NEW t \in Texts, ThinksFirst(t), req.think \in BOOLEAN, req.tools \/ ToolStart(t) = NotFound
  PROVE  /\ Begins(Parsed(t), t) /\ Len(Parsed(t)) = Ends(t)
         /\ Shaped(t) /\ (~req.think => Opened(t) = NotFound)
<1> DEFINE a == ToolStart(t)
           x == TrimWs(t, 0, a)
           e == Ends(t)
           f == From(t)
<1>1. Len(t) \in Nat /\ t \in Seq(Atom)
  BY LenType DEF Texts
<1>2. Shaped(t) /\ (~req.think => Opened(t) = NotFound)
  BY DEF ThinksFirst, Shaped
<1>3. CASE a = NotFound
  <2>1. Parsed(t) = t
    BY <1>3 DEF Parsed
  <2>2. Ends(t) = Len(t)
    BY <1>3 DEF Ends
  <2> QED BY <1>1, <1>2, <2>1, <2>2 DEF Begins
<1>4. CASE a # NotFound
  <2>1. req.tools
    BY <1>4
  <2>2. /\ f \in Nat /\ e \in f..Len(t) /\ a \in Nat /\ f <= a /\ e <= a /\ a + 2 <= Len(t)
        /\ e = f \/ t[e] # "w"
        /\ \A i \in (e + 1)..a : t[i] = "w"
    BY <1>2, <1>4, <2>1, ShapeIs
  <2>3. f = 0 \/ (f \in Nat \ {0} /\ t[f] # "w")
    <3>1. CASE req.think
      <4>1. /\ Opened(t) \in Nat /\ t[Opened(t) + 3] = "think" /\ f = Opened(t) + 3
        <5>1. Opened(t) \in Nat /\ f = Opened(t) + 3 /\ Opened(t) # NotFound
          BY <1>2, <3>1, ShapeIs DEF From, Shaped
        <5> HIDE DEF f
        <5> QED BY <5>1, MarkIs
      <4> HIDE DEF f
      <4> QED BY <4>1
    <3>2. CASE ~req.think
      BY <3>2 DEF From
    <3> QED BY <3>1, <3>2
  <2>4. x \in 0..a /\ (x = 0 \/ t[x] # "w") /\ \A i \in (x + 1)..a : t[i] = "w"
    <3>1. 0 \in Nat /\ a \in Nat /\ 0 <= a
      BY <2>2
    <3> HIDE DEF a
    <3> QED BY ONLY <3>1, TrimWsIs
  <2> HIDE DEF a, x, e, f
  <2>5. ~(x < e)
    <3> SUFFICES ASSUME x < e PROVE FALSE
      OBVIOUS
    <3>1. e \in (x + 1)..a
      BY <2>2, <2>4
    <3>2. t[e] = "w" /\ e # 0
      BY <2>2, <2>4, <3>1
    <3> QED BY <2>2, <2>3, <3>2
  <2>6. ~(e < x)
    <3> SUFFICES ASSUME e < x PROVE FALSE
      OBVIOUS
    <3>1. x \in (e + 1)..a /\ x # 0
      BY <2>2, <2>4
    <3> QED BY <2>2, <2>4, <3>1
  <2>7. x = e /\ x \in 0..Len(t)
    BY <1>1, <2>2, <2>4, <2>5, <2>6
  <2>8. Parsed(t) = SubSeq(t, 1, x)
    BY <1>4 DEF Parsed, x, a
  <2>9. Begins(SubSeq(t, 1, x), t) /\ Len(SubSeq(t, 1, x)) = x
    BY <2>7, SampledBegins
  <2> QED BY <1>2, <2>7, <2>8, <2>9 DEF e
<1> QED BY <1>3, <1>4

\* The final parse takes for reasoning and content what the projection is to show.
LEMMA SplitIs ==
  ASSUME NEW t \in Texts, ThinksFirst(t), req.think \in BOOLEAN, req.tools \/ ToolStart(t) = NotFound
  PROVE  /\ SplitReasoning(Parsed(t)).content = Cut(t, From(t), Ends(t))
         /\ SplitReasoning(Parsed(t)).reasoning = Thoughts(t)
<1> DEFINE x == Parsed(t)
           e == Ends(t)
           lit == End("think")
           from == IF FullLit(x, Len(x), 0, Start("think")) THEN 2 ELSE 0
           close == FindLit(x, Len(x), from, lit)
           split == SplitReasoning(x)
<1>1. /\ Begins(x, t) /\ Len(x) = e /\ Shaped(t) /\ (~req.think => Opened(t) = NotFound)
  BY ParsedIs
<1>2. /\ x \in Texts /\ Len(t) \in Nat /\ e \in Nat /\ e <= Len(t) /\ x \in Seq(Atom)
      /\ \A i \in 1..e : x[i] = t[i]
  BY <1>1, LenType DEF Begins, Texts
<1>3. lit \in Seq(Atom) /\ Len(lit) = 3
  BY MarkNames, MarkerType
<1>4. split = IF close = NotFound THEN [reasoning |-> <<>>, content |-> x]
              ELSE [reasoning |-> SubSeq(x, from + 1, close), content |-> SubSeq(x, close + 4, Len(x))]
  BY DEF SplitReasoning
<1>5. from \in Nat
  OBVIOUS
<1> HIDE DEF split
<1>6. CASE req.think
  <2>1. /\ Opened(t) \in Nat /\ Skips(t) \in Nat /\ Skips(t) <= Opened(t) /\ From(t) = Opened(t) + 3
        /\ From(t) <= e
    <3>1. e \in From(t)..Len(t) /\ From(t) = Opened(t) + 3 /\ Opened(t) \in Nat
      BY <1>1, <1>6, ShapeIs DEF From
    <3>2. Skips(t) \in Nat /\ Skips(t) <= Opened(t)
      BY <1>1, <1>6, ShapeIs
    <3> HIDE DEF e
    <3> QED BY <1>2, <3>1, <3>2
  <2>2. from = Skips(t)
    <3>1. FullLit(x, Len(x), 0, Start("think")) <=> 0 + 2 <= Len(x) /\ x[0 + 1] = "<" /\ x[0 + 2] = "think"
      <4>1. 0 \in Nat /\ Len(x) \in 0..Len(x)
        BY <1>1, <1>2
      <4> QED BY <1>2, <4>1, MarkNames, FullStart
    <3>2. FullLit(t, Len(t), 0, Start("think")) <=> 0 + 2 <= Len(t) /\ t[0 + 1] = "<" /\ t[0 + 2] = "think"
      <4>1. 0 \in Nat /\ Len(t) \in 0..Len(t)
        BY <1>2
      <4> QED BY <1>2, <4>1, MarkNames, FullStart
    <3>3. x[1] = t[1] /\ x[2] = t[2] /\ 2 <= Len(x) /\ 2 <= Len(t)
      <4>1. 1 \in 1..e /\ 2 \in 1..e
        BY <1>2, <2>1
      <4> QED BY <1>1, <1>2, <4>1
    <3> HIDE DEF x
    <3> QED BY <3>1, <3>2, <3>3 DEF Skips
  <2>3. close = Opened(t)
    <3> DEFINE f == FindLit(t, Len(t), 0, lit)
               p == Skips(t)
    <3>1. f = Opened(t) /\ close = FindLit(x, Len(x), p, lit)
      BY <2>2 DEF Opened
    <3> HIDE DEF lit, p, x, from
    <3>2. p \in Nat /\ (f # NotFound => p <= f)
      <4> HIDE DEF f
      <4> QED BY <2>1, <3>1 DEF p
    <3>3. LET q == FindLit(x, Len(x), p, lit)
          IN  /\ q # NotFound => q = f /\ f \in Nat /\ f + Len(lit) <= Len(x)
              /\ q = NotFound /\ f # NotFound => f \in Nat /\ f + Len(lit) > Len(x)
      BY ONLY <1>1, <1>3, <3>2, SearchIs
    <3> DEFINE q == FindLit(x, Len(x), p, lit)
    <3>4. /\ q # NotFound => q = f
          /\ q = NotFound /\ f # NotFound => f + Len(lit) > Len(x)
      BY <3>3
    <3>5. close = q
      BY <3>1
    <3> HIDE DEF q, f, close
    <3> QED BY <1>1, <1>2, <1>3, <2>1, <3>1, <3>4, <3>5 DEF NotFound
  <2>4. close # NotFound
    <3> HIDE DEF close
    <3> QED BY <2>1, <2>3 DEF NotFound
  <2> HIDE DEF close, from
  <2>5. split.reasoning = Cut(x, Skips(t), Opened(t)) /\ split.content = SubSeq(x, Opened(t) + 4, Len(x))
    BY <1>4, <2>2, <2>3, <2>4 DEF Cut
  <2>6. SubSeq(x, Opened(t) + 4, Len(x)) = Cut(x, From(t), e)
    <3>1. From(t) + 1 = Opened(t) + 4
      BY <2>1
    <3> HIDE DEF x, e
    <3> QED BY <1>1, <3>1 DEF Cut
  <2>7. Cut(x, Skips(t), Opened(t)) = Cut(t, Skips(t), Opened(t)) /\ Cut(x, From(t), e) = Cut(t, From(t), e)
    <3>1. Opened(t) \in 0..Len(x) /\ e \in 0..Len(x) /\ From(t) \in Nat
      <4> HIDE DEF x, e
      <4> QED BY <1>1, <1>2, <2>1
    <3> HIDE DEF x, e
    <3> QED BY <1>1, <2>1, <3>1, CutBegins
  <2>8. Thoughts(t) = Cut(t, Skips(t), Opened(t))
    BY <1>6 DEF Thoughts
  <2> HIDE DEF x
  <2> QED BY <2>5, <2>6, <2>7, <2>8 DEF split, x
<1>7. CASE ~req.think
  <2>1. From(t) = 0 /\ Thoughts(t) = <<>> /\ Opened(t) = NotFound
    BY <1>1, <1>7 DEF From, Thoughts
  <2>2. close = NotFound
    <3>1. FindLit(t, Len(t), 0, lit) = NotFound
      BY <2>1 DEF Opened
    <3> HIDE DEF lit, x, from
    <3>2. close = NotFound \/ (close \in from..Len(x) /\ FullLit(x, Len(x), close, lit))
      <4>1. Len(x) \in Nat
        BY <1>1, <1>2
      <4> QED BY ONLY <1>5, <4>1, FindLitIs DEF close
    <3> HIDE DEF close
    <3>3. close \in from..Len(x) => close \in Nat
      BY <1>1, <1>2, <1>5
    <3> QED BY <1>1, <1>3, <3>1, <3>2, <3>3, FoundIn
  <2>3. split.reasoning = <<>> /\ split.content = x
    BY <1>4, <2>2
  <2>4. Cut(x, 0, e) = Cut(t, 0, e)
    <3>1. 0 \in Nat /\ e \in 0..Len(x)
      <4> HIDE DEF x, e
      <4> QED BY <1>1, <1>2
    <3> HIDE DEF x, e
    <3> QED BY <1>1, <3>1, CutBegins
  <2>5. Cut(x, 0, e) = x
    <3>1. SubSeq(x, 1, Len(x)) = x
      BY <1>2, SubSeqFull
    <3> HIDE DEF x, e
    <3> QED BY <1>1, <3>1 DEF Cut
  <2> HIDE DEF x
  <2> QED BY <2>1, <2>3, <2>4, <2>5 DEF split, x
<1> QED BY <1>6, <1>7

\* The final parse of a text that thinks first, when it can be read.
LEMMA ParseIs ==
  ASSUME NEW t \in Texts, ThinksFirst(t), req.think \in BOOLEAN, req.tools \/ ToolStart(t) = NotFound,
         FirstBlock(t), ParseMessage(t).ok
  PROVE  LET p == ParseMessage(t)
         IN  /\ p.content = Cut(t, From(t), Ends(t)) /\ p.reasoning = Thoughts(t)
             /\ p.calls = IF ToolStart(t) = NotFound THEN <<>> ELSE Taken(t).out
             /\ ToolStart(t) # NotFound => Taken(t).ok
<1> DEFINE p == ParseMessage(t)
           none == [ok |-> TRUE, next |-> 0, out |-> <<>>]
           split == SplitReasoning(Parsed(t))
           block == IF ToolStart(t) = NotFound THEN none ELSE Taken(t)
<1>1. p = WithCalls(t, block, split)
  BY DEF ParseMessage, Parsed, Taken, FirstBlock
<1>2. split.content = Cut(t, From(t), Ends(t)) /\ split.reasoning = Thoughts(t)
  BY SplitIs
<1>3. block.out = (IF ToolStart(t) = NotFound THEN <<>> ELSE Taken(t).out)
      /\ (ToolStart(t) # NotFound => block = Taken(t))
  OBVIOUS
<1> HIDE DEF split, block
<1>4. p.ok => block.ok
  BY <1>1 DEF WithCalls
<1>5. p.ok
  OBVIOUS
<1> HIDE DEF p
<1>6. p = [ok |-> TRUE, reasoning |-> split.reasoning, content |-> split.content, calls |-> block.out]
  BY <1>1, <1>4, <1>5 DEF WithCalls
<1> QED BY <1>2, <1>3, <1>4, <1>5, <1>6 DEF p

\* A literal that is nowhere in a text is not found in it, whatever the place to begin with.
LEMMA FoundNowhere ==
  ASSUME NEW t \in Texts, NEW lit \in Seq(Atom), FindLit(t, Len(t), 0, lit) = NotFound, NEW p \in Nat
  PROVE  FindLit(t, Len(t), p, lit) = NotFound
<1> DEFINE q == FindLit(t, Len(t), p, lit)
<1>1. Len(t) \in Nat /\ Begins(t, t)
  BY LenType DEF Begins
<1>2. q = NotFound \/ (q \in p..Len(t) /\ FullLit(t, Len(t), q, lit))
  BY ONLY <1>1, p \in Nat, FindLitIs
<1> HIDE DEF q
<1>3. q \in p..Len(t) => q \in Nat
  BY <1>1
<1>4. q = NotFound
  BY <1>1, <1>2, <1>3, FoundIn
<1> QED BY <1>4 DEF q

\* The last look ends the reasoning, and the content of a text without a block.
LEMMA LastIs ==
  ASSUME NEW s, NEW t, NEW n, NEW last, last, Looks(s, t, n, last), NEW m, Within(t, n, m),
         NEW o, Fits(s, m, o), o.mode \in {"thinking", "text"}, req.tools \in BOOLEAN,
         \/ o.mode = "thinking" /\ Opened(t) = NotFound
         \/ ~(req.tools /\ ToolStart(t) # NotFound)
  PROVE  LET r == Update(o, t, n, last)
         IN  r.mode = "suppress" /\ NoTool(r) /\ r.block = "none"
<1> DEFINE k == CheckThinkPrefix(o, t, n, last)
           c == AfterThinking(o, t, n, last)
           u == AfterText(c, t, n, last)
<1>1. Fits(s, m, c) /\ Fits(s, m, u)
  BY UpdateFits
<1>2. t \in Texts
  BY DEF Looks, Begins
<1>3. \/ c.mode = "text" /\ ~(req.tools /\ ToolStart(t) # NotFound)
      \/ c.mode = "suppress" /\ NoTool(c)
  <2>1. CASE o.mode = "thinking"
    <3>1. Fits(s, m, k) /\ k.mode = "thinking" /\ k.checked
      <4>1. /\ Fits(s, m, k) /\ k.mode = "thinking"
            /\ \/ (o.checked \/ (~last /\ PartialLit(t, n, 0, Start("think"), 0))) /\ k = o
               \/ k.checked
        BY ONLY Looks(s, t, n, last), Within(t, n, m), Fits(s, m, o), <2>1, CheckIs
      <4> HIDE DEF k
      <4> QED BY <4>1
    <3>2. c = Thinking(k, t, n, last)
      BY <2>1, <3>1 DEF AfterThinking, ThinkingPart
    <3> DEFINE r == Thinking(k, t, n, last)
               close == FindLit(t, Len(t), k.pos, End("think"))
    <3>3. (close # NotFound /\ r.mode = "text") \/ (r.mode = "suppress" /\ NoTool(r))
      <4>1. Fits(s, m, k) /\ k.mode = "thinking" /\ k.checked
        BY <3>1
      <4> HIDE DEF k
      <4>2. \/ close # NotFound /\ r.mode = "text"
            \/ close = NotFound /\ last /\ r.mode = "suppress" /\ NoTool(r)
            \/ close = NotFound /\ ~last /\ r.mode = "thinking"
        BY ONLY <4>1, Looks(s, t, n, last), Within(t, n, m), ThinkingIs
      <4> HIDE DEF r, close
      <4> QED BY <4>2
    <3>4. Opened(t) = NotFound => close = NotFound
      <4> DEFINE lit == End("think")
                 kp == k.pos
      <4>1. lit \in Seq(Atom) /\ kp \in Nat
        BY <3>1, MarkNames, MarkerType DEF Fits, OutT
      <4>2. Opened(t) = FindLit(t, Len(t), 0, lit) /\ close = FindLit(t, Len(t), kp, lit)
        BY DEF Opened
      <4> HIDE DEF lit, kp, close
      <4> QED BY <1>2, <4>1, <4>2, FoundNowhere
    <3> HIDE DEF r, close, k, c
    <3>5. c = r
      BY <3>2 DEF r
    <3> QED BY <3>3, <3>4, <3>5
  <2>2. CASE o.mode = "text"
    <3>1. c = o
      BY <2>2 DEF AfterThinking
    <3> HIDE DEF c
    <3> QED BY <2>2, <3>1
  <2> QED BY <2>1, <2>2
<1> HIDE DEF c
<1>4. u.mode = "suppress" /\ NoTool(u)
  <2>1. CASE c.mode = "text"
    <3> DEFINE r == TextPart(c, t, n, last)
               tool == IF req.tools THEN FindLit(t, Len(t), c.pos, Start("tools")) ELSE NotFound
    <3>1. \/ tool # NotFound
          \/ r.mode = "suppress" /\ NoTool(r)
      <4>1. Fits(s, m, c) /\ c.mode = "text"
        BY <1>1, <2>1
      <4>2. \/ /\ tool # NotFound /\ r.pos = tool
               /\ \/ r.mode = "tool" /\ r.tool = ToolInit(tool + 2)
                  \/ r.mode = "suppress" /\ NoTool(r)
            \/ tool = NotFound /\ last /\ r.mode = "suppress" /\ NoTool(r)
            \/ tool = NotFound /\ ~last /\ r.mode = "text"
        BY ONLY <4>1, Looks(s, t, n, last), Within(t, n, m), req.tools \in BOOLEAN, TextPartIs
      <4> HIDE DEF r, tool
      <4> QED BY <4>2
    <3>2. tool = NotFound
      <4> SUFFICES ASSUME req.tools PROVE FindLit(t, Len(t), c.pos, Start("tools")) = NotFound
        OBVIOUS
      <4> DEFINE lit == Start("tools")
                 cp == c.pos
      <4>1. lit \in Seq(Atom) /\ cp \in Nat
        BY <1>1, MarkNames, MarkerType DEF Fits, OutT
      <4>2. FindLit(t, Len(t), 0, lit) = NotFound
        BY <1>3, <2>1 DEF ToolStart
      <4> HIDE DEF lit, cp
      <4>3. FindLit(t, Len(t), cp, lit) = NotFound
        BY <1>2, <4>1, <4>2, FoundNowhere
      <4> QED BY <4>3 DEF lit, cp
    <3> HIDE DEF r, tool
    <3>3. u = r
      BY <2>1 DEF AfterText, r
    <3> HIDE DEF u
    <3> QED BY <3>1, <3>2, <3>3
  <2>2. CASE c.mode # "text"
    <3>1. u = c
      BY <2>2 DEF AfterText
    <3> HIDE DEF u
    <3> QED BY <1>3, <2>2, <3>1
  <2> QED BY <2>1, <2>2
<1> HIDE DEF u
<1>5. u.block = "none"
  BY <1>1, <1>4, ToolIdleIs DEF Fits, NoTool, InTool
<1>6. Update(o, t, n, last) = IF u.mode = "tool" THEN ToolPart(u, t, n) ELSE u
  BY UpdateParts DEF c, u
<1> QED BY <1>4, <1>5, <1>6

\* What the finish stage sends, when every block is closed.
LEMMA FinishIs ==
  ASSUME NEW o \in OutT, o.ok, o.legal, o.block = "none", req.api \in Api, NEW t, NEW f
  PROVE  LET r == FinishMessage(o, t, f)
             shown == IF o.tool.emitted THEN o.tool.index ELSE 0
         IN  /\ r.ok /\ r.legal /\ r.stopped
             /\ r.calls = CASE req.api = "openai" -> IF o.tool.emitted THEN o.calls ELSE f.calls
                            [] req.api = "anthropic" -> o.calls \o SubSeq(f.calls, shown + 1, Len(f.calls))
                            [] OTHER -> f.calls
<1> DEFINE shown == IF o.tool.emitted THEN o.tool.index ELSE 0
           rest == SubSeq(f.calls, shown + 1, Len(f.calls))
<1>1. CASE req.api = "openai"
  <2> DEFINE calls == IF o.tool.emitted THEN o.calls ELSE f.calls
             r == FinishOpenAI(o, f)
  <2>1. r = [o EXCEPT !.calls = calls, !.stopped = TRUE]
    BY DEF FinishOpenAI, OutT
  <2> HIDE DEF calls, r
  <2>2. r.ok /\ r.legal /\ r.stopped /\ r.calls = calls
    BY <2>1 DEF OutT
  <2>3. FinishMessage(o, t, f) = r
    BY <1>1 DEF FinishMessage, r
  <2> QED BY <1>1, <2>2, <2>3 DEF calls
<1>2. CASE req.api = "anthropic"
  <2> DEFINE opened == OpenBlock(o, "content")
             empty == o.reasoning # <<>> /\ o.content = <<>> /\ f.calls = <<>>
             o1 == IF empty THEN CloseBlock(opened) ELSE o
             r == FinishAnthropic(o, f)
  <2>1. opened = [o EXCEPT !.block = "content"]
    BY <1>2 DEF OpenBlock
  <2> HIDE DEF opened
  <2>2. opened \in OutT /\ opened.ok /\ opened.legal /\ opened.calls = o.calls
    BY <2>1 DEF OutT
  <2> DEFINE closed == CloseBlock(opened)
  <2>3. closed \in OutT /\ closed.ok /\ closed.legal /\ closed.calls = o.calls /\ closed.block = "none"
    BY <2>2 DEF OutT, CloseBlock
  <2> HIDE DEF closed
  <2>4. o1 \in OutT /\ o1.ok /\ o1.legal /\ o1.calls = o.calls /\ o1.block = "none"
    BY <2>3 DEF closed
  <2>5. r = [o1 EXCEPT !.calls = @ \o rest, !.stopped = TRUE, !.legal = @ /\ o1.block = "none"]
    BY <2>2 DEF FinishAnthropic, opened
  <2> HIDE DEF o1, rest, r
  <2>6. r = [o1 EXCEPT !.calls = o.calls \o rest, !.stopped = TRUE, !.legal = o1.legal /\ o1.block = "none"]
    BY <2>4, <2>5 DEF OutT
  <2> DEFINE calls == o.calls \o rest
             legal == o1.legal /\ o1.block = "none"
  <2>7. legal
    BY <2>4
  <2> HIDE DEF calls, legal
  <2>8. r.ok /\ r.legal /\ r.stopped /\ r.calls = calls
    BY <2>4, <2>6, <2>7 DEF OutT, calls, legal
  <2>9. FinishMessage(o, t, f) = r
    BY <1>2 DEF FinishMessage, r
  <2> QED BY <1>2, <2>8, <2>9 DEF calls, rest
<1>3. CASE req.api \notin {"openai", "anthropic"}
  <2> DEFINE content == IF f.recovered THEN o.content \o Cut(t, o.pos, Len(t)) ELSE o.content
             split == o.split \/ (f.recovered /\ Splits(t, o.pos, Len(t)))
             r == FinishResponses(o, t, f)
  <2>1. r = [o EXCEPT !.content = content, !.split = split, !.calls = f.calls, !.stopped = TRUE]
    BY DEF FinishResponses, OutT
  <2> HIDE DEF content, split, r
  <2>2. r.ok /\ r.legal /\ r.stopped /\ r.calls = f.calls
    BY <2>1 DEF OutT
  <2>3. FinishMessage(o, t, f) = r
    BY <1>3 DEF FinishMessage, r
  <2> QED BY <1>3, <2>2, <2>3
<1> QED BY <1>1, <1>2, <1>3

\* The last look at a text whose block can be read: it is shown whole, or left to the finish stage.
LEMMA LastFollows ==
  ASSUME StreamInv, ProseInv, FollowInv, Caught, phase = "finish", out.mode # "gone",
         Shaped(text), req.tools, Readable(text)
  PROVE  LET o == Update(out, text, Len(text), TRUE)
             b == Taken(text).out
         IN  /\ o.mode = "suppress" /\ Fits(text, Len(text), o)
             /\ \/ NoTool(o) /\ o.block = "none"
                \/ /\ InTool(text, o) /\ o.tool.state = "done" /\ o.block = "none"
                   /\ o.tool.index = Len(b) /\ Shows(text, o, b) /\ Len(b) <= Len(out.calls)
<1> DEFINE n == Len(text)
           m == Reach(text)
           last == TRUE
           o == Update(out, text, n, last)
           b == Taken(text).out
<1>1. /\ Begins(text, script) /\ text \in Texts /\ script \in Texts /\ n \in Nat /\ n <= Len(script)
      /\ req.tools \in BOOLEAN /\ Len(script) \in Nat /\ Begins(text, text)
  BY TurnIs DEF StreamInv, Begins
<1>2. Shaped(script) /\ (req.think => Opened(text) # NotFound)
  BY <1>1, ShapeGrows
<1>3. Fits(script, m, out) /\ m \in Nat /\ m <= n
  BY <1>1, ReachGrows DEF StreamInv, Sending, Gone
<1>4. /\ Fits(text, n, o) /\ Prose(text, out)
  BY <1>2, ProseFinish
<1>5. /\ Fits(text, n, out) /\ Looks(text, text, n, last) /\ Within(text, n, n)
  BY <1>3, LastLook DEF StreamInv
<1>6. Sees(text, n)
  <2> SUFFICES ASSUME NEW p \in Nat, FullLit(text, Len(text), p, Start("tools")) PROVE p < n
    BY DEF Sees
  <2>1. p + 2 <= n
    BY <1>5 DEF Within
  <2> QED BY <1>1, <2>1
<1>7. /\ ToolStart(text) # NotFound /\ ToolStart(text) + 2 <= n
  BY <1>1, StartIs DEF Readable
<1>8. Follows(text, n, out)
  <2>1. Follows(script, m, out)
    BY <1>2 DEF FollowInv
  <2>2. Follows(script, n, out)
    BY <1>1, <1>3, <2>1, FollowsMore
  <2>3. SubSeq(script, 1, n) = SubSeq(text, 1, n)
    <3>1. n \in 0..n
      BY <1>1
    <3> QED BY <3>1, TurnIs DEF StreamInv
  <2>4. n \in n..Len(script) /\ \A j \in n..n : j = n
    BY <1>1
  <2> HIDE DEF n
  <2>5. Len(text) = n
    BY DEF n
  <2> QED BY <1>7, <2>2, <2>3, <2>4, <2>5 DEF Follows
<1>9. last
  OBVIOUS
<1> HIDE DEF last, o, m
<1>10. Follows(text, n, o)
  BY <1>1, <1>4, <1>5, <1>6, <1>8, UpdateFollows DEF o
<1>11. o.mode \in {"tool", "suppress"} /\ (o.mode = "tool" => Rests(o, text, n))
  BY <1>1, <1>4, <1>5, <1>6, <1>7, <1>9, UpdateCaught DEF o
<1>12. o.mode = "suppress"
  <2> SUFFICES ASSUME o.mode = "tool" PROVE FALSE
    BY <1>11
  <2>1. n \in 0..Len(text) /\ n + 2 >= Len(text) /\ n <= Len(text) /\ Rests(o, text, n)
    BY <1>1, <1>11
  <2> HIDE DEF n
  <2>2. n < Len(text)
    BY <1>1, <1>4, <1>10, <2>1, CaughtIs
  <2> QED BY <1>1, <2>2 DEF n
<1>13. (NoTool(o) /\ o.block = "none") \/ (InTool(text, o) /\ ~ToolActive(o))
  BY <1>4, <1>12 DEF Fits
<1>14. SubSeq(text, 1, n) = text
  BY <1>1, SubSeqFull DEF Texts
<1>15. \A x : Follows(text, n, x) /\ x.tool.state # "none" => Followed(text, b, x)
  <2>1. n \in n..Len(text)
    BY <1>1
  <2> HIDE DEF n, b
  <2> QED BY <1>14, <2>1 DEF Follows, b
<1> HIDE DEF b
<1>16. \A x : Followed(text, b, x) /\ ~ToolActive(x) => x.tool.state = "done" /\ x.tool.index = Len(b) /\ Shows(text, x, b)
  BY DEF Followed, InvokesOn, ParamsOn, ValueOn, ToolActive
<1>17. ASSUME InTool(text, o), ~ToolActive(o)
       PROVE  /\ o.tool.state = "done" /\ o.block = "none" /\ o.tool.index = Len(b) /\ Shows(text, o, b)
              /\ Len(b) <= Len(out.calls)
  <2>1. o.tool.state = "done" /\ o.tool.index = Len(b) /\ Shows(text, o, b)
    BY <1>10, <1>15, <1>16, <1>17 DEF InTool
  <2>2. o.block = "none" /\ Len(o.calls) = Len(b)
    BY <1>17, <2>1 DEF InTool, BlockFits, CallsFit
  <2>3. Len(b) <= Len(out.calls)
    <3>1. CaughtUp(out, text)
      BY <1>7 DEF Caught
    <3>2. CASE out.mode = "tool"
      <4>1. out.tool.index = Len(b)
        BY <3>1, <3>2 DEF CaughtUp, b
      <4>2. CallsFit(out)
        BY <1>5, <3>2 DEF Fits, InTool
      <4> QED BY <4>1, <4>2 DEF CallsFit
    <3>3. CASE out.mode = "suppress"
      <4>1. o = out
        <5>1. AfterThinking(out, text, n, last) = out
          BY <3>3 DEF AfterThinking
        <5>2. AfterText(out, text, n, last) = out
          BY <3>3 DEF AfterText
        <5> HIDE DEF n
        <5> QED BY <3>3, <5>1, <5>2, UpdateParts DEF o
      <4>2. o.calls \in Seq(CallT)
        BY <1>4 DEF Fits, OutT
      <4>3. Len(o.calls) \in Nat
        BY <4>2
      <4> QED BY <2>2, <4>1, <4>3
    <3> QED BY <3>1, <3>2, <3>3 DEF CaughtUp
  <2> QED BY <2>1, <2>2, <2>3
<1> QED BY <1>4, <1>12, <1>13, <1>17 DEF o, b, last

\* What is remembered of the calls is what has been shown of them, when all have been.
LEMMA RememberedIs ==
  ASSUME NEW b \in Seq(Texts), NEW calls \in Seq(CallT), Len(calls) = Len(b), Len(b) <= Len(out.calls), Len(out.calls) \in Nat,
         \A i \in 1..Len(b) : calls[i].id = <<"stream", i>> /\ calls[i].args = b[i] /\ ~calls[i].open
  PROVE  Remembered(b) = calls
<1> DEFINE r == Remembered(b)
           l == Len(b)
<1>1. l \in Nat /\ DOMAIN b = 1..l /\ DOMAIN calls = 1..l
  BY LenProperties
<1>2. r = [i \in 1..l |-> [id |-> ToolId(i), args |-> b[i], open |-> FALSE]]
  BY <1>1 DEF Remembered
<1>3. calls = [i \in 1..l |-> calls[i]]
  <2>1. calls \in [1..l -> CallT]
    <3>1. Len(calls) = l
      OBVIOUS
    <3> HIDE DEF l
    <3> QED BY <3>1
  <2> HIDE DEF l
  <2> QED BY <2>1
<1>4. ASSUME NEW i \in 1..l PROVE calls[i] = [id |-> ToolId(i), args |-> b[i], open |-> FALSE]
  <2>1. calls[i] \in CallT
    BY <1>1, <1>4
  <2>2. i <= Len(out.calls)
    <3>1. i \in Nat /\ i <= l
      BY <1>1
    <3>2. Len(b) <= Len(out.calls) /\ l = Len(b)
      OBVIOUS
    <3> HIDE DEF l
    <3> DEFINE k == Len(out.calls)
    <3>3. l <= k /\ k \in Nat
      BY <3>2
    <3> HIDE DEF k
    <3>4. i <= k
      BY <1>1, <3>1, <3>3
    <3> QED BY <3>4 DEF k
  <2>3. ToolId(i) = <<"stream", i>>
    BY <2>2 DEF ToolId
  <2>4. calls[i].id = ToolId(i) /\ calls[i].args = b[i] /\ calls[i].open = FALSE
    BY <2>1, <2>3, <1>4 DEF CallT
  <2> QED BY <2>1, <2>4 DEF CallT
<1> HIDE DEF l, r
<1> QED BY <1>2, <1>3, <1>4 DEF r

\* A call is remembered for each one that was parsed.
LEMMA RememberedType ==
  ASSUME NEW b, NEW l \in Nat, DOMAIN b = 1..l
  PROVE  DOMAIN Remembered(b) = 1..l /\ Remembered(b) = [i \in 1..l |-> Remembered(b)[i]]
BY DEF Remembered

\* A marker that is whole in the script is in a text that has come so far.
LEMMA SampledMarks ==
  ASSUME NEW t, NEW s, Begins(t, s)
  PROVE  /\ Opened(s) # NotFound /\ Opened(s) + 3 <= Len(t) => Opened(t) # NotFound
         /\ ToolStart(s) # NotFound /\ ToolStart(s) + 2 <= Len(t) => ToolStart(t) # NotFound
<1>1. Len(t) \in Nat
  BY LenType DEF Begins
<1> QED BY <1>1, MarksGrow

\* Reasoning that is not inside a block comes before it.
LEMMA BlockBehind ==
  ASSUME NEW t \in Texts, ~BlockInReasoning(t), ToolStart(t) # NotFound, req.think => Opened(t) # NotFound
  PROVE  Shaped(t)
<1>1. /\ Opened(t) # NotFound => Opened(t) \in Nat /\ t[Opened(t) + 2] = "/"
      /\ ToolStart(t) \in Nat /\ t[ToolStart(t) + 2] = "tools"
  BY MarkIs
<1>2. req.think => ~(ToolStart(t) < Opened(t))
  BY DEF BlockInReasoning
<1> QED BY <1>1, <1>2 DEF Shaped

\* A text that can be read leaves no block open.
LEMMA LastClosed ==
  ASSUME StreamInv, ProseInv, FollowInv, Caught, phase = "finish", out.mode # "gone",
         ParseMessage(text).ok, Typed(text), FirstBlock(text), ~BlockInReasoning(text)
  PROVE  LET o == Update(out, text, Len(text), TRUE)
         IN  /\ out.ok /\ Fits(text, Len(text), o) /\ o.mode = "suppress" /\ o.block = "none"
             /\ ~(req.tools /\ ToolStart(text) # NotFound) => NoTool(o)
<1> DEFINE n == Len(text)
           m == Reach(text)
           last == TRUE
           o == Update(out, text, n, last)
<1>1. /\ Begins(text, script) /\ text \in Texts /\ script \in Texts /\ n \in Nat /\ n <= Len(script)
      /\ req.tools \in BOOLEAN /\ req.think \in BOOLEAN /\ Len(script) \in Nat
  BY TurnIs DEF StreamInv
<1>2. Fits(script, m, out) /\ m \in Nat /\ m <= n /\ out.ok
  <2>1. Fits(script, m, out)
    BY DEF StreamInv, Sending, Gone
  <2>2. m \in Nat /\ m <= n
    BY <1>1, ReachGrows
  <2> QED BY <2>1, <2>2 DEF Fits
<1>3. /\ Fits(text, n, out) /\ Looks(text, text, n, last) /\ Within(text, n, n) /\ Fits(text, n, o)
  BY <1>2, LastLook DEF StreamInv
<1>4. Passed(script, m, out)
  BY DEF ProseInv
<1>5. CASE req.tools /\ ToolStart(text) # NotFound /\ (req.think => Opened(text) # NotFound)
  <2>1. Shaped(text)
    BY <1>1, <1>5, BlockBehind
  <2>2. Taken(text).ok
    <3> DEFINE block == Taken(text)
               split == SplitReasoning(SubSeq(text, 1, TrimWs(text, 0, ToolStart(text))))
    <3>1. ParseMessage(text) = WithCalls(text, block, split)
      BY <1>5 DEF ParseMessage, Taken, FirstBlock
    <3> HIDE DEF block, split
    <3>2. WithCalls(text, block, split).ok => block.ok
      BY DEF WithCalls
    <3> QED BY <3>1, <3>2 DEF block
  <2>3. Readable(text)
    BY <1>5, <2>2 DEF Readable
  <2>4. o.mode = "suppress" /\ Fits(text, n, o) /\ o.block = "none"
    BY <1>5, <2>1, <2>3, LastFollows
  <2> QED BY <1>2, <1>5, <2>4
<1>6. CASE \/ req.think /\ Opened(text) = NotFound
           \/ ~(req.tools /\ ToolStart(text) # NotFound)
  <2>1. out.mode \in {"thinking", "text", "tool", "suppress"}
    BY <1>2 DEF Fits
  <2>2. Opened(text) = NotFound /\ req.think => out.mode = "thinking"
    <3> SUFFICES ASSUME Opened(text) = NotFound, req.think, out.mode # "thinking" PROVE FALSE
      OBVIOUS
    <3>1. Opened(script) # NotFound /\ Opened(script) + 3 <= m
      BY <1>4 DEF Passed
    <3>2. Opened(script) \in Nat
      BY <1>1, <3>1, MarkIs
    <3> HIDE DEF m, n
    <3>3. Opened(script) + 3 <= Len(text)
      BY <1>1, <1>2, <3>1, <3>2 DEF n
    <3> QED BY <1>1, <3>1, <3>3, SampledMarks
  <2>3. ~(req.tools /\ ToolStart(text) # NotFound) => out.mode \in {"thinking", "text"}
    <3> SUFFICES ASSUME ~(req.tools /\ ToolStart(text) # NotFound), out.mode \in {"tool", "suppress"}
                 PROVE FALSE
      BY <2>1
    <3>1. req.tools /\ ToolStart(script) # NotFound /\ ToolStart(script) + 2 <= m
      BY <1>4 DEF Passed
    <3>2. ToolStart(script) \in Nat
      BY <1>1, <3>1, MarkIs
    <3> HIDE DEF m, n
    <3>3. ToolStart(script) + 2 <= Len(text)
      BY <1>1, <1>2, <3>1, <3>2 DEF n
    <3> QED BY <1>1, <3>1, <3>3, SampledMarks
  <2>4. last
    OBVIOUS
  <2> HIDE DEF last, n, m
  <2>5. o.mode = "suppress" /\ NoTool(o) /\ o.block = "none"
    <3>1. /\ Looks(text, text, n, last) /\ Within(text, n, n) /\ Fits(text, n, out)
          /\ out.mode \in {"thinking", "text"} /\ req.tools \in BOOLEAN
          /\ \/ out.mode = "thinking" /\ Opened(text) = NotFound
             \/ ~(req.tools /\ ToolStart(text) # NotFound)
      BY <1>1, <1>3, <1>6, <2>2, <2>3
    <3>2. o.mode = "suppress" /\ NoTool(o) /\ o.block = "none"
      BY ONLY <2>4, <3>1, LastIs DEF o
    <3> QED BY <3>2
  <2> QED BY <1>2, <1>3, <2>5 DEF n, last
<1> QED BY <1>5, <1>6

\* When every call has been shown, or none, the client holds those that were parsed.
LEMMA CallsMatch ==
  ASSUME StreamInv, ProseInv, FollowInv, Caught, phase = "finish", out.mode # "gone",
         ThinksFirst(text), Typed(text), req.tools \/ ToolStart(text) = NotFound,
         FirstBlock(text), Verbatim(text), ParseMessage(text).ok,
         NEW f, f.calls = Remembered(ParseMessage(text).calls)
  PROVE  FinishMessage(Update(out, text, Len(text), TRUE), text, f).calls = f.calls
<1> DEFINE n == Len(text)
           o == Update(out, text, n, TRUE)
           b == ParseMessage(text).calls
           r == FinishMessage(o, text, f)
           shown == IF o.tool.emitted THEN o.tool.index ELSE 0
<1>1. /\ text \in Texts /\ req.tools \in BOOLEAN /\ req.think \in BOOLEAN /\ req.api \in Api /\ n \in Nat
  BY TurnIs DEF StreamInv
<1>2. Shaped(text) /\ ~BlockInReasoning(text)
  <2>1. /\ Opened(text) # NotFound => Opened(text) \in Nat
        /\ ToolStart(text) # NotFound => ToolStart(text) \in Nat
    BY <1>1, MarkIs
  <2> QED BY <2>1 DEF ThinksFirst, Shaped, BlockInReasoning
<1>3. Fits(text, n, o) /\ o.mode = "suppress" /\ o.block = "none"
      /\ (~(req.tools /\ ToolStart(text) # NotFound) => NoTool(o))
  BY <1>2, LastClosed
<1>4. o \in OutT /\ o.ok /\ o.legal
  BY <1>3 DEF Fits
<1>5. /\ b = (IF ToolStart(text) = NotFound THEN <<>> ELSE Taken(text).out)
      /\ ToolStart(text) # NotFound => Taken(text).ok
  BY <1>1, ParseIs
<1>6. b \in Seq(Texts)
  <2>1. CASE ToolStart(text) = NotFound
    BY <1>5, <2>1
  <2>2. CASE ToolStart(text) # NotFound
    <3> DEFINE p == ToolStart(text) + 2
               c == ParseCalls(text, p)
    <3>1. p \in 0..Len(text)
      BY <1>1, <2>2, MarkIs
    <3>2. BlockOn(text, p, c)
      BY <1>1, <3>1, ParseCallsType
    <3>3. b = c.out
      BY <1>5, <2>2 DEF Taken
    <3> HIDE DEF c, b
    <3> QED BY <3>2, <3>3 DEF BlockOn, BlockT
  <2> QED BY <2>1, <2>2
<1>7. r.calls = CASE req.api = "openai" -> IF o.tool.emitted THEN o.calls ELSE f.calls
                  [] req.api = "anthropic" -> o.calls \o SubSeq(f.calls, shown + 1, Len(f.calls))
                  [] OTHER -> f.calls
  <2> HIDE DEF o
  <2> QED BY <1>1, <1>3, <1>4, FinishIs
<1> HIDE DEF o, b, r
<1>8. CASE NoTool(o)
  <2>1. o.calls = <<>> /\ ~o.tool.emitted
    BY <1>8, ToolIdleIs DEF NoTool
  <2> DEFINE calls == f.calls
  <2>4. <<>> \o SubSeq(calls, 1, Len(calls)) = calls
    <3> DEFINE l == Len(b)
    <3>1. l \in Nat /\ DOMAIN b = 1..l
      BY <1>6, LenProperties
    <3> HIDE DEF l
    <3>2. Remembered(b) = [i \in 1..l |-> Remembered(b)[i]]
      BY <3>1, RememberedType
    <3>3. calls = [i \in 1..l |-> calls[i]]
      BY <3>2 DEF b
    <3> HIDE DEF calls
    <3> QED BY <3>1, <3>3, WholeSeq
  <2> HIDE DEF calls
  <2>5. shown = 0 /\ shown + 1 = 1
    BY <2>1
  <2> HIDE DEF shown
  <2>6. r.calls = calls
    BY <1>7, <2>1, <2>4, <2>5 DEF calls
  <2> QED BY <2>6 DEF r, o, calls
<1>9. CASE ~NoTool(o)
  <2>1. req.tools /\ ToolStart(text) # NotFound
    BY <1>3, <1>9
  <2>2. Readable(text) /\ b = Taken(text).out
    BY <1>5, <2>1 DEF Readable
  <2>3. /\ InTool(text, o) /\ o.tool.state = "done" /\ o.tool.index = Len(b) /\ Shows(text, o, b)
        /\ Len(b) <= Len(out.calls)
    BY <1>2, <1>9, <2>1, <2>2, LastFollows DEF o
  <2>4. /\ Len(o.calls) = Len(b) /\ (o.tool.emitted <=> Len(o.calls) > 0)
        /\ \A i \in 1..Len(o.calls) : o.calls[i].id = <<"stream", i>>
        /\ \A i \in 1..o.tool.index : ~o.calls[i].open
    BY <2>3 DEF InTool, CallsFit
  <2>5. o.calls \in Seq(CallT) /\ Len(out.calls) \in Nat
    <3>1. out.calls \in Seq(CallT)
      BY DEF StreamInv, Sending, Gone, Fits, OutT
    <3> QED BY <1>4, <3>1 DEF OutT
  <2>6. Remembered(b) = o.calls
    <3>1. \A i \in 1..Len(b) : o.calls[i].id = <<"stream", i>> /\ o.calls[i].args = b[i] /\ ~o.calls[i].open
      BY <2>3, <2>4 DEF Shows
    <3> QED BY <1>6, <2>3, <2>4, <2>5, <3>1, RememberedIs
  <2>7. f.calls = o.calls
    BY <2>6 DEF b
  <2>8. shown = Len(f.calls)
    <3>1. Len(b) \in Nat
      BY <1>6
    <3> QED BY <2>3, <2>4, <2>7, <3>1
  <2> DEFINE calls == o.calls
             l == Len(calls)
  <2>9. calls \o SubSeq(calls, l + 1, l) = calls
    <3> HIDE DEF calls
    <3> QED BY <2>5, NothingBehind DEF calls
  <2>10. r.calls = f.calls
    <3> HIDE DEF shown, calls
    <3>1. f.calls = calls /\ shown = l /\ o.calls = calls
      BY <2>7, <2>8 DEF calls
    <3> HIDE DEF l
    <3>2. calls \o SubSeq(calls, shown + 1, Len(calls)) = calls
      BY <2>9, <3>1 DEF l
    <3> QED BY <1>7, <3>1, <3>2
  <2> QED BY <2>10 DEF r, o
<1> QED BY <1>8, <1>9

\* The last look at a turn that a client has stayed for: what it is left with is what
\* generate_job returns, block for block and call for call.
LEMMA FinishMatches ==
  ASSUME StreamInv, ProseInv, FollowInv, Caught, Finish
  PROVE  StreamedMatchesFinal' /\ BlocksClosed'
<1> DEFINE o == Update(out, text, Len(text), TRUE)
           p == ParseMessage(text)
<1>1. /\ phase = "finish" /\ req' = req /\ text' = text
      /\ final' = Conclude /\ out' = FinishStream(out, text, final')
  BY DEF Finish
<1>2. CASE out.mode = "gone"
  <2>1. ~out.ok
    BY <1>1, <1>2 DEF StreamInv, Sending, Gone, Fits
  <2>2. out' = out
    BY <1>1, <2>1 DEF FinishStream, FinishMessage
  <2>3. ~Concluded'
    BY <1>2, <2>2 DEF Concluded
  <2> QED BY <2>3 DEF StreamedMatchesFinal, BlocksClosed
<1>3. CASE out.mode # "gone"
  <2>1. out.ok
    BY <1>1, <1>3 DEF StreamInv, Sending, Gone, Fits
  <2>2. out' = FinishMessage(o, text, final')
    BY <1>1, <2>1 DEF FinishStream
  <2>3. /\ text \in Texts /\ script \in Texts /\ Begins(text, script)
        /\ req.tools \in BOOLEAN /\ req.think \in BOOLEAN /\ req.api \in Api
    BY TurnIs DEF StreamInv
  <2>4. /\ final'.ok = p.ok /\ final'.reasoning = p.reasoning /\ final'.content = p.content
        /\ final'.calls = Remembered(p.calls)
        /\ final'.recovered = (~p.ok /\ req.tools /\ seen.start /\ FailUnterminated # "error")
    BY <1>1 DEF Conclude, ConcludeFrom
  <2>5. /\ (ThinksFirst(text)' <=> ThinksFirst(text)) /\ (Typed(text)' <=> Typed(text))
        /\ (BlockInReasoning(text)' <=> BlockInReasoning(text))
        /\ (FirstBlock(text)' <=> FirstBlock(text)) /\ (Verbatim(text)' <=> Verbatim(text))
        /\ (ToolStart(text)' = ToolStart(text)) /\ req.tools' = req.tools
    BY <1>1 DEF ThinksFirst, Typed, FirstBlock, Verbatim, BlockInReasoning
  <2>6. ASSUME p.ok, Typed(text), FirstBlock(text), ~BlockInReasoning(text)
        PROVE  /\ o \in OutT /\ o.mode = "suppress"
               /\ out'.ok /\ out'.legal /\ out'.stopped
               /\ out'.reasoning = o.reasoning /\ out'.content = o.content
    <3>1. Fits(text, Len(text), o) /\ o.mode = "suppress" /\ o.block = "none"
      BY <1>1, <1>3, <2>6, LastClosed
    <3>2. o \in OutT /\ o.ok /\ o.legal
      BY <3>1 DEF Fits
    <3> HIDE DEF o
    <3>3. out'.ok /\ out'.legal /\ out'.stopped
      BY <2>2, <2>3, <3>1, <3>2, FinishIs
    <3>4. ~final'.recovered
      BY <2>4, <2>6
    <3>5. out'.reasoning = o.reasoning /\ out'.content = o.content
      BY <2>2, <3>2, <3>4, FinishKeeps
    <3> QED BY <3>1, <3>2, <3>3, <3>5
  <2>7. BlocksClosed'
    <3>1. ASSUME final'.ok, Typed(text), FirstBlock(text), ~BlockInReasoning(text) PROVE out'.ok /\ out'.legal
      BY <2>4, <2>6, <3>1
    <3> HIDE DEF o, p
    <3> QED BY <2>5, <3>1 DEF BlocksClosed
  <2>8. StreamedMatchesFinal'
    <3> SUFFICES ASSUME final'.ok, ThinksFirst(text), Typed(text), req.tools \/ ToolStart(text) = NotFound,
                        FirstBlock(text), Verbatim(text)
                 PROVE  /\ out'.ok /\ out'.stopped
                        /\ out'.content = final'.content
                        /\ out'.reasoning = final'.reasoning
                        /\ out'.calls = final'.calls
      <4> HIDE DEF o, p
      <4> QED BY <2>5 DEF StreamedMatchesFinal
    <3>1. p.ok
      BY <2>4
    <3>2. Shaped(text) /\ ~BlockInReasoning(text) /\ (req.think => Opened(text) # NotFound)
      <4>1. /\ Opened(text) # NotFound => Opened(text) \in Nat
            /\ ToolStart(text) # NotFound => ToolStart(text) \in Nat
        BY <2>3, MarkIs
      <4> QED BY <4>1 DEF ThinksFirst, Shaped, BlockInReasoning
    <3>3. /\ o.mode = "suppress" /\ out'.ok /\ out'.stopped
          /\ out'.reasoning = o.reasoning /\ out'.content = o.content
      BY <2>6, <3>1, <3>2
    <3>4. Prose(text, o)
      <4>1. Shaped(script)
        BY <2>3, <3>2, ShapeGrows
      <4> QED BY <1>1, <1>3, <3>2, <4>1, ProseFinish
    <3>5. o.content = Cut(text, From(text), Ends(text)) /\ o.reasoning = Thoughts(text)
      <4> HIDE DEF o
      <4> QED BY <3>3, <3>4 DEF Prose
    <3>6. p.content = Cut(text, From(text), Ends(text)) /\ p.reasoning = Thoughts(text)
      BY <2>3, <3>1, ParseIs
    <3>7. out'.calls = final'.calls
      <4>1. FinishMessage(o, text, final').calls = final'.calls
        BY <1>1, <1>3, <2>4, <3>1, CallsMatch
      <4> HIDE DEF o
      <4> QED BY <2>2, <4>1
    <3> HIDE DEF o, p
    <3> QED BY <2>4, <3>3, <3>5, <3>6, <3>7
  <2> QED BY <2>7, <2>8
<1> QED BY <1>2, <1>3

\* No other step concludes a turn, and a turn that is over stays as it is.
LEMMA QuietMatches ==
  ASSUME StreamedMatchesFinal, BlocksClosed,
         (\E k \in 1..MaxToken : Token(k)) \/ (\E why \in {"stop", "length", "error"} : EndTurn(why))
           \/ LoseClient \/ UNCHANGED vars
  PROVE  StreamedMatchesFinal' /\ BlocksClosed'
<1>1. CASE UNCHANGED vars
  BY <1>1 DEF vars, StreamedMatchesFinal, BlocksClosed, Concluded, ThinksFirst, Typed, FirstBlock, Verbatim,
              BlockInReasoning
<1>2. CASE ~UNCHANGED vars
  <2>1. phase' # "done"
    BY <1>2 DEF Token, EndTurn, LoseClient
  <2> QED BY <2>1 DEF StreamedMatchesFinal, BlocksClosed, Concluded
<1> QED BY <1>1, <1>2

\* Throughout a turn the calls shown and the part of the block not yet taken up are together the calls
\* that can be read at the first marker, word for word if no raw value is rewritten, and a block that
\* has been sampled is being followed.
THEOREM FollowInvariant == Spec => [](FollowInv /\ Caught)
<1>1. StreamInv /\ ProseInv /\ (FollowInv /\ Caught) /\ [Next]_vars => (FollowInv /\ Caught)'
  <2> SUFFICES ASSUME StreamInv, ProseInv, FollowInv, Caught, [Next]_vars PROVE FollowInv' /\ Caught'
    OBVIOUS
  <2>1. ASSUME NEW k \in 1..MaxToken, Token(k) PROVE FollowInv' /\ Caught'
    BY <2>1, TokenFollows
  <2>2. ASSUME NEW why \in {"stop", "length", "error"}, EndTurn(why) PROVE FollowInv' /\ Caught'
    BY <2>2, QuietFollows
  <2>3. CASE LoseClient \/ Finish
    BY <2>3, GoneFollows
  <2>4. CASE UNCHANGED vars
    BY <2>4, QuietFollows
  <2> QED BY <2>1, <2>2, <2>3, <2>4 DEF Next
<1> QED BY <1>1, InitFollows, StreamInvariant, ProseInvariant, PTL DEF Spec

\* What a client that streams is left with is what one that does not would have been sent, and
\* every block it was sent has been closed.
LEMMA Delivered == Spec => [](StreamedMatchesFinal /\ BlocksClosed)
<1>1. Init => StreamedMatchesFinal /\ BlocksClosed
  <2> SUFFICES ASSUME Init PROVE StreamedMatchesFinal /\ BlocksClosed
    OBVIOUS
  <2>1. phase # "done"
    BY DEF Init
  <2> QED BY <2>1 DEF StreamedMatchesFinal, BlocksClosed, Concluded
<1>2. StreamInv /\ ProseInv /\ (FollowInv /\ Caught) /\ (StreamedMatchesFinal /\ BlocksClosed) /\ [Next]_vars
        => (StreamedMatchesFinal /\ BlocksClosed)'
  <2> SUFFICES ASSUME StreamInv, ProseInv, FollowInv, Caught, StreamedMatchesFinal, BlocksClosed, [Next]_vars
               PROVE  StreamedMatchesFinal' /\ BlocksClosed'
    OBVIOUS
  <2>1. CASE Finish
    BY <2>1, FinishMatches
  <2>2. CASE ~Finish
    BY <2>2, QuietMatches DEF Next
  <2> QED BY <2>1, <2>2
<1> QED BY <1>1, <1>2, StreamInvariant, ProseInvariant, FollowInvariant, PTL DEF Spec

\* A client that put the deltas together holds the reasoning, the content, the call ids and the
\* argument objects that a client that did not stream would have been sent.
THEOREM StreamedIsFinal == Spec => []StreamedMatchesFinal
BY Delivered, PTL

\* Every block is closed when the message stops.
THEOREM BlocksAreClosed == Spec => []BlocksClosed
BY Delivered, PTL

=============================================================================
