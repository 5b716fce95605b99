------------------------ MODULE EngineSessionProofs ------------------------
(***************************************************************************)
(* Proofs about the inference session for every vocabulary, every target   *)
(* model, every size of the context, the window, the prefill batch and the *)
(* raw ring, any number of drafts, and every failure.                      *)
(***************************************************************************)
EXTENDS EngineSession, CountingLemmas, SequenceTheorems

Texts == {t \in Seq(Token) : Len(t) <= CtxSize}

Gpus == [raw   : [0 .. RawCap - 1 -> Texts],
         comp  : [0 .. CompCap - 1 -> Texts],
         ncomp : 0 .. CompCap,
         front : Texts]

\* The raw rows that what follows text t attends to.
RawFor(g, t) == \A p \in Past(Len(t)) : g.raw[Slot(p)] = Upto(t, p + 1)

Good(g, t) == CompressedFor(g, t) /\ RawFor(g, t)
-----------------------------------------------------------------------------
(* Sizes.                                                                  *)

LEMMA Sizes ==
  /\ CtxSize \in Nat \ {0} /\ Window \in Nat \ {0} /\ PrefillCap \in Nat \ {0}
  /\ Ratio \in Nat \ {0} /\ Ratio > 2 /\ DraftMax \in Nat \ {0}
  /\ ResumeMin \in Nat \ {0}
  /\ Window <= CtxSize /\ PrefillCap <= CtxSize
BY SizesAssumption

\* The ring holds a window and a batch, or the whole context.
LEMMA RingIsLongEnough ==
  /\ RawCap \in Nat \ {0} /\ RawCap <= CtxSize /\ Window <= RawCap
  /\ RawCap >= Window + PrefillCap \/ RawCap = CtxSize
<1> DEFINE wanted == Lesser(Window + PrefillCap, CtxSize)
           q == (wanted + RawAlign - 1) \div RawAlign
           padded == q * RawAlign
<1>1. wanted \in Nat \ {0} /\ wanted <= CtxSize /\ wanted <= Window + PrefillCap
      /\ (wanted = Window + PrefillCap \/ wanted = CtxSize) /\ wanted <= RawMax
  BY SizesAssumption DEF Lesser
<1>2. RawAlign \in Nat \ {0} /\ RawMax \in Nat
  BY SizesAssumption
<1>3. q \in Nat /\ padded \in Nat /\ padded >= wanted
  <2> DEFINE a == wanted + RawAlign - 1
             r == a % RawAlign
  <2>1. a \in Nat
    BY <1>1, <1>2
  <2> HIDE DEF wanted, a
  <2>2. a \div RawAlign \in Nat /\ r \in 0..(RawAlign - 1)
        /\ a = RawAlign * (a \div RawAlign) + r
    BY <1>2, <2>1, Division
  <2>3. q = a \div RawAlign
    BY DEF a
  <2> HIDE DEF q, r
  <2>4. q \in Nat /\ q * RawAlign = RawAlign * q /\ RawAlign * q \in Nat
    BY <1>2, <2>2, <2>3
  <2>5. RawAlign * q >= wanted
    <3>1. a = RawAlign * q + r /\ r <= RawAlign - 1 /\ r \in Nat
      BY <1>2, <2>2, <2>3
    <3>2. RawAlign * q \in Nat
      BY <2>4
    <3> DEFINE w == RawAlign * q
    <3> HIDE DEF w
    <3> QED BY <1>1, <1>2, <3>1, <3>2 DEF a, w
  <2> QED BY <2>4, <2>5
<1>4. RawCap = Lesser(Greater(Lesser(padded, RawMax), Window), CtxSize)
  BY DEF RawCap
<1> HIDE DEF wanted, q, padded
<1> QED BY <1>1, <1>2, <1>3, <1>4, Sizes DEF Lesser, Greater

\* Positions closer than a ring length have rows of their own.
LEMMA SlotsDiffer ==
  ASSUME NEW p \in Nat, NEW q \in Nat, p # q, p - q < RawCap, q - p < RawCap
  PROVE  Slot(p) # Slot(q)
<1>1. RawCap \in Nat \ {0}
  BY RingIsLongEnough
<1>2. CASE p < q
  BY <1>1, <1>2, Residues DEF Slot
<1>3. CASE q < p
  BY <1>1, <1>3, Residues DEF Slot
<1> QED BY <1>2, <1>3

LEMMA SlotType == ASSUME NEW p \in Nat PROVE Slot(p) \in 0 .. RawCap - 1
<1>1. RawCap \in Nat \ {0}
  BY RingIsLongEnough
<1> QED BY <1>1, Division DEF Slot

LEMMA CompCapType == CompCap \in Nat /\ \A n \in 0..CtxSize : n \div Ratio \in 0..CompCap
<1>1. CtxSize \div Ratio \in Nat
  BY Sizes, Division
<1>2. ASSUME NEW n \in 0..CtxSize PROVE n \div Ratio \in 0..(CtxSize \div Ratio)
  BY Sizes, Division, DivMonotone
<1> QED BY <1>1, <1>2 DEF CompCap

LEMMA PastType ==
  ASSUME NEW n \in Nat, NEW p \in Past(n)
  PROVE  p \in Nat /\ p < n /\ n - p < Window
BY Sizes DEF Past, Greater

LEMMA PastMember ==
  ASSUME NEW n \in Nat, NEW p \in Nat, p < n, n - p < Window
  PROVE  p \in Past(n)
BY Sizes DEF Past, Greater
-----------------------------------------------------------------------------
(* Texts.                                                                  *)

LEMMA EmptyText == Garbage \in Texts /\ Len(Garbage) = 0
BY Sizes DEF Garbage, Texts

LEMMA UptoText ==
  ASSUME NEW t \in Seq(Token), NEW n \in 0..Len(t)
  PROVE  /\ Upto(t, n) \in Seq(Token) /\ Len(Upto(t, n)) = n
         /\ \A i \in 1..n : Upto(t, n)[i] = t[i]
<1>1. n \in Int /\ \A i \in 1..n : t[i] \in Token
  OBVIOUS
<1> QED BY <1>1, SubSeqProperties DEF Upto

LEMMA SameText ==
  ASSUME NEW s \in Seq(Token), NEW t \in Seq(Token), Len(s) = Len(t),
         \A i \in 1..Len(t) : s[i] = t[i]
  PROVE  s = t
OBVIOUS

LEMMA UptoUpto ==
  ASSUME NEW t \in Seq(Token), NEW n \in 0..Len(t), NEW m \in 0..n
  PROVE  Upto(Upto(t, n), m) = Upto(t, m)
<1>1. m \in 0..Len(t) /\ Len(t) \in Nat
  OBVIOUS
<1>2. Upto(t, n) \in Seq(Token) /\ Len(Upto(t, n)) = n
      /\ \A i \in 1..n : Upto(t, n)[i] = t[i]
  BY UptoText
<1>3. Upto(t, m) \in Seq(Token) /\ Len(Upto(t, m)) = m
      /\ \A i \in 1..m : Upto(t, m)[i] = t[i]
  BY <1>1, UptoText
<1>4. Upto(Upto(t, n), m) \in Seq(Token) /\ Len(Upto(Upto(t, n), m)) = m
      /\ \A i \in 1..m : Upto(Upto(t, n), m)[i] = Upto(t, n)[i]
  BY <1>2, UptoText
<1> QED BY <1>2, <1>3, <1>4, SameText

LEMMA UptoAll == ASSUME NEW t \in Seq(Token) PROVE Upto(t, Len(t)) = t
BY SubSeqFull DEF Upto

LEMMA UptoType ==
  ASSUME NEW t \in Texts, NEW n \in 0..Len(t)
  PROVE  Upto(t, n) \in Texts /\ Len(Upto(t, n)) = n
<1>1. t \in Seq(Token) /\ Len(t) <= CtxSize /\ Len(t) \in Nat
  BY DEF Texts
<1>2. Upto(t, n) \in Seq(Token) /\ Len(Upto(t, n)) = n
  BY <1>1, UptoText
<1> QED BY <1>1, <1>2, Sizes DEF Texts
-----------------------------------------------------------------------------
(* What storing rows leaves in the backend.                                *)

LEMMA BlankType == Blank \in Gpus /\ Blank.ncomp = 0
<1>1. Garbage \in Texts /\ RawCap \in Nat /\ CompCap \in Nat
  BY EmptyText, RingIsLongEnough, CompCapType
<1> QED BY <1>1 DEF Blank, Gpus

LEMMA Emitted ==
  ASSUME NEW n \in 0..CtxSize, NEW start \in 0..n
  PROVE  /\ start \div Ratio \in Nat /\ n \div Ratio \in 0..CompCap
         /\ start \div Ratio <= n \div Ratio
         /\ \A i \in 0..(n \div Ratio - 1) : (i + 1) * Ratio \in 0..n
<1>1. n \in Nat /\ start \in Nat /\ Ratio \in Nat \ {0}
  BY Sizes
<1>2. start \div Ratio \in Nat /\ start \div Ratio <= n \div Ratio
  <2>1. start \div Ratio \in Nat
    BY <1>1, Division
  <2> QED BY <1>1, <2>1, DivMonotone
<1>3. n \div Ratio \in 0..CompCap
  BY CompCapType
<1>4. ASSUME NEW i \in 0..(n \div Ratio - 1) PROVE (i + 1) * Ratio \in 0..n
  <2>1. n \div Ratio \in Nat
    BY <1>1, Division
  <2>2. i + 1 \in Nat /\ i + 1 <= n \div Ratio
    BY <2>1
  <2>3. Ratio * (i + 1) <= n
    BY <1>1, <2>2, GroupsFit
  <2>4. (i + 1) * Ratio = Ratio * (i + 1) /\ (i + 1) * Ratio \in Nat
    BY <1>1, <2>2
  <2> QED BY <1>1, <2>3, <2>4
<1> QED BY <1>2, <1>3, <1>4

\* The rows of a batch no longer than the ring are all there afterwards, and the
\* rows before it that are not a ring length back.
LEMMA StoredRaw ==
  ASSUME NEW g \in Gpus, NEW t \in Texts, NEW start \in 0..Len(t), NEW good \in BOOLEAN,
         NEW p \in 0..(Len(t) - 1), Len(t) - p <= RawCap
  PROVE  Stored(g, t, start, good).raw[Slot(p)] =
           IF p < start THEN g.raw[Slot(p)]
           ELSE IF good THEN Upto(t, p + 1) ELSE Garbage
<1> DEFINE written == {q \in start .. Len(t) - 1 : Slot(q) = Slot(p)}
           last == CHOOSE q \in written : \A r \in written : r <= q
<1>1. Len(t) \in Nat /\ p \in Nat /\ RawCap \in Nat
  BY RingIsLongEnough DEF Texts
<1>2. \A q \in start .. Len(t) - 1 : q # p /\ q > p - RawCap => Slot(q) # Slot(p)
  <2> TAKE q \in start .. Len(t) - 1
  <2> HAVE q # p /\ q > p - RawCap
  <2>1. q \in Nat /\ p - q < RawCap /\ q - p < RawCap
    BY <1>1
  <2> QED BY <1>1, <2>1, SlotsDiffer
<1>3. Slot(p) \in DOMAIN g.raw
  BY <1>1, SlotType DEF Gpus
<1>4. Stored(g, t, start, good).raw[Slot(p)] =
        IF written = {} THEN g.raw[Slot(p)]
        ELSE IF good THEN Upto(t, last + 1) ELSE Garbage
  BY <1>3 DEF Stored
<1>5. CASE p < start
  <2>1. written = {}
    BY <1>1, <1>2, <1>5
  <2> QED BY <1>4, <1>5, <2>1
<1>6. CASE p >= start
  <2>1. p \in written /\ \A q \in written : q <= p
    <3>1. ASSUME NEW q \in written, q > p PROVE FALSE
      BY <1>1, <1>2, <3>1
    <3> QED BY <1>1, <1>6, <3>1
  <2>2. last = p
    <3>1. \A q \in written : (\A r \in written : r <= q) => q = p
      BY <1>1, <2>1
    <3> HIDE DEF written
    <3> QED BY <2>1, <3>1
  <2>3. written # {}
    BY <2>1
  <2> HIDE DEF written, last
  <2> QED BY <1>1, <1>4, <1>6, <2>2, <2>3
<1> QED BY <1>1, <1>5, <1>6

LEMMA StoredComp ==
  ASSUME NEW g \in Gpus, NEW t \in Texts, NEW start \in 0..Len(t), NEW good \in BOOLEAN,
         g.ncomp = start \div Ratio
  PROVE  LET h == Stored(g, t, start, good) IN
         /\ h.ncomp = Len(t) \div Ratio
         /\ h.front = IF good THEN Upto(t, Len(t)) ELSE Garbage
         /\ \A i \in 0..(g.ncomp - 1) : h.comp[i] = g.comp[i]
         /\ \A i \in g.ncomp..(h.ncomp - 1) :
              h.comp[i] = IF good THEN Upto(t, (i + 1) * Ratio) ELSE Garbage
<1>1. /\ Len(t) \in 0..CtxSize /\ start \div Ratio \in Nat
      /\ Len(t) \div Ratio \in 0..CompCap
      /\ start \div Ratio <= Len(t) \div Ratio
  BY Emitted DEF Texts
<1>2. DOMAIN g.comp = 0..(CompCap - 1) /\ CompCap \in Nat
  BY CompCapType DEF Gpus
<1> DEFINE k == start \div Ratio
           n == Len(t) \div Ratio
           h == Stored(g, t, start, good)
           row(m) == IF good THEN Upto(t, m) ELSE Garbage
<1>3. k \in Nat /\ n \in 0..CompCap /\ k <= n /\ g.ncomp = k
  BY <1>1
<1>4. /\ h.ncomp = g.ncomp + (n - k) /\ h.front = row(Len(t))
      /\ \A i \in 0..(CompCap - 1) :
           h.comp[i] = IF i \in g.ncomp .. g.ncomp + (n - k) - 1
                       THEN row((k + i - g.ncomp + 1) * Ratio) ELSE g.comp[i]
  BY <1>2 DEF Stored
<1> HIDE DEF k, n, h, row
<1>5. h.ncomp = n
  BY <1>3, <1>4
<1>6. \A i \in 0..(g.ncomp - 1) : h.comp[i] = g.comp[i]
  BY <1>2, <1>3, <1>4
<1>7. ASSUME NEW i \in g.ncomp..(n - 1) PROVE h.comp[i] = row((i + 1) * Ratio)
  <2>1. i \in 0..(CompCap - 1) /\ i \in g.ncomp .. g.ncomp + (n - k) - 1
    BY <1>2, <1>3
  <2>2. k + i - g.ncomp + 1 = i + 1
    BY <1>3
  <2> QED BY <1>4, <2>1, <2>2
<1> QED BY <1>4, <1>5, <1>6, <1>7 DEF k, n, h, row

LEMMA StoredType ==
  ASSUME NEW g \in Gpus, NEW t \in Texts, NEW start \in 0..Len(t), NEW good \in BOOLEAN,
         g.ncomp = start \div Ratio \/ InCaches(Stored(g, t, start, good))
  PROVE  Stored(g, t, start, good) \in Gpus
<1> DEFINE h == Stored(g, t, start, good)
<1> DEFINE k == start \div Ratio
           n == Len(t) \div Ratio
           row(m) == IF good THEN Upto(t, m) ELSE Garbage
<1>1. /\ Len(t) \in 0..CtxSize /\ k \in Nat /\ n \in 0..CompCap /\ k <= n
      /\ \A i \in 0..(n - 1) : (i + 1) * Ratio \in 0..Len(t)
  BY Emitted DEF Texts
<1>2. h.ncomp \in 0..CompCap /\ h.ncomp = g.ncomp + (n - k) /\ h.front \in Texts
      /\ g.ncomp \in Nat /\ CompCap \in Nat
  <2>1. h.ncomp = g.ncomp + (n - k) /\ h.front = row(Len(t))
    BY DEF Stored
  <2>2. g.ncomp \in Nat /\ CompCap \in Nat
    BY CompCapType DEF Gpus
  <2>3. row(Len(t)) \in Texts
    <3>1. Len(t) \in 0..Len(t)
      BY <1>1
    <3> QED BY <3>1, UptoType, EmptyText
  <2>4. g.ncomp = k \/ h.ncomp <= CompCap
    BY DEF InCaches
  <2> HIDE DEF h, k, n, row
  <2> QED BY <1>1, <2>1, <2>2, <2>3, <2>4
<1>3. h.raw \in [0 .. RawCap - 1 -> Texts]
  <2>1. ASSUME NEW s \in 0 .. RawCap - 1,
               NEW written, written = {p \in start .. Len(t) - 1 : Slot(p) = s},
               NEW last, last = CHOOSE p \in written : \A q \in written : q <= p
        PROVE  (IF written = {} THEN g.raw[s]
                ELSE IF good THEN Upto(t, last + 1) ELSE Garbage) \in Texts
    <3>1. CASE written = {}
      BY <3>1 DEF Gpus
    <3>2. CASE written # {}
      <4>1. written \in SUBSET Nat /\ Len(t) \in Nat /\ \A q \in written : q <= Len(t)
        BY <1>1, <2>1
      <4>2. \E p \in written : \A q \in written : q <= p
        BY <3>2, <4>1, GreatestMember
      <4>3. last \in written
        BY <2>1, <4>2
      <4>4. last + 1 \in 0..Len(t)
        BY <1>1, <2>1, <4>3
      <4> QED BY <3>2, <4>4, UptoType, EmptyText
    <3> QED BY <3>1, <3>2
  <2>2. DOMAIN g.raw = 0 .. RawCap - 1
    BY DEF Gpus
  <2> QED BY <2>1, <2>2 DEF Stored
<1>4. h.comp \in [0 .. CompCap - 1 -> Texts]
  <2>1. DOMAIN g.comp = 0 .. CompCap - 1
    BY DEF Gpus
  <2>2. h.comp = [i \in 0 .. CompCap - 1 |->
                    IF i \in g.ncomp .. g.ncomp + (n - k) - 1
                    THEN row((k + i - g.ncomp + 1) * Ratio) ELSE g.comp[i]]
    BY <2>1 DEF Stored
  <2>3. ASSUME NEW i \in g.ncomp .. g.ncomp + (n - k) - 1
        PROVE  row((k + i - g.ncomp + 1) * Ratio) \in Texts
    <3> HIDE DEF k, n
    <3>1. k + i - g.ncomp \in 0..(n - 1)
      BY <1>1, <1>2
    <3>2. (k + i - g.ncomp + 1) * Ratio \in 0..Len(t)
      BY <1>1, <3>1
    <3> QED BY <3>2, UptoType, EmptyText
  <2>4. \A i \in 0 .. CompCap - 1 : g.comp[i] \in Texts
    BY DEF Gpus
  <2> HIDE DEF k, n, row, h
  <2> QED BY <2>2, <2>3, <2>4
<1>5. h = [raw |-> h.raw, comp |-> h.comp, ncomp |-> h.ncomp, front |-> h.front]
  BY DEF Stored
<1> HIDE DEF h, k, n, row
<1> QED BY <1>2, <1>3, <1>4, <1>5 DEF Gpus, h
-----------------------------------------------------------------------------
(* A backend that has the rows of the first k tokens of text t.            *)

Kept(g, t, k) ==
  /\ \A i \in 0 .. (k \div Ratio) - 1 : g.comp[i] = Upto(t, (i + 1) * Ratio)
  /\ \A p \in Past(k) : g.raw[Slot(p)] = Upto(t, p + 1)

Holding(g, t, k) == Kept(g, t, k) /\ g.ncomp = k \div Ratio /\ g.front = Upto(t, k)

LEMMA GoodIsHolding ==
  ASSUME NEW g, NEW t \in Texts, NEW k \in 0..Len(t)
  PROVE  Good(g, Upto(t, k)) <=> Holding(g, t, k)
<1>1. t \in Seq(Token) /\ Len(t) \in Nat /\ k \in 0..CtxSize
  BY Sizes DEF Texts
<1>2. Len(Upto(t, k)) = k
  BY UptoType
<1>3. ASSUME NEW i \in 0 .. (k \div Ratio) - 1
      PROVE  Upto(Upto(t, k), (i + 1) * Ratio) = Upto(t, (i + 1) * Ratio)
  <2>1. (i + 1) * Ratio \in 0..k
    BY <1>1, Emitted
  <2> QED BY <1>1, <2>1, UptoUpto
<1>4. ASSUME NEW p \in Past(k) PROVE Upto(Upto(t, k), p + 1) = Upto(t, p + 1)
  <2>1. p + 1 \in 0..k
    BY <1>1, PastType
  <2> QED BY <1>1, <2>1, UptoUpto
<1> DEFINE n == k \div Ratio
<1>5. Good(g, Upto(t, k)) <=>
        /\ g.front = Upto(t, k) /\ g.ncomp = n
        /\ \A i \in 0 .. n - 1 : g.comp[i] = Upto(Upto(t, k), (i + 1) * Ratio)
        /\ \A p \in Past(k) : g.raw[Slot(p)] = Upto(Upto(t, k), p + 1)
  <2>1. CompressedFor(g, Upto(t, k)) <=>
        /\ g.front = Upto(t, k) /\ g.ncomp = n
        /\ \A i \in 0 .. n - 1 : g.comp[i] = Upto(Upto(t, k), (i + 1) * Ratio)
    BY <1>2 DEF CompressedFor
  <2> QED BY <1>2, <2>1 DEF Good, RawFor
<1>6. Holding(g, t, k) <=>
        /\ g.front = Upto(t, k) /\ g.ncomp = n
        /\ \A i \in 0 .. n - 1 : g.comp[i] = Upto(t, (i + 1) * Ratio)
        /\ \A p \in Past(k) : g.raw[Slot(p)] = Upto(t, p + 1)
  BY DEF Holding, Kept
<1>7. \A i \in 0 .. n - 1 : Upto(Upto(t, k), (i + 1) * Ratio) = Upto(t, (i + 1) * Ratio)
  BY <1>3
<1> HIDE DEF n
<1> QED BY <1>4, <1>5, <1>6, <1>7

LEMMA BlankHolds == ASSUME NEW t \in Texts PROVE Holding(Blank, t, 0)
<1>1. 0 \div Ratio = 0
  BY Sizes
<1>2. Past(0) = {}
  BY Sizes DEF Past, Greater
<1>3. Upto(t, 0) = Garbage
  BY SubSeqEmpty DEF Upto, Garbage
<1> QED BY <1>1, <1>2, <1>3 DEF Holding, Kept, Blank

\* A batch, or two tokens, overwrite nothing that a text ending in them needs.
Short(n) == n <= PrefillCap \/ n <= 2

LEMMA RoomInRing ==
  ASSUME NEW t \in Texts, NEW start \in 0..Len(t), Short(Len(t) - start),
         NEW k \in start..Len(t), NEW p \in Past(k)
  PROVE  p \in 0..(Len(t) - 1) /\ p < k /\ Len(t) - p <= RawCap /\ Len(t) - start <= RawCap
<1>1. Len(t) \in Nat /\ Len(t) <= CtxSize /\ k \in Nat
  BY DEF Texts
<1>2. p \in Nat /\ p < k /\ k - p < Window
  BY <1>1, PastType
<1> QED BY <1>1, <1>2, Sizes, RingIsLongEnough DEF Short

LEMMA StoredKeeps ==
  ASSUME NEW g \in Gpus, NEW t \in Texts, NEW start \in 0..Len(t),
         Short(Len(t) - start), Holding(g, t, start)
  PROVE  LET h == Stored(g, t, start, TRUE) IN
         /\ h \in Gpus
         /\ Holding(h, t, Len(t))
         /\ \A k \in start..Len(t) : Kept(h, t, k)
<1> DEFINE h == Stored(g, t, start, TRUE)
<1>1. Len(t) \in 0..CtxSize
  BY DEF Texts
<1>2. g.ncomp = start \div Ratio
  BY DEF Holding
<1>3. h \in Gpus
  BY <1>2, StoredType
<1>4. /\ h.ncomp = Len(t) \div Ratio /\ h.front = Upto(t, Len(t))
      /\ \A i \in 0..(g.ncomp - 1) : h.comp[i] = g.comp[i]
      /\ \A i \in g.ncomp..(h.ncomp - 1) : h.comp[i] = Upto(t, (i + 1) * Ratio)
  BY <1>2, StoredComp
<1>5. \A i \in 0 .. h.ncomp - 1 : h.comp[i] = Upto(t, (i + 1) * Ratio)
  <2>1. \A i \in 0..(g.ncomp - 1) : h.comp[i] = Upto(t, (i + 1) * Ratio)
    BY <1>2, <1>4 DEF Holding, Kept
  <2> HIDE DEF h
  <2>2. g.ncomp \in Nat /\ h.ncomp \in Nat
    BY <1>3, CompCapType DEF Gpus
  <2> QED BY <1>4, <2>1, <2>2
<1>6. ASSUME NEW k \in start..Len(t) PROVE Kept(h, t, k)
  <2>1. k \in Nat /\ k \in 0..CtxSize /\ k <= Len(t) /\ start \in Nat /\ start <= k
    BY <1>1, Sizes
  <2>2. \A i \in 0 .. (k \div Ratio) - 1 : h.comp[i] = Upto(t, (i + 1) * Ratio)
    <3> DEFINE n == k \div Ratio
               m == Len(t) \div Ratio
    <3>1. n \in Nat /\ m \in Nat /\ n <= m
      BY <1>1, <2>1, Emitted
    <3>2. h.ncomp = m
      BY <1>4
    <3> HIDE DEF n, m, h
    <3>3. \A i \in 0 .. n - 1 : h.comp[i] = Upto(t, (i + 1) * Ratio)
      BY <1>5, <3>1, <3>2
    <3> QED BY <3>3 DEF n
  <2>3. ASSUME NEW p \in Past(k) PROVE h.raw[Slot(p)] = Upto(t, p + 1)
    <3>1. p \in 0..(Len(t) - 1) /\ p < k /\ Len(t) - p <= RawCap
      BY RoomInRing
    <3>2. h.raw[Slot(p)] = IF p < start THEN g.raw[Slot(p)] ELSE Upto(t, p + 1)
      BY <3>1, StoredRaw
    <3>3. CASE p < start
      <4>1. p \in Nat /\ k - p < Window
        BY <2>1, PastType
      <4>2. start - p < Window
        BY <2>1, <4>1, Sizes
      <4>3. p \in Past(start)
        BY <2>1, <3>3, <4>1, <4>2, PastMember
      <4> QED BY <3>2, <3>3, <4>3 DEF Holding, Kept
    <3> QED BY <3>2, <3>3
  <2> QED BY <2>2, <2>3 DEF Kept
<1>7. Kept(h, t, Len(t))
  <2>1. Len(t) \in start..Len(t)
    BY <1>1, Sizes
  <2> QED BY <1>6, <2>1
<1> QED BY <1>3, <1>4, <1>6, <1>7 DEF Holding

LEMMA DecodeKeeps ==
  ASSUME NEW g \in Gpus, NEW t \in Texts, Len(t) > 0, Holding(g, t, Len(t) - 1)
  PROVE  DecodeToken(g, t) = Stored(g, t, Len(t) - 1, TRUE)
<1> DEFINE pos == Len(t) - 1
<1>1. pos \in 0..Len(t) /\ pos \in Nat
  BY DEF Texts
<1>2. Good(g, Upto(t, pos)) /\ Len(Upto(t, pos)) = pos
  BY <1>1, GoodIsHolding, UptoType
<1>3. ASSUME NEW p \in Past(pos)
      PROVE  Slot(p) # Slot(pos) /\ g.raw[Slot(p)] = Upto(t, p + 1)
  <2>1. p \in Nat /\ p < pos /\ pos - p < Window
    BY <1>1, PastType
  <2>2. Slot(p) # Slot(pos)
    BY <1>1, <2>1, RingIsLongEnough, Sizes, SlotsDiffer
  <2> QED BY <2>2 DEF Holding, Kept
<1>4. CompressedFor(g, Upto(t, pos))
  BY <1>2 DEF Good
<1> QED BY <1>3, <1>4 DEF DecodeToken

LEMMA DecodeIsStored ==
  ASSUME NEW g, NEW t
  PROVE  \E good \in BOOLEAN : DecodeToken(g, t) = Stored(g, t, Len(t) - 1, good)
BY DEF DecodeToken

LEMMA BatchKeeps ==
  ASSUME NEW g \in Gpus, NEW t \in Texts, NEW start \in 1..Len(t),
         Len(t) - start <= PrefillCap, Holding(g, t, start)
  PROVE  Batch(g, t, start) = Stored(g, t, start, TRUE)
<1>1. Len(t) \in Nat /\ start \in 0..Len(t) /\ start \in Nat
  BY DEF Texts
<1>2. CompressedFor(g, Upto(t, start))
  BY <1>1, GoodIsHolding DEF Good
<1>3. ASSUME NEW pos \in start .. Len(t) - 1, NEW p \in Past(pos)
      PROVE  /\ \A q \in start .. Len(t) - 1 : q # p => Slot(q) # Slot(p)
             /\ p < start => g.raw[Slot(p)] = Upto(t, p + 1)
  <2>1. pos \in start..Len(t) /\ Short(Len(t) - start)
    BY <1>1 DEF Short
  <2>2. p \in 0..(Len(t) - 1) /\ p < pos /\ Len(t) - p <= RawCap /\ Len(t) - start <= RawCap
    BY <1>1, <2>1, RoomInRing
  <2>3. ASSUME NEW q \in start .. Len(t) - 1, q # p PROVE Slot(q) # Slot(p)
    <3>1. q \in Nat /\ p \in Nat /\ q - p < RawCap /\ p - q < RawCap
      BY <1>1, <2>2, RingIsLongEnough
    <3> QED BY <2>3, <3>1, SlotsDiffer
  <2>4. ASSUME p < start PROVE g.raw[Slot(p)] = Upto(t, p + 1)
    <3>1. p \in Nat /\ pos \in Nat /\ pos - p < Window
      BY <1>1, PastType
    <3>2. start - p < Window
      BY <1>1, <3>1, Sizes
    <3>3. p \in Past(start)
      BY <1>1, <2>4, <3>1, <3>2, PastMember
    <3> QED BY <3>3 DEF Holding, Kept
  <2> QED BY <2>3, <2>4
<1>4. start # 0
  BY <1>1
<1> QED BY <1>2, <1>3, <1>4 DEF Batch

LEMMA BatchFromBlank ==
  ASSUME NEW g, NEW t PROVE Batch(g, t, 0) = Stored(Blank, t, 0, TRUE)
BY DEF Batch

LEMMA BatchIsStored ==
  ASSUME NEW g, NEW t, NEW start \in Nat, start # 0
  PROVE  \E good \in BOOLEAN : Batch(g, t, start) = Stored(g, t, start, good)
BY DEF Batch

LEMMA ScrambledKeeps ==
  ASSUME NEW g \in Gpus, NEW t \in Texts, NEW start \in 0..Len(t),
         Short(Len(t) - start), Kept(g, t, start)
  PROVE  Kept(Scrambled(g, start, Len(t) - start), t, start)
<1>1. Len(t) \in Nat /\ start \in Nat /\ start \in start..Len(t)
  BY DEF Texts
<1>2. ASSUME NEW p \in Past(start)
      PROVE  Scrambled(g, start, Len(t) - start).raw[Slot(p)] = g.raw[Slot(p)]
  <2>1. p \in Nat /\ p < start /\ Len(t) - p <= RawCap
    BY <1>1, RoomInRing
  <2>2. ASSUME NEW q \in start .. start + (Len(t) - start) - 1 PROVE Slot(q) # Slot(p)
    <3>1. q \in Nat /\ q # p /\ q - p < RawCap /\ p - q < RawCap
      BY <1>1, <2>1, RingIsLongEnough
    <3> QED BY <2>1, <3>1, SlotsDiffer
  <2>3. Slot(p) \in DOMAIN g.raw
    BY <2>1, SlotType DEF Gpus
  <2> QED BY <2>2, <2>3 DEF Scrambled, Gpus
<1>3. Scrambled(g, start, Len(t) - start).comp = g.comp
  BY DEF Scrambled, Gpus
<1> QED BY <1>2, <1>3 DEF Kept

LEMMA ScrambledType ==
  ASSUME NEW g \in Gpus, NEW start, NEW n
  PROVE  Scrambled(g, start, n) \in Gpus /\ Scrambled(g, start, n).ncomp = g.ncomp
BY EmptyText DEF Scrambled, Gpus

LEMMA RestoreHolds ==
  ASSUME NEW h \in Gpus, NEW t \in Texts, NEW k \in 0..Len(t), Kept(h, t, k),
         NEW f, f = [ncomp |-> k \div Ratio, front |-> Upto(t, k)]
  PROVE  Restore(h, f) \in Gpus /\ Holding(Restore(h, f), t, k)
<1>1. k \div Ratio \in 0..CompCap /\ Upto(t, k) \in Texts
  BY Emitted, UptoType DEF Texts
<1>2. /\ Restore(h, f).raw = h.raw /\ Restore(h, f).comp = h.comp
      /\ Restore(h, f).ncomp = k \div Ratio /\ Restore(h, f).front = Upto(t, k)
      /\ Restore(h, f) \in Gpus
  BY <1>1 DEF Restore, Gpus
<1> QED BY <1>2 DEF Holding, Kept

LEMMA RestoreType ==
  ASSUME NEW h \in Gpus, NEW g \in Gpus
  PROVE  Restore(h, Frontier(g)) \in Gpus
BY DEF Restore, Frontier, Gpus
-----------------------------------------------------------------------------
(* The inductive invariant.                                                *)

\* A session that says it is valid, when no batch of its own is half way.
AtRest ==
  valid /\ ~tainted => /\ Len(checkpoint) > 0 /\ Good(gpu, checkpoint) /\ logits = checkpoint

Types ==
  /\ checkpoint \in Texts /\ logits \in Texts /\ accepted \in Texts /\ gpu \in Gpus
  /\ valid \in BOOLEAN /\ tainted \in BOOLEAN /\ rounded \in BOOLEAN /\ draft \in Token \cup {NoDraft}

Payload(f) ==
  /\ f.text \in Texts /\ f.logits \in Texts /\ f.front \in Texts
  /\ f.tainted \in BOOLEAN /\ f.rounded \in BOOLEAN
  /\ f.ncomp \in 0..CompCap /\ (~f.tainted => Len(f.text) > 0)
  /\ f.raw \in [Live(Len(f.text)) -> Texts]
  /\ f.comp \in [0 .. f.ncomp - 1 -> Texts]

FileInv == (file = NoFile \/ Payload(file)) /\ FilesExact

\* A chunked prefill: rows up to pos, whatever the checkpoint still says.
PrefillInv ==
  /\ call \in [op : {"prefill"}, prompt : Prompts, start : Nat, pos : Nat, notes : BOOLEAN]
  /\ call.start <= call.pos /\ call.pos < Len(call.prompt)
  /\ call.notes \/ call.pos = call.start => AtRest
  /\ call.pos > 0 =>
       /\ ~tainted => Holding(gpu, call.prompt, call.pos)
       /\ call.start = 0 => ~tainted

ExtendInv ==
  /\ call \in [op : {"extend"}, prompt : Prompts]
  /\ AtRest /\ valid
  /\ Len(checkpoint) < Len(call.prompt) /\ IsPrefixOf(checkpoint, call.prompt)

WholeInv ==
  /\ call \in [op : {"whole"}, prompt : Prompts]
  /\ AtRest /\ Len(call.prompt) <= PrefillCap

\* A speculative call has accepted what the checkpoint has more than its base.
Accepts == checkpoint = call.base \o accepted /\ Len(accepted) <= call.max

DraftInv ==
  /\ call \in [op : {"draft"}, base : Texts, max : Nat]
  /\ AtRest /\ valid /\ Accepts /\ Len(accepted) = 1

VerifyCalls == [base : Texts, max : Nat, drafts : Seq(Token), start : Nat,
                strict : BOOLEAN, op : {"verify", "sequential"}]

\* The drafts fit the context and the request, and a slot of the context stays.
DraftsFit ==
  /\ Len(call.drafts) > 0 /\ Len(call.drafts) + 1 <= call.max
  /\ call.start + Len(call.drafts) < CtxSize

VerifyInv ==
  /\ call \in VerifyCalls /\ DraftsFit
  /\ AtRest /\ valid /\ Accepts
  /\ Len(accepted) = 1 /\ call.start = Len(checkpoint)
  /\ ~tainted => call.drafts[1] \in Tops(checkpoint)

SequentialInv ==
  /\ call \in VerifyCalls /\ DraftsFit
  /\ AtRest /\ valid /\ Accepts
  /\ Len(checkpoint) = call.start + Len(accepted) - 1
  /\ Len(accepted) - 1 <= Len(call.drafts) /\ Len(accepted) > 0

CallInv ==
  \/ call = Idle /\ AtRest
  \/ call.op = "loadFailed"
  \/ call.op = "prefill" /\ PrefillInv
  \/ call.op = "extend" /\ ExtendInv
  \/ call.op = "whole" /\ WholeInv
  \/ call.op = "draft" /\ DraftInv
  \/ call.op = "verify" /\ VerifyInv
  \/ call.op = "sequential" /\ SequentialInv

IInv == Types /\ FileInv /\ CallInv
-----------------------------------------------------------------------------
(* What the calls have in common.                                          *)

LEMMA HoldingAll ==
  ASSUME NEW g, NEW t \in Texts PROVE Good(g, t) <=> Holding(g, t, Len(t))
<1>1. t \in Seq(Token) /\ Len(t) \in 0..Len(t)
  BY DEF Texts
<1>2. Upto(t, Len(t)) = t
  BY <1>1, UptoAll
<1>3. Good(g, Upto(t, Len(t))) <=> Holding(g, t, Len(t))
  BY <1>1, GoodIsHolding
<1> QED BY <1>2, <1>3

LEMMA DecodeStep ==
  ASSUME NEW g \in Gpus, NEW t \in Texts, Len(t) > 0, InCaches(DecodeToken(g, t))
  PROVE  LET h == DecodeToken(g, t) IN
         /\ h \in Gpus
         /\ Holding(g, t, Len(t) - 1) =>
              /\ Good(h, t) /\ Holding(h, t, Len(t)) /\ Kept(h, t, Len(t) - 1)
<1>1. Len(t) \in Nat /\ Len(t) - 1 \in 0..Len(t) /\ Len(t) - 1 \in (Len(t) - 1)..Len(t)
  BY DEF Texts
<1>2. PICK good \in BOOLEAN : DecodeToken(g, t) = Stored(g, t, Len(t) - 1, good)
  BY DecodeIsStored
<1>3. DecodeToken(g, t) \in Gpus
  BY <1>1, <1>2, StoredType
<1>4. ASSUME Holding(g, t, Len(t) - 1)
      PROVE  /\ Good(DecodeToken(g, t), t) /\ Holding(DecodeToken(g, t), t, Len(t))
             /\ Kept(DecodeToken(g, t), t, Len(t) - 1)
  <2>1. DecodeToken(g, t) = Stored(g, t, Len(t) - 1, TRUE)
    BY <1>4, DecodeKeeps
  <2>2. Short(Len(t) - (Len(t) - 1))
    BY <1>1 DEF Short
  <2>3. /\ Holding(DecodeToken(g, t), t, Len(t))
        /\ Kept(DecodeToken(g, t), t, Len(t) - 1)
    BY <1>1, <1>4, <2>1, <2>2, StoredKeeps
  <2> QED BY <2>3, HoldingAll
<1> QED BY <1>3, <1>4

LEMMA BatchStep ==
  ASSUME NEW g \in Gpus, NEW t \in Texts, NEW start \in 0..Len(t),
         Len(t) - start <= PrefillCap, InCaches(Batch(g, t, start))
  PROVE  LET h == Batch(g, t, start) IN
         /\ h \in Gpus
         /\ start = 0 \/ Holding(g, t, start) =>
              /\ Good(h, t) /\ Holding(h, t, Len(t)) /\ \A k \in start..Len(t) : Kept(h, t, k)
<1>1. Len(t) \in Nat /\ start \in Nat /\ Short(Len(t) - start)
  BY DEF Texts, Short
<1>2. CASE start = 0
  <2>1. Batch(g, t, start) = Stored(Blank, t, start, TRUE)
    BY <1>2, BatchFromBlank
  <2>2. Holding(Blank, t, start) /\ Blank \in Gpus
    BY <1>2, BlankHolds, BlankType
  <2>4. /\ Batch(g, t, start) \in Gpus /\ Holding(Batch(g, t, start), t, Len(t))
        /\ \A k \in start..Len(t) : Kept(Batch(g, t, start), t, k)
    BY <1>1, <2>1, <2>2, StoredKeeps
  <2> QED BY <2>4, HoldingAll DEF Holding
<1>3. CASE start # 0
  <2>1. PICK good \in BOOLEAN : Batch(g, t, start) = Stored(g, t, start, good)
    BY <1>1, <1>3, BatchIsStored
  <2>2. Batch(g, t, start) \in Gpus
    BY <1>3, <2>1, StoredType
  <2>3. ASSUME Holding(g, t, start)
        PROVE  /\ Holding(Batch(g, t, start), t, Len(t))
               /\ \A k \in start..Len(t) : Kept(Batch(g, t, start), t, k)
    <3>1. start \in 1..Len(t)
      BY <1>1, <1>3
    <3>2. Batch(g, t, start) = Stored(g, t, start, TRUE)
      BY <2>3, <3>1, BatchKeeps
    <3> QED BY <1>1, <2>3, <3>2, StoredKeeps
  <2> QED BY <1>3, <2>2, <2>3, HoldingAll
<1> QED BY <1>2, <1>3

LEMMA HoldsStep ==
  ASSUME NEW t \in Texts, NEW g \in Gpus, Holds(t, g), Len(t) > 0, ~tainted' => Good(g, t)
  PROVE  AtRest' /\ checkpoint' \in Texts /\ logits' \in Texts /\ gpu' \in Gpus
<1>1. checkpoint' = t /\ gpu' = g /\ logits' = g.front
  BY DEF Holds, RowOf
<1>2. g.front \in Texts
  BY DEF Gpus
<1>3. Good(g, t) => g.front = t
  BY DEF Good, CompressedFor
<1> QED BY <1>1, <1>2, <1>3 DEF AtRest

LEMMA LostStep ==
  ASSUME Lost PROVE AtRest' /\ valid' = FALSE /\ logits' \in Texts /\ gpu' \in Gpus
BY BlankType, EmptyText DEF Lost, AtRest

LEMMA RestKept ==
  ASSUME AtRest, UNCHANGED <<checkpoint, valid, logits, gpu, tainted>> PROVE AtRest'
BY DEF AtRest

LEMMA FileKept == ASSUME FileInv, UNCHANGED file PROVE FileInv'
BY DEF FileInv, FilesExact

LEMMA PromptType ==
  ASSUME NEW p \in Prompts
  PROVE  p \in Texts /\ Len(p) \in Nat \ {0} /\ Len(p) < CtxSize
<1>1. p \in Seq(Token) /\ Len(p) \in 1..CtxSize - 1
  BY TokenAssumption
<1> QED BY <1>1, Sizes DEF Texts
-----------------------------------------------------------------------------
(* Synchronizing.                                                          *)

LEMMA InitOK == Init => IInv
<1> SUFFICES ASSUME Init PROVE IInv
  OBVIOUS
<1>1. Types
  BY BlankType, EmptyText DEF Init, Types, Garbage
<1>2. FileInv /\ CallInv
  BY DEF Init, FileInv, FilesExact, CallInv, AtRest
<1> QED BY <1>1, <1>2 DEF IInv

\* No call is running: the session is at rest.
LEMMA IdleRests == ASSUME IInv, ~Busy PROVE AtRest /\ call = Idle
BY DEF IInv, CallInv, Busy, Idle

LEMMA SyncStep == ASSUME IInv, Synchronize PROVE IInv'
<1>1. PICK p \in Prompts, notes \in BOOLEAN : Sync(p, notes)
  BY DEF Synchronize
<1>2. AtRest /\ call = Idle
  BY <1>1, IdleRests DEF Sync
<1>3. AtRest' /\ UNCHANGED <<checkpoint, valid, logits, gpu, file, tainted, rounded>>
  BY <1>1, <1>2, RestKept DEF Sync
<1>4. Types'
  <2>1. accepted' \in Texts /\ draft' \in Token \cup {NoDraft}
    BY <1>1, EmptyText DEF Sync, IInv, Types, Garbage
  <2> QED BY <1>3, <2>1 DEF IInv, Types
<1>5. FileInv'
  BY <1>3, FileKept DEF IInv
<1>6. p \in Texts /\ p \in Seq(Token) /\ Len(p) \in Nat \ {0} /\ Len(p) < CtxSize
      /\ checkpoint \in Texts /\ Len(checkpoint) \in Nat
  BY PromptType DEF Texts, IInv, Types
<1> DEFINE prefill(from) ==
      [op |-> "prefill", prompt |-> p, start |-> from, pos |-> from, notes |-> notes]
<1>7. CASE /\ valid /\ IsPrefixOf(checkpoint, p) /\ Len(p) - Len(checkpoint) >= ResumeMin
           /\ call' = prefill(Len(checkpoint))
  <2>1. Len(checkpoint) < Len(p) /\ Upto(p, Len(checkpoint)) = checkpoint
    BY <1>2, <1>6, <1>7, Sizes DEF IsPrefixOf
  <2>2. ~tainted => Good(gpu, checkpoint) /\ Len(checkpoint) > 0
    BY <1>2, <1>7 DEF AtRest
  <2>3. ~tainted => Holding(gpu, p, Len(checkpoint))
    <3>1. Len(checkpoint) \in 0..Len(p)
      BY <1>6, <2>1
    <3> QED BY <1>6, <2>1, <2>2, <3>1, GoodIsHolding
  <2>4. call' \in [op : {"prefill"}, prompt : Prompts, start : Nat, pos : Nat, notes : BOOLEAN]
    BY <1>6, <1>7
  <2>5. call'.op = "prefill" /\ call'.start = Len(checkpoint) /\ call'.pos = Len(checkpoint)
        /\ call'.prompt = p /\ call'.notes = notes
    BY <1>7
  <2>6. PrefillInv'
    BY <1>3, <1>6, <2>1, <2>2, <2>3, <2>4, <2>5 DEF PrefillInv, Holding, Kept
  <2> QED BY <1>4, <1>5, <2>5, <2>6 DEF IInv, CallInv
<1>8. CASE /\ valid /\ IsPrefixOf(checkpoint, p) /\ Len(p) - Len(checkpoint) > 0
           /\ call' = [op |-> "extend", prompt |-> p]
  <2>1. Len(checkpoint) < Len(p)
    BY <1>6, <1>8
  <2>2. ExtendInv'
    BY <1>3, <1>8, <2>1 DEF ExtendInv, IsPrefixOf
  <2> QED BY <1>4, <1>5, <1>8, <2>2 DEF IInv, CallInv
<1>9. CASE UNCHANGED call
  BY <1>2, <1>3, <1>4, <1>5, <1>9 DEF IInv, CallInv, Idle
<1>10. CASE call' = prefill(0)
  <2>1. call' \in [op : {"prefill"}, prompt : Prompts, start : Nat, pos : Nat, notes : BOOLEAN]
    BY <1>10
  <2>2. PrefillInv' /\ call'.op = "prefill"
    BY <1>3, <1>6, <1>10, <2>1 DEF PrefillInv
  <2> QED BY <1>4, <1>5, <2>2 DEF IInv, CallInv
<1>11. CASE Len(p) <= PrefillCap /\ call' = [op |-> "whole", prompt |-> p]
  <2>1. WholeInv' /\ call'.op = "whole"
    BY <1>3, <1>11 DEF WholeInv
  <2> QED BY <1>4, <1>5, <2>1 DEF IInv, CallInv
<1> QED BY <1>1, <1>7, <1>8, <1>9, <1>10, <1>11 DEF Sync

LEMMA ChunkEndBounds ==
  ASSUME NEW start \in Nat, NEW from \in Nat, NEW end \in Nat, from < end
  PROVE  /\ ChunkEnd(start, from, end) \in Nat /\ ChunkEnd(start, from, end) <= end
         /\ from < ChunkEnd(start, from, end)
         /\ ChunkEnd(start, from, end) - from <= PrefillCap
<1>1. from % PrefillCap \in 0..(PrefillCap - 1)
  BY Sizes, Division
<1> DEFINE cap == IF start = 0 THEN PrefillCap
                  ELSE Lesser(Lesser(PrefillCap, RawCap), PrefillCap - (from % PrefillCap))
<1>2. cap \in Nat \ {0} /\ cap <= PrefillCap
  <2> DEFINE m == from % PrefillCap
  <2> HIDE DEF m
  <2>1. m \in 0..(PrefillCap - 1)
    BY <1>1 DEF m
  <2>2. Lesser(Lesser(PrefillCap, RawCap), PrefillCap - m) \in Nat \ {0}
        /\ Lesser(Lesser(PrefillCap, RawCap), PrefillCap - m) <= PrefillCap
    BY <2>1, Sizes, RingIsLongEnough DEF Lesser
  <2> QED BY <2>2, Sizes DEF m
<1>3. ChunkEnd(start, from, end) = Lesser(from + cap, end)
  BY DEF ChunkEnd
<1> HIDE DEF cap
<1> QED BY <1>2, <1>3, Sizes DEF Lesser

LEMMA PrefillChunkStep == ASSUME IInv, PrefillChunk PROVE IInv'
<1> DEFINE p == call.prompt
           end == ChunkEnd(call.start, call.pos, Len(p))
           done == end = Len(p)
           t == Upto(p, end)
           g == Batch(gpu, t, call.pos)
<1>1. PrefillInv /\ Types /\ FileInv
  BY DEF PrefillChunk, IInv, CallInv, Idle
<1>2. /\ p \in Prompts /\ call.start \in Nat /\ call.pos \in Nat /\ call.notes \in BOOLEAN
      /\ call.start <= call.pos /\ call.pos < Len(p) /\ gpu \in Gpus
  BY <1>1 DEF PrefillInv, Types
<1>3. p \in Texts /\ p \in Seq(Token) /\ Len(p) \in Nat \ {0}
  BY <1>2, PromptType DEF Texts
<1>4. end \in Nat /\ end <= Len(p) /\ call.pos < end /\ end - call.pos <= PrefillCap
  <2> HIDE DEF p
  <2> QED BY <1>2, <1>3, ChunkEndBounds
<1>5. end \in 0..Len(p)
  <2> HIDE DEF end
  <2> QED BY <1>3, <1>4
<1>6. t \in Texts /\ Len(t) = end
  <2> HIDE DEF end, p
  <2> QED BY <1>3, <1>5, UptoType
<1>7. /\ call.pos \in 0..Len(t) /\ Len(t) - call.pos <= PrefillCap
      /\ call.pos # 0 /\ ~tainted => Holding(gpu, p, call.pos)
  BY <1>1, <1>2, <1>4, <1>6 DEF PrefillInv
<1>a. InCaches(g)
  BY DEF PrefillChunk
<1>8. /\ g \in Gpus
      /\ call.pos = 0 \/ Holding(gpu, t, call.pos) => Good(g, t)
  <2> HIDE DEF t
  <2> QED BY <1>2, <1>6, <1>7, <1>a, BatchStep
<1>9. ~tainted' => Good(g, t)
  <2> SUFFICES ASSUME ~tainted' PROVE Good(g, t)
    OBVIOUS
  <2>1. tainted' = (tainted /\ call.start # 0)
    BY DEF PrefillChunk
  <2>2. CASE call.pos = 0
    BY <1>8, <2>2
  <2>3. CASE call.pos # 0
    <3>1. ~tainted
      <4>1. call.pos > 0
        BY <1>2, <2>3
      <4>2. call.start = 0 => ~tainted
        BY <1>1, <4>1 DEF PrefillInv
      <4> QED BY <2>1, <4>2
    <3>2. Good(gpu, Upto(p, call.pos))
      <4>1. call.pos \in 0..Len(p)
        BY <1>2, <1>3
      <4> HIDE DEF p
      <4> QED BY <1>3, <1>7, <2>3, <3>1, <4>1, GoodIsHolding
    <3>3. Upto(t, call.pos) = Upto(p, call.pos)
      <4> HIDE DEF p, end
      <4> QED BY <1>3, <1>5, <1>6, <1>7, UptoUpto
    <3>4. Holding(gpu, t, call.pos)
      <4> HIDE DEF t
      <4> QED BY <1>6, <1>7, <3>2, <3>3, GoodIsHolding
    <3> QED BY <1>8, <3>4
  <2> QED BY <2>2, <2>3
<1>10. Good(g, t) => Holding(g, p, end)
  <2> HIDE DEF p, g, end
  <2> QED BY <1>3, <1>5, GoodIsHolding DEF t
<1>11. /\ IF done \/ call.notes THEN Holds(t, g) /\ valid' = TRUE
          ELSE gpu' = g /\ UNCHANGED <<checkpoint, valid, logits>>
       /\ draft' = IF call.notes \/ (done /\ call.start = 0) THEN NoDraft ELSE draft
       /\ call' = IF done THEN Idle ELSE [call EXCEPT !.pos = end]
       /\ tainted' = (tainted /\ call.start # 0) /\ rounded' = (rounded /\ call.start # 0)
       /\ UNCHANGED <<accepted, file>>
  BY DEF PrefillChunk
<1> HIDE DEF p, end, done, t, g
<1>12. done \/ call.notes => AtRest' /\ checkpoint' \in Texts /\ logits' \in Texts
  BY <1>4, <1>6, <1>8, <1>9, <1>11, <1>2, HoldsStep
<1>13. gpu' = g
  BY <1>11 DEF Holds
<1>14. Types'
  <2>1. checkpoint' \in Texts /\ logits' \in Texts
    BY <1>1, <1>11, <1>12 DEF Types
  <2>2. /\ valid' \in BOOLEAN /\ tainted' \in BOOLEAN /\ rounded' \in BOOLEAN
        /\ draft' \in Token \cup {NoDraft}
    BY <1>1, <1>11 DEF Types
  <2> QED BY <1>1, <1>8, <1>11, <1>13, <2>1, <2>2 DEF Types
<1>15. FileInv'
  BY <1>1, <1>11, FileKept
<1>16. CASE done
  BY <1>11, <1>12, <1>14, <1>15, <1>16 DEF IInv, CallInv
<1>17. CASE ~done
  <2>1. call' = [call EXCEPT !.pos = end]
    BY <1>11, <1>17
  <2>2. /\ call' \in [op : {"prefill"}, prompt : Prompts, start : Nat, pos : Nat, notes : BOOLEAN]
        /\ call'.op = "prefill" /\ call'.start = call.start /\ call'.pos = end
        /\ call'.prompt = p /\ call'.notes = call.notes
    BY <1>1, <1>4, <2>1 DEF PrefillInv, p
  <2>3. end < Len(p)
    BY <1>3, <1>4, <1>17 DEF done
  <2>4. PrefillInv'
    <3>1. call'.start <= call'.pos /\ call'.pos < Len(call'.prompt)
          /\ (call'.notes \/ call'.pos = call'.start => AtRest')
      BY <1>2, <1>4, <1>12, <2>2, <2>3
    <3>3. ~tainted' => Holding(gpu', call'.prompt, call'.pos)
      BY <1>9, <1>10, <1>13, <2>2
    <3>4. call'.start = 0 => ~tainted'
      BY <1>11, <2>2
    <3> QED BY <2>2, <3>1, <3>3, <3>4 DEF PrefillInv
  <2> QED BY <1>14, <1>15, <2>2, <2>4 DEF IInv, CallInv
<1> QED BY <1>16, <1>17

LEMMA PrefillWholeStep == ASSUME IInv, PrefillWhole PROVE IInv'
<1> DEFINE t == call.prompt
           g == Batch(gpu, t, 0)
<1>1. WholeInv /\ Types /\ FileInv
  BY DEF PrefillWhole, IInv, CallInv, Idle
<1>2. t \in Texts /\ Len(t) \in Nat \ {0} /\ Len(t) <= PrefillCap /\ gpu \in Gpus
  BY <1>1, PromptType DEF WholeInv, Types
<1> HIDE DEF t
<1>3. 0 \in 0..Len(t) /\ Len(t) - 0 <= PrefillCap
  BY <1>2
<1>a. InCaches(g)
  BY DEF PrefillWhole, Holds, t
<1>4. g \in Gpus /\ Good(g, t)
  BY <1>2, <1>3, <1>a, BatchStep
<1>5. Holds(t, g) /\ valid' = TRUE /\ draft' = NoDraft /\ call' = Idle
      /\ tainted' = FALSE /\ rounded' = FALSE /\ UNCHANGED <<accepted, file>>
  BY DEF PrefillWhole, t
<1> HIDE DEF g
<1>6. AtRest' /\ checkpoint' \in Texts /\ logits' \in Texts /\ gpu' \in Gpus
  BY <1>2, <1>4, <1>5, HoldsStep
<1>7. Types'
  BY <1>1, <1>5, <1>6 DEF Types
<1> QED BY <1>1, <1>5, <1>6, <1>7, FileKept DEF IInv, CallInv

\* One token more, through the decode kernels.
LEMMA OneMore ==
  ASSUME Types, AtRest, valid, NEW t \in Texts, Len(t) = Len(checkpoint) + 1,
         Upto(t, Len(checkpoint)) = checkpoint,
         Holds(t, DecodeToken(gpu, t)), UNCHANGED tainted
  PROVE  AtRest' /\ checkpoint' = t /\ logits' \in Texts /\ gpu' \in Gpus
<1> DEFINE g == DecodeToken(gpu, t)
<1>1. Len(checkpoint) \in Nat /\ Len(t) - 1 = Len(checkpoint) /\ Len(t) > 0
      /\ Len(checkpoint) \in 0..Len(t) /\ gpu \in Gpus
  BY DEF Types, Texts
<1>2. ~tainted => Good(gpu, checkpoint)
  BY DEF AtRest
<1>3. ~tainted => Holding(gpu, t, Len(t) - 1)
  BY <1>1, <1>2, GoodIsHolding
<1>4. g \in Gpus /\ (Holding(gpu, t, Len(t) - 1) => Good(g, t))
  <2>1. InCaches(g)
    BY DEF Holds
  <2> QED BY <1>1, <2>1, DecodeStep
<1>5. ~tainted' => Good(g, t)
  BY <1>3, <1>4
<1>6. Holds(t, g)
  OBVIOUS
<1> HIDE DEF g
<1>7. AtRest' /\ checkpoint' \in Texts /\ logits' \in Texts /\ gpu' \in Gpus
  BY <1>1, <1>4, <1>5, <1>6, HoldsStep
<1> QED BY <1>6, <1>7 DEF Holds

LEMMA ExtendTokenStep == ASSUME IInv, ExtendToken PROVE IInv'
<1> DEFINE p == call.prompt
           n == Len(checkpoint)
           t == Upto(p, n + 1)
<1>1. ExtendInv /\ Types /\ FileInv
  BY DEF ExtendToken, IInv, CallInv, Idle
<1>2. /\ p \in Prompts /\ p \in Texts /\ p \in Seq(Token) /\ Len(p) \in Nat
      /\ n \in Nat /\ n < Len(p) /\ Upto(p, n) = checkpoint /\ AtRest /\ valid
  BY <1>1, PromptType DEF ExtendInv, IsPrefixOf, Types, Texts
<1>3. t \in Texts /\ Len(t) = n + 1 /\ Upto(t, n) = checkpoint
  <2> HIDE DEF p, n
  <2>1. n + 1 \in 0..Len(p) /\ n \in 0..(n + 1)
    BY <1>2
  <2> QED BY <1>2, <2>1, UptoType, UptoUpto
<1>4. /\ Holds(t, DecodeToken(gpu, t))
      /\ call' = IF t = p THEN Idle ELSE call
      /\ UNCHANGED <<valid, draft, accepted, file, tainted, rounded>>
  BY DEF ExtendToken
<1>5. AtRest' /\ checkpoint' = t /\ logits' \in Texts /\ gpu' \in Gpus
  <2> HIDE DEF t
  <2> QED BY <1>1, <1>2, <1>3, <1>4, OneMore
<1>6. Types'
  BY <1>1, <1>3, <1>4, <1>5 DEF Types
<1>7. FileInv'
  BY <1>1, <1>4, FileKept
<1>8. CASE t = p
  BY <1>4, <1>5, <1>6, <1>7, <1>8 DEF IInv, CallInv
<1>9. CASE t # p
  <2>1. Len(t) < Len(p)
    <3>1. Len(t) = Len(p) => t = p
      <4> HIDE DEF p
      <4> QED BY <1>2, <1>3, UptoAll
    <3> HIDE DEF t, p, n
    <3> QED BY <1>2, <1>3, <1>9, <3>1
  <2>2. IsPrefixOf(t, p)
    <3>1. Upto(p, Len(t)) = t
      BY <1>3
    <3> HIDE DEF t, p
    <3> QED BY <1>2, <1>3, <2>1, <3>1 DEF IsPrefixOf
  <2>3. call' = call /\ valid'
    BY <1>2, <1>4, <1>9
  <2> HIDE DEF t
  <2>4. ExtendInv'
    BY <1>1, <1>5, <2>1, <2>2, <2>3 DEF ExtendInv
  <2>5. call'.op = "extend"
    BY <1>1, <2>3 DEF ExtendInv
  <2> QED BY <1>6, <1>7, <2>4, <2>5 DEF IInv, CallInv
<1> QED BY <1>8, <1>9

\* A call that gives the session up.
LEMMA GivenUp ==
  ASSUME IInv, Lost, call' = Idle, checkpoint' \in Texts, accepted' \in Texts,
         draft' \in Token \cup {NoDraft}, UNCHANGED <<file, tainted, rounded>>
  PROVE  IInv'
<1>1. AtRest' /\ valid' = FALSE /\ logits' \in Texts /\ gpu' \in Gpus
  BY LostStep
<1>2. Types' /\ FileInv'
  BY <1>1, FileKept DEF IInv, Types
<1> QED BY <1>1, <1>2 DEF IInv, CallInv

LEMMA SyncFailsStep == ASSUME IInv, SyncFails PROVE IInv'
BY GivenUp DEF SyncFails, IInv, Types
-----------------------------------------------------------------------------
(* Evaluating and speculating.                                             *)

LEMMA AppendText ==
  ASSUME NEW t \in Texts, NEW x \in Token, Len(t) < CtxSize
  PROVE  /\ Append(t, x) \in Texts /\ Len(Append(t, x)) = Len(t) + 1
         /\ Upto(Append(t, x), Len(t)) = t /\ Append(t, x) = t \o <<x>>
<1>1. t \in Seq(Token) /\ Len(t) \in Nat
  BY DEF Texts
<1>2. /\ Append(t, x) \in Seq(Token) /\ Len(Append(t, x)) = Len(t) + 1
      /\ \A i \in 1..Len(t) : Append(t, x)[i] = t[i]
  BY <1>1, AppendProperties
<1>3. Upto(Append(t, x), Len(t)) \in Seq(Token) /\ Len(Upto(Append(t, x), Len(t))) = Len(t)
      /\ \A i \in 1..Len(t) : Upto(Append(t, x), Len(t))[i] = Append(t, x)[i]
  <2>1. Len(t) \in 0..Len(Append(t, x))
    BY <1>1, <1>2
  <2> QED BY <1>2, <2>1, UptoText
<1>4. Upto(Append(t, x), Len(t)) = t
  BY <1>1, <1>2, <1>3, SameText
<1>5. Append(t, x) \in Texts
  BY <1>1, <1>2, Sizes DEF Texts
<1>6. Append(t, x) = t \o <<x>>
  BY <1>1, AppendIsConcat
<1> QED BY <1>2, <1>4, <1>5, <1>6

LEMMA EvaluatedStep ==
  ASSUME IInv, MayEval, NEW x \in Token, Evaluated(x), UNCHANGED tainted
  PROVE  /\ AtRest' /\ valid' /\ checkpoint' = Append(checkpoint, x)
         /\ checkpoint' \in Texts /\ logits' \in Texts /\ gpu' \in Gpus
         /\ draft' \in Token \cup {NoDraft}
<1>1. AtRest /\ Types /\ valid /\ checkpoint \in Texts /\ Len(checkpoint) < CtxSize
  BY IdleRests DEF MayEval, IInv, Types
<1> DEFINE t == Append(checkpoint, x)
<1>2. t \in Texts /\ Len(t) = Len(checkpoint) + 1 /\ Upto(t, Len(checkpoint)) = checkpoint
  BY <1>1, AppendText
<1>3. Holds(t, DecodeToken(gpu, t)) /\ UNCHANGED valid /\ draft' \in Token \cup {NoDraft}
  BY DEF Evaluated
<1> HIDE DEF t
<1>4. AtRest' /\ checkpoint' = t /\ logits' \in Texts /\ gpu' \in Gpus
  BY <1>1, <1>2, <1>3, OneMore
<1> QED BY <1>1, <1>2, <1>3, <1>4 DEF t

LEMMA DecodeActionStep == ASSUME IInv, Decode \/ EvalFails PROVE IInv'
<1>1. ASSUME NEW x \in Token, Eval(x) PROVE IInv'
  <2>1. /\ AtRest' /\ checkpoint' \in Texts /\ logits' \in Texts /\ gpu' \in Gpus
        /\ draft' \in Token \cup {NoDraft} /\ valid' \in BOOLEAN
    BY <1>1, EvaluatedStep DEF Eval, Evaluated, IInv, Types
  <2>2. call' = Idle /\ accepted' = <<>> /\ UNCHANGED <<file, tainted, rounded>>
    BY <1>1, IdleRests DEF Eval, MayEval
  <2>3. Types' /\ FileInv'
    BY <2>1, <2>2, EmptyText, FileKept DEF IInv, Types, Garbage
  <2> QED BY <2>1, <2>2, <2>3 DEF IInv, CallInv
<1>2. ASSUME EvalFails PROVE IInv'
  <2>1. call' = Idle
    BY <1>2, IdleRests DEF EvalFails, MayEval
  <2> QED BY <1>2, <2>1, GivenUp, EmptyText DEF EvalFails, IInv, Types, Garbage
<1> QED BY <1>1, <1>2 DEF Decode

LEMMA SpeculateStep == ASSUME IInv, Speculate PROVE IInv'
<1>1. PICK x \in Token, n \in 1 .. DraftMax + 1 : SpecEval(x, n)
  BY DEF Speculate
<1>2. /\ AtRest' /\ valid' /\ checkpoint' = Append(checkpoint, x)
      /\ checkpoint' \in Texts /\ logits' \in Texts /\ gpu' \in Gpus
      /\ draft' \in Token \cup {NoDraft} /\ valid' \in BOOLEAN
  BY <1>1, EvaluatedStep DEF SpecEval, Evaluated, IInv, Types
<1>3. checkpoint \in Texts /\ Len(checkpoint) < CtxSize
  BY <1>1 DEF SpecEval, MayEval, IInv, Types
<1>4. /\ accepted' = <<x>> /\ call' = [op |-> "draft", base |-> checkpoint, max |-> n]
      /\ UNCHANGED <<file, tainted, rounded>>
  BY <1>1 DEF SpecEval
<1>5. accepted' \in Texts /\ Len(accepted') = 1
  BY <1>4, Sizes DEF Texts
<1>6. DraftInv'
  <2>1. checkpoint' = checkpoint \o <<x>>
    BY <1>2, <1>3, AppendText
  <2>2. n \in Nat /\ 1 <= n
    BY Sizes
  <2>3. call'.op = "draft" /\ call'.base = checkpoint /\ call'.max = n
        /\ call' \in [op : {"draft"}, base : Texts, max : Nat]
    BY <1>3, <1>4, <2>2
  <2>4. Accepts'
    BY <1>4, <1>5, <2>1, <2>2, <2>3 DEF Accepts
  <2> QED BY <1>2, <1>5, <2>3, <2>4 DEF DraftInv
<1>7. Types' /\ FileInv'
  BY <1>2, <1>4, <1>5, FileKept DEF IInv, Types
<1>8. call'.op = "draft"
  BY <1>4
<1> QED BY <1>6, <1>7, <1>8 DEF IInv, CallInv

LEMMA SpecStopStep == ASSUME IInv, SpecStop PROVE IInv'
<1>1. DraftInv /\ Types /\ FileInv
  BY DEF SpecStop, IInv, CallInv, Idle
<1>2. /\ UNCHANGED <<checkpoint, valid, logits, gpu, accepted, file, tainted, rounded>> /\ call' = Idle
      /\ draft' \in Token \cup {NoDraft}
  BY <1>1 DEF SpecStop, Types
<1>3. AtRest' /\ Types' /\ FileInv'
  BY <1>1, <1>2, RestKept, FileKept DEF DraftInv, Types
<1> QED BY <1>2, <1>3 DEF IInv, CallInv

\* What has been accepted is part of the checkpoint.
LEMMA AcceptsSome ==
  ASSUME Accepts, call.base \in Texts, accepted \in Texts, checkpoint \in Texts,
         Len(accepted) > 0
  PROVE  Len(checkpoint) \in Nat /\ Len(checkpoint) > 0
<1>1. call.base \in Seq(Token) /\ accepted \in Seq(Token) /\ checkpoint = call.base \o accepted
  BY DEF Accepts, Texts
<1>2. Len(checkpoint) = Len(call.base) + Len(accepted)
  BY <1>1
<1> QED BY <1>1, <1>2

LEMMA ProposeStep == ASSUME IInv, Propose PROVE IInv'
<1>1. PICK strict \in BOOLEAN, d \in Drafts : SpecDraft(d, strict)
  BY DEF Propose
<1>2. DraftInv /\ Types /\ FileInv
  BY DEF Propose, IInv, CallInv, Idle
<1>3. /\ call.base \in Texts /\ call.max \in Nat /\ AtRest /\ valid /\ Accepts
      /\ Len(accepted) = 1 /\ checkpoint \in Texts /\ Len(checkpoint) \in Nat
      /\ Len(checkpoint) > 0
  <2>1. /\ call.base \in Texts /\ call.max \in Nat /\ AtRest /\ valid /\ Accepts
        /\ Len(accepted) = 1 /\ checkpoint \in Texts /\ accepted \in Texts
    BY <1>2 DEF DraftInv, Types
  <2> QED BY <2>1, AcceptsSome
<1>4. PICK n \in 1 .. DraftCap : d \in [1 .. n -> Token]
  BY DEF Drafts
<1>5. DraftCap \in Int /\ DraftCap <= call.max - 1 /\ DraftCap <= CtxSize - Len(checkpoint) - 1
  <2> DEFINE m == call.max - 1
             r == CtxSize - Len(checkpoint) - 1
             cap == Lesser(Lesser(DraftMax, m), r)
  <2>1. m \in Int /\ r \in Int /\ DraftMax \in Int
    BY <1>3, Sizes
  <2>2. DraftCap = IF draft = Eos THEN Lesser(cap, 1) ELSE cap
    BY DEF DraftCap
  <2> HIDE DEF m, r
  <2>3. cap \in Int /\ cap <= m /\ cap <= r
    BY <2>1 DEF Lesser
  <2> HIDE DEF cap
  <2>4. DraftCap \in Int /\ DraftCap <= m /\ DraftCap <= r
    BY <2>1, <2>2, <2>3 DEF Lesser
  <2> QED BY <2>4 DEF m, r
<1>6. n \in Nat /\ n > 0 /\ n <= call.max - 1 /\ n <= CtxSize - Len(checkpoint) - 1
  <2> HIDE DEF DraftCap
  <2> QED BY <1>3, <1>5, Sizes
<1>7. d \in Seq(Token) /\ Len(d) = n
  BY <1>4, <1>6
<1>8. /\ call' = [op |-> "verify", base |-> call.base, max |-> call.max, drafts |-> d,
                  start |-> Len(checkpoint), strict |-> strict]
      /\ draft' = NoDraft /\ draft \in Tops(logits) /\ d[1] = draft
      /\ UNCHANGED <<checkpoint, valid, logits, gpu, accepted, file, tainted, rounded>>
  BY <1>1 DEF SpecDraft, Drafts
<1>9. Types' /\ FileInv' /\ AtRest'
  BY <1>2, <1>3, <1>8, FileKept, RestKept DEF Types
<1>10. call' \in VerifyCalls /\ call'.op = "verify" /\ call'.base = call.base
       /\ call'.max = call.max /\ call'.drafts = d /\ call'.start = Len(checkpoint)
  BY <1>3, <1>7, <1>8 DEF VerifyCalls
<1>11. DraftsFit'
  <2>1. call'.start \in Nat /\ Len(call'.drafts) = n /\ CtxSize \in Nat
    BY <1>3, <1>7, <1>10, Sizes
  <2>2. n + 1 <= call.max /\ Len(checkpoint) + n < CtxSize
    BY <1>3, <1>6, Sizes
  <2> QED BY <1>6, <1>10, <2>1, <2>2 DEF DraftsFit
<1>12. ~tainted => d[1] \in Tops(checkpoint)
  <2>1. ~tainted => logits = checkpoint
    BY <1>3 DEF AtRest
  <2> QED BY <1>8, <2>1
<1>13. Accepts'
  BY <1>3, <1>8, <1>10 DEF Accepts
<1>14. VerifyInv'
  BY <1>3, <1>8, <1>9, <1>10, <1>11, <1>12, <1>13 DEF VerifyInv, Tops, TopsWhen
<1> QED BY <1>9, <1>10, <1>14 DEF IInv, CallInv

\* What the verifying actions start from.
LEMMA VerifyFacts ==
  ASSUME IInv, Verifying
  PROVE  /\ VerifyInv /\ Types /\ FileInv /\ AtRest /\ valid
         /\ call.drafts \in Seq(Token) /\ Len(call.drafts) \in Nat \ {0}
         /\ checkpoint \in Texts /\ Len(checkpoint) \in Nat \ {0} /\ gpu \in Gpus
         /\ call.start = Len(checkpoint)
         /\ Len(checkpoint) + Len(call.drafts) < CtxSize
         /\ ~tainted => Good(gpu, checkpoint)
<1>1. VerifyInv /\ Types /\ FileInv
  BY DEF Verifying, IInv, CallInv, Idle
<1>2. checkpoint \in Texts /\ Len(checkpoint) \in Nat /\ gpu \in Gpus
  BY <1>1 DEF Types, Texts
<1>3. call.drafts \in Seq(Token) /\ Len(call.drafts) > 0 /\ call.start = Len(checkpoint)
      /\ call.start + Len(call.drafts) < CtxSize /\ AtRest /\ valid
  BY <1>1 DEF VerifyInv, VerifyCalls, DraftsFit
<1>4. Len(checkpoint) > 0
  <2>1. Accepts /\ call.base \in Texts /\ accepted \in Texts /\ Len(accepted) > 0
    BY <1>1 DEF VerifyInv, VerifyCalls, Types
  <2> QED BY <1>2, <2>1, AcceptsSome
<1>5. ~tainted => Good(gpu, checkpoint)
  BY <1>3 DEF AtRest
<1> QED BY <1>1, <1>2, <1>3, <1>4, <1>5

LEMMA ConcatThree ==
  ASSUME NEW s \in Seq(Token), NEW t \in Seq(Token), NEW u \in Seq(Token)
  PROVE  (s \o t) \o u = s \o (t \o u)
BY ConcatAssociative

\* Texts with drafts appended extend each other.
LEMMA ConcatText ==
  ASSUME NEW t \in Texts, NEW d \in Seq(Token), Len(t) + Len(d) < CtxSize,
         NEW k \in 0..Len(d)
  PROVE  /\ t \o Upto(d, k) \in Texts /\ Len(t \o Upto(d, k)) = Len(t) + k
         /\ \A j \in 0..k : Upto(t \o Upto(d, k), Len(t) + j) = t \o Upto(d, j)
<1>1. t \in Seq(Token) /\ Len(t) \in Nat /\ Len(d) \in Nat /\ k \in Nat
  BY DEF Texts
<1>2. ASSUME NEW j \in 0..Len(d)
      PROVE  /\ t \o Upto(d, j) \in Seq(Token) /\ Len(t \o Upto(d, j)) = Len(t) + j
             /\ \A i \in 1..Len(t) : (t \o Upto(d, j))[i] = t[i]
             /\ \A i \in (Len(t) + 1)..(Len(t) + j) : (t \o Upto(d, j))[i] = d[i - Len(t)]
  <2>1. Upto(d, j) \in Seq(Token) /\ Len(Upto(d, j)) = j
        /\ \A i \in 1..j : Upto(d, j)[i] = d[i]
    BY <1>1, UptoText
  <2> DEFINE u == Upto(d, j)
  <2> HIDE DEF u
  <2>2. /\ t \o u \in Seq(Token) /\ Len(t \o u) = Len(t) + j
        /\ \A i \in 1..(Len(t) + j) : (t \o u)[i] =
             IF i <= Len(t) THEN t[i] ELSE u[i - Len(t)]
    <3>1. u \in Seq(Token) /\ Len(u) = j
      BY <2>1 DEF u
    <3> QED BY <1>1, <3>1, ConcatProperties
  <2> USE DEF u
  <2>3. ASSUME NEW i \in (Len(t) + 1)..(Len(t) + j)
        PROVE  (t \o Upto(d, j))[i] = d[i - Len(t)]
    <3>1. i \in 1..(Len(t) + j) /\ ~(i <= Len(t)) /\ i - Len(t) \in 1..j
      BY <1>1
    <3> QED BY <2>1, <2>2, <3>1
  <2>4. ASSUME NEW i \in 1..Len(t) PROVE (t \o Upto(d, j))[i] = t[i]
    <3>1. i \in 1..(Len(t) + j) /\ i <= Len(t)
      BY <1>1
    <3> QED BY <2>2, <3>1
  <2> QED BY <2>2, <2>3, <2>4
<1>3. t \o Upto(d, k) \in Texts /\ Len(t \o Upto(d, k)) = Len(t) + k
  BY <1>1, <1>2, Sizes DEF Texts
<1>4. ASSUME NEW j \in 0..k PROVE Upto(t \o Upto(d, k), Len(t) + j) = t \o Upto(d, j)
  <2> DEFINE a == t \o Upto(d, k)
             b == t \o Upto(d, j)
  <2>1. j \in 0..Len(d) /\ Len(t) + j \in 0..(Len(t) + k) /\ j \in Nat
    BY <1>1
  <2>2. /\ a \in Seq(Token) /\ Len(a) = Len(t) + k
        /\ \A i \in 1..Len(t) : a[i] = t[i]
        /\ \A i \in (Len(t) + 1)..(Len(t) + k) : a[i] = d[i - Len(t)]
    BY <1>2
  <2>3. /\ b \in Seq(Token) /\ Len(b) = Len(t) + j
        /\ \A i \in 1..Len(t) : b[i] = t[i]
        /\ \A i \in (Len(t) + 1)..(Len(t) + j) : b[i] = d[i - Len(t)]
    BY <1>2, <2>1
  <2> HIDE DEF a, b
  <2>4. Upto(a, Len(t) + j) \in Seq(Token) /\ Len(Upto(a, Len(t) + j)) = Len(t) + j
        /\ \A i \in 1..(Len(t) + j) : Upto(a, Len(t) + j)[i] = a[i]
    BY <2>1, <2>2, UptoText
  <2>5. ASSUME NEW i \in 1..(Len(t) + j) PROVE a[i] = b[i]
    <3>1. CASE i <= Len(t)
      <4>1. i \in 1..Len(t)
        BY <1>1, <3>1
      <4> QED BY <2>2, <2>3, <4>1
    <3>2. CASE i > Len(t)
      <4>1. i \in (Len(t) + 1)..(Len(t) + k) /\ i \in (Len(t) + 1)..(Len(t) + j)
        BY <1>1, <2>1, <3>2
      <4> QED BY <2>2, <2>3, <4>1
    <3> QED BY <1>1, <3>1, <3>2
  <2>6. Upto(a, Len(t) + j) = b
    BY <2>3, <2>4, <2>5, SameText
  <2> QED BY <2>6 DEF a, b
<1> QED BY <1>3, <1>4

LEMMA DraftTexts ==
  ASSUME IInv, Verifying, NEW k \in 0..Len(call.drafts)
  PROVE  /\ DraftText(k) = checkpoint \o Upto(call.drafts, k)
         /\ DraftText(k) \in Texts /\ Len(DraftText(k)) = Len(checkpoint) + k
         /\ Upto(DraftText(k), Len(checkpoint)) = checkpoint
         /\ \A j \in 0..k : Upto(DraftText(k), Len(checkpoint) + j) = DraftText(j)
<1>1. /\ call.drafts \in Seq(Token) /\ checkpoint \in Texts /\ Len(checkpoint) \in Nat
      /\ call.start = Len(checkpoint) /\ Len(checkpoint) + Len(call.drafts) < CtxSize
  BY VerifyFacts
<1>2. Upto(checkpoint, call.start) = checkpoint
  BY <1>1, UptoAll DEF Texts
<1>3. \A j : DraftText(j) = checkpoint \o Upto(call.drafts, j)
  BY <1>2 DEF DraftText
<1>4. /\ DraftText(k) \in Texts /\ Len(DraftText(k)) = Len(checkpoint) + k
      /\ \A j \in 0..k : Upto(DraftText(k), Len(checkpoint) + j) = DraftText(j)
  BY <1>1, <1>3, ConcatText
<1>5. DraftText(0) = checkpoint
  <2>1. Upto(call.drafts, 0) = <<>>
    BY SubSeqEmpty DEF Upto
  <2> QED BY <1>1, <1>3, <2>1, ConcatEmptySeq DEF Texts
<1>6. Upto(DraftText(k), Len(checkpoint)) = checkpoint
  <2>1. 0 \in 0..k /\ Len(checkpoint) + 0 = Len(checkpoint)
    BY <1>1
  <2> QED BY <1>4, <1>5, <2>1
<1> QED BY <1>3, <1>4, <1>6

LEMMA DraftNone == ASSUME IInv, Verifying PROVE DraftText(0) = checkpoint
<1>1. /\ call.drafts \in Seq(Token) /\ checkpoint \in Texts /\ call.start = Len(checkpoint)
  BY VerifyFacts
<1>2. Upto(checkpoint, call.start) = checkpoint /\ checkpoint \in Seq(Token)
  BY <1>1, UptoAll DEF Texts
<1>3. Upto(call.drafts, 0) = <<>>
  BY SubSeqEmpty DEF Upto
<1> QED BY <1>2, <1>3, ConcatEmptySeq DEF DraftText

\* The first k drafts become the session's.
LEMMA CommitStep ==
  ASSUME IInv, Verifying, NEW k \in 1..Len(call.drafts), NEW g \in Gpus,
         ~tainted => Good(g, DraftText(k)),
         Commit(k, g), UNCHANGED <<file, tainted>>, rounded' \in BOOLEAN
  PROVE  IInv'
<1>1. /\ VerifyInv /\ Types /\ FileInv /\ Len(checkpoint) \in Nat \ {0}
      /\ call.drafts \in Seq(Token) /\ Len(call.drafts) \in Nat \ {0}
      /\ Len(checkpoint) + Len(call.drafts) < CtxSize
  BY VerifyFacts
<1>2. k \in 0..Len(call.drafts)
  BY <1>1
<1>3. DraftText(k) \in Texts /\ Len(DraftText(k)) = Len(checkpoint) + k
  BY <1>2, DraftTexts
<1>4. /\ Holds(DraftText(k), g) /\ valid' = TRUE /\ draft' = NoDraft
      /\ accepted' = accepted \o Upto(call.drafts, k) /\ call' = Idle
  BY DEF Commit
<1>5. AtRest' /\ checkpoint' \in Texts /\ logits' \in Texts /\ gpu' \in Gpus
  <2> DEFINE t == DraftText(k)
  <2>1. t \in Texts /\ Len(t) = Len(checkpoint) + k /\ Len(t) > 0 /\ Holds(t, g)
        /\ (~tainted' => Good(g, t))
    BY <1>1, <1>3, <1>4
  <2> HIDE DEF t
  <2> QED BY <2>1, HoldsStep
<1>6. accepted' \in Texts
  <2>1. accepted \in Texts /\ Len(accepted) = 1
    BY <1>1 DEF VerifyInv, Types
  <2>2. Len(accepted) + Len(call.drafts) < CtxSize
    BY <1>1, <2>1, Sizes
  <2> QED BY <1>1, <1>2, <1>4, <2>1, <2>2, ConcatText
<1>7. Types' /\ FileInv'
  BY <1>1, <1>4, <1>5, <1>6, FileKept DEF Types
<1> QED BY <1>4, <1>5, <1>7 DEF IInv, CallInv

\* The frontier saved before rows that were kept is good again.
LEMMA RestoreGood ==
  ASSUME NEW h \in Gpus, NEW g \in Gpus, NEW t \in Texts, NEW k \in 0..Len(t),
         Kept(h, t, k), Good(g, Upto(t, k))
  PROVE  Good(Restore(h, Frontier(g)), Upto(t, k))
<1>1. g.ncomp = k \div Ratio /\ g.front = Upto(t, k)
  BY GoodIsHolding DEF Holding
<1>2. Frontier(g) = [ncomp |-> k \div Ratio, front |-> Upto(t, k)]
  BY <1>1 DEF Frontier
<1>3. Holding(Restore(h, Frontier(g)), t, k)
  BY <1>2, RestoreHolds
<1> QED BY <1>3, GoodIsHolding

LEMMA FallBackStep ==
  ASSUME IInv, Verifying, NEW g \in Gpus,
         NEW t \in Texts, Len(checkpoint) <= Len(t), Upto(t, Len(checkpoint)) = checkpoint,
         ~tainted => Kept(g, t, Len(checkpoint)),
         FallBack(g), UNCHANGED <<file, rounded>>
  PROVE  IInv'
<1>1. /\ VerifyInv /\ Types /\ FileInv /\ AtRest /\ valid /\ gpu \in Gpus
      /\ Len(checkpoint) \in Nat \ {0}
  BY VerifyFacts
<1>2. /\ call' = [call EXCEPT !.op = "sequential"]
      /\ UNCHANGED <<checkpoint, valid, logits, draft, accepted>>
      /\ \/ gpu' = Restore(g, Frontier(gpu)) /\ tainted' = tainted
         \/ gpu' = g /\ tainted' = TRUE
  BY DEF FallBack
<1>3. gpu' \in Gpus
  BY <1>1, <1>2, RestoreType
<1>4. ~tainted' => Good(gpu', checkpoint)
  <2> SUFFICES ASSUME ~tainted' PROVE Good(gpu', checkpoint)
    OBVIOUS
  <2>1. ~tainted /\ gpu' = Restore(g, Frontier(gpu))
    BY <1>2
  <2>2. Good(gpu, checkpoint)
    BY <1>1, <2>1 DEF AtRest
  <2>3. Len(checkpoint) \in 0..Len(t)
    BY <1>1 DEF Texts
  <2> QED BY <1>1, <2>1, <2>2, <2>3, RestoreGood
<1>5. AtRest'
  <2>1. Len(checkpoint) > 0 /\ (~tainted => logits = checkpoint)
    BY <1>1 DEF AtRest
  <2>2. ~tainted' => ~tainted
    BY <1>2
  <2> QED BY <1>2, <1>3, <1>4, <2>1, <2>2 DEF AtRest
<1>6. tainted' \in BOOLEAN
  BY <1>1, <1>2 DEF Types
<1>7. Types' /\ FileInv'
  BY <1>1, <1>2, <1>3, <1>6, FileKept DEF Types
<1>8. /\ call' \in VerifyCalls /\ call'.op = "sequential" /\ call'.base = call.base
      /\ call'.max = call.max /\ call'.drafts = call.drafts /\ call'.start = call.start
      /\ Len(call.drafts) \in Nat
  BY <1>1, <1>2 DEF VerifyInv, VerifyCalls
<1>9. DraftsFit' /\ Accepts'
  BY <1>1, <1>2, <1>8 DEF VerifyInv, DraftsFit, Accepts
<1>10. SequentialInv'
  <2>1. Len(accepted) = 1 /\ call.start = Len(checkpoint)
    BY <1>1 DEF VerifyInv
  <2>2. Len(checkpoint') = call'.start + Len(accepted') - 1
        /\ Len(accepted') - 1 <= Len(call'.drafts) /\ Len(accepted') > 0
    BY <1>1, <1>2, <1>8, <2>1
  <2> QED BY <1>1, <1>2, <1>5, <1>8, <1>9, <2>2 DEF SequentialInv
<1> QED BY <1>7, <1>8, <1>10 DEF IInv, CallInv

\* The drafts the rows agree with are at least the first, each the choice of the
\* row before it.
LEMMA AgreedDrafts ==
  ASSUME IInv, Verifying, NEW b \in BOOLEAN, NEW tops \in RowTops(b)
  PROVE  /\ Agreed(tops) \in 1..Len(call.drafts)
         /\ \A i \in 2..Agreed(tops) : call.drafts[i] \in TopsWhen(b, DraftText(i - 1))
<1>1. call.drafts \in Seq(Token) /\ Len(call.drafts) \in Nat \ {0}
  BY VerifyFacts
<1> DEFINE n == Len(call.drafts)
           agrees(k) == \A i \in 2 .. k : call.drafts[i] = tops[i - 1]
           stops(k) == k < n => call.drafts[k + 1] # tops[k]
           S == {k \in 1..n : agrees(k)}
<1>2. DOMAIN call.drafts = 1..n
  BY <1>1
<1>3. S \in SUBSET Nat /\ 1 \in S /\ n \in Nat /\ \A k \in S : k <= n
  BY <1>1
<1>4. PICK m \in S : \A j \in S : j <= m
  <2> HIDE DEF S
  <2> QED BY <1>3, GreatestMember
<1>5. Agreed(tops) = CHOOSE k \in 1..n : agrees(k) /\ stops(k)
  BY <1>2 DEF Agreed
<1>6. m \in 1..n /\ agrees(m) /\ stops(m)
  <2>1. m \in 1..n /\ agrees(m)
    BY <1>4
  <2>2. ASSUME m < n, call.drafts[m + 1] = tops[m] PROVE FALSE
    <3>1. m + 1 \in 1..n
      BY <1>3, <2>1, <2>2
    <3>2. ASSUME NEW i \in 2 .. m + 1 PROVE call.drafts[i] = tops[i - 1]
      <4>1. i \in 2 .. m \/ (i = m + 1 /\ i - 1 = m)
        BY <2>1
      <4> QED BY <2>1, <2>2, <4>1
    <3>3. m + 1 \in S
      BY <3>1, <3>2
    <3> HIDE DEF S, n
    <3> QED BY <1>3, <1>4, <3>3
  <2> QED BY <2>1, <2>2
<1> HIDE DEF S
<1>7. Agreed(tops) \in 1..n /\ agrees(Agreed(tops))
  <2> HIDE DEF agrees, stops, n
  <2> QED BY <1>5, <1>6
<1>8. ASSUME NEW i \in 2..Agreed(tops) PROVE call.drafts[i] \in TopsWhen(b, DraftText(i - 1))
  <2>1. i - 1 \in 1 .. n - 1
    BY <1>3, <1>7
  <2>2. tops[i - 1] \in TopsWhen(b, DraftText(i - 1))
    BY <2>1 DEF RowTops
  <2> QED BY <1>7, <2>2
<1> QED BY <1>7, <1>8

\* The next draft through the decode kernels.
LEMMA DecodeDraft ==
  ASSUME IInv, Verifying, NEW k \in 1..Len(call.drafts), NEW g \in Gpus,
         InCaches(DecodeToken(g, DraftText(k)))
  PROVE  LET h == DecodeToken(g, DraftText(k)) IN
         /\ h \in Gpus
         /\ Good(g, DraftText(k - 1)) =>
              Good(h, DraftText(k)) /\ Kept(h, DraftText(k), Len(checkpoint) + k - 1)
<1> DEFINE t == DraftText(k)
           n == Len(checkpoint) + k - 1
<1>1. Len(checkpoint) \in Nat \ {0} /\ Len(call.drafts) \in Nat \ {0}
  BY VerifyFacts
<1>2. k \in 0..Len(call.drafts) /\ k - 1 \in 0..k /\ n \in Nat /\ n + 1 = Len(checkpoint) + k
      /\ n = Len(checkpoint) + (k - 1)
  BY <1>1
<1>3. t \in Texts /\ Len(t) = n + 1 /\ Upto(t, n) = DraftText(k - 1)
  BY <1>2, DraftTexts
<1>4. InCaches(DecodeToken(g, t))
  OBVIOUS
<1> HIDE DEF t, n
<1>5. Len(t) > 0 /\ Len(t) - 1 = n /\ n \in 0..Len(t)
  BY <1>2, <1>3
<1>6. /\ DecodeToken(g, t) \in Gpus
      /\ Holding(g, t, n) => Good(DecodeToken(g, t), t) /\ Kept(DecodeToken(g, t), t, n)
  BY <1>3, <1>4, <1>5, DecodeStep
<1>7. Good(g, DraftText(k - 1)) => Holding(g, t, n)
  BY <1>3, <1>5, GoodIsHolding
<1> QED BY <1>2, <1>3, <1>6, <1>7 DEF t, n

\* Several drafts in one batch.
LEMMA BatchDrafts ==
  ASSUME IInv, Verifying, NEW k \in 1..Len(call.drafts), k <= PrefillCap, NEW g \in Gpus,
         InCaches(Batch(g, DraftText(k), call.start))
  PROVE  LET h == Batch(g, DraftText(k), call.start) IN
         /\ h \in Gpus
         /\ Good(g, checkpoint) =>
              /\ Good(h, DraftText(k))
              /\ \A j \in 0..k : Kept(h, DraftText(k), Len(checkpoint) + j)
<1> DEFINE t == DraftText(k)
           n == Len(checkpoint)
<1>1. n \in Nat \ {0} /\ Len(call.drafts) \in Nat \ {0} /\ call.start = n
  BY VerifyFacts
<1>2. k \in 0..Len(call.drafts)
  BY <1>1
<1>3. t \in Texts /\ Len(t) = n + k /\ Upto(t, n) = checkpoint
  BY <1>2, DraftTexts
<1> HIDE DEF t
<1>4. n \in 0..Len(t) /\ Len(t) - n <= PrefillCap /\ InCaches(Batch(g, t, n))
  BY <1>1, <1>2, <1>3, Sizes DEF t
<1>5. LET h == Batch(g, t, n) IN
      /\ h \in Gpus
      /\ Holding(g, t, n) => Good(h, t) /\ \A j \in n..Len(t) : Kept(h, t, j)
  <2> HIDE DEF n
  <2> QED BY <1>3, <1>4, BatchStep
<1>6. Good(g, checkpoint) => Holding(g, t, n)
  BY <1>3, <1>4, GoodIsHolding
<1>7. \A j \in 0..k : n + j \in n..Len(t)
  BY <1>1, <1>3
<1> HIDE DEF n
<1> QED BY <1>1, <1>3, <1>5, <1>6, <1>7 DEF t, n

LEMMA VerifyOneStep == ASSUME IInv, VerifyOne PROVE IInv'
<1>1. Verifying /\ Len(call.drafts) = 2 /\ UNCHANGED <<file, tainted, rounded>>
      /\ rounded' \in BOOLEAN
  BY DEF VerifyOne, IInv, Types
<1>2. CASE Commit(1, DecodeToken(gpu, DraftText(1)))
  <2>1. /\ 1 \in 1..Len(call.drafts) /\ gpu \in Gpus
        /\ ~tainted => Good(gpu, DraftText(1 - 1))
    <3>1. gpu \in Gpus /\ (~tainted => Good(gpu, checkpoint)) /\ 1 - 1 = 0
      BY <1>1, VerifyFacts
    <3>2. DraftText(0) = checkpoint
      BY <1>1, DraftNone
    <3> QED BY <1>1, <3>1, <3>2
  <2>2. InCaches(DecodeToken(gpu, DraftText(1)))
    BY <1>2 DEF Commit, Holds
  <2>3. /\ DecodeToken(gpu, DraftText(1)) \in Gpus
        /\ ~tainted => Good(DecodeToken(gpu, DraftText(1)), DraftText(1))
    BY <1>1, <2>1, <2>2, DecodeDraft
  <2> QED BY <1>1, <1>2, <2>1, <2>3, CommitStep
<1>3. CASE Lost /\ call' = Idle /\ UNCHANGED <<checkpoint, draft, accepted>>
  BY <1>1, <1>3, GivenUp DEF IInv, Types
<1> QED BY <1>2, <1>3 DEF VerifyOne

LEMMA VerifyTwoStep == ASSUME IInv, VerifyTwo PROVE IInv'
<1> DEFINE g1 == DecodeToken(gpu, DraftText(1))
           g2 == DecodeToken(g1, DraftText(2))
           fails == Scrambled(gpu, call.start, 2)
           n == Len(checkpoint)
<1>1. Verifying /\ Len(call.drafts) = 2 /\ UNCHANGED <<file, rounded>> /\ rounded' \in BOOLEAN
  BY DEF VerifyTwo, IInv, Types
<1>2. /\ gpu \in Gpus /\ n \in Nat \ {0} /\ call.start = n
      /\ ~tainted => Good(gpu, checkpoint)
  BY <1>1, VerifyFacts
<1>3. DraftText(0) = checkpoint
  BY <1>1, DraftNone
<1>4. /\ 1 \in 1..Len(call.drafts) /\ 2 \in 1..Len(call.drafts) /\ 2 \in 0..Len(call.drafts)
      /\ 1 - 1 = 0 /\ 2 - 1 = 1 /\ n + 1 - 1 = n /\ n + 2 - 1 = n + 1
  BY <1>1, <1>2
<1>5. InCaches(g1) =>
      /\ g1 \in Gpus
      /\ ~tainted => Good(g1, DraftText(1))
  BY <1>1, <1>2, <1>3, <1>4, DecodeDraft
<1>6. InCaches(g1) /\ InCaches(g2) =>
      /\ g2 \in Gpus
      /\ ~tainted => Good(g2, DraftText(2)) /\ Kept(g2, DraftText(2), n + 1)
  <2> HIDE DEF g1
  <2> QED BY <1>1, <1>4, <1>5, DecodeDraft
<1>7. /\ DraftText(2) \in Texts /\ Len(DraftText(2)) = n + 2
      /\ Upto(DraftText(2), n) = checkpoint /\ Upto(DraftText(2), n + 1) = DraftText(1)
  <2>1. 1 \in 0..2
    OBVIOUS
  <2> QED BY <1>1, <1>4, <2>1, DraftTexts
<1>8. /\ n \in 0..Len(DraftText(2)) /\ n + 1 \in 0..Len(DraftText(2))
      /\ n <= Len(DraftText(2)) /\ Len(DraftText(2)) - n = 2
  BY <1>2, <1>7
<1>9. /\ ~tainted => Kept(gpu, DraftText(2), n) /\ Kept(fails, DraftText(2), n)
      /\ fails \in Gpus
  <2>1. ~tainted => Kept(gpu, DraftText(2), n)
    BY <1>2, <1>7, <1>8, GoodIsHolding DEF Holding
  <2>2. Kept(gpu, DraftText(2), n) => Kept(fails, DraftText(2), n)
    BY <1>2, <1>7, <1>8, ScrambledKeeps DEF Short
  <2> QED BY <1>2, <2>1, <2>2, ScrambledType
<1> DEFINE r == Restore(g2, Frontier(g1))
<1>10. InCaches(g1) /\ InCaches(g2) =>
       /\ r \in Gpus
       /\ ~tainted => Good(r, DraftText(1))
  <2> HIDE DEF g1, g2
  <2> QED BY <1>5, <1>6, <1>7, <1>8, RestoreType, RestoreGood
<1>11. \/ InCaches(g1) /\ InCaches(g2) /\ Commit(2, g2) /\ UNCHANGED tainted
       \/ InCaches(g1) /\ InCaches(g2) /\ Commit(1, r) /\ UNCHANGED tainted
       \/ FallBack(fails)
       \/ FallBack(gpu)
  BY DEF VerifyTwo
<1> HIDE DEF g1, g2, fails, r
<1>12. CASE InCaches(g1) /\ InCaches(g2) /\ Commit(2, g2) /\ UNCHANGED tainted
  BY <1>1, <1>4, <1>6, <1>12, CommitStep
<1>13. CASE InCaches(g1) /\ InCaches(g2) /\ Commit(1, r) /\ UNCHANGED tainted
  BY <1>1, <1>4, <1>10, <1>13, CommitStep
<1>14. CASE FallBack(fails)
  BY <1>1, <1>7, <1>8, <1>9, <1>14, FallBackStep
<1>15. CASE FallBack(gpu)
  BY <1>1, <1>2, <1>7, <1>8, <1>9, <1>15, FallBackStep
<1> QED BY <1>11, <1>12, <1>13, <1>14, <1>15

LEMMA VerifyBatchStep == ASSUME IInv, VerifyBatch PROVE IInv'
<1> DEFINE m == Len(call.drafts)
           n == Len(checkpoint)
           g == Batch(gpu, DraftText(m), call.start)
           g1 == DecodeToken(gpu, DraftText(1))
<1>1. Verifying /\ UNCHANGED file /\ rounded' \in BOOLEAN
  BY DEF VerifyBatch, IInv, Types
<1>2. /\ gpu \in Gpus /\ n \in Nat \ {0} /\ call.start = n
      /\ m \in Nat \ {0} /\ checkpoint \in Texts /\ (~tainted => Good(gpu, checkpoint))
  BY <1>1, VerifyFacts
<1>3. DraftText(0) = checkpoint
  BY <1>1, DraftNone
<1>4. 1 \in 1..m /\ m \in 1..m /\ m \in 0..m /\ 1 \in 0..m /\ 0 \in 0..m
      /\ 1 - 1 = 0 /\ n + 0 = n
  BY <1>2
<1>6. InCaches(g1) => g1 \in Gpus /\ (~tainted => Good(g1, DraftText(1)))
  BY <1>1, <1>2, <1>3, <1>4, DecodeDraft
<1>7. /\ DraftText(m) \in Texts /\ Len(DraftText(m)) = n + m
      /\ Upto(DraftText(m), n) = checkpoint /\ Upto(DraftText(m), n + 1) = DraftText(1)
  BY <1>1, <1>4, DraftTexts
<1>8. /\ n \in 0..Len(DraftText(m)) /\ n + 1 \in 0..Len(DraftText(m))
      /\ n <= Len(DraftText(m)) /\ Len(DraftText(m)) - n = m
  BY <1>2, <1>7
<1>9. ~tainted => Kept(gpu, DraftText(m), n)
  BY <1>2, <1>7, <1>8, GoodIsHolding DEF Holding
<1>10. \/ /\ m <= PrefillCap /\ InCaches(g) /\ UNCHANGED tainted
          /\ \/ Commit(m, g)
             \/ Commit(1, Restore(g, Frontier(g1)))
             \/ \E tops \in RowTops(TRUE) :
                  Commit(Agreed(tops), Batch(Restore(g, Frontier(gpu)), DraftText(Agreed(tops)), call.start))
       \/ m <= PrefillCap /\ FallBack(Scrambled(gpu, call.start, m)) /\ UNCHANGED rounded
       \/ FallBack(gpu) /\ UNCHANGED rounded
       \/ SpecLost /\ UNCHANGED <<tainted, rounded>>
  BY DEF VerifyBatch
<1> HIDE DEF m, n, g1, g
<1>11. ASSUME m <= PrefillCap, InCaches(g)
       PROVE  /\ g \in Gpus
              /\ ~tainted => /\ Good(g, DraftText(m))
                             /\ \A j \in 0..m : Kept(g, DraftText(m), n + j)
  BY <1>1, <1>2, <1>4, <1>11, BatchDrafts DEF m, n, g
<1>12. CASE m <= PrefillCap /\ InCaches(g) /\ Commit(m, g) /\ UNCHANGED tainted
  BY <1>1, <1>4, <1>11, <1>12, CommitStep DEF m, n
<1>13. CASE /\ m <= PrefillCap /\ InCaches(g) /\ UNCHANGED tainted
            /\ Commit(1, Restore(g, Frontier(g1)))
  <2> DEFINE r == Restore(g, Frontier(g1))
  <2>1. g \in Gpus
    BY <1>11, <1>13
  <2>2. InCaches(g1)
    <3>1. InCaches(r) /\ r.ncomp = g1.ncomp
      BY <1>13, <2>1 DEF Commit, Holds, Restore, Frontier, Gpus
    <3> QED BY <3>1 DEF InCaches
  <2>3. g1 \in Gpus /\ r \in Gpus
    BY <1>6, <2>1, <2>2, RestoreType
  <2>4. ~tainted => Good(r, DraftText(1))
    BY <1>4, <1>6, <1>7, <1>8, <1>11, <1>13, <2>1, <2>2, <2>3, RestoreGood
  <2> HIDE DEF r
  <2>5. Commit(1, r)
    BY <1>13 DEF r
  <2> QED BY <1>1, <1>4, <1>13, <2>3, <2>4, <2>5, CommitStep DEF m, n
<1>14. CASE /\ m <= PrefillCap /\ InCaches(g) /\ UNCHANGED tainted
            /\ \E tops \in RowTops(TRUE) :
                 Commit(Agreed(tops), Batch(Restore(g, Frontier(gpu)), DraftText(Agreed(tops)), call.start))
  <2> DEFINE r == Restore(g, Frontier(gpu))
  <2>1. PICK k \in 1..m : Commit(k, Batch(r, DraftText(k), call.start))
    BY <1>1, <1>14, AgreedDrafts DEF m
  <2> DEFINE h == Batch(r, DraftText(k), call.start)
  <2>2. r \in Gpus
    BY <1>2, <1>11, <1>14, RestoreType
  <2>3. ~tainted => Good(r, checkpoint)
    <3>1. ~tainted => Kept(g, DraftText(m), n)
      BY <1>4, <1>11, <1>14
    <3> QED BY <1>2, <1>7, <1>8, <1>11, <1>14, <3>1, RestoreGood
  <2>4. k <= PrefillCap
    BY <1>2, <1>14, Sizes
  <2> HIDE DEF r
  <2>5. InCaches(h)
    BY <2>1 DEF Commit, Holds
  <2>6. h \in Gpus /\ (~tainted => Good(h, DraftText(k)))
    BY <1>1, <2>2, <2>3, <2>4, <2>5, BatchDrafts DEF m, n
  <2>7. Commit(k, h)
    BY <2>1
  <2> HIDE DEF h
  <2> QED BY <1>1, <1>14, <2>6, <2>7, CommitStep DEF m, n
<1>15. CASE m <= PrefillCap /\ FallBack(Scrambled(gpu, call.start, m)) /\ UNCHANGED rounded
  <2> DEFINE f == Scrambled(gpu, call.start, m)
  <2>1. f \in Gpus
    BY <1>2, ScrambledType
  <2>2. ~tainted => Kept(f, DraftText(m), n)
    <3>1. Short(Len(DraftText(m)) - n)
      BY <1>8, <1>15 DEF Short
    <3>2. Kept(gpu, DraftText(m), n) => Kept(Scrambled(gpu, n, Len(DraftText(m)) - n), DraftText(m), n)
      BY <1>2, <1>7, <1>8, <3>1, ScrambledKeeps
    <3> QED BY <1>2, <1>8, <1>9, <3>2
  <2>3. FallBack(f) /\ UNCHANGED rounded
    BY <1>15
  <2> HIDE DEF f
  <2> QED BY <1>1, <1>7, <1>8, <2>1, <2>2, <2>3, FallBackStep DEF n
<1>16. CASE FallBack(gpu) /\ UNCHANGED rounded
  BY <1>1, <1>2, <1>7, <1>8, <1>9, <1>16, FallBackStep DEF n
<1>17. CASE SpecLost /\ UNCHANGED <<tainted, rounded>>
  <2>1. Upto(checkpoint, call.start) = checkpoint
    BY <1>2, UptoAll DEF n, Texts
  <2>2. Lost /\ checkpoint' = checkpoint /\ call' = Idle /\ UNCHANGED <<draft, accepted>>
    BY <1>17, <2>1 DEF SpecLost
  <2> QED BY <1>1, <1>17, <2>2, GivenUp DEF IInv, Types
<1> QED BY <1>10, <1>12, <1>13, <1>14, <1>15, <1>16, <1>17

\* The sequential fallback has verified as many drafts as it has accepted.
LEMMA SequentialFacts ==
  ASSUME IInv, call.op = "sequential"
  PROVE  /\ SequentialInv /\ Types /\ FileInv /\ AtRest /\ valid /\ Accepts
         /\ call.drafts \in Seq(Token) /\ Len(call.drafts) \in Nat /\ call.max \in Nat
         /\ call.base \in Texts
         /\ checkpoint \in Texts /\ Len(checkpoint) \in Nat \ {0}
         /\ accepted \in Texts /\ Len(accepted) \in Nat \ {0}
         /\ Next1 = Len(accepted) /\ Len(accepted) - 1 <= Len(call.drafts)
         /\ Len(call.drafts) + 1 <= call.max
         /\ Len(accepted) > 1 => Len(checkpoint) < CtxSize
         /\ Len(accepted) <= Len(call.drafts) => Len(checkpoint) + 1 < CtxSize
<1>1. SequentialInv /\ Types /\ FileInv
  BY DEF IInv, CallInv, Idle
<1>2. /\ checkpoint \in Texts /\ Len(checkpoint) \in Nat
      /\ accepted \in Texts /\ Len(accepted) \in Nat
  BY <1>1 DEF Types, Texts
<1>3. /\ call.drafts \in Seq(Token) /\ Len(call.drafts) \in Nat /\ call.start \in Nat
      /\ call.max \in Nat /\ call.base \in Texts /\ AtRest /\ valid /\ Accepts
      /\ Len(call.drafts) + 1 <= call.max /\ call.start + Len(call.drafts) < CtxSize
      /\ Len(checkpoint) = call.start + Len(accepted) - 1
      /\ Len(accepted) - 1 <= Len(call.drafts) /\ Len(accepted) > 0
  BY <1>1 DEF SequentialInv, VerifyCalls, DraftsFit
<1>4. Len(checkpoint) > 0
  BY <1>2, <1>3, AcceptsSome
<1>5. Next1 = Len(accepted)
  <2>1. Len(checkpoint) \in Nat /\ Len(accepted) \in Nat /\ call.start \in Nat
        /\ Len(checkpoint) = call.start + Len(accepted) - 1
    BY <1>2, <1>3
  <2> QED BY <2>1 DEF Next1
<1>6. /\ Len(accepted) > 1 => Len(checkpoint) < CtxSize
      /\ Len(accepted) <= Len(call.drafts) => Len(checkpoint) + 1 < CtxSize
  <2>1. /\ Len(checkpoint) \in Nat /\ Len(accepted) \in Nat /\ call.start \in Nat
        /\ Len(call.drafts) \in Nat /\ CtxSize \in Nat
        /\ Len(checkpoint) = call.start + Len(accepted) - 1
        /\ Len(accepted) - 1 <= Len(call.drafts)
        /\ call.start + Len(call.drafts) < CtxSize
    BY <1>2, <1>3, Sizes
  <2> QED BY <2>1
<1> QED BY <1>1, <1>2, <1>3, <1>4, <1>5, <1>6

LEMMA SequentialTokenStep == ASSUME IInv, SequentialToken PROVE IInv'
<1> DEFINE x == call.drafts[Next1]
           t == Append(checkpoint, x)
<1>1. call.op = "sequential" /\ Next1 <= Len(call.drafts)
  BY DEF SequentialToken
<1>2. /\ SequentialInv /\ Types /\ FileInv /\ AtRest /\ valid /\ Accepts
      /\ call.drafts \in Seq(Token) /\ Len(call.drafts) \in Nat /\ call.max \in Nat
      /\ call.base \in Texts /\ checkpoint \in Texts /\ Len(checkpoint) \in Nat \ {0}
      /\ accepted \in Texts /\ Len(accepted) \in Nat \ {0} /\ Next1 = Len(accepted)
      /\ Len(call.drafts) + 1 <= call.max
  BY <1>1, SequentialFacts
<1>3. Len(accepted) <= Len(call.drafts) /\ Len(checkpoint) < CtxSize
  <2>1. Len(checkpoint) + 1 < CtxSize
    BY <1>1, <1>2, SequentialFacts
  <2> QED BY <1>1, <1>2, <2>1, Sizes
<1>4. x \in Token
  BY <1>1, <1>2
<1> HIDE DEF x
<1>5. /\ t \in Texts /\ Len(t) = Len(checkpoint) + 1
      /\ Upto(t, Len(checkpoint)) = checkpoint /\ t = checkpoint \o <<x>>
  BY <1>2, <1>3, <1>4, AppendText
<1>6. /\ Holds(t, DecodeToken(gpu, t)) /\ accepted' = Append(accepted, x)
      /\ UNCHANGED <<valid, draft, call, file, tainted, rounded>>
  BY DEF SequentialToken, x
<1>7. AtRest' /\ checkpoint' = t /\ logits' \in Texts /\ gpu' \in Gpus
  <2> HIDE DEF t
  <2> QED BY <1>2, <1>5, <1>6, OneMore
<1>8. /\ accepted' \in Texts /\ Len(accepted') = Len(accepted) + 1
      /\ accepted' = accepted \o <<x>>
  <2>1. Len(accepted) < CtxSize
    BY <1>2, <1>3, Sizes DEF SequentialInv, DraftsFit, VerifyCalls
  <2> QED BY <1>2, <1>4, <1>6, <2>1, AppendText
<1>9. checkpoint' = call.base \o accepted'
  <2>1. checkpoint = call.base \o accepted
    BY <1>2 DEF Accepts
  <2> DEFINE u == <<x>>
  <2>2. u \in Seq(Token) /\ call.base \in Seq(Token) /\ accepted \in Seq(Token)
    BY <1>2, <1>4 DEF Texts
  <2> HIDE DEF u
  <2>3. (call.base \o accepted) \o u = call.base \o (accepted \o u)
    BY <2>2, ConcatThree
  <2> USE DEF u
  <2> QED BY <1>5, <1>7, <1>8, <2>1, <2>3
<1>10. Accepts'
  BY <1>2, <1>3, <1>6, <1>8, <1>9 DEF Accepts
<1>11. Types' /\ FileInv'
  BY <1>2, <1>5, <1>6, <1>7, <1>8, FileKept DEF Types
<1>12. SequentialInv'
  <2>1. call' = call /\ valid'
    BY <1>2, <1>6
  <2>2. call \in VerifyCalls /\ DraftsFit /\ call.start \in Nat
        /\ Len(checkpoint) = call.start + Len(accepted) - 1
    BY <1>2 DEF SequentialInv, VerifyCalls
  <2>3. DraftsFit'
    BY <2>1, <2>2 DEF DraftsFit
  <2>4. Len(checkpoint') = Len(checkpoint) + 1
    BY <1>5, <1>7
  <2>5. Len(checkpoint') = call'.start + Len(accepted') - 1
        /\ Len(accepted') - 1 <= Len(call'.drafts) /\ Len(accepted') > 0
    <3>1. /\ Len(accepted) \in Nat /\ Len(call.drafts) \in Nat /\ Len(accepted) > 0
          /\ Len(accepted) <= Len(call.drafts) /\ Len(accepted') = Len(accepted) + 1
          /\ Len(checkpoint') = call.start + Len(accepted)
      BY <1>2, <1>3, <1>8, <2>2, <2>4
    <3> QED BY <2>1, <2>2, <3>1
  <2> QED BY <1>7, <1>10, <2>1, <2>2, <2>3, <2>5 DEF SequentialInv
<1> QED BY <1>1, <1>6, <1>11, <1>12 DEF IInv, CallInv

LEMMA SequentialStopStep == ASSUME IInv, SequentialEnd \/ SequentialFails PROVE IInv'
<1>1. CASE SequentialEnd
  <2>1. call.op = "sequential" /\ call' = Idle
        /\ UNCHANGED <<checkpoint, valid, logits, draft, gpu, accepted, file, tainted, rounded>>
    BY <1>1 DEF SequentialEnd, sessionVars
  <2>2. AtRest /\ Types /\ FileInv
    BY <2>1, SequentialFacts
  <2>3. AtRest' /\ Types' /\ FileInv'
    BY <2>1, <2>2, RestKept, FileKept DEF Types
  <2> QED BY <2>1, <2>3 DEF IInv, CallInv
<1>2. CASE SequentialFails
  BY <1>2, GivenUp DEF SequentialFails, IInv, Types
<1> QED BY <1>1, <1>2
-----------------------------------------------------------------------------
(* Payloads and the other calls.                                           *)

LEMMA ExactIsGood == ASSUME NEW t, NEW g, NEW l PROVE Exact(t, g, l) <=> l = t /\ Good(g, t)
BY DEF Exact, Good, RawFor

\* What a payload has room for: the rows of the window, each with its position.
LEMMA LoadedType ==
  ASSUME NEW f, Payload(f)
  PROVE  Loaded(f) \in Gpus /\ Loaded(f).ncomp = f.ncomp
<1>1. f.ncomp \in 0..CompCap /\ f.front \in Texts /\ CompCap \in Nat /\ RawCap \in Nat
  BY CompCapType, RingIsLongEnough DEF Payload
<1>2. DOMAIN Blank.raw = 0 .. RawCap - 1 /\ DOMAIN Blank.comp = 0 .. CompCap - 1
  BY DEF Blank
<1>3. ASSUME NEW s \in 0 .. RawCap - 1
      PROVE  (IF \E p \in DOMAIN f.raw : Slot(p) = s
              THEN f.raw[CHOOSE p \in DOMAIN f.raw : Slot(p) = s] ELSE Garbage) \in Texts
  <2>1. \A p \in DOMAIN f.raw : f.raw[p] \in Texts
    BY DEF Payload
  <2>2. CASE \E p \in DOMAIN f.raw : Slot(p) = s
    <3>1. (CHOOSE p \in DOMAIN f.raw : Slot(p) = s) \in DOMAIN f.raw
      BY <2>2
    <3> QED BY <2>1, <2>2, <3>1
  <2> QED BY <2>2, EmptyText
<1>4. ASSUME NEW i \in 0 .. CompCap - 1
      PROVE  (IF i < f.ncomp THEN f.comp[i] ELSE Garbage) \in Texts
  <2>1. CASE i < f.ncomp
    <3>1. i \in 0 .. f.ncomp - 1
      BY <1>1, <2>1
    <3> QED BY <2>1, <3>1 DEF Payload
  <2> QED BY <2>1, EmptyText
<1>5. Loaded(f).raw \in [0 .. RawCap - 1 -> Texts] /\ Loaded(f).comp \in [0 .. CompCap - 1 -> Texts]
  BY <1>2, <1>3, <1>4 DEF Loaded
<1>6. /\ Loaded(f) = [raw |-> Loaded(f).raw, comp |-> Loaded(f).comp,
                      ncomp |-> Loaded(f).ncomp, front |-> Loaded(f).front]
      /\ Loaded(f).ncomp = f.ncomp /\ Loaded(f).front = f.front
  BY DEF Loaded
<1> QED BY <1>1, <1>5, <1>6 DEF Gpus

\* What Save writes for a session with backend g, text t and logits l.
Saved(t, l, g, bad, batched) ==
  [text   |-> t,
   logits |-> l,
   raw    |-> [p \in Live(Len(t)) |-> g.raw[Slot(p)]],
   comp   |-> [i \in 0 .. g.ncomp - 1 |-> g.comp[i]],
   ncomp  |-> g.ncomp,
   front  |-> g.front,
   tainted |-> bad,
   rounded |-> batched]

LEMMA SavedIsPayload ==
  ASSUME NEW t \in Texts, NEW l \in Texts, NEW g \in Gpus, NEW bad \in BOOLEAN,
         NEW batched \in BOOLEAN, ~bad => Len(t) > 0
  PROVE  Payload(Saved(t, l, g, bad, batched))
<1>1. Len(t) \in Nat /\ g.ncomp \in 0..CompCap /\ g.front \in Texts /\ CompCap \in Nat
  BY CompCapType DEF Texts, Gpus
<1>2. ASSUME NEW p \in Live(Len(t)) PROVE g.raw[Slot(p)] \in Texts
  <2>1. p \in Nat
    BY <1>1, Sizes DEF Live, Greater
  <2>2. Slot(p) \in 0 .. RawCap - 1
    BY <2>1, SlotType
  <2> QED BY <2>2 DEF Gpus
<1>3. ASSUME NEW i \in 0 .. g.ncomp - 1 PROVE g.comp[i] \in Texts
  <2>1. i \in 0 .. CompCap - 1
    BY <1>1
  <2> QED BY <2>1 DEF Gpus
<1> QED BY <1>1, <1>2, <1>3 DEF Saved, Payload

\* The rows a session needs next are in the payload, each at its own place.
LEMMA SavedIsExact ==
  ASSUME NEW t \in Texts, NEW l, NEW g \in Gpus, NEW bad, NEW batched, Good(g, t)
  PROVE  Good(Loaded(Saved(t, l, g, bad, batched)), t)
<1> DEFINE f == Saved(t, l, g, bad, batched)
           h == Loaded(f)
           n == Len(t)
<1>1. n \in 0..CtxSize /\ g.ncomp = n \div Ratio /\ g.front = t /\ n \div Ratio \in 0..CompCap
      /\ CompCap \in Nat /\ RawCap \in Nat
  BY CompCapType, RingIsLongEnough DEF Good, CompressedFor, Texts
<1>2. /\ f.text = t /\ f.ncomp = g.ncomp /\ f.front = g.front
      /\ DOMAIN f.raw = Live(n) /\ \A p \in Live(n) : f.raw[p] = g.raw[Slot(p)]
      /\ \A i \in 0 .. g.ncomp - 1 : f.comp[i] = g.comp[i]
  BY DEF Saved
<1>3. DOMAIN Blank.raw = 0 .. RawCap - 1 /\ DOMAIN Blank.comp = 0 .. CompCap - 1
  BY DEF Blank
<1>4. /\ h.ncomp = f.ncomp /\ h.front = f.front
      /\ \A s \in 0 .. RawCap - 1 :
           h.raw[s] = IF \E p \in DOMAIN f.raw : Slot(p) = s
                      THEN f.raw[CHOOSE p \in DOMAIN f.raw : Slot(p) = s] ELSE Garbage
      /\ \A i \in 0 .. CompCap - 1 : h.comp[i] = IF i < f.ncomp THEN f.comp[i] ELSE Garbage
  <2> HIDE DEF f
  <2> QED BY <1>3 DEF Loaded
<1> HIDE DEF f, h
<1>5. CompressedFor(h, t)
  <2>1. ASSUME NEW i \in 0 .. h.ncomp - 1 PROVE h.comp[i] = Upto(t, (i + 1) * Ratio)
    <3>1. i \in 0 .. g.ncomp - 1 /\ i \in 0 .. CompCap - 1 /\ i < f.ncomp
      BY <1>1, <1>2, <1>4
    <3>2. h.comp[i] = g.comp[i]
      BY <1>2, <1>4, <3>1
    <3> QED BY <3>1, <3>2 DEF Good, CompressedFor
  <2> QED BY <1>1, <1>2, <1>4, <2>1 DEF CompressedFor
<1>6. ASSUME NEW p \in Past(n) PROVE h.raw[Slot(p)] = Upto(t, p + 1)
  <2>1. n \in Nat /\ p \in Nat /\ p < n /\ n - p < Window
    BY <1>1, PastType
  <2>2. Live(n) = Greater(0, n - Window) .. n - 1
    BY DEF Live
  <2>3. p \in Live(n)
    BY <2>1, <2>2, Sizes DEF Greater
  <2>4. ASSUME NEW q \in Live(n), q # p PROVE Slot(q) # Slot(p)
    <3>1. q \in Nat /\ q < n /\ n - q <= Window
      BY <2>1, <2>2, Sizes DEF Greater
    <3>2. q - p < RawCap /\ p - q < RawCap
      BY <2>1, <3>1, Sizes, RingIsLongEnough
    <3> QED BY <2>1, <2>4, <3>1, <3>2, SlotsDiffer
  <2>5. (CHOOSE q \in DOMAIN f.raw : Slot(q) = Slot(p)) = p
    BY <1>2, <2>3, <2>4
  <2>6. Slot(p) \in 0 .. RawCap - 1
    BY <2>1, SlotType
  <2>7. h.raw[Slot(p)] = f.raw[p]
    BY <1>2, <1>4, <2>3, <2>5, <2>6
  <2> QED BY <1>2, <2>3, <2>7 DEF Good, RawFor
<1> QED BY <1>5, <1>6 DEF Good, RawFor, h, f

LEMMA SaveStep == ASSUME IInv, Save PROVE IInv'
<1>1. Types /\ FileInv /\ CallInv /\ valid
  BY DEF Save, IInv
<1>2. AtRest
  <2>1. CASE ~Busy
    BY <2>1, IdleRests
  <2>2. CASE call.op = "prefill" /\ call.notes
    <3>1. PrefillInv
      BY <1>1, <2>2 DEF CallInv, Idle
    <3> QED BY <2>2, <3>1 DEF PrefillInv
  <2> QED BY <2>1, <2>2 DEF Save
<1>3. /\ file' = Saved(checkpoint, logits, gpu, tainted, rounded) /\ accepted' = <<>>
      /\ UNCHANGED <<checkpoint, valid, logits, draft, gpu, call, tainted, rounded>>
  BY DEF Save, Saved, sessionVars
<1>4. /\ checkpoint \in Texts /\ logits \in Texts /\ gpu \in Gpus
      /\ tainted \in BOOLEAN /\ rounded \in BOOLEAN
      /\ ~tainted => Len(checkpoint) > 0 /\ Good(gpu, checkpoint) /\ logits = checkpoint
  BY <1>1, <1>2 DEF Types, AtRest
<1>5. Payload(file')
  BY <1>3, <1>4, SavedIsPayload
<1>6. ~tainted => Good(Loaded(file'), checkpoint)
  BY <1>3, <1>4, SavedIsExact
<1>7. file'.text = checkpoint /\ file'.logits = logits /\ file'.tainted = tainted
  BY <1>3 DEF Saved
<1>8. ~file'.tainted => /\ file'.logits = file'.text
                        /\ Exact(file'.text, Loaded(file'), file'.logits)
  BY <1>4, <1>6, <1>7, ExactIsGood
<1>9. FileInv'
  BY <1>5, <1>8 DEF FileInv, FilesExact
<1>10. Types'
  BY <1>1, <1>3, EmptyText DEF Types, Garbage
<1>11. CallInv'
  <2>1. CASE ~Busy
    <3>1. call' = Idle /\ AtRest'
      BY <1>2, <1>3, <2>1, IdleRests, RestKept
    <3> QED BY <3>1 DEF CallInv
  <2>2. CASE call.op = "prefill" /\ call.notes
    <3>1. PrefillInv
      BY <1>1, <2>2 DEF CallInv, Idle
    <3>2. AtRest' /\ call' = call /\ gpu' = gpu /\ tainted' = tainted
      BY <1>2, <1>3, RestKept
    <3>3. PrefillInv'
      BY <3>1, <3>2 DEF PrefillInv, Holding, Kept
    <3> QED BY <2>2, <3>2, <3>3 DEF CallInv
  <2> QED BY <2>1, <2>2 DEF Save
<1> QED BY <1>9, <1>10, <1>11 DEF IInv

LEMMA LoadStep == ASSUME IInv, Load PROVE IInv'
<1>1. Types /\ FileInv /\ Payload(file) /\ call = Idle
  BY IdleRests DEF Load, Fits, IInv, FileInv
<1>2. /\ checkpoint' = file.text /\ valid' = TRUE /\ logits' = file.logits /\ draft' = NoDraft
      /\ gpu' = Loaded(file) /\ tainted' = file.tainted /\ rounded' = file.rounded
      /\ accepted' = <<>>
      /\ UNCHANGED <<call, file>>
  BY DEF Load
<1>3. Loaded(file) \in Gpus /\ Loaded(file).ncomp = file.ncomp
  BY <1>1, LoadedType
<1>4. /\ file.text \in Texts /\ file.logits \in Texts
      /\ file.tainted \in BOOLEAN /\ file.rounded \in BOOLEAN
      /\ ~file.tainted => Len(file.text) > 0
  BY <1>1 DEF Payload
<1>5. ~file.tainted => file.logits = file.text /\ Good(Loaded(file), file.text)
  <2>1. file # NoFile
    BY DEF Load, Fits
  <2> QED BY <1>1, <2>1, ExactIsGood DEF FileInv, FilesExact
<1>6. Types' /\ FileInv'
  BY <1>1, <1>2, <1>3, <1>4, EmptyText, FileKept DEF Types, Garbage
<1>7. AtRest'
  BY <1>2, <1>3, <1>4, <1>5 DEF AtRest
<1> QED BY <1>1, <1>2, <1>6, <1>7 DEF IInv, CallInv

LEMMA DropStep == ASSUME IInv, LoadFails \/ CallerInvalidates \/ Invalidate PROVE IInv'
<1>1. CASE LoadFails
  <2>1. Types' /\ FileInv'
    BY <1>1, EmptyText, BlankType, FileKept DEF LoadFails, IInv, Types, Garbage
  <2>2. call'.op = "loadFailed"
    BY <1>1 DEF LoadFails
  <2> QED BY <2>1, <2>2 DEF IInv, CallInv
<1>2. CASE CallerInvalidates \/ Invalidate
  <2>1. call' = Idle
    BY <1>2, IdleRests DEF CallerInvalidates, Invalidate
  <2>2. /\ checkpoint' = <<>> /\ valid' = FALSE /\ draft' = NoDraft
        /\ UNCHANGED <<logits, gpu, file, tainted, rounded>> /\ accepted' \in {<<>>, accepted}
    BY <1>2 DEF CallerInvalidates, Invalidate
  <2>3. Types' /\ FileInv' /\ AtRest'
    BY <2>2, EmptyText, FileKept DEF IInv, Types, Garbage, AtRest
  <2> QED BY <2>1, <2>3 DEF IInv, CallInv
<1> QED BY <1>1, <1>2

LEMMA RewindStep == ASSUME IInv, NEW pos \in RewindTo, Rewind(pos) PROVE IInv'
<1> DEFINE to == Lesser(Greater(0, pos), Len(checkpoint))
<1>1. Types /\ FileInv /\ AtRest /\ call = Idle /\ checkpoint \in Texts
      /\ Len(checkpoint) \in Nat /\ pos \in Int
  BY IdleRests, SizesAssumption DEF Rewind, IInv, Types, Texts
<1>2. to \in 0..Len(checkpoint)
  BY <1>1 DEF Lesser, Greater
<1>3. /\ checkpoint' = Upto(checkpoint, to) /\ draft' = NoDraft
      /\ tainted' = (tainted \/ to < Len(checkpoint)) /\ accepted' = <<>>
      /\ UNCHANGED <<valid, logits, gpu, call, file, rounded>>
  BY DEF Rewind
<1> HIDE DEF to
<1>4. checkpoint' \in Texts
  BY <1>1, <1>2, <1>3, UptoType
<1>5. Types' /\ FileInv'
  BY <1>1, <1>3, <1>4, EmptyText, FileKept DEF Types, Garbage
<1>6. AtRest'
  <2>1. CASE to = Len(checkpoint)
    <3>1. checkpoint' = checkpoint
      BY <1>1, <1>3, <2>1, UptoAll DEF Texts
    <3>2. tainted' = tainted
      BY <1>1, <1>3, <2>1 DEF Types
    <3> QED BY <1>1, <1>3, <3>1, <3>2, RestKept
  <2>2. CASE to < Len(checkpoint)
    BY <1>3, <2>2 DEF AtRest
  <2> QED BY <1>1, <1>2, <2>1, <2>2
<1> QED BY <1>1, <1>3, <1>5, <1>6 DEF IInv, CallInv
-----------------------------------------------------------------------------
(* The invariant is inductive, and what follows from it.                   *)

LEMMA IInvNext == IInv /\ [Next]_vars => IInv'
<1> SUFFICES ASSUME IInv, [Next]_vars PROVE IInv'
  OBVIOUS
<1>1. CASE UNCHANGED vars
  <2>1. UNCHANGED <<checkpoint, valid, logits, draft, gpu, call, accepted, file, tainted, rounded>>
    BY <1>1 DEF vars
  <2>2. Types' /\ FileInv'
    BY <2>1, FileKept DEF IInv, Types
  <2>3. AtRest => AtRest'
    BY <2>1, RestKept
  <2>4. CallInv'
    BY <2>1, <2>3 DEF IInv, CallInv, PrefillInv, ExtendInv, WholeInv, DraftInv, VerifyInv,
                     SequentialInv, Accepts, DraftsFit, Holding, Kept, Tops
  <2> QED BY <2>2, <2>4 DEF IInv
<1>2. CASE Synchronize
  BY <1>2, SyncStep
<1>3. CASE PrefillChunk
  BY <1>3, PrefillChunkStep
<1>4. CASE PrefillWhole
  BY <1>4, PrefillWholeStep
<1>5. CASE ExtendToken
  BY <1>5, ExtendTokenStep
<1>6. CASE SyncFails
  BY <1>6, SyncFailsStep
<1>7. CASE Decode \/ EvalFails
  BY <1>7, DecodeActionStep
<1>8. CASE Speculate
  BY <1>8, SpeculateStep
<1>9. CASE Propose
  BY <1>9, ProposeStep
<1>10. CASE SpecStop
  BY <1>10, SpecStopStep
<1>11. CASE VerifyOne
  BY <1>11, VerifyOneStep
<1>12. CASE VerifyTwo
  BY <1>12, VerifyTwoStep
<1>13. CASE VerifyBatch
  BY <1>13, VerifyBatchStep
<1>14. CASE SequentialToken
  BY <1>14, SequentialTokenStep
<1>15. CASE SequentialEnd \/ SequentialFails
  BY <1>15, SequentialStopStep
<1>16. CASE Save
  BY <1>16, SaveStep
<1>17. CASE Load
  BY <1>17, LoadStep
<1>18. CASE LoadFails \/ CallerInvalidates \/ Invalidate
  BY <1>18, DropStep
<1>19. CASE \E pos \in RewindTo : Rewind(pos)
  BY <1>19, RewindStep
<1> QED BY <1>1, <1>2, <1>3, <1>4, <1>5, <1>6, <1>7, <1>8, <1>9, <1>10, <1>11, <1>12,
           <1>13, <1>14, <1>15, <1>16, <1>17, <1>18, <1>19 DEF Next

LEMMA IInvAlways == Spec => []IInv
BY InitOK, IInvNext, PTL DEF Spec

\* Every variable keeps its type, and the compressed rows never outgrow the
\* caches that ds4_session_create allocates, whatever is prefilled, decoded,
\* verified in a batch, rolled back or loaded.
THEOREM TypeSafety == Spec => []TypeOK
<1>1. IInv => TypeOK
  <2> SUFFICES ASSUME IInv PROVE TypeOK
    OBVIOUS
  <2>1. Types /\ (file = NoFile \/ Payload(file))
    BY DEF IInv, FileInv
  <2>2. \A t \in Texts : IsText(t)
    BY DEF IsText, Texts
  <2>3. file.text \in Texts
    BY <2>1, EmptyText DEF NoFile, Payload, Garbage
  <2>4. /\ gpu.ncomp \in 0 .. CompCap /\ gpu.front \in Texts
        /\ DOMAIN gpu.raw = 0 .. RawCap - 1 /\ \A s \in DOMAIN gpu.raw : gpu.raw[s] \in Texts
        /\ DOMAIN gpu.comp = 0 .. CompCap - 1
        /\ \A i \in DOMAIN gpu.comp : gpu.comp[i] \in Texts
    BY <2>1 DEF Types, Gpus
  <2> QED BY <2>1, <2>2, <2>3, <2>4 DEF TypeOK, Types
<1> QED BY <1>1, IInvAlways, PTL

\* Whenever no call is running, or a progress callback looks, a session that
\* says its checkpoint is valid holds the logits, the raw window, the compressed
\* rows and the frontier of exactly those tokens: ds4_session_sync, _eval, the
\* speculative call with its roll-backs, loading and their failures keep it so.
\* Two calls do not, and the statement excepts what they leave until the next
\* prefill from the first token or load: ds4_session_rewind to fewer tokens, and
\* a speculative call whose frontier could not be restored.
THEOREM ValidSessionsAreExact == Spec => []ValidMeansExact
<1>1. IInv => ValidMeansExact
  <2> SUFFICES ASSUME IInv, valid, ~tainted,
                      ~Busy \/ (call.op = "prefill" /\ call.notes)
               PROVE  Exact(checkpoint, gpu, logits)
    BY DEF ValidMeansExact
  <2>1. AtRest
    <3>1. CASE ~Busy
      BY <3>1, IdleRests
    <3>2. CASE call.op = "prefill" /\ call.notes
      <4>1. PrefillInv
        BY <3>2 DEF IInv, CallInv, Idle
      <4> QED BY <3>2, <4>1 DEF PrefillInv
    <3> QED BY <3>1, <3>2
  <2> QED BY <2>1, ExactIsGood DEF AtRest
<1> QED BY <1>1, IInvAlways, PTL

\* A payload written by ds4_session_save_payload, between calls or from a progress
\* callback in the middle of a prefill, loads into a session that goes on after
\* exactly its tokens.
THEOREM PayloadsAreExact == Spec => []FilesExact
<1>1. IInv => FilesExact
  BY DEF IInv, FileInv
<1> QED BY <1>1, IInvAlways, PTL

\* What a speculative call accepts in a step is what the target model chooses,
\* or nearly tied with it once a batch verifier has added to the session.
GreedyStep ==
  Speculating /\ ~tainted =>
    \A k \in Len(accepted) + 1 .. Len(accepted') :
       LET t == call.base \o Upto(accepted', k - 1)
       IN IF rounded' THEN accepted'[k] \in Close(t) ELSE accepted'[k] = Greedy(t)

ReportStep ==
  Speculating /\ call' = Idle /\ valid' =>
    /\ checkpoint' = call.base \o accepted'
    /\ Len(accepted') <= call.max
    /\ Len(accepted') > 1 => Len(checkpoint') < CtxSize

\* What a row may put first, whoever computed it.
LEMMA TopsOfText ==
  ASSUME NEW t \in Texts, Len(t) > 0, NEW b \in BOOLEAN, NEW x \in TopsWhen(b, t)
  PROVE  IF b THEN x \in Close(t) ELSE x = Greedy(t)
BY EmptyText DEF TopsWhen

\* The model's own choice is among those nearly tied with it.
LEMMA GreedyIsClose ==
  ASSUME NEW t \in Texts, Len(t) > 0, NEW b \in BOOLEAN, NEW c \in {b, TRUE},
         NEW x \in TopsWhen(b, t)
  PROVE  IF c THEN x \in Close(t) ELSE x = Greedy(t)
<1>1. Greedy(t) \in Close(t)
  <2>1. Len(t) \in 1..CtxSize /\ t \in [1..Len(t) -> Token]
    BY Sizes DEF Texts
  <2>2. [1..Len(t) -> Token] \in {[1..n -> Token] : n \in 1..CtxSize}
    BY <2>1
  <2> QED BY <2>1, <2>2, RoundingAssumption
<1> QED BY <1>1, TopsOfText

\* A step that commits drafts is one of these; every other step of a speculative
\* call keeps the tokens reported so far or verifies one more by itself.
LEMMA SpeculatingSteps ==
  ASSUME IInv, [Next]_vars, Speculating
  PROVE  \/ \E k \in 1..Len(call.drafts) :
              /\ Verifying /\ Commit(k, gpu') /\ rounded' \in {rounded, TRUE}
              /\ \A i \in 2..k : call.drafts[i] \in TopsWhen(rounded', DraftText(i - 1))
         \/ SequentialToken
         \/ /\ UNCHANGED accepted
            /\ call' = Idle /\ valid' => UNCHANGED checkpoint /\ ~Verifying
<1>1. Busy /\ call.op \notin {"prefill", "whole", "extend", "loadFailed"}
  BY DEF Speculating, Busy
<1>2. CASE UNCHANGED vars
  BY <1>1, <1>2 DEF vars, Idle, Busy
<1>3. CASE SpecStop \/ Propose \/ SequentialEnd
  BY <1>3 DEF SpecStop, Propose, SpecDraft, SequentialEnd, sessionVars, Idle, Verifying
<1>4. CASE SequentialToken
  BY <1>4
<1>5. CASE SequentialFails
  BY <1>5 DEF SequentialFails, Lost
<1>6. CASE VerifyOne \/ VerifyTwo \/ VerifyBatch
  <2>1. Verifying /\ Len(call.drafts) \in Nat \ {0} /\ rounded \in BOOLEAN
    <3>1. Verifying
      BY <1>6 DEF VerifyOne, VerifyTwo, VerifyBatch
    <3> QED BY <3>1, VerifyFacts DEF Types
  <2>2. ASSUME NEW g, FallBack(g) PROVE UNCHANGED accepted /\ call' # Idle
    <3>1. call' = [call EXCEPT !.op = "sequential"] /\ UNCHANGED accepted
      BY <2>2 DEF FallBack
    <3>2. call \in VerifyCalls
      BY <2>1, VerifyFacts DEF VerifyInv
    <3>3. call'.op = "sequential"
      BY <3>1, <3>2 DEF VerifyCalls
    <3> QED BY <3>1, <3>3 DEF Idle
  <2>3. \/ \E k \in 1..Len(call.drafts) : \E tops \in RowTops(rounded') :
             /\ k \in {1, Agreed(tops)} /\ rounded' \in {rounded, TRUE}
             /\ \E g : Commit(k, g)
        \/ rounded' \in {rounded, TRUE} /\ \E g : Commit(1, g)
        \/ UNCHANGED accepted /\ ~(call' = Idle /\ valid')
    <3>1. CASE VerifyOne
      BY <3>1 DEF VerifyOne, Lost
    <3>2. CASE VerifyTwo
      <4>1. \/ \E tops \in RowTops(rounded) : \E k \in {1, 2} : \E g :
                  Agreed(tops) = k /\ Commit(k, g)
            \/ \E g : FallBack(g)
        BY <3>2 DEF VerifyTwo
      <4>2. UNCHANGED rounded /\ 1 \in 1..Len(call.drafts) /\ 2 \in 1..Len(call.drafts)
        BY <3>2 DEF VerifyTwo
      <4> QED BY <2>2, <4>1, <4>2
    <3>3. CASE VerifyBatch
      <4>1. \/ rounded' = TRUE /\ \E tops \in RowTops(TRUE) : \E g :
                  \/ Agreed(tops) = Len(call.drafts) /\ Commit(Len(call.drafts), g)
                  \/ Commit(1, g)
                  \/ Commit(Agreed(tops), g)
            \/ \E g : FallBack(g)
            \/ SpecLost
        BY <3>3 DEF VerifyBatch
      <4>2. CASE SpecLost
        BY <4>2 DEF SpecLost, Lost
      <4>3. ASSUME rounded' = TRUE, NEW tops \in RowTops(TRUE), NEW g,
                   \/ Agreed(tops) = Len(call.drafts) /\ Commit(Len(call.drafts), g)
                   \/ Commit(1, g)
                   \/ Commit(Agreed(tops), g)
            PROVE  \/ \E k \in 1..Len(call.drafts) : k = Agreed(tops) /\ Commit(k, g)
                   \/ Commit(1, g)
        <5>1. Agreed(tops) \in 1..Len(call.drafts)
          BY <2>1, AgreedDrafts
        <5> QED BY <4>3, <5>1
      <4> QED BY <2>2, <4>1, <4>2, <4>3
    <3> QED BY <1>6, <3>1, <3>2, <3>3
  <2>4. ASSUME NEW k \in 1..Len(call.drafts), NEW g, Commit(k, g),
               rounded' \in {rounded, TRUE},
               k = 1 \/ \E tops \in RowTops(rounded') : k = Agreed(tops)
        PROVE  /\ Commit(k, gpu')
               /\ \A i \in 2..k : call.drafts[i] \in TopsWhen(rounded', DraftText(i - 1))
    <3>1. g = gpu'
      BY <2>4 DEF Commit, Holds
    <3>2. rounded' \in BOOLEAN
      BY <2>1, <2>4
    <3>3. \A tops \in RowTops(rounded') : \A i \in 2..Agreed(tops) :
             call.drafts[i] \in TopsWhen(rounded', DraftText(i - 1))
      BY <2>1, <3>2, AgreedDrafts
    <3> QED BY <2>4, <3>1, <3>3
  <2>5. 1 \in 1..Len(call.drafts)
    BY <2>1
  <2> QED BY <2>1, <2>3, <2>4, <2>5
<1>7. ~Synchronize /\ ~Decode /\ ~EvalFails /\ ~Speculate /\ ~Load /\ ~LoadFails /\ ~Invalidate
  BY <1>1 DEF Synchronize, Sync, Decode, Eval, EvalFails, Speculate, SpecEval, MayEval, Load,
              LoadFails, Invalidate
<1>8. /\ ~PrefillChunk /\ ~PrefillWhole /\ ~ExtendToken /\ ~SyncFails /\ ~Save
      /\ ~CallerInvalidates /\ ~\E pos \in RewindTo : Rewind(pos)
  BY <1>1 DEF PrefillChunk, PrefillWhole, ExtendToken, SyncFails, Save, CallerInvalidates, Rewind
<1> QED BY <1>2, <1>3, <1>4, <1>5, <1>6, <1>7, <1>8 DEF Next

LEMMA CommitAccepts ==
  ASSUME IInv, Verifying, NEW k \in 1..Len(call.drafts), Commit(k, gpu'),
         rounded' \in {rounded, TRUE},
         \A i \in 2..k : call.drafts[i] \in TopsWhen(rounded', DraftText(i - 1))
  PROVE  GreedyStep /\ ReportStep
<1> DEFINE d == call.drafts
           a == accepted
           u == Upto(d, k)
           chosen(x, t) == IF rounded' THEN x \in Close(t) ELSE x = Greedy(t)
<1>1. /\ VerifyInv /\ Types /\ d \in Seq(Token) /\ Len(d) \in Nat \ {0}
      /\ checkpoint \in Texts /\ Len(checkpoint) \in Nat \ {0}
      /\ Len(checkpoint) + Len(d) < CtxSize
  BY VerifyFacts
<1>2. /\ call.base \in Texts /\ call.max \in Nat /\ a \in Texts /\ Len(a) = 1
      /\ checkpoint = call.base \o a /\ Len(d) + 1 <= call.max
      /\ rounded \in BOOLEAN /\ rounded' \in BOOLEAN
      /\ ~tainted => d[1] \in TopsWhen(rounded, checkpoint)
  BY <1>1 DEF Tops, VerifyInv, VerifyCalls, DraftsFit, Accepts, Types
<1>3. k \in 0..Len(d) /\ k \in Nat /\ k >= 1 /\ k <= Len(d)
  BY <1>1
<1>4. Len(a) + Len(d) < CtxSize
  <2>1. Len(a) = 1 /\ Len(d) \in Nat /\ Len(checkpoint) \in Nat \ {0} /\ CtxSize \in Nat
        /\ Len(checkpoint) + Len(d) < CtxSize
    BY <1>1, <1>2, Sizes
  <2> HIDE DEF a, d
  <2> QED BY <2>1
<1>5. /\ accepted' = a \o u /\ checkpoint' = DraftText(k)
  BY DEF Commit, Holds
<1>6. /\ a \o u \in Texts /\ Len(a \o u) = 1 + k
      /\ \A j \in 0..k : Upto(a \o u, 1 + j) = a \o Upto(d, j)
  <2>1. a \in Texts /\ d \in Seq(Token) /\ k \in 0..Len(d) /\ Len(a) = 1
    BY <1>1, <1>2, <1>3
  <2> HIDE DEF a, d
  <2>2. /\ a \o Upto(d, k) \in Texts /\ Len(a \o Upto(d, k)) = Len(a) + k
        /\ \A j \in 0..k : Upto(a \o Upto(d, k), Len(a) + j) = a \o Upto(d, j)
    BY <1>4, <2>1, ConcatText
  <2> QED BY <2>1, <2>2
<1>7. ASSUME NEW j \in 0..k
      PROVE  DraftText(j) = call.base \o Upto(a \o u, 1 + j)
  <2>1. j \in 0..Len(d) /\ j \in Nat
    BY <1>1, <1>3
  <2>2. DraftText(j) = checkpoint \o Upto(d, j)
    BY <2>1, DraftTexts
  <2>3. Upto(d, j) \in Seq(Token) /\ call.base \in Seq(Token) /\ a \in Seq(Token)
    BY <1>1, <1>2, <2>1, UptoText DEF Texts
  <2>4. (call.base \o a) \o Upto(d, j) = call.base \o (a \o Upto(d, j))
    BY <2>3, ConcatThree
  <2> QED BY <1>2, <1>6, <2>2, <2>4
<1>8. ReportStep
  <2>1. DraftText(k) = call.base \o (a \o u)
    <3>1. Upto(a \o u, 1 + k) = a \o u
      BY <1>3, <1>6
    <3>2. k \in 0..k
      BY <1>3
    <3> QED BY <1>7, <3>1, <3>2
  <2>2. Len(DraftText(k)) = Len(checkpoint) + k
    BY <1>3, DraftTexts
  <2>3. Len(DraftText(k)) < CtxSize
    BY <1>1, <1>3, <2>2, Sizes
  <2>4. 1 + k <= call.max
    BY <1>1, <1>2, <1>3
  <2> QED BY <1>5, <1>6, <2>1, <2>3, <2>4 DEF ReportStep
<1>9. ASSUME ~tainted, NEW i \in 2..(1 + k)
      PROVE  chosen((a \o u)[i], call.base \o Upto(a \o u, i - 1))
  <2>1. i \in Nat /\ i >= 2 /\ i - 1 \in 1..k /\ i - 2 \in 0..k /\ 1 + (i - 2) = i - 1
    BY <1>3
  <2>2. (a \o u)[i] = d[i - 1]
    <3>1. u \in Seq(Token) /\ Len(u) = k /\ u[i - 1] = d[i - 1]
      BY <1>1, <1>3, <2>1, UptoText
    <3>2. a \in Seq(Token) /\ i \in 1 .. Len(a) + k /\ ~(i <= Len(a)) /\ i - Len(a) = i - 1
      BY <1>2, <1>3, <2>1 DEF Texts
    <3> HIDE DEF u
    <3>3. (a \o u)[i] = u[i - Len(a)]
      BY <3>1, <3>2, ConcatProperties
    <3> QED BY <3>1, <3>2, <3>3
  <2>3. DraftText(i - 2) = call.base \o Upto(a \o u, i - 1)
    BY <1>7, <2>1
  <2>4. CASE i = 2
    <3>1. DraftText(0) = checkpoint /\ i - 2 = 0 /\ i - 1 = 1
      BY <2>4, DraftNone
    <3>2. checkpoint = call.base \o Upto(a \o u, i - 1)
      BY <2>3, <3>1
    <3>3. chosen(d[1], checkpoint)
      <4> DEFINE x == d[1]
                 t == checkpoint
                 now == rounded'
                 before == rounded
      <4>1. now \in {before, TRUE} /\ before \in BOOLEAN
        BY <1>2
      <4>2. x \in TopsWhen(before, t)
        BY <1>2, <1>9
      <4>3. t \in Texts /\ Len(t) > 0
        BY <1>1
      <4> HIDE DEF x, t, now, before
      <4>4. IF now THEN x \in Close(t) ELSE x = Greedy(t)
        BY <4>1, <4>2, <4>3, GreedyIsClose
      <4> QED BY <4>4 DEF x, t, now, before
    <3>4. (a \o u)[i] = d[1]
      BY <2>2, <3>1
    <3> HIDE DEF a, u, d, chosen
    <3> QED BY <3>2, <3>3, <3>4
  <2>5. CASE i > 2
    <3>1. i - 1 \in 2..k /\ (i - 1) - 1 = i - 2
      BY <2>1, <2>5
    <3>2. d[i - 1] \in TopsWhen(rounded', DraftText(i - 2))
      BY <3>1
    <3>3. DraftText(i - 2) \in Texts /\ Len(DraftText(i - 2)) > 0
      <4>1. i - 2 \in 0..Len(d) /\ i - 2 \in Nat
        BY <1>1, <1>3, <2>1
      <4>2. /\ DraftText(i - 2) \in Texts
            /\ Len(DraftText(i - 2)) = Len(checkpoint) + (i - 2)
        BY <4>1, DraftTexts
      <4>3. Len(DraftText(i - 2)) > 0
        BY <1>1, <4>1, <4>2
      <4> QED BY <4>2, <4>3
    <3>4. chosen(d[i - 1], DraftText(i - 2))
      BY <1>2, <3>2, <3>3, TopsOfText
    <3> HIDE DEF a, u, d, chosen
    <3> QED BY <2>2, <2>3, <3>4
  <2>6. i = 2 \/ i > 2
    BY <2>1
  <2> QED BY <2>4, <2>5, <2>6
<1>10. GreedyStep
  <2>1. Len(accepted) + 1 .. Len(accepted') = 2..(1 + k)
    BY <1>2, <1>5, <1>6
  <2> QED BY <1>5, <1>9, <2>1 DEF GreedyStep
<1> QED BY <1>8, <1>10

LEMMA SequentialAccepts ==
  ASSUME IInv, SequentialToken PROVE GreedyStep /\ ReportStep
<1> DEFINE x == call.drafts[Next1]
           a == accepted
<1>1. call.op = "sequential" /\ Next1 <= Len(call.drafts) /\ call' = call
      /\ x \in Tops(logits) /\ accepted' = Append(a, x) /\ rounded' = rounded
  BY DEF SequentialToken
<1>2. /\ AtRest /\ valid /\ checkpoint \in Texts /\ rounded \in BOOLEAN /\ Accepts /\ call.drafts \in Seq(Token) /\ Len(call.drafts) \in Nat
      /\ a \in Texts /\ Len(a) \in Nat \ {0} /\ Next1 = Len(a)
  BY <1>1, SequentialFacts DEF Types
<1>3. ReportStep
  BY <1>1 DEF ReportStep, Idle
<1>4. GreedyStep
  <2> SUFFICES ASSUME ~tainted, NEW k \in Len(a) + 1 .. Len(accepted')
               PROVE  LET t == call.base \o Upto(accepted', k - 1)
                      IN IF rounded' THEN accepted'[k] \in Close(t) ELSE accepted'[k] = Greedy(t)
    BY DEF GreedyStep
  <2>1. x \in Token /\ a \in Seq(Token)
    BY <1>1, <1>2 DEF Texts
  <2> HIDE DEF x
  <2>2. Len(accepted') = Len(a) + 1 /\ accepted'[Len(a) + 1] = x
        /\ accepted' \in Seq(Token) /\ \A i \in 1..Len(a) : accepted'[i] = a[i]
    BY <1>1, <2>1, AppendProperties
  <2>3. k = Len(a) + 1 /\ k - 1 = Len(a)
    BY <1>2, <2>2
  <2>4. Upto(accepted', Len(a)) = a
    <3>1. Len(a) \in 0..Len(accepted')
      BY <1>2, <2>2
    <3>2. /\ Upto(accepted', Len(a)) \in Seq(Token) /\ Len(Upto(accepted', Len(a))) = Len(a)
          /\ \A i \in 1..Len(a) : Upto(accepted', Len(a))[i] = accepted'[i]
      BY <2>2, <3>1, UptoText
    <3> QED BY <2>1, <2>2, <3>2, SameText
  <2>5. IF rounded' THEN x \in Close(checkpoint) ELSE x = Greedy(checkpoint)
    <3>1. logits = checkpoint /\ Len(checkpoint) > 0
      BY <1>2 DEF AtRest
    <3> QED BY <1>1, <1>2, <3>1, TopsOfText DEF Tops
  <2> QED BY <1>2, <2>2, <2>3, <2>4, <2>5 DEF Accepts
<1> QED BY <1>3, <1>4

LEMMA SpeculationStep == ASSUME IInv, [Next]_vars PROVE GreedyStep /\ ReportStep
<1>1. CASE ~Speculating
  BY <1>1 DEF GreedyStep, ReportStep
<1>2. CASE Speculating
  <2>1. CASE \E k \in 1..Len(call.drafts) :
               /\ Verifying /\ Commit(k, gpu') /\ rounded' \in {rounded, TRUE}
               /\ \A i \in 2..k : call.drafts[i] \in TopsWhen(rounded', DraftText(i - 1))
    BY <2>1, CommitAccepts
  <2>2. CASE SequentialToken
    BY <2>2, SequentialAccepts
  <2>3. CASE /\ UNCHANGED accepted
             /\ call' = Idle /\ valid' => UNCHANGED checkpoint /\ ~Verifying
    <3>1. accepted \in Texts /\ Len(accepted) \in Nat
      BY DEF IInv, Types, Texts
    <3>2. GreedyStep
      BY <2>3, <3>1 DEF GreedyStep
    <3>3. ASSUME call' = Idle, valid' PROVE ReportStep
      <4>1. CASE call.op = "draft"
        <5>1. DraftInv
          BY <4>1 DEF IInv, CallInv, Idle
        <5> QED BY <2>3, <3>3, <5>1 DEF ReportStep, DraftInv, Accepts
      <4>2. CASE call.op = "sequential"
        <5>1. /\ Accepts /\ call.max \in Nat
              /\ Len(accepted) > 1 => Len(checkpoint) < CtxSize
          BY <4>2, SequentialFacts
        <5> QED BY <2>3, <3>3, <5>1 DEF ReportStep, Accepts
      <4> QED BY <1>2, <2>3, <3>3, <4>1, <4>2 DEF Speculating, Verifying
    <3> QED BY <3>2, <3>3 DEF ReportStep
  <2> QED BY <1>2, <2>1, <2>2, <2>3, SpeculatingSteps
<1> QED BY <1>1, <1>2

\* Every token that a speculative call reports after its first is the one the
\* target model chooses after the tokens before it, decoding one by one, whether
\* two decodes or the sequential fallback verified it (the target model still
\* defines the exact output stream), as long as no batch verifier has added to
\* the session; after that it is that token or one nearly tied with it, also
\* through a roll-back and a second batch.  A backend left ahead of the
\* checkpoint, by a restore that failed or by ds4_session_rewind, is excepted.
THEOREM SpeculationIsGreedy == Spec => DraftsAreGreedy
<1>1. IInv /\ [Next]_vars => GreedyStep
  BY SpeculationStep
<1>2. Spec => [][GreedyStep]_vars
  BY <1>1, IInvAlways, PTL DEF Spec
<1> QED BY <1>2 DEF DraftsAreGreedy, GreedyStep

\* When it returns with a valid session, the session has grown by exactly the
\* tokens it reports, which are no more than were asked for, and after drafts
\* the context has room for another token.
THEOREM ReportsAreExact == Spec => ReportsWhatItCommits
<1>1. IInv /\ [Next]_vars => ReportStep
  BY SpeculationStep
<1>2. Spec => [][ReportStep]_vars
  BY <1>1, IInvAlways, PTL DEF Spec
<1> QED BY <1>2 DEF ReportsWhatItCommits, ReportStep
=============================================================================
