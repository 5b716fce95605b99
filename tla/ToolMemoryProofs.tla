------------------------- MODULE ToolMemoryProofs -------------------------
(***************************************************************************)
(* Proofs about the memory of tool calls and the tool-id maps for every    *)
(* set of turns, blocks, limits, parser threads and replayed histories.    *)
(***************************************************************************)
EXTENDS ToolMemory, CountingLemmas
-----------------------------------------------------------------------------
(* Lists without repetition: the use list and the lists of the blocks.     *)

Lists(s, S) == s \in Seq(S) /\ ToSet(s) = S /\ IsInjective(s)

LEMMA NothingListed == Lists(<<>>, {}) /\ Len(<<>>) = 0
BY EmptySeq DEF Lists, ToSet, IsInjective

LEMMA ListedAt ==
  ASSUME NEW S, NEW s, Lists(s, S)
  PROVE  /\ Len(s) \in Nat /\ DOMAIN s = 1..Len(s)
         /\ \A i \in 1..Len(s) : s[i] \in S
         /\ \A x \in S : \E i \in 1..Len(s) : s[i] = x
         /\ \A i, j \in 1..Len(s) : s[i] = s[j] => i = j
         /\ Len(s) = 0 <=> S = {}
<1>1. s \in Seq(S) /\ Len(s) \in Nat /\ DOMAIN s = 1..Len(s)
  BY LenProperties DEF Lists
<1>2. /\ \A i \in 1..Len(s) : s[i] \in S
      /\ \A x \in S : \E i \in 1..Len(s) : s[i] = x
      /\ \A i, j \in 1..Len(s) : s[i] = s[j] => i = j
  BY <1>1 DEF Lists, ToSet, IsInjective
<1>3. Len(s) = 0 <=> S = {}
  <2>1. S # {} => Len(s) # 0
    BY <1>1, <1>2
  <2>2. Len(s) # 0 => 1 \in 1..Len(s)
    BY <1>1
  <2> QED BY <1>2, <2>1, <2>2
<1> QED BY <1>1, <1>2, <1>3

\* A list is what its places say.
LEMMA IsListing ==
  ASSUME NEW S, NEW s \in Seq(S),
         \A x \in S : \E i \in 1..Len(s) : s[i] = x,
         \A i, j \in 1..Len(s) : s[i] = s[j] => i = j
  PROVE  Lists(s, S)
<1>1. DOMAIN s = 1..Len(s) /\ \A i \in 1..Len(s) : s[i] \in S
  BY LenProperties, ElementOfSeq
<1> QED BY <1>1 DEF Lists, ToSet, IsInjective

LEMMA ListsFront ==
  ASSUME NEW S, NEW s, Lists(s, S), NEW x, x \notin S
  PROVE  Lists(<<x>> \o s, S \cup {x}) /\ Len(<<x>> \o s) = Len(s) + 1
<1> DEFINE T == S \cup {x}
           r == <<x>> \o s
<1>1. s \in Seq(T) /\ <<x>> \in Seq(T) /\ Len(<<x>>) = 1 /\ <<x>>[1] = x
  BY SeqMonotonic DEF Lists
<1>2. /\ r \in Seq(T) /\ Len(r) = Len(s) + 1 /\ Len(s) \in Nat
      /\ \A i \in 1..Len(r) : r[i] = IF i <= 1 THEN <<x>>[i] ELSE s[i - 1]
  BY <1>1, ConcatProperties, LenProperties
<1> HIDE DEF r
<1>3. r[1] = x /\ \A i \in 1..Len(s) : r[i + 1] = s[i]
  BY <1>1, <1>2
<1>4. \A y \in T : \E i \in 1..Len(r) : r[i] = y
  <2> TAKE y \in T
  <2>1. CASE y = x
    BY <1>2, <1>3, <2>1
  <2>2. CASE y \in S
    <3>1. PICK i \in 1..Len(s) : s[i] = y
      BY <2>2, ListedAt
    <3>2. i + 1 \in 1..Len(r) /\ r[i + 1] = y
      BY <1>2, <1>3, <3>1
    <3> QED BY <3>2
  <2> QED BY <2>1, <2>2
<1>5. \A i, j \in 1..Len(r) : r[i] = r[j] => i = j
  <2> TAKE i, j \in 1..Len(r)
  <2>1. \A k \in 1..Len(r) : k # 1 => k - 1 \in 1..Len(s) /\ r[k] = s[k - 1] /\ r[k] # x
    <3> TAKE k \in 1..Len(r)
    <3> HAVE k # 1
    <3>1. k - 1 \in 1..Len(s) /\ (k - 1) + 1 = k
      BY <1>2
    <3>2. r[k] = s[k - 1]
      BY <1>3, <3>1
    <3>3. s[k - 1] \in S
      BY <3>1, ListedAt
    <3> QED BY <3>1, <3>2, <3>3
  <2>2. CASE i = 1 \/ j = 1
    BY <1>3, <2>1, <2>2
  <2>3. CASE i # 1 /\ j # 1
    <3> SUFFICES ASSUME r[i] = r[j] PROVE i = j
      OBVIOUS
    <3>1. i - 1 \in 1..Len(s) /\ j - 1 \in 1..Len(s) /\ s[i - 1] = s[j - 1]
      BY <2>1, <2>3
    <3>2. i - 1 = j - 1
      BY <3>1, ListedAt
    <3> QED BY <1>2, <3>2
  <2> QED BY <2>2, <2>3
<1>6. Lists(r, T)
  <2> HIDE DEF T
  <2> QED BY <1>2, <1>4, <1>5, IsListing
<1> QED BY <1>2, <1>6 DEF r

\* RemoveFirst unlinks the one place that has the member.
LEMMA Unlinked1 ==
  ASSUME NEW S, NEW s, Lists(s, S), NEW j \in 1..Len(s)
  PROVE  /\ RemoveFirst(s, s[j]) \in Seq(S) /\ Len(RemoveFirst(s, s[j])) = Len(s) - 1
         /\ \A i \in 1..(Len(s) - 1) :
              RemoveFirst(s, s[j])[i] = IF i < j THEN s[i] ELSE s[i + 1]
<1> DEFINE x == s[j]
           n == Len(s)
           a == SubSeq(s, 1, j - 1)
           b == SubSeq(s, j + 1, n)
<1>1. n \in Nat /\ j \in Nat /\ s \in Seq(S) /\ j >= 1 /\ j <= n
  BY ListedAt DEF Lists
<1>2. {i \in 1..n : s[i] = x} = {j}
  BY ListedAt
<1>3. SelectInSeq(s, LAMBDA v : v = x) = j
  BY <1>1, <1>2 DEF SelectInSeq, Min
<1>4. RemoveFirst(s, x) = a \o b
  BY <1>3 DEF RemoveFirst, RemoveAt
<1>5. /\ a \in Seq(S) /\ Len(a) = j - 1 /\ \A i \in 1..(j - 1) : a[i] = s[i]
      /\ b \in Seq(S) /\ Len(b) = n - j /\ \A i \in 1..(n - j) : b[i] = s[j + i]
  <2>1. \A i \in 1..n : s[i] \in S
    BY ListedAt
  <2>2. a \in Seq(S) /\ Len(a) = j - 1 /\ \A i \in 1..(j - 1) : a[i] = s[1 + i - 1]
    <3>1. \A i \in 1..(j - 1) : s[i] \in S
      BY <1>1, <2>1
    <3> QED BY <1>1, <3>1, SubSeqProperties
  <2>3. b \in Seq(S) /\ Len(b) = n - j /\ \A i \in 1..(n - j) : b[i] = s[j + 1 + i - 1]
    <3>1. \A i \in (j + 1)..n : s[i] \in S
      BY <1>1, <2>1
    <3> QED BY <1>1, <3>1, SubSeqProperties
  <2> QED BY <1>1, <2>2, <2>3
<1> HIDE DEF a, b, x
<1>6. /\ a \o b \in Seq(S) /\ Len(a \o b) = n - 1
      /\ \A i \in 1..(n - 1) : (a \o b)[i] = IF i <= j - 1 THEN a[i] ELSE b[i - (j - 1)]
  <2>1. a \in Seq(S) /\ b \in Seq(S) /\ Len(a) + Len(b) = n - 1
    BY <1>1, <1>5
  <2>2. /\ a \o b \in Seq(S) /\ Len(a \o b) = Len(a) + Len(b)
        /\ \A i \in 1..(Len(a) + Len(b)) : (a \o b)[i] = IF i <= Len(a) THEN a[i] ELSE b[i - Len(a)]
    BY <2>1, ConcatProperties
  <2> QED BY <1>5, <2>1, <2>2
<1>7. \A i \in 1..(n - 1) : (a \o b)[i] = IF i < j THEN s[i] ELSE s[i + 1]
  <2> TAKE i \in 1..(n - 1)
  <2>1. CASE i < j
    BY <1>1, <1>5, <1>6, <2>1
  <2>2. CASE i >= j
    <3>1. i - (j - 1) \in 1..(n - j) /\ j + (i - (j - 1)) = i + 1 /\ ~(i <= j - 1)
      BY <1>1, <2>2
    <3>2. (a \o b)[i] = b[i - (j - 1)] /\ b[i - (j - 1)] = s[j + (i - (j - 1))]
      BY <1>5, <1>6, <3>1
    <3> QED BY <2>2, <3>1, <3>2
  <2>3. i < j \/ i >= j
    BY <1>1
  <2>4. i >= j => ~(i < j)
    BY <1>1
  <2> QED BY <2>1, <2>2, <2>3, <2>4
<1> QED BY <1>4, <1>6, <1>7 DEF x

LEMMA ListsRemoved ==
  ASSUME NEW S, NEW s, Lists(s, S), NEW x \in S
  PROVE  /\ Lists(RemoveFirst(s, x), S \ {x})
         /\ Len(RemoveFirst(s, x)) = Len(s) - 1 /\ Len(s) >= 1
<1> DEFINE T == S \ {x}
           r == RemoveFirst(s, x)
           n == Len(s)
<1>1. PICK j \in 1..n : s[j] = x
  BY ListedAt
<1>2. n \in Nat /\ n >= 1 /\ n - 1 \in Nat /\ j \in Nat
  BY <1>1, ListedAt
<1>3. r \in Seq(S) /\ Len(r) = n - 1
      /\ \A i \in 1..(n - 1) : r[i] = IF i < j THEN s[i] ELSE s[i + 1]
  BY <1>1, Unlinked1
<1> HIDE DEF r
<1>4. \A i \in 1..(n - 1) : \E k \in 1..n : k # j /\ r[i] = s[k] /\ k = (IF i < j THEN i ELSE i + 1)
  BY <1>2, <1>3
<1>5. \A i \in 1..(n - 1) : r[i] \in T
  BY <1>1, <1>4, ListedAt
<1>6. r \in Seq(T)
  <2>1. r = [i \in 1..(n - 1) |-> r[i]]
    BY <1>3, LenProperties
  <2> HIDE DEF T, n
  <2> QED BY <1>2, <1>5, <2>1, IsASeq
<1>7. \A y \in T : \E i \in 1..(n - 1) : r[i] = y
  <2> TAKE y \in T
  <2>1. PICK k \in 1..n : s[k] = y
    BY ListedAt
  <2>2. k # j
    BY <1>1, <2>1
  <2>3. CASE k < j
    BY <1>2, <1>3, <2>1, <2>3
  <2>4. CASE k > j
    <3>1. k - 1 \in 1..(n - 1) /\ ~(k - 1 < j) /\ (k - 1) + 1 = k
      BY <1>2, <2>4
    <3> QED BY <1>3, <2>1, <3>1
  <2> QED BY <1>2, <2>2, <2>3, <2>4
<1>8. \A i, l \in 1..(n - 1) : r[i] = r[l] => i = l
  <2> TAKE i, l \in 1..(n - 1)
  <2> HAVE r[i] = r[l]
  <2>1. PICK k \in 1..n : r[i] = s[k] /\ k = (IF i < j THEN i ELSE i + 1)
    BY <1>4
  <2>2. PICK m \in 1..n : r[l] = s[m] /\ m = (IF l < j THEN l ELSE l + 1)
    BY <1>4
  <2>3. k = m
    <3>1. s[k] = s[m]
      BY <2>1, <2>2
    <3> QED BY <3>1, ListedAt
  <2> QED BY <1>2, <2>1, <2>2, <2>3
<1>9. Lists(r, T)
  <2>1. \A y \in T : \E i \in 1..Len(r) : r[i] = y
    BY <1>3, <1>7
  <2>2. \A i, l \in 1..Len(r) : r[i] = r[l] => i = l
    BY <1>3, <1>8
  <2> HIDE DEF T
  <2> QED BY <1>6, <2>1, <2>2, IsListing
<1> QED BY <1>2, <1>3, <1>9 DEF r

\* An entry that is used moves to the head.
LEMMA ListsMoved ==
  ASSUME NEW S, NEW s, Lists(s, S), NEW x \in S
  PROVE  Lists(<<x>> \o RemoveFirst(s, x), S) /\ Len(<<x>> \o RemoveFirst(s, x)) = Len(s)
<1>1. Lists(RemoveFirst(s, x), S \ {x}) /\ Len(RemoveFirst(s, x)) = Len(s) - 1 /\ Len(s) \in Nat
  BY ListsRemoved, ListedAt
<1>2. x \notin S \ {x} /\ (S \ {x}) \cup {x} = S
  OBVIOUS
<1> QED BY <1>1, <1>2, ListsFront

-----------------------------------------------------------------------------
(* The memory: what every section under tool_mu keeps.                     *)

Weight(entries, blocks) == EntryBytes * entries + BlockBytes * blocks

\* The ids that lead to d.
Users(m, d) == {id \in Known(m) : m.dsml[id] = d}

Memory == [lru: Seq(Ids), dsml: UNION {[K -> Dsml] : K \in SUBSET Ids},
           refs: UNION {[B -> Nat] : B \in SUBSET Dsml},
           owners: UNION {[B -> Seq(Ids)] : B \in SUBSET Dsml}, bytes: Nat]

Counted(m) ==
  /\ m \in Memory
  /\ Lists(m.lru, Known(m))
  /\ DOMAIN m.refs = {m.dsml[id] : id \in Known(m)} /\ DOMAIN m.owners = DOMAIN m.refs
  /\ IsFiniteSet(DOMAIN m.refs)
  /\ \A d \in DOMAIN m.refs : Lists(m.owners[d], Users(m, d)) /\ m.refs[d] = Len(m.owners[d])
  /\ m.bytes = Weight(Len(m.lru), Cardinality(DOMAIN m.refs))

LEMMA WeightSteps ==
  ASSUME NEW n \in Nat, NEW k \in Nat
  PROVE  /\ Weight(n, k) \in Nat
         /\ Weight(n + 1, k) = Weight(n, k) + EntryBytes
         /\ Weight(n, k + 1) = Weight(n, k) + BlockBytes
<1>1. EntryBytes \in Nat /\ BlockBytes \in Nat
  BY ToolMemoryAssumption
<1>2. EntryBytes * n \in Nat /\ BlockBytes * k \in Nat
  BY <1>1
<1>3. EntryBytes * (n + 1) = EntryBytes * n + EntryBytes
  BY <1>1
<1>4. BlockBytes * (k + 1) = BlockBytes * k + BlockBytes
  BY <1>1
<1> QED BY <1>1, <1>2, <1>3, <1>4 DEF Weight

LEMMA NothingWeighs == Weight(0, 0) = 0
BY ToolMemoryAssumption DEF Weight

LEMMA CountedFacts ==
  ASSUME NEW m, Counted(m)
  PROVE  /\ m = [lru |-> m.lru, dsml |-> m.dsml, refs |-> m.refs, owners |-> m.owners,
                 bytes |-> m.bytes]
         /\ Known(m) \subseteq Ids /\ m.dsml \in [Known(m) -> Dsml]
         /\ DOMAIN m.refs \subseteq Dsml /\ m.refs \in [DOMAIN m.refs -> Nat]
         /\ m.owners \in [DOMAIN m.refs -> Seq(Ids)]
         /\ Len(m.lru) \in Nat /\ Cardinality(DOMAIN m.refs) \in Nat /\ m.bytes \in Nat
<1>1. m \in Memory /\ Lists(m.lru, Known(m)) /\ DOMAIN m.owners = DOMAIN m.refs
      /\ IsFiniteSet(DOMAIN m.refs)
  BY DEF Counted
<1>2. m = [lru |-> m.lru, dsml |-> m.dsml, refs |-> m.refs, owners |-> m.owners,
           bytes |-> m.bytes] /\ m.bytes \in Nat
  BY <1>1 DEF Memory
<1>3. PICK K \in SUBSET Ids : m.dsml \in [K -> Dsml]
  BY <1>1 DEF Memory
<1>4. PICK B \in SUBSET Dsml : m.refs \in [B -> Nat]
  BY <1>1 DEF Memory
<1>5. PICK C \in SUBSET Dsml : m.owners \in [C -> Seq(Ids)]
  BY <1>1 DEF Memory
<1>6. K = Known(m) /\ B = DOMAIN m.refs /\ C = DOMAIN m.owners
  BY <1>3, <1>4, <1>5 DEF Known
<1>7. Len(m.lru) \in Nat /\ Cardinality(DOMAIN m.refs) \in Nat
  BY <1>1, ListedAt, FS_CardinalityType
<1> QED BY <1>1, <1>2, <1>3, <1>4, <1>5, <1>6, <1>7

\* How a memory is shown to be counted from its parts.
LEMMA PartsCounted ==
  ASSUME NEW K \in SUBSET Ids, NEW lru, Lists(lru, K), NEW dsml \in [K -> Dsml],
         NEW refs, NEW owners, NEW B, IsFiniteSet(B),
         B = {dsml[id] : id \in K}, refs \in [B -> Nat], DOMAIN owners = B,
         owners = [d \in B |-> owners[d]],
         \A d \in B : Lists(owners[d], {id \in K : dsml[id] = d}) /\ refs[d] = Len(owners[d])
  PROVE  Counted([lru |-> lru, dsml |-> dsml, refs |-> refs, owners |-> owners,
                  bytes |-> Weight(Len(lru), Cardinality(B))])
<1> DEFINE m == [lru |-> lru, dsml |-> dsml, refs |-> refs, owners |-> owners,
                 bytes |-> Weight(Len(lru), Cardinality(B))]
<1>1. B \subseteq Dsml
  OBVIOUS
<1>2. lru \in Seq(Ids)
  BY SeqMonotonic DEF Lists
<1>3. \A d \in B : owners[d] \in Seq(Ids)
  BY SeqMonotonic DEF Lists
<1>4. m.bytes \in Nat
  <2>1. Len(lru) \in Nat /\ Cardinality(B) \in Nat
    BY ListedAt, FS_CardinalityType
  <2> QED BY <2>1, WeightSteps
<1>5. m \in Memory
  <2>1. m.dsml \in UNION {[I -> Dsml] : I \in SUBSET Ids}
    OBVIOUS
  <2>2. m.refs \in UNION {[C -> Nat] : C \in SUBSET Dsml}
    BY <1>1
  <2>3. owners \in [B -> Seq(Ids)]
    BY <1>3
  <2>4. m.owners \in UNION {[C -> Seq(Ids)] : C \in SUBSET Dsml}
    BY <1>1, <2>3
  <2> QED BY <1>2, <1>4, <2>1, <2>2, <2>4 DEF Memory
<1>6. Known(m) = K /\ DOMAIN m.refs = B /\ DOMAIN m.owners = B
  BY DEF Known
<1>7. \A d \in B : Users(m, d) = {id \in K : dsml[id] = d}
  BY <1>6 DEF Users
<1>8. DOMAIN m.refs = {m.dsml[id] : id \in Known(m)}
  BY <1>6
<1>9. m.lru = lru /\ m.refs = refs /\ m.owners = owners
      /\ m.bytes = Weight(Len(lru), Cardinality(B))
  OBVIOUS
<1> HIDE DEF m
<1>10. Counted(m)
  <2>1. Lists(m.lru, Known(m)) /\ IsFiniteSet(DOMAIN m.refs)
    BY <1>6, <1>9
  <2>2. m.bytes = Weight(Len(m.lru), Cardinality(DOMAIN m.refs))
    BY <1>6, <1>9
  <2>3. \A d \in DOMAIN m.refs :
          Lists(m.owners[d], Users(m, d)) /\ m.refs[d] = Len(m.owners[d])
    <3> TAKE d \in DOMAIN m.refs
    <3>1. d \in B /\ Users(m, d) = {id \in K : dsml[id] = d}
      BY <1>6, <1>7
    <3>2. Lists(owners[d], Users(m, d)) /\ refs[d] = Len(owners[d])
      BY <3>1
    <3> QED BY <1>9, <3>2
  <2> QED BY <1>5, <1>6, <1>8, <2>1, <2>2, <2>3 DEF Counted
<1> QED BY <1>10 DEF m

LEMMA OtherLru ==
  ASSUME NEW l, NEW m, m = [lru |-> m.lru, dsml |-> m.dsml, refs |-> m.refs,
                            owners |-> m.owners, bytes |-> m.bytes]
  PROVE  [m EXCEPT !.lru = l] = [lru |-> l, dsml |-> m.dsml, refs |-> m.refs,
                                 owners |-> m.owners, bytes |-> m.bytes]
OBVIOUS

LEMMA EmptyCounted == Counted(Empty) /\ Known(Empty) = {} /\ Len(Empty.lru) = 0
<1> DEFINE none == [x \in {} |-> 0]
<1>1. none = <<>>
  OBVIOUS
<1>2. {none[id] : id \in {}} = {} /\ Cardinality({}) = 0 /\ IsFiniteSet({})
  BY FS_EmptySet
<1>3. <<>> \in [{} -> Dsml] /\ <<>> \in [{} -> Nat] /\ DOMAIN <<>> = {}
      /\ <<>> = [d \in {} |-> <<>>[d]] /\ {<<>>[id] : id \in {}} = {}
  OBVIOUS
<1>4. Counted([lru |-> <<>>, dsml |-> <<>>, refs |-> <<>>, owners |-> <<>>,
               bytes |-> Weight(Len(<<>>), Cardinality({}))])
  BY <1>2, <1>3, NothingListed, PartsCounted
<1>5. Weight(Len(<<>>), Cardinality({})) = 0
  BY <1>2, NothingListed, NothingWeighs
<1> QED BY <1>3, <1>4, <1>5, NothingListed DEF Empty, Known

LEMMA TouchCounted ==
  ASSUME NEW m, Counted(m), NEW id \in Known(m)
  PROVE  /\ Counted(Touch(m, id))
         /\ Touch(m, id).dsml = m.dsml /\ Touch(m, id).refs = m.refs
         /\ Len(Touch(m, id).lru) = Len(m.lru) /\ Touch(m, id).bytes = m.bytes
<1> DEFINE l == <<id>> \o RemoveFirst(m.lru, id)
           r == [lru |-> l, dsml |-> m.dsml, refs |-> m.refs, owners |-> m.owners,
                 bytes |-> m.bytes]
<1>1. Touch(m, id) = r
  <2>1. m = [lru |-> m.lru, dsml |-> m.dsml, refs |-> m.refs, owners |-> m.owners,
             bytes |-> m.bytes]
    BY CountedFacts
  <2> QED BY <2>1, OtherLru DEF Touch
<1>2. Lists(l, Known(m)) /\ Len(l) = Len(m.lru)
  BY ListsMoved DEF Counted
<1>3. l \in Seq(Ids)
  BY <1>2, CountedFacts, SeqMonotonic DEF Lists
<1>4. r \in Memory
  BY <1>3 DEF Memory, Counted
<1>5. Known(r) = Known(m) /\ \A d : Users(r, d) = Users(m, d)
  BY DEF Known, Users
<1>6. r.lru = l /\ r.dsml = m.dsml /\ r.refs = m.refs /\ r.owners = m.owners /\ r.bytes = m.bytes
  OBVIOUS
<1> HIDE DEF r, l
<1>7. Counted(r)
  BY <1>2, <1>4, <1>5, <1>6 DEF Counted
<1> QED BY <1>1, <1>2, <1>6, <1>7

\* The parts of RemoveEntry, with the block kept or freed.
LEMMA RemoveEntryIs ==
  ASSUME NEW m, Counted(m), NEW id \in Known(m)
  PROVE  LET d    == m.dsml[id]
             kept == m.refs[d] > 1
             own  == [m.owners EXCEPT ![d] = RemoveFirst(m.owners[d], id)]
         IN RemoveEntry(m, id) =
              [lru    |-> RemoveFirst(m.lru, id),
               dsml   |-> Without(m.dsml, id),
               refs   |-> IF kept THEN [m.refs EXCEPT ![d] = m.refs[d] - 1] ELSE Without(m.refs, d),
               owners |-> IF kept THEN own ELSE Without(own, d),
               bytes  |-> IF kept THEN Less(m.bytes, EntryBytes)
                          ELSE Less(Less(m.bytes, EntryBytes), BlockBytes)]
<1> DEFINE d == m.dsml[id]
           own == [m.owners EXCEPT ![d] = RemoveFirst(m.owners[d], id)]
           n == [lru |-> RemoveFirst(m.lru, id), dsml |-> Without(m.dsml, id),
                 refs |-> m.refs, owners |-> own, bytes |-> Less(m.bytes, EntryBytes)]
<1>2. RemoveEntry(m, id) = ReleaseBlock(n, d)
  BY DEF RemoveEntry
<1>3. ReleaseBlock(n, d) =
        IF m.refs[d] > 1 THEN [n EXCEPT !.refs = [m.refs EXCEPT ![d] = m.refs[d] - 1]]
        ELSE [n EXCEPT !.refs = Without(m.refs, d), !.owners = Without(own, d),
                       !.bytes = Less(Less(m.bytes, EntryBytes), BlockBytes)]
  BY DEF ReleaseBlock
<1> HIDE DEF own, d
<1> QED BY <1>2, <1>3 DEF own, d

LEMMA LessIs == \A a, b \in Nat : Less(a + b, b) = a
BY DEF Less

LEMMA RemoveEntryCounted ==
  ASSUME NEW m, Counted(m), NEW id \in Known(m)
  PROVE  /\ Counted(RemoveEntry(m, id))
         /\ RemoveEntry(m, id).lru = RemoveFirst(m.lru, id)
         /\ RemoveEntry(m, id).dsml = Without(m.dsml, id)
         /\ Known(RemoveEntry(m, id)) = Known(m) \ {id}
         /\ Len(m.lru) >= 1 /\ Len(RemoveEntry(m, id).lru) = Len(m.lru) - 1
<1> DEFINE d == m.dsml[id]
           K == Known(m) \ {id}
           B == DOMAIN m.refs
           l == RemoveFirst(m.lru, id)
           c == Without(m.dsml, id)
           own == [m.owners EXCEPT ![d] = RemoveFirst(m.owners[d], id)]
           r == RemoveEntry(m, id)
           g == RemoveFirst(m.owners[d], id)
           n == Len(m.lru)
           k == Cardinality(B)
<1>1. /\ Known(m) \subseteq Ids /\ m.dsml \in [Known(m) -> Dsml] /\ B \subseteq Dsml
      /\ m.refs \in [B -> Nat] /\ m.owners \in [B -> Seq(Ids)] /\ n \in Nat /\ k \in Nat
  BY CountedFacts
<1>2. /\ B = {m.dsml[x] : x \in Known(m)} /\ IsFiniteSet(B) /\ d \in B
      /\ \A x \in B : Lists(m.owners[x], Users(m, x)) /\ m.refs[x] = Len(m.owners[x])
      /\ m.bytes = Weight(n, k) /\ Lists(m.lru, Known(m))
  BY DEF Counted
<1>3. Lists(l, K) /\ Len(l) = n - 1 /\ n >= 1
  BY <1>2, ListsRemoved
<1>4. c \in [K -> Dsml] /\ \A x \in K : c[x] = m.dsml[x]
  BY <1>1 DEF Without, Restrict, Known
<1>5. id \in Users(m, d)
  BY DEF Users
<1>6. Lists(g, Users(m, d) \ {id}) /\ Len(g) = m.refs[d] - 1 /\ m.refs[d] >= 1
  <2>1. Lists(m.owners[d], Users(m, d)) /\ m.refs[d] = Len(m.owners[d])
    BY <1>2
  <2>2. Lists(g, Users(m, d) \ {id}) /\ Len(g) = Len(m.owners[d]) - 1 /\ Len(m.owners[d]) >= 1
    BY <1>5, <2>1, ListsRemoved
  <2> QED BY <2>1, <2>2
<1>7. own \in [B -> Seq(Ids)] /\ own[d] = g
      /\ \A x \in B : x # d => own[x] = m.owners[x]
  <2>1. g \in Seq(Ids)
    BY <1>1, <1>6, SeqMonotonic DEF Lists, Users
  <2> QED BY <1>1, <1>2, <2>1
<1>8. /\ \A x \in B : x # d => Users(m, x) = {y \in K : c[y] = x}
      /\ Users(m, d) \ {id} = {y \in K : c[y] = d}
  BY <1>4 DEF Users
<1>9. n - 1 \in Nat /\ Less(m.bytes, EntryBytes) = Weight(n - 1, k)
  <2>1. n - 1 \in Nat /\ (n - 1) + 1 = n
    BY <1>1, <1>3
  <2>2. Weight(n, k) = Weight(n - 1, k) + EntryBytes /\ Weight(n - 1, k) \in Nat
    BY <1>1, <2>1, WeightSteps
  <2> QED BY <1>2, <2>1, <2>2, LessIs, ToolMemoryAssumption
<1> HIDE DEF l, c, own, n, k, K, g
<1>10. CASE m.refs[d] > 1
  <2> DEFINE f == [m.refs EXCEPT ![d] = m.refs[d] - 1]
  <2>1. r = [lru |-> l, dsml |-> c, refs |-> f, owners |-> own, bytes |-> Less(m.bytes, EntryBytes)]
    BY <1>10, RemoveEntryIs DEF l, c, own
  <2>2. f \in [B -> Nat] /\ f[d] = m.refs[d] - 1 /\ \A x \in B : x # d => f[x] = m.refs[x]
    BY <1>1, <1>2, <1>10
  <2>3. \E y \in K : c[y] = d
    <3>1. Len(g) # 0
      BY <1>1, <1>2, <1>6, <1>10
    <3>2. Users(m, d) \ {id} # {}
      BY <1>6, <3>1, ListedAt
    <3> QED BY <1>8, <3>2
  <2>4. B = {c[x] : x \in K}
    BY <1>2, <1>4, <2>3 DEF K
  <2>5. \A x \in B : Lists(own[x], {y \in K : c[y] = x}) /\ f[x] = Len(own[x])
    <3> TAKE x \in B
    <3>1. CASE x = d
      BY <1>6, <1>7, <1>8, <2>2, <3>1
    <3>2. CASE x # d
      <4>1. own[x] = m.owners[x] /\ f[x] = m.refs[x] /\ Users(m, x) = {y \in K : c[y] = x}
        BY <1>7, <1>8, <2>2, <3>2
      <4> QED BY <1>2, <4>1
    <3> QED BY <3>1, <3>2
  <2> HIDE DEF f
  <2>6. Counted([lru |-> l, dsml |-> c, refs |-> f, owners |-> own,
                 bytes |-> Weight(Len(l), Cardinality(B))])
    <3>1. K \in SUBSET Ids /\ DOMAIN own = B /\ own = [x \in B |-> own[x]]
      BY <1>1, <1>7 DEF K
    <3> HIDE DEF B
    <3> QED BY <1>2, <1>3, <1>4, <2>2, <2>4, <2>5, <3>1, PartsCounted
  <2>7. Counted(r)
    BY <1>3, <1>9, <2>1, <2>6 DEF k
  <2>8. r.lru = l /\ r.dsml = c
    BY <2>1
  <2> QED BY <1>3, <1>4, <2>7, <2>8 DEF l, c, n, K, Known
<1>11. CASE ~(m.refs[d] > 1)
  <2> DEFINE C == B \ {d}
             f == Without(m.refs, d)
             o == Without(own, d)
  <2>1. r = [lru |-> l, dsml |-> c, refs |-> f, owners |-> o,
             bytes |-> Less(Less(m.bytes, EntryBytes), BlockBytes)]
    BY <1>11, RemoveEntryIs DEF l, c, own
  <2>2. f \in [C -> Nat] /\ \A x \in C : f[x] = m.refs[x]
    BY <1>1 DEF Without, Restrict
  <2>3. o \in [C -> Seq(Ids)] /\ \A x \in C : o[x] = m.owners[x]
    BY <1>7 DEF Without, Restrict
  <2>4. \A y \in K : c[y] # d
    <3>1. Len(g) = 0
      BY <1>1, <1>2, <1>6, <1>11
    <3>2. Users(m, d) \ {id} = {}
      BY <1>6, <3>1, ListedAt
    <3> QED BY <1>8, <3>2
  <2>5. C = {c[x] : x \in K}
    BY <1>2, <1>4, <2>4 DEF K
  <2>6. \A x \in C : Lists(o[x], {y \in K : c[y] = x}) /\ f[x] = Len(o[x])
    <3> TAKE x \in C
    <3>1. o[x] = m.owners[x] /\ f[x] = m.refs[x] /\ Users(m, x) = {y \in K : c[y] = x}
      BY <1>8, <2>2, <2>3
    <3> QED BY <1>2, <3>1
  <2>7. IsFiniteSet(C) /\ Cardinality(C) = k - 1 /\ k - 1 \in Nat
    <3>1. IsFiniteSet(C) /\ Cardinality(C) = k - 1
      BY <1>2, FS_RemoveElement DEF k
    <3> QED BY <3>1, FS_CardinalityType
  <2> HIDE DEF f, o, C
  <2>8. Counted([lru |-> l, dsml |-> c, refs |-> f, owners |-> o,
                 bytes |-> Weight(Len(l), Cardinality(C))])
    <3>1. K \in SUBSET Ids /\ DOMAIN o = C /\ o = [x \in C |-> o[x]]
      BY <1>1, <2>3 DEF K
    <3> QED BY <1>3, <1>4, <2>2, <2>5, <2>6, <2>7, <3>1, PartsCounted
  <2>9. Less(Less(m.bytes, EntryBytes), BlockBytes) = Weight(n - 1, k - 1)
    <3>1. (k - 1) + 1 = k
      BY <1>1 DEF k
    <3>2. Weight(n - 1, k) = Weight(n - 1, k - 1) + BlockBytes /\ Weight(n - 1, k - 1) \in Nat
      BY <1>9, <2>7, <3>1, WeightSteps
    <3> QED BY <1>9, <3>2, LessIs, ToolMemoryAssumption
  <2>10. Counted(r)
    BY <1>3, <2>1, <2>7, <2>8, <2>9
  <2>11. r.lru = l /\ r.dsml = c
    BY <2>1
  <2> QED BY <1>3, <1>4, <2>10, <2>11 DEF l, c, n, K, Known
<1> QED BY <1>10, <1>11

LEMMA GetBlockIs ==
  ASSUME NEW m, Counted(m), NEW d, d \notin DOMAIN m.refs
  PROVE  GetBlock(m, d) = [lru |-> m.lru, dsml |-> m.dsml, refs |-> With(m.refs, d, 0),
                           owners |-> With(m.owners, d, <<>>), bytes |-> m.bytes + BlockBytes]
<1>1. m = [lru |-> m.lru, dsml |-> m.dsml, refs |-> m.refs, owners |-> m.owners,
           bytes |-> m.bytes]
  BY CountedFacts
<1> QED BY <1>1 DEF GetBlock

LEMMA NewEntryCounted ==
  ASSUME NEW m, Counted(m), NEW id \in Ids \ Known(m), NEW d \in Dsml
  PROVE  LET r == NewEntry(GetBlock(m, d), id, d)
         IN /\ Counted(r) /\ Known(r) = Known(m) \cup {id} /\ r.dsml = With(m.dsml, id, d)
            /\ r.lru = <<id>> \o m.lru
<1> DEFINE K == Known(m) \cup {id}
           A == DOMAIN m.refs
           B == A \cup {d}
           l == <<id>> \o m.lru
           c == With(m.dsml, id, d)
           g == GetBlock(m, d)
           r == NewEntry(g, id, d)
           n == Len(m.lru)
           k == Cardinality(A)
<1>1. /\ Known(m) \subseteq Ids /\ m.dsml \in [Known(m) -> Dsml] /\ A \subseteq Dsml
      /\ m.refs \in [A -> Nat] /\ m.owners \in [A -> Seq(Ids)] /\ n \in Nat /\ k \in Nat
  BY CountedFacts
<1>2. /\ A = {m.dsml[x] : x \in Known(m)} /\ IsFiniteSet(A)
      /\ \A x \in A : Lists(m.owners[x], Users(m, x)) /\ m.refs[x] = Len(m.owners[x])
      /\ m.bytes = Weight(n, k) /\ Lists(m.lru, Known(m))
  BY DEF Counted
<1>3. Lists(l, K) /\ Len(l) = n + 1
  BY <1>2, ListsFront
<1>4. c \in [K -> Dsml] /\ c[id] = d /\ \A x \in Known(m) : c[x] = m.dsml[x]
  BY <1>1 DEF With, Known
<1>5. B = {c[x] : x \in K}
  BY <1>2, <1>4
<1>6. IsFiniteSet(B) /\ B \subseteq Dsml
  BY <1>1, <1>2, FS_AddElement
<1>7. \A x \in A : x # d => Users(m, x) = {y \in K : c[y] = x}
  BY <1>4 DEF Users
<1>8. {y \in K : c[y] = d} = {y \in Known(m) : m.dsml[y] = d} \cup {id}
  BY <1>4
\* The block before the entry is linked to it.
<1>9. /\ g.lru = m.lru /\ g.dsml = m.dsml
      /\ g.refs \in [B -> Nat] /\ g.owners \in [B -> Seq(Ids)] /\ DOMAIN g.owners = B
      /\ \A x \in A : g.refs[x] = m.refs[x] /\ g.owners[x] = m.owners[x]
      /\ Lists(g.owners[d], {y \in Known(m) : m.dsml[y] = d}) /\ g.refs[d] = Len(g.owners[d])
      /\ g.bytes = Weight(n, Cardinality(B))
  <2>1. CASE d \in A
    <3>1. g = m /\ B = A
      BY <2>1 DEF GetBlock
    <3> QED BY <1>1, <1>2, <2>1, <3>1 DEF Users
  <2>2. CASE d \notin A
    <3>1. g = [lru |-> m.lru, dsml |-> m.dsml, refs |-> With(m.refs, d, 0),
               owners |-> With(m.owners, d, <<>>), bytes |-> m.bytes + BlockBytes]
      BY <2>2, GetBlockIs
    <3>2. With(m.refs, d, 0) \in [B -> Nat] /\ With(m.refs, d, 0)[d] = 0
          /\ \A x \in A : With(m.refs, d, 0)[x] = m.refs[x]
      BY <1>1, <2>2 DEF With
    <3>3. With(m.owners, d, <<>>) \in [B -> Seq(Ids)] /\ With(m.owners, d, <<>>)[d] = <<>>
          /\ \A x \in A : With(m.owners, d, <<>>)[x] = m.owners[x]
      BY <1>1, <2>2, EmptySeq DEF With
    <3>4. {y \in Known(m) : m.dsml[y] = d} = {}
      BY <1>2, <2>2
    <3>5. Cardinality(B) = k + 1
      BY <1>2, <2>2, FS_AddElement
    <3>6. m.bytes + BlockBytes = Weight(n, Cardinality(B))
      BY <1>1, <1>2, <3>5, WeightSteps
    <3>7. g.owners[d] = <<>> /\ g.refs[d] = 0
      BY <3>1, <3>2, <3>3
    <3>8. Lists(g.owners[d], {y \in Known(m) : m.dsml[y] = d}) /\ g.refs[d] = Len(g.owners[d])
      BY <3>4, <3>7, NothingListed
    <3> HIDE DEF B
    <3> QED BY <3>1, <3>2, <3>3, <3>6, <3>8
  <2> QED BY <2>1, <2>2
<1> HIDE DEF g, c, l, n, k
<1> DEFINE f == [g.refs EXCEPT ![d] = g.refs[d] + 1]
           o == [g.owners EXCEPT ![d] = <<id>> \o g.owners[d]]
<1>10. r = [lru |-> l, dsml |-> c, refs |-> f, owners |-> o, bytes |-> g.bytes + EntryBytes]
  BY <1>9 DEF NewEntry, l, c
<1>11. f \in [B -> Nat] /\ f[d] = g.refs[d] + 1 /\ \A x \in B : x # d => f[x] = m.refs[x]
  BY <1>9
<1>12. /\ Lists(<<id>> \o g.owners[d], {y \in K : c[y] = d})
       /\ Len(<<id>> \o g.owners[d]) = g.refs[d] + 1
  <2>1. id \notin {y \in Known(m) : m.dsml[y] = d}
    OBVIOUS
  <2> QED BY <1>8, <1>9, <2>1, ListsFront
<1>13. DOMAIN o = B /\ o = [x \in B |-> o[x]] /\ o[d] = <<id>> \o g.owners[d]
       /\ \A x \in B : x # d => o[x] = m.owners[x]
  BY <1>9
<1>14. \A x \in B : Lists(o[x], {y \in K : c[y] = x}) /\ f[x] = Len(o[x])
  <2> TAKE x \in B
  <2>1. CASE x = d
    BY <1>11, <1>12, <1>13, <2>1
  <2>2. CASE x # d
    <3>1. x \in A /\ o[x] = m.owners[x] /\ f[x] = m.refs[x] /\ Users(m, x) = {y \in K : c[y] = x}
      BY <1>7, <1>11, <1>13, <2>2
    <3> QED BY <1>2, <3>1
  <2> QED BY <2>1, <2>2
<1> HIDE DEF f, o
<1>15. Counted([lru |-> l, dsml |-> c, refs |-> f, owners |-> o,
                bytes |-> Weight(Len(l), Cardinality(B))])
  <2>1. K \in SUBSET Ids
    BY <1>1
  <2> HIDE DEF B, K
  <2> QED BY <1>3, <1>4, <1>5, <1>6, <1>11, <1>13, <1>14, <2>1, PartsCounted
<1>16. g.bytes + EntryBytes = Weight(Len(l), Cardinality(B))
  <2>1. Cardinality(B) \in Nat
    BY <1>6, FS_CardinalityType
  <2> QED BY <1>1, <1>3, <1>9, <2>1, WeightSteps DEF n
<1>17. Counted(r)
  BY <1>10, <1>15, <1>16
<1>18. r.lru = l /\ r.dsml = c
  BY <1>10
<1> QED BY <1>4, <1>17, <1>18 DEF Known, l, c, g

-----------------------------------------------------------------------------
(* Pruning.                                                                *)

\* f is the memory after each turn of the loop, n turns long.
Prunes(m, n, f) ==
  f = [k \in 0..n |-> IF k = 0 THEN m ELSE RemoveEntry(f[k - 1], Victim(f[k - 1]))]

LEMMA SomePrunes == ASSUME NEW m, NEW n \in Nat PROVE \E f : Prunes(m, n, f)
<1> DEFINE Next1(x) == RemoveEntry(x, Victim(x))
           N == {k \in Nat : \E f : Prunes(m, k, f)}
<1>1. 0 \in N
  <2> DEFINE f == [k \in 0..0 |-> m]
  <2>1. Prunes(m, 0, f)
    BY DEF Prunes
  <2> QED BY <2>1
<1>2. ASSUME NEW k \in Nat, k \in N PROVE k + 1 \in N
  <2>1. PICK f : Prunes(m, k, f)
    BY <1>2
  <2> DEFINE g == [i \in 0..(k + 1) |-> IF i = 0 THEN m ELSE Next1(f[i - 1])]
  <2>2. \A i \in 0..k : f[i] = IF i = 0 THEN m ELSE Next1(f[i - 1])
    <3> DEFINE e(i) == IF i = 0 THEN m ELSE Next1(f[i - 1])
    <3>1. f = [i \in 0..k |-> e(i)]
      BY <2>1 DEF Prunes
    <3>2. \A i \in 0..k : f[i] = e(i)
      <4> HIDE DEF e
      <4> QED BY <3>1
    <3> QED BY <3>2
  <2> HIDE DEF Next1
  <2>3. \A i \in 0..(k + 1) : g[i] = IF i = 0 THEN m ELSE Next1(f[i - 1])
    OBVIOUS
  <2>4. \A i \in 0..k : g[i] = f[i]
    <3> TAKE i \in 0..k
    <3>1. i \in 0..(k + 1)
      BY <1>2
    <3> HIDE DEF g
    <3> QED BY <2>2, <2>3, <3>1
  <2>5. \A i \in 1..(k + 1) : i - 1 \in 0..k
    BY <1>2
  <2>6. \A i \in 0..(k + 1) : g[i] = IF i = 0 THEN m ELSE Next1(g[i - 1])
    <3> TAKE i \in 0..(k + 1)
    <3>1. i # 0 => i \in 1..(k + 1)
      BY <1>2
    <3> HIDE DEF g
    <3> QED BY <2>3, <2>4, <2>5, <3>1
  <2>7. g = [i \in 0..(k + 1) |-> IF i = 0 THEN m ELSE Next1(g[i - 1])]
    <3> DEFINE e(i) == IF i = 0 THEN m ELSE Next1(g[i - 1])
    <3>1. g = [i \in 0..(k + 1) |-> g[i]] /\ \A i \in 0..(k + 1) : g[i] = e(i)
      BY <2>6
    <3>2. g = [i \in 0..(k + 1) |-> e(i)]
      <4> HIDE DEF e, g
      <4> QED BY <3>1
    <3> QED BY <3>2
  <2>8. Prunes(m, k + 1, g)
    BY <2>7 DEF Prunes, Next1
  <2> QED BY <1>2, <2>8
<1>3. Nat \subseteq N
  <2> HIDE DEF N
  <2> QED BY <1>1, <1>2, EveryNumber
<1> QED BY <1>3

\* y has lost ids of x from the tail of the use list, and nothing else.
Shortened(x, y) ==
  /\ Len(y.lru) \in Nat /\ Len(y.lru) <= Len(x.lru)
  /\ \A i \in 1..Len(y.lru) : y.lru[i] = x.lru[i]
  /\ Known(y) \subseteq Known(x) /\ \A id \in Known(y) : y.dsml[id] = x.dsml[id]

LEMMA VictimGoes ==
  ASSUME NEW x, Counted(x), Len(x.lru) > 0
  PROVE  LET y == RemoveEntry(x, Victim(x))
         IN Counted(y) /\ Len(y.lru) = Len(x.lru) - 1 /\ Shortened(x, y)
<1> DEFINE n == Len(x.lru)
           v == Victim(x)
           y == RemoveEntry(x, v)
<1>1. Lists(x.lru, Known(x)) /\ n \in Nat /\ n \in 1..n
  BY ListedAt DEF Counted
<1>2. v = x.lru[n] /\ v \in Known(x)
  BY <1>1, ListedAt DEF Victim, Last
<1>3. /\ Counted(y) /\ y.lru = RemoveFirst(x.lru, v) /\ y.dsml = Without(x.dsml, v)
      /\ Known(y) = Known(x) \ {v} /\ Len(y.lru) = n - 1
  BY <1>2, RemoveEntryCounted
<1>4. \A i \in 1..(n - 1) : y.lru[i] = x.lru[i]
  <2>1. \A i \in 1..(n - 1) : RemoveFirst(x.lru, v)[i] = IF i < n THEN x.lru[i] ELSE x.lru[i + 1]
    <3> DEFINE s == x.lru
    <3>1. Lists(s, Known(x)) /\ n \in 1..Len(s) /\ s[n] = v
      BY <1>1, <1>2
    <3> HIDE DEF s, n, v
    <3>2. \A i \in 1..(Len(s) - 1) : RemoveFirst(s, s[n])[i] = IF i < n THEN s[i] ELSE s[i + 1]
      BY <3>1, Unlinked1
    <3> QED BY <3>1, <3>2 DEF s, n
  <2>2. \A i \in 1..(n - 1) : i < n
    BY <1>1
  <2> QED BY <1>3, <2>1, <2>2
<1>5. \A id \in Known(y) : y.dsml[id] = x.dsml[id]
  BY <1>3 DEF Without, Restrict, Known
<1> QED BY <1>1, <1>3, <1>4, <1>5 DEF Shortened

LEMMA PrunesShorten ==
  ASSUME NEW m, Counted(m), NEW f, Prunes(m, Len(m.lru), f)
  PROVE  \A k \in 0..Len(m.lru) :
            Counted(f[k]) /\ Len(f[k].lru) = Len(m.lru) - k /\ Shortened(m, f[k])
<1> DEFINE n == Len(m.lru)
           Good(k) == Counted(f[k]) /\ Len(f[k].lru) = n - k /\ Shortened(m, f[k])
           N == {k \in Nat : k <= n => Good(k)}
<1>1. n \in Nat
  BY CountedFacts
<1>2. \A k \in 0..n : f[k] = IF k = 0 THEN m ELSE RemoveEntry(f[k - 1], Victim(f[k - 1]))
  <2> DEFINE e(k) == IF k = 0 THEN m ELSE RemoveEntry(f[k - 1], Victim(f[k - 1]))
  <2>1. f = [k \in 0..n |-> e(k)]
    BY DEF Prunes
  <2>2. \A k \in 0..n : f[k] = e(k)
    <3> HIDE DEF e, n
    <3> QED BY <2>1
  <2> QED BY <2>2
<1> HIDE DEF n
<1>3. 0 \in N
  <2>1. f[0] = m
    BY <1>1, <1>2
  <2>2. Good(0)
    BY <1>1, <2>1 DEF Shortened, n
  <2> QED BY <2>2
<1>4. ASSUME NEW k \in Nat, k \in N PROVE k + 1 \in N
  <2> SUFFICES ASSUME k + 1 <= n PROVE Good(k + 1)
    OBVIOUS
  <2>1. Good(k)
    BY <1>1, <1>4
  <2>2. f[k + 1] = RemoveEntry(f[k], Victim(f[k]))
    <3>1. k + 1 \in 0..n /\ k + 1 # 0 /\ (k + 1) - 1 = k
      BY <1>1, <1>4
    <3> QED BY <1>2, <3>1
  <2>3. Len(f[k].lru) > 0
    BY <1>1, <2>1
  <2>4. /\ Counted(f[k + 1]) /\ Len(f[k + 1].lru) = Len(f[k].lru) - 1
        /\ Shortened(f[k], f[k + 1])
    BY <2>1, <2>2, <2>3, VictimGoes
  <2>5. Len(f[k + 1].lru) = n - (k + 1)
    BY <1>1, <2>1, <2>4
  <2>6. Shortened(m, f[k + 1])
    BY <1>1, <2>1, <2>4 DEF Shortened, n
  <2> QED BY <2>4, <2>5, <2>6
<1>5. Nat \subseteq N
  <2> HIDE DEF N
  <2> QED BY <1>3, <1>4, EveryNumber
<1>6. \A k \in 0..n : Good(k)
  BY <1>1, <1>5
<1> QED BY <1>6 DEF n

LEMMA NothingKnown ==
  ASSUME NEW m, Counted(m), Len(m.lru) = 0 PROVE ~Over(m) /\ Known(m) = {}
<1>1. Known(m) = {}
  BY ListedAt DEF Counted
<1>2. DOMAIN m.refs = {}
  BY <1>1 DEF Counted
<1>3. m.bytes = 0
  BY <1>2, FS_EmptySet, NothingWeighs DEF Counted
<1> QED BY <1>1, <1>3, ToolMemoryAssumption DEF Over

\* However much a put has added, the loop ends within both limits.
LEMMA PruneFits ==
  ASSUME NEW m, Counted(m)
  PROVE  Counted(Prune(m)) /\ ~Over(Prune(m)) /\ Shortened(m, Prune(m))
<1> DEFINE n == Len(m.lru)
           f == CHOOSE f : Prunes(m, n, f)
           Stops(k) == (k = n \/ ~Over(f[k])) /\ \A j \in 0..(k - 1) : Over(f[j])
           stop == CHOOSE k \in 0..n : Stops(k)
<1>1. n \in Nat
  BY CountedFacts
<1>2. Prunes(m, n, f)
  BY <1>1, SomePrunes
<1>3. Prune(m) = f[stop]
  BY DEF Prune, Prunes
<1>4. \A k \in 0..n : Counted(f[k]) /\ Len(f[k].lru) = n - k /\ Shortened(m, f[k])
  BY <1>2, PrunesShorten
<1> HIDE DEF f, n
<1>5. \E k \in 0..n : Stops(k)
  <2> DEFINE S == {k \in 0..n : k = n \/ ~Over(f[k])}
  <2>1. S \in SUBSET Nat /\ n \in S
    BY <1>1
  <2>2. PICK k \in S : \A j \in S : k <= j
    <3> HIDE DEF S
    <3> QED BY <2>1, LeastMember
  <2>3. \A j \in 0..(k - 1) : Over(f[j])
    BY <1>1, <2>2
  <2> QED BY <2>2, <2>3
<1>6. stop \in 0..n /\ Stops(stop)
  BY <1>5
<1> HIDE DEF stop
<1>7. CASE stop = n
  <2>1. Len(f[stop].lru) = 0
    BY <1>1, <1>4, <1>6, <1>7
  <2> QED BY <1>3, <1>4, <1>6, <2>1, NothingKnown
<1>8. CASE ~Over(f[stop])
  BY <1>3, <1>4, <1>6, <1>8
<1> QED BY <1>6, <1>7, <1>8

-----------------------------------------------------------------------------
(* Putting.                                                                *)

\* a stands before b in the list s: a was used after b.
Ahead(s, a, b) == \E i, j \in 1..Len(s) : i < j /\ s[i] = a /\ s[j] = b

LEMMA AheadRemoved ==
  ASSUME NEW S, NEW s, Lists(s, S), NEW x \in S, NEW a, NEW b, a # x, b # x, Ahead(s, a, b)
  PROVE  Ahead(RemoveFirst(s, x), a, b)
<1> DEFINE n == Len(s)
           r == RemoveFirst(s, x)
<1>1. PICK j \in 1..n : s[j] = x
  BY ListedAt
<1>2. n \in Nat
  BY ListedAt
<1>3. Len(r) = n - 1 /\ \A i \in 1..(n - 1) : r[i] = IF i < j THEN s[i] ELSE s[i + 1]
  BY <1>1, Unlinked1
<1>4. PICK k, l \in 1..n : k < l /\ s[k] = a /\ s[l] = b
  BY DEF Ahead
<1>5. k # j /\ l # j
  BY <1>1, <1>4
<1> HIDE DEF r, n
<1> DEFINE Left(i) == IF i < j THEN i ELSE i - 1
<1>6. \A i \in 1..n : i # j => Left(i) \in 1..(n - 1) /\ r[Left(i)] = s[i]
  <2> TAKE i \in 1..n
  <2> HAVE i # j
  <2>1. CASE i < j
    <3>1. i \in 1..(n - 1)
      BY <1>2, <2>1
    <3> QED BY <1>3, <2>1, <3>1
  <2>2. CASE i > j
    <3>1. i - 1 \in 1..(n - 1) /\ ~(i - 1 < j) /\ (i - 1) + 1 = i /\ Left(i) = i - 1
      BY <1>2, <2>2
    <3>2. r[i - 1] = s[i]
      BY <1>3, <3>1
    <3> QED BY <3>1, <3>2
  <2> QED BY <2>1, <2>2
<1>7. Left(k) < Left(l)
  BY <1>2, <1>4, <1>5
<1>8. /\ Left(k) \in 1..Len(r) /\ r[Left(k)] = a
      /\ Left(l) \in 1..Len(r) /\ r[Left(l)] = b
  BY <1>3, <1>4, <1>5, <1>6
<1>9. Ahead(r, a, b)
  <2> HIDE DEF Left
  <2> QED BY <1>7, <1>8 DEF Ahead
<1> QED BY <1>9 DEF r

LEMMA AheadFront ==
  ASSUME NEW S, NEW s \in Seq(S), NEW x, NEW a, NEW b, Ahead(s, a, b)
  PROVE  Ahead(<<x>> \o s, a, b)
<1> DEFINE T == S \cup {x}
           r == <<x>> \o s
<1>1. s \in Seq(T) /\ <<x>> \in Seq(T) /\ Len(<<x>>) = 1 /\ Len(s) \in Nat
  BY SeqMonotonic, LenProperties
<1>2. Len(r) = Len(s) + 1 /\ \A i \in 1..Len(r) : r[i] = IF i <= 1 THEN <<x>>[i] ELSE s[i - 1]
  BY <1>1, ConcatProperties
<1> HIDE DEF r
<1>3. \A i \in 1..Len(s) : i + 1 \in 1..Len(r) /\ r[i + 1] = s[i]
  <2> TAKE i \in 1..Len(s)
  <2>1. i + 1 \in 1..Len(r) /\ ~(i + 1 <= 1) /\ (i + 1) - 1 = i
    BY <1>1, <1>2
  <2> QED BY <1>2, <2>1
<1>4. PICK k, l \in 1..Len(s) : k < l /\ s[k] = a /\ s[l] = b
  BY DEF Ahead
<1>5. k + 1 < l + 1
  BY <1>1, <1>4
<1>6. Ahead(r, a, b)
  BY <1>3, <1>4, <1>5 DEF Ahead
<1> QED BY <1>6 DEF r

\* What is cut off the tail was behind whatever is left.
LEMMA AheadShortened ==
  ASSUME NEW x, Counted(x), NEW y, Counted(y), Shortened(x, y), NEW a, NEW b \in Known(y),
         Ahead(x.lru, a, b)
  PROVE  Ahead(y.lru, a, b)
<1>1. Lists(x.lru, Known(x)) /\ Lists(y.lru, Known(y)) /\ Len(x.lru) \in Nat
  BY ListedAt DEF Counted
<1>2. PICK j \in 1..Len(y.lru) : y.lru[j] = b
  BY <1>1, ListedAt
<1>3. PICK k, l \in 1..Len(x.lru) : k < l /\ x.lru[k] = a /\ x.lru[l] = b
  BY DEF Ahead
<1>4. j \in 1..Len(x.lru) /\ x.lru[j] = b
  BY <1>1, <1>2 DEF Shortened
<1>5. j = l
  <2>1. x.lru[j] = x.lru[l]
    BY <1>3, <1>4
  <2> QED BY <1>1, <1>4, <2>1, ListedAt
<1>6. k \in 1..Len(y.lru) /\ y.lru[k] = a
  <2>1. k \in 1..Len(y.lru)
    BY <1>1, <1>2, <1>3, <1>5 DEF Shortened
  <2> QED BY <1>3, <2>1 DEF Shortened
<1> QED BY <1>2, <1>3, <1>5, <1>6 DEF Ahead

LEMMA AheadListed ==
  ASSUME NEW S, NEW s, Lists(s, S), NEW a, NEW b, Ahead(s, a, b)
  PROVE  a \in S /\ b \in S
BY ListedAt DEF Ahead

\* What a put leaves, whatever else it forgot: the new lead first, the others in
\* their old order and with their old blocks.
LEMMA PutCounted ==
  ASSUME NEW m, Counted(m), NEW id \in Ids, NEW d \in Dsml
  PROVE  LET r == Put(m, id, d)
         IN /\ Counted(r) /\ ~Over(r) /\ Known(r) \subseteq Known(m) \cup {id}
            /\ \A x \in Known(r) : r.dsml[x] = IF x = id THEN d ELSE m.dsml[x]
            /\ \A b \in Known(r) \ {id} : \A a \in Ids \ {id} :
                  Ahead(m.lru, a, b) => Ahead(r.lru, a, b)
            /\ Known(r) # {} => r.lru[1] = id
<1> DEFINE K == Known(m)
           r == Put(m, id, d)
           Before1(l) == \/ id \notin K /\ l = m.lru
                         \/ id \in K /\ l = RemoveFirst(m.lru, id)
           Fresh(q, l) == /\ Counted(q) /\ q.lru = <<id>> \o l /\ Known(q) = K \cup {id}
                          /\ \A x \in Known(q) : q.dsml[x] = IF x = id THEN d ELSE m.dsml[x]
<1>1. \E q, l : Before1(l) /\ Fresh(q, l) /\ r = Prune(q)
  <2>1. CASE id \in K /\ m.dsml[id] = d
    <3> DEFINE q == Touch(m, id)
               l == RemoveFirst(m.lru, id)
    <3>1. Counted(q) /\ q.dsml = m.dsml
      BY <2>1, TouchCounted
    <3>2. q.lru = <<id>> \o l
      <4>1. m = [lru |-> m.lru, dsml |-> m.dsml, refs |-> m.refs, owners |-> m.owners,
                 bytes |-> m.bytes]
        BY CountedFacts
      <4> QED BY <4>1, OtherLru DEF Touch
    <3>3. Known(q) = K \cup {id}
      BY <2>1, <3>1 DEF Known
    <3>4. \A x \in Known(q) : q.dsml[x] = IF x = id THEN d ELSE m.dsml[x]
      BY <2>1, <3>1
    <3>5. r = Prune(q)
      BY <2>1 DEF Put
    <3> HIDE DEF q, r
    <3>6. Before1(l)
      BY <2>1
    <3> HIDE DEF l
    <3> QED BY <3>1, <3>2, <3>3, <3>4, <3>5, <3>6
  <2>2. CASE ~(id \in K /\ m.dsml[id] = d)
    <3> DEFINE rest == IF id \in K THEN RemoveEntry(m, id) ELSE m
               q == NewEntry(GetBlock(rest, d), id, d)
    <3>1. r = Prune(q)
      BY <2>2 DEF Put
    <3>2. /\ Counted(rest) /\ Known(rest) = K \ {id} /\ Before1(rest.lru)
          /\ \A x \in K \ {id} : rest.dsml[x] = m.dsml[x]
      <4>1. CASE id \in K
        <5>1. /\ Counted(rest) /\ rest.lru = RemoveFirst(m.lru, id)
              /\ rest.dsml = Without(m.dsml, id) /\ Known(rest) = K \ {id}
          BY <4>1, RemoveEntryCounted
        <5>2. \A x \in K \ {id} : rest.dsml[x] = m.dsml[x]
          BY <5>1 DEF Without, Restrict, Known
        <5> QED BY <4>1, <5>1, <5>2
      <4>2. CASE id \notin K
        <5>1. rest = m /\ K \ {id} = K
          BY <4>2
        <5> HIDE DEF rest
        <5> QED BY <4>2, <5>1
      <4> QED BY <4>1, <4>2
    <3> HIDE DEF rest
    <3>3. /\ Counted(q) /\ Known(q) = Known(rest) \cup {id} /\ q.dsml = With(rest.dsml, id, d)
          /\ q.lru = <<id>> \o rest.lru
      BY <3>2, NewEntryCounted
    <3> HIDE DEF q, r
    <3>4. Known(q) = K \cup {id}
      BY <3>2, <3>3
    <3>5. \A x \in Known(q) : q.dsml[x] = IF x = id THEN d ELSE m.dsml[x]
      <4> TAKE x \in Known(q)
      <4>1. x \in DOMAIN rest.dsml \cup {id}
        BY <3>3 DEF Known
      <4>2. q.dsml[x] = IF x = id THEN d ELSE rest.dsml[x]
        BY <3>3, <4>1 DEF With
      <4> QED BY <3>2, <3>4, <4>2
    <3> HIDE DEF Before1
    <3>6. Fresh(q, rest.lru)
      BY <3>3, <3>4, <3>5
    <3> HIDE DEF Fresh
    <3> QED BY <3>1, <3>2, <3>6
  <2> QED BY <2>1, <2>2
<1> HIDE DEF r
<1>2. PICK q, l : Before1(l) /\ Fresh(q, l) /\ r = Prune(q)
  BY <1>1
<1>3. Counted(r) /\ ~Over(r) /\ Shortened(q, r)
  BY <1>2, PruneFits
<1>4. Known(r) \subseteq K \cup {id}
  BY <1>2, <1>3 DEF Shortened
<1>5. \A x \in Known(r) : r.dsml[x] = IF x = id THEN d ELSE m.dsml[x]
  BY <1>2, <1>3 DEF Shortened
<1>6. Lists(m.lru, K)
  BY DEF Counted
<1>7. l \in Seq(K)
  <2>1. CASE id \notin K /\ l = m.lru
    BY <1>6, <2>1 DEF Lists
  <2>2. CASE id \in K /\ l = RemoveFirst(m.lru, id)
    <3>1. Lists(l, K \ {id})
      BY <1>6, <2>2, ListsRemoved
    <3> QED BY <3>1, SeqMonotonic DEF Lists
  <2> QED BY <1>2, <2>1, <2>2
<1>8. ASSUME NEW b \in Known(r) \ {id}, NEW a \in Ids \ {id}, Ahead(m.lru, a, b)
      PROVE  Ahead(r.lru, a, b)
  <2>1. Ahead(l, a, b)
    <3>1. CASE id \notin K /\ l = m.lru
      BY <1>8, <3>1
    <3>2. CASE id \in K /\ l = RemoveFirst(m.lru, id)
      BY <1>6, <1>8, <3>2, AheadRemoved
    <3> QED BY <1>2, <3>1, <3>2
  <2>2. Ahead(q.lru, a, b)
    BY <1>2, <1>7, <2>1, AheadFront
  <2> QED BY <1>2, <1>3, <2>2, AheadShortened
<1>9. Known(r) # {} => r.lru[1] = id
  <2> HAVE Known(r) # {}
  <2>1. Lists(r.lru, Known(r)) /\ Len(r.lru) \in Nat
    BY <1>3, ListedAt DEF Counted
  <2>2. 1 \in 1..Len(r.lru)
    BY <2>1, ListedAt
  <2>3. r.lru[1] = q.lru[1]
    BY <1>3, <2>2 DEF Shortened
  <2>4. q.lru[1] = id
    <3>1. l \in Seq(K \cup {id}) /\ <<id>> \in Seq(K \cup {id}) /\ Len(<<id>>) = 1 /\ Len(l) \in Nat
      BY <1>7, SeqMonotonic, LenProperties
    <3>2. (<<id>> \o l)[1] = <<id>>[1]
      BY <3>1, ConcatProperties
    <3> QED BY <1>2, <3>2
  <2> QED BY <2>3, <2>4
<1> QED BY <1>3, <1>4, <1>5, <1>8, <1>9 DEF r

-----------------------------------------------------------------------------
(* Looking up: touches only.                                               *)

\* The memories within the limits that have the ids and blocks of m.
SameBlocks(m) == {x \in Memory : Counted(x) /\ ~Over(x) /\ x.dsml = m.dsml}

LEMMA LookUpKeeps ==
  ASSUME NEW m, Counted(m), ~Over(m), NEW ids \in Seq(Ids)
  PROVE  LookUpAll(m, ids) \in SameBlocks(m)
<1> DEFINE n == Len(ids)
           G == SameBlocks(m)
           D == DOMAIN ids
           op(acc, id) == IF id \in Known(acc) THEN Touch(acc, id) ELSE acc
           g == [i \in 1..n |-> [x \in G |-> op(x, ids[i])]]
           Eq(f) == f = [s \in SUBSET D |-> IF s = {} THEN m
                                            ELSE op(f[s \ {Top(s)}], ids[Top(s)])]
           f0 == CHOOSE f : Eq(f)
<1>1. n \in Nat /\ D = 1..n /\ \A i \in 1..n : ids[i] \in Ids
  BY LenProperties, ElementOfSeq
<1>2. LookUpAll(m, ids) = f0[D]
  BY DEF LookUpAll, FoldLeft, MapThenFoldSet, Max, Top
<1>3. m \in G
  BY DEF SameBlocks, Counted
<1>4. \A x \in G, id \in Ids : op(x, id) \in G
  <2> TAKE x \in G, id \in Ids
  <2>1. Counted(x) /\ ~Over(x) /\ x.dsml = m.dsml
    BY DEF SameBlocks
  <2>2. CASE id \in Known(x)
    <3>1. /\ Counted(Touch(x, id)) /\ Touch(x, id).dsml = m.dsml
          /\ Len(Touch(x, id).lru) = Len(x.lru) /\ Touch(x, id).bytes = x.bytes
      BY <2>1, <2>2, TouchCounted
    <3>2. ~Over(Touch(x, id))
      BY <2>1, <3>1 DEF Over
    <3> QED BY <2>2, <3>1, <3>2 DEF SameBlocks, Counted
  <2>3. CASE id \notin Known(x)
    BY <2>3
  <2> QED BY <2>2, <2>3
<1> HIDE DEF G, op, n, D
<1>5. g \in [1..n -> [G -> G]] /\ \A i \in 1..n : \A x \in G : g[i][x] = op(x, ids[i])
  BY <1>1, <1>4
<1>6. \E f : Eq(f)
  <2> HIDE DEF g
  <2>1. PICK f \in [SUBSET (1..n) -> G] : Folds(f, n, m, g)
    <3>1. n \in Nat /\ m \in G /\ g \in [1..n -> [G -> G]]
      BY <1>1, <1>3, <1>5
    <3> QED BY <3>1, SomeFold
  <2>2. \A s \in SUBSET D : f[s] = IF s = {} THEN m ELSE op(f[s \ {Top(s)}], ids[Top(s)])
    <3> TAKE s \in SUBSET D
    <3>1. s # {} => Top(s) \in 1..n /\ f[s \ {Top(s)}] \in G
      BY <1>1, <2>1, TopIs
    <3> QED BY <1>1, <1>5, <2>1, <3>1 DEF Folds
  <2>3. Eq(f)
    BY <1>1, <2>1, <2>2
  <2> QED BY <2>3
<1>7. Eq(f0)
  <2> HIDE DEF Eq
  <2> QED BY <1>6
<1> HIDE DEF f0
<1>8. \A s \in SUBSET D : f0[s] = IF s = {} THEN m ELSE op(f0[s \ {Top(s)}], ids[Top(s)])
  BY <1>7
<1>9. f0[{}] \in G
  BY <1>3, <1>8
<1>10. \A k \in 1..n : f0[1..(k - 1)] \in G => f0[1..k] \in G
  <2> TAKE k \in 1..n
  <2>1. Top(1..k) = k /\ (1..k) \ {k} = 1..(k - 1)
    BY <1>1, TopIs
  <2>2. 1..k \in SUBSET D /\ 1..k # {}
    <3>1. k \in 1..k /\ \A i \in 1..k : i \in 1..n
      BY <1>1
    <3> QED BY <1>1, <3>1
  <2>3. f0[1..k] = op(f0[1..(k - 1)], ids[k])
    BY <1>8, <2>1, <2>2
  <2> QED BY <1>1, <1>4, <2>3
<1>11. f0[1..n] \in G
  <2>1. \A k \in 0..n : f0[1..k] \in G
    BY <1>1, <1>9, <1>10, FoldStays
  <2> QED BY <1>1, <2>1
<1> QED BY <1>1, <1>2, <1>11 DEF G

LEMMA AttachKeeps ==
  ASSUME NEW m, Counted(m), ~Over(m), NEW ids \in Seq(Seq(Ids))
  PROVE  LookUpMessages(m, ids) \in SameBlocks(m)
<1> DEFINE n == Len(ids)
           G == SameBlocks(m)
           D == DOMAIN ids
           op(acc, id) == LookUpAll(acc, id)
           g == [i \in 1..n |-> [x \in G |-> op(x, ids[i])]]
           Eq(f) == f = [s \in SUBSET D |-> IF s = {} THEN m
                                            ELSE op(f[s \ {Top(s)}], ids[Top(s)])]
           f0 == CHOOSE f : Eq(f)
<1>1. n \in Nat /\ D = 1..n /\ \A i \in 1..n : ids[i] \in Seq(Ids)
  BY LenProperties, ElementOfSeq
<1>2. LookUpMessages(m, ids) = f0[D]
  BY DEF LookUpMessages, FoldLeft, MapThenFoldSet, Max, Top
<1>3. m \in G
  BY DEF SameBlocks, Counted
<1>4. \A x \in G, id \in Seq(Ids) : op(x, id) \in G
  <2> TAKE x \in G, id \in Seq(Ids)
  <2>1. Counted(x) /\ ~Over(x) /\ x.dsml = m.dsml
    BY DEF SameBlocks
  <2>2. LookUpAll(x, id) \in SameBlocks(x)
    BY <2>1, LookUpKeeps
  <2> QED BY <2>1, <2>2 DEF SameBlocks
<1> HIDE DEF G, op, n, D
<1>5. g \in [1..n -> [G -> G]] /\ \A i \in 1..n : \A x \in G : g[i][x] = op(x, ids[i])
  BY <1>1, <1>4
<1>6. \E f : Eq(f)
  <2> HIDE DEF g
  <2>1. PICK f \in [SUBSET (1..n) -> G] : Folds(f, n, m, g)
    <3>1. n \in Nat /\ m \in G /\ g \in [1..n -> [G -> G]]
      BY <1>1, <1>3, <1>5
    <3> QED BY <3>1, SomeFold
  <2>2. \A s \in SUBSET D : f[s] = IF s = {} THEN m ELSE op(f[s \ {Top(s)}], ids[Top(s)])
    <3> TAKE s \in SUBSET D
    <3>1. s # {} => Top(s) \in 1..n /\ f[s \ {Top(s)}] \in G
      BY <1>1, <2>1, TopIs
    <3> QED BY <1>1, <1>5, <2>1, <3>1 DEF Folds
  <2>3. Eq(f)
    BY <1>1, <2>1, <2>2
  <2> QED BY <2>3
<1>7. Eq(f0)
  <2> HIDE DEF Eq
  <2> QED BY <1>6
<1> HIDE DEF f0
<1>8. \A s \in SUBSET D : f0[s] = IF s = {} THEN m ELSE op(f0[s \ {Top(s)}], ids[Top(s)])
  BY <1>7
<1>9. f0[{}] \in G
  BY <1>3, <1>8
<1>10. \A k \in 1..n : f0[1..(k - 1)] \in G => f0[1..k] \in G
  <2> TAKE k \in 1..n
  <2>1. Top(1..k) = k /\ (1..k) \ {k} = 1..(k - 1)
    BY <1>1, TopIs
  <2>2. 1..k \in SUBSET D /\ 1..k # {}
    <3>1. k \in 1..k /\ \A i \in 1..k : i \in 1..n
      BY <1>1
    <3> QED BY <1>1, <3>1
  <2>3. f0[1..k] = op(f0[1..(k - 1)], ids[k])
    BY <1>8, <2>1, <2>2
  <2> QED BY <1>1, <1>4, <2>3
<1>11. f0[1..n] \in G
  <2>1. \A k \in 0..n : f0[1..k] \in G
    BY <1>1, <1>9, <1>10, FoldStays
  <2> QED BY <1>1, <2>1
<1> QED BY <1>1, <1>2, <1>11 DEF G
\* h is the memory after each put of a turn.
InTurn(h, m, ids, d) ==
  /\ h[0] = m
  /\ \A k \in 1..Len(ids) : h[k] = Put(h[k - 1], ids[k], d)
  /\ h[Len(ids)] = PutAll(m, ids, d)

LEMMA PutsInOrder ==
  ASSUME NEW m, Counted(m), ~Over(m), NEW ids \in Seq(Ids), NEW d \in Dsml
  PROVE  \E h : InTurn(h, m, ids, d)
<1> DEFINE n == Len(ids)
           G == {x \in Memory : Counted(x)}
           D == DOMAIN ids
           op(acc, id) == Put(acc, id, d)
           g == [i \in 1..n |-> [x \in G |-> op(x, ids[i])]]
           Eq(f) == f = [s \in SUBSET D |-> IF s = {} THEN m
                                            ELSE op(f[s \ {Top(s)}], ids[Top(s)])]
           f0 == CHOOSE f : Eq(f)
<1>1. n \in Nat /\ D = 1..n /\ \A i \in 1..n : ids[i] \in Ids
  BY LenProperties, ElementOfSeq
<1>2. PutAll(m, ids, d) = f0[D]
  BY DEF PutAll, FoldLeft, MapThenFoldSet, Max, Top
<1>3. m \in G
  BY DEF Counted
<1>4. \A x \in G, id \in Ids : op(x, id) \in G
  <2> TAKE x \in G, id \in Ids
  <2>1. Counted(Put(x, id, d))
    BY PutCounted
  <2> QED BY <2>1 DEF Counted
<1> HIDE DEF G, op, n, D
<1>5. g \in [1..n -> [G -> G]] /\ \A i \in 1..n : \A x \in G : g[i][x] = op(x, ids[i])
  BY <1>1, <1>4
<1>6. \E f : Eq(f)
  <2> HIDE DEF g
  <2>1. PICK f \in [SUBSET (1..n) -> G] : Folds(f, n, m, g)
    <3>1. n \in Nat /\ m \in G /\ g \in [1..n -> [G -> G]]
      BY <1>1, <1>3, <1>5
    <3> QED BY <3>1, SomeFold
  <2>2. \A s \in SUBSET D : f[s] = IF s = {} THEN m ELSE op(f[s \ {Top(s)}], ids[Top(s)])
    <3> TAKE s \in SUBSET D
    <3>1. s # {} => Top(s) \in 1..n /\ f[s \ {Top(s)}] \in G
      BY <1>1, <2>1, TopIs
    <3> QED BY <1>1, <1>5, <2>1, <3>1 DEF Folds
  <2>3. Eq(f)
    BY <1>1, <2>1, <2>2
  <2> QED BY <2>3
<1>7. Eq(f0)
  <2> HIDE DEF Eq
  <2> QED BY <1>6
<1> HIDE DEF f0
<1>8. \A s \in SUBSET D : f0[s] = IF s = {} THEN m ELSE op(f0[s \ {Top(s)}], ids[Top(s)])
  BY <1>7
<1> DEFINE h == [k \in 0..n |-> f0[1..k]]
<1>9. h[0] = m
  <2>1. 0 \in 0..n /\ 1..0 = {} /\ {} \in SUBSET D
    BY <1>1
  <2>2. h[0] = f0[1..0]
    BY <2>1
  <2> QED BY <1>8, <2>1, <2>2
<1>10. \A k \in 1..n : h[k] = Put(h[k - 1], ids[k], d)
  <2> TAKE k \in 1..n
  <2>1. Top(1..k) = k /\ (1..k) \ {k} = 1..(k - 1)
    BY <1>1, TopIs
  <2>2. 1..k \in SUBSET D /\ 1..k # {}
    <3>1. k \in 1..k /\ \A i \in 1..k : i \in 1..n
      BY <1>1
    <3> QED BY <1>1, <3>1
  <2>3. f0[1..k] = op(f0[1..(k - 1)], ids[k])
    BY <1>8, <2>1, <2>2
  <2>4. h[k] = f0[1..k] /\ h[k - 1] = f0[1..(k - 1)]
    <3>1. k \in 0..n /\ k - 1 \in 0..n
      BY <1>1
    <3> QED BY <3>1
  <2> HIDE DEF h
  <2> QED BY <2>3, <2>4 DEF op
<1>11. h[n] = PutAll(m, ids, d)
  <2>1. h[n] = f0[1..n]
    <3>1. n \in 0..n
      BY <1>1
    <3> QED BY <3>1
  <2> HIDE DEF h
  <2> QED BY <1>1, <1>2, <2>1
<1> HIDE DEF h
<1>12. InTurn(h, m, ids, d)
  BY <1>9, <1>10, <1>11 DEF n, InTurn
<1> QED BY <1>12

-----------------------------------------------------------------------------
(* The records that may exist, and what holds them.                        *)

\* Every id with the block that was sampled for it; after a torn read, with any.
Recs == {r \in [id: SaidIds, dsml: Dsml] : torn \/ Sampled(r.id) = r.dsml}

\* The memory between two sections under tool_mu.
Fits(m, R) ==
  /\ Counted(m) /\ ~Over(m)
  /\ \A id \in Known(m) : [id |-> id, dsml |-> m.dsml[id]] \in R

Readers(R) ==
  [pc: {"idle", "scan", "read", "rest"}, request: Seq(Seq(Ids)), wanted: SUBSET Ids,
   todo: SUBSET (1..Len(Turns)), file: 0..Len(Turns), linked: BOOLEAN, map: Seq(R),
   pos: Nat, count: Nat, id: Ids \cup {None}]

ReaderFits(r, R, F, I) ==
  /\ r \in Readers(R)
  /\ r.file # 0 <=> r.pc \in {"read", "rest"}
  /\ r.pc \in {"read", "rest"} => r.pos >= 1
  /\ r.pc = "rest" => r.id \in I
  /\ r.linked => r.file # 0 /\ F[r.file].there /\ r.map = F[r.file].map

SaidI ==
  /\ said \in Seq(Dsml) /\ Len(said) <= Len(Turns) /\ live \in 0..Len(said)
  /\ torn \in BOOLEAN

FilesI ==
  /\ files \in [1..Len(Turns) -> [there: BOOLEAN, flag: BOOLEAN, map: Seq(Recs)]]
  /\ \A n \in 1..Len(Turns) :
       /\ files[n].there => n <= Len(said)
       /\ ~files[n].there => files[n] = NoFile
       /\ \A i \in 1..Len(files[n].map) : files[n].map[i].dsml \in ToSet(Text(n))

WorkerI ==
  /\ worker \in [pc: {"idle", "truncate", "map", "flag", "create", "load"},
                 n: 0..Len(Turns), flag: BOOLEAN]
  /\ worker.pc # "idle" => worker.n \in 1..Len(said)
  /\ worker.pc \in {"truncate", "map", "flag", "load"} => files[worker.n].there
  /\ worker.pc = "create" => ~files[worker.n].there

ReaderI ==
  /\ reader \in [Thread -> Readers(Recs)]
  /\ \A t \in Thread : ReaderFits(reader[t], Recs, files, SaidIds)
  /\ reader[Worker].pc # "idle" => worker.pc = "load"

RawI ==
  /\ raw \in [Parser -> SUBSET [ids: Seq(Ids), dsml: Dsml]]
  /\ \A p \in Parser : \A r \in raw[p] : \A i \in 1..Len(r.ids) :
       [id |-> r.ids[i], dsml |-> r.dsml] \in Recs

IInv == SaidI /\ Fits(mem, Recs) /\ FilesI /\ WorkerI /\ ReaderI /\ RawI

LEMMA ConstantsAre ==
  /\ Turns \in Seq(Seq(Ids)) /\ Len(Turns) \in Nat /\ DOMAIN Turns = 1..Len(Turns)
  /\ \A n \in 1..Len(Turns) : Turns[n] \in Seq(Ids) /\ Len(Turns[n]) > 0 /\ Chain[n] \in Seq(1..n)
  /\ \A m, n \in 1..Len(Turns) : m # n => ToSet(Turns[m]) \cap ToSet(Turns[n]) = {}
  /\ Histories \subseteq Seq(Seq(Ids)) /\ Worker \notin Parser /\ Worker \in Thread
  /\ None \notin Ids /\ MaxEntries \in Nat
<1>1. Turns \in Seq(Seq(Ids)) /\ Len(Turns) \in Nat /\ DOMAIN Turns = 1..Len(Turns)
  BY ToolMemoryAssumption, LenProperties, SeqMonotonic
<1>2. \A n \in 1..Len(Turns) : Turns[n] \in Seq(Ids) /\ Len(Turns[n]) > 0 /\ Chain[n] \in Seq(1..n)
  <2> TAKE n \in 1..Len(Turns)
  <2>1. Turns[n] \in Seq(Ids) \ {<<>>}
    BY ToolMemoryAssumption, ElementOfSeq
  <2>2. Len(Turns[n]) \in Nat /\ Len(Turns[n]) # 0
    BY <2>1, EmptySeq, LenProperties
  <2>3. Chain[n] \in Seq(1..n)
    BY <1>1, ToolMemoryAssumption
  <2> QED BY <2>1, <2>2, <2>3
<1>3. Histories \subseteq Seq(Seq(Ids))
  BY ToolMemoryAssumption, SeqMonotonic
<1> QED BY <1>1, <1>2, <1>3, ToolMemoryAssumption DEF Thread

\* A call belongs to one turn.
LEMMA OneTurn ==
  ASSUME NEW n \in 1..Len(Turns), NEW id \in ToSet(Turns[n])
  PROVE  (CHOOSE k \in DOMAIN Turns : id \in ToSet(Turns[k])) = n
<1>1. \A k \in DOMAIN Turns : id \in ToSet(Turns[k]) => k = n
  BY ConstantsAre
<1> QED BY <1>1, ConstantsAre

LEMMA TurnIds ==
  ASSUME NEW n \in 1..Len(Turns)
  PROVE  /\ ToSet(Turns[n]) \subseteq Ids /\ Turns[n] \in Seq(ToSet(Turns[n]))
         /\ \A i \in 1..Len(Turns[n]) : Turns[n][i] \in ToSet(Turns[n])
<1>1. Turns[n] \in Seq(Ids) /\ DOMAIN Turns[n] = 1..Len(Turns[n]) /\ Len(Turns[n]) \in Nat
  BY ConstantsAre, LenProperties
<1>2. \A i \in 1..Len(Turns[n]) : Turns[n][i] \in ToSet(Turns[n])
  BY <1>1 DEF ToSet
<1>3. Turns[n] = [i \in 1..Len(Turns[n]) |-> Turns[n][i]]
  BY <1>1
<1>4. Turns[n] \in Seq(ToSet(Turns[n]))
  BY <1>1, <1>2, <1>3, IsASeq
<1>5. ToSet(Turns[n]) \subseteq Ids
  BY ConstantsAre DEF Ids
<1> QED BY <1>2, <1>4, <1>5

LEMMA SaidAreIds ==
  ASSUME SaidI
  PROVE  SaidIds \subseteq Ids
<1>1. \A n \in DOMAIN said : n \in 1..Len(Turns)
  <2>1. DOMAIN said = 1..Len(said) /\ Len(said) \in Nat /\ Len(said) <= Len(Turns)
    BY LenProperties DEF SaidI
  <2> QED BY <2>1, ConstantsAre
<1> QED BY <1>1, TurnIds DEF SaidIds

\* Records are not lost: a turn that was said stays said.
LEMMA RecsGrow ==
  ASSUME SaidI, torn => torn',
         said' = said \/ \E d \in Dsml : said' = Append(said, d) /\ Len(said) < Len(Turns)
  PROVE  /\ Recs \subseteq Recs' /\ SaidIds \subseteq SaidIds' /\ Len(said) <= Len(said')
         /\ \A n \in 1..Len(said) : said'[n] = said[n]
<1>1. Len(said) \in Nat /\ DOMAIN said = 1..Len(said) /\ Len(said) <= Len(Turns)
  BY LenProperties DEF SaidI
<1>2. /\ DOMAIN said \subseteq DOMAIN said' /\ Len(said) <= Len(said')
      /\ \A n \in 1..Len(said) : said'[n] = said[n]
  <2>1. CASE said' = said
    BY <1>1, <2>1
  <2>2. CASE \E d \in Dsml : said' = Append(said, d)
    <3>1. PICK d \in Dsml : said' = Append(said, d)
      BY <2>2
    <3>2. /\ said' \in Seq(Dsml) /\ Len(said') = Len(said) + 1
          /\ \A n \in 1..Len(said) : said'[n] = said[n]
      BY <3>1, AppendProperties DEF SaidI
    <3>3. DOMAIN said' = 1..Len(said')
      BY <3>2, LenProperties
    <3> QED BY <1>1, <3>2, <3>3
  <2> QED BY <2>1, <2>2
<1>3. SaidIds \subseteq SaidIds'
  BY <1>2 DEF SaidIds
<1>4. ASSUME NEW id \in SaidIds PROVE Sampled(id)' = Sampled(id)
  <2>1. PICK n \in DOMAIN said : id \in ToSet(Turns[n])
    BY DEF SaidIds
  <2>2. n \in 1..Len(said) /\ n \in 1..Len(Turns)
    BY <1>1, <2>1, ConstantsAre
  <2>3. (CHOOSE k \in DOMAIN Turns : id \in ToSet(Turns[k])) = n
    BY <2>1, <2>2, OneTurn
  <2>4. Sampled(id) = said[n] /\ Sampled(id)' = said'[n]
    BY <2>3 DEF Sampled
  <2> QED BY <1>2, <2>2, <2>4
<1>5. Recs \subseteq Recs'
  BY <1>3, <1>4 DEF Recs
<1> QED BY <1>2, <1>3, <1>5

LEMMA FitsPut ==
  ASSUME NEW R, NEW m, Fits(m, R), NEW id \in Ids, NEW d \in Dsml, [id |-> id, dsml |-> d] \in R
  PROVE  Fits(Put(m, id, d), R)
<1> DEFINE r == Put(m, id, d)
<1>1. /\ Counted(r) /\ ~Over(r) /\ Known(r) \subseteq Known(m) \cup {id}
      /\ \A x \in Known(r) : r.dsml[x] = IF x = id THEN d ELSE m.dsml[x]
  BY PutCounted DEF Fits
<1> HIDE DEF r
<1>2. ASSUME NEW x \in Known(r) PROVE [id |-> x, dsml |-> r.dsml[x]] \in R
  <2>1. CASE x = id
    BY <1>1, <2>1
  <2>2. CASE x # id
    <3>1. x \in Known(m) /\ r.dsml[x] = m.dsml[x]
      BY <1>1, <2>2
    <3> QED BY <3>1 DEF Fits
  <2> QED BY <2>1, <2>2
<1>3. Fits(r, R)
  BY <1>1, <1>2 DEF Fits
<1> QED BY <1>3 DEF r

LEMMA FitsSame ==
  ASSUME NEW R, NEW m, Fits(m, R), NEW x \in SameBlocks(m)
  PROVE  Fits(x, R)
BY DEF Fits, SameBlocks, Known

LEMMA FlattenStays ==
  ASSUME NEW X, NEW seqs \in Seq(Seq(X))
  PROVE  FlattenSeq(seqs) \in Seq(X)
<1> DEFINE n == Len(seqs)
           G == Seq(X)
           g == [i \in 1..n |-> [x \in G |-> x \o seqs[i]]]
           step(f, i) == IF i = 1 THEN seqs[i] ELSE f[i - 1] \o seqs[i]
           Eq(f) == f = [i \in 1..n |-> step(f, i)]
           f0 == CHOOSE f : Eq(f)
<1>1. n \in Nat /\ \A i \in 1..n : seqs[i] \in G
  BY LenProperties, ElementOfSeq
<1>2. CASE n = 0
  <2>1. seqs = <<>>
    BY <1>2, EmptySeq
  <2> QED BY <1>2, <2>1, EmptySeq DEF FlattenSeq
<1>3. CASE n # 0
  <2>1. FlattenSeq(seqs) = f0[n]
    BY <1>3 DEF FlattenSeq
  <2>2. <<>> \in G /\ \A x \in G, y \in G : x \o y \in G
    BY EmptySeq, ConcatProperties
  <2> HIDE DEF G, n
  <2>3. g \in [1..n -> [G -> G]] /\ \A i \in 1..n : \A x \in G : g[i][x] = x \o seqs[i]
    BY <1>1, <2>2
  <2>4. \E f : Eq(f)
    <3> HIDE DEF g
    <3>1. PICK f \in [SUBSET (1..n) -> G] : Folds(f, n, <<>>, g)
      <4>1. n \in Nat /\ <<>> \in G /\ g \in [1..n -> [G -> G]]
        BY <1>1, <2>2, <2>3
      <4> QED BY <4>1, SomeFold
    <3> DEFINE h == [i \in 1..n |-> f[1..i]]
    <3>2. \A i \in 1..n : h[i] = f[1..(i - 1)] \o seqs[i] /\ f[1..(i - 1)] \in G
      <4> TAKE i \in 1..n
      <4>1. Top(1..i) = i /\ (1..i) \ {i} = 1..(i - 1)
        BY <1>1, TopIs
      <4>2. 1..i \in SUBSET (1..n) /\ 1..i # {} /\ 1..(i - 1) \in SUBSET (1..n)
        <5>1. i \in 1..i /\ (\A k \in 1..i : k \in 1..n) /\ \A k \in 1..(i - 1) : k \in 1..n
          BY <1>1
        <5> QED BY <5>1
      <4>3. f[1..i] = g[i][f[1..(i - 1)]]
        BY <3>1, <4>1, <4>2 DEF Folds
      <4> QED BY <2>3, <3>1, <4>2, <4>3
    <3>3. f[{}] = <<>>
      BY <3>1 DEF Folds
    <3>4. \A i \in 1..n : h[i] = step(h, i)
      <4> TAKE i \in 1..n
      <4>1. CASE i = 1
        <5>1. 1..(i - 1) = {}
          BY <4>1
        <5>2. <<>> \o seqs[i] = seqs[i]
          BY <1>1, ConcatEmptySeq DEF G
        <5> HIDE DEF h
        <5> QED BY <3>2, <3>3, <4>1, <5>1, <5>2
      <4>2. CASE i # 1
        <5>1. i - 1 \in 1..n
          BY <1>1, <4>2
        <5>2. h[i - 1] = f[1..(i - 1)]
          BY <5>1
        <5> HIDE DEF h
        <5> QED BY <3>2, <4>2, <5>2
      <4> QED BY <4>1, <4>2
    <3>5. h = [i \in 1..n |-> h[i]]
      OBVIOUS
    <3>6. Eq(h)
      <4> HIDE DEF step, h
      <4> QED BY <3>4, <3>5
    <3> QED BY <3>6
  <2>5. Eq(f0)
    <3> HIDE DEF Eq
    <3> QED BY <2>4
  <2> HIDE DEF f0
  <2>6. \A i \in 1..n : f0[i] = step(f0, i)
    <3> HIDE DEF step
    <3> QED BY <2>5
  <2> DEFINE N == {k \in Nat : k + 1 \in 1..n => f0[k + 1] \in G}
  <2>7. 0 \in N
    BY <1>1, <2>6
  <2>8. ASSUME NEW k \in Nat, k \in N PROVE k + 1 \in N
    <3> SUFFICES ASSUME (k + 1) + 1 \in 1..n PROVE f0[(k + 1) + 1] \in G
      OBVIOUS
    <3>1. k + 1 \in 1..n /\ (k + 1) + 1 # 1 /\ ((k + 1) + 1) - 1 = k + 1
      BY <1>1
    <3>2. f0[k + 1] \in G
      BY <2>8, <3>1
    <3>3. f0[(k + 1) + 1] = f0[k + 1] \o seqs[(k + 1) + 1]
      BY <2>6, <3>1
    <3> QED BY <1>1, <2>2, <3>2, <3>3
  <2>9. Nat \subseteq N
    <3> HIDE DEF N
    <3> QED BY <2>7, <2>8, EveryNumber
  <2>10. f0[n] \in G
    <3>1. n - 1 \in Nat /\ (n - 1) + 1 = n /\ n \in 1..n
      BY <1>1, <1>3
    <3> QED BY <2>9, <3>1
  <2> QED BY <2>1, <2>10 DEF G
<1> QED BY <1>2, <1>3

\* What is written for a file: records that may exist, with blocks of its text.
LEMMA MapForFits ==
  ASSUME SaidI, Fits(mem, Recs), NEW n \in 1..Len(said)
  PROVE  MapFor(n) \in Seq({r \in Recs : r.dsml \in ToSet(Text(n))})
<1> DEFINE X == {r \in Recs : r.dsml \in ToSet(Text(n))}
           text == Text(n)
           first == {i \in DOMAIN text :
                       text[i] \in DOMAIN mem.refs /\ \A j \in 1..(i - 1) : text[j] # text[i]}
           seqs == [i \in DOMAIN text |-> IF i \in first THEN Records(text[i]) ELSE <<>>]
<1>1. n \in 1..Len(Turns) /\ Len(said) \in Nat
  BY ConstantsAre, LenProperties DEF SaidI
<1>2. Len(Chain[n]) \in Nat /\ DOMAIN text = 1..Len(Chain[n])
  BY <1>1, ConstantsAre, LenProperties DEF Text
<1>3. ASSUME NEW i \in DOMAIN text, text[i] \in DOMAIN mem.refs
      PROVE  Records(text[i]) \in Seq(X)
  <2> DEFINE d == text[i]
             o == mem.owners[d]
  <2>1. Lists(o, Users(mem, d)) /\ d \in Dsml
    BY <1>3, CountedFacts DEF Fits, Counted
  <2>2. Len(o) \in Nat /\ DOMAIN o = 1..Len(o) /\ \A k \in 1..Len(o) : o[k] \in Users(mem, d)
    BY <2>1, ListedAt
  <2>3. d \in ToSet(text)
    BY DEF ToSet
  <2> HIDE DEF o, text, d
  <2>4. \A k \in 1..Len(o) : [id |-> o[k], dsml |-> d] \in X
    <3> TAKE k \in 1..Len(o)
    <3>1. o[k] \in Known(mem) /\ mem.dsml[o[k]] = d
      BY <2>2 DEF Users
    <3>2. [id |-> o[k], dsml |-> d] \in Recs
      BY <3>1 DEF Fits
    <3> QED BY <2>3, <3>2 DEF text
  <2>5. Records(d) = [k \in 1..Len(o) |-> [id |-> o[k], dsml |-> d]]
    BY <2>2 DEF Records, o
  <2> HIDE DEF X
  <2>6. Records(d) \in Seq(X)
    BY <2>2, <2>4, <2>5, IsASeq
  <2> QED BY <2>6 DEF d
<1> HIDE DEF text, X
<1>4. seqs \in Seq(Seq(X))
  <2>1. \A i \in 1..Len(Chain[n]) :
          (IF i \in first THEN Records(text[i]) ELSE <<>>) \in Seq(X)
    <3> TAKE i \in 1..Len(Chain[n])
    <3>1. CASE i \in first
      BY <1>2, <1>3, <3>1
    <3>2. CASE i \notin first
      BY <3>2, EmptySeq
    <3> QED BY <3>1, <3>2
  <2> HIDE DEF first
  <2>2. seqs = [i \in 1..Len(Chain[n]) |-> IF i \in first THEN Records(text[i]) ELSE <<>>]
    BY <1>2
  <2> DEFINE e(i) == IF i \in first THEN Records(text[i]) ELSE <<>>
  <2>3. [i \in 1..Len(Chain[n]) |-> e(i)] \in Seq(Seq(X))
    <3>1. \A i \in 1..Len(Chain[n]) : e(i) \in Seq(X)
      BY <2>1
    <3> HIDE DEF e
    <3> QED BY <1>2, <3>1, IsASeq
  <2> QED BY <2>2, <2>3
<1>5. MapFor(n) = FlattenSeq(seqs)
  BY DEF MapFor, text
<1> HIDE DEF seqs
<1>6. FlattenSeq(seqs) \in Seq(X)
  BY <1>4, FlattenStays
<1> QED BY <1>5, <1>6 DEF X

\* The text of a turn is what it was.
LEMMA TextStays ==
  ASSUME SaidI, NEW n \in 1..Len(said), \A i \in 1..Len(said) : said'[i] = said[i]
  PROVE  Text(n)' = Text(n)
<1>1. n \in 1..Len(Turns) /\ Len(said) \in Nat
  BY ConstantsAre, LenProperties DEF SaidI
<1>2. DOMAIN Chain[n] = 1..Len(Chain[n])
      /\ \A i \in 1..Len(Chain[n]) : Chain[n][i] \in 1..Len(said)
  <2>1. Chain[n] \in Seq(1..n)
    BY <1>1, ConstantsAre
  <2> QED BY <1>1, <2>1, ElementOfSeq, LenProperties
<1> QED BY <1>2 DEF Text

\* What is read from an open map is a record.
LEMMA ReadsRecord ==
  ASSUME NEW R, NEW F, NEW I, NEW r, ReaderFits(r, R, F, I), r.pc \in {"read", "rest"}, ~Ends(r)
  PROVE  r.map[r.pos] \in R
<1>1. r.map \in Seq(R) /\ r.pos \in Nat /\ r.count \in Nat /\ r.pos >= 1
  BY DEF ReaderFits, Readers
<1>2. Len(r.map) \in Nat /\ r.pos \in 1..Len(r.map)
  BY <1>1, LenProperties DEF Ends
<1> QED BY <1>1, <1>2, ElementOfSeq

LEMMA ReaderGrows ==
  ASSUME NEW R, NEW S, R \subseteq S, NEW I, NEW J, I \subseteq J, NEW F, NEW r,
         ReaderFits(r, R, F, I)
  PROVE  ReaderFits(r, S, F, J)
<1>1. r.map \in Seq(S)
  BY SeqMonotonic DEF ReaderFits, Readers
<1>2. r \in Readers(S)
  BY <1>1 DEF ReaderFits, Readers
<1> QED BY <1>2 DEF ReaderFits

-----------------------------------------------------------------------------
(* The invariant is kept.                                                  *)

LEMMA Initially == Init => IInv
<1> SUFFICES ASSUME Init PROVE IInv
  OBVIOUS
<1>1. SaidI
  <2>1. said = <<>> /\ live = 0 /\ torn = FALSE /\ Len(<<>>) = 0 /\ <<>> \in Seq(Dsml)
    BY EmptySeq, NothingListed DEF Init
  <2>2. Len(Turns) \in Nat
    BY ConstantsAre
  <2>3. torn \in BOOLEAN
    BY <2>1
  <2>4. said \in Seq(Dsml) /\ Len(said) <= Len(Turns) /\ live \in 0..Len(said)
    BY <2>1, <2>2
  <2> QED BY <2>3, <2>4 DEF SaidI
<1>2. Fits(mem, Recs)
  <2>1. Over(Empty) = FALSE
    BY EmptyCounted, ToolMemoryAssumption DEF Over, Empty
  <2> QED BY <2>1, EmptyCounted DEF Init, Fits
<1>3. FilesI
  <2>1. files = [n \in 1..Len(Turns) |-> NoFile]
    BY ConstantsAre DEF Init
  <2> QED BY <2>1, EmptySeq DEF FilesI, NoFile
<1>4. WorkerI
  BY ConstantsAre DEF Init, WorkerI, IdleWorker
<1>5. ReaderI
  <2>1. IdleReader \in Readers(Recs) /\ ReaderFits(IdleReader, Recs, files, SaidIds)
    BY EmptySeq, ConstantsAre DEF IdleReader, Readers, ReaderFits
  <2>2. reader = [t \in Thread |-> IdleReader]
    BY DEF Init
  <2>3. IdleReader.pc = "idle"
    BY DEF IdleReader
  <2> HIDE DEF IdleReader
  <2> QED BY <2>1, <2>2, <2>3, ConstantsAre DEF ReaderI
<1>6. RawI
  BY DEF Init, RawI
<1> QED BY <1>1, <1>2, <1>3, <1>4, <1>5, <1>6 DEF IInv

\* What a step leaves alone stays right while the turns and the records grow.
LEMMA Stays ==
  ASSUME IInv, Recs \subseteq Recs', SaidIds \subseteq SaidIds', Len(said) <= Len(said'),
         \A n \in 1..Len(said) : said'[n] = said[n], SaidI'
  PROVE  /\ mem' = mem => Fits(mem, Recs)'
         /\ files' = files => FilesI'
         /\ files' = files /\ worker' = worker => WorkerI'
         /\ files' = files /\ reader' = reader /\ (worker'.pc = worker.pc \/ reader[Worker].pc = "idle")
              => ReaderI'
         /\ raw' = raw => RawI'
<1>1. mem' = mem => Fits(mem, Recs)'
  BY DEF IInv, Fits
<1>2. files' = files => FilesI'
  <2> SUFFICES ASSUME files' = files PROVE FilesI'
    OBVIOUS
  <2>1. FilesI /\ SaidI /\ Len(said) \in Nat /\ Len(said') \in Nat
    BY LenProperties DEF IInv, SaidI
  <2>2. Seq(Recs) \subseteq Seq(Recs')
    BY SeqMonotonic
  <2>3. files \in [1..Len(Turns) -> [there: BOOLEAN, flag: BOOLEAN, map: Seq(Recs')]]
    BY <2>1, <2>2 DEF FilesI
  <2>4. ASSUME NEW n \in 1..Len(Turns) PROVE
          /\ files[n].there => n <= Len(said')
          /\ ~files[n].there => files[n] = NoFile
          /\ \A i \in 1..Len(files[n].map) : files[n].map[i].dsml \in ToSet(Text(n)')
    <3>1. CASE ~files[n].there
      <4>1. Len(files[n].map) = 0
        BY <2>1, <3>1, EmptySeq DEF FilesI, NoFile
      <4> QED BY <2>1, <3>1, <4>1 DEF FilesI
    <3>2. CASE files[n].there
      <4>1. n \in 1..Len(said) /\ n <= Len(said')
        BY <2>1, <3>2 DEF FilesI
      <4>2. Text(n)' = Text(n)
        BY <2>1, <4>1, TextStays
      <4> QED BY <2>1, <3>2, <4>1, <4>2 DEF FilesI
    <3> QED BY <3>1, <3>2
  <2>5. \A n \in 1..Len(Turns) : ToSet(Text(n)) ' = ToSet(Text(n)')
    BY DEF ToSet
  <2> QED BY <2>3, <2>4, <2>5 DEF FilesI
<1>3. files' = files /\ worker' = worker => WorkerI'
  <2>1. Len(said) \in Nat /\ Len(said') \in Nat
    BY LenProperties DEF IInv, SaidI
  <2> QED BY <2>1 DEF IInv, WorkerI
<1>4. files' = files /\ reader' = reader /\ (worker'.pc = worker.pc \/ reader[Worker].pc = "idle")
        => ReaderI'
  <2> SUFFICES ASSUME files' = files, reader' = reader,
                      worker'.pc = worker.pc \/ reader[Worker].pc = "idle"
               PROVE  ReaderI'
    OBVIOUS
  <2>1. ReaderI
    BY DEF IInv
  <2>2. \A t \in Thread : ReaderFits(reader[t], Recs', files, SaidIds')
    BY <2>1, ReaderGrows DEF ReaderI
  <2>3. \A t \in Thread : reader[t] \in Readers(Recs')
    BY <2>2 DEF ReaderFits
  <2>4. reader \in [Thread -> Readers(Recs')]
    BY <2>1, <2>3 DEF ReaderI
  <2> QED BY <2>1, <2>2, <2>4 DEF ReaderI
<1>5. raw' = raw => RawI'
  BY DEF IInv, RawI
<1> QED BY <1>1, <1>2, <1>3, <1>4, <1>5

\* A step that moves one thread.
LEMMA OneReader ==
  ASSUME ReaderI, Recs \subseteq Recs', SaidIds \subseteq SaidIds', files' = files,
         NEW t \in Thread, NEW r, ReaderFits(r, Recs', files, SaidIds'),
         reader' = [reader EXCEPT ![t] = r],
         t = Worker /\ r.pc # "idle" => worker'.pc = "load",
         t # Worker => worker' = worker
  PROVE  ReaderI'
<1>1. ASSUME NEW u \in Thread PROVE ReaderFits(reader'[u], Recs', files, SaidIds')
  <2>1. CASE u = t
    BY <2>1 DEF ReaderI
  <2>2. CASE u # t
    <3>1. reader'[u] = reader[u]
      BY <2>2 DEF ReaderI
    <3> QED BY <3>1, ReaderGrows DEF ReaderI
  <2> QED BY <2>1, <2>2
<1>2. reader' \in [Thread -> Readers(Recs')]
  <2>1. \A u \in Thread : reader'[u] \in Readers(Recs')
    BY <1>1 DEF ReaderFits
  <2>2. DOMAIN reader' = Thread /\ reader' = [u \in Thread |-> reader'[u]]
    BY DEF ReaderI
  <2> QED BY <2>1, <2>2
<1>3. reader'[Worker].pc # "idle" => worker'.pc = "load"
  <2>1. CASE t = Worker
    BY <2>1 DEF ReaderI
  <2>2. CASE t # Worker
    BY <2>2, ConstantsAre DEF ReaderI
  <2> QED BY <2>1, <2>2
<1> QED BY <1>1, <1>2, <1>3 DEF ReaderI

\* Nothing is said or torn: the records are what they were.
LEMMA SaysNothing ==
  ASSUME IInv, said' = said, torn' = torn \/ (torn' \in BOOLEAN /\ (torn => torn')),
         live' \in 0..Len(said)
  PROVE  /\ Recs \subseteq Recs' /\ SaidIds \subseteq SaidIds' /\ Len(said) <= Len(said')
         /\ \A n \in 1..Len(said) : said'[n] = said[n]
         /\ SaidI'
<1>1. SaidI /\ Len(said) \in Nat
  BY LenProperties DEF IInv, SaidI
<1>2. SaidI'
  BY <1>1 DEF SaidI
<1> QED BY <1>1, <1>2, RecsGrow

LEMMA NewRecord ==
  ASSUME NEW n \in 1..Len(Turns), NEW id \in ToSet(Turns[n]), id \in SaidIds',
         NEW d \in Dsml, said'[n] = d
  PROVE  [id |-> id, dsml |-> d] \in Recs'
<1>1. (CHOOSE k \in DOMAIN Turns : id \in ToSet(Turns[k])) = n
  BY OneTurn
<1>2. Sampled(id)' = d
  BY <1>1 DEF Sampled
<1> DEFINE r == [id |-> id, dsml |-> d]
<1>3. r \in [id: SaidIds', dsml: Dsml] /\ r.id = id /\ r.dsml = d
  OBVIOUS
<1> HIDE DEF r
<1>4. r \in Recs'
  BY <1>2, <1>3 DEF Recs
<1> QED BY <1>4 DEF r

LEMMA KeptByRemember ==
  ASSUME IInv, Remember
  PROVE  IInv'
<1> DEFINE n == Len(said) + 1
           ids == Turns[n]
<1>1. SaidI /\ Len(said) \in Nat /\ n \in 1..Len(Turns)
  <2>1. SaidI /\ Len(said) \in Nat
    BY LenProperties DEF IInv, SaidI
  <2>2. Len(said) < Len(Turns) /\ Len(Turns) \in Nat
    BY ConstantsAre DEF Remember
  <2> QED BY <2>1, <2>2
<1>2. PICK d \in Dsml : /\ said' = Append(said, d)
                        /\ mem' = PutAll(mem, ids, d)
  BY DEF Remember
<1>3. /\ said' \in Seq(Dsml) /\ Len(said') = n /\ said'[n] = d /\ DOMAIN said' = 1..n
      /\ live' = n /\ torn' = torn
  <2>1. said' \in Seq(Dsml) /\ Len(said') = n /\ said'[n] = d
    BY <1>1, <1>2, AppendProperties DEF SaidI
  <2> QED BY <2>1, LenProperties DEF Remember
<1>4. SaidI'
  BY <1>1, <1>3, ConstantsAre DEF SaidI
<1>5. /\ Recs \subseteq Recs' /\ SaidIds \subseteq SaidIds' /\ Len(said) <= Len(said')
      /\ \A i \in 1..Len(said) : said'[i] = said[i]
  <2>1. Len(said) < Len(Turns)
    BY DEF Remember
  <2>2. torn => torn'
    BY DEF Remember
  <2> QED BY <1>1, <1>2, <2>1, <2>2, RecsGrow
<1>6. /\ ids \in Seq(Ids) /\ Len(ids) \in Nat
      /\ \A i \in 1..Len(ids) : ids[i] \in Ids /\ [id |-> ids[i], dsml |-> d] \in Recs'
  <2>1. ids \in Seq(Ids) /\ Len(ids) \in Nat
    BY <1>1, ConstantsAre, LenProperties
  <2> HIDE DEF n
  <2>2. ASSUME NEW i \in 1..Len(ids)
        PROVE  ids[i] \in Ids /\ [id |-> ids[i], dsml |-> d] \in Recs'
    <3>1. ids[i] \in ToSet(Turns[n]) /\ ids[i] \in Ids
      BY <1>1, TurnIds
    <3>2. ids[i] \in SaidIds'
      BY <1>1, <1>3, <3>1 DEF SaidIds, n
    <3> QED BY <1>1, <1>3, <3>1, <3>2, NewRecord
  <2> QED BY <2>1, <2>2
<1> HIDE DEF ids, n
<1>7. Fits(mem', Recs')
  <2>1. Counted(mem) /\ ~Over(mem) /\ Fits(mem, Recs')
    BY <1>5 DEF IInv, Fits
  <2>2. PICK h : InTurn(h, mem, ids, d)
    <3>1. ids \in Seq(Ids) /\ d \in Dsml
      BY <1>6
    <3> QED BY <2>1, <3>1, PutsInOrder
  <2> DEFINE N == {k \in Nat : k <= Len(ids) => Fits(h[k], Recs')}
  <2>3. 0 \in N
    BY <2>1, <2>2 DEF InTurn
  <2>4. ASSUME NEW k \in Nat, k \in N PROVE k + 1 \in N
    <3> SUFFICES ASSUME k + 1 <= Len(ids) PROVE Fits(h[k + 1], Recs')
      OBVIOUS
    <3>1. k + 1 \in 1..Len(ids) /\ (k + 1) - 1 = k /\ Fits(h[k], Recs')
      BY <1>6, <2>4
    <3>2. h[k + 1] = Put(h[k], ids[k + 1], d)
      BY <2>2, <3>1 DEF InTurn
    <3>3. Fits(Put(h[k], ids[k + 1], d), Recs')
      BY <1>6, <3>1, FitsPut
    <3> QED BY <3>2, <3>3
  <2>5. Nat \subseteq N
    <3> HIDE DEF N
    <3> QED BY <2>3, <2>4, EveryNumber
  <2>6. Fits(h[Len(ids)], Recs')
    BY <1>6, <2>5
  <2> QED BY <1>2, <2>2, <2>6 DEF InTurn
<1>8. FilesI' /\ WorkerI' /\ ReaderI' /\ RawI'
  BY <1>4, <1>5, Stays DEF Remember
<1> QED BY <1>4, <1>7, <1>8 DEF IInv

\* Nothing is said, live or torn.
LEMMA SameRecords ==
  ASSUME said' = said, torn' = torn
  PROVE  Recs' = Recs /\ SaidIds' = SaidIds /\ \A n : Text(n)' = Text(n)
<1>1. SaidIds' = SaidIds /\ (\A n : Text(n)' = Text(n)) /\ \A id : Sampled(id)' = Sampled(id)
  BY DEF SaidIds, Text, Sampled
<1> QED BY <1>1 DEF Recs

LEMMA KeptByPrefill ==
  ASSUME IInv, NEW p \in Parser, NEW n \in DOMAIN files, Prefill(p, n)
  PROVE  IInv'
<1>1. said' = said /\ torn' = torn /\ live' = n /\ n \in DOMAIN said
  BY DEF Prefill, Renders
<1>2. live' \in 0..Len(said)
  BY <1>1, LenProperties DEF IInv, SaidI
<1>3. /\ Recs \subseteq Recs' /\ SaidIds \subseteq SaidIds' /\ Len(said) <= Len(said')
      /\ (\A i \in 1..Len(said) : said'[i] = said[i]) /\ SaidI'
  BY <1>1, <1>2, SaysNothing
<1>4. Fits(mem, Recs)' /\ FilesI' /\ WorkerI' /\ ReaderI' /\ RawI'
  BY <1>3, Stays DEF Prefill
<1> QED BY <1>3, <1>4 DEF IInv

\* A worker that does not load has nothing open.
LEMMA NotLoading == ASSUME IInv, worker.pc # "load" PROVE reader[Worker].pc = "idle"
BY DEF IInv, ReaderI

LEMMA KeptByStore ==
  ASSUME IInv, Store
  PROVE  IInv'
<1>1. /\ said' = said /\ torn' = torn /\ live' = live /\ live \in 1..Len(said)
      /\ Len(said) \in Nat /\ live \in 1..Len(Turns) /\ Len(Turns) \in Nat
  <2>1. SaidI /\ Len(said) \in Nat /\ Len(Turns) \in Nat
    BY ConstantsAre, LenProperties DEF IInv, SaidI
  <2> QED BY <2>1 DEF Store, SaidI
<1>2. /\ Recs \subseteq Recs' /\ SaidIds \subseteq SaidIds' /\ Len(said) <= Len(said')
      /\ (\A i \in 1..Len(said) : said'[i] = said[i]) /\ SaidI'
  <2>1. live' \in 0..Len(said)
    BY <1>1
  <2> QED BY <1>1, <2>1, SaysNothing
<1>3. Fits(mem, Recs)' /\ FilesI' /\ ReaderI' /\ RawI'
  <2>1. reader[Worker].pc = "idle"
    BY NotLoading DEF Store, WorkerFree
  <2> QED BY <1>2, <2>1, Stays DEF Store
<1>4. WorkerI'
  <2>1. CountsAny(live) \in BOOLEAN
    BY DEF CountsAny
  <2>2. worker' = [pc |-> IF files[live].there THEN "truncate" ELSE "create",
                   n |-> live, flag |-> CountsAny(live)]
    BY DEF Store
  <2>3. worker'.n = live /\ worker'.pc = IF files[live].there THEN "truncate" ELSE "create"
    BY <2>2
  <2>4. worker' \in [pc: {"idle", "truncate", "map", "flag", "create", "load"},
                     n: 0..Len(Turns), flag: BOOLEAN]
    BY <1>1, <2>1, <2>2
  <2>5. files' = files
    BY DEF Store
  <2> QED BY <1>1, <2>3, <2>4, <2>5 DEF WorkerI
<1> QED BY <1>2, <1>3, <1>4 DEF IInv

\* The map of a file is replaced under the eyes of those who have it open.
LEMMA Rewrites ==
  ASSUME IInv, NEW n \in 1..Len(said), files[n].there,
         NEW map \in Seq({r \in Recs : r.dsml \in ToSet(Text(n))}),
         files' = [files EXCEPT ![n].map = map], SeenRewritten(n, map),
         said' = said, torn' = torn, worker.pc # "load"
  PROVE  FilesI' /\ ReaderI'
<1>1. /\ SaidI /\ FilesI /\ ReaderI /\ Len(said) \in Nat /\ Len(Turns) \in Nat
      /\ n \in 1..Len(Turns)
  BY ConstantsAre, LenProperties DEF IInv, SaidI
<1>2. Recs' = Recs /\ SaidIds' = SaidIds /\ \A k : Text(k)' = Text(k)
  BY SameRecords
<1>3. /\ map \in Seq(Recs) /\ Len(map) \in Nat
      /\ \A i \in 1..Len(map) : map[i].dsml \in ToSet(Text(n))
  <2>1. \A i \in 1..Len(map) : map[i] \in {r \in Recs : r.dsml \in ToSet(Text(n))}
    BY ElementOfSeq
  <2> QED BY <2>1, SeqMonotonic, LenProperties
<1>4. /\ files' \in [1..Len(Turns) -> [there: BOOLEAN, flag: BOOLEAN, map: Seq(Recs)]]
      /\ files'[n].map = map /\ files'[n].there
      /\ \A k \in 1..Len(Turns) : k # n => files'[k] = files[k]
  BY <1>1, <1>3 DEF FilesI
<1>5. FilesI'
  <2>1. ASSUME NEW k \in 1..Len(Turns) PROVE
          /\ files'[k].there => k <= Len(said)
          /\ ~files'[k].there => files'[k] = NoFile
          /\ \A i \in 1..Len(files'[k].map) : files'[k].map[i].dsml \in ToSet(Text(k))
    <3>1. CASE k = n
      BY <1>1, <1>3, <1>4, <3>1
    <3>2. CASE k # n
      BY <1>1, <1>4, <3>2 DEF FilesI
    <3> QED BY <3>1, <3>2
  <2>2. \A k \in 1..Len(Turns) : ToSet(Text(k))' = ToSet(Text(k))
    BY <1>2 DEF ToSet
  <2> QED BY <1>2, <1>4, <2>1, <2>2 DEF FilesI
<1>6. ASSUME NEW t \in Thread PROVE ReaderFits(reader'[t], Recs, files', SaidIds)
  <2>1. ReaderFits(reader[t], Recs, files, SaidIds)
    BY <1>1 DEF ReaderI
  <2>2. CASE t \in Reading(n)
    <3> DEFINE r == reader[t]
    <3>1. reader'[t] = [r EXCEPT !.map = map]
      BY <2>2 DEF SeenRewritten
    <3>2. r.file = n /\ r.linked
      BY <2>2 DEF Reading
    <3> HIDE DEF r
    <3>3. /\ r \in Readers(Recs) /\ (r.pc \in {"read", "rest"} => r.pos >= 1)
          /\ (r.file # 0 <=> r.pc \in {"read", "rest"}) /\ (r.pc = "rest" => r.id \in SaidIds)
      BY <2>1 DEF ReaderFits, r
    <3>4. reader'[t] \in Readers(Recs)
      BY <1>3, <3>1, <3>3 DEF Readers
    <3>5. /\ reader'[t].map = map /\ reader'[t].pc = r.pc /\ reader'[t].pos = r.pos
          /\ reader'[t].file = r.file /\ reader'[t].linked = r.linked /\ reader'[t].id = r.id
      BY <3>1, <3>3 DEF Readers
    <3> QED BY <1>1, <1>4, <3>2, <3>3, <3>4, <3>5 DEF ReaderFits
  <2>3. CASE t \notin Reading(n)
    <3>1. reader'[t] = reader[t]
      BY <2>3 DEF SeenRewritten
    <3>2. reader[t].linked => reader[t].file # n /\ reader[t].file \in 1..Len(Turns)
      BY <2>1, <2>3 DEF Reading, ReaderFits, Readers
    <3> QED BY <1>4, <2>1, <3>1, <3>2 DEF ReaderFits
  <2> QED BY <2>2, <2>3
<1>7. ReaderI'
  <2>1. reader' \in [Thread -> Readers(Recs)]
    <3>1. \A t \in Thread : reader'[t] \in Readers(Recs)
      BY <1>6 DEF ReaderFits
    <3>2. DOMAIN reader' = Thread /\ reader' = [t \in Thread |-> reader'[t]]
      BY DEF SeenRewritten
    <3> QED BY <3>1, <3>2
  <2>2. reader'[Worker].pc = "idle"
    <3>1. reader[Worker].pc = "idle" /\ Worker \in Thread
      BY NotLoading, ConstantsAre
    <3>2. reader[Worker] \in Readers(Recs)
      BY <1>1, <3>1 DEF ReaderI
    <3> QED BY <3>1, <3>2 DEF SeenRewritten, Readers
  <2> QED BY <1>2, <1>6, <2>1, <2>2 DEF ReaderI
<1> QED BY <1>5, <1>7

LEMMA KeptByTruncate ==
  ASSUME IInv, Truncate
  PROVE  IInv'
<1> DEFINE n == worker.n
<1>1. /\ said' = said /\ torn' = torn /\ n \in 1..Len(said) /\ files[n].there /\ worker.pc # "load"
      /\ WorkerI /\ SaidI
  BY DEF Truncate, IInv, WorkerI
<1>2. /\ Recs \subseteq Recs' /\ SaidIds \subseteq SaidIds' /\ Len(said) <= Len(said')
      /\ (\A i \in 1..Len(said) : said'[i] = said[i]) /\ SaidI'
  BY <1>1, SaysNothing DEF Truncate, SaidI
<1>3. FilesI' /\ ReaderI'
  <2>1. <<>> \in Seq({r \in Recs : r.dsml \in ToSet(Text(n))})
    BY EmptySeq
  <2>2. files' = [files EXCEPT ![n].map = <<>>] /\ SeenRewritten(n, <<>>)
    BY DEF Truncate
  <2> HIDE DEF n
  <2> QED BY <1>1, <2>1, <2>2, Rewrites
<1>4. Fits(mem, Recs)' /\ RawI'
  BY <1>2, Stays DEF Truncate
<1>5. WorkerI'
  <2>1. files'[n].there = files[n].there
    BY <1>1 DEF IInv, FilesI, Truncate
  <2>2. worker' = [worker EXCEPT !.pc = "map"] /\ said' = said
    BY DEF Truncate
  <2>3. worker'.n = n /\ worker'.pc = "map"
    BY <1>1, <2>2 DEF WorkerI
  <2>4. worker' \in [pc: {"idle", "truncate", "map", "flag", "create", "load"},
                     n: 0..Len(Turns), flag: BOOLEAN]
    BY <1>1, <2>2 DEF WorkerI
  <2> HIDE DEF n
  <2> QED BY <1>1, <2>1, <2>2, <2>3, <2>4 DEF WorkerI
<1> QED BY <1>2, <1>3, <1>4, <1>5 DEF IInv

LEMMA CutShort ==
  ASSUME NEW X, NEW s \in Seq(X), NEW k \in 0..Len(s)
  PROVE  SubSeq(s, 1, k) \in Seq(X)
<1>1. Len(s) \in Nat /\ \A i \in 1..Len(s) : s[i] \in X
  BY LenProperties, ElementOfSeq
<1>2. \A i \in 1..k : s[i] \in X
  BY <1>1
<1> QED BY <1>1, <1>2, SubSeqProperties

LEMMA KeptByWriteMap ==
  ASSUME IInv, WriteMap
  PROVE  IInv'
<1> DEFINE n == worker.n
           all == MapFor(n)
<1>1. /\ said' = said /\ torn' = torn /\ n \in 1..Len(said) /\ files[n].there /\ worker.pc # "load"
      /\ WorkerI /\ SaidI
  BY DEF WriteMap, IInv, WorkerI
<1>2. /\ Recs \subseteq Recs' /\ SaidIds \subseteq SaidIds' /\ Len(said) <= Len(said')
      /\ (\A i \in 1..Len(said) : said'[i] = said[i]) /\ SaidI'
  BY <1>1, SaysNothing DEF WriteMap, SaidI
<1>3. PICK k \in 0..Len(all) :
        /\ files' = [files EXCEPT ![n].map = SubSeq(all, 1, k)]
        /\ SeenRewritten(n, SubSeq(all, 1, k))
        /\ worker' = IF all = <<>> \/ k < Len(all) THEN IdleWorker
                     ELSE [worker EXCEPT !.pc = "flag"]
  BY DEF WriteMap
<1>4. FilesI' /\ ReaderI'
  <2>1. all \in Seq({r \in Recs : r.dsml \in ToSet(Text(n))})
    BY <1>1, MapForFits DEF IInv
  <2> HIDE DEF all, n
  <2>2. SubSeq(all, 1, k) \in Seq({r \in Recs : r.dsml \in ToSet(Text(n))})
    BY <2>1, CutShort
  <2> QED BY <1>1, <1>3, <2>2, Rewrites
<1>5. Fits(mem, Recs)' /\ RawI'
  BY <1>2, Stays DEF WriteMap
<1>6. WorkerI'
  <2>1. files'[n].there = files[n].there
    BY <1>1, <1>3 DEF IInv, FilesI
  <2>2. CASE worker' = IdleWorker
    BY <2>2, ConstantsAre DEF WorkerI, IdleWorker
  <2>3. CASE worker' = [worker EXCEPT !.pc = "flag"]
    <3>1. worker'.n = n /\ worker'.pc = "flag"
      BY <1>1, <2>3 DEF WorkerI
    <3>2. worker' \in [pc: {"idle", "truncate", "map", "flag", "create", "load"},
                       n: 0..Len(Turns), flag: BOOLEAN]
      BY <1>1, <2>3 DEF WorkerI
    <3> HIDE DEF n
    <3> QED BY <1>1, <2>1, <3>1, <3>2 DEF WorkerI
  <2> QED BY <1>3, <2>2, <2>3
<1> QED BY <1>2, <1>4, <1>5, <1>6 DEF IInv

LEMMA KeptByWriteFlag ==
  ASSUME IInv, WriteFlag
  PROVE  IInv'
<1> DEFINE n == worker.n
<1>1. /\ said' = said /\ torn' = torn /\ n \in 1..Len(said) /\ files[n].there /\ worker.pc # "load"
      /\ SaidI /\ FilesI /\ ReaderI /\ Len(said) \in Nat /\ Len(Turns) \in Nat /\ n \in 1..Len(Turns)
  <2>1. Len(said) \in Nat /\ Len(Turns) \in Nat /\ SaidI /\ FilesI /\ ReaderI /\ WorkerI
    BY ConstantsAre, LenProperties DEF IInv, SaidI
  <2> QED BY <2>1 DEF WriteFlag, WorkerI, SaidI
<1>2. /\ Recs \subseteq Recs' /\ SaidIds \subseteq SaidIds' /\ Len(said) <= Len(said')
      /\ (\A i \in 1..Len(said) : said'[i] = said[i]) /\ SaidI'
  BY <1>1, SaysNothing DEF WriteFlag, SaidI
<1>3. Fits(mem, Recs)' /\ RawI'
  BY <1>2, Stays DEF WriteFlag
<1>4. /\ files' \in [1..Len(Turns) -> [there: BOOLEAN, flag: BOOLEAN, map: Seq(Recs)]]
      /\ \A k \in 1..Len(Turns) : files'[k].there = files[k].there /\ files'[k].map = files[k].map
      /\ \A k \in 1..Len(Turns) : k # n => files'[k] = files[k]
  BY <1>1 DEF FilesI, WriteFlag
<1>5. Recs' = Recs /\ SaidIds' = SaidIds /\ \A k : Text(k)' = Text(k)
  BY <1>1, SameRecords
<1>6. FilesI'
  <2>1. \A k \in 1..Len(Turns) : ToSet(Text(k))' = ToSet(Text(k))
    BY <1>5 DEF ToSet
  <2>2. \A k \in 1..Len(Turns) : ~files'[k].there => files'[k] = NoFile
    <3> TAKE k \in 1..Len(Turns)
    <3>1. CASE k = n
      BY <1>1, <1>4, <3>1
    <3>2. CASE k # n
      BY <1>1, <1>4, <3>2 DEF FilesI
    <3> QED BY <3>1, <3>2
  <2>3. \A k \in 1..Len(Turns) :
          /\ files'[k].there => k <= Len(said)
          /\ \A i \in 1..Len(files'[k].map) : files'[k].map[i].dsml \in ToSet(Text(k))
    BY <1>1, <1>4 DEF FilesI
  <2> QED BY <1>1, <1>4, <1>5, <2>1, <2>2, <2>3 DEF FilesI
<1>7. WorkerI'
  BY ConstantsAre DEF WriteFlag, IdleWorker, WorkerI
<1>8. ReaderI'
  <2>1. reader' = reader /\ reader[Worker].pc = "idle"
    BY <1>1, NotLoading DEF WriteFlag
  <2>2. ASSUME NEW t \in Thread PROVE ReaderFits(reader[t], Recs, files', SaidIds)
    <3>1. ReaderFits(reader[t], Recs, files, SaidIds)
      BY <1>1 DEF ReaderI
    <3>2. reader[t].linked => reader[t].file \in 1..Len(Turns)
      BY <1>1, <3>1 DEF ReaderFits, Readers
    <3> QED BY <1>4, <3>1, <3>2 DEF ReaderFits
  <2> QED BY <1>1, <1>5, <2>1, <2>2 DEF ReaderI
<1> QED BY <1>2, <1>3, <1>6, <1>7, <1>8 DEF IInv

\* Whoever reads a file that is replaced or removed keeps what it has open.
LEMMA Unlinks ==
  ASSUME ReaderI, NEW ns, NEW F,
         \A n \in (1..Len(Turns)) \ ns :
            files[n].there => F[n].there /\ F[n].map = files[n].map
  PROVE  /\ \A t \in Thread : ReaderFits(Unlinked(ns)[t], Recs, F, SaidIds)
                              /\ Unlinked(ns)[t].pc = reader[t].pc
         /\ Unlinked(ns) = [t \in Thread |-> Unlinked(ns)[t]]
<1>1. Unlinked(ns) = [t \in Thread |-> Unlinked(ns)[t]]
  BY DEF Unlinked
<1>2. ASSUME NEW t \in Thread
      PROVE  ReaderFits(Unlinked(ns)[t], Recs, F, SaidIds) /\ Unlinked(ns)[t].pc = reader[t].pc
  <2> DEFINE r == reader[t]
             q == Unlinked(ns)[t]
  <2>1. ReaderFits(r, Recs, files, SaidIds) /\ r \in Readers(Recs) /\ Len(Turns) \in Nat
    BY ConstantsAre DEF ReaderI
  <2>2. q = IF r.file \in ns THEN [r EXCEPT !.linked = FALSE] ELSE r
    BY DEF Unlinked
  <2> HIDE DEF r, q
  <2>3. CASE r.file \in ns
    <3>1. /\ q \in Readers(Recs) /\ q.linked = FALSE /\ q.pc = r.pc /\ q.file = r.file
          /\ q.pos = r.pos /\ q.id = r.id
      BY <2>1, <2>2, <2>3 DEF Readers
    <3> QED BY <2>1, <3>1 DEF ReaderFits, r, q
  <2>4. CASE r.file \notin ns
    <3>1. q = r
      BY <2>2, <2>4
    <3>2. r.linked => r.file \in (1..Len(Turns)) \ ns /\ files[r.file].there
      BY <2>1, <2>4 DEF ReaderFits, Readers
    <3>3. ReaderFits(r, Recs, F, SaidIds)
      BY <2>1, <3>2 DEF ReaderFits
    <3> QED BY <3>1, <3>3 DEF r, q
  <2> QED BY <2>3, <2>4
<1> QED BY <1>1, <1>2

LEMMA KeptByCreate ==
  ASSUME IInv, Create
  PROVE  IInv'
<1> DEFINE n == worker.n
           added == [there |-> TRUE, flag |-> worker.flag, map |-> MapFor(n)]
           new == [files EXCEPT ![n] = added]
<1>1. /\ said' = said /\ torn' = torn /\ n \in 1..Len(said) /\ ~files[n].there
      /\ worker.pc # "load" /\ SaidI /\ FilesI /\ ReaderI /\ worker.flag \in BOOLEAN
      /\ Len(said) \in Nat /\ Len(Turns) \in Nat /\ n \in 1..Len(Turns)
  <2>1. Len(said) \in Nat /\ Len(Turns) \in Nat /\ SaidI /\ FilesI /\ ReaderI /\ WorkerI
    BY ConstantsAre, LenProperties DEF IInv, SaidI
  <2> QED BY <2>1 DEF Create, WorkerI, SaidI
<1>2. /\ Recs \subseteq Recs' /\ SaidIds \subseteq SaidIds' /\ Len(said) <= Len(said')
      /\ (\A i \in 1..Len(said) : said'[i] = said[i]) /\ SaidI'
  BY <1>1, SaysNothing DEF Create, SaidI
<1>3. Fits(mem, Recs)' /\ RawI'
  BY <1>2, Stays DEF Create
<1>4. WorkerI'
  BY ConstantsAre DEF Create, IdleWorker, WorkerI
<1>5. Recs' = Recs /\ SaidIds' = SaidIds /\ \A k : Text(k)' = Text(k)
  BY <1>1, SameRecords
<1>6. reader[Worker].pc = "idle"
  BY <1>1, NotLoading
<1>7. CASE files' = files /\ reader' = reader
  BY <1>2, <1>3, <1>4, <1>6, <1>7, Stays DEF IInv
<1>8. ASSUME NEW evicted \in SUBSET DOMAIN files,
             files' = [k \in DOMAIN files |-> IF k \in evicted THEN NoFile ELSE new[k]],
             reader' = Unlinked(evicted)
      PROVE  FilesI' /\ ReaderI'
  <2>1. /\ MapFor(n) \in Seq(Recs) /\ Len(MapFor(n)) \in Nat
        /\ \A i \in 1..Len(MapFor(n)) : MapFor(n)[i].dsml \in ToSet(Text(n))
    <3>1. MapFor(n) \in Seq({r \in Recs : r.dsml \in ToSet(Text(n))})
      BY <1>1, MapForFits DEF IInv
    <3>2. \A i \in 1..Len(MapFor(n)) : MapFor(n)[i] \in {r \in Recs : r.dsml \in ToSet(Text(n))}
      BY <3>1, ElementOfSeq
    <3> QED BY <3>1, <3>2, SeqMonotonic, LenProperties
  <2> HIDE DEF n
  <2>2. /\ added \in [there: BOOLEAN, flag: BOOLEAN, map: Seq(Recs)]
        /\ added.there /\ added.map = MapFor(n)
    BY <1>1, <2>1 DEF n
  <2> HIDE DEF added
  <2>3. /\ DOMAIN files = 1..Len(Turns) /\ new[n] = added
        /\ \A k \in 1..Len(Turns) : k # n => new[k] = files[k]
    BY <1>1 DEF FilesI
  <2> HIDE DEF new
  <2>4. NoFile \in [there: BOOLEAN, flag: BOOLEAN, map: Seq(Recs)] /\ ~NoFile.there
        /\ Len(NoFile.map) = 0
    BY EmptySeq DEF NoFile
  <2> HIDE DEF NoFile
  <2>5. ASSUME NEW k \in 1..Len(Turns)
        PROVE  /\ files'[k] \in [there: BOOLEAN, flag: BOOLEAN, map: Seq(Recs)]
               /\ files'[k].there => k <= Len(said)
               /\ ~files'[k].there => files'[k] = NoFile
               /\ \A i \in 1..Len(files'[k].map) : files'[k].map[i].dsml \in ToSet(Text(k))
    <3>1. CASE k \in evicted
      <4>1. files'[k] = NoFile
        BY <1>8, <2>3, <3>1
      <4>2. 1..Len(files'[k].map) = {}
        BY <2>4, <4>1
      <4> QED BY <2>4, <4>1, <4>2
    <3>2. CASE k \notin evicted /\ k = n
      <4>1. files'[k] = added
        BY <1>8, <2>3, <3>2
      <4> QED BY <1>1, <2>1, <2>2, <3>2, <4>1
    <3>3. CASE k \notin evicted /\ k # n
      <4>1. files'[k] = files[k]
        BY <1>8, <2>3, <3>3
      <4> QED BY <1>1, <4>1 DEF FilesI
    <3> QED BY <3>1, <3>2, <3>3
  <2>6. FilesI'
    <3>1. \A k \in 1..Len(Turns) : ToSet(Text(k))' = ToSet(Text(k))
      BY <1>5 DEF ToSet
    <3>2. files' \in [1..Len(Turns) -> [there: BOOLEAN, flag: BOOLEAN, map: Seq(Recs)]]
      <4>1. DOMAIN files' = 1..Len(Turns) /\ files' = [k \in 1..Len(Turns) |-> files'[k]]
        BY <1>8, <2>3
      <4> QED BY <2>5, <4>1
    <3> QED BY <1>1, <1>5, <2>5, <3>1, <3>2 DEF FilesI
  <2>7. \A k \in (1..Len(Turns)) \ evicted :
           files[k].there => files'[k].there /\ files'[k].map = files[k].map
    BY <1>1, <1>8, <2>3 DEF n
  <2>8. /\ \A t \in Thread : ReaderFits(reader'[t], Recs, files', SaidIds)
                             /\ reader'[t].pc = reader[t].pc
        /\ reader' = [t \in Thread |-> reader'[t]]
    BY <1>1, <1>8, <2>7, Unlinks
  <2>9. ReaderI'
    <3>1. reader' \in [Thread -> Readers(Recs)]
      BY <2>8 DEF ReaderFits
    <3>2. reader'[Worker].pc = "idle"
      BY <1>6, <2>8, ConstantsAre
    <3> QED BY <1>5, <2>8, <3>1, <3>2 DEF ReaderI
  <2> QED BY <2>6, <2>9
<1>9. \/ files' = files /\ reader' = reader
      \/ \E evicted \in SUBSET DOMAIN files :
           /\ files' = [k \in DOMAIN files |-> IF k \in evicted THEN NoFile ELSE new[k]]
           /\ reader' = Unlinked(evicted)
  BY DEF Create
<1> HIDE DEF new
<1>10. FilesI' /\ ReaderI'
  <2>1. CASE files' = files /\ reader' = reader
    BY <1>7, <2>1 DEF IInv
  <2>2. CASE \E evicted \in SUBSET DOMAIN files :
               /\ files' = [k \in DOMAIN files |-> IF k \in evicted THEN NoFile ELSE new[k]]
               /\ reader' = Unlinked(evicted)
    BY <1>8, <2>2
  <2> QED BY <1>9, <2>1, <2>2
<1> QED BY <1>2, <1>3, <1>4, <1>10 DEF IInv

\* A thread that starts to read, or has finished.
LEMMA FreshReader ==
  ASSUME NEW R, NEW F, NEW I, NEW h \in Seq(Seq(Ids)), NEW w \in SUBSET Ids,
         NEW s \in SUBSET (1..Len(Turns))
  PROVE  /\ ReaderFits(IdleReader, R, F, I) /\ IdleReader.pc = "idle"
         /\ ReaderFits([IdleReader EXCEPT !.pc = "scan", !.request = h, !.wanted = w, !.todo = s],
                       R, F, I)
         /\ ReaderFits([IdleReader EXCEPT !.pc = "scan", !.wanted = w, !.todo = s], R, F, I)
<1>1. <<>> \in Seq(R) /\ <<>> \in Seq(Seq(Ids)) /\ 0 \in 0..Len(Turns)
  BY EmptySeq, ConstantsAre
<1>2. ReaderFits(IdleReader, R, F, I) /\ IdleReader.pc = "idle"
  BY <1>1 DEF IdleReader, ReaderFits, Readers
<1> DEFINE r == [IdleReader EXCEPT !.pc = "scan", !.request = h, !.wanted = w, !.todo = s]
           q == [IdleReader EXCEPT !.pc = "scan", !.wanted = w, !.todo = s]
<1>3. /\ IdleReader \in Readers(R) /\ IdleReader.file = 0 /\ ~IdleReader.linked
  BY <1>1 DEF IdleReader, Readers
<1> HIDE DEF IdleReader
<1>4. /\ r \in Readers(R) /\ r.pc = "scan" /\ r.file = 0 /\ ~r.linked
      /\ q \in Readers(R) /\ q.pc = "scan" /\ q.file = 0 /\ ~q.linked
  BY <1>3 DEF Readers
<1> HIDE DEF r, q
<1>5. ReaderFits(r, R, F, I)
  BY <1>4 DEF ReaderFits
<1>6. ReaderFits(q, R, F, I)
  BY <1>4 DEF ReaderFits
<1> QED BY <1>2, <1>5, <1>6 DEF r, q

LEMMA KeptByLoad ==
  ASSUME IInv, NEW p \in Parser, NEW n \in DOMAIN files, Load(p, n)
  PROVE  IInv'
<1>1. said' = said /\ torn' = torn /\ live' = n /\ n \in DOMAIN said /\ files' = files
  BY DEF Load, Renders
<1>2. n \in 1..Len(said) /\ Len(said) \in Nat /\ n \in 1..Len(Turns) /\ Len(Turns) \in Nat
  BY <1>1, ConstantsAre, LenProperties DEF IInv, SaidI, FilesI
<1>3. /\ Recs \subseteq Recs' /\ SaidIds \subseteq SaidIds' /\ Len(said) <= Len(said')
      /\ (\A i \in 1..Len(said) : said'[i] = said[i]) /\ SaidI'
  <2>1. live' \in 0..Len(said)
    BY <1>1, <1>2
  <2> QED BY <1>1, <2>1, SaysNothing
<1>4. Fits(mem, Recs)' /\ FilesI' /\ RawI'
  BY <1>3, Stays DEF Load
<1>5. WorkerI'
  BY <1>1, <1>2 DEF Load, WorkerI
<1>6. ReaderI'
  <2> DEFINE r == [IdleReader EXCEPT !.pc = "scan", !.wanted = Ids, !.todo = {n}]
  <2>1. ReaderFits(r, Recs', files, SaidIds')
    <3>1. Ids \in SUBSET Ids /\ {n} \in SUBSET (1..Len(Turns)) /\ <<>> \in Seq(Seq(Ids))
      BY <1>2, EmptySeq
    <3> QED BY <3>1, FreshReader
  <2>2. reader' = [reader EXCEPT ![Worker] = r] /\ worker'.pc = "load"
    BY DEF Load
  <2> HIDE DEF r
  <2> QED BY <1>1, <1>3, <2>1, <2>2, OneReader, ConstantsAre DEF IInv
<1> QED BY <1>3, <1>4, <1>5, <1>6 DEF IInv

LEMMA KeptByLoadDone ==
  ASSUME IInv, LoadDone
  PROVE  IInv'
<1> DEFINE n == worker.n
<1>1. /\ said' = said /\ torn' = torn /\ n \in 1..Len(said) /\ files[n].there
      /\ SaidI /\ FilesI /\ ReaderI
      /\ Len(said) \in Nat /\ Len(Turns) \in Nat /\ n \in 1..Len(Turns)
  <2>1. Len(said) \in Nat /\ Len(Turns) \in Nat /\ SaidI /\ FilesI /\ ReaderI /\ WorkerI
    BY ConstantsAre, LenProperties DEF IInv, SaidI
  <2> QED BY <2>1 DEF LoadDone, WorkerI, SaidI
<1>2. /\ Recs \subseteq Recs' /\ SaidIds \subseteq SaidIds' /\ Len(said) <= Len(said')
      /\ (\A i \in 1..Len(said) : said'[i] = said[i]) /\ SaidI'
  BY <1>1, SaysNothing DEF LoadDone, SaidI
<1>3. Fits(mem, Recs)' /\ RawI'
  BY <1>2, Stays DEF LoadDone
<1>4. WorkerI'
  BY ConstantsAre DEF LoadDone, IdleWorker, WorkerI
<1>5. Recs' = Recs /\ SaidIds' = SaidIds /\ \A k : Text(k)' = Text(k)
  BY <1>1, SameRecords
<1>6. /\ \A I, F : ReaderFits(IdleReader, Recs, F, I)
      /\ IdleReader.pc = "idle"
  <2>1. {} \in SUBSET Ids /\ {} \in SUBSET (1..Len(Turns)) /\ <<>> \in Seq(Seq(Ids))
    BY EmptySeq
  <2> QED BY <2>1, FreshReader
<1>7. CASE files' = files /\ reader' = [reader EXCEPT ![Worker] = IdleReader]
  <2>1. FilesI'
    BY <1>2, <1>7, Stays
  <2>2. ReaderI'
    <3>1. Worker \in Thread /\ ReaderFits(IdleReader, Recs', files, SaidIds')
      BY <1>5, <1>6, ConstantsAre
    <3> QED BY <1>1, <1>2, <1>6, <1>7, <3>1, OneReader
  <2> QED BY <1>2, <1>3, <1>4, <2>1, <2>2 DEF IInv
<1>8. CASE /\ files' = [files EXCEPT ![n] = NoFile]
           /\ reader' = [Unlinked({n}) EXCEPT ![Worker] = IdleReader]
  <2> HIDE DEF n
  <2>1. /\ files' \in [1..Len(Turns) -> [there: BOOLEAN, flag: BOOLEAN, map: Seq(Recs)]]
        /\ files'[n] = NoFile /\ Len(files'[n].map) = 0 /\ ~files'[n].there
        /\ \A k \in 1..Len(Turns) : k # n => files'[k] = files[k]
    <3>1. NoFile \in [there: BOOLEAN, flag: BOOLEAN, map: Seq(Recs)] /\ ~NoFile.there
          /\ Len(NoFile.map) = 0
      BY EmptySeq DEF NoFile
    <3> QED BY <1>1, <1>8, <3>1 DEF FilesI
  <2>2. FilesI'
    <3>1. \A k \in 1..Len(Turns) : ToSet(Text(k))' = ToSet(Text(k))
      BY <1>5 DEF ToSet
    <3>2. ASSUME NEW k \in 1..Len(Turns) PROVE
            /\ files'[k].there => k <= Len(said)
            /\ ~files'[k].there => files'[k] = NoFile
            /\ \A i \in 1..Len(files'[k].map) : files'[k].map[i].dsml \in ToSet(Text(k))
      <4>1. CASE k = n
        <5>1. 1..Len(files'[k].map) = {}
          BY <2>1, <4>1
        <5> QED BY <2>1, <4>1, <5>1
      <4>2. CASE k # n
        BY <1>1, <2>1, <4>2 DEF FilesI
      <4> QED BY <4>1, <4>2
    <3> QED BY <1>1, <1>5, <2>1, <3>1, <3>2 DEF FilesI
  <2> DEFINE u == Unlinked({n})
  <2>3. /\ \A t \in Thread : ReaderFits(u[t], Recs, files', SaidIds)
        /\ u = [t \in Thread |-> u[t]]
    <3>1. \A k \in (1..Len(Turns)) \ {n} :
             files[k].there => files'[k].there /\ files'[k].map = files[k].map
      BY <2>1
    <3> QED BY <1>1, <3>1, Unlinks
  <2>4. reader' = [u EXCEPT ![Worker] = IdleReader]
    BY <1>8
  <2> HIDE DEF u
  <2>5. \A t \in Thread : ReaderFits(reader'[t], Recs, files', SaidIds)
    <3> TAKE t \in Thread
    <3>1. CASE t = Worker
      BY <1>6, <2>3, <2>4, <3>1
    <3>2. CASE t # Worker
      BY <2>3, <2>4, <3>2
    <3> QED BY <3>1, <3>2
  <2>6. ReaderI'
    <3>1. reader' = [t \in Thread |-> reader'[t]] /\ reader'[Worker] = IdleReader
      BY <2>3, <2>4, ConstantsAre
    <3>2. reader' \in [Thread -> Readers(Recs)]
      BY <2>5, <3>1 DEF ReaderFits
    <3> QED BY <1>5, <1>6, <2>5, <3>1, <3>2 DEF ReaderI
  <2> QED BY <1>2, <1>3, <1>4, <2>2, <2>6 DEF IInv
<1> QED BY <1>7, <1>8 DEF LoadDone

\* A step of one thread that reads: nothing else moves but the records.
LEMMA Quiet ==
  ASSUME IInv, said' = said, live' = live, torn' = torn
  PROVE  /\ Recs \subseteq Recs' /\ SaidIds \subseteq SaidIds' /\ Len(said) <= Len(said')
         /\ (\A i \in 1..Len(said) : said'[i] = said[i]) /\ SaidI'
         /\ Recs' = Recs /\ SaidIds' = SaidIds
<1>1. live' \in 0..Len(said)
  BY DEF IInv, SaidI
<1> QED BY <1>1, SaysNothing, SameRecords

LEMMA KeptByAsk ==
  ASSUME IInv, NEW p \in Parser, NEW h \in Histories, Ask(p, h)
  PROVE  IInv'
<1>1. /\ Recs \subseteq Recs' /\ SaidIds \subseteq SaidIds' /\ Len(said) <= Len(said')
      /\ (\A i \in 1..Len(said) : said'[i] = said[i]) /\ SaidI'
      /\ Recs' = Recs /\ SaidIds' = SaidIds
  BY Quiet DEF Ask
<1>2. Fits(mem, Recs)' /\ FilesI' /\ WorkerI'
  BY <1>1, Stays DEF Ask
<1>3. RawI'
  <2>1. RawI /\ raw' = [raw EXCEPT ![p] = {}]
    BY DEF IInv, Ask
  <2> QED BY <1>1, <2>1 DEF RawI
<1>4. ReaderI'
  <2> DEFINE w == UNION {ToSet(h[i]) : i \in DOMAIN h}
             s == IF DiskEnabled THEN {n \in DOMAIN files : files[n].there} ELSE {}
             r == [IdleReader EXCEPT !.pc = "scan", !.request = h, !.wanted = w, !.todo = s]
  <2>1. h \in Seq(Seq(Ids))
    BY ConstantsAre
  <2>2. w \in SUBSET Ids
    <3>1. DOMAIN h = 1..Len(h) /\ \A i \in 1..Len(h) : h[i] \in Seq(Ids)
      BY <2>1, ElementOfSeq, LenProperties
    <3>2. \A i \in 1..Len(h) : ToSet(h[i]) \subseteq Ids
      <4> TAKE i \in 1..Len(h)
      <4>1. DOMAIN h[i] = 1..Len(h[i]) /\ \A j \in 1..Len(h[i]) : h[i][j] \in Ids
        BY <3>1, ElementOfSeq, LenProperties
      <4> QED BY <4>1 DEF ToSet
    <3> QED BY <3>1, <3>2
  <2>3. s \in SUBSET (1..Len(Turns))
    BY DEF IInv, FilesI
  <2> HIDE DEF w, s
  <2>4. ReaderFits(r, Recs', files, SaidIds')
    BY <2>1, <2>2, <2>3, FreshReader
  <2>5. reader' = [reader EXCEPT ![p] = r] /\ files' = files /\ worker' = worker
    BY DEF Ask, w, s
  <2> HIDE DEF r
  <2>6. ReaderI /\ p \in Thread /\ p # Worker
    BY ConstantsAre DEF IInv, Thread
  <2> QED BY <1>1, <2>4, <2>5, <2>6, OneReader
<1> QED BY <1>1, <1>2, <1>3, <1>4 DEF IInv

LEMMA CloseFits ==
  ASSUME NEW R, NEW F, NEW I, NEW r, ReaderFits(r, R, F, I)
  PROVE  ReaderFits(CloseFile(r), R, F, I) /\ CloseFile(r).pc = "scan"
<1>1. r \in Readers(R) /\ <<>> \in Seq(R) /\ 0 \in 0..Len(Turns)
  BY EmptySeq, ConstantsAre DEF ReaderFits
<1> DEFINE q == CloseFile(r)
<1>2. q \in Readers(R) /\ q.pc = "scan" /\ q.file = 0 /\ ~q.linked
  BY <1>1 DEF CloseFile, Readers
<1> HIDE DEF q
<1>3. ReaderFits(q, R, F, I) /\ q.pc = "scan"
  BY <1>2 DEF ReaderFits
<1> QED BY <1>3 DEF q

LEMMA KeptByOpen ==
  ASSUME IInv, NEW t \in Thread, Open(t)
  PROVE  IInv'
<1>1. /\ Recs \subseteq Recs' /\ SaidIds \subseteq SaidIds' /\ Len(said) <= Len(said')
      /\ (\A i \in 1..Len(said) : said'[i] = said[i]) /\ SaidI'
      /\ Recs' = Recs /\ SaidIds' = SaidIds
  BY Quiet DEF Open
<1>2. Fits(mem, Recs)' /\ FilesI' /\ WorkerI' /\ RawI'
  BY <1>1, Stays DEF Open
<1>3. ReaderI'
  <2> DEFINE old == reader[t]
  <2>1. /\ ReaderI /\ FilesI /\ ReaderFits(old, Recs, files, SaidIds) /\ old \in Readers(Recs)
        /\ old.pc = "scan" /\ (t = Worker => worker.pc = "load") /\ Len(Turns) \in Nat
        /\ old.file = 0 /\ ~old.linked
    <3>1. /\ ReaderI /\ FilesI /\ ReaderFits(old, Recs, files, SaidIds) /\ old.pc = "scan"
          /\ Len(Turns) \in Nat /\ (t = Worker => worker.pc = "load")
      BY ConstantsAre DEF IInv, ReaderI, Open
    <3> QED BY <3>1 DEF ReaderFits, Readers
  <2>2. PICK n \in old.todo :
          LET f == files[n]
              usable == f.there /\ f.flag /\ Len(f.map) \in 1..(4 * MaxEntries)
              next == [old EXCEPT !.todo = @ \ {n}]
          IN reader' = [reader EXCEPT ![t] =
               IF usable THEN [next EXCEPT !.pc = "read", !.file = n, !.linked = TRUE,
                                 !.map = f.map, !.pos = 1, !.count = Len(f.map)]
               ELSE next]
    BY DEF Open
  <2> HIDE DEF old
  <2> DEFINE f == files[n]
             usable == f.there /\ f.flag /\ Len(f.map) \in 1..(4 * MaxEntries)
             next == [old EXCEPT !.todo = @ \ {n}]
             opened == [next EXCEPT !.pc = "read", !.file = n, !.linked = TRUE,
                          !.map = f.map, !.pos = 1, !.count = Len(f.map)]
  <2>3. n \in 1..Len(Turns) /\ f.map \in Seq(Recs) /\ Len(f.map) \in Nat
    <3>1. n \in 1..Len(Turns)
      BY <2>1 DEF Readers
    <3>2. f.map \in Seq(Recs)
      BY <2>1, <3>1 DEF FilesI
    <3> QED BY <3>1, <3>2, LenProperties
  <2>4. next \in Readers(Recs) /\ next.pc = "scan" /\ next.file = 0 /\ ~next.linked
    BY <2>1 DEF Readers
  <2>5. reader' = [reader EXCEPT ![t] = IF usable THEN opened ELSE next]
    BY <2>2
  <2> HIDE DEF next, f
  <2>6. ReaderFits(next, Recs, files, SaidIds)
    BY <2>4 DEF ReaderFits
  <2>7. /\ opened \in Readers(Recs) /\ opened.pc = "read" /\ opened.file = n /\ opened.pos = 1
        /\ opened.map = f.map
    <3> DEFINE m == f.map
               k == Len(f.map)
    <3>1. n \in 0..Len(Turns) /\ 1 \in Nat /\ m \in Seq(Recs) /\ k \in Nat /\ next \in Readers(Recs)
      BY <2>1, <2>3, <2>4
    <3>2. opened = [next EXCEPT !.pc = "read", !.file = n, !.linked = TRUE, !.map = m, !.pos = 1,
                                !.count = k]
      OBVIOUS
    <3> HIDE DEF opened, m, k
    <3>3. opened.pc = "read" /\ opened.file = n /\ opened.pos = 1 /\ opened.map = m
      BY <3>1, <3>2 DEF Readers
    <3>4. opened \in Readers(Recs)
      BY <3>1, <3>2 DEF Readers
    <3> QED BY <3>3, <3>4 DEF m
  <2> HIDE DEF opened
  <2>8. usable => ReaderFits(opened, Recs, files, SaidIds)
    <3> HAVE usable
    <3>1. n # 0 /\ files[n].there /\ opened.map = files[n].map
      BY <2>1, <2>3, <2>7 DEF f
    <3> QED BY <2>7, <3>1 DEF ReaderFits
  <2> HIDE DEF usable
  <2>9. files' = files /\ worker' = worker
    BY DEF Open
  <2>10. CASE usable
    <3>1. reader' = [reader EXCEPT ![t] = opened]
      BY <2>5, <2>10
    <3> QED BY <1>1, <2>1, <2>8, <2>9, <2>10, <3>1, OneReader
  <2>11. CASE ~usable
    <3>1. reader' = [reader EXCEPT ![t] = next]
      BY <2>5, <2>11
    <3> QED BY <1>1, <2>1, <2>6, <2>9, <3>1, OneReader
  <2> QED BY <2>10, <2>11
<1> QED BY <1>1, <1>2, <1>3 DEF IInv

LEMMA KeptByReadId ==
  ASSUME IInv, NEW t \in Thread, ReadId(t)
  PROVE  IInv'
<1>1. /\ Recs \subseteq Recs' /\ SaidIds \subseteq SaidIds' /\ Len(said) <= Len(said')
      /\ (\A i \in 1..Len(said) : said'[i] = said[i]) /\ SaidI'
      /\ Recs' = Recs /\ SaidIds' = SaidIds
  BY Quiet DEF ReadId
<1>2. Fits(mem, Recs)' /\ FilesI' /\ WorkerI' /\ RawI'
  BY <1>1, Stays DEF ReadId
<1>3. ReaderI'
  <2> DEFINE r == reader[t]
             q == [r EXCEPT !.pc = "rest", !.id = r.map[r.pos].id]
  <2>1. /\ ReaderI /\ ReaderFits(r, Recs, files, SaidIds) /\ r.pc = "read"
        /\ (t = Worker => worker.pc = "load")
    BY DEF IInv, ReaderI, ReadId
  <2>2. reader' = [reader EXCEPT ![t] = IF Ends(r) THEN CloseFile(r) ELSE q]
        /\ files' = files /\ worker' = worker
    BY DEF ReadId
  <2> HIDE DEF r
  <2>3. CASE Ends(r)
    <3>1. ReaderFits(CloseFile(r), Recs, files, SaidIds)
      BY <2>1, CloseFits
    <3>2. reader' = [reader EXCEPT ![t] = CloseFile(r)]
      BY <2>2, <2>3
    <3> QED BY <1>1, <2>1, <2>2, <3>1, <3>2, OneReader
  <2>4. CASE ~Ends(r)
    <3>1. r.map[r.pos] \in Recs
      BY <2>1, <2>4, ReadsRecord
    <3> DEFINE id == r.map[r.pos].id
    <3>2. id \in SaidIds /\ id \in Ids
      <4>1. SaidIds \subseteq Ids
        BY SaidAreIds DEF IInv
      <4> QED BY <3>1, <4>1 DEF Recs
    <3> HIDE DEF id
    <3>3. r \in Readers(Recs) /\ r.file # 0 /\ r.pos >= 1
          /\ (r.linked => r.file # 0 /\ files[r.file].there /\ r.map = files[r.file].map)
      BY <2>1 DEF ReaderFits
    <3>4. /\ q \in Readers(Recs) /\ q.pc = "rest" /\ q.id = id /\ q.file = r.file
          /\ q.pos = r.pos /\ q.linked = r.linked /\ q.map = r.map
      BY <3>2, <3>3 DEF Readers, id
    <3> HIDE DEF q
    <3>5. ReaderFits(q, Recs, files, SaidIds)
      BY <3>2, <3>3, <3>4 DEF ReaderFits
    <3>6. reader' = [reader EXCEPT ![t] = q]
      BY <2>2, <2>4
    <3> QED BY <1>1, <2>1, <2>2, <3>5, <3>6, OneReader
  <2> QED BY <2>3, <2>4
<1> QED BY <1>1, <1>2, <1>3 DEF IInv

LEMMA KeptByReadBlock ==
  ASSUME IInv, NEW t \in Thread, ReadBlock(t)
  PROVE  IInv'
<1> DEFINE r == reader[t]
<1>1. /\ ReaderI /\ ReaderFits(r, Recs, files, SaidIds) /\ r.pc = "rest"
      /\ (t = Worker => worker.pc = "load") /\ SaidI /\ torn \in BOOLEAN
      /\ SaidIds \subseteq Ids /\ Fits(mem, Recs)
  BY SaidAreIds DEF IInv, ReaderI, ReadBlock, SaidI
<1>2. said' = said /\ live' = live /\ files' = files /\ worker' = worker /\ raw' = raw
  BY DEF ReadBlock
<1>3. CASE Ends(r)
  <2>1. reader' = [reader EXCEPT ![t] = CloseFile(r)] /\ mem' = mem /\ torn' = torn
    BY <1>3 DEF ReadBlock
  <2>2. /\ Recs \subseteq Recs' /\ SaidIds \subseteq SaidIds' /\ Len(said) <= Len(said')
        /\ (\A i \in 1..Len(said) : said'[i] = said[i]) /\ SaidI'
        /\ Recs' = Recs /\ SaidIds' = SaidIds
    BY <1>2, <2>1, Quiet
  <2>3. Fits(mem, Recs)' /\ FilesI' /\ WorkerI' /\ RawI'
    BY <1>2, <2>1, <2>2, Stays
  <2>4. ReaderI'
    <3>1. ReaderFits(CloseFile(r), Recs, files, SaidIds)
      BY <1>1, CloseFits
    <3> HIDE DEF r
    <3> QED BY <1>1, <1>2, <2>1, <2>2, <3>1, OneReader
  <2> QED BY <2>2, <2>3, <2>4 DEF IInv
<1>4. CASE ~Ends(r)
  <2> DEFINE rec == r.map[r.pos]
             q == [r EXCEPT !.pc = "read", !.pos = @ + 1, !.id = None]
  <2>1. /\ reader' = [reader EXCEPT ![t].pc = "read", ![t].pos = @ + 1, ![t].id = None]
        /\ IF r.id \in r.wanted
           THEN mem' = Put(mem, r.id, rec.dsml) /\ torn' = (torn \/ rec.id # r.id)
           ELSE mem' = mem /\ torn' = torn
    BY <1>4 DEF ReadBlock
  <2>2. reader' = [reader EXCEPT ![t] = q]
    BY <1>1, <2>1 DEF ReaderI, ReaderFits, Readers
  <2>3. rec \in Recs
    BY <1>1, <1>4, ReadsRecord
  <2>4. rec.dsml \in Dsml /\ r.id \in SaidIds /\ r.id \in Ids
    BY <1>1, <2>3 DEF Recs, ReaderFits
  <2> HIDE DEF r, rec
  <2>5. torn' = torn \/ torn' = TRUE
    BY <1>1, <2>1
  <2>6. /\ Recs \subseteq Recs' /\ SaidIds \subseteq SaidIds' /\ Len(said) <= Len(said')
        /\ (\A i \in 1..Len(said) : said'[i] = said[i]) /\ SaidI'
    <3>1. live' \in 0..Len(said)
      BY <1>1, <1>2 DEF SaidI
    <3>2. torn' = torn \/ (torn' \in BOOLEAN /\ (torn => torn'))
      BY <2>5
    <3> QED BY <1>2, <3>1, <3>2, SaysNothing
  <2>7. FilesI' /\ WorkerI' /\ RawI'
    BY <1>2, <2>6, Stays
  <2>8. Fits(mem, Recs')
    BY <1>1, <2>6 DEF Fits
  <2>9. Fits(mem', Recs')
    <3>1. CASE r.id \in r.wanted
      <4> DEFINE id == r.id
                 d == rec.dsml
      <4>1. mem' = Put(mem, id, d) /\ torn' = (torn \/ rec.id # id) /\ id \in Ids /\ d \in Dsml
        BY <2>1, <2>4, <3>1
      <4>2. CASE rec.id = id
        <5>1. rec = [id |-> id, dsml |-> d]
          BY <2>3, <4>2 DEF Recs
        <5>2. [id |-> id, dsml |-> d] \in Recs'
          BY <2>3, <2>6, <5>1
        <5> HIDE DEF id, d
        <5> QED BY <2>8, <4>1, <5>2, FitsPut
      <4>3. CASE rec.id # id
        <5>1. torn'
          BY <4>1, <4>3
        <5> DEFINE new == [id |-> id, dsml |-> d]
        <5>2. new \in [id: SaidIds', dsml: Dsml]
          BY <2>4, <2>6
        <5> HIDE DEF new
        <5>3. new \in Recs'
          BY <5>1, <5>2 DEF Recs
        <5> HIDE DEF id, d
        <5> QED BY <2>8, <4>1, <5>3, FitsPut DEF new
      <4> QED BY <4>2, <4>3
    <3>2. CASE r.id \notin r.wanted
      BY <2>1, <2>8, <3>2
    <3> QED BY <3>1, <3>2
  <2>10. ReaderI'
    <3>1. /\ r \in Readers(Recs) /\ r.file # 0 /\ r.pos >= 1 /\ r.pos \in Nat
          /\ (r.linked => r.file # 0 /\ files[r.file].there /\ r.map = files[r.file].map)
      BY <1>1 DEF ReaderFits, Readers
    <3>2. /\ q \in Readers(Recs) /\ q.pc = "read" /\ q.file = r.file
          /\ q.pos = r.pos + 1 /\ q.linked = r.linked /\ q.map = r.map
      <4> DEFINE k == r.pos + 1
      <4>1. k \in Nat /\ None \in Ids \cup {None}
        BY <3>1
      <4>2. q = [r EXCEPT !.pc = "read", !.pos = k, !.id = None]
        BY <3>1 DEF Readers
      <4> HIDE DEF q, k
      <4>3. q \in Readers(Recs) /\ q.pos = k /\ q.pc = "read"
        BY <3>1, <4>1, <4>2 DEF Readers
      <4>4. q.file = r.file /\ q.linked = r.linked /\ q.map = r.map
        BY <3>1, <4>2 DEF Readers
      <4> QED BY <4>3, <4>4 DEF k
    <3> HIDE DEF q
    <3>3. ReaderFits(q, Recs, files, SaidIds)
      BY <3>1, <3>2 DEF ReaderFits
    <3>4. ReaderFits(q, Recs', files, SaidIds')
      BY <2>6, <3>3, ReaderGrows
    <3> QED BY <1>1, <1>2, <2>2, <2>6, <3>4, OneReader
  <2> QED BY <2>6, <2>7, <2>9, <2>10 DEF IInv
<1> QED BY <1>3, <1>4

LEMMA KeptByAttach ==
  ASSUME IInv, NEW p \in Parser, Attach(p)
  PROVE  IInv'
<1> DEFINE h == reader[p].request
           found == UNION {{[ids |-> h[i], dsml |-> d] : d \in ExactBlock(mem, h[i])}
                             : i \in DOMAIN h}
<1>1. /\ Recs \subseteq Recs' /\ SaidIds \subseteq SaidIds' /\ Len(said) <= Len(said')
      /\ (\A i \in 1..Len(said) : said'[i] = said[i]) /\ SaidI'
      /\ Recs' = Recs /\ SaidIds' = SaidIds
  BY Quiet DEF Attach
<1>2. FilesI' /\ WorkerI'
  BY <1>1, Stays DEF Attach
<1>3. /\ ReaderI /\ RawI /\ Fits(mem, Recs) /\ p \in Thread /\ p # Worker
      /\ h \in Seq(Seq(Ids))
  <2>1. ReaderI /\ RawI /\ Fits(mem, Recs) /\ p \in Thread /\ p # Worker
    BY ConstantsAre DEF IInv, Thread
  <2>2. reader[p] \in Readers(Recs)
    BY <2>1 DEF ReaderI
  <2> QED BY <2>1, <2>2 DEF Readers
<1>4. mem' = LookUpMessages(mem, h) /\ raw' = [raw EXCEPT ![p] = found]
      /\ reader' = [reader EXCEPT ![p] = IdleReader] /\ files' = files /\ worker' = worker
  BY DEF Attach
<1> HIDE DEF h
<1>5. Fits(mem, Recs)'
  <2>1. LookUpMessages(mem, h) \in SameBlocks(mem)
    BY <1>3, AttachKeeps DEF Fits
  <2>2. Fits(mem', Recs)
    BY <1>3, <1>4, <2>1, FitsSame
  <2> QED BY <1>1, <2>2
<1>6. ReaderI'
  <2>1. ReaderFits(IdleReader, Recs', files, SaidIds') /\ IdleReader.pc = "idle"
    <3>1. {} \in SUBSET Ids /\ {} \in SUBSET (1..Len(Turns)) /\ <<>> \in Seq(Seq(Ids))
      BY EmptySeq
    <3> QED BY <3>1, FreshReader
  <2> QED BY <1>1, <1>3, <1>4, <2>1, OneReader
<1>7. ASSUME NEW r \in found
      PROVE  /\ r \in [ids: Seq(Ids), dsml: Dsml]
             /\ \A i \in 1..Len(r.ids) : [id |-> r.ids[i], dsml |-> r.dsml] \in Recs
  <2>1. PICK i \in DOMAIN h : \E d \in ExactBlock(mem, h[i]) : r = [ids |-> h[i], dsml |-> d]
    OBVIOUS
  <2>2. PICK d \in ExactBlock(mem, h[i]) : r = [ids |-> h[i], dsml |-> d]
    BY <2>1
  <2> DEFINE ids == h[i]
  <2>3. ids \in Seq(Ids) /\ DOMAIN ids = 1..Len(ids)
    BY <1>3, ElementOfSeq, LenProperties
  <2> HIDE DEF ids
  <2>4. /\ d \in DOMAIN mem.refs
        /\ \A k \in 1..Len(ids) : ids[k] \in Known(mem) /\ mem.dsml[ids[k]] = d
    BY <2>2, <2>3 DEF ExactBlock, ids
  <2>5. d \in Dsml
    BY <1>3, <2>4, CountedFacts DEF Fits
  <2>6. \A k \in 1..Len(ids) : [id |-> ids[k], dsml |-> d] \in Recs
    BY <1>3, <2>4 DEF Fits
  <2>7. r = [ids |-> ids, dsml |-> d]
    BY <2>2 DEF ids
  <2> QED BY <2>3, <2>5, <2>6, <2>7
<1> HIDE DEF found
<1>8. RawI'
  <2>1. found \in SUBSET [ids: Seq(Ids), dsml: Dsml]
    BY <1>7
  <2>2. raw' \in [Parser -> SUBSET [ids: Seq(Ids), dsml: Dsml]]
    BY <1>3, <1>4, <2>1 DEF RawI
  <2>3. \A u \in Parser : raw'[u] = IF u = p THEN found ELSE raw[u]
    BY <1>3, <1>4 DEF RawI
  <2>4. \A u \in Parser : \A r \in raw'[u] : \A i \in 1..Len(r.ids) :
           [id |-> r.ids[i], dsml |-> r.dsml] \in Recs
    BY <1>3, <1>7, <2>3 DEF RawI
  <2> QED BY <1>1, <2>2, <2>4 DEF RawI
<1> QED BY <1>1, <1>2, <1>5, <1>6, <1>8 DEF IInv

LEMMA KeptByRestart ==
  ASSUME IInv, Restart
  PROVE  IInv'
<1>1. said' = said /\ torn' = torn /\ files' = files
  BY DEF Restart
<1>2. /\ Recs \subseteq Recs' /\ SaidIds \subseteq SaidIds' /\ Len(said) <= Len(said')
      /\ (\A i \in 1..Len(said) : said'[i] = said[i]) /\ SaidI'
  <2>1. live' = 0 /\ Len(said) \in Nat
    BY LenProperties DEF Restart, IInv, SaidI
  <2> QED BY <1>1, <2>1, SaysNothing
<1>3. FilesI'
  BY <1>1, <1>2, Stays
<1>4. Fits(mem, Recs)'
  <2>1. ~Over(Empty)
    BY EmptyCounted, ToolMemoryAssumption DEF Over, Empty
  <2> QED BY <2>1, EmptyCounted DEF Restart, Fits
<1>5. WorkerI'
  BY ConstantsAre DEF Restart, WorkerI, IdleWorker
<1>6. ReaderI'
  <2>1. ReaderFits(IdleReader, Recs', files', SaidIds') /\ IdleReader.pc = "idle"
    <3>1. {} \in SUBSET Ids /\ {} \in SUBSET (1..Len(Turns)) /\ <<>> \in Seq(Seq(Ids))
      BY EmptySeq
    <3> QED BY <3>1, FreshReader
  <2>2. reader' = [t \in Thread |-> IdleReader]
    BY DEF Restart
  <2> HIDE DEF IdleReader
  <2>3. reader' \in [Thread -> Readers(Recs')]
    BY <2>1, <2>2 DEF ReaderFits
  <2> QED BY <2>1, <2>2, <2>3, ConstantsAre DEF ReaderI
<1>7. RawI'
  BY DEF Restart, RawI
<1> QED BY <1>2, <1>3, <1>4, <1>5, <1>6, <1>7 DEF IInv

LEMMA Inductive == IInv /\ [Next]_vars => IInv'
<1> SUFFICES ASSUME IInv, [Next]_vars PROVE IInv'
  OBVIOUS
<1>1. CASE Remember
  BY <1>1, KeptByRemember
<1>2. CASE Store
  BY <1>2, KeptByStore
<1>3. CASE \E p \in Parser, n \in DOMAIN files : Prefill(p, n) \/ Load(p, n)
  BY <1>3, KeptByPrefill, KeptByLoad
<1>4. CASE Truncate
  BY <1>4, KeptByTruncate
<1>5. CASE WriteMap
  BY <1>5, KeptByWriteMap
<1>6. CASE WriteFlag
  BY <1>6, KeptByWriteFlag
<1>7. CASE Create
  BY <1>7, KeptByCreate
<1>8. CASE LoadDone
  BY <1>8, KeptByLoadDone
<1>9. CASE \E p \in Parser : (\E h \in Histories : Ask(p, h)) \/ Attach(p)
  BY <1>9, KeptByAsk, KeptByAttach
<1>10. CASE \E t \in Thread : Open(t) \/ ReadId(t) \/ ReadBlock(t)
  BY <1>10, KeptByOpen, KeptByReadId, KeptByReadBlock
<1>11. CASE Restart
  BY <1>11, KeptByRestart
<1>12. CASE UNCHANGED vars
  <2>1. /\ Recs \subseteq Recs' /\ SaidIds \subseteq SaidIds' /\ Len(said) <= Len(said')
        /\ (\A i \in 1..Len(said) : said'[i] = said[i]) /\ SaidI'
    BY <1>12, Quiet DEF vars
  <2> QED BY <1>12, <2>1, Stays DEF vars, IInv
<1> QED BY <1>1, <1>2, <1>3, <1>4, <1>5, <1>6, <1>7, <1>8, <1>9, <1>10, <1>11, <1>12 DEF Next

LEMMA Always == Spec => []IInv
BY Initially, Inductive, PTL DEF Spec

-----------------------------------------------------------------------------
(* The theorems.                                                           *)

\* The state has its shape, only the worker that loads reads as the worker, and an
\* open map is the one its file has.
THEOREM TypeCorrect == Spec => []TypeOK
<1>1. IInv => TypeOK
  <2> SUFFICES ASSUME IInv PROVE TypeOK
    OBVIOUS
  <2>1. SaidI /\ WorkerI /\ ReaderI
    BY DEF IInv
  <2>2. ASSUME NEW t \in Thread PROVE
          /\ reader[t].pc \in {"idle", "scan", "read", "rest"}
          /\ reader[t].file # 0 <=> reader[t].pc \in {"read", "rest"}
          /\ reader[t].linked => /\ reader[t].file # 0
                                 /\ reader[t].map = files[reader[t].file].map
    BY <2>1 DEF ReaderI, ReaderFits, Readers
  <2>3. Known(mem) \subseteq SaidIds
    BY DEF IInv, Fits, Recs
  <2> QED BY <2>1, <2>2, <2>3 DEF TypeOK, SaidI, WorkerI, ReaderI
<1> QED BY <1>1, Always, PTL

\* The use list, the id map, the blocks' lists, their reference counts and the byte
\* count agree after every section under tool_mu.
THEOREM CountsAgree == Spec => []BlocksCounted
<1>1. IInv => BlocksCounted
  <2> SUFFICES ASSUME IInv PROVE BlocksCounted
    OBVIOUS
  <2>1. Counted(mem)
    BY DEF IInv, Fits
  <2>2. ToSet(mem.lru) = Known(mem) /\ IsInjective(mem.lru)
    BY <2>1 DEF Counted, Lists
  <2>3. DOMAIN mem.refs = {mem.dsml[id] : id \in Known(mem)}
    BY <2>1 DEF Counted
  <2>4. \A d \in DOMAIN mem.refs :
          /\ ToSet(mem.owners[d]) = {id \in Known(mem) : mem.dsml[id] = d}
          /\ IsInjective(mem.owners[d])
          /\ mem.refs[d] = Len(mem.owners[d])
    BY <2>1 DEF Counted, Lists, Users
  <2>5. mem.bytes = EntryBytes * Len(mem.lru) + BlockBytes * Cardinality(DOMAIN mem.refs)
    BY <2>1 DEF Counted, Weight
  <2> QED BY <2>2, <2>3, <2>4, <2>5 DEF BlocksCounted
<1> QED BY <1>1, Always, PTL

\* Whenever tool_mu is free the memory has at most its entries and its bytes.
THEOREM MemoryIsBounded == Spec => []BoundsKept
<1>1. IInv => BoundsKept
  <2> SUFFICES ASSUME IInv PROVE BoundsKept
    OBVIOUS
  <2>1. Counted(mem) /\ ~Over(mem)
    BY DEF IInv, Fits
  <2>2. Len(mem.lru) \in Nat /\ mem.bytes \in Nat
    BY <2>1, CountedFacts
  <2>3. MaxEntries \in Nat /\ MaxBytes \in Nat
    BY ToolMemoryAssumption
  <2> QED BY <2>1, <2>2, <2>3 DEF BoundsKept, Over
<1> QED BY <1>1, Always, PTL

\* No message is rendered by a block that was not sampled for all of its calls,
\* unless a record was read across a rewrite of its file.
THEOREM ReplaysWhatWasSampled == Spec => []ReplayVerbatim
<1>1. IInv => ReplayVerbatim
  <2> SUFFICES ASSUME IInv, ~torn, NEW p \in Parser, NEW r \in raw[p], NEW i \in DOMAIN r.ids
               PROVE  Sampled(r.ids[i]) = r.dsml
    BY DEF ReplayVerbatim, SampledVerbatim
  <2>1. RawI
    BY DEF IInv
  <2>2. r \in [ids: Seq(Ids), dsml: Dsml]
    BY <2>1 DEF RawI
  <2>3. i \in 1..Len(r.ids)
    BY <2>2, LenProperties
  <2>4. [id |-> r.ids[i], dsml |-> r.dsml] \in Recs
    BY <2>1, <2>3 DEF RawI
  <2> DEFINE q == [id |-> r.ids[i], dsml |-> r.dsml]
  <2>5. q.id = r.ids[i] /\ q.dsml = r.dsml /\ q \in Recs
    BY <2>4
  <2> HIDE DEF q
  <2>6. Sampled(q.id) = q.dsml
    BY <2>5 DEF Recs
  <2> QED BY <2>5, <2>6
<1> QED BY <1>1, Always, PTL

\* The map of a file names only blocks of its own text, each under ids it was
\* sampled for, unless a record was read across a rewrite.
THEOREM MapsAreOfTheirText == Spec => []MapsFitTheirText
<1>1. IInv => MapsFitTheirText
  <2> SUFFICES ASSUME IInv, ~torn, NEW n \in DOMAIN files, NEW i \in DOMAIN files[n].map
               PROVE  /\ files[n].map[i].dsml \in ToSet(Text(n))
                      /\ Sampled(files[n].map[i].id) = files[n].map[i].dsml
    BY DEF MapsFitTheirText
  <2>1. FilesI
    BY DEF IInv
  <2>2. n \in 1..Len(Turns) /\ files[n].map \in Seq(Recs)
    BY <2>1 DEF FilesI
  <2>3. i \in 1..Len(files[n].map)
    BY <2>2, LenProperties
  <2>4. files[n].map[i] \in Recs /\ files[n].map[i].dsml \in ToSet(Text(n))
    BY <2>1, <2>2, <2>3, ElementOfSeq DEF FilesI
  <2> DEFINE q == files[n].map[i]
  <2> HIDE DEF q
  <2>5. Sampled(q.id) = q.dsml
    BY <2>4 DEF Recs, q
  <2> QED BY <2>4, <2>5 DEF q
<1> QED BY <1>1, Always, PTL

-----------------------------------------------------------------------------
(* The order in which the memory forgets.                                  *)

\* If b was used before a, a is forgotten only after b, unless b is what was used last.
InOrder(m, r) ==
  \A i, j \in DOMAIN m.lru :
    i < j /\ m.lru[i] \notin Known(r) => m.lru[j] \notin Known(r) \/ r.lru[1] = m.lru[j]

LEMMA SameInOrder ==
  ASSUME NEW m, Counted(m), NEW r, Known(r) = Known(m)
  PROVE  InOrder(m, r)
<1>1. \A i \in DOMAIN m.lru : m.lru[i] \in Known(m)
  BY ListedAt DEF Counted
<1> QED BY <1>1 DEF InOrder

LEMMA PutInOrder ==
  ASSUME NEW m, Counted(m), NEW id \in Ids, NEW d \in Dsml
  PROVE  InOrder(m, Put(m, id, d))
<1> DEFINE r == Put(m, id, d)
<1>1. /\ Counted(r) /\ Known(r) \subseteq Known(m) \cup {id}
      /\ \A b \in Known(r) \ {id} : \A a \in Ids \ {id} :
            Ahead(m.lru, a, b) => Ahead(r.lru, a, b)
      /\ Known(r) # {} => r.lru[1] = id
  BY PutCounted
<1> HIDE DEF r
<1>2. Lists(m.lru, Known(m)) /\ Lists(r.lru, Known(r)) /\ Known(m) \subseteq Ids
  BY <1>1, CountedFacts DEF Counted
<1>3. Known(r) # {} => id \in Known(r)
  <2> HAVE Known(r) # {}
  <2>1. Len(r.lru) # 0 /\ Len(r.lru) \in Nat
    BY <1>2, ListedAt
  <2>2. 1 \in 1..Len(r.lru)
    BY <2>1
  <2>3. r.lru[1] \in Known(r)
    BY <1>2, <2>2, ListedAt
  <2> QED BY <1>1, <2>3
<1>4. ASSUME NEW i \in DOMAIN m.lru, NEW j \in DOMAIN m.lru, i < j,
             m.lru[i] \notin Known(r), m.lru[j] \in Known(r)
      PROVE  r.lru[1] = m.lru[j]
  <2> DEFINE a == m.lru[i]
             b == m.lru[j]
  <2>1. DOMAIN m.lru = 1..Len(m.lru) /\ a \in Ids /\ Ahead(m.lru, a, b)
    <3>1. DOMAIN m.lru = 1..Len(m.lru)
      BY <1>2, ListedAt
    <3>2. a \in Known(m)
      BY <1>2, <3>1, ListedAt
    <3> QED BY <1>2, <1>4, <3>1, <3>2 DEF Ahead
  <2>2. a \notin Known(r) /\ b \in Known(r)
    BY <1>4
  <2> HIDE DEF a, b
  <2>3. a # id
    BY <1>3, <2>2
  <2>4. b = id
    <3> SUFFICES ASSUME b # id PROVE FALSE
      OBVIOUS
    <3>1. Ahead(r.lru, a, b)
      BY <1>1, <2>1, <2>2, <2>3
    <3> QED BY <1>2, <2>2, <3>1, AheadListed
  <2> QED BY <1>1, <2>2, <2>4 DEF b
<1>5. InOrder(m, r)
  BY <1>4 DEF InOrder
<1> QED BY <1>5 DEF r

\* The calls of a turn are put under fresh ids: what is forgotten is older.
LEMMA TurnInOrder ==
  ASSUME NEW m, Counted(m), ~Over(m), NEW ids \in Seq(Ids), NEW d \in Dsml, Len(ids) > 0,
         \A i \in 1..Len(ids) : ids[i] \notin Known(m)
  PROVE  InOrder(m, PutAll(m, ids, d))
         /\ (Known(PutAll(m, ids, d)) # {} => PutAll(m, ids, d).lru[1] = Last(ids))
<1> DEFINE n == Len(ids)
           K == Known(m)
           New(x) == Known(x) \subseteq K \cup {ids[i] : i \in 1..n}
           Old(x) == \A b \in Known(x) \cap K : \A a \in K :
                        Ahead(m.lru, a, b) => Ahead(x.lru, a, b)
           Good(x) == Counted(x) /\ New(x) /\ Old(x)
<1>1. n \in Nat /\ n \in 1..n /\ K \subseteq Ids /\ \A i \in 1..n : ids[i] \in Ids /\ ids[i] \notin K
  BY LenProperties, ElementOfSeq, CountedFacts
<1>2. PICK h : InTurn(h, m, ids, d)
  BY PutsInOrder
<1>3. /\ h[0] = m
      /\ \A k \in 1..n : h[k] = Put(h[k - 1], ids[k], d)
      /\ h[n] = PutAll(m, ids, d)
  BY <1>2 DEF InTurn
<1> HIDE DEF n, K
<1>4. ASSUME NEW x, Good(x), NEW k \in 1..n
      PROVE  LET r == Put(x, ids[k], d)
             IN Good(r) /\ (Known(r) # {} => r.lru[1] = ids[k])
  <2> DEFINE id == ids[k]
             r == Put(x, id, d)
  <2>1. id \in Ids /\ id \notin K
    BY <1>1
  <2>2. /\ Counted(r) /\ Known(r) \subseteq Known(x) \cup {id}
        /\ \A b \in Known(r) \ {id} : \A a \in Ids \ {id} : Ahead(x.lru, a, b) => Ahead(r.lru, a, b)
        /\ Known(r) # {} => r.lru[1] = id
    BY <1>4, <2>1, PutCounted
  <2> HIDE DEF r
  <2>3. New(r)
    <3>1. id \in {ids[i] : i \in 1..n}
      OBVIOUS
    <3> HIDE DEF id
    <3> QED BY <1>4, <2>2, <3>1
  <2> HIDE DEF id
  <2>4. Old(r)
    <3> TAKE b \in Known(r) \cap K
    <3> TAKE a \in K
    <3> HAVE Ahead(m.lru, a, b)
    <3>1. b # id /\ a # id /\ a \in Ids /\ b \in Known(x)
      BY <1>1, <2>1, <2>2
    <3>2. Ahead(x.lru, a, b)
      BY <1>4, <3>1
    <3> QED BY <2>2, <3>1, <3>2
  <2> QED BY <2>2, <2>3, <2>4 DEF r, id
<1> HIDE DEF Good
<1> DEFINE N == {k \in Nat : k <= n => Good(h[k])}
<1>5. 0 \in N
  BY <1>3 DEF Good, K
<1>6. ASSUME NEW k \in Nat, k \in N PROVE k + 1 \in N
  <2> SUFFICES ASSUME k + 1 <= n PROVE Good(h[k + 1])
    OBVIOUS
  <2>1. k + 1 \in 1..n /\ (k + 1) - 1 = k /\ Good(h[k])
    BY <1>1, <1>6
  <2>2. h[k + 1] = Put(h[k], ids[k + 1], d)
    BY <1>3, <2>1
  <2> QED BY <1>4, <2>1, <2>2
<1>7. Nat \subseteq N
  <2> HIDE DEF N
  <2> QED BY <1>5, <1>6, EveryNumber
<1> DEFINE r == PutAll(m, ids, d)
<1>8. Good(r) /\ (Known(r) # {} => r.lru[1] = ids[n])
  <2>1. n - 1 \in Nat /\ n - 1 <= n
    BY <1>1
  <2>2. Good(h[n - 1])
    BY <1>7, <2>1
  <2>3. r = Put(h[n - 1], ids[n], d)
    BY <1>1, <1>3
  <2> HIDE DEF r
  <2> QED BY <1>1, <1>4, <2>2, <2>3
<1> HIDE DEF r
<1>9. Lists(m.lru, K) /\ Lists(r.lru, Known(r))
  BY <1>8 DEF Good, Counted, K
<1>10. ASSUME NEW i \in DOMAIN m.lru, NEW j \in DOMAIN m.lru, i < j,
              m.lru[i] \notin Known(r), m.lru[j] \in Known(r)
       PROVE  FALSE
  <2>1. DOMAIN m.lru = 1..Len(m.lru)
    BY <1>9, ListedAt
  <2>2. m.lru[i] \in K /\ m.lru[j] \in K /\ Ahead(m.lru, m.lru[i], m.lru[j])
    BY <1>9, <1>10, <2>1, ListedAt DEF Ahead
  <2>3. Ahead(r.lru, m.lru[i], m.lru[j])
    BY <1>8, <1>10, <2>2 DEF Good
  <2> QED BY <1>9, <1>10, <2>3, AheadListed
<1>11. InOrder(m, r)
  BY <1>10 DEF InOrder
<1> QED BY <1>8, <1>11 DEF r, n, Last

\* The restarts are counted.
RestartsI == restarts \in Nat

LEMMA RestartsCounted == Spec => []RestartsI
<1>1. Init => RestartsI
  BY DEF Init, RestartsI
<1>2. RestartsI /\ [Next]_vars => RestartsI'
  <2> SUFFICES ASSUME restarts \in Nat, [Next]_vars PROVE restarts' \in Nat
    BY DEF RestartsI
  <2>1. restarts' = restarts \/ restarts' = restarts + 1
    BY DEF Next, vars, Remember, Store, Prefill, Load, Truncate, WriteMap, WriteFlag, Create,
           LoadDone, Ask, Attach, Open, ReadId, ReadBlock, Restart
  <2> QED BY <2>1
<1> QED BY <1>1, <1>2, PTL DEF Spec

\* The least recently used entries are forgotten first, and the calls of the turn
\* that just ended last.
THEOREM ForgetsTheOldest == Spec => ForgetsOldest
<1> DEFINE Step == /\ InOrder(mem, mem')
                   /\ Len(said') > Len(said) /\ Known(mem') # {} =>
                        mem'.lru[1] = Last(Turns[Len(said')])
<1>1. IInv /\ RestartsI /\ [Next]_vars => (restarts' = restarts => Step)
  <2> SUFFICES ASSUME IInv, RestartsI, [Next]_vars, restarts' = restarts PROVE Step
    OBVIOUS
  <2>1. Counted(mem) /\ ~Over(mem) /\ SaidI /\ Len(said) \in Nat
    BY LenProperties DEF IInv, Fits, SaidI
  <2>2. CASE mem' = mem /\ said' = said
    <3>1. InOrder(mem, mem')
      BY <2>1, <2>2, SameInOrder
    <3>2. ~(Len(said') > Len(said))
      BY <2>1, <2>2
    <3> QED BY <3>1, <3>2
  <2>3. CASE Remember
    <3> DEFINE n == Len(said) + 1
               ids == Turns[n]
    <3>1. n \in 1..Len(Turns)
      <4>1. Len(said) < Len(Turns) /\ Len(Turns) \in Nat
        BY <2>3, ConstantsAre DEF Remember
      <4> QED BY <2>1, <4>1
    <3>2. PICK d \in Dsml : said' = Append(said, d) /\ mem' = PutAll(mem, ids, d)
      BY <2>3 DEF Remember
    <3>3. Len(said') = n
      BY <2>1, <3>2, AppendProperties DEF SaidI
    <3>4. ids \in Seq(Ids) /\ Len(ids) > 0
      BY <3>1, ConstantsAre
    <3>5. \A i \in 1..Len(ids) : ids[i] \notin Known(mem)
      <4> SUFFICES ASSUME NEW i \in 1..Len(ids), ids[i] \in SaidIds PROVE FALSE
        BY DEF IInv, Fits, Recs
      <4>1. PICK k \in DOMAIN said : ids[i] \in ToSet(Turns[k])
        BY DEF SaidIds
      <4>2. k \in 1..Len(Turns) /\ k # n
        <5>1. DOMAIN said = 1..Len(said)
          BY <2>1, LenProperties DEF SaidI
        <5> QED BY <2>1, <3>1, <4>1, <5>1
      <4>3. ids[i] \in ToSet(Turns[n])
        BY <3>1, TurnIds
      <4> HIDE DEF n
      <4> QED BY <3>1, <4>1, <4>2, <4>3, ConstantsAre
    <3> HIDE DEF ids
    <3>6. InOrder(mem, mem') /\ (Known(mem') # {} => mem'.lru[1] = Last(ids))
      BY <2>1, <3>2, <3>4, <3>5, TurnInOrder
    <3> QED BY <3>3, <3>6 DEF ids
  <2>4. CASE \E p \in Parser : Attach(p)
    <3>1. PICK p \in Parser : Attach(p)
      BY <2>4
    <3>2. reader[p].request \in Seq(Seq(Ids))
      BY <3>1 DEF IInv, ReaderI, Thread, Readers
    <3>3. mem' = LookUpMessages(mem, reader[p].request) /\ said' = said
      BY <3>1 DEF Attach
    <3> DEFINE h == reader[p].request
    <3> HIDE DEF h
    <3>4. mem' \in SameBlocks(mem)
      <4>1. LookUpMessages(mem, h) \in SameBlocks(mem)
        BY <2>1, <3>2, AttachKeeps DEF h
      <4> QED BY <3>3, <4>1 DEF h
    <3>5. Known(mem') = Known(mem)
      BY <3>4 DEF SameBlocks, Known
    <3>6. InOrder(mem, mem')
      BY <2>1, <3>5, SameInOrder
    <3>7. ~(Len(said') > Len(said))
      BY <2>1, <3>3
    <3> QED BY <3>6, <3>7
  <2>5. CASE \E t \in Thread : ReadBlock(t)
    <3>1. PICK t \in Thread : ReadBlock(t)
      BY <2>5
    <3> DEFINE r == reader[t]
               id == r.id
               d == r.map[r.pos].dsml
    <3>2. said' = said /\ (mem' = mem \/ (~Ends(r) /\ mem' = Put(mem, id, d)))
      BY <3>1 DEF ReadBlock
    <3>3. ~(Len(said') > Len(said))
      BY <2>1, <3>2
    <3>4. CASE mem' = mem
      BY <2>2, <3>2, <3>4
    <3>5. CASE ~Ends(r) /\ mem' = Put(mem, id, d)
      <4>1. ReaderFits(r, Recs, files, SaidIds) /\ r.pc = "rest"
        BY <3>1 DEF IInv, ReaderI, ReadBlock
      <4>2. r.map[r.pos] \in Recs
        BY <3>5, <4>1, ReadsRecord
      <4>3. id \in Ids /\ d \in Dsml
        BY <2>1, <4>1, <4>2, SaidAreIds DEF ReaderFits, Recs
      <4> HIDE DEF id, d
      <4>4. InOrder(mem, mem')
        BY <2>1, <3>5, <4>3, PutInOrder
      <4> QED BY <3>3, <4>4
    <3> QED BY <3>2, <3>4, <3>5
  <2>6. restarts' # restarts \/ ~Restart
    BY DEF Restart, RestartsI
  <2>7. \/ mem' = mem /\ said' = said
        \/ Remember
        \/ \E p \in Parser : Attach(p)
        \/ \E t \in Thread : ReadBlock(t)
    BY <2>6 DEF Next, vars, Store, Prefill, Load, Truncate, WriteMap, WriteFlag, Create,
                LoadDone, Ask, Open, ReadId
  <2> HIDE DEF Step
  <2> QED BY <2>2, <2>3, <2>4, <2>5, <2>7
<1>2. Spec => [][restarts' = restarts => Step]_vars
  <2>1. IInv /\ RestartsI /\ [Next]_vars => [restarts' = restarts => Step]_vars
    BY <1>1
  <2> QED BY <2>1, Always, RestartsCounted, PTL DEF Spec
<1> QED BY <1>2 DEF ForgetsOldest, InOrder
=============================================================================
