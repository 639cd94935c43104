--------------------------- MODULE RefinementProofs ---------------------------
(***************************************************************************)
(* The SQLite relay implements the in-memory reference, for every set of   *)
(* frames, queues, threads and connections, as long as commands run in the *)
(* order of their relay times.                                             *)
(***************************************************************************)
EXTENDS RelayRefinement, DurableRelayProofs, FiniteSetTheorems,
        WellFoundedInduction

-----------------------------------------------------------------------------
(* Sets of numbers in ascending order.                                     *)

Increasing(s) == \A i, j \in DOMAIN s : i < j => s[i] < s[j]

\* A set of naturals that is not empty has a smallest element.
LEMMA LeastNat ==
  ASSUME NEW T \in SUBSET Nat, T # {}
  PROVE  \E x \in T : \A y \in T : x <= y
<1>1. PICK x \in T : \A y \in T : ~(<<y, x>> \in OpToRel(<, Nat))
  BY NatLessThanWellFounded, WFMin, Zenon
<1>2. \A y \in T : ~(y < x)
  BY <1>1, Zenon DEF OpToRel
<1> QED BY <1>2

\* A finite set of numbers has an ascending enumeration: every number goes to the
\* place that the count of those up to it names.
LEMMA AscendingExists ==
  ASSUME NEW S \in SUBSET Nat, IsFiniteSet(S)
  PROVE  \E s \in [1 .. Cardinality(S) -> S] : Increasing(s)
<1> DEFINE upTo(n) == {k \in S : k <= n}
           rank == [n \in S |-> Cardinality(upTo(n))]
           size == Cardinality(S)
<1>0. size \in Nat
  BY FS_CardinalityType, Zenon
<1>1. ASSUME NEW n \in S
      PROVE  /\ rank[n] \in 1 .. size
             /\ IsFiniteSet(upTo(n)) /\ rank[n] = Cardinality(upTo(n))
  <2>1. IsFiniteSet(upTo(n)) /\ Cardinality(upTo(n)) <= size
    BY FS_Subset, Zenon
  <2>2. Cardinality(upTo(n)) \in Nat /\ Cardinality(upTo(n)) # 0
    <3>1. n \in upTo(n)
      OBVIOUS
    <3> HIDE DEF upTo
    <3> QED BY <2>1, <3>1, FS_CardinalityType, FS_EmptySet, Zenon
  <2> QED BY <1>0, <2>1, <2>2
<1>2. ASSUME NEW m \in S, NEW n \in S, m < n
      PROVE  rank[m] < rank[n]
  <2>1. upTo(m) \subseteq upTo(n) /\ upTo(m) # upTo(n)
    <3>1. n \in upTo(n) /\ n \notin upTo(m)
      BY <1>2
    <3>2. \A k \in S : k <= m => k <= n
      BY <1>2
    <3> QED BY <3>1, <3>2, Zenon
  <2>2. rank[m] <= rank[n] /\ rank[m] # rank[n]
    <3> HIDE DEF upTo
    <3> QED BY <1>1, <2>1, FS_Subset, Zenon
  <2> QED BY <1>1, <2>2
<1>3. rank \in Injection(S, 1 .. size)
  <2>1. rank \in [S -> 1 .. size]
    BY <1>1, Zenon
  <2>2. ASSUME NEW m \in S, NEW n \in S, rank[m] = rank[n]
        PROVE  m = n
    BY <1>1, <1>2, <2>2
  <2> HIDE DEF rank
  <2> QED BY <2>1, <2>2, Zenon DEF Injection, IsInjective
<1>4. rank \in Surjection(S, 1 .. size)
  <2>1. IsFiniteSet(1 .. size) /\ Cardinality(1 .. size) = size
    BY <1>0, FS_Interval
  <2> HIDE DEF rank
  <2> QED BY <1>3, <2>1, FS_Injection, Zenon
<1> DEFINE s == [i \in 1 .. size |-> CHOOSE n \in S : rank[n] = i]
<1>5. ASSUME NEW i \in 1 .. size
      PROVE  s[i] \in S /\ rank[s[i]] = i
  <2>1. \E n \in S : rank[n] = i
    BY <1>4, Zenon DEF Surjection
  <2> HIDE DEF rank
  <2> QED BY <2>1, Zenon
<1>6. ASSUME NEW i \in 1 .. size, NEW j \in 1 .. size, i < j
      PROVE  s[i] < s[j]
  <2>1. /\ s[i] \in S /\ rank[s[i]] = i
        /\ s[j] \in S /\ rank[s[j]] = j
    BY <1>5, Zenon
  <2> HIDE DEF s, rank, size
  <2>2. s[i] \in Nat /\ s[j] \in Nat /\ i \in Nat /\ j \in Nat
    <3>1. s[i] \in Nat /\ s[j] \in Nat
      BY <2>1, Zenon
    <3>2. i \in Nat /\ j \in Nat
      BY <1>0
    <3> QED BY <3>1, <3>2, Zenon
  <2>3. s[i] # s[j]
    BY <1>6, <2>1, <2>2
  <2>4. ~(s[j] < s[i])
    <3> SUFFICES ASSUME s[j] < s[i] PROVE FALSE
      BY Zenon
    <3>1. rank[s[j]] < rank[s[i]]
      BY <1>2, <2>1, Zenon
    <3> QED BY <1>6, <2>1, <2>2, <3>1
  <2> QED BY <2>2, <2>3, <2>4
<1>7. s \in [1 .. size -> S]
  BY <1>5, Zenon
<1> HIDE DEF s
<1> QED BY <1>6, <1>7, Zenon DEF Increasing

\* An ascending enumeration leaves nothing out.
LEMMA IncreasingOnto ==
  ASSUME NEW S \in SUBSET Nat, IsFiniteSet(S),
         NEW s \in [1 .. Cardinality(S) -> S], Increasing(s), NEW n \in S
  PROVE  \E i \in 1 .. Cardinality(S) : s[i] = n
<1> DEFINE size == Cardinality(S)
<1>0. size \in Nat /\ IsFiniteSet(1 .. size) /\ Cardinality(1 .. size) = size
  BY FS_CardinalityType, FS_Interval
<1>1. s \in Injection(1 .. size, S)
  <2>1. ASSUME NEW i \in 1 .. size, NEW j \in 1 .. size, s[i] = s[j]
        PROVE  i = j
    <3>1. s[i] \in Nat /\ s[j] \in Nat
      BY Zenon
    <3> QED BY <1>0, <2>1, <3>1 DEF Increasing
  <2> QED BY <2>1, Zenon DEF Injection, IsInjective
<1>2. s \in Surjection(1 .. size, S)
  BY <1>0, <1>1, FS_Injection, Zenon
<1> QED BY <1>2, Zenon DEF Surjection

\* There is only one.
LEMMA IncreasingUnique ==
  ASSUME NEW S \in SUBSET Nat, IsFiniteSet(S),
         NEW f \in [1 .. Cardinality(S) -> S], Increasing(f),
         NEW g \in [1 .. Cardinality(S) -> S], Increasing(g)
  PROVE  f = g
<1> DEFINE size == Cardinality(S)
           differ == {i \in 1 .. size : f[i] # g[i]}
<1>0. size \in Nat
  BY FS_CardinalityType, Zenon
<1>1. ASSUME NEW i \in 1 .. size, \A j \in 1 .. size : j < i => f[j] = g[j]
      PROVE  ~(f[i] < g[i]) /\ ~(g[i] < f[i])
  <2>0. f[i] \in S /\ g[i] \in S /\ f[i] \in Nat /\ g[i] \in Nat
    BY Zenon
  <2>1. ASSUME f[i] < g[i] PROVE FALSE
    <3>1. PICK j \in 1 .. size : g[j] = f[i]
      BY <2>0, IncreasingOnto, Zenon
    <3>2. CASE j < i
      <4>1. f[j] = f[i] /\ f[j] < f[i]
        BY <1>1, <3>1, <3>2, Zenon DEF Increasing
      <4> QED BY <2>0, <4>1
    <3>3. CASE i < j
      <4>1. g[i] < g[j]
        BY <3>3, Zenon DEF Increasing
      <4> QED BY <2>0, <2>1, <3>1, <4>1
    <3>4. CASE i = j
      BY <2>0, <2>1, <3>1, <3>4
    <3> QED BY <1>0, <3>2, <3>3, <3>4
  <2>2. ASSUME g[i] < f[i] PROVE FALSE
    <3>1. PICK j \in 1 .. size : f[j] = g[i]
      BY <2>0, IncreasingOnto, Zenon
    <3>2. CASE j < i
      <4>1. g[j] = g[i] /\ g[j] < g[i]
        BY <1>1, <3>1, <3>2, Zenon DEF Increasing
      <4> QED BY <2>0, <4>1
    <3>3. CASE i < j
      <4>1. f[i] < f[j]
        BY <3>3, Zenon DEF Increasing
      <4> QED BY <2>0, <2>2, <3>1, <4>1
    <3>4. CASE i = j
      BY <2>0, <2>2, <3>1, <3>4
    <3> QED BY <1>0, <3>2, <3>3, <3>4
  <2> QED BY <2>1, <2>2, Zenon
<1>2. differ = {}
  <2> SUFFICES ASSUME differ # {} PROVE FALSE
    BY Zenon
  <2>1. PICK i \in differ : \A j \in differ : i <= j
    <3>1. differ \in SUBSET Nat
      BY <1>0
    <3> HIDE DEF differ
    <3> QED BY <3>1, LeastNat, Zenon
  <2>2. i \in 1 .. size /\ \A j \in 1 .. size : j < i => f[j] = g[j]
    BY <1>0, <2>1
  <2>3. f[i] \in Nat /\ g[i] \in Nat /\ f[i] # g[i]
    BY <2>2, Zenon
  <2> QED BY <1>1, <2>2, <2>3
<1>3. \A i \in 1 .. size : f[i] = g[i]
  BY <1>2, Zenon
<1>4. f = [i \in 1 .. size |-> f[i]] /\ g = [i \in 1 .. size |-> g[i]]
  BY Zenon
<1> HIDE DEF size
<1> QED BY <1>3, <1>4, Zenon

\* Ascending is that enumeration.
LEMMA AscendingIs ==
  ASSUME NEW S \in SUBSET Nat, IsFiniteSet(S)
  PROVE  Ascending(S) \in [1 .. Cardinality(S) -> S] /\ Increasing(Ascending(S))
<1>1. \E s \in [1 .. Cardinality(S) -> S] :
        \A i, j \in DOMAIN s : i < j => s[i] < s[j]
  BY AscendingExists, Zenon DEF Increasing
<1> QED BY <1>1, Zenon DEF Ascending, Increasing

-----------------------------------------------------------------------------
(* Rows in the order of their row identifiers.                             *)

\* Rows as a table holds them, and a list of all of them in that order.
RowSet(rows) ==
  /\ rows \subseteq MessageRow /\ IsFiniteSet(rows)
  /\ \A m, n \in rows : m.sequence = n.sequence => m = n

IsListing(e, rows) ==
  /\ e \in [1 .. Cardinality(rows) -> rows]
  /\ \A i, j \in 1 .. Cardinality(rows) : i < j => e[i].sequence < e[j].sequence

SequencesOf(rows) == {m.sequence : m \in rows}

\* Rows are as many as their identifiers.
LEMMA SequencesType ==
  ASSUME NEW rows, RowSet(rows)
  PROVE  /\ SequencesOf(rows) \in SUBSET Nat /\ IsFiniteSet(SequencesOf(rows))
         /\ Cardinality(SequencesOf(rows)) = Cardinality(rows)
         /\ Cardinality(rows) \in Nat
<1> DEFINE f == [m \in rows |-> m.sequence]
<1>1. SequencesOf(rows) \in SUBSET Nat
  BY DurableAssumption DEF RowSet, MessageRow, SequencesOf
<1>2. f \in Bijection(rows, SequencesOf(rows))
  BY Zenon DEF RowSet, SequencesOf, Bijection, Injection, Surjection, IsInjective
<1>3. ExistsBijection(rows, SequencesOf(rows))
  BY <1>2, Zenon DEF ExistsBijection
<1> QED BY <1>1, <1>3, FS_Bijection, FS_CardinalityType, Zenon DEF RowSet

\* The identifiers of a listing are the ascending ones.
LEMMA ListingAscends ==
  ASSUME NEW rows, RowSet(rows), NEW e, IsListing(e, rows)
  PROVE  Ascending(SequencesOf(rows)) = [i \in 1 .. Cardinality(rows) |-> e[i].sequence]
<1> DEFINE S == SequencesOf(rows)
           s == [i \in 1 .. Cardinality(rows) |-> e[i].sequence]
<1>1. /\ S \in SUBSET Nat /\ IsFiniteSet(S) /\ Cardinality(S) = Cardinality(rows)
  BY SequencesType, Zenon
<1>2. s \in [1 .. Cardinality(S) -> S]
  BY <1>1, Zenon DEF IsListing, SequencesOf
<1>3. Increasing(s)
  BY Zenon DEF IsListing, Increasing
<1>4. Ascending(S) \in [1 .. Cardinality(S) -> S] /\ Increasing(Ascending(S))
  BY <1>1, AscendingIs
<1> HIDE DEF s, S
<1>5. Ascending(S) = s
  BY <1>1, <1>2, <1>3, <1>4, IncreasingUnique
<1> QED BY <1>5, Zenon DEF s, S

\* BySequence is what a listing lists.
LEMMA BySequenceIs ==
  ASSUME NEW rows, RowSet(rows), NEW e, IsListing(e, rows)
  PROVE  BySequence(rows) = [i \in 1 .. Cardinality(rows) |-> MessageOf(e[i])]
<1> DEFINE order == Ascending({m.sequence : m \in rows})
<1>1. order = [i \in 1 .. Cardinality(rows) |-> e[i].sequence]
  BY ListingAscends, Zenon DEF SequencesOf
<1>2. ASSUME NEW i \in 1 .. Cardinality(rows)
      PROVE  (CHOOSE m \in rows : m.sequence = order[i]) = e[i]
  <2>1. e[i] \in rows /\ order[i] = e[i].sequence
    BY <1>1, Zenon DEF IsListing
  <2>2. \A m \in rows : m.sequence = order[i] => m = e[i]
    BY <2>1, Zenon DEF RowSet
  <2> HIDE DEF order
  <2> QED BY <2>1, <2>2, Zenon
<1>3. DOMAIN order = 1 .. Cardinality(rows)
  BY <1>1, Zenon
<1>4. BySequence(rows) =
        [i \in DOMAIN order |-> MessageOf(CHOOSE m \in rows : m.sequence = order[i])]
  BY Zenon DEF BySequence
<1> HIDE DEF order
<1> QED BY <1>2, <1>3, <1>4

\* Rows can be listed.
LEMMA ListingExists ==
  ASSUME NEW rows, RowSet(rows)
  PROVE  \E e : IsListing(e, rows)
<1> DEFINE S == SequencesOf(rows)
           order == Ascending(S)
           e == [i \in 1 .. Cardinality(rows) |-> CHOOSE m \in rows : m.sequence = order[i]]
<1>1. /\ order \in [1 .. Cardinality(rows) -> S] /\ Increasing(order)
  BY SequencesType, AscendingIs, Zenon
<1>2. ASSUME NEW i \in 1 .. Cardinality(rows)
      PROVE  e[i] \in rows /\ e[i].sequence = order[i]
  <2>1. \E m \in rows : m.sequence = order[i]
    BY <1>1, Zenon DEF SequencesOf
  <2> HIDE DEF order
  <2> QED BY <2>1, Zenon
<1>3. e \in [1 .. Cardinality(rows) -> rows]
  BY <1>2, Zenon
<1>4. \A i, j \in 1 .. Cardinality(rows) : i < j => e[i].sequence < e[j].sequence
  <2> HIDE DEF e, order
  <2> QED BY <1>1, <1>2, Zenon DEF Increasing
<1> HIDE DEF e
<1> QED BY <1>3, <1>4, Zenon DEF IsListing

\* A listing leaves no row out and lists none twice.
LEMMA ListingOnto ==
  ASSUME NEW rows, RowSet(rows), NEW e, IsListing(e, rows)
  PROVE  /\ \A m \in rows : \E i \in 1 .. Cardinality(rows) : e[i] = m
         /\ \A i, j \in 1 .. Cardinality(rows) : e[i] = e[j] => i = j
         /\ e \in Bijection(1 .. Cardinality(rows), rows)
<1> DEFINE size == Cardinality(rows)
<1>0. size \in Nat /\ IsFiniteSet(1 .. size) /\ Cardinality(1 .. size) = size
  BY SequencesType, FS_Interval
<1>1. ASSUME NEW i \in 1 .. size, NEW j \in 1 .. size, e[i] = e[j]
      PROVE  i = j
  <2>1. e[i].sequence \in Nat /\ e[j].sequence \in Nat
    BY DEF IsListing, RowSet, MessageRow
  <2> QED BY <1>0, <1>1, <2>1 DEF IsListing
<1>2. e \in Injection(1 .. size, rows)
  BY <1>1, Zenon DEF IsListing, Injection, IsInjective
<1>3. e \in Surjection(1 .. size, rows)
  BY <1>0, <1>2, FS_Injection, Zenon DEF RowSet
<1> QED BY <1>1, <1>2, <1>3, Zenon DEF Surjection, Bijection

\* The list of a table is a list of messages.
LEMMA BySequenceType ==
  ASSUME NEW rows, RowSet(rows)
  PROVE  /\ BySequence(rows) \in Seq(QueuedMessage)
         /\ Len(BySequence(rows)) = Cardinality(rows)
         /\ DOMAIN BySequence(rows) = 1 .. Cardinality(rows)
<1>1. PICK e : IsListing(e, rows)
  BY ListingExists, Zenon
<1>2. BySequence(rows) = [i \in 1 .. Cardinality(rows) |-> MessageOf(e[i])]
  BY <1>1, BySequenceIs, Zenon
<1>3. \A i \in 1 .. Cardinality(rows) :
        MessageOf(e[i]) \in QueuedMessage
  BY <1>1 DEF IsListing, RowSet, MessageRow, MessageOf, QueuedMessage
<1>4. Cardinality(rows) \in Nat
  BY SequencesType, Zenon
<1>5. BySequence(rows) \in [1 .. Cardinality(rows) -> QueuedMessage]
  BY <1>2, <1>3, Zenon
<1>6. BySequence(rows) \in Seq(QueuedMessage) /\ Len(BySequence(rows)) = Cardinality(rows)
  BY <1>4, <1>5
<1> QED BY <1>5, <1>6

\* Nothing is listed as nothing.
LEMMA EmptyBySequence == BySequence({}) = <<>> /\ RowSet({})
<1>1. RowSet({}) /\ Cardinality({}) = 0
  BY FS_EmptySet, Zenon DEF RowSet
<1>2. PICK e : IsListing(e, {})
  BY <1>1, ListingExists, Zenon
<1>3. BySequence({}) = [i \in 1 .. 0 |-> MessageOf(e[i])]
  BY <1>1, <1>2, BySequenceIs
<1> QED BY <1>1, <1>3

\* A row with the largest identifier comes last, as push_back puts it.
LEMMA AppendBySequence ==
  ASSUME NEW rows, RowSet(rows), NEW new \in MessageRow,
         \A m \in rows : m.sequence < new.sequence
  PROVE  /\ RowSet(rows \cup {new})
         /\ BySequence(rows \cup {new}) = Append(BySequence(rows), MessageOf(new))
<1> DEFINE size == Cardinality(rows)
           more == rows \cup {new}
<1>0. size \in Nat /\ IsFiniteSet(rows) /\ rows \subseteq MessageRow
  BY SequencesType DEF RowSet
<1>1. new \notin rows /\ new.sequence \in Nat
  BY <1>0 DEF MessageRow
<1>2. IsFiniteSet(more) /\ Cardinality(more) = size + 1
  BY <1>0, <1>1, FS_AddElement, Zenon
<1>3. RowSet(more)
  <2>1. \A m \in rows : m.sequence # new.sequence
    BY <1>0 DEF MessageRow
  <2> QED BY <1>2, <2>1 DEF RowSet
<1>4. PICK e : IsListing(e, rows)
  BY ListingExists
<1> DEFINE e2 == [i \in 1 .. size + 1 |-> IF i <= size THEN e[i] ELSE new]
<1>5. IsListing(e2, more)
  <2>1. e2 \in [1 .. size + 1 -> more]
    BY <1>0, <1>4 DEF IsListing
  <2>2. ASSUME NEW i \in 1 .. size + 1, NEW j \in 1 .. size + 1, i < j
        PROVE  e2[i].sequence < e2[j].sequence
    <3>1. i \in 1 .. size /\ e2[i] = e[i] /\ e[i] \in rows
      BY <1>0, <1>4, <2>2 DEF IsListing
    <3>2. CASE j <= size
      <4>1. j \in 1 .. size /\ e2[j] = e[j]
        BY <1>0, <3>2
      <4> QED BY <1>4, <2>2, <3>1, <4>1, Zenon DEF IsListing
    <3>3. CASE ~(j <= size)
      <4>1. e2[j] = new
        BY <3>3
      <4> QED BY <3>1, <4>1
    <3> QED BY <3>2, <3>3, Zenon
  <2> HIDE DEF e2
  <2> QED BY <1>2, <2>1, <2>2, Zenon DEF IsListing
<1>6. BySequence(more) = [i \in 1 .. size + 1 |-> MessageOf(e2[i])]
  <2> HIDE DEF e2, more
  <2>1. BySequence(more) = [i \in 1 .. Cardinality(more) |-> MessageOf(e2[i])]
    BY <1>3, <1>5, BySequenceIs, Zenon
  <2> QED BY <1>2, <2>1, Zenon
<1>7. BySequence(rows) = [i \in 1 .. size |-> MessageOf(e[i])]
  BY <1>4, BySequenceIs
<1>8. BySequence(rows) \in Seq(QueuedMessage)
      /\ Len(BySequence(rows)) = size
  BY BySequenceType
<1>9. MessageOf(new) \in QueuedMessage
  BY DEF MessageRow, MessageOf, QueuedMessage
<1> DEFINE list == BySequence(rows)
           last == MessageOf(new)
<1>10. BySequence(more) = [i \in 1 .. size + 1 |-> IF i <= size THEN list[i] ELSE last]
  <2>1. ASSUME NEW i \in 1 .. size + 1
        PROVE  MessageOf(e2[i]) = IF i <= size THEN list[i] ELSE last
    <3>1. CASE i <= size
      BY <1>0, <1>7, <3>1
    <3>2. CASE ~(i <= size)
      BY <1>0, <3>2
    <3> QED BY <3>1, <3>2
  <2> HIDE DEF e2, list, last
  <2> QED BY <1>6, <2>1, Zenon
<1>11. Append(list, last) = [i \in 1 .. size + 1 |-> IF i <= size THEN list[i] ELSE last]
  <2> HIDE DEF list, last, size
  <2>1. list \in Seq(QueuedMessage) /\ Len(list) = size /\ last \in QueuedMessage
    BY <1>8, <1>9 DEF list, last
  <2>2. /\ Append(list, last) \in Seq(QueuedMessage) /\ Len(Append(list, last)) = size + 1
        /\ \A i \in 1 .. size + 1 :
             Append(list, last)[i] = IF i <= size THEN list[i] ELSE last
    BY <1>0, <2>1
  <2>3. Append(list, last) = [i \in 1 .. size + 1 |-> Append(list, last)[i]]
    <3> DEFINE appended == Append(list, last)
    <3> HIDE DEF appended
    <3>1. appended \in Seq(QueuedMessage) /\ Len(appended) = size + 1
      BY <2>2 DEF appended
    <3>2. appended = [i \in 1 .. Len(appended) |-> appended[i]]
      BY <3>1
    <3> QED BY <3>1, <3>2 DEF appended
  <2> QED BY <2>2, <2>3, Zenon
<1> QED BY <1>3, <1>10, <1>11, Zenon

\* The head of the list is the row with the smallest identifier, and without it the
\* list is the tail.
LEMMA HeadBySequence ==
  ASSUME NEW rows, RowSet(rows), rows # {}
  PROVE  \E m \in rows :
           /\ First(rows) = {m}
           /\ BySequence(rows) # <<>>
           /\ Head(BySequence(rows)) = MessageOf(m)
           /\ RowSet(rows \ {m})
           /\ BySequence(rows \ {m}) = Tail(BySequence(rows))
<1> DEFINE size == Cardinality(rows)
<1>0. size \in Nat /\ size # 0 /\ IsFiniteSet(rows) /\ rows \subseteq MessageRow
  BY SequencesType, FS_EmptySet DEF RowSet
<1>1. PICK e : IsListing(e, rows)
  BY ListingExists
<1>2. 1 \in 1 .. size /\ e[1] \in rows
  BY <1>0, <1>1 DEF IsListing
<1>3. \A m \in rows : m.sequence \in Nat
  BY <1>0 DEF MessageRow
<1>4. ASSUME NEW m \in rows PROVE e[1].sequence <= m.sequence
  <2>1. PICK i \in 1 .. size : e[i] = m
    BY <1>1, ListingOnto
  <2>2. CASE i = 1
    BY <1>2, <1>3, <2>1, <2>2
  <2>3. CASE 1 < i
    <3>1. e[1].sequence < e[i].sequence
      BY <1>1, <1>2, <2>3 DEF IsListing
    <3> QED BY <1>2, <1>3, <2>1, <3>1
  <2> QED BY <1>0, <2>2, <2>3
<1>5. First(rows) = {e[1]}
  <2>1. e[1] \in First(rows)
    BY <1>2, <1>4 DEF First
  <2>2. ASSUME NEW m \in First(rows) PROVE m = e[1]
    <3>1. m \in rows /\ m.sequence <= e[1].sequence
      BY <1>2 DEF First
    <3>2. m.sequence = e[1].sequence
      BY <1>2, <1>3, <1>4, <3>1
    <3> QED BY <1>2, <3>1, <3>2 DEF RowSet
  <2> QED BY <2>1, <2>2
<1>6. /\ IsFiniteSet(rows \ {e[1]}) /\ Cardinality(rows \ {e[1]}) = size - 1
  BY <1>0, <1>2, FS_RemoveElement
<1>7. RowSet(rows \ {e[1]})
  BY <1>6 DEF RowSet
<1> DEFINE e2 == [i \in 1 .. size - 1 |-> e[i + 1]]
<1>8. IsListing(e2, rows \ {e[1]})
  <2>1. ASSUME NEW i \in 1 .. size - 1
        PROVE  i + 1 \in 1 .. size /\ e[i + 1] \in rows \ {e[1]}
    <3>1. i + 1 \in 1 .. size /\ i + 1 # 1
      BY <1>0
    <3> QED BY <1>1, <1>2, <3>1, ListingOnto, ZenonT(30) DEF IsListing
  <2>2. e2 \in [1 .. size - 1 -> rows \ {e[1]}]
    BY <2>1
  <2>3. ASSUME NEW i \in 1 .. size - 1, NEW j \in 1 .. size - 1, i < j
        PROVE  e2[i].sequence < e2[j].sequence
    <3>1. i + 1 \in 1 .. size /\ j + 1 \in 1 .. size /\ i + 1 < j + 1
      BY <1>0, <2>3
    <3> QED BY <1>1, <3>1 DEF IsListing
  <2> HIDE DEF e2
  <2> QED BY <1>6, <2>2, <2>3, Zenon DEF IsListing
<1> DEFINE list == BySequence(rows)
<1>9. list = [i \in 1 .. size |-> MessageOf(e[i])]
  BY <1>1, BySequenceIs
<1>10. BySequence(rows \ {e[1]}) = [i \in 1 .. size - 1 |-> MessageOf(e2[i])]
  <2> DEFINE rest == rows \ {e[1]}
  <2> HIDE DEF e2, rest
  <2>0. RowSet(rest)
    BY <1>7 DEF rest
  <2>a. IsListing(e2, rest)
    BY <1>8 DEF rest
  <2>1. BySequence(rest) = [i \in 1 .. Cardinality(rest) |-> MessageOf(e2[i])]
    BY <2>0, <2>a, BySequenceIs
  <2>2. BySequence(rest) = [i \in 1 .. size - 1 |-> MessageOf(e2[i])]
    BY <1>6, <2>1, Zenon DEF rest
  <2> QED BY <2>2, Zenon DEF rest
<1>11. list \in Seq(QueuedMessage) /\ Len(list) = size
  BY BySequenceType
<1>12. BySequence(rows \ {e[1]}) = [i \in 1 .. size - 1 |-> list[i + 1]]
  <2>1. ASSUME NEW i \in 1 .. size - 1
        PROVE  MessageOf(e2[i]) = list[i + 1]
    BY <1>0, <1>9
  <2> HIDE DEF e2, list
  <2> QED BY <1>10, <2>1, Zenon
<1>13. list # <<>> /\ Head(list) = list[1] /\ Tail(list) = [i \in 1 .. size - 1 |-> list[i + 1]]
  <2> HIDE DEF list, size
  <2>1. list # <<>> /\ Head(list) = list[1]
    BY <1>0, <1>11
  <2>2. /\ Tail(list) \in Seq(QueuedMessage) /\ Len(Tail(list)) = size - 1
        /\ \A i \in 1 .. size - 1 : Tail(list)[i] = list[i + 1]
    BY <1>0, <1>11, <2>1
  <2>3. Tail(list) = [i \in 1 .. size - 1 |-> Tail(list)[i]]
    <3> DEFINE tail == Tail(list)
    <3> HIDE DEF tail
    <3>1. tail \in Seq(QueuedMessage) /\ Len(tail) = size - 1
      BY <2>2 DEF tail
    <3>2. tail = [i \in 1 .. Len(tail) |-> tail[i]]
      BY <3>1
    <3> QED BY <3>1, <3>2 DEF tail
  <2> QED BY <2>1, <2>2, <2>3
<1>14. list[1] = MessageOf(e[1])
  BY <1>2, <1>9
<1> QED BY <1>2, <1>5, <1>7, <1>12, <1>13, <1>14, Zenon

\* A row makes a message.
LEMMA MessageOfType ==
  ASSUME NEW m \in MessageRow
  PROVE  MessageOf(m) \in QueuedMessage
BY DEF MessageRow, MessageOf, QueuedMessage

\* A message marked delivered differs in nothing else.
LEMMA MarkMessage ==
  ASSUME NEW old \in QueuedMessage, NEW new \in QueuedMessage,
         new.id = old.id, new.payload = old.payload,
         new.expires_at = old.expires_at, new.delivered = TRUE
  PROVE  [old EXCEPT !.delivered = TRUE] = new
BY DEF QueuedMessage

\* Marking the first row delivered marks the head of the list.
LEMMA MarkBySequence ==
  ASSUME NEW rows, RowSet(rows), NEW m \in First(rows)
  PROVE  LET marked == [m EXCEPT !.delivered = TRUE]
             after == (rows \ {m}) \cup {marked}
         IN  /\ RowSet(after)
             /\ BySequence(after) = [BySequence(rows) EXCEPT ![1].delivered = TRUE]
<1> DEFINE size == Cardinality(rows)
           marked == [m EXCEPT !.delivered = TRUE]
           after == (rows \ {m}) \cup {marked}
<1>0. size \in Nat /\ IsFiniteSet(rows) /\ rows \subseteq MessageRow /\ m \in rows
  BY SequencesType DEF RowSet, First
<1>1. marked \in MessageRow /\ marked.sequence = m.sequence
  BY <1>0, ZenonT(30) DEF MessageRow
<1>2. MessageOf(marked) = [MessageOf(m) EXCEPT !.delivered = TRUE]
  <2>1. /\ marked.id = m.id /\ marked.payload = m.payload
        /\ marked.expires_at = m.expires_at /\ marked.delivered = TRUE
    BY <1>0 DEF MessageRow
  <2> DEFINE new == MessageOf(marked)
             old == MessageOf(m)
  <2>2. /\ new.id = old.id /\ new.payload = old.payload
        /\ new.expires_at = old.expires_at /\ new.delivered = TRUE
    <3> HIDE DEF marked
    <3> QED BY <2>1 DEF MessageOf
  <2>3. new \in QueuedMessage /\ old \in QueuedMessage
    BY <1>0, <1>1, MessageOfType
  <2> HIDE DEF new, old
  <2>4. [old EXCEPT !.delivered = TRUE] = new
    BY <2>2, <2>3, MarkMessage, ZenonT(30)
  <2> QED BY <2>4 DEF new, old
<1> HIDE DEF marked
<1>3. IsFiniteSet(after) /\ Cardinality(after) = size
  <2>1. IsFiniteSet(rows \ {m}) /\ Cardinality(rows \ {m}) = size - 1
    BY <1>0, FS_RemoveElement
  <2>2. marked \notin rows \ {m}
    BY <1>0, <1>1 DEF RowSet
  <2>3. IsFiniteSet(after) /\ Cardinality(after) = (size - 1) + 1
    BY <2>1, <2>2, FS_AddElement, Zenon
  <2> HIDE DEF size, after
  <2> QED BY <1>0, <2>3
<1>4. RowSet(after)
  <2>1. after \subseteq MessageRow
    BY <1>0, <1>1
  <2>2. ASSUME NEW a \in after, NEW b \in after, a.sequence = b.sequence
        PROVE  a = b
    BY <1>0, <1>1, <2>2, Zenon DEF RowSet
  <2> HIDE DEF after
  <2> QED BY <1>3, <2>1, <2>2 DEF RowSet
<1>5. PICK e : IsListing(e, rows)
  BY ListingExists
<1>6. PICK k \in 1 .. size : e[k] = m
  BY <1>0, <1>5, ListingOnto
<1>7. k = 1
  <2>1. 1 \in 1 .. size /\ e[1] \in rows /\ e[1].sequence \in Nat /\ m.sequence \in Nat
    BY <1>0, <1>5, <1>6 DEF IsListing, MessageRow
  <2>2. m.sequence <= e[1].sequence
    BY <2>1, Zenon DEF First
  <2>3. 1 < k => e[1].sequence < e[k].sequence
    BY <1>5, <2>1 DEF IsListing
  <2> QED BY <1>0, <1>6, <2>1, <2>2, <2>3
<1> DEFINE e2 == [i \in 1 .. size |-> IF i = 1 THEN marked ELSE e[i]]
<1>8. IsListing(e2, after)
  <2>1. ASSUME NEW i \in 1 .. size
        PROVE  e2[i] \in after /\ e2[i].sequence = e[i].sequence
    <3>1. CASE i = 1
      BY <1>1, <1>6, <1>7, <3>1
    <3>2. CASE i # 1
      <4>1. e[i] \in rows /\ e[i] # m
        <5>1. e[i] \in rows
          BY <1>5 DEF IsListing
        <5>2. 1 \in 1 .. size /\ e[1] = m
          BY <1>6, <1>7
        <5> QED BY <1>5, <3>2, <5>1, <5>2, ListingOnto
      <4> QED BY <3>2, <4>1
    <3> QED BY <3>1, <3>2
  <2>2. e2 \in [1 .. size -> after]
    BY <2>1
  <2>3. \A i, j \in 1 .. size : i < j => e2[i].sequence < e2[j].sequence
    <3> HIDE DEF e2
    <3> QED BY <1>5, <2>1 DEF IsListing
  <2> HIDE DEF e2, after
  <2> QED BY <1>3, <2>2, <2>3 DEF IsListing
<1> DEFINE list == BySequence(rows)
<1>9. BySequence(after) = [i \in 1 .. size |-> MessageOf(e2[i])]
  <2> HIDE DEF e2, after
  <2>1. BySequence(after) = [i \in 1 .. Cardinality(after) |-> MessageOf(e2[i])]
    BY <1>4, <1>8, BySequenceIs, Zenon
  <2> QED BY <1>3, <2>1, Zenon
<1>10. list = [i \in 1 .. size |-> MessageOf(e[i])]
  BY <1>5, BySequenceIs
<1>11. [list EXCEPT ![1].delivered = TRUE]
         = [i \in 1 .. size |-> IF i = 1 THEN [list[1] EXCEPT !.delivered = TRUE] ELSE list[i]]
  <2>1. list = [i \in 1 .. size |-> list[i]]
    BY <1>10
  <2> HIDE DEF list
  <2> QED BY <2>1, ZenonT(30)
<1>12. ASSUME NEW i \in 1 .. size
       PROVE  MessageOf(e2[i]) =
                IF i = 1 THEN [list[1] EXCEPT !.delivered = TRUE] ELSE list[i]
  <2>1. CASE i = 1
    <3>1. list[1] = MessageOf(m) /\ e2[1] = marked
      BY <1>6, <1>7, <1>10
    <3> HIDE DEF list, e2
    <3> QED BY <1>2, <2>1, <3>1
  <2>2. CASE i # 1
    <3>1. list[i] = MessageOf(e[i]) /\ e2[i] = e[i]
      BY <1>10, <2>2
    <3> HIDE DEF list, e2
    <3> QED BY <2>2, <3>1
  <2> QED BY <2>1, <2>2
<1>13. BySequence(after) = [list EXCEPT ![1].delivered = TRUE]
  <2> HIDE DEF e2, list, after
  <2> QED BY <1>9, <1>11, <1>12, ZenonT(30)
<1> QED BY <1>4, <1>13 DEF marked

\* Both specifications count alike.
LEMMA SameCardinality ==
  ASSUME NEW S
  PROVE  Reference!Cardinality(S) = Cardinality(S)
BY Zenon DEF Reference!Cardinality, Cardinality

\* What retain leaves of the list are the rows that have not expired.
LEMMA DiscardBySequence ==
  ASSUME NEW rows, RowSet(rows), NEW at \in Timestamps
  PROVE  LET live == {m \in rows : m.expires_at > at}
         IN  /\ RowSet(live)
             /\ Reference!DiscardExpired(BySequence(rows), at) = BySequence(live)
<1> DEFINE size == Cardinality(rows)
           live == {m \in rows : m.expires_at > at}
           list == BySequence(rows)
           places == {i \in DOMAIN list : list[i].expires_at > at}
           kept == Ascending(places)
<1>0. size \in Nat /\ IsFiniteSet(rows) /\ rows \subseteq MessageRow
  BY SequencesType DEF RowSet
<1>1. RowSet(live)
  <2>1. IsFiniteSet(live)
    BY <1>0, FS_Subset
  <2> QED BY <2>1 DEF RowSet
<1>2. PICK e : IsListing(e, rows)
  BY ListingExists
<1>3. list = [i \in 1 .. size |-> MessageOf(e[i])]
  BY <1>2, BySequenceIs
<1>4. \A i \in 1 .. size : list[i] = MessageOf(e[i]) /\ list[i].expires_at = e[i].expires_at
  BY <1>3 DEF MessageOf
<1>5. DOMAIN list = 1 .. size
  BY <1>3, Zenon
<1> HIDE DEF list
<1>6. places = {i \in 1 .. size : e[i].expires_at > at}
  BY <1>4, <1>5
<1>7. places \in SUBSET Nat /\ IsFiniteSet(places) /\ places \subseteq 1 .. size
  <2>1. places \subseteq 1 .. size
    BY <1>6, Zenon
  <2>2. IsFiniteSet(1 .. size)
    BY <1>0, FS_Interval
  <2> HIDE DEF places
  <2>3. IsFiniteSet(places)
    BY <2>1, <2>2, FS_Subset, Zenon
  <2> QED BY <1>0, <2>1, <2>3
<1>8. Cardinality(places) = Cardinality(live)
  <2> DEFINE f == [i \in places |-> e[i]]
  <2>1. f \in Bijection(places, live)
    <3>1. ASSUME NEW i \in places PROVE f[i] = e[i] /\ e[i] \in live
      BY <1>2, <1>6 DEF IsListing
    <3>2. ASSUME NEW m \in live PROVE \E i \in places : f[i] = m
      <4>1. PICK i \in 1 .. size : e[i] = m
        BY <1>2, ListingOnto
      <4>2. i \in places
        BY <1>6, <4>1, Zenon
      <4> QED BY <3>1, <4>1, <4>2
    <3>3. ASSUME NEW i \in places, NEW j \in places, f[i] = f[j] PROVE i = j
      <4>1. e[i] = e[j]
        BY <3>1, <3>3, Zenon
      <4>2. i \in 1 .. size /\ j \in 1 .. size
        BY <1>7, Zenon
      <4> QED BY <1>2, <4>1, <4>2, ListingOnto, Zenon
    <3>4. f \in [places -> live]
      BY <3>1, ZenonT(30)
    <3> HIDE DEF f, places, live
    <3> QED BY <3>2, <3>3, <3>4 DEF Bijection, Injection, Surjection, IsInjective
  <2> HIDE DEF f, places, live
  <2> QED BY <1>7, <2>1, FS_Bijection DEF ExistsBijection
<1>9. kept \in [1 .. Cardinality(live) -> places] /\ Increasing(kept)
  <2> HIDE DEF places, live
  <2> QED BY <1>7, <1>8, AscendingIs
<1> DEFINE e2 == [k \in 1 .. Cardinality(live) |-> e[kept[k]]]
<1>10. IsListing(e2, live)
  <2>1. ASSUME NEW k \in 1 .. Cardinality(live)
        PROVE  kept[k] \in 1 .. size /\ e2[k] = e[kept[k]] /\ e[kept[k]] \in live
    <3>1. kept[k] \in places
      BY <1>9
    <3> HIDE DEF kept
    <3> QED BY <1>2, <1>6, <1>7, <3>1 DEF IsListing
  <2>2. e2 \in [1 .. Cardinality(live) -> live]
    <3> HIDE DEF kept, live
    <3> QED BY <2>1
  <2>3. ASSUME NEW i \in 1 .. Cardinality(live), NEW j \in 1 .. Cardinality(live), i < j
        PROVE  e2[i].sequence < e2[j].sequence
    <3>1. kept[i] < kept[j]
      <4> HIDE DEF kept, live
      <4> QED BY <1>9, <2>3 DEF Increasing
    <3> HIDE DEF kept, live, e2
    <3> QED BY <1>2, <2>1, <3>1 DEF IsListing
  <2> HIDE DEF e2, live
  <2> QED BY <2>2, <2>3 DEF IsListing
<1>11. BySequence(live) = [k \in 1 .. Cardinality(live) |-> MessageOf(e2[k])]
  <2> HIDE DEF e2, live
  <2> QED BY <1>1, <1>10, BySequenceIs, Zenon
<1>12. Reference!DiscardExpired(list, at) = [k \in DOMAIN kept |-> list[kept[k]]]
  <2>1. Reference!Ascending(places) = kept
    BY SameCardinality, ZenonT(30) DEF Reference!Ascending, Ascending
  <2> HIDE DEF kept
  <2> QED BY <2>1, Zenon DEF Reference!DiscardExpired, places
<1>13. DOMAIN kept = 1 .. Cardinality(live)
  <2> HIDE DEF kept, live
  <2> QED BY <1>9
<1>14. ASSUME NEW k \in 1 .. Cardinality(live)
       PROVE  list[kept[k]] = MessageOf(e2[k])
  <2>1. kept[k] \in 1 .. size
    <3> HIDE DEF kept, live
    <3> QED BY <1>7, <1>9
  <2>2. e2[k] = e[kept[k]]
    BY Zenon
  <2> HIDE DEF kept, live, e2
  <2> QED BY <1>4, <2>1, <2>2
<1>15. Reference!DiscardExpired(list, at) = BySequence(live)
  <2> HIDE DEF kept, live, e2
  <2> QED BY <1>11, <1>12, <1>13, <1>14, Zenon
<1> QED BY <1>1, <1>15 DEF list
-----------------------------------------------------------------------------
(* The queues of the reference.                                            *)

\* The times at which queues were cleaned are times.
CleanedType == cleaned \in [QueueIds -> Timestamps]

\* What the simulation needs to know of the SQLite relay.
SimulationInv == Busy /\ TablesInv /\ CleanedType

\* A queue of the reference that is not vacant.
StoredQueue == [config : Configs, messages : Seq(QueuedMessage)]

\* Part of the rows of a table are rows of a table.
LEMMA RowSubset ==
  ASSUME NEW rows, RowSet(rows), NEW part \in SUBSET rows
  PROVE  RowSet(part)
BY FS_Subset, Zenon DEF RowSet

\* SQLite's row identifiers tell the rows of table messages apart, and there
\* are finitely many of them.
LEMMA MessagesAreRows ==
  ASSUME Busy, TablesInv
  PROVE  RowSet(messages)
<1>1. /\ messages \subseteq MessageRow
      /\ \A m, n \in messages : m.sequence = n.sequence => m = n
      /\ MaxSequence \in Nat
  BY DurableAssumption, ZenonT(30) DEF Busy, TypeOK, TablesInv, Integrity
<1> DEFINE number == [m \in messages |-> m.sequence]
<1>2. number \in Injection(messages, 1 .. MaxSequence)
  BY <1>1, Zenon DEF Injection, IsInjective, MessageRow
<1>3. IsFiniteSet(1 .. MaxSequence)
  BY <1>1, FS_Interval
<1> HIDE DEF number
<1>4. IsFiniteSet(messages)
  BY <1>2, <1>3, FS_Injection, Zenon
<1> QED BY <1>1, <1>4, Zenon DEF RowSet

\* The rows the reference has kept are finitely many rows of the table, told apart
\* by their identifiers.
LEMMA KeptRows ==
  ASSUME Busy, TablesInv, NEW id \in QueueIds
  PROVE  RowSet(Kept(id))
BY MessagesAreRows, RowSubset, Zenon DEF Kept, RowsOf

\* A command at a time no earlier than the last look finds the same messages in
\* both relays once discard_expired has run.
LEMMA LiveRows ==
  ASSUME SimulationInv, NEW id \in QueueIds, NEW at \in Timestamps,
         cleaned[id] <= at
  PROVE  /\ RowSet(Live(id, at))
         /\ Reference!DiscardExpired(BySequence(Kept(id)), at)
              = BySequence(Live(id, at))
<1>1. /\ messages \subseteq MessageRow /\ cleaned[id] \in Timestamps
      /\ MaxTimestamp \in Nat
  BY ProtocolAssumption, Zenon DEF SimulationInv, Busy, TypeOK, CleanedType
<1>2. Live(id, at) = {m \in Kept(id) : m.expires_at > at}
  BY <1>1 DEF Live, Expired, RowsOf, Kept, MessageRow, Timestamps
<1>3. RowSet(Kept(id))
  BY KeptRows, Zenon DEF SimulationInv
<1> QED BY <1>2, <1>3, DiscardBySequence, Zenon

\* What the reference stores for a queue: nothing, or its configuration and
\* its messages in order.
LEMMA StoredAs ==
  ASSUME NEW config \in Configs, NEW rows, RowSet(rows)
  PROVE  LET queue == [config |-> config, messages |-> BySequence(rows)]
         IN  /\ queue \in StoredQueue /\ queue # None
             /\ queue.config = config /\ queue.messages = BySequence(rows)
<1>1. BySequence(rows) \in Seq(QueuedMessage)
  BY BySequenceType, Zenon
<1> QED BY <1>1, RefinementAssumption DEF StoredQueue

\* Queue::discard_expired and the commands after it change the messages of a queue
\* and leave its configuration.
LEMMA ReplaceMessages ==
  ASSUME NEW old \in StoredQueue, NEW new \in StoredQueue,
         new.config = old.config
  PROVE  [old EXCEPT !.messages = new.messages] = new
BY Zenon DEF StoredQueue

\* A queue of the tables is the reference's queue of the same configuration with
\* the kept rows in order; an absent one is absent.
LEMMA ReferenceQueue ==
  ASSUME SimulationInv, NEW id \in QueueIds
  PROVE  /\ queues[id] = None => ReferenceQueues[id] = None
         /\ queues[id] # None =>
              /\ ReferenceQueues[id] \in StoredQueue
              /\ ReferenceQueues[id] # None
              /\ ReferenceQueues[id].config = queues[id]
              /\ ReferenceQueues[id].messages = BySequence(Kept(id))
<1>1. queues[id] = None => ReferenceQueues[id] = None
  BY Zenon DEF ReferenceQueues
<1>2. ASSUME queues[id] # None
      PROVE  /\ ReferenceQueues[id] \in StoredQueue
             /\ ReferenceQueues[id] # None
             /\ ReferenceQueues[id].config = queues[id]
             /\ ReferenceQueues[id].messages = BySequence(Kept(id))
  <2>1. queues[id] \in Configs
    BY <1>2, Zenon DEF SimulationInv, Busy, TypeOK
  <2>2. RowSet(Kept(id))
    BY KeptRows, Zenon DEF SimulationInv
  <2>3. ReferenceQueues[id] =
          [config |-> queues[id], messages |-> BySequence(Kept(id))]
    BY <1>2, Zenon DEF ReferenceQueues
  <2> QED BY <2>1, <2>2, <2>3, StoredAs
<1> QED BY <1>1, <1>2, Zenon

\* A step that leaves the tables and the cleaning alone leaves the reference
\* alone.
LEMMA Untouched ==
  ASSUME queues' = queues, messages' = messages, cleaned' = cleaned
  PROVE  ReferenceQueues' = ReferenceQueues
BY Zenon DEF ReferenceQueues, Kept, RowsOf

\* A step that changes the rows kept of one queue replaces the list of that
\* queue and no other.
LEMMA Cleaning ==
  ASSUME SimulationInv, NEW id \in QueueIds, queues[id] # None, queues' = queues,
         NEW rows, RowSet(rows), Kept(id)' = rows,
         \A q \in QueueIds : q # id => Kept(q)' = Kept(q)
  PROVE  ReferenceQueues' =
           [ReferenceQueues EXCEPT ![id].messages = BySequence(rows)]
<1> DEFINE old == ReferenceQueues[id]
           new == [config |-> queues[id], messages |-> BySequence(rows)]
<1>1. /\ old \in StoredQueue /\ old.config = queues[id]
      /\ queues[id] \in Configs
  BY ReferenceQueue, Zenon DEF SimulationInv, Busy, TypeOK
<1>2. /\ new \in StoredQueue /\ new.config = queues[id]
      /\ new.messages = BySequence(rows)
  BY <1>1, StoredAs, Zenon
<1>5. ReferenceQueues'[id] = new
  BY Zenon DEF ReferenceQueues
<1>6. ASSUME NEW q \in QueueIds, q # id
      PROVE  ReferenceQueues'[q] = ReferenceQueues[q]
  BY <1>6, Zenon DEF ReferenceQueues
<1>7. /\ ReferenceQueues = [q \in QueueIds |-> ReferenceQueues[q]]
      /\ ReferenceQueues' = [q \in QueueIds |-> ReferenceQueues'[q]]
  BY Zenon DEF ReferenceQueues
<1> HIDE DEF old, new
<1>8. [old EXCEPT !.messages = BySequence(rows)] = new
  BY <1>1, <1>2, ReplaceMessages, Zenon
<1>9. ReferenceQueues' = [ReferenceQueues EXCEPT ![id] = new]
  BY <1>5, <1>6, <1>7, Zenon
<1> QED BY <1>8, <1>9, Zenon DEF old

\* Requests and replies are the same values to both relays.
LEMMA SameValues ==
  /\ Reference!Timestamps = Timestamps
  /\ Reference!CreateQueueRequest = CreateQueueRequest
  /\ Reference!SendRequest = SendRequest
  /\ Reference!FetchRequest = FetchRequest
  /\ Reference!AckRequest = AckRequest
  /\ Reference!DeleteQueueRequest = DeleteQueueRequest
BY Zenon DEF Reference!Timestamps, Timestamps,
       Reference!CreateQueueRequest, CreateQueueRequest,
       Reference!SendRequest, SendRequest, Reference!FetchRequest, FetchRequest,
       Reference!AckRequest, AckRequest,
       Reference!DeleteQueueRequest, DeleteQueueRequest

\* Answers look the same in both relays.
LEMMA SameStatus ==
  ASSUME NEW status
  PROVE  Reference!Status(status) = Status(status)
BY Zenon DEF Reference!Status, Status

\* A refused request is refused by both relays for the same reason.
LEMMA SenderRefusal ==
  ASSUME SimulationInv, NEW id \in QueueIds, NEW p
  PROVE  Reference!Refusal(id, "sender", p) =
           IF queues[id] = None THEN {Status("QueueNotFound")}
           ELSE IF queues[id].sender # p THEN {Status("Unauthorized")}
           ELSE {}
<1>1. queues[id] # None => /\ ReferenceQueues[id] # None
                           /\ ReferenceQueues[id].config = queues[id]
  BY ReferenceQueue, Zenon
<1>2. queues[id] = None => ReferenceQueues[id] = None
  BY ReferenceQueue, Zenon
<1> QED BY <1>1, <1>2, SameStatus, Zenon DEF Reference!Refusal

\* Likewise for the commands of the recipient.
LEMMA RecipientRefusals ==
  ASSUME SimulationInv, NEW id \in QueueIds, NEW p
  PROVE  Reference!Refusal(id, "recipient", p) =
           IF queues[id] = None THEN {Status("QueueNotFound")}
           ELSE IF queues[id].recipient # p THEN {Status("Unauthorized")}
           ELSE {}
<1>1. queues[id] # None => /\ ReferenceQueues[id] # None
                           /\ ReferenceQueues[id].config = queues[id]
  BY ReferenceQueue, Zenon
<1>2. queues[id] = None => ReferenceQueues[id] = None
  BY ReferenceQueue, Zenon
<1> QED BY <1>1, <1>2, SameStatus DEF Reference!Refusal

\* The list of a set of rows holds each of them and nothing else.
LEMMA BySequenceRange ==
  ASSUME NEW rows, RowSet(rows)
  PROVE  LET list == BySequence(rows)
         IN  /\ \A i \in DOMAIN list : \E m \in rows : list[i] = MessageOf(m)
             /\ \A m \in rows : \E i \in DOMAIN list : list[i] = MessageOf(m)
<1>1. PICK e : IsListing(e, rows)
  BY ListingExists, Zenon
<1>2. BySequence(rows) = [i \in 1 .. Cardinality(rows) |-> MessageOf(e[i])]
  BY <1>1, BySequenceIs, Zenon
<1>3. \A m \in rows : \E i \in 1 .. Cardinality(rows) : e[i] = m
  BY <1>1, ListingOnto, Zenon
<1>4. \A i \in 1 .. Cardinality(rows) : e[i] \in rows
  BY <1>1, Zenon DEF IsListing
<1> QED BY <1>2, <1>3, <1>4

\* A SEND that gets past authorization ends the same way in both relays.
LEMMA SendResults ==
  ASSUME SimulationInv, NEW r \in SendRequest, NEW at \in Timestamps,
         queues[r.queue] # None, queues[r.queue].sender = r.sender,
         RowSet(Live(r.queue, at))
  PROVE  LET result == Reference!SendResult(r, at, BySequence(Live(r.queue, at)))
         IN  /\ \A error \in SendRefusal(r, at) : result = Status(error)
             /\ SendRefusal(r, at) = {} =>
                  result = IF \E m \in Live(r.queue, at) : m.id = r.message
                           THEN Status("Duplicate") ELSE Status("Accepted")
<1> DEFINE id == r.queue
           live == Live(id, at)
           list == BySequence(live)
           same == {m \in live : m.id = r.message}
           places == {i \in DOMAIN list : list[i].id = r.message}
           result == Reference!SendResult(r, at, list)
<1>1. id \in QueueIds
  BY Zenon DEF SendRequest
<1>2. ReferenceQueues[id].config = queues[id]
  BY <1>1, ReferenceQueue, Zenon
<1>3. /\ \A i \in DOMAIN list : \E m \in live : list[i] = MessageOf(m)
      /\ \A m \in live : \E i \in DOMAIN list : list[i] = MessageOf(m)
  BY BySequenceRange, Zenon
<1>4. Len(list) = Cardinality(live)
  BY BySequenceType, Zenon
<1>5. \A m : MessageOf(m).id = m.id /\ MessageOf(m).payload = m.payload
  BY Zenon DEF MessageOf
<1> HIDE DEF list, live
<1>6. places = {} <=> same = {}
  BY <1>3, <1>5
<1>7. (\A i \in places : list[i].payload = r.payload)
        <=> ~ \E m \in same : m.payload # r.payload
  BY <1>3, <1>5
<1> HIDE DEF places, same
<1>8. result =
        IF same # {} THEN
          IF \E m \in same : m.payload # r.payload
          THEN Status("MessageIdConflict") ELSE Status("Duplicate")
        ELSE IF PayloadLen[r.payload] > queues[id].max_message_bytes
          THEN Status("MessageTooLarge")
        ELSE IF Cardinality(live) >= queues[id].max_messages
          THEN Status("QueueFull")
        ELSE IF at + r.ttl > MaxTimestamp THEN Status("ExpiryOverflow")
        ELSE Status("Accepted")
  BY <1>2, <1>4, <1>6, <1>7, SameStatus, Zenon DEF Reference!SendResult, places
<1>9. SendRefusal(r, at) =
        IF same # {} THEN
          IF \E m \in same : m.payload # r.payload
          THEN {"MessageIdConflict"} ELSE {}
        ELSE IF PayloadLen[r.payload] > queues[id].max_message_bytes
          THEN {"MessageTooLarge"}
        ELSE IF Cardinality(live) >= queues[id].max_messages
          THEN {"QueueFull"}
        ELSE IF at + r.ttl > MaxTimestamp THEN {"ExpiryOverflow"}
        ELSE {}
  BY Zenon DEF SendRefusal, Full, ExpiryOverflows, same, live
<1>10. same # {} <=> \E m \in live : m.id = r.message
  BY Zenon DEF same
<1> HIDE DEF result
<1>11. /\ \A error \in SendRefusal(r, at) : result = Status(error)
       /\ SendRefusal(r, at) = {} =>
            result = IF same # {} THEN Status("Duplicate") ELSE Status("Accepted")
  BY <1>8, <1>9
<1> QED BY <1>10, <1>11, Zenon DEF result, list, live

\* The times of the commands reach each queue in order: a thread never runs a
\* command with a relay time older than the last cleaning of the queue.
TimesInOrder ==
  \A t \in Threads, id \in QueueIds :
    pc[t] = "execute" => cleaned[id] <= now[t]

\* What Observe says of a command that runs in time order.
LEMMA Observed ==
  ASSUME SimulationInv, TimesInOrder, NEW t \in Threads, pc[t] = "execute",
         Observe(t)
  PROVE  LET r == frame[t].request
         IN  /\ frame[t] \in Frames /\ r.queue \in QueueIds
             /\ now[t] \in Timestamps /\ cleaned[r.queue] <= now[t]
             /\ ~OutOfRange(r)
             /\ reply' = [request |-> r, now |-> now[t], result |-> response'[t]]
             /\ Cleans(t) => cleaned' = [cleaned EXCEPT ![r.queue] = now[t]]
             /\ ~Cleans(t) => cleaned' = cleaned
<1> DEFINE r == frame[t].request
<1>1. /\ frame[t] \in Frames /\ now[t] \in Timestamps /\ ~OutOfRange(r)
      /\ cleaned \in [QueueIds -> Timestamps]
  BY Zenon DEF SimulationInv, Busy, TypeOK, ThreadInv, CleanedType
<1>2. r.queue \in QueueIds
  BY <1>1, RequestShape
<1>3. cleaned[r.queue] <= now[t]
  BY <1>2, Zenon DEF TimesInOrder
<1>4. /\ reply' = [request |-> r, now |-> now[t], result |-> response'[t]]
      /\ cleaned' = IF Cleans(t) /\ cleaned[r.queue] < now[t]
                    THEN [cleaned EXCEPT ![r.queue] = now[t]]
                    ELSE cleaned
  BY Zenon DEF Observe
<1> HIDE DEF r
<1>5. ~(cleaned[r.queue] < now[t]) => now[t] = cleaned[r.queue]
  BY <1>1, <1>2, <1>3, ProtocolAssumption DEF Timestamps
<1>6. cleaned[r.queue] = now[t] => cleaned = [cleaned EXCEPT ![r.queue] = now[t]]
  BY <1>1, <1>2, Zenon
<1> QED BY <1>1, <1>2, <1>3, <1>4, <1>5, <1>6, Zenon DEF r

\* A committed command answers with its result.
LEMMA CommitAnswers ==
  ASSUME Busy, NEW t \in Threads, NEW result, Commit(t, result)
  PROVE  response'[t] = result
BY Zenon DEF Busy, TypeOK, Commit, Record

\* A refused command answers with its error and changes no table.
LEMMA RejectAnswers ==
  ASSUME Busy, NEW t \in Threads, Reject(t)
  PROVE  /\ pc[t] = "execute" /\ queues' = queues /\ messages' = messages
         /\ \E error \in Refusal(frame[t].request, now[t]) :
              response'[t] = Status(error)
BY Zenon DEF Busy, TypeOK, Reject, tables

\* A command refused by authorization shows in the reference as an answer only.
LEMMA Denied ==
  ASSUME SimulationInv, TimesInOrder, NEW t \in Threads,
         Reject(t), Observe(t), NEW error \in {"QueueNotFound", "Unauthorized"},
         response'[t] = Status(error)
  PROVE  /\ reply' = [request |-> frame[t].request, now |-> now[t],
                      result |-> Status(error)]
         /\ ReferenceQueues' = ReferenceQueues
<1>1. /\ pc[t] = "execute" /\ queues' = queues /\ messages' = messages
  BY RejectAnswers, Zenon DEF SimulationInv
<1>2. response'[t].status = error
  BY DEF Status
<1>3. ~Cleans(t)
  BY <1>2, Zenon DEF Cleans
<1>4. /\ cleaned' = cleaned
      /\ reply' = [request |-> frame[t].request, now |-> now[t],
                   result |-> response'[t]]
  BY <1>1, <1>3, Observed, Zenon
<1> QED BY <1>1, <1>4, Untouched

\* A command refused after authorization cleans the reference's queue.
LEMMA RefusedClean ==
  ASSUME SimulationInv, TimesInOrder, NEW t \in Threads,
         Reject(t), Observe(t), NEW error,
         error \notin {"QueueNotFound", "Unauthorized"},
         frame[t].request.command \in {"SEND", "FETCH", "ACK"},
         queues[frame[t].request.queue] # None,
         response'[t] = Status(error)
  PROVE  LET id == frame[t].request.queue
         IN  /\ reply' = [request |-> frame[t].request, now |-> now[t],
                          result |-> Status(error)]
             /\ ReferenceQueues' =
                  [ReferenceQueues EXCEPT ![id].messages = BySequence(Live(id, now[t]))]
<1> DEFINE id == frame[t].request.queue
           at == now[t]
<1>1. /\ pc[t] = "execute" /\ queues' = queues /\ messages' = messages
  BY RejectAnswers, Zenon DEF SimulationInv
<1>2. response'[t].status = error
  BY DEF Status
<1>3. Cleans(t)
  BY <1>2, Zenon DEF Cleans
<1>4. /\ id \in QueueIds /\ at \in Timestamps /\ cleaned[id] <= at
      /\ cleaned' = [cleaned EXCEPT ![id] = at]
      /\ reply' = [request |-> frame[t].request, now |-> at,
                   result |-> response'[t]]
  BY <1>1, <1>3, Observed, ZenonT(30)
<1>5. RowSet(Live(id, at))
  BY <1>4, LiveRows
<1>6. messages \subseteq MessageRow
  BY Zenon DEF SimulationInv, Busy, TypeOK
<1>7. PICK q \in QueueIds, time \in Timestamps : q = id /\ time = at
  BY <1>4, Zenon
<1>8. PICK rows : q = id /\ time = at /\ rows = Live(id, at)
  BY <1>7, Zenon
<1> HIDE DEF id, at
<1>9. cleaned' = [cleaned EXCEPT ![q] = time]
  BY <1>4, <1>8, Zenon
<1>10. Kept(q)' = rows
  <2>1. cleaned'[q] = time
    BY <1>4, <1>9, Zenon DEF SimulationInv, CleanedType
  <2> QED BY <1>1, <1>6, <1>8, <2>1, ProtocolAssumption
          DEF Kept, Live, Expired, RowsOf, MessageRow, Timestamps
<1>11. \A p \in QueueIds : p # q => Kept(p)' = Kept(p)
  BY <1>1, <1>9, Zenon DEF Kept, RowsOf, SimulationInv, CleanedType
<1>12. queues[q] # None /\ queues' = queues
  BY <1>1, <1>8, Zenon DEF id
<1>13. RowSet(rows)
  BY <1>5, <1>8, Zenon
<1>14. ReferenceQueues' =
         [ReferenceQueues EXCEPT ![q].messages = BySequence(rows)]
  BY <1>10, <1>11, <1>12, <1>13, Cleaning, Zenon
<1> QED BY <1>4, <1>8, <1>14, Zenon DEF id, at

\* A committed command that leaves `rows' of a queue and every other queue as it
\* is replaces the list of the reference's queue.
LEMMA CommittedClean ==
  ASSUME SimulationInv, TimesInOrder, NEW t \in Threads, pc[t] = "execute",
         Observe(t), NEW result, Commit(t, result),
         result.status \notin {"QueueNotFound", "Unauthorized"},
         frame[t].request.command \in {"SEND", "FETCH", "ACK"},
         queues[frame[t].request.queue] # None, queues' = queues,
         NEW rows, RowSet(rows),
         \A m \in rows : /\ m.queue = frame[t].request.queue
                         /\ m.expires_at > now[t],
         messages' = (messages \ RowsOf(frame[t].request.queue)) \cup rows
  PROVE  LET id == frame[t].request.queue
         IN  /\ reply' = [request |-> frame[t].request, now |-> now[t],
                          result |-> result]
             /\ ReferenceQueues' =
                  [ReferenceQueues EXCEPT ![id].messages = BySequence(rows)]
<1> DEFINE id == frame[t].request.queue
           at == now[t]
<1>1. response'[t] = result
  BY CommitAnswers, Zenon DEF SimulationInv
<1>2. Cleans(t)
  BY <1>1, Zenon DEF Cleans
<1>3. /\ id \in QueueIds /\ at \in Timestamps
      /\ cleaned' = [cleaned EXCEPT ![id] = at]
      /\ reply' = [request |-> frame[t].request, now |-> at,
                   result |-> response'[t]]
  BY <1>2, Observed, Zenon
<1>4. /\ \A m \in rows : m.queue = id /\ m.expires_at > at
      /\ messages' = (messages \ RowsOf(id)) \cup rows
      /\ queues[id] # None
  BY Zenon
<1>5. PICK q \in QueueIds, time \in Timestamps : q = id /\ time = at
  BY <1>3, Zenon
<1> HIDE DEF id, at
<1>6. cleaned' = [cleaned EXCEPT ![q] = time]
  BY <1>3, <1>5, Zenon
<1>7. Kept(q)' = rows
  <2>1. cleaned'[q] = time
    BY <1>6, Zenon DEF SimulationInv, CleanedType
  <2> QED BY <1>4, <1>5, <2>1, Zenon DEF Kept, RowsOf
<1>8. \A p \in QueueIds : p # q => Kept(p)' = Kept(p)
  BY <1>4, <1>5, <1>6, Zenon DEF Kept, RowsOf, SimulationInv, CleanedType
<1>9. queues[q] # None
  BY <1>4, <1>5, Zenon
<1>10. ReferenceQueues' =
         [ReferenceQueues EXCEPT ![q].messages = BySequence(rows)]
  BY <1>7, <1>8, <1>9, Cleaning, Zenon
<1> QED BY <1>1, <1>3, <1>5, <1>10, Zenon DEF id, at

\* The rows that a transaction leaves of a queue it cleaned.
LEMMA CleanedTable ==
  ASSUME NEW id, NEW at
  PROVE  messages \ Expired(id, at) = (messages \ RowsOf(id)) \cup Live(id, at)
BY Zenon DEF Expired, RowsOf, Live

\* What a command at a time finds in a queue are rows of it that have not expired.
LEMMA LiveIsLive ==
  ASSUME SimulationInv, NEW id, NEW at \in Timestamps
  PROVE  \A m \in Live(id, at) : m \in MessageRow /\ m.queue = id /\ m.expires_at > at
<1>1. messages \subseteq MessageRow /\ MaxTimestamp \in Nat
  BY ProtocolAssumption, Zenon DEF SimulationInv, Busy, TypeOK
<1> QED BY <1>1 DEF Live, RowsOf, Expired, MessageRow, Timestamps

\* send of durable.rs answers and stores what send of lib.rs does.
LEMMA SendAuthorized ==
  ASSUME SimulationInv, TimesInOrder, NEW t \in Threads,
         Send(t) \/ Reject(t), Observe(t), pc[t] = "execute",
         frame[t].request.command = "SEND",
         queues[frame[t].request.queue] # None,
         queues[frame[t].request.queue].sender = frame[t].request.sender
  PROVE  Reference!Send(frame[t].request, now[t])
<1>1. PICK r, at, id :
        r = frame[t].request /\ at = now[t] /\ id = frame[t].request.queue
  BY Zenon
<1>2. /\ frame[t] \in Frames /\ id \in QueueIds
      /\ at \in Timestamps /\ cleaned[id] <= at /\ ~OutOfRange(r)
  BY <1>1, Observed, Zenon
<1>3. /\ r \in SendRequest /\ r.ttl # 0 /\ r.queue = id /\ r.command = "SEND"
      /\ queues[id] # None /\ queues[id].sender = r.sender
  BY <1>1, <1>2, RequestShape, Zenon DEF OutOfRange
<1>4. PICK rows : rows = Live(id, at)
  BY Zenon
<1>5. /\ RowSet(rows)
      /\ Reference!DiscardExpired(BySequence(Kept(id)), at) = BySequence(rows)
  BY <1>2, <1>4, LiveRows, Zenon
<1>6. \A m \in rows : m.queue = id /\ m.expires_at > at
  BY <1>2, <1>4, LiveIsLive, Zenon
<1>7. /\ ReferenceQueues[id].messages = BySequence(Kept(id))
      /\ Reference!Refusal(id, "sender", r.sender) = {}
  BY <1>2, <1>3, ReferenceQueue, SenderRefusal, Zenon
<1> DEFINE result == Reference!SendResult(r, at, BySequence(rows))
           message == [id |-> r.message, payload |-> r.payload,
                       expires_at |-> at + r.ttl, delivered |-> FALSE]
<1>8. /\ \A error \in SendRefusal(r, at) : result = Status(error)
      /\ SendRefusal(r, at) = {} =>
           result = IF \E m \in rows : m.id = r.message
                    THEN Status("Duplicate") ELSE Status("Accepted")
  BY <1>2, <1>3, <1>4, <1>5, SendResults
<1>9. SUFFICES
        /\ reply' = [request |-> r, now |-> at, result |-> result]
        /\ ReferenceQueues' = [ReferenceQueues EXCEPT ![id].messages =
             IF result.status = "Accepted" THEN Append(BySequence(rows), message)
             ELSE BySequence(rows)]
  <2>1. r \in Reference!SendRequest
    BY <1>3, SameValues, Zenon
  <2>2. /\ r \in Reference!SendRequest /\ r.ttl # 0
        /\ Reference!Refusal(r.queue, "sender", r.sender) = {}
        /\ Reference!DiscardExpired(ReferenceQueues[r.queue].messages, at)
             = BySequence(rows)
        /\ reply' = [request |-> r, now |-> at, result |-> result]
        /\ ReferenceQueues' = [ReferenceQueues EXCEPT ![r.queue].messages =
             IF result.status = "Accepted" THEN Append(BySequence(rows), message)
             ELSE BySequence(rows)]
    BY <1>3, <1>5, <1>7, <1>9, <2>1, Zenon
  <2>3. Reference!Send(r, at)
    BY <2>2, Zenon DEF Reference!Send, Reference!Answer
  <2> QED BY <1>1, <2>3, Zenon
<1>10. Refusal(r, at) = SendRefusal(r, at)
  BY <1>3, Zenon DEF Refusal
<1>11. CASE Reject(t)
  <2>1. PICK error \in SendRefusal(r, at) : response'[t] = Status(error)
    BY <1>1, <1>10, <1>11, RejectAnswers DEF SimulationInv
  <2>2. error \notin {"QueueNotFound", "Unauthorized", "Accepted"}
    BY <1>3, <2>1, Zenon DEF SendRefusal
  <2>3. /\ reply' = [request |-> frame[t].request, now |-> now[t],
                     result |-> Status(error)]
        /\ ReferenceQueues' = [ReferenceQueues EXCEPT ![frame[t].request.queue].messages
                                 = BySequence(Live(frame[t].request.queue, now[t]))]
    BY <1>11, <2>1, <2>2, RefusedClean, Zenon
  <2>4. result = Status(error) /\ result.status # "Accepted"
    BY <1>8, <2>1, <2>2 DEF Status
  <2> HIDE DEF result, message
  <2> QED BY <1>1, <1>4, <2>3, <2>4, Zenon
<1>12. CASE Send(t)
  <2>1. /\ SendRefusal(r, at) = {} /\ queues' = queues
        /\ \/ /\ \E m \in rows : m.id = r.message
              /\ Commit(t, Status("Duplicate"))
              /\ messages' = messages \ Expired(id, at)
           \/ /\ \A m \in rows : m.id # r.message
              /\ Commit(t, Status("Accepted"))
              /\ \E s \in 1 .. MaxSequence :
                   /\ IsNextSequence(s, messages \ Expired(id, at))
                   /\ messages' = (messages \ Expired(id, at)) \cup
                        {[sequence |-> s, queue |-> id, id |-> r.message,
                          payload |-> r.payload, expires_at |-> at + r.ttl,
                          delivered |-> FALSE]}
    BY <1>1, <1>4, <1>10, <1>12, Zenon DEF Send, Runs
  <2>2. messages \ Expired(id, at) = (messages \ RowsOf(id)) \cup rows
    BY <1>4, CleanedTable, Zenon
  <2>3. CASE /\ \E m \in rows : m.id = r.message
             /\ Commit(t, Status("Duplicate"))
             /\ messages' = messages \ Expired(id, at)
    <3>1. Status("Duplicate").status = "Duplicate"
      BY ZenonT(30) DEF Status
    <3>2. /\ reply' = [request |-> frame[t].request, now |-> now[t],
                       result |-> Status("Duplicate")]
          /\ ReferenceQueues' = [ReferenceQueues EXCEPT
               ![frame[t].request.queue].messages = BySequence(rows)]
      <4>1. PICK answer : answer = Status("Duplicate")
        BY Zenon
      <4>2. /\ Commit(t, answer)
            /\ answer.status \notin {"QueueNotFound", "Unauthorized"}
        BY <2>3, <3>1, <4>1, Zenon
      <4>3. messages' = (messages \ RowsOf(frame[t].request.queue)) \cup rows
        BY <1>1, <2>2, <2>3, Zenon
      <4>4. \A m \in rows : m.queue = frame[t].request.queue /\ m.expires_at > now[t]
        BY <1>1, <1>6, Zenon
      <4>5. frame[t].request.command \in {"SEND", "FETCH", "ACK"}
        BY ZenonT(30)
      <4> QED BY <1>5, <2>1, <4>1, <4>2, <4>3, <4>4, <4>5, CommittedClean, Zenon
    <3>3. result = Status("Duplicate")
      BY <1>8, <2>1, <2>3
    <3>4. result.status # "Accepted"
      BY <3>1, <3>3
    <3> HIDE DEF result, message
    <3> QED BY <1>1, <3>2, <3>3, <3>4, Zenon
  <2>4. CASE /\ \A m \in rows : m.id # r.message
             /\ Commit(t, Status("Accepted"))
             /\ \E s \in 1 .. MaxSequence :
                  /\ IsNextSequence(s, messages \ Expired(id, at))
                  /\ messages' = (messages \ Expired(id, at)) \cup
                       {[sequence |-> s, queue |-> id, id |-> r.message,
                         payload |-> r.payload, expires_at |-> at + r.ttl,
                         delivered |-> FALSE]}
    <3>1. Status("Accepted").status = "Accepted"
      BY Zenon DEF Status
    <3>2. PICK s \in 1 .. MaxSequence :
            /\ IsNextSequence(s, messages \ Expired(id, at))
            /\ messages' = (messages \ Expired(id, at)) \cup
                 {[sequence |-> s, queue |-> id, id |-> r.message,
                   payload |-> r.payload, expires_at |-> at + r.ttl,
                   delivered |-> FALSE]}
      BY <2>4, Zenon
    <3> DEFINE new == [sequence |-> s, queue |-> id, id |-> r.message,
                       payload |-> r.payload, expires_at |-> at + r.ttl,
                       delivered |-> FALSE]
    <3>3. at + r.ttl \in Timestamps /\ at + r.ttl > at
      <4>1. at + r.ttl \in Timestamps
        BY <1>2, <1>3, <1>4, <2>1, <2>4, AcceptedExpiry
      <4>2. r.ttl \in Timestamps
        BY <1>3, ZenonT(30) DEF SendRequest
      <4> QED BY <1>2, <1>3, <4>1, <4>2, ProtocolAssumption DEF Timestamps
    <3>4. /\ new \in MessageRow /\ new.queue = id /\ new.expires_at > at
          /\ MessageOf(new) = message /\ new.sequence = s
      <4>1. r.message \in MessageIds /\ r.payload \in Payloads
        BY <1>3, Zenon DEF SendRequest
      <4> QED BY <1>2, <3>3, <4>1 DEF MessageRow, MessageOf
    <3>5. \A m \in rows : m.sequence < new.sequence
      BY <2>2, <3>2, <3>4, ZenonT(30) DEF IsNextSequence
    <3> HIDE DEF new
    <3>6. /\ RowSet(rows \cup {new})
          /\ BySequence(rows \cup {new}) = Append(BySequence(rows), message)
      BY <1>5, <3>4, <3>5, AppendBySequence, Zenon
    <3>7. /\ reply' = [request |-> frame[t].request, now |-> now[t],
                       result |-> Status("Accepted")]
          /\ ReferenceQueues' = [ReferenceQueues EXCEPT
               ![frame[t].request.queue].messages = BySequence(rows \cup {new})]
      <4>1. PICK answer, after : answer = Status("Accepted") /\ after = rows \cup {new}
        BY Zenon
      <4>2. /\ Commit(t, answer)
            /\ answer.status \notin {"QueueNotFound", "Unauthorized"}
        BY <2>4, <3>1, <4>1
      <4>3. messages' = (messages \ RowsOf(frame[t].request.queue)) \cup after
        BY <1>1, <2>2, <3>2, <4>1 DEF new
      <4>4. \A m \in after : m.queue = frame[t].request.queue /\ m.expires_at > now[t]
        BY <1>1, <1>6, <3>4, <4>1
      <4>5. frame[t].request.command \in {"SEND", "FETCH", "ACK"}
        BY Zenon
      <4>6. RowSet(after)
        BY <3>6, <4>1, ZenonT(30)
      <4>7. /\ reply' = [request |-> frame[t].request, now |-> now[t],
                         result |-> answer]
            /\ ReferenceQueues' = [ReferenceQueues EXCEPT
                 ![frame[t].request.queue].messages = BySequence(after)]
        BY <2>1, <4>2, <4>3, <4>4, <4>5, <4>6, CommittedClean
      <4> QED BY <4>1, <4>7, Zenon
    <3>8. result = Status("Accepted")
      BY <1>8, <2>1, <2>4, Zenon
    <3>9. result.status = "Accepted"
      BY <3>1, <3>8, Zenon
    <3> HIDE DEF result, message
    <3> QED BY <1>1, <3>6, <3>7, <3>8, <3>9, Zenon
  <2> QED BY <2>1, <2>3, <2>4, Zenon
<1> QED BY <1>11, <1>12, Zenon

\* A SEND that is refused by authorization, or else by or accepted after the
\* checks of the lemma before, is a SEND of the reference.
LEMMA SendSimulated ==
  ASSUME SimulationInv, TimesInOrder, NEW t \in Threads,
         Send(t) \/ Reject(t), Observe(t), pc[t] = "execute",
         frame[t].request.command = "SEND"
  PROVE  Reference!Send(frame[t].request, now[t])
<1>1. PICK r, at, id :
        r = frame[t].request /\ at = now[t] /\ id = frame[t].request.queue
  BY Zenon
<1>2. frame[t] \in Frames /\ id \in QueueIds /\ ~OutOfRange(r)
  BY <1>1, Observed, Zenon
<1>3. r \in SendRequest /\ r.ttl # 0 /\ r.queue = id /\ r.command = "SEND"
  BY <1>1, <1>2, RequestShape, Zenon DEF OutOfRange
<1>4. ASSUME NEW error \in {"QueueNotFound", "Unauthorized"},
             SendRefusal(r, at) = {error},
             Status(error) \in Reference!Refusal(id, "sender", r.sender)
      PROVE  Reference!Send(frame[t].request, now[t])
  <2>1. Refusal(frame[t].request, now[t]) = {error}
    BY <1>1, <1>3, <1>4 DEF Refusal
  <2>2. ~Send(t)
    BY <2>1, Zenon DEF Send, Runs
  <2>3. Reject(t) /\ response'[t] = Status(error)
    BY <2>1, <2>2, RejectAnswers, Zenon DEF SimulationInv
  <2>4. /\ reply' = [request |-> frame[t].request, now |-> now[t],
                     result |-> Status(error)]
        /\ ReferenceQueues' = ReferenceQueues
    BY <2>3, Denied, Zenon
  <2>5. r \in Reference!SendRequest
    BY <1>3, SameValues, Zenon
  <2>6. Reference!Send(r, at)
    BY <1>1, <1>3, <1>4, <2>4, <2>5, Zenon DEF Reference!Send, Reference!Answer
  <2> QED BY <1>1, <2>6, ZenonT(30)
<1>5. CASE queues[id] = None
  <2>1. SendRefusal(r, at) = {"QueueNotFound"}
    BY <1>3, <1>5, Zenon DEF SendRefusal
  <2>2. Status("QueueNotFound") \in Reference!Refusal(id, "sender", r.sender)
    BY <1>2, <1>5, SenderRefusal
  <2> QED BY <1>4, <2>1, <2>2
<1>6. CASE queues[id] # None /\ queues[id].sender # r.sender
  <2>1. SendRefusal(r, at) = {"Unauthorized"}
    BY <1>3, <1>6, Zenon DEF SendRefusal
  <2>2. Status("Unauthorized") \in Reference!Refusal(id, "sender", r.sender)
    BY <1>2, <1>6, SenderRefusal
  <2> QED BY <1>4, <2>1, <2>2, Zenon
<1>7. CASE queues[id] # None /\ queues[id].sender = r.sender
  BY <1>1, <1>7, SendAuthorized
<1> QED BY <1>5, <1>6, <1>7, Zenon

\* A recipient's command that authorization refuses.
LEMMA RecipientDenied ==
  ASSUME SimulationInv, TimesInOrder, NEW t \in Threads, Observe(t),
         pc[t] = "execute",
         frame[t].request.command \in {"FETCH", "ACK", "DELETE_QUEUE"},
         Effect(t), RecipientRefusal(frame[t].request) # {}
  PROVE  /\ Reject(t)
         /\ \E refusal \in Reference!Refusal(frame[t].request.queue, "recipient",
                                             frame[t].request.recipient) :
              reply' = [request |-> frame[t].request, now |-> now[t],
                        result |-> refusal]
         /\ ReferenceQueues' = ReferenceQueues
<1>1. PICK r, at, id :
        r = frame[t].request /\ at = now[t] /\ id = frame[t].request.queue
  BY Zenon
<1>2. id \in QueueIds
  BY <1>1, Observed, ZenonT(30)
<1>3. PICK error \in {"QueueNotFound", "Unauthorized"} :
        /\ RecipientRefusal(r) = {error}
        /\ Status(error) \in Reference!Refusal(id, "recipient", r.recipient)
  BY <1>1, <1>2, RecipientRefusals DEF RecipientRefusal
<1>4. Refusal(frame[t].request, now[t]) = {error}
  BY <1>1, <1>3, Zenon DEF Refusal, AckRefusal
<1>5. Reject(t)
  BY <1>4, Zenon DEF Effect, CreateQueue, Send, Fetch, Acknowledge, DeleteQueue, Runs
<1>6. response'[t] = Status(error)
  BY <1>4, <1>5, RejectAnswers, Zenon DEF SimulationInv
<1>7. /\ reply' = [request |-> frame[t].request, now |-> now[t],
                   result |-> Status(error)]
      /\ ReferenceQueues' = ReferenceQueues
  BY <1>5, <1>6, Denied, Zenon
<1> QED BY <1>1, <1>3, <1>5, <1>7, Zenon

\* One that it does not.
LEMMA RecipientAllowed ==
  ASSUME SimulationInv, NEW r, r.queue \in QueueIds, RecipientRefusal(r) = {}
  PROVE  /\ queues[r.queue] # None
         /\ Reference!Refusal(r.queue, "recipient", r.recipient) = {}
         /\ ReferenceQueues[r.queue].messages = BySequence(Kept(r.queue))
<1>1. queues[r.queue] # None /\ queues[r.queue].recipient = r.recipient
  BY Zenon DEF RecipientRefusal
<1> QED BY <1>1, RecipientRefusals, ReferenceQueue, Zenon

\* Which of the requests each command is.
LEMMA RequestKinds ==
  ASSUME NEW f \in Frames
  PROVE  /\ f.request.command = "FETCH" => f.request \in FetchRequest
         /\ f.request.command = "ACK" => f.request \in AckRequest
         /\ f.request.command = "DELETE_QUEUE" => f.request \in DeleteQueueRequest
         /\ f.request.command \in
              {"CREATE_QUEUE", "SEND", "FETCH", "ACK", "DELETE_QUEUE"}
<1>1. f.request \in Request
  BY DurableAssumption, Zenon DEF Frame
<1> QED BY <1>1, Zenon DEF Request, CreateQueueRequest, SendRequest, FetchRequest,
                    AckRequest, DeleteQueueRequest

\* delete_queue of both relays forget the queue and its messages.
LEMMA DeleteSimulated ==
  ASSUME SimulationInv, TimesInOrder, NEW t \in Threads,
         DeleteQueue(t) \/ Reject(t), Observe(t), pc[t] = "execute",
         frame[t].request.command = "DELETE_QUEUE"
  PROVE  Reference!DeleteQueue(frame[t].request, now[t])
<1>1. PICK r, at, id :
        r = frame[t].request /\ at = now[t] /\ id = frame[t].request.queue
  BY Zenon
<1>2. frame[t] \in Frames /\ id \in QueueIds
  BY <1>1, Observed, Zenon
<1>3. r \in Reference!DeleteQueueRequest /\ r.queue = id
  BY <1>1, <1>2, RequestKinds, SameValues
<1>4. CASE RecipientRefusal(r) # {}
  <2>1. Effect(t)
    BY Zenon DEF Effect
  <2>2. /\ \E refusal \in Reference!Refusal(frame[t].request.queue, "recipient",
                                            frame[t].request.recipient) :
              reply' = [request |-> frame[t].request, now |-> now[t],
                        result |-> refusal]
        /\ ReferenceQueues' = ReferenceQueues
    BY <1>1, <1>4, <2>1, RecipientDenied
  <2> QED BY <1>1, <1>3, <2>2, Zenon DEF Reference!DeleteQueue, Reference!Answer
<1>5. CASE RecipientRefusal(r) = {}
  <2>1. /\ queues[id] # None
        /\ Reference!Refusal(id, "recipient", r.recipient) = {}
    BY <1>2, <1>3, <1>5, RecipientAllowed
  <2>2. Refusal(frame[t].request, now[t]) = {}
    BY <1>1, <1>5, Zenon DEF Refusal
  <2>3. ~Reject(t)
    BY <2>2, Zenon DEF Reject
  <2>4. /\ Commit(t, Status("Deleted")) /\ queues' = [queues EXCEPT ![id] = None]
        /\ messages' = messages \ RowsOf(id)
    BY <1>1, <2>3, Zenon DEF DeleteQueue
  <2>5. response'[t] = Status("Deleted")
    BY <2>4, CommitAnswers, Zenon DEF SimulationInv
  <2>6. ~Cleans(t)
    BY ZenonT(30) DEF Cleans
  <2>7. /\ cleaned' = cleaned
        /\ reply' = [request |-> r, now |-> at, result |-> Reference!Status("Deleted")]
    BY <1>1, <2>5, <2>6, Observed, SameStatus
  <2>8. queues \in [QueueIds -> Configs \cup {None}]
    BY Zenon DEF SimulationInv, Busy, TypeOK
  <2>9. ReferenceQueues'[id] = None
    BY <1>2, <2>4, <2>8 DEF ReferenceQueues
  <2>10. ASSUME NEW q \in QueueIds, q # id
         PROVE  ReferenceQueues'[q] = ReferenceQueues[q]
    <3>1. Kept(q)' = Kept(q)
      BY <2>4, <2>7, <2>10 DEF Kept, RowsOf
    <3>2. queues'[q] = queues[q]
      BY <2>4, <2>8, <2>10, Zenon
    <3> QED BY <3>1, <3>2, Zenon DEF ReferenceQueues
  <2>11. /\ ReferenceQueues = [q \in QueueIds |-> ReferenceQueues[q]]
         /\ ReferenceQueues' = [q \in QueueIds |-> ReferenceQueues'[q]]
    BY Zenon DEF ReferenceQueues
  <2>12. ReferenceQueues' = [ReferenceQueues EXCEPT ![id] = None]
    BY <2>9, <2>10, <2>11, Zenon
  <2> QED BY <1>1, <1>3, <2>1, <2>7, <2>12, Zenon
          DEF Reference!DeleteQueue, Reference!Answer
<1> QED BY <1>4, <1>5, Zenon

\* create_queue of both relays make an empty queue where there is none.
LEMMA CreateSimulated ==
  ASSUME SimulationInv, TimesInOrder, NEW t \in Threads,
         CreateQueue(t) \/ Reject(t), Observe(t), pc[t] = "execute",
         frame[t].request.command = "CREATE_QUEUE"
  PROVE  Reference!CreateQueue(frame[t].request, now[t])
<1>1. PICK r, at, id :
        r = frame[t].request /\ at = now[t] /\ id = frame[t].request.queue
  BY Zenon
<1>2. frame[t] \in Frames /\ id \in QueueIds
  BY <1>1, Observed, Zenon
<1>3. /\ r \in Reference!CreateQueueRequest /\ r.queue = id /\ r.config \in Configs
      /\ r.config # None
  BY <1>1, <1>2, RequestShape, SameValues, ProtocolAssumption
<1>4. ~Cleans(t)
  BY Zenon DEF Cleans
<1>5. /\ cleaned' = cleaned
      /\ reply' = [request |-> r, now |-> at, result |-> response'[t]]
  BY <1>1, <1>4, Observed, Zenon
<1>6. Refusal(frame[t].request, now[t]) =
        IF queues[id] \in {None, r.config} THEN {} ELSE {"QueueIdConflict"}
  BY <1>1, Zenon DEF Refusal, CreateRefusal
<1>7. queues[id] # None =>
        ReferenceQueues[id] # None /\ ReferenceQueues[id].config = queues[id]
  BY <1>2, ReferenceQueue, Zenon
<1>8. ASSUME queues[id] # None, queues' = queues, messages' = messages,
             response'[t] = IF queues[id] = r.config THEN Status("AlreadyExists")
                            ELSE Status("QueueIdConflict")
      PROVE  Reference!CreateQueue(frame[t].request, now[t])
  <2>1. ReferenceQueues' = ReferenceQueues
    BY <1>5, <1>8, Untouched, Zenon
  <2>2. response'[t] = Reference!CreateQueueResult(r)
    BY <1>3, <1>7, <1>8, SameStatus, Zenon DEF Reference!CreateQueueResult
  <2>3. ReferenceQueues[r.queue] # None
    BY <1>3, <1>7, <1>8, Zenon
  <2> QED BY <1>1, <1>3, <1>5, <2>1, <2>2, <2>3, Zenon
          DEF Reference!CreateQueue, Reference!Answer
<1>9. CASE Reject(t)
  <2>1. /\ queues' = queues /\ messages' = messages
        /\ response'[t] = Status("QueueIdConflict")
        /\ queues[id] # None /\ queues[id] # r.config
    BY <1>6, <1>9, RejectAnswers, Zenon DEF SimulationInv
  <2> QED BY <1>8, <2>1, Zenon
<1>10. CASE CreateQueue(t) /\ queues[id] # None
  <2>1. /\ queues[id] = r.config /\ Commit(t, Status("AlreadyExists"))
        /\ queues' = queues /\ messages' = messages
    BY <1>1, <1>10, Zenon DEF CreateQueue
  <2>2. response'[t] = Status("AlreadyExists")
    BY <2>1, CommitAnswers, Zenon DEF SimulationInv
  <2> QED BY <1>8, <1>10, <2>1, <2>2, Zenon
<1>11. CASE CreateQueue(t) /\ queues[id] = None
  <2>1. /\ Commit(t, Status("Created"))
        /\ queues' = [queues EXCEPT ![id] = r.config] /\ messages' = messages
    BY <1>1, <1>3, <1>11, Zenon DEF CreateQueue
  <2>2. response'[t] = Status("Created")
    BY <2>1, CommitAnswers, Zenon DEF SimulationInv
  <2>3. ReferenceQueues[id] = None
    BY <1>2, <1>11, ReferenceQueue, Zenon
  <2>4. response'[t] = Reference!CreateQueueResult(r)
    BY <1>3, <2>2, <2>3, SameStatus, Zenon DEF Reference!CreateQueueResult
  <2>5. queues \in [QueueIds -> Configs \cup {None}]
    BY Zenon DEF SimulationInv, Busy, TypeOK
  <2>6. Kept(id)' = {}
    <3>1. \A m \in messages : queues[m.queue] # None
      BY Zenon DEF SimulationInv, TablesInv, Integrity
    <3> QED BY <1>11, <2>1, <3>1, Zenon DEF Kept, RowsOf
  <2>7. ReferenceQueues'[id] = [config |-> r.config, messages |-> <<>>]
    <3>1. queues'[id] = r.config
      BY <1>2, <2>1, <2>5, Zenon
    <3>2. BySequence(Kept(id)') = <<>>
      BY <2>6, EmptyBySequence, Zenon
    <3> QED BY <1>2, <1>3, <3>1, <3>2 DEF ReferenceQueues
  <2>8. ASSUME NEW q \in QueueIds, q # id
        PROVE  ReferenceQueues'[q] = ReferenceQueues[q]
    <3>1. Kept(q)' = Kept(q)
      BY <1>5, <2>1, Zenon DEF Kept, RowsOf
    <3>2. queues'[q] = queues[q]
      BY <2>1, <2>5, <2>8, Zenon
    <3> QED BY <3>1, <3>2, Zenon DEF ReferenceQueues
  <2>9. /\ ReferenceQueues = [q \in QueueIds |-> ReferenceQueues[q]]
        /\ ReferenceQueues' = [q \in QueueIds |-> ReferenceQueues'[q]]
    BY Zenon DEF ReferenceQueues
  <2>10. ReferenceQueues' =
           [ReferenceQueues EXCEPT ![id] = [config |-> r.config, messages |-> <<>>]]
    BY <2>7, <2>8, <2>9, Zenon
  <2> QED BY <1>1, <1>3, <1>5, <2>3, <2>4, <2>10, Zenon
          DEF Reference!CreateQueue, Reference!Answer
<1> QED BY <1>9, <1>10, <1>11, Zenon

\* fetch of both relays deliver the same message and mark it.
LEMMA FetchSimulated ==
  ASSUME SimulationInv, TimesInOrder, NEW t \in Threads,
         Fetch(t) \/ Reject(t), Observe(t), pc[t] = "execute",
         frame[t].request.command = "FETCH"
  PROVE  Reference!Fetch(frame[t].request, now[t])
<1>1. PICK r, at, id :
        r = frame[t].request /\ at = now[t] /\ id = frame[t].request.queue
  BY Zenon
<1>2. /\ frame[t] \in Frames /\ id \in QueueIds
      /\ at \in Timestamps /\ cleaned[id] <= at
  BY <1>1, Observed, Zenon
<1>3. r \in Reference!FetchRequest /\ r.queue = id
  BY <1>1, <1>2, RequestKinds, SameValues, Zenon
<1>4. CASE RecipientRefusal(r) # {}
  <2>1. Effect(t)
    BY Zenon DEF Effect
  <2>2. /\ \E refusal \in Reference!Refusal(frame[t].request.queue, "recipient",
                                            frame[t].request.recipient) :
              reply' = [request |-> frame[t].request, now |-> now[t],
                        result |-> refusal]
        /\ ReferenceQueues' = ReferenceQueues
    BY <1>1, <1>4, <2>1, RecipientDenied, Zenon
  <2> QED BY <1>1, <1>3, <2>2, Zenon DEF Reference!Fetch, Reference!Answer
<1>5. CASE RecipientRefusal(r) = {}
  <2>1. /\ queues[id] # None
        /\ Reference!Refusal(id, "recipient", r.recipient) = {}
        /\ ReferenceQueues[id].messages = BySequence(Kept(id))
    BY <1>2, <1>3, <1>5, RecipientAllowed, Zenon
  <2>2. Refusal(frame[t].request, now[t]) = {}
    BY <1>1, <1>5, Zenon DEF Refusal
  <2>3. ~Reject(t)
    BY <2>2, Zenon DEF Reject
  <2>4. PICK rows : rows = Live(id, at)
    BY Zenon
  <2>5. /\ RowSet(rows)
        /\ Reference!DiscardExpired(BySequence(Kept(id)), at) = BySequence(rows)
    BY <1>2, <2>4, LiveRows, Zenon
  <2>6. \A m \in rows : m \in MessageRow /\ m.queue = id /\ m.expires_at > at
    BY <1>2, <2>4, LiveIsLive, Zenon
  <2>7. /\ queues' = queues
        /\ \/ /\ First(rows) = {} /\ Commit(t, Status("Empty"))
              /\ messages' = messages \ Expired(id, at)
           \/ \E m \in First(rows) :
                /\ Commit(t, DeliveryOf(m))
                /\ messages' = ((messages \ Expired(id, at)) \ {m}) \cup
                                 {[m EXCEPT !.delivered = TRUE]}
    BY <1>1, <2>3, <2>4, Zenon DEF Fetch
  <2>8. messages \ Expired(id, at) = (messages \ RowsOf(id)) \cup rows
    BY <2>4, CleanedTable, Zenon
  <2>9. Reference!DiscardExpired(ReferenceQueues[r.queue].messages, at)
          = BySequence(rows)
    BY <1>3, <2>1, <2>5, Zenon
  <2>10. /\ frame[t].request.command \in {"SEND", "FETCH", "ACK"}
         /\ queues[frame[t].request.queue] # None
    BY <1>1, <2>1, Zenon
  <2>11. CASE /\ First(rows) = {} /\ Commit(t, Status("Empty"))
              /\ messages' = messages \ Expired(id, at)
    <3>1. rows = {}
      BY <2>5, <2>11, HeadBySequence, Zenon
    <3>2. PICK answer : answer = Status("Empty")
      BY Zenon
    <3>3. /\ Commit(t, answer)
          /\ answer.status \notin {"QueueNotFound", "Unauthorized"}
      BY <2>11, <3>2, Zenon DEF Status
    <3>4. /\ messages' = (messages \ RowsOf(frame[t].request.queue)) \cup rows
          /\ \A m \in rows : /\ m.queue = frame[t].request.queue
                             /\ m.expires_at > now[t]
      BY <1>1, <2>6, <2>8, <2>11, Zenon
    <3>5. /\ reply' = [request |-> frame[t].request, now |-> now[t],
                       result |-> answer]
          /\ ReferenceQueues' = [ReferenceQueues EXCEPT
               ![frame[t].request.queue].messages = BySequence(rows)]
      BY <2>5, <2>7, <2>10, <3>3, <3>4, CommittedClean
    <3>6. answer = Reference!Status("Empty")
      BY <3>2, SameStatus, Zenon
    <3>7. BySequence(rows) = <<>>
      BY <3>1, EmptyBySequence, Zenon
    <3>8. /\ Reference!Answer(r, at, Reference!Status("Empty"))
          /\ ReferenceQueues' =
               [ReferenceQueues EXCEPT ![r.queue].messages = BySequence(rows)]
      BY <1>1, <3>5, <3>6, Zenon DEF Reference!Answer
    <3>9. Reference!Fetch(r, at)
      BY <1>3, <2>1, <2>9, <3>7, <3>8, Zenon DEF Reference!Fetch
    <3> QED BY <1>1, <3>9, Zenon
  <2>12. CASE \E m \in First(rows) :
                /\ Commit(t, DeliveryOf(m))
                /\ messages' = ((messages \ Expired(id, at)) \ {m}) \cup
                                 {[m EXCEPT !.delivered = TRUE]}
    <3>1. PICK m \in First(rows) :
            /\ Commit(t, DeliveryOf(m))
            /\ messages' = ((messages \ Expired(id, at)) \ {m}) \cup
                             {[m EXCEPT !.delivered = TRUE]}
      BY <2>12, Zenon
    <3> DEFINE marked == [m EXCEPT !.delivered = TRUE]
    <3>2. /\ m \in rows /\ m \in MessageRow
          /\ marked.queue = id /\ marked.expires_at > at
      BY <2>6, Zenon DEF First, MessageRow
    <3>3. PICK answer, after :
            answer = DeliveryOf(m) /\ after = (rows \ {m}) \cup {marked}
      BY Zenon
    <3>4. /\ RowSet(after)
          /\ BySequence(after) = [BySequence(rows) EXCEPT ![1].delivered = TRUE]
      BY <2>5, <3>3, MarkBySequence, Zenon
    <3>5. /\ Commit(t, answer)
          /\ answer.status \notin {"QueueNotFound", "Unauthorized"}
      BY <3>1, <3>3, Zenon DEF DeliveryOf
    <3>6. messages' = (messages \ RowsOf(frame[t].request.queue)) \cup after
      <4>1. m \notin messages \ RowsOf(id)
        BY <3>2, <2>4, Zenon DEF Live, RowsOf
      <4> HIDE DEF marked
      <4> QED BY <1>1, <2>8, <3>1, <3>3, <4>1, Zenon DEF marked
    <3> HIDE DEF marked
    <3>7. \A n \in after : n.queue = frame[t].request.queue /\ n.expires_at > now[t]
      BY <1>1, <2>6, <3>2, <3>3, Zenon
    <3>8. /\ reply' = [request |-> frame[t].request, now |-> now[t],
                       result |-> answer]
          /\ ReferenceQueues' = [ReferenceQueues EXCEPT
               ![frame[t].request.queue].messages = BySequence(after)]
      BY <2>7, <2>10, <3>4, <3>5, <3>6, <3>7, CommittedClean, Zenon
    <3>9. BySequence(rows) # <<>> /\ Head(BySequence(rows)) = MessageOf(m)
      <4>1. rows # {}
        BY <3>2, Zenon
      <4>2. PICK n \in rows : /\ First(rows) = {n} /\ BySequence(rows) # <<>>
                              /\ Head(BySequence(rows)) = MessageOf(n)
        BY <2>5, <4>1, HeadBySequence, Zenon
      <4> QED BY <4>2, Zenon
    <3>10. answer = Reference!DeliveryOf(Head(BySequence(rows)))
      <4>1. answer = Reference!DeliveryOf(MessageOf(m))
        BY <3>3, Zenon DEF DeliveryOf, Reference!DeliveryOf, MessageOf
      <4> QED BY <3>9, <4>1, Zenon
    <3>11. /\ Reference!Answer(r, at, Reference!DeliveryOf(Head(BySequence(rows))))
           /\ ReferenceQueues' = [ReferenceQueues EXCEPT ![r.queue].messages =
                                    [BySequence(rows) EXCEPT ![1].delivered = TRUE]]
      BY <1>1, <3>4, <3>8, <3>10, Zenon DEF Reference!Answer
    <3>12. Reference!Fetch(r, at)
      BY <1>3, <2>1, <2>9, <3>9, <3>11, Zenon DEF Reference!Fetch
    <3> QED BY <1>1, <3>12, Zenon
  <2> QED BY <2>7, <2>11, <2>12, Zenon
<1> QED BY <1>4, <1>5, Zenon

\* Both relays find the same reason to refuse an ACK after authorization.
LEMMA AckResults ==
  ASSUME NEW rows, RowSet(rows), NEW r
  PROVE  LET result == Reference!AcknowledgeResult(r, BySequence(rows))
         IN  result = IF \A m \in First(rows) : m.id # r.message
                      THEN Status("AckMismatch")
                      ELSE IF \A m \in First(rows) : ~m.delivered
                      THEN Status("NotDelivered")
                      ELSE Status("Acknowledged")
<1>1. CASE rows = {}
  <2>1. BySequence(rows) = <<>>
    BY <1>1, EmptyBySequence, Zenon
  <2>2. First(rows) = {}
    BY <1>1, Zenon DEF First
  <2> QED BY <2>1, <2>2, SameStatus, Zenon DEF Reference!AcknowledgeResult
<1>2. CASE rows # {}
  <2>1. PICK m \in rows : /\ First(rows) = {m} /\ BySequence(rows) # <<>>
                          /\ Head(BySequence(rows)) = MessageOf(m)
    BY <1>2, HeadBySequence, Zenon
  <2>2. MessageOf(m).id = m.id /\ MessageOf(m).delivered = m.delivered
    BY Zenon DEF MessageOf
  <2>3. m.delivered \in BOOLEAN
    BY Zenon DEF RowSet, MessageRow
  <2> QED BY <2>1, <2>2, <2>3, SameStatus, Zenon DEF Reference!AcknowledgeResult
<1> QED BY <1>1, <1>2, Zenon

\* acknowledge of both relays remove the delivered head and nothing else.
LEMMA AckSimulated ==
  ASSUME SimulationInv, TimesInOrder, NEW t \in Threads,
         Acknowledge(t) \/ Reject(t), Observe(t), pc[t] = "execute",
         frame[t].request.command = "ACK"
  PROVE  Reference!Acknowledge(frame[t].request, now[t])
<1>1. PICK r, at, id :
        r = frame[t].request /\ at = now[t] /\ id = frame[t].request.queue
  BY Zenon
<1>2. /\ frame[t] \in Frames /\ id \in QueueIds
      /\ at \in Timestamps /\ cleaned[id] <= at
  BY <1>1, Observed, Zenon
<1>3. r \in Reference!AckRequest /\ r.queue = id
  BY <1>1, <1>2, RequestKinds, SameValues, Zenon
<1>4. CASE RecipientRefusal(r) # {}
  <2>1. Effect(t)
    BY Zenon DEF Effect
  <2>2. /\ \E refusal \in Reference!Refusal(frame[t].request.queue, "recipient",
                                            frame[t].request.recipient) :
              reply' = [request |-> frame[t].request, now |-> now[t],
                        result |-> refusal]
        /\ ReferenceQueues' = ReferenceQueues
    BY <1>1, <1>4, <2>1, RecipientDenied, Zenon
  <2> QED BY <1>1, <1>3, <2>2, Zenon DEF Reference!Acknowledge, Reference!Answer
<1>5. CASE RecipientRefusal(r) = {}
  <2>1. /\ queues[id] # None
        /\ Reference!Refusal(id, "recipient", r.recipient) = {}
        /\ ReferenceQueues[id].messages = BySequence(Kept(id))
    BY <1>2, <1>3, <1>5, RecipientAllowed, Zenon
  <2>2. PICK rows : rows = Live(id, at)
    BY Zenon
  <2>3. /\ RowSet(rows)
        /\ Reference!DiscardExpired(BySequence(Kept(id)), at) = BySequence(rows)
    BY <1>2, <2>2, LiveRows, Zenon
  <2>4. \A m \in rows : m \in MessageRow /\ m.queue = id /\ m.expires_at > at
    BY <1>2, <2>2, LiveIsLive, Zenon
  <2>5. Reference!DiscardExpired(ReferenceQueues[r.queue].messages, at)
          = BySequence(rows)
    BY <1>3, <2>1, <2>3, Zenon
  <2>6. /\ frame[t].request.command \in {"SEND", "FETCH", "ACK"}
        /\ queues[frame[t].request.queue] # None
    BY <1>1, <2>1, Zenon
  <2> DEFINE result == Reference!AcknowledgeResult(r, BySequence(rows))
  <2>7. result = IF \A m \in First(rows) : m.id # r.message
                 THEN Status("AckMismatch")
                 ELSE IF \A m \in First(rows) : ~m.delivered
                 THEN Status("NotDelivered")
                 ELSE Status("Acknowledged")
    BY <2>3, AckResults, Zenon
  <2>8. Refusal(frame[t].request, now[t]) =
          IF \A m \in First(rows) : m.id # r.message THEN {"AckMismatch"}
          ELSE IF \A m \in First(rows) : ~m.delivered THEN {"NotDelivered"}
          ELSE {}
    BY <1>1, <1>5, <2>2, Zenon DEF Refusal, AckRefusal
  <2> HIDE DEF result
  <2>9. SUFFICES
          /\ reply' = [request |-> r, now |-> at, result |-> result]
          /\ ReferenceQueues' = [ReferenceQueues EXCEPT ![r.queue].messages =
               IF result.status = "Acknowledged" THEN Tail(BySequence(rows))
               ELSE BySequence(rows)]
    <3>1. Reference!Acknowledge(r, at)
      BY <1>3, <2>1, <2>5, <2>9, Zenon
         DEF Reference!Acknowledge, Reference!Answer, result
    <3> QED BY <1>1, <3>1, Zenon
  <2>10. CASE Reject(t)
    <3>1. PICK error \in {"AckMismatch", "NotDelivered"} :
            response'[t] = Status(error) /\ result = Status(error)
      BY <2>7, <2>8, <2>10, RejectAnswers, Zenon DEF SimulationInv
    <3>2. error \notin {"QueueNotFound", "Unauthorized"}
      BY <3>1, ZenonT(30)
    <3>3. /\ reply' = [request |-> frame[t].request, now |-> now[t],
                       result |-> Status(error)]
          /\ ReferenceQueues' = [ReferenceQueues EXCEPT
               ![frame[t].request.queue].messages
                 = BySequence(Live(frame[t].request.queue, now[t]))]
      BY <2>6, <2>10, <3>1, <3>2, RefusedClean
    <3>4. result.status # "Acknowledged"
      BY <3>1, Zenon DEF Status
    <3> QED BY <1>1, <2>2, <3>1, <3>3, <3>4, Zenon
  <2>11. CASE Acknowledge(t)
    <3>1. /\ Refusal(frame[t].request, now[t]) = {}
          /\ Commit(t, Status("Acknowledged")) /\ queues' = queues
          /\ messages' = (messages \ Expired(id, at)) \ First(rows)
      BY <1>1, <2>2, <2>11, Zenon DEF Acknowledge, Runs
    <3>2. result = Status("Acknowledged") /\ rows # {}
      BY <2>7, <2>8, <3>1, Zenon DEF First
    <3>3. PICK m \in rows : /\ First(rows) = {m} /\ RowSet(rows \ {m})
                            /\ BySequence(rows \ {m}) = Tail(BySequence(rows))
      BY <2>3, <3>2, HeadBySequence, Zenon
    <3>4. PICK answer, after : answer = Status("Acknowledged") /\ after = rows \ {m}
      BY Zenon
    <3>5. /\ Commit(t, answer)
          /\ answer.status \notin {"QueueNotFound", "Unauthorized"}
      BY <3>1, <3>4, Zenon DEF Status
    <3>6. messages' = (messages \ RowsOf(frame[t].request.queue)) \cup after
      <4>1. messages \ Expired(id, at) = (messages \ RowsOf(id)) \cup rows
        BY <2>2, CleanedTable, Zenon
      <4>2. m \notin messages \ RowsOf(id)
        BY <2>2, <3>3, Zenon DEF Live, RowsOf
      <4> QED BY <1>1, <3>1, <3>3, <3>4, <4>1, <4>2, Zenon
    <3>7. \A n \in after : n.queue = frame[t].request.queue /\ n.expires_at > now[t]
      BY <1>1, <2>4, <3>4, Zenon
    <3>8. RowSet(after) /\ BySequence(after) = Tail(BySequence(rows))
      BY <3>3, <3>4, Zenon
    <3>9. /\ reply' = [request |-> frame[t].request, now |-> now[t],
                       result |-> answer]
          /\ ReferenceQueues' = [ReferenceQueues EXCEPT
               ![frame[t].request.queue].messages = BySequence(after)]
      BY <2>6, <3>1, <3>5, <3>6, <3>7, <3>8, CommittedClean, Zenon
    <3>10. result.status = "Acknowledged" /\ answer = result
      BY <3>2, <3>4, Zenon DEF Status
    <3> QED BY <1>1, <3>8, <3>9, <3>10, Zenon
  <2> QED BY <2>10, <2>11, Zenon
<1> QED BY <1>4, <1>5, Zenon

-----------------------------------------------------------------------------
(* The simulation.                                                         *)

\* The transaction of a command is the reference's execution of it.
LEMMA EffectSimulated ==
  ASSUME SimulationInv, TimesInOrder, NEW t \in Threads, Effect(t), Observe(t)
  PROVE  Reference!Next
<1>1. pc[t] = "execute"
  BY Zenon DEF Effect, CreateQueue, Send, Fetch, Acknowledge, DeleteQueue, Reject, Runs
<1>2. frame[t] \in Frames /\ now[t] \in Timestamps
  BY <1>1, Observed, Zenon
<1>3. /\ CreateQueue(t) => frame[t].request.command = "CREATE_QUEUE"
      /\ Send(t) => frame[t].request.command = "SEND"
      /\ Fetch(t) => frame[t].request.command = "FETCH"
      /\ Acknowledge(t) => frame[t].request.command = "ACK"
      /\ DeleteQueue(t) => frame[t].request.command = "DELETE_QUEUE"
  BY Zenon DEF CreateQueue, Send, Fetch, Acknowledge, DeleteQueue, Runs
<1>4. frame[t].request.command \in
        {"CREATE_QUEUE", "SEND", "FETCH", "ACK", "DELETE_QUEUE"}
  BY <1>2, RequestKinds, ZenonT(30)
<1>5. Reference!Execute(frame[t].request, now[t])
  <2>1. CASE frame[t].request.command = "CREATE_QUEUE"
    BY <1>1, <1>3, <2>1, CreateSimulated, Zenon DEF Effect, Reference!Execute
  <2>2. CASE frame[t].request.command = "SEND"
    BY <1>1, <1>3, <2>2, SendSimulated, Zenon DEF Effect, Reference!Execute
  <2>3. CASE frame[t].request.command = "FETCH"
    BY <1>1, <1>3, <2>3, FetchSimulated, Zenon DEF Effect, Reference!Execute
  <2>4. CASE frame[t].request.command = "ACK"
    BY <1>1, <1>3, <2>4, AckSimulated, Zenon DEF Effect, Reference!Execute
  <2>5. CASE frame[t].request.command = "DELETE_QUEUE"
    BY <1>1, <1>3, <2>5, DeleteSimulated, Zenon DEF Effect, Reference!Execute
  <2> QED BY <1>4, <2>1, <2>2, <2>3, <2>4, <2>5
<1>6. frame[t].request \in {f.request : f \in Frames}
  BY <1>2, Zenon
<1>7. now[t] \in Reference!Timestamps
  BY <1>2, SameValues, Zenon
<1> QED BY <1>5, <1>6, <1>7, Zenon DEF Reference!Next

\* The other steps of a thread, failures, crashes and the clock change no table.
LEMMA OthersQuiet ==
  ASSUME (\E t \in Threads : Passage(t)) \/ Environment
  PROVE  queues' = queues /\ messages' = messages
BY Zenon DEF Passage, Environment, Lookup, RecordRejection, InsertConflict, ReadBack,
       Respond, Accept, Fail, Crash, Release, Tick, tables

\* So every step of the SQLite relay is a step of the reference or none.
LEMMA StepSimulated ==
  ASSUME SimulationInv, TimesInOrder, [RefinementNext]_refinementVars
  PROVE  [Reference!Next]_(Reference!vars)
<1>1. ASSUME queues' = queues, messages' = messages, cleaned' = cleaned,
             reply' \in {None, reply}
      PROVE  [Reference!Next]_(Reference!vars)
  <2>1. ReferenceQueues' = ReferenceQueues
    BY <1>1, Untouched, Zenon
  <2>2. CASE reply' = reply
    BY <2>1, <2>2, Zenon DEF Reference!vars
  <2>3. CASE reply' = None
    BY <2>1, <2>3, Zenon DEF Reference!Next, Reference!Return
  <2> QED BY <1>1, <2>2, <2>3, Zenon
<1>2. CASE \E t \in Threads : Effect(t) /\ Observe(t)
  BY <1>2, EffectSimulated, Zenon
<1>3. CASE ((\E t \in Threads : Passage(t)) \/ Environment) /\ Returned
  <2>1. queues' = queues /\ messages' = messages
    BY <1>3, OthersQuiet, Zenon
  <2>2. cleaned' = cleaned /\ reply' \in {None, reply}
    BY <1>3, Zenon DEF Returned
  <2> QED BY <1>1, <2>1, <2>2, Zenon
<1>4. CASE UNCHANGED refinementVars
  <2>1. queues' = queues /\ messages' = messages /\ cleaned' = cleaned
    BY <1>4, Zenon DEF refinementVars, vars
  <2>2. reply' = reply
    BY <1>4, Zenon DEF refinementVars
  <2> QED BY <1>1, <2>1, <2>2, Zenon
<1> QED BY <1>2, <1>3, <1>4, Zenon DEF RefinementNext

\* Two empty relays.
LEMMA InitSimulated ==
  ASSUME RefinementInit
  PROVE  Reference!Init /\ CleanedType
<1>1. /\ queues = [id \in QueueIds |-> None] /\ reply = None
      /\ cleaned = [id \in QueueIds |-> 0] /\ MaxTimestamp \in Nat
  BY ProtocolAssumption, Zenon DEF RefinementInit, Init
<1>2. ReferenceQueues = [id \in QueueIds |-> None]
  BY <1>1, Zenon DEF ReferenceQueues
<1>3. CleanedType
  BY <1>1 DEF CleanedType, Timestamps
<1> QED BY <1>1, <1>2, <1>3, Zenon DEF Reference!Init

\* Observe stores relay times.
LEMMA CleanedStep ==
  ASSUME Busy, CleanedType, [RefinementNext]_refinementVars
  PROVE  CleanedType'
<1>1. CASE \E t \in Threads : Effect(t) /\ Observe(t)
  <2>1. PICK t \in Threads : Observe(t)
    BY <1>1, Zenon
  <2>2. now[t] \in Timestamps
    BY Zenon DEF Busy, TypeOK
  <2> QED BY <2>1, <2>2, Zenon DEF Observe, CleanedType
<1>2. CASE cleaned' = cleaned
  BY <1>2, Zenon DEF CleanedType
<1> QED BY <1>1, <1>2, Zenon DEF RefinementNext, Returned, refinementVars

\* With the history variables forgotten, this is the SQLite relay.
LEMMA ForgetHistory == RefinementSpec => Spec
<1>1. RefinementInit => Init
  BY Zenon DEF RefinementInit
<1>2. [RefinementNext]_refinementVars => [Next]_vars
  BY Zenon DEF RefinementNext, refinementVars, Next
<1> QED BY <1>1, <1>2, PTL DEF RefinementSpec, Spec

\* The invariants of the relay hold with the history variables added.
LEMMA SimulationAlways == RefinementSpec => []SimulationInv
<1>1. RefinementInit => CleanedType
  BY InitSimulated, Zenon
<1>2. Busy /\ CleanedType /\ [RefinementNext]_refinementVars => CleanedType'
  BY CleanedStep, Zenon
<1>3. Busy /\ TablesInv /\ CleanedType => SimulationInv
  BY Zenon DEF SimulationInv
<1> QED BY <1>1, <1>2, <1>3, ForgetHistory, BusyAlways, TablesAlways, PTL
        DEF RefinementSpec

\* Whatever connections and processes share the database, whatever crashes,
\* fails or is retried: as long as the relay times reach each queue in order,
\* the SQLite relay answers and stores what the in-memory reference does.
THEOREM OrderedTimesImplement ==
  RefinementSpec /\ []TimesInOrder => ImplementsReference
<1>1. RefinementInit => Reference!Init
  BY InitSimulated, Zenon
<1>2. SimulationInv /\ TimesInOrder /\ [RefinementNext]_refinementVars
        => [Reference!Next]_(Reference!vars)
  BY StepSimulated, Zenon
<1> QED BY <1>1, <1>2, SimulationAlways, PTL
        DEF RefinementSpec, ImplementsReference, Reference!Spec

\* With one thread and a clock that is not set back, a command never runs at a
\* time older than a cleaning.
CleanedBefore ==
  \A id \in QueueIds :
    /\ cleaned[id] <= clock
    /\ \A t \in Threads : pc[t] # "idle" => cleaned[id] <= now[t]

\* It stays so while exchanges are served one at a time: a look happens at the time
\* of the only busy thread, which is not in the future, and the next one samples a
\* clock that has not gone back.
LEMMA CleanedBeforeStep ==
  ASSUME ClockMayStepBack = FALSE, \A t, u \in Threads : t = u,
         Busy, SampledBefore, CleanedType, CleanedBefore,
         [RefinementNext]_refinementVars
  PROVE  CleanedBefore'
<1>1. [Next]_vars
  BY Zenon DEF RefinementNext, refinementVars, Next
<1>2. SampledBefore' /\ clock <= clock' /\ Busy'
  BY <1>1, SampledStep, BusyStep, Zenon
<1>3. /\ clock \in Timestamps /\ clock' \in Timestamps
      /\ now \in [Threads -> Timestamps] /\ now' \in [Threads -> Timestamps]
      /\ MaxTimestamp \in Nat /\ cleaned \in [QueueIds -> Timestamps]
  BY <1>2, ProtocolAssumption, Zenon DEF Busy, TypeOK, CleanedType
<1>4. ASSUME NEW t \in Threads, Effect(t), Observe(t)
      PROVE  CleanedBefore'
  <2>1. pc[t] # "idle" /\ now' = now /\ clock' = clock
    BY <1>4, Zenon DEF Effect, CreateQueue, Send, Fetch, Acknowledge, DeleteQueue,
                Reject, Runs, Commit
  <2>2. now[t] <= clock
    BY Zenon DEF SampledBefore
  <2>3. ASSUME NEW id \in QueueIds
        PROVE  cleaned'[id] \in {cleaned[id], now[t]}
    BY <1>3, <1>4, Zenon DEF Observe
  <2>4. \A u \in Threads : u = t
    BY Zenon
  <2>5. ASSUME NEW id \in QueueIds
        PROVE  cleaned'[id] <= clock /\ cleaned'[id] <= now[t]
    BY <1>3, <2>1, <2>2, <2>3 DEF CleanedBefore, Timestamps
  <2> QED BY <2>1, <2>4, <2>5 DEF CleanedBefore
<1>5. ASSUME UNCHANGED cleaned,
             \A t \in Threads : pc'[t] # "idle" =>
               now'[t] = clock \/ (pc[t] # "idle" /\ now'[t] = now[t])
      PROVE  CleanedBefore'
  BY <1>2, <1>3, <1>5 DEF CleanedBefore, Timestamps
<1>6. CASE ((\E t \in Threads : Passage(t)) \/ Environment) /\ Returned
  <2>1. \A t \in Threads : pc'[t] # "idle" =>
          now'[t] = clock \/ (pc[t] # "idle" /\ now'[t] = now[t])
    BY <1>6, ZenonT(30) DEF Passage, Environment, Lookup, RecordRejection, Record,
         InsertConflict, ReadBack, Respond, Accept, Fail, Crash, Release, Tick,
         Goto, thread, Busy, TypeOK
  <2> QED BY <1>5, <1>6, <2>1 DEF Returned
<1>7. CASE UNCHANGED refinementVars
  BY <1>5, <1>7, Zenon DEF refinementVars, vars
<1> QED BY <1>4, <1>6, <1>7, Zenon DEF RefinementNext

\* A relay that serves one exchange at a time under a clock that is not set back
\* refines the in-memory reference: capacity, expiry, delivery order and
\* idempotency agree, whatever crashes, fails or is retried.
THEOREM SerialRelayImplements ==
  ClockMayStepBack = FALSE /\ (\A t, u \in Threads : t = u)
    => (RefinementSpec => ImplementsReference)
<1>1. SUFFICES ASSUME ClockMayStepBack = FALSE, \A t, u \in Threads : t = u
               PROVE  RefinementSpec => ImplementsReference
  BY Zenon
<1>2. RefinementInit => SampledBefore /\ CleanedBefore
  BY ProtocolAssumption
     DEF RefinementInit, Init, SampledBefore, CleanedBefore, Timestamps
<1>3. Busy /\ SampledBefore /\ [Next]_vars => SampledBefore'
  BY <1>1, SampledStep, Zenon
<1>4. Busy /\ SampledBefore /\ CleanedType /\ CleanedBefore
        /\ [RefinementNext]_refinementVars => CleanedBefore'
  BY <1>1, CleanedBeforeStep, Zenon
<1>5. CleanedBefore => TimesInOrder
  BY Zenon DEF CleanedBefore, TimesInOrder
<1>6. SimulationInv => Busy /\ CleanedType
  BY Zenon DEF SimulationInv
<1>7. [RefinementNext]_refinementVars => [Next]_vars
  BY Zenon DEF RefinementNext, refinementVars, Next
<1>8. RefinementSpec => []TimesInOrder
  BY <1>2, <1>3, <1>4, <1>5, <1>6, <1>7, SimulationAlways, PTL
     DEF RefinementSpec
<1> QED BY <1>8, OrderedTimesImplement, PTL
=============================================================================
