------------------------- MODULE BulkTransferProofs -------------------------
(***************************************************************************)
(* Theorems about BulkTransfer, for any workers, sizes and bounds.         *)
(***************************************************************************)
EXTENDS BulkTransfer, FiniteSetTheorems, SequenceTheorems, TLAPS

\* A nonempty finite set of numbers has a largest and a smallest element: of
\* the sets of larger elements, one has no other of them as a part.
LEMMA MaxOf ==
  ASSUME NEW S, IsFiniteSet(S), S \subseteq Int, S # {}
  PROVE  Max(S) \in S /\ \A x \in S : x <= Max(S)
  <1> DEFINE Above(x) == {y \in S : y > x}
             T == {Above(x) : x \in S}
  <1>1. IsWellFoundedOn(StrictSubsetOrdering(S), SUBSET S)
    BY FS_StrictSubsetOrderingWellFounded, FS_FiniteSubsetsOfFinite
  <1>2. T \subseteq SUBSET S /\ T # {}
    OBVIOUS
  <1>3. PICK U \in T : \A V \in T : ~ (<<V, U>> \in StrictSubsetOrdering(S))
    <2> HIDE DEF T
    <2> QED BY <1>1, <1>2, WFMin
  <1>4. PICK x \in S : U = Above(x)
    OBVIOUS
  <1>5. ASSUME NEW z \in S, z > x PROVE FALSE
    <2>1. Above(z) \in T /\ Above(z) \subseteq U /\ z \in U /\ z \notin Above(z)
      <3>1. x \in Int /\ z \in Int /\ \A y \in S : y \in Int
        BY <1>4
      <3>2. \A y \in S : y > z => y > x
        BY <1>5, <3>1
      <3>3. ~ (z > z)
        BY <3>1
      <3> QED BY <1>4, <1>5, <3>2, <3>3
    <2>2. <<Above(z), U>> \in StrictSubsetOrdering(S)
      <3>1. Above(z) \in SUBSET S /\ U \in SUBSET S /\ Above(z) # U
        BY <2>1, <1>2
      <3> HIDE DEF Above
      <3> QED BY <2>1, <3>1 DEF StrictSubsetOrdering
    <2> QED BY <1>3, <2>1, <2>2
  <1>6. x \in S /\ \A y \in S : x >= y
    BY <1>5
  <1> QED BY <1>6 DEF Max

LEMMA MinOf ==
  ASSUME NEW S, IsFiniteSet(S), S \subseteq Int, S # {}
  PROVE  Min(S) \in S /\ \A x \in S : Min(S) <= x
  <1> DEFINE Below(x) == {y \in S : y < x}
             T == {Below(x) : x \in S}
  <1>1. IsWellFoundedOn(StrictSubsetOrdering(S), SUBSET S)
    BY FS_StrictSubsetOrderingWellFounded, FS_FiniteSubsetsOfFinite
  <1>2. T \subseteq SUBSET S /\ T # {}
    OBVIOUS
  <1>3. PICK U \in T : \A V \in T : ~ (<<V, U>> \in StrictSubsetOrdering(S))
    <2> HIDE DEF T
    <2> QED BY <1>1, <1>2, WFMin
  <1>4. PICK x \in S : U = Below(x)
    OBVIOUS
  <1>5. ASSUME NEW z \in S, z < x PROVE FALSE
    <2>1. Below(z) \in T /\ Below(z) \subseteq U /\ z \in U /\ z \notin Below(z)
      <3>1. x \in Int /\ z \in Int /\ \A y \in S : y \in Int
        BY <1>4
      <3>2. \A y \in S : y < z => y < x
        BY <1>5, <3>1
      <3>3. ~ (z < z)
        BY <3>1
      <3> QED BY <1>4, <1>5, <3>2, <3>3
    <2>2. <<Below(z), U>> \in StrictSubsetOrdering(S)
      <3>1. Below(z) \in SUBSET S /\ U \in SUBSET S /\ Below(z) # U
        BY <2>1, <1>2
      <3> HIDE DEF Below
      <3> QED BY <2>1, <3>1 DEF StrictSubsetOrdering
    <2> QED BY <1>3, <2>1, <2>2
  <1>6. x \in S /\ \A y \in S : x =< y
    BY <1>5
  <1> QED BY <1>6 DEF Min

\* The elements of a finite set of numbers, in order: each n up to their number
\* has one, and each element has its n.
Rank(ids, id) == Cardinality({other \in ids : other <= id})

LEMMA RankOf ==
  ASSUME NEW ids, IsFiniteSet(ids), ids \subseteq Int
  PROVE  /\ \A id \in ids : Rank(ids, id) \in 1 .. Cardinality(ids)
         /\ \A id, other \in ids : id < other => Rank(ids, id) < Rank(ids, other)
  <1> DEFINE UpTo(id) == {other \in ids : other <= id}
  <1>1. ASSUME NEW id \in ids
        PROVE  /\ IsFiniteSet(UpTo(id)) /\ Cardinality(UpTo(id)) \in Nat
               /\ Cardinality(UpTo(id)) <= Cardinality(ids)
               /\ Cardinality(UpTo(id)) # 0 /\ Cardinality(ids) \in Nat
    <2>1. UpTo(id) \in SUBSET ids /\ id \in UpTo(id)
      OBVIOUS
    <2> HIDE DEF UpTo
    <2> QED BY <2>1, FS_Subset, FS_CardinalityType, FS_EmptySet
  <1>2. ASSUME NEW id \in ids, NEW other \in ids, id < other
        PROVE  Cardinality(UpTo(id)) < Cardinality(UpTo(other))
    <2>1. UpTo(id) \in SUBSET UpTo(other) /\ UpTo(id) # UpTo(other)
      <3>1. \A x \in ids : x \in Int
        OBVIOUS
      <3>2. other \in UpTo(other) /\ other \notin UpTo(id)
        BY <1>2, <3>1
      <3>3. \A x \in ids : x <= id => x <= other
        BY <1>2, <3>1
      <3> QED BY <3>2, <3>3
    <2> HIDE DEF UpTo
    <2> QED BY <1>1, <2>1, FS_Subset
  <1> QED BY <1>1, <1>2 DEF Rank

LEMMA NthOf ==
  ASSUME NEW ids, IsFiniteSet(ids), ids \subseteq Int
  PROVE  /\ Cardinality(ids) \in Nat
         /\ \A n \in 1 .. Cardinality(ids) :
                Nth(ids, n) \in ids /\ Rank(ids, Nth(ids, n)) = n
         /\ \A id \in ids : \E n \in 1 .. Cardinality(ids) : Nth(ids, n) = id
  <1> DEFINE c == Cardinality(ids)
             f == [id \in ids |-> Rank(ids, id)]
  <1>1. c \in Nat
    BY FS_CardinalityType
  <1>0. ASSUME NEW id \in ids, NEW other \in ids, Rank(ids, id) = Rank(ids, other)
        PROVE  id = other
    <2>1. id \in Int /\ other \in Int
      OBVIOUS
    <2>2. Rank(ids, id) \in 1 .. c /\ \A x, y \in ids : x < y => Rank(ids, x) < Rank(ids, y)
      BY RankOf
    <2> HIDE DEF c
    <2>3. ~ (id < other) /\ ~ (other < id)
      BY <1>0, <1>1, <2>2
    <2> QED BY <2>1, <2>3
  <1>2. f \in Injection(ids, 1 .. c)
    <2>1. \A id, other \in ids : Rank(ids, id) = Rank(ids, other) => id = other
      BY <1>0
    <2>2. f \in [ids -> 1 .. c]
      BY RankOf
    <2> QED BY <2>1, <2>2 DEF Injection, IsInjective
  <1>3. IsFiniteSet(1 .. c) /\ Cardinality(1 .. c) = c
    BY <1>1, FS_Interval
  <1>4. f \in Surjection(ids, 1 .. c)
    <2> HIDE DEF f
    <2> QED BY <1>2, <1>3, FS_Injection
  <1>5. \A n \in 1 .. c : \E id \in ids : Rank(ids, id) = n
    BY <1>4 DEF Surjection
  <1>6. \A n \in 1 .. c : Nth(ids, n) \in ids /\ Rank(ids, Nth(ids, n)) = n
    BY <1>5 DEF Nth, Rank
  <1>7. \A id \in ids : Nth(ids, Rank(ids, id)) = id
    <2>1. \A id \in ids : Rank(ids, id) \in 1 .. c
      BY RankOf
    <2>2. \A id, other \in ids : Rank(ids, id) = Rank(ids, other) => id = other
      BY <1>0
    <2> QED BY <1>6, <2>1, <2>2
  <1> QED BY <1>1, <1>6, <1>7, RankOf

-----------------------------------------------------------------------------
LEMMA Numbers ==
  /\ Size \in Nat /\ Size >= 1 /\ NumKinds \in Nat /\ NumKinds >= 1
  /\ BatchSize \in Nat /\ BatchSize >= 1 /\ CommitEvery \in Nat /\ CommitEvery >= 1
  /\ PoolSize \in Nat /\ MaxRuns \in Nat /\ MaxRuns >= 1
  BY NumberAssumption

LEMMA FunctionIsSeq ==
  ASSUME NEW S, NEW n \in Nat, NEW f \in [1 .. n -> S]
  PROVE  f \in Seq(S) /\ Len(f) = n /\ DOMAIN f = 1 .. n
  <1>1. f \in Seq(S)
    BY SeqDef
  <1> QED BY <1>1, LenProperties

\* What the entities of a range are.
Has(r, n) ==
    /\ r.start < n \/ (r.inclStart /\ r.start = n)
    /\ n < r.end \/ (r.inclEnd /\ n = r.end)

LEMMA InWithin ==
  ASSUME NEW r
  PROVE  /\ \A e : e \in Within(r) <=>
                e = <<r.kind, e[2]>> /\ e[2] \in 1 .. Size /\ Has(r, e[2])
         /\ \A n : <<r.kind, n>> \in Within(r) <=> n \in 1 .. Size /\ Has(r, n)
         /\ IsFiniteSet(Within(r)) /\ Cardinality(Within(r)) \in Nat
  <1>1. \A e : e \in Within(r) <=>
            e = <<r.kind, e[2]>> /\ e[2] \in 1 .. Size /\ Has(r, e[2])
    BY DEF Within, Has
  <1>2. IsFiniteSet({r.kind}) /\ IsFiniteSet(1 .. Size)
    <2>1. IsFiniteSet({r.kind})
      BY FS_Singleton
    <2>2. 1 \in Int /\ Size \in Int
      BY Numbers
    <2>3. IsFiniteSet(1 .. Size)
      BY <2>2, FS_Interval
    <2> QED BY <2>1, <2>3
  <1>3. IsFiniteSet({r.kind} \X (1 .. Size))
    BY <1>2, FS_Product
  <1>4. Within(r) \in SUBSET ({r.kind} \X (1 .. Size))
    BY <1>1
  <1> QED BY <1>1, <1>3, <1>4, FS_Subset, FS_CardinalityType DEF Within, Has

\* The range of a row, whose keys are both in it.
RowRange(row) == KeyRange(row.kind, row.start, row.end, TRUE, TRUE, TRUE)

LEMMA RecordedItems ==
  ASSUME NEW rows \in Seq(Rows)
  PROVE  /\ Recorded(rows) \in Seq(Items)
         /\ \A n \in DOMAIN Recorded(rows) :
               LET x == Recorded(rows)[n] IN
               /\ x.key \in DOMAIN rows /\ Open(rows, x.key) /\ x.key # NoKey
               /\ x.range = RowRange(rows[x.key]) /\ x.state = "READ"
               /\ \A m \in DOMAIN Recorded(rows) : Recorded(rows)[m].key = x.key => m = n
         /\ \A id \in DOMAIN rows : Open(rows, id) =>
               \E n \in DOMAIN Recorded(rows) : Recorded(rows)[n].key = id
  <1> DEFINE ids == OpenIds(rows)
             c == Cardinality(ids)
             s == Recorded(rows)
  <1>1. IsFiniteSet(ids) /\ ids \subseteq Int
    <2>1. ids \in SUBSET (1 .. Len(rows)) /\ Len(rows) \in Int /\ 1 \in Int
      BY LenProperties DEF OpenIds
    <2>2. IsFiniteSet(1 .. Len(rows))
      BY <2>1, FS_Interval
    <2> HIDE DEF ids
    <2>3. IsFiniteSet(ids)
      BY <2>1, <2>2, FS_Subset
    <2>4. ids \subseteq Int
      BY <2>1
    <2> QED BY <2>3, <2>4
  <1>2. /\ c \in Nat
        /\ \A n \in 1 .. c : Nth(ids, n) \in ids /\ Rank(ids, Nth(ids, n)) = n
        /\ \A id \in ids : \E n \in 1 .. c : Nth(ids, n) = id
    <2> HIDE DEF ids
    <2> QED BY <1>1, NthOf
  <1>3. /\ DOMAIN s = 1 .. c
        /\ \A n \in 1 .. c : LET id == Nth(ids, n) IN
             s[n] = Item(KeyRange(rows[id].kind, rows[id].start, rows[id].end, TRUE, TRUE, TRUE),
                         "READ", id)
    BY DEF Recorded
  <1>4. \A n \in 1 .. c : s[n].key = Nth(ids, n) /\ s[n].range = RowRange(rows[s[n].key])
                          /\ s[n].state = "READ"
    <2> HIDE DEF s, ids, c
    <2> SUFFICES ASSUME NEW n \in 1 .. c
                 PROVE  /\ s[n].key = Nth(ids, n) /\ s[n].range = RowRange(rows[s[n].key])
                        /\ s[n].state = "READ"
      OBVIOUS
    <2> DEFINE id == Nth(ids, n)
    <2>1. s[n] = Item(RowRange(rows[id]), "READ", id)
      BY <1>3 DEF RowRange
    <2> HIDE DEF id
    <2>2. s[n].key = id /\ s[n].range = RowRange(rows[id]) /\ s[n].state = "READ"
      BY <2>1 DEF Item
    <2> QED BY <2>2 DEF id
  <1>5. \A id \in ids : id \in DOMAIN rows /\ Open(rows, id) /\ id \in Nat /\ id # NoKey
    BY LenProperties DEF OpenIds, NoKey
  <1>6. \A n \in 1 .. c : s[n] \in Items
    <2> SUFFICES ASSUME NEW n \in 1 .. c PROVE s[n] \in Items
      OBVIOUS
    <2>1. Nth(ids, n) \in DOMAIN rows /\ Nth(ids, n) \in Nat
      BY <1>2, <1>5
    <2>2. rows[Nth(ids, n)] \in Rows
      BY <2>1, LenProperties
    <2> DEFINE id == Nth(ids, n)
    <2>3. s[n] = Item(RowRange(rows[id]), "READ", id)
      BY <1>3 DEF RowRange
    <2>4. RowRange(rows[id]) \in KeyRanges
      BY <2>2 DEF Rows, RowRange, KeyRange, KeyRanges
    <2> HIDE DEF s, id, ids
    <2> QED BY <2>1, <2>3, <2>4 DEF Items, Item, States, id
  <1>7. s \in Seq(Items)
    <2>1. s \in [1 .. c -> Items]
      <3>1. s = [n \in 1 .. c |-> s[n]]
        BY DEF Recorded
      <3> HIDE DEF s, c
      <3> QED BY <1>3, <1>6, <3>1
    <2> QED BY <1>2, <2>1, FunctionIsSeq
  <1>8. \A n, m \in 1 .. c : s[n].key = s[m].key => n = m
    BY <1>2, <1>4
  <1> QED
    <2> HIDE DEF s, ids, c
    <2>1. \A id \in DOMAIN rows : Open(rows, id) => id \in ids
      BY DEF ids, OpenIds
    <2>2. \A n \in 1 .. c : s[n].key \in ids
      BY <1>2, <1>4
    <2>3. \A id \in ids : \E n \in 1 .. c : s[n].key = id
      BY <1>2, <1>4
    <2>4. /\ s \in Seq(Items)
          /\ \A n \in DOMAIN s :
               /\ s[n].key \in DOMAIN rows /\ Open(rows, s[n].key) /\ s[n].key # NoKey
               /\ s[n].range = RowRange(rows[s[n].key]) /\ s[n].state = "READ"
               /\ \A m \in DOMAIN s : s[m].key = s[n].key => m = n
          /\ \A id \in DOMAIN rows : Open(rows, id) =>
               \E n \in DOMAIN s : s[n].key = id
      BY <1>3, <1>4, <1>5, <1>7, <1>8, <2>1, <2>2, <2>3
    <2> QED BY <2>4 DEF s
-----------------------------------------------------------------------------
\* The batches of the lines after the given one are in order and leave none out.
LEMMA TimesGrows ==
  ASSUME NEW a \in Int, NEW b \in Int, NEW c \in Nat, a <= b
  PROVE  a * c <= b * c
  OBVIOUS

LEMMA DivisionOf ==
  ASSUME NEW a \in Nat, NEW b \in Nat, b >= 1
  PROVE  a \div b \in Nat /\ (a \div b) * b <= a /\ a < (a \div b + 1) * b
  OBVIOUS

LEMMA LinesAfter ==
  ASSUME NEW line \in 0 .. Size
  PROVE  /\ Lines(line) \in Seq(Items)
         /\ \A n \in DOMAIN Lines(line) :
               LET x == Lines(line)[n] IN
               /\ x.key = NoKey /\ x.state = "READ" /\ x.range.kind = 1
               /\ x.range.inclStart /\ x.range.inclEnd
               /\ line < x.range.start /\ x.range.start <= x.range.end
               /\ x.range.end <= Size
               /\ \A m \in DOMAIN Lines(line) :
                      n < m => x.range.end < Lines(line)[m].range.start
         /\ \A i \in line + 1 .. Size : \E n \in DOMAIN Lines(line) :
               Lines(line)[n].range.start <= i /\ i <= Lines(line)[n].range.end
  <1> DEFINE c == (Size - line + BatchSize - 1) \div BatchSize
             s == Lines(line)
             first(n) == line + 1 + (n - 1) * BatchSize
             last(n) == Lesser(first(n) + BatchSize - 1, Size)
  <1>1. /\ c \in Nat /\ c * BatchSize <= Size - line + BatchSize - 1
        /\ Size - line + BatchSize - 1 < (c + 1) * BatchSize
    <2>1. Size - line + BatchSize - 1 \in Nat
      BY Numbers
    <2> QED BY <2>1, Numbers, DivisionOf
  <1>2. /\ DOMAIN s = 1 .. c /\ s = [n \in 1 .. c |-> s[n]]
        /\ \A n \in 1 .. c :
              s[n] = Item(KeyRange(1, first(n), last(n), TRUE, TRUE, TRUE), "READ", NoKey)
    BY DEF Lines
  <1>3. \A n \in 1 .. c :
          /\ s[n].key = NoKey /\ s[n].state = "READ" /\ s[n].range.kind = 1
          /\ s[n].range.inclStart /\ s[n].range.inclEnd
          /\ s[n].range.start = first(n) /\ s[n].range.end = last(n)
    <2> HIDE DEF s, first, last, c
    <2> QED BY <1>2 DEF Item, KeyRange
  <1>4. ASSUME NEW n \in 1 .. c
        PROVE  /\ first(n) \in line + 1 .. Size
               /\ last(n) \in 0 .. Size /\ last(n) <= first(n) + BatchSize - 1
               /\ first(n) <= last(n)
    <2>1. (n - 1) * BatchSize <= (c - 1) * BatchSize /\ 0 * BatchSize <= (n - 1) * BatchSize
      BY <1>1, Numbers, TimesGrows
    <2>2. (c - 1) * BatchSize = c * BatchSize - BatchSize /\ 0 * BatchSize = 0
          /\ (n - 1) * BatchSize \in Int /\ c * BatchSize \in Int
      BY <1>1, Numbers
    <2>3. first(n) \in line + 1 .. Size
      BY <1>1, <2>1, <2>2, Numbers
    <2> QED BY <2>3, Numbers DEF Lesser
  <1>5. ASSUME NEW n \in 1 .. c, NEW m \in 1 .. c, n < m
        PROVE  last(n) < first(m)
    <2>1. n * BatchSize <= (m - 1) * BatchSize
      BY <1>1, <1>5, Numbers, TimesGrows
    <2>2. n * BatchSize = (n - 1) * BatchSize + BatchSize
          /\ (n - 1) * BatchSize \in Int /\ (m - 1) * BatchSize \in Int
      BY <1>1, Numbers
    <2>3. last(n) \in Int /\ last(n) <= first(n) + BatchSize - 1
      BY <1>4
    <2> HIDE DEF last
    <2> QED BY <2>1, <2>2, <2>3, Numbers
  <1>6. ASSUME NEW i \in line + 1 .. Size
        PROVE  \E n \in 1 .. c : first(n) <= i /\ i <= last(n)
    <2> DEFINE q == (i - line - 1) \div BatchSize
    <2>1. /\ q \in Nat /\ q * BatchSize <= i - line - 1
          /\ i - line - 1 < (q + 1) * BatchSize
      <3>1. i - line - 1 \in Nat
        BY Numbers
      <3> QED BY <3>1, Numbers, DivisionOf
    <2> HIDE DEF q
    <2>2. q + 1 <= c
      <3>1. SUFFICES ASSUME c + 1 <= q + 1 PROVE FALSE
        BY <1>1, <2>1
      <3>2. (c + 1) * BatchSize <= (q + 1) * BatchSize
        BY <1>1, <2>1, <3>1, Numbers, TimesGrows
      <3>3. (q + 1) * BatchSize = q * BatchSize + BatchSize
            /\ (c + 1) * BatchSize \in Int /\ q * BatchSize \in Int
        BY <1>1, <2>1, Numbers
      <3> QED BY <1>1, <2>1, <3>2, <3>3, Numbers
    <2>3. q + 1 \in 1 .. c /\ (q + 1) - 1 = q
      BY <1>1, <2>1, <2>2
    <2>4. first(q + 1) <= i /\ i <= last(q + 1)
      <3>1. (q + 1) * BatchSize = q * BatchSize + BatchSize /\ q * BatchSize \in Int
        BY <2>1, Numbers
      <3> QED BY <2>1, <2>3, <3>1, Numbers DEF Lesser
    <2> QED BY <2>3, <2>4
  <1> HIDE DEF c, first, last
  <1>7. s \in Seq(Items)
    <2>1. ASSUME NEW n \in 1 .. c PROVE s[n] \in Items
      <3>1. first(n) \in 0 .. Size + 1 /\ last(n) \in 0 .. Size + 1 /\ 1 \in 1 .. NumKinds
        BY <1>4, Numbers
      <3>2. KeyRange(1, first(n), last(n), TRUE, TRUE, TRUE) \in KeyRanges
        BY <3>1 DEF KeyRange, KeyRanges
      <3>3. s[n] = Item(KeyRange(1, first(n), last(n), TRUE, TRUE, TRUE), "READ", NoKey)
        BY <1>2
      <3>4. \A r \in KeyRanges : Item(r, "READ", NoKey) \in Items
        BY DEF Items, Item, States, NoKey
      <3> HIDE DEF s
      <3> QED BY <3>2, <3>3, <3>4
    <2>2. s \in [1 .. c -> Items]
      <3> HIDE DEF s
      <3> QED BY <1>2, <2>1
    <2> QED BY <1>1, <2>2, FunctionIsSeq
  <1> HIDE DEF s
  <1>8. /\ s \in Seq(Items)
        /\ \A n \in DOMAIN s :
              /\ s[n].key = NoKey /\ s[n].state = "READ" /\ s[n].range.kind = 1
              /\ s[n].range.inclStart /\ s[n].range.inclEnd
              /\ line < s[n].range.start /\ s[n].range.start <= s[n].range.end
              /\ s[n].range.end <= Size
              /\ \A m \in DOMAIN s : n < m => s[n].range.end < s[m].range.start
        /\ \A i \in line + 1 .. Size : \E n \in DOMAIN s :
              s[n].range.start <= i /\ i <= s[n].range.end
    <2>1. \A n \in 1 .. c : first(n) \in line + 1 .. Size /\ last(n) \in 0 .. Size
      BY <1>4
    <2>2. \A n, m \in 1 .. c : n < m => last(n) < first(m)
      BY <1>5
    <2>3. \A i \in line + 1 .. Size : \E n \in 1 .. c : first(n) <= i /\ i <= last(n)
      BY <1>6
    <2>4. \A n \in 1 .. c : line < first(n) /\ last(n) <= Size
      BY <2>1, Numbers
    <2>4a. \A n \in 1 .. c : first(n) <= last(n)
      BY <1>4
    <2>5. \A n \in 1 .. c : /\ line < s[n].range.start /\ s[n].range.end <= Size
                           /\ s[n].range.start <= s[n].range.end
      BY <1>3, <2>4, <2>4a
    <2>6. \A n, m \in 1 .. c : n < m => s[n].range.end < s[m].range.start
      BY <1>3, <2>2
    <2>7. \A i \in line + 1 .. Size : \E n \in 1 .. c :
              s[n].range.start <= i /\ i <= s[n].range.end
      BY <1>3, <2>3
    <2> QED BY <1>2, <1>3, <1>7, <2>5, <2>6, <2>7
  <1> QED BY <1>8 DEF s
-----------------------------------------------------------------------------
\* After the last line there is no batch.
LEMMA NoLines == Lines(Size + 1) = <<>>
  <1> DEFINE c == (Size - (Size + 1) + BatchSize - 1) \div BatchSize
  <1>1. BatchSize - 2 = Size - (Size + 1) + BatchSize - 1
    BY Numbers
  <1>2. c <= 0 /\ c \in Int
    <2>1. CASE BatchSize = 1
      BY <2>1, Numbers
    <2>2. CASE BatchSize >= 2
      <3>1. BatchSize - 2 \in Nat /\ BatchSize - 2 < BatchSize
        BY <2>2, Numbers
      <3>2. (BatchSize - 2) \div BatchSize = 0
        BY <3>1, Numbers
      <3> QED BY <1>1, <3>2
    <2> QED BY <2>1, <2>2, Numbers
  <1>3. 1 .. c = {}
    BY <1>2
  <1>4. Lines(Size + 1) \in [1 .. 0 -> {}]
    <2>1. 1 .. 0 = 1 .. c
      BY <1>3
    <2> QED BY <1>3, <2>1 DEF Lines
  <1>5. Len(Lines(Size + 1)) = 0 /\ Lines(Size + 1) \in Seq({})
    BY <1>4, FunctionIsSeq
  <1> QED BY <1>5, EmptySeq

\* What a strict order of a finite set takes first is the given number of
\* elements or the whole set, and every element before one of them.
Earlier(N, R, n) == {k \in N : <<k, n>> \in R}

LEMMA TakenFirst ==
  ASSUME NEW N, IsFiniteSet(N), NEW R, NEW b \in Nat, NEW F,
         \A n : n \in F <=> n \in N /\ Cardinality(Earlier(N, R, n)) < b,
         \A x \in N : <<x, x>> \notin R,
         \A x, y, z \in N : <<x, y>> \in R /\ <<y, z>> \in R => <<x, z>> \in R,
         \A x, y \in N : x = y \/ <<x, y>> \in R \/ <<y, x>> \in R
  PROVE  /\ IsFiniteSet(F) /\ Cardinality(F) \in Nat
         /\ Cardinality(F) # b => F = N
         /\ \A n \in F, k \in N : <<k, n>> \in R => k \in F
  <1> DEFINE Before(n) == Earlier(N, R, n)
             c == Cardinality(N)
             f == [n \in N |-> Cardinality(Before(n))]
  <1>1. IsFiniteSet(F) /\ Cardinality(F) \in Nat /\ c \in Nat
    <2>1. F \in SUBSET N
      OBVIOUS
    <2> QED BY <2>1, FS_Subset, FS_CardinalityType
  <1>2. ASSUME NEW n \in N
        PROVE  Cardinality(Before(n)) \in 0 .. c - 1
    <2>1. Before(n) \in SUBSET N /\ Before(n) # N
      BY DEF Earlier
    <2> HIDE DEF Before
    <2>2. /\ IsFiniteSet(Before(n)) /\ Cardinality(Before(n)) <= c
          /\ Cardinality(Before(n)) # c
      BY <2>1, FS_Subset
    <2>3. Cardinality(Before(n)) \in Nat
      BY <2>2, FS_CardinalityType
    <2> HIDE DEF c
    <2> QED BY <1>1, <2>2, <2>3
  <1>3. ASSUME NEW n \in N, NEW k \in N, <<k, n>> \in R
        PROVE  Cardinality(Before(k)) < Cardinality(Before(n))
    <2>1. Before(k) \in SUBSET Before(n) /\ Before(k) # Before(n)
      <3>1. k \in Before(n) /\ k \notin Before(k)
        BY <1>3 DEF Earlier
      <3>2. \A x \in Before(k) : x \in Before(n)
        BY <1>3 DEF Earlier
      <3> HIDE DEF Before
      <3> QED BY <3>1, <3>2
    <2>2. Before(n) \in SUBSET N
      BY DEF Earlier
    <2> HIDE DEF Before
    <2>3. IsFiniteSet(Before(n)) /\ IsFiniteSet(Before(k))
      BY <2>1, <2>2, FS_Subset
    <2>4. Cardinality(Before(n)) \in Nat /\ Cardinality(Before(k)) \in Nat
      BY <2>3, FS_CardinalityType
    <2>5. Cardinality(Before(k)) <= Cardinality(Before(n))
          /\ Cardinality(Before(k)) # Cardinality(Before(n))
      BY <2>1, <2>3, FS_Subset
    <2> QED BY <2>4, <2>5
  <1>4. f \in Bijection(N, 0 .. c - 1)
    <2>1. f \in [N -> 0 .. c - 1]
      BY <1>2
    <2>2. \A n, k \in N : f[n] = f[k] => n = k
      <3>1. \A n, k \in N : <<k, n>> \in R => f[k] < f[n]
        BY <1>3
      <3>2. \A n \in N : f[n] \in Int
        BY <1>2
      <3> HIDE DEF f
      <3> SUFFICES ASSUME NEW n \in N, NEW k \in N, f[n] = f[k], n # k PROVE FALSE
        OBVIOUS
      <3>3. <<n, k>> \in R \/ <<k, n>> \in R
        OBVIOUS
      <3> QED BY <3>1, <3>2, <3>3
    <2>3. f \in Injection(N, 0 .. c - 1)
      BY <2>1, <2>2 DEF Injection, IsInjective
    <2>4. IsFiniteSet(0 .. c - 1) /\ Cardinality(0 .. c - 1) = c
      <3>1. 0 \in Int /\ c - 1 \in Int
        BY <1>1
      <3> HIDE DEF c
      <3>2. IsFiniteSet(0 .. c - 1)
            /\ Cardinality(0 .. c - 1) = IF 0 > c - 1 THEN 0 ELSE (c - 1) - 0 + 1
        BY <3>1, FS_Interval
      <3> QED BY <1>1, <3>2
    <2> HIDE DEF f
    <2>5. f \in Surjection(N, 0 .. c - 1)
      BY <2>3, <2>4, FS_Injection
    <2> QED BY <2>3, <2>5 DEF Bijection
  <1>5. ASSUME NEW n \in N \ F PROVE Cardinality(F) = b
    <2>1. b <= c - 1
      <3>1. Cardinality(Before(n)) \in 0 .. c - 1 /\ ~ (Cardinality(Before(n)) < b)
        BY <1>2
      <3> HIDE DEF c, Before
      <3> QED BY <1>1, <3>1
    <2> DEFINE g == [x \in F |-> f[x]]
    <2>2. \A x \in N : f[x] = Cardinality(Before(x)) /\ (x \in F <=> f[x] < b)
      OBVIOUS
    <2>3. F \subseteq N
      OBVIOUS
    <2> HIDE DEF f, c, Before
    <2>4. \A x, y \in N : f[x] = f[y] => x = y
      BY <1>4 DEF Bijection, Injection, IsInjective
    <2>5. \A i \in 0 .. c - 1 : \E x \in N : f[x] = i
      BY <1>4 DEF Bijection, Surjection
    <2>6. \A x \in N : f[x] \in 0 .. c - 1
      BY <1>4 DEF Bijection, Injection
    <2>7. ASSUME NEW x \in F PROVE g[x] \in 0 .. b - 1
      <3>1. f[x] \in 0 .. c - 1 /\ f[x] < b
        BY <2>2, <2>3, <2>6
      <3>2. f[x] \in 0 .. b - 1
        BY <1>1, <3>1
      <3> QED BY <3>2
    <2>8. g \in Bijection(F, 0 .. b - 1)
      <3>1. g \in [F -> 0 .. b - 1]
        BY <2>7
      <3>2. \A x, y \in F : g[x] = g[y] => x = y
        BY <2>3, <2>4
      <3>3. \A i \in 0 .. b - 1 : \E x \in F : g[x] = i
        <4> SUFFICES ASSUME NEW i \in 0 .. b - 1 PROVE \E x \in F : g[x] = i
          OBVIOUS
        <4>1. i \in 0 .. c - 1 /\ i < b
          BY <1>1, <2>1
        <4>2. PICK x \in N : f[x] = i
          BY <2>5, <4>1
        <4> QED BY <2>2, <4>1, <4>2
      <3> HIDE DEF g
      <3> QED BY <3>1, <3>2, <3>3 DEF Bijection, Injection, IsInjective, Surjection
    <2>9. 0 \in Int /\ b - 1 \in Int
      OBVIOUS
    <2>10. IsFiniteSet(0 .. b - 1) /\ Cardinality(0 .. b - 1) = b
      <3>1. IsFiniteSet(0 .. b - 1)
            /\ Cardinality(0 .. b - 1) = IF 0 > b - 1 THEN 0 ELSE (b - 1) - 0 + 1
        BY <2>9, FS_Interval
      <3> QED BY <3>1
    <2>11. ExistsBijection(F, 0 .. b - 1)
      <3> HIDE DEF g
      <3> QED BY <2>8 DEF ExistsBijection
    <2> QED BY <1>1, <2>10, <2>11, FS_Bijection
  <1>6. ASSUME NEW n \in F, NEW k \in N, <<k, n>> \in R PROVE k \in F
    <2>1. Cardinality(Before(k)) < Cardinality(Before(n)) /\ Cardinality(Before(n)) < b
      BY <1>3, <1>6
    <2>2. Cardinality(Before(k)) \in Int /\ Cardinality(Before(n)) \in Int
      BY <1>2
    <2>3. Cardinality(Before(k)) < b
      <3> HIDE DEF Before
      <3> QED BY <2>1, <2>2
    <2> QED BY <2>3
  <1>7. Cardinality(F) # b => F = N
    <2>1. F \subseteq N
      OBVIOUS
    <2> QED BY <1>5, <2>1
  <1> QED BY <1>1, <1>6, <1>7

Seconds(S) == {entity[2] : entity \in S}

LEMMA SecondOf ==
  ASSUME NEW kind, NEW S, NEW E, \A e : e \in E <=> \E n \in S : e = <<kind, n>>
  PROVE  Seconds(E) = S
  <1>1. \A n \in S : <<kind, n>>[2] = n
    OBVIOUS
  <1>2. ASSUME NEW n \in Seconds(E) PROVE n \in S
    <2>1. PICK e \in E : n = e[2]
      BY DEF Seconds
    <2> QED BY <1>1, <2>1
  <1>3. ASSUME NEW n \in S PROVE n \in Seconds(E)
    <2>1. <<kind, n>> \in E
      OBVIOUS
    <2> QED BY <1>1, <2>1 DEF Seconds
  <1> QED BY <1>2, <1>3

\* A download that was continued fetched something, and what it did not fetch
\* is in what remains; one that was not has fetched all.
LEMMA FetchedOf ==
  ASSUME NEW r \in KeyRanges
  PROVE  /\ Fetched(r) \subseteq Within(r)
         /\ ~Continued(r) => Within(r) \subseteq Fetched(r)
         /\ Continued(r) => /\ Remainder(r) \in KeyRanges /\ Remainder(r).kind = r.kind
                            /\ Within(r) \ Fetched(r) \subseteq Within(Remainder(r))
  <1> DEFINE N == {n \in 1 .. Size : Has(r, n)}
             R == {p \in N \X N : IF r.asc THEN p[1] < p[2] ELSE p[1] > p[2]}
             F == {n \in N : Cardinality({k \in N : <<k, n>> \in R}) < BatchSize}
             numbers == {entity[2] : entity \in Fetched(r)}
  <1>1. NumbersIn(r) = N
    <2>1. Within(r) = {<<r.kind, n>> : n \in N}
      BY DEF Within, Has
    <2> HIDE DEF N
    <2>2. NumbersIn(r) = Seconds(Within(r))
      BY DEF NumbersIn, Seconds
    <2>3. \A e : e \in Within(r) <=> \E n \in N : e = <<r.kind, n>>
      BY <2>1
    <2> QED BY <2>2, <2>3, SecondOf
  <1>2. IsFiniteSet(N) /\ N \subseteq Int
    <2>1. 1 \in Int /\ Size \in Int
      BY Numbers
    <2>2. IsFiniteSet(1 .. Size) /\ N \in SUBSET (1 .. Size)
      BY <2>1, FS_Interval
    <2>3. IsFiniteSet(N)
      <3> HIDE DEF N
      <3> QED BY <2>2, FS_Subset
    <2> QED BY <2>3
  <1>3. F = {n \in N : Cardinality({k \in N : IF r.asc THEN k < n ELSE k > n}) < BatchSize}
    <2>1. ASSUME NEW n \in N
          PROVE  {k \in N : <<k, n>> \in R} = {k \in N : IF r.asc THEN k < n ELSE k > n}
      <3> HIDE DEF N
      <3> QED OBVIOUS
    <2> HIDE DEF N, R
    <2> QED BY <2>1
  <1>4. Fetched(r) = {<<r.kind, n>> : n \in F}
    <2> HIDE DEF N, F
    <2> QED BY <1>1, <1>3 DEF Fetched
  <1>5. numbers = F
    <2> HIDE DEF F
    <2>1. numbers = Seconds(Fetched(r))
      BY DEF Seconds
    <2> HIDE DEF numbers
    <2>2. \A e : e \in Fetched(r) <=> \E n \in F : e = <<r.kind, n>>
      BY <1>4
    <2> QED BY <2>1, <2>2, SecondOf
  <1>6. Within(r) = {<<r.kind, n>> : n \in N}
    BY DEF Within, Has
  <1>7. /\ IsFiniteSet(F) /\ Cardinality(F) \in Nat
        /\ Cardinality(F) # BatchSize => F = N
        /\ \A n \in F, k \in N : <<k, n>> \in R => k \in F
    <2>1. \A x \in N : x \in Int
      BY <1>2
    <2>2. /\ \A x \in N : <<x, x>> \notin R
          /\ \A x, y, z \in N : <<x, y>> \in R /\ <<y, z>> \in R => <<x, z>> \in R
          /\ \A x, y \in N : x = y \/ <<x, y>> \in R \/ <<y, x>> \in R
      <3> HIDE DEF N
      <3>1. \A x, y \in N : <<x, y>> \in R <=> IF r.asc THEN x < y ELSE x > y
        OBVIOUS
      <3> HIDE DEF R
      <3>2. CASE r.asc
        BY <2>1, <3>1, <3>2
      <3>3. CASE ~r.asc
        BY <2>1, <3>1, <3>3
      <3> QED BY <3>2, <3>3
    <2>3. BatchSize \in Nat
      BY Numbers
    <2>4. \A n : n \in F <=> n \in N /\ Cardinality(Earlier(N, R, n)) < BatchSize
      <3> HIDE DEF N, R
      <3> QED BY DEF Earlier
    <2> HIDE DEF N, R, F
    <2> QED BY <1>2, <2>2, <2>3, <2>4, TakenFirst
  <1>8. Cardinality(Fetched(r)) = Cardinality(F)
    <2> DEFINE g == [n \in F |-> <<r.kind, n>>]
    <2> HIDE DEF F
    <2>1. g \in [F -> Fetched(r)]
      BY <1>4
    <2>2. \A x, y \in F : g[x] = g[y] => x = y
      OBVIOUS
    <2>3. \A e \in Fetched(r) : \E x \in F : g[x] = e
      BY <1>4
    <2> HIDE DEF g
    <2>4. ExistsBijection(F, Fetched(r))
      BY <2>1, <2>2, <2>3
         DEF ExistsBijection, Bijection, Injection, IsInjective, Surjection
    <2> QED BY <1>7, <2>4, FS_Bijection
  <1>9. F \subseteq N /\ F \subseteq Int
    BY <1>2
  <1>10. Fetched(r) \subseteq Within(r)
    <2> HIDE DEF F, N
    <2> QED BY <1>4, <1>6, <1>9
  <1>11. ASSUME ~Continued(r) PROVE Within(r) \subseteq Fetched(r)
    <2>1. F = N
      <3> HIDE DEF F, N
      <3> QED BY <1>7, <1>8, <1>11 DEF Continued
    <2> HIDE DEF F, N
    <2> QED BY <1>4, <1>6, <2>1
  <1>12. ASSUME Continued(r)
         PROVE  /\ Remainder(r) \in KeyRanges /\ Remainder(r).kind = r.kind
                /\ Within(r) \ Fetched(r) \subseteq Within(Remainder(r))
    <2>1. F # {}
      <3> HIDE DEF F
      <3>1. Cardinality(F) = BatchSize
        BY <1>8, <1>12 DEF Continued
      <3> QED BY <3>1, Numbers, FS_EmptySet
    <2>2. /\ Max(F) \in F /\ \A x \in F : x <= Max(F)
          /\ Min(F) \in F /\ \A x \in F : Min(F) <= x
      <3> HIDE DEF F
      <3> QED BY <1>7, <1>9, <2>1, MaxOf, MinOf
    <2>3. /\ r.kind \in 1 .. NumKinds /\ r.start \in 0 .. Size + 1 /\ r.end \in 0 .. Size + 1
          /\ r.inclStart \in BOOLEAN /\ r.inclEnd \in BOOLEAN
      BY DEF KeyRanges
    <2>4. Max(F) \in 0 .. Size + 1 /\ Min(F) \in 0 .. Size + 1
      <3>1. Max(F) \in 1 .. Size /\ Min(F) \in 1 .. Size
        <4>1. N \subseteq 1 .. Size
          OBVIOUS
        <4> HIDE DEF F, N
        <4> QED BY <1>9, <2>2, <4>1
      <3> HIDE DEF F, N
      <3> QED BY <3>1, Numbers
    <2> DEFINE q == Remainder(r)
    <2>5. q = IF r.asc
              THEN KeyRange(r.kind, Max(F), r.end, FALSE, TRUE, TRUE)
              ELSE KeyRange(r.kind, r.start, Min(F), TRUE, FALSE, TRUE)
      <3> HIDE DEF F
      <3> QED BY <1>5 DEF Remainder
    <2> HIDE DEF q
    <2>6. /\ q \in KeyRanges /\ q.kind = r.kind
          /\ r.asc => q.start = Max(F) /\ q.end = r.end /\ q.inclEnd
          /\ ~r.asc => q.start = r.start /\ q.end = Min(F) /\ q.inclStart
      <3> HIDE DEF F
      <3> QED BY <2>3, <2>4, <2>5 DEF KeyRange, KeyRanges
    <2>7. ASSUME NEW n \in N \ F PROVE Has(q, n)
      <3>1. Has(r, n) /\ n \in Int
        BY <1>2
      <3>2. CASE r.asc
        <4>1. Max(F) < n
          <5>1. Max(F) \in N /\ Max(F) \in Int
            <6> HIDE DEF F, N
            <6> QED BY <1>9, <2>2
          <5>2. n < Max(F) => <<n, Max(F)>> \in R
            <6> HIDE DEF F, N
            <6> QED BY <3>2, <5>1
          <5>3. n # Max(F)
            <6> HIDE DEF F, N
            <6> QED BY <2>2
          <5> HIDE DEF F, N, R
          <5> QED BY <1>7, <2>2, <3>1, <5>1, <5>2, <5>3
        <4> HIDE DEF F, N
        <4> QED BY <2>3, <2>6, <3>1, <3>2, <4>1 DEF Has
      <3>3. CASE ~r.asc
        <4>1. n < Min(F)
          <5>1. Min(F) \in N /\ Min(F) \in Int
            <6> HIDE DEF F, N
            <6> QED BY <1>9, <2>2
          <5>2. n > Min(F) => <<n, Min(F)>> \in R
            <6> HIDE DEF F, N
            <6> QED BY <3>3, <5>1
          <5>3. n # Min(F)
            <6> HIDE DEF F, N
            <6> QED BY <2>2
          <5> HIDE DEF F, N, R
          <5> QED BY <1>7, <2>2, <3>1, <5>1, <5>2, <5>3
        <4> HIDE DEF F, N
        <4> QED BY <2>3, <2>6, <3>1, <3>3, <4>1 DEF Has
      <3> QED BY <3>2, <3>3
    <2>8. ASSUME NEW e \in Within(r) \ Fetched(r) PROVE e \in Within(q)
      <3>1. PICK n \in N : e = <<r.kind, n>>
        <4> HIDE DEF N
        <4> QED BY <1>6
      <3>2. n \notin F
        <4> HIDE DEF F, N
        <4> QED BY <1>4, <3>1
      <3>3. Has(q, n) /\ n \in 1 .. Size
        BY <2>7, <3>2
      <3> HIDE DEF N, F
      <3> QED BY <2>6, <3>1, <3>3, InWithin
    <2> HIDE DEF F, N
    <2> QED BY <2>6, <2>8 DEF q
  <1> QED BY <1>10, <1>11, <1>12

\* A range is divided into ranges that have all its entities.
LEMMA DivisionsOf ==
  ASSUME NEW q \in KeyRanges, NEW ranges \in Divisions(q)
  PROVE  /\ ranges \in Seq(KeyRanges) /\ ranges # <<>>
         /\ \A n \in DOMAIN ranges : ranges[n].kind = q.kind
         /\ \A e \in Within(q) : \E n \in DOMAIN ranges : e \in Within(ranges[n])
  <1>1. /\ q.kind \in 1 .. NumKinds /\ q.start \in 0 .. Size + 1 /\ q.end \in 0 .. Size + 1
        /\ q.inclStart \in BOOLEAN /\ q.inclEnd \in BOOLEAN /\ q.asc \in BOOLEAN
    BY DEF KeyRanges
  <1>2. ASSUME NEW p \in KeyRanges, ranges = <<p>>, p.kind = q.kind,
               Within(q) \subseteq Within(p)
        PROVE  /\ ranges \in Seq(KeyRanges) /\ ranges # <<>>
               /\ \A n \in DOMAIN ranges : ranges[n].kind = q.kind
               /\ \A e \in Within(q) : \E n \in DOMAIN ranges : e \in Within(ranges[n])
    <2>1. ranges \in Seq(KeyRanges) /\ DOMAIN ranges = {1} /\ ranges[1] = p
      BY <1>2
    <2>2. ranges # <<>>
      BY <1>2
    <2> QED BY <1>2, <2>1, <2>2
  <1>3. CASE \E asc \in BOOLEAN : ranges = <<[q EXCEPT !.asc = asc]>>
    <2>1. PICK asc \in BOOLEAN : ranges = <<[q EXCEPT !.asc = asc]>>
      BY <1>3
    <2> DEFINE p == [q EXCEPT !.asc = asc]
    <2>2. p \in KeyRanges /\ p.kind = q.kind /\ p.start = q.start /\ p.end = q.end
          /\ p.inclStart = q.inclStart /\ p.inclEnd = q.inclEnd
      BY DEF KeyRanges
    <2> HIDE DEF p
    <2>3. Within(q) \subseteq Within(p)
      BY <2>2 DEF Within
    <2> QED BY <1>2, <2>1, <2>2, <2>3 DEF p
  <1>4. CASE ranges = <<q>>
    BY <1>2, <1>4
  <1>5. ASSUME NEW key \in q.start .. q.end,
               ranges = <<KeyRange(q.kind, q.start, key, q.inclStart,
                                   key # q.start \/ q.inclStart, FALSE),
                          KeyRange(q.kind, key, q.end, FALSE, key # q.end /\ q.inclEnd, TRUE)>>
        PROVE  /\ ranges \in Seq(KeyRanges) /\ ranges # <<>>
               /\ \A n \in DOMAIN ranges : ranges[n].kind = q.kind
               /\ \A e \in Within(q) : \E n \in DOMAIN ranges : e \in Within(ranges[n])
    <2>0. (key # q.start \/ q.inclStart) \in BOOLEAN /\ (key # q.end /\ q.inclEnd) \in BOOLEAN
      OBVIOUS
    <2> DEFINE p1 == KeyRange(q.kind, q.start, key, q.inclStart,
                              key # q.start \/ q.inclStart, FALSE)
               p2 == KeyRange(q.kind, key, q.end, FALSE, key # q.end /\ q.inclEnd, TRUE)
    <2>1. key \in 0 .. Size + 1
      BY <1>1, Numbers
    <2>2. p1 \in KeyRanges /\ p1.kind = q.kind /\ p1.start = q.start /\ p1.end = key
          /\ p1.inclStart = q.inclStart
          /\ (p1.inclEnd <=> key # q.start \/ q.inclStart)
      BY <1>1, <2>1 DEF KeyRanges, KeyRange
    <2>3. p2 \in KeyRanges /\ p2.kind = q.kind /\ p2.start = key /\ p2.end = q.end
          /\ (p2.inclEnd <=> key # q.end /\ q.inclEnd)
      BY <1>1, <2>1 DEF KeyRanges, KeyRange
    <2> HIDE DEF p1, p2
    <2>4. ranges = <<p1, p2>>
      BY <1>5 DEF p1, p2
    <2>5. ranges \in Seq(KeyRanges) /\ DOMAIN ranges = {1, 2} /\ ranges # <<>>
          /\ ranges[1] = p1 /\ ranges[2] = p2
      BY <2>2, <2>3, <2>4
    <2>6. ASSUME NEW e \in Within(q) PROVE e \in Within(p1) \/ e \in Within(p2)
      <3> DEFINE n == e[2]
      <3>1. e = <<q.kind, n>> /\ n \in 1 .. Size /\ Has(q, n)
        BY InWithin
      <3> HIDE DEF n
      <3>2. Has(p1, n) \/ Has(p2, n)
        <4>1. n \in Int /\ key \in Int /\ q.start \in Int /\ q.end \in Int
          BY <1>1, <2>1, <3>1, Numbers
        <4> QED BY <2>2, <2>3, <3>1, <4>1 DEF Has
      <3> QED BY <2>2, <2>3, <3>1, <3>2, InWithin
    <2> QED BY <2>2, <2>3, <2>5, <2>6
  <1> QED BY <1>3, <1>4, <1>5 DEF Divisions, Split
-----------------------------------------------------------------------------
\* Sequences by their domains, as the messages and items below are read.
LEMMA Appended ==
  ASSUME NEW S, NEW s \in Seq(S), NEW e \in S
  PROVE  /\ Append(s, e) \in Seq(S) /\ Append(s, e) # <<>>
         /\ Len(s) + 1 \notin DOMAIN s
         /\ DOMAIN Append(s, e) = DOMAIN s \cup {Len(s) + 1}
         /\ \A n \in DOMAIN s : Append(s, e)[n] = s[n]
         /\ Append(s, e)[Len(s) + 1] = e
         /\ s # <<>> => Head(Append(s, e)) = Head(s)
         /\ \A n \in DOMAIN s : n < Len(s) + 1
  <1>1. Len(s) \in Nat /\ DOMAIN s = 1 .. Len(s)
    BY LenProperties
  <1>2. /\ Append(s, e) \in Seq(S) /\ Append(s, e) # <<>>
        /\ Len(Append(s, e)) = Len(s) + 1
        /\ \A i \in 1 .. Len(s) : Append(s, e)[i] = s[i]
        /\ Append(s, e)[Len(s) + 1] = e
    BY AppendProperties
  <1>3. DOMAIN Append(s, e) = 1 .. Len(s) + 1
    BY <1>2, LenProperties
  <1>4. ASSUME s # <<>> PROVE Head(Append(s, e)) = Head(s)
    <2>1. Len(s) # 0
      BY <1>4, EmptySeq
    <2>2. 1 \in 1 .. Len(s)
      BY <1>1, <2>1
    <2> QED BY <1>2, <1>4, <2>2, HeadTailAppend
  <1> QED BY <1>1, <1>2, <1>3, <1>4

LEMMA Taken ==
  ASSUME NEW S, NEW s \in Seq(S), s # <<>>
  PROVE  /\ Tail(s) \in Seq(S) /\ Head(s) \in S /\ Head(s) = s[1] /\ 1 \in DOMAIN s
         /\ \A n \in DOMAIN Tail(s) :
               n \in Nat /\ n # 0 /\ n + 1 \in DOMAIN s /\ Tail(s)[n] = s[n + 1]
         /\ \A n \in DOMAIN s : n # 1 =>
               n \in Nat /\ n - 1 \in DOMAIN Tail(s) /\ Tail(s)[n - 1] = s[n]
  <1>1. Len(s) \in Nat \ {0} /\ DOMAIN s = 1 .. Len(s)
    BY LenProperties, EmptySeq
  <1>2. /\ Head(s) \in S /\ Tail(s) \in Seq(S) /\ Len(Tail(s)) = Len(s) - 1
        /\ \A i \in 1 .. Len(Tail(s)) : Tail(s)[i] = s[i + 1]
    BY HeadTailProperties
  <1>3. DOMAIN Tail(s) = 1 .. Len(s) - 1
    BY <1>2, LenProperties
  <1>4. Head(s) = s[1]
    OBVIOUS
  <1>5. \A n \in 1 .. Len(s) : n # 1 => n \in Nat /\ n - 1 \in 1 .. Len(s) - 1 /\ (n - 1) + 1 = n
    BY <1>1
  <1>6. \A n \in 1 .. Len(s) - 1 : n \in Nat /\ n # 0 /\ n + 1 \in 1 .. Len(s)
    BY <1>1
  <1> QED BY <1>1, <1>2, <1>3, <1>4, <1>5, <1>6

LEMMA Concatenated ==
  ASSUME NEW S, NEW s \in Seq(S), NEW t \in Seq(S)
  PROVE  /\ s \o t \in Seq(S) /\ Len(s) \in Nat /\ DOMAIN s \subseteq Nat /\ DOMAIN t \subseteq Nat
         /\ \A n \in DOMAIN (s \o t) : n \in Nat /\
               IF n <= Len(s) THEN n \in DOMAIN s /\ (s \o t)[n] = s[n]
               ELSE n - Len(s) \in DOMAIN t /\ (s \o t)[n] = t[n - Len(s)]
         /\ \A n \in DOMAIN s : n <= Len(s) /\ n \in DOMAIN (s \o t) /\ (s \o t)[n] = s[n]
         /\ \A n \in DOMAIN t :
               Len(s) + n \in DOMAIN (s \o t) /\ (s \o t)[Len(s) + n] = t[n]
  <1> DEFINE u == s \o t
             k == Len(s)
             l == Len(t)
  <1>1. k \in Nat /\ DOMAIN s = 1 .. k /\ l \in Nat /\ DOMAIN t = 1 .. l
    BY LenProperties
  <1>2. /\ u \in Seq(S) /\ Len(u) = k + l
        /\ \A i \in 1 .. k + l : u[i] = IF i <= k THEN s[i] ELSE t[i - k]
    BY ConcatProperties
  <1>3. DOMAIN u = 1 .. k + l
    BY <1>2, LenProperties
  <1> HIDE DEF u, k, l
  <1>4. ASSUME NEW n \in 1 .. k + l
        PROVE  n \in Nat /\ IF n <= k THEN n \in 1 .. k /\ u[n] = s[n]
                            ELSE n - k \in 1 .. l /\ u[n] = t[n - k]
    BY <1>1, <1>2
  <1>5. ASSUME NEW n \in 1 .. k PROVE n <= k /\ n \in 1 .. k + l /\ u[n] = s[n]
    <2>1. n \in 1 .. k + l /\ n <= k
      BY <1>1
    <2> QED BY <1>2, <2>1
  <1>6. ASSUME NEW n \in 1 .. l PROVE k + n \in 1 .. k + l /\ u[k + n] = t[n]
    <2>1. k + n \in 1 .. k + l /\ ~ (k + n <= k) /\ (k + n) - k = n
      BY <1>1
    <2> QED BY <1>2, <2>1
  <1>7. DOMAIN s \subseteq Nat /\ DOMAIN t \subseteq Nat
    BY <1>1
  <1>8. /\ u \in Seq(S) /\ k \in Nat
        /\ \A n \in DOMAIN u : n \in Nat /\
               IF n <= k THEN n \in DOMAIN s /\ u[n] = s[n]
               ELSE n - k \in DOMAIN t /\ u[n] = t[n - k]
        /\ \A n \in DOMAIN s : n <= k /\ n \in DOMAIN u /\ u[n] = s[n]
        /\ \A n \in DOMAIN t : k + n \in DOMAIN u /\ u[k + n] = t[n]
    BY <1>1, <1>2, <1>3, <1>4, <1>5, <1>6
  <1> QED BY <1>7, <1>8 DEF u, k
-----------------------------------------------------------------------------
\* Where an upload goes on: after some row, and if rows are open after the last
\* of them.
LEMMA ConsumedOf ==
  ASSUME NEW rows \in Seq(Rows)
  PROVE  /\ ConsumedTo(rows) \in 0 .. Size + 1
         /\ ConsumedTo(rows) = 0 \/ \E k \in DOMAIN rows : ConsumedTo(rows) = rows[k].end
         /\ (\E k \in DOMAIN rows : Open(rows, k)) =>
                \E last \in DOMAIN rows :
                    /\ Open(rows, last) /\ ConsumedTo(rows) = rows[last].end
                    /\ \A k \in DOMAIN rows : Open(rows, k) => k <= last
  <1>1. \A k \in DOMAIN rows : rows[k].end \in 0 .. Size + 1
    <2> SUFFICES ASSUME NEW k \in DOMAIN rows PROVE rows[k].end \in 0 .. Size + 1
      OBVIOUS
    <2>1. rows[k] \in Rows
      BY LenProperties
    <2> QED BY <2>1 DEF Rows
  <1>2. CASE OpenIds(rows) = {}
    <2> DEFINE S == {0} \cup {rows[id].end : id \in DOMAIN rows}
    <2>2. S \in SUBSET (0 .. Size + 1) /\ S # {} /\ 0 \in Int /\ Size + 1 \in Int
      BY <1>1, Numbers
    <2>3. IsFiniteSet(S) /\ S \subseteq Int
      <3> HIDE DEF S
      <3>1. IsFiniteSet(0 .. Size + 1)
        BY <2>2, FS_Interval
      <3>2. IsFiniteSet(S)
        BY <2>2, <3>1, FS_Subset
      <3>3. S \subseteq Int
        BY <2>2
      <3> QED BY <3>2, <3>3
    <2>4. Max(S) \in S /\ \A x \in S : x <= Max(S)
      <3> HIDE DEF S
      <3> QED BY <2>2, <2>3, MaxOf
    <2>5. ConsumedTo(rows) = Max(S)
      BY <1>2 DEF ConsumedTo
    <2>6. \A x \in S : x = 0 \/ \E k \in DOMAIN rows : x = rows[k].end
      OBVIOUS
    <2>7. \A k \in DOMAIN rows : ~Open(rows, k)
      BY <1>2 DEF OpenIds
    <2> HIDE DEF S
    <2> QED BY <2>2, <2>4, <2>5, <2>6, <2>7
  <1>3. CASE OpenIds(rows) # {}
    <2>1. PICK ids : ids = OpenIds(rows)
      OBVIOUS
    <2>2. \A k : k \in ids <=> k \in DOMAIN rows /\ Open(rows, k)
      BY <2>1 DEF OpenIds
    <2>3. ids \in SUBSET (1 .. Len(rows)) /\ Len(rows) \in Nat
      BY <2>2, LenProperties
    <2>4. IsFiniteSet(ids) /\ ids \subseteq Int
      <3>1. 1 \in Int /\ Len(rows) \in Int
        BY <2>3
      <3>2. IsFiniteSet(1 .. Len(rows))
        BY <3>1, FS_Interval
      <3>3. IsFiniteSet(ids)
        BY <2>3, <3>2, FS_Subset
      <3> QED BY <2>3, <3>3
    <2>5. Max(ids) \in ids /\ \A x \in ids : x <= Max(ids)
      BY <1>3, <2>1, <2>4, MaxOf
    <2>6. ConsumedTo(rows) = rows[Max(ids)].end
      BY <1>3, <2>1 DEF ConsumedTo
    <2>7. PICK last : last = Max(ids)
      OBVIOUS
    <2> QED BY <1>1, <2>2, <2>5, <2>6, <2>7
  <1> QED BY <1>2, <1>3

\* A run starts with items of the open rows, once each, and others that are
\* not recorded yet.
LEMMA BatchItems ==
  ASSUME mode \in Modes, NEW rows \in Seq(Rows), NEW existing
  PROVE  LET s == Batches(existing, rows) IN
         /\ s \in Seq(Items)
         /\ \A n \in DOMAIN s :
               /\ s[n].state = "READ"
               /\ mode = "upload" => s[n].range.inclStart /\ s[n].range.inclEnd
               /\ \/ /\ s[n].key = NoKey
                     /\ s[n].range.kind \in IF mode = "upload" THEN {1} ELSE 1 .. NumKinds
                  \/ /\ s[n].key \in DOMAIN rows /\ Open(rows, s[n].key) /\ s[n].key # NoKey
                     /\ s[n].range = RowRange(rows[s[n].key])
                     /\ \A m \in DOMAIN s : s[m].key = s[n].key => m = n
         /\ mode = "upload" \/ existing =>
               \A id \in DOMAIN rows : Open(rows, id) => \E n \in DOMAIN s : s[n].key = id
  <1> DEFINE s == Batches(existing, rows)
             R == Recorded(rows)
             L == Lines(ConsumedTo(rows))
  <1>1. /\ R \in Seq(Items)
        /\ \A n \in DOMAIN R :
               /\ R[n].key \in DOMAIN rows /\ Open(rows, R[n].key) /\ R[n].key # NoKey
               /\ R[n].range = RowRange(rows[R[n].key]) /\ R[n].state = "READ"
               /\ R[n].range.inclStart /\ R[n].range.inclEnd
               /\ \A m \in DOMAIN R : R[m].key = R[n].key => m = n
        /\ \A id \in DOMAIN rows : Open(rows, id) => \E n \in DOMAIN R : R[n].key = id
    <2>1. \A k : RowRange(rows[k]).inclStart /\ RowRange(rows[k]).inclEnd
      BY DEF RowRange, KeyRange
    <2> QED BY <2>1, RecordedItems
  <1>2. CASE mode = "upload"
    <2>1. /\ L \in Seq(Items)
          /\ \A n \in DOMAIN L :
                /\ L[n].key = NoKey /\ L[n].state = "READ" /\ L[n].range.kind = 1
                /\ L[n].range.inclStart /\ L[n].range.inclEnd
      <3>1. CASE ConsumedTo(rows) = Size + 1
        <4>1. L = <<>>
          BY <3>1, NoLines
        <4> QED BY <4>1
      <3>2. CASE ConsumedTo(rows) # Size + 1
        <4>1. ConsumedTo(rows) \in 0 .. Size
          BY <3>2, ConsumedOf, Numbers
        <4> QED BY <4>1, LinesAfter
      <3> QED BY <3>1, <3>2
    <2>2. s = R \o L
      BY <1>2 DEF Batches
    <2> HIDE DEF s, R, L
    <2>3. /\ s \in Seq(Items) /\ Len(R) \in Nat
          /\ \A n \in DOMAIN s : n \in Nat /\
                IF n <= Len(R) THEN n \in DOMAIN R /\ s[n] = R[n]
                ELSE n - Len(R) \in DOMAIN L /\ s[n] = L[n - Len(R)]
          /\ \A n \in DOMAIN R : n \in DOMAIN s /\ s[n] = R[n]
      BY <1>1, <2>1, <2>2, Concatenated
    <2>4. ASSUME NEW n \in DOMAIN s
          PROVE  /\ s[n].state = "READ" /\ s[n].range.inclStart /\ s[n].range.inclEnd
                 /\ \/ s[n].key = NoKey /\ s[n].range.kind = 1
                    \/ /\ s[n].key \in DOMAIN rows /\ Open(rows, s[n].key) /\ s[n].key # NoKey
                       /\ s[n].range = RowRange(rows[s[n].key])
                       /\ \A m \in DOMAIN s : s[m].key = s[n].key => m = n
      <3>1. CASE n <= Len(R)
        <4>1. n \in DOMAIN R /\ s[n] = R[n]
          BY <2>3, <3>1
        <4>2. ASSUME NEW m \in DOMAIN s, s[m].key = s[n].key PROVE m = n
          <5>1. R[n].key # NoKey
            BY <1>1, <4>1
          <5>2. m <= Len(R)
            <6> SUFFICES ASSUME ~ (m <= Len(R)) PROVE FALSE
              OBVIOUS
            <6>1. m - Len(R) \in DOMAIN L /\ s[m] = L[m - Len(R)]
              BY <2>3
            <6>2. L[m - Len(R)].key = NoKey
              BY <2>1, <6>1
            <6> QED BY <4>1, <4>2, <5>1, <6>1, <6>2
          <5>3. m \in DOMAIN R /\ s[m] = R[m]
            BY <2>3, <5>2
          <5>4. \A j \in DOMAIN R : R[j].key = R[n].key => j = n
            BY <1>1, <4>1
          <5>5. R[m].key = R[n].key
            BY <4>1, <4>2, <5>3
          <5> QED BY <5>3, <5>4, <5>5
        <4> QED BY <1>1, <4>1, <4>2
      <3>2. CASE ~ (n <= Len(R))
        BY <2>1, <2>3, <3>2
      <3> QED BY <3>1, <3>2
    <2>5. \A id \in DOMAIN rows : Open(rows, id) => \E n \in DOMAIN s : s[n].key = id
      BY <1>1, <2>3
    <2> QED BY <1>2, <2>3, <2>4, <2>5 DEF s
  <1>3. CASE mode # "upload" /\ existing
    <2>1. s = R
      BY <1>3 DEF Batches
    <2> HIDE DEF s, R
    <2> QED BY <1>1, <1>3, <2>1 DEF s
  <1>4. CASE mode # "upload" /\ ~existing
    <2>1. s = [kind \in 1 .. NumKinds |->
                  Item(KeyRange(kind, 0, Size + 1, TRUE, TRUE, TRUE), "READ", NoKey)]
      BY <1>4 DEF Batches
    <2> HIDE DEF s
    <2>2. \A n \in 1 .. NumKinds :
             /\ s[n] = Item(KeyRange(n, 0, Size + 1, TRUE, TRUE, TRUE), "READ", NoKey)
             /\ KeyRange(n, 0, Size + 1, TRUE, TRUE, TRUE) \in KeyRanges
      BY <2>1, Numbers DEF KeyRange, KeyRanges
    <2>3. \A n \in 1 .. NumKinds :
              s[n] \in Items /\ s[n].state = "READ" /\ s[n].key = NoKey /\ s[n].range.kind = n
      <3>1. \A r \in KeyRanges : Item(r, "READ", NoKey) \in Items
        BY DEF Items, Item, States, NoKey
      <3>2. \A n \in 1 .. NumKinds :
                s[n].state = "READ" /\ s[n].key = NoKey /\ s[n].range.kind = n
        <4> SUFFICES ASSUME NEW n \in 1 .. NumKinds
                     PROVE  s[n].state = "READ" /\ s[n].key = NoKey /\ s[n].range.kind = n
          OBVIOUS
        <4>1. s[n] = Item(KeyRange(n, 0, Size + 1, TRUE, TRUE, TRUE), "READ", NoKey)
          BY <2>2
        <4> QED BY <4>1 DEF Item, KeyRange
      <3>3. ASSUME NEW n \in 1 .. NumKinds PROVE s[n] \in Items
        <4> DEFINE r == KeyRange(n, 0, Size + 1, TRUE, TRUE, TRUE)
        <4>1. s[n] = Item(r, "READ", NoKey) /\ r \in KeyRanges
          BY <2>2
        <4> HIDE DEF r
        <4> QED BY <3>1, <4>1
      <3> QED BY <3>2, <3>3
    <2>4. s \in [1 .. NumKinds -> Items]
      BY <2>1, <2>3
    <2>5. s \in Seq(Items) /\ DOMAIN s = 1 .. NumKinds
      BY <2>4, Numbers, FunctionIsSeq
    <2> QED BY <1>4, <2>3, <2>5 DEF s
  <1> QED BY <1>2, <1>3, <1>4
-----------------------------------------------------------------------------
(***************************************************************************)
(* The invariants.                                                         *)
(***************************************************************************)
AtRest == app \in {"down", "returned"}
Kinds == IF mode = "upload" THEN {1} ELSE 1 .. NumKinds

\* The message of a transferred item.
IsGot(msg) == msg.item.state = "GOT"

\* What an actor may have told the progress thread, by where it is.
FromAdder(msg, a) ==
    /\ pc[a] = "submit"
    /\ msg.item = todo[a][1] /\ msg.item.state = "READ"
FromWorker(msg, w) ==
    \/ pc[w] = "transfer" /\ msg.item = own[w] /\ msg.item.state = "GETTING"
    \/ pc[w] \in {"reput", "dead"} /\ msg.item = own[w] /\ msg.item.state = "ERROR"
    \/ pc[w] \in {"add", "idle"} /\ mode = "download" /\ IsGot(msg)
FromNobody(msg) ==
    mode = "upload" /\ IsGot(msg) /\ msg.entities = {}
Sensible(msg) ==
    IF msg.from = Nobody THEN FromNobody(msg)
    ELSE \/ FromAdder(msg, msg.from)
         \/ msg.from \in Workers /\ FromWorker(msg, msg.from)

\* A thread waits for its message, of which there is one.
MessageInv ==
    \A n \in DOMAIN messages :
        /\ Sensible(messages[n])
        /\ messages[n].from # Nobody =>
               /\ messages[n].from \in waiting
               /\ \A m \in DOMAIN messages :
                      messages[m].from = messages[n].from => m = n

\* What a thread has in hand follows from where it is.
Holding == {"transfer", "reput", "dead"}
ThreadInv ==
    /\ pc[Source] \in {"add", "submit", "ended", "exited"}
    /\ \A a \in Actors : pc[a] \in {"add", "submit"} => todo[a] # <<>>
    /\ \A a \in Actors : pc[a] \notin {"add", "submit", "exited"} => todo[a] = <<>>
    /\ \A w \in Workers :
           /\ pc[w] # "exited" /\ (pc[w] = "ended" => AtRest)
           /\ pc[w] \notin Holding => own[w] = Idle
           /\ pc[w] \in Holding => own[w].key # NoKey
           /\ mode = "upload" => todo[w] = <<>>
    /\ \A a \in Actors : pc[a] = "submit" /\ a \notin waiting => todo[a][1].key # NoKey
    /\ Source \in waiting => pc[Source] = "submit"
    /\ app = "closing" => /\ waiting = {} /\ pc[Source] \in {"ended", "exited"}
                          /\ \A w \in Workers : pc[w] \in {"idle", "dead"}

\* Items are READ until a worker takes them, and in the pool they have a row.
ItemInv ==
    /\ \A a \in Actors : \A n \in DOMAIN todo[a] :
           todo[a][n].state = "READ" /\ todo[a][n].range.kind \in Kinds
    /\ \A x \in pool : x.key # NoKey /\ x.range.kind \in Kinds
    /\ \A w \in Workers : own[w].range.kind \in Kinds
    /\ \A n \in DOMAIN messages : messages[n].item.range.kind \in Kinds
    /\ \A n \in DOMAIN db : db[n].kind \in Kinds
    /\ \A n \in DOMAIN disk : disk[n].kind \in Kinds

\* Nothing is left of a run that returned or was killed.
RestInv ==
    /\ AtRest =>
           /\ messages = <<>> /\ waiting = {} /\ pool = {}
           /\ \A a \in Actors : todo[a] = <<>> /\ pc[a] = "ended"
           /\ disk = db /\ sent = 0
    /\ stored =>
           /\ messages # <<>> /\ Got
           /\ messages[1].entities \subseteq arrived
    /\ mode = "download" => disk = db
    /\ runs = 0 => AtRest /\ db = <<>> /\ arrived = {} /\ lost = {}
    /\ AtRest /\ runs > 0 => lost = Missed(disk)

TypeInv == TypeOK /\ MessageInv /\ ThreadInv /\ ItemInv /\ RestInv

-----------------------------------------------------------------------------
\* What the messages say stays true when a thread that does not wait goes on,
\* when it sends a message itself, and when the first one is acknowledged.
Notes == [from : Actors \cup {Nobody}, item : Items, entities : SUBSET Wanted]

LEMMA Names == Source \in Actors /\ Workers \subseteq Actors /\ Nobody \notin Actors
               /\ Source \notin Workers /\ \A a \in Actors : a = Source \/ a \in Workers
  BY SourceAssumption DEF Actors

LEMMA NotesOf ==
  ASSUME TypeOK
  PROVE  /\ messages \in Seq(Notes)
         /\ \A n \in DOMAIN messages :
               /\ n \in Nat /\ messages[n] \in Notes /\ messages[n].item \in Items
               /\ messages[n].from \in Actors \cup {Nobody}
               /\ messages[n].entities \in SUBSET Wanted
  <1>1. messages \in Seq(Notes)
    BY DEF TypeOK, Notes
  <1>2. \A n \in DOMAIN messages : n \in Nat /\ messages[n] \in Notes
    BY <1>1, LenProperties
  <1>3. \A note \in Notes : /\ note.item \in Items /\ note.from \in Actors \cup {Nobody}
                            /\ note.entities \in SUBSET Wanted
    BY DEF Notes
  <1> QED BY <1>1, <1>2, <1>3

LEMMA MessagesKept ==
  ASSUME TypeOK, MessageInv, NEW a \in Actors, a \notin waiting,
         mode' = mode, messages' = messages, waiting' = waiting,
         \A b \in Actors : b # a => pc'[b] = pc[b] /\ todo'[b] = todo[b],
         \A w \in Workers : w # a => own'[w] = own[w]
  PROVE  MessageInv'
  <1> SUFFICES ASSUME NEW n \in DOMAIN messages
               PROVE  /\ Sensible(messages[n])'
                      /\ messages[n].from # Nobody =>
                             /\ messages[n].from \in waiting
                             /\ \A m \in DOMAIN messages :
                                   messages[m].from = messages[n].from => m = n
    BY DEF MessageInv
  <1>1. messages[n].from \in Actors \cup {Nobody}
    BY NotesOf
  <1>2. messages[n].from # a /\ Sensible(messages[n])
    BY Names DEF MessageInv
  <1>3. Sensible(messages[n])'
    BY <1>1, <1>2, Names DEF Sensible, FromAdder, FromWorker, FromNobody, IsGot
  <1> QED BY <1>3 DEF MessageInv

LEMMA MessagesSent ==
  ASSUME TypeOK, MessageInv, NEW a \in Actors, a \notin waiting,
         NEW item \in Items, NEW entities \in SUBSET Wanted,
         mode' = mode, waiting' = waiting \cup {a},
         messages' = Append(messages, Message(a, item, entities)),
         \A b \in Actors : b # a => pc'[b] = pc[b] /\ todo'[b] = todo[b],
         \A w \in Workers : w # a => own'[w] = own[w],
         \/ pc'[a] = "submit" /\ item = todo'[a][1] /\ item.state = "READ"
         \/ a \in Workers /\ pc'[a] = "transfer" /\ item = own'[a] /\ item.state = "GETTING"
         \/ a \in Workers /\ pc'[a] \in {"reput", "dead"} /\ item = own'[a] /\ item.state = "ERROR"
         \/ a \in Workers /\ pc'[a] \in {"add", "idle"} /\ mode = "download" /\ item.state = "GOT"
  PROVE  MessageInv'
  <1>0. PICK k : k = Len(messages) + 1
    OBVIOUS
  <1> DEFINE msg == Message(a, item, entities)
  <1>1. messages \in Seq(Notes) /\ msg \in Notes
    BY DEF TypeOK, Message, Notes
  <1>2. msg.from = a /\ msg.item = item
    BY DEF Message
  <1> HIDE DEF msg
  <1>3. /\ DOMAIN messages' = DOMAIN messages \cup {k} /\ k \notin DOMAIN messages
        /\ \A n \in DOMAIN messages : messages'[n] = messages[n]
        /\ messages'[k] = msg
    BY <1>0, <1>1, Appended DEF msg
  <1>4. ASSUME NEW n \in DOMAIN messages
        PROVE  /\ Sensible(messages[n])' /\ messages[n].from # a
               /\ messages[n].from # Nobody => messages[n].from \in waiting
    <2>1. messages[n].from \in Actors \cup {Nobody}
      BY NotesOf
    <2>2. messages[n].from # a /\ Sensible(messages[n])
          /\ (messages[n].from # Nobody => messages[n].from \in waiting)
      BY Names DEF MessageInv
    <2>3. messages'[n] = messages[n]
      BY <1>3
    <2>4. Sensible(messages[n])'
      BY <2>1, <2>2, <2>3, Names DEF Sensible, FromAdder, FromWorker, FromNobody, IsGot
    <2> QED BY <2>2, <2>4
  <1>5. Sensible(messages[k])'
    BY <1>2, <1>3, Names DEF Sensible, FromAdder, FromWorker, IsGot
  <1>6. ASSUME NEW n \in DOMAIN messages', messages'[n].from # Nobody
        PROVE  /\ messages'[n].from \in waiting'
               /\ \A m \in DOMAIN messages' : messages'[m].from = messages'[n].from => m = n
    <2>1. CASE n = k
      BY <1>2, <1>3, <1>4, <2>1
    <2>2. CASE n \in DOMAIN messages
      BY <1>2, <1>3, <1>4, <1>6, <2>2 DEF MessageInv
    <2> QED BY <1>3, <2>1, <2>2
  <1>7. ASSUME NEW n \in DOMAIN messages' PROVE Sensible(messages[n])'
    BY <1>3, <1>4, <1>5
  <1> QED BY <1>6, <1>7 DEF MessageInv

LEMMA MessagesAcknowledged ==
  ASSUME TypeOK, MessageInv, messages # <<>>, Acknowledge,
         mode' = mode, pc' = pc, own' = own,
         \A a \in Actors : a # messages[1].from => todo'[a] = todo[a]
  PROVE  MessageInv'
  <1>1. messages \in Seq(Notes)
    BY DEF TypeOK, Notes
  <1>2. /\ messages' = Tail(messages) /\ waiting' = waiting \ {messages[1].from}
        /\ \A n \in DOMAIN messages' :
              n \in Nat /\ n # 0 /\ n + 1 \in DOMAIN messages /\ messages'[n] = messages[n + 1]
        /\ 1 \in DOMAIN messages
    BY <1>1, Taken DEF Acknowledge, FirstMessage
  <1> SUFFICES ASSUME NEW n \in DOMAIN messages'
               PROVE  /\ Sensible(messages[n])'
                      /\ messages'[n].from # Nobody =>
                             /\ messages'[n].from \in waiting'
                             /\ \A m \in DOMAIN messages' :
                                   messages'[m].from = messages'[n].from => m = n
    BY DEF MessageInv
  <1>3. /\ messages'[n] = messages[n + 1] /\ n + 1 \in DOMAIN messages /\ n + 1 # 1
        /\ Sensible(messages[n + 1])
    BY <1>2 DEF MessageInv
  <1>4. messages'[n].from \in Actors \cup {Nobody}
    BY <1>3, NotesOf
  <1>5. messages'[n].from # Nobody =>
            /\ messages'[n].from # messages[1].from /\ messages'[n].from \in waiting
            /\ \A m \in DOMAIN messages : messages[m].from = messages'[n].from => m = n + 1
    BY <1>2, <1>3 DEF MessageInv
  <1>6. Sensible(messages[n])'
    BY <1>3, <1>4, <1>5, Names DEF Sensible, FromAdder, FromWorker, FromNobody, IsGot
  <1>7. ASSUME messages'[n].from # Nobody, NEW m \in DOMAIN messages',
               messages'[m].from = messages'[n].from
        PROVE  m = n
    <2>1. m + 1 = n + 1 /\ m \in Nat /\ n \in Nat
      BY <1>2, <1>5, <1>7
    <2> QED BY <2>1
  <1> QED BY <1>2, <1>5, <1>6, <1>7
-----------------------------------------------------------------------------
PCs == {"idle", "transfer", "reput", "dead", "add", "submit", "ended", "exited"}

LEMMA WithinAllOf ==
  ASSUME NEW S, \A x \in S : x.range.kind \in 1 .. NumKinds
  PROVE  IsFiniteSet(WithinAll(S)) /\ Cardinality(WithinAll(S)) \in Nat
  <1>1. 1 \in Int /\ NumKinds \in Int /\ Size \in Int
    BY Numbers
  <1>2. IsFiniteSet(1 .. NumKinds) /\ IsFiniteSet(1 .. Size)
    BY <1>1, FS_Interval
  <1>3. IsFiniteSet((1 .. NumKinds) \X (1 .. Size))
    BY <1>2, FS_Product
  <1>4. ASSUME NEW x \in S PROVE Within(x.range) \subseteq (1 .. NumKinds) \X (1 .. Size)
    <2>1. \A e \in Within(x.range) : e = <<x.range.kind, e[2]>> /\ e[2] \in 1 .. Size
      BY InWithin
    <2> QED BY <2>1
  <1>5. WithinAll(S) \in SUBSET ((1 .. NumKinds) \X (1 .. Size))
    <2> HIDE DEF Within
    <2> QED BY <1>4 DEF WithinAll
  <1> HIDE DEF WithinAll
  <1> QED BY <1>3, <1>5, FS_Subset, FS_CardinalityType

LEMMA IdleItem ==
  /\ Idle \in Items /\ Idle.range.kind = 1 /\ Idle.key = NoKey /\ NoKey = 0
  /\ Within(Idle.range) = {}
  <1>1. KeyRange(1, 0, 0, FALSE, FALSE, TRUE) \in KeyRanges
    BY Numbers DEF KeyRanges, KeyRange
  <1>2. \A r \in KeyRanges : Item(r, "READ", NoKey) \in Items
    BY DEF Items, Item, States, NoKey
  <1>3. Idle.range = KeyRange(1, 0, 0, FALSE, FALSE, TRUE) /\ Idle.key = NoKey
    BY DEF Idle, Item
  <1>4. Idle.range.kind = 1 /\ Idle.range.start = 0 /\ Idle.range.end = 0
        /\ Idle.range.inclStart = FALSE /\ Idle.range.inclEnd = FALSE
    BY <1>3 DEF KeyRange
  <1>5. \A e : e \notin Within(Idle.range)
    <2>1. \A n \in 1 .. Size : ~ Has(Idle.range, n)
      BY <1>4, Numbers DEF Has
    <2> QED BY <2>1, InWithin
  <1> QED BY <1>1, <1>2, <1>3, <1>4, <1>5 DEF Idle, NoKey

LEMMA KindsOf ==
  ASSUME TypeOK
  PROVE  /\ Kinds \subseteq 1 .. NumKinds /\ 1 \in Kinds /\ Wanted = Kinds \X (1 .. Size)
         /\ mode \in {"upload", "download"}
  <1>1. mode \in {"upload", "download"} /\ 1 \in 1 .. NumKinds
    BY ModesAssumption, Numbers DEF TypeOK
  <1> QED BY <1>1 DEF Kinds, Wanted

LEMMA TypesOf ==
  ASSUME TypeOK
  PROVE  /\ \A a \in Actors : todo[a] \in Seq(Items) /\ pc[a] \in PCs
         /\ \A w \in Workers : own[w] \in Items
         /\ \A x \in Items : x.range \in KeyRanges /\ x.key \in Nat /\ x.state \in States
         /\ \A a \in Actors : \A n \in DOMAIN todo[a] : todo[a][n] \in Items /\ n \in Nat
         /\ \A k \in DOMAIN db : db[k] \in Rows /\ k \in Nat /\ k # 0
         /\ \A k \in DOMAIN disk : disk[k] \in Rows /\ k \in Nat /\ k # 0
         /\ \A x \in pool : x \in Items
  <1>1. \A a \in Actors : todo[a] \in Seq(Items) /\ pc[a] \in PCs
    BY DEF TypeOK, PCs
  <1>2. \A s \in Seq(Items) : \A n \in DOMAIN s : s[n] \in Items /\ n \in Nat
    BY LenProperties
  <1>3. \A s \in Seq(Rows) : \A k \in DOMAIN s : s[k] \in Rows /\ k \in Nat /\ k # 0
    BY LenProperties
  <1>4. \A x \in Items : x.range \in KeyRanges /\ x.key \in Nat /\ x.state \in States
    BY DEF Items
  <1> QED BY <1>1, <1>2, <1>3, <1>4 DEF TypeOK

LEMMA InitTypes == Init => TypeInv
  <1> SUFFICES ASSUME Init PROVE TypeInv
    OBVIOUS
  <1>1. TypeOK
    <2>1. <<>> \in Seq(Rows) /\ <<>> \in Seq(Notes) /\ <<>> \in Seq(Items)
      BY EmptySeq
    <2>2. ops \in 0 .. CommitEvery - 1 /\ runs \in 0 .. MaxRuns /\ sent \in Nat /\ toSend \in Nat
      BY Numbers DEF Init
    <2> QED BY <2>1, <2>2, IdleItem DEF Init, TypeOK, Notes
  <1>2. MessageInv /\ DOMAIN messages = {}
    BY DEF Init, MessageInv
  <1>3. ThreadInv
    BY Names DEF Init, ThreadInv, Holding, AtRest
  <1>4. ItemInv
    BY IdleItem, <1>1, KindsOf DEF Init, ItemInv
  <1>5. RestInv
    BY DEF Init, RestInv, AtRest
  <1> QED BY <1>1, <1>2, <1>3, <1>4, <1>5 DEF TypeInv

LEMMA StartTypes == ASSUME TypeInv, Start PROVE TypeInv'
  <1>1. /\ TypeOK /\ AtRest /\ mode' = mode /\ Wanted' = Wanted /\ Kinds' = Kinds
        /\ disk \in Seq(Rows) /\ mode \in Modes
        /\ messages = <<>> /\ waiting = {} /\ pool = {} /\ ~stored
        /\ \A a \in Actors : todo[a] = <<>> /\ pc[a] = "ended"
    BY DEF TypeInv, Start, RestInv, AtRest, Wanted, Kinds, TypeOK
  <1>2. PICK s : s = Batches(runs > 0, disk)
    OBVIOUS
  <1>3. /\ s \in Seq(Items)
        /\ \A n \in DOMAIN s :
              /\ s[n] \in Items /\ s[n].state = "READ"
              /\ s[n].range.kind \in Kinds
    <2>1. /\ s \in Seq(Items)
          /\ \A n \in DOMAIN s :
               /\ s[n].state = "READ"
               /\ \/ s[n].range.kind \in IF mode = "upload" THEN {1} ELSE 1 .. NumKinds
                  \/ s[n].key \in DOMAIN disk /\ s[n].range = RowRange(disk[s[n].key])
      BY <1>1, <1>2, BatchItems
    <2>2. \A k \in DOMAIN disk : RowRange(disk[k]).kind \in Kinds
      BY DEF TypeInv, ItemInv, RowRange, KeyRange
    <2>3. \A n \in DOMAIN s : s[n] \in Items
      BY <2>1, LenProperties
    <2> QED BY <2>1, <2>2, <2>3 DEF Kinds
  <1>4. /\ todo' = [todo EXCEPT ![Source] = s] /\ toSend' = Cardinality(WithinAll(ToSet(s)))
        /\ pc' = [a \in Actors |-> IF a = Source THEN Adding(a, s) ELSE "idle"]
        /\ runs' = runs + 1 /\ runs < MaxRuns /\ app' = "running" /\ code' = 1
        /\ UNCHANGED <<mode, arrived, disk, db, ops, stored, messages, waiting, pool, own,
                       error, sent, lost>>
    BY <1>2 DEF Start, dbVars
  <1>5. Adding(Source, s) = IF s # <<>> THEN "add" ELSE "ended"
    BY DEF Adding
  <1>6. TypeOK'
    <2>1. toSend' \in Nat
      <3>1. \A x \in ToSet(s) : x.range.kind \in 1 .. NumKinds
        BY <1>1, <1>3, KindsOf DEF ToSet
      <3> QED BY <1>4, <3>1, WithinAllOf
    <2>2. runs' \in 0 .. MaxRuns
      BY <1>1, <1>4, Numbers DEF TypeOK
    <2>3. todo' \in [Actors -> Seq(Items)]
      BY <1>1, <1>3, <1>4 DEF TypeOK
    <2>4. pc' \in [Actors -> PCs]
      BY <1>4, <1>5 DEF PCs
    <2> QED BY <1>1, <1>4, <2>1, <2>2, <2>3, <2>4 DEF TypeOK, PCs
  <1>7. MessageInv'
    BY <1>1, <1>4 DEF MessageInv
  <1>8. /\ todo'[Source] = s /\ pc'[Source] = IF s # <<>> THEN "add" ELSE "ended"
        /\ \A w \in Workers : todo'[w] = <<>> /\ pc'[w] = "idle"
    BY <1>1, <1>4, <1>5, Names DEF TypeOK
  <1>9. ThreadInv'
    <2>1. \A w \in Workers : own'[w] = Idle
      BY <1>1, <1>4, Names DEF TypeInv, ThreadInv, Holding
    <2>2. \A a \in Actors : pc'[a] # "submit"
      BY <1>8, Names
    <2> QED BY <1>1, <1>4, <1>8, <2>1, <2>2, Names DEF ThreadInv, Holding
  <1>10. ItemInv'
    <2>1. \A a \in Actors : \A n \in DOMAIN todo'[a] :
              todo'[a][n].state = "READ" /\ todo'[a][n].range.kind \in Kinds'
      <3>1. \A w \in Workers : DOMAIN todo'[w] = {}
        BY <1>8
      <3> QED BY <1>1, <1>3, <1>8, <3>1, Names
    <2> QED BY <1>1, <1>4, <2>1 DEF TypeInv, ItemInv
  <1>11. RestInv'
    <2>1. ~AtRest' /\ runs' # 0 /\ ~stored'
      BY <1>1, <1>4 DEF AtRest, TypeOK
    <2> QED BY <1>4, <2>1 DEF TypeInv, RestInv
  <1> QED BY <1>6, <1>7, <1>9, <1>10, <1>11 DEF TypeInv

LEMMA MarkAsReadTypes == ASSUME TypeInv, NEW a \in Actors, MarkAsRead(a) PROVE TypeInv'
  <1>1. PICK item : item = Head(todo[a])
    OBVIOUS
  <1>2. /\ pc[a] = "add" /\ a \notin waiting /\ todo[a] # <<>>
        /\ messages' = Append(messages, Message(a, item, {}))
        /\ waiting' = waiting \cup {a} /\ pc' = [pc EXCEPT ![a] = "submit"]
        /\ UNCHANGED <<mode, arrived, disk, db, ops, stored, pool, todo, own, sent,
                       app, error, toSend, code, runs, lost>>
    BY <1>1 DEF MarkAsRead, Ready, Blocking, dbVars, appVars
  <1>3. TypeOK /\ MessageInv /\ mode' = mode /\ Wanted' = Wanted /\ Kinds' = Kinds
    BY <1>2 DEF TypeInv, Wanted, Kinds
  <1>4. /\ item \in Items /\ item = todo[a][1] /\ 1 \in DOMAIN todo[a]
        /\ item.state = "READ" /\ item.range.kind \in Kinds
    <2>1. todo[a] \in Seq(Items)
      BY <1>3, TypesOf
    <2>2. Head(todo[a]) \in Items /\ Head(todo[a]) = todo[a][1] /\ 1 \in DOMAIN todo[a]
      BY <1>2, <2>1, Taken
    <2> QED BY <1>1, <2>2 DEF TypeInv, ItemInv
  <1>5. /\ pc'[a] = "submit" /\ \A b \in Actors : b # a => pc'[b] = pc[b]
        /\ todo' = todo /\ own' = own
    BY <1>2, <1>3 DEF TypeOK
  <1>6. Message(a, item, {}) \in Notes /\ messages \in Seq(Notes)
    BY <1>3, <1>4, NotesOf DEF Notes, Message
  <1>7. TypeOK'
    <2>1. messages' \in Seq(Notes)
      BY <1>2, <1>6, Appended
    <2>2. pc' \in [Actors -> PCs] /\ waiting' \subseteq Actors
      BY <1>2, <1>3 DEF TypeOK, PCs
    <2> QED BY <1>2, <1>3, <2>1, <2>2 DEF TypeOK, PCs, Notes
  <1>8. MessageInv'
    BY <1>2, <1>3, <1>4, <1>5, MessagesSent
  <1>9. app # "closing"
    BY <1>2, Names DEF TypeInv, ThreadInv
  <1>10. ThreadInv'
    BY <1>2, <1>5, <1>9, Names DEF TypeInv, ThreadInv, Holding, AtRest
  <1>11. PICK k : k = Len(messages) + 1
    OBVIOUS
  <1>12. /\ DOMAIN messages' = DOMAIN messages \cup {k} /\ messages'[k].item = item
         /\ \A n \in DOMAIN messages : messages'[n] = messages[n]
         /\ messages # <<>> => Head(messages') = Head(messages)
         /\ messages' # <<>>
    BY <1>2, <1>6, <1>11, Appended DEF Message
  <1>13. ItemInv'
    BY <1>2, <1>3, <1>4, <1>12 DEF TypeInv, ItemInv
  <1>14. RestInv'
    <2>1. ~AtRest /\ ~AtRest'
      BY <1>2 DEF TypeInv, RestInv, AtRest
    <2>2. ASSUME stored' PROVE messages' # <<>> /\ Got' /\ messages'[1].entities \subseteq arrived'
      <3>1. stored /\ messages # <<>> /\ Got /\ messages[1].entities \subseteq arrived
        BY <1>2, <2>2 DEF TypeInv, RestInv
      <3>2. 1 \in DOMAIN messages
        BY <1>6, <3>1, Taken
      <3> QED BY <1>2, <1>12, <3>1, <3>2 DEF Got, FirstMessage
    <2> QED BY <1>2, <2>1, <2>2 DEF TypeInv, RestInv, AtRest
  <1> QED BY <1>7, <1>8, <1>10, <1>13, <1>14 DEF TypeInv

LEMMA SubmitItemTypes == ASSUME TypeInv, NEW a \in Actors, SubmitItem(a) PROVE TypeInv'
  <1>1. /\ pc[a] = "submit" /\ a \notin waiting
        /\ pool' = pool \cup {Head(todo[a])}
        /\ todo' = [todo EXCEPT ![a] = Tail(todo[a])]
        /\ pc' = [pc EXCEPT ![a] = Adding(a, Tail(todo[a]))]
        /\ UNCHANGED <<mode, arrived, disk, db, ops, stored, messages, waiting, own, sent,
                       app, error, toSend, code, runs, lost>>
    BY DEF SubmitItem, Ready, dbVars, appVars
  <1>2. TypeOK /\ MessageInv /\ mode' = mode /\ Wanted' = Wanted /\ Kinds' = Kinds
    BY <1>1 DEF TypeInv, Wanted, Kinds
  <1>3. /\ todo[a] \in Seq(Items) /\ todo[a] # <<>>
        /\ Tail(todo[a]) \in Seq(Items) /\ Head(todo[a]) \in Items
        /\ Head(todo[a]) = todo[a][1] /\ 1 \in DOMAIN todo[a]
        /\ \A n \in DOMAIN Tail(todo[a]) :
               n + 1 \in DOMAIN todo[a] /\ Tail(todo[a])[n] = todo[a][n + 1]
    <2>1. todo[a] \in Seq(Items) /\ todo[a] # <<>>
      BY <1>1, <1>2, TypesOf DEF TypeInv, ThreadInv
    <2> QED BY <2>1, Taken
  <1>4. Adding(a, Tail(todo[a])) = IF Tail(todo[a]) # <<>> THEN "add"
                                   ELSE IF a = Source THEN "ended" ELSE "idle"
    BY DEF Adding
  <1>5. /\ \A b \in Actors : b # a => pc'[b] = pc[b] /\ todo'[b] = todo[b]
        /\ pc'[a] = IF Tail(todo[a]) # <<>> THEN "add" ELSE IF a = Source THEN "ended" ELSE "idle"
        /\ todo'[a] = Tail(todo[a])
    BY <1>1, <1>2, <1>4 DEF TypeOK
  <1>6. TypeOK'
    <2>1. todo' \in [Actors -> Seq(Items)] /\ pool' \subseteq Items
      BY <1>1, <1>2, <1>3 DEF TypeOK
    <2>2. pc' \in [Actors -> PCs]
      BY <1>1, <1>2, <1>4 DEF TypeOK, PCs
    <2> QED BY <1>1, <1>2, <2>1, <2>2 DEF TypeOK, PCs
  <1>7. MessageInv'
    BY <1>1, <1>2, <1>5, MessagesKept
  <1>8. app # "closing"
    BY <1>1, Names DEF TypeInv, ThreadInv
  <1>9. ThreadInv'
    <2>1. ASSUME a \in Workers PROVE own[a] = Idle /\ mode # "upload" /\ a # Source
      BY <1>1, <1>3, <2>1, Names DEF TypeInv, ThreadInv, Holding
    <2>2. pc'[Source] \in {"add", "submit", "ended", "exited"}
          /\ (Source \in waiting => pc'[Source] = "submit")
      BY <1>1, <1>5, Names DEF TypeInv, ThreadInv
    <2>3. /\ \A b \in Actors : pc'[b] \in {"add", "submit"} => todo'[b] # <<>>
          /\ \A b \in Actors : pc'[b] \notin {"add", "submit", "exited"} => todo'[b] = <<>>
      BY <1>5 DEF TypeInv, ThreadInv
    <2>4. \A w \in Workers : w # a =>
             /\ pc'[w] # "exited" /\ (pc'[w] = "ended" => AtRest)
             /\ pc'[w] \notin Holding => own[w] = Idle
             /\ pc'[w] \in Holding => own[w].key # NoKey
             /\ mode = "upload" => todo'[w] = <<>>
      BY <1>5, Names DEF TypeInv, ThreadInv
    <2>5. a \in Workers =>
             /\ pc'[a] \in {"add", "idle"} /\ own[a] = Idle /\ mode # "upload"
      BY <1>5, <2>1
    <2>6. \A b \in Actors : pc'[b] = "submit" /\ b \notin waiting => todo'[b][1].key # NoKey
      BY <1>5 DEF TypeInv, ThreadInv
    <2>7. AtRest' = AtRest /\ app' # "closing"
      BY <1>1, <1>8 DEF AtRest
    <2> QED BY <1>1, <2>2, <2>3, <2>4, <2>5, <2>6, <2>7 DEF ThreadInv, Holding
  <1>10. ItemInv'
    <2>1. ASSUME NEW b \in Actors, NEW n \in DOMAIN todo'[b]
          PROVE  todo'[b][n].state = "READ" /\ todo'[b][n].range.kind \in Kinds
      <3>1. CASE b = a
        <4>1. n + 1 \in DOMAIN todo[a] /\ todo'[b][n] = todo[a][n + 1]
          BY <1>3, <1>5, <3>1
        <4> QED BY <4>1 DEF TypeInv, ItemInv
      <3>2. CASE b # a
        BY <1>5, <3>2 DEF TypeInv, ItemInv
      <3> QED BY <3>1, <3>2
    <2>2. \A x \in pool' : x.key # NoKey /\ x.range.kind \in Kinds
      BY <1>1, <1>3 DEF TypeInv, ItemInv, ThreadInv
    <2> QED BY <1>1, <1>2, <2>1, <2>2 DEF TypeInv, ItemInv
  <1>11. RestInv'
    <2>1. ~AtRest /\ ~AtRest'
      BY <1>1 DEF TypeInv, RestInv, AtRest
    <2> QED BY <1>1, <2>1 DEF TypeInv, RestInv, AtRest, Got, FirstMessage
  <1> QED BY <1>6, <1>7, <1>9, <1>10, <1>11 DEF TypeInv

LEMMA SourceExitsTypes == ASSUME TypeInv, SourceExits PROVE TypeInv'
  <1>1. /\ app = "failing" /\ pc[Source] \in {"add", "submit"} /\ Source \notin waiting
        /\ pc' = [pc EXCEPT ![Source] = "exited"]
        /\ UNCHANGED <<mode, arrived, disk, db, ops, stored, messages, waiting, pool, todo, own,
                       sent, app, error, toSend, code, runs, lost>>
    BY DEF SourceExits, dbVars, appVars
  <1>2. TypeOK /\ MessageInv /\ mode' = mode /\ Wanted' = Wanted /\ Kinds' = Kinds
    BY <1>1 DEF TypeInv, Wanted, Kinds
  <1>3. pc'[Source] = "exited" /\ \A b \in Actors : b # Source => pc'[b] = pc[b]
    BY <1>1, <1>2, Names DEF TypeOK
  <1>4. TypeOK'
    <2>1. pc' \in [Actors -> PCs]
      BY <1>1, <1>2 DEF TypeOK, PCs
    <2> QED BY <1>1, <1>2, <2>1 DEF TypeOK, PCs
  <1>5. MessageInv'
    BY <1>1, <1>2, <1>3, Names, MessagesKept
  <1>6. ThreadInv'
    BY <1>1, <1>3, Names DEF TypeInv, ThreadInv, Holding, AtRest
  <1>7. ItemInv' /\ RestInv'
    BY <1>1, <1>2 DEF TypeInv, ItemInv, RestInv, AtRest, Got, FirstMessage
  <1> QED BY <1>4, <1>5, <1>6, <1>7 DEF TypeInv

\* A message more, and nothing done to the first one.
LEMMA NoteSent ==
  ASSUME TypeOK, NEW a \in Actors \cup {Nobody}, NEW item \in Items,
         NEW entities \in SUBSET Wanted,
         messages' = Append(messages, Message(a, item, entities))
  PROVE  /\ messages' \in Seq(Notes)
         /\ Len(messages) + 1 \notin DOMAIN messages
         /\ DOMAIN messages' = DOMAIN messages \cup {Len(messages) + 1}
         /\ messages'[Len(messages) + 1].from = a
         /\ messages'[Len(messages) + 1].item = item
         /\ messages'[Len(messages) + 1].entities = entities
         /\ \A n \in DOMAIN messages : messages'[n] = messages[n]
         /\ messages' # <<>>
         /\ messages # <<>> => Head(messages') = Head(messages) /\ messages'[1] = messages[1]
  <1> DEFINE msg == Message(a, item, entities)
  <1>1. messages \in Seq(Notes) /\ msg \in Notes
    BY NotesOf DEF Message, Notes
  <1>2. msg.from = a /\ msg.item = item /\ msg.entities = entities
    BY DEF Message
  <1> HIDE DEF msg
  <1>3. /\ messages' \in Seq(Notes) /\ messages' # <<>>
        /\ Len(messages) + 1 \notin DOMAIN messages
        /\ DOMAIN messages' = DOMAIN messages \cup {Len(messages) + 1}
        /\ \A n \in DOMAIN messages : messages'[n] = messages[n]
        /\ messages'[Len(messages) + 1] = msg
        /\ messages # <<>> => Head(messages') = Head(messages)
    BY <1>1, Appended DEF msg
  <1>4. messages # <<>> => 1 \in DOMAIN messages
    BY <1>1, Taken
  <1> QED BY <1>2, <1>3, <1>4 DEF msg

LEMMA RestSent ==
  ASSUME TypeInv, NEW a \in Actors \cup {Nobody}, NEW item \in Items,
         NEW entities \in SUBSET Wanted,
         messages' = Append(messages, Message(a, item, entities)),
         ~AtRest, app' = app, arrived \subseteq arrived',
         UNCHANGED <<mode, disk, db, stored, runs, lost>>
  PROVE  RestInv'
  <1>1. /\ messages' # <<>>
        /\ messages # <<>> => Head(messages') = Head(messages) /\ messages'[1] = messages[1]
    BY NoteSent DEF TypeInv
  <1>2. ~AtRest'
    BY DEF AtRest
  <1>3. ASSUME stored' PROVE messages' # <<>> /\ Got' /\ messages'[1].entities \subseteq arrived'
    BY <1>1, <1>3 DEF TypeInv, RestInv, Got, FirstMessage
  <1> QED BY <1>2, <1>3 DEF TypeInv, RestInv

LEMMA ItemsSent ==
  ASSUME TypeInv, NEW a \in Actors \cup {Nobody}, NEW item \in Items,
         NEW entities \in SUBSET Wanted, item.range.kind \in Kinds,
         messages' = Append(messages, Message(a, item, entities)), mode' = mode
  PROVE  \A n \in DOMAIN messages' : messages'[n].item.range.kind \in Kinds
  <1>1. PICK k : k = Len(messages) + 1
    OBVIOUS
  <1>2. DOMAIN messages' = DOMAIN messages \cup {k} /\ messages'[k].item = item
    BY <1>1, NoteSent DEF TypeInv
  <1>3. \A n \in DOMAIN messages : messages'[n] = messages[n]
    BY NoteSent DEF TypeInv
  <1> QED BY <1>2, <1>3 DEF TypeInv, ItemInv

\* A worker that tells the progress thread what it did and waits.
LEMMA WorkerSendsTypes ==
  ASSUME TypeInv, NEW w \in Workers, w \notin waiting, pc[w] \in {"idle", "transfer"},
         app # "closing",
         NEW item \in Items, item.range.kind \in Kinds, NEW entities \in SUBSET Wanted,
         NEW mine \in Items, NEW s \in Seq(Items), NEW where \in PCs,
         messages' = Append(messages, Message(w, item, entities)),
         waiting' = waiting \cup {w}, pc' = [pc EXCEPT ![w] = where],
         own' = [own EXCEPT ![w] = mine], todo' = [todo EXCEPT ![w] = s],
         pool' \subseteq pool, arrived \subseteq arrived', arrived' \subseteq Wanted,
         UNCHANGED <<mode, disk, db, ops, stored, sent, app, error, toSend, code, runs, lost>>,
         \/ /\ where = "transfer" /\ item = mine /\ item.state = "GETTING"
            /\ s = <<>> /\ mine.key # NoKey
         \/ /\ where \in {"reput", "dead"} /\ item = mine /\ item.state = "ERROR"
            /\ s = <<>> /\ mine.key # NoKey
         \/ /\ where \in {"add", "idle"} /\ item.state = "GOT" /\ mode = "download"
            /\ mine = Idle /\ (s = <<>> <=> where = "idle")
            /\ \A n \in DOMAIN s : s[n].state = "READ" /\ s[n].range.kind \in Kinds
  PROVE  TypeInv'
  <1>1. TypeOK /\ MessageInv /\ Wanted' = Wanted /\ Kinds' = Kinds /\ w \in Actors /\ w # Source
    BY Names DEF TypeInv, Wanted, Kinds
  <1>2. ~AtRest /\ ~AtRest'
    BY <1>1 DEF TypeInv, RestInv, AtRest
  <1>3. /\ pc'[w] = where /\ own'[w] = mine /\ todo'[w] = s
        /\ \A b \in Actors : b # w => pc'[b] = pc[b] /\ todo'[b] = todo[b]
        /\ \A u \in Workers : u # w => own'[u] = own[u]
    BY <1>1 DEF TypeOK
  <1>4. TypeOK'
    <2>1. messages' \in Seq(Notes)
      BY <1>1, NoteSent
    <2>2. pc' \in [Actors -> PCs] /\ waiting' \subseteq Actors
      BY <1>1 DEF TypeOK, PCs
    <2>3. todo' \in [Actors -> Seq(Items)] /\ own' \in [Workers -> Items] /\ pool' \subseteq Items
      BY <1>1 DEF TypeOK
    <2> QED BY <1>1, <2>1, <2>2, <2>3 DEF TypeOK, PCs, Notes
  <1>5. MessageInv'
    BY <1>1, <1>3, MessagesSent
  <1>6. ThreadInv'
    <2>1. pc'[Source] = pc[Source] /\ (Source \in waiting' <=> Source \in waiting)
      BY <1>1, <1>3, Names
    <2>2. /\ \A b \in Actors : pc'[b] \in {"add", "submit"} => todo'[b] # <<>>
          /\ \A b \in Actors : pc'[b] \notin {"add", "submit", "exited"} => todo'[b] = <<>>
      BY <1>3 DEF TypeInv, ThreadInv
    <2>3. \A u \in Workers : u # w =>
             /\ pc'[u] # "exited" /\ (pc'[u] = "ended" => AtRest)
             /\ pc'[u] \notin Holding => own'[u] = Idle
             /\ pc'[u] \in Holding => own'[u].key # NoKey
             /\ mode = "upload" => todo'[u] = <<>>
      BY <1>3, Names DEF TypeInv, ThreadInv
    <2>4. /\ pc'[w] # "exited" /\ pc'[w] # "ended"
          /\ pc'[w] \notin Holding => own'[w] = Idle
          /\ pc'[w] \in Holding => own'[w].key # NoKey
          /\ mode = "upload" => todo'[w] = <<>>
      BY <1>3 DEF Holding
    <2>5. \A b \in Actors : pc'[b] = "submit" /\ b \notin waiting' => todo'[b][1].key # NoKey
      BY <1>3 DEF TypeInv, ThreadInv
    <2> QED BY <1>2, <2>1, <2>2, <2>3, <2>4, <2>5 DEF TypeInv, ThreadInv
  <1>7. ItemInv'
    <2>1. \A b \in Actors : \A n \in DOMAIN todo'[b] :
              todo'[b][n].state = "READ" /\ todo'[b][n].range.kind \in Kinds
      <3>1. DOMAIN s = {} \/ \A n \in DOMAIN s : s[n].state = "READ" /\ s[n].range.kind \in Kinds
        OBVIOUS
      <3> QED BY <1>3, <3>1 DEF TypeInv, ItemInv
    <2>2. \A u \in Workers : own'[u].range.kind \in Kinds
      BY <1>1, <1>3, IdleItem, KindsOf DEF TypeInv, ItemInv
    <2>3. \A n \in DOMAIN messages' : messages'[n].item.range.kind \in Kinds
      BY <1>1, ItemsSent
    <2> QED BY <1>1, <2>1, <2>2, <2>3 DEF TypeInv, ItemInv
  <1>8. RestInv'
    BY <1>1, <1>2, RestSent
  <1> QED BY <1>4, <1>5, <1>6, <1>7, <1>8 DEF TypeInv

LEMMA WithStateOf ==
  ASSUME NEW x \in Items, NEW state \in States
  PROVE  /\ [x EXCEPT !.state = state] \in Items
         /\ [x EXCEPT !.state = state].state = state
         /\ [x EXCEPT !.state = state].key = x.key
         /\ [x EXCEPT !.state = state].range = x.range
  BY DEF Items

LEMMA MarkAsTransferringShape ==
  ASSUME TypeInv, NEW w \in Workers, MarkAsTransferring(w)
  PROVE  \E x \in pool, mine \in Items :
            /\ mine.state = "GETTING" /\ mine.key = x.key /\ mine.range = x.range
            /\ app = "running" /\ pc[w] = "idle" /\ w \notin waiting
            /\ pool' = pool \ {x}
            /\ own' = [own EXCEPT ![w] = mine] /\ own'[w] = mine
            /\ messages' = Append(messages, Message(w, mine, {}))
            /\ waiting' = waiting \cup {w} /\ pc' = [pc EXCEPT ![w] = "transfer"]
            /\ UNCHANGED <<mode, arrived, disk, db, ops, stored, todo, sent,
                           app, error, toSend, code, runs, lost>>
  <1>1. PICK x \in pool :
            /\ pool' = pool \ {x}
            /\ own' = [own EXCEPT ![w] = [x EXCEPT !.state = "GETTING"]]
            /\ Blocking(w, own'[w], {}, "transfer")
    BY DEF MarkAsTransferring
  <1>2. PICK mine : mine = [x EXCEPT !.state = "GETTING"]
    OBVIOUS
  <1>3. mine \in Items /\ mine.state = "GETTING" /\ mine.key = x.key /\ mine.range = x.range
    BY <1>2, TypesOf, WithStateOf DEF TypeInv, States
  <1>4. own'[w] = mine /\ own' = [own EXCEPT ![w] = mine]
    BY <1>1, <1>2 DEF TypeInv, TypeOK
  <1> QED BY <1>1, <1>3, <1>4 DEF MarkAsTransferring, Blocking, Ready, dbVars, appVars

LEMMA MarkAsTransferringTypes ==
  ASSUME TypeInv, NEW w \in Workers, MarkAsTransferring(w) PROVE TypeInv'
  <1>1. PICK x \in pool, mine \in Items :
            /\ mine.state = "GETTING" /\ mine.key = x.key /\ mine.range = x.range
            /\ app = "running" /\ pc[w] = "idle" /\ w \notin waiting
            /\ pool' = pool \ {x}
            /\ own' = [own EXCEPT ![w] = mine] /\ own'[w] = mine
            /\ messages' = Append(messages, Message(w, mine, {}))
            /\ waiting' = waiting \cup {w} /\ pc' = [pc EXCEPT ![w] = "transfer"]
            /\ UNCHANGED <<mode, arrived, disk, db, ops, stored, todo, sent,
                           app, error, toSend, code, runs, lost>>
    BY MarkAsTransferringShape
  <1>2. mine.range.kind \in Kinds /\ mine.key # NoKey
    BY <1>1 DEF TypeInv, ItemInv
  <1>3. todo[w] = <<>> /\ todo \in [Actors -> Seq(Items)] /\ w \in Actors /\ arrived \subseteq Wanted
    BY <1>1, Names DEF TypeInv, ThreadInv, TypeOK
  <1>4. todo' = [todo EXCEPT ![w] = <<>>] /\ <<>> \in Seq(Items) /\ "transfer" \in PCs
    BY <1>1, <1>3, EmptySeq DEF PCs
  <1> QED BY <1>1, <1>2, <1>3, <1>4, WorkerSendsTypes

LEMMA MarkAsErrorShape ==
  ASSUME TypeInv, NEW w \in Workers, MarkAsError(w)
  PROVE  \E mine \in Items, where \in {"reput", "dead"} :
            /\ mine.state = "ERROR" /\ mine.key = own[w].key /\ mine.range = own[w].range
            /\ pc[w] = "transfer" /\ w \notin waiting
            /\ own' = [own EXCEPT ![w] = mine] /\ own'[w] = mine
            /\ messages' = Append(messages, Message(w, mine, {}))
            /\ waiting' = waiting \cup {w} /\ pc' = [pc EXCEPT ![w] = where]
            /\ \/ arrived' = arrived
               \/ mode = "upload" /\ arrived' = arrived \cup Within(own[w].range)
            /\ UNCHANGED <<mode, disk, db, ops, stored, pool, todo, sent,
                           app, error, toSend, code, runs, lost>>
  <1>1. PICK mine : mine = [own[w] EXCEPT !.state = "ERROR"]
    OBVIOUS
  <1>2. mine \in Items /\ mine.state = "ERROR" /\ mine.key = own[w].key /\ mine.range = own[w].range
    BY <1>1, TypesOf, WithStateOf DEF TypeInv, States
  <1>3. own' = [own EXCEPT ![w].state = "ERROR"]
    BY DEF MarkAsError
  <1>4. own'[w] = mine /\ own' = [own EXCEPT ![w] = mine]
    BY <1>1, <1>3 DEF TypeInv, TypeOK
  <1>5. \E where \in {"reput", "dead"} :
            /\ Blocking(w, own'[w], {}, where)
            /\ \/ arrived' = arrived
               \/ mode = "upload" /\ arrived' = arrived \cup Within(own[w].range)
    BY DEF MarkAsError, Posted
  <1> QED BY <1>2, <1>4, <1>5 DEF MarkAsError, Blocking, Ready, dbVars, appVars

LEMMA OwnWithin ==
  ASSUME TypeInv, NEW r \in KeyRanges, r.kind \in Kinds PROVE Within(r) \subseteq Wanted
  <1>1. Wanted = Kinds \X (1 .. Size)
    BY KindsOf DEF TypeInv
  <1>2. \A e \in Within(r) : e = <<r.kind, e[2]>> /\ e[2] \in 1 .. Size
    BY InWithin
  <1> QED BY <1>1, <1>2

LEMMA MarkAsErrorTypes ==
  ASSUME TypeInv, NEW w \in Workers, MarkAsError(w) PROVE TypeInv'
  <1>1. PICK mine \in Items, where \in {"reput", "dead"} :
            /\ mine.state = "ERROR" /\ mine.key = own[w].key /\ mine.range = own[w].range
            /\ pc[w] = "transfer" /\ w \notin waiting
            /\ own' = [own EXCEPT ![w] = mine] /\ own'[w] = mine
            /\ messages' = Append(messages, Message(w, mine, {}))
            /\ waiting' = waiting \cup {w} /\ pc' = [pc EXCEPT ![w] = where]
            /\ \/ arrived' = arrived
               \/ mode = "upload" /\ arrived' = arrived \cup Within(own[w].range)
            /\ UNCHANGED <<mode, disk, db, ops, stored, pool, todo, sent,
                           app, error, toSend, code, runs, lost>>
    BY MarkAsErrorShape
  <1>2. mine.range.kind \in Kinds /\ mine.key # NoKey /\ app # "closing"
    BY <1>1 DEF TypeInv, ItemInv, ThreadInv, Holding
  <1>3. todo[w] = <<>> /\ todo \in [Actors -> Seq(Items)] /\ w \in Actors
    BY <1>1, Names DEF TypeInv, ThreadInv, TypeOK
  <1>4. todo' = [todo EXCEPT ![w] = <<>>] /\ <<>> \in Seq(Items) /\ where \in PCs
    BY <1>1, <1>3, EmptySeq DEF PCs
  <1>5. arrived \subseteq arrived' /\ arrived' \subseteq Wanted
    <2>1. arrived \subseteq Wanted /\ own[w].range \in KeyRanges
      BY TypesOf DEF TypeInv, TypeOK
    <2>2. Within(own[w].range) \subseteq Wanted
      BY <1>1, <1>2, <2>1, OwnWithin
    <2> QED BY <1>1, <2>1, <2>2
  <1> QED BY <1>1, <1>2, <1>3, <1>4, <1>5, WorkerSendsTypes

LEMMA GetEntitiesShape ==
  ASSUME TypeInv, NEW w \in Workers, GetEntities(w)
  PROVE  \E item \in Items, entities \in SUBSET Wanted, s \in Seq(Items), where \in {"add", "idle"} :
            /\ item.state = "GOT" /\ item.key = own[w].key /\ item.range = own[w].range
            /\ mode = "download" /\ pc[w] = "transfer" /\ w \notin waiting
            /\ messages' = Append(messages, Message(w, item, entities))
            /\ waiting' = waiting \cup {w} /\ pc' = [pc EXCEPT ![w] = where]
            /\ own' = [own EXCEPT ![w] = Idle] /\ todo' = [todo EXCEPT ![w] = s]
            /\ s = <<>> <=> where = "idle"
            /\ \A n \in DOMAIN s : /\ s[n].state = "READ" /\ s[n].key = NoKey
                                   /\ s[n].range.kind = own[w].range.kind
            /\ entities \subseteq Within(own[w].range)
            /\ \A e \in Within(own[w].range) :
                   e \in entities \/ \E n \in DOMAIN s : e \in Within(s[n].range)
            /\ UNCHANGED <<mode, arrived, disk, db, ops, stored, pool, sent,
                           app, error, toSend, code, runs, lost>>
  <1>1. PICK item : item = [own[w] EXCEPT !.state = "GOT"]
    OBVIOUS
  <1>2. own[w].range \in KeyRanges /\ own[w] \in Items /\ own[w].range.kind \in Kinds
    BY TypesOf DEF TypeInv, ItemInv
  <1>3. item \in Items /\ item.state = "GOT" /\ item.key = own[w].key /\ item.range = own[w].range
    BY <1>1, <1>2, WithStateOf DEF States
  <1>4. PICK asc \in {own[w].range.asc, TRUE} :
           LET r == [own[w].range EXCEPT !.asc = asc] IN
           IF Continued(r)
           THEN /\ Blocking(w, item, Fetched(r), "add")
                /\ \E ranges \in Divisions(Remainder(r)) :
                      todo' = [todo EXCEPT ![w] =
                          [n \in DOMAIN ranges |-> Item(ranges[n], "READ", NoKey)]]
           ELSE /\ Blocking(w, item, Fetched(r), "idle")
                /\ UNCHANGED todo
    BY <1>1 DEF GetEntities
  <1>5. PICK r : r = [own[w].range EXCEPT !.asc = asc]
    OBVIOUS
  <1>6. /\ r \in KeyRanges /\ r.kind = own[w].range.kind
        /\ r.start = own[w].range.start /\ r.end = own[w].range.end
        /\ r.inclStart = own[w].range.inclStart /\ r.inclEnd = own[w].range.inclEnd
    <2>1. asc \in BOOLEAN
      BY <1>2 DEF KeyRanges
    <2> QED BY <1>2, <1>5, <2>1 DEF KeyRanges
  <1>7. Within(r) = Within(own[w].range)
    BY <1>6 DEF Within
  <1>8. Fetched(r) \subseteq Within(r) /\ Within(r) \subseteq Wanted
    BY <1>2, <1>6, FetchedOf, OwnWithin
  <1>9. /\ mode = "download" /\ pc[w] = "transfer" /\ w \notin waiting
        /\ own' = [own EXCEPT ![w] = Idle] /\ todo[w] = <<>> /\ todo \in [Actors -> Seq(Items)]
        /\ UNCHANGED <<mode, arrived, disk, db, ops, stored, pool, sent,
                       app, error, toSend, code, runs, lost>>
    BY Names DEF GetEntities, Ready, dbVars, appVars, TypeInv, ThreadInv, TypeOK
  <1>10. CASE Continued(r)
    <2>1. PICK ranges \in Divisions(Remainder(r)) :
             todo' = [todo EXCEPT ![w] =
                          [n \in DOMAIN ranges |-> Item(ranges[n], "READ", NoKey)]]
      BY <1>4, <1>5, <1>10
    <2>2. PICK s : s = [n \in DOMAIN ranges |-> Item(ranges[n], "READ", NoKey)]
      OBVIOUS
    <2>3. /\ Remainder(r) \in KeyRanges /\ Remainder(r).kind = r.kind
          /\ Within(r) \ Fetched(r) \subseteq Within(Remainder(r))
      BY <1>6, <1>10, FetchedOf
    <2>4. /\ ranges \in Seq(KeyRanges) /\ ranges # <<>>
          /\ \A n \in DOMAIN ranges : ranges[n].kind = Remainder(r).kind
          /\ \A e \in Within(Remainder(r)) : \E n \in DOMAIN ranges : e \in Within(ranges[n])
      BY <2>3, DivisionsOf
    <2>5. \A n \in DOMAIN ranges : ranges[n] \in KeyRanges
      BY <2>4, LenProperties
    <2>6. /\ DOMAIN s = DOMAIN ranges
          /\ \A n \in DOMAIN s : /\ s[n] \in Items /\ s[n].state = "READ" /\ s[n].key = NoKey
                                 /\ s[n].range = ranges[n]
      <3>1. \A q \in KeyRanges : LET x == Item(q, "READ", NoKey) IN
                x \in Items /\ x.state = "READ" /\ x.key = NoKey /\ x.range = q
        BY DEF Items, Item, States, NoKey
      <3> QED BY <2>2, <2>5, <3>1
    <2>7. s \in Seq(Items) /\ s # <<>>
      <3>1. Len(ranges) \in Nat /\ DOMAIN ranges = 1 .. Len(ranges) /\ Len(ranges) # 0
        BY <2>4, LenProperties, EmptySeq
      <3>2. s \in [1 .. Len(ranges) -> Items]
        BY <2>2, <2>6, <3>1
      <3>3. s \in Seq(Items) /\ Len(s) = Len(ranges)
        BY <3>1, <3>2, FunctionIsSeq
      <3> QED BY <3>1, <3>3, EmptySeq
    <2>8. Blocking(w, item, Fetched(r), "add") /\ todo' = [todo EXCEPT ![w] = s]
      BY <1>4, <1>5, <1>10, <2>1, <2>2
    <2>9. \A e \in Within(own[w].range) :
             e \in Fetched(r) \/ \E n \in DOMAIN s : e \in Within(s[n].range)
      BY <1>7, <2>3, <2>4, <2>6
    <2>10. Fetched(r) \in SUBSET Wanted /\ Fetched(r) \subseteq Within(own[w].range)
      BY <1>7, <1>8
    <2>11. \A n \in DOMAIN s : /\ s[n].state = "READ" /\ s[n].key = NoKey
                               /\ s[n].range.kind = own[w].range.kind
      BY <1>6, <2>3, <2>4, <2>6
    <2> QED BY <1>3, <1>9, <2>7, <2>8, <2>9, <2>10, <2>11 DEF Blocking
  <1>11. CASE ~Continued(r)
    <2>1. Blocking(w, item, Fetched(r), "idle") /\ todo' = todo
      BY <1>4, <1>5, <1>11
    <2>2. Within(r) \subseteq Fetched(r)
      BY <1>6, <1>11, FetchedOf
    <2>3. todo' = [todo EXCEPT ![w] = <<>>] /\ <<>> \in Seq(Items) /\ DOMAIN <<>> = {}
      BY <1>9, <2>1, Names, EmptySeq
    <2>4. Fetched(r) \in SUBSET Wanted /\ Fetched(r) \subseteq Within(own[w].range)
          /\ \A e \in Within(own[w].range) : e \in Fetched(r)
      BY <1>7, <1>8, <2>2
    <2> QED BY <1>3, <1>9, <2>1, <2>3, <2>4 DEF Blocking
  <1> QED BY <1>10, <1>11

LEMMA GetEntitiesTypes ==
  ASSUME TypeInv, NEW w \in Workers, GetEntities(w) PROVE TypeInv'
  <1>1. PICK item \in Items, entities \in SUBSET Wanted, s \in Seq(Items), where \in {"add", "idle"} :
            /\ item.state = "GOT" /\ item.key = own[w].key /\ item.range = own[w].range
            /\ mode = "download" /\ pc[w] = "transfer" /\ w \notin waiting
            /\ messages' = Append(messages, Message(w, item, entities))
            /\ waiting' = waiting \cup {w} /\ pc' = [pc EXCEPT ![w] = where]
            /\ own' = [own EXCEPT ![w] = Idle] /\ todo' = [todo EXCEPT ![w] = s]
            /\ s = <<>> <=> where = "idle"
            /\ \A n \in DOMAIN s : /\ s[n].state = "READ" /\ s[n].key = NoKey
                                   /\ s[n].range.kind = own[w].range.kind
            /\ entities \subseteq Within(own[w].range)
            /\ \A e \in Within(own[w].range) :
                   e \in entities \/ \E n \in DOMAIN s : e \in Within(s[n].range)
            /\ UNCHANGED <<mode, arrived, disk, db, ops, stored, pool, sent,
                           app, error, toSend, code, runs, lost>>
    BY GetEntitiesShape
  <1>2. own[w].range.kind \in Kinds /\ app # "closing" /\ arrived \subseteq Wanted
    BY <1>1 DEF TypeInv, ItemInv, ThreadInv, TypeOK
  <1>3. where \in PCs
    BY <1>1 DEF PCs
  <1> QED BY <1>1, <1>2, <1>3, IdleItem, WorkerSendsTypes

LEMMA PostEntitiesTypes ==
  ASSUME TypeInv, NEW w \in Workers, PostEntities(w) PROVE TypeInv'
  <1>1. PICK item : item = [own[w] EXCEPT !.state = "GOT"]
    OBVIOUS
  <1>2. /\ mode = "upload" /\ pc[w] = "transfer" /\ w \notin waiting
        /\ arrived' = arrived \cup Within(own[w].range)
        /\ messages' = Append(messages, Message(Nobody, item, {}))
        /\ own' = [own EXCEPT ![w] = Idle] /\ pc' = [pc EXCEPT ![w] = "idle"]
        /\ UNCHANGED <<mode, disk, db, ops, stored, waiting, pool, todo, sent,
                       app, error, toSend, code, runs, lost>>
    BY <1>1 DEF PostEntities, Posted, Ready, dbVars, appVars
  <1>3. /\ TypeOK /\ MessageInv /\ Wanted' = Wanted /\ Kinds' = Kinds /\ w \in Actors /\ w # Source
        /\ w # Nobody /\ Nobody \in Actors \cup {Nobody} /\ {} \in SUBSET Wanted
    BY <1>2, Names DEF TypeInv, Wanted, Kinds
  <1>4. own[w] \in Items /\ own[w].range \in KeyRanges /\ own[w].range.kind \in Kinds
        /\ todo[w] = <<>> /\ app # "closing"
    BY <1>2, <1>3, TypesOf DEF TypeInv, ItemInv, ThreadInv
  <1>5. item \in Items /\ item.state = "GOT" /\ item.key = own[w].key /\ item.range = own[w].range
    BY <1>1, <1>4, WithStateOf DEF States
  <1>6. ~AtRest /\ ~AtRest'
    BY <1>2, <1>3 DEF TypeInv, RestInv, AtRest
  <1>7. /\ pc'[w] = "idle" /\ own'[w] = Idle
        /\ \A b \in Actors : b # w => pc'[b] = pc[b]
        /\ \A u \in Workers : u # w => own'[u] = own[u]
    BY <1>2, <1>3 DEF TypeOK
  <1>8. arrived' \subseteq Wanted /\ arrived \subseteq arrived'
    <2>1. Within(own[w].range) \subseteq Wanted
      BY <1>4, OwnWithin
    <2> QED BY <1>2, <1>3, <2>1 DEF TypeOK
  <1>9. TypeOK'
    <2>1. messages' \in Seq(Notes)
      BY <1>2, <1>3, <1>5, NoteSent
    <2>2. pc' \in [Actors -> PCs] /\ own' \in [Workers -> Items]
      BY <1>2, <1>3, IdleItem DEF TypeOK, PCs
    <2> QED BY <1>2, <1>3, <1>8, <2>1, <2>2 DEF TypeOK, PCs, Notes
  <1>10. PICK k : k = Len(messages) + 1
    OBVIOUS
  <1>11. /\ k \notin DOMAIN messages /\ DOMAIN messages' = DOMAIN messages \cup {k}
         /\ messages'[k].from = Nobody /\ messages'[k].item = item
         /\ messages'[k].entities = {}
    <2>1. k \notin DOMAIN messages
      BY <1>2, <1>3, <1>5, <1>10, NoteSent
    <2>2. DOMAIN messages' = DOMAIN messages \cup {k}
      BY <1>2, <1>3, <1>5, <1>10, NoteSent
    <2>3. messages'[k].from = Nobody
      BY <1>2, <1>3, <1>5, <1>10, NoteSent
    <2>4. messages'[k].item = item
      BY <1>2, <1>3, <1>5, <1>10, NoteSent
    <2>5. messages'[k].entities = {}
      BY <1>2, <1>3, <1>5, <1>10, NoteSent
    <2> QED BY <2>1, <2>2, <2>3, <2>4, <2>5
  <1>12. \A n \in DOMAIN messages : messages'[n] = messages[n]
    BY <1>2, <1>3, <1>5, NoteSent
  <1>13. MessageInv'
    <2>1. ASSUME NEW n \in DOMAIN messages' PROVE Sensible(messages[n])'
      <3>1. CASE n = k
        BY <1>2, <1>5, <1>11, <3>1 DEF Sensible, FromNobody, IsGot
      <3>2. CASE n \in DOMAIN messages
        <4>1. messages[n].from \in Actors \cup {Nobody} /\ messages[n].from # w
              /\ Sensible(messages[n])
          BY <1>2, <1>3, <3>2, NotesOf DEF MessageInv
        <4> QED BY <1>2, <1>7, <1>12, <3>2, <4>1, Names
                DEF Sensible, FromAdder, FromWorker, FromNobody, IsGot
      <3> QED BY <1>11, <3>1, <3>2
    <2>2. ASSUME NEW n \in DOMAIN messages', messages'[n].from # Nobody
          PROVE  /\ messages'[n].from \in waiting'
                 /\ \A m \in DOMAIN messages' : messages'[m].from = messages'[n].from => m = n
      <3>1. n \in DOMAIN messages /\ messages'[n] = messages[n]
        BY <1>11, <1>12, <2>2
      <3> QED BY <1>2, <1>3, <1>11, <1>12, <2>2, <3>1 DEF MessageInv
    <2> QED BY <2>1, <2>2 DEF MessageInv
  <1>14. ThreadInv'
    <2>1. pc'[Source] = pc[Source]
      BY <1>3, <1>7, Names
    <2>2. /\ \A b \in Actors : pc'[b] \in {"add", "submit"} => todo'[b] # <<>>
          /\ \A b \in Actors : pc'[b] \notin {"add", "submit", "exited"} => todo'[b] = <<>>
          /\ \A b \in Actors : pc'[b] = "submit" /\ b \notin waiting' => todo'[b][1].key # NoKey
      BY <1>2, <1>4, <1>7 DEF TypeInv, ThreadInv
    <2>3. \A u \in Workers :
             /\ pc'[u] # "exited" /\ (pc'[u] = "ended" => AtRest)
             /\ pc'[u] \notin Holding => own'[u] = Idle
             /\ pc'[u] \in Holding => own'[u].key # NoKey
             /\ mode = "upload" => todo'[u] = <<>>
      BY <1>2, <1>7, Names DEF TypeInv, ThreadInv, Holding
    <2> QED BY <1>2, <1>4, <1>6, <2>1, <2>2, <2>3 DEF TypeInv, ThreadInv
  <1>15. ItemInv'
    <2>1. \A u \in Workers : own'[u].range.kind \in Kinds
      BY <1>3, <1>7, IdleItem, KindsOf DEF TypeInv, ItemInv
    <2>2. \A n \in DOMAIN messages' : messages'[n].item.range.kind \in Kinds
      BY <1>4, <1>5, <1>11, <1>12 DEF TypeInv, ItemInv
    <2> QED BY <1>2, <1>3, <2>1, <2>2 DEF TypeInv, ItemInv
  <1>16. RestInv'
    BY <1>2, <1>3, <1>5, <1>6, <1>8, RestSent
  <1> QED BY <1>9, <1>13, <1>14, <1>15, <1>16 DEF TypeInv

LEMMA ReputTypes ==
  ASSUME TypeInv, NEW w \in Workers, Reput(w) PROVE TypeInv'
  <1>1. /\ pc[w] = "reput" /\ w \notin waiting
        /\ pool' = pool \cup {own[w]}
        /\ own' = [own EXCEPT ![w] = Idle] /\ pc' = [pc EXCEPT ![w] = "idle"]
        /\ UNCHANGED <<mode, arrived, disk, db, ops, stored, messages, waiting, todo, sent,
                       app, error, toSend, code, runs, lost>>
    BY DEF Reput, Ready, dbVars, appVars
  <1>2. TypeOK /\ MessageInv /\ Wanted' = Wanted /\ Kinds' = Kinds /\ w \in Actors /\ w # Source
    BY <1>1, Names DEF TypeInv, Wanted, Kinds
  <1>3. /\ pc'[w] = "idle" /\ own'[w] = Idle
        /\ \A b \in Actors : b # w => pc'[b] = pc[b]
        /\ \A u \in Workers : u # w => own'[u] = own[u]
    BY <1>1, <1>2 DEF TypeOK
  <1>4. /\ own[w] \in Items /\ own[w].range.kind \in Kinds /\ own[w].key # NoKey
        /\ todo[w] = <<>> /\ app # "closing"
    BY <1>1, <1>2, TypesOf DEF TypeInv, ItemInv, ThreadInv, Holding
  <1>5. TypeOK'
    <2>1. pc' \in [Actors -> PCs] /\ own' \in [Workers -> Items] /\ pool' \subseteq Items
      BY <1>1, <1>2, <1>4, IdleItem DEF TypeOK, PCs
    <2> QED BY <1>1, <1>2, <2>1 DEF TypeOK, PCs
  <1>6. MessageInv'
    BY <1>1, <1>2, <1>3, MessagesKept
  <1>7. ~AtRest /\ ~AtRest'
    BY <1>1, <1>2 DEF TypeInv, RestInv, AtRest
  <1>8. ThreadInv'
    <2>1. pc'[Source] = pc[Source]
      BY <1>2, <1>3, Names
    <2>2. /\ \A b \in Actors : pc'[b] \in {"add", "submit"} => todo'[b] # <<>>
          /\ \A b \in Actors : pc'[b] \notin {"add", "submit", "exited"} => todo'[b] = <<>>
          /\ \A b \in Actors : pc'[b] = "submit" /\ b \notin waiting' => todo'[b][1].key # NoKey
      BY <1>1, <1>3, <1>4 DEF TypeInv, ThreadInv
    <2>3. \A u \in Workers :
             /\ pc'[u] # "exited" /\ (pc'[u] = "ended" => AtRest)
             /\ pc'[u] \notin Holding => own'[u] = Idle
             /\ pc'[u] \in Holding => own'[u].key # NoKey
             /\ mode = "upload" => todo'[u] = <<>>
      BY <1>1, <1>3, Names DEF TypeInv, ThreadInv, Holding
    <2> QED BY <1>1, <1>4, <1>7, <2>1, <2>2, <2>3 DEF TypeInv, ThreadInv
  <1>9. ItemInv'
    <2>1. \A u \in Workers : own'[u].range.kind \in Kinds
      BY <1>2, <1>3, IdleItem, KindsOf DEF TypeInv, ItemInv
    <2>2. \A x \in pool' : x.key # NoKey /\ x.range.kind \in Kinds
      BY <1>1, <1>4 DEF TypeInv, ItemInv
    <2> QED BY <1>1, <1>2, <2>1, <2>2 DEF TypeInv, ItemInv
  <1>10. RestInv'
    BY <1>1, <1>7 DEF TypeInv, RestInv, AtRest, Got, FirstMessage
  <1> QED BY <1>5, <1>6, <1>8, <1>9, <1>10 DEF TypeInv
-----------------------------------------------------------------------------
\* The progress thread's steps: on the first message, which it then drops.
LEMMA FirstOf ==
  ASSUME TypeInv, messages # <<>>
  PROVE  /\ 1 \in DOMAIN messages /\ FirstMessage = messages[1] /\ messages[1] \in Notes
         /\ messages[1].item \in Items /\ messages[1].item.range \in KeyRanges
         /\ messages[1].item.range.kind \in Kinds
         /\ messages[1].entities \in SUBSET Wanted
         /\ messages[1].from \in Actors \cup {Nobody}
         /\ Sensible(messages[1])
         /\ messages[1].from # Nobody => messages[1].from \in waiting
         /\ Tail(messages) \in Seq(Notes)
         /\ \A n \in DOMAIN Tail(messages) :
               n \in Nat /\ n # 0 /\ n + 1 \in DOMAIN messages /\ n + 1 # 1
               /\ Tail(messages)[n] = messages[n + 1]
         /\ \A n \in DOMAIN messages : n # 1 =>
               n - 1 \in DOMAIN Tail(messages) /\ Tail(messages)[n - 1] = messages[n]
         /\ ~AtRest
  <1>1. messages \in Seq(Notes) /\ TypeOK
    BY NotesOf DEF TypeInv
  <1>2. /\ 1 \in DOMAIN messages /\ Head(messages) = messages[1] /\ Tail(messages) \in Seq(Notes)
        /\ \A n \in DOMAIN Tail(messages) :
               n \in Nat /\ n # 0 /\ n + 1 \in DOMAIN messages /\ Tail(messages)[n] = messages[n + 1]
        /\ \A n \in DOMAIN messages : n # 1 =>
               n - 1 \in DOMAIN Tail(messages) /\ Tail(messages)[n - 1] = messages[n]
    BY <1>1, Taken
  <1>3. /\ messages[1] \in Notes /\ messages[1].item \in Items
        /\ messages[1].from \in Actors \cup {Nobody} /\ messages[1].entities \in SUBSET Wanted
    BY <1>1, <1>2, NotesOf
  <1>4. messages[1].item.range \in KeyRanges
    BY <1>1, <1>3, TypesOf
  <1>5. /\ Sensible(messages[1]) /\ (messages[1].from # Nobody => messages[1].from \in waiting)
        /\ messages[1].item.range.kind \in Kinds
    BY <1>2 DEF TypeInv, MessageInv, ItemInv
  <1>6. ~AtRest
    BY DEF TypeInv, RestInv
  <1> QED BY <1>2, <1>3, <1>4, <1>5, <1>6 DEF FirstMessage

LEMMA Committed ==
  ASSUME TypeOK, MaybeCommit
  PROVE  /\ ops' \in 0 .. CommitEvery - 1
         /\ disk' = db' \/ disk' = disk
         /\ mode = "download" => disk' = db'
  <1>1. ops \in 0 .. CommitEvery - 1
    BY DEF TypeOK
  <1>2. /\ ops' = IF CommitDue THEN 0 ELSE ops + 1
        /\ disk' = IF CommitDue THEN db' ELSE disk
        /\ CommitDue <=> mode = "download" \/ ops + 1 = CommitEvery
    BY DEF MaybeCommit, CommitDue
  <1> QED BY <1>1, <1>2, Numbers

LEMMA AcknowledgedThreads ==
  ASSUME TypeInv, messages # <<>>, Acknowledge, mode' = mode, pc' = pc, own' = own, app' = app,
         \A a \in Actors : a # messages[1].from => todo'[a] = todo[a],
         \A a \in Actors : todo'[a] = <<>> <=> todo[a] = <<>>,
         \A a \in Actors : a = messages[1].from /\ pc[a] = "submit" => todo'[a][1].key # NoKey
  PROVE  ThreadInv'
  <1>1. waiting' = waiting \ {messages[1].from}
    BY FirstOf DEF Acknowledge
  <1>2. \A a \in Actors : pc'[a] = "submit" /\ a \notin waiting' => todo'[a][1].key # NoKey
    BY <1>1 DEF TypeInv, ThreadInv
  <1>3. AtRest' = AtRest
    BY DEF AtRest
  <1>4. \A w \in Workers : mode' = "upload" => todo'[w] = <<>>
    BY Names DEF TypeInv, ThreadInv
  <1>5. /\ \A a \in Actors : pc'[a] \in {"add", "submit"} => todo'[a] # <<>>
        /\ \A a \in Actors : pc'[a] \notin {"add", "submit", "exited"} => todo'[a] = <<>>
    BY DEF TypeInv, ThreadInv
  <1> QED BY <1>1, <1>2, <1>3, <1>4, <1>5 DEF TypeInv, ThreadInv

LEMMA StoreKeysShape ==
  ASSUME TypeInv, StoreKeys
  PROVE  \E a \in Actors, row \in Rows, x \in Items :
            /\ a = messages[1].from /\ a \in waiting /\ pc[a] = "submit"
            /\ todo[a] \in Seq(Items) /\ todo[a] # <<>> /\ 1 \in DOMAIN todo[a]
            /\ messages # <<>> /\ messages[1].item.state = "READ" /\ messages[1].item.key = NoKey
            /\ messages[1].item = todo[a][1]
            /\ row.kind = todo[a][1].range.kind /\ row.start = todo[a][1].range.start
            /\ row.end = todo[a][1].range.end /\ row.state = "READ"
            /\ row.kind \in Kinds
            /\ db' = Append(db, row)
            /\ x.range = todo[a][1].range /\ x.state = "READ" /\ x.key = Len(db) + 1
            /\ Len(db) + 1 \in Nat /\ Len(db) + 1 # NoKey
            /\ todo' = [todo EXCEPT ![a] = [todo[a] EXCEPT ![1] = x]]
            /\ MaybeCommit /\ Acknowledge
            /\ UNCHANGED <<mode, arrived, stored, pool, own, pc, sent,
                           app, error, toSend, code, runs, lost>>
  <1>1. /\ messages # <<>> /\ messages[1].item.state = "READ" /\ messages[1].item.key = NoKey
    BY FirstOf DEF StoreKeys
  <1>2. PICK a : a = messages[1].from
    OBVIOUS
  <1>3. a \in Actors /\ a \in waiting /\ pc[a] = "submit" /\ messages[1].item = todo[a][1]
    BY <1>1, <1>2, FirstOf DEF Sensible, FromAdder, FromWorker, FromNobody, IsGot
  <1>4. todo[a] \in Seq(Items) /\ todo[a] # <<>> /\ todo \in [Actors -> Seq(Items)]
        /\ db \in Seq(Rows)
    BY <1>3, TypesOf DEF TypeInv, ThreadInv, TypeOK
  <1>5. 1 \in DOMAIN todo[a] /\ todo[a][1] \in Items
    BY <1>4, Taken
  <1>6. PICK r : r = messages[1].item.range
    OBVIOUS
  <1>7. PICK row : row = [kind |-> r.kind, start |-> r.start, end |-> r.end, state |-> "READ"]
    OBVIOUS
  <1>8. r \in KeyRanges /\ r.kind \in Kinds /\ r = todo[a][1].range
    BY <1>1, <1>3, <1>6, FirstOf
  <1>9. /\ row \in Rows /\ row.kind = r.kind /\ row.start = r.start /\ row.end = r.end
        /\ row.state = "READ"
    BY <1>7, <1>8 DEF Rows, KeyRanges, States
  <1>10. db' = Append(db, row)
    BY <1>1, <1>6, <1>7, FirstOf DEF StoreKeys
  <1>11. Len(db') = Len(db) + 1 /\ Len(db) + 1 \in Nat /\ Len(db) + 1 # NoKey
    BY <1>4, <1>9, <1>10, AppendProperties, LenProperties, IdleItem
  <1>12. PICK x : x = [todo[a][1] EXCEPT !.key = Len(db) + 1]
    OBVIOUS
  <1>13. x \in Items /\ x.range = todo[a][1].range /\ x.state = todo[a][1].state
         /\ x.key = Len(db) + 1
    BY <1>5, <1>11, <1>12 DEF Items
  <1>14. todo' = [todo EXCEPT ![a] = [todo[a] EXCEPT ![1] = x]]
    <2>1. todo' = [todo EXCEPT ![a][1].key = Len(db) + 1]
      BY <1>1, <1>2, <1>11, FirstOf DEF StoreKeys
    <2> QED BY <1>12, <2>1
  <1>15. MaybeCommit /\ Acknowledge
         /\ UNCHANGED <<mode, arrived, stored, pool, own, pc, sent,
                        app, error, toSend, code, runs, lost>>
    BY DEF StoreKeys, appVars
  <1>16. x.state = "READ"
    BY <1>1, <1>3, <1>13
  <1> QED BY <1>1, <1>2, <1>3, <1>4, <1>5, <1>8, <1>9, <1>10, <1>11, <1>13, <1>14, <1>15, <1>16

LEMMA StoreKeysTypes == ASSUME TypeInv, StoreKeys PROVE TypeInv'
  <1>1. PICK a \in Actors, row \in Rows, x \in Items :
            /\ a = messages[1].from /\ a \in waiting /\ pc[a] = "submit"
            /\ todo[a] \in Seq(Items) /\ todo[a] # <<>> /\ 1 \in DOMAIN todo[a]
            /\ messages # <<>> /\ messages[1].item.state = "READ" /\ messages[1].item.key = NoKey
            /\ messages[1].item = todo[a][1]
            /\ row.kind = todo[a][1].range.kind /\ row.start = todo[a][1].range.start
            /\ row.end = todo[a][1].range.end /\ row.state = "READ"
            /\ row.kind \in Kinds
            /\ db' = Append(db, row)
            /\ x.range = todo[a][1].range /\ x.state = "READ" /\ x.key = Len(db) + 1
            /\ Len(db) + 1 \in Nat /\ Len(db) + 1 # NoKey
            /\ todo' = [todo EXCEPT ![a] = [todo[a] EXCEPT ![1] = x]]
            /\ MaybeCommit /\ Acknowledge
            /\ UNCHANGED <<mode, arrived, stored, pool, own, pc, sent,
                           app, error, toSend, code, runs, lost>>
    BY StoreKeysShape
  <1>2. TypeOK /\ MessageInv /\ Wanted' = Wanted /\ Kinds' = Kinds /\ db \in Seq(Rows)
        /\ disk \in Seq(Rows)
    BY <1>1 DEF TypeInv, Wanted, Kinds, TypeOK
  <1>3. PICK s : s = [todo[a] EXCEPT ![1] = x]
    OBVIOUS
  <1>4. /\ s \in Seq(Items) /\ s # <<>> /\ s[1] = x /\ DOMAIN s = DOMAIN todo[a]
        /\ \A n \in DOMAIN s : n # 1 => s[n] = todo[a][n]
    <2>1. 1 \in 1 .. Len(todo[a]) /\ DOMAIN todo[a] = 1 .. Len(todo[a])
      BY <1>1, LenProperties
    <2>2. s \in Seq(Items)
      BY <1>1, <1>3, <2>1, ExceptSeq
    <2>3. DOMAIN s = DOMAIN todo[a] /\ s[1] = x /\ \A n \in DOMAIN s : n # 1 => s[n] = todo[a][n]
      BY <1>1, <1>3
    <2>4. s # <<>>
      BY <1>1, <2>3
    <2> QED BY <2>2, <2>3, <2>4
  <1>5. todo'[a] = s /\ \A b \in Actors : b # a => todo'[b] = todo[b]
    BY <1>1, <1>2, <1>3 DEF TypeOK
  <1>6. /\ db' \in Seq(Rows) /\ DOMAIN db' = DOMAIN db \cup {Len(db) + 1}
        /\ \A n \in DOMAIN db : db'[n] = db[n]
        /\ db'[Len(db) + 1] = row
    BY <1>1, <1>2, Appended
  <1>7. ops' \in 0 .. CommitEvery - 1 /\ (disk' = db' \/ disk' = disk)
        /\ (mode = "download" => disk' = db')
    BY <1>1, <1>2, Committed
  <1>8. messages' = Tail(messages) /\ waiting' = waiting \ {messages[1].from}
        /\ messages' \in Seq(Notes)
    BY <1>1, FirstOf DEF Acknowledge
  <1>9. TypeOK'
    <2>1. todo' \in [Actors -> Seq(Items)]
      BY <1>1, <1>2, <1>3, <1>4 DEF TypeOK
    <2>2. disk' \in Seq(Rows) /\ waiting' \subseteq Actors
      BY <1>2, <1>6, <1>7, <1>8 DEF TypeOK
    <2> QED BY <1>1, <1>2, <1>6, <1>7, <1>8, <2>1, <2>2 DEF TypeOK, Notes
  <1>10. MessageInv'
    BY <1>1, <1>2, <1>5, MessagesAcknowledged
  <1>11. ThreadInv'
    <2>1. todo'[a][1].key # NoKey
      BY <1>1, <1>4, <1>5
    <2> QED BY <1>1, <1>4, <1>5, <2>1, AcknowledgedThreads
  <1>12. ItemInv'
    <2>1. ASSUME NEW b \in Actors, NEW n \in DOMAIN todo'[b]
          PROVE  todo'[b][n].state = "READ" /\ todo'[b][n].range.kind \in Kinds
      <3>1. CASE b # a
        BY <1>5, <3>1 DEF TypeInv, ItemInv
      <3>2. CASE b = a /\ n # 1
        BY <1>4, <1>5, <3>2 DEF TypeInv, ItemInv
      <3>3. CASE b = a /\ n = 1
        BY <1>1, <1>4, <1>5, <3>3 DEF TypeInv, ItemInv
      <3> QED BY <3>1, <3>2, <3>3
    <2>2. \A n \in DOMAIN messages' : messages'[n].item.range.kind \in Kinds
      BY <1>1, <1>8, FirstOf DEF TypeInv, ItemInv
    <2>3. \A n \in DOMAIN db' : db'[n].kind \in Kinds
      BY <1>1, <1>6 DEF TypeInv, ItemInv
    <2>4. \A n \in DOMAIN disk' : disk'[n].kind \in Kinds
      BY <1>7, <2>3 DEF TypeInv, ItemInv
    <2> QED BY <1>1, <1>2, <2>1, <2>2, <2>3, <2>4 DEF TypeInv, ItemInv
  <1>13. RestInv'
    <2>1. ~AtRest /\ ~AtRest'
      BY <1>1, FirstOf DEF AtRest
    <2>2. ~stored'
      BY <1>1, FirstOf DEF TypeInv, RestInv, Got
    <2> QED BY <1>1, <1>7, <2>1, <2>2 DEF TypeInv, RestInv
  <1> QED BY <1>9, <1>10, <1>11, <1>12, <1>13 DEF TypeInv

LEMMA RowChanged ==
  ASSUME db \in Seq(Rows), NEW k, NEW state \in States \cup {"deleted"},
         db' = [db EXCEPT ![k].state = state]
  PROVE  /\ db' \in Seq(Rows) /\ DOMAIN db' = DOMAIN db
         /\ \A n \in DOMAIN db : n # k => db'[n] = db[n]
         /\ \A n \in DOMAIN db : /\ db'[n].kind = db[n].kind /\ db'[n].start = db[n].start
                                 /\ db'[n].end = db[n].end
         /\ k \in DOMAIN db => db'[k].state = state
  <1>1. Len(db) \in Nat /\ DOMAIN db = 1 .. Len(db) /\ \A n \in DOMAIN db : db[n] \in Rows
    BY LenProperties
  <1>2. DOMAIN db' = DOMAIN db /\ \A n \in DOMAIN db : n # k => db'[n] = db[n]
    OBVIOUS
  <1>3. ASSUME k \in DOMAIN db
        PROVE  /\ db'[k] \in Rows /\ db'[k].state = state /\ db'[k].kind = db[k].kind
               /\ db'[k].start = db[k].start /\ db'[k].end = db[k].end
    <2>1. db'[k] = [db[k] EXCEPT !.state = state]
      BY <1>3
    <2>2. db[k] \in Rows
      BY <1>1, <1>3
    <2>3. \A row \in Rows : LET changed == [row EXCEPT !.state = state] IN
             /\ changed \in Rows /\ changed.state = state /\ changed.kind = row.kind
             /\ changed.start = row.start /\ changed.end = row.end
      BY DEF Rows
    <2> QED BY <2>1, <2>2, <2>3
  <1>4. db' \in Seq(Rows)
    <2>1. \A n \in 1 .. Len(db) : db'[n] \in Rows
      BY <1>1, <1>2, <1>3
    <2>2. db' \in [1 .. Len(db) -> Rows]
      <3>1. db' = [n \in DOMAIN db |-> db'[n]]
        OBVIOUS
      <3> QED BY <1>1, <2>1, <3>1
    <2> QED BY <1>1, <2>2, FunctionIsSeq
  <1> QED BY <1>2, <1>3, <1>4

LEMMA RowChangedTypes ==
  ASSUME TypeInv, messages # <<>>, NEW state \in States \cup {"deleted"},
         db' = [db EXCEPT ![messages[1].item.key].state = state],
         MaybeCommit, Acknowledge,
         messages[1].item.key # NoKey \/ messages[1].item.state = "GOT",
         sent' \in Nat, stored' = FALSE,
         UNCHANGED <<mode, arrived, pool, todo, own, pc, app, error, toSend, code, runs, lost>>
  PROVE  TypeInv'
  <1>1. TypeOK /\ MessageInv /\ Wanted' = Wanted /\ Kinds' = Kinds /\ db \in Seq(Rows)
        /\ disk \in Seq(Rows)
    BY DEF TypeInv, Wanted, Kinds, TypeOK
  <1>2. PICK k : k = messages[1].item.key
    OBVIOUS
  <1>3. /\ db' \in Seq(Rows) /\ DOMAIN db' = DOMAIN db
        /\ \A n \in DOMAIN db : db'[n].kind = db[n].kind
    BY <1>1, <1>2, RowChanged
  <1>4. ops' \in 0 .. CommitEvery - 1 /\ (disk' = db' \/ disk' = disk)
        /\ (mode = "download" => disk' = db')
    BY <1>1, Committed
  <1>5. messages' = Tail(messages) /\ waiting' = waiting \ {messages[1].from}
        /\ messages' \in Seq(Notes)
    BY FirstOf DEF Acknowledge
  <1>6. TypeOK'
    <2>1. disk' \in Seq(Rows) /\ waiting' \subseteq Actors
      BY <1>1, <1>3, <1>4, <1>5 DEF TypeOK
    <2> QED BY <1>1, <1>3, <1>4, <1>5, <2>1 DEF TypeOK, Notes
  <1>7. MessageInv'
    BY <1>1, MessagesAcknowledged
  <1>8. ThreadInv'
    <2>1. ASSUME NEW a \in Actors, a = messages[1].from, pc[a] = "submit"
          PROVE  todo[a][1].key # NoKey
      BY <2>1, Names, FirstOf DEF Sensible, FromAdder, FromWorker, IsGot
    <2> QED BY <2>1, AcknowledgedThreads
  <1>9. ItemInv'
    <2>1. \A n \in DOMAIN messages' : messages'[n].item.range.kind \in Kinds
      BY <1>5, FirstOf DEF TypeInv, ItemInv
    <2>2. \A n \in DOMAIN db' : db'[n].kind \in Kinds
      BY <1>3 DEF TypeInv, ItemInv
    <2>3. \A n \in DOMAIN disk' : disk'[n].kind \in Kinds
      BY <1>4, <2>2 DEF TypeInv, ItemInv
    <2> QED BY <1>1, <2>1, <2>2, <2>3 DEF TypeInv, ItemInv
  <1>10. RestInv'
    <2>1. ~AtRest /\ ~AtRest'
      BY FirstOf DEF AtRest
    <2> QED BY <1>4, <2>1 DEF TypeInv, RestInv
  <1> QED BY <1>6, <1>7, <1>8, <1>9, <1>10 DEF TypeInv

LEMMA UpdateStateShape ==
  ASSUME TypeInv, UpdateState
  PROVE  /\ messages # <<>> /\ messages[1].item.key # NoKey
         /\ ~ (mode = "download" /\ messages[1].item.state = "GOT")
         /\ ~stored /\ messages[1].item.state \in States
         /\ db' = [db EXCEPT ![messages[1].item.key].state = messages[1].item.state]
         /\ sent' = IF messages[1].item.state = "GOT"
                    THEN sent + Cardinality(Within(messages[1].item.range)) ELSE sent
         /\ MaybeCommit /\ Acknowledge
         /\ UNCHANGED <<mode, arrived, stored, pool, todo, own, pc,
                        app, error, toSend, code, runs, lost>>
  <1>1. messages # <<>> /\ FirstMessage = messages[1] /\ ~Got /\ messages[1].item \in Items
    BY FirstOf DEF UpdateState
  <1>2. ~stored
    BY <1>1 DEF TypeInv, RestInv
  <1> QED BY <1>1, <1>2 DEF UpdateState, Counted, Got, appVars, Items

LEMMA UpdateStateTypes == ASSUME TypeInv, UpdateState PROVE TypeInv'
  <1>1. /\ messages # <<>> /\ messages[1].item.key # NoKey
        /\ ~stored /\ messages[1].item.state \in States
        /\ db' = [db EXCEPT ![messages[1].item.key].state = messages[1].item.state]
        /\ sent' = IF messages[1].item.state = "GOT"
                   THEN sent + Cardinality(Within(messages[1].item.range)) ELSE sent
        /\ MaybeCommit /\ Acknowledge
        /\ UNCHANGED <<mode, arrived, stored, pool, todo, own, pc,
                       app, error, toSend, code, runs, lost>>
    BY UpdateStateShape
  <1>2. sent' \in Nat
    <2>1. sent \in Nat /\ Cardinality(Within(messages[1].item.range)) \in Nat
      BY InWithin DEF TypeInv, TypeOK
    <2> QED BY <1>1, <2>1
  <1> QED BY <1>1, <1>2, RowChangedTypes DEF TypeInv, TypeOK

LEMMA StoreEntitiesShape ==
  ASSUME TypeInv, StoreEntities
  PROVE  /\ messages # <<>> /\ mode = "download" /\ messages[1].item.state = "GOT" /\ ~stored
         /\ arrived' = arrived \cup messages[1].entities /\ stored' = TRUE
         /\ UNCHANGED <<mode, disk, db, ops, messages, waiting, pool, todo, own, pc, sent,
                        app, error, toSend, code, runs, lost>>
  BY FirstOf DEF StoreEntities, Got, threadVars, appVars

LEMMA StoreEntitiesTypes == ASSUME TypeInv, StoreEntities PROVE TypeInv'
  <1>1. /\ messages # <<>> /\ mode = "download" /\ messages[1].item.state = "GOT" /\ ~stored
        /\ arrived' = arrived \cup messages[1].entities /\ stored' = TRUE
        /\ UNCHANGED <<mode, disk, db, ops, messages, waiting, pool, todo, own, pc, sent,
                       app, error, toSend, code, runs, lost>>
    BY StoreEntitiesShape
  <1>2. Wanted' = Wanted /\ Kinds' = Kinds /\ AtRest' = AtRest
    BY <1>1 DEF Wanted, Kinds, AtRest
  <1>3. ~AtRest /\ messages[1].entities \subseteq Wanted /\ FirstMessage = messages[1]
    BY <1>1, FirstOf
  <1>4. TypeOK'
    <2>1. arrived' \subseteq Wanted
      BY <1>1, <1>3 DEF TypeInv, TypeOK
    <2> QED BY <1>1, <1>2, <2>1 DEF TypeInv, TypeOK
  <1>5. MessageInv'
    BY <1>1 DEF TypeInv, MessageInv, Sensible, FromAdder, FromWorker, FromNobody, IsGot
  <1>6. ThreadInv' /\ ItemInv'
    BY <1>1, <1>2 DEF TypeInv, ThreadInv, ItemInv
  <1>7. RestInv'
    <2>1. Got' /\ messages'[1].entities \subseteq arrived'
      BY <1>1, <1>3 DEF Got, FirstMessage
    <2> QED BY <1>1, <1>2, <1>3, <2>1 DEF TypeInv, RestInv
  <1> QED BY <1>4, <1>5, <1>6, <1>7 DEF TypeInv

LEMMA DeleteKeyShape ==
  ASSUME TypeInv, DeleteKey
  PROVE  /\ messages # <<>> /\ mode = "download" /\ messages[1].item.state = "GOT" /\ stored
         /\ messages[1].entities \subseteq arrived
         /\ db' = [db EXCEPT ![messages[1].item.key].state = "deleted"]
         /\ stored' = FALSE /\ MaybeCommit /\ Acknowledge
         /\ UNCHANGED <<mode, arrived, pool, todo, own, pc, sent,
                        app, error, toSend, code, runs, lost>>
  <1>1. messages # <<>> /\ FirstMessage = messages[1] /\ stored
    BY FirstOf DEF DeleteKey, MayDelete
  <1>2. messages[1].entities \subseteq arrived
    BY <1>1 DEF TypeInv, RestInv
  <1> QED BY <1>1, <1>2 DEF DeleteKey, Got, appVars

LEMMA DeleteKeyTypes == ASSUME TypeInv, DeleteKey PROVE TypeInv'
  <1>1. /\ messages # <<>> /\ messages[1].item.state = "GOT"
        /\ db' = [db EXCEPT ![messages[1].item.key].state = "deleted"]
        /\ stored' = FALSE /\ MaybeCommit /\ Acknowledge
        /\ UNCHANGED <<mode, arrived, pool, todo, own, pc, sent,
                       app, error, toSend, code, runs, lost>>
    BY DeleteKeyShape
  <1>2. sent' \in Nat /\ "deleted" \in States \cup {"deleted"}
    BY <1>1 DEF TypeInv, TypeOK
  <1> QED BY <1>1, <1>2, RowChangedTypes
-----------------------------------------------------------------------------
\* The main thread's steps, and the end of a run.
LEMMA ClosingTypes ==
  ASSUME TypeInv, app' = "closing",
         UNCHANGED <<mode, arrived, disk, db, ops, stored, messages, waiting, pool, todo, own, pc,
                     sent, error, toSend, code, runs, lost>>,
         ~AtRest, pc[Source] \in {"ended", "exited"},
         \A w \in Workers : pc[w] \in {"idle", "dead"} /\ w \notin waiting
  PROVE  TypeInv'
  <1>1. Wanted' = Wanted /\ Kinds' = Kinds /\ ~AtRest'
    BY DEF Wanted, Kinds, AtRest
  <1>2. waiting = {}
    BY Names DEF TypeInv, TypeOK, ThreadInv
  <1>3. TypeOK'
    BY <1>1 DEF TypeInv, TypeOK
  <1>4. MessageInv'
    BY DEF TypeInv, MessageInv, Sensible, FromAdder, FromWorker, FromNobody, IsGot
  <1>5. ThreadInv'
    BY <1>1, <1>2 DEF TypeInv, ThreadInv
  <1>6. ItemInv'
    BY <1>1 DEF TypeInv, ItemInv
  <1>7. RestInv'
    BY <1>1 DEF TypeInv, RestInv, Got, FirstMessage
  <1> QED BY <1>3, <1>4, <1>5, <1>6, <1>7 DEF TypeInv

LEMMA QueueJoinedTypes == ASSUME TypeInv, QueueJoined PROVE TypeInv'
  BY ClosingTypes DEF QueueJoined, Ready, AtRest, dbVars, threadVars

LEMMA ThreadsJoinedTypes == ASSUME TypeInv, ThreadsJoined PROVE TypeInv'
  BY ClosingTypes DEF ThreadsJoined, Ready, AtRest, dbVars, threadVars

LEMMA ShutdownTypes ==
  ASSUME TypeInv, ShutdownThreads, error' \in BOOLEAN PROVE TypeInv'
  <1>1. /\ app = "running" /\ app' = "failing" /\ pool' = {}
        /\ UNCHANGED <<mode, arrived, disk, db, ops, stored, messages, waiting, todo, own, pc,
                       sent, toSend, code, runs, lost>>
    BY DEF ShutdownThreads, dbVars
  <1>2. Wanted' = Wanted /\ Kinds' = Kinds /\ ~AtRest' /\ ~AtRest
    BY <1>1 DEF Wanted, Kinds, AtRest
  <1>3. TypeOK'
    BY <1>1, <1>2 DEF TypeInv, TypeOK
  <1>4. MessageInv'
    BY <1>1 DEF TypeInv, MessageInv, Sensible, FromAdder, FromWorker, FromNobody, IsGot
  <1>5. ThreadInv'
    BY <1>1, <1>2 DEF TypeInv, ThreadInv
  <1>6. ItemInv'
    BY <1>1, <1>2 DEF TypeInv, ItemInv
  <1>7. RestInv'
    BY <1>1, <1>2 DEF TypeInv, RestInv, Got, FirstMessage
  <1> QED BY <1>3, <1>4, <1>5, <1>6, <1>7 DEF TypeInv

LEMMA SeesDeathShutsDown ==
  ASSUME SeesDeath PROVE ShutdownThreads /\ error' \in BOOLEAN
  <1>1. (pc[Source] # "ended") \in BOOLEAN
    OBVIOUS
  <1> QED BY <1>1 DEF SeesDeath

LEMMA MissedIs ==
  ASSUME NEW rows, mode' = mode, arrived' = arrived
  PROVE  Missed(rows)' = Missed(rows)
  BY DEF Missed, Resumable, Batches, Wanted

\* What a run leaves, returning or killed: these rows, and nothing in memory.
LEMMA EndedTypes ==
  ASSUME TypeInv, ~AtRest, Ended, NEW rows \in Seq(Rows), disk' = rows, db' = rows,
         rows = db \/ rows = disk,
         app' \in {"down", "returned"}, code' \in {0, 1}, lost' = Missed(rows),
         messages' = <<>>, waiting' = {}, stored' = FALSE
  PROVE  TypeInv'
  <1>1. /\ ops' = 0 /\ pool' = {} /\ error' = FALSE /\ sent' = 0 /\ toSend' = 0
        /\ todo' = [a \in Actors |-> <<>>] /\ own' = [w \in Workers |-> Idle]
        /\ pc' = [a \in Actors |-> "ended"]
        /\ UNCHANGED <<mode, arrived, runs>>
    BY DEF Ended
  <1>2. Wanted' = Wanted /\ Kinds' = Kinds /\ AtRest' /\ app' # "closing"
    BY <1>1 DEF Wanted, Kinds, AtRest
  <1>3. TypeOK'
    <2>1. <<>> \in Seq(Notes) /\ <<>> \in Seq(Items)
      BY EmptySeq
    <2>2. lost' \subseteq Wanted /\ ops' \in 0 .. CommitEvery - 1
      BY <1>1, Numbers DEF Missed
    <2>3. todo' \in [Actors -> Seq(Items)] /\ own' \in [Workers -> Items] /\ pc' \in [Actors -> PCs]
      BY <1>1, <2>1, IdleItem DEF PCs
    <2> QED BY <1>1, <1>2, <2>1, <2>2, <2>3 DEF TypeInv, TypeOK, Notes, PCs
  <1>4. MessageInv'
    BY DEF MessageInv
  <1>5. ThreadInv'
    BY <1>1, <1>2, Names DEF ThreadInv, Holding
  <1>6. ItemInv'
    <2>1. \A k \in DOMAIN rows : rows[k].kind \in Kinds
      BY DEF TypeInv, ItemInv
    <2> QED BY <1>1, <1>2, <2>1, IdleItem, KindsOf DEF TypeInv, ItemInv
  <1>7. RestInv'
    <2>1. runs' # 0
      BY <1>1 DEF TypeInv, RestInv
    <2>2. Missed(rows)' = Missed(rows)
      BY <1>1, MissedIs
    <2>3. lost' = Missed(disk)'
      <3>1. Missed(disk)' = Wanted' \ (arrived' \cup Resumable(disk)')
        BY DEF Missed
      <3>2. Resumable(disk)' = Resumable(rows)
        BY <1>1 DEF Resumable, Batches
      <3> QED BY <1>1, <1>2, <3>1, <3>2 DEF Missed
    <2> QED BY <1>1, <1>2, <2>1, <2>3 DEF RestInv
  <1> QED BY <1>3, <1>4, <1>5, <1>6, <1>7 DEF TypeInv

LEMMA ReturnTypes == ASSUME TypeInv, Return PROVE TypeInv'
  <1>1. /\ app = "closing" /\ messages = <<>> /\ disk' = db /\ db' = db
        /\ app' = "returned" /\ code' = ExitCode /\ lost' = Missed(db) /\ Ended
        /\ UNCHANGED <<stored, messages, waiting>>
    BY DEF Return, ThreadComplete
  <1>2. ~AtRest /\ waiting = {} /\ stored = FALSE /\ db \in Seq(Rows)
    BY <1>1 DEF AtRest, TypeInv, ThreadInv, RestInv, TypeOK
  <1>3. code' \in {0, 1}
    BY <1>1 DEF ExitCode
  <1>4. PICK rows \in Seq(Rows) : rows = db
    BY <1>2
  <1>5. lost' = Missed(rows)
    BY <1>1, <1>4
  <1> QED BY <1>1, <1>2, <1>3, <1>4, <1>5, EndedTypes

LEMMA CrashTypes == ASSUME TypeInv, Crash PROVE TypeInv'
  <1>1. /\ app \in {"running", "failing", "closing"} /\ disk' = disk /\ db' = disk
        /\ app' = "down" /\ lost' = Missed(disk) /\ Ended
        /\ messages' = <<>> /\ waiting' = {} /\ stored' = FALSE /\ code' = code
    BY DEF Crash, Unsafe
  <1>2. ~AtRest /\ disk \in Seq(Rows) /\ code' \in {0, 1} /\ app' \in {"down", "returned"}
    BY <1>1 DEF AtRest, TypeInv, TypeOK
  <1>3. PICK rows \in Seq(Rows) : rows = disk
    BY <1>2
  <1>4. lost' = Missed(rows)
    BY <1>1, <1>3
  <1> QED BY <1>1, <1>2, <1>3, <1>4, EndedTypes

LEMMA StutterTypes == ASSUME TypeInv, UNCHANGED vars PROVE TypeInv'
  <1>1. UNCHANGED <<mode, arrived, disk, db, ops, stored, messages, waiting, pool, todo, own, pc,
                    sent, app, error, toSend, code, runs, lost>>
    BY DEF vars, dbVars, threadVars, appVars
  <1>2. TypeOK'
    BY <1>1 DEF TypeInv, TypeOK, Wanted
  <1>3. MessageInv'
    BY <1>1 DEF TypeInv, MessageInv, Sensible, FromAdder, FromWorker, FromNobody, IsGot
  <1>4. ThreadInv'
    BY <1>1 DEF TypeInv, ThreadInv, AtRest
  <1>5. ItemInv'
    BY <1>1 DEF TypeInv, ItemInv, Kinds
  <1>6. RestInv'
    <2>1. Missed(disk)' = Missed(disk)
      BY <1>1 DEF Missed, Resumable, Batches, Wanted
    <2> QED BY <1>1, <2>1 DEF TypeInv, RestInv, AtRest, Got, FirstMessage
  <1> QED BY <1>2, <1>3, <1>4, <1>5, <1>6 DEF TypeInv

LEMMA NextTypes == ASSUME TypeInv, [Next]_vars PROVE TypeInv'
  <1>1. CASE Start
    BY <1>1, StartTypes
  <1>2. CASE Crash
    BY <1>2, CrashTypes
  <1>3. CASE Interrupt
    BY <1>3, ShutdownTypes DEF Interrupt
  <1>4. ASSUME NEW a \in Actors, Adds(a) PROVE TypeInv'
    BY <1>4, MarkAsReadTypes, SubmitItemTypes DEF Adds
  <1>5. CASE SourceStep
    BY <1>4, <1>5, Names, SourceExitsTypes DEF SourceStep
  <1>6. ASSUME NEW w \in Workers, WorkerStep(w) PROVE TypeInv'
    BY <1>4, <1>6, Names, MarkAsTransferringTypes, PostEntitiesTypes, GetEntitiesTypes,
       MarkAsErrorTypes, ReputTypes DEF WorkerStep, Transfers
  <1>7. CASE ProgressStep
    BY <1>7, StoreKeysTypes, UpdateStateTypes, StoreEntitiesTypes, DeleteKeyTypes DEF ProgressStep
  <1>8. CASE MainStep
    BY <1>8, QueueJoinedTypes, SeesDeathShutsDown, ShutdownTypes, ThreadsJoinedTypes, ReturnTypes
       DEF MainStep
  <1>9. CASE UNCHANGED vars
    BY <1>9, StutterTypes
  <1> QED BY <1>1, <1>2, <1>3, <1>5, <1>6, <1>7, <1>8, <1>9 DEF Next, ThreadStep

\* The variables have their types, the threads are where their messages and
\* items say, and nothing is left of a run that ended.
THEOREM TransferTypes == Spec => []TypeInv
  <1>1. Init => TypeInv
    BY InitTypes
  <1>2. TypeInv /\ [Next]_vars => TypeInv'
    BY NextTypes
  <1> QED BY <1>1, <1>2, PTL DEF Spec
-----------------------------------------------------------------------------
\* An item with a key is in one place, and its row is open and says its range.
RowFor(m, rows, x) ==
    /\ x.key \in DOMAIN rows /\ Open(rows, x.key)
    /\ rows[x.key].kind = x.range.kind
    /\ rows[x.key].start = x.range.start /\ rows[x.key].end = x.range.end
    /\ m = "upload" => x.range.inclStart /\ x.range.inclEnd

InTodo(k) == \E a \in Actors : \E n \in DOMAIN todo[a] : todo[a][n].key = k
InPool(k) == \E x \in pool : x.key = k
InOwn(k) == \E w \in Workers : own[w].key = k
InGot(k) == \E n \in DOMAIN messages : IsGot(messages[n]) /\ messages[n].item.key = k
Held(k) == InTodo(k) \/ InPool(k) \/ InOwn(k) \/ InGot(k)

TodoRows ==
    \A a \in Actors : \A n \in DOMAIN todo[a] :
        IF todo[a][n].key = NoKey
        THEN mode = "upload" => todo[a][n].range.inclStart /\ todo[a][n].range.inclEnd
        ELSE RowFor(mode, db, todo[a][n])
PoolRows == \A x \in pool : RowFor(mode, db, x)
OwnRows == \A w \in Workers : own[w].key # NoKey => RowFor(mode, db, own[w])
GotRows ==
    \A n \in DOMAIN messages : IsGot(messages[n]) =>
        /\ RowFor(mode, db, messages[n].item)
        /\ messages[n].entities \subseteq Within(RowRange(db[messages[n].item.key]))
RowsInv == TodoRows /\ PoolRows /\ OwnRows /\ GotRows

TodoOnce ==
    \A a, b \in Actors : \A n \in DOMAIN todo[a], m \in DOMAIN todo[b] :
        todo[a][n].key = todo[b][m].key /\ todo[a][n].key # NoKey => a = b /\ n = m
PoolOnce == \A x, y \in pool : x.key = y.key => x = y
OwnOnce == \A w, u \in Workers : own[w].key = own[u].key /\ own[w].key # NoKey => w = u
GotOnce ==
    \A n, m \in DOMAIN messages :
        IsGot(messages[n]) /\ IsGot(messages[m])
            /\ messages[n].item.key = messages[m].item.key => n = m
Apart ==
    \A k \in DOMAIN db :
        /\ ~(InTodo(k) /\ InPool(k)) /\ ~(InTodo(k) /\ InOwn(k))
        /\ ~(InTodo(k) /\ InGot(k)) /\ ~(InPool(k) /\ InOwn(k))
        /\ ~(InPool(k) /\ InGot(k)) /\ ~(InOwn(k) /\ InGot(k))
PlaceInv == TodoOnce /\ PoolOnce /\ OwnOnce /\ GotOnce /\ Apart

KeyInv == RowsInv /\ PlaceInv

\* What an item in hand says of its row, wherever it is.
LEMMA KeysHere ==
  ASSUME TypeInv, KeyInv
  PROVE  /\ \A k : Held(k) /\ k # NoKey => k \in DOMAIN db /\ Open(db, k)
         /\ \A k \in DOMAIN db : k # NoKey
         /\ \A k : InGot(k) \/ InPool(k) => k \in DOMAIN db
  <1>1. \A k \in DOMAIN db : k # NoKey
    BY TypesOf DEF TypeInv, NoKey
  <1>2. \A k : InTodo(k) /\ k # NoKey => k \in DOMAIN db /\ Open(db, k)
    BY DEF KeyInv, RowsInv, TodoRows, RowFor, InTodo
  <1>3. \A k : InPool(k) => k \in DOMAIN db /\ Open(db, k)
    BY DEF KeyInv, RowsInv, PoolRows, RowFor, InPool
  <1>4. \A k : InOwn(k) /\ k # NoKey => k \in DOMAIN db /\ Open(db, k)
    BY DEF KeyInv, RowsInv, OwnRows, RowFor, InOwn
  <1>5. \A k : InGot(k) => k \in DOMAIN db /\ Open(db, k)
    BY DEF KeyInv, RowsInv, GotRows, RowFor, InGot
  <1> QED BY <1>1, <1>2, <1>3, <1>4, <1>5 DEF Held

\* The rows keep what they say, but for the one that is closed.
RowsSay(c) ==
    /\ DOMAIN db \subseteq DOMAIN db'
    /\ \A k \in DOMAIN db :
           /\ db'[k].kind = db[k].kind /\ db'[k].start = db[k].start /\ db'[k].end = db[k].end
           /\ k # c /\ Open(db, k) => Open(db', k)

LEMMA RowKept ==
  ASSUME mode' = mode, NEW c, RowsSay(c)
  PROVE  /\ \A x : RowFor(mode, db, x) /\ x.key # c => RowFor(mode', db', x)
         /\ \A k \in DOMAIN db : RowRange(db'[k]) = RowRange(db[k])
  BY DEF RowsSay, RowFor, RowRange

\* Nothing changes its place: messages may be taken or sent that carry nothing,
\* items may be dropped, and a row is closed that nobody has.
LEMMA KeysKept ==
  ASSUME TypeInv, KeyInv, NEW c, NEW d \in {0, 1},
         mode' = mode, RowsSay(c), DOMAIN db' = DOMAIN db,
         todo' = todo, pool' \subseteq pool,
         \A w \in Workers : own'[w].key = own[w].key /\ own'[w].range = own[w].range,
         \A n \in DOMAIN messages' : IsGot(messages'[n]) =>
             n \in Nat /\ n + d \in DOMAIN messages /\ messages'[n] = messages[n + d],
         c # NoKey => ~InTodo(c) /\ ~InPool(c) /\ ~InOwn(c) /\ ~InGot(c)'
  PROVE  KeyInv' /\ \A k : Held(k)' => Held(k)
  <1>1. /\ \A x : RowFor(mode, db, x) /\ x.key # c => RowFor(mode', db', x)
        /\ \A k \in DOMAIN db : RowRange(db'[k]) = RowRange(db[k])
    BY RowKept
  <1>2. TodoRows' /\ TodoOnce' /\ \A k : InTodo(k)' <=> InTodo(k)
    <2>1. \A a \in Actors : \A n \in DOMAIN todo[a] :
              todo[a][n].key # NoKey => RowFor(mode, db, todo[a][n]) /\ todo[a][n].key # c
      BY DEF KeyInv, RowsInv, TodoRows, InTodo
    <2>2. TodoRows'
      BY <1>1, <2>1 DEF KeyInv, RowsInv, TodoRows
    <2> QED BY <2>2 DEF KeyInv, PlaceInv, TodoOnce, InTodo
  <1>3. PoolRows' /\ PoolOnce' /\ \A k : InPool(k)' => InPool(k)
    <2>1. \A x \in pool : RowFor(mode, db, x) /\ x.key # c
      BY DEF KeyInv, RowsInv, PoolRows, InPool, TypeInv, ItemInv
    <2>2. PoolRows'
      BY <1>1, <2>1 DEF PoolRows
    <2> QED BY <2>2 DEF KeyInv, PlaceInv, PoolOnce, InPool
  <1>4. OwnRows' /\ OwnOnce' /\ \A k : InOwn(k)' <=> InOwn(k)
    <2>1. \A w \in Workers : own'[w].key # NoKey =>
              RowFor(mode, db, own'[w]) /\ own'[w].key # c
      BY DEF KeyInv, RowsInv, OwnRows, InOwn, RowFor
    <2>2. OwnRows'
      BY <1>1, <2>1 DEF OwnRows
    <2> QED BY <2>2 DEF KeyInv, PlaceInv, OwnOnce, InOwn
  <1>5. GotRows' /\ GotOnce' /\ \A k : InGot(k)' => InGot(k)
    <2>1. ASSUME NEW n \in DOMAIN messages', IsGot(messages'[n])
          PROVE  /\ RowFor(mode, db, messages'[n].item) /\ messages'[n].item.key # c
                 /\ messages'[n].entities \subseteq Within(RowRange(db[messages'[n].item.key]))
                 /\ InGot(messages'[n].item.key)
      <3>1. /\ n + d \in DOMAIN messages /\ messages'[n] = messages[n + d]
            /\ IsGot(messages[n + d])
        BY <2>1
      <3>2. messages'[n].item.key # NoKey
        BY <3>1, KeysHere DEF KeyInv, RowsInv, GotRows, RowFor
      <3>3. messages'[n].item.key # c
        BY <2>1, <3>2 DEF InGot
      <3> QED BY <3>1, <3>3 DEF KeyInv, RowsInv, GotRows, InGot
    <2>2. GotRows'
      <3> SUFFICES ASSUME NEW n \in DOMAIN messages', IsGot(messages'[n])
                   PROVE  /\ RowFor(mode', db', messages'[n].item)
                          /\ messages'[n].entities
                                 \subseteq Within(RowRange(db'[messages'[n].item.key]))
        BY DEF GotRows, IsGot
      <3>1. RowFor(mode', db', messages'[n].item)
        BY <1>1, <2>1
      <3>2. messages'[n].item.key \in DOMAIN db
        BY <2>1 DEF RowFor
      <3> QED BY <1>1, <2>1, <3>1, <3>2
    <2>3. ASSUME NEW n \in DOMAIN messages', NEW m \in DOMAIN messages',
                 IsGot(messages'[n]), IsGot(messages'[m]),
                 messages'[n].item.key = messages'[m].item.key
          PROVE  n = m
      <3>1. n \in Nat /\ m \in Nat /\ n + d = m + d
        BY <2>3 DEF KeyInv, PlaceInv, GotOnce
      <3> QED BY <3>1
    <2>4. \A k : InGot(k)' => InGot(k)
      BY DEF InGot, IsGot
    <2> QED BY <2>2, <2>3, <2>4 DEF GotOnce, IsGot
  <1>6. Apart'
    BY <1>2, <1>3, <1>4, <1>5 DEF KeyInv, PlaceInv, Apart
  <1>7. \A k : Held(k)' => Held(k)
    BY <1>2, <1>3, <1>4, <1>5 DEF Held
  <1> QED BY <1>2, <1>3, <1>4, <1>5, <1>6, <1>7 DEF KeyInv, RowsInv, PlaceInv

LEMMA SubmitItemKeys ==
  ASSUME TypeInv, KeyInv, NEW a \in Actors, SubmitItem(a)
  PROVE  KeyInv' /\ \A k : Held(k)' => Held(k)
  <1>1. /\ pc[a] = "submit" /\ a \notin waiting
        /\ pool' = pool \cup {Head(todo[a])}
        /\ todo' = [todo EXCEPT ![a] = Tail(todo[a])]
        /\ UNCHANGED <<mode, db, messages, own>>
    BY DEF SubmitItem, Ready, dbVars
  <1>2. PICK x : x = Head(todo[a])
    OBVIOUS
  <1>3. /\ pool' = pool \cup {x} /\ x = todo[a][1] /\ 1 \in DOMAIN todo[a] /\ x.key # NoKey
        /\ \A n \in DOMAIN todo'[a] :
               /\ n \in Nat /\ n # 0 /\ n + 1 \in DOMAIN todo[a] /\ n + 1 # 1
               /\ todo'[a][n] = todo[a][n + 1]
        /\ \A b \in Actors : b # a => todo'[b] = todo[b]
    <2>1. todo[a] \in Seq(Items) /\ todo[a] # <<>> /\ todo \in [Actors -> Seq(Items)]
      BY <1>1, TypesOf DEF TypeInv, ThreadInv, TypeOK
    <2>2. x = todo[a][1] /\ x.key # NoKey
      BY <1>1, <1>2, <2>1, Taken DEF TypeInv, ThreadInv
    <2> QED BY <1>1, <1>2, <2>1, <2>2, Taken
  <1>4. RowFor(mode, db, x) /\ InTodo(x.key) /\ x.key \in DOMAIN db
    BY <1>3 DEF KeyInv, RowsInv, TodoRows, InTodo, RowFor
  <1>5. /\ ~InPool(x.key) /\ ~InOwn(x.key) /\ ~InGot(x.key)
    BY <1>4 DEF KeyInv, PlaceInv, Apart
  <1>6. \A b \in Actors : \A n \in DOMAIN todo'[b] : \E m \in DOMAIN todo[b] :
            /\ todo'[b][n] = todo[b][m] /\ (b = a => m # 1 /\ m = n + 1 /\ n \in Nat)
            /\ (b # a => m = n)
    BY <1>3
  <1>7. TodoRows' /\ \A k : k # NoKey /\ InTodo(k)' => InTodo(k) /\ k # x.key
    <2>1. TodoRows'
      <3> SUFFICES ASSUME NEW b \in Actors, NEW n \in DOMAIN todo'[b]
                   PROVE  IF todo'[b][n].key = NoKey
                          THEN mode = "upload" => /\ todo'[b][n].range.inclStart
                                                  /\ todo'[b][n].range.inclEnd
                          ELSE RowFor(mode, db, todo'[b][n])
        BY <1>1 DEF TodoRows, NoKey
      <3>1. PICK m \in DOMAIN todo[b] : todo'[b][n] = todo[b][m]
        BY <1>6
      <3> QED BY <3>1 DEF KeyInv, RowsInv, TodoRows
    <2>2. ASSUME NEW k, k # NoKey, InTodo(k)' PROVE InTodo(k) /\ k # x.key
      <3>0. PICK b \in Actors : \E n \in DOMAIN todo'[b] : todo'[b][n].key = k
        BY <2>2 DEF InTodo
      <3>1. PICK n \in DOMAIN todo'[b] : todo'[b][n].key = k
        BY <3>0
      <3>2. PICK m \in DOMAIN todo[b] : todo[b][m].key = k /\ (b = a => m # 1)
        BY <1>6, <3>1
      <3>3. k # x.key
        BY <1>3, <2>2, <3>2 DEF KeyInv, PlaceInv, TodoOnce
      <3> QED BY <3>2, <3>3 DEF InTodo
    <2> QED BY <2>1, <2>2
  <1>8. TodoOnce'
    <2> SUFFICES ASSUME NEW b \in Actors, NEW c \in Actors,
                        NEW n \in DOMAIN todo'[b], NEW m \in DOMAIN todo'[c],
                        todo'[b][n].key = todo'[c][m].key, todo'[b][n].key # NoKey
                 PROVE  b = c /\ n = m
      BY DEF TodoOnce, NoKey
    <2>1. PICK i \in DOMAIN todo[b] :
            /\ todo'[b][n] = todo[b][i] /\ (b = a => i # 1 /\ i = n + 1 /\ n \in Nat)
            /\ (b # a => i = n)
      BY <1>6
    <2>2. PICK j \in DOMAIN todo[c] :
            /\ todo'[c][m] = todo[c][j] /\ (c = a => j # 1 /\ j = m + 1 /\ m \in Nat)
            /\ (c # a => j = m)
      BY <1>6
    <2>3. b = c /\ i = j
      BY <2>1, <2>2 DEF KeyInv, PlaceInv, TodoOnce
    <2> QED BY <2>1, <2>2, <2>3
  <1>9. PoolRows' /\ PoolOnce' /\ \A k : InPool(k)' => InPool(k) \/ k = x.key
    BY <1>1, <1>3, <1>4, <1>5 DEF KeyInv, RowsInv, PoolRows, PlaceInv, PoolOnce, InPool
  <1>10. OwnRows' /\ OwnOnce' /\ \A k : InOwn(k)' <=> InOwn(k)
    BY <1>1 DEF KeyInv, RowsInv, OwnRows, PlaceInv, OwnOnce, InOwn
  <1>11. GotRows' /\ GotOnce' /\ \A k : InGot(k)' <=> InGot(k)
    BY <1>1 DEF KeyInv, RowsInv, GotRows, PlaceInv, GotOnce, InGot, IsGot
  <1>12. Apart'
    BY <1>1, <1>4, <1>5, <1>7, <1>9, <1>10, <1>11, KeysHere DEF KeyInv, PlaceInv, Apart
  <1>13. ASSUME NEW k, Held(k)' PROVE Held(k)
    <2>1. CASE k = NoKey
      <3>1. CASE InTodo(k)'
        <4>0. PICK b \in Actors : \E n \in DOMAIN todo'[b] : todo'[b][n].key = k
          BY <3>1 DEF InTodo
        <4>1. PICK n \in DOMAIN todo'[b] : todo'[b][n].key = k
          BY <4>0
        <4> QED BY <1>6, <4>1 DEF InTodo, Held
      <3> QED BY <1>4, <1>9, <1>10, <1>11, <1>13, <3>1 DEF Held
    <2>2. CASE k # NoKey
      BY <1>4, <1>7, <1>9, <1>10, <1>11, <1>13, <2>2 DEF Held
    <2> QED BY <2>1, <2>2
  <1> QED BY <1>7, <1>8, <1>9, <1>10, <1>11, <1>12, <1>13 DEF KeyInv, RowsInv, PlaceInv

LEMMA MarkAsTransferringKeys ==
  ASSUME TypeInv, KeyInv, NEW w \in Workers, MarkAsTransferring(w)
  PROVE  KeyInv' /\ \A k : Held(k)' => Held(k)
  <1>1. PICK x \in pool, mine \in Items :
            /\ mine.state = "GETTING" /\ mine.key = x.key /\ mine.range = x.range
            /\ app = "running" /\ pc[w] = "idle" /\ w \notin waiting
            /\ pool' = pool \ {x}
            /\ own' = [own EXCEPT ![w] = mine] /\ own'[w] = mine
            /\ messages' = Append(messages, Message(w, mine, {}))
            /\ waiting' = waiting \cup {w} /\ pc' = [pc EXCEPT ![w] = "transfer"]
            /\ UNCHANGED <<mode, arrived, disk, db, ops, stored, todo, sent,
                           app, error, toSend, code, runs, lost>>
    BY MarkAsTransferringShape
  <1>2. RowFor(mode, db, x) /\ RowFor(mode, db, mine) /\ InPool(x.key) /\ x.key \in DOMAIN db
    BY <1>1 DEF KeyInv, RowsInv, PoolRows, RowFor, InPool
  <1>3. ~InTodo(x.key) /\ ~InOwn(x.key) /\ ~InGot(x.key)
    BY <1>2 DEF KeyInv, PlaceInv, Apart
  <1>4. /\ \A u \in Workers : u # w => own'[u] = own[u]
        /\ \A n \in DOMAIN messages' : IsGot(messages'[n]) =>
               n \in DOMAIN messages /\ messages'[n] = messages[n]
        /\ \A n \in DOMAIN messages : n \in DOMAIN messages' /\ messages'[n] = messages[n]
    <2>1. w \in Actors \cup {Nobody} /\ {} \in SUBSET Wanted /\ TypeOK
      BY Names DEF TypeInv
    <2>2. PICK k : k = Len(messages) + 1
      OBVIOUS
    <2>3. /\ DOMAIN messages' = DOMAIN messages \cup {k} /\ messages'[k].item = mine
          /\ \A n \in DOMAIN messages : messages'[n] = messages[n]
      BY <1>1, <2>1, <2>2, NoteSent
    <2> QED BY <1>1, <2>1, <2>3 DEF IsGot, TypeOK
  <1>5. TodoRows' /\ TodoOnce' /\ \A k : InTodo(k)' <=> InTodo(k)
    BY <1>1 DEF KeyInv, RowsInv, TodoRows, PlaceInv, TodoOnce, InTodo
  <1>6. PoolRows' /\ PoolOnce' /\ \A k : InPool(k)' => InPool(k) /\ k # x.key
    BY <1>1 DEF KeyInv, RowsInv, PoolRows, PlaceInv, PoolOnce, InPool
  <1>7. OwnRows' /\ OwnOnce'
    BY <1>1, <1>2, <1>3, <1>4 DEF KeyInv, RowsInv, OwnRows, PlaceInv, OwnOnce, InOwn
  <1>8. \A k : InOwn(k)' => InOwn(k) \/ k = x.key
    BY <1>1, <1>4 DEF InOwn
  <1>9. GotRows' /\ GotOnce' /\ \A k : InGot(k)' <=> InGot(k)
    BY <1>1, <1>4 DEF KeyInv, RowsInv, GotRows, PlaceInv, GotOnce, InGot, IsGot
  <1>10. Apart'
    BY <1>1, <1>2, <1>3, <1>5, <1>6, <1>8, <1>9 DEF KeyInv, PlaceInv, Apart
  <1>11. \A k : Held(k)' => Held(k)
    BY <1>2, <1>5, <1>6, <1>8, <1>9 DEF Held
  <1> QED BY <1>5, <1>6, <1>7, <1>9, <1>10, <1>11 DEF KeyInv, RowsInv, PlaceInv

LEMMA ReputKeys ==
  ASSUME TypeInv, KeyInv, NEW w \in Workers, Reput(w)
  PROVE  KeyInv' /\ \A k : k # NoKey /\ Held(k)' => Held(k)
  <1>1. /\ pc[w] = "reput" /\ pool' = pool \cup {own[w]}
        /\ own' = [own EXCEPT ![w] = Idle]
        /\ UNCHANGED <<mode, db, messages, todo>>
    BY DEF Reput, Ready, dbVars
  <1>2. /\ own'[w] = Idle /\ Idle.key = NoKey
        /\ \A u \in Workers : u # w => own'[u] = own[u]
    BY <1>1, IdleItem DEF TypeInv, TypeOK
  <1>3. PICK x : x = own[w]
    OBVIOUS
  <1>4. /\ x.key # NoKey /\ RowFor(mode, db, x) /\ InOwn(x.key) /\ x.key \in DOMAIN db
    BY <1>1, <1>3 DEF TypeInv, ThreadInv, Holding, KeyInv, RowsInv, OwnRows, RowFor, InOwn
  <1>5. ~InTodo(x.key) /\ ~InPool(x.key) /\ ~InGot(x.key)
    BY <1>4 DEF KeyInv, PlaceInv, Apart
  <1>6. TodoRows' /\ TodoOnce' /\ \A k : InTodo(k)' <=> InTodo(k)
    BY <1>1 DEF KeyInv, RowsInv, TodoRows, PlaceInv, TodoOnce, InTodo
  <1>7. PoolRows' /\ PoolOnce' /\ \A k : InPool(k)' => InPool(k) \/ k = x.key
    BY <1>1, <1>3, <1>4, <1>5 DEF KeyInv, RowsInv, PoolRows, PlaceInv, PoolOnce, InPool
  <1>8. OwnRows' /\ OwnOnce'
    BY <1>1, <1>2 DEF KeyInv, RowsInv, OwnRows, PlaceInv, OwnOnce
  <1>9. \A k : k # NoKey /\ InOwn(k)' => InOwn(k) /\ k # x.key
    BY <1>1, <1>2, <1>3 DEF KeyInv, PlaceInv, OwnOnce, InOwn
  <1>10. GotRows' /\ GotOnce' /\ \A k : InGot(k)' <=> InGot(k)
    BY <1>1 DEF KeyInv, RowsInv, GotRows, PlaceInv, GotOnce, InGot, IsGot
  <1>11. Apart'
    BY <1>1, <1>4, <1>5, <1>6, <1>7, <1>9, <1>10, KeysHere DEF KeyInv, PlaceInv, Apart
  <1>12. \A k : k # NoKey /\ Held(k)' => Held(k)
    BY <1>4, <1>6, <1>7, <1>9, <1>10 DEF Held
  <1> QED BY <1>6, <1>7, <1>8, <1>10, <1>11, <1>12 DEF KeyInv, RowsInv, PlaceInv

\* A worker hands its item over as GOT; what it adds has no row yet.
LEMMA GotSentKeys ==
  ASSUME TypeInv, KeyInv, NEW w \in Workers, NEW a \in Actors \cup {Nobody},
         NEW item \in Items, NEW entities \in SUBSET Wanted, NEW s,
         pc[w] = "transfer",
         item.state = "GOT", item.key = own[w].key, item.range = own[w].range,
         entities \subseteq Within(own[w].range),
         messages' = Append(messages, Message(a, item, entities)),
         own' = [own EXCEPT ![w] = Idle], todo' = [todo EXCEPT ![w] = s],
         todo[w] = <<>>,
         s # <<>> => mode # "upload",
         \A n \in DOMAIN s : s[n].key = NoKey,
         UNCHANGED <<mode, db, pool>>
  PROVE  KeyInv' /\ \A k : k # NoKey /\ Held(k)' => Held(k)
  <1>1. PICK x : x = own[w]
    OBVIOUS
  <1>2. /\ own'[w] = Idle /\ Idle.key = NoKey
        /\ \A u \in Workers : u # w => own'[u] = own[u]
        /\ w \in Actors /\ todo'[w] = s /\ \A b \in Actors : b # w => todo'[b] = todo[b]
    BY IdleItem, Names DEF TypeInv, TypeOK
  <1>3. /\ x.key # NoKey /\ RowFor(mode, db, x) /\ RowFor(mode, db, item)
        /\ InOwn(x.key) /\ x.key \in DOMAIN db /\ item.key = x.key
        /\ entities \subseteq Within(RowRange(db[x.key]))
    <2>1. x.key # NoKey
      BY <1>1 DEF TypeInv, ThreadInv, Holding
    <2>2. RowFor(mode, db, x) /\ InOwn(x.key)
      BY <1>1, <2>1 DEF KeyInv, RowsInv, OwnRows, InOwn
    <2>3. Within(own[w].range) \subseteq Within(RowRange(db[x.key]))
      <3>1. /\ x.range.kind = RowRange(db[x.key]).kind
            /\ \A n \in 1 .. Size : Has(x.range, n) => Has(RowRange(db[x.key]), n)
        BY <2>2 DEF RowFor, RowRange, KeyRange, Has
      <3>2. \A e \in Within(x.range) : e \in Within(RowRange(db[x.key]))
        BY <3>1, InWithin
      <3> QED BY <1>1, <3>2
    <2> QED BY <1>1, <2>1, <2>2, <2>3 DEF RowFor
  <1>4. ~InTodo(x.key) /\ ~InPool(x.key) /\ ~InGot(x.key)
    BY <1>3 DEF KeyInv, PlaceInv, Apart
  <1>5. PICK k : k = Len(messages) + 1
    OBVIOUS
  <1>6. /\ DOMAIN messages' = DOMAIN messages \cup {k} /\ k \notin DOMAIN messages
        /\ messages'[k].item = item /\ messages'[k].entities = entities
        /\ \A n \in DOMAIN messages : messages'[n] = messages[n]
    BY <1>5, NoteSent DEF TypeInv
  <1>7. TodoRows' /\ TodoOnce' /\ \A i : i # NoKey /\ InTodo(i)' => InTodo(i)
    <2>1. \A b \in Actors : \A n \in DOMAIN todo'[b] :
             \/ todo'[b][n].key = NoKey /\ mode # "upload"
             \/ n \in DOMAIN todo[b] /\ todo'[b][n] = todo[b][n]
      BY <1>2
    <2>2. TodoRows'
      <3> SUFFICES ASSUME NEW b \in Actors, NEW n \in DOMAIN todo'[b]
                   PROVE  IF todo'[b][n].key = NoKey
                          THEN mode = "upload" => /\ todo'[b][n].range.inclStart
                                                  /\ todo'[b][n].range.inclEnd
                          ELSE RowFor(mode, db, todo'[b][n])
        BY DEF TodoRows, NoKey
      <3> QED BY <2>1 DEF KeyInv, RowsInv, TodoRows
    <2>3. TodoOnce'
      BY <2>1 DEF KeyInv, PlaceInv, TodoOnce, NoKey
    <2> QED BY <2>1, <2>2, <2>3 DEF InTodo
  <1>8. PoolRows' /\ PoolOnce' /\ \A i : InPool(i)' <=> InPool(i)
    BY DEF KeyInv, RowsInv, PoolRows, PlaceInv, PoolOnce, InPool
  <1>9. OwnRows' /\ OwnOnce'
    BY <1>2 DEF KeyInv, RowsInv, OwnRows, PlaceInv, OwnOnce
  <1>10. \A i : i # NoKey /\ InOwn(i)' => InOwn(i) /\ i # x.key
    BY <1>1, <1>2 DEF KeyInv, PlaceInv, OwnOnce, InOwn
  <1>11. GotRows' /\ GotOnce' /\ \A i : InGot(i)' => InGot(i) \/ i = x.key
    <2>1. GotRows'
      BY <1>3, <1>6 DEF KeyInv, RowsInv, GotRows, IsGot
    <2>2. GotOnce'
      BY <1>3, <1>4, <1>6 DEF KeyInv, PlaceInv, GotOnce, IsGot, InGot
    <2>3. \A i : InGot(i)' => InGot(i) \/ i = x.key
      BY <1>3, <1>6 DEF InGot, IsGot
    <2> QED BY <2>1, <2>2, <2>3
  <1>12. Apart'
    BY <1>3, <1>4, <1>7, <1>8, <1>10, <1>11, KeysHere DEF KeyInv, PlaceInv, Apart
  <1>13. \A i : i # NoKey /\ Held(i)' => Held(i)
    BY <1>3, <1>7, <1>8, <1>10, <1>11 DEF Held
  <1> QED BY <1>7, <1>8, <1>9, <1>11, <1>12, <1>13 DEF KeyInv, RowsInv, PlaceInv

LEMMA PostEntitiesShape ==
  ASSUME TypeInv, NEW w \in Workers, PostEntities(w)
  PROVE  \E item \in Items :
            /\ item.state = "GOT" /\ item.key = own[w].key /\ item.range = own[w].range
            /\ mode = "upload" /\ pc[w] = "transfer" /\ w \notin waiting /\ todo[w] = <<>>
            /\ arrived' = arrived \cup Within(own[w].range)
            /\ messages' = Append(messages, Message(Nobody, item, {}))
            /\ own' = [own EXCEPT ![w] = Idle] /\ pc' = [pc EXCEPT ![w] = "idle"]
            /\ UNCHANGED <<mode, disk, db, ops, stored, waiting, pool, todo, sent,
                           app, error, toSend, code, runs, lost>>
  <1>1. PICK item : item = [own[w] EXCEPT !.state = "GOT"]
    OBVIOUS
  <1>2. own[w] \in Items /\ "GOT" \in States
    BY TypesOf DEF TypeInv, States
  <1>3. /\ item \in Items /\ item.state = "GOT" /\ item.key = own[w].key
        /\ item.range = own[w].range
    BY <1>1, <1>2, WithStateOf
  <1>4. todo[w] = <<>>
    BY DEF PostEntities, TypeInv, ThreadInv
  <1>5. /\ mode = "upload" /\ pc[w] = "transfer" /\ w \notin waiting
        /\ arrived' = arrived \cup Within(own[w].range)
        /\ messages' = Append(messages, Message(Nobody, item, {}))
        /\ own' = [own EXCEPT ![w] = Idle] /\ pc' = [pc EXCEPT ![w] = "idle"]
        /\ UNCHANGED <<mode, disk, db, ops, stored, waiting, pool, todo, sent,
                       app, error, toSend, code, runs, lost>>
    BY <1>1 DEF PostEntities, Posted, Ready, dbVars, appVars
  <1> QED BY <1>3, <1>4, <1>5

LEMMA PostEntitiesKeys ==
  ASSUME TypeInv, KeyInv, NEW w \in Workers, PostEntities(w)
  PROVE  KeyInv' /\ \A k : k # NoKey /\ Held(k)' => Held(k)
  <1>1. PICK item \in Items :
            /\ item.state = "GOT" /\ item.key = own[w].key /\ item.range = own[w].range
            /\ mode = "upload" /\ pc[w] = "transfer" /\ w \notin waiting /\ todo[w] = <<>>
            /\ arrived' = arrived \cup Within(own[w].range)
            /\ messages' = Append(messages, Message(Nobody, item, {}))
            /\ own' = [own EXCEPT ![w] = Idle] /\ pc' = [pc EXCEPT ![w] = "idle"]
            /\ UNCHANGED <<mode, disk, db, ops, stored, waiting, pool, todo, sent,
                           app, error, toSend, code, runs, lost>>
    BY PostEntitiesShape
  <1>2. todo' = [todo EXCEPT ![w] = <<>>]
    BY <1>1, Names DEF TypeInv, TypeOK
  <1>3. PICK s : s = <<>>
    OBVIOUS
  <1>4. todo' = [todo EXCEPT ![w] = s] /\ (s # <<>> => mode # "upload")
        /\ \A n \in DOMAIN s : s[n].key = NoKey
    BY <1>2, <1>3
  <1>5. PICK none : none = {}
    OBVIOUS
  <1>6. none \in SUBSET Wanted /\ none \subseteq Within(own[w].range)
        /\ messages' = Append(messages, Message(Nobody, item, none))
    BY <1>1, <1>5
  <1>7. PICK a \in Actors \cup {Nobody} : a = Nobody
    OBVIOUS
  <1>8. messages' = Append(messages, Message(a, item, none))
    BY <1>6, <1>7
  <1>9. /\ item.state = "GOT" /\ item.key = own[w].key /\ item.range = own[w].range
        /\ own' = [own EXCEPT ![w] = Idle] /\ pc[w] = "transfer" /\ todo[w] = <<>>
        /\ UNCHANGED <<mode, db, pool>>
    BY <1>1
  <1> QED BY <1>4, <1>6, <1>8, <1>9, GotSentKeys

LEMMA GetEntitiesKeys ==
  ASSUME TypeInv, KeyInv, NEW w \in Workers, GetEntities(w)
  PROVE  KeyInv' /\ \A k : k # NoKey /\ Held(k)' => Held(k)
  <1>1. PICK item \in Items, entities \in SUBSET Wanted, s \in Seq(Items), where \in {"add", "idle"} :
            /\ item.state = "GOT" /\ item.key = own[w].key /\ item.range = own[w].range
            /\ mode = "download" /\ pc[w] = "transfer" /\ w \notin waiting
            /\ messages' = Append(messages, Message(w, item, entities))
            /\ waiting' = waiting \cup {w} /\ pc' = [pc EXCEPT ![w] = where]
            /\ own' = [own EXCEPT ![w] = Idle] /\ todo' = [todo EXCEPT ![w] = s]
            /\ s = <<>> <=> where = "idle"
            /\ \A n \in DOMAIN s : /\ s[n].state = "READ" /\ s[n].key = NoKey
                                   /\ s[n].range.kind = own[w].range.kind
            /\ entities \subseteq Within(own[w].range)
            /\ \A e \in Within(own[w].range) :
                   e \in entities \/ \E n \in DOMAIN s : e \in Within(s[n].range)
            /\ UNCHANGED <<mode, arrived, disk, db, ops, stored, pool, sent,
                           app, error, toSend, code, runs, lost>>
    BY GetEntitiesShape
  <1>2. w \in Actors \cup {Nobody} /\ todo[w] = <<>>
    BY <1>1, Names DEF TypeInv, ThreadInv
  <1>3. \A n \in DOMAIN s : s[n].key = NoKey
    BY <1>1
  <1> QED BY <1>1, <1>2, <1>3, GotSentKeys

\* A step after which the rows say the same, whatever else it does.
LEMMA SameRows ==
  ASSUME db' = db PROVE RowsSay(NoKey) /\ DOMAIN db' = DOMAIN db
  BY DEF RowsSay

LEMMA KeysStill ==
  ASSUME TypeInv, KeyInv, mode' = mode, db' = db, todo' = todo, pool' \subseteq pool,
         \A w \in Workers : own'[w].key = own[w].key /\ own'[w].range = own[w].range,
         \A n \in DOMAIN messages' : IsGot(messages'[n]) =>
             n \in DOMAIN messages /\ messages'[n] = messages[n]
  PROVE  KeyInv' /\ \A k : Held(k)' => Held(k)
  <1>1. RowsSay(NoKey) /\ DOMAIN db' = DOMAIN db
    BY SameRows
  <1>2. \A n \in DOMAIN messages : n \in Nat /\ n + 0 = n
    BY NotesOf DEF TypeInv
  <1>3. \A n \in DOMAIN messages' : IsGot(messages'[n]) =>
            n \in Nat /\ n + 0 \in DOMAIN messages /\ messages'[n] = messages[n + 0]
    BY <1>2
  <1>4. 0 \in {0, 1}
    OBVIOUS
  <1> QED BY <1>1, <1>3, <1>4, KeysKept

LEMMA MarkAsReadKeys ==
  ASSUME TypeInv, KeyInv, NEW a \in Actors, MarkAsRead(a)
  PROVE  KeyInv' /\ \A k : Held(k)' => Held(k)
  <1>1. PICK item : item = Head(todo[a])
    OBVIOUS
  <1>2. /\ messages' = Append(messages, Message(a, item, {}))
        /\ todo[a] # <<>> /\ UNCHANGED <<mode, db, pool, todo, own>>
    BY <1>1 DEF MarkAsRead, Blocking, dbVars
  <1>3. item \in Items /\ item.state = "READ"
    <2>1. todo[a] \in Seq(Items)
      BY TypesOf DEF TypeInv
    <2>2. item \in Items /\ item = todo[a][1] /\ 1 \in DOMAIN todo[a]
      BY <1>1, <1>2, <2>1, Taken
    <2> QED BY <2>2 DEF TypeInv, ItemInv
  <1>4. PICK k : k = Len(messages) + 1
    OBVIOUS
  <1>5. /\ DOMAIN messages' = DOMAIN messages \cup {k} /\ messages'[k].item = item
        /\ \A n \in DOMAIN messages : messages'[n] = messages[n]
    <2>1. a \in Actors \cup {Nobody} /\ {} \in SUBSET Wanted /\ TypeOK
      BY DEF TypeInv
    <2> QED BY <1>2, <1>3, <1>4, <2>1, NoteSent
  <1>6. \A n \in DOMAIN messages' : IsGot(messages'[n]) =>
            n \in DOMAIN messages /\ messages'[n] = messages[n]
    BY <1>3, <1>5 DEF IsGot
  <1> QED BY <1>2, <1>6, KeysStill

LEMMA MarkAsErrorKeys ==
  ASSUME TypeInv, KeyInv, NEW w \in Workers, MarkAsError(w)
  PROVE  KeyInv' /\ \A k : Held(k)' => Held(k)
  <1>1. PICK mine \in Items, where \in {"reput", "dead"} :
            /\ mine.state = "ERROR" /\ mine.key = own[w].key /\ mine.range = own[w].range
            /\ pc[w] = "transfer" /\ w \notin waiting
            /\ own' = [own EXCEPT ![w] = mine] /\ own'[w] = mine
            /\ messages' = Append(messages, Message(w, mine, {}))
            /\ waiting' = waiting \cup {w} /\ pc' = [pc EXCEPT ![w] = where]
            /\ \/ arrived' = arrived
               \/ mode = "upload" /\ arrived' = arrived \cup Within(own[w].range)
            /\ UNCHANGED <<mode, disk, db, ops, stored, pool, todo, sent,
                           app, error, toSend, code, runs, lost>>
    BY MarkAsErrorShape
  <1>2. PICK k : k = Len(messages) + 1
    OBVIOUS
  <1>3. /\ DOMAIN messages' = DOMAIN messages \cup {k} /\ messages'[k].item = mine
        /\ \A n \in DOMAIN messages : messages'[n] = messages[n]
    <2>1. w \in Actors \cup {Nobody} /\ {} \in SUBSET Wanted /\ TypeOK
      BY Names DEF TypeInv
    <2> QED BY <1>1, <1>2, <2>1, NoteSent
  <1>4. \A n \in DOMAIN messages' : IsGot(messages'[n]) =>
            n \in DOMAIN messages /\ messages'[n] = messages[n]
    BY <1>1, <1>3 DEF IsGot
  <1>5. \A u \in Workers : own'[u].key = own[u].key /\ own'[u].range = own[u].range
    BY <1>1 DEF TypeInv, TypeOK
  <1> QED BY <1>1, <1>4, <1>5, KeysStill

\* The first message goes, and the row of its item may be closed.
LEMMA RowChangedKeys ==
  ASSUME TypeInv, KeyInv, messages # <<>>, NEW state \in States \cup {"deleted"},
         db' = [db EXCEPT ![messages[1].item.key].state = state],
         messages' = Tail(messages), UNCHANGED <<mode, pool, todo, own>>,
         state \in {"GOT", "deleted"} => IsGot(messages[1])
  PROVE  KeyInv' /\ \A k : Held(k)' => Held(k)
  <1>1. PICK c : c = IF state \in {"GOT", "deleted"} THEN messages[1].item.key ELSE NoKey
    OBVIOUS
  <1>2. PICK key : key = messages[1].item.key
    OBVIOUS
  <1>3. /\ DOMAIN db' = DOMAIN db
        /\ \A n \in DOMAIN db : n # key => db'[n] = db[n]
        /\ \A n \in DOMAIN db : /\ db'[n].kind = db[n].kind /\ db'[n].start = db[n].start
                                /\ db'[n].end = db[n].end
        /\ key \in DOMAIN db => db'[key].state = state
    BY <1>2, RowChanged DEF TypeInv, TypeOK
  <1>4. RowsSay(c)
    BY <1>1, <1>2, <1>3 DEF RowsSay, Open
  <1>5. \A n \in DOMAIN messages' : IsGot(messages'[n]) =>
            n \in Nat /\ n + 1 \in DOMAIN messages /\ messages'[n] = messages[n + 1]
    BY FirstOf
  <1>6. ASSUME c # NoKey PROVE ~InTodo(c) /\ ~InPool(c) /\ ~InOwn(c) /\ ~InGot(c)'
    <2>1. IsGot(messages[1]) /\ c = messages[1].item.key /\ 1 \in DOMAIN messages
      BY <1>1, <1>6, FirstOf
    <2>2. InGot(c) /\ c \in DOMAIN db
      BY <2>1, KeysHere DEF InGot
    <2>3. ~InGot(c)'
      <3> SUFFICES ASSUME NEW n \in DOMAIN messages', IsGot(messages'[n]),
                          messages'[n].item.key = c
                   PROVE  FALSE
        BY DEF InGot, IsGot
      <3>1. n + 1 \in DOMAIN messages /\ n + 1 # 1 /\ messages'[n] = messages[n + 1]
        BY FirstOf
      <3> QED BY <2>1, <3>1 DEF KeyInv, PlaceInv, GotOnce
    <2> QED BY <2>2, <2>3 DEF KeyInv, PlaceInv, Apart
  <1>7. /\ pool' \subseteq pool /\ 1 \in {0, 1}
        /\ \A w \in Workers : own'[w].key = own[w].key /\ own'[w].range = own[w].range
    OBVIOUS
  <1> QED BY <1>3, <1>4, <1>5, <1>6, <1>7, KeysKept

LEMMA UpdateStateKeys ==
  ASSUME TypeInv, KeyInv, UpdateState PROVE KeyInv' /\ \A k : Held(k)' => Held(k)
  <1>1. PICK state : state = messages[1].item.state
    OBVIOUS
  <1>2. /\ messages # <<>> /\ state \in States
        /\ db' = [db EXCEPT ![messages[1].item.key].state = state]
        /\ messages' = Tail(messages) /\ UNCHANGED <<mode, pool, todo, own>>
    BY <1>1, UpdateStateShape DEF Acknowledge
  <1>3. state \in {"GOT", "deleted"} => IsGot(messages[1])
    BY <1>1, <1>2 DEF IsGot, States
  <1>4. state \in States \cup {"deleted"}
    BY <1>2
  <1> QED BY <1>2, <1>3, <1>4, RowChangedKeys

LEMMA DeleteKeyKeys ==
  ASSUME TypeInv, KeyInv, DeleteKey PROVE KeyInv' /\ \A k : Held(k)' => Held(k)
  <1>1. PICK state : state = "deleted"
    OBVIOUS
  <1>2. /\ messages # <<>> /\ IsGot(messages[1])
        /\ db' = [db EXCEPT ![messages[1].item.key].state = state]
        /\ messages' = Tail(messages) /\ UNCHANGED <<mode, pool, todo, own>>
    BY <1>1, DeleteKeyShape DEF Acknowledge, IsGot
  <1>3. state \in States \cup {"deleted"}
    BY <1>1
  <1> QED BY <1>2, <1>3, RowChangedKeys

\* A row is added for the first item of a thread, and nobody else has its id.
LEMMA StoreKeysKeys ==
  ASSUME TypeInv, KeyInv, StoreKeys
  PROVE  /\ KeyInv' /\ DOMAIN db \subseteq DOMAIN db'
         /\ \A k : k # NoKey /\ Held(k)' => Held(k) \/ k \notin DOMAIN db
         /\ \A k : Held(k) /\ k # NoKey => Held(k)'
         /\ \A k \in DOMAIN db' : k \notin DOMAIN db => Held(k)'
  <1>1. PICK a \in Actors, row \in Rows, x \in Items :
            /\ a = messages[1].from /\ a \in waiting /\ pc[a] = "submit"
            /\ todo[a] \in Seq(Items) /\ todo[a] # <<>> /\ 1 \in DOMAIN todo[a]
            /\ messages # <<>> /\ messages[1].item.state = "READ" /\ messages[1].item.key = NoKey
            /\ messages[1].item = todo[a][1]
            /\ row.kind = todo[a][1].range.kind /\ row.start = todo[a][1].range.start
            /\ row.end = todo[a][1].range.end /\ row.state = "READ"
            /\ row.kind \in Kinds
            /\ db' = Append(db, row)
            /\ x.range = todo[a][1].range /\ x.state = "READ" /\ x.key = Len(db) + 1
            /\ Len(db) + 1 \in Nat /\ Len(db) + 1 # NoKey
            /\ todo' = [todo EXCEPT ![a] = [todo[a] EXCEPT ![1] = x]]
            /\ MaybeCommit /\ Acknowledge
            /\ UNCHANGED <<mode, arrived, stored, pool, own, pc, sent,
                           app, error, toSend, code, runs, lost>>
    BY StoreKeysShape
  <1>2. PICK new : new = Len(db) + 1
    OBVIOUS
  <1>3. /\ DOMAIN db' = DOMAIN db \cup {new} /\ new \notin DOMAIN db /\ db'[new] = row
        /\ \A n \in DOMAIN db : db'[n] = db[n]
        /\ x.key = new /\ new # NoKey
    <2>1. db \in Seq(Rows)
      BY DEF TypeInv, TypeOK
    <2> QED BY <1>1, <1>2, <2>1, Appended
  <1>4. /\ todo'[a][1] = x /\ DOMAIN todo'[a] = DOMAIN todo[a]
        /\ \A n \in DOMAIN todo[a] : n # 1 => todo'[a][n] = todo[a][n]
        /\ \A b \in Actors : b # a => todo'[b] = todo[b]
    BY <1>1 DEF TypeInv, TypeOK
  <1>5. \A n \in DOMAIN messages' : n \in Nat /\ n # 0 /\ n + 1 # 1
            /\ n + 1 \in DOMAIN messages /\ messages'[n] = messages[n + 1]
    BY <1>1, FirstOf DEF Acknowledge
  <1>6. \A k : k # NoKey /\ Held(k) => k # new
    BY <1>3, KeysHere
  <1>7. \A y : RowFor(mode, db, y) => RowFor(mode, db', y)
    BY <1>3 DEF RowFor, Open
  <1>8. RowFor(mode, db', x)
    BY <1>1, <1>3, <1>4 DEF RowFor, Open, KeyInv, RowsInv, TodoRows
  <1>9. \A b \in Actors : \A n \in DOMAIN todo'[b] :
            \/ n \in DOMAIN todo[b] /\ todo'[b][n] = todo[b][n] /\ ~ (b = a /\ n = 1)
            \/ b = a /\ n = 1 /\ todo'[b][n] = x
    BY <1>4
  <1>10. TodoRows'
    <2> SUFFICES ASSUME NEW b \in Actors, NEW n \in DOMAIN todo'[b]
                 PROVE  IF todo'[b][n].key = NoKey
                        THEN mode = "upload" => /\ todo'[b][n].range.inclStart
                                                /\ todo'[b][n].range.inclEnd
                        ELSE RowFor(mode, db', todo'[b][n])
      BY <1>1 DEF TodoRows, NoKey
    <2>1. CASE n \in DOMAIN todo[b] /\ todo'[b][n] = todo[b][n]
      BY <1>7, <2>1 DEF KeyInv, RowsInv, TodoRows
    <2>2. CASE todo'[b][n] = x
      BY <1>3, <1>8, <2>2
    <2> QED BY <1>9, <2>1, <2>2
  <1>11. \A b \in Actors : \A n \in DOMAIN todo[b] :
             todo[b][n].key # NoKey => Held(todo[b][n].key)
    BY DEF Held, InTodo
  <1>12. TodoOnce'
    <2> SUFFICES ASSUME NEW b \in Actors, NEW c \in Actors,
                        NEW n \in DOMAIN todo'[b], NEW m \in DOMAIN todo'[c],
                        todo'[b][n].key = todo'[c][m].key, todo'[b][n].key # NoKey
                 PROVE  b = c /\ n = m
      BY DEF TodoOnce, NoKey
    <2>1. CASE todo'[b][n].key = new
      <3>1. \A e \in Actors : \A i \in DOMAIN todo[e] : todo[e][i].key # new
        BY <1>3, <1>6, <1>11
      <3>2. b = a /\ n = 1
        BY <1>9, <2>1, <3>1
      <3>3. c = a /\ m = 1
        BY <1>9, <2>1, <3>1
      <3> QED BY <3>2, <3>3
    <2>2. CASE todo'[b][n].key # new
      BY <1>3, <1>9, <2>2 DEF KeyInv, PlaceInv, TodoOnce
    <2> QED BY <2>1, <2>2
  <1>13. /\ \A k : k # NoKey /\ InTodo(k)' => InTodo(k) \/ k = new
         /\ \A k : k # NoKey /\ InTodo(k) => InTodo(k)'
         /\ InTodo(new)'
    <2>1. \A k : k # NoKey /\ InTodo(k)' => InTodo(k) \/ k = new
      BY <1>3, <1>9 DEF InTodo
    <2>2. ASSUME NEW k, k # NoKey, InTodo(k) PROVE InTodo(k)'
      <3>1. PICK b \in Actors : \E n \in DOMAIN todo[b] : todo[b][n].key = k
        BY <2>2 DEF InTodo
      <3>2. PICK n \in DOMAIN todo[b] : todo[b][n].key = k
        BY <3>1
      <3>3. ~ (b = a /\ n = 1)
        BY <1>1, <2>2, <3>2
      <3>4. n \in DOMAIN todo'[b] /\ todo'[b][n].key = k
        BY <1>4, <3>2, <3>3
      <3> QED BY <3>4 DEF InTodo
    <2>3. InTodo(new)'
      BY <1>1, <1>3, <1>4 DEF InTodo
    <2> QED BY <2>1, <2>2, <2>3
  <1>14. PoolRows' /\ PoolOnce' /\ \A k : InPool(k)' <=> InPool(k)
    BY <1>1, <1>7 DEF KeyInv, RowsInv, PoolRows, PlaceInv, PoolOnce, InPool
  <1>15. OwnRows' /\ OwnOnce' /\ \A k : InOwn(k)' <=> InOwn(k)
    BY <1>1, <1>7 DEF KeyInv, RowsInv, OwnRows, PlaceInv, OwnOnce, InOwn
  <1>16. GotRows'
    <2> SUFFICES ASSUME NEW n \in DOMAIN messages', IsGot(messages'[n])
                 PROVE  /\ RowFor(mode, db', messages'[n].item)
                        /\ messages'[n].entities
                               \subseteq Within(RowRange(db'[messages'[n].item.key]))
      BY <1>1 DEF GotRows, IsGot
    <2>1. /\ RowFor(mode, db, messages'[n].item)
          /\ messages'[n].entities \subseteq Within(RowRange(db[messages'[n].item.key]))
      BY <1>5 DEF KeyInv, RowsInv, GotRows
    <2>2. messages'[n].item.key \in DOMAIN db
      BY <2>1 DEF RowFor
    <2> QED BY <1>3, <1>7, <2>1, <2>2
  <1>17. GotOnce'
    <2> SUFFICES ASSUME NEW n \in DOMAIN messages', NEW m \in DOMAIN messages',
                        IsGot(messages'[n]), IsGot(messages'[m]),
                        messages'[n].item.key = messages'[m].item.key
                 PROVE  n = m
      BY DEF GotOnce, IsGot
    <2>1. n \in Nat /\ m \in Nat /\ n + 1 = m + 1
      BY <1>5 DEF KeyInv, PlaceInv, GotOnce
    <2> QED BY <2>1
  <1>18. \A k : InGot(k)' <=> InGot(k)
    <2>1. \A k : InGot(k)' => InGot(k)
      BY <1>5 DEF InGot, IsGot
    <2>2. ASSUME NEW k, InGot(k) PROVE InGot(k)'
      <3>1. PICK n \in DOMAIN messages : IsGot(messages[n]) /\ messages[n].item.key = k
        BY <2>2 DEF InGot
      <3>2. n # 1
        BY <1>1, <3>1 DEF IsGot
      <3>3. n - 1 \in DOMAIN messages' /\ messages'[n - 1] = messages[n]
        BY <1>1, <3>2, FirstOf DEF Acknowledge
      <3> QED BY <3>1, <3>3 DEF InGot, IsGot
    <2> QED BY <2>1, <2>2
  <1>19. Apart'
    <2>1. ~InPool(new) /\ ~InOwn(new) /\ ~InGot(new)
      BY <1>3, <1>6 DEF Held
    <2> QED BY <1>3, <1>13, <1>14, <1>15, <1>18, <2>1, KeysHere DEF KeyInv, PlaceInv, Apart
  <1>20. /\ \A k : k # NoKey /\ Held(k)' => Held(k) \/ k \notin DOMAIN db
         /\ \A k : Held(k) /\ k # NoKey => Held(k)'
         /\ \A k \in DOMAIN db' : k \notin DOMAIN db => Held(k)'
    BY <1>3, <1>13, <1>14, <1>15, <1>18 DEF Held
  <1> QED BY <1>3, <1>10, <1>12, <1>14, <1>15, <1>16, <1>17, <1>19, <1>20
          DEF KeyInv, RowsInv, PlaceInv

\* Nothing is in a place when no run is under way.
LEMMA KeysEmpty ==
  ASSUME pool = {}, messages = <<>>, \A a \in Actors : todo[a] = <<>>,
         \A w \in Workers : own[w] = Idle
  PROVE  KeyInv /\ \A k : k # NoKey => ~Held(k)
  <1>1. \A a \in Actors : DOMAIN todo[a] = {}
    OBVIOUS
  <1>2. DOMAIN messages = {} /\ Idle.key = NoKey
    BY IdleItem
  <1>3. RowsInv
    BY <1>1, <1>2 DEF RowsInv, TodoRows, PoolRows, OwnRows, GotRows
  <1>4. TodoOnce /\ PoolOnce /\ OwnOnce /\ GotOnce
    BY <1>1, <1>2 DEF TodoOnce, PoolOnce, OwnOnce, GotOnce
  <1>5. \A k : ~InTodo(k) /\ ~InPool(k) /\ ~InGot(k)
    BY <1>1, <1>2 DEF InTodo, InPool, InGot
  <1>6. \A k : k # NoKey => ~InOwn(k)
    BY <1>2 DEF InOwn
  <1> QED BY <1>3, <1>4, <1>5, <1>6 DEF KeyInv, PlaceInv, Apart, Held

LEMMA StartKeys == ASSUME TypeInv, Start PROVE KeyInv'
  <1>1. /\ messages = <<>> /\ pool = {} /\ disk = db /\ TypeOK /\ AtRest
        /\ mode \in Modes /\ disk \in Seq(Rows)
        /\ \A a \in Actors : todo[a] = <<>> /\ pc[a] = "ended"
    BY DEF TypeInv, RestInv, Start, AtRest, TypeOK
  <1>2. PICK s : s = Batches(runs > 0, disk)
    OBVIOUS
  <1>3. /\ todo' = [todo EXCEPT ![Source] = s]
        /\ UNCHANGED <<mode, db, disk, messages, pool, own>>
    BY <1>2 DEF Start, dbVars
  <1>4. /\ \A w \in Workers : own'[w] = Idle
        /\ todo'[Source] = s /\ \A a \in Actors : a # Source => DOMAIN todo'[a] = {}
    BY <1>1, <1>3, Names DEF TypeInv, TypeOK, ThreadInv, Holding
  <1>5. \A n \in DOMAIN s :
            /\ mode = "upload" => s[n].range.inclStart /\ s[n].range.inclEnd
            /\ \/ s[n].key = NoKey
               \/ /\ s[n].key \in DOMAIN disk /\ Open(disk, s[n].key) /\ s[n].key # NoKey
                  /\ s[n].range = RowRange(disk[s[n].key])
                  /\ \A m \in DOMAIN s : s[m].key = s[n].key => m = n
    <2>1. /\ s \in Seq(Items)
          /\ \A n \in DOMAIN s :
                /\ s[n].state = "READ"
                /\ mode = "upload" => s[n].range.inclStart /\ s[n].range.inclEnd
                /\ \/ /\ s[n].key = NoKey
                      /\ s[n].range.kind \in IF mode = "upload" THEN {1} ELSE 1 .. NumKinds
                   \/ /\ s[n].key \in DOMAIN disk /\ Open(disk, s[n].key) /\ s[n].key # NoKey
                      /\ s[n].range = RowRange(disk[s[n].key])
                      /\ \A m \in DOMAIN s : s[m].key = s[n].key => m = n
      BY <1>1, <1>2, BatchItems
    <2> QED BY <2>1
  <1>6. Idle.key = NoKey /\ DOMAIN messages' = {} /\ pool' = {} /\ disk' = db'
    BY <1>1, <1>3, IdleItem
  <1>7. TodoRows'
    <2> SUFFICES ASSUME NEW n \in DOMAIN s
                 PROVE  IF s[n].key = NoKey
                        THEN mode = "upload" => s[n].range.inclStart /\ s[n].range.inclEnd
                        ELSE RowFor(mode, db, s[n])
      BY <1>3, <1>4 DEF TodoRows, NoKey
    <2>1. CASE s[n].key = NoKey
      BY <1>5, <2>1
    <2>2. CASE s[n].key # NoKey
      <3>1. /\ s[n].key \in DOMAIN db /\ Open(db, s[n].key)
            /\ s[n].range = RowRange(db[s[n].key])
            /\ mode = "upload" => s[n].range.inclStart /\ s[n].range.inclEnd
        BY <1>1, <1>5, <2>2
      <3> QED BY <2>2, <3>1 DEF RowFor, RowRange, KeyRange
    <2> QED BY <2>1, <2>2
  <1>8. TodoOnce'
    BY <1>4, <1>5 DEF TodoOnce, NoKey
  <1>9. PoolRows' /\ OwnRows' /\ GotRows' /\ PoolOnce' /\ OwnOnce' /\ GotOnce'
    BY <1>4, <1>6 DEF PoolRows, OwnRows, GotRows, PoolOnce, OwnOnce, GotOnce, NoKey
  <1>10. \A k \in DOMAIN db' : k # NoKey
    BY <1>1, <1>3, TypesOf DEF NoKey
  <1>11. Apart'
    <2>1. \A k : ~InPool(k)' /\ ~InGot(k)' /\ (k # NoKey => ~InOwn(k)')
      BY <1>4, <1>6 DEF InPool, InGot, InOwn
    <2> QED BY <1>10, <2>1 DEF Apart
  <1> QED BY <1>7, <1>8, <1>9, <1>11 DEF KeyInv, RowsInv, PlaceInv

LEMMA EndedKeys ==
  ASSUME Ended, messages' = <<>> PROVE KeyInv' /\ \A k : k # NoKey => ~Held(k)'
  <1>1. /\ pool' = {} /\ todo' = [a \in Actors |-> <<>>] /\ own' = [w \in Workers |-> Idle]
    BY DEF Ended
  <1>2. /\ \A a \in Actors : DOMAIN todo'[a] = {} /\ todo'[a] = <<>>
        /\ \A w \in Workers : own'[w].key = NoKey /\ DOMAIN messages' = {}
    BY <1>1, IdleItem
  <1>3. RowsInv'
    BY <1>1, <1>2 DEF RowsInv, TodoRows, PoolRows, OwnRows, GotRows
  <1>4. TodoOnce' /\ PoolOnce' /\ OwnOnce' /\ GotOnce'
    BY <1>1, <1>2 DEF TodoOnce, PoolOnce, OwnOnce, GotOnce, NoKey
  <1>5. \A k : ~InTodo(k)' /\ ~InPool(k)' /\ ~InGot(k)'
    BY <1>1, <1>2 DEF InTodo, InPool, InGot
  <1>6. \A k : k # NoKey => ~InOwn(k)'
    BY <1>2 DEF InOwn
  <1> QED BY <1>3, <1>4, <1>5, <1>6 DEF KeyInv, PlaceInv, Apart, Held

LEMMA NextKeys == ASSUME TypeInv, KeyInv, [Next]_vars PROVE KeyInv'
  <1>1. CASE Start
    BY <1>1, StartKeys
  <1>2. CASE Crash
    BY <1>2, EndedKeys DEF Crash
  <1>3. ASSUME ShutdownThreads PROVE KeyInv'
    <2>1. /\ UNCHANGED <<mode, db, todo, own, messages>> /\ pool' \subseteq pool
      BY <1>3 DEF ShutdownThreads, dbVars
    <2> QED BY <2>1, KeysStill
  <1>4. ASSUME NEW a \in Actors, Adds(a) PROVE KeyInv'
    BY <1>4, MarkAsReadKeys, SubmitItemKeys DEF Adds
  <1>5. CASE SourceStep
    <2>1. CASE SourceExits
      <3>1. UNCHANGED <<mode, db, todo, own, messages, pool>>
        BY <2>1 DEF SourceExits, dbVars
      <3> QED BY <3>1, KeysStill
    <2> QED BY <1>4, <1>5, <2>1, Names DEF SourceStep
  <1>6. ASSUME NEW w \in Workers, WorkerStep(w) PROVE KeyInv'
    BY <1>4, <1>6, Names, MarkAsTransferringKeys, PostEntitiesKeys, GetEntitiesKeys,
       MarkAsErrorKeys, ReputKeys DEF WorkerStep, Transfers
  <1>7. CASE ProgressStep
    <2>1. CASE StoreEntities
      <3>1. UNCHANGED <<mode, db, todo, own, messages, pool>>
        BY <2>1 DEF StoreEntities, threadVars
      <3> QED BY <3>1, KeysStill
    <2> QED BY <1>7, <2>1, StoreKeysKeys, UpdateStateKeys, DeleteKeyKeys DEF ProgressStep
  <1>8. CASE MainStep
    <2>1. CASE QueueJoined \/ ThreadsJoined
      <3>1. UNCHANGED <<mode, db, todo, own, messages, pool>>
        BY <2>1 DEF QueueJoined, ThreadsJoined, dbVars, threadVars
      <3> QED BY <3>1, KeysStill
    <2>2. CASE Return
      BY <2>2, EndedKeys DEF Return
    <2> QED BY <1>3, <1>8, <2>1, <2>2, SeesDeathShutsDown DEF MainStep
  <1>9. CASE UNCHANGED vars
    <2>1. UNCHANGED <<mode, db, todo, own, messages, pool>>
      BY <1>9 DEF vars, dbVars, threadVars
    <2> QED BY <2>1, KeysStill
  <1>10. CASE Interrupt
    BY <1>3, <1>10 DEF Interrupt
  <1> QED BY <1>1, <1>2, <1>5, <1>6, <1>7, <1>8, <1>9, <1>10 DEF Next, ThreadStep

LEMMA InitKeys == Init => KeyInv
  <1> SUFFICES ASSUME Init PROVE KeyInv
    OBVIOUS
  <1>1. /\ pool = {} /\ messages = <<>> /\ \A a \in Actors : todo[a] = <<>>
        /\ \A w \in Workers : own[w] = Idle
    BY DEF Init
  <1> QED BY <1>1, KeysEmpty

\* An item that a thread, the pool or a message has is nowhere else, and its row
\* in the progress database is open and says its range.
THEOREM TransferKeys == Spec => []KeyInv
  <1>1. Init => TypeInv /\ KeyInv
    BY InitTypes, InitKeys
  <1>2. TypeInv /\ KeyInv /\ [Next]_vars => TypeInv' /\ KeyInv'
    BY NextTypes, NextKeys
  <1> QED BY <1>1, <1>2, PTL DEF Spec
-----------------------------------------------------------------------------
\* Where an entity is that a run has yet to transfer, or that earlier runs or
\* the end of this one have given up.
ByTodo(e) == \E a \in Actors : \E n \in DOMAIN todo[a] : e \in Within(todo[a][n].range)
ByPool(e) == \E x \in pool : e \in Within(x.range)
ByOwn(e) == \E w \in Workers : e \in Within(own[w].range)
ByGot(e) == \E n \in DOMAIN messages : IsGot(messages[n]) /\ e \in messages[n].entities
Dropped(e) ==
    app # "running" /\ \E k \in DOMAIN db :
        Open(db, k) /\ ~Held(k) /\ e \in Within(RowRange(db[k]))
Covered(e) ==
    e \in arrived \cup lost \/ ByTodo(e) \/ ByPool(e) \/ ByOwn(e) \/ ByGot(e) \/ Dropped(e)
CoverInv == ~AtRest => \A e \in Wanted : Covered(e)

LEMMA CoverKept ==
  ASSUME CoverInv, UNCHANGED <<mode, lost>>, arrived \subseteq arrived', AtRest => AtRest',
         \A e : ByTodo(e) => Covered(e)', \A e : ByPool(e) => Covered(e)',
         \A e : ByOwn(e) => Covered(e)', \A e : ByGot(e) => Covered(e)',
         \A e : Dropped(e) => Dropped(e)'
  PROVE  CoverInv'
  <1> SUFFICES ASSUME ~AtRest', NEW e \in Wanted PROVE Covered(e)'
    BY DEF CoverInv, Wanted
  <1>1. Covered(e)
    BY DEF CoverInv
  <1>2. CASE e \in arrived \cup lost
    BY <1>2 DEF Covered
  <1>3. CASE Dropped(e)
    BY <1>3 DEF Covered
  <1> QED BY <1>1, <1>2, <1>3 DEF Covered

LEMMA DroppedKept ==
  ASSUME TypeInv, KeyInv, NEW c, RowsSay(c), c # NoKey => Held(c),
         app # "running" => app' # "running",
         \A k : k # NoKey /\ k \in DOMAIN db /\ Held(k)' => Held(k)
  PROVE  \A e : Dropped(e) => Dropped(e)'
  <1> SUFFICES ASSUME NEW e, Dropped(e) PROVE Dropped(e)'
    OBVIOUS
  <1>1. PICK k \in DOMAIN db : Open(db, k) /\ ~Held(k) /\ e \in Within(RowRange(db[k]))
    BY DEF Dropped
  <1>2. k # NoKey /\ k # c
    BY <1>1, KeysHere
  <1>3. k \in DOMAIN db' /\ Open(db', k) /\ RowRange(db'[k]) = RowRange(db[k])
    BY <1>1, <1>2 DEF RowsSay, RowRange
  <1>4. ~Held(k)' /\ e \in Within(RowRange(db'[k]))
    BY <1>1, <1>2, <1>3
  <1> QED BY <1>1, <1>3, <1>4 DEF Dropped

\* An entity in the range of an item with a row is in the range of the row.
LEMMA RowCovers ==
  ASSUME NEW m, NEW rows, NEW x, RowFor(m, rows, x)
  PROVE  Within(x.range) \subseteq Within(RowRange(rows[x.key]))
  <1>1. /\ x.range.kind = RowRange(rows[x.key]).kind
        /\ \A n \in 1 .. Size : Has(x.range, n) => Has(RowRange(rows[x.key]), n)
    BY DEF RowFor, RowRange, KeyRange, Has
  <1>2. \A e \in Within(x.range) : e \in Within(RowRange(rows[x.key]))
    BY <1>1, InWithin
  <1> QED BY <1>2

LEMMA TodoCovers ==
  ASSUME UNCHANGED <<todo>> PROVE \A e : ByTodo(e) => Covered(e)'
  BY DEF ByTodo, Covered

LEMMA PoolCovers ==
  ASSUME pool \subseteq pool' PROVE \A e : ByPool(e) => Covered(e)'
  BY DEF ByPool, Covered

LEMMA OwnCovers ==
  ASSUME \A w \in Workers : own'[w].range = own[w].range PROVE \A e : ByOwn(e) => Covered(e)'
  BY DEF ByOwn, Covered

LEMMA GotsCover ==
  ASSUME \A n \in DOMAIN messages :
             \/ n \in DOMAIN messages' /\ messages'[n] = messages[n]
             \/ IsGot(messages[n]) => messages[n].entities \subseteq arrived'
             \/ n - 1 \in DOMAIN messages' /\ messages'[n - 1] = messages[n]
  PROVE  \A e : ByGot(e) => Covered(e)'
  <1> SUFFICES ASSUME NEW e, ByGot(e) PROVE Covered(e)'
    OBVIOUS
  <1>1. PICK n \in DOMAIN messages : IsGot(messages[n]) /\ e \in messages[n].entities
    BY DEF ByGot
  <1>2. CASE n \in DOMAIN messages' /\ messages'[n] = messages[n]
    BY <1>1, <1>2 DEF Covered, ByGot, IsGot
  <1>3. CASE n - 1 \in DOMAIN messages' /\ messages'[n - 1] = messages[n]
    BY <1>1, <1>3 DEF Covered, ByGot, IsGot
  <1>4. CASE IsGot(messages[n]) => messages[n].entities \subseteq arrived'
    BY <1>1, <1>4 DEF Covered
  <1> QED BY <1>2, <1>3, <1>4

\* Steps that leave the items where they are.
LEMMA CoverStill ==
  ASSUME TypeInv, KeyInv, CoverInv, NEW c, RowsSay(c), c # NoKey => Held(c),
         AtRest => AtRest', app # "running" => app' # "running",
         UNCHANGED <<mode, lost, todo, pool>>, arrived \subseteq arrived',
         \A w \in Workers : own'[w].range = own[w].range,
         \A n \in DOMAIN messages :
             \/ n \in DOMAIN messages' /\ messages'[n] = messages[n]
             \/ IsGot(messages[n]) => messages[n].entities \subseteq arrived'
             \/ n - 1 \in DOMAIN messages' /\ messages'[n - 1] = messages[n],
         \A k : Held(k)' => Held(k)
  PROVE  CoverInv'
  <1>1. \A e : Dropped(e) => Dropped(e)'
    BY DroppedKept
  <1>2. (\A e : ByTodo(e) => Covered(e)') /\ (\A e : ByPool(e) => Covered(e)')
    BY TodoCovers, PoolCovers
  <1>3. (\A e : ByOwn(e) => Covered(e)') /\ (\A e : ByGot(e) => Covered(e)')
    BY OwnCovers, GotsCover
  <1> QED BY <1>1, <1>2, <1>3, CoverKept

LEMMA StillRunning ==
  ASSUME TypeInv
  PROVE  /\ AtRest => /\ messages = <<>> /\ waiting = {} /\ pool = {}
                      /\ \A a \in Actors : todo[a] = <<>> /\ pc[a] = "ended"
         /\ app' = app => (AtRest => AtRest') /\ (app # "running" => app' # "running")
  BY DEF TypeInv, RestInv, AtRest

LEMMA MarkAsReadCovers ==
  ASSUME TypeInv, KeyInv, CoverInv, NEW a \in Actors, MarkAsRead(a) PROVE CoverInv'
  <1>1. PICK item : item = Head(todo[a])
    OBVIOUS
  <1>2. /\ messages' = Append(messages, Message(a, item, {})) /\ todo[a] # <<>>
        /\ UNCHANGED <<mode, arrived, db, pool, todo, own, app, lost>>
    BY <1>1 DEF MarkAsRead, Blocking, dbVars, appVars
  <1>3. item \in Items
    <2>1. todo[a] \in Seq(Items)
      BY TypesOf DEF TypeInv
    <2> QED BY <1>1, <1>2, <2>1, Taken
  <1>4. \A n \in DOMAIN messages : n \in DOMAIN messages' /\ messages'[n] = messages[n]
    <2>1. a \in Actors \cup {Nobody} /\ {} \in SUBSET Wanted /\ TypeOK
      BY DEF TypeInv
    <2> QED BY <1>2, <1>3, <2>1, NoteSent
  <1>5. RowsSay(NoKey) /\ \A k : Held(k)' => Held(k)
    BY <1>2, SameRows, MarkAsReadKeys
  <1> QED BY <1>2, <1>4, <1>5, StillRunning, CoverStill

LEMMA SubmitItemCovers ==
  ASSUME TypeInv, KeyInv, CoverInv, NEW a \in Actors, SubmitItem(a) PROVE CoverInv'
  <1>1. /\ pc[a] = "submit" /\ pool' = pool \cup {Head(todo[a])}
        /\ todo' = [todo EXCEPT ![a] = Tail(todo[a])]
        /\ UNCHANGED <<mode, arrived, db, messages, own, app, lost>>
    BY DEF SubmitItem, Ready, dbVars, appVars
  <1>2. /\ Head(todo[a]) = todo[a][1]
        /\ \A n \in DOMAIN todo[a] : n # 1 =>
               n - 1 \in DOMAIN todo'[a] /\ todo'[a][n - 1] = todo[a][n]
        /\ \A b \in Actors : b # a => todo'[b] = todo[b]
    <2>1. todo[a] \in Seq(Items) /\ todo[a] # <<>> /\ todo \in [Actors -> Seq(Items)]
      BY <1>1, TypesOf DEF TypeInv, ThreadInv, TypeOK
    <2> QED BY <1>1, <2>1, Taken
  <1>3. ASSUME NEW e, ByTodo(e) PROVE Covered(e)'
    <2>1. PICK b \in Actors : \E n \in DOMAIN todo[b] : e \in Within(todo[b][n].range)
      BY <1>3 DEF ByTodo
    <2>2. PICK n \in DOMAIN todo[b] : e \in Within(todo[b][n].range)
      BY <2>1
    <2>3. CASE b # a
      BY <1>2, <2>2, <2>3 DEF Covered, ByTodo
    <2>4. CASE b = a /\ n # 1
      <3>1. n - 1 \in DOMAIN todo'[b] /\ e \in Within(todo'[b][n - 1].range)
        BY <1>2, <2>2, <2>4
      <3> QED BY <3>1 DEF Covered, ByTodo
    <2>5. CASE b = a /\ n = 1
      BY <1>1, <1>2, <2>2, <2>5 DEF Covered, ByPool
    <2> QED BY <2>3, <2>4, <2>5
  <1>4. \A e : Dropped(e) => Dropped(e)'
    <2>1. RowsSay(NoKey) /\ \A k : Held(k)' => Held(k)
      BY <1>1, SameRows, SubmitItemKeys
    <2> QED BY <1>1, <2>1, StillRunning, DroppedKept
  <1>5. (\A e : ByPool(e) => Covered(e)') /\ (\A e : ByOwn(e) => Covered(e)')
        /\ (\A e : ByGot(e) => Covered(e)')
    BY <1>1, PoolCovers, OwnCovers, GotsCover
  <1> QED BY <1>1, <1>3, <1>4, <1>5, StillRunning, CoverKept

LEMMA MarkAsTransferringCovers ==
  ASSUME TypeInv, KeyInv, CoverInv, NEW w \in Workers, MarkAsTransferring(w) PROVE CoverInv'
  <1>1. PICK x \in pool, mine \in Items :
            /\ mine.state = "GETTING" /\ mine.key = x.key /\ mine.range = x.range
            /\ app = "running" /\ pc[w] = "idle" /\ w \notin waiting
            /\ pool' = pool \ {x}
            /\ own' = [own EXCEPT ![w] = mine] /\ own'[w] = mine
            /\ messages' = Append(messages, Message(w, mine, {}))
            /\ waiting' = waiting \cup {w} /\ pc' = [pc EXCEPT ![w] = "transfer"]
            /\ UNCHANGED <<mode, arrived, disk, db, ops, stored, todo, sent,
                           app, error, toSend, code, runs, lost>>
    BY MarkAsTransferringShape
  <1>2. \A n \in DOMAIN messages : n \in DOMAIN messages' /\ messages'[n] = messages[n]
    <2>1. w \in Actors \cup {Nobody} /\ {} \in SUBSET Wanted /\ TypeOK
      BY Names DEF TypeInv
    <2> QED BY <1>1, <2>1, NoteSent
  <1>3. \A e : ByPool(e) => Covered(e)'
    BY <1>1 DEF ByPool, ByOwn, Covered
  <1>4. \A e : ByOwn(e) => Covered(e)'
    <2>1. own[w] = Idle /\ Within(Idle.range) = {}
      BY <1>1, IdleItem DEF TypeInv, ThreadInv, Holding
    <2>2. \A u \in Workers : u # w => own'[u] = own[u]
      BY <1>1 DEF TypeInv, TypeOK
    <2> QED BY <2>1, <2>2 DEF ByOwn, Covered
  <1>5. (\A e : ByTodo(e) => Covered(e)') /\ (\A e : ByGot(e) => Covered(e)')
    BY <1>1, <1>2, TodoCovers, GotsCover
  <1>6. \A e : Dropped(e) => Dropped(e)'
    BY <1>1 DEF Dropped
  <1> QED BY <1>1, <1>3, <1>4, <1>5, <1>6, StillRunning, CoverKept

LEMMA PostEntitiesCovers ==
  ASSUME TypeInv, KeyInv, CoverInv, NEW w \in Workers, PostEntities(w) PROVE CoverInv'
  <1>1. PICK item \in Items :
            /\ item.state = "GOT" /\ item.key = own[w].key /\ item.range = own[w].range
            /\ mode = "upload" /\ pc[w] = "transfer" /\ w \notin waiting /\ todo[w] = <<>>
            /\ arrived' = arrived \cup Within(own[w].range)
            /\ messages' = Append(messages, Message(Nobody, item, {}))
            /\ own' = [own EXCEPT ![w] = Idle] /\ pc' = [pc EXCEPT ![w] = "idle"]
            /\ UNCHANGED <<mode, disk, db, ops, stored, waiting, pool, todo, sent,
                           app, error, toSend, code, runs, lost>>
    BY PostEntitiesShape
  <1>2. \A n \in DOMAIN messages : n \in DOMAIN messages' /\ messages'[n] = messages[n]
    <2>1. Nobody \in Actors \cup {Nobody} /\ {} \in SUBSET Wanted /\ TypeOK
      BY DEF TypeInv
    <2> QED BY <1>1, <2>1, NoteSent
  <1>3. \A e : ByOwn(e) => Covered(e)'
    <2>1. \A u \in Workers : u # w => own'[u] = own[u]
      BY <1>1 DEF TypeInv, TypeOK
    <2> QED BY <1>1, <2>1 DEF ByOwn, Covered
  <1>4. /\ \A e : ByTodo(e) => Covered(e)'
        /\ \A e : ByPool(e) => Covered(e)'
        /\ \A e : ByGot(e) => Covered(e)'
    BY <1>1, <1>2, TodoCovers, PoolCovers, GotsCover
  <1>5. \A e : Dropped(e) => Dropped(e)'
    <2>1. RowsSay(NoKey) /\ \A k : k # NoKey /\ Held(k)' => Held(k)
      BY <1>1, SameRows, PostEntitiesKeys
    <2> QED BY <1>1, <2>1, StillRunning, DroppedKept
  <1> QED BY <1>1, <1>3, <1>4, <1>5, StillRunning, CoverKept

LEMMA GetEntitiesCovers ==
  ASSUME TypeInv, KeyInv, CoverInv, NEW w \in Workers, GetEntities(w) PROVE CoverInv'
  <1>1. PICK item \in Items, entities \in SUBSET Wanted, s \in Seq(Items), where \in {"add", "idle"} :
            /\ item.state = "GOT" /\ item.key = own[w].key /\ item.range = own[w].range
            /\ mode = "download" /\ pc[w] = "transfer" /\ w \notin waiting
            /\ messages' = Append(messages, Message(w, item, entities))
            /\ waiting' = waiting \cup {w} /\ pc' = [pc EXCEPT ![w] = where]
            /\ own' = [own EXCEPT ![w] = Idle] /\ todo' = [todo EXCEPT ![w] = s]
            /\ s = <<>> <=> where = "idle"
            /\ \A n \in DOMAIN s : /\ s[n].state = "READ" /\ s[n].key = NoKey
                                   /\ s[n].range.kind = own[w].range.kind
            /\ entities \subseteq Within(own[w].range)
            /\ \A e \in Within(own[w].range) :
                   e \in entities \/ \E n \in DOMAIN s : e \in Within(s[n].range)
            /\ UNCHANGED <<mode, arrived, disk, db, ops, stored, pool, sent,
                           app, error, toSend, code, runs, lost>>
    BY GetEntitiesShape
  <1>2. PICK k : k = Len(messages) + 1
    OBVIOUS
  <1>3. /\ \A n \in DOMAIN messages : n \in DOMAIN messages' /\ messages'[n] = messages[n]
        /\ k \in DOMAIN messages' /\ messages'[k].item = item
        /\ messages'[k].entities = entities
    <2>1. w \in Actors \cup {Nobody} /\ TypeOK
      BY Names DEF TypeInv
    <2> QED BY <1>1, <1>2, <2>1, NoteSent
  <1>4. /\ todo'[w] = s /\ w \in Actors /\ \A b \in Actors : b # w => todo'[b] = todo[b]
        /\ DOMAIN todo[w] = {}
        /\ \A u \in Workers : u # w => own'[u] = own[u]
    <2>1. w \in Actors /\ w # Source /\ todo[w] = <<>>
      BY <1>1, Names DEF TypeInv, ThreadInv
    <2>2. todo \in [Actors -> Seq(Items)] /\ own \in [Workers -> Items]
      BY DEF TypeInv, TypeOK
    <2>3. \A u \in Workers : u # w => own'[u] = own[u]
      BY <1>1, <2>2
    <2>4. todo'[w] = s /\ \A b \in Actors : b # w => todo'[b] = todo[b]
      BY <1>1, <2>1, <2>2
    <2> QED BY <2>1, <2>3, <2>4
  <1>5. \A e : ByOwn(e) => Covered(e)'
    <2>1. \A e \in Within(own[w].range) : ByGot(e)' \/ ByTodo(e)'
      BY <1>1, <1>3, <1>4 DEF ByGot, ByTodo, IsGot
    <2> QED BY <1>4, <2>1 DEF ByOwn, Covered
  <1>6. \A e : ByTodo(e) => Covered(e)'
    BY <1>4 DEF ByTodo, Covered
  <1>7. (\A e : ByPool(e) => Covered(e)') /\ (\A e : ByGot(e) => Covered(e)')
    BY <1>1, <1>3, PoolCovers, GotsCover
  <1>8. \A e : Dropped(e) => Dropped(e)'
    <2>1. RowsSay(NoKey) /\ \A i : i # NoKey /\ Held(i)' => Held(i)
      BY <1>1, SameRows, GetEntitiesKeys
    <2> QED BY <1>1, <2>1, StillRunning, DroppedKept
  <1> QED BY <1>1, <1>5, <1>6, <1>7, <1>8, StillRunning, CoverKept

LEMMA MarkAsErrorCovers ==
  ASSUME TypeInv, KeyInv, CoverInv, NEW w \in Workers, MarkAsError(w) PROVE CoverInv'
  <1>1. PICK mine \in Items, where \in {"reput", "dead"} :
            /\ mine.state = "ERROR" /\ mine.key = own[w].key /\ mine.range = own[w].range
            /\ pc[w] = "transfer" /\ w \notin waiting
            /\ own' = [own EXCEPT ![w] = mine] /\ own'[w] = mine
            /\ messages' = Append(messages, Message(w, mine, {}))
            /\ waiting' = waiting \cup {w} /\ pc' = [pc EXCEPT ![w] = where]
            /\ \/ arrived' = arrived
               \/ mode = "upload" /\ arrived' = arrived \cup Within(own[w].range)
            /\ UNCHANGED <<mode, disk, db, ops, stored, pool, todo, sent,
                           app, error, toSend, code, runs, lost>>
    BY MarkAsErrorShape
  <1>2. \A n \in DOMAIN messages : n \in DOMAIN messages' /\ messages'[n] = messages[n]
    <2>1. w \in Actors \cup {Nobody} /\ {} \in SUBSET Wanted /\ TypeOK
      BY Names DEF TypeInv
    <2> QED BY <1>1, <2>1, NoteSent
  <1>3. \A u \in Workers : own'[u].range = own[u].range
    BY <1>1 DEF TypeInv, TypeOK
  <1>4. RowsSay(NoKey) /\ \A k : Held(k)' => Held(k)
    BY <1>1, SameRows, MarkAsErrorKeys
  <1> QED BY <1>1, <1>2, <1>3, <1>4, StillRunning, CoverStill

LEMMA ReputCovers ==
  ASSUME TypeInv, KeyInv, CoverInv, NEW w \in Workers, Reput(w) PROVE CoverInv'
  <1>1. /\ pool' = pool \cup {own[w]} /\ own' = [own EXCEPT ![w] = Idle]
        /\ UNCHANGED <<mode, arrived, db, messages, todo, app, lost>>
    BY DEF Reput, dbVars, appVars
  <1>2. \A e : ByOwn(e) => Covered(e)'
    <2>1. \A u \in Workers : u # w => own'[u] = own[u]
      BY <1>1 DEF TypeInv, TypeOK
    <2> QED BY <1>1, <2>1 DEF ByOwn, ByPool, Covered
  <1>3. /\ \A e : ByTodo(e) => Covered(e)'
        /\ \A e : ByPool(e) => Covered(e)'
        /\ \A e : ByGot(e) => Covered(e)'
    BY <1>1, TodoCovers, PoolCovers, GotsCover
  <1>4. \A e : Dropped(e) => Dropped(e)'
    <2>1. RowsSay(NoKey) /\ \A k : k # NoKey /\ Held(k)' => Held(k)
      BY <1>1, SameRows, ReputKeys
    <2> QED BY <1>1, <2>1, StillRunning, DroppedKept
  <1> QED BY <1>1, <1>2, <1>3, <1>4, StillRunning, CoverKept

LEMMA StoreKeysCovers ==
  ASSUME TypeInv, KeyInv, CoverInv, StoreKeys PROVE CoverInv'
  <1>1. PICK a \in Actors, row \in Rows, x \in Items :
            /\ a = messages[1].from /\ a \in waiting /\ pc[a] = "submit"
            /\ todo[a] \in Seq(Items) /\ todo[a] # <<>> /\ 1 \in DOMAIN todo[a]
            /\ messages # <<>> /\ messages[1].item.state = "READ" /\ messages[1].item.key = NoKey
            /\ messages[1].item = todo[a][1]
            /\ row.kind = todo[a][1].range.kind /\ row.start = todo[a][1].range.start
            /\ row.end = todo[a][1].range.end /\ row.state = "READ"
            /\ row.kind \in Kinds
            /\ db' = Append(db, row)
            /\ x.range = todo[a][1].range /\ x.state = "READ" /\ x.key = Len(db) + 1
            /\ Len(db) + 1 \in Nat /\ Len(db) + 1 # NoKey
            /\ todo' = [todo EXCEPT ![a] = [todo[a] EXCEPT ![1] = x]]
            /\ MaybeCommit /\ Acknowledge
            /\ UNCHANGED <<mode, arrived, stored, pool, own, pc, sent,
                           app, error, toSend, code, runs, lost>>
    BY StoreKeysShape
  <1>2. \A b \in Actors : \A n \in DOMAIN todo[b] :
            n \in DOMAIN todo'[b] /\ todo'[b][n].range = todo[b][n].range
    BY <1>1 DEF TypeInv, TypeOK
  <1>3. \A e : ByTodo(e) => Covered(e)'
    <2> SUFFICES ASSUME NEW e, ByTodo(e) PROVE ByTodo(e)'
      BY DEF Covered
    <2>1. PICK b \in Actors : \E n \in DOMAIN todo[b] : e \in Within(todo[b][n].range)
      BY DEF ByTodo
    <2>2. PICK n \in DOMAIN todo[b] : e \in Within(todo[b][n].range)
      BY <2>1
    <2>3. n \in DOMAIN todo'[b] /\ e \in Within(todo'[b][n].range)
      BY <1>2, <2>2
    <2> QED BY <2>3 DEF ByTodo
  <1>4. \A e : ByGot(e) => Covered(e)'
    <2>1. messages' = Tail(messages) /\ ~IsGot(messages[1])
      BY <1>1 DEF Acknowledge, IsGot
    <2>2. \A n \in DOMAIN messages : n # 1 =>
              n - 1 \in DOMAIN messages' /\ messages'[n - 1] = messages[n]
      BY <1>1, <2>1, FirstOf
    <2>3. \A n \in DOMAIN messages :
             \/ n \in DOMAIN messages' /\ messages'[n] = messages[n]
             \/ IsGot(messages[n]) => messages[n].entities \subseteq arrived'
             \/ n - 1 \in DOMAIN messages' /\ messages'[n - 1] = messages[n]
      BY <2>1, <2>2
    <2> QED BY <2>3, GotsCover
  <1>5. (\A e : ByPool(e) => Covered(e)') /\ (\A e : ByOwn(e) => Covered(e)')
    BY <1>1, PoolCovers, OwnCovers
  <1>6. \A e : Dropped(e) => Dropped(e)'
    <2>1. \A k : k # NoKey /\ k \in DOMAIN db /\ Held(k)' => Held(k)
      BY StoreKeysKeys
    <2>2. RowsSay(NoKey)
      <3>1. db \in Seq(Rows)
        BY DEF TypeInv, TypeOK
      <3>2. DOMAIN db \subseteq DOMAIN db' /\ \A n \in DOMAIN db : db'[n] = db[n]
        BY <1>1, <3>1, Appended
      <3> QED BY <3>2 DEF RowsSay, Open
    <2> QED BY <1>1, <2>1, <2>2, StillRunning, DroppedKept
  <1> QED BY <1>1, <1>3, <1>4, <1>5, <1>6, StillRunning, CoverKept

LEMMA RowChangedCovers ==
  ASSUME TypeInv, KeyInv, CoverInv, messages # <<>>, NEW state \in States \cup {"deleted"},
         db' = [db EXCEPT ![messages[1].item.key].state = state],
         messages' = Tail(messages), UNCHANGED <<mode, arrived, pool, todo, own, app, lost>>,
         state \in {"GOT", "deleted"} => IsGot(messages[1]),
         IsGot(messages[1]) => messages[1].entities \subseteq arrived
  PROVE  CoverInv'
  <1>1. PICK c : c = IF state \in {"GOT", "deleted"} THEN messages[1].item.key ELSE NoKey
    OBVIOUS
  <1>2. RowsSay(c) /\ (c # NoKey => Held(c))
    <2>1. PICK key : key = messages[1].item.key
      OBVIOUS
    <2>2. /\ DOMAIN db' = DOMAIN db
          /\ \A n \in DOMAIN db : n # key => db'[n] = db[n]
          /\ \A n \in DOMAIN db : /\ db'[n].kind = db[n].kind /\ db'[n].start = db[n].start
                                  /\ db'[n].end = db[n].end
          /\ key \in DOMAIN db => db'[key].state = state
      BY <2>1, RowChanged DEF TypeInv, TypeOK
    <2>3. RowsSay(c)
      BY <1>1, <2>1, <2>2 DEF RowsSay, Open
    <2>4. c # NoKey => InGot(c)
      BY <1>1, FirstOf DEF InGot
    <2> QED BY <2>3, <2>4 DEF Held
  <1>3. \A k : Held(k)' => Held(k)
    BY RowChangedKeys
  <1>4. \A n \in DOMAIN messages :
             \/ n \in DOMAIN messages' /\ messages'[n] = messages[n]
             \/ IsGot(messages[n]) => messages[n].entities \subseteq arrived'
             \/ n - 1 \in DOMAIN messages' /\ messages'[n - 1] = messages[n]
    BY FirstOf
  <1> QED BY <1>2, <1>3, <1>4, StillRunning, CoverStill

LEMMA UpdateStateCovers ==
  ASSUME TypeInv, KeyInv, CoverInv, UpdateState PROVE CoverInv'
  <1>1. PICK state : state = messages[1].item.state
    OBVIOUS
  <1>2. /\ messages # <<>> /\ state \in States
        /\ ~ (mode = "download" /\ messages[1].item.state = "GOT")
        /\ db' = [db EXCEPT ![messages[1].item.key].state = state]
        /\ messages' = Tail(messages) /\ UNCHANGED <<mode, arrived, pool, todo, own, app, lost>>
    BY <1>1, UpdateStateShape DEF Acknowledge
  <1>3. state \in {"GOT", "deleted"} => IsGot(messages[1])
    BY <1>1, <1>2 DEF IsGot, States
  <1>4. state \in States \cup {"deleted"}
    BY <1>2
  <1>5. IsGot(messages[1]) => messages[1].entities \subseteq arrived
    BY <1>2, FirstOf DEF Sensible, FromNobody, FromAdder, FromWorker, IsGot
  <1> QED BY <1>2, <1>3, <1>4, <1>5, RowChangedCovers

LEMMA DeleteKeyCovers ==
  ASSUME TypeInv, KeyInv, CoverInv, DeleteKey PROVE CoverInv'
  <1>1. PICK state : state = "deleted"
    OBVIOUS
  <1>2. /\ messages # <<>> /\ IsGot(messages[1]) /\ messages[1].entities \subseteq arrived
        /\ db' = [db EXCEPT ![messages[1].item.key].state = state]
        /\ messages' = Tail(messages) /\ UNCHANGED <<mode, arrived, pool, todo, own, app, lost>>
    BY <1>1, DeleteKeyShape DEF Acknowledge, IsGot
  <1>3. state \in States \cup {"deleted"}
    BY <1>1
  <1> QED BY <1>2, <1>3, RowChangedCovers

LEMMA StoreEntitiesCovers ==
  ASSUME TypeInv, KeyInv, CoverInv, StoreEntities PROVE CoverInv'
  <1>1. /\ arrived' = arrived \cup messages[1].entities
        /\ UNCHANGED <<mode, db, messages, pool, todo, own, app, lost>>
    BY StoreEntitiesShape
  <1>2. RowsSay(NoKey) /\ \A k : Held(k)' => Held(k)
    BY <1>1, SameRows, KeysStill
  <1> QED BY <1>1, <1>2, StillRunning, CoverStill

\* The items that are dropped have rows, which stay open.
LEMMA ShutdownCovers ==
  ASSUME TypeInv, KeyInv, CoverInv, ShutdownThreads PROVE CoverInv'
  <1>1. /\ app = "running" /\ app' = "failing" /\ pool' = {}
        /\ UNCHANGED <<mode, arrived, db, messages, todo, own, lost>>
    BY DEF ShutdownThreads, dbVars
  <1>2. \A e : ByPool(e) => Covered(e)'
    <2> SUFFICES ASSUME NEW e, ByPool(e) PROVE Dropped(e)'
      BY DEF Covered
    <2>1. PICK x \in pool : e \in Within(x.range)
      BY DEF ByPool
    <2>2. /\ x.key \in DOMAIN db /\ Open(db, x.key) /\ InPool(x.key)
          /\ e \in Within(RowRange(db[x.key]))
      BY <2>1, RowCovers DEF KeyInv, RowsInv, PoolRows, RowFor, InPool
    <2>3. ~InTodo(x.key) /\ ~InOwn(x.key) /\ ~InGot(x.key)
      BY <2>2 DEF KeyInv, PlaceInv, Apart
    <2>4. ~Held(x.key)'
      BY <1>1, <2>3 DEF Held, InTodo, InOwn, InGot, InPool, IsGot
    <2> QED BY <1>1, <2>2, <2>4 DEF Dropped
  <1>3. /\ \A e : ByTodo(e) => Covered(e)'
        /\ \A e : ByOwn(e) => Covered(e)'
        /\ \A e : ByGot(e) => Covered(e)'
    BY <1>1, TodoCovers, OwnCovers, GotsCover
  <1>4. \A e : Dropped(e) => Dropped(e)'
    BY <1>1 DEF Dropped
  <1>5. AtRest => AtRest'
    BY <1>1 DEF AtRest
  <1> QED BY <1>1, <1>2, <1>3, <1>4, <1>5, CoverKept

\* Every line of the file is in one of its batches, every entity in its kind.
LEMMA FirstBatches ==
  ASSUME mode \in {"upload", "download"}, NEW e \in Wanted
  PROVE  \E n \in DOMAIN Batches(FALSE, <<>>) : e \in Within(Batches(FALSE, <<>>)[n].range)
  <1>1. /\ Wanted = Kinds \X (1 .. Size) /\ e = <<e[1], e[2]>> /\ e[1] \in Kinds
        /\ e[2] \in 1 .. Size
    BY DEF Wanted, Kinds
  <1>2. CASE mode = "upload"
    <2>1. <<>> \in Seq(Rows) /\ DOMAIN <<>> = {}
      OBVIOUS
    <2>2. ConsumedTo(<<>>) = 0
      BY <2>1, ConsumedOf
    <2>3. PICK R, L : R = Recorded(<<>>) /\ L = Lines(0)
      OBVIOUS
    <2>4. /\ L \in Seq(Items)
          /\ \A n \in DOMAIN L : L[n].range.kind = 1 /\ L[n].range.inclStart /\ L[n].range.inclEnd
          /\ \A i \in 0 + 1 .. Size : \E n \in DOMAIN L :
                L[n].range.start <= i /\ i <= L[n].range.end
      <3>1. 0 \in 0 .. Size
        BY Numbers
      <3> QED BY <2>3, <3>1, LinesAfter
    <2>5. R \in Seq(Items)
      BY <2>1, <2>3, RecordedItems
    <2>6. PICK n \in DOMAIN L : L[n].range.start <= e[2] /\ e[2] <= L[n].range.end
      BY <1>1, <2>4, Numbers
    <2>7. L[n].range.start \in Int /\ L[n].range.end \in Int
      <3>1. L[n] \in Items
        BY <2>4, LenProperties
      <3> QED BY <3>1, Numbers DEF Items, KeyRanges
    <2>8. Has(L[n].range, e[2])
      BY <1>1, <2>4, <2>6, <2>7 DEF Has
    <2>9. L[n].range.kind = 1 /\ e = <<1, e[2]>>
      BY <1>1, <1>2, <2>4 DEF Kinds
    <2>10. e \in Within(L[n].range)
      BY <1>1, <2>8, <2>9, InWithin
    <2>11. Batches(FALSE, <<>>) = R \o L
      BY <1>2, <2>2, <2>3 DEF Batches
    <2>12. Len(R) + n \in DOMAIN (R \o L) /\ (R \o L)[Len(R) + n] = L[n]
      BY <2>4, <2>5, Concatenated
    <2> QED BY <2>10, <2>11, <2>12
  <1>3. CASE mode = "download"
    <2>1. PICK kind \in 1 .. NumKinds : kind = e[1]
      BY <1>1, <1>3 DEF Kinds
    <2>2. PICK r : r = KeyRange(kind, 0, Size + 1, TRUE, TRUE, TRUE)
      OBVIOUS
    <2>3. /\ kind \in DOMAIN Batches(FALSE, <<>>)
          /\ Batches(FALSE, <<>>)[kind].range = r
      BY <1>3, <2>1, <2>2 DEF Batches, Item
    <2>4. r.kind = kind /\ Has(r, e[2])
      BY <1>1, <2>2, Numbers DEF KeyRange, Has
    <2>5. e \in Within(r)
      BY <1>1, <2>1, <2>4, InWithin
    <2> QED BY <2>3, <2>5
  <1> QED BY <1>2, <1>3

LEMMA StartCovers == ASSUME TypeInv, Start PROVE CoverInv'
  <1>1. /\ AtRest /\ TypeOK /\ mode \in {"upload", "download"}
        /\ mode' = mode /\ arrived' = arrived /\ lost' = lost /\ runs \in Nat
    BY KindsOf DEF TypeInv, Start, AtRest, TypeOK
  <1>2. PICK s : s = Batches(runs > 0, disk)
    OBVIOUS
  <1>3. todo'[Source] = s /\ Source \in Actors
    <2>1. todo' = [todo EXCEPT ![Source] = s]
      BY <1>2 DEF Start
    <2> QED BY <1>1, <2>1, Names DEF TypeOK
  <1> SUFFICES ASSUME NEW e \in Wanted PROVE Covered(e)'
    BY <1>1 DEF CoverInv, Wanted
  <1>4. CASE runs = 0
    <2>1. disk = <<>> /\ (runs > 0) = FALSE
      BY <1>4, <1>1 DEF TypeInv, RestInv
    <2>2. s = Batches(FALSE, <<>>)
      BY <1>2, <2>1
    <2>3. \E n \in DOMAIN s : e \in Within(s[n].range)
      BY <1>1, <2>2, FirstBatches
    <2>4. ByTodo(e)'
      BY <1>3, <2>3 DEF ByTodo
    <2> QED BY <2>4 DEF Covered
  <1>5. CASE runs > 0
    <2>1. lost = Missed(disk) /\ (runs > 0) = TRUE
      BY <1>1, <1>5 DEF TypeInv, RestInv
    <2>2. CASE e \in arrived \cup lost
      BY <1>1, <2>2 DEF Covered
    <2>3. CASE e \notin arrived \cup lost
      <3>1. e \in Resumable(disk) /\ s = Batches(TRUE, disk)
        BY <1>2, <2>1, <2>3 DEF Missed
      <3>2. e \in WithinAll({s[n] : n \in DOMAIN s})
        BY <3>1 DEF Resumable
      <3>3. \E n \in DOMAIN s : e \in Within(s[n].range)
        <4> HIDE DEF Within
        <4> QED BY <3>2 DEF WithinAll
      <3>4. ByTodo(e)'
        BY <1>3, <3>3 DEF ByTodo
      <3> QED BY <3>4 DEF Covered
    <2> QED BY <2>2, <2>3
  <1> QED BY <1>1, <1>4, <1>5

LEMMA NextCovers == ASSUME TypeInv, KeyInv, CoverInv, [Next]_vars PROVE CoverInv'
  <1>1. CASE Start
    BY <1>1, StartCovers
  <1>2. CASE Crash \/ Return
    BY <1>2 DEF Crash, Return, CoverInv, AtRest
  <1>3. CASE Interrupt \/ SeesDeath
    BY <1>3, ShutdownCovers, SeesDeathShutsDown DEF Interrupt
  <1>4. ASSUME UNCHANGED <<mode, arrived, db, messages, pool, todo, own, lost>>,
               AtRest => AtRest', app # "running" => app' # "running"
        PROVE  CoverInv'
    <2>1. RowsSay(NoKey) /\ \A k : Held(k)' => Held(k)
      BY <1>4, SameRows, KeysStill
    <2>2. /\ \A w \in Workers : own'[w].range = own[w].range
          /\ \A n \in DOMAIN messages : n \in DOMAIN messages' /\ messages'[n] = messages[n]
          /\ arrived \subseteq arrived'
      BY <1>4
    <2> QED BY <1>4, <2>1, <2>2, CoverStill
  <1>5. ASSUME NEW a \in Actors, Adds(a) PROVE CoverInv'
    BY <1>5, MarkAsReadCovers, SubmitItemCovers DEF Adds
  <1>6. CASE SourceExits
    BY <1>4, <1>6, StillRunning DEF SourceExits, dbVars, appVars
  <1>7. CASE SourceStep
    BY <1>5, <1>6, <1>7, Names DEF SourceStep
  <1>8. ASSUME NEW w \in Workers, WorkerStep(w) PROVE CoverInv'
    BY <1>5, <1>8, Names, MarkAsTransferringCovers, PostEntitiesCovers, GetEntitiesCovers,
       MarkAsErrorCovers, ReputCovers DEF WorkerStep, Transfers
  <1>9. CASE ProgressStep
    BY <1>9, StoreKeysCovers, UpdateStateCovers, StoreEntitiesCovers, DeleteKeyCovers
       DEF ProgressStep
  <1>10. CASE QueueJoined \/ ThreadsJoined
    BY <1>4, <1>10 DEF QueueJoined, ThreadsJoined, dbVars, threadVars, AtRest
  <1>11. CASE UNCHANGED vars
    BY <1>4, <1>11, StillRunning DEF vars, dbVars, threadVars, appVars
  <1> QED BY <1>1, <1>2, <1>3, <1>7, <1>8, <1>9, <1>10, <1>11
          DEF Next, ThreadStep, MainStep

TransferInv == TypeInv /\ KeyInv /\ CoverInv

LEMMA TransferInvariant == Spec => []TransferInv
  <1>1. Init => TransferInv
    BY InitTypes, InitKeys DEF Init, TransferInv, CoverInv, AtRest
  <1>2. TransferInv /\ [Next]_vars => TransferInv'
    BY NextTypes, NextKeys, NextCovers DEF TransferInv
  <1> QED BY <1>1, <1>2, PTL DEF Spec

LEMMA QueueJoinedArrived == ASSUME TransferInv, QueueJoined PROVE Wanted \ lost \subseteq arrived
  <1>1. /\ app = "running" /\ pc[Source] = "ended" /\ pool = {} /\ TypeOK /\ MessageInv
        /\ \A w \in Workers : pc[w] = "idle" /\ w \notin waiting
    BY DEF QueueJoined, Ready, TransferInv, TypeInv
  <1>2. \A a \in Actors : DOMAIN todo[a] = {}
    BY <1>1, Names DEF TransferInv, TypeInv, ThreadInv
  <1>3. \A w \in Workers : own[w] = Idle
    BY <1>1 DEF TransferInv, TypeInv, ThreadInv, Holding
  <1>4. Source \notin waiting
    BY <1>1 DEF TransferInv, TypeInv, ThreadInv
  <1>5. \A n \in DOMAIN messages : messages[n].entities = {}
    <2> SUFFICES ASSUME NEW n \in DOMAIN messages PROVE messages[n].entities = {}
      OBVIOUS
    <2>1. messages[n].from \in Actors \cup {Nobody}
      BY <1>1, NotesOf
    <2>2. messages[n].from = Nobody
      BY <1>1, <1>4, <2>1, Names DEF MessageInv
    <2> QED BY <1>1, <2>2 DEF MessageInv, Sensible, FromNobody
  <1>6. ASSUME NEW e \in Wanted PROVE e \in arrived \cup lost
    <2>1. Covered(e)
      BY <1>1 DEF TransferInv, CoverInv, AtRest
    <2>2. ~ByTodo(e) /\ ~ByPool(e)
      BY <1>1, <1>2 DEF ByTodo, ByPool
    <2>3. ~ByOwn(e)
      BY <1>3, IdleItem DEF ByOwn
    <2>4. ~ByGot(e)
      BY <1>5 DEF ByGot
    <2>5. ~Dropped(e)
      BY <1>1 DEF Dropped
    <2> QED BY <2>1, <2>2, <2>3, <2>4, <2>5 DEF Covered
  <1> QED BY <1>6

\* When the queue of work items is joined, everything has arrived but for what
\* earlier runs lost: whatever was retried, split, resumed or in whatever order
\* the progress thread was told of it.
THEOREM TransferJoined == Spec => JoinedMeansArrived
  <1>1. ASSUME TransferInv, [Next]_vars
        PROVE  app = "running" /\ app' = "closing" => Wanted \ lost \subseteq arrived
    <2> SUFFICES ASSUME app = "running", app' = "closing" PROVE Wanted \ lost \subseteq arrived
      OBVIOUS
    <2>1. CASE QueueJoined
      BY <1>1, <2>1, QueueJoinedArrived
    <2>2. ~QueueJoined => FALSE
      <3>1. ~Start /\ ~Crash /\ ~ShutdownThreads /\ ~ThreadsJoined /\ ~Return
        BY DEF Start, Crash, ShutdownThreads, ThreadsJoined, Return
      <3>2. ~SeesDeath /\ ~Interrupt
        BY <3>1 DEF SeesDeath, Interrupt
      <3>3. \A a \in Actors : ~Adds(a)
        BY DEF Adds, MarkAsRead, SubmitItem, appVars
      <3>4. ~SourceStep
        BY <3>3, Names DEF SourceStep, SourceExits, appVars
      <3>5. \A w \in Workers : ~WorkerStep(w)
        BY <3>3, Names DEF WorkerStep, MarkAsTransferring, Transfers, PostEntities, GetEntities,
                           MarkAsError, Reput, appVars
      <3>6. ~ProgressStep
        BY DEF ProgressStep, StoreKeys, UpdateState, StoreEntities, DeleteKey, appVars
      <3>7. ~UNCHANGED vars
        BY DEF vars, appVars
      <3> QED BY <1>1, <3>1, <3>2, <3>4, <3>5, <3>6, <3>7 DEF Next, ThreadStep, MainStep
    <2> QED BY <2>1, <2>2
  <1>2. Spec => [][app = "running" /\ app' = "closing" => Wanted \ lost \subseteq arrived]_vars
    BY <1>1, TransferInvariant, PTL DEF Spec
  <1> QED BY <1>2 DEF JoinedMeansArrived
-----------------------------------------------------------------------------
\* The rows of an upload leave no gap and tell what arrived, and those that are
\* open do not overlap.  Rows that are sent may: what was sent behind the last
\* open row is recorded again.
NoGap(rows) ==
    \A m \in 1 .. Size : (\E k \in DOMAIN rows : m <= rows[k].end) =>
        \E k \in DOMAIN rows : rows[k].start <= m /\ m <= rows[k].end
Batched(rows) ==
    /\ \A k \in DOMAIN rows :
           /\ rows[k].start >= 1 /\ rows[k].start <= rows[k].end /\ rows[k].end <= Size
           /\ rows[k].state # "deleted"
    /\ \A j, k \in DOMAIN rows :
           j < k /\ Open(rows, j) /\ Open(rows, k) => rows[j].end < rows[k].start
Arrives(rows) ==
    \A k \in DOMAIN rows : rows[k].state = "GOT" => Within(RowRange(rows[k])) \subseteq arrived
UploadRows(rows) == Batched(rows) /\ NoGap(rows) /\ Arrives(rows)

\* What the data source has yet to record follows the open rows, and all rows
\* without a gap.
LinesInOrder ==
    \A n \in DOMAIN todo[Source] : todo[Source][n].key = NoKey =>
        /\ todo[Source][n].range.start >= 1 /\ todo[Source][n].range.end <= Size
        /\ todo[Source][n].range.start <= todo[Source][n].range.end
        /\ \A k \in DOMAIN db : Open(db, k) => db[k].end < todo[Source][n].range.start
        /\ \A m \in DOMAIN todo[Source] : n < m =>
               /\ todo[Source][m].key = NoKey
               /\ todo[Source][n].range.end < todo[Source][m].range.start
LinesLeft ==
    \A m \in 1 .. Size : (\A k \in DOMAIN db : db[k].end < m) =>
        \/ pc[Source] = "exited"
        \/ \E n \in DOMAIN todo[Source] :
               /\ todo[Source][n].key = NoKey
               /\ todo[Source][n].range.start <= m /\ m <= todo[Source][n].range.end

\* Some row says that a line is sent.
Marked(rows, e) ==
    \E k \in DOMAIN rows : rows[k].state = "GOT" /\ e \in Within(RowRange(rows[k]))

\* The lines that a run has yet to send: of open rows, and those to be recorded.
OwedRow(rows, e) == \E k \in DOMAIN rows : Open(rows, k) /\ e \in Within(RowRange(rows[k]))
OwedLine(e) ==
    \E n \in DOMAIN todo[Source] :
        todo[Source][n].key = NoKey /\ e \in Within(todo[Source][n].range)
Owed == {e \in Wanted : OwedRow(db, e) \/ OwedLine(e)}

PostedInv ==
    \A n \in DOMAIN messages :
        messages[n].from = Nobody => Within(messages[n].item.range) \subseteq arrived
UploadInv ==
    mode = "upload" =>
        /\ UploadRows(db) /\ UploadRows(disk) /\ PostedInv
        /\ ~AtRest => LinesInOrder /\ LinesLeft /\ sent + Cardinality(Owed) <= toSend
        /\ app = "returned" /\ code = 0 => arrived = Wanted

LEMMA OpenResumable ==
  ASSUME mode \in Modes, NEW rows \in Seq(Rows), NEW id \in DOMAIN rows, Open(rows, id)
  PROVE  Within(RowRange(rows[id])) \subseteq Resumable(rows)
  <1>0. PICK existing : existing = TRUE
    OBVIOUS
  <1>1. PICK s : s = Batches(existing, rows)
    OBVIOUS
  <1>1a. s = Batches(TRUE, rows)
    BY <1>0, <1>1
  <1>2. /\ s \in Seq(Items)
        /\ \A n \in DOMAIN s :
              /\ s[n].state = "READ"
              /\ mode = "upload" => s[n].range.inclStart /\ s[n].range.inclEnd
              /\ \/ /\ s[n].key = NoKey
                    /\ s[n].range.kind \in IF mode = "upload" THEN {1} ELSE 1 .. NumKinds
                 \/ /\ s[n].key \in DOMAIN rows /\ Open(rows, s[n].key) /\ s[n].key # NoKey
                    /\ s[n].range = RowRange(rows[s[n].key])
                    /\ \A m \in DOMAIN s : s[m].key = s[n].key => m = n
    BY <1>1, BatchItems
  <1>3. PICK n \in DOMAIN s : s[n].key = id
    <2>1. \A k \in DOMAIN rows : Open(rows, k) => \E n \in DOMAIN s : s[n].key = k
      <3>1. mode = "upload" \/ existing =>
                \A k \in DOMAIN rows : Open(rows, k) => \E n \in DOMAIN s : s[n].key = k
        BY <1>1, BatchItems
      <3> QED BY <1>0, <3>1
    <2> QED BY <2>1
  <1>4. id # NoKey
    <2>1. Len(rows) \in Nat /\ DOMAIN rows = 1 .. Len(rows)
      BY LenProperties
    <2> QED BY <2>1 DEF NoKey
  <1>5. s[n].range = RowRange(rows[id])
    BY <1>2, <1>3, <1>4
  <1>6. Within(s[n].range) \subseteq WithinAll({s[i] : i \in DOMAIN s})
    <2> HIDE DEF Within
    <2> QED BY DEF WithinAll
  <1> QED BY <1>1a, <1>5, <1>6 DEF Resumable

LEMMA LinesResumable ==
  ASSUME mode = "upload", NEW rows \in Seq(Rows), NEW i \in 1 .. Size, ConsumedTo(rows) < i
  PROVE  <<1, i>> \in Resumable(rows)
  <1>1. PICK line : line = ConsumedTo(rows)
    OBVIOUS
  <1>2. line \in 0 .. Size /\ i \in line + 1 .. Size
    BY <1>1, ConsumedOf, Numbers
  <1>3. PICK R, L : R = Recorded(rows) /\ L = Lines(line)
    OBVIOUS
  <1>4. /\ L \in Seq(Items)
        /\ \A n \in DOMAIN L : L[n].range.kind = 1 /\ L[n].range.inclStart /\ L[n].range.inclEnd
        /\ \A j \in line + 1 .. Size : \E n \in DOMAIN L :
              L[n].range.start <= j /\ j <= L[n].range.end
    BY <1>2, <1>3, LinesAfter
  <1>5. PICK n \in DOMAIN L : L[n].range.start <= i /\ i <= L[n].range.end
    BY <1>2, <1>4
  <1>6. L[n].range.start \in Int /\ L[n].range.end \in Int
    <2>1. L[n] \in Items
      BY <1>4, LenProperties
    <2> QED BY <2>1, Numbers DEF Items, KeyRanges
  <1>7. <<1, i>> \in Within(L[n].range)
    <2>1. Has(L[n].range, i) /\ L[n].range.kind = 1
      BY <1>4, <1>5, <1>6, Numbers DEF Has
    <2>2. <<L[n].range.kind, i>> \in Within(L[n].range)
      BY <2>1, InWithin
    <2> QED BY <2>1, <2>2
  <1>8. R \in Seq(Items)
    BY <1>3, RecordedItems
  <1>9. Len(R) + n \in DOMAIN (R \o L) /\ (R \o L)[Len(R) + n] = L[n]
    BY <1>4, <1>8, Concatenated
  <1>1a. PICK s : s = R \o L
    OBVIOUS
  <1>11. <<1, i>> \in WithinAll({s[j] : j \in DOMAIN s})
    <2>1. PICK j \in DOMAIN s : <<1, i>> \in Within(s[j].range)
      BY <1>7, <1>9, <1>1a
    <2> HIDE DEF Within
    <2> QED BY <2>1 DEF WithinAll
  <1>12. Batches(TRUE, rows) = s
    BY <1>1, <1>3, <1>1a DEF Batches
  <1> QED BY <1>11, <1>12 DEF Resumable

\* A line that no row says is sent is one that the next run sends.
LEMMA RowsTell ==
  ASSUME mode = "upload", mode \in Modes, NEW rows \in Seq(Rows),
         \A k \in DOMAIN rows : rows[k].kind = 1, Batched(rows), NoGap(rows),
         NEW e \in Wanted, ~Marked(rows, e)
  PROVE  e \in Resumable(rows)
  <1>1. PICK i \in 1 .. Size : e = <<1, i>>
    BY DEF Wanted
  <1>2. PICK line : line = ConsumedTo(rows)
    OBVIOUS
  <1>3. line \in Int /\ i \in Int /\ i >= 1
    BY <1>2, ConsumedOf, Numbers
  <1>4. CASE line < i
    BY <1>1, <1>2, <1>4, LinesResumable
  <1>5. CASE ~(line < i)
    <2>1. PICK j \in DOMAIN rows : line = rows[j].end
      BY <1>2, <1>3, <1>5, ConsumedOf
    <2>2. PICK k \in DOMAIN rows : rows[k].start <= i /\ i <= rows[k].end
      BY <1>3, <1>5, <2>1 DEF NoGap
    <2>3. rows[k] \in Rows
      BY LenProperties
    <2>4. rows[k].start \in Int /\ rows[k].end \in Int
      BY <2>3, Numbers DEF Rows
    <2>5. PICK r : r = RowRange(rows[k])
      OBVIOUS
    <2>6. r.kind = 1 /\ Has(r, i)
      BY <1>3, <2>2, <2>4, <2>5 DEF RowRange, KeyRange, Has
    <2>7. e \in Within(RowRange(rows[k]))
      BY <1>1, <2>5, <2>6, InWithin
    <2>8. Open(rows, k)
      BY <2>7 DEF Marked, Open, Batched
    <2> QED BY <2>7, <2>8, OpenResumable
  <1> QED BY <1>4, <1>5

LEMMA OwedFinite == IsFiniteSet(Wanted) /\ IsFiniteSet(Owed) /\ Cardinality(Owed) \in Nat
  <1>1. 1 \in Int /\ NumKinds \in Int /\ Size \in Int
    BY Numbers
  <1>2. IsFiniteSet(1 .. NumKinds) /\ IsFiniteSet(1 .. Size) /\ IsFiniteSet({1})
    BY <1>1, FS_Interval, FS_Singleton
  <1>3. IsFiniteSet(Wanted)
    BY <1>2, FS_Product DEF Wanted
  <1>4. Owed \in SUBSET Wanted
    BY DEF Owed
  <1> QED BY <1>3, <1>4, FS_Subset, FS_CardinalityType

LEMMA UploadKinds ==
  ASSUME TypeInv, mode = "upload"
  PROVE  /\ mode \in Modes /\ db \in Seq(Rows) /\ disk \in Seq(Rows)
         /\ \A k \in DOMAIN db : db[k].kind = 1
         /\ \A k \in DOMAIN disk : disk[k].kind = 1
         /\ \A a \in Actors : a # Source => todo[a] = <<>>
  BY Names DEF TypeInv, TypeOK, ItemInv, Kinds, ThreadInv

\* A step that neither records nor transfers anything.
LEMMA UploadKept ==
  ASSUME TypeInv, UploadInv,
         UNCHANGED <<mode, db, disk, toSend, sent, code>>, arrived \subseteq arrived',
         AtRest' => app' = app /\ arrived' = arrived, AtRest => AtRest',
         UNCHANGED <<LinesInOrder, LinesLeft, Owed>>, PostedInv'
  PROVE  UploadInv'
  <1> SUFFICES ASSUME mode = "upload"
               PROVE  /\ UploadRows(db)' /\ UploadRows(disk)'
                      /\ ~AtRest' => LinesInOrder' /\ LinesLeft'
                                     /\ sent' + Cardinality(Owed)' <= toSend'
                      /\ app' = "returned" /\ code' = 0 => arrived' = Wanted'
    BY DEF UploadInv
  <1>1. /\ UploadRows(db) /\ UploadRows(disk)
        /\ ~AtRest => LinesInOrder /\ LinesLeft /\ sent + Cardinality(Owed) <= toSend
        /\ app = "returned" /\ code = 0 => arrived = Wanted
    BY DEF UploadInv
  <1>2. UploadRows(db)' /\ UploadRows(disk)'
    BY <1>1 DEF UploadRows, Arrives
  <1>3. Owed' = Owed /\ Wanted' = Wanted
    BY DEF Wanted
  <1>4. Cardinality(Owed)' = Cardinality(Owed)
    BY <1>3
  <1>5. ~AtRest' => ~AtRest
    OBVIOUS
  <1>6. app' = "returned" => AtRest'
    BY DEF AtRest
  <1> QED BY <1>1, <1>2, <1>3, <1>4, <1>5, <1>6

LEMMA LinesKept ==
  ASSUME UNCHANGED <<mode, db, todo>>, pc'[Source] = pc[Source]
  PROVE  UNCHANGED <<LinesInOrder, LinesLeft, Owed>>
  <1>1. UNCHANGED <<LinesInOrder, LinesLeft>>
    BY DEF LinesInOrder, LinesLeft
  <1>2. UNCHANGED Owed
    BY DEF Owed, OwedRow, OwedLine, Wanted
  <1> QED BY <1>1, <1>2

LEMMA PostedKept ==
  ASSUME PostedInv, UNCHANGED <<messages>>, arrived \subseteq arrived' PROVE PostedInv'
  BY DEF PostedInv

LEMMA PostedSent ==
  ASSUME TypeInv, PostedInv, NEW a \in Actors \cup {Nobody}, NEW item \in Items,
         NEW entities \in SUBSET Wanted,
         messages' = Append(messages, Message(a, item, entities)),
         arrived \subseteq arrived', a = Nobody => Within(item.range) \subseteq arrived'
  PROVE  PostedInv'
  <1>1. PICK k : k = Len(messages) + 1
    OBVIOUS
  <1>2. /\ DOMAIN messages' = DOMAIN messages \cup {k}
        /\ messages'[k].item = item /\ messages'[k].from = a
        /\ \A n \in DOMAIN messages : messages'[n] = messages[n]
    BY <1>1, NoteSent DEF TypeInv
  <1> QED BY <1>2 DEF PostedInv

LEMMA PostedTaken ==
  ASSUME TypeInv, PostedInv, messages # <<>>, messages' = Tail(messages), arrived' = arrived
  PROVE  PostedInv'
  BY FirstOf DEF PostedInv

LEMMA MarkAsReadUpload ==
  ASSUME TypeInv, UploadInv, NEW a \in Actors, MarkAsRead(a) PROVE UploadInv'
  <1> SUFFICES ASSUME mode = "upload" PROVE UploadInv'
    BY DEF UploadInv, MarkAsRead
  <1>1. PICK item : item = Head(todo[a])
    OBVIOUS
  <1>2. /\ messages' = Append(messages, Message(a, item, {})) /\ todo[a] # <<>>
        /\ pc[a] = "add" /\ pc' = [pc EXCEPT ![a] = "submit"]
        /\ UNCHANGED <<mode, arrived, disk, db, pool, todo, own, sent, app, toSend, code>>
    BY <1>1 DEF MarkAsRead, Blocking, Ready, dbVars, appVars
  <1>3. item \in Items
    <2>1. todo[a] \in Seq(Items)
      BY TypesOf DEF TypeInv
    <2> QED BY <1>1, <1>2, <2>1, Taken
  <1>4. PICK none : none = {}
    OBVIOUS
  <1>5. PostedInv'
    <2>1. PostedInv /\ a \in Actors \cup {Nobody} /\ none \in SUBSET Wanted /\ a # Nobody
      BY <1>4, Names DEF UploadInv
    <2>2. messages' = Append(messages, Message(a, item, none)) /\ arrived \subseteq arrived'
      BY <1>2, <1>4
    <2> QED BY <1>3, <2>1, <2>2, PostedSent
  <1>6. UNCHANGED <<LinesInOrder, LinesLeft, Owed>>
    <2>1. pc[Source] # "exited" /\ pc'[Source] # "exited"
      BY <1>2, UploadKinds, Names DEF TypeInv, TypeOK
    <2>2. UNCHANGED <<LinesInOrder, LinesLeft>>
      BY <1>2, <2>1 DEF LinesInOrder, LinesLeft
    <2>3. UNCHANGED Owed
      BY <1>2 DEF Owed, OwedRow, OwedLine, Wanted
    <2> QED BY <2>2, <2>3
  <1>7. (AtRest' => app' = app /\ arrived' = arrived) /\ (AtRest => AtRest')
    BY <1>2 DEF AtRest
  <1> QED BY <1>2, <1>5, <1>6, <1>7, UploadKept

\* The data source submits an item that has a row, and its other lines stay.
LEMMA SubmitItemUpload ==
  ASSUME TypeInv, UploadInv, NEW a \in Actors, SubmitItem(a) PROVE UploadInv'
  <1> SUFFICES ASSUME mode = "upload" PROVE UploadInv'
    BY DEF UploadInv, SubmitItem
  <1>1. /\ pc[a] = "submit" /\ a \notin waiting /\ todo' = [todo EXCEPT ![a] = Tail(todo[a])]
        /\ pc' = [pc EXCEPT ![a] = Adding(a, Tail(todo[a]))]
        /\ UNCHANGED <<mode, arrived, disk, db, messages, own, sent, app, toSend, code>>
    BY DEF SubmitItem, Ready, dbVars, appVars
  <1>2. a = Source /\ todo[a] \in Seq(Items) /\ todo[a] # <<>> /\ todo \in [Actors -> Seq(Items)]
    BY <1>1, UploadKinds, TypesOf DEF TypeInv, ThreadInv, TypeOK
  <1>3. /\ todo[Source][1].key # NoKey
        /\ \A n \in DOMAIN todo'[Source] :
               /\ n \in Nat /\ n # 0 /\ n + 1 \in DOMAIN todo[Source]
               /\ todo'[Source][n] = todo[Source][n + 1]
        /\ \A n \in DOMAIN todo[Source] : n # 1 =>
               n - 1 \in DOMAIN todo'[Source] /\ todo'[Source][n - 1] = todo[Source][n]
    <2>1. todo'[Source] = Tail(todo[Source])
      BY <1>1, <1>2
    <2>2. todo[Source][1].key # NoKey
      BY <1>1, <1>2 DEF TypeInv, ThreadInv
    <2> QED BY <1>2, <2>1, <2>2, Taken
  <1>4. ~AtRest /\ ~AtRest'
    BY <1>1, StillRunning DEF AtRest
  <1>5. LinesInOrder /\ LinesLeft /\ PostedInv
    BY <1>4 DEF UploadInv
  <1>6. LinesInOrder'
    <2> SUFFICES ASSUME NEW n \in DOMAIN todo'[Source], todo'[Source][n].key = NoKey
                 PROVE  /\ todo'[Source][n].range.start >= 1
                        /\ todo'[Source][n].range.end <= Size
                        /\ todo'[Source][n].range.start <= todo'[Source][n].range.end
                        /\ \A k \in DOMAIN db' :
                               Open(db', k) => db'[k].end < todo'[Source][n].range.start
                        /\ \A m \in DOMAIN todo'[Source] : n < m =>
                               /\ todo'[Source][m].key = NoKey
                               /\ todo'[Source][n].range.end < todo'[Source][m].range.start
      BY DEF LinesInOrder, NoKey
    <2>1. n + 1 \in DOMAIN todo[Source] /\ todo'[Source][n] = todo[Source][n + 1] /\ n \in Nat
      BY <1>3
    <2>2. /\ todo[Source][n + 1].range.start >= 1 /\ todo[Source][n + 1].range.end <= Size
          /\ todo[Source][n + 1].range.start <= todo[Source][n + 1].range.end
          /\ \A k \in DOMAIN db : Open(db, k) => db[k].end < todo[Source][n + 1].range.start
          /\ \A m \in DOMAIN todo[Source] : n + 1 < m =>
               /\ todo[Source][m].key = NoKey
               /\ todo[Source][n + 1].range.end < todo[Source][m].range.start
      BY <1>5, <2>1 DEF LinesInOrder
    <2>3. ASSUME NEW m \in DOMAIN todo'[Source], n < m
          PROVE  /\ todo'[Source][m].key = NoKey
                 /\ todo'[Source][n].range.end < todo'[Source][m].range.start
      <3>1. m \in Nat /\ m + 1 \in DOMAIN todo[Source] /\ todo'[Source][m] = todo[Source][m + 1]
        BY <1>3
      <3>2. n + 1 < m + 1
        BY <2>1, <2>3, <3>1
      <3> QED BY <2>1, <2>2, <3>1, <3>2
    <2> QED BY <1>1, <2>1, <2>2, <2>3
  <1>7. LinesLeft'
    <2> SUFFICES ASSUME NEW m \in 1 .. Size, \A k \in DOMAIN db : db[k].end < m
                 PROVE  \E n \in DOMAIN todo'[Source] :
                            /\ todo'[Source][n].key = NoKey
                            /\ todo'[Source][n].range.start <= m
                            /\ m <= todo'[Source][n].range.end
      BY <1>1 DEF LinesLeft, NoKey
    <2>1. PICK n \in DOMAIN todo[Source] :
              /\ todo[Source][n].key = NoKey
              /\ todo[Source][n].range.start <= m /\ m <= todo[Source][n].range.end
      BY <1>1, <1>2, <1>5 DEF LinesLeft
    <2>2. n - 1 \in DOMAIN todo'[Source] /\ todo'[Source][n - 1] = todo[Source][n]
      BY <1>3, <2>1
    <2> QED BY <2>1, <2>2
  <1>8. PostedInv' /\ Owed' = Owed /\ Cardinality(Owed)' = Cardinality(Owed)
    <2>1. \A e : OwedLine(e)' <=> OwedLine(e)
      <3>1. ASSUME NEW e, OwedLine(e) PROVE OwedLine(e)'
        <4>1. PICK n \in DOMAIN todo[Source] :
                  todo[Source][n].key = NoKey /\ e \in Within(todo[Source][n].range)
          BY <3>1 DEF OwedLine
        <4>2. n - 1 \in DOMAIN todo'[Source] /\ todo'[Source][n - 1] = todo[Source][n]
          BY <1>3, <4>1
        <4> HIDE DEF Within
        <4> QED BY <4>1, <4>2 DEF OwedLine, NoKey
      <3>2. ASSUME NEW e, OwedLine(e)' PROVE OwedLine(e)
        <4>1. PICK n \in DOMAIN todo'[Source] :
                  todo'[Source][n].key = NoKey /\ e \in Within(todo'[Source][n].range)
          BY <3>2 DEF OwedLine, NoKey, Within
        <4>2. n + 1 \in DOMAIN todo[Source] /\ todo'[Source][n] = todo[Source][n + 1]
          BY <1>3, <4>1
        <4> HIDE DEF Within
        <4> QED BY <4>1, <4>2 DEF OwedLine
      <3> QED BY <3>1, <3>2
    <2>2. Owed' = Owed
      BY <1>1, <2>1 DEF Owed, OwedRow, Wanted
    <2> QED BY <1>1, <1>5, <2>2 DEF PostedInv
  <1>9. UploadRows(db)' /\ UploadRows(disk)'
    BY <1>1 DEF UploadInv, UploadRows, Arrives
  <1>10. sent + Cardinality(Owed) <= toSend
    BY <1>4 DEF UploadInv
  <1>11. app' # "returned"
    BY <1>4 DEF AtRest
  <1> QED BY <1>1, <1>6, <1>7, <1>8, <1>9, <1>10, <1>11 DEF UploadInv

LEMMA SourceExitsUpload == ASSUME TypeInv, UploadInv, SourceExits PROVE UploadInv'
  <1>1. /\ app = "failing" /\ pc' = [pc EXCEPT ![Source] = "exited"]
        /\ UNCHANGED <<mode, arrived, disk, db, messages, todo, own, sent, app, toSend, code>>
    BY DEF SourceExits, dbVars, appVars
  <1>2. pc'[Source] = "exited"
    BY <1>1, Names DEF TypeInv, TypeOK
  <1> SUFFICES ASSUME mode = "upload" PROVE UploadInv'
    BY <1>1 DEF UploadInv
  <1>3. ~AtRest /\ ~AtRest' /\ app' # "returned"
    BY <1>1 DEF AtRest
  <1>4. LinesInOrder' /\ LinesLeft'
    BY <1>1, <1>2, <1>3 DEF UploadInv, LinesInOrder, LinesLeft
  <1>5. PostedInv' /\ Owed' = Owed /\ Cardinality(Owed)' = Cardinality(Owed)
    BY <1>1 DEF UploadInv, PostedInv, Owed, OwedRow, OwedLine, Wanted
  <1>6. UploadRows(db)' /\ UploadRows(disk)'
    BY <1>1 DEF UploadInv, UploadRows, Arrives
  <1>7. sent + Cardinality(Owed) <= toSend
    BY <1>3 DEF UploadInv
  <1> QED BY <1>1, <1>3, <1>4, <1>5, <1>6, <1>7 DEF UploadInv

\* What the workers do to an upload's invariant.
LEMMA WorkerUpload ==
  ASSUME TypeInv, UploadInv, NEW w \in Workers, NEW where,
         ~AtRest, arrived \subseteq arrived', pc' = [pc EXCEPT ![w] = where],
         UNCHANGED <<mode, disk, db, todo, sent, app, toSend, code>>,
         PostedInv => PostedInv'
  PROVE  UploadInv'
  <1> SUFFICES ASSUME mode = "upload" PROVE UploadInv'
    BY DEF UploadInv
  <1>1. pc'[Source] = pc[Source]
    BY Names DEF TypeInv, TypeOK
  <1>2. UNCHANGED <<LinesInOrder, LinesLeft, Owed>>
    BY <1>1, LinesKept
  <1>3. ~AtRest'
    BY DEF AtRest
  <1>4. PostedInv'
    BY DEF UploadInv
  <1> QED BY <1>2, <1>3, <1>4, UploadKept

LEMMA MarkAsTransferringUpload ==
  ASSUME TypeInv, UploadInv, NEW w \in Workers, MarkAsTransferring(w) PROVE UploadInv'
  <1>1. PICK x \in pool, mine \in Items :
            /\ mine.state = "GETTING" /\ mine.key = x.key /\ mine.range = x.range
            /\ app = "running" /\ pc[w] = "idle" /\ w \notin waiting
            /\ pool' = pool \ {x}
            /\ own' = [own EXCEPT ![w] = mine] /\ own'[w] = mine
            /\ messages' = Append(messages, Message(w, mine, {}))
            /\ waiting' = waiting \cup {w} /\ pc' = [pc EXCEPT ![w] = "transfer"]
            /\ UNCHANGED <<mode, arrived, disk, db, ops, stored, todo, sent,
                           app, error, toSend, code, runs, lost>>
    BY MarkAsTransferringShape
  <1>2. PICK none : none = {}
    OBVIOUS
  <1>3. /\ w \in Actors \cup {Nobody} /\ w # Nobody /\ none \in SUBSET Wanted
        /\ messages' = Append(messages, Message(w, mine, none)) /\ arrived \subseteq arrived'
    BY <1>1, <1>2, Names
  <1>4. PostedInv => PostedInv'
    BY <1>3, PostedSent
  <1>5. ~AtRest
    BY <1>1 DEF AtRest
  <1> QED BY <1>1, <1>3, <1>4, <1>5, WorkerUpload

LEMMA PostEntitiesUpload ==
  ASSUME TypeInv, UploadInv, NEW w \in Workers, PostEntities(w) PROVE UploadInv'
  <1>1. PICK item \in Items :
            /\ item.state = "GOT" /\ item.key = own[w].key /\ item.range = own[w].range
            /\ mode = "upload" /\ pc[w] = "transfer" /\ w \notin waiting /\ todo[w] = <<>>
            /\ arrived' = arrived \cup Within(own[w].range)
            /\ messages' = Append(messages, Message(Nobody, item, {}))
            /\ own' = [own EXCEPT ![w] = Idle] /\ pc' = [pc EXCEPT ![w] = "idle"]
            /\ UNCHANGED <<mode, disk, db, ops, stored, waiting, pool, todo, sent,
                           app, error, toSend, code, runs, lost>>
    BY PostEntitiesShape
  <1>2. PICK none, a : none = {} /\ a = Nobody
    OBVIOUS
  <1>3. /\ a \in Actors \cup {Nobody} /\ none \in SUBSET Wanted
        /\ messages' = Append(messages, Message(a, item, none)) /\ arrived \subseteq arrived'
        /\ Within(item.range) \subseteq arrived'
    BY <1>1, <1>2
  <1>4. PostedInv => PostedInv'
    BY <1>3, PostedSent
  <1>5. ~AtRest
    BY <1>1, Names, StillRunning
  <1> QED BY <1>1, <1>3, <1>4, <1>5, WorkerUpload

LEMMA MarkAsErrorUpload ==
  ASSUME TypeInv, UploadInv, NEW w \in Workers, MarkAsError(w) PROVE UploadInv'
  <1>1. PICK mine \in Items, where \in {"reput", "dead"} :
            /\ mine.state = "ERROR" /\ mine.key = own[w].key /\ mine.range = own[w].range
            /\ pc[w] = "transfer" /\ w \notin waiting
            /\ own' = [own EXCEPT ![w] = mine] /\ own'[w] = mine
            /\ messages' = Append(messages, Message(w, mine, {}))
            /\ waiting' = waiting \cup {w} /\ pc' = [pc EXCEPT ![w] = where]
            /\ \/ arrived' = arrived
               \/ mode = "upload" /\ arrived' = arrived \cup Within(own[w].range)
            /\ UNCHANGED <<mode, disk, db, ops, stored, pool, todo, sent,
                           app, error, toSend, code, runs, lost>>
    BY MarkAsErrorShape
  <1>2. PICK none : none = {}
    OBVIOUS
  <1>3. /\ w \in Actors \cup {Nobody} /\ w # Nobody /\ none \in SUBSET Wanted
        /\ messages' = Append(messages, Message(w, mine, none)) /\ arrived \subseteq arrived'
    BY <1>1, <1>2, Names
  <1>4. PostedInv => PostedInv'
    BY <1>3, PostedSent
  <1>5. ~AtRest
    BY <1>1, Names, StillRunning
  <1> QED BY <1>1, <1>3, <1>4, <1>5, WorkerUpload

LEMMA ReputUpload ==
  ASSUME TypeInv, UploadInv, NEW w \in Workers, Reput(w) PROVE UploadInv'
  <1>1. /\ pc[w] = "reput" /\ pc' = [pc EXCEPT ![w] = "idle"]
        /\ UNCHANGED <<mode, arrived, disk, db, messages, todo, sent, app, toSend, code>>
    BY DEF Reput, Ready, dbVars, appVars
  <1>2. ~AtRest
    BY <1>1, Names, StillRunning
  <1>3. PostedInv => PostedInv'
    BY <1>1 DEF PostedInv
  <1> QED BY <1>1, <1>2, <1>3, WorkerUpload

\* What an upload's database commits, if anything, are all rows so far.
LEMMA UploadCommitted ==
  ASSUME TypeInv, MaybeCommit, UploadRows(db)', UploadRows(disk), arrived' = arrived
  PROVE  UploadRows(disk)'
  <1>1. disk' = db' \/ disk' = disk
    BY Committed DEF TypeInv
  <1>2. CASE disk' = db'
    BY <1>2 DEF UploadRows, Batched, NoGap, Arrives
  <1>3. CASE disk' = disk
    BY <1>3 DEF UploadRows, Batched, NoGap, Arrives
  <1> QED BY <1>1, <1>2, <1>3

\* The next batch follows the rows that there are.
LEMMA StoreKeysUpload == ASSUME TypeInv, KeyInv, UploadInv, StoreKeys PROVE UploadInv'
  <1>1. PICK a \in Actors, row \in Rows, x \in Items :
            /\ a = messages[1].from /\ a \in waiting /\ pc[a] = "submit"
            /\ todo[a] \in Seq(Items) /\ todo[a] # <<>> /\ 1 \in DOMAIN todo[a]
            /\ messages # <<>> /\ messages[1].item.state = "READ" /\ messages[1].item.key = NoKey
            /\ messages[1].item = todo[a][1]
            /\ row.kind = todo[a][1].range.kind /\ row.start = todo[a][1].range.start
            /\ row.end = todo[a][1].range.end /\ row.state = "READ"
            /\ row.kind \in Kinds
            /\ db' = Append(db, row)
            /\ x.range = todo[a][1].range /\ x.state = "READ" /\ x.key = Len(db) + 1
            /\ Len(db) + 1 \in Nat /\ Len(db) + 1 # NoKey
            /\ todo' = [todo EXCEPT ![a] = [todo[a] EXCEPT ![1] = x]]
            /\ MaybeCommit /\ Acknowledge
            /\ UNCHANGED <<mode, arrived, stored, pool, own, pc, sent,
                           app, error, toSend, code, runs, lost>>
    BY StoreKeysShape
  <1> SUFFICES ASSUME mode = "upload" PROVE UploadInv'
    BY <1>1 DEF UploadInv
  <1>2. PICK new : new = Len(db) + 1
    OBVIOUS
  <1>3. /\ DOMAIN db' = DOMAIN db \cup {new} /\ new \notin DOMAIN db /\ db'[new] = row
        /\ \A n \in DOMAIN db : db'[n] = db[n] /\ n < new /\ n \in Nat
        /\ new \in Nat /\ new # NoKey /\ x.key = new
    <2>1. db \in Seq(Rows) /\ \A n \in DOMAIN db : n \in Nat
      BY UploadKinds, TypesOf DEF TypeInv
    <2> QED BY <1>1, <1>2, <2>1, Appended
  <1>4. a = Source
    BY <1>1, UploadKinds
  <1>5. /\ 1 \in DOMAIN todo[Source] /\ todo'[Source][1] = x
        /\ DOMAIN todo'[Source] = DOMAIN todo[Source]
        /\ \A n \in DOMAIN todo[Source] : n # 1 => todo'[Source][n] = todo[Source][n]
        /\ \A n \in DOMAIN todo[Source] : n \in Nat /\ (n # 1 => 1 < n)
    <2>1. \A n \in DOMAIN todo[Source] : n \in Nat /\ (n # 1 => 1 < n)
      <3>1. DOMAIN todo[Source] = 1 .. Len(todo[Source]) /\ Len(todo[Source]) \in Nat
        BY <1>1, <1>4, LenProperties
      <3> QED BY <3>1
    <2> QED BY <1>1, <1>4, <2>1 DEF TypeInv, TypeOK
  <1>6. ~AtRest /\ ~AtRest' /\ app' # "returned"
    BY <1>1, StillRunning DEF AtRest
  <1>7. /\ LinesInOrder /\ LinesLeft /\ UploadRows(db) /\ UploadRows(disk) /\ PostedInv
        /\ sent + Cardinality(Owed) <= toSend
    BY <1>6 DEF UploadInv
  <1>8. /\ row.start >= 1 /\ row.end <= Size /\ row.start <= row.end
        /\ \A k \in DOMAIN db : Open(db, k) => db[k].end < row.start
        /\ \A m \in DOMAIN todo[Source] : 1 < m =>
               todo[Source][m].key = NoKey /\ row.end < todo[Source][m].range.start
    BY <1>1, <1>4, <1>5, <1>7 DEF LinesInOrder
  <1>9. row.start \in Int /\ row.end \in Int /\ Size \in Int
        /\ \A k \in DOMAIN db : db[k].end \in Int
    <2>1. \A k \in DOMAIN db : db[k].end \in Int
      BY TypesOf, Numbers DEF TypeInv, Rows
    <2> QED BY <2>1, Numbers DEF Rows
  <1>9a. \A n \in DOMAIN todo[Source] : todo[Source][n].range.start \in Int
    <2>1. \A n \in DOMAIN todo[Source] : todo[Source][n].range \in KeyRanges
      BY TypesOf, Names DEF TypeInv
    <2> QED BY <2>1, Numbers DEF KeyRanges
  <1>10. Batched(db')
    <2>1. ASSUME NEW k \in DOMAIN db'
          PROVE  /\ db'[k].start >= 1 /\ db'[k].end <= Size /\ db'[k].state # "deleted"
                 /\ db'[k].start <= db'[k].end
      BY <1>1, <1>3, <1>7, <1>8 DEF UploadRows, Batched
    <2>2. ASSUME NEW j \in DOMAIN db', NEW k \in DOMAIN db', j < k,
                 Open(db', j), Open(db', k)
          PROVE  db'[j].end < db'[k].start
      <3>1. j \in DOMAIN db /\ Open(db, j)
        BY <1>3, <2>2 DEF Open
      <3>2. CASE k = new
        BY <1>3, <1>8, <3>1, <3>2
      <3>3. CASE k # new
        BY <1>3, <1>7, <2>2, <3>1, <3>3 DEF UploadRows, Batched, Open
      <3> QED BY <3>2, <3>3
    <2> QED BY <2>1, <2>2 DEF Batched
  <1>11. NoGap(db')
    <2> SUFFICES ASSUME NEW m \in 1 .. Size, NEW j \in DOMAIN db', m <= db'[j].end
                 PROVE  \E k \in DOMAIN db' : db'[k].start <= m /\ m <= db'[k].end
      BY DEF NoGap
    <2>1. CASE \E k \in DOMAIN db : m <= db[k].end
      <3>1. PICK k \in DOMAIN db : db[k].start <= m /\ m <= db[k].end
        BY <1>7, <2>1 DEF UploadRows, NoGap
      <3> QED BY <1>3, <3>1
    <2>2. CASE ~ \E k \in DOMAIN db : m <= db[k].end
      <3>1. j = new /\ m <= row.end
        BY <1>3, <2>2
      <3>2. \A k \in DOMAIN db : db[k].end < m
        BY <1>9, <2>2
      <3>3. PICK n \in DOMAIN todo[Source] :
                /\ todo[Source][n].key = NoKey
                /\ todo[Source][n].range.start <= m /\ m <= todo[Source][n].range.end
        BY <1>1, <1>4, <1>7, <3>2 DEF LinesLeft
      <3>4. n = 1
        <4> SUFFICES ASSUME n # 1 PROVE FALSE
          OBVIOUS
        <4>1. row.end < todo[Source][n].range.start
          BY <1>5, <1>8
        <4>2. m \in Int
          BY Numbers
        <4>3. row.end \in Int
          BY <1>9
        <4>5. todo[Source][n].range.start \in Int
          BY <1>9a
        <4>4. todo[Source][n].range.start <= m /\ m <= row.end
          BY <3>1, <3>3
        <4> QED BY <4>1, <4>2, <4>3, <4>4, <4>5
      <3>5. row.start <= m
        BY <1>1, <1>4, <3>3, <3>4
      <3> QED BY <1>3, <3>1, <3>5
    <2> QED BY <2>1, <2>2
  <1>12. UploadRows(db)'
    BY <1>1, <1>3, <1>7, <1>10, <1>11 DEF UploadRows, Arrives
  <1>13. UploadRows(disk)'
    BY <1>1, <1>7, <1>12, UploadCommitted
  <1>14. PostedInv'
    BY <1>1, <1>7, PostedTaken DEF Acknowledge
  <1>15. LinesInOrder'
    <2> SUFFICES ASSUME NEW n \in DOMAIN todo'[Source], todo'[Source][n].key = NoKey
                 PROVE  /\ todo'[Source][n].range.start >= 1
                        /\ todo'[Source][n].range.end <= Size
                        /\ todo'[Source][n].range.start <= todo'[Source][n].range.end
                        /\ \A k \in DOMAIN db' :
                               Open(db', k) => db'[k].end < todo'[Source][n].range.start
                        /\ \A m \in DOMAIN todo'[Source] : n < m =>
                               /\ todo'[Source][m].key = NoKey
                               /\ todo'[Source][n].range.end < todo'[Source][m].range.start
      BY DEF LinesInOrder, NoKey
    <2>1. n # 1 /\ n \in DOMAIN todo[Source] /\ todo'[Source][n] = todo[Source][n] /\ 1 < n
      BY <1>3, <1>5
    <2>2. /\ todo[Source][n].range.start >= 1 /\ todo[Source][n].range.end <= Size
          /\ todo[Source][n].range.start <= todo[Source][n].range.end
          /\ \A k \in DOMAIN db : Open(db, k) => db[k].end < todo[Source][n].range.start
          /\ \A m \in DOMAIN todo[Source] : n < m =>
               /\ todo[Source][m].key = NoKey
               /\ todo[Source][n].range.end < todo[Source][m].range.start
      BY <1>7, <2>1 DEF LinesInOrder
    <2>3. \A k \in DOMAIN db' : Open(db', k) => db'[k].end < todo'[Source][n].range.start
      BY <1>3, <1>8, <2>1, <2>2 DEF Open
    <2>4. \A m \in DOMAIN todo'[Source] : n < m =>
             /\ todo'[Source][m].key = NoKey
             /\ todo'[Source][n].range.end < todo'[Source][m].range.start
      BY <1>5, <2>1, <2>2
    <2> QED BY <2>1, <2>2, <2>3, <2>4
  <1>16. LinesLeft'
    <2> SUFFICES ASSUME NEW m \in 1 .. Size, \A k \in DOMAIN db' : db'[k].end < m
                 PROVE  \E n \in DOMAIN todo'[Source] :
                            /\ todo'[Source][n].key = NoKey
                            /\ todo'[Source][n].range.start <= m
                            /\ m <= todo'[Source][n].range.end
      BY DEF LinesLeft, NoKey
    <2>1. (\A k \in DOMAIN db : db[k].end < m) /\ row.end < m
      BY <1>3
    <2>2. PICK n \in DOMAIN todo[Source] :
              /\ todo[Source][n].key = NoKey
              /\ todo[Source][n].range.start <= m /\ m <= todo[Source][n].range.end
      BY <1>1, <1>4, <1>7, <2>1 DEF LinesLeft
    <2>3. n # 1
      BY <1>1, <1>4, <1>9, <1>9a, <2>1, <2>2
    <2> QED BY <1>5, <2>2, <2>3
  <1>17. Owed' = Owed
    <2>1. PICK first : first = todo[Source][1]
      OBVIOUS
    <2>2. first.key = NoKey /\ first.range.inclStart /\ first.range.inclEnd
      BY <1>1, <1>4, <2>1, Names DEF KeyInv, RowsInv, TodoRows
    <2>3. \A e : e \in Within(first.range) <=> e \in Within(RowRange(row))
      <3>1. /\ first.range.kind = RowRange(row).kind
            /\ \A n : Has(first.range, n) <=> Has(RowRange(row), n)
        BY <1>1, <1>4, <2>1, <2>2 DEF RowRange, KeyRange, Has
      <3> QED BY <3>1, InWithin
    <2>4. \A e : OwedRow(db', e) <=> OwedRow(db, e) \/ e \in Within(RowRange(row))
      <3> HIDE DEF Within
      <3>1. Open(db', new) /\ RowRange(db'[new]) = RowRange(row)
        BY <1>1, <1>3 DEF Open
      <3>2. \A k \in DOMAIN db :
               (Open(db', k) <=> Open(db, k)) /\ RowRange(db'[k]) = RowRange(db[k])
        BY <1>3 DEF Open
      <3> QED BY <1>3, <3>1, <3>2 DEF OwedRow
    <2>5. \A e : OwedLine(e) <=> OwedLine(e)' \/ e \in Within(first.range)
      <3>1. ASSUME NEW e, OwedLine(e) PROVE OwedLine(e)' \/ e \in Within(first.range)
        <4>1. PICK n \in DOMAIN todo[Source] :
                  todo[Source][n].key = NoKey /\ e \in Within(todo[Source][n].range)
          BY <3>1 DEF OwedLine
        <4>2. n # 1 => n \in DOMAIN todo'[Source] /\ todo'[Source][n] = todo[Source][n]
          BY <1>5
        <4> HIDE DEF Within
        <4> QED BY <2>1, <4>1, <4>2 DEF OwedLine, NoKey
      <3>2. ASSUME NEW e, OwedLine(e)' PROVE OwedLine(e)
        <4>1. PICK n \in DOMAIN todo'[Source] :
                  todo'[Source][n].key = NoKey /\ e \in Within(todo'[Source][n].range)
          BY <3>2 DEF OwedLine, NoKey, Within
        <4>2. n \in DOMAIN todo[Source] /\ n # 1 /\ todo'[Source][n] = todo[Source][n]
          BY <1>3, <1>5, <4>1
        <4> HIDE DEF Within
        <4> QED BY <4>1, <4>2 DEF OwedLine
      <3>3. ASSUME NEW e, e \in Within(first.range) PROVE OwedLine(e)
        <4> HIDE DEF Within
        <4> QED BY <1>5, <2>1, <2>2, <3>3 DEF OwedLine
      <3> QED BY <3>1, <3>2, <3>3
    <2>6. \A e : OwedRow(db', e) \/ OwedLine(e)' <=> OwedRow(db, e) \/ OwedLine(e)
      BY <2>3, <2>4, <2>5
    <2> QED BY <1>1, <2>6 DEF Owed, Wanted
  <1>18. sent' + Cardinality(Owed)' <= toSend'
    BY <1>1, <1>7, <1>17
  <1> QED BY <1>6, <1>12, <1>13, <1>14, <1>15, <1>16, <1>18 DEF UploadInv

\* Rows of which one changes its state leave no gap and tell what arrived.
LEMMA UpdateStateUpload == ASSUME TypeInv, KeyInv, UploadInv, UpdateState PROVE UploadInv'
  <1>1. PICK state, key : state = messages[1].item.state /\ key = messages[1].item.key
    OBVIOUS
  <1>2. /\ messages # <<>> /\ key # NoKey /\ state \in States
        /\ db' = [db EXCEPT ![key].state = state]
        /\ sent' = IF state = "GOT"
                   THEN sent + Cardinality(Within(messages[1].item.range)) ELSE sent
        /\ MaybeCommit /\ messages' = Tail(messages)
        /\ UNCHANGED <<mode, arrived, todo, pc, app, toSend, code>>
    BY <1>1, UpdateStateShape DEF Acknowledge
  <1> SUFFICES ASSUME mode = "upload" PROVE UploadInv'
    BY <1>2 DEF UploadInv
  <1>3. /\ DOMAIN db' = DOMAIN db
        /\ \A n \in DOMAIN db : n # key => db'[n] = db[n]
        /\ \A n \in DOMAIN db : /\ db'[n].kind = db[n].kind /\ db'[n].start = db[n].start
                                /\ db'[n].end = db[n].end
        /\ key \in DOMAIN db => db'[key].state = state
    <2>1. db \in Seq(Rows) /\ state \in States \cup {"deleted"}
      BY <1>2, UploadKinds
    <2> QED BY <1>2, <2>1, RowChanged
  <1>4. ~AtRest /\ ~AtRest' /\ app' # "returned"
    BY <1>2, FirstOf DEF AtRest
  <1>5. /\ LinesInOrder /\ LinesLeft /\ UploadRows(db) /\ UploadRows(disk) /\ PostedInv
        /\ sent + Cardinality(Owed) <= toSend
    BY <1>4 DEF UploadInv
  <1>6. PICK x : x = messages[1].item
    OBVIOUS
  <1>7. RowFor(mode, db, x)
    <2>1. CASE IsGot(messages[1])
      BY <1>2, <1>6, <2>1, FirstOf DEF KeyInv, RowsInv, GotRows
    <2>2. CASE ~IsGot(messages[1])
      <3>1. PICK a : a = messages[1].from
        OBVIOUS
      <3>2. \/ a \in Actors /\ pc[a] = "submit" /\ x = todo[a][1]
            \/ a \in Workers /\ x = own[a]
        BY <1>2, <1>6, <2>2, <3>1, FirstOf, Names
           DEF Sensible, FromAdder, FromWorker, FromNobody, IsGot
      <3>3. CASE a \in Actors /\ pc[a] = "submit" /\ x = todo[a][1]
        <4>1. todo[a] # <<>> /\ todo[a] \in Seq(Items)
          BY <3>3, TypesOf DEF TypeInv, ThreadInv
        <4>2. 1 \in DOMAIN todo[a]
          BY <4>1, Taken
        <4> QED BY <1>1, <1>2, <1>6, <3>3, <4>2 DEF KeyInv, RowsInv, TodoRows
      <3>4. CASE a \in Workers /\ x = own[a]
        BY <1>1, <1>2, <1>6, <3>4 DEF KeyInv, RowsInv, OwnRows
      <3> QED BY <3>2, <3>3, <3>4
    <2> QED BY <2>1, <2>2
  <1>8. x.key = key /\ key \in DOMAIN db /\ Open(db, key)
    BY <1>1, <1>6, <1>7 DEF RowFor
  <1>9. Within(x.range) = Within(RowRange(db[key]))
    <2>1. /\ x.range.kind = RowRange(db[key]).kind
          /\ \A n : Has(x.range, n) <=> Has(RowRange(db[key]), n)
      BY <1>7, <1>8 DEF RowFor, RowRange, KeyRange, Has
    <2>2. \A e : e \in Within(x.range) <=> e \in Within(RowRange(db[key]))
      BY <2>1, InWithin
    <2> QED BY <2>2
  <1>10. \A n \in DOMAIN db : RowRange(db'[n]) = RowRange(db[n])
    BY <1>3 DEF RowRange
  <1>11. state = "GOT" => Within(RowRange(db[key])) \subseteq arrived
    <2> SUFFICES ASSUME state = "GOT" PROVE Within(RowRange(db[key])) \subseteq arrived
      OBVIOUS
    <2>1. messages[1].from = Nobody /\ 1 \in DOMAIN messages
      BY <1>1, <1>2, FirstOf DEF Sensible, FromAdder, FromWorker
    <2> QED BY <1>5, <1>6, <1>9, <2>1 DEF PostedInv
  <1>12. UploadRows(db)'
    <2>1. Batched(db')
      <3>1. \A k \in DOMAIN db : Open(db', k) => Open(db, k)
        BY <1>3, <1>8 DEF Open
      <3>2. /\ \A k \in DOMAIN db :
                   /\ db[k].start >= 1 /\ db[k].start <= db[k].end /\ db[k].end <= Size
                   /\ db[k].state # "deleted"
            /\ \A m, k \in DOMAIN db :
                   m < k /\ Open(db, m) /\ Open(db, k) => db[m].end < db[k].start
        BY <1>5 DEF UploadRows, Batched
      <3>3. \A k \in DOMAIN db : db'[k].state # "deleted"
        BY <1>2, <1>3, <3>2 DEF States
      <3> QED BY <1>3, <3>1, <3>2, <3>3 DEF Batched
    <2>2. NoGap(db')
      BY <1>3, <1>5 DEF UploadRows, NoGap
    <2>3. Arrives(db)'
      BY <1>2, <1>3, <1>5, <1>10, <1>11 DEF UploadRows, Arrives
    <2> QED BY <2>1, <2>2, <2>3 DEF UploadRows
  <1>13. UploadRows(disk)'
    BY <1>2, <1>5, <1>12, UploadCommitted
  <1>14. PostedInv'
    BY <1>2, <1>5, PostedTaken
  <1>15. LinesInOrder' /\ LinesLeft'
    <2>1. \A k \in DOMAIN db : Open(db', k) => Open(db, k)
      BY <1>3, <1>8 DEF Open
    <2>2. \A k \in DOMAIN db' : Open(db', k) => k \in DOMAIN db /\ Open(db, k) /\ db'[k].end = db[k].end
      BY <1>3, <2>1
    <2>3. UNCHANGED <<todo, pc>>
      BY <1>2
    <2>4. LinesInOrder'
      <3>1. LinesInOrder
        BY <1>5
      <3> HIDE DEF Open
      <3> QED BY <2>2, <2>3, <3>1 DEF LinesInOrder
    <2>5. LinesLeft'
      <3>1. \A m : (\A k \in DOMAIN db' : db'[k].end < m) => (\A k \in DOMAIN db : db[k].end < m)
        BY <1>3
      <3>2. LinesLeft
        BY <1>5
      <3> QED BY <2>3, <3>1, <3>2 DEF LinesLeft
    <2> QED BY <2>4, <2>5
  <1>16. \A e : OwedLine(e)' <=> OwedLine(e)
    BY <1>2 DEF OwedLine
  <1>17. sent' + Cardinality(Owed)' <= toSend'
    <2>1. CASE state # "GOT"
      <3>1. \A k \in DOMAIN db : Open(db', k) <=> Open(db, k)
        BY <1>2, <1>3, <1>8, <2>1 DEF Open, States
      <3>2. \A e : OwedRow(db', e) <=> OwedRow(db, e)
        <4> HIDE DEF Within
        <4> QED BY <1>3, <1>10, <3>1 DEF OwedRow
      <3>3. Owed' = Owed
        BY <1>2, <1>16, <3>2 DEF Owed, Wanted
      <3> QED BY <1>2, <1>5, <2>1, <3>3
    <2>2. CASE state = "GOT"
      <3>1. PICK W : W = Within(RowRange(db[key]))
        OBVIOUS
      <3>2. ASSUME NEW e \in W
            PROVE  /\ e[2] \in 1 .. Size
                   /\ db[key].start <= e[2] /\ e[2] <= db[key].end
        <4>1. Has(RowRange(db[key]), e[2]) /\ e[2] \in 1 .. Size
          BY <3>1, <3>2, InWithin
        <4>2. PICK i : i = e[2]
          OBVIOUS
        <4>3. db[key].start \in Int /\ db[key].end \in Int /\ i \in Int
          <5>1. db[key] \in Rows
            BY <1>8, TypesOf DEF TypeInv
          <5> QED BY <4>1, <4>2, <5>1, Numbers DEF Rows
        <4>4. db[key].start <= i /\ i <= db[key].end
          BY <4>1, <4>2, <4>3 DEF RowRange, KeyRange, Has
        <4> QED BY <4>1, <4>2, <4>4
      <3>3. ASSUME NEW e \in W, NEW k \in DOMAIN db, k # key, Open(db, k),
                   e \in Within(RowRange(db[k]))
            PROVE  FALSE
        <4>1. Has(RowRange(db[k]), e[2])
          BY <3>3, InWithin
        <4>2. PICK i : i = e[2]
          OBVIOUS
        <4>3. /\ db[k] \in Rows /\ db[key] \in Rows /\ k \in Nat /\ key \in Nat
          BY <1>8, TypesOf DEF TypeInv
        <4>4. /\ db[k].start \in Int /\ db[k].end \in Int /\ db[key].start \in Int
              /\ db[key].end \in Int /\ i \in Int
          <5>1. i \in Int
            BY <3>2, <4>2, Numbers
          <5> QED BY <4>3, <5>1, Numbers DEF Rows
        <4>5. db[k].start <= i /\ i <= db[k].end
          BY <4>1, <4>2, <4>4 DEF RowRange, KeyRange, Has
        <4>6. db[key].start <= i /\ i <= db[key].end
          BY <3>2, <4>2
        <4>7. db[k].end < db[key].start \/ db[key].end < db[k].start
          BY <1>5, <1>8, <3>3, <4>3 DEF UploadRows, Batched
        <4> QED BY <4>4, <4>5, <4>6, <4>7
      <3>4. ASSUME NEW e \in W, OwedLine(e) PROVE FALSE
        <4>1. PICK n \in DOMAIN todo[Source] :
                  todo[Source][n].key = NoKey /\ e \in Within(todo[Source][n].range)
          BY <3>4 DEF OwedLine
        <4>2. PICK q, i : q = todo[Source][n].range /\ i = e[2]
          OBVIOUS
        <4>3. q \in KeyRanges
          BY <4>1, <4>2, TypesOf, Names DEF TypeInv
        <4>4. Has(q, i)
          BY <4>1, <4>2, InWithin
        <4>5. db[key] \in Rows
          BY <1>8, TypesOf DEF TypeInv
        <4>6. q.start \in Int /\ db[key].end \in Int /\ i \in Int
          <5>1. i \in Int
            BY <3>2, <4>2, Numbers
          <5> QED BY <4>3, <4>5, <5>1, Numbers DEF Rows, KeyRanges
        <4>7. q.start <= i
          BY <4>4, <4>6 DEF Has
        <4>8. i <= db[key].end
          BY <3>2, <4>2
        <4>9. db[key].end < q.start
          BY <1>5, <1>8, <4>1, <4>2 DEF LinesInOrder
        <4> QED BY <4>6, <4>7, <4>8, <4>9
      <3>5. W \subseteq Wanted
        BY <1>11, <2>2, <3>1 DEF TypeInv, TypeOK
      <3>6. W \subseteq Owed
        <4>1. \A e \in W : OwedRow(db, e)
          <5> HIDE DEF Within
          <5> QED BY <1>8, <3>1 DEF OwedRow
        <4> QED BY <3>5, <4>1 DEF Owed
      <3>7. ~Open(db', key) /\ \A k \in DOMAIN db : k # key => (Open(db', k) <=> Open(db, k))
        BY <1>3, <1>8, <2>2 DEF Open
      <3>8. \A e : OwedRow(db', e) <=>
               \E k \in DOMAIN db : k # key /\ Open(db, k) /\ e \in Within(RowRange(db[k]))
        <4> HIDE DEF Within
        <4> QED BY <1>3, <1>10, <3>7 DEF OwedRow
      <3>9. \A e \in W : ~OwedRow(db', e) /\ ~OwedLine(e)
        <4> HIDE DEF Within
        <4> QED BY <3>3, <3>4, <3>8
      <3>10. \A e : e \notin W => (OwedRow(db', e) <=> OwedRow(db, e))
        <4> HIDE DEF Within
        <4> QED BY <3>1, <3>8 DEF OwedRow
      <3>11. Owed' = Owed \ W
        BY <1>2, <1>16, <3>9, <3>10 DEF Owed, Wanted
      <3>12. Owed \cap W = W
        BY <3>6
      <3>13. Cardinality(Owed \ W) = Cardinality(Owed) - Cardinality(W)
        BY <3>12, OwedFinite, FS_Difference
      <3>14. Cardinality(W) \in Nat /\ Cardinality(Owed) \in Nat /\ sent \in Nat /\ toSend \in Nat
        BY <3>1, InWithin, OwedFinite DEF TypeInv, TypeOK
      <3>15. sent' = sent + Cardinality(W) /\ Cardinality(Owed)' = Cardinality(Owed) - Cardinality(W)
        BY <1>2, <1>6, <1>9, <2>2, <3>1, <3>11, <3>13
      <3>16. (sent + Cardinality(W)) + (Cardinality(Owed) - Cardinality(W)) <= toSend
        BY <1>5, <3>14
      <3> QED BY <1>2, <3>15, <3>16
    <2> QED BY <2>1, <2>2
  <1> QED BY <1>4, <1>12, <1>13, <1>14, <1>15, <1>17 DEF UploadInv

\* Steps of the main thread that record, transfer and end nothing.
LEMMA MainUpload ==
  ASSUME TypeInv, UploadInv,
         UNCHANGED <<mode, arrived, db, disk, messages, todo, pc, sent, toSend, code>>,
         AtRest' => app' = app, AtRest => AtRest'
  PROVE  UploadInv'
  <1>1. CASE mode # "upload"
    BY <1>1 DEF UploadInv
  <1>2. CASE mode = "upload"
    <2>1. PostedInv
      BY <1>2 DEF UploadInv
    <2>2. PostedInv'
      BY <2>1, PostedKept
    <2>3. UNCHANGED <<LinesInOrder, LinesLeft, Owed>>
      BY LinesKept
    <2> QED BY <2>2, <2>3, UploadKept
  <1> QED BY <1>1, <1>2

LEMMA ShutdownUpload == ASSUME TypeInv, UploadInv, ShutdownThreads PROVE UploadInv'
  <1>1. /\ UNCHANGED <<mode, arrived, db, disk, messages, todo, pc, sent, toSend, code>>
        /\ app = "running" /\ app' = "failing"
    BY DEF ShutdownThreads, dbVars
  <1>2. ~AtRest /\ ~AtRest'
    BY <1>1 DEF AtRest
  <1> QED BY <1>1, <1>2, MainUpload

\* A run starts with what its rows leave open and the lines after the last of
\* these: what it owes it has read.
LEMMA StartUpload == ASSUME TypeInv, UploadInv, Start PROVE UploadInv'
  <1>1. /\ AtRest /\ mode \in Modes /\ mode' = mode /\ disk = db /\ sent = 0
        /\ messages = <<>> /\ db \in Seq(Rows) /\ TypeOK
    BY DEF TypeInv, RestInv, Start, AtRest, TypeOK
  <1>2. PICK s : s = Batches(runs > 0, disk)
    OBVIOUS
  <1>3. /\ todo' = [todo EXCEPT ![Source] = s] /\ toSend' = Cardinality(WithinAll(ToSet(s)))
        /\ app' = "running" /\ UNCHANGED <<arrived, db, disk, messages, sent>>
    BY <1>2 DEF Start, dbVars
  <1>4. todo'[Source] = s
    BY <1>1, <1>3, Names DEF TypeOK
  <1> SUFFICES ASSUME mode = "upload" PROVE UploadInv'
    BY <1>1 DEF UploadInv
  <1>5. UploadRows(db) /\ \A k \in DOMAIN db : db[k].kind = 1
    BY UploadKinds DEF UploadInv
  <1>6. PICK line : line = ConsumedTo(db)
    OBVIOUS
  <1>7. /\ line \in 0 .. Size
        /\ \A k \in DOMAIN db : db[k].end \in Int
        /\ \A k \in DOMAIN db : Open(db, k) => db[k].end <= line
        /\ line = 0 \/ \E k \in DOMAIN db : line = db[k].end
    <2>1. /\ line \in 0 .. Size + 1
          /\ line = 0 \/ \E k \in DOMAIN db : line = db[k].end
      BY <1>1, <1>6, ConsumedOf
    <2>2. \A k \in DOMAIN db : db[k].end <= Size /\ db[k].start <= db[k].end
      BY <1>5 DEF UploadRows, Batched
    <2>3. \A k \in DOMAIN db : db[k].end \in Int /\ db[k].start \in Int /\ k \in Nat
      BY TypesOf, Numbers DEF TypeInv, Rows
    <2>4. line \in 0 .. Size
      BY <2>1, <2>2, Numbers
    <2>5. ASSUME NEW k \in DOMAIN db, Open(db, k) PROVE db[k].end <= line
      <3>1. PICK last \in DOMAIN db :
                /\ Open(db, last) /\ line = db[last].end
                /\ \A h \in DOMAIN db : Open(db, h) => h <= last
        <4>1. (\E h \in DOMAIN db : Open(db, h)) =>
                 \E last \in DOMAIN db :
                    /\ Open(db, last) /\ ConsumedTo(db) = db[last].end
                    /\ \A h \in DOMAIN db : Open(db, h) => h <= last
          BY <1>1, ConsumedOf
        <4> QED BY <1>6, <2>5, <4>1
      <3>2. k = last \/ k < last
        BY <2>3, <2>5, <3>1
      <3>3. k < last => db[k].end < db[last].start
        BY <1>5, <2>5, <3>1 DEF UploadRows, Batched
      <3> QED BY <2>2, <2>3, <3>1, <3>2, <3>3
    <2> QED BY <2>1, <2>3, <2>4, <2>5
  <1>8. PICK R, L : R = Recorded(db) /\ L = Lines(line)
    OBVIOUS
  <1>9. R \in Seq(Items) /\ \A n \in DOMAIN R : R[n].key # NoKey
    BY <1>1, <1>8, RecordedItems
  <1>10. /\ L \in Seq(Items)
         /\ \A n \in DOMAIN L :
               /\ L[n].key = NoKey /\ line < L[n].range.start /\ L[n].range.end <= Size
               /\ L[n].range.start <= L[n].range.end
               /\ \A m \in DOMAIN L : n < m => L[n].range.end < L[m].range.start
         /\ \A i \in line + 1 .. Size : \E n \in DOMAIN L :
               L[n].range.start <= i /\ i <= L[n].range.end
    BY <1>7, <1>8, LinesAfter
  <1>11. s = R \o L
    BY <1>1, <1>2, <1>6, <1>8 DEF Batches
  <1>12. /\ Len(R) \in Nat
         /\ \A n \in DOMAIN s : n \in Nat /\
               IF n <= Len(R) THEN n \in DOMAIN R /\ s[n] = R[n]
               ELSE n - Len(R) \in DOMAIN L /\ s[n] = L[n - Len(R)]
         /\ \A n \in DOMAIN L : Len(R) + n \in DOMAIN s /\ s[Len(R) + n] = L[n]
    BY <1>9, <1>10, <1>11, Concatenated
  <1>13. \A n \in DOMAIN L : L[n].range.start \in Int
    <2>1. \A n \in DOMAIN L : L[n] \in Items
      BY <1>10, LenProperties
    <2> QED BY <2>1, Numbers DEF Items, KeyRanges
  <1>14. LinesInOrder'
    <2> SUFFICES ASSUME NEW n \in DOMAIN s, s[n].key = NoKey
                 PROVE  /\ s[n].range.start >= 1 /\ s[n].range.end <= Size
                        /\ s[n].range.start <= s[n].range.end
                        /\ \A k \in DOMAIN db : Open(db, k) => db[k].end < s[n].range.start
                        /\ \A m \in DOMAIN s : n < m =>
                               s[m].key = NoKey /\ s[n].range.end < s[m].range.start
      BY <1>3, <1>4 DEF LinesInOrder, NoKey
    <2>1. PICK j \in DOMAIN L : j = n - Len(R) /\ s[n] = L[j] /\ n > Len(R) /\ n \in Nat
      BY <1>9, <1>12
    <2>2. /\ s[n].range.start >= 1 /\ s[n].range.end <= Size
          /\ s[n].range.start <= s[n].range.end
      BY <1>7, <1>10, <1>13, <2>1
    <2>3. \A k \in DOMAIN db : Open(db, k) => db[k].end < s[n].range.start
      BY <1>7, <1>10, <1>13, <2>1
    <2>4. ASSUME NEW m \in DOMAIN s, n < m
          PROVE  s[m].key = NoKey /\ s[n].range.end < s[m].range.start
      <3>1. PICK i \in DOMAIN L : i = m - Len(R) /\ s[m] = L[i] /\ m \in Nat
        BY <1>12, <2>1, <2>4
      <3>2. j < i
        BY <1>12, <2>1, <2>4, <3>1
      <3> QED BY <1>10, <2>1, <3>1, <3>2
    <2> QED BY <2>2, <2>3, <2>4
  <1>15. LinesLeft'
    <2> SUFFICES ASSUME NEW m \in 1 .. Size, \A k \in DOMAIN db : db[k].end < m
                 PROVE  \E n \in DOMAIN s : /\ s[n].key = NoKey
                                            /\ s[n].range.start <= m /\ m <= s[n].range.end
      BY <1>3, <1>4 DEF LinesLeft, NoKey
    <2>1. m \in line + 1 .. Size
      BY <1>7, Numbers
    <2>2. PICK j \in DOMAIN L : L[j].range.start <= m /\ m <= L[j].range.end
      BY <1>10, <2>1
    <2> QED BY <1>10, <1>12, <2>2
  <1>16. sent' + Cardinality(Owed)' <= toSend'
    <2>2. PICK W : W = WithinAll(ToSet(s))
      OBVIOUS
    <2>a. \A n \in DOMAIN s : Within(s[n].range) \subseteq W
      <3> HIDE DEF Within
      <3> QED BY <2>2 DEF WithinAll, ToSet
    <2>b. ASSUME NEW k \in DOMAIN db, Open(db, k)
          PROVE  Within(RowRange(db[k])) \subseteq W
      <3>1. PICK existing : existing = (runs > 0)
        OBVIOUS
      <3>2. s = Batches(existing, db)
        BY <1>1, <1>2, <3>1
      <3>3. \A id \in DOMAIN db : Open(db, id) => \E n \in DOMAIN s : s[n].key = id
        BY <1>1, <3>2, BatchItems
      <3>4. PICK n \in DOMAIN s : s[n].key = k
        BY <2>b, <3>3
      <3>5. k # NoKey
        BY TypesOf DEF TypeInv, NoKey
      <3>6. \A m \in DOMAIN s : s[m].key = NoKey \/ s[m].range = RowRange(db[s[m].key])
        BY <1>1, <3>2, BatchItems
      <3>7. s[n].range = RowRange(db[k])
        BY <3>4, <3>5, <3>6
      <3> HIDE DEF Within
      <3> QED BY <2>a, <3>4, <3>7
    <2>3. Owed' \subseteq W
      <3>1. db' = db /\ todo'[Source] = s
        BY <1>3, <1>4
      <3>2. \A e : OwedLine(e)' => e \in W
        <4> SUFFICES ASSUME NEW e, OwedLine(e)' PROVE e \in W
          OBVIOUS
        <4>1. PICK n \in DOMAIN s : e \in Within(s[n].range)
          BY <3>1 DEF OwedLine, NoKey, Within
        <4> QED BY <2>a, <4>1
      <3>3. \A e : OwedRow(db, e) => e \in W
        <4> HIDE DEF Within
        <4> QED BY <2>b DEF OwedRow
      <3> QED BY <3>1, <3>2, <3>3 DEF Owed
    <2>4. s \in Seq(Items)
      BY <1>9, <1>10, <1>11, Concatenated
    <2>5. IsFiniteSet(W)
      <3>1. PICK existing : existing = (runs > 0)
        OBVIOUS
      <3>2. \A n \in DOMAIN s :
                \/ s[n].range.kind \in IF mode = "upload" THEN {1} ELSE 1 .. NumKinds
                \/ s[n].key \in DOMAIN db /\ s[n].range = RowRange(db[s[n].key])
        <4>1. s = Batches(existing, db)
          BY <1>1, <1>2, <3>1
        <4> QED BY <1>1, <4>1, BatchItems
      <3>3. \A n \in DOMAIN s : s[n].range.kind \in 1 .. NumKinds
        <4>1. 1 \in 1 .. NumKinds
          BY Numbers
        <4>2. \A k \in DOMAIN db : RowRange(db[k]).kind = 1
          BY <1>5 DEF RowRange, KeyRange
        <4> SUFFICES ASSUME NEW n \in DOMAIN s PROVE s[n].range.kind \in 1 .. NumKinds
          OBVIOUS
        <4>3. s[n].range.kind = 1 \/ \E k \in DOMAIN db : s[n].range = RowRange(db[k])
          BY <3>2
        <4> QED BY <4>1, <4>2, <4>3
      <3>4. \A x \in ToSet(s) : x.range.kind \in 1 .. NumKinds
        BY <3>3 DEF ToSet
      <3> QED BY <2>2, <2>4, <3>4, WithinAllOf
    <2>6. Cardinality(Owed') <= Cardinality(W) /\ Cardinality(Owed') \in Nat
      BY <2>3, <2>5, FS_Subset, FS_CardinalityType
    <2> QED BY <1>1, <1>3, <2>2, <2>6
  <1>17. UploadRows(db)' /\ UploadRows(disk)'
    BY <1>1, <1>3, <1>5 DEF UploadRows, Arrives
  <1>18. PostedInv'
    BY <1>1, <1>3 DEF PostedInv
  <1>19. app' # "returned"
    BY <1>3
  <1> QED BY <1>14, <1>15, <1>16, <1>17, <1>18, <1>19 DEF UploadInv

\* A run that returns or is killed leaves the rows of its database on disk.
LEMMA EndUpload ==
  ASSUME mode = "upload", NEW rows, UploadRows(rows), disk' = rows, db' = rows,
         arrived' = arrived, messages' = <<>>, app' \in {"down", "returned"},
         app' = "returned" /\ code' = 0 => arrived' = Wanted'
  PROVE  UploadInv'
  <1>1. UploadRows(db)' /\ UploadRows(disk)'
    BY DEF UploadRows, Arrives
  <1>2. PostedInv' /\ AtRest'
    BY DEF PostedInv, AtRest
  <1> QED BY <1>1, <1>2 DEF UploadInv

LEMMA CrashUpload == ASSUME TypeInv, UploadInv, Crash PROVE UploadInv'
  <1>1. /\ disk' = disk /\ db' = disk /\ app' = "down" /\ messages' = <<>>
        /\ UNCHANGED <<mode, arrived>>
    BY DEF Crash, Ended
  <1>2. CASE mode = "upload"
    <2>1. UploadRows(disk)
      BY <1>2 DEF UploadInv
    <2> QED BY <1>1, <1>2, <2>1, EndUpload
  <1> QED BY <1>1, <1>2 DEF UploadInv

LEMMA ReturnUpload == ASSUME TypeInv, UploadInv, Return PROVE UploadInv'
  <1>1. /\ app = "closing" /\ messages' = <<>> /\ disk' = db /\ db' = db
        /\ app' = "returned" /\ code' = ExitCode /\ UNCHANGED <<mode, arrived>>
    BY DEF Return, ThreadComplete, Ended
  <1>2. CASE mode = "upload"
    <2>1. UploadRows(db) /\ LinesLeft /\ sent + Cardinality(Owed) <= toSend
      BY <1>1, <1>2 DEF UploadInv, AtRest
    <2>2. ASSUME code' = 0 PROVE arrived' = Wanted'
      <3>1. sent >= toSend /\ pc[Source] = "ended"
        BY <1>1, <1>2, <2>2 DEF ExitCode
      <3>2. sent \in Nat /\ toSend \in Nat /\ arrived \subseteq Wanted
        BY DEF TypeInv, TypeOK
      <3>3. Cardinality(Owed) = 0
        BY <2>1, <3>1, <3>2, OwedFinite
      <3>4. Owed = {} /\ todo[Source] = <<>>
        BY <3>1, <3>3, Names, OwedFinite, FS_EmptySet DEF TypeInv, ThreadInv
      <3>5. ASSUME NEW e \in Wanted PROVE e \in arrived
        <4>1. PICK m \in 1 .. Size : e = <<1, m>>
          BY <1>2 DEF Wanted
        <4>2. m \in Int /\ \A k \in DOMAIN db :
                 db[k].start \in Int /\ db[k].end \in Int /\ db[k].kind = 1
          BY <1>2, UploadKinds, TypesOf, Numbers DEF TypeInv, Rows
        <4>3. PICK j \in DOMAIN db : m <= db[j].end
          <5>1. DOMAIN todo[Source] = {}
            BY <3>4
          <5>2. ~ \A k \in DOMAIN db : db[k].end < m
            BY <2>1, <3>1, <5>1 DEF LinesLeft
          <5> QED BY <4>2, <5>2
        <4>4. PICK k \in DOMAIN db : db[k].start <= m /\ m <= db[k].end
          BY <2>1, <4>3 DEF UploadRows, NoGap
        <4>5. PICK q : q = RowRange(db[k])
          OBVIOUS
        <4>6. q.kind = 1 /\ Has(q, m)
          BY <4>2, <4>4, <4>5 DEF RowRange, KeyRange, Has
        <4>7. e \in Within(RowRange(db[k]))
          BY <4>1, <4>5, <4>6, InWithin
        <4>8. ~Open(db, k)
          <5> HIDE DEF Within
          <5> QED BY <3>4, <4>7 DEF Owed, OwedRow
        <4>9. db[k].state = "GOT"
          BY <2>1, <4>8 DEF Open, UploadRows, Batched
        <4> QED BY <2>1, <4>7, <4>9 DEF UploadRows, Arrives
      <3>6. Wanted' = Wanted
        BY <1>1 DEF Wanted
      <3> QED BY <1>1, <3>2, <3>5, <3>6
    <2> QED BY <1>1, <1>2, <2>1, <2>2, EndUpload
  <1> QED BY <1>1, <1>2 DEF UploadInv

LEMMA InitUpload == Init => UploadInv
  <1> SUFFICES ASSUME Init PROVE UploadInv
    OBVIOUS
  <1>1. disk = <<>> /\ db = <<>> /\ messages = <<>> /\ app = "down" /\ DOMAIN <<>> = {}
    BY DEF Init
  <1>2. UploadRows(db) /\ UploadRows(disk)
    BY <1>1 DEF UploadRows, Batched, NoGap, Arrives
  <1> QED BY <1>1, <1>2 DEF UploadInv, PostedInv, AtRest

LEMMA NextUpload == ASSUME TypeInv, KeyInv, UploadInv, [Next]_vars PROVE UploadInv'
  <1>1. CASE Start
    BY <1>1, StartUpload
  <1>2. CASE Crash \/ Return
    BY <1>2, CrashUpload, ReturnUpload
  <1>3. CASE Interrupt \/ SeesDeath
    BY <1>3, ShutdownUpload, SeesDeathShutsDown DEF Interrupt
  <1>4. ASSUME NEW a \in Actors, Adds(a) PROVE UploadInv'
    BY <1>4, MarkAsReadUpload, SubmitItemUpload DEF Adds
  <1>5. CASE SourceStep
    BY <1>4, <1>5, Names, SourceExitsUpload DEF SourceStep
  <1>6. ASSUME mode # "upload", mode' = mode PROVE UploadInv'
    BY <1>6 DEF UploadInv
  <1>7. ASSUME NEW w \in Workers, WorkerStep(w) PROVE UploadInv'
    <2>1. CASE GetEntities(w)
      BY <1>6, <2>1 DEF GetEntities
    <2> QED BY <1>4, <1>7, <2>1, Names, MarkAsTransferringUpload, PostEntitiesUpload,
               MarkAsErrorUpload, ReputUpload DEF WorkerStep, Transfers
  <1>8. CASE ProgressStep
    <2>1. CASE StoreEntities \/ DeleteKey
      BY <1>6, <2>1 DEF StoreEntities, DeleteKey, Got
    <2> QED BY <1>8, <2>1, StoreKeysUpload, UpdateStateUpload DEF ProgressStep
  <1>9. CASE QueueJoined \/ ThreadsJoined
    BY <1>9, MainUpload DEF QueueJoined, ThreadsJoined, dbVars, threadVars, AtRest
  <1>10. CASE UNCHANGED vars
    BY <1>10, MainUpload DEF vars, dbVars, threadVars, appVars, AtRest
  <1> QED BY <1>1, <1>2, <1>3, <1>5, <1>7, <1>8, <1>9, <1>10 DEF Next, ThreadStep, MainStep

LEMMA UploadInvariant == Spec => [](TransferInv /\ UploadInv)
  <1>1. Init => TransferInv /\ UploadInv
    BY InitTypes, InitKeys, InitUpload DEF Init, TransferInv, CoverInv, AtRest
  <1>2. TransferInv /\ UploadInv /\ [Next]_vars => TransferInv' /\ UploadInv'
    BY NextTypes, NextKeys, NextCovers, NextUpload DEF TransferInv
  <1> QED BY <1>1, <1>2, PTL DEF Spec
-----------------------------------------------------------------------------
\* Every variable of a transfer has its type, whatever the sizes, the batch size,
\* the workers and the order in which the progress thread is told.
THEOREM TransferTypeOK == Spec => []TypeOK
  <1>1. TypeInv => TypeOK
    BY DEF TypeInv
  <1> QED BY <1>1, TransferTypes, PTL

LEMMA NothingMissed ==
  ASSUME TransferInv, UploadInv, mode = "upload" PROVE Missed(disk) = {}
  <1>1. /\ mode \in Modes /\ disk \in Seq(Rows) /\ \A k \in DOMAIN disk : disk[k].kind = 1
    BY UploadKinds DEF TransferInv
  <1>2. Batched(disk) /\ NoGap(disk) /\ Arrives(disk)
    BY DEF UploadInv, UploadRows
  <1>3. ASSUME NEW e \in Wanted PROVE e \in arrived \cup Resumable(disk)
    <2>1. CASE Marked(disk, e)
      BY <1>2, <2>1 DEF Marked, Arrives
    <2>2. CASE ~Marked(disk, e)
      BY <1>1, <1>2, <2>2, RowsTell
    <2> QED BY <2>1, <2>2
  <1> QED BY <1>3 DEF Missed

\* Whenever an upload is killed, the rows on disk make the next run send every
\* line that is not at the server: what is committed has no gap before its last
\* row, and says that lines are sent only when they arrived.
THEOREM TransferResumable == Spec => []UploadResumable
  <1>1. TransferInv /\ UploadInv => UploadResumable
    BY NothingMissed DEF UploadResumable, Unsafe
  <1> QED BY <1>1, UploadInvariant, PTL

\* An upload that exits with 0 has transferred every line: the lines it counted
\* as sent and those it read at its start differ by no less than what it owes.
THEOREM TransferExitsTrue == Spec => []UploadExitsTrue
  <1>1. UploadInv => UploadExitsTrue
    BY DEF UploadInv, UploadExitsTrue
  <1> QED BY <1>1, UploadInvariant, PTL

LEMMA AtRiskInHand ==
  ASSUME TransferInv, mode = "download", ~AtRest PROVE Missed(disk) \subseteq InHand \cup lost
  <1>1. disk = db /\ mode \in Modes /\ db \in Seq(Rows) /\ TypeInv /\ KeyInv /\ ThreadInv
    BY DEF TransferInv, TypeInv, RestInv, TypeOK
  <1> SUFFICES ASSUME NEW e \in Wanted, e \notin arrived, e \notin Resumable(db), e \notin lost
               PROVE  e \in InHand
    BY <1>1 DEF Missed
  <1>2. Covered(e)
    BY DEF TransferInv, CoverInv
  <1>3. \A k \in DOMAIN db : Open(db, k) => e \notin Within(RowRange(db[k]))
    BY <1>1, OpenResumable
  <1>4. ~Dropped(e)
    BY <1>3 DEF Dropped
  <1>5. \A x : RowFor(mode, db, x) => e \notin Within(x.range)
    <2> SUFFICES ASSUME NEW x, RowFor(mode, db, x) PROVE e \notin Within(x.range)
      OBVIOUS
    <2>1. Within(x.range) \subseteq Within(RowRange(db[x.key]))
      BY RowCovers
    <2>2. x.key \in DOMAIN db /\ Open(db, x.key)
      BY DEF RowFor
    <2> QED BY <1>3, <2>1, <2>2
  <1>6. ~ByPool(e)
    BY <1>1, <1>5 DEF ByPool, KeyInv, RowsInv, PoolRows
  <1>7. ~ByOwn(e)
    <2> SUFFICES ASSUME NEW w \in Workers PROVE e \notin Within(own[w].range)
      BY DEF ByOwn
    <2>1. CASE own[w].key # NoKey
      BY <1>1, <1>5, <2>1 DEF KeyInv, RowsInv, OwnRows
    <2>2. CASE own[w].key = NoKey
      <3>1. own[w] = Idle
        BY <1>1, <2>2 DEF ThreadInv
      <3> QED BY <3>1, IdleItem
    <2> QED BY <2>1, <2>2
  <1>8. ~ByGot(e)
    <2> SUFFICES ASSUME NEW n \in DOMAIN messages, IsGot(messages[n])
                 PROVE  e \notin messages[n].entities
      BY DEF ByGot
    <2>1. /\ RowFor(mode, db, messages[n].item)
          /\ messages[n].entities \subseteq Within(RowRange(db[messages[n].item.key]))
      BY <1>1 DEF KeyInv, RowsInv, GotRows
    <2>2. messages[n].item.key \in DOMAIN db /\ Open(db, messages[n].item.key)
      BY <2>1 DEF RowFor
    <2> QED BY <1>3, <2>1, <2>2
  <1>9a. PICK a \in Actors : \E n \in DOMAIN todo[a] : e \in Within(todo[a][n].range)
    BY <1>2, <1>4, <1>6, <1>7, <1>8 DEF Covered, ByTodo
  <1>9. PICK n \in DOMAIN todo[a] : e \in Within(todo[a][n].range)
    BY <1>9a
  <1>10. todo[a][n].key = NoKey
    BY <1>1, <1>5, <1>9 DEF KeyInv, RowsInv, TodoRows
  <1>11. PICK S : S = {item \in ToSet(todo[a]) : item.key = NoKey}
    OBVIOUS
  <1>12. todo[a][n] \in S
    BY <1>9, <1>10, <1>11 DEF ToSet
  <1>13. e \in WithinAll(S)
    <2> HIDE DEF Within
    <2> QED BY <1>9, <1>12 DEF WithinAll
  <1> QED BY <1>9, <1>11, <1>13 DEF InHand

\* A transfer that is killed at any moment loses no more than what earlier runs
\* lost and what a thread has in hand and has not recorded yet: a row in the
\* database stands for every other entity that has not arrived.
THEOREM TransferAtRisk == Spec => []OnlyInHandAtRisk
  <1>1. TransferInv /\ UploadInv => OnlyInHandAtRisk
    <2> SUFFICES ASSUME TransferInv, UploadInv, ~AtRest
                 PROVE  Missed(disk) \subseteq InHand \cup lost
      BY DEF OnlyInHandAtRisk, Unsafe, AtRest
    <2>1. mode \in {"upload", "download"}
      BY KindsOf DEF TransferInv, TypeInv, TypeOK
    <2> QED BY <2>1, NothingMissed, AtRiskInHand
  <1> QED BY <1>1, UploadInvariant, PTL

\* Ranges of which one ends before the other starts have nothing in common.
LEMMA RangesApart ==
  ASSUME NEW p \in KeyRanges, NEW q \in KeyRanges, p.end < q.start \/ q.end < p.start
  PROVE  Within(p) \cap Within(q) = {}
  <1>1. /\ p.start \in Int /\ p.end \in Int /\ q.start \in Int /\ q.end \in Int
    BY Numbers DEF KeyRanges
  <1>2. ASSUME NEW e, e \in Within(p), e \in Within(q) PROVE FALSE
    <2>1. Has(p, e[2]) /\ Has(q, e[2]) /\ e[2] \in 1 .. Size
      BY <1>2, InWithin
    <2>2. PICK i : i = e[2]
      OBVIOUS
    <2>3. i \in Int
      BY <2>1, <2>2, Numbers
    <2>4. p.start <= i /\ i <= p.end /\ q.start <= i /\ i <= q.end
      BY <1>1, <2>1, <2>2, <2>3 DEF Has
    <2> QED BY <1>1, <2>3, <2>4
  <1> QED BY <1>2

AtWork == pool \cup {own[w] : w \in Workers} \cup ToSet(todo[Source])
Ahead(x) == \E n \in DOMAIN todo[Source] : x = todo[Source][n] /\ x.key = NoKey

\* An item is idle, has a row, or is one that the data source has yet to record.
LEMMA AtWorkKinds ==
  ASSUME TransferInv, NEW x \in AtWork
  PROVE  /\ x.range \in KeyRanges
         /\ \/ Within(x.range) = {}
            \/ x.key # NoKey /\ RowFor(mode, db, x)
            \/ Ahead(x)
  <1>1. TypeOK /\ TypeInv /\ ThreadInv /\ KeyInv /\ Source \in Actors
    BY Names DEF TransferInv, TypeInv
  <1>2. CASE x \in pool
    <2>1. x \in Items /\ x.key # NoKey /\ RowFor(mode, db, x)
      BY <1>1, <1>2, TypesOf DEF TypeInv, ItemInv, KeyInv, RowsInv, PoolRows
    <2> QED BY <1>1, <2>1, TypesOf
  <1>3. CASE \E w \in Workers : x = own[w]
    <2>1. PICK w \in Workers : x = own[w]
      BY <1>3
    <2>2. x \in Items
      BY <1>1, <2>1, TypesOf
    <2>3. x.key = NoKey => x = Idle
      BY <1>1, <2>1 DEF ThreadInv
    <2>4. x.key # NoKey => RowFor(mode, db, x)
      BY <1>1, <2>1 DEF KeyInv, RowsInv, OwnRows
    <2> QED BY <1>1, <2>2, <2>3, <2>4, TypesOf, IdleItem
  <1>4. CASE x \in ToSet(todo[Source])
    <2>1. PICK n \in DOMAIN todo[Source] : x = todo[Source][n]
      BY <1>4 DEF ToSet
    <2>2. x \in Items
      BY <1>1, <2>1, TypesOf
    <2>3. x.key # NoKey => RowFor(mode, db, x)
      BY <1>1, <2>1 DEF KeyInv, RowsInv, TodoRows
    <2> QED BY <1>1, <2>1, <2>2, <2>3, TypesOf DEF Ahead
  <1> QED BY <1>2, <1>3, <1>4 DEF AtWork

LEMMA KeyedOnce ==
  ASSUME TransferInv, NEW x \in AtWork, NEW y \in AtWork, x.key = y.key, x.key \in DOMAIN db,
         x.key # NoKey
  PROVE  x = y
  <1>1. PlaceInv /\ Source \in Actors
    BY Names DEF TransferInv, KeyInv
  <1>2. PICK k : k = x.key
    OBVIOUS
  <1>3. ASSUME NEW z \in AtWork, z.key = k
        PROVE  z \in pool \/ (\E w \in Workers : z = own[w])
                          \/ (\E n \in DOMAIN todo[Source] : z = todo[Source][n])
    BY DEF AtWork, ToSet
  <1>4. ASSUME NEW z \in AtWork, z.key = k
        PROVE  /\ z \in pool => InPool(k)
               /\ (\E w \in Workers : z = own[w]) => InOwn(k)
               /\ (\E n \in DOMAIN todo[Source] : z = todo[Source][n]) => InTodo(k)
    BY <1>1, <1>4 DEF InPool, InOwn, InTodo
  <1>5. ~(InTodo(k) /\ InPool(k)) /\ ~(InTodo(k) /\ InOwn(k)) /\ ~(InPool(k) /\ InOwn(k))
    BY <1>1, <1>2 DEF PlaceInv, Apart
  <1>6. CASE x \in pool /\ y \in pool
    BY <1>1, <1>6 DEF PlaceInv, PoolOnce
  <1>7. CASE (\E w \in Workers : x = own[w]) /\ (\E w \in Workers : y = own[w])
    <2>1. PICK w \in Workers, u \in Workers : x = own[w] /\ y = own[u]
      BY <1>7
    <2> QED BY <1>1, <2>1 DEF PlaceInv, OwnOnce
  <1>8. CASE /\ \E n \in DOMAIN todo[Source] : x = todo[Source][n]
             /\ \E n \in DOMAIN todo[Source] : y = todo[Source][n]
    <2>1. PICK n \in DOMAIN todo[Source], m \in DOMAIN todo[Source] :
              x = todo[Source][n] /\ y = todo[Source][m]
      BY <1>8
    <2>2. n = m
      BY <1>1, <2>1 DEF PlaceInv, TodoOnce
    <2> QED BY <2>1, <2>2
  <1>9. x \in AtWork /\ y \in AtWork /\ x.key = k /\ y.key = k
    BY <1>2
  <1> QED BY <1>3, <1>4, <1>5, <1>6, <1>7, <1>8, <1>9

\* Two items of an upload that are not the same have no line in common.
LEMMA AtWorkApart ==
  ASSUME TransferInv, UploadInv, mode = "upload",
         NEW x \in AtWork, NEW y \in AtWork, x # y
  PROVE  Within(x.range) \cap Within(y.range) = {}
  <1>1. /\ x.range \in KeyRanges /\ y.range \in KeyRanges
        /\ Within(x.range) = {} \/ (x.key # NoKey /\ RowFor(mode, db, x)) \/ Ahead(x)
        /\ Within(y.range) = {} \/ (y.key # NoKey /\ RowFor(mode, db, y)) \/ Ahead(y)
    BY AtWorkKinds
  <1>2. Batched(db) /\ (~AtRest => LinesInOrder)
    BY DEF UploadInv, UploadRows
  <1>3. \A z : Ahead(z) => ~AtRest
    BY Names DEF Ahead, TransferInv, TypeInv, RestInv
  <1>4. ASSUME NEW z, RowFor(mode, db, z)
        PROVE  /\ z.key \in DOMAIN db /\ z.key \in Nat /\ Open(db, z.key)
               /\ z.range.start = db[z.key].start /\ z.range.end = db[z.key].end
    <2>1. /\ z.key \in DOMAIN db /\ Open(db, z.key)
          /\ z.range.start = db[z.key].start /\ z.range.end = db[z.key].end
      BY <1>4 DEF RowFor
    <2> QED BY <2>1, TypesOf DEF TransferInv, TypeInv
  <1>5. CASE x.key # NoKey /\ RowFor(mode, db, x) /\ y.key # NoKey /\ RowFor(mode, db, y)
    <2>1. x.key # y.key
      BY <1>4, <1>5, KeyedOnce
    <2>2. x.range.end < y.range.start \/ y.range.end < x.range.start
      BY <1>2, <1>4, <1>5, <2>1 DEF Batched
    <2> QED BY <1>1, <2>2, RangesApart
  <1>6. ASSUME NEW p, NEW q, RowFor(mode, db, p), Ahead(q) PROVE p.range.end < q.range.start
    <2>1. PICK n \in DOMAIN todo[Source] : q = todo[Source][n] /\ q.key = NoKey
      BY <1>6 DEF Ahead
    <2>2. \A k \in DOMAIN db : Open(db, k) => db[k].end < q.range.start
      BY <1>2, <1>3, <1>6, <2>1 DEF LinesInOrder
    <2> QED BY <1>4, <1>6, <2>2
  <1>7. CASE Ahead(x) /\ Ahead(y)
    <2>1. PICK n \in DOMAIN todo[Source], m \in DOMAIN todo[Source] :
              /\ x = todo[Source][n] /\ y = todo[Source][m]
              /\ x.key = NoKey /\ y.key = NoKey
      BY <1>7 DEF Ahead
    <2>2. n \in Nat /\ m \in Nat /\ n # m
      BY <2>1, TypesOf, Names DEF TransferInv, TypeInv
    <2>3. LinesInOrder
      BY <1>2, <1>3, <1>7
    <2>4. n < m => x.range.end < y.range.start
      BY <2>1, <2>3 DEF LinesInOrder
    <2>5. m < n => y.range.end < x.range.start
      BY <2>1, <2>3 DEF LinesInOrder
    <2> QED BY <1>1, <2>2, <2>4, <2>5, RangesApart
  <1>8. CASE RowFor(mode, db, x) /\ Ahead(y)
    BY <1>1, <1>6, <1>8, RangesApart
  <1>9. CASE Ahead(x) /\ RowFor(mode, db, y)
    BY <1>1, <1>6, <1>9, RangesApart
  <1>10. CASE Within(x.range) = {} \/ Within(y.range) = {}
    BY <1>10
  <1> QED BY <1>1, <1>5, <1>7, <1>8, <1>9, <1>10

\* An upload never has one line in two items, for every number of workers and
\* whatever was resumed or put back: no two workers post it at the same time.
THEOREM TransferNotTwice == Spec => []NotTwice
  <1>1. TransferInv /\ UploadInv => NotTwice
    BY AtWorkApart DEF NotTwice, AtWork
  <1> QED BY <1>1, UploadInvariant, PTL
-----------------------------------------------------------------------------
-----------------------------------------------------------------------------
\* Whoever waits has a message on its way, and the source leaves its work only
\* when the run has failed.
WaitInv ==
    /\ \A a \in waiting : \E n \in DOMAIN messages : messages[n].from = a
    /\ pc[Source] = "exited" => app \in {"failing", "closing"}

LEMMA WaitKept ==
  ASSUME WaitInv, UNCHANGED <<messages, waiting>>,
         pc'[Source] = "exited" => app' \in {"failing", "closing"}
  PROVE  WaitInv'
  BY DEF WaitInv

\* A thread that waits for the message it has sent, and messages without a sender.
LEMMA WaitSent ==
  ASSUME TypeInv, WaitInv, NEW a \in Actors \cup {Nobody}, NEW item \in Items,
         NEW entities \in SUBSET Wanted,
         messages' = Append(messages, Message(a, item, entities)),
         waiting' \subseteq waiting \cup {a},
         pc'[Source] = "exited" => app' \in {"failing", "closing"}
  PROVE  WaitInv'
  <1>1. PICK k : k = Len(messages) + 1
    OBVIOUS
  <1>2. /\ DOMAIN messages' = DOMAIN messages \cup {k} /\ messages'[k].from = a
        /\ \A n \in DOMAIN messages : messages'[n] = messages[n]
    BY <1>1, NoteSent DEF TypeInv
  <1> QED BY <1>2 DEF WaitInv

LEMMA WaitTaken ==
  ASSUME TypeInv, WaitInv, messages # <<>>, Acknowledge, app' = app, pc' = pc PROVE WaitInv'
  <1>1. /\ messages' = Tail(messages) /\ waiting' = waiting \ {messages[1].from}
        /\ \A n \in DOMAIN messages : n # 1 =>
               n - 1 \in DOMAIN Tail(messages) /\ Tail(messages)[n - 1] = messages[n]
    BY FirstOf DEF Acknowledge
  <1>2. ASSUME NEW a \in waiting' PROVE \E n \in DOMAIN messages' : messages'[n].from = a
    <2>1. PICK n \in DOMAIN messages : messages[n].from = a /\ n # 1
      BY <1>1, <1>2 DEF WaitInv
    <2> QED BY <1>1, <2>1
  <1> QED BY <1>2 DEF WaitInv

\* Where the source is after a step of a thread.
LEMMA SourceStays ==
  ASSUME TypeInv, WaitInv, NEW a \in Actors, NEW where, where # "exited",
         pc' = [pc EXCEPT ![a] = where], app' = app
  PROVE  pc'[Source] = "exited" => app' \in {"failing", "closing"}
  BY Names DEF TypeInv, TypeOK, WaitInv

LEMMA AddsWait == ASSUME TypeInv, WaitInv, NEW a \in Actors, Adds(a) PROVE WaitInv'
  <1>1. CASE MarkAsRead(a)
    <2>1. PICK item, none : item = Head(todo[a]) /\ none = {}
      OBVIOUS
    <2>2. /\ messages' = Append(messages, Message(a, item, none)) /\ todo[a] # <<>>
          /\ waiting' = waiting \cup {a} /\ pc' = [pc EXCEPT ![a] = "submit"] /\ app' = app
      BY <1>1, <2>1 DEF MarkAsRead, Blocking, appVars
    <2>3. item \in Items /\ none \in SUBSET Wanted
      <3>1. todo[a] \in Seq(Items)
        BY TypesOf DEF TypeInv
      <3> QED BY <2>1, <2>2, <3>1, Taken
    <2>4. pc'[Source] = "exited" => app' \in {"failing", "closing"}
      BY <2>2, SourceStays
    <2> QED BY <2>2, <2>3, <2>4, WaitSent
  <1>2. CASE SubmitItem(a)
    <2>1. PICK where : where = Adding(a, Tail(todo[a]))
      OBVIOUS
    <2>2. where # "exited"
      BY <2>1 DEF Adding
    <2>3. pc' = [pc EXCEPT ![a] = where] /\ app' = app /\ UNCHANGED <<messages, waiting>>
      BY <1>2, <2>1 DEF SubmitItem, appVars
    <2>4. pc'[Source] = "exited" => app' \in {"failing", "closing"}
      BY <2>2, <2>3, SourceStays
    <2> QED BY <2>3, <2>4, WaitKept
  <1> QED BY <1>1, <1>2 DEF Adds

LEMMA WorkerWaits == ASSUME TypeInv, WaitInv, NEW w \in Workers, WorkerStep(w) PROVE WaitInv'
  <1>1. w \in Actors /\ w \in Actors \cup {Nobody} /\ Nobody \in Actors \cup {Nobody}
    BY Names
  <1>2. CASE MarkAsTransferring(w)
    <2>1. PICK none : none = {}
      OBVIOUS
    <2>2. PICK mine \in Items :
              /\ messages' = Append(messages, Message(w, mine, none))
              /\ waiting' = waiting \cup {w} /\ pc' = [pc EXCEPT ![w] = "transfer"]
              /\ app' = app
      BY <1>2, <2>1, MarkAsTransferringShape
    <2>3. none \in SUBSET Wanted /\ (pc'[Source] = "exited" => app' \in {"failing", "closing"})
      BY <1>1, <2>1, <2>2, SourceStays
    <2> QED BY <1>1, <2>2, <2>3, WaitSent
  <1>3. CASE PostEntities(w)
    <2>1. PICK none : none = {}
      OBVIOUS
    <2>2. PICK item \in Items :
              /\ messages' = Append(messages, Message(Nobody, item, none))
              /\ waiting' = waiting /\ pc' = [pc EXCEPT ![w] = "idle"] /\ app' = app
      BY <1>3, <2>1, PostEntitiesShape
    <2>3. none \in SUBSET Wanted /\ (pc'[Source] = "exited" => app' \in {"failing", "closing"})
      BY <1>1, <2>1, <2>2, SourceStays
    <2> QED BY <1>1, <2>2, <2>3, WaitSent
  <1>4. CASE GetEntities(w)
    <2>1. PICK item \in Items, entities \in SUBSET Wanted, where \in {"add", "idle"} :
              /\ messages' = Append(messages, Message(w, item, entities))
              /\ waiting' = waiting \cup {w} /\ pc' = [pc EXCEPT ![w] = where] /\ app' = app
      BY <1>4, GetEntitiesShape
    <2>2. pc'[Source] = "exited" => app' \in {"failing", "closing"}
      <3>1. where # "exited"
        OBVIOUS
      <3> QED BY <1>1, <2>1, <3>1, SourceStays
    <2> QED BY <1>1, <2>1, <2>2, WaitSent
  <1>5. CASE MarkAsError(w)
    <2>1. PICK none : none = {}
      OBVIOUS
    <2>2. PICK mine \in Items, where \in {"reput", "dead"} :
              /\ messages' = Append(messages, Message(w, mine, none))
              /\ waiting' = waiting \cup {w} /\ pc' = [pc EXCEPT ![w] = where] /\ app' = app
      BY <1>5, <2>1, MarkAsErrorShape
    <2>3. where # "exited" /\ none \in SUBSET Wanted
      BY <2>1
    <2>4. pc'[Source] = "exited" => app' \in {"failing", "closing"}
      BY <1>1, <2>2, <2>3, SourceStays
    <2> QED BY <1>1, <2>2, <2>3, <2>4, WaitSent
  <1>6. CASE Reput(w)
    <2>1. pc' = [pc EXCEPT ![w] = "idle"] /\ app' = app /\ UNCHANGED <<messages, waiting>>
      BY <1>6 DEF Reput, appVars
    <2>2. pc'[Source] = "exited" => app' \in {"failing", "closing"}
      BY <1>1, <2>1, SourceStays
    <2> QED BY <2>1, <2>2, WaitKept
  <1> QED BY <1>1, <1>2, <1>3, <1>4, <1>5, <1>6, AddsWait DEF WorkerStep, Transfers

LEMMA NextWaits == ASSUME TypeInv, WaitInv, [Next]_vars PROVE WaitInv'
  <1>1. CASE Start
    <2>1. /\ UNCHANGED <<messages, waiting>>
          /\ pc' = [a \in Actors |->
                       IF a = Source THEN Adding(a, Batches(runs > 0, disk)) ELSE "idle"]
      BY <1>1 DEF Start
    <2>2. pc'[Source] # "exited"
      BY <2>1, Names DEF Adding
    <2> QED BY <2>1, <2>2, WaitKept
  <1>2. CASE Crash \/ Return
    <2>1. /\ waiting' = waiting \/ waiting' = {}
          /\ waiting' = waiting => waiting = {}
          /\ pc' = [a \in Actors |-> "ended"]
      BY <1>2 DEF Crash, Return, Ended, TypeInv, ThreadInv
    <2>2. waiting' = {} /\ pc'[Source] # "exited"
      BY <2>1, Names
    <2> QED BY <2>2 DEF WaitInv
  <1>3. CASE Interrupt \/ SeesDeath
    BY <1>3, WaitKept DEF Interrupt, SeesDeath, ShutdownThreads
  <1>4. CASE SourceStep
    <2>1. CASE SourceExits
      BY <2>1, WaitKept DEF SourceExits, appVars
    <2> QED BY <1>4, <2>1, AddsWait, Names DEF SourceStep
  <1>5. CASE \E w \in Workers : WorkerStep(w)
    BY <1>5, WorkerWaits
  <1>6. CASE ProgressStep
    <2>1. CASE StoreEntities
      BY <2>1, WaitKept DEF StoreEntities, threadVars, appVars, WaitInv
    <2>2. CASE StoreKeys \/ UpdateState \/ DeleteKey
      BY <2>2, WaitTaken DEF StoreKeys, UpdateState, DeleteKey, appVars
    <2> QED BY <1>6, <2>1, <2>2 DEF ProgressStep
  <1>7. CASE QueueJoined \/ ThreadsJoined
    BY <1>7, WaitKept DEF QueueJoined, ThreadsJoined, threadVars
  <1>8. CASE UNCHANGED vars
    BY <1>8, WaitKept DEF vars, threadVars, appVars, WaitInv
  <1> QED BY <1>1, <1>2, <1>3, <1>4, <1>5, <1>6, <1>7, <1>8 DEF Next, ThreadStep, MainStep

LEMMA WaitInvariant == Spec => [](TransferInv /\ WaitInv)
  <1>1. Init => TransferInv /\ WaitInv
    <2>1. Init => WaitInv
      BY Names DEF Init, WaitInv
    <2> QED BY <2>1, InitTypes, InitKeys DEF Init, TransferInv, CoverInv, AtRest
  <1>2. TransferInv /\ WaitInv /\ [Next]_vars => TransferInv' /\ WaitInv'
    BY NextTypes, NextKeys, NextCovers, NextWaits DEF TransferInv
  <1> QED BY <1>1, <1>2, PTL DEF Spec

\* The first message is one that the progress thread can handle.
LEMMA FirstHandled == ASSUME TransferInv, messages # <<>> PROVE ProgressCan
  <1>1. /\ 1 \in DOMAIN messages /\ FirstMessage = messages[1] /\ Sensible(messages[1])
        /\ messages[1].from \in Actors \cup {Nobody} /\ TypeInv /\ KeyInv
    BY FirstOf DEF TransferInv
  <1>2. CASE IsGot(messages[1])
    <2>1. messages[1].item.key \in DOMAIN db
      BY <1>1, <1>2 DEF KeyInv, RowsInv, GotRows, RowFor
    <2> QED BY <1>1, <2>1, TypesOf DEF ProgressCan, TypeInv, NoKey
  <1>3. CASE ~IsGot(messages[1])
    <2>1. PICK a : a = messages[1].from
      OBVIOUS
    <2>2. \/ messages[1].item.state = "READ"
          \/ a \in Workers /\ pc[a] \in Holding /\ messages[1].item = own[a]
      BY <1>1, <1>3, <2>1 DEF Sensible, FromNobody, FromAdder, FromWorker, IsGot, Holding
    <2>3. a \in Workers /\ pc[a] \in Holding => own[a].key # NoKey
      BY <1>1 DEF TypeInv, ThreadInv
    <2> QED BY <1>1, <2>2, <2>3 DEF ProgressCan
  <1> QED BY <1>2, <1>3

LEMMA SomebodyCan ==
  ASSUME TransferInv, WaitInv, Workers # {}, ~AtRest, messages = <<>>,
         \A a \in Actors : ~ThreadCan(a)
  PROVE  MainCan
  <1>1. TypeOK /\ TypeInv /\ ThreadInv /\ app \in {"running", "failing", "closing"} /\ mode \in Modes
    BY DEF TransferInv, TypeInv, TypeOK, AtRest
  <1>2. waiting = {}
    <2>1. DOMAIN messages = {}
      OBVIOUS
    <2> QED BY <2>1 DEF WaitInv
  <1>3. \A a \in Actors : pc[a] \notin {"add", "transfer", "reput"}
    BY <1>2 DEF ThreadCan
  <1>4. \A w \in Workers : pc[w] \in {"idle", "dead"}
    <2> SUFFICES ASSUME NEW w \in Workers PROVE pc[w] \in {"idle", "dead"}
      OBVIOUS
    <2>1. w \in Actors /\ pc[w] \in PCs
      BY <1>1, Names, TypesOf
    <2>2. pc[w] # "ended" /\ pc[w] # "exited"
      BY <1>1 DEF ThreadInv
    <2>3. pc[w] # "submit"
      <3>1. CASE mode = "upload"
        BY <1>1, <2>1, <3>1 DEF ThreadInv
      <3>2. CASE mode = "download"
        BY <1>2, <2>1, <3>2 DEF ThreadCan, Room
      <3> QED BY <1>1, <3>1, <3>2, KindsOf
    <2> QED BY <1>3, <2>1, <2>2, <2>3 DEF PCs
  <1>5. CASE app = "closing"
    BY <1>5 DEF MainCan
  <1>6. CASE app = "failing"
    <2>1. pc[Source] \in {"ended", "exited"}
      BY <1>1, <1>2, <1>3, <1>6, Names DEF ThreadInv, ThreadCan
    <2> QED BY <1>2, <1>4, <1>6, <2>1 DEF MainCan, Ready
  <1>7. CASE app = "running"
    <2>1. CASE \E w \in Workers : pc[w] = "dead"
      BY <1>2, <1>7, <2>1 DEF MainCan, Ready
    <2>2. CASE \A w \in Workers : pc[w] = "idle"
      <3>1. pool = {}
        <4>1. PICK w \in Workers : pc[w] = "idle"
          BY <2>2
        <4> QED BY <1>2, <1>7, <4>1, Names DEF ThreadCan
      <3>2. Room
        <4>1. Cardinality(pool) = 0 /\ PoolSize > 0
          BY <3>1, FS_EmptySet, NumberAssumption
        <4> QED BY <4>1 DEF Room
      <3>3. pc[Source] = "ended"
        BY <1>1, <1>2, <1>3, <1>7, <3>2, Names DEF ThreadInv, ThreadCan, WaitInv
      <3> QED BY <1>2, <1>7, <2>2, <3>1, <3>3 DEF MainCan, Ready
    <2> QED BY <1>4, <2>1, <2>2
  <1> QED BY <1>1, <1>5, <1>6, <1>7

\* A run never comes to a stand with all threads waiting for each other, for any
\* number of workers but none: whoever waits has a message with the progress
\* thread, which can handle it, and the pool of a download takes what its own
\* workers split off.  Without workers an upload waits for room for ever.
THEOREM TransferNotStuck == Workers # {} => (Spec => []NobodyStuck)
  <1> SUFFICES ASSUME Workers # {} PROVE Spec => []NobodyStuck
    OBVIOUS
  <1>1. TransferInv /\ WaitInv => NobodyStuck
    BY FirstHandled, SomebodyCan DEF NobodyStuck, AtRest
  <1> QED BY <1>1, WaitInvariant, PTL
=============================================================================
