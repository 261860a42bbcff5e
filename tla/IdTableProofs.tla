---------------------------- MODULE IdTableProofs ----------------------------
(***************************************************************************)
(* What the operations on a table of records with ids preserve: order,     *)
(* the set of ids, and the entry found under every id but the one          *)
(* concerned.                                                              *)
(***************************************************************************)
EXTENDS IdTable, SequenceTheorems, TLAPS

\* A table whose entries are taken from R and ordered by integer ids.
Ordered(R, table) ==
    /\ table \in Seq(R)
    /\ \A i \in 1 .. Len(table) : table[i].id \in Int
    /\ Ascending(table)

\* In an ordered table the entry under an id is the one at its only place.
LEMMA EntryAt ==
    ASSUME NEW R, NEW table, Ordered(R, table), NEW i \in 1 .. Len(table)
    PROVE  /\ Entry(table, table[i].id) = table[i]
           /\ table[i].id \in Ids(table)
<1> DEFINE c == CHOOSE k \in 1 .. Len(table) : table[k].id = table[i].id
<1>1. c \in 1 .. Len(table) /\ table[c].id = table[i].id
  OBVIOUS
<1>2. c = i
  <2>1. Len(table) \in Nat
    BY LenProperties DEF Ordered
  <2>2. ~(c < i) /\ ~(i < c)
    <3>1. ASSUME c < i PROVE FALSE
      <4>1. table[c].id < table[i].id
        BY <1>1, <3>1 DEF Ordered, Ascending
      <4> QED BY <1>1, <4>1 DEF Ordered
    <3>2. ASSUME i < c PROVE FALSE
      <4>1. table[i].id < table[c].id
        BY <1>1, <3>2 DEF Ordered, Ascending
      <4> QED BY <1>1, <4>1 DEF Ordered
    <3> QED BY <3>1, <3>2
  <2> QED BY <1>1, <2>1, <2>2
<1>3. Entry(table, table[i].id) = table[i]
  BY <1>2 DEF Entry
<1> QED BY <1>3 DEF Ids

\* Every id of a table is the id of some entry.
LEMMA PlaceOf ==
    ASSUME NEW table, NEW id \in Ids(table)
    PROVE  \E i \in 1 .. Len(table) : table[i].id = id
  BY DEF Ids

\* A new entry with a larger id.
LEMMA AppendEntry ==
    ASSUME NEW R, NEW table, Ordered(R, table), NEW e \in R, e.id \in Int,
           \A id \in Ids(table) : id < e.id
    PROVE  LET t == Append(table, e) IN
           /\ Ordered(R, t)
           /\ Len(t) = Len(table) + 1
           /\ Ids(t) = Ids(table) \cup {e.id}
           /\ Entry(t, e.id) = e
           /\ \A id \in Ids(table) : Entry(t, id) = Entry(table, id)
<1> DEFINE t == Append(table, e)
           n == Len(table)
<1>1. /\ n \in Nat /\ t \in Seq(R) /\ Len(t) = n + 1
      /\ \A k \in 1 .. n : t[k] = table[k]
      /\ t[n + 1] = e
  BY LenProperties DEF Ordered
<1> HIDE DEF t
<1>2. \A k \in 1 .. n : table[k].id < e.id
  BY DEF Ids
<1>3. Ordered(R, t)
  <2>1. \A k \in 1 .. n + 1 : t[k].id \in Int
    BY <1>1 DEF Ordered
  <2>2. ASSUME NEW j \in 1 .. n + 1, NEW k \in 1 .. n + 1, j < k
        PROVE  t[j].id < t[k].id
    <3>1. CASE k = n + 1
      BY <1>1, <1>2, <2>2, <3>1
    <3>2. CASE k # n + 1
      <4>1. j \in 1 .. n /\ k \in 1 .. n
        BY <1>1, <2>2, <3>2
      <4>2. table[j].id < table[k].id
        BY <2>2, <4>1 DEF Ordered, Ascending
      <4> QED BY <1>1, <4>1, <4>2
    <3> QED BY <3>1, <3>2
  <2> QED BY <1>1, <2>1, <2>2 DEF Ordered, Ascending
<1>4. Ids(t) = Ids(table) \cup {e.id}
  <2>1. Ids(t) = {t[k].id : k \in 1 .. n + 1}
    BY <1>1 DEF Ids
  <2>2. 1 .. n + 1 = (1 .. n) \cup {n + 1}
    BY <1>1
  <2> QED BY <1>1, <2>1, <2>2 DEF Ids
<1>5. Entry(t, e.id) = e
  <2>1. n + 1 \in 1 .. Len(t)
    BY <1>1
  <2> QED BY <1>1, <1>3, <2>1, EntryAt
<1>6. ASSUME NEW id \in Ids(table) PROVE Entry(t, id) = Entry(table, id)
  <2>1. PICK k \in 1 .. n : table[k].id = id
    BY DEF Ids
  <2>2. k \in 1 .. Len(t) /\ t[k] = table[k]
    BY <1>1, <2>1
  <2> QED BY <1>3, <2>1, <2>2, EntryAt
<1> QED BY <1>1, <1>3, <1>4, <1>5, <1>6 DEF t

\* The table with another entry in place i.
Changed(table, i, e) == [table EXCEPT ![i] = e]

\* An entry replaced by another one with the same id.
LEMMA ChangeEntry ==
    ASSUME NEW R, NEW table, Ordered(R, table), NEW i \in 1 .. Len(table),
           NEW e \in R, e.id = table[i].id,
           NEW t, t = Changed(table, i, e)
    PROVE  /\ Ordered(R, t)
           /\ Len(t) = Len(table)
           /\ \A k \in 1 .. Len(table) : t[k] = IF k = i THEN e ELSE table[k]
           /\ Ids(t) = Ids(table)
           /\ Entry(t, e.id) = e
           /\ \A id \in Ids(table) \ {e.id} : Entry(t, id) = Entry(table, id)
<1> DEFINE n == Len(table)
<1>1. /\ n \in Nat /\ t \in Seq(R) /\ Len(t) = n
      /\ \A k \in 1 .. n : t[k] = IF k = i THEN e ELSE table[k]
  BY LenProperties, ExceptSeq DEF Ordered, Changed
<1>2. \A k \in 1 .. n : t[k].id = table[k].id
  BY <1>1
<1>3. Ordered(R, t)
  BY <1>1, <1>2 DEF Ordered, Ascending
<1>4. Ids(t) = Ids(table)
  BY <1>1, <1>2 DEF Ids
<1>5. Entry(t, e.id) = e
  <2>1. i \in 1 .. Len(t) /\ t[i] = e
    BY <1>1
  <2> QED BY <1>3, <2>1, EntryAt
<1>6. ASSUME NEW id \in Ids(table) \ {e.id} PROVE Entry(t, id) = Entry(table, id)
  <2>1. PICK k \in 1 .. n : table[k].id = id
    BY DEF Ids
  <2>2. k \in 1 .. Len(t) /\ t[k] = table[k]
    BY <1>1, <2>1
  <2> QED BY <1>3, <2>1, <2>2, EntryAt
<1> QED BY <1>1, <1>3, <1>4, <1>5, <1>6

\* Two intervals from 1 are equal only if they end at the same number.
LEMMA IntervalEnd ==
    ASSUME NEW p \in Nat, NEW m \in Nat, 1 .. p = 1 .. m
    PROVE  m = p
<1>1. \A k \in Nat : k \in 1 .. p <=> k \in 1 .. m
  OBVIOUS
<1>2. p = 0 \/ p \in 1 .. p
  OBVIOUS
<1>3. m = 0 \/ m \in 1 .. m
  OBVIOUS
<1>4. p <= m
  BY <1>1, <1>2
<1>5. m <= p
  BY <1>1, <1>3
<1> QED BY <1>4, <1>5

\* An entry taken out.
LEMMA ShiftOutEntry ==
    ASSUME NEW R, NEW table, Ordered(R, table), NEW i \in 1 .. Len(table)
    PROVE  LET t == ShiftOut(table, i) IN
           /\ Ordered(R, t)
           /\ Len(t) = Len(table) - 1
           /\ \A k \in 1 .. Len(t) : \E j \in 1 .. Len(table) : t[k] = table[j]
           /\ Ids(t) = Ids(table) \ {table[i].id}
           /\ \A id \in Ids(t) : Entry(t, id) = Entry(table, id)
<1> DEFINE t == ShiftOut(table, i)
           n == Len(table)
<1>1. n \in Nat /\ n - 1 \in Nat /\ table \in [1 .. n -> R]
  BY LenProperties DEF Ordered
<1>2. t = [k \in 1 .. n - 1 |-> IF k < i THEN table[k] ELSE table[k + 1]]
  BY DEF ShiftOut
<1>3. t \in [1 .. n - 1 -> R]
  BY <1>1, <1>2
<1>4. t \in Seq(R) /\ Len(t) = n - 1
  <2>1. t \in Seq(R)
    BY <1>1, <1>3, SeqDef
  <2>2. 1 .. n - 1 = 1 .. Len(t) /\ Len(t) \in Nat
    BY <1>3, <2>1, LenProperties
  <2>3. Len(t) = n - 1
    BY <1>1, <2>2, IntervalEnd
  <2> QED BY <2>1, <2>3
<1> DEFINE from(k) == IF k < i THEN k ELSE k + 1
<1>5. \A k \in 1 .. n - 1 : from(k) \in 1 .. n /\ t[k] = table[from(k)]
  BY <1>1, <1>2
<1> HIDE DEF t
<1>6. Ordered(R, t)
  <2>1. \A k \in 1 .. n - 1 : t[k].id \in Int
    BY <1>5 DEF Ordered
  <2>2. ASSUME NEW j \in 1 .. n - 1, NEW k \in 1 .. n - 1, j < k
        PROVE  t[j].id < t[k].id
    <3>1. from(j) < from(k)
      BY <2>2
    <3> QED BY <1>5, <3>1 DEF Ordered, Ascending
  <2> QED BY <1>4, <2>1, <2>2 DEF Ordered, Ascending
<1>7. Ids(t) = Ids(table) \ {table[i].id}
  <2>1. ASSUME NEW id \in Ids(t) PROVE id \in Ids(table) /\ id # table[i].id
    <3>1. PICK k \in 1 .. n - 1 : t[k].id = id
      BY <1>4 DEF Ids
    <3>2. from(k) \in 1 .. n /\ id = table[from(k)].id /\ from(k) # i
      BY <1>5, <3>1
    <3>3. from(k) < i \/ i < from(k)
      BY <3>2
    <3>4. table[from(k)].id < table[i].id \/ table[i].id < table[from(k)].id
      BY <3>2, <3>3 DEF Ordered, Ascending
    <3>5. table[from(k)].id \in Int /\ table[i].id \in Int
      BY <3>2 DEF Ordered
    <3>6. id # table[i].id
      BY <3>2, <3>4, <3>5
    <3> HIDE DEF from
    <3> QED BY <3>2, <3>6 DEF Ids
  <2>2. ASSUME NEW id \in Ids(table), id # table[i].id PROVE id \in Ids(t)
    <3>1. PICK k \in 1 .. n : table[k].id = id
      BY DEF Ids
    <3>2. k # i
      BY <2>2, <3>1
    <3>3. CASE k < i
      <4>1. k \in 1 .. n - 1 /\ from(k) = k
        BY <1>1, <3>3
      <4> QED BY <1>4, <1>5, <3>1, <4>1 DEF Ids
    <3>4. CASE i < k
      <4>1. k - 1 \in 1 .. n - 1 /\ from(k - 1) = k
        BY <1>1, <3>4
      <4> QED BY <1>4, <1>5, <3>1, <4>1 DEF Ids
    <3> QED BY <3>2, <3>3, <3>4
  <2> QED BY <2>1, <2>2
<1>8. ASSUME NEW id \in Ids(t) PROVE Entry(t, id) = Entry(table, id)
  <2>1. PICK k \in 1 .. n - 1 : t[k].id = id
    BY <1>4 DEF Ids
  <2>2. from(k) \in 1 .. n /\ t[k] = table[from(k)] /\ k \in 1 .. Len(t)
    BY <1>4, <1>5, <2>1
  <2>3. Entry(t, id) = t[k]
    BY <1>6, <2>1, <2>2, EntryAt
  <2> HIDE DEF from
  <2>4. Entry(table, id) = table[from(k)]
    BY <2>1, <2>2, EntryAt
  <2> QED BY <2>2, <2>3, <2>4
<1>9. \A k \in 1 .. Len(t) : \E j \in 1 .. n : t[k] = table[j]
  BY <1>4, <1>5
<1> QED BY <1>4, <1>6, <1>7, <1>8, <1>9 DEF t
=============================================================================
