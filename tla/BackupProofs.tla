---------------------------- MODULE BackupProofs ----------------------------
(***************************************************************************)
(* For every size of the array and every configuration: the table stays    *)
(* ordered by ids given once, an operation on one backup leaves the others *)
(* alone, and a cleanup keeps the most recent backups.                     *)
(*                                                                         *)
(* The two loops of the cleanup are recursive functions.  What they        *)
(* compute is proved by induction, in the form that a set which contains 0 *)
(* and with n also n + 1 contains a whole interval.                        *)
(***************************************************************************)
EXTENDS Backup, IdTableProofs, WellFoundedInduction

-----------------------------------------------------------------------------
\* A set of natural numbers that is not empty has a least element.
LEMMA LeastNumber ==
    ASSUME NEW S \in SUBSET Nat, S # {}
    PROVE  \E m \in S : \A k \in S : m <= k
<1> DEFINE R == OpToRel(<, Nat)
<1>1. \A x, y \in Nat : x < y => <<x, y>> \in R
  BY DEF OpToRel
<1>2. IsWellFoundedOn(R, Nat)
  BY NatLessThanWellFounded
<1> HIDE DEF R
<1>3. PICK m \in S : \A k \in S : ~(<<k, m>> \in R)
  BY <1>2, WFMin
<1>4. \A k \in S : ~(k < m)
  BY <1>1, <1>3
<1> QED BY <1>4

\* Induction up to N.
LEMMA UpTo ==
    ASSUME NEW N \in Nat, NEW S, 0 \in S,
           \A n \in 1 .. N : n - 1 \in S => n \in S
    PROVE  \A n \in 0 .. N : n \in S
<1> DEFINE Bad == {n \in 0 .. N : n \notin S}
<1> SUFFICES ASSUME Bad # {} PROVE FALSE
  OBVIOUS
<1>1. Bad \in SUBSET Nat
  OBVIOUS
<1>2. PICK m \in Bad : \A k \in Bad : m <= k
  BY <1>1, LeastNumber
<1>3. m \in 1 .. N /\ m \notin S
  BY <1>2
<1>4. m - 1 \in 0 .. N /\ m - 1 \notin Bad
  BY <1>2, <1>3
<1> QED BY <1>3, <1>4

-----------------------------------------------------------------------------
\* Tables all of whose time stamps are the one the code writes.
Stamped(table) ==
    /\ table \in Seq(Entries)
    /\ \A i \in 1 .. Len(table) : table[i].timestamp = 0

\* Among equal time stamps the first entry is the oldest.
LEMMA FirstIsOldest ==
    ASSUME NEW table, NEW n \in Nat \ {0}, Len(table) = n,
           \A i \in 1 .. n : table[i].timestamp = 0
    PROVE  Oldest(table) = 1
<1> DEFINE P(i) == \A j \in 1 .. Len(table) :
                      \/ table[i].timestamp < table[j].timestamp
                      \/ table[i].timestamp = table[j].timestamp /\ i <= j
<1>1. Oldest(table) = CHOOSE i \in 1 .. Len(table) : P(i)
  BY DEF Oldest
<1>2. 1 \in 1 .. Len(table) /\ P(1)
  OBVIOUS
<1>3. \A i \in 1 .. Len(table) : P(i) => i = 1
  <2> SUFFICES ASSUME NEW i \in 1 .. n, P(i) PROVE i = 1
    OBVIOUS
  <2>1. table[i].timestamp = 0 /\ table[1].timestamp = 0 /\ 1 \in 1 .. Len(table)
    OBVIOUS
  <2>2. \/ table[i].timestamp < table[1].timestamp
        \/ table[i].timestamp = table[1].timestamp /\ i <= 1
    BY <2>1
  <2>3. i <= 1
    BY <2>1, <2>2
  <2> QED BY <2>3
<1> HIDE DEF P
<1> QED BY <1>1, <1>2, <1>3

\* The first n entries of a table, one by one.
LEMMA PrefixGrows ==
    ASSUME NEW R, NEW table \in Seq(R), NEW n \in 1 .. Len(table)
    PROVE  Append([k \in 1 .. n - 1 |-> table[k]], table[n])
             = [k \in 1 .. n |-> table[k]]
<1> DEFINE p == [k \in 1 .. n - 1 |-> table[k]]
<1>1. /\ Len(table) \in Nat /\ n - 1 \in Nat
      /\ \A k \in 1 .. n : table[k] \in R
  BY LenProperties, ElementOfSeq
<1>2. /\ p \in [1 .. n - 1 -> R]
      /\ \A k \in 1 .. n - 1 : p[k] = table[k]
  BY <1>1
<1> HIDE DEF p
<1>3. p \in Seq(R)
  BY <1>1, <1>2, SeqDef
<1>4. Len(p) = n - 1
  <2>1. 1 .. n - 1 = 1 .. Len(p) /\ Len(p) \in Nat
    BY <1>2, <1>3, LenProperties
  <2> QED BY <1>1, <2>1, IntervalEnd
<1> DEFINE t == Append(p, table[n])
<1>5. /\ t \in Seq(R) /\ Len(t) = n
      /\ \A k \in 1 .. n - 1 : t[k] = p[k]
      /\ t[n] = table[n]
  BY <1>1, <1>3, <1>4
<1> HIDE DEF t
<1>6. t \in [1 .. n -> R]
  BY <1>5, LenProperties
<1>7. \A k \in 1 .. n : t[k] = table[k]
  BY <1>2, <1>5
<1> QED BY <1>6, <1>7 DEF t, p

\* Nothing is ever too old for the time that is always 0.
LEMMA AllRetained ==
    ASSUME NEW table, Stamped(table), config.retention_days \in Nat
    PROVE  WithinRetention(table) = table
<1> DEFINE L == Len(table)
           Step(g) == [n \in 0 .. L |->
                         IF n = 0 THEN << >>
                         ELSE IF Recent(table[n]) THEN Append(g[n - 1], table[n])
                         ELSE g[n - 1]]
           Prefix(n) == [k \in 1 .. n |-> table[k]]
           f == CHOOSE g : g = Step(g)
           h == [n \in 0 .. L |-> Prefix(n)]
<1>1. L \in Nat /\ table \in [1 .. L -> Entries]
  BY LenProperties DEF Stamped
<1>2. WithinRetention(table) = f[L]
  BY DEF WithinRetention
<1>3. \A n \in 1 .. L : Recent(table[n])
  BY DEF Recent, Stamped, current_time
<1>4. Prefix(0) = << >>
  OBVIOUS
<1>5. \A n \in 1 .. L : Append(Prefix(n - 1), table[n]) = Prefix(n)
  BY PrefixGrows DEF Stamped
<1> HIDE DEF Prefix
<1>6. h = Step(h)
  BY <1>1, <1>3, <1>4, <1>5
<1>7. f = Step(f)
  BY <1>6
<1> HIDE DEF f
<1> DEFINE S == {n \in 0 .. L : f[n] = Prefix(n)}
<1>8. 0 \in S
  BY <1>1, <1>4, <1>7
<1>9. ASSUME NEW n \in 1 .. L, n - 1 \in S PROVE n \in S
  <2>1. f[n] = Step(f)[n]
    BY <1>7
  <2>2. n \in 0 .. L /\ n # 0 /\ Recent(table[n])
    BY <1>1, <1>3
  <2>3. Step(f)[n] = Append(f[n - 1], table[n])
    BY <2>2
  <2>4. f[n - 1] = Prefix(n - 1)
    BY <1>9
  <2> HIDE DEF Step
  <2>5. f[n] = Prefix(n)
    BY <1>5, <2>1, <2>3, <2>4
  <2> QED BY <2>2, <2>5
<1> HIDE DEF S
<1>10. L \in S
  <2>1. L \in Nat /\ L \in 0 .. L
    BY <1>1
  <2>2. \A n \in 1 .. L : n - 1 \in S => n \in S
    BY <1>9
  <2> HIDE DEF L
  <2>3. \A n \in 0 .. L : n \in S
    BY <1>8, <2>1, <2>2, UpTo
  <2> QED BY <2>1, <2>3
<1>11. f[L] = Prefix(L)
  BY <1>10 DEF S
<1> QED BY <1>1, <1>2, <1>11 DEF Prefix

\* The table without its first n entries.
Rest(table, n) == [k \in 1 .. Len(table) - n |-> table[k + n]]

LEMMA RestShape ==
    ASSUME NEW R, NEW table \in Seq(R), NEW n \in 0 .. Len(table)
    PROVE  /\ Rest(table, n) \in Seq(R)
           /\ Len(Rest(table, n)) = Len(table) - n
           /\ \A k \in 1 .. Len(table) - n : Rest(table, n)[k] = table[k + n]
<1> DEFINE m == Len(table) - n
           t == Rest(table, n)
<1>1. /\ Len(table) \in Nat /\ m \in Nat
      /\ \A k \in 1 .. Len(table) : table[k] \in R
  BY LenProperties, ElementOfSeq
<1>2. t \in [1 .. m -> R] /\ \A k \in 1 .. m : t[k] = table[k + n]
  BY <1>1 DEF Rest
<1> HIDE DEF t, m
<1>3. t \in Seq(R)
  BY <1>1, <1>2, SeqDef
<1>4. Len(t) = m
  <2>1. 1 .. m = 1 .. Len(t) /\ Len(t) \in Nat
    BY <1>2, <1>3, LenProperties
  <2> QED BY <1>1, <2>1, IntervalEnd
<1> QED BY <1>2, <1>3, <1>4 DEF t, m

\* Taking out the oldest entry takes out the first.
LEMMA RestShrinks ==
    ASSUME NEW table, Stamped(table), NEW n \in 1 .. Len(table)
    PROVE  ShiftOut(Rest(table, n - 1), Oldest(Rest(table, n - 1))) = Rest(table, n)
<1> DEFINE L == Len(table)
           t == Rest(table, n - 1)
<1>1. L \in Nat /\ n - 1 \in 0 .. L /\ table \in Seq(Entries)
  BY LenProperties DEF Stamped
<1>2. /\ Len(t) = L - (n - 1)
      /\ \A k \in 1 .. L - (n - 1) : t[k] = table[k + (n - 1)]
  BY <1>1, RestShape
<1> HIDE DEF t
<1>3. L - (n - 1) \in Nat \ {0}
  BY <1>1
<1>4. \A k \in 1 .. L - (n - 1) : t[k].timestamp = 0
  <2> SUFFICES ASSUME NEW k \in 1 .. L - (n - 1) PROVE t[k].timestamp = 0
    OBVIOUS
  <2>1. k + (n - 1) \in 1 .. L
    BY <1>1
  <2> QED BY <1>2, <2>1 DEF Stamped
<1>5. Oldest(t) = 1
  BY <1>2, <1>3, <1>4, FirstIsOldest
<1>6. ShiftOut(t, 1) = [k \in 1 .. L - n |-> t[k + 1]]
  <2>1. Len(t) - 1 = L - n
    BY <1>1, <1>2
  <2>2. ShiftOut(t, 1) = [k \in 1 .. L - n |-> IF k < 1 THEN t[k] ELSE t[k + 1]]
    BY <2>1 DEF ShiftOut
  <2>3. \A k \in 1 .. L - n : ~(k < 1)
    BY <1>1
  <2> QED BY <2>2, <2>3
<1>7. \A k \in 1 .. L - n : t[k + 1] = table[k + n]
  <2> SUFFICES ASSUME NEW k \in 1 .. L - n PROVE t[k + 1] = table[k + n]
    OBVIOUS
  <2>1. k + 1 \in 1 .. L - (n - 1) /\ (k + 1) + (n - 1) = k + n
    BY <1>1
  <2> QED BY <1>2, <2>1
<1>8. Rest(table, n) = [k \in 1 .. L - n |-> table[k + n]]
  BY DEF Rest
<1>9. ShiftOut(t, 1) = Rest(table, n)
  BY <1>6, <1>7, <1>8
<1> QED BY <1>5, <1>9 DEF t

\* The loop over max_backups takes entries off the front.
LEMMA FrontTakenOff ==
    ASSUME NEW table, Stamped(table), config.max_backups \in Nat,
           Len(table) > config.max_backups
    PROVE  WithinMaximum(table) = Rest(table, Len(table) - config.max_backups)
<1> DEFINE L == Len(table)
           d == L - config.max_backups
           Step(g) == [n \in 0 .. L |->
                         IF n = 0 THEN table
                         ELSE ShiftOut(g[n - 1], Oldest(g[n - 1]))]
           f == CHOOSE g : g = Step(g)
           h == [n \in 0 .. L |-> Rest(table, n)]
<1>1. L \in Nat /\ table \in [1 .. L -> Entries]
  BY LenProperties DEF Stamped
<1>2. WithinMaximum(table) = f[d]
  <2>1. ~(L <= config.max_backups)
    BY <1>1
  <2> QED BY <2>1 DEF WithinMaximum
<1>3. Rest(table, 0) = table
  <2>1. L - 0 = L /\ \A k \in 1 .. L : k + 0 = k
    BY <1>1
  <2>2. Rest(table, 0) = [k \in 1 .. L |-> table[k]]
    BY <2>1 DEF Rest
  <2> QED BY <1>1, <2>2
<1>4. \A n \in 1 .. L : ShiftOut(Rest(table, n - 1), Oldest(Rest(table, n - 1)))
                          = Rest(table, n)
  BY RestShrinks
<1>5. h = Step(h)
  <2>1. \A n \in 1 .. L : h[n - 1] = Rest(table, n - 1)
    BY <1>1
  <2> QED BY <1>1, <1>3, <1>4, <2>1
<1>6. f = Step(f)
  BY <1>5
<1> HIDE DEF f
<1> DEFINE S == {n \in 0 .. L : f[n] = Rest(table, n)}
<1>7. 0 \in S
  BY <1>1, <1>3, <1>6
<1>8. ASSUME NEW n \in 1 .. L, n - 1 \in S PROVE n \in S
  <2>1. f[n] = Step(f)[n]
    BY <1>6
  <2>2. n \in 0 .. L /\ n # 0
    BY <1>1
  <2>3. Step(f)[n] = ShiftOut(f[n - 1], Oldest(f[n - 1]))
    BY <2>2
  <2>4. f[n - 1] = Rest(table, n - 1)
    BY <1>8
  <2> HIDE DEF Step
  <2>5. f[n] = Rest(table, n)
    BY <1>4, <2>1, <2>3, <2>4
  <2> QED BY <2>2, <2>5
<1> HIDE DEF S
<1>9. d \in S
  <2>1. L \in Nat /\ d \in 0 .. L
    BY <1>1
  <2>2. \A n \in 1 .. L : n - 1 \in S => n \in S
    BY <1>8
  <2> HIDE DEF L, d
  <2>3. \A n \in 0 .. L : n \in S
    BY <1>7, <2>1, <2>2, UpTo
  <2> QED BY <2>1, <2>3
<1>10. f[d] = Rest(table, d)
  BY <1>9 DEF S
<1> QED BY <1>2, <1>10

-----------------------------------------------------------------------------
\* The invariants, with the time stamp every entry has, are inductive.
Inv ==
    /\ BackupTypeOK
    /\ IdsAscending
    /\ \A i \in 1 .. Len(backups) : backups[i].timestamp = 0

LEMMA BackupsOrdered ==
    ASSUME Inv
    PROVE  /\ Ordered(Entries, backups) /\ Stamped(backups)
           /\ Len(backups) \in Nat
           /\ \A i \in 1 .. Len(backups) : backups[i] \in Entries
           /\ config \in [enabled : BOOLEAN, retention_days : Nat,
                          max_backups : Nat, schedule_interval : Nat]
<1>1. backups \in Seq(Entries)
  BY DEF Inv, BackupTypeOK
<1>2. \A i \in 1 .. Len(backups) : backups[i] \in Entries
  BY <1>1, ElementOfSeq
<1>3. \A i \in 1 .. Len(backups) : backups[i].id \in Int
  BY <1>2, BackupAssumption DEF Entries
<1>4. config \in [enabled : BOOLEAN, retention_days : Nat,
                  max_backups : Nat, schedule_interval : Nat]
  BY BackupAssumption DEF Inv, BackupTypeOK
<1> QED BY <1>1, <1>2, <1>3, <1>4, LenProperties DEF Ordered, Stamped, Inv, IdsAscending

\* A new backup has a larger id than every other one.
LEMMA CreateStep ==
    ASSUME Inv, NEW status \in {"PENDING", "COMPLETED"}, Create(status),
           checked' \in BOOLEAN
    PROVE  Inv'
<1> DEFINE e == [id |-> next_backup_id, status |-> status, timestamp |-> 0,
                 taken |-> day]
<1>1. /\ backups' = Append(backups, e)
      /\ Len(backups) < MAX_BACKUPS
      /\ next_backup_id <= BackupCreations
      /\ next_backup_id' = next_backup_id + 1
      /\ config' = config /\ day' = day
  BY DEF Create, Room, NewId, current_time
<1>2. next_backup_id \in 1 .. BackupCreations + 1 /\ day \in 1 .. Days
  BY DEF Inv, BackupTypeOK
<1>3. next_backup_id \in 1 .. BackupCreations /\ next_backup_id \in Int
  BY <1>1, <1>2, BackupAssumption
<1>4. e \in Entries /\ e.id = next_backup_id /\ e.timestamp = 0 /\ e.id \in Int
  BY <1>2, <1>3 DEF Entries
<1> HIDE DEF e
<1>5. Ordered(Entries, backups) /\ Len(backups) \in Nat
  BY BackupsOrdered
<1>6. \A id \in Ids(backups) : id < e.id
  BY <1>4 DEF Inv, IdsAscending
<1>7. /\ Ordered(Entries, backups') /\ Len(backups') = Len(backups) + 1
      /\ Ids(backups') = Ids(backups) \cup {e.id}
  BY <1>1, <1>4, <1>5, <1>6, AppendEntry
<1>8. BackupTypeOK'
  <2>1. Len(backups') <= MAX_BACKUPS
    BY <1>1, <1>5, <1>7, BackupAssumption
  <2>2. next_backup_id' \in 1 .. BackupCreations + 1
    BY <1>1, <1>3, BackupAssumption
  <2> QED BY <1>1, <1>7, <2>1, <2>2 DEF BackupTypeOK, Inv, Ordered
<1>9. IdsAscending'
  <2>1. \A id \in Ids(backups) : id \in Int /\ id < next_backup_id
    BY <1>5 DEF Inv, IdsAscending, Ids, Ordered
  <2>2. \A id \in Ids(backups') : id < next_backup_id'
    BY <1>1, <1>3, <1>4, <1>7, <2>1
  <2> QED BY <1>7, <2>2 DEF IdsAscending, Ordered
<1>10. \A i \in 1 .. Len(backups') : backups'[i].timestamp = 0
  <2>1. /\ \A i \in 1 .. Len(backups) : backups'[i] = backups[i]
        /\ backups'[Len(backups) + 1] = e
    BY <1>1, <1>4, <1>5 DEF Ordered
  <2>2. \A i \in 1 .. Len(backups') :
           i \in 1 .. Len(backups) \/ i = Len(backups) + 1
    BY <1>5, <1>7
  <2> QED BY <1>4, <2>1, <2>2 DEF Inv
<1> QED BY <1>8, <1>9, <1>10 DEF Inv

LEMMA ExecuteStep ==
    ASSUME Inv, NEW id, backup_execute(id)
    PROVE  Inv' /\ OthersKept(id)
<1>1. PICK i \in 1 .. Len(backups) :
         /\ backups[i].id = id
         /\ backups' = [backups EXCEPT ![i].status = "COMPLETED"]
         /\ UNCHANGED <<next_backup_id, config, day, checked>>
  BY DEF backup_execute, Found
<1> DEFINE e == [backups[i] EXCEPT !.status = "COMPLETED"]
<1>2. Ordered(Entries, backups) /\ backups[i] \in Entries
      /\ i \in 1 .. Len(backups)
  BY <1>1, BackupsOrdered
<1>3. e \in Entries /\ e.id = backups[i].id /\ e.timestamp = backups[i].timestamp
  BY <1>2 DEF Entries
<1>4. backups' = Changed(backups, i, e)
  BY <1>1 DEF Changed
<1> HIDE DEF e
<1>5. /\ Ordered(Entries, backups') /\ Len(backups') = Len(backups)
      /\ \A k \in 1 .. Len(backups) :
            backups'[k] = IF k = i THEN e ELSE backups[k]
      /\ Ids(backups') = Ids(backups)
      /\ \A x \in Ids(backups) \ {e.id} : Entry(backups', x) = Entry(backups, x)
  BY <1>2, <1>3, <1>4, ChangeEntry
<1>6. BackupTypeOK'
  BY <1>1, <1>5 DEF BackupTypeOK, Inv, Ordered
<1>7. IdsAscending'
  BY <1>1, <1>5 DEF IdsAscending, Inv, Ordered
<1>8. \A k \in 1 .. Len(backups') : backups'[k].timestamp = 0
  BY <1>3, <1>5 DEF Inv
<1> QED BY <1>1, <1>3, <1>5, <1>6, <1>7, <1>8 DEF Inv, OthersKept

LEMMA DeleteStep ==
    ASSUME Inv, NEW id, backup_delete(id)
    PROVE  Inv' /\ OthersKept(id)
<1>1. PICK i \in 1 .. Len(backups) :
         /\ backups[i].id = id
         /\ backups' = ShiftOut(backups, i)
         /\ UNCHANGED <<next_backup_id, config, day, checked>>
  BY DEF backup_delete, Found
<1>2. Ordered(Entries, backups) /\ Len(backups) \in Nat
  BY BackupsOrdered
<1>3. /\ Ordered(Entries, backups') /\ Len(backups') = Len(backups) - 1
      /\ \A k \in 1 .. Len(backups') :
            \E j \in 1 .. Len(backups) : backups'[k] = backups[j]
      /\ Ids(backups') = Ids(backups) \ {backups[i].id}
      /\ \A x \in Ids(backups') : Entry(backups', x) = Entry(backups, x)
  <2> DEFINE t == ShiftOut(backups, i)
  <2>1. /\ Ordered(Entries, t) /\ Len(t) = Len(backups) - 1
        /\ \A k \in 1 .. Len(t) : \E j \in 1 .. Len(backups) : t[k] = backups[j]
        /\ Ids(t) = Ids(backups) \ {backups[i].id}
        /\ \A x \in Ids(t) : Entry(t, x) = Entry(backups, x)
    BY <1>2, ShiftOutEntry
  <2>2. backups' = t
    BY <1>1
  <2> HIDE DEF t
  <2> QED BY <2>1, <2>2
<1>4. BackupTypeOK'
  BY <1>1, <1>2, <1>3, BackupAssumption DEF BackupTypeOK, Inv, Ordered
<1>5. IdsAscending'
  BY <1>1, <1>3 DEF IdsAscending, Inv, Ordered
<1>6. \A k \in 1 .. Len(backups') : backups'[k].timestamp = 0
  BY <1>3 DEF Inv
<1> QED BY <1>1, <1>3, <1>4, <1>5, <1>6 DEF Inv, OthersKept

\* What a cleanup keeps and what it removes.
RecentKept ==
    /\ Ids(backups') \subseteq Ids(backups)
    /\ \A kept \in Ids(backups'), gone \in Ids(backups) \ Ids(backups') :
          gone < kept
    /\ Len(backups') <= config.max_backups
    /\ Len(backups') = config.max_backups \/ backups' = backups

LEMMA CleanupStep ==
    ASSUME Inv, backup_cleanup_old
    PROVE  Inv' /\ RecentKept
<1> DEFINE L == Len(backups)
           m == config.max_backups
           d == L - m
<1>1. /\ Ordered(Entries, backups) /\ Stamped(backups) /\ L \in Nat
      /\ m \in Nat /\ config.retention_days \in Nat
  BY BackupsOrdered
<1>2. /\ backups' = WithinMaximum(backups)
      /\ UNCHANGED <<next_backup_id, config, day, checked>>
  BY <1>1, AllRetained DEF backup_cleanup_old
<1>3. CASE L <= m
  <2>1. backups' = backups
    BY <1>2, <1>3 DEF WithinMaximum
  <2>2. Inv'
    BY <1>2, <2>1 DEF Inv, BackupTypeOK, IdsAscending
  <2>3. \A kept \in Ids(backups'), gone \in Ids(backups) \ Ids(backups') :
           gone < kept
    BY <2>1
  <2> QED BY <1>3, <2>1, <2>2, <2>3 DEF RecentKept
<1>4. CASE L > m
  <2>1. backups' = Rest(backups, d) /\ d \in 0 .. L /\ L - d = m
    BY <1>1, <1>2, <1>4, FrontTakenOff
  <2>2. backups \in Seq(Entries)
    BY <1>1 DEF Ordered
  <2>3. /\ backups' \in Seq(Entries) /\ Len(backups') = m
        /\ \A k \in 1 .. m : backups'[k] = backups[k + d]
    BY <2>1, <2>2, RestShape
  <2>4. \A k \in 1 .. m : k + d \in 1 .. L
    BY <1>1, <2>1
  <2>5. Ids(backups') = {backups[k + d].id : k \in 1 .. m}
    BY <2>3 DEF Ids
  <2>6. Ids(backups') \subseteq Ids(backups)
    BY <2>4, <2>5 DEF Ids
  <2>7. ASSUME NEW kept \in Ids(backups'),
               NEW gone \in Ids(backups) \ Ids(backups')
        PROVE  gone < kept
    <3>1. PICK k \in 1 .. m : kept = backups[k + d].id
      BY <2>5
    <3>2. PICK j \in 1 .. L : gone = backups[j].id
      BY DEF Ids
    <3>3. ~(j > d)
      <4> SUFFICES ASSUME j > d PROVE FALSE
        OBVIOUS
      <4>1. j - d \in 1 .. m /\ (j - d) + d = j
        BY SMTT(30), <1>1, <2>1, <3>2
      <4>2. gone \in Ids(backups')
        BY <2>5, <3>2, <4>1
      <4> QED BY <4>2
    <3>4. j < k + d /\ k + d \in 1 .. L
      BY <1>1, <2>1, <3>3
    <3> QED BY <1>1, <3>1, <3>2, <3>4 DEF Ordered, Ascending
  <2>8. Inv'
    <3>1. BackupTypeOK'
      BY <1>1, <1>2, <1>4, <2>3, BackupAssumption DEF BackupTypeOK, Inv
    <3>2. Ascending(backups')
      <4> SUFFICES ASSUME NEW i \in 1 .. m, NEW j \in 1 .. m, i < j
                   PROVE  backups[i + d].id < backups[j + d].id
        BY <2>3 DEF Ascending
      <4>1. i + d < j + d /\ i + d \in 1 .. L /\ j + d \in 1 .. L
        BY <1>1, <2>1
      <4> QED BY <1>1, <4>1 DEF Ordered, Ascending
    <3>3. IdsAscending'
      BY <1>2, <2>6, <3>2 DEF IdsAscending, Inv
    <3>4. \A k \in 1 .. Len(backups') : backups'[k].timestamp = 0
      BY <2>3, <2>4 DEF Inv
    <3> QED BY <3>1, <3>3, <3>4 DEF Inv
  <2>9. Len(backups') <= config.max_backups
    BY <1>1, <2>3
  <2> QED BY <2>3, <2>6, <2>7, <2>8, <2>9 DEF RecentKept
<1> QED BY <1>1, <1>3, <1>4

-----------------------------------------------------------------------------
LEMMA InitInv == backup_init => Inv
<1> SUFFICES ASSUME backup_init PROVE Inv
  OBVIOUS
<1>1. backups = << >> /\ backups \in Seq(Entries) /\ Len(backups) = 0
  BY DEF backup_init
<1>2. /\ next_backup_id = 1 /\ config = DefaultConfig
      /\ day = 1 /\ checked = FALSE
  BY DEF backup_init
<1>3. 1 \in 1 .. BackupCreations + 1 /\ 1 \in 1 .. Days /\ 0 <= MAX_BACKUPS
  BY BackupAssumption
<1>4. BackupTypeOK
  BY <1>1, <1>2, <1>3 DEF BackupTypeOK
<1> QED BY <1>1, <1>4 DEF Inv, IdsAscending, Ascending, Ids

LEMMA NextInv == Inv /\ [BackupNext]_backup_vars => Inv'
<1> SUFFICES ASSUME Inv, [BackupNext]_backup_vars PROVE Inv'
  OBVIOUS
<1>1. checked \in BOOLEAN
  BY DEF Inv, BackupTypeOK
<1>2. CASE backup_create
  BY <1>1, <1>2, CreateStep DEF backup_create
<1>3. ASSUME NEW id, Operation(id) PROVE Inv'
  BY <1>3, ExecuteStep, DeleteStep DEF Operation
<1>4. CASE backup_cleanup_old
  BY <1>4, CleanupStep
<1>5. CASE backup_schedule_check
  <2>1. checked' = TRUE
    BY <1>5 DEF backup_schedule_check
  <2>2. CASE Due /\ Room
    BY <1>5, <2>1, <2>2, CreateStep DEF backup_schedule_check
  <2>3. CASE ~(Due /\ Room)
    <3>1. UNCHANGED <<backups, next_backup_id, config, day>>
      BY <1>5, <2>3 DEF backup_schedule_check
    <3> QED BY <2>1, <3>1 DEF Inv, BackupTypeOK, IdsAscending
  <2> QED BY <2>2, <2>3
<1>6. CASE \/ \E new_config \in Configs : backup_set_config(new_config)
           \/ NextDay
           \/ UNCHANGED backup_vars
  <2>1. /\ backups' = backups /\ next_backup_id' = next_backup_id
        /\ config' \in Configs \cup {DefaultConfig}
        /\ day' \in 1 .. Days /\ checked' \in BOOLEAN
    <3>1. /\ config \in Configs \cup {DefaultConfig}
          /\ day \in 1 .. Days /\ checked \in BOOLEAN
      BY DEF Inv, BackupTypeOK
    <3>2. CASE \E new_config \in Configs : backup_set_config(new_config)
      BY <3>1, <3>2 DEF backup_set_config
    <3>3. CASE NextDay
      <4>1. day' = day + 1 /\ day < Days /\ Days \in Nat
        BY <3>3, BackupAssumption DEF NextDay
      <4>2. day' \in 1 .. Days
        BY <3>1, <4>1
      <4> QED BY <3>1, <3>3, <4>2 DEF NextDay
    <3>4. CASE UNCHANGED backup_vars
      BY <3>1, <3>4 DEF backup_vars
    <3> QED BY <1>6, <3>2, <3>3, <3>4
  <2> QED BY <2>1 DEF Inv, BackupTypeOK, IdsAscending
<1> QED BY <1>2, <1>3, <1>4, <1>5, <1>6 DEF BackupNext

LEMMA SpecInv == BackupSpec => []Inv
  BY InitInv, NextInv, PTL DEF BackupSpec

\* The table stays within its array and its variables keep their types.
THEOREM TypeCorrect == BackupSpec => []BackupTypeOK
<1>1. Inv => BackupTypeOK
  BY DEF Inv
<1> QED BY SpecInv, <1>1, PTL

\* The table stays ordered by ids that are given once (backup_create).
THEOREM BackupIds == BackupSpec => []IdsAscending
<1>1. Inv => IdsAscending
  BY DEF Inv
<1> QED BY SpecInv, <1>1, PTL

\* An operation on one backup leaves every other one as it was.
THEOREM OneAtATime == BackupSpec => OneBackupAtATime
<1>1. Inv => [\A id \in 1 .. BackupCreations : Operation(id) => OthersKept(id)]_backup_vars
  BY ExecuteStep, DeleteStep DEF Operation
<1> QED BY SpecInv, <1>1, PTL DEF OneBackupAtATime

\* A cleanup removes what was taken longest ago, for want of room or for age
\* (backup.c:163), for every table and every limit.
THEOREM CleanupExact == BackupSpec => CleanupKeepsMostRecent
<1> DEFINE Cleaned ==
       /\ Ids(backups') \subseteq Ids(backups)
       /\ Len(backups') <= config.max_backups
       /\ \A gone \in Ids(backups) \ Ids(backups') :
             /\ \A kept \in Ids(backups') : gone < kept
             /\ \/ Len(backups') = config.max_backups
                \/ day - Entry(backups, gone).taken > config.retention_days
<1>1. RecentKept => Cleaned
  <2> SUFFICES ASSUME RecentKept PROVE Cleaned
    OBVIOUS
  <2>1. CASE Len(backups') = config.max_backups
    BY <2>1 DEF RecentKept
  <2>2. CASE backups' = backups
    <3>1. Ids(backups) \ Ids(backups') = {}
      BY <2>2
    <3> QED BY <3>1 DEF RecentKept
  <2> QED BY <2>1, <2>2 DEF RecentKept
<1>2. Inv => [backup_cleanup_old => Cleaned]_backup_vars
  BY <1>1, CleanupStep
<1> QED BY SpecInv, <1>2, PTL DEF CleanupKeepsMostRecent
=============================================================================
