------------------------------- MODULE IdTable -------------------------------
(***************************************************************************)
(* Tables of records with ids, as containers, vms and backups keep them: an *)
(* array of which the first count entries are in use, searched from the    *)
(* front and closed up by a loop after a deletion.  A table is the         *)
(* sequence of its entries in use.                                         *)
(***************************************************************************)
EXTENDS Integers, Sequences

\* The places at which a search for id stops: the first match, or none.
Found(table, id) ==
    {i \in 1 .. Len(table) :
        table[i].id = id /\ \A j \in 1 .. i - 1 : table[j].id # id}

\* Mutant: the loop that closes the gap starts one entry late.
ShiftOutLate(table, i) ==
    [k \in 1 .. Len(table) - 1 |-> IF k <= i THEN table[k] ELSE table[k + 1]]

\* The table without entry i: every later entry moves up by one.
ShiftOut(table, i) ==
    [k \in 1 .. Len(table) - 1 |-> IF k < i THEN table[k] ELSE table[k + 1]]

Ids(table) == {table[i].id : i \in 1 .. Len(table)}

Ascending(table) ==
    \A i, j \in 1 .. Len(table) : i < j => table[i].id < table[j].id

\* The entry with a given id, where there is one.
Entry(table, id) == table[CHOOSE i \in 1 .. Len(table) : table[i].id = id]
=============================================================================
