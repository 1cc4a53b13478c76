------------------------------ MODULE IndexSets ------------------------------
(***************************************************************************)
(* The object store's IndexSet (index_set.cpp): a set of row numbers with  *)
(* the operations a change set is built from.  The code keeps the set as   *)
(* ranges in chunks; here it is the set itself, and an operation is what   *)
(* it does to the set.                                                     *)
(***************************************************************************)
EXTENDS Naturals, FiniteSets

\* How many members lie in start .. end - 1.
Count(S, start, end) == Cardinality({v \in S : start <= v /\ v < end})

(* Where the index-th number outside S lies: a position among the rows
   that are not in S becomes a position among all rows. *)
Shift(S, index) ==
  CHOOSE n \in index .. index + Cardinality(S) : n \notin S /\ n = index + Count(S, 0, n)

\* The other way, for a position outside S.
Unshift(S, index) == index - Count(S, 0, index)

\* The member that add_shifted adds to S is Shift(S, index).
AddShifted(S, index) == S \union {Shift(S, index)}

\* Mutant of AddShiftedBy: the values are taken as they are.
AddAsTheyAre(S, by, values) == S \union values

(* S counts places among all rows; values counts places after the rows of
   `by` were inserted: those of `by` are dropped, the others counted
   without them and then past S. *)
AddShiftedBy(S, by, values) ==
  S \union {Shift(S, Unshift(by, v)) : v \in values \ by}

\* The row at index is taken away: the later ones close up.
EraseAt(S, index) == {IF v < index THEN v ELSE v - 1 : v \in S \ {index}}

EraseAtAll(S, positions) == {Unshift(positions, v) : v \in S \ positions}

\* A row comes in at index without being a member: the later ones make room.
ShiftForInsertAt(S, index) == {IF v < index THEN v ELSE v + 1 : v \in S}

ShiftForInsertAtAll(S, positions) == {Shift(positions, v) : v \in S}

\* A row comes in at index, or rows at positions, and are members.
InsertAtIndex(S, index) == ShiftForInsertAt(S, index) \union {index}

InsertAtAll(S, positions) == ShiftForInsertAtAll(S, positions) \union positions

\* set(len): the first len rows.
FirstRows(len) == {v \in 0 .. len : v < len}
==============================================================================
