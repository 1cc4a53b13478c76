-------------------------------- MODULE RowSet --------------------------------
(***************************************************************************)
(* What an IndexSet promises (index_set.hpp): it is a set of row numbers,  *)
(* and a call does to it what IndexSets says.                              *)
(***************************************************************************)
EXTENDS IndexSets

CONSTANTS Calls,    \* what may be asked of a set
          NoCall

VARIABLES members, call

vars == <<members, call>>

Rows(first, count) == first .. first + count - 1

\* A call as a change of the set.
Effect(S, c) ==
  CASE c.op = "add" -> S \union {c.index}
    [] c.op = "add_all" -> S \union c.values
    [] c.op = "add_shifted" -> AddShifted(S, c.index)
    [] c.op = "add_shifted_by" -> AddShiftedBy(S, c.by, c.values)
    [] c.op = "set" -> FirstRows(c.index)
    [] c.op = "insert_at" -> InsertAtAll(S, Rows(c.index, c.count))
    [] c.op = "insert_at_all" -> InsertAtAll(S, c.values)
    [] c.op = "shift_for_insert_at" -> ShiftForInsertAtAll(S, Rows(c.index, c.count))
    [] c.op = "shift_for_insert_at_all" -> ShiftForInsertAtAll(S, c.values)
    [] c.op \in {"erase_at", "erase_or_unshift"} -> EraseAt(S, c.index)
    [] c.op = "erase_at_all" -> EraseAtAll(S, c.values)
    [] c.op = "remove" -> S \ Rows(c.index, c.count)
    [] c.op = "remove_all" -> S \ c.values

Init == members = {} /\ call = NoCall

Invoke == call = NoCall /\ call' \in Calls /\ UNCHANGED members

Return == call # NoCall /\ members' = Effect(members, call) /\ call' = NoCall

Next == Invoke \/ Return

Spec == Init /\ [][Next]_vars
==============================================================================
