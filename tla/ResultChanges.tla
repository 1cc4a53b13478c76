---------------------------- MODULE ResultChanges ----------------------------
(***************************************************************************)
(* How the changes of a query's results reach a callback.  The rows of a   *)
(* table are changed by write transactions; the worker reads their log     *)
(* (TransactLogObserver), runs the query again, finds the old results in   *)
(* the table through what it read and compares them with the new ones      *)
(* (ResultsNotifier), and adds that to what the callback has not been      *)
(* given yet (CollectionNotifier).                                         *)
(*                                                                         *)
(* A row is [id, key]: the identity that a change set never sees, and what *)
(* the query looks at.  Rows with key 0 do not match; sorted results are   *)
(* sorted by key.                                                          *)
(***************************************************************************)
EXTENDS ResultDiffs

CONSTANTS MaxRows,     \* bound: rows of the table
          MaxKey,      \* bound: keys of a row
          MaxEdits     \* bound: changes to the table

ASSUME ResultChangesAssumption ==
  /\ {MaxRows, MaxKey, MaxEdits} \subseteq Nat
  /\ MaxRows <= Npos

VARIABLES sorted,      \* does the query sort its results?
          table,
          log,         \* m_info->tables[..], as the log is read
          found,       \* the table as of the worker's last run
          accumulated, \* Callback::accumulated_changes
          told,        \* the ids of the results the callback knows
          changed,     \* the ids modified since the last run
          untold,      \* the ids modified between told and the last run
          edits        \* how many changes there were; also gives new ids

vars == <<sorted, table, log, found, accumulated, told, changed, untold, edits>>

\* A row is its id, which it keeps wherever it is moved, and its key, 0 if no result.
NewId == MaxRows + edits + 1

Ids(rows) == [p \in DOMAIN rows |-> rows[p].id]

\* Without sorting all that matters of a key is whether the row matches.
Keys == IF sorted THEN 0 .. MaxKey ELSE {0, 1}

(* The rows the query finds, by their number in the table: in the order of
   the table, or by key and, for the same key, in that order. *)
Before(rows, p, q) ==
  IF sorted /\ RowAt(rows, p).key # RowAt(rows, q).key
  THEN RowAt(rows, p).key < RowAt(rows, q).key ELSE p < q
Matching(rows) ==
  SetToSortSeq({p \in Places(rows) : RowAt(rows, p).key > 0}, LAMBDA p, q : Before(rows, p, q))
Results(rows) == LET places == Matching(rows) IN [n \in DOMAIN places |-> RowAt(rows, places[n]).id]

Init ==
  /\ sorted \in BOOLEAN
  /\ \E size \in 0 .. MaxRows - 1 : \E keys \in [1 .. size -> Keys] :
       table = [p \in 1 .. size |-> [id |-> p, key |-> keys[p]]]
  /\ found = table
  /\ told = Results(table)
  /\ log = NoChanges
  /\ accumulated = NoChanges
  /\ changed = {}
  /\ untold = {}
  /\ edits = 0

(***************************************************************************)
(* Changes to the table, with what the observer makes of their log entry   *)
(***************************************************************************)
Edit(newTable, newLog, modified) ==
  /\ edits < MaxEdits
  /\ edits' = edits + 1
  /\ table' = newTable
  /\ log' = newLog
  /\ changed' = changed \union modified
  /\ UNCHANGED <<sorted, found, accumulated, told, untold>>

LastPlace(rows) == Len(rows) - 1

\* The rows without the one at place, the last one moved over it.
MovedOver(rows, place) == Front([rows EXCEPT ![place + 1] = Last(rows)])

(* add_empty_row and then the setting of its properties. *)
AddRow(key) ==
  /\ Len(table) < MaxRows
  /\ Edit(Append(table, [id |-> NewId, key |-> key]),
          Modify(Insert(log, Len(table)), Len(table)), {})

DeleteRow(place) ==
  Edit(MovedOver(table, place), MoveOver(log, place, LastPlace(table)), {})

SetKey(place, key) ==
  Edit([table EXCEPT ![place + 1].key = key], Modify(log, place), {RowAt(table, place).id})

SwapRows(p, q) ==
  /\ p < q
  /\ Edit([table EXCEPT ![p + 1] = table[q + 1], ![q + 1] = table[p + 1]], Swap(log, p, q), {})

(* merge_rows: a row made since the last run takes the identity of another
   one, whose deletion follows. *)
MergeRows(old, new) ==
  LET identity == RowAt(table, old).id
  IN /\ old # new
     /\ new \in log.insertions /\ ~Tracked(log, new)
     /\ Edit(MovedOver([table EXCEPT ![new + 1].id = identity], old),
             MoveOver(Subsume(log, old, new), old, LastPlace(table)), {identity})

ClearTable == Edit(<< >>, ClearUnknown, {})

(***************************************************************************)
(* The worker                                                              *)
(***************************************************************************)
\* Mutant of Located: the rows deleted before are counted.
LocatedWithDeleted(c, place) ==
  IF place \in c.deletions
  THEN LET moved == SelectInSeq(c.moves, LAMBDA m : m.from = place)
       IN IF moved = 0 THEN Npos ELSE c.moves[moved].to
  ELSE Shift(c.insertions, place)

(* Where a row of the last run is now: deleted rows that moved are found
   through the moves, the others by what went and came before them. *)
Located(c, place) ==
  IF place \in c.deletions
  THEN LET moved == SelectInSeq(c.moves, LAMBDA m : m.from = place)
       IN IF moved = 0 THEN Npos ELSE c.moves[moved].to
  ELSE Shift(c.insertions, Unshift(c.deletions, place))

Calculated(c) ==
  LET old == Matching(found)
      prev == [n \in DOMAIN old |-> Located(c, old[n])]
      next == Matching(table)
  IN IF sorted THEN CalculateSorted(prev, next, c.modifications)
     ELSE {CalculateUnsorted(prev, next, c.modifications, c.insertions)}

Run ==
  /\ \E c \in Calculated(ParseComplete(log)) : accumulated' = Merge(accumulated, c)
  /\ log' = NoChanges
  /\ found' = table
  /\ untold' = untold \union changed
  /\ changed' = {}
  /\ UNCHANGED <<sorted, table, told, edits>>

\* package_for_delivery: the callback is given what was accumulated.
Deliver ==
  /\ accumulated' = NoChanges
  /\ told' = Results(found)
  /\ untold' = {}
  /\ UNCHANGED <<sorted, table, log, found, changed, edits>>

Next ==
  \/ \E key \in Keys : AddRow(key)
  \/ \E place \in Places(table) : DeleteRow(place)
  \/ \E place \in Places(table), key \in Keys : SetKey(place, key)
  \/ \E p, q \in Places(table) : SwapRows(p, q) \/ MergeRows(p, q)
  \/ ClearTable
  \/ Run
  \/ Deliver

Spec == Init /\ [][Next]_vars

(***************************************************************************)
(* Properties                                                              *)
(***************************************************************************)
\* A row of the table was where the log, half read, tells, or is new.
OriginsAreTold ==
  \A p \in Places(table) :
    LET id == RowAt(table, p).id
        origin == IF p \in DOMAIN log.mapping THEN log.mapping[p]
                  ELSE IF p \in log.insertions THEN Npos
                  ELSE Shift(log.deletions, Unshift(log.insertions, p))
    IN IF Holds(Ids(found), id) THEN origin = PlaceOf(Ids(found), id) ELSE origin = Npos

\* A row of the last run is where the worker would now look for it, or gone.
RowsAreLocated ==
  LET c == ParseComplete(log)
      now == Ids(table)
  IN \A q \in Places(found) :
       LET id == RowAt(found, q).id
       IN Located(c, q) = IF Holds(now, id) THEN PlaceOf(now, id) ELSE Npos

(* A log half read accounts for every row.  Of one in the table it tells the
   origin: where it is, as deletions and insertions shift it, or where it
   moved from, or that it is new.  One of the last run is found through it
   (collection_change_builder.cpp, move_over, swap, subsume, parse_complete;
   results_notifier.cpp, calculate_changes). *)
RowsAreTraced == OriginsAreTold /\ RowsAreLocated

(* The part of the next property about moves: a reported move is the same
   row before and after, and is among the deletions and insertions
   (collection_notifications.hpp, "A reported move will always actually be a
   move"). *)
MovesAreMoves ==
  \A m \in ToSet(accumulated.moves) :
    /\ m.from \in accumulated.deletions
    /\ m.to \in accumulated.insertions
    /\ RowAt(told, m.from) = RowAt(Results(found), m.to)

(* Deleting and inserting as told turns the results the callback knows into
   those of the worker's last run, over any number of runs merged: the
   code's own check of calculate (collection_change_builder.cpp, "Verify
   that applying the calculated change to prev_rows actually produces
   next_rows"), carried through merge, and with it the reported moves. *)
ResultsAreExplained ==
  LET now == Results(found)
      c == accumulated
  IN /\ c.deletions \subseteq Places(told)
     /\ c.insertions \subseteq Places(now)
     /\ Len(told) - Cardinality(c.deletions) = Len(now) - Cardinality(c.insertions)
     /\ \A p \in Places(now) \ c.insertions :
          RowAt(now, p) = RowAt(told, Shift(c.deletions, Unshift(c.insertions, p)))
     /\ MovesAreMoves

(* Of the results that stay, exactly the modified rows are reported as
   modified, by where they are and by where they were
   (collection_change_builder.cpp, finalize). *)
ModifiedAreReported ==
  LET c == Finalize(accumulated)
      now == Results(found)
      modified == {p \in Places(now) \ c.insertions : RowAt(now, p) \in untold}
  IN /\ c.modifications_new = modified
     /\ c.modifications = {PlaceOf(told, RowAt(now, p)) : p \in modified}
==============================================================================
