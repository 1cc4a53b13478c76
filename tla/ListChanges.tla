----------------------------- MODULE ListChanges -----------------------------
(***************************************************************************)
(* How the changes of a list reach a callback.  A list of objects          *)
(* ("links") or of values ("values") is changed by write transactions; the *)
(* worker reads their log (TransactLogObserver), completes what it found   *)
(* (ListNotifier and PrimitiveListNotifier) and adds it to what the        *)
(* callback has not been given yet (CollectionNotifier); the callback is   *)
(* given all of it at once.                                                *)
(*                                                                         *)
(* What the list looks like is kept as entries that remember where they    *)
(* came from, so that a change set can be held against the truth:          *)
(*   list   as it is now; origin is a place in seen                        *)
(*   seen   as of the worker's last run; origin is a place in the list the *)
(*          callback knows, which had toldSize entries                     *)
(***************************************************************************)
EXTENDS ChangeSets

CONSTANTS MaxSize,    \* bound: entries of the list
          MaxEdits    \* bound: changes to the list

(* No list has Npos entries, which is the largest number of the code. *)
ASSUME ListsAreBelowNpos == MaxSize \in Nat /\ MaxSize < Npos

VARIABLES kind,         \* "links" or "values"
          owner,        \* the object that holds the list: "alive" or "deleted", or
                        \* "deletedAfterMove" when the same log had moved an entry
          list, seen, toldSize,
          change,       \* m_change, as the log is read
          accumulated,  \* Callback::accumulated_changes
          prevSize,     \* m_prev_size
          edits         \* how many changes there were

vars == <<kind, owner, list, seen, toldSize, change, accumulated, prevSize, edits>>

None == Npos

(* origin: the place in the list last delivered, if it has one; modified:
   set since then; touched: the object in this place was modified since then,
   wherever it was then. *)
NewEntry == [origin |-> None, modified |-> FALSE, touched |-> FALSE]
Unchanged(size) == [p \in 1 .. size |-> [NewEntry EXCEPT !.origin = p - 1]]

Init ==
  /\ kind \in {"links", "values"}
  /\ owner = "alive"
  /\ \E size \in 0 .. MaxSize :
       /\ list = Unchanged(size)
       /\ seen = Unchanged(size)
       /\ toldSize = size
       /\ prevSize = size
  /\ change = NoChanges
  /\ accumulated = NoChanges
  /\ edits = 0

(***************************************************************************)
(* Changes to the list, with what the observer makes of their log entry    *)
(***************************************************************************)
Edit(newList, newChange) ==
  /\ owner = "alive"
  /\ edits < MaxEdits
  /\ edits' = edits + 1
  /\ list' = newList
  /\ change' = newChange
  /\ UNCHANGED <<kind, owner, seen, toldSize, accumulated, prevSize>>

WithEntry(s, place, e) == SubSeq(s, 1, place) \o <<e>> \o SubSeq(s, place + 1, Len(s))
WithoutEntry(s, place) == SubSeq(s, 1, place) \o SubSeq(s, place + 2, Len(s))
Moved(s, from, to) == WithEntry(WithoutEntry(s, from), to, s[from + 1])

\* A value is inserted as an empty row that is then set.
InsertEntry(place) ==
  /\ Len(list) < MaxSize
  /\ Edit(WithEntry(list, place, NewEntry),
          IF kind = "links" THEN Insert(change, place) ELSE Modify(Insert(change, place), place))

\* Also what the deletion of a linked object does to the list.
EraseEntry(place) == Edit(WithoutEntry(list, place), Erase(change, place))

SetEntry(place) == Edit([list EXCEPT ![place + 1].modified = TRUE], Modify(change, place))

MoveEntry(from, to) == from # to /\ Edit(Moved(list, from, to), Move(change, from, to))

\* In a list of objects the two places are set; the objects take their state along.
SwapLinks(p, q) ==
  /\ kind = "links"
  /\ p < q
  /\ LET set(place, other) ==
           [RowAt(list, place) EXCEPT !.modified = TRUE, !.touched = RowAt(list, other).touched]
     IN Edit([list EXCEPT ![p + 1] = set(p, q), ![q + 1] = set(q, p)],
             Modify(Modify(change, p), q))

\* In a list of values the rows change places, as one move or two.
SwapValues(p, q) ==
  /\ kind = "values"
  /\ p < q
  /\ Edit([list EXCEPT ![p + 1] = list[q + 1], ![q + 1] = list[p + 1]],
          IF p + 1 = q THEN Move(change, p, q) ELSE Move(Move(change, p, q), q - 1, p))

ClearList ==
  Edit(<< >>, IF kind = "links" THEN ClearKnown(change, Len(list)) ELSE ClearUnknown)

\* The object in this place is modified, in its own table.
TouchObject(place) ==
  kind = "links" /\ Edit([list EXCEPT ![place + 1].touched = TRUE], change)

\* The observer drops the list; what it has read of it stays.
DeleteOwner ==
  /\ owner = "alive"
  /\ edits < MaxEdits
  /\ edits' = edits + 1
  /\ owner' = IF change.moves = << >> THEN "deleted" ELSE "deletedAfterMove"
  /\ list' = << >>
  /\ UNCHANGED <<kind, seen, toldSize, change, accumulated, prevSize>>

(***************************************************************************)
(* The worker                                                              *)
(***************************************************************************)
\* run() of a list that is gone: all of it was deleted, once.
Gone == IF prevSize = 0 THEN NoChanges ELSE [change EXCEPT !.deletions = FirstRows(prevSize)]

\* run() of a list of objects: the objects that were modified in their table.
WithTouched(c) ==
  [c EXCEPT !.modifications = @ \union {p \in Places(list) : RowAt(list, p).touched}]

\* run() of a list of values: one that was cleared had the previous size.
WithSizeKnown(c) ==
  IF c.deletions = FirstRows(Npos) THEN [c EXCEPT !.deletions = FirstRows(prevSize)] ELSE c

Completed ==
  IF owner # "alive" THEN Gone
  ELSE IF kind = "links" THEN WithTouched(CleanUpStaleMoves(change))
  ELSE WithSizeKnown(CleanUpStaleMoves(change))

\* An entry of the list, by where the callback knows it.
SinceTold(e) ==
  IF e.origin = None \/ RowAt(seen, e.origin).origin = None THEN NewEntry
  ELSE LET before == RowAt(seen, e.origin)
       IN [origin |-> before.origin,
           modified |-> e.modified \/ before.modified \/ e.touched,
           touched |-> FALSE]

Run ==
  /\ accumulated' = Merge(accumulated, Completed)
  /\ change' = NoChanges
  /\ prevSize' = Len(list)
  /\ seen' = [p \in DOMAIN list |-> SinceTold(list[p])]
  /\ list' = Unchanged(Len(list))
  /\ UNCHANGED <<kind, owner, toldSize, edits>>

\* package_for_delivery: the callback is given what was accumulated.
Deliver ==
  /\ accumulated' = NoChanges
  /\ toldSize' = Len(seen)
  /\ seen' = Unchanged(Len(seen))
  /\ UNCHANGED <<kind, owner, list, change, prevSize, edits>>

Next ==
  \/ \E place \in 0 .. Len(list) : InsertEntry(place)
  \/ \E place \in Places(list) :
       EraseEntry(place) \/ SetEntry(place) \/ TouchObject(place)
  \/ \E p, q \in Places(list) : MoveEntry(p, q) \/ SwapLinks(p, q) \/ SwapValues(p, q)
  \/ ClearList
  \/ DeleteOwner
  \/ Run
  \/ Deliver

Spec == Init /\ [][Next]_vars

(***************************************************************************)
(* Properties                                                              *)
(***************************************************************************)
(* The places that are neither deleted nor inserted are the same entries in
   the same order, and no entry is counted twice: whoever deletes and then
   inserts as told has the new list. *)
Explains(c, rows, oldSize) ==
  /\ c.deletions \subseteq FirstRows(oldSize)
  /\ c.insertions \subseteq Places(rows)
  /\ oldSize - Cardinality(c.deletions) = Len(rows) - Cardinality(c.insertions)
  /\ \A p \in Places(rows) \ c.insertions :
       RowAt(rows, p).origin = Shift(c.deletions, Unshift(c.insertions, p))

(* A reported move is one, its ends are among the deletions and insertions,
   and every row that was moved is reported as that. *)
MovesAreMoves(c, rows) ==
  /\ \A m \in ToSet(c.moves) :
       /\ m.from \in c.deletions
       /\ m.to \in c.insertions
       /\ RowAt(rows, m.to).origin = m.from
  /\ \A p \in c.insertions :
       RowAt(rows, p).origin # None =>
         [from |-> RowAt(rows, p).origin, to |-> p] \in ToSet(c.moves)

(* What a callback is about to be given leads from the list it knows to the
   list the worker saw last, over any number of versions merged in between
   (collection_change_builder.cpp, merge), with the moves that really
   happened (collection_notifications.hpp, CollectionChangeSet::moves).  Of a
   list that is gone all that is promised is that its entries are deleted,
   and that only when the log that deleted it had moved none: a move that was
   left over can take its deletion along when it is cleaned up
   (list_notifier.cpp, run). *)
AccumulatedExplains ==
  CASE owner = "alive" -> /\ Explains(accumulated, seen, toldSize)
                          /\ MovesAreMoves(accumulated, seen)
    [] owner = "deleted" -> prevSize = 0 => FirstRows(toldSize) \subseteq accumulated.deletions
    [] OTHER -> TRUE

(* Of the entries that stay, exactly those that were set, or whose object
   was modified, are reported as modified, both by where they are and by
   where they were (collection_notifications.hpp, modifications_new). *)
ModifiedAreReported ==
  owner = "alive" =>
    LET told == Finalize(accumulated)
        kept == Places(seen) \ told.insertions
        modified == {p \in kept : RowAt(seen, p).modified}
    IN /\ told.modifications_new = modified
       /\ told.modifications = {RowAt(seen, p).origin : p \in modified}

(* "LV was deleted, so report all of the rows being removed"
   (list_notifier.cpp:76), whatever was read of the list before.  It fails
   when the log that deleted the list had moved an entry. *)
GoneListIsDeleted ==
  owner # "alive" /\ prevSize = 0 => FirstRows(toldSize) \subseteq accumulated.deletions
==============================================================================
