------------------------------ MODULE ChangeSets ------------------------------
(***************************************************************************)
(* CollectionChangeBuilder (impl/collection_change_builder.cpp): the       *)
(* changes of a collection between two versions, as they are collected     *)
(* from a transaction log, merged over several versions and reported.      *)
(*                                                                         *)
(*   deletions      places in the old collection                           *)
(*   insertions     places in the new one                                  *)
(*   modifications  places in the new one                                  *)
(*   moves          a sequence of [from, to] for rows that were moved      *)
(*   mapping        m_move_mapping: of a moved row, new place -> old place *)
(*                                                                         *)
(* Places count from 0.  The sets per column are left out: they go through *)
(* exactly what modifications goes through.                                *)
(***************************************************************************)
EXTENDS Integers, Sequences, SequencesExt, Functions, IndexSets

CONSTANT Npos      \* IndexSet::npos, above every place of an instance

ASSUME NposIsNatural == Npos \in Nat

\* The places of a collection given as a sequence, and what is in one of them.
Places(rows) == FirstRows(Len(rows))
RowAt(rows, place) == rows[place + 1]

NoChanges == [deletions |-> {}, insertions |-> {}, modifications |-> {},
              moves |-> << >>, mapping |-> << >>]

(* empty() looks at what is reported; the mapping is empty by then. *)
IsEmpty(c) == c.deletions = {} /\ c.insertions = {} /\ c.modifications = {}
              /\ c.moves = << >>

WithoutKey(f, key) == Restrict(f, DOMAIN f \ {key})
WithKey(f, key, value) == [k \in DOMAIN f \union {key} |-> IF k = key THEN value ELSE f[k]]

(* The entries of a sequence that are in a set, in their order.  This and the
   loops below are recursive functions over the entries gone through, which
   can be reasoned about by induction; SelectSeq and the folds, whose
   arguments are operators, cannot. *)
OnlyOf(s, set) ==
  LET after[n \in 0 .. Len(s)] ==
        IF n = 0 THEN << >>
        ELSE IF s[n] \in set THEN Append(after[n - 1], s[n]) ELSE after[n - 1]
  IN after[Len(s)]

(***************************************************************************)
(* Operations on lists                                                     *)
(***************************************************************************)
Modify(c, ndx) == [c EXCEPT !.modifications = @ \union {ndx}]

Insert(c, index) ==
  LET aside == [m \in DOMAIN c.moves |->
                  IF c.moves[m].to >= index THEN [c.moves[m] EXCEPT !.to = @ + 1] ELSE c.moves[m]]
  IN [c EXCEPT !.modifications = ShiftForInsertAt(@, index),
               !.insertions = InsertAtIndex(@, index),
               !.moves = aside,
               !.mapping = [k \in ShiftForInsertAt(DOMAIN @, index) |->
                              @[IF k > index THEN k - 1 ELSE k]]]

Erase(c, index) ==
  LET kept == OnlyOf(c.moves, {m \in ToSet(c.moves) : m.to # index}) IN
  [c EXCEPT !.modifications = EraseAt(@, index),
            !.insertions = EraseAt(@, index),
            !.deletions = IF index \in c.insertions THEN @
                          ELSE AddShifted(@, Unshift(c.insertions, index)),
            !.moves = [m \in DOMAIN kept |->
                         IF kept[m].to > index THEN [kept[m] EXCEPT !.to = @ - 1]
                         ELSE kept[m]]]

(* oldSize is the size before the call, from which the one at the start is
   reckoned; a table does not know it and is marked deleted throughout. *)
ClearKnown(c, oldSize) ==
  [NoChanges EXCEPT !.deletions =
     FirstRows(oldSize + Cardinality(c.deletions) - Cardinality(c.insertions))]

ClearUnknown == [NoChanges EXCEPT !.deletions = FirstRows(Npos)]

\* Rows between the two places of a move go one step the other way.
StepAside(place, from, to) ==
  IF place >= to /\ place < from THEN place + 1
  ELSE IF place <= to /\ place > from THEN place - 1 ELSE place

Move(c, from, to) ==
  LET aside == [m \in DOMAIN c.moves |->
                  [c.moves[m] EXCEPT !.to = IF @ = from THEN to ELSE StepAside(@, from, to)]]
      again == \E m \in DOMAIN c.moves : c.moves[m].to = from
      shifted == Shift(c.deletions, Unshift(c.insertions, from))
      moved == IF from \in c.modifications
               THEN InsertAtIndex(EraseAt(c.modifications, from), to)
               ELSE ShiftForInsertAt(EraseAt(c.modifications, from), to)
      c1 == [c EXCEPT !.insertions = InsertAtIndex(EraseAt(@, from), to),
                      !.modifications = moved, !.moves = aside]
  IN IF again \/ from \in c.insertions THEN c1
     ELSE [c1 EXCEPT !.deletions = @ \union {shifted},
                     !.moves = Append(@, [from |-> shifted, to |-> to])]

(* A move that leaves its row where the insertions and deletions of others
   would have put it is no move: it goes, with its insertion and deletion. *)
IsStale(c, m) == m.from - Count(c.deletions, 0, m.from) = m.to - Count(c.insertions, 0, m.to)

CleanUpStaleMove(b, m) ==
  IF IsStale(b, m)
  THEN [b EXCEPT !.deletions = @ \ {m.from}, !.insertions = @ \ {m.to}]
  ELSE [b EXCEPT !.moves = Append(@, m)]

CleanUpStaleMoves(c) ==
  LET after[n \in 0 .. Len(c.moves)] ==
        IF n = 0 THEN [c EXCEPT !.moves = << >>] ELSE CleanUpStaleMove(after[n - 1], c.moves[n])
  IN after[Len(c.moves)]

(***************************************************************************)
(* Operations on tables, which delete a row by moving the last one over it *)
(***************************************************************************)
Tracked(c, row) == row \in DOMAIN c.mapping

EraseLast(c, row) ==
  [c EXCEPT !.modifications = @ \ {row},
            !.insertions = @ \ {row},
            !.deletions = IF row \in c.insertions THEN @
                          ELSE AddShifted(@, Unshift(c.insertions, row)),
            !.mapping = WithoutKey(@, row)]

(* With last in place of row.  The three steps are the code's: the mapping
   of a last row that was itself moved; then the last row's own place; then
   the row that is gone. *)
MoveLastOver(c, row, last) ==
  LET rowIsNew == row \in c.insertions
      lastIsNew == last \in c.insertions
      again == lastIsNew /\ Tracked(c, last)
      origin == Shift(c.deletions, Unshift(c.insertions, last))
      c1 == [c EXCEPT
               !.modifications = (@ \ {row, last}) \union (IF last \in @ THEN {row} ELSE {}),
               !.mapping = IF again THEN WithKey(WithoutKey(@, last), row, @[last])
                           ELSE IF rowIsNew THEN WithoutKey(@, row) ELSE @]
      c2 == IF lastIsNew THEN [c1 EXCEPT !.insertions = @ \ {last}]
            ELSE [c1 EXCEPT !.deletions = @ \union {origin},
                            !.mapping = WithKey(@, row, origin)]
  IN IF rowIsNew THEN c2
     ELSE [c2 EXCEPT !.deletions = AddShifted(@, Unshift(c2.insertions, row)),
                     !.insertions = @ \union {row}]

MoveOver(c, row, last) == IF row = last THEN EraseLast(c, row) ELSE MoveLastOver(c, row, last)

\* Mutant of Depart: the rows deleted before are not counted.
DepartUnshifted(c, from, to) ==
  IF from \in c.insertions THEN c
  ELSE LET origin == Unshift(c.insertions, from)
       IN [c EXCEPT !.mapping = WithKey(@, to, origin),
                    !.deletions = @ \union {origin},
                    !.insertions = @ \union {from}]

\* A row that is not new is entered as moved from where it was to `to`.
Depart(c, from, to) ==
  IF from \in c.insertions THEN c
  ELSE LET origin == Shift(c.deletions, Unshift(c.insertions, from))
       IN [c EXCEPT !.mapping = WithKey(@, to, origin),
                    !.deletions = @ \union {origin},
                    !.insertions = @ \union {from}]

Swap(c, row1, row2) ==
  LET c1 == IF (row1 \in c.modifications) = (row2 \in c.modifications) THEN c
            ELSE [c EXCEPT !.modifications =
                    IF row1 \in @ THEN (@ \ {row1}) \union {row2}
                    ELSE (@ \ {row2}) \union {row1}]
      redirect(existing, other) ==
        Depart([c1 EXCEPT !.mapping = WithKey(WithoutKey(@, existing), other, @[existing])],
               other, existing)
  IN IF Tracked(c, row1) /\ Tracked(c, row2)
     THEN [c1 EXCEPT !.mapping[row1] = c.mapping[row2], !.mapping[row2] = c.mapping[row1]]
     ELSE IF Tracked(c, row1) THEN redirect(row1, row2)
     ELSE IF Tracked(c, row2) THEN redirect(row2, row1)
     ELSE Depart(Depart(c1, row2, row1), row1, row2)

(* new takes the part of old.  It must be a new row, and the deletion of
   old must follow. *)
Subsume(c, old, new) ==
  LET c1 == [c EXCEPT !.modifications = IF old \in @ THEN @ \union {new} ELSE @] IN
  IF Tracked(c, old)
  THEN [c1 EXCEPT !.mapping = WithKey(WithoutKey(@, old), new, @[old])]
  ELSE IF old \in c.insertions THEN c1
  ELSE [c1 EXCEPT !.mapping = WithKey(@, new, Shift(c.deletions, Unshift(c.insertions, old)))]

\* Moves in the order of where they came from, which no two share.
ByOrigin(moves) ==
  [i \in 1 .. Cardinality(moves) |->
     CHOOSE m \in moves : Cardinality({n \in moves : n.from < m.from}) = i - 1]

\* The mapping becomes the moves, by their origin; a row that came back is none.
ParseComplete(c) ==
  LET back == {k \in DOMAIN c.mapping : c.mapping[k] = k}
      away == {[from |-> c.mapping[k], to |-> k] : k \in DOMAIN c.mapping \ back}
      \* the moves the builder holds already: a table's builder holds none
  IN [c EXCEPT !.deletions = @ \ back, !.insertions = @ \ back,
               !.moves = ByOrigin(ToSet(@) \union away),
               !.mapping = << >>]

(***************************************************************************)
(* Merging the changes c, made after those of b                            *)
(***************************************************************************)

(* The moves of b after c.  One whose row was moved again takes over the
   destination, and c's move is used up: the last of c's moves takes its
   place.  One whose row was deleted goes.  The others shift. *)
MergeOldMove(b, c, acc, old) ==
  LET again == {n \in DOMAIN acc.moves : acc.moves[n].from = old.to}
      next == CHOOSE n \in again : \A k \in again : n <= k
  IN IF again # {}
     THEN [kept |-> Append(acc.kept, [old EXCEPT !.to = acc.moves[next].to]),
           moves |-> Front([acc.moves EXCEPT ![next] = Last(acc.moves)]),
           modified |-> IF old.to \in b.modifications
                        THEN acc.modified \union {acc.moves[next].to} ELSE acc.modified]
     ELSE IF old.to \in c.deletions THEN acc
     ELSE [acc EXCEPT !.kept =
             Append(@, [old EXCEPT !.to = Shift(c.insertions, Unshift(c.deletions, old.to))])]

MergeOldMoves(b, c) ==
  LET after[n \in 0 .. Len(b.moves)] ==
        IF n = 0 THEN [kept |-> << >>, moves |-> c.moves, modified |-> c.modifications]
        ELSE MergeOldMove(b, c, after[n - 1], b.moves[n])
  IN after[Len(b.moves)]

(* The moves of c that are left, but for those of rows that came with b:
   their origin is counted in the collection before b. *)
MergeNewMoves(b, moves) ==
  LET fresh == OnlyOf(moves, {m \in ToSet(moves) : m.from \notin b.insertions})
  IN [m \in DOMAIN fresh |->
        [fresh[m] EXCEPT !.from = Shift(b.deletions, Unshift(b.insertions, @))]]

\* Mutant of CarriedAlong: a row's modification is lost with its move.
CarriedNothing(b, moves) == {}

\* Rows that b modified and one of c's moves took along stay modified.
CarriedAlong(b, moves) ==
  {m.to : m \in {n \in ToSet(moves) : n.from \notin b.insertions /\ n.from \in b.modifications}}

MergeMoved(b, c) ==
  LET old == MergeOldMoves(b, c)
      modified == old.modified \union CarriedAlong(b, old.moves)
      merged == CleanUpStaleMoves(
        [b EXCEPT !.moves = old.kept \o MergeNewMoves(b, old.moves),
                  !.deletions = AddShiftedBy(@, b.insertions, c.deletions),
                  !.insertions = InsertAtAll(EraseAtAll(@, c.deletions), c.insertions)])
  IN [merged EXCEPT !.modifications =
        ShiftForInsertAtAll(EraseAtAll(@, c.deletions), c.insertions) \union modified]

Merge(b, c) == IF IsEmpty(c) THEN b ELSE IF IsEmpty(b) THEN c ELSE MergeMoved(b, c)

(***************************************************************************)
(* What a callback is given: the modifications by where they were and by   *)
(* where they are, without the rows that are new                           *)
(***************************************************************************)
\* Mutant of Finalize: the old places are reckoned without the insertions.
FinalizeShifting(c) ==
  [deletions |-> c.deletions,
   insertions |-> c.insertions,
   modifications |-> ShiftForInsertAtAll(c.modifications \ c.insertions, c.deletions),
   modifications_new |-> c.modifications \ c.insertions,
   moves |-> c.moves]

Finalize(c) ==
  [deletions |-> c.deletions,
   insertions |-> c.insertions,
   modifications |-> ShiftForInsertAtAll(EraseAtAll(c.modifications, c.insertions), c.deletions),
   modifications_new |-> c.modifications \ c.insertions,
   moves |-> c.moves]
==============================================================================
