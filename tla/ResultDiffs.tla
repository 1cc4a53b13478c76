----------------------------- MODULE ResultDiffs -----------------------------
(***************************************************************************)
(* CollectionChangeBuilder::calculate: the changes that turn the old rows  *)
(* of a query's results into the new ones.  prev and next are sequences of *)
(* row numbers of the table, without repetition; an old row that is gone   *)
(* from the table is Npos in prev.  changed is the set of modified rows.   *)
(***************************************************************************)
EXTENDS ChangeSets

Holds(rows, row) == Contains(rows, row)
PlaceOf(rows, row) == SelectInSeq(rows, LAMBDA r : r = row) - 1

\* What is the same in both orders of results.
Deleted(prev) == {p \in Places(prev) : RowAt(prev, p) = Npos}
Removed(prev, next) ==
  {p \in Places(prev) \ Deleted(prev) : ~ Holds(next, RowAt(prev, p))}
Compare(prev, next, changed) ==
  LET new == {p \in Places(next) : ~ Holds(prev, RowAt(next, p))} IN
  [NoChanges EXCEPT !.deletions = Deleted(prev), !.insertions = new,
                    !.modifications = {p \in Places(next) \ new : RowAt(next, p) \in changed}]

(***************************************************************************)
(* Results in table order: a row can only have moved if it is one of       *)
(* `candidates`, the places where the table itself saw rows come in.       *)
(* `expected` is the row awaited next, counted among the old rows that     *)
(* still exist.                                                            *)
(***************************************************************************)
CalculateUnsorted(prev, next, changed, candidates) ==
  LET start == Compare(prev, next, changed)
      kept == SelectSeq(next, LAMBDA r : Holds(prev, r))
      step(acc, row) ==
        LET from == PlaceOf(prev, row)
            to == PlaceOf(next, row)
            shifted == from - Count(start.deletions, 0, from)
            reckoned == to - Count(acc.c.insertions, 0, to) + Count(acc.removed, 0, from)
        IN IF shifted = acc.expected \/ row \notin candidates \/ shifted = reckoned
           THEN [acc EXCEPT !.expected = shifted + 1]
           ELSE [acc EXCEPT !.c.moves = Append(@, [from |-> from, to |-> to]),
                            !.c.insertions = @ \union {to},
                            !.removed = @ \union {from}]
      done == FoldLeft(step, [c |-> start, removed |-> Removed(prev, next), expected |-> 0], kept)
  IN [done.c EXCEPT !.deletions = @ \union done.removed]

(***************************************************************************)
(* Sorted results: the rows in both are aligned by their longest common    *)
(* block, then what is left of it and right of it in the same way.         *)
(* BlockAlignments is the set of alignments, each a set of pairs <<place   *)
(* in a, place in b>>: which of several longest blocks the code takes, by  *)
(* the modified rows in them, is left open.  The guard of the right part   *)
(* compares the end of the block in a with the end of the range in b, as   *)
(* the code does.                                                          *)
(***************************************************************************)
BlockAlignments(a, b, start) ==
  LET n == Len(a)
      matched(i, j, size) == \A k \in 0 .. size - 1 : RowAt(a, i + k) = RowAt(b, j + k)
      align[begin1 \in 0 .. n, end1 \in 0 .. n, begin2 \in 0 .. n, end2 \in 0 .. n] ==
        LET blocks == {m \in [i : begin1 .. end1 - 1, j : begin2 .. end2 - 1, size : 1 .. n] :
                         /\ m.i + m.size <= end1 /\ m.j + m.size <= end2
                         /\ matched(m.i, m.j, m.size)}
            longest == {m \in blocks : \A o \in blocks : o.size <= m.size}
            left(m) == IF m.i > begin1 /\ m.j > begin2
                       THEN align[begin1, m.i, begin2, m.j] ELSE {{}}
            right(m) == IF m.i + m.size < end2 /\ m.j + m.size < end2
                        THEN align[m.i + m.size, end1, m.j + m.size, end2] ELSE {{}}
            pairs(m) == {<<m.i + k, m.j + k>> : k \in 0 .. m.size - 1}
        IN IF blocks = {} THEN {{}}
           ELSE UNION {{l \union pairs(m) \union r : l \in left(m), r \in right(m)} : m \in longest}
  IN align[start, n, start, n]

CalculateSorted(prev, next, changed) ==
  LET start == Compare(prev, next, changed)
      a == SelectSeq(prev, LAMBDA r : Holds(next, r))
      b == SelectSeq(next, LAMBDA r : Holds(prev, r))
      differ == {p \in Places(a) : RowAt(a, p) # RowAt(b, p)}
      first == CHOOSE p \in differ : \A q \in differ : p <= q
      late == {p \in Places(a) : p >= first}
      result(alignment) ==
        [start EXCEPT
           !.deletions = @ \union Removed(prev, next) \union
             {PlaceOf(prev, RowAt(a, i)) : i \in late \ {p[1] : p \in alignment}},
           !.insertions = @ \union
             {PlaceOf(next, RowAt(b, j)) : j \in late \ {p[2] : p \in alignment}}]
  IN IF differ = {} THEN {[start EXCEPT !.deletions = @ \union Removed(prev, next)]}
     ELSE {result(alignment) : alignment \in BlockAlignments(a, b, first)}
==============================================================================
