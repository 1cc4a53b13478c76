---------------------------- MODULE MCDeepChanges ----------------------------
(***************************************************************************)
(* An instance of DeepChanges for TLC: paths of three rows in a graph of   *)
(* four, so that a modified row may be just out of reach.                  *)
(***************************************************************************)
EXTENDS DeepChanges

CONSTANT MaxLinks     \* bound: links between rows

\* The places of links, and the lists that links in ascending places to these rows make.
Columnwise == [row : Rows, column : 1 .. Columns]
Before(p, q) == p.row < q.row \/ (p.row = q.row /\ p.column <= q.column)
ListsOf(places, rows) ==
  [row \in Rows |-> [column \in 1 .. Columns |->
     LET here == SelectSeq([n \in 1 .. MaxLinks |-> <<places[n], rows[n]>>],
                           LAMBDA l : l[1] = [row |-> row, column |-> column])
     IN [n \in 1 .. Len(here) |-> here[n][2]]]]

FewLinks ==
  {ListsOf(places, rows) :
     places \in {p \in [1 .. MaxLinks -> Columnwise] : \A n \in 2 .. MaxLinks : Before(p[n - 1], p[n])},
     rows \in [1 .. MaxLinks -> Rows]}

OneRow == {{row} : row \in Rows}
==============================================================================
