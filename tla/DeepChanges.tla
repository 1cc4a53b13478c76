----------------------------- MODULE DeepChanges -----------------------------
(***************************************************************************)
(* DeepChangeChecker (impl/collection_notifier.cpp): was a row of a query  *)
(* or list modified, or a row it links to, or one that links to in turn?   *)
(* A notifier asks this of many rows after one transaction; the checker    *)
(* follows the links only so deep, is stopped by cycles, and remembers the *)
(* rows it found unmodified for the questions to come.                     *)
(*                                                                         *)
(* The rows of all tables are one set here: which table a row is in        *)
(* decides nothing but which columns it has.  A column holds a list of     *)
(* rows, of one row at most if it is a link; one that a row's table does   *)
(* not have is a column with an empty list.                                *)
(***************************************************************************)
EXTENDS Naturals, Sequences

CONSTANTS Rows,
          Roots,      \* the rows the notifier asks about
          Columns,    \* how many columns with links there are
          PathSize,   \* the size of m_current_path
          Graphs,     \* the links there may be: of a row, of a column, in their order
          Changes     \* the sets of rows that may have been modified

ASSUME RootsAreRows == Roots \subseteq Rows
ASSUME ColumnsAreCounted == Columns \in Nat
ASSUME PathSizeIsPositive == PathSize \in Nat \ {0}
ASSUME GraphsAreLinks == Graphs \subseteq [Rows -> [1 .. Columns -> Seq(Rows)]]
ASSUME ChangesAreRows == Changes \subseteq SUBSET Rows

VARIABLES links,        \* one of Graphs
          modified,     \* the rows the transaction modified
          notModified,  \* m_not_modified
          answers       \* what the checker said of a root: the answers so far

vars == <<links, modified, notModified, answers>>

(***************************************************************************)
(* check_row and check_outgoing_links.  path is the part of m_current_path *)
(* in use, a sequence of <<row, column>>; s is what they change:           *)
(*   ret          what the last of them returned                           *)
(*   notModified  the cache                                                *)
(*   exceeded     where in path depth_exceeded is set                      *)
(* A call is made only while nothing has returned TRUE.                    *)
(***************************************************************************)
Paths == Seq(Rows \X (1 .. Columns))
States == [ret : BOOLEAN, notModified : SUBSET Rows, exceeded : SUBSET (1 .. PathSize)]

\* One call after the other, the n-th with n, until one returns TRUE.
AnyOf(s, calls, call) ==
  LET after[n \in 0 .. calls] ==
        IF n = 0 THEN s
        ELSE LET before == after[n - 1] IN IF before.ret THEN before ELSE call[n][before]
  IN after[calls]

\* The places of path from the first that is already checking the row's column.
Checking(row, column, path) ==
  {n \in 1 .. Len(path) : \E m \in 1 .. n : path[m] = <<row, column>>}

\* Mutant of IsSettled: only the path's length cuts a search short.
IsSettledInCycle(path, s) == ~ s.ret /\ (path = << >> \/ s.exceeded # 1 .. PathSize)

(* Nothing below the row was modified, and nothing was left out because the
   path was too long or came back to itself.  A root is remembered anyway. *)
IsSettled(path, s) == ~ s.ret /\ (path = << >> \/ Len(path) \notin s.exceeded)

\* check is check_row on a path that is one longer.
LinkedObjectChanged(row, column, path, s, check) ==
  LET repeated == Checking(row, column, path)
      targets == links[row][column]
      longer == Append(path, <<row, column>>)
  IN IF repeated # {} THEN [s EXCEPT !.exceeded = @ \union repeated]
     ELSE AnyOf([s EXCEPT !.exceeded = @ \ {Len(longer)}], Len(targets),
                [n \in 1 .. Len(targets) |-> check[targets[n]][longer]])

CheckOutgoingLinks(row, path, s, check) ==
  AnyOf(s, Columns, [column \in 1 .. Columns |-> [t \in States |->
                       LinkedObjectChanged(row, column, path, t, check)]])

CheckFitting(row, path, s, check) ==
  LET below == CheckOutgoingLinks(row, path, s, check) IN
  IF path # << >> /\ row \in modified THEN [s EXCEPT !.ret = TRUE]
  ELSE IF row \in s.notModified THEN s
  ELSE IF IsSettled(path, below) THEN [below EXCEPT !.notModified = @ \union {row}]
  ELSE below

\* check_row on a path that may grow by so many.
CheckRow[room \in 0 .. PathSize] ==
  [row \in Rows |-> [path \in Paths |-> [s \in States |->
    IF room = 0 THEN [s EXCEPT !.exceeded = 1 .. PathSize]
    ELSE CheckFitting(row, path, s, CheckRow[room - 1])]]]

(***************************************************************************)
(* The questions of a notifier, in any order                               *)
(***************************************************************************)
Init ==
  /\ links \in Graphs
  /\ modified \in Changes
  /\ notModified = {}
  /\ answers = [row \in {} |-> FALSE]

Ask(row) ==
  LET s == [ret |-> FALSE, notModified |-> notModified, exceeded |-> {}]
      done == IF row \in modified THEN [s EXCEPT !.ret = TRUE] ELSE CheckRow[PathSize][row][<< >>][s]
  IN /\ answers' = [r \in DOMAIN answers \union {row} |-> IF r = row THEN done.ret ELSE answers[r]]
     /\ notModified' = done.notModified
     /\ UNCHANGED <<links, modified>>

Next == \E row \in Roots : Ask(row)

Spec == Init /\ [][Next]_vars

(***************************************************************************)
(* Properties                                                              *)
(***************************************************************************)
\* The rows that link to one of these.
LinkedTo(rows) ==
  {row \in Rows : \E column \in 1 .. Columns :
     \E n \in DOMAIN links[row][column] : links[row][column][n] \in rows}

\* The rows with a modified row at most so many links away.
Near[n \in 0 .. PathSize] == IF n = 0 THEN modified ELSE Near[n - 1] \union LinkedTo(Near[n - 1])

(* Whatever was asked before, the answer is yes exactly when a modified row
   is less than PathSize links away: neither the cycles nor what earlier
   questions left in the cache hide a modification
   (collection_notifier.cpp, check_row and check_outgoing_links). *)
AnswersAreExact == \A row \in DOMAIN answers : answers[row] = (row \in Near[PathSize - 1])
==============================================================================
