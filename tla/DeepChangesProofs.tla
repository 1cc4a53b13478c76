-------------------------- MODULE DeepChangesProofs --------------------------
EXTENDS DeepChanges, TLAPS, WellFoundedInduction
(***************************************************************************)
(* The answers of DeepChangeChecker are exact: proof for every graph of    *)
(* links, path size and order of questions.                                *)
(*                                                                         *)
(* The recursion is well founded in the room that is left on the path, and *)
(* what a call promises (Answered) is proved by induction in it.  A yes    *)
(* has a modified row in reach.  After a no there is none, unless one is   *)
(* as near to a row of the path, whose own search then finds it; and from  *)
(* each place of the path that was not marked, the row is explored: but    *)
(* for the columns the search is on its way through, nothing leads out of  *)
(* what it saw except to the cache.  At the end of its own search a row    *)
(* has no such column left, so what is cached is closed, and no modified   *)
(* row is in reach of it (ClosedIsClean).                                  *)
(***************************************************************************)

(* A set of numbers with 0 and with the successor of each of its members
   has all of them: the least one outside would have a predecessor inside. *)
LEMMA ByInduction ==
  ASSUME NEW S, 0 \in S, \A n \in Nat : n \in S => n + 1 \in S
  PROVE  \A n \in Nat : n \in S
<1> DEFINE less == OpToRel(<, Nat)
           T == {n \in Nat : n \notin S}
<1>1. \A x, y \in Nat : x < y => <<x, y>> \in less
  BY DEF OpToRel
<1>2. IsWellFoundedOn(less, Nat)
  BY NatLessThanWellFounded
<1> HIDE DEF less
<1>3. ASSUME T # {} PROVE FALSE
  <2>1. PICK x \in T : \A y \in T : ~ (<<y, x>> \in less)
    BY <1>2, <1>3, WFMin
  <2>2. x \in Nat /\ x # 0 /\ x \notin S
    BY <2>1
  <2>3. x - 1 \in Nat /\ x - 1 < x /\ (x - 1) + 1 = x
    BY <2>2
  <2>4. x - 1 \in T
    BY <2>2, <2>3
  <2> QED BY <2>1, <2>2, <2>3, <2>4, <1>1
<1> QED BY <1>3

\* What after is, in AnyOf.
IsAfter(g, s, calls, call) ==
  g = [n \in 0 .. calls |->
         IF n = 0 THEN s ELSE IF g[n - 1].ret THEN g[n - 1] ELSE call[n][g[n - 1]]]

(* The loop of AnyOf is defined for any number of calls. *)
LEMMA LoopRuns ==
  ASSUME NEW s, NEW call, NEW N \in Nat
  PROVE  \E g : IsAfter(g, s, N, call)
<1> DEFINE Step(n, t) == IF t.ret THEN t ELSE call[n][t]
           Runs(g, m) == g = [n \in 0 .. m |-> IF n = 0 THEN s ELSE Step(n, g[n - 1])]
           S == {m \in Nat : \E g : Runs(g, m)}
<1> HIDE DEF Step
<1>1. 0 \in S
  <2> DEFINE g0 == [n \in 0 .. 0 |-> s]
  <2>1. \A n \in 0 .. 0 : n = 0
    OBVIOUS
  <2>2. Runs(g0, 0)
    BY <2>1
  <2> HIDE DEF Runs, g0
  <2> QED BY <2>2
<1>2. ASSUME NEW m \in Nat, m \in S PROVE m + 1 \in S
  <2>1. PICK g : Runs(g, m)
    BY <1>2
  <2> DEFINE h == [n \in 0 .. m + 1 |-> IF n = m + 1 THEN Step(m + 1, g[m]) ELSE g[n]]
  <2>2. \A n \in 0 .. m : n \in 0 .. m + 1 /\ n # m + 1
    OBVIOUS
  <2>3. \A n \in 0 .. m : h[n] = g[n]
    BY <2>2
  <2>4. m + 1 \in 0 .. m + 1
    OBVIOUS
  <2>5. h[m + 1] = Step(m + 1, g[m])
    BY <2>4
  <2>6. \A n \in 0 .. m : g[n] = IF n = 0 THEN s ELSE Step(n, g[n - 1])
    BY <2>1
  <2>7. h = [n \in 0 .. m + 1 |-> h[n]]
    OBVIOUS
  <2> HIDE DEF h, Runs
  <2>8. ASSUME NEW n \in 0 .. m + 1
        PROVE  h[n] = IF n = 0 THEN s ELSE Step(n, h[n - 1])
    <3>1. CASE n = m + 1
      <4>1. m \in 0 .. m /\ n - 1 = m /\ n # 0
        BY <3>1
      <4> QED BY <3>1, <4>1, <2>3, <2>5
    <3>2. CASE n # m + 1
      <4>1. n \in 0 .. m /\ (n # 0 => n - 1 \in 0 .. m)
        BY <3>2
      <4> QED BY <4>1, <2>3, <2>6
    <3> QED BY <3>1, <3>2
  <2>9. Runs(h, m + 1)
    BY <2>7, <2>8 DEF Runs
  <2> QED BY <2>9
<1>3. N \in S
  <2> HIDE DEF S
  <2> QED BY <1>1, <1>2, ByInduction
<1>4. \E g : Runs(g, N)
  <2> HIDE DEF Runs
  <2> QED BY <1>3
<1> QED BY <1>4 DEF Step, IsAfter

(* What holds before a loop and is kept by each of its calls holds after it. *)
LEMMA AnyOfKeeps ==
  ASSUME NEW s, NEW calls \in Nat, NEW call, NEW J,
         <<0, s>> \in J,
         \A n \in 1 .. calls : \A t :
           <<n - 1, t>> \in J => <<n, IF t.ret THEN t ELSE call[n][t]>> \in J
  PROVE  <<calls, AnyOf(s, calls, call)>> \in J
<1> DEFINE Step(n, t) == IF t.ret THEN t ELSE call[n][t]
           after == CHOOSE g : g = [n \in 0 .. calls |-> IF n = 0 THEN s ELSE Step(n, g[n - 1])]
           S == {n \in Nat : n <= calls => <<n, after[n]>> \in J}
<1>1. \E g : g = [n \in 0 .. calls |-> IF n = 0 THEN s ELSE Step(n, g[n - 1])]
  <2> HIDE DEF after, S
  <2>1. \E g : IsAfter(g, s, calls, call)
    BY LoopRuns
  <2> QED BY <2>1 DEF IsAfter
<1>2. AnyOf(s, calls, call) = after[calls]
  BY DEF AnyOf
<1>3. \A n \in 1 .. calls : \A t : <<n - 1, t>> \in J => <<n, Step(n, t)>> \in J
  OBVIOUS
<1> HIDE DEF Step
<1>4. after = [n \in 0 .. calls |-> IF n = 0 THEN s ELSE Step(n, after[n - 1])]
  BY <1>1
<1> HIDE DEF after
<1>5. after[0] = s
  BY <1>4
<1>6. \A n \in 1 .. calls : after[n] = Step(n, after[n - 1])
  BY <1>4
<1>7. 0 \in S
  BY <1>5
<1>8. ASSUME NEW n \in Nat, n \in S PROVE n + 1 \in S
  <2>1. SUFFICES ASSUME n + 1 <= calls PROVE <<n + 1, after[n + 1]>> \in J
    OBVIOUS
  <2>2. n + 1 \in 1 .. calls /\ (n + 1) - 1 = n
    BY <2>1
  <2>3. <<n, after[n]>> \in J
    BY <1>8, <2>1
  <2> QED BY <1>3, <1>6, <2>2, <2>3
<1> QED
  <2>1. calls \in S
    BY <1>7, <1>8, ByInduction
  <2> QED BY <2>1, <1>2

\* What CheckRow is, for so much room.
IsCheckRow(g, N) ==
  g = [room \in 0 .. N |->
        [row \in Rows |-> [path \in Paths |-> [s \in States |->
          IF room = 0 THEN [s EXCEPT !.exceeded = 1 .. PathSize]
          ELSE CheckFitting(row, path, s, g[room - 1])]]]]

(* check_row is defined by recursion in the room: such a function exists. *)
LEMMA CheckRowRuns ==
  ASSUME NEW N \in Nat
  PROVE  \E g : IsCheckRow(g, N)
<1> DEFINE Step(room, check) ==
             [row \in Rows |-> [path \in Paths |-> [s \in States |->
               IF room = 0 THEN [s EXCEPT !.exceeded = 1 .. PathSize]
               ELSE CheckFitting(row, path, s, check)]]]
           Runs(g, m) == g = [n \in 0 .. m |-> Step(n, g[n - 1])]
           S == {m \in Nat : \E g : Runs(g, m)}
<1>1. \A x, y : Step(0, x) = Step(0, y)
  OBVIOUS
<1> HIDE DEF Step
<1>2. 0 \in S
  <2> DEFINE g0 == [n \in 0 .. 0 |-> Step(0, 0)]
  <2>1. \A n \in 0 .. 0 : n = 0
    OBVIOUS
  <2>2. \A n \in 0 .. 0 : Step(n, g0[n - 1]) = Step(0, 0)
    <3> HIDE DEF g0
    <3> QED BY <1>1, <2>1
  <2>3. Runs(g0, 0)
    BY <2>2
  <2> HIDE DEF Runs, g0
  <2> QED BY <2>3
<1>3. ASSUME NEW m \in Nat, m \in S PROVE m + 1 \in S
  <2>1. PICK g : Runs(g, m)
    BY <1>3
  <2> DEFINE h == [n \in 0 .. m + 1 |-> IF n = m + 1 THEN Step(m + 1, g[m]) ELSE g[n]]
  <2>2. \A n \in 0 .. m : n \in 0 .. m + 1 /\ n # m + 1
    OBVIOUS
  <2>3. \A n \in 0 .. m : h[n] = g[n]
    BY <2>2
  <2>4. m + 1 \in 0 .. m + 1
    OBVIOUS
  <2>5. h[m + 1] = Step(m + 1, g[m])
    BY <2>4
  <2>6. \A n \in 0 .. m : g[n] = Step(n, g[n - 1])
    BY <2>1
  <2>7. h = [n \in 0 .. m + 1 |-> h[n]]
    OBVIOUS
  <2> HIDE DEF h, Runs
  <2>8. ASSUME NEW n \in 0 .. m + 1
        PROVE  h[n] = Step(n, h[n - 1])
    <3>1. CASE n = m + 1
      <4>1. m \in 0 .. m /\ n - 1 = m
        BY <3>1
      <4> QED BY <3>1, <4>1, <2>3, <2>5
    <3>2. CASE n # m + 1 /\ n # 0
      <4>1. n \in 0 .. m /\ n - 1 \in 0 .. m
        BY <3>2
      <4> QED BY <4>1, <2>3, <2>6
    <3>3. CASE n = 0
      <4>1. n \in 0 .. m
        BY <3>3
      <4> QED BY <3>3, <4>1, <2>3, <2>6, <1>1
    <3> QED BY <3>1, <3>2, <3>3
  <2>9. Runs(h, m + 1)
    BY <2>7, <2>8 DEF Runs
  <2> QED BY <2>9
<1>4. N \in S
  <2> HIDE DEF S
  <2> QED BY <1>2, <1>3, ByInduction
<1>5. \E g : Runs(g, N)
  <2> HIDE DEF Runs
  <2> QED BY <1>4
<1> QED BY <1>5 DEF Step, IsCheckRow

(* CheckRow is that function: what it does with no room, and with some. *)
LEMMA CheckRowIs ==
  ASSUME NEW room \in 0 .. PathSize, NEW row \in Rows, NEW path \in Paths, NEW s \in States
  PROVE  CheckRow[room][row][path][s] =
           IF room = 0 THEN [s EXCEPT !.exceeded = 1 .. PathSize]
           ELSE CheckFitting(row, path, s, CheckRow[room - 1])
<1>1. \E g : IsCheckRow(g, PathSize)
  BY CheckRowRuns, PathSizeIsPositive
<1>2. CheckRow = CHOOSE g : IsCheckRow(g, PathSize)
  BY DEF CheckRow, IsCheckRow
<1>3. IsCheckRow(CheckRow, PathSize)
  BY <1>1, <1>2
<1> DEFINE Answer(n, r, p, t) == IF n = 0 THEN [t EXCEPT !.exceeded = 1 .. PathSize]
                                 ELSE CheckFitting(r, p, t, CheckRow[n - 1])
<1>4. CheckRow = [n \in 0 .. PathSize |->
        [r \in Rows |-> [p \in Paths |-> [t \in States |-> Answer(n, r, p, t)]]]]
  BY <1>3 DEF IsCheckRow
<1> HIDE DEF Answer
<1>5. CheckRow[room][row][path][s] = Answer(room, row, path, s)
  BY <1>4
<1> QED BY <1>5 DEF Answer

\* What Near is, so far away.
IsNear(g, N) ==
  g = [n \in 0 .. N |-> IF n = 0 THEN modified ELSE g[n - 1] \union LinkedTo(g[n - 1])]

(* Near is defined by recursion too: such a function exists. *)
LEMMA NearRuns ==
  ASSUME NEW N \in Nat
  PROVE  \E g : IsNear(g, N)
<1> DEFINE Step(rows) == rows \union LinkedTo(rows)
           Runs(g, m) == g = [n \in 0 .. m |-> IF n = 0 THEN modified ELSE Step(g[n - 1])]
           S == {m \in Nat : \E g : Runs(g, m)}
<1> HIDE DEF Step
<1>1. 0 \in S
  <2> DEFINE g0 == [n \in 0 .. 0 |-> modified]
  <2>1. \A n \in 0 .. 0 : n = 0
    OBVIOUS
  <2>2. Runs(g0, 0)
    BY <2>1
  <2> HIDE DEF Runs, g0
  <2> QED BY <2>2
<1>2. ASSUME NEW m \in Nat, m \in S PROVE m + 1 \in S
  <2>1. PICK g : Runs(g, m)
    BY <1>2
  <2> DEFINE h == [n \in 0 .. m + 1 |-> IF n = m + 1 THEN Step(g[m]) ELSE g[n]]
  <2>2. \A n \in 0 .. m : n \in 0 .. m + 1 /\ n # m + 1
    OBVIOUS
  <2>3. \A n \in 0 .. m : h[n] = g[n]
    BY <2>2
  <2>4. m + 1 \in 0 .. m + 1
    OBVIOUS
  <2>5. h[m + 1] = Step(g[m])
    BY <2>4
  <2>6. \A n \in 0 .. m : g[n] = IF n = 0 THEN modified ELSE Step(g[n - 1])
    BY <2>1
  <2>7. h = [n \in 0 .. m + 1 |-> h[n]]
    OBVIOUS
  <2> HIDE DEF h, Runs
  <2>8. ASSUME NEW n \in 0 .. m + 1
        PROVE  h[n] = IF n = 0 THEN modified ELSE Step(h[n - 1])
    <3>1. CASE n = m + 1
      <4>1. m \in 0 .. m /\ n - 1 = m /\ n # 0
        BY <3>1
      <4> QED BY <3>1, <4>1, <2>3, <2>5
    <3>2. CASE n # m + 1
      <4>1. n \in 0 .. m /\ (n # 0 => n - 1 \in 0 .. m)
        BY <3>2
      <4> QED BY <4>1, <2>3, <2>6
    <3> QED BY <3>1, <3>2
  <2>9. Runs(h, m + 1)
    BY <2>7, <2>8 DEF Runs
  <2> QED BY <2>9
<1>3. N \in S
  <2> HIDE DEF S
  <2> QED BY <1>1, <1>2, ByInduction
<1>4. \E g : Runs(g, N)
  <2> HIDE DEF Runs
  <2> QED BY <1>3
<1> QED BY <1>4 DEF Step, IsNear

(* Near is that function. *)
LEMMA NearIs ==
  \A n \in 0 .. PathSize :
    Near[n] = IF n = 0 THEN modified ELSE Near[n - 1] \union LinkedTo(Near[n - 1])
<1>1. \E g : IsNear(g, PathSize)
  BY NearRuns, PathSizeIsPositive
<1>2. Near = CHOOSE g : IsNear(g, PathSize)
  BY DEF Near, IsNear
<1>3. IsNear(Near, PathSize)
  BY <1>1, <1>2
<1> QED BY <1>3 DEF IsNear

-----------------------------------------------------------------------------

GraphOK == links \in Graphs /\ modified \in Changes

(* The links of a row are lists of rows. *)
LEMMA GraphTyped ==
  ASSUME GraphOK
  PROVE  /\ modified \subseteq Rows
         /\ \A row \in Rows, column \in 1 .. Columns : links[row][column] \in Seq(Rows)
<1>1. links \in [Rows -> [1 .. Columns -> Seq(Rows)]]
  BY GraphsAreLinks DEF GraphOK
<1>2. modified \in SUBSET Rows
  BY ChangesAreRows DEF GraphOK
<1> QED BY <1>1, <1>2

(* More links reach no fewer rows. *)
LEMMA NearGrows ==
  \A m, n \in 0 .. PathSize : m <= n => Near[m] \subseteq Near[n]
<1> DEFINE S == {d \in Nat : \A m \in 0 .. PathSize : m + d <= PathSize => Near[m] \subseteq Near[m + d]}
<1>0. PathSize \in Nat
  BY PathSizeIsPositive
<1>1. 0 \in S
  BY <1>0
<1>2. ASSUME NEW d \in Nat, d \in S PROVE d + 1 \in S
  <2>1. SUFFICES ASSUME NEW m \in 0 .. PathSize, m + (d + 1) <= PathSize
                 PROVE  Near[m] \subseteq Near[m + (d + 1)]
    OBVIOUS
  <2>2. /\ m + (d + 1) \in 0 .. PathSize
        /\ m + (d + 1) # 0
        /\ (m + (d + 1)) - 1 = m + d
        /\ m + d <= PathSize
    BY <2>1, <1>0
  <2>3. Near[m] \subseteq Near[m + d]
    BY <1>2, <2>2
  <2>4. Near[m + (d + 1)] = Near[m + d] \union LinkedTo(Near[m + d])
    BY <2>2, NearIs
  <2> QED BY <2>3, <2>4
<1> HIDE DEF S
<1>3. \A d \in Nat : d \in S
  BY <1>1, <1>2, ByInduction
<1>4. ASSUME NEW m \in 0 .. PathSize, NEW n \in 0 .. PathSize, m <= n
      PROVE  Near[m] \subseteq Near[n]
  <2>1. n - m \in Nat /\ m + (n - m) = n
    BY <1>0, <1>4
  <2>2. n - m \in S
    BY <2>1, <1>3
  <2> QED BY <2>1, <2>2, <1>4 DEF S
<1> QED BY <1>4

(* A row that links to one n links away is n + 1 links away. *)
LEMMA NearByLinks ==
  ASSUME NEW n \in 0 .. PathSize - 1, NEW row \in Rows
  PROVE  row \in Near[n + 1] <=>
           \/ row \in Near[n]
           \/ \E column \in 1 .. Columns :
                \E i \in DOMAIN links[row][column] : links[row][column][i] \in Near[n]
<1>1. n + 1 \in 0 .. PathSize /\ n + 1 # 0 /\ (n + 1) - 1 = n
  BY PathSizeIsPositive
<1>2. Near[n + 1] = Near[n] \union LinkedTo(Near[n])
  BY <1>1, NearIs
<1> QED BY <1>2 DEF LinkedTo

\* The checker's memory holds only rows with no modified row in reach.
CacheIsClean(kept) == kept \subseteq Rows /\ \A row \in kept : row \notin Near[PathSize - 1]

\* No row of the path is so near to a modified one.
NoneNear(path, n) == \A i \in 1 .. Len(path) : path[i][1] \notin Near[n]

\* The checker is on its way through this column of the row, after place j of the path.
IsOpen(path, j, row, column) == \E i \in 1 .. Len(path) : i > j /\ path[i] = <<row, column>>

(* Rows that were all found unmodified, with what they link to: but for the
   columns the checker is in, nothing leads out of them except to the memory. *)
IsExplored(rows, kept, path, j) ==
  /\ rows \subseteq Rows \ modified
  /\ \A row \in rows, column \in 1 .. Columns :
       \/ IsOpen(path, j, row, column)
       \/ \A i \in DOMAIN links[row][column] : links[row][column][i] \in kept \union rows

Explored(kept, path, j) == UNION {rows \in SUBSET Rows : IsExplored(rows, kept, path, j)}

(* A row that is explored stays so when the cache grows. *)
LEMMA ExploredGrows ==
  ASSUME NEW kept, NEW more, kept \subseteq more, NEW path, NEW j
  PROVE  Explored(kept, path, j) \subseteq Explored(more, path, j)
<1>1. \A rows : IsExplored(rows, kept, path, j) => IsExplored(rows, more, path, j)
  BY DEF IsExplored
<1> QED BY <1>1 DEF Explored

(* A row of a clean cache, or one explored when no column is open any more,
   has no modified row in reach. *)
LEMMA ClosedIsClean ==
  ASSUME GraphOK, NEW kept, CacheIsClean(kept), NEW path \in Paths, NEW row \in Rows,
         row \in kept \union Explored(kept, path, Len(path))
  PROVE  row \notin Near[PathSize - 1]
<1>0. PathSize \in Nat \ {0} /\ PathSize - 1 \in 0 .. PathSize
  BY PathSizeIsPositive
<1>1. CASE row \in kept
  BY <1>1 DEF CacheIsClean
<1>2. CASE row \in Explored(kept, path, Len(path))
  <2>1. PICK rows \in SUBSET Rows : row \in rows /\ IsExplored(rows, kept, path, Len(path))
    BY <1>2 DEF Explored
  <2>2. \A r, c : ~ IsOpen(path, Len(path), r, c)
    BY DEF IsOpen, Paths
  <2>3. \A r \in rows, column \in 1 .. Columns :
          \A i \in DOMAIN links[r][column] : links[r][column][i] \in kept \union rows
    BY <2>1, <2>2 DEF IsExplored
  <2> DEFINE S == {k \in Nat : k < PathSize => \A r \in rows : r \notin Near[k]}
  <2>4. 0 \in S
    <3>1. 0 \in 0 .. PathSize
      BY <1>0
    <3>2. Near[0] = modified
      BY <3>1, NearIs
    <3> QED BY <3>2, <2>1 DEF IsExplored
  <2>5. ASSUME NEW k \in Nat, k \in S PROVE k + 1 \in S
    <3>1. SUFFICES ASSUME k + 1 < PathSize, NEW r \in rows PROVE r \notin Near[k + 1]
      OBVIOUS
    <3>2. k \in 0 .. PathSize - 1 /\ k \in 0 .. PathSize /\ k <= PathSize - 1 /\ r \in Rows
      BY <3>1, <1>0
    <3>3. \A x \in rows : x \notin Near[k]
      BY <2>5, <3>1, <1>0
    <3>4. \A x \in kept : x \notin Near[k]
      BY <1>0, <3>2, NearGrows DEF CacheIsClean
    <3> QED BY <3>2, <3>3, <3>4, <2>3, NearByLinks
  <2> HIDE DEF S
  <2>6. PathSize - 1 \in S
    BY <2>4, <2>5, ByInduction, <1>0
  <2> QED BY <2>6, <2>1, <1>0 DEF S
<1> QED BY <1>1, <1>2

-----------------------------------------------------------------------------

(* What a call leaves behind: a memory that has grown and is clean, and no
   mark taken off the path it was given. *)
Kept(path, s, t) ==
  /\ t \in States
  /\ s.notModified \subseteq t.notModified
  /\ CacheIsClean(t.notModified)
  /\ \A j \in 1 .. Len(path) : j \in s.exceeded => j \in t.exceeded

\* check_row is called for the row, on a path that may grow by so many.
Asked(room, row, path, s) ==
  /\ row \in Rows /\ path \in Paths /\ s \in States
  /\ room \in 0 .. PathSize /\ Len(path) + room = PathSize
  /\ ~ s.ret
  /\ CacheIsClean(s.notModified)
  /\ path = << >> => row \notin modified

(* What check_row has found out when it has taken s to t.  After TRUE a
   modified row is in reach.  After FALSE none is, unless it is as near to a
   row of the path; and from each place of the path that has no mark on, the
   row is explored but for the columns it is on its way through. *)
Answered(room, row, path, s, t) ==
  /\ Kept(path, s, t)
  /\ t.ret => room # 0 /\ row \in Near[room - 1]
  /\ ~ t.ret =>
       /\ \A k \in 0 .. room - 1 : NoneNear(path, k) => row \notin Near[k]
       /\ \A j \in 1 .. Len(path) :
            j \notin t.exceeded => row \in t.notModified \union Explored(t.notModified, path, j)

\* The same of the rows one column of the row links to, the first n of them.
ListAnswered(room, row, column, path, s, t, n) ==
  LET targets == links[row][column]
      longer == Append(path, <<row, column>>)
  IN /\ Kept(path, s, t)
     /\ t.ret => row \in Near[room - 1]
     /\ ~ t.ret =>
          /\ \A k \in 0 .. room - 2 :
               NoneNear(path, k + 1) /\ row \notin Near[k] =>
                 \A i \in 1 .. n : targets[i] \notin Near[k]
          /\ \A j \in 1 .. Len(path) :
               j \notin t.exceeded =>
                 \/ IsOpen(path, j, row, column)
                 \/ \A i \in 1 .. n :
                      targets[i] \in t.notModified \union Explored(t.notModified, longer, j)

(* What two calls in turn keep, both keep. *)
LEMMA KeptIsTransitive ==
  ASSUME NEW path, NEW r, NEW s, NEW t, Kept(path, r, s), Kept(path, s, t)
  PROVE  Kept(path, r, t)
BY DEF Kept

(* The path with one more place. *)
LEMMA LongerPath ==
  ASSUME NEW path \in Paths, NEW row \in Rows, NEW column \in 1 .. Columns
  PROVE  LET longer == Append(path, <<row, column>>) IN
         /\ longer \in Paths /\ longer # << >>
         /\ Len(longer) = Len(path) + 1
         /\ longer[Len(path) + 1] = <<row, column>>
         /\ \A i \in 1 .. Len(path) : longer[i] = path[i]
<1> DEFINE T == Rows \X (1 .. Columns)
           step == <<row, column>>
<1>1. step \in T /\ path \in Seq(T) /\ Paths = Seq(T)
  BY DEF Paths
<1> HIDE DEF T, step
<1>2. /\ Append(path, step) \in Seq(T)
      /\ Len(Append(path, step)) = Len(path) + 1
      /\ Append(path, step)[Len(path) + 1] = step
      /\ \A i \in 1 .. Len(path) : Append(path, step)[i] = path[i]
  BY <1>1
<1>3. Append(path, step) # << >>
  BY <1>1, <1>2
<1> QED BY <1>1, <1>2, <1>3 DEF step

(* check_row is given to the rows of a list, one after the other. *)
LEMMA ListMeets ==
  ASSUME GraphOK, NEW room \in Nat \ {0}, NEW row, NEW column \in 1 .. Columns,
         NEW path, NEW s, Asked(room, row, path, s), NEW check,
         \A r, p, t : Asked(room - 1, r, p, t) => Answered(room - 1, r, p, t, check[r][p][t]),
         Checking(row, column, path) = {}
  PROVE  ListAnswered(room, row, column, path, s,
                      LinkedObjectChanged(row, column, path, s, check), Len(links[row][column]))
<1> DEFINE targets == links[row][column]
           longer == Append(path, <<row, column>>)
           s0 == [s EXCEPT !.exceeded = @ \ {Len(longer)}]
           call == [n \in 1 .. Len(targets) |-> check[targets[n]][longer]]
           Holds(n, t) == ListAnswered(room, row, column, path, s, t, n)
           J == {p \in (0 .. Len(targets)) \X States : Holds(p[1], p[2])}
<1>1. /\ row \in Rows /\ path \in Paths /\ s \in States /\ Len(path) \in Nat
      /\ room \in 0 .. PathSize /\ Len(path) + room = PathSize
      /\ ~ s.ret /\ CacheIsClean(s.notModified)
  BY DEF Asked, Paths
<1>2. /\ longer \in Paths /\ longer # << >>
      /\ Len(longer) = Len(path) + 1
      /\ longer[Len(path) + 1] = <<row, column>>
      /\ \A i \in 1 .. Len(path) : longer[i] = path[i]
  BY <1>1, LongerPath
<1>3. targets \in Seq(Rows) /\ Len(targets) \in Nat /\ DOMAIN targets = 1 .. Len(targets)
  BY <1>1, GraphTyped
<1>4. LinkedObjectChanged(row, column, path, s, check) = AnyOf(s0, Len(targets), call)
  BY DEF LinkedObjectChanged
<1>5. /\ s0 \in States /\ ~ s0.ret /\ s0.notModified = s.notModified
      /\ s0.exceeded = s.exceeded \ {Len(path) + 1}
  BY <1>1, <1>2 DEF States
<1>6. \A n \in 1 .. Len(targets) : call[n] = check[targets[n]][longer]
  OBVIOUS
<1> HIDE DEF targets, longer, s0, call, Holds
<1>7. <<0, s0>> \in J
  <2>1. Kept(path, s, s0)
    BY <1>1, <1>5 DEF Kept
  <2>2. Holds(0, s0)
    BY <2>1, <1>5 DEF Holds, ListAnswered
  <2> QED BY <2>2, <1>3, <1>5
<1>8. ASSUME NEW n \in 1 .. Len(targets), NEW t, <<n - 1, t>> \in J
      PROVE  <<n, IF t.ret THEN t ELSE call[n][t]>> \in J
  <2>1. t \in States /\ Holds(n - 1, t) /\ n - 1 \in 0 .. Len(targets) /\ n \in 0 .. Len(targets)
    BY <1>8, <1>3
  <2>2. CASE t.ret
    <3>1. Holds(n, t)
      BY <2>1, <2>2 DEF Holds, ListAnswered
    <3> QED BY <3>1, <2>1, <2>2
  <2>3. CASE ~ t.ret
    <3> DEFINE u == check[targets[n]][longer][t]
    <3>1. call[n][t] = u
      BY <1>6
    <3>2. Kept(path, s, t)
      BY <2>1 DEF Holds, ListAnswered
    <3>3. Asked(room - 1, targets[n], longer, t)
      BY <1>1, <1>2, <1>3, <2>1, <2>3, <3>2 DEF Asked, Kept
    <3>4. Answered(room - 1, targets[n], longer, t, u)
      BY <3>3
    <3> HIDE DEF u
    <3>5. Kept(path, t, u)
      BY <3>4, <1>1, <1>2 DEF Answered, Kept
    <3>6. Kept(path, s, u)
      BY <3>2, <3>5, KeptIsTransitive
    <3>7. u.ret => row \in Near[room - 1]
      <4>1. SUFFICES ASSUME u.ret PROVE row \in Near[room - 1]
        OBVIOUS
      <4>2. room - 1 # 0 /\ targets[n] \in Near[(room - 1) - 1]
        BY <4>1, <3>4 DEF Answered
      <4>3. /\ (room - 1) - 1 \in 0 .. PathSize - 1
            /\ ((room - 1) - 1) + 1 = room - 1
        BY <4>2, <1>1, PathSizeIsPositive
      <4> QED BY <4>2, <4>3, <1>1, <1>3, NearByLinks DEF targets
    <3>8. ASSUME ~ u.ret, NEW k \in 0 .. room - 2, NoneNear(path, k + 1), row \notin Near[k],
                 NEW i \in 1 .. n
          PROVE  targets[i] \notin Near[k]
      <4>1. CASE i = n
        <5>1. /\ k \in 0 .. (room - 1) - 1
              /\ k \in 0 .. PathSize /\ k + 1 \in 0 .. PathSize /\ k <= k + 1
          BY <1>1
        <5>2. Near[k] \subseteq Near[k + 1]
          BY <5>1, NearGrows
        <5>3. NoneNear(longer, k)
          BY <5>2, <3>8, <1>1, <1>2 DEF NoneNear
        <5> QED BY <5>1, <5>3, <3>4, <3>8, <4>1 DEF Answered
      <4>2. CASE i # n
        <5>1. i \in 1 .. n - 1
          BY <4>2
        <5> QED BY <5>1, <2>1, <2>3, <3>8 DEF Holds, ListAnswered, targets
      <4> QED BY <4>1, <4>2
    <3>9. ASSUME ~ u.ret, NEW j \in 1 .. Len(path), j \notin u.exceeded
          PROVE  \/ IsOpen(path, j, row, column)
                 \/ \A i \in 1 .. n :
                      targets[i] \in u.notModified \union Explored(u.notModified, longer, j)
      <4>1. SUFFICES ASSUME ~ IsOpen(path, j, row, column), NEW i \in 1 .. n
                     PROVE  targets[i] \in u.notModified \union Explored(u.notModified, longer, j)
        OBVIOUS
      <4>2. CASE i = n
        <5>1. j \in 1 .. Len(longer)
          BY <1>1, <1>2
        <5> QED BY <5>1, <3>4, <3>9, <4>2 DEF Answered
      <4>3. CASE i # n
        <5>1. i \in 1 .. n - 1 /\ j \notin t.exceeded /\ t.notModified \subseteq u.notModified
          BY <4>3, <3>5, <3>9 DEF Kept
        <5>2. targets[i] \in t.notModified \union Explored(t.notModified, longer, j)
          BY <5>1, <4>1, <2>1, <2>3 DEF Holds, ListAnswered, targets, longer
        <5> QED BY <5>1, <5>2, ExploredGrows
      <4> QED BY <4>2, <4>3
    <3>10. Holds(n, u)
      BY <3>6, <3>7, <3>8, <3>9 DEF Holds, ListAnswered, targets, longer
    <3>11. u \in States
      BY <3>6 DEF Kept
    <3> QED BY <3>1, <3>10, <3>11, <2>1, <2>3
  <2> QED BY <2>2, <2>3
<1>9. <<Len(targets), AnyOf(s0, Len(targets), call)>> \in J
  <2> HIDE DEF J
  <2> QED BY <1>3, <1>7, <1>8, AnyOfKeeps
<1> QED BY <1>4, <1>9 DEF Holds, targets

\* A column that is on the path already is left to the call that is in it.
LEMMA RepeatedMeets ==
  ASSUME GraphOK, NEW room \in Nat \ {0}, NEW row, NEW column \in 1 .. Columns,
         NEW path, NEW s, Asked(room, row, path, s), NEW check,
         Checking(row, column, path) # {}
  PROVE  ListAnswered(room, row, column, path, s,
                      LinkedObjectChanged(row, column, path, s, check), Len(links[row][column]))
<1> DEFINE t == LinkedObjectChanged(row, column, path, s, check)
           repeated == Checking(row, column, path)
<1>1. /\ row \in Rows /\ path \in Paths /\ s \in States /\ Len(path) \in Nat
      /\ room \in 0 .. PathSize /\ Len(path) + room = PathSize
      /\ ~ s.ret /\ CacheIsClean(s.notModified)
  BY DEF Asked, Paths
<1>2. t = [s EXCEPT !.exceeded = @ \union repeated]
  BY DEF LinkedObjectChanged
<1> HIDE DEF t
<1>3. repeated \subseteq 1 .. PathSize
  BY <1>1 DEF Checking
<1>4. t \in States /\ ~ t.ret /\ t.notModified = s.notModified /\ t.exceeded = s.exceeded \union repeated
  BY <1>1, <1>2, <1>3 DEF States
<1>5. Kept(path, s, t)
  BY <1>1, <1>4 DEF Kept
<1>6. PICK m \in 1 .. Len(path) : path[m] = <<row, column>>
  BY <1>1 DEF Checking
<1>7. \A n \in m .. Len(path) : n \in repeated
  BY <1>6 DEF Checking
<1>8. ASSUME NEW k \in 0 .. room - 2, NoneNear(path, k + 1), row \notin Near[k],
             NEW i \in 1 .. Len(links[row][column])
      PROVE  links[row][column][i] \notin Near[k]
  <2>1. row \notin Near[k + 1]
    BY <1>6, <1>8 DEF NoneNear
  <2>2. k \in 0 .. PathSize - 1
    BY <1>1
  <2>3. i \in DOMAIN links[row][column]
    BY <1>1, GraphTyped
  <2> QED BY <2>1, <2>2, <2>3, <1>1, NearByLinks
<1>9. ASSUME NEW j \in 1 .. Len(path), j \notin t.exceeded
      PROVE  IsOpen(path, j, row, column)
  <2>1. m > j
    BY <1>1, <1>4, <1>7, <1>9
  <2> QED BY <2>1, <1>6 DEF IsOpen
<1> QED BY <1>4, <1>5, <1>8, <1>9 DEF ListAnswered, t

(* linked_object_changed keeps the promise, whether or not the column is
   on the path already. *)
LEMMA ColumnMeets ==
  ASSUME GraphOK, NEW room \in Nat \ {0}, NEW row, NEW column \in 1 .. Columns,
         NEW path, NEW s, Asked(room, row, path, s), NEW check,
         \A r, p, t : Asked(room - 1, r, p, t) => Answered(room - 1, r, p, t, check[r][p][t])
  PROVE  ListAnswered(room, row, column, path, s,
                      LinkedObjectChanged(row, column, path, s, check), Len(links[row][column]))
<1>1. CASE Checking(row, column, path) = {}
  BY <1>1, ListMeets
<1>2. CASE Checking(row, column, path) # {}
  BY <1>2, RepeatedMeets
<1> QED BY <1>1, <1>2

\* A column's answer holds on, whatever the columns after it add.
LEMMA ListAnswerHolds ==
  ASSUME NEW room \in Nat \ {0}, NEW row, NEW column, NEW path, NEW s, NEW t, NEW u, NEW n,
         ListAnswered(room, row, column, path, s, t, n), ~ t.ret,
         Kept(path, t, u), u.ret => row \in Near[room - 1]
  PROVE  ListAnswered(room, row, column, path, s, u, n)
<1> DEFINE targets == links[row][column]
           longer == Append(path, <<row, column>>)
<1>1. Kept(path, s, u)
  BY KeptIsTransitive DEF ListAnswered
<1>2. \A k \in 0 .. room - 2 :
        NoneNear(path, k + 1) /\ row \notin Near[k] => \A i \in 1 .. n : targets[i] \notin Near[k]
  BY DEF ListAnswered
<1>3. ASSUME NEW j \in 1 .. Len(path), j \notin u.exceeded
      PROVE  \/ IsOpen(path, j, row, column)
             \/ \A i \in 1 .. n :
                  targets[i] \in u.notModified \union Explored(u.notModified, longer, j)
  <2>1. j \notin t.exceeded /\ t.notModified \subseteq u.notModified
    BY <1>3 DEF Kept
  <2>2. \/ IsOpen(path, j, row, column)
        \/ \A i \in 1 .. n :
             targets[i] \in t.notModified \union Explored(t.notModified, longer, j)
    BY <2>1 DEF ListAnswered
  <2>3. Explored(t.notModified, longer, j) \subseteq Explored(u.notModified, longer, j)
    BY <2>1, ExploredGrows
  <2> HIDE DEF targets, longer
  <2> QED BY <2>1, <2>2, <2>3
<1> QED BY <1>1, <1>2, <1>3 DEF ListAnswered

(* check_outgoing_links goes through the columns. *)
LEMMA OutgoingMeets ==
  ASSUME GraphOK, NEW room \in Nat \ {0}, NEW row, NEW path, NEW s,
         Asked(room, row, path, s), NEW check,
         \A r, p, t : Asked(room - 1, r, p, t) => Answered(room - 1, r, p, t, check[r][p][t])
  PROVE  LET below == CheckOutgoingLinks(row, path, s, check) IN
         /\ Kept(path, s, below)
         /\ below.ret => row \in Near[room - 1]
         /\ ~ below.ret => \A column \in 1 .. Columns :
              ListAnswered(room, row, column, path, s, below, Len(links[row][column]))
<1> DEFINE call == [column \in 1 .. Columns |-> [t \in States |->
                      LinkedObjectChanged(row, column, path, t, check)]]
           Answers(column, t) == ListAnswered(room, row, column, path, s, t, Len(links[row][column]))
           Holds(n, t) == /\ Kept(path, s, t)
                          /\ t.ret => row \in Near[room - 1]
                          /\ ~ t.ret => \A column \in 1 .. n : Answers(column, t)
           J == {p \in (0 .. Columns) \X States : Holds(p[1], p[2])}
<1>1. s \in States /\ ~ s.ret /\ CacheIsClean(s.notModified) /\ Columns \in Nat
  BY ColumnsAreCounted DEF Asked
<1>2. CheckOutgoingLinks(row, path, s, check) = AnyOf(s, Columns, call)
  BY DEF CheckOutgoingLinks
<1>3. \A n \in 1 .. Columns, t \in States : call[n][t] = LinkedObjectChanged(row, n, path, t, check)
  OBVIOUS
<1> HIDE DEF call, Holds, Answers
<1>4. <<0, s>> \in J
  <2>1. Holds(0, s)
    BY <1>1 DEF Holds, Kept
  <2> QED BY <2>1, <1>1
<1>5. ASSUME NEW n \in 1 .. Columns, NEW t, <<n - 1, t>> \in J
      PROVE  <<n, IF t.ret THEN t ELSE call[n][t]>> \in J
  <2>1. t \in States /\ Holds(n - 1, t) /\ n - 1 \in 0 .. Columns /\ n \in 0 .. Columns
    BY <1>5, <1>1
  <2>2. CASE t.ret
    <3>1. Holds(n, t)
      BY <2>1, <2>2 DEF Holds
    <3> QED BY <3>1, <2>1, <2>2
  <2>3. CASE ~ t.ret
    <3> DEFINE u == LinkedObjectChanged(row, n, path, t, check)
    <3>1. call[n][t] = u
      BY <1>3, <2>1
    <3>2. Kept(path, s, t)
      BY <2>1 DEF Holds
    <3>3. Asked(room, row, path, t)
      BY <2>1, <2>3, <3>2 DEF Asked, Kept
    <3>4. ListAnswered(room, row, n, path, t, u, Len(links[row][n]))
      BY <3>3, ColumnMeets
    <3> HIDE DEF u
    <3>5. Kept(path, t, u) /\ (u.ret => row \in Near[room - 1])
      BY <3>4 DEF ListAnswered
    <3>6. Kept(path, s, u)
      BY <3>2, <3>5, KeptIsTransitive
    <3>7. Answers(n, u)
      BY <3>4, <3>6 DEF Answers, ListAnswered
    <3>8. ASSUME NEW column \in 1 .. n, column # n
          PROVE  Answers(column, u)
      <4>1. column \in 1 .. n - 1
        BY <3>8
      <4>2. Answers(column, t)
        BY <4>1, <2>1, <2>3 DEF Holds
      <4> QED BY <4>2, <3>5, <2>3, ListAnswerHolds DEF Answers
    <3>9. Holds(n, u)
      BY <3>5, <3>6, <3>7, <3>8 DEF Holds
    <3>10. u \in States
      BY <3>6 DEF Kept
    <3> QED BY <3>1, <3>9, <3>10, <2>1, <2>3
  <2> QED BY <2>2, <2>3
<1>6. <<Columns, AnyOf(s, Columns, call)>> \in J
  <2> HIDE DEF J
  <2> QED BY <1>1, <1>4, <1>5, AnyOfKeeps
<1> QED BY <1>2, <1>6 DEF Holds, Answers

(* What the columns have explored makes the row explored. *)
LEMMA RowIsExplored ==
  ASSUME GraphOK, NEW room \in Nat \ {0}, NEW row, NEW path, NEW s, NEW t,
         Asked(room, row, path, s), ~ t.ret, row \notin modified,
         \A column \in 1 .. Columns :
           ListAnswered(room, row, column, path, s, t, Len(links[row][column])),
         NEW j \in 1 .. Len(path), j \notin t.exceeded
  PROVE  row \in Explored(t.notModified, path, j)
<1> DEFINE kept == t.notModified
           longer(column) == Append(path, <<row, column>>)
           parts == UNION {Explored(kept, longer(column), j) : column \in 1 .. Columns}
           rows == {row} \union parts
<1>1. row \in Rows /\ path \in Paths /\ Len(path) \in Nat
  BY DEF Asked, Paths
<1>2. \A column \in 1 .. Columns : \A i \in DOMAIN links[row][column] :
        \/ IsOpen(path, j, row, column)
        \/ links[row][column][i] \in kept \union Explored(kept, longer(column), j)
  <2>1. SUFFICES ASSUME NEW column \in 1 .. Columns, NEW i \in DOMAIN links[row][column]
                 PROVE  \/ IsOpen(path, j, row, column)
                        \/ links[row][column][i] \in kept \union Explored(kept, longer(column), j)
    OBVIOUS
  <2>2. i \in 1 .. Len(links[row][column])
    BY <1>1, GraphTyped
  <2> QED BY <2>2 DEF ListAnswered
<1> HIDE DEF kept
<1>3. \A column \in 1 .. Columns :
        \/ IsOpen(path, j, row, column)
        \/ \A i \in DOMAIN links[row][column] : links[row][column][i] \in kept \union rows
  BY <1>2
<1>4. ASSUME NEW part, NEW c \in 1 .. Columns, IsExplored(part, kept, longer(c), j),
             part \subseteq rows,
             NEW v \in part, NEW column \in 1 .. Columns
      PROVE  \/ IsOpen(path, j, v, column)
             \/ \A i \in DOMAIN links[v][column] : links[v][column][i] \in kept \union rows
  <2>1. CASE IsOpen(longer(c), j, v, column)
    <3>1. PICK i \in 1 .. Len(longer(c)) : i > j /\ longer(c)[i] = <<v, column>>
      BY <2>1 DEF IsOpen
    <3>2. CASE i = Len(path) + 1
      <4>1. v = row /\ column = c
        BY <3>1, <3>2, <1>1, LongerPath
      <4> QED BY <4>1, <1>3
    <3>3. CASE i # Len(path) + 1
      <4>1. i \in 1 .. Len(path)
        BY <3>3, <1>1, LongerPath
      <4>2. path[i] = <<v, column>>
        BY <3>1, <4>1, <1>1, LongerPath
      <4> QED BY <3>1, <4>1, <4>2 DEF IsOpen
    <3> QED BY <3>2, <3>3
  <2>2. CASE \A i \in DOMAIN links[v][column] : links[v][column][i] \in kept \union part
    <3> HIDE DEF rows
    <3> QED BY <2>2, <1>4
  <2> QED BY <2>1, <2>2, <1>4 DEF IsExplored
<1>5. ASSUME NEW v \in parts
      PROVE  \E part, c : /\ c \in 1 .. Columns /\ IsExplored(part, kept, longer(c), j)
                          /\ part \subseteq parts /\ v \in part
  <2>1. PICK c \in 1 .. Columns : v \in Explored(kept, longer(c), j)
    OBVIOUS
  <2>2. PICK part \in SUBSET Rows : IsExplored(part, kept, longer(c), j) /\ v \in part
    BY <2>1 DEF Explored
  <2>3. part \subseteq Explored(kept, longer(c), j)
    BY <2>2 DEF Explored
  <2> QED BY <2>2, <2>3
<1>6. rows \subseteq Rows \ modified
  <2>1. \A v \in parts : v \in Rows \ modified
    BY <1>5 DEF IsExplored
  <2> HIDE DEF parts
  <2> QED BY <2>1, <1>1
<1>7. ASSUME NEW v \in rows, NEW column \in 1 .. Columns
      PROVE  \/ IsOpen(path, j, v, column)
             \/ \A i \in DOMAIN links[v][column] : links[v][column][i] \in kept \union rows
  <2>1. CASE v = row
    BY <2>1, <1>3
  <2>2. CASE v \in parts
    <3>1. PICK part, c : /\ c \in 1 .. Columns /\ IsExplored(part, kept, longer(c), j)
                         /\ part \subseteq parts /\ v \in part
      BY <2>2, <1>5
    <3>2. part \subseteq rows
      BY <3>1
    <3> HIDE DEF rows, parts, longer
    <3> QED BY <3>1, <3>2, <1>4
  <2> QED BY <2>1, <2>2
<1>8. IsExplored(rows, kept, path, j)
  <2> HIDE DEF rows
  <2> QED BY <1>6, <1>7 DEF IsExplored
<1>9. row \in rows /\ rows \in SUBSET Rows
  BY <1>6
<1> HIDE DEF rows
<1> QED BY <1>8, <1>9 DEF Explored, kept

(* No modified row is in reach of the row: by the first link of a shortest
   way to one, were there one. *)
LEMMA RowIsFar ==
  ASSUME GraphOK, NEW room \in Nat \ {0}, NEW row, NEW path, NEW s, NEW t,
         Asked(room, row, path, s), ~ t.ret, row \notin modified,
         \A column \in 1 .. Columns :
           ListAnswered(room, row, column, path, s, t, Len(links[row][column])),
         NEW far \in 0 .. room - 1, NoneNear(path, far)
  PROVE  row \notin Near[far]
<1> DEFINE S == {k \in Nat : k <= far => row \notin Near[k]}
<1>1. /\ row \in Rows /\ path \in Paths /\ Len(path) \in Nat
      /\ room \in 0 .. PathSize /\ PathSize \in Nat \ {0}
  BY PathSizeIsPositive DEF Asked, Paths
<1>2. \A k \in 0 .. far : NoneNear(path, k)
  <2>1. ASSUME NEW k \in 0 .. far PROVE Near[k] \subseteq Near[far]
    <3>1. k \in 0 .. PathSize /\ far \in 0 .. PathSize /\ k <= far
      BY <1>1
    <3> QED BY <3>1, NearGrows
  <2> QED BY <2>1 DEF NoneNear
<1>3. 0 \in S
  <2>1. 0 \in 0 .. PathSize
    BY <1>1
  <2>2. Near[0] = modified
    BY <2>1, NearIs
  <2> QED BY <2>2
<1>4. ASSUME NEW k \in Nat, k \in S PROVE k + 1 \in S
  <2>1. SUFFICES ASSUME k + 1 <= far PROVE row \notin Near[k + 1]
    OBVIOUS
  <2>2. /\ k \in 0 .. room - 2 /\ k + 1 \in 0 .. far
        /\ k \in 0 .. PathSize - 1
    BY <2>1, <1>1
  <2>3. row \notin Near[k] /\ NoneNear(path, k + 1)
    BY <1>4, <2>1, <2>2, <1>2
  <2>4. \A column \in 1 .. Columns : \A i \in DOMAIN links[row][column] :
          links[row][column][i] \notin Near[k]
    <3>1. \A column \in 1 .. Columns :
            DOMAIN links[row][column] = 1 .. Len(links[row][column])
      BY <1>1, GraphTyped
    <3> QED BY <2>2, <2>3, <3>1 DEF ListAnswered
  <2> QED BY <2>2, <2>3, <2>4, <1>1, NearByLinks
<1> HIDE DEF S
<1>5. far \in S
  BY <1>3, <1>4, ByInduction
<1> QED BY <1>5 DEF S

(* check_row keeps the promise when there is room. *)
LEMMA FittingMeets ==
  ASSUME GraphOK, NEW room \in Nat \ {0}, NEW row, NEW path, NEW s,
         Asked(room, row, path, s), NEW check,
         \A r, p, t : Asked(room - 1, r, p, t) => Answered(room - 1, r, p, t, check[r][p][t])
  PROVE  Answered(room, row, path, s, CheckFitting(row, path, s, check))
<1> DEFINE below == CheckOutgoingLinks(row, path, s, check)
           answer == CheckFitting(row, path, s, check)
<1>0. SUFFICES Answered(room, row, path, s, answer)
  OBVIOUS
<1>1. /\ row \in Rows /\ path \in Paths /\ s \in States /\ Len(path) \in Nat
      /\ room \in 0 .. PathSize /\ Len(path) + room = PathSize
      /\ ~ s.ret /\ CacheIsClean(s.notModified) /\ PathSize \in Nat \ {0}
      /\ path = << >> => row \notin modified
  BY PathSizeIsPositive DEF Asked, Paths
<1>2. /\ Kept(path, s, below)
      /\ below.ret => row \in Near[room - 1]
      /\ ~ below.ret => \A column \in 1 .. Columns :
           ListAnswered(room, row, column, path, s, below, Len(links[row][column]))
  BY OutgoingMeets
<1>3. answer = IF path # << >> /\ row \in modified THEN [s EXCEPT !.ret = TRUE]
               ELSE IF row \in s.notModified THEN s
               ELSE IF IsSettled(path, below) THEN [below EXCEPT !.notModified = @ \union {row}]
               ELSE below
  BY DEF CheckFitting
<1> HIDE DEF below, answer
<1>4. Kept(path, s, s)
  BY <1>1 DEF Kept
<1>5. CASE row \in modified
  <2>1. answer = [s EXCEPT !.ret = TRUE]
    BY <1>1, <1>3, <1>5
  <2>2. Kept(path, s, answer) /\ answer.ret
    BY <2>1, <1>1 DEF Kept, States
  <2>3. Near[0] = modified
    <3>1. 0 \in 0 .. PathSize
      BY <1>1
    <3> QED BY <3>1, NearIs
  <2>4. Near[0] \subseteq Near[room - 1]
    <3>1. 0 \in 0 .. PathSize /\ room - 1 \in 0 .. PathSize /\ 0 <= room - 1
      BY <1>1
    <3> QED BY <3>1, NearGrows
  <2> QED BY <2>2, <2>3, <2>4, <1>5 DEF Answered
<1>6. CASE row \notin modified /\ row \in s.notModified
  <2>1. answer = s
    BY <1>3, <1>6
  <2>2. ASSUME NEW k \in 0 .. room - 1 PROVE row \notin Near[k]
    <3>1. k \in 0 .. PathSize /\ PathSize - 1 \in 0 .. PathSize /\ k <= PathSize - 1
      BY <1>1
    <3> QED BY <3>1, <1>1, <1>6, NearGrows DEF CacheIsClean
  <2> QED BY <2>1, <2>2, <1>1, <1>4, <1>6 DEF Answered
<1>7. CASE row \notin modified /\ row \notin s.notModified /\ below.ret
  <2>1. answer = below
    BY <1>3, <1>7 DEF IsSettled
  <2> QED BY <2>1, <1>2, <1>7 DEF Answered
<1>8. CASE row \notin modified /\ row \notin s.notModified /\ ~ below.ret
  <2>1. \A k \in 0 .. room - 1 : NoneNear(path, k) => row \notin Near[k]
    BY <1>2, <1>8, RowIsFar
  <2>2. \A j \in 1 .. Len(path) :
          j \notin below.exceeded => row \in Explored(below.notModified, path, j)
    BY <1>2, <1>8, RowIsExplored
  <2>3. below \in States /\ CacheIsClean(below.notModified) /\ s.notModified \subseteq below.notModified
    BY <1>2 DEF Kept
  <2>4. CASE IsSettled(path, below)
    <3>1. answer = [below EXCEPT !.notModified = @ \union {row}]
      BY <1>3, <1>8, <2>4
    <3>2. /\ answer \in States /\ ~ answer.ret /\ answer.exceeded = below.exceeded
          /\ answer.notModified = below.notModified \union {row}
      BY <3>1, <2>3, <1>1, <1>8 DEF States
    <3>3. row \notin Near[PathSize - 1]
      <4>1. CASE path = << >>
        <5>1. PathSize - 1 \in 0 .. room - 1 /\ NoneNear(path, PathSize - 1)
          BY <4>1, <1>1 DEF NoneNear
        <5> QED BY <5>1, <2>1
      <4>2. CASE path # << >>
        <5>1. Len(path) \in 1 .. Len(path) /\ Len(path) \notin below.exceeded
          BY <4>2, <1>1, <2>4 DEF IsSettled, Paths
        <5> QED BY <5>1, <2>2, <2>3, <1>1, ClosedIsClean
      <4> QED BY <4>1, <4>2
    <3>4. Kept(path, s, answer)
      BY <3>2, <3>3, <2>3, <1>1, <1>2 DEF Kept, CacheIsClean
    <3> QED BY <3>2, <3>4, <2>1 DEF Answered
  <2>5. CASE ~ IsSettled(path, below)
    <3>1. answer = below
      BY <1>3, <1>8, <2>5
    <3> QED BY <3>1, <2>1, <2>2, <1>2, <1>8 DEF Answered
  <2> QED BY <2>4, <2>5
<1> QED BY <1>5, <1>6, <1>7, <1>8

(* check_row keeps what Answered promises, on every path: by induction on
   how much longer the path may grow. *)
LEMMA CheckRowMeets ==
  ASSUME GraphOK, NEW room, NEW row, NEW path, NEW s, Asked(room, row, path, s)
  PROVE  Answered(room, row, path, s, CheckRow[room][row][path][s])
<1> DEFINE S == {n \in Nat : \A r, p, t :
                   Asked(n, r, p, t) => Answered(n, r, p, t, CheckRow[n][r][p][t])}
<1>1. 0 \in S
  <2>1. SUFFICES ASSUME NEW r, NEW p, NEW t, Asked(0, r, p, t)
                 PROVE  Answered(0, r, p, t, CheckRow[0][r][p][t])
    OBVIOUS
  <2> DEFINE u == CheckRow[0][r][p][t]
  <2>2. /\ r \in Rows /\ p \in Paths /\ t \in States /\ 0 \in 0 .. PathSize
        /\ Len(p) \in Nat /\ Len(p) + 0 = PathSize /\ ~ t.ret /\ CacheIsClean(t.notModified)
    BY <2>1 DEF Asked, Paths
  <2>3. u = [t EXCEPT !.exceeded = 1 .. PathSize]
    BY <2>2, CheckRowIs
  <2> HIDE DEF u
  <2>4. /\ u \in States /\ ~ u.ret /\ u.notModified = t.notModified
        /\ u.exceeded = 1 .. PathSize
    BY <2>2, <2>3 DEF States
  <2>5. Kept(p, t, u)
    BY <2>2, <2>4 DEF Kept
  <2>6. \A j \in 1 .. Len(p) : j \in u.exceeded
    BY <2>2, <2>4
  <2>7. 0 .. 0 - 1 = {}
    OBVIOUS
  <2>8. Answered(0, r, p, t, u)
    BY <2>4, <2>5, <2>6, <2>7 DEF Answered
  <2> QED BY <2>8 DEF u
<1>2. ASSUME NEW n \in Nat, n \in S PROVE n + 1 \in S
  <2>1. \A r, p, t : Asked(n, r, p, t) => Answered(n, r, p, t, CheckRow[n][r][p][t])
    BY <1>2
  <2>2. SUFFICES ASSUME NEW r, NEW p, NEW t, Asked(n + 1, r, p, t)
                 PROVE  Answered(n + 1, r, p, t, CheckRow[n + 1][r][p][t])
    OBVIOUS
  <2>3. /\ r \in Rows /\ p \in Paths /\ t \in States /\ n + 1 \in 0 .. PathSize
        /\ n + 1 \in Nat \ {0} /\ (n + 1) - 1 = n /\ n + 1 # 0
    BY <2>2 DEF Asked
  <2>4. CheckRow[n + 1][r][p][t] = CheckFitting(r, p, t, CheckRow[n])
    BY <2>3, CheckRowIs
  <2> DEFINE m == n + 1
             check == CheckRow[n]
  <2>5. /\ m \in Nat \ {0}
        /\ \A r1, p1, t1 : Asked(m - 1, r1, p1, t1) => Answered(m - 1, r1, p1, t1, check[r1][p1][t1])
        /\ Asked(m, r, p, t)
    BY <2>1, <2>2, <2>3
  <2> HIDE DEF m, check
  <2>6. Answered(m, r, p, t, CheckFitting(r, p, t, check))
    BY <2>5, FittingMeets
  <2> QED BY <2>4, <2>6 DEF m, check
<1> HIDE DEF S
<1>3. room \in Nat
  BY PathSizeIsPositive DEF Asked
<1>4. room \in S
  BY <1>1, <1>2, <1>3, ByInduction
<1> QED BY <1>4 DEF S

-----------------------------------------------------------------------------

\* The inductive invariant: the memory between two questions is clean.
Inv ==
  /\ GraphOK
  /\ CacheIsClean(notModified)
  /\ AnswersAreExact

\* While links and modified stay, so do the distances.
LEMMA NearStays ==
  ASSUME links' = links, modified' = modified
  PROVE  \A n \in 0 .. PathSize : Near'[n] = Near[n]
<1> DEFINE S == {n \in Nat : n <= PathSize => Near'[n] = Near[n]}
<1>0. PathSize \in Nat
  BY PathSizeIsPositive
<1>1. (\A n \in 0 .. PathSize :
         Near[n] = IF n = 0 THEN modified ELSE Near[n - 1] \union LinkedTo(Near[n - 1]))'
  BY NearIs, PTL
<1>2. Near'[0] = modified' /\ Near[0] = modified
  <2>1. 0 \in 0 .. PathSize
    BY <1>0
  <2> QED BY <2>1, <1>1, NearIs
<1>3. 0 \in S
  BY <1>2
<1>4. ASSUME NEW n \in Nat, n \in S PROVE n + 1 \in S
  <2>1. SUFFICES ASSUME n + 1 <= PathSize PROVE Near'[n + 1] = Near[n + 1]
    OBVIOUS
  <2>2. n + 1 \in 0 .. PathSize /\ n + 1 # 0 /\ (n + 1) - 1 = n /\ n <= PathSize
    BY <2>1, <1>0
  <2>3. Near'[n] = Near[n]
    BY <1>4, <2>2
  <2>4. Near[n + 1] = Near[n] \union LinkedTo(Near[n])
    BY <2>2, NearIs
  <2>5. Near'[n + 1] = Near'[n] \union LinkedTo(Near[n])'
    BY <2>2, <1>1
  <2>6. LinkedTo(Near[n])' = LinkedTo(Near[n])
    BY <2>3 DEF LinkedTo
  <2> QED BY <2>3, <2>4, <2>5, <2>6
<1> HIDE DEF S
<1>5. \A n \in Nat : n \in S
  BY <1>3, <1>4, ByInduction
<1> QED BY <1>5, PathSizeIsPositive DEF S

(* Nothing is cached and nothing answered at first. *)
LEMMA InvStart == Init => Inv
<1> SUFFICES ASSUME Init PROVE Inv
  OBVIOUS
<1>1. notModified = {} /\ DOMAIN answers = {}
  BY DEF Init
<1> QED BY <1>1 DEF Init, Inv, GraphOK, CacheIsClean, AnswersAreExact

(* A question keeps the cache clean, and its answer is exact. *)
LEMMA InvStep == Inv /\ [Next]_vars => Inv'
<1> SUFFICES ASSUME Inv, [Next]_vars PROVE Inv'
  OBVIOUS
<1>0. PathSize \in Nat \ {0} /\ PathSize - 1 \in 0 .. PathSize /\ PathSize \in 0 .. PathSize
  BY PathSizeIsPositive
<1>1. ASSUME NEW row \in Roots, Ask(row) PROVE Inv'
  <2> DEFINE s == [ret |-> FALSE, notModified |-> notModified, exceeded |-> {}]
             done == IF row \in modified THEN [s EXCEPT !.ret = TRUE]
                     ELSE CheckRow[PathSize][row][<< >>][s]
  <2>1. /\ answers' = [r \in DOMAIN answers \union {row} |->
                         IF r = row THEN done.ret ELSE answers[r]]
        /\ notModified' = done.notModified
        /\ links' = links /\ modified' = modified
    BY <1>1 DEF Ask
  <2>2. Near'[PathSize - 1] = Near[PathSize - 1]
    BY <2>1, <1>0, NearStays
  <2>3. GraphOK /\ CacheIsClean(notModified) /\ AnswersAreExact /\ row \in Rows
    BY RootsAreRows DEF Inv
  <2>4. s \in States /\ ~ s.ret /\ s.notModified = notModified
    BY <2>3 DEF States, CacheIsClean
  <2> HIDE DEF s
  <2>5. /\ CacheIsClean(done.notModified)
        /\ done.ret = (row \in Near[PathSize - 1])
    <3>1. CASE row \in modified
      <4>1. /\ done.ret = TRUE
            /\ done.notModified = notModified
        BY <3>1, <2>4 DEF States
      <4>2. 0 \in 0 .. PathSize /\ 0 <= PathSize - 1
        BY <1>0
      <4>3. Near[0] = modified /\ Near[0] \subseteq Near[PathSize - 1]
        BY <1>0, <4>2, NearIs, NearGrows
      <4> QED BY <4>1, <4>3, <3>1, <2>3
    <3>2. CASE row \notin modified
      <4>1. done = CheckRow[PathSize][row][<< >>][s]
        BY <3>2
      <4> HIDE DEF done
      <4>2. Asked(PathSize, row, << >>, s)
        BY <3>2, <2>3, <2>4, <1>0 DEF Asked, Paths
      <4>3. Answered(PathSize, row, << >>, s, done)
        BY <4>1, <4>2, <2>3, CheckRowMeets
      <4>4. NoneNear(<< >>, PathSize - 1) /\ PathSize - 1 \in 0 .. PathSize - 1
        BY <1>0 DEF NoneNear
      <4>5. done.ret \in BOOLEAN /\ CacheIsClean(done.notModified)
        BY <4>3 DEF Answered, Kept, States
      <4> QED BY <4>3, <4>4, <4>5 DEF Answered
    <3> QED BY <3>1, <3>2
  <2> HIDE DEF done
  <2>6. GraphOK'
    BY <2>1, <2>3 DEF GraphOK
  <2>7. CacheIsClean(notModified)'
    BY <2>1, <2>2, <2>5 DEF CacheIsClean
  <2>8. AnswersAreExact'
    BY <2>1, <2>2, <2>3, <2>5 DEF AnswersAreExact
  <2> QED BY <2>6, <2>7, <2>8 DEF Inv
<1>2. ASSUME UNCHANGED vars PROVE Inv'
  <2>1. links' = links /\ modified' = modified /\ notModified' = notModified /\ answers' = answers
    BY <1>2 DEF vars
  <2>2. Near'[PathSize - 1] = Near[PathSize - 1]
    BY <2>1, <1>0, NearStays
  <2> QED BY <2>1, <2>2 DEF Inv, GraphOK, CacheIsClean, AnswersAreExact
<1> QED BY <1>1, <1>2 DEF Next

(* A notifier's question about a row is answered by yes exactly when a
   modified row is less than PathSize links away, for every graph, every
   path size and every order of questions. *)
THEOREM Exact == Spec => []AnswersAreExact
<1>1. Inv => AnswersAreExact
  BY DEF Inv
<1> QED BY InvStart, InvStep, <1>1, PTL DEF Spec
====
