------------------------ MODULE ResultChangesProofs ------------------------
(***************************************************************************)
(* Proofs about ResultChanges, for tables of any size and transactions of  *)
(* any length: a log half read accounts for every row.                     *)
(*                                                                         *)
(* The rows of a table never shift: a row is deleted by moving the last    *)
(* one over it.  So, below the end of the table, what is deleted is what   *)
(* is inserted, and a row in neither set is where it was.  That the log's  *)
(* operations keep the two sets so (Aligned) is what makes Shift and       *)
(* Unshift lead from a row to itself.                                      *)
(***************************************************************************)
EXTENDS ResultChanges, FiniteSetTheorems, TLAPS

-----------------------------------------------------------------------------
(* Counting in sets of row numbers *)

Below(S, n) == {v \in S : 0 <= v /\ v < n}

LEMMA BelowIsFinite ==
    ASSUME NEW S \in SUBSET Nat, NEW n \in Nat
    PROVE  /\ IsFiniteSet(Below(S, n))
           /\ Count(S, 0, n) = Cardinality(Below(S, n))
           /\ Count(S, 0, n) \in 0 .. n
<1>1. IsFiniteSet(0 .. n - 1) /\ Cardinality(0 .. n - 1) = n
  BY FS_Interval, n - 1 \in Int
<1>2. Below(S, n) \in SUBSET (0 .. n - 1)
  <2>1. ASSUME NEW v \in Below(S, n) PROVE v \in 0 .. n - 1
    <3>1. v \in Nat /\ v < n
      BY DEF Below
    <3> QED
      BY <3>1
  <2> QED
    BY <2>1
<1>3. /\ IsFiniteSet(Below(S, n)) /\ Cardinality(Below(S, n)) \in Nat
      /\ Cardinality(Below(S, n)) <= n
  BY <1>1, <1>2, FS_Subset, FS_CardinalityType
<1> QED
  BY <1>3 DEF Below, Count

(* The numbers outside a set are counted by Unshift in their order. *)
LEMMA UnshiftRises ==
    ASSUME NEW S \in SUBSET Nat, NEW m \in Nat \ S, NEW n \in Nat, m < n
    PROVE  Unshift(S, m) < Unshift(S, n)
<1> DEFINE between == {v \in S : m < v /\ v < n}
<1>1. IsFiniteSet(m + 1 .. n - 1) /\ Cardinality(m + 1 .. n - 1) = n - m - 1
  BY FS_Interval, m + 1 \in Int, n - 1 \in Int
<1>2. IsFiniteSet(between) /\ Cardinality(between) <= n - m - 1
  <2>1. ASSUME NEW v \in between PROVE v \in m + 1 .. n - 1
    <3>1. v \in Nat /\ m < v /\ v < n
      OBVIOUS
    <3> QED
      BY <3>1
  <2>2. between \in SUBSET (m + 1 .. n - 1)
    BY <2>1
  <2> QED
    BY <1>1, <2>2, FS_Subset
<1>3. Below(S, n) = Below(S, m) \cup between /\ Below(S, m) \cap between = {}
  <2>1. \A v \in S : v \in Nat /\ v # m
    OBVIOUS
  <2>2. \A v \in S : v < n <=> v < m \/ (m < v /\ v < n)
    BY <2>1
  <2>3. \A v \in S : v \in Below(S, n) <=> v \in Below(S, m) \/ v \in between
    <3> SUFFICES ASSUME NEW v \in S
                 PROVE  v \in Below(S, n) <=> v \in Below(S, m) \/ v \in between
      OBVIOUS
    <3>1. v \in Below(S, n) <=> v < n
      BY <2>1 DEF Below
    <3>2. v \in Below(S, m) <=> v < m
      BY <2>1 DEF Below
    <3>3. v \in between <=> m < v /\ v < n
      OBVIOUS
    <3> HIDE DEF between
    <3> QED
      BY <2>2, <3>1, <3>2, <3>3
  <2>4. \A v \in S : ~(v < m /\ m < v)
    BY <2>1
  <2> QED
    BY <2>3, <2>4 DEF Below
<1>4. IsFiniteSet(Below(S, m)) /\ IsFiniteSet(Below(S, n))
  BY BelowIsFinite
<1>5. Cardinality(Below(S, n)) = Cardinality(Below(S, m)) + Cardinality(between) - 0
  <2> HIDE DEF between
  <2> QED
    BY <1>2, <1>3, <1>4, FS_Union, FS_EmptySet
<1>6. Cardinality(between) \in Nat
  BY <1>2, FS_CardinalityType
<1>7. /\ Count(S, 0, m) = Cardinality(Below(S, m)) /\ Count(S, 0, m) \in Nat
      /\ Count(S, 0, n) = Cardinality(Below(S, n)) /\ Count(S, 0, n) \in Nat
  BY BelowIsFinite
<1> HIDE DEF between
<1> QED
  BY <1>2, <1>5, <1>6, <1>7 DEF Unshift

LEMMA UnshiftTells ==
    ASSUME NEW S \in SUBSET Nat, NEW m \in Nat \ S, NEW n \in Nat \ S
    PROVE  /\ Unshift(S, m) \in Int
           /\ m < n <=> Unshift(S, m) < Unshift(S, n)
           /\ Unshift(S, m) = Unshift(S, n) => m = n
<1>1. Unshift(S, m) \in Int /\ Unshift(S, n) \in Int
  BY BelowIsFinite DEF Unshift
<1> QED
  BY <1>1, UnshiftRises

(* Shift finds the number outside S that Unshift counts. *)
LEMMA ShiftFinds ==
    ASSUME NEW S \in SUBSET Nat, IsFiniteSet(S), NEW q \in Nat \ S
    PROVE  Shift(S, Unshift(S, q)) = q
<1> DEFINE index == Unshift(S, q)
<1>1. Count(S, 0, q) \in Nat /\ index \in Int /\ q = index + Count(S, 0, q)
  BY BelowIsFinite DEF Unshift
<1>2. Count(S, 0, q) <= Cardinality(S) /\ Cardinality(S) \in Nat
  <2>1. Below(S, q) \in SUBSET S
    BY DEF Below
  <2> QED
    BY <2>1, FS_Subset, FS_CardinalityType, BelowIsFinite
<1>3. q \in index .. index + Cardinality(S)
  BY <1>1, <1>2
<1>4. ASSUME NEW n \in index .. index + Cardinality(S), n \notin S, n = index + Count(S, 0, n)
      PROVE  n = q
  <2>1. index >= 0
    BY <1>1, BelowIsFinite
  <2>2. n \in Nat
    BY <1>1, <1>2, <2>1
  <2>3. Unshift(S, n) = index
    BY <1>1, <1>4, <2>2, BelowIsFinite DEF Unshift
  <2> HIDE DEF index
  <2> QED
    BY <1>4, <2>2, <2>3, UnshiftTells DEF index
<1> HIDE DEF index
<1> QED
  BY <1>1, <1>3, <1>4 DEF Shift, index

\* Where two sets are the same below a row, Shift undoes Unshift.
LEMMA PlaceKept ==
    ASSUME NEW D \in SUBSET Nat, IsFiniteSet(D), NEW I \in SUBSET Nat, NEW p \in Nat \ D,
           \A v \in Nat : v < p => (v \in D <=> v \in I)
    PROVE  Shift(D, Unshift(I, p)) = p
<1>1. Below(D, p) = Below(I, p)
  BY DEF Below
<1>2. Unshift(I, p) = Unshift(D, p)
  BY <1>1, BelowIsFinite DEF Unshift
<1> QED
  BY <1>2, ShiftFinds

-----------------------------------------------------------------------------
(* What the log says of rows *)

\* The row with this id was row q at the last run.
From(q, id) == q \in 0 .. Len(found) - 1 /\ RowAt(found, q).id = id

(* The log of a table that now has n rows.  A row that is not among the     *)
(* insertions was there at the last run, and of the rows of that run those  *)
(* are deleted that lie beyond the end or are inserted again. *)
Aligned(c, n) ==
    /\ DOMAIN c = DOMAIN NoChanges /\ c.moves = << >> /\ Len(found) \in Nat
    /\ c.deletions \in SUBSET Nat /\ IsFiniteSet(c.deletions)
    /\ c.insertions \in SUBSET (0 .. n - 1)
    /\ \A p \in 0 .. n - 1 : p \in c.insertions \/ p \in 0 .. Len(found) - 1
    /\ \A q \in 0 .. Len(found) - 1 : q \in c.deletions <=> q \in c.insertions \/ q >= n

(* The log tells of row p, which has this id, where it was. *)
Traced(c, p, id) ==
    \/ p \in DOMAIN c.mapping /\ From(c.mapping[p], id)
    \/ p \in c.insertions /\ p \notin DOMAIN c.mapping /\ \A q : ~From(q, id)
    \/ p \notin c.insertions /\ From(p, id)

AllTraced(c, n, ids) ==
    /\ Aligned(c, n) /\ DOMAIN c.mapping \subseteq c.insertions
    /\ \A p \in 0 .. n - 1 : Traced(c, p, ids[p])

\* A row that is not inserted is where it was, and the code finds it there.
LEMMA Undisturbed ==
    ASSUME NEW c, NEW n \in Nat, Aligned(c, n), NEW p \in 0 .. n - 1, p \notin c.insertions
    PROVE  /\ p \in 0 .. Len(found) - 1 /\ p \notin c.deletions
           /\ Shift(c.deletions, Unshift(c.insertions, p)) = p
<1>1. p \in 0 .. Len(found) - 1 /\ p \notin c.deletions /\ p \in Nat /\ Len(found) \in Nat
  BY DEF Aligned
<1>2. ASSUME NEW v \in Nat, v < p PROVE v \in c.deletions <=> v \in c.insertions
  <2>1. v \in 0 .. Len(found) - 1 /\ ~(v >= n)
    BY <1>1, <1>2
  <2> QED
    BY <2>1 DEF Aligned
<1>3. /\ c.deletions \in SUBSET Nat /\ IsFiniteSet(c.deletions)
      /\ c.insertions \in SUBSET Nat
  BY DEF Aligned
<1> QED
  BY <1>1, <1>2, <1>3, PlaceKept

(* d says of row p what c says of row q, and p counts as inserted. *)
Takes(d, p, c, q) ==
    /\ p \in d.insertions
    /\ p \in DOMAIN d.mapping <=> q \in DOMAIN c.mapping \/ q \notin c.insertions
    /\ q \in DOMAIN c.mapping => d.mapping[p] = c.mapping[q]
    /\ q \notin c.insertions => d.mapping[p] = q

\* d says of row p what c says of it.
Leaves(d, p, c) ==
    /\ p \in d.insertions <=> p \in c.insertions
    /\ p \in DOMAIN d.mapping <=> p \in DOMAIN c.mapping
    /\ p \in DOMAIN c.mapping => d.mapping[p] = c.mapping[p]

LEMMA TakesTraces ==
    ASSUME NEW c, DOMAIN c.mapping \subseteq c.insertions,
           NEW d, NEW p, NEW q, Takes(d, p, c, q), NEW id, Traced(c, q, id)
    PROVE  Traced(d, p, id)
  BY DEF Takes, Traced

LEMMA LeavesTraces ==
    ASSUME NEW c, NEW d, NEW p, Leaves(d, p, c), NEW id, Traced(c, p, id)
    PROVE  Traced(d, p, id)
  BY DEF Leaves, Traced

-----------------------------------------------------------------------------
(* What the operations of a table's log do *)

\* A change of the modified rows leaves the rest of the log as it is.
Alike(c, d) ==
    /\ DOMAIN d = DOMAIN c /\ d.deletions = c.deletions
    /\ d.insertions = c.insertions /\ d.mapping = c.mapping /\ d.moves = c.moves

LEMMA AlikeTraces ==
    ASSUME NEW c, NEW d, Alike(c, d), NEW n
    PROVE  /\ Aligned(c, n) => Aligned(d, n)
           /\ \A p, id : Traced(c, p, id) => Traced(d, p, id)
  BY DEF Alike, Aligned, Traced

\* A row joins both sets.
LEMMA BothGrow ==
    ASSUME NEW c, NEW n \in Nat, Aligned(c, n), NEW a \in 0 .. n - 1,
           NEW d, DOMAIN d = DOMAIN c, d.moves = c.moves,
           d.insertions = c.insertions \cup {a}, d.deletions = c.deletions \cup {a}
    PROVE  Aligned(d, n)
<1>1. IsFiniteSet(c.deletions \cup {a})
  BY FS_AddElement DEF Aligned
<1>2. c.deletions \cup {a} \in SUBSET Nat
  BY DEF Aligned
<1> QED
  BY <1>1, <1>2 DEF Aligned

LEMMA DepartIs ==
    ASSUME NEW c, NEW n \in Nat, Aligned(c, n), NEW from \in 0 .. n - 1, NEW to,
           NEW d, d = Depart(c, from, to)
    PROVE  /\ Aligned(d, n) /\ d.insertions = c.insertions \cup {from}
           /\ d.mapping = IF from \in c.insertions THEN c.mapping
                          ELSE WithKey(c.mapping, to, from)
<1>1. CASE from \in c.insertions
  BY <1>1 DEF Depart
<1>2. CASE from \notin c.insertions
  <2>1. Shift(c.deletions, Unshift(c.insertions, from)) = from
    BY <1>2, Undisturbed
  <2>2. /\ DOMAIN d = DOMAIN c /\ d.moves = c.moves
        /\ d.deletions = c.deletions \cup {from}
        /\ d.insertions = c.insertions \cup {from}
        /\ d.mapping = WithKey(c.mapping, to, from)
    BY <1>2, <2>1 DEF Depart, Aligned, NoChanges
  <2> QED
    BY <1>2, <2>2, BothGrow
<1> QED
  BY <1>1, <1>2

\* Two rows are exchanged.
LEMMA SwapIs ==
    ASSUME NEW c, NEW n \in Nat, Aligned(c, n), DOMAIN c.mapping \subseteq c.insertions,
           NEW i \in 0 .. n - 1, NEW j \in 0 .. n - 1, i # j,
           NEW d, d = Swap(c, i, j)
    PROVE  /\ Aligned(d, n) /\ DOMAIN d.mapping \subseteq d.insertions
           /\ Takes(d, i, c, j) /\ Takes(d, j, c, i)
           /\ \A p : p # i /\ p # j => Leaves(d, p, c)
<1> DEFINE c1 == IF (i \in c.modifications) = (j \in c.modifications) THEN c
                 ELSE [c EXCEPT !.modifications =
                         IF i \in @ THEN (@ \ {i}) \cup {j} ELSE (@ \ {j}) \cup {i}]
           redirected(k, m) == [c1 EXCEPT !.mapping = WithKey(WithoutKey(@, k), m, @[k])]
<1>1. Alike(c, c1)
  BY DEF Aligned, NoChanges, Alike
<1>2. Aligned(c1, n)
  BY <1>1, AlikeTraces
<1>3. d = IF Tracked(c, i) /\ Tracked(c, j)
          THEN [c1 EXCEPT !.mapping[i] = c.mapping[j], !.mapping[j] = c.mapping[i]]
          ELSE IF Tracked(c, i) THEN Depart(redirected(i, j), j, i)
          ELSE IF Tracked(c, j) THEN Depart(redirected(j, i), i, j)
          ELSE Depart(Depart(c1, j, i), i, j)
  BY DEF Swap
<1> HIDE DEF c1
<1>4. CASE Tracked(c, i) /\ Tracked(c, j)
  <2>1. /\ DOMAIN d = DOMAIN c1 /\ d.deletions = c1.deletions
        /\ d.insertions = c1.insertions /\ d.moves = c1.moves
        /\ d.mapping = [c.mapping EXCEPT ![i] = c.mapping[j], ![j] = c.mapping[i]]
    BY <1>1, <1>2, <1>3, <1>4 DEF Aligned, NoChanges, Alike
  <2>2. Aligned(d, n)
    BY <1>2, <2>1 DEF Aligned
  <2> QED
    BY <1>1, <1>4, <2>1, <2>2 DEF Alike, Tracked, Takes, Leaves
(* The place of one is known; the other is entered if it has to be. *)
<1>5. ASSUME NEW a \in {i, j}, NEW k \in {i, j}, a # k, Tracked(c, a), ~Tracked(c, k),
             d = Depart(redirected(a, k), k, a)
      PROVE  /\ Aligned(d, n) /\ DOMAIN d.mapping \subseteq d.insertions
             /\ Takes(d, a, c, k) /\ Takes(d, k, c, a)
             /\ \A p : p # a /\ p # k => Leaves(d, p, c)
  <2> DEFINE e == redirected(a, k)
  <2>1. /\ DOMAIN e = DOMAIN c1 /\ e.deletions = c1.deletions
        /\ e.insertions = c1.insertions /\ e.moves = c1.moves
        /\ e.mapping = WithKey(WithoutKey(c.mapping, a), k, c.mapping[a])
    BY <1>1, <1>2 DEF Aligned, NoChanges, Alike
  <2>2. /\ DOMAIN e.mapping = (DOMAIN c.mapping \ {a}) \cup {k}
        /\ e.mapping[k] = c.mapping[a]
        /\ \A p \in DOMAIN c.mapping \ {a} : p # k /\ e.mapping[p] = c.mapping[p]
    BY <1>5, <2>1 DEF WithKey, WithoutKey, Restrict, Tracked
  <2>3. Aligned(e, n) /\ e.insertions = c.insertions
    BY <1>1, <1>2, <2>1 DEF Aligned, Alike
  <2>4. d = Depart(e, k, a) /\ k \in 0 .. n - 1 /\ a \in c.insertions
    BY <1>5 DEF Tracked
  <2> HIDE DEF e
  <2>5. /\ Aligned(d, n) /\ d.insertions = c.insertions \cup {k}
        /\ d.mapping = IF k \in c.insertions THEN e.mapping ELSE WithKey(e.mapping, a, k)
    BY <2>3, <2>4, DepartIs
  <2>6. /\ DOMAIN d.mapping = IF k \in c.insertions THEN DOMAIN e.mapping
                              ELSE DOMAIN e.mapping \cup {a}
        /\ k \notin c.insertions => d.mapping[a] = k
        /\ \A p \in DOMAIN e.mapping : p # a => d.mapping[p] = e.mapping[p]
    BY <2>5 DEF WithKey
  <2> QED
    BY <1>5, <2>2, <2>4, <2>5, <2>6 DEF Tracked, Takes, Leaves
<1>6. CASE Tracked(c, i) /\ ~Tracked(c, j)
  <2>1. d = Depart(redirected(i, j), j, i)
    BY <1>3, <1>6
  <2> HIDE DEF redirected
  <2> QED
    BY <1>5, <1>6, <2>1
<1>7. CASE ~Tracked(c, i) /\ Tracked(c, j)
  <2>1. d = Depart(redirected(j, i), i, j)
    BY <1>3, <1>7
  <2> HIDE DEF redirected
  <2> QED
    BY <1>5, <1>7, <2>1
<1>8. CASE ~Tracked(c, i) /\ ~Tracked(c, j)
  <2> DEFINE e == Depart(c1, j, i)
  <2>1. d = Depart(e, i, j)
    BY <1>3, <1>8
  <2>2. /\ Aligned(e, n) /\ e.insertions = c.insertions \cup {j}
        /\ e.mapping = IF j \in c.insertions THEN c.mapping ELSE WithKey(c.mapping, i, j)
    BY <1>1, <1>2, DepartIs DEF Alike
  <2> HIDE DEF e
  <2>3. /\ Aligned(d, n) /\ d.insertions = c.insertions \cup {i, j}
        /\ d.mapping = IF i \in c.insertions THEN e.mapping ELSE WithKey(e.mapping, j, i)
    BY <2>1, <2>2, DepartIs
  <2>4. /\ DOMAIN e.mapping = IF j \in c.insertions THEN DOMAIN c.mapping
                              ELSE DOMAIN c.mapping \cup {i}
        /\ j \notin c.insertions => e.mapping[i] = j
        /\ \A p \in DOMAIN c.mapping : e.mapping[p] = c.mapping[p]
    BY <1>8, <2>2 DEF WithKey, Tracked
  <2>5. /\ DOMAIN d.mapping = IF i \in c.insertions THEN DOMAIN e.mapping
                              ELSE DOMAIN e.mapping \cup {j}
        /\ i \notin c.insertions => d.mapping[j] = i
        /\ \A p \in DOMAIN e.mapping : p # j => d.mapping[p] = e.mapping[p]
    BY <2>3 DEF WithKey
  <2> QED
    BY <1>8, <2>3, <2>4, <2>5 DEF Tracked, Takes, Leaves
<1> QED
  BY <1>4, <1>6, <1>7, <1>8

\* A row comes in at the end.
LEMMA AddIs ==
    ASSUME NEW c, NEW n \in Nat, Aligned(c, n), DOMAIN c.mapping \subseteq c.insertions,
           NEW d, d = Modify(Insert(c, n), n)
    PROVE  /\ Aligned(d, n + 1) /\ DOMAIN d.mapping \subseteq d.insertions
           /\ n \in d.insertions /\ n \notin DOMAIN d.mapping
           /\ \A p : p # n => Leaves(d, p, c)
<1>1. ASSUME NEW S \in SUBSET (0 .. n - 1) PROVE ShiftForInsertAt(S, n) = S
  <2>1. \A v \in S : v < n
    OBVIOUS
  <2> QED
    BY <2>1 DEF ShiftForInsertAt
<1>2. /\ c.insertions \in SUBSET (0 .. n - 1) /\ DOMAIN c.mapping \in SUBSET (0 .. n - 1)
      /\ \A p \in DOMAIN c.mapping : ~(p > n) /\ p # n
  BY DEF Aligned
<1>3. /\ DOMAIN d = DOMAIN c /\ d.deletions = c.deletions /\ d.moves = << >>
      /\ d.insertions = InsertAtIndex(c.insertions, n)
      /\ d.mapping = [k \in ShiftForInsertAt(DOMAIN c.mapping, n) |->
                        c.mapping[IF k > n THEN k - 1 ELSE k]]
  BY DEF Aligned, NoChanges, Modify, Insert
<1>4. d.insertions = c.insertions \cup {n}
  BY <1>1, <1>2, <1>3 DEF InsertAtIndex
<1>5. DOMAIN d.mapping = DOMAIN c.mapping
      /\ \A p \in DOMAIN c.mapping : d.mapping[p] = c.mapping[p]
  BY <1>1, <1>2, <1>3
<1>6. Aligned(d, n + 1)
  <2>1. d.insertions \in SUBSET (0 .. n + 1 - 1)
    BY <1>2, <1>4
  <2>2. ASSUME NEW p \in 0 .. n + 1 - 1 PROVE p \in d.insertions \/ p \in 0 .. Len(found) - 1
    <3>1. p = n \/ p \in 0 .. n - 1
      OBVIOUS
    <3> QED
      BY <1>4, <3>1 DEF Aligned
  <2>3. ASSUME NEW q \in 0 .. Len(found) - 1
        PROVE  q \in d.deletions <=> q \in d.insertions \/ q >= n + 1
    <3>1. (q >= n <=> q = n \/ q >= n + 1) /\ n \notin c.insertions
      BY <1>2 DEF Aligned
    <3> QED
      BY <1>3, <1>4, <3>1 DEF Aligned
  <2> QED
    BY <1>3, <2>1, <2>2, <2>3 DEF Aligned
<1> QED
  BY <1>2, <1>4, <1>5, <1>6 DEF Leaves

\* The last row goes.
LEMMA EraseLastIs ==
    ASSUME NEW c, NEW n \in Nat, Aligned(c, n + 1), DOMAIN c.mapping \subseteq c.insertions,
           NEW d, d = EraseLast(c, n)
    PROVE  /\ Aligned(d, n) /\ DOMAIN d.mapping \subseteq d.insertions
           /\ \A p : p # n => Leaves(d, p, c)
<1>1. /\ DOMAIN d = DOMAIN c /\ d.moves = c.moves /\ d.insertions = c.insertions \ {n}
      /\ d.deletions = IF n \in c.insertions THEN c.deletions
                       ELSE c.deletions \cup {Shift(c.deletions, Unshift(c.insertions, n))}
      /\ DOMAIN d.mapping = DOMAIN c.mapping \ {n}
      /\ \A p \in DOMAIN c.mapping \ {n} : d.mapping[p] = c.mapping[p]
  BY DEF EraseLast, AddShifted, Aligned, NoChanges, WithoutKey, Restrict
<1>2. n \in c.insertions \/ Shift(c.deletions, Unshift(c.insertions, n)) = n
  BY n \in 0 .. n + 1 - 1, n + 1 \in Nat, Undisturbed
<1>3. d.deletions \in SUBSET Nat /\ IsFiniteSet(d.deletions)
  BY <1>1, <1>2, FS_AddElement DEF Aligned
<1>4. d.insertions \in SUBSET (0 .. n - 1)
  BY <1>1 DEF Aligned
<1>5. ASSUME NEW p \in 0 .. n - 1 PROVE p \in d.insertions \/ p \in 0 .. Len(found) - 1
  <2>1. p \in 0 .. n + 1 - 1 /\ p # n
    OBVIOUS
  <2> QED
    BY <1>1, <2>1 DEF Aligned
<1>6. ASSUME NEW q \in 0 .. Len(found) - 1
      PROVE  q \in d.deletions <=> q \in d.insertions \/ q >= n
  <2>1. q >= n <=> q = n \/ q >= n + 1
    OBVIOUS
  <2> QED
    BY <1>1, <1>2, <2>1 DEF Aligned
<1>7. Aligned(d, n)
  BY <1>1, <1>3, <1>4, <1>5, <1>6 DEF Aligned
<1> QED
  BY <1>1, <1>7 DEF Leaves

\* The last row takes the place of another one, which goes.
LEMMA MoveLastOverIs ==
    ASSUME NEW c, NEW n \in Nat, Aligned(c, n + 1), DOMAIN c.mapping \subseteq c.insertions,
           NEW row \in 0 .. n - 1, NEW d, d = MoveLastOver(c, row, n)
    PROVE  /\ Aligned(d, n) /\ DOMAIN d.mapping \subseteq d.insertions
           /\ Takes(d, row, c, n)
           /\ \A p : p # row /\ p # n => Leaves(d, p, c)
<1> DEFINE again == n \in c.insertions /\ Tracked(c, n)
           origin == Shift(c.deletions, Unshift(c.insertions, n))
           c1 == [c EXCEPT
               !.modifications =
                 (@ \ {row, n}) \cup (IF n \in @ THEN {row} ELSE {}),
               !.mapping = IF again THEN WithKey(WithoutKey(@, n), row, @[n])
                           ELSE IF row \in c.insertions THEN WithoutKey(@, row) ELSE @]
           c2 == IF n \in c.insertions THEN [c1 EXCEPT !.insertions = @ \ {n}]
                 ELSE [c1 EXCEPT !.deletions = @ \cup {origin},
                                 !.mapping = WithKey(@, row, origin)]
<1>1. d = IF row \in c.insertions THEN c2
          ELSE [c2 EXCEPT !.deletions = AddShifted(@, Unshift(c2.insertions, row)),
                          !.insertions = @ \cup {row}]
  BY DEF MoveLastOver
<1>2. n + 1 \in Nat /\ n \in 0 .. n + 1 - 1 /\ row \in 0 .. n + 1 - 1 /\ row \in Nat /\ row < n
  OBVIOUS
<1>3. n \notin c.insertions => origin = n
  BY <1>2, Undisturbed
<1> HIDE DEF origin
<1>4. /\ DOMAIN c1 = DOMAIN c /\ c1.moves = c.moves
      /\ c1.insertions = c.insertions /\ c1.deletions = c.deletions
      /\ c1.mapping = IF again THEN WithKey(WithoutKey(c.mapping, n), row, c.mapping[n])
                      ELSE IF row \in c.insertions THEN WithoutKey(c.mapping, row)
                      ELSE c.mapping
  BY DEF Aligned, NoChanges
<1> HIDE DEF c1
<1>5. /\ DOMAIN c2 = DOMAIN c /\ c2.moves = c.moves /\ c2.insertions = c.insertions \ {n}
      /\ c2.deletions = IF n \in c.insertions THEN c.deletions ELSE c.deletions \cup {n}
      /\ c2.mapping = IF n \in c.insertions THEN c1.mapping ELSE WithKey(c1.mapping, row, n)
  BY <1>3, <1>4 DEF Aligned, NoChanges
<1> HIDE DEF c2
<1>6. /\ DOMAIN d = DOMAIN c /\ d.moves = c.moves /\ d.mapping = c2.mapping
      /\ d.insertions = (c.insertions \ {n}) \cup {row}
      /\ d.deletions = IF row \in c.insertions THEN c2.deletions ELSE c2.deletions \cup {row}
  <2>1. CASE row \in c.insertions
    BY <1>1, <1>2, <1>5, <2>1
  <2>2. CASE row \notin c.insertions
    <3>1. row \notin c.deletions /\ row \in 0 .. Len(found) - 1
      BY <1>2, <2>2, Undisturbed
    <3>2. /\ c2.deletions \in SUBSET Nat /\ IsFiniteSet(c2.deletions)
          /\ c2.insertions \in SUBSET Nat /\ row \notin c2.deletions
      BY <1>2, <1>5, <3>1, FS_AddElement DEF Aligned
    <3>3. ASSUME NEW v \in Nat, v < row PROVE v \in c2.deletions <=> v \in c2.insertions
      <4>1. v # n /\ v \in 0 .. Len(found) - 1 /\ ~(v >= n + 1)
        BY <1>2, <3>1, <3>3 DEF Aligned
      <4> QED
        BY <1>5, <4>1 DEF Aligned
    <3>4. Shift(c2.deletions, Unshift(c2.insertions, row)) = row
      BY <1>2, <3>2, <3>3, PlaceKept
    <3> QED
      BY <1>1, <1>5, <2>2, <3>4 DEF AddShifted, Aligned, NoChanges
  <2> QED
    BY <2>1, <2>2
<1>7. d.deletions \in SUBSET Nat /\ IsFiniteSet(d.deletions)
  <2>1. c2.deletions \in SUBSET Nat /\ IsFiniteSet(c2.deletions)
    BY <1>5, FS_AddElement DEF Aligned
  <2> QED
    BY <1>2, <1>6, <2>1, FS_AddElement
<1>8. d.insertions \in SUBSET (0 .. n - 1)
  BY <1>6 DEF Aligned
<1>9. ASSUME NEW p \in 0 .. n - 1 PROVE p \in d.insertions \/ p \in 0 .. Len(found) - 1
  <2>1. p \in 0 .. n + 1 - 1 /\ p # n
    OBVIOUS
  <2> QED
    BY <1>6, <2>1 DEF Aligned
<1>10. ASSUME NEW q \in 0 .. Len(found) - 1
       PROVE  q \in d.deletions <=> q \in d.insertions \/ q >= n
  <2>1. (q >= n <=> q = n \/ q >= n + 1) /\ (q = row => ~(q >= n))
    BY <1>2
  <2>2. q \in c.deletions <=> q \in c.insertions \/ q >= n + 1
    BY DEF Aligned
  <2> QED
    BY <1>2, <1>5, <1>6, <2>1, <2>2
<1>11. Aligned(d, n)
  BY <1>6, <1>7, <1>8, <1>9, <1>10 DEF Aligned
<1>12. /\ row \in DOMAIN d.mapping <=> n \in DOMAIN c.mapping \/ n \notin c.insertions
       /\ n \in DOMAIN c.mapping => d.mapping[row] = c.mapping[n]
       /\ n \notin c.insertions => d.mapping[row] = n
       /\ \A p : p # row /\ p # n =>
            /\ p \in DOMAIN d.mapping <=> p \in DOMAIN c.mapping
            /\ p \in DOMAIN c.mapping => d.mapping[p] = c.mapping[p]
       /\ n \notin DOMAIN d.mapping
  <2>1. CASE again
    <3>1. d.mapping = WithKey(WithoutKey(c.mapping, n), row, c.mapping[n])
      BY <1>4, <1>5, <1>6, <2>1
    <3>2. /\ DOMAIN d.mapping = (DOMAIN c.mapping \ {n}) \cup {row}
          /\ d.mapping[row] = c.mapping[n]
          /\ \A p \in DOMAIN c.mapping \ {n} : p # row => d.mapping[p] = c.mapping[p]
      BY <3>1 DEF WithKey, WithoutKey, Restrict
    <3> QED
      BY <1>2, <2>1, <3>2 DEF Tracked
  <2>2. CASE ~again
    <3>1. /\ DOMAIN c1.mapping = DOMAIN c.mapping \ {row}
          /\ \A p \in DOMAIN c.mapping \ {row} : c1.mapping[p] = c.mapping[p]
      <4>1. CASE row \in c.insertions
        BY <1>4, <2>2, <4>1 DEF WithoutKey, Restrict
      <4>2. CASE row \notin c.insertions
        BY <1>4, <2>2, <4>2
      <4> QED
        BY <4>1, <4>2
    <3>2. n \notin DOMAIN c.mapping
      BY <2>2 DEF Tracked
    <3>3. CASE n \in c.insertions
      BY <1>2, <1>5, <1>6, <3>1, <3>2, <3>3
    <3>4. CASE n \notin c.insertions
      <4>1. /\ DOMAIN d.mapping = DOMAIN c1.mapping \cup {row} /\ d.mapping[row] = n
            /\ \A p \in DOMAIN c1.mapping : p # row => d.mapping[p] = c1.mapping[p]
        BY <1>5, <1>6, <3>4 DEF WithKey
      <4> QED
        BY <1>2, <3>1, <3>2, <3>4, <4>1
    <3> QED
      BY <3>3, <3>4
  <2> QED
    BY <2>1, <2>2
<1> HIDE DEF again
<1> QED
  BY <1>6, <1>11, <1>12 DEF Takes, Leaves

\* The ids of rows 0 .. n when the last one has taken the place of row.
LastOver(ids, row, n) == [p \in 0 .. n - 1 |-> IF p = row THEN ids[n] ELSE ids[p]]

OthersTraced(c, row, n, ids) == \A p \in 0 .. n : p # row => Traced(c, p, ids[p])

(* What comes of the log when a row is deleted, of which it need not tell   *)
(* the id. *)
LEMMA MoveOverTraces ==
    ASSUME NEW c, NEW n \in Nat, Aligned(c, n + 1), DOMAIN c.mapping \subseteq c.insertions,
           NEW row \in 0 .. n, NEW ids, OthersTraced(c, row, n, ids)
    PROVE  AllTraced(MoveOver(c, row, n), n, LastOver(ids, row, n))
<1> DEFINE d == MoveOver(c, row, n)
           ids2 == LastOver(ids, row, n)
<1>1. \A p \in 0 .. n : p # row => Traced(c, p, ids[p])
  BY DEF OthersTraced
<1>2. \A p \in 0 .. n - 1 : ids2[p] = IF p = row THEN ids[n] ELSE ids[p]
  BY DEF LastOver
<1> HIDE DEF ids2
<1>3. CASE row = n
  <2>1. d = EraseLast(c, n)
    BY <1>3 DEF MoveOver
  <2> HIDE DEF d
  <2>2. /\ Aligned(d, n) /\ DOMAIN d.mapping \subseteq d.insertions
        /\ \A p : p # n => Leaves(d, p, c)
    BY <2>1, EraseLastIs
  <2>3. ASSUME NEW p \in 0 .. n - 1 PROVE Traced(d, p, ids2[p])
    <3>1. p \in 0 .. n /\ p # n /\ ids2[p] = ids[p]
      BY <1>3, <1>2
    <3> QED
      BY <1>3, <1>1, <2>2, <3>1, LeavesTraces
  <2> QED
    BY <2>2, <2>3 DEF AllTraced, d, ids2
<1>4. CASE row # n
  <2>1. d = MoveLastOver(c, row, n) /\ row \in 0 .. n - 1
    BY <1>4 DEF MoveOver
  <2> HIDE DEF d
  <2>2. /\ Aligned(d, n) /\ DOMAIN d.mapping \subseteq d.insertions
        /\ Takes(d, row, c, n)
        /\ \A p : p # row /\ p # n => Leaves(d, p, c)
    BY <2>1, MoveLastOverIs
  <2>3. ASSUME NEW p \in 0 .. n - 1 PROVE Traced(d, p, ids2[p])
    <3>1. CASE p = row
      <4>1. Traced(c, n, ids[n]) /\ ids2[p] = ids[n]
        BY <1>4, <1>1, <1>2, <3>1
      <4> QED
        BY <2>2, <3>1, <4>1, TakesTraces
    <3>2. CASE p # row
      <4>1. Traced(c, p, ids[p]) /\ ids2[p] = ids[p] /\ p # n
        BY <1>1, <1>2, <3>2
      <4> QED
        BY <2>2, <3>2, <4>1, LeavesTraces
    <3> QED
      BY <3>1, <3>2
  <2> QED
    BY <2>2, <2>3 DEF AllTraced, d, ids2
<1> QED
  BY <1>3, <1>4

LEMMA SwapTraces ==
    ASSUME NEW c, NEW n \in Nat, NEW ids, AllTraced(c, n, ids),
           NEW i \in 0 .. n - 1, NEW j \in 0 .. n - 1, i # j,
           NEW ids2, ids2 = [p \in 0 .. n - 1 |->
             IF p = i THEN ids[j] ELSE IF p = j THEN ids[i] ELSE ids[p]]
    PROVE  AllTraced(Swap(c, i, j), n, ids2)
<1> DEFINE d == Swap(c, i, j)
<1>1. /\ Aligned(d, n) /\ DOMAIN d.mapping \subseteq d.insertions
      /\ Takes(d, i, c, j) /\ Takes(d, j, c, i)
      /\ \A p : p # i /\ p # j => Leaves(d, p, c)
  BY SwapIs DEF AllTraced
<1> HIDE DEF d
<1>2. ASSUME NEW p \in 0 .. n - 1 PROVE Traced(d, p, ids2[p])
  <2>1. CASE p = i
    BY <1>1, <2>1, TakesTraces DEF AllTraced
  <2>2. CASE p = j /\ p # i
    BY <1>1, <2>2, TakesTraces DEF AllTraced
  <2>3. CASE p # i /\ p # j
    <3>1. Traced(c, p, ids[p]) /\ ids2[p] = ids[p]
      BY <2>3 DEF AllTraced
    <3> QED
      BY <1>1, <2>3, <3>1, LeavesTraces
  <2> QED
    BY <2>1, <2>2, <2>3
<1> QED
  BY <1>1, <1>2 DEF AllTraced, d

\* A row that is new, of which nothing was told, takes the part of another one.
LEMMA SubsumeIs ==
    ASSUME NEW c, NEW n \in Nat, Aligned(c, n), DOMAIN c.mapping \subseteq c.insertions,
           NEW old \in 0 .. n - 1, NEW new \in 0 .. n - 1, old # new,
           new \in c.insertions, new \notin DOMAIN c.mapping,
           NEW d, d = Subsume(c, old, new)
    PROVE  /\ Aligned(d, n) /\ DOMAIN d.mapping \subseteq d.insertions
           /\ Takes(d, new, c, old)
           /\ \A p : p # old /\ p # new => Leaves(d, p, c)
<1> DEFINE c1 == [c EXCEPT !.modifications = IF old \in @ THEN @ \cup {new} ELSE @]
<1>2. old \notin c.insertions => Shift(c.deletions, Unshift(c.insertions, old)) = old
  BY Undisturbed
<1>3. Alike(c, c1)
  BY DEF Alike, Aligned, NoChanges
<1>4. d = IF Tracked(c, old)
          THEN [c1 EXCEPT !.mapping = WithKey(WithoutKey(@, old), new, @[old])]
          ELSE IF old \in c.insertions THEN c1
          ELSE [c1 EXCEPT !.mapping =
                  WithKey(@, new, Shift(c.deletions, Unshift(c.insertions, old)))]
  BY DEF Subsume
<1> HIDE DEF c1
<1>5. /\ DOMAIN d = DOMAIN c /\ d.insertions = c.insertions /\ d.deletions = c.deletions
      /\ d.moves = c.moves
      /\ d.mapping = IF Tracked(c, old)
                     THEN WithKey(WithoutKey(c.mapping, old), new, c.mapping[old])
                     ELSE IF old \in c.insertions THEN c.mapping
                     ELSE WithKey(c.mapping, new, old)
  BY <1>2, <1>3, <1>4 DEF Alike, Aligned, NoChanges
<1>6. Aligned(d, n)
  BY <1>5 DEF Aligned
<1>7. CASE Tracked(c, old)
  <2>1. /\ DOMAIN d.mapping = (DOMAIN c.mapping \ {old}) \cup {new}
        /\ d.mapping[new] = c.mapping[old]
        /\ \A p \in DOMAIN c.mapping \ {old} : p # new => d.mapping[p] = c.mapping[p]
    BY <1>5, <1>7 DEF WithKey, WithoutKey, Restrict
  <2> QED
    BY <1>5, <1>6, <1>7, <2>1 DEF Tracked, Takes, Leaves
<1>8. CASE ~Tracked(c, old) /\ old \in c.insertions
  BY <1>5, <1>6, <1>8 DEF Tracked, Takes, Leaves
<1>9. CASE old \notin c.insertions
  <2>1. d.mapping = WithKey(c.mapping, new, old) /\ old \notin DOMAIN c.mapping
    BY <1>5, <1>9 DEF Tracked
  <2>2. /\ DOMAIN d.mapping = DOMAIN c.mapping \cup {new} /\ d.mapping[new] = old
        /\ \A p \in DOMAIN c.mapping : p # new => d.mapping[p] = c.mapping[p]
    BY <2>1 DEF WithKey
  <2> QED
    BY <1>5, <1>6, <1>9, <2>1, <2>2 DEF Takes, Leaves
<1> QED
  BY <1>7, <1>8, <1>9

\* The ids of rows 0 .. n when the new row has taken that of the old one.
Renamed(ids, old, new, n) == [p \in 0 .. n |-> IF p = new THEN ids[old] ELSE ids[p]]

\* The old row is deleted, of which the new one has the id by then.
LEMMA MergeTraces ==
    ASSUME NEW c, NEW n \in Nat, NEW ids, AllTraced(c, n + 1, ids),
           NEW old \in 0 .. n, NEW new \in 0 .. n, old # new,
           new \in c.insertions, new \notin DOMAIN c.mapping
    PROVE  AllTraced(MoveOver(Subsume(c, old, new), old, n), n,
                     LastOver(Renamed(ids, old, new, n), old, n))
<1> DEFINE s == Subsume(c, old, new)
           ids1 == Renamed(ids, old, new, n)
<1>0. \A p \in 0 .. n : ids1[p] = IF p = new THEN ids[old] ELSE ids[p]
  BY DEF Renamed
<1> HIDE DEF ids1
<1>1. n + 1 \in Nat /\ 0 .. n = 0 .. n + 1 - 1
  OBVIOUS
<1>2. /\ Aligned(c, n + 1) /\ DOMAIN c.mapping \subseteq c.insertions
      /\ \A p \in 0 .. n : Traced(c, p, ids[p])
  BY <1>1 DEF AllTraced
<1>3. /\ Aligned(s, n + 1) /\ DOMAIN s.mapping \subseteq s.insertions
      /\ Takes(s, new, c, old)
      /\ \A p : p # old /\ p # new => Leaves(s, p, c)
  <2>1. old \in 0 .. n + 1 - 1 /\ new \in 0 .. n + 1 - 1
    BY <1>1
  <2> HIDE DEF s
  <2>2. s = Subsume(c, old, new)
    BY DEF s
  <2> QED
    BY <1>1, <1>2, <2>1, <2>2, SubsumeIs
<1> HIDE DEF s
<1>4. ASSUME NEW p \in 0 .. n, p # old PROVE Traced(s, p, ids1[p])
  <2>1. CASE p = new
    BY <1>0, <1>2, <1>3, <2>1, TakesTraces
  <2>2. CASE p # new
    BY <1>0, <1>2, <1>3, <1>4, <2>2, LeavesTraces
  <2> QED
    BY <2>1, <2>2
<1>5. OthersTraced(s, old, n, ids1)
  BY <1>4 DEF OthersTraced
<1>6. AllTraced(MoveOver(s, old, n), n, LastOver(ids1, old, n))
  BY <1>3, <1>5, MoveOverTraces
<1> QED
  BY <1>6 DEF s, ids1

-----------------------------------------------------------------------------
(* The inductive invariant *)

Row == [id : Nat, key : Nat]

\* Rows are told apart by their ids, which are given in turn.
Distinct(rows) ==
    /\ rows \in Seq(Row) /\ Len(rows) <= MaxRows
    /\ \A i \in DOMAIN rows : rows[i].id <= MaxRows + edits
    /\ \A i, j \in DOMAIN rows : rows[i].id = rows[j].id => i = j

IdsAt(rows) == [p \in 0 .. Len(rows) - 1 |-> RowAt(rows, p).id]

TraceInv ==
    /\ edits \in Nat /\ Distinct(table) /\ Distinct(found)
    /\ AllTraced(log, Len(table), IdsAt(table))

LEMMA PlacesAre ==
    ASSUME NEW n \in Nat
    PROVE  FirstRows(n) = 0 .. n - 1
  BY DEF FirstRows

LEMMA FoundAt ==
    ASSUME NEW rows, Distinct(rows), NEW q \in 0 .. Len(rows) - 1,
           NEW id, RowAt(rows, q).id = id
    PROVE  Holds(Ids(rows), id) /\ PlaceOf(Ids(rows), id) = q
<1> DEFINE ids == Ids(rows)
           same == {i \in 1 .. Len(ids) : ids[i] = id}
<1>1. /\ Len(rows) \in Nat /\ DOMAIN rows = 1 .. Len(rows) /\ rows[q + 1].id = id
  BY DEF Distinct, RowAt
<1>2. /\ Len(ids) = Len(rows) /\ \A i \in 1 .. Len(rows) : ids[i] = rows[i].id
  BY <1>1 DEF Ids
<1>3. q + 1 \in 1 .. Len(rows)
  BY <1>1
<1>4. same = {q + 1}
  BY <1>1, <1>2, <1>3 DEF Distinct
<1>5. PlaceOf(ids, id) = (IF same # {} THEN Min(same) ELSE 0) - 1
  BY DEF PlaceOf, SelectInSeq
<1> HIDE DEF ids, same
<1>6. Min(same) = q + 1
  BY <1>1, <1>4 DEF Min
<1>7. PlaceOf(ids, id) = q
  BY <1>1, <1>4, <1>5, <1>6
<1>8. Holds(ids, id)
  BY <1>1, <1>2, <1>3 DEF Holds, Contains
<1> QED
  BY <1>7, <1>8 DEF ids

LEMMA NotFoundAt ==
    ASSUME NEW rows, Distinct(rows), NEW id,
           \A q \in 0 .. Len(rows) - 1 : RowAt(rows, q).id # id
    PROVE  ~Holds(Ids(rows), id)
<1>1. Len(rows) \in Nat /\ DOMAIN rows = 1 .. Len(rows)
  BY DEF Distinct
<1>2. Len(Ids(rows)) = Len(rows) /\ \A i \in 1 .. Len(rows) : Ids(rows)[i] = rows[i].id
  BY <1>1 DEF Ids
<1>3. ASSUME NEW i \in 1 .. Len(rows), rows[i].id = id PROVE FALSE
  <2>1. i - 1 \in 0 .. Len(rows) - 1 /\ (i - 1) + 1 = i
    BY <1>1
  <2> QED
    BY <1>3, <2>1 DEF RowAt
<1> QED
  BY <1>2, <1>3 DEF Holds, Contains

\* What the steps and the properties take from the invariant.
LEMMA TableFacts ==
    ASSUME TraceInv
    PROVE  /\ Len(table) \in Nat /\ table \in Seq(Row) /\ DOMAIN table = 1 .. Len(table)
           /\ edits \in Nat /\ MaxRows \in Nat /\ Len(table) <= MaxRows
           /\ \A i \in 1 .. Len(table) : /\ table[i] \in Row /\ table[i].id \in Nat
                                         /\ table[i].id <= MaxRows + edits
                                         /\ table[i].id <= MaxRows + edits + 1
           /\ \A i, j \in 1 .. Len(table) : table[i].id = table[j].id => i = j
           /\ Places(table) = 0 .. Len(table) - 1
           /\ \A p \in 0 .. Len(table) - 1 : RowAt(table, p) = table[p + 1]
           /\ Keys \subseteq Nat
           /\ Aligned(log, Len(table)) /\ DOMAIN log.mapping \subseteq log.insertions
           /\ \A p \in 0 .. Len(table) - 1 : Traced(log, p, table[p + 1].id)
<1>1. /\ Len(table) \in Nat /\ table \in Seq(Row) /\ DOMAIN table = 1 .. Len(table)
      /\ edits \in Nat /\ MaxRows \in Nat /\ Len(table) <= MaxRows
  BY ResultChangesAssumption DEF TraceInv, Distinct
<1>2. \A i \in 1 .. Len(table) : table[i] \in Row /\ table[i].id \in Nat
  <2>1. \A i \in 1 .. Len(table) : table[i] \in Row
    BY <1>1
  <2> QED
    BY <2>1 DEF Row
<1>3. \A i \in 1 .. Len(table) : /\ table[i].id <= MaxRows + edits
                                 /\ table[i].id <= MaxRows + edits + 1
  BY <1>1, <1>2 DEF TraceInv, Distinct
<1>4. \A i, j \in 1 .. Len(table) : table[i].id = table[j].id => i = j
  BY <1>1 DEF TraceInv, Distinct
<1>5. /\ Places(table) = 0 .. Len(table) - 1
      /\ \A p \in 0 .. Len(table) - 1 : RowAt(table, p) = table[p + 1]
  BY <1>1, PlacesAre DEF Places, RowAt
<1>6. Keys \subseteq Nat
  BY ResultChangesAssumption DEF Keys
<1>7. /\ Aligned(log, Len(table)) /\ DOMAIN log.mapping \subseteq log.insertions
      /\ \A p \in 0 .. Len(table) - 1 : Traced(log, p, table[p + 1].id)
  BY <1>5 DEF TraceInv, AllTraced, IdsAt
<1> QED
  BY <1>1, <1>2, <1>3, <1>4, <1>5, <1>6, <1>7

\* Rows in two places have two ids, and one origin at most.
LEMMA OneOrigin ==
    ASSUME TraceInv
    PROVE  /\ Len(found) \in Nat /\ Places(found) = 0 .. Len(found) - 1
           /\ \A p, k \in 0 .. Len(table) - 1 :
                RowAt(table, p).id = RowAt(table, k).id => p = k
           /\ \A q, r, id : From(q, id) /\ From(r, id) => q = r
<1>1. Len(found) \in Nat /\ Places(found) = 0 .. Len(found) - 1 /\ Distinct(found)
  BY PlacesAre DEF TraceInv, Distinct, Places
<1>2. ASSUME NEW p \in 0 .. Len(table) - 1, NEW k \in 0 .. Len(table) - 1,
             RowAt(table, p).id = RowAt(table, k).id
      PROVE  p = k
  <2>1. p + 1 \in 1 .. Len(table) /\ k + 1 \in 1 .. Len(table)
    BY TableFacts
  <2>2. p + 1 = k + 1
    BY <1>2, <2>1, TableFacts
  <2> QED
    BY <2>2
<1>3. ASSUME NEW q, NEW r, NEW id, From(q, id), From(r, id) PROVE q = r
  <2>1. q \in 0 .. Len(found) - 1 /\ r \in 0 .. Len(found) - 1
        /\ RowAt(found, q).id = id /\ RowAt(found, r).id = id
    BY <1>3 DEF From
  <2> QED
    BY <1>1, <2>1, FoundAt
<1> QED
  BY <1>1, <1>2, <1>3

-----------------------------------------------------------------------------
(* What the invariant says of the rows *)

LEMMA OriginsTold == TraceInv => OriginsAreTold
<1> SUFFICES ASSUME TraceInv, NEW p \in Places(table)
             PROVE  LET id == RowAt(table, p).id
                        origin == IF p \in DOMAIN log.mapping THEN log.mapping[p]
                                  ELSE IF p \in log.insertions THEN Npos
                                  ELSE Shift(log.deletions, Unshift(log.insertions, p))
                    IN  IF Holds(Ids(found), id) THEN origin = PlaceOf(Ids(found), id)
                        ELSE origin = Npos
  BY DEF OriginsAreTold
<1> DEFINE id == RowAt(table, p).id
<1>1. /\ Distinct(found) /\ p \in 0 .. Len(table) - 1 /\ Len(table) \in Nat
      /\ Aligned(log, Len(table)) /\ DOMAIN log.mapping \subseteq log.insertions
      /\ Traced(log, p, id)
  BY TableFacts DEF TraceInv
<1> HIDE DEF id
<1>2. \A q : From(q, id) => Holds(Ids(found), id) /\ PlaceOf(Ids(found), id) = q
  BY <1>1, FoundAt DEF From
<1>3. CASE p \in DOMAIN log.mapping
  BY <1>1, <1>2, <1>3 DEF Traced, id
<1>4. CASE p \notin DOMAIN log.mapping /\ p \in log.insertions
  <2>1. \A q : ~From(q, id)
    BY <1>1, <1>4 DEF Traced
  <2>2. ~Holds(Ids(found), id)
    BY <1>1, <2>1, NotFoundAt DEF From
  <2> QED
    BY <1>4, <2>2 DEF id
<1>5. CASE p \notin log.insertions
  <2>1. From(p, id) /\ p \notin DOMAIN log.mapping
    BY <1>1, <1>5 DEF Traced
  <2>2. Shift(log.deletions, Unshift(log.insertions, p)) = p
    BY <1>1, <1>5, Undisturbed
  <2> QED
    BY <1>2, <1>5, <2>1, <2>2 DEF id
<1> QED
  BY <1>3, <1>4, <1>5

\* The moves are put in order without one being lost.
LEMMA ByOriginIs ==
    ASSUME NEW S, IsFiniteSet(S), \A m \in S : m.from \in Nat,
           \A m, k \in S : m.from = k.from => m = k
    PROVE  /\ Len(ByOrigin(S)) = Cardinality(S) /\ Cardinality(S) \in Nat
           /\ \A i \in 1 .. Cardinality(S) : ByOrigin(S)[i] \in S
           /\ \A i, j \in 1 .. Cardinality(S) : ByOrigin(S)[i] = ByOrigin(S)[j] => i = j
           /\ \A m \in S : \E i \in 1 .. Cardinality(S) : ByOrigin(S)[i] = m
<1> DEFINE size == Cardinality(S)
           before(m) == {k \in S : k.from < m.from}
           rank(m) == Cardinality(before(m))
           rankOf == [m \in S |-> rank(m)]
<1>1. size \in Nat
  BY FS_CardinalityType
<1>2. ASSUME NEW m \in S
      PROVE  IsFiniteSet(before(m)) /\ rank(m) \in 0 .. size - 1
  <2>1. before(m) \in SUBSET S /\ m \notin before(m)
    OBVIOUS
  <2> HIDE DEF before
  <2>2. IsFiniteSet(before(m)) /\ rank(m) <= size /\ (rank(m) = size => before(m) = S)
    BY <2>1, FS_Subset
  <2>3. rank(m) # size /\ rank(m) \in Nat
    BY <2>1, <2>2, FS_CardinalityType
  <2> HIDE DEF rank, size
  <2> QED
    BY <1>1, <2>2, <2>3
<1>3. ASSUME NEW m \in S, NEW k \in S, m.from < k.from PROVE rank(m) < rank(k)
  <2>1. before(m) \in SUBSET before(k) /\ m \in before(k) /\ m \notin before(m)
    BY <1>3
  <2> HIDE DEF before
  <2>2. rank(m) <= rank(k) /\ rank(m) # rank(k)
    BY <1>2, <2>1, FS_Subset
  <2>3. rank(m) \in Nat /\ rank(k) \in Nat
    BY <1>2, FS_CardinalityType
  <2> HIDE DEF rank
  <2> QED
    BY <2>2, <2>3
<1> HIDE DEF size, before, rank
<1>4. \A m \in S : rank(m) \in 0 .. size - 1
  BY <1>2
<1>5. \A m, k \in S : rank(m) = rank(k) => m = k
  <2> SUFFICES ASSUME NEW m \in S, NEW k \in S, rank(m) = rank(k) PROVE m = k
    OBVIOUS
  <2>1. rank(m) \in Int
    BY <1>1, <1>4
  <2>2. ~(m.from < k.from) /\ ~(k.from < m.from)
    BY <1>3, <2>1
  <2>3. m.from = k.from
    BY <2>2
  <2> QED
    BY <2>3
<1>6. rankOf \in Surjection(S, 0 .. size - 1)
  <2>1. rankOf \in Injection(S, 0 .. size - 1)
    BY <1>2, <1>5 DEF Injection, IsInjective
  <2>2. IsFiniteSet(0 .. size - 1) /\ Cardinality(0 .. size - 1) = size
    BY <1>1, FS_Interval, size - 1 \in Int
  <2> HIDE DEF rankOf
  <2> QED
    BY <2>1, <2>2, FS_Injection DEF size
<1>7. \A r \in 0 .. size - 1 : \E m \in S : rank(m) = r
  BY <1>6 DEF Surjection
<1>8. ByOrigin(S) = [i \in 1 .. size |-> CHOOSE m \in S : rank(m) = i - 1]
  BY DEF ByOrigin, rank, before, size
<1>9. ASSUME NEW i \in 1 .. size
      PROVE  ByOrigin(S)[i] \in S /\ rank(ByOrigin(S)[i]) = i - 1
  <2>1. i - 1 \in 0 .. size - 1
    BY <1>1
  <2> QED
    BY <1>7, <1>8, <2>1
<1>10. ASSUME NEW m \in S PROVE \E i \in 1 .. size : ByOrigin(S)[i] = m
  <2>1. rank(m) + 1 \in 1 .. size /\ (rank(m) + 1) - 1 = rank(m)
    BY <1>1, <1>4
  <2>2. ByOrigin(S)[rank(m) + 1] \in S /\ rank(ByOrigin(S)[rank(m) + 1]) = rank(m)
    BY <1>9, <2>1
  <2> QED
    BY <1>5, <2>1, <2>2
<1>11. Len(ByOrigin(S)) = size
  BY <1>1, <1>8
<1>12. ASSUME NEW i \in 1 .. size, NEW j \in 1 .. size, ByOrigin(S)[i] = ByOrigin(S)[j]
       PROVE  i = j
  <2>1. i - 1 = j - 1
    BY <1>9, <1>12
  <2> QED
    BY <1>1, <2>1
<1> QED
  BY <1>1, <1>9, <1>10, <1>11, <1>12 DEF size

\* What becomes of a log when it has been read.
LEMMA ParsedIs ==
    ASSUME TraceInv, NEW c, c = ParseComplete(log)
    PROVE  LET back == {k \in DOMAIN log.mapping : log.mapping[k] = k}
           IN  /\ c.deletions = log.deletions \ back /\ c.insertions = log.insertions \ back
               /\ Len(c.moves) \in Nat
               /\ \A i \in 1 .. Len(c.moves) :
                    /\ c.moves[i].to \in DOMAIN log.mapping \ back
                    /\ c.moves[i].from = log.mapping[c.moves[i].to]
               /\ \A i, j \in 1 .. Len(c.moves) : c.moves[i].from = c.moves[j].from => i = j
               /\ \A k \in DOMAIN log.mapping \ back :
                    \E i \in 1 .. Len(c.moves) : c.moves[i].from = log.mapping[k]
<1> DEFINE back == {k \in DOMAIN log.mapping : log.mapping[k] = k}
           moved == DOMAIN log.mapping \ back
           move == [k \in moved |-> [from |-> log.mapping[k], to |-> k]]
           away == {[from |-> log.mapping[k], to |-> k] : k \in DOMAIN log.mapping \ back}
<1>1. Aligned(log, Len(table)) /\ DOMAIN log.mapping \subseteq log.insertions
      /\ Len(table) \in Nat
  BY TableFacts
<1>2. ToSet(<< >>) \cup away = away
  BY DEF ToSet
<1>3. c = [log EXCEPT !.deletions = @ \ back, !.insertions = @ \ back,
                      !.moves = ByOrigin(ToSet(@) \cup away), !.mapping = << >>]
  BY DEF ParseComplete
<1> HIDE DEF away
<1>4. /\ c.deletions = log.deletions \ back /\ c.insertions = log.insertions \ back
      /\ c.moves = ByOrigin(away)
  <2> HIDE DEF back
  <2> QED
    BY <1>1, <1>2, <1>3 DEF Aligned, NoChanges
<1>5. IsFiniteSet(moved)
  <2>1. moved \in SUBSET (0 .. Len(table) - 1)
    BY <1>1 DEF Aligned
  <2>2. IsFiniteSet(0 .. Len(table) - 1)
    BY <1>1, FS_Interval, Len(table) - 1 \in Int
  <2> HIDE DEF moved
  <2> QED
    BY <2>1, <2>2, FS_Subset
<1>6. IsFiniteSet(away)
  <2>1. move \in Surjection(moved, away)
    BY DEF Surjection, away
  <2> HIDE DEF move, moved
  <2> QED
    BY <1>5, <2>1, FS_Surjection
<1>7. ASSUME NEW k \in DOMAIN log.mapping
      PROVE  /\ k \in 0 .. Len(table) - 1
             /\ From(log.mapping[k], RowAt(table, k).id) /\ log.mapping[k] \in Nat
  <2>1. k \in 0 .. Len(table) - 1 /\ k \in log.insertions
    BY <1>1 DEF Aligned
  <2>2. Traced(log, k, RowAt(table, k).id)
    BY <2>1, TableFacts
  <2>3. From(log.mapping[k], RowAt(table, k).id)
    BY <2>1, <2>2 DEF Traced
  <2> QED
    BY <2>1, <2>3, OneOrigin DEF From
<1>8. \A k, l \in DOMAIN log.mapping : log.mapping[k] = log.mapping[l] => k = l
  <2> SUFFICES ASSUME NEW k \in DOMAIN log.mapping, NEW l \in DOMAIN log.mapping,
                      log.mapping[k] = log.mapping[l]
               PROVE  k = l
    OBVIOUS
  <2>1. RowAt(table, k).id = RowAt(table, l).id
    BY <1>7 DEF From
  <2> QED
    BY <1>7, <2>1, OneOrigin
<1>9. /\ \A m \in away : m.to \in moved /\ m.from = log.mapping[m.to]
      /\ \A k \in moved : \E m \in away : m.from = log.mapping[k]
  <2>1. ASSUME NEW k \in moved PROVE \E m \in away : m.from = log.mapping[k]
    <3>1. [from |-> log.mapping[k], to |-> k] \in away
      BY DEF away
    <3> QED
      BY <3>1
  <2>2. \A m \in away : m.to \in moved /\ m.from = log.mapping[m.to]
    BY DEF away
  <2> QED
    BY <2>1, <2>2
<1>10. /\ \A m \in away : m.from \in Nat
       /\ \A m, l \in away : m.from = l.from => m = l
  BY <1>7, <1>8 DEF away
<1>11. /\ Len(c.moves) \in Nat
       /\ \A i \in 1 .. Len(c.moves) : c.moves[i] \in away
       /\ \A i, j \in 1 .. Len(c.moves) : c.moves[i] = c.moves[j] => i = j
       /\ \A m \in away : \E i \in 1 .. Len(c.moves) : c.moves[i] = m
  BY <1>4, <1>6, <1>10, ByOriginIs
<1> HIDE DEF back
<1>12. /\ \A i \in 1 .. Len(c.moves) :
            /\ c.moves[i].to \in DOMAIN log.mapping \ back
            /\ c.moves[i].from = log.mapping[c.moves[i].to]
       /\ \A i, j \in 1 .. Len(c.moves) : c.moves[i].from = c.moves[j].from => i = j
       /\ \A k \in DOMAIN log.mapping \ back :
            \E i \in 1 .. Len(c.moves) : c.moves[i].from = log.mapping[k]
  BY <1>9, <1>10, <1>11
<1> QED
  BY <1>4, <1>11, <1>12 DEF back

LEMMA RowsLocated == TraceInv => RowsAreLocated
<1> SUFFICES ASSUME TraceInv, NEW q \in Places(found)
             PROVE  Located(ParseComplete(log), q) =
                      IF Holds(Ids(table), RowAt(found, q).id)
                      THEN PlaceOf(Ids(table), RowAt(found, q).id) ELSE Npos
  BY DEF RowsAreLocated
<1> DEFINE id == RowAt(found, q).id
           c == ParseComplete(log)
           back == {k \in DOMAIN log.mapping : log.mapping[k] = k}
           hits == {i \in 1 .. Len(c.moves) : c.moves[i].from = q}
           n == Len(table)
<1>1. /\ Len(found) \in Nat /\ q \in 0 .. Len(found) - 1 /\ From(q, id)
      /\ n \in Nat /\ Distinct(table) /\ Aligned(log, n)
      /\ DOMAIN log.mapping \subseteq log.insertions
  BY OneOrigin, TableFacts DEF From, TraceInv
<1>2. \A p \in 0 .. n - 1 : Traced(log, p, RowAt(table, p).id)
  BY TableFacts
<1>3. /\ c.deletions = log.deletions \ back /\ c.insertions = log.insertions \ back
      /\ Len(c.moves) \in Nat
      /\ \A i \in 1 .. Len(c.moves) : /\ c.moves[i].to \in DOMAIN log.mapping \ back
                                      /\ c.moves[i].from = log.mapping[c.moves[i].to]
      /\ \A i, j \in 1 .. Len(c.moves) : c.moves[i].from = c.moves[j].from => i = j
      /\ \A k \in DOMAIN log.mapping \ back :
           \E i \in 1 .. Len(c.moves) : c.moves[i].from = log.mapping[k]
  BY ParsedIs
<1>4. Located(c, q) =
        IF q \in c.deletions
        THEN LET moved == IF hits # {} THEN Min(hits) ELSE 0
             IN  IF moved = 0 THEN Npos ELSE c.moves[moved].to
        ELSE Shift(c.insertions, Unshift(c.deletions, q))
  BY DEF Located, SelectInSeq
<1> HIDE DEF c, id, n, back
<1>5. \A k \in DOMAIN log.mapping : k \in 0 .. n - 1 /\ k \in log.insertions
  BY <1>1 DEF Aligned
<1>6. \A p \in 0 .. n - 1 : RowAt(table, p).id = id =>
        Holds(Ids(table), id) /\ PlaceOf(Ids(table), id) = p
  BY <1>1, FoundAt DEF n
<1>7. CASE q \in c.deletions
  <2>1. ASSUME hits # {}
        PROVE  \E p \in 0 .. n - 1 : RowAt(table, p).id = id /\ Located(c, q) = p
    <3>1. Min(hits) \in hits
      <4>1. PICK i : hits = {i} /\ i \in Nat
        BY <1>3, <2>1
      <4> HIDE DEF hits
      <4>2. i \in hits /\ \A x \in hits : i <= x
        BY <4>1
      <4>3. \E x \in hits : \A y \in hits : x <= y
        BY <4>2
      <4>4. Min(hits) = CHOOSE x \in hits : \A y \in hits : x <= y
        BY DEF Min
      <4> QED
        BY <4>3, <4>4
    <3>2. Min(hits) \in 1 .. Len(c.moves) /\ c.moves[Min(hits)].from = q /\ Min(hits) # 0
      BY <1>3, <3>1
    <3> DEFINE p == c.moves[Min(hits)].to
    <3>3. p \in DOMAIN log.mapping /\ log.mapping[p] = q
      BY <1>3, <3>2
    <3>4. From(q, RowAt(table, p).id) /\ p \in 0 .. n - 1
      BY <1>2, <1>5, <3>3 DEF Traced
    <3>5. RowAt(table, p).id = id
      BY <1>1, <3>4 DEF From
    <3>6. Located(c, q) = p
      BY <1>4, <1>7, <2>1, <3>2
    <3> QED
      BY <3>4, <3>5, <3>6
  <2>2. ASSUME hits = {}
        PROVE  Located(c, q) = Npos /\ \A p \in 0 .. n - 1 : RowAt(table, p).id # id
    <3>1. Located(c, q) = Npos
      BY <1>4, <1>7, <2>2
    <3>2. ASSUME NEW p \in 0 .. n - 1, RowAt(table, p).id = id PROVE FALSE
      <4>1. CASE p \in DOMAIN log.mapping
        <5>1. From(log.mapping[p], id)
          BY <1>2, <1>5, <3>2, <4>1 DEF Traced
        <5>2. log.mapping[p] = q
          BY <1>1, <5>1, OneOrigin
        <5>3. p \in back
          BY <1>3, <2>2, <4>1, <5>2
        <5>4. p = q
          BY <5>2, <5>3 DEF back
        <5> QED
          BY <1>3, <1>7, <5>3, <5>4
      <4>2. CASE p \notin DOMAIN log.mapping /\ p \in log.insertions
        BY <1>1, <1>2, <3>2, <4>2 DEF Traced
      <4>3. CASE p \notin log.insertions
        <5>1. From(p, id)
          BY <1>1, <1>2, <3>2, <4>3 DEF Traced
        <5>2. p = q
          BY <1>1, <5>1, OneOrigin
        <5> QED
          BY <1>1, <1>3, <1>7, <4>3, <5>2, Undisturbed
      <4> QED
        BY <4>1, <4>2, <4>3
    <3> QED
      BY <3>1, <3>2
  <2>3. CASE hits # {}
    BY <1>6, <2>1, <2>3 DEF c, id
  <2>4. CASE hits = {}
    BY <1>1, <2>2, <2>4, NotFoundAt DEF c, id, n
  <2> QED
    BY <2>3, <2>4
<1>8. CASE q \notin c.deletions
  <2>1. /\ q \in 0 .. n - 1 /\ RowAt(table, q).id = id /\ q \notin c.insertions
    <3>1. CASE q \in back
      <4>1. q \in 0 .. n - 1 /\ log.mapping[q] = q /\ q \in DOMAIN log.mapping
        BY <1>5, <3>1 DEF back
      <4>2. From(q, RowAt(table, q).id)
        BY <1>2, <1>5, <4>1 DEF Traced
      <4> QED
        BY <1>1, <1>3, <3>1, <4>1, <4>2 DEF From
    <3>2. CASE q \notin back
      <4>1. q \notin log.deletions
        BY <1>3, <1>8, <3>2
      <4>2. q \notin log.insertions /\ ~(q >= n)
        BY <1>1, <4>1 DEF Aligned
      <4>3. q \in 0 .. n - 1 /\ q \notin DOMAIN log.mapping
        BY <1>1, <4>2
      <4>4. From(q, RowAt(table, q).id)
        BY <1>2, <4>2, <4>3 DEF Traced
      <4> QED
        BY <1>1, <1>3, <4>2, <4>3, <4>4 DEF From
    <3> QED
      BY <3>1, <3>2
  <2>2. Shift(c.insertions, Unshift(c.deletions, q)) = q
    <3>1. ASSUME NEW v \in Nat, v < q PROVE v \in c.insertions <=> v \in c.deletions
      <4>1. v \in 0 .. Len(found) - 1 /\ ~(v >= n)
        BY <1>1, <2>1, <3>1
      <4> QED
        BY <1>1, <1>3, <4>1 DEF Aligned
    <3>2. log.insertions \in SUBSET Nat /\ IsFiniteSet(log.insertions)
      <4>1. log.insertions \in SUBSET (0 .. n - 1)
        BY <1>1 DEF Aligned
      <4>2. IsFiniteSet(0 .. n - 1)
        BY <1>1, FS_Interval, n - 1 \in Int
      <4>3. IsFiniteSet(log.insertions)
        BY <4>1, <4>2, FS_Subset
      <4>4. \A v \in 0 .. n - 1 : v \in Nat
        BY <1>1
      <4> QED
        BY <4>1, <4>3, <4>4
    <3>3. c.insertions \in SUBSET Nat /\ IsFiniteSet(c.insertions)
      BY <1>3, <3>2, FS_Subset
    <3>4. c.deletions \in SUBSET Nat
      BY <1>1, <1>3 DEF Aligned
    <3>5. q \in Nat \ c.insertions
      BY <2>1
    <3> QED
      BY <3>1, <3>3, <3>4, <3>5, PlaceKept
  <2> QED
    BY <1>4, <1>6, <1>8, <2>1, <2>2 DEF c, id
<1> QED
  BY <1>7, <1>8

LEMMA InvTells == TraceInv => RowsAreTraced
  BY OriginsTold, RowsLocated DEF RowsAreTraced

\* A run begins a new log: every row is where it was found.
LEMMA EmptyTraces == Distinct(found) => AllTraced(NoChanges, Len(found), IdsAt(found))
<1> SUFFICES ASSUME Distinct(found)
             PROVE  AllTraced(NoChanges, Len(found), IdsAt(found))
  OBVIOUS
<1>1. Len(found) \in Nat
  BY DEF Distinct
<1>2. /\ NoChanges.deletions = {} /\ NoChanges.insertions = {}
      /\ DOMAIN NoChanges.mapping = {} /\ NoChanges.moves = << >> /\ IsFiniteSet({})
  BY FS_EmptySet DEF NoChanges
<1>3. Aligned(NoChanges, Len(found))
  BY <1>1, <1>2 DEF Aligned
<1>4. ASSUME NEW p \in 0 .. Len(found) - 1 PROVE Traced(NoChanges, p, IdsAt(found)[p])
  BY <1>2 DEF Traced, From, IdsAt
<1> QED
  BY <1>2, <1>3, <1>4 DEF AllTraced

-----------------------------------------------------------------------------
(* The steps *)

LEMMA InitTraced == Init => TraceInv
<1> SUFFICES ASSUME Init PROVE TraceInv
  OBVIOUS
<1>1. Keys \subseteq Nat
  BY ResultChangesAssumption DEF Keys
<1>2. PICK size \in 0 .. MaxRows - 1 : \E keys \in [1 .. size -> Keys] :
        table = [p \in 1 .. size |-> [id |-> p, key |-> keys[p]]]
  BY DEF Init
<1>3. PICK keys \in [1 .. size -> Keys] :
        table = [p \in 1 .. size |-> [id |-> p, key |-> keys[p]]]
  BY <1>2
<1>4. edits = 0 /\ found = table /\ log = NoChanges /\ size \in Nat /\ size <= MaxRows
  BY ResultChangesAssumption DEF Init
<1>5. Distinct(table)
  <2>1. ASSUME NEW p \in 1 .. size PROVE [id |-> p, key |-> keys[p]] \in Row
    <3>1. p \in Nat
      BY <1>4
    <3>2. keys[p] \in Keys
      BY <1>3
    <3>3. keys[p] \in Nat
      BY <1>1, <3>2
    <3> QED
      BY <3>1, <3>3 DEF Row
  <2>2. table \in [1 .. size -> Row]
    BY <1>3, <2>1
  <2>3. table \in Seq(Row) /\ DOMAIN table = 1 .. size
    BY <1>4, <2>2
  <2>4. \A p \in 1 .. size : table[p].id = p
    BY <1>3
  <2> QED
    BY <1>4, <2>3, <2>4, ResultChangesAssumption DEF Distinct
<1> QED
  BY <1>4, <1>5, EmptyTraces DEF TraceInv, Distinct

(* What a change of the table has to show: its rows are still told apart,   *)
(* and the log accounts for them.  The table of the last run stays. *)
LEMMA EditTraces ==
    ASSUME TraceInv, NEW newTable, NEW newLog, NEW modified,
           Edit(newTable, newLog, modified),
           newTable \in Seq(Row), Len(newTable) <= MaxRows,
           \A i \in DOMAIN newTable : newTable[i].id <= MaxRows + edits + 1,
           \A i, j \in DOMAIN newTable : newTable[i].id = newTable[j].id => i = j,
           AllTraced(newLog, Len(newTable), IdsAt(newTable))
    PROVE  TraceInv'
<1>1. /\ table' = newTable /\ log' = newLog /\ found' = found
      /\ edits' = edits + 1 /\ edits' \in Nat
  BY DEF Edit, TraceInv
<1>2. \A x \in Nat : x <= MaxRows + edits => x <= MaxRows + edits'
  BY <1>1, ResultChangesAssumption DEF TraceInv
<1>3. Distinct(found)'
  <2>1. Distinct(found)
    BY DEF TraceInv
  <2>2. ASSUME NEW i \in DOMAIN found PROVE found[i].id <= MaxRows + edits'
    <3>1. found[i] \in Row
      BY <2>1 DEF Distinct
    <3>2. found[i].id \in Nat /\ found[i].id <= MaxRows + edits
      BY <2>1, <3>1 DEF Distinct, Row
    <3> QED
      BY <1>2, <3>2
  <2> QED
    BY <1>1, <2>1, <2>2 DEF Distinct
<1>4. Distinct(table)'
  <2>1. MaxRows + edits' = MaxRows + edits + 1
    BY <1>1, ResultChangesAssumption DEF TraceInv
  <2> QED
    BY <1>1, <2>1 DEF Distinct
<1>5. AllTraced(log, Len(table), IdsAt(table))'
  BY <1>1 DEF AllTraced, Traced, From, Aligned, IdsAt
<1> QED
  BY <1>1, <1>3, <1>4, <1>5 DEF TraceInv

LEMMA AddRowTraced ==
    ASSUME TraceInv, NEW key \in Keys, AddRow(key)
    PROVE  TraceInv'
<1> DEFINE n == Len(table)
           new == [id |-> NewId, key |-> key]
           grown == Append(table, new)
           d == Modify(Insert(log, n), n)
<1>0. n \in Nat /\ \A i \in 1 .. n + 1 : i \in 1 .. n \/ i = n + 1
  <2>1. n \in Nat
    BY TableFacts
  <2> HIDE DEF n
  <2> QED
    BY <2>1
<1>1. Edit(grown, d, {}) /\ n + 1 <= MaxRows
  BY TableFacts DEF AddRow
<1>2. new \in Row /\ new.id = MaxRows + edits + 1
  BY TableFacts DEF NewId, Row
<1>3. /\ grown \in Seq(Row) /\ Len(grown) = n + 1 /\ DOMAIN grown = 1 .. n + 1
      /\ grown[n + 1] = new /\ \A i \in 1 .. n : grown[i] = table[i]
  BY <1>2, TableFacts
<1>4. /\ Aligned(d, n + 1) /\ DOMAIN d.mapping \subseteq d.insertions
      /\ n \in d.insertions /\ n \notin DOMAIN d.mapping
      /\ \A p : p # n => Leaves(d, p, log)
  BY AddIs, TableFacts
<1> HIDE DEF new, grown, d
<1>5. \A q : ~From(q, MaxRows + edits + 1)
  <2> SUFFICES ASSUME NEW q, From(q, MaxRows + edits + 1) PROVE FALSE
    OBVIOUS
  <2>1. Len(found) \in Nat /\ DOMAIN found = 1 .. Len(found)
    BY DEF TraceInv, Distinct
  <2>2. q + 1 \in DOMAIN found /\ found[q + 1].id = MaxRows + edits + 1
    BY <2>1 DEF From, RowAt
  <2> QED
    BY <2>2, TableFacts DEF TraceInv, Distinct, Row
<1>6. AllTraced(d, n + 1, IdsAt(grown))
  <2>1. ASSUME NEW p \in 0 .. n PROVE Traced(d, p, IdsAt(grown)[p])
    <3>1. IdsAt(grown)[p] = grown[p + 1].id
      BY <1>3, TableFacts DEF IdsAt, RowAt
    <3>2. CASE p = n
      BY <1>2, <1>3, <1>4, <1>5, <3>1, <3>2, TableFacts DEF Traced
    <3>3. CASE p # n
      <4>1. p \in 0 .. n - 1 /\ p + 1 \in 1 .. n
        <5> HIDE DEF n
        <5> QED
          BY <1>0, <3>3
      <4>2. Traced(log, p, table[p + 1].id)
        BY <4>1, TableFacts
      <4> QED
        BY <1>3, <1>4, <3>1, <3>3, <4>1, <4>2, LeavesTraces
    <3> QED
      BY <3>2, <3>3
  <2>2. (n + 1) - 1 = n
    BY TableFacts
  <2> QED
    BY <1>4, <2>1, <2>2 DEF AllTraced
<1>7. \A i \in 1 .. n : table[i].id # MaxRows + edits + 1
  BY TableFacts
<1>8. \A i, j \in 1 .. n + 1 : grown[i].id = grown[j].id => i = j
  BY <1>0, <1>2, <1>3, <1>7, TableFacts
<1>9. \A i \in 1 .. n + 1 : grown[i].id <= MaxRows + edits + 1
  BY <1>0, <1>2, <1>3, TableFacts
<1> QED
  BY <1>1, <1>3, <1>6, <1>8, <1>9, EditTraces

\* The rows of a table in other places, each once, are told apart as before.
LEMMA Rearranged ==
    ASSUME TraceInv, NEW rows \in Seq(Row), NEW place \in [DOMAIN rows -> DOMAIN table],
           \A i, j \in DOMAIN rows : place[i] = place[j] => i = j,
           \A i \in DOMAIN rows : rows[i].id = table[place[i]].id
    PROVE  /\ \A i \in DOMAIN rows : rows[i].id <= MaxRows + edits + 1
           /\ \A i, j \in DOMAIN rows : rows[i].id = rows[j].id => i = j
<1>1. \A i \in DOMAIN rows : place[i] \in 1 .. Len(table)
  BY TableFacts
<1>2. ASSUME NEW i \in DOMAIN rows PROVE rows[i].id <= MaxRows + edits + 1
  <2>1. table[place[i]].id <= MaxRows + edits + 1
    BY <1>1, TableFacts
  <2> QED
    BY <2>1
<1>3. ASSUME NEW i \in DOMAIN rows, NEW j \in DOMAIN rows, rows[i].id = rows[j].id
      PROVE  i = j
  <2>1. table[place[i]].id = table[place[j]].id
    BY <1>3
  <2>2. place[i] = place[j]
    BY <1>1, <2>1, TableFacts
  <2> QED
    BY <2>2
<1> QED
  BY <1>2, <1>3

LEMMA SetKeyTraced ==
    ASSUME TraceInv, NEW place \in Places(table), NEW key \in Keys, SetKey(place, key)
    PROVE  TraceInv'
<1> DEFINE rows == [table EXCEPT ![place + 1].key = key]
           d == Modify(log, place)
           n == Len(table)
<1>1. Edit(rows, d, {RowAt(table, place).id})
  BY DEF SetKey
<1>2. place + 1 \in 1 .. n /\ key \in Nat
  BY TableFacts
<1>3. /\ rows \in Seq(Row) /\ Len(rows) = n /\ DOMAIN rows = 1 .. n
      /\ \A i \in 1 .. n : rows[i].id = table[i].id
  <2>1. [table[place + 1] EXCEPT !.key = key] \in Row
        /\ [table[place + 1] EXCEPT !.key = key].id = table[place + 1].id
    BY <1>2, TableFacts DEF Row
  <2>2. rows = [table EXCEPT ![place + 1] = [table[place + 1] EXCEPT !.key = key]]
    OBVIOUS
  <2> QED
    BY <1>2, <2>1, <2>2, TableFacts
<1>4. Alike(log, d)
  BY TableFacts DEF Modify, Alike, Aligned, NoChanges
<1> HIDE DEF rows, d, n
<1>5. AllTraced(d, n, IdsAt(rows))
  <2>1. \A p \in 0 .. n - 1 : IdsAt(rows)[p] = table[p + 1].id
    BY <1>3, TableFacts DEF IdsAt, RowAt, n
  <2> QED
    BY <1>4, <2>1, AlikeTraces, TableFacts DEF AllTraced, Alike, n
<1>6. /\ Len(rows) <= MaxRows
      /\ \A i \in DOMAIN rows : rows[i].id <= MaxRows + edits + 1
      /\ \A i, j \in DOMAIN rows : rows[i].id = rows[j].id => i = j
  BY <1>3, TableFacts DEF n
<1> QED
  BY <1>1, <1>3, <1>5, <1>6, EditTraces

LEMMA SwapRowsTraced ==
    ASSUME TraceInv, NEW p \in Places(table), NEW q \in Places(table), SwapRows(p, q)
    PROVE  TraceInv'
<1> DEFINE rows == [table EXCEPT ![p + 1] = table[q + 1], ![q + 1] = table[p + 1]]
           d == Swap(log, p, q)
           n == Len(table)
<1>1. Edit(rows, d, {}) /\ p # q
  BY TableFacts DEF SwapRows
<1>2. /\ n \in Nat /\ p \in 0 .. n - 1 /\ q \in 0 .. n - 1
      /\ p + 1 \in 1 .. n /\ q + 1 \in 1 .. n /\ p + 1 # q + 1
  BY <1>1, TableFacts
<1>3. /\ rows \in Seq(Row) /\ Len(rows) = n /\ DOMAIN rows = 1 .. n
      /\ \A i \in 1 .. n : rows[i] = IF i = p + 1 THEN table[q + 1]
                                     ELSE IF i = q + 1 THEN table[p + 1] ELSE table[i]
  BY <1>2, TableFacts
<1> HIDE DEF rows, d
<1>4. IdsAt(rows) = [k \in 0 .. n - 1 |-> IF k = p THEN IdsAt(table)[q]
                       ELSE IF k = q THEN IdsAt(table)[p] ELSE IdsAt(table)[k]]
  <2>1. ASSUME NEW k \in 0 .. n - 1
        PROVE  RowAt(rows, k).id = IF k = p THEN IdsAt(table)[q]
                                   ELSE IF k = q THEN IdsAt(table)[p] ELSE IdsAt(table)[k]
    <3>1. k + 1 \in 1 .. n /\ (k + 1 = p + 1 <=> k = p) /\ (k + 1 = q + 1 <=> k = q)
      BY <1>2
    <3> QED
      BY <1>2, <1>3, <3>1 DEF IdsAt, RowAt
  <2> QED
    BY <1>3, <2>1 DEF IdsAt
<1>5. AllTraced(log, n, IdsAt(table))
  BY DEF TraceInv
<1>6. AllTraced(d, n, IdsAt(rows))
  BY <1>1, <1>2, <1>4, <1>5, SwapTraces DEF d
<1> DEFINE place == [i \in 1 .. n |-> IF i = p + 1 THEN q + 1
                                      ELSE IF i = q + 1 THEN p + 1 ELSE i]
<1>7. /\ place \in [DOMAIN rows -> DOMAIN table]
      /\ \A i, j \in DOMAIN rows : place[i] = place[j] => i = j
      /\ \A i \in DOMAIN rows : rows[i].id = table[place[i]].id
  BY <1>2, <1>3, TableFacts
<1> HIDE DEF place
<1>8. /\ \A i \in DOMAIN rows : rows[i].id <= MaxRows + edits + 1
      /\ \A i, j \in DOMAIN rows : rows[i].id = rows[j].id => i = j
  BY <1>3, <1>7, Rearranged
<1>9. Len(rows) <= MaxRows
  BY <1>3, TableFacts
<1> QED
  BY <1>1, <1>3, <1>6, <1>8, <1>9, EditTraces

\* The last row takes the place of the one deleted.
LEMMA MovedOverIs ==
    ASSUME NEW rows \in Seq(Row), NEW place \in 0 .. Len(rows) - 1
    PROVE  /\ MovedOver(rows, place) \in Seq(Row)
           /\ Len(MovedOver(rows, place)) = Len(rows) - 1
           /\ DOMAIN MovedOver(rows, place) = 1 .. Len(rows) - 1
           /\ \A i \in 1 .. Len(rows) - 1 :
                MovedOver(rows, place)[i] =
                  IF i = place + 1 THEN rows[Len(rows)] ELSE rows[i]
<1> DEFINE n == Len(rows)
           over == [rows EXCEPT ![place + 1] = rows[n]]
<1>1. n \in Nat /\ n >= 1 /\ n \in 1 .. n /\ place + 1 \in 1 .. n /\ n - 1 \in 0 .. n
  <2>1. n \in Nat
    OBVIOUS
  <2> HIDE DEF n
  <2>2. place \in 0 .. n - 1
    BY DEF n
  <2> QED
    BY <2>1, <2>2
<1>2. /\ over \in Seq(Row) /\ Len(over) = n /\ DOMAIN over = 1 .. n
      /\ \A i \in 1 .. n : over[i] = IF i = place + 1 THEN rows[n] ELSE rows[i]
  <2>1. rows[n] \in Row
    BY <1>1
  <2> QED
    BY <1>1, <2>1
<1>3. MovedOver(rows, place) = SubSeq(over, 1, n - 1)
  BY <1>2 DEF MovedOver, Front, Last
<1> HIDE DEF n, over
<1>4. /\ SubSeq(over, 1, n - 1) \in Seq(Row) /\ Len(SubSeq(over, 1, n - 1)) = n - 1
      /\ \A i \in 1 .. n - 1 : SubSeq(over, 1, n - 1)[i] = over[i]
  BY <1>1, <1>2
<1>5. \A i \in 1 .. n - 1 : i \in 1 .. n
  BY <1>1
<1>6. DOMAIN SubSeq(over, 1, n - 1) = 1 .. n - 1
  BY <1>4
<1> QED
  BY <1>2, <1>3, <1>4, <1>5, <1>6 DEF n

LEMMA DeleteRowTraced ==
    ASSUME TraceInv, NEW place \in Places(table), DeleteRow(place)
    PROVE  TraceInv'
<1> DEFINE n == Len(table) - 1
           rows == MovedOver(table, place)
           d == MoveOver(log, place, n)
           taken == [i \in 1 .. n |-> IF i = place + 1 THEN n + 1 ELSE i]
<1>1. Edit(rows, d, {})
  BY DEF DeleteRow, LastPlace
<1>2. /\ n \in Nat /\ n + 1 = Len(table) /\ place \in 0 .. n
      /\ \A i \in 1 .. n : i \in 1 .. n + 1 /\ i # n + 1
      /\ \A p \in 0 .. n - 1 : p \in 0 .. n /\ p + 1 \in 1 .. n /\ (p + 1 = place + 1 <=> p = place)
      /\ n + 1 \in 1 .. n + 1 /\ n \in 0 .. n
  <2>1. Len(table) \in Nat /\ place \in 0 .. Len(table) - 1
    BY TableFacts
  <2>2. n \in Nat /\ n + 1 = Len(table) /\ place \in 0 .. n
    BY <2>1
  <2> HIDE DEF n
  <2> QED
    BY <2>2
<1>3. /\ rows \in Seq(Row) /\ Len(rows) = n /\ DOMAIN rows = 1 .. n
      /\ \A i \in 1 .. n : rows[i] = IF i = place + 1 THEN table[n + 1] ELSE table[i]
  <2>1. table \in Seq(Row) /\ place \in 0 .. Len(table) - 1
    BY TableFacts
  <2>2. /\ rows \in Seq(Row) /\ Len(rows) = Len(table) - 1
        /\ DOMAIN rows = 1 .. Len(table) - 1
        /\ \A i \in 1 .. Len(table) - 1 :
             rows[i] = IF i = place + 1 THEN table[Len(table)] ELSE table[i]
    <3> HIDE DEF n, d, taken
    <3> QED
      BY <2>1, MovedOverIs
  <2>3. n = Len(table) - 1 /\ n + 1 = Len(table)
    BY <1>2
  <2> HIDE DEF n, rows, d, taken
  <2> QED
    BY <2>2, <2>3
<1> HIDE DEF n, rows, d
<1>4. /\ Aligned(log, n + 1) /\ DOMAIN log.mapping \subseteq log.insertions
      /\ \A p \in 0 .. n : Traced(log, p, IdsAt(table)[p])
      /\ \A p \in 0 .. n : IdsAt(table)[p] = table[p + 1].id
  BY <1>2, TableFacts DEF IdsAt, n
<1>5. Len(rows) <= MaxRows
  BY <1>2, <1>3, TableFacts
<1>6. IdsAt(rows) = LastOver(IdsAt(table), place, n)
  <2>1. ASSUME NEW p \in 0 .. n - 1
        PROVE  RowAt(rows, p).id = IF p = place THEN IdsAt(table)[n] ELSE IdsAt(table)[p]
    BY <1>2, <1>3, <1>4 DEF RowAt
  <2> QED
    BY <1>3, <2>1 DEF IdsAt, LastOver
<1>7. AllTraced(d, n, IdsAt(rows))
  <2>1. OthersTraced(log, place, n, IdsAt(table))
    BY <1>4 DEF OthersTraced
  <2>2. AllTraced(MoveOver(log, place, n), n, LastOver(IdsAt(table), place, n))
    <3> HIDE DEF taken
    <3> QED
      BY <1>2, <1>4, <2>1, MoveOverTraces
  <2> QED
    BY <1>6, <2>2 DEF d
<1>8. /\ taken \in [DOMAIN rows -> DOMAIN table]
      /\ \A i, j \in DOMAIN rows : taken[i] = taken[j] => i = j
      /\ \A i \in DOMAIN rows : rows[i].id = table[taken[i]].id
  <2>1. DOMAIN rows = 1 .. n /\ DOMAIN table = 1 .. n + 1
    BY <1>2, <1>3, TableFacts
  <2> QED
    BY <1>2, <1>3, <2>1
<1> HIDE DEF taken
<1>9. /\ \A i \in DOMAIN rows : rows[i].id <= MaxRows + edits + 1
      /\ \A i, j \in DOMAIN rows : rows[i].id = rows[j].id => i = j
  BY <1>3, <1>8, Rearranged
<1> QED
  BY <1>1, <1>3, <1>5, <1>7, <1>9, EditTraces

LEMMA MergeRowsTraced ==
    ASSUME TraceInv, NEW old \in Places(table), NEW new \in Places(table),
           MergeRows(old, new)
    PROVE  TraceInv'
<1> DEFINE n == Len(table) - 1
           identity == RowAt(table, old).id
           named == [table EXCEPT ![new + 1].id = identity]
           rows == MovedOver(named, old)
           d == MoveOver(Subsume(log, old, new), old, n)
           \* where in the table the id of a row is
           taken == [i \in 1 .. n |-> IF i = new + 1 THEN old + 1
                                      ELSE IF i # old + 1 THEN i
                                      ELSE IF n = new THEN old + 1 ELSE n + 1]
<1>1. /\ Edit(rows, d, {identity})
      /\ old # new /\ new \in log.insertions /\ new \notin DOMAIN log.mapping
  BY DEF MergeRows, LastPlace, Tracked
<1>2. /\ n \in Nat /\ n + 1 = Len(table) /\ old \in 0 .. n /\ new \in 0 .. n
      /\ old + 1 \in 1 .. n + 1 /\ new + 1 \in 1 .. n + 1 /\ n + 1 \in 1 .. n + 1
      /\ old + 1 # new + 1
      /\ \A i \in 1 .. n : i \in 1 .. n + 1 /\ i # n + 1
      /\ \A p \in 0 .. n - 1 : p \in 0 .. n /\ p + 1 \in 1 .. n
      /\ \A p \in 0 .. n : /\ p + 1 \in 1 .. n + 1 /\ (p + 1 = old + 1 <=> p = old)
                           /\ (p + 1 = new + 1 <=> p = new)
      /\ n \in 0 .. n /\ (n + 1 = new + 1 <=> n = new)
  <2>1. Len(table) \in Nat /\ old \in 0 .. Len(table) - 1 /\ new \in 0 .. Len(table) - 1
    BY TableFacts
  <2>2. n \in Nat /\ n + 1 = Len(table) /\ old \in 0 .. n /\ new \in 0 .. n
    BY <2>1
  <2> HIDE DEF n
  <2> QED
    BY <1>1, <2>2
<1>3. identity = table[old + 1].id /\ identity \in Nat
  BY <1>2, TableFacts
<1> HIDE DEF identity
<1>4. /\ named \in Seq(Row) /\ Len(named) = Len(table) /\ DOMAIN named = 1 .. Len(table)
      /\ \A i \in 1 .. Len(table) :
           named[i].id = IF i = new + 1 THEN identity ELSE table[i].id
  <2>1. /\ [table[new + 1] EXCEPT !.id = identity] \in Row
        /\ [table[new + 1] EXCEPT !.id = identity].id = identity
    BY <1>2, <1>3, TableFacts DEF Row
  <2>2. named = [table EXCEPT ![new + 1] = [table[new + 1] EXCEPT !.id = identity]]
    OBVIOUS
  <2>3. new + 1 \in 1 .. Len(table)
    BY <1>2
  <2> HIDE DEF n
  <2> QED
    BY <2>1, <2>2, <2>3, TableFacts
<1> HIDE DEF named
<1>5. /\ rows \in Seq(Row) /\ Len(rows) = n /\ DOMAIN rows = 1 .. n
      /\ \A i \in 1 .. n : rows[i] = IF i = old + 1 THEN named[n + 1] ELSE named[i]
  <2>1. Len(named) = n + 1 /\ old \in 0 .. Len(named) - 1
    BY <1>2, <1>4
  <2>2. /\ rows \in Seq(Row) /\ Len(rows) = Len(named) - 1
        /\ DOMAIN rows = 1 .. Len(named) - 1
        /\ \A i \in 1 .. Len(named) - 1 :
             rows[i] = IF i = old + 1 THEN named[Len(named)] ELSE named[i]
    <3> HIDE DEF n, d, taken
    <3> QED
      BY <1>4, <2>1, MovedOverIs
  <2>3. Len(named) - 1 = n
    BY <1>2, <2>1
  <2> HIDE DEF n, rows, d, taken
  <2> QED
    BY <2>1, <2>2, <2>3
<1> HIDE DEF n, rows, d
<1> DEFINE ids == IdsAt(table)
           ids1 == Renamed(ids, old, new, n)
<1>6. AllTraced(log, n + 1, ids)
  BY <1>2 DEF TraceInv
<1>7. \A p \in 0 .. n : ids[p] = table[p + 1].id
  BY <1>2, TableFacts DEF IdsAt, n
<1> HIDE DEF ids
<1>8. \A p \in 0 .. n : ids1[p] = named[p + 1].id
  BY <1>2, <1>3, <1>4, <1>7 DEF Renamed
<1> HIDE DEF ids1
<1>9. IdsAt(rows) = LastOver(ids1, old, n)
  <2>1. ASSUME NEW p \in 0 .. n - 1
        PROVE  RowAt(rows, p).id = IF p = old THEN ids1[n] ELSE ids1[p]
    BY <1>2, <1>5, <1>8 DEF RowAt
  <2> QED
    BY <1>5, <2>1 DEF IdsAt, LastOver
<1> HIDE DEF taken
<1>10. AllTraced(d, n, IdsAt(rows))
  <2>1. AllTraced(MoveOver(Subsume(log, old, new), old, n), n, LastOver(ids1, old, n))
    BY <1>1, <1>2, <1>6, MergeTraces DEF ids1
  <2> QED
    BY <1>9, <2>1 DEF d
<1>11. /\ taken \in [DOMAIN rows -> DOMAIN table]
       /\ \A i, j \in DOMAIN rows : taken[i] = taken[j] => i = j
       /\ \A i \in DOMAIN rows : rows[i].id = table[taken[i]].id
  <2>1. DOMAIN rows = 1 .. n /\ DOMAIN table = 1 .. n + 1
    BY <1>2, <1>5, TableFacts
  <2>2. \A i \in 1 .. n : taken[i] \in 1 .. n + 1
    BY <1>2 DEF taken
  <2>3. \A i, j \in 1 .. n : taken[i] = taken[j] => i = j
    BY <1>2 DEF taken
  <2>4. ASSUME NEW i \in 1 .. n PROVE rows[i].id = table[taken[i]].id
    <3>1. rows[i].id = IF i = old + 1 THEN named[n + 1].id ELSE named[i].id
      BY <1>5
    <3>2. named[i].id = (IF i = new + 1 THEN identity ELSE table[i].id)
          /\ named[n + 1].id = (IF n = new THEN identity ELSE table[n + 1].id)
      BY <1>2, <1>4
    <3> QED
      BY <1>2, <1>3, <3>1, <3>2 DEF taken
  <2>5. taken \in [1 .. n -> 1 .. n + 1]
    BY <2>2 DEF taken
  <2> QED
    BY <2>1, <2>3, <2>4, <2>5
<1>12. /\ \A i \in DOMAIN rows : rows[i].id <= MaxRows + edits + 1
       /\ \A i, j \in DOMAIN rows : rows[i].id = rows[j].id => i = j
  BY <1>5, <1>11, Rearranged
<1>13. Len(rows) <= MaxRows
  BY <1>2, <1>5, TableFacts
<1> QED
  BY <1>1, <1>5, <1>10, <1>12, <1>13, EditTraces

\* All rows are gone, and the log says that every one is.
LEMMA ClearTableTraced ==
    ASSUME TraceInv, ClearTable
    PROVE  TraceInv'
<1>1. Edit(<< >>, ClearUnknown, {})
  BY DEF ClearTable
<1>2. IsFiniteSet(FirstRows(Npos)) /\ FirstRows(Npos) \in SUBSET Nat
  <2>1. FirstRows(Npos) = 0 .. Npos - 1 /\ Npos - 1 \in Int
    BY NposIsNatural, PlacesAre
  <2>2. IsFiniteSet(0 .. Npos - 1)
    BY <2>1, FS_Interval
  <2> QED
    BY <2>1, <2>2
<1>3. /\ DOMAIN ClearUnknown = DOMAIN NoChanges
      /\ ClearUnknown.deletions = FirstRows(Npos)
      /\ ClearUnknown.insertions = {} /\ DOMAIN ClearUnknown.mapping = {}
  BY DEF ClearUnknown, NoChanges
<1>4. AllTraced(ClearUnknown, 0, IdsAt(<< >>))
  <2>1. ClearUnknown.moves = << >> /\ FirstRows(Npos) = 0 .. Npos - 1
    BY NposIsNatural, PlacesAre DEF ClearUnknown, NoChanges
  <2>2. Len(found) \in Nat /\ Len(found) <= Npos
    BY NposIsNatural, ResultChangesAssumption DEF TraceInv, Distinct
  <2>3. \A q \in 0 .. Len(found) - 1 : q \in 0 .. Npos - 1 /\ q >= 0
    BY <2>2, NposIsNatural
  <2> QED
    BY <1>2, <1>3, <2>1, <2>2, <2>3 DEF AllTraced, Aligned
<1>5. << >> \in Seq(Row) /\ Len(<< >>) = 0 /\ DOMAIN << >> = {} /\ 0 <= MaxRows
  BY ResultChangesAssumption
<1> QED
  BY <1>1, <1>4, <1>5, EditTraces

LEMMA RunTraced ==
    ASSUME TraceInv, Run
    PROVE  TraceInv'
<1>1. log' = NoChanges /\ found' = table /\ table' = table /\ edits' = edits
  BY DEF Run
<1>2. Distinct(found)' /\ Distinct(table)' /\ edits' \in Nat
  BY <1>1 DEF TraceInv, Distinct
<1>3. (Distinct(found) => AllTraced(NoChanges, Len(found), IdsAt(found)))'
  BY EmptyTraces, PTL
<1> QED
  BY <1>1, <1>2, <1>3 DEF TraceInv

LEMMA RowsAreKept == TraceInv /\ [Next]_vars => TraceInv'
<1> SUFFICES ASSUME TraceInv, [Next]_vars PROVE TraceInv'
  OBVIOUS
<1>1. ASSUME NEW key \in Keys, AddRow(key) PROVE TraceInv'
  BY <1>1, AddRowTraced
<1>2. ASSUME NEW place \in Places(table), DeleteRow(place) PROVE TraceInv'
  BY <1>2, DeleteRowTraced
<1>3. ASSUME NEW place \in Places(table), NEW key \in Keys, SetKey(place, key)
      PROVE  TraceInv'
  BY <1>3, SetKeyTraced
<1>4. ASSUME NEW p \in Places(table), NEW q \in Places(table), MergeRows(p, q)
      PROVE  TraceInv'
  BY <1>4, MergeRowsTraced
<1>5. ASSUME NEW p \in Places(table), NEW q \in Places(table), SwapRows(p, q)
      PROVE  TraceInv'
  BY <1>5, SwapRowsTraced
<1>6. CASE ClearTable
  BY <1>6, ClearTableTraced
<1>7. CASE Run
  BY <1>7, RunTraced
<1>8. CASE Deliver \/ UNCHANGED vars
  <2>1. UNCHANGED <<table, log, found, edits>>
    BY <1>8 DEF Deliver, vars
  <2> QED
    BY <2>1 DEF TraceInv, Distinct, AllTraced, Traced, From, Aligned, IdsAt
<1> QED
  BY <1>1, <1>2, <1>3, <1>4, <1>5, <1>6, <1>7, <1>8 DEF Next

(* Whatever is done to a table in a transaction, in whatever order, and     *)
(* whatever its size, the log half read accounts for every row: the         *)
(* observer's bookkeeping of deletions, insertions and moved rows loses     *)
(* none and takes none for another, and the worker that looks a row of its  *)
(* last run up in it finds it where it is, or finds that it is gone         *)
(* (collection_change_builder.cpp, move_over, swap, subsume,                *)
(* parse_complete; results_notifier.cpp, calculate_changes). *)
THEOREM Traceable == Spec => []RowsAreTraced
<1>1. Init => TraceInv
  BY InitTraced
<1>2. TraceInv /\ [Next]_vars => TraceInv'
  BY RowsAreKept
<1>3. TraceInv => RowsAreTraced
  BY InvTells
<1> QED
  BY <1>1, <1>2, <1>3, PTL DEF Spec
=============================================================================
