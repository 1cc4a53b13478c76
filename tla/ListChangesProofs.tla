------------------------- MODULE ListChangesProofs -------------------------
(***************************************************************************)
(* Proofs about ListChanges.                                               *)
(***************************************************************************)
EXTENDS ListChanges, FiniteSetTheorems, SequenceTheorems, TLAPS

-----------------------------------------------------------------------------
(* Induction over numbers *)

(* A set of numbers with 0 and with the successor of each of its members
   has all of them: the least one outside would have a predecessor inside. *)
LEMMA ByInduction ==
  ASSUME NEW S, 0 \in S, \A n \in Nat : n \in S => n + 1 \in S
  PROVE  \A n \in Nat : n \in S
<1> DEFINE less == OpToRel(<, Nat)
           T == {n \in Nat : n \notin S}
<1>1. \A x, y \in Nat : x < y => <<x, y>> \in less
  BY DEF OpToRel
<1>2. IsWellFoundedOn(less, Nat)
  BY NatLessThanWellFounded
<1> HIDE DEF less
<1>3. ASSUME T # {} PROVE FALSE
  <2>1. PICK x \in T : \A y \in T : ~ (<<y, x>> \in less)
    BY <1>2, <1>3, WFMin
  <2>2. x \in Nat /\ x # 0 /\ x \notin S
    BY <2>1
  <2>3. x - 1 \in Nat /\ x - 1 < x /\ (x - 1) + 1 = x
    BY <2>2
  <2>4. x - 1 \in T
    BY <2>2, <2>3
  <2> QED BY <2>1, <2>2, <2>3, <2>4, <1>1
<1> QED BY <1>3

-----------------------------------------------------------------------------
(* Counting in sets of places *)

Below(S, n) == {v \in S : 0 <= v /\ v < n}

(* Count counts the members below a number. *)
LEMMA BelowIsFinite ==
    ASSUME NEW S \in SUBSET Nat, NEW n \in Nat
    PROVE  /\ IsFiniteSet(Below(S, n))
           /\ Count(S, 0, n) = Cardinality(Below(S, n))
           /\ Count(S, 0, n) \in 0 .. n
<1>1. IsFiniteSet(0 .. n - 1) /\ Cardinality(0 .. n - 1) = n
  BY FS_Interval, n - 1 \in Int
<1>2. Below(S, n) \in SUBSET (0 .. n - 1)
  <2>1. ASSUME NEW v \in Below(S, n) PROVE v \in 0 .. n - 1
    <3>1. v \in Nat /\ v < n
      BY DEF Below
    <3> QED
      BY <3>1
  <2> QED
    BY <2>1
<1>3. /\ IsFiniteSet(Below(S, n)) /\ Cardinality(Below(S, n)) \in Nat
      /\ Cardinality(Below(S, n)) <= n
  BY <1>1, <1>2, FS_Subset, FS_CardinalityType
<1> QED
  BY <1>3 DEF Below, Count

(* The numbers outside a set are counted by Unshift in their order. *)
LEMMA UnshiftRises ==
    ASSUME NEW S \in SUBSET Nat, NEW m \in Nat \ S, NEW n \in Nat, m < n
    PROVE  Unshift(S, m) < Unshift(S, n)
<1> DEFINE between == {v \in S : m < v /\ v < n}
<1>1. IsFiniteSet(m + 1 .. n - 1) /\ Cardinality(m + 1 .. n - 1) = n - m - 1
  BY FS_Interval, m + 1 \in Int, n - 1 \in Int
<1>2. IsFiniteSet(between) /\ Cardinality(between) <= n - m - 1
  <2>1. ASSUME NEW v \in between PROVE v \in m + 1 .. n - 1
    <3>1. v \in Nat /\ m < v /\ v < n
      OBVIOUS
    <3> QED
      BY <3>1
  <2>2. between \in SUBSET (m + 1 .. n - 1)
    BY <2>1
  <2> QED
    BY <1>1, <2>2, FS_Subset
<1>3. Below(S, n) = Below(S, m) \cup between /\ Below(S, m) \cap between = {}
  <2>1. \A v \in S : v \in Nat /\ v # m
    OBVIOUS
  <2>2. \A v \in S : v < n <=> v < m \/ (m < v /\ v < n)
    BY <2>1
  <2>3. \A v \in S : v \in Below(S, n) <=> v \in Below(S, m) \/ v \in between
    <3> SUFFICES ASSUME NEW v \in S
                 PROVE  v \in Below(S, n) <=> v \in Below(S, m) \/ v \in between
      OBVIOUS
    <3>1. v \in Below(S, n) <=> v < n
      BY <2>1 DEF Below
    <3>2. v \in Below(S, m) <=> v < m
      BY <2>1 DEF Below
    <3>3. v \in between <=> m < v /\ v < n
      OBVIOUS
    <3> HIDE DEF between
    <3> QED
      BY <2>2, <3>1, <3>2, <3>3
  <2>4. \A v \in S : ~(v < m /\ m < v)
    BY <2>1
  <2> QED
    BY <2>3, <2>4 DEF Below
<1>4. IsFiniteSet(Below(S, m)) /\ IsFiniteSet(Below(S, n))
  BY BelowIsFinite
<1>5. Cardinality(Below(S, n)) = Cardinality(Below(S, m)) + Cardinality(between) - 0
  <2> HIDE DEF between
  <2> QED
    BY <1>2, <1>3, <1>4, FS_Union, FS_EmptySet
<1>6. Cardinality(between) \in Nat
  BY <1>2, FS_CardinalityType
<1>7. /\ Count(S, 0, m) = Cardinality(Below(S, m)) /\ Count(S, 0, m) \in Nat
      /\ Count(S, 0, n) = Cardinality(Below(S, n)) /\ Count(S, 0, n) \in Nat
  BY BelowIsFinite
<1> HIDE DEF between
<1> QED
  BY <1>2, <1>5, <1>6, <1>7 DEF Unshift

(* Unshift keeps the numbers outside a set apart and in their order. *)
LEMMA UnshiftTells ==
    ASSUME NEW S \in SUBSET Nat, NEW m \in Nat \ S, NEW n \in Nat \ S
    PROVE  /\ Unshift(S, m) \in Int
           /\ m < n <=> Unshift(S, m) < Unshift(S, n)
           /\ Unshift(S, m) = Unshift(S, n) => m = n
<1>1. Unshift(S, m) \in Int /\ Unshift(S, n) \in Int
  BY BelowIsFinite DEF Unshift
<1> QED
  BY <1>1, UnshiftRises

(* Shift finds the number outside S that Unshift counts. *)
LEMMA ShiftFinds ==
    ASSUME NEW S \in SUBSET Nat, IsFiniteSet(S), NEW q \in Nat \ S
    PROVE  Shift(S, Unshift(S, q)) = q
<1> DEFINE index == Unshift(S, q)
<1>1. Count(S, 0, q) \in Nat /\ index \in Int /\ q = index + Count(S, 0, q)
  BY BelowIsFinite DEF Unshift
<1>2. Count(S, 0, q) <= Cardinality(S) /\ Cardinality(S) \in Nat
  <2>1. Below(S, q) \in SUBSET S
    BY DEF Below
  <2> QED
    BY <2>1, FS_Subset, FS_CardinalityType, BelowIsFinite
<1>3. q \in index .. index + Cardinality(S)
  BY <1>1, <1>2
<1>4. ASSUME NEW n \in index .. index + Cardinality(S), n \notin S, n = index + Count(S, 0, n)
      PROVE  n = q
  <2>1. index >= 0
    BY <1>1, BelowIsFinite
  <2>2. n \in Nat
    BY <1>1, <1>2, <2>1
  <2>3. Unshift(S, n) = index
    BY <1>1, <1>4, <2>2, BelowIsFinite DEF Unshift
  <2> HIDE DEF index
  <2> QED
    BY <1>4, <2>2, <2>3, UnshiftTells DEF index
<1> HIDE DEF index
<1> QED
  BY <1>1, <1>3, <1>4 DEF Shift, index

-----------------------------------------------------------------------------
(* Loops over the entries of a sequence *)

IsLoop(g, base, N, step) ==
  g = [n \in 0 .. N |-> IF n = 0 THEN base ELSE step[n][g[n - 1]]]

(* A loop of so many steps is defined. *)
LEMMA LoopRuns ==
  ASSUME NEW base, NEW N \in Nat, NEW step
  PROVE  \E g : IsLoop(g, base, N, step)
<1> DEFINE Step(n, t) == step[n][t]
           Runs(g, m) == g = [n \in 0 .. m |-> IF n = 0 THEN base ELSE Step(n, g[n - 1])]
           S == {m \in Nat : \E g : Runs(g, m)}
<1> HIDE DEF Step
<1>1. 0 \in S
  <2> DEFINE g0 == [n \in 0 .. 0 |-> base]
  <2>1. \A n \in 0 .. 0 : n = 0
    OBVIOUS
  <2>2. Runs(g0, 0)
    BY <2>1
  <2> HIDE DEF Runs, g0
  <2> QED BY <2>2
<1>2. ASSUME NEW m \in Nat, m \in S PROVE m + 1 \in S
  <2>1. PICK g : Runs(g, m)
    BY <1>2
  <2> DEFINE h == [n \in 0 .. m + 1 |-> IF n = m + 1 THEN Step(m + 1, g[m]) ELSE g[n]]
  <2>2. \A n \in 0 .. m : n \in 0 .. m + 1 /\ n # m + 1
    OBVIOUS
  <2>3. \A n \in 0 .. m : h[n] = g[n]
    BY <2>2
  <2>4. m + 1 \in 0 .. m + 1
    OBVIOUS
  <2>5. h[m + 1] = Step(m + 1, g[m])
    BY <2>4
  <2>6. \A n \in 0 .. m : g[n] = IF n = 0 THEN base ELSE Step(n, g[n - 1])
    BY <2>1
  <2>7. h = [n \in 0 .. m + 1 |-> h[n]]
    OBVIOUS
  <2> HIDE DEF h, Runs
  <2>8. ASSUME NEW n \in 0 .. m + 1
        PROVE  h[n] = IF n = 0 THEN base ELSE Step(n, h[n - 1])
    <3>1. CASE n = m + 1
      <4>1. m \in 0 .. m /\ n - 1 = m /\ n # 0
        BY <3>1
      <4> QED BY <3>1, <4>1, <2>3, <2>5
    <3>2. CASE n # m + 1
      <4>1. n \in 0 .. m /\ (n # 0 => n - 1 \in 0 .. m)
        BY <3>2
      <4> QED BY <4>1, <2>3, <2>6
    <3> QED BY <3>1, <3>2
  <2>9. Runs(h, m + 1)
    BY <2>7, <2>8 DEF Runs
  <2> QED BY <2>9
<1>3. N \in S
  <2> HIDE DEF S
  <2> QED BY <1>1, <1>2, ByInduction
<1>4. \E g : Runs(g, N)
  <2> HIDE DEF Runs
  <2> QED BY <1>3
<1> QED BY <1>4 DEF Step, IsLoop

(* And it stays in the states its steps stay in. *)
LEMMA LoopStays ==
  ASSUME NEW States, NEW base \in States, NEW N \in Nat, NEW step,
         \A n \in 1 .. N, t \in States : step[n][t] \in States
  PROVE  \E g : IsLoop(g, base, N, step) /\ \A n \in 0 .. N : g[n] \in States
<1>1. PICK g : IsLoop(g, base, N, step)
  BY LoopRuns
<1> DEFINE S == {n \in Nat : n <= N => g[n] \in States}
<1>2. g[0] = base /\ \A n \in 1 .. N : g[n] = step[n][g[n - 1]]
  BY <1>1 DEF IsLoop
<1>3. 0 \in S
  BY <1>2
<1>4. ASSUME NEW n \in Nat, n \in S PROVE n + 1 \in S
  <2>1. SUFFICES ASSUME n + 1 <= N PROVE g[n + 1] \in States
    OBVIOUS
  <2>2. n + 1 \in 1 .. N /\ (n + 1) - 1 = n /\ n <= N
    BY <2>1
  <2> QED BY <1>2, <1>4, <2>2
<1> HIDE DEF S
<1>5. \A n \in Nat : n \in S
  BY <1>3, <1>4, ByInduction
<1> QED BY <1>1, <1>5 DEF S

-----------------------------------------------------------------------------
(* Sequences *)

(* OnlyOf keeps exactly the entries that are in the set, by induction over
   the loop. *)
LEMMA OnlyOfIs ==
  ASSUME NEW T, NEW s \in Seq(T), NEW set
  PROVE  /\ OnlyOf(s, set) \in Seq(T)
         /\ ToSet(OnlyOf(s, set)) = ToSet(s) \cap set
         /\ IsInjective(s) => IsInjective(OnlyOf(s, set))
<1> DEFINE N == Len(s)
           Step(n, t) == IF s[n] \in set THEN Append(t, s[n]) ELSE t
           step == [n \in 1 .. N |-> [t \in Seq(T) |-> Step(n, t)]]
           after == CHOOSE g : g = [n \in 0 .. N |-> IF n = 0 THEN << >> ELSE Step(n, g[n - 1])]
           Seen(n) == {s[i] : i \in 1 .. n}
           Holds(n, t) == /\ t \in Seq(T)
                          /\ ToSet(t) = Seen(n) \cap set
                          /\ IsInjective(s) => IsInjective(t)
           S == {n \in Nat : n <= N => Holds(n, after[n])}
<1>1. N \in Nat /\ DOMAIN s = 1 .. N /\ \A n \in 1 .. N : s[n] \in T
  OBVIOUS
<1>2. OnlyOf(s, set) = after[N]
  BY DEF OnlyOf
<1>3. \A n \in 1 .. N, t \in Seq(T) : Step(n, t) \in Seq(T) /\ step[n][t] = Step(n, t)
  BY <1>1
<1>4. \E g : g = [n \in 0 .. N |-> IF n = 0 THEN << >> ELSE Step(n, g[n - 1])]
  <2> HIDE DEF Step, step, N, after, S
  <2>1. << >> \in Seq(T)
    OBVIOUS
  <2>2. \A n \in 1 .. N, t \in Seq(T) : step[n][t] \in Seq(T)
    BY <1>3
  <2>3. PICK g : IsLoop(g, << >>, N, step) /\ \A n \in 0 .. N : g[n] \in Seq(T)
    BY <1>1, <2>1, <2>2, LoopStays
  <2>4. g = [n \in 0 .. N |-> IF n = 0 THEN << >> ELSE step[n][g[n - 1]]]
    BY <2>3 DEF IsLoop
  <2>5. \A n \in 0 .. N : n # 0 => n \in 1 .. N /\ n - 1 \in 0 .. N
    BY <1>1
  <2>6. \A n \in 0 .. N : n # 0 => step[n][g[n - 1]] = Step(n, g[n - 1])
    BY <1>3, <2>3, <2>5
  <2>7. g = [n \in 0 .. N |-> IF n = 0 THEN << >> ELSE Step(n, g[n - 1])]
    BY <2>4, <2>6
  <2> QED BY <2>7
<1> HIDE DEF N, Step, step
<1>5. after = [n \in 0 .. N |-> IF n = 0 THEN << >> ELSE Step(n, after[n - 1])]
  BY <1>4
<1> HIDE DEF after
<1>6. after[0] = << >> /\ \A n \in 1 .. N : after[n] = Step(n, after[n - 1])
  BY <1>1, <1>5
<1>7. 0 \in S
  <2>1. Seen(0) = {}
    OBVIOUS
  <2>2. << >> \in Seq(T) /\ ToSet(<< >>) = {} /\ IsInjective(<< >>)
    BY DEF ToSet, IsInjective
  <2> QED BY <1>6, <2>1, <2>2
<1>8. ASSUME NEW n \in Nat, n \in S PROVE n + 1 \in S
  <2>1. SUFFICES ASSUME n + 1 <= N PROVE Holds(n + 1, after[n + 1])
    OBVIOUS
  <2>2. n + 1 \in 1 .. N /\ (n + 1) - 1 = n /\ n <= N /\ n + 1 \in DOMAIN s
    BY <1>1, <2>1
  <2> DEFINE t == after[n]
             e == s[n + 1]
  <2>3. Holds(n, t)
    BY <1>8, <2>2
  <2>4. after[n + 1] = IF e \in set THEN Append(t, e) ELSE t
    BY <1>6, <2>2 DEF Step
  <2>5. Seen(n + 1) = Seen(n) \union {e}
    <3>1. \A i \in 1 .. n + 1 : i \in 1 .. n \/ i = n + 1
      OBVIOUS
    <3>2. \A i \in 1 .. n : i \in 1 .. n + 1
      OBVIOUS
    <3> QED BY <3>1, <3>2
  <2>6. e \in T
    BY <1>1, <2>2
  <2>7. IsInjective(s) => e \notin Seen(n)
    <3>1. \A i \in 1 .. n : i \in DOMAIN s /\ i # n + 1
      BY <1>1, <2>2
    <3> QED BY <2>2, <3>1 DEF IsInjective
  <2> HIDE DEF t, e, Seen
  <2>8. CASE e \in set
    <3> DEFINE u == Append(t, e)
    <3>1. t \in Seq(T) /\ Len(t) \in Nat /\ DOMAIN t = 1 .. Len(t)
      BY <2>3
    <3>2. u \in Seq(T) /\ DOMAIN u = 1 .. Len(t) + 1 /\ u[Len(t) + 1] = e
          /\ \A i \in 1 .. Len(t) : u[i] = t[i]
      BY <2>6, <3>1
    <3>3. \A i \in 1 .. Len(t) + 1 : i \in 1 .. Len(t) \/ i = Len(t) + 1
      BY <3>1
    <3>4. \A i \in 1 .. Len(t) : i \in 1 .. Len(t) + 1
      BY <3>1
    <3>5. Len(t) + 1 \in 1 .. Len(t) + 1
      BY <3>1
    <3> HIDE DEF u
    <3>6. ToSet(u) = ToSet(t) \union {e}
      BY <3>1, <3>2, <3>3, <3>4, <3>5 DEF ToSet
    <3>7. IsInjective(t) /\ e \notin ToSet(t) => IsInjective(u)
      BY <3>1, <3>2, <3>3 DEF IsInjective, ToSet
    <3>8. Holds(n + 1, u)
      BY <2>3, <2>5, <2>7, <2>8, <3>2, <3>6, <3>7
    <3> QED BY <2>4, <2>8, <3>8 DEF u
  <2>9. CASE e \notin set
    BY <2>3, <2>4, <2>5, <2>9
  <2> QED BY <2>8, <2>9
<1>9. N \in S
  <2> HIDE DEF S
  <2> QED BY <1>1, <1>7, <1>8, ByInduction
<1>10. Seen(N) = ToSet(s)
  BY <1>1 DEF ToSet
<1> QED BY <1>1, <1>2, <1>9, <1>10

(* The first k entries. *)
LEMMA Beginning ==
  ASSUME NEW T, NEW s \in Seq(T), NEW k \in 0 .. Len(s)
  PROVE  /\ SubSeq(s, 1, k) \in Seq(T) /\ Len(SubSeq(s, 1, k)) = k
         /\ \A i \in 1 .. k : SubSeq(s, 1, k)[i] = s[i]
OBVIOUS

(* The entry at n is taken out of a sequence without repetitions: the last
   one takes its place. *)
LEMMA TakenOut ==
  ASSUME NEW T, NEW s \in Seq(T), IsInjective(s), NEW n \in DOMAIN s
  PROVE  LET t == Front([s EXCEPT ![n] = Last(s)]) IN
         t \in Seq(T) /\ IsInjective(t) /\ ToSet(t) = ToSet(s) \ {s[n]}
<1> DEFINE N == Len(s)
           k == N - 1
           e == [s EXCEPT ![n] = Last(s)]
           t == SubSeq(e, 1, k)
<1>1. N \in Nat /\ DOMAIN s = 1 .. N /\ n \in 1 .. N /\ N \in 1 .. N /\ s[N] \in T
  OBVIOUS
<1>2. Last(s) = s[N]
  BY DEF Last
<1>3. e \in Seq(T) /\ Len(e) = N /\ \A i \in 1 .. N : e[i] = IF i = n THEN s[N] ELSE s[i]
  BY <1>1, <1>2, ExceptSeq
<1>4. Front(e) = t
  BY <1>3 DEF Front
<1> HIDE DEF N, e
<1>5. k \in 0 .. Len(e) /\ k = N - 1
  BY <1>1, <1>3
<1> HIDE DEF k
<1>6. /\ t \in Seq(T) /\ Len(t) = N - 1
      /\ \A i \in 1 .. N - 1 : t[i] = IF i = n THEN s[N] ELSE s[i]
  <2>1. t \in Seq(T) /\ Len(t) = k /\ \A i \in 1 .. k : t[i] = e[i]
    BY <1>3, <1>5, Beginning
  <2>2. \A i \in 1 .. N - 1 : i \in 1 .. N
    BY <1>1
  <2> HIDE DEF t
  <2> QED BY <1>3, <1>5, <2>1, <2>2
<1> HIDE DEF t
<1>7. DOMAIN t = 1 .. N - 1
  BY <1>6
<1>8. IsInjective(t)
  <2>1. ASSUME NEW i \in 1 .. N - 1, NEW j \in 1 .. N - 1, t[i] = t[j] PROVE i = j
    <3>1. i \in 1 .. N /\ j \in 1 .. N /\ i # N /\ j # N
      BY <1>1
    <3> QED BY <1>1, <1>6, <2>1, <3>1 DEF IsInjective
  <2> QED BY <1>7, <2>1 DEF IsInjective
<1>9. ASSUME NEW i \in 1 .. N - 1 PROVE t[i] \in ToSet(s) /\ t[i] # s[n]
  <2>1. i \in 1 .. N /\ i # N
    BY <1>1
  <2> QED BY <1>1, <1>6, <2>1 DEF ToSet, IsInjective
<1>10. ASSUME NEW i \in 1 .. N, s[i] # s[n] PROVE s[i] \in ToSet(t)
  <2>1. CASE i # N
    <3>1. i \in 1 .. N - 1 /\ i # n
      BY <1>1, <1>10, <2>1
    <3> QED BY <1>6, <1>7, <3>1 DEF ToSet
  <2>2. CASE i = N
    <3>1. n \in 1 .. N - 1
      BY <1>1, <1>10, <2>2
    <3> QED BY <1>6, <1>7, <2>2, <3>1 DEF ToSet
  <2> QED BY <2>1, <2>2
<1>11. \A x \in ToSet(t) : x \in ToSet(s) \ {s[n]}
  BY <1>7, <1>9 DEF ToSet
<1>12. \A x \in ToSet(s) \ {s[n]} : x \in ToSet(t)
  BY <1>1, <1>10 DEF ToSet
<1> QED BY <1>4, <1>6, <1>8, <1>11, <1>12 DEF e

(* Two sequences with nothing in common, one after the other. *)
LEMMA Joined ==
  ASSUME NEW T, NEW s \in Seq(T), NEW t \in Seq(T)
  PROVE  /\ s \o t \in Seq(T) /\ ToSet(s \o t) = ToSet(s) \union ToSet(t)
         /\ IsInjective(s) /\ IsInjective(t) /\ ToSet(s) \cap ToSet(t) = {} => IsInjective(s \o t)
<1> DEFINE m == Len(s)
           n == Len(t)
           u == s \o t
<1>1. m \in Nat /\ n \in Nat /\ DOMAIN s = 1 .. m /\ DOMAIN t = 1 .. n
  OBVIOUS
<1>2. /\ u \in Seq(T) /\ Len(u) = m + n
      /\ \A i \in 1 .. m + n : u[i] = IF i <= m THEN s[i] ELSE t[i - m]
  BY ConcatProperties
<1>3. DOMAIN u = 1 .. m + n
  BY <1>2
<1> HIDE DEF m, n, u
<1>4. \A i \in 1 .. m + n : (i \in 1 .. m /\ i <= m) \/ (i - m \in 1 .. n /\ ~ (i <= m))
  BY <1>1
<1>5. \A i \in 1 .. m : i \in 1 .. m + n /\ i <= m
  BY <1>1
<1>6. \A i \in 1 .. n : i + m \in 1 .. m + n /\ ~ (i + m <= m) /\ (i + m) - m = i
  BY <1>1
<1>7. ToSet(u) = ToSet(s) \union ToSet(t)
  <2>1. \A i \in 1 .. m + n : u[i] \in ToSet(s) \union ToSet(t)
    BY <1>1, <1>2, <1>4 DEF ToSet
  <2>2. \A i \in 1 .. m : s[i] \in ToSet(u)
    BY <1>2, <1>3, <1>5 DEF ToSet
  <2>3. \A i \in 1 .. n : t[i] \in ToSet(u)
    BY <1>2, <1>3, <1>6 DEF ToSet
  <2> QED BY <1>1, <1>3, <2>1, <2>2, <2>3 DEF ToSet
<1>8. ASSUME IsInjective(s), IsInjective(t), ToSet(s) \cap ToSet(t) = {} PROVE IsInjective(u)
  <2>1. SUFFICES ASSUME NEW i \in 1 .. m + n, NEW j \in 1 .. m + n, u[i] = u[j] PROVE i = j
    BY <1>3 DEF IsInjective
  <2>2. CASE i <= m /\ j <= m
    BY <1>1, <1>2, <1>4, <1>8, <2>1, <2>2 DEF IsInjective
  <2>3. CASE ~ (i <= m) /\ ~ (j <= m)
    <3>1. i - m = j - m
      BY <1>1, <1>2, <1>4, <1>8, <2>1, <2>3 DEF IsInjective
    <3> QED BY <3>1, <1>1
  <2>4. CASE (i <= m) /\ ~ (j <= m)
    <3>1. u[i] \in ToSet(s) /\ u[j] \in ToSet(t)
      BY <1>1, <1>2, <1>4, <2>4 DEF ToSet
    <3> QED BY <1>8, <2>1, <3>1
  <2>5. CASE ~ (i <= m) /\ (j <= m)
    <3>1. u[i] \in ToSet(t) /\ u[j] \in ToSet(s)
      BY <1>1, <1>2, <1>4, <2>5 DEF ToSet
    <3> QED BY <1>8, <2>1, <3>1
  <2> QED BY <2>2, <2>3, <2>4, <2>5
<1> QED BY <1>2, <1>7, <1>8 DEF u

(* All entries but the first k. *)
LEMMA Ending ==
  ASSUME NEW T, NEW s \in Seq(T), NEW k \in 0 .. Len(s)
  PROVE  /\ SubSeq(s, k + 1, Len(s)) \in Seq(T) /\ Len(SubSeq(s, k + 1, Len(s))) = Len(s) - k
         /\ \A i \in 1 .. Len(s) - k : SubSeq(s, k + 1, Len(s))[i] = s[k + i]
OBVIOUS

(* One sequence behind the other: u is s and then t. *)
IsJoined(u, s, t) ==
  /\ Len(u) = Len(s) + Len(t)
  /\ \A i \in 1 .. Len(s) : u[i] = s[i]
  /\ \A i \in 1 .. Len(t) : u[Len(s) + i] = t[i]

(* One sequence behind the other, entry by entry. *)
LEMMA Behind ==
  ASSUME NEW T, NEW s \in Seq(T), NEW t \in Seq(T)
  PROVE  s \o t \in Seq(T) /\ IsJoined(s \o t, s, t)
<1>1. Len(s) \in Nat /\ Len(t) \in Nat
  OBVIOUS
<1>2. /\ s \o t \in Seq(T) /\ Len(s \o t) = Len(s) + Len(t)
      /\ \A i \in 1 .. Len(s) + Len(t) : (s \o t)[i] = IF i <= Len(s) THEN s[i] ELSE t[i - Len(s)]
  BY ConcatProperties
<1>3. \A i \in 1 .. Len(s) : i \in 1 .. Len(s) + Len(t) /\ i <= Len(s)
  BY <1>1
<1>4. \A i \in 1 .. Len(t) : Len(s) + i \in 1 .. Len(s) + Len(t) /\ ~ (Len(s) + i <= Len(s)) /\ (Len(s) + i) - Len(s) = i
  BY <1>1
<1> QED BY <1>2, <1>3, <1>4 DEF IsJoined

(* set(n) of an empty index set. *)
LEMMA FirstRowsAre ==
  ASSUME NEW n \in Nat
  PROVE  \A v : v \in FirstRows(n) <=> v \in Nat /\ v < n
BY DEF FirstRows

(* The places of a list count from 0. *)
LEMMA PlacesAre ==
  ASSUME NEW T, NEW s \in Seq(T)
  PROVE  /\ Len(s) \in Nat
         /\ \A p : p \in Places(s) <=> p \in Nat /\ p < Len(s)
         /\ \A p \in Places(s) : RowAt(s, p) \in T
         /\ \A p \in Places(s) : p + 1 \in DOMAIN s
<1>1. Len(s) \in Nat /\ DOMAIN s = 1 .. Len(s) /\ \A i \in 1 .. Len(s) : s[i] \in T
  OBVIOUS
<1>2. \A p : p \in Places(s) <=> p \in Nat /\ p < Len(s)
  BY <1>1, FirstRowsAre DEF Places
<1>3. \A p \in Places(s) : p + 1 \in 1 .. Len(s)
  BY <1>1, <1>2
<1> QED BY <1>1, <1>2, <1>3 DEF RowAt

(* An entry comes in. *)
HasCome(u, s, place, e) ==
  /\ Len(u) = Len(s) + 1
  /\ RowAt(u, place) = e
  /\ \A p \in 0 .. place - 1 : RowAt(u, p) = RowAt(s, p)
  /\ \A p \in place + 1 .. Len(s) : RowAt(u, p) = RowAt(s, p - 1)

(* A row comes in: those in front stay, those behind make room. *)
LEMMA WithEntryIs ==
  ASSUME NEW T, NEW s \in Seq(T), NEW place \in 0 .. Len(s), NEW e \in T
  PROVE  WithEntry(s, place, e) \in Seq(T) /\ HasCome(WithEntry(s, place, e), s, place, e)
<1> DEFINE n == Len(s)
           a == SubSeq(s, 1, place)
           b == SubSeq(s, place + 1, Len(s))
           x == <<e>>
           t == a \o x
<1>1. n \in Nat /\ place \in 0 .. n
  OBVIOUS
<1>2. a \in Seq(T) /\ Len(a) = place /\ \A i \in 1 .. place : a[i] = s[i]
  BY Beginning
<1>3. b \in Seq(T) /\ Len(b) = n - place /\ \A i \in 1 .. n - place : b[i] = s[place + i]
  BY Ending
<1>4. x \in Seq(T) /\ Len(x) = 1 /\ x[1] = e
  OBVIOUS
<1>5. WithEntry(s, place, e) = t \o b
  BY DEF WithEntry
<1> HIDE DEF a, b, x, n
<1>6. /\ t \in Seq(T) /\ Len(t) = place + 1
      /\ \A i \in 1 .. place : t[i] = a[i]
      /\ \A i \in 1 .. 1 : t[place + i] = x[i]
  <2>1. t \in Seq(T) /\ IsJoined(t, a, x)
    BY <1>2, <1>4, Behind
  <2> HIDE DEF t
  <2> QED BY <1>2, <1>4, <2>1 DEF IsJoined
<1>7. t[place + 1] = e /\ \A i \in 1 .. place : t[i] = s[i]
  BY <1>2, <1>4, <1>6
<1> HIDE DEF t
<1> DEFINE u == t \o b
<1>8. /\ u \in Seq(T) /\ Len(u) = (place + 1) + (n - place)
      /\ \A i \in 1 .. place + 1 : u[i] = t[i]
      /\ \A i \in 1 .. n - place : u[(place + 1) + i] = b[i]
  <2>1. u \in Seq(T) /\ IsJoined(u, t, b)
    BY <1>3, <1>6, Behind
  <2> HIDE DEF u
  <2> QED BY <1>3, <1>6, <2>1 DEF IsJoined
<1>9. (place + 1) + (n - place) = n + 1
  BY <1>1
<1> HIDE DEF u
<1>10. RowAt(u, place) = e
  <2>1. place + 1 \in 1 .. place + 1
    BY <1>1
  <2> QED BY <1>7, <1>8, <2>1 DEF RowAt
<1>11. ASSUME NEW p \in 0 .. place - 1 PROVE RowAt(u, p) = RowAt(s, p)
  <2>1. p + 1 \in 1 .. place /\ p + 1 \in 1 .. place + 1
    BY <1>1
  <2> QED BY <1>7, <1>8, <2>1 DEF RowAt
<1>12. ASSUME NEW p \in place + 1 .. n PROVE RowAt(u, p) = RowAt(s, p - 1)
  <2>1. PICK i \in 1 .. n - place : p = place + i
    <3>1. p - place \in 1 .. n - place /\ p = place + (p - place)
      BY <1>1
    <3> QED BY <3>1
  <2>2. p + 1 = (place + 1) + i /\ (p - 1) + 1 = place + i
    BY <1>1, <2>1
  <2> QED BY <1>3, <1>8, <2>2 DEF RowAt
<1> QED BY <1>5, <1>8, <1>9, <1>10, <1>11, <1>12 DEF n, u, HasCome

(* An entry goes. *)
HasGone(u, s, place) ==
  /\ Len(u) = Len(s) - 1
  /\ \A p \in 0 .. place - 1 : RowAt(u, p) = RowAt(s, p)
  /\ \A p \in place .. Len(s) - 2 : RowAt(u, p) = RowAt(s, p + 1)

(* A row goes: those behind close the gap. *)
LEMMA WithoutEntryIs ==
  ASSUME NEW T, NEW s \in Seq(T), NEW place \in Places(s)
  PROVE  WithoutEntry(s, place) \in Seq(T) /\ HasGone(WithoutEntry(s, place), s, place)
<1> DEFINE n == Len(s)
           a == SubSeq(s, 1, place)
           b == SubSeq(s, (place + 1) + 1, Len(s))
           u == a \o b
<1>1. n \in Nat /\ place \in Nat /\ place < n /\ place \in 0 .. n /\ place + 1 \in 0 .. n
      /\ (place + 1) + 1 = place + 2
  BY PlacesAre
<1>2. a \in Seq(T) /\ Len(a) = place /\ \A i \in 1 .. place : a[i] = s[i]
  BY <1>1, Beginning
<1>3. b \in Seq(T) /\ Len(b) = n - (place + 1)
      /\ \A i \in 1 .. n - (place + 1) : b[i] = s[(place + 1) + i]
  BY <1>1, Ending
<1>4. WithoutEntry(s, place) = u
  BY <1>1 DEF WithoutEntry
<1> DEFINE k == n - (place + 1)
<1> HIDE DEF a, b, n, k
<1>5. /\ u \in Seq(T) /\ Len(u) = place + k
      /\ \A i \in 1 .. place : u[i] = a[i]
      /\ \A i \in 1 .. k : u[place + i] = b[i]
  <2>1. a \in Seq(T) /\ b \in Seq(T) /\ Len(a) = place /\ Len(b) = k
    BY <1>2, <1>3 DEF k
  <2> HIDE DEF u
  <2>2. u \in Seq(T) /\ IsJoined(u, a, b)
    BY <2>1, Behind DEF u
  <2> QED BY <2>1, <2>2 DEF IsJoined
<1> USE DEF k
<1>6. place + (n - (place + 1)) = n - 1
  BY <1>1
<1> HIDE DEF u
<1>7. ASSUME NEW p \in 0 .. place - 1 PROVE RowAt(u, p) = RowAt(s, p)
  <2>1. p + 1 \in 1 .. place
    BY <1>1
  <2> QED BY <1>2, <1>5, <2>1 DEF RowAt
<1>8. ASSUME NEW p \in place .. n - 2 PROVE RowAt(u, p) = RowAt(s, p + 1)
  <2>1. PICK i \in 1 .. n - (place + 1) : p + 1 = place + i
    <3>1. (p + 1) - place \in 1 .. n - (place + 1) /\ p + 1 = place + ((p + 1) - place)
      BY <1>1
    <3> QED BY <3>1
  <2>2. (p + 1) + 1 = (place + 1) + i
    BY <1>1, <2>1
  <2> QED BY <1>3, <1>5, <2>1, <2>2 DEF RowAt
<1> QED BY <1>4, <1>5, <1>6, <1>7, <1>8 DEF n, u, HasGone

(* Where the row now in place p was before one went from `from` to `to`. *)
WasAt(p, from, to) ==
  IF p = to THEN from
  ELSE LET q == IF p < to THEN p ELSE p - 1 IN IF q < from THEN q ELSE q + 1

(* A row is moved: each place holds what WasAt says. *)
LEMMA MovedIs ==
  ASSUME NEW T, NEW s \in Seq(T), NEW from \in Places(s), NEW to \in Places(s)
  PROVE  /\ Moved(s, from, to) \in Seq(T) /\ Len(Moved(s, from, to)) = Len(s)
         /\ \A p \in Places(s) : RowAt(Moved(s, from, to), p) = RowAt(s, WasAt(p, from, to))
<1> DEFINE n == Len(s)
           w == WithoutEntry(s, from)
           e == RowAt(s, from)
           u == WithEntry(w, to, e)
<1>1. n \in Nat /\ from \in Nat /\ from < n /\ to \in Nat /\ to < n /\ e \in T
      /\ \A p \in Places(s) : p \in Nat /\ p < n
  BY PlacesAre
<1>2. /\ w \in Seq(T) /\ Len(w) = n - 1
      /\ \A p \in 0 .. from - 1 : RowAt(w, p) = RowAt(s, p)
      /\ \A p \in from .. n - 2 : RowAt(w, p) = RowAt(s, p + 1)
  BY WithoutEntryIs DEF HasGone
<1>3. Moved(s, from, to) = u
  BY DEF Moved, RowAt
<1> HIDE DEF w, e, n, u
<1>4. to \in 0 .. Len(w)
  BY <1>1, <1>2
<1>5. /\ u \in Seq(T) /\ Len(u) = Len(w) + 1
      /\ RowAt(u, to) = e
      /\ \A p \in 0 .. to - 1 : RowAt(u, p) = RowAt(w, p)
      /\ \A p \in to + 1 .. Len(w) : RowAt(u, p) = RowAt(w, p - 1)
  <2>1. w \in Seq(T) /\ to \in 0 .. Len(w) /\ e \in T
    BY <1>1, <1>2, <1>4
  <2>2. u \in Seq(T) /\ HasCome(u, w, to, e)
    BY <2>1, WithEntryIs DEF u
  <2> QED BY <2>2 DEF HasCome
<1>6. ASSUME NEW p \in Places(s) PROVE RowAt(u, p) = RowAt(s, WasAt(p, from, to))
  <2> DEFINE q == IF p < to THEN p ELSE p - 1
  <2>1. CASE p = to
    BY <2>1, <1>5 DEF WasAt, e
  <2>2. CASE p # to
    <3>1. RowAt(u, p) = RowAt(w, q)
      <4>1. CASE p < to
        <5>1. p \in 0 .. to - 1
          BY <1>1, <4>1
        <5> QED BY <1>5, <4>1, <5>1
      <4>2. CASE ~ (p < to)
        <5>1. p \in to + 1 .. Len(w)
          BY <1>1, <1>2, <2>2, <4>2
        <5> QED BY <1>5, <4>2, <5>1
      <4> QED BY <4>1, <4>2
    <3>2. q \in Nat /\ q < n - 1
      BY <1>1, <2>2
    <3>3. RowAt(w, q) = RowAt(s, IF q < from THEN q ELSE q + 1)
      <4> HIDE DEF q
      <4>1. CASE q < from
        <5>1. q \in 0 .. from - 1
          BY <1>1, <3>2, <4>1
        <5> QED BY <1>2, <4>1, <5>1
      <4>2. CASE ~ (q < from)
        <5>1. q \in from .. n - 2
          BY <1>1, <3>2, <4>2
        <5> QED BY <1>2, <4>2, <5>1
      <4> QED BY <4>1, <4>2
    <3> QED BY <2>2, <3>1, <3>3 DEF WasAt
  <2> QED BY <2>1, <2>2
<1>7. Len(u) = n
  BY <1>1, <1>2, <1>5
<1> QED BY <1>3, <1>5, <1>6, <1>7 DEF n

-----------------------------------------------------------------------------
(* Rows and where they were *)

(* f leads the numbers of A, in their order, to those of B. *)
Rises(f, A, B) ==
  /\ \A p \in A : f[p] \in B
  /\ \A p, q \in A : p < q => f[p] < f[q]
  /\ \A v \in B : \E p \in A : f[p] = v

(* What rises does not fall back, and does not meet itself. *)
LEMMA RisingOrder ==
  ASSUME NEW A \in SUBSET Nat, NEW B \in SUBSET Nat, NEW f, Rises(f, A, B),
         NEW p \in A, NEW q \in A
  PROVE  /\ p < q <=> f[p] < f[q]
         /\ f[p] = f[q] => p = q
<1>1. p \in Nat /\ q \in Nat /\ f[p] \in Nat /\ f[q] \in Nat
  BY DEF Rises
<1>2. (p < q => f[p] < f[q]) /\ (q < p => f[q] < f[p])
  BY DEF Rises
<1>3. p < q \/ q < p \/ p = q
  BY <1>1
<1> QED BY <1>1, <1>2, <1>3

(* The two sets have as many members. *)
LEMMA RisingCount ==
  ASSUME NEW A \in SUBSET Nat, NEW B \in SUBSET Nat, NEW f, Rises(f, A, B), IsFiniteSet(A)
  PROVE  IsFiniteSet(B) /\ Cardinality(B) = Cardinality(A)
<1> DEFINE g == [p \in A |-> f[p]]
<1>1. \A p \in A : g[p] = f[p]
  OBVIOUS
<1>2. g \in [A -> B]
  BY DEF Rises
<1>3. \A p, q \in A : g[p] = g[q] => p = q
  BY <1>1, RisingOrder
<1>4. \A v \in B : \E p \in A : g[p] = v
  BY <1>1 DEF Rises
<1> HIDE DEF g
<1>5. g \in Injection(A, B)
  BY <1>2, <1>3 DEF Injection, IsInjective
<1>6. g \in Surjection(A, B)
  BY <1>2, <1>4 DEF Surjection
<1>7. ExistsBijection(A, B)
  BY <1>5, <1>6 DEF ExistsBijection, Bijection
<1> QED BY <1>7, FS_Bijection

(* As many are below one place as are below where it leads. *)
LEMMA RisingRank ==
  ASSUME NEW A \in SUBSET Nat, NEW B \in SUBSET Nat, NEW f, Rises(f, A, B), NEW p \in A
  PROVE  Cardinality(Below(B, f[p])) = Cardinality(Below(A, p))
<1>1. p \in Nat /\ f[p] \in Nat /\ f[p] \in B
  BY DEF Rises
<1>2. \A q \in A : q \in Below(A, p) <=> q < p
  BY DEF Below
<1>3. \A v \in B : v \in Below(B, f[p]) <=> v < f[p]
  BY DEF Below
<1>4. \A q \in A : q < p <=> f[q] < f[p]
  BY RisingOrder
<1>5. Below(A, p) \subseteq A /\ Below(B, f[p]) \subseteq B
  BY DEF Below
<1>6. Rises(f, Below(A, p), Below(B, f[p]))
  BY <1>2, <1>3, <1>4, <1>5 DEF Rises
<1>7. Below(A, p) \in SUBSET Nat /\ Below(B, f[p]) \in SUBSET Nat /\ IsFiniteSet(Below(A, p))
  <2>1. IsFiniteSet(Below(A, p))
    BY <1>1, BelowIsFinite
  <2> QED BY <1>5, <2>1
<1> QED BY <1>6, <1>7, RisingCount

Origin(rows, p) == RowAt(rows, p).origin

(* What deletions D and insertions I say of a list: the rows that are not
   inserted are, in their order, those of the old list that are not deleted. *)
Stay(I, rows) == Places(rows) \ I
Left(D, old) == FirstRows(old) \ D

Fits(D, I, rows, old) ==
  /\ D \subseteq FirstRows(old)
  /\ I \subseteq Places(rows)
  /\ \A p \in Stay(I, rows) : Origin(rows, p) \in Left(D, old)
  /\ \A p, q \in Stay(I, rows) : p < q => Origin(rows, p) < Origin(rows, q)
  /\ \A v \in Left(D, old) : \E p \in Stay(I, rows) : Origin(rows, p) = v

Origins(rows) == [p \in Places(rows) |-> Origin(rows, p)]

(* There are finitely many places. *)
LEMMA PlacesAreNumbers ==
  ASSUME NEW n \in Nat
  PROVE  /\ FirstRows(n) \in SUBSET Nat
         /\ IsFiniteSet(FirstRows(n)) /\ Cardinality(FirstRows(n)) = n
<1>1. FirstRows(n) = 0 .. n - 1
  BY DEF FirstRows
<1>2. IsFiniteSet(0 .. n - 1) /\ Cardinality(0 .. n - 1) = n
  BY FS_Interval, n - 1 \in Int
<1>3. 0 .. n - 1 \in SUBSET Nat
  OBVIOUS
<1> QED BY <1>1, <1>2, <1>3

(* The origins of the rows that stay rise through the old rows that are left. *)
LEMMA FitsRises ==
  ASSUME NEW D, NEW I, NEW rows, NEW old, Fits(D, I, rows, old)
  PROVE  Rises(Origins(rows), Stay(I, rows), Left(D, old))
<1>1. \A p \in Stay(I, rows) : Origins(rows)[p] = Origin(rows, p)
  BY DEF Origins, Stay
<1> QED BY <1>1 DEF Fits, Rises

(* The numbers below n that are not in S are n less those in S. *)
LEMMA OutsideIs ==
  ASSUME NEW N \in Nat, NEW S \in SUBSET FirstRows(N), NEW n \in 0 .. N
  PROVE  /\ Unshift(S, n) = Cardinality(Below(FirstRows(N) \ S, n))
         /\ Unshift(S, n) \in Nat
<1>1. FirstRows(N) \in SUBSET Nat /\ n \in Nat /\ S \in SUBSET Nat
  BY PlacesAreNumbers
<1>2. Below(FirstRows(N), n) = FirstRows(n)
  BY <1>1 DEF Below, FirstRows
<1>3. /\ IsFiniteSet(Below(FirstRows(N), n)) /\ IsFiniteSet(Below(S, n))
      /\ Cardinality(Below(FirstRows(N), n)) = n
      /\ Count(S, 0, n) = Cardinality(Below(S, n))
  BY <1>1, <1>2, BelowIsFinite, PlacesAreNumbers
<1>4. Below(FirstRows(N) \ S, n) = Below(FirstRows(N), n) \ Below(S, n)
  BY DEF Below
<1>5. Below(FirstRows(N), n) \cap Below(S, n) = Below(S, n)
  BY DEF Below
<1>6. Cardinality(Below(FirstRows(N) \ S, n)) = n - Cardinality(Below(S, n))
  BY <1>3, <1>4, <1>5, FS_Difference
<1>7. IsFiniteSet(Below(FirstRows(N) \ S, n))
  BY <1>3, <1>4, FS_Difference
<1> QED BY <1>3, <1>6, <1>7, FS_CardinalityType DEF Unshift
(* A row that stays is, among those that stay, where it was among them. *)
LEMMA SameRank ==
  ASSUME NEW T, NEW rows \in Seq(T), NEW old \in Nat, NEW D, NEW I, Fits(D, I, rows, old),
         NEW p \in Stay(I, rows)
  PROVE  /\ p \in Places(rows) /\ p \in Nat /\ p \notin I
         /\ Origin(rows, p) \in Nat /\ Origin(rows, p) \notin D
         /\ Origin(rows, p) \in FirstRows(old)
         /\ Unshift(I, p) = Unshift(D, Origin(rows, p))
<1> DEFINE N == Len(rows)
           v == Origin(rows, p)
<1>1. N \in Nat /\ Places(rows) = FirstRows(N)
  BY PlacesAre DEF Places
<1>2. D \in SUBSET FirstRows(old) /\ I \in SUBSET FirstRows(N)
  BY <1>1 DEF Fits
<1>3. /\ p \in FirstRows(N) /\ p \notin I /\ v \in FirstRows(old) /\ v \notin D
  BY <1>1 DEF Fits, Stay, Left
<1>4. p \in 0 .. N /\ v \in 0 .. old /\ p \in Nat /\ v \in Nat
  BY <1>1, <1>3, FirstRowsAre
<1>5. /\ FirstRows(N) \ I \in SUBSET Nat /\ FirstRows(old) \ D \in SUBSET Nat
  BY <1>1, PlacesAreNumbers
<1>6. Rises(Origins(rows), FirstRows(N) \ I, FirstRows(old) \ D)
  BY <1>1, FitsRises DEF Stay, Left
<1>7. Origins(rows)[p] = v
  BY <1>1, <1>3 DEF Origins
<1> HIDE DEF N, v
<1>8. Cardinality(Below(FirstRows(old) \ D, v)) = Cardinality(Below(FirstRows(N) \ I, p))
  <2> DEFINE A == FirstRows(N) \ I
             B == FirstRows(old) \ D
             f == Origins(rows)
  <2>1. A \in SUBSET Nat /\ B \in SUBSET Nat /\ Rises(f, A, B) /\ p \in A /\ f[p] = v
    BY <1>3, <1>5, <1>6, <1>7
  <2> HIDE DEF A, B, f
  <2>2. Cardinality(Below(B, f[p])) = Cardinality(Below(A, p))
    BY <2>1, RisingRank
  <2> QED BY <2>1, <2>2 DEF A, B
<1>9. /\ Unshift(I, p) = Cardinality(Below(FirstRows(N) \ I, p))
      /\ Unshift(D, v) = Cardinality(Below(FirstRows(old) \ D, v))
  BY <1>1, <1>2, <1>4, OutsideIs
<1> QED BY <1>1, <1>3, <1>4, <1>8, <1>9 DEF v

(* Shift and Unshift lead from a row that stays to where it was, and back. *)
LEMMA OriginFound ==
  ASSUME NEW T, NEW rows \in Seq(T), NEW old \in Nat, NEW D, NEW I, Fits(D, I, rows, old),
         NEW p \in Stay(I, rows)
  PROVE  /\ Shift(D, Unshift(I, p)) = Origin(rows, p)
         /\ Shift(I, Unshift(D, Origin(rows, p))) = p
<1>1. /\ p \in Nat /\ p \notin I
      /\ Origin(rows, p) \in Nat /\ Origin(rows, p) \notin D
      /\ Unshift(I, p) = Unshift(D, Origin(rows, p))
  BY SameRank
<1>2. D \in SUBSET FirstRows(old) /\ I \in SUBSET FirstRows(Len(rows)) /\ Len(rows) \in Nat
  BY PlacesAre DEF Fits, Places
<1>3. D \in SUBSET Nat /\ IsFiniteSet(D) /\ I \in SUBSET Nat /\ IsFiniteSet(I)
  BY <1>2, PlacesAreNumbers, FS_Subset
<1>4. Shift(D, Unshift(D, Origin(rows, p))) = Origin(rows, p)
  BY <1>1, <1>3, ShiftFinds
<1>5. Shift(I, Unshift(I, p)) = p
  BY <1>1, <1>3, ShiftFinds
<1> QED BY <1>1, <1>4, <1>5

(* As many rows stay as are left. *)
LEMMA SameCount ==
  ASSUME NEW T, NEW rows \in Seq(T), NEW old \in Nat, NEW D, NEW I, Fits(D, I, rows, old)
  PROVE  /\ Cardinality(D) \in Nat /\ Cardinality(I) \in Nat
         /\ old - Cardinality(D) = Len(rows) - Cardinality(I)
<1>1. D \in SUBSET FirstRows(old) /\ I \in SUBSET FirstRows(Len(rows)) /\ Len(rows) \in Nat
      /\ Places(rows) = FirstRows(Len(rows))
  BY PlacesAre DEF Fits, Places
<1>2. /\ FirstRows(old) \in SUBSET Nat /\ FirstRows(Len(rows)) \in SUBSET Nat
      /\ IsFiniteSet(FirstRows(old)) /\ Cardinality(FirstRows(old)) = old
      /\ IsFiniteSet(FirstRows(Len(rows))) /\ Cardinality(FirstRows(Len(rows))) = Len(rows)
  BY <1>1, PlacesAreNumbers
<1>3. IsFiniteSet(D) /\ IsFiniteSet(I) /\ Cardinality(D) \in Nat /\ Cardinality(I) \in Nat
  BY <1>1, <1>2, FS_Subset, FS_CardinalityType
<1>4. FirstRows(old) \cap D = D /\ FirstRows(Len(rows)) \cap I = I
  BY <1>1
<1>5. /\ Cardinality(FirstRows(old) \ D) = old - Cardinality(D)
      /\ IsFiniteSet(FirstRows(Len(rows)) \ I)
      /\ Cardinality(FirstRows(Len(rows)) \ I) = Len(rows) - Cardinality(I)
  <2> DEFINE A == FirstRows(old)
             B == FirstRows(Len(rows))
  <2>1. /\ IsFiniteSet(A) /\ Cardinality(A) = old /\ A \cap D = D
        /\ IsFiniteSet(B) /\ Cardinality(B) = Len(rows) /\ B \cap I = I
    BY <1>2, <1>4
  <2> HIDE DEF A, B
  <2>2. Cardinality(A \ D) = Cardinality(A) - Cardinality(A \cap D)
    BY <2>1, FS_Difference
  <2>3. IsFiniteSet(B \ I) /\ Cardinality(B \ I) = Cardinality(B) - Cardinality(B \cap I)
    BY <2>1, FS_Difference
  <2>4. /\ Cardinality(A \ D) = old - Cardinality(D)
        /\ IsFiniteSet(B \ I)
        /\ Cardinality(B \ I) = Len(rows) - Cardinality(I)
    BY <2>1, <2>2, <2>3
  <2> QED BY <2>4 DEF A, B
<1>6. Rises(Origins(rows), FirstRows(Len(rows)) \ I, FirstRows(old) \ D)
  BY <1>1, FitsRises DEF Stay, Left
<1>7. FirstRows(Len(rows)) \ I \in SUBSET Nat /\ FirstRows(old) \ D \in SUBSET Nat
  BY <1>2
<1>8. Cardinality(FirstRows(old) \ D) = Cardinality(FirstRows(Len(rows)) \ I)
  BY <1>5, <1>6, <1>7, RisingCount
<1> QED BY <1>3, <1>5, <1>8

(* That is what Explains asks for. *)
LEMMA FitsExplains ==
  ASSUME NEW T, NEW rows \in Seq(T), NEW old \in Nat, NEW c,
         Fits(c.deletions, c.insertions, rows, old)
  PROVE  Explains(c, rows, old)
<1>1. ASSUME NEW p \in Places(rows) \ c.insertions
      PROVE  RowAt(rows, p).origin = Shift(c.deletions, Unshift(c.insertions, p))
  <2>1. p \in Stay(c.insertions, rows)
    BY DEF Stay
  <2> QED BY <2>1, OriginFound DEF Origin
<1>2. old - Cardinality(c.deletions) = Len(rows) - Cardinality(c.insertions)
  BY SameCount
<1> QED BY <1>1, <1>2 DEF Explains, Fits

(* A change of the rows keeps the fit if the rows that still stay, and are
   still left, are as they were. *)
LEMMA FitsCarries ==
  ASSUME NEW D, NEW I, NEW rows, NEW old, Fits(D, I, rows, old),
         NEW D2, NEW I2, NEW rows2, NEW pi,
         D \subseteq D2, D2 \subseteq FirstRows(old), I2 \subseteq Places(rows2),
         \A p \in Stay(I2, rows2) :
           /\ pi[p] \in Stay(I, rows)
           /\ Origin(rows2, p) = Origin(rows, pi[p])
           /\ Origin(rows, pi[p]) \notin D2,
         \A p, q \in Stay(I2, rows2) : p < q => pi[p] < pi[q],
         \A q \in Stay(I, rows) : Origin(rows, q) \notin D2 => \E p \in Stay(I2, rows2) : pi[p] = q
  PROVE  Fits(D2, I2, rows2, old)
<1>1. ASSUME NEW p \in Stay(I2, rows2) PROVE Origin(rows2, p) \in Left(D2, old)
  BY <1>1 DEF Fits, Left
<1>2. ASSUME NEW p \in Stay(I2, rows2), NEW q \in Stay(I2, rows2), p < q
      PROVE  Origin(rows2, p) < Origin(rows2, q)
  BY <1>2 DEF Fits
<1>3. ASSUME NEW v \in Left(D2, old) PROVE \E p \in Stay(I2, rows2) : Origin(rows2, p) = v
  <2>1. v \in Left(D, old) /\ v \notin D2
    BY DEF Left
  <2>2. PICK q \in Stay(I, rows) : Origin(rows, q) = v
    BY <2>1 DEF Fits
  <2> QED BY <2>1, <2>2
<1> QED BY <1>1, <1>2, <1>3 DEF Fits
-----------------------------------------------------------------------------
(* Rows that come, go and move: where the row in each place was before *)

WhenCome(place) == [p \in Nat |-> IF p < place THEN p ELSE p - 1]
WhenGone(place) == [p \in Nat |-> IF p < place THEN p ELSE p + 1]
WhenMoved(from, to) == [p \in Nat |-> WasAt(p, from, to)]

(* Where the rows were before one came in: two rows are not one. *)
LEMMA ComeKeepsApart ==
  ASSUME NEW place \in Nat
  PROVE  /\ \A p \in Nat \ {place} : WhenCome(place)[p] \in Nat
         /\ \A p, q \in Nat \ {place} : p < q <=> WhenCome(place)[p] < WhenCome(place)[q]
         /\ \A p, q \in Nat \ {place} : WhenCome(place)[p] = WhenCome(place)[q] => p = q
BY DEF WhenCome

(* Where a row goes that makes room, it has come from. *)
LEMMA ComeAfter ==
  ASSUME NEW place \in Nat, NEW t \in Nat
  PROVE  /\ t >= place => WhenCome(place)[t + 1] = t
         /\ ~ (t >= place) => WhenCome(place)[t] = t
<1>1. t + 1 \in Nat
  OBVIOUS
<1> QED BY <1>1 DEF WhenCome

(* The same where one goes. *)
LEMMA GoneKeepsApart ==
  ASSUME NEW place \in Nat
  PROVE  /\ \A p \in Nat : WhenGone(place)[p] \in Nat /\ WhenGone(place)[p] # place
         /\ \A p, q \in Nat : p < q <=> WhenGone(place)[p] < WhenGone(place)[q]
         /\ \A p, q \in Nat : WhenGone(place)[p] = WhenGone(place)[q] => p = q
BY DEF WhenGone

(* The same where one moves. *)
LEMMA MovedKeepsApart ==
  ASSUME NEW from \in Nat, NEW to \in Nat
  PROVE  /\ \A p \in Nat : WhenMoved(from, to)[p] \in Nat
         /\ \A p, q \in Nat \ {to} : p < q <=> WhenMoved(from, to)[p] < WhenMoved(from, to)[q]
         /\ \A p, q \in Nat : WhenMoved(from, to)[p] = WhenMoved(from, to)[q] => p = q
         /\ WhenMoved(from, to)[to] = from
         /\ \A p \in Nat \ {to} : WhenMoved(from, to)[p] # from
BY DEF WhenMoved, WasAt

(* shift_for_insert_at is the set of the same rows, in their new places. *)
LEMMA ShiftForInsertAtIs ==
  ASSUME NEW S \in SUBSET Nat, NEW place \in Nat, NEW p \in Nat
  PROVE  p \in ShiftForInsertAt(S, place) <=> p # place /\ WhenCome(place)[p] \in S
<1>1. ASSUME p \in ShiftForInsertAt(S, place) PROVE p # place /\ WhenCome(place)[p] \in S
  <2>1. PICK v \in S : p = IF v < place THEN v ELSE v + 1
    BY <1>1 DEF ShiftForInsertAt
  <2>2. v \in Nat
    OBVIOUS
  <2>3. p # place /\ v = IF p < place THEN p ELSE p - 1
    BY <2>1, <2>2
  <2> QED BY <2>3 DEF WhenCome
<1>2. ASSUME p # place, WhenCome(place)[p] \in S PROVE p \in ShiftForInsertAt(S, place)
  <2> DEFINE v == WhenCome(place)[p]
  <2>1. v = IF p < place THEN p ELSE p - 1
    BY DEF WhenCome
  <2>2. p = IF v < place THEN v ELSE v + 1
    BY <1>2, <2>1
  <2> QED BY <1>2, <2>2 DEF ShiftForInsertAt
<1> QED BY <1>1, <1>2

(* erase_at is the set of the same rows, in their new places. *)
LEMMA EraseAtIs ==
  ASSUME NEW S \in SUBSET Nat, NEW place \in Nat, NEW p \in Nat
  PROVE  p \in EraseAt(S, place) <=> WhenGone(place)[p] \in S
<1>1. ASSUME p \in EraseAt(S, place) PROVE WhenGone(place)[p] \in S
  <2>1. PICK v \in S \ {place} : p = IF v < place THEN v ELSE v - 1
    BY <1>1 DEF EraseAt
  <2>2. v \in Nat /\ v # place
    OBVIOUS
  <2>3. v = IF p < place THEN p ELSE p + 1
    BY <2>1, <2>2
  <2> QED BY <2>3 DEF WhenGone
<1>2. ASSUME WhenGone(place)[p] \in S PROVE p \in EraseAt(S, place)
  <2> DEFINE v == WhenGone(place)[p]
  <2>1. v = IF p < place THEN p ELSE p + 1
    BY DEF WhenGone
  <2>2. (p = IF v < place THEN v ELSE v - 1) /\ v # place
    BY <2>1
  <2> QED BY <1>2, <2>2 DEF EraseAt
<1> QED BY <1>1, <1>2

(* Edited sets of places are sets of places. *)
LEMMA EditedAreNumbers ==
  ASSUME NEW S \in SUBSET Nat, NEW place \in Nat
  PROVE  ShiftForInsertAt(S, place) \in SUBSET Nat /\ EraseAt(S, place) \in SUBSET Nat
<1>1. ASSUME NEW v \in S PROVE (IF v < place THEN v ELSE v + 1) \in Nat
  <2>1. v \in Nat
    OBVIOUS
  <2> QED BY <2>1
<1>2. ASSUME NEW v \in S \ {place} PROVE (IF v < place THEN v ELSE v - 1) \in Nat
  <2>1. v \in Nat /\ v # place
    OBVIOUS
  <2> QED BY <2>1
<1> QED BY <1>1, <1>2 DEF ShiftForInsertAt, EraseAt

(* What is erased in one place and let in in another is moved. *)
LEMMA MovedSetIs ==
  ASSUME NEW S \in SUBSET Nat, NEW from \in Nat, NEW to \in Nat, NEW p \in Nat
  PROVE  p \in ShiftForInsertAt(EraseAt(S, from), to) <=> p # to /\ WhenMoved(from, to)[p] \in S
<1>1. EraseAt(S, from) \in SUBSET Nat
  BY EditedAreNumbers
<1>2. p \in ShiftForInsertAt(EraseAt(S, from), to)
        <=> p # to /\ WhenCome(to)[p] \in EraseAt(S, from)
  BY <1>1, ShiftForInsertAtIs
<1>3. ASSUME p # to
      PROVE  WhenCome(to)[p] \in EraseAt(S, from) <=> WhenMoved(from, to)[p] \in S
  <2>1. WhenCome(to)[p] \in Nat
    BY <1>3, ComeKeepsApart
  <2>2. WhenCome(to)[p] \in EraseAt(S, from) <=> WhenGone(from)[WhenCome(to)[p]] \in S
    BY <2>1, EraseAtIs
  <2>3. WhenGone(from)[WhenCome(to)[p]] = WhenMoved(from, to)[p]
    BY <1>3, <2>1 DEF WhenGone, WhenCome, WhenMoved, WasAt
  <2> QED BY <2>2, <2>3
<1> QED BY <1>2, <1>3
-----------------------------------------------------------------------------
(* What a builder tells of a list *)

Entry == [origin : Nat, modified : BOOLEAN, touched : BOOLEAN]
MoveOf == [from : Nat, to : Nat]

IsBuilder(c) ==
  /\ DOMAIN c = DOMAIN NoChanges
  /\ c.deletions \in SUBSET Nat /\ c.insertions \in SUBSET Nat /\ c.modifications \in SUBSET Nat
  /\ c.moves \in Seq(MoveOf) /\ IsInjective(c.moves)

(* No two rows were the same one. *)
OneOriginEach(rows, old) ==
  /\ \A p \in Places(rows) : Origin(rows, p) # None => Origin(rows, p) \in FirstRows(old)
  /\ \A p, q \in Places(rows) : Origin(rows, p) = Origin(rows, q) /\ p # q => Origin(rows, p) = None

(* The moves are the rows among the insertions that were somewhere before. *)
MovesTell(moves, I, rows) ==
  \A m \in MoveOf :
    m \in ToSet(moves) <=> m.to \in I /\ m.from # None /\ Origin(rows, m.to) = m.from

Tells(c, rows, old) ==
  /\ OneOriginEach(rows, old)
  /\ Fits(c.deletions, c.insertions, rows, old)
  /\ MovesTell(c.moves, c.insertions, rows)

(* Of the rows that were somewhere, the modifications are those set. *)
ModsTell(mods, rows) ==
  /\ mods \subseteq Places(rows)
  /\ \A p \in Places(rows) : Origin(rows, p) # None => (p \in mods <=> RowAt(rows, p).modified)

(* A move is its two ends. *)
LEMMA MoveIs ==
  ASSUME NEW m \in MoveOf
  PROVE  /\ m.from \in Nat /\ m.to \in Nat
         /\ \A n \in MoveOf : n = m <=> n.from = m.from /\ n.to = m.to
         /\ m = [from |-> m.from, to |-> m.to]
BY DEF MoveOf

(* Places are below Npos, which stands for no place at all. *)
LEMMA OriginKnown ==
  ASSUME NEW old \in Nat, old < Npos, NEW v \in FirstRows(old)
  PROVE  v # None /\ v \in Nat
BY FirstRowsAre, NposIsNatural DEF None

(* That is what MovesAreMoves asks for. *)
LEMMA TellsMoves ==
  ASSUME NEW rows \in Seq(Entry), NEW old \in Nat, old < Npos, NEW c, IsBuilder(c),
         Tells(c, rows, old)
  PROVE  MovesAreMoves(c, rows)
<1> DEFINE D == c.deletions
           I == c.insertions
<1>1. ASSUME NEW p \in I, Origin(rows, p) # None PROVE Origin(rows, p) \in D
  <2>1. p \in Places(rows) /\ Origin(rows, p) \in FirstRows(old)
    BY <1>1 DEF Tells, Fits, OneOriginEach
  <2>2. ASSUME Origin(rows, p) \notin D PROVE FALSE
    <3>1. PICK q \in Stay(I, rows) : Origin(rows, q) = Origin(rows, p)
      BY <2>1, <2>2 DEF Tells, Fits, Left
    <3>2. q \in Places(rows) /\ q # p
      BY <1>1 DEF Stay
    <3> QED BY <1>1, <2>1, <3>1, <3>2 DEF Tells, OneOriginEach
  <2> QED BY <2>2
<1>2. ASSUME NEW m \in ToSet(c.moves)
      PROVE  m.from \in D /\ m.to \in I /\ Origin(rows, m.to) = m.from
  <2>1. m \in MoveOf
    BY DEF IsBuilder, ToSet
  <2>2. m.to \in I /\ m.from # None /\ Origin(rows, m.to) = m.from
    BY <2>1 DEF Tells, MovesTell
  <2> QED BY <1>1, <2>2
<1>3. ASSUME NEW p \in I, Origin(rows, p) # None
      PROVE  [from |-> Origin(rows, p), to |-> p] \in ToSet(c.moves)
  <2> DEFINE m == [from |-> Origin(rows, p), to |-> p]
  <2>1. p \in Nat /\ Origin(rows, p) \in Nat
    <3>1. p \in Places(rows) /\ p \in Nat
      BY DEF Tells, Fits, IsBuilder
    <3>2. RowAt(rows, p) \in Entry
      BY <3>1, PlacesAre
    <3> QED BY <3>1, <3>2 DEF Origin, Entry
  <2>2. m \in MoveOf /\ m.from = Origin(rows, p) /\ m.to = p
    BY <2>1 DEF MoveOf
  <2> HIDE DEF m
  <2>3. m \in ToSet(c.moves)
    BY <1>3, <2>2 DEF Tells, MovesTell
  <2> QED BY <2>3 DEF m
<1> QED BY <1>2, <1>3 DEF MovesAreMoves, Origin

(* The destinations of the moves change; fresh ones are no old row's. *)
LEMMA Redirected ==
  ASSUME NEW moves \in Seq(MoveOf), IsInjective(moves), NEW pi, NEW fresh,
         NEW moves2, moves2 = [i \in DOMAIN moves |-> moves2[i]],
         \A i \in DOMAIN moves :
           /\ moves2[i] \in MoveOf
           /\ moves2[i].from = moves[i].from
           /\ moves2[i].to \notin fresh
           /\ pi[moves2[i].to] = moves[i].to,
         \A p, q \in Nat \ fresh : pi[p] = pi[q] => p = q
  PROVE  /\ moves2 \in Seq(MoveOf) /\ IsInjective(moves2)
         /\ \A m \in MoveOf :
              m \in ToSet(moves2)
                <=> m.to \notin fresh /\ [from |-> m.from, to |-> pi[m.to]] \in ToSet(moves)
<1>1. DOMAIN moves = 1 .. Len(moves) /\ Len(moves) \in Nat /\ \A i \in DOMAIN moves : moves[i] \in MoveOf
  OBVIOUS
<1>2. DOMAIN moves2 = DOMAIN moves
  OBVIOUS
<1>3. moves2 \in Seq(MoveOf)
  <2>1. moves2 = [i \in 1 .. Len(moves) |-> moves2[i]]
    BY <1>1
  <2>2. \A i \in 1 .. Len(moves) : moves2[i] \in MoveOf
    BY <1>1
  <2> QED BY <1>1, <2>1, <2>2, IsASeq
<1>4. \A i, j \in DOMAIN moves : moves2[i] = moves2[j] => moves[i] = moves[j]
  BY <1>1, MoveIs
<1>5. IsInjective(moves2)
  BY <1>2, <1>4 DEF IsInjective
<1>6. ASSUME NEW m \in MoveOf, m \in ToSet(moves2)
      PROVE  m.to \notin fresh /\ [from |-> m.from, to |-> pi[m.to]] \in ToSet(moves)
  <2>1. PICK i \in DOMAIN moves : m = moves2[i]
    BY <1>2, <1>6 DEF ToSet
  <2>2. moves[i] = [from |-> m.from, to |-> pi[m.to]]
    BY <1>1, <2>1, MoveIs
  <2> QED BY <2>1, <2>2 DEF ToSet
<1>7. ASSUME NEW m \in MoveOf, m.to \notin fresh, [from |-> m.from, to |-> pi[m.to]] \in ToSet(moves)
      PROVE  m \in ToSet(moves2)
  <2>1. PICK i \in DOMAIN moves : moves[i] = [from |-> m.from, to |-> pi[m.to]]
    BY <1>7 DEF ToSet
  <2>2. moves2[i].from = m.from /\ pi[moves2[i].to] = pi[m.to]
    BY <2>1
  <2>3. moves2[i].to \in Nat \ fresh /\ m.to \in Nat \ fresh
    BY <1>7, MoveIs
  <2>4. moves2[i].to = m.to
    BY <2>2, <2>3
  <2>5. moves2[i] = m
    BY <2>2, <2>4, MoveIs
  <2> QED BY <1>2, <2>5 DEF ToSet
<1> QED BY <1>3, <1>5, <1>6, <1>7

(* A change of the list: the row in place p was in pi[p] before, if p is not
   fresh; the insertions are the old ones and extra. *)
Rearranges(pi, fresh, extra, rows2, rows) ==
  /\ fresh \subseteq extra /\ extra \subseteq Places(rows2)
  /\ \A p \in Places(rows2) \ fresh :
       /\ pi[p] \in Places(rows)
       /\ Origin(rows2, p) = Origin(rows, pi[p])
  /\ \A p \in fresh : Origin(rows2, p) = None
  /\ \A p, q \in Places(rows2) \ fresh : pi[p] = pi[q] => p = q
  /\ \A p, q \in Places(rows2) \ extra : p < q => pi[p] < pi[q]

Follows(d, c, pi, fresh, extra, rows2, rows) ==
  /\ d.insertions \subseteq Places(rows2)
  /\ \A p \in Places(rows2) : p \in d.insertions <=> p \in extra \/ pi[p] \in c.insertions
  /\ \A m \in MoveOf :
       m \in ToSet(d.moves) <=>
         /\ m.to \in Places(rows2) \ fresh
         /\ \/ [from |-> m.from, to |-> pi[m.to]] \in ToSet(c.moves)
            \/ /\ m.to \in extra /\ pi[m.to] \notin c.insertions
               /\ m.from # None /\ m.from = Origin(rows, pi[m.to])

(* A builder that follows an edit goes on telling the truth, if it enters the
   deletion of the rows that the edit takes away. *)
LEMMA EditTells ==
  ASSUME NEW rows \in Seq(Entry), NEW rows2 \in Seq(Entry), NEW old \in Nat,
         NEW c, NEW d, IsBuilder(c), Tells(c, rows, old),
         NEW pi, NEW fresh, NEW extra,
         Rearranges(pi, fresh, extra, rows2, rows), Follows(d, c, pi, fresh, extra, rows2, rows),
         c.deletions \subseteq d.deletions, d.deletions \subseteq FirstRows(old),
         \A q \in Stay(c.insertions, rows) :
           Origin(rows, q) \in d.deletions
             <=> ~ \E p \in Places(rows2) : p \notin extra /\ pi[p] = q
  PROVE  Tells(d, rows2, old)
<1> DEFINE I == c.insertions
           J == d.insertions
<1>1. ASSUME NEW p \in Stay(J, rows2)
      PROVE  /\ p \in Places(rows2) /\ p \notin extra /\ p \notin fresh
             /\ pi[p] \in Stay(I, rows)
             /\ Origin(rows2, p) = Origin(rows, pi[p])
             /\ Origin(rows, pi[p]) \notin d.deletions
  <2>1. p \in Places(rows2) /\ p \notin J
    BY DEF Stay
  <2>2. p \notin extra /\ pi[p] \notin I
    BY <2>1 DEF Follows
  <2>3. p \notin fresh
    BY <2>2 DEF Rearranges
  <2>4. pi[p] \in Stay(I, rows) /\ Origin(rows2, p) = Origin(rows, pi[p])
    BY <2>1, <2>2, <2>3 DEF Rearranges, Stay
  <2> QED BY <2>1, <2>2, <2>3, <2>4
<1>2. \A p, q \in Stay(J, rows2) : p < q => pi[p] < pi[q]
  BY <1>1 DEF Rearranges
<1>3. ASSUME NEW q \in Stay(I, rows), Origin(rows, q) \notin d.deletions
      PROVE  \E p \in Stay(J, rows2) : pi[p] = q
  <2>1. PICK p \in Places(rows2) : p \notin extra /\ pi[p] = q
    BY <1>3
  <2>2. q \notin I
    BY DEF Stay
  <2>3. p \in Stay(J, rows2)
    BY <2>1, <2>2 DEF Follows, Stay
  <2> QED BY <2>1, <2>3
<1>4. Fits(d.deletions, J, rows2, old)
  <2>1. J \subseteq Places(rows2) /\ Fits(c.deletions, I, rows, old)
    BY DEF Follows, Tells
  <2> HIDE DEF I, J
  <2> QED BY <1>1, <1>2, <1>3, <2>1, FitsCarries
<1>5. OneOriginEach(rows2, old)
  <2>1. ASSUME NEW p \in Places(rows2), Origin(rows2, p) # None
        PROVE  p \notin fresh /\ pi[p] \in Places(rows) /\ Origin(rows2, p) = Origin(rows, pi[p])
    BY <2>1 DEF Rearranges
  <2>2. ASSUME NEW p \in Places(rows2), NEW q \in Places(rows2),
               Origin(rows2, p) = Origin(rows2, q), p # q, Origin(rows2, p) # None
        PROVE  FALSE
    <3>1. pi[p] # pi[q]
      BY <2>1, <2>2 DEF Rearranges
    <3> QED BY <2>1, <2>2, <3>1 DEF Tells, OneOriginEach
  <2>3. ASSUME NEW p \in Places(rows2), Origin(rows2, p) # None
        PROVE  Origin(rows2, p) \in FirstRows(old)
    BY <2>1, <2>3 DEF Tells, OneOriginEach
  <2> QED BY <2>2, <2>3 DEF OneOriginEach
<1>6. ASSUME NEW m \in MoveOf
      PROVE  m \in ToSet(d.moves) <=> m.to \in J /\ m.from # None /\ Origin(rows2, m.to) = m.from
  <2> DEFINE p == m.to
             q == pi[p]
             n == [from |-> m.from, to |-> q]
  <2>1. CASE p \in Places(rows2) \ fresh
    <3>1. q \in Places(rows) /\ Origin(rows2, p) = Origin(rows, q) /\ p \in Places(rows2)
      BY <2>1 DEF Rearranges
    <3>2. q \in Nat /\ n \in MoveOf /\ n.from = m.from /\ n.to = q
      BY <3>1, PlacesAre DEF MoveOf
    <3>3. n \in ToSet(c.moves) <=> q \in I /\ m.from # None /\ Origin(rows, q) = m.from
      <4> HIDE DEF n, q
      <4> QED BY <3>2 DEF Tells, MovesTell
    <3>4. p \in J <=> p \in extra \/ q \in I
      BY <3>1 DEF Follows
    <3>5. m \in ToSet(d.moves) <=>
            \/ n \in ToSet(c.moves)
            \/ p \in extra /\ q \notin I /\ m.from # None /\ m.from = Origin(rows, q)
      BY <2>1 DEF Follows
    <3> HIDE DEF n, q, I, J
    <3> QED BY <3>1, <3>3, <3>4, <3>5
  <2>2. CASE p \notin Places(rows2)
    BY <2>2 DEF Follows
  <2>3. CASE p \in fresh
    BY <2>3 DEF Follows, Rearranges
  <2> QED BY <2>1, <2>2, <2>3
<1> QED BY <1>4, <1>5, <1>6 DEF Tells, MovesTell

(* The modifications go along. *)
LEMMA EditTellsMods ==
  ASSUME NEW rows, NEW rows2, NEW mods, NEW mods2, NEW pi, NEW fresh, NEW extra,
         Rearranges(pi, fresh, extra, rows2, rows), ModsTell(mods, rows),
         mods2 \subseteq Places(rows2),
         \A p \in Places(rows2) \ fresh :
           /\ p \in mods2 <=> pi[p] \in mods
           /\ RowAt(rows2, p).modified = RowAt(rows, pi[p]).modified
  PROVE  ModsTell(mods2, rows2)
<1>1. ASSUME NEW p \in Places(rows2), Origin(rows2, p) # None
      PROVE  p \in mods2 <=> RowAt(rows2, p).modified
  <2>1. p \notin fresh
    BY <1>1 DEF Rearranges
  <2>2. pi[p] \in Places(rows) /\ Origin(rows, pi[p]) # None
    BY <1>1, <2>1 DEF Rearranges
  <2> QED BY <2>1, <2>2 DEF ModsTell
<1> QED BY <1>1 DEF ModsTell
-----------------------------------------------------------------------------
(* The operations follow the list *)

Within(c, rows) ==
  /\ c.insertions \subseteq Places(rows)
  /\ c.modifications \subseteq Places(rows)
  /\ \A m \in ToSet(c.moves) : m.to \in c.insertions

ModsFollow(d, c, pi, fresh, rows2) ==
  /\ d.modifications \subseteq Places(rows2)
  /\ \A p \in Places(rows2) \ fresh : p \in d.modifications <=> pi[p] \in c.modifications

(* A new row was nowhere before. *)
LEMMA NewEntryIs == NewEntry \in Entry /\ NewEntry.origin = None
BY NposIsNatural DEF NewEntry, Entry, None

(* An insertion is an edit. *)
LEMMA ComeRearranges ==
  ASSUME NEW rows \in Seq(Entry), NEW place \in 0 .. Len(rows)
  PROVE  LET rows2 == WithEntry(rows, place, NewEntry) IN
         /\ rows2 \in Seq(Entry) /\ Len(rows2) = Len(rows) + 1
         /\ Rearranges(WhenCome(place), {place}, {place}, rows2, rows)
         /\ \A p \in Places(rows2) \ {place} : RowAt(rows2, p) = RowAt(rows, WhenCome(place)[p])
<1> DEFINE rows2 == WithEntry(rows, place, NewEntry)
           pi == WhenCome(place)
<1>1. place \in Nat /\ Len(rows) \in Nat /\ place <= Len(rows)
  OBVIOUS
<1>2. rows2 \in Seq(Entry) /\ HasCome(rows2, rows, place, NewEntry)
  BY NewEntryIs, WithEntryIs
<1>3. Len(rows2) = Len(rows) + 1
  BY <1>2 DEF HasCome
<1> HIDE DEF rows2
<1>4. /\ \A p : p \in Places(rows) <=> p \in Nat /\ p < Len(rows)
      /\ \A p : p \in Places(rows2) <=> p \in Nat /\ p < Len(rows2)
  BY <1>2, PlacesAre
<1>5. ASSUME NEW p \in Places(rows2) \ {place}
      PROVE  pi[p] \in Places(rows) /\ RowAt(rows2, p) = RowAt(rows, pi[p])
  <2>1. p \in Nat /\ p < Len(rows) + 1 /\ p # place
    BY <1>3, <1>4
  <2>2. CASE p < place
    <3>1. pi[p] = p /\ p \in 0 .. place - 1 /\ p < Len(rows)
      BY <1>1, <2>1, <2>2 DEF WhenCome
    <3> QED BY <1>2, <1>4, <2>1, <3>1 DEF HasCome
  <2>3. CASE ~ (p < place)
    <3>1. pi[p] = p - 1 /\ p \in place + 1 .. Len(rows) /\ p - 1 < Len(rows) /\ p - 1 \in Nat
      BY <1>1, <2>1, <2>3 DEF WhenCome
    <3> QED BY <1>2, <1>4, <2>1, <3>1 DEF HasCome
  <2> QED BY <2>2, <2>3
<1>6. place \in Places(rows2) /\ Origin(rows2, place) = None
  BY <1>1, <1>2, <1>3, <1>4, NewEntryIs DEF HasCome, Origin
<1>7. \A p \in Places(rows2) \ {place} : p \in Nat \ {place}
  BY <1>4
<1>8. Rearranges(pi, {place}, {place}, rows2, rows)
  <2>1. /\ \A p, q \in Nat \ {place} : p < q <=> pi[p] < pi[q]
        /\ \A p, q \in Nat \ {place} : pi[p] = pi[q] => p = q
    BY <1>1, ComeKeepsApart
  <2> HIDE DEF pi
  <2> QED BY <1>5, <1>6, <1>7, <2>1 DEF Rearranges, Origin
<1> QED BY <1>2, <1>3, <1>5, <1>8 DEF rows2

(* An erasure is an edit. *)
LEMMA GoneRearranges ==
  ASSUME NEW rows \in Seq(Entry), NEW place \in Places(rows)
  PROVE  LET rows2 == WithoutEntry(rows, place) IN
         /\ rows2 \in Seq(Entry) /\ Len(rows2) = Len(rows) - 1
         /\ Rearranges(WhenGone(place), {}, {}, rows2, rows)
         /\ \A p \in Places(rows2) : RowAt(rows2, p) = RowAt(rows, WhenGone(place)[p])
         /\ \A q \in Places(rows) \ {place} : \E p \in Places(rows2) : WhenGone(place)[p] = q
<1> DEFINE rows2 == WithoutEntry(rows, place)
           pi == WhenGone(place)
<1>1. place \in Nat /\ Len(rows) \in Nat /\ place < Len(rows)
  BY PlacesAre
<1>2. rows2 \in Seq(Entry) /\ HasGone(rows2, rows, place)
  BY WithoutEntryIs
<1>3. Len(rows2) = Len(rows) - 1
  BY <1>2 DEF HasGone
<1> HIDE DEF rows2
<1>4. /\ \A p : p \in Places(rows) <=> p \in Nat /\ p < Len(rows)
      /\ \A p : p \in Places(rows2) <=> p \in Nat /\ p < Len(rows2)
  BY <1>2, PlacesAre
<1>5. ASSUME NEW p \in Places(rows2)
      PROVE  pi[p] \in Places(rows) /\ RowAt(rows2, p) = RowAt(rows, pi[p])
  <2>1. p \in Nat /\ p < Len(rows) - 1
    BY <1>3, <1>4
  <2>2. CASE p < place
    <3>1. pi[p] = p /\ p \in 0 .. place - 1 /\ p < Len(rows)
      BY <1>1, <2>1, <2>2 DEF WhenGone
    <3> QED BY <1>2, <1>4, <2>1, <3>1 DEF HasGone
  <2>3. CASE ~ (p < place)
    <3>1. pi[p] = p + 1 /\ p \in place .. Len(rows) - 2 /\ p + 1 < Len(rows) /\ p + 1 \in Nat
      BY <1>1, <2>1, <2>3 DEF WhenGone
    <3> QED BY <1>2, <1>4, <2>1, <3>1 DEF HasGone
  <2> QED BY <2>2, <2>3
<1>6. ASSUME NEW q \in Places(rows) \ {place} PROVE \E p \in Places(rows2) : pi[p] = q
  <2>1. q \in Nat /\ q < Len(rows) /\ q # place
    BY <1>4
  <2> DEFINE p == IF q < place THEN q ELSE q - 1
  <2>2. p \in Nat /\ p < Len(rows) - 1
    BY <1>1, <2>1
  <2>3. p \in Places(rows2)
    <3> HIDE DEF p
    <3> QED BY <1>3, <1>4, <2>2
  <2>4. q = IF p < place THEN p ELSE p + 1
    BY <1>1, <2>1
  <2> HIDE DEF p
  <2>5. pi[p] = q
    BY <2>2, <2>4 DEF WhenGone
  <2> QED BY <2>3, <2>5
<1>7. \A p \in Places(rows2) : p \in Nat
  BY <1>4
<1>8. Rearranges(pi, {}, {}, rows2, rows)
  <2>1. /\ \A p, q \in Nat : p < q <=> pi[p] < pi[q]
        /\ \A p, q \in Nat : pi[p] = pi[q] => p = q
    BY <1>1, GoneKeepsApart
  <2> HIDE DEF pi
  <2> QED BY <1>5, <1>7, <2>1 DEF Rearranges, Origin
<1> QED BY <1>2, <1>3, <1>5, <1>6, <1>8 DEF rows2

Reorders(rows2, rows, from, to) ==
  /\ rows2 \in Seq(Entry) /\ Len(rows2) = Len(rows)
  /\ Rearranges(WhenMoved(from, to), {}, {to}, rows2, rows)
  /\ \A p \in Places(rows2) : RowAt(rows2, p) = RowAt(rows, WhenMoved(from, to)[p])
  /\ \A q \in Places(rows) \ {from} : \E p \in Places(rows2) : p # to /\ WhenMoved(from, to)[p] = q

(* A move is an edit. *)
LEMMA MovedRearranges ==
  ASSUME NEW rows \in Seq(Entry), NEW from \in Places(rows), NEW to \in Places(rows)
  PROVE  Reorders(Moved(rows, from, to), rows, from, to)
<1> DEFINE rows2 == Moved(rows, from, to)
           pi == WhenMoved(from, to)
<1>1. from \in Nat /\ to \in Nat /\ Len(rows) \in Nat /\ from < Len(rows) /\ to < Len(rows)
  BY PlacesAre
<1>2. /\ rows2 \in Seq(Entry) /\ Len(rows2) = Len(rows)
      /\ \A p \in Places(rows) : RowAt(rows2, p) = RowAt(rows, WasAt(p, from, to))
  BY MovedIs
<1> HIDE DEF rows2
<1>3. /\ \A p : p \in Places(rows) <=> p \in Nat /\ p < Len(rows)
      /\ Places(rows2) = Places(rows)
  BY <1>2, PlacesAre DEF Places
<1>4. ASSUME NEW p \in Places(rows2)
      PROVE  pi[p] \in Places(rows) /\ RowAt(rows2, p) = RowAt(rows, pi[p])
  <2>1. p \in Nat /\ p < Len(rows)
    BY <1>3
  <2>2. pi[p] = WasAt(p, from, to)
    BY <2>1 DEF WhenMoved
  <2>3. WasAt(p, from, to) \in Nat /\ WasAt(p, from, to) < Len(rows)
    BY <1>1, <2>1 DEF WasAt
  <2> QED BY <1>2, <1>3, <2>2, <2>3
<1>5. ASSUME NEW q \in Places(rows) \ {from} PROVE \E p \in Places(rows2) : p # to /\ pi[p] = q
  <2>1. q \in Nat /\ q < Len(rows) /\ q # from
    BY <1>3
  <2> DEFINE r == IF q < from THEN q ELSE q - 1
             p == IF r < to THEN r ELSE r + 1
  <2>2. r \in Nat /\ r < Len(rows) - 1 /\ q = IF r < from THEN r ELSE r + 1
    BY <1>1, <2>1
  <2> HIDE DEF r
  <2>3. p \in Nat /\ p < Len(rows) /\ p # to /\ r = IF p < to THEN p ELSE p - 1
    BY <1>1, <2>2
  <2> HIDE DEF p
  <2>4. pi[p] = q
    BY <2>2, <2>3 DEF WhenMoved, WasAt
  <2> QED BY <1>3, <2>3, <2>4
<1>6. \A p \in Places(rows2) : p \in Nat
  BY <1>3
<1>7. Rearranges(pi, {}, {to}, rows2, rows)
  <2>1. /\ \A p, q \in Nat \ {to} : p < q <=> pi[p] < pi[q]
        /\ \A p, q \in Nat : pi[p] = pi[q] => p = q
    BY <1>1, MovedKeepsApart
  <2> HIDE DEF pi
  <2> QED BY <1>3, <1>4, <1>6, <2>1 DEF Rearranges, Origin
<1> QED BY <1>2, <1>4, <1>5, <1>7 DEF rows2, Reorders
(* CollectionChangeBuilder::insert follows the insertion. *)
LEMMA InsertFollows ==
  ASSUME NEW rows \in Seq(Entry), NEW c, IsBuilder(c), Within(c, rows), NEW place \in 0 .. Len(rows),
         NEW rows2, rows2 = WithEntry(rows, place, NewEntry)
  PROVE  LET d == Insert(c, place) IN
         /\ IsBuilder(d) /\ Within(d, rows2) /\ d.deletions = c.deletions
         /\ Follows(d, c, WhenCome(place), {place}, {place}, rows2, rows)
         /\ ModsFollow(d, c, WhenCome(place), {place}, rows2)
<1> DEFINE d == Insert(c, place)
           pi == WhenCome(place)
           moves2 == [m \in DOMAIN c.moves |->
                        IF c.moves[m].to >= place THEN [c.moves[m] EXCEPT !.to = @ + 1] ELSE c.moves[m]]
<1>1. /\ d.deletions = c.deletions
      /\ d.insertions = InsertAtIndex(c.insertions, place)
      /\ d.modifications = ShiftForInsertAt(c.modifications, place)
      /\ d.moves = moves2
      /\ DOMAIN d = DOMAIN NoChanges
  <2> DEFINE mapping2 == [k \in ShiftForInsertAt(DOMAIN c.mapping, place) |->
                            c.mapping[IF k > place THEN k - 1 ELSE k]]
  <2>1. d = [c EXCEPT !.modifications = ShiftForInsertAt(@, place),
                      !.insertions = InsertAtIndex(@, place),
                      !.moves = moves2,
                      !.mapping = mapping2]
    BY DEF Insert
  <2> HIDE DEF moves2, mapping2, d
  <2> QED BY <2>1 DEF IsBuilder, NoChanges
<1> HIDE DEF moves2
<1>2. /\ place \in Nat /\ Len(rows) \in Nat /\ place <= Len(rows)
      /\ c.insertions \in SUBSET Nat /\ c.modifications \in SUBSET Nat
      /\ c.moves \in Seq(MoveOf) /\ IsInjective(c.moves) /\ c.deletions \in SUBSET Nat
  BY DEF IsBuilder
<1>3. /\ rows2 \in Seq(Entry) /\ Len(rows2) = Len(rows) + 1
      /\ Rearranges(pi, {place}, {place}, rows2, rows)
  BY ComeRearranges
<1>4. /\ \A p : p \in Places(rows) <=> p \in Nat /\ p < Len(rows)
      /\ \A p : p \in Places(rows2) <=> p \in Nat /\ p < Len(rows2)
  BY <1>3, PlacesAre
<1> HIDE DEF d, pi
<1>5. ASSUME NEW p \in Nat
      PROVE  /\ p \in d.insertions <=> p = place \/ pi[p] \in c.insertions
             /\ p # place => (p \in d.modifications <=> pi[p] \in c.modifications)
             /\ p \in d.modifications => p # place
  <2>1. \A S \in SUBSET Nat : p \in ShiftForInsertAt(S, place) <=> p # place /\ pi[p] \in S
    BY <1>2, ShiftForInsertAtIs DEF pi
  <2>2. /\ p \in ShiftForInsertAt(c.insertions, place) <=> p # place /\ pi[p] \in c.insertions
        /\ p \in ShiftForInsertAt(c.modifications, place) <=> p # place /\ pi[p] \in c.modifications
    BY <1>2, <2>1
  <2> QED BY <1>1, <2>2 DEF InsertAtIndex
<1>6. d.insertions \in SUBSET Nat /\ d.modifications \in SUBSET Nat
  <2>1. \A S \in SUBSET Nat : ShiftForInsertAt(S, place) \in SUBSET Nat
    BY <1>2, EditedAreNumbers
  <2> QED BY <1>1, <1>2, <2>1 DEF InsertAtIndex
<1>7. ASSUME NEW p \in Nat, pi[p] \in Places(rows) \/ p = place PROVE p \in Places(rows2)
  <2>1. p # place => pi[p] = IF p < place THEN p ELSE p - 1
    BY DEF pi, WhenCome
  <2>2. p < Len(rows) + 1
    BY <1>2, <1>4, <1>7, <2>1
  <2> QED BY <1>3, <1>4, <2>2
<1>8. ASSUME NEW i \in DOMAIN c.moves
      PROVE  /\ moves2[i] \in MoveOf
             /\ moves2[i].from = c.moves[i].from
             /\ moves2[i].to \notin {place}
             /\ pi[moves2[i].to] = c.moves[i].to
  <2>1. c.moves[i] \in MoveOf
    BY <1>2
  <2>2. c.moves[i].from \in Nat /\ c.moves[i].to \in Nat
    BY <2>1, MoveIs
  <2>3. CASE c.moves[i].to >= place
    <3>1. moves2[i] = [c.moves[i] EXCEPT !.to = @ + 1]
      BY <2>3 DEF moves2
    <3>2. /\ moves2[i] \in MoveOf /\ moves2[i].from = c.moves[i].from
          /\ moves2[i].to = c.moves[i].to + 1
      BY <2>1, <2>2, <3>1 DEF MoveOf
    <3> DEFINE t == c.moves[i].to
    <3>4. t \in Nat /\ t + 1 \in Nat /\ t >= place /\ t + 1 # place
      BY <1>2, <2>2, <2>3
    <3> HIDE DEF t
    <3>5. pi[t + 1] = t
      BY <1>2, <3>4, ComeAfter DEF pi
    <3> QED BY <3>2, <3>4, <3>5 DEF t
  <2>4. CASE ~ (c.moves[i].to >= place)
    <3>1. moves2[i] = c.moves[i]
      BY <2>4 DEF moves2
    <3> DEFINE t == c.moves[i].to
    <3>2. t \in Nat /\ ~ (t >= place) /\ t # place
      BY <1>2, <2>2, <2>4
    <3>3. pi[t] = t
      <4> HIDE DEF t
      <4> QED BY <1>2, <3>2, ComeAfter DEF pi
    <3> QED BY <2>1, <2>2, <3>1, <3>2, <3>3
  <2> QED BY <2>3, <2>4
<1>9. \A p, q \in Nat \ {place} : pi[p] = pi[q] => p = q
  BY <1>2, ComeKeepsApart DEF pi
<1>10. /\ moves2 \in Seq(MoveOf) /\ IsInjective(moves2)
       /\ \A m \in MoveOf :
            m \in ToSet(moves2)
              <=> m.to \notin {place} /\ [from |-> m.from, to |-> pi[m.to]] \in ToSet(c.moves)
  <2>1. moves2 = [i \in DOMAIN c.moves |-> moves2[i]]
    BY DEF moves2
  <2> QED BY <1>2, <1>8, <1>9, <2>1, Redirected
<1>11. IsBuilder(d)
  BY <1>1, <1>2, <1>6, <1>10 DEF IsBuilder
<1>12. \A p \in d.insertions : p \in Places(rows2)
  BY <1>5, <1>6, <1>7 DEF Within
<1>13. \A p \in d.modifications : p \in Places(rows2)
  BY <1>5, <1>6, <1>7 DEF Within
<1>14. ASSUME NEW m \in MoveOf
       PROVE  m \in ToSet(d.moves) <=>
                /\ m.to \in Places(rows2) \ {place}
                /\ \/ [from |-> m.from, to |-> pi[m.to]] \in ToSet(c.moves)
                   \/ /\ m.to \in {place} /\ pi[m.to] \notin c.insertions
                      /\ m.from # None /\ m.from = Origin(rows, pi[m.to])
  <2>1. m.to \in Nat
    BY MoveIs
  <2>2. [from |-> m.from, to |-> pi[m.to]] \in ToSet(c.moves) => pi[m.to] \in c.insertions
    BY DEF Within
  <2>3. [from |-> m.from, to |-> pi[m.to]] \in ToSet(c.moves) => m.to \in Places(rows2)
    BY <1>7, <2>1, <2>2 DEF Within
  <2> QED BY <1>1, <1>10, <2>3
<1>15. Follows(d, c, pi, {place}, {place}, rows2, rows)
  BY <1>4, <1>5, <1>12, <1>14 DEF Follows
<1>16. ModsFollow(d, c, pi, {place}, rows2)
  BY <1>4, <1>5, <1>13 DEF ModsFollow
<1>17. \A m \in ToSet(d.moves) : m.to \in d.insertions
  <2> SUFFICES ASSUME NEW m \in ToSet(d.moves) PROVE m.to \in d.insertions
    OBVIOUS
  <2>1. m \in MoveOf
    BY <1>1, <1>10 DEF ToSet
  <2>2. [from |-> m.from, to |-> pi[m.to]] \in ToSet(c.moves)
    BY <1>1, <1>10, <2>1
  <2>3. pi[m.to] \in c.insertions
    BY <2>2 DEF Within
  <2> QED BY <1>5, <2>1, <2>3, MoveIs
<1>18. Within(d, rows2)
  BY <1>12, <1>13, <1>17 DEF Within
<1> QED BY <1>1, <1>11, <1>15, <1>16, <1>18 DEF d, pi

(* CollectionChangeBuilder::erase follows the erasure. *)
LEMMA EraseFollows ==
  ASSUME NEW rows \in Seq(Entry), NEW c, IsBuilder(c), Within(c, rows), NEW place \in Places(rows),
         place \notin c.insertions => Shift(c.deletions, Unshift(c.insertions, place)) \in Nat,
         NEW rows2, rows2 = WithoutEntry(rows, place)
  PROVE  LET d == Erase(c, place) IN
         /\ IsBuilder(d) /\ Within(d, rows2)
         /\ d.deletions = IF place \in c.insertions THEN c.deletions
                          ELSE AddShifted(c.deletions, Unshift(c.insertions, place))
         /\ Follows(d, c, WhenGone(place), {}, {}, rows2, rows)
         /\ ModsFollow(d, c, WhenGone(place), {}, rows2)
<1> DEFINE d == Erase(c, place)
           pi == WhenGone(place)
           kept == OnlyOf(c.moves, {m \in ToSet(c.moves) : m.to # place})
           moves2 == [m \in DOMAIN kept |->
                        IF kept[m].to > place THEN [kept[m] EXCEPT !.to = @ - 1] ELSE kept[m]]
<1>1. /\ d.deletions = IF place \in c.insertions THEN c.deletions
                       ELSE AddShifted(c.deletions, Unshift(c.insertions, place))
      /\ d.insertions = EraseAt(c.insertions, place)
      /\ d.modifications = EraseAt(c.modifications, place)
      /\ d.moves = moves2
      /\ DOMAIN d = DOMAIN NoChanges
  <2> HIDE DEF kept
  <2>1. d = [c EXCEPT !.modifications = EraseAt(@, place),
                      !.insertions = EraseAt(@, place),
                      !.deletions = IF place \in c.insertions THEN @
                                    ELSE AddShifted(@, Unshift(c.insertions, place)),
                      !.moves = moves2]
    BY DEF Erase, kept
  <2> HIDE DEF moves2, d
  <2> QED BY <2>1 DEF IsBuilder, NoChanges
<1> HIDE DEF moves2
<1>2. /\ place \in Nat /\ Len(rows) \in Nat /\ place < Len(rows)
      /\ c.insertions \in SUBSET Nat /\ c.modifications \in SUBSET Nat
      /\ c.moves \in Seq(MoveOf) /\ IsInjective(c.moves) /\ c.deletions \in SUBSET Nat
  BY PlacesAre DEF IsBuilder
<1>3. /\ rows2 \in Seq(Entry) /\ Len(rows2) = Len(rows) - 1
      /\ Rearranges(pi, {}, {}, rows2, rows)
  BY GoneRearranges
<1>4. /\ \A p : p \in Places(rows) <=> p \in Nat /\ p < Len(rows)
      /\ \A p : p \in Places(rows2) <=> p \in Nat /\ p < Len(rows2)
  BY <1>3, PlacesAre
<1>5. /\ kept \in Seq(MoveOf) /\ IsInjective(kept)
      /\ ToSet(kept) = {m \in ToSet(c.moves) : m.to # place}
  BY <1>2, OnlyOfIs
<1> HIDE DEF d, pi, kept
<1>6. ASSUME NEW p \in Nat
      PROVE  /\ p \in d.insertions <=> pi[p] \in c.insertions
             /\ p \in d.modifications <=> pi[p] \in c.modifications
             /\ pi[p] # place
  <2>1. \A S \in SUBSET Nat : p \in EraseAt(S, place) <=> pi[p] \in S
    BY <1>2, EraseAtIs DEF pi
  <2>2. pi[p] # place
    BY <1>2, GoneKeepsApart DEF pi
  <2> QED BY <1>1, <1>2, <2>1, <2>2
<1>7. d.insertions \in SUBSET Nat /\ d.modifications \in SUBSET Nat
  BY <1>1, <1>2, EditedAreNumbers
<1>8. ASSUME NEW p \in Nat, pi[p] \in Places(rows) PROVE p \in Places(rows2)
  <2>1. pi[p] = IF p < place THEN p ELSE p + 1
    BY DEF pi, WhenGone
  <2>2. p < Len(rows) - 1
    BY <1>2, <1>4, <1>8, <2>1
  <2> QED BY <1>3, <1>4, <2>2
<1>9. ASSUME NEW i \in DOMAIN kept
      PROVE  /\ moves2[i] \in MoveOf
             /\ moves2[i].from = kept[i].from
             /\ moves2[i].to \notin {}
             /\ pi[moves2[i].to] = kept[i].to
  <2>1. kept[i] \in MoveOf /\ kept[i] \in ToSet(kept)
    BY <1>5 DEF ToSet
  <2>2. kept[i].from \in Nat /\ kept[i].to \in Nat /\ kept[i].to # place
    BY <1>5, <2>1, MoveIs
  <2>3. CASE kept[i].to > place
    <3>1. moves2[i] = [kept[i] EXCEPT !.to = @ - 1]
      BY <2>3 DEF moves2
    <3>2. kept[i].to - 1 \in Nat
      BY <1>2, <2>2, <2>3
    <3>3. /\ moves2[i] \in MoveOf /\ moves2[i].from = kept[i].from
          /\ moves2[i].to = kept[i].to - 1
      BY <2>1, <2>2, <3>1, <3>2 DEF MoveOf
    <3> DEFINE t == kept[i].to
    <3>4. t \in Nat /\ t - 1 \in Nat /\ t > place
      BY <1>2, <2>2, <2>3
    <3> HIDE DEF t
    <3>5. pi[t - 1] = t
      BY <1>2, <3>4 DEF pi, WhenGone
    <3> QED BY <3>3, <3>5 DEF t
  <2>4. CASE ~ (kept[i].to > place)
    <3>1. moves2[i] = kept[i]
      BY <2>4 DEF moves2
    <3> DEFINE t == kept[i].to
    <3>2. t \in Nat /\ ~ (t > place) /\ t # place
      BY <1>2, <2>2, <2>4
    <3>3. pi[t] = t
      <4> HIDE DEF t
      <4> QED BY <1>2, <3>2 DEF pi, WhenGone
    <3> QED BY <2>1, <2>2, <3>1, <3>3
  <2> QED BY <2>3, <2>4
<1>10. \A p, q \in Nat : pi[p] = pi[q] => p = q
  BY <1>2, GoneKeepsApart DEF pi
<1>11. /\ moves2 \in Seq(MoveOf) /\ IsInjective(moves2)
       /\ \A m \in MoveOf :
            m \in ToSet(moves2)
              <=> m.to \notin {} /\ [from |-> m.from, to |-> pi[m.to]] \in ToSet(kept)
  <2>1. moves2 = [i \in DOMAIN kept |-> moves2[i]]
    BY DEF moves2
  <2> DEFINE none == {}
  <2>2. \A p, q \in Nat \ none : pi[p] = pi[q] => p = q
    BY <1>10
  <2>3. \A i \in DOMAIN kept :
          /\ moves2[i] \in MoveOf
          /\ moves2[i].from = kept[i].from
          /\ moves2[i].to \notin none
          /\ pi[moves2[i].to] = kept[i].to
    BY <1>9
  <2> HIDE DEF none
  <2>4. /\ moves2 \in Seq(MoveOf) /\ IsInjective(moves2)
        /\ \A m \in MoveOf :
             m \in ToSet(moves2)
               <=> m.to \notin none /\ [from |-> m.from, to |-> pi[m.to]] \in ToSet(kept)
    BY <1>5, <2>1, <2>2, <2>3, Redirected
  <2> QED BY <2>4 DEF none
<1>12. ASSUME NEW m \in MoveOf
       PROVE  m \in ToSet(d.moves) <=> [from |-> m.from, to |-> pi[m.to]] \in ToSet(c.moves)
  <2>1. pi[m.to] # place
    BY <1>6, MoveIs
  <2> QED BY <1>1, <1>5, <1>11, <2>1
<1>13. IsBuilder(d)
  <2>1. d.deletions \in SUBSET Nat
    BY <1>1, <1>2 DEF AddShifted
  <2> QED BY <1>1, <1>7, <1>11, <2>1 DEF IsBuilder
<1>14. \A p \in d.insertions : p \in Places(rows2)
  BY <1>6, <1>7, <1>8 DEF Within
<1>15. \A p \in d.modifications : p \in Places(rows2)
  BY <1>6, <1>7, <1>8 DEF Within
<1>16. ASSUME NEW m \in MoveOf
       PROVE  m \in ToSet(d.moves) <=>
                /\ m.to \in Places(rows2) \ {}
                /\ \/ [from |-> m.from, to |-> pi[m.to]] \in ToSet(c.moves)
                   \/ /\ m.to \in {} /\ pi[m.to] \notin c.insertions
                      /\ m.from # None /\ m.from = Origin(rows, pi[m.to])
  <2>1. m.to \in Nat
    BY MoveIs
  <2>2. [from |-> m.from, to |-> pi[m.to]] \in ToSet(c.moves) => pi[m.to] \in c.insertions
    BY DEF Within
  <2>3. [from |-> m.from, to |-> pi[m.to]] \in ToSet(c.moves) => m.to \in Places(rows2)
    BY <1>8, <2>1, <2>2 DEF Within
  <2> QED BY <1>12, <2>3
<1>17. Follows(d, c, pi, {}, {}, rows2, rows)
  BY <1>4, <1>6, <1>14, <1>16 DEF Follows
<1>18. ModsFollow(d, c, pi, {}, rows2)
  BY <1>4, <1>6, <1>15 DEF ModsFollow
<1>19. \A m \in ToSet(d.moves) : m.to \in d.insertions
  <2> SUFFICES ASSUME NEW m \in ToSet(d.moves) PROVE m.to \in d.insertions
    OBVIOUS
  <2>1. m \in MoveOf
    BY <1>1, <1>11 DEF ToSet
  <2>2. [from |-> m.from, to |-> pi[m.to]] \in ToSet(c.moves)
    BY <1>12, <2>1
  <2>3. pi[m.to] \in c.insertions
    BY <2>2 DEF Within
  <2> QED BY <1>6, <2>1, <2>3, MoveIs
<1>20. Within(d, rows2)
  BY <1>14, <1>15, <1>19 DEF Within
<1> QED BY <1>1, <1>13, <1>17, <1>18, <1>20 DEF d, pi

(* Where a row goes is where it is found to have been. *)
Goes(t, from, to) == IF t = from THEN to ELSE StepAside(t, from, to)

(* A row that steps aside, or goes along, is found where it was. *)
LEMMA StepsAside ==
  ASSUME NEW from \in Nat, NEW to \in Nat, NEW t \in Nat
  PROVE  Goes(t, from, to) \in Nat /\ WhenMoved(from, to)[Goes(t, from, to)] = t
<1> DEFINE u == Goes(t, from, to)
<1>1. u \in Nat
  BY DEF Goes, StepAside
<1>2. WhenMoved(from, to)[u] = WasAt(u, from, to)
  BY <1>1 DEF WhenMoved
<1>3. WasAt(u, from, to) = t
  BY DEF WasAt, StepAside, Goes
<1> QED BY <1>1, <1>2, <1>3

(* A row that is moved, and was neither inserted nor moved before, is from
   now on; it was somewhere, and no other was moved from there. *)
HasOrigin(c, rows, p, shifted) ==
  /\ shifted \in Nat /\ shifted # None /\ shifted = Origin(rows, p)
  /\ \A m \in ToSet(c.moves) : m.from # shifted

IsMoved(d, c, rows2, rows, from, to, shifted) ==
  /\ IsBuilder(d) /\ Within(d, rows2)
  /\ d.deletions = IF from \in c.insertions THEN c.deletions ELSE c.deletions \union {shifted}
  /\ Follows(d, c, WhenMoved(from, to), {}, {to}, rows2, rows)
  /\ ModsFollow(d, c, WhenMoved(from, to), {}, rows2)

(* CollectionChangeBuilder::move follows the move. *)
LEMMA MoveFollows ==
  ASSUME NEW rows \in Seq(Entry), NEW c, IsBuilder(c), Within(c, rows),
         NEW from \in Places(rows), NEW to \in Places(rows), NEW shifted,
         shifted = Shift(c.deletions, Unshift(c.insertions, from)),
         from \notin c.insertions => HasOrigin(c, rows, from, shifted),
         NEW rows2, rows2 = Moved(rows, from, to)
  PROVE  IsMoved(Move(c, from, to), c, rows2, rows, from, to, shifted)
<1> DEFINE d == Move(c, from, to)
           pi == WhenMoved(from, to)
           aside == [m \in DOMAIN c.moves |->
                       [c.moves[m] EXCEPT !.to = IF @ = from THEN to ELSE StepAside(@, from, to)]]
           more == Append(aside, [from |-> shifted, to |-> to])
           moved == IF from \in c.modifications
                    THEN InsertAtIndex(EraseAt(c.modifications, from), to)
                    ELSE ShiftForInsertAt(EraseAt(c.modifications, from), to)
           again == \E m \in DOMAIN c.moves : c.moves[m].to = from
<1>1. again => from \in c.insertions
  BY DEF Within, ToSet
<1>2. /\ d.deletions = IF from \in c.insertions THEN c.deletions ELSE c.deletions \union {shifted}
      /\ d.insertions = InsertAtIndex(EraseAt(c.insertions, from), to)
      /\ d.modifications = moved
      /\ d.moves = IF from \in c.insertions THEN aside ELSE more
      /\ DOMAIN d = DOMAIN NoChanges
  <2> DEFINE c1 == [c EXCEPT !.insertions = InsertAtIndex(EraseAt(@, from), to),
                             !.modifications = moved, !.moves = aside]
  <2>1. d = IF again \/ from \in c.insertions THEN c1
            ELSE [c1 EXCEPT !.deletions = @ \union {shifted},
                            !.moves = Append(@, [from |-> shifted, to |-> to])]
    BY DEF Move
  <2> HIDE DEF aside, moved, d, again
  <2> QED BY <1>1, <2>1 DEF IsBuilder, NoChanges
<1> HIDE DEF again
<1>3. /\ from \in Nat /\ to \in Nat /\ Len(rows) \in Nat /\ from < Len(rows) /\ to < Len(rows)
      /\ c.insertions \in SUBSET Nat /\ c.modifications \in SUBSET Nat
      /\ c.moves \in Seq(MoveOf) /\ IsInjective(c.moves) /\ c.deletions \in SUBSET Nat
  BY PlacesAre DEF IsBuilder
<1>4. /\ rows2 \in Seq(Entry) /\ Len(rows2) = Len(rows)
      /\ Rearranges(pi, {}, {to}, rows2, rows)
      /\ \A q \in Places(rows) \ {from} : \E p \in Places(rows2) : p # to /\ pi[p] = q
  BY MovedRearranges DEF Reorders
<1>5. /\ \A p : p \in Places(rows) <=> p \in Nat /\ p < Len(rows)
      /\ \A p : p \in Places(rows2) <=> p \in Nat /\ p < Len(rows2)
  BY <1>4, PlacesAre
<1>6. \A p \in Nat : WhenMoved(from, to)[p] = WasAt(p, from, to)
  BY DEF WhenMoved
<1> HIDE DEF d, pi
<1>7. pi[to] = from /\ (\A p, q \in Nat : pi[p] = pi[q] => p = q)
  BY <1>3, MovedKeepsApart DEF pi
<1>8. ASSUME NEW p \in Nat
      PROVE  /\ p \in d.insertions <=> p \in {to} \/ pi[p] \in c.insertions
             /\ p \in d.modifications <=> pi[p] \in c.modifications
  <2>1. /\ p \in ShiftForInsertAt(EraseAt(c.insertions, from), to) <=> p # to /\ pi[p] \in c.insertions
        /\ p \in ShiftForInsertAt(EraseAt(c.modifications, from), to)
             <=> p # to /\ pi[p] \in c.modifications
    BY <1>3, MovedSetIs DEF pi
  <2>2. CASE p = to
    BY <1>2, <1>7, <2>1, <2>2 DEF InsertAtIndex
  <2>3. CASE p # to
    BY <1>2, <2>1, <2>3 DEF InsertAtIndex
  <2> QED BY <2>2, <2>3
<1>9. d.insertions \in SUBSET Nat /\ d.modifications \in SUBSET Nat
  <2>1. \A S \in SUBSET Nat : /\ ShiftForInsertAt(EraseAt(S, from), to) \in SUBSET Nat
                              /\ InsertAtIndex(EraseAt(S, from), to) \in SUBSET Nat
    <3>1. \A S \in SUBSET Nat : EraseAt(S, from) \in SUBSET Nat
      BY <1>3, EditedAreNumbers
    <3>2. \A S \in SUBSET Nat : ShiftForInsertAt(S, to) \in SUBSET Nat
      BY <1>3, EditedAreNumbers
    <3>3. \A S \in SUBSET Nat : ShiftForInsertAt(EraseAt(S, from), to) \in SUBSET Nat
      BY <3>1, <3>2
    <3> QED BY <1>3, <3>3 DEF InsertAtIndex
  <2> QED BY <1>2, <1>3, <2>1
<1>10. ASSUME NEW p \in Nat, pi[p] \in Places(rows) PROVE p \in Places(rows2)
  <2>1. WasAt(p, from, to) \in Nat /\ WasAt(p, from, to) < Len(rows)
    BY <1>5, <1>6, <1>10 DEF pi
  <2>2. p < Len(rows)
    BY <1>3, <2>1 DEF WasAt
  <2> QED BY <1>4, <1>5, <2>2
<1> HIDE DEF moved
<1>11. ASSUME NEW i \in DOMAIN c.moves
       PROVE  /\ aside[i] \in MoveOf
              /\ aside[i].from = c.moves[i].from
              /\ aside[i].to \notin {}
              /\ pi[aside[i].to] = c.moves[i].to
  <2>1. c.moves[i] \in MoveOf /\ c.moves[i].to \in Nat
    <3>1. c.moves[i] \in MoveOf
      BY <1>3
    <3> QED BY <3>1, MoveIs
  <2> DEFINE t == c.moves[i].to
             u == Goes(t, from, to)
  <2>2. aside[i] = [c.moves[i] EXCEPT !.to = u]
    BY DEF Goes
  <2>3. u \in Nat /\ pi[u] = t
    <3>1. t \in Nat
      BY <2>1
    <3> HIDE DEF t
    <3> QED BY <1>3, <3>1, StepsAside DEF pi
  <2> HIDE DEF u, aside
  <2>4. aside[i] \in MoveOf /\ aside[i].from = c.moves[i].from /\ aside[i].to = u
    BY <2>1, <2>2, <2>3 DEF MoveOf
  <2> QED BY <2>3, <2>4
<1>12. /\ aside \in Seq(MoveOf) /\ IsInjective(aside)
       /\ \A m \in MoveOf :
            m \in ToSet(aside)
              <=> m.to \notin {} /\ [from |-> m.from, to |-> pi[m.to]] \in ToSet(c.moves)
  <2>1. aside = [i \in DOMAIN c.moves |-> aside[i]]
    OBVIOUS
  <2> DEFINE none == {}
  <2>2. \A p, q \in Nat \ none : pi[p] = pi[q] => p = q
    BY <1>7
  <2>3. \A i \in DOMAIN c.moves :
          /\ aside[i] \in MoveOf
          /\ aside[i].from = c.moves[i].from
          /\ aside[i].to \notin none
          /\ pi[aside[i].to] = c.moves[i].to
    BY <1>11
  <2> HIDE DEF aside, none
  <2>4. /\ aside \in Seq(MoveOf) /\ IsInjective(aside)
        /\ \A m \in MoveOf :
             m \in ToSet(aside)
               <=> m.to \notin none /\ [from |-> m.from, to |-> pi[m.to]] \in ToSet(c.moves)
    BY <1>3, <2>1, <2>2, <2>3, Redirected
  <2> QED BY <2>4 DEF none
<1> HIDE DEF aside
<1> DEFINE n == [from |-> shifted, to |-> to]
<1>13. ASSUME from \notin c.insertions
       PROVE  /\ n \in MoveOf /\ n.from = shifted /\ n.to = to
              /\ more \in Seq(MoveOf) /\ IsInjective(more)
              /\ ToSet(more) = ToSet(aside) \union {n}
  <2>1. n \in MoveOf /\ n.from = shifted /\ n.to = to
    BY <1>3, <1>13 DEF MoveOf, HasOrigin
  <2>2. n \notin ToSet(aside)
    <3>1. SUFFICES ASSUME n \in ToSet(aside) PROVE FALSE
      OBVIOUS
    <3> DEFINE k == [from |-> n.from, to |-> pi[n.to]]
    <3>2. k \in ToSet(c.moves) /\ k.from = shifted
      BY <1>12, <2>1, <3>1
    <3> QED BY <1>13, <3>2 DEF HasOrigin
  <2> DEFINE one == <<n>>
  <2>3. one \in Seq(MoveOf) /\ ToSet(one) = {n} /\ IsInjective(one)
    BY <2>1 DEF ToSet, IsInjective
  <2>4. more = aside \o one
    BY <1>12, <2>1
  <2> HIDE DEF one, more, n
  <2>5. ToSet(aside) \cap ToSet(one) = {}
    BY <2>2, <2>3
  <2>6. /\ aside \o one \in Seq(MoveOf) /\ ToSet(aside \o one) = ToSet(aside) \union ToSet(one)
        /\ IsInjective(aside \o one)
    BY <1>12, <2>3, <2>5, Joined
  <2> QED BY <2>1, <2>3, <2>4, <2>6
<1> HIDE DEF more, n
<1>14. d.moves \in Seq(MoveOf) /\ IsInjective(d.moves)
  BY <1>2, <1>12, <1>13
<1>15. ASSUME NEW m \in MoveOf
       PROVE  m \in ToSet(d.moves)
                <=> \/ [from |-> m.from, to |-> pi[m.to]] \in ToSet(c.moves)
                    \/ /\ m.to \in {to} /\ pi[m.to] \notin c.insertions
                       /\ m.from # None /\ m.from = Origin(rows, pi[m.to])
  <2>1. CASE from \in c.insertions
    <3>1. m.to = to => pi[m.to] \in c.insertions
      BY <1>7, <2>1
    <3> QED BY <1>2, <1>12, <2>1, <3>1
  <2>2. CASE from \notin c.insertions
    <3>1. m \in ToSet(d.moves) <=> m \in ToSet(aside) \/ m = n
      BY <1>2, <1>13, <2>2
    <3>2. m = n <=> m.from = shifted /\ m.to = to
      BY <1>13, <2>2, MoveIs
    <3>3. m = n <=> m.to \in {to} /\ pi[m.to] \notin c.insertions
                    /\ m.from # None /\ m.from = Origin(rows, pi[m.to])
      BY <1>7, <2>2, <3>2 DEF HasOrigin
    <3> QED BY <1>12, <3>1, <3>3
  <2> QED BY <2>1, <2>2
<1>16. IsBuilder(d)
  <2>1. d.deletions \in SUBSET Nat
    BY <1>2, <1>3 DEF HasOrigin
  <2> QED BY <1>2, <1>9, <1>14, <2>1 DEF IsBuilder
<1>17. to \in Places(rows2)
  BY <1>3, <1>4, <1>5
<1>18. \A p \in d.insertions : p \in Places(rows2)
  BY <1>8, <1>9, <1>10, <1>17 DEF Within
<1>19. \A p \in d.modifications : p \in Places(rows2)
  BY <1>8, <1>9, <1>10 DEF Within
<1>20. ASSUME NEW m \in MoveOf
       PROVE  m \in ToSet(d.moves) <=>
                /\ m.to \in Places(rows2) \ {}
                /\ \/ [from |-> m.from, to |-> pi[m.to]] \in ToSet(c.moves)
                   \/ /\ m.to \in {to} /\ pi[m.to] \notin c.insertions
                      /\ m.from # None /\ m.from = Origin(rows, pi[m.to])
  <2>1. m.to \in Nat
    BY MoveIs
  <2>2. [from |-> m.from, to |-> pi[m.to]] \in ToSet(c.moves) => pi[m.to] \in c.insertions
    BY DEF Within
  <2>3. [from |-> m.from, to |-> pi[m.to]] \in ToSet(c.moves) => m.to \in Places(rows2)
    BY <1>10, <2>1, <2>2 DEF Within
  <2> QED BY <1>15, <1>17, <2>3
<1>21. Follows(d, c, pi, {}, {to}, rows2, rows)
  BY <1>5, <1>8, <1>18, <1>20 DEF Follows
<1>22. ModsFollow(d, c, pi, {}, rows2)
  BY <1>5, <1>8, <1>19 DEF ModsFollow
<1>23. \A m \in ToSet(d.moves) : m.to \in d.insertions
  <2> SUFFICES ASSUME NEW m \in ToSet(d.moves) PROVE m.to \in d.insertions
    OBVIOUS
  <2>1. m \in MoveOf
    BY <1>14 DEF ToSet
  <2>2. [from |-> m.from, to |-> pi[m.to]] \in ToSet(c.moves) => pi[m.to] \in c.insertions
    BY DEF Within
  <2>3. pi[m.to] \in c.insertions \/ m.to \in {to}
    BY <1>15, <2>1, <2>2
  <2> QED BY <1>8, <2>1, <2>3, MoveIs
<1>24. Within(d, rows2)
  BY <1>18, <1>19, <1>23 DEF Within
<1> QED BY <1>2, <1>16, <1>21, <1>22, <1>24 DEF d, pi, IsMoved

-----------------------------------------------------------------------------
(* What is known of a list while its log is read *)

Keeps(c, rows, old) ==
  IsBuilder(c) /\ Tells(c, rows, old) /\ ModsTell(c.modifications, rows)

(* A list of values that was cleared: how long it was is not known yet. *)
Cleared(c, rows) ==
  /\ IsBuilder(c)
  /\ c.deletions = FirstRows(Npos) /\ c.insertions = Places(rows) /\ c.moves = << >>
  /\ c.modifications \subseteq Places(rows)
  /\ \A p \in Places(rows) : Origin(rows, p) = None

(* A builder that tells the truth names places of the list. *)
LEMMA KeepsWithin ==
  ASSUME NEW rows, NEW old, NEW c, Keeps(c, rows, old)
  PROVE  Within(c, rows)
<1>1. \A m \in ToSet(c.moves) : m \in MoveOf
  BY DEF Keeps, IsBuilder, ToSet
<1> QED BY <1>1 DEF Keeps, Tells, Fits, MovesTell, ModsTell, Within

(* So does one of a list that was cleared. *)
LEMMA ClearedWithin ==
  ASSUME NEW rows, NEW c, Cleared(c, rows)
  PROVE  Within(c, rows)
<1>1. ToSet(c.moves) = {}
  BY DEF Cleared, ToSet
<1> QED BY <1>1 DEF Cleared, Within

(* The rows that stay have an origin the builder finds. *)
LEMMA KeepsOrigins ==
  ASSUME NEW rows \in Seq(Entry), NEW old \in Nat, old < Npos, NEW c, Keeps(c, rows, old),
         NEW p \in Places(rows), p \notin c.insertions,
         NEW shifted, shifted = Shift(c.deletions, Unshift(c.insertions, p))
  PROVE  /\ shifted = Origin(rows, p) /\ shifted \in Nat /\ shifted # None
         /\ shifted \in FirstRows(old) /\ shifted \notin c.deletions
         /\ \A m \in ToSet(c.moves) : m.from # shifted
<1>1. p \in Stay(c.insertions, rows) /\ Fits(c.deletions, c.insertions, rows, old)
  BY DEF Stay, Keeps, Tells
<1>2. shifted = Origin(rows, p)
  BY <1>1, OriginFound
<1>3. shifted \in FirstRows(old) /\ shifted \notin c.deletions
  BY <1>1, <1>2, SameRank
<1>4. MovesAreMoves(c, rows)
  BY TellsMoves DEF Keeps
<1> QED BY <1>2, <1>3, <1>4, OriginKnown DEF MovesAreMoves

(* A list that was cleared stays so, whatever is done to its new rows. *)
LEMMA ClearedFollows ==
  ASSUME NEW rows, NEW rows2, NEW c, Cleared(c, rows), NEW d, IsBuilder(d), Within(d, rows2),
         d.deletions = c.deletions,
         NEW pi, NEW fresh, NEW extra,
         Rearranges(pi, fresh, extra, rows2, rows), Follows(d, c, pi, fresh, extra, rows2, rows)
  PROVE  Cleared(d, rows2)
<1>1. d.insertions = Places(rows2)
  <2>1. ASSUME NEW p \in Places(rows2) PROVE p \in d.insertions
    BY DEF Cleared, Rearranges, Follows
  <2> QED BY <2>1 DEF Within
<1>2. \A p \in Places(rows2) : Origin(rows2, p) = None
  BY DEF Cleared, Rearranges
<1>3. ToSet(d.moves) = {}
  <2>1. \A m \in ToSet(d.moves) : m \in MoveOf
    BY DEF IsBuilder, ToSet
  <2>2. ToSet(c.moves) = {}
    BY DEF Cleared, ToSet
  <2>3. \A p \in Places(rows2) \ fresh : pi[p] \in c.insertions
    BY DEF Cleared, Rearranges
  <2> QED BY <2>1, <2>2, <2>3 DEF Follows
<1>4. d.moves = << >>
  <2>1. d.moves \in Seq(MoveOf)
    BY DEF IsBuilder
  <2>2. ASSUME d.moves # << >> PROVE FALSE
    <3>1. 1 \in DOMAIN d.moves
      BY <2>1, <2>2
    <3> QED BY <1>3, <3>1 DEF ToSet
  <2> QED BY <2>2
<1> QED BY <1>1, <1>2, <1>4 DEF Cleared, Within

(* The truth is told after an insertion as it was before. *)
LEMMA InsertKeeps ==
  ASSUME NEW rows \in Seq(Entry), NEW old \in Nat, old < Npos, NEW c, NEW place \in 0 .. Len(rows)
  PROVE  /\ Keeps(c, rows, old) => Keeps(Insert(c, place), WithEntry(rows, place, NewEntry), old)
         /\ Cleared(c, rows) => Cleared(Insert(c, place), WithEntry(rows, place, NewEntry))
<1> DEFINE rows2 == WithEntry(rows, place, NewEntry)
           d == Insert(c, place)
           pi == WhenCome(place)
<1>1. /\ rows2 \in Seq(Entry) /\ Len(rows2) = Len(rows) + 1
      /\ Rearranges(pi, {place}, {place}, rows2, rows)
      /\ \A p \in Places(rows2) \ {place} : RowAt(rows2, p) = RowAt(rows, pi[p])
  BY ComeRearranges
<1>2. ASSUME IsBuilder(c), Within(c, rows)
      PROVE  /\ IsBuilder(d) /\ Within(d, rows2) /\ d.deletions = c.deletions
             /\ Follows(d, c, pi, {place}, {place}, rows2, rows)
             /\ ModsFollow(d, c, pi, {place}, rows2)
  <2> HIDE DEF d, pi, rows2
  <2> QED BY <1>2, InsertFollows DEF d, pi, rows2
<1>3. ASSUME Keeps(c, rows, old) PROVE Keeps(d, rows2, old)
  <2>1. IsBuilder(c) /\ Within(c, rows) /\ Tells(c, rows, old) /\ ModsTell(c.modifications, rows)
    BY <1>3, KeepsWithin DEF Keeps
  <2> HIDE DEF d, rows2
  <2>2. c.deletions \subseteq FirstRows(old)
    BY <2>1 DEF Tells, Fits
  <2>3. ASSUME NEW q \in Stay(c.insertions, rows)
        PROVE  Origin(rows, q) \in d.deletions
                 <=> ~ \E p \in Places(rows2) : p \notin {place} /\ pi[p] = q
    <3>1. Origin(rows, q) \notin c.deletions /\ q \in Nat /\ q < Len(rows)
      BY <2>1, PlacesAre DEF Tells, Fits, Left, Stay
    <3> DEFINE p == IF q < place THEN q ELSE q + 1
    <3>2. p \in Nat /\ p < Len(rows) + 1 /\ p # place /\ pi[p] = q
      BY <3>1 DEF WhenCome
    <3> HIDE DEF p
    <3>3. p \in Places(rows2)
      BY <1>1, <3>2, PlacesAre
    <3> QED BY <1>2, <2>1, <3>1, <3>2, <3>3
  <2> HIDE DEF pi
  <2>4. Tells(d, rows2, old)
    BY <1>1, <1>2, <2>1, <2>2, <2>3, EditTells
  <2>5. ModsTell(d.modifications, rows2)
    BY <1>1, <1>2, <2>1, EditTellsMods DEF ModsFollow
  <2> QED BY <1>2, <2>1, <2>4, <2>5 DEF Keeps
<1>4. ASSUME Cleared(c, rows) PROVE Cleared(d, rows2)
  <2>1. IsBuilder(c) /\ Within(c, rows)
    BY <1>4, ClearedWithin DEF Cleared
  <2> HIDE DEF d, rows2, pi
  <2> QED BY <1>1, <1>2, <1>4, <2>1, ClearedFollows
<1> QED BY <1>3, <1>4

(* The same after an erasure. *)
LEMMA EraseKeeps ==
  ASSUME NEW rows \in Seq(Entry), NEW old \in Nat, old < Npos, NEW c, NEW place \in Places(rows)
  PROVE  /\ Keeps(c, rows, old) => Keeps(Erase(c, place), WithoutEntry(rows, place), old)
         /\ Cleared(c, rows) => Cleared(Erase(c, place), WithoutEntry(rows, place))
<1> DEFINE rows2 == WithoutEntry(rows, place)
           d == Erase(c, place)
           pi == WhenGone(place)
           shifted == Shift(c.deletions, Unshift(c.insertions, place))
<1>1. /\ rows2 \in Seq(Entry) /\ Len(rows2) = Len(rows) - 1
      /\ Rearranges(pi, {}, {}, rows2, rows)
      /\ \A p \in Places(rows2) : RowAt(rows2, p) = RowAt(rows, pi[p])
      /\ \A q \in Places(rows) \ {place} : \E p \in Places(rows2) : pi[p] = q
  BY GoneRearranges
<1>2. ASSUME IsBuilder(c), Within(c, rows), place \notin c.insertions => shifted \in Nat
      PROVE  /\ IsBuilder(d) /\ Within(d, rows2)
             /\ d.deletions = IF place \in c.insertions THEN c.deletions
                              ELSE c.deletions \union {shifted}
             /\ Follows(d, c, pi, {}, {}, rows2, rows)
             /\ ModsFollow(d, c, pi, {}, rows2)
  <2> HIDE DEF d, pi, rows2
  <2> QED BY <1>2, EraseFollows DEF d, pi, rows2, AddShifted
<1>3. \A p \in Places(rows2) : pi[p] # place
  BY <1>1, PlacesAre, GoneKeepsApart
<1>4. ASSUME Keeps(c, rows, old) PROVE Keeps(d, rows2, old)
  <2>1. IsBuilder(c) /\ Within(c, rows) /\ Tells(c, rows, old) /\ ModsTell(c.modifications, rows)
    BY <1>4, KeepsWithin DEF Keeps
  <2>2. place \notin c.insertions =>
          /\ shifted = Origin(rows, place) /\ shifted \in Nat /\ shifted \in FirstRows(old)
          /\ shifted \notin c.deletions
    BY <1>4, KeepsOrigins
  <2> HIDE DEF d, rows2, pi, shifted
  <2>3. c.deletions \subseteq FirstRows(old) /\ c.deletions \subseteq d.deletions
        /\ d.deletions \subseteq FirstRows(old)
    BY <1>2, <2>1, <2>2 DEF Tells, Fits
  <2>4. ASSUME NEW q \in Stay(c.insertions, rows)
        PROVE  Origin(rows, q) \in d.deletions
                 <=> ~ \E p \in Places(rows2) : p \notin {} /\ pi[p] = q
    <3>1. Origin(rows, q) \notin c.deletions /\ q \in Places(rows) /\ q \notin c.insertions
      BY <2>1 DEF Tells, Fits, Left, Stay
    <3>2. CASE q = place
      BY <1>2, <1>3, <2>1, <2>2, <3>1, <3>2
    <3>3. CASE q # place
      <4>1. \E p \in Places(rows2) : p \notin {} /\ pi[p] = q
        BY <1>1, <3>1, <3>3
      <4>2. Origin(rows, q) # shifted \/ place \in c.insertions
        <5>1. SUFFICES ASSUME place \notin c.insertions, Origin(rows, q) = Origin(rows, place)
                       PROVE FALSE
          BY <2>2
        <5>2. Origin(rows, place) # None
          BY <2>2, <5>1, OriginKnown
        <5> QED BY <2>1, <3>1, <3>3, <5>1, <5>2 DEF Tells, OneOriginEach
      <4> QED BY <1>2, <2>1, <2>2, <3>1, <4>1, <4>2
    <3> QED BY <3>2, <3>3
  <2>5. Tells(d, rows2, old)
    BY <1>1, <1>2, <2>1, <2>2, <2>3, <2>4, EditTells
  <2>6. ModsTell(d.modifications, rows2)
    BY <1>1, <1>2, <2>1, <2>2, EditTellsMods DEF ModsFollow
  <2> QED BY <1>2, <2>1, <2>2, <2>5, <2>6 DEF Keeps
<1>5. ASSUME Cleared(c, rows) PROVE Cleared(d, rows2)
  <2>1. IsBuilder(c) /\ Within(c, rows) /\ place \in c.insertions
    BY <1>5, ClearedWithin DEF Cleared
  <2> HIDE DEF d, rows2, pi
  <2> QED BY <1>1, <1>2, <1>5, <2>1, ClearedFollows
<1> QED BY <1>4, <1>5

(* The same after a move. *)
LEMMA MoveKeeps ==
  ASSUME NEW rows \in Seq(Entry), NEW old \in Nat, old < Npos, NEW c,
         NEW from \in Places(rows), NEW to \in Places(rows)
  PROVE  /\ Keeps(c, rows, old) => Keeps(Move(c, from, to), Moved(rows, from, to), old)
         /\ Cleared(c, rows) => Cleared(Move(c, from, to), Moved(rows, from, to))
<1> DEFINE rows2 == Moved(rows, from, to)
           d == Move(c, from, to)
           pi == WhenMoved(from, to)
           shifted == Shift(c.deletions, Unshift(c.insertions, from))
           IsNew == from \in c.insertions
           Knows == HasOrigin(c, rows, from, shifted)
<1>1. /\ rows2 \in Seq(Entry) /\ Len(rows2) = Len(rows)
      /\ Rearranges(pi, {}, {to}, rows2, rows)
      /\ \A p \in Places(rows2) : RowAt(rows2, p) = RowAt(rows, pi[p])
      /\ \A q \in Places(rows) \ {from} : \E p \in Places(rows2) : p # to /\ pi[p] = q
  <2>1. Reorders(rows2, rows, from, to)
    BY MovedRearranges
  <2> HIDE DEF rows2
  <2> QED BY <2>1 DEF Reorders
<1>2. ASSUME IsBuilder(c), Within(c, rows), ~ IsNew => Knows
      PROVE  /\ IsBuilder(d) /\ Within(d, rows2)
             /\ d.deletions = IF IsNew THEN c.deletions ELSE c.deletions \union {shifted}
             /\ Follows(d, c, pi, {}, {to}, rows2, rows)
             /\ ModsFollow(d, c, pi, {}, rows2)
  <2>1. IsMoved(d, c, rows2, rows, from, to, shifted)
    <3> HIDE DEF rows2, shifted
    <3> QED BY <1>2, MoveFollows DEF rows2, shifted
  <2> HIDE DEF d, rows2, shifted
  <2> QED BY <2>1 DEF IsMoved
<1>3. /\ from \in Nat /\ to \in Nat /\ \A p \in Places(rows2) : p \in Nat
  BY <1>1, PlacesAre
<1>4. \A p \in Places(rows2) : p # to => pi[p] # from
  BY <1>3, MovedKeepsApart
<1>5. ASSUME Keeps(c, rows, old) PROVE Keeps(d, rows2, old)
  <2>1. IsBuilder(c) /\ Within(c, rows) /\ Tells(c, rows, old) /\ ModsTell(c.modifications, rows)
    BY <1>5, KeepsWithin DEF Keeps
  <2>2. ~ IsNew => Knows /\ shifted \in FirstRows(old) /\ shifted \notin c.deletions
    BY <1>5, KeepsOrigins DEF HasOrigin
  <2>a. Knows => shifted = Origin(rows, from) /\ shifted # None
    BY DEF HasOrigin
  <2> HIDE DEF Knows
  <2> HIDE DEF d, rows2, pi, shifted
  <2>3. c.deletions \subseteq FirstRows(old) /\ c.deletions \subseteq d.deletions
        /\ d.deletions \subseteq FirstRows(old)
    BY <1>2, <2>1, <2>2 DEF Tells, Fits
  <2>4. ASSUME NEW q \in Stay(c.insertions, rows)
        PROVE  Origin(rows, q) \in d.deletions
                 <=> ~ \E p \in Places(rows2) : p \notin {to} /\ pi[p] = q
    <3>1. Origin(rows, q) \notin c.deletions /\ q \in Places(rows) /\ q \notin c.insertions
      BY <2>1 DEF Tells, Fits, Left, Stay
    <3>2. CASE q = from
      BY <1>2, <1>4, <2>1, <2>2, <2>a, <3>1, <3>2
    <3>3. CASE q # from
      <4>1. \E p \in Places(rows2) : p \notin {to} /\ pi[p] = q
        BY <1>1, <3>1, <3>3
      <4>2. Origin(rows, q) # shifted \/ IsNew
        <5>1. SUFFICES ASSUME ~ IsNew, Origin(rows, q) = Origin(rows, from) PROVE FALSE
          BY <2>2, <2>a
        <5>2. Origin(rows, from) # None
          BY <2>2, <2>a, <5>1
        <5> QED BY <2>1, <3>1, <3>3, <5>1, <5>2 DEF Tells, OneOriginEach
      <4> QED BY <1>2, <2>1, <2>2, <3>1, <4>1, <4>2
    <3> QED BY <3>2, <3>3
  <2>5. Tells(d, rows2, old)
    BY <1>1, <1>2, <2>1, <2>2, <2>3, <2>4, EditTells
  <2>6. ModsTell(d.modifications, rows2)
    BY <1>1, <1>2, <2>1, <2>2, EditTellsMods DEF ModsFollow
  <2> QED BY <1>2, <2>1, <2>2, <2>5, <2>6 DEF Keeps
<1>6. ASSUME Cleared(c, rows) PROVE Cleared(d, rows2)
  <2>1. IsBuilder(c) /\ Within(c, rows) /\ IsNew
    BY <1>6, ClearedWithin DEF Cleared
  <2> HIDE DEF d, rows2, pi
  <2> QED BY <1>1, <1>2, <1>6, <2>1, ClearedFollows
<1> QED BY <1>5, <1>6

(* The same rows in the same places: only what is said of them changes. *)
LEMMA SameRowsTell ==
  ASSUME NEW rows, NEW rows2, NEW old, NEW c, NEW d,
         Places(rows2) = Places(rows),
         \A p \in Places(rows) : Origin(rows2, p) = Origin(rows, p),
         d.deletions = c.deletions, d.insertions = c.insertions, d.moves = c.moves, Tells(c, rows, old)
  PROVE  Tells(d, rows2, old)
<1>1. Stay(c.insertions, rows2) = Stay(c.insertions, rows) /\ c.insertions \subseteq Places(rows)
      /\ \A p \in Stay(c.insertions, rows) : p \in Places(rows)
  BY DEF Stay, Tells, Fits
<1>2. Fits(d.deletions, d.insertions, rows2, old)
  <2>1. Fits(c.deletions, c.insertions, rows, old)
    BY DEF Tells
  <2>2. Fits(c.deletions, c.insertions, rows2, old)
    BY <1>1, <2>1 DEF Fits
  <2> QED BY <2>2
<1>3. OneOriginEach(rows2, old)
  BY DEF Tells, OneOriginEach
<1>4. MovesTell(d.moves, d.insertions, rows2)
  BY <1>1 DEF Tells, MovesTell
<1> QED BY <1>2, <1>3, <1>4 DEF Tells

(* Rows are set, in the places of a set. *)
LEMMA SetKeeps ==
  ASSUME NEW rows, NEW rows2, NEW old, NEW c, NEW d, NEW set,
         Places(rows2) = Places(rows), Places(rows) \in SUBSET Nat, set \subseteq Places(rows),
         \A p \in Places(rows) : Origin(rows2, p) = Origin(rows, p),
         \A p \in Places(rows) : Origin(rows, p) # None =>
           (RowAt(rows2, p).modified <=> p \in set \/ RowAt(rows, p).modified),
         DOMAIN d = DOMAIN c,
         d.deletions = c.deletions, d.insertions = c.insertions, d.moves = c.moves,
         d.modifications = c.modifications \union set
  PROVE  /\ Keeps(c, rows, old) => Keeps(d, rows2, old)
         /\ Cleared(c, rows) => Cleared(d, rows2)
<1>1. ASSUME IsBuilder(c) PROVE IsBuilder(d)
  BY <1>1 DEF IsBuilder
<1>2. ASSUME Keeps(c, rows, old) PROVE Keeps(d, rows2, old)
  <2>1. Tells(d, rows2, old)
    BY <1>2, SameRowsTell DEF Keeps
  <2>2. ModsTell(d.modifications, rows2)
    BY <1>2 DEF Keeps, ModsTell
  <2> QED BY <1>1, <1>2, <2>1, <2>2 DEF Keeps
<1>3. ASSUME Cleared(c, rows) PROVE Cleared(d, rows2)
  BY <1>1, <1>3 DEF Cleared
<1> QED BY <1>2, <1>3

(* Modify adds to the modifications and touches nothing else. *)
LEMMA ModifyIs ==
  ASSUME NEW c, IsBuilder(c), NEW p
  PROVE  LET d == Modify(c, p) IN
         /\ DOMAIN d = DOMAIN c
         /\ d.deletions = c.deletions /\ d.insertions = c.insertions /\ d.moves = c.moves
         /\ d.modifications = c.modifications \union {p}
BY DEF Modify, IsBuilder, NoChanges

(* A new row may be set or not. *)
LEMMA InsertSetKeeps ==
  ASSUME NEW rows \in Seq(Entry), NEW old \in Nat, old < Npos, NEW c, NEW place \in 0 .. Len(rows)
  PROVE  LET d == Modify(Insert(c, place), place)
             rows2 == WithEntry(rows, place, NewEntry)
         IN /\ Keeps(c, rows, old) => Keeps(d, rows2, old)
            /\ Cleared(c, rows) => Cleared(d, rows2)
<1> DEFINE b == Insert(c, place)
           d == Modify(b, place)
           rows2 == WithEntry(rows, place, NewEntry)
<1>1. /\ Keeps(c, rows, old) => Keeps(b, rows2, old)
      /\ Cleared(c, rows) => Cleared(b, rows2)
  BY InsertKeeps
<1>2. rows2 \in Seq(Entry) /\ Len(rows2) = Len(rows) + 1
      /\ Rearranges(WhenCome(place), {place}, {place}, rows2, rows)
  BY ComeRearranges
<1> HIDE DEF b, rows2
<1>3. Places(rows2) \in SUBSET Nat /\ {place} \subseteq Places(rows2) /\ Origin(rows2, place) = None
  BY <1>2, PlacesAre DEF Rearranges
<1>4. ASSUME IsBuilder(b)
      PROVE  /\ Keeps(b, rows2, old) => Keeps(d, rows2, old)
             /\ Cleared(b, rows2) => Cleared(d, rows2)
  <2>1. /\ DOMAIN d = DOMAIN b
        /\ d.deletions = b.deletions /\ d.insertions = b.insertions /\ d.moves = b.moves
        /\ d.modifications = b.modifications \union {place}
    BY <1>4, ModifyIs
  <2>2. \A p \in Places(rows2) : Origin(rows2, p) # None =>
          (RowAt(rows2, p).modified <=> p \in {place} \/ RowAt(rows2, p).modified)
    BY <1>3
  <2> HIDE DEF d
  <2> QED BY <1>3, <2>1, <2>2, SetKeeps
<1>5. /\ Keeps(b, rows2, old) => IsBuilder(b)
      /\ Cleared(b, rows2) => IsBuilder(b)
  BY DEF Keeps, Cleared
<1> QED BY <1>1, <1>4, <1>5 DEF b, rows2

(* Two rows change places. *)
Swapped(s, p, q) == [s EXCEPT ![p + 1] = s[q + 1], ![q + 1] = s[p + 1]]

(* Two rows change places, and the others stay. *)
LEMMA SwappedIs ==
  ASSUME NEW rows \in Seq(Entry), NEW p \in Places(rows), NEW q \in Places(rows), p < q
  PROVE  LET rows2 == Swapped(rows, p, q) IN
         /\ rows2 \in Seq(Entry) /\ Len(rows2) = Len(rows)
         /\ RowAt(rows2, p) = RowAt(rows, q) /\ RowAt(rows2, q) = RowAt(rows, p)
         /\ \A r \in Places(rows) : r # p /\ r # q => RowAt(rows2, r) = RowAt(rows, r)
<1> DEFINE rows2 == Swapped(rows, p, q)
<1>1. /\ p + 1 \in 1 .. Len(rows) /\ q + 1 \in 1 .. Len(rows) /\ p + 1 # q + 1 /\ Len(rows) \in Nat
      /\ \A r \in Places(rows) : r \in Nat /\ r + 1 \in 1 .. Len(rows)
      /\ p \in Nat /\ q \in Nat
  BY PlacesAre
<1>2. /\ rows2 \in Seq(Entry) /\ Len(rows2) = Len(rows)
      /\ rows2[p + 1] = rows[q + 1] /\ rows2[q + 1] = rows[p + 1]
      /\ \A i \in 1 .. Len(rows) : i # p + 1 /\ i # q + 1 => rows2[i] = rows[i]
  BY <1>1 DEF Swapped
<1> HIDE DEF rows2
<1>3. \A r \in Places(rows) : r # p /\ r # q => r + 1 # p + 1 /\ r + 1 # q + 1
  BY <1>1
<1>4. RowAt(rows2, p) = RowAt(rows, q) /\ RowAt(rows2, q) = RowAt(rows, p)
  BY <1>2 DEF RowAt
<1>5. \A r \in Places(rows) : r # p /\ r # q => RowAt(rows2, r) = RowAt(rows, r)
  BY <1>1, <1>2, <1>3 DEF RowAt
<1> QED BY <1>2, <1>4, <1>5 DEF rows2

(* The same changes tell the truth of the same rows. *)
LEMMA AlikeKeeps ==
  ASSUME NEW rows, NEW rows2, NEW old, NEW c,
         Places(rows2) = Places(rows), Places(rows) \in SUBSET Nat,
         \A p \in Places(rows) : RowAt(rows2, p) = RowAt(rows, p)
  PROVE  /\ Keeps(c, rows, old) => Keeps(c, rows2, old)
         /\ Cleared(c, rows) => Cleared(c, rows2)
<1> DEFINE none == {}
<1>1. c.modifications = c.modifications \union none /\ none \subseteq Places(rows)
  OBVIOUS
<1>2. /\ \A p \in Places(rows) : Origin(rows2, p) = Origin(rows, p)
      /\ \A p \in Places(rows) : Origin(rows, p) # None =>
           (RowAt(rows2, p).modified <=> p \in none \/ RowAt(rows, p).modified)
  BY DEF Origin
<1> HIDE DEF none
<1> QED BY <1>1, <1>2, SetKeeps

(* The truth is told when two rows change places, as one move or as two. *)
LEMMA SwapKeeps ==
  ASSUME NEW rows \in Seq(Entry), NEW old \in Nat, old < Npos, NEW c,
         NEW p \in Places(rows), NEW q \in Places(rows), p < q
  PROVE  LET d == IF p + 1 = q THEN Move(c, p, q) ELSE Move(Move(c, p, q), q - 1, p)
             rows2 == Swapped(rows, p, q)
         IN /\ Keeps(c, rows, old) => Keeps(d, rows2, old)
            /\ Cleared(c, rows) => Cleared(d, rows2)
<1> DEFINE rows2 == Swapped(rows, p, q)
           one == Moved(rows, p, q)
           two == Moved(one, q - 1, p)
           b == Move(c, p, q)
           d == Move(b, q - 1, p)
<1>1. /\ rows2 \in Seq(Entry) /\ Len(rows2) = Len(rows)
      /\ RowAt(rows2, p) = RowAt(rows, q) /\ RowAt(rows2, q) = RowAt(rows, p)
      /\ \A r \in Places(rows) : r # p /\ r # q => RowAt(rows2, r) = RowAt(rows, r)
  BY SwappedIs
<1>2. /\ p \in Nat /\ q \in Nat /\ q < Len(rows) /\ Len(rows) \in Nat
      /\ \A r : r \in Places(rows) <=> r \in Nat /\ r < Len(rows)
  BY PlacesAre
<1>3. /\ one \in Seq(Entry) /\ Len(one) = Len(rows)
      /\ \A r \in Places(rows) : RowAt(one, r) = RowAt(rows, WasAt(r, p, q))
  BY MovedIs
<1>4. /\ Keeps(c, rows, old) => Keeps(b, one, old)
      /\ Cleared(c, rows) => Cleared(b, one)
  BY MoveKeeps
<1> HIDE DEF rows2, one, b
<1>5. Places(one) = Places(rows) /\ Places(rows2) = Places(rows) /\ Places(rows) \in SUBSET Nat
  BY <1>1, <1>2, <1>3 DEF Places
<1>6. q - 1 \in Places(one) /\ p \in Places(one)
  BY <1>2, <1>5
<1>7. /\ two \in Seq(Entry) /\ Len(two) = Len(one)
      /\ \A r \in Places(one) : RowAt(two, r) = RowAt(one, WasAt(r, q - 1, p))
  BY <1>3, <1>6, MovedIs
<1>8. /\ Keeps(b, one, old) => Keeps(d, two, old)
      /\ Cleared(b, one) => Cleared(d, two)
  BY <1>3, <1>6, MoveKeeps
<1> HIDE DEF two, d
<1>9. CASE p + 1 = q
  <2>1. ASSUME NEW r \in Places(rows) PROVE RowAt(rows2, r) = RowAt(one, r)
    <3>1. r \in Nat
      BY <1>2
    <3>2. WasAt(r, p, q) = IF r = p THEN q ELSE IF r = q THEN p ELSE r
      BY <1>2, <1>9, <3>1 DEF WasAt
    <3> QED BY <1>1, <1>3, <3>2
  <2>2. /\ Keeps(b, one, old) => Keeps(b, rows2, old)
        /\ Cleared(b, one) => Cleared(b, rows2)
    BY <1>5, <2>1, AlikeKeeps
  <2> QED BY <1>4, <1>9, <2>2 DEF b, rows2
<1>10. CASE p + 1 # q
  <2>1. ASSUME NEW r \in Places(rows) PROVE RowAt(rows2, r) = RowAt(two, r)
    <3> DEFINE s == WasAt(r, q - 1, p)
    <3>1. r \in Nat /\ r < Len(rows)
      BY <1>2
    <3>2. s \in Nat /\ s < Len(rows) /\ WasAt(s, p, q) = IF r = p THEN q ELSE IF r = q THEN p ELSE r
      BY <1>2, <1>10, <3>1 DEF WasAt
    <3> HIDE DEF s
    <3>3. s \in Places(rows)
      BY <1>2, <3>2
    <3>4. RowAt(two, r) = RowAt(one, s)
      BY <1>5, <1>7 DEF s
    <3> QED BY <1>1, <1>3, <3>2, <3>3, <3>4
  <2>2. Places(two) = Places(rows)
    BY <1>3, <1>7 DEF Places
  <2>3. /\ Keeps(d, two, old) => Keeps(d, rows2, old)
        /\ Cleared(d, two) => Cleared(d, rows2)
    BY <1>5, <2>1, <2>2, AlikeKeeps
  <2> QED BY <1>4, <1>8, <1>10, <2>3 DEF d, b, rows2
<1> QED BY <1>9, <1>10

(* The truth is told when the list is cleared and its size is known. *)
LEMMA ClearKnownKeeps ==
  ASSUME NEW rows \in Seq(Entry), NEW old \in Nat, NEW c, Keeps(c, rows, old)
  PROVE  Keeps(ClearKnown(c, Len(rows)), << >>, old)
<1> DEFINE d == ClearKnown(c, Len(rows))
<1>1. Len(rows) + Cardinality(c.deletions) - Cardinality(c.insertions) = old
  <2>1. /\ Cardinality(c.deletions) \in Nat /\ Cardinality(c.insertions) \in Nat /\ Len(rows) \in Nat
        /\ old - Cardinality(c.deletions) = Len(rows) - Cardinality(c.insertions)
    <3>1. Fits(c.deletions, c.insertions, rows, old)
      BY DEF Keeps, Tells
    <3> QED BY <3>1, SameCount, PlacesAre
  <2> QED BY <2>1
<1>2. /\ DOMAIN d = DOMAIN NoChanges
      /\ d.deletions = FirstRows(old) /\ d.insertions = {} /\ d.modifications = {} /\ d.moves = << >>
  BY <1>1 DEF ClearKnown, NoChanges
<1> HIDE DEF d
<1>3. Places(<< >>) = {} /\ FirstRows(old) \in SUBSET Nat
  BY PlacesAreNumbers DEF Places, FirstRows
<1>4. << >> \in Seq(MoveOf) /\ IsInjective(<< >>) /\ ToSet(<< >>) = {}
  BY DEF IsInjective, ToSet
<1>5. IsBuilder(d)
  BY <1>2, <1>3, <1>4 DEF IsBuilder
<1>6. Tells(d, << >>, old)
  BY <1>2, <1>3, <1>4 DEF Tells, OneOriginEach, Fits, Stay, Left, MovesTell
<1>7. ModsTell(d.modifications, << >>)
  BY <1>2, <1>3 DEF ModsTell
<1> QED BY <1>5, <1>6, <1>7 DEF Keeps, d

(* A list of values that is cleared is marked deleted throughout. *)
LEMMA ClearUnknownIs == Cleared(ClearUnknown, << >>)
<1> DEFINE d == ClearUnknown
<1>1. /\ DOMAIN d = DOMAIN NoChanges
      /\ d.deletions = FirstRows(Npos) /\ d.insertions = {} /\ d.modifications = {} /\ d.moves = << >>
  BY DEF ClearUnknown, NoChanges
<1> HIDE DEF d
<1>2. Places(<< >>) = {} /\ FirstRows(Npos) \in SUBSET Nat
  BY PlacesAreNumbers, NposIsNatural DEF Places, FirstRows
<1>3. << >> \in Seq(MoveOf) /\ IsInjective(<< >>)
  BY DEF IsInjective
<1>4. IsBuilder(d)
  BY <1>1, <1>2, <1>3 DEF IsBuilder
<1> QED BY <1>1, <1>2, <1>4 DEF Cleared, d

-----------------------------------------------------------------------------
(* Stale moves *)

(* Unshift does not fall. *)
LEMMA UnshiftGrows ==
  ASSUME NEW N \in Nat, NEW S \in SUBSET FirstRows(N), NEW m \in 0 .. N, NEW n \in 0 .. N, m <= n
  PROVE  Unshift(S, m) <= Unshift(S, n)
<1> DEFINE A == Below(FirstRows(N) \ S, m)
           B == Below(FirstRows(N) \ S, n)
<1>1. Unshift(S, m) = Cardinality(A) /\ Unshift(S, n) = Cardinality(B)
  BY OutsideIs
<1>2. FirstRows(N) \ S \in SUBSET Nat /\ n \in Nat
  BY PlacesAreNumbers
<1>3. IsFiniteSet(B)
  BY <1>2, BelowIsFinite
<1>4. A \in SUBSET B
  <2>1. \A v \in FirstRows(N) \ S : v < m => v < n
    BY <1>2
  <2> QED BY <2>1 DEF Below
<1> HIDE DEF A, B
<1>5. Cardinality(A) <= Cardinality(B)
  BY <1>3, <1>4, FS_Subset
<1> QED BY <1>1, <1>5

(* A move between two places that as many rows stay before is none. *)
LEMMA FitsBack ==
  ASSUME NEW rows \in Seq(Entry), NEW old \in Nat, NEW D, NEW I, Fits(D, I, rows, old),
         NEW from \in D, NEW to \in I, Origin(rows, to) = from, Unshift(D, from) = Unshift(I, to)
  PROVE  Fits(D \ {from}, I \ {to}, rows, old)
<1> DEFINE N == Len(rows)
<1>1. N \in Nat /\ D \in SUBSET FirstRows(old) /\ I \in SUBSET FirstRows(N) /\ Places(rows) = FirstRows(N)
  BY PlacesAre DEF Fits, Places
<1>2. D \in SUBSET Nat /\ I \in SUBSET Nat /\ from \in Nat /\ to \in Nat /\ from \in 0 .. old /\ to \in 0 .. N
      /\ from \in FirstRows(old) /\ to \in Places(rows)
  <2>1. from \in FirstRows(old) /\ to \in FirstRows(N)
    BY <1>1
  <2>2. FirstRows(old) \in SUBSET Nat /\ FirstRows(N) \in SUBSET Nat
    BY <1>1, PlacesAreNumbers
  <2>3. from \in 0 .. old /\ to \in 0 .. N
    BY <1>1, <2>1, FirstRowsAre
  <2> QED BY <1>1, <2>1, <2>2, <2>3
<1>3. ASSUME NEW q \in Stay(I, rows)
      PROVE  (q < to => Origin(rows, q) < from) /\ (to < q => from < Origin(rows, q))
  <2> DEFINE v == Origin(rows, q)
  <2>1. /\ q \in Places(rows) /\ q \in Nat /\ q \notin I
        /\ v \in Nat /\ v \notin D /\ v \in FirstRows(old)
        /\ Unshift(I, q) = Unshift(D, v)
    BY SameRank
  <2>2. q \in 0 .. N /\ v \in 0 .. old
    BY <1>1, <2>1, FirstRowsAre
  <2>3. Unshift(I, q) \in Nat /\ Unshift(I, to) \in Nat
    BY <1>1, <1>2, <2>2, OutsideIs
  <2> HIDE DEF v, N
  <2>4. v # from
    BY <2>1
  <2>5. ASSUME q < to PROVE v < from
    <3>1. Unshift(I, q) < Unshift(I, to)
      BY <1>2, <2>1, <2>5, UnshiftRises
    <3>2. from <= v => Unshift(D, from) <= Unshift(D, v)
      BY <1>1, <1>2, <2>2, UnshiftGrows
    <3> QED BY <1>2, <2>1, <2>3, <2>4, <3>1, <3>2
  <2>6. ASSUME to < q PROVE from < v
    <3>1. Unshift(I, to) <= Unshift(I, q)
      <4>1. to <= q
        BY <1>2, <2>1, <2>6
      <4> QED BY <1>1, <1>2, <2>2, <4>1, UnshiftGrows
    <3>2. v < from => Unshift(D, v) < Unshift(D, from)
      BY <1>2, <2>1, UnshiftRises
    <3> QED BY <1>2, <2>1, <2>3, <2>4, <3>1, <3>2
  <2> QED BY <2>5, <2>6 DEF v
<1> HIDE DEF N
<1>4. Stay(I \ {to}, rows) = Stay(I, rows) \union {to} /\ Left(D \ {from}, old) = Left(D, old) \union {from}
  BY <1>2 DEF Stay, Left
<1>5. \A p \in Stay(I \ {to}, rows) : Origin(rows, p) \in Left(D \ {from}, old)
  BY <1>4 DEF Fits
<1>6. ASSUME NEW p \in Stay(I \ {to}, rows), NEW q \in Stay(I \ {to}, rows), p < q
      PROVE  Origin(rows, p) < Origin(rows, q)
  <2>1. ~ (p = to /\ q = to)
    BY <1>2, <1>6
  <2> QED BY <1>3, <1>4, <1>6, <2>1 DEF Fits
<1>7. \A v \in Left(D \ {from}, old) : \E p \in Stay(I \ {to}, rows) : Origin(rows, p) = v
  BY <1>4 DEF Fits
<1> QED BY <1>1, <1>5, <1>6, <1>7 DEF Fits

(* A row that was somewhere and is among the insertions is among the deletions. *)
LEMMA OriginDeleted ==
  ASSUME NEW rows, NEW old, NEW D, NEW I, OneOriginEach(rows, old), Fits(D, I, rows, old),
         NEW p \in I, Origin(rows, p) # None
  PROVE  Origin(rows, p) \in D
<1>1. p \in Places(rows) /\ Origin(rows, p) \in FirstRows(old)
  BY DEF Fits, OneOriginEach
<1>2. ASSUME Origin(rows, p) \notin D PROVE FALSE
  <2>1. PICK q \in Stay(I, rows) : Origin(rows, q) = Origin(rows, p)
    BY <1>1, <1>2 DEF Fits, Left
  <2>2. q \in Places(rows) /\ q # p
    BY DEF Stay
  <2> QED BY <1>1, <2>1, <2>2 DEF OneOriginEach
<1> QED BY <1>2

(* One round of clean_up_stale_moves: moves are those not gone through yet. *)
Cleaning(b, moves, rows, old) ==
  /\ IsBuilder(b)
  /\ Fits(b.deletions, b.insertions, rows, old)
  /\ ToSet(b.moves) \cap moves = {}
  /\ \A m \in MoveOf :
       m \in ToSet(b.moves) \union moves
         <=> m.to \in b.insertions /\ m.from # None /\ Origin(rows, m.to) = m.from

(* A stale move goes with its deletion and its insertion: its row is where
   the others have put it, and stays in their order. *)
LEMMA CleanUpOne ==
  ASSUME NEW rows \in Seq(Entry), NEW old \in Nat, OneOriginEach(rows, old),
         NEW b, NEW moves, Cleaning(b, moves, rows, old), NEW m \in moves, m \in MoveOf
  PROVE  /\ Cleaning(CleanUpStaleMove(b, m), moves \ {m}, rows, old)
         /\ CleanUpStaleMove(b, m).modifications = b.modifications
<1> DEFINE d == CleanUpStaleMove(b, m)
           D == b.deletions
           I == b.insertions
<1>1. m.to \in I /\ m.from # None /\ Origin(rows, m.to) = m.from /\ m \notin ToSet(b.moves)
  BY DEF Cleaning
<1>2. m.from \in D /\ m.to \in Places(rows)
  <2> DEFINE p == m.to
  <2>1. Fits(D, I, rows, old) /\ p \in I /\ Origin(rows, p) # None /\ Origin(rows, p) = m.from
    BY <1>1 DEF Cleaning
  <2> HIDE DEF D, I, p
  <2>2. Origin(rows, p) \in D /\ p \in Places(rows)
    BY <2>1, OriginDeleted DEF Fits
  <2> QED BY <2>1, <2>2 DEF p
<1>3. CASE IsStale(b, m)
  <2>1. /\ d.deletions = D \ {m.from} /\ d.insertions = I \ {m.to} /\ d.moves = b.moves
        /\ d.modifications = b.modifications /\ DOMAIN d = DOMAIN NoChanges
    BY <1>3 DEF CleanUpStaleMove, Cleaning, IsBuilder, NoChanges
  <2> HIDE DEF d
  <2>2. IsBuilder(d)
    BY <2>1 DEF Cleaning, IsBuilder
  <2>3. Unshift(D, m.from) = Unshift(I, m.to)
    BY <1>3 DEF IsStale, Unshift
  <2>4. Fits(d.deletions, d.insertions, rows, old)
    <3>1. Fits(D, I, rows, old)
      BY DEF Cleaning
    <3> HIDE DEF D, I
    <3> QED BY <1>1, <1>2, <2>1, <2>3, <3>1, FitsBack
  <2>5. ASSUME NEW n \in MoveOf
        PROVE  n \in ToSet(d.moves) \union (moves \ {m})
                 <=> n.to \in d.insertions /\ n.from # None /\ Origin(rows, n.to) = n.from
    <3>1. n \in ToSet(b.moves) \union moves <=> n.to \in I /\ n.from # None /\ Origin(rows, n.to) = n.from
      BY DEF Cleaning
    <3>2. n = m <=> n.from = m.from /\ n.to = m.to
      BY MoveIs
    <3>3. n.to = m.to /\ Origin(rows, n.to) = n.from => n = m
      BY <1>1, <3>2
    <3> QED BY <1>1, <2>1, <3>1, <3>2, <3>3
  <2>6. ToSet(d.moves) \cap (moves \ {m}) = {}
    BY <2>1 DEF Cleaning
  <2> QED BY <2>1, <2>2, <2>4, <2>5, <2>6 DEF Cleaning, d
<1>4. CASE ~ IsStale(b, m)
  <2>1. /\ d.deletions = D /\ d.insertions = I /\ d.moves = Append(b.moves, m)
        /\ d.modifications = b.modifications /\ DOMAIN d = DOMAIN NoChanges
    BY <1>4 DEF CleanUpStaleMove, Cleaning, IsBuilder, NoChanges
  <2> HIDE DEF d
  <2>2. b.moves \in Seq(MoveOf) /\ IsInjective(b.moves)
    BY DEF Cleaning, IsBuilder
  <2>3. /\ d.moves \in Seq(MoveOf) /\ IsInjective(d.moves)
        /\ ToSet(d.moves) = ToSet(b.moves) \union {m}
    <3> DEFINE one == <<m>>
    <3>1. one \in Seq(MoveOf) /\ ToSet(one) = {m} /\ IsInjective(one)
      BY DEF ToSet, IsInjective
    <3>2. d.moves = b.moves \o one
      BY <2>1, <2>2
    <3> HIDE DEF one
    <3>3. ToSet(b.moves) \cap ToSet(one) = {}
      BY <1>1, <3>1
    <3>4. /\ b.moves \o one \in Seq(MoveOf) /\ ToSet(b.moves \o one) = ToSet(b.moves) \union ToSet(one)
          /\ IsInjective(b.moves \o one)
      BY <2>2, <3>1, <3>3, Joined
    <3> QED BY <3>1, <3>2, <3>4
  <2>4. IsBuilder(d)
    BY <2>1, <2>3 DEF Cleaning, IsBuilder
  <2>5. ToSet(d.moves) \union (moves \ {m}) = ToSet(b.moves) \union moves
    BY <2>3
  <2>6. ToSet(d.moves) \cap (moves \ {m}) = {}
    BY <2>3 DEF Cleaning
  <2> QED BY <2>1, <2>4, <2>5, <2>6 DEF Cleaning, d
<1> QED BY <1>3, <1>4

(* The truth is told after the stale moves are cleaned up, by induction over
   the moves. *)
LEMMA CleanUpTells ==
  ASSUME NEW rows \in Seq(Entry), NEW old \in Nat, NEW c, IsBuilder(c), Tells(c, rows, old)
  PROVE  LET d == CleanUpStaleMoves(c) IN
         IsBuilder(d) /\ Tells(d, rows, old) /\ d.modifications = c.modifications
<1> DEFINE N == Len(c.moves)
           base == [c EXCEPT !.moves = << >>]
           States == [deletions : SUBSET Nat, insertions : SUBSET Nat, modifications : SUBSET Nat,
                      moves : Seq(MoveOf), mapping : {c.mapping}]
           Step(n, t) == CleanUpStaleMove(t, c.moves[n])
           step == [n \in 1 .. N |-> [t \in States |-> Step(n, t)]]
           after == CHOOSE g : g = [n \in 0 .. N |-> IF n = 0 THEN base ELSE Step(n, g[n - 1])]
           Rest(n) == {c.moves[i] : i \in n + 1 .. N}
           Holds(n, b) == Cleaning(b, Rest(n), rows, old) /\ b.modifications = c.modifications
           S == {n \in Nat : n <= N => Holds(n, after[n])}
<1>1. /\ N \in Nat /\ DOMAIN c.moves = 1 .. N /\ \A n \in 1 .. N : c.moves[n] \in MoveOf
      /\ IsInjective(c.moves)
  BY DEF IsBuilder
<1>2. CleanUpStaleMoves(c) = after[N]
  BY DEF CleanUpStaleMoves
<1>3. \A n \in 1 .. N, t \in States : Step(n, t) \in States /\ step[n][t] = Step(n, t)
  <2>1. ASSUME NEW m \in MoveOf, NEW t \in States PROVE CleanUpStaleMove(t, m) \in States
    <3>1. CASE IsStale(t, m)
      <4>1. t.deletions \ {m.from} \in SUBSET Nat /\ t.insertions \ {m.to} \in SUBSET Nat
        OBVIOUS
      <4>2. CleanUpStaleMove(t, m) = [t EXCEPT !.deletions = @ \ {m.from}, !.insertions = @ \ {m.to}]
        BY <3>1 DEF CleanUpStaleMove
      <4> DEFINE D == t.deletions \ {m.from}
                 I == t.insertions \ {m.to}
      <4>3. CleanUpStaleMove(t, m) = [t EXCEPT !.deletions = D, !.insertions = I]
        BY <4>2
      <4>4. D \in SUBSET Nat /\ I \in SUBSET Nat
        BY <4>1
      <4> HIDE DEF D, I
      <4> QED BY <4>3, <4>4
    <3>2. CASE ~ IsStale(t, m)
      <4> DEFINE more == Append(t.moves, m)
      <4>1. CleanUpStaleMove(t, m) = [t EXCEPT !.moves = more] /\ more \in Seq(MoveOf)
        BY <3>2 DEF CleanUpStaleMove
      <4> HIDE DEF more
      <4> QED BY <4>1
    <3> QED BY <3>1, <3>2
  <2> HIDE DEF States
  <2> QED BY <1>1, <2>1
<1>4. /\ base.deletions = c.deletions /\ base.insertions = c.insertions /\ base.moves = << >>
      /\ base.modifications = c.modifications /\ DOMAIN base = DOMAIN NoChanges
      /\ base \in States
  <2>1. DOMAIN c = {"deletions", "insertions", "modifications", "moves", "mapping"}
    BY DEF IsBuilder, NoChanges
  <2>2. /\ base.deletions = c.deletions /\ base.insertions = c.insertions /\ base.moves = << >>
        /\ base.modifications = c.modifications /\ base.mapping = c.mapping
        /\ DOMAIN base = DOMAIN NoChanges
    BY <2>1 DEF NoChanges
  <2>3. base = [deletions |-> c.deletions, insertions |-> c.insertions,
                modifications |-> c.modifications, moves |-> << >>, mapping |-> c.mapping]
    BY <2>1
  <2>4. << >> \in Seq(MoveOf)
    OBVIOUS
  <2>5. base \in States
    BY <2>3, <2>4 DEF IsBuilder
  <2> QED BY <2>2, <2>5
<1> HIDE DEF base, States
<1>5. \E g : g = [n \in 0 .. N |-> IF n = 0 THEN base ELSE Step(n, g[n - 1])]
  <2> HIDE DEF Step, step, N, after, S
  <2>1. \A n \in 1 .. N, t \in States : step[n][t] \in States
    BY <1>3
  <2>2. PICK g : IsLoop(g, base, N, step) /\ \A n \in 0 .. N : g[n] \in States
    BY <1>1, <1>4, <2>1, LoopStays
  <2>3. g = [n \in 0 .. N |-> IF n = 0 THEN base ELSE step[n][g[n - 1]]]
    BY <2>2 DEF IsLoop
  <2>4. \A n \in 0 .. N : n # 0 => n \in 1 .. N /\ n - 1 \in 0 .. N
    BY <1>1
  <2>5. \A n \in 0 .. N : n # 0 => step[n][g[n - 1]] = Step(n, g[n - 1])
    BY <1>3, <2>2, <2>4
  <2>6. g = [n \in 0 .. N |-> IF n = 0 THEN base ELSE Step(n, g[n - 1])]
    BY <2>3, <2>5
  <2> QED BY <2>6
<1> HIDE DEF N, Step, step
<1>6. after = [n \in 0 .. N |-> IF n = 0 THEN base ELSE Step(n, after[n - 1])]
  BY <1>5
<1> HIDE DEF after
<1>7. after[0] = base /\ \A n \in 1 .. N : after[n] = Step(n, after[n - 1])
  BY <1>1, <1>6
<1>8. 0 \in S
  <2>1. Rest(0) = ToSet(c.moves)
    BY <1>1 DEF ToSet
  <2>2. << >> \in Seq(MoveOf) /\ ToSet(<< >>) = {} /\ IsInjective(<< >>)
    BY DEF ToSet, IsInjective
  <2> HIDE DEF Rest
  <2>3. IsBuilder(base)
    BY <1>4, <2>2 DEF IsBuilder
  <2>4. Cleaning(base, Rest(0), rows, old)
    BY <1>4, <2>1, <2>2, <2>3 DEF Cleaning, Tells, MovesTell
  <2> QED BY <1>4, <1>7, <2>4
<1>9. ASSUME NEW n \in Nat, n \in S PROVE n + 1 \in S
  <2>1. SUFFICES ASSUME n + 1 <= N PROVE Holds(n + 1, after[n + 1])
    OBVIOUS
  <2>2. n + 1 \in 1 .. N /\ (n + 1) - 1 = n /\ n <= N /\ n + 1 \in n + 1 .. N
    BY <1>1, <2>1
  <2> DEFINE b == after[n]
             m == c.moves[n + 1]
  <2>3. Holds(n, b)
    BY <1>9, <2>2
  <2>4. after[n + 1] = CleanUpStaleMove(b, m)
    BY <1>7, <2>2 DEF Step
  <2>5. m \in MoveOf /\ m \in Rest(n)
    BY <1>1, <2>2
  <2>6. Rest(n + 1) = Rest(n) \ {m}
    <3>1. \A i \in n + 1 .. N : i \in DOMAIN c.moves /\ (i = n + 1 \/ i \in (n + 1) + 1 .. N)
      BY <1>1, <2>2
    <3>2. \A i \in (n + 1) + 1 .. N : i \in n + 1 .. N /\ i # n + 1
      BY <1>1, <2>2
    <3>3. \A i \in (n + 1) + 1 .. N : c.moves[i] # m
      BY <1>1, <2>2, <3>1, <3>2 DEF IsInjective
    <3> QED BY <3>1, <3>2, <3>3
  <2>7. OneOriginEach(rows, old)
    BY DEF Tells
  <2> HIDE DEF b, m, Rest
  <2>8. /\ Cleaning(CleanUpStaleMove(b, m), Rest(n) \ {m}, rows, old)
        /\ CleanUpStaleMove(b, m).modifications = b.modifications
    BY <2>3, <2>5, <2>7, CleanUpOne
  <2> QED BY <2>3, <2>4, <2>6, <2>8
<1>10. N \in S
  <2> HIDE DEF S
  <2> QED BY <1>1, <1>8, <1>9, ByInduction
<1>11. Rest(N) = {}
  BY <1>1
<1> HIDE DEF Rest
<1>12. Cleaning(after[N], {}, rows, old) /\ after[N].modifications = c.modifications
  <2>1. Holds(N, after[N])
    BY <1>1, <1>10
  <2> QED BY <1>11, <2>1
<1> DEFINE d == after[N]
<1>13. ToSet(d.moves) \union {} = ToSet(d.moves)
  OBVIOUS
<1> HIDE DEF d
<1>14. IsBuilder(d) /\ Tells(d, rows, old)
  BY <1>12, <1>13 DEF Cleaning, Tells, MovesTell, d
<1> QED BY <1>2, <1>12, <1>14 DEF d

-----------------------------------------------------------------------------
(* Moves merged *)

(* A set of numbers that has one has a least. *)
LEMMA LeastIs ==
  ASSUME NEW A \in SUBSET Nat, A # {}
  PROVE  \E n \in A : \A k \in A : n <= k
<1> DEFINE less == OpToRel(<, Nat)
<1>1. \A x, y \in Nat : x < y => <<x, y>> \in less
  BY DEF OpToRel
<1>2. IsWellFoundedOn(less, Nat)
  BY NatLessThanWellFounded
<1> HIDE DEF less
<1>3. PICK n \in A : \A k \in A : ~ (<<k, n>> \in less)
  BY <1>2, WFMin
<1>4. ASSUME NEW k \in A PROVE n <= k
  <2>1. k \in Nat /\ n \in Nat /\ ~ (k < n)
    BY <1>1, <1>3
  <2> QED BY <2>1
<1> QED BY <1>4

(* What has been merged, while the moves of b are gone through. *)
MergeStates == [kept : Seq(MoveOf), moves : Seq(MoveOf), modified : SUBSET Nat]

Redirection(old, to) == [from |-> old.from, to |-> to]

TakesOver(b, acc, old, m, rest) ==
  [kept |-> Append(acc.kept, Redirection(old, m.to)),
   moves |-> rest,
   modified |-> IF old.to \in b.modifications THEN acc.modified \union {m.to} ELSE acc.modified]

IsTakenOver(d, b, acc, old) ==
  \E m \in ToSet(acc.moves), rest \in Seq(MoveOf) :
    /\ m.from = old.to
    /\ IsInjective(rest) /\ ToSet(rest) = ToSet(acc.moves) \ {m}
    /\ d = TakesOver(b, acc, old, m, rest)

MergedOnce(c, acc, old) ==
  IF old.to \in c.deletions THEN acc
  ELSE [acc EXCEPT !.kept =
          Append(@, Redirection(old, Shift(c.insertions, Unshift(c.deletions, old.to))))]

(* A row that was moved again: its second move is used up. *)
LEMMA MergeAgain ==
  ASSUME NEW b, NEW c, NEW acc \in MergeStates, IsInjective(acc.moves), NEW old \in MoveOf,
         NEW any \in ToSet(acc.moves), any.from = old.to
  PROVE  IsTakenOver(MergeOldMove(b, c, acc, old), b, acc, old)
<1> DEFINE again == {n \in DOMAIN acc.moves : acc.moves[n].from = old.to}
           next == CHOOSE n \in again : \A k \in again : n <= k
           m == acc.moves[next]
           rest == Front([acc.moves EXCEPT ![next] = Last(acc.moves)])
<1>1. acc.moves \in Seq(MoveOf) /\ DOMAIN acc.moves \in SUBSET Nat
  BY DEF MergeStates
<1>2. again # {} /\ again \in SUBSET Nat
  BY <1>1 DEF ToSet
<1>3. next \in again
  <2> HIDE DEF again
  <2>1. \E n \in again : \A k \in again : n <= k
    BY <1>2, LeastIs
  <2> QED BY <2>1
<1>4. next \in DOMAIN acc.moves /\ m.from = old.to
  BY <1>3
<1>5. m \in ToSet(acc.moves)
  BY <1>4 DEF ToSet
<1>6. MergeOldMove(b, c, acc, old) =
        [kept |-> Append(acc.kept, [old EXCEPT !.to = m.to]),
         moves |-> rest,
         modified |-> IF old.to \in b.modifications THEN acc.modified \union {m.to} ELSE acc.modified]
  BY <1>2 DEF MergeOldMove
<1> HIDE DEF next, again
<1>7. rest \in Seq(MoveOf) /\ IsInjective(rest) /\ ToSet(rest) = ToSet(acc.moves) \ {m}
  BY <1>1, <1>4, TakenOut
<1> HIDE DEF m, rest
<1>8. [old EXCEPT !.to = m.to] = Redirection(old, m.to)
  BY DEF MoveOf, Redirection
<1>9. MergeOldMove(b, c, acc, old) = TakesOver(b, acc, old, m, rest)
  BY <1>6, <1>8 DEF TakesOver
<1> QED BY <1>4, <1>5, <1>7, <1>9 DEF IsTakenOver

(* An old move whose row was not moved again goes or shifts. *)
LEMMA MergeOnce ==
  ASSUME NEW b, NEW c, NEW acc \in MergeStates, NEW old \in MoveOf,
         \A m \in ToSet(acc.moves) : m.from # old.to
  PROVE  MergeOldMove(b, c, acc, old) = MergedOnce(c, acc, old)
<1> DEFINE again == {n \in DOMAIN acc.moves : acc.moves[n].from = old.to}
           place == Shift(c.insertions, Unshift(c.deletions, old.to))
<1>1. again = {}
  BY DEF ToSet
<1>2. MergeOldMove(b, c, acc, old) =
        IF old.to \in c.deletions THEN acc
        ELSE [acc EXCEPT !.kept = Append(@, [old EXCEPT !.to = place])]
  BY <1>1 DEF MergeOldMove
<1> HIDE DEF place
<1>3. [old EXCEPT !.to = place] = Redirection(old, place)
  BY DEF MoveOf, Redirection
<1> QED BY <1>2, <1>3 DEF place, MergedOnce

(* A place of the list before c is given up, or its row is found. *)
LEMMA PlaceFound ==
  ASSUME NEW rows2 \in Seq(Entry), NEW n \in Nat, n < Npos, NEW c, IsBuilder(c), Tells(c, rows2, n),
         NEW q \in FirstRows(n), q \notin c.deletions
  PROVE  LET p == Shift(c.insertions, Unshift(c.deletions, q)) IN
         p \in Nat /\ p \in Stay(c.insertions, rows2) /\ Origin(rows2, p) = q
<1> DEFINE D == c.deletions
           I == c.insertions
<1>1. Fits(D, I, rows2, n)
  BY DEF Tells
<1>2. q \in Left(D, n)
  BY DEF Left
<1> HIDE DEF D, I
<1>3. PICK p \in Stay(I, rows2) : Origin(rows2, p) = q
  BY <1>1, <1>2 DEF Fits
<1>4. Shift(I, Unshift(D, Origin(rows2, p))) = p /\ p \in Nat
  BY <1>1, OriginFound, SameRank
<1> QED BY <1>3, <1>4 DEF D, I

Merging(b, c, rows2, acc, done) ==
  /\ acc \in MergeStates
  /\ IsInjective(acc.kept) /\ IsInjective(acc.moves)
  /\ \A m \in MoveOf :
       m \in ToSet(acc.kept) <=>
         \E o \in done : m.from = o.from /\ m.to \in Places(rows2) /\ Origin(rows2, m.to) = o.to
  /\ \A m \in MoveOf :
       m \in ToSet(acc.moves) <=> m \in ToSet(c.moves) /\ \A o \in done : o.to # m.from
  /\ \A p \in Nat :
       p \in acc.modified <=>
         \/ p \in c.modifications
         \/ p \in c.insertions /\ \E o \in done : o.to \in b.modifications /\ Origin(rows2, p) = o.to

(* The moves that are kept, one more among them, are no two of one row. *)
LEMMA KeptGrows ==
  ASSUME NEW kept \in Seq(MoveOf), IsInjective(kept), NEW m \in MoveOf, m \notin ToSet(kept)
  PROVE  /\ Append(kept, m) \in Seq(MoveOf) /\ IsInjective(Append(kept, m))
         /\ ToSet(Append(kept, m)) = ToSet(kept) \union {m}
<1> DEFINE one == <<m>>
<1>1. one \in Seq(MoveOf) /\ ToSet(one) = {m} /\ IsInjective(one)
  BY DEF ToSet, IsInjective
<1>2. Append(kept, m) = kept \o one
  OBVIOUS
<1> HIDE DEF one
<1>3. ToSet(kept) \cap ToSet(one) = {}
  BY <1>1
<1>4. /\ kept \o one \in Seq(MoveOf) /\ ToSet(kept \o one) = ToSet(kept) \union ToSet(one)
      /\ IsInjective(kept \o one)
  BY <1>1, <1>3, Joined
<1> QED BY <1>1, <1>2, <1>4

(* One of b's moves is merged: old is none of those done. *)
LEMMA MergeOldOne ==
  ASSUME NEW rows2 \in Seq(Entry), NEW n \in Nat, n < Npos, NEW b, NEW c,
         IsBuilder(c), Tells(c, rows2, n),
         NEW done, NEW acc, Merging(b, c, rows2, acc, done),
         NEW old \in MoveOf, old.to \in FirstRows(n),
         \A o \in done : o.from # old.from /\ o.to # old.to
  PROVE  Merging(b, c, rows2, MergeOldMove(b, c, acc, old), done \union {old})
<1> DEFINE d == MergeOldMove(b, c, acc, old)
           I == c.insertions
           D == c.deletions
<1>1. /\ acc \in MergeStates /\ acc.kept \in Seq(MoveOf) /\ acc.moves \in Seq(MoveOf)
      /\ acc.modified \in SUBSET Nat
  BY DEF Merging, MergeStates
<1>2. old.to # None /\ old.to \in Nat
  BY OriginKnown
<1>3. \A m \in ToSet(acc.moves) : m \in MoveOf
  BY <1>1 DEF ToSet
<1>4. \A p, q \in Places(rows2) : Origin(rows2, p) = old.to /\ Origin(rows2, q) = old.to => p = q
  BY <1>2 DEF Tells, OneOriginEach
<1>5. \A p \in Nat : p \in I => p \in Places(rows2)
  BY DEF Tells, Fits
<1>6. \A m \in MoveOf : m \in ToSet(c.moves) <=> m.to \in I /\ m.from # None /\ Origin(rows2, m.to) = m.from
  BY DEF Tells, MovesTell
<1>7. ASSUME NEW p \in Nat, p \in Places(rows2), Origin(rows2, p) = old.to,
             NEW kept, kept = Append(acc.kept, Redirection(old, p))
      PROVE  /\ kept \in Seq(MoveOf) /\ IsInjective(kept)
             /\ \A m \in MoveOf :
                  m \in ToSet(kept) <=>
                    \E o \in done \union {old} :
                      m.from = o.from /\ m.to \in Places(rows2) /\ Origin(rows2, m.to) = o.to
  <2> DEFINE new == Redirection(old, p)
  <2>1. new \in MoveOf /\ new.from = old.from /\ new.to = p
    BY <1>7 DEF Redirection, MoveOf
  <2> HIDE DEF new
  <2>2. new \notin ToSet(acc.kept)
    BY <2>1 DEF Merging
  <2>3. kept \in Seq(MoveOf) /\ IsInjective(kept) /\ ToSet(kept) = ToSet(acc.kept) \union {new}
    <3>1. IsInjective(acc.kept) /\ kept = Append(acc.kept, new)
      BY <1>7 DEF Merging, new
    <3> QED BY <1>1, <2>1, <2>2, <3>1, KeptGrows
  <2>4. ASSUME NEW m \in MoveOf
        PROVE  m = new <=> m.from = old.from /\ m.to \in Places(rows2) /\ Origin(rows2, m.to) = old.to
    <3>1. m = new <=> m.from = old.from /\ m.to = p
      BY <2>1, MoveIs
    <3> QED BY <1>4, <1>7, <3>1
  <2>5. ASSUME NEW m \in MoveOf
        PROVE  m \in ToSet(kept) <=>
                 \E o \in done \union {old} :
                   m.from = o.from /\ m.to \in Places(rows2) /\ Origin(rows2, m.to) = o.to
    <3>1. m \in ToSet(acc.kept) <=>
            \E o \in done : m.from = o.from /\ m.to \in Places(rows2) /\ Origin(rows2, m.to) = o.to
      BY DEF Merging
    <3> QED BY <2>3, <2>4, <3>1
  <2> QED BY <2>3, <2>5
<1>8. CASE \E m \in ToSet(acc.moves) : m.from = old.to
  <2>1. PICK any \in ToSet(acc.moves) : any.from = old.to
    BY <1>8
  <2>2. IsInjective(acc.moves)
    BY DEF Merging
  <2>3. PICK m \in ToSet(acc.moves), rest \in Seq(MoveOf) :
          /\ m.from = old.to
          /\ IsInjective(rest) /\ ToSet(rest) = ToSet(acc.moves) \ {m}
          /\ d = TakesOver(b, acc, old, m, rest)
    <3>1. IsTakenOver(d, b, acc, old)
      BY <1>1, <2>1, <2>2, MergeAgain
    <3> HIDE DEF d
    <3> QED BY <3>1 DEF IsTakenOver
  <2> DEFINE p == m.to
  <2>4. m \in MoveOf /\ m \in ToSet(c.moves)
    BY <1>3 DEF Merging
  <2>5. p \in I /\ p \in Nat /\ p \in Places(rows2) /\ Origin(rows2, p) = old.to
    BY <1>5, <1>6, <2>3, <2>4, MoveIs
  <2>6. /\ d.kept = Append(acc.kept, Redirection(old, p)) /\ d.moves = rest
        /\ d.modified = (IF old.to \in b.modifications THEN acc.modified \union {p} ELSE acc.modified)
    BY <2>3 DEF TakesOver
  <2>7. d = [kept |-> d.kept, moves |-> d.moves, modified |-> d.modified]
    BY <2>3 DEF TakesOver
  <2>8. ASSUME NEW x \in MoveOf
        PROVE  x \in ToSet(rest) <=> x \in ToSet(c.moves) /\ \A o \in done \union {old} : o.to # x.from
    <3>1. x \in ToSet(acc.moves) <=> x \in ToSet(c.moves) /\ \A o \in done : o.to # x.from
      BY DEF Merging
    <3>2. x \in ToSet(c.moves) /\ x.from = old.to => x = m
      <4>1. x \in ToSet(c.moves) /\ x.from = old.to => x.to = m.to
        BY <1>4, <1>5, <1>6, <2>5, MoveIs
      <4> QED BY <2>3, <2>4, <4>1, MoveIs
    <3> QED BY <2>3, <3>1, <3>2
  <2>9. ASSUME NEW x \in Nat
        PROVE  x \in d.modified <=>
                 \/ x \in c.modifications
                 \/ x \in I /\ \E o \in done \union {old} : o.to \in b.modifications /\ Origin(rows2, x) = o.to
    <3>1. x \in acc.modified <=>
            \/ x \in c.modifications
            \/ x \in I /\ \E o \in done : o.to \in b.modifications /\ Origin(rows2, x) = o.to
      BY DEF Merging
    <3>2. x = p <=> x \in I /\ Origin(rows2, x) = old.to
      BY <1>4, <1>5, <2>5
    <3> HIDE DEF d, p
    <3> QED BY <2>6, <3>1, <3>2
  <2> HIDE DEF d, p
  <2>10. /\ d.kept \in Seq(MoveOf) /\ IsInjective(d.kept)
         /\ \A x \in MoveOf :
              x \in ToSet(d.kept) <=>
                \E o \in done \union {old} :
                  x.from = o.from /\ x.to \in Places(rows2) /\ Origin(rows2, x.to) = o.to
    BY <1>7, <2>5, <2>6
  <2>11. d.modified \in SUBSET Nat
    BY <1>1, <2>5, <2>6
  <2>12. d \in MergeStates
    BY <2>6, <2>7, <2>10, <2>11 DEF MergeStates
  <2>13. Merging(b, c, rows2, d, done \union {old})
    BY <2>3, <2>6, <2>8, <2>9, <2>10, <2>12 DEF Merging
  <2> QED BY <2>13 DEF d
<1>9. CASE ~ \E m \in ToSet(acc.moves) : m.from = old.to
  <2> DEFINE place == Shift(c.insertions, Unshift(c.deletions, old.to))
  <2>1. d = IF old.to \in c.deletions THEN acc
            ELSE [acc EXCEPT !.kept = Append(@, Redirection(old, place))]
    <3>1. \A m \in ToSet(acc.moves) : m.from # old.to
      BY <1>9
    <3>2. d = MergedOnce(c, acc, old)
      BY <1>1, <3>1, MergeOnce
    <3> QED BY <3>2 DEF MergedOnce
  <2>2. ASSUME NEW p \in Nat, p \in I PROVE Origin(rows2, p) # old.to
    <3>1. SUFFICES ASSUME Origin(rows2, p) = old.to PROVE FALSE
      OBVIOUS
    <3> DEFINE m == Redirection(old, p)
               x == [from |-> old.to, to |-> p]
    <3>2. x \in MoveOf /\ x.from = old.to /\ x.to = p
      BY <1>2 DEF MoveOf
    <3> HIDE DEF x
    <3>3. x \in ToSet(c.moves)
      BY <1>2, <1>6, <2>2, <3>1, <3>2
    <3>4. x \in ToSet(acc.moves)
      BY <3>2, <3>3 DEF Merging
    <3> QED BY <1>9, <3>2, <3>4
  <2>3. ASSUME NEW x \in MoveOf
        PROVE  x \in ToSet(acc.moves) <=> x \in ToSet(c.moves) /\ \A o \in done \union {old} : o.to # x.from
    <3>1. x \in ToSet(acc.moves) <=> x \in ToSet(c.moves) /\ \A o \in done : o.to # x.from
      BY DEF Merging
    <3> QED BY <1>9, <3>1
  <2>4. ASSUME NEW x \in Nat
        PROVE  x \in acc.modified <=>
                 \/ x \in c.modifications
                 \/ x \in I /\ \E o \in done \union {old} : o.to \in b.modifications /\ Origin(rows2, x) = o.to
    <3>1. x \in acc.modified <=>
            \/ x \in c.modifications
            \/ x \in I /\ \E o \in done : o.to \in b.modifications /\ Origin(rows2, x) = o.to
      BY DEF Merging
    <3> QED BY <2>2, <3>1
  <2>5. CASE old.to \in D
    <3>1. \A p \in Places(rows2) : Origin(rows2, p) # old.to
      <4>1. ASSUME NEW p \in Places(rows2), Origin(rows2, p) = old.to PROVE FALSE
        <5>1. p \in Nat /\ p \notin I
          BY <2>2, <4>1, PlacesAre
        <5> QED BY <2>5, <4>1, <5>1 DEF Tells, Fits, Stay, Left
      <4> QED BY <4>1
    <3>2. ASSUME NEW m \in MoveOf
          PROVE  m \in ToSet(acc.kept) <=>
                   \E o \in done \union {old} :
                     m.from = o.from /\ m.to \in Places(rows2) /\ Origin(rows2, m.to) = o.to
      <4>1. m \in ToSet(acc.kept) <=>
              \E o \in done : m.from = o.from /\ m.to \in Places(rows2) /\ Origin(rows2, m.to) = o.to
        BY DEF Merging
      <4> QED BY <3>1, <4>1
    <3>3. d = acc
      BY <2>1, <2>5
    <3> HIDE DEF d
    <3>4. Merging(b, c, rows2, acc, done \union {old})
      BY <1>1, <2>3, <2>4, <3>2 DEF Merging
    <3> QED BY <3>3, <3>4 DEF d
  <2>6. CASE old.to \notin D
    <3>1. place \in Nat /\ place \in Places(rows2) /\ Origin(rows2, place) = old.to
      BY <2>6, PlaceFound DEF Stay
    <3> HIDE DEF place
    <3> DEFINE kept == Append(acc.kept, Redirection(old, place))
    <3>2. /\ kept \in Seq(MoveOf) /\ IsInjective(kept)
          /\ \A m \in MoveOf :
               m \in ToSet(kept) <=>
                 \E o \in done \union {old} :
                   m.from = o.from /\ m.to \in Places(rows2) /\ Origin(rows2, m.to) = o.to
      BY <1>7, <3>1
    <3>3. d = [acc EXCEPT !.kept = kept]
      BY <2>1, <2>6
    <3> HIDE DEF d, kept
    <3>4. d \in MergeStates /\ d.kept = kept /\ d.moves = acc.moves /\ d.modified = acc.modified
      BY <1>1, <3>2, <3>3 DEF MergeStates
    <3>5. Merging(b, c, rows2, d, done \union {old})
      BY <2>3, <2>4, <3>2, <3>4 DEF Merging
    <3> QED BY <3>5 DEF d
  <2> QED BY <2>5, <2>6
<1> QED BY <1>8, <1>9

MergeStart(c) == [kept |-> << >>, moves |-> c.moves, modified |-> c.modifications]
Apart == {x \in MergeStates : IsInjective(x.moves)}

(* A round of the loop keeps the kind of what it goes on with. *)
LEMMA MergeOldStays ==
  ASSUME NEW rows2 \in Seq(Entry), NEW n \in Nat, n < Npos, NEW b, NEW c,
         IsBuilder(c), Tells(c, rows2, n),
         NEW acc \in Apart, NEW old \in MoveOf, old.to \in FirstRows(n)
  PROVE  MergeOldMove(b, c, acc, old) \in Apart
<1> DEFINE d == MergeOldMove(b, c, acc, old)
<1>1. /\ acc \in MergeStates /\ IsInjective(acc.moves)
      /\ acc.kept \in Seq(MoveOf) /\ acc.moves \in Seq(MoveOf) /\ acc.modified \in SUBSET Nat
  BY DEF Apart, MergeStates
<1>2. CASE \E m \in ToSet(acc.moves) : m.from = old.to
  <2>1. PICK any \in ToSet(acc.moves) : any.from = old.to
    BY <1>2
  <2>2. IsTakenOver(d, b, acc, old)
    BY <1>1, <2>1, MergeAgain
  <2> HIDE DEF d
  <2>3. PICK m \in ToSet(acc.moves), rest \in Seq(MoveOf) :
          IsInjective(rest) /\ d = TakesOver(b, acc, old, m, rest)
    BY <2>2 DEF IsTakenOver
  <2>4. m \in MoveOf /\ m.to \in Nat
    BY <1>1, MoveIs DEF ToSet
  <2> DEFINE kept == Append(acc.kept, Redirection(old, m.to))
             modified == IF old.to \in b.modifications THEN acc.modified \union {m.to} ELSE acc.modified
  <2>5. kept \in Seq(MoveOf) /\ modified \in SUBSET Nat
    <3>1. Redirection(old, m.to) \in MoveOf
      BY <2>4 DEF Redirection, MoveOf
    <3>2. kept \in Seq(MoveOf)
      BY <1>1, <3>1
    <3> QED BY <1>1, <2>4, <3>2
  <2>6. d = [kept |-> kept, moves |-> rest, modified |-> modified]
    BY <2>3 DEF TakesOver
  <2> HIDE DEF kept, modified
  <2>7. d \in MergeStates /\ d.moves = rest
    BY <2>5, <2>6 DEF MergeStates
  <2> QED BY <2>3, <2>7 DEF Apart, d
<1>3. CASE ~ \E m \in ToSet(acc.moves) : m.from = old.to
  <2>1. \A m \in ToSet(acc.moves) : m.from # old.to
    BY <1>3
  <2>2. d = MergedOnce(c, acc, old)
    BY <1>1, <2>1, MergeOnce
  <2> HIDE DEF d
  <2>3. CASE old.to \in c.deletions
    BY <2>2, <2>3 DEF MergedOnce, d
  <2>4. CASE old.to \notin c.deletions
    <3> DEFINE place == Shift(c.insertions, Unshift(c.deletions, old.to))
               kept == Append(acc.kept, Redirection(old, place))
    <3>1. place \in Nat
      BY <2>4, PlaceFound
    <3>2. d = [acc EXCEPT !.kept = kept]
      BY <2>2, <2>4 DEF MergedOnce
    <3> HIDE DEF place
    <3>3. Redirection(old, place) \in MoveOf
      BY <3>1 DEF Redirection, MoveOf
    <3>4. kept \in Seq(MoveOf)
      BY <1>1, <3>3
    <3> HIDE DEF kept
    <3>5. d \in MergeStates /\ d.moves = acc.moves
      BY <1>1, <3>2, <3>4 DEF MergeStates
    <3> QED BY <1>1, <3>5 DEF Apart, d
  <2> QED BY <2>3, <2>4
<1> QED BY <1>2, <1>3

(* The loop over b's moves: they are those of the rows in their destinations. *)
LEMMA MergeOldMovesIs ==
  ASSUME NEW rows2 \in Seq(Entry), NEW n \in Nat, n < Npos, NEW b, NEW c,
         IsBuilder(b), IsBuilder(c), Tells(c, rows2, n),
         \A o \in ToSet(b.moves) : o.to \in FirstRows(n),
         \A o, x \in ToSet(b.moves) : o.from = x.from \/ o.to = x.to => o = x
  PROVE  Merging(b, c, rows2, MergeOldMoves(b, c), ToSet(b.moves))
<1> DEFINE N == Len(b.moves)
           base == MergeStart(c)
           Step(i, t) == MergeOldMove(b, c, t, b.moves[i])
           step == [i \in 1 .. N |-> [t \in Apart |-> Step(i, t)]]
           after == CHOOSE g : g = [i \in 0 .. N |-> IF i = 0 THEN base ELSE Step(i, g[i - 1])]
           Done(i) == {b.moves[k] : k \in 1 .. i}
           S == {i \in Nat : i <= N => Merging(b, c, rows2, after[i], Done(i))}
<1>1. /\ N \in Nat /\ DOMAIN b.moves = 1 .. N /\ IsInjective(b.moves)
      /\ \A i \in 1 .. N : b.moves[i] \in MoveOf /\ b.moves[i] \in ToSet(b.moves)
  BY DEF IsBuilder, ToSet
<1>2. MergeOldMoves(b, c) = after[N]
  BY DEF MergeOldMoves, MergeStart
<1>3. \A i \in 1 .. N, t \in Apart : Step(i, t) \in Apart /\ step[i][t] = Step(i, t)
  <2>1. ASSUME NEW i \in 1 .. N, NEW t \in Apart PROVE Step(i, t) \in Apart
    <3>1. b.moves[i] \in MoveOf /\ b.moves[i].to \in FirstRows(n)
      BY <1>1
    <3> QED BY <3>1, MergeOldStays
  <2> HIDE DEF Step, N
  <2> QED BY <2>1
<1>4. /\ base.kept = << >> /\ base.moves = c.moves /\ base.modified = c.modifications
      /\ base \in MergeStates /\ base \in Apart /\ IsInjective(base.kept) /\ IsInjective(base.moves)
      /\ ToSet(base.kept) = {}
  <2>1. << >> \in Seq(MoveOf) /\ IsInjective(<< >>) /\ ToSet(<< >>) = {}
    BY DEF IsInjective, ToSet
  <2>2. base.kept = << >> /\ base.moves = c.moves /\ base.modified = c.modifications
    BY DEF MergeStart
  <2>3. base \in MergeStates
    BY <2>1 DEF MergeStart, MergeStates, IsBuilder
  <2> HIDE DEF base
  <2> QED BY <2>1, <2>2, <2>3 DEF Apart, IsBuilder
<1> HIDE DEF base
<1>5. \E g : g = [i \in 0 .. N |-> IF i = 0 THEN base ELSE Step(i, g[i - 1])]
  <2> HIDE DEF Step, step, N, after, S
  <2>1. \A i \in 1 .. N, t \in Apart : step[i][t] \in Apart
    BY <1>3
  <2>2. PICK g : IsLoop(g, base, N, step) /\ \A i \in 0 .. N : g[i] \in Apart
    BY <1>1, <1>4, <2>1, LoopStays
  <2>3. g = [i \in 0 .. N |-> IF i = 0 THEN base ELSE step[i][g[i - 1]]]
    BY <2>2 DEF IsLoop
  <2>4. \A i \in 0 .. N : i # 0 => i \in 1 .. N /\ i - 1 \in 0 .. N
    BY <1>1
  <2>5. \A i \in 0 .. N : i # 0 => step[i][g[i - 1]] = Step(i, g[i - 1])
    BY <1>3, <2>2, <2>4
  <2>6. g = [i \in 0 .. N |-> IF i = 0 THEN base ELSE Step(i, g[i - 1])]
    BY <2>3, <2>5
  <2> QED BY <2>6
<1> HIDE DEF N, Step, step
<1>6. after = [i \in 0 .. N |-> IF i = 0 THEN base ELSE Step(i, after[i - 1])]
  BY <1>5
<1> HIDE DEF after
<1>7. after[0] = base /\ \A i \in 1 .. N : after[i] = Step(i, after[i - 1])
  BY <1>1, <1>6
<1>8. 0 \in S
  <2>1. Done(0) = {}
    OBVIOUS
  <2> HIDE DEF Done
  <2>2. Merging(b, c, rows2, base, {})
    BY <1>4 DEF Merging
  <2> QED BY <1>7, <2>1, <2>2
<1>9. ASSUME NEW i \in Nat, i \in S PROVE i + 1 \in S
  <2>1. SUFFICES ASSUME i + 1 <= N PROVE Merging(b, c, rows2, after[i + 1], Done(i + 1))
    OBVIOUS
  <2>2. i + 1 \in 1 .. N /\ (i + 1) - 1 = i /\ i <= N /\ \A k \in 1 .. i : k \in 1 .. N /\ k # i + 1
    BY <1>1, <2>1
  <2> DEFINE acc == after[i]
             old == b.moves[i + 1]
  <2>3. Merging(b, c, rows2, acc, Done(i))
    BY <1>9, <2>2
  <2>4. after[i + 1] = MergeOldMove(b, c, acc, old)
    BY <1>7, <2>2 DEF Step
  <2>5. old \in MoveOf /\ old.to \in FirstRows(n)
    BY <1>1, <2>2
  <2>6. Done(i + 1) = Done(i) \union {old}
    <3>1. 1 .. i + 1 = (1 .. i) \union {i + 1}
      BY <2>2
    <3> QED BY <3>1
  <2>7. \A o \in Done(i) : o.from # old.from /\ o.to # old.to
    <3>1. ASSUME NEW k \in 1 .. i PROVE b.moves[k].from # old.from /\ b.moves[k].to # old.to
      <4>1. b.moves[k] # old
        BY <1>1, <2>2 DEF IsInjective
      <4>2. b.moves[k] \in ToSet(b.moves) /\ old \in ToSet(b.moves)
        BY <1>1, <2>2
      <4> QED BY <4>1, <4>2
    <3> QED BY <3>1
  <2> HIDE DEF acc, old, Done
  <2>8. Merging(b, c, rows2, MergeOldMove(b, c, acc, old), Done(i) \union {old})
    <3> DEFINE done == Done(i)
    <3> HIDE DEF done
    <3>1. Merging(b, c, rows2, acc, done) /\ \A o \in done : o.from # old.from /\ o.to # old.to
      BY <2>3, <2>7 DEF done
    <3>2. Merging(b, c, rows2, MergeOldMove(b, c, acc, old), done \union {old})
      BY <2>5, <3>1, MergeOldOne
    <3> QED BY <3>2 DEF done
  <2> QED BY <2>4, <2>6, <2>8
<1>10. N \in S
  <2> HIDE DEF S
  <2> QED BY <1>1, <1>8, <1>9, ByInduction
<1>11. Done(N) = ToSet(b.moves)
  BY <1>1 DEF ToSet
<1> HIDE DEF Done
<1> QED BY <1>1, <1>2, <1>10, <1>11

IsMergedNew(new, b, rows, moves) ==
  /\ new \in Seq(MoveOf) /\ IsInjective(new)
  /\ \A m \in MoveOf :
       m \in ToSet(new) <=>
         \E x \in ToSet(moves) :
           x.from \notin b.insertions /\ m.to = x.to /\ m.from = Origin(rows, x.from)

(* c's moves of rows that b did not bring: their origin is the row's. *)
LEMMA MergeNewMovesIs ==
  ASSUME NEW rows \in Seq(Entry), NEW old \in Nat, NEW b, Fits(b.deletions, b.insertions, rows, old),
         NEW moves \in Seq(MoveOf), IsInjective(moves),
         \A m \in ToSet(moves) : m.from \in Places(rows),
         \A m, x \in ToSet(moves) : m.to = x.to => m = x
  PROVE  IsMergedNew(MergeNewMoves(b, moves), b, rows, moves)
<1> DEFINE chosen == {m \in ToSet(moves) : m.from \notin b.insertions}
           fresh == OnlyOf(moves, chosen)
           From(x) == Shift(b.deletions, Unshift(b.insertions, x.from))
           new == [i \in DOMAIN fresh |-> [fresh[i] EXCEPT !.from = From(fresh[i])]]
<1>1. MergeNewMoves(b, moves) = new
  BY DEF MergeNewMoves
<1>2. fresh \in Seq(MoveOf) /\ IsInjective(fresh) /\ ToSet(fresh) = chosen
  <2>1. chosen \subseteq ToSet(moves)
    OBVIOUS
  <2> HIDE DEF chosen
  <2>2. /\ OnlyOf(moves, chosen) \in Seq(MoveOf)
        /\ ToSet(OnlyOf(moves, chosen)) = ToSet(moves) \cap chosen
        /\ IsInjective(moves) => IsInjective(OnlyOf(moves, chosen))
    BY OnlyOfIs
  <2>3. ToSet(moves) \cap chosen = chosen
    BY <2>1
  <2> QED BY <2>2, <2>3
<1> HIDE DEF fresh
<1>3. DOMAIN fresh = 1 .. Len(fresh) /\ Len(fresh) \in Nat /\ \A i \in DOMAIN fresh : fresh[i] \in MoveOf
  BY <1>2
<1>4. ASSUME NEW i \in DOMAIN fresh
      PROVE  /\ fresh[i] \in ToSet(moves) /\ fresh[i].from \notin b.insertions
             /\ new[i] \in MoveOf
             /\ new[i].to = fresh[i].to /\ new[i].from = Origin(rows, fresh[i].from)
  <2> DEFINE x == fresh[i]
  <2>1. x \in ToSet(fresh) /\ x \in MoveOf
    BY <1>3 DEF ToSet
  <2>2. x \in ToSet(moves) /\ x.from \notin b.insertions
    BY <1>2, <2>1
  <2>3. x.from \in Stay(b.insertions, rows)
    BY <2>2 DEF Stay
  <2>4. From(x) = Origin(rows, x.from) /\ Origin(rows, x.from) \in Nat
    <3> DEFINE D == b.deletions
               I == b.insertions
               p == x.from
    <3>1. Fits(D, I, rows, old) /\ p \in Stay(I, rows)
      BY <2>3
    <3> HIDE DEF D, I, p
    <3>2. Shift(D, Unshift(I, p)) = Origin(rows, p) /\ Origin(rows, p) \in Nat
      BY <3>1, OriginFound, SameRank
    <3> QED BY <3>2 DEF D, I, p
  <2>5. new[i] = [x EXCEPT !.from = From(x)]
    OBVIOUS
  <2> HIDE DEF new, From, x
  <2>6. new[i] \in MoveOf /\ new[i].to = x.to /\ new[i].from = From(x)
    BY <2>1, <2>4, <2>5 DEF MoveOf
  <2> QED BY <2>2, <2>4, <2>6 DEF x
<1>5. DOMAIN new = DOMAIN fresh /\ new = [i \in 1 .. Len(fresh) |-> new[i]]
  BY <1>3
<1> HIDE DEF new, From
<1>6. new \in Seq(MoveOf)
  BY <1>3, <1>4, <1>5, IsASeq
<1>7. IsInjective(new)
  <2>1. ASSUME NEW i \in DOMAIN fresh, NEW j \in DOMAIN fresh, new[i] = new[j] PROVE i = j
    <3>1. fresh[i] = fresh[j]
      BY <1>4, <2>1
    <3> QED BY <1>2, <3>1 DEF IsInjective
  <2> QED BY <1>5, <2>1 DEF IsInjective
<1>8. ASSUME NEW m \in MoveOf
      PROVE  m \in ToSet(new) <=>
               \E x \in ToSet(moves) :
                 x.from \notin b.insertions /\ m.to = x.to /\ m.from = Origin(rows, x.from)
  <2>1. ASSUME m \in ToSet(new)
        PROVE  \E x \in ToSet(moves) :
                 x.from \notin b.insertions /\ m.to = x.to /\ m.from = Origin(rows, x.from)
    <3>1. PICK i \in DOMAIN fresh : m = new[i]
      BY <1>5, <2>1 DEF ToSet
    <3> QED BY <1>4, <3>1
  <2>2. ASSUME NEW x \in ToSet(moves), x.from \notin b.insertions, m.to = x.to,
               m.from = Origin(rows, x.from)
        PROVE  m \in ToSet(new)
    <3>1. x \in ToSet(fresh)
      BY <1>2, <2>2
    <3>2. PICK i \in DOMAIN fresh : fresh[i] = x
      BY <3>1 DEF ToSet
    <3>3. new[i] = m
      BY <1>4, <2>2, <3>2, MoveIs
    <3> QED BY <1>5, <3>3 DEF ToSet
  <2> QED BY <2>1, <2>2
<1> QED BY <1>1, <1>6, <1>7, <1>8 DEF IsMergedNew

(* Places that are kept through c, as they are counted after it. *)
LEMMA CarriedOver ==
  ASSUME NEW rows2 \in Seq(Entry), NEW n \in Nat, n < Npos, NEW c, IsBuilder(c), Tells(c, rows2, n),
         NEW set, set \subseteq FirstRows(n)
  PROVE  \A p : p \in ShiftForInsertAtAll(EraseAtAll(set, c.deletions), c.insertions)
                  <=> p \in Stay(c.insertions, rows2) /\ Origin(rows2, p) \in set
<1> DEFINE D == c.deletions
           I == c.insertions
           Lead(q) == Shift(I, Unshift(D, q))
           carried == ShiftForInsertAtAll(EraseAtAll(set, D), I)
<1>1. \A p : p \in carried <=> \E q \in set \ D : p = Lead(q)
  BY DEF ShiftForInsertAtAll, EraseAtAll
<1>2. ASSUME NEW q \in set \ D PROVE Lead(q) \in Stay(I, rows2) /\ Origin(rows2, Lead(q)) = q
  BY PlaceFound
<1>3. ASSUME NEW p \in Stay(I, rows2), Origin(rows2, p) \in set
      PROVE  Origin(rows2, p) \in set \ D /\ p = Lead(Origin(rows2, p))
  <2>1. Fits(D, I, rows2, n)
    BY DEF Tells
  <2>2. Origin(rows2, p) \notin D
    BY <2>1 DEF Fits, Left
  <2> HIDE DEF D, I
  <2>3. Shift(I, Unshift(D, Origin(rows2, p))) = p
    BY <2>1, OriginFound
  <2> QED BY <1>3, <2>2, <2>3
<1> HIDE DEF carried, Lead, D, I
<1>4. \A p : p \in carried <=> p \in Stay(I, rows2) /\ Origin(rows2, p) \in set
  BY <1>1, <1>2, <1>3
<1> QED BY <1>4 DEF carried, D, I

(* Deletions of c are those of the rows they were before b. *)
LEMMA DeletedBefore ==
  ASSUME NEW rows \in Seq(Entry), NEW old \in Nat, NEW D, NEW I, Fits(D, I, rows, old),
         NEW values, values \subseteq Places(rows)
  PROVE  \A v : v \in AddShiftedBy(D, I, values)
                  <=> v \in D \/ \E q \in Stay(I, rows) : q \in values /\ v = Origin(rows, q)
<1>1. \A q : q \in values \ I <=> q \in Stay(I, rows) /\ q \in values
  BY DEF Stay
<1>2. \A q \in Stay(I, rows) : Shift(D, Unshift(I, q)) = Origin(rows, q)
  BY OriginFound
<1> QED BY <1>1, <1>2 DEF AddShiftedBy

-----------------------------------------------------------------------------
(* Two builders made one *)

(* rows3 is rows2 with the origins counted, through rows, before b. *)
Combined(rows3, rows, rows2) ==
  /\ Places(rows3) = Places(rows2)
  /\ \A p \in Places(rows2) :
       LET q == Origin(rows2, p) IN
       /\ q = None => Origin(rows3, p) = None
       /\ q # None => Origin(rows3, p) = Origin(rows, q)
       /\ q # None /\ Origin(rows, q) # None =>
            (RowAt(rows3, p).modified <=> RowAt(rows2, p).modified \/ RowAt(rows, q).modified)

MergedInsertions(b, c) == InsertAtAll(EraseAtAll(b.insertions, c.deletions), c.insertions)
MergedDeletions(b, c) == AddShiftedBy(b.deletions, b.insertions, c.deletions)

(* The merged sets, row by row. *)
LEMMA MergedSetsAre ==
  ASSUME NEW rows \in Seq(Entry), NEW rows2 \in Seq(Entry), NEW old \in Nat, Len(rows) < Npos,
         NEW b, NEW c, IsBuilder(b), IsBuilder(c), Tells(b, rows, old), Tells(c, rows2, Len(rows))
  PROVE  /\ \A p : p \in MergedInsertions(b, c)
                     <=> \/ p \in c.insertions
                         \/ p \in Stay(c.insertions, rows2) /\ Origin(rows2, p) \in b.insertions
         /\ \A v : v \in MergedDeletions(b, c)
                     <=> \/ v \in b.deletions
                         \/ \E q \in Stay(b.insertions, rows) :
                              q \in c.deletions /\ v = Origin(rows, q)
<1>1. Len(rows) \in Nat /\ Places(rows) = FirstRows(Len(rows))
  BY PlacesAre DEF Places
<1>2. b.insertions \subseteq FirstRows(Len(rows)) /\ c.deletions \subseteq Places(rows)
  BY <1>1 DEF Tells, Fits
<1>3. \A p : p \in ShiftForInsertAtAll(EraseAtAll(b.insertions, c.deletions), c.insertions)
               <=> p \in Stay(c.insertions, rows2) /\ Origin(rows2, p) \in b.insertions
  BY <1>1, <1>2, CarriedOver
<1>4. \A v : v \in MergedDeletions(b, c)
               <=> \/ v \in b.deletions
                   \/ \E q \in Stay(b.insertions, rows) : q \in c.deletions /\ v = Origin(rows, q)
  <2> DEFINE D == b.deletions
             I == b.insertions
             values == c.deletions
  <2>1. Fits(D, I, rows, old) /\ values \subseteq Places(rows)
    BY <1>2 DEF Tells
  <2> HIDE DEF D, I, values
  <2>2. \A v : v \in AddShiftedBy(D, I, values)
                 <=> v \in D \/ \E q \in Stay(I, rows) : q \in values /\ v = Origin(rows, q)
    BY <2>1, DeletedBefore
  <2> QED BY <2>2 DEF MergedDeletions, D, I, values
<1> QED BY <1>3, <1>4 DEF MergedInsertions, InsertAtAll

(* The merged sets tell what stays of the list before both. *)
LEMMA CombinedFits ==
  ASSUME NEW rows \in Seq(Entry), NEW rows2 \in Seq(Entry), NEW old \in Nat, Len(rows) < Npos,
         NEW b, NEW c, IsBuilder(b), IsBuilder(c), Tells(b, rows, old), Tells(c, rows2, Len(rows)),
         NEW rows3, Combined(rows3, rows, rows2)
  PROVE  Fits(MergedDeletions(b, c), MergedInsertions(b, c), rows3, old)
<1> DEFINE D2 == MergedDeletions(b, c)
           I2 == MergedInsertions(b, c)
           D == b.deletions
           I == b.insertions
           pi == Origins(rows2)
<1>1. /\ \A p : p \in I2 <=> \/ p \in c.insertions
                             \/ p \in Stay(c.insertions, rows2) /\ Origin(rows2, p) \in I
      /\ \A v : v \in D2 <=> \/ v \in D
                             \/ \E q \in Stay(I, rows) : q \in c.deletions /\ v = Origin(rows, q)
  BY MergedSetsAre
<1>2. /\ Fits(D, I, rows, old) /\ Fits(c.deletions, c.insertions, rows2, Len(rows))
      /\ Len(rows) \in Nat /\ Places(rows) = FirstRows(Len(rows)) /\ Places(rows3) = Places(rows2)
  BY PlacesAre DEF Tells, Places, Combined
<1> HIDE DEF D2, I2, D, I
<1>3. D \subseteq D2 /\ D2 \subseteq FirstRows(old) /\ I2 \subseteq Places(rows3)
  BY <1>1, <1>2 DEF Fits, Left, Stay
<1>4. \A p \in Places(rows2) : pi[p] = Origin(rows2, p)
  BY DEF Origins
<1> HIDE DEF pi
<1>5. \A q, r \in Stay(I, rows) : Origin(rows, q) = Origin(rows, r) => q = r
  <2>1. ASSUME NEW q \in Stay(I, rows), NEW r \in Stay(I, rows), Origin(rows, q) = Origin(rows, r)
        PROVE  q = r
    <3>1. q \in Nat /\ r \in Nat /\ Origin(rows, q) \in Nat
      BY <1>2, SameRank
    <3>2. ~ (q < r) /\ ~ (r < q)
      BY <1>2, <2>1, <3>1 DEF Fits
    <3> QED BY <3>1, <3>2
  <2> QED BY <2>1
<1>6. ASSUME NEW p \in Stay(I2, rows3)
      PROVE  /\ p \in Stay(c.insertions, rows2)
             /\ pi[p] \in Stay(I, rows)
             /\ Origin(rows3, p) = Origin(rows, pi[p])
             /\ Origin(rows, pi[p]) \notin D2
  <2> DEFINE q == Origin(rows2, p)
  <2>1. p \in Places(rows2) /\ p \notin I2
    BY <1>2 DEF Stay
  <2>2. p \in Stay(c.insertions, rows2) /\ q \notin I
    BY <1>1, <2>1 DEF Stay
  <2>3. q \in Places(rows) /\ q \notin c.deletions
    BY <1>2, <2>2 DEF Fits, Left
  <2>4. q # None
    BY <1>2, <2>3, OriginKnown
  <2>5. q \in Stay(I, rows)
    BY <2>2, <2>3 DEF Stay
  <2>6. Origin(rows3, p) = Origin(rows, q)
    BY <2>1, <2>4 DEF Combined
  <2>7. Origin(rows, q) \notin D2
    <3>1. Origin(rows, q) \notin D
      BY <1>2, <2>5 DEF Fits, Left
    <3> HIDE DEF q
    <3> QED BY <1>1, <1>5, <2>3, <2>5, <3>1
  <2> QED BY <1>4, <2>1, <2>2, <2>5, <2>6, <2>7
<1>7. ASSUME NEW p \in Stay(I2, rows3), NEW r \in Stay(I2, rows3), p < r PROVE pi[p] < pi[r]
  <2>1. p \in Places(rows2) /\ r \in Places(rows2)
    BY <1>2 DEF Stay
  <2> QED BY <1>2, <1>4, <1>6, <1>7, <2>1 DEF Fits
<1>8. ASSUME NEW q \in Stay(I, rows), Origin(rows, q) \notin D2
      PROVE  \E p \in Stay(I2, rows3) : pi[p] = q
  <2>1. q \notin c.deletions /\ q \in Places(rows) /\ q \notin I
    BY <1>1, <1>8 DEF Stay
  <2>2. PICK p \in Stay(c.insertions, rows2) : Origin(rows2, p) = q
    BY <1>2, <2>1 DEF Fits, Left
  <2>3. p \in Places(rows2) /\ p \notin c.insertions
    BY DEF Stay
  <2>4. p \in Stay(I2, rows3)
    BY <1>1, <1>2, <2>1, <2>2, <2>3 DEF Stay
  <2> QED BY <1>4, <2>2, <2>3, <2>4
<1>9. Fits(D2, I2, rows3, old)
  BY <1>2, <1>3, <1>6, <1>7, <1>8, FitsCarries
<1> QED BY <1>9 DEF D2, I2

(* No two rows have one origin in the list before both. *)
LEMMA CombinedOrigins ==
  ASSUME NEW rows \in Seq(Entry), NEW rows2 \in Seq(Entry), NEW old \in Nat, Len(rows) < Npos,
         OneOriginEach(rows, old), OneOriginEach(rows2, Len(rows)),
         NEW rows3, Combined(rows3, rows, rows2)
  PROVE  /\ OneOriginEach(rows3, old)
         /\ \A p \in Places(rows2) : Origin(rows2, p) # None => Origin(rows2, p) \in Places(rows)
<1>1. Places(rows) = FirstRows(Len(rows)) /\ Places(rows3) = Places(rows2)
  BY DEF Places, Combined
<1>2. ASSUME NEW p \in Places(rows2), Origin(rows3, p) # None
      PROVE  /\ Origin(rows2, p) # None /\ Origin(rows2, p) \in Places(rows)
             /\ Origin(rows3, p) = Origin(rows, Origin(rows2, p))
  BY <1>1, <1>2 DEF Combined, OneOriginEach
<1>3. ASSUME NEW p \in Places(rows3), Origin(rows3, p) # None
      PROVE  Origin(rows3, p) \in FirstRows(old)
  BY <1>1, <1>2, <1>3 DEF OneOriginEach
<1>4. ASSUME NEW p \in Places(rows3), NEW q \in Places(rows3), Origin(rows3, p) = Origin(rows3, q),
             p # q, Origin(rows3, p) # None
      PROVE  FALSE
  <2>1. Origin(rows2, p) = Origin(rows2, q)
    BY <1>1, <1>2, <1>4 DEF OneOriginEach
  <2> QED BY <1>1, <1>2, <1>4, <2>1 DEF OneOriginEach
<1>5. OneOriginEach(rows3, old)
  BY <1>3, <1>4 DEF OneOriginEach
<1> QED BY <1>1, <1>5 DEF OneOriginEach

(* The moves of both, as those of the rows in their destinations. *)
LEMMA MovesApart ==
  ASSUME NEW rows, NEW old \in Nat, NEW b, IsBuilder(b), Tells(b, rows, old)
  PROVE  /\ \A o \in ToSet(b.moves) :
              /\ o \in MoveOf /\ o.to \in b.insertions /\ o.to \in Places(rows)
              /\ o.from # None /\ Origin(rows, o.to) = o.from
         /\ \A o, x \in ToSet(b.moves) : o.from = x.from \/ o.to = x.to => o = x
<1>1. ASSUME NEW o \in ToSet(b.moves)
      PROVE  /\ o \in MoveOf /\ o.to \in b.insertions /\ o.to \in Places(rows)
             /\ o.from # None /\ Origin(rows, o.to) = o.from
  <2>1. o \in MoveOf
    BY DEF IsBuilder, ToSet
  <2> QED BY <2>1 DEF Tells, MovesTell, Fits
<1>2. ASSUME NEW o \in ToSet(b.moves), NEW x \in ToSet(b.moves), o.from = x.from \/ o.to = x.to
      PROVE  o = x
  <2>1. Origin(rows, o.to) = o.from /\ Origin(rows, x.to) = x.from /\ o.from # None
        /\ o.to \in Places(rows) /\ x.to \in Places(rows) /\ o \in MoveOf /\ x \in MoveOf
    BY <1>1
  <2>2. o.from = x.from /\ o.to = x.to
    BY <1>2, <2>1 DEF Tells, OneOriginEach
  <2> QED BY <2>1, <2>2, MoveIs
<1> QED BY <1>1, <1>2

MergedMoves(b, c) ==
  LET old == MergeOldMoves(b, c) IN old.kept \o MergeNewMoves(b, old.moves)

(* What the two loops over the moves leave. *)
LEMMA MergeLoops ==
  ASSUME NEW rows \in Seq(Entry), NEW rows2 \in Seq(Entry), NEW old \in Nat, Len(rows) < Npos,
         NEW b, NEW c, IsBuilder(b), IsBuilder(c), Tells(b, rows, old), Tells(c, rows2, Len(rows)),
         NEW m, m = MergeOldMoves(b, c)
  PROVE  Merging(b, c, rows2, m, ToSet(b.moves)) /\ IsMergedNew(MergeNewMoves(b, m.moves), b, rows, m.moves)
<1>1. Len(rows) \in Nat /\ Places(rows) = FirstRows(Len(rows))
  BY PlacesAre DEF Places
<1>2. /\ \A o \in ToSet(b.moves) : o.to \in FirstRows(Len(rows))
      /\ \A o, x \in ToSet(b.moves) : o.from = x.from \/ o.to = x.to => o = x
  BY <1>1, MovesApart
<1>3. Merging(b, c, rows2, m, ToSet(b.moves))
  BY <1>1, <1>2, MergeOldMovesIs
<1>4. /\ \A x \in ToSet(c.moves) :
           /\ x \in MoveOf /\ x.to \in c.insertions /\ x.to \in Places(rows2)
           /\ x.from # None /\ Origin(rows2, x.to) = x.from
      /\ \A o, x \in ToSet(c.moves) : o.from = x.from \/ o.to = x.to => o = x
  BY <1>1, MovesApart
<1>5. m.moves \in Seq(MoveOf) /\ IsInjective(m.moves)
  BY <1>3 DEF Merging, MergeStates
<1>6. \A x \in ToSet(m.moves) : x \in MoveOf /\ x \in ToSet(c.moves)
  <2>1. \A x \in ToSet(m.moves) : x \in MoveOf
    BY <1>5 DEF ToSet
  <2> QED BY <1>3, <2>1 DEF Merging
<1>7. \A x \in ToSet(m.moves) : x.from \in Places(rows)
  BY <1>1, <1>4, <1>6 DEF Tells, OneOriginEach
<1>8. \A x, y \in ToSet(m.moves) : x.to = y.to => x = y
  BY <1>4, <1>6
<1>9. Fits(b.deletions, b.insertions, rows, old)
  BY DEF Tells
<1>10. IsMergedNew(MergeNewMoves(b, m.moves), b, rows, m.moves)
  BY <1>5, <1>7, <1>8, <1>9, MergeNewMovesIs
<1> QED BY <1>3, <1>10

(* The merged moves are those of the rows that were moved since before both. *)
LEMMA CombinedMoves ==
  ASSUME NEW rows \in Seq(Entry), NEW rows2 \in Seq(Entry), NEW old \in Nat, old < Npos, Len(rows) < Npos,
         NEW b, NEW c, IsBuilder(b), IsBuilder(c), Tells(b, rows, old), Tells(c, rows2, Len(rows)),
         NEW rows3, Combined(rows3, rows, rows2)
  PROVE  /\ MergedMoves(b, c) \in Seq(MoveOf) /\ IsInjective(MergedMoves(b, c))
         /\ MovesTell(MergedMoves(b, c), MergedInsertions(b, c), rows3)
<1> DEFINE m == MergeOldMoves(b, c)
           new == MergeNewMoves(b, m.moves)
           moves == MergedMoves(b, c)
           I2 == MergedInsertions(b, c)
<1>1. Merging(b, c, rows2, m, ToSet(b.moves)) /\ IsMergedNew(new, b, rows, m.moves)
  BY MergeLoops
<1>2. moves = m.kept \o new
  BY DEF MergedMoves
<1>3. \A p : p \in I2 <=> \/ p \in c.insertions
                          \/ p \in Stay(c.insertions, rows2) /\ Origin(rows2, p) \in b.insertions
  BY MergedSetsAre
<1>4. /\ Len(rows) \in Nat
      /\ \A o \in ToSet(b.moves) :
           /\ o \in MoveOf /\ o.to \in b.insertions /\ o.to \in Places(rows)
           /\ o.from # None /\ Origin(rows, o.to) = o.from
  BY PlacesAre, MovesApart
<1>5. \A x \in ToSet(c.moves) :
        /\ x \in MoveOf /\ x.to \in c.insertions /\ x.to \in Places(rows2)
        /\ x.from # None /\ Origin(rows2, x.to) = x.from
  BY <1>4, MovesApart
<1>6. /\ \A p \in Places(rows2) : Origin(rows2, p) # None => Origin(rows2, p) \in Places(rows)
      /\ \A q \in Places(rows) : q # None /\ q \in Nat
  <2>1. OneOriginEach(rows, old) /\ OneOriginEach(rows2, Len(rows))
    BY DEF Tells
  <2>2. \A q \in Places(rows) : q # None /\ q \in Nat
    BY <1>4, OriginKnown DEF Places
  <2>3. \A p \in Places(rows2) : Origin(rows2, p) # None => Origin(rows2, p) \in Places(rows)
    BY <2>1, CombinedOrigins
  <2> QED BY <2>2, <2>3
<1>7. \A p \in Nat : p \in c.insertions => p \in Places(rows2)
  BY DEF Tells, Fits
<1> HIDE DEF m, new, moves, I2
<1>8. /\ m.kept \in Seq(MoveOf) /\ IsInjective(m.kept) /\ m.moves \in Seq(MoveOf)
      /\ \A x \in MoveOf :
           x \in ToSet(m.kept) <=>
             \E o \in ToSet(b.moves) : x.from = o.from /\ x.to \in Places(rows2) /\ Origin(rows2, x.to) = o.to
      /\ \A x \in MoveOf :
           x \in ToSet(m.moves) <=> x \in ToSet(c.moves) /\ \A o \in ToSet(b.moves) : o.to # x.from
  BY <1>1 DEF Merging, MergeStates
<1>9. /\ new \in Seq(MoveOf) /\ IsInjective(new)
      /\ \A x \in MoveOf :
           x \in ToSet(new) <=>
             \E y \in ToSet(m.moves) : y.from \notin b.insertions /\ x.to = y.to /\ x.from = Origin(rows, y.from)
  BY <1>1 DEF IsMergedNew
<1>10. \A y \in ToSet(m.moves) : y \in MoveOf /\ y \in ToSet(c.moves)
  <2>1. \A y \in ToSet(m.moves) : y \in MoveOf
    BY <1>8 DEF ToSet
  <2> QED BY <1>8, <2>1
<1>11. ToSet(m.kept) \cap ToSet(new) = {}
  <2>1. ASSUME NEW x \in ToSet(m.kept), x \in ToSet(new) PROVE FALSE
    <3>1. x \in MoveOf
      BY <1>8 DEF ToSet
    <3>2. Origin(rows2, x.to) \in b.insertions
      BY <1>4, <1>8, <3>1
    <3>3. Origin(rows2, x.to) \notin b.insertions
      BY <1>5, <1>9, <1>10, <2>1, <3>1
    <3> QED BY <3>2, <3>3
  <2> QED BY <2>1
<1>12. /\ moves \in Seq(MoveOf) /\ IsInjective(moves)
       /\ ToSet(moves) = ToSet(m.kept) \union ToSet(new)
  BY <1>2, <1>8, <1>9, <1>11, Joined
<1>13. ASSUME NEW x \in MoveOf, x \in ToSet(moves)
       PROVE  x.to \in I2 /\ x.from # None /\ Origin(rows3, x.to) = x.from
  <2>1. CASE x \in ToSet(m.kept)
    <3>1. PICK o \in ToSet(b.moves) : x.from = o.from /\ x.to \in Places(rows2) /\ Origin(rows2, x.to) = o.to
      BY <1>8, <2>1
    <3>2. o.to \in b.insertions /\ o.to # None /\ Origin(rows, o.to) = x.from /\ x.from # None
      BY <1>4, <1>6, <3>1
    <3>3. x.to \in I2
      BY <1>3, <3>1, <3>2 DEF Stay
    <3>4. Origin(rows3, x.to) = x.from
      BY <3>1, <3>2 DEF Combined
    <3> QED BY <3>2, <3>3, <3>4
  <2>2. CASE x \in ToSet(new)
    <3>1. PICK y \in ToSet(m.moves) : y.from \notin b.insertions /\ x.to = y.to /\ x.from = Origin(rows, y.from)
      BY <1>9, <2>2
    <3>2. y.to \in c.insertions /\ y.to \in Places(rows2) /\ y.from # None /\ Origin(rows2, y.to) = y.from
      BY <1>5, <1>10, <3>1
    <3>3. y.from \in Stay(b.insertions, rows)
      BY <1>6, <3>1, <3>2 DEF Stay
    <3>4. x.from \in FirstRows(old)
      BY <3>1, <3>3 DEF Tells, Fits, Left
    <3>5. x.from # None
      BY <3>4, OriginKnown
    <3>6. Origin(rows3, x.to) = x.from
      BY <3>1, <3>2 DEF Combined
    <3> QED BY <1>3, <3>1, <3>2, <3>5, <3>6
  <2> QED BY <1>12, <1>13, <2>1, <2>2
<1>14. ASSUME NEW x \in MoveOf, x.to \in I2, x.from # None, Origin(rows3, x.to) = x.from
       PROVE  x \in ToSet(moves)
  <2> DEFINE p == x.to
             q == Origin(rows2, p)
  <2>1. p \in Nat /\ p \in Places(rows2)
    BY <1>3, <1>7, <1>14, MoveIs DEF Stay
  <2>2. q # None
    BY <1>14, <2>1 DEF Combined
  <2>3. q \in Places(rows) /\ q \in Nat /\ x.from = Origin(rows, q)
    BY <1>6, <1>14, <2>1, <2>2 DEF Combined
  <2> HIDE DEF q
  <2>4. CASE q \in b.insertions
    <3> DEFINE o == [from |-> x.from, to |-> q]
    <3>1. o \in MoveOf /\ o.from = x.from /\ o.to = q
      BY <2>3, MoveIs DEF MoveOf
    <3> HIDE DEF o
    <3>2. o \in ToSet(b.moves)
      BY <1>14, <2>3, <2>4, <3>1 DEF Tells, MovesTell
    <3>3. x \in ToSet(m.kept)
      BY <1>8, <2>1, <3>1, <3>2 DEF q
    <3> QED BY <1>12, <3>3
  <2>5. CASE q \notin b.insertions
    <3> DEFINE y == [from |-> q, to |-> p]
    <3>1. y \in MoveOf /\ y.from = q /\ y.to = p
      BY <2>1, <2>3 DEF MoveOf
    <3> HIDE DEF y
    <3>2. p \in c.insertions
      BY <1>3, <1>14, <2>5 DEF q
    <3>3. y \in ToSet(c.moves)
      BY <2>2, <3>1, <3>2 DEF Tells, MovesTell, q
    <3>4. y \in ToSet(m.moves)
      BY <1>4, <1>8, <2>5, <3>1, <3>3
    <3>5. x \in ToSet(new)
      BY <1>9, <2>3, <2>5, <3>1, <3>4
    <3> QED BY <1>12, <3>5
  <2> QED BY <2>4, <2>5
<1>15. MovesTell(moves, I2, rows3)
  BY <1>13, <1>14 DEF MovesTell
<1> QED BY <1>12, <1>15 DEF moves, I2

MergedModifications(b, c) ==
  LET old == MergeOldMoves(b, c) IN
  ShiftForInsertAtAll(EraseAtAll(b.modifications, c.deletions), c.insertions)
    \union (old.modified \union CarriedAlong(b, old.moves))

(* The merged modifications are the rows that were set by either. *)
LEMMA CombinedMods ==
  ASSUME NEW rows \in Seq(Entry), NEW rows2 \in Seq(Entry), NEW old \in Nat, old < Npos, Len(rows) < Npos,
         NEW b, NEW c, Keeps(b, rows, old), Keeps(c, rows2, Len(rows)),
         NEW rows3, Combined(rows3, rows, rows2)
  PROVE  ModsTell(MergedModifications(b, c), rows3)
<1> DEFINE m == MergeOldMoves(b, c)
           mods == MergedModifications(b, c)
           over == ShiftForInsertAtAll(EraseAtAll(b.modifications, c.deletions), c.insertions)
<1>1. /\ IsBuilder(b) /\ IsBuilder(c) /\ Tells(b, rows, old) /\ Tells(c, rows2, Len(rows))
      /\ ModsTell(b.modifications, rows) /\ ModsTell(c.modifications, rows2)
  BY DEF Keeps
<1>2. Merging(b, c, rows2, m, ToSet(b.moves))
  BY <1>1, MergeLoops
<1>3. Len(rows) \in Nat /\ Places(rows) = FirstRows(Len(rows)) /\ Places(rows3) = Places(rows2)
  BY PlacesAre DEF Places, Combined
<1>4. \A p : p \in over <=> p \in Stay(c.insertions, rows2) /\ Origin(rows2, p) \in b.modifications
  <2>1. b.modifications \subseteq FirstRows(Len(rows))
    BY <1>1, <1>3 DEF ModsTell
  <2> QED BY <1>1, <1>3, <2>1, CarriedOver
<1>5. \A x \in ToSet(c.moves) :
        /\ x \in MoveOf /\ x.to \in c.insertions /\ x.to \in Places(rows2)
        /\ x.from # None /\ Origin(rows2, x.to) = x.from
  BY <1>1, <1>3, MovesApart
<1>6. \A o \in ToSet(b.moves) : o \in MoveOf /\ o.to \in b.insertions
  BY <1>1, MovesApart
<1> HIDE DEF m, over
<1>7. /\ m.moves \in Seq(MoveOf) /\ m.modified \in SUBSET Nat
      /\ \A x \in MoveOf :
           x \in ToSet(m.moves) <=> x \in ToSet(c.moves) /\ \A o \in ToSet(b.moves) : o.to # x.from
      /\ \A p \in Nat :
           p \in m.modified <=>
             \/ p \in c.modifications
             \/ p \in c.insertions /\ \E o \in ToSet(b.moves) :
                                        o.to \in b.modifications /\ Origin(rows2, p) = o.to
  BY <1>2 DEF Merging, MergeStates
<1>8. \A y \in ToSet(m.moves) : y \in MoveOf /\ y \in ToSet(c.moves)
  <2>1. \A y \in ToSet(m.moves) : y \in MoveOf
    BY <1>7 DEF ToSet
  <2> QED BY <1>7, <2>1
<1> DEFINE along == CarriedAlong(b, m.moves)
<1>9. \A p : p \in along <=>
        \E x \in ToSet(m.moves) : x.from \notin b.insertions /\ x.from \in b.modifications /\ p = x.to
  BY DEF CarriedAlong
<1>10. mods = over \union (m.modified \union along)
  BY DEF MergedModifications, m, over
<1> HIDE DEF along, mods
<1>11. \A p \in Places(rows2) : p \in Nat
  BY PlacesAre
<1>12. mods \subseteq Places(rows3)
  <2>1. \A p \in over : p \in Places(rows2)
    BY <1>4 DEF Stay
  <2>2. \A p \in m.modified : p \in Places(rows2)
    BY <1>1, <1>7 DEF ModsTell, Tells, Fits
  <2>3. \A p \in along : p \in Places(rows2)
    BY <1>5, <1>8, <1>9
  <2> QED BY <1>3, <1>10, <2>1, <2>2, <2>3
<1>13. ASSUME NEW p \in Places(rows3), Origin(rows3, p) # None
       PROVE  p \in mods <=> RowAt(rows3, p).modified
  <2> DEFINE q == Origin(rows2, p)
  <2>1. p \in Places(rows2) /\ p \in Nat
    BY <1>3, <1>11
  <2>2. q # None
    BY <1>13, <2>1 DEF Combined
  <2>3. /\ q \in Places(rows) /\ q \in Nat /\ Origin(rows, q) # None
    <3>1. q \in Places(rows)
      BY <1>1, <1>3, <2>1, <2>2 DEF Tells, OneOriginEach
    <3>2. Origin(rows, q) # None
      BY <1>13, <2>1, <2>2 DEF Combined
    <3> QED BY <3>1, <3>2, PlacesAre
  <2>4. RowAt(rows3, p).modified <=> p \in c.modifications \/ q \in b.modifications
    <3>1. RowAt(rows3, p).modified <=> RowAt(rows2, p).modified \/ RowAt(rows, q).modified
      BY <2>1, <2>2, <2>3 DEF Combined
    <3>2. p \in c.modifications <=> RowAt(rows2, p).modified
      BY <1>1, <2>1, <2>2 DEF ModsTell
    <3>3. q \in b.modifications <=> RowAt(rows, q).modified
      BY <1>1, <2>3 DEF ModsTell
    <3> QED BY <3>1, <3>2, <3>3
  <2>5. p \in over <=> p \notin c.insertions /\ q \in b.modifications
    BY <1>4, <2>1 DEF Stay
  <2>6. p \in m.modified <=>
          \/ p \in c.modifications
          \/ p \in c.insertions /\ \E o \in ToSet(b.moves) : o.to \in b.modifications /\ q = o.to
    BY <1>7, <2>1
  <2>7. p \in along => q \in b.modifications
    BY <1>5, <1>8, <1>9
  <2> HIDE DEF q
  <2>8. ASSUME q \in b.modifications, p \in c.insertions PROVE p \in m.modified \union along
    <3>1. CASE q \in b.insertions
      <4> DEFINE o == [from |-> Origin(rows, q), to |-> q]
      <4>1. Origin(rows, q) \in Nat
        <5>1. RowAt(rows, q) \in Entry
          BY <2>3, PlacesAre
        <5> QED BY <5>1 DEF Origin, Entry
      <4>2. o \in MoveOf /\ o.from = Origin(rows, q) /\ o.to = q
        BY <2>3, <4>1 DEF MoveOf
      <4> HIDE DEF o
      <4>3. o \in ToSet(b.moves)
        BY <1>1, <2>3, <3>1, <4>2 DEF Tells, MovesTell
      <4> QED BY <2>6, <2>8, <4>2, <4>3
    <3>2. CASE q \notin b.insertions
      <4> DEFINE y == [from |-> q, to |-> p]
      <4>1. y \in MoveOf /\ y.from = q /\ y.to = p
        BY <2>1, <2>3 DEF MoveOf
      <4> HIDE DEF y
      <4>2. y \in ToSet(c.moves)
        BY <1>1, <2>2, <2>8, <4>1 DEF Tells, MovesTell, q
      <4>3. y \in ToSet(m.moves)
        BY <1>6, <1>7, <3>2, <4>1, <4>2
      <4> QED BY <1>9, <2>8, <3>2, <4>1, <4>3
    <3> QED BY <3>1, <3>2
  <2>9. p \in m.modified => p \in c.modifications \/ q \in b.modifications
    BY <2>6
  <2>10. p \in c.modifications => p \in m.modified
    BY <2>6
  <2> QED BY <1>10, <2>4, <2>5, <2>7, <2>8, <2>9, <2>10
<1>14. ModsTell(mods, rows3)
  BY <1>12, <1>13 DEF ModsTell
<1> QED BY <1>14 DEF mods

(* merge() of two builders that have something to tell, stale moves cleaned up. *)
LEMMA MergeMovedKeeps ==
  ASSUME NEW rows \in Seq(Entry), NEW rows2 \in Seq(Entry), NEW old \in Nat, old < Npos, Len(rows) < Npos,
         NEW b, NEW c, Keeps(b, rows, old), Keeps(c, rows2, Len(rows)),
         NEW rows3 \in Seq(Entry), Combined(rows3, rows, rows2)
  PROVE  Keeps(MergeMoved(b, c), rows3, old)
<1> DEFINE D2 == MergedDeletions(b, c)
           I2 == MergedInsertions(b, c)
           moves == MergedMoves(b, c)
           mods == MergedModifications(b, c)
           d0 == [b EXCEPT !.moves = moves, !.deletions = D2, !.insertions = I2]
           d == CleanUpStaleMoves(d0)
           e == [d EXCEPT !.modifications = mods]
<1>1. /\ IsBuilder(b) /\ IsBuilder(c) /\ Tells(b, rows, old) /\ Tells(c, rows2, Len(rows))
      /\ OneOriginEach(rows, old) /\ OneOriginEach(rows2, Len(rows))
  BY DEF Keeps, Tells
<1>2. Fits(D2, I2, rows3, old)
  BY <1>1, CombinedFits
<1>3. OneOriginEach(rows3, old)
  BY <1>1, CombinedOrigins
<1>4. moves \in Seq(MoveOf) /\ IsInjective(moves) /\ MovesTell(moves, I2, rows3)
  BY <1>1, CombinedMoves
<1>5. ModsTell(mods, rows3)
  BY CombinedMods
<1>6. MergeMoved(b, c) =
        LET m == MergeOldMoves(b, c) IN
        [d EXCEPT !.modifications =
           ShiftForInsertAtAll(EraseAtAll(d.modifications, c.deletions), c.insertions)
             \union (m.modified \union CarriedAlong(b, m.moves))]
  BY DEF MergeMoved, MergedDeletions, MergedInsertions, MergedMoves
<1> HIDE DEF D2, I2, moves, mods
<1>7. /\ d0.deletions = D2 /\ d0.insertions = I2 /\ d0.moves = moves
      /\ d0.modifications = b.modifications /\ DOMAIN d0 = DOMAIN NoChanges
  BY <1>1 DEF IsBuilder, NoChanges
<1>8. D2 \in SUBSET Nat /\ I2 \in SUBSET Nat /\ mods \in SUBSET Nat
  <2>1. \A p \in Places(rows3) : p \in Nat
    BY PlacesAre
  <2>2. FirstRows(old) \in SUBSET Nat
    BY PlacesAreNumbers
  <2> QED BY <1>2, <1>5, <2>1, <2>2 DEF Fits, ModsTell
<1> HIDE DEF d0
<1>9. IsBuilder(d0)
  BY <1>1, <1>4, <1>7, <1>8 DEF IsBuilder
<1>10. Tells(d0, rows3, old)
  BY <1>2, <1>3, <1>4, <1>7 DEF Tells
<1>11. IsBuilder(d) /\ Tells(d, rows3, old) /\ d.modifications = b.modifications
  BY <1>7, <1>9, <1>10, CleanUpTells
<1> HIDE DEF d
<1>12. MergeMoved(b, c) = e
  BY <1>6, <1>11 DEF MergedModifications, mods
<1>13. /\ e.deletions = d.deletions /\ e.insertions = d.insertions /\ e.moves = d.moves
       /\ e.modifications = mods /\ DOMAIN e = DOMAIN NoChanges
  BY <1>11 DEF IsBuilder, NoChanges
<1> HIDE DEF e
<1>14. IsBuilder(e) /\ Tells(e, rows3, old)
  BY <1>8, <1>11, <1>13 DEF IsBuilder, Tells
<1> QED BY <1>5, <1>12, <1>13, <1>14 DEF Keeps

(* A builder that has nothing to tell: every row is where it was. *)
LEMMA EmptyStays ==
  ASSUME NEW rows \in Seq(Entry), NEW old \in Nat, NEW c, Keeps(c, rows, old), IsEmpty(c)
  PROVE  /\ Len(rows) = old
         /\ \A p \in Places(rows) :
              /\ Origin(rows, p) = p
              /\ p # None => RowAt(rows, p).modified = FALSE
<1> DEFINE none == {}
<1>1. c.deletions = none /\ c.insertions = none /\ c.modifications = none
  BY DEF IsEmpty
<1>2. none \in SUBSET Nat /\ IsFiniteSet(none) /\ Cardinality(none) = 0 /\ \A x : x \notin none
  BY FS_EmptySet
<1>3. Fits(none, none, rows, old)
  BY <1>1 DEF Keeps, Tells
<1> HIDE DEF none
<1>4. Len(rows) = old
  <2>1. old - Cardinality(none) = Len(rows) - Cardinality(none)
    BY <1>3, SameCount
  <2>2. Len(rows) \in Nat
    BY PlacesAre
  <2> QED BY <1>2, <2>1, <2>2
<1>5. ASSUME NEW p \in Places(rows) PROVE Origin(rows, p) = p
  <2>1. p \in Stay(none, rows) /\ p \in Nat \ none
    BY <1>2, PlacesAre DEF Stay
  <2>2. Shift(none, Unshift(none, p)) = Origin(rows, p)
    BY <1>3, <2>1, OriginFound
  <2>3. Shift(none, Unshift(none, p)) = p
    BY <1>2, <2>1, ShiftFinds
  <2> QED BY <2>2, <2>3
<1>6. ASSUME NEW p \in Places(rows), p # None PROVE RowAt(rows, p).modified = FALSE
  <2>1. p \notin c.modifications /\ Origin(rows, p) # None
    BY <1>1, <1>2, <1>5, <1>6
  <2>2. RowAt(rows, p).modified \in BOOLEAN
    <3>1. RowAt(rows, p) \in Entry
      BY PlacesAre
    <3> QED BY <3>1 DEF Entry
  <2>3. ~ RowAt(rows, p).modified
    BY <2>1 DEF Keeps, ModsTell
  <2> QED BY <2>2, <2>3
<1> QED BY <1>4, <1>5, <1>6

(* merge(): what is told of two versions is told of both together. *)
LEMMA MergeKeeps ==
  ASSUME NEW rows \in Seq(Entry), NEW rows2 \in Seq(Entry), NEW old \in Nat, old < Npos, Len(rows) < Npos,
         NEW b, NEW c, Keeps(b, rows, old), Keeps(c, rows2, Len(rows)),
         NEW rows3 \in Seq(Entry), Combined(rows3, rows, rows2)
  PROVE  Keeps(Merge(b, c), rows3, old)
<1>1. /\ Len(rows) \in Nat /\ Places(rows) = FirstRows(Len(rows)) /\ Places(rows3) = Places(rows2)
      /\ Places(rows) \in SUBSET Nat /\ Places(rows2) \in SUBSET Nat
  BY PlacesAre DEF Combined, Places
<1>2. \A q \in Places(rows) : q # None
  BY <1>1, OriginKnown
<1> DEFINE none == {}
<1>3. \A x : x \notin none
  OBVIOUS
<1> HIDE DEF none
<1>4. CASE IsEmpty(c)
  <2>1. /\ Places(rows2) = Places(rows)
        /\ \A p \in Places(rows) : Origin(rows2, p) = p /\ RowAt(rows2, p).modified = FALSE
    <3>1. /\ Len(rows2) = Len(rows)
          /\ \A p \in Places(rows2) : Origin(rows2, p) = p /\ (p # None => RowAt(rows2, p).modified = FALSE)
      BY <1>1, <1>4, EmptyStays
    <3>2. Places(rows2) = Places(rows)
      BY <3>1 DEF Places
    <3> QED BY <1>2, <3>1, <3>2
  <2>2. \A p \in Places(rows) : Origin(rows3, p) = Origin(rows, p)
    BY <1>2, <2>1 DEF Combined
  <2>3. \A p \in Places(rows) : Origin(rows, p) # None =>
          (RowAt(rows3, p).modified <=> p \in none \/ RowAt(rows, p).modified)
    BY <1>2, <1>3, <2>1 DEF Combined
  <2>4. b.modifications = b.modifications \union none /\ none \subseteq Places(rows)
    BY <1>3
  <2>5. Keeps(b, rows3, old)
    BY <1>1, <2>1, <2>2, <2>3, <2>4, SetKeeps
  <2>6. Merge(b, c) = b
    BY <1>4 DEF Merge
  <2> QED BY <2>5, <2>6
<1>5. CASE ~ IsEmpty(c) /\ IsEmpty(b)
  <2>1. /\ Len(rows) = old
        /\ \A q \in Places(rows) : Origin(rows, q) = q /\ (q # None => RowAt(rows, q).modified = FALSE)
    BY <1>5, EmptyStays
  <2>2. \A p \in Places(rows2) : Origin(rows2, p) # None => Origin(rows2, p) \in Places(rows)
    BY <1>1 DEF Keeps, Tells, OneOriginEach
  <2>3. \A p \in Places(rows2) : Origin(rows3, p) = Origin(rows2, p)
    BY <2>1, <2>2 DEF Combined
  <2>4. \A p \in Places(rows2) : Origin(rows2, p) # None =>
          (RowAt(rows3, p).modified <=> p \in none \/ RowAt(rows2, p).modified)
    BY <1>3, <2>1, <2>2 DEF Combined
  <2>5. c.modifications = c.modifications \union none /\ none \subseteq Places(rows2)
    BY <1>3
  <2>6. Keeps(c, rows2, old)
    BY <2>1
  <2>7. Keeps(c, rows3, old)
    <3> DEFINE size == old
    <3>1. Keeps(c, rows2, size)
      BY <2>6
    <3> HIDE DEF size
    <3>2. (Keeps(c, rows2, size) => Keeps(c, rows3, size)) /\ (Cleared(c, rows2) => Cleared(c, rows3))
      BY ONLY <1>1, <2>3, <2>4, <2>5, SetKeeps
    <3> QED BY <3>1, <3>2 DEF size
  <2>8. Merge(b, c) = c
    BY <1>5 DEF Merge
  <2> QED BY <2>7, <2>8
<1>6. CASE ~ IsEmpty(c) /\ ~ IsEmpty(b)
  <2>1. Keeps(MergeMoved(b, c), rows3, old)
    BY MergeMovedKeeps
  <2>2. Merge(b, c) = MergeMoved(b, c)
    BY <1>6 DEF Merge
  <2> QED BY <2>1, <2>2
<1> QED BY <1>4, <1>5, <1>6

(* A list nothing happened to. *)
LEMMA UnchangedKeeps ==
  ASSUME NEW n \in Nat, n < Npos
  PROVE  /\ Unchanged(n) \in Seq(Entry) /\ Len(Unchanged(n)) = n
         /\ \A p \in Places(Unchanged(n)) : Origin(Unchanged(n), p) = p /\ ~ RowAt(Unchanged(n), p).touched
         /\ Keeps(NoChanges, Unchanged(n), n)
<1> DEFINE rows == Unchanged(n)
           none == {}
<1>1. \A p \in 1 .. n : rows[p] = [origin |-> p - 1, modified |-> FALSE, touched |-> FALSE]
  BY DEF Unchanged, NewEntry
<1>2. \A p \in 1 .. n : rows[p] \in Entry
  <2>1. ASSUME NEW p \in 1 .. n
        PROVE  [origin |-> p - 1, modified |-> FALSE, touched |-> FALSE] \in Entry
    <3>1. p - 1 \in Nat
      OBVIOUS
    <3> QED BY <3>1 DEF Entry
  <2> QED BY <1>1, <2>1
<1>3. rows = [p \in 1 .. n |-> rows[p]]
  BY DEF Unchanged
<1> HIDE DEF rows
<1>4. rows \in Seq(Entry) /\ Len(rows) = n
  BY <1>2, <1>3, IsASeq
<1>5. Places(rows) = FirstRows(n) /\ \A p \in Places(rows) : p \in Nat /\ p < n /\ p + 1 \in 1 .. n /\ (p + 1) - 1 = p
  BY <1>4, PlacesAre DEF Places
<1>6. \A p \in Places(rows) : Origin(rows, p) = p /\ RowAt(rows, p).modified = FALSE /\ RowAt(rows, p).touched = FALSE
  <2>1. ASSUME NEW p \in Places(rows)
        PROVE  /\ RowAt(rows, p).origin = p
               /\ RowAt(rows, p).modified = FALSE /\ RowAt(rows, p).touched = FALSE
    <3> DEFINE i == p + 1
    <3>1. i \in 1 .. n /\ i - 1 = p
      BY <1>5
    <3> HIDE DEF i
    <3>2. rows[i] = [origin |-> i - 1, modified |-> FALSE, touched |-> FALSE]
      BY <1>1, <3>1
    <3> DEFINE e == rows[i]
    <3>3. e.origin = p /\ e.modified = FALSE /\ e.touched = FALSE
      BY <3>1, <3>2
    <3> HIDE DEF e
    <3>4. RowAt(rows, p) = e
      BY DEF i, e, RowAt
    <3> QED BY <3>3, <3>4
  <2> QED BY <2>1 DEF Origin
<1>7. \A p \in Places(rows) : p # None
  BY <1>5, OriginKnown
<1>8. \A x : x \notin none
  OBVIOUS
<1>9. << >> \in Seq(MoveOf) /\ IsInjective(<< >>) /\ ToSet(<< >>) = none
  BY DEF IsInjective, ToSet
<1>10. /\ NoChanges.deletions = none /\ NoChanges.insertions = none /\ NoChanges.modifications = none
       /\ NoChanges.moves = << >>
  BY DEF NoChanges
<1> HIDE DEF none
<1>11. IsBuilder(NoChanges)
  BY <1>8, <1>9, <1>10 DEF IsBuilder
<1>12. OneOriginEach(rows, n)
  BY <1>5, <1>6 DEF OneOriginEach
<1>13. Fits(none, none, rows, n)
  BY <1>5, <1>6, <1>8 DEF Fits, Stay, Left
<1>14. Tells(NoChanges, rows, n)
  BY <1>8, <1>9, <1>10, <1>12, <1>13 DEF Tells, MovesTell
<1>15. ModsTell(none, rows)
  BY <1>6, <1>8 DEF ModsTell
<1> QED BY <1>4, <1>6, <1>10, <1>11, <1>14, <1>15 DEF Keeps, rows

-----------------------------------------------------------------------------
(* The worker's run *)

(* The entries with what was done to their objects counted as theirs. *)
Settled(s) == [i \in DOMAIN s |-> [s[i] EXCEPT !.modified = s[i].modified \/ s[i].touched]]

(* An entry is its three parts. *)
LEMMA EntryIs ==
  ASSUME NEW e \in Entry
  PROVE  /\ e.origin \in Nat /\ e.modified \in BOOLEAN /\ e.touched \in BOOLEAN
         /\ \A o \in Nat, m \in BOOLEAN, t \in BOOLEAN :
              [origin |-> o, modified |-> m, touched |-> t] \in Entry
BY DEF Entry

(* The rows with their modified objects counted as set. *)
LEMMA SettledIs ==
  ASSUME NEW s \in Seq(Entry)
  PROVE  /\ Settled(s) \in Seq(Entry) /\ Len(Settled(s)) = Len(s) /\ Places(Settled(s)) = Places(s)
         /\ \A p \in Places(s) :
              /\ Origin(Settled(s), p) = Origin(s, p)
              /\ RowAt(Settled(s), p).modified <=> RowAt(s, p).modified \/ RowAt(s, p).touched
<1> DEFINE n == Len(s)
           set == Settled(s)
           Set(e) == [e EXCEPT !.modified = e.modified \/ e.touched]
<1>1. n \in Nat /\ DOMAIN s = 1 .. n /\ \A i \in 1 .. n : s[i] \in Entry
  OBVIOUS
<1>2. ASSUME NEW e \in Entry
      PROVE  /\ Set(e) \in Entry /\ Set(e).origin = e.origin
             /\ Set(e).modified <=> e.modified \/ e.touched
  <2> DEFINE m == e.modified \/ e.touched
  <2>1. m \in BOOLEAN
    OBVIOUS
  <2>2. Set(e) = [e EXCEPT !.modified = m]
    OBVIOUS
  <2>3. m <=> e.modified \/ e.touched
    OBVIOUS
  <2> HIDE DEF m, Set
  <2>4. Set(e) \in Entry /\ Set(e).origin = e.origin /\ Set(e).modified = m
    BY <2>1, <2>2 DEF Entry
  <2> QED BY <2>3, <2>4
<1>3. set = [i \in 1 .. n |-> Set(s[i])]
  BY <1>1 DEF Settled
<1> HIDE DEF set, Set, n
<1>4. \A i \in 1 .. n : set[i] = Set(s[i])
  BY <1>3
<1>5. \A i \in 1 .. n : set[i] \in Entry
  BY <1>1, <1>2, <1>4
<1>6. set = [i \in 1 .. n |-> set[i]]
  BY <1>3
<1>7. set \in Seq(Entry) /\ Len(set) = n
  <2> HIDE DEF set
  <2>1. set \in Seq(Entry)
    BY <1>1, <1>5, <1>6, IsASeq
  <2>2. Len(set) = n
    BY <1>1, <1>6, <2>1
  <2> QED BY <2>1, <2>2
<1>8. ASSUME NEW p \in Places(s)
      PROVE  /\ Origin(set, p) = Origin(s, p)
             /\ RowAt(set, p).modified <=> RowAt(s, p).modified \/ RowAt(s, p).touched
  <2> DEFINE i == p + 1
  <2>1. i \in 1 .. n /\ RowAt(set, p) = set[i] /\ RowAt(s, p) = s[i]
    BY <1>1, PlacesAre DEF RowAt, n
  <2> HIDE DEF i
  <2>2. set[i] = Set(s[i]) /\ s[i] \in Entry
    BY <1>1, <1>4, <2>1
  <2> QED BY <1>2, <2>1, <2>2 DEF Origin
<1> QED BY <1>7, <1>8 DEF set, n, Places

(* What the worker sees last, by where the callback knows it. *)
Recounted == [p \in DOMAIN list |-> SinceTold(list[p])]

(* What the worker makes of an entry. *)
LEMMA SinceToldIs ==
  ASSUME NEW e \in Entry, NEW before \in Entry,
         e.origin # None => RowAt(seen, e.origin) = before
  PROVE  /\ SinceTold(e) \in Entry
         /\ e.origin = None => SinceTold(e).origin = None
         /\ e.origin # None => SinceTold(e).origin = before.origin
         /\ e.origin # None /\ before.origin # None =>
              (SinceTold(e).modified <=> e.modified \/ before.modified \/ e.touched)
<1>1. CASE e.origin = None
  <2>1. SinceTold(e) = NewEntry
    BY <1>1 DEF SinceTold
  <2> QED BY <1>1, <2>1, NewEntryIs
<1>2. CASE e.origin # None /\ before.origin = None
  <2>1. SinceTold(e) = NewEntry
    BY <1>2 DEF SinceTold
  <2> QED BY <1>2, <2>1, NewEntryIs
<1>3. CASE e.origin # None /\ before.origin # None
  <2> DEFINE m == e.modified \/ before.modified \/ e.touched
  <2>1. SinceTold(e) = [origin |-> before.origin, modified |-> m, touched |-> FALSE]
    BY <1>3 DEF SinceTold
  <2>2. m \in BOOLEAN /\ (m <=> e.modified \/ before.modified \/ e.touched)
    OBVIOUS
  <2> HIDE DEF m
  <2> DEFINE d == SinceTold(e)
  <2>3. d = [origin |-> before.origin, modified |-> m, touched |-> FALSE]
    BY <2>1
  <2> HIDE DEF d
  <2>4. d \in Entry
    BY <2>2, <2>3, EntryIs
  <2>5. d.origin = before.origin /\ d.modified = m
    BY <2>3
  <2> QED BY <1>3, <2>2, <2>4, <2>5 DEF d
<1> QED BY <1>1, <1>2, <1>3

(* The list by where the callback knows it is the two versions combined. *)
LEMMA RunCombines ==
  ASSUME list \in Seq(Entry), seen \in Seq(Entry), OneOriginEach(list, Len(seen))
  PROVE  /\ Recounted \in Seq(Entry) /\ Len(Recounted) = Len(list)
         /\ Combined(Recounted, seen, Settled(list))
<1> DEFINE n == Len(list)
           rows3 == Recounted
           rows2 == Settled(list)
<1>1. /\ n \in Nat /\ DOMAIN list = 1 .. n /\ \A i \in 1 .. n : list[i] \in Entry
      /\ \A i \in 1 .. n : i - 1 \in Places(list) /\ RowAt(list, i - 1) = list[i]
      /\ \A p \in Places(list) : p + 1 \in 1 .. n
  <2>1. n \in Nat /\ DOMAIN list = 1 .. n /\ \A i \in 1 .. n : list[i] \in Entry
    OBVIOUS
  <2>2. \A i \in 1 .. n : i - 1 \in Nat /\ i - 1 < n /\ (i - 1) + 1 = i
    BY <2>1
  <2>3. \A p \in Places(list) : p + 1 \in 1 .. n
    BY <2>1, PlacesAre
  <2>4. \A i \in 1 .. n : i - 1 \in Places(list)
    BY <2>2, PlacesAre
  <2>5. \A i \in 1 .. n : RowAt(list, i - 1) = list[i]
    BY <2>2 DEF RowAt
  <2> QED BY <2>1, <2>3, <2>4, <2>5
<1> HIDE DEF n
<1>2. Places(seen) = FirstRows(Len(seen))
  BY DEF Places
<1> DEFINE Of(i) == RowAt(seen, list[i].origin)
<1>3. ASSUME NEW i \in 1 .. n, list[i].origin # None
      PROVE  list[i].origin \in Places(seen) /\ Of(i) \in Entry
  <2>1. Origin(list, i - 1) = list[i].origin /\ i - 1 \in Places(list)
    BY <1>1 DEF Origin
  <2>2. list[i].origin \in Places(seen)
    BY <1>2, <1>3, <2>1 DEF OneOriginEach
  <2> QED BY <2>2, PlacesAre
<1>4. ASSUME NEW i \in 1 .. n
      PROVE  /\ SinceTold(list[i]) \in Entry
             /\ list[i].origin = None => SinceTold(list[i]).origin = None
             /\ list[i].origin # None => SinceTold(list[i]).origin = Of(i).origin
             /\ list[i].origin # None /\ Of(i).origin # None =>
                  (SinceTold(list[i]).modified
                     <=> list[i].modified \/ Of(i).modified \/ list[i].touched)
  <2>1. list[i] \in Entry
    BY <1>1
  <2>2. CASE list[i].origin = None
    <3> HIDE DEF Of
    <3>1. NewEntry \in Entry
      BY NewEntryIs
    <3> QED BY <2>1, <2>2, <3>1, SinceToldIs
  <2>3. CASE list[i].origin # None
    <3>1. Of(i) \in Entry
      BY <1>3, <2>3
    <3> DEFINE before == Of(i)
    <3>2. list[i].origin # None => RowAt(seen, list[i].origin) = before
      OBVIOUS
    <3>3. before \in Entry
      BY <3>1
    <3> HIDE DEF before
    <3>4. /\ SinceTold(list[i]) \in Entry
          /\ list[i].origin # None => SinceTold(list[i]).origin = before.origin
          /\ list[i].origin # None /\ before.origin # None =>
               (SinceTold(list[i]).modified
                  <=> list[i].modified \/ before.modified \/ list[i].touched)
      BY <2>1, <3>2, <3>3, SinceToldIs
    <3> QED BY <2>3, <3>4 DEF before
  <2> QED BY <2>2, <2>3
<1>5. rows3 = [i \in 1 .. n |-> SinceTold(list[i])]
  BY <1>1 DEF Recounted
<1> HIDE DEF rows3
<1>6. \A i \in 1 .. n : rows3[i] = SinceTold(list[i])
  BY <1>5
<1>7. rows3 \in Seq(Entry) /\ Len(rows3) = n
  <2>1. rows3 = [i \in 1 .. n |-> rows3[i]]
    BY <1>5
  <2>2. \A i \in 1 .. n : rows3[i] \in Entry
    BY <1>4, <1>6
  <2>3. rows3 \in Seq(Entry)
    <3>1. n \in Nat
      BY <1>1
    <3> QED BY ONLY <2>1, <2>2, <3>1, IsASeq
  <2> DEFINE N == n
  <2>4. rows3 = [i \in 1 .. N |-> rows3[i]] /\ N \in Nat
    BY <1>1, <2>1
  <2> HIDE DEF N
  <2>5. Len(rows3) = N
    BY <2>3, <2>4
  <2> QED BY <2>3, <2>5 DEF N
<1>8. /\ Places(rows2) = Places(list) /\ Places(rows3) = Places(list)
      /\ \A p \in Places(list) :
           /\ Origin(rows2, p) = Origin(list, p)
           /\ RowAt(rows2, p).modified <=> RowAt(list, p).modified \/ RowAt(list, p).touched
  BY <1>7, SettledIs DEF Places, n
<1> HIDE DEF rows2
<1>9. ASSUME NEW p \in Places(rows2)
      PROVE  LET q == Origin(rows2, p) IN
             /\ q = None => Origin(rows3, p) = None
             /\ q # None => Origin(rows3, p) = Origin(seen, q)
             /\ q # None /\ Origin(seen, q) # None =>
                  (RowAt(rows3, p).modified <=> RowAt(rows2, p).modified \/ RowAt(seen, q).modified)
  <2> DEFINE i == p + 1
  <2>1. i \in 1 .. n /\ RowAt(rows3, p) = rows3[i] /\ RowAt(list, p) = list[i]
    BY <1>1, <1>8 DEF RowAt
  <2>2. Origin(rows2, p) = list[i].origin
    BY <1>8, <2>1 DEF Origin
  <2>3. RowAt(rows2, p).modified <=> list[i].modified \/ list[i].touched
    BY <1>8, <2>1
  <2> HIDE DEF i
  <2> QED BY <1>4, <1>6, <2>1, <2>2, <2>3 DEF Origin
<1>10. Combined(rows3, seen, rows2)
  BY <1>8, <1>9 DEF Combined
<1> QED BY <1>7, <1>10 DEF rows2, rows3, n

(* Without moves nothing is cleaned up. *)
LEMMA CleanUpNone ==
  ASSUME NEW c, c.moves = << >>
  PROVE  CleanUpStaleMoves(c) = [c EXCEPT !.moves = << >>]
<1> DEFINE base == [c EXCEPT !.moves = << >>]
           Step(n, t) == CleanUpStaleMove(t, c.moves[n])
           after == CHOOSE g : g = [n \in 0 .. 0 |-> IF n = 0 THEN base ELSE Step(n, g[n - 1])]
<1>1. CleanUpStaleMoves(c) = after[0]
  <2>1. Len(c.moves) = 0
    OBVIOUS
  <2> QED BY <2>1 DEF CleanUpStaleMoves
<1> HIDE DEF base, Step
<1>2. \E g : g = [n \in 0 .. 0 |-> IF n = 0 THEN base ELSE Step(n, g[n - 1])]
  <2> DEFINE g == [n \in 0 .. 0 |-> base]
  <2>1. \A n \in 0 .. 0 : n = 0
    OBVIOUS
  <2>2. g = [n \in 0 .. 0 |-> IF n = 0 THEN base ELSE Step(n, g[n - 1])]
    BY <2>1
  <2> QED BY <2>2
<1>3. after = [n \in 0 .. 0 |-> IF n = 0 THEN base ELSE Step(n, after[n - 1])]
  BY <1>2
<1> HIDE DEF after
<1>4. after[0] = base
  BY <1>3
<1> QED BY <1>1, <1>4 DEF base

(* A cleared list whose size is known. *)
LEMMA ClearedKeeps ==
  ASSUME NEW rows \in Seq(Entry), NEW n \in Nat, NEW c, Cleared(c, rows),
         NEW d, DOMAIN d = DOMAIN c, d.deletions = FirstRows(n), d.insertions = c.insertions,
         d.moves = c.moves, d.modifications = c.modifications
  PROVE  Keeps(d, rows, n)
<1>1. IsBuilder(d)
  <2>1. FirstRows(n) \in SUBSET Nat
    BY PlacesAreNumbers
  <2> QED BY <2>1 DEF IsBuilder, Cleared
<1>2. \A p \in Places(rows) : Origin(rows, p) = None
  BY DEF Cleared
<1>3. OneOriginEach(rows, n) /\ ModsTell(d.modifications, rows)
  BY <1>2 DEF OneOriginEach, ModsTell, Cleared
<1>4. Fits(d.deletions, d.insertions, rows, n)
  BY DEF Fits, Stay, Left, Cleared
<1>5. MovesTell(d.moves, d.insertions, rows)
  <2>1. \A m : m \notin ToSet(d.moves)
    BY DEF Cleared, ToSet
  <2> QED BY <1>2, <2>1 DEF MovesTell, Cleared
<1> QED BY <1>1, <1>3, <1>4, <1>5 DEF Keeps, Tells

(* What run() completes tells the truth, the size of a cleared list and the
   modified objects included. *)
LEMMA CompletedKeeps ==
  ASSUME list \in Seq(Entry), seen \in Seq(Entry), Len(seen) < Npos, prevSize = Len(seen),
         owner = "alive", kind \in {"links", "values"},
         kind = "values" => \A p \in Places(list) : ~ RowAt(list, p).touched,
         Keeps(change, list, Len(seen)) \/ (kind = "values" /\ Cleared(change, list))
  PROVE  Keeps(Completed, Settled(list), Len(seen))
<1> DEFINE rows2 == Settled(list)
           n == Len(seen)
           c == CleanUpStaleMoves(change)
           set == {p \in Places(list) : RowAt(list, p).touched}
<1>1. /\ rows2 \in Seq(Entry) /\ Places(rows2) = Places(list) /\ Places(list) \in SUBSET Nat
      /\ \A p \in Places(list) :
           /\ Origin(rows2, p) = Origin(list, p)
           /\ RowAt(rows2, p).modified <=> RowAt(list, p).modified \/ RowAt(list, p).touched
      /\ n \in Nat
  <2>1. Places(list) \in SUBSET Nat
    BY PlacesAre
  <2> QED BY <2>1, SettledIs
<1>2. /\ set \subseteq Places(list)
      /\ \A p \in Places(list) : p \in set <=> RowAt(list, p).touched
  OBVIOUS
<1> HIDE DEF rows2, n, set
<1>3. \A p \in Places(list) : Origin(list, p) # None =>
        (RowAt(rows2, p).modified <=> p \in set \/ RowAt(list, p).modified)
  BY <1>1, <1>2
<1>4. CASE Keeps(change, list, n)
  <2>1. Keeps(c, list, n)
    <3>1. IsBuilder(change) /\ Tells(change, list, n) /\ ModsTell(change.modifications, list)
      BY <1>4 DEF Keeps
    <3>2. IsBuilder(c) /\ Tells(c, list, n) /\ c.modifications = change.modifications
      BY <1>1, <3>1, CleanUpTells
    <3> QED BY <3>1, <3>2 DEF Keeps
  <2> HIDE DEF c
  <2>2. CASE kind = "links"
    <3> DEFINE d == WithTouched(c)
    <3>1. /\ DOMAIN d = DOMAIN c /\ d.deletions = c.deletions /\ d.insertions = c.insertions
          /\ d.moves = c.moves /\ d.modifications = c.modifications \union set
      BY <2>1 DEF Keeps, IsBuilder, NoChanges, WithTouched, set
    <3>2. Completed = d
      BY <2>2 DEF Completed, c
    <3> HIDE DEF d
    <3>3. Keeps(d, rows2, n)
      BY <1>1, <1>2, <1>3, <2>1, <3>1, SetKeeps
    <3> QED BY <3>2, <3>3 DEF rows2, n
  <2>3. CASE kind = "values"
    <3>1. c.deletions # FirstRows(Npos)
      <4>1. c.deletions \subseteq FirstRows(n)
        BY <2>1 DEF Keeps, Tells, Fits
      <4>2. n \in FirstRows(Npos) /\ n \notin FirstRows(n)
        BY <1>1, NposIsNatural, FirstRowsAre DEF n
      <4> QED BY <4>1, <4>2
    <3>2. Completed = c
      BY <2>3, <3>1 DEF Completed, WithSizeKnown, c
    <3>3. c.modifications = c.modifications \union set
      BY <1>2, <2>3
    <3>4. Keeps(c, rows2, n)
      BY <1>1, <1>2, <1>3, <2>1, <3>3, SetKeeps
    <3> QED BY <3>2, <3>4 DEF rows2, n
  <2> QED BY <2>2, <2>3
<1>5. CASE kind = "values" /\ Cleared(change, list)
  <2>1. DOMAIN change = {"deletions", "insertions", "modifications", "moves", "mapping"}
        /\ change.moves = << >> /\ change.deletions = FirstRows(Npos)
    BY <1>5 DEF Cleared, IsBuilder, NoChanges
  <2>2. c = [change EXCEPT !.moves = << >>]
    BY <2>1, CleanUpNone
  <2>3. /\ DOMAIN c = DOMAIN change /\ c.deletions = change.deletions /\ c.insertions = change.insertions
        /\ c.moves = change.moves /\ c.modifications = change.modifications
    BY <2>1, <2>2
  <2> HIDE DEF c
  <2> DEFINE all == FirstRows(n)
             d == [c EXCEPT !.deletions = all]
  <2>4. Completed = d
    BY <1>5, <2>1, <2>3 DEF Completed, WithSizeKnown, c, n
  <2> HIDE DEF all
  <2>5. /\ DOMAIN d = DOMAIN change /\ d.deletions = all /\ d.insertions = change.insertions
        /\ d.moves = change.moves /\ d.modifications = change.modifications
    BY <2>1, <2>3
  <2> HIDE DEF d
  <2>6. Keeps(d, list, n)
    BY <1>1, <1>5, <2>5, ClearedKeeps DEF all
  <2>7. d.modifications = d.modifications \union set
    BY <1>2, <1>5
  <2>8. Keeps(d, rows2, n)
    BY <1>1, <1>2, <1>3, <2>6, <2>7, SetKeeps
  <2> QED BY <2>4, <2>8 DEF rows2, n
<1> QED BY <1>4, <1>5 DEF n

(* A list that is gone: whatever was added up, its entries are deleted. *)
LEMMA MergeGone ==
  ASSUME NEW b, NEW c, NEW n \in Nat, IsBuilder(b), IsBuilder(c), c.moves = << >>,
         c.deletions = FirstRows(n), b.insertions \subseteq FirstRows(n),
         \A o \in ToSet(b.moves) : o.to \in FirstRows(n)
  PROVE  MergeMoved(b, c).deletions = MergedDeletions(b, c)
<1> DEFINE N == Len(b.moves)
           base == MergeStart(c)
           Step(i, t) == MergeOldMove(b, c, t, b.moves[i])
           after == CHOOSE g : g = [i \in 0 .. N |-> IF i = 0 THEN base ELSE Step(i, g[i - 1])]
           S == {i \in Nat : i <= N => after[i] = base}
<1>1. /\ N \in Nat /\ \A i \in 1 .. N : b.moves[i] \in MoveOf /\ b.moves[i] \in ToSet(b.moves)
  BY DEF IsBuilder, ToSet
<1>2. MergeOldMoves(b, c) = after[N]
  BY DEF MergeOldMoves, MergeStart
<1>3. base.kept = << >> /\ base.moves = << >> /\ base \in MergeStates
  BY DEF MergeStart, MergeStates, IsBuilder
<1> HIDE DEF base
<1>4. ASSUME NEW i \in 1 .. N PROVE Step(i, base) = base
  <2> DEFINE old == b.moves[i]
  <2>1. old \in MoveOf /\ old.to \in c.deletions
    BY <1>1
  <2>2. \A m \in ToSet(base.moves) : m.from # old.to
    BY <1>3 DEF ToSet
  <2> HIDE DEF old
  <2>3. MergeOldMove(b, c, base, old) = MergedOnce(c, base, old)
    BY <1>3, <2>1, <2>2, MergeOnce
  <2> QED BY <2>1, <2>3 DEF MergedOnce, old
<1> HIDE DEF Step, N
<1>5. \E g : g = [i \in 0 .. N |-> IF i = 0 THEN base ELSE Step(i, g[i - 1])]
  <2> DEFINE g == [i \in 0 .. N |-> base]
  <2>1. \A i \in 0 .. N : i # 0 => i \in 1 .. N /\ i - 1 \in 0 .. N
    BY <1>1
  <2>2. \A i \in 0 .. N : i # 0 => g[i - 1] = base /\ Step(i, g[i - 1]) = base
    BY <1>4, <2>1
  <2>3. g = [i \in 0 .. N |-> IF i = 0 THEN base ELSE Step(i, g[i - 1])]
    BY <2>2
  <2> QED BY <2>3
<1>6. after = [i \in 0 .. N |-> IF i = 0 THEN base ELSE Step(i, after[i - 1])]
  BY <1>5
<1> HIDE DEF after
<1>7. after[0] = base /\ \A i \in 1 .. N : after[i] = Step(i, after[i - 1])
  BY <1>1, <1>6
<1>8. 0 \in S
  BY <1>7
<1>9. ASSUME NEW i \in Nat, i \in S PROVE i + 1 \in S
  <2>1. SUFFICES ASSUME i + 1 <= N PROVE after[i + 1] = base
    OBVIOUS
  <2>2. i + 1 \in 1 .. N /\ (i + 1) - 1 = i /\ i <= N
    BY <1>1, <2>1
  <2> QED BY <1>4, <1>7, <1>9, <2>2
<1>10. N \in S
  <2> HIDE DEF S
  <2> QED BY <1>1, <1>8, <1>9, ByInduction
<1>11. MergeOldMoves(b, c) = base
  BY <1>1, <1>2, <1>10
<1> DEFINE new == MergeNewMoves(b, base.moves)
           moves == base.kept \o new
           d0 == [b EXCEPT !.moves = moves, !.deletions = MergedDeletions(b, c),
                           !.insertions = MergedInsertions(b, c)]
           d == CleanUpStaleMoves(d0)
           mods == ShiftForInsertAtAll(EraseAtAll(d.modifications, c.deletions), c.insertions)
                     \union (base.modified \union CarriedAlong(b, base.moves))
<1>12. MergeMoved(b, c) = [d EXCEPT !.modifications = mods]
  BY <1>11 DEF MergeMoved, MergedDeletions, MergedInsertions
<1>13. new = << >>
  <2> DEFINE chosen == {m \in ToSet(base.moves) : m.from \notin b.insertions}
             fresh == OnlyOf(base.moves, chosen)
  <2>1. base.moves \in Seq(MoveOf) /\ ToSet(base.moves) = {}
    BY <1>3 DEF ToSet
  <2>2. fresh \in Seq(MoveOf) /\ ToSet(fresh) = {}
    <3> HIDE DEF chosen
    <3>1. fresh \in Seq(MoveOf) /\ ToSet(fresh) = ToSet(base.moves) \cap chosen
      BY <2>1, OnlyOfIs
    <3> QED BY <2>1, <3>1
  <2>3. new = [m \in DOMAIN fresh |->
                 [fresh[m] EXCEPT !.from = Shift(b.deletions, Unshift(b.insertions, fresh[m].from))]]
    BY DEF MergeNewMoves
  <2> HIDE DEF fresh, new
  <2>4. Len(fresh) = 0 /\ DOMAIN fresh = 1 .. Len(fresh)
    <3>1. Len(fresh) \in Nat /\ DOMAIN fresh = 1 .. Len(fresh)
      BY <2>2
    <3>2. ASSUME Len(fresh) # 0 PROVE FALSE
      <4>1. 1 \in DOMAIN fresh
        BY <3>1, <3>2
      <4> QED BY <2>2, <4>1 DEF ToSet
    <3> QED BY <3>1, <3>2
  <2>5. DOMAIN fresh = {}
    BY <2>4
  <2> QED BY <2>3, <2>5
<1>14. moves = << >>
  BY <1>3, <1>13
<1> HIDE DEF moves, mods
<1>15. d0.moves = << >> /\ d0.deletions = MergedDeletions(b, c) /\ DOMAIN d0 = DOMAIN NoChanges
  <2> DEFINE D2 == MergedDeletions(b, c)
             I2 == MergedInsertions(b, c)
  <2> HIDE DEF D2, I2
  <2>1. d0 = [b EXCEPT !.moves = moves, !.deletions = D2, !.insertions = I2]
    BY DEF D2, I2
  <2>2. DOMAIN b = {"deletions", "insertions", "modifications", "moves", "mapping"}
    BY DEF IsBuilder, NoChanges
  <2> HIDE DEF d0
  <2>3. d0.moves = moves /\ d0.deletions = D2 /\ DOMAIN d0 = DOMAIN NoChanges
    BY <2>1, <2>2 DEF NoChanges
  <2> QED BY <1>14, <2>3 DEF D2
<1> HIDE DEF d0
<1>16. d = [d0 EXCEPT !.moves = << >>]
  BY <1>15, CleanUpNone
<1>17. d.deletions = d0.deletions /\ DOMAIN d = DOMAIN NoChanges
  BY <1>15, <1>16 DEF NoChanges
<1> HIDE DEF d
<1>18. [d EXCEPT !.modifications = mods].deletions = d.deletions
  BY <1>17 DEF NoChanges
<1> QED BY <1>12, <1>15, <1>17, <1>18

-----------------------------------------------------------------------------
(* The invariant *)

Untouched(rows) == \A p \in Places(rows) : ~ RowAt(rows, p).touched

Bounds ==
  /\ kind \in {"links", "values"}
  /\ owner \in {"alive", "deleted", "deletedAfterMove"}
  /\ list \in Seq(Entry) /\ Len(list) <= MaxSize
  /\ seen \in Seq(Entry) /\ Len(seen) <= MaxSize
  /\ toldSize \in 0 .. MaxSize
  /\ prevSize = Len(seen)
  /\ kind = "values" => Untouched(list)
  /\ owner # "alive" => list = << >>

(* Both builders tell the truth, each of the versions it lies between; but
   one of a list of values that was cleared does not know its size yet. *)
Reads(c, rows) == Keeps(c, rows, Len(seen)) \/ (kind = "values" /\ Cleared(c, rows))

IsAlive ==
  owner = "alive" => Keeps(accumulated, seen, toldSize) /\ Reads(change, list)

(* Of a list that is gone the deletion is told, or will be by the next run. *)
IsGone ==
  owner = "deleted" =>
    /\ prevSize = 0 => FirstRows(toldSize) \subseteq accumulated.deletions
    /\ prevSize # 0 => /\ Keeps(accumulated, seen, toldSize)
                       /\ IsBuilder(change) /\ change.moves = << >>

Inv == Bounds /\ IsAlive /\ IsGone

(* No list has Npos rows. *)
LEMMA BelowNpos ==
  ASSUME Bounds
  PROVE  /\ Len(seen) \in Nat /\ Len(seen) < Npos /\ toldSize \in Nat /\ toldSize < Npos
         /\ Len(list) \in Nat /\ MaxSize \in Nat
<1>1. Len(seen) \in Nat /\ Len(list) \in Nat /\ Len(seen) <= MaxSize
  BY DEF Bounds
<1> QED BY <1>1, ListsAreBelowNpos, NposIsNatural DEF Bounds

(* The invariant holds at the start. *)
LEMMA InvStart == Init => Inv
<1> SUFFICES ASSUME Init PROVE Inv
  OBVIOUS
<1>1. PICK n \in 0 .. MaxSize : list = Unchanged(n) /\ seen = Unchanged(n) /\ toldSize = n /\ prevSize = n
  BY DEF Init
<1>2. n \in Nat /\ n < Npos /\ n <= MaxSize
  BY ListsAreBelowNpos, NposIsNatural
<1>3. /\ Unchanged(n) \in Seq(Entry) /\ Len(Unchanged(n)) = n
      /\ \A p \in Places(Unchanged(n)) : Origin(Unchanged(n), p) = p /\ ~ RowAt(Unchanged(n), p).touched
      /\ Keeps(NoChanges, Unchanged(n), n)
  BY <1>2, UnchangedKeeps
<1>4. owner = "alive" /\ kind \in {"links", "values"} /\ change = NoChanges /\ accumulated = NoChanges
  BY DEF Init
<1>5. Bounds
  BY <1>1, <1>2, <1>3, <1>4 DEF Bounds, Untouched
<1>6. Keeps(accumulated, seen, toldSize) /\ Keeps(change, list, Len(seen))
  BY <1>1, <1>3, <1>4
<1> QED BY <1>4, <1>5, <1>6 DEF Inv, IsAlive, IsGone, Reads

(* A change of the list, with what the observer makes of it. *)
LEMMA EditStep ==
  ASSUME Inv, NEW newList \in Seq(Entry), NEW newChange, Edit(newList, newChange),
         Len(newList) <= MaxSize, kind = "values" => Untouched(newList), Reads(newChange, newList)
  PROVE  Inv'
<1>1. /\ owner = "alive" /\ list' = newList /\ change' = newChange
      /\ UNCHANGED <<kind, owner, seen, toldSize, accumulated, prevSize>>
  BY DEF Edit
<1>2. Bounds'
  BY <1>1 DEF Inv, Bounds, Untouched, Places, RowAt
<1>3. Reads(change, list)'
  BY <1>1 DEF Reads
<1>4. Keeps(accumulated, seen, toldSize)'
  <2>1. Keeps(accumulated, seen, toldSize)
    BY <1>1 DEF Inv, IsAlive
  <2> QED BY <1>1, <2>1
<1> QED BY <1>1, <1>2, <1>3, <1>4 DEF Inv, IsAlive, IsGone

(* What an edit starts from. *)
Editable ==
  /\ owner = "alive" /\ kind \in {"links", "values"} /\ list \in Seq(Entry)
  /\ Len(list) \in Nat /\ Len(list) <= MaxSize /\ MaxSize \in Nat
  /\ Len(seen) \in Nat /\ Len(seen) < Npos
  /\ kind = "values" => Untouched(list)
  /\ Reads(change, list)

(* An edit is of a list that is there, and whose builder tells the truth. *)
LEMMA EditStarts ==
  ASSUME Inv, owner = "alive"
  PROVE  Editable
<1>1. Bounds /\ Reads(change, list)
  BY DEF Inv, IsAlive
<1> QED BY <1>1, BelowNpos DEF Bounds, Editable

(* InsertEntry keeps the invariant. *)
LEMMA InsertStep ==
  ASSUME Inv, NEW place \in 0 .. Len(list), InsertEntry(place)
  PROVE  Inv'
<1> DEFINE rows2 == WithEntry(list, place, NewEntry)
           d == Insert(change, place)
           e == Modify(d, place)
<1>1. /\ Len(list) < MaxSize
      /\ Edit(rows2, IF kind = "links" THEN d ELSE e)
  BY DEF InsertEntry
<1>2. Editable
  BY <1>1, EditStarts DEF Edit
<1>3. list \in Seq(Entry) /\ Len(seen) \in Nat /\ Len(seen) < Npos
  BY <1>2 DEF Editable
<1>4. /\ rows2 \in Seq(Entry) /\ Len(rows2) = Len(list) + 1
      /\ Rearranges(WhenCome(place), {place}, {place}, rows2, list)
      /\ \A p \in Places(rows2) \ {place} : RowAt(rows2, p) = RowAt(list, WhenCome(place)[p])
  BY <1>3, ComeRearranges
<1>5. /\ Keeps(change, list, Len(seen)) => Keeps(d, rows2, Len(seen)) /\ Keeps(e, rows2, Len(seen))
      /\ Cleared(change, list) => Cleared(d, rows2) /\ Cleared(e, rows2)
  BY <1>3, InsertKeeps, InsertSetKeeps
<1>6. ~ RowAt(rows2, place).touched
  <2>1. HasCome(rows2, list, place, NewEntry)
    BY <1>3, NewEntryIs, WithEntryIs
  <2>2. RowAt(rows2, place) = NewEntry
    BY <2>1 DEF HasCome
  <2> QED BY <2>2 DEF NewEntry
<1> HIDE DEF rows2, d, e
<1>7. ASSUME kind = "values" PROVE Untouched(rows2)
  <2>1. ASSUME NEW p \in Places(rows2) PROVE ~ RowAt(rows2, p).touched
    <3>1. CASE p = place
      BY <1>6, <3>1
    <3>2. CASE p # place
      <4>1. WhenCome(place)[p] \in Places(list)
        BY <1>4, <3>2 DEF Rearranges
      <4> QED BY <1>2, <1>4, <1>7, <3>2, <4>1 DEF Editable, Untouched
    <3> QED BY <3>1, <3>2
  <2> QED BY <2>1 DEF Untouched
<1>8. Reads(d, rows2) /\ Reads(e, rows2)
  BY <1>2, <1>5 DEF Editable, Reads
<1>9. Len(rows2) <= MaxSize
  BY <1>1, <1>2, <1>4 DEF Editable
<1> QED BY <1>1, <1>4, <1>7, <1>8, <1>9, EditStep

(* EraseEntry keeps the invariant. *)
LEMMA EraseStep ==
  ASSUME Inv, NEW place \in Places(list), EraseEntry(place)
  PROVE  Inv'
<1> DEFINE rows2 == WithoutEntry(list, place)
           d == Erase(change, place)
<1>1. Edit(rows2, d)
  BY DEF EraseEntry
<1>2. Editable
  BY <1>1, EditStarts DEF Edit
<1>3. list \in Seq(Entry) /\ Len(seen) \in Nat /\ Len(seen) < Npos
  BY <1>2 DEF Editable
<1>4. /\ rows2 \in Seq(Entry) /\ Len(rows2) = Len(list) - 1
      /\ Rearranges(WhenGone(place), {}, {}, rows2, list)
      /\ \A p \in Places(rows2) : RowAt(rows2, p) = RowAt(list, WhenGone(place)[p])
  BY <1>3, GoneRearranges
<1>5. /\ Keeps(change, list, Len(seen)) => Keeps(d, rows2, Len(seen))
      /\ Cleared(change, list) => Cleared(d, rows2)
  BY <1>3, EraseKeeps
<1> HIDE DEF rows2, d
<1>6. ASSUME kind = "values" PROVE Untouched(rows2)
  <2>1. \A p \in Places(rows2) : WhenGone(place)[p] \in Places(list)
    BY <1>4 DEF Rearranges
  <2> QED BY <1>2, <1>4, <1>6, <2>1 DEF Editable, Untouched
<1>7. Reads(d, rows2)
  BY <1>2, <1>5 DEF Editable, Reads
<1>8. Len(rows2) <= MaxSize
  BY <1>2, <1>4 DEF Editable
<1> QED BY <1>1, <1>4, <1>6, <1>7, <1>8, EditStep

(* MoveEntry keeps the invariant. *)
LEMMA MoveStep ==
  ASSUME Inv, NEW from \in Places(list), NEW to \in Places(list), MoveEntry(from, to)
  PROVE  Inv'
<1> DEFINE rows2 == Moved(list, from, to)
           d == Move(change, from, to)
<1>1. Edit(rows2, d)
  BY DEF MoveEntry
<1>2. Editable
  BY <1>1, EditStarts DEF Edit
<1>3. list \in Seq(Entry) /\ Len(seen) \in Nat /\ Len(seen) < Npos
  BY <1>2 DEF Editable
<1>4. rows2 \in Seq(Entry) /\ Len(rows2) = Len(list)
  BY <1>3, MovedIs
<1>5. Reorders(rows2, list, from, to)
  BY <1>3, MovedRearranges
<1>6. /\ Keeps(change, list, Len(seen)) => Keeps(d, rows2, Len(seen))
      /\ Cleared(change, list) => Cleared(d, rows2)
  BY <1>3, MoveKeeps
<1> HIDE DEF rows2, d
<1>7. ASSUME kind = "values" PROVE Untouched(rows2)
  <2>1. \A p \in Places(rows2) :
          RowAt(rows2, p) = RowAt(list, WhenMoved(from, to)[p]) /\ WhenMoved(from, to)[p] \in Places(list)
    BY <1>5, <1>3, PlacesAre DEF Reorders, Rearranges
  <2> QED BY <1>2, <1>7, <2>1 DEF Editable, Untouched
<1>8. Reads(d, rows2)
  BY <1>2, <1>6 DEF Editable, Reads
<1>9. Len(rows2) <= MaxSize
  BY <1>2, <1>4 DEF Editable
<1> QED BY <1>1, <1>4, <1>7, <1>8, <1>9, EditStep

(* SwapValues keeps the invariant. *)
LEMMA SwapValuesStep ==
  ASSUME Inv, NEW p \in Places(list), NEW q \in Places(list), SwapValues(p, q)
  PROVE  Inv'
<1> DEFINE rows2 == Swapped(list, p, q)
           d == IF p + 1 = q THEN Move(change, p, q) ELSE Move(Move(change, p, q), q - 1, p)
<1>1. Edit(rows2, d) /\ p < q
  BY DEF SwapValues, Swapped
<1>2. Editable
  BY <1>1, EditStarts DEF Edit
<1>3. list \in Seq(Entry) /\ Len(seen) \in Nat /\ Len(seen) < Npos
  BY <1>2 DEF Editable
<1>4. /\ rows2 \in Seq(Entry) /\ Len(rows2) = Len(list)
      /\ RowAt(rows2, p) = RowAt(list, q) /\ RowAt(rows2, q) = RowAt(list, p)
      /\ \A r \in Places(list) : r # p /\ r # q => RowAt(rows2, r) = RowAt(list, r)
  BY <1>1, <1>3, SwappedIs
<1>5. /\ Keeps(change, list, Len(seen)) => Keeps(d, rows2, Len(seen))
      /\ Cleared(change, list) => Cleared(d, rows2)
  BY <1>1, <1>3, SwapKeeps
<1> HIDE DEF rows2, d
<1>6. ASSUME kind = "values" PROVE Untouched(rows2)
  <2>1. Places(rows2) = Places(list)
    BY <1>4 DEF Places
  <2>2. Untouched(list)
    BY <1>2, <1>6 DEF Editable
  <2> QED BY <1>4, <2>1, <2>2 DEF Untouched
<1>7. Reads(d, rows2)
  BY <1>2, <1>5 DEF Editable, Reads
<1>8. Len(rows2) <= MaxSize
  BY <1>2, <1>4 DEF Editable
<1> QED BY <1>1, <1>4, <1>6, <1>7, <1>8, EditStep

(* Entries in place: those of set are set, the others stay. *)
LEMMA InPlaceStep ==
  ASSUME Inv, NEW rows2 \in Seq(Entry), NEW d, NEW set, Edit(rows2, d),
         Len(rows2) = Len(list), set \subseteq Places(list),
         \A p \in Places(list) : Origin(rows2, p) = Origin(list, p),
         \A p \in Places(list) : RowAt(rows2, p).modified <=> p \in set \/ RowAt(list, p).modified,
         kind = "values" => \A p \in Places(list) : RowAt(rows2, p).touched = RowAt(list, p).touched,
         IsBuilder(change) =>
           /\ DOMAIN d = DOMAIN change
           /\ d.deletions = change.deletions /\ d.insertions = change.insertions
           /\ d.moves = change.moves /\ d.modifications = change.modifications \union set
  PROVE  Inv'
<1>1. Editable
  BY EditStarts DEF Edit
<1>2. Places(rows2) = Places(list) /\ Places(list) \in SUBSET Nat
  BY <1>1, PlacesAre DEF Places, Editable
<1>3. IsBuilder(change)
  BY <1>1 DEF Editable, Reads, Keeps, Cleared
<1> DEFINE n == Len(seen)
<1> HIDE DEF n
<1>4. /\ Keeps(change, list, n) => Keeps(d, rows2, n)
      /\ Cleared(change, list) => Cleared(d, rows2)
  BY <1>2, <1>3, SetKeeps
<1>5. Reads(d, rows2)
  BY <1>1, <1>4 DEF Editable, Reads, n
<1>6. kind = "values" => Untouched(rows2)
  BY <1>1, <1>2 DEF Editable, Untouched
<1>7. Len(rows2) <= MaxSize
  BY <1>1 DEF Editable
<1> QED BY <1>5, <1>6, <1>7, EditStep

(* One entry is replaced. *)
LEMMA ReplacedIs ==
  ASSUME NEW rows \in Seq(Entry), NEW p \in Places(rows), NEW e \in Entry
  PROVE  LET rows2 == [rows EXCEPT ![p + 1] = e] IN
         /\ rows2 \in Seq(Entry) /\ Len(rows2) = Len(rows)
         /\ RowAt(rows2, p) = e
         /\ \A r \in Places(rows) : r # p => RowAt(rows2, r) = RowAt(rows, r)
<1> DEFINE rows2 == [rows EXCEPT ![p + 1] = e]
<1>1. /\ Len(rows) \in Nat /\ DOMAIN rows = 1 .. Len(rows)
      /\ \A r \in Places(rows) : r \in Nat /\ r + 1 \in 1 .. Len(rows)
      /\ p \in Nat /\ p + 1 \in 1 .. Len(rows)
  BY PlacesAre
<1>2. /\ rows2 \in Seq(Entry) /\ Len(rows2) = Len(rows)
      /\ \A i \in 1 .. Len(rows) : rows2[i] = IF i = p + 1 THEN e ELSE rows[i]
  BY <1>1, ExceptSeq
<1> HIDE DEF rows2
<1>3. ASSUME NEW r \in Places(rows), r # p PROVE RowAt(rows2, r) = RowAt(rows, r)
  <2>1. r + 1 # p + 1 /\ r + 1 \in 1 .. Len(rows)
    BY <1>1, <1>3
  <2> QED BY <1>2, <2>1 DEF RowAt
<1>4. RowAt(rows2, p) = e
  BY <1>1, <1>2 DEF RowAt
<1> QED BY <1>2, <1>3, <1>4 DEF rows2

(* SetEntry keeps the invariant. *)
LEMMA SetEntryStep ==
  ASSUME Inv, NEW place \in Places(list), SetEntry(place)
  PROVE  Inv'
<1> DEFINE e == [RowAt(list, place) EXCEPT !.modified = TRUE]
           rows2 == [list EXCEPT ![place + 1] = e]
           d == Modify(change, place)
           set == {place}
<1>1. owner = "alive" /\ list \in Seq(Entry)
  BY DEF SetEntry, Edit, Inv, Bounds
<1>2. RowAt(list, place) \in Entry
  BY <1>1, PlacesAre
<1>3. /\ e \in Entry /\ e.origin = RowAt(list, place).origin /\ e.modified = TRUE
      /\ e.touched = RowAt(list, place).touched
  BY <1>2 DEF Entry
<1>4. Edit(rows2, d)
  BY DEF SetEntry, RowAt
<1> HIDE DEF e
<1>5. /\ rows2 \in Seq(Entry) /\ Len(rows2) = Len(list) /\ RowAt(rows2, place) = e
      /\ \A r \in Places(list) : r # place => RowAt(rows2, r) = RowAt(list, r)
  BY <1>1, <1>3, ReplacedIs
<1>6. IsBuilder(change) =>
        /\ DOMAIN d = DOMAIN change
        /\ d.deletions = change.deletions /\ d.insertions = change.insertions
        /\ d.moves = change.moves /\ d.modifications = change.modifications \union set
  BY ModifyIs
<1>7. set \subseteq Places(list) /\ \A p : p \in set <=> p = place
  OBVIOUS
<1> HIDE DEF rows2, d, set
<1>8. \A p \in Places(list) : Origin(rows2, p) = Origin(list, p)
  BY <1>3, <1>5 DEF Origin
<1>9. \A p \in Places(list) : RowAt(rows2, p).modified <=> p \in set \/ RowAt(list, p).modified
  BY <1>3, <1>5, <1>7
<1>10. \A p \in Places(list) : RowAt(rows2, p).touched = RowAt(list, p).touched
  BY <1>3, <1>5
<1> QED BY <1>4, <1>5, <1>6, <1>7, <1>8, <1>9, <1>10, InPlaceStep

(* TouchObject keeps the invariant. *)
LEMMA TouchStep ==
  ASSUME Inv, NEW place \in Places(list), TouchObject(place)
  PROVE  Inv'
<1> DEFINE e == [RowAt(list, place) EXCEPT !.touched = TRUE]
           rows2 == [list EXCEPT ![place + 1] = e]
           d == change
           set == {}
<1>1. owner = "alive" /\ list \in Seq(Entry) /\ kind # "values"
  BY DEF TouchObject, Edit, Inv, Bounds
<1>2. RowAt(list, place) \in Entry
  BY <1>1, PlacesAre
<1>3. /\ e \in Entry /\ e.origin = RowAt(list, place).origin
      /\ e.modified = RowAt(list, place).modified
  BY <1>2 DEF Entry
<1>4. Edit(rows2, d)
  BY DEF TouchObject, RowAt
<1> HIDE DEF e
<1>5. /\ rows2 \in Seq(Entry) /\ Len(rows2) = Len(list) /\ RowAt(rows2, place) = e
      /\ \A r \in Places(list) : r # place => RowAt(rows2, r) = RowAt(list, r)
  BY <1>1, <1>3, ReplacedIs
<1>6. IsBuilder(change) =>
        /\ DOMAIN d = DOMAIN change
        /\ d.deletions = change.deletions /\ d.insertions = change.insertions
        /\ d.moves = change.moves /\ d.modifications = change.modifications \union set
  OBVIOUS
<1>7. set \subseteq Places(list) /\ \A p : p \notin set
  OBVIOUS
<1> HIDE DEF rows2, d, set
<1>8. \A p \in Places(list) : Origin(rows2, p) = Origin(list, p)
  BY <1>3, <1>5 DEF Origin
<1>9. \A p \in Places(list) : RowAt(rows2, p).modified <=> p \in set \/ RowAt(list, p).modified
  BY <1>3, <1>5, <1>7
<1> QED BY <1>1, <1>4, <1>5, <1>6, <1>7, <1>8, <1>9, InPlaceStep

(* SwapLinks keeps the invariant. *)
LEMMA SwapLinksStep ==
  ASSUME Inv, NEW p \in Places(list), NEW q \in Places(list), SwapLinks(p, q)
  PROVE  Inv'
<1> DEFINE e == [RowAt(list, p) EXCEPT !.modified = TRUE, !.touched = RowAt(list, q).touched]
           f == [RowAt(list, q) EXCEPT !.modified = TRUE, !.touched = RowAt(list, p).touched]
           rows1 == [list EXCEPT ![p + 1] = e]
           rows2 == [rows1 EXCEPT ![q + 1] = f]
           d1 == Modify(change, p)
           d == Modify(d1, q)
           set == {p, q}
<1>1. /\ owner = "alive" /\ list \in Seq(Entry) /\ kind # "values" /\ p # q
      /\ p \in Nat /\ q \in Nat
  <2>1. list \in Seq(Entry) /\ kind = "links" /\ owner = "alive"
    BY DEF SwapLinks, Edit, Inv, Bounds
  <2>2. p \in Nat /\ q \in Nat /\ p < q
    BY <2>1, PlacesAre DEF SwapLinks
  <2> QED BY <2>1, <2>2
<1>2. RowAt(list, p) \in Entry /\ RowAt(list, q) \in Entry
  BY <1>1, PlacesAre
<1>3. /\ e \in Entry /\ e.origin = RowAt(list, p).origin /\ e.modified = TRUE
      /\ f \in Entry /\ f.origin = RowAt(list, q).origin /\ f.modified = TRUE
  BY <1>2 DEF Entry
<1>4. Edit(rows2, d)
  <2> DEFINE both == [list EXCEPT ![p + 1] = e, ![q + 1] = f]
  <2>1. Edit(both, d)
    BY DEF SwapLinks
  <2> HIDE DEF e, f
  <2>2. both = rows2
    BY <1>1, <1>2, <1>3
  <2> QED BY <2>1, <2>2
<1> HIDE DEF e, f
<1>5. /\ rows1 \in Seq(Entry) /\ Len(rows1) = Len(list) /\ RowAt(rows1, p) = e
      /\ \A r \in Places(list) : r # p => RowAt(rows1, r) = RowAt(list, r)
  BY <1>1, <1>3, ReplacedIs
<1> HIDE DEF rows1
<1>6. Places(rows1) = Places(list)
  BY <1>5 DEF Places
<1>7. /\ rows2 \in Seq(Entry) /\ Len(rows2) = Len(list) /\ RowAt(rows2, q) = f
      /\ \A r \in Places(list) : r # q => RowAt(rows2, r) = RowAt(rows1, r)
  <2>1. rows1 \in Seq(Entry) /\ q \in Places(rows1) /\ f \in Entry
    BY <1>3, <1>5, <1>6
  <2>2. /\ rows2 \in Seq(Entry) /\ Len(rows2) = Len(rows1) /\ RowAt(rows2, q) = f
        /\ \A r \in Places(rows1) : r # q => RowAt(rows2, r) = RowAt(rows1, r)
    BY <2>1, ReplacedIs
  <2> QED BY <1>5, <1>6, <2>2
<1>8. ASSUME IsBuilder(change)
      PROVE  /\ DOMAIN d = DOMAIN change
             /\ d.deletions = change.deletions /\ d.insertions = change.insertions
             /\ d.moves = change.moves /\ d.modifications = change.modifications \union set
  <2>1. /\ DOMAIN d1 = DOMAIN change
        /\ d1.deletions = change.deletions /\ d1.insertions = change.insertions
        /\ d1.moves = change.moves /\ d1.modifications = change.modifications \union {p}
    BY <1>8, ModifyIs
  <2> HIDE DEF d1
  <2>2. IsBuilder(d1)
    BY <1>1, <1>8, <2>1 DEF IsBuilder
  <2>3. /\ DOMAIN d = DOMAIN d1
        /\ d.deletions = d1.deletions /\ d.insertions = d1.insertions
        /\ d.moves = d1.moves /\ d.modifications = d1.modifications \union {q}
    BY <2>2, ModifyIs
  <2> HIDE DEF d
  <2> QED BY <2>1, <2>3
<1>9. set \subseteq Places(list) /\ \A r : r \in set <=> r = p \/ r = q
  OBVIOUS
<1> HIDE DEF rows2, d, set
<1>10. \A r \in Places(list) : Origin(rows2, r) = Origin(list, r)
  BY <1>1, <1>3, <1>5, <1>7 DEF Origin
<1>11. \A r \in Places(list) : RowAt(rows2, r).modified <=> r \in set \/ RowAt(list, r).modified
  BY <1>1, <1>3, <1>5, <1>7, <1>9
<1> QED BY <1>1, <1>4, <1>7, <1>8, <1>9, <1>10, <1>11, InPlaceStep

(* ClearList keeps the invariant. *)
LEMMA ClearStep ==
  ASSUME Inv, ClearList
  PROVE  Inv'
<1> DEFINE none == << >>
           d == IF kind = "links" THEN ClearKnown(change, Len(list)) ELSE ClearUnknown
<1>1. Edit(none, d)
  BY DEF ClearList
<1>2. Editable
  BY <1>1, EditStarts DEF Edit
<1>3. none \in Seq(Entry) /\ Len(none) = 0 /\ Untouched(none)
  <2>1. none \in Seq(Entry) /\ Len(none) = 0
    OBVIOUS
  <2>2. \A p : p \notin Places(none)
    BY <2>1 DEF Places, FirstRows
  <2> QED BY <2>1, <2>2 DEF Untouched
<1>4. ASSUME Reads(d, none) PROVE Inv'
  <2>1. /\ none \in Seq(Entry) /\ Edit(none, d) /\ Len(none) <= MaxSize
        /\ kind = "values" => Untouched(none)
    BY <1>1, <1>2, <1>3 DEF Editable
  <2> HIDE DEF none, d
  <2> QED BY <1>4, <2>1, EditStep
<1>5. CASE kind = "links"
  <2>1. Keeps(change, list, Len(seen)) /\ list \in Seq(Entry) /\ Len(seen) \in Nat
    BY <1>2, <1>5 DEF Editable, Reads
  <2>2. Keeps(ClearKnown(change, Len(list)), << >>, Len(seen))
    BY <2>1, ClearKnownKeeps
  <2>3. Reads(d, none)
    BY <1>5, <2>2 DEF Reads
  <2> QED BY <1>4, <2>3
<1>6. CASE kind = "values"
  <2>1. Reads(d, none)
    BY <1>6, ClearUnknownIs DEF Reads
  <2> QED BY <1>4, <2>1
<1> QED BY <1>2, <1>5, <1>6 DEF Editable

(* Nothing is left of what an empty list was. *)
LEMMA EmptyDeletes ==
  ASSUME NEW rows \in Seq(Entry), NEW old, NEW c, Keeps(c, rows, old), Len(rows) = 0
  PROVE  FirstRows(old) \subseteq c.deletions
<1>1. \A p \in Stay(c.insertions, rows) : p \in Nat /\ p < 0
  BY PlacesAre DEF Stay
<1>2. \A n \in Nat : ~ (n < 0)
  OBVIOUS
<1>3. ASSUME NEW v \in FirstRows(old), v \notin c.deletions PROVE FALSE
  <2>1. PICK p \in Stay(c.insertions, rows) : Origin(rows, p) = v
    BY <1>3 DEF Keeps, Tells, Fits, Left
  <2> QED BY <1>1, <1>2, <2>1
<1> QED BY <1>3

(* DeleteOwner keeps the invariant. *)
LEMMA DeleteOwnerStep ==
  ASSUME Inv, DeleteOwner
  PROVE  Inv'
<1>1. /\ owner = "alive" /\ list' = << >>
      /\ owner' = (IF change.moves = << >> THEN "deleted" ELSE "deletedAfterMove")
      /\ UNCHANGED <<kind, seen, toldSize, change, accumulated, prevSize>>
  BY DEF DeleteOwner
<1>2. Bounds /\ Keeps(accumulated, seen, toldSize) /\ IsBuilder(change)
  BY <1>1 DEF Inv, IsAlive, Reads, Keeps, Cleared
<1>3. << >> \in Seq(Entry) /\ Len(<< >>) = 0 /\ Untouched(<< >>)
  <2> DEFINE none == << >>
  <2>1. none \in Seq(Entry) /\ Len(none) = 0
    OBVIOUS
  <2>2. \A p : p \notin Places(none)
    BY <2>1 DEF Places, FirstRows
  <2> QED BY <2>1, <2>2 DEF Untouched
<1>4. Bounds'
  <2>1. Untouched(list)'
    BY <1>1, <1>3 DEF Untouched, Places, RowAt
  <2>2. MaxSize \in Nat
    BY ListsAreBelowNpos
  <2> QED BY <1>1, <1>2, <1>3, <2>1, <2>2 DEF Bounds
<1>5. prevSize = 0 => FirstRows(toldSize) \subseteq accumulated.deletions
  BY <1>2, EmptyDeletes DEF Bounds
<1>6. IsGone'
  <2>1. (prevSize = 0 => FirstRows(toldSize) \subseteq accumulated.deletions)'
    BY <1>1, <1>5
  <2>2. Keeps(accumulated, seen, toldSize)' /\ IsBuilder(change)'
    BY <1>1, <1>2
  <2>3. (owner = "deleted" => change.moves = << >>)'
    BY <1>1
  <2> QED BY <2>1, <2>2, <2>3 DEF IsGone
<1>7. IsAlive'
  BY <1>1 DEF IsAlive
<1> QED BY <1>4, <1>6, <1>7 DEF Inv

(* Deliver keeps the invariant. *)
LEMMA DeliverStep ==
  ASSUME Inv, Deliver
  PROVE  Inv'
<1> DEFINE n == Len(seen)
<1>1. /\ accumulated' = NoChanges /\ toldSize' = n /\ seen' = Unchanged(n)
      /\ UNCHANGED <<kind, owner, list, change, prevSize>>
  BY DEF Deliver
<1>2. Bounds /\ n \in Nat /\ n < Npos /\ n <= MaxSize /\ MaxSize \in Nat
  BY BelowNpos DEF Inv, Bounds
<1> HIDE DEF n
<1>3. Unchanged(n) \in Seq(Entry) /\ Len(Unchanged(n)) = n /\ Keeps(NoChanges, Unchanged(n), n)
  BY <1>2, UnchangedKeeps
<1>4. Len(seen') = n /\ prevSize = n
  BY <1>1, <1>2, <1>3 DEF Bounds, n
<1>5. Bounds'
  <2>1. (kind = "values" => Untouched(list))'
    BY <1>1, <1>2 DEF Bounds, Untouched
  <2> QED BY <1>1, <1>2, <1>3, <1>4, <2>1 DEF Bounds
<1>6. Keeps(accumulated, seen, toldSize)'
  BY <1>1, <1>3
<1>7. IsAlive'
  <2>1. Reads(change, list) => Reads(change, list)'
    BY <1>1, <1>4 DEF Reads, n
  <2> QED BY <1>1, <1>6, <2>1 DEF Inv, IsAlive
<1>8. IsGone'
  <2>1. ASSUME prevSize = 0 PROVE FirstRows(toldSize)' \subseteq accumulated'.deletions
    <3>1. toldSize' = 0
      BY <1>1, <1>4, <2>1
    <3> QED BY <3>1 DEF FirstRows
  <2> QED BY <1>1, <1>6, <2>1 DEF Inv, IsGone
<1> QED BY <1>5, <1>7, <1>8 DEF Inv

(* The run after the list is gone tells that all of it was deleted: with no
   move left over, no deletion is taken back. *)
LEMMA RunGoneDeletes ==
  ASSUME Inv, owner = "deleted"
  PROVE  FirstRows(toldSize) \subseteq Merge(accumulated, Completed).deletions
<1>1. Completed = Gone /\ Bounds
  BY DEF Completed, Inv
<1>2. CASE prevSize = 0
  <2>1. Completed = NoChanges
    BY <1>1, <1>2 DEF Gone
  <2>2. Merge(accumulated, Completed) = accumulated
    BY <2>1 DEF Merge, IsEmpty, NoChanges
  <2> QED BY <1>2, <2>2 DEF Inv, IsGone
<1>3. CASE prevSize # 0
  <2> DEFINE n == Len(seen)
             b == accumulated
             all == FirstRows(n)
             c == [change EXCEPT !.deletions = all]
  <2>1. Keeps(b, seen, toldSize) /\ IsBuilder(change) /\ change.moves = << >>
    BY <1>3 DEF Inv, IsGone
  <2>2. /\ seen \in Seq(Entry) /\ n \in Nat /\ n # 0 /\ toldSize \in Nat /\ prevSize = n
        /\ n < Npos /\ Places(seen) = all
    BY <1>1, <1>3, BelowNpos DEF Bounds, Places
  <2>3. Completed = c
    BY <1>1, <1>3, <2>2 DEF Gone
  <2>4. all \in SUBSET Nat /\ 0 \in all
    BY <2>2, PlacesAreNumbers, FirstRowsAre
  <2> HIDE DEF n, all, b
  <2>5. /\ c.deletions = all /\ c.moves = << >> /\ c.insertions = change.insertions
        /\ c.modifications = change.modifications /\ DOMAIN c = DOMAIN NoChanges
    BY <2>1 DEF IsBuilder, NoChanges
  <2> HIDE DEF c
  <2>6. IsBuilder(c) /\ ~ IsEmpty(c)
    BY <2>1, <2>4, <2>5 DEF IsBuilder, IsEmpty
  <2>7. CASE IsEmpty(b)
    <3>1. n = toldSize
      BY <2>1, <2>2, <2>7, EmptyStays DEF n
    <3>2. Merge(b, c) = c
      BY <2>6, <2>7 DEF Merge
    <3> QED BY <2>3, <2>5, <3>1, <3>2 DEF all, b
  <2>8. CASE ~ IsEmpty(b)
    <3>1. Merge(b, c) = MergeMoved(b, c)
      BY <2>6, <2>8 DEF Merge
    <3>2. IsBuilder(b) /\ Tells(b, seen, toldSize)
      BY <2>1 DEF Keeps
    <3>3. \A o \in ToSet(b.moves) : o.to \in all
      BY <2>2, <3>2, MovesApart
    <3>4. Fits(b.deletions, b.insertions, seen, toldSize)
      BY <3>2 DEF Tells
    <3>5. b.insertions \subseteq all
      BY <2>2, <3>4 DEF Fits
    <3>6. MergeMoved(b, c).deletions = MergedDeletions(b, c)
      BY <2>2, <2>5, <2>6, <3>2, <3>3, <3>5, MergeGone DEF all
    <3> DEFINE D == b.deletions
               I == b.insertions
               values == c.deletions
    <3>7. Fits(D, I, seen, toldSize) /\ values = Places(seen)
      BY <2>2, <2>5, <3>4
    <3> HIDE DEF D, I, values
    <3>8. \A v : v \in AddShiftedBy(D, I, values)
                   <=> v \in D \/ \E q \in Stay(I, seen) : q \in values /\ v = Origin(seen, q)
      BY <2>2, <3>7, DeletedBefore
    <3>9. ASSUME NEW v \in FirstRows(toldSize) PROVE v \in AddShiftedBy(D, I, values)
      <4>1. CASE v \in D
        BY <3>8, <4>1
      <4>2. CASE v \notin D
        <5>1. PICK q \in Stay(I, seen) : Origin(seen, q) = v
          BY <3>7, <4>2 DEF Fits, Left
        <5> QED BY <3>7, <3>8, <5>1 DEF Stay
      <4> QED BY <4>1, <4>2
    <3> QED BY <2>3, <3>1, <3>6, <3>9 DEF MergedDeletions, D, I, values, b
  <2> QED BY <2>7, <2>8
<1> QED BY <1>2, <1>3

(* Run keeps the invariant. *)
LEMMA RunStep ==
  ASSUME Inv, Run
  PROVE  Inv'
<1> DEFINE n == Len(list)
<1>1. /\ accumulated' = Merge(accumulated, Completed) /\ change' = NoChanges
      /\ prevSize' = n /\ seen' = Recounted /\ list' = Unchanged(n)
      /\ UNCHANGED <<kind, owner, toldSize>>
  BY DEF Run, Recounted
<1>2. /\ Bounds /\ n \in Nat /\ n <= MaxSize /\ MaxSize \in Nat /\ n < Npos
      /\ toldSize \in Nat /\ toldSize < Npos /\ Len(seen) \in Nat /\ Len(seen) < Npos
      /\ list \in Seq(Entry) /\ seen \in Seq(Entry)
  BY BelowNpos, ListsAreBelowNpos, NposIsNatural DEF Inv, Bounds
<1>3. /\ Unchanged(n) \in Seq(Entry) /\ Len(Unchanged(n)) = n
      /\ \A p \in Places(Unchanged(n)) : ~ RowAt(Unchanged(n), p).touched
      /\ Keeps(NoChanges, Unchanged(n), n)
  BY <1>2, UnchangedKeeps
<1>4. CASE owner = "alive"
  <2>1. Keeps(accumulated, seen, toldSize) /\ Reads(change, list)
    BY <1>4 DEF Inv, IsAlive
  <2>2. OneOriginEach(list, Len(seen))
    BY <2>1 DEF Reads, Keeps, Tells, Cleared, OneOriginEach
  <2>3. Recounted \in Seq(Entry) /\ Len(Recounted) = n /\ Combined(Recounted, seen, Settled(list))
    BY <1>2, <2>2, RunCombines
  <2>4. Keeps(Completed, Settled(list), Len(seen))
    <3>1. /\ prevSize = Len(seen) /\ kind \in {"links", "values"}
          /\ kind = "values" => \A p \in Places(list) : ~ RowAt(list, p).touched
      BY <1>2 DEF Bounds, Untouched
    <3> QED BY <1>2, <1>4, <2>1, <3>1, CompletedKeeps DEF Reads
  <2>5. Settled(list) \in Seq(Entry)
    BY <1>2, SettledIs
  <2> DEFINE rows2 == Settled(list)
             rows3 == Recounted
             c == Completed
  <2> HIDE DEF rows2, rows3, c, n
  <2>6. Keeps(Merge(accumulated, c), rows3, toldSize)
    <3>1. /\ rows2 \in Seq(Entry) /\ rows3 \in Seq(Entry) /\ Combined(rows3, seen, rows2)
          /\ Keeps(c, rows2, Len(seen))
      BY <2>3, <2>4, <2>5 DEF rows2, rows3, c
    <3> QED BY <1>2, <2>1, <3>1, MergeKeeps
  <2>7. Keeps(accumulated, seen, toldSize)' /\ seen' = rows3 /\ rows3 \in Seq(Entry) /\ Len(rows3) = n
    BY <1>1, <2>3, <2>6 DEF rows3, c
  <2>8. Reads(change, list)'
    BY <1>1, <1>3, <2>7 DEF Reads
  <2>9. Bounds'
    <3>1. Untouched(list)'
      BY <1>1, <1>3 DEF Untouched
    <3> QED BY <1>1, <1>2, <1>3, <1>4, <2>7, <3>1 DEF Bounds
  <2> QED BY <1>1, <1>4, <2>7, <2>8, <2>9 DEF Inv, IsAlive, IsGone
<1>5. CASE owner # "alive"
  <2>1. list = << >> /\ n = 0
    BY <1>2, <1>5 DEF Bounds
  <2>2. Unchanged(0) = << >> /\ Recounted = << >>
    BY <2>1 DEF Unchanged, Recounted
  <2>3. list' = << >> /\ seen' = << >> /\ prevSize' = 0
    BY <1>1, <2>1, <2>2
  <2>4. Bounds'
    <3> DEFINE none == << >>
    <3>1. none \in Seq(Entry) /\ Len(none) = 0
      OBVIOUS
    <3>2. \A p : p \notin Places(none)
      BY <3>1 DEF Places, FirstRows
    <3>3. list' = none /\ seen' = none /\ Untouched(none)
      BY <2>3, <3>2 DEF Untouched
    <3> HIDE DEF none
    <3>4. Untouched(list)'
      BY <3>3 DEF Untouched
    <3>5. list' \in Seq(Entry) /\ Len(list') = 0 /\ seen' \in Seq(Entry) /\ Len(seen') = 0
      BY <3>1, <3>3
    <3> QED BY <1>1, <1>2, <2>3, <3>4, <3>5 DEF Bounds
  <2>5. IsGone'
    <3>1. owner = "deleted" => FirstRows(toldSize) \subseteq Merge(accumulated, Completed).deletions
      BY RunGoneDeletes
    <3> QED BY <1>1, <2>3, <3>1 DEF IsGone
  <2> QED BY <1>1, <1>5, <2>4, <2>5 DEF Inv, IsAlive
<1> QED BY <1>4, <1>5

(* Every step keeps the invariant. *)
LEMMA InvStep == Inv /\ [Next]_vars => Inv'
<1> SUFFICES ASSUME Inv, [Next]_vars PROVE Inv'
  OBVIOUS
<1>1. ASSUME NEW place \in 0 .. Len(list), InsertEntry(place) PROVE Inv'
  BY <1>1, InsertStep
<1>2. ASSUME NEW place \in Places(list), EraseEntry(place) PROVE Inv'
  BY <1>2, EraseStep
<1>3. ASSUME NEW place \in Places(list), SetEntry(place) PROVE Inv'
  BY <1>3, SetEntryStep
<1>4. ASSUME NEW place \in Places(list), TouchObject(place) PROVE Inv'
  BY <1>4, TouchStep
<1>5. ASSUME NEW p \in Places(list), NEW q \in Places(list), MoveEntry(p, q) PROVE Inv'
  BY <1>5, MoveStep
<1>6. ASSUME NEW p \in Places(list), NEW q \in Places(list), SwapLinks(p, q) PROVE Inv'
  BY <1>6, SwapLinksStep
<1>7. ASSUME NEW p \in Places(list), NEW q \in Places(list), SwapValues(p, q) PROVE Inv'
  BY <1>7, SwapValuesStep
<1>8. CASE ClearList
  BY <1>8, ClearStep
<1>9. CASE DeleteOwner
  BY <1>9, DeleteOwnerStep
<1>10. CASE Run
  BY <1>10, RunStep
<1>11. CASE Deliver
  BY <1>11, DeliverStep
<1>12. CASE UNCHANGED vars
  <2>1. /\ list' = list /\ kind' = kind /\ owner' = owner /\ seen' = seen /\ toldSize' = toldSize
        /\ change' = change /\ accumulated' = accumulated /\ prevSize' = prevSize
    BY <1>12 DEF vars
  <2>2. Bounds'
    BY <2>1 DEF Inv, Bounds, Untouched, Places, RowAt
  <2>3. Reads(change, list) => Reads(change, list)'
    BY <2>1 DEF Reads
  <2>4. Keeps(accumulated, seen, toldSize) => Keeps(accumulated, seen, toldSize)'
    BY <2>1
  <2>5. IsAlive' /\ IsGone'
    BY <2>1, <2>3, <2>4 DEF Inv, IsAlive, IsGone
  <2> QED BY <2>2, <2>5 DEF Inv
<1> QED
  BY <1>1, <1>2, <1>3, <1>4, <1>5, <1>6, <1>7, <1>8, <1>9, <1>10, <1>11, <1>12 DEF Next

(* Whatever is done to the list, and whenever the worker runs or the callback
   is given its changes, the invariant holds. *)
THEOREM Invariant == Spec => []Inv
BY InvStart, InvStep, PTL DEF Spec

(* Whoever deletes and inserts what a callback is about to be given has the
   list that the worker saw last, and the moves among it are those that
   happened, over any number of versions merged in between. *)
THEOREM Explained == Spec => []AccumulatedExplains
<1>1. Inv => AccumulatedExplains
  <2> SUFFICES ASSUME Inv PROVE AccumulatedExplains
    OBVIOUS
  <2>1. CASE owner = "alive"
    <3>1. /\ Keeps(accumulated, seen, toldSize) /\ seen \in Seq(Entry)
          /\ toldSize \in Nat /\ toldSize < Npos
      BY <2>1, BelowNpos DEF Inv, IsAlive, Bounds
    <3>2. Explains(accumulated, seen, toldSize)
      BY <3>1, FitsExplains DEF Keeps, Tells
    <3>3. MovesAreMoves(accumulated, seen)
      BY <3>1, TellsMoves DEF Keeps
    <3> QED BY <2>1, <3>2, <3>3 DEF AccumulatedExplains
  <2>2. CASE owner # "alive"
    BY <2>2 DEF Inv, IsGone, AccumulatedExplains
  <2> QED BY <2>1, <2>2
<1> QED BY <1>1, Invariant, PTL

(* What Finalize makes of changes that tell the truth: the rows that stay and
   were set, by where they are and by where they were. *)
LEMMA FinalizeTells ==
  ASSUME NEW rows \in Seq(Entry), NEW old \in Nat, old < Npos, NEW c, Keeps(c, rows, old)
  PROVE  LET told == Finalize(c)
             modified == {p \in Places(rows) \ told.insertions : RowAt(rows, p).modified}
         IN /\ told.modifications_new = modified
            /\ told.modifications = {RowAt(rows, p).origin : p \in modified}
<1> DEFINE D == c.deletions
           I == c.insertions
           mods == c.modifications
           kept == mods \ I
           modified == {p \in Stay(I, rows) : RowAt(rows, p).modified}
<1>1. Fits(D, I, rows, old) /\ ModsTell(mods, rows)
  BY DEF Keeps, Tells
<1>2. /\ Finalize(c).insertions = I /\ Finalize(c).modifications_new = kept
      /\ Finalize(c).modifications = ShiftForInsertAtAll(EraseAtAll(mods, I), D)
  BY DEF Finalize
<1> HIDE DEF D, I, mods
<1>3. \A p \in Stay(I, rows) : p \in mods <=> RowAt(rows, p).modified
  <2>1. \A p \in Stay(I, rows) : p \in Places(rows) /\ Origin(rows, p) \in FirstRows(old)
    BY <1>1 DEF Fits, Stay, Left
  <2> QED BY <1>1, <2>1, OriginKnown DEF ModsTell
<1>4. kept = modified
  BY <1>1, <1>3 DEF ModsTell, Stay
<1>5. ShiftForInsertAtAll(EraseAtAll(mods, I), D) = {Shift(D, Unshift(I, p)) : p \in kept}
  BY DEF ShiftForInsertAtAll, EraseAtAll
<1>6. \A p \in modified : Shift(D, Unshift(I, p)) = RowAt(rows, p).origin
  BY <1>1, OriginFound DEF Origin
<1>7. ShiftForInsertAtAll(EraseAtAll(mods, I), D) = {RowAt(rows, p).origin : p \in modified}
  BY <1>4, <1>5, <1>6
<1> QED BY <1>2, <1>4, <1>7 DEF Stay

(* Of the entries that stay, a callback is given as modified exactly those
   that were set or whose object was modified, by both of their places. *)
THEOREM Reported == Spec => []ModifiedAreReported
<1>1. Inv => ModifiedAreReported
  <2> SUFFICES ASSUME Inv, owner = "alive" PROVE ModifiedAreReported
    BY DEF ModifiedAreReported
  <2>1. /\ Keeps(accumulated, seen, toldSize) /\ seen \in Seq(Entry)
        /\ toldSize \in Nat /\ toldSize < Npos
    BY BelowNpos DEF Inv, IsAlive, Bounds
  <2> QED BY <2>1, FinalizeTells DEF ModifiedAreReported
<1> QED BY <1>1, Invariant, PTL
=============================================================================
