---------------------------- MODULE RangeIndexSets ----------------------------
(***************************************************************************)
(* IndexSet (index_set.cpp) as the code keeps it: a ChunkedRangeVector     *)
(* that is searched, changed in place, or written anew by a builder.  A    *)
(* set given as an argument is read in ascending order, through its        *)
(* ranges: it is given as a set of numbers.  Only where the code copies it *)
(* does it matter how its ranges are spread over chunks (see InsertAll).   *)
(***************************************************************************)
EXTENDS ChunkedRanges

CONSTANTS MaxIndex,       \* bound: the greatest number of a set that is asked again
          MaxCount,       \* bound: the greatest count of an argument
          MaxValues,      \* bound: the greatest size of a set given as argument
          NoCall

ASSUME BoundsAreNatural == {MaxIndex, MaxCount, MaxValues} \subseteq Nat

VARIABLES m_data,         \* the set's chunks
          call            \* what its owner has asked of it, NoCall between two calls

vars == <<m_data, call>>

(***************************************************************************)
(* A set given as an argument                                              *)
(***************************************************************************)
Ascending(S) ==
  IF S = {} THEN << >> ELSE SelectSeq([i \in 1 .. Max(S) + 1 |-> i - 1], LAMBDA v : v \in S)
RangesOf(S) ==
  LET firsts == {v \in S : v - 1 \notin S}
      past(first) == Min({v \in first .. Max(S) + 1 : v \notin S})
  IN [i \in DOMAIN Ascending(firsts) |-> Span(Ascending(firsts)[i], past(Ascending(firsts)[i]))]
Indexes(vector) == Ascending(Members(vector))

\* The ways that ranges may be spread over chunks.
RECURSIVE Chunkings(_)
Chunkings(ranges) ==
  IF ranges = << >> THEN {<< >>}
  ELSE UNION {{<<Chunk(SubSeq(ranges, 1, n))>> \o rest :
                 rest \in Chunkings(SubSeq(ranges, n + 1, Len(ranges)))} :
              n \in 1 .. Min({MaxSize, Len(ranges)})}

(***************************************************************************)
(* Searching                                                               *)
(***************************************************************************)
\* The range that holds the index, or the next one, not before a given place.
FindFrom(vector, index, begin) ==
  LET c == SelectInSubSeq(vector, begin.chunk, Len(vector), LAMBDA chunk : chunk.end > index)
      from == IF c = begin.chunk THEN begin.offset ELSE 1
      data == vector[c].data
  IN IF c = 0 THEN End(vector)
     ELSE IF index < vector[c].begin THEN Place(c, 1)
     ELSE Place(c, SelectInSubSeq(data, from, Len(data), LAMBDA range : range.second > index))

Find(vector, index) == FindFrom(vector, index, Begin)

ContainsIndex(vector, index) ==
  LET it == Find(vector, index) IN it # End(vector) /\ At(vector, it).first <= index

\* The ranges of its chunk from a place on.
RestOfChunk(vector, it) ==
  SubSeq(vector[it.chunk].data, it.offset, Len(vector[it.chunk].data))

\* What of these ranges lies before the end.
TotalBefore(ranges, end) ==
  Total([i \in DOMAIN ranges |-> Span(Min({ranges[i].first, end}), Min({ranges[i].second, end}))])

\* Mutant of CountFrom: the chunk the interval ends in is not counted.
CountWholeChunks(vector, c, end) ==
  MapThenSumSet(LAMBDA k : vector[k].count, {k \in c .. Len(vector) : vector[k].end <= end})

\* Whole chunks count as they say; the next one range by range.
CountFrom(vector, c, end) ==
  LET whole == {k \in c .. Len(vector) : vector[k].end <= end}
      next == c + Cardinality(whole)
  IN MapThenSumSet(LAMBDA k : vector[k].count, whole)
     + (IF next <= Len(vector) THEN TotalBefore(vector[next].data, end) ELSE 0)

\* How many members lie in start .. end - 1, as the code counts them.
CountIn(vector, start, end) ==
  LET it == Find(vector, start)
      range == At(vector, it)
      first == Max({range.first, start})
      inChunk == TotalBefore(RestOfChunk(vector, it), end) - (first - range.first)
      next == it.chunk + 1
      endsHere == \/ vector[it.chunk].end >= end
                  \/ next > Len(vector)
                  \/ Head(vector[next].data).second >= end
  IN IF it = End(vector) \/ range.first >= end THEN 0
     ELSE IF range.second >= end THEN end - first
     ELSE IF start <= range.first /\ it.offset = 1 THEN CountFrom(vector, it.chunk, end)
     ELSE IF endsHere THEN inChunk
     ELSE inChunk + CountFrom(vector, next, end)

ShiftedIndex(vector, index) ==
  FoldLeft(LAMBDA n, range : IF range.first > n THEN n ELSE n + Size(range),
           index, AllRanges(vector))

UnshiftedIndex(vector, index) == index - CountIn(vector, 0, index)

(***************************************************************************)
(* Adding                                                                  *)
(***************************************************************************)
\* Mutant of DoAdd: two ranges that now touch are not joined.
DoAddWithoutJoining(vector, it, index) ==
  LET prev == Prev(vector, it) IN
  CASE it # End(vector) /\ index \in Numbers(At(vector, it)) -> [vector |-> vector, it |-> it]
    [] it # Begin /\ At(vector, prev).second = index ->
         [vector |-> Adjust(vector, prev, 0, 1), it |-> prev]
    [] it # End(vector) /\ At(vector, it).first = index + 1 ->
         [vector |-> Adjust(vector, it, -1, 0), it |-> it]
    [] OTHER -> Insert(vector, it, Span(index, index + 1))

\* The index comes in at its place, and joins what it touches.
DoAdd(vector, it, index) ==
  LET more == it # Begin
      valid == it # End(vector)
      prev == Prev(vector, it)
      grown == Adjust(vector, prev, 0, 1)
      joined == Erase(Adjust(grown, prev, 0, Size(At(vector, it))), it)
  IN IF valid /\ index \in Numbers(At(vector, it)) THEN [vector |-> vector, it |-> it]
     ELSE IF more /\ At(vector, prev).second = index
     THEN IF valid /\ At(vector, it).first = index + 1
          THEN [vector |-> joined.vector, it |-> Prev(joined.vector, joined.it)]
          ELSE [vector |-> grown, it |-> prev]
     ELSE IF valid /\ At(vector, it).first = index + 1
     THEN [vector |-> Adjust(vector, it, -1, 0), it |-> it]
     ELSE Insert(vector, it, Span(index, index + 1))

Added(vector, index) == DoAdd(vector, Find(vector, index), index).vector

AddedAll(vector, values) ==
  LET add(done, index) == DoAdd(done.vector, FindFrom(done.vector, index, done.it), index)
  IN FoldLeft(add, [vector |-> vector, it |-> Begin], Ascending(values)).vector

\* Past the chunks that lie before the index, and then past the ranges that do.
RECURSIVE PassChunks(_, _, _), PassRanges(_, _, _)
PassChunks(vector, c, index) ==
  IF c <= Len(vector) /\ vector[c].end <= index
  THEN PassChunks(vector, c + 1, index + vector[c].count)
  ELSE PassRanges(vector, Place(c, 1), index)
PassRanges(vector, it, index) ==
  IF it # End(vector) /\ At(vector, it).first <= index
  THEN PassRanges(vector, Succ(vector, it), index + Size(At(vector, it)))
  ELSE [it |-> it, index |-> index]

\* The answer is where the index was added.
AddedShifted(vector, index) ==
  LET passed == PassChunks(vector, 1, index) IN
  [vector |-> DoAdd(vector, passed.it, passed.index).vector, answer |-> passed.index]

(* The ranges of the new vector.  A value counts places after the rows of
   `by` came in: those of `by` are passed over, the others are counted
   without them and past the old ranges, which go in as single numbers
   until the last value is placed and as ranges after that. *)
RECURSIVE PlacedAmong(_, _, _, _, _, _)
PlacedAmong(values, by, old, skipUntil, oldShift, newShift) ==
  LET index == Head(values)
      place == index - newShift + oldShift
  IN IF values = << >> THEN old
     ELSE IF by # << >> /\ Head(by).first <= index
     THEN PlacedAmong(values, Tail(by), old, Head(by).second, oldShift, newShift + Size(Head(by)))
     ELSE IF index < skipUntil
     THEN PlacedAmong(Tail(values), by, old, skipUntil, oldShift, newShift)
     ELSE IF old # << >> /\ Head(old).first <= place
     THEN Singles(Ascending(Numbers(Head(old))))
          \o PlacedAmong(values, by, Tail(old), skipUntil, oldShift + Size(Head(old)), newShift)
     ELSE <<Span(place, place + 1)>>
          \o PlacedAmong(Tail(values), by, old, skipUntil, oldShift, newShift)

AddedShiftedBy(vector, by, values) ==
  IF values = {} THEN vector
  ELSE Rebuilt(vector, PlacedAmong(Ascending(values), RangesOf(by), AllRanges(vector), 0, 0, 0))

SetLen(len) == IF len = 0 THEN << >> ELSE PushBack(<< >>, Span(0, len))

(***************************************************************************)
(* Making room                                                             *)
(***************************************************************************)
\* The range that holds the index grows; otherwise the new rows are added one by one.
InsertedAt(vector, index, count) ==
  LET pos == Find(vector, index)
      grown == Adjust(vector, pos, 0, count)
      add(done, n) == LET d == DoAdd(done.vector, done.it, n) IN
                      [vector |-> d.vector, it |-> Succ(d.vector, d.it)]
  IN IF pos # End(vector) /\ At(vector, pos).first <= index
     THEN ShiftFrom(grown, Succ(grown, pos), count)
     ELSE FoldLeft(add, [vector |-> ShiftFrom(vector, pos, count), it |-> pos],
                   [i \in 1 .. count |-> index + i - 1]).vector

\* Two ascending sequences are merged; an old number makes room for the new ones before it.
RECURSIVE MergedIn(_, _, _)
MergedIn(old, new, shift) ==
  IF old # << >> /\ (new = << >> \/ Head(old) + shift < Head(new))
  THEN <<Head(old) + shift>> \o MergedIn(Tail(old), new, shift)
  ELSE IF new # << >> THEN <<Head(new)>> \o MergedIn(old, Tail(new), shift + 1)
  ELSE << >>

\* An empty set takes over the argument, chunk by chunk.
InsertedAll(vector, positions) ==
  IF positions = << >> THEN vector
  ELSE IF vector = << >> THEN positions
  ELSE Rebuilt(vector, Singles(MergedIn(Indexes(vector), Indexes(positions), 0)))

\* A range the index lies inside is split there.
ShiftedForInsertAt(vector, index, count) ==
  LET it == Find(vector, index)
      shifted == ShiftFrom(vector, it, count)
      range == At(shifted, it)
      cut == SetRange(shifted, it, range.first - count, index)
  IN IF it = End(vector) THEN vector
     ELSE IF range.first < index + count
     THEN Insert(cut, Succ(cut, it), Span(index + count, range.second)).vector
     ELSE shifted

RECURSIVE MovedAside(_, _, _)
MovedAside(old, new, shift) ==
  IF old # << >> /\ (new = << >> \/ Head(old) + shift < Head(new))
  THEN <<Head(old) + shift>> \o MovedAside(Tail(old), new, shift)
  ELSE IF old # << >> THEN MovedAside(old, Tail(new), shift + 1)
  ELSE << >>

ShiftedForInsertAll(vector, values) ==
  IF vector = << >> \/ values = {} THEN vector
  ELSE IF Min(values) >= Last(vector).end THEN vector
  ELSE Rebuilt(vector, Singles(MovedAside(Indexes(vector), Ascending(values), 0)))

(***************************************************************************)
(* Taking away                                                             *)
(***************************************************************************)
\* Two ranges between which the only number goes are joined.
DoErase(vector, it, index) ==
  LET range == At(vector, it)
      prev == Prev(vector, it)
      single == Erase(vector, it)
      shrunk == Adjust(vector, it, 0, -1)
      joined == Erase(Adjust(vector, prev, 0, Size(range)), it)
  IN IF range.first <= index
     THEN IF Size(range) = 1 THEN ShiftFrom(single.vector, single.it, -1)
          ELSE ShiftFrom(shrunk, Succ(shrunk, it), -1)
     ELSE IF it # Begin /\ At(vector, prev).second + 1 = range.first
     THEN ShiftFrom(joined.vector, joined.it, -1)
     ELSE ShiftFrom(vector, it, -1)

ErasedAt(vector, index) ==
  LET it == Find(vector, index) IN
  IF it = End(vector) THEN vector ELSE DoErase(vector, it, index)

\* The answer is the index without the members before it, or -1 (npos) if it was one.
ErasedOrUnshifted(vector, index) ==
  LET it == Find(vector, index)
      chunks == MapThenSumSet(LAMBDA k : vector[k].count, 1 .. it.chunk - 1)
      ranges == IF it = End(vector) THEN 0
                ELSE Total(SubSeq(vector[it.chunk].data, 1, it.offset - 1))
      isMember == it # End(vector) /\ At(vector, it).first <= index
  IN [vector |-> ErasedAt(vector, index),
      answer |-> IF isMember THEN -1 ELSE index - chunks - ranges]

RECURSIVE ClosedUp(_, _, _)
ClosedUp(old, gone, shift) ==
  IF old = << >> THEN << >>
  ELSE IF gone = << >> \/ Head(old) < Head(gone)
  THEN <<Head(old) - shift>> \o ClosedUp(Tail(old), gone, shift)
  ELSE ClosedUp(IF Head(old) = Head(gone) THEN Tail(old) ELSE old, Tail(gone), shift + 1)

ErasedAll(vector, positions) ==
  IF vector = << >> \/ positions = {} THEN vector
  ELSE Rebuilt(vector, Singles(ClosedUp(Indexes(vector), Ascending(positions), 0)))

\* Each range that begin .. end - 1 meets is cut on one side, split, or goes.
RECURSIVE DoRemove(_, _, _, _)
DoRemove(vector, from, begin, end) ==
  LET it == FindFrom(vector, begin, from)
      range == At(vector, it)
      first == Max({range.first, begin})
      cut == SetRange(vector, it, range.first, first)
      split == Insert(cut, Succ(cut, it), Span(end, range.second))
      erased == Erase(vector, it)
  IN IF it = End(vector) \/ range.first >= end THEN [vector |-> vector, it |-> it]
     ELSE IF range.first < first /\ range.second > end
     THEN DoRemove(split.vector, Prev(split.vector, split.it), first, end)
     ELSE IF first = range.first /\ end >= range.second
     THEN DoRemove(erased.vector, erased.it, first, end)
     ELSE IF first = range.first
     THEN DoRemove(SetRange(vector, it, end, range.second), it, first, end)
     ELSE DoRemove(cut, it, first, end)

Removed(vector, index, count) ==
  DoRemove(vector, Find(vector, index), index, index + count).vector

\* A removal that ends at the end of the set ends the work.
RemovedAll(vector, values) ==
  LET remove(done, range) == IF done.over THEN done
        ELSE LET d == DoRemove(done.vector, done.it, range.first, range.second) IN
             [vector |-> d.vector, it |-> d.it, over |-> d.it = End(d.vector)]
  IN FoldLeft(remove, [vector |-> vector, it |-> Begin, over |-> FALSE], RangesOf(values)).vector

(***************************************************************************)
(* A set and its owner                                                     *)
(***************************************************************************)
Indices == 0 .. MaxIndex
Sets == UNION {kSubset(k, Indices) : k \in 0 .. MaxValues}

Calls ==
  [op : {"add", "add_shifted", "set", "erase_at", "erase_or_unshift"}, index : Indices]
  \union [op : {"insert_at", "shift_for_insert_at", "remove"}, index : Indices,
          count : 1 .. MaxCount]
  \union [op : {"add_all", "insert_at_all", "shift_for_insert_at_all", "erase_at_all",
                "remove_all"}, values : Sets]
  \union [op : {"add_shifted_by"}, by : Sets, values : Sets]

\* A chunk that does not hold as many numbers as it says; only a builder leaves one.
IsMiscounted(chunk) == chunk.count # Total(chunk.data)
Miscounted == \E c \in DOMAIN m_data : IsMiscounted(m_data[c])

Init == m_data = << >> /\ call = NoCall

(* The owner asks for something.  The model stops at a miscounted set, whose
   later answers are wrong, and at one that has outgrown MaxIndex. *)
Invoke == /\ call = NoCall
          /\ ~Miscounted
          /\ Members(m_data) \subseteq Indices
          /\ call' \in Calls
          /\ UNCHANGED m_data

Returns(op, vector) == call # NoCall /\ call.op = op /\ m_data' = vector /\ call' = NoCall

Add == Returns("add", Added(m_data, call.index))
AddAll == Returns("add_all", AddedAll(m_data, call.values))
AddShiftedOne == Returns("add_shifted", AddedShifted(m_data, call.index).vector)
AddShiftedByAll == Returns("add_shifted_by", AddedShiftedBy(m_data, call.by, call.values))
Set == Returns("set", SetLen(call.index))
InsertOne == Returns("insert_at", InsertedAt(m_data, call.index, call.count))
InsertAll == /\ call # NoCall /\ call.op = "insert_at_all"
             /\ \E positions \in Chunkings(RangesOf(call.values)) :
                  Returns("insert_at_all", InsertedAll(m_data, positions))
ShiftForInsert ==
  Returns("shift_for_insert_at", ShiftedForInsertAt(m_data, call.index, call.count))
ShiftForInsertAll == Returns("shift_for_insert_at_all", ShiftedForInsertAll(m_data, call.values))
EraseOne == Returns("erase_at", ErasedAt(m_data, call.index))
EraseOrUnshift == Returns("erase_or_unshift", ErasedOrUnshifted(m_data, call.index).vector)
EraseAll == Returns("erase_at_all", ErasedAll(m_data, call.values))
RemoveRange == Returns("remove", Removed(m_data, call.index, call.count))
RemoveAll == Returns("remove_all", RemovedAll(m_data, call.values))

Next == \/ Invoke
        \/ Add \/ AddAll \/ AddShiftedOne \/ AddShiftedByAll \/ Set
        \/ InsertOne \/ InsertAll \/ ShiftForInsert \/ ShiftForInsertAll
        \/ EraseOne \/ EraseOrUnshift \/ EraseAll \/ RemoveRange \/ RemoveAll

Spec == Init /\ [][Next]_vars

(***************************************************************************)
(* Properties                                                              *)
(***************************************************************************)
Promise == INSTANCE RowSet WITH members <- Members(m_data)

(* A set kept in chunks behaves as the set of its numbers: every operation,
   in place or by a builder, wherever its chunks begin and however they were
   split, does to the numbers what IndexSets says of it. *)
ImplementsRowSet == Promise!Spec

(* The vector is one that verify() accepts (index_set.cpp:172-193): ranges
   hold something, ascend and do not touch, chunks are neither empty nor too
   long and know where they begin and end, and how much they hold, unless
   the builder has begun a further chunk with a range of several numbers
   (index_set.cpp:244); then they claim too little. *)
WellFormed ==
  LET ranges == AllRanges(m_data) IN
  /\ \A i \in DOMAIN ranges : ranges[i].first < ranges[i].second
  /\ \A i \in 2 .. Len(ranges) : ranges[i - 1].second < ranges[i].first
  /\ \A c \in DOMAIN m_data :
       /\ Len(m_data[c].data) \in 1 .. MaxSize
       /\ m_data[c].begin = Head(m_data[c].data).first
       /\ m_data[c].end = Last(m_data[c].data).second
       /\ IsMiscounted(m_data[c]) => c > 1 /\ m_data[c].count < Total(m_data[c].data)

(* What is asked of a set without changing it is answered by its numbers,
   from whichever chunk the search starts: membership, the places of shift,
   unshift, add_shifted and erase_or_unshift, and the count of an interval.
   A count is too small, and is so only, where it starts inside a chunk and
   ends inside the first range of the next one, which it leaves out. *)
QueriesAgree ==
  LET S == Members(m_data)
      wanted == 0 .. MaxIndex + 1
      leftOut(start, end) ==
        LET it == Find(m_data, start)
            next == it.chunk + 1
        IN /\ it # End(m_data) /\ next <= Len(m_data)
           /\ it.offset > 1 \/ start > At(m_data, it).first
           /\ end > Head(m_data[next].data).first /\ end <= Head(m_data[next].data).second
  IN call = NoCall /\ ~Miscounted =>
     \A n \in wanted :
       /\ ContainsIndex(m_data, n) <=> n \in S
       /\ ShiftedIndex(m_data, n) = Promise!Shift(S, n)
       /\ n \notin S => UnshiftedIndex(m_data, n) = Promise!Unshift(S, n)
       /\ AddedShifted(m_data, n).answer = Promise!Shift(S, n)
       /\ ErasedOrUnshifted(m_data, n).answer = IF n \in S THEN -1 ELSE Promise!Unshift(S, n)
       /\ \A end \in n .. MaxIndex + 1 :
            IF leftOut(n, end) THEN CountIn(m_data, n, end) < Promise!Count(S, n, end)
            ELSE CountIn(m_data, n, end) = Promise!Count(S, n, end)

(* verify()'s last assertion, without exception: fails after add_shifted_by
   has written more chunks than it expected. *)
NothingMiscounted == ~Miscounted
==============================================================================
