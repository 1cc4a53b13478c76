---------------------------- MODULE ChunkedRanges ----------------------------
(***************************************************************************)
(* ChunkedRangeVector (index_set.hpp, index_set.cpp): ascending ranges     *)
(* first .. second - 1, kept in chunks of at most MaxSize.  A chunk keeps, *)
(* beside its ranges, where they begin and end and how many numbers they   *)
(* hold.  A place in the vector (an iterator) is [chunk, offset]; the end  *)
(* is the place after the last chunk.                                      *)
(***************************************************************************)
EXTENDS Integers, Sequences, SequencesExt, FiniteSetsExt

CONSTANT MaxSize

\* Half of a full chunk moves to a new one: max_size is 4 or 256.
ASSUME MaxSizeIsEven == MaxSize \in Nat \ {0} /\ MaxSize % 2 = 0

\* A sequence with another element at a position, as a sequence TLC has evaluated.
With(seq, i, element) == SubSeq(seq, 1, i - 1) \o <<element>> \o SubSeq(seq, i + 1, Len(seq))

Span(first, second) == [first |-> first, second |-> second]
Size(range) == range.second - range.first
Total(data) == MapThenSumSet(Size, {data[i] : i \in DOMAIN data})

\* A chunk of these ranges whose bookkeeping is right.
Chunk(data) == [data |-> data, begin |-> Head(data).first,
                end |-> Last(data).second, count |-> Total(data)]

AllRanges(vector) == FlattenSeq([c \in DOMAIN vector |-> vector[c].data])
Numbers(range) == range.first .. range.second - 1
Members(vector) == UNION {Numbers(AllRanges(vector)[i]) : i \in DOMAIN AllRanges(vector)}

(***************************************************************************)
(* Places                                                                  *)
(***************************************************************************)
Place(chunk, offset) == [chunk |-> chunk, offset |-> offset]
Begin == Place(1, 1)
End(vector) == Place(Len(vector) + 1, 1)
At(vector, it) == vector[it.chunk].data[it.offset]

NextChunk(it) == Place(it.chunk + 1, 1)
Succ(vector, it) == IF it.offset = Len(vector[it.chunk].data) THEN NextChunk(it)
                    ELSE Place(it.chunk, it.offset + 1)
Prev(vector, it) == IF it.offset = 1 THEN Place(it.chunk - 1, Len(vector[it.chunk - 1].data))
                    ELSE Place(it.chunk, it.offset - 1)

(***************************************************************************)
(* Changing the range at a place                                           *)
(***************************************************************************)
SetRange(vector, it, first, second) ==
  LET chunk == vector[it.chunk] IN
  With(vector, it.chunk,
       [data |-> With(chunk.data, it.offset, Span(first, second)),
        begin |-> IF it.offset = 1 THEN first ELSE chunk.begin,
        end |-> IF it.offset = Len(chunk.data) THEN second ELSE chunk.end,
        count |-> chunk.count - Size(At(vector, it)) + second - first])

Adjust(vector, it, front, back) ==
  SetRange(vector, it, At(vector, it).first + front, At(vector, it).second + back)

\* shift() of every range from a place on.
ShiftFrom(vector, it, distance) ==
  LET moved(c, i) == c > it.chunk \/ (c = it.chunk /\ i >= it.offset)
      at(c, i) == LET r == vector[c].data[i] IN
                  IF moved(c, i) THEN Span(r.first + distance, r.second + distance) ELSE r
  IN [c \in DOMAIN vector |->
       [vector[c] EXCEPT !.data = [i \in DOMAIN @ |-> at(c, i)],
                         !.begin = IF moved(c, 1) THEN @ + distance ELSE @,
                         !.end = IF c >= it.chunk THEN @ + distance ELSE @]]

(***************************************************************************)
(* Adding and taking away ranges; the answer is the vector and a place     *)
(***************************************************************************)
PushBack(vector, range) ==
  IF vector # << >> /\ Len(Last(vector).data) < MaxSize
  THEN With(vector, Len(vector), [Last(vector) EXCEPT
              !.data = Append(@, range), !.count = @ + Size(range), !.end = range.second])
  ELSE Append(vector, Chunk(<<range>>))

\* Mutant of Following: the last of the first half is looked for in the second.
FollowingTooFar(pos, kept) ==
  IF pos.offset >= kept THEN Place(pos.chunk + 1, Max({1, pos.offset - kept})) ELSE pos

\* Where a range of a chunk is found after all but the first `kept` moved to the next one.
Following(pos, kept) ==
  IF pos.offset > kept THEN Place(pos.chunk + 1, pos.offset - kept) ELSE pos

\* A full chunk is split in half; the place goes with its range.
EnsureSpace(vector, pos) ==
  LET chunk == vector[pos.chunk]
      moving == MaxSize \div 2
      left == SubSeq(chunk.data, 1, Len(chunk.data) - moving)
      right == SubSeq(chunk.data, Len(chunk.data) - moving + 1, Len(chunk.data))
      prev == [chunk EXCEPT !.data = left, !.end = Last(left).second, !.count = @ - Total(right)]
  IN IF Len(chunk.data) < MaxSize THEN [vector |-> vector, it |-> pos]
     ELSE [vector |-> InsertAt(With(vector, pos.chunk, prev), pos.chunk + 1, Chunk(right)),
           it |-> Following(pos, moving)]

Insert(vector, pos, range) ==
  LET room == EnsureSpace(vector, pos)
      chunk == room.vector[room.it.chunk]
      pushed == PushBack(vector, range)
  IN IF pos = End(vector) THEN [vector |-> pushed, it |-> Prev(pushed, End(pushed))]
     ELSE [vector |-> With(room.vector, room.it.chunk,
             [data |-> InsertAt(chunk.data, room.it.offset, range),
              begin |-> Min({chunk.begin, range.first}), end |-> Max({chunk.end, range.second}),
              count |-> chunk.count + Size(range)]),
           it |-> room.it]

\* The place is that of the next range.
Erase(vector, pos) ==
  LET chunk == vector[pos.chunk]
      data == RemoveAt(chunk.data, pos.offset)
  IN IF data = << >> THEN [vector |-> RemoveAt(vector, pos.chunk), it |-> pos]
     ELSE [vector |-> With(vector, pos.chunk,
             [data |-> data, begin |-> Head(data).first, end |-> Last(data).second,
              count |-> chunk.count - Size(At(vector, pos))]),
           it |-> IF pos.offset <= Len(data) THEN pos ELSE NextChunk(pos)]

(***************************************************************************)
(* ChunkedRangeVectorBuilder: a vector is written anew from ascending      *)
(* ranges, in as many chunks as the old ranges would fill and further ones *)
(* where these do not suffice.  A further one starts with a count of 1,    *)
(* whatever the length of its first range.                                 *)
(***************************************************************************)
Builder(expected) == [data |-> << >>, room |-> Len(AllRanges(expected)) \div MaxSize + 1]

BuilderPush(builder, range) ==
  LET vector == builder.data
      chunk == Last(vector)
      adjacent == vector # << >> /\ Last(chunk.data).second = range.first
      joined == [chunk EXCEPT !.data = With(@, Len(@), Span(Last(@).first, range.second)),
                              !.end = range.second, !.count = @ + Size(range)]
      further == [Chunk(<<range>>) EXCEPT !.count = 1]
  IN CASE adjacent -> [builder EXCEPT !.data = With(@, Len(@), joined)]
       [] ~adjacent /\ vector # << >> /\ Len(chunk.data) = MaxSize
          /\ Len(vector) >= builder.room -> [builder EXCEPT !.data = Append(@, further)]
       [] OTHER -> [builder EXCEPT !.data = PushBack(@, range)]

\* The vector after these ranges, over an old one.
Rebuilt(expected, ranges) == FoldLeft(BuilderPush, Builder(expected), ranges).data

Singles(numbers) == [i \in DOMAIN numbers |-> Span(numbers[i], numbers[i] + 1)]
==============================================================================
