------------------------------ MODULE LruMaxAge ------------------------------
(***************************************************************************)
(* LruMaxAgeAbstractCache, the must analysis of one LRU set: a vector that *)
(* bounds the age of every tag it holds from above.  A tag it does not     *)
(* hold has the bound Assoc.                                               *)
(***************************************************************************)
EXTENDS AgeVectors

\* Any cache, and also the empty one, is described by the empty vector.
MustInit == << >>

MustAge(v, t) ==
  LET pos == Position(v, t) IN IF pos = 0 THEN Assoc ELSE v[pos].age

\* cnn is the number of conflicting lines of the other cores (0 unless the
\* analysis is for a shared L2 and multi-core type LiangY).
MustClassify(v, t, cnn) ==
  IF t \in TagsOf(v)
  THEN IF MustAge(v, t) + cnn >= Assoc THEN "MISS" ELSE "HIT"
  ELSE IF Len(v) = Assoc THEN "MISS" ELSE "UNKNOWN"

\* Entry i receives its left neighbour, one older if it was younger than the
\* accessed line, and is merged into the lines of the accessed age.
ShiftInto(v, i, accessedAge) ==
  LET older == IF v[i-1].age < accessedAge THEN v[i-1].age + 1 ELSE v[i-1].age
      moved == [v EXCEPT ![i] = EntryOf(v[i-1].tag, older)]
  IN  IF older = accessedAge THEN Settle(moved, i) ELSE moved

\* The entries up to the last one are shifted, from the back.
ShiftUpTo(v, last, accessedAge) ==
  FoldLeft(LAMBDA w, i : ShiftInto(w, i, accessedAge), v, Downto(last, 2))

\* Mutant: an access to a known line forgets the others.
MustUpdateForgets(v, t, hit) ==
  <<EntryOf(t, 0)>> \o (IF t \in TagsOf(v) THEN << >> ELSE AgeBy(Young(v), 1))

\* An access to t; hit says that the caller assumes a cache hit.
MustUpdate(v, t, hit) ==
  LET pos == Position(v, t)
      front == EntryOf(t, 0)
      accessedAge == IF pos # 0 THEN v[pos].age
                     ELSE IF hit THEN Assoc - 1 ELSE Assoc
      room == IF pos # 0 THEN v ELSE Append(IF hit THEN v ELSE Young(v), front)
      last == IF pos # 0 THEN pos ELSE Len(room)
  IN  <<front>> \o Tail(ShiftUpTo(room, last, accessedAge))

\* An access to an address of which no tag is known.
MustPotentialUpdate(v) == AgeBy(Young(v), 1)

\* Mutant: the other state is ignored.
MustJoinFirst(x, y) == x

\* The entries of both vectors are visited from the greatest down; one is kept
\* when its tag is still ahead in the other vector, i.e. at the greater of its
\* two ages.
MustJoin(x, y) ==
  LET joined[at \in (0 .. Len(x)) \X (0 .. Len(y))] ==
        LET i == at[1]
            j == at[2]
            fromX == i > 0 /\ (j = 0 \/ ~Precedes(x[i], y[j]))
            kept == IF fromX THEN x[i] ELSE y[j]
            ahead == IF fromX THEN TagsOf(SubSeq(y, 1, j)) ELSE TagsOf(SubSeq(x, 1, i))
            rest == joined[IF fromX THEN <<i - 1, j>> ELSE <<i, j - 1>>]
        IN  IF i = 0 /\ j = 0 THEN << >>
            ELSE IF kept.tag \in ahead THEN Append(rest, kept) ELSE rest
  IN  joined[<<Len(x), Len(y)>>]

MustLessEqual(x, y) == MustJoin(x, y) = y
=============================================================================
