------------------------------ MODULE AgeVectors ------------------------------
(***************************************************************************)
(* The vectors of <tag, age> entries that LruMaxAgeAbstractCache and       *)
(* LruMinAgeAbstractCache keep sorted by age, then by tag.  Both classes   *)
(* keep the order by hand; the helpers here are the pieces of those loops. *)
(* Tags are numbers because the code orders lines of one age by their tag. *)
(***************************************************************************)
EXTENDS Integers, Sequences, SequencesExt, FiniteSetsExt

CONSTANTS Tags,    \* the tags whose lines map to the set
          Assoc    \* T->ASSOCIATIVITY

ASSUME TagsAssumption == Tags \subseteq Nat
ASSUME AssocAssumption == Assoc \in Nat \ {0}

Entry == [tag : Tags, age : 0 .. Assoc]
EntryOf(t, n) == [tag |-> t, age |-> n]
Precedes(x, y) == x.age < y.age \/ (x.age = y.age /\ x.tag < y.tag)

\* The documented order of the vectors, on which operator== relies.
Canonical(v) == \A i, j \in DOMAIN v : i < j => Precedes(v[i], v[j])

TagsOf(v) == {v[i].tag : i \in DOMAIN v}

\* The index of t's entry; 0 when the search loop runs off the end.
Position(v, t) ==
  LET found == {i \in DOMAIN v : v[i].tag = t}
  IN  IF found = {} THEN 0 ELSE Min(found)

\* Drop the entries at the back that are not younger than n.
YoungerThan(v, n) ==
  SubSeq(v, 1, Max({0} \cup {i \in DOMAIN v : v[i].age < n}))

\* The vector without the lines that are as old as a line can get.
Young(v) == YoungerThan(v, Assoc - 1)

\* The entries i+1.. that entry i has to be moved behind: same age, lesser tag.
Behind(v, i) ==
  {j \in i+1 .. Len(v) :
     \A k \in i+1 .. j : v[k].age = v[i].age /\ v[k].tag < v[i].tag}

\* Move the tag of entry i right past the lesser tags of its age.
Settle(v, i) ==
  LET last == Max({i} \cup Behind(v, i))
  IN  SubSeq(v, 1, i - 1) \o SubSeq(v, i + 1, last) \o <<v[i]>>
        \o SubSeq(v, last + 1, Len(v))

AgeBy(v, n) == [i \in DOMAIN v |-> EntryOf(v[i].tag, v[i].age + n)]

\* The whole numbers from hi down to lo.
Downto(hi, lo) == [i \in 1 .. hi - lo + 1 |-> hi + 1 - i]
=============================================================================
