----------------------------- MODULE Persistence -----------------------------
(***************************************************************************)
(* The persistence analyses of one cache set: SetWiseCountingPersistence,  *)
(* ElementWiseCountingPersistence, ConditionalMustPersistence and the      *)
(* MultiScopePersistence around them.  They bound, for every scope that    *)
(* has been entered, the lines a line of the set competes with since then. *)
(*                                                                         *)
(* An array is the set of its lines in this set; {} stands for an          *)
(* imprecise address that is not known to be of one array.                 *)
(***************************************************************************)
EXTENDS AgeVectors, FiniteSets, Functions, TLC

CONSTANT Arrays    \* the global arrays, longer than a line, with lines in the set

\* The lines of an array are next to each other.
ASSUME ArraysAssumption ==
  /\ Arrays \subseteq SUBSET Tags
  /\ \A a \in Arrays : a # {} /\ a = Min(a) .. Max(a)

-----------------------------------------------------------------------------
\* SetWiseCountingPersistence: the lines accessed one by one, and how often an
\* access to some line of an array was counted.
SetWiseInit == [top |-> FALSE, blocks |-> {}, arrays |-> [a \in Arrays |-> 0]]
GotoTop == [SetWiseInit EXCEPT !.top = TRUE]

\* getCSS(), the size of the conflict set.
CSS(s) == Cardinality(s.blocks) + SumFunction(s.arrays)

\* The lines of the array that have not been accessed one by one.
PerArrayBound(s, a) == Cardinality(a \ s.blocks)

Checked(s) == IF CSS(s) > Assoc THEN GotoTop ELSE s

SetWiseUpdate(s, t) ==
  IF s.top \/ t \in s.blocks THEN s ELSE Checked([s EXCEPT !.blocks = @ \cup {t}])

\* Mutant: an array counts once.
SetWisePotentialOnce(s, a, arrayAware) ==
  IF s.top \/ ~arrayAware \/ a = {} THEN GotoTop
  ELSE IF s.arrays[a] > 0 THEN s ELSE [s EXCEPT !.arrays[a] = 1]

\* The set is checked before the array is counted, and not after.
SetWisePotentialUpdate(s, a, arrayAware) ==
  IF s.top \/ ~arrayAware \/ a = {} THEN GotoTop
  ELSE IF s.arrays[a] >= PerArrayBound(s, a) THEN s
  ELSE IF CSS(s) > Assoc THEN GotoTop
  ELSE [s EXCEPT !.arrays[a] = @ + 1]

\* The counts of an array are matched up, and cut down to its bound: a line may
\* be a block of one state and be counted for its array in the other.
SetWiseJoin(s, r, arrayAware) ==
  LET joined == [s EXCEPT !.blocks = @ \cup r.blocks,
                          !.arrays = [a \in Arrays |-> Max({@[a], r.arrays[a]})]]
      cut == [joined EXCEPT !.arrays =
                [a \in Arrays |-> Min({@[a], PerArrayBound(joined, a)})]]
  IN  IF s.top \/ r.top THEN GotoTop
      ELSE Checked(IF arrayAware THEN cut
                   ELSE [joined EXCEPT !.arrays = s.arrays])

\* cnn counts the conflicting addresses of the other cores in a shared L2.
SetWisePersistent(s, cnn) == ~s.top /\ (cnn > 0 => CSS(s) + cnn <= Assoc)

-----------------------------------------------------------------------------
\* ElementWiseCountingPersistence: a conflict set per line that was accessed,
\* which begins again with each access to the line.
ElementWiseInit == [t \in {} |-> SetWiseInit]

\* Mutant: the conflict sets of the other lines do not see the access.
ElementWiseUpdateAlone(e, t) ==
  [u \in DOMAIN e \cup {t} |-> IF u = t THEN SetWiseUpdate(SetWiseInit, t) ELSE e[u]]

ElementWiseUpdate(e, t) ==
  [u \in DOMAIN e \cup {t} |->
     SetWiseUpdate(IF u = t THEN SetWiseInit ELSE e[u], t)]

ElementWisePotentialUpdate(e, a, arrayAware) ==
  [u \in DOMAIN e |-> SetWisePotentialUpdate(e[u], a, arrayAware)]

\* A line that only one of the two has seen keeps its conflict set.
ElementWiseJoin(e, f, arrayAware) ==
  [u \in DOMAIN e \cup DOMAIN f |->
     IF u \notin DOMAIN f THEN e[u]
     ELSE IF u \notin DOMAIN e THEN f[u] ELSE SetWiseJoin(e[u], f[u], arrayAware)]

ElementWisePersistent(e, t, cnn) == t \in DOMAIN e /\ SetWisePersistent(e[t], cnn)

-----------------------------------------------------------------------------
\* ConditionalMustPersistence: a bound on the age of a line, were it cached
\* when the scope was entered.
CondMustInit == [t \in {} |-> 0]

Older(n) == IF n > 0 /\ n <= Assoc THEN n + 1 ELSE n

\* The first access to a line leaves the other lines as they are.
CondMustUpdate(c, t) ==
  IF t \notin DOMAIN c THEN (t :> 1) @@ c
  ELSE [u \in DOMAIN c |-> IF u = t THEN 1 ELSE Older(c[u])]

CondMustPotentialUpdate(c) == [u \in DOMAIN c |-> Older(c[u])]

CondMustJoin(c, d) ==
  [u \in DOMAIN c \cup DOMAIN d |->
     Max({IF u \in DOMAIN f THEN f[u] ELSE 0 : f \in {c, d}})]

CondMustPersistent(c, t) == t \in DOMAIN c => c[t] <= Assoc

-----------------------------------------------------------------------------
\* makePersistenceCache: the analyses a configuration runs in every scope.
Analyses(config) ==
  (IF \/ config.persType = "SETWISE"
      \/ config.persType \in {"ELEWISE", "CONDMUST"} /\ config.arrayAware THEN {"SW"} ELSE {})
  \cup (IF config.persType = "ELEWISE" THEN {"ELE"} ELSE {})
  \cup (IF config.persType = "CONDMUST" THEN {"CM"} ELSE {})

InfoInit(config) ==
  [n \in Analyses(config) |-> IF n = "SW" THEN SetWiseInit
                              ELSE IF n = "ELE" THEN ElementWiseInit ELSE CondMustInit]

\* What happens to the information of every scope that has been entered.
PersistenceUpdate(scopes2info, t) ==
  [s \in DOMAIN scopes2info |->
     [n \in DOMAIN scopes2info[s] |->
        IF n = "SW" THEN SetWiseUpdate(scopes2info[s][n], t)
        ELSE IF n = "ELE" THEN ElementWiseUpdate(scopes2info[s][n], t)
        ELSE CondMustUpdate(scopes2info[s][n], t)]]

PersistencePotentialUpdate(scopes2info, a, arrayAware) ==
  [s \in DOMAIN scopes2info |->
     [n \in DOMAIN scopes2info[s] |->
        IF n = "SW" THEN SetWisePotentialUpdate(scopes2info[s][n], a, arrayAware)
        ELSE IF n = "ELE" THEN ElementWisePotentialUpdate(scopes2info[s][n], a, arrayAware)
        ELSE CondMustPotentialUpdate(scopes2info[s][n])]]

PersistenceJoin(x, y, arrayAware) ==
  [s \in DOMAIN x |->
     [n \in DOMAIN x[s] |->
        IF n = "SW" THEN SetWiseJoin(x[s][n], y[s][n], arrayAware)
        ELSE IF n = "ELE" THEN ElementWiseJoin(x[s][n], y[s][n], arrayAware)
        ELSE CondMustJoin(x[s][n], y[s][n])]]

\* getPersistentScopes(tag): one of the analyses of the scope says so.
PersistentScopes(scopes2info, t, cnn) ==
  {s \in DOMAIN scopes2info : \E n \in DOMAIN scopes2info[s] :
     \/ n = "SW" /\ SetWisePersistent(scopes2info[s][n], cnn)
     \/ n = "ELE" /\ ElementWisePersistent(scopes2info[s][n], t, cnn)
     \/ n = "CM" /\ CondMustPersistent(scopes2info[s][n], t)}

\* getPersistentScopes(var): only the set-wise analysis says so of an array.
ArrayPersistentScopes(scopes2info) ==
  {s \in DOMAIN scopes2info :
     "SW" \in DOMAIN scopes2info[s] /\ ~scopes2info[s]["SW"].top}

\* enterScope and leaveScope: a scope that is entered again before it was left
\* (the out-of-order pipeline fetches beyond the instruction that leaves it) is
\* only counted.
EnterScope(entercount, s) ==
  IF s \in DOMAIN entercount THEN [entercount EXCEPT ![s] = @ + 1]
  ELSE (s :> 1) @@ entercount

LeaveScope(entercount, s) ==
  IF entercount[s] > 1 THEN [entercount EXCEPT ![s] = @ - 1]
  ELSE Restrict(entercount, DOMAIN entercount \ {s})
=============================================================================
