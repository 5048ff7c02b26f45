--------------------------- MODULE ScopedCacheSet ---------------------------
(***************************************************************************)
(* One set of a data cache with the analyses that makeOptionsCache puts    *)
(* together for it: a persistence analysis per scope and, for a write-back *)
(* cache, the dirtiness analysis.  Every path carries the concrete set it  *)
(* simulates and what the path analysis charges to it: the misses and the  *)
(* dirtifying stores that StateGraphCacheMissProvider and                  *)
(* StateGraphDirtifyingStoreProvider allow once per line and scope entry.  *)
(***************************************************************************)
EXTENDS Persistence, DirtinessAnalysis

CONSTANTS Foreign,   \* the lines of the other cores that map to a shared set
          Scopes,    \* the persistence scopes around the accesses
          Configs    \* the configurations of the analyses; maxEnter bounds how
                     \* often a scope is entered before it is left, maxApart how
                     \* many steps two paths take between a split and their join

ASSUME LinesAssumption ==
  IsFiniteSet(Tags) /\ IsFiniteSet(Foreign) /\ Tags \cap Foreign = {}
ASSUME ConfigsAssumption ==
  \A c \in Configs : /\ c.persType \in {"NONE", "SETWISE", "ELEWISE", "CONDMUST"}
                     /\ {c.arrayAware, c.shared, c.writeback} \subseteq BOOLEAN
                     /\ c.assumeCleanCache \in BOOLEAN

\* The exploration's path of which the concrete execution is followed, and the
\* one that it is split from and joined with.
Followed == "followed"
Other == "other"
Paths == {Followed, Other}

VARIABLES config,       \* the configuration, the same on all paths
          apart,        \* steps since the other path was split off; 0 without one
          scopes2info, scopes2entercount,   \* MultiScopePersistence
          dirt,         \* DirtinessAnalysis
          age, dirty,   \* the concrete set: the ages and the dirty lines
          accessed,     \* the lines accessed since each scope was entered
          misses,       \* misses charged per scope and address since then
          stores,       \* and stores that made a line dirty
          surprises     \* promises of the analyses that were broken

concrete == <<age, dirty, accessed, misses, stores, surprises>>
vars == <<config, apart, scopes2info, scopes2entercount, dirt, concrete>>

\* A precise address is its line, and an array all of its lines.
Addresses == {{t} : t \in Tags} \cup Arrays
NothingCharged == [x \in Addresses |-> 0]

Lines == Tags \cup Foreign
NotCached == [t \in Lines |-> Assoc]
Ages == {a \in [Lines -> 0 .. Assoc] :
           \A t, u \in Lines : a[t] = a[u] /\ a[t] < Assoc => t = u}
Touch(a, t) ==
  [u \in Lines |-> IF u = t THEN 0 ELSE IF a[u] < a[t] THEN a[u] + 1 ELSE a[u]]
Evicted(t) == IF age[t] < Assoc THEN {} ELSE {u \in Lines : age[u] = Assoc - 1}

\* Any set of lines; a dirty one only when the initial cache is not assumed to
\* be clean.
Init ==
  /\ config \in Configs
  /\ apart = 0
  /\ age \in (IF config.writeback THEN {a \in Ages : \A f \in Foreign : a[f] = Assoc}
             ELSE {NotCached})
  /\ dirty \in (IF config.writeback /\ ~config.assumeCleanCache
                THEN SUBSET {t \in Tags : age[t] < Assoc} ELSE {{}})
  /\ scopes2info = [p \in {Followed} |-> [s \in {} |-> InfoInit(config)]]
  /\ scopes2entercount = [p \in {Followed} |-> [s \in {} |-> 0]]
  /\ dirt = [p \in {Followed} |-> DirtInit(FALSE, config.assumeCleanCache)]
  /\ accessed = [s \in {} |-> {}]
  /\ misses = [s \in {} |-> NothingCharged]
  /\ stores = [s \in {} |-> NothingCharged]
  /\ surprises = {}

\* CNN, the number of conflicting lines of the other cores.
CNN == IF config.shared THEN Cardinality(Foreign) ELSE 0

Stores == IF config.writeback THEN BOOLEAN ELSE {FALSE}

\* Charge one more to the address in each of the scopes; beyond its lines it
\* does not matter how much.
Charged(account, scopes, x) ==
  [s \in DOMAIN account |->
     IF s \in scopes /\ account[s][x] <= Cardinality(x)
     THEN [account[s] EXCEPT ![x] = @ + 1] ELSE account[s]]

\* What the report should have said of a touch of line t.
Surprise(t, store, report) ==
  (IF Evicted(t) \cap dirty # {} /\ ~report.wbPossible THEN {"writeback"} ELSE {})
  \cup (IF store /\ t \notin dirty /\ ~report.dirtifyingStore
        THEN {"dirtifying store"} ELSE {})

\* The concrete set is touched, and what was reported of it is compared and
\* charged; writeback and dirtifying stores exist in a write-back cache only.
Execute(t, store, x, scopes, report) ==
  /\ age' = Touch(age, t)
  /\ accessed' = [s \in DOMAIN accessed |-> accessed[s] \cup {t}]
  /\ misses' = IF age[t] < Assoc THEN misses ELSE Charged(misses, scopes, x)
  /\ IF config.writeback
     THEN /\ dirty' = (dirty \ Evicted(t)) \cup (IF store THEN {t} ELSE {})
          /\ surprises' = surprises \cup Surprise(t, store, report)
          /\ stores' = IF store /\ t \notin dirty THEN Charged(stores, scopes, x) ELSE stores
     ELSE UNCHANGED <<dirty, surprises, stores>>

\* Path p accesses line t; outcome is the case it follows, which the caller
\* passes on when it has split the path on an unknown classification.  The scopes
\* the line is persistent in are those of the state before the update.
Access(p, t, store, outcome, split) ==
  LET cl == DirtClassify(dirt[p], t)
      hit == IF split THEN outcome = "HIT" ELSE cl = "HIT"
  IN  /\ config.writeback => cl \in {"UNKNOWN", outcome}
      /\ split => config.writeback /\ cl = "UNKNOWN"
      /\ scopes2info' = [scopes2info EXCEPT ![p] = PersistenceUpdate(@, t)]
      /\ dirt' = IF config.writeback
                 THEN [dirt EXCEPT ![p] = DirtUpdate(@, t, store, hit)] ELSE dirt
      /\ IF p = Followed
         THEN /\ (age[t] < Assoc) = (outcome = "HIT")
              /\ Execute(t, store, {t}, PersistentScopes(scopes2info[p], t, CNN),
                         DirtReport(dirt[p], t, store, hit))
         ELSE UNCHANGED concrete
      /\ UNCHANGED <<config, scopes2entercount>>

\* Path p accesses the array a, or with {} an imprecise address between two
\* lines: one of the lines, or one in another set.
PotentialAccess(p, a, low, high, store) ==
  /\ low <= high
  /\ a # {} => low = Min(a) /\ high = Max(a)
  /\ scopes2info' = [scopes2info EXCEPT
       ![p] = PersistencePotentialUpdate(@, a, config.arrayAware)]
  /\ dirt' = IF config.writeback
             THEN [dirt EXCEPT ![p] = DirtPotentialUpdate(@, low, high, store)] ELSE dirt
  /\ \/ UNCHANGED concrete
     \/ /\ p = Followed
        /\ \E t \in Tags \cap low .. high :
             Execute(t, store, a,
                     IF a = {} THEN {} ELSE ArrayPersistentScopes(scopes2info[p]),
                     DirtPotentialReport(dirt[p], low, high, store))
  /\ UNCHANGED <<config, scopes2entercount>>

\* Another core accesses its line of a shared set, which no analysis sees.
ForeignAccess ==
  /\ config.shared
  /\ \E f \in Foreign : age' = Touch(age, f)
  /\ UNCHANGED <<config, apart, scopes2info, scopes2entercount, dirt,
                 dirty, accessed, misses, stores, surprises>>

\* What the followed execution keeps per scope is dropped with the scope, and
\* begins with nothing when it is entered afresh.
Keep(f, scopes, fresh) == [s \in scopes |-> IF s \in DOMAIN f THEN f[s] ELSE fresh]
CrossScope(p, counts) ==
  /\ scopes2entercount' = [scopes2entercount EXCEPT ![p] = counts]
  /\ scopes2info' = [scopes2info EXCEPT ![p] = Keep(@, DOMAIN counts, InfoInit(config))]
  /\ IF p = Followed
     THEN /\ accessed' = Keep(accessed, DOMAIN counts, {})
          /\ misses' = Keep(misses, DOMAIN counts, NothingCharged)
          /\ stores' = Keep(stores, DOMAIN counts, NothingCharged)
     ELSE UNCHANGED <<accessed, misses, stores>>
  /\ UNCHANGED <<config, dirt, age, dirty, surprises>>

Enter(p, s) ==
  /\ config.persType # "NONE"
  /\ s \in DOMAIN scopes2info[p] => scopes2entercount[p][s] < config.maxEnter
  /\ CrossScope(p, EnterScope(scopes2entercount[p], s))

Leave(p, s) ==
  /\ s \in DOMAIN scopes2info[p]
  /\ CrossScope(p, LeaveScope(scopes2entercount[p], s))

\* The followed path is split: the other one begins as its copy.
SplitOff ==
  /\ apart = 0 /\ apart' = 1
  /\ scopes2info' = [p \in Paths |-> scopes2info[Followed]]
  /\ scopes2entercount' = [p \in Paths |-> scopes2entercount[Followed]]
  /\ dirt' = [p \in Paths |-> dirt[Followed]]
  /\ UNCHANGED <<config, concrete>>

\* The other path is gone: joined into the followed one, where both have entered
\* the same scopes as often, or at another program point.
Join ==
  /\ apart > 0 /\ apart' = 0
  /\ scopes2entercount' = [p \in {Followed} |-> scopes2entercount[p]]
  /\ \/ /\ scopes2entercount[Followed] = scopes2entercount[Other]
        /\ scopes2info' = [p \in {Followed} |->
             PersistenceJoin(scopes2info[p], scopes2info[Other], config.arrayAware)]
        /\ dirt' = [p \in {Followed} |-> DirtJoin(dirt[p], dirt[Other])]
     \/ /\ scopes2info' = [p \in {Followed} |-> scopes2info[p]]
        /\ dirt' = [p \in {Followed} |-> dirt[p]]
  /\ UNCHANGED <<config, concrete>>

\* Every path that there is may take a step; two of them only so many.
Step(p) ==
  /\ p \in DOMAIN dirt
  /\ IF apart = 0 THEN apart' = 0 ELSE apart <= config.maxApart /\ apart' = apart + 1
  /\ \/ \E t \in Tags, store \in Stores, outcome \in {"HIT", "MISS"}, split \in BOOLEAN :
          Access(p, t, store, outcome, split)
     \/ \E a \in Arrays \cup {{}}, low, high \in Tags, store \in Stores :
          PotentialAccess(p, a, low, high, store)
     \/ \E s \in Scopes : Enter(p, s) \/ Leave(p, s)

Next == SplitOff \/ Join \/ ForeignAccess \/ \E p \in Paths : Step(p)

Spec == Init /\ [][Next]_vars

-----------------------------------------------------------------------------
\* What is charged to an address: an array is charged with its lines, too.
ChargedTo(account, x) ==
  SumFunctionOnSet(account, {y \in Addresses : y \subseteq x})

\* The constraints of the path analysis on one visit of a scope: an address may
\* be charged once per line.
PersistenceConstraints ==
  \A s \in DOMAIN misses, x \in Addresses : ChargedTo(misses[s], x) <= Cardinality(x)
PersistentDFSConstraints ==
  \A s \in DOMAIN stores, x \in Addresses : ChargedTo(stores[s], x) <= Cardinality(x)

\* The configurations whose counts can be trusted.  The array-aware analyses may
\* go on with one conflict more than the set has ways, the set-wise one of a shared
\* set calls arrays persistent whatever the other cores do, and the conditional
\* must analysis leaves the other lines as they are at the first access to a line.
CountsSoundly ==
  /\ ~config.arrayAware /\ config.persType # "CONDMUST"
  /\ config.persType = "SETWISE" => ~config.shared

\* "sum of persistent and definite miss edges - sum of entry edges should be <=
\* 0" leaves out no execution: once a scope is entered, an address misses in it
\* at most once per line while it is called persistent.
OneMissPerEntry == CountsSoundly => PersistenceConstraints

\* The set-wise conflict count is at least the number of different lines that
\* were accessed in the set since the scope was entered, arrays included, unless
\* the analysis has given up.
ConflictsCounted ==
  "SW" \in Analyses(config) =>
    \A s \in DOMAIN accessed :
      LET info == scopes2info[Followed][s]["SW"]
      IN  info.top \/ Cardinality(accessed[s]) <= CSS(info)

\* No dirty line leaves the cache, and no clean line becomes dirty, in an update
\* that reports nothing of the kind; the writeback bound counts these reports.
WritebacksForeseen == surprises = {}

\* The assertions of DirtinessAnalysis hold, and what it says of a line is true.
DirtinessSound ==
  config.writeback =>
    /\ \A p \in DOMAIN dirt : /\ CheckInvariants(dirt[p])
                             /\ \A t \in Tags : ~IncorporateUnreachable(dirt[p], t)
    /\ \A t \in Tags : /\ DirtinessOf(dirt[Followed], t) = "CLEAN" => t \notin dirty
                       /\ DirtinessOf(dirt[Followed], t) = "DIRTY" => t \in dirty

\* "sum of persistent DFS edges - sum of entry edges should be <= 0" leaves out
\* no execution, even if only the stores count that make a clean line dirty.  It
\* does not hold of the element-wise analysis (WriteBackElementWise).
OneDirtifyingStorePerEntry == PersistentDFSConstraints

-----------------------------------------------------------------------------
\* The instance that TLC checks: three lines, two of which an array covers.

MCArrays == {{2, 3}}
Cache(persType, arrayAware, shared, maxEnter, maxApart) ==
  [persType |-> persType, arrayAware |-> arrayAware, shared |-> shared, writeback |-> FALSE,
   assumeCleanCache |-> TRUE, maxEnter |-> maxEnter, maxApart |-> maxApart]
WriteBack(persType, assumeCleanCache, maxApart) ==
  [Cache(persType, FALSE, FALSE, 1, maxApart)
     EXCEPT !.writeback = TRUE, !.assumeCleanCache = assumeCleanCache]
\* Write-through caches with each persistence analysis, one of them shared with
\* another core, and write-back caches.
MCConfigs == {Cache("SETWISE", FALSE, FALSE, 2, 3), Cache("SETWISE", TRUE, FALSE, 1, 3),
              Cache("ELEWISE", FALSE, FALSE, 1, 2), Cache("ELEWISE", FALSE, TRUE, 1, 1),
              WriteBack("NONE", TRUE, 1),
              WriteBack("NONE", FALSE, 1)}
\* A write-back cache with the element-wise analysis.
WriteBackElementWise == {WriteBack("ELEWISE", TRUE, 0)}
=============================================================================
