-------------------------- MODULE CoRunnerExecution --------------------------
(***************************************************************************)
(* The multi-core that the bounds of CoRunnerSensitive are about: cores    *)
(* that run their programs again and again, no more often than their       *)
(* periods allow, and share a bus with round-robin arbitration.  It is     *)
(* started when all analyses are done or, in the iteration towards the     *)
(* greatest fixed point, after any number of rounds: then every            *)
(* intermediate bound is claimed to hold.                                  *)
(***************************************************************************)
EXTENDS CoRunnerSensitive

VARIABLES launched, \* the multi-core runs, and this core is watched: 0 before
          core,     \* core[c]: what c does, and for how long still
          owner     \* the core that had the bus last
hwVars == <<launched, core, owner>>
allVars == <<vars, hwVars>>

CoreOrder == CHOOSE s \in [1 .. Cardinality(Cores) -> Cores] : \A i, j \in DOMAIN s : s[i] = s[j] => i = j
Place(c) == CHOOSE i \in DOMAIN CoreOrder : CoreOrder[i] = c
Period(c) == analysis[c].effectivePeriod

\* since: cycles since the start of the last run, as far as they matter;
\* elapsed: cycles of the watched core in its current run, or in its last one.
Resting(c) == [mode |-> "idle", at |-> 0, left |-> 0, since |-> Period(c), elapsed |-> 0]

InitAll ==
  /\ Init
  /\ launched = 0
  /\ core = [c \in Cores |-> [mode |-> "off", at |-> 0, left |-> 0, since |-> 0, elapsed |-> 0]]
  /\ owner = CoreOrder[1]

AnalysisStep == launched = 0 /\ UNCHANGED hwVars /\ \E c \in Cores : Step(c)

\* Nothing but the bounds matters from then on.
Launch ==
  /\ launched = 0 /\ launched' \in Cores
  /\ \A c \in Cores : analysis[c].pc = "done" \/ (Greatest /\ analysis[c].pc # "start")
  /\ core' = [c \in Cores |-> Resting(c)]
  /\ analysis' = [c \in Cores |-> [AtStart EXCEPT !.effectivePeriod = Period(c),
                     !.wcetBound = IF c = launched' THEN analysis[c].wcetBound ELSE infinity]]
  /\ printed' = [c \in Cores |-> Nothing]
  /\ UNCHANGED <<option, owner>>

\* A core takes an edge of its program: it computes, or asks for the bus.
Take(c, k) ==
  \E e \in {d \in Program[c] : d.from = k.at} : \E n \in e.lo .. e.hi :
    core' = [core EXCEPT ![c] =
               [k EXCEPT !.mode = IF e.kind = "compute" THEN "computes" ELSE "waits",
                         !.at = e.to, !.left = n]]
StartRun(c) ==
  /\ launched # 0 /\ core[c].mode = "idle" /\ core[c].since = Period(c)
  /\ Take(c, [core[c] EXCEPT !.since = 0, !.elapsed = 0])
  /\ UNCHANGED <<vars, launched, owner>>
Decide(c) ==
  /\ launched # 0 /\ core[c].mode = "decides"
  /\ Take(c, core[c])
  /\ UNCHANGED <<vars, launched, owner>>

Accessing == {c \in Cores : core[c].mode = "accesses"}
Waiting == {c \in Cores : core[c].mode = "waits"}
Behind(c) == (Place(c) - Place(owner) - 1) % Cardinality(Cores)
Granted ==
  IF Accessing # {} \/ Waiting = {} THEN {}
  ELSE {CHOOSE c \in Waiting : \A d \in Waiting : Behind(c) <= Behind(d)}

Aged(c, k) ==
  [k EXCEPT !.since = Min({@ + 1, Period(c)}),
            !.elapsed = IF k.mode = "idle" \/ c # launched THEN @ ELSE @ + 1]
Worked(k) ==
  IF k.left > 1 THEN [k EXCEPT !.left = @ - 1]
  ELSE [k EXCEPT !.left = 0, !.mode = IF k.at = 0 THEN "idle" ELSE "decides"]
Tick ==
  /\ launched # 0 /\ \A c \in Cores : core[c].mode # "decides"
  /\ owner' = IF Granted = {} THEN owner ELSE CHOOSE c \in Granted : TRUE
  /\ core' = [c \in Cores |->
       LET k == Aged(c, core[c]) IN
       CASE c \in Granted -> Worked([k EXCEPT !.mode = "accesses"])
         [] c \notin Granted /\ k.mode \in {"computes", "accesses"} -> Worked(k)
         [] c \notin Granted /\ k.mode \in {"idle", "waits"} -> k]
  /\ UNCHANGED <<vars, launched>>

Next == AnalysisStep \/ Launch \/ Tick \/ \E c \in Cores : StartRun(c) \/ Decide(c)

\* The analyses are separate processes.
Spec == InitAll /\ [][Next]_allVars /\ \A c \in Cores : WF_allVars(launched = 0 /\ UNCHANGED hwVars /\ Step(c))

-----------------------------------------------------------------------------
\* No run takes longer than the WCET bound of its core, whatever the other
\* cores do on the bus meanwhile: the bounds of the analyses hold together,
\* although each was computed from what the others had reached.
BoundsHold ==
  launched # 0 => Within(core[launched].elapsed, analysis[launched].wcetBound)

\* When the analyses are done, each bound is what the path analysis yields
\* for the interference that follows from the final bounds: nothing was
\* lost by the rounds in which a bound was not recalculated.
FixedPointReached ==
  AllDone => \A c \in Cores :
    LET a == analysis[c]
        bounds == [d \in Cores |-> IF d = c THEN infinity ELSE MaxAccessCyclesPer(d, analysis[d], a.wcetBound)]
    IN  a.wcetBound # infinity =>
          a.wcetBound = WcetBound(c, BlockingBound(c, a, bounds), ConcAccessesBound(c, a, bounds))

\* Bounds move in one direction only, so that the warning about the other one
\* and the monotonicity assertions behind it are never reached.
NeverRetreats == \A c \in Cores : ~analysis[c].warned

\* The rounds come to an end, no analysis waits for another one forever.
Terminates == <>(launched # 0 \/ AllDone)

-----------------------------------------------------------------------------
\* The instance that TLC checks: three cores; the first program has more accesses than its co-runners can
\* get in the way of in a window of its length.

Edge(from, to, kind, lo, hi) == [from |-> from, to |-> to, kind |-> kind, lo |-> lo, hi |-> hi]
MCProgram ==
  <<{Edge(0, 1, "access", 2, 2), Edge(1, 2, "access", 2, 2), Edge(1, 2, "compute", 2, 2),
     Edge(2, 3, "access", 2, 2), Edge(3, 0, "compute", 1, 2)},
    {Edge(0, 1, "compute", 1, 1), Edge(0, 1, "compute", 12, 12), Edge(1, 2, "access", 2, 2), Edge(2, 0, "forwarded", 2, 2)},
    {Edge(0, 1, "access", 2, 2), Edge(1, 0, "compute", 3, 3)}>>
None == [num |-> 0, den |-> 0]
Half == [num |-> 1, den |-> 2]
Twice == [num |-> 2, den |-> 1]
Base ==
  [fixedPoint |-> "GREATEST", curve |-> "ILPBASED", objective |-> "COMBINED",
   subpath |-> TRUE, period |-> <<0, 0, 0>>, rel |-> <<None, None, None>>, relToIgnoringInterference |-> FALSE,
   noWcetBound |-> {}, noArrivalCurve |-> {}]
Periods == <<18, 20, 16>>
MCOptions ==
  {[Base EXCEPT !.period = Periods, !.noWcetBound = {3}],
   [Base EXCEPT !.period = Periods, !.fixedPoint = "LEAST", !.curve = "PROGRAM_GRANULARITY", !.noWcetBound = {3}],
   [Base EXCEPT !.period = <<0, 0, 16>>, !.fixedPoint = "LEAST", !.objective = "VARIANT1", !.noWcetBound = {2}],
   [Base EXCEPT !.period = <<0, 0, 20>>, !.rel = <<Half, Half, None>>, !.objective = "VARIANT2", !.noArrivalCurve = {1}],
   [Base EXCEPT !.period = <<0, 0, 24>>, !.rel = <<Half, Twice, None>>, !.relToIgnoringInterference = TRUE,
                !.curve = "PROGRAM_GRANULARITY", !.noWcetBound = {3}]}
=============================================================================
