---------------------------- MODULE MCHousehold ----------------------------
EXTENDS IdentityTimeFrames, Records, Evaluator, ShiftScenarios, HabitModel

VARIABLE part

Motion(turn, x, y, slack) == [turn |-> turn, x |-> x, y |-> y, slack |-> slack]

Link(id, household, source, target, motion, from, until) ==
  [id |-> id, household |-> household, source |-> source, target |-> target,
   motion |-> motion, from |-> from, until |-> until]

(* Two ways from 1 to 2 that disagree, of which there and back differ,     *)
(* with links against the direction, and another household with an id that *)
(* is used twice.                                                          *)
MCTransform ==
  {Link(1, "h1", 1, 3, Motion(1, 1, 0, 0), 0, Forever), Link(2, "h1", 6, 3, Motion(0, 1, 2, 0), 0, 2),
   Link(3, "h1", 6, 2, Motion(3, 2, 0, 0), 0, Forever), Link(4, "h1", 1, 4, Motion(1, 0, 1, 0), 0, Forever),
   Link(5, "h1", 5, 4, Motion(1, 1, 1, 0), 0, 2), Link(6, "h1", 5, 2, Motion(2, 0, 1, 0), 0, Forever),
   Link(3, "h2", 1, 2, Motion(1, 1, 1, 0), 0, 1)}

Clock(id, household, source, target, offset, uncertainty, from, until) ==
  Link(id, household, source, target, Motion(0, offset, 0, uncertainty), from, until)

(* One that replaces another, and one that overlaps with both of them.     *)
MCAlignment ==
  {Clock(1, "h1", 1, 2, 1, 1, 0, Forever), Clock(2, "h1", 2, 3, -1, 1, 0, 2),
   Clock(3, "h1", 3, 2, 2, 0, 2, Forever), Clock(4, "h1", 1, 3, 1, 1, 1, 2),
   Clock(5, "h2", 3, 1, 1, 2, 0, Forever), Clock(6, "h1", 2, 3, 0, 1, 1, 3)}

MCIdentity ==
  {[id |-> 1, namespace |-> "household", household |-> NoHousehold],
   [id |-> 1, namespace |-> "session", household |-> "h1"],
   [id |-> 2, namespace |-> "session", household |-> "h1"],
   [id |-> 2, namespace |-> "session", household |-> "h2"],
   [id |-> 3, namespace |-> "household", household |-> "h1"]}

MCManifest ==
  {[id |-> i, state |-> s, valid |-> TRUE, reasons |-> << >>] : i \in {1, 2}, s \in {"s1", "s2"}}
    \cup {[id |-> 2, state |-> "s1", valid |-> FALSE, reasons |-> <<"stale">>]}

Routine(object, initial, habitual, slot) ==
  [object |-> object, actor |-> "resident", initial |-> initial, habitual |-> habitual, slot |-> slot]

Change(id, kind, object, from, until, target, actor) ==
  [id |-> id, kind |-> kind, object |-> object, from |-> from, until |-> until,
   target |-> target, actor |-> actor, transition |-> 2, period |-> 2]

MCRoutines == <<Routine(1, "shelf", "table", 1), Routine(2, "desk", "desk", 0)>>

MCChange ==
  {Change(1, "abrupt_change", 1, 2, NoDay, "box", NoActor),
   Change(2, "temporary_exception", 1, 1, 2, "sink", NoActor),
   Change(3, "guest_contamination", 1, 1, 1, "floor", "guest"),
   Change(4, "gradual_drift", 1, 0, NoDay, "desk", "other"),
   Change(5, "isolated_anomaly", 1, 2, NoDay, "sink", NoActor),
   Change(6, "periodic_context", 2, 1, 3, "table", NoActor),
   Change(7, "guest_contamination", 2, 1, 2, "floor", NoActor),
   Change(8, "temporary_exception", 3, 1, 2, "floor", NoActor)}

MCConfig ==
  {[start |-> 0, duration |-> 4, seed |-> 7, routines |-> MCRoutines, changes |-> changes] :
     changes \in {s \in SUBSET MCChange : Cardinality(s) <= 3}}

MCCoin == {[id \in 1..8 |-> drawn] : drawn \in [0..3 -> {0, 1}]}

PlanOf(changes) ==
  Generated([start |-> 0, duration |-> 2, seed |-> 7, routines |-> MCRoutines, changes |-> changes],
            [id \in 1..8 |-> [day \in 0..3 |-> 0]])

Seen(time, sees) == [time |-> time, sees |-> sees]

(* The first object may be seen on the table, in the box and on the shelf. *)
LookingAt(samples, selection, visible, detect) ==
  [object |-> 1, selection |-> selection, coverage |-> 2, visible |-> visible, detect |-> detect,
   occlusion |-> "clear", strength |-> 1, samples |-> samples, located |-> {"shelf", "table", "box"}]

Samples == <<Seen(0, {"shelf", "table"}), Seen(1, {"box", "table"}), Seen(4, {"box", "shelf"})>>

MCPolicy ==
  {LookingAt(Samples, selection, 2, detect) : selection \in {1, 2}, detect \in {1, 2}}
    \cup {LookingAt(Samples, 2, 1, 1), LookingAt(<<Seen(2, {"shelf"}), Seen(6, {"shelf"})>>, 2, 2, 2),
          [LookingAt(Samples, 1, 2, 2) EXCEPT !.located = {"box"}],
          [LookingAt(Samples, 1, 2, 2) EXCEPT !.coverage = 0]}

MCPlans ==
  {PlanOf({}), PlanOf({Change(1, "abrupt_change", 1, 1, NoDay, "box", NoActor)}),
   PlanOf({Change(1, "abrupt_change", 1, 0, NoDay, "box", NoActor)}),
   PlanOf({Change(1, "abrupt_change", 1, 0, NoDay, "box", NoActor),
           Change(2, "isolated_anomaly", 1, 1, NoDay, "box", NoActor)})}

MCCall ==
  {[kind |-> "ordinary", noise |-> 0, plans |-> <<p, q>>, policies |-> <<policy, policy>>] :
     p, q \in MCPlans, policy \in MCPolicy}
    \cup
  {[kind |-> "paired", noise |-> 0, plans |-> <<p, p>>, policies |-> <<policy, other>>] :
     p \in MCPlans, policy, other \in MCPolicy}

MCScenario ==
  {[duration |-> 2, change |-> 1, control |-> p, shifted |-> 3 - p, detect |-> detect] :
     p \in {1, 2}, detect \in {1, 2}}

Told(household, object, location, context, actors, source, from, weight) ==
  [household |-> household, object |-> object, location |-> location, context |-> context,
   actors |-> actors, source |-> source, from |-> from, weight |-> weight]

MCEvidence ==
  {Told("h1", "cup", l, "day", "ann" :> 2 @@ "bob" :> 0, "direct_observation", "sensor", 2) : l \in {"shelf", "sink", "moon"}}
    \cup
  {Told("h1", "cup", "shelf", "night", "ann" :> 1 @@ "unknown_actor" :> 1, "user_report", "user", 1),
   Told("h1", "cup", "sink", "night", "bob" :> 2, "inferred_event", "inference", 1),
   Told("h1", "cup", "sink", "night", "bob" :> 2, "model_prediction", "model", 2),
   Told("h1", "key", "sink", "day", "ann" :> 1 @@ "bob" :> 1, "direct_observation", "simulation", 2),
   Told("h2", "cup", "sink", "day", "ann" :> 2, "user_report", "import", 2),
   Told("h2", "cup", "sink", "day", "ann" :> 2, "user_report", "sensor", 2)}

MCPrior == [l \in Location |-> IF l = "sink" THEN 2 ELSE 1]

MCWeight == [household |-> 1, person |-> 2, context |-> 1]

PartInit ==
  /\ M02Init /\ CatalogInit /\ HabitInit
  /\ part \in {"identities", "clocks", "frames", "snapshots", "routines", "simulator", "shifts", "habits"}
  /\ IF part = "routines" THEN RoutineInit
     ELSE config = << >> /\ coin = << >> /\ plan = NoPlan
  /\ IF part = "simulator" THEN SimulatorInit
     ELSE call = [kind |-> "none"] /\ stream = {} /\ run = [lane \in Lane |-> NotBegun]
  /\ EvaluatorInit
  /\ IF part = "shifts" THEN ShiftInit
     ELSE scenario = << >> /\ plans = << >> /\ draws = << >> /\ runs = Nothing
          /\ suite = Nothing /\ online = Nothing /\ answers = Nothing

Simulation == <<simulatorVars, evaluatorVars>>

M02Part(name, next) ==
  part = name /\ next /\ UNCHANGED <<catalog, routineVars, Simulation, shiftVars, habitVars>>

PartNext ==
  /\ UNCHANGED part
  /\ \/ M02Part("identities", IdentityRegistryNext)
     \/ M02Part("clocks", ClocksNext)
     \/ M02Part("frames", FramesNext)
     \/ part = "snapshots" /\ CatalogNext
        /\ UNCHANGED <<m02Vars, routineVars, Simulation, shiftVars, habitVars>>
     \/ part = "routines" /\ RoutineNext
        /\ UNCHANGED <<m02Vars, catalog, Simulation, shiftVars, habitVars>>
     \/ part = "simulator" /\ EvaluatorNext
        /\ UNCHANGED <<m02Vars, catalog, routineVars, shiftVars, habitVars>>
     \/ part = "shifts" /\ ShiftNext
        /\ UNCHANGED <<m02Vars, catalog, routineVars, Simulation, habitVars>>
     \/ part = "habits" /\ HabitNext
        /\ UNCHANGED <<m02Vars, catalog, routineVars, Simulation, shiftVars>>

MCSpec ==
  PartInit /\ [][PartNext]_<<part, m02Vars, catalog, routineVars, Simulation, shiftVars, habitVars>>
=============================================================================
