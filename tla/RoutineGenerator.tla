-------------------------- MODULE RoutineGenerator --------------------------
(***************************************************************************)
(* M30: the plan of what happens to the objects of a household.  Every     *)
(* object is put somewhere once a day, where its routine or the changes    *)
(* that apply on that day say.                                             *)
(*                                                                         *)
(* A config is [start, duration, seed, routines, changes]; a routine       *)
(* [object, actor, initial, habitual, slot], where slot is the time of day *)
(* in parts of DayLength; a change [id, kind, object, from, until, target, *)
(* actor, transition, period].  coin[id][day] is what _stable_rng draws    *)
(* for a change on a day, in parts of Unit.                                *)
(***************************************************************************)
EXTENDS Sequences, SequencesExt, Sorting

CONSTANTS
  Config,     \* the configurations that are generated from
  Coin,       \* what the pseudo random draws may be
  DayLength, Unit,
  NoDay,      \* end_day is None
  NoActor     \* actor_override_id is None

ASSUME DayAssumption == DayLength \in Nat \ {0}

(* What the types of a config say, whoever writes it.                      *)
TypedConfig(c) ==
  /\ {"start", "duration", "seed", "routines", "changes"} \subseteq DOMAIN c
  /\ c.start \in Int /\ c.duration \in Int
  /\ IsFiniteSet(ToSet(c.routines))
  /\ \A r \in ToSet(c.routines) : r.object \in Int /\ r.slot \in 0..(DayLength - 1)
  /\ \A change \in c.changes :
       change.from \in Nat /\ (change.until # NoDay => change.until \in Nat)

ASSUME ConfigAssumption == \A c \in Config : TypedConfig(c)

VARIABLES config, coin, plan

routineVars == <<config, coin, plan>>

NoPlan == << >>

RoutineInit == config \in Config /\ coin \in Coin /\ plan = NoPlan

-----------------------------------------------------------------------------
ValidChange(change) ==
  /\ change.until # NoDay => change.from <= change.until
  /\ change.kind = "guest_contamination" => change.actor # NoActor

ValidConfig(c) ==
  /\ c.duration > 0 /\ c.routines # << >>
  /\ \A i, j \in DOMAIN c.routines : c.routines[i].object = c.routines[j].object => i = j
  /\ \A change \in c.changes :
       /\ ValidChange(change)
       /\ \E i \in DOMAIN c.routines : c.routines[i].object = change.object
       /\ change.from < c.duration
  /\ \A a, b \in c.changes : a.id = b.id => a = b

FaultNeverEnds(draws, day, change) ==
  /\ day >= change.from
  /\ CASE change.kind = "isolated_anomaly" -> day = change.from
       [] change.kind = "periodic_context" -> (day - change.from) % change.period = 0
       [] change.kind = "gradual_drift" ->
            draws[change.id][day] * change.transition < Unit * (day - change.from + 1)
       [] OTHER -> TRUE

ChangeApplies(draws, day, change) ==
  /\ day >= change.from
  /\ change.until # NoDay => day <= change.until
  /\ CASE change.kind = "isolated_anomaly" -> day = change.from
       [] change.kind = "periodic_context" -> (day - change.from) % change.period = 0
       [] change.kind = "gradual_drift" ->
            draws[change.id][day] * change.transition < Unit * (day - change.from + 1)
       [] OTHER -> TRUE

(* The changes that apply to an object on a day, in the order they count.  *)
Applied(c, draws, day, object) ==
  LET mine == {x \in c.changes : x.object = object /\ ChangeApplies(draws, day, x)}
  IN  InOrder(mine, [x \in mine |-> <<x.from, x.id>>])

(* The last of the changes that apply says where to and what it is called; *)
(* the last of them that names an actor says who.                          *)
StateUnder(routine, applied) ==
  LET overrides == {i \in DOMAIN applied : applied[i].actor # NoActor}
  IN  [actor |-> IF overrides = {} THEN routine.actor ELSE applied[Max(overrides)].actor,
       destination |-> IF applied = << >> THEN routine.habitual ELSE Last(applied).target,
       regime |-> IF applied = << >> THEN "stationary" ELSE Last(applied).id,
       kind |-> IF applied = << >> THEN "stationary_routine" ELSE Last(applied).kind]

StateForDay(c, draws, day, routine) ==
  StateUnder(routine, Applied(c, draws, day, routine.object))

(* current_locations, when the day's event of the object is made.          *)
CurrentLocation(c, draws, day, routine) ==
  IF day = 0 THEN routine.initial ELSE StateForDay(c, draws, day - 1, routine).destination

PlacedOn(c, draws, day, routine) ==
  LET state == StateForDay(c, draws, day, routine)
  IN  [time |-> c.start + day * DayLength + routine.slot, object |-> routine.object,
       actor |-> state.actor, source |-> CurrentLocation(c, draws, day, routine),
       destination |-> state.destination, regime |-> state.regime, kind |-> state.kind]

EventsOf(c, draws) ==
  {PlacedOn(c, draws, day, r) : day \in 0..(c.duration - 1), r \in ToSet(c.routines)}

(* Events are sorted by time.  Those at one time are sorted by a hash,     *)
(* here by their object.                                                   *)
Generated(c, draws) ==
  LET events == EventsOf(c, draws)
      routine(object) == CHOOSE r \in ToSet(c.routines) : r.object = object
  IN  [start |-> c.start, until |-> c.start + c.duration * DayLength, seed |-> c.seed,
       initial |-> [object \in {r.object : r \in ToSet(c.routines)} |-> routine(object).initial],
       events |-> InOrder(events, [e \in events |-> <<e.time, e.object>>])]

Generate ==
  /\ plan = NoPlan /\ ValidConfig(config)
  /\ plan' = Generated(config, coin)
  /\ UNCHANGED <<config, coin>>

RoutineNext == Generate

RoutineSpec == RoutineInit /\ [][RoutineNext]_routineVars
-----------------------------------------------------------------------------
Temporary == {"isolated_anomaly", "temporary_exception", "guest_contamination"}

Day(event) == (event.time - config.start) \div DayLength

Outside(change, day) ==
  \/ day < change.from
  \/ change.until # NoDay /\ day > change.until
  \/ change.kind = "isolated_anomaly" /\ day # change.from

What(event) ==
  <<event.time, event.object, event.actor, event.destination, event.regime, event.kind>>

Story(events, change) == {What(e) : e \in {x \in ToSet(events) : Outside(change, Day(x))}}

(* An exception leaves no trace: on the days before and after it the       *)
(* object goes where it goes, and by whom, in the plan without it, also    *)
(* where it interrupts another change.                                     *)
ExceptionsPass ==
  plan # NoPlan => \A change \in config.changes : change.kind \in Temporary =>
    LET without == Generated([config EXCEPT !.changes = @ \ {change}], coin)
    IN  Story(plan.events, change) = Story(without.events, change)

(* Objects are taken from where they are: the source of an event is where  *)
(* the last event of the object put it, in the order of the plan.          *)
SourcesChain ==
  plan # NoPlan => \A i \in DOMAIN plan.events :
    LET event   == plan.events[i]
        earlier == {j \in 1..(i - 1) : plan.events[j].object = event.object}
    IN  event.source = IF earlier = {} THEN plan.initial[event.object]
                       ELSE plan.events[Max(earlier)].destination

(* A plan tells one story: exceptions interrupt it and leave no trace in   *)
(* it, and every object is where the story left it.                        *)
PlansAreCoherent == ExceptionsPass /\ SourcesChain
=============================================================================
