------------------------------ MODULE Simulator ------------------------------
(***************************************************************************)
(* M29: what a robot sees of a household while it goes about its task.     *)
(* Two runs are simulated one after the other, because what matters        *)
(* relates two of them:                                                    *)
(*   ordinary   two calls of run, each with a plan and a policy;           *)
(*   paired     run_paired, one plan under two policies.                   *)
(* A run draws from a pseudo random stream that an id seeds: runs with the *)
(* same id draw the same, in the same order, and others anything.          *)
(*                                                                         *)
(* A policy is [object, selection, coverage, visible, detect, occlusion,   *)
(* strength, samples, located]: probabilities in parts of Part; a sample   *)
(* is [time, sees], with the locations in the frustum of the camera, and   *)
(* located are those whose geometry is known.  A plan is one of module     *)
(* RoutineGenerator; until is when it ends.                                *)
(***************************************************************************)
EXTENDS Integers, Sequences, FiniteSets, SequencesExt

CONSTANTS
  Call,       \* [kind, noise, plans, policies], the last two for each run
  Draw,       \* what random() returns, in parts of Part
  Part,
  NoLocation

(* The events of an object up to some time, and the latest of some events. *)
MovesUntil(plan, object, t) == {e \in ToSet(plan.events) : e.object = object /\ e.time <= t}

Latest(events) == CHOOSE e \in events : \A other \in events : other.time <= e.time

(* Plans are made by the routine generator: an object is moved by one      *)
(* event at a time, which takes it from where the last one put it.         *)
Chained(plan) ==
  \A e \in ToSet(plan.events) :
    LET before == {f \in ToSet(plan.events) : f.object = e.object /\ f.time < e.time}
    IN  /\ e.time \in Int
        /\ e.source = IF before = {} THEN plan.initial[e.object] ELSE Latest(before).destination
        /\ \A f \in ToSet(plan.events) : f.object = e.object /\ f.time = e.time => f = e

(* What the types of a policy say.                                         *)
TypedPolicy(policy) ==
  /\ DOMAIN policy = {"object", "selection", "coverage", "visible", "detect", "occlusion",
                      "strength", "samples", "located"}
  /\ {policy.selection, policy.coverage, policy.visible, policy.detect, policy.strength} \subseteq Nat
  /\ NoLocation \notin policy.located
  /\ policy.samples \in Seq(ToSet(policy.samples))
  /\ \A sample \in ToSet(policy.samples) : sample.time \in Int

ASSUME CallAssumption ==
  \A c \in Call : \A lane \in {1, 2} : Chained(c.plans[lane]) /\ TypedPolicy(c.policies[lane])

ASSUME PartAssumption == Part \in Nat \ {0} /\ Draw \subseteq Nat

VARIABLES
  call,
  stream,     \* what was drawn: <<id of the stream, position, value>>
  run         \* of each run: [pc, drawn, opportunities, results]

simulatorVars == <<call, stream, run>>

Lane == {1, 2}

NotBegun == [pc |-> "begin", drawn |-> 0, opportunities |-> << >>, results |-> << >>]

-----------------------------------------------------------------------------
ValidPolicy(policy) ==
  /\ policy.selection > 0 /\ policy.strength > 0
  /\ policy.occlusion = "full" => policy.visible = 0
  /\ policy.samples # << >>
  /\ \A i, j \in DOMAIN policy.samples : i < j => policy.samples[i].time < policy.samples[j].time

ScheduleSignature(policy) ==
  [object |-> policy.object, samples |-> policy.samples, located |-> policy.located]

(* run and run_paired: the inputs are validated again, and policies that   *)
(* are paired share their schedule.                                        *)
CanRun(c) ==
  /\ \A lane \in Lane : ValidPolicy(c.policies[lane])
  /\ c.kind = "paired" =>
       /\ c.plans[1] = c.plans[2]
       /\ ScheduleSignature(c.policies[1]) = ScheduleSignature(c.policies[2])

SimulatorInit ==
  /\ call \in {c \in Call : CanRun(c)}
  /\ stream = {}
  /\ run = [lane \in Lane |-> NotBegun]

(* The pseudo random stream: the plan is no part of what seeds it.         *)
StreamId(c, lane) ==
  LET plan == c.plans[lane]
  IN  IF c.kind = "paired"
      THEN <<"paired", plan.start, plan.until, c.noise, ScheduleSignature(c.policies[lane])>>
      ELSE <<"ordinary", plan.start, plan.until, plan.seed, c.policies[lane]>>

(* simulation_run_identity: what everybody may know of a run.              *)
RunId(c, lane) ==
  LET plan == c.plans[lane]
  IN  <<c.policies[lane], plan.start, plan.until, plan.seed, plan.initial[c.policies[lane].object]>>

LocationAt(plan, object, t) ==
  LET moves == MovesUntil(plan, object, t)
  IN  IF moves = {} THEN plan.initial[object] ELSE Latest(moves).destination

InFrustum(policy, sample, location) == location \in policy.located /\ location \in sample.sees

FaultLeaksGeometry(policy, sample, location) ==
  IF InFrustum(policy, sample, location) THEN policy.coverage * policy.visible ELSE 0

(* p_visible_given_state of an opportunity: a property of the opportunity, *)
(* whatever there is to be seen.                                           *)
PotentialVisibility(policy, sample, location) == policy.coverage * policy.visible

(* simulate_location_observation.                                          *)
Outcome(policy, selected, strength, present, draw) ==
  CASE ~ selected -> "not_observed"
    [] selected /\ strength < policy.strength * Part * Part -> "ambiguous"
    [] selected /\ strength >= policy.strength * Part * Part ->
         IF present /\ draw * Part * Part < strength THEN "detected" ELSE "verified_absence"

FaultDrawsOnDemand(selected) == IF selected THEN 2 ELSE 1

(* Both numbers of a sample are drawn, also when the first one decides.    *)
DrawsPerSample(selected) == 2

Opportunity(c, lane, k, selected) ==
  LET policy == c.policies[lane]
      sample == policy.samples[k]
  IN  [id |-> <<StreamId(c, lane), k>>, time |-> sample.time, selected |-> selected,
       selection |-> policy.selection, detect |-> policy.detect,
       visible |-> PotentialVisibility(policy, sample, LocationAt(c.plans[lane], policy.object, sample.time))]

(* What is realized is told of a detection only.                           *)
Result(c, lane, opportunity, sample, draw) ==
  LET policy   == c.policies[lane]
      location == LocationAt(c.plans[lane], policy.object, sample.time)
      strength == opportunity.visible * opportunity.detect
      present  == InFrustum(policy, sample, location) /\ policy.coverage > 0
      outcome  == Outcome(policy, opportunity.selected, strength, present, draw)
  IN  [opportunity |-> opportunity.id, outcome |-> outcome, recorded |-> sample.time,
       location |-> IF outcome = "detected" THEN location ELSE NoLocation,
       strength |-> IF outcome = "verified_absence" THEN strength ELSE 0]

(* SymbolicSimulationResult and what it consists of.                       *)
ValidResult(opportunities, results) ==
  /\ DOMAIN opportunities = DOMAIN results
  /\ \A i, j \in DOMAIN opportunities : opportunities[i].id = opportunities[j].id => i = j
  /\ \A i \in DOMAIN results :
       /\ results[i].opportunity = opportunities[i].id
       /\ results[i].recorded = opportunities[i].time
       /\ (results[i].outcome = "not_observed") <=> ~ opportunities[i].selected
       /\ (results[i].outcome = "detected") <=> (results[i].location # NoLocation)
       /\ (results[i].outcome = "verified_absence") <=> (results[i].strength > 0)

-----------------------------------------------------------------------------
Turn(lane) == lane = 1 \/ run[1].pc \notin {"begin", "sampling"}

Begin(lane) ==
  LET plan   == call.plans[lane]
      policy == call.policies[lane]
      known  == policy.object \in DOMAIN plan.initial /\ plan.initial[policy.object] \in policy.located
  IN  /\ run[lane].pc = "begin" /\ Turn(lane)
      /\ run' = [run EXCEPT ![lane].pc = IF known THEN "sampling" ELSE "raised"]
      /\ UNCHANGED <<call, stream>>

Drawn(id, position, value) ==
  \A d \in stream : (d[1] = id /\ d[2] = position) => d[3] = value

Sample(lane, u, v) ==
  LET now    == run[lane]
      k      == Len(now.results) + 1
      plan   == call.plans[lane]
      policy == call.policies[lane]
      id     == StreamId(call, lane)
      opportunity == Opportunity(call, lane, k, u < policy.selection)
      used   == DrawsPerSample(u < policy.selection)
  IN  /\ now.pc = "sampling" /\ k <= Len(policy.samples)
      /\ plan.start <= policy.samples[k].time /\ policy.samples[k].time < plan.until
      /\ Drawn(id, now.drawn + 1, u) /\ Drawn(id, now.drawn + used, IF used = 2 THEN v ELSE u)
      /\ stream' = stream \cup {<<id, now.drawn + 1, u>>, <<id, now.drawn + used, IF used = 2 THEN v ELSE u>>}
      /\ run' = [run EXCEPT ![lane] =
                   [now EXCEPT !.drawn = @ + used,
                               !.opportunities = Append(@, opportunity),
                               !.results = Append(@, Result(call, lane, opportunity, policy.samples[k], v))]]
      /\ UNCHANGED call

(* A sample before the plan begins or after it ends.                       *)
SampleOutside(lane) ==
  LET k      == Len(run[lane].results) + 1
      plan   == call.plans[lane]
      policy == call.policies[lane]
  IN  /\ run[lane].pc = "sampling" /\ k <= Len(policy.samples)
      /\ ~ (plan.start <= policy.samples[k].time /\ policy.samples[k].time < plan.until)
      /\ run' = [run EXCEPT ![lane].pc = "raised"]
      /\ UNCHANGED <<call, stream>>

Finish(lane) ==
  LET now == run[lane]
  IN  /\ now.pc = "sampling" /\ Len(now.results) = Len(call.policies[lane].samples)
      /\ run' = [run EXCEPT ![lane].pc =
                   IF ValidResult(now.opportunities, now.results) THEN "returned" ELSE "rejected"]
      /\ UNCHANGED <<call, stream>>

SimulatorNext ==
  \E lane \in Lane :
    \/ Begin(lane) \/ SampleOutside(lane) \/ Finish(lane)
    \/ \E u, v \in Draw : Sample(lane, u, v)

SimulatorSpec == SimulatorInit /\ [][SimulatorNext]_simulatorVars
-----------------------------------------------------------------------------
(* The samples that both runs have taken.                                  *)
Both == DOMAIN run[1].results \cap DOMAIN run[2].results

Past(lane, k) ==
  MovesUntil(call.plans[lane], call.policies[lane].object, call.policies[lane].samples[k].time)

(* Two runs that look the same from outside tell apart what happened in    *)
(* the household by a detection only, and never what is yet to happen:     *)
(* their opportunities are the same, and so are their results while the    *)
(* object was moved alike or nobody saw it.                                *)
NothingUnseenIsTold ==
  (call.kind = "ordinary" /\ RunId(call, 1) = RunId(call, 2)) =>
    \A k \in Both :
      /\ run[1].opportunities[k] = run[2].opportunities[k]
      /\ \/ run[1].results[k] = run[2].results[k]
         \/ /\ Past(1, k) # Past(2, k)
            /\ \E lane \in Lane : run[lane].results[k].outcome = "detected"

SelectionOnly(p) == [p EXCEPT !.selection = 1]

(* Paired runs differ by their policies and by nothing else: looking more  *)
(* often adds observations, and leaves those that are made either way as   *)
(* they are.                                                               *)
PairedRunsNest ==
  (/\ call.kind = "paired"
   /\ SelectionOnly(call.policies[1]) = SelectionOnly(call.policies[2])) =>
    \A k \in Both : \A lane \in Lane :
      (/\ call.policies[lane].selection <= call.policies[3 - lane].selection
       /\ run[lane].opportunities[k].selected) =>
        run[lane].results[k] = run[3 - lane].results[k]

(* The simulator never fails its own validation: who is not selected sees  *)
(* nothing, and an absence that is verified has evidence for it.           *)
ResultsAreValid == \A lane \in Lane : run[lane].pc # "rejected"

(* What is detected is true: it is where the camera looks, and where the   *)
(* next event of the plan takes the object from.                           *)
DetectionsAreTrue ==
  \A lane \in Lane : \A k \in DOMAIN run[lane].results :
    LET result == run[lane].results[k]
        policy == call.policies[lane]
        later  == {e \in ToSet(call.plans[lane].events) :
                     e.object = policy.object /\ e.time > policy.samples[k].time}
    IN  result.outcome = "detected" =>
          /\ result.location \in policy.samples[k].sees
          /\ \A e \in later : (\A f \in later : e.time <= f.time) => e.source = result.location

(* What the robot is told is what it saw, no more and no less: only true   *)
(* detections and verified absences, nothing of what it did not see, and   *)
(* every run gets through to its end.                                      *)
OnlySightTells == NothingUnseenIsTold /\ DetectionsAreTrue /\ ResultsAreValid
=============================================================================
