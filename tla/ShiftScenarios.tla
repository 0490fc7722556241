--------------------------- MODULE ShiftScenarios ---------------------------
(***************************************************************************)
(* The shift scenarios of the evaluation: households in which, on some     *)
(* day, the robot starts to look more or less often, a guest comes, or the *)
(* owner takes up another habit, simulated with and without it, and the    *)
(* baselines that say which of them it was.                                *)
(*                                                                         *)
(* A scenario is [duration, change, control, shifted, detect]: the days,   *)
(* the day of the change, the probabilities to look before and after it,   *)
(* and to detect.  A day has DayLength parts; the object is put down in    *)
(* the second and looked at in the third.                                  *)
(***************************************************************************)
EXTENDS RoutineGenerator, Simulator

CONSTANTS
  Scenario,
  Track      \* actor_evidence_track

(* What the types of a scenario say; its ids differ, and a day has three   *)
(* parts at least.                                                         *)
ASSUME ScenarioAssumption ==
  /\ \A s \in Scenario : {s.duration, s.change, s.control, s.shifted, s.detect} \subseteq Nat
  /\ 2 < DayLength /\ NoActor \notin {"owner", "guest"} /\ NoLocation \notin {"desk", "sofa"}

VARIABLES
  scenario,
  plans,     \* of the household in which each of the changes happens
  draws,     \* what the pseudo random streams give
  runs,      \* what the simulator returned
  suite,     \* [track, cases], of D0ShiftSuite
  online,    \* the cases of OnlineShiftSuite that this scenario gives
  answers    \* of a baseline, for every case of the suite

shiftVars == <<scenario, plans, draws, runs, suite, online, answers>>

Nothing == << >>

Tablet == 1

-----------------------------------------------------------------------------
ChangeOf(s, kind, actor) ==
  [id |-> 1, kind |-> kind, object |-> Tablet, from |-> s.change, until |-> NoDay,
   target |-> "sofa", actor |-> actor, transition |-> 1, period |-> 1]

GuestComes(s)   == ChangeOf(s, "guest_contamination", "guest")
HabitChanges(s) == ChangeOf(s, "abrupt_change", NoActor)

(* _routine_config.                                                        *)
RoutineConfig(s, changes) ==
  [start |-> 0, duration |-> s.duration, seed |-> 0, changes |-> changes,
   routines |-> <<[object |-> Tablet, actor |-> "owner", initial |-> "desk", habitual |-> "desk",
                   slot |-> 1]>>]

(* None of the changes here is a gradual one.                              *)
PlanWith(s, changes) == Generated(RoutineConfig(s, changes), << >>)

(* _policy: the camera sees the desk and the sofa, once a day.             *)
Looking(s, selection) ==
  [object |-> Tablet, selection |-> selection, coverage |-> Part, visible |-> Part,
   detect |-> s.detect, occlusion |-> "clear", strength |-> 1,
   samples |-> [day \in 1..s.duration |->
                  [time |-> (day - 1) * DayLength + 2, sees |-> {"desk", "sofa"}]],
   located |-> {"desk", "sofa"}]

(* The calls of run_paired, with the policies before and after the change, *)
(* and of run, with the one before it.                                     *)
CallOf(s, kind, plan_) ==
  [kind |-> kind, noise |-> 1, plans |-> <<plan_, plan_>>,
   policies |-> <<Looking(s, s.control),
                  Looking(s, IF kind = "paired" THEN s.shifted ELSE s.control)>>]

(* _run_with_observation_stream, for a stream that is known: what          *)
(* Simulator.Sample does for one sample after the other.                   *)
Simulated(c, lane) ==
  LET policy  == c.policies[lane]
      drawn   == draws[StreamId(c, lane)]
      seen(k) == Opportunity(c, lane, k, drawn[2 * k - 1] < policy.selection)
      views   == [k \in DOMAIN policy.samples |-> seen(k)]
  IN  [opportunities |-> views,
       results |-> [k \in DOMAIN policy.samples |->
                      Result(c, lane, views[k], policy.samples[k], drawn[2 * k])]]

Ordinary(cause)     == runs[<<"ordinary", cause, 1>>]
Paired(cause, lane) == runs[<<"paired", cause, lane>>]

ChangeTime(s) == s.change * DayLength

(* The members of a list at some places, in their order.                   *)
Those(list, places) ==
  LET order == InOrder(places, [k \in places |-> <<k, 0>>])
  IN  [k \in DOMAIN order |-> list[order[k]]]

(* What a run told before some time, and what from then on.                *)
Before(seen, time) ==
  [opportunities |-> Those(seen.opportunities,
                           {k \in DOMAIN seen.opportunities : seen.opportunities[k].time < time}),
   results |-> Those(seen.results, {k \in DOMAIN seen.results : seen.results[k].recorded < time})]

Since(seen, time) ==
  [opportunities |-> Those(seen.opportunities,
                           {k \in DOMAIN seen.opportunities : seen.opportunities[k].time >= time}),
   results |-> Those(seen.results, {k \in DOMAIN seen.results : seen.results[k].recorded >= time})]

(* _splice_visible_run.                                                    *)
Spliced(before, after, time) ==
  [opportunities |-> Before(before, time).opportunities \o Since(after, time).opportunities,
   results |-> Before(before, time).results \o Since(after, time).results]

(* _actor_evidence.                                                        *)
ActorEvidence(simulated, actor, track, time) ==
  IF track = "none" THEN {}
  ELSE {[detection |-> r, named |-> actor, track |-> track] :
          r \in {x \in ToSet(simulated.results) : x.outcome = "detected" /\ x.recorded >= time}}

Cited(evidence, seen) == {e \in evidence : e.detection \in ToSet(seen.results)}

(* _actor_posterior, in tenths.                                            *)
Posterior(evidence, actor) ==
  IF evidence.track = "oracle" THEN IF evidence.named = actor THEN 10 ELSE 0
  ELSE IF evidence.named = actor THEN 8 ELSE 1

-----------------------------------------------------------------------------
ActorFactor(config_) ==
  <<[i \in DOMAIN config_.routines |-> config_.routines[i].actor],
    {<<x.object, x.from, x.until, x.actor>> : x \in {y \in config_.changes : y.actor # NoActor}}>>

OwnerHabitFactor(config_) ==
  <<[i \in DOMAIN config_.routines |-> <<config_.routines[i].actor, config_.routines[i].habitual>>],
    {<<x.kind, x.object, x.from, x.until, x.target>> : x \in {y \in config_.changes : y.actor = NoActor}}>>

(* _factor_fingerprints; identities and noise are the same in all cases.   *)
Factors(config_, before, after) ==
  [observation_process |-> <<before, after>>, actor_mixture |-> ActorFactor(config_),
   owner_habit_regime |-> OwnerHabitFactor(config_)]

FactorOf(cause) ==
  CASE cause = "observation_policy" -> "observation_process"
    [] cause = "actor_mixture" -> "actor_mixture"
    [] cause = "owner_habit_regime" -> "owner_habit_regime"

Cause == {"observation_policy", "actor_mixture", "owner_habit_regime"}

Changes(s, cause) ==
  CASE cause = "observation_policy" -> {}
    [] cause = "actor_mixture" -> {GuestComes(s)}
    [] cause = "owner_habit_regime" -> {HabitChanges(s)}

(* _build_case.                                                            *)
CaseOf(s, cause, track) ==
  LET watched  == cause = "observation_policy"
      control  == IF watched THEN Paired(cause, 1) ELSE Ordinary("observation_policy")
      after    == IF watched THEN Paired(cause, 2) ELSE Ordinary(cause)
      shifted  == IF watched THEN Spliced(control, after, ChangeTime(s)) ELSE after
      actor    == IF cause = "actor_mixture" THEN "guest" ELSE "owner"
      evidence == ActorEvidence(after, actor, track, ChangeTime(s))
      unknown  == track = "none" /\ ~ watched
  IN  [time |-> ChangeTime(s), cause |-> cause,
       control |-> control, shifted |-> shifted,
       controlEvidence |-> ActorEvidence(control, "owner", track, ChangeTime(s)),
       shiftedEvidence |-> IF watched THEN Cited(evidence, shifted) ELSE evidence,
       identifiable |-> ~ unknown,
       accepted |-> IF unknown THEN {"actor_mixture", "owner_habit_regime"} ELSE {cause},
       controlFactors |-> Factors(RoutineConfig(s, {}), s.control, s.control),
       shiftedFactors |-> Factors(RoutineConfig(s, Changes(s, cause)), s.control,
                                  IF watched THEN s.shifted ELSE s.control)]

(* D0VisibleSimulationRun, D0ShiftCaseInput and D0ShiftCaseTruth.          *)
ValidVisible(seen) ==
  /\ \A i, j \in DOMAIN seen.opportunities :
       seen.opportunities[i].id = seen.opportunities[j].id => i = j
  /\ \A i, j \in DOMAIN seen.results : seen.results[i] = seen.results[j] => i = j
  /\ {o.id : o \in ToSet(seen.opportunities)} = {r.opportunity : r \in ToSet(seen.results)}
  /\ Len(seen.results) = Len(seen.opportunities)

Sessions(seen) == {o.id[1] : o \in ToSet(seen.opportunities)}

ValidEvidenceFor(evidence, seen) ==
  \A e \in evidence : e.detection \in ToSet(seen.results) /\ e.detection.outcome = "detected"

ValidCase(case) ==
  /\ ValidVisible(case.control) /\ ValidVisible(case.shifted)
  /\ ValidEvidenceFor(case.controlEvidence, case.control)
  /\ ValidEvidenceFor(case.shiftedEvidence, case.shifted)
  /\ Sessions(case.control) = Sessions(case.shifted) /\ Cardinality(Sessions(case.control)) = 1
  /\ {f \in DOMAIN case.controlFactors : case.controlFactors[f] # case.shiftedFactors[f]}
       = {FactorOf(case.cause)}

(* OnlineShiftFamily and its causes.                                       *)
Families ==
  {{"observation_policy"}, {"actor_mixture"}, {"owner_habit_regime"},
   {"observation_policy", "actor_mixture"}, {"observation_policy", "owner_habit_regime"}}

ActorAfter(causes) == IF "actor_mixture" \in causes THEN "guest" ELSE "owner"

(* OnlineShiftSuiteGenerator._case and _combination_stream.                *)
OnlineCase(s, causes) ==
  IF Cardinality(causes) = 1
  THEN LET case == CaseOf(s, CHOOSE x \in causes : TRUE, "controlled_noise")
       IN  [causes |-> causes, seen |-> case.shifted, evidence |-> case.shiftedEvidence]
  ELSE LET change == IF "actor_mixture" \in causes THEN "actor_mixture" ELSE "owner_habit_regime"
           after  == Paired(change, 2)
           seen   == Spliced(Paired(change, 1), after, ChangeTime(s))
       IN  [causes |-> causes, seen |-> seen,
            evidence |-> Cited(ActorEvidence(after, ActorAfter(causes), "controlled_noise", ChangeTime(s)),
                               seen)]

-----------------------------------------------------------------------------
Propensities(seen) == [k \in DOMAIN seen.opportunities |-> seen.opportunities[k].selection]

LocationCounts(seen, time) ==
  [location \in {"desk", "sofa"} |->
     Cardinality({k \in DOMAIN seen.results :
                    seen.results[k].recorded >= time /\ seen.results[k].location = location})]

(* _actor_mixture_changed.                                                 *)
ActorsChanged(evidence) ==
  LET Mass(actor) == SumFunction([e \in evidence |-> Posterior(e, actor)])
  IN  Mass("guest") > Mass("owner")

FaultLocationFirst(case, minds) ==
  CASE Propensities(case.control) # Propensities(case.shifted) -> "observation_policy"
    [] OTHER ->
         CASE LocationCounts(case.control, case.time) # LocationCounts(case.shifted, case.time) ->
                "owner_habit_regime"
           [] OTHER ->
                IF minds /\ ActorsChanged(case.shiftedEvidence) THEN "actor_mixture" ELSE "unresolved"

(* LoggedPolicyThenLocationBaseline, and LoggedPolicyActorLocationBaseline *)
(* where it minds actors.                                                  *)
Attributed(case, minds) ==
  CASE Propensities(case.control) # Propensities(case.shifted) -> "observation_policy"
    [] OTHER ->
         CASE minds /\ ActorsChanged(case.shiftedEvidence) -> "actor_mixture"
           [] OTHER ->
                IF LocationCounts(case.control, case.time) # LocationCounts(case.shifted, case.time)
                THEN "owner_habit_regime" ELSE "unresolved"

(* ShiftAttributionEvaluator: what its rates count.                        *)
CountedAs(cases, given) ==
  LET covered == {c \in DOMAIN cases : given[c] # "unresolved"}
  IN  [covered |-> Cardinality(covered),
       errors |-> Cardinality({c \in covered : given[c] \notin cases[c].accepted}),
       falseHabits |-> Cardinality({c \in covered : /\ given[c] = "owner_habit_regime"
                                                    /\ cases[c].cause # "owner_habit_regime"}),
       rightAbstentions |-> Cardinality({c \in DOMAIN cases \ covered : ~ cases[c].identifiable})]

-----------------------------------------------------------------------------
ValidScenario(s) == 0 < s.change /\ s.change < s.duration /\ s.control # s.shifted

Kind == {"ordinary", "paired"}

(* The streams that some run of the scenario draws from.                   *)
Streams(s, planOf) ==
  {StreamId(CallOf(s, kind, planOf[cause]), 1) : kind \in Kind, cause \in Cause}

ShiftInit ==
  /\ scenario \in {s \in Scenario : ValidScenario(s)}
  /\ plans = [cause \in Cause |-> PlanWith(scenario, Changes(scenario, cause))]
  /\ draws \in [Streams(scenario, plans) -> [1..(2 * scenario.duration) -> Draw]]
  /\ runs = Nothing /\ suite = Nothing /\ online = Nothing /\ answers = Nothing

Simulate ==
  /\ runs = Nothing
  /\ runs' = [r \in Kind \X Cause \X Lane |-> Simulated(CallOf(scenario, r[1], plans[r[2]]), r[3])]
  /\ UNCHANGED <<scenario, plans, draws, suite, online, answers>>

(* D0ShiftScenarioGenerator.generate; a case that is invalid raises.       *)
GenerateSuite(track) ==
  /\ runs # Nothing /\ suite = Nothing /\ online = Nothing
  /\ suite' = [track |-> track, cases |-> [cause \in Cause |-> CaseOf(scenario, cause, track)]]
  /\ UNCHANGED <<scenario, plans, draws, runs, online, answers>>

GenerateOnline ==
  /\ runs # Nothing /\ online = Nothing /\ suite = Nothing
  /\ online' = [causes \in Families |-> OnlineCase(scenario, causes)]
  /\ UNCHANGED <<scenario, plans, draws, runs, suite, answers>>

Attribute(minds) ==
  /\ suite # Nothing /\ answers = Nothing
  /\ answers' = [minds |-> minds,
                 given |-> [cause \in Cause |-> Attributed(suite.cases[cause], minds)]]
  /\ UNCHANGED <<scenario, plans, draws, runs, suite, online>>

ShiftNext ==
  \/ Simulate
  \/ \E track \in Track : GenerateSuite(track)
  \/ GenerateOnline
  \/ \E minds \in BOOLEAN : Attribute(minds)

ShiftSpec == ShiftInit /\ [][ShiftNext]_shiftVars
-----------------------------------------------------------------------------
(* No case that is generated fails its own validation: a pair differs in   *)
(* the factor that its cause names and in no other.                        *)
EveryCaseIsBuilt ==
  suite # Nothing => \A cause \in Cause : ValidCase(suite.cases[cause])

(* A pair does not give the change away before it happens: until then the  *)
(* robot is told the same in both runs.                                    *)
PairsAgreeBeforeTheChange ==
  suite # Nothing => \A cause \in Cause :
    LET case == suite.cases[cause]
    IN  Before(case.control, case.time) = Before(case.shifted, case.time)

(* Cases that are labelled as not identifiable are: without evidence of    *)
(* actors a guest's and the owner's change look the same.                  *)
WithoutActorsTheyLookAlike ==
  (suite # Nothing /\ suite.track = "none") =>
    /\ suite.cases["actor_mixture"].control = suite.cases["owner_habit_regime"].control
    /\ suite.cases["actor_mixture"].shifted = suite.cases["owner_habit_regime"].shifted

LastMover(cause, time) == Latest(MovesUntil(plans[cause], Tablet, time)).actor

(* Evidence of actors is right: it names who put the object where it was   *)
(* detected.                                                               *)
EvidenceNamesWhoMovedIt ==
  suite # Nothing => \A cause \in Cause : \A e \in suite.cases[cause].shiftedEvidence :
    e.named = LastMover(cause, e.detection.recorded)

(* Minding actors, the owner is never blamed for a guest or a policy: the  *)
(* baseline is right about every case or does not say, and it abstains     *)
(* only where nothing was detected after the change.                       *)
ActorEvidenceEndsLeakage ==
  (answers # Nothing /\ answers.minds /\ suite.track # "none") =>
    /\ LET counted == CountedAs(suite.cases, answers.given)
       IN  counted.errors = 0 /\ counted.falseHabits = 0
    /\ \A cause \in Cause : answers.given[cause] = "unresolved" =>
         \A r \in ToSet(suite.cases[cause].shifted.results) :
           r.recorded >= suite.cases[cause].time => r.outcome # "detected"

(* What a method can make use of: the ids of records say nothing.          *)
Input(case) ==
  LET seen == case.seen
      Fact(r) == <<r.outcome, r.location, r.recorded>>
  IN  [views |-> [k \in DOMAIN seen.opportunities |-> [seen.opportunities[k] EXCEPT !.id = k]],
       results |-> [k \in DOMAIN seen.results |-> Fact(seen.results[k])],
       actors |-> {<<Fact(e.detection), e.named>> : e \in case.evidence}]

(* Different causes tell a method different things, unless nothing was     *)
(* detected since the change.                                              *)
SameInputSameCauses ==
  online # Nothing => \A a, b \in Families :
    Input(online[a]) = Input(online[b]) =>
      \/ a = b
      \/ \A r \in ToSet(online[a].seen.results) :
           r.recorded >= ChangeTime(scenario) => r.outcome # "detected"

(* The cases pose the question they are labelled with: both runs of a pair *)
(* agree until the change and differ in one factor, evidence of actors is  *)
(* right, and what is called indistinguishable is, while what is not is    *)
(* told apart by the baseline that minds actors, and by its input alone.   *)
CasesPoseTheirQuestion ==
  /\ EveryCaseIsBuilt /\ PairsAgreeBeforeTheChange /\ EvidenceNamesWhoMovedIt
  /\ WithoutActorsTheyLookAlike /\ ActorEvidenceEndsLeakage /\ SameInputSameCauses
=============================================================================
