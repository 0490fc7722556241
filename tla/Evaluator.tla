------------------------------ MODULE Evaluator ------------------------------
(***************************************************************************)
(* M32: the evaluation of simulated runs against what happened.  A         *)
(* manifest of M31 says what is evaluated; it is made for the first run,   *)
(* and both runs are then submitted with their ground truth, as            *)
(* run_privileged returns it.                                              *)
(***************************************************************************)
EXTENDS Simulator

CONSTANTS
  Person, Object, Place,  \* what the manifest lists
  MaxDelay,               \* session_duration_hours
  Budget                  \* max_selected_observation_actions

(* The events of a plan are a list.                                        *)
ASSUME EventsAssumption ==
  \A c \in Call : \A lane \in Lane : c.plans[lane].events \in Seq(ToSet(c.plans[lane].events))

VARIABLES manifest, reports

evaluatorVars == <<manifest, reports>>

NoManifest == << >>
NoReport   == << >>
Refused    == [refused |-> TRUE]

EvaluatorInit == manifest = NoManifest /\ reports = [lane \in Lane |-> NoReport]

-----------------------------------------------------------------------------
(* _REGIME_MAP.                                                            *)
Regime(kind) ==
  CASE kind = "stationary_routine" -> "stable"
    [] kind = "periodic_context" -> "contextual"
    [] kind \in {"isolated_anomaly", "temporary_exception", "guest_contamination"} ->
         "temporary_exception"
    [] kind = "gradual_drift" -> "gradual_change"
    [] kind \in {"abrupt_change", "household_transition"} -> "abrupt_change"

(* _ground_truth_for_plan.                                                 *)
Truth(lane) ==
  {[time |-> e.time, actor |-> e.actor, object |-> e.object, source |-> e.source,
    destination |-> e.destination, regime |-> Regime(e.kind)] : e \in ToSet(call.plans[lane].events)}

(* What simulation_content_sha256 is the hash of.                          *)
Content(lane) ==
  <<RunId(call, lane), run[lane].opportunities, run[lane].results>>

Selected(lane) == Cardinality({k \in DOMAIN run[lane].opportunities : run[lane].opportunities[k].selected})

Listed(lane) ==
  \A e \in Truth(lane) :
    /\ e.actor \in Person /\ e.object \in Object /\ {e.source, e.destination} \subseteq Place
    /\ call.plans[lane].start <= e.time /\ e.time < call.plans[lane].until

(* _validate_manifest_binding.                                             *)
Bound(lane) ==
  /\ manifest.plan = call.plans[lane] /\ manifest.policy = call.policies[lane]
  /\ manifest.content = Content(lane)
  /\ Listed(lane) /\ Selected(lane) <= Budget

(* The detections among the results, in the order of time as these are.    *)
Detections(lane) == {k \in DOMAIN run[lane].results : run[lane].results[k].outcome = "detected"}

(* A detection may be of an event that put the object there not long ago.  *)
Eligible(lane, detection, event) ==
  /\ event.object = call.policies[lane].object
  /\ event.destination = detection.location
  /\ event.time <= detection.recorded /\ detection.recorded - event.time <= MaxDelay

Earliest(events) == CHOOSE e \in events : \A other \in events : e.time <= other.time

GivenTo(d, event, given) ==
  [e \in DOMAIN given \cup {event} |-> IF e = event THEN d ELSE given[e]]

(* augment, from what was visited and a detection: gives the detection the *)
(* next event that was not visited, taking it from another detection if    *)
(* that one finds an event elsewhere.                                      *)
Augment(eligible, given, truth) ==
  LET augment[from \in (SUBSET truth) \X DOMAIN eligible] ==
        LET rest   == eligible[from[2]] \ from[1]
            event  == Earliest(rest)
            seen   == from[1] \cup {event}
            moving == IF event \in DOMAIN given THEN augment[<<seen, given[event]>>]
                      ELSE [found |-> TRUE, visited |-> seen, given |-> given]
        IN  IF rest = {} THEN [found |-> FALSE, visited |-> from[1], given |-> given]
            ELSE IF moving.found THEN [moving EXCEPT !.given = GivenTo(from[2], event, @)]
            ELSE augment[<<moving.visited, from[2]>>]
  IN  augment

(* Each detection has its turn; last is the last of them.                  *)
AllGiven(eligible, truth, last) ==
  LET given[k \in 0..last] ==
        IF k = 0 THEN << >>
        ELSE IF k \in DOMAIN eligible THEN Augment(eligible, given[k - 1], truth)[<<{}, k>>].given
        ELSE given[k - 1]
  IN  given[last]

(* eligible_truth_indices.                                                 *)
EligibleFor(lane, truth) ==
  [d \in Detections(lane) |-> {e \in truth : Eligible(lane, run[lane].results[d], e)}]

(* _match_unique_truth_events: the events that are given a detection.      *)
Matched(lane, truth) == DOMAIN AllGiven(EligibleFor(lane, truth), truth, Len(run[lane].results))

Scored(lane)    == {e \in Truth(lane) : e.object = call.policies[lane].object}
Anomalies(lane) == {e \in Scored(lane) : e.regime = "temporary_exception"}

(* Anomalies are matched on their own.                                     *)
MatchedAnomalies(lane) == Matched(lane, Anomalies(lane))

(* The recalls, each as the number found and the number there is, and the  *)
(* number of views that the cost is declared for.                          *)
Report(lane) ==
  [recall |-> <<Cardinality(Matched(lane, Scored(lane))), Cardinality(Scored(lane))>>,
   anomalies |-> <<Cardinality(MatchedAnomalies(lane)), Cardinality(Anomalies(lane))>>,
   views |-> Selected(lane)]

Prepare ==
  /\ manifest = NoManifest /\ call.kind = "ordinary" /\ run[1].pc = "returned"
  /\ manifest' = [plan |-> call.plans[1], policy |-> call.policies[1], content |-> Content(1)]
  /\ UNCHANGED <<simulatorVars, reports>>

Evaluate(lane) ==
  /\ manifest # NoManifest /\ run[lane].pc = "returned" /\ reports[lane] = NoReport
  /\ reports' = [reports EXCEPT ![lane] = IF Bound(lane) THEN Report(lane) ELSE Refused]
  /\ UNCHANGED <<simulatorVars, manifest>>

EvaluatorNext ==
  \/ SimulatorNext /\ UNCHANGED evaluatorVars
  \/ Prepare
  \/ \E lane \in Lane : Evaluate(lane)

EvaluatorSpec == SimulatorInit /\ EvaluatorInit /\ [][EvaluatorNext]_<<simulatorVars, evaluatorVars>>
-----------------------------------------------------------------------------
(* How many of the events can be told apart by one detection each.         *)
MostFound(lane, truth) ==
  LET Can(S) == \E f \in [S -> Detections(lane)] :
                  /\ \A e \in S : Eligible(lane, run[lane].results[f[e]], e)
                  /\ \A e, o \in S : f[e] = f[o] => e = o
  IN  CHOOSE n \in 0..Cardinality(truth) :
        /\ \E S \in SUBSET truth : Cardinality(S) = n /\ Can(S)
        /\ \A S \in SUBSET truth : Can(S) => Cardinality(S) <= n

(* The recalls count as many events as detections can be told to be of,    *)
(* each detection of one, and anomalies are not undercounted because a     *)
(* detection was counted for an ordinary event.                            *)
RecallsAreLargest ==
  \A lane \in Lane : reports[lane] \notin {NoReport, Refused} =>
    /\ reports[lane].recall[1] = MostFound(lane, Scored(lane))
    /\ reports[lane].anomalies[1] = MostFound(lane, Anomalies(lane))

(* One manifest gives one score: a run that saw the same while something   *)
(* else happened is not scored under it.                                   *)
OneManifestOneScore ==
  (/\ reports[1] \notin {NoReport, Refused}
   /\ reports[2] \notin {NoReport, Refused}) => reports[1] = reports[2]

(* Who looks more often in paired runs recalls no less of what happened.   *)
LookingMoreFindsNoLess ==
  (/\ call.kind = "paired" /\ \A lane \in Lane : run[lane].pc = "returned"
   /\ SelectionOnly(call.policies[1]) = SelectionOnly(call.policies[2])) =>
    \A lane \in Lane :
      call.policies[lane].selection <= call.policies[3 - lane].selection =>
        Cardinality(Matched(lane, Scored(lane))) <= Cardinality(Matched(3 - lane, Scored(3 - lane)))

(* Scores can be compared: they count what can be told from the detections *)
(* of a run, one manifest has one of them, and looking more often, in      *)
(* paired runs, adds to what is seen and found and takes nothing away.     *)
ScoresAreFair ==
  RecallsAreLargest /\ OneManifestOneScore /\ PairedRunsNest /\ LookingMoreFindsNoLess
=============================================================================
