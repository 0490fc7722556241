----------------------------- MODULE HabitModel -----------------------------
(***************************************************************************)
(* M17: what is learned of the habits in a household, as pseudo counts on  *)
(* three levels: per household and object, per person, and per person and  *)
(* context.  prediction pools them with a common prior.                    *)
(*                                                                         *)
(* Evidence is [household, object, location, context, actors, source,      *)
(* from, weight]: actors gives every actor a part of Sure, weight is the   *)
(* proposed training weight in parts of Sure, and source and from are      *)
(* evidence_source and the source_type of the metadata.                    *)
(***************************************************************************)
EXTENDS Integers, Sequences, FiniteSets, Functions, SequencesExt

CONSTANTS
  Evidence,   \* what update is called with
  Location,   \* the candidate locations
  Actor,      \* actor keys of persons
  Prior,      \* common_prior times its strength
  Weight,     \* [household, person, context]: the pooling weights
  Sure,       \* a probability or a weight of one
  MaxUpdates  \* bound: how often update is called

UnknownActor == "unknown_actor"

(* HabitLearningEvidence and HierarchicalDirichletHabitModel.__init__.     *)
ASSUME HabitAssumption ==
  /\ Sure \in Nat /\ IsFiniteSet(Actor) /\ UnknownActor \notin Actor
  /\ Prior \in [Location -> Nat]
  /\ Weight \in [household : Nat, person : Nat, context : Nat]
  /\ IsFiniteSet({e.context : e \in Evidence})
  /\ \A e \in Evidence :
       /\ e.weight \in Nat
       /\ DOMAIN e.actors \subseteq Actor \cup {UnknownActor}
       /\ e.actors \in [DOMAIN e.actors -> Nat]

VARIABLES householdCounts, personCounts, contextCounts, learned

habitVars == <<householdCounts, personCounts, contextCounts, learned>>

HabitInit ==
  /\ householdCounts = << >> /\ personCounts = << >> /\ contextCounts = << >>
  /\ learned = << >>

(* HabitLearningEvidence.                                                  *)
ValidEvidence(e) ==
  /\ SumFunction(e.actors) = Sure
  /\ e.from \in CASE e.source = "direct_observation" -> {"sensor", "model", "simulation"}
                  [] e.source = "user_report" -> {"user", "import"}
                  [] e.source = "inferred_event" -> {"inference"}
                  [] e.source = "model_prediction" -> {"model"}

EffectiveTrainingWeight(e) == IF e.source = "model_prediction" THEN 0 ELSE e.weight

Count(counts, key) == IF key \in DOMAIN counts THEN counts[key] ELSE 0

Plus(counts, keys, amount) ==
  [key \in DOMAIN counts \cup keys |-> Count(counts, key) + IF key \in keys THEN amount[key] ELSE 0]

FaultUnknownIsSomebody(e) == {a \in DOMAIN e.actors : e.actors[a] > 0}

(* The actors whose own counts the evidence touches.                       *)
Persons(e) == {a \in DOMAIN e.actors : a # UnknownActor /\ e.actors[a] > 0}

(* update: counts are in parts of Sure times Sure.                         *)
Update(e) ==
  LET weight    == EffectiveTrainingWeight(e)
      household == {<<e.household, e.object, e.location>>}
      persons   == {<<e.household, a, e.object, e.location>> : a \in Persons(e)}
      contexts  == {<<e.household, a, e.object, e.context, e.location>> : a \in Persons(e)}
  IN  /\ Len(learned) < MaxUpdates
      /\ ValidEvidence(e)
      /\ weight > 0 /\ e.location \in Location
      /\ householdCounts' = Plus(householdCounts, household, [k \in household |-> weight * Sure])
      /\ personCounts' = Plus(personCounts, persons, [k \in persons |-> weight * e.actors[k[2]]])
      /\ contextCounts' = Plus(contextCounts, contexts, [k \in contexts |-> weight * e.actors[k[2]]])
      /\ learned' = Append(learned, e)

HabitNext == \E e \in Evidence : Update(e)

HabitSpec == HabitInit /\ [][HabitNext]_habitVars

(* predict: the score of each location; reading creates no counts that     *)
(* matter.                                                                 *)
Scores(household, actor, object, context) ==
  [location \in Location |->
     Prior[location] * Sure * Sure
       + Weight.household * Count(householdCounts, <<household, object, location>>)
       + Weight.person * Count(personCounts, <<household, actor, object, location>>)
       + Weight.context * Count(contextCounts, <<household, actor, object, context, location>>)]

-----------------------------------------------------------------------------
Households == {e.household : e \in Evidence}
Objects    == {e.object : e \in Evidence}
Contexts   == {e.context : e \in Evidence}
Anybody    == Actor \cup {UnknownActor}

Matches(e, household, object, location) ==
  e.household = household /\ e.object = object /\ e.location = location

(* What is known to have been done, and not by whom.                       *)
Unattributed(household, object, location) ==
  SumFunction([i \in DOMAIN learned |->
    LET e == learned[i]
    IN  IF Matches(e, household, object, location) /\ UnknownActor \in DOMAIN e.actors
        THEN e.weight * e.actors[UnknownActor] ELSE 0])

(* The levels add up, whatever was learned in which order: what a person   *)
(* did is what they did in all contexts, and what was done in a household  *)
(* is what its persons did and what nobody is known to have done, who is   *)
(* no person.                                                              *)
LevelsAddUp ==
  \A h \in Households, o \in Objects, l \in Location :
    /\ Count(householdCounts, <<h, o, l>>) =
         SumFunction([a \in Anybody |-> Count(personCounts, <<h, a, o, l>>)]) + Unattributed(h, o, l)
    /\ \A a \in Anybody :
         Count(personCounts, <<h, a, o, l>>) =
           SumFunction([c \in Contexts |-> Count(contextCounts, <<h, a, o, c, l>>)])

(* Predictions do not train the model that made them: everything it counts *)
(* was observed, reported or inferred, and no household, object or         *)
(* location has counts that no such evidence was about.                    *)
OnlyFactsTeach ==
  SumFunction(householdCounts) =
    SumFunction([i \in DOMAIN learned |->
      IF learned[i].source = "model_prediction" THEN 0 ELSE learned[i].weight * Sure])

(* Evidence about a location never makes it less probable for anybody in   *)
(* the household it is from, and never changes what is predicted in        *)
(* another, or about another object.                                       *)
LearningIsLocal ==
  learned' # learned => \A h \in Households, a \in Actor, o \in Objects, c \in Contexts :
    LET e      == Last(learned')
        before == Scores(h, a, o, c)
        after  == Scores(h, a, o, c)'
    IN  IF h = e.household /\ o = e.object
        THEN \A l \in Location :
               after[e.location] * before[l] >= before[e.location] * after[l]
        ELSE after = before

(* Learning is sound: what is learned was observed by somebody and not     *)
(* predicted, it is booked to whom it is about, on all levels alike, and   *)
(* it moves the predictions about this and no others.                      *)
LearningIsSound == [][LearningIsLocal /\ LevelsAddUp' /\ OnlyFactsTeach']_habitVars
=============================================================================
