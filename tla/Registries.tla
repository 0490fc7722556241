----------------------------- MODULE Registries -----------------------------
(***************************************************************************)
(* M02: the registries of identities, of clock alignments and of frame     *)
(* transforms, and the motions that their links stand for.  The last two   *)
(* are the same: a link maps what is measured at its source to its target  *)
(* while it is valid, and backwards, too.                                  *)
(*                                                                         *)
(* A motion is [turn, x, y, slack].  For frames it is a rigid motion, with *)
(* rotations by quarter turns, which do not commute with translations; a   *)
(* clock alignment has no turn, its offset in x and its uncertainty in     *)
(* slack.  Names and ids are numbers, because lookup sorts by them, and    *)
(* Forever stands for a validity without end.                              *)
(***************************************************************************)
EXTENDS Integers, Sequences, FiniteSets, SequencesExt

CONSTANTS
  Identity,   \* ScopedIdentity: [id, namespace, household]
  Alignment,  \* ClockAlignment: [id, household, source, target, motion, from, until]
  Transform,  \* FrameTransform, alike
  MaxLinks,   \* bound: how many links a registry gets
  Instant,
  Forever,
  NotFound,
  NoHousehold

(* Whole numbers, and quarter turns.                                       *)
Motions == [turn : 0..3, x : Int, y : Int, slack : Int]

(* Instants are numbers here, in the order of time.  The ends of a link    *)
(* differ; an alignment has nothing but an offset and its uncertainty, and *)
(* a frame transform is exact.                                             *)
ASSUME LinkAssumption ==
  /\ Instant \subseteq Int
  /\ \A link \in Alignment \cup Transform :
       /\ {link.id, link.source, link.target, link.from, link.until} \subseteq Int
       /\ link.source # link.target /\ link.motion \in Motions
  /\ \A link \in Alignment : link.motion.turn = 0 /\ link.motion.y = 0
  /\ \A link \in Transform : link.motion.slack = 0

VARIABLES identities, alignments, transforms

m02Vars == <<identities, alignments, transforms>>

M02Init == identities = << >> /\ alignments = << >> /\ transforms = << >>

-----------------------------------------------------------------------------
Rotated(turn, p) ==
  CASE turn = 0 -> p
    [] turn = 1 -> <<-p[2], p[1]>>
    [] turn = 2 -> <<-p[1], -p[2]>>
    [] turn = 3 -> <<p[2], -p[1]>>

Still == [turn |-> 0, x |-> 0, y |-> 0, slack |-> 0]

FaultFirstTurns(first, second) ==
  LET p == Rotated(first.turn, <<second.x, second.y>>)
  IN  [turn |-> (first.turn + second.turn) % 4, x |-> p[1] + first.x, y |-> p[2] + first.y,
       slack |-> first.slack + second.slack]

(* compose_transforms, and next_offset and next_uncertainty of align.      *)
Then(first, second) ==
  LET p == Rotated(second.turn, <<first.x, first.y>>)
  IN  [turn |-> (first.turn + second.turn) % 4, x |-> p[1] + second.x, y |-> p[2] + second.y,
       slack |-> first.slack + second.slack]

(* invert_transform; a clock alignment that is used backwards is as        *)
(* uncertain as it is forwards.                                            *)
Backwards(motion) ==
  LET turn == (4 - motion.turn) % 4
      p    == Rotated(turn, <<-motion.x, -motion.y>>)
  IN  [turn |-> turn, x |-> p[1], y |-> p[2], slack |-> motion.slack]

-----------------------------------------------------------------------------
ValidAt(link, t) == link.from <= t /\ t < link.until

Overlap(a, b) == a.from < b.until /\ b.from < a.until

SamePair(a, b) ==
  a.household = b.household /\ {a.source, a.target} = {b.source, b.target}

(* register: what is known changes nothing, whether it is the same link    *)
(* again or one that is rejected.                                          *)
Registered(links, link) ==
  IF \E i \in DOMAIN links :
       links[i].id = link.id \/ (SamePair(links[i], link) /\ Overlap(links[i], link))
  THEN links ELSE Append(links, link)

(* transform_point.                                                        *)
Moved(p, motion) ==
  LET r == Rotated(motion.turn, p) IN <<r[1] + motion.x, r[2] + motion.y>>

RegisterAlignment(link) ==
  /\ Len(alignments) < MaxLinks
  /\ alignments' = Registered(alignments, link)
  /\ UNCHANGED <<identities, transforms>>

RegisterTransform(link) ==
  /\ Len(transforms) < MaxLinks
  /\ transforms' = Registered(transforms, link)
  /\ UNCHANGED <<identities, alignments>>

-----------------------------------------------------------------------------
ValidScope(identity) ==
  (identity.namespace = "household") <=> (identity.household = NoHousehold)

CanRegister(identity) ==
  /\ ValidScope(identity)
  /\ identity.id \in DOMAIN identities => identities[identity.id] = identity

(* register; issue is register with an id nobody has used.                 *)
RegisterIdentity(identity) ==
  /\ CanRegister(identity)
  /\ identities' = [id \in DOMAIN identities \cup {identity.id} |->
                      IF id = identity.id THEN identity ELSE identities[id]]
  /\ UNCHANGED <<alignments, transforms>>

(* resolve, where NotFound stands for either exception.                    *)
Resolve(id, namespace, household) ==
  IF /\ id \in DOMAIN identities
     /\ identities[id].namespace = namespace /\ identities[id].household = household
  THEN identities[id] ELSE NotFound

IdentityRegistryNext == \E i \in Identity : RegisterIdentity(i)
ClocksNext == \E l \in Alignment : RegisterAlignment(l)
FramesNext == \E l \in Transform : RegisterTransform(l)

M02Next == IdentityRegistryNext \/ ClocksNext \/ FramesNext

M02Spec == M02Init /\ [][M02Next]_m02Vars
-----------------------------------------------------------------------------
(* Never are there two links between two nodes at one time, in whichever   *)
(* directions they were registered.                                        *)
OneLinkPerPair ==
  \A links \in {alignments, transforms} : \A a, b \in ToSet(links) : \A t \in Instant :
    (SamePair(a, b) /\ ValidAt(a, t) /\ ValidAt(b, t)) => a = b

(* An id keeps the namespace and the household it was first given, so what *)
(* resolved once resolves to the same forever.                             *)
IdsKeepTheirMeaning ==
  \A i \in Identity :
    LET found == Resolve(i.id, i.namespace, i.household)
    IN  found # NotFound => found' = found
=============================================================================
