------------------------- MODULE IdentityTimeFrames -------------------------
(***************************************************************************)
(* M02: the answers of the registries of clock alignments and of frame     *)
(* transforms.  An answer composes the links of a path found breadth       *)
(* first, each used in either direction.                                   *)
(***************************************************************************)
EXTENDS Registries, Sorting

NoPath == << >>

(* The links that a question at some time is about.  _edges sorts by the   *)
(* nodes and the ids of links, so that the order of registration is lost;  *)
(* what it could change is which of the links of one pair is taken.        *)
Live(links, household, at) == {l \in ToSet(links) : l.household = household /\ ValidAt(l, at)}

(* A link as it is used from one of its ends.                              *)
Edge(link, node) ==
  [id |-> link.id, from |-> link.from, until |-> link.until,
   to |-> IF link.source = node THEN link.target ELSE link.source,
   motion |-> IF link.source = node THEN link.motion ELSE Backwards(link.motion)]

(* _edges: what leads away from a node, in either direction of the links.  *)
Edges(live, node) == {Edge(l, node) : l \in {v \in live : node \in {v.source, v.target}}}

(* Where they lead, and the first of those that lead to one node: edges    *)
(* are in the order of nodes and ids.                                      *)
Neighbours(live, node) == {e.to : e \in Edges(live, node)}

EdgeTo(live, node, to) ==
  CHOOSE e \in Edges(live, node) :
    e.to = to /\ \A f \in Edges(live, node) : f.to = to => e.id <= f.id

Later(a, b)   == IF a > b THEN a ELSE b
Earlier(a, b) == IF a < b THEN a ELSE b

Start(node) == [node |-> node, motion |-> Still, ids |-> << >>]

(* One step of the path: the validity is what both parts share.            *)
Extended(path, edge) ==
  [node |-> edge.to, motion |-> Then(path.motion, edge.motion), ids |-> Append(path.ids, edge.id),
   from |-> IF path.ids = << >> THEN edge.from ELSE Later(path.from, edge.from),
   until |-> IF path.ids = << >> THEN edge.until ELSE Earlier(path.until, edge.until)]

(* visited: all nodes that a path in the queue, or taken from it, is to.   *)
Visited(paths) == {p.node : p \in ToSet(paths)}

(* What is put into the queue when a path is taken from it.                *)
Onwards(live, paths, path) ==
  LET new   == Neighbours(live, path.node) \ Visited(paths)
      order == InOrder(new, [n \in new |-> <<n, 0>>])
  IN  [i \in DOMAIN order |-> Extended(path, EdgeTo(live, path.node, order[i]))]

(* No more paths than that are put into the queue.                         *)
Rounds(live) == Cardinality({l.source : l \in live} \cup {l.target : l \in live}) + 1

(* All that was in the queue when so many paths were taken from it, which  *)
(* goes on until one is to the target.                                     *)
Queued(live, source, target) ==
  LET queued[k \in 0..Rounds(live)] ==
        IF k = 0 THEN <<Start(source)>>
        ELSE LET before == queued[k - 1]
             IN  IF k \in DOMAIN before /\ target \notin Visited(before)
                 THEN before \o Onwards(live, before, before[k])
                 ELSE before
  IN  queued

Search(live, source, target) ==
  LET paths == Queued(live, source, target)[Rounds(live)]
  IN  IF target \in Visited(paths) THEN CHOOSE p \in ToSet(paths) : p.node = target ELSE NoPath

(* lookup of different frames, and align of different clocks: there at is  *)
(* the time that is to be aligned, as the source clock tells it.           *)
Lookup(links, source, target, household, at) == Search(Live(links, household, at), source, target)

(* align: the time that the target clock tells.                            *)
Aligned(links, source, target, household, at) ==
  IF source = target THEN at
  ELSE LET path == Lookup(links, source, target, household, at)
       IN  IF path = NoPath THEN NotFound ELSE at + path.motion.x

-----------------------------------------------------------------------------
Names(links)  == {l.source : l \in ToSet(links)} \cup {l.target : l \in ToSet(links)}
Owners(links) == {l.household : l \in ToSet(links)}

(* Every question that can be put to a registry.                           *)
Queries(links) ==
  {q \in Names(links) \X Names(links) \X Owners(links) \X Instant : q[1] # q[2]}

Answer(links, q) == Lookup(links, q[1], q[2], q[3], q[4])

(* Whom a node reaches in n links.                                         *)
Ball(live, node) ==
  LET ball[n \in 0..Rounds(live)] ==
        IF n = 0 THEN {node}
        ELSE LET inner == ball[n - 1]
             IN  inner \cup UNION {{l.source, l.target} : l \in
                                     {v \in live : {v.source, v.target} \cap inner # {}}}
  IN  ball

LinkOf(links, id) == CHOOSE l \in ToSet(links) : l.id = id

AnswerFits(links, q) ==
  LET path == Answer(links, q)
      live == Live(links, q[3], q[4])
  IN  IF path = NoPath THEN q[2] \notin Ball(live, q[1])[Rounds(live)]
      ELSE /\ q[2] \in Ball(live, q[1])[Len(path.ids)]
           /\ q[2] \notin Ball(live, q[1])[Len(path.ids) - 1]
           /\ \A t \in Instant :
                ValidAt(path, t) <=> \A id \in ToSet(path.ids) : ValidAt(LinkOf(links, id), t)

(* A registry finds a path whenever there is one, a shortest one, and says *)
(* for how long all the links on it are valid.                             *)
AnswersFit ==
  \A links \in {alignments, transforms} : \A q \in Queries(links) : AnswerFits(links, q)

(* There is a way back when there is a way there, as long as it, and over  *)
(* the same links it undoes it, also where a detour would give something   *)
(* else.                                                                   *)
FramesGoBack ==
  \A q \in Queries(transforms) :
    LET there == Answer(transforms, q)
        back  == Answer(transforms, <<q[2], q[1], q[3], q[4]>>)
    IN  IF there = NoPath THEN back = NoPath
        ELSE /\ back # NoPath /\ Len(back.ids) = Len(there.ids)
             /\ back.ids = Reverse(there.ids) =>
                  /\ Then(there.motion, back.motion) = Still
                  /\ back.from = there.from /\ back.until = there.until

(* Where a point is after the first links on a path.                       *)
Carried(links, node, ids, p) ==
  LET carried[k \in 0..Len(ids)] ==
        IF k = 0 THEN [node |-> node, p |-> p]
        ELSE LET at   == carried[k - 1]
                 link == LinkOf(links, ids[k])
             IN  IF link.source = at.node
                 THEN [node |-> link.target, p |-> Moved(at.p, link.motion)]
                 ELSE [node |-> link.source, p |-> Moved(at.p, Backwards(link.motion))]
  IN  carried

(* An answer moves a point to where the links on its path, one after the   *)
(* other, move it.                                                         *)
AnswersMoveAlongTheirPath ==
  \A q \in Queries(transforms) :
    LET path == Answer(transforms, q)
    IN  path # NoPath =>
          Carried(transforms, q[1], path.ids, <<1, 0>>)[Len(path.ids)] =
            [node |-> q[2], p |-> Moved(<<1, 0>>, path.motion)]

(* The time of a clock that is aligned there and back over the same links  *)
(* is the same again, and there is a way back as long as the same          *)
(* alignments are valid at both times.                                     *)
ClocksGoBack ==
  \A q \in Queries(alignments) :
    LET there == Answer(alignments, q)
        time  == Aligned(alignments, q[1], q[2], q[3], q[4])
        back  == Answer(alignments, <<q[2], q[1], q[3], time>>)
    IN  there # NoPath =>
          /\ (\A l \in ToSet(alignments) : ValidAt(l, time) = ValidAt(l, q[4])) =>
               back # NoPath /\ Len(back.ids) = Len(there.ids)
          /\ (back # NoPath /\ back.ids = Reverse(there.ids)) =>
               Aligned(alignments, q[2], q[1], q[3], time) = q[4]

(* Whatever was registered, no pair has two links that are valid at once,  *)
(* and however a path mixes links with and against their direction, an     *)
(* answer is that of a shortest path of valid links, for as long as they   *)
(* are valid, and it moves what it is applied to along this path and back  *)
(* again.                                                                  *)
AnswersFollowTheLinks ==
  /\ OneLinkPerPair /\ AnswersFit
  /\ AnswersMoveAlongTheirPath /\ FramesGoBack /\ ClocksGoBack
=============================================================================
