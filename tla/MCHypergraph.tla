---------------------------- MODULE MCHypergraph ----------------------------
(***************************************************************************)
(* Two actors known by name and the unknown one, a box that is seen at     *)
(* three places, a cup, and records of evidence: two that say different    *)
(* things, a copy of the first in other wrapping, two that rule somebody   *)
(* out, one of another object and one of another time.                     *)
(***************************************************************************)
EXTENDS Hypergraph

D(id, object, place, time) ==
  [id |-> id, object |-> object, place |-> place, time |-> time, scope |-> "s"]

shelf == D("d1", "box", "shelf", 0)
table == D("d2", "box", "table", 8)
sofa  == D("d3", "box", "sofa", 12)

(* A handoff has no room between table and sofa.                           *)
MCDetection == {shelf, table, sofa, D("d4", "cup", "nowhere", 16)}
MCEndpoints == {shelf, table}

(* Parts of four. *)
P31 == [A |-> 3, B |-> 1]
PU  == [A |-> 2, unknown |-> 2]
MCPrior == {P31, PU, [A |-> 4, B |-> 0], [A |-> 4]}
MCOnePrior == {P31}

E(id, cluster, meaning, ratio) ==
  [id |-> id, cluster |-> cluster, meaning |-> meaning, ratio |-> ratio,
   object |-> "box", scope |-> "s", source |-> "d2", time |-> 8]

(* Likelihood ratios in halves. *)
likelyA  == E("e1", "c1", "m1", [A |-> 3, B |-> 1])
likelyB  == E("e2", "c2", "m2", [A |-> 1, B |-> 4, unknown |-> 1])
copyA    == E("e3", "c3", "m1", [A |-> 3, B |-> 1])
notA     == E("e5", "c5", "m5", [A |-> 0, B |-> 4])
corrNotA == E("e4", "c5", "m4", [A |-> 0, B |-> 3])
notKnown == E("e6", "c6", "m6", [A |-> 0, B |-> 0, unknown |-> 6])
ofCup    == [E("e7", "c7", "m7", [A |-> 1, B |-> 3]) EXCEPT !.object = "cup"]
early    == [E("e8", "c8", "m8", [A |-> 1, B |-> 3]) EXCEPT !.time = 5]

MCEvidence == {likelyA, likelyB, copyA, notA, notKnown}
MCCounter  ==
  {<< >>, <<notA>>, <<notKnown>>, <<likelyB>>, <<notA, notKnown>>, <<notA, notA>>, <<corrNotA, notA>>,
   <<notA, ofCup>>, <<early, notA>>, <<likelyA, copyA, notA>>}

MCTarget ==
  {{}, {<<"A", "A">>}, {<<"A", "A">>, <<"B", "A">>}, {<<"B", "B">>, <<"A", "B">>},
   Chains({"A", "B"}), {<<"unknown", "unknown">>}, Chains({"A", "unknown"})}
=============================================================================
