---------------------------- MODULE RevisionTree ----------------------------
(***************************************************************************)
(* What the hypergraph engine promises of its histories, without           *)
(* hypotheses and probabilities: they form a tree that only grows.  A      *)
(* history is never changed, it is extended by one revision whose evidence *)
(* it has not used before, and what is rebuilt from stored revisions is a  *)
(* history that was made, never one put together from several.             *)
(***************************************************************************)
EXTENDS Naturals, Sequences

CONSTANTS
  Holder,     \* those who keep histories
  NoHistory,
  Uses(_)     \* what a revision consumes

VARIABLES made, held

treeVars == <<made, held>>

Init == made = {} /\ held = [h \in Holder |-> NoHistory]

Grow(h, history) ==
  /\ made' = made \cup {history}
  /\ held' = [held EXCEPT ![h] = history]

(* A history of one revision.                                              *)
Plant(h) == \E history \in made' : Len(history) = 1 /\ Grow(h, history)

(* The history h holds and one revision more.                              *)
Extend(h) ==
  /\ held[h] # NoHistory
  /\ \E history \in made' :
       /\ Len(history) = Len(held[h]) + 1
       /\ \A i \in 1..Len(held[h]) : history[i] = held[h][i]
       /\ Uses(history[Len(history)]) # {}
       /\ \A i \in 1..Len(held[h]) :
            Uses(history[i]) \cap Uses(history[Len(history)]) = {}
       /\ Grow(h, history)

Fetch(h) ==
  /\ \E history \in made : held' = [held EXCEPT ![h] = history]
  /\ UNCHANGED made

Next == \E h \in Holder : Plant(h) \/ Extend(h) \/ Fetch(h)

TreeSpec == Init /\ [][Next]_treeVars
=============================================================================
