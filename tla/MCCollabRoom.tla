---------------------------- MODULE MCCollabRoom ----------------------------
(* Instances of CollabRoom for TLC.                                        *)
EXTENDS CollabRoom, TLC

CONSTANTS b, r1, s1, p1

Filled == {b}
Empty == {}
NoSaves == [s \in {} |-> {}]
OneSave == (s1 :> {b, r1})

(* A body with the paste p1 in it is over the limit; or any of three parts. *)
Pasted == {t \in Text : p1 \in t}
LongTexts == {t \in Text : Cardinality(t) > 2}

Interchangeable == Permutations(Worker)

SteadySpec == SteadyInit /\ [][Next]_vars
FairSpec == Spec /\ Fairness
FairSteadySpec == SteadySpec /\ Fairness
=============================================================================
