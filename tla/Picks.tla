-------------------------------- MODULE Picks --------------------------------
(* Array.filter: what stays of a sequence, as an operator one can reason   *)
(* about without induction.                                                *)
EXTENDS Naturals, Sequences, FiniteSets

(* The entries of s at the positions in I, in their order: the k-th is the *)
(* one at the position that has k - 1 others of them before it.            *)
Picked(s, I) ==
    LET at == I \cap DOMAIN s
        Nth(k) == CHOOSE i \in at : Cardinality({j \in at : j < i}) = k - 1
    IN  [k \in 1..Cardinality(at) |-> s[Nth(k)]]
=============================================================================
