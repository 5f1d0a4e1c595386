---------------------------- MODULE MCVaultTree -----------------------------
(* Instances of VaultTree for TLC.                                         *)
EXTENDS VaultTree, TLC

CONSTANTS x, y, z

Says(refs, aliases) == [refs |-> refs, aliases |-> aliases]

(* Links by title, by path and by alias.                                   *)
Texts == {Says({}, {}), Says({<<x, y>>, <<z>>}, {}), Says({<<x>>, <<y, y>>}, {z})}

(* What two or three requests leave: a note in a folder, and perhaps that  *)
(* folder in another one.                                                  *)
Planted(f, g, n, nested) ==
    LET top == [home |-> None, name |-> x, path |-> <<x>>]
        inner == [home |-> g, name |-> y, path |-> <<x, y>>]
    IN  /\ folder = IF nested THEN (f :> inner) @@ (g :> top) ELSE (f :> top) @@ (g :> None)
        /\ note = [i \in Note |-> IF i # n THEN None
                    ELSE [home |-> f, name |-> y, path |-> Append(IF nested THEN <<x, y>> ELSE <<x>>, y),
                          refs |-> {}, aliases |-> {}]]

PlantedInit ==
    /\ \E f, g \in Folder, n \in Note, nested \in BOOLEAN : f # g /\ Planted(f, g, n, nested)
    /\ link = {}
    /\ req = [r \in Request |-> None]
    /\ cached = [v \in View |-> "none"] /\ fill = [v \in View |-> "none"] /\ late = {}
    /\ steps = 0

PlantedSpec == PlantedInit /\ [][Next]_vars

Interchangeable == Permutations(Folder) \cup Permutations(Note)
=============================================================================
