-------------------------- MODULE MCWorkspaceStore --------------------------
(* Instances of WorkspaceStore for TLC.                                    *)
EXTENDS WorkspaceStore, TLC

CONSTANTS a, b, c, d, v1, v2

OneVaultEach == (a :> v1) @@ (b :> v1) @@ (c :> v1) @@ (d :> v2)
Interchangeable == Permutations({a, b, c})

(* A pane that an older build left with the same tab twice.                *)
Doubled ==
    {[vault |-> v2, layout |-> [panes |-> << [tabs |-> <<Fresh(d), Fresh(d)>>, shown |-> d, history |-> <<Fresh(d)>>, at |-> 1] >>, active |-> 1]]}
=============================================================================
