------------------------------ MODULE MCNoteSave ------------------------------
(* Instances of NoteSave for TLC.                                          *)
EXTENDS NoteSave, TLC

(* Texts beyond the size limit: those of three marks or more.              *)
LongTexts == {t \in SUBSET Mark : Cardinality(t) > 2}

Interchangeable == Permutations(Mark) \cup Permutations(Editor) \cup Permutations(Job)
=============================================================================
