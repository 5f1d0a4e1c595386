--------------------------- MODULE MCAssistantChat ---------------------------
(* Instances of AssistantChat for TLC.                                     *)
EXTENDS AssistantChat

Interchangeable == Permutations(Thread)
=============================================================================
