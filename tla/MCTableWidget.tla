---------------------------- MODULE MCTableWidget ----------------------------
(* Instances of TableWidget for TLC.                                       *)
EXTENDS TableWidget

CONSTANTS a, b, h, x, y, z

NewColumn == <<h>>

(* A header that is empty still, and a row below it.                       *)
OneColumn == << << <<Blank>>, <<<<a>>>> >> >>
OneClip == {<< <<<<Dash>>>>, <<<<z, Pipe>>>> >>}
=============================================================================
