----------------------------- MODULE MCMyArray -----------------------------
(* Instances of MyArray for TLC.                                           *)
EXTENDS MyArray

ShapesUpToThree == {<<2>>, <<2, 2>>, <<1, 2, 1>>, <<2, 1, 2>>}
=============================================================================
