------------------------------ MODULE MCTetris ------------------------------
(* Instances of Tetris for TLC.                                            *)
EXTENDS Tetris
=============================================================================
