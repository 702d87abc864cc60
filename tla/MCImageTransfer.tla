-------------------------- MODULE MCImageTransfer --------------------------
(* Instances of ImageTransfer for TLC.                                     *)
EXTENDS ImageTransfer
=============================================================================
