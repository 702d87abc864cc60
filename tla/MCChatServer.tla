---------------------------- MODULE MCChatServer ----------------------------
(* Instances of ChatServer for TLC.                                        *)
EXTENDS ChatServerRoom, TLC

ClientSymmetry == Permutations(Clients)
=============================================================================
