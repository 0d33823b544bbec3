------------------------------ MODULE MCRBTree ------------------------------
(* RBTree with the keys 1..N.                                              *)
EXTENDS RBTree

MCKeys6 == 1..6
MCKeys8 == 1..8
=============================================================================
