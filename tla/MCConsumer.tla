----------------------------- MODULE MCConsumer -----------------------------
(* Small instances of Consumer: see the .cfg files for the bounds.          *)
EXTENDS Consumer, TLC

CONSTANTS w1, w2, s1

MCSymmetry == Permutations(Workers)
=============================================================================
