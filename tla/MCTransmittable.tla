-------------------------- MODULE MCTransmittable --------------------------
(* Two workers that are told apart by nothing but their name.              *)
EXTENDS Transmittable, TLC

CONSTANTS w1, w2

Symmetry == Permutations({w1, w2})
=============================================================================
