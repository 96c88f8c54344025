--------------------------- MODULE MCPresentation ---------------------------
(***************************************************************************)
(* Presentation for TLC: paired devices are interchangeable.               *)
(***************************************************************************)
EXTENDS Presentation

Devices == Permutations(Paired)
=============================================================================
