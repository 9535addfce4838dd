---------------------------- MODULE MCJobRunner ----------------------------
(* Instances of JobRunner for TLC.                                         *)
EXTENDS JobRunner, TLC

(* Workers are interchangeable: no action and no safety property tells one *)
(* from another.                                                           *)
Symmetry == Permutations(Workers)
=============================================================================
