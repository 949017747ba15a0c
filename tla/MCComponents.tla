---------------------------- MODULE MCComponents ----------------------------
(***************************************************************************)
(* Components for TLC.                                                     *)
(***************************************************************************)
EXTENDS Components, TLC

(* Requests are interchangeable.                                            *)
Symmetry == Permutations(Request)

=============================================================================
