------------------------ MODULE MCQueueTransactions ------------------------
(* Small instances of QueueTransactions for TLC. *)
EXTENDS QueueTransactions, TLC

CONSTANTS j1, j2, j3, s1, s2, s3

Symmetry == Permutations(Job) \cup Permutations(Session)
SessionSymmetry == Permutations(Session)
=============================================================================
