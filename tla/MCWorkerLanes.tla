---------------------------- MODULE MCWorkerLanes ----------------------------
(* Small instances of WorkerLanes for TLC. *)
EXTENDS WorkerLanes, TLC

CONSTANTS w1, w2, g1, g2, d1

(* g1 and g2 are two credentials of the pooled provider, d1 of the other. *)
MCProviderOf == [k \in Key |-> IF k = d1 THEN "dataimpulse" ELSE "geonode"]

\* The first worker runs two lanes; the second serves both providers.
MCConcurrency == [w \in Worker |-> IF w = w1 THEN 2 ELSE 1]
MCServes == [w \in Worker |-> IF w = w1 THEN {g1} ELSE Key]

Symmetry == Permutations(Worker) \cup Permutations({g1, g2} \cap Key)
=============================================================================
