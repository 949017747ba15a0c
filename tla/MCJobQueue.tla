----------------------------- MODULE MCJobQueue -----------------------------
(* Small instances of JobQueue for TLC. *)
EXTENDS JobQueue, TLC

CONSTANTS j1, j2, j3, j4, w1, w2

(* One site, one provider, one team, one credential version. *)
MCSourceOf == [k \in Key |-> "osiptel"]
MCTeamOf == [j \in Job |-> "team"]
MCVersionOf == [j \in Job |-> "v1"]
MCProviderOf == [v \in {"v1"} |-> "geonode"]
MCServes == [w \in Worker |-> Source]

JobSymmetry == Permutations(Job)
Symmetry == Permutations(Job) \cup Permutations(Worker)
=============================================================================
