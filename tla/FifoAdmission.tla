--------------------------- MODULE FifoAdmission ---------------------------
(***************************************************************************)
(* What the portal promises about its queue, without the rows that keep    *)
(* it: a fixed number of places, and a line in front of them. Nobody       *)
(* overtakes anybody in the line, and no place is free while somebody      *)
(* stands in it. JobQueue implements this module.                          *)
(***************************************************************************)
EXTENDS Integers, FiniteSets

CONSTANTS Job, MaxActive

VARIABLES
    waiting,  \* the jobs in the line
    ahead,    \* pairs of waiting jobs: the first stands ahead of the second
    running,  \* the jobs that have a place
    ended     \* the jobs that left

vars == <<waiting, ahead, running, ended>>

Init == waiting = {} /\ ahead = {} /\ running = {} /\ ended = {}

(* A job takes a free place, joins the end of the line, or has nothing to   *)
(* do and is done at once.                                                  *)
Enter(j) ==
    /\ j \notin waiting \cup running \cup ended
    /\ \/ /\ Cardinality(running) < MaxActive
          /\ running' = running \cup {j}
          /\ UNCHANGED <<waiting, ahead, ended>>
       \/ /\ Cardinality(running) = MaxActive
          /\ ahead' = ahead \cup (waiting \X {j})
          /\ waiting' = waiting \cup {j}
          /\ UNCHANGED <<running, ended>>
       \/ /\ ended' = ended \cup {j}
          /\ UNCHANGED <<waiting, ahead, running>>

(* The jobs E leave, the line moves up.                                     *)
Leave(E) ==
    /\ E # {}
    /\ \E P \in SUBSET (waiting \ E) :
         /\ waiting' = waiting \ (E \cup P)
         /\ running' = (running \ E) \cup P
         /\ \A p \in P, q \in waiting' : <<p, q>> \in ahead
    /\ ahead' = ahead \cap (waiting' \X waiting')
    /\ ended' = ended \cup E
    /\ Cardinality(running') <= MaxActive
    /\ waiting' # {} => Cardinality(running') = MaxActive

Next ==
    \/ \E j \in Job : Enter(j)
    \/ \E E \in SUBSET (waiting \cup running) : Leave(E)

Spec == Init /\ [][Next]_vars
=============================================================================
