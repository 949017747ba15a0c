---------------------------- MODULE OutcomeTable ----------------------------
(***************************************************************************)
(* What a state file promises to whoever reads it (docs/architecture.md,   *)
(* "Outcomes and attempts"): one row per document; an answer is final,     *)
(* except that a real answer replaces "not found"; failures add up and     *)
(* leave answers alone.                                                    *)
(***************************************************************************)
EXTENDS Integers

CONSTANTS
    Doc,
    MaxAttempts   \* what one outcome may charge a document

VARIABLE table    \* [Doc -> [status, count]]

NoRow == [status |-> "none", count |-> 0]

Init == table = [d \in Doc |-> NoRow]

(* A lookup of d, or an earlier export of it, answered.                     *)
Answer(S) ==
    table' = [d \in Doc |-> IF d \in S THEN [table[d] EXCEPT !.status = "ok"] ELSE table[d]]

DoesNotExist(d) ==
    /\ table[d].status # "ok"
    /\ table' = [table EXCEPT ![d].status = "not_found"]

Fail(d) ==
    /\ table[d].status \in {"none", "failed"}
    /\ \E n \in {0, MaxAttempts} :
         table' = [table EXCEPT ![d] = [status |-> "failed", count |-> @.count + n]]

Next ==
    \/ \E S \in SUBSET Doc : Answer(S)
    \/ \E d \in Doc : DoesNotExist(d) \/ Fail(d)

Spec == Init /\ [][Next]_table

=============================================================================
