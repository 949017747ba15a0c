----------------------------- MODULE BrowserRun -----------------------------
(***************************************************************************)
(* A run of the browser client over its observation store: run.py and      *)
(* store.py. Subjects are driven in order through a browser session; a      *)
(* broken session is replaced a bounded number of times; the run may be     *)
(* interrupted or killed, and is run again over the same store.             *)
(***************************************************************************)
EXTENDS Integers, FiniteSets, FiniteSetsExt

CONSTANTS
    Subject,        \* the routed subjects, numbered in the order of the input
    MaxRestarts,    \* max_session_restarts
    RejectThreshold \* reject_restart_threshold

VARIABLES
    observed,   \* subjects with an ok observation in the store
    blank,      \* those whose answer holds no data
    current,    \* subjects in the output file
    driver,     \* the run and what its driver counts
    left        \* the pending subjects that the driver has not passed

vars == <<observed, blank, current, driver, left>>

TypeOK ==
    /\ {observed, blank, current, left} \subseteq SUBSET Subject
    /\ driver \in [at : {"off", "launch", "drive", "export", "ended"}, rejects : Nat,
                   restarts : 0..MaxRestarts, unresolved : SUBSET Subject,
                   raised : BOOLEAN, code : {0, 1}]

Off == [at |-> "off", rejects |-> 0, restarts |-> 0, unresolved |-> {},
        raised |-> FALSE, code |-> 1]

Init == observed = {} /\ blank = {} /\ current = {} /\ driver = Off /\ left = {}

(* subjects[self.index] *)
Current == Min(left)
InOrder(rest) == IF rest = {} THEN "export" ELSE "drive"

-----------------------------------------------------------------------------

(* run: what earlier runs hold is not looked up again.                      *)
Start ==
    /\ driver.at \in {"off", "ended"}
    /\ left' = Subject \ observed
    /\ driver' = [Off EXCEPT !.at = IF left' = {} THEN "export" ELSE "launch"]
    /\ UNCHANGED <<observed, blank, current>>

(* _drive_session: the browser and the page are open.                       *)
OpenPage ==
    /\ driver.at = "launch"
    /\ driver' = [driver EXCEPT !.at = "drive", !.rejects = 0]
    /\ UNCHANGED <<observed, blank, current, left>>

(* A BrowserError leaves the session: another one, until the restarts are   *)
(* used up, if subjects are left.                                           *)
Broken(d, rest) ==
    IF d.restarts >= MaxRestarts THEN [d EXCEPT !.at = "export"]
    ELSE [d EXCEPT !.at = IF rest = {} THEN "export" ELSE "launch", !.restarts = @ + 1]

LaunchFails ==
    /\ driver.at = "launch"
    /\ driver' = Broken(driver, left)
    /\ UNCHANGED <<observed, blank, current, left>>

(* A final answer may hold no data, and then it becomes no row.             *)
OnSuccess ==
    /\ driver.at = "drive"
    /\ observed' = observed \cup {Current}
    /\ blank' \in {blank, blank \cup {Current}}
    /\ left' = left \ {Current}
    /\ driver' = [driver EXCEPT !.rejects = 0, !.unresolved = @ \ {Current},
                                !.at = InOrder(left')]
    /\ UNCHANGED current

PassRejected ==
    /\ driver.at = "drive"
    /\ left' = left \ {Current}
    /\ LET d == [driver EXCEPT !.rejects = @ + 1] IN
         driver' = IF d.rejects >= RejectThreshold THEN Broken(d, left')
                   ELSE [d EXCEPT !.at = InOrder(left')]
    /\ UNCHANGED <<observed, blank, current>>

(* Rejected once more after its retries: passed over; too many in a row     *)
(* end the session.                                                         *)
OnReject ==
    /\ driver.at = "drive"
    /\ left' = left \ {Current}
    /\ LET d == [driver EXCEPT !.rejects = @ + 1, !.unresolved = @ \cup {Current}] IN
         driver' = IF d.rejects >= RejectThreshold THEN Broken(d, left')
                   ELSE [d EXCEPT !.at = InOrder(left')]
    /\ UNCHANGED <<observed, blank, current>>

(* The lookup broke: the same subject is next in the next session.          *)
OnFailure ==
    /\ driver.at = "drive"
    /\ driver' = Broken([driver EXCEPT !.unresolved = @ \cup {Current}], left)
    /\ UNCHANGED <<observed, blank, current, left>>

(* Any other exception goes through the export.                             *)
Interrupt ==
    /\ driver.at \in {"launch", "drive"}
    /\ driver' = [driver EXCEPT !.at = "export", !.raised = TRUE]
    /\ UNCHANGED <<observed, blank, current, left>>

(* export_current projects each subject's answer, one rename at its end;    *)
(* then the exit code.                                                      *)
Export ==
    /\ driver.at = "export"
    /\ current' = observed \ blank
    /\ driver' = [driver EXCEPT !.at = "ended",
                    !.code = IF left = {} /\ driver.unresolved = {} /\ ~driver.raised
                             THEN 0 ELSE 1]
    /\ UNCHANGED <<observed, blank, left>>

Kill ==
    /\ driver.at \notin {"off", "ended"}
    /\ driver' = Off /\ left' = {}
    /\ UNCHANGED <<observed, blank, current>>

-----------------------------------------------------------------------------

Next ==
    \/ Start \/ OpenPage \/ LaunchFails \/ OnSuccess \/ OnReject \/ OnFailure
    \/ Interrupt \/ Export \/ Kill

Spec == Init /\ [][Next]_vars

-----------------------------------------------------------------------------

(* run.py:106: a run that exits with 0 leaves a final answer of every       *)
(* routed subject in the store, and in its output file each of them whose   *)
(* answer holds data, whatever it and the runs before it went through.      *)
SuccessMeansAllHeld ==
    driver.at = "ended" /\ driver.code = 0 =>
        observed = Subject /\ current = Subject \ blank

=============================================================================
