--------------------------- MODULE WorkerRemoval ---------------------------
(***************************************************************************)
(* One worker's identity: enrolment by its agent, issue and revocation     *)
(* (worker/routes.py, repository/workers.py, admin/workers.py), and the    *)
(* ops.deploy commands that place a worker and take it away.               *)
(*                                                                         *)
(* The tool may die at any step and is run again. Stopping the agent's     *)
(* compose does not end a request that worker-api has of it: the enrolment *)
(* goes on and may issue what the removal has just taken away.             *)
(***************************************************************************)
EXTENDS Naturals

VARIABLES
    identity,   \* portal_workers: "absent", "valid", "revoked"
    login,      \* whether the worker's database role can log in
    compose,    \* the worker's compose: "absent", "running", "stopped"
    enrolling,  \* enrolments in worker-api: "asked", or "issued" and without a
                \* role yet; two at the same point count as one
    schedule,   \* the revoke schedule: "absent", "new", or "done" once a run is
    revoking,   \* runs between their statements: the tool's own, a dead tool's
    tool,       \* what ops.deploy is doing
    unsettled   \* whether the agent may have been issued something since the
                \* last revocation began: an enrolment was under way then,
                \* another run ended before it, or the worker was placed again

vars == <<identity, login, compose, enrolling, schedule, revoking, tool, unsettled>>

Place == {"idle", "stop", "schedule", "run", "delete", "forget", "removed"}

TypeOK ==
    /\ identity \in {"absent", "valid", "revoked"}
    /\ compose \in {"absent", "running", "stopped"}
    /\ login \in BOOLEAN /\ unsettled \in BOOLEAN
    /\ enrolling \subseteq {"asked", "issued"}
    /\ schedule \in {"absent", "new", "done"} /\ revoking \subseteq {"own", "orphan"}
    /\ tool \in Place

Init ==
    /\ identity = "absent" /\ login = FALSE /\ unsettled = TRUE
    /\ compose = "absent" /\ enrolling = {}
    /\ schedule = "absent" /\ revoking = {} /\ tool = "idle"

-----------------------------------------------------------------------------
(* The worker *)

(* The agent enrols on every start, so at any time while its compose runs.  *)
AskToEnroll ==
    /\ compose = "running" /\ enrolling' = enrolling \cup {"asked"}
    /\ UNCHANGED <<identity, login, compose, schedule, revoking, tool, unsettled>>

(* worker_enroll: the identity, unrevoked, and then the role.               *)
EnrollIdentity ==
    /\ "asked" \in enrolling /\ enrolling' = (enrolling \ {"asked"}) \cup {"issued"}
    /\ identity' = "valid"
    /\ UNCHANGED <<login, compose, schedule, revoking, tool, unsettled>>

EnrollRole ==
    /\ "issued" \in enrolling /\ enrolling' = enrolling \ {"issued"}
    /\ login' = TRUE
    /\ UNCHANGED <<identity, compose, schedule, revoking, tool, unsettled>>

(* worker-api dies, or the statement fails.                                 *)
EnrollDies(step) ==
    /\ step \in enrolling /\ enrolling' = enrolling \ {step}
    /\ UNCHANGED <<identity, login, compose, schedule, revoking, tool, unsettled>>

(* deploy: a worker of the env file runs.                                   *)
DeployWorker ==
    /\ tool \in {"idle", "removed"} /\ compose # "running"
    /\ compose' = "running" /\ tool' = "idle" /\ unsettled' = TRUE
    /\ UNCHANGED <<identity, login, enrolling, schedule, revoking>>

-----------------------------------------------------------------------------
(* remove_worker *)

RemoveWorker ==
    /\ tool \in {"idle", "removed"}
    /\ compose # "absent" \/ schedule # "absent"
    /\ tool' = IF compose = "absent" THEN "schedule" ELSE "stop"
    /\ UNCHANGED <<identity, login, compose, enrolling, schedule, revoking, unsettled>>

LeaveRunning ==
    /\ tool = "stop" /\ tool' = "schedule"
    /\ UNCHANGED <<identity, login, compose, enrolling, schedule, revoking, unsettled>>

StopCompose ==
    /\ tool = "stop" /\ tool' = "schedule"
    /\ compose' = "stopped"
    /\ UNCHANGED <<identity, login, enrolling, schedule, revoking, unsettled>>

(* _run_schedule with once: created unless it is there, and a run that is   *)
(* done is not repeated, whatever was issued since.                         *)
PrepareSchedule ==
    /\ tool = "schedule"
    /\ schedule' = IF schedule = "absent" THEN "new" ELSE schedule
    /\ tool' = IF schedule = "done" THEN "delete" ELSE "run"
    /\ UNCHANGED <<identity, login, compose, enrolling, revoking, unsettled>>

(* portal-admin worker revoke: the identity, or an error; then the role.    *)
RevokeIdentity ==
    /\ tool = "run" /\ "own" \notin revoking
    /\ IF identity = "valid"
       THEN /\ identity' = "revoked" /\ revoking' = revoking \cup {"own"}
            /\ unsettled' = (enrolling # {} \/ schedule = "done")
            /\ UNCHANGED tool
       ELSE tool' = "idle" /\ UNCHANGED <<identity, revoking, unsettled>>
    /\ UNCHANGED <<login, compose, enrolling, schedule>>

RevokeRole(run) ==
    /\ run \in revoking /\ revoking' = revoking \ {run}
    /\ login' = FALSE
    /\ schedule' = IF schedule = "absent" THEN schedule ELSE "done"
    /\ tool' = IF run = "own" THEN "delete" ELSE tool
    /\ UNCHANGED <<identity, compose, enrolling, unsettled>>

(* The revocation dies between its statements; its command reports that.    *)
RevokeDies(run) ==
    /\ run \in revoking /\ revoking' = revoking \ {run}
    /\ tool' = IF run = "own" THEN "idle" ELSE tool
    /\ UNCHANGED <<identity, login, compose, enrolling, schedule, unsettled>>

DeleteCompose ==
    /\ tool = "delete" /\ tool' = "forget"
    /\ compose' = "absent"
    /\ UNCHANGED <<identity, login, enrolling, schedule, revoking, unsettled>>

ForgetSchedule ==
    /\ tool = "forget" /\ tool' = "removed"
    /\ schedule' = "absent"
    /\ UNCHANGED <<identity, login, compose, enrolling, revoking, unsettled>>

ToolDies ==
    /\ tool \notin {"idle", "removed"} /\ tool' = "idle"
    /\ revoking' = IF "own" \in revoking THEN {"orphan"} ELSE revoking
    /\ UNCHANGED <<identity, login, compose, enrolling, schedule, unsettled>>

-----------------------------------------------------------------------------

Next ==
    \/ AskToEnroll \/ EnrollIdentity \/ EnrollRole
    \/ \E step \in enrolling : EnrollDies(step)
    \/ DeployWorker
    \/ RemoveWorker \/ StopCompose \/ PrepareSchedule \/ RevokeIdentity
    \/ \E run \in revoking : RevokeRole(run) \/ RevokeDies(run)
    \/ DeleteCompose \/ ForgetSchedule \/ ToolDies

Spec == Init /\ [][Next]_vars

-----------------------------------------------------------------------------

(* deploy.py:384, :652: a removal ends with the identity revoked and the    *)
(* role unable to log in, whether it ran the revocation or skipped it as    *)
(* done, and whatever interrupted removals did, unless the worker may have  *)
(* been issued something after that revocation began (unsettled).           *)
RemovedIsRevoked == tool = "removed" => unsettled \/ (identity = "revoked" /\ ~login)

=============================================================================
