---------------------------- MODULE KeyRotation ----------------------------
(***************************************************************************)
(* Rotating the master key: ops.deploy rotate-key, the init service that   *)
(* prepends the key, the processes that load it, and portal-admin key      *)
(* rewrap, while the web process goes on sealing secrets.                  *)
(*                                                                         *)
(* One operator works at a time; the tool may die at any step, a           *)
(* deployment may fail, a container may restart by itself.                 *)
(***************************************************************************)
EXTENDS Naturals, Sequences, SequencesExt

CONSTANTS
    Secret,       \* credential versions and MFA secrets that can be stored
    LastVersion   \* bound: key versions 1..LastVersion

Process == {"web", "worker_api"}
Version == 1..LastVersion
NoVersion == 0

VARIABLES
    env,         \* PORTAL_MASTER_KEY_VERSION of the core compose
    file,        \* the key file's versions, the active one first
    deployment,  \* the newest deployment of the core
    loaded,      \* the active version in the memory of each process
    row,         \* the version that wraps each stored secret, NoVersion: none
    sealed,      \* a secret the web process sealed and has not stored yet
    rewriting,   \* the rows a rewrap in worker_api has still to write
    command      \* the rotate-key command

vars == <<env, file, deployment, loaded, row, sealed, rewriting, command>>

TypeOK ==
    /\ env \in Version \cup {NoVersion}
    /\ file \in Seq(Version) /\ file # <<>>
    /\ deployment \in [status : {"queued", "starting", "done", "error"}, fresh : SUBSET Process]
    /\ loaded \in [Process -> Version]
    /\ row \in [Secret -> Version \cup {NoVersion}]
    /\ sealed \in Version \cup {NoVersion}
    /\ rewriting \subseteq Secret \X Version
    /\ command \in [at : {"none", "update", "deploy", "await", "rewrap", "rewriting", "finished"},
                    version : Version \cup {NoVersion}, changed : BOOLEAN]

NoCommand == [at |-> "none", version |-> NoVersion, changed |-> FALSE]

(* init installed v1 and the first deployment finished.                     *)
Init ==
    /\ env = NoVersion /\ file = <<1>>
    /\ deployment = [status |-> "done", fresh |-> Process]
    /\ loaded = [p \in Process |-> 1]
    /\ row = [s \in Secret |-> NoVersion]
    /\ sealed = NoVersion /\ rewriting = {}
    /\ command = NoCommand

Idle == command.at \in {"none", "finished"}
Goto(at) == command' = [command EXCEPT !.at = at]

-----------------------------------------------------------------------------
(* The operator *)

(* rotate_key for a version the file never held, or the last one again.     *)
RotateKey(v) ==
    /\ Idle
    /\ v = env \/ v \notin ToSet(file) \cup 1..env
    /\ command' = [at |-> "update", version |-> v, changed |-> env # v]
    /\ UNCHANGED <<env, file, deployment, loaded, row, sealed, rewriting>>

UpdateCompose ==
    /\ command.at = "update"
    /\ env' = IF command.changed THEN command.version ELSE env
    /\ Goto("deploy")
    /\ UNCHANGED <<file, deployment, loaded, row, sealed, rewriting>>

Queued == [status |-> "queued", fresh |-> {}]

(* _deploy_if_needed: unchanged and done is left alone.                     *)
DeployIfNeeded ==
    /\ command.at = "deploy"
    /\ IF ~command.changed /\ deployment.status = "done"
       THEN Goto("rewrap") /\ UNCHANGED deployment
       ELSE Goto("await") /\ deployment' = Queued
    /\ UNCHANGED <<env, file, loaded, row, sealed, rewriting>>

AwaitNothing ==
    /\ command.at = "await"
    /\ Goto("rewrap")
    /\ UNCHANGED <<env, file, deployment, loaded, row, sealed, rewriting>>

(* _await: the new deployment finished, or the command fails.               *)
Await ==
    /\ command.at = "await"
    /\ \/ deployment.status = "done" /\ Goto("rewrap")
       \/ deployment.status = "error" /\ command' = NoCommand
    /\ UNCHANGED <<env, file, deployment, loaded, row, sealed, rewriting>>

(* A later `deploy` that changed something restarts the core.               *)
Deploy ==
    /\ Idle /\ deployment' = Queued
    /\ UNCHANGED <<env, file, loaded, row, sealed, rewriting, command>>

(* The tool dies, or gives up waiting.                                      *)
Die ==
    /\ ~Idle /\ command' = NoCommand
    /\ UNCHANGED <<env, file, deployment, loaded, row, sealed, rewriting>>

(* docs/portal-deployment.md:305: once the command finished.                *)
RemoveOldKeys ==
    /\ command.at = "finished"
    /\ file' = <<Head(file)>>
    /\ UNCHANGED <<env, deployment, loaded, row, sealed, rewriting, command>>

-----------------------------------------------------------------------------
(* The core *)

(* init: key rotate refuses a version that the file holds further down.     *)
RunInit ==
    /\ deployment.status = "queued"
    /\ IF env = NoVersion \/ env = Head(file)
       THEN file' = file /\ deployment' = [deployment EXCEPT !.status = "starting"]
       ELSE IF env \in ToSet(file)
       THEN file' = file /\ deployment' = [deployment EXCEPT !.status = "error"]
       ELSE file' = <<env>> \o file /\ deployment' = [deployment EXCEPT !.status = "starting"]
    /\ UNCHANGED <<env, loaded, row, sealed, rewriting, command>>

(* A container starts: it loads the file, and what its predecessor was      *)
(* doing is lost.                                                           *)
Starts(p) ==
    /\ loaded' = [loaded EXCEPT ![p] = Head(file)]
    /\ sealed' = IF p = "web" THEN NoVersion ELSE sealed
    /\ rewriting' = IF p = "worker_api" THEN {} ELSE rewriting
    /\ command' = IF p = "worker_api" /\ command.at = "rewriting" THEN NoCommand ELSE command
    /\ UNCHANGED <<env, file, row>>

Recreate(p) ==
    /\ deployment.status = "starting" /\ p \notin deployment.fresh
    /\ Starts(p)
    /\ deployment' = [deployment EXCEPT !.fresh = @ \cup {p},
                        !.status = IF deployment.fresh \cup {p} = Process THEN "done" ELSE @]

Restart(p) == Starts(p) /\ UNCHANGED deployment

DeploymentFails ==
    /\ deployment.status \in {"queued", "starting"}
    /\ deployment' = [deployment EXCEPT !.status = "error"]
    /\ UNCHANGED <<env, file, loaded, row, sealed, rewriting, command>>

(* protect, and the INSERT or UPDATE that stores what it sealed; an account *)
(* or a factor that goes takes its secret along.                            *)
Protect ==
    /\ sealed = NoVersion /\ sealed' = loaded["web"]
    /\ UNCHANGED <<env, file, deployment, loaded, row, rewriting, command>>

Store(s) ==
    /\ sealed # NoVersion /\ row[s] = NoVersion
    /\ row' = [row EXCEPT ![s] = sealed] /\ sealed' = NoVersion
    /\ UNCHANGED <<env, file, deployment, loaded, rewriting, command>>

Forget(s) ==
    /\ row[s] # NoVersion
    /\ row' = [row EXCEPT ![s] = NoVersion]
    /\ UNCHANGED <<env, file, deployment, loaded, sealed, rewriting, command>>

(* rewrap: the rows under another key than the file's first are listed,     *)
(* then written one by one; one that names a missing key ends it.           *)
StartRewrap ==
    /\ command.at = "rewrap"
    /\ LET old == {s \in Secret : row[s] \notin {NoVersion, Head(file)}} IN
         IF \E s \in old : row[s] \notin ToSet(file)
         THEN command' = NoCommand /\ UNCHANGED rewriting
         ELSE /\ rewriting' = rewriting \cup (old \X {Head(file)})
              /\ Goto("rewriting")
    /\ UNCHANGED <<env, file, deployment, loaded, row, sealed>>

RewrapRow(s, v) ==
    /\ <<s, v>> \in rewriting
    /\ rewriting' = rewriting \ {<<s, v>>}
    /\ row' = [row EXCEPT ![s] = IF @ = NoVersion THEN @ ELSE v]
    /\ UNCHANGED <<env, file, deployment, loaded, sealed, command>>

Finish ==
    /\ command.at = "rewriting" /\ rewriting = {}
    /\ Goto("finished")
    /\ UNCHANGED <<env, file, deployment, loaded, row, sealed, rewriting>>

-----------------------------------------------------------------------------

Next ==
    \/ \E v \in Version : RotateKey(v)
    \/ UpdateCompose \/ DeployIfNeeded \/ Await \/ Deploy \/ Die \/ RemoveOldKeys
    \/ RunInit \/ DeploymentFails
    \/ \E p \in Process : Recreate(p) \/ Restart(p)
    \/ Protect \/ StartRewrap \/ Finish
    \/ \E s \in Secret : Store(s) \/ Forget(s) \/ \E v \in Version : RewrapRow(s, v)

Spec == Init /\ [][Next]_vars

-----------------------------------------------------------------------------

(* deploy.py:333: when a rotation finishes and init has installed its key,  *)
(* every process seals with that key and no secret is left under another,   *)
(* stored or on its way into the database.                                  *)
FinishedMeansRotated ==
    [][command.at = "rewriting" /\ command'.at = "finished" /\ Head(file) = command.version
         => /\ \A p \in Process : loaded[p] = command.version
            /\ \A s \in Secret : row[s] \in {NoVersion, command.version}
            /\ sealed \in {NoVersion, command.version}]_vars

(* docs/portal-deployment.md:301: after any failure the command is run      *)
(* again, and once it has finished the old key lines can be removed: every  *)
(* stored secret still names a key of the file.                             *)
SecretsNameAKey == \A s \in Secret : row[s] \in ToSet(file) \cup {NoVersion}

=============================================================================
