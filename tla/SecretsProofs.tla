--------------------------- MODULE SecretsProofs ---------------------------
(***************************************************************************)
(* Proxy credentials, the removal of a worker and the rotation of the      *)
(* master key of Components, for any connections, versions, secrets and    *)
(* keys.                                                                   *)
(***************************************************************************)
EXTENDS Components, Sequences, FiniteSetTheorems, SequenceTheorems, TLAPS

-----------------------------------------------------------------------------
(***************************************************************************)
(* CredentialsHold for any number of connections, versions and jobs.       *)
(* Validations of one connection overlap without any order, so that two    *)
(* versions may be about to become active: what keeps one at a time is     *)
(* that an activation retires the other in its own transaction, and what   *)
(* keeps a connection usable is that nothing else retires a version.       *)
(***************************************************************************)

(* The one active version of a connection.                                  *)
OneActive ==
    \A v, w \in Proxy!CredentialVersion :
        v[1] = w[1] /\ lifecycle[v] = "active" /\ lifecycle[w] = "active" => v = w

(* A job that passed its check names a version that was active once.        *)
JobsAccepted ==
    \A j \in Job : job[j].at # "none" => lifecycle[job[j].of] \in {"active", "retired"}

CredentialInv == Proxy!TypeOK /\ OneActive /\ JobsAccepted

-----------------------------------------------------------------------------

LEMMA InitialCredentials ==
  ASSUME Proxy!Init
  PROVE  CredentialInv
<1>1. Proxy!CredentialVersion # {}
  <2>1. PICK c \in Connection : TRUE
    BY VersionsAssumption
  <2>2. 1 \in 1..LastVersion
    BY VersionsAssumption
  <2>3. <<c, 1>> \in Proxy!CredentialVersion
    BY <2>2 DEF Proxy!CredentialVersion
  <2> QED
    BY <2>3
<1>2. PICK of \in Proxy!CredentialVersion : Proxy!NoJob = [at |-> "none", of |-> of]
  BY <1>1 DEF Proxy!NoJob
<1>3. Proxy!TypeOK
  BY <1>2 DEF Proxy!Init, Proxy!TypeOK, Proxy!Lifecycle
<1>4. OneActive /\ JobsAccepted
  BY <1>2 DEF Proxy!Init, OneActive, JobsAccepted
<1> QED
  BY <1>3, <1>4 DEF CredentialInv

(* A new version is validating, and no job can have named it.               *)
LEMMA StartKeeps ==
  ASSUME CredentialInv, NEW l \in Label, Proxy!StartValidation(l)
  PROVE  CredentialInv' /\ \A c \in Connection : Proxy!ActiveOf(c) \subseteq Proxy!ActiveOf(c)'
<1>1. PICK c \in Connection, n \in 1..LastVersion :
         /\ lifecycle[<<c, n>>] = "none"
         /\ lifecycle' = [lifecycle EXCEPT ![<<c, n>>] = "validating"]
         /\ preflights' = preflights \cup {<<c, n>>}
         /\ label' = [label EXCEPT ![c] = l]
         /\ retired' = retired \ {c}
         /\ job' = job
  BY DEF Proxy!StartValidation
<1> DEFINE v == <<c, n>>
<1>2. v \in Proxy!CredentialVersion
  BY DEF Proxy!CredentialVersion
<1> HIDE DEF v
<1>3. /\ lifecycle[v] = "none"
      /\ lifecycle' = [lifecycle EXCEPT ![v] = "validating"]
      /\ preflights' = preflights \cup {v}
  BY <1>1 DEF v
<1>4. Proxy!TypeOK'
  BY <1>1, <1>2, <1>3 DEF CredentialInv, Proxy!TypeOK, Proxy!Lifecycle
<1>5. \A w \in Proxy!CredentialVersion : lifecycle'[w] = IF w = v THEN "validating" ELSE lifecycle[w]
  BY <1>3 DEF CredentialInv, Proxy!TypeOK
<1>6. OneActive'
  BY <1>5 DEF CredentialInv, OneActive
<1>7. JobsAccepted'
  <2>1. \A j \in Job : job[j].of \in Proxy!CredentialVersion
    BY DEF CredentialInv, Proxy!TypeOK
  <2> QED
    BY <1>1, <1>3, <1>5, <2>1 DEF CredentialInv, JobsAccepted
<1>8. \A d \in Connection : Proxy!ActiveOf(d) \subseteq Proxy!ActiveOf(d)'
  BY <1>3, <1>5 DEF Proxy!ActiveOf, Proxy!VersionsOf
<1> QED
  BY <1>4, <1>6, <1>7, <1>8 DEF CredentialInv

(* An outcome of a preflight. An activation takes the place of the version  *)
(* that was active, in one transaction.                                     *)
LEMMA FinishKeeps ==
  ASSUME CredentialInv, NEW v \in Proxy!CredentialVersion, NEW state \in {"active", "failed"},
         Proxy!FinishValidation(v, state)
  PROVE  CredentialInv' /\ \A c \in Connection : Proxy!ActiveOf(c) # {} => Proxy!ActiveOf(c)' # {}
<1>1. lifecycle[v] = "validating" /\ job' = job
  BY DEF Proxy!FinishValidation
<1>2. \A w \in Proxy!CredentialVersion : lifecycle'[w] =
        IF w = v THEN state
        ELSE IF state = "active" /\ w[1] = v[1] /\ lifecycle[w] = "active" THEN "retired"
        ELSE lifecycle[w]
  BY DEF Proxy!FinishValidation, Proxy!Finished, Proxy!ActiveOf, Proxy!VersionsOf
<1>3. Proxy!TypeOK'
  <2>1. lifecycle' \in [Proxy!CredentialVersion -> Proxy!Lifecycle]
    BY DEF Proxy!FinishValidation, Proxy!Finished, CredentialInv, Proxy!TypeOK, Proxy!Lifecycle
  <2> QED
    BY <2>1 DEF Proxy!FinishValidation, CredentialInv, Proxy!TypeOK
<1>4. OneActive'
  BY <1>1, <1>2 DEF CredentialInv, OneActive
<1>5. JobsAccepted'
  <2>1. \A j \in Job : job[j].of \in Proxy!CredentialVersion
    BY DEF CredentialInv, Proxy!TypeOK
  <2> QED
    BY <1>1, <1>2, <2>1 DEF CredentialInv, JobsAccepted
<1>6. ASSUME NEW c \in Connection, Proxy!ActiveOf(c) # {} PROVE Proxy!ActiveOf(c)' # {}
  <2>1. PICK w \in Proxy!CredentialVersion : w[1] = c /\ lifecycle[w] = "active"
    BY <1>6 DEF Proxy!ActiveOf, Proxy!VersionsOf
  <2>2. lifecycle'[w] = "active" \/ (lifecycle'[v] = "active" /\ v[1] = c)
    BY <1>1, <1>2, <2>1
  <2> QED
    BY <2>1, <2>2 DEF Proxy!ActiveOf, Proxy!VersionsOf
<1> QED
  BY <1>3, <1>4, <1>5, <1>6 DEF CredentialInv

(* No other step touches a version's state.                                 *)
LEMMA CheckKeeps ==
  ASSUME CredentialInv, lifecycle' = lifecycle, Proxy!TypeOK',
         \A j \in Job : \/ job'[j] = job[j]
                        \/ job[j].at = "checked" /\ job'[j].of = job[j].of
                        \/ lifecycle[job'[j].of] = "active"
  PROVE  CredentialInv' /\ \A c \in Connection : Proxy!ActiveOf(c) = Proxy!ActiveOf(c)'
BY DEF CredentialInv, OneActive, JobsAccepted, Proxy!ActiveOf, Proxy!VersionsOf

LEMMA CredentialStep ==
  ASSUME CredentialInv, [Proxy!Next]_(Proxy!vars)
  PROVE  CredentialInv' /\ \A c \in Connection : Proxy!ActiveOf(c) # {} => Proxy!ActiveOf(c)' # {}
<1>1. ASSUME NEW l \in Label, Proxy!StartValidation(l)
      PROVE  CredentialInv' /\ \A c \in Connection : Proxy!ActiveOf(c) # {} => Proxy!ActiveOf(c)' # {}
  BY <1>1, StartKeeps
<1>2. ASSUME NEW v \in Proxy!CredentialVersion,
             Proxy!FinishValidation(v, "active") \/ Proxy!FinishValidation(v, "failed")
      PROVE  CredentialInv' /\ \A c \in Connection : Proxy!ActiveOf(c) # {} => Proxy!ActiveOf(c)' # {}
  BY <1>2, FinishKeeps
<1>3. ASSUME NEW v \in Proxy!CredentialVersion, Proxy!Crash(v)
      PROVE  Proxy!TypeOK' /\ UNCHANGED <<lifecycle, job>>
  BY <1>3 DEF Proxy!Crash, CredentialInv, Proxy!TypeOK
<1>4. ASSUME NEW c \in Connection, Proxy!RetireCredential(c)
      PROVE  Proxy!TypeOK' /\ UNCHANGED <<lifecycle, job>>
  BY <1>4 DEF Proxy!RetireCredential, CredentialInv, Proxy!TypeOK
<1>5. ASSUME NEW c \in Connection, NEW l \in Label, Proxy!RenameCredential(c, l)
      PROVE  Proxy!TypeOK' /\ UNCHANGED <<lifecycle, job>>
  BY <1>5 DEF Proxy!RenameCredential, CredentialInv, Proxy!TypeOK
<1>6. ASSUME UNCHANGED Proxy!vars PROVE Proxy!TypeOK' /\ UNCHANGED <<lifecycle, job>>
  BY <1>6 DEF Proxy!vars, CredentialInv, Proxy!TypeOK
<1>7. ASSUME NEW j \in Job, NEW v \in Proxy!CredentialVersion, Proxy!CheckCredential(j, v)
      PROVE  CredentialInv' /\ \A c \in Connection : Proxy!ActiveOf(c) = Proxy!ActiveOf(c)'
  <2>1. Proxy!TypeOK' /\ lifecycle' = lifecycle
    BY <1>7 DEF Proxy!CheckCredential, CredentialInv, Proxy!TypeOK
  <2>2. \A i \in Job : job'[i] = job[i] \/ lifecycle[job'[i].of] = "active"
    BY <1>7 DEF Proxy!CheckCredential, Proxy!Usable, CredentialInv, Proxy!TypeOK
  <2> QED
    BY <2>1, <2>2, CheckKeeps
<1>8. ASSUME NEW j \in Job, Proxy!Admit(j)
      PROVE  CredentialInv' /\ \A c \in Connection : Proxy!ActiveOf(c) = Proxy!ActiveOf(c)'
  <2>1. Proxy!TypeOK' /\ lifecycle' = lifecycle
    BY <1>8 DEF Proxy!Admit, CredentialInv, Proxy!TypeOK
  <2>2. \A i \in Job : job'[i] = job[i] \/ (job[i].at = "checked" /\ job'[i].of = job[i].of)
    BY <1>8 DEF Proxy!Admit, CredentialInv, Proxy!TypeOK
  <2> QED
    BY <2>1, <2>2, CheckKeeps
<1>9. ASSUME Proxy!TypeOK' /\ UNCHANGED <<lifecycle, job>>
      PROVE  CredentialInv' /\ \A c \in Connection : Proxy!ActiveOf(c) = Proxy!ActiveOf(c)'
  BY <1>9, CheckKeeps
<1> QED
  BY <1>1, <1>2, <1>3, <1>4, <1>5, <1>6, <1>7, <1>8, <1>9 DEF Proxy!Next

(* OneActive, as the run counts it.                                         *)
LEMMA AtMostOne ==
  ASSUME OneActive, NEW c \in Connection
  PROVE  Proxy!Cardinality(Proxy!ActiveOf(c)) <= 1
<1>1. Proxy!Cardinality(Proxy!ActiveOf(c)) = Cardinality(Proxy!ActiveOf(c))
  BY DEF Proxy!Cardinality, Cardinality
<1>2. CASE Proxy!ActiveOf(c) = {}
  <2>1. Cardinality(Proxy!ActiveOf(c)) = 0
    BY <1>2, FS_EmptySet
  <2> QED
    BY <1>1, <2>1
<1>3. CASE Proxy!ActiveOf(c) # {}
  <2>1. PICK v : v \in Proxy!ActiveOf(c)
    BY <1>3
  <2>2. Proxy!ActiveOf(c) = {v}
    BY <2>1 DEF Proxy!ActiveOf, Proxy!VersionsOf, OneActive
  <2>3. Cardinality(Proxy!ActiveOf(c)) = 1
    BY <2>2, FS_Singleton
  <2> QED
    BY <1>1, <2>3
<1> QED
  BY <1>2, <1>3

-----------------------------------------------------------------------------

(* What the whole does to connections, they do.                             *)
LEMMA ProxyAlone == Spec => Proxy!Spec
<1>1. Init => Proxy!Init
  BY DEF Init
<1>2. [Next]_vars => [Proxy!Next]_(Proxy!vars)
  BY DEF Next, Only, vars, Proxy!vars
<1> QED
  BY <1>1, <1>2, PTL DEF Spec, Proxy!Spec

(* credentials.py:226, service.py:541: validations of one connection end in *)
(* any order, fail or die; at most one of its versions is active, one that  *)
(* has an active version never ends up without, and a job runs under a      *)
(* version the provider accepted.                                           *)
THEOREM CredentialsAreSafe == Spec => CredentialsHold
<1>1. Proxy!Init => CredentialInv
  BY InitialCredentials
<1>2. CredentialInv /\ [Proxy!Next]_(Proxy!vars) => CredentialInv'
  BY CredentialStep
<1>3. CredentialInv /\ [Proxy!Next]_(Proxy!vars)
        => [/\ \A c \in Connection :
                 /\ Proxy!Cardinality(Proxy!ActiveOf(c)) <= 1
                 /\ Proxy!ActiveOf(c) # {} => Proxy!ActiveOf(c)' # {}
            /\ \A j \in Job :
                 job[j].at = "admitted" => lifecycle[job[j].of] \in {"active", "retired"}]_(Proxy!vars)
  <2> SUFFICES ASSUME CredentialInv, [Proxy!Next]_(Proxy!vars)
               PROVE  /\ \A c \in Connection :
                           /\ Proxy!Cardinality(Proxy!ActiveOf(c)) <= 1
                           /\ Proxy!ActiveOf(c) # {} => Proxy!ActiveOf(c)' # {}
                      /\ \A j \in Job :
                           job[j].at = "admitted" => lifecycle[job[j].of] \in {"active", "retired"}
    OBVIOUS
  <2>1. \A c \in Connection : Proxy!Cardinality(Proxy!ActiveOf(c)) <= 1
    BY AtMostOne DEF CredentialInv
  <2>2. \A c \in Connection : Proxy!ActiveOf(c) # {} => Proxy!ActiveOf(c)' # {}
    BY CredentialStep
  <2>3. \A j \in Job : job[j].at = "admitted" => lifecycle[job[j].of] \in {"active", "retired"}
    BY DEF CredentialInv, JobsAccepted
  <2> QED
    BY <2>1, <2>2, <2>3
<1>4. Proxy!Spec => Proxy!CredentialsHold
  BY <1>1, <1>2, <1>3, PTL DEF Proxy!Spec, Proxy!CredentialsHold
<1> QED
  BY <1>4, ProxyAlone, PTL DEF CredentialsHold

-----------------------------------------------------------------------------
(***************************************************************************)
(* The removal of a worker. What the agent is issued while its compose     *)
(* runs, or was asked for before, can be taken away for good only by a     *)
(* revocation that begins when nothing is under way; and a removal can be  *)
(* told that its revocation is done by one that another, dead tool began.  *)
(* Settled says what a revocation that found nothing under way leaves.     *)
(***************************************************************************)

(* The compose has stopped once the command went on from stopping it.       *)
Stopped ==
    /\ tool \in {"schedule", "run", "delete", "forget", "removed"} => compose # "running"
    /\ "own" \in revoking => tool = "run"

(* Nothing was issued since the revocation began, so that a run that is on  *)
(* record, and a command that is past its run, have taken the role as well. *)
Settled ==
    ~unsettled =>
        /\ enrolling = {} /\ compose # "running" /\ identity = "revoked"
        /\ schedule = "done" \/ tool \in {"delete", "forget", "removed"} => ~login

RemovalInv == Removal!TypeOK /\ Stopped /\ Settled

LEMMA RemovalKeeps ==
  ASSUME RemovalInv, [Removal!Next]_(Removal!vars)
  PROVE  RemovalInv'
<1> USE DEF RemovalInv, Removal!TypeOK, Removal!Place
<1>1. CASE Removal!AskToEnroll
  BY <1>1 DEF Removal!AskToEnroll, Stopped, Settled
<1>2. CASE Removal!EnrollIdentity
  BY <1>2 DEF Removal!EnrollIdentity, Stopped, Settled
<1>3. CASE Removal!EnrollRole
  BY <1>3 DEF Removal!EnrollRole, Stopped, Settled
<1>4. ASSUME NEW step \in enrolling, Removal!EnrollDies(step)
      PROVE  RemovalInv'
  BY <1>4 DEF Removal!EnrollDies, Stopped, Settled
<1>5. CASE Removal!DeployWorker
  BY <1>5 DEF Removal!DeployWorker, Stopped, Settled
<1>6. CASE Removal!RemoveWorker
  BY <1>6 DEF Removal!RemoveWorker, Stopped, Settled
<1>7. CASE Removal!StopCompose
  BY <1>7 DEF Removal!StopCompose, Stopped, Settled
<1>8. CASE Removal!PrepareSchedule
  BY <1>8 DEF Removal!PrepareSchedule, Stopped, Settled
<1>9. CASE Removal!RevokeIdentity
  <2>1. CASE identity = "valid"
    <3>1. /\ identity' = "revoked" /\ revoking' = revoking \cup {"own"} /\ tool = "run"
          /\ UNCHANGED <<tool, login, compose, enrolling, schedule>>
          /\ unsettled' = (enrolling # {} \/ schedule = "done")
      BY <1>9, <2>1 DEF Removal!RevokeIdentity
    <3>2. unsettled' \in BOOLEAN
      BY <3>1
    <3>3. Removal!TypeOK' /\ Stopped'
      BY <3>1, <3>2 DEF Stopped
    <3>4. Settled'
      BY <3>1 DEF Stopped, Settled
    <3> QED
      BY <3>3, <3>4
  <2>2. CASE identity # "valid"
    BY <1>9, <2>2 DEF Removal!RevokeIdentity, Stopped, Settled
  <2> QED
    BY <2>1, <2>2
<1>10. ASSUME NEW run \in revoking, Removal!RevokeRole(run)
       PROVE  RemovalInv'
  BY <1>10 DEF Removal!RevokeRole, Stopped, Settled
<1>11. ASSUME NEW run \in revoking, Removal!RevokeDies(run)
       PROVE  RemovalInv'
  BY <1>11 DEF Removal!RevokeDies, Stopped, Settled
<1>12. CASE Removal!DeleteCompose
  BY <1>12 DEF Removal!DeleteCompose, Stopped, Settled
<1>13. CASE Removal!ForgetSchedule
  BY <1>13 DEF Removal!ForgetSchedule, Stopped, Settled
<1>14. CASE Removal!ToolDies
  BY <1>14 DEF Removal!ToolDies, Stopped, Settled
<1>15. CASE UNCHANGED Removal!vars
  BY <1>15 DEF Removal!vars, Stopped, Settled
<1> QED
  BY <1>1, <1>2, <1>3, <1>4, <1>5, <1>6, <1>7, <1>8, <1>9, <1>10, <1>11, <1>12, <1>13, <1>14,
     <1>15 DEF Removal!Next

(* What the whole does to the worker, it does.                              *)
LEMMA RemovalAlone == Spec => Removal!Spec
<1>1. Init => Removal!Init
  BY DEF Init
<1>2. [Next]_vars => [Removal!Next]_(Removal!vars)
  BY DEF Next, Only, vars, Removal!vars
<1> QED
  BY <1>1, <1>2, PTL DEF Spec, Removal!Spec

(* deploy.py:384, :652: a removal ends with the identity revoked and the    *)
(* role unable to log in, whether it ran the revocation or skipped it, and  *)
(* whatever tools and enrolments died before, unless the worker may have    *)
(* been issued something after the revocation began.                        *)
THEOREM RemovedIsRevokedHolds == Spec => []RemovedIsRevoked
<1>1. Removal!Init => RemovalInv
  BY DEF Removal!Init, RemovalInv, Removal!TypeOK, Removal!Place, Stopped, Settled
<1>2. RemovalInv /\ [Removal!Next]_(Removal!vars) => RemovalInv'
  BY RemovalKeeps
<1>3. RemovalInv => RemovedIsRevoked
  BY DEF RemovalInv, Settled, RemovedIsRevoked, Removal!RemovedIsRevoked
<1> QED
  BY <1>1, <1>2, <1>3, RemovalAlone, PTL DEF Removal!Spec

-----------------------------------------------------------------------------
(***************************************************************************)
(* The rotation of the master key. A deployment that finished has started  *)
(* both processes since the key file last got a new head, and a process    *)
(* that starts forgets what its predecessor sealed or had still to write:  *)
(* that is why the rows listed by the rewrap of a command that waited for   *)
(* its deployment are all there is under an older key.                      *)
(***************************************************************************)

(* What the processes started by the newest deployment do, they do under    *)
(* the head of the file.                                                     *)
CoreLoads ==
    /\ deployment.status = "queued" => deployment.fresh = {}
    /\ deployment.status = "done" => deployment.fresh = Keys!Process
    /\ deployment.status \in {"starting", "done"} =>
         /\ \A p \in deployment.fresh : loaded[p] = Head(file)
         /\ "web" \in deployment.fresh => sealed \in {Keys!NoVersion, Head(file)}
         /\ "worker_api" \in deployment.fresh =>
              \A s \in Secret, v \in Keys!Version : <<s, v>> \in rewriting => v = Head(file)

(* A command rewraps after its deployment, and has listed every row that is *)
(* under an older key.                                                      *)
Rewraps ==
    /\ command.at \in {"rewrap", "rewriting"} => deployment.status = "done"
    /\ command.at = "rewriting" =>
         \A s \in Secret : \/ row[s] \in {Keys!NoVersion, Head(file)}
                           \/ <<s, Head(file)>> \in rewriting

KeysInv == Keys!TypeOK /\ CoreLoads /\ Rewraps

LEMMA InitialKeys ==
  ASSUME Keys!Init
  PROVE  KeysInv
<1> USE KeysAssumption DEF Keys!Init, Keys!Version, Keys!NoVersion, Keys!NoCommand, Keys!Process
<1>1. Keys!TypeOK
  BY DEF Keys!TypeOK
<1>2. CoreLoads /\ Rewraps
  BY DEF CoreLoads, Rewraps
<1> QED
  BY <1>1, <1>2 DEF KeysInv

(* The head of the file is a version.                                       *)
LEMMA HeadOfFile ==
  ASSUME Keys!TypeOK
  PROVE  Head(file) \in Keys!Version /\ Head(file) # Keys!NoVersion
<1>1. Head(file) \in Keys!Version
  BY DEF Keys!TypeOK
<1> QED
  BY <1>1, KeysAssumption DEF Keys!Version, Keys!NoVersion

(* The steps of the command.                                                *)
LEMMA CommandKeeps ==
  ASSUME KeysInv,
         \/ \E v \in Keys!Version : Keys!RotateKey(v)
         \/ Keys!UpdateCompose \/ Keys!DeployIfNeeded \/ Keys!Await \/ Keys!Deploy \/ Keys!Die
         \/ Keys!Finish
  PROVE  KeysInv'
<1> USE DEF KeysInv, Keys!NoVersion
<1>1. ASSUME NEW v \in Keys!Version, Keys!RotateKey(v) PROVE KeysInv'
  BY <1>1 DEF Keys!RotateKey, Keys!TypeOK, CoreLoads, Rewraps
<1>2. ASSUME Keys!UpdateCompose PROVE KeysInv'
  BY <1>2 DEF Keys!UpdateCompose, Keys!Goto, Keys!TypeOK, CoreLoads, Rewraps
<1>3. ASSUME Keys!DeployIfNeeded PROVE KeysInv'
  BY <1>3 DEF Keys!DeployIfNeeded, Keys!Queued, Keys!Goto, Keys!TypeOK, CoreLoads, Rewraps
<1>4. ASSUME Keys!Await PROVE KeysInv'
  <2>1. CASE deployment.status = "done" /\ Keys!Goto("rewrap")
    BY <1>4, <2>1 DEF Keys!Await, Keys!Goto, Keys!TypeOK, CoreLoads, Rewraps
  <2>2. CASE command' = Keys!NoCommand
    BY <1>4, <2>2 DEF Keys!Await, Keys!NoCommand, Keys!TypeOK, CoreLoads, Rewraps
  <2> QED
    BY <1>4, <2>1, <2>2 DEF Keys!Await
<1>5. ASSUME Keys!Deploy PROVE KeysInv'
  BY <1>5 DEF Keys!Deploy, Keys!Idle, Keys!Queued, Keys!TypeOK, CoreLoads, Rewraps
<1>6. ASSUME Keys!Die PROVE KeysInv'
  BY <1>6 DEF Keys!Die, Keys!NoCommand, Keys!TypeOK, CoreLoads, Rewraps
<1>7. ASSUME Keys!Finish PROVE KeysInv'
  BY <1>7 DEF Keys!Finish, Keys!Goto, Keys!TypeOK, CoreLoads, Rewraps
<1> QED
  BY <1>1, <1>2, <1>3, <1>4, <1>5, <1>6, <1>7

(* The steps that start or end a deployment, or change the file.            *)
LEMMA DeploymentKeeps ==
  ASSUME KeysInv, Keys!RemoveOldKeys \/ Keys!RunInit \/ Keys!DeploymentFails
  PROVE  KeysInv'
<1> USE HeadOfFile DEF KeysInv, Keys!NoVersion
<1>1. ASSUME Keys!RemoveOldKeys PROVE KeysInv'
  <2>1. file' \in Seq(Keys!Version) /\ file' # <<>> /\ Head(file') = Head(file)
    BY <1>1 DEF Keys!RemoveOldKeys
  <2> QED
    BY <1>1, <2>1 DEF Keys!RemoveOldKeys, Keys!TypeOK, CoreLoads, Rewraps
<1>2. ASSUME Keys!RunInit PROVE KeysInv'
  <2>1. file' \in Seq(Keys!Version) /\ file' # <<>>
    <3>1. file \in Seq(Keys!Version) /\ file # <<>> /\ env \in Keys!Version \cup {0}
      BY DEF Keys!TypeOK
    <3>2. file' = file \/ (env # 0 /\ file' = <<env>> \o file)
      BY <1>2 DEF Keys!RunInit
    <3>3. ASSUME env \in Keys!Version
          PROVE  <<env>> \o file \in Seq(Keys!Version) /\ <<env>> \o file # <<>>
      <4>1. <<env>> \in Seq(Keys!Version) /\ <<env>> # <<>>
        BY <3>3
      <4> HIDE HeadOfFile DEF KeysInv
      <4> QED
        BY <3>1, <4>1, ConcatProperties, ConcatEqualIffEmpty
    <3> QED
      BY <3>1, <3>2, <3>3
  <2>2. deployment' \in [status : {"starting", "error"}, fresh : {{}}]
    <3>1. /\ deployment.status = "queued" /\ deployment.fresh = {}
          /\ \E status \in {"starting", "error"} :
               deployment' = [deployment EXCEPT !.status = status]
      BY <1>2 DEF Keys!RunInit, CoreLoads
    <3>2. deployment \in [status : {"queued", "starting", "done", "error"}, fresh : SUBSET Keys!Process]
      BY DEF Keys!TypeOK
    <3> QED
      BY <3>1, <3>2
  <2>3. command.at \notin {"rewrap", "rewriting"}
    BY <1>2 DEF Keys!RunInit, Rewraps
  <2> QED
    BY <1>2, <2>1, <2>2, <2>3 DEF Keys!RunInit, Keys!TypeOK, CoreLoads, Rewraps
<1>3. ASSUME Keys!DeploymentFails PROVE KeysInv'
  BY <1>3 DEF Keys!DeploymentFails, Keys!TypeOK, CoreLoads, Rewraps
<1> QED
  BY <1>1, <1>2, <1>3

(* A process that starts loads the head of the file and has sealed nothing. *)
LEMMA StartKeepsKeys ==
  ASSUME KeysInv, NEW p \in Keys!Process, Keys!Recreate(p) \/ Keys!Restart(p)
  PROVE  KeysInv'
<1> USE HeadOfFile DEF KeysInv, Keys!NoVersion
<1>1. /\ loaded' = [loaded EXCEPT ![p] = Head(file)] /\ UNCHANGED <<env, file, row>>
      /\ sealed' = IF p = "web" THEN 0 ELSE sealed
      /\ rewriting' = IF p = "worker_api" THEN {} ELSE rewriting
      /\ command' = command \/ command' = Keys!NoCommand
      /\ p = "worker_api" => command'.at # "rewriting"
  BY DEF Keys!Recreate, Keys!Restart, Keys!Starts, Keys!NoCommand
<1>2. \A q \in Keys!Process : loaded'[q] = IF q = p THEN Head(file) ELSE loaded[q]
  BY <1>1 DEF Keys!TypeOK
<1>3. \/ UNCHANGED deployment
      \/ /\ deployment.status = "starting" /\ deployment'.status \in {"starting", "done"}
         /\ deployment'.fresh = deployment.fresh \cup {p}
         /\ deployment'.status = "done" => deployment'.fresh = Keys!Process
  BY DEF Keys!Recreate, Keys!Restart, Keys!TypeOK
<1>4. Keys!TypeOK'
  <2>1. deployment' \in [status : {"queued", "starting", "done", "error"}, fresh : SUBSET Keys!Process]
    <3>1. CASE Keys!Recreate(p)
      <4>1. deployment' = [status |-> IF deployment.fresh \cup {p} = Keys!Process THEN "done"
                                      ELSE deployment.status,
                           fresh |-> deployment.fresh \cup {p}]
        BY <3>1 DEF Keys!Recreate, Keys!TypeOK
      <4> QED
        BY <4>1 DEF Keys!TypeOK
    <3>2. CASE Keys!Restart(p)
      BY <3>2 DEF Keys!Restart, Keys!TypeOK
    <3> QED
      BY <3>1, <3>2
  <2>2. command' \in [at : {"none", "update", "deploy", "await", "rewrap", "rewriting", "finished"},
                      version : Keys!Version \cup {Keys!NoVersion}, changed : BOOLEAN]
    <3>1. CASE command' = command
      BY <3>1 DEF Keys!TypeOK
    <3>2. CASE command' = Keys!NoCommand
      BY <3>2 DEF Keys!NoCommand
    <3> QED
      BY <1>1, <3>1, <3>2
  <2>3. /\ loaded' \in [Keys!Process -> Keys!Version]
        /\ sealed' \in Keys!Version \cup {Keys!NoVersion} /\ rewriting' \subseteq Secret \X Keys!Version
    BY <1>1 DEF Keys!TypeOK
  <2> QED
    BY <1>1, <2>1, <2>2, <2>3 DEF Keys!TypeOK
<1>5. CoreLoads'
  BY <1>1, <1>2, <1>3 DEF CoreLoads, Keys!TypeOK
<1>6. Rewraps'
  BY <1>1, <1>3 DEF Rewraps, Keys!NoCommand
<1> QED
  BY <1>4, <1>5, <1>6

(* Secrets come, go and are rewrapped.                                      *)
LEMMA SecretsKeep ==
  ASSUME KeysInv,
         \/ Keys!Protect \/ Keys!StartRewrap
         \/ \E s \in Secret : \/ Keys!Store(s) \/ Keys!Forget(s)
                              \/ \E v \in Keys!Version : Keys!RewrapRow(s, v)
  PROVE  KeysInv'
<1> USE HeadOfFile DEF KeysInv, Keys!NoVersion
<1>1. ASSUME Keys!Protect PROVE KeysInv'
  BY <1>1 DEF Keys!Protect, Keys!TypeOK, CoreLoads, Rewraps, Keys!Process
<1>2. ASSUME Keys!StartRewrap PROVE KeysInv'
  <2>1. UNCHANGED <<env, file, deployment, loaded, row, sealed>> /\ command.at = "rewrap"
    BY <1>2 DEF Keys!StartRewrap
  <2>2. CASE command' = Keys!NoCommand /\ UNCHANGED rewriting
    BY <2>1, <2>2 DEF Keys!NoCommand, Keys!TypeOK, CoreLoads, Rewraps
  <2>3. CASE /\ command' = [command EXCEPT !.at = "rewriting"]
             /\ rewriting' = rewriting \cup
                  ({s \in Secret : row[s] \notin {0, Head(file)}} \X {Head(file)})
    <3>1. Keys!TypeOK'
      BY <2>1, <2>3 DEF Keys!TypeOK
    <3>2. CoreLoads'
      BY <2>1, <2>3 DEF CoreLoads
    <3>3. Rewraps'
      BY <2>1, <2>3 DEF Rewraps
    <3> QED
      BY <3>1, <3>2, <3>3
  <2> QED
    BY <1>2, <2>2, <2>3 DEF Keys!StartRewrap, Keys!Goto
<1>3. ASSUME NEW s \in Secret, Keys!Store(s) PROVE KeysInv'
  <2>1. \A t \in Secret : row'[t] = IF t = s THEN sealed ELSE row[t]
    BY <1>3 DEF Keys!Store, Keys!TypeOK
  <2> QED
    BY <1>3, <2>1 DEF Keys!Store, Keys!TypeOK, CoreLoads, Rewraps, Keys!Process
<1>4. ASSUME NEW s \in Secret, Keys!Forget(s) PROVE KeysInv'
  <2>1. \A t \in Secret : row'[t] = IF t = s THEN 0 ELSE row[t]
    BY <1>4 DEF Keys!Forget, Keys!TypeOK
  <2> QED
    BY <1>4, <2>1 DEF Keys!Forget, Keys!TypeOK, CoreLoads, Rewraps
<1>5. ASSUME NEW s \in Secret, NEW v \in Keys!Version, Keys!RewrapRow(s, v) PROVE KeysInv'
  <2>1. \A t \in Secret : row'[t] = IF t = s /\ row[s] # 0 THEN v ELSE row[t]
    BY <1>5 DEF Keys!RewrapRow, Keys!TypeOK
  <2>2. UNCHANGED <<env, file, deployment, loaded, sealed, command>>
        /\ <<s, v>> \in rewriting /\ rewriting' = rewriting \ {<<s, v>>}
    BY <1>5 DEF Keys!RewrapRow
  <2>3. Keys!TypeOK'
    BY <1>5, <2>2 DEF Keys!RewrapRow, Keys!TypeOK
  <2>4. CoreLoads'
    BY <2>2 DEF CoreLoads
  <2>5. Rewraps'
    BY <2>1, <2>2 DEF Rewraps, CoreLoads, Keys!Process
  <2> QED
    BY <2>3, <2>4, <2>5
<1> QED
  BY <1>1, <1>2, <1>3, <1>4, <1>5

LEMMA KeysStep ==
  ASSUME KeysInv, [Keys!Next]_(Keys!vars)
  PROVE  KeysInv'
<1>1. CASE UNCHANGED Keys!vars
  BY <1>1 DEF Keys!vars, KeysInv, Keys!TypeOK, CoreLoads, Rewraps
<1> QED
  BY <1>1, CommandKeeps, DeploymentKeeps, StartKeepsKeys, SecretsKeep DEF Keys!Next

(* What the whole does to keys and secrets, they do.                        *)
LEMMA KeysAlone == Spec => Keys!Spec
<1>1. Init => Keys!Init
  BY DEF Init
<1>2. [Next]_vars => [Keys!Next]_(Keys!vars)
  BY DEF Next, Only, vars, Keys!vars
<1> QED
  BY <1>1, <1>2, PTL DEF Spec, Keys!Spec

(* deploy.py:333: a rotation that finishes with its key installed leaves    *)
(* nothing under another one: not in a process, not in a row, not on its    *)
(* way into one.                                                            *)
THEOREM FinishedMeansRotatedHolds == Spec => FinishedMeansRotated
<1>1. Keys!Init => KeysInv
  BY InitialKeys
<1>2. KeysInv /\ [Keys!Next]_(Keys!vars) => KeysInv'
  BY KeysStep
<1> DEFINE Rotated ==
             command.at = "rewriting" /\ command'.at = "finished" /\ Head(file) = command.version
             => /\ \A p \in Keys!Process : loaded[p] = command.version
                /\ \A s \in Secret : row[s] \in {Keys!NoVersion, command.version}
                /\ sealed \in {Keys!NoVersion, command.version}
<1>3. KeysInv /\ [Keys!Next]_(Keys!vars) => [Rotated]_(Keys!vars)
  <2> SUFFICES ASSUME KeysInv, Keys!Next,
                      command.at = "rewriting", command'.at = "finished", Head(file) = command.version
               PROVE  /\ \A p \in Keys!Process : loaded[p] = command.version
                      /\ \A s \in Secret : row[s] \in {Keys!NoVersion, command.version}
                      /\ sealed \in {Keys!NoVersion, command.version}
    OBVIOUS
  <2>1. rewriting = {}
    <3>1. Keys!Finish \/ command'.at # "finished" \/ command.at = "finished"
      <4>1. CASE \E v \in Keys!Version : Keys!RotateKey(v)
        BY <4>1 DEF Keys!RotateKey
      <4>2. CASE Keys!UpdateCompose \/ Keys!DeployIfNeeded \/ Keys!Await \/ Keys!StartRewrap
        BY <4>2 DEF Keys!UpdateCompose, Keys!DeployIfNeeded, Keys!Await, Keys!StartRewrap,
                    Keys!Goto, Keys!NoCommand, KeysInv, Keys!TypeOK
      <4>3. CASE Keys!Die
        BY <4>3 DEF Keys!Die, Keys!NoCommand
      <4>4. CASE \E p \in Keys!Process : Keys!Recreate(p) \/ Keys!Restart(p)
        BY <4>4 DEF Keys!Recreate, Keys!Restart, Keys!Starts, Keys!NoCommand
      <4>5. CASE command' = command
        BY <4>5
      <4> QED
        BY <4>1, <4>2, <4>3, <4>4, <4>5
           DEF Keys!Next, Keys!Deploy, Keys!RemoveOldKeys, Keys!RunInit, Keys!DeploymentFails,
               Keys!Protect, Keys!Store, Keys!Forget, Keys!RewrapRow
    <3> QED
      BY <3>1 DEF Keys!Finish
  <2>2. deployment.status = "done" /\ deployment.fresh = Keys!Process
    BY DEF KeysInv, Rewraps, CoreLoads
  <2> QED
    BY <2>1, <2>2 DEF KeysInv, Rewraps, CoreLoads, Keys!Process
<1>4. Keys!Spec => Keys!FinishedMeansRotated
  BY <1>1, <1>2, <1>3, PTL DEF Keys!Spec, Keys!FinishedMeansRotated
<1> QED
  BY <1>4, KeysAlone, PTL DEF FinishedMeansRotated

-----------------------------------------------------------------------------
(***************************************************************************)
(* When the old lines of the key file may go. docs/portal-deployment.md    *)
(* lets the operator remove them once a rotation has finished, and a rerun *)
(* may finish before its key is installed. If none does, no stored secret  *)
(* ever loses its key: until a rotation finishes the file only grows, and  *)
(* from then on everything is under its head.                              *)
(***************************************************************************)

(* No rotation finishes before init has installed its key.                  *)
KeyInstalled ==
    command.at = "rewriting" /\ command'.at = "finished" => Head(file) = command.version
FinishesInstalled == [][KeyInstalled]_(Keys!vars)

(* Past its update the compose names the command's version.                 *)
ComposeNames ==
    \/ command.at \in {"deploy", "await", "rewrap", "rewriting", "finished"}
    \/ command.at = "update" /\ ~command.changed
    => env = command.version

(* What anybody has loaded, sealed, stored or has still to write is in the  *)
(* file.                                                                     *)
KeysNamed ==
    /\ \A p \in Keys!Process : loaded[p] \in Keys!ToSet(file)
    /\ sealed \in Keys!ToSet(file) \cup {Keys!NoVersion}
    /\ \A s \in Secret : row[s] \in Keys!ToSet(file) \cup {Keys!NoVersion}
    /\ \A s \in Secret, v \in Keys!Version : <<s, v>> \in rewriting => v \in Keys!ToSet(file)

(* After a rotation, and until the next, all that is the head of the file.  *)
UnderHead ==
    command.at = "finished" =>
        /\ env = Head(file) /\ rewriting = {}
        /\ \A p \in Keys!Process : loaded[p] = Head(file)
        /\ sealed \in {Keys!NoVersion, Head(file)}
        /\ \A s \in Secret : row[s] \in {Keys!NoVersion, Head(file)}

NamedInv == ComposeNames /\ KeysNamed /\ UnderHead

LEMMA KeysOfFile ==
  ASSUME NEW f \in Seq(Keys!Version), f # <<>>
  PROVE  /\ Head(f) \in Keys!ToSet(f) /\ Keys!ToSet(<<Head(f)>>) = {Head(f)}
         /\ \A e \in Keys!Version : /\ Keys!ToSet(f) \subseteq Keys!ToSet(<<e>> \o f)
                                    /\ Head(<<e>> \o f) = e
<1>1. Len(f) \in Nat /\ Len(f) > 0 /\ DOMAIN f = 1..Len(f) /\ Head(f) = f[1]
  OBVIOUS
<1>2. Head(f) \in Keys!ToSet(f)
  BY <1>1 DEF Keys!ToSet
<1>3. Keys!ToSet(<<Head(f)>>) = {Head(f)}
  BY DEF Keys!ToSet
<1>4. ASSUME NEW e \in Keys!Version
      PROVE  Keys!ToSet(f) \subseteq Keys!ToSet(<<e>> \o f) /\ Head(<<e>> \o f) = e
  <2> DEFINE g == <<e>> \o f
  <2>1. /\ <<e>> \in Seq(Keys!Version) /\ Len(<<e>>) = 1 /\ <<e>>[1] = e
    BY <1>4
  <2>2. /\ g \in Seq(Keys!Version) /\ Len(g) = 1 + Len(f)
        /\ g[1] = e /\ \A i \in 1..Len(f) : g[i + 1] = f[i]
    BY <1>1, <2>1, ConcatProperties
  <2> HIDE DEF g
  <2>3. DOMAIN g = 1..(1 + Len(f)) /\ Head(g) = e
    BY <1>1, <2>2
  <2>4. ASSUME NEW i \in DOMAIN f PROVE f[i] \in Keys!ToSet(g)
    BY <1>1, <2>2, <2>3, <2>4 DEF Keys!ToSet
  <2> QED
    BY <2>3, <2>4 DEF Keys!ToSet, g
<1> QED
  BY <1>2, <1>3, <1>4

(* The steps that leave the file and what is under it alone.                *)
LEMMA CommandNames ==
  ASSUME KeysInv, NamedInv, KeyInstalled,
         \/ \E v \in Keys!Version : Keys!RotateKey(v)
         \/ Keys!UpdateCompose \/ Keys!DeployIfNeeded \/ Keys!Await \/ Keys!Deploy \/ Keys!Die
         \/ Keys!DeploymentFails \/ Keys!Finish
  PROVE  NamedInv'
<1> USE DEF Keys!Goto, Keys!NoCommand, Keys!Idle
<1>1. UNCHANGED <<file, loaded, row, sealed, rewriting>>
  BY DEF Keys!RotateKey, Keys!UpdateCompose, Keys!DeployIfNeeded, Keys!Await, Keys!Deploy,
         Keys!Die, Keys!DeploymentFails, Keys!Finish
<1>2. KeysNamed'
  BY <1>1 DEF NamedInv, KeysNamed
<1>3. command \in [at : {"none", "update", "deploy", "await", "rewrap", "rewriting", "finished"},
                   version : Keys!Version \cup {Keys!NoVersion}, changed : BOOLEAN]
  BY DEF KeysInv, Keys!TypeOK
<1>4. ComposeNames'
  <2>1. CASE \E v \in Keys!Version : Keys!RotateKey(v)
    <3>1. PICK v \in Keys!Version : Keys!RotateKey(v)
      BY <2>1
    <3>2. command'.at = "update" /\ command'.version = v /\ env' = env
      BY <3>1 DEF Keys!RotateKey
    <3>3. CASE env = v
      BY <3>2, <3>3 DEF ComposeNames
    <3>4. CASE env # v
      <4>1. command'.changed = (env # v)
        BY <3>1 DEF Keys!RotateKey
      <4>2. (env # v) = TRUE
        BY <3>4
      <4>3. command'.changed
        BY <4>1, <4>2
      <4> QED
        BY <3>2, <4>3 DEF ComposeNames
    <3> QED
      BY <3>3, <3>4
  <2>2. CASE Keys!UpdateCompose
    BY <1>3, <2>2 DEF Keys!UpdateCompose, NamedInv, ComposeNames
  <2>3. CASE Keys!DeployIfNeeded \/ Keys!Await \/ Keys!Finish
    BY <1>3, <2>3 DEF Keys!DeployIfNeeded, Keys!Await, Keys!Finish, NamedInv, ComposeNames
  <2>4. CASE Keys!Deploy \/ Keys!Die \/ Keys!DeploymentFails
    BY <2>4 DEF Keys!Deploy, Keys!Die, Keys!DeploymentFails, NamedInv, ComposeNames
  <2> QED
    BY <2>1, <2>2, <2>3, <2>4
<1>5. UnderHead'
  <2>1. CASE Keys!Finish
    <3>1. /\ command.at = "rewriting" /\ command'.at = "finished" /\ rewriting = {} /\ env' = env
      BY <1>3, <2>1 DEF Keys!Finish
    <3>2. env = Head(file)
      BY <3>1 DEF KeyInstalled, NamedInv, ComposeNames
    <3>3. deployment.status = "done" /\ deployment.fresh = Keys!Process
      BY <3>1 DEF KeysInv, Rewraps, CoreLoads
    <3> QED
      BY <1>1, <3>1, <3>2, <3>3 DEF KeysInv, Rewraps, CoreLoads, UnderHead, Keys!Process
  <2>2. CASE Keys!Deploy \/ Keys!DeploymentFails
    BY <1>1, <2>2 DEF Keys!Deploy, Keys!DeploymentFails, NamedInv, UnderHead
  <2>3. CASE \/ \E v \in Keys!Version : Keys!RotateKey(v)
             \/ Keys!UpdateCompose \/ Keys!DeployIfNeeded \/ Keys!Await \/ Keys!Die
    <3>1. command'.at # "finished"
      BY <1>3, <2>3 DEF Keys!RotateKey, Keys!UpdateCompose, Keys!DeployIfNeeded, Keys!Await, Keys!Die
    <3> QED
      BY <3>1 DEF UnderHead
  <2> QED
    BY <2>1, <2>2, <2>3
<1> QED
  BY <1>2, <1>4, <1>5 DEF NamedInv

(* The steps that change the file, and those of processes and secrets.      *)
LEMMA FileNames ==
  ASSUME KeysInv, NamedInv, Keys!RemoveOldKeys \/ Keys!RunInit
  PROVE  NamedInv'
<1> DEFINE V == Keys!ToSet(file)
<1>1. /\ file \in Seq(Keys!Version) /\ file # <<>> /\ env \in Keys!Version \cup {Keys!NoVersion}
      /\ loaded \in [Keys!Process -> Keys!Version]
  BY DEF KeysInv, Keys!TypeOK
<1>2. UNCHANGED <<env, loaded, row, sealed, rewriting, command>>
  BY DEF Keys!RemoveOldKeys, Keys!RunInit
<1>3. CASE Keys!RemoveOldKeys
  <2>1. command.at = "finished" /\ file' = <<Head(file)>>
    BY <1>3 DEF Keys!RemoveOldKeys
  <2>2. Keys!ToSet(file') = {Head(file)} /\ Head(file') = Head(file)
    BY <1>1, <2>1, KeysOfFile
  <2>3. /\ env = Head(file) /\ rewriting = {}
        /\ \A p \in Keys!Process : loaded[p] = Head(file)
        /\ sealed \in {Keys!NoVersion, Head(file)}
        /\ \A s \in Secret : row[s] \in {Keys!NoVersion, Head(file)}
    BY <2>1 DEF NamedInv, UnderHead
  <2>4. KeysNamed'
    BY <1>2, <2>2, <2>3 DEF KeysNamed, Keys!ToSet
  <2>5. ComposeNames' /\ UnderHead'
    BY <1>2, <2>2, <2>3 DEF NamedInv, ComposeNames, UnderHead
  <2> QED
    BY <2>4, <2>5 DEF NamedInv
<1>4. CASE Keys!RunInit
  <2>1. \/ file' = file
        \/ env # Keys!NoVersion /\ env # Head(file) /\ file' = <<env>> \o file
    BY <1>4 DEF Keys!RunInit
  <2>2. CASE file' = file
    BY <1>2, <2>2 DEF NamedInv, ComposeNames, KeysNamed, UnderHead, Keys!ToSet
  <2>3. CASE env # Keys!NoVersion /\ env # Head(file) /\ file' = <<env>> \o file
    <3>1. V \subseteq Keys!ToSet(<<env>> \o file)
      BY <1>1, <2>3, KeysOfFile
    <3>2. \A v \in V : v \in Keys!ToSet(file)'
      BY <2>3, <3>1 DEF Keys!ToSet
    <3> HIDE DEF V
    <3>3. KeysNamed'
      BY <1>2, <3>2 DEF NamedInv, KeysNamed, V
    <3>4. command.at # "finished"
      BY <2>3 DEF NamedInv, UnderHead
    <3> QED
      BY <1>2, <3>3, <3>4 DEF NamedInv, ComposeNames, UnderHead
  <2> QED
    BY <2>1, <2>2, <2>3
<1> QED
  BY <1>3, <1>4

LEMMA SecretNames ==
  ASSUME KeysInv, NamedInv,
         \/ \E p \in Keys!Process : Keys!Recreate(p) \/ Keys!Restart(p)
         \/ Keys!Protect \/ Keys!StartRewrap
         \/ \E s \in Secret : \/ Keys!Store(s) \/ Keys!Forget(s)
                              \/ \E v \in Keys!Version : Keys!RewrapRow(s, v)
  PROVE  NamedInv'
<1> DEFINE V == Keys!ToSet(file)
<1>1. /\ file \in Seq(Keys!Version) /\ file # <<>> /\ row \in [Secret -> Keys!Version \cup {0}]
      /\ loaded \in [Keys!Process -> Keys!Version]
  BY DEF KeysInv, Keys!TypeOK, Keys!NoVersion
<1>2. UNCHANGED <<env, file>> /\ Keys!ToSet(file)' = V
  <2>1. UNCHANGED <<env, file>>
    BY DEF Keys!Recreate, Keys!Restart, Keys!Starts, Keys!Protect, Keys!StartRewrap, Keys!Store,
           Keys!Forget, Keys!RewrapRow
  <2> QED
    BY <2>1 DEF Keys!ToSet
<1>3. Head(file) \in V
  BY <1>1, KeysOfFile
<1>4. /\ \A p \in Keys!Process : loaded[p] \in V
      /\ sealed \in V \cup {0} /\ \A s \in Secret : row[s] \in V \cup {0}
      /\ \A s \in Secret, v \in Keys!Version : <<s, v>> \in rewriting => v \in V
  BY DEF NamedInv, KeysNamed, Keys!NoVersion
<1> HIDE DEF V
<1> USE DEF Keys!NoVersion
<1>5. ASSUME NEW p \in Keys!Process, Keys!Recreate(p) \/ Keys!Restart(p) PROVE NamedInv'
  <2>1. /\ loaded' = [loaded EXCEPT ![p] = Head(file)] /\ row' = row
        /\ sealed' \in {0, sealed} /\ rewriting' \in {{}, rewriting}
        /\ command' = command \/ command' = Keys!NoCommand
    BY <1>5 DEF Keys!Recreate, Keys!Restart, Keys!Starts
  <2>2. \A q \in Keys!Process : loaded'[q] = IF q = p THEN Head(file) ELSE loaded[q]
    BY <1>1, <2>1
  <2>3. KeysNamed'
    BY <1>2, <1>3, <1>4, <2>1, <2>2 DEF KeysNamed
  <2>4. ComposeNames' /\ UnderHead'
    BY <1>2, <2>1, <2>2 DEF NamedInv, ComposeNames, UnderHead, Keys!NoCommand
  <2> QED
    BY <2>3, <2>4 DEF NamedInv
<1>6. ASSUME Keys!Protect PROVE NamedInv'
  <2>1. sealed' = loaded["web"] /\ "web" \in Keys!Process /\ UNCHANGED <<loaded, row, rewriting, command>>
    BY <1>6 DEF Keys!Protect, Keys!Process
  <2> QED
    BY <1>2, <1>4, <2>1 DEF NamedInv, ComposeNames, KeysNamed, UnderHead
<1>7. ASSUME Keys!StartRewrap PROVE NamedInv'
  <2>1. /\ UNCHANGED <<loaded, row, sealed>> /\ command.at = "rewrap"
        /\ command' \in {Keys!NoCommand, [command EXCEPT !.at = "rewriting"]}
        /\ rewriting' \subseteq rewriting \cup (Secret \X {Head(file)})
    BY <1>7 DEF Keys!StartRewrap, Keys!Goto
  <2>2. KeysNamed'
    BY <1>2, <1>3, <1>4, <2>1 DEF KeysNamed
  <2>3. \/ command'.at = "none"
        \/ command'.at = "rewriting" /\ command'.version = command.version
    BY <2>1 DEF KeysInv, Keys!TypeOK, Keys!NoCommand
  <2> QED
    BY <1>2, <2>1, <2>2, <2>3 DEF NamedInv, ComposeNames, UnderHead
<1>8. ASSUME NEW s \in Secret, Keys!Store(s) PROVE NamedInv'
  <2>1. /\ UNCHANGED <<loaded, rewriting, command>> /\ sealed' = 0
        /\ \A t \in Secret : row'[t] = IF t = s THEN sealed ELSE row[t]
    BY <1>1, <1>8 DEF Keys!Store
  <2> QED
    BY <1>2, <1>4, <2>1 DEF NamedInv, ComposeNames, KeysNamed, UnderHead
<1>9. ASSUME NEW s \in Secret, Keys!Forget(s) PROVE NamedInv'
  <2>1. /\ UNCHANGED <<loaded, rewriting, command, sealed>>
        /\ \A t \in Secret : row'[t] = IF t = s THEN 0 ELSE row[t]
    BY <1>1, <1>9 DEF Keys!Forget
  <2> QED
    BY <1>2, <1>4, <2>1 DEF NamedInv, ComposeNames, KeysNamed, UnderHead
<1>10. ASSUME NEW s \in Secret, NEW v \in Keys!Version, Keys!RewrapRow(s, v) PROVE NamedInv'
  <2>1. /\ UNCHANGED <<loaded, command, sealed>> /\ <<s, v>> \in rewriting
        /\ rewriting' \subseteq rewriting
        /\ \A t \in Secret : row'[t] = IF t = s /\ row[s] # 0 THEN v ELSE row[t]
    BY <1>1, <1>10 DEF Keys!RewrapRow
  <2>2. KeysNamed'
    BY <1>2, <1>4, <2>1 DEF KeysNamed
  <2>3. command.at # "finished"
    BY <2>1 DEF NamedInv, UnderHead
  <2> QED
    BY <1>2, <2>1, <2>2, <2>3 DEF NamedInv, ComposeNames, UnderHead
<1> QED
  BY <1>5, <1>6, <1>7, <1>8, <1>9, <1>10

(* docs/portal-deployment.md:301: unless a rotation finished before its key *)
(* was installed, every stored secret names a key of the file, whatever the *)
(* operator removes from it once rotations have finished.                   *)
THEOREM SecretsKeepTheirKeys == Spec /\ FinishesInstalled => []Keys!SecretsNameAKey
<1>1. Keys!Init => KeysInv /\ NamedInv
  <2> SUFFICES ASSUME Keys!Init PROVE NamedInv
    BY InitialKeys
  <2>1. 1 \in Keys!ToSet(<<1>>)
    BY DEF Keys!ToSet
  <2> QED
    BY <2>1 DEF Keys!Init, Keys!NoCommand, NamedInv, ComposeNames, KeysNamed, UnderHead
<1>2. KeysInv /\ [Keys!Next]_(Keys!vars) => KeysInv'
  BY KeysStep
<1>3. KeysInv /\ NamedInv /\ [Keys!Next]_(Keys!vars) /\ [KeyInstalled]_(Keys!vars) => NamedInv'
  <2> SUFFICES ASSUME KeysInv, NamedInv, [Keys!Next]_(Keys!vars), [KeyInstalled]_(Keys!vars)
               PROVE  NamedInv'
    OBVIOUS
  <2>1. CASE UNCHANGED Keys!vars
    BY <2>1 DEF Keys!vars, NamedInv, ComposeNames, KeysNamed, UnderHead, Keys!ToSet
  <2>2. CASE Keys!Next /\ KeyInstalled
    BY <2>2, CommandNames, FileNames, SecretNames DEF Keys!Next
  <2> QED
    BY <2>1, <2>2
<1>4. NamedInv => Keys!SecretsNameAKey
  BY DEF NamedInv, KeysNamed, Keys!SecretsNameAKey
<1> QED
  BY <1>1, <1>2, <1>3, <1>4, KeysAlone, PTL DEF Keys!Spec, FinishesInstalled

=============================================================================
