-------------------------- MODULE ProxyCredentials --------------------------
(***************************************************************************)
(* One team's proxy connections, their versions, and the jobs submitted    *)
(* under a version: repository/credentials.py, configure_proxy, submit.    *)
(* A version is validated against the provider between two transactions,   *)
(* and a submission checks its version before it admits the job.           *)
(***************************************************************************)
EXTENDS Naturals, FiniteSets

CONSTANTS
    Label,       \* names of connections
    Connection,  \* bound: the connections that can be made
    LastVersion, \* bound: versions of a connection
    Job          \* bound: submissions

VARIABLES
    label,      \* portal_team_proxy_credentials.label, "none" before it exists
    retired,    \* the connections with a retired_at
    lifecycle,  \* portal_team_proxy_credential_versions, "none" before it exists
    preflights, \* versions whose configure_proxy is talking to the provider
    job         \* "none", or the version a submission checked, then admitted

vars == <<label, retired, lifecycle, preflights, job>>

Lifecycle == {"none", "validating", "active", "failed", "retired"}
CredentialVersion == Connection \X (1..LastVersion)
NoJob == [at |-> "none", of |-> CHOOSE v \in CredentialVersion : TRUE]

TypeOK ==
    /\ label \in [Connection -> Label \cup {"none"}]
    /\ retired \subseteq Connection
    /\ lifecycle \in [CredentialVersion -> Lifecycle]
    /\ preflights \subseteq CredentialVersion
    /\ job \in [Job -> [at : {"none", "checked", "admitted"}, of : CredentialVersion]]

Init ==
    /\ label = [c \in Connection |-> "none"]
    /\ retired = {} /\ preflights = {}
    /\ lifecycle = [v \in CredentialVersion |-> "none"]
    /\ job = [j \in Job |-> NoJob]

VersionsOf(c) == {v \in CredentialVersion : v[1] = c}
ActiveOf(c) == {v \in VersionsOf(c) : lifecycle[v] = "active"}

-----------------------------------------------------------------------------

(* start_credential_validation, under the lock of the team's row: the       *)
(* connection of that label, restored if it was retired, gets a version.    *)
StartValidation(l) ==
    \E c \in Connection :
        /\ \/ label[c] = l
           \/ label[c] = "none" /\ \A d \in Connection : label[d] # l
        /\ \E n \in 1..LastVersion :
             /\ lifecycle[<<c, n>>] = "none"
             /\ \A i \in 1..(n - 1) : lifecycle[<<c, i>>] # "none"
             /\ lifecycle' = [lifecycle EXCEPT ![<<c, n>>] = "validating"]
             /\ preflights' = preflights \cup {<<c, n>>}
        /\ label' = [label EXCEPT ![c] = l]
        /\ retired' = retired \ {c}
        /\ UNCHANGED job

RetiredOnFailure(v, state) ==
    [w \in CredentialVersion |->
        IF w = v THEN state ELSE IF w \in ActiveOf(v[1]) THEN "retired" ELSE lifecycle[w]]

(* The version's new state; an activation retires the one that was active.  *)
Finished(v, state) ==
    [w \in CredentialVersion |->
        IF w = v THEN state
        ELSE IF state = "active" /\ w \in ActiveOf(v[1]) THEN "retired" ELSE lifecycle[w]]

(* finish_credential_validation                                             *)
FinishValidation(v, state) ==
    /\ v \in preflights /\ lifecycle[v] = "validating"
    /\ lifecycle' = Finished(v, state)
    /\ preflights' = preflights \ {v}
    /\ UNCHANGED <<label, retired, job>>

(* The process dies during the preflight: the version stays validating.     *)
Crash(v) ==
    /\ v \in preflights /\ preflights' = preflights \ {v}
    /\ UNCHANGED <<label, retired, lifecycle, job>>

RetireCredential(c) ==
    /\ label[c] # "none" /\ c \notin retired
    /\ retired' = retired \cup {c}
    /\ UNCHANGED <<label, lifecycle, preflights, job>>

RenameCredential(c, l) ==
    /\ label[c] # "none"
    /\ \A d \in Connection \ {c} : label[d] # l
    /\ label' = [label EXCEPT ![c] = l]
    /\ UNCHANGED <<retired, lifecycle, preflights, job>>

(* _require_active_credential looks at the version, not at its connection.  *)
Usable(v) == lifecycle[v] = "active"

CheckCredential(j, v) ==
    /\ job[j].at = "none" /\ Usable(v)
    /\ job' = [job EXCEPT ![j] = [at |-> "checked", of |-> v]]
    /\ UNCHANGED <<label, retired, lifecycle, preflights>>

Admit(j) ==
    /\ job[j].at = "checked"
    /\ job' = [job EXCEPT ![j].at = "admitted"]
    /\ UNCHANGED <<label, retired, lifecycle, preflights>>

Next ==
    \/ \E l \in Label : StartValidation(l)
    \/ \E v \in CredentialVersion :
         \/ FinishValidation(v, "active") \/ FinishValidation(v, "failed") \/ Crash(v)
         \/ \E j \in Job : CheckCredential(j, v)
    \/ \E c \in Connection : RetireCredential(c) \/ \E l \in Label : RenameCredential(c, l)
    \/ \E j \in Job : Admit(j)

Spec == Init /\ [][Next]_vars

-----------------------------------------------------------------------------

(* credentials.py:226, service.py:541: validations of one connection end in *)
(* any order, fail or die; at most one of its versions is active, one that  *)
(* has an active version never ends up without, and a job runs under a      *)
(* version the provider accepted, whatever happened since it was checked.   *)
CredentialsHold ==
    [][/\ \A c \in Connection :
            /\ Cardinality(ActiveOf(c)) <= 1
            /\ ActiveOf(c) # {} => ActiveOf(c)' # {}
       /\ \A j \in Job :
            job[j].at = "admitted" => lifecycle[job[j].of] \in {"active", "retired"}]_vars

=============================================================================
