----------------------------- MODULE Components -----------------------------
(***************************************************************************)
(* The components that share no state with one another, side by side: a    *)
(* behaviour explores one of them. The constants of all of them are here,  *)
(* with what the code makes sure of about them.                            *)
(***************************************************************************)
EXTENDS Integers, FiniteSets

CONSTANTS
    User, WithFactor, MaySuspend, Source, Session, Token, Request,
    IdleTime, Lifetime, PendingTtl, Window, Limit, LastTick,
    Secret, LastKey, Label, Connection, LastVersion, Job,
    Mail, Dispatcher, SendTime, Lease, Backoff, LastMinute,
    Subject, MaxRestarts, RejectThreshold, LastRuc, Tab, Items, Shard, Site

(* What the code sees to about these numbers and names.                     *)

(* throttle.py:15: a positive limit and window. An address is no account,   *)
(* and a field that is still empty names nobody.                            *)
ASSUME ThrottleAssumption ==
    /\ Limit \in Nat \ {0} /\ Window \in Nat \ {0}
    /\ {IdleTime, Lifetime, PendingTtl} \subseteq Nat /\ LastTick \in Nat \ {0}
    /\ Source \notin User /\ "nobody" \notin User /\ IsFiniteSet(Request)

(* dispatch.py:28: CLAIM_LEASE_SECONDS exceeds four SEND_TIMEOUT_SECONDS.    *)
ASSUME TimesAssumption ==
    /\ Mail # {} /\ {LastMinute, Backoff} \subseteq Nat
    /\ SendTime \in Nat /\ Lease \in Nat /\ SendTime < Lease

(* A job has an item; a connection has a version.                           *)
ASSUME ItemsAssumption == Items \in Nat \ {0}
ASSUME VersionsAssumption == Connection # {} /\ LastVersion \in Nat \ {0}

(* There is a first key; subjects are numbered.                             *)
ASSUME KeysAssumption == LastKey \in Nat \ {0}
ASSUME RunsAssumption == Subject \subseteq Nat /\ {MaxRestarts, LastRuc} \subseteq Nat

VARIABLES
    which,      \* the component explored
    clock, active, session, pending, fails, request,
    env, file, deployment, loaded, row, sealed, rewriting, command,
    label, retired, lifecycle, preflights, job,
    identity, login, compose, enrolling, schedule, revoking, tool, unsettled,
    minute, mail, dispatcher, accepted, unsure,
    observed, blank, current, driver, left,
    index, complete, relay, bad, observations, results, tab,
    work, loggedIn, viewer, display, lastId, stream,
    shard, destination, exports, merge

Sessions == INSTANCE PortalSessions WITH Idle <- IdleTime
Keys == INSTANCE KeyRotation WITH LastVersion <- LastKey
Proxy == INSTANCE ProxyCredentials
Removal == INSTANCE WorkerRemoval
Outbox == INSTANCE NotificationOutbox
Browser == INSTANCE BrowserRun
Capture == INSTANCE CaptureRelay
Page == INSTANCE JobProgress
Shards == INSTANCE ShardMerge

Component == {"sessions", "keys", "credentials", "removal", "outbox",
              "browser", "capture", "progress", "shards"}

Init ==
    /\ which \in Component
    /\ Sessions!Init /\ Keys!Init /\ Proxy!Init /\ Removal!Init /\ Outbox!Init
    /\ Browser!Init /\ Capture!Init /\ Page!Init /\ Shards!Init

(* A step of one component leaves the others where they began.              *)
Only(component) ==
    /\ which = component /\ UNCHANGED which
    /\ IF component = "sessions" THEN TRUE ELSE UNCHANGED <<clock, active, session, pending, fails, request>>
    /\ IF component = "keys" THEN TRUE ELSE UNCHANGED <<env, file, deployment, loaded, row, sealed, rewriting, command>>
    /\ IF component = "credentials" THEN TRUE ELSE UNCHANGED <<label, retired, lifecycle, preflights, job>>
    /\ IF component = "removal" THEN TRUE ELSE UNCHANGED <<identity, login, compose, enrolling, schedule, revoking, tool, unsettled>>
    /\ IF component = "outbox" THEN TRUE ELSE UNCHANGED <<minute, mail, dispatcher, accepted, unsure>>
    /\ IF component = "browser" THEN TRUE ELSE UNCHANGED <<observed, blank, current, driver, left>>
    /\ IF component = "capture" THEN TRUE ELSE UNCHANGED <<index, complete, relay, bad, observations, results, tab>>
    /\ IF component = "progress" THEN TRUE ELSE UNCHANGED <<work, loggedIn, viewer, display, lastId, stream>>
    /\ IF component = "shards" THEN TRUE ELSE UNCHANGED <<shard, destination, exports, merge>>

Next ==
    \/ Only("sessions") /\ Sessions!Next
    \/ Only("keys") /\ Keys!Next
    \/ Only("credentials") /\ Proxy!Next
    \/ Only("removal") /\ Removal!Next
    \/ Only("outbox") /\ Outbox!Next
    \/ Only("browser") /\ Browser!Next
    \/ Only("capture") /\ Capture!Next
    \/ Only("progress") /\ Page!Next
    \/ Only("shards") /\ Shards!Next

vars == <<which, Sessions!vars, Keys!vars, Proxy!vars, Removal!vars, Outbox!vars,
          Browser!vars, Capture!vars, Page!vars, Shards!vars>>

Spec == Init /\ [][Next]_vars

-----------------------------------------------------------------------------

(* sessions.py:89: an ended session is never written back.                  *)
EndedStaysEnded == Sessions!EndedStaysEnded

(* sessions.py:142: a pending token gives one look at a code.               *)
OneGuessPerToken == Sessions!OneGuessPerToken

(* throttle.py:13: failures exceed the limit by the attempts under way.     *)
FailuresBounded == Sessions!FailuresBounded

(* deploy.py:333: a finished rotation left nothing under another key.       *)
FinishedMeansRotated == Keys!FinishedMeansRotated

(* credentials.py:226: one active version, and jobs under accepted ones.    *)
CredentialsHold == Proxy!CredentialsHold

(* deploy.py:384: a removed worker is revoked and cannot log in, unless it  *)
(* may have been issued something since the revocation began.               *)
RemovedIsRevoked == Removal!RemovedIsRevoked

(* dispatch.py:28: a row is mailed once, unless its acceptance got lost or  *)
(* an outcome of it was written after the lease.                            *)
MailedOnce == Outbox!MailedOnce

(* run.py:106: exit code 0 of a browser run means an answer of everyone.    *)
SuccessMeansAllHeld == Browser!SuccessMeansAllHeld

(* relay.py:43: every capture belongs to its RUC, 0 means all are there.    *)
CapturedInTurn == Capture!CapturedInTurn

(* jobs.py:482: a page that stopped listening shows the outcome.            *)
DoneShowsOutcome == Page!DoneShowsOutcome

(* fleet.py:135: exports stand beside a database with every final outcome.  *)
MergedIsWhole == Shards!MergedIsWhole

=============================================================================
