----------------------------- MODULE ShardMerge -----------------------------
(***************************************************************************)
(* A manifest's shards, each run on a host of its own over its own state   *)
(* database, and fetch-fleet merge, which reads them one after another and *)
(* writes a new database and its exports: cli/fleet.py. The shards may     *)
(* still be running, and a merge may be killed and repeated.               *)
(***************************************************************************)
EXTENDS Naturals

CONSTANTS
    Shard,  \* the manifest's shards
    Site    \* its sites; a pair is a site's work on the documents of a shard

VARIABLES
    shard,       \* outcome of each pair in its shard's database
    destination, \* the merged database: "absent", or the outcomes it holds
    exports,     \* the sites whose export is at the destination
    merge        \* the merge: what it is doing and what it has read

vars == <<shard, destination, exports, merge>>

Pair == Shard \X Site
Outcome == {"none", "ok", "retryable", "terminal"}
Absent == [p \in {} |-> "none"]

TypeOK ==
    /\ shard \in [Pair -> Outcome]
    /\ destination \in [exists : BOOLEAN,
                       held : UNION {[known -> Outcome] : known \in SUBSET Pair}]
    /\ exports \subseteq Site
    /\ merge \in [at : {"idle", "read", "check", "write", "export"},
                 read : SUBSET Shard, seen : [Pair -> Outcome]]

Idle == [at |-> "idle", read |-> {}, seen |-> [p \in Pair |-> "none"]]

Init ==
    /\ shard = [p \in Pair |-> "none"]
    /\ destination = [exists |-> FALSE, held |-> Absent]
    /\ exports = {}
    /\ merge = Idle

-----------------------------------------------------------------------------

(* A shard's run records an outcome; an ok one and a failure at the attempt *)
(* limit are final, other failures are taken up again.                      *)
RecordOutcome(p, outcome) ==
    /\ shard[p] \in {"none", "retryable"} /\ outcome # "none"
    /\ shard' = [shard EXCEPT ![p] = outcome]
    /\ UNCHANGED <<destination, exports, merge>>

StartMerge ==
    /\ merge.at = "idle" /\ merge' = [Idle EXCEPT !.at = "read"]
    /\ UNCHANGED <<shard, destination, exports>>

(* _read_all_outcomes: one query per database.                              *)
ReadShard(s) ==
    /\ merge.at = "read" /\ s \notin merge.read
    /\ merge' = [merge EXCEPT !.read = @ \cup {s},
                   !.seen = [p \in Pair |-> IF p[1] = s THEN shard[p] ELSE @[p]],
                   !.at = IF merge.read \cup {s} = Shard THEN "check" ELSE "read"]
    /\ UNCHANGED <<shard, destination, exports>>

IsWhole(seen) == \A p \in Pair : seen[p] \in {"ok", "terminal"}

CheckUncovered ==
    /\ merge.at = "check"
    /\ IF ~destination.exists /\ exports = {}
       THEN /\ destination' = [destination EXCEPT !.exists = TRUE]
            /\ merge' = [merge EXCEPT !.at = "write"]
       ELSE merge' = Idle /\ UNCHANGED destination
    /\ UNCHANGED <<shard, exports>>

(* Nothing uncovered, nothing retryable, and a destination that is new.     *)
Check ==
    /\ merge.at = "check"
    /\ IF IsWhole(merge.seen) /\ ~destination.exists /\ exports = {}
       THEN /\ destination' = [destination EXCEPT !.exists = TRUE]
            /\ merge' = [merge EXCEPT !.at = "write"]
       ELSE merge' = Idle /\ UNCHANGED destination
    /\ UNCHANGED <<shard, exports>>

(* record_snapshot, each in a transaction of its own.                       *)
RecordSnapshot(p) ==
    /\ merge.at = "write" /\ p \notin DOMAIN destination.held
    /\ destination' = [destination EXCEPT !.held =
            [q \in DOMAIN @ \cup {p} |-> IF q = p THEN merge.seen[p] ELSE @[q]]]
    /\ UNCHANGED <<shard, exports, merge>>

Written ==
    /\ merge.at = "write" /\ DOMAIN destination.held = Pair
    /\ merge' = [merge EXCEPT !.at = "export"]
    /\ UNCHANGED <<shard, destination, exports>>

ExportSite(site) ==
    /\ merge.at = "export" /\ site \notin exports
    /\ exports' = exports \cup {site}
    /\ merge' = IF exports' = Site THEN Idle ELSE merge
    /\ UNCHANGED <<shard, destination>>

KillMerge ==
    /\ merge.at # "idle" /\ merge' = Idle
    /\ UNCHANGED <<shard, destination, exports>>

(* The operator removes what a killed merge left and merges again.          *)
ClearDestination ==
    /\ merge.at = "idle" /\ destination.exists
    /\ destination' = [exists |-> FALSE, held |-> Absent] /\ exports' = {}
    /\ UNCHANGED <<shard, merge>>

-----------------------------------------------------------------------------

Next ==
    \/ \E p \in Pair, outcome \in Outcome : RecordOutcome(p, outcome)
    \/ \E s \in Shard : ReadShard(s)
    \/ \E p \in Pair : RecordSnapshot(p)
    \/ \E site \in Site : ExportSite(site)
    \/ StartMerge \/ Check \/ Written \/ KillMerge \/ ClearDestination

Spec == Init /\ [][Next]_vars

-----------------------------------------------------------------------------

(* fleet.py:135: exports at the destination stand beside a database that    *)
(* has the final outcome of every pair, though shards were still running    *)
(* when they were read and merges were killed.                              *)
MergedIsWhole ==
    exports # {} => DOMAIN destination.held = Pair /\ destination.held = shard

=============================================================================
