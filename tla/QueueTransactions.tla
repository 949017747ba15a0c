------------------------- MODULE QueueTransactions -------------------------
(***************************************************************************)
(* The job queue's transactions, statement by statement, as PostgreSQL     *)
(* interleaves them at its default isolation level, READ COMMITTED: a      *)
(* statement reads what was committed when it started and what its own     *)
(* transaction wrote; a written row stays locked until the transaction     *)
(* ends; a statement that must write a locked row waits and then looks at  *)
(* the row again. JobQueue takes the same transactions to be serial.       *)
(*                                                                         *)
(* Of a lease only "running" is kept: one worker process claims and        *)
(* publishes, so lease_owner always matches, and lease_fence changes only  *)
(* when the job leaves "running". A lease may expire at any time, and an   *)
(* expired item may or may not have attempts left.                         *)
(***************************************************************************)
EXTENDS Integers, FiniteSets

CONSTANTS
    Job,        \* submissions
    Key,        \* pairs of each submission
    Session,    \* database connections
    MaxActive   \* MAX_ACTIVE_JOBS

ASSUME FiniteAssumption == IsFiniteSet(Job)
ASSUME PlacesAssumption == MaxActive \in Nat \ {0}

VARIABLES
    job,   \* portal_jobs.state, committed
    seq,   \* portal_jobs.queue_sequence, committed
    item,  \* portal_job_items.state, committed
    told,  \* rounds of terminal notification intents, committed
    tx     \* the transaction of each connection

vars == <<job, seq, item, told, tx>>

Item == Job \X Key
LiveItemState == {"pending", "running"}
TerminalState == {"completed", "failed", "cancelled"}
JobState == {"queued", "running"} \cup TerminalState

(* The transaction of a connection: where it is, the rows it wrote, which   *)
(* stay locked until it ends, and the locks it holds besides: the           *)
(* portal_queue_control row, FOR UPDATE of a job (cancel), and the KEY      *)
(* SHARE of a job that the foreign key of an entry takes (publish).         *)
Idle == [kind |-> "none", pc |-> "idle", job |-> {}, item |-> {}, todo |-> {},
         jobs |-> <<>>, items |-> <<>>, gate |-> FALSE, update |-> {}, share |-> {}]

Partial(S, T) == UNION {[D -> T] : D \in SUBSET S}
ItemState == LiveItemState \cup {"published", "failed", "cancelled"}
Kind == {"none", "admit", "cancel", "claim", "publish"}
Place == {"idle", "gate", "insert", "lock", "items", "entry", "fenced",
          "sweep", "finish", "promote", "claim", "commit"}
Transaction == [kind : Kind, pc : Place, job : SUBSET Job, item : SUBSET Item,
                todo : SUBSET Job, jobs : Partial(Job, JobState),
                items : Partial(Item, ItemState), gate : BOOLEAN,
                update : SUBSET Job, share : SUBSET Job]

TypeOK ==
    /\ job \in [Job -> JobState \cup {"absent"}]
    /\ seq \in [Job -> Nat]
    /\ item \in [Item -> ItemState \cup {"absent"}]
    /\ told \in [Job -> Nat]
    /\ tx \in [Session -> Transaction]
    /\ \A s \in Session : tx[s].pc = "idle" => tx[s] = Idle

Init ==
    /\ job = [j \in Job |-> "absent"]
    /\ seq = [j \in Job |-> 0]
    /\ item = [i \in Item |-> "absent"]
    /\ told = [j \in Job |-> 0]
    /\ tx = [s \in Session |-> Idle]

-----------------------------------------------------------------------------
(* What a statement sees, and what it must wait for *)

(* The rows of w, which a transaction wrote, hide those of the table t.     *)
Over(w, t) == [x \in DOMAIN w \cup DOMAIN t |-> IF x \in DOMAIN w THEN w[x] ELSE t[x]]
Jobs(s) == Over(tx[s].jobs, job)
Items(s) == Over(tx[s].items, item)
Others(s) == Session \ {s}

GateIgnored(s) == TRUE
GateFree(s) == \A o \in Others(s) : ~tx[o].gate

(* FOR NO KEY UPDATE, which an UPDATE of a job takes.                       *)
RowFree(s, j) == \A o \in Others(s) : j \notin DOMAIN tx[o].jobs \cup tx[o].update
(* FOR UPDATE. *)
UpdateFree(s, j) == RowFree(s, j) /\ \A o \in Others(s) : j \notin tx[o].share
(* FOR KEY SHARE. *)
ShareFree(s, j) == \A o \in Others(s) : j \notin tx[o].update

ItemFree(s, i) == \A o \in Others(s) : i \notin DOMAIN tx[o].items

Step(s, from) == tx[s].pc = from /\ UNCHANGED <<job, seq, item, told>>
Goto(s, to) == tx' = [tx EXCEPT ![s] = [tx[s] EXCEPT !.pc = to]]
Begin(s, kind, to, jobs, items) ==
    /\ Step(s, "idle")
    /\ tx' = [tx EXCEPT ![s] = [Idle EXCEPT !.kind = kind, !.pc = to,
                                            !.job = jobs, !.item = items]]

-----------------------------------------------------------------------------
(* The queue's gate, shared by all *)

AfterGate(kind) == IF kind = "admit" THEN "insert"
                   ELSE IF kind = "cancel" THEN "lock" ELSE "promote"
LockGate(s) ==
    /\ Step(s, "gate")
    /\ GateFree(s)
    /\ tx' = [tx EXCEPT ![s] = [tx[s] EXCEPT !.gate = TRUE, !.pc = AfterGate(tx[s].kind)]]

ActiveCount(jobs) == Cardinality({j \in Job : jobs[j] = "running"})

AnyOrder(P, Q) == TRUE
OldestFirst(P, Q) == \A p \in P, q \in Q : seq[p] < seq[q]

(* _promote_locked: SKIP LOCKED leaves out the rows others hold.            *)
Promote(s) ==
    /\ Step(s, "promote")
    /\ LET slots  == MaxActive - ActiveCount(Jobs(s))
           queued == {j \in Job : Jobs(s)[j] = "queued" /\ UpdateFree(s, j)}
       IN \E P \in SUBSET queued :
            /\ Cardinality(P) <= IF slots < 0 THEN 0 ELSE slots
            /\ P = queued \/ Cardinality(P) >= slots
            /\ OldestFirst(P, queued \ P)
            /\ tx' = [tx EXCEPT ![s] = [tx[s] EXCEPT
                 !.jobs = Over([j \in P |-> "running"], @),
                 !.pc = IF tx[s].kind = "cancel" THEN "commit" ELSE "finish"]]

(* _finish_if_drained_locked, for each job of todo in any order. NOT EXISTS *)
(* reads the items without locking them.                                    *)
Live(j, items) == \E k \in Key : items[<<j, k>>] \in LiveItemState
Verdict(j, items) ==
    IF \E k \in Key : items[<<j, k>>] = "published" THEN "completed" ELSE "failed"
Drained(s, j) == Jobs(s)[j] = "running" /\ ~Live(j, Items(s))

FinishWithoutGate == "promote"
AfterFinish == "gate"
FinishIfDrained(s, j) ==
    /\ Step(s, "finish")
    /\ j \in tx[s].todo
    /\ \/ /\ ~Drained(s, j)
          /\ tx' = [tx EXCEPT ![s] = [tx[s] EXCEPT !.todo = @ \ {j}]]
       \/ /\ Drained(s, j)
          /\ RowFree(s, j)
          /\ tx' = [tx EXCEPT ![s] = [tx[s] EXCEPT
                 !.todo = @ \ {j},
                 !.jobs = Over([o \in {j} |-> Verdict(j, Items(s))], @),
                 !.pc = AfterFinish]]

NothingToFinish(s) ==
    /\ Step(s, "finish")
    /\ tx[s].todo = {}
    /\ Goto(s, IF tx[s].kind = "claim" THEN "claim" ELSE "commit")

(* COMMIT makes the rows visible and gives up the locks.                    *)
Commit(s) ==
    /\ tx[s].pc = "commit"
    /\ job' = Jobs(s)
    /\ item' = Items(s)
    /\ seq' = [j \in Job |-> IF job[j] = "absent" /\ job'[j] # "absent"
                               THEN 1 + Cardinality({o \in Job : job[o] # "absent"})
                               ELSE seq[j]]
    /\ told' = [j \in Job |-> IF j \in DOMAIN tx[s].jobs /\ job'[j] \in TerminalState
                                THEN told[j] + 1 ELSE told[j]]
    /\ tx' = [tx EXCEPT ![s] = Idle]

(* The server aborts a deadlock's victim, or loses the connection of a      *)
(* process that stopped: nothing is written.                                *)
Abort(s) ==
    /\ tx[s].pc # "idle"
    /\ tx' = [tx EXCEPT ![s] = Idle]
    /\ UNCHANGED <<job, seq, item, told>>

-----------------------------------------------------------------------------
(* admit_submission *)

BeginAdmit(s, j) ==
    /\ job[j] = "absent"
    /\ \A o \in Session : j \notin tx[o].job
    /\ Begin(s, "admit", "gate", {j}, {})

(* The count and the inserts: nothing they read can change under the gate.  *)
Insert(s, j) ==
    /\ Step(s, "insert")
    /\ j \in tx[s].job
    /\ tx' = [tx EXCEPT ![s] = [tx[s] EXCEPT
         !.jobs = [o \in {j} |-> IF ActiveCount(job) < MaxActive THEN "running" ELSE "queued"],
         !.items = [i \in {j} \X Key |-> "pending"],
         !.pc = "commit"]]

-----------------------------------------------------------------------------
(* cancel *)

CancellableAgain == JobState
Cancellable == {"queued", "running"}

BeginCancel(s, j) ==
    /\ job[j] # "absent"
    /\ Begin(s, "cancel", "gate", {j}, {})

LockJob(s, j) ==
    /\ Step(s, "lock")
    /\ j \in tx[s].job
    /\ UpdateFree(s, j)
    /\ tx' = [tx EXCEPT ![s] = [tx[s] EXCEPT
         !.update = {j},
         !.pc = IF job[j] \in Cancellable THEN "items" ELSE "commit"]]

OnlyRunning == {"running"}
CancelledItemState == LiveItemState

CancelItems(s, j) ==
    /\ Step(s, "items")
    /\ j \in tx[s].job
    /\ \A k \in Key : ItemFree(s, <<j, k>>)
    /\ LET live == {i \in {j} \X Key : item[i] \in CancelledItemState} IN
         tx' = [tx EXCEPT ![s] = [tx[s] EXCEPT
                  !.jobs = [o \in {j} |-> "cancelled"],
                  !.items = [i \in live |-> "cancelled"],
                  !.pc = "promote"]]

-----------------------------------------------------------------------------
(* claim_many *)

BeginClaim(s) == Begin(s, "claim", "sweep", {}, {})

(* _SWEEP_EXPIRED, on the items whose lease ran out.                        *)
Sweep(s) ==
    /\ Step(s, "sweep")
    /\ \E E \in SUBSET {i \in Item : item[i] = "running" /\ job[i[1]] = "running"
                                      /\ ItemFree(s, i)} :
         \E swept \in [E -> {"pending", "failed"}] :
           tx' = [tx EXCEPT ![s] = [tx[s] EXCEPT
                    !.items = swept, !.todo = {i[1] : i \in E}, !.pc = "finish"]]

(* _CLAIM_ANY_MANY *)
Claim(s) ==
    /\ Step(s, "claim")
    /\ \E C \in SUBSET {i \in Item : Items(s)[i] = "pending" /\ Jobs(s)[i[1]] = "running"
                                      /\ ItemFree(s, i)} :
         tx' = [tx EXCEPT ![s] = [tx[s] EXCEPT
                  !.items = Over([i \in C |-> "running"], @), !.pc = "commit"]]

-----------------------------------------------------------------------------
(* publish *)

BeginPublish(s, i) ==
    /\ item[i] \in {"running", "cancelled"}
    /\ Begin(s, "publish", "entry", {}, {i})

(* _UPSERT_ENTRY: last_job_id references the job, and another publish of    *)
(* the pair holds the entry.                                                *)
UpsertEntry(s, i) ==
    /\ Step(s, "entry")
    /\ i \in tx[s].item
    /\ ShareFree(s, i[1])
    /\ \A o \in Others(s) : tx[o].pc = "entry" \/ \A x \in tx[o].item : x[2] # i[2]
    /\ tx' = [tx EXCEPT ![s] = [tx[s] EXCEPT !.share = {i[1]}, !.pc = "fenced"]]

PublishFenced(s, i) ==
    /\ Step(s, "fenced")
    /\ i \in tx[s].item
    /\ ItemFree(s, i)
    /\ \/ /\ item[i] = "running" /\ job[i[1]] = "running"
          /\ tx' = [tx EXCEPT ![s] = [tx[s] EXCEPT
                 !.items = [x \in {i} |-> "published"], !.todo = {i[1]}, !.pc = "finish"]]
       \/ /\ ~(item[i] = "running" /\ job[i[1]] = "running")
          /\ Goto(s, "commit")

-----------------------------------------------------------------------------

Next == \E s \in Session :
    \/ LockGate(s) \/ Promote(s) \/ NothingToFinish(s) \/ Commit(s) \/ Abort(s)
    \/ BeginClaim(s) \/ Sweep(s) \/ Claim(s)
    \/ \E j \in Job : \/ FinishIfDrained(s, j)
                      \/ BeginAdmit(s, j) \/ Insert(s, j)
                      \/ BeginCancel(s, j) \/ LockJob(s, j) \/ CancelItems(s, j)
    \/ \E i \in Item : BeginPublish(s, i) \/ UpsertEntry(s, i) \/ PublishFenced(s, i)

Spec == Init /\ [][Next]_vars

-----------------------------------------------------------------------------
(* Safety *)

(* Whatever the transactions see of each other, the committed rows never    *)
(* show more running jobs than there are places: everybody who starts a job *)
(* counts under the gate.                                                   *)
ActiveLimit == ActiveCount(job) <= MaxActive

(* No commit leaves a place free while a job waits: a job admitted while    *)
(* another ends is promoted by the one that comes second to the gate.       *)
NoIdlePlace ==
    (\E j \in Job : job[j] = "queued") => ActiveCount(job) = MaxActive

(* No job runs while one submitted earlier waits.                           *)
NoOvertaking ==
    \A a, b \in Job : job[a] = "queued" /\ job[b] = "running" => seq[b] < seq[a]

(* Two transactions that see the same job drained, or one that drains it    *)
(* while another cancels it, announce its end once.                         *)
AnnouncedOnce == \A j \in Job : told[j] = IF job[j] \in TerminalState THEN 1 ELSE 0

(* A claim or a sweep that overlaps a cancellation leaves no item of the    *)
(* ended job in anybody's hands, and none is published into it.             *)
EndedJobsKeepNothingLive ==
    \A j \in Job : job[j] \in TerminalState => ~Live(j, item)

(* A job that ended stays as it is.                                         *)
EndedIsFinal ==
    [][\A j \in Job : job[j] \in TerminalState =>
         job'[j] = job[j] /\ \A k \in Key : item'[<<j, k>>] = item[<<j, k>>]]_vars

(* The committed rows keep the promise of FifoAdmission, as those of serial *)
(* transactions do in JobQueue: a commit is one of its steps, or none, and  *)
(* nothing else is seen of a transaction.                                   *)
Waiting == {j \in Job : job[j] = "queued"}
Fifo == INSTANCE FifoAdmission WITH
            waiting <- Waiting,
            ahead   <- {p \in Waiting \X Waiting : seq[p[1]] < seq[p[2]]},
            running <- {j \in Job : job[j] = "running"},
            ended   <- {j \in Job : job[j] \in TerminalState}
ImplementsFifo == Fifo!Spec

(* What _finish_if_drained_locked is for (repository/jobs.py:1206, "A       *)
(* drained job without a published item is a failure, not an empty          *)
(* success."): once no transaction is open, a job without live items has    *)
(* ended. It does not hold: of two publishes that end the last two items of *)
(* a job at the same time, neither sees the other's, and neither ends the   *)
(* job.                                                                     *)
DrainedJobsEnd ==
    (\A s \in Session : tx[s] = Idle) =>
        \A j \in Job : job[j] = "running" => Live(j, item)

=============================================================================
