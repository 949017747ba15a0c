------------------------------ MODULE JobQueue ------------------------------
(***************************************************************************)
(* The portal's job queue, packages/portal/portal/repository/jobs.py.      *)
(*                                                                         *)
(* A team submits a job: a set of (document, source) pairs to look up. At  *)
(* most MaxActive jobs run at a time, the others wait in submission order. *)
(* Workers claim items of running jobs under a lease, look them up, and    *)
(* publish the answer into the shared entry store. An item whose lease     *)
(* expired returns to the queue until its lease attempts are spent. A job  *)
(* ends when its last item ends, or when it is cancelled; either way the   *)
(* oldest waiting job takes the free place.                                *)
(*                                                                         *)
(* Every action below is one committed transaction of the repository, and  *)
(* this module takes transactions to be serial. QueueTransactions splits   *)
(* them into the statements PostgreSQL interleaves.                        *)
(***************************************************************************)
EXTENDS Integers, FiniteSets, Sequences

CONSTANTS
    Job,               \* submissions: each is one portal_jobs row, once admitted
    Key,               \* (document, source) pairs, numbered in the order of the input
    Worker,            \* enrolled worker processes
    Nobody,            \* lease_owner IS NULL
    Source,            \* lookup sites
    Provider,          \* proxy providers
    SourceOf,          \* the source of a pair
    TeamOf,            \* the team that submits a job
    VersionOf,         \* the credential version a job is submitted with
    ProviderOf,        \* the proxy provider of a credential version
    Serves,            \* the sources a worker was started for
    Outcome,           \* what a lookup may come back with
    MaxActive,         \* MAX_ACTIVE_JOBS
    MaxLeaseAttempts,  \* MAX_LEASE_ATTEMPTS
    MaxBatch           \* lanes of a worker: the largest claim_many limit

Version == {VersionOf[j] : j \in Job}

ASSUME FiniteAssumption == IsFiniteSet(Job) /\ IsFiniteSet(Key)
ASSUME KeyAssumption == Key \subseteq Int
ASSUME NobodyAssumption == Nobody \notin Worker
ASSUME LimitAssumption ==
    /\ MaxActive \in Nat \ {0}
    /\ MaxLeaseAttempts \in Nat \ {0}
    /\ MaxBatch \in Nat
ASSUME TableAssumption ==
    /\ SourceOf \in [Key -> Source]
    /\ ProviderOf \in [Version -> Provider]
    /\ Serves \in [Worker -> SUBSET Source]
    /\ Outcome \subseteq {"ok", "not_found", "failed"}

VARIABLES
    requests,  \* submissions that read their reusable answers and await admission
    job,       \* portal_jobs.state
    seq,       \* portal_jobs.queue_sequence
    fence,     \* portal_jobs.lease_fence
    item,      \* portal_job_items.state
    lease,     \* portal_job_items.lease_owner, lease_fence, lease_expires_at
    attempts,  \* portal_job_items.attempts
    entry,     \* portal_entries.status of a pair
    ledger,    \* portal_lookup_attempts: the items with a recorded fetch history
    log,       \* portal_job_events of a job, in order
    outbox,    \* terminal states announced to portal_notification_outbox, in order
    open,      \* (source, provider) pairs whose fleet breaker is open
    held       \* claimed work in the hands of worker lanes

vars == <<requests, job, seq, fence, item, lease, attempts, entry, ledger,
          log, outbox, open, held>>

-----------------------------------------------------------------------------
(* The rows *)

Item == Job \X Key

ActiveState == {"running", "cancelling"}
TerminalState == {"completed", "failed", "cancelled"}
JobState == {"queued"} \cup ActiveState \cup TerminalState
LiveItemStateOrPublished == {"pending", "running", "published"}
LiveItemState == {"pending", "running"}
ItemState == LiveItemState \cup {"published", "failed", "cancelled"}
EntryStatus == {"ok", "not_found", "failed"}
ReusableStatus == {"ok", "not_found"}
Event == JobState \cup {"cancellation_requested"}

Lease == [owner : Worker \cup {Nobody}, fence : Nat, expired : BOOLEAN]
NoLease == [owner |-> Nobody, fence |-> 0, expired |-> FALSE]

(* What a worker carries from a claim to its publish. attempt is the value  *)
(* of portal_job_items.attempts the claim wrote; the code does not send it  *)
(* back, so no guard reads it: it only tells two claims of an item apart.   *)
Claim == [item : Item, worker : Worker, fence : Nat, attempt : Nat]

Request == [job : Job, plan : SUBSET Key, reuse : SUBSET Key]

TypeOK ==
    /\ requests \in SUBSET Request
    /\ job \in [Job -> JobState \cup {"absent"}]
    /\ seq \in [Job -> Nat]
    /\ fence \in [Job -> Nat]
    /\ item \in [Item -> ItemState \cup {"absent"}]
    /\ lease \in [Item -> Lease]
    /\ attempts \in [Item -> Nat]
    /\ entry \in [Key -> EntryStatus \cup {"absent"}]
    /\ ledger \in SUBSET Item
    /\ log \in [Job -> Seq(Event)]
    /\ outbox \in [Job -> Seq(TerminalState)]
    /\ open \in SUBSET (Source \X Provider)
    /\ held \in SUBSET Claim

Init ==
    /\ requests = {}
    /\ job = [j \in Job |-> "absent"]
    /\ seq = [j \in Job |-> 0]
    /\ fence = [j \in Job |-> 0]
    /\ item = [i \in Item |-> "absent"]
    /\ lease = [i \in Item |-> NoLease]
    /\ attempts = [i \in Item |-> 0]
    /\ entry = [k \in Key |-> "absent"]
    /\ ledger = {}
    /\ log = [j \in Job |-> <<>>]
    /\ outbox = [j \in Job |-> <<>>]
    /\ open = {}
    /\ held = {}

-----------------------------------------------------------------------------
(* Queries *)

JobsIn(states, jobs) == {j \in Job : jobs[j] \in states}

(* The rows one of the queue's ORDER BY ... LIMIT n queries returns out of  *)
(* the rows S that match it.                                                *)
IsFirst(P, S, n, Before(_, _)) ==
    /\ P \subseteq S
    /\ Cardinality(P) <= n
    /\ P = S \/ Cardinality(P) = n
    /\ \A p \in P, s \in S \ P : Before(p, s)

NewestFirst(a, b) == seq[a] > seq[b]
Older(a, b) == seq[a] < seq[b]
ClaimedBefore(a, b) ==
    \/ seq[a[1]] < seq[b[1]]
    \/ a[1] = b[1] /\ a[2] < b[2]

PromotionOneShort(P, jobs) ==
    LET slots == MaxActive - Cardinality(JobsIn(ActiveState, jobs)) - 1
    IN  IF slots <= 0 THEN P = {}
                      ELSE IsFirst(P, JobsIn({"queued"}, jobs), slots, Older)

(* The jobs P that _promote_locked moves to running when it finds the jobs  *)
(* in the states jobs.                                                      *)
IsPromotion(P, jobs) ==
    LET slots == MaxActive - Cardinality(JobsIn(ActiveState, jobs))
    IN  IF slots <= 0 THEN P = {}
                      ELSE IsFirst(P, JobsIn({"queued"}, jobs), slots, Older)

Has(j, items, states) == \E k \in Key : items[<<j, k>>] \in states

(* The jobs _finish_if_drained_locked closes among those it is called for,  *)
(* given the item states its transaction sees, and the state it gives them. *)
FinishingWithPending(touched, items) ==
    {j \in touched : job[j] = "running" /\ ~Has(j, items, {"running"})}
Finishing(touched, items) ==
    {j \in touched : job[j] = "running" /\ ~Has(j, items, LiveItemState)}
Verdict(j, items) ==
    IF Has(j, items, {"published"}) THEN "completed" ELSE "failed"
Finish(done, items) ==
    [j \in Job |-> IF j \in done THEN Verdict(j, items) ELSE job[j]]

(* The writes that follow when a transaction moves the jobs in ended to the *)
(* terminal states given by jobs: one event and one round of notification   *)
(* intents for each, then the promotion of the oldest queued jobs, each     *)
(* with its event.                                                          *)
CloseAndPromote(ended, jobs, notice) ==
    \E P \in SUBSET Job :
        /\ IF ended = {} THEN P = {} ELSE IsPromotion(P, jobs)
        /\ job' = [j \in Job |-> IF j \in P THEN "running" ELSE jobs[j]]
        /\ log' = [j \in Job |->
                     IF j \in ended THEN log[j] \o notice[j] \o <<jobs[j]>>
                     ELSE IF j \in P THEN Append(log[j], "running")
                     ELSE log[j]]
        /\ outbox' = [j \in Job |-> IF j \in ended THEN Append(outbox[j], jobs[j])
                                                   ELSE outbox[j]]

NoNotice == [j \in Job |-> <<>>]

-----------------------------------------------------------------------------
(* Submissions *)

(* reusable_for_team: the answers this team already published itself.       *)
Reusable(j) ==
    {k \in Key : /\ entry[k] \in ReusableStatus
                 /\ \E o \in Job : TeamOf[o] = TeamOf[j] /\ item[<<o, k>>] = "published"}

(* PortalService._admit reads the reusable answers before the transaction   *)
(* that uses them. Which of them are fresh enough, and whether the leader   *)
(* asked for reuse at all, decides how many it takes.                       *)
Submit(j, plan) ==
    /\ job[j] = "absent"
    /\ \A r \in requests : r.job # j
    /\ \E reuse \in SUBSET (plan \cap Reusable(j)) :
         requests' = requests \cup {[job |-> j, plan |-> plan, reuse |-> reuse]}
    /\ UNCHANGED <<job, seq, fence, item, lease, attempts, entry, ledger, log,
                   outbox, open, held>>

AdmittedState(r) ==
    IF r.plan \subseteq r.reuse THEN "completed"
    ELSE IF Cardinality(JobsIn(ActiveState, job)) < MaxActive THEN "running"
    ELSE "queued"

Admit(r) ==
    /\ r \in requests
    /\ requests' = requests \ {r}
    /\ LET state == AdmittedState(r) IN
         /\ job' = [job EXCEPT ![r.job] = state]
         /\ log' = [log EXCEPT ![r.job] = Append(@, state)]
         /\ outbox' = IF state = "completed"
                        THEN [outbox EXCEPT ![r.job] = Append(@, state)]
                        ELSE outbox
    /\ seq' = [seq EXCEPT ![r.job] = 1 + Cardinality(JobsIn(JobState, job))]
    /\ item' = [i \in Item |->
                  IF i[1] # r.job \/ i[2] \notin r.plan THEN item[i]
                  ELSE IF i[2] \in r.reuse THEN "published"
                  ELSE "pending"]
    /\ UNCHANGED <<fence, lease, attempts, entry, ledger, open, held>>

CancellableAgain(j) == job[j] # "absent"
Cancellable(j) == job[j] \in {"queued"} \cup ActiveState

(* cancel: the intermediate state "cancelling" never outlives the           *)
(* transaction. A job that already ended is returned as it is.              *)
Cancel(j) ==
    /\ Cancellable(j)
    /\ fence' = [fence EXCEPT ![j] = IF job[j] = "running" THEN @ + 1 ELSE @]
    /\ item' = [i \in Item |->
                  IF i[1] = j /\ item[i] \in LiveItemState THEN "cancelled" ELSE item[i]]
    /\ CloseAndPromote({j}, [job EXCEPT ![j] = "cancelled"],
           [NoNotice EXCEPT ![j] = IF job[j] = "running"
                                     THEN <<"cancellation_requested">> ELSE <<>>])
    /\ UNCHANGED <<requests, seq, lease, attempts, entry, ledger, open, held>>

-----------------------------------------------------------------------------
(* Workers *)

(* _SWEEP_EXPIRED: the items of running jobs whose lease ran out, and the   *)
(* state each gets.                                                         *)
ExpiredAndSpent ==
    {i \in Item : /\ item[i] = "running" /\ lease[i].expired /\ job[i[1]] = "running"
                  /\ attempts[i] >= MaxLeaseAttempts}
Expired ==
    {i \in Item : item[i] = "running" /\ lease[i].expired /\ job[i[1]] = "running"}
SweptItemOnceMore ==
    [i \in Item |-> IF i \notin Expired THEN item[i]
                    ELSE IF attempts[i] > MaxLeaseAttempts THEN "failed"
                    ELSE "pending"]
SweptItem ==
    [i \in Item |-> IF i \notin Expired THEN item[i]
                    ELSE IF attempts[i] >= MaxLeaseAttempts THEN "failed"
                    ELSE "pending"]

Pair(i) == <<SourceOf[i[2]], ProviderOf[VersionOf[i[1]]]>>

(* The rows the claim queries match: pending items of running jobs whose    *)
(* breaker is closed.                                                       *)
Claimable(items, jobs, sources) ==
    {i \in Item : /\ items[i] = "pending"
                  /\ jobs[i[1]] = "running"
                  /\ SourceOf[i[2]] \in sources
                  /\ Pair(i) \notin open}

(* claim_many (and claim, which takes at most one): sweep expired leases,   *)
(* close the jobs that drained, promote, then claim up to n items, those of *)
(* the lanes' current source and credential version first.                  *)
ClaimMany(w, n, affinity) ==
    /\ CloseAndPromote(Finishing({i[1] : i \in Expired}, SweptItem),
                       Finish(Finishing({i[1] : i \in Expired}, SweptItem), SweptItem),
                       NoNotice)
    /\ LET matches  == Claimable(SweptItem, job', Serves[w])
           kin      == {i \in Claimable(SweptItem, job', Source) :
                          <<SourceOf[i[2]], VersionOf[i[1]]>> \in affinity}
       IN \E first \in SUBSET kin : \E rest \in SUBSET (matches \ first) :
            LET taken == first \cup rest IN
            /\ IsFirst(first, kin, n, ClaimedBefore)
            /\ IsFirst(rest, matches \ first, n - Cardinality(first), ClaimedBefore)
            /\ item' = [i \in Item |-> IF i \in taken THEN "running" ELSE SweptItem[i]]
            /\ attempts' = [i \in Item |-> IF i \in taken THEN attempts[i] + 1 ELSE attempts[i]]
            /\ lease' = [i \in Item |->
                 IF i \in taken THEN [owner |-> w, fence |-> fence[i[1]], expired |-> FALSE]
                 ELSE IF i \in Expired THEN [lease[i] EXCEPT !.owner = Nobody, !.expired = FALSE]
                 ELSE lease[i]]
            /\ held' = held \cup
                 {[item |-> i, worker |-> w, fence |-> fence[i[1]],
                   attempt |-> attempts[i] + 1] : i \in taken}
    /\ UNCHANGED <<requests, seq, fence, entry, ledger, open>>

(* Whether the fenced update of a publish still finds its row.              *)
CanPublishAnyOwner(c) ==
    /\ item[c.item] = "running"
    /\ lease[c.item].fence = c.fence
    /\ job[c.item[1]] = "running"
    /\ fence[c.item[1]] = c.fence
CanPublishByLease(c) ==
    /\ lease[c.item].owner = c.worker
    /\ lease[c.item].fence = c.fence
CanPublish(c) ==
    /\ item[c.item] = "running"
    /\ lease[c.item].owner = c.worker
    /\ lease[c.item].fence = c.fence
    /\ job[c.item[1]] = "running"
    /\ fence[c.item[1]] = c.fence

PublishedItem(c) ==
    IF CanPublish(c) THEN [item EXCEPT ![c.item] = "published"] ELSE item

(* The entry and the fetch history are written whether or not the claim is  *)
(* still current.                                                           *)
ObserveIfCurrent(c, status) ==
    /\ entry' = IF CanPublish(c) THEN [entry EXCEPT ![c.item[2]] = status] ELSE entry
    /\ ledger' = ledger \cup {c.item}
Observe(c, status) ==
    /\ entry' = [entry EXCEPT ![c.item[2]] = status]
    /\ ledger' = ledger \cup {c.item}

(* publish: the observation is written in any case; the item is published,  *)
(* and its job closed when nothing is left, only while the claim is         *)
(* current. worker_publish then reports the contact to the fleet breaker in *)
(* a transaction of its own, which a crash may skip.                        *)
Publish(c, status) ==
    /\ c \in held
    /\ held' = held \ {c}
    /\ Observe(c, status)
    /\ item' = PublishedItem(c)
    /\ lease' = IF CanPublish(c)
                  THEN [lease EXCEPT ![c.item].owner = Nobody, ![c.item].expired = FALSE]
                  ELSE lease
    /\ LET touched == IF CanPublish(c) THEN {c.item[1]} ELSE {}
           done    == Finishing(touched, PublishedItem(c))
       IN  CloseAndPromote(done, Finish(done, PublishedItem(c)), NoNotice)
    /\ open' \in {open} \cup
         (IF ~CanPublish(c) THEN {}
          ELSE IF status = "failed" THEN {open \cup {Pair(c.item)}}
          ELSE {open \ {Pair(c.item)}})
    /\ UNCHANGED <<requests, seq, fence, attempts>>

(* A lane error or a worker crash: the item is left for lease expiry.       *)
Abandon(c) ==
    /\ c \in held
    /\ held' = held \ {c}
    /\ UNCHANGED <<requests, job, seq, fence, item, lease, attempts, entry,
                   ledger, log, outbox, open>>

(* Five minutes pass since an item was claimed.                             *)
LeaseExpires(i) ==
    /\ item[i] = "running"
    /\ ~lease[i].expired
    /\ lease' = [lease EXCEPT ![i].expired = TRUE]
    /\ UNCHANGED <<requests, job, seq, fence, item, attempts, entry, ledger,
                   log, outbox, open, held>>

(* open_until passes.                                                       *)
BreakerCloses(pair) ==
    /\ pair \in open
    /\ open' = open \ {pair}
    /\ UNCHANGED <<requests, job, seq, fence, item, lease, attempts, entry,
                   ledger, log, outbox, held>>

-----------------------------------------------------------------------------

Affinity == {{}} \cup {{<<s, v>>} : s \in Source, v \in Version}

Next ==
    \/ \E j \in Job : \E plan \in SUBSET Key : Submit(j, plan)
    \/ \E r \in requests : Admit(r)
    \/ \E j \in Job : Cancel(j)
    \/ \E w \in Worker, n \in 1..MaxBatch, a \in Affinity : ClaimMany(w, n, a)
    \/ \E c \in held, status \in Outcome : Publish(c, status)
    \/ \E c \in held : Abandon(c)
    \/ \E i \in Item : LeaseExpires(i)
    \/ \E pair \in open : BreakerCloses(pair)

Spec == Init /\ [][Next]_vars

-----------------------------------------------------------------------------
(* Safety *)

(* The five-process limit holds however admissions, cancellations, sweeps   *)
(* and publishes interleave: each of them counts and promotes for itself.   *)
ActiveLimit == Cardinality(JobsIn(ActiveState, job)) <= MaxActive

(* No place stays free while a job waits: every transaction that ends an    *)
(* active job must promote in the same step, since nothing else looks at    *)
(* the queue.                                                               *)
NoIdlePlace ==
    JobsIn({"queued"}, job) # {} => Cardinality(JobsIn(ActiveState, job)) = MaxActive

(* Jobs start in submission order: no job that had to wait, or was promoted,*)
(* starts before one submitted earlier that still waits.                    *)
Started(j) == \E n \in DOMAIN log[j] : log[j][n] = "running"
StartInOrder ==
    \A a, b \in Job : job[a] = "queued" /\ seq[a] < seq[b] => ~Started(b)

(* The state of a job is the one its items justify. A running or waiting    *)
(* job still has work, so the transaction that ended its last item must     *)
(* have closed it; a completed one has no failed verdict hidden in it and a *)
(* failed one published nothing; a job that ended keeps no live item a      *)
(* worker could still claim.                                                *)
Fits(j, jobs, items) ==
    /\ jobs[j] \in {"queued", "running"} <=> Has(j, items, LiveItemState)
    /\ jobs[j] = "failed" => ~Has(j, items, {"published"})
    /\ jobs[j] = "completed" => Has(j, items, {"published"}) \/ ~Has(j, items, ItemState)
    /\ Has(j, items, {"cancelled"}) => jobs[j] = "cancelled"
JobMatchesItems == \A j \in Job : Fits(j, job, item)

(* The terminal state of a job is announced exactly once, when it is        *)
(* reached, and its event closes the job's event history.                   *)
AnnouncedOnce ==
    \A j \in Job :
        IF job[j] \in TerminalState
          THEN /\ outbox[j] = <<job[j]>>
               /\ log[j] # <<>> /\ log[j][Len(log[j])] = job[j]
          ELSE outbox[j] = <<>>

(* An item is handed out at most MaxLeaseAttempts times, and only an item   *)
(* handed out that often fails.                                             *)
LeaseAttemptsBounded ==
    \A i \in Item : /\ attempts[i] <= MaxLeaseAttempts
                    /\ item[i] = "failed" => attempts[i] = MaxLeaseAttempts

(* Reassignment fences the worker that lost an item: while the item's       *)
(* latest claim is being worked on, an older one can publish only if the    *)
(* same worker made both.                                                   *)
OneWorkerPublishes ==
    \A c, d \in held :
        CanPublish(c) /\ c.item = d.item /\ d.attempt = attempts[d.item] =>
            c.worker = d.worker

(* What a worker observed survives a stale fence: a pair has an entry, and  *)
(* so can be published or reused, exactly when some publish recorded its    *)
(* fetch history for it.                                                    *)
ObservationsKept ==
    /\ \A k \in Key : entry[k] # "absent" <=> \E i \in ledger : i[2] = k
    /\ \A i \in Item : item[i] = "published" => entry[i[2]] # "absent"

(* A job that ended stays as it is: its state, its items, its events and    *)
(* its announcements never change again, whatever late workers and repeated *)
(* cancellations do.                                                        *)
EndedIsFinal ==
    [][\A j \in Job : job[j] \in TerminalState =>
          /\ job'[j] = job[j] /\ log'[j] = log[j] /\ outbox'[j] = outbox[j]
          /\ \A k \in Key : item'[<<j, k>>] = item[<<j, k>>]]_vars

(* A published item stays published: a cancellation keeps the results that  *)
(* were already there.                                                      *)
PublishedIsFinal ==
    [][\A i \in Item : item[i] = "published" => item'[i] = "published"]_vars

(* The queue keeps the promise of FifoAdmission: every transaction of every *)
(* client and worker is one of its steps, or none.                          *)
Waiting == JobsIn({"queued"}, job)
Fifo == INSTANCE FifoAdmission WITH
            waiting <- Waiting,
            ahead   <- {p \in Waiting \X Waiting : seq[p[1]] < seq[p[2]]},
            running <- JobsIn(ActiveState, job),
            ended   <- JobsIn(TerminalState, job)
ImplementsFifo == Fifo!Spec

-----------------------------------------------------------------------------
(* The inductive invariant                                                 *)

(* A row that does not exist yet has no history, only such a row waits for  *)
(* its admission, and only once. "cancelling" is never committed.           *)
RowsBeginEmpty ==
    /\ \A j \in Job :
         /\ job[j] # "cancelling"
         /\ job[j] = "absent" => /\ log[j] = <<>> /\ outbox[j] = <<>>
                                /\ ~Has(j, item, ItemState)
         /\ job[j] = "queued" => ~Started(j)
    /\ \A r \in requests : /\ job[r.job] = "absent"
                           /\ \A q \in requests : q.job = r.job => q = r

(* queue_sequence is a strict order of the admitted jobs, and the next      *)
(* number is larger than all of them.                                       *)
SequenceIsOrder ==
    /\ \A j \in Job : job[j] # "absent" => seq[j] <= Cardinality(JobsIn(JobState, job))
    /\ \A a, b \in Job : job[a] # "absent" /\ job[b] # "absent" /\ a # b => seq[a] # seq[b]

(* An item can be handed out again only while it has lease attempts left.   *)
AttemptsLeft ==
    \A i \in Item : /\ item[i] = "pending" => attempts[i] < MaxLeaseAttempts
                    /\ item[i] = "absent" => attempts[i] = 0

(* A running item is leased to the worker of its latest claim.              *)
LatestClaimOwns ==
    \A c \in held :
        /\ c.attempt <= attempts[c.item]
        /\ item[c.item] = "running" /\ c.attempt = attempts[c.item] =>
              lease[c.item].owner = c.worker

(* An answer that a waiting submission is going to reuse stays in the store.*)
ReuseIsStored ==
    \A r \in requests : \A k \in r.reuse : entry[k] # "absent"

ClaimsInv == LatestClaimOwns /\ ObservationsKept /\ ReuseIsStored

QueueInv ==
    /\ TypeOK
    /\ RowsBeginEmpty
    /\ ActiveLimit
    /\ NoIdlePlace
    /\ SequenceIsOrder
    /\ StartInOrder
    /\ JobMatchesItems
    /\ AnnouncedOnce
    /\ LeaseAttemptsBounded
    /\ AttemptsLeft

-----------------------------------------------------------------------------
(* Fairness and liveness *)

(* The dispatch loop polls at least every DISPATCH_MAX_BACKOFF_SECONDS with *)
(* the worker's whole source list; a lane's work ends in a publish or an    *)
(* error; time passes.                                                      *)
Fairness ==
    /\ \A w \in Worker : WF_vars(\E n \in 1..MaxBatch, a \in Affinity : ClaimMany(w, n, a))
    /\ \A i \in Item : WF_vars(LeaseExpires(i))
    /\ \A p \in Source \X Provider : WF_vars(BreakerCloses(p))

FairSpec == Spec /\ Fairness

(* Every admitted job ends, even when every worker that claims its items    *)
(* dies: lease expiry and the attempt bound see to it.                      *)
EveryJobEnds == \A j \in Job : job[j] \in {"queued", "running"} ~> job[j] \in TerminalState

=============================================================================
