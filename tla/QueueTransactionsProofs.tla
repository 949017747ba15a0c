---------------------- MODULE QueueTransactionsProofs ----------------------
(***************************************************************************)
(* What the overlapping transactions of the queue keep, for any number of  *)
(* connections, jobs, items and places. The argument has two halves.       *)
(*                                                                         *)
(* Only a transaction that holds the gate changes committed jobs, so what  *)
(* it counted and ordered is still true when it commits (GateRule,         *)
(* CountRule); a drained job that is written before the gate is taken only *)
(* ever frees a place.                                                     *)
(*                                                                         *)
(* The rows that a transaction wrote are its own until it ends (Apart), and*)
(* they were written from states that nobody else can change meanwhile     *)
(* (RowRule, ItemRule): that is why two transactions do not end one job,   *)
(* and why a job that one of them ends holds no item another one has.      *)
(*                                                                         *)
(* The last part is about the one thing that does not hold, and says when  *)
(* it would (DrainedJobsEndAlone).                                         *)
(***************************************************************************)
EXTENDS QueueTransactions, FiniteSetTheorems, TLAPS

Rows(s) == DOMAIN tx[s].jobs
ItemRows(s) == DOMAIN tx[s].items

(* Jobs are written under the gate, but for drained ones, whose transaction *)
(* goes to the gate next.                                                   *)
GateRule(s) ==
    /\ tx[s].pc \in {"insert", "lock", "items", "promote"} => tx[s].gate
    /\ tx[s].pc \in {"commit", "finish", "claim"} => tx[s].gate \/ Rows(s) = {}
    /\ tx[s].pc \in {"insert", "lock", "items", "sweep", "entry", "fenced"} => Rows(s) = {}
    /\ tx[s].pc = "gate" /\ tx[s].kind \in {"admit", "cancel"} => Rows(s) = {}
    /\ ~tx[s].gate => /\ tx[s].update = {}
                      /\ \A j \in Rows(s) : tx[s].jobs[j] \in {"completed", "failed"}

(* Each kind of transaction runs its own statements.                        *)
KindRule(s) ==
    /\ tx[s].pc = "insert" => tx[s].kind = "admit"
    /\ tx[s].pc \in {"lock", "items"} => tx[s].kind = "cancel"
    /\ tx[s].pc = "promote" => tx[s].kind # "admit"
    /\ tx[s].pc \in {"sweep", "claim", "entry", "fenced", "finish"} =>
         tx[s].kind \notin {"admit", "cancel"}

(* What was true of the jobs and items a transaction deals with stays true. *)
TargetRule(s) ==
    /\ tx[s].kind = "admit" => \A j \in tx[s].job : job[j] = "absent"
    /\ tx[s].kind = "cancel" => \A j \in tx[s].job : job[j] # "absent"
    /\ \A a, b \in tx[s].job : a = b
    /\ \A j \in tx[s].update : job[j] # "absent"
    /\ \A j \in tx[s].todo \cup tx[s].share : job[j] \notin {"absent", "queued"}
    /\ \A i \in tx[s].item : job[i[1]] \notin {"absent", "queued"}
    /\ tx[s].pc = "items" => \A j \in tx[s].job : j \in tx[s].update /\ job[j] \in Cancellable

(* A job row is written from the state it is in, and one that ends has no   *)
(* live item, be it the transaction's own or a committed one.               *)
RowRule(s) ==
    \A j \in Rows(s) :
        /\ job[j] \notin TerminalState
        /\ tx[s].kind = "admit" <=> job[j] = "absent"
        /\ tx[s].kind = "admit" => j \in tx[s].job
        /\ tx[s].jobs[j] = "queued" => tx[s].kind = "admit"
        /\ tx[s].jobs[j] = "running" => job[j] \in {"absent", "queued"}
        /\ tx[s].jobs[j] \in {"completed", "failed"} => job[j] = "running"
        /\ tx[s].jobs[j] \in TerminalState => ~Live(j, Items(s))

(* An item is admitted with its job, or written while it is live and its    *)
(* job has left the line.                                                   *)
ItemRule(s) ==
    \A i \in ItemRows(s) :
        IF tx[s].kind = "admit"
          THEN i[1] \in Rows(s) /\ tx[s].items[i] = "pending"
          ELSE item[i] \in LiveItemState /\ Jobs(s)[i[1]] # "queued"

(* Who holds the gate sees at most MaxActive running jobs, its own included,*)
(* in the order of submission, and no free place once it has promoted.      *)
NoIdle(jobs) == (\E j \in Job : jobs[j] = "queued") => ActiveCount(jobs) = MaxActive
Ordered(s) ==
    \A a, b \in Job :
        Jobs(s)[a] = "queued" /\ Jobs(s)[b] = "running" =>
            job[b] # "absent" /\ (job[a] = "absent" \/ seq[b] < seq[a])
CountRule(s) ==
    tx[s].gate =>
        /\ ActiveCount(Jobs(s)) <= MaxActive
        /\ Ordered(s)
        /\ tx[s].pc \notin {"gate", "promote"} => NoIdle(Jobs(s))

SessionInv(s) ==
    /\ GateRule(s) /\ KindRule(s) /\ TargetRule(s)
    /\ RowRule(s) /\ ItemRule(s) /\ CountRule(s)

(* One transaction holds the gate, and no row is written by two.            *)
Apart(s, o) ==
    /\ ~(tx[s].gate /\ tx[o].gate)
    /\ Rows(s) \cap (Rows(o) \cup tx[o].update) = {}
    /\ ItemRows(s) \cap ItemRows(o) = {}
    /\ tx[s].kind = "admit" => tx[s].job \cap tx[o].job = {}

(* A job that does not exist has no items, one that waits has none that was *)
(* ever claimed, and the next queue number is larger than all.              *)
Admitted(jobs) == {j \in Job : jobs[j] # "absent"}
RowsBegin ==
    \A j \in Job :
        /\ job[j] = "absent" => \A k \in Key : item[<<j, k>>] = "absent"
        /\ job[j] = "queued" => \A k \in Key : item[<<j, k>>] \notin {"running", "cancelled"}
        /\ job[j] # "absent" => seq[j] <= Cardinality(Admitted(job))

Committed == /\ RowsBegin /\ ActiveLimit /\ NoIdlePlace /\ NoOvertaking
             /\ AnnouncedOnce /\ EndedJobsKeepNothingLive

TxInv ==
    /\ TypeOK
    /\ Committed
    /\ \A s \in Session : SessionInv(s)
    /\ \A s, o \in Session : s # o => Apart(s, o)

-----------------------------------------------------------------------------
(* What a transaction sees                                                  *)

(* What is seen of a table under the rows that were written.                *)
LEMMA OverRows ==
    ASSUME NEW w, NEW t, DOMAIN w \subseteq DOMAIN t
    PROVE  Over(w, t) = [x \in DOMAIN t |-> IF x \in DOMAIN w THEN w[x] ELSE t[x]]
<1>1. DOMAIN w \cup DOMAIN t = DOMAIN t
  OBVIOUS
<1> QED BY <1>1 DEF Over

LEMMA OverPartial ==
    ASSUME NEW S, NEW T, NEW v \in Partial(S, T), NEW w \in Partial(S, T)
    PROVE  Over(v, w) \in Partial(S, T)
<1>1. /\ DOMAIN v \subseteq S /\ \A x \in DOMAIN v : v[x] \in T
      /\ DOMAIN w \subseteq S /\ \A x \in DOMAIN w : w[x] \in T
  BY DEF Partial
<1>2. Over(v, w) \in [DOMAIN v \cup DOMAIN w -> T]
  BY <1>1 DEF Over
<1> QED BY <1>1, <1>2 DEF Partial

(* A session's transaction, field by field.                                 *)
LEMMA TxTypes ==
    ASSUME TypeOK, NEW s \in Session
    PROVE  /\ tx[s].kind \in Kind /\ tx[s].pc \in Place /\ tx[s].gate \in BOOLEAN
           /\ tx[s].job \subseteq Job /\ tx[s].item \subseteq Item
           /\ tx[s].todo \subseteq Job /\ tx[s].update \subseteq Job /\ tx[s].share \subseteq Job
           /\ Rows(s) \subseteq Job /\ \A j \in Rows(s) : tx[s].jobs[j] \in JobState
           /\ ItemRows(s) \subseteq Item /\ \A i \in ItemRows(s) : tx[s].items[i] \in ItemState
<1>1. tx[s] \in Transaction
  BY DEF TypeOK
<1>2. tx[s].jobs \in Partial(Job, JobState) /\ tx[s].items \in Partial(Item, ItemState)
  BY <1>1 DEF Transaction
<1> QED BY <1>1, <1>2 DEF Transaction, Partial, Rows, ItemRows

(* What it sees: its own rows, and the committed ones.                      *)
LEMMA Seen ==
    ASSUME TypeOK, NEW s \in Session
    PROVE  /\ Jobs(s) = [j \in Job |-> IF j \in Rows(s) THEN tx[s].jobs[j] ELSE job[j]]
           /\ \A j \in Job : Jobs(s)[j] \in JobState \cup {"absent"}
           /\ Items(s) = [i \in Item |-> IF i \in ItemRows(s) THEN tx[s].items[i] ELSE item[i]]
           /\ \A i \in Item : Items(s)[i] \in ItemState \cup {"absent"}
<1>1. /\ job \in [Job -> JobState \cup {"absent"}]
      /\ item \in [Item -> ItemState \cup {"absent"}]
      /\ DOMAIN tx[s].jobs \subseteq Job /\ DOMAIN tx[s].items \subseteq Item
  BY DEF TypeOK, Transaction, Partial
<1>2. Jobs(s) = [j \in Job |-> IF j \in Rows(s) THEN tx[s].jobs[j] ELSE job[j]]
  <2>1. Over(tx[s].jobs, job) = [j \in Job |-> IF j \in DOMAIN tx[s].jobs THEN tx[s].jobs[j] ELSE job[j]]
    BY <1>1, OverRows
  <2> QED BY <2>1 DEF Jobs, Rows
<1>3. Items(s) = [i \in Item |-> IF i \in ItemRows(s) THEN tx[s].items[i] ELSE item[i]]
  <2>1. Over(tx[s].items, item) = [i \in Item |-> IF i \in DOMAIN tx[s].items THEN tx[s].items[i] ELSE item[i]]
    BY <1>1, OverRows
  <2> QED BY <2>1 DEF Items, ItemRows
<1>4. \A j \in Rows(s) : tx[s].jobs[j] \in JobState
  BY TxTypes
<1>5. \A i \in ItemRows(s) : tx[s].items[i] \in ItemState
  BY TxTypes
<1> QED BY <1>1, <1>2, <1>3, <1>4, <1>5

LEMMA SeenNext ==
    ASSUME TypeOK', NEW s \in Session
    PROVE  /\ Jobs(s)' = [j \in Job |-> IF j \in Rows(s)' THEN tx'[s].jobs[j] ELSE job'[j]]
           /\ Items(s)' = [i \in Item |-> IF i \in ItemRows(s)' THEN tx'[s].items[i] ELSE item'[i]]
<1>1. /\ job' \in [Job -> JobState \cup {"absent"}]
      /\ item' \in [Item -> ItemState \cup {"absent"}]
      /\ DOMAIN tx'[s].jobs \subseteq Job /\ DOMAIN tx'[s].items \subseteq Item
  BY DEF TypeOK, Transaction, Partial
<1>2. Jobs(s)' = [j \in Job |-> IF j \in Rows(s)' THEN tx'[s].jobs[j] ELSE job'[j]]
  <2>1. Over(tx'[s].jobs, job') = [j \in Job |-> IF j \in DOMAIN tx'[s].jobs THEN tx'[s].jobs[j] ELSE job'[j]]
    BY <1>1, OverRows
  <2> QED BY <2>1 DEF Jobs, Rows
<1>3. Items(s)' = [i \in Item |-> IF i \in ItemRows(s)' THEN tx'[s].items[i] ELSE item'[i]]
  <2>1. Over(tx'[s].items, item') = [i \in Item |-> IF i \in DOMAIN tx'[s].items THEN tx'[s].items[i] ELSE item'[i]]
    BY <1>1, OverRows
  <2> QED BY <2>1 DEF Items, ItemRows
<1> QED BY <1>2, <1>3

(* Who wrote no job sees the committed ones.                                *)
LEMMA SeenUnwritten ==
    ASSUME TypeOK, NEW s \in Session, Rows(s) = {}
    PROVE  Jobs(s) = job
<1>1. Jobs(s) = [j \in Job |-> job[j]]
  BY Seen
<1> QED BY <1>1 DEF TypeOK

(* A session without a transaction holds nothing.                           *)
LEMMA IdleHolds ==
    ASSUME NEW s \in Session, tx'[s] = Idle
    PROVE  /\ SessionInv(s)'
           /\ \A o \in Session : o # s => Apart(s, o)' /\ Apart(o, s)'
<1>1. /\ tx'[s].kind = "none" /\ tx'[s].pc = "idle" /\ tx'[s].gate = FALSE
      /\ tx'[s].job = {} /\ tx'[s].item = {} /\ tx'[s].todo = {} /\ tx'[s].update = {}
      /\ tx'[s].share = {} /\ tx'[s].jobs = <<>> /\ tx'[s].items = <<>>
  BY DEF Idle
<1>2. Rows(s)' = {} /\ ItemRows(s)' = {}
  BY <1>1 DEF Rows, ItemRows
<1>3. SessionInv(s)'
  BY <1>1, <1>2 DEF SessionInv, GateRule, KindRule, TargetRule, RowRule, ItemRule, CountRule
<1>4. \A o \in Session : Apart(s, o)' /\ Apart(o, s)'
  BY <1>1, <1>2 DEF Apart
<1> QED BY <1>3, <1>4

LEMMA IdleType == Idle \in Transaction
<1>1. <<>> \in Partial(Job, JobState) /\ <<>> \in Partial(Item, ItemState)
  <2>1. <<>> \in [{} -> JobState] /\ <<>> \in [{} -> ItemState]
    OBVIOUS
  <2> QED BY <2>1 DEF Partial
<1> QED BY <1>1 DEF Idle, Transaction, Kind, Place

(* A statement that commits nothing leaves the other sessions' rules alone. *)
LEMMA StepKeeps ==
    ASSUME TxInv, NEW s \in Session, UNCHANGED <<job, seq, item, told>>, TypeOK',
           \A o \in Session : o # s => tx'[o] = tx[o],
           SessionInv(s)',
           \A o \in Session : o # s => Apart(s, o)' /\ Apart(o, s)'
    PROVE  TxInv'
<1>1. Committed'
  BY DEF TxInv, Committed, RowsBegin, ActiveLimit, NoIdlePlace, NoOvertaking,
         AnnouncedOnce, EndedJobsKeepNothingLive, ActiveCount, Live, Admitted
<1>2. ASSUME NEW o \in Session, o # s PROVE SessionInv(o)'
  <2>1. tx'[o] = tx[o] /\ SessionInv(o)
    BY <1>2 DEF TxInv
  <2>2. Rows(o)' = Rows(o) /\ ItemRows(o)' = ItemRows(o)
        /\ Jobs(o)' = Jobs(o) /\ Items(o)' = Items(o)
    BY <2>1 DEF Rows, ItemRows, Jobs, Items
  <2>3. GateRule(o)' /\ KindRule(o)' /\ TargetRule(o)'
    BY <2>1, <2>2 DEF SessionInv, GateRule, KindRule, TargetRule
  <2>4. RowRule(o)' /\ ItemRule(o)'
    BY <2>1, <2>2 DEF SessionInv, RowRule, ItemRule, Live
  <2>5. CountRule(o)'
    BY <2>1, <2>2 DEF SessionInv, CountRule, Ordered, NoIdle, ActiveCount
  <2> QED BY <2>3, <2>4, <2>5 DEF SessionInv
<1>3. ASSUME NEW o \in Session, NEW p \in Session, o # p PROVE Apart(o, p)'
  <2>1. CASE o = s \/ p = s
    BY <1>3, <2>1
  <2>2. CASE o # s /\ p # s
    <3>1. Apart(o, p) /\ tx'[o] = tx[o] /\ tx'[p] = tx[p]
      BY <1>3, <2>2 DEF TxInv
    <3> QED BY <3>1 DEF Apart, Rows, ItemRows
  <2> QED BY <2>1, <2>2
<1> QED BY <1>1, <1>2, <1>3 DEF TxInv

LEMMA AbortKeeps ==
    ASSUME TxInv, NEW s \in Session, Abort(s)
    PROVE  TxInv'
<1>1. UNCHANGED <<job, seq, item, told>> /\ tx' = [tx EXCEPT ![s] = Idle]
  BY DEF Abort
<1>2. tx'[s] = Idle /\ \A o \in Session : o # s => tx'[o] = tx[o]
  BY <1>1 DEF TxInv, TypeOK
<1>3. TypeOK'
  BY <1>1, IdleType DEF TxInv, TypeOK
<1> QED BY <1>1, <1>2, <1>3, IdleHolds, StepKeeps

-----------------------------------------------------------------------------
(* Statements that write no row                                             *)

LEMMA UnwrittenKeeps ==
    ASSUME TxInv, NEW s \in Session, UNCHANGED <<job, seq, item, told>>, TypeOK',
           \A o \in Session : o # s => tx'[o] = tx[o],
           tx'[s].kind = tx[s].kind, tx'[s].job = tx[s].job,
           tx'[s].jobs = tx[s].jobs, tx'[s].items = tx[s].items,
           GateRule(s)', KindRule(s)', TargetRule(s)', CountRule(s)',
           \A o \in Session : o # s =>
               ~(tx'[s].gate /\ tx[o].gate) /\ Rows(o) \cap tx'[s].update = {}
    PROVE  TxInv'
<1>1. /\ Rows(s)' = Rows(s) /\ ItemRows(s)' = ItemRows(s)
      /\ Jobs(s)' = Jobs(s) /\ Items(s)' = Items(s)
  BY DEF Rows, ItemRows, Jobs, Items
<1>2. SessionInv(s)
  BY DEF TxInv
<1>3. RowRule(s)' /\ ItemRule(s)'
  BY <1>1, <1>2 DEF SessionInv, RowRule, ItemRule, Live
<1>4. SessionInv(s)'
  BY <1>3 DEF SessionInv
<1>5. ASSUME NEW o \in Session, o # s PROVE Apart(s, o)' /\ Apart(o, s)'
  <2>1. Rows(o)' = Rows(o) /\ ItemRows(o)' = ItemRows(o) /\ tx'[o] = tx[o]
    BY <1>5 DEF Rows, ItemRows
  <2>2. Apart(s, o) /\ Apart(o, s)
    BY <1>5 DEF TxInv
  <2> QED BY <1>1, <1>5, <2>1, <2>2 DEF Apart
<1> QED BY <1>4, <1>5, StepKeeps

(* A session goes on with the transaction t.                                *)
LEMMA Goes ==
    ASSUME TypeOK, NEW s \in Session, UNCHANGED <<job, seq, item, told>>,
           NEW t \in Transaction, t.pc # "idle", tx' = [tx EXCEPT ![s] = t]
    PROVE  TypeOK' /\ tx'[s] = t /\ \A o \in Session : o # s => tx'[o] = tx[o]
BY DEF TypeOK

LEMMA NothingToFinishKeeps ==
    ASSUME TxInv, NEW s \in Session, NothingToFinish(s)
    PROVE  TxInv'
<1> DEFINE to == IF tx[s].kind = "claim" THEN "claim" ELSE "commit"
           t  == [tx[s] EXCEPT !.pc = to]
<1>1. /\ tx[s].pc = "finish" /\ UNCHANGED <<job, seq, item, told>>
      /\ tx' = [tx EXCEPT ![s] = t] /\ to \in Place \ {"idle"}
  BY DEF NothingToFinish, Step, Goto, Place
<1> HIDE DEF to
<1>2. TypeOK /\ tx[s] \in Transaction
  BY DEF TxInv, TypeOK
<1>3. /\ t \in Transaction /\ t.pc = to /\ t.kind = tx[s].kind /\ t.job = tx[s].job
      /\ t.item = tx[s].item /\ t.todo = tx[s].todo /\ t.jobs = tx[s].jobs
      /\ t.items = tx[s].items /\ t.gate = tx[s].gate
      /\ t.update = tx[s].update /\ t.share = tx[s].share
  BY <1>1, <1>2 DEF Transaction
<1> HIDE DEF t
<1>4. TypeOK' /\ tx'[s] = t /\ \A o \in Session : o # s => tx'[o] = tx[o]
  BY <1>1, <1>2, <1>3, Goes
<1>5. SessionInv(s) /\ \A o \in Session : o # s => Apart(s, o) /\ Apart(o, s)
  BY DEF TxInv
<1>6. Rows(s)' = Rows(s) /\ Jobs(s)' = Jobs(s)
  BY <1>1, <1>3, <1>4 DEF Rows, Jobs
<1>7. GateRule(s)' /\ KindRule(s)' /\ TargetRule(s)'
  <2>1. GateRule(s)'
    BY <1>1, <1>3, <1>4, <1>5, <1>6 DEF SessionInv, GateRule, to
  <2>2. KindRule(s)'
    BY <1>1, <1>3, <1>4, <1>5 DEF SessionInv, KindRule, to
  <2>3. TargetRule(s)'
    BY <1>1, <1>3, <1>4, <1>5 DEF SessionInv, TargetRule, to
  <2> QED BY <2>1, <2>2, <2>3
<1>8. CountRule(s)'
  BY <1>1, <1>3, <1>4, <1>5, <1>6 DEF SessionInv, CountRule, Ordered, NoIdle, ActiveCount
<1> QED BY <1>1, <1>3, <1>4, <1>5, <1>7, <1>8, UnwrittenKeeps DEF Apart

(* The running jobs can be counted.                                         *)
LEMMA Counted ==
    ASSUME NEW jobs
    PROVE  /\ IsFiniteSet({j \in Job : jobs[j] = "running"})
           /\ ActiveCount(jobs) \in Nat
           /\ \A more : (\A j \in Job : jobs[j] = "running" => more[j] = "running")
                        => ActiveCount(jobs) <= ActiveCount(more)
<1>1. \A f : {j \in Job : f[j] = "running"} \subseteq Job
  OBVIOUS
<1>2. \A f : IsFiniteSet({j \in Job : f[j] = "running"})
  BY <1>1, FiniteAssumption, FS_Subset
<1>3. ASSUME NEW more, \A j \in Job : jobs[j] = "running" => more[j] = "running"
      PROVE  ActiveCount(jobs) <= ActiveCount(more)
  <2>1. {j \in Job : jobs[j] = "running"} \subseteq {j \in Job : more[j] = "running"}
    BY <1>3
  <2> QED BY <1>2, <2>1, FS_Subset DEF ActiveCount
<1> QED BY <1>2, <1>3, FS_CardinalityType DEF ActiveCount

(* Whoever gets the gate finds the committed rows in order.                 *)
LEMMA LockGateKeeps ==
    ASSUME TxInv, NEW s \in Session, LockGate(s)
    PROVE  TxInv'
<1> DEFINE to == AfterGate(tx[s].kind)
           t  == [tx[s] EXCEPT !.gate = TRUE, !.pc = to]
<1>1. /\ tx[s].pc = "gate" /\ UNCHANGED <<job, seq, item, told>> /\ GateFree(s)
      /\ tx' = [tx EXCEPT ![s] = t] /\ to \in Place \ {"idle"}
  BY DEF LockGate, Step, Place, AfterGate
<1> HIDE DEF to
<1>2. TypeOK /\ tx[s] \in Transaction
  BY DEF TxInv, TypeOK
<1>3. /\ t \in Transaction /\ t.pc = to /\ t.kind = tx[s].kind /\ t.job = tx[s].job
      /\ t.item = tx[s].item /\ t.todo = tx[s].todo /\ t.jobs = tx[s].jobs
      /\ t.items = tx[s].items /\ t.gate = TRUE
      /\ t.update = tx[s].update /\ t.share = tx[s].share
  BY <1>1, <1>2 DEF Transaction
<1> HIDE DEF t
<1>4. TypeOK' /\ tx'[s] = t /\ \A o \in Session : o # s => tx'[o] = tx[o]
  BY <1>1, <1>2, <1>3, Goes
<1>5. SessionInv(s) /\ \A o \in Session : o # s => Apart(s, o) /\ Apart(o, s)
  BY DEF TxInv
<1>6. Rows(s)' = Rows(s) /\ Jobs(s)' = Jobs(s)
  BY <1>1, <1>3, <1>4 DEF Rows, Jobs
<1>7. GateRule(s)' /\ KindRule(s)' /\ TargetRule(s)'
  <2>1. GateRule(s)'
    BY <1>1, <1>3, <1>4, <1>5, <1>6 DEF SessionInv, GateRule, to, AfterGate
  <2>2. KindRule(s)'
    BY <1>1, <1>3, <1>4, <1>5 DEF SessionInv, KindRule, to, AfterGate
  <2>3. TargetRule(s)'
    BY <1>1, <1>3, <1>4, <1>5 DEF SessionInv, TargetRule, to, AfterGate
  <2> QED BY <2>1, <2>2, <2>3
<1>8. CountRule(s)'
  <2>1. ActiveCount(Jobs(s)) <= MaxActive /\ Ordered(s)
    <3>1. CASE tx[s].gate
      BY <1>5, <3>1 DEF SessionInv, CountRule
    <3>2. CASE ~tx[s].gate
      <4>1. \A j \in Job : Jobs(s)[j] \in {"running", "queued"} =>
                              j \notin Rows(s) /\ Jobs(s)[j] = job[j]
        BY <1>2, <1>5, <3>2, Seen DEF SessionInv, GateRule
      <4>2. ActiveCount(Jobs(s)) <= ActiveCount(job)
        BY <4>1, Counted
      <4>3. ActiveCount(job) <= MaxActive /\ NoOvertaking
        BY DEF TxInv, Committed, ActiveLimit
      <4>4. ActiveCount(Jobs(s)) \in Nat /\ ActiveCount(job) \in Nat
        BY Counted
      <4>5. ActiveCount(Jobs(s)) <= MaxActive
        BY <4>2, <4>3, <4>4, PlacesAssumption
      <4>6. Ordered(s)
        BY <4>1, <4>3 DEF Ordered, NoOvertaking
      <4> QED BY <4>5, <4>6
    <3> QED BY <1>2, <3>1, <3>2, TxTypes
  <2>2. to \notin {"gate", "promote"} => NoIdle(Jobs(s))
    <3> SUFFICES ASSUME to \notin {"gate", "promote"} PROVE NoIdle(Jobs(s))
      OBVIOUS
    <3>1. Rows(s) = {}
      BY <1>1, <1>5 DEF SessionInv, GateRule, to, AfterGate
    <3>2. Jobs(s) = job
      BY <1>2, <3>1, SeenUnwritten
    <3> QED BY <3>2 DEF TxInv, Committed, NoIdlePlace, NoIdle
  <2> QED BY <1>1, <1>3, <1>4, <1>6, <2>1, <2>2 DEF CountRule, Ordered, NoIdle, ActiveCount
<1>9. \A o \in Session : o # s => ~tx[o].gate /\ Rows(o) \cap tx'[s].update = {}
  BY <1>1, <1>3, <1>4, <1>5 DEF GateFree, Others, Apart
<1> QED BY <1>1, <1>3, <1>4, <1>7, <1>8, <1>9, UnwrittenKeeps

(* A cancellation gets its job when no other transaction has it.            *)
LEMMA LockJobKeeps ==
    ASSUME TxInv, NEW s \in Session, NEW j \in Job, LockJob(s, j)
    PROVE  TxInv'
<1> DEFINE to == IF job[j] \in Cancellable THEN "items" ELSE "commit"
           t  == [tx[s] EXCEPT !.update = {j}, !.pc = to]
<1>1. /\ tx[s].pc = "lock" /\ UNCHANGED <<job, seq, item, told>>
      /\ j \in tx[s].job /\ UpdateFree(s, j)
      /\ tx' = [tx EXCEPT ![s] = t] /\ to \in Place \ {"idle"}
  BY DEF LockJob, Step, Place
<1> HIDE DEF to
<1>2. TypeOK /\ tx[s] \in Transaction
  BY DEF TxInv, TypeOK
<1>3. /\ t \in Transaction /\ t.pc = to /\ t.kind = tx[s].kind /\ t.job = tx[s].job
      /\ t.item = tx[s].item /\ t.todo = tx[s].todo /\ t.jobs = tx[s].jobs
      /\ t.items = tx[s].items /\ t.gate = tx[s].gate
      /\ t.update = {j} /\ t.share = tx[s].share
  BY <1>1, <1>2 DEF Transaction
<1> HIDE DEF t
<1>4. TypeOK' /\ tx'[s] = t /\ \A o \in Session : o # s => tx'[o] = tx[o]
  BY <1>1, <1>2, <1>3, Goes
<1>5. SessionInv(s) /\ \A o \in Session : o # s => Apart(s, o) /\ Apart(o, s)
  BY DEF TxInv
<1>6. Rows(s)' = Rows(s) /\ Jobs(s)' = Jobs(s) /\ Rows(s) = {} /\ tx[s].kind = "cancel" /\ tx[s].gate
  BY <1>1, <1>3, <1>4, <1>5 DEF Rows, Jobs, SessionInv, GateRule, KindRule
<1>7. GateRule(s)' /\ KindRule(s)' /\ TargetRule(s)'
  <2>1. GateRule(s)'
    BY <1>1, <1>3, <1>4, <1>5, <1>6 DEF SessionInv, GateRule, to
  <2>2. KindRule(s)'
    BY <1>1, <1>3, <1>4, <1>5 DEF SessionInv, KindRule, to
  <2>3. job[j] # "absent" /\ \A a \in tx[s].job : a = j
    BY <1>1, <1>5, <1>6 DEF SessionInv, TargetRule
  <2>4. to = "items" => job[j] \in Cancellable
    BY DEF to
  <2>5. TargetRule(s)'
    BY <1>1, <1>3, <1>4, <1>5, <2>3, <2>4 DEF SessionInv, TargetRule
  <2> QED BY <2>1, <2>2, <2>5
<1>8. CountRule(s)'
  <2>1. CountRule(s)
    BY <1>5 DEF SessionInv
  <2>2. to \notin {"gate", "promote"}
    BY DEF to
  <2> QED BY <1>1, <1>3, <1>4, <1>6, <2>1, <2>2 DEF CountRule, Ordered, NoIdle, ActiveCount
<1>9. \A o \in Session : o # s => ~(tx'[s].gate /\ tx[o].gate) /\ Rows(o) \cap tx'[s].update = {}
  <2>1. ASSUME NEW o \in Session, o # s PROVE j \notin Rows(o)
    BY <1>1, <2>1 DEF UpdateFree, RowFree, Others, Rows
  <2> QED BY <1>3, <1>4, <1>5, <2>1 DEF Apart
<1> QED BY <1>1, <1>3, <1>4, <1>7, <1>8, <1>9, UnwrittenKeeps

(* The foreign key of an entry pins a job that has started.                 *)
LEMMA UpsertEntryKeeps ==
    ASSUME TxInv, NEW s \in Session, NEW i \in Item, UpsertEntry(s, i)
    PROVE  TxInv'
<1> DEFINE t == [tx[s] EXCEPT !.share = {i[1]}, !.pc = "fenced"]
<1>1. /\ tx[s].pc = "entry" /\ UNCHANGED <<job, seq, item, told>>
      /\ i \in tx[s].item /\ i[1] \in Job
      /\ tx' = [tx EXCEPT ![s] = t]
  BY DEF UpsertEntry, Step, Item
<1>2. TypeOK /\ tx[s] \in Transaction
  BY DEF TxInv, TypeOK
<1>3. /\ t \in Transaction /\ t.pc = "fenced" /\ t.kind = tx[s].kind /\ t.job = tx[s].job
      /\ t.item = tx[s].item /\ t.todo = tx[s].todo /\ t.jobs = tx[s].jobs
      /\ t.items = tx[s].items /\ t.gate = tx[s].gate
      /\ t.update = tx[s].update /\ t.share = {i[1]}
  BY <1>1, <1>2 DEF Transaction, Place
<1> HIDE DEF t
<1>4. TypeOK' /\ tx'[s] = t /\ \A o \in Session : o # s => tx'[o] = tx[o]
  BY <1>1, <1>2, <1>3, Goes
<1>5. SessionInv(s) /\ \A o \in Session : o # s => Apart(s, o) /\ Apart(o, s)
  BY DEF TxInv
<1>6. Rows(s)' = Rows(s) /\ Jobs(s)' = Jobs(s)
  BY <1>1, <1>3, <1>4 DEF Rows, Jobs
<1>7. GateRule(s)' /\ KindRule(s)' /\ TargetRule(s)'
  <2>1. GateRule(s)'
    BY <1>1, <1>3, <1>4, <1>5, <1>6 DEF SessionInv, GateRule
  <2>2. KindRule(s)'
    BY <1>1, <1>3, <1>4, <1>5 DEF SessionInv, KindRule
  <2>3. job[i[1]] \notin {"absent", "queued"}
    BY <1>1, <1>5 DEF SessionInv, TargetRule
  <2>4. TargetRule(s)'
    BY <1>1, <1>3, <1>4, <1>5, <2>3 DEF SessionInv, TargetRule
  <2> QED BY <2>1, <2>2, <2>4
<1>8. CountRule(s)'
  BY <1>1, <1>3, <1>4, <1>5, <1>6 DEF SessionInv, CountRule, Ordered, NoIdle, ActiveCount
<1> QED BY <1>1, <1>3, <1>4, <1>5, <1>7, <1>8, UnwrittenKeeps DEF Apart

-----------------------------------------------------------------------------
(* Statements that begin a transaction                                      *)

LEMMA BeginKeeps ==
    ASSUME TxInv, NEW s \in Session, NEW kind, NEW to,
           NEW jobs \in SUBSET Job, NEW items \in SUBSET Item,
           Begin(s, kind, to, jobs, items),
           \/ kind \in {"admit", "cancel"} /\ to = "gate"
           \/ kind = "claim" /\ to = "sweep"
           \/ kind = "publish" /\ to = "entry",
           kind = "admit" => \A j \in jobs : job[j] = "absent",
           kind = "cancel" => \A j \in jobs : job[j] # "absent",
           \A a, b \in jobs : a = b,
           \A i \in items : job[i[1]] \notin {"absent", "queued"},
           \A o \in Session : kind = "admit" \/ tx[o].kind = "admit" => jobs \cap tx[o].job = {}
    PROVE  TxInv'
<1> DEFINE t == [Idle EXCEPT !.kind = kind, !.pc = to, !.job = jobs, !.item = items]
<1>1. /\ UNCHANGED <<job, seq, item, told>> /\ tx' = [tx EXCEPT ![s] = t]
      /\ kind \in Kind /\ to \in Place \ {"idle"}
  BY DEF Begin, Step, Kind, Place
<1>2. TypeOK
  BY DEF TxInv
<1>3. /\ t.pc = to /\ t.kind = kind /\ t.job = jobs /\ t.item = items /\ t.todo = {}
      /\ t.jobs = <<>> /\ t.items = <<>> /\ t.gate = FALSE /\ t.update = {} /\ t.share = {}
  BY DEF Idle
<1>4. t \in Transaction
  BY <1>1, IdleType DEF Transaction
<1> HIDE DEF t
<1>5. TypeOK' /\ tx'[s] = t /\ \A o \in Session : o # s => tx'[o] = tx[o]
  BY <1>1, <1>2, <1>3, <1>4, Goes
<1>6. Rows(s)' = {} /\ ItemRows(s)' = {}
  BY <1>3, <1>5 DEF Rows, ItemRows
<1>7. SessionInv(s)'
  <2>1. GateRule(s)' /\ KindRule(s)'
    BY <1>3, <1>5, <1>6 DEF GateRule, KindRule
  <2>2. TargetRule(s)'
    BY <1>1, <1>3, <1>5 DEF TargetRule
  <2>3. RowRule(s)' /\ ItemRule(s)' /\ CountRule(s)'
    BY <1>3, <1>5, <1>6 DEF RowRule, ItemRule, CountRule
  <2> QED BY <2>1, <2>2, <2>3 DEF SessionInv
<1>8. ASSUME NEW o \in Session, o # s PROVE Apart(s, o)' /\ Apart(o, s)'
  BY <1>3, <1>5, <1>6, <1>8 DEF Apart
<1> QED BY <1>1, <1>5, <1>7, <1>8, StepKeeps

LEMMA BeginningsKeep ==
    ASSUME TxInv, NEW s \in Session
    PROVE  /\ BeginClaim(s) => TxInv'
           /\ \A j \in Job : BeginAdmit(s, j) \/ BeginCancel(s, j) => TxInv'
           /\ \A i \in Item : BeginPublish(s, i) => TxInv'
<1>1. ASSUME BeginClaim(s) PROVE TxInv'
  BY <1>1, BeginKeeps DEF BeginClaim
<1>2. ASSUME NEW j \in Job, BeginAdmit(s, j) PROVE TxInv'
  <2>1. /\ Begin(s, "admit", "gate", {j}, {}) /\ job[j] = "absent"
        /\ \A o \in Session : j \notin tx[o].job
    BY <1>2 DEF BeginAdmit
  <2> QED BY <2>1, BeginKeeps
<1>3. ASSUME NEW j \in Job, BeginCancel(s, j) PROVE TxInv'
  <2>1. Begin(s, "cancel", "gate", {j}, {}) /\ job[j] # "absent"
    BY <1>3 DEF BeginCancel
  <2>2. \A o \in Session : tx[o].kind = "admit" => j \notin tx[o].job
    BY <2>1 DEF TxInv, SessionInv, TargetRule
  <2> QED BY <2>1, <2>2, BeginKeeps
<1>4. ASSUME NEW i \in Item, BeginPublish(s, i) PROVE TxInv'
  <2>1. Begin(s, "publish", "entry", {}, {i}) /\ item[i] \in {"running", "cancelled"}
    BY <1>4 DEF BeginPublish
  <2>2. i[1] \in Job /\ i[2] \in Key /\ i = <<i[1], i[2]>>
    BY DEF Item
  <2>3. job[i[1]] \notin {"absent", "queued"}
    BY <2>1, <2>2 DEF TxInv, Committed, RowsBegin
  <2> QED BY <2>1, <2>3, BeginKeeps
<1> QED BY <1>1, <1>2, <1>3, <1>4

-----------------------------------------------------------------------------
(* Statements that write items                                              *)

LEMMA PartialOf ==
    ASSUME NEW S, NEW T, NEW D \in SUBSET S, NEW f \in [D -> T]
    PROVE  f \in Partial(S, T)
BY DEF Partial

LEMMA WrittenItemsKeep ==
    ASSUME TxInv, NEW s \in Session, UNCHANGED <<job, seq, item, told>>, TypeOK',
           \A o \in Session : o # s => tx'[o] = tx[o],
           tx'[s].kind = tx[s].kind, tx'[s].job = tx[s].job, tx'[s].jobs = tx[s].jobs,
           tx'[s].gate = tx[s].gate, tx'[s].update = tx[s].update,
           tx[s].pc \notin {"gate", "promote"},
           GateRule(s)', KindRule(s)', TargetRule(s)', RowRule(s)', ItemRule(s)',
           \A i \in ItemRows(s)' : i \in ItemRows(s) \/ ItemFree(s, i)
    PROVE  TxInv'
<1>1. Rows(s)' = Rows(s) /\ Jobs(s)' = Jobs(s)
  BY DEF Rows, Jobs
<1>2. SessionInv(s) /\ \A o \in Session : o # s => Apart(s, o) /\ Apart(o, s)
  BY DEF TxInv
<1>3. CountRule(s)'
  BY <1>1, <1>2 DEF SessionInv, CountRule, Ordered, NoIdle, ActiveCount
<1>4. SessionInv(s)'
  BY <1>3 DEF SessionInv
<1>5. ASSUME NEW o \in Session, o # s PROVE Apart(s, o)' /\ Apart(o, s)'
  <2>1. Rows(o)' = Rows(o) /\ ItemRows(o)' = ItemRows(o) /\ tx'[o] = tx[o]
    BY <1>5 DEF Rows, ItemRows
  <2>2. Apart(s, o) /\ Apart(o, s)
    BY <1>2, <1>5
  <2>3. ItemRows(s)' \cap ItemRows(o) = {}
    BY <1>5, <2>2 DEF Apart, ItemFree, Others, ItemRows
  <2> QED BY <1>1, <2>1, <2>2, <2>3 DEF Apart
<1> QED BY <1>4, <1>5, StepKeeps

(* The items whose lease ran out are live items of running jobs.            *)
LEMMA SweepKeeps ==
    ASSUME TxInv, NEW s \in Session, Sweep(s)
    PROVE  TxInv'
<1> DEFINE expired == {i \in Item : item[i] = "running" /\ job[i[1]] = "running" /\ ItemFree(s, i)}
<1>1. PICK E \in SUBSET expired : \E swept \in [E -> {"pending", "failed"}] :
          tx' = [tx EXCEPT ![s] = [tx[s] EXCEPT !.items = swept, !.todo = {i[1] : i \in E},
                                            !.pc = "finish"]]
  BY DEF Sweep
<1>2. PICK swept \in [E -> {"pending", "failed"}] :
          tx' = [tx EXCEPT ![s] = [tx[s] EXCEPT !.items = swept, !.todo = {i[1] : i \in E},
                                            !.pc = "finish"]]
  BY <1>1
<1> DEFINE todo == {i[1] : i \in E}
           t    == [tx[s] EXCEPT !.items = swept, !.todo = todo, !.pc = "finish"]
<1>3. /\ tx[s].pc = "sweep" /\ UNCHANGED <<job, seq, item, told>>
      /\ tx' = [tx EXCEPT ![s] = t]
  BY <1>2 DEF Sweep, Step
<1>4. /\ E \subseteq Item /\ todo \subseteq Job /\ \A j \in todo : job[j] = "running"
      /\ \A i \in E : item[i] = "running" /\ job[i[1]] = "running" /\ ItemFree(s, i)
  BY DEF Item
<1> HIDE DEF todo
<1>5. TypeOK /\ tx[s] \in Transaction
  BY DEF TxInv, TypeOK
<1>6. swept \in Partial(Item, ItemState)
  <2>1. swept \in [E -> ItemState]
    BY DEF ItemState, LiveItemState
  <2> QED BY <1>4, <2>1, PartialOf
<1>7. /\ t \in Transaction /\ t.pc = "finish" /\ t.kind = tx[s].kind /\ t.job = tx[s].job
      /\ t.item = tx[s].item /\ t.todo = todo /\ t.jobs = tx[s].jobs
      /\ t.items = swept /\ t.gate = tx[s].gate
      /\ t.update = tx[s].update /\ t.share = tx[s].share
  BY <1>4, <1>5, <1>6 DEF Transaction, Place
<1> HIDE DEF t
<1>8. TypeOK' /\ tx'[s] = t /\ \A o \in Session : o # s => tx'[o] = tx[o]
  BY <1>3, <1>5, <1>7, Goes
<1>9. SessionInv(s)
  BY DEF TxInv
<1>10. /\ Rows(s)' = Rows(s) /\ Jobs(s)' = Jobs(s) /\ ItemRows(s)' = E
       /\ Rows(s) = {} /\ tx[s].kind \notin {"admit", "cancel"} /\ Jobs(s) = job
  <2>1. Rows(s) = {} /\ tx[s].kind \notin {"admit", "cancel"}
    BY <1>3, <1>9 DEF SessionInv, GateRule, KindRule
  <2> QED BY <1>3, <1>5, <1>7, <1>8, <2>1, SeenUnwritten DEF Rows, Jobs, ItemRows
<1>11. GateRule(s)'
  BY <1>7, <1>8, <1>9, <1>10 DEF SessionInv, GateRule
<1>12. KindRule(s)'
  BY <1>7, <1>8, <1>10 DEF KindRule
<1>13. TargetRule(s)'
  BY <1>3, <1>4, <1>7, <1>8, <1>9 DEF SessionInv, TargetRule
<1>14. RowRule(s)' /\ ItemRule(s)'
  BY <1>3, <1>4, <1>7, <1>8, <1>10 DEF RowRule, ItemRule, LiveItemState
<1> QED BY <1>3, <1>4, <1>7, <1>8, <1>10, <1>11, <1>12, <1>13, <1>14, WrittenItemsKeep

(* A claim takes items of jobs that it sees running.                        *)
LEMMA ClaimKeeps ==
    ASSUME TxInv, NEW s \in Session, Claim(s)
    PROVE  TxInv'
<1> DEFINE claimable == {i \in Item : Items(s)[i] = "pending" /\ Jobs(s)[i[1]] = "running"
                                         /\ ItemFree(s, i)}
<1>1. PICK C \in SUBSET claimable :
          tx' = [tx EXCEPT ![s] = [tx[s] EXCEPT !.items = Over([i \in C |-> "running"], @),
                                            !.pc = "commit"]]
  BY DEF Claim
<1> DEFINE items == Over([i \in C |-> "running"], tx[s].items)
           t     == [tx[s] EXCEPT !.items = items, !.pc = "commit"]
<1>2. /\ tx[s].pc = "claim" /\ UNCHANGED <<job, seq, item, told>>
      /\ tx' = [tx EXCEPT ![s] = t]
  <2>1. tx[s].pc = "claim" /\ UNCHANGED <<job, seq, item, told>>
    BY DEF Claim, Step
  <2> QED BY <1>1, <2>1
<1>3. /\ C \subseteq Item
      /\ \A i \in C : Items(s)[i] = "pending" /\ Jobs(s)[i[1]] = "running" /\ ItemFree(s, i)
  OBVIOUS
<1>4. TypeOK /\ tx[s] \in Transaction
  BY DEF TxInv, TypeOK
<1>5. items \in Partial(Item, ItemState)
  <2>1. [i \in C |-> "running"] \in [C -> ItemState]
    BY DEF ItemState, LiveItemState
  <2>2. [i \in C |-> "running"] \in Partial(Item, ItemState)
    BY <1>3, <2>1, PartialOf
  <2>3. tx[s].items \in Partial(Item, ItemState)
    BY <1>4 DEF Transaction
  <2> QED BY <2>2, <2>3, OverPartial
<1>6. /\ DOMAIN items = C \cup ItemRows(s)
      /\ \A i \in DOMAIN items : items[i] = IF i \in C THEN "running" ELSE tx[s].items[i]
  BY DEF Over, ItemRows
<1> HIDE DEF items
<1>7. /\ t \in Transaction /\ t.pc = "commit" /\ t.kind = tx[s].kind /\ t.job = tx[s].job
      /\ t.item = tx[s].item /\ t.todo = tx[s].todo /\ t.jobs = tx[s].jobs
      /\ t.items = items /\ t.gate = tx[s].gate
      /\ t.update = tx[s].update /\ t.share = tx[s].share
  BY <1>4, <1>5 DEF Transaction, Place
<1> HIDE DEF t
<1>8. TypeOK' /\ tx'[s] = t /\ \A o \in Session : o # s => tx'[o] = tx[o]
  BY <1>2, <1>4, <1>7, Goes
<1>9. SessionInv(s)
  BY DEF TxInv
<1>10. /\ Rows(s)' = Rows(s) /\ Jobs(s)' = Jobs(s) /\ ItemRows(s)' = C \cup ItemRows(s)
       /\ tx[s].kind \notin {"admit", "cancel"}
  <2>1. tx[s].kind \notin {"admit", "cancel"}
    BY <1>2, <1>9 DEF SessionInv, KindRule
  <2> QED BY <1>2, <1>6, <1>7, <1>8, <2>1 DEF Rows, Jobs, ItemRows
<1>11. GateRule(s)'
  BY <1>2, <1>7, <1>8, <1>9, <1>10 DEF SessionInv, GateRule
<1>12. KindRule(s)'
  BY <1>7, <1>8, <1>10 DEF KindRule
<1>13. TargetRule(s)'
  BY <1>2, <1>7, <1>8, <1>9 DEF SessionInv, TargetRule
<1>14. ItemRule(s)'
  <2> SUFFICES ASSUME NEW i \in C \cup ItemRows(s)
               PROVE  item[i] \in LiveItemState /\ Jobs(s)[i[1]] # "queued"
    BY <1>2, <1>7, <1>8, <1>10 DEF ItemRule
  <2>1. CASE i \in ItemRows(s)
    BY <1>9, <1>10, <2>1 DEF SessionInv, ItemRule
  <2>2. CASE i \notin ItemRows(s)
    <3>1. i \in Item /\ Items(s)[i] = item[i]
      BY <1>3, <1>4, <2>2, Seen
    <3> QED BY <1>3, <2>2, <3>1 DEF LiveItemState
  <2> QED BY <2>1, <2>2
<1>15. RowRule(s)'
  <2> SUFFICES ASSUME NEW j \in Rows(s), tx[s].jobs[j] \in TerminalState,
                      NEW k \in Key
               PROVE  Items(s)'[<<j, k>>] = Items(s)[<<j, k>>]
    BY <1>2, <1>7, <1>8, <1>9, <1>10 DEF SessionInv, RowRule, Live
  <2>1. j \in Job /\ <<j, k>> \in Item
    BY <1>4, TxTypes DEF Item
  <2>2. Jobs(s)[j] # "running"
    BY <1>4, <2>1, Seen DEF TerminalState
  <2>3. <<j, k>> \notin C
    BY <1>3, <2>2
  <2>4. /\ Items(s)[<<j, k>>] = IF <<j, k>> \in ItemRows(s) THEN tx[s].items[<<j, k>>] ELSE item[<<j, k>>]
    BY <1>4, <2>1, Seen
  <2>5. Items(s)'[<<j, k>>] = IF <<j, k>> \in ItemRows(s)' THEN tx'[s].items[<<j, k>>] ELSE item'[<<j, k>>]
    BY <1>8, <2>1, SeenNext
  <2> QED BY <1>2, <1>6, <1>7, <1>8, <1>10, <2>3, <2>4, <2>5
<1> QED BY <1>2, <1>3, <1>7, <1>8, <1>10, <1>11, <1>12, <1>13, <1>14, <1>15, WrittenItemsKeep

(* A result is published into a running item of a running job.              *)
LEMMA PublishFencedKeeps ==
    ASSUME TxInv, NEW s \in Session, NEW i \in Item, PublishFenced(s, i)
    PROVE  TxInv'
<1>1. /\ tx[s].pc = "fenced" /\ UNCHANGED <<job, seq, item, told>> /\ ItemFree(s, i)
      /\ i \in tx[s].item /\ i[1] \in Job
  BY DEF PublishFenced, Step, Item
<1>2. TypeOK /\ tx[s] \in Transaction
  BY DEF TxInv, TypeOK
<1>3. SessionInv(s) /\ \A o \in Session : o # s => Apart(s, o) /\ Apart(o, s)
  BY DEF TxInv
<1>4. Rows(s) = {} /\ tx[s].kind \notin {"admit", "cancel"} /\ Jobs(s) = job
  <2>1. Rows(s) = {} /\ tx[s].kind \notin {"admit", "cancel"}
    BY <1>1, <1>3 DEF SessionInv, GateRule, KindRule
  <2> QED BY <1>2, <2>1, SeenUnwritten
<1>5. CASE ~(item[i] = "running" /\ job[i[1]] = "running")
  <2> DEFINE t == [tx[s] EXCEPT !.pc = "commit"]
  <2>1. tx' = [tx EXCEPT ![s] = t]
    BY <1>5 DEF PublishFenced, Goto
  <2>2. /\ t \in Transaction /\ t.pc = "commit" /\ t.kind = tx[s].kind /\ t.job = tx[s].job
        /\ t.item = tx[s].item /\ t.todo = tx[s].todo /\ t.jobs = tx[s].jobs
        /\ t.items = tx[s].items /\ t.gate = tx[s].gate
        /\ t.update = tx[s].update /\ t.share = tx[s].share
    BY <1>2 DEF Transaction, Place
  <2> HIDE DEF t
  <2>3. TypeOK' /\ tx'[s] = t /\ \A o \in Session : o # s => tx'[o] = tx[o]
    BY <1>1, <1>2, <2>1, <2>2, Goes
  <2>4. Rows(s)' = Rows(s) /\ Jobs(s)' = Jobs(s)
    BY <1>1, <2>2, <2>3 DEF Rows, Jobs
  <2>5. GateRule(s)'
    BY <1>1, <1>3, <1>4, <2>2, <2>3, <2>4 DEF SessionInv, GateRule
  <2>6. KindRule(s)'
    BY <1>4, <2>2, <2>3 DEF KindRule
  <2>7. TargetRule(s)'
    BY <1>1, <1>3, <2>2, <2>3 DEF SessionInv, TargetRule
  <2>8. CountRule(s)'
    BY <1>1, <1>3, <2>2, <2>3, <2>4 DEF SessionInv, CountRule, Ordered, NoIdle, ActiveCount
  <2> QED BY <1>1, <1>3, <2>2, <2>3, <2>5, <2>6, <2>7, <2>8, UnwrittenKeeps DEF Apart
<1>6. CASE item[i] = "running" /\ job[i[1]] = "running"
  <2> DEFINE written == [x \in {i} |-> "published"]
             t       == [tx[s] EXCEPT !.items = written, !.todo = {i[1]}, !.pc = "finish"]
  <2>1. tx' = [tx EXCEPT ![s] = t]
    BY <1>6 DEF PublishFenced
  <2>2. written \in Partial(Item, ItemState) /\ DOMAIN written = {i}
    <3>1. {i} \in SUBSET Item /\ written \in [{i} -> ItemState]
      BY DEF ItemState
    <3> QED BY <3>1, PartialOf
  <2> HIDE DEF written
  <2>3. /\ t \in Transaction /\ t.pc = "finish" /\ t.kind = tx[s].kind /\ t.job = tx[s].job
        /\ t.item = tx[s].item /\ t.todo = {i[1]} /\ t.jobs = tx[s].jobs
        /\ t.items = written /\ t.gate = tx[s].gate
        /\ t.update = tx[s].update /\ t.share = tx[s].share
    BY <1>1, <1>2, <2>2 DEF Transaction, Place
  <2> HIDE DEF t
  <2>4. TypeOK' /\ tx'[s] = t /\ \A o \in Session : o # s => tx'[o] = tx[o]
    BY <1>1, <1>2, <2>1, <2>3, Goes
  <2>5. Rows(s)' = Rows(s) /\ Jobs(s)' = Jobs(s) /\ ItemRows(s)' = {i}
    BY <1>1, <2>2, <2>3, <2>4 DEF Rows, Jobs, ItemRows
  <2>6. GateRule(s)'
    BY <1>1, <1>3, <1>4, <2>3, <2>4, <2>5 DEF SessionInv, GateRule
  <2>7. KindRule(s)'
    BY <1>4, <2>3, <2>4 DEF KindRule
  <2>8. TargetRule(s)'
    BY <1>1, <1>3, <1>6, <2>3, <2>4 DEF SessionInv, TargetRule
  <2>9. RowRule(s)' /\ ItemRule(s)'
    BY <1>1, <1>4, <1>6, <2>3, <2>4, <2>5 DEF RowRule, ItemRule, LiveItemState
  <2> QED BY <1>1, <2>3, <2>4, <2>5, <2>6, <2>7, <2>8, <2>9, WrittenItemsKeep
<1> QED BY <1>5, <1>6

-----------------------------------------------------------------------------
(* Statements that write jobs                                               *)

LEMMA CountedOneMore ==
    ASSUME NEW f, NEW g, NEW j \in Job,
           \A x \in Job : x # j => (g[x] = "running" <=> f[x] = "running")
    PROVE  ActiveCount(g) <= ActiveCount(f) + 1
<1> DEFINE F == {x \in Job : f[x] = "running"}
           G == {x \in Job : g[x] = "running"}
<1>1. G \subseteq F \cup {j}
  OBVIOUS
<1>2. IsFiniteSet(F) /\ IsFiniteSet(G) /\ IsFiniteSet(F \cup {j})
  BY Counted, FS_AddElement
<1> HIDE DEF F, G
<1>3. Cardinality(G) <= Cardinality(F \cup {j})
  BY <1>1, <1>2, FS_Subset
<1>4. Cardinality(F \cup {j}) <= Cardinality(F) + 1
  BY <1>2, FS_AddElement, FS_CardinalityType
<1>5. Cardinality(G) \in Nat /\ Cardinality(F) \in Nat /\ Cardinality(F \cup {j}) \in Nat
  BY <1>2, FS_CardinalityType
<1>6. Cardinality(G) <= Cardinality(F) + 1
  BY <1>3, <1>4, <1>5
<1> QED BY <1>6 DEF ActiveCount, F, G

LEMMA CountedMore ==
    ASSUME NEW f, NEW g, NEW P \in SUBSET Job, \A x \in P : f[x] # "running",
           \A x \in Job : g[x] = "running" <=> x \in P \/ f[x] = "running"
    PROVE  Cardinality(P) \in Nat /\ ActiveCount(g) = ActiveCount(f) + Cardinality(P)
<1> DEFINE F == {x \in Job : f[x] = "running"}
           G == {x \in Job : g[x] = "running"}
<1>1. G = F \cup P /\ F \cap P = {}
  OBVIOUS
<1>2. IsFiniteSet(F) /\ IsFiniteSet(P)
  BY Counted, FiniteAssumption, FS_Subset
<1> HIDE DEF F, G
<1>3. Cardinality(F \cap P) = 0
  BY <1>1, FS_EmptySet
<1>4. Cardinality(G) = Cardinality(F) + Cardinality(P) - Cardinality(F \cap P)
  BY <1>1, <1>2, FS_Union
<1>5. Cardinality(F) \in Nat /\ Cardinality(P) \in Nat
  BY <1>2, FS_CardinalityType
<1> QED BY <1>3, <1>4, <1>5 DEF ActiveCount, F, G

(* A job is admitted to a place, or to the end of the line.                 *)
LEMMA InsertKeeps ==
    ASSUME TxInv, NEW s \in Session, NEW j \in Job, Insert(s, j)
    PROVE  TxInv'
<1> DEFINE state == IF ActiveCount(job) < MaxActive THEN "running" ELSE "queued"
           jobs  == [o \in {j} |-> state]
           items == [i \in {j} \X Key |-> "pending"]
           t     == [tx[s] EXCEPT !.jobs = jobs, !.items = items, !.pc = "commit"]
<1>1. /\ tx[s].pc = "insert" /\ UNCHANGED <<job, seq, item, told>> /\ j \in tx[s].job
      /\ tx' = [tx EXCEPT ![s] = t]
  BY DEF Insert, Step
<1>2. TypeOK /\ tx[s] \in Transaction
  BY DEF TxInv, TypeOK
<1>3. state \in {"running", "queued"}
  OBVIOUS
<1>4. /\ jobs \in Partial(Job, JobState) /\ items \in Partial(Item, ItemState)
      /\ DOMAIN jobs = {j} /\ jobs[j] = state /\ DOMAIN items = {j} \X Key
      /\ \A i \in {j} \X Key : items[i] = "pending"
  <2>1. {j} \in SUBSET Job /\ jobs \in [{j} -> JobState]
    BY <1>3 DEF JobState
  <2>2. {j} \X Key \in SUBSET Item /\ items \in [{j} \X Key -> ItemState]
    BY DEF Item, ItemState, LiveItemState
  <2> QED BY <2>1, <2>2, PartialOf
<1>5. /\ state = "running" <=> ActiveCount(job) < MaxActive
  OBVIOUS
<1> HIDE DEF state, jobs, items
<1>6. /\ t \in Transaction /\ t.pc = "commit" /\ t.kind = tx[s].kind /\ t.job = tx[s].job
      /\ t.item = tx[s].item /\ t.todo = tx[s].todo /\ t.jobs = jobs
      /\ t.items = items /\ t.gate = tx[s].gate
      /\ t.update = tx[s].update /\ t.share = tx[s].share
  BY <1>2, <1>4 DEF Transaction, Place
<1> HIDE DEF t
<1>7. TypeOK' /\ tx'[s] = t /\ \A o \in Session : o # s => tx'[o] = tx[o]
  BY <1>1, <1>2, <1>6, Goes
<1>8. SessionInv(s) /\ \A o \in Session : o # s => SessionInv(o) /\ Apart(s, o) /\ Apart(o, s)
  BY DEF TxInv
<1>9. tx[s].kind = "admit" /\ tx[s].gate /\ job[j] = "absent"
  BY <1>1, <1>8 DEF SessionInv, GateRule, KindRule, TargetRule
<1>10. Rows(s)' = {j} /\ ItemRows(s)' = {j} \X Key
  BY <1>4, <1>6, <1>7 DEF Rows, ItemRows
<1>11. \A x \in Job : Jobs(s)'[x] = IF x = j THEN state ELSE job[x]
  BY <1>1, <1>4, <1>6, <1>7, <1>10, SeenNext
<1>12. GateRule(s)'
  BY <1>6, <1>7, <1>9 DEF GateRule
<1>13. KindRule(s)'
  BY <1>6, <1>7, <1>9 DEF KindRule
<1>14. TargetRule(s)'
  BY <1>1, <1>6, <1>7, <1>8 DEF SessionInv, TargetRule
<1>15. RowRule(s)' /\ ItemRule(s)'
  BY <1>1, <1>3, <1>4, <1>6, <1>7, <1>9, <1>10 DEF RowRule, ItemRule, TerminalState
<1>16. CountRule(s)'
  <2>1. /\ ActiveCount(job) \in Nat /\ ActiveCount(Jobs(s)') \in Nat
        /\ ActiveCount(job) <= MaxActive /\ NoIdlePlace /\ NoOvertaking
    BY Counted DEF TxInv, Committed, ActiveLimit
  <2>2. CASE state = "running"
    <3>1. ActiveCount(job) < MaxActive
      BY <1>5, <2>2
    <3>2. ActiveCount(Jobs(s)') <= ActiveCount(job) + 1
      BY <1>11, CountedOneMore
    <3>3. ActiveCount(Jobs(s)') <= MaxActive
      BY <2>1, <3>1, <3>2, PlacesAssumption
    <3>4. \A x \in Job : job[x] # "queued"
      BY <2>1, <3>1, PlacesAssumption DEF NoIdlePlace
    <3>5. \A x \in Job : Jobs(s)'[x] # "queued"
      BY <1>11, <2>2, <3>4
    <3> QED BY <3>3, <3>5 DEF CountRule, Ordered, NoIdle, ActiveCount
  <2>3. CASE state = "queued"
    <3>1. ActiveCount(job) = MaxActive
      BY <1>5, <2>1, <2>3, PlacesAssumption
    <3>2. \A x \in Job : Jobs(s)'[x] = "running" <=> job[x] = "running"
      BY <1>9, <1>11, <2>3
    <3>3. {x \in Job : Jobs(s)'[x] = "running"} = {x \in Job : job[x] = "running"}
      BY <3>2
    <3>4. ActiveCount(Jobs(s)') = MaxActive
      BY <3>1, <3>3 DEF ActiveCount
    <3>5. ASSUME NEW a \in Job, NEW b \in Job,
                 Jobs(s)'[a] = "queued", Jobs(s)'[b] = "running"
          PROVE  job'[b] # "absent" /\ (job'[a] = "absent" \/ seq'[b] < seq'[a])
      <4>1. job[b] = "running" /\ (a = j \/ job[a] = "queued")
        BY <1>11, <3>2, <3>5
      <4> QED BY <1>1, <1>9, <2>1, <4>1 DEF NoOvertaking
    <3> QED BY <2>1, <3>4, <3>5 DEF CountRule, Ordered, NoIdle, ActiveCount
  <2> QED BY <1>3, <2>2, <2>3
<1>17. ASSUME NEW o \in Session, o # s PROVE Apart(s, o)' /\ Apart(o, s)'
  <2>1. /\ Rows(o)' = Rows(o) /\ ItemRows(o)' = ItemRows(o) /\ tx'[o] = tx[o]
        /\ SessionInv(o) /\ Apart(s, o) /\ Apart(o, s)
    BY <1>7, <1>8, <1>17 DEF Rows, ItemRows
  <2>2. j \notin Rows(o) \cup tx[o].update
    BY <1>1, <1>9, <2>1 DEF SessionInv, RowRule, TargetRule, Apart
  <2>3. ASSUME NEW i \in ItemRows(o) PROVE i \notin {j} \X Key
    <3>1. i \in {j} \X Key => item[i] = "absent"
      BY <1>9 DEF TxInv, Committed, RowsBegin
    <3> QED BY <2>1, <2>2, <2>3, <3>1 DEF SessionInv, ItemRule, LiveItemState
  <2> QED BY <1>6, <1>7, <1>10, <2>1, <2>2, <2>3 DEF Apart
<1>18. SessionInv(s)'
  BY <1>12, <1>13, <1>14, <1>15, <1>16 DEF SessionInv
<1> QED BY <1>1, <1>7, <1>17, <1>18, StepKeeps

(* A cancellation ends a job and takes its live items from everybody.       *)
LEMMA CancelItemsKeeps ==
    ASSUME TxInv, NEW s \in Session, NEW j \in Job, CancelItems(s, j)
    PROVE  TxInv'
<1> DEFINE live  == {i \in {j} \X Key : item[i] \in CancelledItemState}
           jobs  == [o \in {j} |-> "cancelled"]
           items == [i \in live |-> "cancelled"]
           t     == [tx[s] EXCEPT !.jobs = jobs, !.items = items, !.pc = "promote"]
<1>1. /\ tx[s].pc = "items" /\ UNCHANGED <<job, seq, item, told>> /\ j \in tx[s].job
      /\ \A k \in Key : ItemFree(s, <<j, k>>)
      /\ tx' = [tx EXCEPT ![s] = t]
  BY DEF CancelItems, Step
<1>2. TypeOK /\ tx[s] \in Transaction
  BY DEF TxInv, TypeOK
<1>3. /\ live \subseteq Item
      /\ \A i \in live : item[i] \in LiveItemState /\ i[1] = j /\ ItemFree(s, i)
      /\ \A k \in Key : item[<<j, k>>] \in LiveItemState => <<j, k>> \in live
  BY <1>1 DEF CancelledItemState, Item
<1> HIDE DEF live
<1>4. /\ jobs \in Partial(Job, JobState) /\ items \in Partial(Item, ItemState)
      /\ DOMAIN jobs = {j} /\ jobs[j] = "cancelled" /\ DOMAIN items = live
      /\ \A i \in live : items[i] = "cancelled"
  <2>1. {j} \in SUBSET Job /\ jobs \in [{j} -> JobState]
    BY DEF JobState, TerminalState
  <2>2. items \in [live -> ItemState]
    BY DEF ItemState
  <2> QED BY <1>3, <2>1, <2>2, PartialOf
<1> HIDE DEF jobs, items
<1>5. /\ t \in Transaction /\ t.pc = "promote" /\ t.kind = tx[s].kind /\ t.job = tx[s].job
      /\ t.item = tx[s].item /\ t.todo = tx[s].todo /\ t.jobs = jobs
      /\ t.items = items /\ t.gate = tx[s].gate
      /\ t.update = tx[s].update /\ t.share = tx[s].share
  BY <1>2, <1>4 DEF Transaction, Place
<1> HIDE DEF t
<1>6. TypeOK' /\ tx'[s] = t /\ \A o \in Session : o # s => tx'[o] = tx[o]
  BY <1>1, <1>2, <1>5, Goes
<1>7. SessionInv(s) /\ \A o \in Session : o # s => SessionInv(o) /\ Apart(s, o) /\ Apart(o, s)
  BY DEF TxInv
<1>8. /\ tx[s].kind = "cancel" /\ tx[s].gate /\ job[j] \in {"queued", "running"}
      /\ j \in tx[s].update /\ Rows(s) = {} /\ Jobs(s) = job
  <2>1. tx[s].kind = "cancel" /\ tx[s].gate /\ Rows(s) = {}
    BY <1>1, <1>7 DEF SessionInv, GateRule, KindRule
  <2>2. job[j] \in {"queued", "running"} /\ j \in tx[s].update
    BY <1>1, <1>7 DEF SessionInv, TargetRule, Cancellable
  <2> QED BY <1>2, <2>1, <2>2, SeenUnwritten
<1>9. Rows(s)' = {j} /\ ItemRows(s)' = live
  BY <1>4, <1>5, <1>6 DEF Rows, ItemRows
<1>10. \A x \in Job : Jobs(s)'[x] = IF x = j THEN "cancelled" ELSE job[x]
  BY <1>1, <1>4, <1>5, <1>6, <1>9, SeenNext
<1>11. \A k \in Key : Items(s)'[<<j, k>>] \notin LiveItemState
  <2> SUFFICES ASSUME NEW k \in Key PROVE Items(s)'[<<j, k>>] \notin LiveItemState
    OBVIOUS
  <2>1. <<j, k>> \in Item
    BY DEF Item
  <2>2. Items(s)'[<<j, k>>] = IF <<j, k>> \in live THEN "cancelled" ELSE item[<<j, k>>]
    BY <1>1, <1>4, <1>5, <1>6, <1>9, <2>1, SeenNext
  <2> QED BY <1>3, <2>2 DEF LiveItemState
<1>12. GateRule(s)'
  BY <1>5, <1>6, <1>8 DEF GateRule
<1>13. KindRule(s)'
  BY <1>5, <1>6, <1>8 DEF KindRule
<1>14. TargetRule(s)'
  BY <1>1, <1>5, <1>6, <1>7 DEF SessionInv, TargetRule
<1>15. RowRule(s)'
  BY <1>1, <1>4, <1>5, <1>6, <1>8, <1>9, <1>11 DEF RowRule, TerminalState, Live
<1>16. ItemRule(s)'
  BY <1>1, <1>3, <1>5, <1>6, <1>8, <1>9, <1>10 DEF ItemRule
<1>17. CountRule(s)'
  <2>1. /\ ActiveCount(job) \in Nat /\ ActiveCount(Jobs(s)') \in Nat
        /\ ActiveCount(job) <= MaxActive /\ NoOvertaking
    BY Counted DEF TxInv, Committed, ActiveLimit
  <2>2. ActiveCount(Jobs(s)') <= ActiveCount(job)
    BY <1>10, Counted
  <2>3. ActiveCount(Jobs(s)') <= MaxActive
    BY <2>1, <2>2, PlacesAssumption
  <2>4. ASSUME NEW a \in Job, NEW b \in Job,
               Jobs(s)'[a] = "queued", Jobs(s)'[b] = "running"
        PROVE  job'[b] # "absent" /\ seq'[b] < seq'[a]
    BY <1>1, <1>10, <2>1, <2>4 DEF NoOvertaking
  <2> QED BY <1>5, <1>6, <2>3, <2>4 DEF CountRule, Ordered, ActiveCount
<1>18. ASSUME NEW o \in Session, o # s PROVE Apart(s, o)' /\ Apart(o, s)'
  <2>1. /\ Rows(o)' = Rows(o) /\ ItemRows(o)' = ItemRows(o) /\ tx'[o] = tx[o]
        /\ SessionInv(o) /\ Apart(s, o) /\ Apart(o, s)
    BY <1>6, <1>7, <1>18 DEF Rows, ItemRows
  <2>2. j \notin Rows(o)
    BY <1>8, <2>1 DEF Apart
  <2>3. tx[o].update = {}
    BY <1>8, <2>1 DEF Apart, SessionInv, GateRule
  <2>4. live \cap ItemRows(o) = {}
    BY <1>3, <1>18 DEF ItemFree, Others, ItemRows
  <2> QED BY <1>5, <1>6, <1>8, <1>9, <2>1, <2>2, <2>3, <2>4 DEF Apart
<1>19. SessionInv(s)'
  BY <1>12, <1>13, <1>14, <1>15, <1>16, <1>17 DEF SessionInv
<1> QED BY <1>1, <1>6, <1>18, <1>19, StepKeeps

(* A transaction ends a job only if it runs and has nothing live left, and  *)
(* goes to the gate for it.                                                 *)
LEMMA FinishIfDrainedKeeps ==
    ASSUME TxInv, NEW s \in Session, NEW j \in Job, FinishIfDrained(s, j)
    PROVE  TxInv'
<1>1. /\ tx[s].pc = "finish" /\ UNCHANGED <<job, seq, item, told>> /\ j \in tx[s].todo
  BY DEF FinishIfDrained, Step
<1>2. TypeOK /\ tx[s] \in Transaction
  BY DEF TxInv, TypeOK
<1>3. SessionInv(s) /\ \A o \in Session : o # s => SessionInv(o) /\ Apart(s, o) /\ Apart(o, s)
  BY DEF TxInv
<1>4. tx[s].kind \notin {"admit", "cancel"} /\ job[j] \notin {"absent", "queued"}
  BY <1>1, <1>3 DEF SessionInv, KindRule, TargetRule
<1>5. CASE ~Drained(s, j)
  <2> DEFINE t == [tx[s] EXCEPT !.todo = @ \ {j}]
  <2>1. tx' = [tx EXCEPT ![s] = t]
    BY <1>5 DEF FinishIfDrained
  <2>2. /\ t \in Transaction /\ t.pc = "finish" /\ t.kind = tx[s].kind /\ t.job = tx[s].job
        /\ t.item = tx[s].item /\ t.todo = tx[s].todo \ {j} /\ t.jobs = tx[s].jobs
        /\ t.items = tx[s].items /\ t.gate = tx[s].gate
        /\ t.update = tx[s].update /\ t.share = tx[s].share
    BY <1>1, <1>2 DEF Transaction
  <2> HIDE DEF t
  <2>3. TypeOK' /\ tx'[s] = t /\ \A o \in Session : o # s => tx'[o] = tx[o]
    BY <1>1, <1>2, <2>1, <2>2, Goes
  <2>4. Rows(s)' = Rows(s) /\ Jobs(s)' = Jobs(s)
    BY <1>1, <2>2, <2>3 DEF Rows, Jobs
  <2>5. GateRule(s)'
    BY <1>1, <1>3, <2>2, <2>3, <2>4 DEF SessionInv, GateRule
  <2>6. KindRule(s)'
    BY <1>4, <2>2, <2>3 DEF KindRule
  <2>7. TargetRule(s)'
    BY <1>1, <1>3, <2>2, <2>3 DEF SessionInv, TargetRule
  <2>8. CountRule(s)'
    BY <1>1, <1>3, <2>2, <2>3, <2>4 DEF SessionInv, CountRule, Ordered, NoIdle, ActiveCount
  <2> QED BY <1>1, <1>3, <2>2, <2>3, <2>5, <2>6, <2>7, <2>8, UnwrittenKeeps DEF Apart
<1>6. CASE Drained(s, j)
  <2> DEFINE verdict == Verdict(j, Items(s))
             jobs    == Over([o \in {j} |-> verdict], tx[s].jobs)
             t       == [tx[s] EXCEPT !.todo = @ \ {j}, !.jobs = jobs, !.pc = "gate"]
  <2>1. RowFree(s, j) /\ tx' = [tx EXCEPT ![s] = t]
    BY <1>6 DEF FinishIfDrained, AfterFinish
  <2>2. verdict \in {"completed", "failed"}
    BY DEF Verdict
  <2> HIDE DEF verdict
  <2>3. jobs \in Partial(Job, JobState)
    <3>1. {j} \in SUBSET Job /\ [o \in {j} |-> verdict] \in [{j} -> JobState]
      BY <2>2 DEF JobState, TerminalState
    <3>2. [o \in {j} |-> verdict] \in Partial(Job, JobState)
      BY <3>1, PartialOf
    <3>3. tx[s].jobs \in Partial(Job, JobState)
      BY <1>2 DEF Transaction
    <3> QED BY <3>2, <3>3, OverPartial
  <2>4. /\ DOMAIN jobs = {j} \cup Rows(s)
        /\ \A x \in DOMAIN jobs : jobs[x] = IF x = j THEN verdict ELSE tx[s].jobs[x]
    BY DEF Over, Rows
  <2> HIDE DEF jobs
  <2>5. /\ t \in Transaction /\ t.pc = "gate" /\ t.kind = tx[s].kind /\ t.job = tx[s].job
        /\ t.item = tx[s].item /\ t.todo = tx[s].todo \ {j} /\ t.jobs = jobs
        /\ t.items = tx[s].items /\ t.gate = tx[s].gate
        /\ t.update = tx[s].update /\ t.share = tx[s].share
    BY <1>2, <2>3 DEF Transaction, Place
  <2> HIDE DEF t
  <2>6. TypeOK' /\ tx'[s] = t /\ \A o \in Session : o # s => tx'[o] = tx[o]
    BY <1>1, <1>2, <2>1, <2>5, Goes
  <2>7. Rows(s)' = {j} \cup Rows(s) /\ ItemRows(s)' = ItemRows(s) /\ Items(s)' = Items(s)
    BY <1>1, <2>4, <2>5, <2>6 DEF Rows, ItemRows, Items
  <2>8. j \notin Rows(s) /\ job[j] = "running" /\ Jobs(s)[j] = "running" /\ ~Live(j, Items(s))
    BY <1>2, <1>3, <1>4, <1>6, Seen DEF SessionInv, RowRule, Drained
  <2>9. \A x \in Job : Jobs(s)'[x] = IF x = j THEN verdict ELSE Jobs(s)[x]
    BY <1>1, <1>2, <2>4, <2>5, <2>6, <2>7, Seen, SeenNext
  <2>10. GateRule(s)'
    BY <1>3, <1>4, <2>2, <2>4, <2>5, <2>6, <2>7 DEF SessionInv, GateRule
  <2>11. KindRule(s)'
    BY <2>5, <2>6 DEF KindRule
  <2>12. TargetRule(s)'
    BY <1>1, <1>3, <2>5, <2>6 DEF SessionInv, TargetRule
  <2>13. RowRule(s)'
    <3> SUFFICES ASSUME NEW x \in {j} \cup Rows(s)
                 PROVE  /\ job[x] \notin TerminalState /\ job[x] # "absent"
                        /\ jobs[x] # "queued"
                        /\ jobs[x] = "running" => job[x] = "queued"
                        /\ jobs[x] \in {"completed", "failed"} => job[x] = "running"
                        /\ jobs[x] \in TerminalState => ~Live(x, Items(s))
      BY <1>1, <1>4, <2>5, <2>6, <2>7 DEF RowRule
    <3>1. CASE x = j
      BY <2>2, <2>4, <2>8, <3>1 DEF TerminalState
    <3>2. CASE x # j
      BY <1>3, <1>4, <2>4, <3>2 DEF SessionInv, RowRule
    <3> QED BY <3>1, <3>2
  <2>14. ItemRule(s)'
    <3> SUFFICES ASSUME NEW i \in ItemRows(s)
                 PROVE  item[i] \in LiveItemState /\ Jobs(s)'[i[1]] # "queued"
      BY <1>1, <1>4, <2>5, <2>6, <2>7 DEF ItemRule
    <3>1. i[1] \in Job
      BY <1>2, TxTypes DEF Item
    <3> QED BY <1>3, <1>4, <2>2, <2>9, <3>1 DEF SessionInv, ItemRule
  <2>15. CountRule(s)'
    <3> SUFFICES ASSUME tx[s].gate
                 PROVE  ActiveCount(Jobs(s)') <= MaxActive /\ Ordered(s)'
      BY <2>5, <2>6 DEF CountRule, ActiveCount
    <3>1. ActiveCount(Jobs(s)) <= MaxActive /\ Ordered(s)
      BY <1>3 DEF SessionInv, CountRule
    <3>2. \A x \in Job : /\ Jobs(s)'[x] = "running" => Jobs(s)[x] = "running"
                         /\ Jobs(s)'[x] = "queued" => Jobs(s)[x] = "queued"
      BY <2>2, <2>9
    <3>3. ActiveCount(Jobs(s)') <= ActiveCount(Jobs(s))
      BY <3>2, Counted
    <3>4. ActiveCount(Jobs(s)') \in Nat /\ ActiveCount(Jobs(s)) \in Nat
      BY Counted
    <3>5. ActiveCount(Jobs(s)') <= MaxActive
      BY <3>1, <3>3, <3>4, PlacesAssumption
    <3>6. Ordered(s)'
      BY <1>1, <3>1, <3>2 DEF Ordered
    <3> QED BY <3>5, <3>6
  <2>16. ASSUME NEW o \in Session, o # s PROVE Apart(s, o)' /\ Apart(o, s)'
    <3>1. /\ Rows(o)' = Rows(o) /\ ItemRows(o)' = ItemRows(o) /\ tx'[o] = tx[o]
          /\ Apart(s, o) /\ Apart(o, s)
      BY <1>3, <2>6, <2>16 DEF Rows, ItemRows
    <3>2. j \notin Rows(o) \cup tx[o].update
      BY <2>1, <2>16 DEF RowFree, Others, Rows
    <3> QED BY <2>5, <2>6, <2>7, <3>1, <3>2 DEF Apart
  <2>17. SessionInv(s)'
    BY <2>10, <2>11, <2>12, <2>13, <2>14, <2>15 DEF SessionInv
  <2> QED BY <1>1, <2>6, <2>16, <2>17, StepKeeps
<1> QED BY <1>5, <1>6

(* The oldest waiting jobs get the free places: nobody else has the row of  *)
(* a waiting job while this transaction has the gate.                       *)
LEMMA PromoteKeeps ==
    ASSUME TxInv, NEW s \in Session, Promote(s)
    PROVE  TxInv'
<1> DEFINE slots  == MaxActive - ActiveCount(Jobs(s))
           queued == {j \in Job : Jobs(s)[j] = "queued" /\ UpdateFree(s, j)}
           to     == IF tx[s].kind = "cancel" THEN "commit" ELSE "finish"
<1>1. tx[s].pc = "promote" /\ UNCHANGED <<job, seq, item, told>>
  BY DEF Promote, Step
<1>2. PICK P \in SUBSET queued :
        /\ Cardinality(P) <= IF slots < 0 THEN 0 ELSE slots
        /\ P = queued \/ Cardinality(P) >= slots
        /\ OldestFirst(P, queued \ P)
        /\ tx' = [tx EXCEPT ![s] = [tx[s] EXCEPT
                   !.jobs = Over([j \in P |-> "running"], @), !.pc = to]]
  BY DEF Promote
<1> DEFINE jobs == Over([j \in P |-> "running"], tx[s].jobs)
           t    == [tx[s] EXCEPT !.jobs = jobs, !.pc = to]
<1>3. tx' = [tx EXCEPT ![s] = t]
  BY <1>2
<1>4. TypeOK /\ tx[s] \in Transaction
  BY DEF TxInv, TypeOK
<1>5. SessionInv(s) /\ \A o \in Session : o # s => SessionInv(o) /\ Apart(s, o) /\ Apart(o, s)
  BY DEF TxInv
<1>6. tx[s].gate /\ tx[s].kind # "admit"
  BY <1>1, <1>5 DEF SessionInv, GateRule, KindRule
<1>7. \A j \in Job : Jobs(s)[j] = "queued" => j \notin Rows(s) /\ job[j] = "queued"
  BY <1>4, <1>5, <1>6, Seen DEF SessionInv, RowRule
<1>8. \A j \in Job : Jobs(s)[j] = "queued" => UpdateFree(s, j)
  <2> SUFFICES ASSUME NEW j \in Job, Jobs(s)[j] = "queued", NEW o \in Session, o # s
               PROVE  j \notin Rows(o) \cup tx[o].update \cup tx[o].share
    BY DEF UpdateFree, RowFree, Others, Rows
  <2>1. job[j] = "queued"
    BY <1>7
  <2>2. ~tx[o].gate /\ SessionInv(o)
    BY <1>5, <1>6 DEF Apart
  <2>3. tx[o].update = {} /\ \A x \in Rows(o) : tx[o].jobs[x] \in {"completed", "failed"}
    BY <2>2 DEF SessionInv, GateRule
  <2>4. j \notin Rows(o)
    BY <2>1, <2>2, <2>3 DEF SessionInv, RowRule
  <2>5. j \notin tx[o].share
    BY <2>1, <2>2 DEF SessionInv, TargetRule
  <2> QED BY <2>3, <2>4, <2>5
<1>9. /\ P \subseteq Job /\ \A j \in P : Jobs(s)[j] = "queued" /\ UpdateFree(s, j)
      /\ queued = {j \in Job : Jobs(s)[j] = "queued"}
  BY <1>8
<1> HIDE DEF queued
<1>10. jobs \in Partial(Job, JobState)
  <2>1. [j \in P |-> "running"] \in [P -> JobState]
    BY DEF JobState
  <2>2. [j \in P |-> "running"] \in Partial(Job, JobState)
    BY <1>9, <2>1, PartialOf
  <2>3. tx[s].jobs \in Partial(Job, JobState)
    BY <1>4 DEF Transaction
  <2> QED BY <2>2, <2>3, OverPartial
<1>11. /\ DOMAIN jobs = P \cup Rows(s)
       /\ \A x \in DOMAIN jobs : jobs[x] = IF x \in P THEN "running" ELSE tx[s].jobs[x]
  BY DEF Over, Rows
<1>12. to \in {"commit", "finish"} /\ (to = "finish" => tx[s].kind \notin {"admit", "cancel"})
  BY <1>6
<1> HIDE DEF jobs, to
<1>13. /\ t \in Transaction /\ t.pc = to /\ t.kind = tx[s].kind /\ t.job = tx[s].job
       /\ t.item = tx[s].item /\ t.todo = tx[s].todo /\ t.jobs = jobs
       /\ t.items = tx[s].items /\ t.gate = TRUE
       /\ t.update = tx[s].update /\ t.share = tx[s].share
  BY <1>4, <1>6, <1>10, <1>12 DEF Transaction, Place
<1> HIDE DEF t
<1>14. TypeOK' /\ tx'[s] = t /\ \A o \in Session : o # s => tx'[o] = tx[o]
  BY <1>1, <1>3, <1>4, <1>12, <1>13, Goes
<1>15. Rows(s)' = P \cup Rows(s) /\ ItemRows(s)' = ItemRows(s) /\ Items(s)' = Items(s)
  BY <1>1, <1>11, <1>13, <1>14 DEF Rows, ItemRows, Items
<1>16. \A x \in Job : Jobs(s)'[x] = IF x \in P THEN "running" ELSE Jobs(s)[x]
  BY <1>1, <1>4, <1>11, <1>13, <1>14, <1>15, Seen, SeenNext
<1>17. GateRule(s)'
  BY <1>12, <1>13, <1>14 DEF GateRule
<1>18. KindRule(s)'
  BY <1>12, <1>13, <1>14 DEF KindRule
<1>19. TargetRule(s)'
  BY <1>1, <1>5, <1>12, <1>13, <1>14 DEF SessionInv, TargetRule
<1>20. RowRule(s)'
  <2> SUFFICES ASSUME NEW x \in P \cup Rows(s)
               PROVE  /\ job[x] \notin TerminalState /\ job[x] # "absent"
                      /\ jobs[x] # "queued"
                      /\ jobs[x] = "running" => job[x] = "queued"
                      /\ jobs[x] \in {"completed", "failed"} => job[x] = "running"
                      /\ jobs[x] \in TerminalState => ~Live(x, Items(s))
    BY <1>1, <1>6, <1>13, <1>14, <1>15 DEF RowRule
  <2>1. CASE x \in P
    BY <1>7, <1>9, <1>11, <2>1 DEF TerminalState
  <2>2. CASE x \notin P
    BY <1>5, <1>6, <1>11, <2>2 DEF SessionInv, RowRule
  <2> QED BY <2>1, <2>2
<1>21. ItemRule(s)'
  <2> SUFFICES ASSUME NEW i \in ItemRows(s)
               PROVE  item[i] \in LiveItemState /\ Jobs(s)'[i[1]] # "queued"
    BY <1>1, <1>6, <1>13, <1>14, <1>15 DEF ItemRule
  <2>1. i[1] \in Job
    BY <1>4, TxTypes DEF Item
  <2> QED BY <1>5, <1>6, <1>16, <2>1 DEF SessionInv, ItemRule
<1>22. CountRule(s)'
  <2>1. ActiveCount(Jobs(s)) <= MaxActive /\ Ordered(s)
    BY <1>5, <1>6 DEF SessionInv, CountRule
  <2>2. ActiveCount(Jobs(s)) \in Nat /\ slots \in Nat
    <3>1. ActiveCount(Jobs(s)) \in Nat
      BY Counted
    <3> QED BY <2>1, <3>1, PlacesAssumption
  <2>3. Cardinality(P) \in Nat /\ ActiveCount(Jobs(s)') = ActiveCount(Jobs(s)) + Cardinality(P)
    BY <1>9, <1>16, CountedMore
  <2>4. ActiveCount(Jobs(s)') <= MaxActive
    BY <1>2, <2>2, <2>3, PlacesAssumption
  <2>5. ASSUME NEW a \in Job, NEW b \in Job,
               Jobs(s)'[a] = "queued", Jobs(s)'[b] = "running"
        PROVE  job'[b] # "absent" /\ (job'[a] = "absent" \/ seq'[b] < seq'[a])
    <3>1. a \in queued \ P
      BY <1>9, <1>16, <2>5
    <3>2. CASE b \in P
      BY <1>1, <1>2, <1>7, <1>9, <3>1, <3>2 DEF OldestFirst
    <3>3. CASE b \notin P
      BY <1>1, <1>9, <1>16, <2>1, <2>5, <3>1, <3>3 DEF Ordered
    <3> QED BY <3>2, <3>3
  <2>6. ASSUME NEW a \in Job, Jobs(s)'[a] = "queued" PROVE ActiveCount(Jobs(s)') = MaxActive
    <3>1. P # queued
      BY <1>9, <1>16, <2>6
    <3> QED BY <1>2, <2>2, <2>3, <2>4, <3>1, PlacesAssumption
  <2> QED BY <2>4, <2>5, <2>6 DEF CountRule, Ordered, NoIdle, ActiveCount
<1>23. ASSUME NEW o \in Session, o # s PROVE Apart(s, o)' /\ Apart(o, s)'
  <2>1. /\ Rows(o)' = Rows(o) /\ ItemRows(o)' = ItemRows(o) /\ tx'[o] = tx[o]
        /\ Apart(s, o) /\ Apart(o, s)
    BY <1>5, <1>14, <1>23 DEF Rows, ItemRows
  <2>2. P \cap (Rows(o) \cup tx[o].update) = {}
    BY <1>9, <1>23 DEF UpdateFree, RowFree, Others, Rows
  <2> QED BY <1>6, <1>13, <1>14, <1>15, <2>1, <2>2 DEF Apart
<1>24. SessionInv(s)'
  BY <1>17, <1>18, <1>19, <1>20, <1>21, <1>22 DEF SessionInv
<1> QED BY <1>1, <1>14, <1>23, <1>24, StepKeeps

-----------------------------------------------------------------------------
(* COMMIT                                                                   *)

(* The jobs that exist can be counted, and those that are there stay.       *)
LEMMA AdmittedCounted ==
    ASSUME NEW jobs
    PROVE  /\ IsFiniteSet(Admitted(jobs)) /\ Cardinality(Admitted(jobs)) \in Nat
           /\ \A more : Admitted(jobs) \subseteq Admitted(more)
                        => Cardinality(Admitted(jobs)) <= Cardinality(Admitted(more))
           /\ \A more, j : Admitted(jobs) \cup {j} \subseteq Admitted(more) /\ j \notin Admitted(jobs)
                        => Cardinality(Admitted(jobs)) + 1 <= Cardinality(Admitted(more))
<1>1. \A f : Admitted(f) \subseteq Job
  BY DEF Admitted
<1>2. \A f : IsFiniteSet(Admitted(f))
  BY <1>1, FiniteAssumption, FS_Subset
<1>3. \A f : Cardinality(Admitted(f)) \in Nat
  BY <1>2, FS_CardinalityType
<1>4. ASSUME NEW more, Admitted(jobs) \subseteq Admitted(more)
      PROVE  Cardinality(Admitted(jobs)) <= Cardinality(Admitted(more))
  BY <1>2, <1>4, FS_Subset
<1>5. ASSUME NEW more, NEW j, Admitted(jobs) \cup {j} \subseteq Admitted(more), j \notin Admitted(jobs)
      PROVE  Cardinality(Admitted(jobs)) + 1 <= Cardinality(Admitted(more))
  <2>1. Cardinality(Admitted(jobs) \cup {j}) = Cardinality(Admitted(jobs)) + 1
    BY <1>2, <1>5, FS_AddElement
  <2>2. Cardinality(Admitted(jobs) \cup {j}) <= Cardinality(Admitted(more))
    BY <1>2, <1>5, FS_Subset
  <2> QED BY <2>1, <2>2
<1> QED BY <1>2, <1>3, <1>4, <1>5

(* What a commit changes: the rows its transaction wrote, and nothing that  *)
(* an ended job has.                                                        *)
LEMMA CommitWrites ==
    ASSUME TxInv, NEW s \in Session, Commit(s)
    PROVE  /\ TypeOK' /\ tx'[s] = Idle /\ \A o \in Session : o # s => tx'[o] = tx[o]
           /\ \A j \in Job : job'[j] = IF j \in Rows(s) THEN tx[s].jobs[j] ELSE job[j]
           /\ \A i \in Item : item'[i] = IF i \in ItemRows(s) THEN tx[s].items[i] ELSE item[i]
           /\ \A j \in Job : seq'[j] = IF job[j] = "absent" /\ job'[j] # "absent"
                                        THEN 1 + Cardinality(Admitted(job)) ELSE seq[j]
           /\ \A j \in Job : told'[j] = IF j \in Rows(s) /\ job'[j] \in TerminalState
                                         THEN told[j] + 1 ELSE told[j]
           /\ \A j \in Rows(s) : j \in Job /\ tx[s].jobs[j] # "absent"
<1>1. TypeOK
  BY DEF TxInv
<1>2. /\ job' = Jobs(s) /\ item' = Items(s) /\ tx' = [tx EXCEPT ![s] = Idle]
      /\ seq' = [j \in Job |-> IF job[j] = "absent" /\ job'[j] # "absent"
                                 THEN 1 + Cardinality(Admitted(job)) ELSE seq[j]]
      /\ told' = [j \in Job |-> IF j \in Rows(s) /\ job'[j] \in TerminalState
                                  THEN told[j] + 1 ELSE told[j]]
  BY DEF Commit, Admitted, Rows
<1>3. /\ job' = [j \in Job |-> IF j \in Rows(s) THEN tx[s].jobs[j] ELSE job[j]]
      /\ item' = [i \in Item |-> IF i \in ItemRows(s) THEN tx[s].items[i] ELSE item[i]]
  BY <1>1, <1>2, Seen
<1>4. /\ job' \in [Job -> JobState \cup {"absent"}]
      /\ item' \in [Item -> ItemState \cup {"absent"}]
  BY <1>1, <1>2, <1>3, Seen
<1>5. seq' \in [Job -> Nat] /\ told' \in [Job -> Nat]
  BY <1>1, <1>2, AdmittedCounted DEF TypeOK
<1>6. /\ tx' \in [Session -> Transaction] /\ tx'[s] = Idle
      /\ \A o \in Session : o # s => tx'[o] = tx[o]
  BY <1>1, <1>2, IdleType DEF TypeOK
<1>7. TypeOK'
  BY <1>1, <1>4, <1>5, <1>6 DEF TypeOK
<1>8. \A j \in Rows(s) : j \in Job /\ tx[s].jobs[j] # "absent"
  BY <1>1, TxTypes DEF JobState, TerminalState
<1> QED BY <1>2, <1>3, <1>6, <1>7, <1>8

(* What it leaves alone.                                                    *)
LEMMA CommitKeepsRows ==
    ASSUME TxInv, NEW s \in Session, Commit(s)
    PROVE  /\ \A j \in Job : job[j] # "absent" => job'[j] # "absent" /\ seq'[j] = seq[j]
           /\ \A j \in Job : job[j] \notin {"absent", "queued"} => job'[j] \notin {"absent", "queued"}
           /\ \A j \in Job : job[j] \in TerminalState => j \notin Rows(s)
           /\ \A i \in ItemRows(s) : i[1] \in Rows(s) \/ item[i] \in LiveItemState
           /\ Rows(s) # {} => tx[s].gate
           /\ Rows(s) = {} => job' = job /\ seq' = seq /\ told' = told
<1>1. TypeOK /\ SessionInv(s) /\ tx[s].pc = "commit"
  BY DEF TxInv, Commit
<1>2. \A j \in Rows(s) : /\ tx[s].jobs[j] = "queued" => job[j] = "absent"
                         /\ job[j] \notin TerminalState
  BY <1>1 DEF SessionInv, RowRule
<1>3. Rows(s) # {} => tx[s].gate
  BY <1>1 DEF SessionInv, GateRule
<1>4. \A i \in ItemRows(s) : i[1] \in Rows(s) \/ item[i] \in LiveItemState
  BY <1>1 DEF SessionInv, ItemRule
<1>5. ASSUME Rows(s) = {} PROVE job' = job /\ seq' = seq /\ told' = told
  <2>1. /\ \A j \in Job : job'[j] = job[j] /\ seq'[j] = seq[j] /\ told'[j] = told[j]
        /\ TypeOK'
    BY <1>5, CommitWrites
  <2> QED BY <1>1, <2>1 DEF TypeOK
<1> QED BY <1>2, <1>3, <1>4, <1>5, CommitWrites

LEMMA CommitCommitted ==
    ASSUME TxInv, NEW s \in Session, Commit(s)
    PROVE  Committed'
<1>1. /\ TypeOK /\ Committed /\ tx[s].pc = "commit"
      /\ GateRule(s) /\ RowRule(s) /\ ItemRule(s) /\ CountRule(s)
  BY DEF TxInv, Commit, SessionInv
<1>2. job' = Jobs(s) /\ item' = Items(s)
  BY DEF Commit
<1>3. RowsBegin'
  <2>1. ASSUME NEW j \in Job, job'[j] = "absent", NEW k \in Key PROVE item'[<<j, k>>] = "absent"
    <3>1. j \notin Rows(s) /\ job[j] = "absent"
      BY <2>1, CommitWrites
    <3>2. <<j, k>> \in Item /\ item[<<j, k>>] = "absent"
      BY <1>1, <3>1 DEF Committed, RowsBegin, Item
    <3>3. <<j, k>> \notin ItemRows(s)
      BY <3>1, <3>2, CommitKeepsRows DEF LiveItemState
    <3> QED BY <3>2, <3>3, CommitWrites
  <2>2. ASSUME NEW j \in Job, job'[j] = "queued", NEW k \in Key
        PROVE  item'[<<j, k>>] \notin {"running", "cancelled"}
    <3>1. <<j, k>> \in Item /\ Jobs(s)[j] = "queued"
      BY <1>2, <2>2 DEF Item
    <3>2. CASE <<j, k>> \in ItemRows(s)
      <4>1. tx[s].items[<<j, k>>] = "pending"
        BY <1>1, <3>1, <3>2 DEF ItemRule
      <4> QED BY <3>1, <3>2, <4>1, CommitWrites
    <3>3. CASE <<j, k>> \notin ItemRows(s)
      <4>1. job[j] \in {"absent", "queued"}
        BY <2>2, CommitWrites, CommitKeepsRows
      <4>2. item[<<j, k>>] \notin {"running", "cancelled"}
        BY <1>1, <4>1 DEF Committed, RowsBegin
      <4> QED BY <3>1, <3>3, <4>2, CommitWrites
    <3> QED BY <3>2, <3>3
  <2>3. ASSUME NEW j \in Job, job'[j] # "absent" PROVE seq'[j] <= Cardinality(Admitted(job'))
    <3>1. Admitted(job) \subseteq Admitted(job')
      BY CommitKeepsRows DEF Admitted
    <3>2. /\ Cardinality(Admitted(job)) \in Nat /\ Cardinality(Admitted(job')) \in Nat
          /\ Cardinality(Admitted(job)) <= Cardinality(Admitted(job'))
      BY <3>1, AdmittedCounted
    <3>3. CASE job[j] = "absent"
      <4>1. seq'[j] = 1 + Cardinality(Admitted(job))
        BY <2>3, <3>3, CommitWrites
      <4>2. Admitted(job) \cup {j} \subseteq Admitted(job') /\ j \notin Admitted(job)
        BY <2>3, <3>1, <3>3 DEF Admitted
      <4>3. Cardinality(Admitted(job)) + 1 <= Cardinality(Admitted(job'))
        BY <4>2, AdmittedCounted
      <4> QED BY <3>2, <4>1, <4>3
    <3>4. CASE job[j] # "absent"
      <4>1. seq'[j] = seq[j] /\ seq[j] <= Cardinality(Admitted(job)) /\ seq[j] \in Nat
        BY <1>1, <3>4, CommitKeepsRows DEF Committed, RowsBegin, TypeOK
      <4> QED BY <3>2, <4>1
    <3> QED BY <3>3, <3>4
  <2> QED BY <2>1, <2>2, <2>3 DEF RowsBegin, Admitted
<1>4. ActiveLimit' /\ NoIdlePlace'
  <2>1. CASE tx[s].gate
    BY <1>1, <1>2, <2>1 DEF CountRule, NoIdle, ActiveLimit, NoIdlePlace, ActiveCount
  <2>2. CASE ~tx[s].gate
    <3>1. job' = job
      BY <2>2, CommitKeepsRows
    <3> QED BY <1>1, <3>1 DEF Committed, ActiveLimit, NoIdlePlace, ActiveCount
  <2> QED BY <2>1, <2>2
<1>5. NoOvertaking'
  <2> SUFFICES ASSUME NEW a \in Job, NEW b \in Job, job'[a] = "queued", job'[b] = "running"
               PROVE  seq'[b] < seq'[a]
    BY DEF NoOvertaking
  <2>1. CASE Rows(s) = {}
    <3>1. job' = job /\ seq' = seq
      BY <2>1, CommitKeepsRows
    <3> QED BY <1>1, <3>1 DEF Committed, NoOvertaking
  <2>2. CASE Rows(s) # {}
    <3>1. Ordered(s)
      BY <1>1, <2>2, CommitKeepsRows DEF CountRule
    <3>2. job[b] # "absent" /\ (job[a] = "absent" \/ seq[b] < seq[a])
      BY <1>2, <3>1 DEF Ordered
    <3>3. seq'[b] = seq[b] /\ seq[b] \in Nat /\ seq[b] <= Cardinality(Admitted(job))
      BY <1>1, <3>2, CommitKeepsRows DEF Committed, RowsBegin, TypeOK
    <3>4. CASE job[a] = "absent"
      <4>1. seq'[a] = 1 + Cardinality(Admitted(job))
        BY <3>4, CommitWrites
      <4>2. Cardinality(Admitted(job)) \in Nat
        BY AdmittedCounted
      <4> QED BY <3>3, <4>1, <4>2
    <3>5. CASE job[a] # "absent"
      BY <3>2, <3>3, <3>5, CommitKeepsRows
    <3> QED BY <3>4, <3>5
  <2> QED BY <2>1, <2>2
<1>6. AnnouncedOnce'
  <2> SUFFICES ASSUME NEW j \in Job
               PROVE  told'[j] = IF job'[j] \in TerminalState THEN 1 ELSE 0
    BY DEF AnnouncedOnce
  <2>1. told[j] = IF job[j] \in TerminalState THEN 1 ELSE 0
    BY <1>1 DEF Committed, AnnouncedOnce
  <2>2. CASE j \in Rows(s)
    <3>1. told[j] = 0
      BY <2>1, <2>2, CommitKeepsRows
    <3> QED BY <2>2, <3>1, CommitWrites
  <2>3. CASE j \notin Rows(s)
    BY <2>1, <2>3, CommitWrites
  <2> QED BY <2>2, <2>3
<1>7. EndedJobsKeepNothingLive'
  <2> SUFFICES ASSUME NEW j \in Job, job'[j] \in TerminalState, NEW k \in Key
               PROVE  item'[<<j, k>>] \notin LiveItemState
    BY DEF EndedJobsKeepNothingLive, Live
  <2>1. <<j, k>> \in Item
    BY DEF Item
  <2>2. CASE j \in Rows(s)
    BY <1>1, <1>2, <2>2, CommitWrites DEF RowRule, Live
  <2>3. CASE j \notin Rows(s)
    <3>1. item[<<j, k>>] \notin LiveItemState
      BY <1>1, <2>3, CommitWrites DEF Committed, EndedJobsKeepNothingLive, Live
    <3>2. <<j, k>> \notin ItemRows(s)
      BY <2>3, <3>1, CommitKeepsRows
    <3> QED BY <2>1, <3>1, <3>2, CommitWrites
  <2> QED BY <2>2, <2>3
<1> QED BY <1>3, <1>4, <1>5, <1>6, <1>7 DEF Committed

(* The transactions that are still open are not disturbed.                  *)
LEMMA CommitOthers ==
    ASSUME TxInv, NEW s \in Session, Commit(s), NEW o \in Session, o # s
    PROVE  SessionInv(o)'
<1>1. /\ TypeOK /\ Committed /\ SessionInv(s) /\ SessionInv(o) /\ Apart(s, o) /\ Apart(o, s)
  BY DEF TxInv
<1>2. TypeOK' /\ tx'[o] = tx[o] /\ Rows(o)' = Rows(o) /\ ItemRows(o)' = ItemRows(o)
  BY CommitWrites DEF Rows, ItemRows
<1>3. \A j \in Rows(o) \cup tx[o].update : j \in Job /\ j \notin Rows(s) /\ job'[j] = job[j]
  <2>1. \A j \in Rows(o) \cup tx[o].update : j \in Job /\ j \notin Rows(s)
    BY <1>1, TxTypes DEF Apart
  <2> QED BY <2>1, CommitWrites
<1>4. \A i \in ItemRows(o) : i \in Item /\ item'[i] = item[i]
  <2>1. \A i \in ItemRows(o) : i \in Item /\ i \notin ItemRows(s)
    BY <1>1, TxTypes DEF Apart
  <2> QED BY <2>1, CommitWrites
<1>5. GateRule(o)' /\ KindRule(o)'
  BY <1>1, <1>2 DEF SessionInv, GateRule, KindRule
<1>6. TargetRule(o)'
  <2>1. /\ tx[o].job \subseteq Job /\ tx[o].todo \subseteq Job /\ tx[o].share \subseteq Job
        /\ \A i \in tx[o].item : i[1] \in Job
    BY <1>1, TxTypes DEF Item
  <2>2. tx[o].kind = "admit" => \A j \in tx[o].job : job'[j] = "absent"
    <3> SUFFICES ASSUME tx[o].kind = "admit", NEW j \in tx[o].job PROVE job'[j] = "absent"
      OBVIOUS
    <3>1. job[j] = "absent"
      BY <1>1 DEF SessionInv, TargetRule
    <3>2. j \notin Rows(s)
      BY <1>1, <3>1 DEF SessionInv, RowRule, Apart
    <3> QED BY <2>1, <3>1, <3>2, CommitWrites
  <2>3. tx[o].kind = "cancel" => \A j \in tx[o].job : job'[j] # "absent"
    BY <1>1, <2>1, CommitKeepsRows DEF SessionInv, TargetRule
  <2>4. \A j \in tx[o].update : job'[j] # "absent"
    BY <1>1, <1>3, CommitKeepsRows DEF SessionInv, TargetRule
  <2>5. \A j \in tx[o].todo \cup tx[o].share : job'[j] \notin {"absent", "queued"}
    BY <1>1, <2>1, CommitKeepsRows DEF SessionInv, TargetRule
  <2>6. \A i \in tx[o].item : job'[i[1]] \notin {"absent", "queued"}
    BY <1>1, <2>1, CommitKeepsRows DEF SessionInv, TargetRule
  <2>7. tx[o].pc = "items" => \A j \in tx[o].job : j \in tx[o].update /\ job'[j] \in Cancellable
    BY <1>1, <1>3 DEF SessionInv, TargetRule
  <2>8. \A a, b \in tx[o].job : a = b
    BY <1>1 DEF SessionInv, TargetRule
  <2> QED BY <1>2, <2>2, <2>3, <2>4, <2>5, <2>6, <2>7, <2>8 DEF TargetRule
<1>7. RowRule(o)'
  <2>1. ASSUME NEW j \in Rows(o), tx[o].jobs[j] \in TerminalState, NEW k \in Key
        PROVE  Items(o)'[<<j, k>>] \notin LiveItemState
    <3>1. <<j, k>> \in Item /\ j \notin Rows(s) /\ Items(o)[<<j, k>>] \notin LiveItemState
      BY <1>1, <1>3, <2>1 DEF SessionInv, RowRule, Live, Item
    <3>2. Items(o)[<<j, k>>] = IF <<j, k>> \in ItemRows(o) THEN tx[o].items[<<j, k>>] ELSE item[<<j, k>>]
      BY <1>1, <3>1, Seen
    <3>3. Items(o)'[<<j, k>>] = IF <<j, k>> \in ItemRows(o) THEN tx[o].items[<<j, k>>] ELSE item'[<<j, k>>]
      BY <1>2, <3>1, SeenNext
    <3>4. <<j, k>> \notin ItemRows(o) => <<j, k>> \notin ItemRows(s)
      BY <3>1, <3>2, CommitKeepsRows
    <3>5. <<j, k>> \notin ItemRows(o) => item'[<<j, k>>] = item[<<j, k>>]
      BY <3>1, <3>4, CommitWrites
    <3> QED BY <3>1, <3>2, <3>3, <3>5
  <2>2. \A j \in Rows(o) : tx[o].jobs[j] \in TerminalState => ~Live(j, Items(o)')
    BY <2>1 DEF Live
  <2>3. RowRule(o)
    BY <1>1 DEF SessionInv
  <2> QED BY <1>2, <1>3, <2>2, <2>3 DEF RowRule, Live
<1>8. ItemRule(o)'
  <2> SUFFICES ASSUME NEW i \in ItemRows(o), tx[o].kind # "admit"
               PROVE  item'[i] \in LiveItemState /\ Jobs(o)'[i[1]] # "queued"
    BY <1>1, <1>2 DEF SessionInv, ItemRule
  <2>1. item[i] \in LiveItemState /\ Jobs(o)[i[1]] # "queued"
    BY <1>1 DEF SessionInv, ItemRule
  <2>2. i[1] \in Job /\ i[2] \in Key /\ i = <<i[1], i[2]>>
    BY <1>4 DEF Item
  <2>3. job[i[1]] # "absent"
    BY <1>1, <2>1, <2>2 DEF Committed, RowsBegin, LiveItemState
  <2>4. Jobs(o)[i[1]] = IF i[1] \in Rows(o) THEN tx[o].jobs[i[1]] ELSE job[i[1]]
    BY <1>1, <2>2, Seen
  <2>5. Jobs(o)'[i[1]] = IF i[1] \in Rows(o) THEN tx[o].jobs[i[1]] ELSE job'[i[1]]
    BY <1>2, <2>2, SeenNext
  <2>6. i[1] \notin Rows(o) => job'[i[1]] # "queued"
    BY <2>1, <2>2, <2>3, <2>4, CommitKeepsRows
  <2> QED BY <1>4, <2>1, <2>4, <2>5, <2>6
<1>9. CountRule(o)'
  <2> SUFFICES ASSUME tx[o].gate
               PROVE  /\ ActiveCount(Jobs(o)') <= MaxActive /\ Ordered(o)'
                      /\ tx[o].pc \notin {"gate", "promote"} => NoIdle(Jobs(o)')
    BY <1>2 DEF CountRule, NoIdle, ActiveCount
  <2>1. Rows(s) = {}
    BY <1>1, CommitKeepsRows DEF Apart
  <2>2. job' = job /\ seq' = seq
    BY <2>1, CommitKeepsRows
  <2>3. Jobs(o)' = Jobs(o)
    BY <1>2, <2>2 DEF Jobs
  <2> QED BY <1>1, <2>2, <2>3 DEF SessionInv, CountRule, Ordered, NoIdle, ActiveCount
<1> QED BY <1>5, <1>6, <1>7, <1>8, <1>9 DEF SessionInv

LEMMA CommitKeeps ==
    ASSUME TxInv, NEW s \in Session, Commit(s)
    PROVE  TxInv'
<1>1. TypeOK' /\ tx'[s] = Idle /\ \A o \in Session : o # s => tx'[o] = tx[o]
  BY CommitWrites
<1>2. \A o \in Session : SessionInv(o)'
  BY <1>1, CommitOthers, IdleHolds
<1>3. ASSUME NEW o \in Session, NEW p \in Session, o # p PROVE Apart(o, p)'
  <2>1. CASE o = s \/ p = s
    BY <1>1, <1>3, <2>1, IdleHolds
  <2>2. CASE o # s /\ p # s
    <3>1. Apart(o, p) /\ tx'[o] = tx[o] /\ tx'[p] = tx[p]
      BY <1>1, <1>3, <2>2 DEF TxInv
    <3> QED BY <3>1 DEF Apart, Rows, ItemRows
  <2> QED BY <2>1, <2>2
<1> QED BY <1>1, <1>2, <1>3, CommitCommitted DEF TxInv

-----------------------------------------------------------------------------
(* The invariant                                                            *)

LEMMA InitTxInv == Init => TxInv
<1> SUFFICES ASSUME Init PROVE TxInv
  OBVIOUS
<1> USE DEF Init
<1>1. TypeOK
  BY IdleType DEF TypeOK
<1>2. {j \in Job : job[j] = "running"} = {}
  OBVIOUS
<1>3. ActiveCount(job) = 0
  BY <1>2, FS_EmptySet DEF ActiveCount
<1>4. Committed
  <2>1. \A j \in Job : job[j] = "absent" /\ told[j] = 0 /\ \A k \in Key : item[<<j, k>>] = "absent"
    BY DEF Item
  <2>2. ActiveLimit
    BY <1>3, PlacesAssumption DEF ActiveLimit
  <2>3. RowsBegin /\ NoIdlePlace /\ NoOvertaking
    BY <2>1 DEF RowsBegin, NoIdlePlace, NoOvertaking
  <2>4. AnnouncedOnce /\ EndedJobsKeepNothingLive
    BY <2>1 DEF AnnouncedOnce, EndedJobsKeepNothingLive, TerminalState
  <2> QED BY <2>2, <2>3, <2>4 DEF Committed
<1>5. ASSUME NEW s \in Session
      PROVE  SessionInv(s) /\ \A o \in Session : Apart(s, o)
  <2>1. /\ tx[s].kind = "none" /\ tx[s].pc = "idle" /\ tx[s].gate = FALSE
        /\ tx[s].job = {} /\ tx[s].item = {} /\ tx[s].todo = {} /\ tx[s].update = {}
        /\ tx[s].share = {} /\ tx[s].jobs = <<>> /\ tx[s].items = <<>>
    BY DEF Idle
  <2>2. Rows(s) = {} /\ ItemRows(s) = {}
    BY <2>1 DEF Rows, ItemRows
  <2>3. SessionInv(s)
    BY <2>1, <2>2 DEF SessionInv, GateRule, KindRule, TargetRule, RowRule, ItemRule, CountRule
  <2>4. \A o \in Session : Apart(s, o)
    BY <2>1, <2>2 DEF Apart
  <2> QED BY <2>3, <2>4
<1> QED BY <1>1, <1>4, <1>5 DEF TxInv

LEMMA TxStep == TxInv /\ [Next]_vars => TxInv'
<1> SUFFICES ASSUME TxInv, [Next]_vars PROVE TxInv'
  OBVIOUS
<1>1. ASSUME NEW s \in Session,
             LockGate(s) \/ Promote(s) \/ NothingToFinish(s) \/ Commit(s) \/ Abort(s)
      PROVE  TxInv'
  BY <1>1, LockGateKeeps, PromoteKeeps, NothingToFinishKeeps, CommitKeeps, AbortKeeps
<1>2. ASSUME NEW s \in Session, BeginClaim(s) \/ Sweep(s) \/ Claim(s)
      PROVE  TxInv'
  BY <1>2, BeginningsKeep, SweepKeeps, ClaimKeeps
<1>3. ASSUME NEW s \in Session, NEW j \in Job,
             \/ FinishIfDrained(s, j)
             \/ BeginAdmit(s, j) \/ Insert(s, j)
             \/ BeginCancel(s, j) \/ LockJob(s, j) \/ CancelItems(s, j)
      PROVE  TxInv'
  BY <1>3, FinishIfDrainedKeeps, BeginningsKeep, InsertKeeps, LockJobKeeps, CancelItemsKeeps
<1>4. ASSUME NEW s \in Session, NEW i \in Item,
             BeginPublish(s, i) \/ UpsertEntry(s, i) \/ PublishFenced(s, i)
      PROVE  TxInv'
  BY <1>4, BeginningsKeep, UpsertEntryKeeps, PublishFencedKeeps
<1>5. CASE UNCHANGED vars
  <2>1. job' = job /\ seq' = seq /\ item' = item /\ told' = told /\ tx' = tx
    BY <1>5 DEF vars
  <2>2. TypeOK' /\ Committed'
    BY <2>1 DEF TxInv, TypeOK, Committed, RowsBegin, ActiveLimit, NoIdlePlace, NoOvertaking,
       AnnouncedOnce, EndedJobsKeepNothingLive, ActiveCount, Live, Admitted
  <2>3. ASSUME NEW s \in Session PROVE SessionInv(s)'
    <3>1. SessionInv(s)
      BY DEF TxInv
    <3> QED BY <2>1, <3>1 DEF SessionInv, GateRule, KindRule, TargetRule, RowRule, ItemRule,
            CountRule, Ordered, NoIdle, ActiveCount, Live, Rows, ItemRows, Jobs, Items
  <2>4. ASSUME NEW s \in Session, NEW o \in Session, s # o PROVE Apart(s, o)'
    BY <2>1, <2>4 DEF TxInv, Apart, Rows, ItemRows
  <2> QED BY <2>2, <2>3, <2>4 DEF TxInv
<1> QED BY <1>1, <1>2, <1>3, <1>4, <1>5 DEF Next

(* However the statements of the transactions interleave, the rows that are *)
(* written and not committed are nobody else's, and the gate's holder       *)
(* counts what will be committed.                                           *)
THEOREM Safety == Spec => []TxInv
<1>1. Init => TxInv
  BY InitTxInv
<1>2. TxInv /\ [Next]_vars => TxInv'
  BY TxStep
<1> QED BY <1>1, <1>2, PTL DEF Spec

(* The committed rows never show more running jobs than there are places:   *)
(* the gate serializes every transaction that starts a job.                 *)
THEOREM ActiveLimitHolds == Spec => []ActiveLimit
<1>1. TxInv => ActiveLimit
  BY DEF TxInv, Committed
<1> QED BY <1>1, Safety, PTL

(* No commit leaves a place free while a job waits, also when a job is      *)
(* admitted while another one ends.                                         *)
THEOREM NoIdlePlaceHolds == Spec => []NoIdlePlace
<1>1. TxInv => NoIdlePlace
  BY DEF TxInv, Committed
<1> QED BY <1>1, Safety, PTL

(* No job runs while one submitted earlier waits: the promotion skips no    *)
(* locked row, because nobody else can have the row of a waiting job.       *)
THEOREM NoOvertakingHolds == Spec => []NoOvertaking
<1>1. TxInv => NoOvertaking
  BY DEF TxInv, Committed
<1> QED BY <1>1, Safety, PTL

(* The end of a job is announced once, also when two transactions see it    *)
(* drained, or one drains it while another cancels it.                      *)
THEOREM AnnouncedOnceHolds == Spec => []AnnouncedOnce
<1>1. TxInv => AnnouncedOnce
  BY DEF TxInv, Committed
<1> QED BY <1>1, Safety, PTL

(* No claim, sweep or publish that overlaps the end of a job leaves an item *)
(* of it in anybody's hands.                                                *)
THEOREM EndedJobsKeepNothingLiveHolds == Spec => []EndedJobsKeepNothingLive
<1>1. TxInv => EndedJobsKeepNothingLive
  BY DEF TxInv, Committed
<1> QED BY <1>1, Safety, PTL

-----------------------------------------------------------------------------
(* Ended jobs, and the line                                                 *)

(* Only a commit changes what is committed.                                 *)
LEMMA OnlyCommits ==
    ASSUME [Next]_vars
    PROVE  \/ UNCHANGED <<job, seq, item, told>>
           \/ \E s \in Session : Commit(s)
<1>1. ASSUME NEW s \in Session, LockGate(s) \/ Promote(s) \/ NothingToFinish(s) \/ Abort(s)
      PROVE  UNCHANGED <<job, seq, item, told>>
  BY <1>1 DEF LockGate, Promote, NothingToFinish, Abort, Step
<1>2. ASSUME NEW s \in Session, BeginClaim(s) \/ Sweep(s) \/ Claim(s)
      PROVE  UNCHANGED <<job, seq, item, told>>
  BY <1>2 DEF BeginClaim, Sweep, Claim, Begin, Step
<1>3. ASSUME NEW s \in Session, NEW j \in Job,
             \/ FinishIfDrained(s, j)
             \/ BeginAdmit(s, j) \/ Insert(s, j)
             \/ BeginCancel(s, j) \/ LockJob(s, j) \/ CancelItems(s, j)
      PROVE  UNCHANGED <<job, seq, item, told>>
  BY <1>3 DEF FinishIfDrained, BeginAdmit, Insert, BeginCancel, LockJob, CancelItems, Begin, Step
<1>4. ASSUME NEW s \in Session, NEW i \in Item,
             BeginPublish(s, i) \/ UpsertEntry(s, i) \/ PublishFenced(s, i)
      PROVE  UNCHANGED <<job, seq, item, told>>
  BY <1>4 DEF BeginPublish, UpsertEntry, PublishFenced, Begin, Step
<1>5. CASE UNCHANGED vars
  BY <1>5 DEF vars
<1> QED BY <1>1, <1>2, <1>3, <1>4, <1>5 DEF Next

(* A job that ended stays as it is, with its items: a transaction that took *)
(* one of them before the end has not been able to keep it.                 *)
THEOREM EndedStaysEnded == Spec => EndedIsFinal
<1> DEFINE Final == \A j \in Job : job[j] \in TerminalState =>
                       job'[j] = job[j] /\ \A k \in Key : item'[<<j, k>>] = item[<<j, k>>]
<1>1. TxInv /\ [Next]_vars => Final
  <2> SUFFICES ASSUME TxInv, [Next]_vars, NEW j \in Job, job[j] \in TerminalState
               PROVE  job'[j] = job[j] /\ \A k \in Key : item'[<<j, k>>] = item[<<j, k>>]
    OBVIOUS
  <2>1. CASE UNCHANGED <<job, seq, item, told>>
    BY <2>1
  <2>2. ASSUME NEW s \in Session, Commit(s)
        PROVE  job'[j] = job[j] /\ \A k \in Key : item'[<<j, k>>] = item[<<j, k>>]
    <3>1. j \notin Rows(s)
      BY <2>2, CommitKeepsRows
    <3>2. ASSUME NEW k \in Key PROVE item'[<<j, k>>] = item[<<j, k>>]
      <4>1. <<j, k>> \in Item /\ item[<<j, k>>] \notin LiveItemState
        BY DEF TxInv, Committed, EndedJobsKeepNothingLive, Live, Item
      <4>2. <<j, k>> \notin ItemRows(s)
        BY <2>2, <3>1, <4>1, CommitKeepsRows
      <4> QED BY <2>2, <4>1, <4>2, CommitWrites
    <3> QED BY <2>2, <3>1, <3>2, CommitWrites
  <2> QED BY <2>1, <2>2, OnlyCommits
<1> QED BY <1>1, Safety, PTL DEF Spec, EndedIsFinal

Running == {j \in Job : job[j] = "running"}
Ended == {j \in Job : job[j] \in TerminalState}
Ahead == {p \in Waiting \X Waiting : seq[p[1]] < seq[p[2]]}

(* The instance counts as this module does.                                 *)
LEMMA SameCardinality == \A S : Fifo!Cardinality(S) = Cardinality(S)
BY DEF Fifo!Cardinality, Cardinality

LEMMA RowsUnchanged ==
    ASSUME job' = job, seq' = seq
    PROVE  UNCHANGED Fifo!vars
BY DEF Fifo!vars, Waiting

(* Committing an admission, the job enters.                                 *)
LEMMA AdmissionEnters ==
    ASSUME TxInv, TxInv', NEW s \in Session, Commit(s), tx[s].kind = "admit",
           NEW n \in Rows(s)
    PROVE  n \in Job /\ Fifo!Enter(n)
<1> DEFINE state == tx[s].jobs[n]
<1>1. /\ TypeOK /\ Committed /\ Committed' /\ RowRule(s) /\ TargetRule(s)
  BY DEF TxInv, SessionInv
<1>2. n \in Job /\ job[n] = "absent" /\ \A j \in Rows(s) : j = n
  BY <1>1, CommitWrites DEF RowRule, TargetRule
<1>3. state \in JobState /\ job'[n] = state /\ \A j \in Job : j # n => job'[j] = job[j]
  BY <1>1, <1>2, CommitWrites, TxTypes
<1>4. \A j \in Job : j # n => seq'[j] = seq[j]
  BY <1>3, CommitWrites
<1>5. seq'[n] = 1 + Cardinality(Admitted(job)) /\ seq'[n] \in Nat
  BY <1>2, <1>3, CommitWrites, AdmittedCounted DEF JobState, TerminalState
<1> HIDE DEF state
<1>6. n \notin Waiting \cup Running \cup Ended
  BY <1>2 DEF Waiting, Running, Ended, TerminalState
<1>7. Waiting' = IF state = "queued" THEN Waiting \cup {n} ELSE Waiting
  BY <1>2, <1>3, <1>6 DEF Waiting
<1>8. Running' = IF state = "running" THEN Running \cup {n} ELSE Running
  BY <1>2, <1>3, <1>6 DEF Running
<1>9. Ended' = IF state \in TerminalState THEN Ended \cup {n} ELSE Ended
  BY <1>2, <1>3, <1>6 DEF Ended
<1>10. \A a, b \in Waiting : <<a, b>> \in Ahead' <=> <<a, b>> \in Ahead
  <2>1. \A a \in Waiting : a \in Waiting' /\ seq'[a] = seq[a]
    BY <1>4, <1>6, <1>7 DEF Waiting
  <2> QED BY <2>1 DEF Ahead
<1>11. IsFiniteSet(Running) /\ Cardinality(Running) \in Nat
  BY Counted, FS_CardinalityType DEF Running
<1>12. Cardinality(Running) <= MaxActive /\ Cardinality(Running') <= MaxActive
  BY <1>1 DEF Committed, ActiveLimit, ActiveCount, Running
<1>13. CASE state = "running"
  <2>1. Cardinality(Running') = Cardinality(Running) + 1
    BY <1>6, <1>8, <1>11, <1>13, FS_AddElement
  <2>2. Cardinality(Running) < MaxActive
    BY <1>11, <1>12, <2>1, PlacesAssumption
  <2>3. Waiting' = Waiting /\ Ended' = Ended
    BY <1>7, <1>9, <1>13 DEF TerminalState
  <2>4. Ahead' = Ahead
    BY <1>10, <2>3 DEF Ahead
  <2> QED BY <1>2, <1>6, <1>8, <1>13, <2>2, <2>3, <2>4, SameCardinality
          DEF Fifo!Enter, Running, Ended, Ahead
<1>14. CASE state \in TerminalState
  <2>1. Waiting' = Waiting /\ Running' = Running
    BY <1>7, <1>8, <1>14 DEF TerminalState
  <2>2. Ahead' = Ahead
    BY <1>10, <2>1 DEF Ahead
  <2> QED BY <1>2, <1>6, <1>9, <1>14, <2>1, <2>2 DEF Fifo!Enter, Running, Ended, Ahead
<1>15. CASE state = "queued"
  <2>1. Running' = Running /\ Ended' = Ended /\ Waiting' = Waiting \cup {n}
    BY <1>7, <1>8, <1>9, <1>15 DEF TerminalState
  <2>2. Cardinality(Running) = MaxActive
    <3>1. n \in Waiting'
      BY <2>1
    <3>2. Cardinality(Running') = MaxActive
      BY <1>1, <3>1 DEF Committed, NoIdlePlace, ActiveCount, Running, Waiting
    <3> QED BY <2>1, <3>2
  <2>3. ASSUME NEW a \in Waiting PROVE seq'[a] < seq'[n] /\ seq'[a] \in Nat
    <3>1. a \in Job /\ a # n /\ job[a] # "absent"
      BY <1>6 DEF Waiting
    <3>2. seq'[a] = seq[a] /\ seq[a] \in Nat /\ seq[a] <= Cardinality(Admitted(job))
      BY <1>1, <1>4, <3>1 DEF Committed, RowsBegin, TypeOK
    <3> QED BY <1>5, <3>2, AdmittedCounted
  <2>4. Ahead' = Ahead \cup (Waiting \X {n})
    <3>1. ASSUME NEW a \in Waiting', NEW b \in Waiting'
          PROVE  <<a, b>> \in Ahead' <=> <<a, b>> \in Ahead \cup (Waiting \X {n})
      <4>1. <<a, b>> \in Ahead' <=> seq'[a] < seq'[b]
        BY DEF Ahead
      <4>2. CASE a \in Waiting /\ b \in Waiting
        BY <1>6, <1>10, <4>2
      <4>3. CASE a \in Waiting /\ b = n
        BY <2>3, <4>1, <4>3
      <4>4. CASE a = n /\ b \in Waiting
        <5>1. <<a, b>> \notin Ahead \cup (Waiting \X {n})
          BY <1>6, <4>4 DEF Ahead
        <5> QED BY <1>5, <2>3, <4>1, <4>4, <5>1
      <4>5. CASE a = n /\ b = n
        <5>1. <<a, b>> \notin Ahead \cup (Waiting \X {n})
          BY <1>6, <4>5 DEF Ahead
        <5> QED BY <1>5, <4>1, <4>5, <5>1
      <4> QED BY <2>1, <4>2, <4>3, <4>4, <4>5
    <3>2. Ahead' \subseteq Waiting' \X Waiting'
      BY DEF Ahead
    <3>3. Ahead \cup (Waiting \X {n}) \subseteq Waiting' \X Waiting'
      BY <2>1 DEF Ahead
    <3> QED BY <3>1, <3>2, <3>3
  <2> QED BY <1>2, <1>6, <2>1, <2>2, <2>4, SameCardinality DEF Fifo!Enter, Running, Ended, Ahead
<1> QED BY <1>2, <1>3, <1>13, <1>14, <1>15 DEF JobState

(* Committing anything else, the jobs that end leave, and the line moves up.*)
LEMMA EndingsLeave ==
    ASSUME TxInv, TxInv', NEW s \in Session, Commit(s), tx[s].kind # "admit"
    PROVE  [Fifo!Next]_(Fifo!vars)
<1>2. PICK gone \in SUBSET Rows(s) : gone = {j \in Rows(s) : tx[s].jobs[j] \in TerminalState}
  OBVIOUS
<1> DEFINE P == {j \in Rows(s) : tx[s].jobs[j] = "running"}
<1>1. /\ TypeOK /\ Committed /\ Committed' /\ GateRule(s) /\ RowRule(s) /\ CountRule(s)
      /\ tx[s].pc = "commit"
  BY DEF TxInv, SessionInv, Commit
<1>3. \A j \in Rows(s) : /\ j \in Job /\ job[j] \in {"queued", "running"}
                         /\ j \in P => job[j] = "queued"
                         /\ j \in gone \/ j \in P
  <2>1. \A j \in Rows(s) : j \in Job /\ job[j] \in JobState /\ tx[s].jobs[j] \in JobState
    BY <1>1, TxTypes DEF TypeOK, RowRule
  <2> QED BY <1>1, <1>2, <2>1 DEF RowRule, JobState
<1>4. \A j \in Job : /\ job'[j] = IF j \in Rows(s) THEN tx[s].jobs[j] ELSE job[j]
                     /\ job[j] # "absent" => seq'[j] = seq[j]
  BY CommitWrites, CommitKeepsRows
<1>5. \A j \in Job : /\ j \in gone => job'[j] \in TerminalState
                     /\ j \in P => job'[j] = "running"
                     /\ j \notin gone \cup P => job'[j] = job[j]
  BY <1>3, <1>4, <1>2
<1>6. gone \subseteq Rows(s) /\ P \subseteq Rows(s) /\ gone \cap P = {}
  BY <1>2 DEF TerminalState
<1> HIDE DEF P
<1>7. Waiting' = Waiting \ (gone \cup P)
  BY <1>3, <1>5, <1>6 DEF Waiting, TerminalState
<1>8. Running' = (Running \ gone) \cup P
  BY <1>3, <1>5, <1>6 DEF Running, TerminalState
<1>9. Ended' = Ended \cup gone
  BY <1>3, <1>5, <1>6 DEF Ended, TerminalState
<1>10. gone \in SUBSET (Waiting \cup Running) /\ P \in SUBSET (Waiting \ gone)
  BY <1>3, <1>6 DEF Waiting, Running
<1>11. \A j \in Waiting : seq'[j] = seq[j]
  BY <1>4 DEF Waiting
<1>12. /\ Cardinality(Running) <= MaxActive /\ Cardinality(Running') <= MaxActive
       /\ Waiting # {} => Cardinality(Running) = MaxActive
       /\ Waiting' # {} => Cardinality(Running') = MaxActive
  BY <1>1 DEF Committed, ActiveLimit, NoIdlePlace, ActiveCount, Running, Waiting
<1>13. CASE gone = {}
  <2>1. P = {}
    <3> SUFFICES ASSUME P # {} PROVE FALSE
      OBVIOUS
    <3>1. PICK p \in P : p \in Waiting /\ p \in Job
      BY <1>3, <1>6, <1>10
    <3>2. Running \cup {p} \subseteq Running' /\ p \notin Running
      BY <1>8, <1>13, <3>1 DEF Running, Waiting
    <3>3. IsFiniteSet(Running) /\ IsFiniteSet(Running')
      <4>1. Running \subseteq Job /\ Running' \subseteq Job
        BY DEF Running
      <4> QED BY <4>1, FiniteAssumption, FS_Subset
    <3>4. /\ IsFiniteSet(Running \cup {p})
          /\ Cardinality(Running \cup {p}) = Cardinality(Running) + 1
      BY <3>2, <3>3, FS_AddElement
    <3>5. Cardinality(Running \cup {p}) <= Cardinality(Running')
      BY <3>2, <3>3, FS_Subset
    <3>6. Cardinality(Running) = MaxActive
      BY <1>12, <3>1
    <3>7. Cardinality(Running') \in Nat
      BY <3>3, FS_CardinalityType
    <3> QED BY <1>12, <3>4, <3>5, <3>6, <3>7, PlacesAssumption
  <2>2. Rows(s) = {}
    BY <1>3, <1>13, <2>1
  <2>3. job' = job /\ seq' = seq
    BY <2>2, CommitKeepsRows
  <2> QED BY <2>3, RowsUnchanged
<1>14. CASE gone # {}
  <2>1. Ordered(s)
    BY <1>1, <1>6, <1>14 DEF GateRule, CountRule
  <2>2. \A p \in P, q \in Waiting' : <<p, q>> \in Ahead
    <3> SUFFICES ASSUME NEW p \in P, NEW q \in Waiting' PROVE <<p, q>> \in Ahead
      OBVIOUS
    <3>1. p \in Waiting /\ q \in Waiting /\ p \in Job /\ q \in Job
      BY <1>7, <1>10 DEF Waiting
    <3>2. Jobs(s)[q] = "queued" /\ Jobs(s)[p] = "running" /\ job[q] = "queued"
      <4>1. job'[q] = "queued" /\ job'[p] = "running"
        BY <1>5, <3>1 DEF Waiting
      <4>2. job' = Jobs(s)
        BY DEF Commit
      <4> QED BY <3>1, <4>1, <4>2 DEF Waiting
    <3>3. seq[p] < seq[q]
      BY <2>1, <3>1, <3>2 DEF Ordered
    <3> QED BY <3>1, <3>3 DEF Ahead
  <2>3. Ahead' = Ahead \cap (Waiting' \X Waiting')
    <3>1. Waiting' \subseteq Waiting
      BY <1>7
    <3> QED BY <1>11, <3>1 DEF Ahead
  <2>4. Fifo!Leave(gone)
    BY <1>7, <1>8, <1>9, <1>10, <1>12, <1>14, <2>2, <2>3, SameCardinality
    DEF Fifo!Leave, Running, Ended, Ahead
  <2> QED BY <1>10, <2>4 DEF Fifo!Next, Running
<1> QED BY <1>13, <1>14

(* The overlapping transactions keep the promise of FifoAdmission: each     *)
(* commit is one of its steps, or changes nothing it speaks of.             *)
THEOREM FifoImplemented == Spec => ImplementsFifo
<1>1. Init => Fifo!Init
  BY DEF Init, Fifo!Init, Waiting, TerminalState
<1>2. TxInv /\ TxInv' /\ [Next]_vars => [Fifo!Next]_(Fifo!vars)
  <2> SUFFICES ASSUME TxInv, TxInv', [Next]_vars PROVE [Fifo!Next]_(Fifo!vars)
    OBVIOUS
  <2>1. CASE UNCHANGED <<job, seq, item, told>>
    BY <2>1, RowsUnchanged
  <2>2. ASSUME NEW s \in Session, Commit(s) PROVE [Fifo!Next]_(Fifo!vars)
    <3>1. CASE Rows(s) = {}
      BY <2>2, <3>1, CommitKeepsRows, RowsUnchanged
    <3>2. CASE Rows(s) # {} /\ tx[s].kind = "admit"
      BY <2>2, <3>2, AdmissionEnters DEF Fifo!Next
    <3>3. CASE tx[s].kind # "admit"
      BY <2>2, <3>3, EndingsLeave
    <3> QED BY <3>1, <3>2, <3>3
  <2> QED BY <2>1, <2>2, OnlyCommits
<1> QED BY <1>1, <1>2, Safety, PTL DEF Spec, ImplementsFifo, Fifo!Spec

-----------------------------------------------------------------------------
(* When drained jobs do end (finding 1)                                     *)

(* The last items of a job are ended by one transaction at a time: no two   *)
(* that are open have each published or failed an item of the same job.     *)
EndState == {"published", "failed"}
Ends(s, j) == \E k \in Key : <<j, k>> \in ItemRows(s) /\ tx[s].items[<<j, k>>] \in EndState
OneEnder == \A s, o \in Session : s # o => \A j \in Job : ~(Ends(s, j) /\ Ends(o, j))

(* A committed job that has not ended has a live item. *)
ActiveLive == \A j \in Job : job[j] \in Cancellable => Live(j, item)

(* Whoever commits has looked at every job it has to.                       *)
TodoRule(s) ==
    \/ tx[s].kind \in {"admit", "cancel"}
    \/ tx[s].pc \in {"sweep", "entry", "fenced", "claim", "commit"}
    => tx[s].todo = {}

(* An item is cancelled with its job, and ended after its job has started.  *)
EndRule(s) ==
    \A i \in ItemRows(s) :
        /\ tx[s].items[i] = "cancelled" => i[1] \in Rows(s)
        /\ tx[s].items[i] \in EndState => job[i[1]] \notin {"absent", "queued"}

(* A transaction sees a live item of every job that has not ended, but for  *)
(* the jobs it has still to look at.                                        *)
SeesLive(s) ==
    \A j \in Job : Jobs(s)[j] \in Cancellable => j \in tx[s].todo \/ Live(j, Items(s))

DrainRule(s) == TodoRule(s) /\ EndRule(s) /\ SeesLive(s)
DrainedInv == ActiveLive /\ \A s \in Session : DrainRule(s)

LEMMA DrainStepKeeps ==
    ASSUME DrainedInv, NEW s \in Session, UNCHANGED <<job, seq, item, told>>,
           \A o \in Session : o # s => tx'[o] = tx[o], DrainRule(s)'
    PROVE  DrainedInv'
<1>1. ActiveLive'
  BY DEF DrainedInv, ActiveLive, Live
<1>2. ASSUME NEW o \in Session, o # s PROVE DrainRule(o)'
  <2>1. /\ tx'[o] = tx[o] /\ Rows(o)' = Rows(o) /\ ItemRows(o)' = ItemRows(o)
        /\ Jobs(o)' = Jobs(o) /\ Items(o)' = Items(o)
    BY <1>2 DEF Rows, ItemRows, Jobs, Items
  <2>2. TodoRule(o) /\ EndRule(o) /\ SeesLive(o)
    BY DEF DrainedInv, DrainRule
  <2>3. TodoRule(o)' /\ EndRule(o)'
    BY <2>1, <2>2 DEF TodoRule, EndRule
  <2>4. SeesLive(o)'
    BY <2>1, <2>2 DEF SeesLive, Live
  <2> QED BY <2>3, <2>4 DEF DrainRule
<1> QED BY <1>1, <1>2 DEF DrainedInv

(* Who wrote nothing sees what is committed.                                *)
LEMMA UnwrittenSeesLive ==
    ASSUME TypeOK', ActiveLive', NEW s \in Session, tx'[s].jobs = <<>>, tx'[s].items = <<>>
    PROVE  EndRule(s)' /\ SeesLive(s)'
<1>1. Rows(s)' = {} /\ ItemRows(s)' = {}
  BY DEF Rows, ItemRows
<1>2. \A j \in Job : Jobs(s)'[j] = job'[j]
  BY <1>1, SeenNext
<1>3. \A i \in Item : Items(s)'[i] = item'[i]
  BY <1>1, SeenNext
<1>4. ASSUME NEW j \in Job, Live(j, item)' PROVE Live(j, Items(s))'
  BY <1>3, <1>4 DEF Live, Item
<1> QED BY <1>1, <1>2, <1>4 DEF EndRule, SeesLive, ActiveLive

(* A statement that writes no row, and looks at no job.                     *)
LEMMA UnwrittenDrains ==
    ASSUME TxInv, DrainedInv, NEW s \in Session, UNCHANGED <<job, seq, item, told>>,
           NEW t, tx' = [tx EXCEPT ![s] = t],
           t.jobs = tx[s].jobs, t.items = tx[s].items, t.todo = tx[s].todo,
           \/ t.kind \in {"admit", "cancel"}
           \/ t.pc \in {"sweep", "entry", "fenced", "claim", "commit"}
           => tx[s].todo = {}
    PROVE  DrainedInv'
<1>1. tx'[s] = t /\ \A o \in Session : o # s => tx'[o] = tx[o]
  BY DEF TxInv, TypeOK
<1>2. Rows(s)' = Rows(s) /\ ItemRows(s)' = ItemRows(s)
      /\ Jobs(s)' = Jobs(s) /\ Items(s)' = Items(s)
  BY <1>1 DEF Rows, ItemRows, Jobs, Items
<1>3. TodoRule(s) /\ EndRule(s) /\ SeesLive(s)
  BY DEF DrainedInv, DrainRule
<1>4. TodoRule(s)'
  BY <1>1 DEF TodoRule
<1>5. EndRule(s)'
  BY <1>1, <1>2, <1>3 DEF EndRule
<1>6. SeesLive(s)'
  BY <1>1, <1>2, <1>3 DEF SeesLive, Live
<1> QED BY <1>1, <1>4, <1>5, <1>6, DrainStepKeeps DEF DrainRule

(* The first statement of a transaction, and its rollback.                  *)
LEMMA EmptyDrains ==
    ASSUME TxInv, TxInv', DrainedInv, NEW s \in Session, UNCHANGED <<job, seq, item, told>>,
           NEW t, tx' = [tx EXCEPT ![s] = t], t.jobs = <<>>, t.items = <<>>, t.todo = {}
    PROVE  DrainedInv'
<1>1. tx'[s] = t /\ \A o \in Session : o # s => tx'[o] = tx[o]
  BY DEF TxInv, TypeOK
<1>2. ActiveLive'
  BY DEF DrainedInv, ActiveLive, Live
<1>3. EndRule(s)' /\ SeesLive(s)'
  BY <1>1, <1>2, UnwrittenSeesLive DEF TxInv
<1>4. TodoRule(s)'
  BY <1>1 DEF TodoRule
<1> QED BY <1>1, <1>3, <1>4, DrainStepKeeps DEF DrainRule

LEMMA UnwrittenStatementsDrain ==
    ASSUME TxInv, TxInv', DrainedInv, NEW s \in Session,
           \/ LockGate(s) \/ NothingToFinish(s) \/ Abort(s) \/ BeginClaim(s)
           \/ \E j \in Job : BeginAdmit(s, j) \/ BeginCancel(s, j) \/ LockJob(s, j)
           \/ \E i \in Item : BeginPublish(s, i) \/ UpsertEntry(s, i)
    PROVE  DrainedInv'
<1>1. /\ tx[s] \in Transaction /\ KindRule(s) /\ TodoRule(s)
      /\ tx[s].kind \in Kind
  BY TxTypes DEF TxInv, TypeOK, SessionInv, DrainedInv, DrainRule
<1>2. ASSUME NEW kind, NEW to, NEW jobs, NEW items, Begin(s, kind, to, jobs, items)
      PROVE  DrainedInv'
  <2> DEFINE t == [Idle EXCEPT !.kind = kind, !.pc = to, !.job = jobs, !.item = items]
  <2>1. tx' = [tx EXCEPT ![s] = t] /\ UNCHANGED <<job, seq, item, told>>
    BY <1>2 DEF Begin, Step
  <2>2. t.jobs = <<>> /\ t.items = <<>> /\ t.todo = {}
    BY DEF Idle
  <2> QED BY <2>1, <2>2, EmptyDrains
<1>3. CASE Abort(s)
  <2>1. Idle.jobs = <<>> /\ Idle.items = <<>> /\ Idle.todo = {}
    BY DEF Idle
  <2> QED BY <1>3, <2>1, EmptyDrains DEF Abort
<1>4. CASE LockGate(s)
  <2> DEFINE t == [tx[s] EXCEPT !.gate = TRUE, !.pc = AfterGate(tx[s].kind)]
  <2>1. /\ tx' = [tx EXCEPT ![s] = t] /\ UNCHANGED <<job, seq, item, told>>
    BY <1>4 DEF LockGate, Step
  <2>2. /\ t.jobs = tx[s].jobs /\ t.items = tx[s].items /\ t.todo = tx[s].todo
        /\ t.kind = tx[s].kind /\ t.pc = AfterGate(tx[s].kind)
    BY <1>1 DEF Transaction
  <2>3. t.pc \notin {"sweep", "entry", "fenced", "claim", "commit"}
    BY <2>2 DEF AfterGate
  <2> QED BY <1>1, <2>1, <2>2, <2>3, UnwrittenDrains DEF TodoRule
<1>5. CASE NothingToFinish(s)
  <2> DEFINE t == [tx[s] EXCEPT !.pc = IF tx[s].kind = "claim" THEN "claim" ELSE "commit"]
  <2>1. /\ tx' = [tx EXCEPT ![s] = t] /\ UNCHANGED <<job, seq, item, told>>
        /\ tx[s].todo = {}
    BY <1>5 DEF NothingToFinish, Step, Goto
  <2>2. t.jobs = tx[s].jobs /\ t.items = tx[s].items /\ t.todo = tx[s].todo
    BY <1>1 DEF Transaction
  <2> QED BY <2>1, <2>2, UnwrittenDrains
<1>6. ASSUME NEW j \in Job, LockJob(s, j) PROVE DrainedInv'
  <2> DEFINE t == [tx[s] EXCEPT !.update = {j},
                     !.pc = IF job[j] \in Cancellable THEN "items" ELSE "commit"]
  <2>1. /\ tx' = [tx EXCEPT ![s] = t] /\ UNCHANGED <<job, seq, item, told>>
        /\ tx[s].pc = "lock"
    BY <1>6 DEF LockJob, Step
  <2>2. tx[s].todo = {}
    BY <1>1, <2>1 DEF KindRule, TodoRule
  <2>3. t.jobs = tx[s].jobs /\ t.items = tx[s].items /\ t.todo = tx[s].todo
    BY <1>1 DEF Transaction
  <2> QED BY <2>1, <2>2, <2>3, UnwrittenDrains
<1>7. ASSUME NEW i \in Item, UpsertEntry(s, i) PROVE DrainedInv'
  <2> DEFINE t == [tx[s] EXCEPT !.share = {i[1]}, !.pc = "fenced"]
  <2>1. /\ tx' = [tx EXCEPT ![s] = t] /\ UNCHANGED <<job, seq, item, told>>
        /\ tx[s].pc = "entry"
    BY <1>7 DEF UpsertEntry, Step
  <2>2. tx[s].todo = {}
    BY <1>1, <2>1 DEF TodoRule
  <2>3. t.jobs = tx[s].jobs /\ t.items = tx[s].items /\ t.todo = tx[s].todo
    BY <1>1 DEF Transaction
  <2> QED BY <2>1, <2>2, <2>3, UnwrittenDrains
<1> QED BY <1>2, <1>3, <1>4, <1>5, <1>6, <1>7 DEF BeginClaim, BeginAdmit, BeginCancel, BeginPublish

(* A transaction that writes, from the fields it changes.                   *)
LEMMA WrittenDrains ==
    ASSUME TxInv, TxInv', DrainedInv, NEW s \in Session, UNCHANGED <<job, seq, item, told>>,
           NEW t, tx' = [tx EXCEPT ![s] = t],
           \/ t.kind \in {"admit", "cancel"}
           \/ t.pc \in {"sweep", "entry", "fenced", "claim", "commit"}
           => t.todo = {},
           \A i \in DOMAIN t.items :
               /\ t.items[i] = "cancelled" => i[1] \in DOMAIN t.jobs
               /\ t.items[i] \in EndState => job[i[1]] \notin {"absent", "queued"},
           \A j \in Job :
               (IF j \in DOMAIN t.jobs THEN t.jobs[j] ELSE job[j]) \in Cancellable =>
                 \/ j \in t.todo
                 \/ \E k \in Key : (IF <<j, k>> \in DOMAIN t.items
                                      THEN t.items[<<j, k>>] ELSE item[<<j, k>>]) \in LiveItemState
    PROVE  DrainedInv'
<1>1. tx'[s] = t /\ \A o \in Session : o # s => tx'[o] = tx[o]
  BY DEF TxInv, TypeOK
<1>2. Rows(s)' = DOMAIN t.jobs /\ ItemRows(s)' = DOMAIN t.items
  BY <1>1 DEF Rows, ItemRows
<1>3. /\ \A j \in Job : Jobs(s)'[j] = IF j \in DOMAIN t.jobs THEN t.jobs[j] ELSE job[j]
      /\ \A i \in Item : Items(s)'[i] = IF i \in DOMAIN t.items THEN t.items[i] ELSE item[i]
  BY <1>1, <1>2, SeenNext DEF TxInv
<1>4. TodoRule(s)'
  BY <1>1 DEF TodoRule
<1>5. EndRule(s)'
  BY <1>1, <1>2 DEF EndRule
<1>6. SeesLive(s)'
  <2> SUFFICES ASSUME NEW j \in Job, Jobs(s)'[j] \in Cancellable, j \notin t.todo
               PROVE  Live(j, Items(s))'
    BY <1>1 DEF SeesLive
  <2>1. PICK k \in Key : (IF <<j, k>> \in DOMAIN t.items
                            THEN t.items[<<j, k>>] ELSE item[<<j, k>>]) \in LiveItemState
    BY <1>3
  <2>2. <<j, k>> \in Item
    BY DEF Item
  <2> QED BY <1>3, <2>1, <2>2 DEF Live
<1> QED BY <1>1, <1>4, <1>5, <1>6, DrainStepKeeps DEF DrainRule

(* The submission that is admitted has an item to work on.                  *)
LEMMA InsertDrains ==
    ASSUME Key # {}, TxInv, TxInv', DrainedInv, NEW s \in Session, NEW j \in Job, Insert(s, j)
    PROVE  DrainedInv'
<1> DEFINE state == IF ActiveCount(job) < MaxActive THEN "running" ELSE "queued"
           jobs  == [o \in {j} |-> state]
           items == [i \in {j} \X Key |-> "pending"]
           t     == [tx[s] EXCEPT !.jobs = jobs, !.items = items, !.pc = "commit"]
<1>1. /\ tx' = [tx EXCEPT ![s] = t] /\ UNCHANGED <<job, seq, item, told>>
      /\ tx[s].pc = "insert"
  BY DEF Insert, Step
<1>2. tx[s] \in Transaction /\ tx[s].kind = "admit" /\ tx[s].todo = {}
  BY <1>1 DEF TxInv, TypeOK, SessionInv, KindRule, DrainedInv, DrainRule, TodoRule
<1>3. t.jobs = jobs /\ t.items = items /\ t.todo = {}
  BY <1>2 DEF Transaction
<1>4. DOMAIN jobs = {j} /\ DOMAIN items = {j} \X Key
  OBVIOUS
<1>5. \A i \in DOMAIN items : items[i] = "pending"
  OBVIOUS
<1> HIDE DEF jobs, items, t
<1>6. ASSUME NEW x \in Job, (IF x \in DOMAIN t.jobs THEN t.jobs[x] ELSE job[x]) \in Cancellable
      PROVE  \E k \in Key : (IF <<x, k>> \in DOMAIN t.items
                               THEN t.items[<<x, k>>] ELSE item[<<x, k>>]) \in LiveItemState
  <2>1. CASE x = j
    <3>1. PICK k \in Key : TRUE
      OBVIOUS
    <3>2. <<x, k>> \in DOMAIN items
      BY <1>4, <2>1
    <3> QED BY <1>3, <1>5, <3>2 DEF LiveItemState
  <2>2. CASE x # j
    <3>1. PICK k \in Key : item[<<x, k>>] \in LiveItemState
      BY <1>3, <1>4, <1>6, <2>2 DEF DrainedInv, ActiveLive, Live
    <3>2. <<x, k>> \notin DOMAIN items
      BY <1>4, <2>2
    <3> QED BY <1>3, <3>1, <3>2
  <2> QED BY <2>1, <2>2
<1>7. \A i \in DOMAIN t.items : t.items[i] = "pending"
  BY <1>3, <1>5
<1> QED BY <1>1, <1>3, <1>6, <1>7, WrittenDrains DEF EndState

(* The job is cancelled with its items, and the others keep theirs.         *)
LEMMA CancelItemsDrains ==
    ASSUME TxInv, TxInv', DrainedInv, NEW s \in Session, NEW j \in Job, CancelItems(s, j)
    PROVE  DrainedInv'
<1> DEFINE jobs  == [o \in {j} |-> "cancelled"]
           live  == {i \in {j} \X Key : item[i] \in CancelledItemState}
           items == [i \in live |-> "cancelled"]
           t     == [tx[s] EXCEPT !.jobs = jobs, !.items = items, !.pc = "promote"]
<1>1. /\ tx' = [tx EXCEPT ![s] = t] /\ UNCHANGED <<job, seq, item, told>>
      /\ tx[s].pc = "items"
  BY DEF CancelItems, Step
<1>2. tx[s] \in Transaction /\ tx[s].kind = "cancel" /\ tx[s].todo = {}
  BY <1>1 DEF TxInv, TypeOK, SessionInv, KindRule, DrainedInv, DrainRule, TodoRule
<1>3. t.jobs = jobs /\ t.items = items /\ t.todo = {}
  BY <1>2 DEF Transaction
<1>4. DOMAIN jobs = {j} /\ jobs[j] = "cancelled" /\ DOMAIN items \subseteq {j} \X Key
  OBVIOUS
<1>5. \A i \in DOMAIN items : items[i] = "cancelled" /\ i[1] = j
  OBVIOUS
<1> HIDE DEF jobs, items, t
<1>6. ASSUME NEW x \in Job, (IF x \in DOMAIN t.jobs THEN t.jobs[x] ELSE job[x]) \in Cancellable
      PROVE  \E k \in Key : (IF <<x, k>> \in DOMAIN t.items
                               THEN t.items[<<x, k>>] ELSE item[<<x, k>>]) \in LiveItemState
  <2>1. x # j
    BY <1>3, <1>4, <1>6 DEF Cancellable
  <2>2. PICK k \in Key : item[<<x, k>>] \in LiveItemState
    BY <1>3, <1>4, <1>6, <2>1 DEF DrainedInv, ActiveLive, Live
  <2>3. <<x, k>> \notin DOMAIN items
    BY <1>4, <2>1
  <2> QED BY <1>3, <2>2, <2>3
<1>7. \A i \in DOMAIN t.items : t.items[i] = "cancelled" /\ i[1] \in DOMAIN t.jobs
  BY <1>3, <1>4, <1>5
<1> QED BY <1>1, <1>3, <1>6, <1>7, WrittenDrains DEF EndState

(* A sweep looks at the jobs of the items it swept.                         *)
LEMMA SweepDrains ==
    ASSUME TxInv, TxInv', DrainedInv, NEW s \in Session, Sweep(s)
    PROVE  DrainedInv'
<1>1. /\ tx[s].pc = "sweep" /\ UNCHANGED <<job, seq, item, told>>
  BY DEF Sweep, Step
<1>2. PICK E \in SUBSET {i \in Item : item[i] = "running" /\ job[i[1]] = "running"
                                       /\ ItemFree(s, i)} :
      \E swept \in [E -> {"pending", "failed"}] :
        tx' = [tx EXCEPT ![s] = [tx[s] EXCEPT
                 !.items = swept, !.todo = {i[1] : i \in E}, !.pc = "finish"]]
  BY DEF Sweep
<1>3. PICK swept \in [E -> {"pending", "failed"}] :
        tx' = [tx EXCEPT ![s] = [tx[s] EXCEPT
                 !.items = swept, !.todo = {i[1] : i \in E}, !.pc = "finish"]]
  BY <1>2
<1> DEFINE t == [tx[s] EXCEPT !.items = swept, !.todo = {i[1] : i \in E}, !.pc = "finish"]
<1>4. tx[s] \in Transaction /\ KindRule(s) /\ TodoRule(s) /\ Rows(s) = {}
  BY <1>1 DEF TxInv, TypeOK, SessionInv, GateRule, DrainedInv, DrainRule
<1>5. /\ t.jobs = tx[s].jobs /\ t.items = swept /\ t.todo = {i[1] : i \in E}
      /\ t.pc = "finish" /\ t.kind = tx[s].kind
  BY <1>4 DEF Transaction
<1>6. DOMAIN t.jobs = {} /\ DOMAIN t.items = E
  BY <1>4, <1>5 DEF Rows
<1>7. \A i \in E : swept[i] \in {"pending", "failed"} /\ job[i[1]] = "running"
  BY <1>2
<1>8. tx' = [tx EXCEPT ![s] = t]
  BY <1>3
<1> HIDE DEF t
<1>9. t.kind \notin {"admit", "cancel"}
  BY <1>1, <1>4, <1>5 DEF KindRule
<1>10. ASSUME NEW x \in Job, x \notin t.todo,
              (IF x \in DOMAIN t.jobs THEN t.jobs[x] ELSE job[x]) \in Cancellable
       PROVE  \E k \in Key : (IF <<x, k>> \in DOMAIN t.items
                                THEN t.items[<<x, k>>] ELSE item[<<x, k>>]) \in LiveItemState
  <2>1. PICK k \in Key : item[<<x, k>>] \in LiveItemState
    BY <1>6, <1>10 DEF DrainedInv, ActiveLive, Live
  <2>2. <<x, k>> \notin E
    <3>1. \A i \in E : i[1] \in t.todo
      BY <1>5
    <3> QED BY <1>10, <3>1
  <2> QED BY <1>6, <2>1, <2>2
<1>11. \A i \in DOMAIN t.items : /\ t.items[i] # "cancelled"
                                 /\ job[i[1]] \notin {"absent", "queued"}
  BY <1>5, <1>6, <1>7
<1> QED BY <1>1, <1>5, <1>8, <1>9, <1>10, <1>11, WrittenDrains

(* A claim takes live items, which stay live.                               *)
LEMMA ClaimDrains ==
    ASSUME TxInv, TxInv', DrainedInv, NEW s \in Session, Claim(s)
    PROVE  DrainedInv'
<1>1. tx[s].pc = "claim" /\ UNCHANGED <<job, seq, item, told>>
  BY DEF Claim, Step
<1>2. PICK C \in SUBSET {i \in Item : Items(s)[i] = "pending" /\ Jobs(s)[i[1]] = "running"
                                       /\ ItemFree(s, i)} :
        tx' = [tx EXCEPT ![s] = [tx[s] EXCEPT
                 !.items = Over([i \in C |-> "running"], @), !.pc = "commit"]]
  BY DEF Claim
<1> DEFINE items == Over([i \in C |-> "running"], tx[s].items)
           t     == [tx[s] EXCEPT !.items = items, !.pc = "commit"]
<1>3. /\ tx[s] \in Transaction /\ EndRule(s) /\ SeesLive(s) /\ tx[s].todo = {} /\ TypeOK
  BY <1>1 DEF TxInv, TypeOK, DrainedInv, DrainRule, TodoRule
<1>4. /\ t.jobs = tx[s].jobs /\ t.items = items /\ t.todo = {}
  BY <1>3 DEF Transaction
<1>5. /\ DOMAIN items = C \cup ItemRows(s)
      /\ \A i \in DOMAIN items : items[i] = IF i \in C THEN "running" ELSE tx[s].items[i]
  BY DEF Over, ItemRows
<1>6. tx' = [tx EXCEPT ![s] = t]
  BY <1>2
<1>7. /\ \A j \in Job : Jobs(s)[j] = IF j \in DOMAIN tx[s].jobs THEN tx[s].jobs[j] ELSE job[j]
      /\ \A i \in Item : Items(s)[i] = IF i \in ItemRows(s) THEN tx[s].items[i] ELSE item[i]
  BY <1>3, Seen DEF Rows
<1> HIDE DEF items, t
<1>8. ASSUME NEW x \in Job, (IF x \in DOMAIN t.jobs THEN t.jobs[x] ELSE job[x]) \in Cancellable
      PROVE  \E k \in Key : (IF <<x, k>> \in DOMAIN t.items
                               THEN t.items[<<x, k>>] ELSE item[<<x, k>>]) \in LiveItemState
  <2>1. PICK k \in Key : Items(s)[<<x, k>>] \in LiveItemState
    BY <1>3, <1>4, <1>7, <1>8 DEF SeesLive, Live
  <2>2. <<x, k>> \in Item
    BY DEF Item
  <2> QED BY <1>4, <1>5, <1>7, <2>1, <2>2 DEF LiveItemState
<1>9. \A i \in DOMAIN t.items :
        /\ t.items[i] = "cancelled" => i[1] \in DOMAIN t.jobs
        /\ t.items[i] \in EndState => job[i[1]] \notin {"absent", "queued"}
  BY <1>3, <1>4, <1>5 DEF EndRule, EndState, Rows
<1> QED BY <1>1, <1>4, <1>6, <1>8, <1>9, WrittenDrains

(* A publish looks at the job of the item it published.                     *)
LEMMA PublishFencedDrains ==
    ASSUME TxInv, TxInv', DrainedInv, NEW s \in Session, NEW i \in Item, PublishFenced(s, i)
    PROVE  DrainedInv'
<1>1. tx[s].pc = "fenced" /\ UNCHANGED <<job, seq, item, told>>
  BY DEF PublishFenced, Step
<1>2. /\ tx[s] \in Transaction /\ KindRule(s) /\ tx[s].todo = {} /\ Rows(s) = {}
  BY <1>1 DEF TxInv, TypeOK, SessionInv, GateRule, DrainedInv, DrainRule, TodoRule
<1>3. CASE ~(item[i] = "running" /\ job[i[1]] = "running")
  <2> DEFINE t == [tx[s] EXCEPT !.pc = "commit"]
  <2>1. tx' = [tx EXCEPT ![s] = t]
    BY <1>3 DEF PublishFenced, Goto
  <2>2. t.jobs = tx[s].jobs /\ t.items = tx[s].items /\ t.todo = tx[s].todo
    BY <1>2 DEF Transaction
  <2> QED BY <1>1, <1>2, <2>1, <2>2, UnwrittenDrains
<1>4. CASE item[i] = "running" /\ job[i[1]] = "running"
  <2> DEFINE items == [x \in {i} |-> "published"]
             t     == [tx[s] EXCEPT !.items = items, !.todo = {i[1]}, !.pc = "finish"]
  <2>1. tx' = [tx EXCEPT ![s] = t]
    BY <1>4 DEF PublishFenced
  <2>2. /\ t.jobs = tx[s].jobs /\ t.items = items /\ t.todo = {i[1]}
        /\ t.kind = tx[s].kind /\ t.pc = "finish"
    BY <1>2 DEF Transaction
  <2>3. DOMAIN items = {i} /\ items[i] = "published" /\ DOMAIN tx[s].jobs = {}
    BY <1>2 DEF Rows
  <2> HIDE DEF items, t
  <2>4. t.kind \notin {"admit", "cancel"} /\ t.pc = "finish"
    BY <1>1, <1>2, <2>2 DEF KindRule
  <2>5. ASSUME NEW x \in Job, x \notin t.todo,
               (IF x \in DOMAIN t.jobs THEN t.jobs[x] ELSE job[x]) \in Cancellable
        PROVE  \E k \in Key : (IF <<x, k>> \in DOMAIN t.items
                                 THEN t.items[<<x, k>>] ELSE item[<<x, k>>]) \in LiveItemState
    <3>1. PICK k \in Key : item[<<x, k>>] \in LiveItemState
      BY <2>2, <2>3, <2>5 DEF DrainedInv, ActiveLive, Live
    <3>2. <<x, k>> # i
      BY <2>2, <2>5
    <3> QED BY <2>2, <2>3, <3>1, <3>2
  <2>6. \A x \in DOMAIN t.items :
          /\ t.items[x] = "cancelled" => x[1] \in DOMAIN t.jobs
          /\ t.items[x] \in EndState => job[x[1]] \notin {"absent", "queued"}
    BY <1>4, <2>2, <2>3
  <2> QED BY <1>1, <2>1, <2>4, <2>5, <2>6, WrittenDrains
<1> QED BY <1>3, <1>4

(* Who looks at a job that is not drained sees a live item of it.           *)
LEMMA FinishIfDrainedDrains ==
    ASSUME TxInv, TxInv', DrainedInv, NEW s \in Session, NEW j \in Job, FinishIfDrained(s, j)
    PROVE  DrainedInv'
<1>1. /\ tx[s].pc = "finish" /\ j \in tx[s].todo /\ UNCHANGED <<job, seq, item, told>>
  BY DEF FinishIfDrained, Step
<1>2. /\ tx[s] \in Transaction /\ tx[s].kind \notin {"admit", "cancel"} /\ TypeOK
      /\ EndRule(s) /\ SeesLive(s) /\ TargetRule(s) /\ RowRule(s)
  BY <1>1 DEF TxInv, TypeOK, SessionInv, KindRule, DrainedInv, DrainRule
<1>3. /\ \A x \in Job : Jobs(s)[x] = IF x \in DOMAIN tx[s].jobs THEN tx[s].jobs[x] ELSE job[x]
      /\ \A i \in Item : Items(s)[i] = IF i \in DOMAIN tx[s].items THEN tx[s].items[i] ELSE item[i]
  BY <1>2, Seen DEF Rows, ItemRows
<1>4. ASSUME NEW x \in Job, Live(x, Items(s))
      PROVE  \E k \in Key : (IF <<x, k>> \in DOMAIN tx[s].items
                               THEN tx[s].items[<<x, k>>] ELSE item[<<x, k>>]) \in LiveItemState
  BY <1>3, <1>4 DEF Live, Item
<1>5. CASE ~Drained(s, j) /\ tx' = [tx EXCEPT ![s] = [tx[s] EXCEPT !.todo = @ \ {j}]]
  <2> DEFINE t == [tx[s] EXCEPT !.todo = @ \ {j}]
  <2>1. /\ t.jobs = tx[s].jobs /\ t.items = tx[s].items /\ t.todo = tx[s].todo \ {j}
        /\ t.kind = tx[s].kind /\ t.pc = "finish"
    BY <1>1, <1>2 DEF Transaction
  <2>2. tx' = [tx EXCEPT ![s] = t]
    BY <1>5
  <2> HIDE DEF t
  <2>3. Jobs(s)[j] # "queued"
    BY <1>1, <1>2, <1>3 DEF TargetRule, RowRule, Rows
  <2>4. Jobs(s)[j] \in Cancellable => Live(j, Items(s))
    BY <1>5, <2>3 DEF Drained, Cancellable
  <2>5. ASSUME NEW x \in Job, x \notin t.todo,
               (IF x \in DOMAIN t.jobs THEN t.jobs[x] ELSE job[x]) \in Cancellable
        PROVE  Live(x, Items(s))
    <3>1. Jobs(s)[x] \in Cancellable
      BY <1>3, <2>1, <2>5
    <3> QED BY <1>2, <2>1, <2>4, <2>5, <3>1 DEF SeesLive
  <2>6. \A i \in DOMAIN t.items :
          /\ t.items[i] = "cancelled" => i[1] \in DOMAIN t.jobs
          /\ t.items[i] \in EndState => job[i[1]] \notin {"absent", "queued"}
    BY <1>2, <2>1 DEF EndRule, Rows, ItemRows
  <2>7. ASSUME NEW x \in Job, x \notin t.todo,
               (IF x \in DOMAIN t.jobs THEN t.jobs[x] ELSE job[x]) \in Cancellable
        PROVE  \E k \in Key : (IF <<x, k>> \in DOMAIN t.items
                                 THEN t.items[<<x, k>>] ELSE item[<<x, k>>]) \in LiveItemState
    BY <1>4, <2>1, <2>5, <2>7
  <2> QED BY <1>1, <1>2, <2>1, <2>2, <2>6, <2>7, WrittenDrains
<1>6. CASE Drained(s, j) /\ tx' = [tx EXCEPT ![s] = [tx[s] EXCEPT
                 !.todo = @ \ {j},
                 !.jobs = Over([o \in {j} |-> Verdict(j, Items(s))], @),
                 !.pc = AfterFinish]]
  <2> DEFINE jobs == Over([o \in {j} |-> Verdict(j, Items(s))], tx[s].jobs)
             t    == [tx[s] EXCEPT !.todo = @ \ {j}, !.jobs = jobs, !.pc = AfterFinish]
  <2>1. /\ t.jobs = jobs /\ t.items = tx[s].items /\ t.todo = tx[s].todo \ {j}
        /\ t.kind = tx[s].kind /\ t.pc = AfterFinish
    BY <1>2 DEF Transaction
  <2>2. tx' = [tx EXCEPT ![s] = t]
    BY <1>6
  <2>3. /\ DOMAIN jobs = {j} \cup DOMAIN tx[s].jobs
        /\ \A x \in DOMAIN jobs : jobs[x] = IF x = j THEN Verdict(j, Items(s)) ELSE tx[s].jobs[x]
    BY DEF Over
  <2> HIDE DEF t, jobs
  <2>4. ASSUME NEW x \in Job, x \notin t.todo,
               (IF x \in DOMAIN t.jobs THEN t.jobs[x] ELSE job[x]) \in Cancellable
        PROVE  Live(x, Items(s))
    <3>1. x # j
      BY <2>1, <2>3, <2>4 DEF Verdict, Cancellable
    <3>2. Jobs(s)[x] \in Cancellable
      BY <1>3, <2>1, <2>3, <2>4, <3>1
    <3> QED BY <1>2, <2>1, <2>4, <3>1, <3>2 DEF SeesLive
  <2>5. \A i \in DOMAIN t.items :
          /\ t.items[i] = "cancelled" => i[1] \in DOMAIN t.jobs
          /\ t.items[i] \in EndState => job[i[1]] \notin {"absent", "queued"}
    BY <1>2, <2>1, <2>3 DEF EndRule, Rows, ItemRows
  <2>6. ASSUME NEW x \in Job, x \notin t.todo,
               (IF x \in DOMAIN t.jobs THEN t.jobs[x] ELSE job[x]) \in Cancellable
        PROVE  \E k \in Key : (IF <<x, k>> \in DOMAIN t.items
                                 THEN t.items[<<x, k>>] ELSE item[<<x, k>>]) \in LiveItemState
    BY <1>4, <2>1, <2>4, <2>6
  <2>7. t.kind \notin {"admit", "cancel"} /\ t.pc = "gate"
    BY <1>2, <2>1 DEF AfterFinish
  <2> QED BY <1>1, <2>2, <2>5, <2>6, <2>7, WrittenDrains
<1> QED BY <1>5, <1>6 DEF FinishIfDrained

(* A job that starts has waited with its items.                             *)
LEMMA PromoteDrains ==
    ASSUME TxInv, TxInv', DrainedInv, NEW s \in Session, Promote(s)
    PROVE  DrainedInv'
<1> DEFINE to == IF tx[s].kind = "cancel" THEN "commit" ELSE "finish"
<1>1. tx[s].pc = "promote" /\ UNCHANGED <<job, seq, item, told>>
  BY DEF Promote, Step
<1>2. PICK P \in SUBSET {j \in Job : Jobs(s)[j] = "queued"} :
        tx' = [tx EXCEPT ![s] = [tx[s] EXCEPT
                   !.jobs = Over([j \in P |-> "running"], @), !.pc = to]]
  BY DEF Promote
<1> DEFINE jobs == Over([j \in P |-> "running"], tx[s].jobs)
           t    == [tx[s] EXCEPT !.jobs = jobs, !.pc = to]
<1>3. /\ tx[s] \in Transaction /\ tx[s].kind # "admit" /\ TypeOK
      /\ TodoRule(s) /\ EndRule(s) /\ SeesLive(s)
  BY <1>1 DEF TxInv, TypeOK, SessionInv, KindRule, DrainedInv, DrainRule
<1>4. /\ t.jobs = jobs /\ t.items = tx[s].items /\ t.todo = tx[s].todo
      /\ t.kind = tx[s].kind /\ t.pc = to
  BY <1>3 DEF Transaction
<1>5. tx' = [tx EXCEPT ![s] = t]
  BY <1>2
<1>6. /\ DOMAIN jobs = P \cup DOMAIN tx[s].jobs
      /\ \A x \in DOMAIN jobs : jobs[x] = IF x \in P THEN "running" ELSE tx[s].jobs[x]
  BY DEF Over
<1> HIDE DEF t, jobs
<1>7. /\ \A x \in Job : Jobs(s)[x] = IF x \in DOMAIN tx[s].jobs THEN tx[s].jobs[x] ELSE job[x]
      /\ \A i \in Item : Items(s)[i] = IF i \in DOMAIN tx[s].items THEN tx[s].items[i] ELSE item[i]
  BY <1>3, Seen DEF Rows, ItemRows
<1>8. ASSUME NEW x \in Job, x \notin t.todo,
             (IF x \in DOMAIN t.jobs THEN t.jobs[x] ELSE job[x]) \in Cancellable
      PROVE  \E k \in Key : (IF <<x, k>> \in DOMAIN t.items
                               THEN t.items[<<x, k>>] ELSE item[<<x, k>>]) \in LiveItemState
  <2>1. Jobs(s)[x] \in Cancellable
    BY <1>2, <1>4, <1>6, <1>7, <1>8 DEF Cancellable
  <2>2. PICK k \in Key : Items(s)[<<x, k>>] \in LiveItemState
    BY <1>3, <1>4, <1>8, <2>1 DEF SeesLive, Live
  <2>3. <<x, k>> \in Item
    BY DEF Item
  <2> QED BY <1>4, <1>7, <2>2, <2>3
<1>9. \A i \in DOMAIN t.items :
        /\ t.items[i] = "cancelled" => i[1] \in DOMAIN t.jobs
        /\ t.items[i] \in EndState => job[i[1]] \notin {"absent", "queued"}
  BY <1>3, <1>4, <1>6 DEF EndRule, Rows, ItemRows
<1>10. t.kind \in {"admit", "cancel"} \/ t.pc \in {"sweep", "entry", "fenced", "claim", "commit"}
       => t.todo = {}
  BY <1>3, <1>4 DEF TodoRule
<1> QED BY <1>1, <1>5, <1>8, <1>9, <1>10, WrittenDrains

(* A commit takes the last live item of no job that another transaction     *)
(* still believes to be alive: that one would have ended an item as well.   *)
LEMMA CommitDrains ==
    ASSUME TxInv, TxInv', DrainedInv, OneEnder, NEW s \in Session, Commit(s)
    PROVE  DrainedInv'
<1>1. /\ TypeOK /\ TypeOK' /\ RowRule(s) /\ tx[s].todo = {}
      /\ EndRule(s) /\ SeesLive(s)
  BY DEF Commit, TxInv, SessionInv, DrainedInv, DrainRule, TodoRule
<1>2. /\ tx'[s] = Idle /\ \A o \in Session : o # s => tx'[o] = tx[o]
      /\ job' = Jobs(s) /\ item' = Items(s)
      /\ \A j \in Job : job'[j] = IF j \in Rows(s) THEN tx[s].jobs[j] ELSE job[j]
      /\ \A i \in Item : item'[i] = IF i \in ItemRows(s) THEN tx[s].items[i] ELSE item[i]
  BY CommitWrites DEF Commit
<1>3. \A j \in Job : job'[j] \in Cancellable => \E k \in Key : item'[<<j, k>>] \in LiveItemState
  BY <1>1, <1>2 DEF SeesLive, Live
<1>4. ActiveLive'
  BY <1>3 DEF ActiveLive, Live
<1>5. DrainRule(s)'
  <2>1. tx'[s].jobs = <<>> /\ tx'[s].items = <<>> /\ tx'[s].todo = {}
    BY <1>2 DEF Idle
  <2>2. EndRule(s)' /\ SeesLive(s)'
    BY <1>1, <1>4, <2>1, UnwrittenSeesLive
  <2> QED BY <2>1, <2>2 DEF DrainRule, TodoRule
<1>6. ASSUME NEW o \in Session, o # s PROVE DrainRule(o)'
  <2>1. /\ tx'[o] = tx[o] /\ Rows(o)' = Rows(o) /\ ItemRows(o)' = ItemRows(o)
        /\ Apart(s, o) /\ RowRule(o) /\ ItemRule(s)
        /\ TodoRule(o) /\ EndRule(o) /\ SeesLive(o)
    BY <1>2, <1>6 DEF TxInv, SessionInv, DrainedInv, DrainRule, Rows, ItemRows
  <2>2. TodoRule(o)'
    BY <2>1 DEF TodoRule
  <2>3. EndRule(o)'
    <3>1. \A i \in ItemRows(o) : i[1] \in Job
      BY <1>1, TxTypes DEF Item
    <3> QED BY <2>1, <3>1, CommitKeepsRows DEF EndRule
  <2>4. SeesLive(o)'
    <3> SUFFICES ASSUME NEW j \in Job, Jobs(o)'[j] \in Cancellable, j \notin tx[o].todo
                 PROVE  \E k \in Key : Items(o)'[<<j, k>>] \in LiveItemState
      BY <2>1 DEF SeesLive, Live
    <3>1. /\ Jobs(o)'[j] = IF j \in Rows(o) THEN tx[o].jobs[j] ELSE job'[j]
          /\ Jobs(o)[j] = IF j \in Rows(o) THEN tx[o].jobs[j] ELSE job[j]
      BY <1>1, <2>1, Seen, SeenNext
    <3>2. \A k \in Key :
            LET i == <<j, k>>
            IN /\ Items(o)'[i] = IF i \in ItemRows(o) THEN tx[o].items[i] ELSE item'[i]
               /\ Items(o)[i] = IF i \in ItemRows(o) THEN tx[o].items[i] ELSE item[i]
               /\ item'[i] = IF i \in ItemRows(s) THEN tx[s].items[i] ELSE item[i]
               /\ i \notin ItemRows(s) \cap ItemRows(o)
      <4>1. \A k \in Key : <<j, k>> \in Item
        BY DEF Item
      <4> QED BY <1>1, <1>2, <2>1, <4>1, Seen, SeenNext DEF Apart
    (* An item that one of the two wrote is still live, or ended.           *)
    <3>3. \A i \in ItemRows(s) : \/ tx[s].items[i] \in LiveItemState
                                 \/ tx[s].items[i] = "cancelled" /\ i[1] \in Rows(s)
                                 \/ tx[s].items[i] \in EndState /\ job[i[1]] \notin {"absent", "queued"}
      BY <1>1, TxTypes DEF EndRule, EndState, ItemState
    <3>4. \A i \in ItemRows(o) : \/ tx[o].items[i] \in LiveItemState
                                 \/ tx[o].items[i] = "cancelled" /\ i[1] \in Rows(o)
                                 \/ tx[o].items[i] \in EndState /\ job[i[1]] \notin {"absent", "queued"}
      BY <1>1, <2>1, TxTypes DEF EndRule, EndState, ItemState
    <3>5. CASE j \in Rows(o)
      <4>1. PICK k \in Key : Items(o)[<<j, k>>] \in LiveItemState
        BY <2>1, <3>1, <3>5 DEF SeesLive, Live
      <4>2. j \notin Rows(s) /\ job[j] \in {"absent", "queued"}
        <5>1. j \notin Rows(s)
          BY <2>1, <3>5 DEF Apart
        <5>2. tx[o].jobs[j] \in Cancellable
          BY <3>1, <3>5
        <5> QED BY <2>1, <3>5, <5>1, <5>2 DEF RowRule, Cancellable
      <4>3. <<j, k>> \in ItemRows(s) => tx[s].items[<<j, k>>] \in LiveItemState
        BY <3>3, <4>2
      <4> QED BY <3>2, <4>1, <4>3
    <3>6. CASE j \notin Rows(o)
      <4>1. PICK k \in Key : item'[<<j, k>>] \in LiveItemState
        BY <1>3, <3>1, <3>6
      <4>2. CASE <<j, k>> \notin ItemRows(o) \/ tx[o].items[<<j, k>>] \in LiveItemState
        BY <3>2, <4>1, <4>2
      <4>3. CASE <<j, k>> \in ItemRows(o) /\ tx[o].items[<<j, k>>] \in EndState
        <5>1. job[j] \notin {"absent", "queued"} /\ Ends(o, j)
          BY <2>1, <4>3 DEF EndRule, Ends
        <5>2. j \notin Rows(s) /\ job[j] = "running"
          <6>1. job'[j] \in Cancellable
            BY <3>1, <3>6
          <6>2. j \notin Rows(s)
            BY <1>1, <1>2, <5>1, <6>1 DEF RowRule, Cancellable
          <6> QED BY <1>2, <5>1, <6>1, <6>2 DEF Cancellable
        <5>3. PICK l \in Key : Items(o)[<<j, l>>] \in LiveItemState
          BY <2>1, <3>1, <3>6, <5>2 DEF SeesLive, Live, Cancellable
        <5>4. <<j, l>> \in ItemRows(s) => tx[s].items[<<j, l>>] \in LiveItemState
          <6>1. ~Ends(s, j)
            BY <1>6, <5>1 DEF OneEnder
          <6> QED BY <3>3, <5>2, <6>1 DEF Ends
        <5> QED BY <3>2, <5>3, <5>4
      <4> QED BY <3>4, <3>6, <4>2, <4>3
    <3> QED BY <3>5, <3>6
  <2> QED BY <2>2, <2>3, <2>4 DEF DrainRule
<1> QED BY <1>4, <1>5, <1>6 DEF DrainedInv

LEMMA DrainedStep ==
    ASSUME Key # {}
    PROVE  TxInv /\ TxInv' /\ DrainedInv /\ OneEnder /\ [Next]_vars => DrainedInv'
<1> SUFFICES ASSUME TxInv, TxInv', DrainedInv, OneEnder, [Next]_vars PROVE DrainedInv'
  OBVIOUS
<1>1. ASSUME NEW s \in Session,
             \/ LockGate(s) \/ Promote(s) \/ NothingToFinish(s) \/ Commit(s) \/ Abort(s)
             \/ BeginClaim(s) \/ Sweep(s) \/ Claim(s)
      PROVE  DrainedInv'
  BY <1>1, UnwrittenStatementsDrain, PromoteDrains, CommitDrains, SweepDrains, ClaimDrains
<1>2. ASSUME NEW s \in Session, NEW j \in Job,
             \/ FinishIfDrained(s, j)
             \/ BeginAdmit(s, j) \/ Insert(s, j)
             \/ BeginCancel(s, j) \/ LockJob(s, j) \/ CancelItems(s, j)
      PROVE  DrainedInv'
  BY <1>2, UnwrittenStatementsDrain, FinishIfDrainedDrains, InsertDrains, CancelItemsDrains
<1>3. ASSUME NEW s \in Session, NEW i \in Item,
             BeginPublish(s, i) \/ UpsertEntry(s, i) \/ PublishFenced(s, i)
      PROVE  DrainedInv'
  BY <1>3, UnwrittenStatementsDrain, PublishFencedDrains
<1>4. CASE UNCHANGED vars
  <2>1. job' = job /\ item' = item /\ tx' = tx
    BY <1>4 DEF vars
  <2>2. ActiveLive'
    BY <2>1 DEF DrainedInv, ActiveLive, Live
  <2>3. ASSUME NEW s \in Session PROVE DrainRule(s)'
    <3>1. TodoRule(s) /\ EndRule(s) /\ SeesLive(s)
      BY DEF DrainedInv, DrainRule
    <3> QED BY <2>1, <3>1 DEF DrainRule, TodoRule, EndRule, SeesLive, Live, Rows, ItemRows,
            Jobs, Items
  <2> QED BY <2>2, <2>3 DEF DrainedInv
<1> QED BY <1>1, <1>2, <1>3, <1>4 DEF Next

(* Finding 1 needs two transactions that each end an item of one job before *)
(* either commits. Without such a pair _finish_if_drained_locked does what  *)
(* it is for: every drained job ends, whatever else overlaps - admissions,  *)
(* cancellations, claims and publishes of other jobs, aborts. Key # {}: a   *)
(* submission with nothing to fetch is inserted as completed (jobs.py:357). *)
THEOREM DrainedJobsEndAlone ==
    ASSUME Key # {}
    PROVE  Spec /\ []OneEnder => []DrainedJobsEnd
<1>1. Init => DrainedInv
  <2> SUFFICES ASSUME Init PROVE DrainedInv
    OBVIOUS
  <2>1. ActiveLive
    BY DEF Init, ActiveLive, Cancellable
  <2>2. ASSUME NEW s \in Session PROVE DrainRule(s)
    <3>1. tx[s].todo = {} /\ tx[s].jobs = <<>> /\ tx[s].items = <<>>
      BY DEF Init, Idle
    <3>2. Rows(s) = {} /\ ItemRows(s) = {}
      BY <3>1 DEF Rows, ItemRows
    <3>3. \A j \in Job : Jobs(s)[j] = "absent"
      BY <3>2, Seen, InitTxInv DEF TxInv, Init
    <3> QED BY <3>1, <3>2, <3>3 DEF DrainRule, TodoRule, EndRule, SeesLive, Cancellable
  <2> QED BY <2>1, <2>2 DEF DrainedInv
<1>2. TxInv /\ TxInv' /\ DrainedInv /\ OneEnder /\ [Next]_vars => DrainedInv'
  BY DrainedStep
<1>3. DrainedInv => DrainedJobsEnd
  BY DEF DrainedInv, ActiveLive, DrainedJobsEnd, Cancellable
<1> QED BY <1>1, <1>2, <1>3, Safety, PTL DEF Spec

=============================================================================
