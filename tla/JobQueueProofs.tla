--------------------------- MODULE JobQueueProofs ---------------------------
(***************************************************************************)
(* What holds of JobQueue for every number of jobs, pairs and workers and  *)
(* every limit.                                                            *)
(***************************************************************************)
EXTENDS JobQueue, FiniteSetTheorems, TLAPS

(* The columns CloseAndPromote writes keep their types, and the jobs it     *)
(* leaves alone keep their state.                                           *)
LEMMA CloseAndPromoteType ==
    ASSUME TypeOK,
           NEW ended \in SUBSET Job,
           NEW jobs \in [Job -> JobState \cup {"absent"}],
           \A j \in ended : jobs[j] \in TerminalState,
           NEW notice \in [Job -> Seq(Event)],
           CloseAndPromote(ended, jobs, notice)
    PROVE  /\ job' \in [Job -> JobState \cup {"absent"}]
           /\ log' \in [Job -> Seq(Event)]
           /\ outbox' \in [Job -> Seq(TerminalState)]
<1>1. PICK P \in SUBSET Job :
        /\ job' = [j \in Job |-> IF j \in P THEN "running" ELSE jobs[j]]
        /\ log' = [j \in Job |->
                     IF j \in ended THEN log[j] \o notice[j] \o <<jobs[j]>>
                     ELSE IF j \in P THEN Append(log[j], "running")
                     ELSE log[j]]
        /\ outbox' = [j \in Job |-> IF j \in ended THEN Append(outbox[j], jobs[j])
                                                   ELSE outbox[j]]
  BY DEF CloseAndPromote
<1>2. job' \in [Job -> JobState \cup {"absent"}]
  BY <1>1 DEF JobState, ActiveState
<1>3. outbox' \in [Job -> Seq(TerminalState)]
  <2>1. ASSUME NEW j \in Job, j \in ended PROVE Append(outbox[j], jobs[j]) \in Seq(TerminalState)
    BY <2>1 DEF TypeOK
  <2> QED BY <1>1, <2>1 DEF TypeOK
<1>4. log' \in [Job -> Seq(Event)]
  <2> SUFFICES ASSUME NEW j \in Job PROVE log'[j] \in Seq(Event)
    BY <1>1
  <2>1. log[j] \in Seq(Event) /\ notice[j] \in Seq(Event)
    BY DEF TypeOK
  <2>2. CASE j \in ended
    <3>1. jobs[j] \in Event
      BY <2>2 DEF Event, JobState
    <3>2. <<jobs[j]>> \in Seq(Event)
      BY <3>1
    <3>3. log'[j] = log[j] \o notice[j] \o <<jobs[j]>>
      BY <1>1, <2>2
    <3> QED BY <2>1, <3>2, <3>3
  <2>3. CASE j \notin ended /\ j \in P
    <3>1. log'[j] = Append(log[j], "running")
      BY <1>1, <2>3
    <3>2. "running" \in Event
      BY DEF Event, JobState, ActiveState
    <3> QED BY <2>1, <3>1, <3>2
  <2>4. CASE j \notin ended /\ j \notin P
    BY <1>1, <2>1, <2>4
  <2> QED BY <2>2, <2>3, <2>4
<1> QED BY <1>2, <1>3, <1>4

(* The verdicts of drained jobs are terminal states.                        *)
LEMMA FinishType ==
    ASSUME TypeOK, NEW done \in SUBSET Job, NEW items
    PROVE  /\ Finish(done, items) \in [Job -> JobState \cup {"absent"}]
           /\ \A j \in done : Finish(done, items)[j] \in TerminalState
BY DEF TypeOK, Finish, Verdict, JobState, TerminalState

(* Only jobs a transaction touched drain.                                   *)
LEMMA FinishingType ==
    ASSUME NEW touched \in SUBSET Job, NEW items
    PROVE  Finishing(touched, items) \in SUBSET Job
BY DEF Finishing

(* No job has a notice to log.                                              *)
LEMMA NoNoticeType == NoNotice \in [Job -> Seq(Event)]
BY DEF NoNotice

(* A sweep leaves item states and touches jobs.                             *)
LEMMA SweepType ==
    ASSUME TypeOK
    PROVE  /\ SweptItem \in [Item -> ItemState \cup {"absent"}]
           /\ {i[1] : i \in Expired} \in SUBSET Job
BY DEF TypeOK, SweptItem, Expired, Item, ItemState, LiveItemState

(* A publish leaves item states.                                            *)
LEMMA PublishedItemType ==
    ASSUME TypeOK, NEW c \in held
    PROVE  PublishedItem(c) \in [Item -> ItemState \cup {"absent"}]
BY DEF TypeOK, PublishedItem, ItemState

(* The empty tables are well typed.                                         *)
LEMMA InitType == Init => TypeOK
BY DEF Init, TypeOK, Lease, NoLease

(* Submit keeps the types.                                                  *)
LEMMA SubmitType ==
    ASSUME TypeOK, NEW j \in Job, NEW plan \in SUBSET Key, Submit(j, plan)
    PROVE  TypeOK'
BY DEF TypeOK, Submit, Request

(* Admit keeps the types.                                                   *)
LEMMA AdmitType ==
    ASSUME TypeOK, NEW r \in requests, Admit(r)
    PROVE  TypeOK'
<1>1. r.job \in Job
  BY DEF TypeOK, Request
<1>2. AdmittedState(r) \in JobState /\ AdmittedState(r) \in Event
  BY DEF AdmittedState, JobState, Event, ActiveState, TerminalState
<1>3. 1 + Cardinality(JobsIn(JobState, job)) \in Nat
  <2>1. IsFiniteSet(JobsIn(JobState, job))
    BY FiniteAssumption, FS_Subset DEF JobsIn
  <2> QED BY <2>1, FS_CardinalityType
<1>4. /\ requests' \in SUBSET Request
      /\ job' \in [Job -> JobState \cup {"absent"}]
      /\ seq' \in [Job -> Nat]
  BY <1>1, <1>2, <1>3 DEF TypeOK, Admit
<1>5. item' \in [Item -> ItemState \cup {"absent"}]
  BY DEF TypeOK, Admit, ItemState, LiveItemState
<1>6. log' \in [Job -> Seq(Event)]
  <2>1. log[r.job] \in Seq(Event)
    BY <1>1 DEF TypeOK
  <2>2. Append(log[r.job], AdmittedState(r)) \in Seq(Event)
    BY <1>2, <2>1
  <2>3. log' = [log EXCEPT ![r.job] = Append(@, AdmittedState(r))]
    BY DEF Admit
  <2> QED BY <2>2, <2>3 DEF TypeOK
<1>7. outbox' \in [Job -> Seq(TerminalState)]
  <2>1. outbox[r.job] \in Seq(TerminalState)
    BY <1>1 DEF TypeOK
  <2>2. CASE AdmittedState(r) = "completed"
    <3>1. AdmittedState(r) \in TerminalState
      BY <2>2 DEF TerminalState
    <3>2. Append(outbox[r.job], AdmittedState(r)) \in Seq(TerminalState)
      BY <2>1, <3>1
    <3>3. outbox' = [outbox EXCEPT ![r.job] = Append(@, AdmittedState(r))]
      BY <2>2 DEF Admit
    <3> QED BY <3>2, <3>3 DEF TypeOK
  <2>3. CASE AdmittedState(r) # "completed"
    BY <2>3 DEF TypeOK, Admit
  <2> QED BY <2>2, <2>3
<1> QED BY <1>4, <1>5, <1>6, <1>7 DEF TypeOK, Admit

(* Cancel keeps the types.                                                  *)
LEMMA CancelType ==
    ASSUME TypeOK, NEW j \in Job, Cancel(j)
    PROVE  TypeOK'
<1> DEFINE jobs == [job EXCEPT ![j] = "cancelled"]
           notice == [NoNotice EXCEPT ![j] =
                        IF job[j] = "running" THEN <<"cancellation_requested">> ELSE <<>>]
<1>1. jobs \in [Job -> JobState \cup {"absent"}]
  BY DEF TypeOK, JobState, TerminalState
<1>2. \A k \in {j} : jobs[k] \in TerminalState
  BY DEF TypeOK, TerminalState
<1>3. notice \in [Job -> Seq(Event)]
  <2>1. "cancellation_requested" \in Event
    BY DEF Event
  <2>2. <<"cancellation_requested">> \in Seq(Event)
    BY <2>1
  <2> QED BY <2>2, NoNoticeType
<1>4. CloseAndPromote({j}, jobs, notice)
  BY DEF Cancel, Cancellable
<1> HIDE DEF jobs, notice
<1>5. /\ job' \in [Job -> JobState \cup {"absent"}]
      /\ log' \in [Job -> Seq(Event)]
      /\ outbox' \in [Job -> Seq(TerminalState)]
  BY <1>1, <1>2, <1>3, <1>4, CloseAndPromoteType
<1>6. fence' \in [Job -> Nat] /\ item' \in [Item -> ItemState \cup {"absent"}]
  BY DEF TypeOK, Cancel, ItemState
<1> QED BY <1>5, <1>6 DEF TypeOK, Cancel

(* A lease that is given out, and one that is taken back.                   *)
LEMMA LeaseWritten ==
    /\ \A w \in Worker, f \in Nat : [owner |-> w, fence |-> f, expired |-> FALSE] \in Lease
    /\ \A l \in Lease : [l EXCEPT !.owner = Nobody, !.expired = FALSE] \in Lease
  BY DEF Lease

(* What ClaimMany takes was pending once the expired leases were swept.      *)
LEMMA ClaimManyTakes ==
    ASSUME NEW w \in Worker, NEW n \in 1..MaxBatch, NEW a \in Affinity, ClaimMany(w, n, a)
    PROVE  \E taken \in SUBSET Item :
             /\ \A i \in taken : SweptItem[i] = "pending"
             /\ item' = [i \in Item |-> IF i \in taken THEN "running" ELSE SweptItem[i]]
             /\ attempts' = [i \in Item |-> IF i \in taken THEN attempts[i] + 1 ELSE attempts[i]]
             /\ lease' = [i \in Item |->
                  IF i \in taken THEN [owner |-> w, fence |-> fence[i[1]], expired |-> FALSE]
                  ELSE IF i \in Expired THEN [lease[i] EXCEPT !.owner = Nobody, !.expired = FALSE]
                  ELSE lease[i]]
             /\ held' = held \cup
                  {[item |-> i, worker |-> w, fence |-> fence[i[1]],
                    attempt |-> attempts[i] + 1] : i \in taken}
<1> DEFINE matches == Claimable(SweptItem, job', Serves[w])
           kin == {i \in Claimable(SweptItem, job', Source) :
                     <<SourceOf[i[2]], VersionOf[i[1]]>> \in a}
<1>1. matches \subseteq Item /\ kin \subseteq Item
      /\ \A i \in matches \cup kin : SweptItem[i] = "pending"
  BY DEF Claimable
<1>2. PICK first \in SUBSET kin : \E rest \in SUBSET (matches \ first) :
         LET taken == first \cup rest IN
         /\ item' = [i \in Item |-> IF i \in taken THEN "running" ELSE SweptItem[i]]
         /\ attempts' = [i \in Item |-> IF i \in taken THEN attempts[i] + 1 ELSE attempts[i]]
         /\ lease' = [i \in Item |->
              IF i \in taken THEN [owner |-> w, fence |-> fence[i[1]], expired |-> FALSE]
              ELSE IF i \in Expired THEN [lease[i] EXCEPT !.owner = Nobody, !.expired = FALSE]
              ELSE lease[i]]
         /\ held' = held \cup
              {[item |-> i, worker |-> w, fence |-> fence[i[1]],
                attempt |-> attempts[i] + 1] : i \in taken}
  BY Zenon DEF ClaimMany
<1> HIDE DEF matches, kin
<1>3. PICK rest \in SUBSET (matches \ first) :
         LET taken == first \cup rest IN
         /\ item' = [i \in Item |-> IF i \in taken THEN "running" ELSE SweptItem[i]]
         /\ attempts' = [i \in Item |-> IF i \in taken THEN attempts[i] + 1 ELSE attempts[i]]
         /\ lease' = [i \in Item |->
              IF i \in taken THEN [owner |-> w, fence |-> fence[i[1]], expired |-> FALSE]
              ELSE IF i \in Expired THEN [lease[i] EXCEPT !.owner = Nobody, !.expired = FALSE]
              ELSE lease[i]]
         /\ held' = held \cup
              {[item |-> i, worker |-> w, fence |-> fence[i[1]],
                attempt |-> attempts[i] + 1] : i \in taken}
  BY <1>2
<1>4. first \cup rest \in SUBSET Item /\ \A i \in first \cup rest : SweptItem[i] = "pending"
  BY <1>1
<1> QED BY ONLY <1>3, <1>4

(* ClaimMany keeps the types.                                               *)
LEMMA ClaimManyType ==
    ASSUME TypeOK, NEW w \in Worker, NEW n \in 1..MaxBatch, NEW a \in Affinity,
           ClaimMany(w, n, a)
    PROVE  TypeOK'
<1> DEFINE done == Finishing({i[1] : i \in Expired}, SweptItem)
<1>1. done \in SUBSET Job
  BY SweepType, FinishingType
<1>2. CloseAndPromote(done, Finish(done, SweptItem), NoNotice)
  BY DEF ClaimMany
<1> HIDE DEF done
<1>3. /\ Finish(done, SweptItem) \in [Job -> JobState \cup {"absent"}]
      /\ \A j \in done : Finish(done, SweptItem)[j] \in TerminalState
  BY <1>1, FinishType
<1>4. /\ job' \in [Job -> JobState \cup {"absent"}]
      /\ log' \in [Job -> Seq(Event)]
      /\ outbox' \in [Job -> Seq(TerminalState)]
  BY <1>1, <1>2, <1>3, NoNoticeType, CloseAndPromoteType
<1>5. PICK taken \in SUBSET Item :
        /\ item' = [i \in Item |-> IF i \in taken THEN "running" ELSE SweptItem[i]]
        /\ attempts' = [i \in Item |-> IF i \in taken THEN attempts[i] + 1 ELSE attempts[i]]
        /\ lease' = [i \in Item |->
             IF i \in taken THEN [owner |-> w, fence |-> fence[i[1]], expired |-> FALSE]
             ELSE IF i \in Expired THEN [lease[i] EXCEPT !.owner = Nobody, !.expired = FALSE]
             ELSE lease[i]]
        /\ held' = held \cup
             {[item |-> i, worker |-> w, fence |-> fence[i[1]],
               attempt |-> attempts[i] + 1] : i \in taken}
  BY ClaimManyTakes
<1>6. item' \in [Item -> ItemState \cup {"absent"}]
  BY <1>5, SweepType DEF ItemState, LiveItemState
<1>7. attempts' \in [Item -> Nat]
  <2>1. attempts \in [Item -> Nat]
    BY DEF TypeOK
  <2>2. attempts' = [i \in Item |-> IF i \in taken THEN attempts[i] + 1 ELSE attempts[i]]
    BY <1>5
  <2> QED BY <2>1, <2>2
<1>8. \A i \in Item : fence[i[1]] \in Nat
  BY DEF TypeOK, Item
<1>9. lease' \in [Item -> Lease]
  <2>1. lease \in [Item -> Lease]
    BY DEF TypeOK
  <2>2. lease' = [i \in Item |->
          IF i \in taken THEN [owner |-> w, fence |-> fence[i[1]], expired |-> FALSE]
          ELSE IF i \in Expired THEN [lease[i] EXCEPT !.owner = Nobody, !.expired = FALSE]
          ELSE lease[i]]
    BY <1>5
  <2>3. ASSUME NEW i \in Item
        PROVE  /\ [owner |-> w, fence |-> fence[i[1]], expired |-> FALSE] \in Lease
               /\ [lease[i] EXCEPT !.owner = Nobody, !.expired = FALSE] \in Lease
    BY <1>8, <2>1, LeaseWritten
  <2> QED BY ONLY <2>1, <2>2, <2>3
<1>10. held' \in SUBSET Claim
  <2> SUFFICES ASSUME NEW i \in taken
               PROVE [item |-> i, worker |-> w, fence |-> fence[i[1]],
                      attempt |-> attempts[i] + 1] \in Claim
    BY <1>5 DEF TypeOK
  <2> QED BY <1>8 DEF TypeOK, Claim
<1> QED BY <1>4, <1>6, <1>7, <1>9, <1>10 DEF TypeOK, ClaimMany

(* Publish keeps the types.                                                 *)
LEMMA PublishType ==
    ASSUME TypeOK, NEW c \in held, NEW status \in Outcome, Publish(c, status)
    PROVE  TypeOK'
<1> DEFINE touched == IF CanPublish(c) THEN {c.item[1]} ELSE {}
           done == Finishing(touched, PublishedItem(c))
<1>1. c \in Claim /\ c.item \in Item /\ c.item[1] \in Job /\ c.item[2] \in Key
  BY DEF TypeOK, Claim, Item
<1>2. done \in SUBSET Job
  BY <1>1, FinishingType
<1>3. CloseAndPromote(done, Finish(done, PublishedItem(c)), NoNotice)
  BY DEF Publish, Observe
<1> HIDE DEF done
<1>4. /\ Finish(done, PublishedItem(c)) \in [Job -> JobState \cup {"absent"}]
      /\ \A j \in done : Finish(done, PublishedItem(c))[j] \in TerminalState
  BY <1>2, FinishType
<1>5. /\ job' \in [Job -> JobState \cup {"absent"}]
      /\ log' \in [Job -> Seq(Event)]
      /\ outbox' \in [Job -> Seq(TerminalState)]
  BY <1>2, <1>3, <1>4, NoNoticeType, CloseAndPromoteType
<1>6. item' \in [Item -> ItemState \cup {"absent"}]
  BY PublishedItemType DEF Publish, Observe
<1>7. lease' \in [Item -> Lease]
  <2>1. lease \in [Item -> Lease]
    BY DEF TypeOK
  <2>2. lease' = lease \/ lease' = [lease EXCEPT ![c.item].owner = Nobody, ![c.item].expired = FALSE]
    BY DEF Publish, Observe
  <2>3. [lease[c.item] EXCEPT !.owner = Nobody, !.expired = FALSE] \in Lease
    BY <1>1, <2>1, LeaseWritten
  <2>4. [lease EXCEPT ![c.item].owner = Nobody, ![c.item].expired = FALSE]
          = [lease EXCEPT ![c.item] = [lease[c.item] EXCEPT !.owner = Nobody, !.expired = FALSE]]
    BY ONLY <1>1, <2>1, <2>3 DEF Lease
  <2> QED BY ONLY <1>1, <2>1, <2>2, <2>3, <2>4
<1>8. entry' \in [Key -> EntryStatus \cup {"absent"}] /\ ledger' \in SUBSET Item
  BY <1>1, TableAssumption DEF TypeOK, Publish, Observe, EntryStatus
<1>9. open' \in SUBSET (Source \X Provider)
  <2>1. c.item[1] \in Job => VersionOf[c.item[1]] \in Version
    BY DEF Version
  <2>2. Pair(c.item) \in Source \X Provider
    BY <1>1, <2>1, TableAssumption DEF Pair
  <2> QED BY <2>2 DEF TypeOK, Publish, Observe
<1> QED BY <1>5, <1>6, <1>7, <1>8, <1>9 DEF TypeOK, Publish, Observe

(* No step breaks a type.                                                   *)
LEMMA TypeStep == TypeOK /\ [Next]_vars => TypeOK'
<1> SUFFICES ASSUME TypeOK, [Next]_vars PROVE TypeOK'
  OBVIOUS
<1>1. ASSUME NEW j \in Job, NEW plan \in SUBSET Key, Submit(j, plan) PROVE TypeOK'
  BY <1>1, SubmitType
<1>2. ASSUME NEW r \in requests, Admit(r) PROVE TypeOK'
  BY <1>2, AdmitType
<1>3. ASSUME NEW j \in Job, Cancel(j) PROVE TypeOK'
  BY <1>3, CancelType
<1>4. ASSUME NEW w \in Worker, NEW n \in 1..MaxBatch, NEW a \in Affinity, ClaimMany(w, n, a)
      PROVE TypeOK'
  BY <1>4, ClaimManyType
<1>5. ASSUME NEW c \in held, NEW status \in Outcome, Publish(c, status) PROVE TypeOK'
  BY <1>5, PublishType
<1>6. ASSUME NEW c \in held, Abandon(c) PROVE TypeOK'
  BY <1>6 DEF TypeOK, Abandon
<1>7. ASSUME NEW i \in Item, LeaseExpires(i) PROVE TypeOK'
  BY <1>7 DEF TypeOK, LeaseExpires, Lease
<1>8. ASSUME NEW pair \in open, BreakerCloses(pair) PROVE TypeOK'
  BY <1>8 DEF TypeOK, BreakerCloses
<1>9. CASE UNCHANGED vars
  BY <1>9 DEF TypeOK, vars
<1> QED BY <1>1, <1>2, <1>3, <1>4, <1>5, <1>6, <1>7, <1>8, <1>9 DEF Next

(* Every column keeps the type the schema gives it.                         *)
THEOREM TypeCorrect == Spec => []TypeOK
<1>1. Init => TypeOK
  BY InitType
<1>2. TypeOK /\ [Next]_vars => TypeOK'
  BY TypeStep
<1> QED BY <1>1, <1>2, PTL DEF Spec

-----------------------------------------------------------------------------
(* The queue's places                                                       *)

(* The jobs in given states can be counted.                                 *)
LEMMA JobsInFinite ==
    ASSUME NEW jobs, NEW states
    PROVE  /\ IsFiniteSet(JobsIn(states, jobs))
           /\ Cardinality(JobsIn(states, jobs)) \in Nat
<1>1. JobsIn(states, jobs) \in SUBSET Job
  BY DEF JobsIn
<1> QED BY <1>1, FiniteAssumption, FS_Subset, FS_CardinalityType

(* A promotion fills the free places, or empties the queue.                 *)
LEMMA PromotionFillsPlaces ==
    ASSUME NEW jobs \in [Job -> JobState \cup {"absent"}],
           Cardinality(JobsIn(ActiveState, jobs)) <= MaxActive,
           NEW P \in SUBSET Job,
           IsPromotion(P, jobs),
           NEW after, after = [j \in Job |-> IF j \in P THEN "running" ELSE jobs[j]]
    PROVE  /\ P \subseteq JobsIn({"queued"}, jobs)
           /\ Cardinality(JobsIn(ActiveState, after)) <= MaxActive
           /\ \/ JobsIn({"queued"}, after) = {}
              \/ Cardinality(JobsIn(ActiveState, after)) = MaxActive
<1> DEFINE A == JobsIn(ActiveState, jobs)
           Q == JobsIn({"queued"}, jobs)
<1>1. IsFiniteSet(A) /\ Cardinality(A) \in Nat /\ IsFiniteSet(Q) /\ Cardinality(Q) \in Nat
  BY JobsInFinite
<1>2. P \subseteq Q
  BY DEF IsPromotion, IsFirst
<1>3. JobsIn(ActiveState, after) = A \cup P /\ A \cap P = {}
  BY <1>2 DEF JobsIn, ActiveState
<1>4. JobsIn({"queued"}, after) = Q \ P
  BY DEF JobsIn
<1>5. IsFiniteSet(P) /\ Cardinality(P) \in Nat
  BY <1>1, <1>2, FS_Subset, FS_CardinalityType
<1>6. Cardinality(A \cup P) = Cardinality(A) + Cardinality(P)
  <2>1. Cardinality(A \cup P) = Cardinality(A) + Cardinality(P) - Cardinality(A \cap P)
    BY <1>1, <1>5, FS_Union
  <2>2. Cardinality(A \cap P) = 0
    BY <1>3, FS_EmptySet
  <2> QED BY <1>1, <1>5, <2>1, <2>2
<1>7. MaxActive \in Nat
  BY LimitAssumption
<1>8. CASE MaxActive - Cardinality(A) <= 0
  <2>1. P = {} /\ Cardinality(A) = MaxActive
    BY <1>1, <1>7, <1>8 DEF IsPromotion
  <2> QED BY <1>2, <1>3, <2>1
<1>9. CASE ~(MaxActive - Cardinality(A) <= 0)
  <2>1. /\ Cardinality(P) <= MaxActive - Cardinality(A)
        /\ P = Q \/ Cardinality(P) = MaxActive - Cardinality(A)
    BY <1>9 DEF IsPromotion, IsFirst
  <2>2. Cardinality(A \cup P) <= MaxActive
    BY <1>1, <1>5, <1>6, <1>7, <2>1
  <2>3. Q \ P = {} \/ Cardinality(A \cup P) = MaxActive
    BY <1>1, <1>5, <1>6, <1>7, <2>1
  <2> HIDE DEF A, Q
  <2>4. JobsIn(ActiveState, after) = A \cup P
    BY <1>3
  <2> QED BY <1>2, <1>4, <2>2, <2>3, <2>4 DEF Q
<1> QED BY <1>8, <1>9

(* The writes of CloseAndPromote when P are the jobs it starts.             *)
EndsAndStarts(P, ended, jobs, notice) ==
    /\ \A j \in P : job[j] = "queued" /\ j \notin ended
    /\ job' = [j \in Job |-> IF j \in P THEN "running" ELSE jobs[j]]
    /\ log' = [j \in Job |->
                 IF j \in ended THEN log[j] \o notice[j] \o <<jobs[j]>>
                 ELSE IF j \in P THEN Append(log[j], "running")
                 ELSE log[j]]
    /\ outbox' = [j \in Job |-> IF j \in ended THEN Append(outbox[j], jobs[j])
                                               ELSE outbox[j]]
    /\ \A p \in P, q \in Job :
         job[q] = "queued" /\ q \notin P /\ q \notin ended => seq[p] < seq[q]

(* What CloseAndPromote does to the jobs' states: it ends the jobs it is    *)
(* given, starts jobs that waited, oldest first, and keeps the limit.       *)
LEMMA CloseAndPromotePlaces ==
    ASSUME TypeOK, ActiveLimit, NoIdlePlace,
           NEW ended \in SUBSET Job,
           NEW jobs \in [Job -> JobState \cup {"absent"}],
           \A j \in ended : jobs[j] \in TerminalState,
           \A j \in Job \ ended : jobs[j] = job[j],
           NEW notice,
           CloseAndPromote(ended, jobs, notice)
    PROVE  /\ ActiveLimit' /\ NoIdlePlace'
           /\ \E P \in SUBSET Job : EndsAndStarts(P, ended, jobs, notice)
<1>1. PICK P \in SUBSET Job :
        /\ IF ended = {} THEN P = {} ELSE IsPromotion(P, jobs)
        /\ job' = [j \in Job |-> IF j \in P THEN "running" ELSE jobs[j]]
        /\ log' = [j \in Job |->
                     IF j \in ended THEN log[j] \o notice[j] \o <<jobs[j]>>
                     ELSE IF j \in P THEN Append(log[j], "running")
                     ELSE log[j]]
        /\ outbox' = [j \in Job |-> IF j \in ended THEN Append(outbox[j], jobs[j])
                                                   ELSE outbox[j]]
  BY DEF CloseAndPromote
<1>2. JobsIn({"queued"}, jobs) = JobsIn({"queued"}, job) \ ended
  BY DEF JobsIn, TerminalState
<1>3. CASE ended = {}
  <2>1. job' = job
    BY <1>1, <1>3 DEF TypeOK
  <2> QED BY <1>1, <1>3, <2>1 DEF ActiveLimit, NoIdlePlace, EndsAndStarts
<1>4. CASE ended # {}
  <2>1. IsPromotion(P, jobs)
    BY <1>1, <1>4
  <2>2. Cardinality(JobsIn(ActiveState, jobs)) <= MaxActive
    <3>1. JobsIn(ActiveState, jobs) \subseteq JobsIn(ActiveState, job)
      BY DEF JobsIn, ActiveState, TerminalState
    <3>2. Cardinality(JobsIn(ActiveState, jobs)) <= Cardinality(JobsIn(ActiveState, job))
      BY <3>1, JobsInFinite, FS_Subset
    <3> QED BY <3>2, JobsInFinite, LimitAssumption DEF ActiveLimit
  <2>3. /\ P \subseteq JobsIn({"queued"}, jobs)
        /\ Cardinality(JobsIn(ActiveState, job')) <= MaxActive
        /\ \/ JobsIn({"queued"}, job') = {}
           \/ Cardinality(JobsIn(ActiveState, job')) = MaxActive
    BY <1>1, <2>1, <2>2, PromotionFillsPlaces
  <2>4. ActiveLimit' /\ NoIdlePlace'
    BY <2>3 DEF ActiveLimit, NoIdlePlace, JobsIn
  <2>5. \A j \in P : job[j] = "queued" /\ j \notin ended
    BY <1>2, <2>3 DEF JobsIn
  <2>6. \A p \in P, q \in Job :
          job[q] = "queued" /\ q \notin P /\ q \notin ended => seq[p] < seq[q]
    <3> SUFFICES ASSUME NEW p \in P, NEW q \in Job, job[q] = "queued", q \notin P, q \notin ended
                 PROVE seq[p] < seq[q]
      OBVIOUS
    <3>1. q \in JobsIn({"queued"}, jobs) \ P
      BY <1>2 DEF JobsIn
    <3>2. ~(MaxActive - Cardinality(JobsIn(ActiveState, jobs)) <= 0)
      BY <2>1 DEF IsPromotion
    <3>3. IsFirst(P, JobsIn({"queued"}, jobs),
                  MaxActive - Cardinality(JobsIn(ActiveState, jobs)), Older)
      BY <2>1, <3>2 DEF IsPromotion
    <3>4. Older(p, q)
      BY <3>1, <3>3 DEF IsFirst
    <3> QED BY <3>4 DEF Older
  <2> QED BY <1>1, <2>4, <2>5, <2>6 DEF EndsAndStarts
<1> QED BY <1>3, <1>4

-----------------------------------------------------------------------------
(* Transactions that end jobs                                               *)

(* The states of a job by name.                                             *)
LEMMA JobStateFacts ==
    /\ JobState = {"queued", "running", "cancelling", "completed", "failed", "cancelled"}
    /\ TerminalState = {"completed", "failed", "cancelled"}
    /\ ActiveState = {"running", "cancelling"}
BY DEF JobState, ActiveState, TerminalState

(* Appending to an event history starts no job, unless "running" is         *)
(* appended.                                                                *)
LEMMA AppendedStart ==
    ASSUME NEW s \in Seq(Event), NEW t \in Seq(Event), NEW e \in Event, e # "running",
           \A n \in DOMAIN t : t[n] # "running",
           NEW m \in DOMAIN (s \o t \o <<e>>), (s \o t \o <<e>>)[m] = "running"
    PROVE  \E n \in DOMAIN s : s[n] = "running"
<1>1. <<e>> \in Seq(Event) /\ Len(<<e>>) = 1 /\ <<e>>[1] = e
  OBVIOUS
<1>2. /\ s \o t \in Seq(Event)
      /\ Len(s \o t) = Len(s) + Len(t)
      /\ Len(s \o t \o <<e>>) = Len(s) + Len(t) + 1
  BY <1>1
<1>3. m \in 1..(Len(s) + Len(t) + 1)
  BY <1>1, <1>2
<1>4. CASE m = Len(s) + Len(t) + 1
  BY <1>1, <1>2, <1>4
<1>5. CASE m \in 1..(Len(s) + Len(t))
  <2>1. (s \o t \o <<e>>)[m] = (s \o t)[m]
    BY <1>1, <1>2, <1>5
  <2>2. CASE m \in 1..Len(s)
    <3>1. (s \o t)[m] = s[m]
      BY <2>2
    <3> QED BY <2>1, <2>2, <3>1
  <2>3. CASE m \in (Len(s) + 1)..(Len(s) + Len(t))
    <3>1. (s \o t)[m] = t[m - Len(s)] /\ m - Len(s) \in 1..Len(t)
      BY <2>3
    <3> QED BY <2>1, <3>1
  <2> QED BY <1>5, <2>2, <2>3
<1> QED BY <1>3, <1>4, <1>5

(* A transaction that ends live jobs, in states their items fit, and        *)
(* promotes keeps every part of the invariant that speaks of jobs.          *)
LEMMA CloseAndPromoteInv ==
    ASSUME QueueInv,
           NEW ended \in SUBSET Job,
           NEW jobs \in [Job -> JobState \cup {"absent"}],
           NEW notice \in [Job -> Seq(Event)],
           \A j \in ended : /\ job[j] \in {"queued", "running"}
                            /\ jobs[j] \in TerminalState
                            /\ \A n \in DOMAIN notice[j] : notice[j][n] # "running",
           \A j \in Job \ ended : jobs[j] = job[j],
           \A j \in Job : Fits(j, jobs, item'),
           \A j \in Job : job[j] = "absent" => ~Has(j, item', ItemState),
           seq' = seq, requests' = requests,
           CloseAndPromote(ended, jobs, notice)
    PROVE  /\ RowsBeginEmpty' /\ ActiveLimit' /\ NoIdlePlace' /\ SequenceIsOrder'
           /\ StartInOrder' /\ JobMatchesItems' /\ AnnouncedOnce'
<1> USE JobStateFacts
<1>1. TypeOK /\ RowsBeginEmpty /\ ActiveLimit /\ NoIdlePlace /\ SequenceIsOrder
      /\ StartInOrder /\ JobMatchesItems /\ AnnouncedOnce
  BY DEF QueueInv
<1>2. ActiveLimit' /\ NoIdlePlace'
  BY <1>1, CloseAndPromotePlaces
<1>3. PICK P \in SUBSET Job : EndsAndStarts(P, ended, jobs, notice)
  BY <1>1, CloseAndPromotePlaces
<1> USE DEF EndsAndStarts
<1>4. \A j \in Job : job[j] # "cancelling" /\ jobs[j] # "cancelling" /\ job'[j] # "cancelling"
  BY <1>1, <1>3 DEF RowsBeginEmpty
<1>5. \A j \in Job : job'[j] = "absent" <=> job[j] = "absent"
  BY <1>3
<1>6. \A j \in Job : job'[j] = "queued" => job[j] = "queued" /\ j \notin P /\ j \notin ended
  BY <1>3
<1>7. \A j \in Job : Started(j)' => Started(j) \/ j \in P
  <2> SUFFICES ASSUME NEW j \in Job, Started(j)', j \notin P PROVE Started(j)
    BY Zenon
  <2>1. CASE j \in ended
    <3>1. log[j] \in Seq(Event) /\ notice[j] \in Seq(Event) /\ jobs[j] \in Event
      BY <1>1, <2>1 DEF TypeOK, Event
    <3>2. log'[j] = log[j] \o notice[j] \o <<jobs[j]>>
      BY <1>3, <2>1
    <3>3. jobs[j] # "running" /\ \A n \in DOMAIN notice[j] : notice[j][n] # "running"
      BY <2>1
    <3>4. PICK m \in DOMAIN log'[j] : log'[j][m] = "running"
      BY DEF Started
    <3>5. \E n \in DOMAIN log[j] : log[j][n] = "running"
      BY <3>1, <3>2, <3>3, <3>4, AppendedStart
    <3> QED BY <3>5 DEF Started
  <2>2. CASE j \notin ended
    BY <1>3, <2>2 DEF Started
  <2> QED BY <2>1, <2>2
<1>8. RowsBeginEmpty'
  <2>1. ASSUME NEW j \in Job, job'[j] = "absent"
        PROVE  log'[j] = <<>> /\ outbox'[j] = <<>> /\ ~Has(j, item', ItemState)
    <3>1. job[j] = "absent" /\ j \notin ended /\ j \notin P
      BY <1>3, <1>5, <2>1
    <3>2. log[j] = <<>> /\ outbox[j] = <<>>
      BY <1>1, <3>1 DEF RowsBeginEmpty
    <3> QED BY <1>3, <3>1, <3>2
  <2>2. ASSUME NEW j \in Job, job'[j] = "queued" PROVE ~Started(j)'
    BY <1>1, <1>6, <1>7, <2>2 DEF RowsBeginEmpty
  <2>3. \A r \in requests' : /\ job'[r.job] = "absent"
                             /\ \A q \in requests' : q.job = r.job => q = r
    <3>1. \A r \in requests : r.job \in Job
      BY <1>1 DEF TypeOK, Request
    <3> QED BY <1>1, <1>5, <3>1 DEF RowsBeginEmpty
  <2> QED BY <1>4, <2>1, <2>2, <2>3 DEF RowsBeginEmpty
<1>9. SequenceIsOrder'
  <2>1. JobsIn(JobState, job') = JobsIn(JobState, job)
    BY <1>1, <1>3, <1>5 DEF JobsIn, TypeOK
  <2> QED BY <1>1, <1>5, <2>1 DEF SequenceIsOrder, JobsIn
<1>10. StartInOrder'
  <2> SUFFICES ASSUME NEW a \in Job, NEW b \in Job, job'[a] = "queued", seq[a] < seq[b],
                      Started(b)'
               PROVE FALSE
    BY DEF StartInOrder
  <2>1. job[a] = "queued" /\ a \notin P /\ a \notin ended
    BY <1>6
  <2>2. CASE b \in P
    <3>1. seq[b] < seq[a]
      BY <1>3, <2>1, <2>2
    <3> QED BY <1>1, <3>1 DEF TypeOK
  <2>3. CASE b \notin P
    BY <1>1, <1>7, <2>1, <2>3 DEF StartInOrder
  <2> QED BY <2>2, <2>3
<1>11. JobMatchesItems'
  <2> SUFFICES ASSUME NEW j \in Job PROVE Fits(j, job', item')
    BY DEF JobMatchesItems, Fits, Has
  <2>1. Fits(j, jobs, item')
    OBVIOUS
  <2>2. job'[j] = jobs[j] \/ (jobs[j] = "queued" /\ job'[j] = "running")
    BY <1>3
  <2> QED BY <2>1, <2>2 DEF Fits
<1>12. AnnouncedOnce'
  <2> SUFFICES ASSUME NEW j \in Job
               PROVE IF job'[j] \in TerminalState
                       THEN /\ outbox'[j] = <<job'[j]>>
                            /\ log'[j] # <<>> /\ log'[j][Len(log'[j])] = job'[j]
                       ELSE outbox'[j] = <<>>
    BY DEF AnnouncedOnce
  <2>1. CASE j \in ended
    <3>1. job'[j] = jobs[j] /\ jobs[j] \in TerminalState
      BY <1>3, <2>1
    <3>2. outbox[j] = <<>>
      BY <1>1, <2>1 DEF AnnouncedOnce
    <3>3. outbox'[j] = <<jobs[j]>>
      <4>1. outbox'[j] = Append(<<>>, jobs[j])
        BY <1>3, <2>1, <3>2
      <4> QED BY <4>1
    <3>4. log[j] \in Seq(Event) /\ notice[j] \in Seq(Event) /\ jobs[j] \in Event
      BY <1>1, <3>1 DEF TypeOK, Event
    <3>5. log'[j] = (log[j] \o notice[j]) \o <<jobs[j]>>
      BY <1>3, <2>1
    <3>6. log[j] \o notice[j] \in Seq(Event)
      BY <3>4
    <3>7. /\ Len(log'[j]) = Len(log[j] \o notice[j]) + 1
          /\ log'[j][Len(log[j] \o notice[j]) + 1] = jobs[j]
          /\ log'[j] \in Seq(Event)
      BY <3>4, <3>5, <3>6
    <3>8. Len(log[j] \o notice[j]) \in Nat
      BY <3>6
    <3>9. log'[j] # <<>>
      BY <3>7, <3>8
    <3> QED BY <3>1, <3>3, <3>7, <3>9
  <2>2. CASE j \in P
    <3>1. j \notin ended /\ job[j] = "queued" /\ job'[j] = "running"
      BY <1>3, <2>2
    <3> QED BY <1>1, <1>3, <3>1 DEF AnnouncedOnce
  <2>3. CASE j \notin ended /\ j \notin P
    BY <1>1, <1>3, <2>3 DEF AnnouncedOnce
  <2> QED BY <2>1, <2>2, <2>3
<1> QED BY <1>2, <1>8, <1>9, <1>10, <1>11, <1>12

(* _finish_if_drained_locked leaves every job in a state its items fit.     *)
LEMMA FinishFits ==
    ASSUME TypeOK, NEW items, NEW touched \in SUBSET Job,
           \A j \in Job \ touched : Fits(j, job, items),
           \A j \in touched : job[j] = "running" /\ ~Has(j, items, {"cancelled"}),
           NEW j \in Job
    PROVE  Fits(j, Finish(Finishing(touched, items), items), items)
<1> DEFINE done == Finishing(touched, items)
           jobs == Finish(done, items)
<1>1. CASE j \notin done
  <2>1. jobs[j] = job[j]
    BY <1>1 DEF Finish
  <2>2. CASE j \in touched
    <3>1. Has(j, items, LiveItemState)
      BY <1>1, <2>2 DEF Finishing
    <3> QED BY <2>1, <2>2, <3>1 DEF Fits
  <2>3. CASE j \notin touched
    BY <2>1, <2>3 DEF Fits
  <2> QED BY <2>2, <2>3
<1>2. CASE j \in done
  <2>1. j \in touched /\ ~Has(j, items, LiveItemState) /\ ~Has(j, items, {"cancelled"})
    BY <1>2 DEF Finishing
  <2>2. jobs[j] = IF Has(j, items, {"published"}) THEN "completed" ELSE "failed"
    BY <1>2 DEF Finish, Verdict
  <2> QED BY <2>1, <2>2 DEF Fits
<1> QED BY <1>1, <1>2

-----------------------------------------------------------------------------
(* Each action keeps the invariant                                          *)

(* The empty queue satisfies the invariant.                                 *)
LEMMA InitInv == Init => QueueInv
<1> SUFFICES ASSUME Init PROVE QueueInv
  OBVIOUS
<1> USE JobStateFacts
<1>1. TypeOK
  BY InitType
<1>2. \A states : "absent" \notin states => JobsIn(states, job) = {}
  BY DEF Init, JobsIn
<1>3. JobsIn(ActiveState, job) = {} /\ JobsIn({"queued"}, job) = {}
  BY <1>2
<1>4. ActiveLimit /\ NoIdlePlace
  BY <1>3, FS_EmptySet, LimitAssumption DEF ActiveLimit, NoIdlePlace
<1>5. \A j \in Job : \A states : "absent" \notin states => ~Has(j, item, states)
  BY DEF Init, Has, Item
<1>6. JobMatchesItems /\ RowsBeginEmpty
  BY <1>5 DEF Init, JobMatchesItems, Fits, RowsBeginEmpty, LiveItemState, ItemState
<1>7. SequenceIsOrder /\ StartInOrder /\ AnnouncedOnce
  BY DEF Init, SequenceIsOrder, StartInOrder, AnnouncedOnce
<1>8. LeaseAttemptsBounded /\ AttemptsLeft
  BY LimitAssumption DEF Init, LeaseAttemptsBounded, AttemptsLeft
<1> QED BY <1>1, <1>4, <1>6, <1>7, <1>8 DEF QueueInv

(* The parts of the invariant that do not speak of requests.                *)
LEMMA QueueRowsUnchanged ==
    ASSUME QueueInv, TypeOK', RowsBeginEmpty',
           UNCHANGED <<job, seq, item, attempts, log, outbox>>
    PROVE  QueueInv'
BY DEF QueueInv, ActiveLimit, NoIdlePlace, SequenceIsOrder, StartInOrder, Started,
       JobMatchesItems, Fits, Has, AnnouncedOnce, LeaseAttemptsBounded, AttemptsLeft

(* A step that leaves requests, jobs and items alone keeps RowsBeginEmpty.  *)
LEMMA RowsBeginEmptyKept ==
    ASSUME QueueInv, requests' = requests, UNCHANGED <<job, item, log, outbox>>
    PROVE  RowsBeginEmpty'
BY DEF QueueInv, RowsBeginEmpty, Started, Has

(* Submit keeps the invariant.                                              *)
LEMMA SubmitInv ==
    ASSUME QueueInv, NEW j \in Job, NEW plan \in SUBSET Key, Submit(j, plan)
    PROVE  QueueInv'
<1>1. TypeOK'
  BY SubmitType DEF QueueInv
<1>2. PICK reuse : requests' = requests \cup {[job |-> j, plan |-> plan, reuse |-> reuse]}
  BY DEF Submit
<1>3. /\ \A r \in requests : job[r.job] = "absent" /\ r.job # j
      /\ \A r, q \in requests : q.job = r.job => q = r
      /\ job[j] = "absent"
  BY DEF QueueInv, RowsBeginEmpty, Submit
<1>4. \A r \in requests' : /\ job'[r.job] = "absent"
                           /\ \A q \in requests' : q.job = r.job => q = r
  BY <1>2, <1>3 DEF Submit
<1>5. RowsBeginEmpty'
  BY <1>4 DEF QueueInv, RowsBeginEmpty, Submit, Started, Has
<1> QED BY <1>1, <1>5, QueueRowsUnchanged DEF Submit

(* Admit keeps the invariant.                                               *)
LEMMA AdmitInv ==
    ASSUME QueueInv, NEW r \in requests, Admit(r)
    PROVE  QueueInv'
<1> USE JobStateFacts
<1> DEFINE n == r.job
           state == AdmittedState(r)
           A == JobsIn(ActiveState, job)
           All == JobsIn(JobState, job)
<1>1. TypeOK /\ RowsBeginEmpty /\ ActiveLimit /\ NoIdlePlace /\ SequenceIsOrder
      /\ StartInOrder /\ JobMatchesItems /\ AnnouncedOnce /\ LeaseAttemptsBounded
      /\ AttemptsLeft
  BY DEF QueueInv
<1>2. n \in Job /\ r.plan \in SUBSET Key /\ r.reuse \in SUBSET Key
  BY <1>1 DEF TypeOK, Request
<1>3. /\ job[n] = "absent" /\ log[n] = <<>> /\ outbox[n] = <<>>
      /\ ~Has(n, item, ItemState)
  BY <1>1, <1>2 DEF RowsBeginEmpty
<1>4. TypeOK'
  BY <1>1, AdmitType
<1>5. /\ job' = [job EXCEPT ![n] = state]
      /\ log' = [log EXCEPT ![n] = Append(<<>>, state)]
      /\ seq' = [seq EXCEPT ![n] = 1 + Cardinality(All)]
      /\ requests' = requests \ {r}
      /\ state \in {"completed", "running", "queued"}
  BY <1>2, <1>3 DEF Admit, AdmittedState, TypeOK
<1>6. \A j \in Job : j # n => /\ job'[j] = job[j] /\ log'[j] = log[j]
                              /\ outbox'[j] = outbox[j] /\ seq'[j] = seq[j]
                              /\ \A states : Has(j, item', states) <=> Has(j, item, states)
  <2>1. \A j \in Job, k \in Key : j # n => item'[<<j, k>>] = item[<<j, k>>]
    BY DEF Admit, Item
  <2>2. \A j \in Job : j # n => \A states : Has(j, item', states) <=> Has(j, item, states)
    BY ONLY <2>1 DEF Has
  <2>3. /\ job \in [Job -> JobState \cup {"absent"}] /\ log \in [Job -> Seq(Event)]
        /\ outbox \in [Job -> Seq(TerminalState)] /\ seq \in [Job -> Nat]
    BY <1>1 DEF TypeOK
  <2>4. \A j \in Job : j # n => job'[j] = job[j] /\ log'[j] = log[j] /\ seq'[j] = seq[j]
    BY ONLY <1>5, <2>3
  <2>5. \A j \in Job : j # n => outbox'[j] = outbox[j]
    BY <2>3 DEF Admit
  <2> QED BY ONLY <2>2, <2>4, <2>5
<1>7. job'[n] = state /\ log'[n] = <<state>> /\ seq'[n] = 1 + Cardinality(All)
  <2>1. Append(<<>>, state) = <<state>>
    OBVIOUS
  <2> QED BY <1>1, <1>2, <1>5, <2>1 DEF TypeOK
<1>8. Started(n)' <=> state = "running"
  BY <1>7 DEF Started
<1>9. IsFiniteSet(A) /\ Cardinality(A) \in Nat /\ IsFiniteSet(All) /\ Cardinality(All) \in Nat
      /\ MaxActive \in Nat
  BY JobsInFinite, LimitAssumption
<1>10. ASSUME state = "running" PROVE ActiveLimit' /\ NoIdlePlace' /\ StartInOrder'
  <2>1. Cardinality(A) < MaxActive
    BY <1>10 DEF AdmittedState
  <2>2. JobsIn({"queued"}, job) = {}
    BY <1>1, <1>9, <2>1 DEF NoIdlePlace
  <2>3. JobsIn(ActiveState, job') = A \cup {n} /\ n \notin A
    BY <1>2, <1>3, <1>6, <1>7, <1>10 DEF JobsIn
  <2>4. Cardinality(JobsIn(ActiveState, job')) <= MaxActive
    <3>1. Cardinality(A \cup {n}) = Cardinality(A) + 1
      BY <1>9, <2>3, FS_AddElement
    <3>2. Cardinality(A) \in Nat /\ MaxActive \in Nat
      BY <1>9
    <3>3. JobsIn(ActiveState, job') = A \cup {n}
      BY <2>3
    <3> HIDE DEF A
    <3>4. Cardinality(A) + 1 <= MaxActive
      BY ONLY <2>1, <3>2
    <3> QED BY ONLY <3>1, <3>3, <3>4
  <2>5. JobsIn({"queued"}, job') = {}
    BY <1>6, <1>7, <1>10, <2>2 DEF JobsIn
  <2>6. StartInOrder'
    BY <2>5 DEF StartInOrder, JobsIn
  <2> QED BY <2>4, <2>5, <2>6 DEF ActiveLimit, NoIdlePlace
<1>11. ASSUME state # "running" PROVE ActiveLimit' /\ NoIdlePlace' /\ StartInOrder'
  <2>1. JobsIn(ActiveState, job') = A
    BY <1>2, <1>3, <1>5, <1>6, <1>7, <1>11 DEF JobsIn
  <2>2. ASSUME state = "queued" PROVE Cardinality(A) = MaxActive
    <3>1. ~(Cardinality(A) < MaxActive)
      BY <2>2 DEF AdmittedState
    <3> QED BY <1>1, <1>9, <3>1 DEF ActiveLimit
  <2>3. state # "queued" => JobsIn({"queued"}, job') = JobsIn({"queued"}, job)
    BY <1>2, <1>3, <1>6, <1>7 DEF JobsIn
  <2>4. ActiveLimit' /\ NoIdlePlace'
    BY <1>1, <2>1, <2>2, <2>3 DEF ActiveLimit, NoIdlePlace
  <2>5. StartInOrder'
    <3> SUFFICES ASSUME NEW a \in Job, NEW b \in Job, job'[a] = "queued",
                        seq'[a] < seq'[b], Started(b)'
                 PROVE FALSE
      BY DEF StartInOrder
    <3>1. b # n
      BY <1>8, <1>11
    <3>2. Started(b) /\ job[b] # "absent"
      <4>1. Started(b)
        BY <1>6, <3>1 DEF Started
      <4> QED BY <1>1, <4>1 DEF RowsBeginEmpty, Started
    <3>3. seq[b] <= Cardinality(All) /\ seq[b] \in Nat
      BY <1>1, <3>2 DEF SequenceIsOrder, TypeOK
    <3>4. a # n
      BY <1>6, <1>7, <1>9, <3>1, <3>3
    <3> QED BY <1>1, <1>6, <3>1, <3>2, <3>4 DEF StartInOrder
  <2> QED BY <2>4, <2>5
<1>12. ActiveLimit' /\ NoIdlePlace' /\ StartInOrder'
  BY <1>10, <1>11
<1>13. SequenceIsOrder'
  <2>1. JobsIn(JobState, job') = All \cup {n} /\ n \notin All
    BY <1>2, <1>3, <1>5, <1>6, <1>7 DEF JobsIn
  <2>2. Cardinality(JobsIn(JobState, job')) = Cardinality(All) + 1
    BY <1>9, <2>1, FS_AddElement
  <2>3. \A j \in Job : job[j] # "absent" => seq[j] <= Cardinality(All) /\ seq[j] \in Nat
    BY <1>1 DEF SequenceIsOrder, TypeOK
  <2>4. \A j \in Job : job'[j] # "absent" => seq'[j] <= Cardinality(All) + 1
    BY <1>6, <1>7, <1>9, <2>3
  <2>5. \A a, b \in Job : job'[a] # "absent" /\ job'[b] # "absent" /\ a # b =>
                             seq'[a] # seq'[b]
    BY <1>1, <1>6, <1>7, <1>9, <2>3 DEF SequenceIsOrder
  <2> QED BY <2>2, <2>4, <2>5 DEF SequenceIsOrder
<1>14. RowsBeginEmpty'
  <2>1. \A q \in requests' : q.job # n /\ q.job \in Job
    BY <1>1, <1>5 DEF RowsBeginEmpty, TypeOK, Request
  <2>2. \A q \in requests' : /\ job'[q.job] = "absent"
                             /\ \A p \in requests' : p.job = q.job => p = q
    BY <1>1, <1>5, <1>6, <2>1 DEF RowsBeginEmpty
  <2>3. \A j \in Job : job'[j] # "cancelling"
    BY <1>1, <1>5, <1>6, <1>7 DEF RowsBeginEmpty
  <2>4. \A j \in Job : job'[j] = "absent" =>
                         log'[j] = <<>> /\ outbox'[j] = <<>> /\ ~Has(j, item', ItemState)
    BY <1>1, <1>5, <1>6, <1>7 DEF RowsBeginEmpty
  <2>5. \A j \in Job : job'[j] = "queued" => ~Started(j)'
    BY <1>1, <1>6, <1>7, <1>8 DEF RowsBeginEmpty, Started
  <2> QED BY <2>2, <2>3, <2>4, <2>5 DEF RowsBeginEmpty
<1>15. \A k \in Key : item'[<<n, k>>] =
          IF k \notin r.plan THEN "absent" ELSE IF k \in r.reuse THEN "published" ELSE "pending"
  <2>1. \A k \in Key : item[<<n, k>>] = "absent"
    <3>1. \A k \in Key : item[<<n, k>>] \in ItemState \cup {"absent"}
      BY <1>1, <1>2 DEF TypeOK, Item
    <3> QED BY <1>3, <3>1 DEF Has
  <2> QED BY <1>2, <2>1 DEF Admit, Item
<1>16. JobMatchesItems'
  <2>1. Fits(n, job', item')
    <3>1. CASE r.plan \subseteq r.reuse
      <4>1. state = "completed"
        BY <3>1 DEF AdmittedState
      <4>2. \A k \in Key : item'[<<n, k>>] \in {"absent", "published"}
        BY <1>15, <3>1
      <4>3. ~Has(n, item', LiveItemState) /\ ~Has(n, item', {"cancelled"})
        BY <4>2 DEF Has, LiveItemState
      <4>4. Has(n, item', {"published"}) \/ ~Has(n, item', ItemState)
        BY <4>2 DEF Has, ItemState, LiveItemState
      <4> QED BY <1>7, <4>1, <4>3, <4>4 DEF Fits
    <3>2. CASE ~(r.plan \subseteq r.reuse)
      <4>1. state \in {"queued", "running"}
        BY <3>2 DEF AdmittedState
      <4>2. PICK k \in Key : k \in r.plan /\ k \notin r.reuse
        BY <1>2, <3>2
      <4>3. Has(n, item', LiveItemState)
        BY <1>15, <4>2 DEF Has, LiveItemState
      <4>4. ~Has(n, item', {"cancelled"})
        BY <1>15 DEF Has
      <4> QED BY <1>7, <4>1, <4>3, <4>4 DEF Fits
    <3> QED BY <3>1, <3>2
  <2>2. ASSUME NEW j \in Job, j # n PROVE Fits(j, job', item')
    BY <1>1, <1>6, <2>2 DEF JobMatchesItems, Fits
  <2>3. \A j \in Job : Fits(j, job', item')
    BY <2>1, <2>2
  <2> QED BY <2>3 DEF JobMatchesItems, Fits, Has
<1>17. AnnouncedOnce'
  <2>1. outbox'[n] = IF state = "completed" THEN <<"completed">> ELSE <<>>
    <3>1. outbox' = IF state = "completed" THEN [outbox EXCEPT ![n] = Append(@, state)]
                                           ELSE outbox
      BY DEF Admit
    <3>2. Append(<<>>, "completed") = <<"completed">>
      OBVIOUS
    <3> QED BY <1>1, <1>2, <1>3, <3>1, <3>2 DEF TypeOK
  <2>2. log'[n] # <<>> /\ log'[n][Len(log'[n])] = state
    BY <1>7
  <2> QED BY <1>1, <1>5, <1>6, <1>7, <2>1, <2>2 DEF AnnouncedOnce
<1>18. LeaseAttemptsBounded' /\ AttemptsLeft'
  <2>1. ASSUME NEW i \in Item
        PROVE  /\ item'[i] = item[i] \/ (item[i] = "absent" /\ item'[i] \in {"published", "pending"})
    <3>1. CASE i[1] # n
      BY <3>1 DEF Admit
    <3>2. CASE i[1] = n
      <4>1. item[i] = "absent"
        <5>1. i[2] \in Key /\ i = <<n, i[2]>>
          BY <3>2 DEF Item
        <5>2. item[<<n, i[2]>>] \notin ItemState
          BY <1>3, <5>1 DEF Has
        <5> QED BY <1>1, <5>1, <5>2 DEF TypeOK
      <4> QED BY <4>1 DEF Admit
    <3> QED BY <3>1, <3>2
  <2>2. attempts' = attempts
    BY DEF Admit
  <2> QED BY <1>1, <2>1, <2>2, LimitAssumption DEF LeaseAttemptsBounded, AttemptsLeft
<1> QED BY <1>4, <1>12, <1>13, <1>14, <1>16, <1>17, <1>18 DEF QueueInv

(* Cancel keeps the invariant.                                              *)
LEMMA CancelInv ==
    ASSUME QueueInv, NEW j \in Job, Cancel(j)
    PROVE  QueueInv'
<1> USE JobStateFacts
<1> DEFINE jobs == [job EXCEPT ![j] = "cancelled"]
           notice == [NoNotice EXCEPT ![j] =
                        IF job[j] = "running" THEN <<"cancellation_requested">> ELSE <<>>]
<1>1. TypeOK /\ RowsBeginEmpty /\ JobMatchesItems /\ LeaseAttemptsBounded /\ AttemptsLeft
  BY DEF QueueInv
<1>2. TypeOK'
  BY <1>1, CancelType
<1>3. job[j] \in {"queued", "running"}
  BY <1>1 DEF Cancel, Cancellable, RowsBeginEmpty
<1>4. /\ jobs \in [Job -> JobState \cup {"absent"}]
      /\ jobs[j] = "cancelled"
      /\ \A o \in Job \ {j} : jobs[o] = job[o]
  BY <1>1 DEF TypeOK
<1>5. /\ notice \in [Job -> Seq(Event)]
      /\ \A n \in DOMAIN notice[j] : notice[j][n] # "running"
  <2>1. <<"cancellation_requested">> \in Seq(Event)
    BY DEF Event
  <2>2. notice[j] = IF job[j] = "running" THEN <<"cancellation_requested">> ELSE <<>>
    BY DEF NoNotice
  <2>3. \A n \in DOMAIN notice[j] : notice[j][n] # "running"
    BY <2>2
  <2> QED BY <2>1, <2>3, NoNoticeType
<1>6. CloseAndPromote({j}, jobs, notice) /\ seq' = seq /\ requests' = requests
  BY DEF Cancel, Cancellable
<1> HIDE DEF notice
<1>7. \A k \in Key : item'[<<j, k>>] =
         IF item[<<j, k>>] \in LiveItemState THEN "cancelled" ELSE item[<<j, k>>]
  BY DEF Cancel, Cancellable, Item
<1>8. \A o \in Job, k \in Key : o # j => item'[<<o, k>>] = item[<<o, k>>]
  BY DEF Cancel, Cancellable, Item
<1>9. \A o \in Job : Fits(o, jobs, item')
  <2>1. Fits(j, jobs, item')
    <3>1. ~Has(j, item', LiveItemState)
      BY <1>7 DEF Has, LiveItemState
    <3> QED BY <1>4, <3>1 DEF Fits
  <2>2. ASSUME NEW o \in Job, o # j PROVE Fits(o, jobs, item')
    <3>1. Fits(o, job, item)
      BY <1>1 DEF JobMatchesItems
    <3>2. jobs[o] = job[o]
      BY <1>4, <2>2
    <3>3. \A states : Has(o, item', states) <=> Has(o, item, states)
      BY ONLY <1>8, <2>2 DEF Has
    <3> HIDE DEF jobs
    <3> QED BY ONLY <3>1, <3>2, <3>3 DEF Fits
  <2> QED BY <2>1, <2>2
<1>10. \A o \in Job : job[o] = "absent" => ~Has(o, item', ItemState)
  BY <1>1, <1>3, <1>8 DEF RowsBeginEmpty, Has
<1> HIDE DEF jobs
<1>11. /\ RowsBeginEmpty' /\ ActiveLimit' /\ NoIdlePlace' /\ SequenceIsOrder'
       /\ StartInOrder' /\ JobMatchesItems' /\ AnnouncedOnce'
  BY <1>3, <1>4, <1>5, <1>6, <1>9, <1>10, CloseAndPromoteInv
<1>12. LeaseAttemptsBounded' /\ AttemptsLeft'
  <2>1. \A i \in Item : item'[i] \in {item[i], "cancelled"}
    BY DEF Cancel, Cancellable
  <2> QED BY <1>1, <2>1 DEF Cancel, Cancellable, LeaseAttemptsBounded, AttemptsLeft
<1> QED BY <1>2, <1>11, <1>12 DEF QueueInv

(* No notice starts a job.                                                  *)
LEMMA NoNoticeQuiet ==
    ASSUME NEW j \in Job
    PROVE  \A n \in DOMAIN NoNotice[j] : NoNotice[j][n] # "running"
BY DEF NoNotice

(* Two tables of item states agree on which kinds of item a job has.        *)
SameKinds(j, items1, items2) ==
    /\ Has(j, items1, LiveItemState) <=> Has(j, items2, LiveItemState)
    /\ Has(j, items1, {"published"}) <=> Has(j, items2, {"published"})
    /\ Has(j, items1, {"cancelled"}) <=> Has(j, items2, {"cancelled"})
    /\ Has(j, items1, ItemState) <=> Has(j, items2, ItemState)

(* ClaimMany keeps the invariant.                                           *)
LEMMA ClaimManyInv ==
    ASSUME QueueInv, NEW w \in Worker, NEW n \in 1..MaxBatch, NEW a \in Affinity,
           ClaimMany(w, n, a)
    PROVE  QueueInv'
<1> USE JobStateFacts
<1> DEFINE touched == {i[1] : i \in Expired}
           done == Finishing(touched, SweptItem)
           jobs == Finish(done, SweptItem)
<1>1. TypeOK /\ RowsBeginEmpty /\ JobMatchesItems /\ LeaseAttemptsBounded /\ AttemptsLeft
  BY DEF QueueInv
<1>2. TypeOK'
  BY <1>1, ClaimManyType
<1>3. touched \in SUBSET Job /\ \A j \in touched : job[j] = "running"
  BY <1>1, SweepType DEF Expired
<1>4. CloseAndPromote(done, jobs, NoNotice) /\ seq' = seq /\ requests' = requests
  BY DEF ClaimMany
<1>5. \A i \in Item : SweptItem[i] =
         IF i \notin Expired THEN item[i]
         ELSE IF attempts[i] >= MaxLeaseAttempts THEN "failed" ELSE "pending"
  BY DEF SweptItem
<1>6. \A i \in Expired : i \in Item /\ item[i] = "running" /\ i[1] \in touched
  BY DEF Expired
<1>7. PICK taken \in SUBSET Item :
        /\ \A i \in taken : SweptItem[i] = "pending"
        /\ item' = [i \in Item |-> IF i \in taken THEN "running" ELSE SweptItem[i]]
        /\ attempts' = [i \in Item |-> IF i \in taken THEN attempts[i] + 1 ELSE attempts[i]]
  BY ONLY ClaimManyTakes, ClaimMany(w, n, a)
<1>8. \A j \in Job : SameKinds(j, item', SweptItem)
  <2>1. \A j \in Job, k \in Key :
          \/ item'[<<j, k>>] = SweptItem[<<j, k>>]
          \/ item'[<<j, k>>] = "running" /\ SweptItem[<<j, k>>] = "pending"
    BY <1>7 DEF Item
  <2> QED BY <2>1 DEF SameKinds, Has, LiveItemState, ItemState
<1>9. \A j \in Job \ touched, k \in Key : SweptItem[<<j, k>>] = item[<<j, k>>]
  BY <1>5, <1>6 DEF Item
<1>10. \A j \in Job \ touched : Fits(j, job, SweptItem)
  <2> SUFFICES ASSUME NEW j \in Job \ touched PROVE Fits(j, job, SweptItem)
    OBVIOUS
  <2>1. Fits(j, job, item)
    BY <1>1 DEF JobMatchesItems
  <2> QED BY <1>9, <2>1 DEF Fits, Has
<1>11. \A j \in touched : job[j] = "running" /\ ~Has(j, SweptItem, {"cancelled"})
  <2> SUFFICES ASSUME NEW j \in touched PROVE ~Has(j, SweptItem, {"cancelled"})
    BY <1>3
  <2>1. Fits(j, job, item) /\ job[j] = "running"
    BY <1>1, <1>3 DEF JobMatchesItems
  <2>2. ~Has(j, item, {"cancelled"})
    BY <2>1 DEF Fits
  <2>3. \A k \in Key : SweptItem[<<j, k>>] \in {item[<<j, k>>], "failed", "pending"}
    BY <1>3, <1>5 DEF Item
  <2> QED BY <2>2, <2>3 DEF Has
<1>12. done \in SUBSET Job /\ \A j \in done : job[j] = "running"
  BY <1>3, FinishingType DEF Finishing
<1>13. /\ jobs \in [Job -> JobState \cup {"absent"}]
       /\ \A j \in done : jobs[j] \in TerminalState
       /\ \A j \in Job \ done : jobs[j] = job[j]
  <2> HIDE DEF touched, done
  <2>1. /\ jobs \in [Job -> JobState \cup {"absent"}]
        /\ \A j \in done : jobs[j] \in TerminalState
    BY <1>1, <1>12, FinishType
  <2>2. \A j \in Job \ done : jobs[j] = job[j]
    BY DEF Finish
  <2> QED BY <2>1, <2>2
<1>14. \A j \in Job : Fits(j, jobs, SweptItem)
  <2> HIDE DEF touched
  <2> QED BY <1>1, <1>3, <1>10, <1>11, FinishFits
<1> HIDE DEF jobs, done, touched
<1>15. \A j \in Job : Fits(j, jobs, item')
  BY <1>8, <1>14 DEF Fits, SameKinds
<1>16. \A j \in Job : job[j] = "absent" => ~Has(j, item', ItemState)
  <2> SUFFICES ASSUME NEW j \in Job, job[j] = "absent" PROVE ~Has(j, SweptItem, ItemState)
    BY <1>8 DEF SameKinds
  <2>1. j \notin touched
    BY <1>3
  <2>2. ~Has(j, item, ItemState)
    BY <1>1 DEF RowsBeginEmpty
  <2> QED BY <1>9, <2>1, <2>2 DEF Has
<1>17. /\ RowsBeginEmpty' /\ ActiveLimit' /\ NoIdlePlace' /\ SequenceIsOrder'
       /\ StartInOrder' /\ JobMatchesItems' /\ AnnouncedOnce'
  BY <1>4, <1>12, <1>13, <1>15, <1>16, NoNoticeType, NoNoticeQuiet, CloseAndPromoteInv
<1>18. LeaseAttemptsBounded' /\ AttemptsLeft'
  <2> SUFFICES ASSUME NEW i \in Item
               PROVE  /\ attempts'[i] <= MaxLeaseAttempts
                      /\ item'[i] = "failed" => attempts'[i] = MaxLeaseAttempts
                      /\ item'[i] = "pending" => attempts'[i] < MaxLeaseAttempts
                      /\ item'[i] = "absent" => attempts'[i] = 0
    BY DEF LeaseAttemptsBounded, AttemptsLeft
  <2>1. /\ attempts[i] \in Nat /\ MaxLeaseAttempts \in Nat
        /\ attempts[i] <= MaxLeaseAttempts
        /\ item[i] = "failed" => attempts[i] = MaxLeaseAttempts
        /\ item[i] = "pending" => attempts[i] < MaxLeaseAttempts
        /\ item[i] = "absent" => attempts[i] = 0
    BY <1>1, LimitAssumption DEF TypeOK, LeaseAttemptsBounded, AttemptsLeft
  <2>2. /\ SweptItem[i] = "failed" => attempts[i] = MaxLeaseAttempts
        /\ SweptItem[i] = "pending" => attempts[i] < MaxLeaseAttempts
        /\ SweptItem[i] = "absent" => attempts[i] = 0
    BY <1>5, <2>1
  <2>3. CASE i \in taken
    BY <1>7, <2>1, <2>2, <2>3
  <2>4. CASE i \notin taken
    BY <1>7, <2>1, <2>2, <2>4
  <2> QED BY <2>3, <2>4
<1> QED BY <1>2, <1>17, <1>18 DEF QueueInv

(* Publish keeps the invariant.                                             *)
LEMMA PublishInv ==
    ASSUME QueueInv, NEW c \in held, NEW status \in Outcome, Publish(c, status)
    PROVE  QueueInv'
<1> USE JobStateFacts
<1> DEFINE touched == IF CanPublish(c) THEN {c.item[1]} ELSE {}
           items == PublishedItem(c)
           done == Finishing(touched, items)
           jobs == Finish(done, items)
<1>1. TypeOK /\ RowsBeginEmpty /\ JobMatchesItems /\ LeaseAttemptsBounded /\ AttemptsLeft
  BY DEF QueueInv
<1>2. TypeOK'
  BY <1>1, PublishType
<1>3. c.item \in Item /\ c.item[1] \in Job /\ c.item = <<c.item[1], c.item[2]>>
  BY <1>1 DEF TypeOK, Claim, Item
<1>4. touched \in SUBSET Job /\ \A j \in touched : job[j] = "running"
  BY <1>3 DEF CanPublish
<1>5. /\ CloseAndPromote(done, jobs, NoNotice) /\ seq' = seq /\ requests' = requests
      /\ item' = items /\ attempts' = attempts
  BY DEF Publish, Observe
<1>6. \A i \in Item : items[i] = IF CanPublish(c) /\ i = c.item THEN "published" ELSE item[i]
  BY <1>1, <1>3 DEF PublishedItem, TypeOK
<1>7. \A j \in Job \ touched, k \in Key : items[<<j, k>>] = item[<<j, k>>]
  <2> SUFFICES ASSUME NEW j \in Job \ touched, NEW k \in Key
               PROVE  items[<<j, k>>] = item[<<j, k>>]
    OBVIOUS
  <2>1. <<j, k>> \in Item
    BY DEF Item
  <2>2. ~CanPublish(c) \/ <<j, k>> # c.item
    BY <1>3
  <2> QED BY <1>6, <2>1, <2>2
<1> HIDE DEF items
<1>8. \A j \in Job \ touched : Fits(j, job, items)
  <2> SUFFICES ASSUME NEW j \in Job \ touched PROVE Fits(j, job, items)
    OBVIOUS
  <2>1. Fits(j, job, item)
    BY <1>1 DEF JobMatchesItems
  <2> QED BY <1>7, <2>1 DEF Fits, Has
<1>9. \A j \in touched : job[j] = "running" /\ ~Has(j, items, {"cancelled"})
  <2> SUFFICES ASSUME NEW j \in touched PROVE ~Has(j, items, {"cancelled"})
    BY <1>4
  <2>1. Fits(j, job, item) /\ job[j] = "running" /\ j \in Job
    BY <1>1, <1>4 DEF JobMatchesItems
  <2>2. ~Has(j, item, {"cancelled"})
    BY <2>1 DEF Fits
  <2>3. \A k \in Key : items[<<j, k>>] \in {item[<<j, k>>], "published"}
    BY <1>6, <2>1 DEF Item
  <2> QED BY <2>2, <2>3 DEF Has
<1> HIDE DEF touched
<1>10. done \in SUBSET Job /\ \A j \in done : job[j] = "running"
  BY <1>4, FinishingType DEF Finishing
<1>11. /\ jobs \in [Job -> JobState \cup {"absent"}]
       /\ \A j \in done : jobs[j] \in TerminalState
       /\ \A j \in Job \ done : jobs[j] = job[j]
  <2> HIDE DEF done
  <2>1. /\ jobs \in [Job -> JobState \cup {"absent"}]
        /\ \A j \in done : jobs[j] \in TerminalState
    BY <1>1, <1>10, FinishType
  <2>2. \A j \in Job \ done : jobs[j] = job[j]
    BY DEF Finish
  <2> QED BY <2>1, <2>2
<1>12. \A j \in Job : Fits(j, jobs, items)
  BY <1>1, <1>4, <1>8, <1>9, FinishFits
<1> HIDE DEF jobs, done
<1>13. \A j \in Job : Fits(j, jobs, item')
  BY <1>5, <1>12
<1>14. \A j \in Job : job[j] = "absent" => ~Has(j, item', ItemState)
  <2> SUFFICES ASSUME NEW j \in Job, job[j] = "absent" PROVE ~Has(j, items, ItemState)
    BY <1>5
  <2>1. j \notin touched
    BY <1>4
  <2>2. ~Has(j, item, ItemState)
    BY <1>1 DEF RowsBeginEmpty
  <2> QED BY <1>7, <2>1, <2>2 DEF Has
<1>15. /\ RowsBeginEmpty' /\ ActiveLimit' /\ NoIdlePlace' /\ SequenceIsOrder'
       /\ StartInOrder' /\ JobMatchesItems' /\ AnnouncedOnce'
  BY <1>5, <1>10, <1>11, <1>13, <1>14, NoNoticeType, NoNoticeQuiet, CloseAndPromoteInv
<1>16. LeaseAttemptsBounded' /\ AttemptsLeft'
  <2>1. \A i \in Item : item'[i] \in {item[i], "published"}
    BY <1>5, <1>6
  <2> QED BY <1>1, <1>5, <2>1 DEF LeaseAttemptsBounded, AttemptsLeft
<1> QED BY <1>2, <1>15, <1>16 DEF QueueInv

(* The invariant is inductive.                                              *)
LEMMA QueueStep == QueueInv /\ [Next]_vars => QueueInv'
<1> SUFFICES ASSUME QueueInv, [Next]_vars PROVE QueueInv'
  OBVIOUS
<1>1. ASSUME NEW j \in Job, NEW plan \in SUBSET Key, Submit(j, plan) PROVE QueueInv'
  BY <1>1, SubmitInv
<1>2. ASSUME NEW r \in requests, Admit(r) PROVE QueueInv'
  BY <1>2, AdmitInv
<1>3. ASSUME NEW j \in Job, Cancel(j) PROVE QueueInv'
  BY <1>3, CancelInv
<1>4. ASSUME NEW w \in Worker, NEW n \in 1..MaxBatch, NEW a \in Affinity, ClaimMany(w, n, a)
      PROVE QueueInv'
  BY <1>4, ClaimManyInv
<1>5. ASSUME NEW c \in held, NEW status \in Outcome, Publish(c, status) PROVE QueueInv'
  BY <1>5, PublishInv
<1>6. ASSUME UNCHANGED <<requests, job, seq, item, attempts, log, outbox>> PROVE QueueInv'
  <2>1. TypeOK'
    BY TypeStep DEF QueueInv
  <2>2. RowsBeginEmpty'
    BY <1>6, RowsBeginEmptyKept
  <2> QED BY <1>6, <2>1, <2>2, QueueRowsUnchanged
<1>7. ASSUME NEW c \in held, Abandon(c) PROVE QueueInv'
  BY <1>6, <1>7 DEF Abandon
<1>8. ASSUME NEW i \in Item, LeaseExpires(i) PROVE QueueInv'
  BY <1>6, <1>8 DEF LeaseExpires
<1>9. ASSUME NEW pair \in open, BreakerCloses(pair) PROVE QueueInv'
  BY <1>6, <1>9 DEF BreakerCloses
<1>10. CASE UNCHANGED vars
  BY <1>6, <1>10 DEF vars
<1> QED BY <1>1, <1>2, <1>3, <1>4, <1>5, <1>7, <1>8, <1>9, <1>10 DEF Next

-----------------------------------------------------------------------------
(* The theorems                                                             *)

(* Every reachable state of the queue satisfies the inductive invariant.    *)
THEOREM Safety == Spec => []QueueInv
<1>1. Init => QueueInv
  BY InitInv
<1>2. QueueInv /\ [Next]_vars => QueueInv'
  BY QueueStep
<1> QED BY <1>1, <1>2, PTL DEF Spec

(* At most MaxActive jobs run at a time, whatever transactions of whatever  *)
(* clients and workers follow each other.                                   *)
THEOREM ActiveLimitHolds == Spec => []ActiveLimit
<1>1. QueueInv => ActiveLimit
  BY DEF QueueInv
<1> QED BY <1>1, Safety, PTL

(* No place stays free while a job waits.                                   *)
THEOREM NoIdlePlaceHolds == Spec => []NoIdlePlace
<1>1. QueueInv => NoIdlePlace
  BY DEF QueueInv
<1> QED BY <1>1, Safety, PTL

(* Jobs start in the order of their submission.                             *)
THEOREM StartInOrderHolds == Spec => []StartInOrder
<1>1. QueueInv => StartInOrder
  BY DEF QueueInv
<1> QED BY <1>1, Safety, PTL

(* The state of every job is the one its items justify.                     *)
THEOREM JobMatchesItemsHolds == Spec => []JobMatchesItems
<1>1. QueueInv => JobMatchesItems
  BY DEF QueueInv
<1> QED BY <1>1, Safety, PTL

(* The end of a job is announced exactly once.                              *)
THEOREM AnnouncedOnceHolds == Spec => []AnnouncedOnce
<1>1. QueueInv => AnnouncedOnce
  BY DEF QueueInv
<1> QED BY <1>1, Safety, PTL

(* No item is handed out more than MaxLeaseAttempts times.                  *)
THEOREM LeaseAttemptsBoundedHolds == Spec => []LeaseAttemptsBounded
<1>1. QueueInv => LeaseAttemptsBounded
  BY DEF QueueInv
<1> QED BY <1>1, Safety, PTL

-----------------------------------------------------------------------------
(* What no step does                                                        *)

(* A job that ended is not ended again, and not started.                    *)
LEMMA EndedKept ==
    ASSUME QueueInv,
           NEW ended \in SUBSET Job,
           NEW jobs \in [Job -> JobState \cup {"absent"}],
           \A j \in ended : jobs[j] \in TerminalState,
           \A j \in Job \ ended : jobs[j] = job[j],
           NEW notice,
           CloseAndPromote(ended, jobs, notice),
           NEW j \in Job, job[j] \in TerminalState, j \notin ended
    PROVE  job'[j] = job[j] /\ log'[j] = log[j] /\ outbox'[j] = outbox[j]
<1>1. PICK P \in SUBSET Job : EndsAndStarts(P, ended, jobs, notice)
  BY CloseAndPromotePlaces DEF QueueInv
<1>2. j \notin P
  BY <1>1, JobStateFacts DEF EndsAndStarts
<1> QED BY <1>1, <1>2 DEF EndsAndStarts

(* The items of a job that ended are not live.                              *)
LEMMA EndedItems ==
    ASSUME QueueInv, NEW j \in Job, job[j] \in TerminalState, NEW k \in Key
    PROVE  item[<<j, k>>] \notin LiveItemState
<1>1. Fits(j, job, item)
  BY DEF QueueInv, JobMatchesItems
<1> QED BY <1>1, JobStateFacts DEF Fits, Has

(* ClaimMany changes no job that ended and no published item.               *)
LEMMA ClaimManyKeeps ==
    ASSUME QueueInv, NEW w \in Worker, NEW n \in 1..MaxBatch, NEW a \in Affinity,
           ClaimMany(w, n, a),
           NEW j \in Job, job[j] \in TerminalState
    PROVE  /\ job'[j] = job[j] /\ log'[j] = log[j] /\ outbox'[j] = outbox[j]
           /\ \A k \in Key : item'[<<j, k>>] = item[<<j, k>>]
<1> USE JobStateFacts
<1> DEFINE done == Finishing({i[1] : i \in Expired}, SweptItem)
           jobs == Finish(done, SweptItem)
<1>1. TypeOK /\ job[j] \notin {"queued", "running"}
  BY DEF QueueInv
<1>2. done \in SUBSET Job /\ \A o \in done : job[o] = "running"
  BY <1>1, SweepType, FinishingType DEF Finishing
<1>3. CloseAndPromote(done, jobs, NoNotice)
  BY DEF ClaimMany
<1>4. PICK taken \in SUBSET Item :
        /\ \A i \in taken : SweptItem[i] = "pending"
        /\ item' = [i \in Item |-> IF i \in taken THEN "running" ELSE SweptItem[i]]
  BY ONLY ClaimManyTakes, ClaimMany(w, n, a)
<1>5. ASSUME NEW k \in Key PROVE item'[<<j, k>>] = item[<<j, k>>]
  <2>1. <<j, k>> \in Item /\ <<j, k>> \notin Expired
    BY <1>1 DEF Item, Expired
  <2>2. SweptItem[<<j, k>>] = item[<<j, k>>]
    BY <2>1 DEF SweptItem
  <2>3. item[<<j, k>>] # "pending"
    BY EndedItems DEF LiveItemState
  <2> QED BY <1>4, <2>1, <2>2, <2>3
<1>6. /\ jobs \in [Job -> JobState \cup {"absent"}]
      /\ \A o \in done : jobs[o] \in TerminalState
      /\ \A o \in Job \ done : jobs[o] = job[o]
  <2> HIDE DEF done
  <2>1. /\ jobs \in [Job -> JobState \cup {"absent"}]
        /\ \A o \in done : jobs[o] \in TerminalState
    BY <1>1, <1>2, FinishType
  <2>2. \A o \in Job \ done : jobs[o] = job[o]
    BY DEF Finish
  <2> QED BY <2>1, <2>2
<1> HIDE DEF done, jobs
<1>7. j \notin done
  BY <1>1, <1>2
<1> QED BY <1>2, <1>3, <1>5, <1>6, <1>7, EndedKept

(* Publish changes no job that ended and no published item.                 *)
LEMMA PublishKeeps ==
    ASSUME QueueInv, NEW c \in held, NEW status \in Outcome, Publish(c, status),
           NEW j \in Job, job[j] \in TerminalState
    PROVE  /\ job'[j] = job[j] /\ log'[j] = log[j] /\ outbox'[j] = outbox[j]
           /\ \A k \in Key : item'[<<j, k>>] = item[<<j, k>>]
<1> USE JobStateFacts
<1> DEFINE touched == IF CanPublish(c) THEN {c.item[1]} ELSE {}
           done == Finishing(touched, PublishedItem(c))
           jobs == Finish(done, PublishedItem(c))
<1>1. TypeOK /\ job[j] \notin {"queued", "running"}
  BY DEF QueueInv
<1>2. c.item \in Item /\ c.item[1] \in Job /\ c.item = <<c.item[1], c.item[2]>>
  BY <1>1 DEF TypeOK, Claim, Item
<1>3. done \in SUBSET Job /\ \A o \in done : job[o] = "running"
  BY <1>2, FinishingType DEF Finishing
<1>4. CloseAndPromote(done, jobs, NoNotice) /\ item' = PublishedItem(c)
  BY DEF Publish, Observe
<1>5. ASSUME NEW k \in Key PROVE item'[<<j, k>>] = item[<<j, k>>]
  <2>1. ~CanPublish(c) \/ <<j, k>> # c.item
    BY <1>1, <1>2 DEF CanPublish
  <2>2. <<j, k>> \in Item
    BY DEF Item
  <2> QED BY <1>1, <1>2, <1>4, <2>1, <2>2 DEF PublishedItem, TypeOK
<1>6. /\ jobs \in [Job -> JobState \cup {"absent"}]
      /\ \A o \in done : jobs[o] \in TerminalState
      /\ \A o \in Job \ done : jobs[o] = job[o]
  <2> HIDE DEF done
  <2>1. /\ jobs \in [Job -> JobState \cup {"absent"}]
        /\ \A o \in done : jobs[o] \in TerminalState
    BY <1>1, <1>3, FinishType
  <2>2. \A o \in Job \ done : jobs[o] = job[o]
    BY DEF Finish
  <2> QED BY <2>1, <2>2
<1> HIDE DEF done, jobs
<1>7. j \notin done
  BY <1>1, <1>3
<1> QED BY <1>3, <1>4, <1>5, <1>6, <1>7, EndedKept

(* A job that ended stays as it is: no late publish, no sweep and no second *)
(* cancellation changes its state, its items, its events or what was        *)
(* announced of it.                                                         *)
THEOREM EndedStaysEnded == Spec => EndedIsFinal
<1> USE JobStateFacts
<1> DEFINE Kept(j) == /\ job'[j] = job[j] /\ log'[j] = log[j] /\ outbox'[j] = outbox[j]
                      /\ \A k \in Key : item'[<<j, k>>] = item[<<j, k>>]
<1>1. ASSUME QueueInv, [Next]_vars, NEW j \in Job, job[j] \in TerminalState
      PROVE  Kept(j)
  <2>0. UNCHANGED <<job, log, outbox, item>> => Kept(j)
    OBVIOUS
  <2>1. ASSUME NEW o \in Job, NEW plan \in SUBSET Key, Submit(o, plan) PROVE Kept(j)
    BY <2>0, <2>1 DEF Submit
  <2>2. ASSUME NEW r \in requests, Admit(r) PROVE Kept(j)
    <3>1. r.job # j /\ TypeOK
      BY <1>1 DEF QueueInv, RowsBeginEmpty
    <3>2. job'[j] = job[j] /\ log'[j] = log[j] /\ outbox'[j] = outbox[j]
      BY <1>1, <2>2, <3>1 DEF Admit, TypeOK
    <3>3. \A k \in Key : item'[<<j, k>>] = item[<<j, k>>]
      BY <1>1, <2>2, <3>1 DEF Admit, Item
    <3> QED BY <3>2, <3>3
  <2>3. ASSUME NEW o \in Job, Cancel(o) PROVE Kept(j)
    <3> DEFINE jobs == [job EXCEPT ![o] = "cancelled"]
               notice == [NoNotice EXCEPT ![o] = IF job[o] = "running"
                                     THEN <<"cancellation_requested">> ELSE <<>>]
    <3>1. j # o
      BY <1>1, <2>3 DEF Cancel, Cancellable
    <3>2. CloseAndPromote({o}, jobs, notice)
      BY <2>3 DEF Cancel, Cancellable
    <3>3. /\ jobs \in [Job -> JobState \cup {"absent"}] /\ jobs[o] = "cancelled"
          /\ \A q \in Job \ {o} : jobs[q] = job[q]
      BY <1>1, <2>3 DEF QueueInv, TypeOK
    <3> HIDE DEF jobs, notice
    <3>4. job'[j] = job[j] /\ log'[j] = log[j] /\ outbox'[j] = outbox[j]
      BY <1>1, <2>3, <3>1, <3>2, <3>3, EndedKept
    <3>5. \A k \in Key : item'[<<j, k>>] = item[<<j, k>>]
      BY <1>1, <2>3, <3>1 DEF Cancel, Cancellable, Item
    <3> QED BY <3>4, <3>5
  <2>4. ASSUME NEW w \in Worker, NEW n \in 1..MaxBatch, NEW a \in Affinity, ClaimMany(w, n, a)
        PROVE Kept(j)
    BY <1>1, <2>4, ClaimManyKeeps
  <2>5. ASSUME NEW c \in held, NEW status \in Outcome, Publish(c, status) PROVE Kept(j)
    BY <1>1, <2>5, PublishKeeps
  <2>6. ASSUME NEW c \in held, Abandon(c) PROVE Kept(j)
    BY <2>0, <2>6 DEF Abandon
  <2>7. ASSUME NEW i \in Item, LeaseExpires(i) PROVE Kept(j)
    BY <2>0, <2>7 DEF LeaseExpires
  <2>8. ASSUME NEW pair \in open, BreakerCloses(pair) PROVE Kept(j)
    BY <2>0, <2>8 DEF BreakerCloses
  <2>9. CASE UNCHANGED vars
    BY <2>0, <2>9 DEF vars
  <2> HIDE DEF Kept
  <2> QED BY <1>1, <2>1, <2>2, <2>3, <2>4, <2>5, <2>6, <2>7, <2>8, <2>9 DEF Next
<1>2. QueueInv /\ [Next]_vars =>
        [\A j \in Job : job[j] \in TerminalState =>
          /\ job'[j] = job[j] /\ log'[j] = log[j] /\ outbox'[j] = outbox[j]
          /\ \A k \in Key : item'[<<j, k>>] = item[<<j, k>>]]_vars
  BY <1>1
<1> QED BY <1>2, Safety, PTL DEF Spec, EndedIsFinal

(* What was published is kept by every later step, cancellation included.   *)
THEOREM PublishedStaysPublished == Spec => PublishedIsFinal
<1>1. ASSUME QueueInv, [Next]_vars, NEW i \in Item, item[i] = "published"
      PROVE  item'[i] = "published"
  <2>1. ASSUME NEW o \in Job, NEW plan \in SUBSET Key, Submit(o, plan)
        PROVE item'[i] = "published"
    BY <1>1, <2>1 DEF Submit
  <2>2. ASSUME NEW r \in requests, Admit(r) PROVE item'[i] = "published"
    <3>1. CASE i[1] # r.job
      BY <1>1, <2>2, <3>1 DEF Admit
    <3>2. CASE i[1] = r.job
      <4>1. i[1] \in Job /\ i[2] \in Key /\ i = <<i[1], i[2]>>
        BY DEF Item
      <4>2. ~Has(r.job, item, ItemState)
        BY <1>1, <2>2, <3>2, <4>1 DEF QueueInv, RowsBeginEmpty
      <4>3. item[i] \notin ItemState
        BY <3>2, <4>1, <4>2 DEF Has
      <4> QED BY <1>1, <4>3 DEF ItemState
    <3> QED BY <3>1, <3>2
  <2>3. ASSUME NEW o \in Job, Cancel(o) PROVE item'[i] = "published"
    BY <1>1, <2>3 DEF Cancel, Cancellable, LiveItemState
  <2>4. ASSUME NEW w \in Worker, NEW n \in 1..MaxBatch, NEW a \in Affinity, ClaimMany(w, n, a)
        PROVE item'[i] = "published"
    <3>1. SweptItem[i] = "published"
      BY <1>1 DEF SweptItem, Expired
    <3>2. PICK taken \in SUBSET Item :
            /\ \A o \in taken : SweptItem[o] = "pending"
            /\ item' = [o \in Item |-> IF o \in taken THEN "running" ELSE SweptItem[o]]
      BY ONLY <2>4, ClaimManyTakes
    <3> QED BY <3>1, <3>2
  <2>5. ASSUME NEW c \in held, NEW status \in Outcome, Publish(c, status)
        PROVE item'[i] = "published"
    BY <1>1, <2>5 DEF Publish, Observe, PublishedItem, QueueInv, TypeOK
  <2>6. ASSUME NEW c \in held, Abandon(c) PROVE item'[i] = "published"
    BY <1>1, <2>6 DEF Abandon
  <2>7. ASSUME NEW o \in Item, LeaseExpires(o) PROVE item'[i] = "published"
    BY <1>1, <2>7 DEF LeaseExpires
  <2>8. ASSUME NEW pair \in open, BreakerCloses(pair) PROVE item'[i] = "published"
    BY <1>1, <2>8 DEF BreakerCloses
  <2>9. CASE UNCHANGED vars
    BY <1>1, <2>9 DEF vars
  <2> QED BY <1>1, <2>1, <2>2, <2>3, <2>4, <2>5, <2>6, <2>7, <2>8, <2>9 DEF Next
<1>2. QueueInv /\ [Next]_vars =>
        [\A i \in Item : item[i] = "published" => item'[i] = "published"]_vars
  BY <1>1
<1> QED BY <1>2, Safety, PTL DEF Spec, PublishedIsFinal

-----------------------------------------------------------------------------
(* What the claims and the observations tell                                *)

(* A step that hands nothing out and gives no lease to anybody keeps the    *)
(* latest claims in possession.                                             *)
LEMMA LatestClaimKept ==
    ASSUME LatestClaimOwns, TypeOK,
           held' \subseteq held, attempts' = attempts,
           \A i \in Item : item'[i] = "running" =>
               item[i] = "running" /\ lease'[i].owner = lease[i].owner
    PROVE  LatestClaimOwns'
<1> SUFFICES ASSUME NEW c \in held'
             PROVE  /\ c.attempt <= attempts[c.item]
                    /\ item'[c.item] = "running" /\ c.attempt = attempts[c.item] =>
                          lease'[c.item].owner = c.worker
  BY DEF LatestClaimOwns
<1>1. c \in held /\ c.item \in Item
  BY DEF TypeOK, Claim
<1> QED BY <1>1 DEF LatestClaimOwns

(* Who takes an item gets its latest claim: the ones before are older.      *)
LEMMA ClaimManyLatest ==
    ASSUME LatestClaimOwns, TypeOK, NEW w \in Worker, NEW n \in 1..MaxBatch,
           NEW a \in Affinity, ClaimMany(w, n, a)
    PROVE  LatestClaimOwns'
<1>1. PICK taken \in SUBSET Item :
        /\ item' = [i \in Item |-> IF i \in taken THEN "running" ELSE SweptItem[i]]
        /\ attempts' = [i \in Item |-> IF i \in taken THEN attempts[i] + 1 ELSE attempts[i]]
        /\ lease' = [i \in Item |->
             IF i \in taken THEN [owner |-> w, fence |-> fence[i[1]], expired |-> FALSE]
             ELSE IF i \in Expired THEN [lease[i] EXCEPT !.owner = Nobody, !.expired = FALSE]
             ELSE lease[i]]
        /\ held' = held \cup
             {[item |-> i, worker |-> w, fence |-> fence[i[1]],
               attempt |-> attempts[i] + 1] : i \in taken}
  BY ClaimManyTakes
<1>2. ASSUME NEW i \in taken
      PROVE attempts'[i] = attempts[i] + 1 /\ lease'[i].owner = w /\ attempts[i] \in Nat
  BY <1>1 DEF TypeOK
<1>3. ASSUME NEW i \in Item \ taken, item'[i] = "running"
      PROVE item[i] = "running" /\ lease'[i].owner = lease[i].owner
  BY <1>1, <1>3 DEF SweptItem, Expired
<1>4. ASSUME NEW c \in held
      PROVE  /\ c.attempt <= attempts'[c.item]
             /\ item'[c.item] = "running" /\ c.attempt = attempts'[c.item] =>
                   lease'[c.item].owner = c.worker
  <2>1. c.item \in Item /\ c.attempt \in Nat /\ c.attempt <= attempts[c.item]
        /\ attempts[c.item] \in Nat
    BY DEF TypeOK, Claim, LatestClaimOwns
  <2>2. CASE c.item \in taken
    BY <1>2, <2>1, <2>2
  <2>3. CASE c.item \notin taken
    <3>1. attempts'[c.item] = attempts[c.item]
      BY <1>1, <2>1, <2>3
    <3> QED BY <1>3, <2>1, <2>3, <3>1 DEF LatestClaimOwns
  <2> QED BY <2>2, <2>3
<1>5. ASSUME NEW i \in taken,
             NEW c, c = [item |-> i, worker |-> w, fence |-> fence[i[1]],
                         attempt |-> attempts[i] + 1]
      PROVE  c.attempt <= attempts'[c.item] /\ lease'[c.item].owner = c.worker
  BY <1>2, <1>5
<1>6. \A c \in held' : c \in held \/
        \E i \in taken : c = [item |-> i, worker |-> w, fence |-> fence[i[1]],
                             attempt |-> attempts[i] + 1]
  BY <1>1
<1> QED BY <1>4, <1>5, <1>6 DEF LatestClaimOwns

(* A step that publishes nothing and records nothing keeps the observations.*)
LEMMA ObservationsUntouched ==
    ASSUME ObservationsKept, ReuseIsStored, UNCHANGED <<entry, ledger>>,
           requests' \subseteq requests,
           \A i \in Item : item'[i] = "published" => item[i] = "published"
    PROVE  ObservationsKept' /\ ReuseIsStored'
  BY DEF ObservationsKept, ReuseIsStored

(* Every entry comes from an observation; a publish writes both.            *)
LEMMA PublishObserves ==
    ASSUME ObservationsKept, ReuseIsStored, TypeOK, NEW c \in held,
           NEW status \in Outcome, Publish(c, status)
    PROVE  ObservationsKept' /\ ReuseIsStored'
<1>1. c.item \in Item /\ c.item[2] \in Key /\ status # "absent"
  BY TableAssumption DEF TypeOK, Claim, Item
<1>2. /\ entry' = [entry EXCEPT ![c.item[2]] = status]
      /\ ledger' = ledger \cup {c.item}
      /\ requests' = requests
      /\ item' = PublishedItem(c)
  BY DEF Publish, Observe
<1>3. entry'[c.item[2]] # "absent"
      /\ \A k \in Key \ {c.item[2]} : entry'[k] = entry[k]
  BY <1>1, <1>2 DEF TypeOK
<1>4. \A k \in Key : entry[k] # "absent" => entry'[k] # "absent"
  BY <1>3
<1>5. \A k \in Key : entry'[k] # "absent" <=> \E i \in ledger' : i[2] = k
  BY <1>2, <1>3 DEF ObservationsKept
<1>6. ASSUME NEW i \in Item, item'[i] = "published" PROVE entry'[i[2]] # "absent"
  <2>1. i[2] \in Key
    BY DEF Item
  <2>2. i = c.item \/ item[i] = "published"
    BY <1>1, <1>2, <1>6 DEF PublishedItem, TypeOK
  <2> QED BY <1>3, <1>4, <2>1, <2>2 DEF ObservationsKept
<1>7. \A r \in requests : r.reuse \subseteq Key
  BY DEF TypeOK, Request
<1> QED BY <1>2, <1>4, <1>5, <1>6, <1>7 DEF ObservationsKept, ReuseIsStored

(* The invariant of the claims holds in every step of the queue.            *)
LEMMA ClaimsStep == QueueInv /\ ClaimsInv /\ [Next]_vars => ClaimsInv'
<1> SUFFICES ASSUME QueueInv, ClaimsInv, [Next]_vars PROVE ClaimsInv'
  OBVIOUS
<1> USE DEF ClaimsInv
<1>0. TypeOK
  BY DEF QueueInv
<1>1. ASSUME NEW j \in Job, NEW plan \in SUBSET Key, Submit(j, plan) PROVE ClaimsInv'
  <2>1. LatestClaimOwns'
    BY <1>1 DEF Submit, LatestClaimOwns
  <2>2. ObservationsKept'
    BY <1>1 DEF Submit, ObservationsKept
  <2>3. PICK reuse \in SUBSET (plan \cap Reusable(j)) :
          requests' = requests \cup {[job |-> j, plan |-> plan, reuse |-> reuse]}
    BY <1>1 DEF Submit
  <2>4. \A k \in reuse : entry[k] # "absent"
    BY DEF Reusable, ReusableStatus
  <2>5. ReuseIsStored'
    BY <1>1, <2>3, <2>4 DEF Submit, ReuseIsStored
  <2> QED BY <2>1, <2>2, <2>5
<1>2. ASSUME NEW r \in requests, Admit(r) PROVE ClaimsInv'
  <2>1. LatestClaimOwns'
    BY <1>0, <1>2, LatestClaimKept DEF Admit
  <2>2. ASSUME NEW i \in Item, item'[i] = "published" PROVE entry[i[2]] # "absent"
    <3>1. item[i] = "published" \/ i[2] \in r.reuse
      BY <1>2, <2>2 DEF Admit
    <3> QED BY <3>1 DEF ObservationsKept, ReuseIsStored
  <2>3. ObservationsKept' /\ ReuseIsStored'
    BY <1>2, <2>2 DEF Admit, ObservationsKept, ReuseIsStored
  <2> QED BY <2>1, <2>3
<1>3. ASSUME NEW j \in Job, Cancel(j) PROVE ClaimsInv'
  <2>1. item' = [i \in Item |-> IF i[1] = j /\ item[i] \in LiveItemState
                                THEN "cancelled" ELSE item[i]]
        /\ UNCHANGED <<requests, lease, attempts, entry, ledger, held>>
    BY <1>3 DEF Cancel
  <2>2. LatestClaimOwns'
    BY <1>0, <2>1, LatestClaimKept
  <2>3. ObservationsKept' /\ ReuseIsStored'
    BY <2>1, ObservationsUntouched
  <2> QED BY <2>2, <2>3
<1>4. ASSUME NEW w \in Worker, NEW n \in 1..MaxBatch, NEW a \in Affinity, ClaimMany(w, n, a)
      PROVE ClaimsInv'
  <2>1. LatestClaimOwns'
    BY <1>0, <1>4, ClaimManyLatest
  <2>2. PICK taken \in SUBSET Item :
          item' = [o \in Item |-> IF o \in taken THEN "running" ELSE SweptItem[o]]
    BY ONLY <1>4, ClaimManyTakes
  <2>3. \A i \in Item : item'[i] = "published" => item[i] = "published"
    BY <2>2 DEF SweptItem
  <2>4. UNCHANGED <<entry, ledger>> /\ requests' = requests
    BY <1>4 DEF ClaimMany
  <2> QED BY <2>1, <2>3, <2>4, ObservationsUntouched
<1>5. ASSUME NEW c \in held, NEW status \in Outcome, Publish(c, status) PROVE ClaimsInv'
  <2>1. /\ held' \subseteq held /\ attempts' = attempts
        /\ item' = PublishedItem(c)
        /\ lease' = IF CanPublish(c)
              THEN [lease EXCEPT ![c.item].owner = Nobody, ![c.item].expired = FALSE]
              ELSE lease
    BY <1>5 DEF Publish
  <2>2. c.item \in Item
    BY <1>0 DEF TypeOK, Claim
  <2>3. ASSUME NEW i \in Item, item'[i] = "running"
        PROVE item[i] = "running" /\ lease'[i].owner = lease[i].owner
    BY <1>0, <2>1, <2>2, <2>3 DEF PublishedItem, TypeOK
  <2>4. LatestClaimOwns'
    BY <1>0, <2>1, <2>3, LatestClaimKept
  <2> QED BY <1>0, <1>5, <2>4, PublishObserves
<1>6. ASSUME NEW c \in held, Abandon(c) PROVE ClaimsInv'
  BY <1>0, <1>6, LatestClaimKept, ObservationsUntouched DEF Abandon
<1>7. ASSUME NEW i \in Item, LeaseExpires(i) PROVE ClaimsInv'
  <2>1. lease' = [lease EXCEPT ![i].expired = TRUE]
        /\ UNCHANGED <<requests, item, attempts, entry, ledger, held>>
    BY <1>7 DEF LeaseExpires
  <2>2. \A o \in Item : lease'[o].owner = lease[o].owner
    BY <1>0, <2>1 DEF TypeOK, Lease
  <2> QED BY <1>0, <2>1, <2>2, LatestClaimKept, ObservationsUntouched
<1>8. ASSUME NEW pair \in open, BreakerCloses(pair) PROVE ClaimsInv'
  BY <1>0, <1>8, LatestClaimKept, ObservationsUntouched DEF BreakerCloses
<1>9. CASE UNCHANGED vars
  BY <1>0, <1>9, LatestClaimKept, ObservationsUntouched DEF vars
<1> QED BY <1>1, <1>2, <1>3, <1>4, <1>5, <1>6, <1>7, <1>8, <1>9 DEF Next

(* A running item belongs to the worker of its latest claim, and every      *)
(* stored answer is one that was observed.                                  *)
THEOREM ClaimsSafety == Spec => []ClaimsInv
<1>1. Init => ClaimsInv
  BY DEF Init, ClaimsInv, LatestClaimOwns, ObservationsKept, ReuseIsStored
<1>2. QueueInv /\ ClaimsInv /\ [Next]_vars => ClaimsInv'
  BY ClaimsStep
<1> QED BY <1>1, <1>2, Safety, PTL DEF Spec

(* While an item's latest claim is being worked on, no other worker can     *)
(* publish the item, however often it changed hands.                        *)
THEOREM OneWorkerPublishesHolds == Spec => []OneWorkerPublishes
<1>1. QueueInv /\ ClaimsInv => OneWorkerPublishes
  <2> SUFFICES ASSUME LatestClaimOwns, NEW c \in held, NEW d \in held, CanPublish(c),
                      c.item = d.item, d.attempt = attempts[d.item]
               PROVE  c.worker = d.worker
    BY DEF ClaimsInv, OneWorkerPublishes
  <2> QED BY DEF CanPublish, LatestClaimOwns
<1> QED BY <1>1, Safety, ClaimsSafety, PTL

(* A pair has a stored answer exactly when some publish recorded a fetch    *)
(* history for it, stale publishes and reused answers included.             *)
THEOREM ObservationsKeptHolds == Spec => []ObservationsKept
<1>1. ClaimsInv => ObservationsKept
  BY DEF ClaimsInv
<1> QED BY <1>1, ClaimsSafety, PTL

-----------------------------------------------------------------------------
(* JobQueue implements FifoAdmission: the row states, the queue numbers and *)
(* the promotion query together are a line in front of a fixed number of    *)
(* places.                                                                  *)

Running == JobsIn(ActiveState, job)
Ended == JobsIn(TerminalState, job)
Ahead == {p \in Waiting \X Waiting : seq[p[1]] < seq[p[2]]}

(* The instance counts as this module does.                                 *)
LEMMA SameCardinality == \A S : Fifo!Cardinality(S) = Cardinality(S)
BY DEF Fifo!Cardinality, Cardinality

(* The transactions that end jobs and promote are steps of the line.        *)
LEMMA CloseAndPromoteLeaves ==
    ASSUME QueueInv, QueueInv',
           NEW ended \in SUBSET Job,
           NEW jobs \in [Job -> JobState \cup {"absent"}],
           \A j \in ended : job[j] \in {"queued", "running"} /\ jobs[j] \in TerminalState,
           \A j \in Job \ ended : jobs[j] = job[j],
           NEW notice,
           CloseAndPromote(ended, jobs, notice),
           seq' = seq
    PROVE  [Fifo!Next]_(Fifo!vars)
<1> USE JobStateFacts
<1>1. CASE ended = {}
  <2>1. job' = [j \in Job |-> jobs[j]]
    BY <1>1 DEF CloseAndPromote
  <2>2. job' = job
    BY <1>1, <2>1 DEF QueueInv, TypeOK
  <2> QED BY <2>2 DEF Fifo!vars, Waiting, JobsIn
<1>2. CASE ended # {}
  <2>1. PICK P \in SUBSET Job : EndsAndStarts(P, ended, jobs, notice)
    BY CloseAndPromotePlaces DEF QueueInv
  <2>2. \A j \in Job : job'[j] = IF j \in P THEN "running" ELSE jobs[j]
    BY <2>1 DEF EndsAndStarts
  <2>3. \A j \in P : job[j] = "queued" /\ j \notin ended
    BY <2>1 DEF EndsAndStarts
  <2>4. Waiting' = Waiting \ (ended \cup P)
    BY <2>2, <2>3 DEF Waiting, JobsIn
  <2>5. Running' = (Running \ ended) \cup P
    BY <2>2, <2>3 DEF Running, JobsIn
  <2>6. Ended' = Ended \cup ended
    BY <2>2, <2>3 DEF Ended, JobsIn
  <2>7. ended \in SUBSET (Waiting \cup Running) /\ P \in SUBSET (Waiting \ ended)
    BY <2>3 DEF Waiting, Running, JobsIn
  <2>8. \A p \in P, q \in Waiting' : <<p, q>> \in Ahead
    <3> SUFFICES ASSUME NEW p \in P, NEW q \in Waiting' PROVE <<p, q>> \in Ahead
      OBVIOUS
    <3>1. q \in Waiting /\ q \notin P /\ q \notin ended /\ job[q] = "queued" /\ q \in Job
      BY <2>4 DEF Waiting, JobsIn
    <3>2. seq[p] < seq[q]
      BY <2>1, <3>1 DEF EndsAndStarts
    <3> QED BY <2>7, <3>1, <3>2 DEF Ahead
  <2>9. Ahead' = Ahead \cap (Waiting' \X Waiting')
    <3>1. Waiting' \subseteq Waiting
      BY <2>4
    <3> QED BY <3>1 DEF Ahead
  <2>10. /\ Cardinality(Running') <= MaxActive
         /\ Waiting' # {} => Cardinality(Running') = MaxActive
    BY DEF QueueInv, ActiveLimit, NoIdlePlace, Running, Waiting
  <2>11. Fifo!Leave(ended)
    BY <1>2, <2>4, <2>5, <2>6, <2>7, <2>8, <2>9, <2>10, SameCardinality DEF Fifo!Leave, Running, Ended, Ahead
  <2> QED BY <2>7, <2>11 DEF Fifo!Next, Running
<1> QED BY <1>1, <1>2

(* A submission enters the line, takes a place or is done at once.          *)
LEMMA AdmitEnters ==
    ASSUME QueueInv, NEW r \in requests, Admit(r)
    PROVE  Fifo!Enter(r.job) /\ r.job \in Job
<1> USE JobStateFacts
<1> DEFINE n == r.job
           state == AdmittedState(r)
<1>1. n \in Job /\ job[n] = "absent" /\ TypeOK
  BY DEF QueueInv, TypeOK, Request, RowsBeginEmpty
<1>2. /\ state \in {"completed", "running", "queued"}
      /\ job' = [job EXCEPT ![n] = state]
      /\ seq' = [seq EXCEPT ![n] = 1 + Cardinality(JobsIn(JobState, job))]
  BY DEF Admit, AdmittedState
<1>3. \A j \in Job : /\ job'[j] = IF j = n THEN state ELSE job[j]
                     /\ j # n => seq'[j] = seq[j]
  BY <1>1, <1>2 DEF TypeOK
<1>4. n \notin Waiting \cup Running \cup Ended
  BY <1>1 DEF Waiting, Running, Ended, JobsIn
<1>5. Waiting' = IF state = "queued" THEN Waiting \cup {n} ELSE Waiting
  BY <1>1, <1>3 DEF Waiting, JobsIn
<1>6. Running' = IF state = "running" THEN Running \cup {n} ELSE Running
  BY <1>1, <1>2, <1>3 DEF Running, JobsIn
<1>7. Ended' = IF state = "completed" THEN Ended \cup {n} ELSE Ended
  BY <1>1, <1>2, <1>3 DEF Ended, JobsIn
<1>8. \A a, b \in Waiting : <<a, b>> \in Ahead' <=> <<a, b>> \in Ahead
  BY <1>3, <1>4, <1>5 DEF Ahead, Waiting, JobsIn
<1>9. CASE state = "running"
  <2>1. Cardinality(Running) < MaxActive
    BY <1>9 DEF AdmittedState, Running
  <2>2. Ahead' = Ahead
    BY <1>5, <1>8, <1>9 DEF Ahead
  <2> QED BY <1>1, <1>4, <1>5, <1>6, <1>7, <1>9, <2>1, <2>2, SameCardinality
          DEF Fifo!Enter, Running, Ended, Ahead
<1>10. CASE state = "completed"
  <2>1. Ahead' = Ahead
    BY <1>5, <1>8, <1>10 DEF Ahead
  <2> QED BY <1>1, <1>4, <1>5, <1>6, <1>7, <1>10, <2>1
          DEF Fifo!Enter, Running, Ended, Ahead
<1>11. CASE state = "queued"
  <2>1. Cardinality(Running) = MaxActive
    <3>1. ~(Cardinality(Running) < MaxActive)
      BY <1>11 DEF AdmittedState, Running
    <3>2. Cardinality(Running) <= MaxActive
      BY DEF QueueInv, ActiveLimit, Running
    <3> QED BY <3>1, <3>2, JobsInFinite, LimitAssumption DEF Running
  <2>2. \A a \in Waiting : a \in Job /\ seq'[a] < seq'[n] /\ seq'[a] \in Nat /\ seq'[n] \in Nat
    <3> SUFFICES ASSUME NEW a \in Waiting
                 PROVE  a \in Job /\ seq'[a] < seq'[n] /\ seq'[a] \in Nat /\ seq'[n] \in Nat
      OBVIOUS
    <3>1. a \in Job /\ job[a] # "absent" /\ a # n
      BY <1>1 DEF Waiting, JobsIn
    <3>2. seq[a] <= Cardinality(JobsIn(JobState, job)) /\ seq[a] \in Nat
      BY <3>1 DEF QueueInv, SequenceIsOrder, TypeOK
    <3>3. seq'[n] = 1 + Cardinality(JobsIn(JobState, job))
      BY <1>1, <1>2 DEF TypeOK
    <3> QED BY <1>3, <3>1, <3>2, <3>3, JobsInFinite
  <2>3. seq'[n] \in Nat
    <3>1. seq'[n] = 1 + Cardinality(JobsIn(JobState, job))
      BY <1>1, <1>2 DEF TypeOK
    <3> QED BY <3>1, JobsInFinite
  <2>4. Ahead' = Ahead \cup (Waiting \X {n})
    <3>1. ASSUME NEW a \in Waiting', NEW b \in Waiting'
          PROVE  <<a, b>> \in Ahead' <=> <<a, b>> \in Ahead \cup (Waiting \X {n})
      <4>1. <<a, b>> \in Ahead' <=> seq'[a] < seq'[b]
        BY DEF Ahead
      <4>2. CASE a \in Waiting /\ b \in Waiting
        BY <1>4, <1>8, <4>2
      <4>3. CASE a \in Waiting /\ b = n
        BY <2>2, <4>1, <4>3
      <4>4. CASE a = n /\ b \in Waiting
        <5>1. <<a, b>> \notin Ahead \cup (Waiting \X {n})
          BY <1>4, <4>4 DEF Ahead
        <5> QED BY <2>2, <4>1, <4>4, <5>1
      <4>5. CASE a = n /\ b = n
        <5>1. <<a, b>> \notin Ahead \cup (Waiting \X {n})
          BY <1>4, <4>5 DEF Ahead
        <5> QED BY <2>3, <4>1, <4>5, <5>1
      <4> QED BY <1>5, <1>11, <4>2, <4>3, <4>4, <4>5
    <3>2. Ahead' \subseteq Waiting' \X Waiting'
      BY DEF Ahead
    <3>3. Ahead \cup (Waiting \X {n}) \subseteq Waiting' \X Waiting'
      BY <1>5, <1>11 DEF Ahead
    <3> HIDE DEF n
    <3> QED BY <3>1, <3>2, <3>3
  <2> QED BY <1>1, <1>4, <1>5, <1>6, <1>7, <1>11, <2>1, <2>4, SameCardinality
          DEF Fifo!Enter, Running, Ended, Ahead
<1> QED BY <1>1, <1>2, <1>9, <1>10, <1>11

(* A transaction that leaves the jobs alone is no step of the line.         *)
LEMMA JobsUnchanged ==
    ASSUME UNCHANGED <<job, seq>>
    PROVE  UNCHANGED Fifo!vars
BY DEF Fifo!vars, Waiting, JobsIn

(* ClaimMany is a step of the line, or none.                                *)
LEMMA ClaimManyLeaves ==
    ASSUME QueueInv, QueueInv',
           NEW w \in Worker, NEW n \in 1..MaxBatch, NEW a \in Affinity, ClaimMany(w, n, a)
    PROVE  [Fifo!Next]_(Fifo!vars)
<1> DEFINE done == Finishing({i[1] : i \in Expired}, SweptItem)
           jobs == Finish(done, SweptItem)
<1>1. TypeOK
  BY DEF QueueInv
<1>2. done \in SUBSET Job /\ \A j \in done : job[j] = "running"
  BY <1>1, SweepType, FinishingType DEF Finishing
<1>3. CloseAndPromote(done, jobs, NoNotice) /\ seq' = seq
  BY DEF ClaimMany
<1>4. /\ jobs \in [Job -> JobState \cup {"absent"}]
      /\ \A o \in done : jobs[o] \in TerminalState
      /\ \A o \in Job \ done : jobs[o] = job[o]
  <2> HIDE DEF done
  <2>1. /\ jobs \in [Job -> JobState \cup {"absent"}]
        /\ \A o \in done : jobs[o] \in TerminalState
    BY <1>1, <1>2, FinishType
  <2>2. \A o \in Job \ done : jobs[o] = job[o]
    BY DEF Finish
  <2> QED BY <2>1, <2>2
<1> HIDE DEF done, jobs
<1> QED BY <1>2, <1>3, <1>4, CloseAndPromoteLeaves

(* Publish is a step of the line, or none.                                  *)
LEMMA PublishLeaves ==
    ASSUME QueueInv, QueueInv', NEW c \in held, NEW status \in Outcome, Publish(c, status)
    PROVE  [Fifo!Next]_(Fifo!vars)
<1> DEFINE touched == IF CanPublish(c) THEN {c.item[1]} ELSE {}
           done == Finishing(touched, PublishedItem(c))
           jobs == Finish(done, PublishedItem(c))
<1>1. TypeOK /\ c.item[1] \in Job
  BY DEF QueueInv, TypeOK, Claim, Item
<1>2. done \in SUBSET Job /\ \A j \in done : job[j] = "running"
  BY <1>1, FinishingType DEF Finishing
<1>3. CloseAndPromote(done, jobs, NoNotice) /\ seq' = seq
  BY DEF Publish
<1>4. /\ jobs \in [Job -> JobState \cup {"absent"}]
      /\ \A o \in done : jobs[o] \in TerminalState
      /\ \A o \in Job \ done : jobs[o] = job[o]
  <2> HIDE DEF done
  <2>1. /\ jobs \in [Job -> JobState \cup {"absent"}]
        /\ \A o \in done : jobs[o] \in TerminalState
    BY <1>1, <1>2, FinishType
  <2>2. \A o \in Job \ done : jobs[o] = job[o]
    BY DEF Finish
  <2> QED BY <2>1, <2>2
<1> HIDE DEF done, jobs
<1> QED BY <1>2, <1>3, <1>4, CloseAndPromoteLeaves

(* Cancel is a step of the line.                                            *)
LEMMA CancelLeaves ==
    ASSUME QueueInv, QueueInv', NEW j \in Job, Cancel(j)
    PROVE  [Fifo!Next]_(Fifo!vars)
<1> DEFINE jobs == [job EXCEPT ![j] = "cancelled"]
           notice == [NoNotice EXCEPT ![j] = IF job[j] = "running"
                                 THEN <<"cancellation_requested">> ELSE <<>>]
<1>1. job[j] \in {"queued", "running"}
  BY JobStateFacts DEF QueueInv, RowsBeginEmpty, Cancel, Cancellable
<1>2. CloseAndPromote({j}, jobs, notice) /\ seq' = seq
  BY DEF Cancel
<1>3. /\ jobs \in [Job -> JobState \cup {"absent"}] /\ jobs[j] \in TerminalState
      /\ \A o \in Job \ {j} : jobs[o] = job[o]
  BY JobStateFacts DEF QueueInv, TypeOK
<1> HIDE DEF jobs, notice
<1> QED BY <1>1, <1>2, <1>3, CloseAndPromoteLeaves

(* Every step of the queue is a step of the line, or none.                  *)
LEMMA FifoStep == QueueInv /\ QueueInv' /\ [Next]_vars => [Fifo!Next]_(Fifo!vars)
<1> SUFFICES ASSUME QueueInv, QueueInv', [Next]_vars PROVE [Fifo!Next]_(Fifo!vars)
  OBVIOUS
<1>1. ASSUME NEW j \in Job, NEW plan \in SUBSET Key, Submit(j, plan)
      PROVE [Fifo!Next]_(Fifo!vars)
  BY <1>1, JobsUnchanged DEF Submit
<1>2. ASSUME NEW r \in requests, Admit(r) PROVE [Fifo!Next]_(Fifo!vars)
  BY <1>2, AdmitEnters DEF Fifo!Next
<1>3. ASSUME NEW j \in Job, Cancel(j) PROVE [Fifo!Next]_(Fifo!vars)
  BY <1>3, CancelLeaves
<1>4. ASSUME NEW w \in Worker, NEW n \in 1..MaxBatch, NEW a \in Affinity, ClaimMany(w, n, a)
      PROVE [Fifo!Next]_(Fifo!vars)
  BY <1>4, ClaimManyLeaves
<1>5. ASSUME NEW c \in held, NEW status \in Outcome, Publish(c, status)
      PROVE [Fifo!Next]_(Fifo!vars)
  BY <1>5, PublishLeaves
<1>6. ASSUME NEW c \in held, Abandon(c) PROVE [Fifo!Next]_(Fifo!vars)
  BY <1>6, JobsUnchanged DEF Abandon
<1>7. ASSUME NEW i \in Item, LeaseExpires(i) PROVE [Fifo!Next]_(Fifo!vars)
  BY <1>7, JobsUnchanged DEF LeaseExpires
<1>8. ASSUME NEW pair \in open, BreakerCloses(pair) PROVE [Fifo!Next]_(Fifo!vars)
  BY <1>8, JobsUnchanged DEF BreakerCloses
<1>9. CASE UNCHANGED vars
  BY <1>9, JobsUnchanged DEF vars
<1> QED BY <1>1, <1>2, <1>3, <1>4, <1>5, <1>6, <1>7, <1>8, <1>9 DEF Next

(* The queue keeps the promise of FifoAdmission.                            *)
THEOREM FifoImplemented == Spec => ImplementsFifo
<1>1. Init => Fifo!Init
  BY JobStateFacts DEF Init, Fifo!Init, Waiting, JobsIn
<1>2. QueueInv /\ QueueInv' /\ [Next]_vars => [Fifo!Next]_(Fifo!vars)
  BY FifoStep
<1> QED BY <1>1, <1>2, Safety, PTL DEF Spec, ImplementsFifo, Fifo!Spec

=============================================================================
