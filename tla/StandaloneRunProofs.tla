------------------------ MODULE StandaloneRunProofs ------------------------
(***************************************************************************)
(* The files of an unattended run, for any documents, lanes, limits and    *)
(* number of launches, interrupted or killed anywhere: the outcome table   *)
(* keeps the promise of OutcomeTable, what it charges was fetched and      *)
(* stays within the cap, the saved breaker is the one the lanes left, no   *)
(* copy of a document is lost or recorded twice while a run goes on by     *)
(* itself, and one that ended by itself exported its table.                *)
(*                                                                         *)
(* The first proofs do not look into the queue: a lane may hold anything,  *)
(* and only documents have rows. The last ones count the copies in it.     *)
(***************************************************************************)
EXTENDS StandaloneRun, FiniteSetTheorems, WellFoundedInduction, TLAPS

-----------------------------------------------------------------------------
(* The breaker *)

BreakerInv == BreakerSurvives /\ breaker \in Breaker

LEMMA BreakerKept ==
  ASSUME BreakerInv, UNCHANGED <<saved, breaker>>
  PROVE  BreakerInv'
BY DEF BreakerInv, BreakerSurvives

LEMMA BreakerSet ==
  ASSUME NEW b \in Breaker, SetBreaker(b), b.fails < Threshold,
         b.level > 0 <=> b.until # "never"
  PROVE  BreakerInv'
BY DEF SetBreaker, BreakerInv, BreakerSurvives

LEMMA BreakerStep ==
  ASSUME BreakerInv, [Next]_vars
  PROVE  BreakerInv'
<1> USE LimitAssumption
<1>1. /\ breaker \in Breaker /\ saved = breaker
      /\ breaker.fails \in Nat /\ breaker.level \in Nat
      /\ breaker.fails < Threshold /\ Threshold \in Nat \ {0}
      /\ breaker.level > 0 <=> breaker.until # "never"
  BY DEF BreakerInv, BreakerSurvives, Breaker
<1>2. Closed \in Breaker /\ Closed.fails = 0 /\ Closed.level = 0 /\ Closed.until = "never"
  BY DEF Closed, Breaker
<1>3. ASSUME BreakerSuccess PROVE BreakerInv'
  <2>1. CASE breaker.until = "never"
    <3> DEFINE b == [breaker EXCEPT !.fails = 0]
    <3>1. b \in Breaker /\ b.fails = 0 /\ b.level = breaker.level /\ b.until = breaker.until
      BY <1>1 DEF Breaker
    <3>2. SetBreaker(b)
      BY <1>3, <2>1 DEF BreakerSuccess
    <3> HIDE DEF b
    <3> QED
      BY <1>1, <3>1, <3>2, BreakerSet
  <2>2. CASE breaker.until # "never"
    BY <1>1, <1>2, <1>3, <2>2, BreakerSet DEF BreakerSuccess
  <2> QED
    BY <2>1, <2>2
<1>4. ASSUME BreakerFailure PROVE BreakerInv'
  <2>1. CASE breaker.fails + 1 < Threshold
    <3> DEFINE b == [breaker EXCEPT !.fails = breaker.fails + 1]
    <3>1. /\ b \in Breaker /\ b.fails = breaker.fails + 1
          /\ b.level = breaker.level /\ b.until = breaker.until
      BY <1>1 DEF Breaker
    <3>2. SetBreaker(b)
      BY <1>4, <2>1 DEF BreakerFailure
    <3> HIDE DEF b
    <3> QED
      BY <1>1, <2>1, <3>1, <3>2, BreakerSet
  <2>2. CASE ~(breaker.fails + 1 < Threshold)
    <3> DEFINE b == [fails |-> 0, level |-> breaker.level + 1, until |-> "future"]
    <3>1. /\ b \in Breaker /\ b.fails = 0 /\ b.level = breaker.level + 1 /\ b.until = "future"
      BY <1>1 DEF Breaker
    <3>2. SetBreaker(b)
      BY <1>4, <2>2 DEF BreakerFailure
    <3> HIDE DEF b
    <3> QED
      BY <1>1, <3>1, <3>2, BreakerSet
  <2> QED
    BY <2>1, <2>2
<1>5. ASSUME CooldownEnds PROVE BreakerInv'
  <2> DEFINE b == [breaker EXCEPT !.until = IF breaker.until = "future" THEN "past" ELSE breaker.until]
  <2>1. /\ b \in Breaker /\ b.fails = breaker.fails /\ b.level = breaker.level
        /\ b.until # "never" <=> breaker.until # "never"
    BY <1>1 DEF Breaker
  <2>2. SetBreaker(b)
    BY <1>1, <1>5 DEF CooldownEnds, SetBreaker
  <2> HIDE DEF b
  <2> QED
    BY <1>1, <2>1, <2>2, BreakerSet
<1>6. ASSUME NEW import \in BOOLEAN, StartRun(import) PROVE BreakerInv'
  BY <1>1, <1>6, BreakerKept DEF StartRun
<1>7. ASSUME NEW l \in Lane, LaneStep(l) PROVE BreakerInv'
  <2>1. CASE \/ Take(l) \/ Pass(l) \/ OpenSession(l) \/ Retry(l) \/ Record(l) \/ CloseSession(l)
    BY <2>1, BreakerKept DEF Take, Pass, OpenSession, Retry, Record, CloseSession
  <2>2. CASE Fault(l)
    BY <1>4, <2>2 DEF Fault
  <2>3. CASE \E status \in {"ok", "not_found"} : Answer(l, status)
    BY <1>3, <2>3 DEF Answer
  <2> QED
    BY <1>7, <2>1, <2>2, <2>3 DEF LaneStep
<1>8. ASSUME NEW l \in Lane, InterruptInWrite(l) PROVE BreakerInv'
  BY <1>8, BreakerKept, BreakerInv DEF InterruptInWrite, Cancel
<1>9. ASSUME Interrupt \/ EndLanes \/ Export \/ Kill \/ UNCHANGED vars PROVE BreakerInv'
  BY <1>9, BreakerKept DEF Interrupt, Cancel, EndLanes, Export, Kill, vars
<1> QED
  BY <1>5, <1>6, <1>7, <1>8, <1>9 DEF Next

-----------------------------------------------------------------------------
(* The table *)

RowInv == row \in Table /\ attempt \in [Lane -> 1..MaxAttempts]

LEMMA AttemptStep ==
  ASSUME RowInv, [Next]_vars
  PROVE  attempt' \in [Lane -> 1..MaxAttempts]
<1> USE LimitAssumption
<1>1. attempt \in [Lane -> 1..MaxAttempts] /\ 1 \in 1..MaxAttempts
  BY DEF RowInv
<1>2. ASSUME NEW G, Forget(G) PROVE attempt' \in [Lane -> 1..MaxAttempts]
  BY <1>1, <1>2 DEF Forget
<1>3. ASSUME NEW l \in Lane, LaneStep(l) PROVE attempt' \in [Lane -> 1..MaxAttempts]
  <2>1. CASE Take(l)
    BY <1>1, <2>1 DEF Take
  <2>2. CASE Retry(l)
    <3>1. attempt[l] + 1 \in 1..MaxAttempts
      BY <1>1, <2>2 DEF Retry
    <3> QED
      BY <1>1, <2>2, <3>1 DEF Retry
  <2>3. CASE Record(l)
    BY <1>2, <2>3 DEF Record
  <2>4. CASE \/ Pass(l) \/ OpenSession(l) \/ Fault(l) \/ CloseSession(l)
             \/ \E status \in {"ok", "not_found"} : Answer(l, status)
    BY <1>1, <2>4 DEF Pass, OpenSession, Fault, CloseSession, Answer
  <2> QED
    BY <1>3, <2>1, <2>2, <2>3, <2>4 DEF LaneStep
<1>4. ASSUME Cancel \/ Kill PROVE attempt' \in [Lane -> 1..MaxAttempts]
  BY <1>2, <1>4 DEF Cancel, Kill
<1>5. ASSUME \/ \E import \in BOOLEAN : StartRun(import)
             \/ CooldownEnds \/ EndLanes \/ Export \/ UNCHANGED vars
      PROVE  attempt' \in [Lane -> 1..MaxAttempts]
  BY <1>1, <1>5 DEF StartRun, CooldownEnds, EndLanes, Export, vars, lanes
<1> QED
  BY <1>3, <1>4, <1>5 DEF Next, InterruptInWrite, Interrupt

(* A failure charges every attempt of the lookup, or none.                  *)
LEMMA RecordImplements ==
  ASSUME RowInv, NEW l \in Lane, Record(l)
  PROVE  row' \in Table /\ (Promise!Next \/ row' = row)
<1> USE LimitAssumption
<1> DEFINE d == doc[l]
<1>1. row' = [row EXCEPT ![d] = Outcome(l)] /\ row \in [Doc -> Row]
  BY DEF Record, Recorded, RowInv, Table
<1>2. CASE d \notin Doc
  BY <1>1, <1>2 DEF RowInv
<1>3. CASE d \in Doc
  <2>1. row[d] \in Row /\ row[d].count \in Nat /\ row[d].status \in Status \cup {"none"}
    BY <1>1, <1>3 DEF Row
  <2>2. CASE Outcome(l) = Failed(row[d], Charged(l)) /\ pc[l] # "rest"
    <3> DEFINE n == Charged(l)
    <3>1. n \in {0, MaxAttempts}
      BY <2>2 DEF Record, HasOutcome, Charged
    <3>2. CASE row[d].status \in {"ok", "not_found"}
      BY <1>1, <1>3, <2>2, <3>2 DEF Failed, RowInv
    <3>3. CASE row[d].status \notin {"ok", "not_found"}
      <4> DEFINE x == [status |-> "failed", count |-> row[d].count + n]
      <4>1. row' = [row EXCEPT ![d] = x]
        BY <1>1, <2>2, <3>3 DEF Failed
      <4>2. x \in Row
        BY <2>1, <3>1 DEF Row, Status
      <4>3. row[d].status \in {"none", "failed"}
        BY <2>1, <3>3 DEF Status
      <4>4. Promise!Fail(d)
        BY <3>1, <4>1, <4>3 DEF Promise!Fail
      <4> QED
        BY <1>1, <1>3, <4>1, <4>2, <4>4 DEF Promise!Next, Table
    <3> QED
      BY <3>2, <3>3
  <2>3. CASE Outcome(l) = Succeeded(row[d])
    <3> DEFINE x == [row[d] EXCEPT !.status = "ok"]
    <3>1. x \in Row
      BY <2>1 DEF Row, Status
    <3>2. row' = [row EXCEPT ![d] = x]
      BY <1>1, <2>3 DEF Succeeded
    <3>3. row' = [e \in Doc |-> IF e \in {d} THEN [row[e] EXCEPT !.status = "ok"] ELSE row[e]]
      BY <1>1, <3>2
    <3>4. Promise!Answer({d})
      BY <3>3 DEF Promise!Answer
    <3> QED
      BY <1>1, <1>3, <3>1, <3>2, <3>4 DEF Promise!Next, Table
  <2>4. CASE Outcome(l) = NotFound(row[d])
    <3>1. CASE row[d].status = "ok"
      BY <1>1, <1>3, <2>4, <3>1 DEF NotFound, RowInv
    <3>2. CASE row[d].status # "ok"
      <4> DEFINE x == [row[d] EXCEPT !.status = "not_found"]
      <4>1. row' = [row EXCEPT ![d] = x] /\ x \in Row
        BY <1>1, <2>1, <2>4, <3>2 DEF NotFound, Row, Status
      <4>2. Promise!DoesNotExist(d)
        BY <3>2, <4>1 DEF Promise!DoesNotExist
      <4> QED
        BY <1>1, <1>3, <4>1, <4>2 DEF Promise!Next, Table
    <3> QED
      BY <3>1, <3>2
  <2> QED
    BY <2>2, <2>3, <2>4 DEF Outcome
<1> QED
  BY <1>2, <1>3

LEMMA TableStep ==
  ASSUME RowInv, [Next]_vars
  PROVE  RowInv' /\ [Promise!Next]_row
<1>1. row \in Table /\ attempt' \in [Lane -> 1..MaxAttempts]
  BY AttemptStep DEF RowInv
<1>2. ASSUME row' = row PROVE RowInv' /\ [Promise!Next]_row
  BY <1>1, <1>2 DEF RowInv
<1>3. ASSUME NEW import \in BOOLEAN, StartRun(import) PROVE RowInv' /\ [Promise!Next]_row
  <2> DEFINE S == {d \in Doc : import /\ d \in exported["ok"]}
  <2>1. row' = [d \in Doc |-> IF d \in S THEN [row[d] EXCEPT !.status = "ok"] ELSE row[d]]
    BY <1>3 DEF StartRun, ImportedRows, Succeeded
  <2>2. \A d \in Doc : row[d] \in Row /\ [row[d] EXCEPT !.status = "ok"] \in Row
    BY <1>1 DEF Table, Row, Status
  <2>3. S \in SUBSET Doc
    OBVIOUS
  <2> HIDE DEF S
  <2>4. row' \in Table
    BY <2>1, <2>2 DEF Table
  <2>5. Promise!Answer(S)
    BY <2>1 DEF Promise!Answer
  <2> QED
    BY <1>1, <2>3, <2>4, <2>5 DEF RowInv, Promise!Next
<1>4. ASSUME NEW l \in Lane, LaneStep(l) PROVE RowInv' /\ [Promise!Next]_row
  <2>1. CASE Record(l)
    BY <1>1, <2>1, RecordImplements DEF RowInv
  <2>2. CASE \/ Take(l) \/ Pass(l) \/ OpenSession(l) \/ Fault(l) \/ Retry(l) \/ CloseSession(l)
             \/ \E status \in {"ok", "not_found"} : Answer(l, status)
    <3>1. row' = row
      BY <2>2 DEF Take, Pass, OpenSession, Fault, Retry, CloseSession, Answer
    <3> QED
      BY <1>2, <3>1
  <2> QED
    BY <1>4, <2>1, <2>2 DEF LaneStep
<1>5. ASSUME \/ \E l \in Lane : InterruptInWrite(l)
             \/ CooldownEnds \/ Interrupt \/ EndLanes \/ Export \/ Kill \/ UNCHANGED vars
      PROVE  RowInv' /\ [Promise!Next]_row
  <2>1. row' = row
    BY <1>5 DEF InterruptInWrite, Interrupt, Cancel, CooldownEnds, EndLanes, Export, Kill, vars
  <2> QED
    BY <1>2, <2>1
<1> QED
  BY <1>3, <1>4, <1>5 DEF Next

-----------------------------------------------------------------------------
(* The charges *)

(* The failed attempts of the lookup in a lane's hands, not recorded yet.   *)
Made(l) == IF pc[l] = "rotate" THEN attempt[l] ELSE attempt[l] - 1
InFlight(d) == {p \in Lane \X (1..MaxAttempts) : doc[p[1]] = d /\ p[2] <= Made(p[1])}

LaneInv ==
    /\ pc \in [Lane -> {"top", "gate", "open", "look", "rest", "rotate", "closing", "done"}]
    /\ DOMAIN doc = Lane
    /\ RowInv

(* Every failure is on the row or in flight, and at most once.              *)
ChargeInv ==
    /\ LaneInv
    /\ failures \in [Doc -> Nat]
    /\ \A d \in Doc : row[d].count + Cardinality(InFlight(d)) <= failures[d]

LEMMA InFlightFinite ==
  ASSUME IsFiniteSet(Lane)
  PROVE  \A d : /\ IsFiniteSet(InFlight(d)) /\ Cardinality(InFlight(d)) \in Nat
                /\ \A S \in SUBSET InFlight(d) :
                     IsFiniteSet(S) /\ Cardinality(S) \in Nat
                       /\ Cardinality(S) <= Cardinality(InFlight(d))
<1>1. MaxAttempts \in Nat /\ IsFiniteSet(1..MaxAttempts)
  BY LimitAssumption, FS_Interval
<1>2. IsFiniteSet(Lane \X (1..MaxAttempts))
  BY <1>1, FS_Product
<1> TAKE d
<1>3. IsFiniteSet(InFlight(d))
  <2>1. InFlight(d) \in SUBSET (Lane \X (1..MaxAttempts))
    BY DEF InFlight
  <2> QED
    BY <1>2, <2>1, FS_Subset
<1> QED
  BY <1>3, FS_Subset, FS_CardinalityType

LEMMA LaneTypes ==
  ASSUME LaneInv, [Next]_vars
  PROVE  LaneInv'
<1>1. RowInv'
  BY TableStep DEF LaneInv
<1>2. ASSUME NEW l \in Lane, LaneStep(l) PROVE LaneInv'
  BY <1>1, <1>2 DEF LaneStep, LaneInv, Take, Pass, OpenSession, Fault, Retry, Record, Forget,
                    CloseSession, Answer
<1>3. ASSUME Cancel \/ Kill PROVE LaneInv'
  BY <1>1, <1>3 DEF Cancel, Kill, Forget, LaneInv
<1>4. ASSUME \/ \E import \in BOOLEAN : StartRun(import)
             \/ CooldownEnds \/ EndLanes \/ Export \/ UNCHANGED vars
      PROVE  LaneInv'
  BY <1>1, <1>4 DEF StartRun, CooldownEnds, EndLanes, Export, vars, lanes, LaneInv
<1> QED
  BY <1>2, <1>3, <1>4 DEF Next, InterruptInWrite, Interrupt

LEMMA MadeRange ==
  ASSUME LaneInv
  PROVE  \A l \in Lane : Made(l) \in 0..MaxAttempts
BY LimitAssumption DEF LaneInv, RowInv, Made

(* A step after which no lane has more failed attempts in flight.           *)
LEMMA FewerInFlight ==
  ASSUME IsFiniteSet(Lane), ChargeInv, LaneInv', failures' = failures,
         \A d \in Doc : row'[d].count = row[d].count,
         \A l \in Lane : Made(l)' = 0 \/ (doc'[l] = doc[l] /\ Made(l)' <= Made(l))
  PROVE  ChargeInv'
<1>1. \A l \in Lane : Made(l) \in Nat
  BY MadeRange DEF ChargeInv
<1>2. \A l \in Lane : Made(l)' \in Nat
  <2>1. \A l \in Lane : Made(l)' \in 0..MaxAttempts
    BY LimitAssumption DEF LaneInv, RowInv, Made
  <2> QED
    BY <2>1
<1>3. \A d \in Doc : InFlight(d)' \in SUBSET InFlight(d)
  BY <1>1, <1>2 DEF InFlight
<1>4. ASSUME NEW d \in Doc PROVE (row[d].count + Cardinality(InFlight(d)) <= failures[d])'
  <2>1. /\ Cardinality(InFlight(d)') \in Nat /\ Cardinality(InFlight(d)) \in Nat
        /\ Cardinality(InFlight(d)') <= Cardinality(InFlight(d))
    BY <1>3, InFlightFinite
  <2>2. row[d].count \in Nat /\ failures[d] \in Nat
    BY DEF ChargeInv, LaneInv, RowInv, Table, Row
  <2>3. row[d].count + Cardinality(InFlight(d)) <= failures[d]
    BY DEF ChargeInv
  <2> QED
    BY <2>1, <2>2, <2>3
<1> QED
  BY <1>4 DEF ChargeInv

LEMMA FaultCharges ==
  ASSUME IsFiniteSet(Lane), ChargeInv, LaneInv', NEW l \in Lane, Fault(l)
  PROVE  ChargeInv'
<1> USE LimitAssumption
<1>1. /\ pc \in [Lane -> {"top", "gate", "open", "look", "rest", "rotate", "closing", "done"}]
      /\ attempt \in [Lane -> 1..MaxAttempts] /\ failures \in [Doc -> Nat]
  BY DEF ChargeInv, LaneInv, RowInv
<1>2. UNCHANGED <<row, doc, attempt>>
  BY DEF Fault
<1>3. /\ failures' = [failures EXCEPT ![doc[l]] = failures[doc[l]] + 1]
      /\ failures' \in [Doc -> Nat]
  <2>1. failures' = [failures EXCEPT ![doc[l]] = failures[doc[l]] + 1]
    BY DEF Fault
  <2>2. CASE doc[l] \in Doc
    <3>1. failures[doc[l]] + 1 \in Nat
      BY <1>1, <2>2
    <3> QED
      BY <1>1, <2>1, <3>1
  <2>3. CASE doc[l] \notin Doc
    <3>1. failures' = failures
      BY <1>1, <2>1, <2>3
    <3> QED
      BY <1>1, <2>1, <3>1
  <2> QED
    BY <2>2, <2>3
<1>4. Made(l)' = attempt[l] /\ \A m \in Lane \ {l} : Made(m)' = Made(m)
  BY <1>1, <1>2 DEF Fault, Made
<1>5. Made(l) = attempt[l] - 1
  BY <1>1 DEF Fault, Made
<1>6. ASSUME NEW d \in Doc PROVE (row[d].count + Cardinality(InFlight(d)) <= failures[d])'
  <2>1. InFlight(d)' \subseteq InFlight(d) \cup (IF doc[l] = d THEN {<<l, attempt[l]>>} ELSE {})
    <3> SUFFICES ASSUME NEW p \in Lane \X (1..MaxAttempts), doc'[p[1]] = d, p[2] <= Made(p[1])',
                        p \notin InFlight(d)
                 PROVE  doc[l] = d /\ p = <<l, attempt[l]>>
      BY DEF InFlight
    <3>1. p[1] \in Lane /\ p[2] \in 1..MaxAttempts /\ p = <<p[1], p[2]>> /\ doc[p[1]] = d
      BY <1>2
    <3>2. ~(p[2] <= Made(p[1]))
      BY <3>1 DEF InFlight
    <3>3. p[1] = l
      BY <1>4, <3>1, <3>2
    <3>4. p[2] = attempt[l]
      BY <1>1, <1>4, <1>5, <3>1, <3>2, <3>3
    <3> QED
      BY <3>1, <3>3, <3>4
  <2>2. IsFiniteSet(InFlight(d)) /\ Cardinality(InFlight(d)) \in Nat
    BY InFlightFinite
  <2>3. row[d].count \in Nat /\ row'[d].count = row[d].count /\ failures[d] \in Nat
    BY <1>1, <1>2 DEF ChargeInv, LaneInv, RowInv, Table, Row
  <2>4. row[d].count + Cardinality(InFlight(d)) <= failures[d]
    BY DEF ChargeInv
  <2>5. CASE doc[l] = d
    <3> DEFINE S == InFlight(d) \cup {<<l, attempt[l]>>}
    <3>1. /\ IsFiniteSet(S) /\ Cardinality(S) \in Nat
          /\ Cardinality(S) <= Cardinality(InFlight(d)) + 1
      <4> DEFINE x == <<l, attempt[l]>>
      <4> HIDE DEF x
      <4>1. /\ IsFiniteSet(InFlight(d) \cup {x})
            /\ \/ Cardinality(InFlight(d) \cup {x}) = Cardinality(InFlight(d))
               \/ Cardinality(InFlight(d) \cup {x}) = Cardinality(InFlight(d)) + 1
        BY <2>2, FS_AddElement
      <4>2. S = InFlight(d) \cup {x}
        BY DEF x
      <4> QED
        BY <2>2, <4>1, <4>2
    <3>2. InFlight(d)' \in SUBSET S
      BY <2>1, <2>5
    <3>3. Cardinality(InFlight(d)') <= Cardinality(S) /\ Cardinality(InFlight(d)') \in Nat
      BY <3>1, <3>2, FS_Subset, FS_CardinalityType
    <3>4. failures'[d] = failures[d] + 1
      BY <1>1, <1>3, <2>5
    <3> HIDE DEF S
    <3> QED
      BY <2>2, <2>3, <2>4, <3>1, <3>3, <3>4
  <2>6. CASE doc[l] # d
    <3>1. InFlight(d)' \in SUBSET InFlight(d)
      BY <2>1, <2>6
    <3>2. Cardinality(InFlight(d)') <= Cardinality(InFlight(d)) /\ Cardinality(InFlight(d)') \in Nat
      BY <3>1, InFlightFinite
    <3>3. failures'[d] = failures[d]
      BY <1>1, <1>3, <2>6
    <3> QED
      BY <2>2, <2>3, <2>4, <3>2, <3>3
  <2> QED
    BY <2>5, <2>6
<1> QED
  BY <1>3, <1>6 DEF ChargeInv

LEMMA RecordCharges ==
  ASSUME IsFiniteSet(Lane), ChargeInv, LaneInv', NEW l \in Lane, Record(l)
  PROVE  ChargeInv'
<1> USE LimitAssumption
<1>1. /\ pc \in [Lane -> {"top", "gate", "open", "look", "rest", "rotate", "closing", "done"}]
      /\ attempt \in [Lane -> 1..MaxAttempts] /\ failures \in [Doc -> Nat] /\ failures' = failures
      /\ row \in [Doc -> Row]
  BY DEF ChargeInv, LaneInv, RowInv, Record, Table
<1>2. /\ Made(l)' = 0
      /\ \A m \in Lane \ {l} : Made(m)' = Made(m) /\ doc'[m] = doc[m]
  BY <1>1 DEF Record, Forget, Made
<1>3. \A m \in Lane : Made(m) \in Nat
  BY MadeRange DEF ChargeInv
<1>4. row' = [row EXCEPT ![doc[l]] = Outcome(l)]
  BY DEF Record, Recorded
<1>5. CASE \A d \in Doc : row'[d].count = row[d].count
  BY <1>1, <1>2, <1>3, <1>5, FewerInFlight
<1>6. CASE ~ \A d \in Doc : row'[d].count = row[d].count
  <2>1. /\ doc[l] \in Doc /\ pc[l] = "rotate" /\ attempt[l] = MaxAttempts
        /\ row'[doc[l]].count = row[doc[l]].count + MaxAttempts
    <3>1. doc[l] \in Doc /\ row'[doc[l]] = Outcome(l) /\ Outcome(l).count # row[doc[l]].count
      BY <1>1, <1>4, <1>6
    <3>2. row[doc[l]] \in Row /\ row[doc[l]].count \in Nat
      BY <1>1, <3>1 DEF Row
    <3>3. /\ Succeeded(row[doc[l]]).count = row[doc[l]].count
          /\ NotFound(row[doc[l]]).count = row[doc[l]].count
      BY <3>2 DEF Succeeded, NotFound, Row
    <3>4. pc[l] # "rest" /\ Outcome(l) = Failed(row[doc[l]], Charged(l))
      BY <3>1, <3>3 DEF Outcome
    <3>5. pc[l] = "rotate" /\ attempt[l] = MaxAttempts /\ Charged(l) \in {0, MaxAttempts}
      BY <3>4 DEF Record, HasOutcome, Charged
    <3>6. Outcome(l).count \in {row[doc[l]].count, row[doc[l]].count + MaxAttempts}
      BY <3>2, <3>4, <3>5 DEF Failed
    <3> QED
      BY <3>1, <3>5, <3>6
  <2> DEFINE own == {l} \X (1..MaxAttempts)
  <2>2. IsFiniteSet(own) /\ Cardinality(own) = MaxAttempts
    <3>1. IsFiniteSet({l}) /\ Cardinality({l}) = 1
      BY FS_Singleton
    <3>2. IsFiniteSet(1..MaxAttempts) /\ Cardinality(1..MaxAttempts) = MaxAttempts
      BY FS_Interval
    <3> DEFINE one == {l}
               all == 1..MaxAttempts
    <3> HIDE DEF one, all
    <3>3. IsFiniteSet(one) /\ IsFiniteSet(all) /\ Cardinality(one) = 1 /\ Cardinality(all) = MaxAttempts
      BY <3>1, <3>2 DEF one, all
    <3>4. IsFiniteSet(one \X all) /\ Cardinality(one \X all) = Cardinality(one) * Cardinality(all)
      BY <3>3, FS_Product
    <3>5. own = one \X all
      BY DEF one, all
    <3>6. 1 * MaxAttempts = MaxAttempts
      OBVIOUS
    <3>7. IsFiniteSet(own) /\ Cardinality(own) = 1 * MaxAttempts
      BY <3>3, <3>4, <3>5, Zenon
    <3> QED
      BY <3>6, <3>7
  <2>3. Made(l) = MaxAttempts
    BY <2>1 DEF Made
  <2>4. own \subseteq InFlight(doc[l])
    BY <2>3 DEF InFlight
  <2>5. ASSUME NEW d \in Doc PROVE (row[d].count + Cardinality(InFlight(d)) <= failures[d])'
    <3>1. InFlight(d)' \subseteq InFlight(d) \ own
      <4> SUFFICES ASSUME NEW p \in Lane \X (1..MaxAttempts), doc'[p[1]] = d, p[2] <= Made(p[1])'
                   PROVE  p \in InFlight(d) /\ p \notin own
        BY DEF InFlight
      <4>1. p[1] \in Lane /\ p[2] \in 1..MaxAttempts
        OBVIOUS
      <4>2. p[1] # l
        BY <1>2, <4>1
      <4> QED
        BY <1>2, <4>1, <4>2 DEF InFlight
    <3>2. IsFiniteSet(InFlight(d)) /\ Cardinality(InFlight(d)) \in Nat
      BY InFlightFinite
    <3>3. row[d].count \in Nat /\ failures[d] \in Nat
      BY <1>1 DEF Row
    <3>4. row[d].count + Cardinality(InFlight(d)) <= failures[d]
      BY DEF ChargeInv
    <3>5. CASE d = doc[l]
      <4> DEFINE S == InFlight(d) \ own
      <4>1. InFlight(d) \cap own = own
        BY <2>4, <3>5
      <4>2. IsFiniteSet(S) /\ Cardinality(S) = Cardinality(InFlight(d)) - MaxAttempts
        <5> HIDE DEF own
        <5>1. /\ IsFiniteSet(InFlight(d) \ own)
              /\ Cardinality(InFlight(d) \ own)
                   = Cardinality(InFlight(d)) - Cardinality(InFlight(d) \cap own)
          BY <2>2, <3>2, FS_Difference
        <5> QED
          BY <2>2, <4>1, <5>1
      <4>3. Cardinality(InFlight(d)') <= Cardinality(S) /\ Cardinality(InFlight(d)') \in Nat
        <5>1. InFlight(d)' \in SUBSET S
          BY <3>1
        <5> QED
          BY <4>2, <5>1, FS_Subset, FS_CardinalityType
      <4> HIDE DEF S
      <4> QED
        BY <1>1, <2>1, <3>2, <3>3, <3>4, <3>5, <4>2, <4>3
    <3>6. CASE d # doc[l]
      <4>1. InFlight(d)' \in SUBSET InFlight(d)
        BY <3>1
      <4>2. Cardinality(InFlight(d)') <= Cardinality(InFlight(d)) /\ Cardinality(InFlight(d)') \in Nat
        BY <4>1, InFlightFinite
      <4>3. row'[d] = row[d]
        BY <1>1, <1>4, <3>6
      <4> QED
        BY <1>1, <3>2, <3>3, <3>4, <4>2, <4>3
    <3> QED
      BY <3>5, <3>6
  <2> QED
    BY <1>1, <2>5 DEF ChargeInv
<1> QED
  BY <1>5, <1>6

LEMMA ChargeStep ==
  ASSUME IsFiniteSet(Lane), ChargeInv, [Next]_vars
  PROVE  ChargeInv'
<1> USE LimitAssumption
<1>1. LaneInv'
  BY LaneTypes DEF ChargeInv
<1>2. /\ pc \in [Lane -> {"top", "gate", "open", "look", "rest", "rotate", "closing", "done"}]
      /\ attempt \in [Lane -> 1..MaxAttempts] /\ DOMAIN doc = Lane /\ row \in [Doc -> Row]
  BY DEF ChargeInv, LaneInv, RowInv, Table
<1>3. ASSUME UNCHANGED <<row, pc, doc, attempt, failures>> PROVE ChargeInv'
  <2>1. \A m \in Lane : Made(m)' = Made(m) /\ doc'[m] = doc[m]
    BY <1>3 DEF Made
  <2>2. \A m \in Lane : Made(m) \in Nat
    BY MadeRange DEF ChargeInv
  <2> QED
    BY <1>1, <1>3, <2>1, <2>2, FewerInFlight
<1>4. ASSUME NEW l \in Lane, LaneStep(l) PROVE ChargeInv'
  <2>1. CASE Fault(l)
    BY <1>1, <2>1, FaultCharges
  <2>2. CASE Record(l)
    BY <1>1, <2>2, RecordCharges
  <2>3. ASSUME UNCHANGED <<row, failures>>,
               \A m \in Lane \ {l} : pc'[m] = pc[m] /\ doc'[m] = doc[m] /\ attempt'[m] = attempt[m],
               Made(l)' = 0 \/ (doc'[l] = doc[l] /\ Made(l)' <= Made(l))
        PROVE  ChargeInv'
    <3>1. \A m \in Lane \ {l} : Made(m)' <= Made(m)
      <4>1. \A m \in Lane : Made(m) \in Nat
        BY MadeRange DEF ChargeInv
      <4> QED
        BY <2>3, <4>1 DEF Made
    <3> QED
      BY <1>1, <2>3, <3>1, FewerInFlight
  <2>4. CASE Take(l)
    BY <1>2, <2>3, <2>4 DEF Take, Made
  <2>5. CASE \/ Pass(l) \/ OpenSession(l) \/ CloseSession(l)
             \/ \E status \in {"ok", "not_found"} : Answer(l, status)
    BY <1>2, <2>3, <2>5 DEF Pass, OpenSession, CloseSession, Answer, Made
  <2>6. CASE Retry(l)
    BY <1>2, <2>3, <2>6 DEF Retry, Made
  <2> QED
    BY <1>4, <2>1, <2>2, <2>4, <2>5, <2>6 DEF LaneStep
<1>5. ASSUME Cancel \/ Kill PROVE ChargeInv'
  <2>1. \A m \in Lane : Made(m)' = 0
    BY <1>2, <1>5 DEF Cancel, Kill, Forget, Made
  <2> QED
    BY <1>1, <1>5, <2>1, FewerInFlight DEF Cancel, Kill
<1>6. ASSUME NEW import \in BOOLEAN, StartRun(import) PROVE ChargeInv'
  <2>1. \A d \in Doc : row'[d].count = row[d].count
    BY <1>2, <1>6 DEF StartRun, ImportedRows, Succeeded, Row
  <2>2. \A m \in Lane : doc'[m] = doc[m] /\ Made(m)' <= Made(m)
    BY <1>2, <1>6 DEF StartRun, Made
  <2> QED
    BY <1>1, <1>6, <2>1, <2>2, FewerInFlight DEF StartRun
<1>7. ASSUME CooldownEnds \/ EndLanes \/ Export \/ UNCHANGED vars PROVE ChargeInv'
  BY <1>3, <1>7 DEF CooldownEnds, EndLanes, Export, vars, lanes
<1> QED
  BY <1>4, <1>5, <1>6, <1>7 DEF Next, InterruptInWrite, Interrupt

-----------------------------------------------------------------------------
(* The exports *)

Ended == phase \in Exporting \cup {"idle"}
Rows(s) == {d \in Doc : row[d].status = s}

(* A run that goes on by itself sees what it committed, and a file once     *)
(* replaced stays current, because no lane writes any more.                 *)
ExportInv ==
    /\ exported \in [Status -> SUBSET Doc]
    /\ Ended => \A l \in Lane : pc[l] = "done"
    /\ clean => /\ dirty = row
                /\ phase \in {"export_failed", "export_not_found", "idle"}
                     => exported["ok"] = Rows("ok")
                /\ phase \in {"export_not_found", "idle"} => exported["failed"] = Rows("failed")
                /\ phase = "idle" => exported["not_found"] = Rows("not_found")

LEMMA ExportStep ==
  ASSUME ExportInv, [Next]_vars
  PROVE  ExportInv'
<1> USE DEF Exporting
<1>1. ASSUME NEW import \in BOOLEAN, StartRun(import) PROVE ExportInv'
  BY <1>1 DEF StartRun, ExportInv, Ended
<1>2. ASSUME NEW l \in Lane, LaneStep(l) PROVE ExportInv'
  <2>1. pc[l] # "done" /\ UNCHANGED <<exported, phase, clean>> /\ (clean /\ dirty = row => dirty' = row')
    BY <1>2 DEF LaneStep, Take, Pass, OpenSession, Fault, Retry, Record, HasOutcome, CloseSession, Answer
  <2>2. ~Ended
    BY <2>1 DEF ExportInv
  <2> QED
    BY <2>1, <2>2 DEF ExportInv, Ended
<1>3. ASSUME Cancel PROVE ExportInv'
  BY <1>3 DEF Cancel, ExportInv, Ended
<1>4. ASSUME Kill PROVE ExportInv'
  BY <1>4 DEF Kill, ExportInv, Ended
<1>5. ASSUME EndLanes PROVE ExportInv'
  BY <1>5 DEF EndLanes, lanes, ExportInv, Ended
<1>6. ASSUME CooldownEnds \/ UNCHANGED vars PROVE ExportInv'
  BY <1>6 DEF CooldownEnds, vars, lanes, ExportInv, Ended, Rows
<1>7. ASSUME Export PROVE ExportInv'
  <2>1. /\ UNCHANGED <<row, clean, pc>> /\ \A l \in Lane : pc[l] = "done"
        /\ exported \in [Status -> SUBSET Doc] /\ {"ok", "failed", "not_found"} = Status
    BY <1>7 DEF Export, lanes, ExportInv, Ended, Status
  <2> DEFINE File(s) == {d \in Doc : dirty[d].status = s}
  <2>2. clean => dirty' = row' /\ \A s : File(s) = Rows(s)
    BY <1>7 DEF Export, ExportInv, Rows
  <2>3. CASE phase = "export_ok"
    <3>1. exported' = [exported EXCEPT !["ok"] = File("ok")] /\ phase' = "export_failed"
      BY <1>7, <2>3 DEF Export, FileOf, ExportOrder
    <3> QED
      BY <2>1, <2>2, <3>1 DEF ExportInv, Ended, Rows
  <2>4. CASE phase = "export_failed"
    <3>1. exported' = [exported EXCEPT !["failed"] = File("failed")] /\ phase' = "export_not_found"
      BY <1>7, <2>4 DEF Export, FileOf, ExportOrder
    <3> QED
      BY <2>1, <2>2, <2>4, <3>1 DEF ExportInv, Ended, Rows
  <2>5. CASE phase = "export_not_found"
    <3>1. exported' = [exported EXCEPT !["not_found"] = File("not_found")] /\ phase' = "idle"
      BY <1>7, <2>5 DEF Export, FileOf, ExportOrder
    <3> QED
      BY <2>1, <2>2, <2>5, <3>1 DEF ExportInv, Ended, Rows
  <2> QED
    BY <1>7, <2>3, <2>4, <2>5 DEF Export
<1> QED
  BY <1>1, <1>2, <1>3, <1>4, <1>5, <1>6, <1>7 DEF Next, InterruptInWrite, Interrupt

-----------------------------------------------------------------------------
(***************************************************************************)
(* The copies of a document. Each row of the input that was queued is in   *)
(* the queue, in a lane's hands, or recorded. A document that was queued   *)
(* may still be charged one lookup for every copy that is in the queue or  *)
(* in hand; that, on top of what its row says, stays within the cap and    *)
(* the lookups of copies queued together (ChargesLeft).                    *)
(***************************************************************************)

Queued(d) == {n \in queue : Input[n] = d}
Holders(d) == {l \in Lane : doc[l] = d}
Empty == {"top", "closing", "done"}

CopiesInv ==
    /\ LaneInv /\ doc \in [Lane -> Doc \cup {NoDoc}]
    /\ \A l \in Lane : doc[l] = NoDoc <=> pc[l] \in Empty
    /\ queue \subseteq DOMAIN Input
    /\ planned \in [Doc -> Nat] /\ recorded \in [Doc -> Nat]
    /\ phase = "idle" => queue = {}
    /\ clean => \A l \in Lane : pc[l] \in {"closing", "done"} => queue = {}
    /\ Ended => \A l \in Lane : pc[l] = "done"

Balanced ==
    clean => \A d \in Doc : planned[d] = Copies(d, queue) + InHand(d) + recorded[d]

ChargesLeft ==
    \A d \in Doc : row[d].count + (Copies(d, queue) + InHand(d)) * MaxAttempts
                     <= MaxTotal - 1 + CopiesIn(d) * MaxAttempts

Less == {p \in Nat \X Nat : p[1] < p[2]}

LEMMA Least ==
  ASSUME NEW S \in SUBSET Nat, S # {}
  PROVE  First(S) \in S
<1>1. Less = OpToRel(<, Nat)
  BY DEF OpToRel, Less
<1>2. PICK x \in S : \A y \in S : <<y, x>> \notin Less
  BY <1>1, NatLessThanWellFounded, WFMin
<1>3. ASSUME NEW y \in S PROVE x <= y
  <2>1. ~(y < x)
    BY <1>2 DEF Less
  <2> QED
    BY <2>1
<1> QED
  BY <1>3 DEF First

LEMMA RowsFinite ==
  /\ IsFiniteSet(DOMAIN Input) /\ DOMAIN Input \subseteq Nat
  /\ \A n \in DOMAIN Input : Input[n] \in Doc
<1>1. DOMAIN Input = 1..Len(Input) /\ Len(Input) \in Nat /\ \A n \in DOMAIN Input : Input[n] \in Doc
  BY InputAssumption
<1> QED
  BY <1>1, FS_Interval

LEMMA CopiesFinite ==
  ASSUME NEW rows \in SUBSET DOMAIN Input, NEW d
  PROVE  IsFiniteSet({n \in rows : Input[n] = d}) /\ Copies(d, rows) \in Nat
<1> DEFINE S == {n \in rows : Input[n] = d}
<1>1. S \in SUBSET DOMAIN Input /\ Copies(d, rows) = Cardinality(S)
  BY DEF Copies
<1> HIDE DEF S
<1>2. IsFiniteSet(S) /\ Cardinality(S) \in Nat
  BY <1>1, RowsFinite, FS_Subset, FS_CardinalityType
<1> QED
  BY <1>1, <1>2 DEF S

LEMMA PlacesFinite ==
  ASSUME CopiesInv
  PROVE  \A d : /\ IsFiniteSet(Queued(d)) /\ Copies(d, queue) = Cardinality(Queued(d))
                /\ IsFiniteSet(Holders(d)) /\ InHand(d) = Cardinality(Holders(d))
                /\ Copies(d, queue) \in Nat /\ InHand(d) \in Nat /\ CopiesIn(d) \in Nat
<1> TAKE d
<1>1. IsFiniteSet(Queued(d)) /\ Copies(d, queue) \in Nat /\ CopiesIn(d) \in Nat
  BY CopiesFinite DEF CopiesInv, Queued, CopiesIn
<1>2. IsFiniteSet(Holders(d))
  <2>1. Holders(d) \in SUBSET Lane
    BY DEF Holders
  <2> QED
    BY <2>1, LaneAssumption, FS_Subset
<1>3. Copies(d, queue) = Cardinality(Queued(d)) /\ InHand(d) = Cardinality(Holders(d))
  BY DEF Copies, InHand, Queued, Holders
<1> QED
  BY <1>1, <1>2, <1>3, FS_CardinalityType

(* What a lane that lets go of one document and takes another does to the   *)
(* hands that hold each.                                                    *)
LEMMA HandMoves ==
  ASSUME CopiesInv, NEW l \in Lane, NEW d \in Doc,
         \A m \in Lane \ {l} : doc'[m] = doc[m]
  PROVE  InHand(d)' = IF doc[l] = d /\ doc'[l] # d THEN InHand(d) - 1
                      ELSE IF doc[l] # d /\ doc'[l] = d THEN InHand(d) + 1
                      ELSE InHand(d)
<1>1. /\ IsFiniteSet(Holders(d)) /\ InHand(d) = Cardinality(Holders(d)) /\ InHand(d) \in Nat
      /\ IsFiniteSet(Holders(d)') /\ InHand(d)' = Cardinality(Holders(d)')
  <2>1. Holders(d)' \in SUBSET Lane
    BY DEF Holders
  <2>2. IsFiniteSet(Holders(d)')
    BY <2>1, LaneAssumption, FS_Subset
  <2>3. InHand(d)' = Cardinality(Holders(d)')
    BY DEF InHand, Holders
  <2> QED
    BY <2>2, <2>3, PlacesFinite
<1>2. CASE doc[l] = d /\ doc'[l] # d
  <2>1. Holders(d)' = Holders(d) \ {l} /\ l \in Holders(d)
    BY <1>2 DEF Holders
  <2> QED
    BY <1>1, <1>2, <2>1, FS_RemoveElement
<1>3. CASE doc[l] # d /\ doc'[l] = d
  <2>1. Holders(d)' = Holders(d) \cup {l} /\ l \notin Holders(d)
    BY <1>3 DEF Holders
  <2> QED
    BY <1>1, <1>3, <2>1, FS_AddElement
<1>4. CASE ~(doc[l] = d /\ doc'[l] # d) /\ ~(doc[l] # d /\ doc'[l] = d)
  <2>1. Holders(d)' = Holders(d)
    BY <1>4 DEF Holders
  <2> QED
    BY <1>1, <1>4, <2>1
<1> QED
  BY <1>2, <1>3, <1>4

LEMMA CopiesTypes ==
  ASSUME CopiesInv, [Next]_vars
  PROVE  CopiesInv'
<1>1. LaneInv'
  BY LaneTypes DEF CopiesInv
<1>2. /\ pc \in [Lane -> {"top", "gate", "open", "look", "rest", "rotate", "closing", "done"}]
      /\ doc \in [Lane -> Doc \cup {NoDoc}]
      /\ \A l \in Lane : doc[l] = NoDoc <=> pc[l] \in Empty
  BY DEF CopiesInv, LaneInv
<1>3. ASSUME NEW import \in BOOLEAN, StartRun(import) PROVE CopiesInv'
  <2>1. /\ phase = "idle" /\ phase' = "running" /\ doc' = doc /\ \A l \in Lane : doc[l] = NoDoc
        /\ queue' \subseteq DOMAIN Input
        /\ \A l \in Lane : pc'[l] = IF queue' = {} THEN "done" ELSE "top"
    BY <1>2, <1>3 DEF StartRun, CopiesInv, Ended, Empty, Pending
  <2>2. planned' \in [Doc -> Nat] /\ recorded' \in [Doc -> Nat]
    <3>1. \A d \in Doc : Copies(d, queue') \in Nat
      BY <2>1, CopiesFinite
    <3> QED
      BY <1>3, <3>1 DEF StartRun
  <2>3. /\ \A l \in Lane : pc'[l] \in Empty /\ doc'[l] = NoDoc
        /\ \A l \in Lane : pc'[l] \in {"closing", "done"} => queue' = {}
    BY <2>1 DEF Empty
  <2> QED
    BY <1>1, <1>2, <2>1, <2>2, <2>3 DEF CopiesInv, Ended, Exporting
<1>4. ASSUME NEW l \in Lane, LaneStep(l) PROVE CopiesInv'
  <2>1. pc[l] # "done" /\ UNCHANGED <<phase, clean, planned>> /\ ~Ended
    BY <1>4 DEF LaneStep, Take, Pass, OpenSession, Fault, Retry, Record, HasOutcome, CloseSession,
                Answer, CopiesInv
  <2>2. CASE Take(l)
    <3>1. CASE queue = {}
      BY <1>1, <1>2, <2>1, <2>2, <3>1 DEF Take, CopiesInv, Ended, Empty
    <3>2. CASE queue # {}
      <4> DEFINE n == First(queue)
      <4>1. n \in queue /\ Input[n] \in Doc
        BY <3>2, Least, RowsFinite DEF CopiesInv
      <4>2. /\ doc' = [doc EXCEPT ![l] = Input[n]] /\ pc' = [pc EXCEPT ![l] = "gate"]
            /\ queue' = queue \ {n} /\ UNCHANGED recorded
        BY <2>2, <3>2 DEF Take
      <4> HIDE DEF n
      <4> QED
        BY <1>1, <1>2, <2>1, <4>1, <4>2, AbsentAssumption DEF CopiesInv, Ended, Empty
    <3> QED
      BY <3>1, <3>2
  <2>3. CASE Record(l)
    <3>1. /\ \A m \in Lane : doc'[m] = IF m = l THEN NoDoc ELSE doc[m]
          /\ pc' = [pc EXCEPT ![l] = "top"] /\ UNCHANGED queue
      BY <2>3 DEF Record, Forget
    <3>2. doc' \in [Lane -> Doc \cup {NoDoc}]
      BY <1>2, <2>3 DEF Record, Forget
    <3>3. recorded' \in [Doc -> Nat]
      <4>1. recorded' = [recorded EXCEPT ![doc[l]] = recorded[doc[l]] + 1]
        BY <2>3 DEF Record
      <4>2. doc[l] \in Doc
        BY <1>2, <2>3 DEF Record, HasOutcome, Empty
      <4>3. recorded[doc[l]] + 1 \in Nat
        BY <4>2 DEF CopiesInv
      <4> QED
        BY <4>1, <4>3 DEF CopiesInv
    <3> QED
      BY <1>1, <1>2, <2>1, <3>1, <3>2, <3>3 DEF CopiesInv, Ended, Empty
  <2>4. CASE \/ Pass(l) \/ OpenSession(l) \/ Fault(l) \/ Retry(l)
             \/ \E status \in {"ok", "not_found"} : Answer(l, status)
    <3>1. /\ UNCHANGED <<doc, queue, recorded>> /\ pc[l] \notin Empty
          /\ \E at : pc' = [pc EXCEPT ![l] = at] /\ at \notin Empty
      BY <2>4 DEF Pass, OpenSession, Fault, Retry, Answer, Empty
    <3> QED
      BY <1>1, <1>2, <2>1, <3>1 DEF CopiesInv, Ended, Empty
  <2>5. CASE CloseSession(l)
    <3>1. UNCHANGED <<doc, queue, recorded>> /\ pc[l] = "closing" /\ pc' = [pc EXCEPT ![l] = "done"]
      BY <2>5 DEF CloseSession
    <3> QED
      BY <1>1, <1>2, <2>1, <3>1 DEF CopiesInv, Ended, Empty
  <2> QED
    BY <1>4, <2>2, <2>3, <2>4, <2>5 DEF LaneStep
<1>5. ASSUME Cancel PROVE CopiesInv'
  <2>1. /\ doc' = [l \in Lane |-> NoDoc] /\ \A l \in Lane : pc'[l] \in {"closing", "done"}
        /\ phase' = "stopping" /\ clean' = FALSE /\ UNCHANGED <<queue, planned, recorded>>
    BY <1>5 DEF Cancel, Forget
  <2> QED
    BY <1>1, <2>1 DEF CopiesInv, Ended, Exporting, Empty
<1>6. ASSUME Kill PROVE CopiesInv'
  <2>1. /\ doc' = [l \in Lane |-> NoDoc] /\ \A l \in Lane : pc'[l] = "done"
        /\ clean' = FALSE /\ queue' = {} /\ UNCHANGED <<planned, recorded>>
    BY <1>6 DEF Kill, Forget
  <2> QED
    BY <1>1, <2>1 DEF CopiesInv, Empty
<1>7. ASSUME EndLanes \/ Export PROVE CopiesInv'
  <2>1. /\ \A l \in Lane : pc[l] = "done"
        /\ UNCHANGED <<clean, pc, doc, planned, recorded>>
        /\ queue' \in {queue, {}} /\ (phase' = "idle" => queue' = {})
    BY <1>7 DEF EndLanes, Export, lanes, CopiesInv, Ended
  <2> QED
    BY <1>1, <2>1 DEF CopiesInv
<1>8. ASSUME CooldownEnds \/ UNCHANGED vars PROVE CopiesInv'
  BY <1>1, <1>8 DEF CooldownEnds, vars, lanes, CopiesInv, Ended
<1> QED
  BY <1>3, <1>4, <1>5, <1>6, <1>7, <1>8 DEF Next, InterruptInWrite, Interrupt


(* A copy changes places when a lane takes it, and is gone when a lane      *)
(* records it; no other step of a lane moves one.                           *)
LEMMA TakePlaces ==
  ASSUME CopiesInv, NEW l \in Lane, Take(l), NEW d \in Doc
  PROVE  Copies(d, queue)' + InHand(d)' = Copies(d, queue) + InHand(d)
<1>1. Copies(d, queue) \in Nat /\ InHand(d) \in Nat
  BY PlacesFinite
<1>2. CASE queue = {}
  BY <1>2 DEF Take, Copies, InHand
<1>3. CASE queue # {}
  <2> DEFINE n == First(queue)
  <2>1. n \in queue /\ Input[n] \in Doc
    BY <1>3, Least, RowsFinite DEF CopiesInv
  <2>2. doc' = [doc EXCEPT ![l] = Input[n]] /\ queue' = queue \ {n} /\ pc[l] = "top"
    BY <1>3 DEF Take
  <2> HIDE DEF n
  <2>3. doc[l] = NoDoc /\ doc'[l] = Input[n] /\ \A m \in Lane \ {l} : doc'[m] = doc[m]
    BY <2>1, <2>2 DEF CopiesInv, Empty
  <2>4. InHand(d)' = IF Input[n] = d THEN InHand(d) + 1 ELSE InHand(d)
    BY <2>3, HandMoves, AbsentAssumption
  <2>5. Copies(d, queue)' = IF Input[n] = d THEN Copies(d, queue) - 1 ELSE Copies(d, queue)
    <3>1. /\ IsFiniteSet(Queued(d)) /\ Copies(d, queue) = Cardinality(Queued(d))
          /\ Copies(d, queue)' = Cardinality(Queued(d)')
      BY PlacesFinite DEF Copies, Queued
    <3>2. CASE Input[n] = d
      <4>1. Queued(d)' = Queued(d) \ {n} /\ n \in Queued(d)
        BY <2>1, <2>2, <3>2 DEF Queued
      <4> QED
        BY <3>1, <3>2, <4>1, FS_RemoveElement
    <3>3. CASE Input[n] # d
      <4>1. Queued(d)' = Queued(d)
        BY <2>1, <2>2, <3>3 DEF Queued
      <4> QED
        BY <3>1, <3>3, <4>1
    <3> QED
      BY <3>2, <3>3
  <2> QED
    BY <1>1, <2>4, <2>5
<1> QED
  BY <1>2, <1>3

LEMMA RecordPlaces ==
  ASSUME CopiesInv, NEW l \in Lane, Record(l)
  PROVE  /\ doc[l] \in Doc
         /\ \A d \in Doc : /\ Copies(d, queue)' = Copies(d, queue)
                           /\ InHand(d)' = IF d = doc[l] THEN InHand(d) - 1 ELSE InHand(d)
<1>1. doc[l] \in Doc
  BY DEF CopiesInv, Record, HasOutcome, Empty
<1>2. doc'[l] = NoDoc /\ (\A m \in Lane \ {l} : doc'[m] = doc[m]) /\ queue' = queue
  BY DEF Record, Forget
<1>3. ASSUME NEW d \in Doc
      PROVE  InHand(d)' = IF d = doc[l] THEN InHand(d) - 1 ELSE InHand(d)
  BY <1>1, <1>2, HandMoves, AbsentAssumption
<1> QED
  BY <1>1, <1>2, <1>3 DEF Copies

LEMMA HandsEmpty ==
  ASSUME NEW hands, \A l \in Lane : hands[l] = NoDoc, NEW d \in Doc
  PROVE  Cardinality({l \in Lane : hands[l] = d}) = 0
<1>1. {l \in Lane : hands[l] = d} = {}
  BY AbsentAssumption
<1> QED
  BY <1>1, FS_EmptySet

LEMMA NoCopies == \A d : Copies(d, {}) = 0
<1>1. \A d : {n \in {} : Input[n] = d} = {}
  OBVIOUS
<1> QED
  BY <1>1, FS_EmptySet DEF Copies

LEMMA QuietPlaces ==
  ASSUME CopiesInv, NEW l \in Lane, LaneStep(l), ~Take(l), ~Record(l)
  PROVE  UNCHANGED <<doc, queue, recorded>>
BY DEF LaneStep, Pass, OpenSession, Fault, Retry, Answer, CloseSession

LEMMA BalancedStep ==
  ASSUME CopiesInv, Balanced, [Next]_vars
  PROVE  Balanced'
<1>1. ASSUME NEW import \in BOOLEAN, StartRun(import) PROVE Balanced'
  <2> SUFFICES ASSUME NEW d \in Doc
               PROVE  (planned[d] = Copies(d, queue) + InHand(d) + recorded[d])'
    BY DEF Balanced
  <2>1. /\ \A l \in Lane : doc'[l] = NoDoc
        /\ planned'[d] = Copies(d, queue') /\ recorded'[d] = 0
        /\ queue' \subseteq DOMAIN Input
    <3>1. \A l \in Lane : pc[l] = "done"
      BY <1>1 DEF StartRun, CopiesInv, Ended
    <3> QED
      BY <1>1, <3>1 DEF StartRun, CopiesInv, Empty, Pending
  <2>2. InHand(d)' = 0
    BY <2>1, HandsEmpty DEF InHand
  <2>3. Copies(d, queue') \in Nat
    BY <2>1, CopiesFinite
  <2> QED
    BY <2>1, <2>2, <2>3
<1>2. ASSUME NEW l \in Lane, LaneStep(l) PROVE Balanced'
  <2> SUFFICES ASSUME clean', NEW d \in Doc
               PROVE  (planned[d] = Copies(d, queue) + InHand(d) + recorded[d])'
    BY DEF Balanced
  <2>1. UNCHANGED <<clean, planned>>
    BY <1>2 DEF LaneStep, Take, Pass, OpenSession, Fault, Retry, Record, CloseSession, Answer
  <2>2. /\ planned[d] = Copies(d, queue) + InHand(d) + recorded[d]
        /\ Copies(d, queue) \in Nat /\ InHand(d) \in Nat
        /\ recorded \in [Doc -> Nat] /\ recorded[d] \in Nat
    BY <2>1, PlacesFinite DEF Balanced, CopiesInv
  <2>3. CASE Take(l)
    <3>1. /\ Copies(d, queue)' + InHand(d)' = Copies(d, queue) + InHand(d)
          /\ UNCHANGED recorded
      BY <2>3, TakePlaces DEF Take
    <3> QED
      BY <2>1, <2>2, <3>1
  <2>4. CASE Record(l)
    <3>1. /\ doc[l] \in Doc /\ Copies(d, queue)' = Copies(d, queue)
          /\ InHand(d)' = IF d = doc[l] THEN InHand(d) - 1 ELSE InHand(d)
      BY <2>4, RecordPlaces
    <3>2. recorded' = [recorded EXCEPT ![doc[l]] = recorded[doc[l]] + 1]
      BY <2>4 DEF Record
    <3>3. recorded'[d] = IF d = doc[l] THEN recorded[d] + 1 ELSE recorded[d]
      BY <2>2, <3>2
    <3> QED
      BY <2>1, <2>2, <3>1, <3>3
  <2>5. CASE ~Take(l) /\ ~Record(l)
    <3>1. UNCHANGED <<doc, queue, recorded>>
      BY <1>2, <2>5, QuietPlaces
    <3> QED
      BY <2>1, <2>2, <3>1 DEF Copies, InHand
  <2> QED
    BY <2>3, <2>4, <2>5
<1>3. ASSUME Cancel \/ Kill PROVE Balanced'
  BY <1>3 DEF Cancel, Kill, Balanced
<1>4. ASSUME \/ EndLanes \/ Export \/ CooldownEnds \/ UNCHANGED vars PROVE Balanced'
  <2>1. UNCHANGED <<clean, doc, planned, recorded>>
    BY <1>4 DEF EndLanes, Export, CooldownEnds, vars, lanes
  <2>2. clean => queue' = queue
    <3>1. CASE Export
      <4>1. \A l \in Lane : pc[l] = "done"
        BY <3>1 DEF Export, CopiesInv, Ended
      <4> QED
        BY <3>1, <4>1, LaneAssumption DEF Export, CopiesInv
    <3> QED
      BY <1>4, <3>1 DEF EndLanes, CooldownEnds, vars
  <2> QED
    BY <2>1, <2>2 DEF Balanced, Copies, InHand
<1> QED
  BY <1>1, <1>2, <1>3, <1>4 DEF Next, InterruptInWrite, Interrupt

LEMMA Products ==
  ASSUME NEW a \in Nat, NEW b \in Nat, NEW m \in Nat
  PROVE  /\ a * m \in Nat
         /\ a <= b => a * m <= b * m
         /\ (a + 1) * m = a * m + m
<1>1. a * m \in Nat /\ (a + 1) * m = a * m + m
  OBVIOUS
<1>2. ASSUME a <= b PROVE a * m <= b * m
  <2>1. PICK k \in Nat : b = a + k
    <3>1. b - a \in Nat /\ b = a + (b - a)
      BY <1>2
    <3> QED
      BY <3>1
  <2>2. b * m = a * m + k * m /\ k * m \in Nat /\ a * m \in Nat
    BY <2>1
  <2> QED
    BY <2>2
<1> QED
  BY <1>1, <1>2

(* A step that charges nothing and makes no copies.                         *)
LEMMA ChargesKept ==
  ASSUME CopiesInv, ChargesLeft, CopiesInv', NEW d \in Doc,
         row'[d].count = row[d].count,
         Copies(d, queue)' + InHand(d)' <= Copies(d, queue) + InHand(d)
  PROVE  row'[d].count + (Copies(d, queue)' + InHand(d)') * MaxAttempts
           <= MaxTotal - 1 + CopiesIn(d) * MaxAttempts
<1> DEFINE a == Copies(d, queue)' + InHand(d)'
           b == Copies(d, queue) + InHand(d)
<1>1. a \in Nat /\ b \in Nat /\ a <= b
  <2>1. Copies(d, queue)' \in Nat
    BY CopiesFinite DEF CopiesInv
  <2>2. InHand(d)' \in Nat
    <3>1. {l \in Lane : doc'[l] = d} \in SUBSET Lane
      OBVIOUS
    <3> QED
      BY <3>1, LaneAssumption, FS_Subset, FS_CardinalityType DEF InHand
  <2> QED
    BY <2>1, <2>2, PlacesFinite
<1>2. /\ row[d].count \in Nat
      /\ row[d].count + b * MaxAttempts <= MaxTotal - 1 + CopiesIn(d) * MaxAttempts
  BY DEF ChargesLeft, CopiesInv, LaneInv, RowInv, Table, Row
<1>3. MaxAttempts \in Nat /\ MaxTotal \in Nat /\ CopiesIn(d) \in Nat
  BY LimitAssumption, PlacesFinite
<1> HIDE DEF a, b
<1>4. /\ a * MaxAttempts \in Nat /\ b * MaxAttempts \in Nat /\ CopiesIn(d) * MaxAttempts \in Nat
      /\ a * MaxAttempts <= b * MaxAttempts
  BY <1>1, <1>3, Products
<1>5. row'[d].count + a * MaxAttempts <= MaxTotal - 1 + CopiesIn(d) * MaxAttempts
  BY <1>2, <1>3, <1>4
<1> QED
  BY <1>5 DEF a

(* A lookup charges its attempts, all or none, when a lane lets it go.      *)
LEMMA RecordIncrement ==
  ASSUME LaneInv, NEW l \in Lane, Record(l)
  PROVE  \A d \in Doc : row'[d].count
           <= IF d = doc[l] THEN row[d].count + MaxAttempts ELSE row[d].count
<1> TAKE d \in Doc
<1>1. row' = [row EXCEPT ![doc[l]] = Outcome(l)] /\ row \in [Doc -> Row] /\ row[d].count \in Nat
  BY DEF Record, Recorded, LaneInv, RowInv, Table, Row
<1>2. MaxAttempts \in Nat
  BY LimitAssumption
<1>3. CASE d # doc[l]
  BY <1>1, <1>3
<1>4. CASE d = doc[l]
  <2>1. row'[d] = Outcome(l)
    BY <1>1, <1>4
  <2>2. Succeeded(row[d]).count = row[d].count /\ NotFound(row[d]).count = row[d].count
    BY <1>1 DEF Succeeded, NotFound, Row
  <2>3. ASSUME pc[l] # "rest" PROVE Outcome(l).count <= row[d].count + MaxAttempts
    <3>1. Charged(l) \in {0, MaxAttempts}
      BY <2>3 DEF Record, HasOutcome, Charged
    <3>2. Outcome(l) = Failed(row[d], Charged(l))
      BY <1>4, <2>3 DEF Outcome
    <3> QED
      BY <1>1, <1>2, <3>1, <3>2 DEF Failed
  <2>4. ASSUME pc[l] = "rest" PROVE Outcome(l).count = row[d].count
    BY <1>4, <2>2, <2>4 DEF Outcome
  <2> QED
    BY <1>1, <1>2, <1>4, <2>1, <2>3, <2>4
<1> QED
  BY <1>3, <1>4

LEMMA ChargesLeftStep ==
  ASSUME CopiesInv, CopiesInv', ChargesLeft, [Next]_vars
  PROVE  ChargesLeft'
<1> SUFFICES ASSUME NEW d \in Doc
             PROVE  row'[d].count + (Copies(d, queue)' + InHand(d)') * MaxAttempts
                      <= MaxTotal - 1 + CopiesIn(d) * MaxAttempts
  BY DEF ChargesLeft, CopiesIn, Copies
<1> DEFINE Within == row'[d].count + (Copies(d, queue)' + InHand(d)') * MaxAttempts
                       <= MaxTotal - 1 + CopiesIn(d) * MaxAttempts
<1>1. /\ MaxAttempts \in Nat /\ MaxTotal \in Nat /\ CopiesIn(d) \in Nat
      /\ Copies(d, queue) \in Nat /\ InHand(d) \in Nat
      /\ row \in [Doc -> Row] /\ row[d].count \in Nat
  BY LimitAssumption, PlacesFinite DEF CopiesInv, LaneInv, RowInv, Table, Row
<1>2. ASSUME UNCHANGED row,
             Copies(d, queue)' + InHand(d)' <= Copies(d, queue) + InHand(d)
      PROVE  Within
  BY <1>2, ChargesKept
<1>3. ASSUME UNCHANGED <<row, queue, doc>> PROVE Within
  <2>1. Copies(d, queue)' + InHand(d)' = Copies(d, queue) + InHand(d)
    BY <1>3 DEF Copies, InHand
  <2> QED
    BY <1>1, <1>2, <1>3, <2>1
<1>4. ASSUME NEW import \in BOOLEAN, StartRun(import) PROVE Within
  <2>1. row'[d].count = row[d].count
    BY <1>1, <1>4 DEF StartRun, ImportedRows, Succeeded, Row
  <2>2. InHand(d)' = 0
    <3>1. \A l \in Lane : doc'[l] = NoDoc
      BY <1>4 DEF StartRun, CopiesInv, Ended, Empty
    <3> QED
      BY <3>1, HandsEmpty DEF InHand
  <2>3. queue' = Pending(row')
    BY <1>4 DEF StartRun
  <2>4. CASE Terminal(row'[d])
    <3>1. {n \in queue' : Input[n] = d} = {}
      BY <2>3, <2>4 DEF Pending
    <3>2. Copies(d, queue)' = 0
      BY <3>1, FS_EmptySet DEF Copies
    <3> QED
      BY <1>1, <2>1, <2>2, <3>2, ChargesKept
  <2>5. CASE ~Terminal(row'[d])
    <3>1. row'[d].count <= MaxTotal - 1
      BY <1>1, <2>1, <2>5 DEF Terminal
    <3>2. Copies(d, queue)' \in Nat /\ Copies(d, queue)' <= CopiesIn(d)
      <4>1. {n \in queue' : Input[n] = d} \in SUBSET {n \in DOMAIN Input : Input[n] = d}
        BY DEF CopiesInv
      <4>2. IsFiniteSet({n \in DOMAIN Input : Input[n] = d})
        BY CopiesFinite
      <4>3. /\ Cardinality({n \in queue' : Input[n] = d}) <= Cardinality({n \in DOMAIN Input : Input[n] = d})
            /\ IsFiniteSet({n \in queue' : Input[n] = d})
        BY <4>1, <4>2, FS_Subset
      <4>4. Cardinality({n \in queue' : Input[n] = d}) \in Nat
        BY <4>3, FS_CardinalityType
      <4> QED
        BY <4>3, <4>4 DEF Copies, CopiesIn
    <3> DEFINE a == Copies(d, queue)'
               b == CopiesIn(d)
    <3>3. a \in Nat /\ b \in Nat /\ a <= b /\ a + InHand(d)' = a
      BY <1>1, <2>2, <3>2
    <3> HIDE DEF a, b
    <3>4. a * MaxAttempts <= b * MaxAttempts /\ a * MaxAttempts \in Nat /\ b * MaxAttempts \in Nat
      BY <1>1, <3>3, Products
    <3>5. row'[d].count + (a + InHand(d)') * MaxAttempts <= MaxTotal - 1 + b * MaxAttempts
      BY <1>1, <2>1, <3>1, <3>3, <3>4
    <3> QED
      BY <3>5 DEF a, b
  <2> QED
    BY <2>4, <2>5
<1>5. ASSUME NEW l \in Lane, LaneStep(l) PROVE Within
  <2>1. CASE Take(l)
    <3>1. Copies(d, queue)' + InHand(d)' = Copies(d, queue) + InHand(d) /\ UNCHANGED row
      BY <2>1, TakePlaces DEF Take
    <3> QED
      BY <1>1, <1>2, <3>1
  <2>2. CASE Record(l)
    <3>1. /\ Copies(d, queue)' = Copies(d, queue)
          /\ InHand(d)' = IF d = doc[l] THEN InHand(d) - 1 ELSE InHand(d)
      BY <2>2, RecordPlaces
    <3>2. /\ row'[d].count <= IF d = doc[l] THEN row[d].count + MaxAttempts ELSE row[d].count
          /\ row'[d].count \in Nat
      BY <2>2, RecordIncrement DEF CopiesInv, LaneInv, RowInv, Table, Row
    <3> DEFINE a == Copies(d, queue)' + InHand(d)'
               b == Copies(d, queue) + InHand(d)
    <3>3. row[d].count + b * MaxAttempts <= MaxTotal - 1 + CopiesIn(d) * MaxAttempts
      BY DEF ChargesLeft
    <3>4. /\ a \in Int /\ b \in Nat
          /\ a = IF d = doc[l] THEN b - 1 ELSE b
      BY <1>1, <3>1
    <3>5. CASE d = doc[l]
      <4>1. l \in Holders(d)
        BY <3>5 DEF Holders
      <4>2. InHand(d) # 0
        BY <4>1, PlacesFinite, FS_EmptySet
      <4>3. a \in Nat /\ b = a + 1
        BY <1>1, <3>1, <3>5, <4>2
      <4> HIDE DEF a, b
      <4>4. /\ a * MaxAttempts \in Nat /\ CopiesIn(d) * MaxAttempts \in Nat
            /\ (a + 1) * MaxAttempts = a * MaxAttempts + MaxAttempts
        BY <1>1, <4>3, Products
      <4>5. row'[d].count + a * MaxAttempts <= MaxTotal - 1 + CopiesIn(d) * MaxAttempts
        BY <1>1, <3>2, <3>3, <3>5, <4>3, <4>4
      <4> QED
        BY <4>5 DEF a
    <3>6. CASE d # doc[l]
      <4> HIDE DEF a, b
      <4>1. b * MaxAttempts \in Nat /\ CopiesIn(d) * MaxAttempts \in Nat
        BY <1>1, <3>4, Products
      <4>2. row'[d].count + a * MaxAttempts <= MaxTotal - 1 + CopiesIn(d) * MaxAttempts
        BY <1>1, <3>2, <3>3, <3>4, <3>6, <4>1
      <4> QED
        BY <4>2 DEF a
    <3> QED
      BY <3>5, <3>6
  <2>3. CASE ~Take(l) /\ ~Record(l)
    <3>1. UNCHANGED <<doc, queue>>
      BY <1>5, <2>3, QuietPlaces
    <3>2. UNCHANGED row
      BY <1>5, <2>3 DEF LaneStep, Pass, OpenSession, Fault, Retry, Answer, CloseSession
    <3> QED
      BY <1>3, <3>1, <3>2
  <2> QED
    BY <2>1, <2>2, <2>3
<1>6. ASSUME Cancel \/ Kill PROVE Within
  <2>1. /\ \A l \in Lane : doc'[l] = NoDoc
        /\ queue' \in {queue, {}} /\ row' = row
    BY <1>6 DEF Cancel, Kill, Forget
  <2>2. InHand(d)' = 0
    BY <2>1, HandsEmpty DEF InHand
  <2>3. Copies(d, queue)' \in {0, Copies(d, queue)} /\ row' = row
    <3>1. row' = row /\ queue' \in {{}, queue}
      BY <1>6 DEF Cancel, Kill
    <3> QED
      BY <3>1, NoCopies DEF Copies
  <2> QED
    BY <1>1, <1>2, <2>2, <2>3
<1>7. ASSUME Export PROVE Within
  <2>1. UNCHANGED <<row, doc>> /\ queue' \in {{}, queue}
    BY <1>7 DEF Export, lanes
  <2>2. Copies(d, queue)' \in {0, Copies(d, queue)} /\ InHand(d)' = InHand(d)
    BY <2>1, NoCopies DEF Copies, InHand
  <2> QED
    BY <1>1, <1>2, <2>1, <2>2
<1>8. ASSUME EndLanes \/ CooldownEnds \/ UNCHANGED vars PROVE Within
  BY <1>3, <1>8 DEF EndLanes, CooldownEnds, vars, lanes
<1> QED
  BY <1>4, <1>5, <1>6, <1>7, <1>8 DEF Next, InterruptInWrite, Interrupt

LEMMA CopiesStart == Init => CopiesInv /\ Balanced /\ ChargesLeft
<1> SUFFICES ASSUME Init PROVE CopiesInv /\ Balanced /\ ChargesLeft
  OBVIOUS
<1>1. LaneInv
  BY LimitAssumption DEF Init, LaneInv, RowInv, Table, Row
<1>2. CopiesInv
  BY <1>1 DEF Init, CopiesInv, Empty, Ended, Exporting
<1>3. Balanced
  BY DEF Init, Balanced
<1>4. ASSUME NEW d \in Doc
      PROVE  row[d].count + (Copies(d, queue) + InHand(d)) * MaxAttempts
               <= MaxTotal - 1 + CopiesIn(d) * MaxAttempts
  <2>1. InHand(d) = 0
    BY HandsEmpty DEF Init, InHand
  <2>2. Copies(d, queue) = 0
    BY NoCopies DEF Init
  <2>3. row[d].count = 0 /\ CopiesIn(d) \in Nat
    BY <1>2, PlacesFinite DEF Init
  <2>4. CopiesIn(d) * MaxAttempts \in Nat /\ 0 * MaxAttempts = 0
    BY <2>3, LimitAssumption, Products
  <2> QED
    BY <2>1, <2>2, <2>3, <2>4, LimitAssumption
<1> QED
  BY <1>2, <1>3, <1>4 DEF ChargesLeft

-----------------------------------------------------------------------------
(* The types *)

(* The variables that no invariant above types.                             *)
RestTyped ==
    /\ exported \in [Status -> SUBSET Doc]
    /\ phase \in {"idle", "running", "stopping"} \cup Exporting
    /\ runs \in 0..MaxRuns
    /\ clean \in BOOLEAN
    /\ dirty \in Table
    /\ session \in [Lane -> BOOLEAN]
    /\ uses \in [Lane -> 0..Budget]
    /\ answer \in [Lane -> {"ok", "not_found"}]
    /\ failures \in [Doc -> Nat]

(* A write that a signal left open is the row a lane would have written.    *)
LEMMA RecordedTyped ==
  ASSUME LaneInv, NEW l \in Lane, HasOutcome(l)
  PROVE  Recorded(l) \in Table
<1> USE LimitAssumption
<1>1. row \in [Doc -> Row] /\ attempt[l] \in Nat
  BY DEF LaneInv, RowInv, Table
<1>2. CASE doc[l] \notin Doc
  BY <1>1, <1>2 DEF Recorded, Table
<1>3. CASE doc[l] \in Doc
  <2> DEFINE r == row[doc[l]]
  <2>1. r \in Row /\ r.count \in Nat /\ r.status \in Status \cup {"none"}
    BY <1>1, <1>3 DEF Row
  <2>2. Charged(l) \in Nat
    BY <1>1 DEF Charged
  <2>3. \A s \in Status : [r EXCEPT !.status = s] \in Row
    BY <2>1 DEF Row
  <2>4. Failed(r, Charged(l)) \in Row
    BY <2>1, <2>2 DEF Failed, Row, Status
  <2>5. Succeeded(r) \in Row /\ NotFound(r) \in Row
    BY <2>1, <2>3 DEF Succeeded, NotFound, Status
  <2>6. Outcome(l) \in Row
    BY <2>4, <2>5 DEF Outcome
  <2> QED
    BY <1>1, <2>6 DEF Recorded, Table
<1> QED
  BY <1>2, <1>3

LEMMA RestStep ==
  ASSUME RestTyped, CopiesInv, CopiesInv', [Next]_vars
  PROVE  RestTyped'
<1> USE LimitAssumption
<1>1. row \in Table /\ row' \in Table /\ LaneInv
  BY DEF CopiesInv, LaneInv, RowInv
<1>2. ASSUME NEW G, Forget(G) PROVE answer' \in [Lane -> {"ok", "not_found"}]
  BY <1>2 DEF Forget, RestTyped
<1>3. ASSUME NEW import \in BOOLEAN, StartRun(import) PROVE RestTyped'
  <2>1. runs + 1 \in 0..MaxRuns
    BY <1>3 DEF StartRun, RestTyped
  <2> QED
    BY <1>1, <1>3, <2>1 DEF StartRun, RestTyped
<1>4. ASSUME NEW l \in Lane, LaneStep(l) PROVE RestTyped'
  <2>1. CASE Fault(l)
    <3>1. failures' = [failures EXCEPT ![doc[l]] = failures[doc[l]] + 1] /\ failures \in [Doc -> Nat]
      BY <2>1 DEF Fault, RestTyped
    <3>2. failures' \in [Doc -> Nat]
      <4>1. CASE doc[l] \in Doc
        BY <3>1, <4>1
      <4>2. CASE doc[l] \notin Doc
        BY <3>1, <4>2
      <4> QED
        BY <4>1, <4>2
    <3> QED
      BY <2>1, <3>2 DEF Fault, RestTyped
  <2>2. CASE Record(l)
    <3>1. uses[l] \in 0..Budget /\ session \in [Lane -> BOOLEAN] /\ uses \in [Lane -> 0..Budget]
      BY DEF RestTyped
    <3>2. uses' \in [Lane -> 0..Budget]
      <4> DEFINE n == IF pc[l] = "rest" /\ uses[l] + 1 < Budget THEN uses[l] + 1 ELSE 0
      <4>1. uses' = [uses EXCEPT ![l] = n]
        BY <2>2 DEF Record
      <4>2. n \in 0..Budget
        BY <3>1
      <4> QED
        BY <3>1, <4>1, <4>2
    <3>3. session' \in [Lane -> BOOLEAN]
      BY <2>2, <3>1 DEF Record
    <3>4. /\ dirty' = row' /\ UNCHANGED <<exported, phase, runs, clean, failures>>
          /\ answer' \in [Lane -> {"ok", "not_found"}]
      BY <1>2, <2>2 DEF Record
    <3> QED
      BY <1>1, <3>2, <3>3, <3>4 DEF RestTyped
  <2>3. CASE \/ Take(l) \/ Pass(l) \/ OpenSession(l) \/ Retry(l) \/ CloseSession(l)
             \/ \E status \in {"ok", "not_found"} : Answer(l, status)
    <3>1. /\ UNCHANGED <<exported, phase, runs, clean, dirty, failures>>
          /\ answer' \in [Lane -> {"ok", "not_found"}]
      BY <2>3 DEF Take, Pass, OpenSession, Retry, CloseSession, Answer, RestTyped
    <3>2. uses' \in [Lane -> 0..Budget]
      BY <2>3 DEF Take, Pass, OpenSession, Retry, CloseSession, Answer, RestTyped
    <3>3. session' \in {session, [session EXCEPT ![l] = TRUE], [session EXCEPT ![l] = FALSE]}
      BY <2>3 DEF Take, Pass, OpenSession, Retry, CloseSession, Answer
    <3>4. session' \in [Lane -> BOOLEAN]
      BY <3>3 DEF RestTyped
    <3> QED
      BY <3>1, <3>2, <3>4 DEF RestTyped
  <2> QED
    BY <1>4, <2>1, <2>2, <2>3 DEF LaneStep
<1>5. ASSUME Cancel, dirty' \in Table PROVE RestTyped'
  <2>1. answer' \in [Lane -> {"ok", "not_found"}]
    BY <1>2, <1>5 DEF Cancel
  <2> QED
    BY <1>5, <2>1 DEF Cancel, RestTyped
<1>6. ASSUME Interrupt PROVE RestTyped'
  BY <1>5, <1>6 DEF Interrupt, RestTyped
<1>7. ASSUME NEW l \in Lane, InterruptInWrite(l) PROVE RestTyped'
  BY <1>1, <1>5, <1>7, RecordedTyped DEF InterruptInWrite
<1>8. ASSUME Export PROVE RestTyped'
  <2>1. phase \in Exporting /\ dirty' \in Table
    BY <1>1, <1>8 DEF Export, RestTyped
  <2>2. FileOf[phase] \in Status /\ ExportOrder[phase] \in {"idle"} \cup Exporting
    BY <2>1 DEF Exporting, FileOf, ExportOrder, Status
  <2>3. exported' \in [Status -> SUBSET Doc]
    BY <1>8, <2>2 DEF Export, RestTyped
  <2> QED
    BY <1>8, <2>1, <2>2, <2>3 DEF Export, RestTyped, lanes
<1>9. ASSUME Kill PROVE RestTyped'
  <2>1. answer' \in [Lane -> {"ok", "not_found"}]
    BY <1>2, <1>9 DEF Kill
  <2> QED
    <3>1. session' = [l \in Lane |-> FALSE] /\ uses' \in [Lane -> 0..Budget]
      BY <1>9 DEF Kill
    <3>2. session' \in [Lane -> BOOLEAN]
      BY <3>1
    <3>3. UNCHANGED <<exported, runs, failures>> /\ phase' = "idle" /\ clean' = FALSE /\ dirty' = row
      BY <1>9 DEF Kill
    <3> QED
      BY <1>1, <2>1, <3>1, <3>2, <3>3 DEF RestTyped
<1>10. ASSUME EndLanes \/ CooldownEnds \/ UNCHANGED vars PROVE RestTyped'
  BY <1>10 DEF EndLanes, CooldownEnds, vars, lanes, RestTyped, Exporting
<1> QED
  BY <1>3, <1>4, <1>6, <1>7, <1>8, <1>9, <1>10 DEF Next

-----------------------------------------------------------------------------

LEMMA InitialRun == Init => BreakerInv /\ RowInv /\ ExportInv
<1> SUFFICES ASSUME Init PROVE BreakerInv /\ RowInv /\ ExportInv
  OBVIOUS
<1> USE LimitAssumption DEF Init
<1>1. BreakerInv
  BY DEF BreakerInv, BreakerSurvives, Closed, Breaker
<1>2. RowInv
  BY DEF RowInv, Table, Row
<1>3. ExportInv
  BY DEF ExportInv
<1> QED
  BY <1>1, <1>2, <1>3

(* Every variable of a run keeps its type: no count of attempts, uses or    *)
(* launches leaves its range, and an open write is a row of the table.      *)
THEOREM TypeCorrect == Spec => []TypeOK
<1> DEFINE Inv == BreakerInv /\ CopiesInv /\ RestTyped
<1>1. Init => Inv
  <2> SUFFICES ASSUME Init PROVE Inv
    OBVIOUS
  <2>1. row \in Table
    BY InitialRun DEF RowInv
  <2>2. RestTyped
    <3>1. session \in [Lane -> BOOLEAN]
      <4>1. session = [l \in Lane |-> FALSE]
        BY DEF Init
      <4> QED
        BY <4>1
    <3>2. /\ uses \in [Lane -> 0..Budget] /\ answer \in [Lane -> {"ok", "not_found"}]
          /\ failures \in [Doc -> Nat] /\ exported \in [Status -> SUBSET Doc]
      <4>1. uses = [l \in Lane |-> 0] /\ answer = [l \in Lane |-> "ok"]
        BY DEF Init
      <4>2. failures = [d \in Doc |-> 0] /\ exported = [x \in Status |-> {}]
        BY DEF Init
      <4> QED
        BY <4>1, <4>2, LimitAssumption
    <3>3. phase = "idle" /\ runs = 0 /\ clean = FALSE /\ dirty = row
      BY DEF Init
    <3>4. phase \in {"idle"} /\ runs \in 0..MaxRuns /\ dirty \in Table
      BY <2>1, <3>3, LimitAssumption
    <3>5. clean \in BOOLEAN
      BY <3>3
    <3> QED
      BY <3>1, <3>2, <3>4, <3>5 DEF RestTyped
  <2> QED
    BY <2>2, InitialRun, CopiesStart
<1>2. Inv /\ [Next]_vars => Inv'
  BY BreakerStep, CopiesTypes, RestStep
<1>3. Inv => TypeOK
  BY DEF BreakerInv, BreakerSurvives, CopiesInv, LaneInv, RowInv, RestTyped, TypeOK
<1> QED
  BY <1>1, <1>2, <1>3, PTL DEF Spec

(* run.py:160: the saved breaker is always the one the lanes left, and its  *)
(* level says whether a cooldown was set.                                   *)
THEOREM BreakerSurvivesHolds == Spec => []BreakerSurvives
<1>1. BreakerInv /\ [Next]_vars => BreakerInv'
  BY BreakerStep
<1>2. BreakerInv => BreakerSurvives
  BY DEF BreakerInv
<1> QED
  BY InitialRun, <1>1, <1>2, PTL DEF Spec

(* outcomes.py:65: the outcome table implements OutcomeTable: an answer is  *)
(* final, failures add up by whole lookups, and no interruption undoes it.  *)
THEOREM TableImplemented == Spec => ImplementsTable
<1>1. Init => Promise!Init
  BY DEF Init, Promise!Init, Promise!NoRow
<1>2. RowInv /\ [Next]_vars => RowInv' /\ [Promise!Next]_row
  BY TableStep
<1> QED
  BY InitialRun, <1>1, <1>2, PTL DEF Spec, ImplementsTable, Promise!Spec

(* outcomes.py:249: a document is charged only attempts that were made and  *)
(* failed, whatever lanes work on copies of it and whatever ends the runs.  *)
THEOREM ChargesAreEarnedHolds == Spec => []ChargesAreEarned
<1>1. Init => ChargeInv
  <2> SUFFICES ASSUME Init PROVE ChargeInv
    OBVIOUS
  <2>1. LaneInv /\ failures \in [Doc -> Nat]
    BY InitialRun DEF LaneInv, Init
  <2>2. \A d \in Doc : InFlight(d) = {}
    BY DEF InFlight, Made, Init
  <2>3. \A d \in Doc : Cardinality(InFlight(d)) = 0
    BY <2>2, FS_EmptySet
  <2>4. \A d \in Doc : row[d].count = 0 /\ failures[d] = 0
    BY DEF Init
  <2>5. \A d \in Doc : row[d].count + Cardinality(InFlight(d)) <= failures[d]
    BY <2>3, <2>4
  <2> QED
    BY <2>1, <2>5 DEF ChargeInv
<1>2. ChargeInv /\ [Next]_vars => ChargeInv'
  BY ChargeStep, LaneAssumption
<1>3. ChargeInv => ChargesAreEarned
  <2> SUFFICES ASSUME ChargeInv, NEW d \in Doc PROVE row[d].count <= failures[d]
    BY DEF ChargesAreEarned
  <2>1. Cardinality(InFlight(d)) \in Nat
    BY InFlightFinite, LaneAssumption
  <2>2. row[d].count \in Nat /\ failures[d] \in Nat
    BY DEF ChargeInv, LaneInv, RowInv, Table, Row
  <2> QED
    BY <2>1, <2>2 DEF ChargeInv
<1> QED
  BY <1>1, <1>2, <1>3, PTL DEF Spec

(* run.py:116: when a run that was neither interrupted nor killed is over,  *)
(* its three files are its table.                                           *)
THEOREM ExportsHold == Spec => [](clean /\ phase = "idle" => ExportsCurrent)
<1>1. ExportInv /\ [Next]_vars => ExportInv'
  BY ExportStep
<1>2. ExportInv => (clean /\ phase = "idle" => ExportsCurrent)
  BY DEF ExportInv, ExportsCurrent, Rows, Status
<1> QED
  BY InitialRun, <1>1, <1>2, PTL DEF Spec

(* policy.py:17: the cap holds for every document and input, over any       *)
(* launches: it is overshot only by copies that were queued together.       *)
THEOREM CapHoldsAlways == Spec => []CapHolds
<1>1. Init => CopiesInv /\ ChargesLeft
  BY CopiesStart
<1>2. CopiesInv /\ ChargesLeft /\ [Next]_vars => CopiesInv' /\ ChargesLeft'
  BY CopiesTypes, ChargesLeftStep
<1>3. CopiesInv /\ ChargesLeft => CapHolds
  <2> SUFFICES ASSUME CopiesInv, ChargesLeft, NEW d \in Doc
               PROVE  row[d].count <= MaxTotal - 1 + CopiesIn(d) * MaxAttempts
    BY DEF CapHolds
  <2> DEFINE b == Copies(d, queue) + InHand(d)
  <2>1. /\ b \in Nat /\ CopiesIn(d) \in Nat /\ MaxAttempts \in Nat /\ MaxTotal \in Nat
        /\ row[d].count \in Nat
    BY LimitAssumption, PlacesFinite DEF CopiesInv, LaneInv, RowInv, Table, Row
  <2>2. row[d].count + b * MaxAttempts <= MaxTotal - 1 + CopiesIn(d) * MaxAttempts
    BY DEF ChargesLeft
  <2> HIDE DEF b
  <2>3. b * MaxAttempts \in Nat /\ CopiesIn(d) * MaxAttempts \in Nat
    BY <2>1, Products
  <2> QED
    BY <2>1, <2>2, <2>3
<1> QED
  BY <1>1, <1>2, <1>3, PTL DEF Spec

(* run_worker and run.py:116: while a run is neither interrupted nor        *)
(* killed, each planned copy of a document is queued, in a lane's hands or  *)
(* recorded, and once only; when it is over the exports are its table.      *)
THEOREM NothingLostHolds == Spec => []NothingLost
<1>1. Init => CopiesInv /\ Balanced
  BY CopiesStart
<1>2. CopiesInv /\ Balanced /\ [Next]_vars => CopiesInv' /\ Balanced'
  BY CopiesTypes, BalancedStep
<1>3. ExportInv /\ [Next]_vars => ExportInv'
  BY ExportStep
<1>4. Balanced /\ ExportInv => NothingLost
  BY DEF Balanced, ExportInv, NothingLost, ExportsCurrent, Rows, Status
<1> QED
  BY InitialRun, <1>1, <1>2, <1>3, <1>4, PTL DEF Spec

=============================================================================
