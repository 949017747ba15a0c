---------------------------- MODULE ClientProofs ----------------------------
(***************************************************************************)
(* What the clients of Components report when they end well is complete:   *)
(* the browser client, the capture relay and the merge of shards, for any  *)
(* input, tabs, shards and sites.                                          *)
(***************************************************************************)
EXTENDS Components, WellFoundedInduction, TLAPS

(* A set of numbers has a first element.                                    *)
Less == {p \in Nat \X Nat : p[1] < p[2]}

LEMMA First ==
  ASSUME NEW S \in SUBSET Nat, S # {}
  PROVE  \E x \in S : \A y \in S : x <= y
<1>1. Less = OpToRel(<, Nat)
  BY DEF OpToRel, Less
<1>2. PICK x \in S : \A y \in S : <<y, x>> \notin Less
  BY <1>1, NatLessThanWellFounded, WFMin
<1>3. ASSUME NEW y \in S PROVE x <= y
  <2>1. ~(y < x)
    BY <1>2 DEF Less
  <2> QED
    BY <2>1
<1> QED
  BY <1>3

-----------------------------------------------------------------------------
(***************************************************************************)
(* The browser client. A subject leaves the list when it has been observed *)
(* or passed over, and one that a session broke on may do either later:    *)
(* what has left is observed or unresolved (Accounted), and the exit code  *)
(* is 0 only if nothing is left and nothing unresolved.                    *)
(***************************************************************************)

DriverType ==
    [at : {"off", "launch", "drive", "export", "ended"}, rejects : Nat,
     restarts : 0..MaxRestarts, unresolved : SUBSET Subject,
     raised : BOOLEAN, code : {0, 1}]

StoreOK ==
    /\ observed \subseteq Subject /\ blank \subseteq observed
    /\ current \subseteq Subject /\ left \subseteq Subject

(* A running driver has a subject before it, and accounts for all behind it. *)
Accounted ==
    /\ driver.at \in {"launch", "drive"} => left # {}
    /\ driver.at \in {"launch", "drive", "export"} =>
         Subject \ left \subseteq observed \cup driver.unresolved

Succeeded ==
    driver.at = "ended" /\ driver.code = 0 => observed = Subject /\ current = Subject \ blank

BrowserInv == StoreOK /\ driver \in DriverType /\ Accounted /\ Succeeded

(* subjects[index] is the first of the subjects that are left.              *)
LEMMA CurrentIsLeft ==
  ASSUME StoreOK, left # {}
  PROVE  Browser!Current \in left
<1>1. \E n \in left : \A m \in left : n <= m
  BY First, RunsAssumption DEF StoreOK
<1> QED
  BY <1>1 DEF Browser!Current, Browser!Min

LEMMA OffDriver == Browser!Off \in DriverType /\ Browser!Off.at = "off"
<1>1. 0 \in 0..MaxRestarts
  BY RunsAssumption
<1> QED
  BY <1>1 DEF Browser!Off, DriverType

(* A broken session is followed by another one or by the export.            *)
LEMMA BrokenDriver ==
  ASSUME NEW d \in DriverType, NEW rest
  PROVE  /\ Browser!Broken(d, rest) \in DriverType
         /\ Browser!Broken(d, rest).at \in {"launch", "export"}
         /\ Browser!Broken(d, rest).at = "launch" => rest # {}
         /\ Browser!Broken(d, rest).unresolved = d.unresolved
<1>1. CASE d.restarts >= MaxRestarts
  <2>1. Browser!Broken(d, rest) = [d EXCEPT !.at = "export"]
    BY <1>1 DEF Browser!Broken
  <2> QED
    BY <2>1 DEF DriverType
<1>2. CASE ~(d.restarts >= MaxRestarts)
  <2>1. d.restarts + 1 \in 0..MaxRestarts
    BY <1>2, RunsAssumption DEF DriverType
  <2>2. Browser!Broken(d, rest) =
          [d EXCEPT !.at = IF rest = {} THEN "export" ELSE "launch", !.restarts = d.restarts + 1]
    BY <1>2 DEF Browser!Broken
  <2> QED
    BY <2>1, <2>2 DEF DriverType
<1> QED
  BY <1>1, <1>2

(* A driver that goes on accounts for what it passed.                       *)
LEMMA GoesOn ==
  ASSUME BrowserInv, StoreOK', driver' \in DriverType,
         driver'.at \in {"launch", "drive", "export"},
         driver'.at \in {"launch", "drive"} => left' # {},
         Subject \ left' \subseteq observed' \cup driver'.unresolved
  PROVE  BrowserInv'
BY DEF BrowserInv, Accounted, Succeeded

LEMMA LookupKeeps ==
  ASSUME BrowserInv, Browser!OnSuccess \/ Browser!OnReject \/ Browser!OnFailure
  PROVE  BrowserInv'
<1> DEFINE s == Browser!Current
<1>1. driver.at = "drive" /\ driver \in DriverType /\ StoreOK
  BY DEF BrowserInv, Browser!OnSuccess, Browser!OnReject, Browser!OnFailure
<1>2. s \in left /\ s \in Subject /\ Subject \ left \subseteq observed \cup driver.unresolved
  BY <1>1, CurrentIsLeft DEF BrowserInv, Accounted, StoreOK
<1> HIDE DEF s
<1>3. CASE Browser!OnSuccess
  <2>1. /\ observed' = observed \cup {s} /\ left' = left \ {s} /\ current' = current
        /\ blank' \in {blank, blank \cup {s}}
        /\ driver' = [driver EXCEPT !.rejects = 0, !.unresolved = driver.unresolved \ {s},
                                    !.at = IF left' = {} THEN "export" ELSE "drive"]
    BY <1>3 DEF Browser!OnSuccess, Browser!InOrder, s
  <2>2. /\ driver' \in DriverType /\ driver'.unresolved = driver.unresolved \ {s}
        /\ driver'.at = IF left' = {} THEN "export" ELSE "drive"
    BY <1>1, <2>1 DEF DriverType
  <2>3. StoreOK'
    BY <1>1, <1>2, <2>1 DEF StoreOK
  <2>4. Subject \ left' \subseteq observed' \cup driver'.unresolved
    BY <1>2, <2>1, <2>2
  <2> QED
    BY <2>2, <2>3, <2>4, GoesOn
<1>4. CASE Browser!OnReject
  <2> DEFINE d == [driver EXCEPT !.rejects = driver.rejects + 1,
                                 !.unresolved = driver.unresolved \cup {s}]
  <2>1. /\ observed' = observed /\ blank' = blank /\ left' = left \ {s} /\ current' = current
        /\ driver' = IF d.rejects >= RejectThreshold THEN Browser!Broken(d, left')
                     ELSE [d EXCEPT !.at = IF left' = {} THEN "export" ELSE "drive"]
    BY <1>4 DEF Browser!OnReject, Browser!InOrder, s
  <2>2. d \in DriverType /\ d.unresolved = driver.unresolved \cup {s}
    <3>1. driver.unresolved \cup {s} \in SUBSET Subject /\ driver.rejects + 1 \in Nat
      BY <1>1, <1>2 DEF DriverType
    <3> QED
      BY <1>1, <3>1 DEF DriverType
  <2> HIDE DEF d
  <2>3. /\ driver' \in DriverType /\ driver'.unresolved = driver.unresolved \cup {s}
        /\ driver'.at \in {"launch", "drive", "export"}
        /\ driver'.at \in {"launch", "drive"} => left' # {}
    <3>1. CASE d.rejects >= RejectThreshold
      BY <2>1, <2>2, <3>1, BrokenDriver
    <3>2. CASE ~(d.rejects >= RejectThreshold)
      <4>1. driver' = [d EXCEPT !.at = IF left' = {} THEN "export" ELSE "drive"]
        BY <2>1, <3>2
      <4> QED
        BY <2>2, <4>1 DEF DriverType
    <3> QED
      BY <3>1, <3>2
  <2>4. StoreOK'
    BY <1>1, <2>1 DEF StoreOK
  <2>5. Subject \ left' \subseteq observed' \cup driver'.unresolved
    BY <1>2, <2>1, <2>3
  <2> QED
    BY <2>3, <2>4, <2>5, GoesOn
<1>5. CASE Browser!OnFailure
  <2> DEFINE d == [driver EXCEPT !.unresolved = driver.unresolved \cup {s}]
  <2>1. UNCHANGED <<observed, blank, current, left>> /\ driver' = Browser!Broken(d, left)
    BY <1>5 DEF Browser!OnFailure, s
  <2>2. d \in DriverType /\ d.unresolved = driver.unresolved \cup {s}
    BY <1>1, <1>2 DEF DriverType
  <2> HIDE DEF d
  <2>3. /\ driver' \in DriverType /\ driver'.unresolved = driver.unresolved \cup {s}
        /\ driver'.at \in {"launch", "export"}
    BY <2>1, <2>2, BrokenDriver
  <2>4. StoreOK'
    BY <1>1, <2>1 DEF StoreOK
  <2>5. Subject \ left' \subseteq observed' \cup driver'.unresolved
    BY <1>2, <2>1, <2>3
  <2> QED
    BY <1>2, <2>1, <2>3, <2>4, <2>5, GoesOn
<1> QED
  BY <1>3, <1>4, <1>5

(* Every other step.                                                         *)
LEMMA RunKeeps ==
  ASSUME BrowserInv,
         \/ Browser!Start \/ Browser!OpenPage \/ Browser!LaunchFails
         \/ Browser!Interrupt \/ Browser!Export \/ Browser!Kill
  PROVE  BrowserInv'
<1>1. driver \in DriverType /\ StoreOK
  BY DEF BrowserInv
<1>2. CASE Browser!Start
  <2>1. /\ left' = Subject \ observed /\ UNCHANGED <<observed, blank, current>>
        /\ driver' = [Browser!Off EXCEPT !.at = IF left' = {} THEN "export" ELSE "launch"]
    BY <1>2 DEF Browser!Start
  <2>2. driver' \in DriverType /\ driver'.at = IF left' = {} THEN "export" ELSE "launch"
    <3>1. Browser!Off \in DriverType
      BY OffDriver
    <3> QED
      BY <2>1, <3>1 DEF DriverType
  <2>3. StoreOK' /\ Subject \ left' \subseteq observed' \cup driver'.unresolved
    BY <1>1, <2>1 DEF StoreOK
  <2> QED
    BY <2>2, <2>3, GoesOn
<1>3. CASE Browser!OpenPage
  <2>1. /\ driver.at = "launch" /\ UNCHANGED <<observed, blank, current, left>>
        /\ driver' = [driver EXCEPT !.at = "drive", !.rejects = 0]
    BY <1>3 DEF Browser!OpenPage
  <2>2. driver' \in DriverType /\ driver'.at = "drive" /\ driver'.unresolved = driver.unresolved
    BY <1>1, <2>1 DEF DriverType
  <2> QED
    BY <2>1, <2>2, GoesOn DEF BrowserInv, Accounted, StoreOK
<1>4. CASE Browser!LaunchFails
  <2>1. /\ driver.at = "launch" /\ UNCHANGED <<observed, blank, current, left>>
        /\ driver' = Browser!Broken(driver, left)
    BY <1>4 DEF Browser!LaunchFails
  <2>2. /\ driver' \in DriverType /\ driver'.at \in {"launch", "export"}
        /\ driver'.unresolved = driver.unresolved
    BY <1>1, <2>1, BrokenDriver
  <2> QED
    BY <2>1, <2>2, GoesOn DEF BrowserInv, Accounted, StoreOK
<1>5. CASE Browser!Interrupt
  <2>1. /\ driver.at \in {"launch", "drive"} /\ UNCHANGED <<observed, blank, current, left>>
        /\ driver' = [driver EXCEPT !.at = "export", !.raised = TRUE]
    BY <1>5 DEF Browser!Interrupt
  <2>2. driver' \in DriverType /\ driver'.at = "export" /\ driver'.unresolved = driver.unresolved
    BY <1>1, <2>1 DEF DriverType
  <2> QED
    BY <2>1, <2>2, GoesOn DEF BrowserInv, Accounted, StoreOK
<1>6. CASE Browser!Export
  <2> DEFINE code == IF left = {} /\ driver.unresolved = {} /\ ~driver.raised THEN 0 ELSE 1
  <2>1. driver' = [driver EXCEPT !.at = "ended", !.code = code]
    BY <1>6 DEF Browser!Export
  <2>5. code \in {0, 1} /\ (code = 0 => left = {} /\ driver.unresolved = {})
    OBVIOUS
  <2> HIDE DEF code
  <2>2. driver.at = "export" /\ current' = observed \ blank /\ UNCHANGED <<observed, blank, left>>
    BY <1>6 DEF Browser!Export
  <2>3. driver' \in DriverType /\ driver'.at = "ended" /\ driver'.code = code
    BY <1>1, <2>1, <2>5 DEF DriverType
  <2>4. code = 0 => observed = Subject
    BY <2>2, <2>5 DEF BrowserInv, Accounted, StoreOK
  <2> QED
    BY <1>1, <2>2, <2>3, <2>4 DEF BrowserInv, StoreOK, Accounted, Succeeded
<1>7. CASE Browser!Kill
  <2>1. driver' = Browser!Off /\ left' = {} /\ UNCHANGED <<observed, blank, current>>
    BY <1>7 DEF Browser!Kill
  <2>2. driver' \in DriverType /\ driver'.at = "off"
    BY <2>1, OffDriver
  <2> QED
    BY <1>1, <2>1, <2>2 DEF BrowserInv, StoreOK, Accounted, Succeeded
<1> QED
  BY <1>2, <1>3, <1>4, <1>5, <1>6, <1>7

(* What the whole does to a browser run, it does.                            *)
LEMMA BrowserAlone == Spec => Browser!Spec
<1>1. Init => Browser!Init
  BY DEF Init
<1>2. [Next]_vars => [Browser!Next]_(Browser!vars)
  BY DEF Next, Only, vars, Browser!vars
<1> QED
  BY <1>1, <1>2, PTL DEF Spec, Browser!Spec

(* run.py:106: exit code 0 means that every subject has its final answer in *)
(* the store, and in the output file if it holds data, whatever broke, was  *)
(* rejected or was killed before.                                           *)
THEOREM SuccessMeansAllHeldHolds == Spec => []SuccessMeansAllHeld
<1>1. Browser!Init => BrowserInv
  <2>1. Browser!Init => driver \in DriverType /\ driver.at = "off"
    BY OffDriver DEF Browser!Init
  <2> QED
    BY <2>1 DEF Browser!Init, BrowserInv, StoreOK, Accounted, Succeeded
<1>2. BrowserInv /\ [Browser!Next]_(Browser!vars) => BrowserInv'
  <2> SUFFICES ASSUME BrowserInv, [Browser!Next]_(Browser!vars) PROVE BrowserInv'
    OBVIOUS
  <2>1. CASE UNCHANGED Browser!vars
    BY <2>1 DEF Browser!vars, BrowserInv, StoreOK, Accounted, Succeeded
  <2> QED
    BY <2>1, LookupKeeps, RunKeeps DEF Browser!Next
<1>3. BrowserInv => SuccessMeansAllHeld
  BY DEF BrowserInv, Succeeded, SuccessMeansAllHeld, Browser!SuccessMeansAllHeld
<1> QED
  BY <1>1, <1>2, <1>3, BrowserAlone, PTL DEF Browser!Spec

-----------------------------------------------------------------------------

(* The capture relay: the RUCs before the current one were answered, each    *)
(* with its own observation or counted as bad, and an export is what the     *)
(* store holds.                                                              *)
Answered == {o.of : o \in observations}

OwnAnswers == \A o \in observations : o.of \in Capture!Ruc /\ o.answer = o.of
AllBefore == bad = 0 => 1..(index - 1) \subseteq Answered
ExportIsStore == relay = "ended" => results = Answered

CaptureInv ==
    /\ index \in 1..(LastRuc + 1) /\ bad \in Nat
    /\ OwnAnswers /\ AllBefore /\ ExportIsStore

(* The only step that records: the answer of a tab that is in turn.          *)
LEMMA AcceptKeeps ==
  ASSUME CaptureInv, relay = "serving", relay' = relay,
         NEW answer, Capture!Accept(answer)
  PROVE  CaptureInv'
<1>1. CASE ~(index <= LastRuc /\ answer = index)
  BY <1>1 DEF Capture!Accept, CaptureInv, OwnAnswers, AllBefore, ExportIsStore, Answered
<1>2. CASE index <= LastRuc /\ answer = index
  <2>1. index \in Capture!Ruc /\ index' = index + 1 /\ index' \in 1..(LastRuc + 1)
    BY <1>2, RunsAssumption DEF Capture!Accept, Capture!Recorded, CaptureInv, Capture!Ruc
  <2>2. CASE bad' = bad /\ observations' = observations \cup {[of |-> index, answer |-> index]}
    <3>1. OwnAnswers'
      BY <2>1, <2>2 DEF CaptureInv, OwnAnswers, Capture!Ruc
    <3>2. Answered' = Answered \cup {index}
      <4> DEFINE o == [of |-> index, answer |-> index]
      <4>1. o.of = index
        OBVIOUS
      <4> HIDE DEF o
      <4>2. {p.of : p \in observations \cup {o}} = {p.of : p \in observations} \cup {o.of}
        OBVIOUS
      <4> QED
        BY <2>2, <4>1, <4>2 DEF Answered, o
    <3>3. 1..(index' - 1) = (1..(index - 1)) \cup {index}
      BY <2>1, RunsAssumption DEF Capture!Ruc
    <3> QED
      BY <2>1, <2>2, <3>1, <3>2, <3>3 DEF CaptureInv, AllBefore, ExportIsStore
  <2>3. CASE bad' = bad + 1 /\ UNCHANGED observations
    BY <2>1, <2>3 DEF CaptureInv, OwnAnswers, AllBefore, ExportIsStore, Answered, Capture!Ruc
  <2> QED
    BY <1>2, <2>2, <2>3 DEF Capture!Accept, Capture!Recorded
<1> QED
  BY <1>1, <1>2

LEMMA CaptureKeeps ==
  ASSUME CaptureInv, [Capture!Next]_(Capture!vars)
  PROVE  CaptureInv'
<1> USE DEF CaptureInv, OwnAnswers, AllBefore, ExportIsStore, Answered, Capture!Ruc
<1>1. CASE Capture!StartRelay
  BY <1>1, RunsAssumption DEF Capture!StartRelay
<1>2. CASE Capture!EndRelay \/ Capture!KillRelay
  BY <1>2 DEF Capture!EndRelay, Capture!KillRelay
<1>3. ASSUME NEW t \in Tab, Capture!PostResult(t) PROVE CaptureInv'
  BY <1>3, AcceptKeeps DEF Capture!PostResult
<1>4. ASSUME NEW t \in Tab,
             Capture!RunClients(t) \/ Capture!GetNext(t) \/ Capture!Lookup(t) \/ Capture!TabCloses(t)
      PROVE  CaptureInv'
  <2>1. UNCHANGED <<index, relay, bad, observations, results>>
    BY <1>4 DEF Capture!RunClients, Capture!GetNext, Capture!Lookup, Capture!TabCloses
  <2> QED
    BY <2>1
<1>5. CASE UNCHANGED Capture!vars
  BY <1>5 DEF Capture!vars
<1> QED
  BY <1>1, <1>2, <1>3, <1>4, <1>5 DEF Capture!Next

(* What the whole does to a capture relay, it does.                          *)
LEMMA CaptureAlone == Spec => Capture!Spec
<1>1. Init => Capture!Init
  BY DEF Init
<1>2. [Next]_vars => [Capture!Next]_(Capture!vars)
  BY DEF Next, Only, vars, Capture!vars
<1> QED
  BY <1>1, <1>2, PTL DEF Spec, Capture!Spec

(* relay.py:43: overlapping tabs and lost replies give no RUC the answer of  *)
(* another, and a relay that went through without a bad answer exported the  *)
(* whole input, however many tabs ran and however often it was killed.       *)
THEOREM CapturedInTurnHolds == Spec => []CapturedInTurn
<1>1. Capture!Init => CaptureInv
  BY RunsAssumption DEF Capture!Init, CaptureInv, OwnAnswers, AllBefore, ExportIsStore
<1>2. CaptureInv => CapturedInTurn
  <2> SUFFICES ASSUME CaptureInv PROVE CapturedInTurn
    OBVIOUS
  <2>1. \A o \in observations : o.of = o.answer
    BY DEF CaptureInv, OwnAnswers
  <2>2. ASSUME relay = "ended", index > LastRuc, bad = 0 PROVE results = Capture!Ruc
    <3>1. 1..(index - 1) = Capture!Ruc
      BY <2>2, RunsAssumption DEF CaptureInv, Capture!Ruc
    <3> QED
      BY <2>2, <3>1 DEF CaptureInv, OwnAnswers, AllBefore, ExportIsStore, Answered
  <2> QED
    BY <2>1, <2>2 DEF CapturedInTurn, Capture!CapturedInTurn
<1> QED
  BY <1>1, <1>2, CaptureKeeps, CaptureAlone, PTL DEF Capture!Spec

-----------------------------------------------------------------------------

(* The merge of a fleet's shards: a final outcome that was read is still the *)
(* shard's, for a shard takes up no pair whose outcome is final; a merge     *)
(* that writes has read final outcomes only, and writes what it has read.    *)
Final == {"ok", "terminal"}

DestinationType ==
    [exists : BOOLEAN, held : UNION {[known -> Shards!Outcome] : known \in SUBSET Shards!Pair}]
MergeType ==
    [at : {"idle", "read", "check", "write", "export"},
     read : SUBSET Shard, seen : [Shards!Pair -> Shards!Outcome]]

SeenIsFinal ==
    \A p \in Shards!Pair : merge.seen[p] \in Final => shard[p] = merge.seen[p]
SeenIsWhole == merge.at \in {"write", "export"} => Shards!IsWhole(merge.seen)
HeldIsFinal ==
    \A p \in DOMAIN destination.held :
        destination.held[p] \in Final /\ shard[p] = destination.held[p]
ExportedWhole ==
    merge.at = "export" \/ exports # {} => DOMAIN destination.held = Shards!Pair

ShardInv ==
    /\ shard \in [Shards!Pair -> Shards!Outcome]
    /\ destination \in DestinationType /\ merge \in MergeType
    /\ SeenIsFinal /\ SeenIsWhole /\ HeldIsFinal /\ ExportedWhole

(* A merge that is not under way has seen nothing.                           *)
LEMMA IdleMerge ==
  /\ Shards!Idle \in MergeType /\ Shards!Idle.at = "idle"
  /\ \A p \in Shards!Pair : Shards!Idle.seen[p] \notin Final
BY DEF Shards!Idle, MergeType, Shards!Outcome, Final

LEMMA AbsentDestination ==
  /\ [exists |-> FALSE, held |-> Shards!Absent] \in DestinationType
  /\ DOMAIN Shards!Absent = {}
<1>1. Shards!Absent \in [{} -> Shards!Outcome]
  BY DEF Shards!Absent
<1> QED
  BY <1>1 DEF DestinationType

(* The shards run on: what is final stays.                                   *)
LEMMA ShardRunKeeps ==
  ASSUME ShardInv, NEW p \in Shards!Pair, NEW outcome \in Shards!Outcome,
         Shards!RecordOutcome(p, outcome)
  PROVE  ShardInv'
<1>1. /\ shard[p] \notin Final /\ shard' = [shard EXCEPT ![p] = outcome]
      /\ UNCHANGED <<destination, exports, merge>>
  BY DEF Shards!RecordOutcome, Final
<1>2. shard' \in [Shards!Pair -> Shards!Outcome]
  BY <1>1 DEF ShardInv
<1>3. \A q \in Shards!Pair : shard[q] \in Final => shard'[q] = shard[q]
  BY <1>1 DEF ShardInv
<1>4. DOMAIN destination.held \subseteq Shards!Pair
  BY DEF ShardInv, DestinationType
<1>5. SeenIsFinal' /\ HeldIsFinal'
  BY <1>1, <1>3, <1>4 DEF ShardInv, SeenIsFinal, HeldIsFinal
<1> QED
  BY <1>1, <1>2, <1>5 DEF ShardInv, SeenIsWhole, ExportedWhole, Shards!IsWhole

(* A merge that begins, ends or is killed.                                   *)
LEMMA MergeIdles ==
  ASSUME ShardInv, UNCHANGED <<shard, destination, exports>>,
         merge' = Shards!Idle \/ merge' = [Shards!Idle EXCEPT !.at = "read"]
  PROVE  ShardInv'
<1>1. /\ merge' \in MergeType /\ merge'.at \in {"idle", "read"}
      /\ \A p \in Shards!Pair : merge'.seen[p] \notin Final
  BY IdleMerge DEF MergeType
<1> QED
  BY <1>1 DEF ShardInv, SeenIsFinal, SeenIsWhole, HeldIsFinal, ExportedWhole

LEMMA ReadKeeps ==
  ASSUME ShardInv, NEW s \in Shard, Shards!ReadShard(s)
  PROVE  ShardInv'
<1> DEFINE seen == [p \in Shards!Pair |-> IF p[1] = s THEN shard[p] ELSE merge.seen[p]]
           at == IF merge.read \cup {s} = Shard THEN "check" ELSE "read"
<1>1. /\ merge' = [merge EXCEPT !.read = merge.read \cup {s}, !.seen = seen, !.at = at]
      /\ UNCHANGED <<shard, destination, exports>>
  BY DEF Shards!ReadShard
<1>2. seen \in [Shards!Pair -> Shards!Outcome] /\ at \in {"check", "read"}
      /\ \A p \in Shards!Pair : seen[p] = shard[p] \/ seen[p] = merge.seen[p]
  BY DEF ShardInv, MergeType
<1> HIDE DEF seen, at
<1>3. merge' \in MergeType /\ merge'.at \in {"check", "read"} /\ merge'.seen = seen
  BY <1>1, <1>2 DEF ShardInv, MergeType
<1> QED
  BY <1>1, <1>2, <1>3 DEF ShardInv, SeenIsFinal, SeenIsWhole, HeldIsFinal, ExportedWhole

LEMMA CheckKeeps ==
  ASSUME ShardInv, Shards!Check
  PROVE  ShardInv'
<1>1. CASE Shards!IsWhole(merge.seen) /\ ~destination.exists /\ exports = {}
  <2>1. /\ destination' = [destination EXCEPT !.exists = TRUE]
        /\ merge' = [merge EXCEPT !.at = "write"] /\ UNCHANGED <<shard, exports>>
    BY <1>1 DEF Shards!Check
  <2>2. destination' \in DestinationType /\ destination'.held = destination.held
    BY <2>1 DEF ShardInv, DestinationType
  <2>3. merge' \in MergeType /\ merge'.at = "write" /\ merge'.seen = merge.seen
    BY <2>1 DEF ShardInv, MergeType
  <2>4. SeenIsWhole'
    BY <1>1, <2>3 DEF SeenIsWhole, Shards!IsWhole
  <2> QED
    BY <1>1, <2>1, <2>2, <2>3, <2>4 DEF ShardInv, SeenIsFinal, HeldIsFinal, ExportedWhole
<1>2. CASE ~(Shards!IsWhole(merge.seen) /\ ~destination.exists /\ exports = {})
  BY <1>2, MergeIdles DEF Shards!Check
<1> QED
  BY <1>1, <1>2

LEMMA SnapshotKeeps ==
  ASSUME ShardInv, NEW p \in Shards!Pair, Shards!RecordSnapshot(p)
  PROVE  ShardInv'
<1> DEFINE known == DOMAIN destination.held \cup {p}
           held == [q \in known |-> IF q = p THEN merge.seen[p] ELSE destination.held[q]]
<1>1. /\ merge.at = "write" /\ p \notin DOMAIN destination.held
      /\ destination' = [destination EXCEPT !.held = held]
      /\ UNCHANGED <<shard, exports, merge>>
  BY DEF Shards!RecordSnapshot
<1>2. merge.seen[p] \in Shards!Outcome /\ merge.seen[p] \in Final /\ shard[p] = merge.seen[p]
  BY <1>1 DEF ShardInv, MergeType, SeenIsWhole, SeenIsFinal, Shards!IsWhole, Final
<1>3. PICK before \in SUBSET Shards!Pair : destination.held \in [before -> Shards!Outcome]
  BY DEF ShardInv, DestinationType
<1>4. known \in SUBSET Shards!Pair /\ held \in [known -> Shards!Outcome]
  BY <1>2, <1>3
<1>5. \A q \in known : held[q] \in Final /\ shard[q] = held[q]
  BY <1>2 DEF ShardInv, HeldIsFinal
<1> HIDE DEF held
<1>6. destination' \in DestinationType /\ destination'.held = held
  <2>1. held \in UNION {[k -> Shards!Outcome] : k \in SUBSET Shards!Pair}
    BY <1>4
  <2> QED
    BY <1>1, <2>1 DEF ShardInv, DestinationType
<1>7. HeldIsFinal' /\ ExportedWhole'
  BY <1>1, <1>4, <1>5, <1>6 DEF ShardInv, HeldIsFinal, ExportedWhole
<1> QED
  BY <1>1, <1>6, <1>7 DEF ShardInv, SeenIsFinal, SeenIsWhole, Shards!IsWhole

LEMMA ExportKeeps ==
  ASSUME ShardInv,
         Shards!Written \/ \E site \in Site : Shards!ExportSite(site)
  PROVE  ShardInv'
<1>1. CASE Shards!Written
  <2>1. /\ merge.at = "write" /\ DOMAIN destination.held = Shards!Pair
        /\ merge' = [merge EXCEPT !.at = "export"]
        /\ UNCHANGED <<shard, destination, exports>>
    BY <1>1 DEF Shards!Written
  <2>2. merge' \in MergeType /\ merge'.at = "export" /\ merge'.seen = merge.seen
    BY <2>1 DEF ShardInv, MergeType
  <2> QED
    BY <2>1, <2>2 DEF ShardInv, SeenIsFinal, SeenIsWhole, HeldIsFinal, ExportedWhole, Shards!IsWhole
<1>2. CASE \E site \in Site : Shards!ExportSite(site)
  <2>1. /\ merge.at = "export" /\ UNCHANGED <<shard, destination>>
        /\ merge' = Shards!Idle \/ merge' = merge
    BY <1>2 DEF Shards!ExportSite
  <2>2. /\ merge' \in MergeType
        /\ \A p \in Shards!Pair : merge'.seen[p] \in Final => merge'.seen[p] = merge.seen[p]
        /\ merge'.at \in {"write", "export"} => merge' = merge
    BY <2>1, IdleMerge DEF ShardInv
  <2> QED
    BY <2>1, <2>2 DEF ShardInv, SeenIsFinal, SeenIsWhole, HeldIsFinal, ExportedWhole, Shards!IsWhole
<1> QED
  BY <1>1, <1>2

LEMMA MergeKeeps ==
  ASSUME ShardInv, [Shards!Next]_(Shards!vars)
  PROVE  ShardInv'
<1>1. CASE Shards!StartMerge \/ Shards!KillMerge
  BY <1>1, MergeIdles DEF Shards!StartMerge, Shards!KillMerge
<1>2. CASE Shards!ClearDestination
  <2>1. /\ merge.at = "idle" /\ destination' = [exists |-> FALSE, held |-> Shards!Absent]
        /\ exports' = {} /\ UNCHANGED <<shard, merge>>
    BY <1>2 DEF Shards!ClearDestination
  <2>2. destination' \in DestinationType /\ DOMAIN destination'.held = {}
    BY <2>1, AbsentDestination
  <2> QED
    BY <2>1, <2>2 DEF ShardInv, SeenIsFinal, SeenIsWhole, HeldIsFinal, ExportedWhole
<1>3. CASE UNCHANGED Shards!vars
  BY <1>3 DEF Shards!vars, ShardInv, SeenIsFinal, SeenIsWhole, HeldIsFinal, ExportedWhole, Shards!IsWhole
<1> QED
  BY <1>1, <1>2, <1>3, ShardRunKeeps, ReadKeeps, CheckKeeps, SnapshotKeeps, ExportKeeps
  DEF Shards!Next

(* What the whole does to a fleet and its merge, it does.                    *)
LEMMA ShardsAlone == Spec => Shards!Spec
<1>1. Init => Shards!Init
  BY DEF Init
<1>2. [Next]_vars => [Shards!Next]_(Shards!vars)
  BY DEF Next, Only, vars, Shards!vars
<1> QED
  BY <1>1, <1>2, PTL DEF Spec, Shards!Spec

(* fleet.py:135: exports at the destination stand beside a database that has *)
(* the final outcome of every pair of every shard, though the shards ran on  *)
(* while they were read, one after another, and merges were killed.          *)
THEOREM MergedIsWholeHolds == Spec => []MergedIsWhole
<1>1. Shards!Init => ShardInv
  <2> SUFFICES ASSUME Shards!Init PROVE ShardInv
    OBVIOUS
  <2>1. shard \in [Shards!Pair -> Shards!Outcome]
    BY DEF Shards!Init, Shards!Outcome
  <2>2. destination \in DestinationType /\ DOMAIN destination.held = {}
    BY AbsentDestination DEF Shards!Init
  <2> QED
    BY <2>1, <2>2, IdleMerge
    DEF Shards!Init, ShardInv, SeenIsFinal, SeenIsWhole, HeldIsFinal, ExportedWhole
<1>2. ShardInv => MergedIsWhole
  <2> SUFFICES ASSUME ShardInv, exports # {}
               PROVE  DOMAIN destination.held = Shards!Pair /\ destination.held = shard
    BY DEF MergedIsWhole, Shards!MergedIsWhole
  <2>1. DOMAIN destination.held = Shards!Pair
    BY DEF ShardInv, ExportedWhole
  <2>2. PICK known \in SUBSET Shards!Pair : destination.held \in [known -> Shards!Outcome]
    BY DEF ShardInv, DestinationType
  <2> QED
    BY <2>1, <2>2 DEF ShardInv, HeldIsFinal
<1> QED
  BY <1>1, <1>2, MergeKeeps, ShardsAlone, PTL DEF Shards!Spec

=============================================================================
