--------------------------- MODULE StandaloneRun ---------------------------
(***************************************************************************)
(* The unattended run of packages/cli over one site and one provider: the  *)
(* lanes of run_worker take documents from one queue, fetch_one retries    *)
(* each behind the provider's circuit breaker, and the outcomes go to a    *)
(* SQLite file that later runs resume from. A run may end by itself, be    *)
(* interrupted (SIGTERM, Ctrl-C, an error of the store), or be killed.     *)
(*                                                                         *)
(* A lane acts from one await to the next. Payloads, logging and waiting   *)
(* times are left out.                                                     *)
(***************************************************************************)
EXTENDS Integers, FiniteSets, Sequences

CONSTANTS
    Doc,          \* documents the site accepts
    Input,        \* the rows of the input file; without dedupe a document may recur
    Lane,         \* provider.tuning.workers
    MaxAttempts,  \* MAX_ATTEMPTS
    MaxTotal,     \* MAX_TOTAL_ATTEMPTS
    Threshold,    \* DEFAULT_THRESHOLD
    Budget,       \* session_budget
    MaxRuns,      \* bound: launches that are explored
    NoDoc         \* no document

ASSUME InputAssumption == Input \in Seq(Doc)
ASSUME LimitAssumption ==
    /\ MaxAttempts \in Nat \ {0} /\ MaxTotal \in Nat \ {0}
    /\ Threshold \in Nat \ {0} /\ Budget \in Nat \ {0} /\ MaxRuns \in Nat
ASSUME AbsentAssumption == NoDoc \notin Doc
\* config.py:59: a provider has a worker
ASSUME LaneAssumption == IsFiniteSet(Lane) /\ Lane # {}

VARIABLES
    row,        \* outcomes: status and attempt_count of a document
    saved,      \* breaker_states: the breaker as last persisted
    exported,   \* the CSV files: documents by status
    phase,      \* where run() stands
    runs,       \* launches so far
    clean,      \* the latest run was neither interrupted nor killed
    queue,      \* asyncio.Queue of the site: the rows of the input still in it
    breaker,    \* the CircuitBreaker of (site, provider)
    dirty,      \* rows of a write that a signal left uncommitted
    pc,         \* where a lane stands
    doc,        \* the document in a lane's hands
    attempt,    \* fetch_one's attempt of it
    session,    \* WorkerState.session is not None
    uses,       \* WorkerState.uses
    answer,     \* the status of a lookup that ended, before it is recorded
    failures,   \* history: failed lookups of a document, over all runs
    planned,    \* history: copies of a document queued by the latest run
    recorded    \* history: outcomes of a document the latest run wrote

lanes == <<pc, doc, attempt, session, uses, answer>>
vars == <<row, saved, exported, phase, runs, clean, queue, breaker, dirty, lanes,
          failures, planned, recorded>>

-----------------------------------------------------------------------------

Status == {"ok", "not_found", "failed"}
Row == [status : Status \cup {"none"}, count : Nat]
Table == [Doc -> Row]
Breaker == [fails : Nat, level : Nat, until : {"never", "future", "past"}]
Closed == [fails |-> 0, level |-> 0, until |-> "never"]
Exporting == {"export_ok", "export_failed", "export_not_found"}
Copies(d, rows) == Cardinality({n \in rows : Input[n] = d})

TypeOK ==
    /\ row \in Table
    /\ saved \in Breaker /\ breaker \in Breaker
    /\ exported \in [Status -> SUBSET Doc]
    /\ phase \in {"idle", "running", "stopping"} \cup Exporting
    /\ runs \in 0..MaxRuns
    /\ clean \in BOOLEAN
    /\ queue \subseteq DOMAIN Input
    /\ dirty \in Table
    /\ pc \in [Lane -> {"top", "gate", "open", "look", "rest", "rotate", "closing", "done"}]
    /\ doc \in [Lane -> Doc \cup {NoDoc}]
    /\ attempt \in [Lane -> 1..MaxAttempts]
    /\ session \in [Lane -> BOOLEAN]
    /\ uses \in [Lane -> 0..Budget]
    /\ answer \in [Lane -> {"ok", "not_found"}]
    /\ failures \in [Doc -> Nat]
    /\ planned \in [Doc -> Nat]
    /\ recorded \in [Doc -> Nat]

Init ==
    /\ row = [d \in Doc |-> [status |-> "none", count |-> 0]]
    /\ saved = Closed /\ breaker = Closed
    /\ exported = [s \in Status |-> {}]
    /\ phase = "idle" /\ runs = 0 /\ clean = FALSE
    /\ queue = {}
    /\ dirty = row
    /\ pc = [l \in Lane |-> "done"]
    /\ doc = [l \in Lane |-> NoDoc]
    /\ attempt = [l \in Lane |-> 1]
    /\ session = [l \in Lane |-> FALSE]
    /\ uses = [l \in Lane |-> 0]
    /\ answer = [l \in Lane |-> "ok"]
    /\ failures = [d \in Doc |-> 0]
    /\ planned = [d \in Doc |-> 0]
    /\ recorded = [d \in Doc |-> 0]

-----------------------------------------------------------------------------
(* The outcome store *)

Terminal(r) == r.status \in {"ok", "not_found"} \/ r.count >= MaxTotal

NotFoundOverwrites(r) == [r EXCEPT !.status = "not_found"]
FailureOverwrites(r, n) == [status |-> "failed", count |-> r.count + n]

(* UPSERT_SUCCESS, UPSERT_NOT_FOUND and UPSERT_FAILURE.                     *)
Succeeded(r) == [r EXCEPT !.status = "ok"]
NotFound(r) == IF r.status = "ok" THEN r ELSE [r EXCEPT !.status = "not_found"]
Failed(r, n) ==
    IF r.status \in {"ok", "not_found"} THEN r
    ELSE [status |-> "failed", count |-> r.count + n]

-----------------------------------------------------------------------------
(* The circuit breaker. Every change is persisted before it returns.        *)

SetBreaker(b) == breaker' = b /\ saved' = b

BreakerSuccess ==
    SetBreaker(IF breaker.until = "never" THEN [breaker EXCEPT !.fails = 0] ELSE Closed)

BreakerFailureLevelKept ==
    SetBreaker(IF breaker.fails + 1 < Threshold
                 THEN [breaker EXCEPT !.fails = @ + 1]
                 ELSE [fails |-> 0, level |-> breaker.level, until |-> "future"])

BreakerFailureUnsaved ==
    /\ breaker' = IF breaker.fails + 1 < Threshold
                    THEN [breaker EXCEPT !.fails = @ + 1]
                    ELSE [fails |-> 0, level |-> breaker.level + 1, until |-> "future"]
    /\ saved' = IF breaker.fails + 1 < Threshold THEN saved ELSE breaker'

BreakerFailure ==
    SetBreaker(IF breaker.fails + 1 < Threshold
                 THEN [breaker EXCEPT !.fails = @ + 1]
                 ELSE [fails |-> 0, level |-> breaker.level + 1, until |-> "future"])

(* The cooldown ends; the deadline stays set until a lookup succeeds.       *)
CooldownEnds ==
    /\ "future" \in {breaker.until, saved.until}
    /\ breaker' = [breaker EXCEPT !.until = IF @ = "future" THEN "past" ELSE @]
    /\ saved' = [saved EXCEPT !.until = IF @ = "future" THEN "past" ELSE @]
    /\ UNCHANGED <<row, exported, phase, runs, clean, queue, dirty, lanes,
                   failures, planned, recorded>>

-----------------------------------------------------------------------------
(* A run *)

PendingFailuresToo(table) ==
    {n \in DOMAIN Input : table[Input[n]].status \notin {"ok", "not_found"}}

(* done_pairs and plan_pending.                                             *)
Pending(table) == {n \in DOMAIN Input : ~Terminal(table[Input[n]])}

(* import_site: every document of the earlier export is an answer.          *)
ImportedRows(import) ==
    [d \in Doc |-> IF import /\ d \in exported["ok"] THEN Succeeded(row[d]) ELSE row[d]]

(* start_run, the import of earlier exports, the plan, and the lanes. With  *)
(* nothing pending no lane is started.                                      *)
StartRun(import) ==
    /\ phase = "idle" /\ runs < MaxRuns
    /\ runs' = runs + 1
    /\ row' = ImportedRows(import)
    /\ dirty' = row'
    /\ queue' = Pending(row')
    /\ planned' = [d \in Doc |-> Copies(d, queue')]
    /\ recorded' = [d \in Doc |-> 0]
    /\ breaker' = saved
    /\ phase' = "running" /\ clean' = TRUE
    /\ pc' = [l \in Lane |-> IF queue' = {} THEN "done" ELSE "top"]
    /\ UNCHANGED <<saved, exported, doc, attempt, session, uses, answer, failures>>

First(rows) == CHOOSE n \in rows : \A m \in rows : n <= m

(* The queue is empty, or hands out its next document.                      *)
Take(l) ==
    /\ pc[l] = "top"
    /\ IF queue = {}
         THEN pc' = [pc EXCEPT ![l] = "closing"] /\ UNCHANGED <<queue, doc, attempt>>
         ELSE /\ queue' = queue \ {First(queue)}
              /\ doc' = [doc EXCEPT ![l] = Input[First(queue)]]
              /\ attempt' = [attempt EXCEPT ![l] = 1]
              /\ pc' = [pc EXCEPT ![l] = "gate"]
    /\ UNCHANGED <<row, saved, exported, phase, runs, clean, breaker, dirty, session,
                   uses, answer, failures, planned, recorded>>

PassClosedOnly(l) ==
    /\ pc[l] = "gate" /\ breaker.until = "never"
    /\ pc' = [pc EXCEPT ![l] = IF session[l] THEN "look" ELSE "open"]
    /\ UNCHANGED <<row, saved, exported, phase, runs, clean, queue, breaker, dirty, doc,
                   attempt, session, uses, answer, failures, planned, recorded>>

(* breaker.acquire returns; an open session is used again.                  *)
Pass(l) ==
    /\ pc[l] = "gate" /\ breaker.until # "future"
    /\ pc' = [pc EXCEPT ![l] = IF session[l] THEN "look" ELSE "open"]
    /\ UNCHANGED <<row, saved, exported, phase, runs, clean, queue, breaker, dirty, doc,
                   attempt, session, uses, answer, failures, planned, recorded>>

(* _open_session: the site is ready behind the proxy.                       *)
OpenSession(l) ==
    /\ pc[l] = "open"
    /\ session' = [session EXCEPT ![l] = TRUE]
    /\ uses' = [uses EXCEPT ![l] = 0]
    /\ pc' = [pc EXCEPT ![l] = "look"]
    /\ UNCHANGED <<row, saved, exported, phase, runs, clean, queue, breaker, dirty, doc,
                   attempt, answer, failures, planned, recorded>>

(* The lookup answers, or the site does not know the document.              *)
Answer(l, status) ==
    /\ pc[l] = "look"
    /\ BreakerSuccess
    /\ answer' = [answer EXCEPT ![l] = status]
    /\ pc' = [pc EXCEPT ![l] = "rest"]
    /\ UNCHANGED <<row, exported, phase, runs, clean, queue, dirty, doc, attempt, session,
                   uses, failures, planned, recorded>>

(* Any exception on the way to an answer.                                   *)
Fault(l) ==
    /\ pc[l] \in {"open", "look"}
    /\ BreakerFailure
    /\ failures' = [failures EXCEPT ![doc[l]] = @ + 1]
    /\ pc' = [pc EXCEPT ![l] = "rotate"]
    /\ UNCHANGED <<row, exported, phase, runs, clean, queue, dirty, doc, attempt, session,
                   uses, answer, planned, recorded>>

(* rotate_session ended and attempts are left.                              *)
Retry(l) ==
    /\ pc[l] = "rotate" /\ attempt[l] < MaxAttempts
    /\ session' = [session EXCEPT ![l] = FALSE]
    /\ uses' = [uses EXCEPT ![l] = 0]
    /\ attempt' = [attempt EXCEPT ![l] = @ + 1]
    /\ pc' = [pc EXCEPT ![l] = "gate"]
    /\ UNCHANGED <<row, saved, exported, phase, runs, clean, queue, breaker, dirty, doc,
                   answer, failures, planned, recorded>>

(* made_healthy_contact and the increment that record_failure draws from it. *)
ChargedAlways(l) == MaxAttempts + 1
Charged(l) == IF breaker.until = "future" THEN 0 ELSE attempt[l]

(* A lane has an outcome to record, and the row it writes for it.           *)
HasOutcome(l) == pc[l] = "rest" \/ (pc[l] = "rotate" /\ attempt[l] = MaxAttempts)
Outcome(l) ==
    CASE pc[l] # "rest" -> Failed(row[doc[l]], Charged(l))
      [] pc[l] = "rest" /\ answer[l] = "ok" -> Succeeded(row[doc[l]])
      [] OTHER -> NotFound(row[doc[l]])
Recorded(l) == [row EXCEPT ![doc[l]] = Outcome(l)]

(* What a lane forgets between two documents.                               *)
Forget(G) ==
    /\ doc' = [l \in Lane |-> IF l \in G THEN NoDoc ELSE doc[l]]
    /\ attempt' = [l \in Lane |-> IF l \in G THEN 1 ELSE attempt[l]]
    /\ answer' = [l \in Lane |-> IF l \in G THEN "ok" ELSE answer[l]]

(* after_success or rotate_session ended; the outcome is recorded.          *)
Record(l) ==
    /\ HasOutcome(l)
    /\ row' = Recorded(l) /\ dirty' = row'
    /\ recorded' = [recorded EXCEPT ![doc[l]] = @ + 1]
    /\ uses' = [uses EXCEPT ![l] = IF pc[l] = "rest" /\ @ + 1 < Budget THEN @ + 1 ELSE 0]
    /\ session' = [session EXCEPT ![l] = pc[l] = "rest" /\ uses[l] + 1 < Budget]
    /\ pc' = [pc EXCEPT ![l] = "top"]
    /\ Forget({l})
    /\ UNCHANGED <<saved, exported, phase, runs, clean, queue, breaker, failures, planned>>

-----------------------------------------------------------------------------
(* The end of a run *)

(* Cancellation reaches every lane at its await: what it was fetching is    *)
(* given up.                                                                *)
Cancel ==
    /\ phase = "running"
    /\ phase' = "stopping" /\ clean' = FALSE
    /\ pc' = [l \in Lane |-> IF pc[l] = "done" THEN "done" ELSE "closing"]
    /\ Forget(Lane)
    /\ UNCHANGED <<row, saved, exported, runs, queue, breaker, session, uses, failures,
                   planned, recorded>>

Interrupt ==
    /\ \E l \in Lane : pc[l] # "done"
    /\ Cancel
    /\ UNCHANGED dirty

(* The signal strikes between the upsert and its COMMIT. _transaction rolls *)
(* back for an Exception only, so the transaction stays open.               *)
InterruptInWrite(l) ==
    /\ HasOutcome(l)
    /\ Cancel
    /\ dirty' = Recorded(l)

(* The finally of run_worker.                                               *)
CloseSession(l) ==
    /\ pc[l] = "closing"
    /\ session' = [session EXCEPT ![l] = FALSE]
    /\ uses' = [uses EXCEPT ![l] = 0]
    /\ pc' = [pc EXCEPT ![l] = "done"]
    /\ UNCHANGED <<row, saved, exported, phase, runs, clean, queue, breaker, dirty, doc,
                   attempt, answer, failures, planned, recorded>>

FailuresNotExported == [export_ok |-> "export_not_found", export_failed |-> "export_not_found",
                        export_not_found |-> "idle"]
ExportOrder == [export_ok |-> "export_failed", export_failed |-> "export_not_found",
                export_not_found |-> "idle"]
FileOf == [export_ok |-> "ok", export_failed |-> "failed", export_not_found |-> "not_found"]

(* Every lane is done: the group ends, and the finally of run() exports.    *)
EndLanes ==
    /\ phase \in {"running", "stopping"}
    /\ \A l \in Lane : pc[l] = "done"
    /\ phase' = "export_ok"
    /\ UNCHANGED <<row, saved, exported, runs, clean, queue, breaker, dirty, lanes,
                   failures, planned, recorded>>

(* One file is replaced, as the connection sees the table. After the last,  *)
(* finish_run; closing the connection rolls an open transaction back.       *)
Export ==
    /\ phase \in Exporting
    /\ exported' = [exported EXCEPT ![FileOf[phase]] = {d \in Doc : dirty[d].status = FileOf[phase]}]
    /\ phase' = ExportOrder[phase]
    /\ dirty' = IF phase' = "idle" THEN row ELSE dirty
    /\ queue' = IF phase' = "idle" THEN {} ELSE queue
    /\ UNCHANGED <<row, saved, runs, clean, breaker, lanes, failures, planned, recorded>>

(* The process is killed: the file keeps what was committed.                *)
Kill ==
    /\ phase # "idle"
    /\ phase' = "idle" /\ clean' = FALSE
    /\ dirty' = row
    /\ queue' = {}
    /\ pc' = [l \in Lane |-> "done"]
    /\ session' = [l \in Lane |-> FALSE]
    /\ uses' = [l \in Lane |-> 0]
    /\ Forget(Lane)
    /\ UNCHANGED <<row, saved, exported, runs, breaker, failures, planned, recorded>>

-----------------------------------------------------------------------------

LaneStep(l) ==
    \/ Take(l) \/ Pass(l) \/ OpenSession(l) \/ Fault(l) \/ Retry(l) \/ Record(l)
    \/ CloseSession(l)
    \/ \E status \in {"ok", "not_found"} : Answer(l, status)

Next ==
    \/ \E import \in BOOLEAN : StartRun(import)
    \/ \E l \in Lane : LaneStep(l) \/ InterruptInWrite(l)
    \/ CooldownEnds \/ Interrupt \/ EndLanes \/ Export \/ Kill

Spec == Init /\ [][Next]_vars

-----------------------------------------------------------------------------
(* Safety *)

CopiesIn(d) == Copies(d, DOMAIN Input)
InHand(d) == Cardinality({l \in Lane : doc[l] = d})

(* outcomes.py:249 and policy.py:17: a document is charged only attempts    *)
(* that were made and failed, over any number of runs, kills and lanes that *)
(* work on copies of it.                                                    *)
ChargesAreEarned == \A d \in Doc : row[d].count <= failures[d]

(* policy.py:17: the cap holds across launches. It is overshot only by      *)
(* the copies of a document that were queued together.                      *)
CapHolds == \A d \in Doc : row[d].count <= MaxTotal - 1 + CopiesIn(d) * MaxAttempts

(* While a run is neither interrupted nor killed no document is lost: what  *)
(* was planned is queued, in a lane's hands, or recorded, and once only;    *)
(* when it ends the exports are the table.                                  *)
ExportsCurrent == \A s \in Status : exported[s] = {d \in Doc : row[d].status = s}

NothingLost ==
    clean => /\ \A d \in Doc : planned[d] = Copies(d, queue) + InHand(d) + recorded[d]
             /\ phase = "idle" => ExportsCurrent

(* run.py:160: a launch continues with the breaker the lanes of the last    *)
(* one left, whatever ended them; a level says that a cooldown was set.     *)
BreakerSurvives ==
    /\ saved = breaker
    /\ breaker.fails < Threshold
    /\ breaker.level > 0 <=> breaker.until # "never"

(* docs/architecture.md:90 and outcomes.py:65: the file keeps the promise   *)
(* of OutcomeTable. An answer is final: no kill loses it, and no later      *)
(* outcome or import replaces it by a worse one.                            *)
Promise == INSTANCE OutcomeTable WITH table <- row
ImplementsTable == Promise!Spec

-----------------------------------------------------------------------------
(* Liveness *)

(* Lanes are tasks of one event loop: each awaited request ends, sleeps     *)
(* end, and the group ends when its lanes do.                               *)
Fairness ==
    /\ \A l \in Lane : WF_vars(LaneStep(l))
    /\ WF_vars(CooldownEnds) /\ WF_vars(EndLanes) /\ WF_vars(Export)

FairSpec == Spec /\ Fairness

(* Every run ends, however often the breaker opens under its lanes.         *)
EveryRunEnds == phase # "idle" ~> phase = "idle"

=============================================================================
