----------------------------- MODULE JobProgress -----------------------------
(***************************************************************************)
(* One job page: the page itself, the stream of progress events that the   *)
(* portal serves it (web/routes/jobs.py) and the EventSource of the browser *)
(* (portal.js), over a job that the queue advances meanwhile. The queue is  *)
(* reduced to what readers see of it: each step is one transaction that     *)
(* changes the state and adds the events (module JobQueue has the detail). *)
(*                                                                         *)
(* A message is shown as it is sent, or its connection drops with it.       *)
(***************************************************************************)
EXTENDS Naturals, Sequences

CONSTANT Items   \* bound: the items of the job

VARIABLES
    work,       \* the job's state, its finished items and its events
    loggedIn,   \* whether the session is alive
    viewer,     \* the page: "loading", "shown", "live", "done", "closed"
    display,    \* the state and the counts that the page shows
    lastId,     \* the browser's Last-Event-ID
    stream      \* the generator _progress_events

vars == <<work, loggedIn, viewer, display, lastId, stream>>

State == {"queued", "running", "completed", "failed", "cancelled"}
Terminal == {"completed", "failed", "cancelled"}
Unread == Items + 1

TypeOK ==
    /\ work \in [state : State, finished : 0..Items,
                 events : Seq(State \cup {"cancellation_requested"})]
    /\ loggedIn \in BOOLEAN
    /\ viewer \in {"loading", "shown", "live", "done", "closed"}
    /\ display \in [state : State, finished : 0..Unread]
    /\ lastId \in 0..Len(work.events)
    /\ stream \in [at : {"off", "begin", "session", "events", "job", "counts", "decide", "poll"},
                   state : State, upTo : Nat, last : Nat, counts : 0..Unread]

Off == [at |-> "off", state |-> "queued", upTo |-> 0, last |-> 0, counts |-> Unread]

Init ==
    /\ work = [state |-> "queued", finished |-> 0, events |-> <<"queued">>]
    /\ loggedIn = TRUE
    /\ viewer = "loading" /\ display = [state |-> "queued", finished |-> Unread]
    /\ lastId = 0 /\ stream = Off

-----------------------------------------------------------------------------
(* The queue *)

Ends(state, finished, events) ==
    work' = [state |-> state, finished |-> finished, events |-> work.events \o events]

Promote ==
    /\ work.state = "queued"
    /\ Ends("running", work.finished, <<"running">>)
    /\ UNCHANGED <<loggedIn, viewer, display, lastId, stream>>

FinishItem ==
    /\ work.state = "running"
    /\ IF work.finished + 1 < Items
       THEN work' = [work EXCEPT !.finished = @ + 1]
       ELSE \E state \in {"completed", "failed"} : Ends(state, Items, <<state>>)
    /\ UNCHANGED <<loggedIn, viewer, display, lastId, stream>>

Cancel ==
    /\ work.state \in {"queued", "running"}
    /\ Ends("cancelled", Items,
            IF work.state = "queued" THEN <<"cancelled">>
            ELSE <<"cancellation_requested", "cancelled">>)
    /\ UNCHANGED <<loggedIn, viewer, display, lastId, stream>>

-----------------------------------------------------------------------------
(* The browser *)

(* job_detail: the job, ...                                                 *)
LoadJob ==
    /\ viewer = "loading" /\ loggedIn /\ display.finished = Unread
    /\ display' = [state |-> work.state, finished |-> 0]
    /\ viewer' = "shown"
    /\ UNCHANGED <<work, loggedIn, lastId, stream>>

(* ... and the counts; the page of a finished job has no stream.            *)
LoadCounts ==
    /\ viewer = "shown"
    /\ display' = [display EXCEPT !.finished = work.finished]
    /\ viewer' = IF display.state \in Terminal THEN "done" ELSE "live"
    /\ UNCHANGED <<work, loggedIn, lastId, stream>>

(* EventSource connects, again after a drop; a refusal is final.            *)
Connect ==
    /\ viewer = "live" /\ stream.at = "off"
    /\ IF loggedIn
       THEN stream' = [Off EXCEPT !.at = "begin", !.last = lastId] /\ UNCHANGED viewer
       ELSE viewer' = "closed" /\ UNCHANGED stream
    /\ UNCHANGED <<work, loggedIn, display, lastId>>

ConnectionDrops ==
    /\ stream.at # "off" /\ stream' = Off
    /\ UNCHANGED <<work, loggedIn, viewer, display, lastId>>

LogOut ==
    /\ loggedIn /\ loggedIn' = FALSE
    /\ UNCHANGED <<work, viewer, display, lastId, stream>>

-----------------------------------------------------------------------------
(* _progress_events *)

Begin ==
    /\ stream.at = "begin"
    /\ stream' = [stream EXCEPT !.at = "session", !.state = work.state]
    /\ UNCHANGED <<work, loggedIn, viewer, display, lastId>>

LoadSession ==
    /\ stream.at = "session"
    /\ stream' = IF loggedIn THEN [stream EXCEPT !.at = "events"] ELSE Off
    /\ UNCHANGED <<work, loggedIn, viewer, display, lastId>>

(* The events after the last one, a message for each of them.               *)
ReadEvents ==
    /\ stream.at = "events"
    /\ stream' = [stream EXCEPT !.upTo = Len(work.events),
                    !.at = IF Len(work.events) > stream.last THEN "job" ELSE "decide"]
    /\ UNCHANGED <<work, loggedIn, viewer, display, lastId>>

ReadJob ==
    /\ stream.at = "job"
    /\ stream' = [stream EXCEPT !.at = "counts", !.last = @ + 1, !.state = work.state]
    /\ UNCHANGED <<work, loggedIn, viewer, display, lastId>>

Shows(s) ==
    /\ display' = [state |-> s.state, finished |-> s.counts]
    /\ lastId' = s.last
    /\ stream' = s

ReadCounts ==
    /\ stream.at = "counts"
    /\ Shows([stream EXCEPT !.counts = work.finished,
                            !.at = IF stream.last < stream.upTo THEN "job" ELSE "decide"])
    /\ UNCHANGED <<work, loggedIn, viewer>>

DecideAfresh ==
    /\ stream.at = "decide"
    /\ IF work.state \in Terminal
       THEN viewer' = "done" /\ stream' = Off
       ELSE stream' = [stream EXCEPT !.at = "poll"] /\ UNCHANGED viewer
    /\ UNCHANGED <<work, loggedIn, display, lastId>>

(* A job that was finished when it was last read: the done event.           *)
Decide ==
    /\ stream.at = "decide"
    /\ IF stream.state \in Terminal
       THEN viewer' = "done" /\ stream' = Off
       ELSE stream' = [stream EXCEPT !.at = "poll"] /\ UNCHANGED viewer
    /\ UNCHANGED <<work, loggedIn, display, lastId>>

(* Counts that changed are sent between events; then the sleep.             *)
PollCounts ==
    /\ stream.at = "poll"
    /\ IF work.finished # stream.counts
       THEN Shows([stream EXCEPT !.counts = work.finished, !.at = "session"])
       ELSE stream' = [stream EXCEPT !.at = "session"] /\ UNCHANGED <<display, lastId>>
    /\ UNCHANGED <<work, loggedIn, viewer>>

-----------------------------------------------------------------------------

Next ==
    \/ Promote \/ FinishItem \/ Cancel
    \/ LoadJob \/ LoadCounts \/ Connect \/ ConnectionDrops \/ LogOut
    \/ Begin \/ LoadSession \/ ReadEvents \/ ReadJob \/ ReadCounts \/ Decide \/ PollCounts

Spec == Init /\ [][Next]_vars

-----------------------------------------------------------------------------

(* jobs.py:482: the page stops listening only when it shows the outcome of  *)
(* the job and its final counts, however the job's steps, the reads of the  *)
(* page and of the stream, and the reconnections interleave.                *)
DoneShowsOutcome ==
    viewer = "done" => display = [state |-> work.state, finished |-> work.finished]

=============================================================================
