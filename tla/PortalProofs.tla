---------------------------- MODULE PortalProofs ----------------------------
(***************************************************************************)
(* The notification outbox, the job page and the sessions of Components,   *)
(* for any rows, dispatchers, items, accounts, requests and clocks.        *)
(***************************************************************************)
EXTENDS Components, Sequences, FiniteSetTheorems, TLAPS

-----------------------------------------------------------------------------
(***************************************************************************)
(* A row is mailed once for any number of rows and dispatchers, if a live  *)
(* send ends before its lease does and the row's outcomes are written in   *)
(* time. Sending happens outside of every transaction and its outcome is   *)
(* written by row id, so that nothing but the lengths of the lease and of  *)
(* a send keeps dispatchers apart: HoldsLease says how. Every part is about *)
(* the rows outside of unsure: the others may have several dispatchers.    *)
(***************************************************************************)

Busy(d) == dispatcher[d].at # "idle"

(* A dispatcher that sends is inside its send time; a dispatcher at work is *)
(* inside its lease, and its row is not due before the lease runs out.      *)
HoldsLease ==
    \A d \in Dispatcher :
        /\ dispatcher[d].at = "send" => minute <= dispatcher[d].since + SendTime
        /\ Busy(d) /\ dispatcher[d].of \notin unsure =>
             /\ minute < dispatcher[d].since + Lease
             /\ mail[dispatcher[d].of].state = "sending"
             /\ mail[dispatcher[d].of].due = dispatcher[d].since + Lease

(* No two dispatchers are at work on one row.                               *)
OneEach ==
    \A d, e \in Dispatcher :
        Busy(d) /\ Busy(e) /\ dispatcher[d].of = dispatcher[e].of
            /\ dispatcher[d].of \notin unsure => d = e

(* An acceptance that somebody knows of is on the row or about to be.       *)
AcceptedKnown ==
    \A m \in Mail \ unsure :
        \/ accepted[m] = 0
        \/ accepted[m] = 1 /\ mail[m].state = "sent"
        \/ accepted[m] = 1 /\ \E d \in Dispatcher : dispatcher[d].at = "sent" /\ dispatcher[d].of = m

OutboxInv == Outbox!TypeOK /\ HoldsLease /\ OneEach /\ AcceptedKnown

-----------------------------------------------------------------------------

LEMMA InitialOutbox ==
  ASSUME Outbox!Init
  PROVE  OutboxInv
<1>1. Outbox!Waiting.of \in Mail /\ Outbox!Waiting =
        [at |-> "idle", of |-> Outbox!Waiting.of, since |-> 0]
  BY TimesAssumption DEF Outbox!Waiting
<1>2. Outbox!TypeOK
  BY <1>1, TimesAssumption DEF Outbox!Init, Outbox!TypeOK
<1>3. \A d \in Dispatcher : ~Busy(d)
  BY <1>1 DEF Outbox!Init, Busy
<1> QED
  BY <1>2, <1>3 DEF OutboxInv, HoldsLease, OneEach, AcceptedKnown, Outbox!Init, Busy

LEMMA ClaimKeeps ==
  ASSUME OutboxInv, NEW d \in Dispatcher, Outbox!ClaimDue(d)
  PROVE  OutboxInv'
<1> USE TimesAssumption DEF OutboxInv
<1>1. PICK m \in Outbox!Due :
         /\ mail' = [mail EXCEPT ![m] = [state |-> "sending", due |-> minute + Lease]]
         /\ dispatcher' = [dispatcher EXCEPT ![d] = [at |-> "send", of |-> m, since |-> minute]]
  BY DEF Outbox!ClaimDue
<1>2. m \in Mail /\ mail[m].state # "sent" /\ mail[m].due <= minute
  BY <1>1 DEF Outbox!Due
<1>3. minute \in Nat /\ UNCHANGED <<minute, accepted, unsure>> /\ ~Busy(d)
  BY DEF Outbox!ClaimDue, Outbox!TypeOK, Busy
<1>4. Outbox!TypeOK'
  BY <1>1, <1>2, <1>3 DEF Outbox!TypeOK
<1>5. /\ \A n \in Mail : mail'[n] = IF n = m THEN [state |-> "sending", due |-> minute + Lease]
                                    ELSE mail[n]
      /\ \A e \in Dispatcher : dispatcher'[e] =
             IF e = d THEN [at |-> "send", of |-> m, since |-> minute] ELSE dispatcher[e]
  BY <1>1, <1>2 DEF Outbox!TypeOK
(* The row was due, so no lease is out on it.                               *)
<1>6. \A e \in Dispatcher : Busy(e) /\ m \notin unsure => dispatcher[e].of # m
  <2>1. \A e \in Dispatcher : dispatcher[e].since \in Nat
    BY DEF Outbox!TypeOK
  <2> QED
    BY <1>2, <1>3, <2>1 DEF HoldsLease
<1>7. \A e \in Dispatcher : e # d => (Busy(e)' <=> Busy(e)) /\ dispatcher'[e] = dispatcher[e]
  BY <1>5 DEF Busy
<1>8. HoldsLease'
  <2> SUFFICES ASSUME NEW e \in Dispatcher
               PROVE  /\ dispatcher'[e].at = "send" => minute <= dispatcher'[e].since + SendTime
                      /\ Busy(e)' /\ dispatcher'[e].of \notin unsure =>
                           /\ minute < dispatcher'[e].since + Lease
                           /\ mail'[dispatcher'[e].of].state = "sending"
                           /\ mail'[dispatcher'[e].of].due = dispatcher'[e].since + Lease
    BY <1>3 DEF HoldsLease
  <2>1. dispatcher[e].of \in Mail
    BY DEF Outbox!TypeOK
  <2>2. CASE e = d
    BY <1>2, <1>3, <1>5, <2>2
  <2>3. CASE e # d
    BY <1>5, <1>6, <1>7, <2>1, <2>3 DEF HoldsLease
  <2> QED
    BY <2>2, <2>3
<1>9. OneEach'
  BY <1>3, <1>5, <1>6, <1>7 DEF OneEach
<1>10. AcceptedKnown'
  <2> SUFFICES ASSUME NEW n \in Mail \ unsure
               PROVE  \/ accepted[n] = 0
                      \/ accepted[n] = 1 /\ mail'[n].state = "sent"
                      \/ accepted[n] = 1 /\ \E e \in Dispatcher :
                                               dispatcher'[e].at = "sent" /\ dispatcher'[e].of = n
    BY <1>3 DEF AcceptedKnown
  <2>1. CASE accepted[n] = 0
    BY <2>1
  <2>2. CASE accepted[n] = 1 /\ mail[n].state = "sent"
    BY <1>2, <1>5, <2>2
  <2>3. CASE accepted[n] = 1 /\ \E e \in Dispatcher : dispatcher[e].at = "sent" /\ dispatcher[e].of = n
    BY <1>3, <1>5, <2>3 DEF Busy
  <2> QED
    BY <2>1, <2>2, <2>3 DEF AcceptedKnown
<1> QED
  BY <1>4, <1>8, <1>9, <1>10

LEMMA SendKeeps ==
  ASSUME OutboxInv, NEW d \in Dispatcher, Outbox!Send(d)
  PROVE  OutboxInv'
<1> USE TimesAssumption DEF OutboxInv
<1> DEFINE m == dispatcher[d].of
<1>1. m \in Mail /\ dispatcher[d].at = "send" /\ UNCHANGED <<minute, mail>>
  BY DEF Outbox!Send, Outbox!TypeOK
<1>2. PICK at \in {"sent", "failed"} : dispatcher' = [dispatcher EXCEPT ![d].at = at]
  BY DEF Outbox!Send
<1>3. \/ accepted' = [accepted EXCEPT ![m] = @ + 1] /\ at = "sent" /\ unsure' = unsure
      \/ accepted' = [accepted EXCEPT ![m] = @ + 1] /\ unsure' = unsure \cup {m}
      \/ accepted' = accepted /\ unsure' = unsure
  <2>1. "sent" # "failed"
    OBVIOUS
  <2>2. dispatcher'[d].at = at
    BY <1>2 DEF Outbox!TypeOK
  <2> QED
    BY <2>2 DEF Outbox!Send, Outbox!TypeOK
<1>4. /\ \A e \in Dispatcher : e # d => dispatcher'[e] = dispatcher[e]
      /\ dispatcher'[d] = [at |-> at, of |-> m, since |-> dispatcher[d].since]
  BY <1>2 DEF Outbox!TypeOK
<1>5. \A e \in Dispatcher : /\ Busy(e)' <=> Busy(e)
                            /\ dispatcher'[e].of = dispatcher[e].of
                            /\ dispatcher'[e].since = dispatcher[e].since
  BY <1>1, <1>4 DEF Busy
<1>6. Outbox!TypeOK'
  <2>1. accepted' \in [Mail -> Nat] /\ unsure' \subseteq Mail
    BY <1>1, <1>3 DEF Outbox!TypeOK
  <2>2. dispatcher' \in [Dispatcher ->
            [at : {"idle", "send", "sent", "failed"}, of : Mail, since : Nat]]
    BY <1>2 DEF Outbox!TypeOK
  <2> QED
    BY <1>1, <2>1, <2>2 DEF Outbox!TypeOK
<1>a. unsure \subseteq unsure'
  BY <1>3
<1>7. HoldsLease'
  <2> SUFFICES ASSUME NEW e \in Dispatcher
               PROVE  /\ dispatcher'[e].at = "send" => minute <= dispatcher'[e].since + SendTime
                      /\ Busy(e)' /\ dispatcher'[e].of \notin unsure' =>
                           /\ minute < dispatcher'[e].since + Lease
                           /\ mail[dispatcher'[e].of].state = "sending"
                           /\ mail[dispatcher'[e].of].due = dispatcher'[e].since + Lease
    BY <1>1 DEF HoldsLease
  <2>1. dispatcher'[e].at = "send" => dispatcher[e].at = "send"
    BY <1>2, <1>4
  <2> QED
    BY <1>5, <1>a, <2>1 DEF HoldsLease
<1>8. OneEach'
  BY <1>5, <1>a DEF OneEach
<1>9. m \in unsure \/ mail[m].state = "sending"
  BY <1>1 DEF HoldsLease, Busy
(* Nobody else is at work on the row.                                       *)
<1>10. m \in unsure \/ accepted[m] = 0
  BY <1>1, <1>9 DEF AcceptedKnown, OneEach, Busy
<1>11. AcceptedKnown'
  <2> SUFFICES ASSUME NEW n \in Mail \ unsure'
               PROVE  \/ accepted'[n] = 0
                      \/ accepted'[n] = 1 /\ mail'[n].state = "sent"
                      \/ accepted'[n] = 1 /\ \E e \in Dispatcher :
                                               dispatcher'[e].at = "sent" /\ dispatcher'[e].of = n
    BY DEF AcceptedKnown
  <2>1. n \in Mail \ unsure
    BY <1>3
  <2>2. CASE n = m
    <3>1. accepted[m] = 0
      BY <1>10, <2>1, <2>2
    <3>2. accepted' = accepted \/ (accepted'[m] = 1 /\ at = "sent")
      BY <1>1, <1>3, <2>2, <3>1 DEF Outbox!TypeOK
    <3> QED
      BY <1>4, <2>2, <3>1, <3>2
  <2>3. CASE n # m
    <3>1. accepted'[n] = accepted[n]
      BY <1>1, <1>3, <2>1, <2>3 DEF Outbox!TypeOK
    <3>2. \A e \in Dispatcher : dispatcher[e].of = n => dispatcher'[e] = dispatcher[e]
      BY <1>4, <2>3
    <3> QED
      BY <1>1, <2>1, <3>1, <3>2 DEF AcceptedKnown
  <2> QED
    BY <2>2, <2>3
<1> QED
  BY <1>6, <1>7, <1>8, <1>11

(* A dispatcher that stops working on its row, with or without an outcome.  *)
LEMMA EndsKeeps ==
  ASSUME OutboxInv, NEW d \in Dispatcher, Outbox!RecordOutcome(d) \/ Outbox!DispatcherDies(d)
  PROVE  OutboxInv'
<1> USE TimesAssumption DEF OutboxInv
<1> DEFINE m == dispatcher[d].of
<1>1. m \in Mail /\ Busy(d) /\ UNCHANGED <<minute, accepted>> /\ minute \in Nat
  BY DEF Outbox!RecordOutcome, Outbox!DispatcherDies, Outbox!TypeOK, Busy
<1>2. Outbox!Waiting.of \in Mail /\ Outbox!Waiting =
        [at |-> "idle", of |-> Outbox!Waiting.of, since |-> 0]
  BY DEF Outbox!Waiting
<1>3. dispatcher' = [dispatcher EXCEPT ![d] = Outbox!Waiting]
  BY DEF Outbox!RecordOutcome, Outbox!DispatcherDies
<1>4. /\ \A e \in Dispatcher : e # d => dispatcher'[e] = dispatcher[e]
      /\ ~Busy(d)' /\ dispatcher'[d].at = "idle"
  BY <1>2, <1>3 DEF Outbox!TypeOK, Busy
<1>5. \A e \in Dispatcher : Busy(e)' => /\ e # d /\ Busy(e)
                                        /\ m \in unsure \/ dispatcher[e].of # m
  BY <1>1, <1>4 DEF OneEach, Busy
<1>6. /\ mail' \in [Mail -> [state : {"pending", "sending", "sent"}, due : Nat]]
      /\ \A n \in Mail : n # m => mail'[n] = mail[n]
      /\ unsure \subseteq unsure' /\ unsure' \subseteq Mail
      /\ \A n \in Mail : n # m /\ n \in unsure' => n \in unsure
  <2>1. CASE Outbox!RecordOutcome(d)
    BY <1>1, <2>1 DEF Outbox!RecordOutcome, Outbox!TypeOK
  <2>2. CASE Outbox!DispatcherDies(d)
    BY <1>1, <2>2 DEF Outbox!DispatcherDies, Outbox!TypeOK
  <2> QED
    BY <2>1, <2>2
<1>7. Outbox!TypeOK'
  <2>1. dispatcher' \in [Dispatcher ->
            [at : {"idle", "send", "sent", "failed"}, of : Mail, since : Nat]]
    BY <1>2, <1>3 DEF Outbox!TypeOK
  <2> QED
    BY <1>1, <1>6, <2>1 DEF Outbox!TypeOK
<1>8. HoldsLease'
  <2> SUFFICES ASSUME NEW e \in Dispatcher, Busy(e)'
               PROVE  /\ dispatcher'[e].at = "send" => minute <= dispatcher'[e].since + SendTime
                      /\ dispatcher'[e].of \notin unsure' =>
                           /\ minute < dispatcher'[e].since + Lease
                           /\ mail'[dispatcher'[e].of].state = "sending"
                           /\ mail'[dispatcher'[e].of].due = dispatcher'[e].since + Lease
    BY <1>1 DEF HoldsLease, Busy
  <2>1. dispatcher[e].of \in Mail /\ dispatcher'[e] = dispatcher[e] /\ Busy(e)
    BY <1>4, <1>5 DEF Outbox!TypeOK
  <2>2. dispatcher[e].of \notin unsure' => dispatcher[e].of \notin unsure /\ dispatcher[e].of # m
    BY <1>5, <1>6
  <2> QED
    BY <1>1, <1>6, <2>1, <2>2 DEF HoldsLease
<1>9. OneEach'
  BY <1>4, <1>5, <1>6 DEF OneEach
<1>10. m \in unsure \/ mail[m].state = "sending"
  BY <1>1 DEF HoldsLease
<1>11. m \in unsure' \/ accepted[m] = 0 \/ (accepted[m] = 1 /\ mail'[m].state = "sent")
  <2>1. CASE m \in unsure \/ accepted[m] = 0
    BY <1>6, <2>1
  <2>2. CASE m \notin unsure /\ accepted[m] # 0
    <3>1. accepted[m] = 1 /\ dispatcher[d].at = "sent"
      BY <1>1, <1>10, <2>2 DEF AcceptedKnown, OneEach, Busy
    <3>2. CASE Outbox!RecordOutcome(d)
      BY <1>1, <3>1, <3>2 DEF Outbox!RecordOutcome, Outbox!TypeOK
    <3>3. CASE Outbox!DispatcherDies(d)
      BY <3>1, <3>3 DEF Outbox!DispatcherDies
    <3> QED
      BY <3>2, <3>3
  <2> QED
    BY <2>1, <2>2
<1>12. AcceptedKnown'
  <2> SUFFICES ASSUME NEW n \in Mail \ unsure'
               PROVE  \/ accepted[n] = 0
                      \/ accepted[n] = 1 /\ mail'[n].state = "sent"
                      \/ accepted[n] = 1 /\ \E e \in Dispatcher :
                                               dispatcher'[e].at = "sent" /\ dispatcher'[e].of = n
    BY <1>1 DEF AcceptedKnown
  <2>1. CASE n = m
    BY <1>11, <2>1
  <2>2. CASE n # m
    <3>1. n \in Mail \ unsure /\ mail'[n] = mail[n]
      BY <1>6, <2>2
    <3>2. \A e \in Dispatcher : dispatcher[e].of = n => dispatcher'[e] = dispatcher[e]
      BY <1>4, <2>2
    <3> QED
      BY <3>1, <3>2 DEF AcceptedKnown
  <2> QED
    BY <2>1, <2>2
<1> QED
  BY <1>7, <1>8, <1>9, <1>12

LEMMA TimeKeeps ==
  ASSUME OutboxInv, Outbox!MinutePasses
  PROVE  OutboxInv'
<1> USE TimesAssumption DEF OutboxInv
<1> DEFINE late == {dispatcher[d].of : d \in Outbox!Overdue(minute + 1)}
<1>1. /\ UNCHANGED <<mail, dispatcher, accepted>> /\ minute < LastMinute
      /\ minute' = minute + 1 /\ unsure' = unsure \cup late
      /\ \A d \in Dispatcher : dispatcher[d].at = "send" => minute < dispatcher[d].since + SendTime
  BY DEF Outbox!MinutePasses
<1>2. minute \in Nat /\ \A d \in Dispatcher : dispatcher[d].since \in Nat /\ dispatcher[d].of \in Mail
  BY DEF Outbox!TypeOK
<1>3. late \subseteq Mail
  BY <1>2 DEF Outbox!Overdue
<1>4. Outbox!TypeOK'
  BY <1>1, <1>3 DEF Outbox!TypeOK
(* Who is at work on a row that is not unsure has no outcome overdue.       *)
<1>5. ASSUME NEW d \in Dispatcher, Busy(d), dispatcher[d].of \notin unsure'
      PROVE  minute + 1 < dispatcher[d].since + Lease
  <2>1. d \notin Outbox!Overdue(minute + 1)
    BY <1>1, <1>5
  <2>2. CASE dispatcher[d].at = "send"
    BY <1>1, <1>2, <2>2
  <2>3. CASE dispatcher[d].at \in {"sent", "failed"}
    BY <1>2, <2>1, <2>3 DEF Outbox!Overdue
  <2> QED
    BY <1>5, <2>2, <2>3 DEF Busy, Outbox!TypeOK
<1>6. HoldsLease'
  <2> SUFFICES ASSUME NEW d \in Dispatcher
               PROVE  /\ dispatcher[d].at = "send" => minute + 1 <= dispatcher[d].since + SendTime
                      /\ Busy(d) /\ dispatcher[d].of \notin unsure' =>
                           /\ minute + 1 < dispatcher[d].since + Lease
                           /\ mail[dispatcher[d].of].state = "sending"
                           /\ mail[dispatcher[d].of].due = dispatcher[d].since + Lease
    BY <1>1 DEF HoldsLease, Busy
  <2>1. dispatcher[d].at = "send" => minute + 1 <= dispatcher[d].since + SendTime
    BY <1>1, <1>2
  <2> QED
    BY <1>1, <1>5, <2>1 DEF HoldsLease
<1>7. OneEach' /\ AcceptedKnown'
  BY <1>1 DEF OneEach, AcceptedKnown, Busy
<1> QED
  BY <1>4, <1>6, <1>7

(* What the whole does to the outbox, the outbox does.                      *)
LEMMA OutboxAlone == Spec => Outbox!Spec
<1>1. Init => Outbox!Init
  BY DEF Init
<1>2. [Next]_vars => [Outbox!Next]_(Outbox!vars)
  BY DEF Next, Only, vars, Outbox!vars
<1> QED
  BY <1>1, <1>2, PTL DEF Spec, Outbox!Spec

(* dispatch.py: dispatchers keep their leases apart whatever dies and        *)
(* whatever answers are lost.                                               *)
THEOREM OutboxSafety == Spec => []OutboxInv
<1>1. Outbox!Init => OutboxInv
  BY InitialOutbox
<1>2. OutboxInv /\ [Outbox!Next]_(Outbox!vars) => OutboxInv'
  <2> SUFFICES ASSUME OutboxInv, [Outbox!Next]_(Outbox!vars) PROVE OutboxInv'
    OBVIOUS
  <2>1. CASE UNCHANGED Outbox!vars
    BY <2>1 DEF Outbox!vars, OutboxInv, Outbox!TypeOK, HoldsLease, OneEach, AcceptedKnown, Busy
  <2> QED
    BY <2>1, ClaimKeeps, SendKeeps, EndsKeeps, TimeKeeps DEF Outbox!Next
<1> QED
  BY <1>1, <1>2, OutboxAlone, PTL DEF Outbox!Spec

(* dispatch.py:28: a row is mailed once, unless its acceptance was lost     *)
(* before it reached the row, or one of its outcomes was still to be        *)
(* written when the lease ran out.                                          *)
THEOREM MailedOnceHolds == Spec => []MailedOnce
<1>1. OutboxInv => MailedOnce
  <2> SUFFICES ASSUME OutboxInv, NEW m \in Mail \ unsure PROVE accepted[m] <= 1
    BY DEF MailedOnce, Outbox!MailedOnce
  <2>1. accepted[m] = 0 \/ accepted[m] = 1
    BY DEF OutboxInv, AcceptedKnown
  <2> QED
    BY <2>1
<1> QED
  BY OutboxSafety, <1>1, PTL

-----------------------------------------------------------------------------
(***************************************************************************)
(* A page that stopped listening shows the outcome, for a job of any       *)
(* number of items. The stream closes on a state it read earlier, after    *)
(* messages it sent earlier, possibly over another connection; what ties   *)
(* these together is the number of events each has seen: whoever has seen  *)
(* all events of an ended job has read its final state (SeesOutcome).      *)
(***************************************************************************)

Event == Page!State \cup {"cancellation_requested"}
Ended == work.state \in Page!Terminal
Outcome == [state |-> work.state, finished |-> work.finished]

(* A job that has not ended has items left; one that has ended has none.    *)
WorkInv == /\ work.finished = Items <=> Ended
           /\ Len(work.events) >= 1

(* The page has no stream before it is loaded and after it is done.         *)
PageInv == /\ viewer \notin {"live"} => stream.at = "off"
           /\ viewer \in {"loading", "shown"} => lastId = 0
           /\ viewer = "shown" /\ display.state \in Page!Terminal => work.state = display.state

(* How far a stream is, in events.                                          *)
StreamInv == /\ stream.last <= Len(work.events)
             /\ stream.at \in {"job", "counts"} => stream.upTo <= Len(work.events)
             /\ stream.at = "job" => stream.last < stream.upTo
             /\ stream.at = "counts" => stream.last <= stream.upTo
             /\ stream.at = "begin" => stream.last = lastId
             /\ stream.at \in {"session", "events"} /\ stream.state \in Page!Terminal
                  => stream.last = lastId
             /\ stream.at = "poll" => stream.state \notin Page!Terminal

(* What was read of an ended job is its outcome, and whoever has seen all   *)
(* events of an ended job has read it.                                      *)
SeesOutcome ==
    /\ stream.state \in Page!Terminal => work.state = stream.state
    /\ stream.at \notin {"off", "begin"} /\ stream.last = Len(work.events) /\ Ended
         => stream.state = work.state
    /\ lastId = Len(work.events) /\ Ended => display = Outcome
    /\ stream.at = "decide" /\ stream.state \in Page!Terminal => display = Outcome
    /\ viewer = "done" => display = Outcome /\ Ended

ProgressInv == Page!TypeOK /\ WorkInv /\ PageInv /\ StreamInv /\ SeesOutcome

-----------------------------------------------------------------------------

LEMMA InitialProgress ==
  ASSUME Page!Init
  PROVE  ProgressInv
<1> USE ItemsAssumption DEF Page!Init
<1>1. Page!TypeOK
  BY DEF Page!TypeOK, Page!State, Page!Off, Page!Unread
<1>2. WorkInv /\ PageInv /\ StreamInv /\ SeesOutcome
  BY DEF WorkInv, PageInv, StreamInv, SeesOutcome, Ended, Page!Off, Page!Terminal
<1> QED
  BY <1>1, <1>2 DEF ProgressInv

(* A step of the job: it had not ended, and ends with new events.           *)
LEMMA JobMoves ==
  ASSUME ProgressInv, ~Ended,
         UNCHANGED <<loggedIn, viewer, display, lastId, stream>>,
         work' \in [state : Page!State, finished : 0..Items, events : Seq(Event)],
         WorkInv',
         \/ ~Ended' /\ Len(work'.events) >= Len(work.events)
         \/ Len(work'.events) > Len(work.events)
  PROVE  ProgressInv'
<1> USE ItemsAssumption DEF ProgressInv
<1>1. /\ Len(work.events) \in Nat /\ Len(work'.events) \in Nat
      /\ lastId \in 0..Len(work.events) /\ stream.last \in Nat /\ stream.upTo \in Nat
      /\ Len(work.events) <= Len(work'.events)
  BY DEF Page!TypeOK, Event
<1>2. Page!TypeOK'
  BY <1>1 DEF Page!TypeOK, Event
<1>3. stream.state \notin Page!Terminal /\ viewer # "done"
      /\ (viewer = "shown" => display.state \notin Page!Terminal)
  BY DEF SeesOutcome, PageInv, Ended
<1>4. PageInv' /\ StreamInv'
  BY <1>1, <1>3 DEF PageInv, StreamInv
<1>5. SeesOutcome'
  BY <1>1, <1>3 DEF SeesOutcome, StreamInv
<1> QED
  BY <1>2, <1>4, <1>5

LEMMA QueueKeeps ==
  ASSUME ProgressInv, Page!Promote \/ Page!FinishItem \/ Page!Cancel
  PROVE  ProgressInv'
<1> USE ItemsAssumption
<1>1. /\ work \in [state : Page!State, finished : 0..Items, events : Seq(Event)]
      /\ Len(work.events) \in Nat /\ Len(work.events) >= 1
      /\ work.finished = Items <=> Ended
  BY DEF ProgressInv, Page!TypeOK, WorkInv, Event
<1>2. ~Ended /\ work.finished < Items
  <2>1. ~Ended
    BY DEF Page!Promote, Page!FinishItem, Page!Cancel, Ended, Page!Terminal
  <2> QED
    BY <1>1, <2>1
<1>3. UNCHANGED <<loggedIn, viewer, display, lastId, stream>>
  BY DEF Page!Promote, Page!FinishItem, Page!Cancel
<1> DEFINE after(state, finished, events) ==
             [state |-> state, finished |-> finished, events |-> work.events \o events]
<1>4. ASSUME NEW state \in Page!State, NEW finished \in 0..Items, NEW events \in Seq(Event),
             Len(events) >= 1, finished = Items <=> state \in Page!Terminal,
             Page!Ends(state, finished, events)
      PROVE  ProgressInv'
  <2>1. work' = after(state, finished, events)
    BY <1>4 DEF Page!Ends
  <2>2. /\ work.events \o events \in Seq(Event)
        /\ Len(work.events \o events) = Len(work.events) + Len(events)
    BY <1>1
  <2>3. Len(events) \in Nat
    OBVIOUS
  <2>4. /\ work' \in [state : Page!State, finished : 0..Items, events : Seq(Event)]
        /\ Len(work'.events) > Len(work.events)
    BY <1>1, <1>4, <2>1, <2>2, <2>3
  <2>5. WorkInv'
    BY <1>1, <1>4, <2>1, <2>4 DEF WorkInv, Ended
  <2> QED
    BY <1>2, <1>3, <2>4, <2>5, JobMoves
<1>5. CASE Page!Promote
  <2>1. /\ Page!Ends("running", work.finished, <<"running">>)
        /\ "running" \in Page!State /\ "running" \notin Page!Terminal
    BY <1>5 DEF Page!Promote, Page!State, Page!Terminal
  <2>2. <<"running">> \in Seq(Event) /\ Len(<<"running">>) >= 1
    BY DEF Event, Page!State
  <2> QED
    BY <1>1, <1>2, <1>4, <2>1, <2>2
<1>6. CASE Page!FinishItem
  <2>1. CASE work.finished + 1 < Items
    <3>1. work' = [work EXCEPT !.finished = @ + 1]
      BY <1>6, <2>1 DEF Page!FinishItem
    <3>2. /\ work' \in [state : Page!State, finished : 0..Items, events : Seq(Event)]
          /\ work'.state = work.state /\ work'.events = work.events
          /\ work'.finished = work.finished + 1
      BY <1>1, <2>1, <3>1
    <3>3. WorkInv' /\ ~Ended'
      BY <1>1, <1>2, <2>1, <3>2 DEF WorkInv, Ended
    <3> QED
      BY <1>1, <1>2, <1>3, <3>2, <3>3, JobMoves
  <2>2. CASE ~(work.finished + 1 < Items)
    <3>1. PICK state \in {"completed", "failed"} : Page!Ends(state, Items, <<state>>)
      BY <1>6, <2>2 DEF Page!FinishItem
    <3>2. state \in Page!State /\ state \in Page!Terminal
      BY DEF Page!State, Page!Terminal
    <3>3. <<state>> \in Seq(Event) /\ Len(<<state>>) >= 1
      BY <3>2 DEF Event
    <3> QED
      <4>1. Items \in 0..Items
        OBVIOUS
      <4> QED
        BY <1>4, <3>1, <3>2, <3>3, <4>1
  <2> QED
    BY <2>1, <2>2
<1>7. CASE Page!Cancel
  <2> DEFINE events == IF work.state = "queued" THEN <<"cancelled">>
                       ELSE <<"cancellation_requested", "cancelled">>
  <2>1. /\ Page!Ends("cancelled", Items, events)
        /\ "cancelled" \in Page!State /\ "cancelled" \in Page!Terminal
    BY <1>7 DEF Page!Cancel, Page!State, Page!Terminal
  <2>2. events \in Seq(Event) /\ Len(events) >= 1
    <3>1. "cancelled" \in Event /\ "cancellation_requested" \in Event
      BY DEF Event, Page!State
    <3>2. /\ <<"cancelled">> \in Seq(Event) /\ Len(<<"cancelled">>) >= 1
          /\ <<"cancellation_requested", "cancelled">> \in Seq(Event)
          /\ Len(<<"cancellation_requested", "cancelled">>) >= 1
      BY <3>1
    <3> QED
      BY <3>2
  <2>3. Items \in 0..Items
    OBVIOUS
  <2> HIDE DEF events
  <2> QED
    BY <1>4, <2>1, <2>2, <2>3
<1> QED
  BY <1>5, <1>6, <1>7

(* What the page and the stream do leaves the job alone.                    *)
LEMMA Facts ==
  ASSUME ProgressInv
  PROVE  /\ Len(work.events) \in Nat /\ Len(work.events) >= 1
         /\ work.finished \in 0..Items /\ work.state \in Page!State
         /\ lastId \in 0..Len(work.events)
         /\ stream.last \in Nat /\ stream.upTo \in Nat
         /\ Page!Terminal \subseteq Page!State /\ {"queued", "running"} \cap Page!Terminal = {}
BY DEF ProgressInv, Page!TypeOK, WorkInv, Page!State, Page!Terminal

LEMMA PageKeeps ==
  ASSUME ProgressInv,
         Page!LoadJob \/ Page!LoadCounts \/ Page!Connect \/ Page!ConnectionDrops \/ Page!LogOut
  PROVE  ProgressInv'
<1> USE Facts, ItemsAssumption DEF ProgressInv
<1>1. work' = work /\ lastId' = lastId
  BY DEF Page!LoadJob, Page!LoadCounts, Page!Connect, Page!ConnectionDrops, Page!LogOut
<1>2. WorkInv'
  BY <1>1 DEF WorkInv, Ended
<1>3. CASE Page!LoadJob
  <2>1. Page!TypeOK'
    BY <1>3 DEF Page!LoadJob, Page!TypeOK, Page!Unread
  <2>2. PageInv' /\ StreamInv' /\ SeesOutcome'
    BY <1>1, <1>3 DEF Page!LoadJob, PageInv, StreamInv, SeesOutcome, Ended
  <2> QED
    BY <1>2, <2>1, <2>2
<1>4. CASE Page!LoadCounts
  <2>1. display' = [state |-> display.state, finished |-> work.finished]
    BY <1>4 DEF Page!LoadCounts, Page!TypeOK
  <2>2. Page!TypeOK'
    BY <1>4, <2>1 DEF Page!LoadCounts, Page!TypeOK, Page!Unread
  <2>3. PageInv' /\ StreamInv'
    BY <1>1, <1>4 DEF Page!LoadCounts, PageInv, StreamInv
  <2>4. /\ viewer = "shown" /\ stream.at = "off" /\ stream' = stream /\ lastId = 0
        /\ viewer' = "done" <=> display.state \in Page!Terminal
    BY <1>4 DEF Page!LoadCounts, PageInv
  <2>5. viewer' = "done" => display' = Outcome /\ Ended
    BY <2>1, <2>4 DEF PageInv, Ended, Outcome
  <2>6. SeesOutcome'
    BY <1>1, <2>4, <2>5 DEF SeesOutcome, Ended, Outcome
  <2> QED
    BY <1>2, <2>2, <2>3, <2>6
<1>5. CASE Page!Connect
  <2>1. CASE stream' = stream
    <3>1. Page!TypeOK'
      BY <1>5, <2>1 DEF Page!Connect, Page!TypeOK
    <3>2. PageInv' /\ StreamInv' /\ SeesOutcome'
      BY <1>1, <1>5, <2>1 DEF Page!Connect, PageInv, StreamInv, SeesOutcome, Ended, Outcome, Page!Off
    <3> QED
      BY <1>2, <3>1, <3>2
  <2>2. CASE stream' = [Page!Off EXCEPT !.at = "begin", !.last = lastId] /\ viewer' = viewer
    <3>1. stream' = [at |-> "begin", state |-> "queued", upTo |-> 0, last |-> lastId, counts |-> Page!Unread]
      BY <2>2 DEF Page!Off
    <3>2. Page!TypeOK'
      BY <1>5, <2>2, <3>1 DEF Page!Connect, Page!TypeOK, Page!State, Page!Unread
    <3>3. viewer = "live" /\ display' = display
      BY <1>5 DEF Page!Connect
    <3>4. PageInv' /\ StreamInv'
      BY <1>1, <2>2, <3>1, <3>3 DEF PageInv, StreamInv
    <3>5. stream'.state \notin Page!Terminal /\ stream'.at = "begin" /\ viewer' = "live"
      <4>1. stream'.state = "queued" /\ stream'.at = "begin"
        BY <3>1
      <4>2. "queued" \notin Page!Terminal
        BY DEF Page!Terminal
      <4> QED
        BY <2>2, <3>3, <4>1, <4>2
    <3>6. SeesOutcome'
      BY <1>1, <3>3, <3>5 DEF SeesOutcome, Ended, Outcome
    <3> QED
      BY <1>2, <3>2, <3>4, <3>6
  <2> QED
    BY <1>5, <2>1, <2>2 DEF Page!Connect
<1>6. CASE Page!ConnectionDrops
  <2>1. stream' = [at |-> "off", state |-> "queued", upTo |-> 0, last |-> 0, counts |-> Page!Unread]
    BY <1>6 DEF Page!ConnectionDrops, Page!Off
  <2>2. Page!TypeOK'
    BY <1>6, <2>1 DEF Page!ConnectionDrops, Page!TypeOK, Page!State, Page!Unread
  <2>3. PageInv' /\ StreamInv' /\ SeesOutcome'
    BY <1>1, <1>6, <2>1 DEF Page!ConnectionDrops, PageInv, StreamInv, SeesOutcome, Ended, Outcome
  <2> QED
    BY <1>2, <2>2, <2>3
<1>7. CASE Page!LogOut
  BY <1>1, <1>2, <1>7 DEF Page!LogOut, Page!TypeOK, PageInv, StreamInv, SeesOutcome, Ended, Outcome
<1> QED
  BY <1>3, <1>4, <1>5, <1>6, <1>7

(* A step of the stream that shows nothing.                                 *)
LEMMA StreamReads ==
  ASSUME ProgressInv, Page!Begin \/ Page!LoadSession \/ Page!ReadEvents \/ Page!ReadJob
  PROVE  ProgressInv'
<1> USE Facts, ItemsAssumption DEF ProgressInv
<1>1. UNCHANGED <<work, loggedIn, viewer, display, lastId>>
  BY DEF Page!Begin, Page!LoadSession, Page!ReadEvents, Page!ReadJob
<1>2. WorkInv'
  BY <1>1 DEF WorkInv, Ended
<1>3. viewer = "live"
  BY DEF Page!Begin, Page!LoadSession, Page!ReadEvents, Page!ReadJob, PageInv
<1>4. PageInv'
  BY <1>1, <1>3 DEF PageInv
<1>5. CASE Page!Begin
  <2>1. /\ stream' = [stream EXCEPT !.at = "session", !.state = work.state]
        /\ stream'.at = "session" /\ stream'.state = work.state
        /\ stream'.last = stream.last
    BY <1>5 DEF Page!Begin, Page!TypeOK
  <2>2. Page!TypeOK'
    BY <1>1, <2>1 DEF Page!TypeOK
  <2>3. stream.at = "begin"
    BY <1>5 DEF Page!Begin
  <2>4. StreamInv'
    BY <1>1, <2>1, <2>3 DEF StreamInv
  <2>5. SeesOutcome'
    BY <1>1, <1>3, <2>1 DEF SeesOutcome, Ended, Outcome
  <2> QED
    BY <1>2, <1>4, <2>2, <2>4, <2>5
<1>6. CASE Page!LoadSession
  <2>1. CASE stream' = Page!Off
    <3>1. stream' = [at |-> "off", state |-> "queued", upTo |-> 0, last |-> 0, counts |-> Page!Unread]
      BY <2>1 DEF Page!Off
    <3>2. Page!TypeOK'
      BY <1>1, <3>1 DEF Page!TypeOK, Page!State, Page!Unread
    <3> QED
      BY <1>1, <1>2, <1>3, <1>4, <3>1, <3>2 DEF StreamInv, SeesOutcome, Ended, Outcome
  <2>2. CASE stream' = [stream EXCEPT !.at = "events"]
    <3>1. /\ stream'.at = "events" /\ stream'.state = stream.state /\ stream'.last = stream.last
          /\ stream.at = "session"
      BY <1>6, <2>2 DEF Page!LoadSession, Page!TypeOK
    <3>2. Page!TypeOK'
      BY <1>1, <2>2 DEF Page!TypeOK
    <3> QED
      BY <1>1, <1>2, <1>4, <3>1, <3>2 DEF StreamInv, SeesOutcome, Ended, Outcome
  <2> QED
    BY <1>6, <2>1, <2>2 DEF Page!LoadSession
<1>7. CASE Page!ReadEvents
  <2> DEFINE at == IF Len(work.events) > stream.last THEN "job" ELSE "decide"
  <2>1. stream' = [stream EXCEPT !.upTo = Len(work.events), !.at = at] /\ stream.at = "events"
    BY <1>7 DEF Page!ReadEvents
  <2>2. /\ stream'.at = at /\ stream'.upTo = Len(work.events)
        /\ stream'.state = stream.state /\ stream'.last = stream.last
    BY <2>1 DEF Page!TypeOK
  <2>3. Page!TypeOK'
    <3>1. at \in {"job", "decide"}
      OBVIOUS
    <3> HIDE DEF at
    <3> QED
      BY <1>1, <2>1, <3>1 DEF Page!TypeOK
  <2>4. StreamInv'
    BY <1>1, <2>1, <2>2 DEF StreamInv
(* With nothing new, the page has seen all events of what ended.            *)
  <2>5. at = "decide" /\ stream.state \in Page!Terminal => display = Outcome
    BY <2>1 DEF StreamInv, SeesOutcome, Ended
  <2>6. SeesOutcome'
    BY <1>1, <1>3, <2>1, <2>2, <2>5 DEF SeesOutcome, Ended, Outcome
  <2> QED
    BY <1>2, <1>4, <2>3, <2>4, <2>6
<1>8. CASE Page!ReadJob
  <2>1. /\ stream' = [stream EXCEPT !.at = "counts", !.last = stream.last + 1, !.state = work.state]
        /\ stream.at = "job"
    BY <1>8 DEF Page!ReadJob
  <2>2. /\ stream'.at = "counts" /\ stream'.state = work.state
        /\ stream'.last = stream.last + 1 /\ stream'.upTo = stream.upTo
    BY <2>1 DEF Page!TypeOK
  <2>3. Page!TypeOK'
    <3>1. stream.last + 1 \in Nat /\ work.state \in Page!State
      BY DEF Page!TypeOK
    <3>2. stream' \in [at : {"off", "begin", "session", "events", "job", "counts", "decide", "poll"},
                       state : Page!State, upTo : Nat, last : Nat, counts : 0..Page!Unread]
      BY <2>1, <3>1 DEF Page!TypeOK
    <3> QED
      BY <1>1, <3>2 DEF Page!TypeOK
  <2>4. StreamInv'
    BY <1>1, <2>1, <2>2 DEF StreamInv
  <2>5. SeesOutcome'
    BY <1>1, <1>3, <2>2 DEF SeesOutcome, Ended, Outcome
  <2> QED
    BY <1>2, <1>4, <2>3, <2>4, <2>5
<1> QED
  BY <1>5, <1>6, <1>7, <1>8

(* A message: the page shows what the stream has read.                      *)
LEMMA StreamShows ==
  ASSUME ProgressInv, Page!ReadCounts \/ Page!PollCounts
  PROVE  ProgressInv'
<1> USE Facts, ItemsAssumption DEF ProgressInv
<1>1. UNCHANGED <<work, loggedIn, viewer>>
  BY DEF Page!ReadCounts, Page!PollCounts
<1>2. WorkInv'
  BY <1>1 DEF WorkInv, Ended
<1>3. viewer = "live"
  BY DEF Page!ReadCounts, Page!PollCounts, PageInv
<1>4. PageInv'
  BY <1>1, <1>3 DEF PageInv
<1>5. ASSUME NEW at \in {"job", "decide", "session"},
             stream.at \in {"counts", "poll"},
             Page!Shows([stream EXCEPT !.counts = work.finished, !.at = at]),
             at = "job" => stream.at = "counts" /\ stream.last < stream.upTo
      PROVE  ProgressInv'
  <2>1. /\ stream' = [stream EXCEPT !.counts = work.finished, !.at = at]
        /\ stream'.at = at /\ stream'.state = stream.state
        /\ stream'.last = stream.last /\ stream'.upTo = stream.upTo
        /\ display' = [state |-> stream.state, finished |-> work.finished]
        /\ lastId' = stream.last
    BY <1>5 DEF Page!Shows, Page!TypeOK
  <2>2. Page!TypeOK'
    <3>1. display' \in [state : Page!State, finished : 0..Page!Unread]
      BY <2>1 DEF Page!TypeOK, Page!Unread
    <3>2. lastId' \in 0..Len(work.events)
      BY <2>1 DEF StreamInv
    <3>3. work.finished \in 0..Page!Unread
      BY DEF Page!Unread
    <3> QED
      BY <1>1, <2>1, <3>1, <3>2, <3>3 DEF Page!TypeOK
  <2>3. StreamInv'
    BY <1>1, <1>5, <2>1 DEF StreamInv
  <2>4. SeesOutcome'
    BY <1>1, <1>3, <1>5, <2>1 DEF SeesOutcome, Ended, Outcome
  <2> QED
    BY <1>2, <1>4, <2>2, <2>3, <2>4
<1>6. CASE Page!ReadCounts
  <2> DEFINE at == IF stream.last < stream.upTo THEN "job" ELSE "decide"
  <2>1. Page!Shows([stream EXCEPT !.counts = work.finished, !.at = at]) /\ stream.at = "counts"
    BY <1>6 DEF Page!ReadCounts
  <2> QED
    BY <1>5, <2>1
<1>7. CASE Page!PollCounts
  <2>1. CASE work.finished # stream.counts
    BY <1>5, <1>7, <2>1 DEF Page!PollCounts
  <2>2. CASE work.finished = stream.counts
    <3>1. /\ stream' = [stream EXCEPT !.at = "session"] /\ UNCHANGED <<display, lastId>>
          /\ stream.at = "poll"
      BY <1>7, <2>2 DEF Page!PollCounts
    <3>2. /\ stream'.at = "session" /\ stream'.state = stream.state
          /\ stream'.last = stream.last /\ stream'.upTo = stream.upTo
      BY <3>1 DEF Page!TypeOK
    <3>3. Page!TypeOK'
      BY <1>1, <3>1 DEF Page!TypeOK
    <3>4. StreamInv'
      BY <1>1, <3>1, <3>2 DEF StreamInv
    <3>5. SeesOutcome'
      BY <1>1, <1>3, <3>1, <3>2 DEF SeesOutcome, Ended, Outcome
    <3> QED
      BY <1>2, <1>4, <3>3, <3>4, <3>5
  <2> QED
    BY <2>1, <2>2
<1> QED
  BY <1>6, <1>7

LEMMA DecideKeeps ==
  ASSUME ProgressInv, Page!Decide
  PROVE  ProgressInv'
<1> USE Facts, ItemsAssumption DEF ProgressInv
<1>1. UNCHANGED <<work, loggedIn, display, lastId>> /\ stream.at = "decide" /\ viewer = "live"
  BY DEF Page!Decide, PageInv
<1>2. WorkInv'
  BY <1>1 DEF WorkInv, Ended
<1>3. CASE stream.state \in Page!Terminal
  <2>1. /\ viewer' = "done"
        /\ stream' = [at |-> "off", state |-> "queued", upTo |-> 0, last |-> 0, counts |-> Page!Unread]
    BY <1>3 DEF Page!Decide, Page!Off
  <2>2. Page!TypeOK'
    BY <1>1, <2>1 DEF Page!TypeOK, Page!State, Page!Unread
  <2>3. display = Outcome /\ Ended
    BY <1>1, <1>3 DEF SeesOutcome, Ended
  <2> QED
    BY <1>1, <1>2, <2>1, <2>2, <2>3 DEF PageInv, StreamInv, SeesOutcome, Ended, Outcome
<1>4. CASE stream.state \notin Page!Terminal
  <2>1. stream' = [stream EXCEPT !.at = "poll"] /\ viewer' = viewer
    BY <1>4 DEF Page!Decide
  <2>2. /\ stream'.at = "poll" /\ stream'.state = stream.state
        /\ stream'.last = stream.last /\ stream'.upTo = stream.upTo
    BY <2>1 DEF Page!TypeOK
  <2>3. Page!TypeOK'
    BY <1>1, <2>1 DEF Page!TypeOK
  <2> QED
    BY <1>1, <1>2, <1>4, <2>1, <2>2, <2>3 DEF PageInv, StreamInv, SeesOutcome, Ended, Outcome
<1> QED
  BY <1>3, <1>4

-----------------------------------------------------------------------------

(* What the whole does to the page, the page does.                          *)
LEMMA PageAlone == Spec => Page!Spec
<1>1. Init => Page!Init
  BY DEF Init
<1>2. [Next]_vars => [Page!Next]_(Page!vars)
  BY DEF Next, Only, vars, Page!vars
<1> QED
  BY <1>1, <1>2, PTL DEF Spec, Page!Spec

(* web/routes/jobs.py and portal.js: what the page, its browser and the      *)
(* stream remember fits the job, over any drops and reconnections.          *)
THEOREM ProgressSafety == Spec => []ProgressInv
<1>1. Page!Init => ProgressInv
  BY InitialProgress
<1>2. ProgressInv /\ [Page!Next]_(Page!vars) => ProgressInv'
  <2> SUFFICES ASSUME ProgressInv, [Page!Next]_(Page!vars) PROVE ProgressInv'
    OBVIOUS
  <2>1. CASE UNCHANGED Page!vars
    BY <2>1 DEF Page!vars, ProgressInv, Page!TypeOK, WorkInv, PageInv, StreamInv, SeesOutcome, Ended, Outcome
  <2> QED
    BY <2>1, QueueKeeps, PageKeeps, StreamReads, StreamShows, DecideKeeps DEF Page!Next
<1> QED
  BY <1>1, <1>2, PageAlone, PTL DEF Page!Spec

(* jobs.py:482: a page that stopped listening shows the outcome.            *)
THEOREM DoneShowsOutcomeHolds == Spec => []DoneShowsOutcome
<1>1. ProgressInv => DoneShowsOutcome
  BY DEF ProgressInv, SeesOutcome, Outcome, DoneShowsOutcome, Page!DoneShowsOutcome
<1> QED
  BY ProgressSafety, <1>1, PTL

-----------------------------------------------------------------------------
(***************************************************************************)
(* Sessions, pending tokens and the login throttle, for any accounts,      *)
(* cookies, tokens, requests and lengths of the windows. A request holds   *)
(* what it read between two statements of the store, so the invariant says *)
(* what it may hold (Fits), and counts the attempts that passed the        *)
(* throttle and may still fail (UnderWay): they and the failures counted   *)
(* so far stay within the limit and the requests there can be.             *)
(***************************************************************************)

Minted(entry) == entry = Sessions!Unused \/ entry.user \in User

RequestType ==
    [phase : Sessions!Phase, goal : {"login", "stepup"}, user : User \cup {"nobody"},
     sess : Session \cup {"nobody"}, read : Sessions!SessionRow,
     keys : {<<>>, <<Source>>} \cup {<<u, Source>> : u \in User},
     token : Token \cup {"nobody"}]

(* What a request holds fits what it is doing.                              *)
Fits(q) ==
    /\ q \in RequestType /\ Minted(q.read)
    /\ q.phase # "idle" => q.user \in User
    /\ q.phase \in {"allows", "count", "clear"} => q.keys \in {<<q.user, Source>>, <<Source>>}
    /\ q.phase = "extend" => q.read.user \in User
    /\ q.goal = "stepup" \/ q.phase \in {"extend", "user", "in", "mark"} => q.sess \in Session
    /\ q.phase = "code" => q.user \in WithFactor /\ q.token \in Token

SessionRows ==
    /\ session \in [Session -> Sessions!SessionRow]
    /\ \A s \in Session : Minted(session[s])

(* A token that was issued belongs to an account with a factor.             *)
PendingRows ==
    /\ pending \in [Token -> Sessions!PendingRow]
    /\ \A t \in Token : IF pending[t].user = "nobody" THEN pending[t].until = 0
                        ELSE pending[t].user \in User \cap WithFactor

(* A counter outside of its window is 0.                                    *)
FailRows ==
    /\ fails \in [Sessions!Key -> Sessions!FailRow]
    /\ \A k \in Sessions!Key : ~Sessions!Live(fails[k]) => fails[k].n = 0

(* The token of a code that is looked at is spent, and has one looker.      *)
Spent(t) == pending[t].user # "nobody" /\ pending[t].until = 0

CodesSpent ==
    /\ \A r \in Request : Sessions!At(r, "code") => Spent(request[r].token)
    /\ \A r, q \in Request : Sessions!At(r, "code") /\ Sessions!At(q, "code") /\ r # q =>
           request[r].token # request[q].token

(* Attempts on an account that passed its counter and may still raise it.   *)
MayCount(q, u) ==
    /\ q.user = u
    /\ \/ q.phase = "allows" /\ q.keys = <<Source>>
       \/ q.phase = "verify"
       \/ q.phase = "count" /\ q.keys = <<u, Source>>
UnderWay(u) == {r \in Request : MayCount(request[r], u)}

FailuresLimited ==
    \A u \in User \ WithFactor :
        fails[u].n + Cardinality(UnderWay(u)) <= Limit - 1 + Cardinality(Request)

RequestsFit ==
    request \in [Request -> RequestType] /\ \A r \in Request : Fits(request[r])

SessionsInv ==
    /\ clock \in Nat \ {0}
    /\ SessionRows /\ PendingRows /\ FailRows
    /\ RequestsFit /\ CodesSpent /\ FailuresLimited

-----------------------------------------------------------------------------

LEMMA FreeFits == Fits(Sessions!Free) /\ Sessions!Free.phase = "idle"
<1>1. Sessions!Unused \in Sessions!SessionRow
  BY DEF Sessions!Unused, Sessions!SessionRow, Sessions!Nobody, Sessions!Never
<1> QED
  BY <1>1 DEF Sessions!Free, Fits, RequestType, Minted, Sessions!Phase, Sessions!Nobody

(* A row that is live was minted.                                           *)
LEMMA LiveIsMinted ==
  ASSUME SessionsInv, NEW s \in Session, Sessions!Live(session[s])
  PROVE  session[s] \in Sessions!SessionRow /\ session[s].user \in User
<1>1. Sessions!Unused.until = 0
  BY DEF Sessions!Unused, Sessions!Never
<1> QED
  BY <1>1 DEF SessionsInv, SessionRows, Minted, Sessions!Live

(* One account's failures and attempts: a step adds an attempt only when    *)
(* the failures are below the limit, and a failure only for an attempt.     *)
LEMMA AccountLimited ==
  ASSUME SessionsInv, NEW u \in User \ WithFactor, NEW r \in Request, NEW op,
         request' = [request EXCEPT ![r] = op], fails'[u].n \in Nat,
         \/ MayCount(op, u) /\ fails'[u].n <= Limit - 1
         \/ fails'[u].n <= fails[u].n /\ (MayCount(op, u) => MayCount(request[r], u))
         \/ fails'[u].n <= fails[u].n + 1 /\ MayCount(request[r], u) /\ ~MayCount(op, u)
  PROVE  fails'[u].n + Cardinality(UnderWay(u)') <= Limit - 1 + Cardinality(Request)
<1> DEFINE before == UnderWay(u)
           after == UnderWay(u)'
<1>1. /\ IsFiniteSet(Request) /\ Cardinality(Request) \in Nat
      /\ IsFiniteSet(before) /\ Cardinality(before) \in Nat
      /\ IsFiniteSet(after) /\ Cardinality(after) \in Nat
      /\ Cardinality(after) <= Cardinality(Request)
  <2>1. before \in SUBSET Request /\ after \in SUBSET Request
    BY DEF UnderWay
  <2> QED
    BY <2>1, ThrottleAssumption, FS_Subset, FS_CardinalityType
<1>2. /\ \A q \in Request \ {r} : q \in after <=> q \in before
      /\ r \in after <=> MayCount(op, u)
      /\ r \in before <=> MayCount(request[r], u)
  <2>1. \A q \in Request : request'[q] = IF q = r THEN op ELSE request[q]
    BY DEF SessionsInv, RequestsFit
  <2> QED
    BY <2>1 DEF UnderWay, MayCount
<1>3. before \subseteq Request /\ after \subseteq Request
  BY DEF UnderWay
<1> HIDE DEF before, after
<1>4. /\ fails[u].n \in Nat /\ Limit \in Nat
      /\ fails[u].n + Cardinality(before) <= Limit - 1 + Cardinality(Request)
  BY ThrottleAssumption DEF SessionsInv, FailRows, FailuresLimited, Sessions!Key, Sessions!FailRow, before
<1>5. CASE MayCount(op, u) /\ fails'[u].n <= Limit - 1
  BY <1>1, <1>4, <1>5 DEF after
<1>6. CASE fails'[u].n <= fails[u].n /\ (MayCount(op, u) => MayCount(request[r], u))
  <2>1. after \in SUBSET before
    BY <1>2, <1>3, <1>6
  <2>2. Cardinality(after) <= Cardinality(before)
    BY <1>1, <2>1, FS_Subset
  <2> QED
    BY <1>1, <1>4, <1>6, <2>2 DEF after
<1>7. CASE fails'[u].n <= fails[u].n + 1 /\ MayCount(request[r], u) /\ ~MayCount(op, u)
  <2>1. after = before \ {r} /\ r \in before
    BY <1>2, <1>3, <1>7
  <2>2. Cardinality(after) = Cardinality(before) - 1
    BY <1>1, <2>1, FS_RemoveElement
  <2> QED
    BY <1>1, <1>4, <1>7, <2>2 DEF after
<1> QED
  BY <1>5, <1>6, <1>7

(* What one step of a request does to the requests.                         *)
LEMMA RequestMoves ==
  ASSUME SessionsInv, NEW r \in Request, NEW op, Fits(op), op.phase # "code",
         request' = [request EXCEPT ![r] = op],
         \A t \in Token : Spent(t) => Spent(t)',
         \A u \in User \ WithFactor :
            /\ fails'[u].n \in Nat
            /\ \/ MayCount(op, u) /\ fails'[u].n <= Limit - 1
               \/ fails'[u].n <= fails[u].n /\ (MayCount(op, u) => MayCount(request[r], u))
               \/ fails'[u].n <= fails[u].n + 1 /\ MayCount(request[r], u) /\ ~MayCount(op, u)
  PROVE  RequestsFit' /\ CodesSpent' /\ FailuresLimited'
<1>1. \A q \in Request : request'[q] = IF q = r THEN op ELSE request[q]
  BY DEF SessionsInv, RequestsFit
<1>2. RequestsFit'
  BY <1>1 DEF SessionsInv, RequestsFit, Fits
<1>3. CodesSpent'
  BY <1>1 DEF SessionsInv, RequestsFit, CodesSpent, Fits, Sessions!At
<1>4. FailuresLimited'
  BY AccountLimited DEF FailuresLimited
<1> QED
  BY <1>2, <1>3, <1>4

(* A step that touches no counter, and lets an attempt on only below the    *)
(* limit.                                                                   *)
LEMMA SessionMoves ==
  ASSUME SessionsInv, NEW r \in Request, NEW op, Fits(op), op.phase # "code",
         request' = [request EXCEPT ![r] = op],
         \A u \in User \ WithFactor :
            MayCount(op, u) => MayCount(request[r], u) \/ fails[u].n <= Limit - 1,
         SessionRows', UNCHANGED <<clock, pending, fails>>
  PROVE  SessionsInv'
<1>1. \A u \in User \ WithFactor : fails[u].n \in Nat
  BY DEF SessionsInv, FailRows, Sessions!Key, Sessions!FailRow
<1>2. PendingRows' /\ FailRows' /\ \A t \in Token : Spent(t) => Spent(t)'
  BY DEF SessionsInv, PendingRows, FailRows, Spent, Sessions!Live
<1>3. \A u \in User \ WithFactor :
        /\ fails'[u].n \in Nat
        /\ \/ MayCount(op, u) /\ fails'[u].n <= Limit - 1
           \/ fails'[u].n <= fails[u].n /\ (MayCount(op, u) => MayCount(request[r], u))
  BY <1>1
<1>4. RequestsFit' /\ CodesSpent' /\ FailuresLimited'
  BY <1>2, <1>3, RequestMoves
<1> QED
  BY <1>2, <1>4 DEF SessionsInv

(* A row is deleted, or written back with a deadline of its own.            *)
LEMMA RowWritten ==
  ASSUME SessionsInv, NEW s \in Session, NEW entry, entry \in Sessions!SessionRow, Minted(entry),
         session' = session \/ session' = [session EXCEPT ![s] = entry]
  PROVE  SessionRows'
BY DEF SessionsInv, SessionRows

LEMMA DiscardKeepsRows ==
  ASSUME SessionsInv, NEW s \in Session, Sessions!Discard(s)
  PROVE  SessionRows'
<1> DEFINE entry == [session[s] EXCEPT !.until = 0]
<1>1. session' = [session EXCEPT ![s] = entry]
  BY DEF Sessions!Discard, Sessions!Never
<1>2. session[s] \in Sessions!SessionRow /\ Minted(session[s])
  BY DEF SessionsInv, SessionRows
<1>3. entry \in Sessions!SessionRow /\ entry.user = session[s].user
  BY <1>2 DEF Sessions!SessionRow
<1>4. session[s] = Sessions!Unused => entry = Sessions!Unused
  BY DEF Sessions!Unused, Sessions!Never
<1> HIDE DEF entry
<1> QED
  BY <1>1, <1>2, <1>3, <1>4, RowWritten DEF Minted

LEMMA ReplaceKeepsRows ==
  ASSUME SessionsInv, NEW s \in Session, NEW record \in Sessions!SessionRow,
         record.user \in User, Sessions!Replace(s, record)
  PROVE  SessionRows'
<1> DEFINE entry == [record EXCEPT !.until = clock + IdleTime]
<1>1. session' = session \/ session' = [session EXCEPT ![s] = entry]
  BY DEF Sessions!Replace
<1>2. clock + IdleTime \in Nat
  BY ThrottleAssumption DEF SessionsInv
<1>3. entry \in Sessions!SessionRow /\ entry.user = record.user
  BY <1>2 DEF Sessions!SessionRow
<1> HIDE DEF entry
<1> QED
  BY <1>1, <1>3, RowWritten DEF Minted

LEMMA MintKeepsRows ==
  ASSUME SessionsInv, NEW u \in User, NEW stamp \in Nat, Sessions!Mint(u, stamp)
  PROVE  SessionRows'
<1>1. PICK s \in Session :
        session' = [session EXCEPT ![s] = [user |-> u, born |-> clock, stamp |-> stamp,
                                           until |-> clock + IdleTime]]
  BY DEF Sessions!Mint
<1>2. clock \in Nat /\ clock + IdleTime \in Nat
  BY ThrottleAssumption DEF SessionsInv
<1>3. [user |-> u, born |-> clock, stamp |-> stamp, until |-> clock + IdleTime] \in Sessions!SessionRow
  BY <1>2 DEF Sessions!SessionRow
<1> QED
  BY <1>1, <1>3, RowWritten DEF Minted

-----------------------------------------------------------------------------

LEMMA LoadKeeps ==
  ASSUME SessionsInv, NEW r \in Request,
         \/ \E s \in Session : Sessions!LoadRead(r, s)
         \/ Sessions!LoadExtend(r) \/ Sessions!LoadUser(r)
  PROVE  SessionsInv'
<1>1. Fits(request[r]) /\ request[r] \in RequestType
  BY DEF SessionsInv, RequestsFit, Fits
<1>2. ASSUME NEW s \in Session, Sessions!LoadRead(r, s) PROVE SessionsInv'
  <2>1. Sessions!Live(session[s]) /\ UNCHANGED <<clock, pending, fails>>
    BY <1>2 DEF Sessions!LoadRead
  <2>2. CASE clock - session[s].born > Lifetime
    <3>1. SessionRows' /\ UNCHANGED <<request, clock, pending, fails>>
      BY <1>2, <2>2, DiscardKeepsRows DEF Sessions!LoadRead
    <3> QED
      BY <3>1 DEF SessionsInv, PendingRows, FailRows, RequestsFit, CodesSpent,
                  FailuresLimited, UnderWay, Sessions!Live, Sessions!At, Spent
  <2>3. CASE ~(clock - session[s].born > Lifetime)
    <3> DEFINE op == [Sessions!Free EXCEPT !.phase = "extend", !.sess = s,
                                 !.user = session[s].user, !.read = session[s]]
    <3>1. request' = [request EXCEPT ![r] = op] /\ UNCHANGED session
      BY <1>2, <2>3 DEF Sessions!LoadRead, Sessions!Becomes
    <3>2. session[s] \in Sessions!SessionRow /\ session[s].user \in User
      BY <2>1, LiveIsMinted
    <3>3. Fits(op) /\ op.phase = "extend"
      BY <3>2, FreeFits DEF Fits, RequestType, Minted, Sessions!Phase, Sessions!Free
    <3>4. SessionRows'
      BY <3>1 DEF SessionsInv, SessionRows
    <3> HIDE DEF op
    <3> QED
      BY <2>1, <3>1, <3>3, <3>4, SessionMoves DEF MayCount
  <2> QED
    BY <2>2, <2>3
<1>3. CASE Sessions!LoadExtend(r)
  <2> DEFINE s == request[r].sess
             op == IF Sessions!Live(session[s])
                   THEN [request[r] EXCEPT !.phase = "user", !.read = Sessions!Unused]
                   ELSE Sessions!Free
  <2>1. /\ request[r].phase = "extend" /\ Sessions!Replace(s, request[r].read)
        /\ request' = [request EXCEPT ![r] = op] /\ UNCHANGED <<clock, pending, fails>>
    BY <1>3 DEF Sessions!LoadExtend, Sessions!Becomes, Sessions!At
  <2>2. s \in Session /\ request[r].read \in Sessions!SessionRow /\ request[r].read.user \in User
    BY <1>1, <2>1 DEF Fits, RequestType
  <2>3. SessionRows'
    BY <2>1, <2>2, ReplaceKeepsRows
  <2>4. Fits(op) /\ op.phase \in {"user", "idle"}
    <3>1. CASE Sessions!Live(session[s])
      <4>1. op = [request[r] EXCEPT !.phase = "user", !.read = Sessions!Unused]
        BY <3>1
      <4>2. Sessions!Unused \in Sessions!SessionRow
        BY FreeFits DEF Fits, RequestType, Sessions!Free
      <4> HIDE DEF op
      <4> QED
        BY <1>1, <2>1, <4>1, <4>2 DEF Fits, RequestType, Minted, Sessions!Phase
    <3>2. CASE ~Sessions!Live(session[s])
      BY <3>2, FreeFits
    <3> QED
      BY <3>1, <3>2
  <2> HIDE DEF op
  <2> QED
    BY <2>1, <2>3, <2>4, SessionMoves DEF MayCount
<1>4. CASE Sessions!LoadUser(r)
  <2>1. /\ request[r].phase = "user" /\ request[r].sess \in Session
        /\ UNCHANGED <<clock, pending, fails>>
    BY <1>1, <1>4 DEF Sessions!LoadUser, Sessions!At, Fits
  <2>2. CASE active[request[r].user]
    <3> DEFINE op == [request[r] EXCEPT !.phase = "in"]
    <3>1. request' = [request EXCEPT ![r] = op] /\ UNCHANGED session
      BY <1>4, <2>2 DEF Sessions!LoadUser, Sessions!Goto, Sessions!Becomes
    <3>2. Fits(op) /\ op.phase = "in"
      BY <1>1, <2>1 DEF Fits, RequestType, Sessions!Phase
    <3>3. SessionRows'
      BY <3>1 DEF SessionsInv, SessionRows
    <3> HIDE DEF op
    <3> QED
      BY <2>1, <3>1, <3>2, <3>3, SessionMoves DEF MayCount
  <2>3. CASE ~active[request[r].user]
    <3>1. Sessions!Discard(request[r].sess) /\ request' = [request EXCEPT ![r] = Sessions!Free]
      BY <1>4, <2>3 DEF Sessions!LoadUser, Sessions!Becomes
    <3>2. SessionRows'
      BY <2>1, <3>1, DiscardKeepsRows
    <3> QED
      BY <2>1, <3>1, <3>2, FreeFits, SessionMoves DEF MayCount
  <2> QED
    BY <2>2, <2>3
<1> QED
  BY <1>2, <1>3, <1>4

LEMMA ServeKeeps ==
  ASSUME SessionsInv, NEW r \in Request,
         Sessions!Serve(r) \/ Sessions!MarkRead(r) \/ Sessions!MarkWrite(r)
  PROVE  SessionsInv'
<1>1. Fits(request[r]) /\ request[r] \in RequestType
  BY DEF SessionsInv, RequestsFit, Fits
<1>2. SessionRows /\ (UNCHANGED session => SessionRows')
  BY DEF SessionsInv, SessionRows
<1>3. ASSUME request' = [request EXCEPT ![r] = Sessions!Free], SessionRows',
             UNCHANGED <<clock, pending, fails>>
      PROVE  SessionsInv'
  BY <1>3, FreeFits, SessionMoves DEF MayCount
<1>4. CASE Sessions!Serve(r)
  <2>1. /\ request[r].phase = "in" /\ request[r].sess \in Session /\ request[r].user \in User
        /\ UNCHANGED <<clock, pending, fails>>
    BY <1>1, <1>4 DEF Sessions!Serve, Sessions!At, Fits
  <2> DEFINE op == [request[r] EXCEPT !.phase = "allows", !.goal = "stepup",
                                      !.keys = <<request[r].user, Source>>]
  <2>2. CASE Sessions!Becomes(r, op) /\ UNCHANGED session
    <3>1. Fits(op) /\ op.phase = "allows" /\ op.keys # <<Source>>
      BY <1>1, <2>1 DEF Fits, RequestType, Sessions!Phase
    <3>2. request' = [request EXCEPT ![r] = op]
      BY <2>2 DEF Sessions!Becomes
    <3> HIDE DEF op
    <3> QED
      BY <1>2, <2>1, <2>2, <3>1, <3>2, SessionMoves DEF MayCount
  <2>3. CASE Sessions!Becomes(r, Sessions!Free) /\ UNCHANGED session
    BY <1>2, <1>3, <2>1, <2>3 DEF Sessions!Becomes
  <2>4. CASE Sessions!Discard(request[r].sess) /\ Sessions!Becomes(r, Sessions!Free)
    BY <1>3, <2>1, <2>4, DiscardKeepsRows DEF Sessions!Becomes
  <2> QED
    BY <1>4, <2>2, <2>3, <2>4 DEF Sessions!Serve, Sessions!LoginKeys
<1>5. CASE Sessions!MarkRead(r)
  <2>1. /\ request[r].phase = "mark" /\ request[r].sess \in Session
        /\ UNCHANGED <<clock, session, pending, fails>>
    BY <1>1, <1>5 DEF Sessions!MarkRead, Sessions!At, Fits
  <2>2. CASE Sessions!Live(session[request[r].sess])
    <3> DEFINE entry == session[request[r].sess]
               op == [request[r] EXCEPT !.read = entry]
    <3>1. request' = [request EXCEPT ![r] = op]
      BY <1>5, <2>2 DEF Sessions!MarkRead, Sessions!Becomes
    <3>2. entry \in Sessions!SessionRow /\ entry.user \in User
      BY <2>1, <2>2, LiveIsMinted
    <3> HIDE DEF entry
    <3>3. Fits(op) /\ op.phase = "mark"
      BY <1>1, <2>1, <3>2 DEF Fits, RequestType, Minted
    <3> HIDE DEF op
    <3> QED
      BY <1>2, <2>1, <3>1, <3>3, SessionMoves DEF MayCount
  <2>3. CASE ~Sessions!Live(session[request[r].sess])
    BY <1>2, <1>3, <1>5, <2>1, <2>3 DEF Sessions!MarkRead, Sessions!Becomes
  <2> QED
    BY <2>2, <2>3
<1>6. CASE Sessions!MarkWrite(r)
  <2> DEFINE record == [request[r].read EXCEPT !.stamp = clock]
  <2>1. /\ request[r].phase = "mark" /\ request[r].read # Sessions!Unused
        /\ Sessions!Replace(request[r].sess, record)
        /\ request' = [request EXCEPT ![r] = Sessions!Free]
        /\ UNCHANGED <<clock, pending, fails>>
    BY <1>6 DEF Sessions!MarkWrite, Sessions!At, Sessions!Becomes
  <2>2. request[r].sess \in Session /\ request[r].read \in Sessions!SessionRow
        /\ request[r].read.user \in User
    BY <1>1, <2>1 DEF Fits, RequestType, Minted
  <2>3. record \in Sessions!SessionRow /\ record.user \in User
    <3>1. clock \in Nat
      BY DEF SessionsInv
    <3> QED
      BY <2>2, <3>1 DEF Sessions!SessionRow
  <2> HIDE DEF record
  <2>4. SessionRows'
    BY <2>1, <2>2, <2>3, ReplaceKeepsRows
  <2> QED
    BY <1>3, <2>1, <2>4
<1> QED
  BY <1>4, <1>5, <1>6

-----------------------------------------------------------------------------

(* The throttle's read of a counter, and what comes of the attempt.         *)
LEMMA AttemptKeeps ==
  ASSUME SessionsInv, NEW r \in Request,
         \/ \E u \in User : Sessions!Attempt(r, u)
         \/ Sessions!Allows(r) \/ Sessions!Verify(r)
  PROVE  SessionsInv'
<1>1. Fits(request[r]) /\ request[r] \in RequestType
  BY DEF SessionsInv, RequestsFit, Fits
<1>2. SessionRows /\ (UNCHANGED session => SessionRows')
  BY DEF SessionsInv, SessionRows
<1>3. ASSUME NEW u \in User, Sessions!Attempt(r, u) PROVE SessionsInv'
  <2> DEFINE op == [Sessions!Free EXCEPT !.phase = "allows", !.user = u, !.keys = <<u, Source>>]
  <2>1. /\ request' = [request EXCEPT ![r] = op]
        /\ UNCHANGED <<clock, session, pending, fails>>
    BY <1>3 DEF Sessions!Attempt, Sessions!Becomes, Sessions!LoginKeys
  <2>2. Fits(op) /\ op.phase = "allows" /\ op.keys # <<Source>>
    BY FreeFits DEF Fits, RequestType, Minted, Sessions!Phase, Sessions!Free
  <2> HIDE DEF op
  <2> QED
    BY <1>2, <2>1, <2>2, SessionMoves DEF MayCount
<1>4. CASE Sessions!Allows(r)
  <2>1. /\ request[r].phase = "allows" /\ request[r].user \in User
        /\ request[r].keys \in {<<request[r].user, Source>>, <<Source>>}
        /\ UNCHANGED <<clock, session, pending, fails>>
    BY <1>1, <1>4 DEF Sessions!Allows, Sessions!At, Fits
  <2>2. CASE Sessions!Blocked(fails[Head(request[r].keys)])
    <3>1. request' = [request EXCEPT ![r] = Sessions!Free]
      BY <1>4, <2>2 DEF Sessions!Allows, Sessions!Becomes
    <3> QED
      BY <1>2, <2>1, <3>1, FreeFits, SessionMoves DEF MayCount
  <2>3. CASE /\ ~Sessions!Blocked(fails[Head(request[r].keys)])
             /\ request[r].keys = <<request[r].user, Source>>
    <3> DEFINE op == [request[r] EXCEPT !.keys = <<Source>>, !.phase = "allows"]
    <3>1. Tail(request[r].keys) = <<Source>> /\ Head(request[r].keys) = request[r].user
      BY <2>3
    <3>2. request' = [request EXCEPT ![r] = op]
      BY <1>4, <2>3, <3>1 DEF Sessions!Allows, Sessions!Becomes
    <3>3. Fits(op) /\ op.user = request[r].user
      BY <1>1, <2>1 DEF Fits, RequestType, Sessions!Phase
    <3>4. fails[request[r].user].n <= Limit - 1
      <4>1. fails[request[r].user].n \in Nat
        BY <2>1 DEF SessionsInv, FailRows, Sessions!Key, Sessions!FailRow
      <4>2. CASE Sessions!Live(fails[request[r].user])
        BY <2>3, <3>1, <4>1, <4>2, ThrottleAssumption DEF Sessions!Blocked
      <4>3. CASE ~Sessions!Live(fails[request[r].user])
        BY <2>1, <4>3, ThrottleAssumption DEF SessionsInv, FailRows, Sessions!Key
      <4> QED
        BY <4>2, <4>3
    <3>5. op.phase # "code"
      BY <1>1 DEF RequestType
    <3>6. \A u \in User \ WithFactor : MayCount(op, u) => fails[u].n <= Limit - 1
      BY <3>3, <3>4 DEF MayCount
    <3> HIDE DEF op
    <3> QED
      BY <1>2, <2>1, <3>2, <3>3, <3>5, <3>6, SessionMoves
  <2>4. CASE /\ ~Sessions!Blocked(fails[Head(request[r].keys)])
             /\ request[r].keys = <<Source>>
    <3> DEFINE op == [request[r] EXCEPT !.keys = <<>>, !.phase = "verify"]
    <3>1. Tail(request[r].keys) = <<>>
      BY <2>4
    <3>2. request' = [request EXCEPT ![r] = op]
      BY <1>4, <2>4, <3>1 DEF Sessions!Allows, Sessions!Becomes
    <3>3. Fits(op) /\ op.user = request[r].user /\ op.phase = "verify"
      BY <1>1, <2>1 DEF Fits, RequestType, Sessions!Phase
    <3>4. \A u \in User \ WithFactor : MayCount(op, u) => MayCount(request[r], u)
      BY <2>1, <2>4, <3>3 DEF MayCount
    <3> HIDE DEF op
    <3> QED
      BY <1>2, <2>1, <3>2, <3>3, <3>4, SessionMoves
  <2> QED
    BY <2>1, <2>2, <2>3, <2>4
<1>5. CASE Sessions!Verify(r)
  <2>1. /\ request[r].phase = "verify" /\ request[r].user \in User
        /\ UNCHANGED <<clock, session, pending, fails>>
    BY <1>1, <1>5 DEF Sessions!Verify, Sessions!At, Fits
  <2>2. CASE Sessions!Count(r, request[r].user)
    <3> DEFINE op == [Sessions!Free EXCEPT !.phase = "count", !.user = request[r].user,
                                           !.keys = <<request[r].user, Source>>]
    <3>1. request' = [request EXCEPT ![r] = op]
      BY <2>2 DEF Sessions!Count, Sessions!Becomes, Sessions!LoginKeys
    <3>2. Fits(op) /\ op.user = request[r].user /\ op.phase = "count"
      BY <2>1, FreeFits DEF Fits, RequestType, Minted, Sessions!Phase, Sessions!Free
    <3>3. \A u \in User \ WithFactor : MayCount(op, u) => MayCount(request[r], u)
      BY <2>1, <3>2 DEF MayCount
    <3> HIDE DEF op
    <3> QED
      BY <1>2, <2>1, <3>1, <3>2, <3>3, SessionMoves
  <2>3. CASE Sessions!OverKeys(r, "clear")
    <3> DEFINE op == [request[r] EXCEPT !.phase = "clear", !.keys = <<request[r].user, Source>>]
    <3>1. request' = [request EXCEPT ![r] = op]
      BY <2>3 DEF Sessions!OverKeys, Sessions!Becomes, Sessions!LoginKeys
    <3>2. Fits(op) /\ op.phase = "clear"
      BY <1>1, <2>1 DEF Fits, RequestType, Sessions!Phase
    <3> HIDE DEF op
    <3> QED
      BY <1>2, <2>1, <3>1, <3>2, SessionMoves DEF MayCount
  <2> QED
    BY <1>5, <2>2, <2>3 DEF Sessions!Verify
<1> QED
  BY <1>3, <1>4, <1>5

(* A failure is counted, for the account and for the address.               *)
LEMMA CountKeeps ==
  ASSUME SessionsInv, NEW r \in Request, Sessions!CountFailure(r)
  PROVE  SessionsInv'
<1>1. Fits(request[r]) /\ request[r] \in RequestType
  BY DEF SessionsInv, RequestsFit, Fits
<1>2. /\ request[r].phase = "count" /\ request[r].user \in User
      /\ request[r].keys \in {<<request[r].user, Source>>, <<Source>>}
      /\ UNCHANGED <<clock, active, session, pending>>
  BY <1>1 DEF Sessions!CountFailure, Sessions!At, Fits
<1> DEFINE k == Head(request[r].keys)
<1>3. k \in Sessions!Key /\ (request[r].keys = <<Source>> => k = Source)
      /\ (request[r].keys = <<request[r].user, Source>> => k = request[r].user)
  BY <1>2 DEF Sessions!Key
<1>4. Sessions!Increment(k)
  BY DEF Sessions!CountFailure
<1> HIDE DEF k
<1>5. clock \in Nat /\ clock + Window \in Nat /\ clock + Window > clock
  BY ThrottleAssumption DEF SessionsInv
<1>6. /\ fails' \in [Sessions!Key -> Sessions!FailRow]
      /\ fails'[k].n <= fails[k].n + 1 /\ fails'[k].until > clock
      /\ \A j \in Sessions!Key \ {k} : fails'[j] = fails[j]
  <2>1. fails \in [Sessions!Key -> Sessions!FailRow] /\ fails[k] \in Sessions!FailRow
    BY <1>3 DEF SessionsInv, FailRows
  <2>2. fails[k].n \in Nat /\ fails[k].n + 1 \in Nat
    BY <2>1 DEF Sessions!FailRow
  <2>3. CASE Sessions!Live(fails[k])
    <3>1. fails' = [fails EXCEPT ![k] = [fails[k] EXCEPT !.n = fails[k].n + 1]]
      BY <1>4, <2>3 DEF Sessions!Increment
    <3> QED
      BY <1>3, <2>1, <2>2, <2>3, <3>1 DEF Sessions!FailRow, Sessions!Live
  <2>4. CASE ~Sessions!Live(fails[k])
    <3>1. fails' = [fails EXCEPT ![k] = [n |-> 1, until |-> clock + Window]]
      BY <1>4, <2>4 DEF Sessions!Increment
    <3> QED
      BY <1>3, <1>5, <2>1, <2>2, <3>1 DEF Sessions!FailRow
  <2> QED
    BY <2>3, <2>4
<1>7. FailRows' /\ SessionRows' /\ PendingRows' /\ \A t \in Token : Spent(t) => Spent(t)'
  BY <1>2, <1>6 DEF SessionsInv, FailRows, SessionRows, PendingRows, Spent, Sessions!Live
<1>8. \A u \in User : fails'[u].n \in Nat /\ fails[u].n \in Nat /\ (u # k => fails'[u] = fails[u])
  BY <1>6 DEF SessionsInv, FailRows, Sessions!FailRow, Sessions!Key
<1>9. CASE request[r].keys = <<request[r].user, Source>>
  <2> DEFINE op == [request[r] EXCEPT !.keys = <<Source>>]
  <2>1. Tail(request[r].keys) = <<Source>> /\ k = request[r].user
    BY <1>3, <1>9
  <2>2. request' = [request EXCEPT ![r] = op]
    <3>1. <<Source>> # <<>>
      OBVIOUS
    <3> QED
      BY <2>1, <3>1, Zenon DEF Sessions!CountFailure, Sessions!Becomes
  <2>3. Fits(op) /\ op.phase = "count" /\ op.keys = <<Source>>
    BY <1>1, <1>2 DEF Fits, RequestType
  <2>4. \A u \in User : ~MayCount(op, u)
    BY <2>3 DEF MayCount
  <2>5. MayCount(request[r], k)
    BY <1>2, <1>9, <2>1 DEF MayCount
  <2> HIDE DEF op
  <2>6. \A u \in User \ WithFactor :
          /\ fails'[u].n \in Nat
          /\ \/ fails'[u].n <= fails[u].n /\ ~MayCount(op, u)
             \/ fails'[u].n <= fails[u].n + 1 /\ MayCount(request[r], u) /\ ~MayCount(op, u)
    BY <1>6, <1>8, <2>4, <2>5
  <2>7. RequestsFit' /\ CodesSpent' /\ FailuresLimited'
    BY <1>7, <2>2, <2>3, <2>6, RequestMoves
  <2> QED
    BY <1>2, <1>7, <2>7 DEF SessionsInv
<1>10. CASE request[r].keys = <<Source>>
  <2>1. Tail(request[r].keys) = <<>>
    BY <1>10
  <2>2. request' = [request EXCEPT ![r] = Sessions!Free]
    BY <2>1 DEF Sessions!CountFailure, Sessions!Becomes
  <2>3. \A u \in User \ WithFactor :
          /\ fails'[u].n \in Nat
          /\ fails'[u].n <= fails[u].n /\ ~MayCount(Sessions!Free, u)
    BY <1>3, <1>8, <1>10, FreeFits, ThrottleAssumption DEF MayCount
  <2>4. RequestsFit' /\ CodesSpent' /\ FailuresLimited'
    BY <1>7, <2>2, <2>3, FreeFits, RequestMoves
  <2> QED
    BY <1>2, <1>7, <2>4 DEF SessionsInv
<1> QED
  BY <1>2, <1>9, <1>10

(* A right answer clears both counters.                                     *)
LEMMA ClearKeeps ==
  ASSUME SessionsInv, NEW r \in Request, Sessions!ClearFailures(r)
  PROVE  SessionsInv'
<1>1. Fits(request[r]) /\ request[r] \in RequestType
  BY DEF SessionsInv, RequestsFit, Fits
<1>2. /\ request[r].phase = "clear" /\ request[r].user \in User
      /\ request[r].keys \in {<<request[r].user, Source>>, <<Source>>}
      /\ UNCHANGED <<clock, active, session, pending>>
  BY <1>1 DEF Sessions!ClearFailures, Sessions!At, Fits
<1>3. PICK k \in Sessions!Key : fails' = [fails EXCEPT ![k] = [n |-> 0, until |-> 0]]
  <2>1. Head(request[r].keys) \in Sessions!Key
    BY <1>2 DEF Sessions!Key
  <2> QED
    BY <2>1 DEF Sessions!ClearFailures, Sessions!Never
<1>4. /\ fails' \in [Sessions!Key -> Sessions!FailRow]
      /\ \A j \in Sessions!Key : fails'[j].n = 0 \/ fails'[j] = fails[j]
  BY <1>3 DEF SessionsInv, FailRows, Sessions!FailRow
<1>5. FailRows' /\ SessionRows' /\ PendingRows' /\ \A t \in Token : Spent(t) => Spent(t)'
  BY <1>2, <1>4 DEF SessionsInv, FailRows, SessionRows, PendingRows, Spent, Sessions!Live
<1> DEFINE rest == Tail(request[r].keys)
           op == [request[r] EXCEPT !.keys = rest,
                    !.phase = IF rest # <<>> THEN "clear"
                              ELSE IF request[r].goal = "login" THEN "issue" ELSE "mark"]
<1>6. request' = [request EXCEPT ![r] = op]
  BY DEF Sessions!ClearFailures, Sessions!Becomes
<1>7. rest \in {<<>>, <<Source>>}
  <2>1. CASE request[r].keys = <<request[r].user, Source>>
    BY <2>1
  <2>2. CASE request[r].keys = <<Source>>
    BY <2>2
  <2> QED
    BY <1>2, <2>1, <2>2
<1> HIDE DEF rest
<1>8. Fits(op) /\ op.phase \in {"clear", "issue", "mark"}
  BY <1>1, <1>2, <1>7 DEF Fits, RequestType, Sessions!Phase
<1>9. \A u \in User \ WithFactor :
        fails'[u].n \in Nat /\ fails'[u].n <= fails[u].n /\ ~MayCount(op, u)
  <2>1. \A u \in User : fails'[u].n \in Nat /\ fails[u].n \in Nat /\ fails'[u].n <= fails[u].n
    BY <1>4 DEF SessionsInv, FailRows, Sessions!FailRow, Sessions!Key
  <2> HIDE DEF op
  <2> QED
    BY <1>8, <2>1 DEF MayCount
<1> HIDE DEF op
<1>10. RequestsFit' /\ CodesSpent' /\ FailuresLimited'
  BY <1>5, <1>6, <1>8, <1>9, RequestMoves
<1> QED
  BY <1>2, <1>5, <1>10 DEF SessionsInv

(* The session, or the pending token of an account with a factor.           *)
LEMMA IssueKeeps ==
  ASSUME SessionsInv, NEW r \in Request, Sessions!Issue(r)
  PROVE  SessionsInv'
<1>1. /\ request[r].user \in User /\ request' = [request EXCEPT ![r] = Sessions!Free]
      /\ UNCHANGED <<clock, active, fails>>
  BY DEF Sessions!Issue, Sessions!At, Sessions!Becomes, SessionsInv, RequestsFit, Fits
<1>2. CASE request[r].user \in WithFactor
  <2> DEFINE entry == [user |-> request[r].user, until |-> clock + PendingTtl]
  <2>1. PICK t \in Token : /\ pending[t].user = "nobody"
                           /\ pending' = [pending EXCEPT ![t] = entry] /\ UNCHANGED session
    BY <1>2 DEF Sessions!Issue, Sessions!Nobody
  <2>2. entry \in Sessions!PendingRow /\ entry.user \in User \cap WithFactor
    BY <1>1, <1>2, ThrottleAssumption DEF SessionsInv, Sessions!PendingRow
  <2> HIDE DEF entry
  <2>3. pending \in [Token -> Sessions!PendingRow]
    BY DEF SessionsInv, PendingRows
  <2>4. \A p \in Token : pending'[p] = IF p = t THEN entry ELSE pending[p]
    BY <2>1, <2>3
  <2>5. PendingRows' /\ \A p \in Token : Spent(p) => Spent(p)'
    <3>1. "nobody" \notin User
      BY ThrottleAssumption
    <3> QED
      BY <2>1, <2>2, <2>3, <2>4, <3>1 DEF SessionsInv, PendingRows, Spent
  <2>6. \A u \in User \ WithFactor :
          fails'[u].n \in Nat /\ fails'[u].n <= fails[u].n /\ ~MayCount(Sessions!Free, u)
    BY <1>1, FreeFits DEF SessionsInv, FailRows, Sessions!FailRow, Sessions!Key, MayCount
  <2>7. RequestsFit' /\ CodesSpent' /\ FailuresLimited'
    BY <1>1, <2>5, <2>6, FreeFits, RequestMoves
  <2> QED
    BY <1>1, <2>1, <2>5, <2>7 DEF SessionsInv, SessionRows, FailRows, Sessions!Live
<1>3. CASE request[r].user \notin WithFactor
  <2>1. Sessions!Mint(request[r].user, 0) /\ UNCHANGED pending
    BY <1>3 DEF Sessions!Issue, Sessions!Never
  <2>2. SessionRows'
    BY <1>1, <2>1, MintKeepsRows
  <2> QED
    BY <1>1, <2>1, <2>2, FreeFits, SessionMoves DEF MayCount
<1> QED
  BY <1>2, <1>3

(* A token that is live was not looked at: taking it makes one looker.      *)
LEMMA SpendKeeps ==
  ASSUME SessionsInv, NEW r \in Request, NEW t \in Token, Sessions!SpendPending(r, t)
  PROVE  SessionsInv'
<1> DEFINE op == [Sessions!Free EXCEPT !.phase = "code", !.user = pending[t].user, !.token = t]
<1>1. /\ request' = [request EXCEPT ![r] = op] /\ UNCHANGED <<clock, active, session, fails>>
      /\ pending[t].until > clock
  BY DEF Sessions!SpendPending, Sessions!Becomes, Sessions!Live
<1>2. pending \in [Token -> Sessions!PendingRow] /\ pending[t] \in Sessions!PendingRow
  BY DEF SessionsInv, PendingRows
<1>3. /\ pending' = [pending EXCEPT ![t] = [pending[t] EXCEPT !.until = 0]]
      /\ pending'[t].user = pending[t].user /\ pending'[t].until = 0
      /\ \A p \in Token \ {t} : pending'[p] = pending[p]
      /\ pending' \in [Token -> Sessions!PendingRow]
  BY <1>2 DEF Sessions!SpendPending, Sessions!Take, Sessions!Never, Sessions!PendingRow
<1>4. pending[t].user \in User \cap WithFactor /\ pending[t].until # 0 /\ ~Spent(t)
  <2>1. pending[t].until \in Nat /\ clock \in Nat
    BY <1>2 DEF SessionsInv, Sessions!PendingRow
  <2>2. pending[t].until # 0
    BY <1>1, <2>1
  <2> QED
    BY <2>2 DEF SessionsInv, PendingRows, Spent
<1>5. Fits(op) /\ op.phase = "code" /\ op.token = t /\ op.user = pending[t].user
  BY <1>4, FreeFits DEF Fits, RequestType, Minted, Sessions!Phase, Sessions!Free
<1> HIDE DEF op
<1>6. PendingRows' /\ Spent(t)' /\ \A p \in Token : Spent(p) => p # t /\ Spent(p)'
  <2>1. "nobody" \notin User
    BY ThrottleAssumption
  <2> QED
    BY <1>3, <1>4, <2>1 DEF SessionsInv, PendingRows, Spent
<1>7. \A q \in Request : request'[q] = IF q = r THEN op ELSE request[q]
  BY <1>1 DEF SessionsInv, RequestsFit
<1>8. RequestsFit'
  BY <1>1, <1>5, <1>7 DEF SessionsInv, RequestsFit, Fits
<1>9. CodesSpent'
  <2>1. \A q \in Request : Sessions!At(q, "code")' =>
          IF q = r THEN request'[q].token = t
          ELSE request'[q] = request[q] /\ Sessions!At(q, "code")
    BY <1>5, <1>7 DEF Sessions!At
  <2>2. \A q \in Request : Sessions!At(q, "code") =>
          request[q].token \in Token /\ Spent(request[q].token)
    BY DEF SessionsInv, CodesSpent, RequestsFit, Fits, Sessions!At
  <2>3. \A q \in Request : Sessions!At(q, "code")' =>
          IF q = r THEN request'[q].token = t
          ELSE request'[q].token = request[q].token /\ request[q].token # t
               /\ request[q].token \in Token /\ Spent(request[q].token)
               /\ Sessions!At(q, "code")
    BY <1>6, <2>1, <2>2
  <2>4. \A p, q \in Request : Sessions!At(p, "code") /\ Sessions!At(q, "code") /\ p # q =>
          request[p].token # request[q].token
    BY DEF SessionsInv, CodesSpent
  <2>5. \A p, q \in Request : Sessions!At(p, "code")' /\ Sessions!At(q, "code")' /\ p # q =>
          request'[p].token # request'[q].token
    BY <2>3, <2>4
  <2>6. \A q \in Request : Sessions!At(q, "code")' => Spent(request[q].token)'
    <3>1. \A p \in Token : (p = t \/ Spent(p)) => Spent(p)'
      BY <1>6
    <3> QED
      BY <2>3, <3>1 DEF Spent
  <2> QED
    BY <2>5, <2>6 DEF CodesSpent
<1>10. FailuresLimited'
  <2>1. \A u \in User \ WithFactor :
          /\ fails'[u].n \in Nat /\ fails'[u].n <= fails[u].n /\ ~MayCount(op, u)
    BY <1>1, <1>5 DEF SessionsInv, FailRows, Sessions!FailRow, Sessions!Key, MayCount
  <2> QED
    BY <1>1, <2>1, AccountLimited DEF FailuresLimited
<1> QED
  BY <1>1, <1>6, <1>8, <1>9, <1>10 DEF SessionsInv, SessionRows, FailRows, Sessions!Live

LEMMA CodeKeeps ==
  ASSUME SessionsInv, NEW r \in Request, Sessions!CheckCode(r) \/ Sessions!Abandon(r)
  PROVE  SessionsInv'
<1>1. CASE Sessions!CheckCode(r)
  <2>1. /\ request[r].user \in User \cap WithFactor
        /\ UNCHANGED <<clock, active, pending, fails>>
    BY <1>1 DEF Sessions!CheckCode, Sessions!At, SessionsInv, RequestsFit, Fits
  <2>2. CASE Sessions!Count(r, request[r].user) /\ UNCHANGED session
    <3> DEFINE op == [Sessions!Free EXCEPT !.phase = "count", !.user = request[r].user,
                                           !.keys = <<request[r].user, Source>>]
    <3>1. request' = [request EXCEPT ![r] = op]
      BY <2>2 DEF Sessions!Count, Sessions!Becomes, Sessions!LoginKeys
    <3>2. Fits(op) /\ op.user \in WithFactor /\ op.phase = "count"
      BY <2>1, FreeFits DEF Fits, RequestType, Minted, Sessions!Phase, Sessions!Free
    <3>3. \A u \in User \ WithFactor : ~MayCount(op, u)
      BY <3>2 DEF MayCount
    <3>4. SessionRows'
      BY <2>2 DEF SessionsInv, SessionRows
    <3> HIDE DEF op
    <3> QED
      BY <2>1, <3>1, <3>2, <3>3, <3>4, SessionMoves
  <2>3. CASE Sessions!Mint(request[r].user, clock) /\ Sessions!Becomes(r, Sessions!Free)
    <3>1. SessionRows'
      <4>1. clock \in Nat
        BY DEF SessionsInv
      <4> QED
        BY <2>1, <2>3, <4>1, MintKeepsRows
    <3> QED
      BY <2>1, <2>3, <3>1, FreeFits, SessionMoves DEF MayCount, Sessions!Becomes
  <2> QED
    BY <1>1, <2>2, <2>3 DEF Sessions!CheckCode
<1>2. CASE Sessions!Abandon(r)
  <2>1. /\ request' = [request EXCEPT ![r] = Sessions!Free]
        /\ UNCHANGED <<clock, session, pending, fails>> /\ SessionRows'
    BY <1>2 DEF Sessions!Abandon, Sessions!Becomes, SessionsInv, SessionRows
  <2> QED
    BY <2>1, FreeFits, SessionMoves DEF MayCount
<1> QED
  BY <1>1, <1>2

(* Time passes: what is swept was spent already, or is no longer live.      *)
LEMMA TickKeeps ==
  ASSUME SessionsInv, Sessions!Tick
  PROVE  SessionsInv'
<1>1. clock \in Nat /\ clock' \in Nat \ {0} /\ clock' = clock + 1 /\ UNCHANGED request
  BY DEF Sessions!Tick, SessionsInv
<1>2. SessionRows'
  <2>1. session' = [s \in Session |-> Sessions!Swept(session[s])]
    BY DEF Sessions!Tick
  <2>2. ASSUME NEW s \in Session
        PROVE  Sessions!Swept(session[s]) \in Sessions!SessionRow /\ Minted(Sessions!Swept(session[s]))
    <3>1. session[s] \in Sessions!SessionRow /\ Minted(session[s])
      BY DEF SessionsInv, SessionRows
    <3>2. CASE session[s].until > clock'
      BY <3>1, <3>2 DEF Sessions!Swept
    <3>3. CASE ~(session[s].until > clock')
      <4>1. Sessions!Swept(session[s]) = [session[s] EXCEPT !.until = 0]
        BY <3>3 DEF Sessions!Swept, Sessions!Never
      <4>2. [session[s] EXCEPT !.until = 0] \in Sessions!SessionRow
            /\ [session[s] EXCEPT !.until = 0].user = session[s].user
        BY <3>1 DEF Sessions!SessionRow
      <4>3. session[s] = Sessions!Unused => [session[s] EXCEPT !.until = 0] = Sessions!Unused
        BY DEF Sessions!Unused, Sessions!Never
      <4> QED
        BY <3>1, <4>1, <4>2, <4>3 DEF Minted
    <3> QED
      BY <3>2, <3>3
  <2> QED
    BY <2>1, <2>2 DEF SessionRows
<1>3. PendingRows' /\ \A t \in Token : Spent(t) => Spent(t)'
  <2>1. pending' = [t \in Token |-> Sessions!Swept(pending[t])]
    BY DEF Sessions!Tick
  <2>2. ASSUME NEW t \in Token
        PROVE  /\ Sessions!Swept(pending[t]) \in Sessions!PendingRow
               /\ Sessions!Swept(pending[t]).user = pending[t].user
               /\ pending[t].until = 0 => Sessions!Swept(pending[t]).until = 0
    <3>1. pending[t] \in Sessions!PendingRow
      BY DEF SessionsInv, PendingRows
    <3>2. CASE pending[t].until > clock'
      BY <3>1, <3>2 DEF Sessions!Swept
    <3>3. CASE ~(pending[t].until > clock')
      BY <3>1, <3>3 DEF Sessions!Swept, Sessions!Never, Sessions!PendingRow
    <3> QED
      BY <3>2, <3>3
  <2>3. \A t \in Token : pending'[t] = Sessions!Swept(pending[t])
    BY <2>1
  <2>4. pending' \in [Token -> Sessions!PendingRow]
    BY <2>1, <2>2
  <2> QED
    BY <2>2, <2>3, <2>4 DEF SessionsInv, PendingRows, Spent
<1>4. FailRows' /\ \A k \in Sessions!Key : fails'[k].n <= fails[k].n /\ fails'[k].n \in Nat
  <2>1. fails' = [k \in Sessions!Key |-> IF fails[k].until > clock' THEN fails[k]
                                         ELSE [n |-> 0, until |-> 0]]
    BY DEF Sessions!Tick, Sessions!Never
  <2>2. \A k \in Sessions!Key : fails[k] \in Sessions!FailRow /\ fails[k].n \in Nat /\ fails[k].until \in Nat
    BY DEF SessionsInv, FailRows, Sessions!FailRow
  <2>3. [n |-> 0, until |-> 0] \in Sessions!FailRow
    BY DEF Sessions!FailRow
  <2> QED
    BY <1>1, <2>1, <2>2, <2>3 DEF FailRows, Sessions!Live
<1>5. CodesSpent'
  <2>1. \A r \in Request : Sessions!At(r, "code") =>
          request[r].token \in Token /\ Spent(request[r].token)
    BY DEF SessionsInv, CodesSpent, RequestsFit, Fits, Sessions!At
  <2>2. \A r \in Request : Sessions!At(r, "code")' => Spent(request[r].token)'
    BY <1>1, <1>3, <2>1 DEF Sessions!At
  <2> QED
    BY <1>1, <2>2 DEF SessionsInv, CodesSpent, Sessions!At, Spent
<1>6. FailuresLimited'
  <2> SUFFICES ASSUME NEW u \in User \ WithFactor
               PROVE  fails'[u].n + Cardinality(UnderWay(u)') <= Limit - 1 + Cardinality(Request)
    BY DEF FailuresLimited
  <2>1. UnderWay(u)' = UnderWay(u)
    BY <1>1 DEF UnderWay
  <2>2. IsFiniteSet(UnderWay(u)) /\ Cardinality(UnderWay(u)) \in Nat /\ Cardinality(Request) \in Nat
    <3>1. UnderWay(u) \in SUBSET Request
      BY DEF UnderWay
    <3> QED
      BY <3>1, ThrottleAssumption, FS_Subset, FS_CardinalityType
  <2>3. fails'[u].n \in Nat /\ fails[u].n \in Nat /\ fails'[u].n <= fails[u].n /\ Limit \in Nat
    BY <1>4, ThrottleAssumption DEF SessionsInv, FailRows, Sessions!FailRow, Sessions!Key
  <2>4. fails[u].n + Cardinality(UnderWay(u)) <= Limit - 1 + Cardinality(Request)
    BY DEF SessionsInv, FailuresLimited
  <2> QED
    BY <2>1, <2>2, <2>3, <2>4
<1> QED
  BY <1>1, <1>2, <1>3, <1>4, <1>5, <1>6 DEF SessionsInv, RequestsFit

-----------------------------------------------------------------------------

LEMMA InitialSessions == Sessions!Init => SessionsInv
<1> SUFFICES ASSUME Sessions!Init PROVE SessionsInv
  OBVIOUS
<1>1. clock \in Nat \ {0} /\ SessionRows /\ PendingRows
  BY DEF Sessions!Init, SessionRows, PendingRows, Minted, Sessions!Unused, Sessions!SessionRow,
         Sessions!PendingRow, Sessions!Nobody, Sessions!Never
<1>2. FailRows
  BY DEF Sessions!Init, FailRows, Sessions!FailRow, Sessions!Never
<1>3. \A r \in Request : request[r] = Sessions!Free
  BY DEF Sessions!Init
<1>4. RequestsFit /\ CodesSpent
  BY <1>3, FreeFits DEF Sessions!Init, RequestsFit, CodesSpent, Fits, Sessions!At
<1>5. FailuresLimited
  <2> SUFFICES ASSUME NEW u \in User \ WithFactor
               PROVE  fails[u].n + Cardinality(UnderWay(u)) <= Limit - 1 + Cardinality(Request)
    BY DEF FailuresLimited
  <2>1. fails[u].n = 0
    BY DEF Sessions!Init, Sessions!Key
  <2>2. UnderWay(u) = {}
    BY <1>3, FreeFits DEF UnderWay, MayCount
  <2>3. Cardinality({}) = 0 /\ Cardinality(Request) \in Nat
    BY FS_EmptySet, FS_CardinalityType, ThrottleAssumption
  <2> QED
    BY <2>1, <2>2, <2>3, ThrottleAssumption
<1> QED
  BY <1>1, <1>2, <1>4, <1>5 DEF SessionsInv

LEMMA SessionsKeep ==
  ASSUME SessionsInv, [Sessions!Next]_(Sessions!vars)
  PROVE  SessionsInv'
<1>1. ASSUME NEW r \in Request, Sessions!Step(r) PROVE SessionsInv'
  BY <1>1, LoadKeeps, ServeKeeps, AttemptKeeps, CountKeeps, ClearKeeps, IssueKeeps,
     SpendKeeps, CodeKeeps DEF Sessions!Step
<1>2. ASSUME UNCHANGED <<clock, session, pending, fails, request>> PROVE SessionsInv'
  BY <1>2 DEF SessionsInv, SessionRows, PendingRows, FailRows, RequestsFit, CodesSpent,
              FailuresLimited, UnderWay, Sessions!Live, Sessions!At, Spent
<1> QED
  BY <1>1, <1>2, TickKeeps DEF Sessions!Next, Sessions!SetActive, Sessions!vars

(* What the whole does to the sessions, they do.                            *)
LEMMA SessionsAlone == Spec => Sessions!Spec
<1>1. Init => Sessions!Init
  BY DEF Init
<1>2. [Next]_vars => [Sessions!Next]_(Sessions!vars)
  BY DEF Next, Only, vars, Sessions!vars
<1> QED
  BY <1>1, <1>2, PTL DEF Spec, Sessions!Spec

(* application/{sessions,login,throttle}.py: what a request holds between   *)
(* two statements fits the rows it came from.                               *)
THEOREM SessionsSafety == Spec => []SessionsInv
BY InitialSessions, SessionsKeep, SessionsAlone, PTL DEF Sessions!Spec

(* sessions.py:142: however many requests present a pending token, one of   *)
(* them looks at a code with it.                                            *)
THEOREM OneGuessPerTokenHolds == Spec => []OneGuessPerToken
<1>1. SessionsInv => OneGuessPerToken
  BY DEF SessionsInv, CodesSpent, OneGuessPerToken, Sessions!OneGuessPerToken
<1> QED
  BY SessionsSafety, <1>1, PTL

(* throttle.py:13: the failures of an account exceed the limit of a window  *)
(* by at most the attempts that were under way together.                    *)
THEOREM FailuresBoundedHolds == Spec => []FailuresBounded
<1>1. SessionsInv => FailuresBounded
  <2> SUFFICES ASSUME SessionsInv, NEW u \in User \ WithFactor
               PROVE  fails[u].n <= Limit - 1 + Cardinality(Request)
    BY DEF FailuresBounded, Sessions!FailuresBounded, Sessions!Cardinality, Cardinality
  <2>1. UnderWay(u) \in SUBSET Request
    BY DEF UnderWay
  <2>2. Cardinality(UnderWay(u)) \in Nat /\ Cardinality(Request) \in Nat
    BY <2>1, ThrottleAssumption, FS_Subset, FS_CardinalityType
  <2>3. fails[u].n \in Nat
    BY DEF SessionsInv, FailRows, Sessions!FailRow, Sessions!Key
  <2>4. fails[u].n + Cardinality(UnderWay(u)) <= Limit - 1 + Cardinality(Request)
    BY DEF SessionsInv, FailuresLimited
  <2> QED
    BY <2>2, <2>3, <2>4, ThrottleAssumption
<1> QED
  BY SessionsSafety, <1>1, PTL

(* sessions.py:89: a session that ended is never written back by a request  *)
(* that had read it before: its deadline stays behind the clock.            *)
THEOREM EndedStaysEndedHolds == Spec => EndedStaysEnded
<1> DEFINE Over(s) == session[s] # Sessions!Unused /\ ~Sessions!Live(session[s])
           Stays(s) == Over(s) => session'[s].until <= clock'
<1>1. ASSUME SessionsInv, [Sessions!Next]_(Sessions!vars), NEW s \in Session, Over(s)
      PROVE  session'[s].until <= clock'
  <2>1. clock \in Nat /\ session[s].until \in Nat /\ session[s].until <= clock
        /\ session \in [Session -> Sessions!SessionRow]
    BY <1>1 DEF SessionsInv, SessionRows, Sessions!SessionRow, Sessions!Live
  <2>2. ASSUME session' = session, clock' = clock PROVE session'[s].until <= clock'
    BY <2>1, <2>2
  <2>3. ASSUME NEW other, Sessions!Discard(other), clock' = clock PROVE session'[s].until <= clock'
    <3>1. session' = [session EXCEPT ![other] = [session[other] EXCEPT !.until = 0]]
      BY <2>3 DEF Sessions!Discard, Sessions!Never
    <3> QED
      BY <2>1, <2>3, <3>1 DEF Sessions!SessionRow
  <2>4. ASSUME NEW other, NEW entry, Sessions!Replace(other, entry), clock' = clock
        PROVE  session'[s].until <= clock'
    <3>1. CASE s = other
      <4>1. session' = session
        BY <1>1, <2>4, <3>1 DEF Sessions!Replace
      <4> QED
        BY <2>2, <2>4, <4>1
    <3>2. CASE s # other
      <4>1. session'[s] = session[s]
        BY <2>1, <2>4, <3>2 DEF Sessions!Replace
      <4> QED
        BY <2>1, <2>4, <4>1
    <3> QED
      BY <3>1, <3>2
  <2>5. ASSUME NEW u, NEW stamp, Sessions!Mint(u, stamp), clock' = clock
        PROVE  session'[s].until <= clock'
    <3>1. session'[s] = session[s]
      BY <1>1, <2>1, <2>5 DEF Sessions!Mint
    <3> QED
      BY <2>1, <2>5, <3>1
  <2>6. CASE Sessions!Tick
    <3>1. session'[s] = Sessions!Swept(session[s]) /\ clock' = clock + 1
      BY <2>6 DEF Sessions!Tick
    <3>2. ~(session[s].until > clock')
      BY <2>1, <3>1
    <3>3. Sessions!Swept(session[s]) = [session[s] EXCEPT !.until = 0]
      BY <3>2 DEF Sessions!Swept, Sessions!Never
    <3> QED
      BY <2>1, <3>1, <3>3 DEF Sessions!SessionRow
  <2>7. ASSUME NEW r \in Request, Sessions!Step(r) PROVE session'[s].until <= clock'
    <3>1. CASE (\E t \in Session : Sessions!LoadRead(r, t)) \/ Sessions!LoadUser(r) \/ Sessions!Serve(r)
      BY <2>2, <2>3, <3>1 DEF Sessions!LoadRead, Sessions!LoadUser, Sessions!Serve
    <3>2. CASE Sessions!LoadExtend(r) \/ Sessions!MarkRead(r) \/ Sessions!MarkWrite(r)
      BY <2>2, <2>4, <3>2 DEF Sessions!LoadExtend, Sessions!MarkRead, Sessions!MarkWrite
    <3>3. CASE Sessions!Issue(r) \/ Sessions!CheckCode(r)
      BY <2>2, <2>5, <3>3 DEF Sessions!Issue, Sessions!CheckCode
    <3>4. CASE \/ (\E u \in User : Sessions!Attempt(r, u)) \/ (\E t \in Token : Sessions!SpendPending(r, t))
               \/ Sessions!Allows(r) \/ Sessions!Verify(r) \/ Sessions!CountFailure(r)
               \/ Sessions!ClearFailures(r) \/ Sessions!Abandon(r)
      BY <2>2, <3>4 DEF Sessions!Attempt, Sessions!SpendPending, Sessions!Allows, Sessions!Verify,
                        Sessions!CountFailure, Sessions!ClearFailures, Sessions!Abandon
    <3> QED
      BY <2>7, <3>1, <3>2, <3>3, <3>4 DEF Sessions!Step
  <2> QED
    BY <1>1, <2>2, <2>6, <2>7 DEF Sessions!Next, Sessions!SetActive, Sessions!vars
<1>2. SessionsInv /\ [Sessions!Next]_(Sessions!vars) =>
        [\A s \in Session : Stays(s)]_(Sessions!vars)
  BY <1>1
<1>3. Sessions!Spec => Sessions!EndedStaysEnded
  BY <1>2, InitialSessions, SessionsKeep, PTL DEF Sessions!Spec, Sessions!EndedStaysEnded
<1> QED
  BY <1>3, SessionsAlone, PTL DEF EndedStaysEnded

=============================================================================
