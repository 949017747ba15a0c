------------------------- MODULE NotificationOutbox -------------------------
(***************************************************************************)
(* The email rows of the notification outbox and the dispatchers of the    *)
(* portal processes that mail them: notify/dispatch.py.                    *)
(*                                                                         *)
(* A claim is a lease on a row; the send happens outside any transaction,  *)
(* and its outcome is written by the row's id. A send that is alive takes  *)
(* at most SendTime ticks, because httpx bounds each of its four phases;   *)
(* the code makes the lease longer (dispatch.py:28). Nothing bounds the    *)
(* write of the outcome: it may come after the lease ran out, while        *)
(* another dispatcher has the row, and it is written all the same.         *)
(***************************************************************************)
EXTENDS Naturals

CONSTANTS
    Mail,       \* rows of portal_notification_outbox
    Dispatcher, \* portal processes
    SendTime,   \* bound on the recipient's lookup and a live send, in ticks:
                \* 4 * SEND_TIMEOUT_SECONDS and a margin
    Lease,      \* CLAIM_LEASE_SECONDS, longer than SendTime
    Backoff,    \* RETRY_BACKOFF_SECONDS
    LastMinute  \* bound: the clock

VARIABLES
    minute,     \* the database's clock
    mail,       \* the rows: state and available_at
    dispatcher, \* what each dispatcher is doing, with which row, since when
    accepted,   \* how often the mail provider accepted a row's message
    unsure      \* rows whose outcome was not on record when it should have
                \* been: the answer was lost, the dispatcher died before it
                \* wrote the outcome, or the write outlived the lease

vars == <<minute, mail, dispatcher, accepted, unsure>>

Waiting == [at |-> "idle", of |-> CHOOSE m \in Mail : TRUE, since |-> 0]

TypeOK ==
    /\ minute \in 0..LastMinute
    /\ mail \in [Mail -> [state : {"pending", "sending", "sent"}, due : Nat]]
    /\ dispatcher \in [Dispatcher ->
            [at : {"idle", "send", "sent", "failed"}, of : Mail, since : Nat]]
    /\ accepted \in [Mail -> Nat]
    /\ unsure \subseteq Mail

Init ==
    /\ minute = 0
    /\ mail = [m \in Mail |-> [state |-> "pending", due |-> 0]]
    /\ dispatcher = [d \in Dispatcher |-> Waiting]
    /\ accepted = [m \in Mail |-> 0]
    /\ unsure = {}

-----------------------------------------------------------------------------

Due == {m \in Mail : mail[m].state # "sent" /\ mail[m].due <= minute}

(* The claim that a dispatcher without leases would make.                   *)
ClaimUnleased(d) ==
    /\ dispatcher[d].at = "idle"
    /\ \E m \in Due :
         /\ mail' = [mail EXCEPT ![m].state = "sending"]
         /\ dispatcher' = [dispatcher EXCEPT ![d] = [at |-> "send", of |-> m, since |-> minute]]
    /\ UNCHANGED <<minute, accepted, unsure>>

(* _CLAIM_DUE_EMAIL: the longest due row becomes due again with its lease;  *)
(* a row that another claim holds locked is skipped.                        *)
ClaimDue(d) ==
    /\ dispatcher[d].at = "idle"
    /\ \E m \in Due :
         /\ \A n \in Due : mail[m].due <= mail[n].due
         /\ mail' = [mail EXCEPT ![m] = [state |-> "sending", due |-> minute + Lease]]
         /\ dispatcher' = [dispatcher EXCEPT ![d] = [at |-> "send", of |-> m, since |-> minute]]
    /\ UNCHANGED <<minute, accepted, unsure>>

(* mailer.send: accepted and answered, accepted with the answer lost, or    *)
(* not accepted; a row without a recipient counts as sent.                  *)
Send(d) ==
    /\ dispatcher[d].at = "send"
    /\ LET m == dispatcher[d].of
           Then(at) == dispatcher' = [dispatcher EXCEPT ![d].at = at]
           Accept == accepted' = [accepted EXCEPT ![m] = @ + 1] IN
         \/ Then("sent") /\ Accept /\ UNCHANGED unsure
         \/ Then("failed") /\ Accept /\ unsure' = unsure \cup {m}
         \/ Then("failed") /\ UNCHANGED <<accepted, unsure>>
         \/ Then("sent") /\ UNCHANGED <<accepted, unsure>>
    /\ UNCHANGED <<minute, mail>>

(* _record_outcome, by the row's id whoever has the row by now: a late      *)
(* failure puts a row that was mailed meanwhile up for another send.        *)
RecordOutcome(d) ==
    /\ dispatcher[d].at \in {"sent", "failed"}
    /\ mail' = [mail EXCEPT ![dispatcher[d].of] =
                    IF dispatcher[d].at = "sent" THEN [state |-> "sent", due |-> minute]
                    ELSE [state |-> "pending", due |-> minute + Backoff]]
    /\ dispatcher' = [dispatcher EXCEPT ![d] = Waiting]
    /\ UNCHANGED <<minute, accepted, unsure>>

(* The process dies and another one starts.                                 *)
DispatcherDies(d) ==
    /\ dispatcher[d].at # "idle"
    /\ unsure' = IF dispatcher[d].at = "sent" THEN unsure \cup {dispatcher[d].of} ELSE unsure
    /\ dispatcher' = [dispatcher EXCEPT ![d] = Waiting]
    /\ UNCHANGED <<minute, mail, accepted>>

(* Dispatchers with an outcome to write whose lease runs out at time t.     *)
Overdue(t) == {d \in Dispatcher : /\ dispatcher[d].at \in {"sent", "failed"}
                                  /\ dispatcher[d].since + Lease <= t}

(* Time waits for the calls that httpx bounds and for no write.             *)
MinutePasses ==
    /\ minute < LastMinute
    /\ \A d \in Dispatcher :
         dispatcher[d].at = "send" => minute < dispatcher[d].since + SendTime
    /\ minute' = minute + 1
    /\ unsure' = unsure \cup {dispatcher[d].of : d \in Overdue(minute + 1)}
    /\ UNCHANGED <<mail, dispatcher, accepted>>

-----------------------------------------------------------------------------

Next ==
    \/ \E d \in Dispatcher :
         ClaimDue(d) \/ Send(d) \/ RecordOutcome(d) \/ DispatcherDies(d)
    \/ MinutePasses

Spec == Init /\ [][Next]_vars

-----------------------------------------------------------------------------

(* dispatch.py:28: dispatchers that overlap and retry mail a row once, but  *)
(* for the rows whose acceptance never reached a dispatcher that lived, and *)
(* those whose outcome was still to be written when their lease ran out.    *)
MailedOnce == \A m \in Mail \ unsure : accepted[m] <= 1

=============================================================================
