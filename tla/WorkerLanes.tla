---------------------------- MODULE WorkerLanes ----------------------------
(***************************************************************************)
(* The worker agent, packages/portal/portal/worker/agent.py, and the       *)
(* fleet-wide proxy slots of repository/slots.py.                          *)
(*                                                                         *)
(* A worker process runs a fixed number of lanes. Its dispatch loop claims *)
(* work for the lanes that wait and puts it into their inboxes. A lane     *)
(* reveals the credential of its work, leases a proxy slot from the table  *)
(* all workers share, and looks the document up through a proxy session on *)
(* that slot. It keeps session and slot from one piece of work to the next *)
(* while source and credential version stay the same. A heartbeat renews   *)
(* the slots the lanes hold; an unrenewed lease lapses.                    *)
(*                                                                         *)
(* Each action runs from one await of the code to the next. A key stands   *)
(* for a (source, credential version) pair; the work itself belongs to     *)
(* JobQueue.                                                               *)
(***************************************************************************)
EXTENDS Integers, FiniteSets

CONSTANTS
    Worker,       \* worker ids
    Lane,         \* lane numbers, counted from 1
    Concurrency,  \* how many lanes a worker runs
    Key,          \* (source, credential version) pairs work may have
    Serves,       \* the keys of the sources a worker was started for
    Provider,     \* proxy providers
    Pooled,       \* providers with a shared slot pool
    ProviderOf,   \* the provider of a key's credential
    SlotId,       \* slots of a pooled provider
    Nobody, None, \* worker_id IS NULL; None of Python
    IdleLimit,    \* IDLE_SESSION_CLOSE_AFTER
    PollCap,      \* bound on the counted idle polls, for TLC
    Timely,       \* whether heartbeats always arrive before a lease lapses
    RepliesLost   \* whether the reply to a committed statement may be lost

ASSUME SlotAssumption == SlotId \subseteq Nat /\ Lane \subseteq Nat
ASSUME OptionsAssumption ==
    /\ Concurrency \in [Worker -> Nat]
    /\ Serves \in [Worker -> SUBSET Key]
(* portal_proxy_slots_provider_supported admits one provider.               *)
ASSUME PoolAssumption ==
    /\ Pooled \subseteq Provider /\ ProviderOf \in [Key -> Provider]
    /\ \A p, q \in Pooled : p = q
ASSUME AbsentAssumption ==
    /\ Nobody \notin Worker
    /\ None \notin Key /\ None \notin (Provider \X Nat) /\ None \notin (Key \X (Provider \X Nat))
ASSUME BoundAssumption == IdleLimit \in Nat \ {0} /\ PollCap \in Nat
ASSUME FaultAssumption == Timely \in BOOLEAN /\ RepliesLost \in BOOLEAN

VARIABLES
    row,      \* portal_proxy_slots
    pc,       \* where a lane is
    after,    \* where it goes on once it has given up session and slot
    inbox,    \* its queue of at most one piece of work
    work,     \* the work it took
    key,      \* LaneSession.key
    provider, \* LaneSession.provider: the key whose credential it was built from
    session,  \* LaneSession.state.session: key and slot it was opened with
    held,     \* LaneSession.held_slot_provider and held_slot
    polls,    \* LaneSession.idle_polls
    idle,     \* WorkerAgent._idle_lanes
    batch,    \* the idle lanes a dispatch round still has to serve
    unsure    \* history: lanes whose lease may be gone without their knowing

lanes == <<pc, after, inbox, work, key, provider, session, held, polls, idle>>
vars == <<row, lanes, batch, unsure>>

-----------------------------------------------------------------------------

L == {l \in Worker \X Lane : l[2] <= Concurrency[l[1]]}
Slot == Provider \X Nat
Row == Pooled \X SlotId
LanesOf(w) == {l \in L : l[1] = w}

Free == [worker |-> Nobody, lane |-> 0, lapsed |-> FALSE]

TypeOK ==
    /\ row \in [Row -> [worker : Worker \cup {Nobody}, lane : Nat, lapsed : BOOLEAN]]
    /\ pc \in [L -> {"down", "wait", "close", "release", "reveal", "slot", "run"}]
    /\ after \in [L -> {"wait", "reveal", "exit"}]
    /\ inbox \in [L -> Key \cup {None}]
    /\ work \in [L -> Key \cup {None}]
    /\ key \in [L -> Key \cup {None}]
    /\ provider \in [L -> Key \cup {None}]
    /\ session \in [L -> (Key \X Slot) \cup {None}]
    /\ held \in [L -> Slot \cup {None}]
    /\ polls \in [L -> 0..PollCap]
    /\ idle \in SUBSET L
    /\ batch \in [Worker -> SUBSET L]
    /\ unsure \in SUBSET L

Init ==
    /\ row = [s \in Row |-> Free]
    /\ pc = [l \in L |-> "down"]
    /\ after = [l \in L |-> "wait"]
    /\ inbox = [l \in L |-> None]
    /\ work = [l \in L |-> None]
    /\ key = [l \in L |-> None]
    /\ provider = [l \in L |-> None]
    /\ session = [l \in L |-> None]
    /\ held = [l \in L |-> None]
    /\ polls = [l \in L |-> 0]
    /\ idle = {}
    /\ batch = [w \in Worker |-> {}]
    /\ unsure = {}

-----------------------------------------------------------------------------
(* The process *)

Running(w) == \E l \in LanesOf(w) : pc[l] # "down"

(* Every lane starts with a fresh LaneSession and joins the idle lanes.     *)
Start(w) ==
    /\ ~Running(w)
    /\ pc' = [l \in L |-> IF l[1] = w THEN "wait" ELSE pc[l]]
    /\ idle' = idle \cup LanesOf(w)
    /\ UNCHANGED <<row, after, inbox, work, key, provider, session, held, polls,
                   batch, unsure>>

(* The memory of the lanes G is gone.                                       *)
Forget(G) ==
    /\ pc' = [l \in L |-> IF l \in G THEN "down" ELSE pc[l]]
    /\ after' = [l \in L |-> IF l \in G THEN "wait" ELSE after[l]]
    /\ inbox' = [l \in L |-> IF l \in G THEN None ELSE inbox[l]]
    /\ work' = [l \in L |-> IF l \in G THEN None ELSE work[l]]
    /\ key' = [l \in L |-> IF l \in G THEN None ELSE key[l]]
    /\ provider' = [l \in L |-> IF l \in G THEN None ELSE provider[l]]
    /\ session' = [l \in L |-> IF l \in G THEN None ELSE session[l]]
    /\ held' = [l \in L |-> IF l \in G THEN None ELSE held[l]]
    /\ polls' = [l \in L |-> IF l \in G THEN 0 ELSE polls[l]]
    /\ idle' = idle \ G

(* The process is killed.                                                   *)
Crash(w) ==
    /\ Running(w)
    /\ Forget(LanesOf(w))
    /\ batch' = [batch EXCEPT ![w] = {}]
    /\ unsure' = unsure \ LanesOf(w)
    /\ UNCHANGED row

(* SIGTERM, or a task that ended: run_with cancels every task, and each     *)
(* lane gives up its session and slot on its way out.                       *)
Stop(w) ==
    /\ Running(w)
    /\ LET up == {l \in LanesOf(w) : pc[l] # "down" /\ after[l] # "exit"} IN
         /\ up # {}
         /\ pc' = [l \in L |-> IF l \in up THEN "close" ELSE pc[l]]
         /\ after' = [l \in L |-> IF l \in up THEN "exit" ELSE after[l]]
         /\ idle' = idle \ up
    /\ batch' = [batch EXCEPT ![w] = {}]
    /\ UNCHANGED <<row, inbox, work, key, provider, session, held, polls, unsure>>

-----------------------------------------------------------------------------
(* The dispatch loop *)

(* _dispatch_once reads the idle lanes before it awaits the first claim.    *)
Poll(w) ==
    /\ batch[w] = {}
    /\ idle \cap LanesOf(w) # {}
    /\ batch' = [batch EXCEPT ![w] = idle \cap LanesOf(w)]
    /\ UNCHANGED <<row, lanes, unsure>>

StaysIdle(l) == idle
NoLongerIdle(l) == idle \ {l}

(* _assign, for one lane.                                                   *)
Assign(w, l, k) ==
    /\ l \in batch[w]
    /\ inbox' = [inbox EXCEPT ![l] = k]
    /\ idle' = NoLongerIdle(l)
    /\ polls' = [polls EXCEPT ![l] = 0]
    /\ batch' = [batch EXCEPT ![w] = @ \ {l}]
    /\ UNCHANGED <<row, pc, after, work, key, provider, session, held, unsure>>

(* No more work: the lanes left over count an idle poll.                    *)
EndPoll(w) ==
    /\ batch[w] # {}
    /\ polls' = [l \in L |-> IF l \in batch[w] /\ polls[l] < PollCap
                               THEN polls[l] + 1 ELSE polls[l]]
    /\ batch' = [batch EXCEPT ![w] = {}]
    /\ UNCHANGED <<row, pc, after, inbox, work, key, provider, session, held, idle, unsure>>

(* A claim of work fails; no lane counts the round.                         *)
PollFails(w) ==
    /\ batch[w] # {}
    /\ batch' = [batch EXCEPT ![w] = {}]
    /\ UNCHANGED <<row, lanes, unsure>>

-----------------------------------------------------------------------------
(* A lane *)

(* The top of the lane loop: join the idle lanes, and close a session that  *)
(* has idled too long.                                                      *)
ToTop(l) ==
    /\ idle' = idle \cup {l}
    /\ work' = [work EXCEPT ![l] = None]
    /\ IF provider[l] # None /\ polls[l] >= IdleLimit
         THEN pc' = [pc EXCEPT ![l] = "close"] /\ after' = [after EXCEPT ![l] = "wait"]
         ELSE pc' = [pc EXCEPT ![l] = "wait"] /\ UNCHANGED after

(* queue.get() returns; _adopt gives up the session of another key.         *)
KeepsSession(l) == FALSE
MustClose(l) == key[l] # None /\ key[l] # inbox[l]

Take(l) ==
    /\ pc[l] = "wait" /\ inbox[l] # None
    /\ work' = [work EXCEPT ![l] = inbox[l]]
    /\ inbox' = [inbox EXCEPT ![l] = None]
    /\ pc' = [pc EXCEPT ![l] = IF MustClose(l) THEN "close" ELSE "reveal"]
    /\ after' = [after EXCEPT ![l] = "reveal"]
    /\ UNCHANGED <<row, key, provider, session, held, polls, idle, batch, unsure>>

(* close_session forgets the session before it awaits anything, so an error *)
(* leaves it forgotten too.                                                 *)
CloseSession(l) ==
    /\ pc[l] = "close"
    /\ session' = [session EXCEPT ![l] = IF provider[l] = None THEN @ ELSE None]
    /\ pc' = [pc EXCEPT ![l] = "release"]
    /\ UNCHANGED <<row, after, inbox, work, key, provider, held, polls, idle, batch, unsure>>

(* Where a lane goes on after _close_and_release.                           *)
GoOn(l) ==
    IF after[l] = "exit" THEN Forget({l})
    ELSE /\ pc' = [pc EXCEPT ![l] = after[l]]
         /\ key' = [key EXCEPT ![l] = IF after[l] = "wait" THEN None ELSE @]
         /\ provider' = [provider EXCEPT ![l] = IF after[l] = "wait" THEN None ELSE @]
         /\ UNCHANGED <<after, inbox, work, session, polls, idle>>

ReleasedByAnyone(l) == [s \in Row |-> IF s = held[l] THEN Free ELSE row[s]]
(* _RELEASE matches the worker, not the lane.                               *)
Released(l) ==
    [s \in Row |-> IF s = held[l] /\ row[s].worker = l[1] THEN Free ELSE row[s]]

(* The lanes that own row s and count on it.                                *)
Leaseholder(s) == {l \in L : held[l] = s /\ l = <<row[s].worker, row[s].lane>>}
(* A lane that releases a row a second time, or after its lease lapsed, may *)
(* free it under another lane of its worker, which does not hear of it.     *)
Robbed(l) ==
    IF held[l] \in Row THEN (Leaseholder(held[l]) \cap LanesOf(l[1])) \ {l} ELSE {}

(* Nothing to release, or the release succeeded.                            *)
ReleaseSlot(l) ==
    /\ pc[l] = "release"
    /\ row' = Released(l)
    /\ unsure' = (unsure \cup Robbed(l)) \ {l}
    /\ GoOn(l)
    /\ after[l] # "exit" => held' = [held EXCEPT ![l] = None]
    /\ UNCHANGED batch

(* The release failed, or its reply was lost: the lane keeps its claim.     *)
ReleaseFails(l) ==
    /\ pc[l] = "release"
    /\ held[l] \in Row
    /\ LET gone == IF after[l] = "exit" THEN {l} ELSE {} IN
         \/ row' = row /\ unsure' = unsure \ gone
         \/ /\ RepliesLost
            /\ row' = Released(l)
            /\ unsure' = (unsure \cup Robbed(l) \cup {l}) \ gone
    /\ GoOn(l)
    /\ after[l] # "exit" => UNCHANGED held
    /\ UNCHANGED batch

(* The end of _adopt. *)
Adopted(l) ==
    /\ key' = [key EXCEPT ![l] = work[l]]
    /\ provider' = [provider EXCEPT ![l] = work[l]]
    /\ polls' = [polls EXCEPT ![l] = 0]
    /\ pc' = [pc EXCEPT ![l] = "run"]

(* The credential is cached or revealed. A lane that holds a slot keeps it; *)
(* a provider without a pool gets the lane number.                          *)
Reveal(l) ==
    /\ pc[l] = "reveal"
    /\ IF held[l] = None /\ ProviderOf[work[l]] \in Pooled
         THEN /\ pc' = [pc EXCEPT ![l] = "slot"]
              /\ UNCHANGED <<key, provider, polls, held>>
         ELSE /\ Adopted(l)
              /\ held' = [held EXCEPT ![l] =
                            IF @ = None THEN <<ProviderOf[work[l]], l[2]>> ELSE @]
    /\ UNCHANGED <<row, after, inbox, work, session, idle, batch, unsure>>

ClaimableAny(p) == {s \in Row : s[1] = p}
Claimable(p) == {s \in Row : s[1] = p /\ (row[s].worker = Nobody \/ row[s].lapsed)}
Claimed(s, l) == [row EXCEPT ![s] = [worker |-> l[1], lane |-> l[2], lapsed |-> FALSE]]
FirstOf(S) == {s \in S : \A t \in S : s[2] <= t[2]}

(* The lowest slot that nobody leases. Without one the lane sleeps.         *)
ClaimSlot(l) ==
    /\ pc[l] = "slot"
    /\ \E s \in FirstOf(Claimable(ProviderOf[work[l]])) :
         /\ row' = Claimed(s, l)
         /\ held' = [held EXCEPT ![l] = s]
    /\ Adopted(l)
    /\ UNCHANGED <<after, inbox, work, session, idle, batch, unsure>>

(* A refused or failed reveal, a failed claim of a slot, a failed publish,  *)
(* or an unexpected status: the work is left to its lease.                  *)
LaneFails(l) ==
    /\ pc[l] \in {"reveal", "slot", "run"}
    /\ \/ row' = row
       \/ /\ RepliesLost
          /\ pc[l] = "slot"
          /\ \E s \in FirstOf(Claimable(ProviderOf[work[l]])) : row' = Claimed(s, l)
    /\ ToTop(l)
    /\ UNCHANGED <<inbox, key, provider, session, held, polls, batch, unsure>>

(* fetch_one opens a session when there is none, may close or replace it,   *)
(* always on the slot and with the provider of the lane.                    *)
Fetch(l) ==
    /\ pc[l] = "run"
    /\ session' \in {[session EXCEPT ![l] = None],
                     [session EXCEPT ![l] = IF @ = None THEN <<provider[l], held[l]>> ELSE @]}
    /\ UNCHANGED <<row, pc, after, inbox, work, key, provider, held, polls, idle, batch, unsure>>

(* The result is published. *)
Finish(l) ==
    /\ pc[l] = "run"
    /\ ToTop(l)
    /\ UNCHANGED <<row, inbox, key, provider, session, held, polls, batch, unsure>>

-----------------------------------------------------------------------------
(* Leases *)

AnyRowOf(w) == {s \in Row : row[s].worker = w}
(* The rows a heartbeat renews: those the lanes hold and the worker owns.   *)
Renewed(w) == {s \in Row : row[s].worker = w /\ \E l \in LanesOf(w) : held[l] = s}

Heartbeat(w) ==
    /\ Running(w)
    /\ row' = [s \in Row |-> IF s \in Renewed(w) THEN [row[s] EXCEPT !.lapsed = FALSE]
                             ELSE row[s]]
    /\ UNCHANGED <<lanes, batch, unsure>>

(* The process is gone, or no heartbeat of it names the row.                *)
Unrenewed(s) == ~Running(row[s].worker) \/ s \notin Renewed(row[s].worker)

(* LEASE_TTL passes without a renewal of the row.                           *)
Lapse(s) ==
    /\ row[s].worker # Nobody /\ ~row[s].lapsed
    /\ Timely => Unrenewed(s)
    /\ row' = [row EXCEPT ![s].lapsed = TRUE]
    /\ unsure' = unsure \cup Leaseholder(s)
    /\ UNCHANGED <<lanes, batch>>

-----------------------------------------------------------------------------

LaneStep(l) ==
    \/ Take(l) \/ CloseSession(l) \/ ReleaseSlot(l) \/ ReleaseFails(l)
    \/ Reveal(l) \/ ClaimSlot(l) \/ LaneFails(l) \/ Fetch(l) \/ Finish(l)

Next ==
    \/ \E w \in Worker : 
           Start(w) \/ Crash(w) \/ Stop(w) \/ Poll(w) \/ EndPoll(w) \/ PollFails(w) \/ Heartbeat(w)
    \/ \E w \in Worker : \E l \in LanesOf(w), k \in Serves[w] : Assign(w, l, k)
    \/ \E l \in L : LaneStep(l)
    \/ \E s \in Row : Lapse(s)

Spec == Init /\ [][Next]_vars

-----------------------------------------------------------------------------
(* Safety *)

(* slots.py:13, agent.py:476: what a lane believes to hold is its own in    *)
(* the table unless its lease lapsed, the reply to its own release was      *)
(* lost, or another lane of the same worker released the slot again, which  *)
(* that statement cannot tell from the lane's own. No worker ever takes a   *)
(* slot from another worker's lane.                                         *)
LeaseKnown ==
    \A l \in L : held[l] \in Row /\ l \notin unsure =>
        row[held[l]].worker = l[1] /\ row[held[l]].lane = l[2]

(* What the table is for: two lanes use one slot at the same time only if   *)
(* one of them lost its lease, in one of those three ways, without knowing. *)
Uses(l, s) == held[l] = s /\ (pc[l] = "run" \/ session[l] # None)
OneLanePerSlot ==
    \A s \in Row : \A a, b \in L \ unsure : Uses(a, s) /\ Uses(b, s) => a = b
SlotsExclusive == \A s \in Row : \A a, b \in L : Uses(a, s) /\ Uses(b, s) => a = b

(* A proxy session is always open on the slot its lane holds, and it is     *)
(* closed with the provider it was opened with; a session of a pooled       *)
(* provider sits on a slot of that provider.                                *)
SessionOnHeldSlot ==
    \A l \in L : session[l] # None =>
        /\ held[l] = session[l][2]
        /\ provider[l] = session[l][1] /\ key[l] = provider[l]
        /\ ProviderOf[provider[l]] \in Pooled => held[l][1] = ProviderOf[provider[l]]

(* put_nowait never meets a full queue, which would end the dispatch loop:  *)
(* a lane the dispatch loop takes for idle waits with an empty inbox.       *)
IdleInboxEmpty ==
    \A w \in Worker : \A l \in (idle \cap LanesOf(w)) \cup batch[w] :
        inbox[l] = None /\ pc[l] = "wait"

-----------------------------------------------------------------------------
(* The inductive invariant *)

(* A process that is down remembers nothing; a lane that is leaving is past *)
(* its loop.                                                                *)
DownIsBlank ==
    \A l \in L :
        /\ pc[l] = "down" =>
             /\ inbox[l] = None /\ key[l] = None /\ provider[l] = None
             /\ session[l] = None /\ held[l] = None /\ polls[l] = 0 /\ after[l] = "wait"
        /\ after[l] = "exit" => pc[l] \in {"close", "release"}

(* Idle polls are counted only while a lane waits, and are gone when it     *)
(* comes back to the top of its loop: no lane ever closes a session because *)
(* it idled.                                                                *)
IdlePollsForgotten ==
    \A l \in L :
        /\ polls[l] > 0 => after[l] = "exit" \/ (pc[l] = "wait" /\ inbox[l] = None)
        /\ pc[l] \in {"close", "release"} => after[l] # "wait"

BatchIsIdle ==
    /\ \A w \in Worker : batch[w] \subseteq idle \cap LanesOf(w)
    /\ \A l \in idle : pc[l] = "wait" /\ inbox[l] = None
    /\ \A l \in L : inbox[l] # None => pc[l] = "wait" \/ after[l] = "exit"

(* What a lane keeps from one piece of work to the next.                    *)
LaneKeeps ==
    \A l \in L :
        /\ pc[l] \in {"reveal", "slot", "run"} => work[l] \in Key
        /\ pc[l] \in {"close", "release"} /\ after[l] = "reveal" => work[l] \in Key
        /\ pc[l] \in {"release", "slot"} => session[l] = None
        /\ pc[l] = "slot" => held[l] = None
        /\ pc[l] = "reveal" /\ session[l] # None => key[l] = work[l]
        /\ pc[l] = "reveal" /\ held[l] # None /\ held[l][1] \notin Pooled => key[l] = work[l]
        /\ pc[l] = "run" => held[l] # None /\ provider[l] = work[l] /\ key[l] = work[l]
        /\ held[l] # None /\ held[l][1] \in Pooled => held[l] \in Row
        /\ held[l] # None /\ held[l][1] \notin Pooled =>
             key[l] # None /\ held[l][1] = ProviderOf[key[l]]

LanesInv ==
    TypeOK /\ DownIsBlank /\ IdlePollsForgotten /\ BatchIsIdle /\ LaneKeeps /\ SessionOnHeldSlot

(* What a lane that is not unsure knows of its lease.                       *)
LeaseCurrent ==
    /\ LeaseKnown
    /\ \A l \in L : held[l] \in Row /\ l \notin unsure => ~row[held[l]].lapsed
    /\ Timely /\ ~RepliesLost => unsure = {}

-----------------------------------------------------------------------------
(* Fairness and liveness *)

(* Time passes: a lease that nothing renews runs out.                       *)
TimePasses == \A s \in Row : WF_vars(Lapse(s) /\ Unrenewed(s))

LeaseSpec == Spec /\ TimePasses

(* Dispatch rounds are held again and again, and not all of them fail;      *)
(* awaited statements, lookups and heartbeats end.                          *)
Fairness ==
    /\ \A w \in Worker : WF_vars(Poll(w)) /\ SF_vars(EndPoll(w)) /\ WF_vars(Heartbeat(w))
    /\ \A l \in L : /\ WF_vars(Take(l) \/ CloseSession(l) \/ Reveal(l) \/ Finish(l))
                    /\ WF_vars(ReleaseSlot(l)) /\ WF_vars(ClaimSlot(l))

FairSpec == LeaseSpec /\ Fairness

(* docs/proxies.md:86: "An unrenewed lease expires, so a crashed worker     *)
(* does not reserve a slot forever": a slot no lane holds can be claimed    *)
(* again, whatever became of the lane that claimed it, even if its worker   *)
(* restarted under the same id.                                             *)
OrphanedSlotsReturn ==
    \A s \in Row :
        (row[s].worker # Nobody /\ \A l \in L : held[l] # s)
            ~> (s \in Claimable(s[1]) \/ \E l \in L : held[l] = s)

(* agent.py:58: "A lane closes its sticky session after this many idle      *)
(* dispatch rounds, so finite shared slots return to other workers." The    *)
(* test stands at the top of the lane loop, where the count was just reset, *)
(* and the count grows only while the lane waits below it.                  *)
IdleSlotsReturn ==
    \A l \in L : (l \in idle /\ held[l] \in Row) ~> (l \notin idle \/ held[l] = None)

=============================================================================
