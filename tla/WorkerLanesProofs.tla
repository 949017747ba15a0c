------------------------- MODULE WorkerLanesProofs -------------------------
(***************************************************************************)
(* Proofs about WorkerLanes, for any number of workers, lanes, keys and    *)
(* slots: what a lane carries from one piece of work to the next, whatever *)
(* replies are lost and leases lapse (LanesInv).                           *)
(***************************************************************************)
EXTENDS WorkerLanes, TLAPS

USE DEF L, Slot, Row, LanesOf

(* The state of a fleet that has not started satisfies the invariant.       *)
LEMMA LanesInit == Init => LanesInv
  BY AbsentAssumption, BoundAssumption, SlotAssumption
  DEF Init, LanesInv, TypeOK, Free, DownIsBlank, IdlePollsForgotten, BatchIsIdle,
      LaneKeeps, SessionOnHeldSlot

(* A row of the table and what the statements write into it.                *)
RowValue == [worker : Worker \cup {Nobody}, lane : Nat, lapsed : BOOLEAN]

LEMMA WrittenRows ==
    ASSUME TypeOK, NEW l \in L
    PROVE  /\ Released(l) \in [Row -> RowValue]
           /\ \A s \in Row : Claimed(s, l) \in [Row -> RowValue]
<1>1. l[1] \in Worker /\ l[2] \in Nat
  BY SlotAssumption
<1>2. row \in [Row -> RowValue]
  BY DEF TypeOK, RowValue
<1>3. Free \in RowValue
  BY DEF Free, RowValue
<1>4. [worker |-> l[1], lane |-> l[2], lapsed |-> FALSE] \in RowValue
  BY <1>1 DEF RowValue
<1> QED
  BY <1>2, <1>3, <1>4 DEF Released, Claimed

(* Whom a release may rob are lanes.                                        *)
LEMMA RobbedAreLanes == ASSUME NEW l \in L PROVE Robbed(l) \in SUBSET L
  BY DEF Robbed, Leaseholder

(* A slot of the table is a slot.                                           *)
LEMMA RowIsSlot == Row \subseteq Slot
  BY PoolAssumption, SlotAssumption

(* The parts of a lane's type that a return to the top of its loop writes.  *)
LEMMA ToTopType ==
    ASSUME TypeOK, NEW l \in L, ToTop(l)
    PROVE  /\ pc' \in [L -> {"down", "wait", "close", "release", "reveal", "slot", "run"}]
           /\ after' \in [L -> {"wait", "reveal", "exit"}]
           /\ work' \in [L -> Key \cup {None}]
           /\ idle' \in SUBSET L
<1>1. work' = [work EXCEPT ![l] = None] /\ idle' = idle \cup {l}
  BY DEF ToTop
<1>2. pc' = [pc EXCEPT ![l] = "close"] \/ pc' = [pc EXCEPT ![l] = "wait"]
  BY DEF ToTop
<1>3. after' = [after EXCEPT ![l] = "wait"] \/ after' = after
  BY DEF ToTop
<1>4. /\ pc \in [L -> {"down", "wait", "close", "release", "reveal", "slot", "run"}]
      /\ after \in [L -> {"wait", "reveal", "exit"}]
      /\ work \in [L -> Key \cup {None}] /\ idle \in SUBSET L
  BY DEF TypeOK
<1> QED BY ONLY <1>1, <1>2, <1>3, <1>4

(* What a lane that forgets everything leaves behind.                       *)
LEMMA ForgetType ==
    ASSUME TypeOK, NEW G \in SUBSET L, Forget(G)
    PROVE  /\ pc' \in [L -> {"down", "wait", "close", "release", "reveal", "slot", "run"}]
           /\ after' \in [L -> {"wait", "reveal", "exit"}]
           /\ inbox' \in [L -> Key \cup {None}] /\ work' \in [L -> Key \cup {None}]
           /\ key' \in [L -> Key \cup {None}] /\ provider' \in [L -> Key \cup {None}]
           /\ session' \in [L -> (Key \X Slot) \cup {None}]
           /\ held' \in [L -> Slot \cup {None}]
           /\ polls' \in [L -> 0..PollCap]
           /\ idle' \in SUBSET L
  BY BoundAssumption DEF Forget, TypeOK

(* A process starts: its lanes were down, so they kept nothing.             *)
LEMMA StartKeeps == \A w \in Worker : LanesInv /\ Start(w) => LanesInv'
<1> SUFFICES ASSUME NEW w \in Worker, LanesInv, Start(w) PROVE LanesInv'
  OBVIOUS
<1> USE DEF Start, Running
<1>1. TypeOK'
  BY DEF LanesInv, TypeOK
<1>2. DownIsBlank'
  BY DEF LanesInv, TypeOK, DownIsBlank
<1>3. IdlePollsForgotten'
  BY DEF LanesInv, TypeOK, DownIsBlank, IdlePollsForgotten
<1>4. BatchIsIdle'
  BY DEF LanesInv, TypeOK, DownIsBlank, BatchIsIdle
<1>5. LaneKeeps'
  BY DEF LanesInv, TypeOK, LaneKeeps
<1>6. SessionOnHeldSlot'
  BY DEF LanesInv, SessionOnHeldSlot
<1> QED
  BY <1>1, <1>2, <1>3, <1>4, <1>5, <1>6 DEF LanesInv

(* A killed process forgets its lanes.                                       *)
LEMMA CrashKeeps == \A w \in Worker : LanesInv /\ Crash(w) => LanesInv'
<1> SUFFICES ASSUME NEW w \in Worker, LanesInv, Crash(w) PROVE LanesInv'
  OBVIOUS
<1> USE AbsentAssumption, BoundAssumption, SlotAssumption DEF Crash, Forget, lanes
<1>1. TypeOK'
  BY DEF LanesInv, TypeOK
<1>2. DownIsBlank'
  BY DEF LanesInv, TypeOK, DownIsBlank, BatchIsIdle
<1>3. IdlePollsForgotten'
  BY DEF LanesInv, TypeOK, DownIsBlank, IdlePollsForgotten, BatchIsIdle
<1>4. BatchIsIdle'
  <2>1. \A v \in Worker : batch'[v] \subseteq idle' \cap LanesOf(v)
    BY DEF LanesInv, TypeOK, BatchIsIdle
  <2>2. \A x \in L : \/ pc'[x] = "down" /\ inbox'[x] = None /\ x \notin idle'
                    \/ /\ pc'[x] = pc[x] /\ inbox'[x] = inbox[x] /\ after'[x] = after[x]
                       /\ x \in idle' => x \in idle
    BY DEF LanesInv, TypeOK
  <2>3. idle' \subseteq L
    BY <1>1 DEF TypeOK
  <2> QED BY <2>1, <2>2, <2>3 DEF LanesInv, BatchIsIdle
<1>5. LaneKeeps'
  BY DEF LanesInv, TypeOK, LaneKeeps, DownIsBlank, IdlePollsForgotten
<1>6. SessionOnHeldSlot'
  BY DEF LanesInv, TypeOK, LaneKeeps, SessionOnHeldSlot
<1> QED
  BY <1>1, <1>2, <1>3, <1>4, <1>5, <1>6 DEF LanesInv

(* Cancelled lanes keep session and slot until their cleanup has run.        *)
LEMMA StopKeeps == \A w \in Worker : LanesInv /\ Stop(w) => LanesInv'
<1> SUFFICES ASSUME NEW w \in Worker, LanesInv, Stop(w) PROVE LanesInv'
  OBVIOUS
<1> USE AbsentAssumption, BoundAssumption, SlotAssumption DEF Stop, lanes
<1>1. TypeOK'
  BY DEF LanesInv, TypeOK
<1>2. DownIsBlank'
  BY DEF LanesInv, TypeOK, DownIsBlank, BatchIsIdle
<1>3. IdlePollsForgotten'
  BY DEF LanesInv, TypeOK, DownIsBlank, IdlePollsForgotten, BatchIsIdle
<1>4. BatchIsIdle'
  BY DEF LanesInv, TypeOK, BatchIsIdle, DownIsBlank
<1>5. LaneKeeps'
  BY DEF LanesInv, TypeOK, LaneKeeps, DownIsBlank, IdlePollsForgotten
<1>6. SessionOnHeldSlot'
  BY DEF LanesInv, TypeOK, LaneKeeps, SessionOnHeldSlot
<1> QED
  BY <1>1, <1>2, <1>3, <1>4, <1>5, <1>6 DEF LanesInv

(* A dispatch round lists idle lanes only.                                   *)
LEMMA PollKeeps == \A w \in Worker : LanesInv /\ Poll(w) => LanesInv'
<1> SUFFICES ASSUME NEW w \in Worker, LanesInv, Poll(w) PROVE LanesInv'
  OBVIOUS
<1> USE AbsentAssumption, BoundAssumption, SlotAssumption DEF Poll, lanes
<1>1. TypeOK'
  BY DEF LanesInv, TypeOK
<1>2. DownIsBlank'
  BY DEF LanesInv, TypeOK, DownIsBlank, BatchIsIdle
<1>3. IdlePollsForgotten'
  BY DEF LanesInv, TypeOK, DownIsBlank, IdlePollsForgotten, BatchIsIdle
<1>4. BatchIsIdle'
  BY DEF LanesInv, TypeOK, BatchIsIdle, DownIsBlank
<1>5. LaneKeeps'
  BY DEF LanesInv, TypeOK, LaneKeeps, DownIsBlank, IdlePollsForgotten
<1>6. SessionOnHeldSlot'
  BY DEF LanesInv, TypeOK, LaneKeeps, SessionOnHeldSlot
<1> QED
  BY <1>1, <1>2, <1>3, <1>4, <1>5, <1>6 DEF LanesInv

(* Only lanes that wait count an idle poll.                                  *)
LEMMA EndPollKeeps == \A w \in Worker : LanesInv /\ EndPoll(w) => LanesInv'
<1> SUFFICES ASSUME NEW w \in Worker, LanesInv, EndPoll(w) PROVE LanesInv'
  OBVIOUS
<1> USE AbsentAssumption, BoundAssumption, SlotAssumption DEF EndPoll, lanes
<1>1. TypeOK'
  BY DEF LanesInv, TypeOK
<1>2. DownIsBlank'
  BY DEF LanesInv, TypeOK, DownIsBlank, BatchIsIdle
<1>3. IdlePollsForgotten'
  BY DEF LanesInv, TypeOK, DownIsBlank, IdlePollsForgotten, BatchIsIdle
<1>4. BatchIsIdle'
  BY DEF LanesInv, TypeOK, BatchIsIdle, DownIsBlank
<1>5. LaneKeeps'
  BY DEF LanesInv, TypeOK, LaneKeeps, DownIsBlank, IdlePollsForgotten
<1>6. SessionOnHeldSlot'
  BY DEF LanesInv, TypeOK, LaneKeeps, SessionOnHeldSlot
<1> QED
  BY <1>1, <1>2, <1>3, <1>4, <1>5, <1>6 DEF LanesInv

(* A failed claim changes no lane.                                           *)
LEMMA PollFailsKeeps == \A w \in Worker : LanesInv /\ PollFails(w) => LanesInv'
<1> SUFFICES ASSUME NEW w \in Worker, LanesInv, PollFails(w) PROVE LanesInv'
  OBVIOUS
<1> USE AbsentAssumption, BoundAssumption, SlotAssumption DEF PollFails, lanes
<1>1. TypeOK'
  BY DEF LanesInv, TypeOK
<1>2. DownIsBlank'
  BY DEF LanesInv, TypeOK, DownIsBlank, BatchIsIdle
<1>3. IdlePollsForgotten'
  BY DEF LanesInv, TypeOK, DownIsBlank, IdlePollsForgotten, BatchIsIdle
<1>4. BatchIsIdle'
  BY DEF LanesInv, TypeOK, BatchIsIdle, DownIsBlank
<1>5. LaneKeeps'
  BY DEF LanesInv, TypeOK, LaneKeeps, DownIsBlank, IdlePollsForgotten
<1>6. SessionOnHeldSlot'
  BY DEF LanesInv, TypeOK, LaneKeeps, SessionOnHeldSlot
<1> QED
  BY <1>1, <1>2, <1>3, <1>4, <1>5, <1>6 DEF LanesInv

(* A heartbeat renews leases and touches no lane.                            *)
LEMMA HeartbeatKeeps == \A w \in Worker : LanesInv /\ Heartbeat(w) => LanesInv'
<1> SUFFICES ASSUME NEW w \in Worker, LanesInv, Heartbeat(w) PROVE LanesInv'
  OBVIOUS
<1> USE AbsentAssumption, BoundAssumption, SlotAssumption DEF Heartbeat, Renewed, lanes
<1>1. TypeOK'
  <2> DEFINE kept(s) == IF s \in Renewed(w) THEN [row[s] EXCEPT !.lapsed = FALSE] ELSE row[s]
  <2>1. ASSUME NEW s \in Row PROVE kept(s) \in RowValue
    <3>1. row[s] \in RowValue
      BY DEF LanesInv, TypeOK, RowValue
    <3>2. [row[s] EXCEPT !.lapsed = FALSE] \in RowValue
      BY <3>1 DEF RowValue
    <3> QED BY <3>1, <3>2
  <2>2. row' = [s \in Row |-> kept(s)]
    OBVIOUS
  <2>3. row' \in [Row -> RowValue]
    BY <2>1, <2>2
  <2> QED BY <2>3 DEF LanesInv, TypeOK, RowValue
<1>2. DownIsBlank'
  BY DEF LanesInv, TypeOK, DownIsBlank, BatchIsIdle
<1>3. IdlePollsForgotten'
  BY DEF LanesInv, TypeOK, DownIsBlank, IdlePollsForgotten, BatchIsIdle
<1>4. BatchIsIdle'
  BY DEF LanesInv, TypeOK, BatchIsIdle, DownIsBlank
<1>5. LaneKeeps'
  BY DEF LanesInv, TypeOK, LaneKeeps, DownIsBlank, IdlePollsForgotten
<1>6. SessionOnHeldSlot'
  BY DEF LanesInv, TypeOK, LaneKeeps, SessionOnHeldSlot
<1> QED
  BY <1>1, <1>2, <1>3, <1>4, <1>5, <1>6 DEF LanesInv

(* A lane that takes work of another key gives up its session first.         *)
LEMMA TakeKeeps == \A l \in L : LanesInv /\ Take(l) => LanesInv'
<1> SUFFICES ASSUME NEW l \in L, LanesInv, Take(l) PROVE LanesInv'
  OBVIOUS
<1> USE AbsentAssumption, BoundAssumption, SlotAssumption DEF Take, MustClose, lanes
<1>1. TypeOK'
  BY DEF LanesInv, TypeOK
<1>2. DownIsBlank'
  BY DEF LanesInv, TypeOK, DownIsBlank, BatchIsIdle
<1>3. IdlePollsForgotten'
  BY DEF LanesInv, TypeOK, DownIsBlank, IdlePollsForgotten, BatchIsIdle
<1>4. BatchIsIdle'
  BY DEF LanesInv, TypeOK, BatchIsIdle, DownIsBlank
<1>5. LaneKeeps'
  <2> SUFFICES ASSUME NEW x \in L PROVE LaneKeeps!(x)'
    BY DEF LaneKeeps
  <2>1. LaneKeeps!(x)
    BY DEF LanesInv, LaneKeeps
  <2>2. CASE x = l
    <3>1. inbox[l] \in Key
      BY DEF LanesInv, TypeOK
    <3>2. session[l] # None => key[l] # None
      BY DEF LanesInv, TypeOK, SessionOnHeldSlot
    <3>3. /\ pc'[l] = IF MustClose(l) THEN "close" ELSE "reveal"
          /\ work'[l] = inbox[l] /\ after'[l] = "reveal"
          /\ key'[l] = key[l] /\ session'[l] = session[l] /\ held'[l] = held[l]
      BY DEF LanesInv, TypeOK
    <3> QED BY <2>1, <2>2, <3>1, <3>2, <3>3 DEF LaneKeeps
  <2>3. CASE x # l
    BY <2>1, <2>3 DEF LanesInv, TypeOK, LaneKeeps
  <2> QED BY <2>2, <2>3
<1>6. SessionOnHeldSlot'
  BY DEF LanesInv, TypeOK, LaneKeeps, SessionOnHeldSlot
<1> QED
  BY <1>1, <1>2, <1>3, <1>4, <1>5, <1>6 DEF LanesInv

(* A closed session leaves the slot to be released.                          *)
LEMMA CloseSessionKeeps == \A l \in L : LanesInv /\ CloseSession(l) => LanesInv'
<1> SUFFICES ASSUME NEW l \in L, LanesInv, CloseSession(l) PROVE LanesInv'
  OBVIOUS
<1> USE AbsentAssumption, BoundAssumption, SlotAssumption DEF CloseSession, lanes
<1>1. TypeOK'
  BY DEF LanesInv, TypeOK
<1>2. DownIsBlank'
  BY DEF LanesInv, TypeOK, DownIsBlank, BatchIsIdle
<1>3. IdlePollsForgotten'
  BY DEF LanesInv, TypeOK, DownIsBlank, IdlePollsForgotten, BatchIsIdle
<1>4. BatchIsIdle'
  BY DEF LanesInv, TypeOK, BatchIsIdle, DownIsBlank
<1>5. LaneKeeps'
  <2> SUFFICES ASSUME NEW x \in L PROVE LaneKeeps!(x)'
    BY DEF LaneKeeps
  <2>1. LaneKeeps!(x)
    BY DEF LanesInv, LaneKeeps
  <2>2. CASE x = l
    <3>1. session[l] # None => provider[l] # None
      BY DEF LanesInv, TypeOK, SessionOnHeldSlot
    <3>2. /\ pc'[l] = "release" /\ session'[l] = None
          /\ work'[l] = work[l] /\ after'[l] = after[l]
          /\ key'[l] = key[l] /\ held'[l] = held[l]
      BY <3>1 DEF LanesInv, TypeOK
    <3> QED BY <2>1, <2>2, <3>2 DEF LaneKeeps
  <2>3. CASE x # l
    BY <2>1, <2>3 DEF LanesInv, TypeOK, LaneKeeps
  <2> QED BY <2>2, <2>3
<1>6. SessionOnHeldSlot'
  BY DEF LanesInv, TypeOK, LaneKeeps, SessionOnHeldSlot
<1> QED
  BY <1>1, <1>2, <1>3, <1>4, <1>5, <1>6 DEF LanesInv

(* A released slot is forgotten together with its row.                       *)
LEMMA ReleaseSlotKeeps == \A l \in L : LanesInv /\ ReleaseSlot(l) => LanesInv'
<1> SUFFICES ASSUME NEW l \in L, LanesInv, ReleaseSlot(l) PROVE LanesInv'
  OBVIOUS
<1> USE AbsentAssumption, BoundAssumption, SlotAssumption DEF ReleaseSlot, Released, GoOn, Forget, Free, lanes
<1>1. TypeOK'
  <2>1. row' \in [Row -> RowValue]
    <3>1. row \in [Row -> RowValue]
      BY DEF LanesInv, TypeOK, RowValue
    <3>2. row' = row \/ row' = Released(l)
      BY DEF ReleaseSlot
    <3> QED BY <3>1, <3>2, WrittenRows DEF LanesInv
  <2>2. batch' \in [Worker -> SUBSET L]
    BY DEF ReleaseSlot, LanesInv, TypeOK
  <2>3. CASE after[l] = "exit"
    <3>1. Forget({l})
      BY <2>3 DEF ReleaseSlot, GoOn
    <3>2. row' \in [Row -> [worker : Worker \cup {Nobody}, lane : Nat, lapsed : BOOLEAN]]
      BY <2>1 DEF RowValue
    <3>3. TypeOK /\ {l} \in SUBSET L
      BY DEF LanesInv
    <3>4. unsure' \in SUBSET L
      BY RobbedAreLanes DEF LanesInv, TypeOK
    <3> HIDE DEF ReleaseSlot, GoOn, Forget, Released
    <3> QED BY <2>2, <3>1, <3>2, <3>3, <3>4, ForgetType DEF TypeOK
  <2>4. CASE after[l] # "exit"
    <3>1. row' \in [Row -> [worker : Worker \cup {Nobody}, lane : Nat, lapsed : BOOLEAN]]
      BY <2>1 DEF RowValue
    <3>2. /\ pc' = [pc EXCEPT ![l] = after[l]] /\ pc' \in [L -> {"down", "wait", "close", "release", "reveal", "slot", "run"}]
          /\ key' \in [L -> Key \cup {None}] /\ provider' \in [L -> Key \cup {None}]
      <4>1. /\ pc' = [pc EXCEPT ![l] = after[l]]
            /\ key' = [key EXCEPT ![l] = IF after[l] = "wait" THEN None ELSE @]
            /\ provider' = [provider EXCEPT ![l] = IF after[l] = "wait" THEN None ELSE @]
        BY <2>4
      <4>2. /\ pc \in [L -> {"down", "wait", "close", "release", "reveal", "slot", "run"}]
            /\ after \in [L -> {"wait", "reveal", "exit"}]
            /\ key \in [L -> Key \cup {None}] /\ provider \in [L -> Key \cup {None}]
        BY DEF LanesInv, TypeOK
      <4>3. after[l] \in {"wait", "reveal"}
        BY ONLY <2>4, <4>2, l \in L
      <4> QED BY ONLY <4>1, <4>2, <4>3
    <3>3. held' \in [L -> Slot \cup {None}] /\ unsure' \in SUBSET L
      <4>1. held' = [held EXCEPT ![l] = None] /\ unsure' = (unsure \cup Robbed(l)) \ {l}
        BY <2>4
      <4>2. held \in [L -> Slot \cup {None}] /\ unsure \in SUBSET L /\ Robbed(l) \in SUBSET L
        BY RobbedAreLanes DEF LanesInv, TypeOK
      <4> QED BY ONLY <4>1, <4>2
    <3> QED BY <2>2, <2>4, <3>1, <3>2, <3>3 DEF LanesInv, TypeOK
  <2> QED BY <2>3, <2>4
<1>2. DownIsBlank'
  BY DEF LanesInv, TypeOK, DownIsBlank, BatchIsIdle
<1>3. IdlePollsForgotten'
  BY DEF LanesInv, TypeOK, DownIsBlank, IdlePollsForgotten, BatchIsIdle
<1>4. BatchIsIdle'
  BY DEF LanesInv, TypeOK, BatchIsIdle, DownIsBlank
<1>5. LaneKeeps'
  <2> SUFFICES ASSUME NEW x \in L PROVE LaneKeeps!(x)'
    BY DEF LaneKeeps
  <2>1. LaneKeeps!(x)
    BY DEF LanesInv, LaneKeeps
  <2>2. CASE x = l
    BY <2>1, <2>2, PoolAssumption DEF LanesInv, TypeOK, IdlePollsForgotten, DownIsBlank, LaneKeeps
  <2>3. CASE x # l
    BY <2>1, <2>3 DEF LanesInv, TypeOK, LaneKeeps
  <2> QED BY <2>2, <2>3
<1>6. SessionOnHeldSlot'
  BY DEF LanesInv, TypeOK, LaneKeeps, SessionOnHeldSlot
<1> QED
  BY <1>1, <1>2, <1>3, <1>4, <1>5, <1>6 DEF LanesInv

(* A lane that keeps its claim keeps a slot of the pool.                     *)
LEMMA ReleaseFailsKeeps == \A l \in L : LanesInv /\ ReleaseFails(l) => LanesInv'
<1> SUFFICES ASSUME NEW l \in L, LanesInv, ReleaseFails(l) PROVE LanesInv'
  OBVIOUS
<1> USE AbsentAssumption, BoundAssumption, SlotAssumption DEF ReleaseFails, Released, GoOn, Forget, Free, lanes
<1>1. TypeOK'
  <2>1. row' \in [Row -> RowValue]
    <3>1. row \in [Row -> RowValue]
      BY DEF LanesInv, TypeOK, RowValue
    <3>2. row' = row \/ row' = Released(l)
      OBVIOUS
    <3>3. Released(l) \in [Row -> RowValue]
      BY WrittenRows DEF LanesInv
    <3> HIDE DEF ReleaseFails, Released
    <3> QED BY <3>1, <3>2, <3>3
  <2>2. batch' \in [Worker -> SUBSET L]
    BY DEF ReleaseFails, LanesInv, TypeOK
  <2>3. CASE after[l] = "exit"
    <3>1. Forget({l})
      BY <2>3 DEF ReleaseFails, GoOn
    <3>2. row' \in [Row -> [worker : Worker \cup {Nobody}, lane : Nat, lapsed : BOOLEAN]]
      BY <2>1 DEF RowValue
    <3>3. TypeOK /\ {l} \in SUBSET L
      BY DEF LanesInv
    <3>4. unsure' \in SUBSET L
      BY RobbedAreLanes DEF LanesInv, TypeOK
    <3> HIDE DEF ReleaseFails, GoOn, Forget, Released
    <3> QED BY <2>2, <3>1, <3>2, <3>3, <3>4, ForgetType DEF TypeOK
  <2>4. CASE after[l] # "exit"
    <3>1. row' \in [Row -> [worker : Worker \cup {Nobody}, lane : Nat, lapsed : BOOLEAN]]
      BY <2>1 DEF RowValue
    <3>2. /\ pc' = [pc EXCEPT ![l] = after[l]] /\ pc' \in [L -> {"down", "wait", "close", "release", "reveal", "slot", "run"}]
          /\ key' \in [L -> Key \cup {None}] /\ provider' \in [L -> Key \cup {None}]
      <4>1. /\ pc' = [pc EXCEPT ![l] = after[l]]
            /\ key' = [key EXCEPT ![l] = IF after[l] = "wait" THEN None ELSE @]
            /\ provider' = [provider EXCEPT ![l] = IF after[l] = "wait" THEN None ELSE @]
        BY <2>4
      <4>2. after[l] \in {"wait", "reveal"}
        BY <2>4 DEF LanesInv, TypeOK
      <4> HIDE DEF ReleaseFails, GoOn, Forget, Released
      <4> QED BY <4>1, <4>2 DEF LanesInv, TypeOK
    <3>3. held' = held /\ unsure' \subseteq unsure \cup Robbed(l) \cup {l}
      BY <2>4
    <3>4. held' \in [L -> Slot \cup {None}] /\ unsure' \in SUBSET L
      BY <3>3, RobbedAreLanes DEF LanesInv, TypeOK
    <3> QED BY <2>2, <2>4, <3>1, <3>2, <3>4 DEF LanesInv, TypeOK
  <2> QED BY <2>3, <2>4
<1>2. DownIsBlank'
  BY DEF LanesInv, TypeOK, DownIsBlank, BatchIsIdle
<1>3. IdlePollsForgotten'
  BY DEF LanesInv, TypeOK, DownIsBlank, IdlePollsForgotten, BatchIsIdle
<1>4. BatchIsIdle'
  BY DEF LanesInv, TypeOK, BatchIsIdle, DownIsBlank
<1>5. LaneKeeps'
  <2> SUFFICES ASSUME NEW x \in L PROVE LaneKeeps!(x)'
    BY DEF LaneKeeps
  <2>1. LaneKeeps!(x)
    BY DEF LanesInv, LaneKeeps
  <2>2. CASE x = l
    BY <2>1, <2>2, PoolAssumption DEF LanesInv, TypeOK, IdlePollsForgotten, DownIsBlank, LaneKeeps
  <2>3. CASE x # l
    BY <2>1, <2>3 DEF LanesInv, TypeOK, LaneKeeps
  <2> QED BY <2>2, <2>3
<1>6. SessionOnHeldSlot'
  BY DEF LanesInv, TypeOK, LaneKeeps, SessionOnHeldSlot
<1> QED
  BY <1>1, <1>2, <1>3, <1>4, <1>5, <1>6 DEF LanesInv

(* A lane adopts its key with the slot it kept, or with its own number.      *)
LEMMA RevealKeeps == \A l \in L : LanesInv /\ Reveal(l) => LanesInv'
<1> SUFFICES ASSUME NEW l \in L, LanesInv, Reveal(l) PROVE LanesInv'
  OBVIOUS
<1> USE AbsentAssumption, BoundAssumption, SlotAssumption DEF Reveal, Adopted, lanes
<1>1. TypeOK'
  <2>1. <<ProviderOf[work[l]], l[2]>> \in Slot
    BY PoolAssumption DEF LanesInv, TypeOK, LaneKeeps
  <2>2. work[l] \in Key
    BY DEF LanesInv, LaneKeeps
  <2>3. pc' \in [L -> {"down", "wait", "close", "release", "reveal", "slot", "run"}]
    <3>1. pc' = [pc EXCEPT ![l] = "slot"] \/ pc' = [pc EXCEPT ![l] = "run"]
      OBVIOUS
    <3>2. pc \in [L -> {"down", "wait", "close", "release", "reveal", "slot", "run"}]
      BY DEF LanesInv, TypeOK
    <3> QED BY ONLY <3>1, <3>2
  <2>4. held' \in [L -> Slot \cup {None}]
    <3>1. held' = held \/ held' = [held EXCEPT ![l] = <<ProviderOf[work[l]], l[2]>>]
      BY DEF LanesInv, TypeOK
    <3>2. held \in [L -> Slot \cup {None}]
      BY DEF LanesInv, TypeOK
    <3> QED BY ONLY <2>1, <3>1, <3>2
  <2>5. /\ key' \in [L -> Key \cup {None}] /\ provider' \in [L -> Key \cup {None}]
        /\ polls' \in [L -> 0..PollCap]
    <3>1. /\ key' = key \/ key' = [key EXCEPT ![l] = work[l]]
          /\ provider' = provider \/ provider' = [provider EXCEPT ![l] = work[l]]
          /\ polls' = polls \/ polls' = [polls EXCEPT ![l] = 0]
      OBVIOUS
    <3>2. 0 \in 0..PollCap
      OBVIOUS
    <3> HIDE DEF Reveal, Adopted
    <3>3. key' \in [L -> Key \cup {None}] /\ provider' \in [L -> Key \cup {None}]
      BY <2>2, <3>1 DEF LanesInv, TypeOK
    <3>4. polls' \in [L -> 0..PollCap]
      BY <3>1, <3>2 DEF LanesInv, TypeOK
    <3> QED BY <3>3, <3>4
  <2> QED BY <2>3, <2>4, <2>5 DEF LanesInv, TypeOK
<1>2. DownIsBlank'
  BY DEF LanesInv, TypeOK, DownIsBlank, BatchIsIdle
<1>3. IdlePollsForgotten'
  BY DEF LanesInv, TypeOK, DownIsBlank, IdlePollsForgotten, BatchIsIdle
<1>4. BatchIsIdle'
  BY DEF LanesInv, TypeOK, BatchIsIdle, DownIsBlank
<1>5. LaneKeeps'
  <2> SUFFICES ASSUME NEW x \in L PROVE LaneKeeps!(x)'
    BY DEF LaneKeeps
  <2>1. LaneKeeps!(x)
    BY DEF LanesInv, LaneKeeps
  <2>2. CASE x = l
    <3>1. session[l] # None => held[l] # None
      BY DEF LanesInv, TypeOK, SessionOnHeldSlot
    <3>2. /\ work'[l] = work[l] /\ work[l] \in Key
          /\ after'[l] = after[l] /\ session'[l] = session[l]
      BY <2>1, <2>2 DEF LanesInv, TypeOK, LaneKeeps
    <3>3. CASE held[l] = None /\ ProviderOf[work[l]] \in Pooled
      <4>1. pc'[l] = "slot" /\ key'[l] = key[l] /\ held'[l] = None
        BY <3>3 DEF LanesInv, TypeOK
      <4> QED BY <2>2, <3>1, <3>2, <3>3, <4>1 DEF LaneKeeps
    <3>4. CASE held[l] # None
      <4>1. /\ pc'[l] = "run" /\ key'[l] = work[l] /\ provider'[l] = work[l]
            /\ held'[l] = held[l]
        BY <3>4 DEF LanesInv, TypeOK
      <4> QED BY <2>1, <2>2, <3>2, <3>4, <4>1 DEF LaneKeeps
    <3>5. CASE held[l] = None /\ ProviderOf[work[l]] \notin Pooled
      <4>1. /\ pc'[l] = "run" /\ key'[l] = work[l] /\ provider'[l] = work[l]
            /\ held'[l] = <<ProviderOf[work[l]], l[2]>>
        BY <3>5 DEF LanesInv, TypeOK
      <4>2. held'[l] # None /\ held'[l][1] = ProviderOf[work[l]]
        <5>1. ProviderOf[work[l]] \in Provider /\ l[2] \in Nat
          BY <3>2, PoolAssumption
        <5> QED BY <4>1, <5>1
      <4> QED BY <2>2, <3>2, <3>5, <4>1, <4>2 DEF LaneKeeps
    <3> QED BY <3>3, <3>4, <3>5
  <2>3. CASE x # l
    BY <2>1, <2>3 DEF LanesInv, TypeOK, LaneKeeps
  <2> QED BY <2>2, <2>3
<1>6. SessionOnHeldSlot'
  BY DEF LanesInv, TypeOK, LaneKeeps, SessionOnHeldSlot
<1> QED
  BY <1>1, <1>2, <1>3, <1>4, <1>5, <1>6 DEF LanesInv

(* A lane adopts its key with the slot it has leased.                        *)
LEMMA ClaimSlotKeeps == \A l \in L : LanesInv /\ ClaimSlot(l) => LanesInv'
<1> SUFFICES ASSUME NEW l \in L, LanesInv, ClaimSlot(l) PROVE LanesInv'
  OBVIOUS
<1> USE AbsentAssumption, BoundAssumption, SlotAssumption DEF ClaimSlot, Adopted, Claimable, Claimed, FirstOf, lanes
<1>1. TypeOK'
  <2>1. work[l] \in Key
    BY DEF LanesInv, LaneKeeps
  <2>2. PICK s \in Row : row' = Claimed(s, l) /\ held' = [held EXCEPT ![l] = s]
    OBVIOUS
  <2>3. row' \in [Row -> RowValue]
    BY <2>2, WrittenRows DEF LanesInv
  <2> QED BY <2>1, <2>2, <2>3, RowIsSlot DEF LanesInv, TypeOK, RowValue
<1>2. DownIsBlank'
  BY DEF LanesInv, TypeOK, DownIsBlank, BatchIsIdle
<1>3. IdlePollsForgotten'
  BY DEF LanesInv, TypeOK, DownIsBlank, IdlePollsForgotten, BatchIsIdle
<1>4. BatchIsIdle'
  BY DEF LanesInv, TypeOK, BatchIsIdle, DownIsBlank
<1>5. LaneKeeps'
  <2> SUFFICES ASSUME NEW x \in L PROVE LaneKeeps!(x)'
    BY DEF LaneKeeps
  <2>1. LaneKeeps!(x)
    BY DEF LanesInv, LaneKeeps
  <2>2. CASE x = l
    <3>1. PICK s \in Row : s[1] = ProviderOf[work[l]] /\ held' = [held EXCEPT ![l] = s]
      OBVIOUS
    <3>2. s # None /\ s[1] \in Pooled
      BY RowIsSlot
    <3>3. /\ pc'[l] = "run" /\ work'[l] = work[l] /\ work[l] \in Key
          /\ key'[l] = work[l] /\ provider'[l] = work[l] /\ held'[l] = s
      BY <2>1, <2>2, <3>1 DEF LanesInv, TypeOK, LaneKeeps
    <3> QED BY <2>2, <3>2, <3>3 DEF LaneKeeps
  <2>3. CASE x # l
    BY <2>1, <2>3 DEF LanesInv, TypeOK, LaneKeeps
  <2> QED BY <2>2, <2>3
<1>6. SessionOnHeldSlot'
  BY DEF LanesInv, TypeOK, LaneKeeps, SessionOnHeldSlot
<1> QED
  BY <1>1, <1>2, <1>3, <1>4, <1>5, <1>6 DEF LanesInv

(* A lane that fails keeps session and slot, and its idle polls are zero.    *)
LEMMA LaneFailsKeeps == \A l \in L : LanesInv /\ LaneFails(l) => LanesInv'
<1> SUFFICES ASSUME NEW l \in L, LanesInv, LaneFails(l) PROVE LanesInv'
  OBVIOUS
<1> USE AbsentAssumption, BoundAssumption, SlotAssumption DEF LaneFails, ToTop, Claimable, Claimed, FirstOf, lanes
<1>1. TypeOK'
  <2>1. row' \in [Row -> RowValue]
    <3>1. row \in [Row -> RowValue]
      BY DEF LanesInv, TypeOK, RowValue
    <3>2. row' = row \/ row' = Released(l) \/ \E s \in Row : row' = Claimed(s, l)
      OBVIOUS
    <3>3. TypeOK
      BY DEF LanesInv
    <3> HIDE DEF Claimed, Released, LaneFails
    <3>4. Released(l) \in [Row -> RowValue] /\ \A s \in Row : Claimed(s, l) \in [Row -> RowValue]
      BY <3>3, WrittenRows
    <3> QED BY ONLY <3>1, <3>2, <3>4
  <2>2. TypeOK /\ ToTop(l)
    BY DEF LanesInv
  <2>3. /\ pc' \in [L -> {"down", "wait", "close", "release", "reveal", "slot", "run"}]
        /\ after' \in [L -> {"wait", "reveal", "exit"}]
        /\ work' \in [L -> Key \cup {None}]
        /\ idle' \in SUBSET L
    BY ONLY <2>2, l \in L, ToTopType
  <2>4. UNCHANGED <<inbox, key, provider, session, held, polls, batch, unsure>>
    OBVIOUS
  <2> QED BY ONLY <2>1, <2>2, <2>3, <2>4 DEF TypeOK, RowValue
<1>2. DownIsBlank'
  BY DEF LanesInv, TypeOK, DownIsBlank, BatchIsIdle
<1>3. IdlePollsForgotten'
  BY DEF LanesInv, TypeOK, DownIsBlank, IdlePollsForgotten, BatchIsIdle
<1>4. BatchIsIdle'
  <2>1. polls[l] = 0
    BY DEF LanesInv, TypeOK, IdlePollsForgotten, DownIsBlank
  <2>2. inbox[l] = None
    BY DEF LanesInv, TypeOK, BatchIsIdle, DownIsBlank
  <2> QED BY <2>1, <2>2 DEF LanesInv, TypeOK, BatchIsIdle
<1>5. LaneKeeps'
  BY DEF LanesInv, TypeOK, LaneKeeps, DownIsBlank, IdlePollsForgotten
<1>6. SessionOnHeldSlot'
  BY DEF LanesInv, TypeOK, LaneKeeps, SessionOnHeldSlot
<1> QED
  BY <1>1, <1>2, <1>3, <1>4, <1>5, <1>6 DEF LanesInv

(* A lookup opens its session on the slot of the lane.                       *)
LEMMA FetchKeeps == \A l \in L : LanesInv /\ Fetch(l) => LanesInv'
<1> SUFFICES ASSUME NEW l \in L, LanesInv, Fetch(l) PROVE LanesInv'
  OBVIOUS
<1> USE AbsentAssumption, BoundAssumption, SlotAssumption DEF Fetch, lanes
<1>1. TypeOK'
  <2>1. <<provider[l], held[l]>> \in Key \X Slot
    BY DEF LanesInv, TypeOK, LaneKeeps
  <2> QED BY <2>1 DEF LanesInv, TypeOK
<1>2. DownIsBlank'
  BY DEF LanesInv, TypeOK, DownIsBlank, BatchIsIdle
<1>3. IdlePollsForgotten'
  BY DEF LanesInv, TypeOK, DownIsBlank, IdlePollsForgotten, BatchIsIdle
<1>4. BatchIsIdle'
  BY DEF LanesInv, TypeOK, BatchIsIdle, DownIsBlank
<1>5. LaneKeeps'
  BY DEF LanesInv, TypeOK, LaneKeeps, DownIsBlank, IdlePollsForgotten
<1>6. SessionOnHeldSlot'
  <2> SUFFICES ASSUME NEW x \in L PROVE SessionOnHeldSlot!(x)'
    BY DEF SessionOnHeldSlot
  <2>1. held'[x] = held[x] /\ provider'[x] = provider[x] /\ key'[x] = key[x]
    OBVIOUS
  <2>2. SessionOnHeldSlot!(x)
    BY DEF LanesInv, SessionOnHeldSlot
  <2>3. CASE session'[x] = session[x] \/ session'[x] = None
    BY <2>1, <2>2, <2>3 DEF SessionOnHeldSlot
  <2>4. CASE x = l /\ session'[x] = <<provider[l], held[l]>>
    <3>1. key[l] = provider[l] /\ held[l] # None
      BY DEF LanesInv, LaneKeeps
    <3>2. ProviderOf[provider[l]] \in Pooled => held[l][1] = ProviderOf[provider[l]]
      <4>1. held[l][1] \in Pooled => held[l] \in Row
        BY <3>1 DEF LanesInv, LaneKeeps
      <4>2. held[l][1] \notin Pooled => held[l][1] = ProviderOf[provider[l]]
        BY <3>1 DEF LanesInv, LaneKeeps
      <4> QED BY <4>2, PoolAssumption
    <3> QED BY <2>1, <2>4, <3>1, <3>2 DEF SessionOnHeldSlot
  <2> QED BY <2>3, <2>4 DEF LanesInv, TypeOK
<1> QED
  BY <1>1, <1>2, <1>3, <1>4, <1>5, <1>6 DEF LanesInv

(* A lane that finishes keeps session and slot, and its idle polls are zero. *)
LEMMA FinishKeeps == \A l \in L : LanesInv /\ Finish(l) => LanesInv'
<1> SUFFICES ASSUME NEW l \in L, LanesInv, Finish(l) PROVE LanesInv'
  OBVIOUS
<1> USE AbsentAssumption, BoundAssumption, SlotAssumption DEF Finish, ToTop, lanes
<1>1. TypeOK'
  <2>1. TypeOK /\ ToTop(l)
    BY DEF LanesInv
  <2>2. /\ pc' \in [L -> {"down", "wait", "close", "release", "reveal", "slot", "run"}]
        /\ after' \in [L -> {"wait", "reveal", "exit"}]
        /\ work' \in [L -> Key \cup {None}]
        /\ idle' \in SUBSET L
    BY ONLY <2>1, l \in L, ToTopType
  <2>3. UNCHANGED <<row, inbox, key, provider, session, held, polls, batch, unsure>>
    OBVIOUS
  <2> QED BY ONLY <2>1, <2>2, <2>3 DEF TypeOK
<1>2. DownIsBlank'
  BY DEF LanesInv, TypeOK, DownIsBlank, BatchIsIdle
<1>3. IdlePollsForgotten'
  BY DEF LanesInv, TypeOK, DownIsBlank, IdlePollsForgotten, BatchIsIdle
<1>4. BatchIsIdle'
  <2>1. polls[l] = 0
    <3>1. pc[l] = "run" /\ polls[l] \in Nat
      BY DEF LanesInv, TypeOK
    <3>2. IdlePollsForgotten!(l) /\ DownIsBlank!(l)
      BY DEF LanesInv, IdlePollsForgotten, DownIsBlank
    <3> QED BY ONLY <3>1, <3>2
  <2>2. inbox[l] = None
    BY DEF LanesInv, TypeOK, BatchIsIdle, DownIsBlank
  <2> QED BY <2>1, <2>2 DEF LanesInv, TypeOK, BatchIsIdle
<1>5. LaneKeeps'
  BY DEF LanesInv, TypeOK, LaneKeeps, DownIsBlank, IdlePollsForgotten
<1>6. SessionOnHeldSlot'
  BY DEF LanesInv, TypeOK, LaneKeeps, SessionOnHeldSlot
<1> QED
  BY <1>1, <1>2, <1>3, <1>4, <1>5, <1>6 DEF LanesInv

(* A lease that lapses changes no lane.                                     *)
LEMMA LapseKeeps == \A s \in Row : LanesInv /\ Lapse(s) => LanesInv'
<1> SUFFICES ASSUME NEW s \in Row, LanesInv, Lapse(s) PROVE LanesInv'
  OBVIOUS
<1>1. row' = [row EXCEPT ![s].lapsed = TRUE] /\ UNCHANGED <<lanes, batch>>
  BY DEF Lapse
<1>2. unsure' \in SUBSET L
  BY DEF Lapse, Leaseholder, LanesInv, TypeOK
<1>3. row' \in [Row -> RowValue]
  <2>1. [row[s] EXCEPT !.lapsed = TRUE] \in RowValue
    <3>1. row[s] \in RowValue
      BY DEF LanesInv, TypeOK, RowValue
    <3> QED BY <3>1 DEF RowValue
  <2> QED BY <1>1, <2>1 DEF LanesInv, TypeOK, RowValue
<1> QED
  BY <1>1, <1>2, <1>3 DEF LanesInv, TypeOK, RowValue, lanes, DownIsBlank, IdlePollsForgotten,
     BatchIsIdle, LaneKeeps, SessionOnHeldSlot

(* Work put into the inbox of a lane that waits; its idle polls are reset.  *)
LEMMA AssignKeeps ==
    \A w \in Worker : \A l \in LanesOf(w), k \in Serves[w] : LanesInv /\ Assign(w, l, k) => LanesInv'
<1> SUFFICES ASSUME NEW w \in Worker, NEW l \in LanesOf(w), NEW k \in Serves[w],
                    LanesInv, Assign(w, l, k)
             PROVE  LanesInv'
  OBVIOUS
<1>0. k \in Key
  BY OptionsAssumption
<1> USE <1>0, AbsentAssumption, BoundAssumption DEF Assign, NoLongerIdle
<1>1. TypeOK'
  BY DEF LanesInv, TypeOK
<1>2. DownIsBlank'
  BY DEF LanesInv, TypeOK, DownIsBlank, BatchIsIdle
<1>3. IdlePollsForgotten'
  BY DEF LanesInv, TypeOK, IdlePollsForgotten
<1>4. BatchIsIdle'
  BY DEF LanesInv, TypeOK, BatchIsIdle
<1>5. LaneKeeps'
  BY DEF LanesInv, LaneKeeps
<1>6. SessionOnHeldSlot'
  BY DEF LanesInv, SessionOnHeldSlot
<1> QED
  BY <1>1, <1>2, <1>3, <1>4, <1>5, <1>6 DEF LanesInv

-----------------------------------------------------------------------------
(* Every step keeps the invariant.                                          *)
LEMMA LanesStep == LanesInv /\ [Next]_vars => LanesInv'
<1> SUFFICES ASSUME LanesInv, [Next]_vars PROVE LanesInv'
  OBVIOUS
<1>1. CASE UNCHANGED vars
  BY <1>1 DEF vars, lanes, LanesInv, TypeOK, DownIsBlank, IdlePollsForgotten, BatchIsIdle,
     LaneKeeps, SessionOnHeldSlot
<1>2. ASSUME NEW w \in Worker,
             Start(w) \/ Crash(w) \/ Stop(w) \/ Poll(w) \/ EndPoll(w) \/ PollFails(w) \/ Heartbeat(w)
      PROVE  LanesInv'
  BY <1>2, StartKeeps, CrashKeeps, StopKeeps, PollKeeps, EndPollKeeps, PollFailsKeeps, HeartbeatKeeps
<1>3. ASSUME NEW w \in Worker, NEW l \in LanesOf(w), NEW k \in Serves[w], Assign(w, l, k)
      PROVE  LanesInv'
  BY <1>3, AssignKeeps
<1>4. ASSUME NEW l \in L, LaneStep(l) PROVE LanesInv'
  BY <1>4, TakeKeeps, CloseSessionKeeps, ReleaseSlotKeeps, ReleaseFailsKeeps, RevealKeeps,
     ClaimSlotKeeps, LaneFailsKeeps, FetchKeeps, FinishKeeps DEF LaneStep
<1>5. ASSUME NEW s \in Row, Lapse(s) PROVE LanesInv'
  BY <1>5, LapseKeeps
<1> QED
  BY <1>1, <1>2, <1>3, <1>4, <1>5 DEF Next

(* Whatever replies are lost and leases lapse, in every fleet: what lanes   *)
(* remember fits together.                                                  *)
THEOREM LanesSafety == Spec => []LanesInv
<1>1. Init => LanesInv
  BY LanesInit
<1>2. LanesInv /\ [Next]_vars => LanesInv'
  BY LanesStep
<1> QED
  BY <1>1, <1>2, PTL DEF Spec

(* A proxy session stays on the slot its lane holds and is closed with the  *)
(* provider it was opened with.                                             *)
THEOREM SessionOnHeldSlotHolds == Spec => []SessionOnHeldSlot
<1>1. LanesInv => SessionOnHeldSlot
  BY DEF LanesInv
<1> QED
  BY <1>1, LanesSafety, PTL

(* put_nowait of the dispatch loop never meets a full inbox.                *)
THEOREM IdleInboxEmptyHolds == Spec => []IdleInboxEmpty
<1>1. LanesInv => IdleInboxEmpty
  BY DEF LanesInv, BatchIsIdle, IdleInboxEmpty
<1> QED
  BY <1>1, LanesSafety, PTL

(* agent.py:361: the idle limit closes no session, whatever IdleLimit is:   *)
(* where a lane tests its count, the count is gone, so that a lane only     *)
(* closes for work of another key or because it leaves.                     *)
THEOREM NoLaneClosesIdle ==
  Spec => [](\A l \in L : pc[l] \in {"close", "release"} => after[l] \in {"reveal", "exit"})
<1>1. LanesInv => \A l \in L : pc[l] \in {"close", "release"} => after[l] \in {"reveal", "exit"}
  BY DEF LanesInv, TypeOK, IdlePollsForgotten
<1> QED
  BY <1>1, LanesSafety, PTL

-----------------------------------------------------------------------------
(* What a lane that is not unsure knows of the row it holds.                *)
LEMMA LeaseOf ==
    ASSUME TypeOK, LeaseCurrent, NEW x \in L, held[x] \in Row, x \notin unsure
    PROVE  /\ row[held[x]].worker = x[1] /\ row[held[x]].lane = x[2]
           /\ ~row[held[x]].lapsed /\ row[held[x]].worker # Nobody
  BY AbsentAssumption DEF LeaseCurrent, LeaseKnown

(* No lane's release frees a row that another lane still counts on.         *)
LEMMA ReleasedSpares ==
    ASSUME TypeOK, LeaseCurrent, NEW l \in L, NEW x \in L, x # l,
           held[x] \in Row, x \notin unsure, x \notin Robbed(l)
    PROVE  Released(l)[held[x]] = row[held[x]]
<1>1. CASE held[x] # held[l]
  BY <1>1 DEF Released
<1>2. CASE held[x] = held[l] /\ row[held[l]].worker # l[1]
  BY <1>2 DEF Released
<1>3. CASE held[x] = held[l] /\ row[held[l]].worker = l[1]
  <2>1. x[1] = l[1] /\ row[held[l]].lane = x[2]
    BY <1>3, LeaseOf
  <2>2. x = <<row[held[l]].worker, row[held[l]].lane>>
    BY <1>3, <2>1
  <2>3. x \in Robbed(l)
    BY <1>3, <2>1, <2>2 DEF Robbed, Leaseholder
  <2> QED BY <2>3
<1> QED BY <1>1, <1>2, <1>3

(* A slot that can be claimed is nobody's, as far as anybody knows.         *)
LEMMA ClaimableIsFree ==
    ASSUME TypeOK, LeaseCurrent, NEW p, NEW s \in Claimable(p), NEW x \in L, x \notin unsure
    PROVE  s \in Row /\ held[x] # s
  BY LeaseOf DEF Claimable

(* While no lane is unsure, no release robs another lane.                   *)
LEMMA NoneRobbed ==
    ASSUME TypeOK, LeaseCurrent, unsure = {}, NEW l \in L
    PROVE  Robbed(l) = {}
<1>1. ASSUME NEW x \in Robbed(l) PROVE FALSE
  <2>1. /\ held[l] \in Row /\ x \in L /\ x # l /\ held[x] = held[l]
    BY <1>1 DEF Robbed, Leaseholder
  <2>2. l[1] = x[1] /\ l[2] = x[2]
    BY <2>1, LeaseOf
  <2> QED BY <2>1, <2>2
<1> QED BY <1>1

(* The release of a slot, confirmed or not.                                 *)
LEMMA ReleaseLease ==
    ASSUME LanesInv, LeaseCurrent, NEW l \in L, ReleaseSlot(l) \/ ReleaseFails(l)
    PROVE  LeaseCurrent'
<1>1. TypeOK
  BY DEF LanesInv
<1>2. \/ row' = row
      \/ row' = Released(l) /\ \A x \in Robbed(l) : x # l => x \in unsure'
  BY DEF ReleaseSlot, ReleaseFails
<1>3. \A x \in L : x # l => held'[x] = held[x] /\ (x \in unsure => x \in unsure')
  <2>1. \A x \in L : x # l => (x \in unsure => x \in unsure')
    BY DEF ReleaseSlot, ReleaseFails
  <2>2. CASE after[l] = "exit"
    <3>1. Forget({l})
      BY <2>2 DEF ReleaseSlot, ReleaseFails, GoOn
    <3> QED BY <2>1, <3>1 DEF Forget
  <2>3. CASE after[l] # "exit"
    <3>1. held' = held \/ held' = [held EXCEPT ![l] = None]
      BY <2>3 DEF ReleaseSlot, ReleaseFails
    <3> QED BY <1>1, <2>1, <3>1 DEF TypeOK
  <2> QED BY <2>2, <2>3
<1>4. held'[l] = None \/ l \in unsure'
      \/ (held'[l] = held[l] /\ row' = row /\ (l \in unsure => l \in unsure'))
  <2>1. CASE after[l] = "exit"
    <3>1. Forget({l})
      BY <2>1 DEF ReleaseSlot, ReleaseFails, GoOn
    <3> QED BY <3>1 DEF Forget
  <2>2. CASE after[l] # "exit" /\ ReleaseSlot(l)
    BY <1>1, <2>2 DEF ReleaseSlot, TypeOK
  <2>3. CASE after[l] # "exit" /\ ReleaseFails(l)
    BY <2>3 DEF ReleaseFails
  <2> QED BY <2>1, <2>2, <2>3
<1>5. Timely /\ ~RepliesLost => unsure' = {}
  <2> SUFFICES ASSUME Timely /\ ~RepliesLost PROVE unsure' = {}
    OBVIOUS
  <2>1. unsure = {}
    BY DEF LeaseCurrent
  <2>2. Robbed(l) = {}
    BY <1>1, <2>1, NoneRobbed
  <2> QED BY <2>1, <2>2 DEF ReleaseSlot, ReleaseFails
<1>6. ASSUME NEW x \in L, held'[x] \in Row, x \notin unsure'
      PROVE  row'[held'[x]].worker = x[1] /\ row'[held'[x]].lane = x[2] /\ ~row'[held'[x]].lapsed
  <2>1. CASE x = l
    <3>1. None \notin Row
      BY RowIsSlot, AbsentAssumption
    <3> QED BY <1>1, <1>4, <1>6, <2>1, <3>1, LeaseOf
  <2>2. CASE x # l
    <3>1. held'[x] = held[x] /\ x \notin unsure
      BY <1>3, <1>6, <2>2
    <3>2. row'[held[x]] = row[held[x]]
      BY <1>1, <1>2, <1>6, <2>2, <3>1, ReleasedSpares
    <3> QED BY <1>1, <1>6, <3>1, <3>2, LeaseOf
  <2> QED BY <2>1, <2>2
<1> QED
  BY <1>5, <1>6 DEF LeaseCurrent, LeaseKnown

(* The claim of a slot, whether or not the lane learns of it.               *)
LEMMA ClaimLease ==
    ASSUME LanesInv, LeaseCurrent, NEW l \in L, NEW s \in Claimable(ProviderOf[work[l]]),
           row' = Claimed(s, l), unsure' = unsure,
           held' = held \/ held' = [held EXCEPT ![l] = s]
    PROVE  LeaseCurrent'
<1>1. TypeOK
  BY DEF LanesInv
<1>2. s \in Row
  BY DEF Claimable
<1>3. row'[s] = [worker |-> l[1], lane |-> l[2], lapsed |-> FALSE]
  BY <1>1, <1>2 DEF Claimed, TypeOK
<1>4. \A r \in Row : r # s => row'[r] = row[r]
  BY <1>1, <1>2 DEF Claimed, TypeOK
<1>5. ASSUME NEW x \in L, held'[x] \in Row, x \notin unsure'
      PROVE  row'[held'[x]].worker = x[1] /\ row'[held'[x]].lane = x[2] /\ ~row'[held'[x]].lapsed
  <2>1. CASE held'[x] = held[x]
    <3>1. held[x] # s
      BY <1>1, <1>5, ClaimableIsFree
    <3> QED BY <1>1, <1>4, <1>5, <2>1, <3>1, LeaseOf
  <2>2. CASE held'[x] # held[x]
    <3>1. x = l /\ held'[x] = s
      BY <1>1, <2>2 DEF TypeOK
    <3> QED BY <1>3, <3>1
  <2> QED BY <2>1, <2>2
<1> QED
  BY <1>5 DEF LeaseCurrent, LeaseKnown

(* The lease of a lane runs out: the lane that owned it becomes unsure,     *)
(* unless its process is gone and with it the lane's memory.                *)
LEMMA LapseLease ==
    ASSUME LanesInv, LeaseCurrent, NEW s \in Row, Lapse(s)
    PROVE  LeaseCurrent'
<1>1. TypeOK /\ DownIsBlank
  BY DEF LanesInv
<1>2. /\ row' = [row EXCEPT ![s].lapsed = TRUE] /\ held' = held
      /\ unsure' = unsure \cup Leaseholder(s)
  BY DEF Lapse, lanes
<1>3. ASSUME NEW x \in L, held[x] \in Row, x \notin unsure'
      PROVE  row'[held[x]].worker = x[1] /\ row'[held[x]].lane = x[2] /\ ~row'[held[x]].lapsed
  <2>1. x \notin unsure
    BY <1>2, <1>3
  <2>2. held[x] # s
    <3>1. ASSUME held[x] = s PROVE FALSE
      <4>1. row[s].worker = x[1] /\ row[s].lane = x[2]
        BY <1>1, <1>3, <2>1, <3>1, LeaseOf
      <4>2. x = <<row[s].worker, row[s].lane>>
        BY <4>1
      <4> QED BY <1>2, <1>3, <3>1, <4>2 DEF Leaseholder
    <3> QED BY <3>1
  <2>3. row'[held[x]] = row[held[x]]
    BY <1>1, <1>2, <1>3, <2>2 DEF TypeOK
  <2> QED BY <1>1, <1>3, <2>1, <2>3, LeaseOf
<1>4. Timely /\ ~RepliesLost => unsure' = {}
  <2>0. unsure' \subseteq L
    BY <1>1, <1>2 DEF TypeOK, Leaseholder
  <2> SUFFICES ASSUME Timely /\ ~RepliesLost, NEW x \in L, x \in unsure' PROVE FALSE
    BY <2>0
  <2>1. unsure = {}
    BY DEF LeaseCurrent
  <2>2. held[x] = s /\ row[s].worker = x[1] /\ x \in LanesOf(x[1])
    BY <1>2, <2>0, <2>1 DEF Leaseholder
  <2>3. s \in Renewed(row[s].worker)
    BY <2>2 DEF Renewed
  <2>4. ~Running(row[s].worker)
    BY <2>3 DEF Lapse, Unrenewed
  <2>5. pc[x] = "down"
    BY <2>2, <2>4 DEF Running
  <2>6. held[x] = None
    BY <1>1, <2>5 DEF DownIsBlank
  <2> QED BY <2>2, <2>6, RowIsSlot, AbsentAssumption
<1> QED
  BY <1>2, <1>3, <1>4 DEF LeaseCurrent, LeaseKnown

(* A lane whose process ends holds nothing; the others are untouched.       *)
LEMMA CrashLease ==
    ASSUME LanesInv, LeaseCurrent, NEW w \in Worker, Crash(w)
    PROVE  LeaseCurrent'
<1>1. TypeOK
  BY DEF LanesInv
<1>2. row' = row /\ unsure' \subseteq unsure
  BY DEF Crash, Forget
<1>3. \A x \in L : held'[x] = None \/ (held'[x] = held[x] /\ (x \in unsure' <=> x \in unsure))
  BY <1>1 DEF Crash, Forget
<1>4. None \notin Row
  BY RowIsSlot, AbsentAssumption
<1> QED
  BY <1>1, <1>2, <1>3, <1>4 DEF LeaseCurrent, LeaseKnown

(* A heartbeat keeps owner and lane of every row and only ends a lapse.     *)
LEMMA HeartbeatLease ==
    ASSUME LanesInv, LeaseCurrent, NEW w \in Worker, Heartbeat(w)
    PROVE  LeaseCurrent'
<1>1. held' = held /\ unsure' = unsure
  BY DEF Heartbeat, lanes
<1>2. ASSUME NEW s \in Row
      PROVE  /\ row'[s].worker = row[s].worker /\ row'[s].lane = row[s].lane
             /\ row'[s].lapsed => row[s].lapsed
  <2>1. row'[s] = row[s] \/ row'[s] = [row[s] EXCEPT !.lapsed = FALSE]
    BY DEF Heartbeat
  <2>2. row[s] \in RowValue
    BY DEF LanesInv, TypeOK, RowValue
  <2> QED BY <2>1, <2>2 DEF RowValue
<1> QED
  BY <1>1, <1>2 DEF LeaseCurrent, LeaseKnown

(* A lane without a pool takes its own number, which is no row of the table.*)
LEMMA RevealLease ==
    ASSUME LanesInv, LeaseCurrent, NEW l \in L, Reveal(l)
    PROVE  LeaseCurrent'
<1>1. row' = row /\ unsure' = unsure
  BY DEF Reveal
<1>2. ASSUME NEW x \in L PROVE held'[x] = held[x] \/ held'[x] \notin Row
  BY DEF LanesInv, TypeOK, Reveal
<1> QED
  BY <1>1, <1>2 DEF LeaseCurrent, LeaseKnown

(* No step makes a lane believe in a lease it may have lost.                *)
LEMMA LeaseStep == LanesInv /\ LeaseCurrent /\ [Next]_vars => LeaseCurrent'
<1> SUFFICES ASSUME LanesInv, LeaseCurrent, [Next]_vars PROVE LeaseCurrent'
  OBVIOUS
<1>1. ASSUME UNCHANGED <<row, held, unsure>> PROVE LeaseCurrent'
  BY <1>1 DEF LeaseCurrent, LeaseKnown
<1>2. CASE UNCHANGED vars
  BY <1>1, <1>2 DEF vars, lanes
<1>3. ASSUME NEW w \in Worker,
             Start(w) \/ Crash(w) \/ Stop(w) \/ Poll(w) \/ EndPoll(w) \/ PollFails(w) \/ Heartbeat(w)
      PROVE  LeaseCurrent'
  BY <1>1, <1>3, CrashLease, HeartbeatLease DEF Start, Stop, Poll, EndPoll, PollFails, lanes
<1>4. ASSUME NEW w \in Worker, NEW l \in LanesOf(w), NEW k \in Serves[w], Assign(w, l, k)
      PROVE  LeaseCurrent'
  BY <1>1, <1>4 DEF Assign
<1>5. ASSUME NEW l \in L, LaneStep(l) PROVE LeaseCurrent'
  <2>1. CASE Take(l) \/ CloseSession(l) \/ Fetch(l) \/ Finish(l)
    BY <1>1, <2>1 DEF Take, CloseSession, Fetch, Finish
  <2>2. CASE ReleaseSlot(l) \/ ReleaseFails(l)
    BY <2>2, ReleaseLease
  <2>3. CASE Reveal(l)
    BY <2>3, RevealLease
  <2>4. CASE ClaimSlot(l)
    <3>1. PICK s \in Claimable(ProviderOf[work[l]]) :
             row' = Claimed(s, l) /\ held' = [held EXCEPT ![l] = s]
      BY <2>4 DEF ClaimSlot, FirstOf
    <3>2. unsure' = unsure
      BY <2>4 DEF ClaimSlot
    <3> QED BY <3>1, <3>2, ClaimLease
  <2>5. CASE LaneFails(l)
    <3>1. held' = held /\ unsure' = unsure
      BY <2>5 DEF LaneFails
    <3>2. row' = row \/ \E s \in Claimable(ProviderOf[work[l]]) : row' = Claimed(s, l)
      BY <2>5 DEF LaneFails, FirstOf
    <3> QED BY <1>1, <3>1, <3>2, ClaimLease
  <2> QED BY <1>5, <2>1, <2>2, <2>3, <2>4, <2>5 DEF LaneStep
<1>6. ASSUME NEW s \in Row, Lapse(s) PROVE LeaseCurrent'
  BY <1>6, LapseLease
<1> QED
  BY <1>2, <1>3, <1>4, <1>5, <1>6 DEF Next

(* What the lanes of any fleet know of their leases.                        *)
LEMMA LeasesAreCurrent == Spec => []LeaseCurrent
<1>1. Init => LeaseCurrent
  BY RowIsSlot, AbsentAssumption DEF Init, LeaseCurrent, LeaseKnown
<1>2. LanesInv /\ LeaseCurrent /\ [Next]_vars => LeaseCurrent'
  BY LeaseStep
<1> QED
  BY <1>1, <1>2, LanesSafety, PTL DEF Spec

(* agent.py:476, slots.py:13: a lane whose lease neither lapsed nor was     *)
(* released in a way it could not hear of holds what the table says.        *)
THEOREM LeaseKnownHolds == Spec => []LeaseKnown
<1>1. LeaseCurrent => LeaseKnown
  BY DEF LeaseCurrent
<1> QED
  BY <1>1, LeasesAreCurrent, PTL

(* Two lanes that use one slot are never both sure of it, however many      *)
(* lanes a worker runs and whatever replies are lost.                       *)
THEOREM OneLanePerSlotHolds == Spec => []OneLanePerSlot
<1>1. LeaseKnown => OneLanePerSlot
  BY DEF LeaseKnown, OneLanePerSlot, Uses
<1> QED
  BY <1>1, LeaseKnownHolds, PTL

(* docs/proxies.md:83: while heartbeats come in time and no reply is lost,  *)
(* no two lanes of the fleet use one slot.                                  *)
THEOREM SlotsAreExclusive ==
    ASSUME Timely, ~RepliesLost PROVE Spec => []SlotsExclusive
<1>1. LeaseCurrent => SlotsExclusive
  BY DEF LeaseCurrent, LeaseKnown, SlotsExclusive, Uses
<1> QED
  BY <1>1, LeasesAreCurrent, PTL

=============================================================================
