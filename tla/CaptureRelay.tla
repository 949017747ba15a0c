---------------------------- MODULE CaptureRelay ----------------------------
(***************************************************************************)
(* The relay of the capture client and the browser tabs that its script    *)
(* runs in: relay.py, store.py, cli.py and sites/entel/capture.js. A tab    *)
(* asks for the current RUC, looks it up and posts the result; requests     *)
(* are served one at a time, and a reply may be lost, which ends the tab's  *)
(* loop until the button is pressed again.                                  *)
(***************************************************************************)
EXTENDS Naturals

CONSTANTS
    LastRuc,    \* the RUCs of the input are 1..LastRuc
    Tab         \* browser tabs that run the script

VARIABLES
    index,      \* RelayState.index, from 1
    complete,   \* RelayState.complete
    relay,      \* "off", "serving", "ended"
    bad,        \* RelayState.rejected + failed
    observations, \* in the store: whose RUC, and whose answer it holds
    results,    \* the RUCs of the output file
    tab         \* what each tab is doing, with which RUC

vars == <<index, complete, relay, bad, observations, results, tab>>

Ruc == 1..LastRuc

TypeOK ==
    /\ index \in 1..(LastRuc + 1) /\ complete \in BOOLEAN
    /\ relay \in {"off", "serving", "ended"} /\ bad \in 0..LastRuc
    /\ observations \subseteq [of : Ruc, answer : Ruc]
    /\ results \subseteq Ruc
    /\ tab \in [Tab -> [at : {"stopped", "next", "lookup", "post"}, ruc : 0..LastRuc]]

Stopped == [at |-> "stopped", ruc |-> 0]

Init ==
    /\ index = 1 /\ complete = FALSE /\ relay = "off" /\ bad = 0
    /\ observations = {} /\ results = {}
    /\ tab = [t \in Tab |-> Stopped]

Moves(t, at, ruc) == tab' = [tab EXCEPT ![t] = [at |-> at, ruc |-> ruc]]

-----------------------------------------------------------------------------

(* run: a new token, so tabs of an earlier run are refused.                 *)
StartRelay ==
    /\ relay # "serving" /\ relay' = "serving"
    /\ index' = 1 /\ complete' = FALSE /\ bad' = 0
    /\ tab' = [t \in Tab |-> Stopped]
    /\ UNCHANGED <<observations, results>>

RunClients(t) ==
    /\ relay = "serving" /\ tab[t].at = "stopped"
    /\ Moves(t, "next", 0)
    /\ UNCHANGED <<index, complete, relay, bad, observations, results>>

(* GET /next                                                                *)
GetNext(t) ==
    /\ relay = "serving" /\ ~complete /\ tab[t].at = "next"
    /\ IF index > LastRuc
       THEN complete' = TRUE /\ Moves(t, "stopped", 0)
       ELSE complete' = complete
            /\ \/ Moves(t, "lookup", index)
               \/ Moves(t, "stopped", 0)    \* the reply is lost
    /\ UNCHANGED <<index, relay, bad, observations, results>>

Lookup(t) ==
    /\ tab[t].at = "lookup"
    /\ Moves(t, "post", tab[t].ruc)
    /\ UNCHANGED <<index, complete, relay, bad, observations, results>>

(* An answer is an observation, a rejection or an error.                    *)
Recorded(answer) ==
    /\ index' = index + 1
    /\ \/ /\ observations' = observations \cup {[of |-> index, answer |-> answer]}
          /\ bad' = bad
       \/ bad' = bad + 1 /\ UNCHANGED observations

AcceptAny(answer) == IF index <= LastRuc THEN Recorded(answer) ELSE UNCHANGED <<index, bad, observations>>

(* RelayState.record: only the current RUC.                                 *)
Accept(answer) ==
    IF index <= LastRuc /\ answer = index THEN Recorded(answer)
    ELSE UNCHANGED <<index, bad, observations>>

(* POST /result; a refusal and a lost reply both end the loop of the tab.   *)
PostResult(t) ==
    /\ relay = "serving" /\ ~complete /\ tab[t].at = "post"
    /\ Accept(tab[t].ruc)
    /\ Moves(t, "stopped", 0) \/ (index' # index /\ Moves(t, "next", 0))
    /\ UNCHANGED <<complete, relay, results>>

TabCloses(t) ==
    /\ tab[t].at # "stopped" /\ Moves(t, "stopped", 0)
    /\ UNCHANGED <<index, complete, relay, bad, observations, results>>

(* The loop is over or interrupted: the export.                             *)
EndRelay ==
    /\ relay = "serving" /\ relay' = "ended"
    /\ results' = {o.of : o \in observations}
    /\ UNCHANGED <<index, complete, bad, observations, tab>>

KillRelay ==
    /\ relay = "serving" /\ relay' = "off"
    /\ UNCHANGED <<index, complete, bad, observations, results, tab>>

-----------------------------------------------------------------------------

Next ==
    \/ StartRelay \/ EndRelay \/ KillRelay
    \/ \E t \in Tab :
         RunClients(t) \/ GetNext(t) \/ Lookup(t) \/ PostResult(t) \/ TabCloses(t)

Spec == Init /\ [][Next]_vars

-----------------------------------------------------------------------------

(* relay.py:43: tabs that overlap and replies that are lost give no RUC the *)
(* answer of another, and a relay that exits with 0 leaves the whole input  *)
(* in its output file.                                                      *)
CapturedInTurn ==
    /\ \A o \in observations : o.of = o.answer
    /\ relay = "ended" /\ index > LastRuc /\ bad = 0 => results = Ruc

=============================================================================
