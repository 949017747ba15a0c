--------------------------- MODULE PortalSessions ---------------------------
(***************************************************************************)
(* Logins, browser sessions, pending-MFA tokens and the login throttle     *)
(* over the ephemeral store: application/{sessions,login,throttle}.py and   *)
(* ephemeral.py.                                                           *)
(*                                                                         *)
(* One statement of the store is one step; a request holds what it read    *)
(* between its statements. A row that expired and a row that was deleted   *)
(* answer alike, so a deleted row is one whose until is 0 and expired rows  *)
(* are swept at once. Form tokens and passkeys are left out.               *)
(***************************************************************************)
EXTENDS Naturals, Sequences, FiniteSets

CONSTANTS
    User,       \* accounts
    WithFactor, \* those with a TOTP secret
    MaySuspend, \* bound: the accounts that are deactivated and reactivated
    Source,     \* the client address that requests come from
    Session,    \* bound: the cookies that can be minted
    Token,      \* bound: the pending-MFA tokens that can be issued
    Request,    \* bound: requests at once
    Idle,       \* SESSION_IDLE, in ticks
    Lifetime,   \* SESSION_LIFETIME
    PendingTtl, \* PENDING_MFA_TTL
    Window,     \* LOGIN_WINDOW
    Limit,      \* LOGIN_ATTEMPT_LIMIT
    LastTick    \* bound: the clock

VARIABLES
    clock,
    active,     \* portal_users.is_active
    session,    \* portal_ephemeral, session:*
    pending,    \* portal_ephemeral, pending_mfa:*
    fails,      \* portal_ephemeral, login_fail:*
    request     \* what each request is doing and holds

vars == <<clock, active, session, pending, fails, request>>

-----------------------------------------------------------------------------

Never == 0                 \* before the first tick: no step-up, no row
Nobody == "nobody"
Key == User \cup {Source}

(* The stored record and its deadline. user is Nobody before it is minted.  *)
SessionRow == [user : User \cup {Nobody}, born : Nat, stamp : Nat, until : Nat]
PendingRow == [user : User \cup {Nobody}, until : Nat]
FailRow == [n : Nat, until : Nat]
Unused == [user |-> Nobody, born |-> Never, stamp |-> Never, until |-> Never]

Phase == {"idle", "extend", "user", "in", "allows", "verify", "count", "clear",
          "issue", "code", "mark"}
Free == [phase |-> "idle", goal |-> "login", user |-> Nobody, sess |-> Nobody,
         read |-> Unused, keys |-> <<>>, token |-> Nobody]

TypeOK ==
    /\ clock \in 1..LastTick
    /\ active \in [User -> BOOLEAN]
    /\ session \in [Session -> SessionRow]
    /\ pending \in [Token -> PendingRow]
    /\ fails \in [Key -> FailRow]
    /\ \A r \in Request : request[r].phase \in Phase

Init ==
    /\ clock = 1
    /\ active = [u \in User |-> TRUE]
    /\ session = [s \in Session |-> Unused]
    /\ pending = [t \in Token |-> [user |-> Nobody, until |-> Never]]
    /\ fails = [k \in Key |-> [n |-> 0, until |-> Never]]
    /\ request = [r \in Request |-> Free]

-----------------------------------------------------------------------------
(* EphemeralStore *)

Live(row) == row.until > clock

ReplaceUnchecked(s, record) ==
    session' = [session EXCEPT ![s] = [record EXCEPT !.until = clock + Idle]]

(* replace: only a live key is written and extended.                        *)
Replace(s, record) ==
    session' = IF Live(session[s])
               THEN [session EXCEPT ![s] = [record EXCEPT !.until = clock + Idle]]
               ELSE session

Discard(s) == session' = [session EXCEPT ![s].until = Never]

TakeByReading(t) == pending' = pending

(* take: DELETE ... RETURNING *)
Take(t) == pending' = [pending EXCEPT ![t].until = Never]

(* increment: the first event of a window sets its deadline.                *)
Increment(k) ==
    fails' = IF Live(fails[k]) THEN [fails EXCEPT ![k].n = @ + 1]
             ELSE [fails EXCEPT ![k] = [n |-> 1, until |-> clock + Window]]

-----------------------------------------------------------------------------

Becomes(r, op) == request' = [request EXCEPT ![r] = op]
At(r, phase) == request[r].phase = phase
Goto(r, phase) == Becomes(r, [request[r] EXCEPT !.phase = phase])

LoginKeys(u) == <<u, Source>>
OverKeys(r, phase) ==
    Becomes(r, [request[r] EXCEPT !.phase = phase, !.keys = LoginKeys(request[r].user)])

Count(r, u) ==
    Becomes(r, [Free EXCEPT !.phase = "count", !.user = u, !.keys = LoginKeys(u)])

(* BrowserSessions.load: the read with the cap on the age, ...              *)
LoadRead(r, s) ==
    /\ At(r, "idle") /\ Live(session[s])
    /\ IF clock - session[s].born > Lifetime
       THEN Discard(s) /\ UNCHANGED request
       ELSE /\ Becomes(r, [Free EXCEPT !.phase = "extend", !.sess = s,
                                       !.user = session[s].user, !.read = session[s]])
            /\ UNCHANGED session
    /\ UNCHANGED <<clock, active, pending, fails>>

(* ... what was read written back, if the key is still live, ...            *)
LoadExtend(r) ==
    /\ At(r, "extend")
    /\ Replace(request[r].sess, request[r].read)
    /\ Becomes(r, IF Live(session[request[r].sess])
                  THEN [request[r] EXCEPT !.phase = "user", !.read = Unused] ELSE Free)
    /\ UNCHANGED <<clock, active, pending, fails>>

(* ... and the account, read again.                                         *)
LoadUser(r) ==
    /\ At(r, "user")
    /\ IF active[request[r].user]
       THEN Goto(r, "in") /\ UNCHANGED session
       ELSE Discard(request[r].sess) /\ Becomes(r, Free)
    /\ UNCHANGED <<clock, active, pending, fails>>

(* A verified request: a page, a logout, or the start of a step-up.         *)
Serve(r) ==
    /\ At(r, "in")
    /\ \/ Becomes(r, Free) /\ UNCHANGED session
       \/ Discard(request[r].sess) /\ Becomes(r, Free)
       \/ /\ Becomes(r, [request[r] EXCEPT !.phase = "allows", !.goal = "stepup",
                                            !.keys = LoginKeys(request[r].user)])
          /\ UNCHANGED session
    /\ UNCHANGED <<clock, active, pending, fails>>

(* mark_step_up_verified: read, and the stamp replaced.                     *)
MarkRead(r) ==
    /\ At(r, "mark") /\ request[r].read = Unused
    /\ Becomes(r, IF Live(session[request[r].sess])
                  THEN [request[r] EXCEPT !.read = session[request[r].sess]] ELSE Free)
    /\ UNCHANGED <<clock, active, session, pending, fails>>

MarkWrite(r) ==
    /\ At(r, "mark") /\ request[r].read # Unused
    /\ Replace(request[r].sess, [request[r].read EXCEPT !.stamp = clock])
    /\ Becomes(r, Free)
    /\ UNCHANGED <<clock, active, pending, fails>>

-----------------------------------------------------------------------------
(* LoginService *)

Attempt(r, u) ==
    /\ At(r, "idle")
    /\ Becomes(r, [Free EXCEPT !.phase = "allows", !.user = u, !.keys = LoginKeys(u)])
    /\ UNCHANGED <<clock, active, session, pending, fails>>

BlockedLate(row) == Live(row) /\ row.n > Limit
Blocked(row) == Live(row) /\ row.n >= Limit

(* LoginThrottle.allows, a read per key; a throttled attempt is not counted. *)
Allows(r) ==
    /\ At(r, "allows")
    /\ LET left == Tail(request[r].keys) IN
         Becomes(r, IF Blocked(fails[Head(request[r].keys)]) THEN Free
                    ELSE [request[r] EXCEPT !.keys = left,
                            !.phase = IF left = <<>> THEN "verify" ELSE "allows"])
    /\ UNCHANGED <<clock, active, session, pending, fails>>

(* The password at a login, the code at a step-up: right or wrong. The code *)
(* of an account without a factor is never right.                           *)
Verify(r) ==
    /\ At(r, "verify")
    /\ \/ Count(r, request[r].user)
       \/ /\ IF request[r].goal = "login" THEN active[request[r].user]
             ELSE request[r].user \in WithFactor
          /\ OverKeys(r, "clear")
    /\ UNCHANGED <<clock, active, session, pending, fails>>

CountFailure(r) ==
    /\ At(r, "count")
    /\ Increment(Head(request[r].keys))
    /\ LET left == Tail(request[r].keys) IN
         Becomes(r, IF left = <<>> THEN Free ELSE [request[r] EXCEPT !.keys = left])
    /\ UNCHANGED <<clock, active, session, pending>>

ClearFailures(r) ==
    /\ At(r, "clear")
    /\ fails' = [fails EXCEPT ![Head(request[r].keys)] = [n |-> 0, until |-> Never]]
    /\ LET left == Tail(request[r].keys) IN
         Becomes(r, [request[r] EXCEPT !.keys = left,
                       !.phase = IF left # <<>> THEN "clear"
                                 ELSE IF request[r].goal = "login" THEN "issue" ELSE "mark"])
    /\ UNCHANGED <<clock, active, session, pending>>

(* mint *)
Mint(u, stamp) ==
    \E s \in Session :
        /\ session[s] = Unused
        /\ session' = [session EXCEPT ![s] = [user |-> u, born |-> clock, stamp |-> stamp,
                                              until |-> clock + Idle]]

(* An account with a second factor gets a pending token, others a session.  *)
Issue(r) ==
    /\ At(r, "issue")
    /\ IF request[r].user \in WithFactor
       THEN \E t \in Token :
              /\ pending[t].user = Nobody
              /\ pending' = [pending EXCEPT ![t] = [user |-> request[r].user,
                                                    until |-> clock + PendingTtl]]
              /\ UNCHANGED session
       ELSE Mint(request[r].user, Never) /\ UNCHANGED pending
    /\ Becomes(r, Free)
    /\ UNCHANGED <<clock, active, fails>>

(* complete_mfa: the token is spent, then the code is looked at.            *)
SpendPending(r, t) ==
    /\ At(r, "idle") /\ Live(pending[t])
    /\ Take(t)
    /\ Becomes(r, [Free EXCEPT !.phase = "code", !.user = pending[t].user, !.token = t])
    /\ UNCHANGED <<clock, active, session, fails>>

CheckCode(r) ==
    /\ At(r, "code")
    /\ \/ Count(r, request[r].user) /\ UNCHANGED session
       \/ Mint(request[r].user, clock) /\ Becomes(r, Free)
    /\ UNCHANGED <<clock, active, pending, fails>>

-----------------------------------------------------------------------------

(* deactivate, reactivate *)
SetActive(u) ==
    /\ active' = [active EXCEPT ![u] = ~@]
    /\ UNCHANGED <<clock, session, pending, fails, request>>

Swept(row) == IF row.until > clock' THEN row ELSE [row EXCEPT !.until = Never]

(* Time passes, and what expired is swept, which no answer can tell.        *)
Tick ==
    /\ clock < LastTick /\ clock' = clock + 1
    /\ session' = [s \in Session |-> Swept(session[s])]
    /\ pending' = [t \in Token |-> Swept(pending[t])]
    /\ fails' = [k \in Key |-> IF fails[k].until > clock' THEN fails[k]
                               ELSE [n |-> 0, until |-> Never]]
    /\ UNCHANGED <<active, request>>

(* The process dies, or the browser goes away: the request ends here.       *)
Abandon(r) ==
    /\ ~At(r, "idle") /\ Becomes(r, Free)
    /\ UNCHANGED <<clock, active, session, pending, fails>>

Step(r) ==
    \/ \E s \in Session : LoadRead(r, s)
    \/ LoadExtend(r) \/ LoadUser(r) \/ Serve(r) \/ MarkRead(r) \/ MarkWrite(r)
    \/ \E u \in User : Attempt(r, u)
    \/ Allows(r) \/ Verify(r) \/ CountFailure(r) \/ ClearFailures(r) \/ Issue(r)
    \/ \E t \in Token : SpendPending(r, t)
    \/ CheckCode(r) \/ Abandon(r)

Next == Tick \/ (\E u \in MaySuspend : SetActive(u)) \/ \E r \in Request : Step(r)

Spec == Init /\ [][Next]_vars

-----------------------------------------------------------------------------

(* sessions.py:89: a session that ended (logged out, expired, refused) is   *)
(* never written back by a request that had read it before.                 *)
EndedStaysEnded ==
    [][\A s \in Session :
         session[s] # Unused /\ ~Live(session[s]) => session'[s].until <= clock']_vars

(* sessions.py:142: a pending token gives one look at a code, to one of the *)
(* requests that present it.                                                *)
OneGuessPerToken ==
    \A r, q \in Request : At(r, "code") /\ At(q, "code") /\ r # q =>
        request[r].token # request[q].token

(* throttle.py:13: failures of an account that only has a password exceed   *)
(* the limit of a window by at most the attempts that were under way.       *)
FailuresBounded ==
    \A u \in User \ WithFactor : fails[u].n <= Limit - 1 + Cardinality(Request)

=============================================================================
