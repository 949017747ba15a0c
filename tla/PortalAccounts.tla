--------------------------- MODULE PortalAccounts ---------------------------
(***************************************************************************)
(* Accounts, second factors, site administrators, a team and its invites:  *)
(* portal.application.provisioning over repository/auth.py and teams.py.   *)
(*                                                                         *)
(* A request first reads (its session, its actor's standing, the rows its  *)
(* service looks at) and writes in a later transaction, so what it read    *)
(* may be stale by then: requests holds what was read.                     *)
(*                                                                         *)
(* A transaction whose deferred triggers look at accounts or passkeys      *)
(* takes two steps: it writes and is checked against what is committed,    *)
(* and commits later. In between it is in open and holds its row locks,    *)
(* and nobody sees what it wrote. The others are one step. A request       *)
(* refused, or whose process dies, ends in GiveUp or Abort. A foreign key  *)
(* does not wait here for a row locked FOR UPDATE, so that there are more  *)
(* overlaps than PostgreSQL allows. An account deleted and made again      *)
(* under its address counts as the same one. Recovery codes and profiles   *)
(* are left out.                                                           *)
(***************************************************************************)
EXTENDS Integers, FiniteSets

CONSTANTS
    User,         \* e-mail addresses; an account may exist for each
    Founder,      \* the administrator of the provisioned installation
    NoUser,
    Passkey,      \* the credentials an account may register
    Explored,     \* bound: which requests of which account are explored
    MaxInFlight,  \* bound: requests between their reads and their commit
    MaxInvites    \* bound: invitations sent to one address

ASSUME FounderAssumption == Founder \in User /\ NoUser \notin User
ASSUME BoundAssumption == MaxInFlight \in Nat /\ MaxInvites \in Nat

VARIABLES
    user,      \* portal_users
    passkeys,  \* portal_webauthn_credentials, by account
    team,      \* portal_teams: who created the team, NoUser before
    role,      \* portal_team_memberships
    invite,    \* portal_team_invites, by address
    requests,  \* requests that read and have not written yet
    open,      \* transactions that are checked and have not committed yet
    raced      \* accounts promoted while a removal of a passkey that they
               \* asked for as no administrator was under way, or the reverse

vars == <<user, passkeys, team, role, invite, requests, open, raced>>

-----------------------------------------------------------------------------

Row == [exists : BOOLEAN, active : BOOLEAN, admin : BOOLEAN, pending : BOOLEAN,
        totp : BOOLEAN,
        by : User \cup {NoUser}]   \* deactivated_by
Blank == [exists |-> FALSE, active |-> FALSE, admin |-> FALSE, pending |-> FALSE,
          totp |-> FALSE, by |-> NoUser]
Created == [Blank EXCEPT !.exists = TRUE, !.active = TRUE]

Role == {"leader", "member"}
Invite == [state : {"none", "pending", "expired", "accepted"}, id : 0..MaxInvites,
           role : Role, by : User \cup {NoUser}]
NoInvite == [state |-> "none", id |-> 0, role |-> "member", by |-> NoUser]

AdminKind == {"create", "deactivate", "reactivate", "delete", "promote", "demote", "found"}
TeamKind == {"add", "invite", "resend", "cancel", "remove"}
OwnKind == {"totp", "no_totp", "passkey", "no_passkey"}

(* What a request carries: its actor, the account or address it is about, a *)
(* role, the invite it read, the passkey it names, and whether the account  *)
(* it read had a pending promotion.                                         *)
Request == [kind : AdminKind \cup TeamKind \cup OwnKind \cup {"redeem", "join", "accept", "pend"},
            by : User, on : User, role : Role, id : 0..MaxInvites,
            keys : SUBSET Passkey, pending : BOOLEAN]

(* An open transaction: the account it is about and either the row and the  *)
(* passkeys it writes, or the passkeys it removes and whether it found an   *)
(* administrator and so locked the row. counted: it holds the installation  *)
(* row since it counted the administrators; deleted: an account was deleted *)
(* since.                                                                   *)
Transaction == [on : User, writes : BOOLEAN, row : Row, keys : SUBSET Passkey,
                locked : BOOLEAN, counted : BOOLEAN, deleted : BOOLEAN]

TypeOK ==
    /\ user \in [User -> Row]
    /\ passkeys \in [User -> SUBSET Passkey]
    /\ team \in User \cup {NoUser}
    /\ role \in [User -> Role \cup {"none"}]
    /\ invite \in [User -> Invite]
    /\ requests \subseteq Request
    /\ open \subseteq Transaction
    /\ raced \subseteq User

HasFactor(x, keys) == x.totp \/ keys # {}
Admins(U) == {u \in User : U[u].exists /\ U[u].active /\ U[u].admin}
Leaders(r) == {u \in User : r[u] = "leader"}

(* portal-admin provision made the founder's account, who enrolled TOTP.    *)
Init ==
    /\ user = [u \in User |-> IF u = Founder
                 THEN [Created EXCEPT !.admin = TRUE, !.totp = TRUE]
                 ELSE Blank]
    /\ passkeys = [u \in User |-> {}]
    /\ team = NoUser
    /\ role = [u \in User |-> "none"]
    /\ invite = [u \in User |-> NoInvite]
    /\ requests = {} /\ open = {} /\ raced = {}

-----------------------------------------------------------------------------
(* The reads of a request *)

(* A session answers for an active account, re-read on every request.       *)
SignedIn(u) == user[u].exists /\ user[u].active
IsAdmin(u) == u \in Admins(user)
IsLeaderOrAdmin(u) == SignedIn(u) /\ (IsAdmin(u) \/ role[u] = "leader")

(* _guard_account_removal *)
Removable(by, on) ==
    /\ by # on /\ user[on].exists
    /\ ~(role[on] = "leader" /\ Cardinality(Leaders(role)) <= 1)

Plain(kind, by, on) ==
    [kind |-> kind, by |-> by, on |-> on, role |-> "member", id |-> 0,
     keys |-> {}, pending |-> FALSE]

Enter(request) ==
    /\ <<request.kind, request.by>> \in Explored
    /\ Cardinality(requests) + Cardinality(open) < MaxInFlight
    /\ requests' = requests \cup {request}
    /\ UNCHANGED <<user, passkeys, team, role, invite, open, raced>>

(* promote_to_site_admin promotes whoever has a factor, and marks others.   *)
AskAdmin(kind, by, on) ==
    /\ IsAdmin(by) /\ kind \in AdminKind
    /\ kind \in {"deactivate", "delete"} => Removable(by, on)
    /\ kind = "demote" => by # on
    /\ kind = "promote" => user[on].exists /\ ~user[on].admin
    /\ Enter(Plain(IF kind = "promote" /\ ~HasFactor(user[on], passkeys[on]) THEN "pend" ELSE kind,
                   by, on))

(* invite_or_add_member adds an account it finds and invites an address;    *)
(* resend_invite sends the invite that is listed again.                     *)
AskTeam(kind, by, on, r) ==
    /\ IsLeaderOrAdmin(by) /\ kind \in TeamKind
    /\ team # NoUser
    /\ kind \in {"add", "remove"} => user[on].exists
    /\ kind = "invite" => ~user[on].exists
    /\ kind \in {"resend", "cancel"} => /\ invite[on].state \in {"pending", "expired"}
    /\ kind = "resend" => r = invite[on].role
    /\ kind \in {"cancel", "remove"} => r = "member"
    /\ Enter([Plain(kind, by, on) EXCEPT
                !.role = r, !.id = IF kind = "cancel" THEN invite[on].id ELSE 0])

(* An account confirms or removes a factor of its own, or a passkey.        *)
AskOwn(kind, u, keys) ==
    /\ SignedIn(u) /\ kind \in OwnKind
    /\ kind \in {"totp", "no_totp"} => keys = {}
    /\ kind = "passkey" => \E p \in Passkey \ passkeys[u] : keys = {p}
    /\ kind = "no_passkey" => \E p \in passkeys[u] : keys = {p}
    /\ Enter([kind |-> kind, by |-> u, on |-> u, role |-> "member", id |-> 0,
              keys |-> keys, pending |-> user[u].pending])

(* redeem_invite: the link names an invite that is valid.                   *)
AskRedeem(u) ==
    /\ invite[u].state = "pending"
    /\ Enter([Plain("redeem", u, u) EXCEPT !.role = invite[u].role, !.id = invite[u].id])

Ask ==
    \/ \E by, on \in User : \E kind \in AdminKind : AskAdmin(kind, by, on)
    \/ \E by, on \in User : \E kind \in TeamKind : \E r \in Role : AskTeam(kind, by, on, r)
    \/ \E u \in User : AskRedeem(u)
    \/ \E u \in User : \E kind \in OwnKind : \E keys \in SUBSET Passkey : AskOwn(kind, u, keys)

-----------------------------------------------------------------------------
(* The writes. First what they are checked for.                             *)

FactorKept(x, keys) == x.admin => HasFactor(x, keys)  \* portal_admin_requires_second_factor
AdminUnchecked(U) == TRUE
AdminKept(U) == Admins(U) # {}                 \* portal_installation_must_have_admin
LeaderUnchecked(r) == TRUE
LeaderKept(r) == Leaders(r) # {}               \* portal_team_must_have_leader

Ends(r) == r \in requests /\ requests' = requests \ {r}
Becomes(u, x) == user' = [user EXCEPT ![u] = x]
OnlyUsers == UNCHANGED <<passkeys, team, role, invite, open, raced>>

(* The row of an account is locked by who updates it, and by the check of a *)
(* removal that found an administrator there.                               *)
Holds(t) == t.writes \/ t.locked
RowFree(u) == \A t \in open : t.on = u => ~Holds(t)

(* An update of one account that is checked and has yet to commit.          *)
Begin(r, u, x, keys, counted) ==
    /\ Ends(r) /\ RowFree(u)
    /\ counted => /\ \A t \in open : ~t.counted
                  /\ AdminKept([user EXCEPT ![u] = x])
    /\ open' = open \cup {[on |-> u, writes |-> TRUE, row |-> x, keys |-> keys,
                           locked |-> FALSE, counted |-> counted, deleted |-> FALSE]}
    /\ UNCHANGED <<user, passkeys, team, role, invite, raced>>

CreateUser(r) ==
    /\ Ends(r) /\ r.kind = "create"
    /\ ~user[r.on].exists
    /\ Becomes(r.on, Created) /\ OnlyUsers

Deactivate(r) ==
    /\ r.kind = "deactivate"
    /\ user[r.on].exists /\ user[r.by].exists
    /\ Begin(r, r.on,
             [user[r.on] EXCEPT !.active = FALSE, !.by = IF @ = NoUser THEN r.by ELSE @],
             {}, TRUE)

Reactivate(r) ==
    /\ r.kind = "reactivate"
    /\ user[r.on].exists
    /\ Begin(r, r.on, [user[r.on] EXCEPT !.active = TRUE, !.by = NoUser], {}, TRUE)

(* Rows with a RESTRICT reference to the account keep it; its membership,   *)
(* and factors go with it.                                                  *)
Referenced(u) ==
    \/ team = u
    \/ \E v \in User \ {u} : user[v].by = u
    \/ \E v \in User : invite[v].state # "none" /\ invite[v].by = u
Delete(r) ==
    /\ Ends(r) /\ r.kind = "delete"
    /\ user[r.on].exists /\ ~Referenced(r.on)
    /\ \A t \in open : t.on # r.on /\ t.row.by # r.on
    /\ Becomes(r.on, Blank)
    /\ passkeys' = [passkeys EXCEPT ![r.on] = {}]
    /\ role' = [role EXCEPT ![r.on] = "none"]
    /\ role[r.on] # "none" => LeaderKept(role')
    /\ open' = {[t EXCEPT !.deleted = TRUE] : t \in open}
    /\ UNCHANGED <<team, invite, raced>>

(* promote_now                                                              *)
Promote(r) ==
    /\ r.kind = "promote"
    /\ user[r.on].exists
    /\ FactorKept([user[r.on] EXCEPT !.admin = TRUE], passkeys[r.on])
    /\ Begin(r, r.on, [user[r.on] EXCEPT !.admin = TRUE, !.pending = FALSE], {}, TRUE)

(* set_pending_site_admin; a row cannot be both.                            *)
MarkPending(r) ==
    /\ Ends(r) /\ r.kind = "pend"
    /\ user[r.on].exists /\ ~user[r.on].admin /\ RowFree(r.on)
    /\ Becomes(r.on, [user[r.on] EXCEPT !.pending = TRUE]) /\ OnlyUsers

Demote(r) ==
    /\ r.kind = "demote"
    /\ user[r.on].exists
    /\ Begin(r, r.on, [user[r.on] EXCEPT !.admin = FALSE, !.pending = FALSE], {}, TRUE)

(* confirm_totp_setup, confirm_passkey_registration: the factor comes with  *)
(* the promotion that was pending when the request read the account.        *)
Confirmed(x, r) == [x EXCEPT !.totp = @ \/ r.kind = "totp",
                             !.admin = @ \/ r.pending, !.pending = @ /\ ~r.pending]

EnrollTotp(r) ==
    /\ r.kind = "totp"
    /\ user[r.by].exists
    /\ Begin(r, r.by, Confirmed(user[r.by], r), {}, TRUE)

RegisterPasskey(r) ==
    /\ r.kind = "passkey"
    /\ user[r.by].exists
    /\ IF r.pending
       THEN /\ FactorKept(Confirmed(user[r.by], r), passkeys[r.by] \cup r.keys)
            /\ Begin(r, r.by, Confirmed(user[r.by], r), r.keys, TRUE)
       ELSE /\ Ends(r)
            /\ passkeys' = [passkeys EXCEPT ![r.by] = @ \cup r.keys]
            /\ UNCHANGED <<user, team, role, invite, open, raced>>

DisableTotp(r) ==
    /\ r.kind = "no_totp"
    /\ user[r.by].exists
    /\ FactorKept([user[r.by] EXCEPT !.totp = FALSE], passkeys[r.by])
    /\ Begin(r, r.by, [user[r.by] EXCEPT !.totp = FALSE], {}, FALSE)

(* The check of a removal locks the row, and counts the factors that stay,  *)
(* only if it finds an administrator there.                                 *)
NoFactorLock(u) == FALSE
FactorLock(u) == user[u].admin
RemovePasskey(r) ==
    /\ Ends(r) /\ r.kind = "no_passkey"
    /\ r.keys # {} /\ r.keys \subseteq passkeys[r.by]
    /\ \A t \in open : t.on = r.by /\ ~t.writes => t.keys # r.keys
    /\ FactorLock(r.by) => /\ RowFree(r.by)
                           /\ FactorKept(user[r.by], passkeys[r.by] \ r.keys)
    /\ open' = open \cup {[on |-> r.by, writes |-> FALSE, row |-> Blank, keys |-> r.keys,
                           locked |-> FactorLock(r.by), counted |-> FALSE, deleted |-> FALSE]}
    /\ UNCHANGED <<user, passkeys, team, role, invite, raced>>

(* A promotion and a removal without the lock do not see each other.        *)
Promotes(t) == t.writes /\ t.row.admin /\ ~user[t.on].admin
Unlocked(t) == ~t.writes /\ ~t.locked
Races(t, o) == /\ t.on = o.on
               /\ (Promotes(t) /\ Unlocked(o)) \/ (Unlocked(t) /\ Promotes(o))

Commit(t) ==
    /\ t \in open /\ open' = open \ {t}
    /\ user' = IF t.writes THEN [user EXCEPT ![t.on] = t.row] ELSE user
    /\ passkeys' = [passkeys EXCEPT ![t.on] = IF t.writes THEN @ \cup t.keys ELSE @ \ t.keys]
    /\ raced' = IF \E o \in open : Races(t, o) THEN raced \cup {t.on} ELSE raced
    /\ UNCHANGED <<team, role, invite, requests>>

Abort(t) ==
    /\ t \in open /\ open' = open \ {t}
    /\ UNCHANGED <<user, passkeys, team, role, invite, requests, raced>>

-----------------------------------------------------------------------------
(* The team *)

(* create_first_team, create_team: the team and its first leader.           *)
FoundTeam(r) ==
    /\ Ends(r) /\ r.kind = "found"
    /\ team = NoUser /\ user[r.by].exists /\ user[r.on].exists
    /\ team' = r.by
    /\ role' = [role EXCEPT ![r.on] = "leader"]
    /\ UNCHANGED <<user, passkeys, invite, open, raced>>

(* _check_not_last_leader, under the lock of the team's row.                *)
MayStepDown(u) == role[u] = "leader" => Cardinality(Leaders(role)) > 1

JoinTeam(r) ==
    /\ user[r.on].exists
    /\ r.role # "leader" => MayStepDown(r.on)
    /\ role' = [role EXCEPT ![r.on] = r.role]
    /\ LeaderKept(role')
    /\ UNCHANGED <<user, passkeys, team, invite, open, raced>>

AddMember(r) == r.kind = "add" /\ Ends(r) /\ JoinTeam(r)

RemoveMember(r) ==
    /\ Ends(r) /\ r.kind = "remove"
    /\ MayStepDown(r.on)
    /\ role' = [role EXCEPT ![r.on] = "none"]
    /\ role[r.on] # "none" => LeaderKept(role')
    /\ UNCHANGED <<user, passkeys, team, invite, open, raced>>

(* create_invite replaces what the address had, under a new id and token.   *)
SendInvite(r) ==
    /\ Ends(r) /\ r.kind \in {"invite", "resend"}
    /\ user[r.by].exists /\ invite[r.on].id < MaxInvites
    /\ invite' = [invite EXCEPT ![r.on] = [state |-> "pending", id |-> @.id + 1,
                                           role |-> r.role, by |-> r.by]]
    /\ UNCHANGED <<user, passkeys, team, role, open, raced>>

CancelInvite(r) ==
    /\ Ends(r) /\ r.kind = "cancel"
    /\ invite' = [invite EXCEPT ![r.on] =
                    IF r.id = @.id THEN [NoInvite EXCEPT !.id = r.id] ELSE @]
    /\ UNCHANGED <<user, passkeys, team, role, open, raced>>

InviteExpires(u) ==
    /\ invite[u].state = "pending"
    /\ invite' = [invite EXCEPT ![u].state = "expired"]
    /\ UNCHANGED <<user, passkeys, team, role, requests, open, raced>>

(* redeem_invite in its three transactions: the account, the membership,    *)
(* and the mark on the invite that was read.                                *)
RedeemAccount(r) ==
    /\ r \in requests /\ r.kind = "redeem" /\ RowFree(r.on)
    /\ Becomes(r.on, IF user[r.on].exists THEN user[r.on] ELSE Created)
    /\ requests' = (requests \ {r}) \cup {[r EXCEPT !.kind = "join"]}
    /\ OnlyUsers

RedeemJoin(r) ==
    /\ r \in requests /\ r.kind = "join"
    /\ JoinTeam(r)
    /\ requests' = (requests \ {r}) \cup {[r EXCEPT !.kind = "accept"]}

RedeemAccept(r) ==
    /\ Ends(r) /\ r.kind = "accept"
    /\ invite' = [invite EXCEPT ![r.on].state =
                    IF invite[r.on].id = r.id /\ @ # "none" THEN "accepted" ELSE @]
    /\ UNCHANGED <<user, passkeys, team, role, open, raced>>

GiveUp(r) == Ends(r) /\ UNCHANGED <<user, passkeys, team, role, invite, open, raced>>

-----------------------------------------------------------------------------

Write(r) ==
    \/ CreateUser(r) \/ Deactivate(r) \/ Reactivate(r) \/ Delete(r)
    \/ Promote(r) \/ MarkPending(r) \/ Demote(r)
    \/ EnrollTotp(r) \/ RegisterPasskey(r) \/ DisableTotp(r) \/ RemovePasskey(r)
    \/ FoundTeam(r) \/ AddMember(r) \/ RemoveMember(r) \/ SendInvite(r) \/ CancelInvite(r)
    \/ RedeemAccount(r) \/ RedeemJoin(r) \/ RedeemAccept(r) \/ GiveUp(r)

Next ==
    \/ Ask
    \/ \E r \in requests : Write(r)
    \/ \E t \in open : Commit(t) \/ Abort(t)
    \/ \E u \in User : InviteExpires(u)

Spec == Init /\ [][Next]_vars

-----------------------------------------------------------------------------
(* Safety *)

(* 001_portal.sql:77: whatever was read before, and however removals of     *)
(* factors, promotions and demotions overlap, a site administrator has a    *)
(* second factor. The accounts in raced are excepted: the trigger locks an  *)
(* account that is an administrator already, so a promotion and a removal   *)
(* that began before it miss each other.                                    *)
AdminsHaveFactor == \A u \in User \ raced : user[u].admin => HasFactor(user[u], passkeys[u])

(* docs/portal.md:66: a team keeps at least one leader, also when accounts  *)
(* are deleted and two leaders step down at once.                           *)
TeamKeepsLeader == team # NoUser => Leaders(role) # {}

(* A leader is an account, and what was deleted leaves nothing behind.      *)
MembersExist ==
    \A u \in User : /\ role[u] # "none" => user[u].exists
                    /\ ~user[u].exists => user[u] = Blank /\ passkeys[u] = {}

(* Demotions and deactivations that overlap never take the last active      *)
(* administrator; only deleting an account can, at once or between the      *)
(* check of another transaction and its commit.                             *)
LastAdminKept ==
    [][Admins(user) # {} /\ Admins(user') = {}
         => \/ \E u \in User : user[u].exists /\ ~user'[u].exists
            \/ \E t \in open \ open' : t.deleted]_vars

(* 001_portal.sql:436 and provisioning.py:969: the installation always      *)
(* retains an active site administrator, whatever requests overlap.         *)
SomeAdminRemains == Admins(user) # {}

=============================================================================
