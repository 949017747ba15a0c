------------------------ MODULE PortalAccountsProofs ------------------------
(***************************************************************************)
(* What portal.application.provisioning keeps for any number of accounts,  *)
(* passkeys and requests, and whatever requests are explored. No part of   *)
(* the invariant rests on what a request read: only on what its            *)
(* transaction was checked for, and on the locks that it holds from its    *)
(* check to its commit.                                                    *)
(***************************************************************************)
EXTENDS PortalAccounts, TLAPS

USE DEF Ends, Becomes

(* An account's row has one holder, and one transaction the installation's. *)
LocksHeld ==
    /\ \A t, o \in open : t.on = o.on /\ Holds(t) /\ Holds(o) => t = o
    /\ \A t, o \in open : t.counted /\ o.counted => t = o

(* An open transaction is about an account that is still there, and a row   *)
(* to be written without counting administrators keeps its standing.        *)
Fits(t) ==
    /\ user[t.on].exists
    /\ t.writes => t.row.exists
    /\ t.writes /\ ~t.counted => /\ t.row.active = user[t.on].active
                                 /\ t.row.admin = user[t.on].admin
    /\ t.counted => t.writes
    /\ t.locked => ~t.writes /\ user[t.on].admin

(* What the check for a second factor found is still so, unless a promotion *)
(* and a removal missed each other.                                         *)
FactorStays(t) ==
    t.on \notin raced =>
        /\ t.writes => FactorKept(t.row, passkeys[t.on] \cup t.keys)
        /\ Unlocked(t) => ~user[t.on].admin
        /\ t.locked => HasFactor(user[t.on], passkeys[t.on] \ t.keys)

(* What the count of the administrators found is still so, unless an        *)
(* account was deleted.                                                     *)
AdminStays(t) ==
    t.counted /\ ~t.deleted => Admins([user EXCEPT ![t.on] = t.row]) # {}

OpenInv == \A t \in open : Fits(t) /\ FactorStays(t) /\ AdminStays(t)

AccountsInv == /\ TypeOK /\ AdminsHaveFactor /\ TeamKeepsLeader /\ MembersExist
               /\ LocksHeld /\ OpenInv

LEMMA InitialAccounts == Init => AccountsInv
<1> SUFFICES ASSUME Init PROVE AccountsInv
  OBVIOUS
<1> USE FounderAssumption, BoundAssumption DEF Init
<1>1. TypeOK
  <2>1. Blank \in Row /\ [Created EXCEPT !.admin = TRUE, !.totp = TRUE] \in Row
    BY DEF Row, Created, Blank
  <2>2. NoInvite \in Invite
    BY DEF NoInvite, Invite, Role
  <2> QED
    BY <2>1, <2>2 DEF TypeOK
<1>2. AdminsHaveFactor
  BY DEF AdminsHaveFactor, HasFactor, Created, Blank
<1>3. TeamKeepsLeader
  BY DEF TeamKeepsLeader
<1>4. MembersExist
  BY DEF MembersExist, Created, Blank
<1>5. LocksHeld /\ OpenInv
  BY DEF LocksHeld, OpenInv
<1> QED
  BY <1>1, <1>2, <1>3, <1>4, <1>5 DEF AccountsInv

-----------------------------------------------------------------------------
(* Steps that leave accounts and open transactions alone *)

LEMMA AccountsAlone ==
  ASSUME AccountsInv, UNCHANGED <<user, passkeys, open, raced>>,
         TypeOK', TeamKeepsLeader', MembersExist'
  PROVE  AccountsInv'
<1>1. AdminsHaveFactor'
  BY DEF AccountsInv, AdminsHaveFactor
<1>2. LocksHeld'
  BY DEF AccountsInv, LocksHeld
<1>3. OpenInv'
  <2> SUFFICES ASSUME NEW t \in open PROVE Fits(t)' /\ FactorStays(t)' /\ AdminStays(t)'
    BY DEF OpenInv
  <2>1. Fits(t) /\ FactorStays(t) /\ AdminStays(t)
    BY DEF AccountsInv, OpenInv
  <2> QED
    BY <2>1 DEF Fits, FactorStays, Unlocked, AdminStays, Admins
<1> QED
  BY <1>1, <1>2, <1>3 DEF AccountsInv

(* An update of one membership of an existing account.                      *)
LEMMA RoleWritten ==
  ASSUME AccountsInv, NEW u \in User, NEW r \in Role \cup {"none"},
         role' = [role EXCEPT ![u] = r], r # "none" => user[u].exists,
         role' = role \/ LeaderKept(role'),
         UNCHANGED <<user, passkeys, team, invite, open, raced>>, requests' \subseteq Request
  PROVE  AccountsInv'
<1>1. TypeOK'
  BY DEF AccountsInv, TypeOK
<1>2. \A v \in User : role'[v] = IF v = u THEN r ELSE role[v]
  BY DEF AccountsInv, TypeOK
<1>3. TeamKeepsLeader'
  BY DEF AccountsInv, TeamKeepsLeader, LeaderKept, Leaders
<1>4. MembersExist'
  BY <1>2 DEF AccountsInv, MembersExist
<1> QED
  BY <1>1, <1>3, <1>4, AccountsAlone

(* A step that leaves the team and its members alone, too.                  *)
LEMMA OnlyInvites ==
  ASSUME AccountsInv, UNCHANGED <<user, passkeys, team, role, open, raced>>,
         invite' \in [User -> Invite], requests' \subseteq Request
  PROVE  AccountsInv'
<1>1. TypeOK'
  BY DEF AccountsInv, TypeOK
<1>2. TeamKeepsLeader' /\ MembersExist'
  BY DEF AccountsInv, TeamKeepsLeader, Leaders, MembersExist
<1> QED
  BY <1>1, <1>2, AccountsAlone

LEMMA AskKeeps ==
  ASSUME AccountsInv, Ask
  PROVE  AccountsInv'
<1> USE BoundAssumption DEF AccountsInv
<1>1. ASSUME NEW request \in Request, Enter(request)
      PROVE  AccountsInv'
  BY <1>1, OnlyInvites DEF Enter, TypeOK
<1>2. ASSUME NEW by \in User, NEW on \in User, NEW kind \in AdminKind, AskAdmin(kind, by, on)
      PROVE  AccountsInv'
  <2> DEFINE asked == IF kind = "promote" /\ ~HasFactor(user[on], passkeys[on]) THEN "pend" ELSE kind
  <2>1. Plain(asked, by, on) \in Request
    BY DEF Plain, Request, Role
  <2> QED
    BY <1>1, <1>2, <2>1 DEF AskAdmin
<1>3. ASSUME NEW by \in User, NEW on \in User, NEW kind \in TeamKind, NEW r \in Role,
             AskTeam(kind, by, on, r)
      PROVE  AccountsInv'
  <2> DEFINE id == IF kind = "cancel" THEN invite[on].id ELSE 0
             request == [Plain(kind, by, on) EXCEPT !.role = r, !.id = id]
  <2>1. id \in 0..MaxInvites
    BY DEF TypeOK, Invite
  <2> HIDE DEF id
  <2>2. request \in Request
    BY <2>1 DEF Plain, Request, Role
  <2> USE DEF id
  <2>3. Enter(request)
    BY <1>3 DEF AskTeam
  <2> QED
    BY <1>1, <2>2, <2>3
<1>4. ASSUME NEW u \in User, AskRedeem(u)
      PROVE  AccountsInv'
  <2> DEFINE request == [Plain("redeem", u, u) EXCEPT !.role = invite[u].role, !.id = invite[u].id]
  <2>1. invite[u].id \in 0..MaxInvites /\ invite[u].role \in Role
    BY DEF TypeOK, Invite
  <2>2. request \in Request
    BY <2>1 DEF Plain, Request, Role
  <2>3. Enter(request)
    BY <1>4 DEF AskRedeem
  <2> QED
    BY <1>1, <2>2, <2>3
<1>5. ASSUME NEW u \in User, NEW kind \in OwnKind, NEW keys \in SUBSET Passkey,
             AskOwn(kind, u, keys)
      PROVE  AccountsInv'
  <2> DEFINE pending == user[u].pending
             request == [kind |-> kind, by |-> u, on |-> u, role |-> "member", id |-> 0,
                         keys |-> keys, pending |-> pending]
  <2>1. pending \in BOOLEAN
    BY DEF TypeOK, Row
  <2> HIDE DEF pending
  <2>2. request \in Request
    BY <2>1 DEF Request, Role
  <2> USE DEF pending
  <2>3. Enter(request)
    BY <1>5 DEF AskOwn
  <2> QED
    BY <1>1, <2>2, <2>3
<1> QED
  BY <1>2, <1>3, <1>4, <1>5 DEF Ask

-----------------------------------------------------------------------------
(* Transactions: their check, their commit and their end *)

(* A transaction enters open.                                               *)
LEMMA Opened ==
  ASSUME AccountsInv, NEW n \in Transaction, open' = open \cup {n},
         UNCHANGED <<user, passkeys, team, role, invite, raced>>, requests' \subseteq Request,
         Fits(n), FactorStays(n), AdminStays(n),
         Holds(n) => RowFree(n.on),
         n.counted => \A t \in open : ~t.counted
  PROVE  AccountsInv'
<1>1. TypeOK'
  BY DEF AccountsInv, TypeOK
<1>2. AdminsHaveFactor' /\ TeamKeepsLeader' /\ MembersExist'
  BY DEF AccountsInv, AdminsHaveFactor, TeamKeepsLeader, Leaders, MembersExist
<1>3. LocksHeld'
  BY DEF AccountsInv, LocksHeld, RowFree
<1>4. OpenInv'
  <2> SUFFICES ASSUME NEW t \in open' PROVE Fits(t)' /\ FactorStays(t)' /\ AdminStays(t)'
    BY DEF OpenInv
  <2>1. Fits(t) /\ FactorStays(t) /\ AdminStays(t)
    BY DEF AccountsInv, OpenInv
  <2> QED
    BY <2>1 DEF Fits, FactorStays, Unlocked, AdminStays, Admins
<1> QED
  BY <1>1, <1>2, <1>3, <1>4 DEF AccountsInv

(* An update of one account that is checked.                                *)
LEMMA BeginKeeps ==
  ASSUME AccountsInv, NEW r \in requests, NEW u \in User, NEW x \in Row,
         NEW keys \in SUBSET Passkey, NEW counted \in BOOLEAN,
         Begin(r, u, x, keys, counted), user[u].exists, x.exists,
         u \notin raced => FactorKept(x, passkeys[u] \cup keys),
         ~counted => x.active = user[u].active /\ x.admin = user[u].admin
  PROVE  AccountsInv'
<1> DEFINE n == [on |-> u, writes |-> TRUE, row |-> x, keys |-> keys,
                 locked |-> FALSE, counted |-> counted, deleted |-> FALSE]
<1>1. n \in Transaction
  BY DEF Transaction
<1>2. requests' \subseteq Request /\ open' = open \cup {n}
  BY DEF Begin, AccountsInv, TypeOK
<1>3. /\ n.on = u /\ n.writes /\ n.row = x /\ n.keys = keys
      /\ ~n.locked /\ n.counted = counted /\ ~n.deleted
  OBVIOUS
<1> HIDE DEF n
<1>4. Fits(n) /\ FactorStays(n)
  BY <1>3 DEF Fits, FactorStays, Unlocked
<1>5. AdminStays(n)
  BY <1>3 DEF AdminStays, Begin, AdminKept
<1>6. RowFree(u) /\ (counted => \A t \in open : ~t.counted)
  BY DEF Begin
<1> QED
  BY <1>1, <1>2, <1>3, <1>4, <1>5, <1>6, Opened DEF Begin

(* A removal of passkeys that is checked.                                   *)
LEMMA RemovalBegins ==
  ASSUME AccountsInv, NEW r \in requests, RemovePasskey(r)
  PROVE  AccountsInv'
<1>1. r \in Request /\ requests \subseteq Request
  BY DEF AccountsInv, TypeOK
<1>2. r.by \in User /\ r.keys \in SUBSET Passkey /\ user[r.by] \in Row
  BY <1>1 DEF Request, AccountsInv, TypeOK
<1> DEFINE u == r.by
           n == [on |-> u, writes |-> FALSE, row |-> Blank, keys |-> r.keys,
                 locked |-> user[u].admin, counted |-> FALSE, deleted |-> FALSE]
<1>3. user[u].admin \in BOOLEAN /\ Blank \in Row
  BY <1>2 DEF Row, Blank
<1>4. n \in Transaction
  BY <1>2, <1>3 DEF Transaction
<1>5. /\ open' = open \cup {n} /\ requests' \subseteq Request
      /\ UNCHANGED <<user, passkeys, team, role, invite, raced>>
      /\ user[u].admin => RowFree(u) /\ FactorKept(user[u], passkeys[u] \ r.keys)
  BY <1>1 DEF RemovePasskey, FactorLock
<1>6. user[u].exists
  <2>1. ASSUME ~user[u].exists PROVE FALSE
    <3>1. r.keys # {} /\ r.keys \subseteq passkeys[u] /\ passkeys[u] = {}
      BY <1>2, <2>1 DEF RemovePasskey, AccountsInv, MembersExist
    <3> QED
      BY <3>1
  <2> QED
    BY <2>1
<1>7. /\ n.on = u /\ ~n.writes /\ n.keys = r.keys
      /\ n.locked = user[u].admin /\ ~n.counted /\ ~n.deleted
  OBVIOUS
<1> HIDE DEF n
<1>8. Fits(n) /\ FactorStays(n) /\ AdminStays(n)
  BY <1>3, <1>5, <1>6, <1>7 DEF Fits, FactorStays, AdminStays, Unlocked, FactorKept
<1>9. Holds(n) => RowFree(n.on)
  BY <1>5, <1>7 DEF Holds
<1> QED
  BY <1>4, <1>5, <1>7, <1>8, <1>9, Opened

(* A row is committed: whoever else is at work on the account removes a     *)
(* passkey without the lock.                                                *)
LEMMA RowCommits ==
  ASSUME AccountsInv, NEW c \in open, c.writes, Commit(c)
  PROVE  AccountsInv'
<1> DEFINE u == c.on
           x == c.row
<1>1. c \in Transaction /\ open \subseteq Transaction
  BY DEF AccountsInv, TypeOK
<1>2. u \in User /\ x \in Row /\ c.keys \in SUBSET Passkey
  BY <1>1 DEF Transaction
<1>3. Fits(c) /\ FactorStays(c)
  BY DEF AccountsInv, OpenInv
<1>4. /\ open' = open \ {c} /\ UNCHANGED <<team, role, invite, requests>>
      /\ \A v \in User : user'[v] = IF v = u THEN x ELSE user[v]
      /\ \A v \in User : passkeys'[v] = IF v = u THEN passkeys[v] \cup c.keys ELSE passkeys[v]
      /\ raced \subseteq raced'
  BY <1>2 DEF Commit, AccountsInv, TypeOK
<1>5. TypeOK'
  BY <1>2 DEF Commit, AccountsInv, TypeOK
<1>6. AdminsHaveFactor'
  BY <1>3, <1>4 DEF AccountsInv, AdminsHaveFactor, FactorStays, FactorKept
<1>7. TeamKeepsLeader' /\ MembersExist'
  BY <1>3, <1>4 DEF AccountsInv, TeamKeepsLeader, Leaders, MembersExist, Fits
<1>8. LocksHeld'
  BY <1>4 DEF AccountsInv, LocksHeld
<1>9. OpenInv'
  <2> SUFFICES ASSUME NEW t \in open, t # c PROVE Fits(t)' /\ FactorStays(t)' /\ AdminStays(t)'
    BY <1>4 DEF OpenInv
  <2>1. Fits(t) /\ FactorStays(t) /\ AdminStays(t) /\ t.on \in User /\ t.row \in Row
    BY <1>1 DEF AccountsInv, OpenInv, Transaction
  <2>2. CASE t.on = u
    <3>1. ~t.writes /\ ~t.locked /\ ~t.counted
      BY <2>1, <2>2 DEF AccountsInv, LocksHeld, Holds, Fits
    <3>2. Fits(t)'
      BY <1>2, <1>3, <1>4, <2>2, <3>1 DEF Fits
    <3>3. ASSUME u \notin raced' PROVE ~x.admin
      <4>1. ~Races(c, t) /\ u \notin raced
        BY <1>4, <3>3 DEF Commit
      <4>2. ~user[u].admin
        BY <2>1, <2>2, <3>1, <4>1 DEF FactorStays, Unlocked
      <4> QED
        BY <2>2, <3>1, <4>1, <4>2 DEF Races, Promotes, Unlocked
    <3>4. FactorStays(t)'
      BY <1>2, <1>4, <2>2, <3>1, <3>3 DEF FactorStays, Unlocked
    <3> QED
      BY <3>1, <3>2, <3>4 DEF AdminStays
  <2>3. CASE t.on # u
    <3>1. Fits(t)' /\ FactorStays(t)'
      BY <1>4, <2>1, <2>3 DEF Fits, FactorStays, Unlocked
    <3>2. ASSUME t.counted, ~t.deleted PROVE Admins([user' EXCEPT ![t.on] = t.row]) # {}
      <4>1. ~c.counted
        BY <3>2 DEF AccountsInv, LocksHeld
      <4>2. PICK v \in Admins([user EXCEPT ![t.on] = t.row]) : TRUE
        BY <2>1, <3>2 DEF AdminStays
      <4>3. v \in User /\ user[v] \in Row /\ user'[v] \in Row
        BY <4>2, <1>5 DEF Admins, AccountsInv, TypeOK
      <4>4. v = u => x.exists /\ x.active = user[u].active /\ x.admin = user[u].admin
        BY <1>3, <4>1 DEF Fits
      <4>5. v \in Admins([user' EXCEPT ![t.on] = t.row])
        BY <1>4, <1>5, <2>1, <2>3, <4>2, <4>3, <4>4 DEF Admins, AccountsInv, TypeOK
      <4> QED
        BY <4>5
    <3>3. AdminStays(t)'
      BY <3>2 DEF AdminStays
    <3> QED
      BY <3>1, <3>3
  <2> QED
    BY <2>2, <2>3
<1> QED
  BY <1>5, <1>6, <1>7, <1>8, <1>9 DEF AccountsInv

(* A removal is committed: if it had no lock, whoever else is at work on    *)
(* the account does not promote it, or the two raced.                       *)
LEMMA RemovalCommits ==
  ASSUME AccountsInv, NEW c \in open, ~c.writes, Commit(c)
  PROVE  AccountsInv'
<1> DEFINE u == c.on
<1>1. c \in Transaction /\ open \subseteq Transaction
  BY DEF AccountsInv, TypeOK
<1>2. u \in User /\ c.keys \in SUBSET Passkey
  BY <1>1 DEF Transaction
<1>3. Fits(c) /\ FactorStays(c)
  BY DEF AccountsInv, OpenInv
<1>4. /\ open' = open \ {c} /\ UNCHANGED <<user, team, role, invite, requests>>
      /\ \A v \in User : passkeys'[v] = IF v = u THEN passkeys[v] \ c.keys ELSE passkeys[v]
      /\ raced \subseteq raced'
  BY <1>2 DEF Commit, AccountsInv, TypeOK
<1>5. TypeOK'
  BY <1>2 DEF Commit, AccountsInv, TypeOK
<1>6. AdminsHaveFactor'
  <2> SUFFICES ASSUME NEW v \in User \ raced', user[v].admin
               PROVE  HasFactor(user[v], passkeys'[v])
    BY <1>4 DEF AdminsHaveFactor
  <2>1. CASE v = u
    BY <1>3, <1>4, <2>1 DEF FactorStays, Unlocked
  <2>2. CASE v # u
    BY <1>4, <2>2 DEF AccountsInv, AdminsHaveFactor
  <2> QED
    BY <2>1, <2>2
<1>7. TeamKeepsLeader' /\ MembersExist'
  BY <1>3, <1>4 DEF AccountsInv, TeamKeepsLeader, Leaders, MembersExist, Fits
<1>8. LocksHeld'
  BY <1>4 DEF AccountsInv, LocksHeld
<1>9. OpenInv'
  <2> SUFFICES ASSUME NEW t \in open, t # c PROVE Fits(t)' /\ FactorStays(t)' /\ AdminStays(t)'
    BY <1>4 DEF OpenInv
  <2>1. Fits(t) /\ FactorStays(t) /\ AdminStays(t) /\ t.on \in User
    BY <1>1 DEF AccountsInv, OpenInv, Transaction
  <2>2. Fits(t)' /\ AdminStays(t)'
    BY <1>4, <2>1 DEF Fits, AdminStays, Admins
  <2>3. CASE t.on = u
    <3> SUFFICES ASSUME u \notin raced' PROVE FactorStays(t)'
      BY <2>2, <2>3 DEF FactorStays
    <3>1. ~Races(c, t) /\ u \notin raced
      BY <1>4 DEF Commit
    <3>2. CASE c.locked
      <4>1. ~t.writes /\ ~t.locked
        BY <2>3, <3>2 DEF AccountsInv, LocksHeld, Holds
      <4>2. FALSE
        BY <1>3, <2>1, <2>3, <3>1, <3>2, <4>1 DEF Fits, FactorStays, Unlocked
      <4> QED
        BY <4>2
    <3>3. CASE ~c.locked
      <4>1. ~user[u].admin
        BY <1>3, <3>1, <3>3 DEF FactorStays, Unlocked
      <4>2. t.writes => ~t.row.admin
        BY <2>3, <3>1, <3>3, <4>1 DEF Races, Promotes, Unlocked
      <4>3. ~t.locked
        BY <2>1, <2>3, <4>1 DEF Fits
      <4> QED
        BY <1>4, <2>3, <4>1, <4>2, <4>3 DEF FactorStays, FactorKept
    <3> QED
      BY <3>2, <3>3
  <2>4. CASE t.on # u
    BY <1>4, <2>1, <2>2, <2>4 DEF FactorStays, Unlocked
  <2> QED
    BY <2>3, <2>4
<1> QED
  BY <1>5, <1>6, <1>7, <1>8, <1>9 DEF AccountsInv

LEMMA AbortKeeps ==
  ASSUME AccountsInv, NEW c \in open, Abort(c)
  PROVE  AccountsInv'
<1>1. TypeOK'
  BY DEF Abort, AccountsInv, TypeOK
<1>2. AdminsHaveFactor' /\ TeamKeepsLeader' /\ MembersExist' /\ LocksHeld'
  BY DEF Abort, AccountsInv, AdminsHaveFactor, TeamKeepsLeader, Leaders, MembersExist, LocksHeld
<1>3. OpenInv'
  <2> SUFFICES ASSUME NEW t \in open PROVE Fits(t)' /\ FactorStays(t)' /\ AdminStays(t)'
    BY DEF OpenInv, Abort
  <2>1. Fits(t) /\ FactorStays(t) /\ AdminStays(t)
    BY DEF AccountsInv, OpenInv
  <2> QED
    BY <2>1 DEF Abort, Fits, FactorStays, Unlocked, AdminStays, Admins
<1> QED
  BY <1>1, <1>2, <1>3 DEF AccountsInv

-----------------------------------------------------------------------------
(* The writes of accounts and factors *)

(* A row is written in one step, and nobody holds it.                       *)
LEMMA RowWritten ==
  ASSUME AccountsInv, NEW u \in User, NEW x \in Row, Becomes(u, x), OnlyUsers,
         requests' \subseteq Request, x.exists, RowFree(u),
         u \in Admins(user) => x.active /\ x.admin,
         x.admin = user[u].admin, x.totp = user[u].totp
  PROVE  AccountsInv'
<1> USE DEF OnlyUsers
<1>1. TypeOK'
  BY DEF AccountsInv, TypeOK
<1>2. \A v \in User : user'[v] = IF v = u THEN x ELSE user[v]
  BY DEF AccountsInv, TypeOK
<1>3. AdminsHaveFactor'
  BY <1>2 DEF AccountsInv, AdminsHaveFactor, HasFactor
<1>4. TeamKeepsLeader' /\ MembersExist'
  BY <1>2 DEF AccountsInv, TeamKeepsLeader, Leaders, MembersExist
<1>5. LocksHeld'
  BY DEF AccountsInv, LocksHeld
<1>6. OpenInv'
  <2> SUFFICES ASSUME NEW t \in open PROVE Fits(t)' /\ FactorStays(t)' /\ AdminStays(t)'
    BY DEF OpenInv
  <2>1. /\ Fits(t) /\ FactorStays(t) /\ AdminStays(t)
        /\ t.on \in User /\ t.row \in Row
    BY DEF AccountsInv, OpenInv, TypeOK, Transaction
  <2>2. t.on = u => ~t.writes /\ ~t.locked
    BY DEF RowFree, Holds
  <2>3. Fits(t)'
    BY <1>2, <2>1, <2>2 DEF Fits
  <2>4. FactorStays(t)'
    BY <1>2, <2>1, <2>2 DEF FactorStays, Unlocked
  <2>5. ASSUME t.counted, ~t.deleted PROVE Admins([user' EXCEPT ![t.on] = t.row]) # {}
    <3>1. t.on # u
      BY <2>1, <2>2, <2>5 DEF Fits
    <3>2. PICK v \in Admins([user EXCEPT ![t.on] = t.row]) : TRUE
      BY <2>1, <2>5 DEF AdminStays
    <3>3. v = u => u \in Admins(user)
      BY <3>1, <3>2 DEF Admins, AccountsInv, TypeOK
    <3>4. v \in Admins([user' EXCEPT ![t.on] = t.row])
      BY <1>1, <1>2, <2>1, <3>1, <3>2, <3>3 DEF Admins, AccountsInv, TypeOK
    <3> QED
      BY <3>4
  <2>6. AdminStays(t)'
    BY <2>5 DEF AdminStays
  <2> QED
    BY <2>3, <2>4, <2>6
<1> QED
  BY <1>1, <1>3, <1>4, <1>5, <1>6 DEF AccountsInv

(* A passkey registered without a promotion.                                *)
LEMMA PasskeyAdded ==
  ASSUME AccountsInv, NEW u \in User, NEW keys \in SUBSET Passkey, user[u].exists,
         passkeys' = [passkeys EXCEPT ![u] = @ \cup keys],
         UNCHANGED <<user, team, role, invite, open, raced>>, requests' \subseteq Request
  PROVE  AccountsInv'
<1>1. TypeOK'
  BY DEF AccountsInv, TypeOK
<1>2. \A v \in User : passkeys'[v] = IF v = u THEN passkeys[v] \cup keys ELSE passkeys[v]
  BY DEF AccountsInv, TypeOK
<1>3. AdminsHaveFactor'
  BY <1>2 DEF AccountsInv, AdminsHaveFactor, HasFactor
<1>4. TeamKeepsLeader' /\ MembersExist' /\ LocksHeld'
  BY <1>2 DEF AccountsInv, TeamKeepsLeader, Leaders, MembersExist, LocksHeld
<1>5. OpenInv'
  <2> SUFFICES ASSUME NEW t \in open PROVE Fits(t)' /\ FactorStays(t)' /\ AdminStays(t)'
    BY DEF OpenInv
  <2>1. Fits(t) /\ FactorStays(t) /\ AdminStays(t) /\ t.on \in User
    BY DEF AccountsInv, OpenInv, TypeOK, Transaction
  <2> QED
    BY <1>2, <2>1 DEF Fits, FactorStays, FactorKept, HasFactor, Unlocked, AdminStays, Admins
<1> QED
  BY <1>1, <1>3, <1>4, <1>5 DEF AccountsInv

LEMMA AccountWritesKeep ==
  ASSUME AccountsInv, NEW r \in requests,
         \/ CreateUser(r) \/ Deactivate(r) \/ Reactivate(r)
         \/ Promote(r) \/ MarkPending(r) \/ Demote(r) \/ RedeemAccount(r)
         \/ EnrollTotp(r) \/ RegisterPasskey(r) \/ DisableTotp(r) \/ RemovePasskey(r)
  PROVE  AccountsInv'
<1>1. r \in Request /\ requests \subseteq Request
  BY DEF AccountsInv, TypeOK
<1>2. /\ r.on \in User /\ r.by \in User /\ r.pending \in BOOLEAN /\ r.keys \in SUBSET Passkey
      /\ requests \ {r} \subseteq Request
  BY <1>1 DEF Request
<1> DEFINE on == user[r.on]
           by == user[r.by]
<1>3. /\ on \in Row /\ by \in Row
      /\ r.on \notin raced => FactorKept(on, passkeys[r.on])
      /\ r.by \notin raced => FactorKept(by, passkeys[r.by])
  BY <1>2 DEF AccountsInv, TypeOK, AdminsHaveFactor, FactorKept
(* A row that is made: nobody was at work on the account.                   *)
<1>4. ASSUME ~on.exists, Becomes(r.on, Created), OnlyUsers, requests' \subseteq Request
      PROVE  AccountsInv'
  <2>1. on = Blank /\ Created \in Row /\ Created.exists /\ ~Created.admin /\ ~Created.totp
    BY <1>2, <1>4, FounderAssumption DEF AccountsInv, MembersExist, Created, Blank, Row
  <2>2. RowFree(r.on)
    BY <1>4 DEF RowFree, AccountsInv, OpenInv, Fits
  <2>3. ~on.admin /\ ~on.totp /\ r.on \notin Admins(user)
    BY <1>4, <2>1 DEF Blank, Admins
  <2>4. Created.admin = on.admin /\ Created.totp = on.totp
    BY <2>1 DEF Created, Blank
  <2> QED
    BY <1>2, <1>4, <2>1, <2>2, <2>3, <2>4, RowWritten
<1>5. CASE CreateUser(r)
  BY <1>2, <1>4, <1>5 DEF CreateUser
<1>6. CASE Deactivate(r)
  <2> DEFINE x == [on EXCEPT !.active = FALSE, !.by = IF @ = NoUser THEN r.by ELSE @]
  <2>1. x \in Row /\ x.exists = on.exists /\ x.admin = on.admin /\ x.totp = on.totp
    BY <1>2, <1>3 DEF Row
  <2>2. r.on \notin raced => FactorKept(x, passkeys[r.on] \cup {})
    BY <1>3, <2>1 DEF FactorKept, HasFactor
  <2>3. Begin(r, r.on, x, {}, TRUE) /\ on.exists
    BY <1>6 DEF Deactivate
  <2> HIDE DEF x
  <2> QED
    BY <1>2, <2>1, <2>2, <2>3, BeginKeeps
<1>7. CASE Reactivate(r)
  <2> DEFINE x == [on EXCEPT !.active = TRUE, !.by = NoUser]
  <2>1. x \in Row /\ x.exists = on.exists /\ x.admin = on.admin /\ x.totp = on.totp
    BY <1>2, <1>3 DEF Row
  <2>2. r.on \notin raced => FactorKept(x, passkeys[r.on] \cup {})
    BY <1>3, <2>1 DEF FactorKept, HasFactor
  <2>3. Begin(r, r.on, x, {}, TRUE) /\ on.exists
    BY <1>7 DEF Reactivate
  <2> HIDE DEF x
  <2> QED
    BY <1>2, <2>1, <2>2, <2>3, BeginKeeps
<1>8. CASE Promote(r)
  <2> DEFINE x == [on EXCEPT !.admin = TRUE, !.pending = FALSE]
             y == [on EXCEPT !.admin = TRUE]
  <2>1. x \in Row /\ x.exists = on.exists /\ y.admin /\ x.totp = on.totp /\ y.totp = on.totp
    BY <1>2, <1>3 DEF Row
  <2>2. Begin(r, r.on, x, {}, TRUE) /\ on.exists /\ FactorKept(y, passkeys[r.on])
    BY <1>8 DEF Promote
  <2> HIDE DEF x, y
  <2>3. FactorKept(x, passkeys[r.on] \cup {})
    BY <2>1, <2>2 DEF FactorKept, HasFactor
  <2> QED
    BY <1>2, <2>1, <2>2, <2>3, BeginKeeps
<1>9. CASE MarkPending(r)
  <2> DEFINE x == [on EXCEPT !.pending = TRUE]
  <2>1. /\ x \in Row /\ x.exists = on.exists /\ x.active = on.active
        /\ x.admin = on.admin /\ x.totp = on.totp
    BY <1>2, <1>3 DEF Row
  <2>2. /\ Becomes(r.on, x) /\ OnlyUsers /\ on.exists /\ RowFree(r.on)
        /\ requests' \subseteq Request
    BY <1>2, <1>9 DEF MarkPending
  <2> HIDE DEF x
  <2>3. r.on \in Admins(user) => x.active /\ x.admin
    BY <2>1 DEF Admins
  <2> QED
    BY <1>2, <2>1, <2>2, <2>3, RowWritten
<1>10. CASE Demote(r)
  <2> DEFINE x == [on EXCEPT !.admin = FALSE, !.pending = FALSE]
  <2>1. x \in Row /\ x.exists = on.exists /\ ~x.admin
    BY <1>2, <1>3 DEF Row
  <2>2. Begin(r, r.on, x, {}, TRUE) /\ on.exists
    BY <1>10 DEF Demote
  <2> HIDE DEF x
  <2>3. FactorKept(x, passkeys[r.on] \cup {})
    BY <2>1 DEF FactorKept
  <2> QED
    BY <1>2, <2>1, <2>2, <2>3, BeginKeeps
<1>11. Confirmed(by, r) \in Row /\ Confirmed(by, r).exists = by.exists
  <2> DEFINE totp    == by.totp \/ r.kind = "totp"
             admin   == by.admin \/ r.pending
             pending == by.pending /\ ~r.pending
  <2>1. totp \in BOOLEAN /\ admin \in BOOLEAN /\ pending \in BOOLEAN
    BY <1>3 DEF Row
  <2>2. Confirmed(by, r) = [by EXCEPT !.totp = totp, !.admin = admin, !.pending = pending]
    BY DEF Confirmed
  <2> HIDE DEF totp, admin, pending
  <2> QED
    BY <1>3, <2>1, <2>2 DEF Row
<1>12. CASE EnrollTotp(r)
  <2>1. Begin(r, r.by, Confirmed(by, r), {}, TRUE) /\ by.exists /\ r.kind = "totp"
    BY <1>12 DEF EnrollTotp
  <2>2. Confirmed(by, r).totp
    BY <1>3, <2>1 DEF Confirmed, Row
  <2>3. FactorKept(Confirmed(by, r), passkeys[r.by] \cup {})
    BY <2>2 DEF FactorKept, HasFactor
  <2> QED
    BY <1>2, <1>11, <2>1, <2>3, BeginKeeps
<1>13. CASE RegisterPasskey(r)
  <2>1. CASE r.pending
    <3>1. /\ Begin(r, r.by, Confirmed(by, r), r.keys, TRUE) /\ by.exists
          /\ FactorKept(Confirmed(by, r), passkeys[r.by] \cup r.keys)
      BY <1>13, <2>1 DEF RegisterPasskey
    <3> QED
      BY <1>2, <1>11, <3>1, BeginKeeps
  <2>2. CASE ~r.pending
    BY <1>2, <1>13, <2>2, PasskeyAdded DEF RegisterPasskey
  <2> QED
    BY <2>1, <2>2
<1>14. CASE DisableTotp(r)
  <2> DEFINE x == [by EXCEPT !.totp = FALSE]
  <2>1. x \in Row /\ x.exists = by.exists /\ x.active = by.active /\ x.admin = by.admin
    BY <1>2, <1>3 DEF Row
  <2>2. Begin(r, r.by, x, {}, FALSE) /\ by.exists /\ FactorKept(x, passkeys[r.by])
    BY <1>14 DEF DisableTotp
  <2> HIDE DEF x
  <2>3. FactorKept(x, passkeys[r.by] \cup {})
    BY <2>2 DEF FactorKept, HasFactor
  <2> QED
    BY <1>2, <2>1, <2>2, <2>3, BeginKeeps
<1>15. CASE RemovePasskey(r)
  BY <1>15, RemovalBegins
<1>16. CASE RedeemAccount(r)
  <2>1. [r EXCEPT !.kind = "join"] \in Request
    BY <1>1 DEF Request
  <2>2. requests' \subseteq Request /\ OnlyUsers /\ RowFree(r.on)
    BY <1>2, <1>16, <2>1 DEF RedeemAccount
  <2>3. CASE on.exists
    <3>1. Becomes(r.on, on)
      BY <1>16, <2>3 DEF RedeemAccount
    <3>2. r.on \in Admins(user) => on.active /\ on.admin
      BY DEF Admins
    <3> QED
      BY <1>2, <1>3, <2>2, <2>3, <3>1, <3>2, RowWritten
  <2>4. CASE ~on.exists
    BY <1>4, <1>16, <2>2, <2>4 DEF RedeemAccount
  <2> QED
    BY <2>3, <2>4
<1> QED
  BY <1>5, <1>6, <1>7, <1>8, <1>9, <1>10, <1>12, <1>13, <1>14, <1>15, <1>16

(* Deleting an account takes its membership with it; it waits for who is at *)
(* work on the account, and the others do not see it.                       *)
LEMMA DeleteKeeps ==
  ASSUME AccountsInv, NEW r \in requests, Delete(r)
  PROVE  AccountsInv'
<1>1. r.on \in User /\ requests \ {r} \subseteq Request /\ open \subseteq Transaction
  BY DEF AccountsInv, TypeOK, Request
<1> DEFINE blind(t) == [t EXCEPT !.deleted = TRUE]
<1>2. Blank \in Row
  BY FounderAssumption DEF Blank, Row
<1>3. \A t \in open : /\ blind(t) \in Transaction /\ blind(t).deleted
                      /\ blind(t).on = t.on /\ blind(t).writes = t.writes
                      /\ blind(t).row = t.row /\ blind(t).keys = t.keys
                      /\ blind(t).locked = t.locked /\ blind(t).counted = t.counted
  BY <1>1 DEF Transaction
<1>4. open' = {blind(t) : t \in open} /\ \A t \in open : t.on # r.on
  BY DEF Delete
<1> HIDE DEF blind
<1>5. TypeOK'
  BY <1>1, <1>2, <1>3, <1>4 DEF Delete, AccountsInv, TypeOK
<1>6. \A v \in User : /\ user'[v] = IF v = r.on THEN Blank ELSE user[v]
                      /\ passkeys'[v] = IF v = r.on THEN {} ELSE passkeys[v]
                      /\ role'[v] = IF v = r.on THEN "none" ELSE role[v]
  BY <1>1 DEF Delete, AccountsInv, TypeOK
<1>7. UNCHANGED <<team, raced>>
  BY DEF Delete
<1>8. AdminsHaveFactor'
  BY <1>6, <1>7 DEF AccountsInv, AdminsHaveFactor, Blank
<1>9. TeamKeepsLeader'
  <2>1. role[r.on] = "none" => Leaders(role') = Leaders(role)
    BY <1>6 DEF Leaders
  <2> QED
    BY <2>1 DEF Delete, AccountsInv, TeamKeepsLeader, LeaderKept
<1>10. MembersExist'
  BY <1>6 DEF AccountsInv, MembersExist
<1>11. LocksHeld'
  BY <1>3, <1>4 DEF AccountsInv, LocksHeld, Holds
<1>12. OpenInv'
  <2> SUFFICES ASSUME NEW t \in open
               PROVE  Fits(blind(t))' /\ FactorStays(blind(t))' /\ AdminStays(blind(t))'
    BY <1>4 DEF OpenInv
  <2>1. Fits(t) /\ FactorStays(t) /\ t.on \in User /\ t.on # r.on
    BY <1>1, <1>4 DEF AccountsInv, OpenInv, Transaction
  <2>2. Fits(blind(t))'
    BY <1>3, <1>6, <2>1 DEF Fits
  <2>3. FactorStays(blind(t))'
    BY <1>3, <1>6, <1>7, <2>1 DEF FactorStays, Unlocked
  <2>4. AdminStays(blind(t))'
    BY <1>3 DEF AdminStays
  <2> QED
    BY <2>2, <2>3, <2>4
<1> QED
  BY <1>5, <1>8, <1>9, <1>10, <1>11, <1>12 DEF AccountsInv

LEMMA TeamWritesKeep ==
  ASSUME AccountsInv, NEW r \in requests,
         FoundTeam(r) \/ AddMember(r) \/ RemoveMember(r) \/ RedeemJoin(r)
  PROVE  AccountsInv'
<1> USE DEF AccountsInv
<1>1. r \in Request /\ requests \subseteq Request
  BY DEF TypeOK
<1>2. /\ r.on \in User /\ r.by \in User /\ r.role \in Role
      /\ requests \ {r} \subseteq Request
  BY <1>1 DEF Request
<1>3. CASE FoundTeam(r)
  <2>1. /\ TypeOK' /\ UNCHANGED user
        /\ \A v \in User : role'[v] = IF v = r.on THEN "leader" ELSE role[v]
    BY <1>2, <1>3 DEF FoundTeam, TypeOK, Role
  <2>2. r.on \in Leaders(role')
    BY <1>2, <2>1 DEF Leaders
  <2>3. TeamKeepsLeader'
    BY <2>2 DEF TeamKeepsLeader
  <2>4. MembersExist'
    BY <1>3, <2>1 DEF FoundTeam, MembersExist
  <2>5. UNCHANGED <<user, passkeys, open, raced>>
    BY <1>3 DEF FoundTeam
  <2> QED
    BY <2>1, <2>3, <2>4, <2>5, AccountsAlone
<1>4. ASSUME JoinTeam(r), requests' \subseteq Request
      PROVE  AccountsInv'
  BY <1>2, <1>4, RoleWritten DEF JoinTeam
<1>5. CASE AddMember(r)
  BY <1>2, <1>4, <1>5 DEF AddMember
<1>6. CASE RemoveMember(r)
  <2>1. role[r.on] = "none" => role' = role
    BY <1>2, <1>6 DEF RemoveMember, TypeOK
  <2> QED
    BY <1>2, <1>6, <2>1, RoleWritten DEF RemoveMember
<1>7. CASE RedeemJoin(r)
  <2>1. [r EXCEPT !.kind = "accept"] \in Request
    BY <1>1 DEF Request
  <2> QED
    BY <1>2, <1>4, <1>7, <2>1 DEF RedeemJoin
<1> QED
  BY <1>3, <1>5, <1>6, <1>7

LEMMA InviteWritesKeep ==
  ASSUME AccountsInv, NEW r \in requests,
         SendInvite(r) \/ CancelInvite(r) \/ RedeemAccept(r) \/ GiveUp(r)
  PROVE  AccountsInv'
<1> USE BoundAssumption DEF AccountsInv
<1>1. r \in Request /\ requests \subseteq Request /\ invite \in [User -> Invite]
  BY DEF TypeOK
<1>2. /\ r.on \in User /\ r.by \in User /\ r.role \in Role /\ r.id \in 0..MaxInvites
      /\ requests \ {r} \subseteq Request
  BY <1>1 DEF Request
<1>3. CASE SendInvite(r)
  <2> DEFINE sent == [state |-> "pending", id |-> invite[r.on].id + 1, role |-> r.role, by |-> r.by]
  <2>1. sent \in Invite
    BY <1>1, <1>2, <1>3 DEF SendInvite, Invite
  <2>2. invite' = [invite EXCEPT ![r.on] = sent]
    BY <1>3 DEF SendInvite
  <2>3. invite' \in [User -> Invite]
    BY <1>1, <2>1, <2>2
  <2> QED
    BY <1>2, <1>3, <2>3, OnlyInvites DEF SendInvite
<1>4. CASE CancelInvite(r)
  <2>1. [NoInvite EXCEPT !.id = r.id] \in Invite
    BY <1>2 DEF NoInvite, Invite, Role
  <2>2. invite' \in [User -> Invite]
    BY <1>1, <1>4, <2>1 DEF CancelInvite
  <2> QED
    BY <1>2, <1>4, <2>2, OnlyInvites DEF CancelInvite
<1>5. CASE RedeemAccept(r)
  <2>1. invite' \in [User -> Invite]
    BY <1>1, <1>2, <1>5 DEF RedeemAccept, Invite
  <2> QED
    BY <1>2, <1>5, <2>1, OnlyInvites DEF RedeemAccept
<1>6. CASE GiveUp(r)
  BY <1>1, <1>2, <1>6, OnlyInvites DEF GiveUp
<1> QED
  BY <1>3, <1>4, <1>5, <1>6

LEMMA NextKeeps ==
  ASSUME AccountsInv, [Next]_vars
  PROVE  AccountsInv'
<1>1. CASE Ask
  BY <1>1, AskKeeps
<1>2. ASSUME NEW r \in requests, Write(r) PROVE AccountsInv'
  BY <1>2, AccountWritesKeep, DeleteKeeps, TeamWritesKeep, InviteWritesKeep DEF Write
<1>3. ASSUME NEW t \in open, Commit(t) \/ Abort(t) PROVE AccountsInv'
  BY <1>3, RowCommits, RemovalCommits, AbortKeeps
<1>4. ASSUME NEW u \in User, InviteExpires(u) PROVE AccountsInv'
  <2>1. invite' \in [User -> Invite]
    BY <1>4 DEF InviteExpires, AccountsInv, TypeOK, Invite
  <2> QED
    BY <1>4, <2>1, OnlyInvites DEF InviteExpires, AccountsInv, TypeOK
<1>5. CASE UNCHANGED vars
  BY <1>5, OnlyInvites DEF vars, AccountsInv, TypeOK
<1> QED
  BY <1>1, <1>2, <1>3, <1>4, <1>5 DEF Next

-----------------------------------------------------------------------------

(* The accounts, the team and its members fit together in every reachable   *)
(* state, and what an open transaction was checked for holds until its      *)
(* commit but for the races named, whatever requests overlap                *)
(* (provisioning.py and the triggers of 001_portal.sql).                    *)
THEOREM AccountsSafety == Spec => []AccountsInv
<1>1. AccountsInv /\ [Next]_vars => AccountsInv'
  BY NextKeeps
<1> QED
  BY InitialAccounts, <1>1, PTL DEF Spec

(* 001_portal.sql:77: every site administrator has a second factor, unless  *)
(* its promotion and an unlocked removal of a passkey missed each other.    *)
THEOREM AdminsHaveFactorHolds == Spec => []AdminsHaveFactor
<1>1. AccountsInv => AdminsHaveFactor
  BY DEF AccountsInv
<1> QED
  BY AccountsSafety, <1>1, PTL

(* docs/portal.md:66: a team keeps a leader.                                *)
THEOREM TeamKeepsLeaderHolds == Spec => []TeamKeepsLeader
<1>1. AccountsInv => TeamKeepsLeader
  BY DEF AccountsInv
<1> QED
  BY AccountsSafety, <1>1, PTL

-----------------------------------------------------------------------------
(* The last administrator *)

(* A commit keeps an administrator, unless an account was deleted since it  *)
(* counted them, or else it does not touch anyone's standing.               *)
LEMMA CommitKeepsAdmin ==
  ASSUME AccountsInv, NEW t \in open, Commit(t), ~t.deleted, Admins(user) # {}
  PROVE  Admins(user') # {}
<1>1. /\ Fits(t) /\ AdminStays(t) /\ t.on \in User /\ t.row \in Row
      /\ user \in [User -> Row]
  BY DEF AccountsInv, OpenInv, TypeOK, Transaction
<1>2. CASE t.counted
  BY <1>1, <1>2 DEF Commit, AdminStays, Fits
<1>3. CASE t.writes /\ ~t.counted
  <2>1. PICK v \in Admins(user) : TRUE
    OBVIOUS
  <2>2. \A w \in User : user'[w] = IF w = t.on THEN t.row ELSE user[w]
    BY <1>1, <1>3 DEF Commit
  <2>3. v \in Admins(user')
    BY <1>1, <1>3, <2>1, <2>2 DEF Fits, Admins
  <2> QED
    BY <2>3
<1>4. CASE ~t.writes
  BY <1>4 DEF Commit, Admins
<1> QED
  BY <1>2, <1>3, <1>4

(* A row written in one step takes nobody's standing away.                  *)
LEMMA WriteKeepsAdmin ==
  ASSUME AccountsInv, NEW r \in requests, Write(r), Admins(user) # {}
  PROVE  Delete(r) \/ Admins(user') # {}
<1>1. r.on \in User /\ user \in [User -> Row]
  BY DEF AccountsInv, TypeOK, Request
<1>2. PICK v \in Admins(user) : TRUE
  OBVIOUS
<1>3. CASE CreateUser(r) \/ RedeemAccount(r) \/ MarkPending(r)
  <2>1. \E x : /\ Becomes(r.on, x)
               /\ r.on \in Admins(user) => x.exists /\ x.active /\ x.admin
    <3>1. r.on \in Admins(user) =>
            /\ user[r.on].exists
            /\ [user[r.on] EXCEPT !.pending = TRUE].exists
            /\ [user[r.on] EXCEPT !.pending = TRUE].active
            /\ [user[r.on] EXCEPT !.pending = TRUE].admin
      BY <1>1 DEF Admins, Row
    <3>2. CASE CreateUser(r)
      BY <3>1, <3>2 DEF CreateUser
    <3>3. CASE RedeemAccount(r)
      BY <3>1, <3>3 DEF RedeemAccount, Admins
    <3>4. CASE MarkPending(r)
      BY <3>1, <3>4 DEF MarkPending
    <3> QED
      BY <1>3, <3>2, <3>3, <3>4
  <2>2. v \in Admins(user')
    BY <1>1, <1>2, <2>1 DEF Admins
  <2> QED
    BY <2>2
<1>4. CASE \/ Deactivate(r) \/ Reactivate(r) \/ Promote(r) \/ Demote(r)
           \/ EnrollTotp(r) \/ RegisterPasskey(r) \/ DisableTotp(r) \/ RemovePasskey(r)
           \/ FoundTeam(r) \/ AddMember(r) \/ RemoveMember(r) \/ SendInvite(r)
           \/ CancelInvite(r) \/ RedeemJoin(r) \/ RedeemAccept(r) \/ GiveUp(r)
  <2>1. user' = user
    BY <1>4 DEF Deactivate, Reactivate, Promote, Demote, EnrollTotp, RegisterPasskey, DisableTotp,
                RemovePasskey, Begin, FoundTeam, AddMember, JoinTeam, RemoveMember, SendInvite,
                CancelInvite, RedeemJoin, RedeemAccept, GiveUp
  <2> QED
    BY <1>2, <2>1 DEF Admins
<1> QED
  BY <1>3, <1>4 DEF Write

(* The other steps leave the accounts alone.                                *)
LEMMA OthersLeaveAccounts ==
  ASSUME Ask \/ (\E t \in open : Abort(t)) \/ (\E u \in User : InviteExpires(u)) \/ UNCHANGED vars
  PROVE  user' = user
<1>1. CASE Ask
  <2>1. \E request : Enter(request)
    BY <1>1, Zenon DEF Ask, AskAdmin, AskTeam, AskOwn, AskRedeem
  <2> QED
    BY <2>1 DEF Enter
<1>2. CASE (\E t \in open : Abort(t)) \/ (\E u \in User : InviteExpires(u)) \/ UNCHANGED vars
  BY <1>2 DEF Abort, InviteExpires, vars
<1> QED
  BY <1>1, <1>2

(* provisioning.py:969: of all requests only the deletion of an account can *)
(* take the last active administrator, itself or because a transaction that *)
(* counted before commits after it.                                         *)
THEOREM LastAdminKeptHolds == Spec => LastAdminKept
<1> DEFINE Emptied == Admins(user) # {} /\ Admins(user') = {}
           Deleted == \/ \E u \in User : user[u].exists /\ ~user'[u].exists
                      \/ \E t \in open \ open' : t.deleted
<1>1. ASSUME AccountsInv, NEW r \in requests, Delete(r) PROVE Deleted
  <2>1. r.on \in User
    BY <1>1 DEF AccountsInv, TypeOK, Request
  <2>2. user[r.on].exists /\ ~user'[r.on].exists
    BY <1>1, <2>1 DEF Delete, Blank, AccountsInv, TypeOK
  <2> QED
    BY <2>1, <2>2
<1>2. ASSUME AccountsInv, NEW r \in requests, Write(r), Emptied PROVE Deleted
  BY <1>1, <1>2, WriteKeepsAdmin
<1>3. ASSUME AccountsInv, NEW t \in open, Commit(t), Emptied PROVE Deleted
  <2>1. t.deleted
    BY <1>3, CommitKeepsAdmin
  <2> QED
    BY <1>3, <2>1 DEF Commit
<1>4. ASSUME Emptied
      PROVE  ~(Ask \/ (\E t \in open : Abort(t)) \/ (\E u \in User : InviteExpires(u)) \/ UNCHANGED vars)
  BY <1>4, OthersLeaveAccounts DEF Admins
<1>5. AccountsInv /\ [Next]_vars => [Emptied => Deleted]_vars
  BY <1>2, <1>3, <1>4 DEF Next
<1> QED
  BY AccountsSafety, <1>5, PTL DEF Spec, LastAdminKept

(* No account is deleted.                                                   *)
AccountsStay == \A u \in User : user[u].exists => user'[u].exists

(* Then no transaction is overtaken by a deletion.                          *)
NoneDeleted == \A t \in open : ~t.deleted

LEMMA NoneDeletedKept ==
  ASSUME AccountsInv, NoneDeleted, [Next]_vars, AccountsStay
  PROVE  NoneDeleted'
<1>1. ASSUME NEW r \in requests, Write(r) PROVE NoneDeleted'
  <2>1. ~Delete(r)
    <3>1. r.on \in User
      BY DEF AccountsInv, TypeOK, Request
    <3>2. Delete(r) => user[r.on].exists /\ ~user'[r.on].exists
      BY <3>1 DEF Delete, Blank, AccountsInv, TypeOK
    <3> QED
      BY <3>1, <3>2 DEF AccountsStay
  <2>2. CASE \/ Deactivate(r) \/ Reactivate(r) \/ Promote(r) \/ Demote(r)
             \/ EnrollTotp(r) \/ RegisterPasskey(r) \/ DisableTotp(r) \/ RemovePasskey(r)
    <3>1. open' = open \/ \E n : ~n.deleted /\ open' = open \cup {n}
      BY <2>2 DEF Deactivate, Reactivate, Promote, Demote, EnrollTotp, RegisterPasskey,
                  DisableTotp, RemovePasskey, Begin
    <3> QED
      BY <3>1 DEF NoneDeleted
  <2>3. CASE \/ CreateUser(r) \/ MarkPending(r) \/ RedeemAccount(r)
             \/ FoundTeam(r) \/ AddMember(r) \/ RemoveMember(r) \/ SendInvite(r)
             \/ CancelInvite(r) \/ RedeemJoin(r) \/ RedeemAccept(r) \/ GiveUp(r)
    <3>1. open' = open
      BY <2>3 DEF CreateUser, MarkPending, RedeemAccount, OnlyUsers, FoundTeam, AddMember, JoinTeam,
                  RemoveMember, SendInvite, CancelInvite, RedeemJoin, RedeemAccept, GiveUp
    <3> QED
      BY <3>1 DEF NoneDeleted
  <2> QED
    BY <1>1, <2>1, <2>2, <2>3 DEF Write
<1>2. ASSUME NEW t \in open, Commit(t) \/ Abort(t) PROVE NoneDeleted'
  BY <1>2 DEF Commit, Abort, NoneDeleted
<1>3. ASSUME Ask PROVE NoneDeleted'
  <2>1. \E request : Enter(request)
    BY <1>3, Zenon DEF Ask, AskAdmin, AskTeam, AskOwn, AskRedeem
  <2> QED
    BY <2>1 DEF Enter, NoneDeleted
<1>4. ASSUME (\E u \in User : InviteExpires(u)) \/ UNCHANGED vars PROVE NoneDeleted'
  BY <1>4 DEF InviteExpires, vars, NoneDeleted
<1> QED
  BY <1>1, <1>2, <1>3, <1>4 DEF Next

(* 001_portal.sql:436: while no account is deleted the installation retains *)
(* an active site administrator, whatever demotions and deactivations       *)
(* overlap.                                                                 *)
THEOREM AdminRemainsUndeleted == Spec /\ [][AccountsStay]_vars => []SomeAdminRemains
<1> DEFINE Kept == NoneDeleted /\ SomeAdminRemains
<1>1. Init => Kept
  <2> SUFFICES ASSUME Init PROVE Founder \in Admins(user) /\ open = {}
    BY DEF SomeAdminRemains, NoneDeleted
  <2> DEFINE x == [[Created EXCEPT !.admin = TRUE] EXCEPT !.totp = TRUE]
  <2>1. user[Founder] = x /\ open = {}
    BY FounderAssumption DEF Init
  <2>2. x.exists /\ x.active /\ x.admin
    BY DEF Created, Blank
  <2> QED
    BY <2>1, <2>2, FounderAssumption DEF Admins
<1>2. AccountsInv /\ Kept /\ [Next]_vars /\ [AccountsStay]_vars => Kept'
  <2> SUFFICES ASSUME AccountsInv, Kept, [Next]_vars, [AccountsStay]_vars PROVE Kept'
    OBVIOUS
  <2>1. CASE UNCHANGED vars
    BY <2>1 DEF vars, SomeAdminRemains, NoneDeleted, Admins
  <2>2. CASE AccountsStay
    <3>1. NoneDeleted'
      BY <2>2, NoneDeletedKept
    <3>2. ASSUME NEW r \in requests, Write(r) PROVE Admins(user') # {}
      <4>1. r.on \in User
        BY DEF AccountsInv, TypeOK, Request
      <4>2. Delete(r) => user[r.on].exists /\ ~user'[r.on].exists
        BY <4>1 DEF Delete, Blank, AccountsInv, TypeOK
      <4> QED
        BY <2>2, <3>2, <4>1, <4>2, WriteKeepsAdmin DEF AccountsStay, SomeAdminRemains
    <3>3. ASSUME NEW t \in open, Commit(t) PROVE Admins(user') # {}
      BY <3>3, CommitKeepsAdmin DEF NoneDeleted, SomeAdminRemains
    <3>4. ASSUME Ask \/ (\E t \in open : Abort(t)) \/ (\E u \in User : InviteExpires(u)) \/ UNCHANGED vars
          PROVE  Admins(user') # {}
      BY <3>4, OthersLeaveAccounts DEF SomeAdminRemains, Admins
    <3>5. Admins(user') # {}
      BY <3>2, <3>3, <3>4 DEF Next
    <3> QED
      BY <3>1, <3>5 DEF SomeAdminRemains, Admins
  <2> QED
    BY <2>1, <2>2
<1>3. Spec /\ [][AccountsStay]_vars => []Kept
  BY <1>1, <1>2, AccountsSafety, PTL DEF Spec
<1> QED
  BY <1>3, PTL

=============================================================================
