------------------------------ MODULE Accounts ------------------------------
(***************************************************************************)
(* Accounts, their passwords and sessions, reset links and invitations of  *)
(* one organization (app/models/user.py, password_reset.py, invitation.py, *)
(* controllers/auth.py, members.py, the user routes of admin.py, cli.py).  *)
(* A request reads rows, decides, and commits later, in one commit or in   *)
(* several; others run in between and it may die at any point.             *)
(***************************************************************************)
EXTENDS Naturals, FiniteSets

CONSTANTS
  Users,        \* accounts that may exist
  Founder,      \* the account the installation starts with
  Links,        \* reset links that may be issued
  Invites,      \* invitations that may be written
  Requests,     \* requests that may be under way at the same time
  MaxHash,      \* bound on the digests made
  Standings,    \* the standings of a member considered
  Nobody,       \* no account
  NoLink,       \* no link
  NoInvite      \* no invitation

ASSUME AccountsAssumption ==
  /\ Founder \in Users /\ Nobody \notin Users
  /\ NoLink \notin Links /\ NoInvite \notin Invites
  /\ MaxHash \in Nat \ {0}
  /\ {"none", "member", "manager"} \subseteq Standings
  /\ Standings \subseteq {"none", "suspended", "member", "manager"}

VARIABLES
  user,         \* user[u]: the table of accounts
  member,       \* member[u]: his membership of this organization
  elsewhere,    \* accounts with a membership of another organization
  link,         \* link[l]: the table password_reset
  invite,       \* invite[i]: the table invitation
  cookies,      \* sessions and remember cookies handed out: nothing revokes one
  hashes,       \* the last digest made: an account's first is 1, and every
                \* set_password after it salts anew
  doing,        \* doing[r]: what request r is about
  redeemed,     \* redeemed[l]: passwords set through link l (history)
  joined        \* <<u, i>>: u became or was a member by invitation i (history)

vars == <<user, member, elsewhere, link, invite, cookies, hashes, doing, redeemed, joined>>

NoUser == [there |-> FALSE, hash |-> 0, active |-> FALSE, admin |-> FALSE]
NewUser == [there |-> TRUE, hash |-> 1, active |-> TRUE, admin |-> FALSE]
NoReset == [status |-> "none", of |-> Nobody, by |-> Nobody, stamp |-> 0, fresh |-> FALSE]
SpentReset == [NoReset EXCEPT !.status = "used"]
NoInvitation == [status |-> "none", by |-> Nobody, fresh |-> FALSE]
Idle == [at |-> "idle", by |-> Nobody, of |-> Nobody, link |-> NoLink, invite |-> NoInvite,
         hash |-> 0, column |-> "", value |-> FALSE, seen |-> {}, alone |-> TRUE]

Init ==
  /\ user = [u \in Users |-> IF u = Founder THEN [NewUser EXCEPT !.admin = TRUE]
                                            ELSE NoUser]
  /\ member = [u \in Users |-> IF u = Founder THEN "manager" ELSE "none"]
  /\ elsewhere = {}
  /\ link = [l \in Links |-> NoReset]
  /\ invite = [i \in Invites |-> NoInvitation]
  /\ cookies = {}
  /\ hashes = 1
  /\ doing = [r \in Requests |-> Idle]
  /\ redeemed = [l \in Links |-> 0]
  /\ joined = {}

There(u) == u \in Users /\ user[u].there

\* Fault: the stamp a session carries says whether the account is active.
StampWithFlag(row) == <<row.hash, row.active>>

\* session_auth_stamp: a digest of the password hash and of nothing else.
Stamp(row) == <<row.hash>>

\* load_user: the account is there and the stamp is the one it has now.
Resolves(c) == There(c.of) /\ c.stamp = Stamp(user[c.of])

\* is_authenticated is is_active: a session of an inactive account is nobody's.
SignedIn(u) == \E c \in cookies : c.of = u /\ Resolves(c) /\ user[u].active

PlatformAdmin(u) == There(u) /\ user[u].active /\ user[u].admin

\* The members.manage permission of an active membership.
Manages(u) == There(u) /\ member[u] = "manager"

\* A request begins; the ones under way no longer have the application alone.
Begin(r, started) ==
  /\ doing[r].at = "idle"
  /\ doing' = [s \in Requests |->
       IF s = r THEN [started EXCEPT !.alone = \A q \in Requests \ {r} : doing[q].at = "idle"]
                ELSE [doing[s] EXCEPT !.alone = doing[s].at = "idle"]]
End(r)         == doing' = [doing EXCEPT ![r] = Idle]
Go(r, place)   == doing' = [doing EXCEPT ![r].at = place]

\* set_password: a digest that was never there before.
FreshHash(u) ==
  /\ hashes < MaxHash
  /\ hashes' = hashes + 1
  /\ user' = [user EXCEPT ![u].hash = hashes + 1]
Cookie(u, row) == cookies' = cookies \union {[of |-> u, stamp |-> Stamp(row)]}

\* The commit is made and the row expired; what is left is to sign u in.
Committed(r, u) ==
  doing' = [doing EXCEPT ![r] = [Idle EXCEPT !.at = "signing", !.of = u, !.alone = doing[r].alone]]

\* login_user: the row is read again, and an account that is inactive by now
\* gets no session.
SignIn(r) ==
  LET u == doing[r].of IN
  /\ doing[r].at = "signing"
  /\ IF user[u].active THEN Cookie(u, user[u]) ELSE UNCHANGED cookies
  /\ End(r)
  /\ UNCHANGED <<user, member, elsewhere, link, invite, hashes, redeemed, joined>>

-----------------------------------------------------------------------------
(* Signing in, passwords, the platform console *)

\* login: the right password of an active account.
Login(u) ==
  /\ There(u) /\ user[u].active
  /\ Cookie(u, user[u])
  /\ UNCHANGED <<user, member, elsewhere, link, invite, hashes, doing, redeemed, joined>>

\* change_password: the current password is checked against the row loaded;
\* a refused new one ends the request.
BeginChange(r, u) ==
  /\ SignedIn(u)
  /\ Begin(r, [Idle EXCEPT !.at = "changing", !.by = u, !.of = u])
  /\ UNCHANGED <<user, member, elsewhere, link, invite, cookies, hashes, redeemed, joined>>

SaveChange(r) ==
  /\ doing[r].at = "changing"
  /\ FreshHash(doing[r].of)
  /\ Committed(r, doing[r].of)
  /\ UNCHANGED <<member, elsewhere, link, invite, cookies, redeemed, joined>>

\* user_set_password in the console: whoever sets his own is then signed in
\* anew. The operator's `flask users reset-password` signs nobody in.
SetPassword(r, a, u) ==
  /\ PlatformAdmin(a) /\ SignedIn(a) /\ There(u)
  /\ FreshHash(u)
  /\ IF u = a THEN Begin(r, [Idle EXCEPT !.at = "signing", !.of = u]) ELSE UNCHANGED doing
  /\ UNCHANGED <<member, elsewhere, link, invite, cookies, redeemed, joined>>

ResetByOperator(u) ==
  /\ There(u)
  /\ FreshHash(u)
  /\ UNCHANGED <<member, elsewhere, link, invite, cookies, doing, redeemed, joined>>

\* register, new_user and `create-admin`: a row under the unique email. The
\* operator may also promote an account there is.
CreateUser(u, admin) ==
  /\ ~There(u)
  /\ user' = [user EXCEPT ![u] = [NewUser EXCEPT !.admin = admin]]
  /\ UNCHANGED <<member, elsewhere, link, invite, cookies, hashes, doing, redeemed, joined>>

PromoteByOperator(u) ==
  /\ There(u)
  /\ user' = [user EXCEPT ![u].admin = TRUE]
  /\ UNCHANGED <<member, elsewhere, link, invite, cookies, hashes, doing, redeemed, joined>>

\* Fault: an administrator may also demote or deactivate himself.
ToggleAnybody(r, a, u, column) ==
  /\ PlatformAdmin(a) /\ SignedIn(a) /\ There(u)
  /\ Begin(r, [Idle EXCEPT !.at = "toggling", !.by = a, !.of = u, !.column = column,
                           !.value = ~user[u][column]])
  /\ UNCHANGED <<user, member, elsewhere, link, invite, cookies, hashes, redeemed, joined>>

\* user_toggle_admin, user_toggle_active: the value loaded, turned over.
BeginToggle(r, a, u, column) ==
  /\ PlatformAdmin(a) /\ SignedIn(a) /\ There(u) /\ u # a
  /\ Begin(r, [Idle EXCEPT !.at = "toggling", !.by = a, !.of = u, !.column = column,
                           !.value = ~user[u][column]])
  /\ UNCHANGED <<user, member, elsewhere, link, invite, cookies, hashes, redeemed, joined>>

SaveToggle(r) ==
  /\ doing[r].at = "toggling"
  /\ user' = [user EXCEPT ![doing[r].of][doing[r].column] = doing[r].value]
  /\ End(r)
  /\ UNCHANGED <<member, elsewhere, link, invite, cookies, hashes, redeemed, joined>>

-----------------------------------------------------------------------------
(* Memberships change under these requests: the routes are Ownership's. *)

ChangeMember(u, standing) ==
  /\ There(u) /\ member[u] # standing
  /\ member' = [member EXCEPT ![u] = standing]
  /\ UNCHANGED <<user, elsewhere, link, invite, cookies, hashes, doing, redeemed, joined>>

ChangeElsewhere(u) ==
  /\ There(u)
  /\ elsewhere' = IF u \in elsewhere THEN elsewhere \ {u} ELSE elsewhere \union {u}
  /\ UNCHANGED <<user, member, link, invite, cookies, hashes, doing, redeemed, joined>>

-----------------------------------------------------------------------------
(* Reset links *)

\* can_be_reset_by_org
Resettable(u) ==
  /\ There(u) /\ user[u].active /\ ~user[u].admin
  /\ member[u] \in {"member", "manager"}
  /\ u \notin elsewhere

\* member_reset_password: who may manage the member, himself excepted, then the
\* account's own rule; the stamp is of the row in memory.
BeginIssue(r, m, u) ==
  /\ Manages(m) /\ SignedIn(m) /\ u # m /\ Resettable(u)
  /\ Begin(r, [Idle EXCEPT !.at = "retiring", !.by = m, !.of = u, !.hash = user[u].hash])
  /\ UNCHANGED <<user, member, elsewhere, link, invite, cookies, hashes, redeemed, joined>>

Outstanding(u) == {l \in Links : link[l].status = "unused" /\ link[l].of = u}

\* issue: the transaction selects what is outstanding, then writes.
SelectOutstanding(r) ==
  /\ doing[r].at = "retiring"
  /\ doing' = [doing EXCEPT ![r].at = "issuing", ![r].seen = Outstanding(doing[r].of)]
  /\ UNCHANGED <<user, member, elsewhere, link, invite, cookies, hashes, redeemed, joined>>

\* Fault: the links selected are left as they are.
IssueBeside(r, l) ==
  /\ doing[r].at = "issuing" /\ link[l].status = "none"
  /\ link' = [link EXCEPT ![l] = [status |-> "unused", of |-> doing[r].of, by |-> doing[r].by,
                                  stamp |-> doing[r].hash, fresh |-> TRUE]]
  /\ End(r)
  /\ UNCHANGED <<user, member, elsewhere, invite, cookies, hashes, redeemed, joined>>

Issue(r, l) ==
  /\ doing[r].at = "issuing" /\ link[l].status = "none"
  /\ link' = [k \in Links |->
       IF k = l THEN [status |-> "unused", of |-> doing[r].of, by |-> doing[r].by,
                      stamp |-> doing[r].hash, fresh |-> TRUE]
       ELSE IF k \in doing[r].seen THEN SpentReset ELSE link[k]]
  /\ End(r)
  /\ UNCHANGED <<user, member, elsewhere, invite, cookies, hashes, redeemed, joined>>

ExpireLink(l) ==
  /\ link[l].fresh
  /\ link' = [link EXCEPT ![l].fresh = FALSE]
  /\ UNCHANGED <<user, member, elsewhere, invite, cookies, hashes, doing, redeemed, joined>>

\* find_valid: unspent, unexpired, the account still this organization's to
\* reset, the password the one it was issued against, the issuer still able.
ValidLink(l) ==
  /\ link[l].status = "unused" /\ link[l].fresh
  /\ Resettable(link[l].of)
  /\ link[l].stamp = user[link[l].of].hash
  /\ Manages(link[l].by)

BeginRedeem(r, l) ==
  /\ ValidLink(l)
  /\ Begin(r, [Idle EXCEPT !.at = "redeeming", !.of = link[l].of, !.link = l])
  /\ UNCHANGED <<user, member, elsewhere, link, invite, cookies, hashes, redeemed, joined>>

\* Fault: the link is spent by assignment, whoever spent it before.
RedeemAnyway(r) ==
  LET l == doing[r].link  u == doing[r].of IN
  /\ doing[r].at = "redeeming"
  /\ FreshHash(u)
  /\ link' = [link EXCEPT ![l] = SpentReset]
  /\ redeemed' = [redeemed EXCEPT ![l] = @ + 1]
  /\ Committed(r, u)
  /\ UNCHANGED <<member, elsewhere, invite, cookies, joined>>

\* submit_reset_password, redeem: the password and the link in one transaction,
\* the link under a condition; the loser of a race rolls back (Leave).
Redeem(r) ==
  LET l == doing[r].link  u == doing[r].of IN
  /\ doing[r].at = "redeeming"
  /\ link[l].status = "unused"
  /\ FreshHash(u)
  /\ link' = [link EXCEPT ![l] = SpentReset]
  /\ redeemed' = [redeemed EXCEPT ![l] = @ + 1]
  /\ Committed(r, u)
  /\ UNCHANGED <<member, elsewhere, invite, cookies, joined>>

-----------------------------------------------------------------------------
(* Invitations *)

CreateInvitation(m, i) ==
  /\ Manages(m) /\ SignedIn(m) /\ invite[i].status = "none"
  /\ invite' = [invite EXCEPT ![i] = [status |-> "open", by |-> Nobody, fresh |-> TRUE]]
  /\ UNCHANGED <<user, member, elsewhere, link, cookies, hashes, doing, redeemed, joined>>

RevokeInvitation(m, i) ==
  /\ Manages(m) /\ SignedIn(m) /\ invite[i].status \in {"open", "accepted"}
  /\ invite' = [invite EXCEPT ![i] = [NoInvitation EXCEPT !.status = "gone"]]
  /\ UNCHANGED <<user, member, elsewhere, link, cookies, hashes, doing, redeemed, joined>>

\* Invitation.find_valid
ValidInvitation(i) == invite[i].status = "open" /\ invite[i].fresh

ExpireInvitation(i) ==
  /\ ValidInvitation(i)
  /\ invite' = [invite EXCEPT ![i].fresh = FALSE]
  /\ UNCHANGED <<user, member, elsewhere, link, cookies, hashes, doing, redeemed, joined>>

\* accept_invite, by somebody signed in; signup_via_invite, by somebody who is
\* not, for an address that has no account.
BeginAccept(r, u, i) ==
  /\ SignedIn(u) /\ ValidInvitation(i)
  /\ Begin(r, [Idle EXCEPT !.at = "joining", !.by = u, !.of = u, !.invite = i])
  /\ UNCHANGED <<user, member, elsewhere, link, invite, cookies, hashes, redeemed, joined>>

BeginSignup(r, u, i) ==
  /\ ~There(u) /\ ValidInvitation(i)
  /\ Begin(r, [Idle EXCEPT !.at = "creating", !.of = u, !.invite = i])
  /\ UNCHANGED <<user, member, elsewhere, link, invite, cookies, hashes, redeemed, joined>>

\* Fault: sign-up makes the account and marks the link, and adds nobody.
SignupOnly(r) ==
  /\ doing[r].at = "creating"
  /\ ~There(doing[r].of)
  /\ user' = [user EXCEPT ![doing[r].of] = NewUser]
  /\ Go(r, "accepting")
  /\ UNCHANGED <<member, elsewhere, link, invite, cookies, hashes, redeemed, joined>>

\* The first commit: User.create. An address taken meanwhile ends the request.
SignupAccount(r) ==
  /\ doing[r].at = "creating"
  /\ ~There(doing[r].of)
  /\ user' = [user EXCEPT ![doing[r].of] = NewUser]
  /\ Go(r, "joining")
  /\ UNCHANGED <<member, elsewhere, link, invite, cookies, hashes, redeemed, joined>>

\* The second: Membership.add. Who is a member already, suspended or not, stays
\* what he is.
Join(r) ==
  LET u == doing[r].of IN
  /\ doing[r].at = "joining"
  /\ member' = [member EXCEPT ![u] = IF @ = "none" THEN "member" ELSE @]
  /\ joined' = joined \union {<<u, doing[r].invite>>}
  /\ Go(r, "accepting")
  /\ UNCHANGED <<user, elsewhere, link, invite, cookies, hashes, redeemed>>

\* The third: the mark, by primary key, whoever has set it since. A row revoked
\* meanwhile raises (Leave). Who signed up is then signed in.
MarkAccepted(r) ==
  LET i == doing[r].invite  u == doing[r].of IN
  /\ doing[r].at = "accepting"
  /\ invite[i].status \in {"open", "accepted"}
  /\ invite' = [invite EXCEPT ![i] = [status |-> "accepted", by |-> u, fresh |-> FALSE]]
  /\ IF doing[r].by = Nobody THEN Committed(r, u) ELSE End(r)
  /\ UNCHANGED <<user, member, elsewhere, link, cookies, hashes, redeemed, joined>>

-----------------------------------------------------------------------------
\* A refusal, an exception, a lost race or the death of the process.
Leave(r) ==
  /\ doing[r].at # "idle"
  /\ End(r)
  /\ UNCHANGED <<user, member, elsewhere, link, invite, cookies, hashes, redeemed, joined>>

Columns == {"admin", "active"}

Entry ==
  \/ \E u \in Users : Login(u) \/ CreateUser(u, FALSE)
  \/ \E r \in Requests : SignIn(r) \/ Leave(r)

Passwords == \E u \in Users : ResetByOperator(u)

Console ==
  \/ \E r \in Requests, u \in Users : BeginChange(r, u)
  \/ \E r \in Requests : SaveChange(r)
  \/ \E u \in Users : PromoteByOperator(u) \/ CreateUser(u, TRUE)
  \/ \E r \in Requests, a \in Users, u \in Users : SetPassword(r, a, u)
  \/ \E r \in Requests, a \in Users, u \in Users, c \in Columns : BeginToggle(r, a, u, c)
  \/ \E r \in Requests : SaveToggle(r)

Elsewhere ==
  \/ \E u \in Users, s \in Standings : ChangeMember(u, s)
  \/ \E u \in Users : ChangeElsewhere(u)

Resets ==
  \/ \E r \in Requests, m \in Users, u \in Users : BeginIssue(r, m, u)
  \/ \E r \in Requests, l \in Links : Issue(r, l) \/ BeginRedeem(r, l)
  \/ \E r \in Requests : SelectOutstanding(r) \/ Redeem(r)
  \/ \E l \in Links : ExpireLink(l)

Invitations ==
  \/ \E m \in Users, i \in Invites : CreateInvitation(m, i) \/ RevokeInvitation(m, i)
  \/ \E i \in Invites : ExpireInvitation(i)
  \/ \E r \in Requests, u \in Users, i \in Invites : BeginAccept(r, u, i) \/ BeginSignup(r, u, i)
  \/ \E r \in Requests : SignupAccount(r) \/ Join(r) \/ MarkAccepted(r)

Next == Entry \/ Passwords \/ Console \/ Elsewhere \/ Resets \/ Invitations

Spec == Init /\ [][Next]_vars

-----------------------------------------------------------------------------
(* Properties *)

\* A link sets a password at most once, although two requests may both have
\* found it valid and another may retire it (PasswordReset.redeem: "two
\* requests arriving with the same token cannot both ... set a password").
LinkOnce == \A l \in Links : redeemed[l] <= 1

\* Issuing retires: when nothing else ran beside it, the new link is the only
\* one of its account that has not been spent ("only one can be outstanding at
\* a time"). Two issues at once can leave two.
OneOutstanding ==
  [][\A r \in Requests, u \in Users :
       (doing[r].at = "issuing" /\ doing[r].of = u /\ doing[r].alone
          /\ link' # link /\ doing'[r].at = "idle")
         => Cardinality(Outstanding(u)') = 1]_vars

\* Every change of a password ends all the cookies there are of the account at
\* once, and a cookie so ended never resolves again, whatever happens to the
\* account afterwards: suspension and reactivation included
\* (User.session_auth_stamp). Who is to stay signed in gets a new one.
StaleStays ==
  [][\A c \in cookies : There(c.of) /\ (~Resolves(c) \/ user'[c.of].hash # user[c.of].hash)
                          => ~Resolves(c)']_vars

\* An invitation is marked accepted only for somebody it has made a member:
\* the marks come after the membership, and a crash in between leaves the link
\* open (Invitation.accept, signup_via_invite).
AcceptedJoined ==
  \A i \in Invites : invite[i].status = "accepted" => <<invite[i].by, i>> \in joined

\* An administrator who works alone never leaves the installation without an
\* active one: he can neither demote nor deactivate himself. Two at once can.
AdminKept ==
  [][((\E u \in Users : PlatformAdmin(u))
       /\ \A r \in Requests : doing[r].at # doing'[r].at => doing[r].alone)
     => \E u \in Users : PlatformAdmin(u)']_vars
=============================================================================
