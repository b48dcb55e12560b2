--------------------------- MODULE AccountsProofs ---------------------------
(* Theorems about Accounts: for any number of accounts, links, invitations   *)
(* and requests that overlap.                                                *)
EXTENDS Accounts, FiniteSetTheorems, TLAPS

People == Users \union {Nobody}
Account == [there : BOOLEAN, hash : Nat, active : BOOLEAN, admin : BOOLEAN]
Reset == [status : {"none", "unused", "used"}, of : People, by : People, stamp : Nat, fresh : BOOLEAN]
Invitation == [status : {"none", "open", "accepted", "gone"}, by : People, fresh : BOOLEAN]
Request == [at : {"idle", "changing", "toggling", "retiring", "issuing", "redeeming", "joining",
                  "creating", "accepting", "signing"},
            by : People, of : People, link : Links \union {NoLink}, invite : Invites \union {NoInvite},
            hash : Nat, column : Columns \union {""}, value : BOOLEAN, seen : SUBSET Links, alone : BOOLEAN]

Typed ==
  /\ user \in [Users -> Account]
  /\ member \in [Users -> Standings]
  /\ elsewhere \subseteq Users
  /\ link \in [Links -> Reset]
  /\ invite \in [Invites -> Invitation]
  /\ hashes \in Nat
  /\ doing \in [Requests -> Request]
  /\ redeemed \in [Links -> Nat]
  /\ joined \subseteq Users \X Invites

\* Digests are numbered as they are made, and a cookie is for one of them.
Numbered ==
  /\ 1 <= hashes
  /\ \A u \in Users : user[u].hash <= hashes
  /\ \A c \in cookies : c.of \in Users /\ \E h \in 0..hashes : c.stamp = <<h>>

\* A link that has set a password is spent, and a spent one is never written
\* again as an unspent one.
Spent == \A l \in Links : redeemed[l] <= 1 /\ (redeemed[l] = 1 => link[l].status = "used")

\* What a request carries from one of its commits to the next.
Sound(d) ==
  /\ d.at # "idle" => d.of \in Users
  /\ d.at = "redeeming" => d.link \in Links
  /\ d.at \in {"creating", "joining", "accepting"} => d.invite \in Invites
  /\ d.at = "toggling" => d.column \in Columns
  /\ d.at = "accepting" => <<d.of, d.invite>> \in joined
  /\ d.at = "toggling" /\ d.alone => d.by # d.of /\ PlatformAdmin(d.by)
  /\ d.at = "issuing" /\ d.alone => Outstanding(d.of) \subseteq d.seen

\* Beside a request that is alone no other is under way.
Apart == \A r, q \in Requests : r # q /\ doing[r].at # "idle" /\ doing[r].alone => doing[q].at = "idle"

AccountsInv ==
  /\ Typed
  /\ Numbered
  /\ Spent
  /\ AcceptedJoined
  /\ \A r \in Requests : Sound(doing[r])
  /\ Apart

LEMMA Rows ==
  /\ NewUser \in Account /\ NoUser \in Account /\ [NewUser EXCEPT !.admin = TRUE] \in Account
  /\ NoReset \in Reset /\ SpentReset \in Reset /\ SpentReset.status = "used"
  /\ NoInvitation \in Invitation /\ NoInvitation.status = "none"
  /\ Idle \in Request /\ Idle.at = "idle"
BY AccountsAssumption DEF NewUser, NoUser, Account, NoReset, SpentReset, Reset, NoInvitation, Invitation,
   Idle, Request, People

LEMMA InitAccounts == Init => AccountsInv
<1> SUFFICES ASSUME Init PROVE AccountsInv
  OBVIOUS
<1>1. Typed
  BY Rows, AccountsAssumption DEF Init, Typed
<1>2. Numbered
  BY <1>1 DEF Init, Numbered, NewUser, NoUser
<1>3. Spent /\ AcceptedJoined
  BY Rows DEF Init, Spent, AcceptedJoined
<1>4. Sound(Idle) /\ Apart
  BY Rows DEF Init, Sound, Apart
<1> QED
  BY <1>1, <1>2, <1>3, <1>4 DEF Init, AccountsInv

-----------------------------------------------------------------------------
(* What steps do to the requests under way *)

Requested == (\A r \in Requests : doing[r] \in Request /\ Sound(doing[r])) /\ Apart

\* Nothing a request goes by is taken back.
Standing ==
  /\ joined \subseteq joined'
  /\ \A u \in Users : PlatformAdmin(u) => PlatformAdmin(u)'
  /\ \A u \in Users : Outstanding(u)' \subseteq Outstanding(u)

LEMMA SoundStays ==
  ASSUME Standing, NEW d \in Request, Sound(d)
  PROVE  Sound(d)'
BY DEF Standing, Sound, PlatformAdmin, There

LEMMA QuietStep ==
  ASSUME AccountsInv, doing' = doing, Standing
  PROVE  Requested'
<1>1. ASSUME NEW r \in Requests PROVE doing[r] \in Request /\ Sound(doing[r])'
  BY SoundStays DEF AccountsInv, Typed
<1> QED
  BY <1>1 DEF AccountsInv, Requested, Apart, Sound

LEMMA BeginStep ==
  ASSUME AccountsInv, NEW r \in Requests, NEW d \in Request, Begin(r, d), Sound(d), d.at # "idle", d.alone,
         Standing
  PROVE  Requested' /\ doing' \in [Requests -> Request]
<1> DEFINE a == \A q \in Requests \ {r} : doing[q].at = "idle"
           e == [d EXCEPT !.alone = a]
<1>1. e \in Request /\ Sound(e) /\ e.at # "idle" /\ e.alone = a
  BY DEF Request, Sound
<1>2. ASSUME NEW s \in Requests, s # r
      PROVE  LET f == [doing[s] EXCEPT !.alone = doing[s].at = "idle"]
             IN f \in Request /\ Sound(f) /\ f.at = doing[s].at /\ f.alone = (doing[s].at = "idle")
  BY DEF AccountsInv, Typed, Request, Sound
<1>3. doing' = [s \in Requests |-> IF s = r THEN e ELSE [doing[s] EXCEPT !.alone = doing[s].at = "idle"]]
  BY DEF Begin
<1>4. \A s \in Requests : doing'[s] \in Request /\ Sound(doing'[s]) /\ doing'[s].at # "idle" =>
         IF s = r THEN doing'[s].alone = a ELSE ~doing'[s].alone
  BY <1>1, <1>2, <1>3
<1>5. ASSUME NEW s \in Requests PROVE doing'[s] \in Request /\ Sound(doing'[s])
  BY <1>1, <1>2, <1>3
<1>6. \A f \in Request : Sound(f) => Sound(f)'
  BY SoundStays
<1>7. Apart'
  BY <1>1, <1>2, <1>3 DEF Apart
<1>8. \A s \in Requests : Sound(doing[s])'
  BY <1>5, <1>6 DEF Sound
<1> QED
  BY <1>3, <1>5, <1>7, <1>8 DEF Requested

LEMMA EndStep ==
  ASSUME AccountsInv, NEW r \in Requests, doing[r].at # "idle", End(r), joined \subseteq joined'
  PROVE  Requested' /\ doing' \in [Requests -> Request]
<1>1. doing' = [doing EXCEPT ![r] = Idle] /\ doing' \in [Requests -> Request]
  BY Rows DEF End, AccountsInv, Typed
<1>2. ASSUME NEW q \in Requests PROVE Sound(doing[q])'
  <2>1. CASE q = r
    BY <1>1, <2>1, Rows DEF Sound, AccountsInv, Typed
  <2>2. CASE q # r
    BY <1>1, <2>2 DEF Sound, AccountsInv, Typed, Apart
  <2> QED
    BY <2>1, <2>2
<1>3. Apart'
  BY <1>1, Rows DEF AccountsInv, Typed, Apart
<1> QED
  BY <1>1, <1>2, <1>3 DEF Requested

LEMMA GoStep ==
  ASSUME AccountsInv, NEW r \in Requests, NEW d \in Request, doing[r].at # "idle", d.at # "idle",
         d.alone = doing[r].alone, doing' = [doing EXCEPT ![r] = d], joined \subseteq joined', Sound(d)'
  PROVE  Requested' /\ doing' \in [Requests -> Request]
<1>1. doing' \in [Requests -> Request]
  BY DEF AccountsInv, Typed
<1>2. ASSUME NEW q \in Requests PROVE Sound(doing[q])'
  <2>1. CASE q = r
    BY <2>1 DEF Sound, AccountsInv, Typed
  <2>2. CASE q # r
    BY <2>2 DEF Sound, AccountsInv, Typed, Apart
  <2> QED
    BY <2>1, <2>2
<1>3. Apart'
  BY DEF AccountsInv, Typed, Apart
<1> QED
  BY <1>1, <1>2, <1>3 DEF Requested

-----------------------------------------------------------------------------
(* What steps do to accounts, digests and cookies *)

\* One account has a digest that was never there before.
LEMMA FreshStep ==
  ASSUME Typed, Numbered, NEW u \in Users, FreshHash(u), UNCHANGED cookies
  PROVE  /\ user' \in [Users -> Account] /\ hashes' \in Nat /\ Numbered'
         /\ \A v \in Users : PlatformAdmin(v) <=> PlatformAdmin(v)'
<1>1. /\ user' = [user EXCEPT ![u].hash = hashes + 1] /\ hashes' = hashes + 1 /\ hashes \in Nat
      /\ user' \in [Users -> Account]
  BY DEF FreshHash, Typed, Account
<1>2. \A v \in Users : /\ user'[v].hash = IF v = u THEN hashes + 1 ELSE user[v].hash
                       /\ user[v].hash \in Nat
                       /\ user'[v].there = user[v].there /\ user'[v].active = user[v].active
                       /\ user'[v].admin = user[v].admin
  BY <1>1 DEF Typed, Account
<1>3. \A v \in Users : user'[v].hash <= hashes'
  BY <1>1, <1>2 DEF Numbered
<1>4. \A c \in cookies' : c.of \in Users /\ \E h \in 0..hashes' : c.stamp = <<h>>
  BY <1>1 DEF Numbered
<1> QED
  BY <1>1, <1>2, <1>3, <1>4 DEF Numbered, PlatformAdmin, There

\* An account that is there signs in.
LEMMA CookieStep ==
  ASSUME Typed, Numbered, NEW u \in Users, UNCHANGED <<user, hashes>>,
         Cookie(u, user[u]) \/ UNCHANGED cookies
  PROVE  Numbered'
<1>1. user[u].hash \in 0..hashes
  BY DEF Typed, Account, Numbered
<1> QED
  BY <1>1 DEF Numbered, Cookie, Stamp

-----------------------------------------------------------------------------
(* Steps that leave the requests alone *)

LEMMA LoginStep ==
  ASSUME AccountsInv, NEW u \in Users, Login(u)
  PROVE  AccountsInv'
<1>1. UNCHANGED <<user, member, elsewhere, link, invite, hashes, doing, redeemed, joined>> /\ Cookie(u, user[u])
  BY DEF Login
<1>2. Requested'
  BY <1>1, QuietStep DEF Standing, PlatformAdmin, There, Outstanding
<1>3. Numbered'
  BY <1>1, CookieStep DEF AccountsInv
<1> QED
  BY <1>1, <1>2, <1>3 DEF AccountsInv, Requested, Typed, Spent, AcceptedJoined

\* A new password by the operator.
LEMMA ResetStep ==
  ASSUME AccountsInv, NEW u \in Users, ResetByOperator(u)
  PROVE  AccountsInv'
<1>1. UNCHANGED <<member, elsewhere, link, invite, cookies, doing, redeemed, joined>> /\ FreshHash(u)
  BY DEF ResetByOperator
<1>2. /\ user' \in [Users -> Account] /\ hashes' \in Nat /\ Numbered'
      /\ \A v \in Users : PlatformAdmin(v) <=> PlatformAdmin(v)'
  BY <1>1, FreshStep DEF AccountsInv
<1>3. Requested'
  BY <1>1, <1>2, QuietStep DEF Standing, Outstanding
<1> QED
  BY <1>1, <1>2, <1>3 DEF AccountsInv, Requested, Typed, Spent, AcceptedJoined

LEMMA CreateStep ==
  ASSUME AccountsInv, NEW u \in Users, NEW admin \in BOOLEAN, CreateUser(u, admin) \/ PromoteByOperator(u)
  PROVE  AccountsInv'
<1> DEFINE row == [NewUser EXCEPT !.admin = admin]
<1>1. row \in Account /\ row.hash = 1
  BY DEF NewUser, Account
<1>2. UNCHANGED <<member, elsewhere, link, invite, cookies, hashes, doing, redeemed, joined>>
  BY DEF CreateUser, PromoteByOperator
<1>3. /\ user' \in [Users -> Account]
      /\ \A v \in Users : user'[v].hash \in {1, user[v].hash}
      /\ \A v \in Users : user[v].there =>
           user'[v].there /\ user'[v].active = user[v].active /\ (user[v].admin => user'[v].admin)
  <2>1. CASE CreateUser(u, admin)
    <3>1. user' = [user EXCEPT ![u] = row] /\ ~user[u].there
      BY <2>1 DEF CreateUser, There
    <3> HIDE DEF row
    <3> QED
      BY <1>1, <3>1 DEF AccountsInv, Typed
  <2>2. CASE PromoteByOperator(u)
    BY <2>2 DEF PromoteByOperator, AccountsInv, Typed, Account
  <2> QED
    BY <2>1, <2>2
<1>4. Requested'
  BY <1>2, <1>3, QuietStep DEF Standing, PlatformAdmin, There, Outstanding
<1>5. Numbered'
  BY <1>2, <1>3 DEF AccountsInv, Typed, Numbered
<1> QED
  BY <1>2, <1>3, <1>4, <1>5 DEF AccountsInv, Requested, Typed, Spent, AcceptedJoined
LEMMA MemberStep ==
  ASSUME AccountsInv, NEW u \in Users, NEW s \in Standings, ChangeMember(u, s) \/ ChangeElsewhere(u)
  PROVE  AccountsInv'
<1>1. /\ UNCHANGED <<user, link, invite, cookies, hashes, doing, redeemed, joined>>
      /\ member' \in [Users -> Standings] /\ elsewhere' \subseteq Users
  BY DEF ChangeMember, ChangeElsewhere, AccountsInv, Typed
<1>2. Requested'
  BY <1>1, QuietStep DEF Standing, PlatformAdmin, There, Outstanding
<1> QED
  BY <1>1, <1>2 DEF AccountsInv, Requested, Typed, Numbered, Spent, AcceptedJoined

LEMMA ExpireLinkStep ==
  ASSUME AccountsInv, NEW l \in Links, ExpireLink(l)
  PROVE  AccountsInv'
<1>1. /\ UNCHANGED <<user, member, elsewhere, invite, cookies, hashes, doing, redeemed, joined>>
      /\ link' \in [Links -> Reset]
      /\ \A k \in Links : link'[k].status = link[k].status /\ link'[k].of = link[k].of
  BY DEF ExpireLink, AccountsInv, Typed, Reset
<1>2. Requested'
  BY <1>1, QuietStep DEF Standing, PlatformAdmin, There, Outstanding
<1> QED
  BY <1>1, <1>2 DEF AccountsInv, Requested, Typed, Numbered, Spent, AcceptedJoined

LEMMA InvitationStep ==
  ASSUME AccountsInv, NEW m \in Users, NEW i \in Invites,
         CreateInvitation(m, i) \/ RevokeInvitation(m, i) \/ ExpireInvitation(i)
  PROVE  AccountsInv'
<1>1. UNCHANGED <<user, member, elsewhere, link, cookies, hashes, doing, redeemed, joined>>
  BY DEF CreateInvitation, RevokeInvitation, ExpireInvitation
<1>2. /\ invite' \in [Invites -> Invitation]
      /\ \A k \in Invites : invite'[k].status = "accepted" => invite'[k] = invite[k]
  <2>1. /\ [status |-> "open", by |-> Nobody, fresh |-> TRUE] \in Invitation
        /\ [NoInvitation EXCEPT !.status = "gone"] \in Invitation
        /\ [NoInvitation EXCEPT !.status = "gone"].status = "gone"
    BY DEF NoInvitation, Invitation, People
  <2>2. CASE CreateInvitation(m, i)
    BY <2>1, <2>2 DEF CreateInvitation, AccountsInv, Typed
  <2>3. CASE RevokeInvitation(m, i)
    BY <2>1, <2>3 DEF RevokeInvitation, AccountsInv, Typed
  <2>4. CASE ExpireInvitation(i)
    BY <2>4 DEF ExpireInvitation, ValidInvitation, AccountsInv, Typed, Invitation
  <2> QED
    BY <2>2, <2>3, <2>4
<1>3. Requested'
  BY <1>1, QuietStep DEF Standing, PlatformAdmin, There, Outstanding
<1> QED
  BY <1>1, <1>2, <1>3 DEF AccountsInv, Requested, Typed, Numbered, Spent, AcceptedJoined

-----------------------------------------------------------------------------
(* Requests that begin, and give up *)

LEMMA Opening ==
  ASSUME AccountsInv, NEW r \in Requests, NEW d \in Request, Begin(r, d), Sound(d), d.at # "idle", d.alone,
         UNCHANGED <<user, member, elsewhere, link, invite, cookies, hashes, redeemed, joined>>
  PROVE  AccountsInv'
<1>1. Standing
  BY DEF Standing, PlatformAdmin, There, Outstanding
<1>2. Requested' /\ doing' \in [Requests -> Request]
  BY <1>1, BeginStep
<1> QED
  BY <1>2 DEF AccountsInv, Requested, Typed, Numbered, Spent, AcceptedJoined

\* A new password by the console; whoever sets his own then waits to be signed in.
LEMMA PasswordStep ==
  ASSUME AccountsInv, NEW r \in Requests, NEW a \in Users, NEW u \in Users, SetPassword(r, a, u)
  PROVE  AccountsInv'
<1> DEFINE d == [Idle EXCEPT !.at = "signing", !.of = u]
<1>1. /\ UNCHANGED <<member, elsewhere, link, invite, cookies, redeemed, joined>> /\ FreshHash(u)
      /\ Begin(r, d) \/ UNCHANGED doing
  BY DEF SetPassword
<1>2. /\ user' \in [Users -> Account] /\ hashes' \in Nat /\ Numbered'
      /\ \A v \in Users : PlatformAdmin(v) <=> PlatformAdmin(v)'
  BY <1>1, FreshStep DEF AccountsInv
<1>3. Standing
  BY <1>1, <1>2 DEF Standing, Outstanding
<1>4. d \in Request /\ Sound(d) /\ d.at # "idle" /\ d.alone
  BY DEF Idle, Request, People, Sound
<1> HIDE DEF d
<1>5. Requested' /\ doing' \in [Requests -> Request]
  <2>1. CASE Begin(r, d)
    BY <1>3, <1>4, <2>1, BeginStep
  <2>2. CASE UNCHANGED doing
    BY <1>3, <2>2, QuietStep DEF AccountsInv, Typed
  <2> QED
    BY <1>1, <2>1, <2>2
<1> QED
  BY <1>1, <1>2, <1>5 DEF AccountsInv, Requested, Typed, Spent, AcceptedJoined

LEMMA ChangingStep ==
  ASSUME AccountsInv, NEW r \in Requests, NEW u \in Users, BeginChange(r, u)
  PROVE  AccountsInv'
<1> DEFINE d == [Idle EXCEPT !.at = "changing", !.by = u, !.of = u]
<1>1. d \in Request /\ Sound(d) /\ d.at # "idle" /\ d.alone
  BY DEF Idle, Request, People, Sound
<1> QED
  BY <1>1, Opening DEF BeginChange

LEMMA TogglingStep ==
  ASSUME AccountsInv, NEW r \in Requests, NEW a \in Users, NEW u \in Users, NEW c \in Columns,
         BeginToggle(r, a, u, c)
  PROVE  AccountsInv'
<1> DEFINE d == [Idle EXCEPT !.at = "toggling", !.by = a, !.of = u, !.column = c, !.value = ~user[u][c]]
<1>1. (~user[u][c]) \in BOOLEAN
  OBVIOUS
<1>2. d \in Request /\ d.at = "toggling" /\ d.alone /\ d.by = a /\ d.of = u /\ d.column = c
  BY <1>1 DEF Idle, Request, People
<1>3. Sound(d)
  BY <1>2 DEF Sound, BeginToggle
<1> QED
  BY <1>2, <1>3, Opening DEF BeginToggle

LEMMA RetiringStep ==
  ASSUME AccountsInv, NEW r \in Requests, NEW m \in Users, NEW u \in Users, BeginIssue(r, m, u)
  PROVE  AccountsInv'
<1> DEFINE d == [Idle EXCEPT !.at = "retiring", !.by = m, !.of = u, !.hash = user[u].hash]
<1>1. d \in Request /\ Sound(d) /\ d.at # "idle" /\ d.alone
  BY DEF Idle, Request, People, Sound, AccountsInv, Typed, Account
<1> QED
  BY <1>1, Opening DEF BeginIssue

LEMMA RedeemingStep ==
  ASSUME AccountsInv, NEW r \in Requests, NEW l \in Links, BeginRedeem(r, l)
  PROVE  AccountsInv'
<1> DEFINE d == [Idle EXCEPT !.at = "redeeming", !.of = link[l].of, !.link = l]
<1>1. link[l].of \in Users
  BY DEF BeginRedeem, ValidLink, Resettable, There
<1>2. d \in Request /\ Sound(d) /\ d.at # "idle" /\ d.alone
  BY <1>1 DEF Idle, Request, People, Sound
<1> QED
  BY <1>2, Opening DEF BeginRedeem

LEMMA JoiningStep ==
  ASSUME AccountsInv, NEW r \in Requests, NEW u \in Users, NEW i \in Invites,
         BeginAccept(r, u, i) \/ BeginSignup(r, u, i)
  PROVE  AccountsInv'
<1>1. ASSUME BeginAccept(r, u, i) PROVE AccountsInv'
  <2> DEFINE d == [Idle EXCEPT !.at = "joining", !.by = u, !.of = u, !.invite = i]
  <2>1. d \in Request /\ Sound(d) /\ d.at # "idle" /\ d.alone
    BY DEF Idle, Request, People, Sound
  <2> QED
    BY <1>1, <2>1, Opening DEF BeginAccept
<1>2. ASSUME BeginSignup(r, u, i) PROVE AccountsInv'
  <2> DEFINE d == [Idle EXCEPT !.at = "creating", !.of = u, !.invite = i]
  <2>1. d \in Request /\ Sound(d) /\ d.at # "idle" /\ d.alone
    BY DEF Idle, Request, People, Sound
  <2> QED
    BY <1>2, <2>1, Opening DEF BeginSignup
<1> QED
  BY <1>1, <1>2

LEMMA LeaveStep ==
  ASSUME AccountsInv, NEW r \in Requests, Leave(r)
  PROVE  AccountsInv'
<1>1. Requested' /\ doing' \in [Requests -> Request]
  BY EndStep DEF Leave
<1> QED
  BY <1>1 DEF Leave, AccountsInv, Requested, Typed, Numbered, Spent, AcceptedJoined

-----------------------------------------------------------------------------
(* Requests that go on, and end *)

LEMMA SelectStep ==
  ASSUME AccountsInv, NEW r \in Requests, SelectOutstanding(r)
  PROVE  AccountsInv'
<1>0. PICK d : d = [doing[r] EXCEPT !.at = "issuing", !.seen = Outstanding(doing[r].of)]
  OBVIOUS
<1>1. doing[r] \in Request /\ doing[r].at = "retiring" /\ doing[r].of \in Users
  BY <1>0 DEF SelectOutstanding, AccountsInv, Typed, Sound
<1>2. d \in Request /\ d.at = "issuing" /\ d.alone = doing[r].alone /\ d.of = doing[r].of
      /\ d.seen = Outstanding(doing[r].of)
  BY <1>0, <1>1 DEF Request, Outstanding
<1>3. /\ UNCHANGED <<user, member, elsewhere, link, invite, cookies, hashes, redeemed, joined>>
      /\ doing' = [doing EXCEPT ![r] = d]
  BY <1>0 DEF SelectOutstanding, AccountsInv, Typed
<1>4. Sound(d)'
  BY <1>1, <1>2, <1>3 DEF Sound, Outstanding
<1>5. Requested' /\ doing' \in [Requests -> Request]
  BY <1>1, <1>2, <1>3, <1>4, GoStep
<1> QED
  BY <1>3, <1>5 DEF AccountsInv, Requested, Typed, Numbered, Spent, AcceptedJoined

LEMMA SignupStep ==
  ASSUME AccountsInv, NEW r \in Requests, SignupAccount(r)
  PROVE  AccountsInv'
<1>0. PICK d : d = [doing[r] EXCEPT !.at = "joining"]
  OBVIOUS
<1>1. doing[r] \in Request /\ doing[r].at = "creating" /\ doing[r].of \in Users /\ doing[r].invite \in Invites
  BY DEF SignupAccount, AccountsInv, Typed, Sound
<1>2. d \in Request /\ d.at = "joining" /\ d.alone = doing[r].alone /\ d.of = doing[r].of
      /\ d.invite = doing[r].invite
  BY <1>0, <1>1 DEF Request
<1>3. /\ UNCHANGED <<member, elsewhere, link, invite, cookies, hashes, redeemed, joined>>
      /\ doing' = [doing EXCEPT ![r] = d] /\ user' = [user EXCEPT ![doing[r].of] = NewUser]
  BY <1>0 DEF SignupAccount, Go, AccountsInv, Typed
<1>4. Sound(d)'
  BY <1>1, <1>2 DEF Sound
<1>5. Requested' /\ doing' \in [Requests -> Request]
  BY <1>1, <1>2, <1>3, <1>4, GoStep
<1>6. NewUser.hash = 1
  BY DEF NewUser
<1>7. user' \in [Users -> Account] /\ Numbered'
  BY <1>1, <1>3, <1>6, Rows DEF AccountsInv, Typed, Numbered
<1> QED
  BY <1>3, <1>5, <1>7 DEF AccountsInv, Requested, Typed, Spent, AcceptedJoined

LEMMA JoinStep ==
  ASSUME AccountsInv, NEW r \in Requests, Join(r)
  PROVE  AccountsInv'
<1>0. PICK u, d : u = doing[r].of /\ d = [doing[r] EXCEPT !.at = "accepting"]
  OBVIOUS
<1>1. doing[r] \in Request /\ doing[r].at = "joining" /\ u \in Users /\ doing[r].invite \in Invites
  BY <1>0 DEF Join, AccountsInv, Typed, Sound
<1>2. d \in Request /\ d.at = "accepting" /\ d.alone = doing[r].alone /\ d.of = u
      /\ d.invite = doing[r].invite
  BY <1>0, <1>1 DEF Request
<1>3. /\ UNCHANGED <<user, elsewhere, link, invite, cookies, hashes, redeemed>>
      /\ doing' = [doing EXCEPT ![r] = d] /\ joined' = joined \union {<<u, doing[r].invite>>}
      /\ member' = [member EXCEPT ![u] = IF @ = "none" THEN "member" ELSE @]
  BY <1>0 DEF Join, Go, AccountsInv, Typed
<1>4. Sound(d)'
  BY <1>1, <1>2, <1>3 DEF Sound
<1>5. Requested' /\ doing' \in [Requests -> Request]
  BY <1>1, <1>2, <1>3, <1>4, GoStep
<1>6. member' \in [Users -> Standings] /\ joined' \subseteq Users \X Invites
  BY <1>1, <1>3, AccountsAssumption DEF AccountsInv, Typed
<1> QED
  BY <1>3, <1>5, <1>6 DEF AccountsInv, Requested, Typed, Numbered, Spent, AcceptedJoined

\* A request that has committed for u and is to sign him in.
LEMMA CommittedStep ==
  ASSUME AccountsInv, NEW r \in Requests, doing[r].at # "idle", NEW u \in Users, Committed(r, u),
         joined \subseteq joined'
  PROVE  Requested' /\ doing' \in [Requests -> Request]
<1>0. PICK d : d = [Idle EXCEPT !.at = "signing", !.of = u, !.alone = doing[r].alone]
  OBVIOUS
<1>1. d \in Request /\ d.at = "signing" /\ d.alone = doing[r].alone /\ d.of = u
  BY <1>0 DEF Idle, Request, People, AccountsInv, Typed
<1>2. doing' = [doing EXCEPT ![r] = d]
  BY <1>0 DEF Committed
<1>3. Sound(d)'
  BY <1>1 DEF Sound
<1> QED
  BY <1>1, <1>2, <1>3, GoStep

LEMMA SignInStep ==
  ASSUME AccountsInv, NEW r \in Requests, SignIn(r)
  PROVE  AccountsInv'
<1>1. doing[r].of \in Users /\ UNCHANGED <<user, member, elsewhere, link, invite, hashes, redeemed, joined>>
      /\ (Cookie(doing[r].of, user[doing[r].of]) \/ UNCHANGED cookies)
  BY DEF SignIn, AccountsInv, Sound
<1>2. Requested' /\ doing' \in [Requests -> Request]
  BY <1>1, EndStep DEF SignIn
<1>3. Numbered'
  BY <1>1, CookieStep DEF AccountsInv
<1> QED
  BY <1>1, <1>2, <1>3 DEF AccountsInv, Requested, Typed, Spent, AcceptedJoined

LEMMA SaveChangeStep ==
  ASSUME AccountsInv, NEW r \in Requests, SaveChange(r)
  PROVE  AccountsInv'
<1>1. doing[r].of \in Users
  BY DEF SaveChange, AccountsInv, Sound
<1>2. user' \in [Users -> Account] /\ hashes' \in Nat /\ Numbered'
  BY <1>1, FreshStep DEF SaveChange, AccountsInv
<1>3. Requested' /\ doing' \in [Requests -> Request]
  BY <1>1, CommittedStep DEF SaveChange
<1> QED
  BY <1>2, <1>3 DEF SaveChange, AccountsInv, Requested, Typed, Spent, AcceptedJoined

\* What a toggle writes: one column, as it was planned.
LEMMA Turned ==
  ASSUME AccountsInv, NEW r \in Requests, SaveToggle(r)
  PROVE  /\ doing[r].of \in Users /\ user' \in [Users -> Account]
         /\ \A v \in Users : /\ user'[v].there = user[v].there /\ user'[v].hash = user[v].hash
                             /\ v # doing[r].of => user'[v] = user[v]
<1> DEFINE u == doing[r].of
           c == doing[r].column
<1>1. u \in Users /\ c \in {"admin", "active"} /\ doing[r].value \in BOOLEAN /\ user[u] \in Account
  BY DEF SaveToggle, AccountsInv, Typed, Sound, Request, Columns
<1>2. user' = [user EXCEPT ![u] = [user[u] EXCEPT ![c] = doing[r].value]]
  BY DEF SaveToggle
<1>3. CASE c = "admin"
  <2>1. user' = [user EXCEPT ![u] = [user[u] EXCEPT !.admin = doing[r].value]]
    BY <1>2, <1>3
  <2> QED
    BY <1>1, <2>1 DEF AccountsInv, Typed, Account
<1>4. CASE c = "active"
  <2>1. user' = [user EXCEPT ![u] = [user[u] EXCEPT !.active = doing[r].value]]
    BY <1>2, <1>4
  <2> QED
    BY <1>1, <2>1 DEF AccountsInv, Typed, Account
<1> QED
  BY <1>1, <1>3, <1>4

LEMMA SaveToggleStep ==
  ASSUME AccountsInv, NEW r \in Requests, SaveToggle(r)
  PROVE  AccountsInv'
<1>1. Requested' /\ doing' \in [Requests -> Request]
  BY EndStep DEF SaveToggle
<1>2. user' \in [Users -> Account] /\ Numbered'
  BY Turned DEF SaveToggle, AccountsInv, Numbered
<1> QED
  BY <1>1, <1>2 DEF SaveToggle, AccountsInv, Requested, Typed, Spent, AcceptedJoined

\* What an issue writes: a new link, and those selected before are spent.
LEMMA Issued ==
  ASSUME AccountsInv, NEW r \in Requests, NEW l \in Links, Issue(r, l)
  PROVE  /\ doing[r].of \in Users /\ link' \in [Links -> Reset]
         /\ link'[l].status = "unused" /\ link'[l].of = doing[r].of
         /\ \A k \in Links \ {l} : link'[k] = IF k \in doing[r].seen THEN SpentReset ELSE link[k]
<1>1. doing[r] \in Request /\ doing[r].of \in Users
  BY DEF Issue, AccountsInv, Typed, Sound
<1>2. [status |-> "unused", of |-> doing[r].of, by |-> doing[r].by,
       stamp |-> doing[r].hash, fresh |-> TRUE] \in Reset
  BY <1>1 DEF Request, Reset
<1> QED
  BY <1>1, <1>2, Rows DEF Issue, AccountsInv, Typed

LEMMA IssueStep ==
  ASSUME AccountsInv, NEW r \in Requests, NEW l \in Links, Issue(r, l)
  PROVE  AccountsInv'
<1>1. Requested' /\ doing' \in [Requests -> Request]
  BY EndStep DEF Issue
<1>2. link' \in [Links -> Reset]
  BY Issued
<1>3. Spent'
  <2>1. redeemed[l] # 1 /\ redeemed' = redeemed
    BY DEF Issue, AccountsInv, Spent
  <2> QED
    BY <2>1, Issued, Rows DEF AccountsInv, Spent
<1> QED
  BY <1>1, <1>2, <1>3 DEF Issue, AccountsInv, Requested, Typed, Numbered, AcceptedJoined

LEMMA RedeemStep ==
  ASSUME AccountsInv, NEW r \in Requests, Redeem(r)
  PROVE  AccountsInv'
<1> DEFINE l == doing[r].link
           u == doing[r].of
<1>1. doing[r].at = "redeeming" /\ l \in Links /\ u \in Users /\ link[l].status = "unused"
  BY DEF Redeem, AccountsInv, Sound
<1>2. /\ FreshHash(u) /\ Committed(r, u) /\ link' = [link EXCEPT ![l] = SpentReset]
      /\ redeemed' = [redeemed EXCEPT ![l] = @ + 1]
      /\ UNCHANGED <<member, elsewhere, invite, cookies, joined>>
  BY DEF Redeem
<1> HIDE DEF l, u
<1>3. user' \in [Users -> Account] /\ hashes' \in Nat /\ Numbered'
  BY <1>1, <1>2, FreshStep DEF AccountsInv
<1>4. Requested' /\ doing' \in [Requests -> Request]
  BY <1>1, <1>2, CommittedStep
<1>5. link' \in [Links -> Reset] /\ redeemed' \in [Links -> Nat]
  BY <1>1, <1>2, Rows DEF AccountsInv, Typed
<1>6. Spent'
  BY <1>1, <1>2, Rows DEF AccountsInv, Typed, Spent
<1> QED
  BY <1>2, <1>3, <1>4, <1>5, <1>6 DEF AccountsInv, Requested, Typed, AcceptedJoined

LEMMA MarkStep ==
  ASSUME AccountsInv, NEW r \in Requests, MarkAccepted(r)
  PROVE  AccountsInv'
<1> DEFINE i == doing[r].invite
           u == doing[r].of
           row == [status |-> "accepted", by |-> u, fresh |-> FALSE]
<1>1. doing[r].at = "accepting" /\ i \in Invites /\ u \in Users /\ <<u, i>> \in joined
  BY DEF MarkAccepted, AccountsInv, Sound
<1>2. /\ Committed(r, u) \/ End(r)
      /\ invite' = [invite EXCEPT ![i] = row]
      /\ UNCHANGED <<user, member, elsewhere, link, cookies, hashes, redeemed, joined>>
  BY DEF MarkAccepted
<1>3. row \in Invitation /\ row.by = u
  BY <1>1 DEF Invitation, People
<1> HIDE DEF i, u, row
<1>4. Requested' /\ doing' \in [Requests -> Request]
  BY <1>1, <1>2, EndStep, CommittedStep
<1>5. invite' \in [Invites -> Invitation] /\ AcceptedJoined'
  BY <1>1, <1>2, <1>3 DEF AccountsInv, Typed, AcceptedJoined
<1> QED
  BY <1>2, <1>4, <1>5 DEF AccountsInv, Requested, Typed, Numbered, Spent
-----------------------------------------------------------------------------
(* The invariant, and what follows from it *)

LEMMA NextAccounts ==
  ASSUME AccountsInv, [Next]_vars
  PROVE  AccountsInv'
<1>1. CASE Entry
  <2>1. ASSUME NEW u \in Users, Login(u) \/ CreateUser(u, FALSE) PROVE AccountsInv'
    BY <2>1, LoginStep, CreateStep
  <2> QED
    BY <1>1, <2>1, SignInStep, LeaveStep DEF Entry
<1>2. CASE Passwords
  BY <1>2, ResetStep DEF Passwords
<1>3. CASE Console
  <2>1. ASSUME NEW u \in Users, PromoteByOperator(u) \/ CreateUser(u, TRUE) PROVE AccountsInv'
    BY <2>1, CreateStep
  <2> QED
    BY <1>3, <2>1, ChangingStep, SaveChangeStep, PasswordStep, TogglingStep, SaveToggleStep DEF Console
<1>4. CASE Elsewhere
  <2>1. \A u \in Users, s \in Standings : ChangeMember(u, s) => AccountsInv'
    BY MemberStep
  <2>2. \A u \in Users : ChangeElsewhere(u) => AccountsInv'
    BY MemberStep, AccountsAssumption
  <2> QED
    BY <1>4, <2>1, <2>2 DEF Elsewhere
<1>5. CASE Resets
  BY <1>5, RetiringStep, IssueStep, RedeemingStep, SelectStep, RedeemStep, ExpireLinkStep DEF Resets
<1>6. CASE Invitations
  <2>1. \A m \in Users, i \in Invites : CreateInvitation(m, i) \/ RevokeInvitation(m, i) => AccountsInv'
    BY InvitationStep
  <2>2. \A i \in Invites : ExpireInvitation(i) => AccountsInv'
    BY InvitationStep, AccountsAssumption
  <2> QED
    BY <1>6, <2>1, <2>2, JoiningStep, SignupStep, JoinStep, MarkStep DEF Invitations
<1>7. CASE UNCHANGED vars
  BY <1>7, QuietStep DEF vars, AccountsInv, Requested, Typed, Numbered, Spent, AcceptedJoined,
     Standing, PlatformAdmin, There, Outstanding
<1> QED
  BY <1>1, <1>2, <1>3, <1>4, <1>5, <1>6, <1>7 DEF Next

LEMMA AccountsInvariant == Spec => []AccountsInv
BY InitAccounts, NextAccounts, PTL DEF Spec

\* No link sets two passwords (PasswordReset.redeem), however many requests
\* have found it valid, and whatever retires or expires it meanwhile.
THEOREM LinkSetsOnce == Spec => []LinkOnce
<1>1. AccountsInv => LinkOnce
  BY DEF AccountsInv, Spent, LinkOnce
<1> QED
  BY <1>1, AccountsInvariant, PTL

\* Every invitation marked accepted names somebody it has made a member
\* (Invitation.accept, signup_via_invite), wherever requests stopped.
THEOREM AcceptedMeansJoined == Spec => []AcceptedJoined
<1>1. AccountsInv => AcceptedJoined
  BY DEF AccountsInv
<1> QED
  BY <1>1, AccountsInvariant, PTL

\* What a step may do to the table of accounts.
Created(u, row) == ~There(u) /\ user' = [user EXCEPT ![u] = row]

LEMMA AccountChange ==
  ASSUME AccountsInv, [Next]_vars
  PROVE  \/ user' = user
         \/ \E u \in Users : FreshHash(u) \/ PromoteByOperator(u) \/ \E row \in Account : Created(u, row)
         \/ \E r \in Requests : SaveToggle(r)
<1>1. \A u \in Users, admin \in BOOLEAN : CreateUser(u, admin) => \E row \in Account : Created(u, row)
  <2>1. \A admin \in BOOLEAN : [NewUser EXCEPT !.admin = admin] \in Account
    BY DEF NewUser, Account
  <2> QED
    BY <2>1 DEF CreateUser, Created
<1>2. \A r \in Requests : SignupAccount(r) => doing[r].of \in Users /\ \E row \in Account : Created(doing[r].of, row)
  BY Rows DEF SignupAccount, Created, AccountsInv, Sound
<1>3. \A r \in Requests : SaveChange(r) \/ Redeem(r) => doing[r].of \in Users /\ FreshHash(doing[r].of)
  BY DEF SaveChange, Redeem, AccountsInv, Sound
<1>4. CASE Entry
  BY <1>1, <1>4 DEF Entry, Login, SignIn, Leave
<1>5. CASE Passwords
  BY <1>5 DEF Passwords, ResetByOperator
<1>6. CASE Console
  BY <1>1, <1>3, <1>6 DEF Console, SetPassword, BeginChange, BeginToggle
<1>7. CASE Elsewhere
  BY <1>7 DEF Elsewhere, ChangeMember, ChangeElsewhere
<1>8. CASE Resets
  BY <1>3, <1>8 DEF Resets, BeginIssue, Issue, BeginRedeem, SelectOutstanding, ExpireLink
<1>9. CASE Invitations
  BY <1>2, <1>9 DEF Invitations, CreateInvitation, RevokeInvitation, ExpireInvitation, BeginAccept,
     BeginSignup, Join, MarkAccepted
<1> QED
  BY <1>4, <1>5, <1>6, <1>7, <1>8, <1>9 DEF Next, vars

\* A digest stays, or is one never there before, or belongs to a new account.
LEMMA DigestChange ==
  ASSUME AccountsInv, [Next]_vars, NEW v \in Users, There(v)
  PROVE  user'[v].hash = user[v].hash \/ user'[v].hash = hashes + 1
<1>1. ASSUME NEW u \in Users, FreshHash(u) \/ PromoteByOperator(u)
      PROVE  user'[v].hash = user[v].hash \/ user'[v].hash = hashes + 1
  BY <1>1 DEF FreshHash, PromoteByOperator, AccountsInv, Typed, Account
<1>2. ASSUME NEW u \in Users, NEW row \in Account, Created(u, row) PROVE user'[v] = user[v]
  BY <1>2 DEF Created, AccountsInv, Typed
<1> QED
  BY <1>1, <1>2, AccountChange, Turned

\* A change of the password ends every cookie of the account, for good
\* (User.session_auth_stamp): for any number of accounts and cookies, whatever
\* is done to an account afterwards.
THEOREM StaleCookiesStay == Spec => StaleStays
<1> DEFINE stays == \A c \in cookies : There(c.of) /\ (~Resolves(c) \/ user'[c.of].hash # user[c.of].hash)
                                          => ~Resolves(c)'
<1>1. ASSUME AccountsInv, [Next]_vars PROVE stays
  <2> SUFFICES ASSUME NEW c \in cookies, There(c.of),
                      ~Resolves(c) \/ user'[c.of].hash # user[c.of].hash
               PROVE  ~Resolves(c)'
    OBVIOUS
  <2>1. PICK h \in 0..hashes : c.stamp = <<h>>
    BY <1>1 DEF AccountsInv, Numbered
  <2>2. h # hashes + 1 /\ c.of \in Users
    BY <2>1, <1>1 DEF There, AccountsInv, Typed
  <2>3. user'[c.of].hash = user[c.of].hash \/ user'[c.of].hash = hashes + 1
    BY <1>1, <2>2, DigestChange
  <2>4. h # user'[c.of].hash
    BY <2>1, <2>2, <2>3 DEF Resolves, Stamp
  <2> QED
    BY <2>1, <2>4 DEF Resolves, Stamp
<1>2. AccountsInv /\ [Next]_vars => [stays]_vars
  BY <1>1
<1> QED
  BY <1>2, AccountsInvariant, PTL DEF Spec, StaleStays

\* What takes an administrator away is a toggle of the console and nothing else.
LEMMA OnlyToggles ==
  ASSUME AccountsInv, [Next]_vars, \A r \in Requests : ~SaveToggle(r), NEW v \in Users, PlatformAdmin(v)
  PROVE  PlatformAdmin(v)'
<1>1. ASSUME NEW u \in Users, FreshHash(u) \/ PromoteByOperator(u) PROVE PlatformAdmin(v)'
  BY <1>1 DEF FreshHash, PromoteByOperator, PlatformAdmin, There, AccountsInv, Typed, Account
<1>2. ASSUME NEW u \in Users, NEW row \in Account, Created(u, row) PROVE user'[v] = user[v]
  BY <1>2 DEF Created, PlatformAdmin, AccountsInv, Typed
<1>3. user'[v] = user[v] => PlatformAdmin(v)'
  BY DEF PlatformAdmin, There
<1> QED
  BY <1>1, <1>2, <1>3, AccountChange

\* An administrator who has the console to himself leaves the installation one
\* (user_toggle_admin, user_toggle_active): his own row is beyond his reach, and
\* it still is an administrator's when he saves.
THEOREM AdministratorKept == Spec => AdminKept
<1> DEFINE kept == ((\E u \in Users : PlatformAdmin(u))
                    /\ \A r \in Requests : doing[r].at # doing'[r].at => doing[r].alone)
                   => \E u \in Users : PlatformAdmin(u)'
<1>1. ASSUME AccountsInv, [Next]_vars PROVE kept
  <2>1. ASSUME NEW r \in Requests, SaveToggle(r) PROVE kept
    <3> SUFFICES ASSUME doing[r].at # doing'[r].at => doing[r].alone
                 PROVE  \E u \in Users : PlatformAdmin(u)'
      OBVIOUS
    <3>1. doing[r].at = "toggling" /\ doing'[r].at = "idle"
      BY <1>1, <2>1, Rows DEF SaveToggle, End, AccountsInv, Typed
    <3>2. doing[r].by # doing[r].of /\ PlatformAdmin(doing[r].by) /\ doing[r].by \in Users
      BY <1>1, <3>1 DEF AccountsInv, Sound, PlatformAdmin, There
    <3>3. user'[doing[r].by] = user[doing[r].by]
      BY <1>1, <2>1, <3>2, Turned
    <3>4. ASSUME NEW b \in Users, PlatformAdmin(b), user'[b] = user[b] PROVE PlatformAdmin(b)'
      BY <3>4 DEF PlatformAdmin, There
    <3> QED
      BY <3>2, <3>3, <3>4
  <2>2. CASE \A r \in Requests : ~SaveToggle(r)
    BY <1>1, <2>2, OnlyToggles
  <2> QED
    BY <2>1, <2>2
<1>2. AccountsInv /\ [Next]_vars => [kept]_vars
  BY <1>1
<1> QED
  BY <1>2, AccountsInvariant, PTL DEF Spec, AdminKept
\* What a step may do to the table of links.
LEMMA LinkChange ==
  ASSUME [Next]_vars
  PROVE  \/ link' = link
         \/ \E l \in Links : ExpireLink(l)
         \/ \E r \in Requests : Redeem(r) \/ \E l \in Links : Issue(r, l)
<1>1. CASE Entry
  BY <1>1 DEF Entry, Login, CreateUser, SignIn, Leave
<1>2. CASE Passwords
  BY <1>2 DEF Passwords, ResetByOperator
<1>3. CASE Console
  BY <1>3 DEF Console, SetPassword, BeginChange, SaveChange, PromoteByOperator, CreateUser, BeginToggle, SaveToggle
<1>4. CASE Elsewhere
  BY <1>4 DEF Elsewhere, ChangeMember, ChangeElsewhere
<1>5. CASE Resets
  BY <1>5 DEF Resets, BeginIssue, BeginRedeem, SelectOutstanding
<1>6. CASE Invitations
  BY <1>6 DEF Invitations, CreateInvitation, RevokeInvitation, ExpireInvitation, BeginAccept,
     BeginSignup, SignupAccount, Join, MarkAccepted
<1> QED
  BY <1>1, <1>2, <1>3, <1>4, <1>5, <1>6 DEF Next, vars

\* An issue that nothing overlaps leaves its link the only unspent one of the
\* account (PasswordReset.issue), for any number of links and whatever
\* overlapping issues left before: alone, it still knows all there are.
THEOREM OneLinkOutstanding == Spec => OneOutstanding
<1> DEFINE ends(r, u) == doing[r].at = "issuing" /\ doing[r].of = u /\ doing[r].alone
                           /\ link' # link /\ doing'[r].at = "idle"
           one == \A r \in Requests, u \in Users : ends(r, u) => Cardinality(Outstanding(u)') = 1
<1>1. ASSUME AccountsInv, [Next]_vars PROVE one
  <2> SUFFICES ASSUME NEW r \in Requests, NEW u \in Users, ends(r, u)
               PROVE  Cardinality(Outstanding(u)') = 1
    OBVIOUS
  <2>1. \A q \in Requests : q # r => doing[q].at = "idle"
    BY <1>1 DEF AccountsInv, Apart
  <2>2. PICK l \in Links : Issue(r, l)
    <3>1. \A l \in Links : ~ExpireLink(l)
      BY DEF ExpireLink
    <3>2. \A q \in Requests : ~Redeem(q)
      BY <2>1 DEF Redeem
    <3>3. \A q \in Requests, l \in Links : Issue(q, l) => q = r
      BY <2>1 DEF Issue
    <3> QED
      BY <1>1, <3>1, <3>2, <3>3, LinkChange
  <2>3. Outstanding(u) \subseteq doing[r].seen
    BY <1>1 DEF AccountsInv, Sound
  <2>4. Outstanding(u)' = {l}
    <3>1. \A k \in Links \ {l} : ~(link'[k].status = "unused" /\ link'[k].of = u)
      BY <1>1, <2>2, <2>3, Issued, Rows DEF Outstanding
    <3>2. link'[l].status = "unused" /\ link'[l].of = u
      BY <1>1, <2>2, Issued
    <3> QED
      BY <3>1, <3>2 DEF Outstanding
  <2> QED
    BY <2>4, FS_Singleton
<1>2. AccountsInv /\ [Next]_vars => [one]_vars
  BY <1>1
<1> HIDE DEF ends
<1> QED
  BY <1>2, AccountsInvariant, PTL DEF Spec, OneOutstanding, ends
=============================================================================
