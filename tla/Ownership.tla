------------------------------ MODULE Ownership ------------------------------
(***************************************************************************)
(* Roles within one organization (app/models/membership.py and the member  *)
(* routes of controllers/manage.py and controllers/admin.py). A request    *)
(* reads the caller's membership, then the target's, then counts owners,   *)
(* and only then commits; other requests run in between.                   *)
(***************************************************************************)
EXTENDS Naturals, FiniteSets

CONSTANTS
  Members,      \* membership rows: a user who comes back gets another one
  Requests,     \* web requests that may be under way at the same time
  Console       \* the caller of an /admin request: no membership is asked for

ASSUME OwnershipAssumption ==
  /\ IsFiniteSet(Members)
  /\ Console \notin Members

VARIABLES
  row,          \* row[m]: the membership table
  place,        \* place[r]: how far the request has come
  caller,       \* caller[r]: the membership in g.membership, or Console
  seen,         \* seen[r][m]: row m as the request's session loaded it
  want,         \* want[r][m]: row m as the session will commit it
  overtaken     \* history: another request changed the table since r arrived

vars == <<row, place, caller, seen, want, overtaken>>

Roles == {"owner", "admin", "member"}

\* The permissions that tell the roles apart (ROLE_PERMISSIONS).
Permissions(role) ==
  CASE role = "owner"  -> {"read", "content.write", "members.manage", "ownership.transfer"}
    [] role = "admin"  -> {"read", "content.write", "members.manage"}
    [] role = "member" -> {"read"}
    [] OTHER           -> {}

GrantsMoreThan(role, than) == Permissions(role) \ Permissions(than) # {}

\* A row that is not there: never inserted, not loaded, or deleted.
NoRow == [role |-> "none", active |-> FALSE]
Gone  == [role |-> "removed", active |-> FALSE]

Row == [role : Roles \union {"none", "removed"}, active : BOOLEAN]

Present(m) == row[m].role \in Roles

Owners == {m \in Members : row[m].role = "owner"}

Nothing == [m \in Members |-> NoRow]

\* An organization as Organization.provision leaves it.
Init ==
  /\ \E founder \in Members :
       row = [m \in Members |->
                IF m = founder THEN [role |-> "owner", active |-> TRUE] ELSE NoRow]
  /\ place = [r \in Requests |-> "idle"]
  /\ caller = [r \in Requests |-> Console]
  /\ seen = [r \in Requests |-> Nothing]
  /\ want = [r \in Requests |-> Nothing]
  /\ overtaken = [r \in Requests |-> FALSE]

-----------------------------------------------------------------------------
(* A request begins *)

\* resolve_tenant reads the caller's membership; a suspended one is nobody's.
Arrive(r, m) ==
  /\ place[r] = "idle"
  /\ Present(m)
  /\ row[m].active
  /\ place' = [place EXCEPT ![r] = "arrived"]
  /\ caller' = [caller EXCEPT ![r] = m]
  /\ seen' = [seen EXCEPT ![r][m] = row[m]]
  /\ want' = [want EXCEPT ![r][m] = row[m]]
  /\ UNCHANGED <<row, overtaken>>

ArriveAtConsole(r) ==
  /\ place[r] = "idle"
  /\ place' = [place EXCEPT ![r] = "arrived"]
  /\ caller' = [caller EXCEPT ![r] = Console]
  /\ UNCHANGED <<row, seen, want, overtaken>>

\* require(permission), on the membership as it was when the request began.
Can(r, permission) ==
  caller[r] # Console /\ permission \in Permissions(seen[r][caller[r]].role)

\* The session's copy of row m: loaded once, then served from memory.
Copy(r, m) == IF seen[r][m] # NoRow THEN seen[r][m] ELSE row[m]

\* _manageable_membership: the caller may not act on somebody who holds more.
Manageable(r, m) ==
  /\ Can(r, "members.manage")
  /\ ~GrantsMoreThan(Copy(r, m).role, seen[r][caller[r]].role)

\* _granted_role: granting owner takes ownership.transfer.
MayGrant(r, role) == role = "owner" => Can(r, "ownership.transfer")

\* Row m is in memory as `copy`, and will be committed as `target`. The
\* routes that take an owner away count the owners first.
Stage(r, m, target) ==
  /\ place[r] = "arrived"
  /\ seen' = [seen EXCEPT ![r][m] = Copy(r, m)]
  /\ want' = [want EXCEPT ![r][m] = target]
  /\ UNCHANGED <<row, caller, overtaken>>

Proceed(r, toOwnerCount) ==
  place' = [place EXCEPT ![r] = IF toOwnerCount THEN "counting" ELSE "ready"]

-----------------------------------------------------------------------------
(* The routes *)

\* Fault: a member manager grants what he likes.
ChangeRoleFreely(r, m, role) ==
  LET copy == Copy(r, m) IN
  /\ copy.role \in Roles
  /\ caller[r] = Console \/ Manageable(r, m)
  /\ Stage(r, m, [copy EXCEPT !.role = role])
  /\ Proceed(r, copy.role = "owner" /\ role # "owner")

\* member_role, and the console's membership_role.
ChangeRole(r, m, role) ==
  LET copy == Copy(r, m) IN
  /\ copy.role \in Roles
  /\ \/ caller[r] = Console
     \/ /\ Manageable(r, m)
        /\ MayGrant(r, role)
        /\ ~(m = caller[r] /\ GrantsMoreThan(role, copy.role))
  /\ Stage(r, m, [copy EXCEPT !.role = role])
  /\ Proceed(r, copy.role = "owner" /\ role # "owner")

\* member_suspend: an owner's suspension asks for another owner too.
Suspend(r, m) ==
  /\ Copy(r, m).role \in Roles
  /\ Manageable(r, m)
  /\ Stage(r, m, [Copy(r, m) EXCEPT !.active = FALSE])
  /\ Proceed(r, Copy(r, m).role = "owner")

Unsuspend(r, m) ==
  /\ Copy(r, m).role \in Roles
  /\ Manageable(r, m)
  /\ Stage(r, m, [Copy(r, m) EXCEPT !.active = TRUE])
  /\ Proceed(r, FALSE)

\* Fault: an owner is removed without a count.
RemoveUncounted(r, m) ==
  /\ Copy(r, m).role \in Roles
  /\ caller[r] = Console \/ Manageable(r, m)
  /\ Stage(r, m, Gone)
  /\ Proceed(r, FALSE)

\* member_remove, and the console's membership_delete.
Remove(r, m) ==
  /\ Copy(r, m).role \in Roles
  /\ caller[r] = Console \/ Manageable(r, m)
  /\ Stage(r, m, Gone)
  /\ Proceed(r, Copy(r, m).role = "owner")

\* add_member, the console's org_add_member and user_add_membership, and an
\* accepted invitation: a user who has a row already keeps it.
AddMember(r, m, role) ==
  /\ Copy(r, m) = NoRow
  /\ caller[r] = Console \/ (Can(r, "members.manage") /\ MayGrant(r, role))
  /\ Stage(r, m, [role |-> role, active |-> TRUE])
  /\ Proceed(r, FALSE)

\* member_transfer: both rows change in one commit.
TransferOwnership(r, m) ==
  LET own == caller[r] IN
  /\ place[r] = "arrived"
  /\ Can(r, "ownership.transfer")
  /\ Present(m)
  /\ m # own
  /\ seen' = [seen EXCEPT ![r][m] = Copy(r, m)]
  /\ want' = [want EXCEPT ![r][m] = [role |-> "owner", active |-> TRUE],
                          ![r][own].role = "admin"]
  /\ Proceed(r, FALSE)
  /\ UNCHANGED <<row, caller, overtaken>>

\* organization_must_keep_an_owner: every owner row counts.
CountOwners(r) ==
  /\ place[r] = "counting"
  /\ Cardinality(Owners) > 1
  /\ place' = [place EXCEPT ![r] = "ready"]
  /\ UNCHANGED <<row, caller, seen, want, overtaken>>

Close(r) ==
  /\ place' = [place EXCEPT ![r] = "idle"]
  /\ caller' = [caller EXCEPT ![r] = Console]
  /\ seen' = [seen EXCEPT ![r] = Nothing]
  /\ want' = [want EXCEPT ![r] = Nothing]

\* A refusal, at any point before the commit.
Refuse(r) ==
  /\ place[r] \in {"arrived", "counting"}
  /\ Close(r)
  /\ overtaken' = [overtaken EXCEPT ![r] = FALSE]
  /\ UNCHANGED row

Touched(r) == {m \in Members : want[r][m] # seen[r][m]}

Inserted(r) == {m \in Touched(r) : seen[r][m] = NoRow}
Deleted(r)  == {m \in Touched(r) : want[r][m] = Gone}
Updated(r)  == Touched(r) \ (Inserted(r) \union Deleted(r))

\* An INSERT beside a row of the same user breaks the unique key; an UPDATE
\* of a row that has gone raises; a DELETE of one only warns.
CommitFails(r) ==
  \/ \E m \in Inserted(r) : row[m] # NoRow
  \/ \E m \in Updated(r) : ~Present(m)

\* Fault: the UPDATE writes every column of the row, not those that changed.
WrittenWhole(r, m) ==
  IF m \in Touched(r) THEN want[r][m] ELSE row[m]

\* What the commit leaves in row m: an UPDATE writes the columns that differ
\* from what was loaded.
Written(r, m) ==
  IF m \in Updated(r)
    THEN [role   |-> IF want[r][m].role # seen[r][m].role
                       THEN want[r][m].role ELSE row[m].role,
          active |-> IF want[r][m].active # seen[r][m].active
                       THEN want[r][m].active ELSE row[m].active]
    ELSE IF m \in Touched(r) THEN want[r][m] ELSE row[m]

Commit(r) ==
  /\ place[r] = "ready"
  /\ row' = IF CommitFails(r) THEN row ELSE [m \in Members |-> Written(r, m)]
  /\ Close(r)
  /\ overtaken' = [s \in Requests |->
                     s # r /\ place[s] # "idle" /\ (overtaken[s] \/ row' # row)]

Route(r) ==
  \/ ArriveAtConsole(r)
  \/ CountOwners(r) \/ Refuse(r) \/ Commit(r)
  \/ \E m \in Members :
       \/ Arrive(r, m)
       \/ Suspend(r, m) \/ Unsuspend(r, m) \/ Remove(r, m) \/ TransferOwnership(r, m)
       \/ \E role \in Roles : ChangeRole(r, m, role) \/ AddMember(r, m, role)

Next == \E r \in Requests : Route(r)

Spec == Init /\ [][Next]_vars

-----------------------------------------------------------------------------
(* Properties *)

\* Rows and requests stay within their domains, and a request that is over
\* has left nothing in its session.
TypeOK ==
  /\ row \in [Members -> Row]
  /\ place \in [Requests -> {"idle", "arrived", "counting", "ready"}]
  /\ caller \in [Requests -> Members \union {Console}]
  /\ seen \in [Requests -> [Members -> Row]]
  /\ want \in [Requests -> [Members -> Row]]
  /\ overtaken \in [Requests -> BOOLEAN]
  /\ \A r \in Requests :
       place[r] = "idle" => seen[r] = Nothing /\ want[r] = Nothing /\ ~overtaken[r]

\* The organization keeps an owner (organization_must_keep_an_owner), by
\* whichever of the routes members come and go.
OwnerKept == Owners # {}

Commits(r) == place[r] = "ready" /\ place'[r] = "idle"

\* The last owner goes only by a commit that another overtook: a request whose
\* count and whose rows nobody has changed since it arrived leaves an owner
\* where there is one, whatever else is under way and whatever earlier overlaps
\* have left in the table (organization_must_keep_an_owner).
LastOwnerStays ==
  [][\A r \in Requests :
       Commits(r) /\ ~overtaken[r] /\ OwnerKept => OwnerKept']_vars

\* Nobody inside the organization changes the row of a member who holds more
\* than he does, or leaves anybody holding more (_manageable_membership and
\* _granted_role), by what the rows say when the change is written; only the
\* caller's row and the changed one must still be what the request loaded.
RankRespected ==
  [][\A r \in Requests :
       Commits(r) /\ caller[r] # Console /\ row[caller[r]] = seen[r][caller[r]] =>
         \A m \in Members : row'[m] # row[m] /\ row[m] = seen[r][m] =>
           /\ ~GrantsMoreThan(row[m].role, row[caller[r]].role)
           /\ ~GrantsMoreThan(row'[m].role, row[caller[r]].role)]_vars

\* A suspension stands until a request that saw it lifts it: a role saved
\* from a page loaded before the suspension does not bring the member back.
SuspensionStands ==
  [][\A m \in Members :
       Present(m) /\ ~row[m].active /\ row'[m].active =>
         \E r \in Requests : ~seen[r][m].active /\ want[r][m].active]_vars

=============================================================================
