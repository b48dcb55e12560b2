--------------------------- MODULE OwnershipProofs ---------------------------
(***************************************************************************)
(* Theorems about Ownership, for any number of members and of concurrent   *)
(* requests: a suspension stands, the last owner goes only by a commit that *)
(* another overtook, and rank is kept by whoever loaded the rows as they   *)
(* are.                                                                    *)
(***************************************************************************)
EXTENDS Ownership, FiniteSetTheorems, TLAPS

-----------------------------------------------------------------------------
(* Types *)

LEMMA RowFacts ==
  /\ NoRow \in Row /\ Gone \in Row
  /\ \A x \in Row : x = [role |-> x.role, active |-> x.active]
  /\ \A x \in Row, role \in Roles : [x EXCEPT !.role = role] \in Row
  /\ \A x \in Row, on \in BOOLEAN : [x EXCEPT !.active = on] \in Row
  /\ \A role \in Roles : [role |-> role, active |-> TRUE] \in Row
  /\ Nothing \in [Members -> Row]
BY DEF NoRow, Gone, Row, Roles, Nothing

LEMMA CopyType ==
  ASSUME TypeOK, NEW r \in Requests, NEW m \in Members
  PROVE  Copy(r, m) \in Row
BY DEF TypeOK, Copy

LEMMA WrittenType ==
  ASSUME TypeOK, NEW r \in Requests, NEW m \in Members
  PROVE  Written(r, m) \in Row
<1>1. row[m] \in Row /\ want[r][m] \in Row
  BY DEF TypeOK
<1>2. row[m].role \in Roles \union {"none", "removed"} /\ row[m].active \in BOOLEAN
      /\ want[r][m].role \in Roles \union {"none", "removed"} /\ want[r][m].active \in BOOLEAN
  BY <1>1 DEF Row
<1> QED
  BY <1>1, <1>2 DEF Written, Row

LEMMA StageType ==
  ASSUME TypeOK, NEW r \in Requests, NEW m \in Members, NEW target \in Row,
         NEW counted \in BOOLEAN, Stage(r, m, target), Proceed(r, counted)
  PROVE  TypeOK'
<1>1. Copy(r, m) \in Row
  BY CopyType
<1> QED
  BY <1>1 DEF TypeOK, Stage, Proceed

LEMMA CloseType ==
  ASSUME TypeOK, NEW r \in Requests, Close(r), row' \in [Members -> Row],
         overtaken' \in [Requests -> BOOLEAN],
         \A s \in Requests : s = r \/ place[s] = "idle" => ~overtaken'[s]
  PROVE  TypeOK'
BY RowFacts DEF TypeOK, Close

LEMMA NextType == TypeOK /\ [Next]_vars => TypeOK'
<1> SUFFICES ASSUME TypeOK, [Next]_vars PROVE TypeOK'
  OBVIOUS
<1>1. CASE UNCHANGED vars
  BY <1>1 DEF vars, TypeOK
<1>2. ASSUME NEW r \in Requests, Route(r) PROVE TypeOK'
  <2>1. CASE ArriveAtConsole(r)
    BY <2>1 DEF ArriveAtConsole, TypeOK
  <2>2. CASE CountOwners(r)
    BY <2>2 DEF CountOwners, TypeOK
  <2>3. CASE Refuse(r)
    BY <2>3, CloseType DEF Refuse, TypeOK
  <2>4. CASE Commit(r)
    <3>1. row' \in [Members -> Row]
      BY <2>4, WrittenType DEF Commit, TypeOK
    <3> QED
      BY <2>4, <3>1, CloseType DEF Commit
  <2>5. ASSUME NEW m \in Members, Arrive(r, m) PROVE TypeOK'
    BY <2>5 DEF Arrive, TypeOK
  <2>6. ASSUME NEW m \in Members, Suspend(r, m) PROVE TypeOK'
    <3>1. [Copy(r, m) EXCEPT !.active = FALSE] \in Row
      BY CopyType, RowFacts
    <3> QED
      BY <2>6, <3>1, StageType DEF Suspend
  <2>7. ASSUME NEW m \in Members, Unsuspend(r, m) PROVE TypeOK'
    <3>1. [Copy(r, m) EXCEPT !.active = TRUE] \in Row
      BY CopyType, RowFacts
    <3> QED
      BY <2>7, <3>1, StageType DEF Unsuspend
  <2>8. ASSUME NEW m \in Members, Remove(r, m) PROVE TypeOK'
    BY <2>8, RowFacts, StageType DEF Remove
  <2>9. ASSUME NEW m \in Members, TransferOwnership(r, m) PROVE TypeOK'
    <3>1. caller[r] \in Members
      BY <2>9 DEF TransferOwnership, Can, TypeOK
    <3>2. Copy(r, m) \in Row
      BY CopyType
    <3>3. want[r][caller[r]] \in Row
      BY <3>1 DEF TypeOK
    <3>4. [want[r][caller[r]] EXCEPT !.role = "admin"] \in Row
      BY <3>3, RowFacts DEF Roles
    <3>5. [role |-> "owner", active |-> TRUE] \in Row
      BY RowFacts DEF Roles
    <3>6. want' = [want EXCEPT ![r] =
                     [want[r] EXCEPT ![m] = [role |-> "owner", active |-> TRUE],
                                     ![caller[r]] = [want[r][caller[r]] EXCEPT !.role = "admin"]]]
      BY <2>9, <3>1 DEF TransferOwnership, TypeOK
    <3>7. want' \in [Requests -> [Members -> Row]]
      BY <3>4, <3>5, <3>6 DEF TypeOK
    <3> QED
      BY <2>9, <3>2, <3>7 DEF TransferOwnership, Proceed, TypeOK
  <2>10. ASSUME NEW m \in Members, NEW role \in Roles, ChangeRole(r, m, role)
         PROVE TypeOK'
    <3>1. [Copy(r, m) EXCEPT !.role = role] \in Row
      BY CopyType, RowFacts
    <3> QED
      BY <2>10, <3>1, StageType DEF ChangeRole
  <2>11. ASSUME NEW m \in Members, NEW role \in Roles, AddMember(r, m, role)
         PROVE TypeOK'
    BY <2>11, RowFacts, StageType DEF AddMember
  <2> QED
    BY <1>2, <2>1, <2>2, <2>3, <2>4, <2>5, <2>6, <2>7, <2>8, <2>9, <2>10, <2>11
    DEF Route
<1> QED
  BY <1>1, <1>2 DEF Next

LEMMA InitType == Init => TypeOK
BY RowFacts DEF Init, TypeOK, Row, Roles

\* The membership rows and the requests stay within their domains, and a
\* request that is over leaves nothing behind in its session.
THEOREM TypeCorrect == Spec => []TypeOK
BY InitType, NextType, PTL DEF Spec

-----------------------------------------------------------------------------
(* Suspensions, under any number of concurrent requests *)

\* Nothing but a commit changes the table.
LEMMA OnlyCommits ==
  ASSUME [Next]_vars, row' # row
  PROVE  \E r \in Requests : Commit(r)
<1>1. PICK r \in Requests : Route(r)
  BY DEF Next, vars
<1>2. ~ArriveAtConsole(r) /\ ~CountOwners(r) /\ ~Refuse(r)
  BY DEF ArriveAtConsole, CountOwners, Refuse
<1>3. \A m \in Members : \A target : ~Stage(r, m, target)
  BY DEF Stage
<1>4. \A m \in Members : ~Suspend(r, m) /\ ~Unsuspend(r, m) /\ ~Remove(r, m)
  BY <1>3 DEF Suspend, Unsuspend, Remove
<1>5. \A m \in Members, role \in Roles : ~ChangeRole(r, m, role) /\ ~AddMember(r, m, role)
  BY <1>3 DEF ChangeRole, AddMember
<1>6. \A m \in Members : ~Arrive(r, m) /\ ~TransferOwnership(r, m)
  BY DEF Arrive, TransferOwnership
<1> QED
  BY <1>1, <1>2, <1>4, <1>5, <1>6 DEF Route

\* A suspension stands until a request that saw it lifts it: the UPDATE of
\* every other request leaves the column alone.
THEOREM SuspensionHolds == Spec => SuspensionStands
<1>1. ASSUME TypeOK, [Next]_vars, NEW m \in Members,
             Present(m), ~row[m].active, row'[m].active
      PROVE  \E r \in Requests : ~seen[r][m].active /\ want[r][m].active
  <2>1. PICK r \in Requests : Commit(r)
    BY <1>1, OnlyCommits
  <2>2. ~CommitFails(r) /\ row'[m] = Written(r, m)
    BY <1>1, <2>1 DEF Commit
  <2>3. m \in Touched(r)
    BY <1>1, <2>2 DEF Written, Updated
  <2>4. row[m] # NoRow
    BY <1>1 DEF Present, NoRow, Roles
  <2>5. m \notin Inserted(r)
    BY <2>2, <2>4 DEF CommitFails
  <2>6. m \notin Deleted(r)
    BY <1>1, <2>2, <2>3 DEF Written, Updated, Deleted, Gone
  <2>7. m \in Updated(r)
    BY <2>3, <2>5, <2>6 DEF Updated
  <2>8. row'[m].active = IF want[r][m].active # seen[r][m].active
                           THEN want[r][m].active ELSE row[m].active
    BY <2>2, <2>7 DEF Written
  <2>9. want[r][m].active \in BOOLEAN /\ seen[r][m].active \in BOOLEAN
    BY <1>1 DEF TypeOK, Row
  <2> QED
    BY <1>1, <2>8, <2>9
<1>2. TypeOK /\ [Next]_vars =>
        [\A m \in Members :
           Present(m) /\ ~row[m].active /\ row'[m].active =>
             \E r \in Requests : ~seen[r][m].active /\ want[r][m].active]_vars
  BY <1>1
<1> QED
  BY <1>2, TypeCorrect, PTL DEF Spec, SuspensionStands

-----------------------------------------------------------------------------
(* The last owner *)

\* What request r has loaded is what the table says.
Fresh(r) == \A m \in Members : seen[r][m] # NoRow => seen[r][m] = row[m]

\* The inductive strengthening of LastOwnerStays, request by request: it has
\* changed one row before it counts, and while nobody overtakes it, its rows
\* are fresh and what it is ready to commit leaves an owner where there is one.
Careful(r) ==
  /\ place[r] = "arrived" => want[r] = seen[r]
  /\ place[r] = "counting" =>
       \E t \in Members : \A m \in Members \ {t} : want[r][m] = seen[r][m]
  /\ ~overtaken[r] => Fresh(r)
  /\ ~overtaken[r] /\ place[r] = "ready" /\ OwnerKept =>
       \E m \in Members : Written(r, m).role = "owner"

OwnerInv == \A r \in Requests : Careful(r)

LEMMA UntouchedIsWritten ==
  ASSUME NEW r \in Requests, NEW m \in Members, want[r][m] = seen[r][m]
  PROVE  Written(r, m) = row[m]
BY DEF Written, Updated, Touched

LEMMA TwoOwners ==
  ASSUME NEW t \in Members, Cardinality(Owners) > 1
  PROVE  \E o \in Owners : o # t
<1>1. SUFFICES ASSUME Owners \subseteq {t} PROVE FALSE
  OBVIOUS
<1>2. IsFiniteSet({t}) /\ Cardinality({t}) = 1
  BY FS_Singleton
<1>3. Cardinality(Owners) <= 1 /\ Cardinality(Owners) \in Nat
  BY <1>1, <1>2, FS_Subset, FS_CardinalityType
<1> QED
  BY <1>3

LEMMA FreshCopy ==
  ASSUME NEW r \in Requests, Fresh(r), NEW m \in Members
  PROVE  Copy(r, m) = row[m]
BY DEF Copy, Fresh

\* A step that leaves the table and the session of s alone.
Left(s) ==
  /\ row' = row /\ place'[s] = place[s]
  /\ seen'[s] = seen[s] /\ want'[s] = want[s] /\ overtaken'[s] = overtaken[s]

LEMMA LeftCareful ==
  ASSUME NEW s \in Requests, Careful(s), Left(s)
  PROVE  Careful(s)'
<1>1. \A m \in Members : Written(s, m)' = Written(s, m)
  BY DEF Left, Written, Updated, Touched, Inserted, Deleted
<1>2. OwnerKept' = OwnerKept /\ Fresh(s)' = Fresh(s)
  BY DEF Left, OwnerKept, Owners, Fresh
<1> QED
  BY <1>1, <1>2 DEF Careful, Left

\* Every step but a commit leaves the other requests alone.
LEMMA OthersLeft ==
  ASSUME TypeOK, NEW r \in Requests, Route(r), ~Commit(r), NEW s \in Requests, s # r
  PROVE  Left(s)
<1>1. CASE ArriveAtConsole(r)
  BY <1>1 DEF ArriveAtConsole, Left, TypeOK
<1>2. CASE CountOwners(r)
  BY <1>2 DEF CountOwners, Left, TypeOK
<1>3. CASE Refuse(r)
  BY <1>3 DEF Refuse, Close, Left, TypeOK
<1>4. ASSUME NEW m \in Members, NEW target, NEW counted, Stage(r, m, target),
             Proceed(r, counted)
      PROVE  Left(s)
  BY <1>4 DEF Stage, Proceed, Left, TypeOK
<1>5. ASSUME NEW m \in Members, Arrive(r, m) PROVE Left(s)
  BY <1>5 DEF Arrive, Left, TypeOK
<1>6. ASSUME NEW m \in Members, TransferOwnership(r, m) PROVE Left(s)
  BY <1>6 DEF TransferOwnership, Proceed, Left, TypeOK
<1>7. ASSUME NEW m \in Members, Suspend(r, m) \/ Unsuspend(r, m) \/ Remove(r, m)
      PROVE  Left(s)
  BY <1>4, <1>7 DEF Suspend, Unsuspend, Remove
<1>8. ASSUME NEW m \in Members, NEW role \in Roles,
             ChangeRole(r, m, role) \/ AddMember(r, m, role)
      PROVE  Left(s)
  BY <1>4, <1>8 DEF ChangeRole, AddMember
<1> QED
  BY <1>1, <1>2, <1>3, <1>5, <1>6, <1>7, <1>8 DEF Route

\* A change to one row that leaves an owner an owner is safe to commit.
LEMMA StageKeepsOwner ==
  ASSUME TypeOK, NEW r \in Requests, Careful(r), ~overtaken[r], OwnerKept,
         NEW m \in Members, NEW target \in Row,
         Stage(r, m, target), row[m].role = "owner" => target.role = "owner"
  PROVE  \E o \in Members : Written(r, o)'.role = "owner"
<1>1. want[r] = seen[r] /\ row' = row
  BY DEF Stage, Careful
<1>2. PICK o \in Members : row[o].role = "owner"
  BY DEF OwnerKept, Owners
<1>3. CASE o # m
  <2>1. want'[r][o] = seen'[r][o]
    BY <1>1, <1>3 DEF Stage, TypeOK
  <2>2. Written(r, o)' = row'[o]
    BY <2>1 DEF Written, Updated, Touched
  <2> QED
    BY <1>1, <1>2, <2>2
<1>4. CASE o = m
  <2>1. seen'[r][m] = row[m] /\ want'[r][m] = target
    BY FreshCopy DEF Stage, TypeOK, Careful
  <2>2. seen'[r][m] # NoRow
    BY <1>2, <1>4, <2>1 DEF NoRow
  <2>3. target.role = "owner"
    BY <1>2, <1>4
  <2>4. target # Gone
    BY <2>3 DEF Gone
  <2>5. Written(r, m)'.role = "owner"
    <3>1. CASE target = row[m]
      BY <1>1, <1>2, <1>4, <2>1, <3>1 DEF Written, Updated, Touched
    <3>2. CASE target # row[m]
      <4>1. (m \in Updated(r))'
        BY <1>1, <2>1, <2>2, <2>4, <3>2 DEF Updated, Touched, Inserted, Deleted
      <4> QED
        BY <1>1, <1>2, <1>4, <2>1, <2>3, <4>1 DEF Written
    <3> QED
      BY <3>1, <3>2
  <2> QED
    BY <2>5
<1> QED
  BY <1>3, <1>4

\* Staging one row keeps a request careful, when it goes on to the count or
\* does not take ownership from a row that is still as it was loaded.
LEMMA StageCareful ==
  ASSUME TypeOK, NEW r \in Requests, Careful(r), NEW m \in Members,
         NEW target \in Row, NEW counted \in BOOLEAN,
         Stage(r, m, target), Proceed(r, counted),
         ~overtaken[r] => counted \/ (row[m].role = "owner" => target.role = "owner")
  PROVE  Careful(r)'
<1>1. row' = row /\ OwnerKept' = OwnerKept /\ overtaken'[r] = overtaken[r]
  BY DEF Stage, OwnerKept, Owners
<1>2. ~overtaken[r] => Fresh(r)'
  BY <1>1, FreshCopy DEF Stage, Careful, Fresh, TypeOK
<1>3. place'[r] = IF counted THEN "counting" ELSE "ready"
  BY DEF Proceed, TypeOK
<1>4. \A o \in Members \ {m} : want'[r][o] = seen'[r][o]
  BY DEF Stage, Careful, TypeOK
<1>5. ~overtaken[r] /\ OwnerKept /\ ~counted =>
        \E o \in Members : Written(r, o)'.role = "owner"
  BY StageKeepsOwner
<1> QED
  BY <1>1, <1>2, <1>3, <1>4, <1>5 DEF Careful

LEMMA CloseCareful ==
  ASSUME TypeOK, NEW r \in Requests, Close(r)
  PROVE  Careful(r)'
BY DEF Careful, Fresh, Close, TypeOK, Nothing

\* A commit that changes the table overtakes every request under way; one that
\* changes nothing leaves them alone.
LEMMA CommitCareful ==
  ASSUME TypeOK, NEW r \in Requests, Commit(r), NEW s \in Requests, s # r, Careful(s)
  PROVE  Careful(s)'
<1>1. place'[s] = place[s] /\ seen'[s] = seen[s] /\ want'[s] = want[s]
  BY DEF Commit, Close, TypeOK
<1>2. overtaken'[s] = (place[s] # "idle" /\ (overtaken[s] \/ row' # row))
  BY DEF Commit
<1>3. CASE row' # row /\ place[s] # "idle"
  BY <1>1, <1>2, <1>3 DEF Careful
<1>4. CASE place[s] = "idle"
  BY <1>1, <1>2, <1>4 DEF Careful, Fresh, TypeOK, Nothing
<1>5. CASE row' = row /\ place[s] # "idle"
  <2>1. overtaken'[s] = overtaken[s]
    BY <1>2, <1>5 DEF TypeOK
  <2> QED
    BY <1>1, <1>5, <2>1, LeftCareful DEF Left
<1> QED
  BY <1>3, <1>4, <1>5

\* Every step of request r but a commit keeps it careful.
LEMMA StepCareful ==
  ASSUME TypeOK, NEW r \in Requests, Careful(r), Route(r), ~Commit(r)
  PROVE  Careful(r)'
<1>1. CASE ArriveAtConsole(r)
  <2>1. row' = row /\ seen' = seen /\ want' = want /\ overtaken' = overtaken
        /\ place[r] = "idle" /\ place'[r] = "arrived"
    BY <1>1 DEF ArriveAtConsole, TypeOK
  <2>2. want[r] = seen[r]
    BY <2>1 DEF TypeOK
  <2> QED
    BY <2>1, <2>2 DEF Careful, Fresh
<1>2. CASE CountOwners(r)
  <2>1. PICK t \in Members : \A m \in Members \ {t} : want[r][m] = seen[r][m]
    BY <1>2 DEF CountOwners, Careful
  <2>2. PICK o \in Owners : o # t
    BY <1>2, TwoOwners DEF CountOwners
  <2>3. o \in Members /\ row[o].role = "owner"
    BY DEF Owners
  <2>4. Written(r, o) = row[o]
    BY <2>1, <2>2, <2>3, UntouchedIsWritten
  <2>5. row' = row /\ seen' = seen /\ want' = want /\ overtaken' = overtaken
        /\ place'[r] = "ready"
    BY <1>2 DEF CountOwners, TypeOK
  <2>6. Written(r, o)' = Written(r, o)
    BY <2>5 DEF Written, Updated, Touched, Inserted, Deleted
  <2> QED
    BY <2>3, <2>4, <2>5, <2>6 DEF Careful, Fresh
<1>3. CASE Refuse(r)
  BY <1>3, CloseCareful DEF Refuse
<1>4. ASSUME NEW m \in Members, Arrive(r, m) PROVE Careful(r)'
  <2>1. row' = row /\ place[r] = "idle" /\ place'[r] = "arrived" /\ overtaken' = overtaken
    BY <1>4 DEF Arrive, TypeOK
  <2>2. seen[r] = Nothing /\ want[r] = Nothing
    BY <2>1 DEF TypeOK
  <2>3. want'[r] = seen'[r]
    BY <1>4, <2>2 DEF Arrive, TypeOK
  <2>4. \A n \in Members : seen'[r][n] # NoRow => seen'[r][n] = row[n]
    BY <1>4, <2>2 DEF Arrive, TypeOK, Nothing
  <2> QED
    BY <2>1, <2>3, <2>4 DEF Careful, Fresh
<1>5. ASSUME NEW m \in Members PROVE ~overtaken[r] => Copy(r, m) = row[m]
  BY FreshCopy DEF Careful
<1>6. ASSUME NEW m \in Members, Suspend(r, m) PROVE Careful(r)'
  <2>1. [Copy(r, m) EXCEPT !.active = FALSE] \in Row
    BY CopyType, RowFacts
  <2> QED
    BY <1>5, <1>6, <2>1, StageCareful DEF Suspend
<1>7. ASSUME NEW m \in Members, Unsuspend(r, m) PROVE Careful(r)'
  <2>1. [Copy(r, m) EXCEPT !.active = TRUE] \in Row /\ Copy(r, m) \in Row
    BY CopyType, RowFacts
  <2>2. [Copy(r, m) EXCEPT !.active = TRUE].role = Copy(r, m).role
    BY <2>1 DEF Row
  <2> QED
    BY <1>5, <1>7, <2>1, <2>2, StageCareful DEF Unsuspend
<1>8. ASSUME NEW m \in Members, Remove(r, m) PROVE Careful(r)'
  BY <1>5, <1>8, RowFacts, StageCareful DEF Remove
<1>9. ASSUME NEW m \in Members, NEW role \in Roles, ChangeRole(r, m, role)
      PROVE  Careful(r)'
  <2>1. [Copy(r, m) EXCEPT !.role = role] \in Row /\ Copy(r, m) \in Row
    BY CopyType, RowFacts
  <2>2. [Copy(r, m) EXCEPT !.role = role].role = role
    BY <2>1 DEF Row
  <2> QED
    BY <1>5, <1>9, <2>1, <2>2, StageCareful DEF ChangeRole
<1>10. ASSUME NEW m \in Members, NEW role \in Roles, AddMember(r, m, role)
       PROVE  Careful(r)'
  <2>1. ~overtaken[r] => row[m].role # "owner"
    BY <1>5, <1>10 DEF AddMember, NoRow
  <2> QED
    BY <1>10, <2>1, RowFacts, StageCareful DEF AddMember
<1>11. ASSUME NEW m \in Members, TransferOwnership(r, m) PROVE Careful(r)'
  <2>1. row' = row /\ place'[r] = "ready" /\ want[r] = seen[r] /\ caller[r] \in Members
        /\ overtaken' = overtaken /\ caller[r] # m
    BY <1>11 DEF TransferOwnership, Proceed, Careful, Can, TypeOK
  <2>2. seen'[r][m] = Copy(r, m) /\ \A n \in Members \ {m} : seen'[r][n] = seen[r][n]
    BY <1>11 DEF TransferOwnership, TypeOK
  <2>3. want'[r][m] = [role |-> "owner", active |-> TRUE]
    BY <1>11, <2>1 DEF TransferOwnership, TypeOK
  <2>4. row[m] # NoRow
    BY <1>11 DEF TransferOwnership, Present, NoRow, Roles
  <2>5. ~overtaken[r] => Written(r, m)'.role = "owner"
    <3> SUFFICES ASSUME ~overtaken[r] PROVE Written(r, m)'.role = "owner"
      OBVIOUS
    <3>1. seen'[r][m] = row[m]
      BY <1>5, <2>2
    <3>2. CASE want'[r][m] = seen'[r][m]
      BY <2>1, <2>3, <3>1, <3>2 DEF Written, Updated, Touched
    <3>3. CASE want'[r][m] # seen'[r][m]
      <4>1. (m \in Updated(r))'
        BY <2>3, <2>4, <3>1, <3>3 DEF Updated, Touched, Inserted, Deleted, Gone
      <4> QED
        BY <2>1, <2>3, <3>1, <4>1 DEF Written
    <3> QED
      BY <3>2, <3>3
  <2>6. ~overtaken[r] => Fresh(r)'
    BY <1>5, <2>1, <2>2 DEF Fresh, Careful
  <2> QED
    BY <2>1, <2>5, <2>6 DEF Careful
<1> QED
  BY <1>1, <1>2, <1>3, <1>4, <1>6, <1>7, <1>8, <1>9, <1>10, <1>11 DEF Route

LEMMA NextOwner == TypeOK /\ OwnerInv /\ [Next]_vars => OwnerInv'
<1> SUFFICES ASSUME TypeOK, OwnerInv, [Next]_vars PROVE OwnerInv'
  OBVIOUS
<1> SUFFICES ASSUME NEW s \in Requests PROVE Careful(s)'
  BY DEF OwnerInv
<1>0. Careful(s)
  BY DEF OwnerInv
<1>1. CASE UNCHANGED vars
  BY <1>0, <1>1, LeftCareful DEF vars, Left
<1>2. ASSUME NEW r \in Requests, Route(r) PROVE Careful(s)'
  <2>1. CASE Commit(r) /\ s = r
    BY <2>1, CloseCareful DEF Commit
  <2>2. CASE Commit(r) /\ s # r
    BY <1>0, <2>2, CommitCareful
  <2>3. CASE ~Commit(r) /\ s = r
    BY <1>0, <1>2, <2>3, StepCareful
  <2>4. CASE ~Commit(r) /\ s # r
    BY <1>0, <1>2, <2>4, OthersLeft, LeftCareful
  <2> QED
    BY <2>1, <2>2, <2>3, <2>4
<1> QED
  BY <1>1, <1>2 DEF Next

LEMMA InitOwner == Init => OwnerInv
BY DEF Init, OwnerInv, Careful, Fresh, Nothing

\* Only a commit leads from "ready" to "idle".
LEMMA CommitsCommit ==
  ASSUME TypeOK, [Next]_vars, NEW r \in Requests, Commits(r)
  PROVE  Commit(r)
<1>1. PICK q \in Requests : Route(q)
  BY DEF Next, vars, Commits
<1>2. CASE q # r
  <2>1. CASE Commit(q)
    BY <1>2, <2>1 DEF Commit, Close, Commits, TypeOK
  <2>2. CASE ~Commit(q)
    BY <1>1, <1>2, <2>2, OthersLeft DEF Left, Commits
  <2> QED
    BY <2>1, <2>2
<1>3. CASE q = r
  <2>1. ~ArriveAtConsole(r) /\ ~CountOwners(r) /\ ~Refuse(r)
    BY DEF ArriveAtConsole, CountOwners, Refuse, Commits
  <2>2. \A m \in Members : \A target : ~Stage(r, m, target)
    BY DEF Stage, Commits
  <2>3. \A m \in Members : ~Suspend(r, m) /\ ~Unsuspend(r, m) /\ ~Remove(r, m)
    BY <2>2 DEF Suspend, Unsuspend, Remove
  <2>4. \A m \in Members, role \in Roles : ~ChangeRole(r, m, role) /\ ~AddMember(r, m, role)
    BY <2>2 DEF ChangeRole, AddMember
  <2>5. \A m \in Members : ~Arrive(r, m) /\ ~TransferOwnership(r, m)
    BY DEF Arrive, TransferOwnership, Commits
  <2> QED
    BY <1>1, <1>3, <2>1, <2>3, <2>4, <2>5 DEF Route
<1> QED
  BY <1>2, <1>3

\* Whatever requests overlap, only a commit that another one overtook can take
\* the last owner away: every other leaves an owner where there is one
\* (organization_must_keep_an_owner).
THEOREM OnlyOvertakenLoseTheOwner == Spec => LastOwnerStays
<1>1. ASSUME TypeOK, OwnerInv, [Next]_vars, NEW r \in Requests, Commits(r),
             ~overtaken[r], OwnerKept
      PROVE  OwnerKept'
  <2>1. Commit(r)
    BY <1>1, CommitsCommit
  <2>2. PICK m \in Members : Written(r, m).role = "owner"
    BY <1>1, <2>1 DEF Commit, OwnerInv, Careful
  <2>3. CASE CommitFails(r)
    BY <1>1, <2>1, <2>3 DEF Commit, OwnerKept, Owners
  <2>4. CASE ~CommitFails(r)
    BY <2>1, <2>2, <2>4 DEF Commit, OwnerKept, Owners
  <2> QED
    BY <2>3, <2>4
<1>2. Init => TypeOK /\ OwnerInv
  BY InitType, InitOwner
<1>3. TypeOK /\ OwnerInv /\ [Next]_vars => (TypeOK /\ OwnerInv)'
  BY NextType, NextOwner
<1>4. TypeOK /\ OwnerInv /\ [Next]_vars =>
        [\A r \in Requests : Commits(r) /\ ~overtaken[r] /\ OwnerKept => OwnerKept']_vars
  BY <1>1
<1> QED
  BY <1>2, <1>3, <1>4, PTL DEF Spec, LastOwnerStays

-----------------------------------------------------------------------------
(* Rank *)

AllRoles == Roles \union {"none", "removed"}

\* A change from one role to another that a caller of role `by` may make.
WithinRank(from, to, by) == ~GrantsMoreThan(from, by) /\ ~GrantsMoreThan(to, by)

\* The inductive strengthening of RankRespected, request by request: its
\* caller's row is loaded, and every change it has staged is within his rank
\* by the rows in its session.
Modest(r) ==
  /\ place[r] = "arrived" => want[r] = seen[r]
  /\ place[r] # "idle" /\ caller[r] # Console => seen[r][caller[r]].role \in Roles
  /\ place[r] # "idle" /\ caller[r] # Console =>
       \A m \in Members : want[r][m] # seen[r][m] =>
         WithinRank(seen[r][m].role, want[r][m].role, seen[r][caller[r]].role)

RankInv == \A r \in Requests : Modest(r)

LEMMA RankFacts ==
  /\ \A x \in AllRoles : ~GrantsMoreThan(x, "owner") /\ ~GrantsMoreThan(x, x)
  /\ \A x \in AllRoles : ~GrantsMoreThan("removed", x) /\ ~GrantsMoreThan("none", x)
  /\ \A x \in AllRoles : "ownership.transfer" \in Permissions(x) => x = "owner"
  /\ \A x \in AllRoles : "members.manage" \in Permissions(x) => x \in {"owner", "admin"}
  /\ ~GrantsMoreThan("member", "admin")
BY DEF AllRoles, Roles, GrantsMoreThan, Permissions

\* A role that a member manager may grant is no more than his own.
LEMMA GrantWithinRank ==
  ASSUME TypeOK, NEW r \in Requests, NEW role \in Roles,
         Can(r, "members.manage"), MayGrant(r, role)
  PROVE  ~GrantsMoreThan(role, seen[r][caller[r]].role)
<1>1. seen[r][caller[r]].role \in AllRoles
  BY DEF Can, TypeOK, Row, AllRoles
<1>2. CASE role = "owner"
  BY <1>1, <1>2, RankFacts DEF MayGrant, Can, AllRoles
<1>3. CASE role # "owner"
  <2>1. seen[r][caller[r]].role \in {"owner", "admin"} /\ role \in {"admin", "member"}
    BY <1>1, <1>3, RankFacts DEF Can, Roles
  <2> QED
    BY <2>1, RankFacts DEF AllRoles, Roles
<1> QED
  BY <1>2, <1>3

LEMMA StageModest ==
  ASSUME TypeOK, NEW r \in Requests, Modest(r), NEW m \in Members,
         NEW target \in Row, NEW counted \in BOOLEAN,
         Stage(r, m, target), Proceed(r, counted),
         caller[r] # Console =>
           WithinRank(Copy(r, m).role, target.role, seen[r][caller[r]].role)
  PROVE  Modest(r)'
<1>1. caller' = caller /\ place[r] = "arrived" /\ want[r] = seen[r]
  BY DEF Stage, Modest
<1>2. seen'[r][m] = Copy(r, m) /\ \A n \in Members \ {m} : seen'[r][n] = seen[r][n]
  BY DEF Stage, TypeOK
<1>3. want'[r][m] = target /\ \A n \in Members \ {m} : want'[r][n] = seen'[r][n]
  BY <1>1, <1>2 DEF Stage, TypeOK
<1>4. place'[r] # "arrived"
  BY DEF Proceed, TypeOK
<1>5. caller[r] # Console =>
        seen'[r][caller[r]] = seen[r][caller[r]] /\ seen[r][caller[r]].role \in Roles
  <2> SUFFICES ASSUME caller[r] # Console
               PROVE  seen'[r][caller[r]] = seen[r][caller[r]]
                      /\ seen[r][caller[r]].role \in Roles
    OBVIOUS
  <2>1. caller[r] \in Members /\ seen[r][caller[r]].role \in Roles
    BY <1>1 DEF TypeOK, Modest
  <2>2. seen[r][caller[r]] # NoRow
    BY <2>1 DEF NoRow, Roles
  <2> QED
    BY <1>2, <2>1, <2>2 DEF Copy
<1> QED
  BY <1>1, <1>2, <1>3, <1>4, <1>5 DEF Modest

LEMMA CloseModest ==
  ASSUME TypeOK, NEW r \in Requests, Close(r)
  PROVE  Modest(r)'
BY DEF Modest, Close, TypeOK

\* A step that leaves the session of s alone.
LEMMA LeftModest ==
  ASSUME NEW s \in Requests, Modest(s), place'[s] = place[s], caller'[s] = caller[s],
         seen'[s] = seen[s], want'[s] = want[s]
  PROVE  Modest(s)'
BY DEF Modest

LEMMA CallersLeft ==
  ASSUME TypeOK, NEW r \in Requests, Route(r), NEW s \in Requests, s # r
  PROVE  caller'[s] = caller[s]
<1>1. \A m \in Members : \A target : Stage(r, m, target) => caller' = caller
  BY DEF Stage
<1>2. CASE ArriveAtConsole(r) \/ CountOwners(r) \/ Refuse(r) \/ Commit(r)
  BY <1>2 DEF ArriveAtConsole, CountOwners, Refuse, Commit, Close, TypeOK
<1>3. ASSUME NEW m \in Members, Arrive(r, m) \/ TransferOwnership(r, m)
      PROVE  caller'[s] = caller[s]
  BY <1>3 DEF Arrive, TransferOwnership, TypeOK
<1>4. ASSUME NEW m \in Members, Suspend(r, m) \/ Unsuspend(r, m) \/ Remove(r, m)
      PROVE  caller'[s] = caller[s]
  BY <1>1, <1>4 DEF Suspend, Unsuspend, Remove
<1>5. ASSUME NEW m \in Members, NEW role \in Roles,
             ChangeRole(r, m, role) \/ AddMember(r, m, role)
      PROVE  caller'[s] = caller[s]
  BY <1>1, <1>5 DEF ChangeRole, AddMember
<1> QED
  BY <1>2, <1>3, <1>4, <1>5 DEF Route

\* Every step of request r keeps what it has staged within its caller's rank.
LEMMA StepModest ==
  ASSUME TypeOK, NEW r \in Requests, Modest(r), Route(r)
  PROVE  Modest(r)'
<1>1. CASE ArriveAtConsole(r)
  <2>1. seen' = seen /\ want' = want /\ place[r] = "idle" /\ caller'[r] = Console
    BY <1>1 DEF ArriveAtConsole, TypeOK
  <2>2. want[r] = seen[r]
    BY <2>1 DEF TypeOK
  <2> QED
    BY <2>1, <2>2 DEF Modest
<1>2. CASE CountOwners(r)
  <2>1. seen' = seen /\ want' = want /\ caller' = caller
        /\ place[r] = "counting" /\ place'[r] = "ready"
    BY <1>2 DEF CountOwners, TypeOK
  <2> QED
    BY <2>1 DEF Modest
<1>3. CASE Refuse(r) \/ Commit(r)
  BY <1>3, CloseModest DEF Refuse, Commit
<1>4. ASSUME NEW m \in Members, Arrive(r, m) PROVE Modest(r)'
  <2>1. caller'[r] = m /\ seen[r] = Nothing /\ want[r] = Nothing
    BY <1>4 DEF Arrive, TypeOK
  <2>2. want'[r] = seen'[r] /\ seen'[r][m] = row[m]
    BY <1>4, <2>1 DEF Arrive, TypeOK
  <2>3. row[m].role \in Roles
    BY <1>4 DEF Arrive, Present
  <2> QED
    BY <2>1, <2>2, <2>3 DEF Modest
<1>5. ASSUME NEW m \in Members, Suspend(r, m) PROVE Modest(r)'
  <2>1. Copy(r, m) \in Row
    BY CopyType
  <2>2. [Copy(r, m) EXCEPT !.active = FALSE] \in Row
        /\ [Copy(r, m) EXCEPT !.active = FALSE].role = Copy(r, m).role
    BY <2>1, RowFacts DEF Row
  <2>3. WithinRank(Copy(r, m).role, Copy(r, m).role, seen[r][caller[r]].role)
    BY <1>5 DEF Suspend, Manageable, WithinRank
  <2> QED
    BY <1>5, <2>2, <2>3, StageModest DEF Suspend
<1>6. ASSUME NEW m \in Members, Unsuspend(r, m) PROVE Modest(r)'
  <2>1. Copy(r, m) \in Row
    BY CopyType
  <2>2. [Copy(r, m) EXCEPT !.active = TRUE] \in Row
        /\ [Copy(r, m) EXCEPT !.active = TRUE].role = Copy(r, m).role
    BY <2>1, RowFacts DEF Row
  <2>3. WithinRank(Copy(r, m).role, Copy(r, m).role, seen[r][caller[r]].role)
    BY <1>6 DEF Unsuspend, Manageable, WithinRank
  <2> QED
    BY <1>6, <2>2, <2>3, StageModest DEF Unsuspend
<1>7. ASSUME NEW m \in Members, Remove(r, m) PROVE Modest(r)'
  <2>1. caller[r] # Console => seen[r][caller[r]].role \in AllRoles
    BY DEF TypeOK, Row, AllRoles
  <2>2. caller[r] # Console =>
          WithinRank(Copy(r, m).role, Gone.role, seen[r][caller[r]].role)
    BY <1>7, <2>1, RankFacts DEF Remove, Manageable, WithinRank, Gone
  <2> QED
    BY <1>7, <2>2, RowFacts, StageModest DEF Remove
<1>8. ASSUME NEW m \in Members, NEW role \in Roles, ChangeRole(r, m, role)
      PROVE  Modest(r)'
  <2>1. Copy(r, m) \in Row
    BY CopyType
  <2>2. [Copy(r, m) EXCEPT !.role = role] \in Row
        /\ [Copy(r, m) EXCEPT !.role = role].role = role
    BY <2>1, RowFacts DEF Row
  <2>3. caller[r] # Console => WithinRank(Copy(r, m).role, role, seen[r][caller[r]].role)
    BY <1>8, GrantWithinRank DEF ChangeRole, Manageable, WithinRank
  <2> QED
    BY <1>8, <2>2, <2>3, StageModest DEF ChangeRole
<1>9. ASSUME NEW m \in Members, NEW role \in Roles, AddMember(r, m, role)
      PROVE  Modest(r)'
  <2>1. Copy(r, m).role = "none"
    BY <1>9 DEF AddMember, NoRow
  <2>2. caller[r] # Console => seen[r][caller[r]].role \in AllRoles
    BY DEF TypeOK, Row, AllRoles
  <2>3. caller[r] # Console => WithinRank(Copy(r, m).role, role, seen[r][caller[r]].role)
    BY <1>9, <2>1, <2>2, GrantWithinRank, RankFacts DEF AddMember, WithinRank
  <2> QED
    BY <1>9, <2>3, RowFacts, StageModest DEF AddMember
<1>10. ASSUME NEW m \in Members, TransferOwnership(r, m) PROVE Modest(r)'
  <2> DEFINE own == caller[r]
  <2>1. caller' = caller /\ place[r] = "arrived" /\ place'[r] = "ready"
        /\ want[r] = seen[r] /\ own # Console /\ m # own /\ own \in Members
    BY <1>10 DEF TransferOwnership, Proceed, Modest, Can, TypeOK
  <2>2. seen[r][own].role = "owner"
    BY <1>10, <2>1, RankFacts DEF TransferOwnership, Can, Modest, AllRoles
  <2>3. \A n \in Members \ {m} : seen'[r][n] = seen[r][n]
    BY <1>10 DEF TransferOwnership, TypeOK
  <2>4. TypeOK'
    BY <1>10, NextType DEF Next, Route
  <2>5. \A n \in Members : seen'[r][n].role \in AllRoles /\ want'[r][n].role \in AllRoles
    BY <2>4 DEF TypeOK, Row, AllRoles
  <2>6. \A n \in Members : WithinRank(seen'[r][n].role, want'[r][n].role, seen'[r][own].role)
    BY <2>1, <2>2, <2>3, <2>5, RankFacts DEF WithinRank
  <2> QED
    BY <2>1, <2>2, <2>3, <2>6 DEF Modest, Roles
<1> QED
  BY <1>1, <1>2, <1>3, <1>4, <1>5, <1>6, <1>7, <1>8, <1>9, <1>10 DEF Route

LEMMA NextRank == TypeOK /\ RankInv /\ [Next]_vars => RankInv'
<1> SUFFICES ASSUME TypeOK, RankInv, [Next]_vars, NEW s \in Requests PROVE Modest(s)'
  BY DEF RankInv
<1>0. Modest(s)
  BY DEF RankInv
<1>1. CASE UNCHANGED vars
  BY <1>0, <1>1, LeftModest DEF vars
<1>2. ASSUME NEW r \in Requests, Route(r) PROVE Modest(s)'
  <2>1. CASE s = r
    BY <1>0, <1>2, <2>1, StepModest
  <2>2. CASE s # r
    <3>1. caller'[s] = caller[s]
      BY <1>2, <2>2, CallersLeft
    <3>2. place'[s] = place[s] /\ seen'[s] = seen[s] /\ want'[s] = want[s]
      <4>1. CASE Commit(r)
        BY <2>2, <4>1 DEF Commit, Close, TypeOK
      <4>2. CASE ~Commit(r)
        BY <1>2, <2>2, <4>2, OthersLeft DEF Left
      <4> QED
        BY <4>1, <4>2
    <3> QED
      BY <1>0, <3>1, <3>2, LeftModest
  <2> QED
    BY <2>1, <2>2
<1> QED
  BY <1>1, <1>2 DEF Next

\* Whatever requests overlap, nobody inside the organization changes the row of
\* a member who holds more than he does, or hands out more than he holds, while
\* his row and the changed one are still what his request loaded
\* (_manageable_membership, _granted_role).
THEOREM RankKept == Spec => RankRespected
<1>1. Init => TypeOK /\ RankInv
  BY InitType DEF Init, RankInv, Modest
<1>2. TypeOK /\ RankInv /\ [Next]_vars => (TypeOK /\ RankInv)'
  BY NextType, NextRank
<1>3. ASSUME TypeOK, RankInv, [Next]_vars, NEW r \in Requests, Commits(r),
             caller[r] # Console, row[caller[r]] = seen[r][caller[r]],
             NEW m \in Members, row'[m] # row[m], row[m] = seen[r][m]
      PROVE  /\ ~GrantsMoreThan(row[m].role, row[caller[r]].role)
             /\ ~GrantsMoreThan(row'[m].role, row[caller[r]].role)
  <2>1. Commit(r)
    BY <1>3, CommitsCommit
  <2>2. row'[m] = Written(r, m)
    BY <1>3, <2>1 DEF Commit
  <2>3. want[r][m] # seen[r][m]
    BY <1>3, <2>2, UntouchedIsWritten
  <2>4. WithinRank(row[m].role, want[r][m].role, row[caller[r]].role)
    BY <1>3, <2>3 DEF RankInv, Modest, Commits
  <2>5. Written(r, m).role \in {row[m].role, want[r][m].role}
    BY DEF Written
  <2> QED
    BY <2>2, <2>4, <2>5 DEF WithinRank
<1>4. TypeOK /\ RankInv /\ [Next]_vars =>
        [\A r \in Requests :
           Commits(r) /\ caller[r] # Console /\ row[caller[r]] = seen[r][caller[r]] =>
             \A m \in Members : row'[m] # row[m] /\ row[m] = seen[r][m] =>
               /\ ~GrantsMoreThan(row[m].role, row[caller[r]].role)
               /\ ~GrantsMoreThan(row'[m].role, row[caller[r]].role)]_vars
  BY <1>3
<1> QED
  BY <1>1, <1>2, <1>4, PTL DEF Spec, RankRespected

=============================================================================
