-------------------------------- MODULE Tiers --------------------------------
(***************************************************************************)
(* The ladder of tiers of one organization, the members on it, and the one *)
(* read rule (app/models/tier.py, platform/authz.py, the tier routes of    *)
(* controllers/manage.py, Membership.add and set_tier).  A request reads   *)
(* the ladder, decides, and writes the columns it changed; another may     *)
(* have written in between.  A tier stands for the visibility value that   *)
(* requires it (visibility_value): a gate is "public", "members" or a tier. *)
(***************************************************************************)
EXTENDS Integers, FiniteSets

CONSTANTS
  Tiers,        \* tiers that may be made, by slug
  Free,         \* the one provisioning makes
  Members,      \* accounts that may be members
  Requests,     \* requests that may be under way at the same time
  NoTier        \* no tier

ASSUME TiersAssumption ==
  /\ Free \in Tiers /\ NoTier \notin Tiers
  /\ {"public", "members"} \cap Tiers = {}
  /\ IsFiniteSet(Tiers)

VARIABLES
  tier,         \* tier[t]: the table of tiers; rows are never deleted
  held,         \* held[u]: the tier of u's membership, NoTier without one
  climbing      \* climbing[r]: what request r is about to write

ladder == <<tier, held, climbing>>

NoRow == [there |-> FALSE, id |-> 0, rank |-> 0, active |-> FALSE]
Still == [at |-> "idle", tier |-> NoTier, rank |-> 0, ranks |-> [t \in Tiers |-> 0],
          alone |-> TRUE]

TiersInit ==
  /\ tier = [t \in Tiers |-> IF t = Free THEN [there |-> TRUE, id |-> 1, rank |-> 1, active |-> TRUE]
                                         ELSE NoRow]
  /\ held = [u \in Members |-> NoTier]
  /\ climbing = [r \in Requests |-> Still]

-----------------------------------------------------------------------------
(* Reading *)

\* in_order(include_retired=True), and the order of the active ones.
LadderOf(rows) == {t \in Tiers : rows[t].there}
Ladder == LadderOf(tier)
Offered == {t \in Ladder : tier[t].active}
Before(a, b) == a.rank < b.rank \/ (a.rank = b.rank /\ a.id < b.id)
PlaceIn(rows, t) == 1 + Cardinality({s \in LadderOf(rows) : Before(rows[s], rows[t])})
PlaceOf(t) == PlaceIn(tier, t)
HighestRank == CHOOSE n \in {tier[t].rank : t \in Ladder} : \A t \in Ladder : tier[t].rank <= n

\* bottom: where a new member lands.
IsBottom(t) == t \in Offered /\ \A s \in Offered \ {t} : Before(tier[t], tier[s])

\* tier_ranks: the memo of one request, all of the ladder or nothing of it.
Ranks == [t \in Ladder |-> tier[t].rank]

Writes(v) == v.role \in {"admin", "owner"}
Inside(v) == v.admin \/ v.role # "none"

\* can_read, for a visitor [signed, admin, role, held] and the ranks memoized;
\* the rank he holds is that of his membership's row, which may be newer.
Reaches(ranks, v, gate) ==
  /\ gate \in DOMAIN ranks
  /\ v.held \in Ladder
  /\ tier[v.held].rank >= ranks[gate]

CanRead(ranks, v, gate) ==
  \/ gate = "public"
  \/ v.admin
  \/ v.role # "none" /\ (Writes(v) \/ gate = "members" \/ Reaches(ranks, v, gate))

\* readable_visibilities: everything, or the values to filter a listing by.
ReadsEverything(v) == v.admin \/ Writes(v)
ReadableGates(ranks, v) ==
  IF v.role = "none" THEN {"public"}
  ELSE {"public", "members"} \union
       {t \in DOMAIN ranks : v.held \in Ladder /\ ranks[t] <= tier[v.held].rank}

\* Fault: a listing knows the active rungs only.
OfferedListed(ranks, v, gate) ==
  ReadsEverything(v) \/ gate \in ReadableGates(ranks, v) \ (Ladder \ Offered)

Listed(ranks, v, gate) == ReadsEverything(v) \/ gate \in ReadableGates(ranks, v)

\* visibility_is_valid: retired tiers included.
Gates == {"public", "members"} \union Ladder

\* Visitors: who is no member, signed in or not, a platform admin among them;
\* members and administrators on any tier.
Strangers == {v \in [signed : BOOLEAN, admin : BOOLEAN, role : {"none"}, held : {NoTier}] :
                v.admin => v.signed}
Visitors == Strangers \union
            [signed : {TRUE}, admin : {FALSE}, role : {"member", "admin"}, held : Ladder]
Anonymous == [signed |-> FALSE, admin |-> FALSE, role |-> "none", held |-> NoTier]

-----------------------------------------------------------------------------
(* Changing *)

Start(r, started) ==
  /\ climbing[r].at = "idle"
  /\ climbing' = [s \in Requests |->
       IF s = r THEN [started EXCEPT !.alone = \A q \in Requests \ {r} : climbing[q].at = "idle"]
                ELSE [climbing[s] EXCEPT !.alone = climbing[s].at = "idle"]]
Finish(r) == climbing' = [climbing EXCEPT ![r] = Still]

\* add: at the top of the ladder that was read.
BeginAdd(r) ==
  /\ Start(r, [Still EXCEPT !.at = "adding", !.rank = HighestRank + 1])
  /\ UNCHANGED <<tier, held>>

SaveAdd(r, t) ==
  /\ climbing[r].at = "adding"
  /\ ~tier[t].there                     \* the slug is unique
  /\ tier' = [tier EXCEPT ![t] = [there |-> TRUE, id |-> Cardinality(Ladder) + 1,
                                  rank |-> climbing[r].rank, active |-> TRUE]]
  /\ Finish(r)
  /\ UNCHANGED held

\* Fault: only the two neighbours change, and ties stay.
SwapOnly(t, step) ==
  LET other == {s \in Ladder : PlaceOf(s) = PlaceOf(t) + step}
  IN [s \in Ladder |-> IF s = t /\ other # {} THEN tier[CHOOSE o \in other : TRUE].rank
                       ELSE IF s \in other THEN tier[t].rank ELSE tier[s].rank]

\* move: everything renumbered in its order, then the two swapped.
Moved(t, step) ==
  LET there == PlaceOf(t) + step
  IN [s \in Ladder |-> IF there \notin 1..Cardinality(Ladder) THEN PlaceOf(s)
                       ELSE IF s = t THEN there
                       ELSE IF PlaceOf(s) = there THEN PlaceOf(t) ELSE PlaceOf(s)]

\* Only the ranks that changed are written: 0 is no write.
BeginMove(r, t, step) ==
  /\ t \in Ladder
  /\ LET moved == Moved(t, step)
     IN Start(r, [Still EXCEPT !.at = "moving", !.tier = t, !.rank = PlaceOf(t) + step,
                  !.ranks = [s \in Tiers |-> IF s \in Ladder /\ moved[s] # tier[s].rank
                                             THEN moved[s] ELSE 0]])
  /\ UNCHANGED <<tier, held>>

SaveMove(r) ==
  /\ climbing[r].at = "moving"
  /\ tier' = [t \in Tiers |-> IF climbing[r].ranks[t] = 0 THEN tier[t]
                              ELSE [tier[t] EXCEPT !.rank = climbing[r].ranks[t]]]
  /\ Finish(r)
  /\ UNCHANGED held

\* Fault: nothing counts the tiers left.
AnotherOffered(t) == t \in Offered

\* organization_must_keep_a_tier.
MayRetire(t) == t \in Offered /\ Cardinality(Offered) > 1

\* toggle_tier: the active flag decides between retire and restore.
BeginRetire(r, t) ==
  /\ MayRetire(t)
  /\ Start(r, [Still EXCEPT !.at = "retiring", !.tier = t])
  /\ UNCHANGED <<tier, held>>

SaveRetire(r) ==
  /\ climbing[r].at = "retiring"
  /\ tier' = [tier EXCEPT ![climbing[r].tier].active = FALSE]
  /\ Finish(r)
  /\ UNCHANGED held

Restore(t) ==
  /\ t \in Ladder \ Offered
  /\ tier' = [tier EXCEPT ![t].active = TRUE]
  /\ UNCHANGED <<held, climbing>>

\* A refusal, a rollback or the end of the process.
GiveUp(r) ==
  /\ climbing[r].at # "idle"
  /\ Finish(r)
  /\ UNCHANGED <<tier, held>>

\* Membership.add: on the tier chosen, or at the bottom.  Without an active
\* tier ensure_default would make a second Free, which the unique slug refuses.
JoinOn(u, t) ==
  /\ held[u] = NoTier
  /\ t \in Offered
  /\ held' = [held EXCEPT ![u] = t]
  /\ UNCHANGED <<tier, climbing>>

JoinAtBottom(u) == \E t \in Tiers : IsBottom(t) /\ JoinOn(u, t)

\* set_tier: an active tier, or the retired one he has.  A retire in between
\* leaves what a retire right after would.
SetTier(u, t) ==
  /\ held[u] # NoTier
  /\ t \in Offered \union {held[u]}
  /\ held' = [held EXCEPT ![u] = t]
  /\ UNCHANGED <<tier, climbing>>

LeaveLadder(u) ==
  /\ held[u] # NoTier
  /\ held' = [held EXCEPT ![u] = NoTier]
  /\ UNCHANGED <<tier, climbing>>

Climb(requests) ==
  \/ \E r \in requests :
       \/ BeginAdd(r) \/ SaveMove(r) \/ SaveRetire(r) \/ GiveUp(r)
       \/ \E t \in Tiers : \/ SaveAdd(r, t) \/ BeginRetire(r, t)
                           \/ \E step \in {-1, 1} : BeginMove(r, t, step)
  \/ \E t \in Tiers : Restore(t)

Stand == \E u \in Members : \/ JoinAtBottom(u) \/ LeaveLadder(u)
                            \/ \E t \in Tiers : JoinOn(u, t) \/ SetTier(u, t)

TiersNext == Climb(Requests) \/ Stand
TiersSpec == TiersInit /\ [][TiersNext]_ladder

-----------------------------------------------------------------------------
(* Properties *)

\* The rows are rows of the table, ranks never exceed the number of tiers, and
\* nobody is on a tier there is not: what the requests read, plan and write.
LadderOK ==
  /\ tier \in [Tiers -> [there : BOOLEAN, id : Nat, rank : Nat, active : BOOLEAN]]
  /\ \A t \in Ladder : tier[t].rank \in 1..Cardinality(Ladder)
  /\ \A t \in Tiers \ Ladder : tier[t] = NoRow
  /\ \A u \in Members : held[u] \in Ladder \union {NoTier}
  /\ \A r \in Requests : /\ climbing[r].at \in {"idle", "adding", "moving", "retiring"}
                         /\ climbing[r].tier \in Ladder \union {NoTier}

\* The listing rule and the page rule are one rule: whoever the visitor is and
\* however the ladder has been rearranged, retired rungs included, a gate is in
\* the listing's filter exactly when the page behind it opens; also where
\* another request changed the ladder between the memo and the row of his tier.
ListingAgrees ==
  [][\A ranks \in {Ranks, Ranks'}, v \in Visitors', gate \in Gates' :
       Listed(ranks, v, gate)' <=> CanRead(ranks, v, gate)']_ladder

\* Of requests that had the ladder to themselves, none retires the last tier:
\* a new member always has somewhere to land.
LastTierKept ==
  [][\A r \in Requests :
       (climbing[r].at = "retiring" /\ climbing[r].alone /\ tier' # tier) => Offered' # {}]_ladder

\* A move always changes the order, not a hidden tiebreaker: whatever ties
\* requests at the same time left, the tier lands on the place it was sent to
\* and the others keep their order.
MoveMoves ==
  [][\A r \in Requests : \A t \in Ladder :
       (climbing[r].at = "moving" /\ climbing[r].tier = t /\ climbing[r].alone
          /\ tier' # tier /\ climbing'[r].at = "idle"
          /\ climbing[r].rank \in 1..Cardinality(Ladder)) =>
         /\ PlaceIn(tier', t) = climbing[r].rank
         /\ \A a, b \in Ladder \ {t} :
              PlaceOf(a) < PlaceOf(b) => PlaceIn(tier', a) < PlaceIn(tier', b)]_ladder

=============================================================================
