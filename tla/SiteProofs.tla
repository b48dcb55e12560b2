----------------------------- MODULE SiteProofs -----------------------------
(* Theorems about Tiers, Content, Site, Feeds and Forum: for any tiers,      *)
(* members, items, groups and requests that overlap.                         *)
EXTENDS Feeds, Forum, FiniteSetTheorems, TLAPS

-----------------------------------------------------------------------------
(* Numbering *)

\* A finite set numbered without a gap or a tie: below the k-th are k - 1.
LEMMA Numbered ==
  ASSUME NEW S, IsFiniteSet(S), NEW f \in [S -> 1..Cardinality(S)],
         \A a, b \in S : f[a] = f[b] => a = b, NEW s \in S
  PROVE  Cardinality({u \in S : f[u] < f[s]}) = f[s] - 1
<1> DEFINE n == Cardinality(S)
           B == {u \in S : f[u] < f[s]}
           g == [u \in B |-> f[u]]
<1>1. n \in Nat
  BY FS_CardinalityType
<1>2. IsFiniteSet(1..n) /\ Cardinality(1..n) = n
  BY <1>1, FS_Interval
<1>3. f \in Injection(S, 1..n)
  BY DEF Injection, IsInjective
<1>4. f \in Surjection(S, 1..n)
  BY <1>2, <1>3, FS_Injection
<1>5. f[s] \in 1..n
  OBVIOUS
<1>6. ASSUME NEW k \in 1..(f[s] - 1)
      PROVE  \E u \in B : g[u] = k
  <2>1. k \in 1..n
    BY <1>1, <1>5
  <2>2. PICK u \in S : f[u] = k
    BY <2>1, <1>4 DEF Surjection
  <2> QED
    BY <2>2, <1>1, <1>5
<1>7. g \in Bijection(B, 1..(f[s] - 1))
  <2>1. g \in [B -> 1..(f[s] - 1)]
    BY <1>1
  <2>2. g \in Injection(B, 1..(f[s] - 1))
    BY <2>1 DEF Injection, IsInjective
  <2>3. g \in Surjection(B, 1..(f[s] - 1))
    BY <2>1, <1>6 DEF Surjection
  <2> QED
    BY <2>2, <2>3 DEF Bijection
<1>8. IsFiniteSet(B)
  BY FS_Subset
<1>9. Cardinality(1..(f[s] - 1)) = Cardinality(B)
  BY <1>7, <1>8, FS_Bijection DEF ExistsBijection
<1> QED
  BY <1>1, <1>5, <1>9, FS_Interval

\* A set of numbers with a bound has a greatest.
LEMMA Greatest ==
  ASSUME NEW S, S # {}, NEW b \in Nat, S \subseteq 0..b
  PROVE  \E n \in S : \A m \in S : m <= n
<1> DEFINE T == {k \in 0..b : b - k \in S}
<1>1. T \subseteq Nat /\ T # {}
  <2>1. PICK n \in S : TRUE
    OBVIOUS
  <2>2. b - n \in 0..b /\ b - (b - n) = n
    OBVIOUS
  <2>3. b - n \in T
    BY <2>1, <2>2
  <2>4. T \subseteq 0..b /\ 0..b \subseteq Nat
    OBVIOUS
  <2> QED
    BY <2>3, <2>4
<1>2. PICK k \in T : \A j \in T : ~ (<<j, k>> \in OpToRel(<, Nat))
  BY <1>1, NatLessThanWellFounded, WFMin
<1>3. \A j \in T : ~(j < k)
  BY <1>1, <1>2 DEF OpToRel
<1>4. ASSUME NEW m \in S
      PROVE  m <= b - k
  <2>1. b - m \in 0..b /\ b - (b - m) = m
    OBVIOUS
  <2>2. b - m \in T
    BY <2>1
  <2>3. ~(b - m < k)
    BY <2>2, <1>3
  <2>4. m \in 0..b /\ k \in 0..b
    OBVIOUS
  <2> HIDE DEF T
  <2> QED
    BY <2>3, <2>4
<1>5. PICK j \in 0..b : j = b - k
  OBVIOUS
<1> QED
  BY <1>4, <1>5

-----------------------------------------------------------------------------
(* The ladder *)

Rung == [there : BOOLEAN, id : Nat, rank : Nat, active : BOOLEAN]
Climber == [at : {"idle", "adding", "moving", "retiring"}, tier : Tiers \union {NoTier},
            rank : Int, ranks : [Tiers -> Nat], alone : BOOLEAN]

LadderTyped ==
  /\ tier \in [Tiers -> Rung]
  /\ held \in [Members -> Tiers \union {NoTier}]
  /\ climbing \in [Requests -> Climber]

\* Ranks may tie; primary keys do not, and both stay within the number of tiers.
Rungs ==
  /\ Free \in Ladder
  /\ \A t \in Ladder : tier[t].rank \in 1..Cardinality(Ladder) /\ tier[t].id \in 1..Cardinality(Ladder)
  /\ \A s, t \in Ladder : tier[s].id = tier[t].id => s = t
  /\ \A t \in Tiers \ Ladder : tier[t] = NoRow
  /\ \A u \in Members : held[u] \in Ladder \union {NoTier}

\* The ranks a move from what is in the table now would write.
Written(t, step) == [s \in Tiers |-> IF s \in Ladder /\ Moved(t, step)[s] # tier[s].rank
                                     THEN Moved(t, step)[s] ELSE 0]

\* What a request d is about to write.
Planned(d) ==
  /\ d.tier \in Ladder \union {NoTier}
  /\ d.at \in {"moving", "retiring"} => d.tier \in Ladder
  /\ d.at = "adding" => d.rank \in 1..(Cardinality(Ladder) + 1)
  /\ d.at = "moving" => \A t \in Tiers : /\ d.ranks[t] \in 0..Cardinality(Ladder)
                                         /\ d.ranks[t] # 0 => t \in Ladder
  /\ d.at = "moving" /\ d.alone => \E step \in {-1, 1} : /\ d.rank = PlaceOf(d.tier) + step
                                                         /\ d.ranks = Written(d.tier, step)
  /\ d.at = "retiring" /\ d.alone => \E s \in Offered : s # d.tier

\* Beside a request that is alone no other is under way.
Apart == \A r, q \in Requests :
  r # q /\ climbing[r].at # "idle" /\ climbing[r].alone => climbing[q].at = "idle"

LadderInv == LadderTyped /\ Rungs /\ (\A r \in Requests : Planned(climbing[r])) /\ Apart

LEMMA LadderFinite == LadderTyped => IsFiniteSet(Ladder) /\ Cardinality(Ladder) \in Nat
  BY TiersAssumption, FS_Subset, FS_CardinalityType DEF LadderTyped, Ladder, LadderOf

LEMMA StillClimber == Still \in Climber /\ Still.at = "idle" /\ Still.tier = NoTier
  BY DEF Still, Climber

LEMMA NoRowRung == NoRow \in Rung /\ ~NoRow.there
  BY DEF NoRow, Rung

\* The highest rank is that of a tier.
LEMMA HighestHeld ==
  ASSUME LadderInv
  PROVE  HighestRank \in 1..Cardinality(Ladder)
<1> DEFINE S == {tier[t].rank : t \in Ladder}
<1>1. Cardinality(Ladder) \in Nat
  BY LadderFinite DEF LadderInv
<1>2. S \subseteq 1..Cardinality(Ladder) /\ S # {}
  BY DEF LadderInv, Rungs
<1>3. S \subseteq 0..Cardinality(Ladder)
  BY <1>1, <1>2
<1>4. \E n \in S : \A m \in S : m <= n
  <2> HIDE DEF S
  <2> QED
    BY <1>1, <1>2, <1>3, Greatest
<1>5. \E n \in S : \A t \in Ladder : tier[t].rank <= n
  BY <1>4
<1>6. HighestRank \in S
  BY <1>5 DEF HighestRank
<1> QED
  BY <1>2, <1>6

\* Places number the tiers without a tie.
LEMMA Places ==
  ASSUME LadderInv
  PROVE  /\ \A t \in Ladder : PlaceOf(t) \in 1..Cardinality(Ladder)
         /\ \A s, t \in Ladder : PlaceOf(s) = PlaceOf(t) => s = t
<1> DEFINE Lower(t) == {s \in Ladder : Before(tier[s], tier[t])}
<1>1. IsFiniteSet(Ladder) /\ Cardinality(Ladder) \in Nat
  BY LadderFinite DEF LadderInv
<1>2. \A t \in Ladder : PlaceOf(t) = 1 + Cardinality(Lower(t))
  BY DEF PlaceOf, PlaceIn, Ladder
<1>3. \A t \in Ladder : tier[t].rank \in Nat /\ tier[t].id \in Nat
  BY DEF LadderInv, LadderTyped, Rung, Ladder, LadderOf
<1>4. ASSUME NEW t \in Ladder
      PROVE  IsFiniteSet(Lower(t)) /\ Cardinality(Lower(t)) \in 0..(Cardinality(Ladder) - 1)
  <2>1. Lower(t) \in SUBSET (Ladder \ {t})
    BY <1>3 DEF Before
  <2>2. IsFiniteSet(Ladder \ {t}) /\ Cardinality(Ladder \ {t}) = Cardinality(Ladder) - 1
    BY <1>1, FS_RemoveElement
  <2>3. IsFiniteSet(Lower(t)) /\ Cardinality(Lower(t)) <= Cardinality(Ladder) - 1
    <3> HIDE DEF Lower
    <3> QED
      BY <2>1, <2>2, FS_Subset
  <2> QED
    BY <1>1, <2>3, FS_CardinalityType
<1>5. ASSUME NEW s \in Ladder, NEW t \in Ladder, Before(tier[s], tier[t])
      PROVE  PlaceOf(s) < PlaceOf(t)
  <2>1. Lower(s) \in SUBSET Lower(t) /\ s \in Lower(t) /\ s \notin Lower(s)
    BY <1>3, <1>5 DEF Before
  <2>2. Cardinality(Lower(s)) <= Cardinality(Lower(t)) /\ Cardinality(Lower(s)) # Cardinality(Lower(t))
    <3>1. Lower(s) # Lower(t)
      BY <2>1
    <3> HIDE DEF Lower
    <3> QED
      BY <2>1, <3>1, <1>4, FS_Subset
  <2> HIDE DEF Lower
  <2> QED
    BY <2>2, <1>2, <1>4
<1>6. \A s, t \in Ladder : s # t => Before(tier[s], tier[t]) \/ Before(tier[t], tier[s])
  <2>1. \A s, t \in Ladder : s # t => tier[s].id # tier[t].id
    BY DEF LadderInv, Rungs
  <2> QED
    BY <2>1, <1>3 DEF Before
<1>7. \A t \in Ladder : PlaceOf(t) \in 1..Cardinality(Ladder)
  <2> HIDE DEF Lower
  <2> QED
    BY <1>1, <1>2, <1>4
<1>8. \A s, t \in Ladder : PlaceOf(s) = PlaceOf(t) => s = t
  BY <1>5, <1>6, <1>7
<1> QED
  BY <1>7, <1>8

\* So does the renumbering a move plans.
LEMMA Renumbered ==
  ASSUME LadderInv, NEW t \in Ladder, NEW step \in {-1, 1}
  PROVE  /\ Moved(t, step) \in [Ladder -> 1..Cardinality(Ladder)]
         /\ \A a, b \in Ladder : Moved(t, step)[a] = Moved(t, step)[b] => a = b
<1>1. Cardinality(Ladder) \in Nat
  BY LadderFinite DEF LadderInv
<1>2. \A s \in Ladder : PlaceOf(s) \in 1..Cardinality(Ladder)
  BY Places
<1>3. Moved(t, step) \in [Ladder -> 1..Cardinality(Ladder)]
  BY <1>1, <1>2 DEF Moved
<1>4. ASSUME NEW a \in Ladder, NEW b \in Ladder, Moved(t, step)[a] = Moved(t, step)[b]
      PROVE  a = b
  <2>1. \A s \in Ladder : Moved(t, step)[s] =
          IF PlaceOf(t) + step \notin 1..Cardinality(Ladder) THEN PlaceOf(s)
          ELSE IF s = t THEN PlaceOf(t) + step
          ELSE IF PlaceOf(s) = PlaceOf(t) + step THEN PlaceOf(t) ELSE PlaceOf(s)
    BY DEF Moved
  <2>2. PlaceOf(t) + step # PlaceOf(t)
    BY <1>2
  <2> QED
    BY <1>4, <2>1, <2>2, Places
<1> QED
  BY <1>3, <1>4

\* Nothing but a restored tier: the order is what it was, and nothing retired.
Undisturbed ==
  \A t \in Tiers : /\ tier'[t].there = tier[t].there
                   /\ tier'[t].rank = tier[t].rank /\ tier'[t].id = tier[t].id
                   /\ tier[t].active => tier'[t].active

\* What a request is about to write stays sound: the ladder only grows, and
\* behind the back of one that is alone a tier is at most restored.
LEMMA PlannedKept ==
  ASSUME LadderInv, LadderTyped', Ladder \subseteq Ladder', NEW d, Planned(d),
         d.at # "idle" /\ d.alone => Undisturbed
  PROVE  Planned(d)'
<1>1. Cardinality(Ladder) \in Nat /\ Cardinality(Ladder') \in Nat /\ Cardinality(Ladder) <= Cardinality(Ladder')
  <2>1. IsFiniteSet(Ladder) /\ Cardinality(Ladder) \in Nat
    BY LadderFinite DEF LadderInv
  <2>2. IsFiniteSet(Ladder') /\ Cardinality(Ladder') \in Nat
    BY TiersAssumption, FS_Subset, FS_CardinalityType DEF Ladder, LadderOf
  <2> QED
    BY <2>1, <2>2, FS_Subset
<1>2. ASSUME d.at = "moving", d.alone
      PROVE  \E step \in {-1, 1} : d.rank = PlaceOf(d.tier)' + step /\ d.ranks = Written(d.tier, step)'
  <2>1. Undisturbed
    BY <1>2
  <2>2. Ladder' = Ladder
    BY <2>1 DEF Undisturbed, Ladder, LadderOf
  <2>3. \A s, t \in Ladder : Before(tier'[s], tier'[t]) <=> Before(tier[s], tier[t])
    BY <2>1 DEF Undisturbed, Before, Ladder, LadderOf
  <2>4. \A t \in Ladder : PlaceOf(t)' = PlaceOf(t)
    <3> TAKE t \in Ladder
    <3>1. {s \in Ladder' : Before(tier'[s], tier'[t])} = {s \in Ladder : Before(tier[s], tier[t])}
      BY <2>2, <2>3
    <3> QED
      BY <3>1 DEF PlaceOf, PlaceIn, Ladder
  <2>5. d.tier \in Ladder
    BY <1>2 DEF Planned
  <2>6. PICK step \in {-1, 1} : d.rank = PlaceOf(d.tier) + step /\ d.ranks = Written(d.tier, step)
    BY <1>2 DEF Planned
  <2>7. Moved(d.tier, step)' = Moved(d.tier, step)
    BY <2>2, <2>4, <2>5 DEF Moved
  <2>8. Written(d.tier, step)' = Written(d.tier, step)
    BY <2>1, <2>2, <2>7 DEF Written, Undisturbed
  <2> QED
    BY <2>4, <2>5, <2>6, <2>8
<1>3. ASSUME d.at = "retiring", d.alone
      PROVE  \E s \in Offered' : s # d.tier
  <2>1. PICK s \in Offered : s # d.tier
    BY <1>3 DEF Planned
  <2> QED
    BY <1>3, <2>1 DEF Undisturbed, Offered, Ladder, LadderOf
<1>4. d.at = "moving" => \A t \in Tiers : d.ranks[t] \in 0..Cardinality(Ladder') /\ (d.ranks[t] # 0 => t \in Ladder')
  BY <1>1 DEF Planned
<1>5. d.at = "adding" => d.rank \in 1..(Cardinality(Ladder') + 1)
  BY <1>1 DEF Planned
<1> QED
  BY <1>2, <1>3, <1>4, <1>5 DEF Planned

\* A step that plans.
LEMMA Started ==
  ASSUME LadderInv, NEW r \in Requests, NEW started \in Climber, Start(r, started), started.at # "idle",
         UNCHANGED <<tier, held>>, Planned([started EXCEPT !.alone = TRUE])
  PROVE  LadderInv'
<1>1. \A s \in Requests : climbing'[s] =
        IF s = r THEN [started EXCEPT !.alone = \A q \in Requests \ {r} : climbing[q].at = "idle"]
                 ELSE [climbing[s] EXCEPT !.alone = climbing[s].at = "idle"]
  BY DEF Start
<1>2. LadderTyped'
  BY DEF LadderInv, LadderTyped, Climber, Start
<1>3. Rungs'
  BY DEF LadderInv, Rungs, Ladder, LadderOf
<1>4. ASSUME NEW s \in Requests
      PROVE  Planned(climbing[s])'
  <2>1. PICK d : d = climbing'[s]
    OBVIOUS
  <2>2. CASE s = r
    <3>1. d = [started EXCEPT !.alone = d.alone] /\ d.alone \in BOOLEAN
      BY <1>1, <2>1, <2>2 DEF Climber
    <3>2. Planned(d)
      BY <3>1 DEF Planned, Climber
    <3>3. Planned(d)'
      BY <3>2, <1>2, PlannedKept DEF Undisturbed, Ladder, LadderOf
    <3> QED
      BY <3>3, <2>1
  <2>3. CASE s # r
    <3>1. d = [climbing[s] EXCEPT !.alone = climbing[s].at = "idle"] /\ climbing[s] \in Climber
      BY <1>1, <2>1, <2>3 DEF LadderInv, LadderTyped
    <3>2. /\ d.at = climbing[s].at /\ d.tier = climbing[s].tier /\ d.rank = climbing[s].rank
          /\ d.ranks = climbing[s].ranks
          /\ d.at # "idle" => ~d.alone
      BY <3>1 DEF Climber
    <3>3. Planned(d)
      BY <3>2 DEF LadderInv, Planned
    <3>4. Planned(d)'
      BY <3>3, <1>2, PlannedKept DEF Undisturbed, Ladder, LadderOf
    <3> QED
      BY <3>4, <2>1
  <2> QED
    BY <2>2, <2>3
<1>5. Apart'
  <2> SUFFICES ASSUME NEW p \in Requests, NEW q \in Requests, p # q,
                      climbing'[p].at # "idle", climbing'[p].alone
               PROVE  climbing'[q].at = "idle"
    BY DEF Apart
  <2>1. p = r
    BY <1>1 DEF LadderInv, LadderTyped, Climber
  <2>2. climbing'[p].alone = (\A u \in Requests \ {r} : climbing[u].at = "idle")
    BY <1>1, <2>1 DEF Climber
  <2>3. climbing[q].at = "idle"
    BY <2>1, <2>2
  <2> QED
    BY <1>1, <2>1, <2>3 DEF LadderInv, LadderTyped, Climber
<1> QED
  BY <1>2, <1>3, <1>4, <1>5 DEF LadderInv

\* A step that writes what was planned, or gives it up.
LEMMA Finished ==
  ASSUME LadderInv, NEW r \in Requests, climbing[r].at # "idle", Finish(r), UNCHANGED held,
         tier' \in [Tiers -> Rung], Ladder \subseteq Ladder', Rungs'
  PROVE  LadderInv'
<1>1. LadderTyped'
  BY StillClimber DEF LadderInv, LadderTyped, Finish
<1>2. ASSUME NEW s \in Requests
      PROVE  Planned(climbing[s])'
  <2>1. CASE s = r
    BY <2>1, StillClimber DEF Finish, Planned, LadderInv, LadderTyped
  <2>2. CASE s # r
    <3>1. PICK d : d = climbing[s]
      OBVIOUS
    <3>2. climbing'[s] = d /\ Planned(d) /\ (d.at # "idle" => ~d.alone)
      BY <2>2, <3>1 DEF LadderInv, LadderTyped, Finish, Apart
    <3>3. Planned(d)'
      BY <3>2, <1>1, PlannedKept
    <3> QED
      BY <3>2, <3>3
  <2> QED
    BY <2>1, <2>2
<1>3. Apart'
  BY StillClimber DEF Finish, Apart, LadderInv, LadderTyped
<1> QED
  BY <1>1, <1>2, <1>3 DEF LadderInv

\* A step beside the requests.
LEMMA Beside ==
  ASSUME LadderInv, UNCHANGED climbing, tier' \in [Tiers -> Rung], Undisturbed,
         held' \in [Members -> Tiers \union {NoTier}], Rungs'
  PROVE  LadderInv'
<1>1. LadderTyped'
  BY DEF LadderInv, LadderTyped
<1>2. Ladder \subseteq Ladder'
  BY DEF Undisturbed, Ladder, LadderOf
<1>3. ASSUME NEW s \in Requests
      PROVE  Planned(climbing[s])'
  <2>1. PICK d : d = climbing[s]
    OBVIOUS
  <2>2. Planned(d)'
    BY <2>1, <1>1, <1>2, PlannedKept DEF LadderInv
  <2> QED
    BY <2>1, <2>2
<1>4. Apart'
  BY DEF LadderInv, Apart
<1> QED
  BY <1>1, <1>3, <1>4 DEF LadderInv

\* A write to one row that there was, of anything but its key and rank.
LEMMA Flagged ==
  ASSUME LadderInv, NEW t \in Ladder, NEW b \in BOOLEAN, tier' = [tier EXCEPT ![t].active = b],
         \A u \in Members : held'[u] \in Ladder \union {NoTier}
  PROVE  tier' \in [Tiers -> Rung] /\ Ladder' = Ladder /\ Rungs'
<1>1. tier' \in [Tiers -> Rung] /\ \A s \in Tiers : /\ tier'[s].there = tier[s].there
                                                     /\ tier'[s].rank = tier[s].rank /\ tier'[s].id = tier[s].id
                                                     /\ s # t => tier'[s] = tier[s]
  BY DEF LadderInv, LadderTyped, Rung, Ladder, LadderOf
<1>2. Ladder' = Ladder
  BY <1>1 DEF Ladder, LadderOf
<1>3. Ladder \subseteq Tiers
  BY DEF Ladder, LadderOf
<1>4. Rungs'
  BY <1>1, <1>2, <1>3 DEF LadderInv, Rungs
<1> QED
  BY <1>1, <1>2, <1>4

LEMMA LadderStep == ASSUME LadderInv, TiersNext PROVE LadderInv'
<1>0. IsFiniteSet(Ladder) /\ Cardinality(Ladder) \in Nat
  BY LadderFinite DEF LadderInv
<1>1. ASSUME NEW r \in Requests, BeginAdd(r)
      PROVE  LadderInv'
  <2> DEFINE started == [Still EXCEPT !.at = "adding", !.rank = HighestRank + 1]
  <2>1. HighestRank \in 1..Cardinality(Ladder)
    BY HighestHeld
  <2>2. started \in Climber /\ started.at = "adding" /\ Planned([started EXCEPT !.alone = TRUE])
    <3>1. HighestRank + 1 \in 1..(Cardinality(Ladder) + 1)
      BY <1>0, <2>1
    <3>2. started \in Climber
      <4>1. HighestRank + 1 \in Int
        BY <1>0, <2>1
      <4> QED
        BY <4>1, StillClimber DEF Climber
    <3>3. started.at = "adding" /\ started.tier = NoTier /\ started.rank = HighestRank + 1
      BY DEF Still
    <3> HIDE DEF started
    <3> QED
      BY <3>1, <3>2, <3>3 DEF Climber, Planned
  <2> HIDE DEF started
  <2>3. Start(r, started) /\ UNCHANGED <<tier, held>>
    BY <1>1 DEF BeginAdd, started
  <2> QED
    BY <2>2, <2>3, Started
<1>2. ASSUME NEW r \in Requests, NEW t \in Tiers, SaveAdd(r, t)
      PROVE  LadderInv'
  <2> DEFINE n == Cardinality(Ladder)
             row == [there |-> TRUE, id |-> n + 1, rank |-> climbing[r].rank, active |-> TRUE]
  <2>1. t \notin Ladder /\ tier' = [tier EXCEPT ![t] = row] /\ climbing[r].at = "adding"
    BY <1>2 DEF SaveAdd, Ladder, LadderOf
  <2>2. climbing[r].rank \in 1..(n + 1)
    BY <1>0, <2>1 DEF LadderInv, Planned
  <2>3. row \in Rung
    BY <1>0, <2>2 DEF Rung
  <2>4. tier' \in [Tiers -> Rung] /\ Ladder' = Ladder \union {t}
    BY <2>1, <2>3 DEF LadderInv, LadderTyped, Ladder, LadderOf
  <2>5. Cardinality(Ladder') = n + 1
    BY <1>0, <2>1, <2>4, FS_AddElement
  <2>6. \A s \in Ladder' : tier'[s].rank \in 1..(n + 1) /\ tier'[s].id \in 1..(n + 1)
    BY <1>0, <2>1, <2>2, <2>4 DEF LadderInv, LadderTyped, Rungs
  <2>7. \A s, u \in Ladder' : tier'[s].id = tier'[u].id => s = u
    <3>1. \A s \in Ladder : tier'[s] = tier[s] /\ tier[s].id \in 1..n
      BY <2>1 DEF LadderInv, LadderTyped, Rungs
    <3>2. tier'[t].id = n + 1
      BY <2>1 DEF LadderInv, LadderTyped
    <3> QED
      BY <1>0, <2>4, <3>1, <3>2 DEF LadderInv, Rungs
  <2>8. Rungs'
    BY <1>2, <2>1, <2>4, <2>5, <2>6, <2>7 DEF LadderInv, LadderTyped, Rungs, SaveAdd, Ladder, LadderOf
  <2> QED
    BY <1>2, <2>1, <2>4, <2>8, Finished DEF SaveAdd
<1>3. ASSUME NEW r \in Requests, NEW t \in Tiers, NEW step \in {-1, 1}, BeginMove(r, t, step)
      PROVE  LadderInv'
  <2> DEFINE started == [Still EXCEPT !.at = "moving", !.tier = t, !.rank = PlaceOf(t) + step,
                                      !.ranks = Written(t, step)]
  <2>1. t \in Ladder
    BY <1>3 DEF BeginMove
  <2>2. PlaceOf(t) \in 1..Cardinality(Ladder) /\ Moved(t, step) \in [Ladder -> 1..Cardinality(Ladder)]
    BY <2>1, Places, Renumbered
  <2>3. /\ Written(t, step) \in [Tiers -> Nat]
        /\ \A s \in Tiers : /\ Written(t, step)[s] \in 0..Cardinality(Ladder)
                            /\ Written(t, step)[s] # 0 => s \in Ladder
    BY <1>0, <2>2 DEF Written
  <2>4. /\ started.at = "moving" /\ started.tier = t /\ started.rank = PlaceOf(t) + step
        /\ started.ranks = Written(t, step)
    BY DEF Still
  <2>5. started \in Climber
    <3>1. PlaceOf(t) + step \in Int
      BY <1>0, <2>2
    <3> QED
      BY <2>3, <3>1, StillClimber DEF Climber
  <2>6. Start(r, started) /\ UNCHANGED <<tier, held>>
    BY <1>3 DEF BeginMove, Written
  <2> HIDE DEF started
  <2>7. Planned([started EXCEPT !.alone = TRUE])
    BY <2>1, <2>3, <2>4, <2>5 DEF Climber, Planned
  <2> QED
    BY <2>4, <2>5, <2>6, <2>7, Started
<1>4. ASSUME NEW r \in Requests, SaveMove(r)
      PROVE  LadderInv'
  <2>1. climbing[r].at = "moving" /\ UNCHANGED held /\ Finish(r)
    BY <1>4 DEF SaveMove
  <2>2. \A t \in Tiers : /\ climbing[r].ranks[t] \in 0..Cardinality(Ladder)
                         /\ climbing[r].ranks[t] # 0 => t \in Ladder
    BY <2>1 DEF LadderInv, Planned
  <2>3. /\ tier' \in [Tiers -> Rung]
        /\ \A t \in Tiers : /\ tier'[t].there = tier[t].there /\ tier'[t].id = tier[t].id
                            /\ tier'[t].rank = tier[t].rank \/ tier'[t].rank \in 1..Cardinality(Ladder)
                            /\ t \notin Ladder => tier'[t] = tier[t]
    <3>1. \A t \in Tiers : tier'[t] = IF climbing[r].ranks[t] = 0 THEN tier[t]
                                      ELSE [tier[t] EXCEPT !.rank = climbing[r].ranks[t]]
      BY <1>4 DEF SaveMove
    <3>2. tier' = [t \in Tiers |-> tier'[t]]
      BY <1>4 DEF SaveMove
    <3>3. \A t \in Tiers : tier[t] \in Rung
      BY DEF LadderInv, LadderTyped
    <3>4. \A t \in Tiers : /\ tier'[t] \in Rung /\ tier'[t].there = tier[t].there /\ tier'[t].id = tier[t].id
                           /\ tier'[t].rank = tier[t].rank \/ tier'[t].rank \in 1..Cardinality(Ladder)
                           /\ t \notin Ladder => tier'[t] = tier[t]
      <4> TAKE t \in Tiers
      <4>1. CASE climbing[r].ranks[t] = 0
        BY <2>2, <3>1, <3>3, <4>1
      <4>2. CASE climbing[r].ranks[t] # 0
        <5>1. tier'[t] = [tier[t] EXCEPT !.rank = climbing[r].ranks[t]] /\ tier[t] \in Rung
          BY <3>1, <3>3, <4>2
        <5>2. climbing[r].ranks[t] \in 1..Cardinality(Ladder) /\ climbing[r].ranks[t] \in Nat /\ t \in Ladder
          BY <1>0, <2>2, <4>2
        <5> QED
          BY <5>1, <5>2 DEF Rung
      <4> QED
        BY <4>1, <4>2
    <3> QED
      BY <3>2, <3>4
  <2>4. Ladder' = Ladder
    BY <2>3 DEF Ladder, LadderOf
  <2>5. Rungs'
    <3>1. Ladder \subseteq Tiers
      BY DEF Ladder, LadderOf
    <3> QED
      BY <1>0, <2>1, <2>3, <2>4, <3>1 DEF LadderInv, Rungs
  <2> QED
    BY <2>1, <2>3, <2>4, <2>5, Finished
<1>5. ASSUME NEW r \in Requests, NEW t \in Tiers, BeginRetire(r, t)
      PROVE  LadderInv'
  <2> DEFINE started == [Still EXCEPT !.at = "retiring", !.tier = t]
  <2>1. t \in Offered /\ Cardinality(Offered) > 1
    BY <1>5 DEF BeginRetire, MayRetire
  <2>2. \E s \in Offered : s # t
    <3> SUFFICES ASSUME \A s \in Offered : s = t
                 PROVE  FALSE
      OBVIOUS
    <3>1. Offered = {t}
      BY <2>1
    <3>2. Cardinality({t}) = 1
      BY FS_Singleton
    <3> QED
      BY <2>1, <3>1, <3>2
  <2>3. started \in Climber /\ started.at = "retiring" /\ Planned([started EXCEPT !.alone = TRUE])
    <3>1. started \in Climber
      BY StillClimber DEF Climber
    <3>2. started.at = "retiring" /\ started.tier = t
      BY DEF Still
    <3>3. t \in Ladder
      BY <2>1 DEF Offered
    <3> HIDE DEF started
    <3> QED
      BY <2>2, <3>1, <3>2, <3>3 DEF Climber, Planned
  <2>4. Start(r, started) /\ UNCHANGED <<tier, held>>
    BY <1>5 DEF BeginRetire
  <2> HIDE DEF started
  <2> QED
    BY <2>3, <2>4, Started
<1>6. ASSUME NEW r \in Requests, SaveRetire(r)
      PROVE  LadderInv'
  <2>1. climbing[r].tier \in Ladder /\ tier' = [tier EXCEPT ![climbing[r].tier].active = FALSE]
    BY <1>6 DEF SaveRetire, LadderInv, Planned
  <2>2. \A u \in Members : held'[u] \in Ladder \union {NoTier}
    BY <1>6 DEF SaveRetire, LadderInv, Rungs
  <2> QED
    BY <1>6, <2>1, <2>2, Flagged, Finished DEF SaveRetire
<1>7. ASSUME NEW t \in Tiers, Restore(t)
      PROVE  LadderInv'
  <2>1. t \in Ladder /\ tier' = [tier EXCEPT ![t].active = TRUE] /\ UNCHANGED <<held, climbing>>
    BY <1>7 DEF Restore
  <2>2. tier' \in [Tiers -> Rung] /\ Ladder' = Ladder /\ Rungs'
    BY <2>1, Flagged DEF LadderInv, Rungs
  <2>3. Undisturbed
    BY <2>1 DEF Undisturbed, LadderInv, LadderTyped, Rung
  <2> QED
    BY <2>1, <2>2, <2>3, Beside DEF LadderInv, LadderTyped
<1>8. ASSUME NEW r \in Requests, GiveUp(r)
      PROVE  LadderInv'
  <2>1. Rungs' /\ Ladder' = Ladder
    BY <1>8 DEF GiveUp, LadderInv, Rungs, Ladder, LadderOf
  <2> QED
    BY <1>8, <2>1, Finished DEF GiveUp, LadderInv, LadderTyped
<1>9. ASSUME NEW u \in Members, NEW t \in Ladder \union {NoTier},
             held' = [held EXCEPT ![u] = t], UNCHANGED <<tier, climbing>>
      PROVE  LadderInv'
  <2>1. held' \in [Members -> Tiers \union {NoTier}]
    BY <1>9 DEF LadderInv, LadderTyped, Ladder, LadderOf
  <2>2. Ladder' = Ladder
    BY <1>9 DEF Ladder, LadderOf
  <2>3. Rungs'
    BY <1>9, <2>2 DEF LadderInv, LadderTyped, Rungs
  <2> QED
    BY <1>9, <2>1, <2>3, Beside DEF LadderInv, LadderTyped, Undisturbed
<1>10. CASE Climb(Requests)
  BY <1>10, <1>1, <1>2, <1>3, <1>4, <1>5, <1>6, <1>7, <1>8 DEF Climb
<1>11. CASE Stand
  <2>1. PICK u \in Members : \/ JoinAtBottom(u) \/ LeaveLadder(u)
                             \/ \E t \in Tiers : JoinOn(u, t) \/ SetTier(u, t)
    BY <1>11 DEF Stand
  <2>2. held[u] \in Ladder \union {NoTier} /\ Offered \subseteq Ladder
    BY DEF LadderInv, Rungs, Offered
  <2>3. \E t \in Ladder \union {NoTier} : held' = [held EXCEPT ![u] = t]
    BY <2>1, <2>2 DEF JoinAtBottom, LeaveLadder, JoinOn, SetTier
  <2>4. UNCHANGED <<tier, climbing>>
    BY <2>1 DEF JoinAtBottom, LeaveLadder, JoinOn, SetTier
  <2> QED
    BY <1>9, <2>3, <2>4
<1> QED
  BY <1>10, <1>11 DEF TiersNext

LEMMA LadderStarts == TiersInit => LadderInv
<1> SUFFICES ASSUME TiersInit
             PROVE  LadderInv
  OBVIOUS
<1>1. Ladder = {Free} /\ Free \in Tiers
  BY TiersAssumption DEF TiersInit, Ladder, LadderOf, NoRow
<1>2. Cardinality(Ladder) = 1
  BY <1>1, FS_Singleton
<1>3. LadderTyped
  BY StillClimber, NoRowRung DEF TiersInit, LadderTyped, Rung
<1>4. Rungs
  BY <1>1, <1>2 DEF TiersInit, Rungs
<1>5. \A r \in Requests : Planned(climbing[r])
  BY StillClimber DEF TiersInit, Planned
<1>6. Apart
  BY StillClimber DEF TiersInit, Apart
<1> QED
  BY <1>3, <1>4, <1>5, <1>6 DEF LadderInv

LEMMA LadderRests == LadderInv /\ UNCHANGED ladder => LadderInv'
<1> SUFFICES ASSUME LadderInv, UNCHANGED ladder
             PROVE  LadderInv'
  OBVIOUS
<1>1. Rungs'
  BY DEF ladder, LadderInv, Rungs, Ladder, LadderOf
<1> QED
  BY <1>1, Beside DEF ladder, LadderInv, LadderTyped, Undisturbed

THEOREM LadderAlways == TiersSpec => []LadderInv
<1> QED
  BY LadderRests, LadderStarts, LadderStep, PTL DEF TiersSpec

\* The rows of the ladder are rows, ranks never exceed the number of tiers,
\* and nobody is on a tier there is not, however requests overlap.
THEOREM LadderSound == TiersSpec => []LadderOK
<1>1. LadderInv => LadderOK
  BY DEF LadderInv, LadderTyped, Rungs, Planned, Climber, Rung, LadderOK
<1> QED
  BY <1>1, LadderAlways, PTL

\* What a request may have memoized of the ladder, at whatever time.
Memos == UNION {[rungs -> Nat] : rungs \in SUBSET Tiers}

LEMMA RanksMemo == LadderInv => Ranks \in Memos
<1> SUFFICES ASSUME LadderInv PROVE Ranks \in Memos
  OBVIOUS
<1>1. Ladder \in SUBSET Tiers /\ \A t \in Ladder : tier[t].rank \in Nat
  BY DEF LadderInv, LadderTyped, Rung, Ladder, LadderOf
<1>2. Ranks \in [Ladder -> Nat]
  BY <1>1 DEF Ranks
<1> QED
  BY <1>1, <1>2 DEF Memos

\* The filter of a listing and the rule of a page agree on every gate, for
\* every visitor, any ladder and any memo (readable_visibilities, can_read).
FilterIsRule ==
  \A ranks \in Memos, v \in Visitors, gate \in Gates :
    Listed(ranks, v, gate) <=> CanRead(ranks, v, gate)

LEMMA FilterAndRule == LadderInv => FilterIsRule
<1> SUFFICES ASSUME LadderInv, NEW ranks \in Memos, NEW v \in Visitors, NEW gate \in Gates
             PROVE  Listed(ranks, v, gate) <=> CanRead(ranks, v, gate)
  BY DEF FilterIsRule
<1>1. DOMAIN ranks \subseteq Tiers /\ \A t \in DOMAIN ranks : ranks[t] \in Nat
  BY DEF Memos
<1>2. "public" \notin Tiers /\ "members" \notin Tiers /\ Ladder \subseteq Tiers
      /\ \A t \in Ladder : tier[t].rank \in Nat
  BY TiersAssumption DEF LadderInv, LadderTyped, Rung, Ladder, LadderOf
<1>3. CASE v \in Strangers
  BY <1>3 DEF Strangers, Listed, CanRead, ReadsEverything, Writes, ReadableGates
<1>4. CASE v \notin Strangers
  <2>1. v.admin = FALSE /\ v.role \in {"member", "admin"} /\ v.held \in Ladder
    BY <1>4 DEF Visitors
  <2>2. CASE v.role = "admin"
    BY <2>1, <2>2 DEF Listed, CanRead, ReadsEverything, Writes
  <2>3. CASE v.role = "member"
    <3>1. ~Writes(v) /\ ~ReadsEverything(v)
      BY <2>1, <2>3 DEF Writes, ReadsEverything
    <3>2. ReadableGates(ranks, v) =
            {"public", "members"} \union {t \in DOMAIN ranks : ranks[t] <= tier[v.held].rank}
      BY <2>1, <2>3 DEF ReadableGates
    <3>3. CanRead(ranks, v, gate) <=>
            gate \in {"public", "members"} \/ (gate \in DOMAIN ranks /\ tier[v.held].rank >= ranks[gate])
      BY <2>1, <2>3, <3>1 DEF CanRead, Reaches
    <3>4. \A t \in DOMAIN ranks : ranks[t] <= tier[v.held].rank <=> tier[v.held].rank >= ranks[t]
      BY <1>1, <1>2, <2>1
    <3> QED
      BY <3>1, <3>2, <3>3, <3>4 DEF Listed
  <2> QED
    BY <2>1, <2>2, <2>3
<1> QED
  BY <1>3, <1>4

\* However requests overlap, a listing lets through what the page opens, also
\* when the ladder changed between the memo and the row of the visitor's tier.
THEOREM ListingIsThePageRule == TiersSpec => ListingAgrees
<1>1. LadderInv /\ LadderInv' /\ FilterIsRule' =>
        [\A ranks \in {Ranks, Ranks'}, v \in Visitors', gate \in Gates' :
           Listed(ranks, v, gate)' <=> CanRead(ranks, v, gate)']_ladder
  <2> SUFFICES ASSUME LadderInv, LadderInv', FilterIsRule',
                      NEW ranks \in {Ranks, Ranks'}, NEW v \in Visitors', NEW gate \in Gates'
               PROVE  Listed(ranks, v, gate)' <=> CanRead(ranks, v, gate)'
    OBVIOUS
  <2>1. Ranks \in Memos
    BY RanksMemo
  <2>2. Ranks' \in Memos
    <3>1. \A t \in Ladder' : tier'[t].rank \in Nat
      BY DEF LadderInv, LadderTyped, Rung, Ladder, LadderOf
    <3>2. Ranks' \in [Ladder' -> Nat] /\ Ladder' \in SUBSET Tiers
      BY <3>1 DEF Ranks, Ladder, LadderOf
    <3> QED
      BY <3>2 DEF Memos
  <2>3. ranks \in Memos
    BY <2>1, <2>2
  <2> QED
    BY <2>3 DEF FilterIsRule
<1>2. TiersSpec => []FilterIsRule
  BY FilterAndRule, LadderAlways, PTL
<1> QED
  BY <1>1, <1>2, LadderAlways, PTL DEF ListingAgrees

\* A retire that had the ladder to itself leaves a tier to land on
\* (organization_must_keep_a_tier, toggle_tier).
THEOREM ATierIsKept == TiersSpec => LastTierKept
<1>1. ASSUME LadderInv, TiersNext, NEW r \in Requests,
             climbing[r].at = "retiring", climbing[r].alone, tier' # tier
      PROVE  Offered' # {}
  <2>1. PICK s \in Offered : s # climbing[r].tier
    BY <1>1 DEF LadderInv, Planned
  <2>2. \A q \in Requests : q # r => climbing[q].at = "idle"
    BY <1>1 DEF LadderInv, Apart
  <2>3. SaveRetire(r) \/ \E t \in Tiers : Restore(t)
    BY <1>1, <2>2 DEF TiersNext, Climb, Stand, BeginAdd, SaveAdd, BeginMove, SaveMove, BeginRetire,
                      SaveRetire, GiveUp, JoinAtBottom, JoinOn, SetTier, LeaveLadder
  <2>4. tier'[s].there /\ tier'[s].active
    <3>1. s \in Tiers /\ tier[s].there /\ tier[s].active /\ tier \in [Tiers -> Rung]
      BY <1>1, <2>1 DEF Offered, Ladder, LadderOf, LadderInv, LadderTyped
    <3>2. CASE SaveRetire(r)
      BY <2>1, <3>1, <3>2 DEF SaveRetire
    <3>3. CASE \E t \in Tiers : Restore(t)
      BY <3>1, <3>3 DEF Restore, Rung
    <3> QED
      BY <2>3, <3>2, <3>3
  <2> QED
    BY <2>1, <2>4 DEF Offered, Ladder, LadderOf
<1>2. LadderInv /\ [TiersNext]_ladder =>
        [\A r \in Requests :
           (climbing[r].at = "retiring" /\ climbing[r].alone /\ tier' # tier) => Offered' # {}]_ladder
  BY <1>1 DEF ladder
<1> QED
  BY <1>2, LadderAlways, PTL DEF TiersSpec, LastTierKept

\* What the ladder is after the ranks a move planned are written.
LEMMA AfterMove ==
  ASSUME LadderInv, NEW t \in Ladder, NEW step \in {-1, 1}, NEW r \in Requests,
         SaveMove(r), climbing[r].ranks = Written(t, step)
  PROVE  Ladder' = Ladder /\ \A s \in Ladder : PlaceIn(tier', s) = Moved(t, step)[s]
<1> DEFINE f == Moved(t, step)
<1>1. IsFiniteSet(Ladder) /\ Cardinality(Ladder) \in Nat /\ Ladder \subseteq Tiers
  BY LadderFinite DEF LadderInv, Ladder, LadderOf
<1>2. f \in [Ladder -> 1..Cardinality(Ladder)] /\ \A a, b \in Ladder : f[a] = f[b] => a = b
  BY Renumbered
<1>3. \A s \in Tiers : tier'[s] = IF climbing[r].ranks[s] = 0 THEN tier[s]
                                  ELSE [tier[s] EXCEPT !.rank = climbing[r].ranks[s]]
  BY DEF SaveMove
<1>4. \A s \in Tiers : climbing[r].ranks[s] = IF s \in Ladder /\ f[s] # tier[s].rank THEN f[s] ELSE 0
  BY DEF Written
<1> HIDE DEF f
<1>5. \A s \in Tiers : tier[s] \in Rung
  BY DEF LadderInv, LadderTyped
<1>6. \A s \in Ladder : f[s] # 0
  BY <1>1, <1>2
<1>7. \A s \in Ladder : tier'[s].rank = f[s]
  BY <1>1, <1>3, <1>4, <1>5, <1>6 DEF Rung
<1>8. Ladder' = Ladder /\ LadderOf(tier') = Ladder
  <2>1. \A s \in Tiers : tier'[s].there = tier[s].there
    BY <1>3, <1>5 DEF Rung
  <2> QED
    BY <2>1 DEF Ladder, LadderOf
<1>9. ASSUME NEW s \in Ladder
      PROVE  PlaceIn(tier', s) = f[s]
  <2>1. \A u \in Ladder : Before(tier'[u], tier'[s]) <=> f[u] < f[s]
    <3> SUFFICES ASSUME NEW u \in Ladder
                 PROVE  Before(tier'[u], tier'[s]) <=> f[u] < f[s]
      OBVIOUS
    <3>1. tier'[s].id \in Nat
      <4>1. s \in Tiers /\ tier[s] \in Rung
        BY <1>1, <1>5
      <4>2. tier'[s].id = tier[s].id
        BY <1>3, <4>1 DEF Rung
      <4> QED
        BY <4>1, <4>2 DEF Rung
    <3>2. f[u] \in Nat /\ f[s] \in Nat /\ (f[u] = f[s] => u = s)
      BY <1>1, <1>2
    <3> QED
      BY <1>7, <3>1, <3>2 DEF Before
  <2>2. {u \in LadderOf(tier') : Before(tier'[u], tier'[s])} = {u \in Ladder : f[u] < f[s]}
    BY <1>8, <2>1
  <2>3. Cardinality({u \in Ladder : f[u] < f[s]}) = f[s] - 1
    BY <1>1, <1>2, Numbered
  <2>4. f[s] \in Int
    BY <1>1, <1>2
  <2>5. PlaceIn(tier', s) = 1 + Cardinality({u \in Ladder : f[u] < f[s]})
    BY <2>2 DEF PlaceIn
  <2> QED
    BY <2>3, <2>4, <2>5
<1> QED
  BY <1>8, <1>9 DEF f

\* A move of one that had the ladder to itself lands the tier where it was
\* sent, and keeps the order of the others, whatever ties there were (move).
THEOREM MovesLand == TiersSpec => MoveMoves
<1>1. ASSUME LadderInv, TiersNext, NEW r \in Requests, NEW t \in Ladder,
             climbing[r].at = "moving", climbing[r].tier = t, climbing[r].alone,
             tier' # tier, climbing'[r].at = "idle",
             climbing[r].rank \in 1..Cardinality(Ladder)
      PROVE  /\ PlaceIn(tier', t) = climbing[r].rank
             /\ \A a, b \in Ladder \ {t} :
                  PlaceOf(a) < PlaceOf(b) => PlaceIn(tier', a) < PlaceIn(tier', b)
  <2>1. PICK step \in {-1, 1} : climbing[r].rank = PlaceOf(t) + step /\ climbing[r].ranks = Written(t, step)
    BY <1>1 DEF LadderInv, Planned
  <2>2. \A q \in Requests : q # r => climbing[q].at = "idle"
    BY <1>1 DEF LadderInv, Apart
  <2>3. SaveMove(r)
    BY <1>1, <2>2 DEF TiersNext, Climb, Stand, BeginAdd, SaveAdd, BeginMove, SaveMove, BeginRetire,
                      SaveRetire, GiveUp, Restore, JoinAtBottom, JoinOn, SetTier, LeaveLadder
  <2>4. \A s \in Ladder : PlaceIn(tier', s) = Moved(t, step)[s]
    BY <1>1, <2>1, <2>3, AfterMove
  <2>5. \A s \in Ladder : PlaceOf(s) \in 1..Cardinality(Ladder)
    BY <1>1, Places
  <2>6. \A s \in Ladder : Moved(t, step)[s] =
          IF s = t THEN PlaceOf(t) + step
          ELSE IF PlaceOf(s) = PlaceOf(t) + step THEN PlaceOf(t) ELSE PlaceOf(s)
    BY <1>1, <2>1 DEF Moved
  <2>7. \A s \in Ladder : PlaceOf(s) = PlaceOf(t) => s = t
    BY <1>1, Places
  <2>8. ASSUME NEW a \in Ladder \ {t}, NEW b \in Ladder \ {t}, PlaceOf(a) < PlaceOf(b)
        PROVE  PlaceIn(tier', a) < PlaceIn(tier', b)
    <3>1. PlaceOf(a) # PlaceOf(t) /\ PlaceOf(b) # PlaceOf(t)
      BY <2>7
    <3>2. /\ PlaceIn(tier', a) = IF PlaceOf(a) = PlaceOf(t) + step THEN PlaceOf(t) ELSE PlaceOf(a)
          /\ PlaceIn(tier', b) = IF PlaceOf(b) = PlaceOf(t) + step THEN PlaceOf(t) ELSE PlaceOf(b)
      BY <2>4, <2>6
    <3>3. PlaceOf(a) \in Int /\ PlaceOf(b) \in Int /\ PlaceOf(t) \in Int
      BY <1>1, <2>5
    <3> QED
      BY <2>8, <3>1, <3>2, <3>3
  <2> QED
    BY <1>1, <2>1, <2>4, <2>6, <2>8
<1>2. LadderInv /\ [TiersNext]_ladder =>
        [\A r \in Requests : \A t \in Ladder :
           (climbing[r].at = "moving" /\ climbing[r].tier = t /\ climbing[r].alone
              /\ tier' # tier /\ climbing'[r].at = "idle"
              /\ climbing[r].rank \in 1..Cardinality(Ladder)) =>
             /\ PlaceIn(tier', t) = climbing[r].rank
             /\ \A a, b \in Ladder \ {t} :
                  PlaceOf(a) < PlaceOf(b) => PlaceIn(tier', a) < PlaceIn(tier', b)]_ladder
  BY <1>1 DEF ladder
<1> QED
  BY <1>2, LadderAlways, PTL DEF TiersSpec, MoveMoves

-----------------------------------------------------------------------------
(* Content *)

Row == [there : BOOLEAN, type : Types, slug : Slugs \union {NoSlug}, parent : Items \union {NoItem},
        position : 0..MaxItems, gate : Gates, status : {"draft", "published", "archived"},
        stamp : 0..MaxStamp]
Blob == [teasers : BOOLEAN,
         types : [Types -> [enabled : {"unset", "on", "off"}, gate : Gates,
                            tease : {"unset", "yes", "no"}]]]
Editor == [at : {"idle", "publishing", "editing", "adding", "arranging", "settings"},
           item : Items \union {NoItem}, seen : Row, positions : [Items -> 0..(MaxItems + 1)],
           blob : Blob, alone : BOOLEAN]

ContentTyped ==
  /\ item \in [Items -> Row]
  /\ setting \in Blob
  /\ editing \in [Requests -> Editor]
  /\ clock \in Nat
  /\ numbered \in Nat

\* A block sits one level deep in an item that is there.
Nested == \A i \in Present : IsChild(i) => item[i].parent \in Present /\ ~IsChild(item[i].parent)
Issued == \A i \in Present : i <= numbered
Addressed == \A i \in Present : AddressOK(i, item[i])

\* What a request d has loaded.  The parent of a block being added may be gone,
\* and has not become a block: where ids come from a sequence.
Loaded(d) ==
  /\ d.at \in {"publishing", "editing"} => d.item \in Items
  /\ d.at = "adding" => d.item \in Items
  /\ IsPostgres /\ d.at = "adding" => d.item <= numbered /\ (item[d.item].there => item[d.item].parent = NoItem)
  /\ d.at = "settings" /\ d.alone => d.blob = setting

\* Beside a request that is alone no other is under way.
EditorsApart == \A r, q \in Requests :
  r # q /\ editing[r].at # "idle" /\ editing[r].alone => editing[q].at = "idle"

ContentInv ==
  /\ ContentTyped
  /\ Addressed
  /\ IsPostgres => Nested /\ Issued
  /\ \A r \in Requests : Loaded(editing[r])
  /\ EditorsApart

\* What a step does to the table: ids already given out do not become blocks.
TableStep ==
  /\ item' \in [Items -> Row]
  /\ clock' \in Nat /\ numbered' \in Nat
  /\ Addressed'
  /\ IsPostgres => /\ Nested' /\ Issued' /\ numbered <= numbered'
                   /\ \A p \in Items : p <= numbered /\ item'[p].there =>
                        item[p].there /\ item'[p].parent = item[p].parent

LEMMA BlankRows == NoContent \in Row /\ ~NoContent.there /\ Away \in Editor /\ Away.at = "idle" /\ Away.blob \in Blob
<1>1. NoContent \in Row /\ ~NoContent.there
  BY ContentAssumption DEF NoContent, Row, Gates
<1>2. Unset \in [enabled : {"unset", "on", "off"}, gate : Gates, tease : {"unset", "yes", "no"}]
  BY DEF Unset, Gates
<1>3. Away.blob \in Blob
  BY <1>2 DEF Away, Blob
<1>4. [i \in Items |-> 0] \in [Items -> 0..(MaxItems + 1)]
  BY ContentAssumption
<1>5. Away \in Editor
  BY <1>1, <1>3, <1>4 DEF Away, Editor
<1> QED
  BY <1>1, <1>3, <1>5 DEF Away

LEMMA LoadedKept ==
  ASSUME ContentInv, TableStep, NEW d, Loaded(d), d.at = "settings" /\ d.alone => setting' = setting
  PROVE  Loaded(d)'
<1>1. IsPostgres => numbered \in Nat /\ numbered' \in Nat /\ numbered <= numbered'
  BY DEF ContentInv, ContentTyped, TableStep
<1>2. d.item \in Items => d.item \in Nat
  BY DEF Items
<1> QED
  BY <1>1, <1>2 DEF Loaded, TableStep

\* A request loads.
LEMMA ContentOpened ==
  ASSUME ContentInv, TableStep, UNCHANGED <<ladder, setting>>, NEW r \in Requests, NEW opened \in Editor,
         Open(r, opened), opened.at # "idle", Loaded([opened EXCEPT !.alone = TRUE])'
  PROVE  ContentInv'
<1>1. \A s \in Requests : editing'[s] =
        IF s = r THEN [opened EXCEPT !.alone = \A q \in Requests \ {r} : editing[q].at = "idle"]
                 ELSE [editing[s] EXCEPT !.alone = editing[s].at = "idle"]
  BY DEF Open
<1>2. Gates' = Gates /\ Row' = Row /\ Blob' = Blob /\ Editor' = Editor
  BY DEF ladder, Gates, Ladder, LadderOf, Row, Blob, Editor
<1>3. editing' \in [Requests -> Editor]
  BY <1>1 DEF Open, Editor, ContentInv, ContentTyped
<1>4. ContentTyped'
  BY <1>2, <1>3 DEF ContentInv, ContentTyped, TableStep
<1>5. ASSUME NEW s \in Requests
      PROVE  Loaded(editing[s])'
  <2>1. PICK d : d = editing'[s]
    OBVIOUS
  <2>2. CASE s = r
    <3>1. /\ d.at = opened.at /\ d.item = opened.item /\ d.blob = opened.blob
      BY <1>1, <2>1, <2>2 DEF Editor
    <3>2. Loaded(d)'
      BY <3>1 DEF Loaded, Editor
    <3> QED
      BY <3>2, <2>1
  <2>3. CASE s # r
    <3>1. d = [editing[s] EXCEPT !.alone = editing[s].at = "idle"] /\ editing[s] \in Editor
      BY <1>1, <2>1, <2>3 DEF ContentInv, ContentTyped
    <3>2. d.at = editing[s].at /\ d.item = editing[s].item /\ (d.at # "idle" => ~d.alone)
      BY <3>1 DEF Editor
    <3>3. PICK c : c = editing[s]
      OBVIOUS
    <3>4. Loaded(c)
      BY <3>3 DEF ContentInv
    <3>5. Loaded(d)
      BY <3>2, <3>3, <3>4 DEF Loaded
    <3>6. Loaded(d)'
      BY <3>2, <3>5, LoadedKept
    <3> QED
      BY <3>6, <2>1
  <2> QED
    BY <2>2, <2>3
<1>6. EditorsApart'
  <2> SUFFICES ASSUME NEW p \in Requests, NEW q \in Requests, p # q,
                      editing'[p].at # "idle", editing'[p].alone
               PROVE  editing'[q].at = "idle"
    BY DEF EditorsApart
  <2>1. p = r
    BY <1>1 DEF ContentInv, ContentTyped, Editor
  <2>2. editing'[p].alone = (\A u \in Requests \ {r} : editing[u].at = "idle")
    BY <1>1, <2>1 DEF Editor
  <2>3. editing[q].at = "idle"
    BY <2>1, <2>2
  <2> QED
    BY <1>1, <2>1, <2>3 DEF ContentInv, ContentTyped, Editor
<1> QED
  BY <1>4, <1>5, <1>6 DEF ContentInv, TableStep

\* A request writes, or gives up.
LEMMA ContentClosed ==
  ASSUME ContentInv, TableStep, UNCHANGED ladder, setting' \in Blob, NEW r \in Requests,
         editing[r].at # "idle", Close(r)
  PROVE  ContentInv'
<1>1. Gates' = Gates /\ Row' = Row /\ Blob' = Blob /\ Editor' = Editor
  BY DEF ladder, Gates, Ladder, LadderOf, Row, Blob, Editor
<1>2. ContentTyped'
  BY <1>1, BlankRows DEF ContentInv, ContentTyped, TableStep, Close
<1>3. ASSUME NEW s \in Requests
      PROVE  Loaded(editing[s])'
  <2>1. CASE s = r
    BY <2>1, BlankRows DEF Close, Loaded, ContentInv, ContentTyped
  <2>2. CASE s # r
    <3>1. PICK d : d = editing[s]
      OBVIOUS
    <3>2. editing'[s] = d /\ Loaded(d) /\ (d.at # "idle" => ~d.alone)
      BY <2>2, <3>1 DEF ContentInv, ContentTyped, Close, EditorsApart
    <3>3. Loaded(d)'
      BY <3>2, LoadedKept
    <3> QED
      BY <3>2, <3>3
  <2> QED
    BY <2>1, <2>2
<1>4. EditorsApart'
  BY BlankRows DEF Close, EditorsApart, ContentInv, ContentTyped
<1> QED
  BY <1>2, <1>3, <1>4 DEF ContentInv, TableStep

\* A step of one commit.
LEMMA ContentBeside ==
  ASSUME ContentInv, TableStep, UNCHANGED <<ladder, setting, editing>>
  PROVE  ContentInv'
<1>1. Gates' = Gates /\ Row' = Row /\ Blob' = Blob /\ Editor' = Editor
  BY DEF ladder, Gates, Ladder, LadderOf, Row, Blob, Editor
<1>2. ContentTyped'
  BY <1>1 DEF ContentInv, ContentTyped, TableStep
<1>3. ASSUME NEW s \in Requests
      PROVE  Loaded(editing[s])'
  <2>1. PICK d : d = editing[s]
    OBVIOUS
  <2>2. Loaded(d)'
    BY <2>1, LoadedKept DEF ContentInv
  <2> QED
    BY <2>1, <2>2
<1> QED
  BY <1>2, <1>3 DEF ContentInv, TableStep, EditorsApart

\* A row written at an id leaves every other address where it was.
LEMMA WrittenAt ==
  ASSUME ContentInv, NEW i \in Items, NEW row \in Row, row.there, AddressOK(i, row),
         item' = [item EXCEPT ![i] = row]
  PROVE  Addressed' /\ Present' = Present \union {i}
<1>1. item'[i] = row /\ \A j \in Items : j # i => item'[j] = item[j]
  BY DEF ContentInv, ContentTyped
<1>2. Present' = Present \union {i}
  BY <1>1 DEF Present
<1>3. AddressOK(i, row)'
  BY <1>1, <1>2 DEF AddressOK, Present
<1>4. ASSUME NEW j \in Present, j # i
      PROVE  AddressOK(j, item[j])'
  <2>1. PICK other : other = item[j]
    OBVIOUS
  <2>2. AddressOK(j, other) /\ item'[j] = other /\ j \in Items /\ other.there
    BY <1>1, <1>4, <2>1 DEF ContentInv, Addressed, Present
  <2>3. CASE other.parent # NoItem /\ ~ChildRoutable(other.type)
    BY <2>2, <2>3 DEF AddressOK
  <2>4. CASE ~(other.parent # NoItem /\ ~ChildRoutable(other.type))
    <3>1. /\ other.slug \in Slugs
          /\ other.parent = NoItem => other.slug \notin Reserved(other.type)
          /\ \A k \in Present \ {j} : <<item[k].parent, item[k].type, item[k].slug>> # <<other.parent, other.type, other.slug>>
      BY <2>2, <2>4 DEF AddressOK
    <3>2. <<row.parent, row.type, row.slug>> # <<other.parent, other.type, other.slug>>
      <4>1. CASE row.parent # NoItem /\ ~ChildRoutable(row.type)
        BY <3>1, <4>1, ContentAssumption DEF AddressOK
      <4>2. CASE ~(row.parent # NoItem /\ ~ChildRoutable(row.type))
        BY <1>4, <2>1, <4>2 DEF AddressOK
      <4> QED
        BY <4>1, <4>2
    <3>3. \A k \in Present' \ {j} : <<item'[k].parent, item'[k].type, item'[k].slug>> # <<other.parent, other.type, other.slug>>
      BY <1>1, <1>2, <3>1, <3>2 DEF Present
    <3>4. AddressOK(j, other)'
      BY <2>4, <3>1, <3>3 DEF AddressOK
    <3> QED
      BY <2>2, <3>4
  <2> QED
    BY <2>2, <2>3, <2>4
<1>5. ASSUME NEW j \in Present'
      PROVE  AddressOK(j, item[j])'
  BY <1>1, <1>2, <1>3, <1>4, <1>5
<1> QED
  BY <1>2, <1>5 DEF Addressed

\* Rows that go, or move within their item, leave the others' addresses too.
LEMMA Fewer ==
  ASSUME ContentInv, item' \in [Items -> Row], Present' \subseteq Present,
         \A j \in Present' : /\ item'[j].parent = item[j].parent /\ item'[j].type = item[j].type
                             /\ item'[j].slug = item[j].slug
  PROVE  Addressed'
<1> SUFFICES ASSUME NEW j \in Present'
             PROVE  AddressOK(j, item[j])'
  BY DEF Addressed
<1>1. PICK now : now = item'[j]
  OBVIOUS
<1>2. PICK old : old = item[j]
  OBVIOUS
<1>3. AddressOK(j, old) /\ now.parent = old.parent /\ now.type = old.type /\ now.slug = old.slug
  BY <1>1, <1>2 DEF ContentInv, Addressed
<1>4. AddressOK(j, now)'
  BY <1>3 DEF AddressOK
<1> QED
  BY <1>1, <1>4

\* The table as it was.
LEMMA TableUnread ==
  ASSUME ContentInv, UNCHANGED <<ladder, item, clock, numbered>>
  PROVE  TableStep
<1>1. Row' = Row
  BY DEF ladder, Gates, Ladder, LadderOf, Row
<1>2. Present' = Present
  BY DEF Present
<1>3. Addressed'
  <2> SUFFICES ASSUME NEW j \in Present
               PROVE  AddressOK(j, item[j])'
    BY <1>2 DEF Addressed
  <2>1. PICK row : row = item[j]
    OBVIOUS
  <2>2. AddressOK(j, row)
    BY <2>1 DEF ContentInv, Addressed
  <2>3. AddressOK(j, row)'
    BY <1>2, <2>2 DEF AddressOK
  <2> QED
    BY <2>1, <2>3
<1> QED
  BY <1>2, <1>3 DEF ContentInv, ContentTyped, TableStep, Nested, Issued, IsChild, Present

\* Create and add_block: a new row, at the top or in an item that is no block.
LEMMA Inserted ==
  ASSUME ContentInv, UNCHANGED ladder, clock' = clock, NEW i \in Items, NewId(i), NEW row \in Row,
         row.there, AddressOK(i, row), item' = [item EXCEPT ![i] = row],
         IsPostgres /\ row.parent # NoItem => row.parent \in Present /\ ~IsChild(row.parent)
  PROVE  TableStep
<1>1. item' \in [Items -> Row] /\ item'[i] = row /\ \A j \in Items : j # i => item'[j] = item[j]
  BY DEF ContentInv, ContentTyped
<1>2. Addressed' /\ Present' = Present \union {i}
  BY WrittenAt
<1>3. clock' \in Nat /\ numbered' \in Nat
  BY DEF ContentInv, ContentTyped, NewId, Items
<1>4. ASSUME IsPostgres
      PROVE  /\ Nested' /\ Issued' /\ numbered <= numbered'
             /\ \A p \in Items : p <= numbered /\ item'[p].there =>
                  item[p].there /\ item'[p].parent = item[p].parent
  <2>1. i = numbered + 1 /\ numbered' = i /\ numbered \in Nat
    BY <1>4 DEF NewId, ContentInv, ContentTyped
  <2>2. \A j \in Present : j <= numbered /\ j \in Nat /\ j # i
    BY <1>4, <2>1 DEF ContentInv, Issued, Present, Items
  <2>3. Issued'
    BY <1>2, <2>1, <2>2 DEF Issued
  <2>4. Nested'
    <3> SUFFICES ASSUME NEW j \in Present', item'[j].parent # NoItem
                 PROVE  item'[j].parent \in Present' /\ item'[item'[j].parent].parent = NoItem
      BY DEF Nested, IsChild
    <3>1. CASE j = i
      <4>1. row.parent \in Present /\ item[row.parent].parent = NoItem
        BY <1>1, <1>4, <3>1 DEF IsChild
      <4>2. row.parent # i /\ row.parent \in Items
        BY <2>2, <4>1 DEF Present
      <4> QED
        BY <1>1, <1>2, <3>1, <4>1, <4>2
    <3>2. CASE j # i
      <4>1. j \in Present /\ item'[j] = item[j]
        BY <1>1, <1>2, <3>2 DEF Present
      <4>2. item[j].parent \in Present /\ item[item[j].parent].parent = NoItem
        BY <1>4, <4>1 DEF ContentInv, Nested, IsChild
      <4>3. item[j].parent # i /\ item[j].parent \in Items
        BY <2>2, <4>2 DEF Present
      <4> QED
        BY <1>1, <1>2, <4>1, <4>2, <4>3
    <3> QED
      BY <3>1, <3>2
  <2>5. \A p \in Items : p <= numbered => p # i
    BY <2>1 DEF Items
  <2> QED
    BY <1>1, <2>1, <2>3, <2>4, <2>5
<1> QED
  BY <1>1, <1>2, <1>3, <1>4 DEF TableStep

\* Rows that change or go, but for the parents: what goes takes its blocks along.
LEMMA Rewritten ==
  ASSUME ContentInv, UNCHANGED numbered, clock' \in Nat, item' \in [Items -> Row], Addressed',
         Present' \subseteq Present, \A j \in Present' : item'[j].parent = item[j].parent,
         IsPostgres => \A j \in Present' : item[j].parent # NoItem => item[j].parent \in Present'
  PROVE  TableStep
<1>1. IsPostgres => Nested'
  BY DEF ContentInv, Nested, IsChild
<1>2. IsPostgres => Issued'
  BY DEF ContentInv, Issued
<1>3. \A p \in Items : item'[p].there => item[p].there /\ item'[p].parent = item[p].parent
  BY DEF Present
<1> QED
  BY <1>1, <1>2, <1>3 DEF TableStep, ContentInv, ContentTyped

\* A request that begins, on a table that stays.
LEMMA Begins ==
  ASSUME ContentInv, UNCHANGED <<ladder, item, setting, clock, numbered>>, NEW r \in Requests,
         NEW opened \in Editor, Open(r, opened), opened.at # "idle", Loaded([opened EXCEPT !.alone = TRUE])
  PROVE  ContentInv'
<1>1. PICK d : d = [opened EXCEPT !.alone = TRUE]
  OBVIOUS
<1>2. Loaded(d)
  BY <1>1
<1>3. TableStep
  BY TableUnread
<1>4. Loaded(d)'
  BY <1>2, <1>3, LoadedKept
<1> QED
  BY <1>1, <1>3, <1>4, ContentOpened

\* Blocks are counted and placed within the bound on the items.
LEMMA Placed ==
  ASSUME ContentInv, NEW p \in Items
  PROVE  /\ IsFiniteSet(Children(p)) /\ Cardinality(Children(p)) \in 0..MaxItems
         /\ \A c \in Present : IndexOf(c) \in 0..MaxItems
         /\ NextPosition(p) \in 0..(MaxItems + 1)
<1>1. IsFiniteSet(Items) /\ Cardinality(Items) = MaxItems
  BY ContentAssumption, FS_Interval DEF Items
<1>2. ASSUME NEW S \in SUBSET Items
      PROVE  IsFiniteSet(S) /\ Cardinality(S) \in 0..MaxItems
  BY <1>1, ContentAssumption, FS_Subset, FS_CardinalityType
<1>3. \A q \in Items \union {NoItem} : Children(q) \in SUBSET Items
  BY DEF Children, Present
<1>4. ASSUME NEW c \in Present
      PROVE  IndexOf(c) \in 0..MaxItems
  <2>1. {b \in Children(item[c].parent) : Precedes(b, c)} \in SUBSET Items
    BY DEF Children, Present
  <2> QED
    BY <1>2, <2>1 DEF IndexOf
<1>5. \A c \in Children(p) : item[c].position \in 0..MaxItems
  BY DEF ContentInv, ContentTyped, Row, Children, Present
<1>6. \E n \in 0..(MaxItems + 1) : /\ \A c \in Children(p) : item[c].position < n
                                   /\ n = 0 \/ \E c \in Children(p) : item[c].position = n - 1
  <2>1. CASE Children(p) = {}
    BY <2>1, ContentAssumption
  <2>2. CASE Children(p) # {}
    <3> DEFINE S == {item[c].position : c \in Children(p)}
    <3>1. S # {} /\ S \subseteq 0..MaxItems
      BY <1>5, <2>2
    <3>2. \E n \in S : \A m \in S : m <= n
      <4> HIDE DEF S
      <4> QED
        BY <3>1, ContentAssumption, Greatest
    <3>3. PICK c \in Children(p) : \A b \in Children(p) : item[b].position <= item[c].position
      BY <3>2
    <3>4. item[c].position + 1 \in 0..(MaxItems + 1)
      BY <1>5, ContentAssumption
    <3> WITNESS item[c].position + 1 \in 0..(MaxItems + 1)
    <3>5. (item[c].position + 1) - 1 = item[c].position
      BY <1>5, ContentAssumption
    <3> QED
      BY <1>5, <3>3, <3>5, ContentAssumption
  <2> QED
    BY <2>1, <2>2
<1>7. NextPosition(p) \in 0..(MaxItems + 1)
  BY <1>6 DEF NextPosition
<1> QED
  BY <1>2, <1>3, <1>4, <1>7

LEMMA CreateStep ==
  ASSUME ContentInv, UNCHANGED ladder, NEW r \in Requests, NEW i \in Items, NEW type \in Types,
         NEW slug \in Slugs \union {NoSlug}, NEW gate \in Gates, NEW publish \in BOOLEAN,
         Create(r, i, type, slug, gate, publish)
  PROVE  ContentInv'
<1> DEFINE row == [NoContent EXCEPT !.there = TRUE, !.type = type, !.slug = slug, !.gate = gate]
           opened == [Away EXCEPT !.at = "publishing", !.item = i, !.seen = row]
<1>1. row \in Row /\ row.there /\ row.parent = NoItem
  BY BlankRows DEF Row, NoContent
<1>2. NewId(i) /\ AddressOK(i, row) /\ item' = [item EXCEPT ![i] = row] /\ UNCHANGED <<setting, clock>>
  BY DEF Create
<1>3. TableStep
  <2> HIDE DEF row
  <2> QED
    BY <1>1, <1>2, Inserted
<1>4. CASE publish
  <2>1. Open(r, opened)
    BY <1>4 DEF Create
  <2>2. opened \in Editor /\ opened.at = "publishing" /\ opened.item = i
    <3>1. opened.at = "publishing" /\ opened.item = i
      BY DEF Away
    <3> HIDE DEF row
    <3> QED
      BY <1>1, <3>1, BlankRows DEF Editor
  <2> HIDE DEF opened
  <2>3. Loaded([opened EXCEPT !.alone = TRUE])'
    BY <2>2 DEF Loaded, Editor
  <2> QED
    BY <1>2, <1>3, <2>1, <2>2, <2>3, ContentOpened
<1>5. CASE ~publish
  BY <1>2, <1>3, <1>5, ContentBeside DEF Create
<1> QED
  BY <1>4, <1>5

LEMMA SaveEditStep ==
  ASSUME ContentInv, UNCHANGED ladder, NEW r \in Requests,
         NEW action \in {"publish", "unpublish", "archive", "save"},
         NEW slug \in Slugs \union {NoSlug}, NEW gate \in Gates, SaveEdit(r, action, slug, gate)
  PROVE  ContentInv'
<1> DEFINE i == editing[r].item
           seen == editing[r].seen
           edited == [seen EXCEPT !.slug = slug, !.gate = gate]
           new == Acted(edited, action)
           row == Flushed(item[i], seen, new)
<1>1. i \in Present /\ i \in Items /\ item[i].there /\ editing[r].at # "idle"
  BY DEF SaveEdit, Present
<1>2. item[i] \in Row /\ seen \in Row
  BY <1>1 DEF ContentInv, ContentTyped, Editor
<1>3. /\ new.stamp <= MaxStamp /\ AddressOK(i, row) /\ item' = [item EXCEPT ![i] = row] /\ Close(r)
      /\ clock' = IF new.stamp > clock THEN new.stamp ELSE clock
      /\ UNCHANGED <<setting, numbered>>
  BY DEF SaveEdit
<1>4. clock \in Nat
  BY DEF ContentInv, ContentTyped
<1>5. /\ edited \in Row /\ edited.there = seen.there /\ edited.parent = seen.parent
  BY <1>2 DEF Row
<1>6. new \in Row /\ new.there = seen.there /\ new.parent = seen.parent
  <2> HIDE DEF edited, seen
  <2>1. CASE action = "publish"
    <3>1. new = Stamped(edited)
      BY <2>1 DEF Acted
    <3>2. Stamped(edited).stamp \in 0..MaxStamp
      BY <1>3, <1>4, <1>5, <3>1, ContentAssumption DEF Stamped, Row
    <3> QED
      BY <1>5, <3>1, <3>2 DEF Stamped, Row
  <2>2. CASE action = "unpublish"
    BY <1>5, <2>2 DEF Acted, Row
  <2>3. CASE action = "archive"
    BY <1>5, <2>3 DEF Acted, Row
  <2>4. CASE action = "save"
    BY <1>5, <2>4 DEF Acted, Row
  <2> QED
    BY <2>1, <2>2, <2>3, <2>4
<1>7. row \in Row /\ row.there /\ row.parent = item[i].parent
  <2>1. PICK now : now = item[i]
    OBVIOUS
  <2>2. row = Flushed(now, seen, new) /\ now \in Row /\ now.there
    BY <1>1, <1>2, <2>1
  <2> HIDE DEF new, seen
  <2>3. DOMAIN now = {"there", "type", "slug", "parent", "position", "gate", "status", "stamp"}
    BY <2>2 DEF Row
  <2>4. row = [f \in {"there", "type", "slug", "parent", "position", "gate", "status", "stamp"} |->
                 IF new[f] = seen[f] THEN now[f] ELSE new[f]]
    BY <2>2, <2>3 DEF Flushed
  <2> HIDE DEF row
  <2>5. row = [there |-> row.there, type |-> row.type, slug |-> row.slug, parent |-> row.parent,
               position |-> row.position, gate |-> row.gate, status |-> row.status, stamp |-> row.stamp]
    BY <2>4
  <2> QED
    BY <1>2, <1>6, <2>1, <2>2, <2>4, <2>5 DEF Row
<1> HIDE DEF row, new, seen, i
<1>8. Addressed' /\ Present' = Present \union {i}
  BY <1>1, <1>3, <1>7, WrittenAt
<1>9. TableStep
  <2>1. item' \in [Items -> Row] /\ \A j \in Items : item'[j].parent = item[j].parent
    BY <1>3, <1>7 DEF ContentInv, ContentTyped
  <2>2. Present' = Present /\ Present \subseteq Items
    BY <1>1, <1>8 DEF Present
  <2>3. clock' \in Nat
    BY <1>3, <1>4, <1>6 DEF Row
  <2>4. IsPostgres => \A j \in Present : item[j].parent # NoItem => item[j].parent \in Present
    BY DEF ContentInv, Nested, IsChild
  <2> QED
    BY <1>3, <1>8, <2>1, <2>2, <2>3, <2>4, Rewritten
<1>10. setting' \in Blob
  BY <1>3 DEF ContentInv, ContentTyped
<1> QED
  BY <1>1, <1>3, <1>9, <1>10, ContentClosed

LEMMA DeleteStep ==
  ASSUME ContentInv, UNCHANGED ladder, NEW i \in Items, Delete(i)
  PROVE  ContentInv'
<1>1. \A j \in Items : item'[j] = IF j = i \/ j \in Children(i) THEN NoContent ELSE item[j]
  BY DEF Delete
<1>2. item' \in [Items -> Row]
  BY BlankRows DEF Delete, ContentInv, ContentTyped
<1>3. \A j \in Present' : j \in Present /\ item'[j] = item[j] /\ j # i /\ item[j].parent # i
  BY <1>1, BlankRows DEF Present, Children
<1>4. Addressed'
  BY <1>2, <1>3, Fewer
<1>5. ASSUME IsPostgres, NEW j \in Present', item[j].parent # NoItem
      PROVE  item[j].parent \in Present'
  <2>1. item[j].parent \in Present /\ item[item[j].parent].parent = NoItem
    BY <1>3, <1>5 DEF ContentInv, Nested, IsChild
  <2>2. i # NoItem /\ item[j].parent \in Items
    BY <2>1, ContentAssumption DEF Items, Present
  <2> QED
    BY <1>1, <1>3, <2>1, <2>2 DEF Present, Children
<1>6. TableStep
  BY <1>2, <1>3, <1>4, <1>5, Rewritten DEF Delete, ContentInv, ContentTyped
<1> QED
  BY <1>6, ContentBeside DEF Delete

LEMMA BeginEditStep ==
  ASSUME ContentInv, UNCHANGED ladder, NEW r \in Requests, NEW i \in Items, BeginEdit(r, i)
  PROVE  ContentInv'
<1> DEFINE opened == [Away EXCEPT !.at = "editing", !.item = i, !.seen = item[i]]
<1>1. opened.at = "editing" /\ opened.item = i
  BY DEF Away
<1>2. opened \in Editor
  BY BlankRows DEF Editor, ContentInv, ContentTyped
<1>3. Open(r, opened) /\ UNCHANGED <<item, setting, clock, numbered>>
  BY DEF BeginEdit
<1> HIDE DEF opened
<1>4. Loaded([opened EXCEPT !.alone = TRUE])
  BY <1>1, <1>2 DEF Loaded, Editor
<1> QED
  BY <1>1, <1>2, <1>3, <1>4, Begins

LEMMA BeginBlockStep ==
  ASSUME ContentInv, UNCHANGED ladder, NEW r \in Requests, NEW p \in Items, BeginBlock(r, p)
  PROVE  ContentInv'
<1> DEFINE opened == [Away EXCEPT !.at = "adding", !.item = p, !.seen.position = NextPosition(p)]
<1>1. opened.at = "adding" /\ opened.item = p
  BY DEF Away
<1>2. NextPosition(p) \in 0..MaxItems
  BY Placed, ContentAssumption DEF BeginBlock
<1>3. opened \in Editor
  <2>1. [Away.seen EXCEPT !.position = NextPosition(p)] \in Row
    BY <1>2, BlankRows DEF Editor, Row
  <2> QED
    BY <2>1, BlankRows DEF Editor
<1>4. Open(r, opened) /\ UNCHANGED <<item, setting, clock, numbered>> /\ p \in Present /\ ~IsChild(p)
  BY DEF BeginBlock
<1> HIDE DEF opened
<1>5. Loaded([opened EXCEPT !.alone = TRUE])
  BY <1>1, <1>3, <1>4 DEF Loaded, Editor, ContentInv, Issued, IsChild
<1> QED
  BY <1>1, <1>3, <1>4, <1>5, Begins

LEMMA SaveBlockStep ==
  ASSUME ContentInv, UNCHANGED ladder, NEW r \in Requests, NEW i \in Items, NEW type \in Types,
         NEW slug \in Slugs \union {NoSlug}, SaveBlock(r, i, type, slug)
  PROVE  ContentInv'
<1> DEFINE row == [NoContent EXCEPT !.there = TRUE, !.type = type, !.slug = slug,
                     !.parent = editing[r].item, !.position = editing[r].seen.position]
<1>1. editing[r].at = "adding" /\ editing[r].item \in Present /\ editing[r] \in Editor
  BY DEF SaveBlock, ContentInv, ContentTyped
<1>2. row \in Row /\ row.there /\ row.parent = editing[r].item
  <2>1. editing[r].item \in Items \union {NoItem} /\ editing[r].seen.position \in 0..MaxItems
    BY <1>1 DEF Editor, Row
  <2> QED
    BY <2>1, BlankRows DEF Row, NoContent
<1>3. NewId(i) /\ AddressOK(i, row) /\ item' = [item EXCEPT ![i] = row] /\ Close(r) /\ UNCHANGED <<setting, clock>>
  BY DEF SaveBlock
<1>4. IsPostgres => ~IsChild(editing[r].item)
  BY <1>1 DEF ContentInv, Loaded, IsChild, Present
<1> HIDE DEF row
<1>5. TableStep
  BY <1>1, <1>2, <1>3, <1>4, Inserted
<1> QED
  BY <1>1, <1>3, <1>5, ContentClosed DEF ContentInv, ContentTyped

LEMMA BeginArrangeStep ==
  ASSUME ContentInv, UNCHANGED ladder, NEW r \in Requests, NEW c \in Items, NEW delta \in {-1, 1},
         BeginArrange(r, c, delta)
  PROVE  ContentInv'
<1> DEFINE p == item[c].parent
           target == IndexOf(c) + delta
           positions == [b \in Items |->
             IF b \in Children(p) /\ IndexAfter(b, c, target) # item[b].position
               THEN IndexAfter(b, c, target) + 1 ELSE 0]
           opened == [Away EXCEPT !.at = "arranging", !.item = p, !.seen = item[c], !.positions = positions]
<1>1. c \in Present /\ p \in Items /\ Children(p) \subseteq Present /\ item[c] \in Row
  BY DEF BeginArrange, IsChild, ContentInv, ContentTyped, Row, Present, Children
<1>2. positions \in [Items -> 0..(MaxItems + 1)]
  <2>1. Cardinality(Children(p)) \in 0..MaxItems /\ \A b \in Present : IndexOf(b) \in 0..MaxItems
    BY <1>1, Placed
  <2>2. target \in 0..(Cardinality(Children(p)) - 1) => target \in 0..MaxItems
    BY <2>1, ContentAssumption
  <2>3. \A b \in Children(p) : IndexAfter(b, c, target) \in 0..MaxItems
    <3> HIDE DEF target
    <3> QED
      BY <1>1, <2>1, <2>2 DEF IndexAfter
  <2> HIDE DEF p, target
  <2>4. \A b \in Children(p) : IndexAfter(b, c, target) + 1 \in 0..(MaxItems + 1)
    BY <2>3, ContentAssumption
  <2> QED
    BY <2>4, ContentAssumption
<1>3. Open(r, opened) /\ UNCHANGED <<item, setting, clock, numbered>>
  BY DEF BeginArrange
<1> HIDE DEF p, positions
<1>4. opened \in Editor
  BY <1>1, <1>2, BlankRows DEF Editor
<1>5. opened.at = "arranging" /\ opened.item = p
  BY DEF Away
<1> HIDE DEF opened
<1>6. Loaded([opened EXCEPT !.alone = TRUE])
  BY <1>4, <1>5 DEF Loaded, Editor
<1> QED
  BY <1>3, <1>4, <1>5, <1>6, Begins

LEMMA SaveArrangeStep ==
  ASSUME ContentInv, UNCHANGED ladder, NEW r \in Requests, SaveArrange(r)
  PROVE  ContentInv'
<1>1. editing[r].at = "arranging" /\ Close(r) /\ UNCHANGED <<setting, clock, numbered>>
  BY DEF SaveArrange
<1>2. editing[r].positions \in [Items -> 0..(MaxItems + 1)]
  BY DEF ContentInv, ContentTyped, Editor
<1>3. ASSUME NEW b \in Items
      PROVE  /\ item'[b] \in Row /\ item'[b].there = item[b].there /\ item'[b].parent = item[b].parent
             /\ item'[b].type = item[b].type /\ item'[b].slug = item[b].slug
  <2>1. item[b] \in Row
    BY DEF ContentInv, ContentTyped
  <2>2. \/ item'[b] = item[b]
        \/ /\ editing[r].positions[b] # 0
           /\ item'[b] = [item[b] EXCEPT !.position = editing[r].positions[b] - 1]
    BY DEF SaveArrange
  <2>3. editing[r].positions[b] # 0 => editing[r].positions[b] - 1 \in 0..MaxItems
    BY <1>2, ContentAssumption
  <2> QED
    BY <2>1, <2>2, <2>3 DEF Row
<1>4. item' \in [Items -> Row]
  BY <1>3 DEF SaveArrange
<1>5. Present' = Present /\ Present \subseteq Items
  BY <1>3 DEF Present
<1>6. Addressed'
  BY <1>3, <1>4, <1>5, Fewer
<1>7. IsPostgres => \A j \in Present : item[j].parent # NoItem => item[j].parent \in Present
  BY DEF ContentInv, Nested, IsChild
<1>8. TableStep
  BY <1>1, <1>3, <1>4, <1>5, <1>6, <1>7, Rewritten DEF ContentInv, ContentTyped
<1> QED
  BY <1>1, <1>8, ContentClosed DEF ContentInv, ContentTyped

LEMMA BeginSettingsStep ==
  ASSUME ContentInv, UNCHANGED ladder, NEW r \in Requests, BeginSettings(r)
  PROVE  ContentInv'
<1> DEFINE opened == [Away EXCEPT !.at = "settings", !.blob = setting]
<1>1. opened.at = "settings" /\ opened.blob = setting
  BY DEF Away
<1>2. opened \in Editor
  BY BlankRows DEF Editor, ContentInv, ContentTyped
<1>3. Open(r, opened) /\ UNCHANGED <<item, setting, clock, numbered>>
  BY DEF BeginSettings
<1> HIDE DEF opened
<1>4. Loaded([opened EXCEPT !.alone = TRUE])
  BY <1>1, <1>2 DEF Loaded, Editor
<1> QED
  BY <1>1, <1>2, <1>3, <1>4, Begins

LEMMA SaveSettingsStep ==
  ASSUME ContentInv, UNCHANGED ladder, NEW r \in Requests,
         \/ \E teasers \in BOOLEAN : SaveTeasers(r, teasers)
         \/ \E t \in Types, enabled \in {"on", "off"}, gate \in Gates, tease \in {"unset", "yes", "no"} :
              SaveType(r, t, enabled, gate, tease)
  PROVE  ContentInv'
<1> DEFINE blob == editing[r].blob
<1>1. editing[r].at = "settings" /\ Close(r) /\ UNCHANGED <<item, clock, numbered>>
  BY DEF SaveTeasers, SaveType
<1>2. blob \in Blob /\ setting \in Blob
  BY DEF ContentInv, ContentTyped, Editor
<1>3. setting' \in Blob
  <2>1. CASE \E teasers \in BOOLEAN : SaveTeasers(r, teasers)
    BY <1>2, <2>1 DEF SaveTeasers, Merged, Blob
  <2>2. ASSUME NEW t \in Types, NEW enabled \in {"on", "off"}, NEW gate \in Gates,
               NEW tease \in {"unset", "yes", "no"}, SaveType(r, t, enabled, gate, tease)
        PROVE  setting' \in Blob
    <3> DEFINE new == [blob EXCEPT !.types[t] = [enabled |-> enabled, gate |-> gate, tease |-> tease]]
    <3>1. setting' = new \/ setting' = setting
      BY <2>2 DEF SaveType, Merged
    <3>2. new \in Blob
      BY <1>2 DEF Blob
    <3> QED
      BY <1>2, <3>1, <3>2
  <2> QED
    BY <2>1, <2>2
<1>4. TableStep
  BY <1>1, TableUnread
<1> QED
  BY <1>1, <1>3, <1>4, ContentClosed

LEMMA ContentStep == ASSUME ContentInv, ContentNext, UNCHANGED ladder PROVE ContentInv'
<1>1. ASSUME NEW r \in Requests, Drop(r)
      PROVE  ContentInv'
  <2>1. TableStep
    BY <1>1, TableUnread DEF Drop
  <2> QED
    BY <1>1, <2>1, ContentClosed DEF Drop, ContentInv, ContentTyped
<1>2. CASE Authoring(Requests, Types, Slugs \union {NoSlug}, Gates)
  BY <1>1, <1>2, CreateStep, SaveEditStep, BeginEditStep, DeleteStep DEF Authoring
<1>3. CASE Blocks(Requests, Gates)
  BY <1>1, <1>3, SaveArrangeStep, SaveEditStep, BeginBlockStep, DeleteStep, BeginEditStep, BeginArrangeStep,
     SaveBlockStep DEF Blocks
<1>4. CASE Sections(Requests, Types, Gates, {"unset", "yes", "no"})
  BY <1>1, <1>4, BeginSettingsStep, SaveSettingsStep DEF Sections
<1> QED
  BY <1>2, <1>3, <1>4 DEF ContentNext

\* Tiers are never deleted: a gate stays one.
LEMMA LadderGrows == ASSUME LadderInv, TiersNext PROVE Ladder \subseteq Ladder'
<1>1. \A t \in Tiers : tier[t] \in Rung
  BY DEF LadderInv, LadderTyped
<1>2. ASSUME NEW r \in Requests, SaveMove(r)
      PROVE  Ladder \subseteq Ladder'
  BY <1>1, <1>2 DEF SaveMove, Ladder, LadderOf, Rung
<1>3. ASSUME NEW r \in Requests, NEW t \in Tiers, SaveAdd(r, t)
      PROVE  Ladder \subseteq Ladder'
  BY <1>1, <1>3 DEF SaveAdd, Ladder, LadderOf, Rung, LadderInv, LadderTyped
<1>4. ASSUME NEW t \in Tiers, NEW b \in BOOLEAN, tier' = [tier EXCEPT ![t].active = b]
      PROVE  Ladder \subseteq Ladder'
  BY <1>1, <1>4 DEF Ladder, LadderOf, Rung, LadderInv, LadderTyped
<1>5. ASSUME NEW r \in Requests, SaveRetire(r)
      PROVE  Ladder \subseteq Ladder'
  <2>1. climbing[r].tier \in Tiers
    BY <1>5 DEF SaveRetire, LadderInv, Planned, Ladder, LadderOf
  <2> QED
    BY <1>4, <1>5, <2>1 DEF SaveRetire
<1>6. \/ UNCHANGED tier
      \/ \E r \in Requests : SaveMove(r) \/ SaveRetire(r) \/ \E t \in Tiers : SaveAdd(r, t)
      \/ \E t \in Tiers : Restore(t)
  BY DEF TiersNext, Climb, Stand, BeginAdd, BeginMove, BeginRetire, GiveUp, JoinAtBottom, JoinOn, SetTier,
         LeaveLadder
<1>7. UNCHANGED tier => Ladder \subseteq Ladder'
  BY DEF Ladder, LadderOf
<1> QED
  BY <1>2, <1>3, <1>4, <1>5, <1>6, <1>7 DEF Restore

LEMMA ContentOnLadder ==
  ASSUME ContentInv, Ladder \subseteq Ladder', UNCHANGED works
  PROVE  ContentInv'
<1>1. Gates \subseteq Gates'
  BY DEF Gates
<1>2. Row \subseteq Row' /\ Blob \subseteq Blob'
  BY <1>1 DEF Row, Blob
<1>3. Editor \subseteq Editor'
  BY <1>2 DEF Editor
<1>4. ContentTyped'
  BY <1>2, <1>3 DEF works, ContentInv, ContentTyped
<1>5. Present' = Present
  BY DEF works, Present
<1>6. Addressed'
  <2> SUFFICES ASSUME NEW j \in Present
               PROVE  AddressOK(j, item[j])'
    BY <1>5 DEF Addressed
  <2>1. PICK row : row = item[j]
    OBVIOUS
  <2>2. AddressOK(j, row)
    BY <2>1 DEF ContentInv, Addressed
  <2>3. AddressOK(j, row)'
    BY <1>5, <2>2 DEF AddressOK, works
  <2> QED
    BY <2>1, <2>3 DEF works
<1>7. ASSUME NEW s \in Requests
      PROVE  Loaded(editing[s])'
  BY DEF works, ContentInv, Loaded
<1> QED
  BY <1>4, <1>5, <1>6, <1>7 DEF works, ContentInv, Nested, Issued, IsChild, EditorsApart

LEMMA ContentStarts == ContentInit => ContentInv
<1> SUFFICES ASSUME ContentInit
             PROVE  ContentInv
  OBVIOUS
<1>1. Present = {}
  BY BlankRows DEF ContentInit, Present
<1>2. ContentTyped
  BY BlankRows DEF ContentInit, ContentTyped
<1>3. \A r \in Requests : Loaded(editing[r])
  BY BlankRows DEF ContentInit, Loaded
<1> QED
  BY <1>1, <1>2, <1>3, BlankRows DEF ContentInit, ContentInv, Addressed, Nested, Issued, EditorsApart

SiteInv == LadderInv /\ ContentInv

\* A step on the ladder, one on the content, and a step beside both.
LEMMA SiteStep ==
  ASSUME SiteInv,
         \/ TiersNext /\ UNCHANGED works
         \/ ContentNext /\ UNCHANGED ladder
         \/ UNCHANGED <<ladder, works>>
  PROVE  SiteInv'
<1>1. CASE TiersNext /\ UNCHANGED works
  BY <1>1, LadderStep, LadderGrows, ContentOnLadder DEF SiteInv
<1>2. CASE ContentNext /\ UNCHANGED ladder
  BY <1>2, LadderRests, ContentStep DEF SiteInv
<1>3. CASE UNCHANGED <<ladder, works>>
  <2>1. Ladder \subseteq Ladder'
    BY <1>3 DEF ladder, Ladder, LadderOf
  <2> QED
    BY <1>3, <2>1, LadderRests, ContentOnLadder DEF SiteInv
<1> QED
  BY <1>1, <1>2, <1>3

THEOREM SiteAlways == ContentSpec => []SiteInv
<1>1. TiersInit /\ ContentInit => SiteInv
  BY LadderStarts, ContentStarts DEF SiteInv
<1>2. SiteInv /\ [ \/ TiersNext /\ UNCHANGED works
                   \/ ContentNext /\ UNCHANGED ladder ]_<<ladder, works>> => SiteInv'
  BY SiteStep
<1> QED
  BY <1>1, <1>2, PTL DEF ContentSpec

\* The tables hold rows of their types, gates there are, and blocks one level
\* deep: where ids come from a sequence, so that the parent a request has loaded
\* is not by then another item (Content.validate, _validate_as_child, delete).
THEOREM ContentSound == ASSUME IsPostgres PROVE ContentSpec => []ContentOK
<1>1. LadderInv => LadderOK
  BY DEF LadderInv, LadderTyped, Rungs, Planned, Climber, Rung, LadderOK
<1>2. SiteInv => ContentOK
  BY <1>1 DEF SiteInv, ContentInv, ContentTyped, Row, Blob, Nested, ContentOK
<1> QED
  BY <1>2, SiteAlways, PTL

\* Authors and blocks leave the settings.
LEMMA SettingsRest ==
  ASSUME Authoring(Requests, Types, Slugs \union {NoSlug}, Gates) \/ Blocks(Requests, Gates)
  PROVE  UNCHANGED setting
<1>1. ASSUME NEW r \in Requests, NEW i \in Items, NEW type, NEW slug, NEW gate, NEW publish \in BOOLEAN,
             Create(r, i, type, slug, gate, publish)
      PROVE  UNCHANGED setting
  BY <1>1 DEF Create
<1>2. ASSUME NEW r \in Requests, NEW action, NEW slug, NEW gate, SaveEdit(r, action, slug, gate)
      PROVE  UNCHANGED setting
  BY <1>2 DEF SaveEdit
<1>3. ASSUME NEW r \in Requests, NEW i \in Items, NEW type, NEW slug, SaveBlock(r, i, type, slug)
      PROVE  UNCHANGED setting
  BY <1>3 DEF SaveBlock
<1>4. ASSUME NEW r \in Requests, NEW i \in Items, NEW delta \in {-1, 1}, BeginArrange(r, i, delta)
      PROVE  UNCHANGED setting
  BY <1>4 DEF BeginArrange
<1>5. ASSUME NEW r \in Requests, NEW i \in Items,
             SaveArrange(r) \/ Drop(r) \/ BeginEdit(r, i) \/ Delete(i) \/ BeginBlock(r, i)
      PROVE  UNCHANGED setting
  BY <1>5 DEF SaveArrange, Drop, BeginEdit, Delete, BeginBlock
<1>6. CASE Authoring(Requests, Types, Slugs \union {NoSlug}, Gates)
  BY <1>1, <1>2, <1>5, <1>6 DEF Authoring, Drop
<1>7. CASE Blocks(Requests, Gates)
  BY <1>2, <1>3, <1>4, <1>5, <1>7 DEF Blocks, SaveArrange, Drop
<1> QED
  BY <1>6, <1>7

\* A request that had the settings to itself writes what it was asked to change
\* and nothing else, although it writes the whole column (update_settings).
THEOREM OnlyWhatWasAsked == ContentSpec => SettingsKept
<1>1. ASSUME SiteInv, ContentNext, NEW r \in Requests, setting' # setting, editing[r].at = "settings",
             editing[r].alone
      PROVE  \/ setting'.teasers = setting.teasers
                /\ \E t \in Types : \A s \in Types \ {t} : setting'.types[s] = setting.types[s]
             \/ setting'.types = setting.types
  <2>1. \A q \in Requests : q # r => editing[q].at = "idle"
    BY <1>1 DEF SiteInv, ContentInv, EditorsApart
  <2>2. editing[r].blob = setting /\ setting \in Blob
    BY <1>1 DEF SiteInv, ContentInv, ContentTyped, Loaded
  <2>3. \/ \E teasers \in BOOLEAN : SaveTeasers(r, teasers)
        \/ \E t \in Types, enabled \in {"on", "off"}, gate \in Gates, tease \in {"unset", "yes", "no"} :
             SaveType(r, t, enabled, gate, tease)
    <3>1. PICK q \in Requests :
            \/ \E teasers \in BOOLEAN : SaveTeasers(q, teasers)
            \/ \E t \in Types, enabled \in {"on", "off"}, gate \in Gates, tease \in {"unset", "yes", "no"} :
                 SaveType(q, t, enabled, gate, tease)
      <4>1. Sections(Requests, Types, Gates, {"unset", "yes", "no"})
        BY <1>1, SettingsRest DEF ContentNext
      <4> QED
        BY <1>1, <4>1 DEF Sections, BeginSettings, Drop
    <3>2. editing[q].at = "settings"
      BY <3>1 DEF SaveTeasers, SaveType
    <3> QED
      BY <2>1, <3>1, <3>2
  <2>4. CASE \E teasers \in BOOLEAN : SaveTeasers(r, teasers)
    BY <2>2, <2>4 DEF SaveTeasers, Merged, Blob
  <2>5. ASSUME NEW t \in Types, NEW enabled \in {"on", "off"}, NEW gate \in Gates,
               NEW tease \in {"unset", "yes", "no"}, SaveType(r, t, enabled, gate, tease)
        PROVE  /\ setting'.teasers = setting.teasers
               /\ \A s \in Types \ {t} : setting'.types[s] = setting.types[s]
    <3> DEFINE new == [setting EXCEPT !.types[t] = [enabled |-> enabled, gate |-> gate, tease |-> tease]]
    <3>1. setting' = new \/ setting' = setting
      BY <2>2, <2>5 DEF SaveType, Merged
    <3>2. new.teasers = setting.teasers /\ \A s \in Types \ {t} : new.types[s] = setting.types[s]
      BY <2>2 DEF Blob
    <3> QED
      BY <3>1, <3>2
  <2> QED
    BY <2>3, <2>4, <2>5
<1>2. SiteInv /\ [ \/ TiersNext /\ UNCHANGED works
                   \/ ContentNext /\ UNCHANGED ladder ]_<<ladder, works>> =>
        [\A r \in Requests :
           (setting' # setting /\ editing[r].at = "settings" /\ editing'[r].at = "idle" /\ editing[r].alone) =>
             \/ /\ setting'.teasers = setting.teasers
                /\ \E t \in Types : \A s \in Types \ {t} : setting'.types[s] = setting.types[s]
             \/ setting'.types = setting.types]_works
  BY <1>1 DEF works
<1> QED
  BY <1>2, SiteAlways, PTL DEF ContentSpec, SettingsKept

-----------------------------------------------------------------------------
(* Addresses *)

\* Every type with a listing has a base of its own, and no page is there.
LEMMA Bases ==
  /\ \A s, t \in Types : Base(s) = Base(t) => s = t
  /\ \A t \in Types : HasArchive(t) => Base(t) \in Reserved("page")
<1>1. Types \subseteq {"page", "article", "event", "course", "lesson"}
  BY ContentAssumption
<1>2. \A s, t \in Types : Base(s) = Base(t) => s = t
  BY <1>1 DEF Base
<1>3. \A t \in Types : HasArchive(t) => Base(t) \in Reserved("page")
  BY DEF HasArchive, Reserved
<1> QED
  BY <1>2, <1>3

\* At the address of a published row there is no other.
LEMMA OnlyOne ==
  ASSUME ContentInv, NEW i \in Items, Published(i), item[i].slug \in Slugs, NEW types, item[i].type \in types,
         types \subseteq {item[i].type}
  PROVE  One(PublishedAt(item[i].parent, types, item[i].slug)) = i
<1>1. i \in Present /\ AddressOK(i, item[i])
  BY DEF Published, ContentInv, Addressed
<1>2. item[i].slug # NoSlug
  BY ContentAssumption
<1>3. \A j \in Present \ {i} :
        <<item[j].parent, item[j].type, item[j].slug>> # <<item[i].parent, item[i].type, item[i].slug>>
  BY <1>1, <1>2 DEF AddressOK
<1>4. PublishedAt(item[i].parent, types, item[i].slug) = {i}
  BY <1>3 DEF PublishedAt, Published
<1> QED
  BY <1>4 DEF One

LEMMA TypeAtBase ==
  /\ \A t \in FeedTypes : TypesAt(Base(t)) = {t}
  /\ \A t \in Types : \A u \in TypesAt(Base(t)) : u = t
  BY Bases DEF TypesAt, FeedTypes

\* entry and single: what stands alone answers at its path.
LEMMA AnswersAtPath ==
  ASSUME ContentInv, NEW i \in Items, Published(i), ~IsChild(i),
         item[i].type = "page" \/ item[i].type \in FeedTypes, NEW v
  PROVE  Answer(v, PathOf(i)) = Shown(v, i)
<1>1. /\ item[i].parent = NoItem /\ item[i].slug \in Slugs /\ item[i].slug \notin Reserved(item[i].type)
      /\ item[i].type \in Types
  BY DEF ContentInv, ContentTyped, Row, Addressed, AddressOK, Published, Present, IsChild
<1>2. item[i].slug # "feed"
  BY <1>1 DEF Reserved
<1>3. CASE item[i].type = "page"
  <2>1. PICK path : path = <<item[i].slug>>
    OBVIOUS
  <2>2. PathOf(i) = path /\ Len(path) = 1 /\ path[1] = item[i].slug
    BY <1>3, <2>1 DEF PathOf
  <2>3. TypesAt(path[1]) = {}
    BY <1>1, <1>3, <2>2, Bases DEF TypesAt, FeedTypes
  <2>4. One(PublishedAt(NoItem, {"page"}, path[1])) = i
    BY <1>1, <1>3, <2>2, OnlyOne
  <2> QED
    BY <2>2, <2>3, <2>4 DEF Answer
<1>4. CASE item[i].type # "page"
  <2>1. PICK path : path = <<Base(item[i].type), item[i].slug>>
    OBVIOUS
  <2>2. PathOf(i) = path /\ Len(path) = 2 /\ path[1] = Base(item[i].type) /\ path[2] = item[i].slug
    BY <1>4, <2>1 DEF PathOf
  <2>3. TypesAt(path[1]) = {item[i].type}
    BY <1>4, <2>2, TypeAtBase
  <2>4. One(PublishedAt(NoItem, TypesAt(path[1]), path[2])) = i
    BY <1>1, <2>2, <2>3, OnlyOne
  <2> QED
    BY <1>2, <2>2, <2>4 DEF Answer
<1> QED
  BY <1>3, <1>4

\* What an address shows of a published parent and its type, when it shows it.
LEMMA OpenParent ==
  ASSUME ContentInv, NEW v, NEW p \in Present, ~IsChild(p), item[p].type # "page",
         Answer(v, Permalink(p)) = [page |-> "item", item |-> p]
  PROVE  /\ Visible(v, p)
         /\ One(PublishedAt(NoItem, TypesAt(Base(item[p].type)), item[p].slug)) = p
<1>1. PICK path : path = <<Base(item[p].type), item[p].slug>>
  OBVIOUS
<1>2. Permalink(p) = path /\ Len(path) = 2 /\ path[1] = Base(item[p].type) /\ path[2] = item[p].slug
  BY <1>1 DEF Permalink, PathOf
<1>3. Answer(v, path) = IF path[2] = "feed" THEN FeedAnswer(v, TypesAt(path[1]))
                        ELSE Shown(v, One(PublishedAt(NoItem, TypesAt(path[1]), path[2])))
  BY <1>2 DEF Answer
<1>4. path[2] # "feed"
  BY <1>2, <1>3 DEF FeedAnswer, ArchivePage, Missing
<1>5. PICK found : found = One(PublishedAt(NoItem, TypesAt(path[1]), path[2]))
  OBVIOUS
<1>6. Shown(v, found) = [page |-> "item", item |-> p]
  BY <1>2, <1>3, <1>4, <1>5
<1>7. found = p /\ Visible(v, found)
  BY <1>6 DEF Shown, Missing, GateOf
<1> QED
  BY <1>2, <1>5, <1>7

LEMMA FourSegments ==
  ASSUME NEW a, NEW b, NEW c, NEW d
  PROVE  LET path == <<a, b>> \o <<c, d>>
         IN Len(path) = 4 /\ path[1] = a /\ path[2] = b /\ path[3] = c /\ path[4] = d
<1> DEFINE S == {a, b, c, d}
<1>1. <<a, b>> \in Seq(S) /\ <<c, d>> \in Seq(S) /\ Len(<<a, b>>) = 2 /\ Len(<<c, d>>) = 2
  OBVIOUS
<1> QED
  BY <1>1

\* child_single: a block with an address of its own answers there, under a
\* parent that is shown.
LEMMA AnswersUnderParent ==
  ASSUME ContentInv, IsPostgres, NEW v, NEW p \in Present,
         Answer(v, Permalink(p)) = [page |-> "item", item |-> p],
         NEW c \in VisibleChildren(v, p), HasAddress(c)
  PROVE  Answer(v, Permalink(c)) = Shown(v, c)
<1>1. /\ c \in Present /\ item[c].parent = p /\ Published(c)
      /\ c \in Items /\ p \in Items /\ p # NoItem
  BY ContentAssumption DEF VisibleChildren, Children, Present, Items
<1>2. IsChild(c) /\ ~IsChild(p)
  BY <1>1 DEF ContentInv, Nested, IsChild
<1>3. /\ ChildRoutable(item[c].type) /\ item[c].slug # NoSlug /\ HasArchive(item[p].type)
      /\ Enabled(item[c].type) /\ item[c].type \in Types /\ item[c].type = "lesson" /\ item[c].slug \in Slugs
  BY <1>1, <1>2 DEF HasAddress, ContentInv, ContentTyped, Row, ChildRoutable
<1>4. item[p].type # "page"
  BY <1>3 DEF HasArchive
<1>5. Visible(v, p) /\ One(PublishedAt(NoItem, TypesAt(Base(item[p].type)), item[p].slug)) = p
  BY <1>2, <1>4, OpenParent
<1>6. PICK path : path = Permalink(c)
  OBVIOUS
<1>7. path = <<Base(item[p].type), item[p].slug>> \o <<Base(item[c].type), item[c].slug>>
  <2>1. PathOf(p) = <<Base(item[p].type), item[p].slug>> /\ PathOf(c) = <<Base(item[c].type), item[c].slug>>
    BY <1>3, <1>4 DEF PathOf
  <2>2. Permalink(c) = PathOf(p) \o PathOf(c)
    BY <1>1, <1>2 DEF Permalink, HasAddress
  <2> QED
    BY <1>6, <2>1, <2>2
<1>8. /\ Len(path) = 4 /\ path[1] = Base(item[p].type) /\ path[2] = item[p].slug
      /\ path[3] = Base(item[c].type) /\ path[4] = item[c].slug
  BY <1>7, FourSegments
<1>9. item[c].type \in FeedTypes
  BY <1>3 DEF FeedTypes, HasArchive
<1>10. {t \in TypesAt(path[3]) : ChildRoutable(t)} = {item[c].type}
  BY <1>3, <1>8, <1>9, TypeAtBase
<1>11. One(PublishedAt(p, {item[c].type}, item[c].slug)) = c
  BY <1>1, <1>3, OnlyOne
<1>12. Answer(v, path) = ChildAnswer(v, p, {item[c].type}, item[c].slug)
  <2>1. Answer(v, path) = ChildAnswer(v, One(PublishedAt(NoItem, TypesAt(path[1]), path[2])),
                                      {t \in TypesAt(path[3]) : ChildRoutable(t)}, path[4])
    BY <1>8 DEF Answer
  <2>2. One(PublishedAt(NoItem, TypesAt(path[1]), path[2])) = p
    BY <1>5, <1>8
  <2> QED
    BY <1>8, <1>10, <2>1, <2>2
<1>13. ChildAnswer(v, p, {item[c].type}, item[c].slug) = Shown(v, c)
  BY <1>1, <1>5, <1>11 DEF ChildAnswer
<1> QED
  BY <1>6, <1>12, <1>13

LEMMA Known == Anonymous \in Visitors /\ \A i \in Items : i # NoItem
  BY ContentAssumption DEF Anonymous, Visitors, Strangers, Items

\* What a feed lists, its reader finds at its address: the item, or the gate.
LEMMA SyndicatedAnswers ==
  ASSUME SiteInv, NEW v \in Visitors, NEW i \in Syndicated(v)
  PROVE  Answer(v, Permalink(i)) = IF Visible(v, i) THEN [page |-> "item", item |-> i]
                                   ELSE [page |-> "gate", item |-> NoItem]
<1>1. PICK t \in FeedTypes : SectionReadable(v, t) /\ i \in VisibleQuery(v, t)
  BY DEF Syndicated, Archive
<1>2. i \in Items /\ Published(i) /\ ~IsChild(i) /\ item[i].type = t
  BY <1>1 DEF VisibleQuery, PublishedQuery
<1>3. Teases(t) \/ Listed(Ranks, v, item[i].gate)
  BY <1>1 DEF VisibleQuery
<1>4. item[i].gate \in Gates
  BY <1>2 DEF SiteInv, ContentInv, ContentTyped, Row
<1>5. Visible(v, i) \/ Teases(t)
  BY <1>1, <1>2, <1>3, <1>4, FilterAndRule, RanksMemo DEF Visible, SiteInv, FilterIsRule
<1>6. Answer(v, Permalink(i)) = Shown(v, i)
  BY <1>1, <1>2, AnswersAtPath DEF Permalink, SiteInv
<1> QED
  BY <1>2, <1>5, <1>6, Known DEF Shown, GateOf

\* Whatever the site lists opens at its address, or shows the gate where only
\* the title was listed; the sitemap opens for anybody (where ids come from a
\* sequence: an item with blocks is no block).
THEOREM WhatIsListedOpens == ASSUME IsPostgres PROVE ContentSpec => []ListedOpens
<1>1. ASSUME SiteInv, NEW i \in Sitemap
      PROVE  Answer(Anonymous, Permalink(i)) = [page |-> "item", item |-> i]
  <2>1. /\ i \in Items /\ Published(i) /\ ~IsChild(i) /\ item[i].gate = "public"
        /\ SectionGate(item[i].type) = "public"
        /\ item[i].type = "page" \/ item[i].type \in FeedTypes
    BY <1>1 DEF Sitemap, PublishedQuery
  <2>2. Visible(Anonymous, i)
    BY <2>1 DEF Visible, SectionReadable, CanRead
  <2>3. Answer(Anonymous, Permalink(i)) = Shown(Anonymous, i)
    BY <1>1, <2>1, AnswersAtPath DEF Permalink, SiteInv
  <2> QED
    BY <2>1, <2>2, <2>3, Known DEF Shown
<1>3. ASSUME SiteInv, IsPostgres, NEW v \in Visitors, NEW p \in Present,
             Answer(v, Permalink(p)) = [page |-> "item", item |-> p],
             NEW c \in VisibleChildren(v, p), HasAddress(c)
      PROVE  Answer(v, Permalink(c)) = IF Visible(v, c) THEN [page |-> "item", item |-> c]
                                       ELSE [page |-> "gate", item |-> NoItem]
  <2>1. Answer(v, Permalink(c)) = Shown(v, c)
    BY <1>3, AnswersUnderParent DEF SiteInv
  <2>2. c \in Items /\ (Visible(v, c) \/ Teases(item[c].type))
    BY DEF VisibleChildren, Children, Present
  <2> QED
    BY <2>1, <2>2, Known DEF Shown, GateOf
<1>4. SiteInv /\ IsPostgres => ListedOpens
  <2> SUFFICES ASSUME SiteInv, IsPostgres
               PROVE  ListedOpens
    OBVIOUS
  <2>1. ASSUME NEW v \in Visitors, NEW e \in Entries(v)
        PROVE  Answer(v, Permalink(e.item)) = IF e.summary THEN [page |-> "item", item |-> e.item]
                                              ELSE [page |-> "gate", item |-> NoItem]
    <3>1. PICK i \in Syndicated(v) : e = [item |-> i, summary |-> Visible(v, i)]
      BY DEF Entries
    <3>2. e.item = i /\ (e.summary = Visible(v, i))
      BY <3>1
    <3> QED
      BY <3>2, SyndicatedAnswers
  <2> QED
    BY <1>1, <1>3, <2>1 DEF ListedOpens
<1> QED
  BY <1>4, SiteAlways, PTL

\* Who is not inside reads with the eyes of the anonymous visitor, signed in or
\* not: what is in his feed is in everybody's.
LEMMA StrangersAlike ==
  ASSUME NEW v \in Visitors, CachedForAll(v)
  PROVE  Entries(v) = Entries(Anonymous)
<1>1. v.admin = FALSE /\ v.role = "none"
  BY DEF CachedForAll, Inside, Visitors, Strangers
<1>2. \A gate : CanRead(Ranks, v, gate) <=> CanRead(Ranks, Anonymous, gate)
  BY <1>1 DEF CanRead, Anonymous
<1>3. \A gate : Listed(Ranks, v, gate) <=> Listed(Ranks, Anonymous, gate)
  BY <1>1 DEF Listed, ReadsEverything, Writes, ReadableGates, Anonymous
<1>4. \A t : SectionReadable(v, t) <=> SectionReadable(Anonymous, t)
  BY <1>2 DEF SectionReadable
<1>5. \A t : VisibleQuery(v, t) = VisibleQuery(Anonymous, t)
  BY <1>3 DEF VisibleQuery
<1>6. \A t : Archive(v, t) = Archive(Anonymous, t)
  BY <1>4, <1>5 DEF Archive
<1>7. Syndicated(v) = Syndicated(Anonymous)
  BY <1>6 DEF Syndicated
<1>8. \A i : Visible(v, i) <=> Visible(Anonymous, i)
  BY <1>2, <1>4 DEF Visible
<1>9. \A i : Visible(v, i) \in BOOLEAN /\ Visible(Anonymous, i) \in BOOLEAN
  BY DEF Visible, SectionReadable, CanRead
<1>10. \A i : Visible(v, i) = Visible(Anonymous, i)
  BY <1>8, <1>9
<1> QED
  BY <1>7, <1>10 DEF Entries

\* The inductive strengthening of CachedWasOpen: an entry of a copy has been
\* missed no longer than the copy is old, and the copy is not too old.
FeedsInv ==
  /\ missed \in [Entry -> 0..CacheLife]
  /\ \A e \in Entry : Found(e) => missed[e] = 0
  /\ copy.age \in 0..(CacheLife - 1)
  /\ copy.entries \subseteq Entry
  /\ \A e \in copy.entries : missed[e] <= copy.age

LEMMA EntriesFound ==
  ASSUME SiteInv, NEW v \in Visitors, CachedForAll(v), NEW e \in Entries(v)
  PROVE  e \in Entry /\ Found(e)
<1>1. PICK i \in Syndicated(Anonymous) : e = [item |-> i, summary |-> Visible(Anonymous, i)]
  BY StrangersAlike DEF Entries
<1>2. i \in Items /\ i \in Present
  BY <1>1 DEF Syndicated, Archive, VisibleQuery, PublishedQuery, Published
<1>3. Visible(Anonymous, i) \in BOOLEAN
  BY DEF Visible, SectionReadable, CanRead
<1>4. Answer(Anonymous, Permalink(i)) = IF Visible(Anonymous, i) THEN [page |-> "item", item |-> i]
                                        ELSE [page |-> "gate", item |-> NoItem]
  BY <1>1, Known, SyndicatedAnswers
<1>5. e \in Entry /\ e.item = i /\ e.summary = Visible(Anonymous, i)
  BY <1>1, <1>2, <1>3 DEF Entry
<1> QED
  BY <1>2, <1>4, <1>5 DEF Found

LEMMA FeedsStarts == FeedsInit => FeedsInv
  BY FeedsAssumption DEF FeedsInit, FeedsInv, NoCopy

LEMMA WatchKeeps == ASSUME FeedsInv, Watch PROVE FeedsInv'
<1>1. missed' \in [Entry -> 0..CacheLife]
  BY FeedsAssumption DEF Watch, FeedsInv
<1>2. \A e \in Entry : missed'[e] <= missed[e] /\ (Found(e)' => missed'[e] = 0)
  BY FeedsAssumption DEF Watch, FeedsInv
<1>3. \A e \in copy.entries : missed'[e] <= copy.age
  <2> TAKE e \in copy.entries
  <2>1. e \in Entry /\ missed[e] <= copy.age
    BY DEF FeedsInv
  <2>2. missed'[e] <= missed[e] /\ missed[e] \in Nat /\ missed'[e] \in Nat /\ copy.age \in Nat
    BY <1>1, <1>2, <2>1, FeedsAssumption DEF FeedsInv
  <2> QED
    BY <2>1, <2>2
<1> QED
  BY <1>1, <1>2, <1>3 DEF Watch, FeedsInv

LEMMA FoundStays ==
  ASSUME UNCHANGED <<ladder, works>>, NEW e \in Entry
  PROVE  Found(e)' = Found(e)
<1>1. item' = item /\ setting' = setting /\ tier' = tier
  BY DEF ladder, works
<1>2. Present' = Present /\ Permalink(e.item)' = Permalink(e.item)
  BY <1>1 DEF Present, Permalink, PathOf, HasAddress, IsChild, Enabled
<1>3. Ranks' = Ranks
  BY <1>1 DEF Ranks, Ladder, LadderOf
<1>4. \A gate : CanRead(Ranks, Anonymous, gate)' = CanRead(Ranks, Anonymous, gate)
  BY <1>1, <1>3 DEF CanRead, Reaches, Ladder, LadderOf
<1>5. \A t : SectionReadable(Anonymous, t)' = SectionReadable(Anonymous, t)
  BY <1>1, <1>4 DEF SectionReadable, SectionGate
<1>6. \A i : Visible(Anonymous, i)' = Visible(Anonymous, i)
  BY <1>1, <1>4, <1>5 DEF Visible
<1>7. \A t : GateOf(t)' = GateOf(t)
  BY <1>1 DEF GateOf, Teases
<1>8. \A i : Shown(Anonymous, i)' = Shown(Anonymous, i)
  BY <1>1, <1>6, <1>7 DEF Shown
<1>9. \A p, types, slug : PublishedAt(p, types, slug)' = PublishedAt(p, types, slug)
  BY <1>1 DEF PublishedAt, Published, Present
<1>10. \A segment : TypesAt(segment)' = TypesAt(segment)
  BY <1>1 DEF TypesAt, FeedTypes, Enabled
<1>11. \A p, types, slug : ChildAnswer(Anonymous, p, types, slug)' = ChildAnswer(Anonymous, p, types, slug)
  BY <1>1, <1>6, <1>7, <1>8, <1>9 DEF ChildAnswer
<1>12. \A t : ArchiveAnswer(Anonymous, t)' = ArchiveAnswer(Anonymous, t)
  BY <1>5, <1>7 DEF ArchiveAnswer
<1>13. \A types : FeedAnswer(Anonymous, types)' = FeedAnswer(Anonymous, types)
  BY <1>5 DEF FeedAnswer
<1>14. \A path : Answer(Anonymous, path)' = Answer(Anonymous, path)
  <2> TAKE path
  <2>1. TypesAt(path[1])' = TypesAt(path[1]) /\ TypesAt(path[3])' = TypesAt(path[3])
    BY <1>10
  <2>2. PublishedAt(NoItem, {"page"}, path[1])' = PublishedAt(NoItem, {"page"}, path[1])
    BY <1>9
  <2>3. PublishedAt(NoItem, TypesAt(path[1]), path[2])' = PublishedAt(NoItem, TypesAt(path[1]), path[2])
    BY <1>9, <2>1
  <2> QED
    BY <1>8, <1>11, <1>12, <1>13, <2>1, <2>2, <2>3 DEF Answer, ChildRoutable
<1> QED
  BY <1>1, <1>2, <1>14 DEF Found

LEMMA FetchKeeps == ASSUME SiteInv, FeedsInv, NEW v \in Visitors, Fetch(v) PROVE FeedsInv'
<1>1. \A e \in Entries(v) : e \in Entry /\ missed[e] = 0
  BY EntriesFound DEF Fetch, FeedsInv
<1>2. \A e \in Entry : Found(e)' = Found(e)
  BY FoundStays DEF Fetch
<1> QED
  BY <1>1, <1>2, FeedsAssumption DEF Fetch, FeedsInv

LEMMA PassKeeps == ASSUME FeedsInv, Pass PROVE FeedsInv'
<1>1. \A e \in Entry : Found(e)' = Found(e)
  BY FoundStays DEF Pass
<1>2. missed' \in [Entry -> 0..CacheLife]
  BY FeedsAssumption DEF Pass, FeedsInv
<1>3. \A e \in Entry : missed'[e] <= missed[e] + 1 /\ (Found(e) => missed'[e] = 0)
  BY FeedsAssumption DEF Pass, FeedsInv
<1>4. CASE copy.kept /\ copy.age + 1 < CacheLife
  <2>1. copy'.age = copy.age + 1 /\ copy'.entries = copy.entries
    BY <1>4 DEF Pass
  <2> QED
    BY <1>1, <1>2, <1>3, <1>4, <2>1, FeedsAssumption DEF FeedsInv
<1>5. CASE ~(copy.kept /\ copy.age + 1 < CacheLife)
  <2>1. copy' = NoCopy
    BY <1>5 DEF Pass
  <2> QED
    BY <1>1, <1>2, <1>3, <2>1, FeedsAssumption DEF FeedsInv, NoCopy
<1> QED
  BY <1>4, <1>5

\* What a shared cache hands to anybody, an anonymous visitor could have found at
\* its address less than CACHE_MAX_AGE ago, whoever's request filled the cache
\* and whatever is closed, gated or deleted while it keeps its copy (_xml).
THEOREM WhatIsCachedWasOpen == FeedsSpec => []CachedWasOpen
<1>1. TiersInit /\ ContentInit /\ FeedsInit => SiteInv /\ FeedsInv
  BY LadderStarts, ContentStarts, FeedsStarts DEF SiteInv
<1>2. SiteInv /\ FeedsInv /\ [ \/ TiersNext /\ UNCHANGED works /\ Watch
                               \/ ContentNext /\ UNCHANGED ladder /\ Watch
                               \/ Syndicating ]_<<ladder, works, syndication>> => (SiteInv /\ FeedsInv)'
  <2> SUFFICES ASSUME SiteInv, FeedsInv,
                      [ \/ TiersNext /\ UNCHANGED works /\ Watch
                        \/ ContentNext /\ UNCHANGED ladder /\ Watch
                        \/ Syndicating ]_<<ladder, works, syndication>>
               PROVE  (SiteInv /\ FeedsInv)'
    OBVIOUS
  <2>1. CASE TiersNext /\ UNCHANGED works /\ Watch
    BY <2>1, SiteStep, WatchKeeps
  <2>2. CASE ContentNext /\ UNCHANGED ladder /\ Watch
    BY <2>2, SiteStep, WatchKeeps
  <2>3. CASE Pass
    BY <2>3, SiteStep, PassKeeps DEF Pass
  <2>4. ASSUME NEW v \in Visitors, Fetch(v)
        PROVE  (SiteInv /\ FeedsInv)'
    BY <2>4, SiteStep, FetchKeeps DEF Fetch
  <2>5. CASE UNCHANGED <<ladder, works, syndication>>
    <3>1. \A e \in Entry : Found(e)' = Found(e)
      BY <2>5, FoundStays
    <3> QED
      BY <2>5, <3>1, SiteStep DEF FeedsInv, syndication
  <2> QED
    BY <2>1, <2>2, <2>3, <2>4, <2>5 DEF Syndicating
<1>3. FeedsInv => CachedWasOpen
  BY FeedsAssumption DEF FeedsInv, CachedWasOpen
<1> QED
  BY <1>1, <1>2, <1>3, PTL DEF FeedsSpec

-----------------------------------------------------------------------------
(* Discussions *)

There == {p \in Threads : post[p].there}

\* Of two posts one moved after the other.
Ordered(after, posts) ==
  /\ after \subseteq posts \X posts
  /\ \A p, q \in posts : p # q => <<p, q>> \in after \/ <<q, p>> \in after
  /\ \A p, q \in posts : <<p, q>> \in after => <<q, p>> \notin after
  /\ \A p, q, s \in posts : <<p, q>> \in after /\ <<q, s>> \in after => <<p, s>> \in after

\* A post is in a group there is, and of two posts one moved after the other.
ForumInv ==
  /\ group \in [Groups -> [there : BOOLEAN, gate : {"public", "members"} \union Tiers, position : Nat]]
  /\ post \in [Threads -> [there : BOOLEAN, group : Groups \union {NoGroup}, hidden : BOOLEAN, pinned : BOOLEAN]]
  /\ \A p \in There : post[p].group \in Standing
  /\ Ordered(activity, There)

\* The newest of some posts are as many as asked for, or all of them.
LEMMA NewestFull ==
  ASSUME ForumInv, NEW posts \in SUBSET There, NEW n \in Nat, Cardinality(Newest(n, posts)) < n
  PROVE  Newest(n, posts) = posts
<1> DEFINE Later(p) == {q \in posts : <<q, p>> \in activity}
           f == [p \in posts |-> 1 + Cardinality(Later(p))]
<1>1. IsFiniteSet(posts) /\ Cardinality(posts) \in Nat
  BY ForumAssumption, FS_Subset, FS_CardinalityType DEF There
<1>2. ASSUME NEW p \in posts
      PROVE  IsFiniteSet(Later(p)) /\ Cardinality(Later(p)) \in 0..(Cardinality(posts) - 1)
  <2>1. Later(p) \in SUBSET (posts \ {p})
    BY DEF ForumInv, Ordered
  <2>2. IsFiniteSet(posts \ {p}) /\ Cardinality(posts \ {p}) = Cardinality(posts) - 1
    BY <1>1, FS_RemoveElement
  <2>3. IsFiniteSet(Later(p)) /\ Cardinality(Later(p)) <= Cardinality(posts) - 1
    <3> HIDE DEF Later
    <3> QED
      BY <2>1, <2>2, FS_Subset
  <2> QED
    BY <1>1, <2>3, FS_CardinalityType
<1>3. f \in [posts -> 1..Cardinality(posts)]
  <2> HIDE DEF Later
  <2> QED
    BY <1>1, <1>2
<1>4. ASSUME NEW p \in posts, NEW q \in posts, <<p, q>> \in activity
      PROVE  f[p] < f[q]
  <2>1. Later(p) \in SUBSET Later(q) /\ p \in Later(q) /\ p \notin Later(p)
    BY <1>4 DEF ForumInv, Ordered
  <2>2. Cardinality(Later(p)) <= Cardinality(Later(q)) /\ Cardinality(Later(p)) # Cardinality(Later(q))
    <3>1. Later(p) # Later(q)
      BY <2>1
    <3> HIDE DEF Later
    <3> QED
      BY <2>1, <3>1, <1>2, FS_Subset
  <2> HIDE DEF Later
  <2> QED
    BY <2>2, <1>2
<1>5. \A p, q \in posts : f[p] = f[q] => p = q
  <2>1. \A p, q \in posts : p # q => <<p, q>> \in activity \/ <<q, p>> \in activity
    BY DEF ForumInv, Ordered
  <2> HIDE DEF f
  <2>2. \A p \in posts : f[p] \in Int
    BY <1>3
  <2>3. \A p, q \in posts : <<p, q>> \in activity => f[p] < f[q]
    BY <1>4
  <2>4. ASSUME NEW p \in posts, NEW q \in posts, p # q
        PROVE  f[p] # f[q]
    <3>1. CASE <<p, q>> \in activity
      BY <2>2, <2>3, <3>1
    <3>2. CASE <<q, p>> \in activity
      BY <2>2, <2>3, <3>2
    <3> QED
      BY <2>1, <2>4, <3>1, <3>2
  <2> QED
    BY <2>4
<1>6. Newest(n, posts) = {p \in posts : f[p] < n + 1}
  <2>1. Newest(n, posts) = {p \in posts : Cardinality(Later(p)) < n}
    BY DEF Newest
  <2> HIDE DEF Later
  <2> QED
    BY <1>2, <2>1
<1> HIDE DEF f
<1>7. SUFFICES ASSUME NEW s \in posts, f[s] >= n + 1
               PROVE  FALSE
  BY <1>3, <1>6
<1>8. f \in Surjection(posts, 1..Cardinality(posts))
  <2>1. IsFiniteSet(1..Cardinality(posts)) /\ Cardinality(1..Cardinality(posts)) = Cardinality(posts)
    BY <1>1, FS_Interval
  <2>2. f \in Injection(posts, 1..Cardinality(posts))
    BY <1>3, <1>5 DEF Injection, IsInjective
  <2> QED
    BY <2>1, <2>2, FS_Injection
<1>9. f[s] \in 1..Cardinality(posts)
  BY <1>3
<1>10. PICK t \in posts : f[t] = n + 1
  <2>1. n + 1 \in 1..Cardinality(posts)
    BY <1>1, <1>7, <1>9
  <2> QED
    BY <1>8, <2>1 DEF Surjection
<1>11. Newest(n, posts) = {p \in posts : f[p] < f[t]}
  BY <1>6, <1>10
<1>12. Cardinality({p \in posts : f[p] < f[t]}) = f[t] - 1
  BY <1>1, <1>3, <1>5, Numbered
<1> QED
  BY <1>10, <1>11, <1>12

\* Every list of posts shows what opens, in any state of the groups.
LEMMA ListsOpen ==
  ASSUME ForumInv
  PROVE  PostsOpen
<1> SUFFICES ASSUME NEW v \in Visitors
             PROVE  LET open == {p \in Threads : Opens(v, p)}
                    IN /\ Directory(v) \union Rail(v) \union LatestForSite(v) \union Home(v) \subseteq open
                       /\ \A g \in Standing : GroupPage(v, g) \subseteq open
                       /\ {p \in Profile(v) : post[p].group \in ReadableIds(v)} \subseteq open
                       /\ Cardinality(Rail(v)) < RailSize =>
                            {p \in open : post[p].pinned /\ ~post[p].hidden} \subseteq Rail(v)
  BY DEF PostsOpen
<1> DEFINE open == {p \in Threads : Opens(v, p)}
           pinned == Unhidden({p \in In(ReadableIds(v)) : post[p].pinned})
<1>1. Unhidden(In(ReadableIds(v))) \subseteq open /\ ForModerator(v, In(ReadableIds(v))) \subseteq open
  BY DEF Unhidden, In, ReadableIds, ForModerator, Opens
<1>2. Directory(v) \subseteq open /\ Home(v) \subseteq open
  BY <1>1 DEF Directory, Home
<1>3. LatestForSite(v) \subseteq open /\ Rail(v) \subseteq open
  BY <1>1 DEF LatestForSite, Rail, Newest, Unhidden
<1>4. \A g \in Standing : GroupPage(v, g) \subseteq open
  BY DEF GroupPage, ForModerator, Unhidden, In, Opens
<1>8. {p \in Profile(v) : post[p].group \in ReadableIds(v)} \subseteq open
  BY DEF Profile, ForModerator, Unhidden, In, ReadableIds, Opens
<1>5. {p \in open : post[p].pinned /\ ~post[p].hidden} \subseteq pinned
  BY DEF Opens, Unhidden, In, ReadableIds, ForumInv, There
<1>6. pinned \in SUBSET There
  BY DEF Unhidden, In, There
<1>7. Cardinality(Rail(v)) < RailSize => Rail(v) = pinned
  <2> HIDE DEF pinned
  <2>1. Rail(v) = Newest(RailSize, pinned)
    BY DEF Rail, pinned
  <2> QED
    BY <1>6, <2>1, NewestFull, ForumAssumption
<1> QED
  BY <1>2, <1>3, <1>4, <1>5, <1>7, <1>8

LEMMA OrderLeft ==
  ASSUME Ordered(activity, There), NEW S
  PROVE  Ordered(Among(S), There \cap S)
<1>1. Among(S) \subseteq activity /\ activity \subseteq There \X There
  BY DEF Among, Ordered
<1>2. \A p, q \in There : <<p, q>> \in Among(S) <=> <<p, q>> \in activity /\ p \in S /\ q \in S
  BY DEF Among
<1>3. Among(S) \subseteq (There \cap S) \X (There \cap S)
  BY <1>1, <1>2
<1> QED
  BY <1>2, <1>3 DEF Ordered

LEMMA OrderMoved ==
  ASSUME Ordered(activity, There), NEW p
  PROVE  Ordered(MovedLast(p), There \union {p})
<1> DEFINE others == There \ {p}
<1>1. MovedLast(p) = Among(others) \union ({p} \X others)
  BY DEF MovedLast, There
<1>2. Ordered(Among(others), others)
  <2>1. There \cap others = others
    OBVIOUS
  <2> QED
    BY <2>1, OrderLeft
<1>3. \A q, s : <<q, s>> \in MovedLast(p) <=> <<q, s>> \in Among(others) \/ (q = p /\ s \in others)
  BY <1>1
<1>4. \A q, s : <<q, s>> \in Among(others) => q \in others /\ s \in others
  BY <1>2 DEF Ordered
<1>5. MovedLast(p) \subseteq (There \union {p}) \X (There \union {p})
  BY <1>1, <1>2 DEF Ordered
<1>6. ASSUME NEW q \in There \union {p}, NEW s \in There \union {p}
      PROVE  /\ q # s => <<q, s>> \in MovedLast(p) \/ <<s, q>> \in MovedLast(p)
             /\ <<q, s>> \in MovedLast(p) => <<s, q>> \notin MovedLast(p)
  <2> HIDE DEF others
  <2>1. (q \in others \/ q = p) /\ (s \in others \/ s = p) /\ p \notin others
    BY DEF others
  <2> QED
    BY <1>2, <1>3, <1>4, <2>1 DEF Ordered
<1>7. ASSUME NEW q \in There \union {p}, NEW s \in There \union {p}, NEW u \in There \union {p},
             <<q, s>> \in MovedLast(p), <<s, u>> \in MovedLast(p)
      PROVE  <<q, u>> \in MovedLast(p)
  <2> HIDE DEF others
  <2>1. p \notin others
    BY DEF others
  <2> QED
    BY <1>2, <1>3, <1>4, <1>7, <2>1 DEF Ordered
<1> QED
  BY <1>5, <1>6, <1>7 DEF Ordered

LEMMA ForumStep ==
  ASSUME ForumInv, Grouping(Gates) \/ Posting
  PROVE  ForumInv'
<1>0. /\ IsFiniteSet(Standing) /\ Cardinality(Standing) \in Nat /\ Standing \subseteq Groups
      /\ Gates \subseteq {"public", "members"} \union Tiers
      /\ There \subseteq Threads /\ Ordered(activity, There)
  BY ForumAssumption, FS_Subset, FS_CardinalityType DEF Standing, Gates, Ladder, LadderOf, There, ForumInv
<1>1. ASSUME UNCHANGED <<post, activity>>, Standing \subseteq Standing',
             group' \in [Groups -> [there : BOOLEAN, gate : {"public", "members"} \union Tiers, position : Nat]]
      PROVE  ForumInv'
  BY <1>1 DEF ForumInv, There
<1>2. ASSUME UNCHANGED group, There' = There, UNCHANGED activity,
             post' \in [Threads -> [there : BOOLEAN, group : Groups \union {NoGroup}, hidden : BOOLEAN, pinned : BOOLEAN]],
             \A p \in There : post'[p].group = post[p].group
      PROVE  ForumInv'
  BY <1>2 DEF ForumInv, Standing
<1>3. ASSUME NEW g \in Groups, NEW gate \in Gates, AddGroup(g, gate)
      PROVE  ForumInv'
  <2>1. Cardinality(Standing) + 1 \in Nat /\ gate \in {"public", "members"} \union Tiers
    BY <1>0
  <2>2. group' = [group EXCEPT ![g] = [there |-> TRUE, gate |-> gate, position |-> Cardinality(Standing) + 1]]
    BY <1>3 DEF AddGroup
  <2>3. group' \in [Groups -> [there : BOOLEAN, gate : {"public", "members"} \union Tiers, position : Nat]]
    BY <2>1, <2>2 DEF ForumInv
  <2>4. Standing \subseteq Standing'
    BY <2>2 DEF Standing, ForumInv
  <2> QED
    BY <1>1, <1>3, <2>3, <2>4 DEF AddGroup
<1>4. ASSUME NEW g \in Groups, NEW gate \in Gates, SetGate(g, gate)
      PROVE  ForumInv'
  <2>1. group' = [group EXCEPT ![g].gate = gate] /\ gate \in {"public", "members"} \union Tiers
    BY <1>0, <1>4 DEF SetGate
  <2>2. group' \in [Groups -> [there : BOOLEAN, gate : {"public", "members"} \union Tiers, position : Nat]]
    BY <2>1 DEF ForumInv
  <2>3. Standing \subseteq Standing'
    BY <2>1 DEF Standing, ForumInv
  <2> QED
    BY <1>1, <1>4, <2>2, <2>3 DEF SetGate
<1>5. ASSUME UNCHANGED <<group, post, activity>>
      PROVE  ForumInv'
  BY <1>5 DEF ForumInv, There, Standing
<1>6. ASSUME NEW g \in Groups, NEW step \in {-1, 1}, MoveGroup(g, step)
      PROVE  ForumInv'
  <2>1. \A h \in Groups : Place(h) \in Nat
    <3> TAKE h \in Groups
    <3>1. {k \in Standing : Above(k, h)} \in SUBSET Standing
      OBVIOUS
    <3> QED
      BY <1>0, <3>1, FS_Subset, FS_CardinalityType DEF Place
  <2>2. \A h \in Groups : \/ group'[h] = group[h]
                          \/ \E n \in Nat : group'[h] = [group[h] EXCEPT !.position = n]
    <3> TAKE h \in Groups
    <3>1. Place(g) + step \in 1..Cardinality(Standing) => Place(g) + step \in Nat
      BY <1>0
    <3> QED
      BY <1>6, <2>1, <3>1 DEF MoveGroup
  <2>3. \A h \in Groups : /\ group'[h] \in [there : BOOLEAN, gate : {"public", "members"} \union Tiers, position : Nat]
                          /\ group'[h].there = group[h].there
    BY <2>2 DEF ForumInv
  <2>4. group' \in [Groups -> [there : BOOLEAN, gate : {"public", "members"} \union Tiers, position : Nat]]
    BY <1>6, <2>3 DEF MoveGroup
  <2>5. Standing \subseteq Standing'
    BY <2>3 DEF Standing
  <2> QED
    BY <1>1, <1>6, <2>4, <2>5 DEF MoveGroup
<1>7. ASSUME NEW g \in Groups, DeleteGroup(g)
      PROVE  ForumInv'
  <2>1. group' = [group EXCEPT ![g] = NoSuchGroup] /\ activity' = Among({p \in Threads : post[p].group # g})
    BY <1>7 DEF DeleteGroup
  <2>2. group' \in [Groups -> [there : BOOLEAN, gate : {"public", "members"} \union Tiers, position : Nat]]
    BY <2>1 DEF ForumInv, NoSuchGroup
  <2>3. post' \in [Threads -> [there : BOOLEAN, group : Groups \union {NoGroup}, hidden : BOOLEAN, pinned : BOOLEAN]]
    BY <1>7 DEF DeleteGroup, ForumInv, NoPost
  <2>4. \A p \in Threads : post'[p] = IF post[p].group = g THEN NoPost ELSE post[p]
    BY <1>7 DEF DeleteGroup
  <2>5. There' = There \cap {p \in Threads : post[p].group # g}
    BY <2>4 DEF There, NoPost
  <2>6. Ordered(activity', There')
    BY <1>0, <2>1, <2>5, OrderLeft
  <2>7. Standing \ {g} \subseteq Standing'
    BY <2>1 DEF Standing, ForumInv
  <2>8. \A p \in There' : post'[p].group \in Standing'
    BY <2>4, <2>5, <2>7 DEF ForumInv
  <2> QED
    BY <2>2, <2>3, <2>6, <2>8 DEF ForumInv, Ordered
<1>8. ASSUME NEW p \in Threads, NEW g \in Groups, Write(p, g)
      PROVE  ForumInv'
  <2>1. /\ g \in Standing /\ activity' = MovedLast(p) /\ group' = group
        /\ post' = [post EXCEPT ![p] = [NoPost EXCEPT !.there = TRUE, !.group = g]]
    BY <1>8 DEF Write
  <2>2. /\ post' \in [Threads -> [there : BOOLEAN, group : Groups \union {NoGroup}, hidden : BOOLEAN, pinned : BOOLEAN]]
        /\ post'[p].there /\ post'[p].group = g /\ \A q \in Threads : q # p => post'[q] = post[q]
    BY <2>1 DEF ForumInv, NoPost
  <2>3. There' = There \union {p}
    BY <2>2 DEF There
  <2>4. Ordered(activity', There')
    BY <1>0, <2>1, <2>3, OrderMoved
  <2>5. \A q \in There' : post'[q].group \in Standing'
    BY <1>0, <2>1, <2>2, <2>3 DEF ForumInv, Standing
  <2> QED
    BY <2>1, <2>2, <2>4, <2>5 DEF ForumInv, Ordered
<1>9. ASSUME NEW p \in Threads, Touch(p)
      PROVE  ForumInv'
  <2>1. p \in There /\ activity' = MovedLast(p) /\ UNCHANGED <<group, post>>
    BY <1>9 DEF Touch, There
  <2>2. There' = There /\ There = There \union {p}
    BY <2>1 DEF There
  <2>3. Ordered(activity', There')
    BY <1>0, <2>1, <2>2, OrderMoved
  <2> QED
    BY <2>1, <2>2, <2>3 DEF ForumInv, Ordered, Standing
<1>10. ASSUME NEW p \in Threads, Pin(p) \/ Hide(p)
       PROVE  ForumInv'
  <2>1. /\ post' \in [Threads -> [there : BOOLEAN, group : Groups \union {NoGroup}, hidden : BOOLEAN, pinned : BOOLEAN]]
        /\ \A q \in Threads : post'[q].there = post[q].there /\ post'[q].group = post[q].group
    <3>1. /\ (~post[p].pinned) \in BOOLEAN /\ (~post[p].hidden) \in BOOLEAN
          /\ post \in [Threads -> [there : BOOLEAN, group : Groups \union {NoGroup}, hidden : BOOLEAN, pinned : BOOLEAN]]
      BY DEF ForumInv
    <3>2. CASE Pin(p)
      BY <3>1, <3>2 DEF Pin
    <3>3. CASE Hide(p)
      BY <3>1, <3>3 DEF Hide
    <3> QED
      BY <1>10, <3>2, <3>3
  <2>2. There' = There
    BY <2>1 DEF There
  <2> QED
    BY <1>0, <1>2, <1>10, <2>1, <2>2 DEF Pin, Hide
<1>11. ASSUME NEW p \in Threads, DeletePost(p)
       PROVE  ForumInv'
  <2>1. post' = [post EXCEPT ![p] = NoPost] /\ activity' = Among(Threads \ {p}) /\ group' = group
    BY <1>11 DEF DeletePost
  <2>2. /\ post' \in [Threads -> [there : BOOLEAN, group : Groups \union {NoGroup}, hidden : BOOLEAN, pinned : BOOLEAN]]
        /\ ~post'[p].there /\ \A q \in Threads : q # p => post'[q] = post[q]
    BY <2>1 DEF ForumInv, NoPost
  <2>3. There' = There \cap (Threads \ {p})
    BY <2>2 DEF There
  <2>4. Ordered(activity', There')
    BY <1>0, <2>1, <2>3, OrderLeft
  <2>5. \A q \in There' : post'[q].group \in Standing'
    BY <2>1, <2>2, <2>3 DEF ForumInv, Standing
  <2> QED
    BY <2>1, <2>2, <2>4, <2>5 DEF ForumInv, Ordered
<1>12. CASE Grouping(Gates)
  BY <1>3, <1>4, <1>5, <1>6, <1>7, <1>12 DEF Grouping, SetArea, Choose
<1>13. CASE Posting
  <2>1. PICK p \in Threads : \/ DiscussThis(p) \/ Touch(p) \/ Pin(p) \/ Hide(p) \/ DeletePost(p)
                             \/ \E g \in Groups : NewPost(p, g)
    BY <1>13 DEF Posting
  <2>2. CASE DiscussThis(p)
    <3>1. PICK g \in ThreadGroups : Write(p, g)
      BY <2>2 DEF DiscussThis
    <3>2. g \in Groups
      BY <1>0, <3>1 DEF Write
    <3> QED
      BY <1>8, <3>1, <3>2
  <2>3. CASE \E g \in Groups : NewPost(p, g)
    BY <1>8, <2>3 DEF NewPost
  <2> QED
    BY <1>9, <1>10, <1>11, <2>1, <2>2, <2>3
<1> QED
  BY <1>12, <1>13

\* Whatever post the directory, a group, the rail, the site or the home shows a
\* visitor opens for him, what a profile shows where he may read the group, and
\* the rail is short only when it has all it may show (readable_ids,
\* pinned_for_rail, recent_by_author, _post_or_404).
THEOREM WhatIsShownOpens == ForumSpec => []PostsOpen
<1>1. ForumInit => ForumInv
  <2> SUFFICES ASSUME ForumInit
               PROVE  ForumInv
    OBVIOUS
  <2>1. There = {}
    BY DEF ForumInit, There, NoPost
  <2>2. group \in [Groups -> [there : BOOLEAN, gate : {"public", "members"} \union Tiers, position : Nat]]
    BY DEF ForumInit, NoSuchGroup
  <2>3. post \in [Threads -> [there : BOOLEAN, group : Groups \union {NoGroup}, hidden : BOOLEAN, pinned : BOOLEAN]]
    BY DEF ForumInit, NoPost
  <2> QED
    BY <2>1, <2>2, <2>3 DEF ForumInit, ForumInv, Ordered
<1>2. ForumInv /\ UNCHANGED forum => ForumInv'
  BY DEF forum, ForumInv, There, Standing
<1>3. ForumInv /\ (Grouping(Gates) \/ Posting) => ForumInv'
  BY ForumStep
<1>4. ForumSpec => []ForumInv
  <2>1. ForumInv /\ [ \/ TiersNext /\ UNCHANGED forum
                      \/ (Grouping(Gates) \/ Posting) /\ UNCHANGED ladder ]_<<ladder, forum>> => ForumInv'
    BY <1>2, <1>3
  <2> QED
    BY <1>1, <2>1, PTL DEF ForumSpec
<1>5. ForumInv => PostsOpen
  BY ListsOpen
<1> QED
  BY <1>4, <1>5, PTL

=============================================================================
