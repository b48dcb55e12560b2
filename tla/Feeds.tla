-------------------------------- MODULE Feeds --------------------------------
(***************************************************************************)
(* The feed of an organization in a cache it shares with strangers         *)
(* (controllers/feeds.py).  A copy outlives the state it was built in: the *)
(* ladder, the items and the settings change while it is handed out.  The  *)
(* cache is external; what may enter it, and for how long, is _xml's.      *)
(***************************************************************************)
EXTENDS Site

CONSTANT CacheLife    \* CACHE_MAX_AGE, in the ticks of Pass

ASSUME FeedsAssumption == CacheLife \in Nat \ {0}

VARIABLES
  copy,         \* the copy a shared cache hands to everybody who asks
  missed        \* history: missed[e]: for how long an anonymous visitor has not
                \* found entry e at its address, up to CacheLife

syndication == <<copy, missed>>

NoCopy == [kept |-> FALSE, age |-> 0, entries |-> {}]

Entry == [item : Items, summary : BOOLEAN]

\* What an entry tells is what its address answers: the item where there is a
\* summary, the gate where there is a title only.
Found(e) ==
  /\ e.item \in Present
  /\ Answer(Anonymous, Permalink(e.item)) =
       IF e.summary THEN [page |-> "item", item |-> e.item] ELSE [page |-> "gate", item |-> NoItem]

FeedsInit ==
  /\ copy = NoCopy
  /\ missed = [e \in Entry |-> IF Found(e) THEN 0 ELSE CacheLife]

\* Fault: who is no member gets the answer to be cached.
CachedForStrangers(v) == v.role = "none"

\* _xml: who is inside gets a private answer, everybody else one to be cached.
CachedForAll(v) == ~Inside(v)

\* site_rss, where the cache has no copy: the answer built for v is kept.
Fetch(v) ==
  /\ ~copy.kept
  /\ CachedForAll(v)
  /\ copy' = [kept |-> TRUE, age |-> 0, entries |-> Entries(v)]
  /\ UNCHANGED <<ladder, works, missed>>

\* Time passes, and a copy that is too old is dropped.
Pass ==
  /\ copy' = IF copy.kept /\ copy.age + 1 < CacheLife THEN [copy EXCEPT !.age = @ + 1] ELSE NoCopy
  /\ missed' = [e \in Entry |-> IF Found(e) THEN 0
                                ELSE IF missed[e] < CacheLife THEN missed[e] + 1 ELSE CacheLife]
  /\ UNCHANGED <<ladder, works>>

\* Beside a step of somebody else: the history is brought up to date.
Watch ==
  /\ missed' = [e \in Entry |-> IF Found(e)' THEN 0 ELSE missed[e]]
  /\ UNCHANGED copy

Syndicating == Pass \/ \E v \in Visitors : Fetch(v)

FeedsSpec ==
  /\ TiersInit /\ ContentInit /\ FeedsInit
  /\ [][ \/ TiersNext /\ UNCHANGED works /\ Watch
         \/ ContentNext /\ UNCHANGED ladder /\ Watch
         \/ Syndicating ]_<<ladder, works, syndication>>

-----------------------------------------------------------------------------
(* Properties *)

\* A shared cache hands nobody an entry that any visitor could not have found at
\* its address less than CACHE_MAX_AGE ago: whoever's request filled it, signed
\* in or not, and whatever is closed, gated or deleted while it is kept.
CachedWasOpen == \A e \in copy.entries : missed[e] < CacheLife
=============================================================================
