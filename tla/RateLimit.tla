----------------------------- MODULE RateLimit ------------------------------
(***************************************************************************)
(* The counters one worker process keeps of attempts (middleware/          *)
(* ratelimit.py, and its use by auth.login): fixed windows, one dictionary *)
(* for all routes and accounts, swept when it is large.  A worker serves   *)
(* one request at a time; others count by themselves.                      *)
(***************************************************************************)
EXTENDS Integers, FiniteSets

CONSTANTS
  Callers,      \* keys of rate_limit: a route and an address
  Typed,        \* keys of failures: an address typed into the login form
  Limit,        \* Limit[k]: attempts or failures in one window
  Window,       \* Window[k]: its length
  SweepAt, SweepEvery, MaxEntries,
  MaxNow        \* bound on the clock

Counters == Callers \union Typed

ASSUME RateAssumption ==
  /\ Limit \in [Counters -> Nat \ {0}] /\ Window \in [Counters -> Nat]
  /\ SweepAt \in Nat /\ SweepEvery \in Nat /\ MaxEntries \in Nat /\ MaxNow \in Nat

VARIABLES
  now,
  store,        \* row[k]: the entry of the dictionary for k; <<p, q>> in before: p
                \* stands before q in it; swept: the time of the last sweep
  passed        \* passed[k]: <<t, n>> for the n-th thing k was let do at t, since
                \* it was last forgotten or forgiven (history)

counting == <<now, store, passed>>

NoEntry == [there |-> FALSE, count |-> 0, start |-> 0, window |-> 0]
Nothing == [k \in Counters |-> {}]
Fresh == [row |-> [k \in Counters |-> NoEntry], before |-> {}, swept |-> -1 - SweepEvery]

RateInit == now = 0 /\ store = Fresh /\ passed = Nothing

-----------------------------------------------------------------------------
(* The dictionary *)

Keys(s) == {k \in Counters : s.row[k].there}
Entry(k) == [there |-> TRUE, count |-> 1, start |-> now, window |-> Window[k]]

\* A key that is there keeps its place.
Put(s, k, e) ==
  [s EXCEPT !.row = [@ EXCEPT ![k] = e],
            !.before = @ \union (IF k \in Keys(s) THEN {} ELSE Keys(s) \X {k})]

Without(s, gone) ==
  [s EXCEPT !.row = [k \in Counters |-> IF k \in gone THEN NoEntry ELSE @[k]],
            !.before = {p \in @ : p[1] \notin gone /\ p[2] \notin gone}]

\* Fault: every entry is given the period of the sweep.
ExpiredBySweep(e) == now - e.start >= SweepEvery

Expired(e) == now - e.start > e.window

\* _sweep: expired entries, then the first of what is beyond the cap.
Live(s) == Without(s, {k \in Keys(s) : Expired(s.row[k])})
Surplus(s) ==
  {k \in Keys(s) :
     Cardinality({q \in Keys(s) : <<q, k>> \in s.before}) < Cardinality(Keys(s)) - MaxEntries}

\* _maybe_sweep.
Due(s) == Cardinality(Keys(s)) > SweepAt /\ now - s.swept > SweepEvery
Forgotten(s) == IF Due(s) THEN Surplus(Live(s)) ELSE {}
Swept(s) == IF Due(s) THEN [Without(Live(s), Forgotten(s)) EXCEPT !.swept = now] ELSE s

\* _check_limit: s is the store after _maybe_sweep.
Counts(s, k) == s.row[k].there /\ ~Expired(s.row[k])
Spent(s, k) == Counts(s, k) /\ s.row[k].count >= Limit[k]
Counted(s, k) == Put(s, k, IF Counts(s, k) THEN [s.row[k] EXCEPT !.count = @ + 1] ELSE Entry(k))

\* record_failure counts on when the budget is spent; clear_failures.
Recorded(s, k) == Counted(Swept(s), k)
Cleared(s, k) == Without(s, {k})

-----------------------------------------------------------------------------
(* Requests *)

\* History: k is let do one thing more; some are forgotten, or forgiven.
Let(past, k) == [past EXCEPT ![k] = @ \union {<<now, 1 + Cardinality({p \in @ : p[1] = now})>>}]
Anew(past, gone) == [k \in Counters |-> IF k \in gone THEN {} ELSE past[k]]

\* A route that is limited.
Attempt(k) ==
  LET s == Swept(store)
      past == Anew(passed, Forgotten(store))
  IN /\ IF Spent(s, k) THEN store' = s /\ passed' = past
        ELSE store' = Counted(s, k) /\ passed' = Let(past, k)
     /\ UNCHANGED now

\* login: behind its own limit; the budget is asked first, the password always
\* verified, and only what was not refused for the budget tells anything.
SignIn(k, e, right) ==
  LET s == Swept(store)
      past == Anew(passed, Forgotten(store))
      served == Counted(s, k)
      then == Let(past, k)
      later == Anew(then, Forgotten(served))
      spent == Spent(served, e)
  IN /\ IF Spent(s, k) THEN store' = s /\ passed' = past
        ELSE IF ~right
        THEN /\ store' = Recorded(served, e)
             /\ passed' = IF spent THEN later ELSE Let(later, e)
        ELSE IF spent THEN store' = served /\ passed' = then
        ELSE store' = Cleared(served, e) /\ passed' = Anew(then, {e})
     /\ UNCHANGED now

Tick == now < MaxNow /\ now' = now + 1 /\ UNCHANGED <<store, passed>>

\* The worker is replaced; it forgets everything.
Replace == store' = Fresh /\ passed' = Nothing /\ UNCHANGED now

RateNext ==
  \/ \E k \in Callers : Attempt(k) \/ \E e \in Typed, right \in BOOLEAN : SignIn(k, e, right)
  \/ Tick \/ Replace

RateSpec == RateInit /\ [][RateNext]_counting

-----------------------------------------------------------------------------
(* Properties *)

\* Nobody is let do more than twice his limit in the length of one window, and
\* no account is guessed at more than that, wherever windows, sweeps and the
\* counters of others fall: unless he is forgotten (at the cap, by a restart)
\* or signs in.
BurstBounded ==
  \A k \in Counters : \A t \in 0..now :
    Cardinality({p \in passed[k] : p[1] \in t..(t + Window[k])}) <= 2 * Limit[k]
=============================================================================
