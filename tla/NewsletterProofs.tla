-------------------------- MODULE NewsletterProofs --------------------------
(* Theorems about Newsletter, for any number of workers, jobs, deliveries and  *)
(* subscribers: nobody is counted as sent or done who was not, and every       *)
(* message too many was paid for by a fault.                                   *)
EXTENDS Newsletter, FiniteSetTheorems, TLAPS

Places == {"idle", "read", "begin", "select", "first", "loop", "post", "mark", "rest", "return"}

Typed ==
  /\ phase \in [JobIds -> {"none", "pending", "running", "done", "failed"}]
  /\ holder \in [JobIds -> Workers \union {NoWorker}]
  /\ about \in [JobIds -> Deliveries \union {NoDelivery}]
  /\ delivery \in [Deliveries -> {"none", "pending", "sending", "done", "failed", "deleted"}]
  /\ rows \in [Deliveries -> SUBSET Subs]
  /\ sent \in [Deliveries -> SUBSET Subs]
  /\ failed \in [Deliveries -> SUBSET Subs]
  /\ snapshot \in [Deliveries -> SUBSET Subs]
  /\ web \in [Deliveries -> {"idle", "created", "filled", "ended"}]
  /\ step \in [Workers -> Places]
  /\ batch \in [Workers -> SUBSET Subs]
  /\ hand \in [Workers -> Subs \union {Nobody}]
  /\ mails \in [Deliveries -> [Subs -> Nat]]
  /\ faults \in Nat

\* A worker in the handler holds one job, which runs and has a delivery whose
\* request is over; a worker at rest holds none.
Held ==
  /\ \A j \in JobIds : holder[j] # NoWorker => phase[j] = "running" /\ step[holder[j]] # "idle"
  /\ \A j \in JobIds : phase[j] # "none" => about[j] \in Deliveries /\ web[about[j]] = "ended"
  /\ \A j, k \in JobIds : holder[j] # NoWorker /\ holder[j] = holder[k] => j = k
  /\ \A w \in Workers : step[w] # "idle" => \E j \in JobIds : holder[j] = w

\* A batch is there while it is sent, and whoever is in hand is no longer in it.
InHand ==
  \A w \in Workers :
    /\ step[w] \notin {"first", "loop", "post", "mark"} => batch[w] = {}
    /\ step[w] \in {"post", "mark"} => hand[w] \in Subs \ batch[w]

Base == Typed /\ Held /\ InHand

LEMMA InitBase == Init => Base
  BY NewsletterAssumption DEF Init, LeaseInit, Base, Typed, Held, InHand, Places

\* What a worker in the handler is running.
LEMMA WhatRuns ==
  ASSUME Base, NEW w \in Workers, step[w] # "idle"
  PROVE  \E j \in JobIds :
           /\ holder[j] = w /\ Running(w) = j /\ Current(w) = about[j]
           /\ phase[j] = "running" /\ about[j] \in Deliveries /\ web[about[j]] = "ended"
<1>1. PICK j \in JobIds : holder[j] = w
  BY DEF Base, Held
<1>2. Running(w) \in JobIds /\ holder[Running(w)] = w
  BY <1>1 DEF Running
<1>3. w # NoWorker
  BY NewsletterAssumption DEF NewsletterAssumption
<1>4. Running(w) = j
  BY <1>1, <1>2, <1>3 DEF Base, Held
<1> QED
  BY <1>1, <1>3, <1>4 DEF Current, Base, Held

-----------------------------------------------------------------------------
(* Steps by their effect on who holds what *)

\* Worker w moves on within the handler, holding what it held.
Moves(w) ==
  /\ step[w] # "idle" /\ step' = [step EXCEPT ![w] = step'[w]] /\ step'[w] \in Places \ {"idle"}
  /\ batch' = [batch EXCEPT ![w] = batch'[w]] /\ hand' = [hand EXCEPT ![w] = hand'[w]]
  /\ UNCHANGED <<holder, web, snapshot>>

\* Worker w puts its job j down, in phase p.
Drops(w, j, p) ==
  /\ holder[j] = w
  /\ phase' = [phase EXCEPT ![j] = p] /\ holder' = [holder EXCEPT ![j] = NoWorker]
  /\ PutDown(w)
  /\ UNCHANGED <<about, webVars>>

LEMMA VerdictDrops ==
  ASSUME Base, NEW w \in Workers, NEW p \in {"pending", "done", "failed"}, step[w] # "idle",
         Verdict(w, p), UNCHANGED webVars
  PROVE  \E j \in JobIds : Running(w) = j /\ phase[j] = "running" /\ Drops(w, j, p)
<1>1. PICK j \in JobIds : holder[j] = w /\ Running(w) = j /\ phase[j] = "running"
  BY WhatRuns
<1>2. PICK q \in {"done", "failed", "pending"} : phase' = [phase EXCEPT ![j] = q]
  BY <1>1 DEF Verdict, Decide
<1>3. q = p
  BY <1>1, <1>2 DEF Verdict, Base, Typed
<1> QED
  BY <1>1, <1>2, <1>3 DEF Verdict, Decide, Drops

LEMMA RaisesDrops ==
  ASSUME Base, NEW w \in Workers, step[w] # "idle", Raises(w), UNCHANGED webVars
  PROVE  \E j \in JobIds, p \in {"pending", "failed"} : phase[j] = "running" /\ Drops(w, j, p)
<1>1. PICK p \in {"pending", "failed"} : Verdict(w, p)
  BY DEF Raises
<1> QED
  BY <1>1, VerdictDrops

LEMMA DropsBase ==
  ASSUME Base, NEW w \in Workers, NEW j \in JobIds, NEW p \in {"pending", "running", "done", "failed"},
         Drops(w, j, p), phase[j] = "running",
         UNCHANGED <<delivery, rows, sent, failed, mails>>, faults' \in Nat
  PROVE  Base'
<1>1. w # NoWorker
  BY NewsletterAssumption DEF NewsletterAssumption
<1>2. Typed'
  BY DEF Base, Typed, Drops, PutDown, GoTo, webVars, Places
<1>3. Held'
  BY <1>1 DEF Base, Typed, Held, Drops, PutDown, GoTo, webVars
<1>4. InHand'
  BY DEF Base, Typed, InHand, Drops, PutDown, GoTo
<1> QED
  BY <1>2, <1>3, <1>4 DEF Base

LEMMA MovesBase ==
  ASSUME Base, NEW w \in Workers, Moves(w), UNCHANGED <<phase, about, rows>>,
         delivery' \in [Deliveries -> {"none", "pending", "sending", "done", "failed", "deleted"}],
         sent' \in [Deliveries -> SUBSET Subs], failed' \in [Deliveries -> SUBSET Subs],
         mails' \in [Deliveries -> [Subs -> Nat]], faults' = faults,
         batch'[w] \in SUBSET Subs, hand'[w] \in Subs \union {Nobody},
         step'[w] \notin {"first", "loop", "post", "mark"} => batch'[w] = {},
         step'[w] \in {"post", "mark"} => hand'[w] \in Subs \ batch'[w]
  PROVE  Base'
<1>1. Typed'
  <2>1. /\ step' \in [Workers -> Places] /\ batch' \in [Workers -> SUBSET Subs]
        /\ hand' \in [Workers -> Subs \union {Nobody}]
    <3>1. PICK place \in Places, B \in SUBSET Subs, s \in Subs \union {Nobody} :
            /\ step' = [step EXCEPT ![w] = place]
            /\ batch' = [batch EXCEPT ![w] = B] /\ hand' = [hand EXCEPT ![w] = s]
      BY DEF Moves
    <3> QED
      BY <3>1 DEF Base, Typed
  <2> QED
    BY <2>1 DEF Base, Typed, Moves
<1>2. Held'
  BY NewsletterAssumption DEF Base, Typed, Held, Moves, NewsletterAssumption
<1>3. InHand'
  BY DEF Base, Typed, InHand, Moves
<1> QED
  BY <1>1, <1>2, <1>3 DEF Base

\* A job is booked for a delivery whose request is over or ends with it.
LEMMA BooksBase ==
  ASSUME Base, NEW d \in Deliveries, NEW j \in JobIds, Book(j), about' = [about EXCEPT ![j] = d],
         UNCHANGED <<rowVars, snapshot, batch, hand, mails, faults>>,
         web' \in [Deliveries -> {"idle", "created", "filled", "ended"}], web'[d] = "ended",
         \A c \in Deliveries : web[c] = "ended" => web'[c] = "ended",
         \/ UNCHANGED step
         \/ \E w \in Workers : step[w] = "rest" /\ step' = [step EXCEPT ![w] = "return"]
  PROVE  Base'
<1>1. Typed'
  BY DEF Base, Typed, Book, rowVars, Places
<1>2. Held'
  BY DEF Base, Typed, Held, Book
<1>3. InHand'
  BY DEF Base, Typed, InHand
<1> QED
  BY <1>1, <1>2, <1>3 DEF Base

\* The handlers rest: requests, readers and operators.
LEMMA OutsideBase ==
  ASSUME Base, UNCHANGED <<phase, holder, about, step, batch, hand, mails>>, faults' \in Nat,
         delivery' \in [Deliveries -> {"none", "pending", "sending", "done", "failed", "deleted"}],
         rows' \in [Deliveries -> SUBSET Subs], sent' \in [Deliveries -> SUBSET Subs],
         failed' \in [Deliveries -> SUBSET Subs], snapshot' \in [Deliveries -> SUBSET Subs],
         web' \in [Deliveries -> {"idle", "created", "filled", "ended"}],
         \A d \in Deliveries : web[d] = "ended" => web'[d] = "ended"
  PROVE  Base'
  BY DEF Base, Typed, Held, InHand

-----------------------------------------------------------------------------
(* The invariant *)

\* Who is being marked as sent has been mailed.
SentInv ==
  /\ SentWasMailed
  /\ \A j \in JobIds :
       holder[j] # NoWorker /\ step[holder[j]] = "mark" =>
         hand[holder[j]] \in Subs /\ mails[about[j]][hand[holder[j]]] > 0

\* Worker w may yet mail s, sending delivery d: it has s in its batch or in hand,
\* or may select s again; not when it is about to mark s, or to return.
MayMail(w, d, s) ==
  /\ step[w] # "return"
  /\ \/ s \in batch[w]
     \/ step[w] = "post" /\ hand[w] = s
     \/ s \in Unsent(d) /\ ~(step[w] = "mark" /\ hand[w] = s)

\* Job j may yet mail s, with no further fault.
Owes(j, d, s) ==
  /\ about[j] = d
  /\ IF holder[j] # NoWorker THEN MayMail(holder[j], d, s)
     ELSE phase[j] \in {"pending", "running", "failed"} /\ s \in Unsent(d)

Owers(d, s) == {j \in JobIds : Owes(j, d, s)}

Coming(d) == IF web[d] = "ended" THEN 0 ELSE 1

\* The messages that left, the jobs that may send one more and the job that is to
\* be booked: a fault each, but for one.
Paid ==
  \A d \in Deliveries, s \in Subs :
    /\ IsFiniteSet(Owers(d, s))
    /\ mails[d][s] + Cardinality(Owers(d, s)) + Coming(d) <= 1 + faults

Inv == Base /\ DoneOwesNobody /\ SentInv /\ Paid

LEMMA InitInv == Init => Inv
<1> SUFFICES ASSUME Init PROVE Inv
  OBVIOUS
<1>1. Base
  BY InitBase
<1>2. \A d \in Deliveries, s \in Subs : Owers(d, s) = {}
  BY NewsletterAssumption DEF Init, LeaseInit, Owers, Owes
<1>3. \A d \in Deliveries, s \in Subs : mails[d][s] = 0 /\ Coming(d) = 1 /\ faults = 0
  BY DEF Init, Coming
<1>5. \A d \in Deliveries, s \in Subs : IsFiniteSet(Owers(d, s)) /\ Cardinality(Owers(d, s)) = 0
  BY <1>2, FS_EmptySet
<1>6. Paid
  BY <1>3, <1>5 DEF Paid
<1>4. DoneOwesNobody /\ SentInv
  BY DEF Init, LeaseInit, DoneOwesNobody, SentInv, SentWasMailed
<1> QED
  BY <1>1, <1>4, <1>6 DEF Inv

-----------------------------------------------------------------------------
(* Counting *)

LEMMA Fewer ==
  ASSUME NEW A, NEW B, IsFiniteSet(A), B \subseteq A
  PROVE  IsFiniteSet(B) /\ Cardinality(A) \in Nat /\ Cardinality(B) \in Nat /\ Cardinality(B) <= Cardinality(A)
  BY FS_Subset, FS_CardinalityType

LEMMA OneMore ==
  ASSUME NEW A, NEW B, NEW j, IsFiniteSet(A), B \subseteq A \union {j}
  PROVE  IsFiniteSet(B) /\ Cardinality(A) \in Nat /\ Cardinality(B) \in Nat /\ Cardinality(B) <= Cardinality(A) + 1
<1>1. IsFiniteSet(A \union {j}) /\ Cardinality(A) \in Nat /\ Cardinality(A \union {j}) <= Cardinality(A) + 1
  BY FS_AddElement, FS_CardinalityType
<1>2. IsFiniteSet(B) /\ Cardinality(B) \in Nat /\ Cardinality(A \union {j}) \in Nat
      /\ Cardinality(B) <= Cardinality(A \union {j})
  BY <1>1, Fewer
<1> QED
  BY <1>1, <1>2

LEMMA OneLess ==
  ASSUME NEW A, NEW B, NEW j \in A, IsFiniteSet(A), B \subseteq A \ {j}
  PROVE  IsFiniteSet(B) /\ Cardinality(A) \in Nat /\ Cardinality(B) \in Nat /\ Cardinality(B) + 1 <= Cardinality(A)
<1>1. IsFiniteSet(A \ {j}) /\ Cardinality(A) \in Nat /\ Cardinality(A \ {j}) = Cardinality(A) - 1
  BY FS_RemoveElement, FS_CardinalityType
<1>2. IsFiniteSet(B) /\ Cardinality(B) \in Nat /\ Cardinality(A \ {j}) \in Nat
      /\ Cardinality(B) <= Cardinality(A \ {j})
  BY <1>1, Fewer
<1> QED
  BY <1>1, <1>2

LEMMA OneForOne ==
  ASSUME NEW A, NEW B, NEW i \in A, NEW j, IsFiniteSet(A), B \subseteq (A \ {i}) \union {j}
  PROVE  IsFiniteSet(B) /\ Cardinality(A) \in Nat /\ Cardinality(B) \in Nat /\ Cardinality(B) <= Cardinality(A)
<1>1. IsFiniteSet(A \ {i}) /\ Cardinality(A) \in Nat /\ Cardinality(A \ {i}) \in Nat
      /\ Cardinality(A \ {i}) + 1 <= Cardinality(A)
  BY OneLess
<1>2. IsFiniteSet(B) /\ Cardinality(B) \in Nat /\ Cardinality(B) <= Cardinality(A \ {i}) + 1
  BY <1>1, OneMore
<1> QED
  BY <1>1, <1>2

\* No message leaves, and no job may send one that might not before.
LEMMA OwesNoMore ==
  ASSUME Base, Paid, UNCHANGED mails, faults' \in Nat, faults <= faults',
         \A d \in Deliveries : web[d] = "ended" => web'[d] = "ended",
         \A d \in Deliveries, s \in Subs : Owers(d, s)' \subseteq Owers(d, s)
  PROVE  Paid'
<1> SUFFICES ASSUME NEW d \in Deliveries, NEW s \in Subs
             PROVE  IsFiniteSet(Owers(d, s)') /\ mails[d][s] + Cardinality(Owers(d, s)') + Coming(d)' <= 1 + faults'
  BY DEF Paid
<1>1. IsFiniteSet(Owers(d, s)) /\ mails[d][s] + Cardinality(Owers(d, s)) + Coming(d) <= 1 + faults
  BY DEF Paid
<1>2. IsFiniteSet(Owers(d, s)') /\ Cardinality(Owers(d, s)) \in Nat
      /\ Cardinality(Owers(d, s)') \in Nat /\ Cardinality(Owers(d, s)') <= Cardinality(Owers(d, s))
  BY <1>1, Fewer
<1>3. Coming(d) \in Nat /\ Coming(d)' \in Nat /\ Coming(d)' <= Coming(d) /\ mails[d][s] \in Nat /\ faults \in Nat
  BY DEF Coming, Base, Typed
<1> QED
  BY <1>1, <1>2, <1>3

\* A fault pays for the job it sends back.
LEMMA FaultPays ==
  ASSUME Base, Paid, UNCHANGED <<mails, web>>, faults' = faults + 1, NEW j,
         \A d \in Deliveries, s \in Subs : Owers(d, s)' \subseteq Owers(d, s) \union {j}
  PROVE  Paid'
<1> SUFFICES ASSUME NEW d \in Deliveries, NEW s \in Subs
             PROVE  IsFiniteSet(Owers(d, s)') /\ mails[d][s] + Cardinality(Owers(d, s)') + Coming(d)' <= 1 + faults'
  BY DEF Paid
<1>1. IsFiniteSet(Owers(d, s)) /\ mails[d][s] + Cardinality(Owers(d, s)) + Coming(d) <= 1 + faults
  BY DEF Paid
<1>2. IsFiniteSet(Owers(d, s)') /\ Cardinality(Owers(d, s)) \in Nat
      /\ Cardinality(Owers(d, s)') \in Nat /\ Cardinality(Owers(d, s)') <= Cardinality(Owers(d, s)) + 1
  BY <1>1, OneMore
<1>3. Coming(d) \in Nat /\ Coming(d)' = Coming(d) /\ mails[d][s] \in Nat /\ faults \in Nat
  BY DEF Coming, Base, Typed
<1> QED
  BY <1>1, <1>2, <1>3

-----------------------------------------------------------------------------
(* What the handler does *)

\* Worker w goes on with job j, and no message leaves.
Progress(w, j) ==
  LET d == about[j] IN
  /\ holder[j] = w /\ d \in Deliveries
  /\ Moves(w)
  /\ UNCHANGED <<jobVars, rows, mails, faults>>
  /\ batch'[w] \in SUBSET Subs /\ hand'[w] \in Subs \union {Nobody}
  /\ step'[w] \notin {"first", "loop", "post"} => batch'[w] = {}
  /\ step'[w] = "post" => hand'[w] \in Subs \ batch'[w]
  /\ step'[w] # "mark"
  /\ \/ UNCHANGED delivery
     \/ delivery' = [delivery EXCEPT ![d] = "failed"]
     \/ delivery' = [delivery EXCEPT ![d] = "sending"]
     \/ delivery' = [delivery EXCEPT ![d] = "done"] /\ Unsent(d) = {} /\ UNCHANGED <<sent, failed>>
  /\ \/ UNCHANGED sent
     \/ step[w] = "mark" /\ sent' = [sent EXCEPT ![d] = @ \union {hand[w]}]
  /\ \/ UNCHANGED failed
     \/ \E s \in Subs : failed' = [failed EXCEPT ![d] = @ \union {s}]
  /\ \A s \in Subs : MayMail(w, d, s)' => MayMail(w, d, s)

\* It puts the job down: done, or to be tried again, and then not for the sake of
\* one it has mailed and not marked.
Ends(w, j) ==
  /\ holder[j] = w /\ phase[j] = "running" /\ about[j] \in Deliveries
  /\ \E p \in {"pending", "done", "failed"} :
       /\ Drops(w, j, p)
       /\ \/ p = "done"
          \/ step[w] # "return" /\ (step[w] = "mark" => hand[w] \notin rows[about[j]])
  /\ UNCHANGED <<rowVars, mails, faults>>

\* A raise on the way.
LEMMA RaisesEnds ==
  ASSUME Base, NEW w \in Workers, step[w] \notin {"idle", "return"}, Raises(w),
         step[w] = "mark" => hand[w] \notin rows[Current(w)],
         UNCHANGED <<rowVars, webVars, mails, faults>>
  PROVE  \E j \in JobIds : Ends(w, j)
<1>1. PICK j \in JobIds, p \in {"pending", "failed"} : phase[j] = "running" /\ Drops(w, j, p)
  BY RaisesDrops DEF webVars
<1>2. w # NoWorker
  BY NewsletterAssumption DEF NewsletterAssumption
<1>3. holder[j] = w /\ about[j] \in Deliveries /\ about[j] = Current(w)
  BY <1>1, <1>2, WhatRuns DEF Drops, Base, Held
<1> QED
  BY <1>1, <1>3 DEF Ends

LEMMA ReadStep ==
  ASSUME Base, NEW w \in Workers, ReadDelivery(w)
  PROVE  \E j \in JobIds : Progress(w, j)
<1>1. PICK j \in JobIds : holder[j] = w /\ Current(w) = about[j] /\ about[j] \in Deliveries
  BY WhatRuns DEF ReadDelivery
<1>2. /\ step'[w] \in {"begin", "return"} /\ step' = [step EXCEPT ![w] = step'[w]]
      /\ delivery' = delivery \/ delivery' = [delivery EXCEPT ![about[j]] = "failed"]
  BY <1>1 DEF ReadDelivery, GoTo, Base, Typed
<1>3. UNCHANGED <<jobVars, rows, sent, failed, webVars, batch, hand, mails, faults>> /\ step[w] = "read"
  BY DEF ReadDelivery, outside
<1>4. Moves(w)
  BY <1>2, <1>3 DEF Moves, Places, webVars, jobVars, Base, Typed
<1>5. \A s \in Subs : MayMail(w, about[j], s)' => MayMail(w, about[j], s)
  BY <1>2, <1>3 DEF MayMail, Unsent, jobVars
<1> QED
  BY <1>1, <1>2, <1>3, <1>4, <1>5 DEF Progress, Base, Typed, InHand

LEMMA BeginStep ==
  ASSUME Base, NEW w \in Workers, BeginSending(w)
  PROVE  \E j \in JobIds : Progress(w, j) \/ Ends(w, j)
<1>1. PICK j \in JobIds : holder[j] = w /\ Current(w) = about[j] /\ about[j] \in Deliveries
  BY WhatRuns DEF BeginSending
<1>2. CASE RaisesIfDeleted(w)
  BY <1>2, RaisesEnds DEF BeginSending, RaisesIfDeleted, outside
<1>3. CASE ~RaisesIfDeleted(w)
  <2>1. /\ step' = [step EXCEPT ![w] = "select"] /\ step[w] = "begin"
        /\ delivery' = delivery \/ delivery' = [delivery EXCEPT ![about[j]] = "sending"]
        /\ UNCHANGED <<jobVars, rows, sent, failed, webVars, batch, hand, mails, faults>>
    BY <1>1, <1>3 DEF BeginSending, GoTo, outside, rowVars
  <2>2. Moves(w)
    BY <2>1 DEF Moves, Places, webVars, jobVars, Base, Typed
  <2>3. \A s \in Subs : MayMail(w, about[j], s)' => MayMail(w, about[j], s)
    BY <2>1 DEF MayMail, Unsent, jobVars, Base, Typed
  <2> QED
    BY <1>1, <2>1, <2>2, <2>3 DEF Progress, Base, Typed, InHand
<1> QED
  BY <1>2, <1>3

LEMMA SelectStep ==
  ASSUME Base, NEW w \in Workers, SelectBatch(w)
  PROVE  \E j \in JobIds : Progress(w, j) \/ Ends(w, j)
<1>1. PICK j \in JobIds : holder[j] = w /\ Current(w) = about[j] /\ about[j] \in Deliveries
  BY WhatRuns DEF SelectBatch
<1>2. CASE RaisesIfDeleted(w)
  BY <1>2, RaisesEnds DEF SelectBatch, RaisesIfDeleted, outside
<1>3. CASE ~RaisesIfDeleted(w)
  <2>1. PICK B \in SUBSET Unsent(about[j]) : batch' = [batch EXCEPT ![w] = B]
    BY <1>1, <1>3 DEF SelectBatch
  <2>2. /\ step' = [step EXCEPT ![w] = "first"] /\ step[w] = "select"
        /\ UNCHANGED <<jobVars, rowVars, webVars, hand, mails, faults>>
    BY <1>3 DEF SelectBatch, GoTo, outside
  <2>3. B \in SUBSET Subs
    BY <1>1 DEF Unsent, Base, Typed
  <2>4. Moves(w)
    BY <2>1, <2>2 DEF Moves, Places, webVars, jobVars, Base, Typed
  <2>5. \A s \in Subs : MayMail(w, about[j], s)' => MayMail(w, about[j], s)
    BY <2>1, <2>2 DEF MayMail, Unsent, jobVars, rowVars, Base, Typed
  <2> QED
    BY <1>1, <2>1, <2>2, <2>3, <2>4, <2>5 DEF Progress, rowVars, Base, Typed
<1> QED
  BY <1>2, <1>3

LEMMA PickStep ==
  ASSUME Base, NEW w \in Workers, PickRecipient(w)
  PROVE  \E j \in JobIds : Progress(w, j) \/ Ends(w, j)
<1>1. PICK j \in JobIds : holder[j] = w /\ Current(w) = about[j] /\ about[j] \in Deliveries
  BY WhatRuns DEF PickRecipient, InLoop
<1> DEFINE d == about[j]
<1>2. PICK s \in batch[w] :
        \/ Raises(w) /\ UNCHANGED <<rowVars, webVars, outside>>
        \/ /\ failed' = [failed EXCEPT ![d] = @ \union {s}]
           /\ batch' = [batch EXCEPT ![w] = @ \ {s}] /\ step' = [step EXCEPT ![w] = "loop"]
           /\ UNCHANGED <<jobVars, delivery, rows, sent, webVars, seen, hand, outside>>
        \/ /\ batch' = [batch EXCEPT ![w] = @ \ {s}] /\ hand' = [hand EXCEPT ![w] = s]
           /\ step' = [step EXCEPT ![w] = "post"]
           /\ UNCHANGED <<jobVars, rowVars, webVars, seen, outside>>
  BY <1>1 DEF PickRecipient, GoTo
<1>3. step[w] \in {"first", "loop"} /\ s \in Subs /\ batch[w] \in SUBSET Subs
  BY DEF PickRecipient, InLoop, Base, Typed
<1>4. CASE Raises(w) /\ UNCHANGED <<rowVars, webVars, outside>>
  BY <1>3, <1>4, RaisesEnds DEF outside
<1>5. CASE /\ failed' = [failed EXCEPT ![d] = @ \union {s}]
           /\ batch' = [batch EXCEPT ![w] = @ \ {s}] /\ step' = [step EXCEPT ![w] = "loop"]
           /\ UNCHANGED <<jobVars, delivery, rows, sent, webVars, seen, hand, outside>>
  <2>1. Moves(w)
    BY <1>3, <1>5 DEF Moves, Places, webVars, jobVars, Base, Typed
  <2>2. \A r \in Subs : MayMail(w, d, r)' => MayMail(w, d, r)
    BY <1>1, <1>3, <1>5 DEF MayMail, Unsent, jobVars, Base, Typed
  <2>3. batch'[w] = batch[w] \ {s} /\ hand'[w] \in Subs \union {Nobody} /\ step'[w] = "loop"
    BY <1>3, <1>5 DEF Base, Typed
  <2> QED
    BY <1>1, <1>3, <1>5, <2>1, <2>2, <2>3 DEF Progress, outside
<1>6. CASE /\ batch' = [batch EXCEPT ![w] = @ \ {s}] /\ hand' = [hand EXCEPT ![w] = s]
           /\ step' = [step EXCEPT ![w] = "post"]
           /\ UNCHANGED <<jobVars, rowVars, webVars, seen, outside>>
  <2>1. batch'[w] = batch[w] \ {s} /\ hand'[w] = s /\ step'[w] = "post"
    BY <1>6 DEF Base, Typed
  <2>2. Moves(w)
    BY <1>3, <1>6, <2>1 DEF Moves, Places, webVars, jobVars
  <2>3. \A r \in Subs : MayMail(w, d, r)' => MayMail(w, d, r)
    BY <1>1, <1>3, <1>6, <2>1 DEF MayMail, Unsent, jobVars, rowVars
  <2> QED
    BY <1>1, <1>3, <1>6, <2>1, <2>2, <2>3 DEF Progress, rowVars, outside
<1> QED
  BY <1>2, <1>4, <1>5, <1>6

LEMMA MarkStep ==
  ASSUME Base, NEW w \in Workers, MarkSent(w) \/ MailRefused(w)
  PROVE  \E j \in JobIds : Progress(w, j) \/ Ends(w, j)
<1>1. PICK j \in JobIds : holder[j] = w /\ Current(w) = about[j] /\ about[j] \in Deliveries
  BY WhatRuns DEF MarkSent, MailRefused
<1> DEFINE d == about[j]
<1>2. hand[w] \in Subs /\ step[w] \in {"post", "mark"} /\ hand[w] \notin batch[w]
  BY DEF MarkSent, MailRefused, Base, InHand
<1>3. CASE hand[w] \notin rows[d]
  <2>1. Raises(w) /\ UNCHANGED <<rowVars, webVars, mails, faults>>
    BY <1>1, <1>3 DEF MarkSent, MailRefused, CommitRecipient, rowVars, outside
  <2> QED
    BY <1>1, <1>2, <1>3, <2>1, RaisesEnds
<1>4. CASE hand[w] \in rows[d]
  <2>1. /\ step' = [step EXCEPT ![w] = "loop"] /\ hand' = [hand EXCEPT ![w] = Nobody]
        /\ UNCHANGED <<jobVars, batch, delivery, rows, webVars, mails, faults>>
        /\ \/ step[w] = "mark" /\ sent' = [sent EXCEPT ![d] = @ \union {hand[w]}] /\ UNCHANGED failed
           \/ failed' = [failed EXCEPT ![d] = @ \union {hand[w]}] /\ UNCHANGED sent
    BY <1>1, <1>4 DEF MarkSent, MailRefused, CommitRecipient, GoTo, outside
  <2>2. step'[w] = "loop" /\ hand'[w] = Nobody /\ batch'[w] = batch[w] /\ batch[w] \in SUBSET Subs
    BY <2>1 DEF Base, Typed
  <2>3. Moves(w)
    BY <1>2, <2>1, <2>2 DEF Moves, Places, webVars, jobVars, Base, Typed
  <2>4. Unsent(d)' = Unsent(d) \ {hand[w]}
    <3>1. /\ rows'[d] = rows[d]
          /\ \/ sent'[d] = sent[d] \union {hand[w]} /\ failed'[d] = failed[d]
             \/ failed'[d] = failed[d] \union {hand[w]} /\ sent'[d] = sent[d]
      BY <1>1, <2>1 DEF Base, Typed
    <3>2. d' = d
      BY <2>1 DEF jobVars
    <3> QED
      BY <3>1, <3>2 DEF Unsent
  <2>5. \A r \in Subs : MayMail(w, d, r)' => MayMail(w, d, r)
    BY <1>2, <2>1, <2>2, <2>4 DEF MayMail, jobVars
  <2> QED
    BY <1>1, <1>2, <2>1, <2>2, <2>3, <2>5 DEF Progress
<1> QED
  BY <1>3, <1>4

LEMMA CloseStep ==
  ASSUME Base, NEW w \in Workers, CloseBatch(w)
  PROVE  \E j \in JobIds : Progress(w, j) \/ Ends(w, j)
<1>1. PICK j \in JobIds : holder[j] = w /\ Current(w) = about[j] /\ about[j] \in Deliveries
  BY WhatRuns DEF CloseBatch, InLoop
<1>2. CASE RaisesIfDeleted(w)
  BY <1>2, RaisesEnds DEF CloseBatch, InLoop, RaisesIfDeleted, outside
<1>3. CASE ~RaisesIfDeleted(w)
  <2>1. PICK place \in {"rest", "return"} :
          /\ step' = [step EXCEPT ![w] = place] /\ InLoop(w) /\ batch[w] = {}
          /\ \/ UNCHANGED delivery
             \/ delivery' = [delivery EXCEPT ![about[j]] = "done"] /\ Unsent(about[j]) = {}
          /\ UNCHANGED <<jobVars, rows, sent, failed, webVars, batch, hand, mails, faults>>
    BY <1>1, <1>3 DEF CloseBatch, InLoop, GoTo, outside
  <2>2. step'[w] = place
    BY <2>1 DEF Base, Typed
  <2>3. Moves(w)
    BY <2>1, <2>2 DEF InLoop, Moves, Places, webVars, jobVars, Base, Typed
  <2>4. \A s \in Subs : MayMail(w, about[j], s)' => MayMail(w, about[j], s)
    BY <2>1, <2>2 DEF InLoop, MayMail, Unsent, jobVars
  <2> QED
    BY <1>1, <2>1, <2>2, <2>3, <2>4 DEF InLoop, Progress, Base, Typed
<1> QED
  BY <1>2, <1>3

LEMMA ReturnStep ==
  ASSUME Base, NEW w \in Workers, Return(w)
  PROVE  \E j \in JobIds : Ends(w, j)
<1>1. PICK j \in JobIds : holder[j] = w /\ Running(w) = j /\ phase[j] = "running" /\ about[j] \in Deliveries
  BY WhatRuns DEF Return
<1>2. Verdict(w, "done") /\ UNCHANGED <<rowVars, webVars, mails, faults>> /\ step[w] = "return"
  BY DEF Return, outside
<1>3. Drops(w, j, "done")
  BY <1>1, <1>2, VerdictDrops
<1> QED
  BY <1>1, <1>2, <1>3 DEF Ends

-----------------------------------------------------------------------------
(* What each of these does to the invariant *)

LEMMA ProgressInv ==
  ASSUME Inv, NEW w \in Workers, NEW j \in JobIds, Progress(w, j)
  PROVE  Inv'
<1> DEFINE d == about[j]
<1>0. /\ Base /\ d \in Deliveries /\ holder[j] = w /\ w # NoWorker /\ step[w] # "idle"
      /\ UNCHANGED <<phase, holder, about, rows, mails, faults, web>>
  BY NewsletterAssumption DEF Inv, Progress, Moves, jobVars, NewsletterAssumption
<1>1. /\ sent' \in [Deliveries -> SUBSET Subs] /\ failed' \in [Deliveries -> SUBSET Subs]
      /\ \A c \in Deliveries : sent[c] \subseteq sent'[c] /\ failed[c] \subseteq failed'[c]
  <2>1. step[w] = "mark" => hand[w] \in Subs
    BY <1>0 DEF Base, InHand
  <2>2. /\ sent' \in [Deliveries -> SUBSET Subs]
        /\ \A c \in Deliveries : sent[c] \subseteq sent'[c]
    <3>1. UNCHANGED sent \/ (hand[w] \in Subs /\ sent' = [sent EXCEPT ![d] = @ \union {hand[w]}])
      BY <2>1 DEF Progress
    <3>2. sent \in [Deliveries -> SUBSET Subs] /\ d \in Deliveries
      BY <1>0 DEF Base, Typed
    <3> QED
      BY <3>1, <3>2
  <2>3. /\ failed' \in [Deliveries -> SUBSET Subs]
        /\ \A c \in Deliveries : failed[c] \subseteq failed'[c]
    <3>1. UNCHANGED failed \/ \E s \in Subs : failed' = [failed EXCEPT ![d] = @ \union {s}]
      BY DEF Progress
    <3>2. failed \in [Deliveries -> SUBSET Subs] /\ d \in Deliveries
      BY <1>0 DEF Base, Typed
    <3> QED
      BY <3>1, <3>2
  <2> QED
    BY <2>2, <2>3
<1>2. \A c \in Deliveries : Unsent(c)' \subseteq Unsent(c)
  BY <1>0, <1>1 DEF Unsent
<1>3. \A v \in Workers \ {w} : step'[v] = step[v] /\ batch'[v] = batch[v] /\ hand'[v] = hand[v]
  <2>1. PICK place, B, r : /\ step' = [step EXCEPT ![w] = place]
                           /\ batch' = [batch EXCEPT ![w] = B] /\ hand' = [hand EXCEPT ![w] = r]
    BY DEF Progress, Moves
  <2> QED
    BY <1>0, <2>1 DEF Base, Typed
<1>4. Base'
  <2>1. delivery' \in [Deliveries -> {"none", "pending", "sending", "done", "failed", "deleted"}]
    BY <1>0 DEF Base, Typed, Progress
  <2>2. mails' \in [Deliveries -> [Subs -> Nat]]
    BY <1>0 DEF Base, Typed
  <2> QED
    BY <1>0, <1>1, <2>1, <2>2, MovesBase DEF Progress
<1>5. DoneOwesNobody'
  <2> SUFFICES ASSUME NEW c \in Deliveries, delivery'[c] = "done" PROVE Unsent(c)' = {}
    BY DEF DoneOwesNobody
  <2>1. Unsent(c) = {}
    BY <1>0 DEF Inv, Base, Typed, DoneOwesNobody, Progress
  <2> QED
    BY <1>2, <2>1
<1>6. SentInv'
  <2>1. ASSUME NEW c \in Deliveries, NEW s \in sent'[c] PROVE mails'[c][s] > 0
    <3>1. CASE s \in sent[c]
      BY <1>0, <3>1 DEF Inv, SentInv, SentWasMailed
    <3>2. CASE s \notin sent[c]
      <4>1. step[w] = "mark" /\ c = d /\ s = hand[w]
        BY <1>0, <3>2 DEF Progress, Base, Typed
      <4> QED
        BY <1>0, <4>1 DEF Inv, SentInv
    <3> QED
      BY <3>1, <3>2
  <2>2. ASSUME NEW k \in JobIds, holder[k] # NoWorker, step'[holder[k]] = "mark"
        PROVE  hand'[holder[k]] \in Subs /\ mails[about[k]][hand'[holder[k]]] > 0
    <3>1. holder[k] \in Workers \ {w}
      BY <1>0, <2>2 DEF Progress, Base, Typed
    <3> QED
      BY <1>3, <2>2, <3>1 DEF Inv, SentInv
  <2> QED
    BY <1>0, <2>1, <2>2 DEF SentInv, SentWasMailed
<1>7. Paid'
  <2>1. ASSUME NEW c \in Deliveries, NEW s \in Subs, NEW k \in JobIds, Owes(k, c, s)'
        PROVE  Owes(k, c, s)
    <3>1. CASE holder[k] = NoWorker
      BY <1>0, <1>2, <2>1, <3>1 DEF Owes
    <3>2. CASE holder[k] = w
      <4>1. k = j
        BY <1>0, <3>2 DEF Base, Held
      <4> QED
        BY <1>0, <2>1, <4>1 DEF Owes, Progress
    <3>3. CASE holder[k] \in Workers \ {w}
      <4>1. MayMail(holder[k], c, s)' => MayMail(holder[k], c, s)
        BY <1>0, <1>2, <1>3, <3>3 DEF MayMail
      <4> QED
        BY <1>0, <2>1, <3>3, <4>1, NewsletterAssumption DEF Owes, MayMail, NewsletterAssumption
    <3> QED
      BY <3>1, <3>2, <3>3 DEF Inv, Base, Typed
  <2>2. \A c \in Deliveries, s \in Subs : Owers(c, s)' \subseteq Owers(c, s)
    BY <2>1 DEF Owers
  <2> QED
    BY <1>0, <2>2, OwesNoMore DEF Inv, Base, Typed
<1> QED
  BY <1>4, <1>5, <1>6, <1>7 DEF Inv

\* A job that is put down.
LEMMA DropsInv ==
  ASSUME Inv, NEW w \in Workers, NEW j \in JobIds, NEW p \in {"pending", "running", "done", "failed"},
         Drops(w, j, p), phase[j] = "running", UNCHANGED <<rowVars, mails>>, faults' \in Nat
  PROVE  /\ Base' /\ DoneOwesNobody' /\ SentInv'
         /\ \A d \in Deliveries, s \in Subs :
              Owers(d, s)' \subseteq Owers(d, s) \union {k \in {j} : p # "done" /\ about[j] = d /\ s \in Unsent(d)}
<1>0. /\ Base /\ w # NoWorker /\ holder[j] = w
      /\ UNCHANGED <<about, web, delivery, rows, sent, failed>>
      /\ phase' = [phase EXCEPT ![j] = p] /\ holder' = [holder EXCEPT ![j] = NoWorker]
      /\ \A v \in Workers \ {w} : step'[v] = step[v] /\ batch'[v] = batch[v] /\ hand'[v] = hand[v]
  BY NewsletterAssumption DEF Inv, Base, Typed, Drops, PutDown, GoTo, rowVars, webVars, NewsletterAssumption
<1>1. Base'
  BY <1>0, DropsBase DEF rowVars
<1>2. DoneOwesNobody'
  BY <1>0 DEF Inv, DoneOwesNobody, Unsent
<1>3. \A k \in JobIds \ {j} : /\ holder'[k] = holder[k] /\ phase'[k] = phase[k]
                              /\ holder[k] # NoWorker => holder[k] \in Workers \ {w}
  BY <1>0 DEF Base, Typed, Held
<1>4. holder'[j] = NoWorker /\ phase'[j] = p
  BY <1>0 DEF Base, Typed
<1>5. SentInv'
  BY <1>0, <1>3, <1>4 DEF Inv, SentInv, SentWasMailed
<1>6. ASSUME NEW d \in Deliveries, NEW s \in Subs, NEW k \in JobIds, Owes(k, d, s)'
      PROVE  Owes(k, d, s) \/ (k = j /\ p # "done" /\ about[j] = d /\ s \in Unsent(d))
  <2>1. CASE k = j
    BY <1>0, <1>4, <1>6, <2>1 DEF Owes, Unsent
  <2>2. CASE k # j
    BY <1>0, <1>3, <1>6, <2>2 DEF Owes, MayMail, Unsent
  <2> QED
    BY <2>1, <2>2
<1>7. \A d \in Deliveries, s \in Subs :
        Owers(d, s)' \subseteq Owers(d, s) \union {k \in {j} : p # "done" /\ about[j] = d /\ s \in Unsent(d)}
  BY <1>6 DEF Owers
<1> QED
  BY <1>1, <1>2, <1>5, <1>7

LEMMA EndsInv ==
  ASSUME Inv, NEW w \in Workers, NEW j \in JobIds, Ends(w, j)
  PROVE  Inv'
<1>1. PICK p \in {"pending", "done", "failed"} :
        /\ Drops(w, j, p)
        /\ p = "done" \/ (step[w] # "return" /\ (step[w] = "mark" => hand[w] \notin rows[about[j]]))
  BY DEF Ends
<1>2. /\ holder[j] = w /\ w # NoWorker /\ phase[j] = "running" /\ UNCHANGED <<rowVars, mails, faults>>
      /\ faults \in Nat /\ UNCHANGED web
  BY <1>1, NewsletterAssumption DEF Ends, Drops, webVars, Inv, Base, Typed, NewsletterAssumption
<1>3. ASSUME NEW d \in Deliveries, NEW s \in Subs, p # "done", about[j] = d, s \in Unsent(d)
      PROVE  Owes(j, d, s)
  BY <1>1, <1>2, <1>3 DEF Owes, MayMail, Unsent
<1>4. /\ Base' /\ DoneOwesNobody' /\ SentInv'
      /\ \A d \in Deliveries, s \in Subs : Owers(d, s)' \subseteq Owers(d, s)
  <2>1. /\ Base' /\ DoneOwesNobody' /\ SentInv'
        /\ \A d \in Deliveries, s \in Subs :
             Owers(d, s)' \subseteq Owers(d, s) \union {k \in {j} : p # "done" /\ about[j] = d /\ s \in Unsent(d)}
    BY <1>1, <1>2, DropsInv
  <2> QED
    BY <1>3, <2>1 DEF Owers
<1> QED
  BY <1>2, <1>4, OwesNoMore DEF Inv

\* The message leaves: it was owed.
LEMMA MailInv ==
  ASSUME Inv, NEW w \in Workers, Mail(w)
  PROVE  Inv'
<1>1. PICK j \in JobIds : holder[j] = w /\ Current(w) = about[j] /\ about[j] \in Deliveries
  BY WhatRuns DEF Mail, Inv
<1> DEFINE d == about[j]
<1>2. PICK r \in Subs : hand[w] = r /\ r \notin batch[w]
  BY DEF Mail, Inv, Base, InHand
<1>3. /\ Base /\ w # NoWorker /\ step[w] = "post"
      /\ mails' = [mails EXCEPT ![d][r] = @ + 1] /\ step' = [step EXCEPT ![w] = "mark"]
      /\ UNCHANGED <<phase, holder, about, rowVars, webVars, batch, hand, faults>>
  BY <1>1, <1>2, NewsletterAssumption DEF Mail, GoTo, jobVars, Inv, NewsletterAssumption
<1>4. /\ mails'[d][r] = mails[d][r] + 1
      /\ \A c \in Deliveries, s \in Subs : c # d \/ s # r => mails'[c][s] = mails[c][s]
      /\ \A c \in Deliveries, s \in Subs : mails[c][s] \in Nat /\ mails'[c][s] \in Nat
  BY <1>1, <1>3 DEF Base, Typed
<1>5. step'[w] = "mark" /\ \A v \in Workers \ {w} : step'[v] = step[v]
  BY <1>3 DEF Base, Typed
<1>6. Base'
  <2>1. Moves(w)
    BY <1>3, <1>5 DEF Moves, Places, webVars, Base, Typed
  <2>2. mails' \in [Deliveries -> [Subs -> Nat]]
    BY <1>1, <1>3 DEF Base, Typed
  <2> QED
    BY <1>2, <1>3, <1>5, <2>1, <2>2, MovesBase DEF rowVars, Base, Typed
<1>7. DoneOwesNobody'
  BY <1>3 DEF Inv, DoneOwesNobody, Unsent, rowVars
<1>8. \A c \in Deliveries, s \in Subs : mails[c][s] <= mails'[c][s]
  BY <1>1, <1>4
<1>9. SentInv'
  <2>1. ASSUME NEW c \in Deliveries, NEW s \in sent'[c] PROVE mails'[c][s] > 0
    <3>1. s \in Subs /\ mails[c][s] > 0
      BY <1>3, <2>1 DEF rowVars, Base, Typed, Inv, SentInv, SentWasMailed
    <3> QED
      BY <1>4, <1>8, <3>1
  <2>2. ASSUME NEW k \in JobIds, holder'[k] # NoWorker, step'[holder'[k]] = "mark"
        PROVE  hand'[holder'[k]] \in Subs /\ mails'[about'[k]][hand'[holder'[k]]] > 0
    <3>1. CASE k = j
      BY <1>1, <1>2, <1>3, <1>4, <3>1
    <3>2. CASE k # j
      <4>1. holder[k] \in Workers \ {w} /\ about[k] \in Deliveries
        BY <1>1, <1>3, <2>2, <3>2 DEF Base, Typed, Held
      <4>2. hand[holder[k]] \in Subs /\ mails[about[k]][hand[holder[k]]] > 0
        BY <1>3, <1>5, <2>2, <4>1 DEF Inv, SentInv
      <4> QED
        BY <1>3, <1>4, <1>8, <4>1, <4>2
    <3> QED
      BY <3>1, <3>2
  <2> QED
    BY <2>1, <2>2 DEF SentInv, SentWasMailed
<1>10. ASSUME NEW c \in Deliveries, NEW s \in Subs, NEW k \in JobIds, Owes(k, c, s)'
       PROVE  Owes(k, c, s) /\ (c = d /\ s = r => k # j)
  <2>1. CASE k = j
    BY <1>1, <1>2, <1>3, <1>5, <1>10, <2>1 DEF Owes, MayMail, Unsent, rowVars
  <2>2. CASE k # j
    <3>1. holder[k] = NoWorker \/ holder[k] \in Workers \ {w}
      BY <1>1, <1>3, <2>2 DEF Base, Typed, Held
    <3> QED
      BY <1>3, <1>5, <1>10, <2>2, <3>1 DEF Owes, MayMail, Unsent, rowVars
  <2> QED
    BY <2>1, <2>2
<1>11. Owes(j, d, r)
  BY <1>1, <1>2, <1>3 DEF Owes, MayMail
<1>12. ASSUME NEW c \in Deliveries, NEW s \in Subs
       PROVE  /\ IsFiniteSet(Owers(c, s)')
              /\ mails'[c][s] + Cardinality(Owers(c, s)') + Coming(c)' <= 1 + faults'
  <2>1. IsFiniteSet(Owers(c, s)) /\ mails[c][s] + Cardinality(Owers(c, s)) + Coming(c) <= 1 + faults
    BY DEF Inv, Paid
  <2>2. Coming(c)' = Coming(c) /\ Coming(c) \in Nat /\ faults' = faults /\ faults \in Nat
    BY <1>3 DEF Coming, webVars, Base, Typed
  <2>3. CASE c = d /\ s = r
    <3>1. j \in Owers(c, s) /\ Owers(c, s)' \subseteq Owers(c, s) \ {j}
      BY <1>10, <1>11, <2>3 DEF Owers
    <3>2. IsFiniteSet(Owers(c, s)') /\ Cardinality(Owers(c, s)) \in Nat
          /\ Cardinality(Owers(c, s)') \in Nat /\ Cardinality(Owers(c, s)') + 1 <= Cardinality(Owers(c, s))
      BY <2>1, <3>1, OneLess
    <3> QED
      BY <1>4, <2>1, <2>2, <2>3, <3>2
  <2>4. CASE c # d \/ s # r
    <3>1. Owers(c, s)' \subseteq Owers(c, s)
      BY <1>10 DEF Owers
    <3>2. IsFiniteSet(Owers(c, s)') /\ Cardinality(Owers(c, s)) \in Nat
          /\ Cardinality(Owers(c, s)') \in Nat /\ Cardinality(Owers(c, s)') <= Cardinality(Owers(c, s))
      BY <2>1, <3>1, Fewer
    <3> QED
      BY <1>4, <2>1, <2>2, <2>4, <3>2
  <2> QED
    BY <2>3, <2>4
<1>13. Paid'
  BY <1>12 DEF Paid
<1> QED
  BY <1>6, <1>7, <1>9, <1>13 DEF Inv

\* Whoever does not return the job has a fault to show for it.
LEMMA FaultInv ==
  ASSUME Inv, NEW w \in Workers, HandlerFails(w) \/ WorkerDies(w)
  PROVE  Inv'
<1>1. PICK i \in JobIds : holder[i] = w /\ Running(w) = i /\ phase[i] = "running"
  BY WhatRuns DEF HandlerFails, WorkerDies, Inv
<1>2. /\ Base /\ step[w] # "idle" /\ faults' = faults + 1 /\ faults \in Nat
      /\ UNCHANGED <<rowVars, webVars, mails>>
  BY DEF HandlerFails, WorkerDies, Inv, Base, Typed
<1>3. PICK j \in JobIds, p \in {"pending", "running", "failed"} : phase[j] = "running" /\ Drops(w, j, p)
  <2>1. CASE HandlerFails(w)
    BY <1>2, <2>1, RaisesDrops DEF HandlerFails
  <2>2. CASE WorkerDies(w)
    <3>1. phase' = [phase EXCEPT ![i] = "running"]
      BY <1>1, <2>2 DEF WorkerDies, Orphan, Inv, Base, Typed
    <3>2. Drops(w, i, "running")
      BY <1>1, <1>2, <2>2, <3>1 DEF WorkerDies, Orphan, Drops
    <3> QED
      BY <1>1, <3>2
  <2> QED
    BY <2>1, <2>2
<1>4. /\ Base' /\ DoneOwesNobody' /\ SentInv'
      /\ \A d \in Deliveries, s \in Subs :
           Owers(d, s)' \subseteq Owers(d, s) \union {k \in {j} : p # "done" /\ about[j] = d /\ s \in Unsent(d)}
  BY <1>2, <1>3, DropsInv
<1>5. \A d \in Deliveries, s \in Subs : Owers(d, s)' \subseteq Owers(d, s) \union {j}
  BY <1>4
<1> QED
  BY <1>2, <1>4, <1>5, FaultPays DEF Inv, webVars

\* A claimed job owes what it owed waiting.
LEMMA ClaimInv ==
  ASSUME Inv, NEW w \in Workers, NEW j \in JobIds, Claim(w, j)
  PROVE  Inv'
<1>1. /\ Base /\ w # NoWorker /\ step[w] = "idle" /\ phase[j] = "pending" /\ holder[j] = NoWorker
      /\ phase' = [phase EXCEPT ![j] = "running"] /\ holder' = [holder EXCEPT ![j] = w]
      /\ step' = [step EXCEPT ![w] = "read"]
      /\ UNCHANGED <<about, rowVars, webVars, batch, hand, mails, faults>>
  BY NewsletterAssumption DEF Claim, Take, GoTo, outside, Inv, NewsletterAssumption
<1>2. /\ phase'[j] = "running" /\ holder'[j] = w /\ step'[w] = "read"
      /\ \A k \in JobIds \ {j} : holder'[k] = holder[k] /\ phase'[k] = phase[k] /\ holder[k] # w
      /\ \A v \in Workers \ {w} : step'[v] = step[v]
  BY <1>1 DEF Base, Typed, Held
<1>3. Base'
  <2>1. Typed'
    BY <1>1 DEF Base, Typed, rowVars, webVars, Places
  <2>2. Held'
    BY <1>1, <1>2, NewsletterAssumption DEF Base, Typed, Held, webVars, NewsletterAssumption
  <2>3. InHand'
    BY <1>1, <1>2 DEF Base, InHand
  <2> QED
    BY <2>1, <2>2, <2>3 DEF Base
<1>4. DoneOwesNobody'
  BY <1>1 DEF Inv, DoneOwesNobody, Unsent, rowVars
<1>5. SentInv'
  <2>1. ASSUME NEW k \in JobIds, holder'[k] # NoWorker, step'[holder'[k]] = "mark"
        PROVE  holder[k] # NoWorker /\ step[holder[k]] = "mark" /\ holder'[k] = holder[k]
    BY <1>1, <1>2, <2>1 DEF Base, Typed
  <2> QED
    BY <1>1, <2>1 DEF Inv, SentInv, SentWasMailed, rowVars
<1>6. ASSUME NEW d \in Deliveries, NEW s \in Subs, NEW k \in JobIds, Owes(k, d, s)'
      PROVE  Owes(k, d, s)
  <2>1. CASE k = j
    BY <1>1, <1>2, <1>6, <2>1 DEF Owes, MayMail, Unsent, rowVars, Base, InHand
  <2>2. CASE k # j
    <3>1. holder[k] = NoWorker \/ holder[k] \in Workers \ {w}
      BY <1>1, <1>2, <2>2 DEF Base, Typed
    <3> QED
      BY <1>1, <1>2, <1>6, <2>2, <3>1 DEF Owes, MayMail, Unsent, rowVars
  <2> QED
    BY <2>1, <2>2
<1>7. \A d \in Deliveries, s \in Subs : Owers(d, s)' \subseteq Owers(d, s)
  BY <1>6 DEF Owers
<1>8. Paid'
  BY <1>1, <1>7, OwesNoMore DEF Inv, Base, Typed, webVars
<1> QED
  BY <1>3, <1>4, <1>5, <1>8 DEF Inv

\* The rest of a delivery is owed by the new job, no longer by the one that books it.
LEMMA RestInv ==
  ASSUME Inv, NEW w \in Workers, EnqueueRest(w)
  PROVE  Inv'
<1>1. PICK i \in JobIds : holder[i] = w /\ Current(w) = about[i] /\ about[i] \in Deliveries
                         /\ phase[i] = "running" /\ web[about[i]] = "ended"
  BY WhatRuns DEF EnqueueRest, Inv
<1> DEFINE d == about[i]
<1>2. CASE RaisesIfDeleted(w)
  <2>1. \E j \in JobIds : Ends(w, j)
    BY <1>2, RaisesEnds DEF EnqueueRest, RaisesIfDeleted, outside, Inv
  <2> QED
    BY <2>1, EndsInv
<1>3. CASE ~RaisesIfDeleted(w)
  <2>1. PICK j \in JobIds : Book(j) /\ about' = [about EXCEPT ![j] = d]
    BY <1>1, <1>3 DEF EnqueueRest, Enqueue
  <2>2. /\ Base /\ w # NoWorker /\ step[w] = "rest" /\ step' = [step EXCEPT ![w] = "return"]
        /\ UNCHANGED <<rowVars, webVars, batch, hand, mails, faults>>
    BY <1>3, NewsletterAssumption DEF EnqueueRest, GoTo, outside, Inv, NewsletterAssumption
  <2>3. /\ holder[j] = NoWorker /\ j # i /\ about'[j] = d /\ UNCHANGED holder
        /\ \A k \in JobIds \ {j} : about'[k] = about[k] /\ phase'[k] = phase[k]
        /\ step'[w] = "return" /\ \A v \in Workers \ {w} : step'[v] = step[v]
    BY <1>1, <2>1, <2>2 DEF Book, Base, Typed, Held
  <2>4. Base'
    <3>1. web' \in [Deliveries -> {"idle", "created", "filled", "ended"}] /\ UNCHANGED web
      BY <2>2 DEF webVars, Base, Typed
    <3> QED
      BY <1>1, <2>1, <2>2, <3>1, BooksBase DEF webVars
  <2>5. DoneOwesNobody'
    BY <2>2 DEF Inv, DoneOwesNobody, Unsent, rowVars
  <2>6. SentInv'
    <3>1. ASSUME NEW k \in JobIds, holder'[k] # NoWorker, step'[holder'[k]] = "mark"
          PROVE  k # j /\ holder[k] # NoWorker /\ step[holder[k]] = "mark"
      BY <1>1, <2>2, <2>3, <3>1 DEF Base, Typed
    <3> QED
      BY <2>2, <2>3, <3>1 DEF Inv, SentInv, SentWasMailed, rowVars
  <2>7. ASSUME NEW c \in Deliveries, NEW s \in Subs, NEW k \in JobIds, Owes(k, c, s)'
        PROVE  (k = j /\ Owes(i, c, s)) \/ (k \notin {i, j} /\ Owes(k, c, s))
    <3>1. CASE k = j
      BY <1>1, <2>2, <2>3, <2>7, <3>1 DEF Owes, MayMail, Unsent, rowVars
    <3>2. CASE k = i
      BY <1>1, <2>2, <2>3, <2>7, <3>2 DEF Owes, MayMail
    <3>3. CASE k \notin {i, j}
      <4>1. holder[k] = NoWorker \/ holder[k] \in Workers \ {w}
        BY <1>1, <2>2, <3>3 DEF Base, Typed, Held
      <4> QED
        BY <2>2, <2>3, <2>7, <3>3, <4>1 DEF Owes, MayMail, Unsent, rowVars
    <3> QED
      BY <3>1, <3>2, <3>3
  <2>8. ASSUME NEW c \in Deliveries, NEW s \in Subs
        PROVE  /\ IsFiniteSet(Owers(c, s)')
               /\ mails'[c][s] + Cardinality(Owers(c, s)') + Coming(c)' <= 1 + faults'
    <3>1. IsFiniteSet(Owers(c, s)) /\ mails[c][s] + Cardinality(Owers(c, s)) + Coming(c) <= 1 + faults
      BY DEF Inv, Paid
    <3>2. /\ Coming(c)' = Coming(c) /\ Coming(c) \in Nat /\ faults' = faults /\ faults \in Nat
          /\ mails' = mails /\ mails[c][s] \in Nat
      BY <2>2 DEF Coming, webVars, Base, Typed
    <3>3. /\ IsFiniteSet(Owers(c, s)') /\ Cardinality(Owers(c, s)) \in Nat
          /\ Cardinality(Owers(c, s)') \in Nat /\ Cardinality(Owers(c, s)') <= Cardinality(Owers(c, s))
      <4>1. CASE i \in Owers(c, s)
        <5>1. Owers(c, s)' \subseteq (Owers(c, s) \ {i}) \union {j}
          BY <2>7 DEF Owers
        <5> QED
          BY <3>1, <4>1, <5>1, OneForOne
      <4>2. CASE i \notin Owers(c, s)
        <5>1. Owers(c, s)' \subseteq Owers(c, s)
          BY <2>7, <4>2 DEF Owers
        <5> QED
          BY <3>1, <5>1, Fewer
      <4> QED
        BY <4>1, <4>2
    <3> QED
      BY <3>1, <3>2, <3>3
  <2>9. Paid'
    BY <2>8 DEF Paid
  <2> QED
    BY <2>4, <2>5, <2>6, <2>9 DEF Inv
<1> QED
  BY <1>2, <1>3

\* Requests before the job, readers and operators: they make nobody owed to.
Harmless ==
  /\ UNCHANGED <<phase, holder, about, step, batch, hand, mails>>
  /\ faults' \in Nat /\ faults <= faults'
  /\ delivery' \in [Deliveries -> {"none", "pending", "sending", "done", "failed", "deleted"}]
  /\ rows' \in [Deliveries -> SUBSET Subs] /\ sent' \in [Deliveries -> SUBSET Subs]
  /\ failed' \in [Deliveries -> SUBSET Subs] /\ snapshot' \in [Deliveries -> SUBSET Subs]
  /\ web' \in [Deliveries -> {"idle", "created", "filled", "ended"}]
  /\ \A d \in Deliveries :
       /\ web[d] = "ended" => web'[d] = "ended"
       /\ delivery'[d] = "done" => delivery[d] = "done"
       /\ sent'[d] \subseteq sent[d]
       /\ \/ Unsent(d)' \subseteq Unsent(d)
          \/ web[d] # "ended" /\ delivery'[d] # "done"

LEMMA OutsideInv ==
  ASSUME Inv, Harmless
  PROVE  Inv'
<1>0. Harmless
  OBVIOUS
<1>1. Base'
  BY OutsideBase DEF Inv, Harmless
<1>2. DoneOwesNobody'
  BY DEF Inv, DoneOwesNobody, Harmless, Unsent
<1>3. SentInv'
  BY DEF Inv, SentInv, SentWasMailed, Harmless
<1>4. ASSUME NEW d \in Deliveries, NEW s \in Subs, NEW k \in JobIds, Owes(k, d, s)'
      PROVE  Owes(k, d, s)
  <2>1. phase[k] # "none" /\ about[k] = d
    BY <1>4 DEF Owes, Inv, Base, Held, Harmless
  <2>2. \A r \in Subs : r \in rows'[d] \ (sent'[d] \union failed'[d]) => r \in Unsent(d)
    BY <2>1 DEF Inv, Base, Held, Harmless, Unsent
  <2> QED
    BY <1>4, <2>2 DEF Owes, MayMail, Harmless, Unsent
<1>5. \A d \in Deliveries, s \in Subs : Owers(d, s)' \subseteq Owers(d, s)
  BY <1>4 DEF Owers
<1>6. Paid'
  BY <1>5, OwesNoMore DEF Inv, Harmless
<1> QED
  BY <1>1, <1>2, <1>3, <1>6 DEF Inv

\* The request's own job was counted as coming.
LEMMA QueueInv ==
  ASSUME Inv, NEW d \in Deliveries, QueueDelivery(d), delivery[d] # "deleted"
  PROVE  Inv'
<1>0. /\ Base /\ web[d] = "filled" /\ web' = [web EXCEPT ![d] = "ended"]
      /\ UNCHANGED <<rowVars, snapshot, step, batch, hand, mails, faults>>
  BY DEF QueueDelivery, handlerVars, outside, Inv
<1>1. PICK j \in JobIds : Book(j) /\ about' = [about EXCEPT ![j] = d]
  BY DEF QueueDelivery, Enqueue
<1>2. /\ web' \in [Deliveries -> {"idle", "created", "filled", "ended"}] /\ web'[d] = "ended"
      /\ \A c \in Deliveries \ {d} : web'[c] = web[c]
  BY <1>0 DEF Base, Typed
<1>3. Base'
  BY <1>0, <1>1, <1>2, BooksBase
<1>4. DoneOwesNobody'
  BY <1>0 DEF Inv, DoneOwesNobody, Unsent, rowVars
<1>5. UNCHANGED holder /\ \A k \in JobIds : (k = j /\ holder[k] = NoWorker) \/ (about'[k] = about[k] /\ phase'[k] = phase[k])
  BY <1>0, <1>1 DEF Book, Base, Typed, Held
<1>6. SentInv'
  BY <1>0, <1>5 DEF Inv, SentInv, SentWasMailed, rowVars
<1>7. ASSUME NEW c \in Deliveries, NEW s \in Subs, NEW k \in JobIds, Owes(k, c, s)'
      PROVE  Owes(k, c, s) \/ (k = j /\ c = d)
  <2>1. CASE about'[k] = about[k] /\ phase'[k] = phase[k]
    BY <1>0, <1>5, <1>7, <2>1 DEF Owes, MayMail, Unsent, rowVars
  <2>2. CASE k = j /\ ~(about'[k] = about[k] /\ phase'[k] = phase[k])
    BY <1>0, <1>1, <1>7, <2>2 DEF Owes, Base, Typed
  <2> QED
    BY <1>5, <2>1, <2>2
<1>8. ASSUME NEW c \in Deliveries, NEW s \in Subs
      PROVE  /\ IsFiniteSet(Owers(c, s)')
             /\ mails'[c][s] + Cardinality(Owers(c, s)') + Coming(c)' <= 1 + faults'
  <2>1. IsFiniteSet(Owers(c, s)) /\ mails[c][s] + Cardinality(Owers(c, s)) + Coming(c) <= 1 + faults
    BY DEF Inv, Paid
  <2>2. /\ faults' = faults /\ faults \in Nat /\ mails' = mails /\ mails[c][s] \in Nat
    BY <1>0 DEF Base, Typed
  <2>3. CASE c = d
    <3>1. Coming(c) = 1 /\ Coming(c)' = 0
      BY <1>0, <1>2, <2>3 DEF Coming
    <3>2. Owers(c, s)' \subseteq Owers(c, s) \union {j}
      BY <1>7 DEF Owers
    <3>3. IsFiniteSet(Owers(c, s)') /\ Cardinality(Owers(c, s)) \in Nat
          /\ Cardinality(Owers(c, s)') \in Nat /\ Cardinality(Owers(c, s)') <= Cardinality(Owers(c, s)) + 1
      BY <2>1, <3>2, OneMore
    <3> QED
      BY <2>1, <2>2, <3>1, <3>3
  <2>4. CASE c # d
    <3>1. Coming(c) \in Nat /\ Coming(c)' = Coming(c)
      BY <1>2, <2>4 DEF Coming
    <3>2. Owers(c, s)' \subseteq Owers(c, s)
      BY <1>7, <2>4 DEF Owers
    <3>3. IsFiniteSet(Owers(c, s)') /\ Cardinality(Owers(c, s)) \in Nat
          /\ Cardinality(Owers(c, s)') \in Nat /\ Cardinality(Owers(c, s)') <= Cardinality(Owers(c, s))
      BY <2>1, <3>2, Fewer
    <3> QED
      BY <2>1, <2>2, <3>1, <3>3
  <2> QED
    BY <2>3, <2>4
<1>9. Paid'
  BY <1>8 DEF Paid
<1> QED
  BY <1>3, <1>4, <1>6, <1>9 DEF Inv

\* A job goes back to the queue: it owed what it owes.
LEMMA BackInv ==
  ASSUME Inv, RecoverOrphans \/ \E j \in JobIds : RetryJob(j)
  PROVE  Inv'
<1>1. UNCHANGED <<holder, about, rowVars, webVars, handlerVars, mails, faults>>
  BY DEF RecoverOrphans, RetryJob, Reclaim, Requeue, outside
<1>2. \A k \in JobIds : \/ phase'[k] = phase[k]
                        \/ holder[k] = NoWorker /\ phase[k] \in {"running", "failed"} /\ phase'[k] = "pending"
  <2>1. CASE RecoverOrphans
    <3>1. PICK S \in SUBSET {k \in JobIds : phase[k] = "running" /\ holder[k] = NoWorker} :
            phase' = [k \in JobIds |-> IF k \in S THEN "pending" ELSE phase[k]]
      BY <2>1 DEF RecoverOrphans, Reclaim
    <3>2. \A k \in JobIds : phase'[k] = IF k \in S THEN "pending" ELSE phase[k]
      BY <3>1
    <3> QED
      BY <3>2
  <2>2. ASSUME NEW j \in JobIds, RetryJob(j)
        PROVE  phase[j] = "failed" /\ holder[j] = NoWorker /\ phase' = [phase EXCEPT ![j] = "pending"]
    BY <2>2 DEF RetryJob, Requeue, Inv, Base, Held
  <2>3. phase \in [JobIds -> {"none", "pending", "running", "done", "failed"}]
    BY DEF Inv, Base, Typed
  <2>4. CASE \E j \in JobIds : RetryJob(j)
    BY <2>2, <2>3, <2>4
  <2> QED
    BY <2>1, <2>4
<1>3. phase' \in [JobIds -> {"none", "pending", "running", "done", "failed"}]
  BY DEF RecoverOrphans, RetryJob, Reclaim, Requeue, Inv, Base, Typed
<1>4. Base'
  BY <1>1, <1>2, <1>3 DEF Inv, Base, Typed, Held, InHand, rowVars, webVars, handlerVars
<1>5. DoneOwesNobody' /\ SentInv'
  BY <1>1 DEF Inv, DoneOwesNobody, SentInv, SentWasMailed, Unsent, rowVars, handlerVars
<1>6. \A d \in Deliveries, s \in Subs, k \in JobIds : Owes(k, d, s)' => Owes(k, d, s)
  BY <1>1, <1>2 DEF Owes, MayMail, Unsent, rowVars, handlerVars
<1>7. \A d \in Deliveries, s \in Subs : Owers(d, s)' \subseteq Owers(d, s)
  BY <1>6 DEF Owers
<1>8. Paid'
  BY <1>1, <1>7, OwesNoMore DEF Inv, Base, Typed, webVars
<1> QED
  BY <1>4, <1>5, <1>8 DEF Inv

LEMMA RequestInv ==
  ASSUME Inv, NEW d \in Deliveries,
         CreateDelivery(d) \/ AddRecipients(d) \/ RequestDies(d) \/ (QueueDelivery(d) /\ delivery[d] = "deleted")
  PROVE  Inv'
<1>1. UNCHANGED <<phase, holder, about, handlerVars, mails, sent, failed>> /\ faults \in Nat /\ snapshot \in [Deliveries -> SUBSET Subs]
  BY DEF CreateDelivery, AddRecipients, RequestDies, QueueDelivery, jobVars, rowVars, outside, Inv, Base, Typed
<1>2. /\ web[d] # "ended"
      /\ \E at \in {"created", "filled", "ended"} : web' = [web EXCEPT ![d] = at]
      /\ UNCHANGED snapshot \/ \E S \in SUBSET Subs : snapshot' = [snapshot EXCEPT ![d] = S]
      /\ faults' \in Nat /\ faults <= faults'
  <2>1. Audience \in SUBSET Subs /\ {} \in SUBSET Subs
    BY DEF Audience
  <2> QED
    BY <1>1, <2>1 DEF CreateDelivery, AddRecipients, RequestDies, QueueDelivery, outside
<1>3. /\ delivery' = delivery \/ delivery' = [delivery EXCEPT ![d] = "pending"]
      /\ rows' = rows \/ (rows' = [rows EXCEPT ![d] = snapshot[d]] /\ delivery[d] = "pending" /\ delivery' = delivery)
  BY DEF CreateDelivery, AddRecipients, RequestDies, QueueDelivery, rowVars
<1>4. /\ delivery' \in [Deliveries -> {"none", "pending", "sending", "done", "failed", "deleted"}]
      /\ rows' \in [Deliveries -> SUBSET Subs]
      /\ \A c \in Deliveries : delivery'[c] = "done" => delivery[c] = "done"
      /\ \A c \in Deliveries : rows'[c] = rows[c] \/ (c = d /\ delivery'[d] # "done")
  <2>1. delivery \in [Deliveries -> {"none", "pending", "sending", "done", "failed", "deleted"}]
        /\ rows \in [Deliveries -> SUBSET Subs] /\ snapshot[d] \in SUBSET Subs
    BY <1>1 DEF Inv, Base, Typed
  <2>2. /\ delivery' \in [Deliveries -> {"none", "pending", "sending", "done", "failed", "deleted"}]
        /\ \A c \in Deliveries : delivery'[c] = "done" => delivery[c] = "done"
    BY <1>3, <2>1
  <2>3. /\ rows' \in [Deliveries -> SUBSET Subs]
        /\ \A c \in Deliveries : rows'[c] = rows[c] \/ (c = d /\ delivery'[d] # "done")
    BY <1>3, <2>1
  <2> QED
    BY <2>2, <2>3
<1>5. /\ web' \in [Deliveries -> {"idle", "created", "filled", "ended"}]
      /\ snapshot' \in [Deliveries -> SUBSET Subs]
      /\ \A c \in Deliveries : web[c] = "ended" => web'[c] = "ended"
  BY <1>1, <1>2 DEF Inv, Base, Typed
<1>6. /\ sent' \in [Deliveries -> SUBSET Subs] /\ failed' \in [Deliveries -> SUBSET Subs]
      /\ \A c \in Deliveries : sent'[c] \subseteq sent[c]
  BY <1>1 DEF Inv, Base, Typed
<1>7. \A c \in Deliveries : Unsent(c)' \subseteq Unsent(c) \/ (web[c] # "ended" /\ delivery'[c] # "done")
  BY <1>1, <1>2, <1>4 DEF Unsent
<1>8. Harmless
  BY <1>1, <1>2, <1>4, <1>5, <1>6, <1>7 DEF Harmless, handlerVars, Unsent
<1> QED
  BY <1>8, OutsideInv

LEMMA ReaderInv ==
  ASSUME Inv,
         \/ \E s \in Subs : Join(s) \/ Leave(s) \/ RemoveSubscriber(s)
         \/ \E d \in Deliveries : DeleteContent(d)
         \/ ChangeProvider
  PROVE  Inv'
<1>1. UNCHANGED <<phase, holder, about, handlerVars, mails, faults, web, snapshot>>
  BY DEF Join, Leave, RemoveSubscriber, DeleteContent, ChangeProvider, jobVars, webVars, outside
<1>2. /\ delivery' \in [Deliveries -> {"none", "pending", "sending", "done", "failed", "deleted"}]
      /\ rows' \in [Deliveries -> SUBSET Subs]
      /\ sent' \in [Deliveries -> SUBSET Subs] /\ failed' \in [Deliveries -> SUBSET Subs]
      /\ \A d \in Deliveries : delivery'[d] = "done" => delivery[d] = "done"
      /\ \A d \in Deliveries : sent'[d] \subseteq sent[d] /\ Unsent(d)' \subseteq Unsent(d)
  <2>0. Typed
    BY DEF Inv, Base
  <2>1. ASSUME NEW s \in Subs, Join(s) \/ Leave(s)
        PROVE  UNCHANGED <<delivery, rows, sent, failed>>
    BY <2>1 DEF Join, Leave, rowVars
  <2>2. CASE ChangeProvider
    BY <2>0, <2>2 DEF ChangeProvider, rowVars, Unsent, Typed
  <2>3. ASSUME NEW s \in Subs, RemoveSubscriber(s)
        PROVE  /\ UNCHANGED delivery /\ rows' = [d \in Deliveries |-> rows[d] \ {s}]
               /\ sent' = [d \in Deliveries |-> sent[d] \ {s}] /\ failed' = [d \in Deliveries |-> failed[d] \ {s}]
    BY <2>3 DEF RemoveSubscriber
  <2>4. ASSUME NEW d \in Deliveries, DeleteContent(d)
        PROVE  /\ delivery' = [delivery EXCEPT ![d] = "deleted"] /\ rows' = [rows EXCEPT ![d] = {}]
               /\ sent' = [sent EXCEPT ![d] = {}] /\ failed' = [failed EXCEPT ![d] = {}]
    BY <2>4 DEF DeleteContent
  <2>5. CASE \E s \in Subs : Join(s) \/ Leave(s)
    BY <2>0, <2>1, <2>5 DEF Unsent, Typed
  <2>6. CASE \E s \in Subs : RemoveSubscriber(s)
    BY <2>0, <2>3, <2>6 DEF Unsent, Typed
  <2>7. CASE \E d \in Deliveries : DeleteContent(d)
    BY <2>0, <2>4, <2>7 DEF Unsent, Typed
  <2> QED
    BY <2>2, <2>5, <2>6, <2>7
<1>3. /\ faults' \in Nat /\ faults <= faults'
      /\ snapshot' \in [Deliveries -> SUBSET Subs]
      /\ web' \in [Deliveries -> {"idle", "created", "filled", "ended"}]
      /\ \A d \in Deliveries : web[d] = "ended" => web'[d] = "ended"
  BY <1>1 DEF Inv, Base, Typed
<1>4. Harmless
  BY <1>1, <1>2, <1>3 DEF Harmless, handlerVars, Unsent
<1> QED
  BY <1>4, OutsideInv

LEMMA StepInv == Inv /\ [Next]_vars => Inv'
<1> SUFFICES ASSUME Inv, [Next]_vars PROVE Inv'
  OBVIOUS
<1>1. ASSUME NEW w \in Workers, Handler(w) PROVE Inv'
  <2>1. CASE \E j \in JobIds : Progress(w, j) \/ Ends(w, j)
    BY <2>1, ProgressInv, EndsInv
  <2>2. CASE Mail(w) \/ EnqueueRest(w)
    BY <2>2, MailInv, RestInv
  <2> QED
    BY <1>1, <2>1, <2>2, ReadStep, BeginStep, SelectStep, PickStep, MarkStep, CloseStep, ReturnStep DEF Handler, Inv
<1>2. ASSUME NEW w \in Workers, HandlerFails(w) \/ WorkerDies(w) PROVE Inv'
  BY <1>2, FaultInv
<1>3. CASE Claims
  BY <1>3, ClaimInv DEF Claims
<1>4. CASE \E d \in Deliveries :
             CreateDelivery(d) \/ AddRecipients(d) \/ QueueDelivery(d) \/ RequestDies(d) \/ DeleteContent(d)
  BY <1>4, RequestInv, QueueInv, ReaderInv
<1>5. CASE RecoverOrphans \/ \E j \in JobIds : RetryJob(j)
  BY <1>5, BackInv
<1>6. CASE ChangeProvider \/ \E s \in Subs : Join(s) \/ Leave(s) \/ RemoveSubscriber(s)
  BY <1>6, ReaderInv
<1>7. CASE UNCHANGED vars
  <2>1. UNCHANGED <<phase, holder, about, step, batch, hand, mails>>
    BY <1>7 DEF vars, jobVars, outside, handlerVars
  <2>2. /\ UNCHANGED <<faults, web, snapshot, delivery, rows, sent, failed>>
        /\ \A d \in Deliveries : Unsent(d)' = Unsent(d)
    BY <1>7 DEF vars, rowVars, webVars, outside, Unsent
  <2>3. /\ faults' \in Nat /\ faults <= faults'
        /\ delivery' \in [Deliveries -> {"none", "pending", "sending", "done", "failed", "deleted"}]
        /\ rows' \in [Deliveries -> SUBSET Subs] /\ sent' \in [Deliveries -> SUBSET Subs]
        /\ failed' \in [Deliveries -> SUBSET Subs] /\ snapshot' \in [Deliveries -> SUBSET Subs]
        /\ web' \in [Deliveries -> {"idle", "created", "filled", "ended"}]
    BY <2>2 DEF Inv, Base, Typed
  <2>4. Harmless
    BY <2>1, <2>2, <2>3 DEF Harmless, Unsent
  <2> QED
    BY <2>4, OutsideInv
<1> QED
  BY <1>1, <1>2, <1>3, <1>4, <1>5, <1>6, <1>7 DEF Next

-----------------------------------------------------------------------------
(* The theorems *)

\* A delivery that says done has every recipient row marked, for any number of
\* subscribers, jobs and workers, whatever leaves, is removed or fails meanwhile
\* (send_delivery: the rows are counted again before the status is written).
THEOREM DoneIsDone == Spec => []DoneOwesNobody
<1>1. Inv => DoneOwesNobody
  BY DEF Inv
<1> QED
  BY <1>1, InitInv, StepInv, PTL DEF Spec

\* Nobody is marked as sent whose message did not leave (sent_at is set after
\* send_email returns, and committed with no other recipient's).
THEOREM MarkedWasMailed == Spec => []SentWasMailed
<1>1. Inv => SentWasMailed
  BY DEF Inv, SentInv
<1> QED
  BY <1>1, InitInv, StepInv, PTL DEF Spec

\* An issue reaches nobody twice but for a fault, and a third time but for two,
\* for any number of workers, jobs and operators who retry them (send_delivery,
\* its commit after each recipient, and the job it books for the rest).
THEOREM OnceButForFaults == Spec => []ExtrasPaidFor
<1>1. Inv => ExtrasPaidFor
  <2> SUFFICES ASSUME Inv, NEW d \in Deliveries, NEW s \in Subs PROVE mails[d][s] <= 1 + faults
    BY DEF ExtrasPaidFor
  <2>1. IsFiniteSet(Owers(d, s)) /\ mails[d][s] + Cardinality(Owers(d, s)) + Coming(d) <= 1 + faults
    BY DEF Inv, Paid
  <2>2. Cardinality(Owers(d, s)) \in Nat /\ Coming(d) \in Nat /\ mails[d][s] \in Nat /\ faults \in Nat
    BY <2>1, FS_CardinalityType DEF Coming, Inv, Base, Typed
  <2> QED
    BY <2>1, <2>2
<1> QED
  BY <1>1, InitInv, StepInv, PTL DEF Spec
=============================================================================
