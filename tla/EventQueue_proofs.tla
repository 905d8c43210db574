--------------------------- MODULE EventQueue_proofs --------------------------
(* Theorems of EventQueue, for any events, cells and delays.                  *)
EXTENDS EventQueue, SequenceTheorems, WellFoundedInduction, TLAPS

USE DelayAssumption, NoneAssumption

Elem == [ev : Events \cup {NoEvent}, left : Delays, cancel : BOOLEAN]

-----------------------------------------------------------------------------
(* The invariant: the queue, and what the events know of it.               *)

Sorted   == \A i, j \in DOMAIN queue : i < j => elem[queue[i]].left <= elem[queue[j]].left
NoRepeat == \A i, j \in DOMAIN queue : queue[i] = queue[j] => i = j
Filled   == \A c \in Cells : Queued(c) => elem[c].ev \in Events /\ (~inPulse => elem[c].left >= 1)

Has(c, e)  == c \in Cells /\ Live(c) /\ elem[c].ev = e
QueuedAt(e) == \E c \in Cells : Has(c, e)

QueueInv == Sorted /\ NoRepeat /\ Filled

\* A running event has no element, and neither has one that was cancelled or
\* struck, until it is created or reset; a cancelled event that runs has been
\* told to end.
EventInv ==
  /\ running # NoEvent => running \in processing
  /\ \A e \in processing : ~QueuedAt(e)
  /\ \A e \in cancelled \cup struck : ~QueuedAt(e)
  /\ \A e \in cancelled : running = e => e \in forced
  /\ cancelled \cap handle = {}
  /\ processing \cap struck = {}
  /\ HandlesAlive

Inv == TypeOK /\ QueueInv /\ EventInv

-----------------------------------------------------------------------------
(* Adding to the queue and taking from it.                                 *)

LEMMA LeastNat ==
  ASSUME NEW S \in SUBSET Nat, S # {}
  PROVE  \E m \in S : \A n \in S : m <= n
<1>1. PICK m \in S : \A n \in S : <<n, m>> \notin OpToRel(<, Nat)
  BY NatLessThanWellFounded, WFMin
<1>2. \A n \in S : ~(n < m)
  BY <1>1 DEF OpToRel
<1>3. QED
  BY <1>2

LEMMA PlaceTyped ==
  ASSUME TypeOK, Sorted, NEW w \in Delays
  PROVE  /\ Place(w) \in 1 .. Len(queue) + 1
         /\ \A i \in DOMAIN queue : i < Place(w) <=> elem[queue[i]].left <= w
<1>1. /\ Len(queue) \in Nat /\ DOMAIN queue = 1 .. Len(queue)
      /\ \A i \in DOMAIN queue : queue[i] \in Cells
      /\ \A c \in Cells : elem[c].left \in Int
  BY DEF TypeOK, Delays
<1>2. w \in Int
  BY DEF Delays
<1> DEFINE Later == {i \in 1 .. Len(queue) : elem[queue[i]].left > w}
           S == Later \cup {Len(queue) + 1}
<1>3. PICK k \in S : \A n \in S : k <= n
  <2>1. S \in SUBSET Nat /\ S # {}
    BY <1>1
  <2>2. QED
    BY <2>1, LeastNat
<1>4. k \in 1 .. Len(queue) + 1
  BY <1>1, <1>3
<1>5. ASSUME NEW i \in DOMAIN queue
      PROVE  i < k <=> elem[queue[i]].left <= w
  <2>1. ASSUME i < k PROVE elem[queue[i]].left <= w
    BY <1>1, <1>2, <1>3, <1>4, <1>5, <2>1
  <2>2. ASSUME i >= k PROVE elem[queue[i]].left > w
    <3>1. k \in Later
      BY <1>1, <1>3, <1>5, <2>2
    <3>2. elem[queue[k]].left <= elem[queue[i]].left
      BY <1>1, <1>5, <2>2, <3>1 DEF Sorted
    <3>3. QED
      BY <1>1, <1>2, <1>5, <3>1, <3>2
  <2>3. QED
    BY <1>1, <1>2, <1>4, <1>5, <2>1, <2>2
<1>6. QED
  BY <1>4, <1>5 DEF Place

LEMMA InsertedFacts ==
  ASSUME TypeOK, NEW c \in Cells, NEW k \in 1 .. Len(queue) + 1
  PROVE  LET r == Inserted(c, k) IN
           /\ r \in Seq(Cells) /\ DOMAIN r = 1 .. Len(queue) + 1
           /\ r[k] = c
           /\ \A i \in DOMAIN r : i < k => i \in DOMAIN queue /\ r[i] = queue[i]
           /\ \A i \in DOMAIN r : i > k => i - 1 \in DOMAIN queue /\ r[i] = queue[i - 1]
           /\ \A x : (\E i \in DOMAIN r : r[i] = x) <=> x = c \/ Queued(x)
<1> DEFINE r == Inserted(c, k)
<1>1. /\ Len(queue) \in Nat /\ DOMAIN queue = 1 .. Len(queue)
      /\ \A i \in DOMAIN queue : queue[i] \in Cells
  BY DEF TypeOK
<1>2. \A i \in 1 .. Len(queue) + 1 :
        (IF i < k THEN queue[i] ELSE IF i = k THEN c ELSE queue[i - 1]) \in Cells
  BY <1>1
<1>3. r \in [1 .. Len(queue) + 1 -> Cells]
  BY <1>2 DEF Inserted
<1>4. r \in Seq(Cells) /\ DOMAIN r = 1 .. Len(queue) + 1
  BY <1>1, <1>3
<1>5. /\ r[k] = c
      /\ \A i \in DOMAIN r : i < k => i \in DOMAIN queue /\ r[i] = queue[i]
      /\ \A i \in DOMAIN r : i > k => i - 1 \in DOMAIN queue /\ r[i] = queue[i - 1]
  BY <1>1, <1>4 DEF Inserted
<1>6. \A i \in DOMAIN queue : IF i < k THEN i \in DOMAIN r /\ r[i] = queue[i]
                              ELSE i + 1 \in DOMAIN r /\ r[i + 1] = queue[i]
  BY <1>1, <1>4 DEF Inserted
<1> HIDE DEF r
<1>7. ASSUME NEW x PROVE (\E i \in DOMAIN r : r[i] = x) <=> x = c \/ Queued(x)
  <2>1. ASSUME NEW i \in DOMAIN r, r[i] = x PROVE x = c \/ Queued(x)
    <3>1. i < k \/ i = k \/ i > k
      BY <1>4
    <3>2. QED
      BY <1>5, <2>1, <3>1 DEF Queued
  <2>2. ASSUME x = c PROVE \E i \in DOMAIN r : r[i] = x
    BY <1>4, <1>5, <2>2
  <2>3. ASSUME NEW i \in DOMAIN queue, queue[i] = x PROVE \E j \in DOMAIN r : r[j] = x
    BY <1>6, <2>3
  <2>4. QED
    BY <2>1, <2>2, <2>3 DEF Queued
<1>8. QED
  BY <1>4, <1>5, <1>7 DEF r

\* An element goes in; the others keep their event and their time.
Adds(e, c, w) ==
  /\ ~Queued(c)
  /\ queue' = Inserted(c, Place(w))
  /\ elem' \in [Cells -> Elem]
  /\ elem'[c] = [ev |-> e, left |-> w, cancel |-> FALSE]
  /\ \A d \in Cells \ {c} : elem'[d].ev = elem[d].ev /\ elem'[d].left = elem[d].left
  /\ UNCHANGED inPulse

LEMMA AddsQueueInv ==
  ASSUME TypeOK, QueueInv, NEW e \in Events, NEW c \in Cells, NEW w \in Delays, w >= 1,
         Adds(e, c, w)
  PROVE  /\ queue' \in Seq(Cells) /\ QueueInv'
         /\ \A x : Queued(x)' <=> x = c \/ Queued(x)
<1> DEFINE k == Place(w)
<1>1. /\ Len(queue) \in Nat /\ DOMAIN queue = 1 .. Len(queue)
      /\ \A i \in DOMAIN queue : queue[i] \in Cells /\ queue[i] # c
      /\ \A d \in Cells : elem[d].left \in Int
      /\ w \in Int
  BY DEF TypeOK, Delays, Adds, Queued
<1>2. /\ k \in 1 .. Len(queue) + 1
      /\ \A i \in DOMAIN queue : i < k <=> elem[queue[i]].left <= w
  BY PlaceTyped DEF QueueInv
<1> HIDE DEF k
<1>3. /\ queue' \in Seq(Cells) /\ DOMAIN queue' = 1 .. Len(queue) + 1
      /\ queue'[k] = c
      /\ \A i \in DOMAIN queue' : i < k => i \in DOMAIN queue /\ queue'[i] = queue[i]
      /\ \A i \in DOMAIN queue' : i > k => i - 1 \in DOMAIN queue /\ queue'[i] = queue[i - 1]
      /\ \A x : (\E i \in DOMAIN queue' : queue'[i] = x) <=> x = c \/ Queued(x)
  BY <1>2, InsertedFacts DEF Adds, k
<1>4. \A x : Queued(x)' <=> x = c \/ Queued(x)
  BY <1>3 DEF Queued
<1>5. /\ elem'[c].left = w /\ elem'[c].ev = e
      /\ \A i \in DOMAIN queue : elem'[queue[i]].left = elem[queue[i]].left
  BY <1>1 DEF Adds
<1>6. Sorted'
  <2>1. ASSUME NEW i \in DOMAIN queue', NEW j \in DOMAIN queue', i < j
        PROVE  elem'[queue'[i]].left <= elem'[queue'[j]].left
    <3>1. CASE j < k
      BY <1>1, <1>2, <1>3, <1>5, <2>1, <3>1 DEF QueueInv, Sorted
    <3>2. CASE j = k
      BY <1>1, <1>2, <1>3, <1>5, <2>1, <3>2
    <3>3. CASE j > k /\ i = k
      BY <1>1, <1>2, <1>3, <1>5, <2>1, <3>3
    <3>4. CASE j > k /\ i < k
      <4>1. i \in DOMAIN queue /\ j - 1 \in DOMAIN queue /\ i <= j - 1
        BY <1>1, <1>2, <1>3, <2>1, <3>4
      <4>2. elem[queue[i]].left <= elem[queue[j - 1]].left
        BY <1>1, <4>1 DEF QueueInv, Sorted
      <4>3. QED
        BY <1>3, <1>5, <3>4, <4>1, <4>2
    <3>5. CASE j > k /\ i > k
      <4>1. i - 1 \in DOMAIN queue /\ j - 1 \in DOMAIN queue /\ i - 1 < j - 1
        BY <1>1, <1>2, <1>3, <2>1, <3>5
      <4>2. elem[queue[i - 1]].left <= elem[queue[j - 1]].left
        BY <4>1 DEF QueueInv, Sorted
      <4>3. QED
        BY <1>3, <1>5, <3>5, <4>1, <4>2
    <3>6. QED
      BY <1>1, <1>2, <1>3, <2>1, <3>1, <3>2, <3>3, <3>4, <3>5
  <2>2. QED
    BY <2>1 DEF Sorted
<1>7. NoRepeat'
  <2>1. ASSUME NEW i \in DOMAIN queue', NEW j \in DOMAIN queue', i < j
        PROVE  queue'[i] # queue'[j]
    <3>1. CASE j < k
      BY <1>1, <1>2, <1>3, <2>1, <3>1 DEF QueueInv, NoRepeat
    <3>2. CASE i = k \/ j = k
      BY <1>1, <1>2, <1>3, <2>1, <3>2
    <3>3. CASE i < k /\ j > k
      BY <1>1, <1>2, <1>3, <2>1, <3>3 DEF QueueInv, NoRepeat
    <3>4. CASE i > k
      BY <1>1, <1>2, <1>3, <2>1, <3>4 DEF QueueInv, NoRepeat
    <3>5. QED
      BY <1>1, <1>2, <1>3, <2>1, <3>1, <3>2, <3>3, <3>4
  <2>2. QED
    BY <1>1, <1>3, <2>1 DEF NoRepeat
<1>8. Filled'
  BY <1>1, <1>4, <1>5 DEF QueueInv, Filled, Adds
<1>9. QED
  BY <1>3, <1>4, <1>6, <1>7, <1>8 DEF QueueInv

LEMMA DequeueFacts ==
  ASSUME TypeOK, QueueInv, queue # <<>>, Dequeue, UNCHANGED inPulse
  PROVE  /\ queue' \in Seq(Cells) /\ queue[1] \in Cells /\ Queued(queue[1])
         /\ elem' \in [Cells -> Elem]
         /\ QueueInv'
         /\ \A x : Queued(x)' <=> x # queue[1] /\ Queued(x)
         /\ \A d \in Cells : d # queue[1] => elem'[d] = elem[d]
<1>1. /\ Len(queue) \in Nat /\ Len(queue) > 0 /\ DOMAIN queue = 1 .. Len(queue)
      /\ queue' \in Seq(Cells) /\ DOMAIN queue' = 1 .. Len(queue) - 1
      /\ \A i \in DOMAIN queue' : queue'[i] = queue[i + 1]
      /\ \A i \in DOMAIN queue : queue[i] \in Cells
      /\ elem \in [Cells -> Elem]
  BY DEF TypeOK, Dequeue, Elem
<1>2. queue[1] \in Cells /\ Queued(queue[1])
  BY <1>1 DEF Queued
<1>3. Blank \in Elem
  BY DEF Blank, Elem, Delays
<1>4. /\ elem' \in [Cells -> Elem]
      /\ \A d \in Cells : d # queue[1] => elem'[d] = elem[d]
  BY <1>1, <1>3 DEF Dequeue
<1>5. \A i \in DOMAIN queue' : i + 1 \in DOMAIN queue /\ queue[i + 1] # queue[1]
  BY <1>1 DEF QueueInv, NoRepeat
<1>6. ASSUME NEW x PROVE Queued(x)' <=> x # queue[1] /\ Queued(x)
  <2>1. ASSUME Queued(x)' PROVE x # queue[1] /\ Queued(x)
    BY <1>1, <1>5, <2>1 DEF Queued
  <2>2. ASSUME x # queue[1], Queued(x) PROVE Queued(x)'
    <3>1. PICK i \in DOMAIN queue : queue[i] = x
      BY <2>2 DEF Queued
    <3>2. i - 1 \in DOMAIN queue' /\ queue'[i - 1] = x
      BY <1>1, <2>2, <3>1
    <3>3. QED
      BY <3>2 DEF Queued
  <2>3. QED
    BY <2>1, <2>2
<1>7. \A i \in DOMAIN queue' : elem'[queue'[i]] = elem[queue[i + 1]]
  BY <1>1, <1>4, <1>5
<1>8. Sorted'
  BY <1>1, <1>5, <1>7 DEF QueueInv, Sorted
<1>9. NoRepeat'
  BY <1>1, <1>5 DEF QueueInv, NoRepeat
<1>10. Filled'
  BY <1>4, <1>6 DEF QueueInv, Filled
<1>11. QED
  BY <1>1, <1>2, <1>4, <1>6, <1>8, <1>9, <1>10 DEF QueueInv

LEMMA MarkedFacts ==
  ASSUME TypeOK, NEW c \in Cells \cup {NoCell}
  PROVE  /\ Marked(c) \in [Cells -> Elem]
         /\ \A d \in Cells : /\ Marked(c)[d].ev = elem[d].ev
                             /\ Marked(c)[d].left = elem[d].left
                             /\ Marked(c)[d].cancel = (elem[d].cancel \/ (d = c /\ Queued(c)))
<1>1. elem \in [Cells -> Elem] /\ ~Queued(NoCell)
  BY DEF TypeOK, Elem, Queued
<1>2. CASE Queued(c)
  <2>1. c \in Cells /\ Marked(c) = [elem EXCEPT ![c] = [@ EXCEPT !.cancel = TRUE]]
    BY <1>1, <1>2 DEF Marked
  <2>2. [elem[c] EXCEPT !.cancel = TRUE] \in Elem
    BY <1>1, <2>1 DEF Elem
  <2>3. Marked(c) \in [Cells -> Elem]
    BY <1>1, <2>1, <2>2
  <2>4. ASSUME NEW d \in Cells
        PROVE  /\ Marked(c)[d].ev = elem[d].ev /\ Marked(c)[d].left = elem[d].left
               /\ Marked(c)[d].cancel = (elem[d].cancel \/ d = c)
    <3>1. CASE d = c
      BY <1>1, <2>1, <3>1 DEF Elem
    <3>2. CASE d # c
      BY <1>1, <2>1, <3>2 DEF Elem
    <3>3. QED
      BY <3>1, <3>2
  <2>5. QED
    BY <1>2, <2>3, <2>4
<1>3. CASE ~Queued(c)
  <2>1. Marked(c) = elem /\ \A d \in Cells : elem[d].cancel \in BOOLEAN
    BY <1>1, <1>3 DEF Marked, Elem
  <2>2. QED
    BY Zenon, <1>1, <1>3, <2>1
<1>4. QED
  BY <1>2, <1>3

LEMMA OneElement ==
  ASSUME EventInv, NEW c, NEW d, NEW e, Has(c, e), Has(d, e)
  PROVE  c = d
  BY DEF EventInv, HandlesAlive, Has

LEMMA HandleHas ==
  ASSUME TypeOK, EventInv, NEW e \in handle \ (processing \cup struck)
  PROVE  qel[e] \in Cells /\ Has(qel[e], e)
<1>1. e \in Events
  BY DEF TypeOK
<1>2. qel[e] \in Cells \cup {NoCell} /\ qel[e] # NoCell /\ Live(qel[e]) /\ elem[qel[e]].ev = e
  BY <1>1 DEF TypeOK, EventInv, HandlesAlive
<1>3. QED
  BY <1>2 DEF Has

\* EventInv from what a step does to Has and to the sets of events.
LEMMA EventInvNext ==
  ASSUME running' # NoEvent => running' \in processing',
         \A e \in processing' \cup cancelled' \cup struck' : \A c : ~Has(c, e)',
         \A e \in cancelled' : running' = e => e \in forced',
         cancelled' \cap handle' = {}, processing' \cap struck' = {},
         \A e \in handle' \ (processing' \cup struck') : \E c : qel'[e] = c /\ Has(c, e)',
         \A e, c, d : Has(c, e)' /\ Has(d, e)' => c = d
  PROVE  EventInv'
<1>1. \A e \in processing' : ~QueuedAt(e)'
  BY DEF QueuedAt
<1>2. \A e \in cancelled' \cup struck' : ~QueuedAt(e)'
  BY DEF QueuedAt
<1>3. HandlesAlive'
  <2>1. \A e \in handle' \ (processing' \cup struck') :
          qel'[e] # NoCell /\ Live(qel[e])' /\ elem'[qel'[e]].ev = e
    <3>1. ASSUME NEW e, NEW c, qel'[e] = c, Has(c, e)'
          PROVE  qel'[e] # NoCell /\ Live(qel[e])' /\ elem'[qel'[e]].ev = e
      BY <3>1 DEF Has, Live, Queued
    <3>2. QED
      BY <3>1
  <2>2. \A c, d \in Cells : Live(c)' /\ Live(d)' /\ elem'[c].ev = elem'[d].ev => c = d
    BY DEF Has
  <2>3. QED
    BY <2>1, <2>2 DEF HandlesAlive
<1>4. QED
  BY <1>1, <1>2, <1>3 DEF EventInv

-----------------------------------------------------------------------------
(* One lemma per action.                                                   *)

LEMMA InitInv == Init => Inv
<1> SUFFICES ASSUME Init PROVE Inv
  OBVIOUS
<1>1. TypeOK
  <2>1. elem \in [Cells -> [ev : Events \cup {NoEvent}, left : Delays, cancel : BOOLEAN]]
    BY DEF Init, Blank, Delays
  <2>2. queue \in Seq(Cells) /\ qel \in [Events -> Cells \cup {NoCell}]
    BY DEF Init
  <2>3. QED
    BY <2>1, <2>2 DEF Init, TypeOK
<1>2. \A c : ~Queued(c)
  BY DEF Init, Queued
<1>3. QueueInv
  BY <1>2 DEF Init, QueueInv, Sorted, NoRepeat, Filled
<1>4. EventInv
  BY <1>2 DEF Init, EventInv, HandlesAlive, Live
<1>5. QED
  BY <1>1, <1>3, <1>4 DEF Inv

LEMMA CreateInv ==
  ASSUME Inv, NEW e \in Events, NEW w \in Delays, event_create(e, w)
  PROVE  Inv'
<1> DEFINE v == Delay(w)
           x == [ev |-> e, left |-> v, cancel |-> FALSE]
<1>1. v \in Delays /\ v >= 1 /\ x \in Elem
  BY DEF Delay, Delays, Elem
<1>2. PICK c \in Cells : /\ ~Queued(c)
                         /\ queue' = Inserted(c, Place(v))
                         /\ elem' = [elem EXCEPT ![c] = x]
                         /\ qel' = [qel EXCEPT ![e] = c]
  BY DEF event_create
<1>3. /\ elem \in [Cells -> Elem] /\ qel \in [Events -> Cells \cup {NoCell}]
      /\ TypeOK /\ QueueInv /\ EventInv
  BY DEF Inv, TypeOK, Elem
<1>4. /\ ~InUse(e)
      /\ processing' = processing \ {e} /\ forced' = forced \ {e}
      /\ handle' = handle \cup {e} /\ cancelled' = cancelled \ {e}
      /\ struck' = struck \ {e} /\ running' = running /\ inPulse' = inPulse
  BY DEF event_create
<1> HIDE DEF v
<1>5. elem' \in [Cells -> Elem] /\ elem'[c] = x
      /\ \A d \in Cells : d # c => elem'[d] = elem[d]
  BY <1>1, <1>2, <1>3
<1>6. Adds(e, c, v)
  BY <1>2, <1>4, <1>5 DEF Adds
<1>7. /\ queue' \in Seq(Cells) /\ QueueInv'
      /\ \A y : Queued(y)' <=> y = c \/ Queued(y)
  BY <1>1, <1>3, <1>6, AddsQueueInv
<1>8. TypeOK'
  BY <1>2, <1>3, <1>4, <1>5, <1>7 DEF TypeOK, Elem
<1>9. \A d, f : Has(d, f)' <=> (d = c /\ f = e) \/ (d # c /\ Has(d, f))
  BY <1>2, <1>5, <1>7 DEF Has, Live
<1>10. \A d : ~Has(d, e)
  BY <1>4 DEF InUse, Has, Live
<1>11. EventInv'
  <2>1. running' # NoEvent => running' \in processing'
    BY <1>3, <1>4 DEF EventInv, InUse
  <2>2. \A f \in processing' \cup cancelled' \cup struck' : \A d : ~Has(d, f)'
    BY <1>3, <1>4, <1>9 DEF EventInv, QueuedAt, Has
  <2>3. /\ \A f \in cancelled' : running' = f => f \in forced'
        /\ cancelled' \cap handle' = {} /\ processing' \cap struck' = {}
    BY <1>3, <1>4 DEF EventInv
  <2>4. \A f \in handle' \ (processing' \cup struck') : \E d : qel'[f] = d /\ Has(d, f)'
    <3>1. ASSUME NEW f \in handle' \ (processing' \cup struck')
          PROVE  \E d : qel'[f] = d /\ Has(d, f)'
      <4>1. CASE f = e
        BY <1>2, <1>3, <1>9, <4>1
      <4>2. CASE f # e
        <5>1. f \in Events /\ f \in handle \ (processing \cup struck)
          BY <1>3, <1>4, <3>1, <4>2 DEF TypeOK
        <5>2. qel'[f] = qel[f] /\ Has(qel[f], f) /\ qel[f] \in Cells
          BY <1>2, <1>3, <4>2, <5>1, HandleHas
        <5>3. qel[f] # c
          BY <1>2, <5>2 DEF Has, Live
        <5>4. QED
          BY <1>9, <5>2, <5>3
      <4>3. QED
        BY <4>1, <4>2
    <3>2. QED
      BY <3>1
  <2>5. \A f, d, g : Has(d, f)' /\ Has(g, f)' => d = g
    BY <1>3, <1>9, <1>10, OneElement
  <2>6. QED
    BY <2>1, <2>2, <2>3, <2>4, <2>5, EventInvNext
<1>12. QED
  BY <1>7, <1>8, <1>11 DEF Inv

\* A change of the handles alone.
LEMMA ForgetInv ==
  ASSUME Inv, NEW e \in Events, Forget(e)
  PROVE  Inv'
<1>1. /\ UNCHANGED <<queue, elem, qel, processing, forced, running, inPulse, cancelled, struck>>
      /\ handle' = handle \ {e}
  BY DEF Forget, ghosts
<1>2. TypeOK' /\ QueueInv'
  BY <1>1 DEF Inv, TypeOK, QueueInv, Sorted, NoRepeat, Filled, Queued
<1>3. EventInv'
  BY <1>1 DEF Inv, EventInv, QueuedAt, Has, HandlesAlive, Live, Queued
<1>4. QED
  BY <1>2, <1>3 DEF Inv

LEMMA CancelInv ==
  ASSUME Inv, NEW e \in Events, event_cancel(e)
  PROVE  Inv'
<1>1. /\ TypeOK /\ QueueInv /\ EventInv
      /\ elem \in [Cells -> Elem] /\ qel[e] \in Cells \cup {NoCell}
  BY DEF Inv, TypeOK, Elem
<1>2. /\ e \in handle /\ handle' = handle \ {e}
      /\ forced' = (IF e \in processing THEN forced \cup {e} ELSE forced)
      /\ elem' = Marked(qel[e])
      /\ cancelled' = (IF qel[e] # NoCell THEN cancelled \cup {e} ELSE cancelled)
      /\ struck' = struck \cup Victims(e)
      /\ queue' = queue /\ qel' = qel /\ processing' = processing
      /\ running' = running /\ inPulse' = inPulse
  BY DEF event_cancel
<1>3. /\ elem' \in [Cells -> Elem]
      /\ \A d \in Cells : /\ elem'[d].ev = elem[d].ev
                          /\ elem'[d].left = elem[d].left
                          /\ elem'[d].cancel = (elem[d].cancel \/ (d = qel[e] /\ Queued(d)))
  BY <1>1, <1>2, MarkedFacts
<1>4. TypeOK'
  BY <1>1, <1>2, <1>3 DEF TypeOK, Elem, Victims
<1>5. \A d : Queued(d)' <=> Queued(d)
  BY <1>2 DEF Queued
<1>6. QueueInv'
  <2>1. \A i \in DOMAIN queue : queue[i] \in Cells
    BY <1>1 DEF TypeOK
  <2>2. Sorted' /\ NoRepeat'
    BY <1>1, <1>2, <1>3, <2>1 DEF QueueInv, Sorted, NoRepeat
  <2>3. Filled'
    BY <1>1, <1>2, <1>3, <1>5 DEF QueueInv, Filled
  <2>4. QED
    BY <2>2, <2>3 DEF QueueInv
<1>7. \A d, f : Has(d, f)' <=> Has(d, f) /\ d # qel[e]
  BY <1>3, <1>5 DEF Has, Live
<1>8. \A f : f \in Victims(e) <=> f \in Events \ {e} /\ qel[e] # NoCell /\ Has(qel[e], f)
  BY <1>1 DEF Victims, Has
<1>9. EventInv'
  <2>1. running' # NoEvent => running' \in processing'
    BY <1>1, <1>2 DEF EventInv
  <2>2. \A f \in processing' \cup cancelled' \cup struck' : \A d : ~Has(d, f)'
    <3>1. \A f \in processing \cup cancelled \cup struck : \A d : ~Has(d, f)'
      BY <1>1, <1>7 DEF EventInv, QueuedAt, Has
    <3>2. \A d : ~Has(d, e)'
      <4>1. CASE e \in processing \cup struck
        BY <3>1, <4>1
      <4>2. CASE e \notin processing \cup struck
        BY <1>1, <1>2, <1>7, <4>2, HandleHas, OneElement
      <4>3. QED
        BY <4>1, <4>2
    <3>3. \A f \in Victims(e) : \A d : ~Has(d, f)'
      BY <1>1, <1>7, <1>8, OneElement
    <3>4. QED
      BY <1>2, <3>1, <3>2, <3>3
  <2>3. \A f \in cancelled' : running' = f => f \in forced'
    BY <1>1, <1>2 DEF EventInv
  <2>4. cancelled' \cap handle' = {}
    BY <1>1, <1>2 DEF EventInv
  <2>5. processing' \cap struck' = {}
    BY <1>1, <1>2, <1>8 DEF EventInv, QueuedAt, Has
  <2>6. \A f \in handle' \ (processing' \cup struck') : \E d : qel'[f] = d /\ Has(d, f)'
    <3>1. ASSUME NEW f \in handle' \ (processing' \cup struck')
          PROVE  \E d : qel'[f] = d /\ Has(d, f)'
      <4>1. f \in handle \ (processing \cup struck) /\ f # e /\ f \in Events /\ f \notin Victims(e)
        BY <1>1, <1>2, <3>1 DEF TypeOK
      <4>2. qel[f] \in Cells /\ Has(qel[f], f)
        BY <1>1, <4>1, HandleHas
      <4>3. qel[f] # qel[e]
        BY <1>8, <4>1, <4>2
      <4>4. QED
        BY <1>2, <1>7, <4>2, <4>3
    <3>2. QED
      BY <3>1
  <2>7. \A f, c, d : Has(c, f)' /\ Has(d, f)' => c = d
    BY <1>1, <1>7, OneElement
  <2>8. QED
    BY <2>1, <2>2, <2>3, <2>4, <2>5, <2>6, <2>7, EventInvNext
<1>10. QED
  BY <1>4, <1>6, <1>9 DEF Inv

LEMMA ResetInv ==
  ASSUME Inv, NEW e \in Events, NEW w \in Delays, event_reset_time(e, w)
  PROVE  Inv'
<1> DEFINE x == [ev |-> e, left |-> w, cancel |-> FALSE]
<1>1. /\ TypeOK /\ QueueInv /\ EventInv
      /\ elem \in [Cells -> Elem] /\ qel \in [Events -> Cells \cup {NoCell}]
      /\ w >= 1 /\ x \in Elem
  BY DEF Inv, TypeOK, Elem, event_reset_time, Delays
<1>2. /\ e \in handle \ processing
      /\ struck' = (struck \ {e}) \cup Victims(e)
      /\ processing' = processing /\ forced' = forced /\ handle' = handle
      /\ running' = running /\ inPulse' = inPulse /\ cancelled' = cancelled
  BY DEF event_reset_time
<1>3. PICK c \in Cells : /\ ~Queued(c)
                         /\ queue' = Inserted(c, Place(w))
                         /\ elem' = Renewed(e, c, w)
                         /\ qel' = [qel EXCEPT ![e] = c]
  BY DEF event_reset_time
<1>4. /\ Marked(qel[e]) \in [Cells -> Elem]
      /\ \A d \in Cells : /\ Marked(qel[e])[d].ev = elem[d].ev
                          /\ Marked(qel[e])[d].left = elem[d].left
                          /\ Marked(qel[e])[d].cancel = (elem[d].cancel \/ (d = qel[e] /\ Queued(d)))
  BY <1>1, MarkedFacts
<1>5. elem' \in [Cells -> Elem] /\ elem'[c] = x
      /\ \A d \in Cells : d # c => elem'[d] = Marked(qel[e])[d]
  <2>1. elem' = [Marked(qel[e]) EXCEPT ![c] = x]
    BY <1>3 DEF Renewed
  <2>2. QED
    BY <1>1, <1>3, <1>4, <2>1
<1>6. Adds(e, c, w)
  BY <1>2, <1>3, <1>4, <1>5 DEF Adds
<1>7. /\ queue' \in Seq(Cells) /\ QueueInv'
      /\ \A y : Queued(y)' <=> y = c \/ Queued(y)
  BY <1>1, <1>6, AddsQueueInv
<1>8. TypeOK'
  BY <1>1, <1>2, <1>3, <1>5, <1>7 DEF TypeOK, Elem, Victims
<1>9. \A f : f \in Victims(e) <=> f \in Events \ {e} /\ qel[e] # NoCell /\ Has(qel[e], f)
  BY <1>1 DEF Victims, Has
<1>10. \A d : Has(d, e) => d = qel[e]
  BY <1>1, <1>2, HandleHas, OneElement DEF EventInv, QueuedAt, Has
<1>11. \A d, f : Has(d, f)' <=> (d = c /\ f = e) \/ (d # c /\ Has(d, f) /\ d # qel[e])
  <2>1. elem'[c].ev = e /\ ~elem'[c].cancel /\ Queued(c)'
    BY <1>5, <1>7
  <2>2. \A d \in Cells : d # c => /\ elem'[d].ev = elem[d].ev
                                  /\ Queued(d)' <=> Queued(d)
                                  /\ elem'[d].cancel = (elem[d].cancel \/ (d = qel[e] /\ Queued(d)))
    BY <1>4, <1>5, <1>7
  <2>3. \A f : Has(c, f)' <=> f = e
    BY <2>1 DEF Has, Live
  <2>4. \A d, f : d # c => (Has(d, f)' <=> Has(d, f) /\ d # qel[e])
    BY <2>2 DEF Has, Live
  <2>5. QED
    BY <2>3, <2>4
<1>12. EventInv'
  <2>1. running' # NoEvent => running' \in processing'
    BY <1>1, <1>2 DEF EventInv
  <2>2. \A f \in processing' \cup cancelled' \cup struck' : \A d : ~Has(d, f)'
    <3>1. \A f \in processing \cup cancelled \cup struck : f # e => \A d : ~Has(d, f)'
      BY <1>1, <1>11 DEF EventInv, QueuedAt, Has
    <3>2. e \notin processing' \cup cancelled' \cup struck'
      BY <1>1, <1>2, <1>9 DEF EventInv
    <3>3. \A f \in Victims(e) : \A d : ~Has(d, f)'
      BY <1>1, <1>9, <1>11, OneElement
    <3>4. QED
      BY <1>2, <3>1, <3>2, <3>3
  <2>3. /\ \A f \in cancelled' : running' = f => f \in forced'
        /\ cancelled' \cap handle' = {}
    BY <1>1, <1>2 DEF EventInv
  <2>4. processing' \cap struck' = {}
    BY <1>1, <1>2, <1>9 DEF EventInv, QueuedAt, Has
  <2>5. \A f \in handle' \ (processing' \cup struck') : \E d : qel'[f] = d /\ Has(d, f)'
    <3>1. ASSUME NEW f \in handle' \ (processing' \cup struck')
          PROVE  \E d : qel'[f] = d /\ Has(d, f)'
      <4>1. CASE f = e
        BY <1>1, <1>3, <1>11, <4>1
      <4>2. CASE f # e
        <5>1. f \in Events /\ f \in handle \ (processing \cup struck) /\ f \notin Victims(e)
          BY <1>1, <1>2, <3>1, <4>2 DEF TypeOK
        <5>2. qel'[f] = qel[f] /\ Has(qel[f], f) /\ qel[f] \in Cells
          BY <1>1, <1>3, <4>2, <5>1, HandleHas
        <5>3. qel[f] # c /\ qel[f] # qel[e]
          BY <1>3, <1>9, <4>2, <5>1, <5>2 DEF Has, Live
        <5>4. QED
          BY <1>11, <5>2, <5>3
      <4>3. QED
        BY <4>1, <4>2
    <3>2. QED
      BY <3>1
  <2>6. \A f, d, g : Has(d, f)' /\ Has(g, f)' => d = g
    BY <1>1, <1>10, <1>11, OneElement
  <2>7. QED
    BY <2>1, <2>2, <2>3, <2>4, <2>5, <2>6, EventInvNext
<1>13. QED
  BY <1>7, <1>8, <1>12 DEF Inv

\* Nothing happens to the events: the queue and the times alone change.
LEMMA SameEvents ==
  ASSUME EventInv, TypeOK, UNCHANGED <<qel, processing, forced, handle, running, cancelled, struck>>,
         \A d, f : Has(d, f)' <=> Has(d, f)
  PROVE  EventInv'
<1>1. running' # NoEvent => running' \in processing'
  BY DEF EventInv
<1>2. \A f \in processing' \cup cancelled' \cup struck' : \A d : ~Has(d, f)'
  BY DEF EventInv, QueuedAt, Has
<1>3. /\ \A f \in cancelled' : running' = f => f \in forced'
      /\ cancelled' \cap handle' = {} /\ processing' \cap struck' = {}
  BY DEF EventInv
<1>4. \A f \in handle' \ (processing' \cup struck') : \E d : qel'[f] = d /\ Has(d, f)'
  BY HandleHas
<1>5. \A f, c, d : Has(c, f)' /\ Has(d, f)' => c = d
  BY OneElement
<1>6. QED
  BY <1>1, <1>2, <1>3, <1>4, <1>5, EventInvNext

LEMMA PulseInv ==
  ASSUME Inv, Pulse
  PROVE  Inv'
<1>1. /\ TypeOK /\ QueueInv /\ EventInv /\ elem \in [Cells -> Elem]
      /\ \A i \in DOMAIN queue : queue[i] \in Cells /\ Queued(queue[i])
  BY DEF Inv, TypeOK, Elem, Queued
<1>2. /\ ~inPulse /\ inPulse' = TRUE
      /\ elem' = [c \in Cells |->
                    IF Queued(c) THEN [elem[c] EXCEPT !.left = @ - 1] ELSE elem[c]]
      /\ UNCHANGED <<queue, qel, processing, forced, handle, running, cancelled, struck>>
  BY DEF Pulse, ghosts
<1>3. ASSUME NEW c \in Cells
      PROVE  /\ elem'[c] \in Elem
             /\ elem'[c].ev = elem[c].ev /\ elem'[c].cancel = elem[c].cancel
             /\ Queued(c) => elem'[c].left = elem[c].left - 1
  <2>1. elem[c] \in Elem /\ (Queued(c) => elem[c].left - 1 \in Delays)
    <3>1. elem[c] \in Elem /\ (Queued(c) => elem[c].left >= 1)
      BY <1>1, <1>2 DEF QueueInv, Filled
    <3>2. QED
      BY <3>1 DEF Elem, Delays
  <2>2. CASE Queued(c)
    BY <1>2, <2>1, <2>2 DEF Elem
  <2>3. CASE ~Queued(c)
    BY <1>2, <2>1, <2>3
  <2>4. QED
    BY <2>2, <2>3
<1>4. elem' \in [Cells -> Elem]
  BY <1>2, <1>3
<1>5. TypeOK'
  BY <1>1, <1>2, <1>4 DEF TypeOK, Elem
<1>6. \A c : Queued(c)' <=> Queued(c)
  BY <1>2 DEF Queued
<1>7. \A c \in Cells : elem[c].left \in Int
  BY <1>1 DEF Elem, Delays
<1>8. \A i \in DOMAIN queue : elem'[queue[i]].left = elem[queue[i]].left - 1
  BY <1>1, <1>3
<1>9. Sorted' /\ NoRepeat'
  BY <1>1, <1>2, <1>7, <1>8 DEF QueueInv, Sorted, NoRepeat
<1>10. Filled'
  BY <1>1, <1>2, <1>3, <1>6 DEF QueueInv, Filled
<1>11. \A d, f : Has(d, f)' <=> Has(d, f)
  BY <1>3, <1>6 DEF Has, Live
<1>12. EventInv'
  BY <1>1, <1>2, <1>11, SameEvents
<1>13. QED
  BY <1>5, <1>9, <1>10, <1>12 DEF Inv, QueueInv

LEMMA SkipCancelledInv ==
  ASSUME Inv, SkipCancelled
  PROVE  Inv'
<1>1. TypeOK /\ QueueInv /\ EventInv
  BY DEF Inv
<1>2. /\ queue # <<>> /\ elem[queue[1]].cancel /\ Dequeue
      /\ UNCHANGED <<qel, processing, forced, handle, running, inPulse, cancelled, struck>>
  BY DEF SkipCancelled, HeadDue, ghosts
<1>3. /\ queue' \in Seq(Cells) /\ queue[1] \in Cells /\ Queued(queue[1])
      /\ elem' \in [Cells -> Elem]
      /\ QueueInv'
      /\ \A x : Queued(x)' <=> x # queue[1] /\ Queued(x)
      /\ \A d \in Cells : d # queue[1] => elem'[d] = elem[d]
  BY <1>1, <1>2, DequeueFacts
<1>4. TypeOK'
  BY <1>1, <1>2, <1>3 DEF TypeOK, Elem
<1>5. \A d, f : Has(d, f)' <=> Has(d, f)
  BY <1>2, <1>3 DEF Has, Live
<1>6. EventInv'
  BY <1>1, <1>2, <1>5, SameEvents
<1>7. QED
  BY <1>3, <1>4, <1>6 DEF Inv

\* The event that runs gives up its only element.
LEMMA RunInv ==
  ASSUME Inv, Run
  PROVE  Inv'
<1> PICK e : e = elem[queue[1]].ev
  OBVIOUS
<1>1. TypeOK /\ QueueInv /\ EventInv
  BY DEF Inv
<1>2. /\ queue # <<>> /\ ~elem[queue[1]].cancel /\ Dequeue
      /\ running' = e /\ processing' = processing \cup {e}
      /\ qel' = qel /\ forced' = forced /\ handle' = handle /\ inPulse' = inPulse
      /\ cancelled' = cancelled /\ struck' = struck
  BY DEF Run, HeadDue, ghosts
<1>3. /\ queue' \in Seq(Cells) /\ queue[1] \in Cells /\ Queued(queue[1])
      /\ elem' \in [Cells -> Elem]
      /\ QueueInv'
      /\ \A x : Queued(x)' <=> x # queue[1] /\ Queued(x)
      /\ \A d \in Cells : d # queue[1] => elem'[d] = elem[d]
  BY <1>1, <1>2, DequeueFacts
<1>4. e \in Events /\ Has(queue[1], e)
  <2>1. elem[queue[1]].ev \in Events
    BY <1>1, <1>3 DEF QueueInv, Filled
  <2>2. QED
    BY <1>2, <1>3, <2>1 DEF Has, Live
<1>5. TypeOK'
  BY <1>1, <1>2, <1>3, <1>4 DEF TypeOK, Elem
<1>6. \A d, f : Has(d, f)' <=> Has(d, f) /\ d # queue[1]
  BY <1>2, <1>3 DEF Has, Live
<1>7. EventInv'
  <2>1. running' # NoEvent => running' \in processing'
    BY <1>2
  <2>2. e \notin processing \cup cancelled \cup struck
    BY <1>1, <1>3, <1>4 DEF EventInv, QueuedAt
  <2>3. \A d : Has(d, e) => d = queue[1]
    BY <1>1, <1>4, OneElement
  <2>4. \A f \in processing' \cup cancelled' \cup struck' : \A d : ~Has(d, f)'
    <3>1. \A f \in processing \cup cancelled \cup struck : \A d : ~Has(d, f)'
      BY <1>1, <1>6 DEF EventInv, QueuedAt, Has
    <3>2. \A d : ~Has(d, e)'
      BY <1>6, <2>3
    <3>3. QED
      BY <1>2, <3>1, <3>2
  <2>5. /\ \A f \in cancelled' : running' = f => f \in forced'
        /\ cancelled' \cap handle' = {} /\ processing' \cap struck' = {}
    BY <1>1, <1>2, <2>2 DEF EventInv
  <2>6. \A f \in handle' \ (processing' \cup struck') : \E d : qel'[f] = d /\ Has(d, f)'
    <3>1. ASSUME NEW f \in handle' \ (processing' \cup struck')
          PROVE  \E d : qel'[f] = d /\ Has(d, f)'
      <4>1. f \in handle \ (processing \cup struck) /\ f # e
        BY <1>2, <3>1
      <4>2. Has(qel[f], f)
        BY <1>1, <4>1, HandleHas
      <4>3. qel[f] # queue[1]
        BY <1>4, <4>1, <4>2 DEF Has
      <4>4. QED
        BY <1>2, <1>6, <4>2, <4>3
    <3>2. QED
      BY <3>1
  <2>7. \A f, c, d : Has(c, f)' /\ Has(d, f)' => c = d
    BY <1>1, <1>6, OneElement
  <2>8. QED
    BY <2>1, <2>4, <2>5, <2>6, <2>7, EventInvNext
<1>8. QED
  BY <1>3, <1>5, <1>7 DEF Inv

LEMMA EndPulseInv ==
  ASSUME Inv, EndPulse
  PROVE  Inv'
<1>1. /\ TypeOK /\ QueueInv /\ EventInv
      /\ Len(queue) \in Nat /\ DOMAIN queue = 1 .. Len(queue)
      /\ \A i \in DOMAIN queue : queue[i] \in Cells
      /\ \A c \in Cells : elem[c].left \in Int
  BY DEF Inv, TypeOK, Delays
<1>2. /\ ~HeadDue /\ inPulse' = FALSE
      /\ UNCHANGED <<queue, elem, qel, processing, forced, handle, running, cancelled, struck>>
  BY DEF EndPulse, ghosts
<1>3. \A i \in DOMAIN queue : elem[queue[i]].left >= 1
  <2>1. ASSUME NEW i \in DOMAIN queue PROVE elem[queue[i]].left >= 1
    <3>1. 1 \in DOMAIN queue /\ queue # <<>> /\ (i = 1 \/ 1 < i)
      BY <1>1, <2>1
    <3>2. elem[queue[1]].left >= 1
      BY <1>1, <1>2, <3>1 DEF HeadDue
    <3>3. elem[queue[1]].left <= elem[queue[i]].left
      BY <1>1, <2>1, <3>1 DEF QueueInv, Sorted
    <3>4. QED
      BY <1>1, <2>1, <3>1, <3>2, <3>3
  <2>2. QED
    BY <2>1
<1>4. TypeOK'
  BY <1>1, <1>2 DEF TypeOK
<1>5. QueueInv'
  <2>1. Sorted' /\ NoRepeat'
    BY <1>1, <1>2 DEF QueueInv, Sorted, NoRepeat
  <2>2. Filled'
    BY <1>1, <1>2, <1>3 DEF QueueInv, Filled, Queued
  <2>3. QED
    BY <2>1, <2>2 DEF QueueInv
<1>6. \A d, f : Has(d, f)' <=> Has(d, f)
  BY <1>2 DEF Has, Live, Queued
<1>7. EventInv'
  BY <1>1, <1>2, <1>6, SameEvents
<1>8. QED
  BY <1>4, <1>5, <1>7 DEF Inv

LEMMA ReturnInv ==
  ASSUME Inv, NEW w \in Delays, Return(w)
  PROVE  Inv'
<1> DEFINE e == running
           x == [ev |-> e, left |-> w, cancel |-> FALSE]
<1>1. /\ TypeOK /\ QueueInv /\ EventInv
      /\ elem \in [Cells -> Elem] /\ qel \in [Events -> Cells \cup {NoCell}]
      /\ e \in Events
  BY DEF Inv, TypeOK, Elem, Return
<1>2. /\ running' = NoEvent /\ forced' = forced /\ handle' = handle /\ inPulse' = inPulse
      /\ cancelled' = cancelled /\ struck' = struck
  BY DEF Return, ghosts
<1>3. e \in processing /\ \A d : ~Has(d, e)
  BY <1>1 DEF EventInv, QueuedAt, Has, Return
<1>4. CASE Ends(e, w)
  <2>1. /\ queue' = queue /\ elem' = elem /\ processing' = processing
        /\ qel' = [qel EXCEPT ![e] = NoCell]
    BY <1>4 DEF Return
  <2>2. TypeOK' /\ QueueInv'
    BY <1>1, <1>2, <2>1 DEF TypeOK, QueueInv, Sorted, NoRepeat, Filled, Queued
  <2>3. \A d, f : Has(d, f)' <=> Has(d, f)
    BY <2>1 DEF Has, Live, Queued
  <2>4. \A f \in processing' \cup cancelled' \cup struck' : \A d : ~Has(d, f)'
    BY <1>1, <1>2, <2>1, <2>3 DEF EventInv, QueuedAt, Has
  <2>5. /\ \A f \in cancelled' : running' = f => f \in forced'
        /\ cancelled' \cap handle' = {} /\ processing' \cap struck' = {}
        /\ running' # NoEvent => running' \in processing'
    <3>1. NoEvent \notin cancelled
      BY <1>1 DEF TypeOK
    <3>2. QED
      BY <1>1, <1>2, <2>1, <3>1 DEF EventInv
  <2>6. \A f \in handle' \ (processing' \cup struck') : \E d : qel'[f] = d /\ Has(d, f)'
    <3>1. ASSUME NEW f \in handle' \ (processing' \cup struck')
          PROVE  \E d : qel'[f] = d /\ Has(d, f)'
      <4>1. f \in handle \ (processing \cup struck) /\ f # e
        BY <1>2, <1>3, <2>1, <3>1
      <4>2. Has(qel[f], f) /\ qel'[f] = qel[f]
        BY <1>1, <2>1, <4>1, HandleHas
      <4>3. QED
        BY <2>3, <4>2
    <3>2. QED
      BY <3>1
  <2>7. \A f, c, d : Has(c, f)' /\ Has(d, f)' => c = d
    BY <1>1, <2>3, OneElement
  <2>8. EventInv'
    BY <2>4, <2>5, <2>6, <2>7, EventInvNext
  <2>9. QED
    BY <2>2, <2>8 DEF Inv
<1>5. CASE ~Ends(e, w)
  <2>1. w >= 1 /\ e \notin forced /\ x \in Elem
    BY <1>1, <1>5 DEF Ends, Elem, Delays
  <2>2. PICK c \in Cells : /\ ~Queued(c)
                           /\ queue' = Inserted(c, Place(w))
                           /\ elem' = [elem EXCEPT ![c] = x]
                           /\ qel' = [qel EXCEPT ![e] = c]
    BY <1>5 DEF Return
  <2>3. processing' = processing \ {e}
    BY <1>5 DEF Return
  <2>4. elem' \in [Cells -> Elem] /\ elem'[c] = x
        /\ \A d \in Cells : d # c => elem'[d] = elem[d]
    BY <1>1, <2>1, <2>2
  <2>5. Adds(e, c, w)
    BY <1>2, <2>2, <2>4 DEF Adds
  <2>6. /\ queue' \in Seq(Cells) /\ QueueInv'
        /\ \A y : Queued(y)' <=> y = c \/ Queued(y)
    BY <1>1, <2>1, <2>5, AddsQueueInv
  <2>7. TypeOK'
    BY <1>1, <1>2, <2>2, <2>3, <2>4, <2>6 DEF TypeOK, Elem
  <2>8. \A d, f : Has(d, f)' <=> (d = c /\ f = e) \/ (d # c /\ Has(d, f))
    BY <2>2, <2>4, <2>6 DEF Has, Live
  <2>9. e \notin cancelled /\ e \notin struck
    BY <1>1, <1>3, <2>1 DEF EventInv
  <2>10. \A f \in processing' \cup cancelled' \cup struck' : \A d : ~Has(d, f)'
    BY <1>1, <1>2, <2>3, <2>8, <2>9 DEF EventInv, QueuedAt, Has
  <2>11. /\ \A f \in cancelled' : running' = f => f \in forced'
         /\ cancelled' \cap handle' = {} /\ processing' \cap struck' = {}
         /\ running' # NoEvent => running' \in processing'
    <3>1. NoEvent \notin cancelled
      BY <1>1 DEF TypeOK
    <3>2. QED
      BY <1>1, <1>2, <2>3, <3>1 DEF EventInv
  <2>12. \A f \in handle' \ (processing' \cup struck') : \E d : qel'[f] = d /\ Has(d, f)'
    <3>1. ASSUME NEW f \in handle' \ (processing' \cup struck')
          PROVE  \E d : qel'[f] = d /\ Has(d, f)'
      <4>1. CASE f = e
        BY <1>1, <2>2, <2>8, <4>1
      <4>2. CASE f # e
        <5>1. f \in handle \ (processing \cup struck)
          BY <1>2, <2>3, <3>1, <4>2
        <5>2. qel'[f] = qel[f] /\ Has(qel[f], f)
          BY <1>1, <2>2, <4>2, <5>1, HandleHas
        <5>3. qel[f] # c
          BY <2>2, <5>2 DEF Has, Live
        <5>4. QED
          BY <2>8, <5>2, <5>3
      <4>3. QED
        BY <4>1, <4>2
    <3>2. QED
      BY <3>1
  <2>13. \A f, d, g : Has(d, f)' /\ Has(g, f)' => d = g
    BY <1>1, <1>3, <2>8, OneElement
  <2>14. EventInv'
    BY <2>10, <2>11, <2>12, <2>13, EventInvNext
  <2>15. QED
    BY <2>6, <2>7, <2>14 DEF Inv
<1>6. QED
  BY <1>4, <1>5

-----------------------------------------------------------------------------
(* The theorems.                                                           *)

LEMMA NextInv == Inv /\ [Next]_vars => Inv'
<1> SUFFICES ASSUME Inv, [Next]_vars PROVE Inv'
  OBVIOUS
<1>1. CASE UNCHANGED vars
  <2>1. UNCHANGED <<queue, elem, qel, processing, forced, handle, running, inPulse, cancelled, struck>>
    BY <1>1 DEF vars, ghosts
  <2>2. TypeOK' /\ QueueInv'
    BY <2>1 DEF Inv, TypeOK, QueueInv, Sorted, NoRepeat, Filled, Queued
  <2>3. EventInv'
    BY <2>1 DEF Inv, EventInv, QueuedAt, Has, HandlesAlive, Live, Queued
  <2>4. QED
    BY <2>2, <2>3 DEF Inv
<1>2. CASE \E e \in Events, w \in Delays : event_create(e, w) \/ event_reset_time(e, w)
  BY <1>2, CreateInv, ResetInv
<1>3. CASE \E e \in Events : Forget(e) \/ event_cancel(e)
  BY <1>3, ForgetInv, CancelInv
<1>4. CASE Pulse
  BY <1>4, PulseInv
<1>5. CASE event_process
  BY <1>5, SkipCancelledInv, RunInv, EndPulseInv DEF event_process
<1>6. CASE Returns
  BY <1>6, ReturnInv DEF Returns
<1>7. QED
  BY <1>1, <1>2, <1>3, <1>4, <1>5, <1>6 DEF Next

THEOREM SpecInv == Spec => []Inv
  BY InitInv, NextInv, PTL DEF Spec

\* The variables keep their types: no delay falls below 0 or grows past what is
\* asked for.
THEOREM TypeCorrect == Spec => []TypeOK
<1>1. Inv => TypeOK
  BY DEF Inv
<1>2. QED
  BY <1>1, SpecInv, PTL

\* CEventQueue keeps the order of the keys, and no event is late.
THEOREM QueueOnTime == Spec => []OnTime
<1>1. Inv => OnTime
  <2>1. ASSUME TypeOK PROVE \A c \in Cells : elem[c].left >= 0
    BY <2>1 DEF TypeOK, Delays
  <2>2. ASSUME QueueInv
        PROVE  /\ \A i, j \in DOMAIN queue : i < j => elem[queue[i]].left <= elem[queue[j]].left
               /\ \A c \in Cells : Queued(c) /\ ~inPulse => elem[c].left >= 1
    BY <2>2 DEF QueueInv, Sorted, Filled
  <2>3. QED
    BY <2>1, <2>2 DEF Inv, OnTime
<1>2. QED
  BY <1>1, SpecInv, PTL

\* A handle that no write through a stale q_el has cut off leads to its event.
THEOREM HandlesStayAlive == Spec => []HandlesAlive
<1>1. Inv => HandlesAlive
  BY DEF Inv, EventInv
<1>2. QED
  BY <1>1, SpecInv, PTL

LEMMA CancelledStep ==
  ASSUME Inv, [Next]_vars, NEW e \in Events, running' = e, running # e
  PROVE  e \notin cancelled
<1>1. Run
  BY DEF Next, vars, event_create, event_reset_time, Forget, event_cancel, Pulse,
         event_process, SkipCancelled, EndPulse, Returns, Return
<1>2. queue # <<>> /\ ~elem[queue[1]].cancel /\ e = elem[queue[1]].ev
  BY <1>1 DEF Run, HeadDue
<1>3. queue[1] \in Cells /\ Queued(queue[1])
  BY <1>2 DEF Inv, TypeOK, Queued
<1>4. Has(queue[1], e)
  BY <1>2, <1>3 DEF Has, Live
<1>5. QED
  BY <1>3, <1>4 DEF Inv, EventInv, QueuedAt

\* event_cancel is final, whenever it is called: is_force_to_end outweighs what the
\* function returns, and every element of the event is marked.
THEOREM CancelledStaysQuiet == Spec => CancelledNeverRuns
<1>1. Inv /\ [Next]_vars => [\A e \in Events : running' = e /\ running # e => e \notin cancelled]_vars
  BY CancelledStep
<1>2. QED
  BY <1>1, SpecInv, PTL DEF Spec, CancelledNeverRuns
=============================================================================
