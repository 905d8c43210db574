------------------------- MODULE ItemIDRange_proofs -------------------------
(***************************************************************************)
(* Theorems about ItemIDRange.                                             *)
(***************************************************************************)
EXTENDS ItemIDRange, TLAPS, FiniteSetTheorems, SequenceTheorems, WellFoundedInduction

-----------------------------------------------------------------------------
(* Operators of the model.                                                 *)

\* A set of numbers with a member has a least one.
LEMMA LeastNat ==
  ASSUME NEW S \in SUBSET Nat, S # {}
  PROVE  \E m \in S : \A n \in S : m <= n
<1> DEFINE LT == OpToRel(<, Nat)
<1>1. PICK m \in S : \A n \in S : <<n, m>> \notin LT
  BY NatLessThanWellFounded, WFMin
<1>2. \A n \in S : ~(n < m)
  BY <1>1 DEF OpToRel
<1> QED
  BY <1>2

\* FirstFree is well defined: it stays in the block or just past it, and every
\* id of the block that is in the table is below it.
LEMMA FirstFreeType ==
  ASSUME NEW lo \in Nat, NEW hi \in Nat, lo <= hi + 1, NEW ids \in SUBSET Nat
  PROVE  /\ FirstFree(lo, hi, ids) \in lo .. hi + 1
         /\ \A i \in ids : i \in lo .. hi => i < FirstFree(lo, hi, ids)
<1> DEFINE Above == {s \in lo .. hi + 1 : \A i \in ids : i \in lo .. hi => i < s}
<1>1. hi + 1 \in Above
  OBVIOUS
<1>2. PICK s \in Above : \A t \in Above : s <= t
  <2>1. Above \in SUBSET Nat /\ Above # {}
    BY <1>1
  <2> QED
    BY <2>1, LeastNat
<1>3. s = lo \/ s - 1 \in ids
  <2>1. SUFFICES ASSUME s # lo, s - 1 \notin ids
                 PROVE  FALSE
    OBVIOUS
  <2>2. s - 1 \in lo .. hi + 1
    BY <2>1
  <2>3. \A i \in ids : i \in lo .. hi => i < s - 1
    BY <2>1
  <2>4. s - 1 \in Above
    BY <2>2, <2>3
  <2> QED
    BY <2>4, <1>2
<1>4. \E x \in lo .. hi + 1 : /\ x = lo \/ x - 1 \in ids
                              /\ \A i \in ids : i \in lo .. hi => i < x
  BY <1>3
<1> QED
  BY <1>4 DEF FirstFree

LEMMA BlockBounds ==
  ASSUME NEW k \in Nat
  PROVE  /\ MinId(k) \in Nat
         /\ MaxId(k) \in Nat
         /\ MinId(k) <= MaxId(k)
BY WidthAssumption DEF MinId, MaxId

\* Ids of different blocks are different.
LEMMA BlocksApart ==
  ASSUME NEW k \in Nat, NEW l \in Nat, k < l
  PROVE  MaxId(k) < MinId(l)
<1>1. W * (k + 1) <= W * l
  <2>1. PICK d \in Nat : l = (k + 1) + d
    BY l - (k + 1) \in Nat, l = (k + 1) + (l - (k + 1))
  <2>2. W * l = W * (k + 1) + W * d
    BY <2>1, WidthAssumption
  <2>3. W * d \in Nat
    BY WidthAssumption
  <2>4. W * (k + 1) \in Nat
    BY WidthAssumption
  <2> QED
    BY <2>2, <2>3, <2>4
<1>2. W * (k + 1) \in Nat /\ W * l \in Nat
  BY WidthAssumption
<1> QED
  BY <1>1, <1>2 DEF MinId, MaxId

LEMMA SlotsNat == Slots \in SUBSET Nat /\ 0 \notin Slots /\ IsFiniteSet(Slots)
<1>1. IsFiniteSet(1 .. NumSlots)
  BY FS_Interval, SlotAssumption
<1> QED
  BY <1>1, FS_Subset, SlotAssumption DEF Slots

LEMMA BuildRangeType ==
  ASSUME NEW k \in Slots, NEW ids \in SUBSET Nat, UsableSlot(k, ids)
  PROVE  /\ BuildRange(k, ids) \in ItemRange
         /\ BuildRange(k, ids).slot = k
<1>1. FirstFree(MinId(k), MaxId(k), ids) \in MinId(k) .. MaxId(k) + 1
  BY BlockBounds, FirstFreeType, SlotsNat
<1>2. FirstFree(MinId(k), MaxId(k), ids) + R <= MaxId(k)
  BY <1>1, BlockBounds, SlotsNat, WidthAssumption DEF UsableSlot, Usable
<1> QED
  BY <1>1, <1>2, BlockBounds, SlotsNat DEF BuildRange, ItemRange

\* Build yields blocks in strictly increasing order, none of them twice.
LEMMA BuildListsType ==
  ASSUME NEW ids \in SUBSET Nat, NEW l \in BuildLists(ids)
  PROVE  /\ l \in Seq(ItemRange)
         /\ Distinct(l)
<1> DEFINE n == Cardinality(BuildSlots(ids))
<1>1. n \in Nat
  <2>1. IsFiniteSet(Slots)
    BY SlotsNat
  <2>2. BuildSlots(ids) \in SUBSET Slots
    BY DEF BuildSlots
  <2>3. IsFiniteSet(BuildSlots(ids))
    BY <2>1, <2>2, FS_Subset
  <2> QED
    BY <2>3, FS_CardinalityType
<1>2. PICK s \in [1 .. n -> BuildSlots(ids)] :
        /\ \A i, j \in 1 .. n : i < j => s[i] < s[j]
        /\ l = [i \in 1 .. n |-> BuildRange(s[i], ids)]
  BY DEF BuildLists
<1>3. \A i \in 1 .. n : s[i] \in Slots /\ l[i] \in ItemRange /\ l[i].slot = s[i]
  BY <1>2, BuildRangeType DEF BuildSlots
<1>4. l \in Seq(ItemRange) /\ Len(l) = n
  BY <1>1, <1>2, <1>3
<1>5. \A i, j \in 1 .. n : i # j => s[i] # s[j]
  <2>1. \A i \in 1 .. n : s[i] \in Nat
    BY <1>3, SlotsNat
  <2> QED
    BY <2>1, <1>2, <1>1
<1> QED
  BY <1>3, <1>4, <1>5 DEF Distinct

LEMMA RangeFacts ==
  /\ \A r \in ItemRange : r.slot \in Slots /\ r.slot # 0 /\ r # NoRange /\ r.start \in Nat
  /\ NoRange.slot = 0
  /\ \A r \in AnyRange : r # NoRange => r \in ItemRange
  /\ NoRange \in AnyRange
  /\ NoPeer \in Peer
  /\ NoPeer.main = NoRange /\ NoPeer.spare = NoRange
BY SlotsNat DEF ItemRange, NoRange, AnyRange, NoPeer, Peer

\* Taking the head of the list: what is left has every other block, once.
LEMMA TakeHead ==
  ASSUME NEW l \in Seq(ItemRange), Distinct(l)
  PROVE  /\ GetRange(l) \in AnyRange
         /\ Rest(l) \in Seq(ItemRange)
         /\ Distinct(Rest(l))
         /\ ListSlots(Rest(l)) \subseteq ListSlots(l)
         /\ GetRange(l) # NoRange => /\ GetRange(l).slot \in ListSlots(l)
                                     /\ GetRange(l).slot \notin ListSlots(Rest(l))
<1>1. CASE l = <<>>
  BY <1>1 DEF GetRange, Rest, AnyRange
<1>2. CASE l # <<>>
  <2>1. /\ Head(l) = l[1] /\ Head(l) \in ItemRange
        /\ Tail(l) \in Seq(ItemRange)
        /\ Len(l) \in Nat /\ Len(l) > 0 /\ Len(Tail(l)) = Len(l) - 1
        /\ \A i \in 1 .. Len(Tail(l)) : Tail(l)[i] = l[i + 1] /\ i + 1 \in 1 .. Len(l)
    BY <1>2
  <2>2. Distinct(Tail(l))
    BY <2>1 DEF Distinct
  <2>3. ListSlots(Tail(l)) \subseteq ListSlots(l)
    BY <2>1 DEF ListSlots
  <2>4. l[1].slot \in ListSlots(l) /\ l[1].slot \notin ListSlots(Tail(l))
    <3>1. 1 \in 1 .. Len(l)
      BY <2>1
    <3>2. \A i \in 1 .. Len(Tail(l)) : Tail(l)[i].slot # l[1].slot
      BY <2>1, <3>1 DEF Distinct
    <3> QED
      BY <3>1, <3>2 DEF ListSlots
  <2> QED
    BY <1>2, <2>1, <2>2, <2>3, <2>4 DEF GetRange, Rest, AnyRange
<1> QED
  BY <1>1, <1>2

\* Putting a block back that is not in the list.
LEMMA PutBack ==
  ASSUME NEW l \in Seq(ItemRange), Distinct(l), NEW r \in AnyRange,
         NEW ids \in SUBSET Nat, r.slot \notin ListSlots(l)
  PROVE  /\ UpdateRange(l, r, ids) \in Seq(ItemRange)
         /\ Distinct(UpdateRange(l, r, ids))
         /\ ListSlots(UpdateRange(l, r, ids)) \subseteq ListSlots(l) \cup ({r.slot} \ {0})
<1>1. CASE ~(r # NoRange /\ UsableSlot(r.slot, ids))
  BY <1>1 DEF UpdateRange
<1>2. CASE r # NoRange /\ UsableSlot(r.slot, ids)
  <2> DEFINE b == BuildRange(r.slot, ids)
             m == Append(l, b)
  <2>1. r.slot \in Slots /\ r.slot # 0
    BY <1>2, RangeFacts
  <2>2. b \in ItemRange /\ b.slot = r.slot
    BY <1>2, <2>1, BuildRangeType
  <2> HIDE DEF b
  <2>3. /\ m \in Seq(ItemRange) /\ Len(m) = Len(l) + 1 /\ Len(l) \in Nat
        /\ \A i \in 1 .. Len(l) : m[i] = l[i]
        /\ m[Len(l) + 1] = b
    BY <2>2
  <2> HIDE DEF m
  <2>4. \A i \in 1 .. Len(l) : l[i].slot # r.slot
    BY DEF ListSlots
  <2>5. Distinct(m)
    <3>1. SUFFICES ASSUME NEW i \in 1 .. Len(m), NEW j \in 1 .. Len(m), i # j
                   PROVE  m[i].slot # m[j].slot
      BY DEF Distinct
    <3>2. CASE i = Len(l) + 1
      <4>1. j \in 1 .. Len(l)
        BY <3>1, <3>2, <2>3
      <4> QED
        BY <4>1, <3>2, <2>2, <2>3, <2>4
    <3>3. CASE j = Len(l) + 1
      <4>1. i \in 1 .. Len(l)
        BY <3>1, <3>3, <2>3
      <4> QED
        BY <4>1, <3>3, <2>2, <2>3, <2>4
    <3>4. CASE i # Len(l) + 1 /\ j # Len(l) + 1
      <4>1. i \in 1 .. Len(l) /\ j \in 1 .. Len(l)
        BY <3>4, <2>3
      <4> QED
        BY <4>1, <3>1, <2>3 DEF Distinct
    <3> QED
      BY <3>2, <3>3, <3>4
  <2>6. ListSlots(m) \subseteq ListSlots(l) \cup {r.slot}
    <3>1. SUFFICES ASSUME NEW i \in 1 .. Len(m)
                   PROVE  m[i].slot \in ListSlots(l) \cup {r.slot}
      BY DEF ListSlots
    <3>2. CASE i = Len(l) + 1
      BY <3>2, <2>2, <2>3
    <3>3. CASE i # Len(l) + 1
      <4>1. i \in 1 .. Len(l)
        BY <3>3, <2>3
      <4> QED
        BY <4>1, <2>3 DEF ListSlots
    <3> QED
      BY <3>2, <3>3
  <2>7. UpdateRange(l, r, ids) = m
    BY <1>2 DEF UpdateRange, m, b
  <2> QED
    BY <2>1, <2>3, <2>5, <2>6, <2>7
<1> QED
  BY <1>1, <1>2

-----------------------------------------------------------------------------
(* Type correctness.                                                       *)

LEMMA MsgFacts ==
  /\ Quiet \in Msg
  /\ Bare("boot") \in Msg /\ Bare("req") \in Msg /\ Bare("ack") \in Msg
  /\ \A m \in AnyRange, s \in AnyRange :
       /\ [kind |-> "bootAck", main |-> m, spare |-> s] \in Msg
       /\ [kind |-> "ack", main |-> m, spare |-> s] \in Msg
       /\ [main |-> m, spare |-> s] \in Peer
BY RangeFacts DEF Quiet, Bare, Msg, Peer

LEMMA OwnType ==
  ASSUME NEW ids \in SUBSET Nat
  PROVE  FirstFree(OwnMin, OwnMax, ids) \in Nat
BY FirstFreeType, OwnAssumption

LEMMA SetRangeType ==
  ASSUME NEW r \in AnyRange, NEW s \in AnyRange
  PROVE  SetRange(r, s) \in AnyRange
BY DEF SetRange

\* What waits to be written are ids.
LEMMA QueueTyped ==
  ASSUME queue \in Seq(Statement), NEW i \in Nat,
         Queued("REPLACE", i) \/ Queued("DELETE", i) \/ UNCHANGED queue
  PROVE  queue' \in Seq(Statement)
<1>1. ASSUME NEW op \in {"REPLACE", "DELETE"}, Queued(op, i) PROVE queue' \in Seq(Statement)
  <2> DEFINE s == [op |-> op, id |-> i]
  <2>1. s \in Statement
    BY DEF Statement
  <2>2. queue' = Append(queue, s)
    BY <1>1 DEF Queued
  <2> HIDE DEF s
  <2> QED
    BY <2>1, <2>2
<1> QED
  BY <1>1

LEMMA WaitingNat == TypeOK => Waiting \in SUBSET Nat
<1> SUFFICES ASSUME TypeOK PROVE Waiting \in SUBSET Nat
  OBVIOUS
<1>1. queue \in Seq(Statement) /\ cache \in SUBSET Nat
  BY DEF TypeOK
<1>2. \A n \in 1 .. Len(queue) : queue[n] \in Statement
  BY <1>1
<1>3. \A n \in 1 .. Len(queue) : queue[n].id \in Nat
  BY <1>2 DEF Statement
<1> QED
  BY <1>1, <1>3 DEF Waiting

LEMMA QueueRunNat == TypeOK => QueueRun \in SUBSET Nat
<1> SUFFICES ASSUME TypeOK PROVE QueueRun \in SUBSET Nat
  OBVIOUS
<1>1. queue \in Seq(Statement) /\ sql \in SUBSET Nat
  BY DEF TypeOK
<1>2. \A n \in 1 .. Len(queue) : queue[n] \in Statement
  BY <1>1
<1>3. \A n \in 1 .. Len(queue) : queue[n].id \in Nat
  BY <1>2 DEF Statement
<1> QED
  BY <1>1, <1>3 DEF QueueRun

LEMMA TypeInit == Init => TypeOK
<1> SUFFICES ASSUME Init PROVE TypeOK
  OBVIOUS
<1>1. sql \in SUBSET Nat
  BY ItemsAssumption DEF Init
<1>2. ownID \in Nat
  BY <1>1, OwnType DEF Init
<1>3. listData \in Seq(ItemRange)
  BY <1>1, BuildListsType DEF Init
<1> QED
  BY <1>1, <1>2, <1>3, RangeFacts, MsgFacts DEF Init, TypeOK

\* GetRange and Rest keep types, whether or not the list is distinct.
LEMMA HeadType ==
  ASSUME NEW l \in Seq(ItemRange)
  PROVE  GetRange(l) \in AnyRange /\ Rest(l) \in Seq(ItemRange)
BY DEF GetRange, Rest, AnyRange

LEMMA UpdateType ==
  ASSUME NEW l \in Seq(ItemRange), NEW r \in AnyRange, NEW ids \in SUBSET Nat
  PROVE  UpdateRange(l, r, ids) \in Seq(ItemRange)
<1>1. CASE r # NoRange /\ UsableSlot(r.slot, ids)
  <2>1. BuildRange(r.slot, ids) \in ItemRange
    BY <1>1, RangeFacts, BuildRangeType
  <2> QED
    BY <1>1, <2>1 DEF UpdateRange
<1>2. CASE ~(r # NoRange /\ UsableSlot(r.slot, ids))
  BY <1>2 DEF UpdateRange
<1> QED
  BY <1>1, <1>2

\* Every step of the system keeps the types.
LEMMA TypeStep == TypeOK /\ [Next]_vars => TypeOK'
<1> SUFFICES ASSUME TypeOK, [Next]_vars PROVE TypeOK'
  OBVIOUS
<1> USE DEF dbVars, gameVars, itemVars, rowVars
<1>g. ASSUME NEW g \in Games, GameStep(g) PROVE TypeOK'
  <2>1. CASE Start(g)
    BY <2>1 DEF Start, TypeOK
  <2>2. CASE GameBoot(g)
    <3> DEFINE m == wire[link[g]]
    <3>1. m \in Msg
      BY <2>2 DEF GameBoot, TypeOK
    <3>2. /\ m.main \in AnyRange /\ m.spare \in AnyRange
          /\ m.main # NoRange => m.main.start \in Nat
          /\ SetRange(spareRange[g], m.spare) \in AnyRange
      BY <3>1, RangeFacts, SetRangeType DEF Msg, TypeOK
    <3> QED
      BY <2>2, <3>2, MsgFacts DEF GameBoot, TypeOK
  <2>3. CASE NewItem(g)
    BY <2>3 DEF NewItem, TypeOK
  <2>4. CASE NewItemFromSpare(g)
    <3>1. spareRange[g] \in AnyRange /\ spareRange[g].start \in Nat
      BY <2>4, RangeFacts DEF NewItemFromSpare, TypeOK
    <3> QED
      BY <2>4, <3>1, RangeFacts, MsgFacts DEF NewItemFromSpare, TypeOK
  <2>5. CASE OutOfIDs(g)
    BY <2>5 DEF OutOfIDs, TypeOK
  <2>6. CASE GameSpare(g)
    <3>1. wire[link[g]].spare \in AnyRange
      BY <2>6 DEF GameSpare, TypeOK, Msg
    <3>2. SetRange(spareRange[g], wire[link[g]].spare) \in AnyRange
      BY <3>1, SetRangeType DEF TypeOK
    <3> QED
      BY <2>6, <3>2, MsgFacts DEF GameSpare, TypeOK
  <2>7. CASE Exit(g)
    BY <2>7, RangeFacts DEF Exit, Gone, TypeOK
  <2>8. CASE Crash(g)
    BY <2>8, RangeFacts DEF Crash, Gone, TypeOK
  <2>9. CASE Drop(g)
    BY <2>9 DEF Drop, TypeOK
  <2>10. ASSUME NEW c \in Conns, Connect(g, c) PROVE TypeOK'
    BY <2>10, RangeFacts, MsgFacts DEF Connect, TypeOK
  <2>11. ASSUME NEW i \in mem[g], Save(g, i) PROVE TypeOK'
    <3>1. i \in Nat
      BY DEF TypeOK
    <3>2. queue' \in Seq(Statement)
      BY <2>11, <3>1, QueueTyped DEF Save, TypeOK
    <3> QED
      BY <2>11, <3>1, <3>2 DEF Save, TypeOK
  <2> QED
    BY <1>g, <2>1, <2>2, <2>3, <2>4, <2>5, <2>6, <2>7, <2>8, <2>9, <2>10, <2>11 DEF GameStep
<1>d. ASSUME DbStep PROVE TypeOK'
  <2>1. ASSUME NEW c \in Conns, DbBoot(c) PROVE TypeOK'
    <3> DEFINE main  == GetRange(listData)
               spare == GetRange(Rest(listData))
    <3>1. /\ main \in AnyRange /\ spare \in AnyRange
          /\ Rest(Rest(listData)) \in Seq(ItemRange)
      BY HeadType DEF TypeOK
    <3>2. SetRange(peer[c].main, main) \in AnyRange /\ SetRange(peer[c].spare, spare) \in AnyRange
      BY <3>1, SetRangeType DEF TypeOK, Peer
    <3> HIDE DEF main, spare
    <3>3. /\ peer' = [peer EXCEPT ![c] = [main  |-> SetRange(@.main, main),
                                         spare |-> SetRange(@.spare, spare)]]
          /\ wire' = [wire EXCEPT ![c] = [kind |-> "bootAck", main |-> main, spare |-> spare]]
          /\ listData' = Rest(Rest(listData))
      BY <2>1 DEF DbBoot, main, spare
    <3>4. /\ [main |-> SetRange(peer[c].main, main), spare |-> SetRange(peer[c].spare, spare)] \in Peer
          /\ [kind |-> "bootAck", main |-> main, spare |-> spare] \in Msg
      BY <3>1, <3>2, MsgFacts
    <3>5. peer' \in [Conns -> Peer] /\ wire' \in [Conns -> Msg]
      BY <3>3, <3>4 DEF TypeOK
    <3> QED
      BY <2>1, <3>1, <3>3, <3>5 DEF DbBoot, TypeOK
  <2>2. ASSUME NEW c \in Conns, DbSpare(c) PROVE TypeOK'
    <3>1. GetRange(listData) \in AnyRange /\ Rest(listData) \in Seq(ItemRange)
      BY HeadType DEF TypeOK
    <3>2. peer[c].spare \in AnyRange
      BY DEF TypeOK, Peer
    <3>3. CASE peer[c].spare = NoRange
      <4>1. wire' = [wire EXCEPT ![c] = Bare("ack")] /\ UNCHANGED <<listData, peer>>
        BY <2>2, <3>3 DEF DbSpare, SendSpareItemIDRange, Promote
      <4> QED
        BY <2>2, <4>1, MsgFacts DEF DbSpare, SendSpareItemIDRange, Promote, TypeOK
    <3>4. CASE peer[c].spare # NoRange
      <4> DEFINE spare == GetRange(listData)
                 newPeer == [main |-> peer[c].spare, spare |-> spare]
                 ack == [kind |-> "ack", main |-> NoRange, spare |-> spare]
      <4>1. /\ peer' = [peer EXCEPT ![c] = newPeer]
            /\ wire' = [wire EXCEPT ![c] = ack]
            /\ listData' = Rest(listData)
        BY <2>2, <3>4 DEF DbSpare, SendSpareItemIDRange, Promote
      <4>2. newPeer \in Peer /\ ack \in Msg
        BY <3>1, <3>2, RangeFacts, MsgFacts
      <4> HIDE DEF newPeer, ack
      <4>3. peer' \in [Conns -> Peer] /\ wire' \in [Conns -> Msg]
        BY <4>1, <4>2 DEF TypeOK
      <4> QED
        BY <2>2, <3>1, <4>1, <4>3 DEF DbSpare, SendSpareItemIDRange, Promote, TypeOK
    <3> QED
      BY <3>3, <3>4
  <2>3. ASSUME NEW c \in Conns, RemovePeer(c) PROVE TypeOK'
    <3>1. UpdateRange(listData, peer[c].main, sql) \in Seq(ItemRange)
      BY UpdateType DEF TypeOK, Peer
    <3>2. late' \in SUBSET Nat
      BY <2>3, WaitingNat DEF RemovePeer, StartsBefore, TypeOK
    <3> QED
      BY <2>3, <3>1, <3>2, RangeFacts, MsgFacts DEF RemovePeer, TypeOK
  <2>4. ASSUME NEW i \in cache, Flush(i) PROVE TypeOK'
    <3>1. queue' \in Seq(Statement)
      BY <2>4, QueueTyped DEF Flush, TypeOK
    <3> QED
      BY <2>4, <3>1 DEF Flush, TypeOK
  <2>5. ASSUME NEW i \in cache \cup sql, Destroy(i) PROVE TypeOK'
    <3>1. queue' \in Seq(Statement)
      BY <2>5, QueueTyped DEF Destroy, TypeOK
    <3> QED
      BY <2>5, <3>1 DEF Destroy, TypeOK
  <2>8. CASE RunStatement
    <3>1. /\ Head(queue) \in Statement /\ queue' \in Seq(Statement)
          /\ sql' = Row(Head(queue), sql)
      BY <2>8 DEF RunStatement, TypeOK
    <3>2. sql' \in SUBSET Nat
      BY <3>1 DEF Row, Statement, TypeOK
    <3> QED
      BY <2>8, <3>1, <3>2 DEF RunStatement, TypeOK
  <2>6. CASE Award
    BY <2>6 DEF Award, TypeOK
  <2>7. CASE DbRestart
    <3>1. sql' \in SUBSET Nat
      BY <2>7, QueueRunNat DEF DbRestart, TypeOK
    <3>2. listData' \in Seq(ItemRange) /\ ownID' \in Nat
      BY <2>7, <3>1, BuildListsType, OwnType DEF DbRestart
    <3> QED
      BY <2>7, <3>1, <3>2, RangeFacts, MsgFacts DEF DbRestart, TypeOK
  <2> QED
    BY <1>d, <2>1, <2>2, <2>3, <2>4, <2>5, <2>6, <2>7, <2>8 DEF DbStep
<1>u. CASE UNCHANGED vars
  BY <1>u DEF vars, TypeOK
<1> QED
  BY <1>g, <1>d, <1>u DEF Next

\* Every reachable state is well typed: ranges are either zero or lie in a
\* block, and every message and record of the two processes holds such ranges.
THEOREM TypeCorrect == Spec => []TypeOK
<1>1. Init => TypeOK
  BY TypeInit
<1>2. TypeOK /\ [Next]_vars => TypeOK'
  BY TypeStep
<1> QED
  BY <1>1, <1>2, PTL DEF Spec

-----------------------------------------------------------------------------
(* Exclusive allocation in the db.                                         *)

LEMMA ExclusiveInit == Init => DbExclusive
<1> SUFFICES ASSUME Init PROVE DbExclusive
  OBVIOUS
<1>1. Distinct(listData)
  BY ItemsAssumption, BuildListsType DEF Init
<1>2. \A c \in Conns : PeerSlots(c) = {}
  BY RangeFacts DEF Init, PeerSlots
<1> QED
  BY <1>1, <1>2, RangeFacts DEF Init, DbExclusive

\* A step of a game leaves the list alone and at most clears a record.
LEMMA ExclusiveConnect ==
  ASSUME TypeOK, DbExclusive, NEW g \in Games, NEW d \in Conns, Connect(g, d)
  PROVE  DbExclusive'
<1>1. listData' = listData /\ peer' = [peer EXCEPT ![d] = NoPeer]
  BY DEF Connect
<1>2. \A c \in Conns : /\ peer'[c] = IF c = d THEN NoPeer ELSE peer[c]
                       /\ PeerSlots(c)' \subseteq PeerSlots(c)
  BY <1>1, RangeFacts DEF TypeOK, PeerSlots
<1> QED
  BY <1>1, <1>2, RangeFacts DEF DbExclusive

\* QUERY_BOOT records at most two new blocks, both taken off the list.
LEMMA ExclusiveBoot ==
  ASSUME TypeOK, DbExclusive, NEW d \in Conns, DbBoot(d)
  PROVE  DbExclusive'
<1> DEFINE main  == GetRange(listData)
           rest  == Rest(listData)
           spare == GetRange(rest)
           left  == Rest(rest)
<1>1. listData \in Seq(ItemRange) /\ Distinct(listData)
  BY DEF TypeOK, DbExclusive
<1>2. /\ main \in AnyRange /\ rest \in Seq(ItemRange) /\ Distinct(rest)
      /\ ListSlots(rest) \subseteq ListSlots(listData)
      /\ main # NoRange => /\ main.slot \in ListSlots(listData)
                           /\ main.slot \notin ListSlots(rest)
  BY <1>1, TakeHead
<1>3. /\ spare \in AnyRange /\ Distinct(left)
      /\ ListSlots(left) \subseteq ListSlots(rest)
      /\ spare # NoRange => /\ spare.slot \in ListSlots(rest)
                            /\ spare.slot \notin ListSlots(left)
  BY <1>2, TakeHead
<1>4. /\ listData' = left
      /\ peer' = [peer EXCEPT ![d] = [main  |-> SetRange(peer[d].main, main),
                                     spare |-> SetRange(peer[d].spare, spare)]]
  BY DEF DbBoot
<1> HIDE DEF main, spare, rest, left
<1> DEFINE New == {r.slot : r \in {main, spare}} \ {0}
<1>5. /\ New \subseteq ListSlots(listData)
      /\ New \cap ListSlots(left) = {}
  BY <1>2, <1>3, RangeFacts
<1>6. PeerSlots(d)' \subseteq PeerSlots(d) \cup New
  BY <1>4, RangeFacts DEF PeerSlots, SetRange, TypeOK
<1>7. \A c \in Conns \ {d} : peer'[c] = peer[c] /\ PeerSlots(c)' = PeerSlots(c)
  BY <1>4 DEF PeerSlots, TypeOK
<1>8. \A c \in Conns : PeerSlots(c) \cap ListSlots(listData) = {}
  BY DEF DbExclusive
<1>9. Distinct(listData)'
  BY <1>3, <1>4
<1>10. \A c \in Conns : PeerSlots(c)' \cap ListSlots(listData') = {}
  BY <1>2, <1>3, <1>4, <1>5, <1>6, <1>7, <1>8
<1>11. \A c, e \in Conns : c # e => PeerSlots(c)' \cap PeerSlots(e)' = {}
  BY <1>5, <1>6, <1>7, <1>8 DEF DbExclusive
<1>12. \A c \in Conns : peer'[c].main # NoRange => peer'[c].main.slot # peer'[c].spare.slot
  <2>1. SUFFICES ASSUME peer'[d].main # NoRange PROVE peer'[d].main.slot # peer'[d].spare.slot
    BY <1>7 DEF DbExclusive
  <2>2. peer[d].main \in AnyRange /\ peer[d].spare \in AnyRange
    BY DEF TypeOK, Peer
  <2>3. /\ peer'[d].main = SetRange(peer[d].main, main)
        /\ peer'[d].spare = SetRange(peer[d].spare, spare)
    BY <1>4 DEF TypeOK
  <2>4. /\ peer[d].main # NoRange => peer[d].main.slot # peer[d].spare.slot
        /\ peer[d].main # NoRange => peer[d].main.slot \notin ListSlots(listData)
        /\ peer[d].spare # NoRange => peer[d].spare.slot \notin ListSlots(listData)
    BY <1>8, <2>2, RangeFacts DEF DbExclusive, PeerSlots
  <2> QED
    BY <2>1, <2>2, <2>3, <2>4, <1>2, <1>3, RangeFacts DEF SetRange
<1> QED
  BY <1>9, <1>10, <1>11, <1>12 DEF DbExclusive

\* SendSpareItemIDRange forgets the old main block and records one new block,
\* taken off the list.
LEMMA ExclusiveSpare ==
  ASSUME TypeOK, DbExclusive, NEW d \in Conns, DbSpare(d)
  PROVE  DbExclusive'
<1> DEFINE spare == GetRange(listData)
           rest  == Rest(listData)
<1>1. listData \in Seq(ItemRange) /\ Distinct(listData)
  BY DEF TypeOK, DbExclusive
<1>2. /\ spare \in AnyRange /\ rest \in Seq(ItemRange) /\ Distinct(rest)
      /\ ListSlots(rest) \subseteq ListSlots(listData)
      /\ spare # NoRange => /\ spare.slot \in ListSlots(listData)
                            /\ spare.slot \notin ListSlots(rest)
  BY <1>1, TakeHead
<1>3. peer[d].spare \in AnyRange
  BY DEF TypeOK, Peer
<1>4. CASE peer[d].spare = NoRange
  BY <1>4 DEF DbSpare, SendSpareItemIDRange, Promote, DbExclusive, PeerSlots
<1>5. CASE peer[d].spare # NoRange
  <2>1. /\ listData' = rest
        /\ peer' = [peer EXCEPT ![d] = [main |-> peer[d].spare, spare |-> spare]]
    BY <1>5 DEF DbSpare, SendSpareItemIDRange, Promote
  <2> HIDE DEF spare, rest
  <2>2. /\ peer'[d].main = peer[d].spare /\ peer'[d].spare = spare
        /\ \A c \in Conns \ {d} : peer'[c] = peer[c] /\ PeerSlots(c)' = PeerSlots(c)
    BY <2>1 DEF TypeOK, PeerSlots
  <2>3. PeerSlots(d)' = {peer[d].spare.slot, spare.slot} \ {0}
    BY <2>2 DEF PeerSlots
  <2>4. \A c \in Conns : PeerSlots(c) \cap ListSlots(listData) = {}
    BY DEF DbExclusive
  <2>5. /\ peer[d].spare.slot \in PeerSlots(d)
        /\ spare # NoRange => spare.slot \in ListSlots(listData)
        /\ spare = NoRange => spare.slot = 0
    BY <1>2, <1>3, <1>5, RangeFacts DEF PeerSlots
  <2>6. Distinct(listData)'
    BY <1>2, <2>1
  <2>7. \A c \in Conns : PeerSlots(c)' \cap ListSlots(listData') = {}
    BY <1>2, <2>1, <2>2, <2>3, <2>4, <2>5
  <2>8. \A c, e \in Conns : c # e => PeerSlots(c)' \cap PeerSlots(e)' = {}
    BY <2>2, <2>3, <2>4, <2>5 DEF DbExclusive
  <2>9. \A c \in Conns : peer'[c].main # NoRange => peer'[c].main.slot # peer'[c].spare.slot
    <3>1. peer[d].spare.slot # spare.slot
      BY <2>4, <2>5, <1>3, <1>5, RangeFacts
    <3> QED
      BY <3>1, <2>2 DEF DbExclusive
  <2> QED
    BY <2>6, <2>7, <2>8, <2>9 DEF DbExclusive
<1> QED
  BY <1>4, <1>5

\* OnClose puts the main block of the record back and forgets the record.
LEMMA ExclusiveRemove ==
  ASSUME TypeOK, DbExclusive, NEW d \in Conns, RemovePeer(d)
  PROVE  DbExclusive'
<1> DEFINE r == peer[d].main
           new == UpdateRange(listData, r, sql)
<1>1. /\ listData \in Seq(ItemRange) /\ r \in AnyRange /\ sql \in SUBSET Nat
  BY DEF TypeOK, Peer
<1>2. r.slot \notin ListSlots(listData)
  <2>1. \A i \in 1 .. Len(listData) : listData[i] \in ItemRange
    BY <1>1
  <2>2. 0 \notin ListSlots(listData)
    BY <2>1, RangeFacts DEF ListSlots
  <2> QED
    BY <1>1, <2>2 DEF DbExclusive, PeerSlots
<1>3. /\ Distinct(new)
      /\ ListSlots(new) \subseteq ListSlots(listData) \cup ({r.slot} \ {0})
  BY <1>1, <1>2, PutBack DEF DbExclusive
<1>4. listData' = new /\ peer' = [peer EXCEPT ![d] = NoPeer]
  BY DEF RemovePeer
<1> HIDE DEF new
<1>5. /\ PeerSlots(d)' = {} /\ peer'[d] = NoPeer
      /\ \A c \in Conns \ {d} : peer'[c] = peer[c] /\ PeerSlots(c)' = PeerSlots(c)
  BY <1>4, RangeFacts DEF TypeOK, PeerSlots
<1>6. {r.slot} \ {0} \subseteq PeerSlots(d)
  BY DEF PeerSlots
<1>7. \A c \in Conns : PeerSlots(c)' \cap ListSlots(listData') = {}
  BY <1>3, <1>4, <1>5, <1>6 DEF DbExclusive
<1>8. /\ Distinct(listData)'
      /\ \A c, e \in Conns : c # e => PeerSlots(c)' \cap PeerSlots(e)' = {}
      /\ \A c \in Conns : peer'[c].main # NoRange => peer'[c].main.slot # peer'[c].spare.slot
  BY <1>3, <1>4, <1>5, RangeFacts DEF DbExclusive
<1> QED
  BY <1>7, <1>8 DEF DbExclusive

\* A restarted db has a new list and no records.
LEMMA ExclusiveRestart ==
  ASSUME TypeOK, DbRestart
  PROVE  DbExclusive'
<1>1. sql' \in SUBSET Nat
  BY QueueRunNat DEF DbRestart, TypeOK
<1>2. Distinct(listData)'
  BY <1>1, BuildListsType DEF DbRestart
<1>3. \A c \in Conns : peer'[c] = NoPeer /\ PeerSlots(c)' = {}
  BY RangeFacts DEF DbRestart, PeerSlots
<1> QED
  BY <1>2, <1>3, RangeFacts DEF DbExclusive

LEMMA ExclusiveStep == TypeOK /\ DbExclusive /\ [Next]_vars => DbExclusive'
<1> SUFFICES ASSUME TypeOK, DbExclusive, [Next]_vars PROVE DbExclusive'
  OBVIOUS
<1>0. ASSUME UNCHANGED <<listData, peer>> PROVE DbExclusive'
  BY <1>0 DEF DbExclusive, PeerSlots
<1>g. ASSUME NEW g \in Games, GameStep(g) PROVE DbExclusive'
  <2>1. ASSUME NEW c \in Conns, Connect(g, c) PROVE DbExclusive'
    BY <2>1, ExclusiveConnect
  <2>2. ASSUME ~ \E c \in Conns : Connect(g, c) PROVE UNCHANGED <<listData, peer>>
    BY <1>g, <2>2 DEF GameStep, Start, GameBoot, NewItem, NewItemFromSpare, OutOfIDs,
       GameSpare, Exit, Crash, Drop, Save, dbVars
  <2> QED
    BY <2>1, <2>2, <1>0
<1>d. ASSUME DbStep PROVE DbExclusive'
  <2>1. ASSUME NEW c \in Conns, DbBoot(c) \/ DbSpare(c) \/ RemovePeer(c) PROVE DbExclusive'
    BY <2>1, ExclusiveBoot, ExclusiveSpare, ExclusiveRemove
  <2>2. CASE DbRestart
    BY <2>2, ExclusiveRestart
  <2>3. ASSUME \/ \E i \in cache : Flush(i)
               \/ RunStatement
               \/ \E i \in cache \cup sql : Destroy(i)
               \/ Award
        PROVE  UNCHANGED <<listData, peer>>
    BY <2>3 DEF Flush, RunStatement, Destroy, Award, dbVars
  <2> QED
    BY <1>d, <2>1, <2>2, <2>3, <1>0 DEF DbStep
<1>u. CASE UNCHANGED vars
  BY <1>u, <1>0 DEF vars
<1> QED
  BY <1>g, <1>d, <1>u DEF Next

\* Whatever crashes, drops and restarts happen, the db never accounts one block
\* twice: not twice in its list, not to two connections, not to the list and a
\* connection.
THEOREM AllocationExclusive == Spec => []DbExclusive
<1>1. Init => TypeOK /\ DbExclusive
  BY TypeInit, ExclusiveInit
<1>2. TypeOK /\ DbExclusive /\ [Next]_vars => TypeOK' /\ DbExclusive'
  BY TypeStep, ExclusiveStep
<1> QED
  BY <1>1, <1>2, PTL DEF Spec

-----------------------------------------------------------------------------
(* What running games hold.                                                *)

LEMMA StartInBlock ==
  ASSUME NEW r \in AnyRange, r # NoRange
  PROVE  /\ r.slot \in Slots /\ r.slot \in Nat
         /\ r.start \in Nat /\ MinId(r.slot) <= r.start
         /\ MinId(r.slot) \in Nat /\ MaxId(r.slot) \in Nat
BY SlotsNat, BlockBounds DEF AnyRange, ItemRange

LEMMA OwnStart ==
  ASSUME NEW ids \in SUBSET Nat
  PROVE  OwnMin <= FirstFree(OwnMin, OwnMax, ids)
BY FirstFreeType, OwnAssumption

LEMMA IssuesInit == Init => IssuesInBlock
BY OwnStart, ItemsAssumption DEF Init, IssuesInBlock

LEMMA IssuesStep == TypeOK /\ IssuesInBlock /\ [Next]_vars => IssuesInBlock'
<1> SUFFICES ASSUME TypeOK, IssuesInBlock, [Next]_vars PROVE IssuesInBlock'
  OBVIOUS
<1>0. ASSUME UNCHANGED <<gameVars, ownID>> PROVE IssuesInBlock'
  BY <1>0 DEF IssuesInBlock, gameVars
<1>g. ASSUME NEW g \in Games, GameStep(g) PROVE IssuesInBlock'
  <2>1. CASE Start(g)
    BY <2>1 DEF Start, TypeOK, IssuesInBlock, itemVars, rowVars
  <2>2. CASE GameBoot(g)
    <3> DEFINE m == wire[link[g]]
    <3>1. m.main \in AnyRange
      BY <2>2 DEF GameBoot, TypeOK, Msg
    <3>2. CASE m.main = NoRange
      BY <2>2, <3>2 DEF GameBoot, BootRefused, TypeOK, IssuesInBlock, itemVars, rowVars
    <3>3. CASE m.main # NoRange
      <4>1. idRange'[g] # NoRange /\ MinId(idRange'[g].slot) <= currentID'[g]
        BY <2>2, <3>1, <3>3, StartInBlock DEF GameBoot, TypeOK
      <4>2. \A h \in Games \ {g} : /\ idRange'[h] = idRange[h]
                                   /\ currentID'[h] = currentID[h] /\ proc'[h] = proc[h]
        BY <2>2 DEF GameBoot, TypeOK
      <4> QED
        BY <2>2, <4>1, <4>2 DEF GameBoot, IssuesInBlock, itemVars, rowVars
    <3> QED
      BY <3>2, <3>3
  <2>3. CASE NewItem(g)
    <3>1. idRange[g] \in AnyRange /\ idRange[g] # NoRange /\ currentID[g] \in Nat
      BY <2>3 DEF NewItem, TypeOK, IssuesInBlock
    <3>2. MinId(idRange[g].slot) <= currentID[g] + 1
      BY <2>3, <3>1, StartInBlock DEF NewItem, IssuesInBlock
    <3> QED
      BY <2>3, <3>2 DEF NewItem, TypeOK, IssuesInBlock
  <2>4. CASE NewItemFromSpare(g)
    <3>1. spareRange[g] \in AnyRange /\ spareRange[g] # NoRange
      BY <2>4 DEF NewItemFromSpare, TypeOK
    <3>2. MinId(spareRange[g].slot) <= spareRange[g].start + 1
      BY <3>1, StartInBlock
    <3> QED
      BY <2>4, <3>1, <3>2 DEF NewItemFromSpare, TypeOK, IssuesInBlock
  <2>5. CASE OutOfIDs(g)
    BY <2>5 DEF OutOfIDs, TypeOK, IssuesInBlock, itemVars, rowVars
  <2>6. CASE GameSpare(g)
    BY <2>6 DEF GameSpare, TypeOK, IssuesInBlock, itemVars, rowVars
  <2>7. CASE Exit(g)
    BY <2>7 DEF Exit, Gone, TypeOK, IssuesInBlock
  <2>8. CASE Crash(g)
    BY <2>8 DEF Crash, Gone, TypeOK, IssuesInBlock
  <2>9. CASE Drop(g)
    BY <2>9, <1>0 DEF Drop, itemVars, rowVars
  <2>10. ASSUME NEW c \in Conns, Connect(g, c) PROVE IssuesInBlock'
    BY <2>10 DEF Connect, TypeOK, IssuesInBlock, itemVars, rowVars
  <2>11. ASSUME NEW i \in mem[g], Save(g, i) PROVE IssuesInBlock'
    BY <2>11, <1>0 DEF Save
  <2> QED
    BY <1>g, <2>1, <2>2, <2>3, <2>4, <2>5, <2>6, <2>7, <2>8, <2>9, <2>10, <2>11 DEF GameStep
<1>d. ASSUME DbStep PROVE IssuesInBlock'
  <2>1. ASSUME NEW c \in Conns, DbBoot(c) \/ DbSpare(c) \/ RemovePeer(c) PROVE IssuesInBlock'
    BY <2>1, <1>0 DEF DbBoot, DbSpare, SendSpareItemIDRange, RemovePeer, itemVars, rowVars
  <2>2. CASE DbRestart
    <3>1. sql' \in SUBSET Nat
      BY <2>2, QueueRunNat DEF DbRestart, TypeOK
    <3> QED
      BY <2>2, <3>1, OwnStart DEF DbRestart, IssuesInBlock, gameVars
  <2>3. ASSUME RunStatement \/ \E i \in cache : Flush(i) PROVE IssuesInBlock'
    BY <2>3, <1>0 DEF Flush, RunStatement
  <2>4. ASSUME NEW i \in cache \cup sql, Destroy(i) PROVE IssuesInBlock'
    BY <2>4, <1>0 DEF Destroy
  <2>5. CASE Award
    BY <2>5, OwnAssumption DEF Award, TypeOK, IssuesInBlock, gameVars
  <2> QED
    BY <1>d, <2>1, <2>2, <2>3, <2>4, <2>5 DEF DbStep
<1>u. CASE UNCHANGED vars
  BY <1>u, <1>0 DEF vars, gameVars
<1> QED
  BY <1>g, <1>d, <1>u DEF Next

\* The ids a running game can still issue lie in blocks that Build hands out,
\* below the last id of the block.
LEMMA AheadInBlocks ==
  ASSUME TypeOK, IssuesInBlock, NEW g \in Games, NEW i \in Ahead(g)
  PROVE  /\ proc[g] = "run" /\ i \in Nat
         /\ \E r \in {idRange[g], spareRange[g]} :
              /\ r \in AnyRange /\ r # NoRange
              /\ MinId(r.slot) <= i /\ i < MaxId(r.slot)
<1>1. proc[g] = "run"
  BY DEF Ahead
<1>2. /\ idRange[g] \in AnyRange /\ spareRange[g] \in AnyRange /\ currentID[g] \in Nat
      /\ idRange[g] # NoRange /\ MinId(idRange[g].slot) <= currentID[g]
  BY <1>1 DEF TypeOK, IssuesInBlock
<1>3. CASE i \in IssuableFrom(currentID[g], idRange[g])
  BY <1>1, <1>2, <1>3, StartInBlock DEF IssuableFrom, BlockLasts
<1>4. CASE i \in IssuableFrom(spareRange[g].start, spareRange[g])
  BY <1>1, <1>2, <1>4, StartInBlock DEF IssuableFrom, BlockLasts
<1> QED
  BY <1>1, <1>3, <1>4 DEF Ahead

\* A game never issues an id the db may give to an awarded item, whatever
\* crashes, drops and restarts happen.
THEOREM AwardsApart == Spec => []AwardIdsApart
<1>1. TypeOK /\ IssuesInBlock => AwardIdsApart
  <2> SUFFICES ASSUME TypeOK, IssuesInBlock, NEW g \in Games, NEW i \in Ahead(g),
                      i \in ownID .. OwnMax
               PROVE  FALSE
    BY DEF AwardIdsApart
  <2>1. PICK r \in {idRange[g], spareRange[g]} :
          /\ r \in AnyRange /\ r # NoRange
          /\ MinId(r.slot) <= i /\ i < MaxId(r.slot)
    BY AheadInBlocks
  <2>2. /\ r.slot \in Slots /\ MinId(r.slot) \in Nat /\ MaxId(r.slot) \in Nat
        /\ i \in Nat /\ OwnMin <= ownID /\ ownID \in Nat
    BY <2>1, StartInBlock, AheadInBlocks DEF IssuesInBlock, TypeOK
  <2> QED
    BY <2>1, <2>2, ConfAssumption, OwnAssumption
<1>2. Init => TypeOK /\ IssuesInBlock
  BY TypeInit, IssuesInit
<1>3. TypeOK /\ IssuesInBlock /\ [Next]_vars => TypeOK' /\ IssuesInBlock'
  BY TypeStep, IssuesStep
<1> QED
  BY <1>1, <1>2, <1>3, PTL DEF Spec

\* A running game issues ids from inside its block, and the db from its own
\* range, whatever is spared, lost, restarted or returned.
THEOREM IssuesStayInBlock == Spec => []IssuesInBlock
<1>1. Init => TypeOK /\ IssuesInBlock
  BY TypeInit, IssuesInit
<1>2. TypeOK /\ IssuesInBlock /\ [Next]_vars => TypeOK' /\ IssuesInBlock'
  BY TypeStep, IssuesStep
<1> QED
  BY <1>1, <1>2, PTL DEF Spec

-----------------------------------------------------------------------------
(* No two games issue the same id, as long as connections last.            *)

ConnectionsLast == "drop" \notin Events /\ "restart" \notin Events

LEMMA RecordInit == Init => RecordAgrees
BY DEF Init, RecordAgrees, LinksApart, GameAgrees

\* A step that changes nothing of a game, nor of its connection, keeps its
\* agreement.
LEMMA AgreesFrame ==
  ASSUME TypeOK, NEW h \in Games, GameAgrees(h),
         proc'[h] = proc[h], link'[h] = link[h],
         idRange'[h] = idRange[h], spareRange'[h] = spareRange[h],
         link[h] \in peers => /\ link[h] \in peers'
                              /\ peer'[link[h]] = peer[link[h]]
                              /\ wire'[link[h]] = wire[link[h]]
  PROVE  GameAgrees(h)'
<1>1. CASE link[h] \in peers
  BY <1>1 DEF GameAgrees, RunAgrees, BootAgrees
<1>2. CASE link[h] \notin peers
  BY <1>2 DEF GameAgrees
<1> QED
  BY <1>1, <1>2

\* What a game's own step must show: the links stay apart, it agrees
\* afterwards, and it disturbs no connection but its own.
LEMMA RecordOfGame ==
  ASSUME TypeOK, RecordAgrees, NEW g \in Games,
         UNCHANGED <<peers, peer>>, LinksApart', GameAgrees(g)',
         \A h \in Games \ {g} : /\ proc'[h] = proc[h] /\ link'[h] = link[h]
                               /\ idRange'[h] = idRange[h]
                               /\ spareRange'[h] = spareRange[h],
         \A c \in Conns : c # link[g] => wire'[c] = wire[c]
  PROVE  RecordAgrees'
<1>1. SUFFICES ASSUME NEW h \in Games, h # g PROVE GameAgrees(h)'
  BY DEF RecordAgrees
<1>2. link[h] \in peers => link[h] \in Conns /\ link[h] # NoConn /\ link[h] # link[g]
  BY <1>1, ConnAssumption DEF TypeOK, RecordAgrees, LinksApart
<1> QED
  BY <1>1, <1>2, AgreesFrame DEF RecordAgrees

LEMMA RecordGame ==
  ASSUME TypeOK, RecordAgrees, IssuesInBlock, ConnectionsLast,
         NEW g \in Games, GameStep(g)
  PROVE  RecordAgrees'
<1> USE DEF dbVars, gameVars, itemVars, rowVars
<1>a. LinksApart /\ GameAgrees(g)
  BY DEF RecordAgrees
<1>1. CASE Start(g)
  <2>1. GameAgrees(g)'
    BY <1>1 DEF Start, GameAgrees, TypeOK
  <2> QED
    BY <1>1, <1>a, <2>1, RecordOfGame DEF Start, LinksApart, TypeOK
<1>2. CASE GameBoot(g)
  <2> DEFINE c == link[g]
             m == wire[c]
  <2>1. /\ c \in peers /\ c \in Conns /\ m.main = peer[c].main /\ m.spare = peer[c].spare
    BY <1>a, <1>2 DEF GameBoot, GameAgrees, BootAgrees, TypeOK
  <2>2. wire'[c] = Quiet /\ link' = link /\ peer' = peer /\ peers' = peers
    BY <1>2, <2>1 DEF GameBoot, TypeOK
  <2>3. proc'[g] \in {"stop", "run"}
    BY <1>2 DEF GameBoot, TypeOK
  <2>4. proc'[g] = "run" => idRange'[g] = m.main /\ spareRange'[g] = m.spare
    BY <1>2 DEF GameBoot, BootRefused, TypeOK, SetRange
  <2>5. GameAgrees(g)'
    BY <2>1, <2>2, <2>3, <2>4 DEF GameAgrees, RunAgrees, Quiet, Bare
  <2> QED
    BY <1>2, <1>a, <2>5, RecordOfGame DEF GameBoot, LinksApart, TypeOK
<1>3. CASE NewItem(g)
  <2>1. GameAgrees(g)'
    BY <1>3, <1>a DEF NewItem, GameAgrees, RunAgrees
  <2> QED
    BY <1>3, <1>a, <2>1, RecordOfGame DEF NewItem, LinksApart
<1>4. CASE NewItemFromSpare(g)
  <2> DEFINE c == link[g]
  <2>1. c \in peers /\ c \in Conns /\ c # NoConn /\ RunAgrees(g, peer[c], wire[c])
    BY <1>a, <1>4, ConnAssumption DEF NewItemFromSpare, GameAgrees, TypeOK
  <2>2. spareRange[g] = peer[c].spare
    BY <1>4, <2>1 DEF NewItemFromSpare, RunAgrees
  <2>3. /\ wire'[c] = Bare("req") /\ link' = link /\ peer' = peer /\ peers' = peers
        /\ idRange'[g] = spareRange[g] /\ spareRange'[g] = NoRange /\ proc' = proc
        /\ proc[g] = "run"
    BY <1>4, <2>1 DEF NewItemFromSpare, TypeOK
  <2>4. GameAgrees(g)'
    BY <2>1, <2>2, <2>3 DEF GameAgrees, RunAgrees, Bare
  <2> QED
    BY <1>4, <1>a, <2>4, RecordOfGame DEF NewItemFromSpare, LinksApart, TypeOK
<1>5. CASE OutOfIDs(g)
  <2>1. GameAgrees(g)'
    BY <1>5, <1>a DEF OutOfIDs, GameAgrees, TypeOK
  <2> QED
    BY <1>5, <1>a, <2>1, RecordOfGame DEF OutOfIDs, LinksApart, TypeOK
<1>6. CASE GameSpare(g)
  <2> DEFINE c == link[g]
             m == wire[c]
  <2>1. c \in peers /\ c \in Conns /\ m \in Msg /\ m.kind = "ack"
    BY <1>a, <1>6 DEF GameSpare, GameAgrees, TypeOK
  <2>2. /\ wire'[c] = Quiet /\ link' = link /\ peer' = peer /\ peers' = peers /\ proc' = proc
        /\ idRange' = idRange /\ spareRange'[g] = SetRange(spareRange[g], m.spare)
    BY <1>6, <2>1 DEF GameSpare, TypeOK
  <2>3. proc[g] = "run" => /\ idRange[g] = peer[c].main /\ spareRange[g] = NoRange
                           /\ m.spare = peer[c].spare
    BY <1>a, <2>1 DEF GameAgrees, RunAgrees
  <2>4. GameAgrees(g)'
    BY <1>6, <2>1, <2>2, <2>3 DEF GameSpare, GameAgrees, RunAgrees, Quiet, Bare, SetRange
  <2> QED
    BY <1>6, <1>a, <2>4, RecordOfGame DEF GameSpare, LinksApart, TypeOK
<1>7. CASE Exit(g) \/ Crash(g)
  <2>1. Gone(g) /\ UNCHANGED <<dbVars, wire>>
    BY <1>7 DEF Exit, Crash
  <2>2. GameAgrees(g)'
    BY <2>1 DEF Gone, GameAgrees, TypeOK
  <2> QED
    BY <2>1, <1>a, <2>2, RecordOfGame DEF Gone, LinksApart, TypeOK
<1>8. CASE Drop(g)
  BY <1>8 DEF Drop, ConnectionsLast
<1>9. ASSUME NEW c \in Conns, Connect(g, c) PROVE RecordAgrees'
  <2>1. proc[g] = "fresh"
    BY <1>9, <1>a, ConnAssumption DEF Connect, GameAgrees, TypeOK
  <2>2. /\ link'[g] = c /\ peer'[c] = NoPeer /\ wire'[c] = Bare("boot") /\ proc'[g] = "booting"
        /\ c \in peers'
    BY <1>9, <2>1 DEF Connect, TypeOK
  <2>3. GameAgrees(g)'
    BY <2>2 DEF GameAgrees, BootAgrees, Bare
  <2>4. \A h \in Games \ {g} : /\ link'[h] = link[h] /\ link[h] # c
                               /\ proc'[h] = proc[h]
    <3>1. SUFFICES ASSUME NEW h \in Games \ {g}
                   PROVE  link'[h] = link[h] /\ link[h] # c /\ proc'[h] = proc[h]
      OBVIOUS
    <3>2. GameAgrees(h)
      BY DEF RecordAgrees
    <3>3. link[h] # c
      BY <1>9, <3>2, ConnAssumption DEF Connect, GameAgrees, TypeOK
    <3> QED
      BY <1>9, <3>3 DEF Connect, TypeOK
  <2>5. LinksApart'
    BY <1>9, <1>a, <2>2, <2>4, ConnAssumption DEF LinksApart
  <2>6. \A h \in Games \ {g} : GameAgrees(h)'
    <3>1. SUFFICES ASSUME NEW h \in Games \ {g} PROVE GameAgrees(h)'
      OBVIOUS
    <3>2. GameAgrees(h)
      BY DEF RecordAgrees
    <3>3. link[h] \in peers => /\ link[h] \in peers'
                               /\ peer'[link[h]] = peer[link[h]]
                               /\ wire'[link[h]] = wire[link[h]]
      BY <1>9, <2>4 DEF Connect, TypeOK
    <3> QED
      BY <1>9, <2>4, <3>2, <3>3, AgreesFrame DEF Connect
  <2> QED
    BY <2>3, <2>5, <2>6 DEF RecordAgrees
<1>10. ASSUME NEW i \in mem[g], Save(g, i) PROVE RecordAgrees'
  <2>1. GameAgrees(g)'
    BY <1>10, <1>a DEF Save, GameAgrees, RunAgrees
  <2> QED
    BY <1>10, <1>a, <2>1, RecordOfGame DEF Save, LinksApart
<1> QED
  BY <1>1, <1>2, <1>3, <1>4, <1>5, <1>6, <1>7, <1>8, <1>9, <1>10 DEF GameStep

\* What a step of the db must show: the game at the other end of the connection
\* it serves agrees afterwards.
LEMMA RecordOfDb ==
  ASSUME TypeOK, RecordAgrees, NEW c \in Conns,
         UNCHANGED <<peers, link, proc, idRange, spareRange>>,
         \A d \in Conns \ {c} : peer'[d] = peer[d] /\ wire'[d] = wire[d],
         \A g \in Games : link[g] = c => GameAgrees(g)'
  PROVE  RecordAgrees'
<1>1. LinksApart'
  BY DEF RecordAgrees, LinksApart
<1>2. ASSUME NEW g \in Games, link[g] # c PROVE GameAgrees(g)'
  <2>1. link[g] \in peers => link[g] \in Conns \ {c}
    BY <1>2 DEF TypeOK
  <2> QED
    BY <2>1, AgreesFrame DEF RecordAgrees
<1> QED
  BY <1>1, <1>2 DEF RecordAgrees

LEMMA RecordBoot ==
  ASSUME TypeOK, RecordAgrees, NEW c \in Conns, DbBoot(c)
  PROVE  RecordAgrees'
<1> DEFINE main  == GetRange(listData)
           spare == GetRange(Rest(listData))
<1>1. /\ peer'[c] = [main |-> SetRange(peer[c].main, main), spare |-> SetRange(peer[c].spare, spare)]
      /\ wire'[c] = [kind |-> "bootAck", main |-> main, spare |-> spare]
      /\ \A d \in Conns \ {c} : peer'[d] = peer[d] /\ wire'[d] = wire[d]
      /\ UNCHANGED <<peers, link, proc, idRange, spareRange>>
      /\ wire[c].kind = "boot"
  BY DEF DbBoot, TypeOK, gameVars
<1> HIDE DEF main, spare
<1>2. ASSUME NEW g \in Games, link[g] = c PROVE GameAgrees(g)'
  <2>1. GameAgrees(g)
    BY DEF RecordAgrees
  <2>2. proc[g] # "run"
    BY <1>1, <1>2, <2>1 DEF GameAgrees, RunAgrees
  <2>3. proc[g] = "booting" => peer[c] = NoPeer
    BY <1>1, <1>2, <2>1 DEF GameAgrees, BootAgrees
  <2>4. proc[g] = "booting" => BootAgrees(peer'[c], wire'[c])
    BY <1>1, <2>3, RangeFacts DEF BootAgrees, SetRange
  <2> QED
    BY <1>1, <1>2, <2>1, <2>2, <2>4 DEF GameAgrees
<1> QED
  BY <1>1, <1>2, RecordOfDb

LEMMA RecordSpare ==
  ASSUME TypeOK, RecordAgrees, IssuesInBlock, NEW c \in Conns, DbSpare(c)
  PROVE  RecordAgrees'
<1>1. /\ wire[c].kind = "req" /\ UNCHANGED <<peers, link, proc, idRange, spareRange>>
      /\ \A d \in Conns \ {c} : peer'[d] = peer[d] /\ wire'[d] = wire[d]
  BY DEF DbSpare, SendSpareItemIDRange, Promote, TypeOK, gameVars
<1>2. ASSUME NEW g \in Games, link[g] = c PROVE GameAgrees(g)'
  <2>1. GameAgrees(g)
    BY DEF RecordAgrees
  <2>2. proc[g] # "booting"
    BY <1>1, <1>2, <2>1 DEF GameAgrees, BootAgrees
  <2>3. proc[g] = "run" => /\ idRange[g] = peer[c].spare /\ spareRange[g] = NoRange
                           /\ peer[c].spare # NoRange
    BY <1>1, <1>2, <2>1 DEF GameAgrees, RunAgrees, IssuesInBlock
  <2>4. peer[c].spare # NoRange =>
          /\ peer'[c] = [main |-> peer[c].spare, spare |-> GetRange(listData)]
          /\ wire'[c] = [kind |-> "ack", main |-> NoRange, spare |-> GetRange(listData)]
    BY DEF DbSpare, SendSpareItemIDRange, Promote, TypeOK
  <2>5. proc[g] = "run" => RunAgrees(g, peer[c], wire[c])'
    BY <1>1, <2>3, <2>4 DEF RunAgrees
  <2> QED
    BY <1>1, <1>2, <2>1, <2>2, <2>5 DEF GameAgrees
<1> QED
  BY <1>1, <1>2, RecordOfDb

LEMMA RecordRemove ==
  ASSUME TypeOK, RecordAgrees, NEW c \in Conns, RemovePeer(c)
  PROVE  RecordAgrees'
<1>1. /\ UNCHANGED <<link, proc, idRange, spareRange>>
      /\ peers' = peers \ {c} /\ \A g \in Games : link[g] # c
      /\ \A d \in Conns \ {c} : peer'[d] = peer[d] /\ wire'[d] = wire[d]
  BY DEF RemovePeer, TypeOK, gameVars
<1>2. LinksApart'
  BY <1>1 DEF RecordAgrees, LinksApart
<1>3. ASSUME NEW g \in Games PROVE GameAgrees(g)'
  BY <1>1, AgreesFrame DEF TypeOK, RecordAgrees
<1> QED
  BY <1>2, <1>3 DEF RecordAgrees

LEMMA RecordStep ==
  TypeOK /\ IssuesInBlock /\ RecordAgrees /\ ConnectionsLast /\ [Next]_vars => RecordAgrees'
<1> SUFFICES ASSUME TypeOK, IssuesInBlock, RecordAgrees, ConnectionsLast, [Next]_vars
             PROVE  RecordAgrees'
  OBVIOUS
<1>0. ASSUME UNCHANGED <<peers, peer, wire, link, proc, idRange, spareRange>> PROVE RecordAgrees'
  BY <1>0 DEF RecordAgrees, LinksApart, GameAgrees, RunAgrees, BootAgrees
<1>1. ASSUME NEW g \in Games, GameStep(g) PROVE RecordAgrees'
  BY <1>1, RecordGame
<1>2. ASSUME DbStep PROVE RecordAgrees'
  <2>1. ASSUME NEW c \in Conns, DbBoot(c) \/ DbSpare(c) \/ RemovePeer(c) PROVE RecordAgrees'
    BY <2>1, RecordBoot, RecordSpare, RecordRemove
  <2>2. CASE DbRestart
    BY <2>2 DEF DbRestart, ConnectionsLast
  <2>3. ASSUME \/ \E i \in cache : Flush(i)
               \/ RunStatement
               \/ \E i \in cache \cup sql : Destroy(i)
               \/ Award
        PROVE  RecordAgrees'
    BY <2>3, <1>0 DEF Flush, RunStatement, Destroy, Award, dbVars, gameVars
  <2> QED
    BY <1>2, <2>1, <2>2, <2>3 DEF DbStep
<1>3. CASE UNCHANGED vars
  BY <1>3, <1>0 DEF vars
<1> QED
  BY <1>1, <1>2, <1>3 DEF Next

\* The record by which the db returns or forgets a game's block is what the game
\* holds, for any number of games and any timing of their ends and crashes.
THEOREM RecordsStayTrue == ConnectionsLast => (Spec => []RecordAgrees)
<1> DEFINE Inv == TypeOK /\ DbExclusive /\ IssuesInBlock /\ RecordAgrees
<1> SUFFICES ASSUME ConnectionsLast PROVE Spec => []RecordAgrees
  OBVIOUS
<1>1. Init => Inv
  BY TypeInit, ExclusiveInit, IssuesInit, RecordInit
<1>2. Inv /\ [Next]_vars => Inv'
  BY TypeStep, ExclusiveStep, IssuesStep, RecordStep
<1> QED
  BY <1>1, <1>2, PTL DEF Spec

\* A running game's two blocks are recorded for its connection.
LEMMA BlocksRecorded ==
  ASSUME TypeOK, RecordAgrees, NEW g \in Games, proc[g] = "run"
  PROVE  /\ link[g] \in Conns /\ link[g] # NoConn
         /\ \A r \in {idRange[g], spareRange[g]} :
              r \in AnyRange /\ r # NoRange => r.slot \in PeerSlots(link[g])
<1>1. link[g] \in peers /\ RunAgrees(g, peer[link[g]], wire[link[g]])
  BY DEF RecordAgrees, GameAgrees
<1>2. \A r \in {idRange[g], spareRange[g]} : r # NoRange => r \in {peer[link[g]].main, peer[link[g]].spare}
  BY <1>1 DEF RunAgrees
<1> QED
  BY <1>1, <1>2, RangeFacts, ConnAssumption DEF TypeOK, PeerSlots

\* Two running games never hold a common id, as long as no connection breaks
\* under a running game and the db does not restart: games may end and crash.
THEOREM IdsExclusive == ConnectionsLast => (Spec => []NoSharedAhead)
<1> DEFINE Inv == TypeOK /\ DbExclusive /\ IssuesInBlock /\ RecordAgrees
<1> SUFFICES ASSUME ConnectionsLast PROVE Spec => []NoSharedAhead
  OBVIOUS
<1>1. Inv => NoSharedAhead
  <2> SUFFICES ASSUME Inv, NEW g \in Games, NEW h \in Games, g # h,
                      NEW i \in Ahead(g), i \in Ahead(h)
               PROVE  FALSE
    BY DEF NoSharedAhead
  <2>1. PICK r \in {idRange[g], spareRange[g]} :
          /\ r \in AnyRange /\ r # NoRange /\ MinId(r.slot) <= i /\ i < MaxId(r.slot)
    BY AheadInBlocks
  <2>2. PICK s \in {idRange[h], spareRange[h]} :
          /\ s \in AnyRange /\ s # NoRange /\ MinId(s.slot) <= i /\ i < MaxId(s.slot)
    BY AheadInBlocks
  <2>3. /\ link[g] \in Conns /\ link[h] \in Conns /\ link[g] # link[h]
        /\ r.slot \in PeerSlots(link[g]) /\ s.slot \in PeerSlots(link[h])
    BY <2>1, <2>2, AheadInBlocks, BlocksRecorded DEF RecordAgrees, LinksApart
  <2>4. r.slot # s.slot
    BY <2>3 DEF DbExclusive
  <2>5. /\ r.slot \in Nat /\ s.slot \in Nat /\ i \in Nat
        /\ MinId(r.slot) \in Nat /\ MaxId(r.slot) \in Nat
        /\ MinId(s.slot) \in Nat /\ MaxId(s.slot) \in Nat
    BY <2>1, <2>2, StartInBlock, AheadInBlocks
  <2>6. CASE r.slot < s.slot
    BY <2>1, <2>2, <2>5, <2>6, BlocksApart
  <2>7. CASE s.slot < r.slot
    BY <2>1, <2>2, <2>5, <2>7, BlocksApart
  <2> QED
    BY <2>4, <2>5, <2>6, <2>7
<1>2. Init => Inv
  BY TypeInit, ExclusiveInit, IssuesInit, RecordInit
<1>3. Inv /\ [Next]_vars => Inv'
  BY TypeStep, ExclusiveStep, IssuesStep, RecordStep
<1> QED
  BY <1>1, <1>2, <1>3, PTL DEF Spec

-----------------------------------------------------------------------------
(* An id a game can still issue names an item only if the item's row was late, *)
(* as long as connections last.                                               *)

\* The items the db's blocks do not begin before.
Known == Items \ late

\* Id i lies in block k, below its last id.
InBlock(i, k) == MinId(k) <= i /\ i < MaxId(k)

\* Of the ids of S, those in the block of range r are below id.
UnusedFrom(S, id, r) == r # NoRange => \A i \in S : InBlock(i, r.slot) => i < id
Fresh(S, r) == UnusedFrom(S, r.start, r)
AllFresh(S, l) == \A n \in 1 .. Len(l) : Fresh(S, l[n])

\* The blocks a running game holds, and those under way to it, name no item
\* from the id on at which the game would issue from them.
GameFresh(g) ==
  /\ proc[g] = "run" =>
       /\ UnusedFrom(Known, currentID[g], idRange[g])
       /\ Fresh(Known, spareRange[g])
       /\ wire[link[g]].kind = "ack" => Fresh(Known, wire[link[g]].spare)
  /\ proc[g] = "booting" /\ wire[link[g]].kind = "bootAck" =>
       Fresh(Known, wire[link[g]].main) /\ Fresh(Known, wire[link[g]].spare)

\* An item that a game has not saved, and the table does not show, is in no
\* block the db could give out, nor in one it could take back from another game.
MemKept(g) ==
  /\ proc[g] \in {"down", "fresh", "booting"} => mem[g] = {}
  /\ \A i \in mem[g], k \in Slots : InBlock(i, k) =>
       /\ k \notin ListSlots(listData)
       /\ \A c \in Conns : c # link[g] => k \notin PeerSlots(c)

RangesFresh ==
  /\ AllFresh(Known, listData)
  /\ \A g \in Games : GameFresh(g) /\ MemKept(g)

\* An id lies in one block only.
LEMMA OneBlock ==
  ASSUME NEW i \in Nat, NEW k \in Nat, NEW l \in Nat, InBlock(i, k), InBlock(i, l)
  PROVE  k = l
<1>1. /\ MinId(k) \in Nat /\ MaxId(k) \in Nat /\ MinId(l) \in Nat /\ MaxId(l) \in Nat
  BY BlockBounds
<1>2. CASE k < l
  BY <1>1, <1>2, BlocksApart DEF InBlock
<1>3. CASE l < k
  BY <1>1, <1>3, BlocksApart DEF InBlock
<1> QED
  BY <1>2, <1>3

\* BuildRange starts behind every id of the block that it read.
LEMMA BuiltFresh ==
  ASSUME NEW k \in Slots, NEW ids \in SUBSET Nat, NEW S \in SUBSET Nat,
         \A i \in S : InBlock(i, k) => i \in ids \/ i < BuildRange(k, ids).start
  PROVE  Fresh(S, BuildRange(k, ids))
<1>1. MinId(k) \in Nat /\ MaxId(k) \in Nat /\ MinId(k) <= MaxId(k) + 1
  BY SlotsNat, BlockBounds
<1>2. \A i \in ids : i \in MinId(k) .. MaxId(k) => i < FirstFree(MinId(k), MaxId(k), ids)
  BY <1>1, FirstFreeType
<1>3. \A i \in S : InBlock(i, k) => i \in MinId(k) .. MaxId(k)
  BY <1>1 DEF InBlock
<1> QED
  BY <1>2, <1>3 DEF Fresh, UnusedFrom, BuildRange

\* Build and UpdateRange put fresh blocks in the list, taking from it keeps
\* the rest.
LEMMA ListsFresh ==
  ASSUME NEW ids \in SUBSET Nat, NEW l \in BuildLists(ids)
  PROVE  AllFresh(ids, l)
<1> DEFINE n == Cardinality(BuildSlots(ids))
<1>1. n \in Nat
  BY SlotsNat, FS_Subset, FS_CardinalityType DEF BuildSlots
<1>2. PICK s \in [1 .. n -> BuildSlots(ids)] : l = [i \in 1 .. n |-> BuildRange(s[i], ids)]
  BY DEF BuildLists
<1>3. \A i \in 1 .. n : s[i] \in Slots /\ Fresh(ids, BuildRange(s[i], ids))
  BY <1>2, BuiltFresh DEF BuildSlots
<1>4. \A i \in 1 .. n : Fresh(ids, l[i])
  BY <1>2, <1>3
<1>5. Len(l) = n
  BY <1>1, <1>2
<1> QED
  BY <1>4, <1>5 DEF AllFresh

LEMMA TakeFresh ==
  ASSUME NEW l \in Seq(ItemRange), NEW S, AllFresh(S, l)
  PROVE  Fresh(S, GetRange(l)) /\ AllFresh(S, Rest(l))
<1>1. CASE l = <<>>
  BY <1>1 DEF GetRange, Rest, AllFresh, Fresh, UnusedFrom
<1>2. CASE l # <<>>
  <2>1. /\ GetRange(l) = l[1] /\ 1 \in 1 .. Len(l)
        /\ \A i \in 1 .. Len(Rest(l)) : Rest(l)[i] = l[i + 1] /\ i + 1 \in 1 .. Len(l)
    BY <1>2 DEF GetRange, Rest
  <2> QED
    BY <2>1 DEF AllFresh
<1> QED
  BY <1>1, <1>2

LEMMA PutFresh ==
  ASSUME NEW l \in Seq(ItemRange), NEW S \in SUBSET Nat, AllFresh(S, l),
         NEW r \in AnyRange, NEW ids \in SUBSET Nat,
         r # NoRange => \A i \in S : InBlock(i, r.slot) =>
                           i \in ids \/ i < BuildRange(r.slot, ids).start
  PROVE  AllFresh(S, UpdateRange(l, r, ids))
<1>1. CASE ~(r # NoRange /\ UsableSlot(r.slot, ids))
  BY <1>1 DEF UpdateRange
<1>2. CASE r # NoRange /\ UsableSlot(r.slot, ids)
  <2> DEFINE b == BuildRange(r.slot, ids)
             m == Append(l, b)
  <2>1. r.slot \in Slots
    BY <1>2, RangeFacts
  <2>2. b \in ItemRange /\ Fresh(S, b)
    BY <1>2, <2>1, BuildRangeType, BuiltFresh
  <2> HIDE DEF b
  <2>3. /\ Len(m) = Len(l) + 1 /\ Len(l) \in Nat
        /\ \A i \in 1 .. Len(l) : m[i] = l[i]
        /\ m[Len(l) + 1] = b
    BY <2>2
  <2> HIDE DEF m
  <2>4. \A i \in 1 .. Len(m) : i \in 1 .. Len(l) \/ i = Len(l) + 1
    BY <2>3
  <2>5. AllFresh(S, m)
    BY <2>2, <2>3, <2>4 DEF AllFresh
  <2> QED
    BY <1>2, <2>5 DEF UpdateRange, m, b
<1> QED
  BY <1>1, <1>2

LEMMA InItems ==
  /\ \A i : i \in Items <=> i \in Waiting \/ i \in sql \/ \E g \in Games : i \in mem[g]
  /\ \A i : i \in Items' <=> i \in Waiting' \/ i \in sql' \/ \E g \in Games : i \in mem'[g]
BY DEF Items

LEMMA KnownNat == TypeOK => Known \in SUBSET Nat
<1> SUFFICES ASSUME TypeOK, NEW i \in Items PROVE i \in Nat
  BY DEF Known
<1>1. i \in Waiting \/ i \in sql \/ \E g \in Games : i \in mem[g]
  BY InItems
<1> QED
  BY <1>1, WaitingNat DEF TypeOK

\* Nothing of the rows changes.
LEMMA KnownSame ==
  ASSUME UNCHANGED <<mem, cache, queue, sql, late>>
  PROVE  Known' = Known /\ Waiting' = Waiting
BY DEF Known, Items, Waiting

\* A statement queued for item i, or i put in the cache.
LEMMA WaitsMore ==
  ASSUME TypeOK, NEW i, cache' \subseteq cache \cup {i},
         Queued("REPLACE", i) \/ Queued("DELETE", i) \/ UNCHANGED queue
  PROVE  Waiting' \subseteq Waiting \cup {i}
<1> DEFINE Ids(q) == {q[n].id : n \in 1 .. Len(q)}
<1>1. Ids(queue') \subseteq Ids(queue) \cup {i}
  <2>1. CASE UNCHANGED queue
    BY <2>1
  <2>2. ASSUME NEW op, Queued(op, i) PROVE Ids(queue') \subseteq Ids(queue) \cup {i}
    <3>1. /\ Len(queue) \in Nat /\ Len(queue') = Len(queue) + 1
          /\ \A n \in 1 .. Len(queue) : queue'[n] = queue[n]
          /\ queue'[Len(queue) + 1] = [op |-> op, id |-> i]
      BY <2>2 DEF Queued, TypeOK
    <3>2. \A n \in 1 .. Len(queue') : n \in 1 .. Len(queue) \/ n = Len(queue) + 1
      BY <3>1
    <3> QED
      BY <3>1, <3>2
  <2> QED
    BY <2>1, <2>2
<1> QED
  BY <1>1 DEF Waiting

LEMMA FreshInit == Init => RangesFresh
<1> SUFFICES ASSUME Init PROVE RangesFresh
  OBVIOUS
<1>1. sql \in SUBSET Nat /\ Known = sql
  BY ItemsAssumption DEF Init, Known, Items, Waiting
<1>2. AllFresh(Known, listData)
  BY <1>1, ListsFresh DEF Init
<1>3. \A g \in Games : GameFresh(g) /\ MemKept(g)
  BY DEF Init, GameFresh, MemKept
<1> QED
  BY <1>2, <1>3 DEF Init, RangesFresh

\* The ranges GameFresh speaks of.
Held(g) ==
  IF proc[g] = "run"
  THEN {idRange[g], spareRange[g]}
         \cup {r \in {wire[link[g]].spare} : wire[link[g]].kind = "ack"}
  ELSE {r \in {wire[link[g]].main, wire[link[g]].spare} :
          proc[g] = "booting" /\ wire[link[g]].kind = "bootAck"}

\* They are recorded for the game's connection.
LEMMA HeldRecorded ==
  ASSUME TypeOK, RecordAgrees, NEW g \in Games, NEW r \in Held(g), r # NoRange
  PROVE  /\ r \in ItemRange /\ link[g] \in Conns /\ link[g] # NoConn
         /\ r.slot \in PeerSlots(link[g])
<1>1. GameAgrees(g) /\ proc[g] \in {"booting", "run"}
  BY DEF RecordAgrees, Held
<1>2. link[g] \in peers /\ link[g] \in Conns /\ link[g] # NoConn
  BY <1>1, ConnAssumption DEF GameAgrees, TypeOK
<1>3. r \in {peer[link[g]].main, peer[link[g]].spare}
  <2>1. CASE proc[g] = "run"
    <3>1. RunAgrees(g, peer[link[g]], wire[link[g]])
      BY <1>1, <2>1 DEF GameAgrees
    <3> QED
      BY <2>1, <3>1 DEF Held, RunAgrees
  <2>2. CASE proc[g] = "booting"
    <3>1. BootAgrees(peer[link[g]], wire[link[g]])
      BY <1>1, <2>2 DEF GameAgrees
    <3> QED
      BY <2>2, <3>1 DEF Held, BootAgrees
  <2> QED
    BY <1>1, <2>1, <2>2
<1>4. peer[link[g]].main \in AnyRange /\ peer[link[g]].spare \in AnyRange
  BY <1>2 DEF TypeOK, Peer
<1> QED
  BY <1>2, <1>3, <1>4, RangeFacts DEF PeerSlots

\* A game whose variables stay, and whose blocks gain no item ahead.
LEMMA FreshFrame ==
  ASSUME NEW g \in Games, GameFresh(g),
         proc'[g] = proc[g], idRange'[g] = idRange[g], spareRange'[g] = spareRange[g],
         currentID'[g] = currentID[g],
         proc[g] \in {"run", "booting"} => wire'[link'[g]] = wire[link[g]],
         \A r \in Held(g) : \A id \in {currentID[g], r.start} :
           UnusedFrom(Known, id, r) => UnusedFrom(Known', id, r)
  PROVE  GameFresh(g)'
<1>1. CASE proc[g] = "run"
  <2>1. /\ UnusedFrom(Known', currentID[g], idRange[g])
        /\ Fresh(Known', spareRange[g])
        /\ wire[link[g]].kind = "ack" => Fresh(Known', wire[link[g]].spare)
    BY <1>1 DEF GameFresh, Held, Fresh
  <2> QED
    BY <1>1, <2>1 DEF GameFresh
<1>2. CASE proc[g] = "booting" /\ wire[link[g]].kind = "bootAck"
  <2>1. Fresh(Known', wire[link[g]].main) /\ Fresh(Known', wire[link[g]].spare)
    BY <1>2 DEF GameFresh, Held, Fresh
  <2> QED
    BY <1>2, <2>1 DEF GameFresh
<1>3. CASE proc[g] # "run" /\ ~(proc[g] = "booting" /\ wire[link[g]].kind = "bootAck")
  BY <1>3 DEF GameFresh
<1> QED
  BY <1>1, <1>2, <1>3

\* Blocks only move between the list and the records of other connections.
LEMMA KeptFrame ==
  ASSUME NEW g \in Games, MemKept(g),
         proc'[g] \in {"down", "fresh", "booting"} =>
           proc[g] \in {"down", "fresh", "booting"} \/ mem'[g] = {},
         link'[g] = link[g], mem'[g] \subseteq mem[g],
         \A k \in ListSlots(listData)' :
           k \in ListSlots(listData) \/ \E c \in Conns : c # link[g] /\ k \in PeerSlots(c),
         \A c \in Conns : c # link[g] => PeerSlots(c)' \subseteq PeerSlots(c) \cup ListSlots(listData)
  PROVE  MemKept(g)'
<1>1. SUFFICES ASSUME NEW i \in mem'[g], NEW k \in Slots, InBlock(i, k)
               PROVE  /\ k \notin ListSlots(listData)'
                      /\ \A c \in Conns : c # link[g] => k \notin PeerSlots(c)'
  BY DEF MemKept
<1>2. /\ k \notin ListSlots(listData)
      /\ \A c \in Conns : c # link[g] => k \notin PeerSlots(c)
  BY <1>1 DEF MemKept
<1> QED
  BY <1>2

\* What a game's own step must show: its own conjuncts, that it disturbs no
\* other game, and that the items stay behind the start of every block in the
\* list or recorded for another connection.
LEMMA FreshOfGame ==
  ASSUME TypeOK, RecordAgrees, RangesFresh, NEW g \in Games,
         listData' = listData,
         \A h \in Games \ {g} :
           /\ proc'[h] = proc[h] /\ link'[h] = link[h] /\ mem'[h] = mem[h]
           /\ idRange'[h] = idRange[h] /\ spareRange'[h] = spareRange[h]
           /\ currentID'[h] = currentID[h]
           /\ proc[h] \in {"run", "booting"} => wire'[link[h]] = wire[link[h]],
         \A c \in Conns : PeerSlots(c)' \subseteq PeerSlots(c),
         \A r \in ItemRange, id \in Nat :
           /\ \/ r.slot \in ListSlots(listData)
              \/ \E c \in Conns : c # link[g] /\ r.slot \in PeerSlots(c)
           /\ UnusedFrom(Known, id, r)
           => UnusedFrom(Known', id, r),
         GameFresh(g)', MemKept(g)'
  PROVE  RangesFresh'
<1>1. AllFresh(Known', listData)
  <2>1. SUFFICES ASSUME NEW n \in 1 .. Len(listData) PROVE Fresh(Known', listData[n])
    BY DEF AllFresh
  <2>2. /\ listData[n] \in ItemRange /\ listData[n].slot \in ListSlots(listData)
        /\ Fresh(Known, listData[n])
    BY DEF TypeOK, ListSlots, RangesFresh, AllFresh
  <2> QED
    BY <2>2, RangeFacts DEF Fresh
<1>2. ASSUME NEW h \in Games, h # g PROVE GameFresh(h)' /\ MemKept(h)'
  <2>1. ASSUME NEW r \in Held(h), NEW id \in {currentID[h], r.start}, UnusedFrom(Known, id, r)
        PROVE  UnusedFrom(Known', id, r)
    <3>1. CASE r = NoRange
      BY <3>1 DEF UnusedFrom
    <3>2. CASE r # NoRange
      <4>1. /\ r \in ItemRange /\ link[h] \in Conns /\ link[h] # NoConn
            /\ r.slot \in PeerSlots(link[h])
        BY <3>2, HeldRecorded
      <4>2. link[h] # link[g]
        BY <1>2, <4>1 DEF RecordAgrees, LinksApart
      <4>3. id \in Nat
        BY <4>1, RangeFacts DEF TypeOK
      <4> QED
        BY <2>1, <4>1, <4>2, <4>3
    <3> QED
      BY <3>1, <3>2
  <2>2. GameFresh(h) /\ MemKept(h)
    BY DEF RangesFresh
  <2>3. GameFresh(h)'
    BY <1>2, <2>1, <2>2, FreshFrame
  <2>4. ListSlots(listData)' = ListSlots(listData)
    BY DEF ListSlots
  <2>5. MemKept(h)'
    BY <1>2, <2>2, <2>4, KeptFrame
  <2> QED
    BY <2>3, <2>5
<1> QED
  BY <1>1, <1>2 DEF RangesFresh

LEMMA FewerUnused ==
  ASSUME NEW S, NEW T, T \subseteq S, NEW id, NEW r, UnusedFrom(S, id, r)
  PROVE  UnusedFrom(T, id, r)
BY DEF UnusedFrom

LEMMA LinkedApart ==
  ASSUME TypeOK, RecordAgrees, NEW g \in Games, NEW h \in Games, g # h,
         proc[h] \in {"run", "booting"}
  PROVE  link[h] \in Conns /\ link[h] \in peers /\ link[h] # link[g]
<1>1. GameAgrees(h) /\ LinksApart
  BY DEF RecordAgrees
<1>2. link[h] \in peers /\ link[h] \in Conns
  BY <1>1 DEF GameAgrees, TypeOK
<1> QED
  BY <1>1, <1>2, ConnAssumption DEF LinksApart

\* FreshOfGame for a step that makes no item.
LEMMA FreshOfQuietGame ==
  ASSUME TypeOK, RecordAgrees, RangesFresh, NEW g \in Games,
         listData' = listData, Known' \subseteq Known,
         \A h \in Games \ {g} :
           /\ proc'[h] = proc[h] /\ link'[h] = link[h] /\ mem'[h] = mem[h]
           /\ idRange'[h] = idRange[h] /\ spareRange'[h] = spareRange[h]
           /\ currentID'[h] = currentID[h],
         \A c \in Conns : c \in peers /\ c # link[g] => wire'[c] = wire[c],
         \A c \in Conns : PeerSlots(c)' \subseteq PeerSlots(c),
         GameFresh(g)', MemKept(g)'
  PROVE  RangesFresh'
<1>1. \A r \in ItemRange, id \in Nat : UnusedFrom(Known, id, r) => UnusedFrom(Known', id, r)
  BY FewerUnused
<1>2. \A h \in Games \ {g} : proc[h] \in {"run", "booting"} => wire'[link[h]] = wire[link[h]]
  BY LinkedApart
<1> QED
  BY <1>1, <1>2, FreshOfGame

LEMMA FreshGameQuiet ==
  ASSUME TypeOK, RecordAgrees, RangesFresh, NEW g \in Games,
         \/ Start(g) \/ OutOfIDs(g) \/ Exit(g) \/ Crash(g)
         \/ \E i \in mem[g] : Save(g, i)
         \/ \E c \in Conns : Connect(g, c)
  PROVE  RangesFresh'
<1> USE DEF dbVars, gameVars, itemVars, rowVars
<1>a. GameFresh(g) /\ MemKept(g)
  BY DEF RangesFresh
<1>b. ASSUME UNCHANGED <<mem, cache, queue, sql, late>> PROVE Known' = Known
  BY <1>b, KnownSame
<1>c. ASSUME UNCHANGED listData PROVE ListSlots(listData)' = ListSlots(listData)
  BY <1>c DEF ListSlots
<1>d. ASSUME UNCHANGED peer, NEW c \in Conns PROVE PeerSlots(c)' = PeerSlots(c)
  BY <1>d DEF PeerSlots
<1>1. CASE Start(g) \/ OutOfIDs(g)
  <2>1. /\ proc' = [proc EXCEPT ![g] = IF Start(g) THEN "fresh" ELSE "stop"]
        /\ UNCHANGED <<listData, peers, peer, wire, link, idRange, spareRange, currentID,
                       mem, cache, queue, sql, late>>
        /\ Start(g) => proc[g] = "down"
    BY <1>1 DEF Start, OutOfIDs
  <2>2. proc'[g] \in {"fresh", "stop"} /\ (proc'[g] = "fresh" => proc[g] = "down")
    BY <2>1 DEF TypeOK
  <2>3. GameFresh(g)'
    BY <2>2 DEF GameFresh
  <2>4. MemKept(g)'
    BY <1>a, <1>c, <1>d, <2>1, <2>2, KeptFrame
  <2> QED
    BY <1>a, <1>b, <1>d, <2>1, <2>3, <2>4, FreshOfQuietGame
<1>2. CASE Exit(g) \/ Crash(g)
  <2>1. Gone(g) /\ UNCHANGED <<listData, peers, peer, wire>>
    BY <1>2 DEF Exit, Crash
  <2>2. proc'[g] = "down" /\ mem'[g] = {}
    BY <2>1 DEF Gone, TypeOK
  <2>3. UNCHANGED <<cache, queue, sql, late>>
    BY <1>2 DEF Exit, Crash
  <2>4. Known' \subseteq Known
    <3>1. \A h \in Games : mem'[h] \subseteq mem[h]
      BY <2>1 DEF Gone, TypeOK
    <3>2. Waiting' = Waiting
      BY <2>3 DEF Waiting
    <3> QED
      BY <2>3, <3>1, <3>2, InItems DEF Known
  <2>5. GameFresh(g)' /\ MemKept(g)'
    BY <2>2 DEF GameFresh, MemKept
  <2> QED
    BY <1>d, <2>1, <2>3, <2>4, <2>5, FreshOfQuietGame DEF Gone, TypeOK
<1>3. ASSUME NEW i \in mem[g], Save(g, i) PROVE RangesFresh'
  <2>1. /\ UNCHANGED <<listData, peers, peer, wire, link, proc, idRange, spareRange, currentID>>
        /\ mem' = [mem EXCEPT ![g] = mem[g] \ {i}]
        /\ sql' = sql /\ late' = late
    BY <1>3 DEF Save
  <2>2. /\ mem'[g] \subseteq mem[g] /\ \A h \in Games \ {g} : mem'[h] = mem[h]
    BY <2>1 DEF TypeOK
  <2>3. Known' \subseteq Known
    <3>1. Waiting' \subseteq Waiting \cup {i}
      BY <1>3, WaitsMore DEF Save
    <3> QED
      BY <1>3, <2>1, <2>2, <3>1, InItems DEF Known
  <2>4. GameFresh(g)'
    BY <1>a, <2>1, <2>3, FewerUnused, FreshFrame
  <2>5. MemKept(g)'
    <3>1. proc'[g] = proc[g] /\ link'[g] = link[g]
      BY <2>1
    <3> QED
      BY <1>a, <1>c, <1>d, <2>1, <2>2, <3>1, KeptFrame
  <2> QED
    BY <1>d, <2>1, <2>2, <2>3, <2>4, <2>5, FreshOfQuietGame
<1>4. ASSUME NEW c \in Conns, Connect(g, c) PROVE RangesFresh'
  <2>1. proc[g] = "fresh" /\ c \notin peers
    BY <1>4, ConnAssumption DEF RecordAgrees, GameAgrees, Connect, TypeOK
  <2>2. /\ UNCHANGED <<listData, idRange, spareRange, currentID, mem, cache, queue, sql, late>>
        /\ link' = [link EXCEPT ![g] = c] /\ proc' = [proc EXCEPT ![g] = "booting"]
        /\ peer' = [peer EXCEPT ![c] = NoPeer] /\ wire' = [wire EXCEPT ![c] = Bare("boot")]
    BY <1>4, <2>1 DEF Connect
  <2>3. \A d \in Conns : PeerSlots(d)' \subseteq PeerSlots(d)
    BY <2>2, RangeFacts DEF PeerSlots, TypeOK
  <2>4. proc'[g] = "booting" /\ wire'[link'[g]] = Bare("boot")
    BY <2>2 DEF TypeOK
  <2>5. GameFresh(g)'
    BY <2>4 DEF GameFresh, Bare
  <2>6. mem'[g] = {}
    BY <1>a, <2>1, <2>2 DEF MemKept
  <2>7. MemKept(g)'
    BY <2>6 DEF MemKept
  <2>8. /\ \A h \in Games \ {g} : proc'[h] = proc[h] /\ link'[h] = link[h]
        /\ \A d \in Conns : d \in peers => wire'[d] = wire[d]
    BY <2>1, <2>2 DEF TypeOK
  <2> QED
    BY <1>a, <1>b, <2>2, <2>3, <2>5, <2>7, <2>8, FreshOfQuietGame
<1> QED
  BY <1>1, <1>2, <1>3, <1>4

\* A booted game, and one that gets a spare, begin with fresh blocks.
LEMMA FreshGameHears ==
  ASSUME TypeOK, RecordAgrees, RangesFresh, NEW g \in Games, GameBoot(g) \/ GameSpare(g)
  PROVE  RangesFresh'
<1> USE DEF dbVars, gameVars, itemVars, rowVars
<1> DEFINE c == link[g]
           m == wire[c]
<1>a. GameFresh(g) /\ MemKept(g)
  BY DEF RangesFresh
<1>b. /\ UNCHANGED <<listData, peers, peer, link, mem, cache, queue, sql, late>>
      /\ wire' = [wire EXCEPT ![c] = Quiet]
      /\ c \in Conns
  BY DEF GameBoot, GameSpare, TypeOK
<1>c. /\ Known' = Known /\ ListSlots(listData)' = ListSlots(listData)
      /\ \A d \in Conns : PeerSlots(d)' = PeerSlots(d)
  BY <1>b, KnownSame DEF ListSlots, PeerSlots
<1>d. \A h \in Games \ {g} : /\ proc'[h] = proc[h] /\ idRange'[h] = idRange[h]
                            /\ spareRange'[h] = spareRange[h] /\ currentID'[h] = currentID[h]
  BY DEF GameBoot, GameSpare, TypeOK
<1>e. wire'[link'[g]].kind = "none" /\ \A d \in Conns : d # c => wire'[d] = wire[d]
  BY <1>b DEF TypeOK, Quiet, Bare
<1>f. m.main \in AnyRange /\ m.spare \in AnyRange
  BY <1>b DEF TypeOK, Msg
<1>1. CASE GameBoot(g)
  <2>1. proc[g] = "booting" /\ m.kind = "bootAck" /\ proc'[g] \in {"run", "stop"}
    BY <1>1 DEF GameBoot, TypeOK
  <2>2. proc'[g] = "run" => /\ idRange'[g] = m.main /\ spareRange'[g] = m.spare
                            /\ currentID'[g] = m.main.start
    BY <1>1 DEF GameBoot, BootRefused, SetRange, TypeOK
  <2>3. Fresh(Known, m.main) /\ Fresh(Known, m.spare)
    BY <1>a, <2>1 DEF GameFresh
  <2>4. proc'[g] = "run" => /\ UnusedFrom(Known', currentID'[g], idRange'[g])
                            /\ Fresh(Known', spareRange'[g])
    BY <1>c, <2>2, <2>3 DEF Fresh
  <2>5. GameFresh(g)'
    BY <1>e, <2>1, <2>4 DEF GameFresh
  <2> QED
    BY <1>a, <1>b, <1>c, <1>d, <1>e, <2>1, <2>5, KeptFrame, FreshOfQuietGame
<1>2. CASE GameSpare(g)
  <2>1. /\ proc' = proc /\ idRange' = idRange /\ currentID' = currentID /\ m.kind = "ack"
        /\ spareRange'[g] = SetRange(spareRange[g], m.spare)
        /\ proc[g] \in {"run", "stop"}
    BY <1>2 DEF GameSpare, TypeOK
  <2>2. proc[g] = "run" => /\ UnusedFrom(Known', currentID'[g], idRange'[g])
                           /\ Fresh(Known', spareRange'[g])
    BY <1>a, <1>c, <2>1 DEF GameFresh, SetRange
  <2>3. GameFresh(g)'
    BY <1>e, <2>1, <2>2 DEF GameFresh
  <2> QED
    BY <1>a, <1>b, <1>c, <1>d, <1>e, <2>1, <2>3, KeptFrame, FreshOfQuietGame
<1> QED
  BY <1>1, <1>2

LEMMA MadeElsewhere ==
  ASSUME NEW x \in Nat, NEW k \in Slots, InBlock(x, k), NEW S,
         NEW r \in AnyRange, r.slot # k, NEW id, UnusedFrom(S, id, r)
  PROVE  UnusedFrom(S \cup {x}, id, r)
<1>1. SUFFICES ASSUME r # NoRange, InBlock(x, r.slot) PROVE FALSE
  BY DEF UnusedFrom
<1>2. r.slot \in Nat /\ k \in Nat
  BY <1>1, RangeFacts, SlotsNat
<1> QED
  BY <1>1, <1>2, OneBlock

\* A new item, with an id in a block that only the game's connection records.
LEMMA FreshGameMakes ==
  ASSUME TypeOK, DbExclusive, RecordAgrees, RangesFresh, NEW g \in Games,
         proc[g] = "run", NEW x \in Nat, NEW k \in Slots, InBlock(x, k),
         k \in PeerSlots(link[g]),
         UNCHANGED <<listData, peers, peer, link, proc, cache, queue, sql, late>>,
         mem' = [mem EXCEPT ![g] = mem[g] \cup {x}],
         \A h \in Games \ {g} : /\ idRange'[h] = idRange[h] /\ spareRange'[h] = spareRange[h]
                               /\ currentID'[h] = currentID[h],
         \A c \in Conns : c # link[g] => wire'[c] = wire[c],
         Known' \subseteq Known \cup {x} => GameFresh(g)'
  PROVE  RangesFresh'
<1>1. link[g] \in Conns
  BY DEF RecordAgrees, GameAgrees, TypeOK
<1>2. /\ mem'[g] = mem[g] \cup {x} /\ \A h \in Games \ {g} : mem'[h] = mem[h]
  BY DEF TypeOK
<1>3. Known' \subseteq Known \cup {x}
  <2>1. Waiting' = Waiting
    BY DEF Waiting
  <2>2. ASSUME NEW i \in Items' PROVE i \in Items \/ i = x
    BY <1>2, <2>1, <2>2, InItems
  <2> QED
    BY <2>2 DEF Known
<1>4. /\ k \notin ListSlots(listData)
      /\ \A c \in Conns : c # link[g] => k \notin PeerSlots(c)
  BY <1>1 DEF DbExclusive
<1>5. ASSUME NEW r \in ItemRange, NEW id \in Nat,
             \/ r.slot \in ListSlots(listData)
             \/ \E c \in Conns : c # link[g] /\ r.slot \in PeerSlots(c),
             UnusedFrom(Known, id, r)
      PROVE  UnusedFrom(Known', id, r)
  <2>1. r \in AnyRange /\ r.slot # k
    BY <1>4, <1>5 DEF AnyRange
  <2>2. UnusedFrom(Known \cup {x}, id, r)
    BY <1>5, <2>1, MadeElsewhere
  <2> QED
    BY <1>3, <2>2, FewerUnused
<1>6. /\ ListSlots(listData)' = ListSlots(listData)
      /\ \A c \in Conns : PeerSlots(c)' = PeerSlots(c)
  BY DEF ListSlots, PeerSlots
<1>7. MemKept(g)'
  <2>1. SUFFICES ASSUME NEW i \in mem'[g], NEW l \in Slots, InBlock(i, l)
                 PROVE  /\ l \notin ListSlots(listData)
                        /\ \A c \in Conns : c # link[g] => l \notin PeerSlots(c)
    BY <1>6 DEF MemKept
  <2>2. CASE i \in mem[g]
    BY <2>1, <2>2 DEF RangesFresh, MemKept
  <2>3. CASE i = x
    <3>1. l = k
      BY <2>1, <2>3, OneBlock, SlotsNat
    <3> QED
      BY <3>1, <1>4
  <2> QED
    BY <1>2, <2>2, <2>3
<1>8. \A h \in Games \ {g} : proc[h] \in {"run", "booting"} => wire'[link[h]] = wire[link[h]]
  BY LinkedApart
<1> QED
  BY <1>2, <1>3, <1>5, <1>6, <1>7, <1>8, FreshOfGame

LEMMA FreshGameNew ==
  ASSUME TypeOK, DbExclusive, IssuesInBlock, RecordAgrees, RangesFresh,
         NEW g \in Games, NewItem(g)
  PROVE  RangesFresh'
<1> DEFINE x == currentID[g]
           k == idRange[g].slot
           p == peer[link[g]]
           m == wire[link[g]]
<1>1. proc[g] = "run" /\ idRange[g] \in AnyRange /\ idRange[g] # NoRange /\ x \in Nat
  BY DEF NewItem, TypeOK, IssuesInBlock
<1>2. k \in Slots /\ InBlock(x, k) /\ k \in PeerSlots(link[g])
  BY <1>1, RangeFacts, BlocksRecorded DEF NewItem, IssuesInBlock, InBlock, BlockLasts
<1>3. /\ UNCHANGED <<listData, peers, peer, link, proc, cache, queue, sql, late, wire, idRange, spareRange>>
      /\ mem' = [mem EXCEPT ![g] = mem[g] \cup {x}]
      /\ currentID'[g] = x + 1 /\ \A h \in Games \ {g} : currentID'[h] = currentID[h]
  BY DEF NewItem, TypeOK, dbVars, rowVars
<1>4. link[g] \in Conns /\ p.main \in AnyRange /\ p.spare \in AnyRange
      /\ spareRange[g] \in AnyRange /\ m.spare \in AnyRange
  BY <1>1, BlocksRecorded DEF TypeOK, Peer, Msg
<1>5. /\ spareRange[g] # NoRange => spareRange[g].slot # k
      /\ m.kind = "ack" /\ m.spare # NoRange => m.spare.slot # k
  <2>1. RunAgrees(g, p, m)
    BY <1>1 DEF RecordAgrees, GameAgrees
  <2>2. p.main # NoRange => p.main.slot # p.spare.slot
    BY <1>4 DEF DbExclusive
  <2> QED
    BY <1>1, <2>1, <2>2 DEF RunAgrees
<1>6. GameFresh(g)
  BY DEF RangesFresh
<1>7. ASSUME Known' \subseteq Known \cup {x} PROVE GameFresh(g)'
  <2>1. UnusedFrom(Known', x + 1, idRange[g])
    <3>1. \A i \in Known : i \in Nat
      BY KnownNat
    <3> QED
      BY <1>1, <1>6, <1>7, <3>1 DEF GameFresh, UnusedFrom
  <2>2. ASSUME NEW r \in {spareRange[g], m.spare}, r \in AnyRange, r # NoRange => r.slot # k,
               Fresh(Known, r)
        PROVE  Fresh(Known', r)
    <3>1. CASE r = NoRange
      BY <3>1 DEF Fresh, UnusedFrom
    <3>2. CASE r # NoRange
      BY <1>1, <1>2, <1>7, <2>2, <3>2, MadeElsewhere, FewerUnused DEF Fresh
    <3> QED
      BY <3>1, <3>2
  <2>3. Fresh(Known', spareRange[g]) /\ (m.kind = "ack" => Fresh(Known', m.spare))
    BY <1>1, <1>4, <1>5, <1>6, <2>2 DEF GameFresh
  <2>4. m' = m
    BY <1>3
  <2> QED
    BY <1>1, <1>3, <2>1, <2>3, <2>4 DEF GameFresh
<1> QED
  BY <1>1, <1>2, <1>3, <1>7, FreshGameMakes

LEMMA FreshGameNewFromSpare ==
  ASSUME TypeOK, DbExclusive, IssuesInBlock, RecordAgrees, RangesFresh,
         NEW g \in Games, NewItemFromSpare(g)
  PROVE  RangesFresh'
<1> DEFINE r == spareRange[g]
           x == r.start
           k == r.slot
<1>1. proc[g] = "run" /\ r \in ItemRange /\ r # NoRange
  BY RangeFacts DEF NewItemFromSpare, TypeOK
<1>2. link[g] \in Conns /\ link[g] # NoConn /\ k \in PeerSlots(link[g])
  BY <1>1, BlocksRecorded DEF AnyRange
<1>3. x \in Nat /\ k \in Slots /\ InBlock(x, k)
  <2>1. /\ k \in Slots /\ x \in Nat /\ MinId(k) <= x /\ x + R <= MaxId(k)
    BY <1>1, RangeFacts DEF ItemRange
  <2>2. MaxId(k) \in Nat
    BY <2>1, SlotsNat, BlockBounds
  <2> QED
    BY <2>1, <2>2, WidthAssumption DEF InBlock
<1>4. /\ UNCHANGED <<listData, peers, peer, link, proc, cache, queue, sql, late>>
      /\ mem' = [mem EXCEPT ![g] = mem[g] \cup {x}]
      /\ wire' = [wire EXCEPT ![link[g]] = Bare("req")]
      /\ idRange' = [idRange EXCEPT ![g] = r]
      /\ spareRange' = [spareRange EXCEPT ![g] = NoRange]
      /\ currentID' = [currentID EXCEPT ![g] = x + 1]
  BY <1>2 DEF NewItemFromSpare, dbVars, rowVars
<1>5. /\ idRange'[g] = r /\ spareRange'[g] = NoRange /\ currentID'[g] = x + 1
      /\ wire'[link[g]] = Bare("req") /\ link'[g] = link[g]
      /\ \A h \in Games \ {g} : /\ idRange'[h] = idRange[h] /\ spareRange'[h] = spareRange[h]
                               /\ currentID'[h] = currentID[h]
      /\ \A c \in Conns : c # link[g] => wire'[c] = wire[c]
  BY <1>2, <1>4 DEF TypeOK
<1>6. ASSUME Known' \subseteq Known \cup {x} PROVE GameFresh(g)'
  <2>1. Fresh(Known, r)
    BY <1>1 DEF RangesFresh, GameFresh
  <2>2. UnusedFrom(Known', x + 1, r)
    <3>1. \A i \in Known : i \in Nat
      BY KnownNat
    <3> QED
      BY <1>1, <1>3, <1>6, <2>1, <3>1 DEF Fresh, UnusedFrom
  <2>3. UnusedFrom(Known', currentID'[g], idRange'[g]) /\ Fresh(Known', spareRange'[g])
    BY <1>5, <2>2 DEF Fresh, UnusedFrom
  <2>4. proc'[g] = "run" /\ wire'[link'[g]].kind = "req"
    BY <1>1, <1>4, <1>5 DEF Bare
  <2> QED
    BY <2>3, <2>4 DEF GameFresh
<1> HIDE DEF r, x, k
<1> QED
  BY <1>1, <1>2, <1>3, <1>4, <1>5, <1>6, FreshGameMakes

\* What a step of the db on connection c must show: what it puts in the list
\* and on the connection is fresh, and blocks come from the list, or from
\* records of connections no game has.
LEMMA FreshOfDb ==
  ASSUME TypeOK, RecordAgrees, RangesFresh, NEW c \in Conns,
         UNCHANGED <<link, proc, idRange, spareRange, currentID, mem>>,
         Known' \subseteq Known, AllFresh(Known', listData'),
         \A d \in Conns : d # c => wire'[d] = wire[d],
         \A g \in Games : link[g] = c => GameFresh(g)',
         \A k \in ListSlots(listData)' :
           k \in ListSlots(listData) \/ (k \in PeerSlots(c) /\ \A g \in Games : link[g] # c),
         \A d \in Conns : PeerSlots(d)' \subseteq PeerSlots(d) \cup ListSlots(listData)
  PROVE  RangesFresh'
<1>2. ASSUME NEW g \in Games PROVE GameFresh(g)' /\ MemKept(g)'
  <2>1. GameFresh(g) /\ MemKept(g)
    BY DEF RangesFresh
  <2>2. GameFresh(g)'
    <3>1. CASE link[g] = c
      BY <3>1
    <3>2. CASE link[g] # c
      <4>1. proc[g] \in {"run", "booting"} => link[g] \in Conns
        BY DEF RecordAgrees, GameAgrees, TypeOK
      <4> QED
        BY <2>1, <3>2, <4>1, FewerUnused, FreshFrame
    <3> QED
      BY <3>1, <3>2
  <2>3. \A k \in ListSlots(listData)' :
          k \in ListSlots(listData) \/ \E d \in Conns : d # link[g] /\ k \in PeerSlots(d)
    OBVIOUS
  <2>4. MemKept(g)'
    BY <2>1, <2>3, KeptFrame
  <2> QED
    BY <2>2, <2>4
<1> QED
  BY <1>2 DEF RangesFresh

LEMMA FreshBoot ==
  ASSUME TypeOK, DbExclusive, RecordAgrees, RangesFresh, NEW c \in Conns, DbBoot(c)
  PROVE  RangesFresh'
<1> DEFINE main  == GetRange(listData)
           rest  == Rest(listData)
           spare == GetRange(rest)
           left  == Rest(rest)
<1>1. listData \in Seq(ItemRange) /\ Distinct(listData) /\ AllFresh(Known, listData)
  BY DEF TypeOK, DbExclusive, RangesFresh
<1>2. /\ main \in AnyRange /\ rest \in Seq(ItemRange) /\ Distinct(rest)
      /\ ListSlots(rest) \subseteq ListSlots(listData)
      /\ main # NoRange => main.slot \in ListSlots(listData)
      /\ Fresh(Known, main) /\ AllFresh(Known, rest)
  BY <1>1, TakeHead, TakeFresh
<1>3. /\ spare \in AnyRange
      /\ ListSlots(left) \subseteq ListSlots(rest)
      /\ spare # NoRange => spare.slot \in ListSlots(rest)
      /\ Fresh(Known, spare) /\ AllFresh(Known, left)
  BY <1>2, TakeHead, TakeFresh
<1>4. /\ listData' = left
      /\ peer' = [peer EXCEPT ![c] = [main  |-> SetRange(peer[c].main, main),
                                     spare |-> SetRange(peer[c].spare, spare)]]
      /\ wire' = [wire EXCEPT ![c] = [kind |-> "bootAck", main |-> main, spare |-> spare]]
      /\ UNCHANGED <<link, proc, idRange, spareRange, currentID, mem, cache, queue, sql, late>>
      /\ wire[c].kind = "boot"
  BY DEF DbBoot, gameVars, itemVars, rowVars
<1> HIDE DEF main, rest, spare, left
<1>5. /\ wire'[c] = [kind |-> "bootAck", main |-> main, spare |-> spare]
      /\ \A d \in Conns : d # c => wire'[d] = wire[d]
  BY <1>4 DEF TypeOK
<1>6. \A d \in Conns : PeerSlots(d)' \subseteq PeerSlots(d) \cup ListSlots(listData)
  <2>1. PeerSlots(c)' \subseteq PeerSlots(c) \cup ListSlots(listData)
    BY <1>2, <1>3, <1>4, RangeFacts DEF PeerSlots, SetRange, TypeOK
  <2>2. \A d \in Conns : d # c => PeerSlots(d)' = PeerSlots(d)
    BY <1>4 DEF PeerSlots, TypeOK
  <2> QED
    BY <2>1, <2>2
<1>7. ASSUME NEW g \in Games, link[g] = c PROVE GameFresh(g)'
  <2>1. proc[g] # "run"
    BY <1>4, <1>7 DEF RecordAgrees, GameAgrees, RunAgrees
  <2>2. Known' = Known
    BY <1>4, KnownSame
  <2>3. Fresh(Known', wire'[c].main) /\ Fresh(Known', wire'[c].spare)
    BY <1>2, <1>3, <1>5, <2>2
  <2> QED
    BY <1>4, <1>7, <2>1, <2>3 DEF GameFresh
<1>8. \A k \in ListSlots(listData)' : k \in ListSlots(listData)
  BY <1>2, <1>3, <1>4
<1>9. Known' = Known /\ AllFresh(Known', listData')
  BY <1>3, <1>4, KnownSame
<1> QED
  BY <1>4, <1>5, <1>6, <1>7, <1>8, <1>9, FreshOfDb

LEMMA FreshSpare ==
  ASSUME TypeOK, DbExclusive, RecordAgrees, RangesFresh, NEW c \in Conns, DbSpare(c)
  PROVE  RangesFresh'
<1> DEFINE none  == peer[c].spare = NoRange
           spare == IF none THEN NoRange ELSE GetRange(listData)
           rest  == IF none THEN listData ELSE Rest(listData)
<1>1. listData \in Seq(ItemRange) /\ Distinct(listData) /\ AllFresh(Known, listData)
  BY DEF TypeOK, DbExclusive, RangesFresh
<1>2. /\ ListSlots(rest) \subseteq ListSlots(listData)
      /\ spare # NoRange => spare.slot \in ListSlots(listData)
      /\ Fresh(Known, spare) /\ AllFresh(Known, rest)
  <2>1. Fresh(Known, NoRange)
    BY DEF Fresh, UnusedFrom
  <2> QED
    BY <1>1, <2>1, TakeHead, TakeFresh
<1>3. /\ listData' = rest
      /\ \/ peer' = peer
         \/ peer' = [peer EXCEPT ![c] = [main |-> peer[c].spare, spare |-> spare]]
      /\ wire' = [wire EXCEPT ![c] = [kind |-> "ack", main |-> NoRange, spare |-> spare]]
      /\ UNCHANGED <<link, proc, idRange, spareRange, currentID, mem, cache, queue, sql, late>>
      /\ wire[c].kind = "req"
  BY DEF DbSpare, SendSpareItemIDRange, Promote, Bare, gameVars, itemVars, rowVars
<1> HIDE DEF none, rest, spare
<1>4. /\ wire'[c] = [kind |-> "ack", main |-> NoRange, spare |-> spare]
      /\ \A d \in Conns : d # c => wire'[d] = wire[d]
  BY <1>3 DEF TypeOK
<1>5. \A d \in Conns : PeerSlots(d)' \subseteq PeerSlots(d) \cup ListSlots(listData)
  <2>1. PeerSlots(c)' \subseteq PeerSlots(c) \cup ListSlots(listData)
    BY <1>2, <1>3, RangeFacts DEF PeerSlots, TypeOK
  <2>2. \A d \in Conns : d # c => PeerSlots(d)' = PeerSlots(d)
    BY <1>3 DEF PeerSlots, TypeOK
  <2> QED
    BY <2>1, <2>2
<1>6. ASSUME NEW g \in Games, link[g] = c PROVE GameFresh(g)'
  <2>1. proc[g] # "booting"
    BY <1>3, <1>6 DEF RecordAgrees, GameAgrees, BootAgrees
  <2>2. Known' = Known
    BY <1>3, KnownSame
  <2>3. proc[g] = "run" => /\ UnusedFrom(Known', currentID[g], idRange[g])
                           /\ Fresh(Known', spareRange[g])
    BY <2>2 DEF RangesFresh, GameFresh
  <2>4. Fresh(Known', wire'[c].spare)
    BY <1>2, <1>4, <2>2
  <2> QED
    BY <1>3, <1>6, <2>1, <2>3, <2>4 DEF GameFresh
<1>7. \A k \in ListSlots(listData)' : k \in ListSlots(listData)
  BY <1>2, <1>3
<1>8. Known' = Known /\ AllFresh(Known', listData')
  BY <1>2, <1>3, KnownSame
<1> QED
  BY <1>3, <1>4, <1>5, <1>6, <1>7, <1>8, FreshOfDb

\* The block that OnClose puts back is read from the table: an item of its ids
\* that the table does not show is not in the memory of a game, and one with a row
\* to be written lies before the start of the block, or is late from now on.
LEMMA FreshRemove ==
  ASSUME TypeOK, DbExclusive, RecordAgrees, RangesFresh, NEW c \in Conns, RemovePeer(c)
  PROVE  RangesFresh'
<1> DEFINE r == peer[c].main
           new == UpdateRange(listData, r, sql)
<1>1. /\ listData \in Seq(ItemRange) /\ r \in AnyRange /\ sql \in SUBSET Nat
      /\ AllFresh(Known, listData) /\ Distinct(listData)
  BY DEF TypeOK, Peer, RangesFresh, DbExclusive
<1>2. /\ listData' = new /\ peer' = [peer EXCEPT ![c] = NoPeer]
      /\ wire' = [wire EXCEPT ![c] = Quiet]
      /\ UNCHANGED <<link, proc, idRange, spareRange, currentID, mem, cache, queue, sql>>
      /\ late' = late \cup StartsBefore(r)
      /\ \A g \in Games : link[g] # c
  BY DEF RemovePeer, gameVars, itemVars, rowVars
<1>3. /\ Known' \subseteq Known
      /\ \A i \in Known' : i \notin StartsBefore(r)
  <2>1. Items' = Items
    BY <1>2 DEF Items, Waiting
  <2> QED
    BY <1>2, <2>1 DEF Known
<1>4. AllFresh(Known', new)
  <2>1. ASSUME r # NoRange, NEW i \in Known', InBlock(i, r.slot)
        PROVE  i \in sql \/ i < BuildRange(r.slot, sql).start
    <3>1. r.slot \in Slots /\ r.slot \in PeerSlots(c) /\ r.slot \in Nat
      BY <1>1, <2>1, RangeFacts, SlotsNat DEF PeerSlots
    <3>2. i \in Nat /\ i \in Items
      BY <1>3, <2>1, KnownNat DEF Known
    <3>3. CASE i \in sql
      BY <3>3
    <3>4. ASSUME NEW g \in Games, i \in mem[g] PROVE FALSE
      BY <1>2, <2>1, <3>1, <3>4 DEF RangesFresh, MemKept
    <3>5. CASE i \in Waiting
      <4>1. BuildRange(r.slot, sql).start \in Nat /\ MaxId(r.slot) \in Nat /\ MinId(r.slot) \in Nat
        <5>1. /\ MaxId(r.slot) \in Nat /\ MinId(r.slot) \in Nat
              /\ MinId(r.slot) <= MaxId(r.slot) + 1
          BY <3>1, BlockBounds
        <5>2. FirstFree(MinId(r.slot), MaxId(r.slot), sql) \in MinId(r.slot) .. MaxId(r.slot) + 1
          BY <1>1, <5>1, FirstFreeType
        <5> QED
          BY <5>1, <5>2 DEF BuildRange
      <4>2. i \notin BuildRange(r.slot, sql).start .. MaxId(r.slot)
        BY <1>3, <2>1, <3>5 DEF StartsBefore
      <4> QED
        BY <2>1, <3>2, <4>1, <4>2 DEF InBlock
    <3> QED
      BY <3>2, <3>3, <3>4, <3>5, InItems
  <2>2. Known' \in SUBSET Nat
    BY <1>3, KnownNat
  <2>3. AllFresh(Known', listData)
    BY <1>1, <1>3, FewerUnused DEF AllFresh, Fresh
  <2> QED
    BY <1>1, <2>1, <2>2, <2>3, PutFresh
<1>5. r.slot \notin ListSlots(listData)
  <2>1. \A i \in 1 .. Len(listData) : listData[i].slot # 0
    BY <1>1, RangeFacts
  <2>2. 0 \notin ListSlots(listData)
    BY <2>1 DEF ListSlots
  <2> QED
    BY <1>1, <2>2 DEF DbExclusive, PeerSlots
<1>6. ListSlots(new) \subseteq ListSlots(listData) \cup ({r.slot} \ {0})
  BY <1>1, <1>5, PutBack
<1> HIDE DEF new
<1>7. \A k \in ListSlots(listData)' :
        k \in ListSlots(listData) \/ (k \in PeerSlots(c) /\ \A g \in Games : link[g] # c)
  BY <1>2, <1>6 DEF PeerSlots
<1>8. \A d \in Conns : PeerSlots(d)' \subseteq PeerSlots(d) \cup ListSlots(listData)
  BY <1>2, RangeFacts DEF PeerSlots, TypeOK
<1>9. \A d \in Conns : d # c => wire'[d] = wire[d]
  BY <1>2 DEF TypeOK
<1>10. AllFresh(Known', listData')
  BY <1>2, <1>4
<1> QED
  BY <1>2, <1>3, <1>7, <1>8, <1>9, <1>10, FreshOfDb

\* Steps that only move rows: a flush, a statement run, an item destroyed, and an
\* awarded item, whose id is in no block.
LEMMA FreshTable ==
  ASSUME TypeOK, IssuesInBlock, RecordAgrees, RangesFresh,
         \/ Award \/ RunStatement
         \/ \E i \in cache : Flush(i)
         \/ \E i \in cache \cup sql : Destroy(i)
  PROVE  RangesFresh'
<1>1. UNCHANGED <<listData, peers, peer, wire, link, proc, idRange, spareRange, currentID,
                  mem, late>>
  BY DEF Award, RunStatement, Flush, Destroy, dbVars, gameVars
<1>a. /\ Waiting' \subseteq Waiting \cup sql
      /\ \A i \in sql' : i \in sql \cup Waiting \/ (Award /\ i = ownID)
  <2>1. CASE Award
    BY <2>1 DEF Award, Waiting
  <2>2. CASE RunStatement
    <3>1. /\ queue # <<>> /\ queue \in Seq(Statement) /\ queue' = Tail(queue) /\ cache' = cache
          /\ sql' \subseteq sql \cup {Head(queue).id}
      BY <2>2 DEF RunStatement, Row, TypeOK
    <3>2. /\ Head(queue) = queue[1] /\ 1 \in 1 .. Len(queue)
          /\ \A n \in 1 .. Len(queue') : queue'[n] = queue[n + 1] /\ n + 1 \in 1 .. Len(queue)
      BY <3>1
    <3> QED
      BY <3>1, <3>2 DEF Waiting
  <2>3. ASSUME NEW i \in cache, Flush(i)
        PROVE  Waiting' \subseteq Waiting /\ sql' = sql
    <3>1. Waiting' \subseteq Waiting \cup {i} /\ i \in Waiting
      BY <2>3, WaitsMore DEF Flush, Waiting
    <3> QED
      BY <2>3, <3>1 DEF Flush
  <2>4. ASSUME NEW i \in cache \cup sql, Destroy(i)
        PROVE  Waiting' \subseteq Waiting \cup sql /\ sql' = sql
    <3>1. Waiting' \subseteq Waiting \cup {i} /\ i \in Waiting \cup sql
      BY <2>4, WaitsMore DEF Destroy, Waiting
    <3> QED
      BY <2>4, <3>1 DEF Destroy
  <2> QED
    BY <2>1, <2>2, <2>3, <2>4
<1>2. ASSUME NEW i \in Known', i \notin Known, NEW k \in Slots PROVE ~InBlock(i, k)
  <2>1. Award /\ i = ownID
    BY <1>1, <1>a, <1>2, InItems DEF Known
  <2>2. OwnMin <= ownID /\ ownID <= OwnMax /\ ownID \in Nat
    BY <2>1 DEF Award, TypeOK, IssuesInBlock
  <2>3. MinId(k) \in Nat /\ MaxId(k) \in Nat
    BY SlotsNat, BlockBounds
  <2> QED
    BY <2>1, <2>2, <2>3, ConfAssumption, OwnAssumption DEF InBlock
<1>3. ASSUME NEW r \in AnyRange, NEW id, UnusedFrom(Known, id, r) PROVE UnusedFrom(Known', id, r)
  BY <1>2, <1>3, RangeFacts DEF UnusedFrom
<1>4. AllFresh(Known', listData')
  <2>1. SUFFICES ASSUME NEW n \in 1 .. Len(listData) PROVE Fresh(Known', listData[n])
    BY <1>1 DEF AllFresh
  <2>2. listData[n] \in AnyRange /\ Fresh(Known, listData[n])
    BY DEF TypeOK, AnyRange, RangesFresh, AllFresh
  <2> QED
    BY <2>2, <1>3 DEF Fresh
<1>5. ASSUME NEW g \in Games PROVE GameFresh(g)' /\ MemKept(g)'
  <2>1. GameFresh(g) /\ MemKept(g)
    BY DEF RangesFresh
  <2>2. ListSlots(listData)' = ListSlots(listData) /\ \A c \in Conns : PeerSlots(c)' = PeerSlots(c)
    BY <1>1 DEF ListSlots, PeerSlots
  <2>3. MemKept(g)'
    BY <1>1, <2>1, <2>2, KeptFrame
  <2>4. GameFresh(g)'
    <3>1. \A r \in Held(g) : r \in AnyRange
      BY HeldRecorded DEF AnyRange
    <3> QED
      BY <1>1, <1>3, <2>1, <3>1, FreshFrame
  <2> QED
    BY <2>3, <2>4
<1> QED
  BY <1>1, <1>4, <1>5 DEF RangesFresh

LEMMA FreshStep ==
  /\ TypeOK /\ DbExclusive /\ IssuesInBlock /\ RecordAgrees /\ RangesFresh
  /\ ConnectionsLast /\ [Next]_vars
  => RangesFresh'
<1> SUFFICES ASSUME TypeOK, DbExclusive, IssuesInBlock, RecordAgrees, RangesFresh,
                    ConnectionsLast, [Next]_vars
             PROVE  RangesFresh'
  OBVIOUS
<1>1. ASSUME NEW g \in Games, GameStep(g) PROVE RangesFresh'
  <2>1. CASE NewItem(g) \/ NewItemFromSpare(g)
    BY <2>1, FreshGameNew, FreshGameNewFromSpare
  <2>2. CASE GameBoot(g) \/ GameSpare(g)
    BY <2>2, FreshGameHears
  <2>3. CASE \/ Start(g) \/ OutOfIDs(g) \/ Exit(g) \/ Crash(g)
             \/ \E i \in mem[g] : Save(g, i)
             \/ \E c \in Conns : Connect(g, c)
    BY <2>3, FreshGameQuiet
  <2>4. CASE Drop(g)
    BY <2>4 DEF Drop, ConnectionsLast
  <2> QED
    BY <1>1, <2>1, <2>2, <2>3, <2>4 DEF GameStep
<1>2. ASSUME DbStep PROVE RangesFresh'
  <2>1. ASSUME NEW c \in Conns, DbBoot(c) \/ DbSpare(c) \/ RemovePeer(c) PROVE RangesFresh'
    BY <2>1, FreshBoot, FreshSpare, FreshRemove
  <2>2. CASE \/ Award \/ RunStatement
             \/ \E i \in cache : Flush(i)
             \/ \E i \in cache \cup sql : Destroy(i)
    BY <2>2, FreshTable
  <2>4. CASE DbRestart
    BY <2>4 DEF DbRestart, ConnectionsLast
  <2> QED
    BY <1>2, <2>1, <2>2, <2>4 DEF DbStep
<1>3. CASE UNCHANGED vars
  <2>1. /\ Known' = Known /\ ListSlots(listData)' = ListSlots(listData)
        /\ \A c \in Conns : PeerSlots(c)' = PeerSlots(c)
    BY <1>3, KnownSame DEF vars, ListSlots, PeerSlots
  <2>2. \A g \in Games : GameFresh(g) => GameFresh(g)'
    BY <1>3, <2>1 DEF vars, GameFresh
  <2>3. \A g \in Games : MemKept(g) => MemKept(g)'
    BY <1>3, <2>1 DEF vars, MemKept
  <2> QED
    BY <1>3, <2>1, <2>2, <2>3 DEF vars, RangesFresh
<1> QED
  BY <1>1, <1>2, <1>3 DEF Next

\* The only id that a running game can still issue and that already names an item
\* is one whose row waited, in the db's cache or for its SQL thread, while the db
\* took the block back: for any number of games, awards and destroyed items and
\* any timing of saves, flushes, statements, exits and crashes, as long as no
\* connection breaks under a running game and the db does not restart.
THEOREM IdsFresh == ConnectionsLast => (Spec => []FreshAhead)
<1> DEFINE Inv == TypeOK /\ DbExclusive /\ IssuesInBlock /\ RecordAgrees /\ RangesFresh
<1> SUFFICES ASSUME ConnectionsLast PROVE Spec => []FreshAhead
  OBVIOUS
<1>1. Inv => FreshAhead
  <2> SUFFICES ASSUME Inv, NEW g \in Games, NEW i \in Ahead(g), i \in Known
               PROVE  FALSE
    BY DEF FreshAhead, Known
  <2>1. /\ UnusedFrom(Known, currentID[g], idRange[g]) /\ Fresh(Known, spareRange[g])
        /\ idRange[g] \in AnyRange /\ spareRange[g] \in AnyRange /\ currentID[g] \in Nat
        /\ idRange[g] # NoRange /\ MinId(idRange[g].slot) <= currentID[g]
    BY DEF Ahead, RangesFresh, GameFresh, TypeOK, IssuesInBlock
  <2>2. CASE i \in IssuableFrom(currentID[g], idRange[g])
    BY <2>1, <2>2, StartInBlock DEF IssuableFrom, BlockLasts, UnusedFrom, InBlock
  <2>3. CASE i \in IssuableFrom(spareRange[g].start, spareRange[g])
    BY <2>1, <2>3, StartInBlock DEF IssuableFrom, BlockLasts, Fresh, UnusedFrom, InBlock
  <2> QED
    BY <2>2, <2>3 DEF Ahead
<1>2. Init => Inv
  BY TypeInit, ExclusiveInit, IssuesInit, RecordInit, FreshInit
<1>3. Inv /\ [Next]_vars => Inv'
  BY TypeStep, ExclusiveStep, IssuesStep, RecordStep, FreshStep
<1> QED
  BY <1>1, <1>2, <1>3, PTL DEF Spec
=============================================================================
