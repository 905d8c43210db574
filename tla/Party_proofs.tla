---------------------------- MODULE Party_proofs ----------------------------
(* Theorems of Party, for any games, players, memory and bounds.             *)
EXTENDS Party, SequenceTheorems, WellFoundedInduction, TLAPS

USE NullAssumption, PartyAssumption, BoundAssumption

PartyOps  == {"create", "delete", "add", "remove", "level"}
PartyMsgs == [op : PartyOps, leader : Pids, pid : Pids]
Enter(p)  == Msg("enter", NoOne, p)
Logout(p) == Msg("logout", NoOne, p)
ToDb      == PartyMsgs \cup {Logout(p) : p \in Pids} \cup {Msg("setup", NoOne, NoOne)}
ToGames   == PartyMsgs \cup {Enter(p) : p \in Pids}

-----------------------------------------------------------------------------
(* Heaps: types, and the four parts of Sound.                                *)

Typed(h) == /\ h.obj \in [Ids -> Objects]
            /\ h.map \in [Pids -> Ids \cup {NoId}]
            /\ h.link \in [Pids -> Ids \cup {NoId}]
            /\ h.out \in Seq(ToDb) /\ h.odd \in BOOLEAN
            /\ h = Heap(h.obj, h.map, h.link, h.out, h.odd)

MapLeads(h)   == \A p \in Pids : h.map[p] # NoId => p \in h.obj[h.map[p]].members
LinksMeet(h)  == \A p \in Pids, id \in Ids : p \in h.obj[id].chars <=> h.link[p] = id
CharsIn(h)    == \A id \in Ids : h.obj[id].chars \subseteq h.obj[id].members
Led(h, id)    == h.obj[id].members # {} => h.obj[id].leader \in h.obj[id].members

\* A heap that is sound but for the leader of the party id.
Nearly(h, id) == /\ Typed(h) /\ MapLeads(h) /\ LinksMeet(h) /\ CharsIn(h)
                 /\ \A i \in Ids : i # id => Led(h, i)
Good(h)       == /\ Typed(h) /\ MapLeads(h) /\ LinksMeet(h) /\ CharsIn(h)
                 /\ \A i \in Ids : Led(h, i)

Absent(s, m) == \A i \in DOMAIN s : s[i] # m
Once(s, m)   == \A i, j \in DOMAIN s : s[i] = m /\ s[j] = m => i = j

\* What a change of a heap says to the db is about parties.
Quieter(k, h) ==
  \A p \in Pids : /\ Absent(h.out, Logout(p)) => Absent(k.out, Logout(p))
                  /\ Once(h.out, Logout(p)) => Once(k.out, Logout(p))
NoMoreLinks(k, h) == \A p \in Pids : k.link[p] \in {h.link[p], NoId}
StayDead(k, h)    == \A i \in Ids : h.obj[i] = Dead => k.obj[i] = Dead
OthersStay(k, h, id) == \A i \in Ids : i # id => k.obj[i] = h.obj[i]

\* Most changes: they leave a good heap, add no pointer to a character, and use
\* no new memory.
After(k, h) == Good(k) /\ Quieter(k, h) /\ NoMoreLinks(k, h) /\ StayDead(k, h)

LEMMA HeapFields ==
  ASSUME NEW o, NEW m, NEW l, NEW q, NEW e
  PROVE  /\ Heap(o, m, l, q, e).obj = o /\ Heap(o, m, l, q, e).map = m
         /\ Heap(o, m, l, q, e).link = l /\ Heap(o, m, l, q, e).out = q
         /\ Heap(o, m, l, q, e).odd = e
  BY DEF Heap

LEMMA ObjectFields ==
  /\ Dead \in Objects /\ Dead.members = {} /\ Dead.chars = {}
  /\ \A l \in Pids \cup {NoOne}, ms, cs \in SUBSET Pids :
       /\ Object(l, ms, cs) \in Objects
       /\ Object(l, ms, cs).leader = l /\ Object(l, ms, cs).members = ms
       /\ Object(l, ms, cs).chars = cs
  /\ \A x \in Objects : /\ x.leader \in Pids \cup {NoOne}
                        /\ x.members \subseteq Pids /\ x.chars \subseteq Pids
  BY DEF Dead, Object, Objects

LEMMA MsgKinds ==
  /\ \A m \in PartyMsgs, p \in Pids : m # Logout(p) /\ m # Enter(p) /\ m.op # "enter"
                                       /\ m.op # "logout" /\ m.op # "setup"
  /\ \A o \in PartyOps, l, p \in Pids : Msg(o, l, p) \in PartyMsgs
  /\ PartyMsgs \subseteq ToDb /\ PartyMsgs \subseteq ToGames
  BY DEF PartyMsgs, PartyOps, Logout, Enter, Msg, ToDb, ToGames

-----------------------------------------------------------------------------
(* Queues.                                                                   *)

LEMMA AppendFacts ==
  ASSUME NEW T, NEW s \in Seq(T), NEW x \in T, NEW m
  PROVE  /\ Append(s, x) \in Seq(T)
         /\ Absent(Append(s, x), m) <=> Absent(s, m) /\ x # m
         /\ Absent(s, m) => Once(Append(s, x), m)
         /\ x # m => (Once(s, m) => Once(Append(s, x), m))
<1>1. /\ Append(s, x) \in Seq(T) /\ Len(s) \in Nat /\ DOMAIN s = 1 .. Len(s)
      /\ DOMAIN Append(s, x) = 1 .. Len(s) + 1
      /\ \A i \in 1 .. Len(s) : Append(s, x)[i] = s[i]
      /\ Append(s, x)[Len(s) + 1] = x
  OBVIOUS
<1>2. Absent(Append(s, x), m) <=> Absent(s, m) /\ x # m
  BY <1>1 DEF Absent
<1>3. Absent(s, m) => Once(Append(s, x), m)
  BY <1>1 DEF Absent, Once
<1>4. x # m => (Once(s, m) => Once(Append(s, x), m))
  BY <1>1 DEF Once
<1>5. QED
  BY <1>1, <1>2, <1>3, <1>4

LEMMA TailFacts ==
  ASSUME NEW T, NEW s \in Seq(T), s # << >>, NEW m
  PROVE  /\ Tail(s) \in Seq(T) /\ Head(s) \in T
         /\ Absent(s, m) => Absent(Tail(s), m) /\ Head(s) # m
         /\ Once(s, m) => Once(Tail(s), m)
         /\ Once(s, m) /\ Head(s) = m => Absent(Tail(s), m)
<1>1. /\ Len(s) \in Nat \ {0} /\ DOMAIN s = 1 .. Len(s)
      /\ Tail(s) \in Seq(T) /\ Head(s) = s[1] /\ Head(s) \in T
      /\ DOMAIN Tail(s) = 1 .. Len(s) - 1
      /\ \A i \in 1 .. Len(s) - 1 : Tail(s)[i] = s[i + 1]
  <2>1. Len(s) \in Nat \ {0} /\ DOMAIN s = 1 .. Len(s)
    BY EmptySeq
  <2>2. QED
    BY <2>1, HeadTailProperties
<1>2. \A i \in DOMAIN Tail(s) : i + 1 \in DOMAIN s
  BY <1>1
<1>3. Absent(s, m) => Absent(Tail(s), m) /\ Head(s) # m
  BY <1>1, <1>2 DEF Absent
<1>4. Once(s, m) => Once(Tail(s), m)
  BY <1>1, <1>2 DEF Once
<1>5. Once(s, m) /\ Head(s) = m => Absent(Tail(s), m)
  BY <1>1, <1>2 DEF Once, Absent
<1>6. QED
  BY <1>1, <1>3, <1>4, <1>5

LEMMA EmptyFacts == \A m : Absent(<< >>, m) /\ Once(<< >>, m)
  BY DEF Absent, Once

-----------------------------------------------------------------------------
(* One lemma per operator on heaps.                                          *)

LEMMA SameShape ==
  ASSUME NEW h, NEW k, Typed(k), k.obj = h.obj, k.map = h.map, k.link = h.link
  PROVE  /\ Good(h) => Good(k)
         /\ \A id \in Ids : Nearly(h, id) => Nearly(k, id)
         /\ NoMoreLinks(k, h) /\ StayDead(k, h) /\ \A id \in Ids : OthersStay(k, h, id)
<1>1. /\ MapLeads(h) => MapLeads(k)
      /\ LinksMeet(h) => LinksMeet(k)
      /\ CharsIn(h) => CharsIn(k)
      /\ \A i \in Ids : Led(h, i) => Led(k, i)
  BY DEF MapLeads, LinksMeet, CharsIn, Led
<1>2. NoMoreLinks(k, h) /\ StayDead(k, h) /\ \A id \in Ids : OthersStay(k, h, id)
  BY DEF NoMoreLinks, StayDead, OthersStay
<1>3. QED
  BY <1>1, <1>2 DEF Good, Nearly

LEMMA AfterSelf == \A h : Good(h) => After(h, h)
  BY DEF After, Quieter, NoMoreLinks, StayDead

LEMMA QuieterTrans ==
  ASSUME NEW h, NEW k, NEW j, Quieter(k, h), Quieter(j, k)
  PROVE  Quieter(j, h)
  BY DEF Quieter

LEMMA AfterTrans ==
  ASSUME NEW h, NEW k, NEW j, After(k, h), After(j, k)
  PROVE  After(j, h)
<1>1. NoMoreLinks(j, h)
  BY DEF After, NoMoreLinks
<1>2. StayDead(j, h)
  BY DEF After, StayDead
<1>3. QED
  BY <1>1, <1>2, QuieterTrans DEF After

LEMMA SayFields ==
  ASSUME NEW h, Typed(h), NEW m \in ToDb
  PROVE  /\ Typed(Say(h, m))
         /\ Say(h, m).obj = h.obj /\ Say(h, m).map = h.map /\ Say(h, m).link = h.link
         /\ Say(h, m).out = Append(h.out, m)
<1>1. h.out \in Seq(ToDb)
  BY DEF Typed
<1>2. Append(h.out, m) \in Seq(ToDb)
  BY <1>1, AppendFacts
<1>3. PICK k : k = Say(h, m)
  OBVIOUS
<1>4. /\ k.obj = h.obj /\ k.map = h.map /\ k.link = h.link
      /\ k.out = Append(h.out, m) /\ k.odd = h.odd
  BY <1>3 DEF Say, Heap
<1>5. k = Heap(k.obj, k.map, k.link, k.out, k.odd)
  BY <1>3, <1>4 DEF Say
<1>6. QED
  BY <1>2, <1>3, <1>4, <1>5 DEF Typed

LEMMA SayKeeps ==
  ASSUME NEW h, NEW m \in PartyMsgs
  PROVE  /\ Good(h) => After(Say(h, m), h)
         /\ \A id \in Ids : Nearly(h, id) => Nearly(Say(h, m), id)
         /\ Typed(h) => Quieter(Say(h, m), h)
<1>1. m \in ToDb /\ \A p \in Pids : m # Logout(p)
  BY MsgKinds
<1>2. ASSUME Typed(h) PROVE Quieter(Say(h, m), h)
  <2>1. h.out \in Seq(ToDb) /\ Say(h, m).out = Append(h.out, m)
    BY <1>1, <1>2, SayFields DEF Typed
  <2>2. QED
    BY <1>1, <2>1, AppendFacts DEF Quieter
<1>3. ASSUME Good(h) PROVE After(Say(h, m), h)
  <2>1. Typed(h)
    BY <1>3 DEF Good
  <2>2. QED
    BY <1>1, <1>2, <1>3, <2>1, SayFields, SameShape DEF After
<1>4. ASSUME NEW id \in Ids, Nearly(h, id) PROVE Nearly(Say(h, m), id)
  <2>1. Typed(h)
    BY <1>4 DEF Nearly
  <2>2. QED
    BY <1>1, <1>4, <2>1, SayFields, SameShape
<1>5. QED
  BY <1>2, <1>3, <1>4

LEMMA OddKeeps ==
  ASSUME NEW h, Good(h)
  PROVE  After(Odd(h), h) /\ Odd(h).obj = h.obj /\ Odd(h).link = h.link
<1>1. /\ Odd(h).obj = h.obj /\ Odd(h).map = h.map /\ Odd(h).link = h.link
      /\ Odd(h).out = h.out /\ Odd(h).odd = TRUE
  BY DEF Odd, Heap
<1>2. Typed(Odd(h))
  BY <1>1 DEF Good, Typed, Odd
<1>3. Quieter(Odd(h), h)
  BY <1>1 DEF Quieter
<1>4. QED
  BY <1>1, <1>2, <1>3, SameShape DEF After

LEMMA DestroyKeeps ==
  ASSUME NEW h, NEW id \in Ids, Nearly(h, id)
  PROVE  /\ Good(Destroy(h, id)) /\ Destroy(h, id).out = h.out
         /\ NoMoreLinks(Destroy(h, id), h) /\ StayDead(Destroy(h, id), h)
         /\ OthersStay(Destroy(h, id), h, id)
<1>1. PICK k : k = Destroy(h, id)
  OBVIOUS
<1>2. /\ h.obj \in [Ids -> Objects] /\ h.map \in [Pids -> Ids \cup {NoId}]
      /\ h.link \in [Pids -> Ids \cup {NoId}]
  BY DEF Nearly, Typed
<1>3. /\ k.obj = [h.obj EXCEPT ![id] = Dead]
      /\ k.map = [p \in Pids |-> IF p \in h.obj[id].members THEN NoId ELSE h.map[p]]
      /\ k.link = [p \in Pids |-> IF p \in h.obj[id].chars THEN NoId ELSE h.link[p]]
      /\ k.out = h.out /\ k.odd = h.odd
  BY <1>1, HeapFields DEF Destroy
<1>4. k = Heap(k.obj, k.map, k.link, k.out, k.odd)
  BY <1>1, <1>3 DEF Destroy
<1>5. /\ k.obj[id] = Dead /\ \A i \in Ids : i # id => k.obj[i] = h.obj[i]
      /\ \A p \in Pids : k.map[p] = IF p \in h.obj[id].members THEN NoId ELSE h.map[p]
      /\ \A p \in Pids : k.link[p] = IF p \in h.obj[id].chars THEN NoId ELSE h.link[p]
  BY <1>2, <1>3
<1>6. Typed(k)
  <2>1. k.obj \in [Ids -> Objects]
    BY <1>2, <1>3, ObjectFields
  <2>2. k.map \in [Pids -> Ids \cup {NoId}] /\ k.link \in [Pids -> Ids \cup {NoId}]
    BY <1>2, <1>3
  <2>3. k.out \in Seq(ToDb) /\ k.odd \in BOOLEAN
    BY <1>3 DEF Nearly, Typed
  <2>4. QED
    BY <1>4, <2>1, <2>2, <2>3 DEF Typed
<1>7. MapLeads(k)
  <2>1. MapLeads(h)
    BY DEF Nearly
  <2>2. QED
    BY <1>2, <1>5, <2>1 DEF MapLeads
<1>8. LinksMeet(k)
  <2>1. LinksMeet(h)
    BY DEF Nearly
  <2>2. QED
    BY <1>2, <1>5, <2>1, ObjectFields DEF LinksMeet
<1>9. CharsIn(k) /\ \A i \in Ids : Led(k, i)
  BY <1>5, ObjectFields DEF Nearly, CharsIn, Led
<1>10. NoMoreLinks(k, h) /\ StayDead(k, h) /\ OthersStay(k, h, id)
  BY <1>5 DEF NoMoreLinks, StayDead, OthersStay
<1>11. QED
  BY <1>1, <1>3, <1>6, <1>7, <1>8, <1>9, <1>10 DEF Good

LEMMA DeletePartyKeeps ==
  ASSUME NEW h, NEW id \in Ids, Nearly(h, id), h.obj[id].leader \in Pids
  PROVE  /\ Good(DeleteParty(h, id)) /\ Quieter(DeleteParty(h, id), h)
         /\ NoMoreLinks(DeleteParty(h, id), h) /\ StayDead(DeleteParty(h, id), h)
         /\ OthersStay(DeleteParty(h, id), h, id)
<1>1. PICK m : m = Msg("delete", h.obj[id].leader, h.obj[id].leader)
  OBVIOUS
<1>2. PICK k : k = Say(h, m)
  OBVIOUS
<1>3. m \in PartyMsgs /\ m \in ToDb
  BY <1>1, MsgKinds DEF PartyOps
<1>4. Typed(h)
  BY DEF Nearly
<1>5. Nearly(k, id) /\ Quieter(k, h)
  BY <1>2, <1>3, <1>4, SayKeeps
<1>6. k.obj = h.obj /\ k.link = h.link
  BY <1>2, <1>3, <1>4, SayFields
<1>7. PICK j : j = Destroy(k, id)
  OBVIOUS
<1>8. /\ Good(j) /\ j.out = k.out /\ NoMoreLinks(j, k) /\ StayDead(j, k)
      /\ OthersStay(j, k, id)
  BY <1>5, <1>7, DestroyKeeps
<1>9. Quieter(j, h)
  BY <1>5, <1>8 DEF Quieter
<1>10. NoMoreLinks(j, h) /\ StayDead(j, h) /\ OthersStay(j, h, id)
  BY <1>6, <1>8 DEF NoMoreLinks, StayDead, OthersStay
<1>11. j = DeleteParty(h, id)
  BY <1>1, <1>2, <1>7 DEF DeleteParty
<1>12. QED
  BY <1>8, <1>9, <1>10, <1>11

LEMMA WithoutKeeps ==
  ASSUME NEW h, NEW id \in Ids, NEW p \in Pids, Good(h), p \in h.obj[id].members
  PROVE  /\ Nearly(Without(h, id, p), id)
         /\ p # h.obj[id].leader => Good(Without(h, id, p))
         /\ Without(h, id, p).out = h.out
         /\ Without(h, id, p).obj[id].leader = h.obj[id].leader
         /\ NoMoreLinks(Without(h, id, p), h) /\ StayDead(Without(h, id, p), h)
         /\ OthersStay(Without(h, id, p), h, id)
<1>1. PICK k : k = Without(h, id, p)
  OBVIOUS
<1>2. PICK x : x = h.obj[id]
  OBVIOUS
<1>3. /\ h.obj \in [Ids -> Objects] /\ h.map \in [Pids -> Ids \cup {NoId}]
      /\ h.link \in [Pids -> Ids \cup {NoId}]
  BY DEF Good, Typed
<1>4. /\ k.obj = [h.obj EXCEPT ![id] = Object(x.leader, x.members \ {p}, x.chars \ {p})]
      /\ k.map = [h.map EXCEPT ![p] = NoId]
      /\ k.link = [h.link EXCEPT ![p] = IF p \in x.chars THEN NoId ELSE @]
      /\ k.out = h.out /\ k.odd = h.odd
  BY <1>1, <1>2, HeapFields DEF Without
<1>5. k = Heap(k.obj, k.map, k.link, k.out, k.odd)
  BY <1>1, <1>2, <1>4 DEF Without
<1>6. x \in Objects /\ x.leader \in Pids \cup {NoOne} /\ x.members \subseteq Pids /\ x.chars \subseteq Pids
  BY <1>2, <1>3, ObjectFields
<1>7. PICK y : y = Object(x.leader, x.members \ {p}, x.chars \ {p})
  OBVIOUS
<1>8. /\ y \in Objects /\ y.leader = x.leader /\ y.members = x.members \ {p}
      /\ y.chars = x.chars \ {p}
  BY <1>6, <1>7, ObjectFields
<1>9. /\ k.obj[id] = y /\ \A i \in Ids : i # id => k.obj[i] = h.obj[i]
      /\ k.map[p] = NoId /\ \A q \in Pids : q # p => k.map[q] = h.map[q]
      /\ k.link[p] = IF p \in x.chars THEN NoId ELSE h.link[p]
      /\ \A q \in Pids : q # p => k.link[q] = h.link[q]
  BY <1>3, <1>4, <1>7
<1>10. Typed(k)
  <2>1. k.obj \in [Ids -> Objects]
    BY <1>3, <1>4, <1>7, <1>8
  <2>2. k.map \in [Pids -> Ids \cup {NoId}] /\ k.link \in [Pids -> Ids \cup {NoId}]
    BY <1>3, <1>4
  <2>3. k.out \in Seq(ToDb) /\ k.odd \in BOOLEAN
    BY <1>4 DEF Good, Typed
  <2>4. QED
    BY <1>5, <2>1, <2>2, <2>3 DEF Typed
<1>11. MapLeads(k)
  <2>1. MapLeads(h)
    BY DEF Good
  <2>2. QED
    BY <1>2, <1>3, <1>8, <1>9, <2>1 DEF MapLeads
<1>12. LinksMeet(k)
  <2>1. LinksMeet(h)
    BY DEF Good
  <2>2. QED
    BY <1>2, <1>3, <1>8, <1>9, <2>1 DEF LinksMeet
<1>13. CharsIn(k) /\ \A i \in Ids : i # id => Led(k, i)
  BY <1>2, <1>8, <1>9 DEF Good, CharsIn, Led
<1>14. p # x.leader => Led(k, id)
  BY <1>2, <1>8, <1>9 DEF Good, Led
<1>15. NoMoreLinks(k, h) /\ StayDead(k, h) /\ OthersStay(k, h, id)
  <2>1. h.obj[id] # Dead
    BY ObjectFields
  <2>2. QED
    BY <1>9, <2>1 DEF NoMoreLinks, StayDead, OthersStay
<1>16. QED
  BY <1>1, <1>2, <1>4, <1>8, <1>9, <1>10, <1>11, <1>12, <1>13, <1>14, <1>15 DEF Good, Nearly

LEMMA P2PQuitKeeps ==
  ASSUME NEW h, NEW id \in Ids, NEW p \in Pids, Good(h)
  PROVE  After(P2PQuit(h, id, p), h) /\ OthersStay(P2PQuit(h, id, p), h, id)
<1>1. CASE p \notin h.obj[id].members
  BY <1>1, AfterSelf DEF P2PQuit, OthersStay
<1>2. CASE p \in h.obj[id].members /\ p # h.obj[id].leader
  <2>1. P2PQuit(h, id, p) = Without(h, id, p)
    BY <1>2 DEF P2PQuit
  <2>2. Quieter(Without(h, id, p), h)
    BY <1>2, WithoutKeeps DEF Quieter
  <2>3. QED
    BY <1>2, <2>1, <2>2, WithoutKeeps DEF After
<1>3. CASE p \in h.obj[id].members /\ p = h.obj[id].leader
  <2>1. PICK k : k = Without(h, id, p)
    OBVIOUS
  <2>2. /\ Nearly(k, id) /\ k.obj[id].leader \in Pids /\ k.out = h.out
        /\ NoMoreLinks(k, h) /\ StayDead(k, h) /\ OthersStay(k, h, id)
    BY <1>3, <2>1, WithoutKeeps
  <2>3. PICK j : j = DeleteParty(k, id)
    OBVIOUS
  <2>4. /\ Good(j) /\ Quieter(j, k) /\ NoMoreLinks(j, k) /\ StayDead(j, k)
        /\ OthersStay(j, k, id)
    BY <2>2, <2>3, DeletePartyKeeps
  <2>5. P2PQuit(h, id, p) = j
    BY <1>3, <2>1, <2>3 DEF P2PQuit
  <2>6. Quieter(j, h)
    BY <2>2, <2>4 DEF Quieter
  <2>7. NoMoreLinks(j, h) /\ StayDead(j, h) /\ OthersStay(j, h, id)
    BY <2>2, <2>4 DEF NoMoreLinks, StayDead, OthersStay
  <2>8. QED
    BY <2>4, <2>5, <2>6, <2>7 DEF After
<1>4. QED
  BY <1>1, <1>2, <1>3

LEMMA QuitKeeps ==
  ASSUME NEW h, NEW id \in Ids, NEW p \in Pids, Good(h), h.obj[id].leader \in Pids
  PROVE  After(Quit(h, id, p), h) /\ OthersStay(Quit(h, id, p), h, id)
<1>1. PICK k : k = P2PQuit(h, id, p)
  OBVIOUS
<1>2. After(k, h) /\ OthersStay(k, h, id)
  BY <1>1, P2PQuitKeeps
<1>3. PICK m : m = Msg("remove", h.obj[id].leader, p)
  OBVIOUS
<1>4. m \in PartyMsgs /\ m \in ToDb
  BY <1>3, MsgKinds DEF PartyOps
<1>5. After(Say(k, m), k)
  BY <1>2, <1>4, SayKeeps DEF After
<1>6. Say(k, m).obj = k.obj
  BY <1>2, <1>4, SayFields DEF After, Good
<1>7. After(Say(k, m), h) /\ OthersStay(Say(k, m), h, id)
  BY <1>2, <1>5, <1>6, AfterTrans DEF OthersStay
<1>8. Quit(h, id, p) = IF p = h.obj[id].leader THEN k ELSE Say(k, m)
  BY <1>1, <1>3 DEF Quit
<1>9. QED
  BY <1>2, <1>7, <1>8

LEMMA LeaderIn ==
  ASSUME NEW h, NEW id \in Ids, Good(h), h.obj[id].members # {}
  PROVE  h.obj[id].leader \in Pids /\ h.obj[id] # Dead
<1>1. h.obj[id] \in Objects
  BY DEF Good, Typed
<1>2. QED
  BY <1>1, ObjectFields DEF Good, Led

LEMMA SetPartyMemberKeeps ==
  ASSUME NEW h, NEW id \in Ids, NEW p \in Pids, Good(h), p \in h.obj[id].members
  PROVE  /\ After(SetPartyMember(h, p, id), h)
         /\ SetPartyMember(h, p, id).obj[id] = h.obj[id]
<1>1. /\ h.map \in [Pids -> Ids \cup {NoId}] /\ h.obj \in [Ids -> Objects]
      /\ MapLeads(h)
  BY DEF Good, Typed
<1>2. CASE h.map[p] = NoId
  <2>1. PICK k : k = Heap(h.obj, [h.map EXCEPT ![p] = id], h.link, h.out, h.odd)
    OBVIOUS
  <2>2. /\ k.obj = h.obj /\ k.map = [h.map EXCEPT ![p] = id] /\ k.link = h.link
        /\ k.out = h.out /\ k.odd = h.odd
    BY <2>1, HeapFields
  <2>3. Typed(k)
    BY <1>1, <2>1, <2>2 DEF Good, Typed
  <2>4. MapLeads(k)
    BY <1>1, <2>2 DEF MapLeads
  <2>5. LinksMeet(k) /\ CharsIn(k) /\ \A i \in Ids : Led(k, i)
    BY <2>2 DEF Good, LinksMeet, CharsIn, Led
  <2>6. Quieter(k, h) /\ NoMoreLinks(k, h) /\ StayDead(k, h)
    BY <2>2 DEF Quieter, NoMoreLinks, StayDead
  <2>7. SetPartyMember(h, p, id) = k
    BY <1>2, <2>1 DEF SetPartyMember
  <2>8. QED
    BY <2>2, <2>3, <2>4, <2>5, <2>6, <2>7 DEF After, Good
<1>3. CASE h.map[p] = id
  <2>1. SetPartyMember(h, p, id) = h
    BY <1>3 DEF SetPartyMember
  <2>2. QED
    BY <2>1, AfterSelf
<1>4. CASE h.map[p] # NoId /\ h.map[p] # id
  <2>1. h.map[p] \in Ids /\ h.obj[h.map[p]].members # {}
    BY <1>1, <1>4 DEF MapLeads
  <2>2. h.obj[h.map[p]].leader \in Pids
    BY <2>1, LeaderIn
  <2>3. After(Quit(h, h.map[p], p), h) /\ OthersStay(Quit(h, h.map[p], p), h, h.map[p])
    BY <2>1, <2>2, QuitKeeps
  <2>4. SetPartyMember(h, p, id) = Quit(h, h.map[p], p)
    BY <1>4 DEF SetPartyMember
  <2>5. QED
    BY <1>4, <2>3, <2>4 DEF OthersStay
<1>5. QED
  BY <1>2, <1>3, <1>4

LEMMA P2PJoinKeeps ==
  ASSUME NEW h, NEW id \in Ids, NEW p \in Pids, Good(h)
  PROVE  LET k == P2PJoin(h, id, p) IN
           /\ Good(k) /\ Quieter(k, h) /\ NoMoreLinks(k, h)
           /\ h.obj[id] # Dead => StayDead(k, h)
           /\ p \in k.obj[id].members /\ k.obj[id].leader \in Pids
<1>1. PICK x : x = h.obj[id]
  OBVIOUS
<1>2. /\ h.map \in [Pids -> Ids \cup {NoId}] /\ h.obj \in [Ids -> Objects]
      /\ h.link \in [Pids -> Ids \cup {NoId}]
  BY DEF Good, Typed
<1>3. x \in Objects /\ x.leader \in Pids \cup {NoOne} /\ x.members \subseteq Pids /\ x.chars \subseteq Pids
  BY <1>1, <1>2, ObjectFields
<1>4. CASE p \in x.members
  <2>1. P2PJoin(h, id, p) = h
    BY <1>1, <1>4 DEF P2PJoin
  <2>2. QED
    BY <1>1, <1>4, <2>1, AfterSelf, LeaderIn DEF After
<1>5. CASE p \notin x.members
  <2>1. PICK l : l = IF x.members = {} THEN p ELSE x.leader
    OBVIOUS
  <2>2. PICK y : y = Object(l, x.members \cup {p}, x.chars)
    OBVIOUS
  <2>3. l \in Pids /\ (l = p \/ l \in x.members)
    <3>1. CASE x.members = {}
      BY <2>1, <3>1
    <3>2. CASE x.members # {}
      BY <1>1, <1>3, <2>1, <3>2 DEF Good, Led
    <3>3. QED
      BY <3>1, <3>2
  <2>4. /\ y \in Objects /\ y.leader = l /\ y.members = x.members \cup {p}
        /\ y.chars = x.chars
    BY <1>3, <2>2, <2>3, ObjectFields
  <2>5. PICK o : o = [h.obj EXCEPT ![id] = y]
    OBVIOUS
  <2>6. PICK j : j = Heap(o, h.map, h.link, h.out, h.odd)
    OBVIOUS
  <2>7. /\ j.obj = o /\ j.map = h.map /\ j.link = h.link
        /\ j.out = h.out /\ j.odd = h.odd
    BY <2>6, HeapFields
  <2>8. /\ o \in [Ids -> Objects] /\ o[id] = y
        /\ \A i \in Ids : i # id => o[i] = h.obj[i]
    BY <1>2, <2>4, <2>5
  <2>9. Typed(j)
    BY <2>6, <2>7, <2>8 DEF Good, Typed
  <2>10. MapLeads(j) /\ LinksMeet(j)
    <3>1. MapLeads(h) /\ LinksMeet(h)
      BY DEF Good
    <3>2. QED
      BY <1>1, <1>2, <2>4, <2>7, <2>8, <3>1 DEF MapLeads, LinksMeet
  <2>11. CharsIn(j) /\ \A i \in Ids : Led(j, i)
    BY <1>1, <2>3, <2>4, <2>7, <2>8 DEF Good, CharsIn, Led
  <2>12. Good(j)
    BY <2>9, <2>10, <2>11 DEF Good
  <2>13. Quieter(j, h) /\ NoMoreLinks(j, h) /\ (h.obj[id] # Dead => StayDead(j, h))
    BY <2>7, <2>8 DEF Quieter, NoMoreLinks, StayDead
  <2>14. PICK k : k = SetPartyMember(j, p, id)
    OBVIOUS
  <2>15. After(k, j) /\ k.obj[id] = y
    BY <2>4, <2>7, <2>8, <2>12, <2>14, SetPartyMemberKeeps
  <2>16. P2PJoin(h, id, p) = k
    BY <1>1, <1>5, <2>1, <2>2, <2>5, <2>6, <2>14 DEF P2PJoin
  <2>17. Quieter(k, h) /\ NoMoreLinks(k, h) /\ (h.obj[id] # Dead => StayDead(k, h))
    BY <2>13, <2>15, QuieterTrans DEF After, NoMoreLinks, StayDead
  <2>18. QED
    BY <2>3, <2>4, <2>15, <2>16, <2>17 DEF After
<1>6. QED
  BY <1>4, <1>5

LEMMA JoinKeeps ==
  ASSUME NEW h, NEW id \in Ids, NEW p \in Pids, Good(h)
  PROVE  LET k == Join(h, id, p) IN
           /\ Good(k) /\ Quieter(k, h) /\ NoMoreLinks(k, h)
           /\ p \in k.obj[id].members
<1>1. PICK j : j = P2PJoin(h, id, p)
  OBVIOUS
<1>2. /\ Good(j) /\ Quieter(j, h) /\ NoMoreLinks(j, h)
      /\ p \in j.obj[id].members /\ j.obj[id].leader \in Pids
  BY <1>1, P2PJoinKeeps
<1>3. PICK m : m = Msg("add", j.obj[id].leader, p)
  OBVIOUS
<1>4. m \in PartyMsgs /\ m \in ToDb
  BY <1>2, <1>3, MsgKinds DEF PartyOps
<1>5. PICK k : k = Say(j, m)
  OBVIOUS
<1>6. After(k, j) /\ k.obj = j.obj
  BY <1>2, <1>4, <1>5, SayKeeps, SayFields DEF Good
<1>7. Join(h, id, p) = k
  BY <1>1, <1>3, <1>5 DEF Join
<1>8. QED
  BY <1>2, <1>6, <1>7, QuieterTrans DEF After, NoMoreLinks

\* Link and Unlink change the pointer of one character.
OneLink(k, h, p) == \A q \in Pids : q # p => k.link[q] = h.link[q]

LEMMA LinkKeeps ==
  ASSUME NEW h, NEW id \in Ids, NEW p \in Pids, Good(h), h.link[p] \in {NoId, id}
  PROVE  LET k == Link(h, id, p) IN
           /\ Good(k) /\ Quieter(k, h) /\ OneLink(k, h, p)
           /\ p \in h.obj[id].members => k.link[p] = id
<1>1. PICK x : x = h.obj[id]
  OBVIOUS
<1>2. /\ h.map \in [Pids -> Ids \cup {NoId}] /\ h.obj \in [Ids -> Objects]
      /\ h.link \in [Pids -> Ids \cup {NoId}]
  BY DEF Good, Typed
<1>3. x \in Objects /\ x.leader \in Pids \cup {NoOne} /\ x.members \subseteq Pids /\ x.chars \subseteq Pids
  BY <1>1, <1>2, ObjectFields
<1>4. CASE p \notin x.members
  <2>1. Link(h, id, p) = Odd(h)
    BY <1>1, <1>4 DEF Link
  <2>2. QED
    BY <1>1, <1>4, <2>1, OddKeeps DEF After, OneLink
<1>5. CASE p \in x.members
  <2>1. PICK y : y = Object(x.leader, x.members, x.chars \cup {p})
    OBVIOUS
  <2>2. /\ y \in Objects /\ y.leader = x.leader /\ y.members = x.members
        /\ y.chars = x.chars \cup {p}
    BY <1>3, <2>1, ObjectFields
  <2>3. PICK j : j = Heap([h.obj EXCEPT ![id] = y], h.map, [h.link EXCEPT ![p] = id], h.out, h.odd)
    OBVIOUS
  <2>4. /\ j.obj = [h.obj EXCEPT ![id] = y] /\ j.map = h.map
        /\ j.link = [h.link EXCEPT ![p] = id] /\ j.out = h.out /\ j.odd = h.odd
    BY <2>3, HeapFields
  <2>5. /\ j.obj[id] = y /\ \A i \in Ids : i # id => j.obj[i] = h.obj[i]
        /\ j.link[p] = id /\ \A q \in Pids : q # p => j.link[q] = h.link[q]
    BY <1>2, <2>4
  <2>6. Typed(j)
    <3>1. j.obj \in [Ids -> Objects] /\ j.link \in [Pids -> Ids \cup {NoId}]
      BY <1>2, <2>2, <2>4
    <3>2. QED
      BY <2>3, <2>4, <3>1 DEF Good, Typed
  <2>7. MapLeads(j)
    <3>1. MapLeads(h)
      BY DEF Good
    <3>2. QED
      BY <1>1, <1>2, <2>2, <2>4, <2>5, <3>1 DEF MapLeads
  <2>8. LinksMeet(j)
    <3>1. LinksMeet(h)
      BY DEF Good
    <3>2. QED
      BY <1>1, <1>2, <2>2, <2>5, <3>1 DEF LinksMeet
  <2>9. CharsIn(j) /\ \A i \in Ids : Led(j, i)
    BY <1>1, <1>5, <2>2, <2>5 DEF Good, CharsIn, Led
  <2>10. Good(j)
    BY <2>6, <2>7, <2>8, <2>9 DEF Good
  <2>11. PICK m : m = Msg("level", x.leader, p)
    OBVIOUS
  <2>12. m \in PartyMsgs /\ m \in ToDb
    BY <1>1, <1>5, <2>11, MsgKinds, LeaderIn DEF PartyOps
  <2>13. PICK k : k = Say(j, m)
    OBVIOUS
  <2>14. After(k, j) /\ k.link = j.link
    BY <2>10, <2>12, <2>13, SayKeeps, SayFields DEF Good
  <2>15. Link(h, id, p) = k
    BY <1>1, <1>5, <2>1, <2>3, <2>11, <2>13 DEF Link
  <2>16. Quieter(j, h)
    BY <2>4 DEF Quieter
  <2>17. Quieter(k, h)
    BY <2>14, <2>16, QuieterTrans DEF After
  <2>18. QED
    BY <2>5, <2>14, <2>15, <2>17 DEF After, OneLink
<1>6. QED
  BY <1>4, <1>5

LEMMA UnlinkKeeps ==
  ASSUME NEW h, NEW p \in Pids, Good(h)
  PROVE  /\ Good(Unlinked(h, p)) /\ Unlinked(h, p).out = h.out
         /\ Unlinked(h, p).link[p] = NoId /\ OneLink(Unlinked(h, p), h, p)
<1>1. /\ h.map \in [Pids -> Ids \cup {NoId}] /\ h.obj \in [Ids -> Objects]
      /\ h.link \in [Pids -> Ids \cup {NoId}]
  BY DEF Good, Typed
<1>2. CASE h.link[p] = NoId
  BY <1>2 DEF Unlinked, OneLink
<1>3. CASE h.link[p] # NoId
  <2>1. PICK id \in Ids : id = h.link[p]
    BY <1>1, <1>3
  <2>2. PICK x : x = h.obj[id]
    OBVIOUS
  <2>3. p \in x.chars /\ p \in x.members
    BY <2>1, <2>2 DEF Good, LinksMeet, CharsIn
  <2>4. x \in Objects /\ x.leader \in Pids \cup {NoOne} /\ x.members \subseteq Pids /\ x.chars \subseteq Pids
    BY <1>1, <2>2, ObjectFields
  <2>5. PICK y : y = Object(x.leader, x.members, x.chars \ {p})
    OBVIOUS
  <2>6. /\ y \in Objects /\ y.leader = x.leader /\ y.members = x.members
        /\ y.chars = x.chars \ {p}
    BY <2>4, <2>5, ObjectFields
  <2>7. PICK k : k = Heap([h.obj EXCEPT ![id] = y], h.map, [h.link EXCEPT ![p] = NoId], h.out, h.odd)
    OBVIOUS
  <2>8. /\ k.obj = [h.obj EXCEPT ![id] = y] /\ k.map = h.map
        /\ k.link = [h.link EXCEPT ![p] = NoId] /\ k.out = h.out /\ k.odd = h.odd
    BY <2>7, HeapFields
  <2>9. /\ k.obj[id] = y /\ \A i \in Ids : i # id => k.obj[i] = h.obj[i]
        /\ k.link[p] = NoId /\ \A q \in Pids : q # p => k.link[q] = h.link[q]
    BY <1>1, <2>8
  <2>10. Typed(k)
    <3>1. k.obj \in [Ids -> Objects] /\ k.link \in [Pids -> Ids \cup {NoId}]
      BY <1>1, <2>6, <2>8
    <3>2. QED
      BY <2>7, <2>8, <3>1 DEF Good, Typed
  <2>11. MapLeads(k)
    <3>1. MapLeads(h)
      BY DEF Good
    <3>2. QED
      BY <1>1, <2>2, <2>6, <2>8, <2>9, <3>1 DEF MapLeads
  <2>12. LinksMeet(k)
    <3>1. LinksMeet(h)
      BY DEF Good
    <3>2. QED
      BY <1>1, <2>1, <2>2, <2>6, <2>9, <3>1 DEF LinksMeet
  <2>13. CharsIn(k) /\ \A i \in Ids : Led(k, i)
    BY <2>2, <2>6, <2>9 DEF Good, CharsIn, Led
  <2>14. Unlinked(h, p) = k
    BY <1>3, <2>1, <2>2, <2>3, <2>5, <2>7 DEF Unlinked, Unlink
  <2>15. QED
    BY <2>8, <2>9, <2>10, <2>11, <2>12, <2>13, <2>14 DEF Good, OneLink
<1>4. QED
  BY <1>2, <1>3

LEMMA NewFacts ==
  ASSUME NEW h, Room(h)
  PROVE  New(h) \in Ids /\ h.obj[New(h)] = Dead
  BY DEF Room, New

LEMMA CreatePartyKeeps ==
  ASSUME NEW h, NEW p \in Pids, Good(h), Room(h), h.link[p] = NoId
  PROVE  LET k == CreateParty(h, p) IN
           /\ Good(k) /\ Quieter(k, h)
           /\ \A q \in Pids : q # p => k.link[q] \in {h.link[q], NoId}
           /\ k.link[p] \in Ids
<1>1. PICK id \in Ids : id = New(h)
  BY NewFacts
<1>2. PICK m : m = Msg("create", p, p)
  OBVIOUS
<1>3. m \in PartyMsgs /\ m \in ToDb
  BY <1>2, MsgKinds DEF PartyOps
<1>4. PICK a : a = Say(h, m)
  OBVIOUS
<1>5. After(a, h) /\ a.link = h.link
  BY <1>3, <1>4, SayKeeps, SayFields DEF Good
<1>6. PICK b : b = Join(a, id, p)
  OBVIOUS
<1>7. Good(b) /\ Quieter(b, a) /\ NoMoreLinks(b, a) /\ p \in b.obj[id].members
  BY <1>5, <1>6, JoinKeeps DEF After
<1>8. b.link[p] = NoId
  BY <1>5, <1>7 DEF NoMoreLinks
<1>9. PICK k : k = Link(b, id, p)
  OBVIOUS
<1>10. Good(k) /\ Quieter(k, b) /\ OneLink(k, b, p) /\ k.link[p] = id
  BY <1>7, <1>8, <1>9, LinkKeeps
<1>11. CreateParty(h, p) = k
  BY <1>1, <1>2, <1>4, <1>6, <1>9 DEF CreateParty
<1>12. Quieter(k, h)
  BY <1>5, <1>7, <1>10, QuieterTrans DEF After
<1>13. QED
  BY <1>5, <1>7, <1>10, <1>11, <1>12 DEF NoMoreLinks, OneLink

\* The invitation of two players without a party links these two.
LEMMA FoundKeeps ==
  ASSUME NEW h, NEW p \in Pids, NEW q \in Pids, p # q, Good(h), Room(h),
         h.link[p] = NoId, h.link[q] = NoId
  PROVE  LET k == Found(h, p, q) IN
           /\ Good(k) /\ Quieter(k, h)
           /\ \A r \in Pids \ {p, q} : k.link[r] \in {h.link[r], NoId}
<1>1. PICK a : a = CreateParty(h, p)
  OBVIOUS
<1>2. /\ Good(a) /\ Quieter(a, h) /\ a.link[p] \in Ids
      /\ \A r \in Pids : r # p => a.link[r] \in {h.link[r], NoId}
  BY <1>1, CreatePartyKeeps
<1>3. PICK id \in Ids : id = a.link[p]
  BY <1>2
<1>4. PICK b : b = Join(a, id, q)
  OBVIOUS
<1>5. Good(b) /\ Quieter(b, a) /\ NoMoreLinks(b, a)
  BY <1>2, <1>4, JoinKeeps
<1>6. b.link[q] = NoId
  BY <1>2, <1>5 DEF NoMoreLinks
<1>7. PICK k : k = Link(b, id, q)
  OBVIOUS
<1>8. Good(k) /\ Quieter(k, b) /\ OneLink(k, b, q)
  BY <1>5, <1>6, <1>7, LinkKeeps
<1>9. Found(h, p, q) = k
  BY <1>1, <1>3, <1>4, <1>7 DEF Found
<1>10. Quieter(k, h)
  BY <1>2, <1>5, <1>8, QuieterTrans
<1>11. \A r \in Pids \ {p, q} : k.link[r] \in {h.link[r], NoId}
  BY <1>2, <1>5, <1>8 DEF NoMoreLinks, OneLink
<1>12. QED
  BY <1>8, <1>9, <1>10, <1>11

LEMMA InvitedKeeps ==
  ASSUME NEW h, NEW id \in Ids, NEW q \in Pids, Good(h), h.link[q] = NoId
  PROVE  LET k == Link(Join(h, id, q), id, q) IN
           /\ Good(k) /\ Quieter(k, h)
           /\ \A r \in Pids \ {q} : k.link[r] \in {h.link[r], NoId}
<1>1. PICK b : b = Join(h, id, q)
  OBVIOUS
<1>2. Good(b) /\ Quieter(b, h) /\ NoMoreLinks(b, h)
  BY <1>1, JoinKeeps
<1>3. b.link[q] = NoId
  BY <1>2 DEF NoMoreLinks
<1>4. PICK k : k = Link(b, id, q)
  OBVIOUS
<1>5. Good(k) /\ Quieter(k, b) /\ OneLink(k, b, q)
  BY <1>2, <1>3, <1>4, LinkKeeps
<1>6. QED
  BY <1>1, <1>2, <1>4, <1>5, QuieterTrans DEF NoMoreLinks, OneLink

\* What messages of the db do to a heap.
Follows(k, h) == Good(k) /\ Quieter(k, h) /\ NoMoreLinks(k, h)

LEMMA P2PCreateKeeps ==
  ASSUME NEW h, NEW p \in Pids, Good(h), Room(h)
  PROVE  Follows(P2PCreateParty(h, p), h)
<1>1. CASE h.map[p] # NoId
  BY <1>1, AfterSelf DEF P2PCreateParty, After, Follows
<1>2. CASE h.map[p] = NoId
  BY <1>2, NewFacts, P2PJoinKeeps DEF P2PCreateParty, Follows
<1>3. QED
  BY <1>1, <1>2

LEMMA LeveledKeeps ==
  ASSUME NEW h, NEW l \in Pids, Good(h), Room(h)
  PROVE  Follows(Leveled(h, l), h)
<1>1. CASE h.map[l] # NoId
  BY <1>1, AfterSelf DEF Leveled, After, Follows
<1>2. CASE h.map[l] = NoId
  <2>1. PICK k : k = P2PCreateParty(h, l)
    OBVIOUS
  <2>2. Follows(k, h)
    BY <2>1, P2PCreateKeeps
  <2>3. After(Odd(k), k)
    BY <2>2, OddKeeps DEF Follows
  <2>4. Leveled(h, l) = Odd(k)
    BY <1>2, <2>1 DEF Leveled
  <2>5. QED
    BY <2>2, <2>3, <2>4, QuieterTrans DEF Follows, After, NoMoreLinks
<1>3. QED
  BY <1>1, <1>2

LEMMA P2PJoinPartyKeeps ==
  ASSUME NEW h, NEW l \in Pids, NEW p \in Pids, Good(h)
  PROVE  After(P2PJoinParty(h, l, p), h)
<1>1. CASE h.map[l] = NoId
  BY <1>1, OddKeeps DEF P2PJoinParty
<1>2. CASE h.map[l] # NoId
  <2>1. h.map[l] \in Ids /\ h.obj[h.map[l]].members # {}
    BY <1>2 DEF Good, Typed, MapLeads
  <2>2. h.obj[h.map[l]] # Dead
    BY <2>1, LeaderIn
  <2>3. P2PJoinParty(h, l, p) = P2PJoin(h, h.map[l], p)
    BY <1>2 DEF P2PJoinParty
  <2>4. QED
    BY <2>1, <2>2, <2>3, P2PJoinKeeps DEF After
<1>3. QED
  BY <1>1, <1>2

LEMMA HandledKeeps ==
  ASSUME NEW h, NEW m \in PartyMsgs, Good(h), Room(h)
  PROVE  /\ Follows(Handled(h, m), h)
         /\ m.op = "add" => Room(Handled(h, m))
<1>1. m.leader \in Pids /\ m.pid \in Pids /\ m.op \in PartyOps
  BY DEF PartyMsgs
<1>2. CASE m.op = "create"
  <2>1. Handled(h, m) = P2PCreateParty(h, m.leader)
    BY <1>2 DEF Handled
  <2>2. QED
    BY <1>1, <1>2, <2>1, P2PCreateKeeps
<1>3. CASE m.op = "delete"
  <2>1. Handled(h, m) = P2PDeleteParty(h, m.leader)
    BY <1>3 DEF Handled
  <2>2. CASE h.map[m.leader] = NoId
    BY <1>3, <2>1, <2>2, OddKeeps DEF P2PDeleteParty, After, Follows
  <2>3. CASE h.map[m.leader] # NoId
    <3>1. h.map[m.leader] \in Ids
      BY <1>1, <2>3 DEF Good, Typed
    <3>2. Nearly(h, h.map[m.leader])
      BY DEF Good, Nearly
    <3>3. Handled(h, m) = Destroy(h, h.map[m.leader])
      BY <2>1, <2>3 DEF P2PDeleteParty
    <3>4. QED
      BY <1>3, <3>1, <3>2, <3>3, DestroyKeeps DEF Follows, Quieter
  <2>4. QED
    BY <2>2, <2>3
<1>4. CASE m.op = "add"
  <2>1. Handled(h, m) = P2PJoinParty(h, m.leader, m.pid)
    BY <1>4 DEF Handled
  <2>2. After(Handled(h, m), h)
    BY <1>1, <2>1, P2PJoinPartyKeeps
  <2>3. Room(Handled(h, m))
    BY <2>2 DEF After, StayDead, Room
  <2>4. QED
    BY <2>2, <2>3 DEF After, Follows
<1>5. CASE m.op = "remove"
  <2>1. Handled(h, m) = P2PQuitParty(h, m.leader, m.pid)
    BY <1>5 DEF Handled
  <2>2. CASE h.map[m.pid] = NoId
    BY <1>5, <2>1, <2>2, OddKeeps DEF P2PQuitParty, After, Follows
  <2>3. CASE h.map[m.pid] # NoId
    <3>1. h.map[m.pid] \in Ids
      BY <1>1, <2>3 DEF Good, Typed
    <3>2. PICK k : k = P2PQuit(h, h.map[m.pid], m.pid)
      OBVIOUS
    <3>3. After(k, h)
      BY <1>1, <3>1, <3>2, P2PQuitKeeps
    <3>4. After(Odd(k), h)
      BY <3>3, OddKeeps, AfterTrans DEF After
    <3>5. Handled(h, m) \in {k, Odd(k)}
      BY <2>1, <2>3, <3>2 DEF P2PQuitParty
    <3>6. QED
      BY <1>1, <1>5, <3>3, <3>4, <3>5 DEF After, Follows
  <2>4. QED
    BY <2>2, <2>3
<1>6. CASE m.op = "level"
  <2>1. Handled(h, m) = Leveled(h, m.leader)
    BY <1>6 DEF Handled
  <2>2. QED
    BY <1>1, <1>6, <2>1, LeveledKeeps
<1>7. QED
  BY <1>1, <1>2, <1>3, <1>4, <1>5, <1>6 DEF PartyOps

\* A broken connection ends all parties.
LEMMA EndedKeeps ==
  ASSUME NEW h, Good(h)
  PROVE  Good(Ended(h)) /\ NoMoreLinks(Ended(h), h) /\ Ended(h).out = << >>
<1>1. PICK k : k = Ended(h)
  OBVIOUS
<1>2. /\ h.map \in [Pids -> Ids \cup {NoId}] /\ h.obj \in [Ids -> Objects]
      /\ h.link \in [Pids -> Ids \cup {NoId}]
  BY DEF Good, Typed
<1>3. PICK ms, cs : /\ ms = UNION {h.obj[id].members : id \in Ids}
                    /\ cs = UNION {h.obj[id].chars : id \in Ids}
  OBVIOUS
<1>4. /\ k.obj = NoObjects
      /\ k.map = [p \in Pids |-> IF p \in ms THEN NoId ELSE h.map[p]]
      /\ k.link = [p \in Pids |-> IF p \in cs THEN NoId ELSE h.link[p]]
      /\ k.out = << >> /\ k.odd = h.odd
      /\ k = Heap(k.obj, k.map, k.link, k.out, k.odd)
  BY <1>1, <1>3, HeapFields DEF Ended
<1>5. ASSUME NEW p \in Pids PROVE k.map[p] = NoId /\ k.link[p] = NoId
  <2>1. h.map[p] # NoId => p \in ms
    BY <1>2, <1>3 DEF Good, MapLeads
  <2>2. h.link[p] # NoId => p \in cs
    BY <1>2, <1>3 DEF Good, LinksMeet
  <2>3. QED
    BY <1>4, <2>1, <2>2
<1>6. \A id \in Ids : k.obj[id] = Dead
  BY <1>4 DEF NoObjects
<1>7. Typed(k)
  <2>1. k.obj \in [Ids -> Objects]
    BY <1>4, ObjectFields DEF NoObjects
  <2>2. k.map \in [Pids -> Ids \cup {NoId}] /\ k.link \in [Pids -> Ids \cup {NoId}]
    BY <1>2, <1>4
  <2>3. << >> \in Seq(ToDb) /\ h.odd \in BOOLEAN
    BY DEF Good, Typed
  <2>4. QED
    BY <1>4, <2>1, <2>2, <2>3 DEF Typed
<1>8. MapLeads(k) /\ LinksMeet(k) /\ CharsIn(k) /\ \A i \in Ids : Led(k, i)
  BY <1>5, <1>6, ObjectFields DEF MapLeads, LinksMeet, CharsIn, Led
<1>9. NoMoreLinks(k, h)
  BY <1>5 DEF NoMoreLinks
<1>10. QED
  BY <1>1, <1>4, <1>7, <1>8, <1>9 DEF Good

LEMMA EmptyGood ==
  ASSUME NEW e \in BOOLEAN
  PROVE  LET k == Heap(NoObjects, Nobody, Nobody, << >>, e) IN
           /\ Good(k) /\ k.out = << >> /\ \A p \in Pids : k.link[p] = NoId
<1>1. PICK k : k = Heap(NoObjects, Nobody, Nobody, << >>, e)
  OBVIOUS
<1>2. /\ k.obj = NoObjects /\ k.map = Nobody /\ k.link = Nobody
      /\ k.out = << >> /\ k.odd = e
  BY <1>1, HeapFields
<1>3. /\ \A p \in Pids : k.map[p] = NoId /\ k.link[p] = NoId
      /\ \A id \in Ids : k.obj[id] = Dead
  BY <1>2 DEF Nobody, NoObjects
<1>4. Typed(k)
  <2>1. k.obj \in [Ids -> Objects]
    BY <1>2, ObjectFields DEF NoObjects
  <2>2. k.map \in [Pids -> Ids \cup {NoId}] /\ k.link \in [Pids -> Ids \cup {NoId}]
    BY <1>2 DEF Nobody
  <2>3. << >> \in Seq(ToDb)
    OBVIOUS
  <2>4. QED
    BY <1>1, <1>2, <2>1, <2>2, <2>3 DEF Typed
<1>5. MapLeads(k) /\ LinksMeet(k) /\ CharsIn(k) /\ \A i \in Ids : Led(k, i)
  BY <1>3, ObjectFields DEF MapLeads, LinksMeet, CharsIn, Led
<1>6. QED
  BY <1>1, <1>2, <1>3, <1>4, <1>5 DEF Good

-----------------------------------------------------------------------------
(* The invariant of the system.  A player is in one place: free, on its way to *)
(* a game, in a game, or on its way out; so its character is in one game.      *)

outs == [g \in Games |-> heap[g].out]

NoneIn(f, m) == \A g \in Games : Absent(f[g], m)
OneIn(f, m)  == /\ \A g \in Games : Once(f[g], m)
                /\ \A g, r \in Games : g # r => Absent(f[g], m) \/ Absent(f[r], m)
Nowhere(p)   == NoneIn(toGame, Enter(p)) /\ NoneIn(outs, Logout(p))

OnePlace(p) ==
  /\ OneIn(toGame, Enter(p)) /\ OneIn(outs, Logout(p))
  /\ NoneIn(toGame, Enter(p)) \/ NoneIn(outs, Logout(p))
  /\ at[p] # NoOne => p \notin free /\ Nowhere(p)
  /\ p \in free => Nowhere(p)

Types ==
  /\ party \in [Pids -> {NoParty} \cup SUBSET Pids]
  /\ known \subseteq up /\ up \subseteq Games
  /\ free \subseteq Pids /\ dbOdd \in BOOLEAN /\ breaks \in Nat
  /\ setup \in [Games -> SUBSET PartyMsgs]
  /\ toGame \in [Games -> Seq(ToGames)]
  /\ at \in [Pids -> Games \cup {NoOne}]
  /\ ingame \subseteq {p \in Pids : at[p] # NoOne}

Linked(g) == \A p \in Pids : heap[g].link[p] # NoId => p \in ingame /\ at[p] = g

HeapsGood == heap \in [Games -> Heaps] /\ \A g \in Games : Good(heap[g]) /\ Linked(g)

Inv == Types /\ HeapsGood /\ \A p \in Pids : OnePlace(p)

LEMMA SeqWider ==
  ASSUME NEW S, NEW T, S \subseteq T
  PROVE  Seq(S) \subseteq Seq(T)
<1>1. SUFFICES ASSUME NEW s \in Seq(S) PROVE s \in Seq(T)
  OBVIOUS
<1>2. /\ Len(s) \in Nat /\ s = [i \in 1 .. Len(s) |-> s[i]]
      /\ \A i \in 1 .. Len(s) : s[i] \in T
  OBVIOUS
<1>3. s \in [1 .. Len(s) -> T]
  BY <1>2
<1>4. QED
  BY <1>2, <1>3

LEMMA MsgsWider == ToDb \subseteq Msgs /\ ToGames \subseteq Msgs /\ PartyMsgs \subseteq Msgs
  BY DEF ToDb, ToGames, PartyMsgs, PartyOps, Msgs, Ops, Msg, Enter, Logout

LEMMA GoodInHeaps == \A h : Good(h) => h \in Heaps
<1>1. SUFFICES ASSUME NEW h, Good(h) PROVE h \in Heaps
  OBVIOUS
<1>2. h.out \in Seq(Msgs)
  BY <1>1, SeqWider, MsgsWider DEF Good, Typed
<1>3. QED
  BY <1>1, <1>2 DEF Good, Typed, Heaps, Heap

LEMMA GoodSound ==
  ASSUME NEW h, Good(h)
  PROVE  Sound(h)
<1>1. h.obj \in [Ids -> Objects] /\ h.link \in [Pids -> Ids \cup {NoId}]
  BY DEF Good, Typed
<1>2. \A id \in Ids : h.obj[id].chars \subseteq Pids
  BY <1>1, ObjectFields
<1>3. /\ \A p \in Pids : h.link[p] # NoId => p \in h.obj[h.link[p]].chars
      /\ \A id \in Ids : \A p \in h.obj[id].chars : h.link[p] = id
  BY <1>1, <1>2 DEF Good, LinksMeet
<1>4. QED
  BY <1>3 DEF Sound, Good, MapLeads, CharsIn, Led

LEMMA InvTypes == Inv => TypeOK /\ PointersAlive
<1>1. SUFFICES ASSUME Inv PROVE TypeOK /\ PointersAlive
  OBVIOUS
<1>2. setup \in [Games -> SUBSET Msgs]
  BY <1>1, MsgsWider DEF Inv, Types
<1>3. toGame \in [Games -> Seq(Msgs)]
  BY <1>1, SeqWider, MsgsWider DEF Inv, Types
<1>4. TypeOK
  BY <1>1, <1>2, <1>3 DEF TypeOK, Inv, Types, HeapsGood
<1>5. PointersAlive
  <2>1. \A g \in Games : Good(heap[g]) /\ Linked(g)
    BY <1>1 DEF Inv, HeapsGood
  <2>2. \A g \in Games : Sound(heap[g])
    BY <2>1, GoodSound
  <2>3. QED
    BY <2>1, <2>2 DEF PointersAlive, Linked
<1>6. QED
  BY <1>4, <1>5

\* A queue that says no more of m than before, in every game.
Less(k, f, m) == \A g \in Games : /\ Absent(f[g], m) => Absent(k[g], m)
                                  /\ Once(f[g], m) => Once(k[g], m)

LEMMA LessFacts ==
  ASSUME NEW f, NEW k, NEW m, Less(k, f, m)
  PROVE  (NoneIn(f, m) => NoneIn(k, m)) /\ (OneIn(f, m) => OneIn(k, m))
  BY DEF Less, NoneIn, OneIn

LEMMA PlaceKept ==
  ASSUME NEW p \in Pids, OnePlace(p),
         Less(toGame', toGame, Enter(p)), Less(outs', outs, Logout(p)),
         at'[p] = at[p] \/ at'[p] = NoOne,
         p \in free' => p \in free \/ (at'[p] = NoOne /\ Nowhere(p)')
  PROVE  OnePlace(p)'
<1>1. /\ NoneIn(toGame, Enter(p)) => NoneIn(toGame', Enter(p))
      /\ OneIn(toGame, Enter(p)) => OneIn(toGame', Enter(p))
      /\ NoneIn(outs, Logout(p)) => NoneIn(outs', Logout(p))
      /\ OneIn(outs, Logout(p)) => OneIn(outs', Logout(p))
  BY LessFacts
<1>2. Nowhere(p) => Nowhere(p)'
  BY <1>1 DEF Nowhere
<1>3. /\ OneIn(toGame', Enter(p)) /\ OneIn(outs', Logout(p))
      /\ NoneIn(toGame', Enter(p)) \/ NoneIn(outs', Logout(p))
  BY <1>1 DEF OnePlace
<1>4. at'[p] # NoOne => p \notin free' /\ Nowhere(p)'
  BY <1>2 DEF OnePlace
<1>5. p \in free' => Nowhere(p)'
  BY <1>2 DEF OnePlace
<1>6. QED
  BY <1>3, <1>4, <1>5 DEF OnePlace

LEMMA SameLess ==
  ASSUME NEW f, NEW m
  PROVE  Less(f, f, m)
  BY DEF Less

\* One game's heap changes, and says nothing of players on their way.
LEMMA OutsLess ==
  ASSUME NEW g \in Games, NEW k, NEW p \in Pids, heap \in [Games -> Heaps],
         heap' = [heap EXCEPT ![g] = k], Quieter(k, heap[g])
  PROVE  Less(outs', outs, Logout(p))
<1>1. heap'[g] = k /\ \A r \in Games : r # g => heap'[r] = heap[r]
  OBVIOUS
<1>2. \A r \in Games : outs[r] = heap[r].out /\ outs'[r] = heap'[r].out
  BY DEF outs
<1>3. QED
  BY <1>1, <1>2 DEF Less, Quieter

LEMMA HeapChanges ==
  ASSUME Inv, NEW g \in Games, NEW k, Good(k), heap' = [heap EXCEPT ![g] = k],
         at' = at, ingame \subseteq ingame',
         \A p \in Pids : \/ k.link[p] \in {heap[g].link[p], NoId}
                         \/ p \in ingame' /\ at[p] = g
  PROVE  HeapsGood'
<1>1. heap \in [Games -> Heaps] /\ \A r \in Games : Good(heap[r]) /\ Linked(r)
  BY DEF Inv, HeapsGood
<1>2. heap' \in [Games -> Heaps]
  BY <1>1, GoodInHeaps
<1>3. heap'[g] = k /\ \A r \in Games : r # g => heap'[r] = heap[r]
  BY <1>1
<1>4. Linked(g)'
  BY <1>1, <1>3 DEF Linked
<1>5. \A r \in Games : r # g => Linked(r)'
  BY <1>1, <1>3 DEF Linked
<1>6. QED
  BY <1>1, <1>2, <1>3, <1>4, <1>5 DEF HeapsGood

-----------------------------------------------------------------------------
(* The actions.                                                              *)

LEMMA InitInv == Init => Inv
<1>1. SUFFICES ASSUME Init PROVE Inv
  OBVIOUS
<1>2. Types
  <2>1. << >> \in Seq(ToGames)
    OBVIOUS
  <2>2. QED
    BY <1>1, <2>1 DEF Init, Types
<1>3. \A g \in Games : heap[g] = Heap(NoObjects, Nobody, Nobody, << >>, FALSE)
  BY <1>1 DEF Init
<1>4. \A g \in Games : Good(heap[g]) /\ heap[g].out = << >> /\ Linked(g)
  BY <1>3, EmptyGood DEF Linked
<1>5. HeapsGood
  <2>1. heap = [g \in Games |-> heap[g]]
    BY <1>1 DEF Init
  <2>2. QED
    BY <1>4, <2>1, GoodInHeaps DEF HeapsGood
<1>6. ASSUME NEW p \in Pids PROVE OnePlace(p)
  <2>1. \A g \in Games : toGame[g] = << >> /\ outs[g] = << >>
    BY <1>1, <1>4 DEF Init, outs
  <2>2. QED
    BY <1>1, <2>1, EmptyFacts DEF Init, OnePlace, OneIn, NoneIn, Nowhere
<1>7. QED
  BY <1>2, <1>5, <1>6 DEF Inv

\* A player's action changes the heap of its own game.
LEMMA LocalInv ==
  ASSUME Inv, NEW g \in Games, NEW k, Good(k), Quieter(k, heap[g]), Local(g, k),
         at' = at, ingame \subseteq ingame', ingame' \subseteq {p \in Pids : at[p] # NoOne},
         \A p \in Pids : \/ k.link[p] \in {heap[g].link[p], NoId}
                         \/ p \in ingame' /\ at[p] = g
  PROVE  Inv'
<1>1. /\ heap' = [heap EXCEPT ![g] = k]
      /\ UNCHANGED <<party, known, free, dbOdd, breaks, setup, toGame, up>>
  BY DEF Local, dbVars
<1>2. HeapsGood'
  BY <1>1, HeapChanges
<1>3. Types'
  BY <1>1 DEF Inv, Types
<1>4. ASSUME NEW p \in Pids PROVE OnePlace(p)'
  <2>1. Less(outs', outs, Logout(p))
    BY <1>1, OutsLess DEF Inv, HeapsGood
  <2>2. OnePlace(p)
    BY DEF Inv
  <2>3. QED
    BY <1>1, <2>1, <2>2, SameLess, PlaceKept
<1>5. QED
  BY <1>2, <1>3, <1>4 DEF Inv

LEMMA ActsFacts ==
  ASSUME Inv, NEW p \in Pids, NEW g, NEW id, Acts(p, g, id)
  PROVE  /\ g \in Games /\ p \in ingame /\ at[p] = g /\ heap[g].link[p] = id
         /\ Good(heap[g]) /\ ingame \subseteq {q \in Pids : at[q] # NoOne}
         /\ id \in Ids => heap[g].obj[id].leader \in Pids
<1>1. g \in Games /\ p \in ingame /\ at[p] = g /\ heap[g].link[p] = id
  BY DEF Acts, Inv, Types
<1>2. Good(heap[g]) /\ ingame \subseteq {q \in Pids : at[q] # NoOne}
  BY <1>1 DEF Inv, Types, HeapsGood
<1>3. id \in Ids => heap[g].obj[id].members # {}
  BY <1>1, <1>2 DEF Good, LinksMeet, CharsIn
<1>4. QED
  BY <1>1, <1>2, <1>3, LeaderIn

LEMMA InviteToNewInv ==
  ASSUME Inv, NEW p \in Pids, NEW q \in Pids, InviteToNew(p, q)
  PROVE  Inv'
<1>1. PICK g : g = at[p]
  OBVIOUS
<1>2. PICK k : k = Found(heap[g], p, q)
  OBVIOUS
<1>3. /\ p # q /\ Acts(p, g, NoId) /\ Acts(q, g, NoId) /\ Room(heap[g])
      /\ Local(g, k) /\ at' = at /\ ingame' = ingame
  BY <1>1, <1>2 DEF InviteToNew, chars
<1>4. /\ g \in Games /\ Good(heap[g]) /\ heap[g].link[p] = NoId /\ heap[g].link[q] = NoId
      /\ p \in ingame /\ q \in ingame /\ at[p] = g /\ at[q] = g
      /\ ingame \subseteq {r \in Pids : at[r] # NoOne}
  BY <1>3, ActsFacts
<1>5. /\ Good(k) /\ Quieter(k, heap[g])
      /\ \A r \in Pids \ {p, q} : k.link[r] \in {heap[g].link[r], NoId}
  BY <1>2, <1>3, <1>4, FoundKeeps
<1>6. \A r \in Pids : k.link[r] \in {heap[g].link[r], NoId} \/ (r \in ingame' /\ at[r] = g)
  BY <1>3, <1>4, <1>5
<1>7. QED
  BY <1>3, <1>4, <1>5, <1>6, LocalInv

LEMMA InviteInv ==
  ASSUME Inv, NEW p \in Pids, NEW q \in Pids, NEW id \in Ids, Invite(p, q, id)
  PROVE  Inv'
<1>1. PICK g : g = at[p]
  OBVIOUS
<1>2. PICK k : k = Link(Join(heap[g], id, q), id, q)
  OBVIOUS
<1>3. /\ Acts(p, g, id) /\ Acts(q, g, NoId)
      /\ Local(g, k) /\ at' = at /\ ingame' = ingame
  BY <1>1, <1>2 DEF Invite, chars
<1>4. /\ g \in Games /\ Good(heap[g]) /\ heap[g].link[q] = NoId
      /\ q \in ingame /\ at[q] = g /\ ingame \subseteq {r \in Pids : at[r] # NoOne}
  BY <1>3, ActsFacts
<1>5. /\ Good(k) /\ Quieter(k, heap[g])
      /\ \A r \in Pids \ {q} : k.link[r] \in {heap[g].link[r], NoId}
  BY <1>2, <1>4, InvitedKeeps
<1>6. \A r \in Pids : k.link[r] \in {heap[g].link[r], NoId} \/ (r \in ingame' /\ at[r] = g)
  BY <1>3, <1>4, <1>5
<1>7. QED
  BY <1>3, <1>4, <1>5, <1>6, LocalInv

\* Departures, disbandings and level messages.
LEMMA ActInv ==
  ASSUME Inv, NEW p \in Pids, NEW id \in Ids, NEW q \in Pids,
         Expel(p, q, id) \/ Leave(p, id) \/ LevelUp(p, id)
  PROVE  Inv'
<1>1. PICK g : g = at[p]
  OBVIOUS
<1>2. Acts(p, g, id) /\ at' = at /\ ingame' = ingame
  BY <1>1 DEF Expel, Leave, LevelUp, chars
<1>3. /\ g \in Games /\ Good(heap[g]) /\ heap[g].obj[id].leader \in Pids
      /\ ingame \subseteq {r \in Pids : at[r] # NoOne}
  BY <1>2, ActsFacts
<1>4. Nearly(heap[g], id)
  BY <1>3 DEF Good, Nearly
<1>5. \A r \in Pids : Follows(Quit(heap[g], id, r), heap[g])
  BY <1>3, QuitKeeps DEF After, Follows
<1>6. Follows(DeleteParty(heap[g], id), heap[g])
  BY <1>3, <1>4, DeletePartyKeeps DEF Follows
<1>7. Follows(Say(heap[g], Msg("level", heap[g].obj[id].leader, p)), heap[g])
  <2>1. Msg("level", heap[g].obj[id].leader, p) \in PartyMsgs
    BY <1>3, MsgKinds DEF PartyOps
  <2>2. QED
    BY <1>3, <2>1, SayKeeps DEF After, Follows
<1>8. PICK k : Local(g, k) /\ Follows(k, heap[g])
  <2>1. CASE Expel(p, q, id)
    BY <1>1, <1>5, <1>6, <2>1 DEF Expel
  <2>2. CASE Leave(p, id)
    BY <1>1, <1>5, <1>6, <2>2 DEF Leave
  <2>3. CASE LevelUp(p, id)
    BY <1>1, <1>7, <2>3 DEF LevelUp
  <2>4. QED
    BY <2>1, <2>2, <2>3
<1>9. QED
  BY <1>2, <1>3, <1>8, LocalInv DEF Follows, NoMoreLinks

LEMMA EnterGameInv ==
  ASSUME Inv, NEW p \in Pids, EnterGame(p)
  PROVE  Inv'
<1>1. PICK g : g = at[p]
  OBVIOUS
<1>2. PICK k : k = IF heap[g].map[p] = NoId THEN heap[g] ELSE Link(heap[g], heap[g].map[p], p)
  OBVIOUS
<1>3. /\ g \in Games /\ p \notin ingame /\ Local(g, k) /\ ingame' = ingame \cup {p} /\ at' = at
  BY <1>1, <1>2 DEF EnterGame, Inv, Types
<1>4. Good(heap[g]) /\ heap[g].link[p] = NoId
  BY <1>3 DEF Inv, HeapsGood, Linked
<1>5. Good(k) /\ Quieter(k, heap[g]) /\ OneLink(k, heap[g], p)
  <2>1. CASE heap[g].map[p] = NoId
    BY <1>2, <1>4, <2>1, AfterSelf DEF After, OneLink
  <2>2. CASE heap[g].map[p] # NoId
    <3>1. heap[g].map[p] \in Ids
      BY <1>4, <2>2 DEF Good, Typed
    <3>2. QED
      BY <1>2, <1>4, <2>2, <3>1, LinkKeeps
  <2>3. QED
    BY <2>1, <2>2
<1>6. ingame' \subseteq {r \in Pids : at[r] # NoOne}
  BY <1>1, <1>3 DEF Inv, Types
<1>7. \A r \in Pids : k.link[r] \in {heap[g].link[r], NoId} \/ (r \in ingame' /\ at[r] = g)
  BY <1>1, <1>3, <1>5 DEF OneLink
<1>8. QED
  BY <1>3, <1>5, <1>6, <1>7, LocalInv

LEMMA DisconnectInv ==
  ASSUME Inv, NEW p \in Pids, Disconnect(p)
  PROVE  Inv'
<1>1. PICK g : g = at[p]
  OBVIOUS
<1>2. PICK j : j = Unlinked(heap[g], p)
  OBVIOUS
<1>3. PICK k : k = IF g \in up THEN Say(j, Logout(p)) ELSE j
  OBVIOUS
<1>4. /\ g \in Games /\ heap' = [heap EXCEPT ![g] = k]
      /\ free' = IF g \in up THEN free ELSE free \cup {p}
      /\ UNCHANGED <<party, known, dbOdd, breaks, setup, toGame, up>>
      /\ at' = [at EXCEPT ![p] = NoOne] /\ ingame' = ingame \ {p}
  <2>1. g # NoOne /\ at' = [at EXCEPT ![p] = NoOne] /\ ingame' = ingame \ {p}
    BY <1>1 DEF Disconnect
  <2>2. g \in Games
    BY <1>1, <2>1 DEF Inv, Types
  <2>3. CASE g \in up
    BY <1>1, <1>2, <1>3, <2>1, <2>2, <2>3 DEF Disconnect, Local, dbVars, Logout
  <2>4. CASE g \notin up
    BY <1>1, <1>2, <1>3, <2>1, <2>2, <2>4 DEF Disconnect
  <2>5. QED
    BY <2>3, <2>4
<1>5. at \in [Pids -> Games \cup {NoOne}] /\ heap \in [Games -> Heaps]
  BY DEF Inv, Types, HeapsGood
<1>6. at'[p] = NoOne /\ \A q \in Pids : q # p => at'[q] = at[q]
  BY <1>4, <1>5
<1>7. heap'[g] = k /\ \A r \in Games : r # g => heap'[r] = heap[r]
  BY <1>4, <1>5
<1>8. Good(heap[g]) /\ heap[g].out \in Seq(ToDb)
  BY <1>4 DEF Inv, HeapsGood, Good, Typed
<1>9. Good(j) /\ j.out = heap[g].out /\ j.link[p] = NoId /\ OneLink(j, heap[g], p)
  BY <1>2, <1>8, UnlinkKeeps
<1>10. Logout(p) \in ToDb
  BY DEF ToDb
<1>11. /\ Good(k) /\ k.link = j.link
       /\ k.out = IF g \in up THEN Append(heap[g].out, Logout(p)) ELSE heap[g].out
  <2>1. CASE g \in up
    BY <1>3, <1>9, <1>10, <2>1, SayFields, SameShape DEF Good
  <2>2. CASE g \notin up
    BY <1>3, <1>9, <2>2
  <2>3. QED
    BY <2>1, <2>2
<1>12. HeapsGood'
  <2>1. heap' \in [Games -> Heaps]
    BY <1>4, <1>5, <1>11, GoodInHeaps
  <2>2. \A r \in Games : Good(heap'[r])
    BY <1>7, <1>11 DEF Inv, HeapsGood
  <2>3. ASSUME NEW r \in Games, NEW q \in Pids, heap'[r].link[q] # NoId
        PROVE  q \in ingame' /\ at'[q] = r
    <3>1. heap[r].link[q] # NoId /\ (r = g => q # p)
      BY <1>7, <1>9, <1>11, <2>3 DEF OneLink
    <3>2. q \in ingame /\ at[q] = r
      BY <3>1 DEF Inv, HeapsGood, Linked
    <3>3. q # p
      BY <1>1, <3>1, <3>2
    <3>4. QED
      BY <1>4, <1>6, <3>2, <3>3
  <2>4. QED
    BY <2>1, <2>2, <2>3 DEF HeapsGood, Linked
<1>13. Types'
  <2>1. at' \in [Pids -> Games \cup {NoOne}]
    BY <1>4, <1>5
  <2>2. ingame' \subseteq {q \in Pids : at'[q] # NoOne}
    BY <1>4, <1>6 DEF Inv, Types
  <2>3. QED
    BY <1>4, <2>1, <2>2 DEF Inv, Types
<1>14. outs'[g] = k.out /\ \A r \in Games : r # g => outs'[r] = outs[r]
  BY <1>4, <1>7 DEF outs
<1>15. outs[g] = heap[g].out
  BY <1>4 DEF outs
<1>16. OnePlace(p)'
  <2>1. p \notin free /\ Nowhere(p)
    BY <1>1, <1>4 DEF Inv, OnePlace
  <2>2. NoneIn(toGame', Enter(p)) /\ OneIn(toGame', Enter(p))
    BY <1>4, <2>1 DEF Inv, OnePlace, Nowhere
  <2>3. OneIn(outs', Logout(p)) /\ (g \notin up => NoneIn(outs', Logout(p)))
    <3>1. \A r \in Games : Absent(outs[r], Logout(p)) /\ Once(outs[r], Logout(p))
      BY <2>1 DEF Nowhere, NoneIn, Absent, Once
    <3>2. Once(k.out, Logout(p)) /\ (g \notin up => Absent(k.out, Logout(p)))
      BY <1>4, <1>8, <1>10, <1>11, <1>15, <3>1, AppendFacts
    <3>3. QED
      BY <1>14, <3>1, <3>2 DEF OneIn, NoneIn
  <2>4. QED
    BY <1>4, <1>6, <2>1, <2>2, <2>3 DEF OnePlace, Nowhere
<1>17. ASSUME NEW q \in Pids, q # p PROVE OnePlace(q)'
  <2>1. Logout(p) # Logout(q)
    BY <1>17 DEF Logout, Msg
  <2>2. Less(outs', outs, Logout(q))
    BY <1>8, <1>10, <1>11, <1>14, <1>15, <2>1, AppendFacts DEF Less
  <2>3. OnePlace(q) /\ toGame' = toGame /\ (q \in free' => q \in free)
    BY <1>4, <1>17 DEF Inv
  <2>4. QED
    BY <1>6, <1>17, <2>2, <2>3, SameLess, PlaceKept
<1>18. QED
  BY <1>12, <1>13, <1>16, <1>17 DEF Inv

LEMMA ConnectInv ==
  ASSUME Inv, NEW g \in Games, Connect(g)
  PROVE  Inv'
<1>1. PICK m : m = Msg("setup", NoOne, NoOne)
  OBVIOUS
<1>2. PICK k : k = Say(heap[g], m)
  OBVIOUS
<1>3. /\ heap' = [heap EXCEPT ![g] = k] /\ up' = up \cup {g}
      /\ UNCHANGED <<party, known, free, dbOdd, breaks, setup, toGame, at, ingame>>
  BY <1>1, <1>2 DEF Connect, dbVars, chars, Inv, HeapsGood
<1>4. m \in ToDb /\ \A p \in Pids : m # Logout(p)
  BY <1>1 DEF ToDb, Logout, Msg
<1>5. Good(heap[g]) /\ heap[g].out \in Seq(ToDb)
  BY DEF Inv, HeapsGood, Good, Typed
<1>6. Good(k) /\ k.link = heap[g].link /\ k.out = Append(heap[g].out, m)
  BY <1>2, <1>4, <1>5, SayFields, SameShape DEF Good
<1>7. Quieter(k, heap[g])
  BY <1>4, <1>5, <1>6, AppendFacts DEF Quieter
<1>8. HeapsGood'
  BY <1>3, <1>6, HeapChanges
<1>9. Types'
  BY <1>3 DEF Inv, Types
<1>10. ASSUME NEW p \in Pids PROVE OnePlace(p)'
  <2>1. Less(outs', outs, Logout(p))
    BY <1>3, <1>7, OutsLess DEF Inv, HeapsGood
  <2>2. OnePlace(p)
    BY DEF Inv
  <2>3. QED
    BY <1>3, <2>1, <2>2, SameLess, PlaceKept
<1>11. QED
  BY <1>8, <1>9, <1>10 DEF Inv

LEMMA ToGamesKinds ==
  ASSUME NEW m \in ToGames
  PROVE  /\ m.op # "enter" => m \in PartyMsgs
         /\ m.op = "enter" => m.pid \in Pids /\ m = Enter(m.pid)
<1>1. CASE m \in PartyMsgs
  BY <1>1 DEF PartyMsgs, PartyOps
<1>2. CASE m \in {Enter(p) : p \in Pids}
  BY <1>2 DEF Enter, Msg
<1>3. QED
  BY <1>1, <1>2 DEF ToGames

LEMMA ToDbKinds ==
  ASSUME NEW m \in ToDb
  PROVE  /\ m.op \in PartyOps => m \in PartyMsgs
         /\ m.op = "logout" => m.pid \in Pids /\ m = Logout(m.pid)
         /\ m.op # "logout" => \A p \in Pids : m # Logout(p)
<1>1. CASE m \in PartyMsgs
  BY <1>1, MsgKinds DEF PartyMsgs, PartyOps
<1>2. CASE m \in {Logout(p) : p \in Pids}
  BY <1>2 DEF Logout, Msg, PartyOps
<1>3. CASE m = Msg("setup", NoOne, NoOne)
  BY <1>3 DEF Logout, Msg, PartyOps
<1>4. QED
  BY <1>1, <1>2, <1>3 DEF ToDb

LEMMA ReceiveInv ==
  ASSUME Inv, NEW g \in Games, Receive(g)
  PROVE  Inv'
<1>1. PICK s : s = toGame[g]
  OBVIOUS
<1>2. PICK m : m = Head(s)
  OBVIOUS
<1>3. /\ s # << >> /\ s \in Seq(ToGames) /\ toGame' = [toGame EXCEPT ![g] = Tail(s)]
      /\ UNCHANGED <<party, known, free, dbOdd, breaks, setup, up, ingame>>
  BY <1>1 DEF Receive, dbVars, Inv, Types
<1>4. m \in ToGames
  BY <1>2, <1>3, TailFacts
<1>5. toGame' \in [Games -> Seq(ToGames)] /\ toGame'[g] = Tail(s)
      /\ \A r \in Games : r # g => toGame'[r] = toGame[r]
  BY <1>3, TailFacts DEF Inv, Types
<1>6. \A p \in Pids : Less(toGame', toGame, Enter(p))
  BY <1>1, <1>3, <1>5, TailFacts DEF Less
<1>7. CASE m.op = "enter"
  <2>1. PICK p \in Pids : p = m.pid /\ m = Enter(p)
    BY <1>4, <1>7, ToGamesKinds
  <2>2. at' = [at EXCEPT ![p] = g] /\ heap' = heap
    BY <1>1, <1>2, <1>7, <2>1 DEF Receive
  <2>3. at'[p] = g /\ \A q \in Pids : q # p => at'[q] = at[q]
    BY <2>2 DEF Inv, Types
  <2>4. ~Absent(toGame[g], Enter(p))
    BY <1>1, <1>2, <1>3, <2>1, TailFacts
  <2>5. at[p] = NoOne /\ p \notin free /\ NoneIn(outs, Logout(p))
    BY <2>4 DEF Inv, OnePlace, Nowhere, NoneIn
  <2>6. outs' = outs
    BY <2>2 DEF outs
  <2>7. NoneIn(toGame', Enter(p))
    <3>1. Absent(Tail(s), Enter(p))
      <4>1. Once(s, Enter(p))
        BY <1>1 DEF Inv, OnePlace, OneIn
      <4>2. QED
        BY <1>2, <1>3, <2>1, <4>1, TailFacts
    <3>2. \A r \in Games : r # g => Absent(toGame[r], Enter(p))
      BY <2>4 DEF Inv, OnePlace, OneIn
    <3>3. QED
      BY <1>5, <3>1, <3>2 DEF NoneIn
  <2>8. OneIn(toGame', Enter(p))
    BY <2>7 DEF NoneIn, OneIn, Absent, Once
  <2>9. OnePlace(p)'
    <3>1. OneIn(outs, Logout(p))
      BY DEF Inv, OnePlace
    <3>2. QED
      BY <1>3, <2>5, <2>6, <2>7, <2>8, <3>1 DEF OnePlace, Nowhere
  <2>10. ASSUME NEW q \in Pids, q # p PROVE OnePlace(q)'
    <3>1. OnePlace(q) /\ Less(outs', outs, Logout(q)) /\ at'[q] = at[q] /\ free' = free
      BY <1>3, <2>3, <2>6, <2>10, SameLess DEF Inv
    <3>2. QED
      BY <1>6, <3>1, PlaceKept
  <2>11. HeapsGood'
    <3>1. ASSUME NEW r \in Games, NEW q \in Pids, heap[r].link[q] # NoId
          PROVE  q \in ingame /\ at'[q] = r
      <4>1. q \in ingame /\ at[q] = r
        BY <3>1 DEF Inv, HeapsGood, Linked
      <4>2. q # p
        BY <2>5, <4>1 DEF Inv, Types
      <4>3. QED
        BY <2>3, <4>1, <4>2
    <3>2. QED
      BY <1>3, <2>2, <3>1 DEF Inv, HeapsGood, Linked
  <2>12. Types'
    <3>1. at' \in [Pids -> Games \cup {NoOne}]
      BY <2>2 DEF Inv, Types
    <3>2. ingame' \subseteq {q \in Pids : at'[q] # NoOne}
      BY <1>3, <2>3 DEF Inv, Types
    <3>3. QED
      BY <1>3, <1>5, <3>1, <3>2 DEF Inv, Types
  <2>13. QED
    BY <2>9, <2>10, <2>11, <2>12 DEF Inv
<1>8. CASE m.op # "enter"
  <2>1. PICK k : k = Handled(heap[g], m)
    OBVIOUS
  <2>2. Room(heap[g]) /\ heap' = [heap EXCEPT ![g] = k] /\ at' = at
    BY <1>1, <1>2, <1>8, <2>1 DEF Receive, Inv, HeapsGood
  <2>3. m \in PartyMsgs /\ Good(heap[g])
    BY <1>4, <1>8, ToGamesKinds DEF Inv, HeapsGood
  <2>4. Follows(k, heap[g])
    BY <2>1, <2>2, <2>3, HandledKeeps
  <2>5. HeapsGood'
    BY <1>3, <2>2, <2>4, HeapChanges DEF Follows, NoMoreLinks
  <2>6. Types'
    BY <1>3, <1>5, <2>2 DEF Inv, Types
  <2>7. ASSUME NEW p \in Pids PROVE OnePlace(p)'
    <3>1. Less(outs', outs, Logout(p))
      BY <2>2, <2>4, OutsLess DEF Inv, HeapsGood, Follows
    <3>2. OnePlace(p)
      BY DEF Inv
    <3>3. QED
      BY <1>3, <1>6, <2>2, <3>1, <3>2, PlaceKept
  <2>8. QED
    BY <2>5, <2>6, <2>7 DEF Inv
<1>9. QED
  BY <1>7, <1>8

LEMMA ReceiveSetupInv ==
  ASSUME Inv, NEW g \in Games, ReceiveSetup(g)
  PROVE  Inv'
<1>1. PICK m \in setup[g] :
        /\ Room(heap[g])
        /\ heap' = [heap EXCEPT ![g] = IF m.op = "add" THEN Leveled(Handled(heap[g], m), m.leader)
                                       ELSE Handled(heap[g], m)]
        /\ setup' = [setup EXCEPT ![g] = @ \ {m}]
        /\ UNCHANGED <<dbVars, toGame, up, chars>>
  BY DEF ReceiveSetup
<1>2. UNCHANGED <<party, known, free, dbOdd, breaks, toGame, up, at, ingame>>
  BY <1>1 DEF dbVars, chars
<1>3. m \in PartyMsgs /\ m.leader \in Pids /\ Good(heap[g])
  BY DEF Inv, Types, HeapsGood, PartyMsgs
<1>4. PICK h : h = Handled(heap[g], m)
  OBVIOUS
<1>5. Follows(h, heap[g]) /\ (m.op = "add" => Room(h))
  BY <1>1, <1>3, <1>4, HandledKeeps
<1>6. PICK k : k = IF m.op = "add" THEN Leveled(h, m.leader) ELSE h
  OBVIOUS
<1>7. Follows(k, heap[g])
  <2>1. CASE m.op = "add"
    <3>1. Follows(Leveled(h, m.leader), h)
      BY <1>3, <1>5, <2>1, LeveledKeeps DEF Follows
    <3>2. QED
      BY <1>5, <1>6, <2>1, <3>1, QuieterTrans DEF Follows, NoMoreLinks
  <2>2. CASE m.op # "add"
    BY <1>5, <1>6, <2>2
  <2>3. QED
    BY <2>1, <2>2
<1>8. heap' = [heap EXCEPT ![g] = k]
  BY <1>1, <1>4, <1>6
<1>9. HeapsGood'
  BY <1>2, <1>7, <1>8, HeapChanges DEF Follows, NoMoreLinks
<1>10. Types'
  <2>1. setup' \in [Games -> SUBSET PartyMsgs]
    BY <1>1 DEF Inv, Types
  <2>2. QED
    BY <1>2, <2>1 DEF Inv, Types
<1>11. ASSUME NEW p \in Pids PROVE OnePlace(p)'
  <2>1. Less(outs', outs, Logout(p))
    BY <1>7, <1>8, OutsLess DEF Inv, HeapsGood, Follows
  <2>2. OnePlace(p)
    BY DEF Inv
  <2>3. QED
    BY <1>2, <2>1, <2>2, SameLess, PlaceKept
<1>12. QED
  BY <1>9, <1>10, <1>11 DEF Inv

\* The db takes the first message of a game.
LEMMA TookFacts ==
  ASSUME Inv, NEW g \in Games, heap[g].out # << >>, Took(g)
  PROVE  LET s == heap[g].out IN
           /\ s \in Seq(ToDb) /\ Head(s) \in ToDb
           /\ outs[g] = s /\ outs'[g] = Tail(s)
           /\ \A r \in Games : r # g => outs'[r] = outs[r]
           /\ at' = at /\ ingame' = ingame => HeapsGood'
<1>1. PICK s : s = heap[g].out
  OBVIOUS
<1>2. PICK k : k = Heap(heap[g].obj, heap[g].map, heap[g].link, Tail(s), heap[g].odd)
  OBVIOUS
<1>3. heap' = [heap EXCEPT ![g] = k]
  BY <1>1, <1>2 DEF Took
<1>4. heap \in [Games -> Heaps] /\ Good(heap[g]) /\ s \in Seq(ToDb)
  BY <1>1 DEF Inv, HeapsGood, Good, Typed
<1>5. Tail(s) \in Seq(ToDb) /\ Head(s) \in ToDb
  BY <1>1, <1>4, TailFacts
<1>6. /\ k.obj = heap[g].obj /\ k.map = heap[g].map /\ k.link = heap[g].link
      /\ k.out = Tail(s) /\ k.odd = heap[g].odd
  BY <1>2 DEF Heap
<1>7. Typed(k)
  BY <1>2, <1>4, <1>5, <1>6 DEF Good, Typed
<1>8. Good(k) /\ NoMoreLinks(k, heap[g])
  BY <1>4, <1>6, <1>7, SameShape
<1>9. at' = at /\ ingame' = ingame => HeapsGood'
  BY <1>3, <1>8, HeapChanges DEF NoMoreLinks
<1>10. heap'[g] = k /\ \A r \in Games : r # g => heap'[r] = heap[r]
  BY <1>3, <1>4
<1>11. /\ outs[g] = s /\ outs'[g] = Tail(s)
       /\ \A r \in Games : r # g => outs'[r] = outs[r]
  BY <1>1, <1>6, <1>10 DEF outs
<1>12. QED
  BY <1>1, <1>4, <1>5, <1>9, <1>11

LEMMA TookLess ==
  ASSUME Inv, NEW g \in Games, heap[g].out # << >>, Took(g), NEW p \in Pids
  PROVE  Less(outs', outs, Logout(p))
<1>1. PICK s : s = heap[g].out
  OBVIOUS
<1>2. /\ s \in Seq(ToDb) /\ outs[g] = s /\ outs'[g] = Tail(s)
      /\ \A r \in Games : r # g => outs'[r] = outs[r]
  BY <1>1, TookFacts
<1>3. /\ Absent(s, Logout(p)) => Absent(Tail(s), Logout(p))
      /\ Once(s, Logout(p)) => Once(Tail(s), Logout(p))
  BY <1>1, <1>2, TailFacts
<1>4. QED
  BY <1>2, <1>3 DEF Less

LEMMA ForwardFacts ==
  ASSUME Inv, NEW m \in ToGames, NEW S, Forward(m, S)
  PROVE  /\ toGame' \in [Games -> Seq(ToGames)]
         /\ \A r \in Games : toGame'[r] = IF r \in S THEN Append(toGame[r], m) ELSE toGame[r]
         /\ \A p \in Pids : m # Enter(p) => Less(toGame', toGame, Enter(p))
<1>1. toGame \in [Games -> Seq(ToGames)]
  BY DEF Inv, Types
<1>2. \A r \in Games : toGame'[r] = IF r \in S THEN Append(toGame[r], m) ELSE toGame[r]
  BY DEF Forward
<1>3. \A r \in Games : Append(toGame[r], m) \in Seq(ToGames)
  BY <1>1, AppendFacts
<1>4. toGame' \in [Games -> Seq(ToGames)]
  BY <1>1, <1>3 DEF Forward
<1>5. ASSUME NEW p \in Pids, m # Enter(p) PROVE Less(toGame', toGame, Enter(p))
  BY <1>1, <1>2, <1>5, AppendFacts DEF Less
<1>6. QED
  BY <1>2, <1>4, <1>5

LEMMA DbPartyInv ==
  ASSUME Inv, NEW g \in Games, DbParty(g)
  PROVE  Inv'
<1>1. PICK m : m = Head(heap[g].out)
  OBVIOUS
<1>2. /\ heap[g].out # << >> /\ m.op \in PartyOps /\ Took(g)
      /\ UNCHANGED <<known, free, breaks, setup, up, at, ingame>>
  BY <1>1 DEF DbParty, Waiting, PartyOps, chars
<1>3. m \in PartyMsgs
  BY <1>1, <1>2, TookFacts, ToDbKinds
<1>4. m \in ToGames /\ (\A p \in Pids : m # Enter(p)) /\ m.leader \in Pids /\ m.pid \in Pids
  BY <1>3, MsgKinds DEF PartyMsgs
<1>5. /\ party' \in [Pids -> {NoParty} \cup SUBSET Pids] /\ dbOdd' \in BOOLEAN
      /\ toGame' = toGame \/ \E S : Forward(m, S)
  <2>1. party \in [Pids -> {NoParty} \cup SUBSET Pids] /\ dbOdd \in BOOLEAN
    BY DEF Inv, Types
  <2>2. ASSUME Refuse
        PROVE  /\ party' \in [Pids -> {NoParty} \cup SUBSET Pids] /\ dbOdd' \in BOOLEAN
               /\ toGame' = toGame
    BY <2>1, <2>2 DEF Refuse
  <2>3. CASE QUERY_PARTY_CREATE(g, m)
    BY <1>4, <2>1, <2>2, <2>3 DEF QUERY_PARTY_CREATE
  <2>4. CASE QUERY_PARTY_DELETE(g, m)
    BY <1>4, <2>1, <2>2, <2>4 DEF QUERY_PARTY_DELETE
  <2>5. CASE QUERY_PARTY_ADD(g, m)
    <3>1. CASE Refuse
      BY <2>2, <3>1
    <3>2. CASE ~Refuse
      <4>1. /\ party[m.leader] # NoParty /\ Forward(m, known \ {g}) /\ dbOdd' = dbOdd
            /\ party' = [party EXCEPT ![m.leader] = party[m.leader] \cup {m.pid}]
        BY <2>5, <3>2 DEF QUERY_PARTY_ADD
      <4>2. party[m.leader] \cup {m.pid} \in SUBSET Pids
        BY <1>4, <2>1, <4>1
      <4>3. QED
        BY <1>4, <2>1, <4>1, <4>2
    <3>3. QED
      BY <3>1, <3>2
  <2>6. CASE QUERY_PARTY_REMOVE(g, m)
    <3>1. CASE Refuse
      BY <2>2, <3>1
    <3>2. CASE ~Refuse
      <4>1. /\ party[m.leader] # NoParty /\ Forward(m, known \ {g}) /\ dbOdd' = dbOdd
            /\ party' = [party EXCEPT ![m.leader] = party[m.leader] \ {m.pid}]
        BY <2>6, <3>2 DEF QUERY_PARTY_REMOVE
      <4>2. party[m.leader] \ {m.pid} \in SUBSET Pids
        BY <1>4, <2>1, <4>1
      <4>3. QED
        BY <1>4, <2>1, <4>1, <4>2
    <3>3. QED
      BY <3>1, <3>2
  <2>7. CASE QUERY_PARTY_SET_MEMBER_LEVEL(g, m)
    BY <1>4, <2>1, <2>2, <2>7 DEF QUERY_PARTY_SET_MEMBER_LEVEL
  <2>8. QED
    BY <1>1, <2>3, <2>4, <2>5, <2>6, <2>7 DEF DbParty
<1>6. toGame' \in [Games -> Seq(ToGames)] /\ \A p \in Pids : Less(toGame', toGame, Enter(p))
  <2>1. CASE toGame' = toGame
    BY <2>1, SameLess DEF Inv, Types
  <2>2. CASE \E S : Forward(m, S)
    BY <1>4, <2>2, ForwardFacts
  <2>3. QED
    BY <1>5, <2>1, <2>2
<1>7. HeapsGood'
  BY <1>2, TookFacts
<1>8. Types'
  BY <1>2, <1>5, <1>6 DEF Inv, Types
<1>9. ASSUME NEW p \in Pids PROVE OnePlace(p)'
  <2>1. Less(outs', outs, Logout(p)) /\ OnePlace(p)
    BY <1>2, TookLess DEF Inv
  <2>2. QED
    BY <1>2, <1>6, <2>1, PlaceKept
<1>10. QED
  BY <1>7, <1>8, <1>9 DEF Inv

LEMMA DbSetupInv ==
  ASSUME Inv, NEW g \in Games, DbSetup(g)
  PROVE  Inv'
<1>1. /\ g \in up /\ heap[g].out # << >> /\ Took(g) /\ known' = known \cup {g}
      /\ UNCHANGED <<party, free, dbOdd, breaks, toGame, up, at, ingame>>
  BY DEF DbSetup, Waiting, chars
<1>2. PICK ls : ls = {l \in Pids : party[l] # NoParty}
  OBVIOUS
<1>3. PICK S : S = {Msg("create", l, l) : l \in ls} \cup UNION {{Msg("add", l, p) : p \in party[l]} : l \in ls}
  OBVIOUS
<1>4. setup' = [setup EXCEPT ![g] = S]
  BY <1>2, <1>3 DEF DbSetup
<1>5. S \subseteq PartyMsgs
  <2>1. \A l \in ls : l \in Pids /\ party[l] \subseteq Pids
    BY <1>2 DEF Inv, Types
  <2>2. \A l \in ls : Msg("create", l, l) \in PartyMsgs
    BY <2>1, MsgKinds DEF PartyOps
  <2>3. \A l \in ls : \A p \in party[l] : Msg("add", l, p) \in PartyMsgs
    BY <2>1, MsgKinds DEF PartyOps
  <2>4. QED
    BY <1>3, <2>2, <2>3
<1>6. HeapsGood'
  BY <1>1, TookFacts
<1>7. Types'
  <2>1. setup' \in [Games -> SUBSET PartyMsgs]
    BY <1>4, <1>5 DEF Inv, Types
  <2>2. QED
    BY <1>1, <2>1 DEF Inv, Types
<1>8. ASSUME NEW p \in Pids PROVE OnePlace(p)'
  <2>1. Less(outs', outs, Logout(p)) /\ OnePlace(p)
    BY <1>1, TookLess DEF Inv
  <2>2. QED
    BY <1>1, <2>1, SameLess, PlaceKept
<1>9. QED
  BY <1>6, <1>7, <1>8 DEF Inv

LEMMA DbLogoutInv ==
  ASSUME Inv, NEW g \in Games, DbLogout(g)
  PROVE  Inv'
<1>1. PICK s : s = heap[g].out
  OBVIOUS
<1>2. /\ s # << >> /\ Head(s).op = "logout" /\ Took(g)
      /\ free' = free \cup {Head(s).pid}
      /\ UNCHANGED <<party, known, dbOdd, breaks, setup, toGame, up, at, ingame>>
  BY <1>1 DEF DbLogout, Waiting, chars
<1>3. /\ s \in Seq(ToDb) /\ Head(s) \in ToDb /\ outs[g] = s /\ outs'[g] = Tail(s)
      /\ \A r \in Games : r # g => outs'[r] = outs[r]
      /\ HeapsGood'
  BY <1>1, <1>2, TookFacts
<1>4. PICK p \in Pids : Head(s) = Logout(p) /\ Head(s).pid = p
  BY <1>2, <1>3, ToDbKinds
<1>5. Types'
  BY <1>2, <1>4 DEF Inv, Types
<1>6. OnePlace(p)'
  <2>1. ~Absent(outs[g], Logout(p))
    BY <1>2, <1>3, <1>4, TailFacts
  <2>2. at[p] = NoOne /\ NoneIn(toGame, Enter(p))
    BY <2>1 DEF Inv, OnePlace, Nowhere, NoneIn
  <2>3. NoneIn(outs', Logout(p))
    <3>1. Absent(Tail(s), Logout(p))
      <4>1. Once(s, Logout(p))
        BY <1>3 DEF Inv, OnePlace, OneIn
      <4>2. QED
        BY <1>2, <1>3, <1>4, <4>1, TailFacts
    <3>2. \A r \in Games : r # g => Absent(outs[r], Logout(p))
      BY <2>1 DEF Inv, OnePlace, OneIn
    <3>3. QED
      BY <1>3, <3>1, <3>2 DEF NoneIn
  <2>4. Nowhere(p)'
    BY <1>2, <2>2, <2>3 DEF Nowhere
  <2>5. OnePlace(p) /\ Less(outs', outs, Logout(p))
    BY <1>1, <1>2, TookLess DEF Inv
  <2>6. QED
    BY <1>2, <2>2, <2>4, <2>5, SameLess, PlaceKept
<1>7. ASSUME NEW q \in Pids, q # p PROVE OnePlace(q)'
  <2>1. OnePlace(q) /\ Less(outs', outs, Logout(q))
    BY <1>1, <1>2, TookLess DEF Inv
  <2>2. QED
    BY <1>2, <1>4, <1>7, <2>1, SameLess, PlaceKept
<1>8. QED
  BY <1>3, <1>5, <1>6, <1>7 DEF Inv

LEMMA LoginInv ==
  ASSUME Inv, NEW p \in Pids, NEW g \in Games, Login(p, g)
  PROVE  Inv'
<1>1. /\ p \in free /\ free' = free \ {p} /\ Forward(Enter(p), {g})
      /\ UNCHANGED <<party, known, dbOdd, breaks, heap, setup, up, at, ingame>>
  BY DEF Login, chars, Enter
<1>2. Enter(p) \in ToGames
  BY DEF ToGames
<1>3. /\ toGame' \in [Games -> Seq(ToGames)]
      /\ \A r \in Games : toGame'[r] = IF r \in {g} THEN Append(toGame[r], Enter(p)) ELSE toGame[r]
      /\ \A q \in Pids : Enter(p) # Enter(q) => Less(toGame', toGame, Enter(q))
  BY <1>1, <1>2, ForwardFacts
<1>4. Types'
  BY <1>1, <1>3 DEF Inv, Types
<1>5. HeapsGood'
  BY <1>1 DEF Inv, HeapsGood, Linked
<1>6. outs' = outs
  BY <1>1 DEF outs
<1>7. OnePlace(p)'
  <2>1. Nowhere(p) /\ at[p] = NoOne /\ OneIn(outs, Logout(p))
    BY <1>1 DEF Inv, OnePlace
  <2>2. \A r \in Games : Absent(toGame[r], Enter(p)) /\ Once(toGame[r], Enter(p))
    BY <2>1 DEF Nowhere, NoneIn, Absent, Once
  <2>3. toGame[g] \in Seq(ToGames)
    BY DEF Inv, Types
  <2>4. Once(Append(toGame[g], Enter(p)), Enter(p))
    BY <1>2, <2>2, <2>3, AppendFacts
  <2>5. OneIn(toGame', Enter(p))
    BY <1>3, <2>2, <2>4 DEF OneIn
  <2>6. QED
    BY <1>1, <1>6, <2>1, <2>5 DEF OnePlace, Nowhere
<1>8. ASSUME NEW q \in Pids, q # p PROVE OnePlace(q)'
  <2>1. Enter(p) # Enter(q)
    BY <1>8 DEF Enter, Msg
  <2>2. OnePlace(q) /\ Less(toGame', toGame, Enter(q)) /\ Less(outs', outs, Logout(q))
    BY <1>3, <1>6, <2>1, SameLess DEF Inv
  <2>3. QED
    BY <1>1, <1>8, <2>2, PlaceKept
<1>9. QED
  BY <1>4, <1>5, <1>7, <1>8 DEF Inv

\* Connections of the games S break: what was on its way is lost, and the players
\* that it concerned are free, as are the players Out, whose game has ended.
Broken(S, Out) ==
  /\ Cut(S)
  /\ heap' \in [Games -> Heaps]
  /\ \A g \in Games : Good(heap'[g]) /\ NoMoreLinks(heap'[g], heap[g])
  /\ \A g \in Games : heap'[g].out = IF g \in S THEN << >> ELSE heap[g].out
  /\ party' \in [Pids -> {NoParty} \cup SUBSET Pids] /\ dbOdd' = dbOdd
  /\ \A p \in Out : at[p] \in S
  /\ \A p \in Out : heap'[at[p]].link[p] = NoId
  /\ at' = [p \in Pids |-> IF p \in Out THEN NoOne ELSE at[p]]
  /\ ingame' = ingame \ Out
  /\ free' = free \cup Stranded(S) \cup Out

LEMMA CutInv ==
  ASSUME Inv, NEW S \in SUBSET Games, NEW Out \in SUBSET Pids, Broken(S, Out)
  PROVE  Inv'
<1>1. /\ up' = up \ S /\ known' = known \ S /\ breaks' = breaks + 1
      /\ toGame' = [g \in Games |-> IF g \in S THEN << >> ELSE toGame[g]]
      /\ setup' = [g \in Games |-> IF g \in S THEN {} ELSE setup[g]]
  BY DEF Broken, Cut
<1>2. \A p \in Pids : at'[p] = IF p \in Out THEN NoOne ELSE at[p]
  BY DEF Broken
<1>3. /\ \A g \in Games : toGame'[g] = IF g \in S THEN << >> ELSE toGame[g]
      /\ \A g \in Games : outs'[g] = IF g \in S THEN << >> ELSE outs[g]
  BY <1>1 DEF outs, Broken
<1>4. Types'
  <2>1. toGame' \in [Games -> Seq(ToGames)]
    <3>1. << >> \in Seq(ToGames) /\ toGame \in [Games -> Seq(ToGames)]
      BY DEF Inv, Types
    <3>2. QED
      BY <1>1, <3>1
  <2>2. setup' \in [Games -> SUBSET PartyMsgs]
    BY <1>1 DEF Inv, Types
  <2>3. at' \in [Pids -> Games \cup {NoOne}]
    BY DEF Inv, Types, Broken
  <2>4. ingame' \subseteq {p \in Pids : at'[p] # NoOne}
    BY <1>2 DEF Inv, Types, Broken
  <2>5. free' \subseteq Pids
    BY DEF Inv, Types, Stranded, Broken
  <2>6. up' \subseteq Games /\ known' \subseteq up' /\ breaks' \in Nat /\ dbOdd' \in BOOLEAN
    BY <1>1 DEF Inv, Types, Broken
  <2>7. QED
    BY <2>1, <2>2, <2>3, <2>4, <2>5, <2>6 DEF Types, Broken
<1>5. HeapsGood'
  <2>1. ASSUME NEW g \in Games, NEW p \in Pids, heap'[g].link[p] # NoId
        PROVE  p \in ingame' /\ at'[p] = g
    <3>1. heap[g].link[p] # NoId
      BY <2>1 DEF NoMoreLinks, Broken
    <3>2. p \in ingame /\ at[p] = g
      BY <3>1 DEF Inv, HeapsGood, Linked
    <3>3. p \notin Out
      BY <2>1, <3>2 DEF Broken
    <3>4. QED
      BY <1>2, <3>2, <3>3 DEF Broken
  <2>2. QED
    BY <2>1 DEF HeapsGood, Linked, Broken
<1>6. ASSUME NEW p \in Pids PROVE OnePlace(p)'
  <2>1. Less(toGame', toGame, Enter(p)) /\ Less(outs', outs, Logout(p))
    BY <1>3, EmptyFacts DEF Less
  <2>2. OnePlace(p)
    BY DEF Inv
  <2>3. Nowhere(p) => Nowhere(p)'
    BY <2>1, LessFacts DEF Nowhere
  <2>4. ASSUME p \in Stranded(S) PROVE at[p] = NoOne /\ Nowhere(p)'
    <3>1. PICK g \in S : \/ ~Absent(toGame[g], Enter(p))
                         \/ ~Absent(outs[g], Logout(p))
      BY <2>4 DEF Stranded, Absent, Enter, Logout, outs
    <3>2. g \in Games /\ at[p] = NoOne
      BY <2>2, <3>1 DEF OnePlace, Nowhere, NoneIn
    <3>3. CASE ~Absent(toGame[g], Enter(p))
      <4>1. \A r \in Games : r # g => Absent(toGame[r], Enter(p))
        BY <2>2, <3>2, <3>3 DEF OnePlace, OneIn
      <4>2. NoneIn(outs, Logout(p))
        BY <2>2, <3>2, <3>3 DEF OnePlace, NoneIn
      <4>3. NoneIn(toGame', Enter(p))
        BY <1>3, <3>1, <4>1, EmptyFacts DEF NoneIn
      <4>4. NoneIn(outs', Logout(p))
        BY <2>1, <4>2, LessFacts
      <4>5. QED
        BY <3>2, <4>3, <4>4 DEF Nowhere
    <3>4. CASE ~Absent(outs[g], Logout(p))
      <4>1. \A r \in Games : r # g => Absent(outs[r], Logout(p))
        BY <2>2, <3>2, <3>4 DEF OnePlace, OneIn
      <4>2. NoneIn(toGame, Enter(p))
        BY <2>2, <3>2, <3>4 DEF OnePlace, NoneIn
      <4>3. NoneIn(outs', Logout(p))
        BY <1>3, <3>1, <4>1, EmptyFacts DEF NoneIn
      <4>4. NoneIn(toGame', Enter(p))
        BY <2>1, <4>2, LessFacts
      <4>5. QED
        BY <3>2, <4>3, <4>4 DEF Nowhere
    <3>5. QED
      BY <3>1, <3>3, <3>4
  <2>5. ASSUME p \in Out PROVE at'[p] = NoOne /\ Nowhere(p)'
    <3>1. at[p] # NoOne
      BY <2>5 DEF Inv, Types, Broken
    <3>2. QED
      BY <1>2, <2>2, <2>3, <2>5, <3>1 DEF OnePlace
  <2>6. p \in free' => p \in free \/ (at'[p] = NoOne /\ Nowhere(p)')
    BY <1>2, <2>4, <2>5 DEF Broken
  <2>7. at'[p] = at[p] \/ at'[p] = NoOne
    BY <1>2
  <2>8. QED
    BY <2>1, <2>2, <2>6, <2>7, PlaceKept
<1>7. QED
  BY <1>4, <1>5, <1>6 DEF Inv

LEMMA DropInv ==
  ASSUME Inv, NEW g \in Games, Drop(g)
  PROVE  Inv'
<1>1. PICK k : k = Ended(heap[g])
  OBVIOUS
<1>2. /\ Cut({g}) /\ heap' = [heap EXCEPT ![g] = k]
      /\ free' = free \cup Stranded({g})
      /\ UNCHANGED <<party, dbOdd, at, ingame>>
  BY <1>1 DEF Drop, chars, Inv, HeapsGood
<1>3. heap \in [Games -> Heaps] /\ \A r \in Games : Good(heap[r])
  BY DEF Inv, HeapsGood
<1>4. Good(k) /\ NoMoreLinks(k, heap[g]) /\ k.out = << >>
  BY <1>1, <1>3, EndedKeeps
<1>5. heap'[g] = k /\ \A r \in Games : r # g => heap'[r] = heap[r]
  BY <1>2, <1>3
<1>6. heap' \in [Games -> Heaps]
  BY <1>2, <1>3, <1>4, GoodInHeaps
<1>7. \A r \in Games : Good(heap'[r]) /\ NoMoreLinks(heap'[r], heap[r])
  BY <1>3, <1>4, <1>5 DEF NoMoreLinks
<1>8. \A r \in Games : heap'[r].out = IF r \in {g} THEN << >> ELSE heap[r].out
  BY <1>4, <1>5
<1>9. at' = [p \in Pids |-> IF p \in {} THEN NoOne ELSE at[p]]
  BY <1>2 DEF Inv, Types
<1>10. party' \in [Pids -> {NoParty} \cup SUBSET Pids] /\ dbOdd' = dbOdd
  BY <1>2 DEF Inv, Types
<1>11. ingame' = ingame \ {} /\ free' = free \cup Stranded({g}) \cup {}
  BY <1>2
<1>12. Broken({g}, {})
  BY <1>2, <1>6, <1>7, <1>8, <1>9, <1>10, <1>11 DEF Broken
<1>13. QED
  BY <1>12, CutInv

LEMMA CrashInv ==
  ASSUME Inv, NEW g \in Games, Crash(g)
  PROVE  Inv'
<1>1. PICK k : k = Heap(NoObjects, Nobody, Nobody, << >>, heap[g].odd)
  OBVIOUS
<1>2. PICK Out : Out = {p \in Pids : at[p] = g}
  OBVIOUS
<1>3. /\ Cut({g}) /\ heap' = [heap EXCEPT ![g] = k]
      /\ free' = free \cup Stranded({g}) \cup Out
      /\ at' = [p \in Pids |-> IF at[p] = g THEN NoOne ELSE at[p]]
      /\ ingame' = {p \in ingame : at[p] # g}
      /\ UNCHANGED <<party, dbOdd>>
  BY <1>1, <1>2 DEF Crash, Inv, HeapsGood
<1>4. heap \in [Games -> Heaps] /\ \A r \in Games : Good(heap[r])
  BY DEF Inv, HeapsGood
<1>5. heap[g].odd \in BOOLEAN
  BY <1>4 DEF Good, Typed
<1>6. Good(k) /\ k.out = << >> /\ \A p \in Pids : k.link[p] = NoId
  BY <1>1, <1>5, EmptyGood
<1>7. heap'[g] = k /\ \A r \in Games : r # g => heap'[r] = heap[r]
  BY <1>3, <1>4
<1>8. heap' \in [Games -> Heaps]
  BY <1>3, <1>4, <1>6, GoodInHeaps
<1>9. \A r \in Games : Good(heap'[r]) /\ NoMoreLinks(heap'[r], heap[r])
  BY <1>4, <1>6, <1>7 DEF NoMoreLinks
<1>10. \A r \in Games : heap'[r].out = IF r \in {g} THEN << >> ELSE heap[r].out
  BY <1>6, <1>7
<1>11. at' = [p \in Pids |-> IF p \in Out THEN NoOne ELSE at[p]]
  BY <1>2, <1>3
<1>12. party' \in [Pids -> {NoParty} \cup SUBSET Pids] /\ dbOdd' = dbOdd
  BY <1>3 DEF Inv, Types
<1>13. ingame' = ingame \ Out
  BY <1>2, <1>3 DEF Inv, Types
<1>14. Out \in SUBSET Pids /\ \A p \in Out : at[p] \in {g}
  BY <1>2
<1>15. \A p \in Out : heap'[at[p]].link[p] = NoId
  BY <1>2, <1>6, <1>7
<1>16. Broken({g}, Out)
  BY <1>3, <1>8, <1>9, <1>10, <1>11, <1>12, <1>13, <1>14, <1>15 DEF Broken
<1>17. QED
  BY <1>14, <1>16, CutInv

LEMMA DbRestartInv ==
  ASSUME Inv, DbRestart
  PROVE  Inv'
<1>1. /\ Cut(Games) /\ heap' = [g \in Games |-> Ended(heap[g])]
      /\ free' = free \cup Stranded(Games) /\ party' = [l \in Pids |-> NoParty]
      /\ UNCHANGED <<dbOdd, at, ingame>>
  BY DEF DbRestart, chars
<1>2. \A g \in Games : Good(heap[g])
  BY DEF Inv, HeapsGood
<1>3. \A g \in Games : heap'[g] = Ended(heap[g])
  BY <1>1
<1>4. \A g \in Games : Good(heap'[g]) /\ NoMoreLinks(heap'[g], heap[g]) /\ heap'[g].out = << >>
  BY <1>2, <1>3, EndedKeeps
<1>5. heap' \in [Games -> Heaps]
  BY <1>1, <1>3, <1>4, GoodInHeaps
<1>6. \A g \in Games : heap'[g].out = IF g \in Games THEN << >> ELSE heap[g].out
  BY <1>4
<1>7. at' = [p \in Pids |-> IF p \in {} THEN NoOne ELSE at[p]]
  BY <1>1 DEF Inv, Types
<1>8. party' \in [Pids -> {NoParty} \cup SUBSET Pids] /\ dbOdd' = dbOdd
  BY <1>1
<1>9. ingame' = ingame \ {} /\ free' = free \cup Stranded(Games) \cup {}
  BY <1>1
<1>10. Broken(Games, {})
  BY <1>1, <1>4, <1>5, <1>6, <1>7, <1>8, <1>9 DEF Broken
<1>11. QED
  BY <1>10, CutInv

LEMMA StutterInv == Inv /\ UNCHANGED vars => Inv'
<1>1. SUFFICES ASSUME Inv, UNCHANGED vars PROVE Inv'
  OBVIOUS
<1>2. /\ UNCHANGED <<party, known, free, dbOdd, breaks, setup, toGame, up, at, ingame>>
      /\ heap' = heap
  BY <1>1 DEF vars
<1>3. outs' = outs
  BY <1>2 DEF outs
<1>4. Types' /\ HeapsGood'
  BY <1>1, <1>2 DEF Inv, Types, HeapsGood, Linked
<1>5. \A p \in Pids : OnePlace(p)'
  BY <1>1, <1>2, <1>3 DEF Inv, OnePlace, Nowhere
<1>6. QED
  BY <1>4, <1>5 DEF Inv

LEMMA NextInv == Inv /\ [Next]_vars => Inv'
<1>1. SUFFICES ASSUME Inv, [Next]_vars PROVE Inv'
  OBVIOUS
<1>2. CASE \E p \in ingame : Play(p)
  <2>1. PICK p \in Pids : Play(p)
    BY <1>1, <1>2 DEF Inv, Types
  <2>2. CASE \E q \in Pids : InviteToNew(p, q)
    BY <1>1, <2>2, InviteToNewInv
  <2>3. CASE \E id \in Ids, q \in Pids : Invite(p, q, id)
    BY <1>1, <2>3, InviteInv
  <2>4. CASE \E id \in Ids, q \in Pids : Expel(p, q, id) \/ Leave(p, id) \/ LevelUp(p, id)
    BY <1>1, <2>4, ActInv
  <2>5. QED
    BY <2>1, <2>2, <2>3, <2>4 DEF Play
<1>3. CASE \E p \in Pids : EnterGame(p) \/ Disconnect(p)
  BY <1>1, <1>3, EnterGameInv, DisconnectInv
<1>4. CASE \E p \in Pids, g \in Games : Login(p, g)
  BY <1>1, <1>4, LoginInv
<1>5. CASE \E g \in Games : Connect(g) \/ Receive(g) \/ ReceiveSetup(g)
  BY <1>1, <1>5, ConnectInv, ReceiveInv, ReceiveSetupInv
<1>6. CASE \E g \in Games : DbParty(g) \/ DbSetup(g) \/ DbLogout(g)
  BY <1>1, <1>6, DbPartyInv, DbSetupInv, DbLogoutInv
<1>7. CASE \E g \in Games : Drop(g) \/ Crash(g)
  BY <1>1, <1>7, DropInv, CrashInv
<1>8. CASE DbRestart
  BY <1>1, <1>8, DbRestartInv
<1>9. CASE UNCHANGED vars
  BY <1>1, <1>9, StutterInv
<1>10. QED
  BY <1>1, <1>2, <1>3, <1>4, <1>5, <1>6, <1>7, <1>8, <1>9 DEF Next, ComeAndGo

LEMMA InvHolds == Spec => []Inv
<1>1. QED
  BY InitInv, NextInv, PTL DEF Spec

\* The types of the parties, their messages and the players' places (CParty,
\* CPartyManager, m_map_pkChannelParty).
THEOREM TypeCorrect == Spec => []TypeOK
<1>1. QED
  BY InvHolds, InvTypes, PTL

\* No pointer between characters, parties and m_map_pkParty dangles, however
\* players' actions, messages, logouts and faults interleave (CParty::Destroy,
\* Unlink, SetPartyMember, CHARACTER::Disconnect).
THEOREM PointersStayAlive == Spec => []PointersAlive
<1>1. QED
  BY InvHolds, InvTypes, PTL
-----------------------------------------------------------------------------
(* Copies.  <<l, p>> stands for: p is in the party of l.  A message gives such *)
(* a couple to a copy or takes it; Before and Ends say whether a copy that had *)
(* the couples B has x before, or after, the messages of a queue.              *)

Couples == Pids \X Pids

Joins(m) == m.op \in {"create", "add"}
Of(m, l) == m.op \in {"create", "add", "remove", "delete"} /\ m.leader = l

Gives(m, x) == Joins(m) /\ x = <<m.leader, m.pid>>
Takes(m, x) == \/ m.op = "remove" /\ x = <<m.leader, m.pid>>
               \/ m.op = "delete" /\ m.leader = x[1]

Step(B, m) == {x \in Couples : Gives(m, x) \/ (x \in B /\ ~Takes(m, x))}

Before(s, i, x, B) ==
  \/ \E k \in 1 .. i - 1 : Gives(s[k], x) /\ \A j \in k + 1 .. i - 1 : ~Takes(s[j], x)
  \/ x \in B /\ \A j \in 1 .. i - 1 : ~Takes(s[j], x)
Ends(s, x, B) == Before(s, Len(s) + 1, x, B)

LEMMA Appended ==
  ASSUME NEW T, NEW s \in Seq(T), NEW m \in T
  PROVE  /\ Append(s, m) \in Seq(T) /\ Len(s) \in Nat
         /\ DOMAIN s = 1 .. Len(s) /\ DOMAIN Append(s, m) = 1 .. Len(s) + 1
         /\ Len(Append(s, m)) = Len(s) + 1
         /\ \A i \in 1 .. Len(s) : Append(s, m)[i] = s[i]
         /\ Append(s, m)[Len(s) + 1] = m
  OBVIOUS

LEMMA Tailed ==
  ASSUME NEW T, NEW s \in Seq(T), s # << >>
  PROVE  /\ Tail(s) \in Seq(T) /\ Len(s) \in Nat \ {0} /\ Head(s) = s[1] /\ Head(s) \in T
         /\ DOMAIN s = 1 .. Len(s) /\ DOMAIN Tail(s) = 1 .. Len(s) - 1
         /\ Len(Tail(s)) = Len(s) - 1
         /\ \A i \in 1 .. Len(s) - 1 : Tail(s)[i] = s[i + 1]
<1>1. Len(s) \in Nat \ {0} /\ DOMAIN s = 1 .. Len(s)
  BY EmptySeq
<1>2. QED
  BY <1>1, HeadTailProperties

LEMMA GivesOrTakes ==
  ASSUME NEW m, NEW x
  PROVE  /\ Gives(m, x) => ~Takes(m, x)
         /\ m.op \notin {"create", "add", "remove", "delete"} => ~Gives(m, x) /\ ~Takes(m, x)
  BY DEF Gives, Takes, Joins

\* Messages that are appended.
LEMMA BeforeAppend ==
  ASSUME NEW T, NEW s \in Seq(T), NEW m \in T, NEW x, NEW B
  PROVE  /\ \A i \in 1 .. Len(s) + 1 : Before(Append(s, m), i, x, B) <=> Before(s, i, x, B)
         /\ Ends(Append(s, m), x, B) <=> Gives(m, x) \/ (Ends(s, x, B) /\ ~Takes(m, x))
<1>1. PICK t : t = Append(s, m)
  OBVIOUS
<1>2. /\ Len(s) \in Nat /\ Len(t) = Len(s) + 1 /\ t[Len(s) + 1] = m
      /\ \A i \in 1 .. Len(s) : t[i] = s[i]
  BY <1>1, Appended
<1>3. ASSUME NEW i \in 1 .. Len(s) + 1
      PROVE  Before(t, i, x, B) <=> Before(s, i, x, B)
  BY <1>2 DEF Before
<1>4. Ends(t, x, B) <=> Gives(m, x) \/ (Ends(s, x, B) /\ ~Takes(m, x))
  <2>1. PICK n \in Nat : n = Len(s)
    BY <1>2
  <2>2. ASSUME Ends(t, x, B), ~Gives(m, x) PROVE Ends(s, x, B) /\ ~Takes(m, x)
    <3>1. Before(t, n + 2, x, B)
      BY <1>2, <2>1, <2>2 DEF Ends
    <3>2. CASE x \in B /\ \A j \in 1 .. n + 2 - 1 : ~Takes(t[j], x)
      BY <1>2, <2>1, <3>2 DEF Ends, Before
    <3>3. CASE \E k \in 1 .. n + 2 - 1 : Gives(t[k], x) /\ \A j \in k + 1 .. n + 2 - 1 : ~Takes(t[j], x)
      <4>1. PICK k \in 1 .. n + 1 : Gives(t[k], x) /\ \A j \in k + 1 .. n + 1 : ~Takes(t[j], x)
        BY <3>3
      <4>2. k \in 1 .. n
        BY <1>2, <2>1, <2>2, <4>1
      <4>3. ~Takes(m, x)
        BY <1>2, <2>1, <4>1, <4>2
      <4>4. Gives(s[k], x) /\ \A j \in k + 1 .. n : ~Takes(s[j], x)
        BY <1>2, <2>1, <4>1, <4>2
      <4>5. QED
        BY <2>1, <4>2, <4>3, <4>4 DEF Ends, Before
    <3>4. QED
      BY <3>1, <3>2, <3>3 DEF Before
  <2>3. ASSUME Gives(m, x) PROVE Ends(t, x, B)
    BY <1>2, <2>1, <2>3 DEF Ends, Before
  <2>4. ASSUME Ends(s, x, B), ~Takes(m, x) PROVE Ends(t, x, B)
    <3>1. \A j \in 1 .. n + 1 : j \in 1 .. n \/ j = n + 1
      BY <2>1
    <3>2. CASE x \in B /\ \A j \in 1 .. n + 1 - 1 : ~Takes(s[j], x)
      BY <1>2, <2>1, <2>4, <3>1, <3>2 DEF Ends, Before
    <3>3. CASE \E k \in 1 .. n + 1 - 1 : Gives(s[k], x) /\ \A j \in k + 1 .. n + 1 - 1 : ~Takes(s[j], x)
      <4>1. PICK k \in 1 .. n : Gives(s[k], x) /\ \A j \in k + 1 .. n : ~Takes(s[j], x)
        BY <3>3
      <4>2. Gives(t[k], x) /\ \A j \in k + 1 .. n + 1 : ~Takes(t[j], x)
        BY <1>2, <2>1, <2>4, <4>1
      <4>3. QED
        BY <1>2, <2>1, <4>2 DEF Ends, Before
    <3>4. QED
      BY <2>1, <2>4, <3>2, <3>3 DEF Ends, Before
  <2>5. QED
    BY <2>2, <2>3, <2>4
<1>5. QED
  BY <1>1, <1>3, <1>4

\* The first message goes from the queue into the copy.
LEMMA BeforeTail ==
  ASSUME NEW T, NEW s \in Seq(T), s # << >>, NEW x, NEW B, NEW C,
         x \in C <=> Gives(Head(s), x) \/ (x \in B /\ ~Takes(Head(s), x))
  PROVE  /\ \A i \in 1 .. Len(s) : Before(Tail(s), i, x, C) <=> Before(s, i + 1, x, B)
         /\ Ends(Tail(s), x, C) <=> Ends(s, x, B)
<1>1. PICK t : t = Tail(s)
  OBVIOUS
<1>2. /\ Len(s) \in Nat \ {0} /\ Len(t) = Len(s) - 1 /\ Head(s) = s[1]
      /\ \A i \in 1 .. Len(s) - 1 : t[i] = s[i + 1]
  BY <1>1, Tailed
<1>3. ASSUME NEW i \in 1 .. Len(s) PROVE Before(t, i, x, C) <=> Before(s, i + 1, x, B)
  <2>1. \A j \in 1 .. i - 1 : t[j] = s[j + 1] /\ j + 1 \in 2 .. i
    BY <1>2
  <2>2. \A j \in 2 .. i : s[j] = t[j - 1] /\ j - 1 \in 1 .. i - 1
    BY <1>2
  <2>3. (\A j \in 1 .. i - 1 : ~Takes(t[j], x)) <=> (\A j \in 2 .. i : ~Takes(s[j], x))
    BY <2>1, <2>2
  <2>4. (\A j \in 1 .. i : ~Takes(s[j], x)) <=> ~Takes(Head(s), x) /\ \A j \in 2 .. i : ~Takes(s[j], x)
    BY <1>2
  <2>5. (\E k \in 1 .. i - 1 : Gives(t[k], x) /\ \A j \in k + 1 .. i - 1 : ~Takes(t[j], x))
        <=> (\E k \in 2 .. i : Gives(s[k], x) /\ \A j \in k + 1 .. i : ~Takes(s[j], x))
    <3>1. ASSUME NEW k \in 1 .. i - 1, Gives(t[k], x), \A j \in k + 1 .. i - 1 : ~Takes(t[j], x)
          PROVE  k + 1 \in 2 .. i /\ Gives(s[k + 1], x) /\ \A j \in k + 1 + 1 .. i : ~Takes(s[j], x)
      <4>1. ASSUME NEW j \in k + 1 + 1 .. i PROVE ~Takes(s[j], x)
        <5>1. j \in 2 .. i /\ j - 1 \in k + 1 .. i - 1
          OBVIOUS
        <5>2. QED
          BY <2>2, <3>1, <5>1
      <4>2. QED
        BY <2>1, <3>1, <4>1
    <3>2. ASSUME NEW k \in 2 .. i, Gives(s[k], x), \A j \in k + 1 .. i : ~Takes(s[j], x)
          PROVE  k - 1 \in 1 .. i - 1 /\ Gives(t[k - 1], x) /\ \A j \in k - 1 + 1 .. i - 1 : ~Takes(t[j], x)
      <4>1. ASSUME NEW j \in k - 1 + 1 .. i - 1 PROVE ~Takes(t[j], x)
        <5>1. j \in 1 .. i - 1 /\ j + 1 \in k + 1 .. i
          OBVIOUS
        <5>2. QED
          BY <2>1, <3>2, <5>1
      <4>2. QED
        BY <2>2, <3>2, <4>1
    <3>3. QED
      BY <3>1, <3>2
  <2>6. (\E k \in 1 .. i : Gives(s[k], x) /\ \A j \in k + 1 .. i : ~Takes(s[j], x))
        <=> \/ Gives(Head(s), x) /\ \A j \in 2 .. i : ~Takes(s[j], x)
            \/ \E k \in 2 .. i : Gives(s[k], x) /\ \A j \in k + 1 .. i : ~Takes(s[j], x)
    <3>1. 1 \in 1 .. i /\ 1 + 1 = 2 /\ s[1] = Head(s)
      BY <1>2
    <3>2. \A k \in 1 .. i : k = 1 \/ k \in 2 .. i
      OBVIOUS
    <3>3. \A k \in 2 .. i : k \in 1 .. i
      OBVIOUS
    <3>4. QED
      BY <3>1, <3>2, <3>3
  <2>7. Before(t, i, x, C) <=>
          \/ \E k \in 2 .. i : Gives(s[k], x) /\ \A j \in k + 1 .. i : ~Takes(s[j], x)
          \/ x \in C /\ \A j \in 2 .. i : ~Takes(s[j], x)
    BY <2>3, <2>5 DEF Before
  <2>8. Before(s, i + 1, x, B) <=>
          \/ \E k \in 1 .. i : Gives(s[k], x) /\ \A j \in k + 1 .. i : ~Takes(s[j], x)
          \/ x \in B /\ \A j \in 1 .. i : ~Takes(s[j], x)
    <3>1. i + 1 - 1 = i
      OBVIOUS
    <3>2. QED
      BY <3>1 DEF Before
  <2>9. QED
    BY <2>4, <2>6, <2>7, <2>8
<1>4. Ends(t, x, C) <=> Ends(s, x, B)
  <2>1. Len(s) \in 1 .. Len(s) /\ Len(t) + 1 = Len(s)
    BY <1>2
  <2>2. QED
    BY <1>3, <2>1 DEF Ends
<1>5. QED
  BY <1>1, <1>3, <1>4

\* A copy that the messages before i do not touch.
LEMMA BeforeBase ==
  ASSUME NEW s, NEW i, NEW x, NEW B, NEW C
  PROVE  /\ (x \in B <=> x \in C) => (Before(s, i, x, B) <=> Before(s, i, x, C))
         /\ (x \in B => x \in C) => (Before(s, i, x, B) => Before(s, i, x, C))
         /\ x \in B /\ (\A j \in 1 .. i - 1 : ~Takes(s[j], x)) => Before(s, i, x, B)
         /\ x \notin B /\ (\A j \in 1 .. i - 1 : ~Gives(s[j], x)) => ~Before(s, i, x, B)
  BY DEF Before

\* m comes before, or after, the place i.
Ahead(s, i, m)  == \E j \in DOMAIN s : j < i /\ s[j] = m
Behind(s, i, m) == \E j \in DOMAIN s : j > i /\ s[j] = m

LEMMA PlacesAppend ==
  ASSUME NEW T, NEW s \in Seq(T), NEW x \in T, NEW m
  PROVE  /\ \A i \in 1 .. Len(s) : Behind(Append(s, x), i, m) <=> Behind(s, i, m) \/ x = m
         /\ ~Behind(Append(s, x), Len(s) + 1, m)
         /\ \A i \in 1 .. Len(s) + 1 : Ahead(Append(s, x), i, m) <=> Ahead(s, i, m)
         /\ Ahead(s, Len(s) + 1, m) <=> ~Absent(s, m)
         /\ Absent(Append(s, x), m) <=> Absent(s, m) /\ x # m
<1>1. PICK t : t = Append(s, x)
  OBVIOUS
<1>2. PICK n \in Nat : n = Len(s)
  OBVIOUS
<1>3. /\ DOMAIN s = 1 .. n /\ DOMAIN t = 1 .. n + 1 /\ t[n + 1] = x
      /\ \A i \in 1 .. n : t[i] = s[i]
  BY <1>1, <1>2, Appended
<1>4. /\ \A i \in 1 .. n : Behind(t, i, m) <=> Behind(s, i, m) \/ x = m
      /\ ~Behind(t, n + 1, m)
  BY <1>3 DEF Behind
<1>5. /\ \A i \in 1 .. n + 1 : Ahead(t, i, m) <=> Ahead(s, i, m)
      /\ Ahead(s, n + 1, m) <=> ~Absent(s, m)
  BY <1>3 DEF Ahead, Absent
<1>6. Absent(t, m) <=> Absent(s, m) /\ x # m
  BY <1>1, AppendFacts
<1>7. QED
  BY <1>1, <1>2, <1>4, <1>5, <1>6

LEMMA PlacesTail ==
  ASSUME NEW T, NEW s \in Seq(T), s # << >>, NEW m
  PROVE  /\ \A i \in 1 .. Len(s) - 1 : Behind(Tail(s), i, m) <=> Behind(s, i + 1, m)
         /\ \A i \in 1 .. Len(s) : Ahead(s, i + 1, m) <=> Head(s) = m \/ Ahead(Tail(s), i, m)
         /\ Absent(s, m) <=> Head(s) # m /\ Absent(Tail(s), m)
<1>1. PICK t : t = Tail(s)
  OBVIOUS
<1>2. PICK n \in Nat : n = Len(s) - 1
  BY Tailed
<1>3. /\ DOMAIN s = 1 .. n + 1 /\ DOMAIN t = 1 .. n /\ Head(s) = s[1] /\ Len(s) = n + 1
      /\ \A i \in 1 .. n : t[i] = s[i + 1]
  BY <1>1, <1>2, Tailed
<1>4. \A j \in DOMAIN s : j = 1 \/ (j - 1 \in DOMAIN t /\ t[j - 1] = s[j])
  BY <1>3
<1>5. \A j \in DOMAIN t : j + 1 \in DOMAIN s
  BY <1>3
<1>6. ASSUME NEW i \in 1 .. n PROVE Behind(t, i, m) <=> Behind(s, i + 1, m)
  <2>1. ASSUME NEW j \in DOMAIN t, j > i, t[j] = m PROVE Behind(s, i + 1, m)
    BY <1>3, <1>5, <2>1 DEF Behind
  <2>2. ASSUME NEW j \in DOMAIN s, j > i + 1, s[j] = m PROVE Behind(t, i, m)
    BY <1>3, <1>4, <2>2 DEF Behind
  <2>3. QED
    BY <2>1, <2>2 DEF Behind
<1>7. ASSUME NEW i \in 1 .. n + 1 PROVE Ahead(s, i + 1, m) <=> Head(s) = m \/ Ahead(t, i, m)
  BY <1>3, <1>4, <1>5 DEF Ahead
<1>8. Absent(s, m) <=> Head(s) # m /\ Absent(t, m)
  BY <1>3, <1>4, <1>5 DEF Absent
<1>9. QED
  BY <1>1, <1>2, <1>3, <1>6, <1>7, <1>8
-----------------------------------------------------------------------------
(* One game and the db, while nothing went wrong.  O is what the game says, T  *)
(* what it is told, A whom it has; B are the couples of its copy, D those of   *)
(* the db.                                                                     *)

Neutral(m) == m.op \notin {"create", "add", "remove", "delete"}

\* A player that a message concerns remains at the game that says it, in the game
\* or behind the message; stays there, or is about to come; is away from a game
\* where the message has yet to arrive.
Remains(O, A, i, p)  == p \in A \/ Behind(O, i, Logout(p))
Stays(O, T, A, i, p) == Remains(O, A, i, p) \/ ~Absent(T, Enter(p))
Away(O, T, A, i, p)  == p \notin A /\ Absent(O, Logout(p)) /\ ~Ahead(T, i, Enter(p))

Said(O, A) ==
  \A i \in DOMAIN O :
    LET m == O[i] IN
      /\ Joins(m) => Remains(O, A, i, m.leader) /\ Remains(O, A, i, m.pid)
      /\ m.op = "create" => m.pid = m.leader
      /\ m.op = "remove" => /\ m.pid # m.leader
                            /\ Remains(O, A, i, m.leader) \/ Remains(O, A, i, m.pid)
Told(O, T, A) ==
  \A i \in DOMAIN T :
    LET m == T[i] IN
      /\ Joins(m) => Away(O, T, A, i, m.leader) /\ Away(O, T, A, i, m.pid)
      /\ m.op = "create" => m.pid = m.leader
      /\ m.op = "remove" => /\ m.pid # m.leader
                            /\ Away(O, T, A, i, m.leader) \/ Away(O, T, A, i, m.pid)

\* A player is in one party, which its leader is in.
Unique(B) ==
  \A l, p \in Pids :
    <<l, p>> \in B => <<l, l>> \in B /\ \A k \in Pids : <<k, p>> \in B => k = l

\* Who joins is in no other party then; a leader that is told of neither.
Fresh(s, B) ==
  \A i \in DOMAIN s :
    LET m == s[i] IN
      /\ Joins(m) => \A k \in Pids : k # m.leader => ~Before(s, i, <<k, m.pid>>, B)
      /\ m.op = "create" => ~Before(s, i, <<m.leader, m.leader>>, B)
Single(T, B) ==
  \A i \in DOMAIN T :
    LET m == T[i] IN
      Joins(m) \/ m.op = "delete" =>
        \A k \in Pids : k # m.leader => ~Before(T, i, <<k, m.leader>>, B)

\* When all is said and told, the copies have the same couples.
Meets(O, T, B, D) == \A x \in Couples : Ends(T, x, B) <=> Ends(O, x, D)

\* The end of a party is about to be told to the leader's game: that has the party
\* still, and says no more of it.
Closed(O, T, A, B) ==
  \A i \in DOMAIN T :
    LET l == T[i].leader IN
      T[i].op = "delete" /\ ~Away(O, T, A, i, l) =>
        /\ \A k \in DOMAIN O : Of(O[k], l) => ~Stays(O, T, A, k, l)
        /\ Before(T, i, <<l, l>>, B)

\* The game ended the party of a leader that is elsewhere: the db has it still, and
\* the game is told no more of the leader.
Ousted(O, T, A, B, D) ==
  \A i \in DOMAIN O :
    LET l == O[i].leader IN
      O[i].op = "delete" /\ ~Stays(O, T, A, i, l) =>
        /\ \A j \in DOMAIN T : ~Of(T[j], l) /\ (Joins(T[j]) => T[j].pid # l)
        /\ \A k \in Pids : <<k, l>> \notin B
        /\ Before(O, i, <<l, l>>, D)

Copies(O, T, A, B, D) ==
  /\ Said(O, A) /\ Told(O, T, A)
  /\ Unique(B) /\ Fresh(O, D) /\ Fresh(T, B) /\ Single(T, B)
  /\ Meets(O, T, B, D) /\ Closed(O, T, A, B) /\ Ousted(O, T, A, B, D)

LEMMA GiveTake ==
  ASSUME NEW m, NEW l, NEW p
  PROVE  /\ Gives(m, <<l, p>>) <=> Joins(m) /\ m.leader = l /\ m.pid = p
         /\ Takes(m, <<l, p>>) <=> \/ m.op = "remove" /\ m.leader = l /\ m.pid = p
                                   \/ m.op = "delete" /\ m.leader = l
  BY DEF Gives, Takes

LEMMA EndsIs ==
  ASSUME NEW M, NEW s \in Seq(M), NEW x, NEW B
  PROVE  Ends(s, x, B) <=>
           \/ \E k \in DOMAIN s : Gives(s[k], x) /\ \A j \in DOMAIN s : j > k => ~Takes(s[j], x)
           \/ x \in B /\ \A j \in DOMAIN s : ~Takes(s[j], x)
<1>1. PICK n \in Nat : n = Len(s)
  OBVIOUS
<1>2. DOMAIN s = 1 .. n /\ n + 1 - 1 = n
  BY <1>1
<1>3. \A k \in 1 .. n : \A j : j \in k + 1 .. n <=> j \in 1 .. n /\ j > k
  OBVIOUS
<1>4. Ends(s, x, B) <=>
        \/ \E k \in 1 .. n : Gives(s[k], x) /\ \A j \in k + 1 .. n : ~Takes(s[j], x)
        \/ x \in B /\ \A j \in 1 .. n : ~Takes(s[j], x)
  BY <1>1, <1>2 DEF Ends, Before
<1>5. QED
  BY <1>2, <1>3, <1>4

LEMMA StepFacts ==
  ASSUME NEW B \in SUBSET Couples, NEW m
  PROVE  /\ Step(B, m) \in SUBSET Couples
         /\ \A x \in Couples : x \in Step(B, m) <=> Gives(m, x) \/ (x \in B /\ ~Takes(m, x))
         /\ Neutral(m) => Step(B, m) = B
<1>1. Neutral(m) => \A x : ~Gives(m, x) /\ ~Takes(m, x)
  BY DEF Neutral, Gives, Takes, Joins
<1>2. QED
  BY <1>1 DEF Step

LEMMA NeutralFacts ==
  ASSUME NEW m, Neutral(m)
  PROVE  /\ ~Joins(m) /\ m.op \notin {"create", "remove", "delete"}
         /\ \A l : ~Of(m, l)
         /\ \A x : ~Gives(m, x) /\ ~Takes(m, x)
  BY DEF Neutral, Joins, Of, Gives, Takes

\* The players of a message.
LEMMA Whom ==
  ASSUME NEW m \in ToDb \cup ToGames
  PROVE  /\ ~Neutral(m) => m.leader \in Pids /\ m.pid \in Pids
         /\ ~Neutral(m) => \A p \in Pids : m # Enter(p) /\ m # Logout(p)
         /\ \A l : Of(m, l) => ~Neutral(m) /\ m.leader = l
         /\ Joins(m) => ~Neutral(m) /\ Of(m, m.leader)
         /\ m.op \in {"create", "remove", "delete"} => ~Neutral(m) /\ Of(m, m.leader)
<1>1. ASSUME ~Neutral(m) PROVE m \in PartyMsgs
  <2>1. CASE m \in ToDb
    BY <1>1, <2>1, ToDbKinds DEF Neutral, PartyOps
  <2>2. CASE m \in ToGames
    BY <1>1, <2>2, ToGamesKinds DEF Neutral
  <2>3. QED
    BY <2>1, <2>2
<1>2. QED
  BY <1>1, MsgKinds DEF PartyMsgs, Of, Joins, Neutral

LEMMA Pairing == \A l, p \in Pids : <<l, p>> \in Couples
  BY DEF Couples

\* The game says what is not of parties; a player logs out.
LEMMA SaysNeutral ==
  ASSUME NEW O \in Seq(ToDb), NEW T \in Seq(ToGames), NEW A, NEW C, NEW B, NEW D,
         NEW m \in ToDb, Neutral(m),
         \A p \in Pids : p \in A <=> p \in C \/ m = Logout(p),
         Copies(O, T, A, B, D)
  PROVE  Copies(Append(O, m), T, C, B, D)
<1>1. PICK n \in Nat : n = Len(O)
  BY Appended
<1>2. PICK o : o = Append(O, m)
  OBVIOUS
<1>3. /\ DOMAIN O = 1 .. n /\ DOMAIN o = 1 .. n + 1 /\ o[n + 1] = m /\ Len(o) = n + 1
      /\ \A i \in 1 .. n : o[i] = O[i]
      /\ o \in Seq(ToDb)
  BY <1>1, <1>2, Appended
<1>4. ASSUME NEW p \in Pids
      PROVE  /\ \A i \in 1 .. n : Remains(o, C, i, p) <=> Remains(O, A, i, p)
             /\ \A i \in 1 .. n : Stays(o, T, C, i, p) <=> Stays(O, T, A, i, p)
             /\ \A i : Away(o, T, C, i, p) <=> Away(O, T, A, i, p)
  <2>1. /\ \A i \in 1 .. n : Behind(o, i, Logout(p)) <=> Behind(O, i, Logout(p)) \/ m = Logout(p)
        /\ Absent(o, Logout(p)) <=> Absent(O, Logout(p)) /\ m # Logout(p)
    <3>1. /\ \A i \in 1 .. Len(O) : Behind(Append(O, m), i, Logout(p)) <=>
                                      Behind(O, i, Logout(p)) \/ m = Logout(p)
          /\ Absent(Append(O, m), Logout(p)) <=> Absent(O, Logout(p)) /\ m # Logout(p)
      BY PlacesAppend
    <3>2. QED
      BY <1>1, <1>2, <3>1
  <2>2. QED
    BY <2>1 DEF Remains, Stays, Away
<1>5. /\ \A i \in 1 .. n : O[i] \in ToDb \cup ToGames
      /\ \A i \in DOMAIN T : T[i] \in ToDb \cup ToGames
  BY <1>3
<1>6. ~Joins(m) /\ m.op \notin {"create", "remove", "delete"} /\ \A l : ~Of(m, l)
  BY NeutralFacts
<1>7. \A i \in 1 .. n : \A x : Before(o, i, x, D) <=> Before(O, i, x, D)
  <2>1. \A x : \A i \in 1 .. Len(O) + 1 : Before(Append(O, m), i, x, D) <=> Before(O, i, x, D)
    BY BeforeAppend
  <2>2. QED
    BY <1>1, <1>2, <2>1
<1>8. Said(o, C)
  <2>1. SUFFICES ASSUME NEW i \in 1 .. n, ~Neutral(O[i])
                 PROVE  /\ Joins(O[i]) => Remains(o, C, i, O[i].leader) /\ Remains(o, C, i, O[i].pid)
                        /\ O[i].op = "create" => O[i].pid = O[i].leader
                        /\ O[i].op = "remove" => /\ O[i].pid # O[i].leader
                                                 /\ \/ Remains(o, C, i, O[i].leader)
                                                    \/ Remains(o, C, i, O[i].pid)
    BY <1>3, <1>5, <1>6, Whom DEF Said
  <2>2. O[i].leader \in Pids /\ O[i].pid \in Pids
    BY <1>5, <2>1, Whom
  <2>3. QED
    BY <1>3, <1>4, <2>2 DEF Copies, Said
<1>9. Told(o, T, C)
  <2>1. ASSUME NEW i \in DOMAIN T, ~Neutral(T[i])
        PROVE  /\ Away(o, T, C, i, T[i].leader) <=> Away(O, T, A, i, T[i].leader)
               /\ Away(o, T, C, i, T[i].pid) <=> Away(O, T, A, i, T[i].pid)
    BY <1>4, <1>5, <2>1, Whom
  <2>2. QED
    BY <1>5, <2>1, Whom DEF Copies, Told
<1>10. Fresh(o, D)
  <2>1. SUFFICES ASSUME NEW i \in 1 .. n
                 PROVE  /\ Joins(O[i]) => \A k \in Pids : k # O[i].leader =>
                                            ~Before(O, i, <<k, O[i].pid>>, D)
                        /\ O[i].op = "create" => ~Before(O, i, <<O[i].leader, O[i].leader>>, D)
    <3>1. \A i \in DOMAIN o : i \in 1 .. n \/ o[i] = m
      BY <1>3
    <3>2. QED
      BY <1>3, <1>6, <1>7, <3>1 DEF Fresh
  <2>2. QED
    BY <1>3 DEF Copies, Fresh
<1>11. Meets(o, T, B, D)
  <2>1. \A x : Ends(o, x, D) <=> Ends(O, x, D)
    BY <1>2, BeforeAppend, NeutralFacts
  <2>2. QED
    BY <2>1 DEF Copies, Meets
<1>12. Closed(o, T, C, B)
  <2>1. SUFFICES ASSUME NEW i \in DOMAIN T, NEW l, l = T[i].leader, T[i].op = "delete",
                        ~Away(o, T, C, i, l)
                 PROVE  /\ \A k \in DOMAIN o : Of(o[k], l) => ~Stays(o, T, C, k, l)
                        /\ Before(T, i, <<l, l>>, B)
    BY DEF Closed
  <2>2. l \in Pids
    BY <1>5, <2>1, Whom
  <2>3. ~Away(O, T, A, i, l)
    BY <1>4, <2>1, <2>2
  <2>4. /\ \A k \in DOMAIN O : Of(O[k], l) => ~Stays(O, T, A, k, l)
        /\ Before(T, i, <<l, l>>, B)
    BY <2>1, <2>3 DEF Copies, Closed
  <2>5. QED
    BY <1>3, <1>4, <1>6, <2>2, <2>4
<1>13. Ousted(o, T, C, B, D)
  <2>1. SUFFICES ASSUME NEW i \in 1 .. n, NEW l, l = O[i].leader, O[i].op = "delete",
                        ~Stays(o, T, C, i, l)
                 PROVE  /\ \A j \in DOMAIN T : ~Of(T[j], l) /\ (Joins(T[j]) => T[j].pid # l)
                        /\ \A k \in Pids : <<k, l>> \notin B
                        /\ Before(o, i, <<l, l>>, D)
    BY <1>3, <1>6 DEF Ousted
  <2>2. l \in Pids
    BY <1>5, <2>1, Whom
  <2>3. ~Stays(O, T, A, i, l)
    BY <1>4, <2>1, <2>2
  <2>4. QED
    BY <1>3, <1>7, <2>1, <2>3 DEF Copies, Ousted
<1>14. QED
  BY <1>2, <1>8, <1>9, <1>10, <1>11, <1>12, <1>13 DEF Copies

LEMMA StepTail ==
  ASSUME NEW M, NEW s \in Seq(M), s # << >>, NEW B \in SUBSET Couples, NEW x \in Couples
  PROVE  /\ \A i \in 1 .. Len(s) : Before(Tail(s), i, x, Step(B, Head(s))) <=> Before(s, i + 1, x, B)
         /\ Ends(Tail(s), x, Step(B, Head(s))) <=> Ends(s, x, B)
  BY StepFacts, BeforeTail

\* The first message has its effect.
LEMMA FreshTail ==
  ASSUME NEW M, M \subseteq ToDb \cup ToGames, NEW s \in Seq(M), s # << >>,
         NEW B \in SUBSET Couples
  PROVE  /\ Fresh(s, B) => Fresh(Tail(s), Step(B, Head(s)))
         /\ Single(s, B) => Single(Tail(s), Step(B, Head(s)))
<1>0. Len(s) \in Nat \ {0}
  BY Tailed
<1>1. PICK n \in Nat : n = Len(s) - 1
  BY <1>0
<1>2. PICK t, C : t = Tail(s) /\ C = Step(B, Head(s))
  OBVIOUS
<1>3. /\ DOMAIN s = 1 .. n + 1 /\ DOMAIN t = 1 .. n /\ Len(s) = n + 1
      /\ \A i \in 1 .. n : t[i] = s[i + 1] /\ s[i + 1] \in ToDb \cup ToGames
  <2>1. /\ DOMAIN s = 1 .. n + 1 /\ DOMAIN t = 1 .. n /\ Len(s) = n + 1
        /\ \A i \in 1 .. n : t[i] = s[i + 1]
    BY <1>1, <1>2, Tailed
  <2>2. \A i \in 1 .. n : s[i + 1] \in M
    BY <2>1
  <2>3. QED
    BY <2>1, <2>2
<1>4. ASSUME NEW i \in 1 .. n, NEW k \in Pids, NEW p \in Pids
      PROVE  Before(t, i, <<k, p>>, C) <=> Before(s, i + 1, <<k, p>>, B)
  <2>1. \A j \in 1 .. Len(s) : Before(Tail(s), j, <<k, p>>, Step(B, Head(s))) <=> Before(s, j + 1, <<k, p>>, B)
    BY StepTail, Pairing
  <2>2. i \in 1 .. Len(s)
    BY <1>3
  <2>3. QED
    BY <1>2, <2>1, <2>2
<1>5. ASSUME NEW i \in 1 .. n, ~Neutral(t[i]) PROVE t[i].leader \in Pids /\ t[i].pid \in Pids
  BY <1>3, <1>5, Whom
<1>6. \A i \in 1 .. n : Joins(t[i]) \/ t[i].op \in {"create", "delete"} => ~Neutral(t[i])
  BY DEF Neutral, Joins
<1>7. \A i \in 1 .. n : i + 1 \in DOMAIN s
  BY <1>3
<1>8. Fresh(s, B) => Fresh(t, C)
  BY <1>3, <1>4, <1>5, <1>6, <1>7, SMTT(20) DEF Fresh
<1>9. Single(s, B) => Single(t, C)
  BY <1>3, <1>4, <1>5, <1>6, <1>7 DEF Single
<1>10. QED
  BY <1>2, <1>8, <1>9

\* The db takes what the game has said.
LEMMA Sent ==
  ASSUME NEW O \in Seq(ToDb), O # << >>, NEW T \in Seq(ToGames), NEW A,
         NEW B, NEW D \in SUBSET Couples, Copies(O, T, A, B, D)
  PROVE  Copies(Tail(O), T, A, B, Step(D, Head(O)))
<1>0. Len(O) \in Nat \ {0}
  BY Tailed
<1>1. PICK n \in Nat : n = Len(O) - 1
  BY <1>0
<1>2. PICK o, C : o = Tail(O) /\ C = Step(D, Head(O))
  OBVIOUS
<1>3. /\ DOMAIN O = 1 .. n + 1 /\ DOMAIN o = 1 .. n /\ Len(O) = n + 1
      /\ \A i \in 1 .. n : o[i] = O[i + 1] /\ i + 1 \in DOMAIN O
  BY <1>1, <1>2, Tailed
<1>4. ASSUME NEW p
      PROVE  /\ \A i \in 1 .. n : Remains(o, A, i, p) <=> Remains(O, A, i + 1, p)
             /\ \A i \in 1 .. n : Stays(o, T, A, i, p) <=> Stays(O, T, A, i + 1, p)
             /\ \A i : Away(O, T, A, i, p) => Away(o, T, A, i, p)
  <2>1. /\ \A i \in 1 .. Len(O) - 1 : Behind(Tail(O), i, Logout(p)) <=> Behind(O, i + 1, Logout(p))
        /\ Absent(O, Logout(p)) => Absent(Tail(O), Logout(p))
    BY PlacesTail
  <2>2. QED
    BY <1>1, <1>2, <2>1 DEF Remains, Stays, Away
<1>5. \A i \in 1 .. n : o[i] \in ToDb \cup ToGames
  BY <1>3
<1>6. ASSUME NEW i \in 1 .. n, NEW k \in Pids, NEW p \in Pids
      PROVE  Before(o, i, <<k, p>>, C) <=> Before(O, i + 1, <<k, p>>, D)
  <2>1. \A j \in 1 .. Len(O) : Before(Tail(O), j, <<k, p>>, Step(D, Head(O))) <=> Before(O, j + 1, <<k, p>>, D)
    BY StepTail, Pairing
  <2>2. i \in 1 .. Len(O)
    BY <1>3
  <2>3. QED
    BY <1>2, <2>1, <2>2
<1>7. Said(o, A)
  BY <1>3, <1>4, ZenonT(40) DEF Copies, Said
<1>8. Told(o, T, A)
  BY <1>4 DEF Copies, Told
<1>9. Fresh(o, C)
  BY <1>2, FreshTail DEF Copies
<1>10. Meets(o, T, B, C)
  BY <1>2, StepTail DEF Copies, Meets
<1>11. Closed(o, T, A, B)
  <2>1. SUFFICES ASSUME NEW i \in DOMAIN T, NEW l, l = T[i].leader, T[i].op = "delete",
                        ~Away(o, T, A, i, l)
                 PROVE  /\ \A k \in DOMAIN o : Of(o[k], l) => ~Stays(o, T, A, k, l)
                        /\ Before(T, i, <<l, l>>, B)
    BY DEF Closed
  <2>2. /\ \A k \in DOMAIN O : Of(O[k], l) => ~Stays(O, T, A, k, l)
        /\ Before(T, i, <<l, l>>, B)
    BY <1>4, <2>1 DEF Copies, Closed
  <2>3. QED
    BY <1>3, <1>4, <2>2
<1>12. Ousted(o, T, A, B, C)
  <2>1. SUFFICES ASSUME NEW i \in 1 .. n, NEW l, l = o[i].leader, o[i].op = "delete",
                        ~Stays(o, T, A, i, l)
                 PROVE  /\ \A j \in DOMAIN T : ~Of(T[j], l) /\ (Joins(T[j]) => T[j].pid # l)
                        /\ \A k \in Pids : <<k, l>> \notin B
                        /\ Before(o, i, <<l, l>>, C)
    BY <1>3 DEF Ousted
  <2>2. l \in Pids
    BY <1>5, <2>1, Whom
  <2>3. ~Stays(O, T, A, i + 1, l) /\ O[i + 1].op = "delete" /\ O[i + 1].leader = l
    BY <1>3, <1>4, <2>1
  <2>4. QED
    BY <1>3, <1>6, <2>2, <2>3 DEF Copies, Ousted
<1>13. QED
  BY <1>2, <1>7, <1>8, <1>9, <1>10, <1>11, <1>12 DEF Copies

\* The game takes what it is told: a message, or a player that comes.
LEMMA Taken ==
  ASSUME NEW O \in Seq(ToDb), NEW T \in Seq(ToGames), T # << >>, NEW A, NEW C,
         NEW B \in SUBSET Couples, NEW D, Copies(O, T, A, B, D),
         \A p \in Pids : p \in C <=> p \in A \/ Head(T) = Enter(p),
         Joins(Head(T)) => <<Head(T).leader, Head(T).leader>> \in Step(B, Head(T))
  PROVE  Copies(O, Tail(T), C, Step(B, Head(T)), D)
<1>0. Len(T) \in Nat \ {0}
  BY Tailed
<1>1. PICK n \in Nat : n = Len(T) - 1
  BY <1>0
<1>2. PICK t, E, m : t = Tail(T) /\ E = Step(B, m) /\ m = Head(T)
  OBVIOUS
<1>3. /\ DOMAIN T = 1 .. n + 1 /\ DOMAIN t = 1 .. n /\ Len(T) = n + 1 /\ m = T[1]
      /\ \A i \in 1 .. n : t[i] = T[i + 1] /\ i + 1 \in DOMAIN T
      /\ 1 \in DOMAIN T
  BY <1>1, <1>2, Tailed
<1>4. ASSUME NEW p \in Pids
      PROVE  /\ \A k : Remains(O, A, k, p) => Remains(O, C, k, p)
             /\ \A k : Stays(O, t, C, k, p) <=> Stays(O, T, A, k, p)
             /\ \A i \in 1 .. n : Away(O, t, C, i, p) <=> Away(O, T, A, i + 1, p)
  <2>1. /\ \A i \in 1 .. Len(T) : Ahead(T, i + 1, Enter(p)) <=> Head(T) = Enter(p) \/ Ahead(Tail(T), i, Enter(p))
        /\ Absent(T, Enter(p)) <=> Head(T) # Enter(p) /\ Absent(Tail(T), Enter(p))
    BY PlacesTail
  <2>2. \A i \in 1 .. n : Ahead(T, i + 1, Enter(p)) <=> m = Enter(p) \/ Ahead(t, i, Enter(p))
    BY <1>2, <1>3, <2>1
  <2>3. p \in C <=> p \in A \/ m = Enter(p)
    BY <1>2
  <2>4. QED
    BY <1>2, <2>1, <2>2, <2>3 DEF Remains, Stays, Away
<1>5. /\ \A i \in 1 .. n : t[i] \in ToDb \cup ToGames
      /\ \A i \in DOMAIN O : O[i] \in ToDb \cup ToGames
      /\ m \in ToDb \cup ToGames
  BY <1>3
<1>6. ASSUME NEW i \in 1 .. n, NEW k \in Pids, NEW p \in Pids
      PROVE  Before(t, i, <<k, p>>, E) <=> Before(T, i + 1, <<k, p>>, B)
  <2>1. \A j \in 1 .. Len(T) : Before(Tail(T), j, <<k, p>>, Step(B, Head(T))) <=> Before(T, j + 1, <<k, p>>, B)
    BY StepTail, Pairing
  <2>2. i \in 1 .. Len(T)
    BY <1>3
  <2>3. QED
    BY <1>2, <2>1, <2>2
<1>7. ASSUME NEW l \in Pids, NEW p \in Pids
      PROVE  <<l, p>> \in E <=> \/ Joins(m) /\ m.leader = l /\ m.pid = p
                                \/ /\ <<l, p>> \in B
                                   /\ ~(m.op = "remove" /\ m.leader = l /\ m.pid = p)
                                   /\ ~(m.op = "delete" /\ m.leader = l)
  BY <1>2, StepFacts, GiveTake, Pairing
<1>8. Said(O, C)
  <2>1. ASSUME NEW i \in DOMAIN O, ~Neutral(O[i])
        PROVE  /\ Remains(O, A, i, O[i].leader) => Remains(O, C, i, O[i].leader)
               /\ Remains(O, A, i, O[i].pid) => Remains(O, C, i, O[i].pid)
    BY <1>4, <1>5, <2>1, Whom
  <2>2. QED
    BY <1>5, <2>1, Whom DEF Copies, Said
<1>9. Told(O, t, C)
  <2>1. ASSUME NEW i \in 1 .. n, ~Neutral(t[i])
        PROVE  /\ Away(O, t, C, i, t[i].leader) <=> Away(O, T, A, i + 1, t[i].leader)
               /\ Away(O, t, C, i, t[i].pid) <=> Away(O, T, A, i + 1, t[i].pid)
    BY <1>4, <1>5, <2>1, Whom
  <2>2. ASSUME NEW i \in 1 .. n
        PROVE  LET x == t[i] IN
                 /\ Joins(x) => Away(O, t, C, i, x.leader) /\ Away(O, t, C, i, x.pid)
                 /\ x.op = "create" => x.pid = x.leader
                 /\ x.op = "remove" => /\ x.pid # x.leader
                                       /\ Away(O, t, C, i, x.leader) \/ Away(O, t, C, i, x.pid)
    <3>1. t[i] = T[i + 1] /\ i + 1 \in DOMAIN T
      BY <1>3
    <3>2. Joins(t[i]) \/ t[i].op \in {"create", "remove"} => ~Neutral(t[i])
      BY DEF Joins, Neutral
    <3>3. QED
      BY <2>1, <3>1, <3>2 DEF Copies, Told
  <2>3. QED
    BY <1>3, <2>2 DEF Told
<1>10. Fresh(t, E) /\ Single(t, E)
  BY <1>2, FreshTail DEF Copies
<1>11. Unique(E)
  <2>1. \A p \in Pids, k \in Pids : Before(T, 1, <<k, p>>, B) <=> <<k, p>> \in B
    BY DEF Before
  <2>2. /\ Joins(m) => \A k \in Pids : k # m.leader => <<k, m.pid>> \notin B
        /\ m.op = "create" => m.pid = m.leader
        /\ m.op = "remove" => m.pid # m.leader
        /\ Joins(m) => <<m.leader, m.leader>> \in E
    <3>1. /\ Joins(m) => \A k \in Pids : k # m.leader => ~Before(T, 1, <<k, m.pid>>, B)
          /\ m.op = "create" => m.pid = m.leader
          /\ m.op = "remove" => m.pid # m.leader
      BY <1>3 DEF Copies, Fresh, Told
    <3>2. Joins(m) => m.pid \in Pids
      BY <1>5, Whom
    <3>3. QED
      BY <1>2, <2>1, <3>1, <3>2
  <2>3. SUFFICES ASSUME NEW l \in Pids, NEW p \in Pids, <<l, p>> \in E
                 PROVE  <<l, l>> \in E /\ \A k \in Pids : <<k, p>> \in E => k = l
    BY DEF Unique
  <2>4. Unique(B)
    BY DEF Copies
  <2>5. <<l, l>> \in E
    <3>1. CASE Joins(m) /\ m.leader = l
      BY <2>2, <3>1
    <3>2. CASE ~(Joins(m) /\ m.leader = l)
      BY <1>7, <2>2, <2>3, <2>4, <3>2 DEF Unique
    <3>3. QED
      BY <3>1, <3>2
  <2>6. ASSUME NEW k \in Pids, <<k, p>> \in E PROVE k = l
    BY <1>7, <2>2, <2>3, <2>4, <2>6 DEF Unique
  <2>7. QED
    BY <2>5, <2>6
<1>12. Meets(O, t, E, D)
  BY <1>2, StepTail DEF Copies, Meets
<1>13. Closed(O, t, C, E)
  <2>1. SUFFICES ASSUME NEW i \in 1 .. n, NEW l, l = t[i].leader, t[i].op = "delete",
                        ~Away(O, t, C, i, l)
                 PROVE  /\ \A k \in DOMAIN O : Of(O[k], l) => ~Stays(O, t, C, k, l)
                        /\ Before(t, i, <<l, l>>, E)
    BY <1>3 DEF Closed
  <2>2. l \in Pids
    BY <1>5, <2>1, Whom
  <2>3. ~Away(O, T, A, i + 1, l) /\ T[i + 1].op = "delete" /\ T[i + 1].leader = l
    BY <1>3, <1>4, <2>1, <2>2
  <2>4. /\ \A k \in DOMAIN O : Of(O[k], l) => ~Stays(O, T, A, k, l)
        /\ Before(T, i + 1, <<l, l>>, B)
    BY <1>3, <2>3 DEF Copies, Closed
  <2>5. QED
    BY <1>4, <1>6, <2>2, <2>4
<1>14. Ousted(O, t, C, E, D)
  <2>1. SUFFICES ASSUME NEW i \in DOMAIN O, NEW l, l = O[i].leader, O[i].op = "delete",
                        ~Stays(O, t, C, i, l)
                 PROVE  /\ \A j \in DOMAIN t : ~Of(t[j], l) /\ (Joins(t[j]) => t[j].pid # l)
                        /\ \A k \in Pids : <<k, l>> \notin E
                        /\ Before(O, i, <<l, l>>, D)
    BY DEF Ousted
  <2>2. l \in Pids
    BY <1>5, <2>1, Whom
  <2>3. ~Stays(O, T, A, i, l)
    BY <1>4, <2>1, <2>2
  <2>4. /\ \A j \in DOMAIN T : ~Of(T[j], l) /\ (Joins(T[j]) => T[j].pid # l)
        /\ \A k \in Pids : <<k, l>> \notin B
        /\ Before(O, i, <<l, l>>, D)
    BY <2>1, <2>3 DEF Copies, Ousted
  <2>5. \A k \in Pids : <<k, l>> \notin E
    BY <1>3, <1>7, <2>2, <2>4
  <2>6. QED
    BY <1>3, <2>4, <2>5
<1>15. QED
  BY <1>2, <1>8, <1>9, <1>10, <1>11, <1>12, <1>13, <1>14 DEF Copies

LEMMA FreshAppend ==
  ASSUME NEW M, M \subseteq ToDb \cup ToGames, NEW s \in Seq(M), NEW m \in M, NEW B
  PROVE  /\ /\ Fresh(s, B)
            /\ Joins(m) => \A k \in Pids : k # m.leader => ~Ends(s, <<k, m.pid>>, B)
            /\ m.op = "create" => ~Ends(s, <<m.leader, m.leader>>, B)
            => Fresh(Append(s, m), B)
         /\ /\ Single(s, B)
            /\ Joins(m) \/ m.op = "delete" =>
                 \A k \in Pids : k # m.leader => ~Ends(s, <<k, m.leader>>, B)
            => Single(Append(s, m), B)
<1>1. PICK n \in Nat : n = Len(s)
  BY Appended
<1>2. PICK t : t = Append(s, m)
  OBVIOUS
<1>3. /\ DOMAIN s = 1 .. n /\ DOMAIN t = 1 .. n + 1 /\ t[n + 1] = m
      /\ \A i \in 1 .. n : t[i] = s[i]
  BY <1>1, <1>2, Appended
<1>4. ASSUME NEW x
      PROVE  /\ \A i \in 1 .. n : Before(t, i, x, B) <=> Before(s, i, x, B)
             /\ Before(t, n + 1, x, B) <=> Ends(s, x, B)
  <2>1. \A i \in 1 .. Len(s) + 1 : Before(Append(s, m), i, x, B) <=> Before(s, i, x, B)
    BY BeforeAppend
  <2>2. n + 1 \in 1 .. Len(s) + 1 /\ \A i \in 1 .. n : i \in 1 .. Len(s) + 1
    BY <1>1
  <2>3. QED
    BY <1>1, <1>2, <2>1, <2>2 DEF Ends
<1>5. \A i \in DOMAIN t : (i \in 1 .. n /\ i \in DOMAIN s) \/ i = n + 1
  BY <1>3
<1>6. ASSUME Fresh(s, B),
             Joins(m) => \A k \in Pids : k # m.leader => ~Ends(s, <<k, m.pid>>, B),
             m.op = "create" => ~Ends(s, <<m.leader, m.leader>>, B)
      PROVE  Fresh(t, B)
  <2>1. SUFFICES ASSUME NEW i \in DOMAIN t
                 PROVE  /\ Joins(t[i]) => \A k \in Pids : k # t[i].leader =>
                                            ~Before(t, i, <<k, t[i].pid>>, B)
                        /\ t[i].op = "create" => ~Before(t, i, <<t[i].leader, t[i].leader>>, B)
    BY DEF Fresh
  <2>2. CASE i = n + 1
    BY <1>3, <1>4, <1>6, <2>2
  <2>3. CASE i \in 1 .. n /\ i \in DOMAIN s
    BY <1>3, <1>4, <1>6, <2>3 DEF Fresh
  <2>4. QED
    BY <1>5, <2>2, <2>3
<1>7. ASSUME Single(s, B),
             Joins(m) \/ m.op = "delete" =>
               \A k \in Pids : k # m.leader => ~Ends(s, <<k, m.leader>>, B)
      PROVE  Single(t, B)
  <2>1. SUFFICES ASSUME NEW i \in DOMAIN t
                 PROVE  Joins(t[i]) \/ t[i].op = "delete" =>
                          \A k \in Pids : k # t[i].leader => ~Before(t, i, <<k, t[i].leader>>, B)
    BY DEF Single
  <2>2. CASE i = n + 1
    BY <1>3, <1>4, <1>7, <2>2
  <2>3. CASE i \in 1 .. n /\ i \in DOMAIN s
    BY <1>3, <1>4, <1>7, <2>3 DEF Single
  <2>4. QED
    BY <1>5, <2>2, <2>3
<1>8. QED
  BY <1>2, <1>6, <1>7

\* The db tells what is not of parties; a player comes.
LEMMA TellsNeutral ==
  ASSUME NEW O \in Seq(ToDb), NEW T \in Seq(ToGames), NEW A, NEW B, NEW D,
         NEW m \in ToGames, Neutral(m),
         \A p \in Pids : m = Enter(p) => /\ p \notin A /\ Absent(O, Logout(p))
                                         /\ Absent(T, Enter(p)),
         Copies(O, T, A, B, D)
  PROVE  Copies(O, Append(T, m), A, B, D)
<1>1. PICK n \in Nat : n = Len(T)
  BY Appended
<1>2. PICK t : t = Append(T, m)
  OBVIOUS
<1>3. /\ DOMAIN T = 1 .. n /\ DOMAIN t = 1 .. n + 1 /\ t[n + 1] = m /\ Len(t) = n + 1
      /\ \A i \in 1 .. n : t[i] = T[i] /\ i \in 1 .. n + 1
      /\ t \in Seq(ToGames)
      /\ n + 1 \in 1 .. n + 1
  BY <1>1, <1>2, Appended
<1>4. ASSUME NEW p \in Pids
      PROVE  /\ \A k : Stays(O, t, A, k, p) <=> Stays(O, T, A, k, p) \/ m = Enter(p)
             /\ \A i \in 1 .. n : Away(O, t, A, i, p) <=> Away(O, T, A, i, p)
  <2>1. /\ \A i \in 1 .. Len(T) + 1 : Ahead(Append(T, m), i, Enter(p)) <=> Ahead(T, i, Enter(p))
        /\ Absent(Append(T, m), Enter(p)) <=> Absent(T, Enter(p)) /\ m # Enter(p)
    BY PlacesAppend
  <2>2. \A i \in 1 .. n : Ahead(t, i, Enter(p)) <=> Ahead(T, i, Enter(p))
    BY <1>1, <1>2, <1>3, <2>1
  <2>3. QED
    BY <1>2, <2>1, <2>2 DEF Stays, Away
<1>5. /\ \A i \in DOMAIN O : O[i] \in ToDb \cup ToGames
      /\ \A i \in 1 .. n : T[i] \in ToDb \cup ToGames
  BY <1>3
<1>6. ~Joins(m) /\ m.op \notin {"create", "remove", "delete"} /\ \A l : ~Of(m, l)
  BY NeutralFacts
<1>7. ASSUME NEW x
      PROVE  /\ \A i \in 1 .. n : Before(t, i, x, B) <=> Before(T, i, x, B)
             /\ Ends(t, x, B) <=> Ends(T, x, B)
  <2>1. /\ \A i \in 1 .. Len(T) + 1 : Before(Append(T, m), i, x, B) <=> Before(T, i, x, B)
        /\ Ends(Append(T, m), x, B) <=> Ends(T, x, B)
    BY BeforeAppend, NeutralFacts
  <2>2. QED
    BY <1>1, <1>2, <1>3, <2>1
<1>8. \A i \in DOMAIN t : i \in 1 .. n \/ t[i] = m
  BY <1>3
<1>9. Told(O, t, A)
  <2>1. SUFFICES ASSUME NEW i \in 1 .. n, ~Neutral(T[i])
                 PROVE  LET x == T[i] IN
                          /\ Joins(x) => Away(O, t, A, i, x.leader) /\ Away(O, t, A, i, x.pid)
                          /\ x.op = "create" => x.pid = x.leader
                          /\ x.op = "remove" => /\ x.pid # x.leader
                                                /\ Away(O, t, A, i, x.leader) \/ Away(O, t, A, i, x.pid)
    BY <1>3, <1>5, <1>6, <1>8, Whom DEF Told
  <2>2. T[i].leader \in Pids /\ T[i].pid \in Pids
    BY <1>5, <2>1, Whom
  <2>3. QED
    BY <1>3, <1>4, <2>2 DEF Copies, Told
<1>10. Fresh(t, B) /\ Single(t, B)
  BY <1>2, <1>6, FreshAppend DEF Copies
<1>11. Meets(O, t, B, D)
  BY <1>7 DEF Copies, Meets
<1>12. Closed(O, t, A, B)
  <2>1. SUFFICES ASSUME NEW i \in 1 .. n, NEW l, l = T[i].leader, T[i].op = "delete",
                        ~Away(O, t, A, i, l)
                 PROVE  /\ \A k \in DOMAIN O : Of(O[k], l) => ~Stays(O, t, A, k, l)
                        /\ Before(t, i, <<l, l>>, B)
    BY <1>3, <1>6, <1>8 DEF Closed
  <2>2. l \in Pids
    BY <1>5, <2>1, Whom
  <2>3. ~Away(O, T, A, i, l)
    BY <1>4, <2>1, <2>2
  <2>4. m # Enter(l)
    BY <2>2, <2>3 DEF Away, Ahead, Absent
  <2>5. /\ \A k \in DOMAIN O : Of(O[k], l) => ~Stays(O, T, A, k, l)
        /\ Before(T, i, <<l, l>>, B)
    BY <1>3, <2>1, <2>3 DEF Copies, Closed
  <2>6. QED
    BY <1>4, <1>7, <2>2, <2>4, <2>5
<1>13. Ousted(O, t, A, B, D)
  <2>1. SUFFICES ASSUME NEW i \in DOMAIN O, NEW l, l = O[i].leader, O[i].op = "delete",
                        ~Stays(O, t, A, i, l)
                 PROVE  /\ \A j \in DOMAIN t : ~Of(t[j], l) /\ (Joins(t[j]) => t[j].pid # l)
                        /\ \A k \in Pids : <<k, l>> \notin B
                        /\ Before(O, i, <<l, l>>, D)
    BY DEF Ousted
  <2>2. l \in Pids
    BY <1>5, <2>1, Whom
  <2>3. ~Stays(O, T, A, i, l)
    BY <1>4, <2>1, <2>2
  <2>4. /\ \A j \in DOMAIN T : ~Of(T[j], l) /\ (Joins(T[j]) => T[j].pid # l)
        /\ \A k \in Pids : <<k, l>> \notin B
        /\ Before(O, i, <<l, l>>, D)
    BY <2>1, <2>3 DEF Copies, Ousted
  <2>5. QED
    BY <1>3, <1>6, <1>8, <2>4
<1>14. QED
  BY <1>2, <1>9, <1>10, <1>11, <1>12, <1>13 DEF Copies

-----------------------------------------------------------------------------
(* A message that has its effect on one copy goes to the end of a queue to the *)
(* other: it has to fit what is under way the other way.                       *)

Fits(s, m) ==
  \A i \in DOMAIN s, x \in Couples :
    (Gives(m, x) => ~Takes(s[i], x)) /\ (Takes(m, x) => ~Gives(s[i], x))

LEMMA Commutes ==
  ASSUME NEW M, NEW s \in Seq(M), NEW m, Fits(s, m), NEW B \in SUBSET Couples, NEW x \in Couples
  PROVE  /\ \A i \in 1 .. Len(s) + 1 :
              Before(s, i, x, Step(B, m)) <=> Gives(m, x) \/ (Before(s, i, x, B) /\ ~Takes(m, x))
         /\ Ends(s, x, Step(B, m)) <=> Gives(m, x) \/ (Ends(s, x, B) /\ ~Takes(m, x))
<1>1. x \in Step(B, m) <=> Gives(m, x) \/ (x \in B /\ ~Takes(m, x))
  BY StepFacts
<1>2. ASSUME NEW i \in 1 .. Len(s) + 1
      PROVE  Before(s, i, x, Step(B, m)) <=> Gives(m, x) \/ (Before(s, i, x, B) /\ ~Takes(m, x))
  <2>1. \A j \in 1 .. i - 1 : /\ Gives(m, x) => ~Takes(s[j], x)
                              /\ Takes(m, x) => ~Gives(s[j], x)
    <3>1. \A j \in 1 .. i - 1 : j \in DOMAIN s
      OBVIOUS
    <3>2. QED
      BY <3>1 DEF Fits
  <2>2. CASE Gives(m, x)
    BY <1>1, <2>1, <2>2, BeforeBase
  <2>3. CASE ~Gives(m, x) /\ Takes(m, x)
    BY <1>1, <2>1, <2>3, BeforeBase
  <2>4. CASE ~Gives(m, x) /\ ~Takes(m, x)
    BY <1>1, <2>4, BeforeBase
  <2>5. QED
    BY <2>2, <2>3, <2>4
<1>3. Len(s) + 1 \in 1 .. Len(s) + 1
  OBVIOUS
<1>4. QED
  BY <1>2, <1>3 DEF Ends

LEMMA FreshCommutes ==
  ASSUME NEW M, M \subseteq ToDb \cup ToGames, NEW s \in Seq(M), NEW m, Fits(s, m),
         NEW B \in SUBSET Couples, Fresh(s, B),
         \A i \in DOMAIN s : s[i].op = "create" => s[i].pid = s[i].leader,
         Joins(m) => \A i \in DOMAIN s : Joins(s[i]) => s[i].pid # m.pid
  PROVE  Fresh(s, Step(B, m))
<1>1. PICK C : C = Step(B, m)
  OBVIOUS
<1>2. SUFFICES ASSUME NEW i \in DOMAIN s
               PROVE  /\ Joins(s[i]) => \A k \in Pids : k # s[i].leader => ~Before(s, i, <<k, s[i].pid>>, C)
                      /\ s[i].op = "create" => ~Before(s, i, <<s[i].leader, s[i].leader>>, C)
  BY <1>1 DEF Fresh
<1>3. /\ Joins(s[i]) => s[i].pid \in Pids /\ s[i].leader \in Pids
      /\ s[i].op = "create" => Joins(s[i])
  BY Whom DEF Joins
<1>4. ASSUME NEW k \in Pids, NEW p \in Pids, Before(s, i, <<k, p>>, C)
      PROVE  Before(s, i, <<k, p>>, B) \/ (Joins(m) /\ m.pid = p)
  <2>1. i \in 1 .. Len(s) + 1
    OBVIOUS
  <2>2. QED
    BY <1>1, <1>4, <2>1, Commutes, Pairing, GiveTake
<1>5. CASE ~Joins(s[i])
  BY <1>3, <1>5
<1>6. CASE Joins(s[i])
  <2>1. PICK l, q : l = s[i].leader /\ q = s[i].pid
    OBVIOUS
  <2>2. \A k \in Pids : k # l => ~Before(s, i, <<k, q>>, C)
    BY <1>3, <1>4, <1>6, <2>1 DEF Fresh
  <2>3. ASSUME s[i].op = "create" PROVE ~Before(s, i, <<l, l>>, C)
    <3>1. ~Before(s, i, <<l, l>>, B)
      BY <2>1, <2>3 DEF Fresh
    <3>2. q = l /\ (Joins(m) => m.pid # q)
      BY <1>6, <2>1, <2>3
    <3>3. QED
      BY <1>3, <1>4, <1>6, <2>1, <3>1, <3>2
  <2>4. QED
    BY <2>1, <2>2, <2>3
<1>7. QED
  BY <1>5, <1>6
-----------------------------------------------------------------------------
(* What a game says of its parties.                                            *)

\* The game that has the players A and the couples B may say m.
Due(m, A, B) ==
  /\ m.leader \in Pids /\ m.pid \in Pids
  /\ \/ /\ m.op = "create" /\ m.pid = m.leader /\ m.leader \in A
        /\ \A k \in Pids : <<m.leader, k>> \notin B /\ <<k, m.leader>> \notin B
     \/ /\ m.op = "add" /\ m.leader \in A /\ m.pid \in A
        /\ <<m.leader, m.leader>> \in B
        /\ \A k \in Pids : k # m.leader => <<k, m.pid>> \notin B
     \/ /\ m.op = "remove" /\ m.pid # m.leader
        /\ <<m.leader, m.leader>> \in B
        /\ m.leader \in A \/ m.pid \in A
     \/ /\ m.op = "delete" /\ <<m.leader, m.leader>> \in B
        /\ \E p \in A : <<m.leader, p>> \in B

\* An error that is bound to be logged: the db, or the game, will not know the
\* party of l when it is told of a change of it.
DoomedOut(O, T, A, l) ==
  \E i \in DOMAIN O : /\ Of(O[i], l) /\ O[i].op # "create"
                      /\ \A j \in 1 .. i - 1 : ~Of(O[j], l)
                      /\ Stays(O, T, A, i, l)
DoomedIn(T, A, l) ==
  /\ l \notin A
  /\ \E i \in DOMAIN T : /\ Of(T[i], l) /\ T[i].op # "create"
                         /\ \A j \in 1 .. i - 1 : /\ ~Of(T[j], l) /\ T[j] # Enter(l)
                                                  /\ Joins(T[j]) => T[j].pid # l

\* No message to the game gives a party to a player that it has.
LEMMA NotGiven ==
  ASSUME NEW O, NEW T \in Seq(ToGames), NEW A, NEW B, Told(O, T, A), NEW l, NEW p,
         <<l, p>> \notin B, l \in A \/ p \in A
  PROVE  /\ \A i \in DOMAIN T : ~Before(T, i, <<l, p>>, B)
         /\ ~Ends(T, <<l, p>>, B)
<1>1. ASSUME NEW k \in DOMAIN T PROVE ~Gives(T[k], <<l, p>>)
  <2>1. SUFFICES ASSUME Joins(T[k]), T[k].leader = l, T[k].pid = p PROVE FALSE
    BY GiveTake
  <2>2. QED
    BY <2>1 DEF Told, Away
<1>2. DOMAIN T = 1 .. Len(T) /\ Len(T) \in Nat
  BY Appended
<1>3. \A i \in DOMAIN T : ~Before(T, i, <<l, p>>, B)
  <2>1. \A i \in DOMAIN T : \A k \in 1 .. i - 1 : k \in DOMAIN T
    BY <1>2
  <2>2. QED
    BY <1>1, <2>1 DEF Before
<1>4. ~Ends(T, <<l, p>>, B)
  BY <1>1, EndsIs
<1>5. QED
  BY <1>3, <1>4

\* The end of l's party is about to be told to l's game, and that says something of
\* the party: the db has no such party.
LEMMA Refused ==
  ASSUME NEW O \in Seq(ToDb), NEW T \in Seq(ToGames), NEW A, NEW B, NEW D \in SUBSET Couples,
         Copies(O, T, A, B, D), NEW m \in ToDb, NEW l \in Pids, Of(m, l), m.op # "create",
         NEW i \in DOMAIN T, T[i].op = "delete", T[i].leader = l, ~Away(O, T, A, i, l),
         l \in A \/ ~Absent(T, Enter(l))
  PROVE  <<l, l>> \notin D /\ DoomedOut(Append(O, m), T, A, l)
<1>1. PICK n \in Nat : n = Len(O)
  BY Appended
<1>2. PICK o : o = Append(O, m)
  OBVIOUS
<1>3. /\ DOMAIN O = 1 .. n /\ DOMAIN o = 1 .. n + 1 /\ o[n + 1] = m
      /\ \A k \in 1 .. n : o[k] = O[k]
  BY <1>1, <1>2, Appended
<1>4. \A k \in DOMAIN O : ~Of(O[k], l)
  <2>1. \A k \in DOMAIN O : Of(O[k], l) => ~Stays(O, T, A, k, l)
    BY DEF Copies, Closed
  <2>2. QED
    BY <2>1 DEF Stays, Remains
<1>5. ~Ends(T, <<l, l>>, B)
  <2>1. Len(T) \in Nat /\ DOMAIN T = 1 .. Len(T) /\ i \in 1 .. Len(T)
    BY Appended
  <2>2. Takes(T[i], <<l, l>>)
    BY GiveTake
  <2>3. ASSUME NEW k \in 1 .. Len(T), Gives(T[k], <<l, l>>) PROVE k < i
    <3>1. Joins(T[k]) /\ T[k].leader = l
      BY <2>3, GiveTake
    <3>2. Away(O, T, A, k, l)
      BY <2>1, <3>1 DEF Copies, Told
    <3>3. QED
      BY <2>1, <3>2 DEF Away, Ahead
  <2>4. QED
    BY <2>1, <2>2, <2>3, EndsIs
<1>6. <<l, l>> \notin D
  <2>1. ~Ends(O, <<l, l>>, D)
    BY <1>5, Pairing DEF Copies, Meets
  <2>2. \A j \in DOMAIN O : ~Takes(O[j], <<l, l>>)
    BY <1>4, GiveTake DEF Of
  <2>3. QED
    BY <2>1, <2>2, EndsIs
<1>7. Stays(o, T, A, n + 1, l)
  BY DEF Stays, Remains
<1>8. \A j \in 1 .. n + 1 - 1 : ~Of(o[j], l)
  BY <1>3, <1>4
<1>9. n + 1 \in DOMAIN o
  BY <1>3
<1>10. DoomedOut(o, T, A, l)
  BY <1>3, <1>7, <1>8, <1>9 DEF DoomedOut
<1>11. QED
  BY <1>2, <1>6, <1>10

LEMMA LeastNat ==
  ASSUME NEW S \in SUBSET Nat, S # {}
  PROVE  \E m \in S : \A n \in S : m <= n
<1>1. PICK m \in S : \A n \in S : <<n, m>> \notin OpToRel(<, Nat)
  BY NatLessThanWellFounded, WFMin
<1>2. \A n \in S : ~(n < m)
  BY <1>1 DEF OpToRel
<1>3. QED
  BY <1>2

\* The game has l's party, and ends it, while it is yet to be told of a change of
\* it: that comes to a game that does not know the party.
LEMMA Orphaned ==
  ASSUME NEW O, NEW T \in Seq(ToGames), NEW A, NEW B,
         Fresh(T, B), NEW l \in Pids, l \notin A, <<l, l>> \in B,
         NEW i \in DOMAIN T, Of(T[i], l) \/ (Joins(T[i]) /\ T[i].pid = l),
         ~Ahead(T, i, Enter(l))
  PROVE  DoomedIn(T, A, l)
<1>1. PICK S : S = {j \in DOMAIN T : Of(T[j], l) \/ (Joins(T[j]) /\ T[j].pid = l)}
  OBVIOUS
<1>2. Len(T) \in Nat /\ DOMAIN T = 1 .. Len(T) /\ i \in S
  BY <1>1, Appended
<1>3. PICK j \in S : \A k \in S : j <= k
  <2>1. S \in SUBSET Nat /\ S # {}
    BY <1>1, <1>2
  <2>2. QED
    BY <2>1, LeastNat
<1>4. j \in 1 .. Len(T) /\ j <= i
  BY <1>1, <1>2, <1>3
<1>5. \A k \in 1 .. j - 1 : ~Of(T[k], l) /\ (Joins(T[k]) => T[k].pid # l)
  <2>1. \A k \in 1 .. j - 1 : k \in DOMAIN T /\ k \notin S
    BY <1>2, <1>3, <1>4
  <2>2. QED
    BY <1>1, <2>1
<1>6. \A k \in 1 .. j - 1 : T[k] # Enter(l)
  BY <1>2, <1>4 DEF Ahead
<1>7. Before(T, j, <<l, l>>, B)
  <2>1. \A k \in 1 .. j - 1 : ~Takes(T[k], <<l, l>>)
    BY <1>5, GiveTake DEF Of
  <2>2. QED
    BY <2>1, BeforeBase
<1>8. j \in DOMAIN T /\ (Of(T[j], l) \/ (Joins(T[j]) /\ T[j].pid = l))
  BY <1>1, <1>3
<1>9. Of(T[j], l)
  BY <1>7, <1>8 DEF Fresh, Of, Joins
<1>10. T[j].op # "create"
  BY <1>7, <1>8, <1>9 DEF Fresh, Of
<1>11. QED
  BY <1>5, <1>6, <1>8, <1>9, <1>10 DEF DoomedIn

\* The game says m: it and the db agree when all is said and told, or an error is
\* bound to be logged.
LEMMA Says ==
  ASSUME NEW O \in Seq(ToDb), NEW T \in Seq(ToGames), NEW A, A \subseteq Pids,
         NEW B \in SUBSET Couples, NEW D \in SUBSET Couples,
         NEW m \in ToDb, Due(m, A, B), Copies(O, T, A, B, D)
  PROVE  LET l == m.leader IN
         \/ Copies(Append(O, m), T, A, Step(B, m), D)
         \/ m.op # "create" /\ <<l, l>> \notin D /\ DoomedOut(Append(O, m), T, A, l)
         \/ m.op = "delete" /\ DoomedIn(T, A, l)
<1>1. PICK l, q : l = m.leader /\ q = m.pid
  OBVIOUS
<1>2. /\ l \in Pids /\ q \in Pids
      /\ m.op \in {"create", "add", "remove", "delete"} /\ ~Neutral(m) /\ Of(m, l)
      /\ m.op = "create" => q = l /\ l \in A
      /\ m.op = "add" => l \in A /\ q \in A
      /\ m.op = "remove" => q # l /\ (l \in A \/ q \in A)
      /\ m.op # "create" => <<l, l>> \in B
  BY <1>1 DEF Due, Neutral, Of
<1>3. PICK n \in Nat : n = Len(O)
  BY Appended
<1>4. PICK o, E : o = Append(O, m) /\ E = Step(B, m)
  OBVIOUS
<1>5. /\ DOMAIN O = 1 .. n /\ DOMAIN o = 1 .. n + 1 /\ o[n + 1] = m /\ o \in Seq(ToDb)
      /\ \A i \in 1 .. n : o[i] = O[i]
      /\ \A i \in DOMAIN o : i \in 1 .. n \/ (i = n + 1 /\ o[i] = m)
  BY <1>3, <1>4, Appended
<1>6. /\ \A i \in DOMAIN O : O[i] \in ToDb \cup ToGames
      /\ \A i \in DOMAIN T : T[i] \in ToDb \cup ToGames
      /\ E \in SUBSET Couples
  BY <1>4, StepFacts
<1>7. CASE \E i \in DOMAIN T : /\ T[i].op = "delete" /\ T[i].leader = l
                               /\ ~Away(O, T, A, i, l)
                               /\ l \in A \/ ~Absent(T, Enter(l))
  <2>1. PICK i \in DOMAIN T : /\ T[i].op = "delete" /\ T[i].leader = l
                              /\ ~Away(O, T, A, i, l)
                              /\ l \in A \/ ~Absent(T, Enter(l))
    BY <1>7
  <2>2. CASE m.op = "create"
    <3>1. Before(T, i, <<l, l>>, B)
      BY <2>1 DEF Copies, Closed
    <3>2. <<l, l>> \notin B /\ l \in A
      BY <1>1, <1>2, <2>2 DEF Due
    <3>3. QED
      BY <3>1, <3>2, NotGiven DEF Copies
  <2>3. CASE m.op # "create"
    BY <1>1, <1>2, <2>1, <2>3, Refused
  <2>4. QED
    BY <2>2, <2>3
<1>8. CASE /\ m.op = "delete" /\ l \notin A
           /\ \E i \in DOMAIN T : /\ Of(T[i], l) \/ (Joins(T[i]) /\ T[i].pid = l)
                                  /\ ~Ahead(T, i, Enter(l))
  <2>1. DoomedIn(T, A, l)
    BY <1>2, <1>8, Orphaned DEF Copies
  <2>2. QED
    BY <1>1, <1>8, <2>1
<1>9. CASE /\ \A i \in DOMAIN T : T[i].op = "delete" /\ T[i].leader = l /\ ~Away(O, T, A, i, l) =>
                                    l \notin A /\ Absent(T, Enter(l))
           /\ m.op = "delete" /\ l \notin A =>
                \A i \in DOMAIN T : Of(T[i], l) \/ (Joins(T[i]) /\ T[i].pid = l) =>
                                      Ahead(T, i, Enter(l))
  <2>1. \A i \in DOMAIN T : Joins(T[i]) =>
          /\ T[i].leader \notin A /\ ~Ahead(T, i, Enter(T[i].leader))
          /\ T[i].pid \notin A
    BY DEF Copies, Told, Away
  <2>2. \A i \in DOMAIN T : Joins(T[i]) \/ T[i].op \in {"create", "remove", "delete"} =>
          T[i].leader \in Pids /\ T[i].pid \in Pids
    BY <1>6, Whom
  <2>3. Fits(T, m)
    <3>1. SUFFICES ASSUME NEW i \in DOMAIN T, NEW k \in Pids, NEW p \in Pids
                   PROVE  /\ Gives(m, <<k, p>>) => ~Takes(T[i], <<k, p>>)
                          /\ Takes(m, <<k, p>>) => ~Gives(T[i], <<k, p>>)
      BY DEF Fits, Couples
    <3>2. ASSUME Gives(m, <<k, p>>), Takes(T[i], <<k, p>>) PROVE FALSE
      <4>1. Joins(m) /\ k = l /\ p = q /\ l \in A /\ q \in A
        BY <1>1, <1>2, <3>2, GiveTake DEF Joins
      <4>2. CASE T[i].op = "remove" /\ T[i].leader = l /\ T[i].pid = q
        BY <4>1, <4>2 DEF Copies, Told, Away
      <4>3. CASE T[i].op = "delete" /\ T[i].leader = l
        BY <1>9, <4>1, <4>3 DEF Away
      <4>4. QED
        BY <3>2, <4>1, <4>2, <4>3, GiveTake
    <3>3. ASSUME Takes(m, <<k, p>>), Gives(T[i], <<k, p>>) PROVE FALSE
      <4>1. Joins(T[i]) /\ T[i].leader = k /\ T[i].pid = p
        BY <3>3, GiveTake
      <4>2. k = l /\ l \notin A /\ p \notin A /\ ~Ahead(T, i, Enter(l)) /\ Of(T[i], l)
        BY <1>1, <2>1, <3>3, <4>1, GiveTake DEF Of, Joins
      <4>3. QED
        BY <1>1, <1>2, <1>9, <3>3, <4>2, GiveTake
    <3>4. QED
      BY <3>2, <3>3
  <2>4. ASSUME NEW k \in Pids, NEW p \in Pids
        PROVE  \A i \in DOMAIN T : Before(T, i, <<k, p>>, E) <=>
                 (Joins(m) /\ k = l /\ p = q) \/ (Before(T, i, <<k, p>>, B) /\ ~Takes(m, <<k, p>>))
    <3>1. \A i \in 1 .. Len(T) + 1 : Before(T, i, <<k, p>>, Step(B, m)) <=>
            Gives(m, <<k, p>>) \/ (Before(T, i, <<k, p>>, B) /\ ~Takes(m, <<k, p>>))
      BY <2>3, Commutes, Pairing
    <3>2. \A i \in DOMAIN T : i \in 1 .. Len(T) + 1
      OBVIOUS
    <3>3. Gives(m, <<k, p>>) <=> Joins(m) /\ k = l /\ p = q
      BY <1>1, GiveTake
    <3>4. QED
      BY <1>4, <3>1, <3>2, <3>3
  <2>5. ASSUME NEW p \in Pids
        PROVE  /\ \A i \in 1 .. n : Remains(o, A, i, p) <=> Remains(O, A, i, p)
               /\ Remains(o, A, n + 1, p) <=> p \in A
               /\ \A i \in 1 .. n : Stays(o, T, A, i, p) <=> Stays(O, T, A, i, p)
               /\ Stays(o, T, A, n + 1, p) <=> p \in A \/ ~Absent(T, Enter(p))
               /\ \A i : Away(o, T, A, i, p) <=> Away(O, T, A, i, p)
    <3>1. /\ \A i \in 1 .. Len(O) : Behind(Append(O, m), i, Logout(p)) <=>
                                      Behind(O, i, Logout(p)) \/ m = Logout(p)
          /\ ~Behind(Append(O, m), Len(O) + 1, Logout(p))
          /\ Absent(Append(O, m), Logout(p)) <=> Absent(O, Logout(p)) /\ m # Logout(p)
      BY PlacesAppend
    <3>2. m # Logout(p)
      BY <1>2, Whom
    <3>3. /\ \A i \in 1 .. n : Behind(o, i, Logout(p)) <=> Behind(O, i, Logout(p))
          /\ ~Behind(o, n + 1, Logout(p))
          /\ Absent(o, Logout(p)) <=> Absent(O, Logout(p))
      BY <1>3, <1>4, <3>1, <3>2
    <3>4. QED
      BY <3>3 DEF Remains, Stays, Away
  <2>6. Said(o, A)
    <3>1. SUFFICES ASSUME NEW i \in DOMAIN o
                   PROVE  LET x == o[i] IN
                            /\ Joins(x) => Remains(o, A, i, x.leader) /\ Remains(o, A, i, x.pid)
                            /\ x.op = "create" => x.pid = x.leader
                            /\ x.op = "remove" => /\ x.pid # x.leader
                                                  /\ \/ Remains(o, A, i, x.leader)
                                                     \/ Remains(o, A, i, x.pid)
      BY DEF Said
    <3>2. CASE i = n + 1 /\ o[i] = m
      BY <1>1, <1>2, <2>5, <3>2 DEF Joins
    <3>3. CASE i \in 1 .. n
      <4>1. i \in DOMAIN O /\ o[i] = O[i]
        BY <1>5, <3>3
      <4>2. Joins(O[i]) \/ O[i].op = "remove" => O[i].leader \in Pids /\ O[i].pid \in Pids
        BY <1>6, <4>1, Whom
      <4>3. QED
        BY <2>5, <3>3, <4>1, <4>2 DEF Copies, Said
    <3>4. QED
      BY <1>5, <3>2, <3>3
  <2>7. Told(o, T, A)
    <3>1. ASSUME NEW i \in DOMAIN T, Joins(T[i]) \/ T[i].op = "remove"
          PROVE  /\ Away(o, T, A, i, T[i].leader) <=> Away(O, T, A, i, T[i].leader)
                 /\ Away(o, T, A, i, T[i].pid) <=> Away(O, T, A, i, T[i].pid)
      BY <2>2, <2>5, <3>1
    <3>2. QED
      BY <3>1 DEF Copies, Told
  <2>8. Unique(E)
    <3>1. ASSUME NEW k \in Pids, NEW p \in Pids
          PROVE  <<k, p>> \in E <=> (Joins(m) /\ k = l /\ p = q) \/ (<<k, p>> \in B /\ ~Takes(m, <<k, p>>))
      BY <1>1, <1>4, StepFacts, GiveTake, Pairing
    <3>2. Unique(B)
      BY DEF Copies
    <3>3. CASE m.op = "create"
      <4>1. Joins(m) /\ q = l /\ \A k \in Pids : <<l, k>> \notin B /\ <<k, l>> \notin B
        BY <1>1, <3>3 DEF Joins, Due
      <4>2. \A k, p \in Pids : ~Takes(m, <<k, p>>)
        BY <3>3, GiveTake
      <4>3. QED
        BY <3>1, <3>2, <4>1, <4>2 DEF Unique
    <3>4. CASE m.op = "add"
      <4>1. Joins(m) /\ <<l, l>> \in B /\ \A k \in Pids : k # l => <<k, q>> \notin B
        BY <1>1, <3>4 DEF Joins, Due
      <4>2. \A k, p \in Pids : ~Takes(m, <<k, p>>)
        BY <3>4, GiveTake
      <4>3. QED
        BY <3>1, <3>2, <4>1, <4>2 DEF Unique
    <3>5. CASE m.op = "remove"
      <4>1. ~Joins(m) /\ q # l
        BY <1>1, <3>5 DEF Joins, Due
      <4>2. \A k, p \in Pids : Takes(m, <<k, p>>) <=> k = l /\ p = q
        BY <1>1, <3>5, GiveTake
      <4>3. QED
        BY <3>1, <3>2, <4>1, <4>2 DEF Unique
    <3>6. CASE m.op = "delete"
      <4>1. ~Joins(m)
        BY <3>6 DEF Joins
      <4>2. \A k, p \in Pids : Takes(m, <<k, p>>) <=> k = l
        BY <1>1, <3>6, GiveTake
      <4>3. QED
        BY <3>1, <3>2, <4>1, <4>2 DEF Unique
    <3>7. QED
      BY <1>2, <3>3, <3>4, <3>5, <3>6

  <2>9. ASSUME Joins(m), NEW k \in Pids, <<k, q>> \notin B PROVE ~Ends(T, <<k, q>>, B)
    <3>1. q \in A
      BY <1>2, <2>9 DEF Joins
    <3>2. QED
      BY <2>9, <3>1, NotGiven DEF Copies
  <2>10. Fresh(o, D)
    <3>1. ASSUME Joins(m), NEW k \in Pids, k # l PROVE ~Ends(O, <<k, q>>, D)
      <4>1. <<k, q>> \notin B
        BY <1>1, <1>2, <3>1 DEF Due, Joins
      <4>2. QED
        BY <1>2, <2>9, <3>1, <4>1, Pairing DEF Copies, Meets
    <3>2. ASSUME m.op = "create" PROVE ~Ends(O, <<l, l>>, D)
      <4>1. <<l, l>> \notin B /\ Joins(m) /\ q = l
        BY <1>1, <1>2, <3>2 DEF Due, Joins
      <4>2. QED
        BY <1>2, <2>9, <4>1, Pairing DEF Copies, Meets
    <3>3. Fresh(O, D)
      BY DEF Copies
    <3>4. QED
      BY <1>1, <1>4, <3>1, <3>2, <3>3, FreshAppend
  <2>11. Fresh(T, E)
    <3>1. Joins(m) => \A i \in DOMAIN T : Joins(T[i]) => T[i].pid # m.pid
      BY <1>1, <1>2, <2>1 DEF Joins
    <3>2. \A i \in DOMAIN T : T[i].op = "create" => T[i].pid = T[i].leader
      BY DEF Copies, Told
    <3>3. Fresh(T, B)
      BY DEF Copies
    <3>4. QED
      BY <1>4, <2>3, <3>1, <3>2, <3>3, FreshCommutes
  <2>12. Single(T, E)
    <3>1. SUFFICES ASSUME NEW i \in DOMAIN T, Joins(T[i]) \/ T[i].op = "delete",
                          NEW k \in Pids, k # T[i].leader, Before(T, i, <<k, T[i].leader>>, E)
                   PROVE  FALSE
      BY DEF Single
    <3>2. PICK a \in Pids : a = T[i].leader
      BY <2>2, <3>1
    <3>3. ~Before(T, i, <<k, a>>, B)
      BY <3>1, <3>2 DEF Copies, Single
    <3>4. Joins(m) /\ k = l /\ a = q
      BY <2>4, <3>1, <3>2, <3>3
    <3>5. a \in A
      BY <1>2, <3>4 DEF Joins
    <3>6. T[i].op = "delete"
      BY <2>1, <3>1, <3>2, <3>5
    <3>7. Before(T, i, <<a, a>>, B)
      BY <3>2, <3>5, <3>6 DEF Copies, Closed, Away
    <3>8. <<a, a>> \notin B
      BY <1>1, <1>2, <3>1, <3>2, <3>4 DEF Due, Joins
    <3>9. QED
      BY <3>5, <3>7, <3>8, NotGiven DEF Copies
  <2>13. Meets(o, T, E, D)
    <3>1. SUFFICES ASSUME NEW x \in Couples PROVE Ends(T, x, E) <=> Ends(o, x, D)
      BY DEF Meets
    <3>2. Ends(T, x, E) <=> Gives(m, x) \/ (Ends(T, x, B) /\ ~Takes(m, x))
      BY <1>4, <2>3, Commutes
    <3>3. Ends(o, x, D) <=> Gives(m, x) \/ (Ends(O, x, D) /\ ~Takes(m, x))
      BY <1>4, BeforeAppend
    <3>4. QED
      BY <3>2, <3>3 DEF Copies, Meets
  <2>14. Closed(o, T, A, E)
    <3>1. SUFFICES ASSUME NEW i \in DOMAIN T, NEW a, a = T[i].leader, T[i].op = "delete",
                          ~Away(o, T, A, i, a)
                   PROVE  /\ \A k \in DOMAIN o : Of(o[k], a) => ~Stays(o, T, A, k, a)
                          /\ Before(T, i, <<a, a>>, E)
      BY DEF Closed
    <3>2. a \in Pids
      BY <2>2, <3>1
    <3>3. ~Away(O, T, A, i, a)
      BY <2>5, <3>1, <3>2
    <3>4. /\ \A k \in DOMAIN O : Of(O[k], a) => ~Stays(O, T, A, k, a)
          /\ Before(T, i, <<a, a>>, B)
      BY <3>1, <3>3 DEF Copies, Closed
    <3>5. a = l => l \notin A /\ Absent(T, Enter(l))
      BY <1>9, <3>1, <3>3
    <3>6. ASSUME NEW k \in DOMAIN o, Of(o[k], a) PROVE ~Stays(o, T, A, k, a)
      <4>1. CASE k \in 1 .. n
        BY <1>5, <2>5, <3>2, <3>4, <3>6, <4>1
      <4>2. CASE k = n + 1 /\ o[k] = m
        <5>1. a = l
          BY <1>1, <3>6, <4>2 DEF Of
        <5>2. QED
          BY <2>5, <3>2, <3>5, <4>2, <5>1
      <4>3. QED
        BY <1>5, <4>1, <4>2
    <3>7. ~Takes(m, <<a, a>>)
      <4>1. SUFFICES ASSUME m.op = "delete", a = l PROVE FALSE
        BY <1>1, <1>2, GiveTake
      <4>2. Ahead(T, i, Enter(l))
        BY <1>9, <3>1, <3>5, <4>1 DEF Of
      <4>3. QED
        BY <3>5, <4>1, <4>2 DEF Ahead, Absent
    <3>8. QED
      BY <2>4, <3>2, <3>4, <3>6, <3>7
  <2>15. Ousted(o, T, A, E, D)
    <3>1. SUFFICES ASSUME NEW i \in DOMAIN o, NEW a, a = o[i].leader, o[i].op = "delete",
                          ~Stays(o, T, A, i, a)
                   PROVE  /\ \A j \in DOMAIN T : ~Of(T[j], a) /\ (Joins(T[j]) => T[j].pid # a)
                          /\ \A k \in Pids : <<k, a>> \notin E
                          /\ Before(o, i, <<a, a>>, D)
      BY DEF Ousted
    <3>2. \A x : /\ \A j \in 1 .. n : Before(o, j, x, D) <=> Before(O, j, x, D)
                 /\ Before(o, n + 1, x, D) <=> Ends(O, x, D)
      <4>1. \A x : \A j \in 1 .. Len(O) + 1 : Before(Append(O, m), j, x, D) <=> Before(O, j, x, D)
        BY BeforeAppend
      <4>2. n + 1 \in 1 .. Len(O) + 1 /\ \A j \in 1 .. n : j \in 1 .. Len(O) + 1
        BY <1>3
      <4>3. QED
        BY <1>3, <1>4, <4>1, <4>2 DEF Ends
    <3>3. CASE i \in 1 .. n
      <4>1. a \in Pids /\ O[i].op = "delete" /\ O[i].leader = a /\ i \in DOMAIN O
        BY <1>5, <1>6, <3>1, <3>3, Whom
      <4>2. ~Stays(O, T, A, i, a)
        BY <2>5, <3>1, <3>3, <4>1
      <4>3. /\ \A j \in DOMAIN T : ~Of(T[j], a) /\ (Joins(T[j]) => T[j].pid # a)
            /\ \A k \in Pids : <<k, a>> \notin B
            /\ Before(O, i, <<a, a>>, D)
        BY <4>1, <4>2 DEF Copies, Ousted
      <4>4. ASSUME NEW k \in Pids, <<k, a>> \in E PROVE FALSE
        <5>1. Gives(m, <<k, a>>)
          BY <1>4, <4>1, <4>3, <4>4, StepFacts, Pairing
        <5>2. a \in A
          BY <1>1, <1>2, <5>1, GiveTake DEF Joins
        <5>3. QED
          BY <4>2, <5>2 DEF Stays, Remains
      <4>5. QED
        BY <3>2, <3>3, <4>3, <4>4
    <3>4. CASE i = n + 1 /\ o[i] = m
      <4>1. a = l /\ m.op = "delete" /\ l \notin A /\ Absent(T, Enter(l))
        BY <1>1, <1>2, <2>5, <3>1, <3>4
      <4>2. \A j \in DOMAIN T : ~Of(T[j], l) /\ (Joins(T[j]) => T[j].pid # l)
        BY <1>9, <4>1 DEF Ahead, Absent
      <4>3. ASSUME NEW k \in Pids, <<k, l>> \in E PROVE FALSE
        <5>1. <<k, l>> \in B /\ ~Takes(m, <<k, l>>)
          BY <1>2, <1>4, <4>1, <4>3, StepFacts, Pairing, GiveTake DEF Joins
        <5>2. k = l
          BY <1>2, <4>1, <5>1 DEF Copies, Unique
        <5>3. QED
          BY <1>1, <4>1, <5>1, <5>2, GiveTake
      <4>4. Ends(O, <<l, l>>, D)
        <5>1. \A j \in DOMAIN T : ~Takes(T[j], <<l, l>>)
          BY <4>2, GiveTake DEF Of
        <5>2. Ends(T, <<l, l>>, B)
          BY <1>2, <4>1, <5>1, EndsIs
        <5>3. QED
          BY <1>2, <5>2, Pairing DEF Copies, Meets
      <4>5. QED
        BY <3>2, <3>4, <4>1, <4>2, <4>3, <4>4
    <3>5. QED
      BY <1>5, <3>1, <3>3, <3>4
  <2>16. QED
    BY <1>4, <2>6, <2>7, <2>8, <2>10, <2>11, <2>12, <2>13, <2>14, <2>15 DEF Copies
<1>10. QED
  BY <1>7, <1>8, <1>9
-----------------------------------------------------------------------------
(* What a game is told of the parties of another.                              *)

Elsewhere(O, T, A, p) == p \notin A /\ Absent(O, Logout(p)) /\ Absent(T, Enter(p))

\* The db that has the couples D may pass m on to the game.
Meant(m, O, T, A, D) ==
  /\ m.leader \in Pids /\ m.pid \in Pids
  /\ m.op = "create" => /\ m.pid = m.leader
                        /\ \A k \in Pids : <<k, m.leader>> \notin D
  /\ m.op = "add" => \A k \in Pids : k # m.leader => <<k, m.pid>> \notin D
  /\ m.op # "create" => <<m.leader, m.leader>> \in D
  /\ Joins(m) => Elsewhere(O, T, A, m.leader) /\ Elsewhere(O, T, A, m.pid)
  /\ m.op = "remove" => /\ m.pid # m.leader
                        /\ Elsewhere(O, T, A, m.leader) \/ Elsewhere(O, T, A, m.pid)

\* A message that concerns a player is not followed by what the player did before.
LEMMA Nearer ==
  ASSUME NEW O \in Seq(ToDb), NEW T, NEW A, NEW p, NEW i \in DOMAIN O, NEW j \in DOMAIN O, j <= i
  PROVE  /\ Remains(O, A, i, p) => Remains(O, A, j, p)
         /\ Stays(O, T, A, i, p) => Stays(O, T, A, j, p)
<1>1. DOMAIN O \subseteq Nat
  OBVIOUS
<1>2. QED
  BY <1>1 DEF Remains, Stays, Behind

\* l's game is about to be told that the party ended, and has said something of it:
\* the db will not know the party.
LEMMA Refuted ==
  ASSUME NEW O \in Seq(ToDb), NEW T \in Seq(ToGames), NEW A, NEW D \in SUBSET Couples,
         Fresh(O, D), NEW m \in ToGames, NEW l \in Pids, <<l, l>> \in D,
         \A j \in DOMAIN O : O[j].op = "remove" => O[j].pid # O[j].leader,
         NEW i \in DOMAIN O, Of(O[i], l), Stays(O, T, A, i, l)
  PROVE  DoomedOut(O, Append(T, m), A, l)
<1>1. PICK S : S = {j \in DOMAIN O : Of(O[j], l)}
  OBVIOUS
<1>2. Len(O) \in Nat /\ DOMAIN O = 1 .. Len(O) /\ i \in S
  BY <1>1, Appended
<1>3. PICK j \in S : \A k \in S : j <= k
  <2>1. S \in SUBSET Nat /\ S # {}
    BY <1>1, <1>2
  <2>2. QED
    BY <2>1, LeastNat
<1>4. j \in DOMAIN O /\ Of(O[j], l) /\ j <= i
  BY <1>1, <1>2, <1>3
<1>5. \A k \in 1 .. j - 1 : ~Of(O[k], l)
  <2>1. \A k \in 1 .. j - 1 : k \in DOMAIN O /\ k \notin S
    BY <1>2, <1>3, <1>4
  <2>2. QED
    BY <1>1, <2>1
<1>6. O[j].op # "create"
  <2>1. \A k \in 1 .. j - 1 : ~Takes(O[k], <<l, l>>)
    BY <1>5, GiveTake DEF Of
  <2>2. Before(O, j, <<l, l>>, D)
    BY <2>1, BeforeBase
  <2>3. QED
    BY <1>4, <2>2 DEF Fresh, Of
<1>7. Stays(O, Append(T, m), A, j, l)
  <2>1. Stays(O, T, A, j, l)
    BY <1>2, <1>4, Nearer
  <2>2. ~Absent(T, Enter(l)) => ~Absent(Append(T, m), Enter(l))
    BY PlacesAppend
  <2>3. QED
    BY <2>1, <2>2 DEF Stays
<1>8. QED
  BY <1>4, <1>5, <1>6, <1>7 DEF DoomedOut

LEMMA Heard ==
  ASSUME NEW O \in Seq(ToDb), NEW T \in Seq(ToGames), NEW A,
         NEW B \in SUBSET Couples, NEW D \in SUBSET Couples, Unique(D),
         NEW m \in ToGames, ~Neutral(m), Meant(m, O, T, A, D), Copies(O, T, A, B, D)
  PROVE  LET l == m.leader IN
         \/ Copies(O, Append(T, m), A, B, Step(D, m))
         \/ m.op = "delete" /\ DoomedOut(O, Append(T, m), A, l)
         \/ O # << >> /\ DoomedIn(Append(T, m), A, l) /\ \A k \in Pids : <<k, l>> \notin B
<1>1. PICK l, q : l = m.leader /\ q = m.pid
  OBVIOUS
<1>2. /\ l \in Pids /\ q \in Pids
      /\ m.op \in {"create", "add", "remove", "delete"} /\ Of(m, l)
      /\ m.op = "create" => q = l /\ \A k \in Pids : <<k, l>> \notin D
      /\ m.op = "add" => \A k \in Pids : k # l => <<k, q>> \notin D
      /\ m.op # "create" => <<l, l>> \in D
      /\ Joins(m) => Elsewhere(O, T, A, l) /\ Elsewhere(O, T, A, q)
      /\ m.op = "remove" => q # l /\ (Elsewhere(O, T, A, l) \/ Elsewhere(O, T, A, q))
  BY <1>1 DEF Meant, Neutral, Of
<1>3. PICK n \in Nat : n = Len(T)
  BY Appended
<1>4. PICK t, E : t = Append(T, m) /\ E = Step(D, m)
  OBVIOUS
<1>5. /\ DOMAIN T = 1 .. n /\ DOMAIN t = 1 .. n + 1 /\ t[n + 1] = m /\ t \in Seq(ToGames)
      /\ \A i \in 1 .. n : t[i] = T[i]
      /\ \A i \in DOMAIN t : (i \in 1 .. n /\ i \in DOMAIN T) \/ (i = n + 1 /\ t[i] = m)
  BY <1>3, <1>4, Appended
<1>6. /\ \A i \in DOMAIN O : O[i] \in ToDb \cup ToGames
      /\ \A i \in DOMAIN T : T[i] \in ToDb \cup ToGames
      /\ E \in SUBSET Couples
  BY <1>4, StepFacts
<1>7. CASE m.op = "delete" /\ \E k \in DOMAIN O : Of(O[k], l) /\ Stays(O, T, A, k, l)
  <2>1. \A j \in DOMAIN O : O[j].op = "remove" => O[j].pid # O[j].leader
    BY DEF Copies, Said
  <2>2. DoomedOut(O, Append(T, m), A, l)
    BY <1>2, <1>7, <2>1, Refuted DEF Copies
  <2>3. QED
    BY <1>1, <1>7, <2>2
<1>8. CASE /\ m.op # "create"
           /\ \E k \in DOMAIN O : /\ O[k].op = "delete" /\ O[k].leader = l
                                  /\ ~Stays(O, T, A, k, l)
  <2>1. PICK k \in DOMAIN O : /\ O[k].op = "delete" /\ O[k].leader = l
                              /\ ~Stays(O, T, A, k, l)
    BY <1>8
  <2>2. /\ \A j \in DOMAIN T : ~Of(T[j], l) /\ (Joins(T[j]) => T[j].pid # l)
        /\ \A a \in Pids : <<a, l>> \notin B
    BY <2>1 DEF Copies, Ousted
  <2>3. l \notin A /\ \A j \in DOMAIN T : T[j] # Enter(l)
    BY <2>1 DEF Stays, Remains, Absent
  <2>4. \A j \in 1 .. n + 1 - 1 : j \in DOMAIN T /\ t[j] = T[j]
    BY <1>5
  <2>5. n + 1 \in DOMAIN t
    BY <1>5
  <2>6. DoomedIn(t, A, l)
    <3>1. \A j \in 1 .. n + 1 - 1 : /\ ~Of(t[j], l) /\ t[j] # Enter(l)
                                    /\ Joins(t[j]) => t[j].pid # l
      BY <2>2, <2>3, <2>4
    <3>2. Of(t[n + 1], l) /\ t[n + 1].op # "create"
      BY <1>2, <1>5, <1>8
    <3>3. QED
      BY <2>3, <2>5, <3>1, <3>2 DEF DoomedIn
  <2>7. O # << >>
    BY <2>1
  <2>8. QED
    BY <1>1, <1>4, <2>2, <2>6, <2>7

<1>9. CASE /\ m.op = "delete" => \A k \in DOMAIN O : Of(O[k], l) => ~Stays(O, T, A, k, l)
           /\ m.op # "create" => \A k \in DOMAIN O : O[k].op = "delete" /\ O[k].leader = l =>
                                                       Stays(O, T, A, k, l)
  <2>1. \A i \in DOMAIN O : Joins(O[i]) => Remains(O, A, i, O[i].leader) /\ Remains(O, A, i, O[i].pid)
    BY DEF Copies, Said
  <2>2. \A p : Elsewhere(O, T, A, p) => \A i : ~Stays(O, T, A, i, p) /\ ~Remains(O, A, i, p)
    BY DEF Elsewhere, Stays, Remains, Behind, Absent
  <2>3. ASSUME NEW a, NEW p, Elsewhere(O, T, A, a) \/ Elsewhere(O, T, A, p), <<a, p>> \notin D
        PROVE  /\ \A i \in DOMAIN O : ~Before(O, i, <<a, p>>, D)
               /\ ~Ends(O, <<a, p>>, D)
    <3>1. ASSUME NEW i \in DOMAIN O PROVE ~Gives(O[i], <<a, p>>)
      BY <2>1, <2>2, <2>3, GiveTake
    <3>2. \A i \in DOMAIN O : \A k \in 1 .. i - 1 : k \in DOMAIN O
      OBVIOUS
    <3>3. QED
      BY <2>3, <3>1, <3>2, EndsIs DEF Before
  <2>4. Joins(m) => \A i \in DOMAIN O : ~(O[i].op = "delete" /\ O[i].leader = l)
    <3>1. SUFFICES ASSUME Joins(m), NEW i \in DOMAIN O, O[i].op = "delete", O[i].leader = l
                   PROVE  FALSE
      OBVIOUS
    <3>2. Elsewhere(O, T, A, l) /\ ~Stays(O, T, A, i, l)
      BY <1>2, <2>2, <3>1
    <3>3. m.op = "create"
      BY <1>9, <3>1, <3>2
    <3>4. Before(O, i, <<l, l>>, D)
      BY <3>1, <3>2 DEF Copies, Ousted
    <3>5. QED
      BY <1>2, <2>3, <3>2, <3>3, <3>4
  <2>5. Fits(O, m)
    <3>1. SUFFICES ASSUME NEW i \in DOMAIN O, NEW k \in Pids, NEW p \in Pids
                   PROVE  /\ Gives(m, <<k, p>>) => ~Takes(O[i], <<k, p>>)
                          /\ Takes(m, <<k, p>>) => ~Gives(O[i], <<k, p>>)
      BY DEF Fits, Couples
    <3>2. ASSUME Gives(m, <<k, p>>), Takes(O[i], <<k, p>>) PROVE FALSE
      <4>1. Joins(m) /\ k = l /\ p = q /\ Elsewhere(O, T, A, l) /\ Elsewhere(O, T, A, q)
        BY <1>1, <1>2, <3>2, GiveTake
      <4>2. CASE O[i].op = "remove" /\ O[i].leader = l /\ O[i].pid = q
        BY <2>2, <4>1, <4>2 DEF Copies, Said
      <4>3. CASE O[i].op = "delete" /\ O[i].leader = l
        BY <2>4, <4>1, <4>3
      <4>4. QED
        BY <3>2, <4>1, <4>2, <4>3, GiveTake
    <3>3. ASSUME Takes(m, <<k, p>>), Gives(O[i], <<k, p>>) PROVE FALSE
      <4>1. Joins(O[i]) /\ O[i].leader = k /\ O[i].pid = p
        BY <3>3, GiveTake
      <4>2. k = l /\ Remains(O, A, i, l) /\ Remains(O, A, i, p) /\ Of(O[i], l)
        BY <1>1, <2>1, <3>3, <4>1, GiveTake DEF Of, Joins
      <4>3. m.op = "remove" => p = q
        BY <1>1, <3>3, GiveTake
      <4>4. m.op \in {"remove", "delete"}
        BY <3>3, GiveTake
      <4>5. QED
        BY <1>2, <1>9, <2>2, <4>2, <4>3, <4>4 DEF Stays
    <3>4. QED
      BY <3>2, <3>3
  <2>6. ASSUME NEW p \in Pids
        PROVE  /\ \A k : Stays(O, t, A, k, p) <=> Stays(O, T, A, k, p)
               /\ \A i \in 1 .. n : Away(O, t, A, i, p) <=> Away(O, T, A, i, p)
               /\ Away(O, t, A, n + 1, p) <=> Elsewhere(O, T, A, p)
    <3>1. /\ \A i \in 1 .. Len(T) + 1 : Ahead(Append(T, m), i, Enter(p)) <=> Ahead(T, i, Enter(p))
          /\ Ahead(T, Len(T) + 1, Enter(p)) <=> ~Absent(T, Enter(p))
          /\ Absent(Append(T, m), Enter(p)) <=> Absent(T, Enter(p)) /\ m # Enter(p)
      BY PlacesAppend
    <3>2. m # Enter(p)
      BY Whom
    <3>3. n + 1 \in 1 .. Len(T) + 1 /\ \A i \in 1 .. n : i \in 1 .. Len(T) + 1
      BY <1>3
    <3>4. /\ \A i \in 1 .. n : Ahead(t, i, Enter(p)) <=> Ahead(T, i, Enter(p))
          /\ Ahead(t, n + 1, Enter(p)) <=> ~Absent(T, Enter(p))
          /\ Absent(t, Enter(p)) <=> Absent(T, Enter(p))
      BY <1>3, <1>4, <3>1, <3>2, <3>3
    <3>5. QED
      BY <3>4 DEF Stays, Away, Elsewhere
  <2>7. \A x : /\ \A j \in 1 .. n : Before(t, j, x, B) <=> Before(T, j, x, B)
               /\ Before(t, n + 1, x, B) <=> Ends(T, x, B)
    <3>1. \A x : \A j \in 1 .. Len(T) + 1 : Before(Append(T, m), j, x, B) <=> Before(T, j, x, B)
      BY BeforeAppend
    <3>2. n + 1 \in 1 .. Len(T) + 1 /\ \A j \in 1 .. n : j \in 1 .. Len(T) + 1
      BY <1>3
    <3>3. QED
      BY <1>3, <1>4, <3>1, <3>2 DEF Ends
  <2>8. Told(O, t, A)
    <3>1. SUFFICES ASSUME NEW i \in DOMAIN t
                   PROVE  LET x == t[i] IN
                            /\ Joins(x) => Away(O, t, A, i, x.leader) /\ Away(O, t, A, i, x.pid)
                            /\ x.op = "create" => x.pid = x.leader
                            /\ x.op = "remove" => /\ x.pid # x.leader
                                                  /\ \/ Away(O, t, A, i, x.leader)
                                                     \/ Away(O, t, A, i, x.pid)
      BY DEF Told
    <3>2. CASE i = n + 1 /\ t[i] = m
      BY <1>1, <1>2, <2>6, <3>2
    <3>3. CASE i \in 1 .. n /\ i \in DOMAIN T
      <4>1. Joins(T[i]) \/ T[i].op = "remove" => T[i].leader \in Pids /\ T[i].pid \in Pids
        BY <1>6, <3>3, Whom
      <4>2. QED
        BY <1>5, <2>6, <3>3, <4>1 DEF Copies, Told
    <3>4. QED
      BY <1>5, <3>2, <3>3
  <2>9. Fresh(O, E)
    <3>1. Joins(m) => \A i \in DOMAIN O : Joins(O[i]) => O[i].pid # m.pid
      BY <1>1, <1>2, <2>1, <2>2
    <3>2. \A i \in DOMAIN O : O[i].op = "create" => O[i].pid = O[i].leader
      BY DEF Copies, Said
    <3>3. Fresh(O, D)
      BY DEF Copies
    <3>4. QED
      BY <1>4, <2>5, <3>1, <3>2, <3>3, FreshCommutes
  <2>10. Fresh(t, B)
    <3>1. ASSUME Joins(m), NEW k \in Pids, k # l PROVE ~Ends(T, <<k, q>>, B)
      <4>1. <<k, q>> \notin D /\ Elsewhere(O, T, A, q)
        BY <1>2, <3>1 DEF Joins
      <4>2. QED
        BY <1>2, <2>3, <4>1, Pairing DEF Copies, Meets
    <3>2. ASSUME m.op = "create" PROVE ~Ends(T, <<l, l>>, B)
      <4>1. <<l, l>> \notin D /\ Elsewhere(O, T, A, l)
        BY <1>2, <3>2 DEF Joins
      <4>2. QED
        BY <1>2, <2>3, <4>1, Pairing DEF Copies, Meets
    <3>3. Fresh(T, B)
      BY DEF Copies
    <3>4. QED
      BY <1>1, <1>4, <3>1, <3>2, <3>3, FreshAppend
  <2>11. Single(t, B)
    <3>1. ASSUME Joins(m) \/ m.op = "delete", NEW k \in Pids, k # l, Ends(T, <<k, l>>, B)
          PROVE  FALSE
      <4>1. Ends(O, <<k, l>>, D)
        BY <1>2, <3>1, Pairing DEF Copies, Meets
      <4>2. <<k, l>> \notin D
        BY <1>2, <3>1 DEF Unique
      <4>3. ~Joins(m)
        BY <1>2, <2>3, <4>1, <4>2
      <4>4. PICK i \in DOMAIN O : Joins(O[i]) /\ O[i].leader = k /\ O[i].pid = l
        BY <4>1, <4>2, EndsIs, GiveTake
      <4>5. ~Before(O, i, <<l, l>>, D)
        BY <1>2, <3>1, <4>4 DEF Copies, Fresh
      <4>6. PICK j \in 1 .. i - 1 : Takes(O[j], <<l, l>>)
        BY <1>2, <3>1, <4>3, <4>5, BeforeBase DEF Joins
      <4>7. j \in DOMAIN O /\ j <= i
        OBVIOUS
      <4>8. O[j].op = "delete" /\ O[j].leader = l
        BY <4>6, <4>7, GiveTake DEF Copies, Said
      <4>9. ~Stays(O, T, A, j, l)
        BY <1>9, <3>1, <4>3, <4>7, <4>8 DEF Of
      <4>10. Remains(O, A, j, l)
        BY <2>1, <4>4, <4>7, Nearer
      <4>11. QED
        BY <4>9, <4>10 DEF Stays
    <3>2. Single(T, B)
      BY DEF Copies
    <3>3. QED
      BY <1>1, <1>4, <3>1, <3>2, FreshAppend
  <2>12. Meets(O, t, B, E)
    <3>1. SUFFICES ASSUME NEW x \in Couples PROVE Ends(t, x, B) <=> Ends(O, x, E)
      BY DEF Meets
    <3>2. Ends(O, x, E) <=> Gives(m, x) \/ (Ends(O, x, D) /\ ~Takes(m, x))
      BY <1>4, <2>5, Commutes
    <3>3. Ends(t, x, B) <=> Gives(m, x) \/ (Ends(T, x, B) /\ ~Takes(m, x))
      BY <1>4, BeforeAppend
    <3>4. QED
      BY <3>2, <3>3 DEF Copies, Meets
  <2>13. Closed(O, t, A, B)
    <3>1. SUFFICES ASSUME NEW i \in DOMAIN t, NEW a, a = t[i].leader, t[i].op = "delete",
                          ~Away(O, t, A, i, a)
                   PROVE  /\ \A k \in DOMAIN O : Of(O[k], a) => ~Stays(O, t, A, k, a)
                          /\ Before(t, i, <<a, a>>, B)
      BY DEF Closed
    <3>2. CASE i \in 1 .. n /\ i \in DOMAIN T
      <4>1. a \in Pids /\ T[i].op = "delete" /\ T[i].leader = a
        BY <1>5, <1>6, <3>1, <3>2, Whom
      <4>2. ~Away(O, T, A, i, a)
        BY <2>6, <3>1, <3>2, <4>1
      <4>3. /\ \A k \in DOMAIN O : Of(O[k], a) => ~Stays(O, T, A, k, a)
            /\ Before(T, i, <<a, a>>, B)
        BY <3>2, <4>1, <4>2 DEF Copies, Closed
      <4>4. QED
        BY <2>6, <2>7, <3>2, <4>1, <4>3
    <3>3. CASE i = n + 1 /\ t[i] = m
      <4>1. a = l /\ m.op = "delete"
        BY <1>1, <3>1, <3>3
      <4>2. \A k \in DOMAIN O : Of(O[k], l) => ~Stays(O, T, A, k, l)
        BY <1>9, <4>1
      <4>3. \A k \in DOMAIN O : ~(O[k].op = "delete" /\ O[k].leader = l)
        BY <1>9, <4>1, <4>2 DEF Of
      <4>4. \A k \in DOMAIN O : ~Takes(O[k], <<l, l>>)
        BY <4>3, GiveTake DEF Copies, Said
      <4>5. Ends(O, <<l, l>>, D)
        BY <1>2, <4>1, <4>4, EndsIs
      <4>6. Ends(T, <<l, l>>, B)
        BY <1>2, <4>5, Pairing DEF Copies, Meets
      <4>7. QED
        BY <1>2, <2>6, <2>7, <3>3, <4>1, <4>2, <4>6
    <3>4. QED
      BY <1>5, <3>1, <3>2, <3>3
  <2>14. Ousted(O, t, A, B, E)
    <3>1. SUFFICES ASSUME NEW i \in DOMAIN O, NEW a, a = O[i].leader, O[i].op = "delete",
                          ~Stays(O, t, A, i, a)
                   PROVE  /\ \A j \in DOMAIN t : ~Of(t[j], a) /\ (Joins(t[j]) => t[j].pid # a)
                          /\ \A k \in Pids : <<k, a>> \notin B
                          /\ Before(O, i, <<a, a>>, E)
      BY DEF Ousted
    <3>2. a \in Pids
      BY <1>6, <3>1, Whom
    <3>3. ~Stays(O, T, A, i, a)
      BY <2>6, <3>1, <3>2
    <3>4. /\ \A j \in DOMAIN T : ~Of(T[j], a) /\ (Joins(T[j]) => T[j].pid # a)
          /\ \A k \in Pids : <<k, a>> \notin B
          /\ Before(O, i, <<a, a>>, D)
      BY <3>1, <3>3 DEF Copies, Ousted
    <3>5. a # l
      BY <1>9, <2>4, <3>1, <3>3 DEF Joins
    <3>6. ~Of(m, a)
      BY <1>1, <3>5 DEF Of
    <3>7. ASSUME Joins(m), q = a PROVE FALSE
      <4>1. m.op = "add" /\ <<a, a>> \notin D /\ Elsewhere(O, T, A, a)
        BY <1>2, <3>2, <3>5, <3>7 DEF Joins
      <4>2. QED
        BY <2>3, <3>1, <3>4, <4>1
    <3>8. ~Takes(m, <<a, a>>)
      BY <1>1, <3>5, GiveTake
    <3>9. Before(O, i, <<a, a>>, E)
      <4>1. i \in 1 .. Len(O) + 1
        OBVIOUS
      <4>2. QED
        BY <1>4, <2>5, <3>2, <3>4, <3>8, <4>1, Commutes, Pairing
    <3>10. QED
      BY <1>1, <1>5, <3>4, <3>6, <3>7, <3>9
  <2>15. QED
    BY <1>4, <2>8, <2>9, <2>10, <2>11, <2>12, <2>13, <2>14 DEF Copies
<1>10. QED
  BY <1>7, <1>8, <1>9

\* The db answers SETUP: nothing is under way, and the game is told all.
LEMMA Starts ==
  ASSUME NEW B, Unique(B)
  PROVE  Copies(<< >>, << >>, {}, B, B)
<1>1. DOMAIN << >> = {} /\ << >> \in Seq(ToDb)
  OBVIOUS
<1>2. Meets(<< >>, << >>, B, B)
  BY DEF Meets
<1>3. QED
  BY <1>1, <1>2 DEF Copies, Said, Told, Fresh, Single, Closed, Ousted

\* P2PJoin before SetPartyMember: p is a member of the party id.
Leading(h, id, p) == IF h.obj[id].members = {} THEN p ELSE h.obj[id].leader
Entered(h, id, p) ==
  Heap([h.obj EXCEPT ![id] = Object(Leading(h, id, p), h.obj[id].members \cup {p}, h.obj[id].chars)],
       h.map, h.link, h.out, h.odd)

LEMMA EnteredKeeps ==
  ASSUME NEW h, NEW id \in Ids, NEW p \in Pids, Good(h)
  PROVE  LET j == Entered(h, id, p)
             l == Leading(h, id, p)
         IN /\ Good(j) /\ l \in Pids /\ (l = p \/ l \in h.obj[id].members)
            /\ j.obj[id].leader = l /\ j.obj[id].members = h.obj[id].members \cup {p}
            /\ \A i \in Ids : i # id => j.obj[i] = h.obj[i]
            /\ j.map = h.map /\ j.link = h.link /\ j.out = h.out /\ j.odd = h.odd
            /\ P2PJoin(h, id, p) = IF p \in h.obj[id].members THEN h ELSE SetPartyMember(j, p, id)
<1>1. PICK x : x = h.obj[id]
  OBVIOUS
<1>2. /\ h.map \in [Pids -> Ids \cup {NoId}] /\ h.obj \in [Ids -> Objects]
      /\ h.link \in [Pids -> Ids \cup {NoId}]
  BY DEF Good, Typed
<1>3. x \in Objects /\ x.leader \in Pids \cup {NoOne} /\ x.members \subseteq Pids /\ x.chars \subseteq Pids
  BY <1>1, <1>2, ObjectFields
<1>4. PICK l : l = Leading(h, id, p)
  OBVIOUS
<1>5. PICK y : y = Object(l, x.members \cup {p}, x.chars)
  OBVIOUS
<1>6. l \in Pids /\ (l = p \/ l \in x.members)
  <2>1. l = IF x.members = {} THEN p ELSE x.leader
    BY <1>1, <1>4 DEF Leading
  <2>2. CASE x.members = {}
    BY <2>1, <2>2
  <2>3. CASE x.members # {}
    BY <1>1, <1>3, <2>1, <2>3 DEF Good, Led
  <2>4. QED
    BY <2>2, <2>3
<1>7. /\ y \in Objects /\ y.leader = l /\ y.members = x.members \cup {p}
      /\ y.chars = x.chars
  BY <1>3, <1>5, <1>6, ObjectFields
<1>8. PICK o : o = [h.obj EXCEPT ![id] = y]
  OBVIOUS
<1>9. PICK j : j = Heap(o, h.map, h.link, h.out, h.odd)
  OBVIOUS
<1>10. /\ j.obj = o /\ j.map = h.map /\ j.link = h.link
       /\ j.out = h.out /\ j.odd = h.odd
  BY <1>9, HeapFields
<1>11. /\ o \in [Ids -> Objects] /\ o[id] = y
       /\ \A i \in Ids : i # id => o[i] = h.obj[i]
  BY <1>2, <1>7, <1>8
<1>12. Typed(j)
  BY <1>9, <1>10, <1>11 DEF Good, Typed
<1>13. MapLeads(j) /\ LinksMeet(j)
  <2>1. MapLeads(h) /\ LinksMeet(h)
    BY DEF Good
  <2>2. QED
    BY <1>1, <1>2, <1>7, <1>10, <1>11, <2>1 DEF MapLeads, LinksMeet
<1>14. CharsIn(j) /\ \A i \in Ids : Led(j, i)
  BY <1>1, <1>6, <1>7, <1>10, <1>11 DEF Good, CharsIn, Led
<1>15. Good(j)
  BY <1>12, <1>13, <1>14 DEF Good
<1>16. j = Entered(h, id, p)
  BY <1>1, <1>4, <1>5, <1>8, <1>9 DEF Entered
<1>17. P2PJoin(h, id, p) = IF p \in h.obj[id].members THEN h ELSE SetPartyMember(j, p, id)
  BY <1>16 DEF P2PJoin, Entered, Leading
<1>18. QED
  BY <1>1, <1>4, <1>6, <1>7, <1>10, <1>11, <1>15, <1>16, <1>17
-----------------------------------------------------------------------------
(* What any change of a heap leaves of its messages, and of a player l whom    *)
(* the parties of the game do not know.                                        *)

SetupMsg == Msg("setup", NoOne, NoOne)

Prefix(s, t)    == \A i \in DOMAIN s : i \in DOMAIN t /\ t[i] = s[i]
Uncreated(s, l) == \A i \in DOMAIN s : ~(s[i].op = "create" /\ s[i].leader = l)
Stranger(h, l)  == /\ h.map[l] = NoId
                   /\ \A id \in Ids : h.obj[id].leader # l /\ l \notin h.obj[id].members

Rough(k, h, l) == /\ Prefix(h.out, k.out)
                  /\ Uncreated(h.out, l) => Uncreated(k.out, l)
                  /\ Absent(h.out, SetupMsg) => Absent(k.out, SetupMsg)
                  /\ h.odd => k.odd
Unmet(k, h, l) == Stranger(h, l) => Stranger(k, l)

LEMMA RoughSame ==
  ASSUME NEW h, NEW k, NEW l, k.out = h.out, h.odd => k.odd
  PROVE  Rough(k, h, l)
  BY DEF Rough, Prefix, Uncreated, Absent

LEMMA RoughTrans ==
  ASSUME NEW h, NEW k, NEW j, NEW l, Rough(k, h, l), Rough(j, k, l)
  PROVE  Rough(j, h, l)
<1>1. Prefix(h.out, j.out)
  BY DEF Rough, Prefix
<1>2. QED
  BY <1>1 DEF Rough

LEMMA UnmetTrans ==
  ASSUME NEW h, NEW k, NEW j, NEW l, Unmet(k, h, l), Unmet(j, k, l)
  PROVE  Unmet(j, h, l)
  BY DEF Unmet

LEMMA SayRough ==
  ASSUME NEW h, Typed(h), NEW m \in ToDb, m # SetupMsg, NEW l \in Pids,
         m.op = "create" => m.leader # l
  PROVE  Rough(Say(h, m), h, l) /\ Unmet(Say(h, m), h, l)
<1>1. PICK k : k = Say(h, m)
  OBVIOUS
<1>2. k.obj = h.obj /\ k.map = h.map /\ k.out = Append(h.out, m) /\ k.odd = h.odd
  BY <1>1, SayFields, HeapFields DEF Say
<1>3. PICK s : s = h.out
  OBVIOUS
<1>4. s \in Seq(ToDb)
  BY <1>3 DEF Typed
<1>5. /\ Len(s) \in Nat /\ DOMAIN s = 1 .. Len(s) /\ DOMAIN k.out = 1 .. Len(s) + 1
      /\ \A i \in 1 .. Len(s) : k.out[i] = s[i]
      /\ k.out[Len(s) + 1] = m
  BY <1>2, <1>3, <1>4, Appended
<1>6. Prefix(s, k.out)
  BY <1>5 DEF Prefix
<1>7. Uncreated(s, l) => Uncreated(k.out, l)
  BY <1>5 DEF Uncreated
<1>8. Absent(s, SetupMsg) => Absent(k.out, SetupMsg)
  BY <1>5 DEF Absent
<1>9. Unmet(k, h, l)
  BY <1>2 DEF Unmet, Stranger
<1>10. QED
  BY <1>1, <1>2, <1>3, <1>6, <1>7, <1>8, <1>9 DEF Rough

LEMMA PartySayRough ==
  ASSUME NEW h, Typed(h), NEW o \in PartyOps, NEW a \in Pids, NEW b \in Pids,
         NEW l \in Pids, o = "create" => a # l
  PROVE  Rough(Say(h, Msg(o, a, b)), h, l) /\ Unmet(Say(h, Msg(o, a, b)), h, l)
<1>1. PICK m : m = Msg(o, a, b)
  OBVIOUS
<1>2. m \in ToDb /\ m # SetupMsg /\ (m.op = "create" => m.leader # l)
  BY <1>1, MsgKinds DEF Msg, SetupMsg, PartyOps
<1>3. QED
  BY <1>1, <1>2, SayRough

LEMMA OddRough ==
  ASSUME NEW h, NEW l
  PROVE  Rough(Odd(h), h, l) /\ Unmet(Odd(h), h, l)
<1>1. Odd(h).obj = h.obj /\ Odd(h).map = h.map /\ Odd(h).out = h.out
  BY DEF Odd, Heap
<1>2. Odd(h).odd
  BY DEF Odd, Heap
<1>3. Rough(Odd(h), h, l)
  BY <1>1, <1>2, RoughSame
<1>4. QED
  BY <1>1, <1>3 DEF Unmet, Stranger

LEMMA DestroyRough ==
  ASSUME NEW h, NEW id \in Ids, NEW l \in Pids, Typed(h)
  PROVE  Rough(Destroy(h, id), h, l) /\ Unmet(Destroy(h, id), h, l)
<1>1. PICK k : k = Destroy(h, id)
  OBVIOUS
<1>2. /\ k.obj = [h.obj EXCEPT ![id] = Dead]
      /\ k.map = [p \in Pids |-> IF p \in h.obj[id].members THEN NoId ELSE h.map[p]]
      /\ k.out = h.out /\ k.odd = h.odd
  BY <1>1, HeapFields DEF Destroy
<1>3. /\ \A i \in Ids : k.obj[i] = IF i = id THEN Dead ELSE h.obj[i]
      /\ k.map[l] \in {h.map[l], NoId}
  BY <1>2 DEF Typed
<1>4. Dead.leader = NoOne /\ Dead.members = {}
  BY DEF Dead
<1>5. Unmet(k, h, l)
  BY <1>3, <1>4 DEF Unmet, Stranger
<1>6. QED
  BY <1>1, <1>2, <1>5, RoughSame

LEMMA WithoutRough ==
  ASSUME NEW h, NEW id \in Ids, NEW p \in Pids, NEW l \in Pids, Typed(h)
  PROVE  Rough(Without(h, id, p), h, l) /\ Unmet(Without(h, id, p), h, l)
<1>1. PICK k : k = Without(h, id, p)
  OBVIOUS
<1>2. PICK x : x = h.obj[id]
  OBVIOUS
<1>3. x \in Objects /\ x.leader \in Pids \cup {NoOne} /\ x.members \subseteq Pids /\ x.chars \subseteq Pids
  BY <1>2, ObjectFields DEF Typed
<1>4. PICK y : y = Object(x.leader, x.members \ {p}, x.chars \ {p})
  OBVIOUS
<1>5. y.leader = x.leader /\ y.members = x.members \ {p}
  BY <1>3, <1>4, ObjectFields
<1>6. k.obj = [h.obj EXCEPT ![id] = y] /\ k.map = [h.map EXCEPT ![p] = NoId]
      /\ k.out = h.out /\ k.odd = h.odd
  BY <1>1, <1>2, <1>4, HeapFields DEF Without
<1>7. /\ \A i \in Ids : k.obj[i] = IF i = id THEN y ELSE h.obj[i]
      /\ k.map[l] \in {h.map[l], NoId}
  BY <1>6 DEF Typed
<1>8. Unmet(k, h, l)
  BY <1>2, <1>5, <1>7 DEF Unmet, Stranger
<1>9. QED
  BY <1>1, <1>6, <1>8, RoughSame

LEMMA DeletePartyRough ==
  ASSUME NEW h, NEW id \in Ids, NEW l \in Pids, Typed(h), h.obj[id].leader \in Pids
  PROVE  Rough(DeleteParty(h, id), h, l) /\ Unmet(DeleteParty(h, id), h, l)
<1>1. PICK m : m = Msg("delete", h.obj[id].leader, h.obj[id].leader)
  OBVIOUS
<1>2. PICK k : k = Say(h, m)
  OBVIOUS
<1>3. Rough(k, h, l) /\ Unmet(k, h, l)
  BY <1>1, <1>2, PartySayRough DEF PartyOps
<1>4. Typed(k)
  BY <1>1, <1>2, MsgKinds, SayFields DEF PartyOps
<1>5. Rough(Destroy(k, id), k, l) /\ Unmet(Destroy(k, id), k, l)
  BY <1>4, DestroyRough
<1>6. DeleteParty(h, id) = Destroy(k, id)
  BY <1>1, <1>2 DEF DeleteParty
<1>7. QED
  BY <1>3, <1>5, <1>6, RoughTrans, UnmetTrans

LEMMA P2PQuitRough ==
  ASSUME NEW h, NEW id \in Ids, NEW p \in Pids, NEW l \in Pids, Good(h)
  PROVE  Rough(P2PQuit(h, id, p), h, l) /\ Unmet(P2PQuit(h, id, p), h, l)
<1>1. CASE p \notin h.obj[id].members
  <2>1. P2PQuit(h, id, p) = h
    BY <1>1 DEF P2PQuit
  <2>2. QED
    BY <2>1, RoughSame DEF Unmet
<1>2. CASE p \in h.obj[id].members
  <2>1. PICK k : k = Without(h, id, p)
    OBVIOUS
  <2>2. Rough(k, h, l) /\ Unmet(k, h, l)
    BY <2>1, WithoutRough DEF Good
  <2>3. Nearly(k, id) /\ k.obj[id].leader = h.obj[id].leader /\ h.obj[id].leader \in Pids
    BY <1>2, <2>1, WithoutKeeps, LeaderIn
  <2>4. Rough(DeleteParty(k, id), k, l) /\ Unmet(DeleteParty(k, id), k, l)
    BY <2>3, DeletePartyRough DEF Nearly
  <2>5. P2PQuit(h, id, p) = IF p = h.obj[id].leader THEN DeleteParty(k, id) ELSE k
    BY <1>2, <2>1 DEF P2PQuit
  <2>6. QED
    BY <2>2, <2>4, <2>5, RoughTrans, UnmetTrans
<1>3. QED
  BY <1>1, <1>2

LEMMA QuitRough ==
  ASSUME NEW h, NEW id \in Ids, NEW p \in Pids, NEW l \in Pids, Good(h), h.obj[id].leader \in Pids
  PROVE  Rough(Quit(h, id, p), h, l) /\ Unmet(Quit(h, id, p), h, l)
<1>1. PICK k : k = P2PQuit(h, id, p)
  OBVIOUS
<1>2. Rough(k, h, l) /\ Unmet(k, h, l)
  BY <1>1, P2PQuitRough
<1>3. Typed(k)
  BY <1>1, P2PQuitKeeps DEF After, Good
<1>4. PICK j : j = Say(k, Msg("remove", h.obj[id].leader, p))
  OBVIOUS
<1>5. Rough(j, k, l) /\ Unmet(j, k, l)
  BY <1>3, <1>4, PartySayRough DEF PartyOps
<1>6. Quit(h, id, p) = IF p = h.obj[id].leader THEN k ELSE j
  BY <1>1, <1>4 DEF Quit
<1>7. QED
  BY <1>2, <1>5, <1>6, RoughTrans, UnmetTrans

LEMMA SetPartyMemberRough ==
  ASSUME NEW h, NEW id \in Ids, NEW p \in Pids, NEW l \in Pids, Good(h)
  PROVE  LET k == SetPartyMember(h, p, id) IN Rough(k, h, l) /\ (p # l => Unmet(k, h, l))
<1>1. h.map \in [Pids -> Ids \cup {NoId}] /\ MapLeads(h)
  BY DEF Good, Typed
<1>2. CASE h.map[p] = NoId
  <2>1. PICK k : k = SetPartyMember(h, p, id)
    OBVIOUS
  <2>2. k.obj = h.obj /\ k.map = [h.map EXCEPT ![p] = id]
      /\ k.out = h.out /\ k.odd = h.odd
    BY <1>2, <2>1, HeapFields DEF SetPartyMember
  <2>3. p # l => k.map[l] = h.map[l]
    BY <1>1, <2>2
  <2>4. Rough(k, h, l)
    BY <2>2, RoughSame
  <2>5. p # l => Unmet(k, h, l)
    BY <2>2, <2>3 DEF Unmet, Stranger
  <2>6. QED
    BY <2>1, <2>4, <2>5
<1>3. CASE h.map[p] = id
  <2>1. SetPartyMember(h, p, id) = h
    BY <1>3 DEF SetPartyMember
  <2>2. QED
    BY <2>1, RoughSame DEF Unmet
<1>4. CASE h.map[p] # NoId /\ h.map[p] # id
  <2>1. h.map[p] \in Ids /\ h.obj[h.map[p]].members # {}
    BY <1>1, <1>4 DEF MapLeads
  <2>2. h.obj[h.map[p]].leader \in Pids
    BY <2>1, LeaderIn
  <2>3. SetPartyMember(h, p, id) = Quit(h, h.map[p], p)
    BY <1>4 DEF SetPartyMember
  <2>4. QED
    BY <2>1, <2>2, <2>3, QuitRough
<1>5. QED
  BY <1>2, <1>3, <1>4

LEMMA P2PJoinRough ==
  ASSUME NEW h, NEW id \in Ids, NEW p \in Pids, NEW l \in Pids, Good(h)
  PROVE  LET k == P2PJoin(h, id, p) IN Rough(k, h, l) /\ (p # l => Unmet(k, h, l))
<1>1. PICK j : j = Entered(h, id, p)
  OBVIOUS
<1>2. /\ Good(j) /\ j.map = h.map /\ j.out = h.out /\ j.odd = h.odd
      /\ j.obj[id].leader = p \/ j.obj[id].leader = h.obj[id].leader
      /\ j.obj[id].members = h.obj[id].members \cup {p}
      /\ \A i \in Ids : i # id => j.obj[i] = h.obj[i]
      /\ P2PJoin(h, id, p) = IF p \in h.obj[id].members THEN h ELSE SetPartyMember(j, p, id)
  BY <1>1, EnteredKeeps DEF Leading
<1>3. Rough(j, h, l)
  BY <1>2, RoughSame
<1>4. p # l => Unmet(j, h, l)
  BY <1>2 DEF Unmet, Stranger
<1>5. PICK k : k = SetPartyMember(j, p, id)
  OBVIOUS
<1>6. Rough(k, j, l) /\ (p # l => Unmet(k, j, l))
  BY <1>2, <1>5, SetPartyMemberRough
<1>7. Rough(k, h, l) /\ (p # l => Unmet(k, h, l))
  BY <1>3, <1>4, <1>6, RoughTrans, UnmetTrans
<1>8. Rough(h, h, l) /\ Unmet(h, h, l)
  BY RoughSame DEF Unmet
<1>9. QED
  BY <1>2, <1>5, <1>7, <1>8

LEMMA JoinRough ==
  ASSUME NEW h, NEW id \in Ids, NEW p \in Pids, NEW l \in Pids, Good(h)
  PROVE  LET k == Join(h, id, p) IN Rough(k, h, l) /\ (p # l => Unmet(k, h, l))
<1>1. PICK j : j = P2PJoin(h, id, p)
  OBVIOUS
<1>2. Rough(j, h, l) /\ (p # l => Unmet(j, h, l)) /\ Typed(j) /\ j.obj[id].leader \in Pids
  BY <1>1, P2PJoinRough, P2PJoinKeeps DEF Good
<1>3. PICK k : k = Say(j, Msg("add", j.obj[id].leader, p))
  OBVIOUS
<1>4. Rough(k, j, l) /\ Unmet(k, j, l)
  BY <1>2, <1>3, PartySayRough DEF PartyOps
<1>5. Join(h, id, p) = k
  BY <1>1, <1>3 DEF Join
<1>6. QED
  BY <1>2, <1>4, <1>5, RoughTrans, UnmetTrans

LEMMA LinkRough ==
  ASSUME NEW h, NEW id \in Ids, NEW p \in Pids, NEW l \in Pids, Good(h)
  PROVE  Rough(Link(h, id, p), h, l) /\ Unmet(Link(h, id, p), h, l)
<1>1. CASE p \notin h.obj[id].members
  <2>1. Link(h, id, p) = Odd(h)
    BY <1>1 DEF Link
  <2>2. QED
    BY <2>1, OddRough
<1>2. CASE p \in h.obj[id].members
  <2>1. PICK x : x = h.obj[id]
    OBVIOUS
  <2>2. x \in Objects /\ x.leader \in Pids /\ x.members \subseteq Pids /\ x.chars \subseteq Pids
    BY <1>2, <2>1, LeaderIn, ObjectFields DEF Good, Typed
  <2>3. PICK y : y = Object(x.leader, x.members, x.chars \cup {p})
    OBVIOUS
  <2>4. y \in Objects /\ y.leader = x.leader /\ y.members = x.members
    BY <2>2, <2>3, ObjectFields
  <2>5. PICK j : j = Heap([h.obj EXCEPT ![id] = y], h.map, [h.link EXCEPT ![p] = id], h.out, h.odd)
    OBVIOUS
  <2>6. /\ j.obj = [h.obj EXCEPT ![id] = y] /\ j.map = h.map
        /\ j.link = [h.link EXCEPT ![p] = id] /\ j.out = h.out /\ j.odd = h.odd
    BY <2>5, HeapFields
  <2>7. \A i \in Ids : j.obj[i].leader = h.obj[i].leader /\ j.obj[i].members = h.obj[i].members
    BY <2>1, <2>4, <2>6 DEF Good, Typed
  <2>8. Rough(j, h, l) /\ Unmet(j, h, l)
    BY <2>6, <2>7, RoughSame DEF Unmet, Stranger
  <2>9. Typed(j)
    <3>1. j.obj \in [Ids -> Objects] /\ j.link \in [Pids -> Ids \cup {NoId}]
      BY <2>4, <2>6 DEF Good, Typed
    <3>2. QED
      BY <2>5, <2>6, <3>1 DEF Good, Typed
  <2>10. PICK k : k = Say(j, Msg("level", x.leader, p))
    OBVIOUS
  <2>11. Rough(k, j, l) /\ Unmet(k, j, l)
    BY <2>2, <2>9, <2>10, PartySayRough DEF PartyOps
  <2>12. Link(h, id, p) = k
    BY <1>2, <2>1, <2>3, <2>5, <2>10 DEF Link
  <2>13. QED
    BY <2>8, <2>11, <2>12, RoughTrans, UnmetTrans
<1>3. QED
  BY <1>1, <1>2

LEMMA UnlinkedRough ==
  ASSUME NEW h, NEW p \in Pids, NEW l \in Pids, Good(h)
  PROVE  Rough(Unlinked(h, p), h, l) /\ Unmet(Unlinked(h, p), h, l)
<1>1. CASE h.link[p] = NoId
  <2>1. Unlinked(h, p) = h
    BY <1>1 DEF Unlinked
  <2>2. QED
    BY <2>1, RoughSame DEF Unmet
<1>2. CASE h.link[p] # NoId
  <2>1. PICK id \in Ids : id = h.link[p]
    BY <1>2 DEF Good, Typed
  <2>2. PICK x : x = h.obj[id]
    OBVIOUS
  <2>3. p \in x.members
    BY <2>1, <2>2 DEF Good, LinksMeet, CharsIn
  <2>4. x \in Objects /\ x.leader \in Pids \cup {NoOne} /\ x.members \subseteq Pids /\ x.chars \subseteq Pids
    BY <2>2, ObjectFields DEF Good, Typed
  <2>5. PICK y : y = Object(x.leader, x.members, x.chars \ {p})
    OBVIOUS
  <2>6. y.leader = x.leader /\ y.members = x.members
    BY <2>4, <2>5, ObjectFields
  <2>7. PICK k : k = Heap([h.obj EXCEPT ![id] = y], h.map, [h.link EXCEPT ![p] = NoId], h.out, h.odd)
    OBVIOUS
  <2>8. k.obj = [h.obj EXCEPT ![id] = y] /\ k.map = h.map /\ k.out = h.out /\ k.odd = h.odd
    BY <2>7, HeapFields
  <2>9. Unlinked(h, p) = k
    BY <1>2, <2>1, <2>2, <2>3, <2>5, <2>7 DEF Unlinked, Unlink
  <2>10. \A i \in Ids : k.obj[i].leader = h.obj[i].leader /\ k.obj[i].members = h.obj[i].members
    BY <2>2, <2>6, <2>8 DEF Good, Typed
  <2>11. QED
    BY <2>8, <2>9, <2>10, RoughSame DEF Unmet, Stranger
<1>3. QED
  BY <1>1, <1>2

LEMMA FoundRough ==
  ASSUME NEW h, NEW p \in Pids, NEW q \in Pids, NEW l \in Pids, p # l, Good(h), Room(h),
         h.link[p] = NoId
  PROVE  LET k == Found(h, p, q) IN Rough(k, h, l) /\ (q # l => Unmet(k, h, l))
<1>1. PICK id \in Ids : id = New(h)
  BY NewFacts
<1>2. PICK a : a = Say(h, Msg("create", p, p))
  OBVIOUS
<1>3. Rough(a, h, l) /\ Unmet(a, h, l)
  BY <1>2, PartySayRough DEF PartyOps, Good
<1>4. Good(a) /\ a.link = h.link
  BY <1>2, MsgKinds, SayKeeps, SayFields DEF PartyOps, After, Good
<1>5. PICK b : b = Join(a, id, p)
  OBVIOUS
<1>6. Rough(b, a, l) /\ Unmet(b, a, l) /\ Good(b) /\ p \in b.obj[id].members /\ NoMoreLinks(b, a)
  BY <1>4, <1>5, JoinRough, JoinKeeps
<1>7. b.link[p] = NoId
  BY <1>4, <1>6 DEF NoMoreLinks
<1>8. PICK c : c = Link(b, id, p)
  OBVIOUS
<1>9. Rough(c, b, l) /\ Unmet(c, b, l) /\ Good(c) /\ c.link[p] = id
  BY <1>6, <1>7, <1>8, LinkRough, LinkKeeps
<1>10. PICK d : d = Join(c, id, q)
  OBVIOUS
<1>11. Rough(d, c, l) /\ (q # l => Unmet(d, c, l)) /\ Good(d)
  BY <1>9, <1>10, JoinRough, JoinKeeps
<1>12. PICK k : k = Link(d, id, q)
  OBVIOUS
<1>13. Rough(k, d, l) /\ Unmet(k, d, l)
  BY <1>11, <1>12, LinkRough
<1>14. Found(h, p, q) = k
  <2>1. CreateParty(h, p) = c
    BY <1>1, <1>2, <1>5, <1>8 DEF CreateParty
  <2>2. QED
    BY <1>9, <1>10, <1>12, <2>1 DEF Found
<1>15. Rough(c, h, l) /\ Unmet(c, h, l)
  <2>1. Rough(b, h, l) /\ Unmet(b, h, l)
    BY <1>3, <1>6, RoughTrans, UnmetTrans
  <2>2. QED
    BY <1>9, <2>1, RoughTrans, UnmetTrans
<1>16. Rough(k, c, l) /\ (q # l => Unmet(k, c, l))
  BY <1>11, <1>13, RoughTrans, UnmetTrans
<1>17. QED
  BY <1>14, <1>15, <1>16, RoughTrans, UnmetTrans

LEMMA InvitedRough ==
  ASSUME NEW h, NEW id \in Ids, NEW q \in Pids, NEW l \in Pids, Good(h)
  PROVE  LET k == Link(Join(h, id, q), id, q) IN Rough(k, h, l) /\ (q # l => Unmet(k, h, l))
<1>1. PICK b : b = Join(h, id, q)
  OBVIOUS
<1>2. Rough(b, h, l) /\ (q # l => Unmet(b, h, l)) /\ Good(b)
  BY <1>1, JoinRough, JoinKeeps
<1>3. PICK k : k = Link(b, id, q)
  OBVIOUS
<1>4. Rough(k, b, l) /\ Unmet(k, b, l)
  BY <1>2, <1>3, LinkRough
<1>5. QED
  BY <1>1, <1>2, <1>3, <1>4, RoughTrans, UnmetTrans

LEMMA HandledRough ==
  ASSUME NEW h, NEW m \in PartyMsgs, NEW l \in Pids, Good(h), Room(h)
  PROVE  /\ Rough(Handled(h, m), h, l)
         /\ \/ m.op \in {"delete", "remove"}
            \/ m.op \in {"create", "level"} /\ m.leader # l
            \/ m.op = "add" /\ m.pid # l
            => Unmet(Handled(h, m), h, l)
<1>1. m.leader \in Pids /\ m.pid \in Pids /\ m.op \in PartyOps
  BY DEF PartyMsgs
<1>2. Rough(h, h, l) /\ Unmet(h, h, l) /\ Typed(h) /\ h.map \in [Pids -> Ids \cup {NoId}]
  BY RoughSame DEF Unmet, Good, Typed
<1>3. ASSUME NEW p \in Pids
      PROVE  LET k == P2PCreateParty(h, p) IN Rough(k, h, l) /\ (p # l => Unmet(k, h, l))
  BY <1>2, NewFacts, P2PJoinRough DEF P2PCreateParty
<1>4. CASE m.op = "create"
  BY <1>1, <1>3, <1>4 DEF Handled
<1>5. CASE m.op = "delete"
  <2>1. Handled(h, m) = P2PDeleteParty(h, m.leader)
    BY <1>5 DEF Handled
  <2>2. QED
    BY <1>1, <1>2, <2>1, OddRough, DestroyRough DEF P2PDeleteParty
<1>6. CASE m.op = "add"
  <2>1. Handled(h, m) = P2PJoinParty(h, m.leader, m.pid)
    BY <1>6 DEF Handled
  <2>2. QED
    BY <1>1, <1>2, <1>6, <2>1, OddRough, P2PJoinRough DEF P2PJoinParty
<1>7. CASE m.op = "remove"
  <2>1. Handled(h, m) = P2PQuitParty(h, m.leader, m.pid)
    BY <1>7 DEF Handled
  <2>2. CASE h.map[m.pid] = NoId
    BY <1>1, <2>1, <2>2, OddRough DEF P2PQuitParty
  <2>3. CASE h.map[m.pid] # NoId
    <3>1. PICK k : k = P2PQuit(h, h.map[m.pid], m.pid)
      OBVIOUS
    <3>2. Rough(k, h, l) /\ Unmet(k, h, l)
      BY <1>1, <1>2, <2>3, <3>1, P2PQuitRough
    <3>3. Rough(Odd(k), h, l) /\ Unmet(Odd(k), h, l)
      BY <3>2, OddRough, RoughTrans, UnmetTrans
    <3>4. Handled(h, m) \in {k, Odd(k)}
      BY <2>1, <2>3, <3>1 DEF P2PQuitParty
    <3>5. QED
      BY <3>2, <3>3, <3>4
  <2>4. QED
    BY <2>2, <2>3
<1>8. CASE m.op = "level"
  <2>1. Handled(h, m) = Leveled(h, m.leader)
    BY <1>8 DEF Handled
  <2>2. PICK k : k = P2PCreateParty(h, m.leader)
    OBVIOUS
  <2>3. Rough(k, h, l) /\ (m.leader # l => Unmet(k, h, l))
    BY <1>1, <1>3, <2>2
  <2>4. Rough(Odd(k), h, l) /\ (m.leader # l => Unmet(Odd(k), h, l))
    BY <2>3, OddRough, RoughTrans, UnmetTrans
  <2>5. QED
    BY <1>2, <1>8, <2>1, <2>2, <2>4 DEF Leveled
<1>9. QED
  BY <1>1, <1>4, <1>5, <1>6, <1>7, <1>8 DEF PartyOps
-----------------------------------------------------------------------------

(* An error that is bound to be logged.  Refusal: the db will not know the     *)
(* party of l when it is told of a change of it, since nobody but l creates it *)
(* and l is not elsewhere.  Orphan: a game will not know the party.            *)

Here(g) == {p \in Pids : at[p] = g}

Refusal(g, l) ==
  /\ g \in up /\ party[l] = NoParty
  /\ DoomedOut(heap[g].out, toGame[g], Here(g), l)
  /\ \A r \in Games : r # g => Uncreated(heap[r].out, l)
Orphan(g, l) ==
  /\ g \in known /\ setup[g] = {} /\ Absent(heap[g].out, SetupMsg)
  /\ Stranger(heap[g], l) /\ DoomedIn(toGame[g], Here(g), l)
Doomed == \E g \in Games, l \in Pids : Refusal(g, l) \/ Orphan(g, l)

\* What went wrong, or will, stays so.
Lasts == (Doomed => Doomed') /\ (Logged => Logged')

LEMMA PrefixFacts ==
  ASSUME NEW T, NEW s \in Seq(T), NEW t \in Seq(T), Prefix(s, t), NEW i, NEW m
  PROVE  Behind(s, i, m) => Behind(t, i, m)
  BY DEF Prefix, Behind

LEMMA PrefixAppend ==
  ASSUME NEW T, NEW s \in Seq(T), NEW m \in T
  PROVE  Prefix(s, Append(s, m))
  BY Appended DEF Prefix

LEMMA DoomedOutPrefix ==
  ASSUME NEW O \in Seq(ToDb), NEW Q \in Seq(ToDb), Prefix(O, Q), NEW T, NEW A, NEW U, NEW C,
         NEW l \in Pids, DoomedOut(O, T, A, l),
         l \in A \/ ~Absent(T, Enter(l)) =>
           l \in C \/ ~Absent(U, Enter(l)) \/ \A i \in DOMAIN O : Behind(Q, i, Logout(l))
  PROVE  DoomedOut(Q, U, C, l)
<1>1. PICK i \in DOMAIN O : /\ Of(O[i], l) /\ O[i].op # "create"
                            /\ \A j \in 1 .. i - 1 : ~Of(O[j], l)
                            /\ Stays(O, T, A, i, l)
  BY DEF DoomedOut
<1>2. i \in DOMAIN Q /\ Q[i] = O[i]
  BY DEF Prefix
<1>3. \A j \in 1 .. i - 1 : Q[j] = O[j]
  <2>1. i \in 1 .. Len(O) /\ DOMAIN O = 1 .. Len(O) /\ Len(O) \in Nat
    BY Appended
  <2>2. \A j \in 1 .. i - 1 : j \in DOMAIN O
    BY <2>1
  <2>3. QED
    BY <2>2 DEF Prefix
<1>4. Stays(Q, U, C, i, l)
  BY <1>1, PrefixFacts DEF Stays, Remains
<1>5. QED
  BY <1>1, <1>2, <1>3, <1>4 DEF DoomedOut

LEMMA DoomedOutTail ==
  ASSUME NEW O \in Seq(ToDb), O # << >>, NEW T, NEW A, NEW U, NEW l \in Pids,
         DoomedOut(O, T, A, l), ~Of(Head(O), l),
         ~Absent(T, Enter(l)) => ~Absent(U, Enter(l))
  PROVE  DoomedOut(Tail(O), U, A, l)
<1>1. PICK i \in DOMAIN O : /\ Of(O[i], l) /\ O[i].op # "create"
                            /\ \A j \in 1 .. i - 1 : ~Of(O[j], l)
                            /\ Stays(O, T, A, i, l)
  BY DEF DoomedOut
<1>2. PICK n \in Nat : n = Len(O) - 1
  BY Tailed
<1>3. PICK t : t = Tail(O)
  OBVIOUS
<1>4. /\ DOMAIN O = 1 .. n + 1 /\ DOMAIN t = 1 .. n /\ Head(O) = O[1]
      /\ \A j \in 1 .. n : t[j] = O[j + 1]
  BY <1>2, <1>3, Tailed
<1>5. i \in 2 .. n + 1
  BY <1>1, <1>4
<1>6. PICK k \in 1 .. n : i = k + 1
  <2>1. i - 1 \in 1 .. n /\ i = (i - 1) + 1
    BY <1>5
  <2>2. QED
    BY <2>1
<1>7. t[k] = O[i] /\ \A j \in 1 .. k - 1 : ~Of(t[j], l)
  <2>1. \A j \in 1 .. k - 1 : t[j] = O[j + 1] /\ j + 1 \in 1 .. i - 1
    BY <1>4, <1>6
  <2>2. QED
    BY <1>1, <1>4, <1>6, <2>1
<1>8. Behind(O, i, Logout(l)) => Behind(t, k, Logout(l))
  BY <1>2, <1>3, <1>6, PlacesTail
<1>9. Stays(t, U, A, k, l)
  BY <1>1, <1>8 DEF Stays, Remains
<1>10. QED
  BY <1>1, <1>3, <1>4, <1>6, <1>7, <1>9 DEF DoomedOut

LEMMA DoomedInPrefix ==
  ASSUME NEW T \in Seq(ToGames), NEW U \in Seq(ToGames), Prefix(T, U), NEW A, NEW C,
         NEW l \in Pids, DoomedIn(T, A, l), l \notin C
  PROVE  DoomedIn(U, C, l)
<1>1. PICK i \in DOMAIN T :
        /\ Of(T[i], l) /\ T[i].op # "create"
        /\ \A j \in 1 .. i - 1 : /\ ~Of(T[j], l) /\ T[j] # Enter(l)
                                 /\ Joins(T[j]) => T[j].pid # l
  BY DEF DoomedIn
<1>2. i \in DOMAIN U /\ U[i] = T[i]
  BY DEF Prefix
<1>3. \A j \in 1 .. i - 1 : U[j] = T[j]
  <2>1. i \in 1 .. Len(T) /\ DOMAIN T = 1 .. Len(T) /\ Len(T) \in Nat
    BY Appended
  <2>2. \A j \in 1 .. i - 1 : j \in DOMAIN T
    BY <2>1
  <2>3. QED
    BY <2>2 DEF Prefix
<1>4. QED
  BY <1>1, <1>2, <1>3 DEF DoomedIn

LEMMA DoomedInTail ==
  ASSUME NEW T \in Seq(ToGames), T # << >>, NEW A, NEW C,
         NEW l \in Pids, DoomedIn(T, A, l), l \notin C
  PROVE  \/ Of(Head(T), l) /\ Head(T).op # "create"
         \/ /\ ~Of(Head(T), l) /\ Head(T) # Enter(l) /\ (Joins(Head(T)) => Head(T).pid # l)
            /\ DoomedIn(Tail(T), C, l)
<1>1. PICK i \in DOMAIN T :
        /\ Of(T[i], l) /\ T[i].op # "create"
        /\ \A j \in 1 .. i - 1 : /\ ~Of(T[j], l) /\ T[j] # Enter(l)
                                 /\ Joins(T[j]) => T[j].pid # l
  BY DEF DoomedIn
<1>2. PICK n \in Nat : n = Len(T) - 1
  BY Tailed
<1>3. PICK t : t = Tail(T)
  OBVIOUS
<1>4. /\ DOMAIN T = 1 .. n + 1 /\ DOMAIN t = 1 .. n /\ Head(T) = T[1]
      /\ \A j \in 1 .. n : t[j] = T[j + 1]
  BY <1>2, <1>3, Tailed
<1>5. CASE i = 1
  BY <1>1, <1>4, <1>5
<1>6. CASE i # 1
  <2>0. i \in 2 .. n + 1
    BY <1>4, <1>6
  <2>1. PICK k \in 1 .. n : i = k + 1
    BY <2>0
  <2>2. \A j \in 1 .. k - 1 : t[j] = T[j + 1] /\ j + 1 \in 1 .. i - 1
    BY <1>4, <2>1
  <2>3. t[k] = T[i] /\ 1 \in 1 .. i - 1
    BY <1>4, <2>1
  <2>4. DoomedIn(t, C, l)
    BY <1>1, <1>4, <2>1, <2>2, <2>3 DEF DoomedIn
  <2>5. ~Of(T[1], l) /\ T[1] # Enter(l) /\ (Joins(T[1]) => T[1].pid # l)
    BY <1>1, <2>3
  <2>6. QED
    BY <1>3, <1>4, <2>4, <2>5
<1>7. QED
  BY <1>5, <1>6

\* A player stays at one game only.
LEMMA SoleStay ==
  ASSUME Inv, NEW g \in Games, NEW l \in Pids, NEW i,
         Stays(heap[g].out, toGame[g], Here(g), i, l)
  PROVE  /\ l \notin free
         /\ at[l] = g \/ at[l] = NoOne
         /\ \A r \in Games : r # g => Absent(toGame[r], Enter(l)) /\ Absent(heap[r].out, Logout(l))
<1>1. OnePlace(l)
  BY DEF Inv
<1>2. \A r \in Games : outs[r] = heap[r].out
  BY DEF outs
<1>3. CASE at[l] = g
  BY <1>1, <1>2, <1>3, NullAssumption DEF OnePlace, Nowhere, NoneIn
<1>4. CASE ~Absent(toGame[g], Enter(l))
  BY <1>1, <1>2, <1>4 DEF OnePlace, Nowhere, NoneIn, OneIn
<1>5. CASE ~Absent(heap[g].out, Logout(l))
  BY <1>1, <1>2, <1>5 DEF OnePlace, Nowhere, NoneIn, OneIn
<1>6. Behind(heap[g].out, i, Logout(l)) => ~Absent(heap[g].out, Logout(l))
  BY DEF Behind, Absent
<1>7. QED
  BY <1>3, <1>4, <1>5, <1>6 DEF Stays, Remains, Here

\* Heads and tails of the messages of a game.
LEMMA FirstOf ==
  ASSUME NEW O \in Seq(ToDb), O # << >>, NEW T, NEW A, NEW l \in Pids, DoomedOut(O, T, A, l),
         Of(Head(O), l)
  PROVE  Head(O).op # "create"
<1>1. PICK i \in DOMAIN O : /\ Of(O[i], l) /\ O[i].op # "create"
                            /\ \A j \in 1 .. i - 1 : ~Of(O[j], l)
  BY DEF DoomedOut
<1>2. DOMAIN O = 1 .. Len(O) /\ Len(O) \in Nat \ {0} /\ Head(O) = O[1]
  BY Tailed
<1>3. i = 1 \/ 1 \in 1 .. i - 1
  BY <1>1, <1>2
<1>4. QED
  BY <1>1, <1>2, <1>3

LEMMA UncreatedTail ==
  ASSUME NEW O \in Seq(ToDb), O # << >>, NEW l, Uncreated(O, l)
  PROVE  Uncreated(Tail(O), l)
<1>1. /\ Len(O) \in Nat \ {0} /\ DOMAIN O = 1 .. Len(O) /\ DOMAIN Tail(O) = 1 .. Len(O) - 1
      /\ \A i \in 1 .. Len(O) - 1 : Tail(O)[i] = O[i + 1]
  BY Tailed
<1>2. \A i \in 1 .. Len(O) - 1 : i + 1 \in 1 .. Len(O)
  BY <1>1
<1>3. QED
  BY <1>1, <1>2 DEF Uncreated

LEMMA OutTypes ==
  ASSUME Inv
  PROVE  \A g \in Games : /\ Good(heap[g]) /\ heap[g].out \in Seq(ToDb)
                          /\ toGame[g] \in Seq(ToGames) /\ Here(g) \in SUBSET Pids
  BY DEF Inv, HeapsGood, Types, Good, Typed, Here

LEMMA PrefixSelf == \A s : Prefix(s, s)
  BY DEF Prefix

\* A player's action.
LEMMA LocalDoomed ==
  ASSUME Inv, NEW g \in Games, NEW k, Good(k), Local(g, k), at' = at,
         Prefix(heap[g].out, k.out), heap[g].odd => k.odd,
         \A l \in Pids : l \notin Here(g) => Rough(k, heap[g], l) /\ Unmet(k, heap[g], l)
  PROVE  Lasts
<1>1. /\ heap' = [heap EXCEPT ![g] = k] /\ toGame' = toGame /\ up' = up /\ party' = party
      /\ known' = known /\ setup' = setup /\ \A r \in Games : Here(r)' = Here(r)
  BY DEF Local, dbVars, Here
<1>2. heap'[g] = k /\ \A r \in Games : r # g => heap'[r] = heap[r]
  BY <1>1 DEF Inv, HeapsGood
<1>3. k.out \in Seq(ToDb)
  BY DEF Good, Typed
<1>4. ASSUME NEW r \in Games, NEW l \in Pids, Refusal(r, l) PROVE Refusal(r, l)'
  <2>1. /\ r \in up /\ party[l] = NoParty
        /\ DoomedOut(heap[r].out, toGame[r], Here(r), l)
        /\ \A s \in Games : s # r => Uncreated(heap[s].out, l)
    BY <1>4 DEF Refusal
  <2>2. DoomedOut(heap'[r].out, toGame[r], Here(r), l)
    <3>1. CASE r = g
      BY <1>2, <1>3, <2>1, <3>1, DoomedOutPrefix, OutTypes
    <3>2. CASE r # g
      BY <1>2, <2>1, <3>2
    <3>3. QED
      BY <3>1, <3>2
  <2>3. r # g => Uncreated(k.out, l)
    <3>1. SUFFICES ASSUME r # g PROVE Uncreated(k.out, l)
      OBVIOUS
    <3>2. PICK i : Stays(heap[r].out, toGame[r], Here(r), i, l)
      BY <2>1 DEF DoomedOut
    <3>3. at[l] = r \/ at[l] = NoOne
      BY <3>2, SoleStay
    <3>4. l \notin Here(g)
      BY <3>1, <3>3, NullAssumption DEF Here
    <3>5. QED
      BY <2>1, <3>1, <3>4 DEF Rough
  <2>4. \A s \in Games : s # r => Uncreated(heap'[s].out, l)
    BY <1>2, <2>1, <2>3
  <2>5. QED
    BY <1>1, <2>1, <2>2, <2>4 DEF Refusal
<1>5. ASSUME NEW r \in Games, NEW l \in Pids, Orphan(r, l) PROVE Orphan(r, l)'
  <2>1. /\ r \in known /\ setup[r] = {} /\ Absent(heap[r].out, SetupMsg)
        /\ Stranger(heap[r], l) /\ DoomedIn(toGame[r], Here(r), l)
    BY <1>5 DEF Orphan
  <2>2. Absent(heap'[r].out, SetupMsg) /\ Stranger(heap'[r], l)
    <3>1. CASE r = g
      BY <1>2, <2>1, <3>1 DEF DoomedIn, Rough, Unmet
    <3>2. CASE r # g
      BY <1>2, <2>1, <3>2
    <3>3. QED
      BY <3>1, <3>2
  <2>3. QED
    BY <1>1, <2>1, <2>2 DEF Orphan
<1>6. Logged => Logged'
  BY <1>2 DEF Logged, Local, dbVars
<1>7. QED
  BY <1>4, <1>5, <1>6 DEF Doomed, Lasts

LEMMA PlayDoomed ==
  ASSUME Inv, NEW p \in Pids, Play(p)
  PROVE  Lasts
<1>1. ASSUME NEW q \in Pids, InviteToNew(p, q) PROVE Lasts
  <2>1. PICK g : g = at[p]
    OBVIOUS
  <2>2. /\ p # q /\ Acts(p, g, NoId) /\ Acts(q, g, NoId) /\ Room(heap[g])
        /\ Local(g, Found(heap[g], p, q)) /\ at' = at
    BY <1>1, <2>1 DEF InviteToNew, chars
  <2>3. /\ g \in Games /\ Good(heap[g]) /\ heap[g].link[p] = NoId /\ heap[g].link[q] = NoId
        /\ p \in Here(g) /\ q \in Here(g)
    BY <2>2, ActsFacts DEF Acts, Here
  <2>4. PICK k : k = Found(heap[g], p, q)
    OBVIOUS
  <2>5. Good(k)
    BY <2>2, <2>3, <2>4, FoundKeeps
  <2>6. Rough(k, heap[g], q)
    BY <2>2, <2>3, <2>4, FoundRough
  <2>7. \A l \in Pids : l \notin Here(g) => Rough(k, heap[g], l) /\ Unmet(k, heap[g], l)
    BY <2>2, <2>3, <2>4, FoundRough
  <2>8. QED
    BY <2>2, <2>3, <2>4, <2>5, <2>6, <2>7, LocalDoomed DEF Rough
<1>2. ASSUME NEW id \in Ids, NEW q \in Pids, Invite(p, q, id) PROVE Lasts
  <2>1. PICK g : g = at[p]
    OBVIOUS
  <2>2. /\ Acts(p, g, id) /\ Acts(q, g, NoId)
        /\ Local(g, Link(Join(heap[g], id, q), id, q)) /\ at' = at
    BY <1>2, <2>1 DEF Invite, chars
  <2>3. g \in Games /\ Good(heap[g]) /\ heap[g].link[q] = NoId /\ q \in Here(g)
    BY <2>2, ActsFacts DEF Acts, Here
  <2>4. PICK k : k = Link(Join(heap[g], id, q), id, q)
    OBVIOUS
  <2>5. Good(k)
    BY <2>3, <2>4, InvitedKeeps
  <2>6. \A l \in Pids : Rough(k, heap[g], l) /\ (q # l => Unmet(k, heap[g], l))
    BY <2>3, <2>4, InvitedRough
  <2>7. QED
    BY <2>2, <2>3, <2>4, <2>5, <2>6, LocalDoomed DEF Rough
<1>3. ASSUME NEW id \in Ids, NEW q \in Pids, Expel(p, q, id) \/ Leave(p, id) \/ LevelUp(p, id)
      PROVE  Lasts
  <2>1. PICK g : g = at[p]
    OBVIOUS
  <2>2. Acts(p, g, id) /\ at' = at
    BY <1>3, <2>1 DEF Expel, Leave, LevelUp, chars
  <2>3. g \in Games /\ Good(heap[g]) /\ Typed(heap[g]) /\ heap[g].obj[id].leader \in Pids
    BY <2>2, ActsFacts DEF Good
  <2>4. PICK l \in Pids : l = heap[g].obj[id].leader
    BY <2>3
  <2>5. PICK k : /\ Local(g, k)
                 /\ \/ k = DeleteParty(heap[g], id)
                    \/ \E r \in Pids : k = Quit(heap[g], id, r)
                    \/ k = Say(heap[g], Msg("level", l, p))
    <3>1. CASE Expel(p, q, id)
      BY <2>1, <3>1 DEF Expel
    <3>2. CASE Leave(p, id)
      BY <2>1, <3>2 DEF Leave
    <3>3. CASE LevelUp(p, id)
      BY <2>1, <2>4, <3>3 DEF LevelUp
    <3>4. QED
      BY <1>3, <3>1, <3>2, <3>3
  <2>6. Good(k)
    <3>1. CASE k = DeleteParty(heap[g], id)
      <4>1. Nearly(heap[g], id)
        BY <2>3 DEF Good, Nearly
      <4>2. QED
        BY <2>3, <3>1, <4>1, DeletePartyKeeps
    <3>2. CASE \E r \in Pids : k = Quit(heap[g], id, r)
      BY <2>3, <3>2, QuitKeeps DEF After
    <3>3. CASE k = Say(heap[g], Msg("level", l, p))
      BY <2>3, <3>3, MsgKinds, SayKeeps DEF After, PartyOps
    <3>4. QED
      BY <2>5, <3>1, <3>2, <3>3
  <2>7. \A a \in Pids : Rough(k, heap[g], a) /\ Unmet(k, heap[g], a)
    BY <2>3, <2>5, DeletePartyRough, QuitRough, PartySayRough DEF PartyOps
  <2>8. QED
    BY <2>2, <2>3, <2>5, <2>6, <2>7, LocalDoomed DEF Rough
<1>4. QED
  BY <1>1, <1>2, <1>3 DEF Play
-----------------------------------------------------------------------------
(* The couples of a heap, and what the operators do to them while each member  *)
(* of a party is in the map.                                                   *)

Pairs(h) == {x \in Couples : h.map[x[2]] # NoId /\ h.obj[h.map[x[2]]].leader = x[1]}

Exact(h) ==
  \A id \in Ids : /\ \A p \in h.obj[id].members : h.map[p] = id
                  /\ h.obj[id].members = {} => h.obj[id] = Dead
Fit(h) == Good(h) /\ Exact(h)

\* The characters P of a game point at the parties of their players.
Joined(h, P) == \A p \in P : h.map[p] # NoId => h.link[p] = h.map[p]
JoinedToo(k, h, Out) == \A P \in SUBSET Pids : Joined(h, P) => Joined(k, P \ Out)

LEMMA PairIs ==
  ASSUME NEW h
  PROVE  /\ Pairs(h) \in SUBSET Couples
         /\ \A l, p \in Pids : <<l, p>> \in Pairs(h) <=> h.map[p] # NoId /\ h.obj[h.map[p]].leader = l
  BY DEF Pairs, Couples

LEMMA SamePairs ==
  ASSUME NEW B \in SUBSET Couples, NEW D \in SUBSET Couples,
         \A l, p \in Pids : <<l, p>> \in B <=> <<l, p>> \in D
  PROVE  B = D
<1>1. \A x \in Couples : \E l, p \in Pids : x = <<l, p>>
  BY DEF Couples
<1>2. \A x \in Couples : x \in B <=> x \in D
  BY <1>1
<1>3. QED
  BY <1>2

\* A player is in the party that the map names, and in no other.
LEMMA FitFacts ==
  ASSUME NEW h, Fit(h)
  PROVE  /\ h.map \in [Pids -> Ids \cup {NoId}] /\ h.link \in [Pids -> Ids \cup {NoId}]
         /\ h.obj \in [Ids -> Objects] /\ h.out \in Seq(ToDb)
         /\ \A id \in Ids, p \in Pids : p \in h.obj[id].members <=> h.map[p] = id
         /\ \A id \in Ids : h.obj[id].members \subseteq Pids
         /\ \A id \in Ids : h.obj[id].members # {} =>
              /\ h.obj[id].leader \in Pids
              /\ h.obj[id].leader \in h.obj[id].members
              /\ \A p \in Pids : <<h.obj[id].leader, p>> \in Pairs(h) <=> p \in h.obj[id].members
         /\ Unique(Pairs(h))
<1>1. /\ h.map \in [Pids -> Ids \cup {NoId}] /\ h.link \in [Pids -> Ids \cup {NoId}]
      /\ h.obj \in [Ids -> Objects] /\ h.out \in Seq(ToDb)
  BY DEF Fit, Good, Typed
<1>2. \A id \in Ids : h.obj[id].members \subseteq Pids
  BY <1>1, ObjectFields
<1>3. \A id \in Ids, p \in Pids : p \in h.obj[id].members <=> h.map[p] = id
  BY <1>1, NullAssumption DEF Fit, Good, Exact, MapLeads
<1>4. \A id \in Ids : h.obj[id].members # {} =>
        h.obj[id].leader \in Pids /\ h.obj[id].leader \in h.obj[id].members
  BY <1>2 DEF Fit, Good, Led
<1>5. ASSUME NEW l \in Pids, NEW p \in Pids, <<l, p>> \in Pairs(h)
      PROVE  /\ h.map[p] \in Ids /\ h.obj[h.map[p]].leader = l
             /\ p \in h.obj[h.map[p]].members /\ h.map[l] = h.map[p]
  <2>1. h.map[p] \in Ids /\ h.obj[h.map[p]].leader = l
    BY <1>1, <1>5, PairIs
  <2>2. p \in h.obj[h.map[p]].members
    BY <1>3, <2>1
  <2>3. QED
    BY <1>3, <1>4, <2>1, <2>2
<1>6. ASSUME NEW id \in Ids, h.obj[id].members # {}, NEW p \in Pids
      PROVE  <<h.obj[id].leader, p>> \in Pairs(h) <=> p \in h.obj[id].members
  <2>1. PICK l \in Pids : l = h.obj[id].leader /\ h.map[l] = id
    BY <1>3, <1>4, <1>6
  <2>2. ASSUME <<l, p>> \in Pairs(h) PROVE p \in h.obj[id].members
    BY <1>5, <2>1, <2>2
  <2>3. ASSUME p \in h.obj[id].members PROVE <<l, p>> \in Pairs(h)
    <3>1. h.map[p] = id
      BY <1>3, <2>3
    <3>2. QED
      BY <2>1, <3>1, PairIs, NullAssumption
  <2>4. QED
    BY <2>1, <2>2, <2>3
<1>7. Unique(Pairs(h))
  <2>1. SUFFICES ASSUME NEW l \in Pids, NEW p \in Pids, <<l, p>> \in Pairs(h)
                 PROVE  <<l, l>> \in Pairs(h) /\ \A k \in Pids : <<k, p>> \in Pairs(h) => k = l
    BY DEF Unique
  <2>2. h.map[p] \in Ids /\ h.obj[h.map[p]].leader = l /\ h.map[l] = h.map[p]
    BY <1>5, <2>1
  <2>3. <<l, l>> \in Pairs(h)
    BY <2>2, PairIs, NullAssumption
  <2>4. QED
    BY <1>5, <2>2, <2>3
<1>8. QED
  BY <1>1, <1>2, <1>3, <1>4, <1>6, <1>7

\* Whoever is in no party is unknown.
LEMMA NoPairs ==
  ASSUME NEW h, Fit(h), NEW l \in Pids, \A k \in Pids : <<k, l>> \notin Pairs(h)
  PROVE  h.map[l] = NoId /\ Stranger(h, l)
<1>1. h.map[l] = NoId
  <2>1. SUFFICES ASSUME h.map[l] \in Ids PROVE FALSE
    BY FitFacts
  <2>2. h.obj[h.map[l]].members # {} /\ h.obj[h.map[l]].leader \in Pids
    BY <2>1, FitFacts
  <2>3. QED
    BY <2>1, <2>2, PairIs, NullAssumption
<1>2. \A id \in Ids : l \notin h.obj[id].members
  BY <1>1, FitFacts, NullAssumption
<1>3. \A id \in Ids : h.obj[id].leader # l
  <2>1. SUFFICES ASSUME NEW id \in Ids, h.obj[id].leader = l PROVE FALSE
    OBVIOUS
  <2>2. CASE h.obj[id].members = {}
    <3>1. h.obj[id].leader = NoOne
      BY <2>2 DEF Fit, Exact, Dead
    <3>2. QED
      BY <2>1, <3>1, NullAssumption
  <2>3. CASE h.obj[id].members # {}
    BY <1>2, <2>1, <2>3, FitFacts
  <2>4. QED
    BY <2>2, <2>3
<1>4. QED
  BY <1>1, <1>2, <1>3 DEF Stranger

\* Nothing but the pointers, or the messages, changes.
LEMMA FitSame ==
  ASSUME NEW h, NEW k, Fit(h), Good(k), k.map = h.map,
         \A id \in Ids : /\ k.obj[id].leader = h.obj[id].leader
                         /\ k.obj[id].members = h.obj[id].members
                         /\ k.obj[id].members = {} => k.obj[id] = h.obj[id]
  PROVE  Fit(k) /\ Pairs(k) = Pairs(h)
<1>1. Exact(k)
  BY DEF Fit, Exact
<1>2. ASSUME NEW l \in Pids, NEW p \in Pids
      PROVE  <<l, p>> \in Pairs(k) <=> <<l, p>> \in Pairs(h)
  <2>1. h.map[p] \in Ids \cup {NoId} /\ k.map[p] = h.map[p]
    BY FitFacts
  <2>2. h.map[p] # NoId => k.obj[k.map[p]].leader = h.obj[h.map[p]].leader
    BY <2>1
  <2>3. QED
    BY <2>1, <2>2, PairIs
<1>3. Pairs(k) = Pairs(h)
  BY <1>2, PairIs, SamePairs
<1>4. QED
  BY <1>1, <1>3 DEF Fit

LEMMA SayFit ==
  ASSUME NEW h, Fit(h), NEW m \in PartyMsgs
  PROVE  LET k == Say(h, m) IN
           /\ Fit(k) /\ Pairs(k) = Pairs(h) /\ k.out = Append(h.out, m)
           /\ k.map = h.map /\ k.link = h.link /\ k.obj = h.obj /\ k.odd = h.odd
<1>1. PICK k : k = Say(h, m)
  OBVIOUS
<1>2. /\ k.out = Append(h.out, m) /\ k.map = h.map /\ k.link = h.link
      /\ k.obj = h.obj /\ k.odd = h.odd
  BY <1>1 DEF Say, Heap
<1>3. Good(k)
  BY <1>1, SayKeeps DEF Fit, After
<1>4. QED
  BY <1>1, <1>2, <1>3, FitSame

LEMMA MsgFields ==
  ASSUME NEW o, NEW l, NEW p
  PROVE  Msg(o, l, p).op = o /\ Msg(o, l, p).leader = l /\ Msg(o, l, p).pid = p
  BY DEF Msg

\* The couples after a message.
LEMMA StepIs ==
  ASSUME NEW B \in SUBSET Couples, NEW m, NEW C \in SUBSET Couples,
         \A a, p \in Pids :
           <<a, p>> \in C <=> Gives(m, <<a, p>>) \/ (<<a, p>> \in B /\ ~Takes(m, <<a, p>>))
  PROVE  C = Step(B, m)
<1>1. \A a, p \in Pids : <<a, p>> \in C <=> <<a, p>> \in Step(B, m)
  BY StepFacts, Pairing
<1>2. QED
  BY <1>1, StepFacts, SamePairs

LEMMA DestroyFit ==
  ASSUME NEW h, Fit(h), NEW id \in Ids, h.obj[id].members # {}
  PROVE  LET k == Destroy(h, id)
             l == h.obj[id].leader
         IN /\ Fit(k) /\ Pairs(k) = Step(Pairs(h), Msg("delete", l, l))
            /\ k.out = h.out /\ k.odd = h.odd /\ JoinedToo(k, h, {})
<1>1. PICK k : k = Destroy(h, id)
  OBVIOUS
<1>2. PICK l \in Pids : l = h.obj[id].leader
  BY FitFacts
<1>3. PICK x : x = h.obj[id]
  OBVIOUS
<1>4. /\ k.obj = [h.obj EXCEPT ![id] = Dead]
      /\ k.map = [p \in Pids |-> IF p \in x.members THEN NoId ELSE h.map[p]]
      /\ k.link = [p \in Pids |-> IF p \in x.chars THEN NoId ELSE h.link[p]]
      /\ k.out = h.out
  BY <1>1, <1>3, HeapFields DEF Destroy
<1>5. k.odd = h.odd
  BY <1>1 DEF Destroy, Heap
<1>6. /\ \A i \in Ids : k.obj[i] = IF i = id THEN Dead ELSE h.obj[i]
      /\ \A p \in Pids : /\ k.map[p] = IF p \in x.members THEN NoId ELSE h.map[p]
                         /\ k.link[p] = IF p \in x.chars THEN NoId ELSE h.link[p]
  BY <1>4, FitFacts
<1>7. Good(k)
  <2>1. Nearly(h, id)
    BY DEF Fit, Good, Nearly
  <2>2. QED
    BY <1>1, <2>1, DestroyKeeps
<1>8. \A p \in Pids : p \in x.members <=> h.map[p] = id
  BY <1>3, FitFacts
<1>9. Exact(k)
  <2>1. SUFFICES ASSUME NEW i \in Ids
                 PROVE  /\ \A p \in k.obj[i].members : k.map[p] = i
                        /\ k.obj[i].members = {} => k.obj[i] = Dead
    BY DEF Exact
  <2>2. CASE i = id
    BY <1>6, <2>2, ObjectFields
  <2>3. CASE i # id
    <3>1. k.obj[i] = h.obj[i] /\ h.obj[i].members \subseteq Pids
      BY <1>6, <2>3, FitFacts
    <3>2. \A p \in h.obj[i].members : h.map[p] = i
      BY FitFacts
    <3>3. QED
      BY <1>6, <1>8, <2>3, <3>1, <3>2 DEF Fit, Exact
  <2>4. QED
    BY <2>2, <2>3
<1>10. Pairs(k) = Step(Pairs(h), Msg("delete", l, l))
  <2>1. PICK m : m = Msg("delete", l, l)
    OBVIOUS
  <2>0. Pairs(h) \in SUBSET Couples /\ Pairs(k) \in SUBSET Couples
    BY PairIs
  <2>2. SUFFICES ASSUME NEW a \in Pids, NEW p \in Pids
                 PROVE  <<a, p>> \in Pairs(k) <=>
                          Gives(m, <<a, p>>) \/ (<<a, p>> \in Pairs(h) /\ ~Takes(m, <<a, p>>))
    BY <2>0, <2>1, StepIs
  <2>3. ~Gives(m, <<a, p>>) /\ (Takes(m, <<a, p>>) <=> a = l)
    BY <2>1, MsgFields, GiveTake DEF Joins
  <2>4. <<a, p>> \in Pairs(k) <=> <<a, p>> \in Pairs(h) /\ p \notin x.members
    <3>1. h.map[p] \in Ids \cup {NoId}
      BY FitFacts
    <3>2. <<a, p>> \in Pairs(k) <=> k.map[p] # NoId /\ k.obj[k.map[p]].leader = a
      BY PairIs
    <3>3. <<a, p>> \in Pairs(h) <=> h.map[p] # NoId /\ h.obj[h.map[p]].leader = a
      BY PairIs
    <3>4. CASE p \in x.members
      BY <1>6, <3>2, <3>4
    <3>5. CASE p \notin x.members
      BY <1>6, <1>8, <3>1, <3>2, <3>3, <3>5
    <3>6. QED
      BY <3>4, <3>5
  <2>5. <<l, p>> \in Pairs(h) <=> p \in x.members
    BY <1>2, <1>3, FitFacts
  <2>6. <<a, p>> \in Pairs(h) /\ <<l, p>> \in Pairs(h) => a = l
    BY FitFacts DEF Unique
  <2>7. QED
    BY <2>3, <2>4, <2>5, <2>6
<1>11. JoinedToo(k, h, {})
  <2>1. SUFFICES ASSUME NEW P \in SUBSET Pids, Joined(h, P), NEW p \in P, k.map[p] # NoId
                 PROVE  k.link[p] = k.map[p]
    BY DEF JoinedToo, Joined
  <2>2. p \notin x.members /\ k.map[p] = h.map[p] /\ h.link[p] = h.map[p]
    BY <1>6, <2>1 DEF Joined
  <2>3. p \notin x.chars
    BY <1>3, <2>2 DEF Fit, Good, CharsIn
  <2>4. QED
    BY <1>6, <2>2, <2>3
<1>12. QED
  BY <1>1, <1>2, <1>4, <1>5, <1>7, <1>9, <1>10, <1>11 DEF Fit

\* A change that the db is told with one message.
Spoke(k, h, m) == /\ Fit(k) /\ Pairs(k) = Step(Pairs(h), m)
                  /\ k.out = Append(h.out, m) /\ k.odd = h.odd /\ JoinedToo(k, h, {})

LEMMA DeletePartyFit ==
  ASSUME NEW h, Fit(h), NEW id \in Ids, h.obj[id].members # {}
  PROVE  Spoke(DeleteParty(h, id), h, Msg("delete", h.obj[id].leader, h.obj[id].leader))
<1>1. PICK l \in Pids : l = h.obj[id].leader
  BY FitFacts
<1>2. PICK m \in PartyMsgs : m = Msg("delete", l, l)
  BY MsgKinds DEF PartyOps
<1>3. PICK j : j = Say(h, m)
  OBVIOUS
<1>4. /\ Fit(j) /\ Pairs(j) = Pairs(h) /\ j.out = Append(h.out, m)
      /\ j.map = h.map /\ j.link = h.link /\ j.obj = h.obj /\ j.odd = h.odd
  BY <1>3, SayFit
<1>5. PICK k : k = Destroy(j, id)
  OBVIOUS
<1>6. Fit(k) /\ Pairs(k) = Step(Pairs(j), m) /\ k.out = j.out /\ k.odd = j.odd /\ JoinedToo(k, j, {})
  BY <1>1, <1>2, <1>4, <1>5, DestroyFit
<1>7. JoinedToo(k, h, {})
  BY <1>4, <1>6 DEF JoinedToo, Joined
<1>8. DeleteParty(h, id) = k
  BY <1>1, <1>2, <1>3, <1>5 DEF DeleteParty
<1>9. QED
  BY <1>1, <1>2, <1>4, <1>6, <1>7, <1>8 DEF Spoke

\* A member, but not the leader, leaves.
LEMMA WithoutFit ==
  ASSUME NEW h, Fit(h), NEW id \in Ids, NEW p \in Pids, p \in h.obj[id].members,
         p # h.obj[id].leader
  PROVE  LET k == Without(h, id, p) IN
           /\ Fit(k) /\ Pairs(k) = Step(Pairs(h), Msg("remove", h.obj[id].leader, p))
           /\ k.out = h.out /\ k.odd = h.odd /\ JoinedToo(k, h, {})
<1>1. PICK k : k = Without(h, id, p)
  OBVIOUS
<1>2. PICK x \in Objects : x = h.obj[id]
  BY FitFacts
<1>3. PICK l \in Pids : l = x.leader /\ l \in x.members
  BY <1>2, FitFacts
<1>4. PICK y : y = Object(x.leader, x.members \ {p}, x.chars \ {p})
  OBVIOUS
<1>5. y.leader = l /\ y.members = x.members \ {p} /\ x.members \subseteq Pids
  BY <1>2, <1>3, <1>4, ObjectFields
<1>6. /\ k.obj = [h.obj EXCEPT ![id] = y] /\ k.map = [h.map EXCEPT ![p] = NoId]
      /\ k.link = [h.link EXCEPT ![p] = IF p \in x.chars THEN NoId ELSE @]
      /\ k.out = h.out
  BY <1>1, <1>2, <1>4, HeapFields DEF Without
<1>7. k.odd = h.odd
  BY <1>1 DEF Without, Heap
<1>8. /\ \A i \in Ids : k.obj[i] = IF i = id THEN y ELSE h.obj[i]
      /\ k.map[p] = NoId
      /\ \A q \in Pids : q # p => k.map[q] = h.map[q] /\ k.link[q] = h.link[q]
  BY <1>6, FitFacts
<1>9. Good(k)
  BY <1>1, WithoutKeeps DEF Fit
<1>10. /\ \A q \in Pids : q \in x.members <=> h.map[q] = id
       /\ h.map[p] = id
  BY <1>2, FitFacts
<1>11. Exact(k)
  <2>1. SUFFICES ASSUME NEW i \in Ids
                 PROVE  /\ \A q \in k.obj[i].members : k.map[q] = i
                        /\ k.obj[i].members = {} => k.obj[i] = Dead
    BY DEF Exact
  <2>2. CASE i = id
    BY <1>2, <1>3, <1>5, <1>8, <1>10, <2>2
  <2>3. CASE i # id
    <3>1. k.obj[i] = h.obj[i] /\ h.obj[i].members \subseteq Pids
      BY <1>8, <2>3, FitFacts
    <3>2. \A q \in h.obj[i].members : h.map[q] = i
      BY FitFacts
    <3>3. QED
      BY <1>8, <1>10, <2>3, <3>1, <3>2 DEF Fit, Exact
  <2>4. QED
    BY <2>2, <2>3
<1>12. Pairs(k) = Step(Pairs(h), Msg("remove", l, p))
  <2>1. PICK m : m = Msg("remove", l, p)
    OBVIOUS
  <2>0. Pairs(h) \in SUBSET Couples /\ Pairs(k) \in SUBSET Couples
    BY PairIs
  <2>2. SUFFICES ASSUME NEW a \in Pids, NEW q \in Pids
                 PROVE  <<a, q>> \in Pairs(k) <=>
                          Gives(m, <<a, q>>) \/ (<<a, q>> \in Pairs(h) /\ ~Takes(m, <<a, q>>))
    BY <2>0, <2>1, StepIs
  <2>3. ~Gives(m, <<a, q>>) /\ (Takes(m, <<a, q>>) <=> a = l /\ q = p)
    BY <2>1, MsgFields, GiveTake DEF Joins
  <2>4. <<a, q>> \in Pairs(k) <=> k.map[q] # NoId /\ k.obj[k.map[q]].leader = a
    BY PairIs
  <2>5. <<a, q>> \in Pairs(h) <=> h.map[q] # NoId /\ h.obj[h.map[q]].leader = a
    BY PairIs
  <2>6. CASE q = p
    BY <1>2, <1>3, <1>8, <1>10, <2>3, <2>4, <2>5, <2>6
  <2>7. CASE q # p
    <3>1. h.map[q] \in Ids \cup {NoId} /\ k.map[q] = h.map[q]
      BY <1>8, <2>7, FitFacts
    <3>2. h.map[q] # NoId => k.obj[k.map[q]].leader = h.obj[h.map[q]].leader
      BY <1>2, <1>3, <1>5, <1>8, <3>1
    <3>3. QED
      BY <2>3, <2>4, <2>5, <2>7, <3>1, <3>2
  <2>8. QED
    BY <2>6, <2>7
<1>13. JoinedToo(k, h, {})
  BY <1>8 DEF JoinedToo, Joined
<1>14. QED
  BY <1>1, <1>2, <1>3, <1>6, <1>7, <1>9, <1>11, <1>12, <1>13 DEF Fit

\* The leader leaves: the party ends.
LEMMA LeaderQuits ==
  ASSUME NEW h, Fit(h), NEW id \in Ids, h.obj[id].members # {}
  PROVE  Quit(h, id, h.obj[id].leader) = DeleteParty(h, id)
<1>1. PICK x \in Objects : x = h.obj[id]
  BY FitFacts
<1>2. PICK l \in Pids : l = x.leader /\ l \in x.members
  BY <1>1, FitFacts
<1>3. PICK j : j = Without(h, id, l)
  OBVIOUS
<1>4. PICK y : y = Object(x.leader, x.members \ {l}, x.chars \ {l})
  OBVIOUS
<1>5. y.leader = l /\ y.members = x.members \ {l} /\ y.chars = x.chars \ {l}
  BY <1>1, <1>2, <1>4, ObjectFields
<1>6. /\ j.obj = [h.obj EXCEPT ![id] = y] /\ j.map = [h.map EXCEPT ![l] = NoId]
      /\ j.link = [h.link EXCEPT ![l] = IF l \in x.chars THEN NoId ELSE @]
      /\ j.out = h.out
  BY <1>1, <1>3, <1>4, HeapFields DEF Without
<1>7. j.odd = h.odd
  BY <1>3 DEF Without, Heap
<1>8. PICK m : m = Msg("delete", l, l)
  OBVIOUS
<1>9. /\ j.obj[id] = y
      /\ [j.obj EXCEPT ![id] = Dead] = [h.obj EXCEPT ![id] = Dead]
  <2>1. PICK o : o = h.obj
    OBVIOUS
  <2>2. o \in [Ids -> Objects] /\ j.obj = [o EXCEPT ![id] = y]
    BY <1>6, <2>1, FitFacts
  <2>3. j.obj[id] = y /\ [j.obj EXCEPT ![id] = Dead] = [o EXCEPT ![id] = Dead]
    BY <2>2
  <2>4. QED
    BY <2>1, <2>3
<1>10. \A p \in Pids : /\ (IF p \in y.members THEN NoId ELSE j.map[p])
                           = (IF p \in x.members THEN NoId ELSE h.map[p])
                       /\ (IF p \in y.chars THEN NoId ELSE j.link[p])
                           = (IF p \in x.chars THEN NoId ELSE h.link[p])
  BY <1>2, <1>5, <1>6, FitFacts
<1>11. DeleteParty(j, id) =
         Heap([j.obj EXCEPT ![id] = Dead],
              [p \in Pids |-> IF p \in y.members THEN NoId ELSE j.map[p]],
              [p \in Pids |-> IF p \in y.chars THEN NoId ELSE j.link[p]],
              Append(j.out, m), j.odd)
  <2>1. PICK s : s = Say(j, m)
    OBVIOUS
  <2>2. s.obj = j.obj /\ s.map = j.map /\ s.link = j.link /\ s.out = Append(j.out, m) /\ s.odd = j.odd
    BY <2>1 DEF Say, Heap
  <2>3. DeleteParty(j, id) = Destroy(s, id)
    BY <1>5, <1>8, <1>9, <2>1 DEF DeleteParty
  <2>4. QED
    BY <1>9, <2>2, <2>3 DEF Destroy
<1>12. DeleteParty(h, id) =
         Heap([h.obj EXCEPT ![id] = Dead],
              [p \in Pids |-> IF p \in x.members THEN NoId ELSE h.map[p]],
              [p \in Pids |-> IF p \in x.chars THEN NoId ELSE h.link[p]],
              Append(h.out, m), h.odd)
  <2>1. PICK s : s = Say(h, m)
    OBVIOUS
  <2>2. s.obj = h.obj /\ s.map = h.map /\ s.link = h.link /\ s.out = Append(h.out, m) /\ s.odd = h.odd
    BY <2>1 DEF Say, Heap
  <2>3. DeleteParty(h, id) = Destroy(s, id)
    BY <1>1, <1>2, <1>8, <2>1 DEF DeleteParty
  <2>4. QED
    BY <1>1, <2>2, <2>3 DEF Destroy
<1>13. DeleteParty(j, id) = DeleteParty(h, id)
  BY <1>6, <1>7, <1>9, <1>10, <1>11, <1>12
<1>14. QED
  BY <1>1, <1>2, <1>3, <1>13 DEF Quit, P2PQuit

\* Anyone else leaves, or is said to.
LEMMA QuitFit ==
  ASSUME NEW h, Fit(h), NEW id \in Ids, h.obj[id].members # {}, NEW p \in Pids,
         p # h.obj[id].leader
  PROVE  Spoke(Quit(h, id, p), h, Msg("remove", h.obj[id].leader, p))
<1>1. PICK l \in Pids : l = h.obj[id].leader
  BY FitFacts
<1>2. PICK m \in PartyMsgs : m = Msg("remove", l, p)
  BY MsgKinds DEF PartyOps
<1>3. PICK j : j = P2PQuit(h, id, p)
  OBVIOUS
<1>4. Fit(j) /\ Pairs(j) = Step(Pairs(h), m) /\ j.out = h.out /\ j.odd = h.odd /\ JoinedToo(j, h, {})
  <2>1. CASE p \in h.obj[id].members
    <3>1. j = Without(h, id, p)
      BY <1>3, <2>1 DEF P2PQuit
    <3>2. QED
      BY <1>1, <1>2, <2>1, <3>1, WithoutFit
  <2>2. CASE p \notin h.obj[id].members
    <3>1. j = h
      BY <1>3, <2>2 DEF P2PQuit
    <3>2. <<l, p>> \notin Pairs(h)
      BY <1>1, <2>2, FitFacts
    <3>3. ASSUME NEW a \in Pids, NEW q \in Pids
          PROVE  ~Gives(m, <<a, q>>) /\ (Takes(m, <<a, q>>) => a = l /\ q = p)
      <4>1. m.op = "remove" /\ m.leader = l /\ m.pid = p
        BY <1>2, MsgFields
      <4>2. QED
        BY <4>1, GiveTake DEF Joins
    <3>4. Pairs(h) = Step(Pairs(h), m)
      <4>1. PICK B \in SUBSET Couples : B = Pairs(h)
        BY PairIs
      <4>2. \A a, q \in Pids :
              <<a, q>> \in B <=> Gives(m, <<a, q>>) \/ (<<a, q>> \in B /\ ~Takes(m, <<a, q>>))
        BY <3>2, <3>3, <4>1
      <4>3. QED
        BY <4>1, <4>2, StepIs
    <3>5. JoinedToo(h, h, {})
      BY DEF JoinedToo, Joined
    <3>6. QED
      BY <3>1, <3>4, <3>5
  <2>3. QED
    BY <2>1, <2>2
<1>5. PICK k : k = Say(j, m)
  OBVIOUS
<1>6. /\ Fit(k) /\ Pairs(k) = Pairs(j) /\ k.out = Append(j.out, m)
      /\ k.map = j.map /\ k.link = j.link /\ k.odd = j.odd
  BY <1>4, <1>5, SayFit
<1>7. JoinedToo(k, h, {})
  BY <1>4, <1>6 DEF JoinedToo, Joined
<1>8. Quit(h, id, p) = k
  BY <1>1, <1>2, <1>3, <1>5 DEF Quit
<1>9. QED
  BY <1>1, <1>2, <1>4, <1>6, <1>7, <1>8 DEF Spoke

\* A player joins who is in no other party.
LEMMA P2PJoinFit ==
  ASSUME NEW h, Fit(h), NEW id \in Ids, NEW p \in Pids, h.map[p] \in {NoId, id}
  PROVE  LET k == P2PJoin(h, id, p)
             l == Leading(h, id, p)
         IN /\ l \in Pids /\ Fit(k) /\ Pairs(k) = Step(Pairs(h), Msg("add", l, p))
            /\ k.out = h.out /\ k.odd = h.odd /\ k.link = h.link
            /\ k.map = [h.map EXCEPT ![p] = id]
            /\ k.obj[id].leader = l /\ p \in k.obj[id].members
<1>1. PICK k : k = P2PJoin(h, id, p)
  OBVIOUS
<1>2. PICK l : l = Leading(h, id, p)
  OBVIOUS
<1>3. PICK j : j = Entered(h, id, p)
  OBVIOUS
<1>4. /\ l \in Pids /\ j.obj[id].leader = l /\ j.obj[id].members = h.obj[id].members \cup {p}
      /\ \A i \in Ids : i # id => j.obj[i] = h.obj[i]
      /\ j.map = h.map /\ j.link = h.link /\ j.out = h.out /\ j.odd = h.odd
      /\ k = IF p \in h.obj[id].members THEN h ELSE SetPartyMember(j, p, id)
  BY <1>1, <1>2, <1>3, EnteredKeeps DEF Fit
<1>5. h.obj[id].members # {} => l = h.obj[id].leader
  BY <1>2 DEF Leading
<1>6. PICK m : m = Msg("add", l, p)
  OBVIOUS
<1>7. \A a, q \in Pids : /\ Gives(m, <<a, q>>) <=> a = l /\ q = p
                         /\ ~Takes(m, <<a, q>>)
  <2>1. m.op = "add" /\ m.leader = l /\ m.pid = p
    BY <1>6, MsgFields
  <2>2. QED
    BY <2>1, GiveTake DEF Joins
<1>8. PICK B \in SUBSET Couples : B = Pairs(h)
  BY PairIs
<1>9. CASE p \in h.obj[id].members
  <2>1. k = h /\ h.map[p] = id /\ l = h.obj[id].leader
    BY <1>4, <1>5, <1>9, FitFacts
  <2>2. h.map = [h.map EXCEPT ![p] = id]
    BY <2>1, FitFacts
  <2>3. <<l, p>> \in B
    BY <1>8, <1>9, <2>1, FitFacts
  <2>4. \A a, q \in Pids : <<a, q>> \in B <=> Gives(m, <<a, q>>) \/ (<<a, q>> \in B /\ ~Takes(m, <<a, q>>))
    BY <1>7, <2>3
  <2>5. B = Step(B, m)
    BY <2>4, StepIs
  <2>6. QED
    BY <1>1, <1>2, <1>4, <1>6, <1>8, <1>9, <2>1, <2>2, <2>5
<1>10. CASE p \notin h.obj[id].members
  <2>1. h.map[p] = NoId
    BY <1>10, FitFacts
  <2>2. k = Heap(j.obj, [h.map EXCEPT ![p] = id], h.link, h.out, h.odd)
    BY <1>4, <1>10, <2>1 DEF SetPartyMember
  <2>3. /\ k.obj = j.obj /\ k.map = [h.map EXCEPT ![p] = id] /\ k.link = h.link
        /\ k.out = h.out
    BY <2>2, HeapFields
  <2>4. k.odd = h.odd
    BY <2>2 DEF Heap
  <2>5. /\ k.map[p] = id /\ \A q \in Pids : q # p => k.map[q] = h.map[q]
    BY <2>3, FitFacts
  <2>6. Good(k)
    BY <1>1, P2PJoinKeeps DEF Fit
  <2>7. Exact(k)
    <3>1. SUFFICES ASSUME NEW i \in Ids
                   PROVE  /\ \A q \in k.obj[i].members : k.map[q] = i
                          /\ k.obj[i].members = {} => k.obj[i] = Dead
      BY DEF Exact
    <3>2. h.obj[i].members \subseteq Pids /\ \A q \in h.obj[i].members : h.map[q] = i
      BY FitFacts
    <3>3. CASE i = id
      BY <1>4, <2>3, <2>5, <3>2, <3>3
    <3>4. CASE i # id
      BY <1>4, <2>1, <2>3, <2>5, <3>2, <3>4, NullAssumption DEF Fit, Exact
    <3>5. QED
      BY <3>3, <3>4
  <2>8. PICK C \in SUBSET Couples : C = Pairs(k)
    BY PairIs
  <2>9. ASSUME NEW a \in Pids, NEW q \in Pids
        PROVE  <<a, q>> \in C <=> Gives(m, <<a, q>>) \/ (<<a, q>> \in B /\ ~Takes(m, <<a, q>>))
    <3>1. <<a, q>> \in C <=> k.map[q] # NoId /\ k.obj[k.map[q]].leader = a
      BY <2>8, PairIs
    <3>2. <<a, q>> \in B <=> h.map[q] # NoId /\ h.obj[h.map[q]].leader = a
      BY <1>8, PairIs
    <3>3. CASE q = p
      BY <1>4, <1>7, <2>1, <2>3, <2>5, <3>1, <3>2, <3>3, NullAssumption
    <3>4. CASE q # p
      <4>1. h.map[q] \in Ids \cup {NoId} /\ k.map[q] = h.map[q]
        BY <2>5, <3>4, FitFacts
      <4>2. h.map[q] = id => h.obj[id].leader = l
        BY <1>5, FitFacts
      <4>3. h.map[q] # NoId => k.obj[k.map[q]].leader = h.obj[h.map[q]].leader
        BY <1>4, <2>3, <4>1, <4>2
      <4>4. QED
        BY <1>7, <3>1, <3>2, <3>4, <4>1, <4>3
    <3>5. QED
      BY <3>3, <3>4
  <2>10. C = Step(B, m)
    BY <2>9, StepIs
  <2>11. QED
    BY <1>1, <1>2, <1>4, <1>6, <1>8, <2>3, <2>4, <2>6, <2>7, <2>8, <2>10 DEF Fit
<1>11. QED
  BY <1>9, <1>10

Joining(k, h, id, p, l) ==
  /\ l \in Pids /\ Fit(k) /\ Pairs(k) = Step(Pairs(h), Msg("add", l, p))
  /\ k.out = Append(h.out, Msg("add", l, p)) /\ k.odd = h.odd /\ k.link = h.link
  /\ k.map = [h.map EXCEPT ![p] = id]
  /\ k.obj[id].leader = l /\ p \in k.obj[id].members

LEMMA JoinFit ==
  ASSUME NEW h, Fit(h), NEW id \in Ids, NEW p \in Pids, h.map[p] \in {NoId, id}
  PROVE  Joining(Join(h, id, p), h, id, p, Leading(h, id, p))
<1>1. PICK l : l = Leading(h, id, p)
  OBVIOUS
<1>2. PICK j : j = P2PJoin(h, id, p)
  OBVIOUS
<1>3. /\ l \in Pids /\ Fit(j) /\ Pairs(j) = Step(Pairs(h), Msg("add", l, p))
      /\ j.out = h.out /\ j.odd = h.odd /\ j.link = h.link
      /\ j.map = [h.map EXCEPT ![p] = id]
      /\ j.obj[id].leader = l /\ p \in j.obj[id].members
  BY <1>1, <1>2, P2PJoinFit
<1>4. PICK m \in PartyMsgs : m = Msg("add", l, p)
  BY <1>3, MsgKinds DEF PartyOps
<1>5. PICK k : k = Say(j, m)
  OBVIOUS
<1>6. /\ Fit(k) /\ Pairs(k) = Pairs(j) /\ k.out = Append(j.out, m)
      /\ k.map = j.map /\ k.link = j.link /\ k.obj = j.obj /\ k.odd = j.odd
  BY <1>3, <1>5, SayFit
<1>7. Join(h, id, p) = k
  BY <1>2, <1>3, <1>4, <1>5 DEF Join
<1>8. QED
  BY <1>1, <1>3, <1>4, <1>6, <1>7 DEF Joining

\* The character of a player that is in a party points at it.
JoinedAlso(k, h, In) == \A P \in SUBSET Pids : Joined(h, P) => Joined(k, P \cup In)

Linking(k, h, id, p) ==
  /\ Fit(k) /\ Pairs(k) = Pairs(h) /\ k.odd = h.odd /\ k.map = h.map
  /\ k.out = Append(h.out, Msg("level", h.obj[id].leader, p))
  /\ k.link[p] = id /\ OneLink(k, h, p) /\ JoinedAlso(k, h, {p})
  /\ \A i \in Ids : k.obj[i].leader = h.obj[i].leader /\ k.obj[i].members = h.obj[i].members

LEMMA LinkFit ==
  ASSUME NEW h, Fit(h), NEW id \in Ids, NEW p \in Pids, h.link[p] \in {NoId, id},
         p \in h.obj[id].members
  PROVE  Linking(Link(h, id, p), h, id, p)
<1>1. PICK k : k = Link(h, id, p)
  OBVIOUS
<1>2. PICK x \in Objects : x = h.obj[id]
  BY FitFacts
<1>3. x.leader \in Pids /\ x.members \subseteq Pids /\ x.chars \subseteq Pids
  BY <1>2, FitFacts, ObjectFields
<1>4. PICK y : y = Object(x.leader, x.members, x.chars \cup {p})
  OBVIOUS
<1>5. y.leader = x.leader /\ y.members = x.members
  BY <1>3, <1>4, ObjectFields
<1>6. PICK j : j = Heap([h.obj EXCEPT ![id] = y], h.map, [h.link EXCEPT ![p] = id], h.out, h.odd)
  OBVIOUS
<1>7. j.obj = [h.obj EXCEPT ![id] = y] /\ j.map = h.map /\ j.out = h.out
  BY <1>6, HeapFields
<1>8. j.odd = h.odd
  BY <1>6 DEF Heap
<1>9. PICK m : m = Msg("level", x.leader, p)
  OBVIOUS
<1>10. k = Say(j, m)
  BY <1>1, <1>2, <1>4, <1>6, <1>9 DEF Link
<1>11. k.obj = j.obj /\ k.map = h.map /\ k.out = Append(h.out, m) /\ k.odd = h.odd
  BY <1>7, <1>8, <1>10 DEF Say, Heap
<1>12. \A i \in Ids : /\ k.obj[i].leader = h.obj[i].leader
                      /\ k.obj[i].members = h.obj[i].members
                      /\ i # id => k.obj[i] = h.obj[i]
  BY <1>2, <1>5, <1>7, <1>11, FitFacts
<1>13. Good(k) /\ OneLink(k, h, p) /\ k.link[p] = id
  BY <1>1, LinkKeeps DEF Fit
<1>14. Fit(k) /\ Pairs(k) = Pairs(h)
  <2>1. h.obj[id].members # {}
    OBVIOUS
  <2>2. \A i \in Ids : k.obj[i].members = {} => k.obj[i] = h.obj[i]
    BY <1>12, <2>1
  <2>3. QED
    BY <1>11, <1>12, <1>13, <2>2, FitSame
<1>15. JoinedAlso(k, h, {p})
  <2>1. h.map[p] = id
    BY FitFacts
  <2>2. QED
    BY <1>11, <1>13, <2>1 DEF JoinedAlso, Joined, OneLink
<1>16. QED
  BY <1>1, <1>2, <1>9, <1>11, <1>12, <1>13, <1>14, <1>15 DEF Linking

Unlinking(k, h, p) ==
  /\ Fit(k) /\ Pairs(k) = Pairs(h) /\ k.odd = h.odd
  /\ k.out = h.out /\ JoinedToo(k, h, {p})

LEMMA UnlinkedFit ==
  ASSUME NEW h, Fit(h), NEW p \in Pids
  PROVE  Unlinking(Unlinked(h, p), h, p)
<1>1. PICK k : k = Unlinked(h, p)
  OBVIOUS
<1>2. Good(k) /\ k.out = h.out /\ OneLink(k, h, p)
  BY <1>1, UnlinkKeeps DEF Fit
<1>3. CASE h.link[p] = NoId
  <2>1. k = h
    BY <1>1, <1>3 DEF Unlinked
  <2>2. QED
    BY <1>1, <2>1 DEF Unlinking, JoinedToo, Joined
<1>4. CASE h.link[p] # NoId
  <2>1. PICK id \in Ids : id = h.link[p]
    BY <1>4, FitFacts
  <2>2. PICK x \in Objects : x = h.obj[id]
    BY FitFacts
  <2>3. p \in x.members /\ x.leader \in Pids /\ x.members \subseteq Pids /\ x.chars \subseteq Pids
    <3>1. p \in x.members
      BY <2>1, <2>2 DEF Fit, Good, LinksMeet, CharsIn
    <3>2. QED
      BY <2>2, <3>1, FitFacts, ObjectFields
  <2>4. PICK y : y = Object(x.leader, x.members, x.chars \ {p})
    OBVIOUS
  <2>5. y.leader = x.leader /\ y.members = x.members
    BY <2>3, <2>4, ObjectFields
  <2>6. k = Heap([h.obj EXCEPT ![id] = y], h.map, [h.link EXCEPT ![p] = NoId], h.out, h.odd)
    BY <1>1, <1>4, <2>1, <2>2, <2>3, <2>4 DEF Unlinked, Unlink
  <2>7. k.obj = [h.obj EXCEPT ![id] = y] /\ k.map = h.map
    BY <2>6, HeapFields
  <2>8. k.odd = h.odd
    BY <2>6 DEF Heap
  <2>9. \A i \in Ids : /\ k.obj[i].leader = h.obj[i].leader
                       /\ k.obj[i].members = h.obj[i].members
                       /\ k.obj[i].members = {} => k.obj[i] = h.obj[i]
    BY <2>2, <2>3, <2>5, <2>7, FitFacts
  <2>10. Fit(k) /\ Pairs(k) = Pairs(h)
    BY <1>2, <2>7, <2>9, FitSame
  <2>11. JoinedToo(k, h, {p})
    BY <1>2, <2>7 DEF JoinedToo, Joined, OneLink
  <2>12. QED
    BY <1>1, <1>2, <2>7, <2>8, <2>10, <2>11 DEF Unlinking
<1>5. QED
  BY <1>3, <1>4

\* Two messages: q has joined l, and its level.
Inviting(k, h, l, q) ==
  /\ l \in Pids /\ Fit(k) /\ Pairs(k) = Step(Pairs(h), Msg("add", l, q)) /\ k.odd = h.odd
  /\ k.out = Append(Append(h.out, Msg("add", l, q)), Msg("level", l, q))
  /\ JoinedAlso(k, h, {q})

LEMMA InvitedFit ==
  ASSUME NEW h, Fit(h), NEW id \in Ids, h.obj[id].members # {}, NEW q \in Pids,
         h.map[q] = NoId, h.link[q] = NoId
  PROVE  Inviting(Link(Join(h, id, q), id, q), h, h.obj[id].leader, q)
<1>1. PICK l \in Pids : l = h.obj[id].leader /\ l = Leading(h, id, q)
  BY FitFacts DEF Leading
<1>2. PICK m : m = Msg("add", l, q)
  OBVIOUS
<1>3. PICK j : j = Join(h, id, q)
  OBVIOUS
<1>4. /\ Fit(j) /\ Pairs(j) = Step(Pairs(h), m)
      /\ j.out = Append(h.out, m) /\ j.odd = h.odd /\ j.link = h.link
      /\ j.map = [h.map EXCEPT ![q] = id]
      /\ j.obj[id].leader = l /\ q \in j.obj[id].members
  <2>1. Joining(j, h, id, q, l)
    BY <1>1, <1>3, JoinFit
  <2>2. QED
    BY <1>2, <2>1 DEF Joining
<1>5. PICK k : k = Link(j, id, q)
  OBVIOUS
<1>6. j.link[q] \in {NoId, id}
  BY <1>4
<1>7. /\ Fit(k) /\ Pairs(k) = Pairs(j) /\ k.odd = j.odd
      /\ k.out = Append(j.out, Msg("level", l, q))
      /\ k.map = j.map /\ k.link[q] = id /\ OneLink(k, j, q)
  <2>1. Linking(k, j, id, q)
    BY <1>4, <1>5, <1>6, LinkFit
  <2>2. QED
    BY <1>4, <2>1 DEF Linking
<1>8. JoinedAlso(k, h, {q})
  <2>1. k.map[q] = id /\ \A p \in Pids : p # q => k.map[p] = h.map[p] /\ k.link[p] = h.link[p]
    BY <1>4, <1>7, FitFacts DEF OneLink
  <2>2. QED
    BY <1>7, <2>1 DEF JoinedAlso, Joined
<1>9. QED
  BY <1>1, <1>2, <1>3, <1>4, <1>5, <1>7, <1>8 DEF Inviting

Creating(k, h, p) ==
  LET m == Msg("create", p, p)
      n == Msg("add", p, p)
  IN /\ Fit(k) /\ Pairs(k) = Step(Step(Pairs(h), m), n) /\ k.odd = h.odd
     /\ k.out = Append(Append(Append(h.out, m), n), Msg("level", p, p))
     /\ k.link[p] \in Ids /\ k.obj[k.link[p]].leader = p
     /\ k.obj[k.link[p]].members # {}
     /\ \A q \in Pids : q # p => k.map[q] = h.map[q] /\ k.link[q] = h.link[q]
     /\ JoinedAlso(k, h, {p})

LEMMA CreateFit ==
  ASSUME NEW h, Fit(h), Room(h), NEW p \in Pids, h.map[p] = NoId, h.link[p] = NoId
  PROVE  Creating(CreateParty(h, p), h, p)
<1>1. PICK m \in PartyMsgs : m = Msg("create", p, p)
  BY MsgKinds DEF PartyOps
<1>2. PICK n : n = Msg("add", p, p)
  OBVIOUS
<1>3. PICK id \in Ids : id = New(h) /\ h.obj[id] = Dead
  BY NewFacts
<1>4. PICK a : a = Say(h, m)
  OBVIOUS
<1>5. /\ Fit(a) /\ Pairs(a) = Pairs(h) /\ a.out = Append(h.out, m)
      /\ a.map = h.map /\ a.link = h.link /\ a.obj = h.obj /\ a.odd = h.odd
  BY <1>4, SayFit
<1>6. Leading(a, id, p) = p
  BY <1>3, <1>5, ObjectFields DEF Leading
<1>7. a.map[p] \in {NoId, id}
  BY <1>5
<1>8. PICK b : b = Join(a, id, p)
  OBVIOUS
<1>9. /\ Fit(b) /\ Pairs(b) = Step(Pairs(a), n)
      /\ b.out = Append(a.out, n) /\ b.odd = a.odd /\ b.link = a.link
      /\ b.map = [a.map EXCEPT ![p] = id]
      /\ b.obj[id].leader = p /\ p \in b.obj[id].members
  <2>1. Joining(b, a, id, p, p)
    BY <1>5, <1>6, <1>7, <1>8, JoinFit
  <2>2. QED
    BY <1>2, <2>1 DEF Joining
<1>10. PICK k : k = Link(b, id, p)
  OBVIOUS
<1>11. b.link[p] \in {NoId, id}
  BY <1>5, <1>9
<1>12. /\ Fit(k) /\ Pairs(k) = Pairs(b) /\ k.odd = b.odd /\ k.map = b.map
       /\ k.out = Append(b.out, Msg("level", p, p))
       /\ k.link[p] = id /\ OneLink(k, b, p)
       /\ k.obj[id].leader = p /\ k.obj[id].members = b.obj[id].members
  <2>1. Linking(k, b, id, p)
    BY <1>9, <1>10, <1>11, LinkFit
  <2>2. QED
    BY <1>9, <2>1 DEF Linking
<1>13. \A q \in Pids : q # p => k.map[q] = h.map[q] /\ k.link[q] = h.link[q]
  BY <1>5, <1>9, <1>12, FitFacts DEF OneLink
<1>14. k.map[p] = id
  BY <1>5, <1>9, <1>12, FitFacts
<1>15. JoinedAlso(k, h, {p})
  BY <1>12, <1>13, <1>14 DEF JoinedAlso, Joined
<1>16. CreateParty(h, p) = k
  BY <1>1, <1>3, <1>4, <1>8, <1>10 DEF CreateParty
<1>17. k.obj[id].members # {}
  BY <1>9, <1>12
<1>18. Creating(k, h, p)
  <2>1. Pairs(k) = Step(Step(Pairs(h), m), n)
    <3>1. Step(Pairs(a), n) = Step(Step(Pairs(h), m), n)
      <4>1. \A x \in Couples : x \in Step(Step(Pairs(h), m), n) <=> x \in Step(Pairs(h), n)
        <5>1. \A x : Gives(m, x) <=> Gives(n, x)
          BY <1>1, <1>2, MsgFields DEF Gives, Joins
        <5>2. \A x : ~Takes(m, x)
          BY <1>1, MsgFields DEF Takes
        <5>3. QED
          BY <5>1, <5>2 DEF Step
      <4>2. QED
        BY <1>5, <4>1 DEF Step
    <3>2. QED
      BY <1>9, <1>12, <3>1
  <2>2. k.out = Append(Append(Append(h.out, m), n), Msg("level", p, p)) /\ k.odd = h.odd
    BY <1>5, <1>9, <1>12
  <2>3. k.link[p] \in Ids /\ k.obj[k.link[p]].leader = p /\ k.obj[k.link[p]].members # {}
    BY <1>12, <1>17
  <2>4. QED
    BY <1>1, <1>2, <1>12, <1>13, <1>15, <2>1, <2>2, <2>3 DEF Creating
<1>19. QED
  BY <1>16, <1>18

\* Five messages: the party of p, with q.
Founding(k, h, p, q) ==
  LET m == Msg("create", p, p)
      n == Msg("add", p, p)
      o == Msg("add", p, q)
  IN /\ Fit(k) /\ Pairs(k) = Step(Step(Step(Pairs(h), m), n), o) /\ k.odd = h.odd
     /\ k.out = Append(Append(Append(Append(Append(h.out, m), n), Msg("level", p, p)), o),
                       Msg("level", p, q))
     /\ JoinedAlso(k, h, {p, q})

LEMMA FoundFit ==
  ASSUME NEW h, Fit(h), Room(h), NEW p \in Pids, NEW q \in Pids, p # q,
         h.map[p] = NoId, h.link[p] = NoId, h.map[q] = NoId, h.link[q] = NoId
  PROVE  Founding(Found(h, p, q), h, p, q)
<1>1. PICK m : m = Msg("create", p, p)
  OBVIOUS
<1>2. PICK n : n = Msg("add", p, p)
  OBVIOUS
<1>3. PICK o : o = Msg("add", p, q)
  OBVIOUS
<1>4. PICK a : a = CreateParty(h, p)
  OBVIOUS
<1>5. /\ Fit(a) /\ Pairs(a) = Step(Step(Pairs(h), m), n) /\ a.odd = h.odd
      /\ a.out = Append(Append(Append(h.out, m), n), Msg("level", p, p))
      /\ a.link[p] \in Ids /\ a.obj[a.link[p]].leader = p
      /\ a.obj[a.link[p]].members # {}
      /\ a.map[q] = NoId /\ a.link[q] = NoId
      /\ JoinedAlso(a, h, {p})
  <2>1. Creating(a, h, p)
    BY <1>4, CreateFit
  <2>2. QED
    BY <1>1, <1>2, <2>1 DEF Creating
<1>6. PICK id \in Ids : id = a.link[p]
  BY <1>5
<1>7. PICK k : k = Link(Join(a, id, q), id, q)
  OBVIOUS
<1>8. /\ Fit(k) /\ Pairs(k) = Step(Pairs(a), o) /\ k.odd = a.odd
      /\ k.out = Append(Append(a.out, o), Msg("level", p, q))
      /\ JoinedAlso(k, a, {q})
  <2>1. Inviting(k, a, p, q)
    BY <1>5, <1>6, <1>7, InvitedFit
  <2>2. QED
    BY <1>3, <2>1 DEF Inviting
<1>9. JoinedAlso(k, h, {p, q})
  <2>1. SUFFICES ASSUME NEW P \in SUBSET Pids, Joined(h, P)
                 PROVE  Joined(k, P \cup {p, q})
    BY DEF JoinedAlso
  <2>2. Joined(a, P \cup {p})
    BY <1>5, <2>1 DEF JoinedAlso
  <2>3. Joined(k, (P \cup {p}) \cup {q})
    BY <1>8, <2>2 DEF JoinedAlso
  <2>4. QED
    BY <2>3 DEF Joined
<1>10. Found(h, p, q) = k
  BY <1>4, <1>6, <1>7 DEF Found
<1>11. Founding(k, h, p, q)
  BY <1>1, <1>2, <1>3, <1>5, <1>8, <1>9 DEF Founding
<1>12. QED
  BY <1>10, <1>11

\* A message that the game understands has its effect.
Handling(k, h, m) ==
  /\ Fit(k) /\ Pairs(k) = Step(Pairs(h), m) /\ k.out = h.out
  /\ Joins(m) => <<m.leader, m.leader>> \in Pairs(k)
  /\ m.op = "level" => k = h
  /\ JoinedToo(k, h, IF Joins(m) THEN {m.pid} ELSE {})

LEMMA HandledFit ==
  ASSUME NEW h, Fit(h), Room(h), NEW m \in PartyMsgs, ~Handled(h, m).odd,
         Joins(m) => \A k \in Pids : k # m.leader => <<k, m.pid>> \notin Pairs(h),
         m.op = "create" => m.pid = m.leader /\ <<m.leader, m.leader>> \notin Pairs(h),
         Joins(m) \/ m.op = "delete" =>
           \A k \in Pids : k # m.leader => <<k, m.leader>> \notin Pairs(h),
         m.op = "remove" => m.pid # m.leader
  PROVE  Handling(Handled(h, m), h, m)
<1>1. PICK l \in Pids : l = m.leader
  BY DEF PartyMsgs
<1>2. PICK p \in Pids : p = m.pid
  BY DEF PartyMsgs
<1>3. m.op \in PartyOps /\ m = Msg(m.op, l, p)
  BY <1>1, <1>2 DEF PartyMsgs, Msg
<1>4. PICK k : k = Handled(h, m)
  OBVIOUS
<1>5. ~k.odd
  BY <1>4
<1>6. \A j : Odd(j).odd
  BY DEF Odd, Heap
<1>7. JoinedToo(h, h, {})
  BY DEF JoinedToo, Joined
<1>8. CASE m.op = "create"
  <2>1. p = l /\ Joins(m) /\ m = Msg("create", l, l)
    BY <1>1, <1>2, <1>3, <1>8 DEF Joins
  <2>2. h.map[l] = NoId
    BY <1>1, <1>2, <1>8, <2>1, NoPairs
  <2>3. PICK id \in Ids : id = New(h) /\ h.obj[id] = Dead
    BY NewFacts
  <2>4. k = P2PJoin(h, id, l)
    BY <1>1, <1>4, <1>8, <2>2, <2>3 DEF Handled, P2PCreateParty
  <2>5. Leading(h, id, l) = l
    BY <2>3, ObjectFields DEF Leading
  <2>6. h.map[l] \in {NoId, id}
    BY <2>2
  <2>7. /\ Fit(k) /\ Pairs(k) = Step(Pairs(h), Msg("add", l, l)) /\ k.out = h.out
        /\ k.link = h.link /\ k.map = [h.map EXCEPT ![l] = id]
        /\ k.obj[id].leader = l
    BY <2>4, <2>5, <2>6, P2PJoinFit
  <2>8. Step(Pairs(h), Msg("add", l, l)) = Step(Pairs(h), m)
    <3>1. \A x : /\ Gives(Msg("add", l, l), x) <=> Gives(m, x)
                 /\ Takes(Msg("add", l, l), x) <=> Takes(m, x)
      BY <2>1, MsgFields DEF Gives, Takes, Joins
    <3>2. QED
      BY <3>1 DEF Step
  <2>9. k.map[l] = id /\ \A q \in Pids : q # l => k.map[q] = h.map[q]
    BY <2>7, FitFacts
  <2>10. <<l, l>> \in Pairs(k)
    BY <2>7, <2>9, PairIs, NullAssumption
  <2>11. JoinedToo(k, h, {l})
    BY <2>7, <2>9 DEF JoinedToo, Joined
  <2>12. QED
    BY <1>1, <1>2, <1>4, <1>8, <2>1, <2>7, <2>8, <2>10, <2>11 DEF Handling
<1>9. CASE m.op = "delete"
  <2>1. k = P2PDeleteParty(h, l)
    BY <1>1, <1>4, <1>9 DEF Handled
  <2>2. h.map[l] # NoId
    BY <1>5, <1>6, <2>1 DEF P2PDeleteParty
  <2>3. PICK id \in Ids : id = h.map[l]
    BY <2>2, FitFacts
  <2>4. h.obj[id].members # {} /\ h.obj[id].leader = l
    <3>1. h.obj[id].members # {} /\ h.obj[id].leader \in Pids
      BY <2>3, FitFacts
    <3>2. <<h.obj[id].leader, l>> \in Pairs(h)
      BY <2>2, <2>3, <3>1, PairIs
    <3>3. QED
      BY <1>1, <1>9, <3>1, <3>2
  <2>5. k = Destroy(h, id)
    BY <2>1, <2>2, <2>3 DEF P2PDeleteParty
  <2>6. /\ Fit(k) /\ Pairs(k) = Step(Pairs(h), Msg("delete", l, l))
        /\ k.out = h.out /\ JoinedToo(k, h, {})
    BY <2>4, <2>5, DestroyFit
  <2>7. Step(Pairs(h), Msg("delete", l, l)) = Step(Pairs(h), m)
    <3>1. \A x : /\ Gives(Msg("delete", l, l), x) <=> Gives(m, x)
                 /\ Takes(Msg("delete", l, l), x) <=> Takes(m, x)
      BY <1>1, <1>9, MsgFields DEF Gives, Takes, Joins
    <3>2. QED
      BY <3>1 DEF Step
  <2>8. ~Joins(m)
    BY <1>9 DEF Joins
  <2>9. QED
    BY <1>1, <1>4, <1>9, <2>2, <2>6, <2>7, <2>8 DEF Handling
<1>10. CASE m.op = "add"
  <2>1. k = P2PJoinParty(h, l, p)
    BY <1>1, <1>2, <1>4, <1>10 DEF Handled
  <2>2. h.map[l] # NoId
    BY <1>5, <1>6, <2>1 DEF P2PJoinParty
  <2>3. PICK id \in Ids : id = h.map[l]
    BY <2>2, FitFacts
  <2>4. h.obj[id].members # {} /\ h.obj[id].leader = l
    <3>1. h.obj[id].members # {} /\ h.obj[id].leader \in Pids
      BY <2>3, FitFacts
    <3>2. <<h.obj[id].leader, l>> \in Pairs(h)
      BY <2>2, <2>3, <3>1, PairIs
    <3>3. QED
      BY <1>1, <1>10, <3>1, <3>2 DEF Joins
  <2>5. k = P2PJoin(h, id, p) /\ Leading(h, id, p) = l
    BY <2>1, <2>2, <2>3, <2>4 DEF P2PJoinParty, Leading
  <2>6. h.map[p] \in {NoId, id}
    <3>1. SUFFICES ASSUME h.map[p] \in Ids PROVE h.map[p] = id
      BY FitFacts
    <3>2. PICK i \in Ids : i = h.map[p]
      BY <3>1
    <3>3. h.obj[i].members # {} /\ h.obj[i].leader \in Pids
      BY <3>2, FitFacts
    <3>4. <<h.obj[i].leader, p>> \in Pairs(h)
      BY <3>2, <3>3, PairIs, NullAssumption
    <3>5. <<l, p>> \in Pairs(h)
      BY <1>1, <1>2, <1>10, <3>3, <3>4 DEF Joins
    <3>6. QED
      BY <2>4, <3>5, FitFacts
  <2>7. /\ Fit(k) /\ Pairs(k) = Step(Pairs(h), m) /\ k.out = h.out
        /\ k.link = h.link /\ k.map = [h.map EXCEPT ![p] = id]
        /\ k.obj[id].leader = l
    BY <1>3, <1>10, <2>5, <2>6, P2PJoinFit
  <2>8. k.map[l] = id /\ \A q \in Pids : q # p => k.map[q] = h.map[q]
    BY <2>3, <2>7, FitFacts
  <2>9. <<l, l>> \in Pairs(k)
    BY <2>7, <2>8, PairIs, NullAssumption
  <2>10. JoinedToo(k, h, {p})
    BY <2>7, <2>8 DEF JoinedToo, Joined
  <2>11. QED
    BY <1>1, <1>2, <1>4, <1>10, <2>2, <2>7, <2>9, <2>10 DEF Joins, Handling
<1>11. CASE m.op = "remove"
  <2>1. k = P2PQuitParty(h, l, p) /\ p # l
    BY <1>1, <1>2, <1>4, <1>11 DEF Handled
  <2>2. h.map[p] # NoId
    BY <1>5, <1>6, <2>1 DEF P2PQuitParty
  <2>3. PICK id \in Ids : id = h.map[p]
    BY <2>2, FitFacts
  <2>4. h.obj[id].leader = l
    BY <1>5, <1>6, <2>1, <2>2, <2>3 DEF P2PQuitParty
  <2>5. p \in h.obj[id].members
    BY <2>3, FitFacts
  <2>6. k = Without(h, id, p)
    BY <2>1, <2>2, <2>3, <2>4, <2>5 DEF P2PQuitParty, P2PQuit
  <2>7. Fit(k) /\ Pairs(k) = Step(Pairs(h), m) /\ k.out = h.out /\ JoinedToo(k, h, {})
    BY <1>3, <1>11, <2>1, <2>4, <2>5, <2>6, WithoutFit
  <2>8. ~Joins(m)
    BY <1>11 DEF Joins
  <2>9. QED
    BY <1>1, <1>2, <1>4, <1>11, <2>2, <2>7, <2>8 DEF Handling
<1>12. CASE m.op = "level"
  <2>1. k = Leveled(h, l)
    BY <1>1, <1>4, <1>12 DEF Handled
  <2>2. k = h /\ h.map[l] # NoId
    BY <1>5, <1>6, <2>1 DEF Leveled
  <2>3. Neutral(m) /\ ~Joins(m)
    BY <1>12 DEF Neutral, Joins
  <2>4. Step(Pairs(h), m) = Pairs(h)
    BY <2>3, StepFacts, PairIs
  <2>5. QED
    BY <1>1, <1>4, <1>7, <1>12, <2>2, <2>3, <2>4 DEF Handling
<1>13. QED
  BY <1>3, <1>8, <1>9, <1>10, <1>11, <1>12 DEF PartyOps

LEMMA EnterGameDoomed ==
  ASSUME Inv, NEW p \in Pids, EnterGame(p)
  PROVE  Lasts
<1>1. PICK g : g = at[p]
  OBVIOUS
<1>2. PICK k : k = IF heap[g].map[p] = NoId THEN heap[g] ELSE Link(heap[g], heap[g].map[p], p)
  OBVIOUS
<1>3. g \in Games /\ p \notin ingame /\ Local(g, k) /\ at' = at
  BY <1>1, <1>2 DEF EnterGame, Inv, Types
<1>4. Good(heap[g]) /\ heap[g].map \in [Pids -> Ids \cup {NoId}]
  BY <1>3, OutTypes DEF Good, Typed
<1>5. Good(k)
  <2>1. heap[g].link[p] = NoId
    BY <1>3 DEF Inv, HeapsGood, Linked
  <2>2. CASE heap[g].map[p] = NoId
    BY <1>2, <1>4, <2>2
  <2>3. CASE heap[g].map[p] # NoId
    BY <1>2, <1>4, <2>1, <2>3, LinkKeeps
  <2>4. QED
    BY <2>2, <2>3
<1>6. \A l \in Pids : Rough(k, heap[g], l) /\ Unmet(k, heap[g], l)
  <2>1. CASE heap[g].map[p] = NoId
    BY <1>2, <2>1, RoughSame DEF Unmet
  <2>2. CASE heap[g].map[p] # NoId
    BY <1>2, <1>4, <2>2, LinkRough
  <2>3. QED
    BY <2>1, <2>2
<1>7. QED
  BY <1>3, <1>5, <1>6, LocalDoomed DEF Rough

LEMMA LogoutToDb == \A p \in Pids : Logout(p) \in ToDb /\ Logout(p) # SetupMsg /\ Logout(p).op = "logout"
  BY MsgFields DEF ToDb, Logout, SetupMsg

LEMMA DisconnectDoomed ==
  ASSUME Inv, NEW p \in Pids, Disconnect(p)
  PROVE  Lasts
<1>1. PICK g \in Games : g = at[p]
  BY DEF Disconnect, Inv, Types
<1>2. PICK u : u = Unlinked(heap[g], p)
  OBVIOUS
<1>3. PICK k : k = IF g \in up THEN Say(u, Logout(p)) ELSE u
  OBVIOUS
<1>4. /\ heap' = [heap EXCEPT ![g] = k] /\ at' = [at EXCEPT ![p] = NoOne]
      /\ party' = party /\ known' = known /\ setup' = setup /\ toGame' = toGame /\ up' = up
  BY <1>1, <1>2, <1>3 DEF Disconnect, Local, dbVars, Logout
<1>5. heap'[g] = k /\ \A r \in Games : r # g => heap'[r] = heap[r] /\ Here(r)' = Here(r)
  <2>1. heap'[g] = k /\ \A r \in Games : r # g => heap'[r] = heap[r]
    BY <1>4 DEF Inv, HeapsGood
  <2>2. \A r \in Games : r # g => Here(r)' = Here(r)
    BY <1>1, <1>4, NullAssumption DEF Here, Inv, Types
  <2>3. QED
    BY <2>1, <2>2
<1>6. Here(g)' = Here(g) \ {p}
  BY <1>1, <1>4, NullAssumption DEF Here, Inv, Types
<1>7. Good(heap[g]) /\ Good(u) /\ u.out = heap[g].out
  BY <1>1, <1>2, OutTypes, UnlinkKeeps
<1>8. \A l \in Pids : Rough(k, heap[g], l) /\ Unmet(k, heap[g], l)
  <2>1. \A l \in Pids : Rough(u, heap[g], l) /\ Unmet(u, heap[g], l)
    BY <1>2, <1>7, UnlinkedRough
  <2>2. \A l \in Pids : Rough(Say(u, Logout(p)), u, l) /\ Unmet(Say(u, Logout(p)), u, l)
    BY <1>7, LogoutToDb, SayRough DEF Good
  <2>3. QED
    BY <1>3, <2>1, <2>2, RoughTrans, UnmetTrans
<1>9. g \in up => k.out = Append(heap[g].out, Logout(p))
  BY <1>3, <1>7, LogoutToDb, SayFields DEF Good
<1>10. ASSUME NEW r \in Games, NEW l \in Pids, Refusal(r, l) PROVE Refusal(r, l)'
  <2>1. /\ r \in up /\ party[l] = NoParty
        /\ DoomedOut(heap[r].out, toGame[r], Here(r), l)
        /\ \A s \in Games : s # r => Uncreated(heap[s].out, l)
    BY <1>10 DEF Refusal
  <2>2. DoomedOut(heap'[r].out, toGame[r], Here(r)', l)
    <3>1. CASE r # g
      BY <1>5, <2>1, <3>1
    <3>2. CASE r = g
      <4>1. PICK O \in Seq(ToDb) : O = heap[g].out
        BY OutTypes
      <4>2. PICK Q \in Seq(ToDb) : Q = Append(O, Logout(p))
        BY <4>1, Appended, LogoutToDb
      <4>3. \A i \in DOMAIN O : Behind(Q, i, Logout(p))
        <5>1. DOMAIN O = 1 .. Len(O)
          BY LogoutToDb, Appended
        <5>2. \A i \in 1 .. Len(O) : Behind(Append(O, Logout(p)), i, Logout(p))
          BY LogoutToDb, PlacesAppend
        <5>3. QED
          BY <4>2, <5>1, <5>2
      <4>4. Prefix(O, Q)
        BY <4>2, PrefixAppend, LogoutToDb
      <4>5. DoomedOut(Q, toGame[g], Here(g) \ {p}, l)
        <5>1. \/ l \in Here(g) \ {p} \/ ~Absent(toGame[g], Enter(l))
              \/ \A i \in DOMAIN O : Behind(Q, i, Logout(l))
              \/ ~(l \in Here(g) \/ ~Absent(toGame[g], Enter(l)))
          BY <4>3
        <5>2. DoomedOut(O, toGame[g], Here(g), l)
          BY <2>1, <3>2, <4>1
        <5>3. QED
          BY <4>4, <5>1, <5>2, DoomedOutPrefix
      <4>6. QED
        BY <1>5, <1>6, <1>9, <2>1, <3>2, <4>1, <4>2, <4>5
    <3>3. QED
      BY <3>1, <3>2
  <2>3. \A s \in Games : s # r => Uncreated(heap'[s].out, l)
    BY <1>5, <1>8, <2>1 DEF Rough
  <2>4. QED
    BY <1>4, <2>1, <2>2, <2>3 DEF Refusal
<1>11. ASSUME NEW r \in Games, NEW l \in Pids, Orphan(r, l) PROVE Orphan(r, l)'
  <2>1. /\ r \in known /\ setup[r] = {} /\ Absent(heap[r].out, SetupMsg)
        /\ Stranger(heap[r], l) /\ DoomedIn(toGame[r], Here(r), l)
    BY <1>11 DEF Orphan
  <2>2. Absent(heap'[r].out, SetupMsg) /\ Stranger(heap'[r], l)
    <3>1. CASE r = g
      BY <1>5, <1>8, <2>1, <3>1 DEF Rough, Unmet
    <3>2. CASE r # g
      BY <1>5, <2>1, <3>2
    <3>3. QED
      BY <3>1, <3>2
  <2>3. DoomedIn(toGame[r], Here(r)', l)
    BY <1>5, <1>6, <2>1 DEF DoomedIn
  <2>4. QED
    BY <1>4, <2>1, <2>2, <2>3 DEF Orphan
<1>12. Logged => Logged'
  <2>1. dbOdd' = dbOdd
    BY DEF Disconnect, Local, dbVars
  <2>2. heap[g].odd => k.odd
    BY <1>1, <1>8 DEF Rough
  <2>3. QED
    BY <1>5, <2>1, <2>2 DEF Logged
<1>13. QED
  BY <1>10, <1>11, <1>12 DEF Doomed, Lasts

\* Only the messages of the game g change, its first one if at all the db takes:
\* then that is of no party of whom the db will not know.
LEMMA OutsDoomed ==
  ASSUME Inv, Inv', NEW g \in Games, NEW k, heap' = [heap EXCEPT ![g] = k],
         k.obj = heap[g].obj, k.map = heap[g].map, at' = at,
         known \subseteq known', up \subseteq up',
         \A r \in Games : Prefix(toGame[r], toGame'[r]),
         \/ k.out = heap[g].out
         \/ heap[g].out # << >> /\ k.out = Tail(heap[g].out)
         \/ g \notin up /\ k.out = Append(heap[g].out, SetupMsg),
         \A r \in Games : setup[r] = {} /\ Absent(heap[r].out, SetupMsg) => setup'[r] = {},
         \A l \in Pids : party[l] = NoParty =>
           \/ party'[l] = NoParty /\ (k.out # heap[g].out => ~Of(Head(heap[g].out), l))
           \/ heap[g].out # << >> /\ Of(Head(heap[g].out), l) /\ Head(heap[g].out).op = "create"
           \/ g \notin up /\ party'[l] = NoParty,
         k.odd = heap[g].odd, dbOdd => dbOdd'
  PROVE  Lasts
<1>1. /\ heap'[g] = k /\ \A r \in Games : r # g => heap'[r] = heap[r]
      /\ \A r \in Games : Here(r)' = Here(r)
  BY DEF Inv, HeapsGood, Here
<1>2. known \subseteq up
  BY DEF Inv, Types
<1>3. \A r \in Games : toGame'[r] \in Seq(ToGames)
  BY DEF Inv, Types
<1>4. ASSUME NEW r \in Games, NEW m, ~Absent(toGame[r], m) PROVE ~Absent(toGame'[r], m)
  BY <1>4 DEF Absent, Prefix
<1>5. PICK O \in Seq(ToDb) : O = heap[g].out
  BY OutTypes
<1>6. ASSUME NEW r \in Games, NEW l \in Pids, Refusal(r, l) PROVE Refusal(r, l)'
  <2>1. /\ r \in up /\ party[l] = NoParty
        /\ DoomedOut(heap[r].out, toGame[r], Here(r), l)
        /\ \A s \in Games : s # r => Uncreated(heap[s].out, l)
    BY <1>6 DEF Refusal
  <2>2. ~(O # << >> /\ Of(Head(O), l) /\ Head(O).op = "create")
    <3>1. SUFFICES ASSUME O # << >>, Of(Head(O), l), Head(O).op = "create" PROVE FALSE
      OBVIOUS
    <3>2. CASE r = g
      BY <1>5, <2>1, <3>1, <3>2, FirstOf
    <3>3. CASE r # g
      <4>1. Uncreated(O, l)
        BY <1>5, <2>1, <3>3
      <4>2. 1 \in DOMAIN O /\ O[1] = Head(O)
        BY <3>1, Tailed
      <4>3. QED
        BY <3>1, <4>1, <4>2 DEF Uncreated, Of
    <3>4. QED
      BY <3>2, <3>3
  <2>3. party'[l] = NoParty
    BY <1>5, <2>1, <2>2
  <2>4. DoomedOut(heap'[r].out, toGame'[r], Here(r), l)
    <3>1. ~Absent(toGame[r], Enter(l)) => ~Absent(toGame'[r], Enter(l))
      BY <1>4
    <3>2. CASE r # g \/ k.out = O
      <4>1. heap'[r].out = heap[r].out /\ Prefix(heap[r].out, heap[r].out)
        BY <1>1, <1>5, <3>2, PrefixSelf
      <4>2. heap[r].out \in Seq(ToDb)
        BY OutTypes
      <4>3. QED
        BY <2>1, <3>1, <4>1, <4>2, DoomedOutPrefix
    <3>3. CASE r = g /\ k.out # O
      <4>1. g \in up
        BY <2>1, <3>3
      <4>2. O # << >> /\ k.out = Tail(O)
        BY <1>5, <3>3, <4>1
      <4>3. ~Of(Head(O), l)
        BY <1>5, <2>1, <2>2, <3>3, <4>1
      <4>4. QED
        BY <1>1, <1>5, <2>1, <3>1, <3>3, <4>2, <4>3, DoomedOutTail
    <3>4. QED
      BY <3>2, <3>3
  <2>5. ASSUME NEW s \in Games, s # r PROVE Uncreated(heap'[s].out, l)
    <3>1. Uncreated(heap[s].out, l)
      BY <2>1, <2>5
    <3>2. CASE s # g \/ k.out = O
      BY <1>1, <1>5, <3>1, <3>2
    <3>3. CASE s = g /\ O # << >> /\ k.out = Tail(O)
      BY <1>1, <1>5, <3>1, <3>3, UncreatedTail
    <3>4. CASE s = g /\ k.out = Append(O, SetupMsg)
      <4>1. SetupMsg \in ToDb /\ SetupMsg.op = "setup"
        BY MsgFields DEF ToDb, SetupMsg
      <4>2. /\ DOMAIN O = 1 .. Len(O) /\ DOMAIN k.out = 1 .. Len(O) + 1 /\ Len(O) \in Nat
            /\ \A i \in 1 .. Len(O) : k.out[i] = O[i]
            /\ k.out[Len(O) + 1] = SetupMsg
        BY <3>4, <4>1, Appended
      <4>3. \A i \in 1 .. Len(O) : ~(O[i].op = "create" /\ O[i].leader = l)
        BY <1>5, <3>1, <3>4, <4>2 DEF Uncreated
      <4>4. ASSUME NEW i \in DOMAIN k.out PROVE k.out[i].op # "create" \/ k.out[i].leader # l
        <5>1. CASE i \in 1 .. Len(O)
          BY <4>2, <4>3, <5>1
        <5>2. CASE i = Len(O) + 1
          BY <4>1, <4>2, <5>2
        <5>3. QED
          BY <4>2, <4>4, <5>1, <5>2
      <4>5. Uncreated(k.out, l)
        BY <4>4 DEF Uncreated
      <4>6. QED
        BY <1>1, <3>4, <4>5
    <3>5. QED
      BY <1>5, <3>2, <3>3, <3>4
  <2>6. QED
    BY <1>1, <2>1, <2>3, <2>4, <2>5 DEF Refusal
<1>7. ASSUME NEW r \in Games, NEW l \in Pids, Orphan(r, l) PROVE Orphan(r, l)'
  <2>1. /\ r \in known /\ setup[r] = {} /\ Absent(heap[r].out, SetupMsg)
        /\ Stranger(heap[r], l) /\ DoomedIn(toGame[r], Here(r), l)
    BY <1>7 DEF Orphan
  <2>2. Absent(heap'[r].out, SetupMsg) /\ Stranger(heap'[r], l)
    <3>1. CASE r = g
      <4>1. r \in up
        BY <1>2, <2>1
      <4>2. Absent(k.out, SetupMsg)
        <5>1. Absent(O, SetupMsg)
          BY <1>5, <2>1, <3>1
        <5>2. O # << >> => Absent(Tail(O), SetupMsg)
          BY <5>1, PlacesTail
        <5>3. k.out = O \/ (O # << >> /\ k.out = Tail(O))
          BY <1>5, <3>1, <4>1
        <5>4. QED
          BY <5>1, <5>2, <5>3
      <4>3. QED
        BY <1>1, <2>1, <3>1, <4>2 DEF Stranger
    <3>2. CASE r # g
      BY <1>1, <2>1, <3>2
    <3>3. QED
      BY <3>1, <3>2
  <2>3. l \notin Here(r)
    BY <2>1 DEF DoomedIn
  <2>4. DoomedIn(toGame'[r], Here(r), l)
    BY <1>3, <2>1, <2>3, OutTypes, DoomedInPrefix
  <2>5. QED
    BY <1>1, <2>1, <2>2, <2>4 DEF Orphan
<1>8. Logged => Logged'
  BY <1>1 DEF Logged
<1>9. QED
  BY <1>6, <1>7, <1>8 DEF Doomed, Lasts

LEMMA ConnectDoomed ==
  ASSUME Inv, Inv', NEW g \in Games, Connect(g)
  PROVE  Lasts
<1>1. PICK k : k = Say(heap[g], SetupMsg)
  OBVIOUS
<1>2. /\ g \notin up /\ up' = up \cup {g} /\ heap' = [heap EXCEPT ![g] = k]
      /\ party' = party /\ known' = known /\ setup' = setup /\ toGame' = toGame /\ at' = at
  <2>1. heap' = [heap EXCEPT ![g] = Say(heap[g], SetupMsg)]
    BY DEF Connect, SetupMsg, Inv, HeapsGood
  <2>2. g \notin up /\ up' = up \cup {g} /\ setup' = setup /\ toGame' = toGame
    BY DEF Connect
  <2>3. party' = party /\ known' = known /\ at' = at
    BY DEF Connect, dbVars, chars
  <2>4. QED
    BY <1>1, <2>1, <2>2, <2>3
<1>3. k.obj = heap[g].obj /\ k.map = heap[g].map /\ k.out = Append(heap[g].out, SetupMsg)
      /\ k.odd = heap[g].odd
  BY <1>1 DEF Say, Heap
<1>4. \A r \in Games : Prefix(toGame[r], toGame'[r])
  BY <1>2, PrefixSelf
<1>5. \A r \in Games : setup[r] = {} => setup'[r] = {}
  BY <1>2
<1>6. \A l \in Pids : party[l] = NoParty => g \notin up /\ party'[l] = NoParty
  BY <1>2
<1>7. k.out = Append(heap[g].out, SetupMsg) /\ g \notin up
  BY <1>2, <1>3
<1>8. known \subseteq known' /\ up \subseteq up' /\ k.obj = heap[g].obj /\ k.map = heap[g].map
  BY <1>2, <1>3
<1>9. k.odd = heap[g].odd /\ (dbOdd => dbOdd')
  BY <1>3 DEF Connect, dbVars
<1>10. QED
  BY <1>2, <1>4, <1>5, <1>6, <1>7, <1>8, <1>9, OutsDoomed

\* The db takes the first message of g.
LEMMA TookShape ==
  ASSUME Inv, NEW g \in Games, Took(g)
  PROVE  \E k : /\ heap' = [heap EXCEPT ![g] = k] /\ k.obj = heap[g].obj /\ k.map = heap[g].map
                /\ k.link = heap[g].link /\ k.out = Tail(heap[g].out) /\ k.odd = heap[g].odd
<1>1. PICK h : h = heap[g]
  OBVIOUS
<1>2. PICK k : k = Heap(h.obj, h.map, h.link, Tail(h.out), h.odd)
  OBVIOUS
<1>3. k.obj = h.obj /\ k.map = h.map /\ k.link = h.link /\ k.out = Tail(h.out) /\ k.odd = h.odd
  BY <1>2 DEF Heap
<1>4. QED
  BY <1>1, <1>2, <1>3 DEF Took

LEMMA DbPartyShape ==
  ASSUME Inv, NEW g \in Games, DbParty(g), ~dbOdd'
  PROVE  LET m == Head(heap[g].out) IN
           /\ g \in up /\ heap[g].out # << >> /\ Took(g) /\ m \in PartyMsgs
           /\ known' = known /\ breaks' = breaks /\ setup' = setup /\ up' = up
           /\ at' = at /\ ingame' = ingame
           /\ Forward(m, IF m.op = "level" THEN known ELSE known \ {g})
           /\ \/ /\ m.op = "create" /\ party[m.leader] = NoParty
                 /\ party' = [party EXCEPT ![m.leader] = {}]
              \/ /\ m.op = "delete" /\ party[m.leader] # NoParty
                 /\ party' = [party EXCEPT ![m.leader] = NoParty]
              \/ /\ m.op = "add" /\ party[m.leader] # NoParty /\ m.pid \notin party[m.leader]
                 /\ party' = [party EXCEPT ![m.leader] = @ \cup {m.pid}]
              \/ /\ m.op = "remove" /\ party[m.leader] # NoParty /\ m.pid \in party[m.leader]
                 /\ party' = [party EXCEPT ![m.leader] = @ \ {m.pid}]
              \/ m.op = "level" /\ party[m.leader] # NoParty /\ party' = party
<1>1. PICK m : m = Head(heap[g].out)
  OBVIOUS
<1>2. /\ Took(g) /\ known' = known /\ breaks' = breaks /\ setup' = setup /\ up' = up
      /\ at' = at /\ ingame' = ingame
  BY DEF DbParty, chars
<1>3. g \in up /\ heap[g].out # << >> /\ m.op \in PartyOps
  BY <1>1 DEF DbParty, Waiting, PartyOps
<1>4. m \in PartyMsgs
  BY <1>1, <1>3, OutTypes, TailFacts, ToDbKinds
<1>5. ~Refuse
  BY DEF Refuse
<1>6. CASE m.op = "create"
  BY <1>1, <1>2, <1>3, <1>4, <1>5, <1>6 DEF DbParty, Waiting, QUERY_PARTY_CREATE
<1>7. CASE m.op = "delete"
  BY <1>1, <1>2, <1>3, <1>4, <1>5, <1>7 DEF DbParty, Waiting, QUERY_PARTY_DELETE
<1>8. CASE m.op = "add"
  BY <1>1, <1>2, <1>3, <1>4, <1>5, <1>8 DEF DbParty, Waiting, QUERY_PARTY_ADD
<1>9. CASE m.op = "remove"
  BY <1>1, <1>2, <1>3, <1>4, <1>5, <1>9 DEF DbParty, Waiting, QUERY_PARTY_REMOVE
<1>10. CASE m.op = "level"
  BY <1>1, <1>2, <1>3, <1>4, <1>5, <1>10 DEF DbParty, Waiting, QUERY_PARTY_SET_MEMBER_LEVEL
<1>11. QED
  BY <1>3, <1>6, <1>7, <1>8, <1>9, <1>10 DEF PartyOps

LEMMA ForwardPrefix ==
  ASSUME Inv, NEW m \in ToGames, NEW S, Forward(m, S)
  PROVE  \A r \in Games : Prefix(toGame[r], toGame'[r])
  BY OutTypes, ForwardFacts, PrefixAppend, PrefixSelf

LEMMA DbPartyDoomed ==
  ASSUME Inv, Inv', NEW g \in Games, DbParty(g), ~dbOdd'
  PROVE  Lasts
<1>1. PICK m : m = Head(heap[g].out)
  OBVIOUS
<1>2. /\ heap[g].out # << >> /\ Took(g) /\ m \in PartyMsgs
      /\ known' = known /\ setup' = setup /\ up' = up /\ at' = at
      /\ Forward(m, IF m.op = "level" THEN known ELSE known \ {g})
  BY <1>1, DbPartyShape
<1>3. m.op \in PartyOps /\ m.leader \in Pids
  BY <1>2 DEF PartyMsgs
<1>4. ASSUME NEW l \in Pids, party[l] = NoParty
      PROVE  \/ party'[l] = NoParty /\ ~Of(m, l)
             \/ Of(m, l) /\ m.op = "create"
  <2>1. party \in [Pids -> {NoParty} \cup SUBSET Pids]
    BY DEF Inv, Types
  <2>2. \/ party' = party \/ \E x : party' = [party EXCEPT ![m.leader] = x]
    BY <1>1, DbPartyShape
  <2>3. m.leader # l => party'[l] = party[l]
    BY <1>3, <2>1, <2>2
  <2>4. m.leader = l => m.op = "create"
    BY <1>1, <1>4, DbPartyShape
  <2>5. m.leader = l <=> Of(m, l)
    BY <2>4 DEF Of
  <2>6. QED
    BY <1>4, <2>3, <2>4, <2>5
<1>5. PICK k : /\ heap' = [heap EXCEPT ![g] = k] /\ k.obj = heap[g].obj /\ k.map = heap[g].map
               /\ k.out = Tail(heap[g].out) /\ k.odd = heap[g].odd
  BY <1>2, TookShape
<1>6. \A r \in Games : Prefix(toGame[r], toGame'[r])
  BY <1>2, MsgKinds, ForwardPrefix
<1>7. dbOdd => dbOdd'
  BY DEF DbParty, QUERY_PARTY_CREATE, QUERY_PARTY_DELETE, QUERY_PARTY_ADD,
         QUERY_PARTY_REMOVE, QUERY_PARTY_SET_MEMBER_LEVEL, Refuse
<1>8. \A l \in Pids : party[l] = NoParty =>
        \/ party'[l] = NoParty /\ (k.out # heap[g].out => ~Of(Head(heap[g].out), l))
        \/ heap[g].out # << >> /\ Of(Head(heap[g].out), l) /\ Head(heap[g].out).op = "create"
  BY <1>1, <1>2, <1>4
<1>9. QED
  BY <1>2, <1>5, <1>6, <1>7, <1>8, OutsDoomed, ZenonT(40)

LEMMA DbSetupDoomed ==
  ASSUME Inv, Inv', NEW g \in Games, DbSetup(g)
  PROVE  Lasts
<1>1. PICK m : m = Head(heap[g].out)
  OBVIOUS
<1>2. /\ heap[g].out # << >> /\ m.op = "setup" /\ Took(g) /\ known \subseteq known'
      /\ \A r \in Games : r # g => setup'[r] = setup[r]
      /\ party' = party /\ toGame' = toGame /\ up' = up /\ at' = at
  BY <1>1 DEF DbSetup, Waiting, chars, Inv, Types
<1>3. m = SetupMsg
  <2>1. m \in ToDb
    BY <1>1, <1>2, OutTypes, TailFacts
  <2>2. QED
    BY <1>2, <2>1, LogoutToDb DEF ToDb, PartyMsgs, PartyOps, SetupMsg
<1>4. ~Absent(heap[g].out, SetupMsg)
  BY <1>1, <1>2, <1>3, OutTypes, TailFacts
<1>5. PICK k : /\ heap' = [heap EXCEPT ![g] = k] /\ k.obj = heap[g].obj /\ k.map = heap[g].map
               /\ k.out = Tail(heap[g].out) /\ k.odd = heap[g].odd
  BY <1>2, TookShape
<1>6. \A r \in Games : Prefix(toGame[r], toGame'[r])
  BY <1>2, PrefixSelf
<1>7. \A l : ~Of(m, l)
  BY <1>2 DEF Of
<1>8. \A r \in Games : setup[r] = {} /\ Absent(heap[r].out, SetupMsg) => setup'[r] = {}
  BY <1>2, <1>4
<1>9. dbOdd => dbOdd'
  BY DEF DbSetup
<1>10. QED
  BY <1>1, <1>2, <1>5, <1>6, <1>7, <1>8, <1>9, OutsDoomed

LEMMA DbLogoutDoomed ==
  ASSUME Inv, Inv', NEW g \in Games, DbLogout(g)
  PROVE  Lasts
<1>1. PICK m : m = Head(heap[g].out)
  OBVIOUS
<1>2. /\ heap[g].out # << >> /\ m.op = "logout" /\ Took(g) /\ known' = known /\ setup' = setup
      /\ party' = party /\ toGame' = toGame /\ up' = up /\ at' = at
  BY <1>1 DEF DbLogout, Waiting, chars
<1>3. PICK k : /\ heap' = [heap EXCEPT ![g] = k] /\ k.obj = heap[g].obj /\ k.map = heap[g].map
               /\ k.out = Tail(heap[g].out) /\ k.odd = heap[g].odd
  BY <1>2, TookShape
<1>4. \A r \in Games : Prefix(toGame[r], toGame'[r])
  BY <1>2, PrefixSelf
<1>5. \A l : ~Of(m, l)
  BY <1>2 DEF Of
<1>6. dbOdd => dbOdd'
  BY DEF DbLogout
<1>7. QED
  BY <1>1, <1>2, <1>3, <1>4, <1>5, <1>6, OutsDoomed

LEMMA EnterToGames == \A p \in Pids : /\ Enter(p) \in ToGames /\ Enter(p).op = "enter"
                                      /\ Enter(p).pid = p
  BY MsgFields DEF ToGames, Enter

LEMMA LoginDoomed ==
  ASSUME Inv, Inv', NEW p \in Pids, NEW g \in Games, Login(p, g)
  PROVE  Lasts
<1>1. /\ Forward(Enter(p), {g}) /\ party' = party /\ known' = known /\ setup' = setup
      /\ up' = up /\ at' = at /\ heap' = heap
  BY DEF Login, Enter, chars
<1>2. \A r \in Games : Prefix(toGame[r], toGame'[r])
  BY <1>1, EnterToGames, ForwardPrefix
<1>3. heap' = [heap EXCEPT ![g] = heap[g]]
  BY <1>1 DEF Inv, HeapsGood
<1>4. dbOdd => dbOdd'
  BY DEF Login
<1>5. QED
  BY <1>1, <1>2, <1>3, <1>4, OutsDoomed

\* What the parties of a game do not know, it cannot change.
LEMMA HandledOdd ==
  ASSUME NEW h, Good(h), NEW l \in Pids, Stranger(h, l),
         NEW m \in PartyMsgs, m.leader = l, m.op # "create"
  PROVE  Handled(h, m).odd
<1>1. m.op \in PartyOps /\ m.pid \in Pids /\ h.map[l] = NoId
  BY DEF PartyMsgs, Stranger
<1>2. \A k : Odd(k).odd
  BY DEF Odd, Heap
<1>3. CASE m.op = "delete"
  BY <1>1, <1>2, <1>3 DEF Handled, P2PDeleteParty
<1>4. CASE m.op = "add"
  BY <1>1, <1>2, <1>4 DEF Handled, P2PJoinParty
<1>5. CASE m.op = "remove"
  <2>1. h.map \in [Pids -> Ids \cup {NoId}]
    BY DEF Good, Typed
  <2>2. h.map[m.pid] # NoId => h.obj[h.map[m.pid]].leader # l
    BY <1>1, <2>1 DEF Stranger
  <2>3. Handled(h, m) = P2PQuitParty(h, l, m.pid)
    BY <1>5 DEF Handled
  <2>4. QED
    BY <1>2, <2>2, <2>3 DEF P2PQuitParty
<1>6. CASE m.op = "level"
  <2>1. Handled(h, m) = Leveled(h, l)
    BY <1>6 DEF Handled
  <2>2. QED
    BY <1>1, <1>2, <2>1 DEF Leveled
<1>7. QED
  BY <1>1, <1>3, <1>4, <1>5, <1>6 DEF PartyOps

\* Only the game g changes, by what it is told.
LEMMA HearsDoomed ==
  ASSUME Inv, NEW g \in Games, NEW k, heap' = [heap EXCEPT ![g] = k], k.out \in Seq(ToDb),
         party' = party, known' = known, up' = up,
         \A r \in Games : r # g => setup'[r] = setup[r] /\ toGame'[r] = toGame[r]
                                   /\ Here(r)' = Here(r),
         Prefix(heap[g].out, k.out),
         \A l \in Pids : Uncreated(heap[g].out, l) => Uncreated(k.out, l),
         \A l \in Pids : l \in Here(g) \/ ~Absent(toGame[g], Enter(l)) =>
                           l \in Here(g)' \/ ~Absent(toGame'[g], Enter(l)),
         \A l \in Pids : Orphan(g, l) =>
            /\ setup'[g] = {} /\ Absent(k.out, SetupMsg) /\ Stranger(k, l)
            /\ DoomedIn(toGame'[g], Here(g)', l),
         heap[g].odd => k.odd, dbOdd' = dbOdd
  PROVE  Lasts
<1>1. heap'[g] = k /\ \A r \in Games : r # g => heap'[r] = heap[r]
  BY DEF Inv, HeapsGood
<1>2. ASSUME NEW r \in Games, NEW l \in Pids, Refusal(r, l) PROVE Refusal(r, l)'
  <2>1. /\ r \in up /\ party[l] = NoParty
        /\ DoomedOut(heap[r].out, toGame[r], Here(r), l)
        /\ \A s \in Games : s # r => Uncreated(heap[s].out, l)
    BY <1>2 DEF Refusal
  <2>2. DoomedOut(heap'[r].out, toGame'[r], Here(r)', l)
    <3>1. CASE r = g
      BY <1>1, <2>1, <3>1, DoomedOutPrefix, OutTypes
    <3>2. CASE r # g
      BY <1>1, <2>1, <3>2
    <3>3. QED
      BY <3>1, <3>2
  <2>3. \A s \in Games : s # r => Uncreated(heap'[s].out, l)
    BY <1>1, <2>1
  <2>4. QED
    BY <2>1, <2>2, <2>3 DEF Refusal
<1>3. ASSUME NEW r \in Games, NEW l \in Pids, Orphan(r, l) PROVE Orphan(r, l)'
  <2>1. CASE r = g
    BY <1>1, <1>3, <2>1 DEF Orphan
  <2>2. CASE r # g
    BY <1>1, <1>3, <2>2 DEF Orphan
  <2>3. QED
    BY <2>1, <2>2
<1>4. Logged => Logged'
  BY <1>1 DEF Logged
<1>5. QED
  BY <1>2, <1>3, <1>4 DEF Doomed, Lasts

\* The first message to a game.
LEMMA ReceivesFirst ==
  ASSUME Inv, NEW g \in Games, Receive(g)
  PROVE  LET m == Head(toGame[g]) IN
           /\ setup[g] = {} /\ toGame[g] # << >> /\ toGame[g] \in Seq(ToGames)
           /\ toGame'[g] = Tail(toGame[g])
           /\ \A r \in Games : r # g => toGame'[r] = toGame[r]
           /\ party' = party /\ known' = known /\ dbOdd' = dbOdd /\ breaks' = breaks
           /\ setup' = setup /\ up' = up /\ ingame' = ingame /\ free' = free
           /\ \/ /\ m.pid \in Pids /\ m = Enter(m.pid) /\ heap' = heap
                 /\ at[m.pid] = NoOne /\ at' = [at EXCEPT ![m.pid] = g]
                 /\ Here(g)' = Here(g) \cup {m.pid}
                 /\ \A r \in Games : r # g => Here(r)' = Here(r)
              \/ /\ m \in PartyMsgs /\ Room(heap[g]) /\ at' = at
                 /\ heap' = [heap EXCEPT ![g] = Handled(heap[g], m)]
<1>1. PICK m : m = Head(toGame[g])
  OBVIOUS
<1>2. /\ setup[g] = {} /\ toGame[g] # << >> /\ toGame' = [toGame EXCEPT ![g] = Tail(toGame[g])]
      /\ party' = party /\ known' = known /\ dbOdd' = dbOdd /\ breaks' = breaks
      /\ setup' = setup /\ up' = up /\ ingame' = ingame /\ free' = free
  BY DEF Receive, dbVars, Inv, Types
<1>3. toGame \in [Games -> Seq(ToGames)] /\ at \in [Pids -> Games \cup {NoOne}]
  BY DEF Inv, Types
<1>4. /\ toGame'[g] = Tail(toGame[g]) /\ toGame[g] \in Seq(ToGames)
      /\ \A r \in Games : r # g => toGame'[r] = toGame[r]
  BY <1>2, <1>3
<1>5. m \in ToGames
  BY <1>1, <1>2, <1>3, TailFacts
<1>6. CASE m \in PartyMsgs
  <2>1. m.op # "enter"
    BY <1>6 DEF PartyMsgs, PartyOps
  <2>2. Room(heap[g]) /\ at' = at /\ heap' = [heap EXCEPT ![g] = Handled(heap[g], m)]
    <3>1. /\ Room(heap[g]) /\ at' = at
          /\ heap' = [heap EXCEPT ![g] = Handled(@, Head(toGame[g]))]
      BY <1>1, <2>1 DEF Receive
    <3>2. [heap EXCEPT ![g] = Handled(@, m)] = [heap EXCEPT ![g] = Handled(heap[g], m)]
      BY DEF Inv, HeapsGood
    <3>3. QED
      BY <1>1, <3>1, <3>2
  <2>3. QED
    BY <1>1, <1>2, <1>4, <1>6, <2>2
<1>7. CASE m \notin PartyMsgs
  <2>1. PICK p \in Pids : m = Enter(p)
    BY <1>5, <1>7 DEF ToGames
  <2>2. m.op = "enter" /\ m.pid = p
    BY <2>1, MsgFields DEF Enter
  <2>3. at' = [at EXCEPT ![p] = g] /\ heap' = heap
    BY <1>1, <2>2 DEF Receive
  <2>4. at[p] = NoOne
    <3>1. ~Absent(toGame[g], Enter(p))
      BY <1>1, <1>2, <1>3, <2>1, TailFacts
    <3>2. OnePlace(p)
      BY DEF Inv
    <3>3. QED
      BY <3>1, <3>2 DEF OnePlace, Nowhere, NoneIn
  <2>5. Here(g)' = Here(g) \cup {p} /\ \A r \in Games : r # g => Here(r)' = Here(r)
    BY <1>3, <2>3, <2>4, NullAssumption DEF Here
  <2>6. QED
    BY <1>1, <1>2, <1>4, <2>1, <2>2, <2>3, <2>4, <2>5
<1>8. QED
  BY <1>6, <1>7

LEMMA ReceiveDoomed ==
  ASSUME Inv, Inv', NEW g \in Games, Receive(g), ~Logged'
  PROVE  Lasts
<1>1. PICK T \in Seq(ToGames) : T = toGame[g]
  BY OutTypes
<1>2. PICK m : m = Head(T)
  OBVIOUS
<1>3. /\ setup[g] = {} /\ T # << >> /\ toGame'[g] = Tail(T)
      /\ \A r \in Games : r # g => toGame'[r] = toGame[r]
      /\ party' = party /\ known' = known /\ setup' = setup /\ up' = up /\ dbOdd' = dbOdd
  BY <1>1, <1>2, ReceivesFirst
<1>4. Good(heap[g]) /\ heap[g].out \in Seq(ToDb) /\ Here(g) \in SUBSET Pids
  BY OutTypes
<1>5. \A l \in Pids : ~Absent(T, Enter(l)) => m = Enter(l) \/ ~Absent(Tail(T), Enter(l))
  BY <1>2, <1>3, PlacesTail
<1>6. \A l \in Pids : Orphan(g, l) =>
        /\ Absent(heap[g].out, SetupMsg) /\ Stranger(heap[g], l) /\ l \notin Here(g)
        /\ DoomedIn(T, Here(g), l)
  BY <1>1 DEF Orphan, DoomedIn
<1>7. CASE m.pid \in Pids /\ m = Enter(m.pid) /\ heap' = heap /\ Here(g)' = Here(g) \cup {m.pid}
           /\ \A r \in Games : r # g => Here(r)' = Here(r)
  <2>1. PICK p \in Pids : p = m.pid
    BY <1>7
  <2>2. m = Enter(p) /\ Here(g)' = Here(g) \cup {p} /\ m.op = "enter"
    BY <1>7, <2>1, EnterToGames
  <2>3. heap' = [heap EXCEPT ![g] = heap[g]]
    BY <1>7 DEF Inv, HeapsGood
  <2>4. \A l \in Pids : l \in Here(g) \/ ~Absent(toGame[g], Enter(l)) =>
                           l \in Here(g)' \/ ~Absent(toGame'[g], Enter(l))
    <3>1. \A l \in Pids : Enter(l) = Enter(p) => l = p
      BY EnterToGames
    <3>2. QED
      BY <1>1, <1>3, <1>5, <2>2, <3>1
  <2>5. ASSUME NEW l \in Pids, Orphan(g, l) PROVE DoomedIn(toGame'[g], Here(g)', l)
    <3>1. l \notin Here(g) /\ DoomedIn(T, Here(g), l)
      BY <1>6, <2>5
    <3>2. ~Of(m, l)
      BY <2>2 DEF Of
    <3>3. m # Enter(l)
      BY <1>2, <1>3, <3>1, <3>2, DoomedInTail
    <3>4. l \notin Here(g) \cup {p}
      BY <2>2, <3>1, <3>3
    <3>5. DoomedIn(Tail(T), Here(g) \cup {p}, l)
      BY <1>2, <1>3, <3>1, <3>2, <3>4, DoomedInTail
    <3>6. QED
      BY <1>3, <2>2, <3>5
  <2>6. QED
    BY <1>3, <1>4, <1>6, <1>7, <2>3, <2>4, <2>5, HearsDoomed, PrefixSelf
<1>8. CASE m \in PartyMsgs /\ Room(heap[g]) /\ at' = at
           /\ heap' = [heap EXCEPT ![g] = Handled(heap[g], m)]
  <2>1. PICK k : k = Handled(heap[g], m)
    OBVIOUS
  <2>2. heap' = [heap EXCEPT ![g] = k] /\ heap'[g] = k
    BY <1>8, <2>1 DEF Inv, HeapsGood
  <2>3. k.out \in Seq(ToDb)
    BY <2>2 DEF Inv, HeapsGood, Good, Typed
  <2>4. \A l \in Pids : /\ Rough(k, heap[g], l)
                        /\ \/ m.op \in {"delete", "remove"}
                           \/ m.op \in {"create", "level"} /\ m.leader # l
                           \/ m.op = "add" /\ m.pid # l
                           => Unmet(k, heap[g], l)
    BY <1>4, <1>8, <2>1, HandledRough
  <2>5. \A l \in Pids : m # Enter(l)
    BY <1>8, MsgKinds
  <2>6. \A r \in Games : Here(r)' = Here(r)
    BY <1>8 DEF Here
  <2>7. ~k.odd
    BY <2>2 DEF Logged
  <2>8. ASSUME NEW l \in Pids, Orphan(g, l)
        PROVE  Stranger(k, l) /\ DoomedIn(Tail(T), Here(g), l)
    <3>1. l \notin Here(g) /\ DoomedIn(T, Here(g), l) /\ Stranger(heap[g], l)
      BY <1>6, <2>8
    <3>2. m.op \in PartyOps /\ (m.leader = l => m.op = "create")
      BY <1>4, <1>8, <2>1, <2>7, <3>1, HandledOdd DEF PartyMsgs
    <3>3. ~(Of(m, l) /\ m.op # "create")
      BY <3>2 DEF Of
    <3>4. ~Of(m, l) /\ (Joins(m) => m.pid # l) /\ DoomedIn(Tail(T), Here(g), l)
      BY <1>2, <1>3, <3>1, <3>3, DoomedInTail
    <3>5. Unmet(k, heap[g], l)
      BY <2>4, <3>2, <3>4 DEF Of, Joins, PartyOps
    <3>6. QED
      BY <3>1, <3>4, <3>5 DEF Unmet
  <2>9. Prefix(heap[g].out, k.out) /\ (heap[g].odd => k.odd)
    <3>1. m.leader \in Pids
      BY <1>8 DEF PartyMsgs
    <3>2. QED
      BY <2>4, <3>1 DEF Rough
  <2>10. \A l \in Pids : /\ Uncreated(heap[g].out, l) => Uncreated(k.out, l)
                         /\ Absent(heap[g].out, SetupMsg) => Absent(k.out, SetupMsg)
    BY <2>4 DEF Rough
  <2>11. \A l \in Pids : l \in Here(g) \/ ~Absent(toGame[g], Enter(l)) =>
                           l \in Here(g)' \/ ~Absent(toGame'[g], Enter(l))
    BY <1>1, <1>3, <1>5, <2>5, <2>6
  <2>12. \A l \in Pids : Orphan(g, l) =>
            /\ setup'[g] = {} /\ Absent(k.out, SetupMsg) /\ Stranger(k, l)
            /\ DoomedIn(toGame'[g], Here(g)', l)
    BY <1>3, <1>6, <2>6, <2>8, <2>10
  <2>13. QED
    BY <1>3, <2>2, <2>3, <2>6, <2>9, <2>10, <2>11, <2>12, HearsDoomed
<1>9. QED
  BY <1>1, <1>2, <1>7, <1>8, ReceivesFirst

\* A message of the answer to SETUP.
LEMMA SetupShape ==
  ASSUME Inv, NEW g \in Games, ReceiveSetup(g)
  PROVE  \E m \in setup[g] :
           /\ m \in PartyMsgs /\ Room(heap[g])
           /\ m.op = "add" => Msg("create", m.leader, m.leader) \notin setup[g]
           /\ heap' = [heap EXCEPT ![g] = IF m.op = "add" THEN Leveled(Handled(heap[g], m), m.leader)
                                          ELSE Handled(heap[g], m)]
           /\ setup'[g] = setup[g] \ {m} /\ \A r \in Games : r # g => setup'[r] = setup[r]
           /\ party' = party /\ known' = known /\ dbOdd' = dbOdd /\ breaks' = breaks
           /\ toGame' = toGame /\ up' = up /\ at' = at /\ ingame' = ingame /\ free' = free
<1>1. PICK m \in setup[g] :
        /\ m.op = "add" => Msg("create", m.leader, m.leader) \notin setup[g]
        /\ Room(heap[g])
        /\ heap' = [heap EXCEPT ![g] = IF m.op = "add" THEN Leveled(Handled(heap[g], m), m.leader)
                                       ELSE Handled(heap[g], m)]
        /\ setup' = [setup EXCEPT ![g] = @ \ {m}]
  BY DEF ReceiveSetup
<1>2. setup \in [Games -> SUBSET PartyMsgs]
  BY DEF Inv, Types
<1>3. setup'[g] = setup[g] \ {m} /\ \A r \in Games : r # g => setup'[r] = setup[r]
  BY <1>1, <1>2
<1>4. /\ party' = party /\ known' = known /\ dbOdd' = dbOdd /\ breaks' = breaks
      /\ toGame' = toGame /\ up' = up /\ at' = at /\ ingame' = ingame /\ free' = free
  BY DEF ReceiveSetup, dbVars, chars
<1>5. m \in PartyMsgs
  BY <1>1, <1>2
<1>6. QED
  BY <1>1, <1>3, <1>4, <1>5

LEMMA ReceiveSetupDoomed ==
  ASSUME Inv, NEW g \in Games, ReceiveSetup(g)
  PROVE  Lasts
<1>1. PICK m \in setup[g] :
           /\ m \in PartyMsgs /\ Room(heap[g])
           /\ heap' = [heap EXCEPT ![g] = IF m.op = "add" THEN Leveled(Handled(heap[g], m), m.leader)
                                          ELSE Handled(heap[g], m)]
           /\ \A r \in Games : r # g => setup'[r] = setup[r]
           /\ party' = party /\ known' = known /\ toGame' = toGame /\ up' = up /\ at' = at
           /\ dbOdd' = dbOdd
  BY SetupShape
<1>2. PICK h : h = Handled(heap[g], m)
  OBVIOUS
<1>3. PICK k : k = IF m.op = "add" THEN Leveled(h, m.leader) ELSE h
  OBVIOUS
<1>4. Good(heap[g]) /\ m.leader \in Pids
  BY <1>1, OutTypes DEF PartyMsgs
<1>5. Good(h) /\ (m.op = "add" => Room(h)) /\ \A l \in Pids : Rough(h, heap[g], l)
  BY <1>1, <1>2, <1>4, HandledKeeps, HandledRough DEF Follows
<1>6. Good(k) /\ \A l \in Pids : Rough(k, h, l)
  <2>1. CASE m.op = "add"
    <3>1. PICK n : n = Msg("level", m.leader, m.leader)
      OBVIOUS
    <3>2. n \in PartyMsgs /\ n.op = "level" /\ n.leader = m.leader
      BY <1>4, <3>1, MsgKinds, MsgFields DEF PartyOps
    <3>3. Handled(h, n) = Leveled(h, m.leader)
      BY <3>2 DEF Handled
    <3>4. QED
      BY <1>3, <1>5, <2>1, <3>2, <3>3, HandledKeeps, HandledRough DEF Follows
  <2>2. CASE m.op # "add"
    BY <1>3, <1>5, <2>2, RoughSame
  <2>3. QED
    BY <2>1, <2>2
<1>7. \A l \in Pids : Rough(k, heap[g], l)
  BY <1>5, <1>6, RoughTrans
<1>8. Prefix(heap[g].out, k.out) /\ k.out \in Seq(ToDb) /\ (heap[g].odd => k.odd)
  BY <1>4, <1>6, <1>7 DEF Rough, Good, Typed
<1>9. \A l \in Pids : Uncreated(heap[g].out, l) => Uncreated(k.out, l)
  BY <1>7 DEF Rough
<1>10. \A r \in Games : Here(r)' = Here(r)
  BY <1>1 DEF Here
<1>11. heap' = [heap EXCEPT ![g] = k] /\ \A l \in Pids : ~Orphan(g, l)
  BY <1>1, <1>2, <1>3 DEF Orphan
<1>12. QED
  BY <1>1, <1>8, <1>9, <1>10, <1>11, HearsDoomed

\* The steps of a run in which nothing breaks.
LEMMA NextLasts ==
  ASSUME Inv, Inv', [Next]_vars, breaks' = 0, ~Logged'
  PROVE  Lasts /\ breaks = 0
<1>1. breaks \in Nat /\ ingame \subseteq Pids
  BY DEF Inv, Types
<1>2. CASE \E p \in ingame : Play(p)
  <2>1. PICK p \in Pids : Play(p)
    BY <1>1, <1>2
  <2>2. breaks' = breaks
    BY <2>1 DEF Play, InviteToNew, Invite, Expel, Leave, LevelUp, Local, dbVars
  <2>3. QED
    BY <2>1, <2>2, PlayDoomed
<1>3. CASE \E p \in Pids : EnterGame(p) \/ Disconnect(p) \/ \E g \in Games : Login(p, g)
  <2>1. Lasts
    BY <1>3, EnterGameDoomed, DisconnectDoomed, LoginDoomed
  <2>2. breaks' = breaks
    BY <1>3 DEF EnterGame, Disconnect, Login, Local, dbVars
  <2>3. QED
    BY <2>1, <2>2
<1>4. CASE \E g \in Games : Connect(g) \/ Receive(g) \/ ReceiveSetup(g)
  <2>1. Lasts
    BY <1>4, ConnectDoomed, ReceiveDoomed, ReceiveSetupDoomed
  <2>2. breaks' = breaks
    BY <1>4 DEF Connect, Receive, ReceiveSetup, dbVars
  <2>3. QED
    BY <2>1, <2>2
<1>5. CASE \E g \in Games : DbParty(g) \/ DbSetup(g) \/ DbLogout(g)
  <2>1. ~dbOdd'
    BY DEF Logged
  <2>2. Lasts
    BY <1>5, <2>1, DbPartyDoomed, DbSetupDoomed, DbLogoutDoomed
  <2>3. breaks' = breaks
    BY <1>5 DEF DbParty, DbSetup, DbLogout
  <2>4. QED
    BY <2>2, <2>3
<1>6. CASE (\E g \in Games : Drop(g) \/ Crash(g)) \/ DbRestart
  <2>1. breaks' = breaks + 1
    BY <1>6 DEF Drop, Crash, DbRestart, Cut
  <2>2. QED
    BY <1>1, <2>1
<1>7. CASE UNCHANGED vars
  <2>1. /\ party' = party /\ known' = known /\ dbOdd' = dbOdd /\ breaks' = breaks /\ heap' = heap
        /\ setup' = setup /\ toGame' = toGame /\ up' = up /\ at' = at
    BY <1>7 DEF vars
  <2>2. \A g \in Games : Here(g)' = Here(g)
    BY <2>1 DEF Here
  <2>3. Logged => Logged'
    BY <2>1 DEF Logged
  <2>4. Doomed => Doomed'
    BY <2>1, <2>2 DEF Doomed, Refusal, Orphan
  <2>5. QED
    BY <2>1, <2>3, <2>4 DEF Lasts
<1>8. QED
  BY <1>2, <1>3, <1>4, <1>5, <1>6, <1>7 DEF Next, ComeAndGo
-----------------------------------------------------------------------------
(* All games and the db.  While no error has been logged and none is bound to  *)
(* be, each game that has sent SETUP and the db will have the same couples.    *)

Db(pt)    == {x \in Couples : pt[x[1]] # NoParty /\ (x[2] \in pt[x[1]] \/ x[2] = x[1])}
Coming(s) == {x \in Couples : \E m \in s : Gives(m, x)}

\* A leader joins the new party at once.
Followed(s) ==
  \A i \in DOMAIN s : s[i].op = "create" =>
    i + 1 \in DOMAIN s /\ s[i + 1] = Msg("add", s[i].leader, s[i].leader)
LeadersIn ==
  \A l \in Pids : party[l] # NoParty =>
    l \in party[l] \/ \E g \in Games : ~Absent(heap[g].out, Msg("add", l, l))

\* The rest s of the answer to SETUP.
Answer(s, h) ==
  \A m \in s :
    /\ m.op = "create" => m.pid = m.leader /\ \A p \in Pids : <<m.leader, p>> \notin Pairs(h)
    /\ m.op = "add" => \/ Msg("create", m.leader, m.leader) \in s
                       \/ <<m.leader, m.leader>> \in Pairs(h)
    /\ Joins(m)

\* A game that has sent SETUP, with the players A, of whom In have entered.
Sure(h, s, A, In) ==
  /\ Exact(h) /\ Joined(h, In) /\ Answer(s, h)
  /\ s # {} => A = {} /\ h.out = << >>
  /\ Absent(h.out, SetupMsg) /\ Followed(h.out) /\ Said(h.out, A)
Agreed(h, s, T, A, pt) == Copies(h.out, T, A, Pairs(h) \cup Coming(s), Db(pt))
Bad(h, s, T, A, pt) ==
  \E l \in Pids : \/ pt[l] = NoParty /\ DoomedOut(h.out, T, A, l)
                  \/ s = {} /\ Stranger(h, l) /\ DoomedIn(T, A, l)
Fine(h, s, T, A, In, pt) == Sure(h, s, A, In) /\ (Agreed(h, s, T, A, pt) \/ Bad(h, s, T, A, pt))

Playing(g) == ingame \cap Here(g)
InStep(g) == /\ Sure(heap[g], setup[g], Here(g), Playing(g))
             /\ Agreed(heap[g], setup[g], toGame[g], Here(g), party)
AlmostInStep(g) == Fine(heap[g], setup[g], toGame[g], Here(g), Playing(g), party)

\* A game that has not.
Unknown(g) ==
  /\ heap[g].obj = NoObjects /\ heap[g].map = Nobody
  /\ heap[g].out = IF g \in up THEN <<SetupMsg>> ELSE << >>
  /\ toGame[g] = << >> /\ setup[g] = {} /\ Here(g) = {}

InAgreement == /\ Unique(Db(party)) /\ LeadersIn
               /\ \A g \in Games : IF g \in known THEN InStep(g) ELSE Unknown(g)
Ready       == /\ Unique(Db(party)) /\ LeadersIn
               /\ \A g \in Games : IF g \in known THEN AlmostInStep(g) ELSE Unknown(g)

LEMMA DbIs ==
  ASSUME NEW pt
  PROVE  /\ Db(pt) \in SUBSET Couples
         /\ \A l, p \in Pids : <<l, p>> \in Db(pt) <=> pt[l] # NoParty /\ (p \in pt[l] \/ p = l)
  BY DEF Db, Couples

LEMMA ComingIs ==
  ASSUME NEW s
  PROVE  /\ Coming(s) \in SUBSET Couples /\ (s = {} => Coming(s) = {})
         /\ \A l, p \in Pids : <<l, p>> \in Coming(s) <=> \E m \in s : Gives(m, <<l, p>>)
  BY DEF Coming, Couples

\* Who is or stays at one game is not at another.
LEMMA PlaceOf ==
  ASSUME Inv, NEW g \in Games, NEW r \in Games, r # g, NEW i, NEW l \in Pids,
         Stays(heap[g].out, toGame[g], Here(g), i, l)
  PROVE  Elsewhere(heap[r].out, toGame[r], Here(r), l)
<1>1. at[l] = g \/ at[l] = NoOne
  BY SoleStay
<1>2. Absent(toGame[r], Enter(l)) /\ Absent(heap[r].out, Logout(l))
  BY SoleStay
<1>3. l \notin Here(r)
  BY <1>1, NullAssumption DEF Here
<1>4. QED
  BY <1>2, <1>3 DEF Elsewhere

\* A game that says nothing of creating has nobody's party to come.
LEMMA UncreatedOf ==
  ASSUME Inv, Ready, NEW g \in Games, NEW r \in Games, r # g, NEW i, NEW l \in Pids,
         Stays(heap[g].out, toGame[g], Here(g), i, l)
  PROVE  Uncreated(heap[r].out, l)
<1>1. l \notin Here(r) /\ Absent(heap[r].out, Logout(l))
  BY PlaceOf DEF Elsewhere
<1>2. CASE r \in known
  <2>1. Said(heap[r].out, Here(r))
    BY <1>2 DEF Ready, AlmostInStep, Fine, Sure
  <2>2. ASSUME NEW j \in DOMAIN heap[r].out,
               heap[r].out[j].op = "create", heap[r].out[j].leader = l
        PROVE  FALSE
    <3>1. Remains(heap[r].out, Here(r), j, l)
      BY <2>1, <2>2 DEF Said, Joins
    <3>2. QED
      BY <1>1, <3>1 DEF Remains, Behind, Absent
  <2>3. QED
    BY <2>2 DEF Uncreated
<1>3. CASE r \notin known
  <2>1. heap[r].out = << >> \/ heap[r].out = <<SetupMsg>>
    BY <1>3 DEF Ready, Unknown
  <2>2. SetupMsg.op = "setup"
    BY MsgFields DEF SetupMsg
  <2>3. QED
    BY <2>1, <2>2 DEF Uncreated
<1>4. QED
  BY <1>2, <1>3

LEMMA Settles == Inv /\ Ready => Doomed \/ InAgreement
<1>1. SUFFICES ASSUME Inv, Ready, ~InAgreement PROVE Doomed
  OBVIOUS
<1>2. PICK g \in Games : g \in known /\ ~InStep(g)
  BY <1>1 DEF Ready, InAgreement
<1>3. Sure(heap[g], setup[g], Here(g), Playing(g)) /\ g \in up
  BY <1>1, <1>2 DEF Ready, AlmostInStep, Fine, Inv, Types
<1>4. Bad(heap[g], setup[g], toGame[g], Here(g), party)
  BY <1>1, <1>2, <1>3 DEF Ready, AlmostInStep, Fine, InStep
<1>5. PICK l \in Pids : \/ party[l] = NoParty /\ DoomedOut(heap[g].out, toGame[g], Here(g), l)
                        \/ /\ setup[g] = {} /\ Stranger(heap[g], l)
                           /\ DoomedIn(toGame[g], Here(g), l)
  BY <1>4 DEF Bad
<1>6. CASE party[l] = NoParty /\ DoomedOut(heap[g].out, toGame[g], Here(g), l)
  <2>1. PICK i : Stays(heap[g].out, toGame[g], Here(g), i, l)
    BY <1>6 DEF DoomedOut
  <2>2. \A r \in Games : r # g => Uncreated(heap[r].out, l)
    BY <1>1, <2>1, UncreatedOf
  <2>3. QED
    BY <1>3, <1>6, <2>2 DEF Refusal, Doomed
<1>7. CASE setup[g] = {} /\ Stranger(heap[g], l) /\ DoomedIn(toGame[g], Here(g), l)
  BY <1>2, <1>3, <1>7 DEF Orphan, Doomed, Sure
<1>8. QED
  BY <1>5, <1>6, <1>7

LEMMA SettlesNext == Inv' /\ Ready' => Doomed' \/ InAgreement'
  BY Settles, PTL

LEMMA FollowedAppend ==
  ASSUME NEW O \in Seq(ToDb), Followed(O), NEW m \in ToDb
  PROVE  /\ m.op # "create" => Followed(Append(O, m))
         /\ \A n \in ToDb :
              /\ n = Msg("add", m.leader, m.leader) => Followed(Append(Append(O, m), n))
<1>1. PICK s : s = Append(O, m)
  OBVIOUS
<1>2. PICK e \in Nat : e = Len(O)
  BY Appended
<1>3. /\ s \in Seq(ToDb) /\ DOMAIN O = 1 .. e /\ DOMAIN s = 1 .. e + 1 /\ Len(s) = e + 1
      /\ \A i \in 1 .. e : s[i] = O[i]
      /\ s[e + 1] = m
  BY <1>1, <1>2, Appended
<1>4. \A i \in 1 .. e : O[i].op = "create" =>
        i + 1 \in 1 .. e /\ O[i + 1] = Msg("add", O[i].leader, O[i].leader)
  BY <1>3 DEF Followed
<1>5. ASSUME m.op # "create" PROVE Followed(s)
  <2>1. SUFFICES ASSUME NEW i \in 1 .. e + 1, s[i].op = "create"
                 PROVE  i + 1 \in 1 .. e + 1 /\ s[i + 1] = Msg("add", s[i].leader, s[i].leader)
    BY <1>3 DEF Followed
  <2>2. i \in 1 .. e
    BY <1>3, <1>5, <2>1
  <2>3. s[i] = O[i] /\ i + 1 \in 1 .. e /\ O[i + 1] = Msg("add", O[i].leader, O[i].leader)
    BY <1>3, <1>4, <2>1, <2>2
  <2>4. QED
    BY <1>3, <2>3
<1>6. ASSUME NEW n \in ToDb, n = Msg("add", m.leader, m.leader)
      PROVE  Followed(Append(s, n))
  <2>1. PICK t : t = Append(s, n)
    OBVIOUS
  <2>2. /\ DOMAIN t = 1 .. e + 2 /\ t[e + 2] = n /\ t[e + 1] = m
        /\ \A i \in 1 .. e : t[i] = O[i]
    <3>1. /\ DOMAIN t = 1 .. (e + 1) + 1 /\ t[(e + 1) + 1] = n
          /\ \A i \in 1 .. e + 1 : t[i] = s[i]
      BY <1>3, <2>1, Appended
    <3>2. QED
      BY <1>3, <3>1
  <2>3. n.op = "add"
    BY <1>6, MsgFields
  <2>4. ASSUME NEW i \in 1 .. e + 2, t[i].op = "create"
        PROVE  i + 1 \in 1 .. e + 2 /\ t[i + 1] = Msg("add", t[i].leader, t[i].leader)
    <3>1. CASE i \in 1 .. e
      <4>1. t[i] = O[i] /\ i + 1 \in 1 .. e /\ O[i + 1] = Msg("add", O[i].leader, O[i].leader)
        BY <1>4, <2>2, <2>4, <3>1
      <4>2. QED
        BY <2>2, <4>1
    <3>2. CASE i = e + 1
      BY <1>6, <2>2, <3>2
    <3>3. CASE i = e + 2
      BY <2>2, <2>3, <2>4, <3>3
    <3>4. QED
      BY <3>1, <3>2, <3>3
  <2>5. QED
    BY <2>1, <2>2, <2>4 DEF Followed
<1>7. QED
  BY <1>1, <1>5, <1>6

LEMMA FollowedTail ==
  ASSUME NEW O \in Seq(ToDb), O # << >>, Followed(O)
  PROVE  /\ Followed(Tail(O))
         /\ Head(O).op = "create" =>
              ~Absent(Tail(O), Msg("add", Head(O).leader, Head(O).leader))
<1>1. PICK e \in Nat : e = Len(O) - 1
  BY Tailed
<1>2. PICK t : t = Tail(O)
  OBVIOUS
<1>3. /\ DOMAIN O = 1 .. e + 1 /\ DOMAIN t = 1 .. e /\ Head(O) = O[1]
      /\ \A i \in 1 .. e : t[i] = O[i + 1]
  BY <1>1, <1>2, Tailed
<1>4. \A i \in 1 .. e + 1 : O[i].op = "create" =>
        i + 1 \in 1 .. e + 1 /\ O[i + 1] = Msg("add", O[i].leader, O[i].leader)
  BY <1>3 DEF Followed
<1>5. ASSUME NEW i \in 1 .. e, t[i].op = "create"
      PROVE  i + 1 \in 1 .. e /\ t[i + 1] = Msg("add", t[i].leader, t[i].leader)
  <2>1. t[i] = O[i + 1] /\ i + 1 \in 1 .. e + 1
    BY <1>3
  <2>2. (i + 1) + 1 \in 1 .. e + 1 /\ O[(i + 1) + 1] = Msg("add", t[i].leader, t[i].leader)
    BY <1>4, <1>5, <2>1
  <2>3. QED
    BY <1>3, <2>2
<1>6. ASSUME O[1].op = "create" PROVE ~Absent(t, Msg("add", O[1].leader, O[1].leader))
  <2>1. 1 + 1 \in 1 .. e + 1 /\ O[1 + 1] = Msg("add", O[1].leader, O[1].leader)
    BY <1>4, <1>6
  <2>2. 1 \in 1 .. e /\ t[1] = O[1 + 1]
    BY <1>3, <2>1
  <2>3. QED
    BY <1>3, <2>1, <2>2 DEF Absent
<1>7. QED
  BY <1>2, <1>3, <1>5, <1>6 DEF Followed

LEMMA SaidAppend ==
  ASSUME NEW O \in Seq(ToDb), NEW m \in ToDb, NEW A, NEW B, Said(O, A),
         Neutral(m) \/ Due(m, A, B)
  PROVE  Said(Append(O, m), A)
<1>1. PICK s : s = Append(O, m)
  OBVIOUS
<1>2. PICK e \in Nat : e = Len(O)
  BY Appended
<1>3. /\ DOMAIN O = 1 .. e /\ DOMAIN s = 1 .. e + 1 /\ s[e + 1] = m
      /\ \A i \in 1 .. e : s[i] = O[i]
  BY <1>1, <1>2, Appended
<1>4. \A p : \A i \in 1 .. e : Remains(O, A, i, p) => Remains(s, A, i, p)
  <2>1. \A p : \A i \in 1 .. Len(O) : Behind(O, i, Logout(p)) => Behind(Append(O, m), i, Logout(p))
    BY PlacesAppend
  <2>2. QED
    BY <1>1, <1>2, <2>1 DEF Remains
<1>5. ASSUME NEW i \in 1 .. e
      PROVE  LET n == s[i] IN
               /\ Joins(n) => Remains(s, A, i, n.leader) /\ Remains(s, A, i, n.pid)
               /\ n.op = "create" => n.pid = n.leader
               /\ n.op = "remove" => /\ n.pid # n.leader
                                     /\ Remains(s, A, i, n.leader) \/ Remains(s, A, i, n.pid)
  BY <1>3, <1>4 DEF Said
<1>6. LET n == s[e + 1] IN
        /\ Joins(n) => Remains(s, A, e + 1, n.leader) /\ Remains(s, A, e + 1, n.pid)
        /\ n.op = "create" => n.pid = n.leader
        /\ n.op = "remove" => /\ n.pid # n.leader
                              /\ Remains(s, A, e + 1, n.leader) \/ Remains(s, A, e + 1, n.pid)
  BY <1>3 DEF Due, Remains, Neutral, Joins
<1>7. \A i \in DOMAIN s : i \in 1 .. e \/ i = e + 1
  BY <1>3
<1>8. QED
  BY <1>1, <1>5, <1>6, <1>7 DEF Said

\* A change, told with several messages: agreement, or an error of the db to come.
Telling(O, T, A, B, D) ==
  /\ Said(O, A)
  /\ \/ Copies(O, T, A, B, D)
     \/ \E l \in Pids : <<l, l>> \notin D /\ DoomedOut(O, T, A, l)

LEMMA TellsOn ==
  ASSUME NEW O \in Seq(ToDb), NEW T \in Seq(ToGames), NEW A, A \subseteq Pids,
         NEW B \in SUBSET Couples, NEW D \in SUBSET Couples, NEW m \in PartyMsgs,
         Telling(O, T, A, B, D),
         Neutral(m) \/ (m.op # "delete" /\ Due(m, A, B))
  PROVE  Telling(Append(O, m), T, A, Step(B, m), D)
<1>1. m \in ToDb /\ m.leader \in Pids
  BY MsgKinds DEF PartyMsgs
<1>2. Said(Append(O, m), A)
  BY <1>1, SaidAppend DEF Telling
<1>3. CASE Copies(O, T, A, B, D) /\ Neutral(m)
  <2>1. \A p \in Pids : m # Logout(p)
    BY MsgKinds
  <2>2. Copies(Append(O, m), T, A, B, D)
    BY <1>1, <1>3, <2>1, SaysNeutral
  <2>3. QED
    BY <1>2, <1>3, <2>2, StepFacts DEF Telling
<1>4. CASE Copies(O, T, A, B, D) /\ m.op # "delete" /\ Due(m, A, B)
  BY <1>1, <1>2, <1>4, Says DEF Telling
<1>5. CASE \E l \in Pids : <<l, l>> \notin D /\ DoomedOut(O, T, A, l)
  <2>1. PICK l \in Pids : <<l, l>> \notin D /\ DoomedOut(O, T, A, l)
    BY <1>5
  <2>2. DoomedOut(Append(O, m), T, A, l)
    <3>1. Append(O, m) \in Seq(ToDb) /\ Prefix(O, Append(O, m))
      BY <1>1, Appended, PrefixAppend
    <3>2. QED
      BY <2>1, <3>1, DoomedOutPrefix
  <2>3. QED
    BY <1>2, <2>1, <2>2 DEF Telling
<1>6. QED
  BY <1>3, <1>4, <1>5 DEF Telling

\* A game in step, and one step of it that it tells the db.
LEMMA LocalReady ==
  ASSUME Inv, InAgreement, NEW g \in Games, g \in known, NEW k, heap' = [heap EXCEPT ![g] = k],
         toGame' = toGame, setup' = setup, party' = party, known' = known, up' = up,
         \A r \in Games : r # g => Here(r)' = Here(r) /\ Playing(r)' = Playing(r),
         Prefix(heap[g].out, k.out),
         Fine(k, setup[g], toGame[g], Here(g)', Playing(g)', party)
  PROVE  Ready'
<1>1. heap'[g] = k /\ \A r \in Games : r # g => heap'[r] = heap[r]
  BY DEF Inv, HeapsGood
<1>2. Unique(Db(party))'
  BY DEF InAgreement
<1>3. LeadersIn'
  <2>1. \A l \in Pids : ~Absent(heap[g].out, Msg("add", l, l)) => ~Absent(k.out, Msg("add", l, l))
    BY DEF Absent, Prefix
  <2>2. \A r \in Games, l \in Pids :
          ~Absent(heap[r].out, Msg("add", l, l)) => ~Absent(heap'[r].out, Msg("add", l, l))
    BY <1>1, <2>1
  <2>3. LeadersIn
    BY DEF InAgreement
  <2>4. QED
    BY <2>2, <2>3 DEF LeadersIn
<1>4. AlmostInStep(g)'
  BY <1>1 DEF AlmostInStep
<1>5. ASSUME NEW r \in Games, r # g, r \in known PROVE AlmostInStep(r)'
  <2>1. InStep(r)
    BY <1>5 DEF InAgreement
  <2>2. Fine(heap[r], setup[r], toGame[r], Here(r), Playing(r), party)
    BY <2>1 DEF InStep, Fine
  <2>3. QED
    BY <1>1, <1>5, <2>2 DEF AlmostInStep
<1>6. ASSUME NEW r \in Games, r \notin known PROVE Unknown(r)'
  <2>1. Unknown(r) /\ r # g
    BY <1>6 DEF InAgreement
  <2>2. QED
    BY <1>1, <1>6, <2>1 DEF Unknown
<1>7. QED
  BY <1>2, <1>3, <1>4, <1>5, <1>6 DEF Ready

\* A game that has sent SETUP and been told all.
LEMMA CaughtUp ==
  ASSUME Inv, InAgreement, NEW g \in Games, g \in known, setup[g] = {}
  PROVE  /\ g \in up
         /\ Fit(heap[g]) /\ Joined(heap[g], Playing(g)) /\ Absent(heap[g].out, SetupMsg)
         /\ Followed(heap[g].out) /\ Said(heap[g].out, Here(g))
         /\ heap[g].out \in Seq(ToDb) /\ toGame[g] \in Seq(ToGames) /\ Here(g) \subseteq Pids
         /\ Copies(heap[g].out, toGame[g], Here(g), Pairs(heap[g]), Db(party))
<1>1. g \in up /\ InStep(g)
  BY DEF Inv, Types, InAgreement
<1>2. Coming(setup[g]) = {}
  BY ComingIs
<1>3. /\ Exact(heap[g]) /\ Joined(heap[g], Playing(g)) /\ Absent(heap[g].out, SetupMsg)
      /\ Followed(heap[g].out) /\ Said(heap[g].out, Here(g))
  BY <1>1 DEF InStep, Sure
<1>4. Copies(heap[g].out, toGame[g], Here(g), Pairs(heap[g]) \cup {}, Db(party))
  BY <1>1, <1>2 DEF InStep, Agreed
<1>5. Pairs(heap[g]) \cup {} = Pairs(heap[g])
  OBVIOUS
<1>6. /\ Good(heap[g]) /\ heap[g].out \in Seq(ToDb) /\ toGame[g] \in Seq(ToGames)
      /\ Here(g) \subseteq Pids
  BY OutTypes
<1>7. QED
  BY <1>1, <1>3, <1>4, <1>5, <1>6 DEF Fit

\* Such is a game that has players.
LEMMA InTouch ==
  ASSUME Inv, InAgreement, NEW g \in Games, NEW p \in Here(g)
  PROVE  /\ g \in known /\ g \in up /\ setup[g] = {}
         /\ Fit(heap[g]) /\ Joined(heap[g], Playing(g)) /\ Absent(heap[g].out, SetupMsg)
         /\ Followed(heap[g].out) /\ Said(heap[g].out, Here(g))
         /\ heap[g].out \in Seq(ToDb) /\ toGame[g] \in Seq(ToGames) /\ Here(g) \subseteq Pids
         /\ Copies(heap[g].out, toGame[g], Here(g), Pairs(heap[g]), Db(party))
<1>1. g \in known /\ InStep(g)
  BY DEF InAgreement, Unknown
<1>2. setup[g] = {}
  BY <1>1 DEF InStep, Sure
<1>3. QED
  BY <1>1, <1>2, CaughtUp

\* With nothing of the answer to SETUP left.
LEMMA FineIs ==
  ASSUME NEW k, NEW T, NEW A, NEW In, NEW pt, Exact(k), Joined(k, In),
         Absent(k.out, SetupMsg), Followed(k.out), Said(k.out, A),
         \/ Copies(k.out, T, A, Pairs(k), Db(pt))
         \/ \E l \in Pids : \/ pt[l] = NoParty /\ DoomedOut(k.out, T, A, l)
                            \/ Stranger(k, l) /\ DoomedIn(T, A, l)
  PROVE  Fine(k, {}, T, A, In, pt)
<1>1. Coming({}) = {}
  BY ComingIs
<1>2. Pairs(k) \cup Coming({}) = Pairs(k)
  BY <1>1
<1>3. Sure(k, {}, A, In)
  BY DEF Sure, Answer
<1>4. QED
  BY <1>2, <1>3 DEF Fine, Agreed, Bad

\* Several messages.
LEMMA TellingFine ==
  ASSUME NEW k, NEW T, NEW A, NEW In, NEW pt, Fit(k), Joined(k, In),
         Absent(k.out, SetupMsg), Followed(k.out),
         Telling(k.out, T, A, Pairs(k), Db(pt))
  PROVE  Fine(k, {}, T, A, In, pt)
<1>1. \A l \in Pids : <<l, l>> \notin Db(pt) => pt[l] = NoParty
  BY DbIs
<1>2. QED
  BY <1>1, FineIs DEF Telling, Fit

\* One message of the end of a party, or of a member that leaves.
LEMMA SpokeFine ==
  ASSUME NEW h, Fit(h), NEW k, NEW T \in Seq(ToGames), NEW A, A \subseteq Pids,
         NEW In \in SUBSET Pids, NEW pt,
         NEW m \in PartyMsgs, m.op # "create", Spoke(k, h, m), Due(m, A, Pairs(h)),
         m.op = "delete" => m.pid = m.leader,
         Joined(h, In), Absent(h.out, SetupMsg), Followed(h.out), Said(h.out, A),
         Copies(h.out, T, A, Pairs(h), Db(pt))
  PROVE  Fine(k, {}, T, A, In, pt) /\ Prefix(h.out, k.out)
<1>1. /\ Fit(k) /\ Pairs(k) = Step(Pairs(h), m) /\ k.out = Append(h.out, m)
      /\ JoinedToo(k, h, {})
  BY DEF Spoke
<1>2. Joined(k, In)
  <2>1. In \ {} = In
    OBVIOUS
  <2>2. QED
    BY <1>1, <2>1 DEF JoinedToo
<1>3. PICK O \in Seq(ToDb) : O = h.out
  BY DEF Fit, Good, Typed
<1>4. m \in ToDb /\ m # SetupMsg /\ m.leader \in Pids
  BY MsgKinds, MsgFields DEF SetupMsg, PartyMsgs, PartyOps
<1>5. Absent(k.out, SetupMsg)
  BY <1>1, <1>3, <1>4, PlacesAppend
<1>6. Followed(k.out) /\ Said(k.out, A)
  BY <1>1, <1>3, <1>4, FollowedAppend, SaidAppend
<1>7. \A l \in Pids : <<l, l>> \notin Db(pt) => pt[l] = NoParty
  BY DbIs
<1>8. PICK l \in Pids : l = m.leader
  BY <1>4
<1>9. PICK B, D : B = Pairs(h) /\ D = Db(pt)
  OBVIOUS
<1>10. B \in SUBSET Couples /\ D \in SUBSET Couples
  BY <1>9, DbIs, PairIs
<1>11. \/ Copies(Append(O, m), T, A, Step(B, m), D)
       \/ <<l, l>> \notin D /\ DoomedOut(Append(O, m), T, A, l)
       \/ m.op = "delete" /\ DoomedIn(T, A, l)
  BY <1>3, <1>4, <1>8, <1>9, <1>10, Says
<1>12. ASSUME m.op = "delete" PROVE Stranger(k, l)
  <2>1. <<l, l>> \in B /\ Unique(B)
    BY <1>8, <1>9, <1>12 DEF Due, Copies
  <2>2. \A a \in Pids : <<a, l>> \notin Step(B, m)
    <3>1. SUFFICES ASSUME NEW a \in Pids, <<a, l>> \in Step(B, m) PROVE FALSE
      OBVIOUS
    <3>2. ~Gives(m, <<a, l>>)
      BY <1>12 DEF Gives, Joins
    <3>3. <<a, l>> \in B /\ ~Takes(m, <<a, l>>)
      BY <1>10, <3>1, <3>2, StepFacts, Pairing
    <3>4. a = l
      BY <2>1, <3>3 DEF Unique
    <3>5. QED
      BY <1>8, <1>12, <3>3, <3>4, GiveTake
  <2>3. QED
    BY <1>1, <1>9, <2>2, NoPairs
<1>13. Prefix(h.out, k.out)
  BY <1>1, <1>3, <1>4, PrefixAppend
<1>14. QED
  BY <1>1, <1>2, <1>3, <1>5, <1>6, <1>7, <1>9, <1>11, <1>12, <1>13, FineIs DEF Fit

\* Who acts, and its party.
LEMMA Actor ==
  ASSUME Inv, InAgreement, NEW p \in Pids, NEW g, NEW id \in Ids \cup {NoId}, Acts(p, g, id)
  PROVE  /\ g \in Games /\ p \in Here(g) /\ p \in Playing(g) /\ g \in known
         /\ setup[g] = {} /\ heap[g].link[p] = id /\ heap[g].map[p] = id
         /\ id = NoId => \A k \in Pids : <<k, p>> \notin Pairs(heap[g])
         /\ id # NoId => p \in heap[g].obj[id].members
<1>1. g \in Games /\ p \in ingame /\ at[p] = g /\ heap[g].link[p] = id /\ Good(heap[g])
  BY ActsFacts
<1>2. p \in Here(g) /\ p \in Playing(g)
  BY <1>1 DEF Here, Playing
<1>3. g \in known /\ setup[g] = {} /\ Fit(heap[g]) /\ Joined(heap[g], Playing(g))
  BY <1>1, <1>2, InTouch
<1>4. CASE id = NoId
  <2>1. heap[g].map[p] = NoId
    BY <1>1, <1>2, <1>3, <1>4 DEF Joined
  <2>2. QED
    BY <1>1, <1>2, <1>3, <1>4, <2>1, PairIs
<1>5. CASE id \in Ids
  <2>1. p \in heap[g].obj[id].members
    BY <1>1, <1>5, NullAssumption DEF Good, LinksMeet, CharsIn
  <2>2. heap[g].map[p] = id
    BY <1>3, <1>5, <2>1 DEF Fit, Exact
  <2>3. QED
    BY <1>1, <1>2, <1>3, <1>5, <2>1, <2>2, NullAssumption
<1>6. QED
  BY <1>4, <1>5

\* An action of a player at g that makes its heap k.
LEMMA ActReady ==
  ASSUME Inv, InAgreement, NEW g \in Games, g \in known, setup[g] = {}, NEW k,
         Local(g, k), UNCHANGED chars, Prefix(heap[g].out, k.out),
         Fine(k, {}, toGame[g], Here(g), Playing(g), party)
  PROVE  Ready'
<1>1. /\ heap' = [heap EXCEPT ![g] = k] /\ toGame' = toGame /\ setup' = setup
      /\ party' = party /\ known' = known /\ up' = up /\ at' = at /\ ingame' = ingame
  BY DEF Local, dbVars, chars
<1>2. \A r \in Games : Here(r)' = Here(r) /\ Playing(r)' = Playing(r)
  BY <1>1 DEF Here, Playing
<1>3. QED
  BY <1>1, <1>2, LocalReady

\* The end of a party, and a member that leaves.
LEMMA EndReady ==
  ASSUME Inv, InAgreement, NEW p \in Pids, NEW g, NEW id \in Ids, Acts(p, g, id), NEW k, Local(g, k),
         UNCHANGED chars,
         \/ k = DeleteParty(heap[g], id)
         \/ k = Quit(heap[g], id, p)
         \/ Leads(p, g, id) /\ \E q \in Pids : k = Quit(heap[g], id, q)
  PROVE  Ready'
<1>1. /\ g \in Games /\ p \in Here(g) /\ g \in known /\ setup[g] = {}
      /\ p \in heap[g].obj[id].members
  BY Actor, NullAssumption
<1>2. PICK h : h = heap[g]
  OBVIOUS
<1>3. /\ Fit(h) /\ Joined(h, Playing(g)) /\ Absent(h.out, SetupMsg)
      /\ Followed(h.out) /\ Said(h.out, Here(g))
      /\ toGame[g] \in Seq(ToGames) /\ Here(g) \subseteq Pids
      /\ Copies(h.out, toGame[g], Here(g), Pairs(h), Db(party))
  BY <1>1, <1>2, InTouch
<1>4. Playing(g) \in SUBSET Pids
  BY <1>3 DEF Playing
<1>5. PICK l \in Pids : l = h.obj[id].leader
  BY <1>1, <1>2, <1>3, FitFacts
<1>6. <<l, l>> \in Pairs(h) /\ <<l, p>> \in Pairs(h)
  BY <1>1, <1>2, <1>3, <1>5, FitFacts
<1>7. ASSUME NEW m \in PartyMsgs, m.op # "create", Spoke(k, h, m), Due(m, Here(g), Pairs(h)),
             m.op = "delete" => m.pid = m.leader
      PROVE  Ready'
  <2>1. Fine(k, {}, toGame[g], Here(g), Playing(g), party) /\ Prefix(h.out, k.out)
    BY <1>3, <1>4, <1>7, SpokeFine
  <2>2. QED
    BY <1>1, <1>2, <2>1, ActReady
<1>8. CASE k = DeleteParty(h, id)
  <2>1. PICK m : m = Msg("delete", l, l)
    OBVIOUS
  <2>2. m \in PartyMsgs /\ m.op = "delete" /\ m.leader = l /\ m.pid = l
    BY <2>1, MsgKinds, MsgFields DEF PartyOps
  <2>3. Spoke(k, h, m)
    BY <1>1, <1>2, <1>3, <1>5, <1>8, <2>1, DeletePartyFit
  <2>4. Due(m, Here(g), Pairs(h))
    BY <1>1, <1>6, <2>2 DEF Due
  <2>5. QED
    BY <1>7, <2>2, <2>3, <2>4
<1>9. ASSUME NEW q \in Pids, q # l, k = Quit(h, id, q), l \in Here(g) \/ q \in Here(g)
      PROVE  Ready'
  <2>1. PICK m : m = Msg("remove", l, q)
    OBVIOUS
  <2>2. m \in PartyMsgs /\ m.op = "remove" /\ m.leader = l /\ m.pid = q
    BY <2>1, MsgKinds, MsgFields DEF PartyOps
  <2>3. Spoke(k, h, m)
    BY <1>1, <1>2, <1>3, <1>5, <1>9, <2>1, QuitFit
  <2>4. Due(m, Here(g), Pairs(h))
    BY <1>6, <1>9, <2>2 DEF Due
  <2>5. QED
    BY <1>7, <2>2, <2>3, <2>4
<1>10. Quit(h, id, l) = DeleteParty(h, id)
  BY <1>1, <1>2, <1>3, <1>5, LeaderQuits
<1>11. CASE k = Quit(h, id, p)
  BY <1>1, <1>8, <1>9, <1>10, <1>11
<1>12. ASSUME Leads(p, g, id), NEW q \in Pids, k = Quit(h, id, q) PROVE Ready'
  <2>1. l = p
    BY <1>2, <1>5, <1>12 DEF Leads
  <2>2. QED
    BY <1>1, <1>8, <1>9, <1>10, <1>12, <2>1
<1>13. QED
  BY <1>2, <1>8, <1>11, <1>12

LEMMA LevelUpReady ==
  ASSUME Inv, InAgreement, NEW p \in Pids, NEW id \in Ids, LevelUp(p, id)
  PROVE  Ready'
<1>1. PICK g : g = at[p]
  OBVIOUS
<1>2. PICK h : h = heap[g]
  OBVIOUS
<1>3. PICK m : m = Msg("level", h.obj[id].leader, p)
  OBVIOUS
<1>4. PICK k : k = Say(h, m)
  OBVIOUS
<1>5. Acts(p, g, id) /\ Local(g, k) /\ UNCHANGED chars
  BY <1>1, <1>2, <1>3, <1>4 DEF LevelUp
<1>6. /\ g \in Games /\ p \in Here(g) /\ g \in known /\ setup[g] = {}
      /\ p \in h.obj[id].members
  BY <1>2, <1>5, Actor, NullAssumption
<1>7. /\ Fit(h) /\ Joined(h, Playing(g)) /\ Absent(h.out, SetupMsg)
      /\ Followed(h.out) /\ Said(h.out, Here(g)) /\ h.out \in Seq(ToDb)
      /\ toGame[g] \in Seq(ToGames) /\ Here(g) \subseteq Pids
      /\ Copies(h.out, toGame[g], Here(g), Pairs(h), Db(party))
  BY <1>2, <1>6, InTouch
<1>8. h.obj[id].leader \in Pids
  BY <1>6, <1>7, FitFacts
<1>9. m \in PartyMsgs /\ m \in ToDb /\ Neutral(m) /\ m # SetupMsg
  BY <1>3, <1>8, MsgKinds, MsgFields DEF PartyOps, Neutral, SetupMsg
<1>10. /\ Fit(k) /\ Pairs(k) = Pairs(h) /\ k.out = Append(h.out, m)
       /\ k.map = h.map /\ k.link = h.link
  BY <1>4, <1>7, <1>9, SayFit
<1>11. Joined(k, Playing(g))
  BY <1>7, <1>10 DEF Joined
<1>12. Telling(k.out, toGame[g], Here(g), Pairs(k), Db(party))
  <2>1. Telling(h.out, toGame[g], Here(g), Pairs(h), Db(party))
    BY <1>7 DEF Telling
  <2>2. Telling(Append(h.out, m), toGame[g], Here(g), Step(Pairs(h), m), Db(party))
    BY <1>7, <1>9, <2>1, DbIs, PairIs, TellsOn
  <2>3. Step(Pairs(h), m) = Pairs(h)
    BY <1>9, PairIs, StepFacts
  <2>4. QED
    BY <1>10, <2>2, <2>3
<1>13. Absent(k.out, SetupMsg) /\ Followed(k.out) /\ Prefix(h.out, k.out)
  <2>1. m.op # "create"
    BY <1>9, NeutralFacts
  <2>2. QED
    BY <1>7, <1>9, <1>10, <2>1, PlacesAppend, FollowedAppend, PrefixAppend
<1>14. Fine(k, {}, toGame[g], Here(g), Playing(g), party)
  BY <1>10, <1>11, <1>12, <1>13, TellingFine
<1>15. QED
  BY <1>2, <1>5, <1>6, <1>13, <1>14, ActReady

\* A message more of several, and what it leaves of the queue.
Grown(O, Q) == Q \in Seq(ToDb) /\ Prefix(O, Q) /\ (Absent(O, SetupMsg) => Absent(Q, SetupMsg))

LEMMA Grows ==
  ASSUME NEW O \in Seq(ToDb), NEW Q, Grown(O, Q), NEW m \in PartyMsgs
  PROVE  Grown(O, Append(Q, m))
<1>1. m \in ToDb /\ m # SetupMsg
  BY MsgKinds, MsgFields DEF SetupMsg, PartyMsgs, PartyOps
<1>2. Prefix(Q, Append(Q, m)) /\ Append(Q, m) \in Seq(ToDb)
  BY <1>1, PrefixAppend, Appended DEF Grown
<1>3. Absent(Q, SetupMsg) => Absent(Append(Q, m), SetupMsg)
  BY <1>1, PlacesAppend DEF Grown
<1>4. QED
  BY <1>2, <1>3 DEF Grown, Prefix

LEMMA GrownSelf ==
  ASSUME NEW O \in Seq(ToDb)
  PROVE  Grown(O, O)
  BY PrefixSelf DEF Grown

LEMMA TellsLevel ==
  ASSUME NEW O \in Seq(ToDb), NEW T \in Seq(ToGames), NEW A, A \subseteq Pids,
         NEW B \in SUBSET Couples, NEW D \in SUBSET Couples, NEW m \in PartyMsgs,
         Telling(O, T, A, B, D), Neutral(m)
  PROVE  Telling(Append(O, m), T, A, B, D)
<1>1. Step(B, m) = B
  BY StepFacts
<1>2. Telling(Append(O, m), T, A, Step(B, m), D)
  BY TellsOn
<1>3. QED
  BY <1>1, <1>2

LEMMA TellsJoin ==
  ASSUME NEW O \in Seq(ToDb), NEW T \in Seq(ToGames), NEW A, A \subseteq Pids,
         NEW B \in SUBSET Couples, NEW D \in SUBSET Couples, NEW m \in PartyMsgs,
         Telling(O, T, A, B, D), Joins(m), Due(m, A, B), NEW C, C = Step(B, m)
  PROVE  Telling(Append(O, m), T, A, C, D)
<1>1. m.op # "delete"
  BY DEF Joins
<1>2. Telling(Append(O, m), T, A, Step(B, m), D)
  BY <1>1, TellsOn
<1>3. QED
  BY <1>2

LEMMA InviteReady ==
  ASSUME Inv, InAgreement, NEW p \in Pids, NEW q \in Pids, NEW id \in Ids, Invite(p, q, id)
  PROVE  Ready'
<1>1. PICK g : g = at[p]
  OBVIOUS
<1>2. PICK h : h = heap[g]
  OBVIOUS
<1>3. PICK k : k = Link(Join(h, id, q), id, q)
  OBVIOUS
<1>4. /\ Acts(p, g, id) /\ Acts(q, g, NoId) /\ Leads(p, g, id) /\ Local(g, k) /\ UNCHANGED chars
  BY <1>1, <1>2, <1>3 DEF Invite
<1>5. /\ g \in Games /\ p \in Here(g) /\ g \in known /\ setup[g] = {}
      /\ p \in h.obj[id].members /\ p = h.obj[id].leader
  BY <1>2, <1>4, Actor, NullAssumption DEF Leads
<1>6. /\ q \in Here(g) /\ q \in Playing(g) /\ h.map[q] = NoId /\ h.link[q] = NoId
      /\ \A a \in Pids : <<a, q>> \notin Pairs(h)
  BY <1>2, <1>4, Actor
<1>7. /\ Fit(h) /\ Joined(h, Playing(g)) /\ Absent(h.out, SetupMsg)
      /\ Followed(h.out) /\ Said(h.out, Here(g)) /\ h.out \in Seq(ToDb)
      /\ toGame[g] \in Seq(ToGames) /\ Here(g) \subseteq Pids
      /\ Copies(h.out, toGame[g], Here(g), Pairs(h), Db(party))
  BY <1>2, <1>5, InTouch
<1>8. <<p, p>> \in Pairs(h)
  BY <1>5, <1>7, FitFacts
<1>9. PICK m, n : m = Msg("add", p, q) /\ n = Msg("level", p, q)
  OBVIOUS
<1>10. /\ m \in PartyMsgs /\ m.op = "add" /\ m.leader = p /\ m.pid = q /\ m \in ToDb
       /\ n \in PartyMsgs /\ n.op = "level" /\ Neutral(n) /\ n \in ToDb
  BY <1>9, MsgKinds, MsgFields DEF PartyOps, Neutral
<1>11. Inviting(k, h, p, q)
  BY <1>3, <1>5, <1>6, <1>7, InvitedFit
<1>12. /\ Fit(k) /\ Pairs(k) = Step(Pairs(h), m) /\ k.out = Append(Append(h.out, m), n)
       /\ JoinedAlso(k, h, {q})
  BY <1>9, <1>11 DEF Inviting
<1>13. Joined(k, Playing(g))
  <2>1. Playing(g) \in SUBSET Pids /\ Playing(g) \cup {q} = Playing(g)
    BY <1>6, <1>7 DEF Playing
  <2>2. QED
    BY <1>7, <1>12, <2>1 DEF JoinedAlso
<1>14. PICK Q \in Seq(ToDb) : Q = Append(h.out, m)
  BY <1>7, <1>10, Appended
<1>15. Telling(k.out, toGame[g], Here(g), Pairs(k), Db(party))
  <2>1. Telling(h.out, toGame[g], Here(g), Pairs(h), Db(party))
    BY <1>7 DEF Telling
  <2>2. Due(m, Here(g), Pairs(h))
    BY <1>5, <1>6, <1>8, <1>10 DEF Due
  <2>3. Joins(m)
    BY <1>10 DEF Joins
  <2>4. /\ Pairs(h) \in SUBSET Couples /\ Pairs(k) \in SUBSET Couples
        /\ Db(party) \in SUBSET Couples
    BY DbIs, PairIs
  <2>5. Telling(Append(h.out, m), toGame[g], Here(g), Pairs(k), Db(party))
    BY <1>7, <1>10, <1>12, <2>1, <2>2, <2>3, <2>4, TellsJoin
  <2>6. Telling(Append(Q, n), toGame[g], Here(g), Pairs(k), Db(party))
    BY <1>7, <1>10, <1>14, <2>4, <2>5, TellsLevel
  <2>7. QED
    BY <1>12, <1>14, <2>6
<1>16. Grown(h.out, k.out)
  BY <1>7, <1>10, <1>12, Grows, GrownSelf
<1>17. Followed(k.out)
  <2>1. Followed(Q)
    BY <1>7, <1>10, <1>14, FollowedAppend
  <2>2. QED
    BY <1>10, <1>12, <1>14, <2>1, FollowedAppend
<1>18. Fine(k, {}, toGame[g], Here(g), Playing(g), party)
  BY <1>7, <1>12, <1>13, <1>15, <1>16, <1>17, TellingFine DEF Grown
<1>19. Prefix(heap[g].out, k.out)
  BY <1>2, <1>16 DEF Grown
<1>20. QED
  BY <1>4, <1>5, <1>18, <1>19, ActReady

\* The five messages of a new party.
LEMMA FoundTells ==
  ASSUME NEW O \in Seq(ToDb), NEW T \in Seq(ToGames), NEW A, A \subseteq Pids,
         NEW B \in SUBSET Couples, NEW D \in SUBSET Couples, Copies(O, T, A, B, D),
         NEW p \in A, NEW q \in A, p # q,
         \A k \in Pids : <<k, p>> \notin B /\ <<k, q>> \notin B
  PROVE  LET m == Msg("create", p, p)
             n == Msg("add", p, p)
             o == Msg("add", p, q)
         IN /\ Telling(Append(Append(Append(Append(Append(O, m), n), Msg("level", p, p)), o),
                              Msg("level", p, q)),
                       T, A, Step(Step(Step(B, m), n), o), D)
            /\ Grown(O, Append(Append(Append(Append(Append(O, m), n), Msg("level", p, p)), o),
                              Msg("level", p, q)))
            /\ Followed(O) =>
                 Followed(Append(Append(Append(Append(Append(O, m), n), Msg("level", p, p)), o),
                              Msg("level", p, q)))
<1>1. PICK m, n, o, u, v : /\ m = Msg("create", p, p) /\ n = Msg("add", p, p) /\ o = Msg("add", p, q)
                           /\ u = Msg("level", p, p) /\ v = Msg("level", p, q)
  OBVIOUS
<1>2. /\ p \in Pids /\ q \in Pids
      /\ m \in PartyMsgs /\ m.op = "create" /\ m.leader = p /\ m.pid = p
      /\ n \in PartyMsgs /\ n.op = "add" /\ n.leader = p /\ n.pid = p
      /\ o \in PartyMsgs /\ o.op = "add" /\ o.leader = p /\ o.pid = q
      /\ u \in PartyMsgs /\ u.op = "level" /\ v \in PartyMsgs /\ v.op = "level"
      /\ Neutral(u) /\ Neutral(v) /\ Joins(m) /\ Joins(n) /\ Joins(o)
  BY <1>1, MsgKinds, MsgFields DEF PartyOps, Neutral, Joins
<1>3. m \in ToDb /\ n \in ToDb /\ o \in ToDb /\ u \in ToDb /\ v \in ToDb
  BY <1>2, MsgKinds
<1>4. PICK B1, B2, B3 : B1 = Step(B, m) /\ B2 = Step(B1, n) /\ B3 = Step(B2, o)
  OBVIOUS
<1>5. B1 \in SUBSET Couples
  BY <1>4, StepFacts
<1>6. B2 \in SUBSET Couples
  BY <1>4, <1>5, StepFacts
<1>7. B3 \in SUBSET Couples /\ Step(B2, u) = B2 /\ Step(B3, v) = B3
  BY <1>2, <1>4, <1>6, StepFacts
<1>8. PICK O1, O2, O3, O4, O5 :
        /\ O1 = Append(O, m) /\ O2 = Append(O1, n) /\ O3 = Append(O2, u)
        /\ O4 = Append(O3, o) /\ O5 = Append(O4, v)
  OBVIOUS
<1>9. Grown(O, O1)
  BY <1>2, <1>8, Grows, GrownSelf
<1>10. Grown(O, O2)
  BY <1>2, <1>8, <1>9, Grows
<1>11. Grown(O, O3)
  BY <1>2, <1>8, <1>10, Grows
<1>12. Grown(O, O4)
  BY <1>2, <1>8, <1>11, Grows
<1>13. Grown(O, O5)
  BY <1>2, <1>8, <1>12, Grows
<1>14. O1 \in Seq(ToDb) /\ O2 \in Seq(ToDb) /\ O3 \in Seq(ToDb) /\ O4 \in Seq(ToDb)
  BY <1>9, <1>10, <1>11, <1>12 DEF Grown
<1>15. Unique(B)
  BY DEF Copies
<1>16. \A k \in Pids : <<p, k>> \notin B
  BY <1>2, <1>15 DEF Unique
<1>17. ASSUME NEW a \in Pids, NEW c \in Pids
       PROVE  /\ <<a, c>> \in B1 <=> (a = p /\ c = p) \/ <<a, c>> \in B
              /\ <<a, c>> \in B2 <=> (a = p /\ c = p) \/ <<a, c>> \in B
  <2>1. /\ Gives(m, <<a, c>>) <=> a = p /\ c = p
        /\ Gives(n, <<a, c>>) <=> a = p /\ c = p
        /\ ~Takes(m, <<a, c>>) /\ ~Takes(n, <<a, c>>)
    BY <1>2, GiveTake
  <2>2. <<a, c>> \in B1 <=> (a = p /\ c = p) \/ <<a, c>> \in B
    BY <1>4, <2>1, StepFacts, Pairing
  <2>3. <<a, c>> \in B2 <=> (a = p /\ c = p) \/ <<a, c>> \in B1
    BY <1>4, <1>5, <2>1, StepFacts, Pairing
  <2>4. QED
    BY <2>2, <2>3
<1>18. Joins(m) /\ Joins(n) /\ Joins(o)
  BY <1>2
<1>19. Due(m, A, B)
  BY <1>2, <1>16 DEF Due
<1>20. Due(n, A, B1)
  <2>1. \A k \in Pids : k # p => <<k, p>> \notin B1
    BY <1>2, <1>16, <1>17
  <2>2. <<p, p>> \in B1
    BY <1>2, <1>17
  <2>3. QED
    BY <1>2, <2>1, <2>2 DEF Due
<1>21. Due(o, A, B2)
  <2>1. \A k \in Pids : k # p => <<k, q>> \notin B2
    BY <1>2, <1>17
  <2>2. <<p, p>> \in B2
    BY <1>2, <1>17
  <2>3. QED
    BY <1>2, <2>1, <2>2 DEF Due
<1>22. Telling(O, T, A, B, D)
  BY DEF Telling, Copies
<1>23. Telling(O1, T, A, B1, D)
  BY <1>2, <1>4, <1>8, <1>19, <1>22, <1>18, TellsJoin
<1>24. Telling(O2, T, A, B2, D)
  BY <1>2, <1>4, <1>5, <1>8, <1>14, <1>20, <1>23, <1>18, TellsJoin
<1>25. Telling(O3, T, A, B2, D)
  BY <1>2, <1>6, <1>7, <1>8, <1>14, <1>24, TellsLevel
<1>26. Telling(O4, T, A, B3, D)
  BY <1>2, <1>4, <1>6, <1>8, <1>14, <1>21, <1>25, <1>18, TellsJoin
<1>27. Telling(O5, T, A, B3, D)
  BY <1>2, <1>7, <1>8, <1>14, <1>26, TellsLevel
<1>28. ASSUME Followed(O) PROVE Followed(O5)
  <2>1. Followed(O2)
    BY <1>1, <1>2, <1>3, <1>8, <1>28, FollowedAppend
  <2>2. Followed(O3)
    BY <1>2, <1>3, <1>8, <1>14, <2>1, FollowedAppend
  <2>3. Followed(O4)
    BY <1>2, <1>3, <1>8, <1>14, <2>2, FollowedAppend
  <2>4. QED
    BY <1>2, <1>3, <1>8, <1>14, <2>3, FollowedAppend
<1>29. QED
  BY <1>1, <1>4, <1>8, <1>13, <1>27, <1>28

LEMMA InviteToNewReady ==
  ASSUME Inv, InAgreement, NEW p \in Pids, NEW q \in Pids, InviteToNew(p, q)
  PROVE  Ready'
<1>1. PICK g : g = at[p]
  OBVIOUS
<1>2. PICK h : h = heap[g]
  OBVIOUS
<1>3. PICK k : k = Found(h, p, q)
  OBVIOUS
<1>4. /\ Acts(p, g, NoId) /\ Acts(q, g, NoId) /\ p # q /\ Room(h)
      /\ Local(g, k) /\ UNCHANGED chars
  BY <1>1, <1>2, <1>3 DEF InviteToNew
<1>5. /\ g \in Games /\ p \in Here(g) /\ p \in Playing(g) /\ h.map[p] = NoId /\ h.link[p] = NoId
      /\ g \in known /\ setup[g] = {}
      /\ \A a \in Pids : <<a, p>> \notin Pairs(h)
  BY <1>2, <1>4, Actor
<1>6. /\ q \in Here(g) /\ q \in Playing(g) /\ h.map[q] = NoId /\ h.link[q] = NoId
      /\ \A a \in Pids : <<a, q>> \notin Pairs(h)
  BY <1>2, <1>4, Actor
<1>7. /\ Fit(h) /\ Joined(h, Playing(g)) /\ Absent(h.out, SetupMsg)
      /\ Followed(h.out) /\ Said(h.out, Here(g)) /\ h.out \in Seq(ToDb)
      /\ toGame[g] \in Seq(ToGames) /\ Here(g) \subseteq Pids
      /\ Copies(h.out, toGame[g], Here(g), Pairs(h), Db(party))
  BY <1>2, <1>5, InTouch
<1>8. Founding(k, h, p, q)
  BY <1>3, <1>4, <1>5, <1>6, <1>7, FoundFit
<1>9. Fit(k) /\ JoinedAlso(k, h, {p, q})
  BY <1>8 DEF Founding
<1>10. Joined(k, Playing(g))
  <2>1. Playing(g) \in SUBSET Pids /\ Playing(g) \cup {p, q} = Playing(g)
    BY <1>5, <1>6, <1>7 DEF Playing
  <2>2. QED
    BY <1>7, <1>9, <2>1 DEF JoinedAlso
<1>11. /\ Telling(k.out, toGame[g], Here(g), Pairs(k), Db(party))
       /\ Grown(h.out, k.out) /\ Followed(k.out)
  <2>1. PICK B, D : B = Pairs(h) /\ D = Db(party)
    OBVIOUS
  <2>2. B \in SUBSET Couples /\ D \in SUBSET Couples
    BY <2>1, PairIs, DbIs
  <2>3. \A a \in Pids : <<a, p>> \notin B /\ <<a, q>> \notin B
    BY <1>5, <1>6, <2>1
  <2>4. Copies(h.out, toGame[g], Here(g), B, D)
    BY <1>7, <2>1
  <2>5. PICK m, n, o, Q :
          /\ m = Msg("create", p, p) /\ n = Msg("add", p, p) /\ o = Msg("add", p, q)
          /\ Q = Append(Append(Append(Append(Append(h.out, m), n), Msg("level", p, p)), o),
                        Msg("level", p, q))
    OBVIOUS
  <2>6. k.out = Q /\ Pairs(k) = Step(Step(Step(B, m), n), o)
    BY <1>8, <2>1, <2>5 DEF Founding
  <2>7. /\ Telling(Q, toGame[g], Here(g), Step(Step(Step(B, m), n), o), D)
        /\ Grown(h.out, Q) /\ (Followed(h.out) => Followed(Q))
    <3>1. /\ h.out \in Seq(ToDb) /\ toGame[g] \in Seq(ToGames) /\ Here(g) \subseteq Pids
          /\ p \in Here(g) /\ q \in Here(g) /\ p # q
      BY <1>4, <1>5, <1>6, <1>7
    <3>2. PICK O, T, A : O = h.out /\ T = toGame[g] /\ A = Here(g)
      OBVIOUS
    <3>3. /\ O \in Seq(ToDb) /\ T \in Seq(ToGames) /\ A \subseteq Pids /\ p \in A /\ q \in A
          /\ p # q /\ Copies(O, T, A, B, D)
      BY <2>4, <3>1, <3>2
    <3>4. QED
      BY <2>2, <2>3, <2>5, <3>2, <3>3, FoundTells
  <2>8. QED
    BY <1>7, <2>1, <2>6, <2>7
<1>12. Fine(k, {}, toGame[g], Here(g), Playing(g), party)
  BY <1>7, <1>9, <1>10, <1>11, TellingFine DEF Grown
<1>13. Prefix(heap[g].out, k.out)
  BY <1>2, <1>11 DEF Grown
<1>14. QED
  BY <1>4, <1>5, <1>12, <1>13, ActReady

LEMMA PlayReady ==
  ASSUME Inv, InAgreement, NEW p \in Pids, Play(p)
  PROVE  Ready'
<1>1. ASSUME NEW q \in Pids, InviteToNew(p, q) PROVE Ready'
  BY <1>1, InviteToNewReady
<1>2. ASSUME NEW id \in Ids, NEW q \in Pids, Invite(p, q, id) PROVE Ready'
  BY <1>2, InviteReady
<1>3. ASSUME NEW id \in Ids, NEW q \in Pids, Expel(p, q, id) PROVE Ready'
  <2>1. PICK g : g = at[p]
    OBVIOUS
  <2>2. PICK k : k = IF q = p \/ Size(g, id) = 2 THEN DeleteParty(heap[g], id)
                     ELSE Quit(heap[g], id, q)
    OBVIOUS
  <2>3. Acts(p, g, id) /\ Leads(p, g, id) /\ Local(g, k) /\ UNCHANGED chars
    BY <1>3, <2>1, <2>2 DEF Expel
  <2>4. QED
    BY <2>2, <2>3, EndReady
<1>4. ASSUME NEW id \in Ids, Leave(p, id) PROVE Ready'
  <2>1. PICK g : g = at[p]
    OBVIOUS
  <2>2. PICK k : k = IF Size(g, id) = 2 THEN DeleteParty(heap[g], id)
                     ELSE Quit(heap[g], id, p)
    OBVIOUS
  <2>3. Acts(p, g, id) /\ Local(g, k) /\ UNCHANGED chars
    BY <1>4, <2>1, <2>2 DEF Leave
  <2>4. QED
    BY <2>2, <2>3, EndReady
<1>5. ASSUME NEW id \in Ids, LevelUp(p, id) PROVE Ready'
  BY <1>5, LevelUpReady
<1>6. QED
  BY <1>1, <1>2, <1>3, <1>4, <1>5 DEF Play

\* A game that a step leaves alone.
LEMMA OtherReady ==
  ASSUME InAgreement, NEW r \in Games, heap'[r] = heap[r], toGame'[r] = toGame[r],
         setup'[r] = setup[r], Here(r)' = Here(r), Playing(r)' = Playing(r), party' = party,
         r \in known' <=> r \in known, r \in up' <=> r \in up
  PROVE  IF r \in known' THEN AlmostInStep(r)' ELSE Unknown(r)'
<1>1. CASE r \in known
  <2>1. Fine(heap[r], setup[r], toGame[r], Here(r), Playing(r), party)
    BY <1>1 DEF InAgreement, InStep, Fine
  <2>2. AlmostInStep(r)'
    BY <2>1 DEF AlmostInStep
  <2>3. QED
    BY <1>1, <2>2
<1>2. CASE r \notin known
  <2>1. Unknown(r)
    BY <1>2 DEF InAgreement
  <2>2. Unknown(r)'
    BY <2>1 DEF Unknown
  <2>3. QED
    BY <1>2, <2>2
<1>3. QED
  BY <1>1, <1>2

LEMMA LeadersKept ==
  ASSUME InAgreement, party' = party,
         \A r \in Games, l \in Pids :
           ~Absent(heap[r].out, Msg("add", l, l)) => ~Absent(heap'[r].out, Msg("add", l, l))
  PROVE  Unique(Db(party))' /\ LeadersIn'
  BY DEF InAgreement, LeadersIn

LEMMA EnterGameReady ==
  ASSUME Inv, InAgreement, NEW p \in Pids, EnterGame(p)
  PROVE  Ready'
<1>1. PICK g \in Games : g = at[p]
  BY DEF EnterGame, Inv, Types
<1>2. PICK h : h = heap[g]
  OBVIOUS
<1>3. PICK k : k = IF h.map[p] = NoId THEN h ELSE Link(h, h.map[p], p)
  OBVIOUS
<1>4. /\ heap' = [heap EXCEPT ![g] = k] /\ toGame' = toGame /\ setup' = setup
      /\ party' = party /\ known' = known /\ up' = up /\ at' = at
      /\ ingame' = ingame \cup {p} /\ p \notin ingame
  BY <1>1, <1>2, <1>3 DEF EnterGame, Local, dbVars
<1>5. p \in Here(g)
  BY <1>1 DEF Here
<1>6. /\ Fit(h) /\ Joined(h, Playing(g)) /\ Absent(h.out, SetupMsg)
      /\ Followed(h.out) /\ Said(h.out, Here(g)) /\ h.out \in Seq(ToDb)
      /\ toGame[g] \in Seq(ToGames) /\ Here(g) \subseteq Pids
      /\ Copies(h.out, toGame[g], Here(g), Pairs(h), Db(party))
      /\ g \in known /\ setup[g] = {}
  BY <1>2, <1>5, InTouch
<1>7. /\ \A r \in Games : Here(r)' = Here(r)
      /\ \A r \in Games : r # g => Playing(r)' = Playing(r)
      /\ Playing(g)' = Playing(g) \cup {p} /\ Playing(g) \in SUBSET Pids
  BY <1>1, <1>4, <1>5, <1>6 DEF Here, Playing
<1>8. h.link[p] = NoId /\ h.map[p] \in Ids \cup {NoId}
  BY <1>2, <1>4, <1>6 DEF Inv, HeapsGood, Linked, Fit, Good, Typed
<1>9. Fine(k, {}, toGame[g], Here(g), Playing(g) \cup {p}, party) /\ Prefix(h.out, k.out)
  <2>1. CASE h.map[p] = NoId
    <3>1. k = h
      BY <1>3, <2>1
    <3>2. Joined(h, Playing(g) \cup {p})
      BY <1>6, <2>1 DEF Joined
    <3>3. QED
      BY <1>6, <3>1, <3>2, FineIs, PrefixSelf DEF Fit
  <2>2. CASE h.map[p] \in Ids /\ h.map[p] # NoId
    <3>1. PICK id \in Ids : id = h.map[p]
      BY <2>2
    <3>2. p \in h.obj[id].members
      BY <1>6, <2>2, <3>1, FitFacts
    <3>3. PICK m : m = Msg("level", h.obj[id].leader, p)
      OBVIOUS
    <3>4. h.obj[id].leader \in Pids
      BY <1>6, <3>2, FitFacts
    <3>5. m \in PartyMsgs /\ m.op = "level" /\ Neutral(m) /\ m \in ToDb
      BY <3>3, <3>4, MsgKinds, MsgFields DEF PartyOps, Neutral
    <3>6. Linking(k, h, id, p)
      BY <1>3, <1>6, <1>8, <2>2, <3>1, <3>2, LinkFit
    <3>7. Fit(k) /\ Pairs(k) = Pairs(h) /\ k.out = Append(h.out, m) /\ JoinedAlso(k, h, {p})
      BY <3>3, <3>6 DEF Linking
    <3>8. Joined(k, Playing(g) \cup {p})
      BY <1>6, <1>7, <3>7 DEF JoinedAlso
    <3>9. Telling(h.out, toGame[g], Here(g), Pairs(h), Db(party))
      BY <1>6 DEF Telling
    <3>10. Telling(k.out, toGame[g], Here(g), Pairs(k), Db(party))
      BY <1>6, <3>5, <3>7, <3>9, DbIs, PairIs, TellsLevel
    <3>11. Followed(k.out) /\ Grown(h.out, k.out)
      BY <1>6, <3>5, <3>7, FollowedAppend, Grows, GrownSelf
    <3>12. QED
      BY <1>6, <3>7, <3>8, <3>10, <3>11, TellingFine DEF Grown
  <2>3. QED
    BY <1>8, <2>1, <2>2
<1>10. QED
  BY <1>2, <1>4, <1>6, <1>7, <1>9, LocalReady

LEMMA DisconnectReady ==
  ASSUME Inv, Inv', InAgreement, NEW p \in Pids, Disconnect(p)
  PROVE  Ready'
<1>1. PICK g \in Games : g = at[p]
  BY DEF Disconnect, Inv, Types
<1>2. PICK h : h = heap[g]
  OBVIOUS
<1>3. PICK u : u = Unlinked(h, p)
  OBVIOUS
<1>4. PICK k : k = Say(u, Logout(p))
  OBVIOUS
<1>5. p \in Here(g)
  BY <1>1 DEF Here
<1>6. /\ Fit(h) /\ Joined(h, Playing(g)) /\ Absent(h.out, SetupMsg)
      /\ Followed(h.out) /\ Said(h.out, Here(g)) /\ h.out \in Seq(ToDb)
      /\ toGame[g] \in Seq(ToGames) /\ Here(g) \subseteq Pids
      /\ Copies(h.out, toGame[g], Here(g), Pairs(h), Db(party))
      /\ g \in known /\ g \in up /\ setup[g] = {}
  BY <1>2, <1>5, InTouch
<1>7. /\ heap' = [heap EXCEPT ![g] = k] /\ toGame' = toGame /\ setup' = setup
      /\ party' = party /\ known' = known /\ up' = up
      /\ at' = [at EXCEPT ![p] = NoOne] /\ ingame' = ingame \ {p}
  BY <1>1, <1>2, <1>3, <1>4, <1>6 DEF Disconnect, Local, dbVars, Logout
<1>8. /\ \A r \in Games : r # g => Here(r)' = Here(r)
      /\ Here(g)' = Here(g) \ {p}
  BY <1>1, <1>7, NullAssumption DEF Here, Inv, Types
<1>9. /\ \A r \in Games : r # g => p \notin Here(r)
      /\ Playing(g) \in SUBSET Pids
  BY <1>1, <1>6 DEF Here, Playing
<1>10. /\ \A r \in Games : r # g => Playing(r)' = Playing(r)
       /\ Playing(g)' = Playing(g) \ {p}
  BY <1>7, <1>8, <1>9 DEF Playing
<1>11. Unlinking(u, h, p)
  BY <1>3, <1>6, UnlinkedFit
<1>12. Fit(u) /\ Pairs(u) = Pairs(h) /\ u.out = h.out /\ JoinedToo(u, h, {p})
  BY <1>11 DEF Unlinking
<1>13. /\ k.obj = u.obj /\ k.map = u.map /\ k.link = u.link
       /\ k.out = Append(h.out, Logout(p))
  BY <1>4, <1>12 DEF Say, Heap
<1>14. Good(k)
  <2>1. heap'[g] = k
    BY <1>7 DEF Inv, HeapsGood
  <2>2. QED
    BY <2>1 DEF Inv, HeapsGood
<1>15. Fit(k) /\ Pairs(k) = Pairs(h)
  BY <1>12, <1>13, <1>14, FitSame
<1>16. Joined(k, Playing(g) \ {p})
  <2>1. Joined(u, Playing(g) \ {p})
    BY <1>6, <1>9, <1>12 DEF JoinedToo
  <2>2. QED
    BY <1>13, <2>1 DEF Joined
<1>17. /\ Logout(p) \in ToDb /\ Logout(p) # SetupMsg /\ Logout(p).op = "logout"
       /\ Neutral(Logout(p)) /\ \A q \in Pids : Logout(p) = Logout(q) <=> p = q
  <2>1. \A q \in Pids : Logout(q).pid = q
    BY MsgFields DEF Logout
  <2>2. QED
    BY <2>1, LogoutToDb DEF Neutral
<1>18. \A q \in Pids : q \in Here(g) <=> q \in Here(g) \ {p} \/ Logout(p) = Logout(q)
  BY <1>5, <1>17
<1>19. Copies(k.out, toGame[g], Here(g) \ {p}, Pairs(k), Db(party))
  BY <1>6, <1>13, <1>15, <1>17, <1>18, SaysNeutral
<1>20. Absent(k.out, SetupMsg) /\ Followed(k.out) /\ Prefix(h.out, k.out)
  BY <1>6, <1>13, <1>17, PlacesAppend, FollowedAppend, PrefixAppend
<1>21. Said(k.out, Here(g) \ {p})
  BY <1>19 DEF Copies
<1>22. Fine(k, {}, toGame[g], Here(g) \ {p}, Playing(g) \ {p}, party)
  BY <1>15, <1>16, <1>19, <1>20, <1>21, FineIs DEF Fit
<1>23. QED
  BY <1>2, <1>6, <1>7, <1>8, <1>10, <1>20, <1>22, LocalReady

LEMMA ConnectReady ==
  ASSUME Inv, InAgreement, NEW g \in Games, Connect(g)
  PROVE  Ready'
<1>1. PICK k : k = Say(heap[g], SetupMsg)
  OBVIOUS
<1>2. heap' = [heap EXCEPT ![g] = k] /\ g \notin up /\ up' = up \cup {g}
  <2>1. heap' = [heap EXCEPT ![g] = Say(heap[g], SetupMsg)]
    BY DEF Connect, SetupMsg, Inv, HeapsGood
  <2>2. QED
    BY <1>1, <2>1 DEF Connect
<1>3. /\ setup' = setup /\ toGame' = toGame /\ party' = party /\ known' = known
      /\ at' = at /\ ingame' = ingame
  BY DEF Connect, dbVars, chars
<1>4. \A r \in Games : Here(r)' = Here(r) /\ Playing(r)' = Playing(r)
  BY <1>3 DEF Here, Playing
<1>5. heap'[g] = k /\ \A r \in Games : r # g => heap'[r] = heap[r]
  BY <1>2 DEF Inv, HeapsGood
<1>6. g \notin known /\ Unknown(g)
  BY <1>2 DEF Inv, Types, InAgreement
<1>7. k.obj = heap[g].obj /\ k.map = heap[g].map /\ k.out = Append(heap[g].out, SetupMsg)
  BY <1>1 DEF Say, Heap
<1>8. heap[g].out = << >> /\ k.out = <<SetupMsg>>
  BY <1>2, <1>6, <1>7 DEF Unknown
<1>9. Unknown(g)'
  BY <1>2, <1>3, <1>4, <1>5, <1>6, <1>7, <1>8 DEF Unknown
<1>10. \A r \in Games : r # g => IF r \in known' THEN AlmostInStep(r)' ELSE Unknown(r)'
  BY <1>2, <1>3, <1>4, <1>5, OtherReady
<1>11. Unique(Db(party))' /\ LeadersIn'
  <2>1. \A m : Absent(heap[g].out, m)
    BY <1>8 DEF Absent
  <2>2. QED
    BY <1>3, <1>5, <2>1, LeadersKept
<1>12. QED
  BY <1>3, <1>6, <1>9, <1>10, <1>11 DEF Ready

\* The first message of a queue.
LEMMA FreshFirst ==
  ASSUME NEW M, NEW s \in Seq(M), s # << >>, NEW B
  PROVE  LET m == Head(s) IN
         /\ Fresh(s, B) =>
              /\ Joins(m) => \A k \in Pids : k # m.leader => <<k, m.pid>> \notin B
              /\ m.op = "create" => <<m.leader, m.leader>> \notin B
         /\ Single(s, B) =>
              (Joins(m) \/ m.op = "delete" => \A k \in Pids : k # m.leader => <<k, m.leader>> \notin B)
<1>1. 1 \in DOMAIN s /\ Head(s) = s[1]
  BY Tailed
<1>2. \A x : x \in B => Before(s, 1, x, B)
  BY DEF Before
<1>3. QED
  BY <1>1, <1>2 DEF Fresh, Single

LEMMA SaidFirst ==
  ASSUME NEW M, NEW s \in Seq(M), s # << >>, NEW A, Said(s, A)
  PROVE  LET m == Head(s) IN
         /\ Joins(m) => Remains(s, A, 1, m.leader) /\ Remains(s, A, 1, m.pid)
         /\ m.op = "create" => m.pid = m.leader
         /\ m.op = "remove" => /\ m.pid # m.leader
                               /\ Remains(s, A, 1, m.leader) \/ Remains(s, A, 1, m.pid)
<1>1. 1 \in DOMAIN s /\ Head(s) = s[1]
  BY Tailed
<1>2. QED
  BY <1>1 DEF Said

LEMMA ToldFirst ==
  ASSUME NEW M, NEW T \in Seq(M), T # << >>, NEW O, NEW A, Told(O, T, A)
  PROVE  LET m == Head(T) IN
         /\ Joins(m) => m.pid \notin A
         /\ m.op = "create" => m.pid = m.leader
         /\ m.op = "remove" => m.pid # m.leader
<1>1. 1 \in DOMAIN T /\ Head(T) = T[1]
  BY Tailed
<1>2. QED
  BY <1>1 DEF Told, Away

\* With names for what is left.
LEMMA TakenAs ==
  ASSUME NEW O \in Seq(ToDb), NEW T \in Seq(ToGames), T # << >>, NEW A, NEW C,
         NEW B \in SUBSET Couples, NEW D, Copies(O, T, A, B, D),
         NEW m, m = Head(T), NEW E, E = Step(B, m),
         \A p \in Pids : p \in C <=> p \in A \/ m = Enter(p),
         Joins(m) => <<m.leader, m.leader>> \in E
  PROVE  Copies(O, Tail(T), C, E, D)
  BY Taken

\* The game takes what it is told.
LEMMA ReceiveReady ==
  ASSUME Inv, Inv', InAgreement, NEW g \in Games, Receive(g), ~Logged'
  PROVE  Ready'
<1>1. PICK T \in Seq(ToGames) : T = toGame[g]
  BY OutTypes
<1>2. PICK m : m = Head(T)
  OBVIOUS
<1>3. /\ setup[g] = {} /\ T # << >> /\ toGame'[g] = Tail(T)
      /\ \A r \in Games : r # g => toGame'[r] = toGame[r]
      /\ party' = party /\ known' = known /\ setup' = setup /\ up' = up /\ ingame' = ingame
      /\ \/ /\ m.pid \in Pids /\ m = Enter(m.pid) /\ heap' = heap
            /\ at[m.pid] = NoOne
            /\ Here(g)' = Here(g) \cup {m.pid}
            /\ \A r \in Games : r # g => Here(r)' = Here(r)
         \/ /\ m \in PartyMsgs /\ Room(heap[g]) /\ at' = at
            /\ heap' = [heap EXCEPT ![g] = Handled(heap[g], m)]
  BY <1>1, <1>2, ReceivesFirst
<1>4. g \in known
  BY <1>1, <1>3 DEF InAgreement, Unknown
<1>5. PICK h, A, O : h = heap[g] /\ A = Here(g) /\ O = heap[g].out
  OBVIOUS
<1>6. /\ Fit(h) /\ Joined(h, Playing(g)) /\ Absent(h.out, SetupMsg)
      /\ Followed(h.out) /\ h.out = O /\ O \in Seq(ToDb) /\ A \subseteq Pids
      /\ Copies(O, T, A, Pairs(h), Db(party))
  BY <1>1, <1>3, <1>4, <1>5, CaughtUp
<1>7. PICK k : k = heap'[g]
  OBVIOUS
<1>8. \A r \in Games : r # g => heap'[r] = heap[r]
  BY <1>3 DEF Inv, HeapsGood
<1>9. \A r \in Games : r # g => Here(r)' = Here(r)
  <2>1. at' = at => \A r \in Games : Here(r)' = Here(r)
    BY DEF Here
  <2>2. QED
    BY <1>3, <2>1
<1>10. \A r \in Games : r # g => Playing(r)' = Playing(r)
  BY <1>3, <1>9 DEF Playing
<1>11. k.out = h.out /\ Exact(k) /\ Joined(k, Playing(g)')
       /\ Copies(O, Tail(T), Here(g)', Pairs(k), Db(party))
  <2>1. CASE /\ m.pid \in Pids /\ m = Enter(m.pid) /\ heap' = heap
             /\ at[m.pid] = NoOne
             /\ Here(g)' = Here(g) \cup {m.pid}
    <3>1. PICK p \in Pids : p = m.pid
      BY <2>1
    <3>2. m = Enter(p) /\ m.op = "enter" /\ \A q \in Pids : m = Enter(q) <=> p = q
      BY <2>1, <3>1, EnterToGames
    <3>3. p \notin ingame
      BY <2>1, <3>1 DEF Inv, Types
    <3>4. Playing(g)' = Playing(g)
      BY <1>3, <2>1, <3>1, <3>3 DEF Playing
    <3>5. k = h
      BY <1>5, <1>7, <2>1
    <3>6. Neutral(m) /\ ~Joins(m)
      BY <3>2 DEF Neutral, Joins
    <3>7. Step(Pairs(h), m) = Pairs(h)
      BY <3>6, PairIs, StepFacts
    <3>8. \A q \in Pids : q \in Here(g)' <=> q \in A \/ m = Enter(q)
      BY <1>5, <2>1, <3>1, <3>2
    <3>9. PICK B, C, D : B = Pairs(h) /\ C = Here(g)' /\ D = Db(party)
      OBVIOUS
    <3>10. B \in SUBSET Couples /\ Copies(O, T, A, B, D) /\ B = Step(B, m)
      BY <1>6, <3>7, <3>9, PairIs
    <3>11. \A q \in Pids : q \in C <=> q \in A \/ m = Enter(q)
      BY <3>8, <3>9
    <3>12. Copies(O, Tail(T), C, B, D)
      <4>1. D \in SUBSET Couples
        BY <3>9, DbIs
      <4>2. T \in Seq(ToGames) /\ T # << >> /\ m = Head(T) /\ O \in Seq(ToDb) /\ ~Joins(m)
        BY <1>2, <1>3, <1>6, <3>6
      <4>3. QED
        BY <3>10, <3>11, <4>1, <4>2, TakenAs
    <3>13. QED
      BY <1>6, <3>4, <3>5, <3>9, <3>12 DEF Fit
  <2>2. CASE /\ m \in PartyMsgs /\ Room(heap[g]) /\ at' = at
             /\ heap' = [heap EXCEPT ![g] = Handled(heap[g], m)]
    <3>1. k = Handled(h, m) /\ Room(h)
      BY <1>5, <1>7, <2>2 DEF Inv, HeapsGood
    <3>2. Here(g)' = A /\ Playing(g)' = Playing(g) /\ Playing(g) \in SUBSET Pids
          /\ Playing(g) \subseteq A
      BY <1>3, <1>5, <1>6, <2>2 DEF Here, Playing
    <3>3. ~k.odd
      BY <1>7 DEF Logged
    <3>4. Fresh(T, Pairs(h)) /\ Single(T, Pairs(h)) /\ Told(O, T, A)
      BY <1>6 DEF Copies
    <3>5. /\ Joins(m) => \A a \in Pids : a # m.leader => <<a, m.pid>> \notin Pairs(h)
          /\ m.op = "create" => <<m.leader, m.leader>> \notin Pairs(h)
          /\ Joins(m) \/ m.op = "delete" =>
               \A a \in Pids : a # m.leader => <<a, m.leader>> \notin Pairs(h)
      BY <1>2, <1>3, <3>4, FreshFirst
    <3>6. /\ Joins(m) => m.pid \notin A
          /\ m.op = "create" => m.pid = m.leader
          /\ m.op = "remove" => m.pid # m.leader
      BY <1>2, <1>3, <3>4, ToldFirst
    <3>7. Handling(k, h, m)
      BY <1>6, <2>2, <3>1, <3>3, <3>5, <3>6, HandledFit
    <3>8. /\ Fit(k) /\ Pairs(k) = Step(Pairs(h), m) /\ k.out = h.out
          /\ Joins(m) => <<m.leader, m.leader>> \in Pairs(k)
          /\ JoinedToo(k, h, IF Joins(m) THEN {m.pid} ELSE {})
      BY <3>7 DEF Handling
    <3>9. Joined(k, Playing(g))
      <4>1. Playing(g) \ (IF Joins(m) THEN {m.pid} ELSE {}) = Playing(g)
        BY <3>2, <3>6
      <4>2. Joined(k, Playing(g) \ (IF Joins(m) THEN {m.pid} ELSE {}))
        BY <1>6, <3>2, <3>8 DEF JoinedToo
      <4>3. QED
        BY <4>1, <4>2
    <3>10. \A q \in Pids : q \in A <=> q \in A \/ m = Enter(q)
      BY <2>2, MsgKinds
    <3>11. PICK B, C, D : B = Pairs(h) /\ C = Pairs(k) /\ D = Db(party)
      OBVIOUS
    <3>12. B \in SUBSET Couples /\ Copies(O, T, A, B, D) /\ C = Step(B, m)
      BY <1>6, <3>8, <3>11, PairIs
    <3>13. Joins(m) => <<m.leader, m.leader>> \in C
      BY <3>8, <3>11
    <3>14. Copies(O, Tail(T), A, C, D)
      BY <1>2, <1>3, <1>6, <3>10, <3>12, <3>13, TakenAs
    <3>15. QED
      BY <1>6, <3>2, <3>8, <3>9, <3>11, <3>14 DEF Fit
  <2>3. QED
    BY <1>3, <2>1, <2>2
<1>12. Fine(k, {}, Tail(T), Here(g)', Playing(g)', party)
  <2>1. Said(k.out, Here(g)')
    BY <1>6, <1>11 DEF Copies
  <2>2. QED
    BY <1>6, <1>11, <2>1, FineIs
<1>13. AlmostInStep(g)'
  BY <1>3, <1>7, <1>12 DEF AlmostInStep
<1>14. \A r \in Games : r # g => IF r \in known' THEN AlmostInStep(r)' ELSE Unknown(r)'
  BY <1>3, <1>8, <1>9, <1>10, OtherReady
<1>15. Unique(Db(party))' /\ LeadersIn'
  BY <1>3, <1>5, <1>6, <1>7, <1>8, <1>11, LeadersKept
<1>16. QED
  BY <1>3, <1>4, <1>13, <1>14, <1>15 DEF Ready

\* A message of the answer to SETUP has its effect.
Answered(h, m) == IF m.op = "add" THEN Leveled(Handled(h, m), m.leader) ELSE Handled(h, m)

LEMMA AnswerStep ==
  ASSUME NEW h, Fit(h), Room(h), NEW s \in SUBSET PartyMsgs, NEW m \in s, Answer(s, h),
         Unique(Pairs(h) \cup Coming(s)),
         m.op = "add" => Msg("create", m.leader, m.leader) \notin s,
         NEW k, k = Answered(h, m),
         ~k.odd
  PROVE  /\ Fit(k) /\ Answer(s \ {m}, k) /\ k.out = h.out
         /\ Pairs(k) \cup Coming(s \ {m}) = Pairs(h) \cup Coming(s)
<1>1. PICK j, l, p, B : j = Handled(h, m) /\ l = m.leader /\ p = m.pid /\ B = Pairs(h) \cup Coming(s)
  OBVIOUS
<1>2. l \in Pids /\ p \in Pids /\ Joins(m) /\ m \in PartyMsgs /\ (m.op = "create" \/ m.op = "add")
  BY <1>1 DEF PartyMsgs, Answer, Joins
<1>3. m.op = "create" => p = l /\ \A q \in Pids : <<l, q>> \notin Pairs(h)
  BY <1>1 DEF Answer
<1>4. <<l, p>> \in B /\ <<l, l>> \in B
  <2>1. Gives(m, <<l, p>>)
    BY <1>1, <1>2, GiveTake
  <2>2. <<l, p>> \in Coming(s)
    BY <1>2, <2>1, ComingIs
  <2>3. QED
    BY <1>1, <1>2, <2>2 DEF Unique
<1>5. \A a \in Pids : a # l => <<a, p>> \notin Pairs(h) /\ <<a, l>> \notin Pairs(h)
  BY <1>1, <1>2, <1>4 DEF Unique
<1>6. ~j.odd
  <2>1. CASE m.op = "add"
    <3>1. PICK n : n = Msg("level", l, l)
      OBVIOUS
    <3>2. n \in PartyMsgs /\ n.op = "level" /\ n.leader = l
      BY <1>2, <3>1, MsgKinds, MsgFields DEF PartyOps
    <3>3. Handled(j, n) = k
      BY <1>1, <2>1, <3>2 DEF Handled, Answered
    <3>4. Good(j) /\ Room(j)
      BY <1>1, <1>2, <2>1, HandledKeeps DEF Follows, Fit
    <3>5. Rough(Handled(j, n), j, l)
      BY <1>2, <3>2, <3>4, HandledRough
    <3>6. QED
      BY <3>3, <3>5 DEF Rough
  <2>2. CASE m.op # "add"
    BY <1>1, <2>2 DEF Answered
  <2>3. QED
    BY <2>1, <2>2
<1>7. Handling(j, h, m)
  BY <1>1, <1>2, <1>3, <1>5, <1>6, HandledFit
<1>8. Fit(j) /\ Pairs(j) = Step(Pairs(h), m) /\ j.out = h.out /\ <<l, l>> \in Pairs(j)
  BY <1>1, <1>2, <1>7 DEF Handling
<1>9. k = j
  <2>1. j.map[l] # NoId
    BY <1>2, <1>8, PairIs
  <2>2. QED
    BY <1>1, <2>1 DEF Leveled, Answered
<1>10. \A a, q \in Pids : <<a, q>> \in Pairs(j) <=> <<a, q>> \in Pairs(h) \/ (a = l /\ q = p)
  <2>1. \A a, q \in Pids : /\ Gives(m, <<a, q>>) <=> a = l /\ q = p
                           /\ ~Takes(m, <<a, q>>)
    BY <1>1, <1>2, GiveTake
  <2>2. \A a, q \in Pids : <<a, q>> \in Step(Pairs(h), m) <=>
                             Gives(m, <<a, q>>) \/ (<<a, q>> \in Pairs(h) /\ ~Takes(m, <<a, q>>))
    BY PairIs, StepFacts, Pairing
  <2>3. QED
    BY <1>8, <2>1, <2>2
<1>11. Pairs(j) \cup Coming(s \ {m}) = B
  <2>1. \A a, q \in Pids : <<a, q>> \in Coming(s) <=> <<a, q>> \in Coming(s \ {m}) \/ (a = l /\ q = p)
    <3>1. \A a, q \in Pids : Gives(m, <<a, q>>) <=> a = l /\ q = p
      BY <1>1, <1>2, GiveTake
    <3>2. \A a, q \in Pids : <<a, q>> \in Coming(s \ {m}) <=> \E n \in s \ {m} : Gives(n, <<a, q>>)
      BY ComingIs
    <3>3. \A a, q \in Pids : <<a, q>> \in Coming(s) <=> \E n \in s : Gives(n, <<a, q>>)
      BY ComingIs
    <3>4. QED
      BY <3>1, <3>2, <3>3
  <2>2. \A a, q \in Pids : <<a, q>> \in Pairs(j) \cup Coming(s \ {m}) <=> <<a, q>> \in B
    BY <1>1, <1>10, <2>1
  <2>3. Pairs(j) \cup Coming(s \ {m}) \in SUBSET Couples /\ B \in SUBSET Couples
    BY <1>1, PairIs, ComingIs
  <2>4. QED
    BY <2>2, <2>3, SamePairs
<1>12. Answer(s \ {m}, j)
  <2>1. SUFFICES ASSUME NEW n \in s, n # m
                 PROVE  /\ n.op = "create" => /\ n.pid = n.leader
                                              /\ \A q \in Pids : <<n.leader, q>> \notin Pairs(j)
                        /\ n.op = "add" => \/ Msg("create", n.leader, n.leader) \in s \ {m}
                                           \/ <<n.leader, n.leader>> \in Pairs(j)
                        /\ Joins(n)
    BY DEF Answer
  <2>2. /\ n.op = "create" => n.pid = n.leader /\ \A q \in Pids : <<n.leader, q>> \notin Pairs(h)
        /\ n.op = "add" => \/ Msg("create", n.leader, n.leader) \in s
                           \/ <<n.leader, n.leader>> \in Pairs(h)
        /\ Joins(n) /\ n.leader \in Pids
    BY DEF Answer, PartyMsgs
  <2>3. ASSUME n.op = "create", n.leader = l PROVE FALSE
    <3>1. n = Msg("create", l, l)
      BY <2>2, <2>3 DEF PartyMsgs, Msg
    <3>2. m.op = "create"
      BY <1>1, <1>2, <3>1
    <3>3. m = Msg("create", l, l)
      BY <1>1, <1>2, <1>3, <3>2 DEF PartyMsgs, Msg
    <3>4. QED
      BY <2>1, <3>1, <3>3
  <2>4. ASSUME n.op = "add", Msg("create", n.leader, n.leader) = m PROVE <<n.leader, n.leader>> \in Pairs(j)
    <3>1. n.leader = l
      BY <1>1, <2>4, MsgFields
    <3>2. QED
      BY <1>8, <3>1
  <2>5. <<n.leader, n.leader>> \in Pairs(h) => <<n.leader, n.leader>> \in Pairs(j)
    BY <1>10, <2>2
  <2>6. QED
    BY <1>10, <2>2, <2>3, <2>4, <2>5
<1>13. QED
  BY <1>1, <1>8, <1>9, <1>11, <1>12

LEMMA ReceiveSetupReady ==
  ASSUME Inv, InAgreement, NEW g \in Games, ReceiveSetup(g), ~Logged'
  PROVE  Ready'
<1>1. PICK m \in setup[g] :
           /\ m \in PartyMsgs /\ Room(heap[g])
           /\ m.op = "add" => Msg("create", m.leader, m.leader) \notin setup[g]
           /\ heap' = [heap EXCEPT ![g] = IF m.op = "add" THEN Leveled(Handled(heap[g], m), m.leader)
                                          ELSE Handled(heap[g], m)]
           /\ setup'[g] = setup[g] \ {m} /\ \A r \in Games : r # g => setup'[r] = setup[r]
           /\ party' = party /\ known' = known
           /\ toGame' = toGame /\ up' = up /\ at' = at /\ ingame' = ingame
  BY SetupShape
<1>2. PICK h, s : h = heap[g] /\ s = setup[g]
  OBVIOUS
<1>3. PICK k : k = Answered(h, m)
  OBVIOUS
<1>4. heap'[g] = k /\ \A r \in Games : r # g => heap'[r] = heap[r]
  BY <1>1, <1>2, <1>3 DEF Inv, HeapsGood, Answered
<1>5. \A r \in Games : Here(r)' = Here(r) /\ Playing(r)' = Playing(r)
  BY <1>1 DEF Here, Playing
<1>6. g \in known /\ InStep(g) /\ s \in SUBSET PartyMsgs /\ Fit(h)
  <2>1. g \in known /\ InStep(g)
    BY <1>1 DEF InAgreement, Unknown
  <2>2. setup \in [Games -> SUBSET PartyMsgs]
    BY DEF Inv, Types
  <2>3. Exact(h)
    BY <1>2, <2>1 DEF InStep, Sure
  <2>4. QED
    BY <1>2, <2>1, <2>2, <2>3, OutTypes DEF Fit
<1>7. Sure(h, s, Here(g), Playing(g)) /\ Agreed(h, s, toGame[g], Here(g), party)
  BY <1>2, <1>6 DEF InStep
<1>8. Here(g) = {} /\ h.out = << >> /\ Answer(s, h)
  BY <1>1, <1>2, <1>7 DEF Sure
<1>9. Unique(Pairs(h) \cup Coming(s))
  BY <1>7 DEF Agreed, Copies
<1>10. ~k.odd
  BY <1>4 DEF Logged
<1>11. /\ Fit(k) /\ Answer(s \ {m}, k) /\ k.out = h.out
       /\ Pairs(k) \cup Coming(s \ {m}) = Pairs(h) \cup Coming(s)
  <2>1. m \in s /\ Room(h) /\ (m.op = "add" => Msg("create", m.leader, m.leader) \notin s)
    BY <1>1, <1>2
  <2>2. QED
    BY <1>3, <1>6, <1>8, <1>9, <1>10, <2>1, AnswerStep
<1>12. Sure(k, s \ {m}, Here(g), Playing(g))
  <2>1. Playing(g) = {}
    BY <1>8 DEF Playing
  <2>2. Joined(k, Playing(g))
    BY <2>1 DEF Joined
  <2>3. QED
    BY <1>7, <1>8, <1>11, <2>2 DEF Sure, Fit
<1>13. Agreed(k, s \ {m}, toGame[g], Here(g), party)
  BY <1>7, <1>11 DEF Agreed
<1>14. AlmostInStep(g)'
  BY <1>1, <1>2, <1>4, <1>5, <1>12, <1>13 DEF AlmostInStep, Fine
<1>15. \A r \in Games : r # g => IF r \in known' THEN AlmostInStep(r)' ELSE Unknown(r)'
  BY <1>1, <1>4, <1>5, OtherReady
<1>16. Unique(Db(party))' /\ LeadersIn'
  <2>1. heap'[g].out = heap[g].out
    BY <1>2, <1>4, <1>11
  <2>2. QED
    BY <1>1, <1>4, <2>1, LeadersKept
<1>17. QED
  BY <1>1, <1>6, <1>14, <1>15, <1>16 DEF Ready

\* The db takes a message of parties: from pt, its parties become qt.
Changes(pt, m, qt) ==
  \/ m.op = "create" /\ pt[m.leader] = NoParty /\ qt = [pt EXCEPT ![m.leader] = {}]
  \/ m.op = "delete" /\ pt[m.leader] # NoParty /\ qt = [pt EXCEPT ![m.leader] = NoParty]
  \/ /\ m.op = "add" /\ pt[m.leader] # NoParty
     /\ qt = [pt EXCEPT ![m.leader] = pt[m.leader] \cup {m.pid}]
  \/ /\ m.op = "remove" /\ pt[m.leader] # NoParty
     /\ qt = [pt EXCEPT ![m.leader] = pt[m.leader] \ {m.pid}]
  \/ m.op = "level" /\ pt[m.leader] # NoParty /\ qt = pt
Maps == [Pids -> {NoParty} \cup SUBSET Pids]

LEMMA ChangesIs ==
  ASSUME NEW pt \in Maps, NEW m \in PartyMsgs, NEW qt, Changes(pt, m, qt)
  PROVE  /\ m.leader \in Pids /\ m.pid \in Pids
         /\ \A l \in Pids : l # m.leader => qt[l] = pt[l]
         /\ m.op = "create" => pt[m.leader] = NoParty /\ qt[m.leader] = {}
         /\ m.op # "create" => pt[m.leader] # NoParty
         /\ m.op = "delete" => qt[m.leader] = NoParty
         /\ m.op = "add" => qt[m.leader] = pt[m.leader] \cup {m.pid}
         /\ m.op = "remove" => qt[m.leader] = pt[m.leader] \ {m.pid}
         /\ m.op = "level" => qt = pt
         /\ m.op \in {"create", "delete", "add", "remove", "level"}
         /\ \A l \in Pids : pt[l] # NoParty => pt[l] \in SUBSET Pids
<1>1. m.leader \in Pids /\ m.pid \in Pids
  BY DEF PartyMsgs
<1>2. \A x : qt = [pt EXCEPT ![m.leader] = x] =>
               qt[m.leader] = x /\ \A l \in Pids : l # m.leader => qt[l] = pt[l]
  BY <1>1 DEF Maps
<1>3. \A l \in Pids : pt[l] # NoParty => pt[l] \in SUBSET Pids
  BY DEF Maps
<1>4. QED
  BY <1>1, <1>2, <1>3 DEF Changes

LEMMA DbStep ==
  ASSUME NEW pt \in Maps, NEW m \in PartyMsgs, NEW qt, Changes(pt, m, qt),
         m.op = "create" => m.pid = m.leader, m.op = "remove" => m.pid # m.leader
  PROVE  Db(qt) = Step(Db(pt), m)
<1>1. PICK l \in Pids, p \in Pids : l = m.leader /\ p = m.pid
  BY DEF PartyMsgs
<1>2. SUFFICES ASSUME NEW a \in Pids, NEW q \in Pids
               PROVE  <<a, q>> \in Db(qt) <=>
                        Gives(m, <<a, q>>) \/ (<<a, q>> \in Db(pt) /\ ~Takes(m, <<a, q>>))
  BY DbIs, StepIs
<1>3. /\ <<a, q>> \in Db(qt) <=> qt[a] # NoParty /\ (q \in qt[a] \/ q = a)
      /\ <<a, q>> \in Db(pt) <=> pt[a] # NoParty /\ (q \in pt[a] \/ q = a)
  BY DbIs
<1>4. /\ Gives(m, <<a, q>>) <=> Joins(m) /\ l = a /\ p = q
      /\ Takes(m, <<a, q>>) <=> \/ m.op = "remove" /\ l = a /\ p = q
                                \/ m.op = "delete" /\ l = a
  BY <1>1, GiveTake
<1>5. CASE a # l
  BY <1>1, <1>3, <1>4, <1>5, ChangesIs
<1>6. CASE a = l
  <2>1. {} # NoParty
    BY PartyAssumption
  <2>2. CASE m.op = "create"
    BY <1>1, <1>3, <1>4, <1>6, <2>1, <2>2, ChangesIs DEF Joins
  <2>3. CASE m.op = "delete"
    BY <1>1, <1>3, <1>4, <1>6, <2>3, ChangesIs DEF Joins
  <2>4. CASE m.op = "add"
    <3>1. pt[l] # NoParty /\ pt[l] \in SUBSET Pids /\ qt[l] = pt[l] \cup {p}
      BY <1>1, <2>4, ChangesIs
    <3>2. qt[l] # NoParty
      BY <3>1, PartyAssumption
    <3>3. QED
      BY <1>3, <1>4, <1>6, <2>4, <3>1, <3>2 DEF Joins
  <2>5. CASE m.op = "remove"
    <3>1. pt[l] # NoParty /\ pt[l] \in SUBSET Pids /\ qt[l] = pt[l] \ {p} /\ p # l
      BY <1>1, <2>5, ChangesIs
    <3>2. qt[l] # NoParty
      BY <3>1, PartyAssumption
    <3>3. QED
      BY <1>3, <1>4, <1>6, <2>5, <3>1, <3>2 DEF Joins
  <2>6. CASE m.op = "level"
    BY <1>1, <1>3, <1>4, <1>6, <2>6, ChangesIs DEF Joins
  <2>7. QED
    BY <2>2, <2>3, <2>4, <2>5, <2>6, ChangesIs
<1>7. QED
  BY <1>5, <1>6

LEMMA UniqueStep ==
  ASSUME NEW D \in SUBSET Couples, Unique(D), NEW m \in PartyMsgs,
         Joins(m) => \A k \in Pids : k # m.leader => <<k, m.pid>> \notin D,
         m.op = "create" => m.pid = m.leader,
         m.op = "add" => <<m.leader, m.leader>> \in D,
         m.op = "remove" => m.pid # m.leader
  PROVE  Unique(Step(D, m))
<1>1. PICK l \in Pids, p \in Pids : l = m.leader /\ p = m.pid
  BY DEF PartyMsgs
<1>2. \A a, q \in Pids : <<a, q>> \in Step(D, m) <=>
        \/ Joins(m) /\ l = a /\ p = q
        \/ /\ <<a, q>> \in D
           /\ ~(m.op = "remove" /\ l = a /\ p = q) /\ ~(m.op = "delete" /\ l = a)
  <2>1. \A a, q \in Pids :
          /\ Gives(m, <<a, q>>) <=> Joins(m) /\ l = a /\ p = q
          /\ Takes(m, <<a, q>>) <=> \/ m.op = "remove" /\ l = a /\ p = q
                                    \/ m.op = "delete" /\ l = a
    BY <1>1, GiveTake
  <2>2. \A a, q \in Pids : <<a, q>> \in Step(D, m) <=>
                             Gives(m, <<a, q>>) \/ (<<a, q>> \in D /\ ~Takes(m, <<a, q>>))
    BY StepFacts, Pairing
  <2>3. QED
    BY <2>1, <2>2
<1>3. ASSUME NEW a \in Pids, NEW q \in Pids, <<a, q>> \in Step(D, m)
      PROVE  <<a, a>> \in Step(D, m) /\ \A k \in Pids : <<k, q>> \in Step(D, m) => k = a
  <2>1. CASE m.op = "create"
    BY <1>1, <1>2, <1>3, <2>1 DEF Unique, Joins
  <2>2. CASE m.op = "add"
    BY <1>1, <1>2, <1>3, <2>2 DEF Unique, Joins
  <2>3. CASE m.op \notin {"create", "add"}
    BY <1>1, <1>2, <1>3, <2>3 DEF Unique, Joins
  <2>4. QED
    BY <2>1, <2>2, <2>3
<1>4. QED
  BY <1>3 DEF Unique

\* The db has taken the first message of a game, k is what is left of it.
LEMMA SentFine ==
  ASSUME NEW h, Good(h), Exact(h), NEW In, Joined(h, In), Absent(h.out, SetupMsg), Followed(h.out),
         h.out # << >>, NEW T \in Seq(ToGames), NEW U, NEW A, NEW pt, NEW qt,
         NEW m, m = Head(h.out), Copies(h.out, T, A, Pairs(h), Db(pt)), Db(qt) = Step(Db(pt), m),
         U = T \/ (m \in PartyMsgs /\ Neutral(m) /\ U = Append(T, m)),
         NEW k, k.obj = h.obj, k.map = h.map, k.link = h.link, k.out = Tail(h.out)
  PROVE  Fine(k, {}, U, A, In, qt)
<1>1. PICK O, B, D : O = h.out /\ B = Pairs(h) /\ D = Db(pt)
  OBVIOUS
<1>2. O \in Seq(ToDb) /\ O # << >> /\ D \in SUBSET Couples /\ Copies(O, T, A, B, D) /\ m = Head(O)
  BY <1>1, DbIs DEF Good, Typed
<1>3. Copies(Tail(O), T, A, B, Step(D, m))
  BY <1>2, Sent
<1>4. Pairs(k) = B /\ Exact(k) /\ Joined(k, In) /\ k.out = Tail(O) /\ Db(qt) = Step(D, m)
  <2>1. Pairs(k) = B
    BY <1>1 DEF Pairs
  <2>2. Exact(k)
    BY DEF Exact
  <2>3. Joined(k, In)
    BY DEF Joined
  <2>4. QED
    BY <1>1, <2>1, <2>2, <2>3
<1>5. Absent(k.out, SetupMsg) /\ Followed(k.out) /\ k.out \in Seq(ToDb)
  BY <1>1, <1>2, <1>4, PlacesTail, FollowedTail, Tailed
<1>6. Copies(k.out, T, A, Pairs(k), Db(qt))
  BY <1>3, <1>4
<1>7. Copies(k.out, U, A, Pairs(k), Db(qt))
  <2>1. CASE U = T
    BY <1>6, <2>1
  <2>2. CASE m \in PartyMsgs /\ Neutral(m) /\ U = Append(T, m)
    <3>1. m \in ToGames /\ \A p \in Pids : m # Enter(p)
      BY <2>2, MsgKinds
    <3>2. QED
      BY <1>5, <1>6, <2>2, <3>1, TellsNeutral
  <2>3. QED
    BY <2>1, <2>2
<1>8. Said(k.out, A)
  BY <1>6 DEF Copies
<1>9. QED
  BY <1>4, <1>5, <1>7, <1>8, FineIs

\* Another game is told what is not of parties, or only of a level.
LEMMA NeutralFine ==
  ASSUME NEW h, Good(h), NEW s, NEW T \in Seq(ToGames), NEW A, NEW In, NEW pt, Sure(h, s, A, In),
         Agreed(h, s, T, A, pt), NEW m \in ToGames, Neutral(m),
         \A p \in Pids : m = Enter(p) => /\ p \notin A /\ Absent(h.out, Logout(p))
                                         /\ Absent(T, Enter(p))
  PROVE  Fine(h, s, Append(T, m), A, In, pt)
<1>1. PICK O, B, D : O = h.out /\ B = Pairs(h) \cup Coming(s) /\ D = Db(pt)
  OBVIOUS
<1>2. O \in Seq(ToDb) /\ Copies(O, T, A, B, D)
  BY <1>1 DEF Good, Typed, Agreed
<1>3. Copies(O, Append(T, m), A, B, D)
  BY <1>1, <1>2, TellsNeutral
<1>4. QED
  BY <1>1, <1>3 DEF Fine, Agreed

\* Another game is told of a change.
LEMMA HeardFine ==
  ASSUME NEW h, Good(h), NEW s, NEW T \in Seq(ToGames), NEW A, NEW In, NEW pt, Sure(h, s, A, In),
         Agreed(h, s, T, A, pt), NEW m \in PartyMsgs, ~Neutral(m), Unique(Db(pt)),
         Meant(m, h.out, T, A, Db(pt)), NEW qt, Db(qt) = Step(Db(pt), m),
         m.op = "delete" => qt[m.leader] = NoParty
  PROVE  Fine(h, s, Append(T, m), A, In, qt)
<1>1. PICK O, B, D, U, l : /\ O = h.out /\ B = Pairs(h) \cup Coming(s) /\ D = Db(pt)
                           /\ U = Append(T, m) /\ l = m.leader
  OBVIOUS
<1>2. /\ O \in Seq(ToDb) /\ Copies(O, T, A, B, D) /\ B \in SUBSET Couples /\ D \in SUBSET Couples
      /\ Unique(D) /\ Meant(m, O, T, A, D) /\ m \in ToGames /\ l \in Pids
  BY <1>1, PairIs, ComingIs, DbIs, MsgKinds DEF Good, Typed, Agreed, PartyMsgs
<1>3. \/ Copies(O, U, A, B, Step(D, m))
      \/ m.op = "delete" /\ DoomedOut(O, U, A, l)
      \/ O # << >> /\ DoomedIn(U, A, l) /\ \A k \in Pids : <<k, l>> \notin B
  BY <1>1, <1>2, Heard
<1>4. CASE Copies(O, U, A, B, Step(D, m))
  BY <1>1, <1>4 DEF Fine, Agreed
<1>5. CASE m.op = "delete" /\ DoomedOut(O, U, A, l)
  BY <1>1, <1>2, <1>5 DEF Fine, Bad
<1>6. CASE O # << >> /\ DoomedIn(U, A, l) /\ \A k \in Pids : <<k, l>> \notin B
  <2>1. s = {}
    BY <1>1, <1>6 DEF Sure
  <2>2. Fit(h) /\ \A k \in Pids : <<k, l>> \notin Pairs(h)
    BY <1>1, <1>6 DEF Sure, Fit
  <2>3. Stranger(h, l)
    BY <1>2, <2>2, NoPairs
  <2>4. QED
    BY <1>1, <1>2, <1>6, <2>1, <2>3 DEF Fine, Bad
<1>7. QED
  BY <1>3, <1>4, <1>5, <1>6

\* What the first message of a game does to the parties of the db.
LEMMA DbPartyFacts ==
  ASSUME Inv, InAgreement, NEW g \in Games, DbParty(g), ~dbOdd', NEW m, m = Head(heap[g].out)
  PROVE  /\ g \in known /\ setup[g] = {} /\ heap[g].out # << >> /\ m \in PartyMsgs
         /\ Changes(party, m, party') /\ party \in Maps
         /\ Db(party') = Step(Db(party), m) /\ Unique(Db(party'))
         /\ \A r \in Games : r # g /\ ~Neutral(m) =>
              Meant(m, heap[r].out, toGame[r], Here(r), Db(party))
         /\ m.op = "create" =>
              m.pid = m.leader /\ ~Absent(Tail(heap[g].out), Msg("add", m.leader, m.leader))
         /\ m.op = "remove" => m.pid # m.leader
<1>1. heap[g].out # << >> /\ m \in PartyMsgs
  BY DbPartyShape
<1>2. party \in Maps
  BY DEF Inv, Types, Maps
<1>3. Changes(party, m, party')
  BY DbPartyShape DEF Changes
<1>4. g \in known
  <2>1. m # SetupMsg
    BY <1>1, MsgFields DEF PartyMsgs, PartyOps, SetupMsg
  <2>2. heap[g].out # <<SetupMsg>>
    BY <2>1
  <2>3. QED
    BY <1>1, <2>2 DEF InAgreement, Unknown
<1>5. setup[g] = {}
  BY <1>1, <1>4 DEF InAgreement, InStep, Sure
<1>6. PICK O, T, A, B, D : /\ O = heap[g].out /\ T = toGame[g] /\ A = Here(g)
                           /\ B = Pairs(heap[g]) /\ D = Db(party)
  OBVIOUS
<1>7. /\ O \in Seq(ToDb) /\ O # << >> /\ Followed(O) /\ Said(O, A) /\ Copies(O, T, A, B, D)
      /\ D \in SUBSET Couples /\ Unique(D) /\ m = Head(O)
  <2>1. /\ O \in Seq(ToDb) /\ Followed(O) /\ Said(O, A) /\ Copies(O, T, A, B, D)
    BY <1>4, <1>5, <1>6, CaughtUp
  <2>2. QED
    BY <1>1, <1>6, <2>1, DbIs DEF InAgreement
<1>8. PICK l \in Pids, p \in Pids : l = m.leader /\ p = m.pid
  BY <1>1 DEF PartyMsgs
<1>9. /\ Joins(m) => Remains(O, A, 1, l) /\ Remains(O, A, 1, p)
      /\ m.op = "create" => p = l
      /\ m.op = "remove" => p # l /\ (Remains(O, A, 1, l) \/ Remains(O, A, 1, p))
  BY <1>7, <1>8, SaidFirst
<1>10. /\ Joins(m) => \A k \in Pids : k # l => <<k, p>> \notin D
       /\ m.op = "create" => <<l, l>> \notin D
  <2>1. Fresh(O, D)
    BY <1>7 DEF Copies
  <2>2. QED
    BY <1>7, <1>8, <2>1, FreshFirst
<1>11. m.op # "create" => <<l, l>> \in D
  BY <1>1, <1>2, <1>3, <1>6, <1>8, ChangesIs, DbIs
<1>12. Db(party') = Step(D, m)
  BY <1>1, <1>2, <1>3, <1>6, <1>8, <1>9, DbStep
<1>13. Unique(Step(D, m))
  BY <1>1, <1>7, <1>8, <1>9, <1>10, <1>11, UniqueStep
<1>14. ASSUME NEW r \in Games, r # g, ~Neutral(m) PROVE Meant(m, heap[r].out, toGame[r], Here(r), D)
  <2>1. \A q \in Pids : Remains(O, A, 1, q) => Elsewhere(heap[r].out, toGame[r], Here(r), q)
    <3>1. SUFFICES ASSUME NEW q \in Pids, Remains(O, A, 1, q)
                   PROVE  Elsewhere(heap[r].out, toGame[r], Here(r), q)
      OBVIOUS
    <3>2. Stays(heap[g].out, toGame[g], Here(g), 1, q)
      BY <1>6, <3>1 DEF Stays
    <3>3. QED
      BY <1>14, <3>2, PlaceOf
  <2>2. \A k \in Pids : m.op = "create" => <<k, l>> \notin D
    BY <1>8, <1>9, <1>10 DEF Joins
  <2>3. QED
    BY <1>8, <1>9, <1>10, <1>11, <2>1, <2>2 DEF Meant, Joins
<1>15. m.op = "create" => ~Absent(Tail(O), Msg("add", l, l))
  BY <1>7, <1>8, FollowedTail
<1>16. QED
  BY <1>1, <1>2, <1>3, <1>4, <1>5, <1>6, <1>8, <1>9, <1>12, <1>13, <1>14, <1>15

\* Leaders are in their parties still, or about to be.
LEMMA DbPartyLeaders ==
  ASSUME Inv, InAgreement, NEW g \in Games, DbParty(g), ~dbOdd'
  PROVE  LeadersIn'
<1>1. PICK m, O : m = Head(O) /\ O = heap[g].out
  OBVIOUS
<1>2. /\ O # << >> /\ m \in PartyMsgs /\ Changes(party, m, party') /\ party \in Maps
      /\ m.op = "create" => m.pid = m.leader /\ ~Absent(Tail(O), Msg("add", m.leader, m.leader))
      /\ m.op = "remove" => m.pid # m.leader
  BY <1>1, DbPartyFacts
<1>3. O \in Seq(ToDb) /\ Took(g)
  BY <1>1, OutTypes, DbPartyShape
<1>4. PICK k : heap' = [heap EXCEPT ![g] = k] /\ k.out = Tail(O)
  BY <1>1, <1>3, TookShape
<1>5. heap'[g] = k /\ \A r \in Games : r # g => heap'[r] = heap[r]
  BY <1>4 DEF Inv, HeapsGood
<1>6. SUFFICES ASSUME NEW l \in Pids, party'[l] # NoParty
               PROVE  l \in party'[l] \/ \E r \in Games : ~Absent(heap'[r].out, Msg("add", l, l))
  BY DEF LeadersIn
<1>7. CASE m.op = "create" /\ m.leader = l
  BY <1>2, <1>4, <1>5, <1>7
<1>8. CASE m = Msg("add", l, l)
  <2>1. m.op = "add" /\ m.leader = l /\ m.pid = l
    BY <1>8, MsgFields
  <2>2. QED
    BY <1>2, <2>1, ChangesIs
<1>9. CASE ~(m.op = "create" /\ m.leader = l) /\ m # Msg("add", l, l)
  <2>1. party[l] # NoParty /\ (l \in party[l] => l \in party'[l])
    <3>1. CASE m.leader # l
      BY <1>2, <1>6, <3>1, ChangesIs
    <3>2. CASE m.leader = l
      BY <1>2, <1>6, <1>9, <3>2, ChangesIs
    <3>3. QED
      BY <3>1, <3>2
  <2>2. CASE l \in party[l]
    BY <2>1, <2>2
  <2>3. CASE \E r \in Games : ~Absent(heap[r].out, Msg("add", l, l))
    <3>1. PICK r \in Games : ~Absent(heap[r].out, Msg("add", l, l))
      BY <2>3
    <3>2. r = g => ~Absent(k.out, Msg("add", l, l))
      BY <1>1, <1>2, <1>3, <1>4, <1>9, <3>1, PlacesTail
    <3>3. QED
      BY <1>5, <3>1, <3>2
  <2>4. QED
    BY <2>1, <2>2, <2>3 DEF InAgreement, LeadersIn
<1>10. QED
  BY <1>7, <1>8, <1>9

LEMMA DbPartyReady ==
  ASSUME Inv, InAgreement, NEW g \in Games, DbParty(g), ~dbOdd'
  PROVE  Ready'
<1>1. PICK m, h : m = Head(h.out) /\ h = heap[g]
  OBVIOUS
<1>2. /\ g \in known /\ setup[g] = {} /\ h.out # << >> /\ m \in PartyMsgs
      /\ Changes(party, m, party') /\ party \in Maps
      /\ Db(party') = Step(Db(party), m) /\ Unique(Db(party'))
      /\ \A r \in Games : r # g /\ ~Neutral(m) =>
           Meant(m, heap[r].out, toGame[r], Here(r), Db(party))
  BY <1>1, DbPartyFacts
<1>3. /\ Took(g) /\ known' = known /\ setup' = setup /\ up' = up /\ at' = at /\ ingame' = ingame
      /\ Forward(m, IF m.op = "level" THEN known ELSE known \ {g})
  BY <1>1, DbPartyShape
<1>4. PICK k : /\ heap' = [heap EXCEPT ![g] = k] /\ k.obj = h.obj /\ k.map = h.map
               /\ k.link = h.link /\ k.out = Tail(h.out)
  BY <1>1, <1>3, TookShape
<1>5. heap'[g] = k /\ \A r \in Games : r # g => heap'[r] = heap[r]
  BY <1>4 DEF Inv, HeapsGood
<1>6. m \in ToGames /\ (Neutral(m) <=> m.op = "level") /\ \A p \in Pids : m # Enter(p)
  BY <1>2, MsgKinds DEF Neutral, PartyMsgs, PartyOps
<1>7. \A r \in Games : toGame'[r] = IF r \in (IF m.op = "level" THEN known ELSE known \ {g})
                                    THEN Append(toGame[r], m) ELSE toGame[r]
  BY <1>3, <1>6, ForwardFacts
<1>8. \A r \in Games : Here(r)' = Here(r) /\ Playing(r)' = Playing(r)
  BY <1>3 DEF Here, Playing
<1>9. Fine(k, {}, toGame'[g], Here(g), Playing(g), party')
  <2>1. /\ Fit(h) /\ Joined(h, Playing(g)) /\ Absent(h.out, SetupMsg)
        /\ Followed(h.out) /\ toGame[g] \in Seq(ToGames)
        /\ Copies(h.out, toGame[g], Here(g), Pairs(h), Db(party))
    BY <1>1, <1>2, CaughtUp
  <2>2. PICK U : U = toGame'[g]
    OBVIOUS
  <2>3. U = toGame[g] \/ (m \in PartyMsgs /\ Neutral(m) /\ U = Append(toGame[g], m))
    BY <1>2, <1>6, <1>7, <2>2
  <2>4. PICK pt, qt : pt = party /\ qt = party'
    OBVIOUS
  <2>5. Db(qt) = Step(Db(pt), m) /\ Copies(h.out, toGame[g], Here(g), Pairs(h), Db(pt))
    BY <1>2, <2>1, <2>4
  <2>6. Fine(k, {}, U, Here(g), Playing(g), qt)
    BY <1>1, <1>2, <1>4, <2>1, <2>3, <2>5, SentFine DEF Fit
  <2>7. QED
    BY <2>2, <2>4, <2>6
<1>10. ASSUME NEW r \in known, r # g PROVE Fine(heap[r], setup[r], toGame'[r], Here(r), Playing(r), party')
  <2>1. r \in Games
    BY DEF Inv, Types
  <2>2. PICK j, s, T, A, In, pt, qt :
          /\ j = heap[r] /\ s = setup[r] /\ T = toGame[r] /\ A = Here(r) /\ In = Playing(r)
          /\ pt = party /\ qt = party'
    OBVIOUS
  <2>3. Good(j) /\ T \in Seq(ToGames) /\ Sure(j, s, A, In) /\ Agreed(j, s, T, A, pt)
    BY <2>1, <2>2, OutTypes DEF InAgreement, InStep
  <2>4. toGame'[r] = Append(T, m)
    BY <1>7, <1>10, <2>1, <2>2
  <2>5. CASE Neutral(m)
    <3>1. qt = pt
      BY <1>2, <1>6, <2>2, <2>5, ChangesIs
    <3>2. Fine(j, s, Append(T, m), A, In, pt)
      BY <1>6, <2>3, <2>5, NeutralFine
    <3>3. QED
      BY <2>2, <2>4, <3>1, <3>2
  <2>6. CASE ~Neutral(m)
    <3>1. Meant(m, j.out, T, A, Db(pt))
      BY <1>2, <1>10, <2>1, <2>2, <2>6
    <3>2. m.op = "delete" => qt[m.leader] = NoParty
      BY <1>2, <2>2, ChangesIs
    <3>3. Unique(Db(pt)) /\ Db(qt) = Step(Db(pt), m)
      BY <1>2, <2>2 DEF InAgreement
    <3>4. Fine(j, s, Append(T, m), A, In, qt)
      BY <1>2, <2>3, <2>6, <3>1, <3>2, <3>3, HeardFine
    <3>5. QED
      BY <2>2, <2>4, <3>4
  <2>7. QED
    BY <2>5, <2>6
<1>11. ASSUME NEW r \in Games, r \in known PROVE AlmostInStep(r)'
  BY <1>2, <1>3, <1>5, <1>8, <1>9, <1>10, <1>11 DEF AlmostInStep
<1>12. ASSUME NEW r \in Games, r \notin known PROVE Unknown(r)'
  <2>1. r # g /\ Unknown(r)
    BY <1>2, <1>12 DEF InAgreement
  <2>2. toGame'[r] = toGame[r]
    BY <1>7, <1>12
  <2>3. QED
    BY <1>3, <1>5, <1>8, <2>1, <2>2 DEF Unknown
<1>13. Unique(Db(party))' /\ LeadersIn'
  BY <1>2, DbPartyLeaders
<1>14. QED
  BY <1>3, <1>11, <1>12, <1>13 DEF Ready

\* The answer to SETUP is the couples of the db.
Snapshot(pt) ==
  LET leaders == {l \in Pids : pt[l] # NoParty} IN
    {Msg("create", l, l) : l \in leaders} \cup
    UNION {{Msg("add", l, p) : p \in pt[l]} : l \in leaders}

LEMMA SnapshotIs ==
  ASSUME NEW pt \in Maps, NEW k, Pairs(k) = {}
  PROVE  Coming(Snapshot(pt)) = Db(pt) /\ Answer(Snapshot(pt), k)
<1>1. PICK s : s = Snapshot(pt)
  OBVIOUS
<1>2. \A l \in Pids : pt[l] # NoParty => pt[l] \in SUBSET Pids
  BY DEF Maps
<1>3. \A m \in s : \E l \in Pids, p \in Pids :
        /\ pt[l] # NoParty
        /\ (m = Msg("create", l, l) /\ p = l) \/ (m = Msg("add", l, p) /\ p \in pt[l])
  BY <1>1, <1>2 DEF Snapshot
<1>4. \A l \in Pids : pt[l] # NoParty => /\ Msg("create", l, l) \in s
                                         /\ \A p \in pt[l] : Msg("add", l, p) \in s
  BY <1>1 DEF Snapshot
<1>5. \A a, q \in Pids : <<a, q>> \in Coming(s) <=> <<a, q>> \in Db(pt)
  <2>1. SUFFICES ASSUME NEW a \in Pids, NEW q \in Pids
                 PROVE  (\E m \in s : Gives(m, <<a, q>>)) <=> pt[a] # NoParty /\ (q \in pt[a] \/ q = a)
    BY ComingIs, DbIs
  <2>2. ASSUME NEW m \in s, Gives(m, <<a, q>>) PROVE pt[a] # NoParty /\ (q \in pt[a] \/ q = a)
    <3>1. PICK l \in Pids, p \in Pids :
            /\ pt[l] # NoParty
            /\ (m = Msg("create", l, l) /\ p = l) \/ (m = Msg("add", l, p) /\ p \in pt[l])
      BY <1>3
    <3>2. m.leader = a /\ m.pid = q
      BY <2>2, GiveTake
    <3>3. QED
      BY <3>1, <3>2, MsgFields
  <2>3. ASSUME pt[a] # NoParty, q = a PROVE \E m \in s : Gives(m, <<a, q>>)
    <3>1. Gives(Msg("create", a, a), <<a, q>>)
      BY <2>3, MsgFields, GiveTake DEF Joins
    <3>2. QED
      BY <1>4, <2>3, <3>1
  <2>4. ASSUME pt[a] # NoParty, q \in pt[a] PROVE \E m \in s : Gives(m, <<a, q>>)
    <3>1. Gives(Msg("add", a, q), <<a, q>>)
      BY MsgFields, GiveTake DEF Joins
    <3>2. QED
      BY <1>4, <2>4, <3>1
  <2>5. QED
    BY <2>2, <2>3, <2>4
<1>6. Coming(s) = Db(pt)
  BY <1>5, ComingIs, DbIs, SamePairs
<1>7. Answer(s, k)
  <2>1. SUFFICES ASSUME NEW m \in s
                 PROVE  /\ m.op = "create" => m.pid = m.leader
                        /\ m.op = "add" => Msg("create", m.leader, m.leader) \in s
                        /\ Joins(m)
    BY DEF Answer
  <2>2. PICK l \in Pids, p \in Pids :
            /\ pt[l] # NoParty
            /\ (m = Msg("create", l, l) /\ p = l) \/ (m = Msg("add", l, p) /\ p \in pt[l])
    BY <1>3
  <2>3. m.leader = l
    BY <2>2, MsgFields
  <2>4. QED
    BY <1>4, <2>2, <2>3, MsgFields DEF Joins
<1>8. QED
  BY <1>1, <1>6, <1>7

LEMMA DbSetupReady ==
  ASSUME Inv, InAgreement, NEW g \in Games, DbSetup(g)
  PROVE  Ready'
<1>1. PICK m, O : m = Head(O) /\ O = heap[g].out
  OBVIOUS
<1>2. /\ O # << >> /\ m.op = "setup" /\ Took(g) /\ known' = known \cup {g}
      /\ setup'[g] = Snapshot(party) /\ \A r \in Games : r # g => setup'[r] = setup[r]
      /\ party' = party /\ toGame' = toGame /\ up' = up /\ at' = at /\ ingame' = ingame
  BY <1>1 DEF DbSetup, Waiting, chars, Inv, Types, Snapshot
<1>3. O \in Seq(ToDb) /\ m = SetupMsg
  <2>1. O \in Seq(ToDb) /\ m \in ToDb
    BY <1>1, <1>2, OutTypes, TailFacts
  <2>2. QED
    BY <1>2, <2>1, LogoutToDb DEF ToDb, PartyMsgs, PartyOps, SetupMsg
<1>4. ~Absent(O, SetupMsg)
  BY <1>1, <1>2, <1>3, TailFacts
<1>5. g \notin known /\ Unknown(g)
  BY <1>1, <1>4 DEF InAgreement, InStep, Sure
<1>6. heap[g].obj = NoObjects /\ heap[g].map = Nobody /\ toGame[g] = << >> /\ Here(g) = {}
      /\ O = <<SetupMsg>>
  BY <1>1, <1>2, <1>5 DEF Unknown
<1>7. PICK k : /\ heap' = [heap EXCEPT ![g] = k] /\ k.obj = NoObjects /\ k.map = Nobody
               /\ k.out = Tail(O)
  <2>1. PICK k : /\ heap' = [heap EXCEPT ![g] = k] /\ k.obj = heap[g].obj /\ k.map = heap[g].map
                 /\ k.out = Tail(heap[g].out)
    BY <1>2, TookShape
  <2>2. k.obj = NoObjects /\ k.map = Nobody /\ k.out = Tail(O)
    BY <1>1, <1>6, <2>1
  <2>3. QED
    BY <2>1, <2>2
<1>8. heap'[g] = k /\ \A r \in Games : r # g => heap'[r] = heap[r]
  BY <1>7 DEF Inv, HeapsGood
<1>9. k.out = << >>
  BY <1>6, <1>7
<1>10. \A r \in Games : Here(r)' = Here(r) /\ Playing(r)' = Playing(r)
  BY <1>2 DEF Here, Playing
<1>11. Pairs(k) = {} /\ Exact(k) /\ Joined(k, Playing(g)) /\ Playing(g) = {}
  <2>1. Playing(g) = {}
    BY <1>6 DEF Playing
  <2>2. \A p \in Pids : k.map[p] = NoId
    BY <1>7 DEF Nobody
  <2>3. \A id \in Ids : k.obj[id] = Dead
    BY <1>7 DEF NoObjects
  <2>4. Pairs(k) = {}
    BY <2>2 DEF Pairs, Couples
  <2>5. QED
    BY <2>1, <2>3, <2>4, ObjectFields DEF Exact, Joined
<1>12. party \in Maps /\ Unique(Db(party))
  BY DEF Inv, Types, Maps, InAgreement
<1>13. PICK s : s = Snapshot(party)
  OBVIOUS
<1>14. Coming(s) = Db(party) /\ Answer(s, k)
  BY <1>11, <1>12, <1>13, SnapshotIs
<1>15. Fine(k, s, << >>, {}, {}, party)
  <2>1. Copies(<< >>, << >>, {}, Db(party), Db(party))
    BY <1>12, Starts
  <2>2. Pairs(k) \cup Coming(s) = Db(party)
    BY <1>11, <1>14
  <2>3. Agreed(k, s, << >>, {}, party)
    BY <1>9, <2>1, <2>2 DEF Agreed
  <2>4. Said(<< >>, {}) /\ Absent(<< >>, SetupMsg) /\ Followed(<< >>)
    BY DEF Said, Absent, Followed
  <2>5. Sure(k, s, {}, {})
    BY <1>9, <1>11, <1>14, <2>4 DEF Sure
  <2>6. QED
    BY <2>3, <2>5 DEF Fine
<1>16. AlmostInStep(g)'
  BY <1>2, <1>6, <1>8, <1>10, <1>11, <1>13, <1>15 DEF AlmostInStep
<1>17. \A r \in Games : r # g => IF r \in known' THEN AlmostInStep(r)' ELSE Unknown(r)'
  BY <1>2, <1>8, <1>10, OtherReady
<1>18. Unique(Db(party))' /\ LeadersIn'
  <2>1. \A l \in Pids : SetupMsg # Msg("add", l, l)
    BY MsgFields DEF SetupMsg
  <2>2. \A l \in Pids : Absent(heap[g].out, Msg("add", l, l))
    BY <1>1, <1>6, <2>1 DEF Absent
  <2>3. QED
    BY <1>2, <1>8, <2>2, LeadersKept
<1>19. QED
  BY <1>2, <1>16, <1>17, <1>18 DEF Ready

LEMMA DbLogoutReady ==
  ASSUME Inv, InAgreement, NEW g \in Games, DbLogout(g)
  PROVE  Ready'
<1>1. PICK m, h : m = Head(h.out) /\ h = heap[g]
  OBVIOUS
<1>2. /\ h.out # << >> /\ m.op = "logout" /\ Took(g) /\ known' = known /\ setup' = setup
      /\ party' = party /\ toGame' = toGame /\ up' = up /\ at' = at /\ ingame' = ingame
  BY <1>1 DEF DbLogout, Waiting, chars
<1>3. g \in known /\ setup[g] = {}
  <2>1. m # SetupMsg
    BY <1>2, MsgFields DEF SetupMsg
  <2>2. g \in known
    BY <1>1, <1>2, <2>1 DEF InAgreement, Unknown
  <2>3. QED
    BY <1>1, <1>2, <2>2 DEF InAgreement, InStep, Sure
<1>4. /\ Fit(h) /\ Joined(h, Playing(g)) /\ Absent(h.out, SetupMsg)
      /\ Followed(h.out) /\ toGame[g] \in Seq(ToGames) /\ h.out \in Seq(ToDb)
      /\ Copies(h.out, toGame[g], Here(g), Pairs(h), Db(party))
  BY <1>1, <1>3, CaughtUp
<1>5. PICK k : /\ heap' = [heap EXCEPT ![g] = k] /\ k.obj = h.obj /\ k.map = h.map
               /\ k.link = h.link /\ k.out = Tail(h.out)
  BY <1>1, <1>2, TookShape
<1>6. heap'[g] = k /\ \A r \in Games : r # g => heap'[r] = heap[r]
  BY <1>5 DEF Inv, HeapsGood
<1>7. \A r \in Games : Here(r)' = Here(r) /\ Playing(r)' = Playing(r)
  BY <1>2 DEF Here, Playing
<1>8. Db(party) = Step(Db(party), m)
  <2>1. Neutral(m)
    BY <1>2 DEF Neutral
  <2>2. QED
    BY <2>1, DbIs, StepFacts
<1>9. Fine(k, {}, toGame[g], Here(g), Playing(g), party)
  BY <1>1, <1>2, <1>4, <1>5, <1>8, SentFine DEF Fit
<1>10. AlmostInStep(g)'
  BY <1>2, <1>3, <1>6, <1>7, <1>9 DEF AlmostInStep
<1>11. \A r \in Games : r # g => IF r \in known' THEN AlmostInStep(r)' ELSE Unknown(r)'
  BY <1>2, <1>6, <1>7, OtherReady
<1>12. Unique(Db(party))' /\ LeadersIn'
  <2>1. \A l \in Pids : m # Msg("add", l, l)
    BY <1>2, MsgFields
  <2>2. \A l \in Pids : ~Absent(h.out, Msg("add", l, l)) => ~Absent(k.out, Msg("add", l, l))
    BY <1>1, <1>2, <1>4, <1>5, <2>1, PlacesTail
  <2>3. QED
    BY <1>1, <1>2, <1>6, <2>2, LeadersKept
<1>13. QED
  BY <1>2, <1>3, <1>10, <1>11, <1>12 DEF Ready

LEMMA LoginReady ==
  ASSUME Inv, InAgreement, NEW p \in Pids, NEW g \in Games, Login(p, g)
  PROVE  Ready'
<1>1. /\ Forward(Enter(p), {g}) /\ party' = party /\ known' = known /\ setup' = setup
      /\ up' = up /\ at' = at /\ ingame' = ingame /\ heap' = heap /\ p \in free /\ g \in known
  BY DEF Login, Enter, chars
<1>2. PICK m, h, s, T, A, In : /\ m = Enter(p) /\ h = heap[g] /\ s = setup[g] /\ T = toGame[g]
                               /\ A = Here(g) /\ In = Playing(g)
  OBVIOUS
<1>3. \A r \in Games : toGame'[r] = IF r = g THEN Append(toGame[r], m) ELSE toGame[r]
  BY <1>1, <1>2, EnterToGames, ForwardFacts
<1>4. \A r \in Games : Here(r)' = Here(r) /\ Playing(r)' = Playing(r)
  BY <1>1 DEF Here, Playing
<1>5. p \notin A /\ Absent(h.out, Logout(p)) /\ Absent(T, Enter(p))
  <2>1. OnePlace(p)
    BY DEF Inv
  <2>2. at[p] = NoOne /\ Nowhere(p)
    BY <1>1, <2>1 DEF OnePlace
  <2>3. outs[g] = heap[g].out
    BY DEF outs
  <2>4. QED
    BY <1>2, <2>2, <2>3, NullAssumption DEF Nowhere, NoneIn, Here
<1>6. m \in ToGames /\ Neutral(m) /\ \A q \in Pids : m = Enter(q) => p = q
  BY <1>2, EnterToGames DEF Neutral
<1>7. Good(h) /\ T \in Seq(ToGames) /\ Sure(h, s, A, In) /\ Agreed(h, s, T, A, party)
  BY <1>1, <1>2, OutTypes DEF InAgreement, InStep
<1>8. Fine(h, s, Append(T, m), A, In, party)
  BY <1>5, <1>6, <1>7, NeutralFine
<1>9. AlmostInStep(g)'
  BY <1>1, <1>2, <1>3, <1>4, <1>8 DEF AlmostInStep
<1>10. \A r \in Games : r # g => IF r \in known' THEN AlmostInStep(r)' ELSE Unknown(r)'
  BY <1>1, <1>3, <1>4, OtherReady
<1>11. Unique(Db(party))' /\ LeadersIn'
  BY <1>1, LeadersKept
<1>12. QED
  BY <1>1, <1>9, <1>10, <1>11 DEF Ready

\* Every step of the system, as long as nothing breaks.
LEMMA NextReady ==
  ASSUME Inv, Inv', InAgreement, [Next]_vars, breaks' = 0, ~Logged'
  PROVE  Ready'
<1>1. breaks \in Nat /\ ingame \subseteq Pids
  BY DEF Inv, Types
<1>2. CASE \E p \in ingame : Play(p)
  BY <1>1, <1>2, PlayReady
<1>3. CASE \E p \in Pids : EnterGame(p) \/ Disconnect(p) \/ \E g \in Games : Login(p, g)
  BY <1>3, EnterGameReady, DisconnectReady, LoginReady
<1>4. CASE \E g \in Games : Connect(g) \/ Receive(g) \/ ReceiveSetup(g)
  BY <1>4, ConnectReady, ReceiveReady, ReceiveSetupReady
<1>5. CASE \E g \in Games : DbParty(g) \/ DbSetup(g) \/ DbLogout(g)
  <2>1. ~dbOdd'
    BY DEF Logged
  <2>2. QED
    BY <1>5, <2>1, DbPartyReady, DbSetupReady, DbLogoutReady
<1>6. CASE (\E g \in Games : Drop(g) \/ Crash(g)) \/ DbRestart
  <2>1. breaks' = breaks + 1
    BY <1>6 DEF Drop, Crash, DbRestart, Cut
  <2>2. QED
    BY <1>1, <2>1
<1>7. CASE UNCHANGED vars
  <2>1. /\ party' = party /\ known' = known /\ heap' = heap /\ setup' = setup
        /\ toGame' = toGame /\ up' = up /\ at' = at /\ ingame' = ingame
    BY <1>7 DEF vars
  <2>2. \A g \in Games : Here(g)' = Here(g) /\ Playing(g)' = Playing(g)
    BY <2>1 DEF Here, Playing
  <2>3. \A g \in Games : IF g \in known' THEN AlmostInStep(g)' ELSE Unknown(g)'
    BY <2>1, <2>2, OtherReady
  <2>4. QED
    BY <2>1, <2>3, LeadersKept DEF Ready
<1>8. QED
  BY <1>2, <1>3, <1>4, <1>5, <1>6, <1>7 DEF Next, ComeAndGo

LEMMA InitAgreement == Init => InAgreement
<1>1. SUFFICES ASSUME Init PROVE InAgreement
  OBVIOUS
<1>2. \A l \in Pids : party[l] = NoParty
  BY <1>1 DEF Init
<1>3. Unique(Db(party)) /\ LeadersIn
  <2>1. \A l, p \in Pids : <<l, p>> \notin Db(party)
    BY <1>2, DbIs
  <2>2. QED
    BY <1>2, <2>1 DEF Unique, LeadersIn
<1>4. \A g \in Games : Here(g) = {}
  BY <1>1, NullAssumption DEF Init, Here
<1>5. ASSUME NEW g \in Games PROVE g \notin known /\ Unknown(g)
  <2>1. heap[g] = Heap(NoObjects, Nobody, Nobody, << >>, FALSE)
    BY <1>1 DEF Init
  <2>2. heap[g].obj = NoObjects /\ heap[g].map = Nobody /\ heap[g].out = << >>
    BY <2>1 DEF Heap
  <2>3. QED
    BY <1>1, <1>4, <2>2 DEF Init, Unknown
<1>6. QED
  BY <1>3, <1>5 DEF InAgreement

\* The inductive invariant: while nothing has broken and no error has been logged,
\* the games and the db are in agreement, or an error is bound to be logged.
InAgreementYet == breaks = 0 /\ ~Logged => Doomed \/ InAgreement

LEMMA StaysInAgreement == Inv /\ Inv' /\ InAgreementYet /\ [Next]_vars => InAgreementYet'
<1>1. SUFFICES ASSUME Inv, Inv', InAgreementYet, [Next]_vars, breaks' = 0, ~Logged'
               PROVE  Doomed' \/ InAgreement'
  BY DEF InAgreementYet
<1>2. Lasts /\ breaks = 0
  BY <1>1, NextLasts
<1>3. Doomed \/ InAgreement
  BY <1>1, <1>2 DEF Lasts, InAgreementYet
<1>4. CASE Doomed
  BY <1>2, <1>4 DEF Lasts
<1>5. CASE InAgreement
  <2>1. Ready'
    BY <1>1, <1>5, NextReady
  <2>2. QED
    BY <1>1, <2>1, SettlesNext
<1>6. QED
  BY <1>3, <1>4, <1>5

\* With no message under way no error is bound to come, and what each has is all.
LEMMA QuietAgrees ==
  ASSUME Inv, InAgreement, Quiet, NEW g \in up
  PROVE  Agrees(heap[g])
<1>1. PICK h : h = heap[g]
  OBVIOUS
<1>2. g \in Games /\ g \in known /\ h.out = << >> /\ toGame[g] = << >> /\ setup[g] = {}
  BY <1>1 DEF Quiet, Inv, Types
<1>3. Fit(h) /\ Copies(<< >>, << >>, Here(g), Pairs(h), Db(party))
  BY <1>1, <1>2, CaughtUp
<1>4. Pairs(h) = Db(party)
  <2>1. DOMAIN << >> = {} /\ << >> \in Seq(ToDb)
    OBVIOUS
  <2>2. \A x, B : Ends(<< >>, x, B) <=> x \in B
    BY <2>1, EndsIs
  <2>3. \A x \in Couples : x \in Pairs(h) <=> x \in Db(party)
    BY <1>3, <2>2 DEF Copies, Meets
  <2>4. \A l, p \in Pids : <<l, p>> \in Pairs(h) <=> <<l, p>> \in Db(party)
    BY <2>3, Pairing
  <2>5. Pairs(h) \in SUBSET Couples /\ Db(party) \in SUBSET Couples
    BY PairIs, DbIs
  <2>6. QED
    BY <2>4, <2>5, SamePairs
<1>5. \A l \in Pids : party[l] # NoParty => l \in party[l]
  <2>1. \A r \in Games : heap[r].out = << >>
    BY DEF Quiet, InAgreement, Unknown
  <2>2. \A m : \A r \in Games : Absent(heap[r].out, m)
    BY <2>1, EmptyFacts
  <2>3. QED
    BY <2>2 DEF InAgreement, LeadersIn
<1>6. \A l \in Pids : party[l] # NoParty => party[l] \in SUBSET Pids
  BY DEF Inv, Types
<1>7. \A l \in Pids : party[l] # NoParty => \A p \in Pids : <<l, p>> \in Pairs(h) <=> p \in party[l]
  BY <1>4, <1>5, DbIs
<1>8. ASSUME NEW id \in Ids, h.obj[id] # Dead
      PROVE  \E l \in Pids : /\ party[l] # NoParty
                             /\ h.obj[id].leader = l /\ h.obj[id].members = party[l]
  <2>1. h.obj[id].members # {}
    BY <1>3, <1>8 DEF Fit, Exact
  <2>2. PICK l \in Pids : l = h.obj[id].leader
    BY <1>3, <2>1, FitFacts
  <2>3. /\ h.obj[id].members \subseteq Pids /\ l \in h.obj[id].members
        /\ \A p \in Pids : <<l, p>> \in Pairs(h) <=> p \in h.obj[id].members
    BY <1>3, <2>1, <2>2, FitFacts
  <2>4. party[l] # NoParty
    BY <1>4, <2>3, DbIs
  <2>5. h.obj[id].members = party[l]
    BY <1>6, <1>7, <2>3, <2>4
  <2>6. QED
    BY <2>2, <2>4, <2>5
<1>9. ASSUME NEW l \in Pids, party[l] # NoParty
      PROVE  \E id \in Ids : h.obj[id] # Dead /\ h.obj[id].leader = l /\ h.obj[id].members = party[l]
  <2>1. <<l, l>> \in Pairs(h)
    BY <1>5, <1>7, <1>9
  <2>2. PICK id \in Ids : id = h.map[l] /\ h.obj[id].leader = l
    BY <1>3, <2>1, PairIs, FitFacts
  <2>3. l \in h.obj[id].members
    BY <1>3, <2>2, FitFacts
  <2>4. h.obj[id] # Dead
    BY <2>3, ObjectFields
  <2>5. /\ h.obj[id].members \subseteq Pids
        /\ \A p \in Pids : <<l, p>> \in Pairs(h) <=> p \in h.obj[id].members
    BY <1>3, <2>2, <2>3, FitFacts
  <2>6. h.obj[id].members = party[l]
    BY <1>6, <1>7, <1>9, <2>5
  <2>7. QED
    BY <2>2, <2>4, <2>6
<1>10. {<<h.obj[id].leader, h.obj[id].members>> : id \in {i \in Ids : h.obj[i] # Dead}}
         = {<<l, party[l]>> : l \in {k \in Pids : party[k] # NoParty}}
  BY <1>8, <1>9
<1>11. \A id \in Ids : \A p \in h.obj[id].members : h.map[p] = id
  BY <1>3 DEF Fit, Exact
<1>12. QED
  BY <1>1, <1>10, <1>11 DEF Agrees

LEMMA QuietSafe ==
  ASSUME Inv, Quiet
  PROVE  ~Doomed
<1>1. \A g \in up : heap[g].out = << >> /\ toGame[g] = << >>
  BY DEF Quiet
<1>2. \A O, T, A, l : O = << >> => ~DoomedOut(O, T, A, l)
  BY DEF DoomedOut
<1>3. \A T, A, l : T = << >> => ~DoomedIn(T, A, l)
  BY DEF DoomedIn
<1>4. known \subseteq up
  BY DEF Inv, Types
<1>5. QED
  BY <1>1, <1>2, <1>3, <1>4 DEF Doomed, Refusal, Orphan

\* The copies of the parties agree, those of the games (CPartyManager) with that of
\* the db (m_map_pkChannelParty), whenever no message is under way: whatever the
\* players do, however the QUERY_PARTY_* of the games cross what the db forwards, for
\* any games, players, memory and bounds, as long as no connection broke, no process
\* ended, no error was logged of a message that was refused, and neither of the two
\* races happened that the code does not notice (the level message that makes a party
\* of the leader alone, the REMOVE that takes a player out of another party).
THEOREM CopiesStayAgreed == Spec => []CopiesAgree
<1>1. Init => InAgreementYet
  BY InitAgreement DEF InAgreementYet
<1>2. Inv /\ InAgreementYet => CopiesAgree
  BY QuietSafe, QuietAgrees DEF InAgreementYet, CopiesAgree
<1>3. QED
  BY <1>1, <1>2, StaysInAgreement, InvHolds, PTL DEF Spec
=============================================================================
