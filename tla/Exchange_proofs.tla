---------------------------- MODULE Exchange_proofs ---------------------------
(* Theorems of Exchange, for any players, items, grids and windows.           *)
EXTENDS Exchange, WellFoundedInduction, TLAPS

USE SlotsAssumption, NamesAssumption, GridAssumption

-----------------------------------------------------------------------------
(* Windows and inventories.                                                *)

LEMMA WindowTypes ==
  /\ NoSlot \in Slot /\ EmptySlots \in [Slots -> Slot]
  /\ SlotItems(EmptySlots) = {}
  /\ 0 \in Gold
  /\ NoOffer \in [slots : [Slots -> Slot], gold : Gold]
<1>1. NoSlot \in Slot
  BY DEF Slot
<1>2. EmptySlots \in [Slots -> Slot]
  BY <1>1 DEF EmptySlots
<1>3. SlotItems(EmptySlots) = {}
  BY DEF SlotItems, EmptySlots, NoSlot
<1>4. 0 \in Gold
  BY DEF Gold
<1>5. QED
  BY <1>1, <1>2, <1>3, <1>4 DEF NoOffer

LEMMA SlotItemsTyped ==
  ASSUME NEW s \in [Slots -> Slot]
  PROVE  /\ SlotItems(s) \subseteq Items
         /\ \A n \in Slots : s[n].item # NoItem => s[n].item \in SlotItems(s)
         /\ \A i \in SlotItems(s) : \E n \in Slots : s[n].item = i /\ s[n].item # NoItem
  BY DEF SlotItems, Slot, NoSlot

LEMMA HereTyped ==
  ASSUME NEW x
  PROVE  /\ Here(x) \subseteq Items
         /\ \A i \in Here(x) : x # NoItem /\ owner[i] # NoOne /\ Mem[i] = Mem[x]
         /\ \A i \in Items : x # NoItem /\ owner[i] # NoOne /\ Mem[i] = Mem[x] => i \in Here(x)
  BY DEF Here

\* What a pointer of a window leads to.
LEMMA HeldTyped ==
  ASSUME NEW p
  PROVE  /\ Held(p) \in [Slots -> Items \cup {NoItem}]
         /\ \A n \in Slots : Held(p)[n] # NoItem => Held(p)[n] \in Here(slots[p][n].item)
<1>1. ASSUME NEW n \in Slots
      PROVE  \/ Held(p)[n] = NoItem
             \/ Held(p)[n] \in Here(slots[p][n].item) /\ Held(p)[n] \in Items
  <2> DEFINE h == Here(slots[p][n].item)
  <2>1. h \subseteq Items
    BY HereTyped
  <2>2. Held(p)[n] = IF h = {} THEN NoItem ELSE CHOOSE i \in h : TRUE
    BY DEF Held
  <2> HIDE DEF h
  <2>3. h # {} => (CHOOSE i \in h : TRUE) \in h
    OBVIOUS
  <2>4. QED
    BY <2>1, <2>2, <2>3 DEF h
<1>2. Held(p) = [n \in Slots |-> Held(p)[n]]
  BY DEF Held
<1> DEFINE H == Held(p)
<1>3. H = [n \in Slots |-> H[n]] /\ \A n \in Slots : H[n] \in Items \cup {NoItem}
  BY <1>1, <1>2
<1> HIDE DEF H
<1>4. H \in [Slots -> Items \cup {NoItem}]
  BY <1>3
<1>5. QED
  BY <1>1, <1>4 DEF H

Window == [Slots -> Items \cup {NoItem}]

\* What Done moves lies in the window, and each item that moves has its place.
LEMMA MovedTyped ==
  ASSUME NEW w \in Window, NEW own, NEW cel, NEW q, NEW f \in Places(w, own, cel, q)
  PROVE  /\ f \in [Slots -> Int]
         /\ \A n \in Slots : f[n] # NoCell => w[n] \in Items
         /\ \A i \in Moved(w, f) : i \in Items /\ \E n \in Slots : w[n] = i /\ f[n] # NoCell
<1>1. \A k \in Kinds : Room[k] \in Nat
  OBVIOUS
<1>2. SomeCell \subseteq Int
  <2>1. NoCell \in Int
    BY DEF NoCell
  <2>2. Room["plain"] \in Nat /\ Room["book"] \in Nat /\ Room["soul"] \in Nat
    BY <1>1 DEF Kinds
  <2>3. 0 .. Room["plain"] + Room["book"] + Room["soul"] \subseteq Int
    BY <2>2
  <2>4. QED
    BY <2>1, <2>3 DEF SomeCell
<1>3. f \in [Slots -> Int]
  BY <1>2 DEF Places
<1>4. ASSUME NEW n \in Slots, f[n] # NoCell PROVE w[n] \in Items
  BY <1>4 DEF Places, Window
<1>5. QED
  BY <1>3, <1>4 DEF Moved

\* Among the places an item got, one is the last.
LEMMA LastPlace ==
  ASSUME NEW w \in Window, NEW f, NEW i, NEW m \in Slots, w[m] = i, f[m] # NoCell
  PROVE  \E n \in Slots : /\ w[n] = i /\ f[n] # NoCell
                          /\ \A l \in n + 1 .. MaxSlots : w[l] = i => f[l] = NoCell
<1> DEFINE N == {n \in Slots : w[n] = i /\ f[n] # NoCell}
           S == {MaxSlots - n : n \in N}
<1>1. S \subseteq Nat /\ S # {}
  BY DEF Slots
<1>2. PICK d \in S : \A e \in S : <<e, d>> \notin OpToRel(<, Nat)
  BY <1>1, NatLessThanWellFounded, WFMin
<1>3. \A e \in S : ~(e < d)
  BY <1>1, <1>2 DEF OpToRel
<1>4. PICK n \in N : d = MaxSlots - n
  OBVIOUS
<1>5. ASSUME NEW l \in n + 1 .. MaxSlots, w[l] = i, f[l] # NoCell PROVE FALSE
  <2>1. l \in N
    BY <1>4, <1>5 DEF Slots
  <2>2. MaxSlots - l \in S
    BY <2>1
  <2>3. MaxSlots - l < d
    BY <1>4, <1>5 DEF Slots
  <2>4. QED
    BY <1>3, <2>2, <2>3
<1>6. QED
  BY <1>4, <1>5

\* The last place is where the item is after Done.
LEMMA CellsOf ==
  ASSUME NEW w \in Window, NEW own, NEW cel, NEW q, NEW f \in Places(w, own, cel, q),
         NEW i \in Moved(w, f)
  PROVE  \E n \in Slots : /\ w[n] = i /\ f[n] # NoCell
                          /\ \A l \in n + 1 .. MaxSlots : w[l] = i => f[l] = NoCell
                          /\ Cells(cel, w, f)[i] = f[n]
<1> DEFINE Last(n) == /\ w[n] = i /\ f[n] # NoCell
                      /\ \A l \in n + 1 .. MaxSlots : w[l] = i => f[l] = NoCell
<1>1. i \in Items /\ \E n \in Slots : Last(n)
  <2>1. PICK m \in Slots : w[m] = i /\ f[m] # NoCell
    BY MovedTyped
  <2>2. i \in Items
    BY MovedTyped
  <2>3. QED
    BY <2>1, <2>2, LastPlace
<1> DEFINE n == CHOOSE m \in Slots : Last(m)
<1>2. n \in Slots /\ Last(n)
  BY <1>1
<1>3. Cells(cel, w, f)[i] = f[n]
  BY <1>1 DEF Cells
<1> HIDE DEF n
<1>4. QED
  BY <1>2, <1>3

LEMMA CellsTyped ==
  ASSUME NEW w \in Window, NEW own, NEW cel \in [Items -> Int], NEW q,
         NEW f \in Places(w, own, cel, q)
  PROVE  Cells(cel, w, f) \in [Items -> Int]
<1>1. f \in [Slots -> Int]
  BY MovedTyped
<1>2. ASSUME NEW i \in Items PROVE Cells(cel, w, f)[i] \in Int
  <2>1. CASE i \in Moved(w, f)
    BY <1>1, <2>1, CellsOf
  <2>2. CASE i \notin Moved(w, f)
    BY <2>2 DEF Cells
  <2>3. QED
    BY <2>1, <2>2
<1> DEFINE C == Cells(cel, w, f)
<1>3. C = [i \in Items |-> C[i]]
  BY DEF Cells
<1>4. \A i \in Items : C[i] \in Int
  BY <1>2
<1> HIDE DEF C
<1>5. C \in [Items -> Int]
  BY <1>3, <1>4
<1>6. QED
  BY <1>5 DEF C

LEMMA PayTyped ==
  ASSUME NEW g \in [Players -> Gold], NEW p \in Players, NEW q \in Players, p # q,
         NEW x \in Gold, x <= g[p]
  PROVE  /\ Pay(g, p, q, x) \in [Players -> Gold]
         /\ g[q] <= Pay(g, p, q, x)[q]
<1>1. \A r \in Players : g[r] \in Gold
  OBVIOUS
<1>2. \A y \in Gold : y \in Int /\ 0 <= y /\ y < GoldMax
  BY DEF Gold
<1>3. \A y \in Int : 0 <= y /\ y < GoldMax => y \in Gold
  BY DEF Gold
<1>4. ASSUME NEW r \in Players
      PROVE  (IF r = p THEN g[r] - x
              ELSE IF r = q /\ g[r] + x < GoldMax THEN g[r] + x
              ELSE g[r]) \in Gold
  BY <1>1, <1>2, <1>3
<1>5. Pay(g, p, q, x) \in [Players -> Gold]
  BY <1>4 DEF Pay
<1>6. g[q] <= Pay(g, p, q, x)[q]
  BY <1>1, <1>2 DEF Pay
<1>7. QED
  BY <1>5, <1>6

-----------------------------------------------------------------------------
(* The parts of the invariant.                                             *)

Paired == \A p \in Players : company[p] # NoOne => /\ company[p] # p
                                                  /\ company[company[p]] = p
ClosedEmpty == \A p \in Players : company[p] = NoOne =>
                 slots[p] = EmptySlots /\ offer[p] = 0 /\ p \notin accept

OncePerWindow == \A p \in Players : \A n, m \in Slots :
                   n # m /\ slots[p][n] # NoSlot =>
                     slots[p][n].item # slots[p][m].item \/ slots[p][n].item \in aliased
OwnersFit   == \A p \in Players : \A i \in SlotItems(slots[p]) : owner[i] \in {p, NoOne}
ShownMarked == \A p \in Players : \A i \in SlotItems(slots[p]) :
                 owner[i] = p => i \in exchanging \/ i \in aliased
MarkedShown == \A i \in exchanging : \E p \in Players : owner[i] = p /\ i \in SlotItems(slots[p])

\* No two living items have the same memory; an item to come is nowhere; and a
\* pointer that leads to another item than was put in leads to one created since.
OneAtAddress == \A i, j \in Items : i # j /\ owner[i] # NoOne /\ owner[j] # NoOne => Mem[i] # Mem[j]
UnbornNowhere == \A i \in unborn : owner[i] = NoOne /\ \A p \in Players : i \notin SlotItems(slots[p])
StalePointers == \A p \in Players : \A x \in SlotItems(slots[p]) : \A i \in Here(x) :
                   i = x \/ i \in aliased

Marks == /\ OncePerWindow /\ OwnersFit /\ ShownMarked /\ MarkedShown
         /\ OneAtAddress /\ UnbornNowhere /\ StalePointers

Sound == Paired /\ ClosedEmpty /\ Marks /\ AcceptSeesOffer
Inv   == TypeOK /\ Sound

LEMMA MarksMatch == Sound => MarksMatchWindows
  BY DEF Sound, Marks, MarksMatchWindows, Paired, ClosedEmpty, OncePerWindow, OwnersFit,
     ShownMarked, MarkedShown

LEMMA InitInv == Init => Inv
<1> SUFFICES ASSUME Init PROVE Inv
  OBVIOUS
<1>1. PICK s \in Starts :
        owner = s.owner /\ cell = s.cell /\ gold = s.gold /\ unborn = s.unborn
  BY DEF Init
<1>2. /\ owner \in [Items -> Players \cup {NoOne}]
      /\ cell \in [Items -> Int]
      /\ gold \in [Players -> Gold]
      /\ unborn \in SUBSET Items /\ \A i \in unborn : owner[i] = NoOne
      /\ OneAtAddress
  BY <1>1, StartsAssumption DEF OneAtAddress
<1>3. TypeOK
  <2>1. /\ slots \in [Players -> [Slots -> Slot]]
        /\ offer \in [Players -> Gold]
        /\ seen \in [Players -> [slots : [Slots -> Slot], gold : Gold]]
    BY WindowTypes DEF Init
  <2>2. company \in [Players -> Players \cup {NoOne}]
    BY DEF Init
  <2>3. exchanging \in SUBSET Items /\ accept \in SUBSET Players /\ aliased \in SUBSET Items
    BY DEF Init
  <2>4. QED
    BY <1>2, <2>1, <2>2, <2>3 DEF TypeOK
<1>4. Sound
  <2>1. OncePerWindow
    BY DEF Init, OncePerWindow, EmptySlots
  <2>2. Paired /\ ClosedEmpty /\ OwnersFit /\ ShownMarked /\ MarkedShown /\ AcceptSeesOffer
    BY WindowTypes DEF Init, Paired, ClosedEmpty, OwnersFit, ShownMarked, MarkedShown, AcceptSeesOffer
  <2>3. UnbornNowhere /\ StalePointers
    BY <1>2, WindowTypes DEF Init, UnbornNowhere, StalePointers
  <2>4. QED
    BY <1>2, <2>1, <2>2, <2>3 DEF Sound, Marks
<1>5. QED
  BY <1>3, <1>4 DEF Inv

\* Who sees p's offer is the company of p.
LEMMA CompanyTyped ==
  ASSUME Inv, NEW p \in Players, company[p] # NoOne
  PROVE  /\ company[p] \in Players /\ company[p] # p /\ company[company[p]] = p
         /\ \A r \in Players : company[r] = p => r = company[p]
         /\ \A r \in Players : company[r] = company[p] => r = p
<1>1. Paired
  BY DEF Inv, Sound
<1>2. company \in [Players -> Players \cup {NoOne}]
  BY DEF Inv, TypeOK
<1>3. QED
  BY <1>1, <1>2 DEF Paired

\* Of items that are alive, a window of another player holds none.
LEMMA WindowFacts ==
  ASSUME Inv, NEW r \in Players, NEW i \in SlotItems(slots[r])
  PROVE  /\ i \in Items /\ i # NoItem /\ owner[i] \in {r, NoOne}
         /\ owner[i] = r => i \in exchanging \/ i \in aliased
         /\ \E n \in Slots : slots[r][n].item = i /\ slots[r][n] # NoSlot
<1>1. slots[r] \in [Slots -> Slot] /\ OwnersFit /\ ShownMarked
  BY DEF Inv, TypeOK, Sound, Marks
<1>2. i \in Items /\ \E n \in Slots : slots[r][n].item = i /\ i # NoItem
  BY <1>1, SlotItemsTyped
<1>3. QED
  BY <1>1, <1>2 DEF OwnersFit, ShownMarked, NoSlot

-----------------------------------------------------------------------------
(* One lemma per action.                                                   *)

LEMMA MarksKept ==
  ASSUME Marks, UNCHANGED <<owner, unborn, exchanging, slots, aliased>>
  PROVE  Marks'
<1>1. OncePerWindow' /\ OwnersFit' /\ ShownMarked' /\ MarkedShown'
  BY DEF Marks, OncePerWindow, OwnersFit, ShownMarked, MarkedShown
<1>2. OneAtAddress' /\ UnbornNowhere' /\ StalePointers'
  BY DEF Marks, OneAtAddress, UnbornNowhere, StalePointers, Here
<1>3. QED
  BY <1>1, <1>2 DEF Marks

LEMMA ExchangeStartInv ==
  ASSUME Inv, NEW p \in Players, NEW q \in Players, ExchangeStart(p, q)
  PROVE  Inv'
<1>1. TypeOK'
  BY DEF Inv, TypeOK, ExchangeStart, itemVars, birthVars
<1>2. Paired /\ ClosedEmpty /\ Marks /\ AcceptSeesOffer
  BY DEF Inv, Sound
<1>3. company \in [Players -> Players \cup {NoOne}]
  BY DEF Inv, TypeOK
<1>4. Paired' /\ ClosedEmpty'
  BY <1>2, <1>3 DEF Paired, ClosedEmpty, ExchangeStart
<1>5. Marks'
  BY <1>2, MarksKept DEF ExchangeStart, itemVars, birthVars
<1>6. AcceptSeesOffer'
  BY <1>2 DEF AcceptSeesOffer, ClosedEmpty, ExchangeStart, Offer, Inv, TypeOK
<1>7. QED
  BY <1>1, <1>4, <1>5, <1>6 DEF Inv, Sound

LEMMA ReopenTyped ==
  ASSUME Inv, NEW p \in Players, Reopen(p)
  PROVE  /\ accept' \in SUBSET Players
         /\ seen' \in [Players -> [slots : [Slots -> Slot], gold : Gold]]
         /\ accept' = accept \ {p}
         /\ \A r \in accept' : seen'[r] = seen[r]
  BY WindowTypes DEF Inv, TypeOK, Reopen

\* After Reopen nobody who has accepted looks at p's window.
LEMMA ReopenSees ==
  ASSUME Inv, NEW p \in Players, company[p] # NoOne, Reopen(p), company' = company,
         \A r \in Players : r # p => slots'[r] = slots[r] /\ offer'[r] = offer[r]
  PROVE  AcceptSeesOffer' /\ ClosedEmpty'
<1>1. /\ AcceptSeesOffer /\ ClosedEmpty /\ accept \subseteq Players
      /\ company \in [Players -> Players \cup {NoOne}]
  BY DEF Inv, Sound, TypeOK
<1>2. ASSUME NEW r \in accept' PROVE seen'[r] = Offer(company[r])'
  <2>1. r \in accept /\ r \in Players /\ seen'[r] = seen[r]
    BY <1>1, ReopenTyped
  <2>2. r # company[p]
    BY <2>1 DEF Reopen
  <2>3. company[r] \in Players /\ company[r] # p
    BY <1>1, <2>1, <2>2, CompanyTyped DEF ClosedEmpty
  <2>4. QED
    BY <1>1, <2>1, <2>3 DEF AcceptSeesOffer, Offer
<1>3. ClosedEmpty'
  BY <1>1, ReopenTyped DEF ClosedEmpty
<1>4. QED
  BY <1>2, <1>3 DEF AcceptSeesOffer

LEMMA AddItemInv ==
  ASSUME Inv, NEW p \in Players, NEW i \in Items, AddItem(p, i)
  PROVE  Inv'
<1>1. /\ slots \in [Players -> [Slots -> Slot]] /\ cell \in [Items -> Int]
      /\ owner \in [Items -> Players \cup {NoOne}] /\ exchanging \in SUBSET Items
      /\ Paired /\ Marks
  BY DEF Inv, Sound, TypeOK
<1> DEFINE x == [item |-> i, pos |-> cell[i]]
<1>2. PICK n \in Slots : /\ slots[p][n] = NoSlot
                         /\ slots' = [slots EXCEPT ![p] = [@ EXCEPT ![n] = x]]
  BY DEF AddItem
<1>3. x \in Slot /\ x.item = i /\ i # NoItem
  BY <1>1 DEF Slot
<1> HIDE DEF x
<1>4. /\ slots' \in [Players -> [Slots -> Slot]]
      /\ \A r \in Players : r # p => slots'[r] = slots[r]
      /\ slots'[p] \in [Slots -> Slot] /\ slots'[p][n] = x
      /\ \A m \in Slots : m # n => slots'[p][m] = slots[p][m]
  BY <1>1, <1>2, <1>3
<1>5. SlotItems(slots'[p]) = SlotItems(slots[p]) \cup {i}
  <2>1. slots[p][n].item = NoItem
    BY <1>2 DEF NoSlot
  <2>2. ASSUME NEW y \in SlotItems(slots[p]) PROVE y \in SlotItems(slots'[p])
    <3>1. PICK m \in Slots : slots[p][m].item = y /\ y # NoItem
      BY DEF SlotItems
    <3>2. m # n
      BY <2>1, <3>1
    <3>3. QED
      BY <1>4, <3>1, <3>2 DEF SlotItems
  <2>3. ASSUME NEW y \in SlotItems(slots'[p]), y # i PROVE y \in SlotItems(slots[p])
    <3>1. PICK m \in Slots : slots'[p][m].item = y /\ y # NoItem
      BY DEF SlotItems
    <3>2. m # n
      BY <1>3, <1>4, <2>3, <3>1
    <3>3. QED
      BY <1>4, <3>1, <3>2 DEF SlotItems
  <2>4. i \in SlotItems(slots'[p])
    BY <1>3, <1>4 DEF SlotItems
  <2>5. QED
    BY <2>2, <2>3, <2>4
<1>6. /\ owner' = owner /\ company' = company /\ owner[i] = p /\ i \notin exchanging
      /\ exchanging' = exchanging \cup {i} /\ company[p] # NoOne /\ Reopen(p)
      /\ unborn' = unborn /\ aliased' = aliased
      /\ UNCHANGED <<itemVars, birthVars, company, offer>>
  BY DEF AddItem, itemVars, birthVars
\* Only an item in reused memory can be in the window and not marked.
<1>7. i \in SlotItems(slots[p]) => i \in aliased
  BY <1>1, <1>6 DEF Marks, ShownMarked
<1>8. TypeOK'
  <2>1. exchanging' \in SUBSET Items
    BY <1>1, <1>6
  <2>2. QED
    BY <1>4, <1>6, <2>1, ReopenTyped DEF Inv, TypeOK, itemVars, birthVars
<1>9. AcceptSeesOffer' /\ ClosedEmpty'
  BY <1>4, <1>6, ReopenSees
<1>10. Paired'
  BY <1>1, <1>6 DEF Paired
<1>11. OncePerWindow'
  <2>1. \A m \in Slots : slots[p][m].item = i => i \in aliased
    BY <1>1, <1>3, <1>7, SlotItemsTyped
  <2>2. ASSUME NEW k \in Slots, NEW m \in Slots, k # m, slots'[p][k] # NoSlot
        PROVE  slots'[p][k].item # slots'[p][m].item \/ slots'[p][k].item \in aliased
    <3>1. CASE k = n
      BY <1>3, <1>4, <2>1, <2>2, <3>1
    <3>2. CASE k # n /\ m = n
      BY <1>3, <1>4, <2>1, <2>2, <3>2
    <3>3. CASE k # n /\ m # n
      BY <1>1, <1>4, <2>2, <3>3 DEF Marks, OncePerWindow
    <3>4. QED
      BY <3>1, <3>2, <3>3
  <2>3. ASSUME NEW r \in Players, NEW k \in Slots, NEW m \in Slots, k # m,
               slots'[r][k] # NoSlot
        PROVE  slots'[r][k].item # slots'[r][m].item \/ slots'[r][k].item \in aliased'
    <3>1. CASE r = p
      BY <1>6, <2>2, <2>3, <3>1
    <3>2. CASE r # p
      BY <1>1, <1>4, <1>6, <2>3, <3>2 DEF Marks, OncePerWindow
    <3>3. QED
      BY <3>1, <3>2
  <2>4. QED
    BY Zenon, <2>3 DEF OncePerWindow
<1>12. OwnersFit' /\ ShownMarked'
  <2>1. ASSUME NEW r \in Players, NEW j \in SlotItems(slots'[r])
        PROVE  /\ owner'[j] \in {r, NoOne}
               /\ owner'[j] = r => j \in exchanging' \/ j \in aliased'
    <3>1. CASE j \in SlotItems(slots[r])
      BY <1>1, <1>6, <3>1 DEF Marks, OwnersFit, ShownMarked
    <3>2. CASE j \notin SlotItems(slots[r])
      BY <1>4, <1>5, <1>6, <2>1, <3>2
    <3>3. QED
      BY <3>1, <3>2
  <2>2. QED
    BY Zenon, <2>1 DEF OwnersFit, ShownMarked
<1>13. MarkedShown'
  <2>1. ASSUME NEW j \in exchanging'
        PROVE  \E r \in Players : owner'[j] = r /\ j \in SlotItems(slots'[r])
    <3>1. CASE j = i
      BY <1>5, <1>6, <3>1
    <3>2. CASE j # i
      <4>1. PICK r \in Players : owner[j] = r /\ j \in SlotItems(slots[r])
        BY <1>1, <1>6, <2>1, <3>2 DEF Marks, MarkedShown
      <4>2. QED
        BY <1>4, <1>5, <1>6, <4>1
    <3>3. QED
      BY <3>1, <3>2
  <2>2. QED
    BY <2>1 DEF MarkedShown
<1>14. OneAtAddress' /\ UnbornNowhere' /\ StalePointers'
  <2>1. OneAtAddress'
    BY <1>1, <1>6 DEF Marks, OneAtAddress
  <2>2. i \notin unborn
    BY <1>1, <1>6 DEF Marks, UnbornNowhere
  <2>3. UnbornNowhere'
    BY <1>1, <1>4, <1>5, <1>6, <2>2 DEF Marks, UnbornNowhere
  <2>4. ASSUME NEW r \in Players, NEW y \in SlotItems(slots'[r]), NEW j \in Here(y)'
        PROVE  j = y \/ j \in aliased'
    <3>1. j \in Here(y)
      BY <1>6, <2>4 DEF Here
    <3>2. CASE y \in SlotItems(slots[r])
      BY <1>1, <1>6, <3>1, <3>2 DEF Marks, StalePointers
    <3>3. CASE y = i
      <4>1. j \in Items /\ owner[j] # NoOne /\ Mem[j] = Mem[i] /\ owner[i] # NoOne
        BY <1>6, <3>1, <3>3, HereTyped
      <4>2. QED
        BY <1>1, <3>3, <4>1 DEF Marks, OneAtAddress
    <3>4. QED
      BY <1>4, <1>5, <2>4, <3>2, <3>3
  <2>5. QED
    BY <2>1, <2>3, <2>4 DEF StalePointers
<1>15. QED
  BY <1>8, <1>9, <1>10, <1>11, <1>12, <1>13, <1>14 DEF Inv, Sound, Marks

LEMMA AddItemToFullInv ==
  ASSUME Inv, NEW p \in Players, NEW i \in Items, AddItemToFull(p, i)
  PROVE  Inv'
<1>1. /\ company[p] # NoOne /\ Reopen(p)
      /\ UNCHANGED <<itemVars, birthVars, exchanging, windowVars>>
  BY DEF AddItemToFull
<1>2. TypeOK'
  BY <1>1, ReopenTyped DEF Inv, TypeOK, itemVars, birthVars, windowVars
<1>3. AcceptSeesOffer' /\ ClosedEmpty'
  BY <1>1, ReopenSees DEF windowVars
<1>4. Paired'
  BY <1>1 DEF Inv, Sound, Paired, windowVars
<1>5. Marks'
  BY <1>1, MarksKept DEF Inv, Sound, itemVars, birthVars, windowVars
<1>6. QED
  BY <1>2, <1>3, <1>4, <1>5 DEF Inv, Sound

\* The mark of what the pointer leads to is cleared, which need not be the item that
\* was put in.
LEMMA RemoveItemInv ==
  ASSUME Inv, NEW p \in Players, NEW n \in Slots, RemoveItem(p, n)
  PROVE  Inv'
<1> DEFINE i == slots[p][n].item
<1>1. /\ slots \in [Players -> [Slots -> Slot]] /\ exchanging \in SUBSET Items
      /\ Paired /\ Marks
  BY DEF Inv, Sound, TypeOK
<1>2. /\ company[p] # NoOne /\ slots[p][n] # NoSlot /\ Reopen(p)
      /\ exchanging' = exchanging \ Here(i)
      /\ slots' = [slots EXCEPT ![p] = [@ EXCEPT ![n] = NoSlot]]
      /\ owner' = owner /\ company' = company /\ unborn' = unborn /\ aliased' = aliased
      /\ UNCHANGED <<itemVars, birthVars, company, offer>>
  BY DEF RemoveItem, itemVars, birthVars
<1>3. i \in Items /\ i # NoItem /\ NoSlot.item = NoItem
  BY <1>1, <1>2 DEF Slot, NoSlot
<1>4. /\ slots' \in [Players -> [Slots -> Slot]]
      /\ \A r \in Players : r # p => slots'[r] = slots[r]
      /\ slots'[p][n] = NoSlot
      /\ \A m \in Slots : m # n => slots'[p][m] = slots[p][m]
  BY <1>1, <1>2, WindowTypes
<1>5. /\ SlotItems(slots'[p]) \subseteq SlotItems(slots[p])
      /\ SlotItems(slots[p]) \subseteq SlotItems(slots'[p]) \cup {i}
      /\ i \in SlotItems(slots'[p]) => i \in aliased
  <2>1. ASSUME NEW y \in SlotItems(slots'[p])
        PROVE  y \in SlotItems(slots[p]) /\ (y = i => i \in aliased)
    <3>1. PICK m \in Slots : slots'[p][m].item = y /\ y # NoItem
      BY DEF SlotItems
    <3>2. m # n /\ slots[p][m].item = y
      BY <1>3, <1>4, <3>1
    <3>3. y = i => i \in aliased
      BY <1>1, <1>2, <3>2 DEF Marks, OncePerWindow
    <3>4. QED
      BY <3>1, <3>2, <3>3 DEF SlotItems
  <2>2. ASSUME NEW y \in SlotItems(slots[p]), y # i PROVE y \in SlotItems(slots'[p])
    <3>1. PICK m \in Slots : slots[p][m].item = y /\ y # NoItem
      BY DEF SlotItems
    <3>2. m # n
      BY <2>2, <3>1
    <3>3. QED
      BY <1>4, <3>1, <3>2 DEF SlotItems
  <2> HIDE DEF i
  <2>3. QED
    BY <2>1, <2>2
<1>6. i \in SlotItems(slots[p])
  BY <1>3 DEF SlotItems
<1>7. \A r \in Players : SlotItems(slots'[r]) \subseteq SlotItems(slots[r])
  BY <1>4, <1>5
<1> HIDE DEF i
<1>8. TypeOK'
  <2>1. exchanging' \in SUBSET Items
    BY <1>1, <1>2
  <2>2. QED
    BY <1>2, <1>4, <2>1, ReopenTyped DEF Inv, TypeOK, itemVars, birthVars
<1>9. AcceptSeesOffer' /\ ClosedEmpty' /\ Paired'
  BY <1>1, <1>2, <1>4, ReopenSees DEF Paired
<1>10. OncePerWindow'
  <2>1. ASSUME NEW r \in Players, NEW k \in Slots, NEW m \in Slots, k # m,
               slots'[r][k] # NoSlot
        PROVE  slots'[r][k].item # slots'[r][m].item \/ slots'[r][k].item \in aliased'
    <3>1. CASE r # p
      BY <1>1, <1>2, <1>4, <2>1, <3>1 DEF Marks, OncePerWindow
    <3>2. CASE r = p /\ m # n
      BY <1>1, <1>2, <1>4, <2>1, <3>2 DEF Marks, OncePerWindow
    <3>3. CASE r = p /\ m = n
      BY <1>1, <1>3, <1>4, <2>1, <3>3 DEF Slot
    <3>4. QED
      BY <3>1, <3>2, <3>3
  <2>2. QED
    BY Zenon, <2>1 DEF OncePerWindow
<1>11. OwnersFit' /\ ShownMarked'
  <2>1. ASSUME NEW r \in Players, NEW j \in SlotItems(slots'[r])
        PROVE  /\ owner'[j] \in {r, NoOne}
               /\ owner'[j] = r => j \in exchanging' \/ j \in aliased'
    <3>1. j \in SlotItems(slots[r]) /\ owner[j] \in {r, NoOne}
          /\ (owner[j] = r => j \in exchanging \/ j \in aliased)
      BY <1>1, <1>7 DEF Marks, OwnersFit, ShownMarked
    <3>2. ASSUME j \in Here(i), owner[j] = r PROVE j \in aliased
      <4>1. CASE j # i
        BY <1>1, <1>6, <3>2, <4>1 DEF Marks, StalePointers
      <4>2. CASE j = i
        <5>1. owner[i] \in {p, NoOne}
          BY <1>1, <1>6 DEF Marks, OwnersFit
        <5>2. r = p
          BY <3>2, <4>2, <5>1
        <5>3. QED
          BY <1>5, <2>1, <4>2, <5>2
      <4>3. QED
        BY <4>1, <4>2
    <3>3. QED
      BY <1>2, <3>1, <3>2
  <2>2. QED
    BY Zenon, <2>1 DEF OwnersFit, ShownMarked
<1>12. MarkedShown'
  <2>1. ASSUME NEW j \in exchanging'
        PROVE  \E r \in Players : owner'[j] = r /\ j \in SlotItems(slots'[r])
    <3>1. PICK r \in Players : owner[j] = r /\ j \in SlotItems(slots[r])
      BY <1>1, <1>2, <2>1 DEF Marks, MarkedShown
    <3>2. j # i
      <4>1. j \in Items /\ owner[j] # NoOne /\ j \notin Here(i)
        BY <1>1, <1>2, <2>1, <3>1
      <4>2. QED
        BY <1>3, <4>1, HereTyped
    <3>3. QED
      BY <1>2, <1>4, <1>5, <3>1, <3>2
  <2>2. QED
    BY <2>1 DEF MarkedShown
<1>13. OneAtAddress' /\ UnbornNowhere' /\ StalePointers'
  BY <1>1, <1>2, <1>7 DEF Marks, OneAtAddress, UnbornNowhere, StalePointers, Here
<1>14. QED
  BY <1>8, <1>9, <1>10, <1>11, <1>12, <1>13 DEF Inv, Sound, Marks

LEMMA AddGoldInv ==
  ASSUME Inv, NEW p \in Players, NEW x \in Gold, AddGold(p, x)
  PROVE  Inv'
<1>1. /\ company[p] # NoOne /\ Reopen(p) /\ offer' = [offer EXCEPT ![p] = x]
      /\ UNCHANGED <<itemVars, birthVars, exchanging, company, slots>>
  BY DEF AddGold
<1>2. offer \in [Players -> Gold]
  BY DEF Inv, TypeOK
<1>3. TypeOK'
  BY <1>1, <1>2, ReopenTyped DEF Inv, TypeOK, itemVars, birthVars
<1>4. AcceptSeesOffer' /\ ClosedEmpty'
  BY <1>1, <1>2, ReopenSees
<1>5. Paired'
  BY <1>1 DEF Inv, Sound, Paired
<1>6. Marks'
  BY <1>1, MarksKept DEF Inv, Sound, itemVars, birthVars
<1>7. QED
  BY <1>3, <1>4, <1>5, <1>6 DEF Inv, Sound

\* Both windows close; only items that their pointers lead to change hands or end
\* meanwhile.
LEMMA CloseInv ==
  ASSUME Inv, NEW p \in Players, company[p] # NoOne, Close(p),
         owner' \in [Items -> Players \cup {NoOne}], cell' \in [Items -> Int],
         gold' \in [Players -> Gold],
         \A i \in Items : owner'[i] # owner[i] =>
           /\ i \in Freed(p)
           /\ owner[i] \in {p, company[p]}
  PROVE  Inv'
<1> DEFINE q == company[p]
           pair == {p, q}
<1>1. /\ Paired /\ ClosedEmpty /\ Marks /\ AcceptSeesOffer
      /\ slots \in [Players -> [Slots -> Slot]] /\ offer \in [Players -> Gold]
      /\ company \in [Players -> Players \cup {NoOne}] /\ exchanging \subseteq Items
      /\ accept \subseteq Players /\ unborn \subseteq Items /\ aliased \subseteq Items
      /\ owner \in [Items -> Players \cup {NoOne}]
      /\ seen \in [Players -> [slots : [Slots -> Slot], gold : Gold]]
  BY DEF Inv, Sound, TypeOK
<1>2. q \in Players /\ q # p /\ company[q] = p
  BY CompanyTyped
<1>3. /\ \A r \in Players : company'[r] = IF r \in pair THEN NoOne ELSE company[r]
      /\ \A r \in Players : slots'[r] = IF r \in pair THEN EmptySlots ELSE slots[r]
      /\ \A r \in Players : offer'[r] = IF r \in pair THEN 0 ELSE offer[r]
      /\ \A r \in Players : seen'[r] = IF r \in pair THEN NoOffer ELSE seen[r]
      /\ accept' = accept \ pair
      /\ exchanging' = exchanging \ Freed(p)
      /\ unborn' = unborn /\ aliased' = aliased
  BY DEF Close, birthVars
<1>4. TypeOK'
  <2>1. company' \in [Players -> Players \cup {NoOne}]
    BY <1>1 DEF Close
  <2>2. slots' \in [Players -> [Slots -> Slot]]
    BY <1>1, WindowTypes DEF Close
  <2>3. offer' \in [Players -> Gold]
    BY <1>1, WindowTypes DEF Close
  <2>4. seen' \in [Players -> [slots : [Slots -> Slot], gold : Gold]]
    BY <1>1, WindowTypes DEF Close
  <2>5. QED
    BY <1>1, <1>3, <2>1, <2>2, <2>3, <2>4 DEF TypeOK
<1>5. \A r \in Players : company[r] \in pair => r \in pair
  BY <1>2, CompanyTyped
<1>6. Paired'
  BY <1>1, <1>2, <1>3, <1>5 DEF Paired
<1>7. ClosedEmpty'
  BY <1>1, <1>3 DEF ClosedEmpty
<1>8. OncePerWindow'
  <2>1. \A m \in Slots : EmptySlots[m] = NoSlot
    BY DEF EmptySlots
  <2>2. ASSUME NEW r \in Players, NEW k \in Slots, NEW m \in Slots, k # m,
               slots'[r][k] # NoSlot
        PROVE  slots'[r][k].item # slots'[r][m].item \/ slots'[r][k].item \in aliased'
    <3>1. slots'[r] = slots[r]
      BY <1>3, <2>1, <2>2
    <3>2. QED
      BY <1>1, <1>3, <2>2, <3>1 DEF Marks, OncePerWindow
  <2>3. QED
    BY Zenon, <2>2 DEF OncePerWindow
\* What the other windows hold stays as it is.
<1>9. ASSUME NEW r \in Players, NEW i \in SlotItems(slots'[r])
      PROVE  /\ r \notin pair /\ i \in SlotItems(slots[r]) /\ i \in Items
             /\ owner'[i] = owner[i] /\ owner[i] \in {r, NoOne}
  <2>1. r \notin pair /\ slots'[r] = slots[r]
    BY <1>3, <1>9, WindowTypes
  <2>2. i \in SlotItems(slots[r]) /\ i \in Items /\ owner[i] \in {r, NoOne}
    BY <1>9, <2>1, WindowFacts
  <2>3. owner'[i] = owner[i]
    BY <1>2, <2>1, <2>2
  <2>4. QED
    BY <2>1, <2>2, <2>3
<1>10. ASSUME NEW i \in Freed(p)
       PROVE  \E r \in pair : \E x \in SlotItems(slots[r]) : i \in Here(x)
  BY DEF Freed
<1>11. ASSUME NEW r \in pair, NEW x \in SlotItems(slots[r]) PROVE Here(x) \subseteq Freed(p)
  BY <1>11 DEF Freed
<1>12. OwnersFit' /\ ShownMarked'
  <2>1. ASSUME NEW r \in Players, NEW i \in SlotItems(slots'[r])
        PROVE  /\ owner'[i] \in {r, NoOne}
               /\ owner'[i] = r => i \in exchanging' \/ i \in aliased'
    <3>1. /\ r \notin pair /\ i \in SlotItems(slots[r]) /\ i \in Items
          /\ owner'[i] = owner[i] /\ owner[i] \in {r, NoOne}
          /\ (owner[i] = r => i \in exchanging \/ i \in aliased)
      BY <1>9, WindowFacts
    <3>2. ASSUME i \in Freed(p), owner[i] = r PROVE i \in aliased
      <4>1. PICK u \in pair : \E x \in SlotItems(slots[u]) : i \in Here(x)
        BY <1>10, <3>2
      <4>2. PICK x \in SlotItems(slots[u]) : i \in Here(x)
        BY <4>1
      <4>3. u \in Players /\ owner[x] \in {u, NoOne}
        BY <1>2, WindowFacts
      <4>4. x # i
        BY <3>1, <3>2, <4>3
      <4>5. QED
        BY <1>1, <4>2, <4>3, <4>4 DEF Marks, StalePointers
    <3>3. QED
      BY <1>3, <3>1, <3>2
  <2>2. QED
    BY Zenon, <2>1 DEF OwnersFit, ShownMarked
<1>13. MarkedShown'
  <2>1. ASSUME NEW i \in exchanging'
        PROVE  \E r \in Players : owner'[i] = r /\ i \in SlotItems(slots'[r])
    <3>1. PICK r \in Players : owner[i] = r /\ i \in SlotItems(slots[r])
      BY <1>1, <1>3, <2>1 DEF Marks, MarkedShown
    <3>2. i \in Here(i)
      <4>1. i \in Items /\ owner[i] # NoOne
        BY <1>1, <1>3, <2>1, <3>1
      <4>2. QED
        BY <4>1 DEF Here
    <3>3. r \notin pair
      BY <1>3, <1>11, <2>1, <3>1, <3>2
    <3>4. owner'[i] = owner[i] /\ slots'[r] = slots[r]
      BY <1>1, <1>3, <2>1, <3>3
    <3>5. QED
      BY <3>1, <3>4
  <2>2. QED
    BY <2>1 DEF MarkedShown
<1>14. OneAtAddress' /\ UnbornNowhere' /\ StalePointers'
  <2>1. \A i \in Items : owner'[i] # NoOne => owner[i] # NoOne
    BY <1>2
  <2>2. OneAtAddress'
    BY <1>1, <2>1 DEF Marks, OneAtAddress
  <2>3. UnbornNowhere'
    BY <1>1, <1>3, <1>9, <2>1 DEF Marks, UnbornNowhere
  <2>4. ASSUME NEW r \in Players, NEW x \in SlotItems(slots'[r]), NEW i \in Here(x)'
        PROVE  i = x \/ i \in aliased'
    <3>1. i \in Here(x) /\ x \in SlotItems(slots[r])
      BY <1>9, <2>1, <2>4 DEF Here
    <3>2. QED
      BY <1>1, <1>3, <3>1 DEF Marks, StalePointers
  <2>5. QED
    BY <2>2, <2>3, <2>4 DEF StalePointers
<1>15. AcceptSeesOffer'
  <2>1. ASSUME NEW r \in accept' PROVE seen'[r] = Offer(company[r])'
    <3>1. r \in accept /\ r \in Players /\ r \notin pair
      BY <1>1, <1>3, <2>1
    <3>2. company[r] \in Players /\ company[r] \notin pair
      BY <1>1, <1>5, <3>1 DEF ClosedEmpty
    <3>3. QED
      BY <1>1, <1>3, <3>1, <3>2 DEF AcceptSeesOffer, Offer
  <2>2. QED
    BY <2>1 DEF AcceptSeesOffer
<1>16. QED
  BY <1>4, <1>6, <1>7, <1>8, <1>12, <1>13, <1>14, <1>15 DEF Inv, Sound, Marks

LEMMA CancelInv ==
  ASSUME Inv, NEW p \in Players, Cancel(p)
  PROVE  Inv'
<1>1. company[p] # NoOne /\ Close(p) /\ owner' = owner /\ cell' = cell /\ gold' = gold
  BY DEF Cancel, itemVars
<1>2. /\ owner \in [Items -> Players \cup {NoOne}] /\ cell \in [Items -> Int]
      /\ gold \in [Players -> Gold]
  BY DEF Inv, TypeOK
<1>3. QED
  BY <1>1, <1>2, CloseInv

\* An item of the window that passed Check, and the pointer that leads to it.
LEMMA HeldOwned ==
  ASSUME Inv, NEW r \in Players, Check(r), NEW n \in Slots, Held(r)[n] # NoItem
  PROVE  LET i == Held(r)[n]
             x == slots[r][n].item
         IN /\ i \in Items /\ x \in SlotItems(slots[r]) /\ i \in Here(x)
            /\ owner[i] = r /\ Kind[i] = Kind[x] /\ cell[i] = slots[r][n].pos
<1> DEFINE i == Held(r)[n]
           x == slots[r][n].item
<1>1. i \in Here(x) /\ i \in Items /\ x # NoItem /\ owner[i] # NoOne /\ Mem[i] = Mem[x]
  BY HeldTyped, HereTyped
<1>2. PICK j \in Here(x) : owner[j] = r /\ Kind[j] = Kind[x] /\ cell[j] = slots[r][n].pos
  BY <1>1 DEF Check, HasItems
<1>3. j = i
  <2>1. j \in Items /\ owner[j] # NoOne /\ Mem[j] = Mem[x]
    BY HereTyped
  <2>2. OneAtAddress
    BY DEF Inv, Sound, Marks
  <2> HIDE DEF i, x
  <2>3. QED
    BY <1>1, <2>1, <2>2 DEF OneAtAddress
<1>4. x \in SlotItems(slots[r])
  BY <1>1 DEF SlotItems
<1> HIDE DEF i, x
<1>5. QED
  BY <1>1, <1>2, <1>3, <1>4 DEF i, x

\* What HandOver does to types, owners and gold once the checks have passed.
LEMMA HandOverTyped ==
  ASSUME Inv, NEW p \in Players, company[p] # NoOne,
         Check(p), Check(company[p]), HandOver(p, company[p])
  PROVE  /\ owner' \in [Items -> Players \cup {NoOne}]
         /\ cell' \in [Items -> Int]
         /\ gold' \in [Players -> Gold]
         /\ \A i \in Items : owner'[i] # owner[i] =>
              \/ /\ owner[i] = p /\ owner'[i] \in {company[p], NoOne}
                 /\ \E n \in Slots : Held(p)[n] = i
              \/ /\ owner[i] = company[p] /\ owner'[i] \in {p, NoOne}
                 /\ \E n \in Slots : Held(company[p])[n] = i
<1> DEFINE q == company[p]
<1>1. /\ owner \in [Items -> Players \cup {NoOne}] /\ cell \in [Items -> Int]
      /\ gold \in [Players -> Gold] /\ offer \in [Players -> Gold]
  BY DEF Inv, TypeOK
<1>2. q \in Players /\ q # p /\ Held(p) \in Window /\ Held(q) \in Window
  BY CompanyTyped, HeldTyped DEF Window
<1>3. PICK f \in Places(Held(p), owner, cell, q) :
        LET own == Owners(owner, Held(p), f, q)
            cel == Cells(cell, Held(p), f)
        IN \E h \in Places(Held(q), own, cel, p) :
             /\ owner' = Owners(own, Held(q), h, p)
             /\ cell' = Cells(cel, Held(q), h)
             /\ gold' = Pay(Pay(gold, p, q, offer[p]), q, p, offer[q])
  BY Zenon DEF HandOver
<1> DEFINE own == Owners(owner, Held(p), f, q)
           cel == Cells(cell, Held(p), f)
<1>4. PICK h \in Places(Held(q), own, cel, p) :
        /\ owner' = Owners(own, Held(q), h, p)
        /\ cell' = Cells(cel, Held(q), h)
        /\ gold' = Pay(Pay(gold, p, q, offer[p]), q, p, offer[q])
  BY Zenon, <1>3
<1>5. \A i \in Moved(Held(p), f) :
        i \in Items /\ owner[i] = p /\ \E n \in Slots : Held(p)[n] = i
  BY <1>2, MovedTyped, HeldOwned
<1>6. \A i \in Moved(Held(q), h) :
        i \in Items /\ owner[i] = q /\ \E n \in Slots : Held(q)[n] = i
  BY <1>2, MovedTyped, HeldOwned
<1>7. own = [i \in Items |-> IF i \notin Moved(Held(p), f) THEN owner[i]
                            ELSE IF i \in Cards THEN NoOne ELSE q]
  BY DEF Owners
<1>8. owner' = [i \in Items |-> IF i \notin Moved(Held(q), h) THEN own[i]
                               ELSE IF i \in Cards THEN NoOne ELSE p]
  BY <1>4 DEF Owners
<1>9. cel \in [Items -> Int]
  BY <1>1, <1>2, CellsTyped
<1> HIDE DEF own, cel
<1>10. cell' \in [Items -> Int]
  BY <1>1, <1>2, <1>4, <1>9, CellsTyped
<1>11. owner' \in [Items -> Players \cup {NoOne}]
  BY <1>1, <1>2, <1>7, <1>8
<1>12. gold' \in [Players -> Gold]
  <2>1. offer[p] \in Gold /\ offer[q] \in Gold /\ offer[p] <= gold[p] /\ offer[q] <= gold[q]
    BY <1>1, <1>2 DEF Check
  <2> DEFINE g == Pay(gold, p, q, offer[p])
  <2>2. g \in [Players -> Gold] /\ gold[q] <= g[q]
    BY <1>1, <1>2, <2>1, PayTyped
  <2>3. gold' = Pay(g, q, p, offer[q])
    BY <1>4
  <2> HIDE DEF g
  <2>4. offer[q] <= g[q]
    BY <1>1, <1>2, <2>1, <2>2 DEF Gold
  <2>5. QED
    BY <1>2, <2>1, <2>2, <2>3, <2>4, PayTyped
<1>13. ASSUME NEW i \in Items, owner'[i] # owner[i]
       PROVE  \/ /\ owner[i] = p /\ owner'[i] \in {q, NoOne}
                 /\ \E n \in Slots : Held(p)[n] = i
              \/ /\ owner[i] = q /\ owner'[i] \in {p, NoOne}
                 /\ \E n \in Slots : Held(q)[n] = i
  <2>1. CASE i \in Moved(Held(q), h)
    BY <1>6, <1>8, <2>1
  <2>2. CASE i \notin Moved(Held(q), h)
    BY <1>5, <1>7, <1>8, <1>13, <2>2
  <2>3. QED
    BY <2>1, <2>2
<1>14. QED
  BY <1>10, <1>11, <1>12, <1>13

LEMMA AcceptFirstInv ==
  ASSUME Inv, NEW p \in Players, AcceptFirst(p)
  PROVE  Inv'
<1>1. /\ company[p] # NoOne /\ accept' = accept \cup {p}
      /\ seen' = [seen EXCEPT ![p] = Offer(company[p])]
      /\ UNCHANGED <<itemVars, birthVars, exchanging, windowVars>>
  BY DEF AcceptFirst
<1>2. /\ seen \in [Players -> [slots : [Slots -> Slot], gold : Gold]]
      /\ slots \in [Players -> [Slots -> Slot]] /\ offer \in [Players -> Gold]
      /\ accept \subseteq Players /\ AcceptSeesOffer /\ ClosedEmpty
  BY DEF Inv, Sound, TypeOK
<1>3. Offer(company[p]) \in [slots : [Slots -> Slot], gold : Gold]
  BY <1>1, <1>2, CompanyTyped DEF Offer
<1>4. TypeOK'
  BY <1>1, <1>2, <1>3 DEF Inv, TypeOK, itemVars, birthVars, windowVars
<1>5. AcceptSeesOffer'
  BY <1>1, <1>2 DEF AcceptSeesOffer, Offer, windowVars
<1>6. ClosedEmpty'
  BY <1>1, <1>2 DEF ClosedEmpty, windowVars
<1>7. Paired'
  BY <1>1 DEF Inv, Sound, Paired, windowVars
<1>8. Marks'
  BY <1>1, MarksKept DEF Inv, Sound, itemVars, birthVars, windowVars
<1>9. QED
  BY <1>4, <1>5, <1>6, <1>7, <1>8 DEF Inv, Sound

LEMMA AcceptSecondInv ==
  ASSUME Inv, NEW p \in Players, AcceptSecond(p)
  PROVE  Inv'
<1>1. company[p] # NoOne /\ Close(p)
  BY DEF AcceptSecond, BothAgree
<1>2. /\ owner \in [Items -> Players \cup {NoOne}] /\ cell \in [Items -> Int]
      /\ gold \in [Players -> Gold]
  BY DEF Inv, TypeOK
<1>3. CASE UNCHANGED itemVars
  BY <1>1, <1>2, <1>3, CloseInv DEF itemVars
<1>4. CASE Ready(p, company[p]) /\ HandOver(p, company[p])
  <2>1. Check(p) /\ Check(company[p]) /\ company[p] \in Players
    BY <1>1, <1>4, CompanyTyped DEF Ready
  <2>2. ASSUME NEW r \in {p, company[p]}, NEW n \in Slots, Held(r)[n] \in Items
        PROVE  Held(r)[n] \in Freed(p)
    BY <2>1, <2>2, HeldOwned DEF Freed
  <2>3. QED
    BY <1>1, <1>4, <2>1, <2>2, HandOverTyped, CloseInv
<1>5. QED
  BY <1>3, <1>4 DEF AcceptSecond

\* Cells and gold change beside the windows.
LEMMA AsideInv ==
  ASSUME Inv, owner' = owner, cell' \in [Items -> Int], gold' \in [Players -> Gold],
         UNCHANGED <<birthVars, exchanging, windowVars, accept, seen>>
  PROVE  Inv'
<1>1. TypeOK'
  BY DEF Inv, TypeOK, birthVars, windowVars
<1>2. /\ AcceptSeesOffer /\ ClosedEmpty /\ Paired /\ Marks
      /\ UNCHANGED <<company, slots, offer, unborn, aliased>>
  BY DEF Inv, Sound, birthVars, windowVars
<1>3. AcceptSeesOffer'
  BY <1>2 DEF AcceptSeesOffer, Offer
<1>4. ClosedEmpty' /\ Paired'
  BY <1>2 DEF ClosedEmpty, Paired
<1>5. Marks'
  BY <1>2, MarksKept
<1>6. QED
  BY <1>1, <1>3, <1>4, <1>5 DEF Inv, Sound

LEMMA AsideSteps ==
  ASSUME Inv, NEW p \in Players,
         \/ Earn(p) \/ Spend(p)
         \/ \E i \in Items : \E c \in 0 .. Room[Kind[i]] - 1 : MoveItem(p, i, c)
  PROVE  Inv'
<1>1. cell \in [Items -> Int] /\ gold \in [Players -> Gold]
  BY DEF Inv, TypeOK
<1>2. CASE Earn(p) \/ Spend(p)
  <2>1. gold' \in [Players -> Gold]
    BY <1>1, <1>2 DEF Earn, Spend, Gold
  <2>2. QED
    BY <1>1, <1>2, <2>1, AsideInv DEF Earn, Spend
<1>3. ASSUME NEW i \in Items, NEW c \in 0 .. Room[Kind[i]] - 1, MoveItem(p, i, c)
      PROVE  Inv'
  <2>1. cell' \in [Items -> Int]
    BY <1>1, <1>3 DEF MoveItem
  <2>2. QED
    BY <1>1, <1>3, <2>1, AsideInv DEF MoveItem
<1>4. QED
  BY <1>2, <1>3

LEMMA DestroyItemInv ==
  ASSUME Inv, NEW i \in Items, DestroyItem(i)
  PROVE  Inv'
<1>1. /\ owner' = [owner EXCEPT ![i] = NoOne] /\ exchanging' = exchanging \ {i}
      /\ UNCHANGED <<cell, gold, company, slots, offer, accept, seen, unborn, aliased>>
      /\ owner \in [Items -> Players \cup {NoOne}] /\ exchanging \subseteq Items
      /\ unborn \subseteq Items
  BY DEF DestroyItem, Inv, TypeOK, birthVars, windowVars
<1>2. TypeOK'
  BY <1>1 DEF Inv, TypeOK
<1>3. AcceptSeesOffer' /\ ClosedEmpty' /\ Paired'
  <2>1. AcceptSeesOffer /\ ClosedEmpty /\ Paired
    BY DEF Inv, Sound
  <2>2. AcceptSeesOffer'
    BY <1>1, <2>1 DEF AcceptSeesOffer, Offer
  <2>3. QED
    BY <1>1, <2>1, <2>2 DEF ClosedEmpty, Paired
<1>4. Marks
  BY DEF Inv, Sound
<1>5. \A j \in Items : owner'[j] = IF j = i THEN NoOne ELSE owner[j]
  BY <1>1
<1>6. \A p \in Players : SlotItems(slots[p]) \subseteq Items
  BY WindowFacts
<1>7. OncePerWindow' /\ OwnersFit' /\ ShownMarked' /\ MarkedShown'
  <2>1. OncePerWindow'
    BY <1>1, <1>4 DEF Marks, OncePerWindow
  <2>2. OwnersFit'
    BY <1>1, <1>4, <1>5, <1>6 DEF Marks, OwnersFit
  <2>3. ShownMarked'
    BY <1>1, <1>4, <1>5, <1>6 DEF Marks, ShownMarked
  <2>4. MarkedShown'
    BY <1>1, <1>4, <1>5 DEF Marks, MarkedShown
  <2>5. QED
    BY <2>1, <2>2, <2>3, <2>4
<1>8. OneAtAddress' /\ UnbornNowhere' /\ StalePointers'
  <2>1. OneAtAddress'
    BY <1>4, <1>5 DEF Marks, OneAtAddress
  <2>2. UnbornNowhere'
    BY <1>1, <1>4, <1>5 DEF Marks, UnbornNowhere
  <2>3. \A x : Here(x)' \subseteq Here(x)
    BY <1>5 DEF Here
  <2>4. StalePointers'
    BY <1>1, <1>4, <2>3 DEF Marks, StalePointers
  <2>5. QED
    BY <2>1, <2>2, <2>4
<1>9. QED
  BY <1>2, <1>3, <1>7, <1>8 DEF Inv, Sound, Marks

LEMMA FirstFitTyped ==
  ASSUME NEW i \in Items, NEW taken
  PROVE  FirstFit(i, taken) \in Int /\ (FirstFit(i, taken) # NoCell =>
           FitsAt(i, FirstFit(i, taken), taken))
<1> DEFINE S == {c \in 0 .. Room[Kind[i]] - 1 : FitsAt(i, c, taken)}
<1>1. CASE S = {}
  <2>1. FirstFit(i, taken) = NoCell
    BY <1>1 DEF FirstFit
  <2>2. QED
    BY <2>1 DEF NoCell
<1>2. CASE S # {}
  <2>1. S \subseteq Nat
    OBVIOUS
  <2>2. PICK c \in S : \A d \in S : <<d, c>> \notin OpToRel(<, Nat)
    BY <1>2, <2>1, NatLessThanWellFounded, WFMin
  <2>3. \A d \in S : ~(d < c)
    BY <2>1, <2>2 DEF OpToRel
  <2>4. /\ c \in 0 .. Room[Kind[i]] - 1 /\ FitsAt(i, c, taken)
        /\ \A d \in 0 .. c - 1 : ~FitsAt(i, d, taken)
    BY <2>3
  <2>5. FirstFit(i, taken) \in 0 .. Room[Kind[i]] - 1 /\ FitsAt(i, FirstFit(i, taken), taken)
    BY <2>4 DEF FirstFit
  <2>6. QED
    BY <2>5
<1>3. QED
  BY <1>1, <1>2

\* A new item has memory of its own, but a window may point to it.
LEMMA CreateItemInv ==
  ASSUME Inv, NEW p \in Players, NEW i \in Items, CreateItem(p, i)
  PROVE  Inv'
<1>1. /\ owner' = [owner EXCEPT ![i] = p] /\ unborn' = unborn \ {i} /\ i \in unborn
      /\ \A j \in Items : owner[j] # NoOne => Mem[j] # Mem[i]
      /\ aliased \subseteq aliased' /\ aliased' \subseteq aliased \cup {i}
      /\ (\E r \in Players : \E x \in SlotItems(slots[r]) : Mem[x] = Mem[i]) => i \in aliased'
      /\ UNCHANGED <<exchanging, gold, company, slots, offer, accept, seen>>
  BY DEF CreateItem, windowVars
<1>2. /\ owner \in [Items -> Players \cup {NoOne}] /\ exchanging \subseteq Items
      /\ unborn \subseteq Items /\ aliased \subseteq Items /\ cell \in [Items -> Int] /\ Marks
  BY DEF Inv, Sound, TypeOK
<1>3. cell' \in [Items -> Int]
  <2>1. cell' = [cell EXCEPT ![i] = FirstFit(i, Taken(owner, cell, p, Kind[i]))]
    BY DEF CreateItem
  <2>2. FirstFit(i, Taken(owner, cell, p, Kind[i])) \in Int
    BY FirstFitTyped
  <2>3. QED
    BY <1>2, <2>1, <2>2
<1>4. TypeOK'
  BY <1>1, <1>2, <1>3 DEF Inv, TypeOK
<1>5. AcceptSeesOffer' /\ ClosedEmpty' /\ Paired'
  <2>1. AcceptSeesOffer /\ ClosedEmpty /\ Paired
    BY DEF Inv, Sound
  <2>2. AcceptSeesOffer'
    BY <1>1, <2>1 DEF AcceptSeesOffer, Offer
  <2>3. QED
    BY <1>1, <2>1, <2>2 DEF ClosedEmpty, Paired
<1>6. \A j \in Items : owner'[j] = IF j = i THEN p ELSE owner[j]
  BY <1>1, <1>2
<1>7. /\ owner[i] = NoOne /\ \A r \in Players : i \notin SlotItems(slots[r])
      /\ \A r \in Players : SlotItems(slots[r]) \subseteq Items
  BY <1>1, <1>2, WindowFacts DEF Marks, UnbornNowhere
<1>8. OncePerWindow' /\ OwnersFit' /\ ShownMarked' /\ MarkedShown'
  <2>1. OncePerWindow'
    BY <1>1, <1>2 DEF Marks, OncePerWindow
  <2>2. OwnersFit'
    BY <1>1, <1>2, <1>6, <1>7 DEF Marks, OwnersFit
  <2>3. ShownMarked'
    BY <1>1, <1>2, <1>6, <1>7 DEF Marks, ShownMarked
  <2>4. MarkedShown'
    BY <1>1, <1>2, <1>6, <1>7 DEF Marks, MarkedShown
  <2>5. QED
    BY <2>1, <2>2, <2>3, <2>4
<1>9. OneAtAddress' /\ UnbornNowhere' /\ StalePointers'
  <2>1. OneAtAddress'
    BY <1>1, <1>2, <1>6 DEF Marks, OneAtAddress
  <2>2. UnbornNowhere'
    BY <1>1, <1>2, <1>6 DEF Marks, UnbornNowhere
  <2>3. ASSUME NEW r \in Players, NEW x \in SlotItems(slots'[r]), NEW j \in Here(x)'
        PROVE  j = x \/ j \in aliased'
    <3>1. x \in SlotItems(slots[r]) /\ x # NoItem /\ j \in Items /\ Mem[j] = Mem[x]
          /\ owner'[j] # NoOne
      BY <1>1, <2>3 DEF Here
    <3>2. CASE j = i
      BY <1>1, <3>1, <3>2
    <3>3. CASE j # i
      <4>1. j \in Here(x)
        BY <1>6, <3>1, <3>3, HereTyped
      <4>2. QED
        BY <1>1, <1>2, <3>1, <4>1 DEF Marks, StalePointers
    <3>4. QED
      BY <3>2, <3>3
  <2>4. QED
    BY <2>1, <2>2, <2>3 DEF StalePointers
<1>10. QED
  BY <1>4, <1>5, <1>8, <1>9 DEF Inv, Sound, Marks

-----------------------------------------------------------------------------
(* The invariant, and what it says of a trade.                             *)

LEMMA NextInv == Inv /\ [Next]_vars => Inv'
<1> SUFFICES ASSUME Inv, [Next]_vars PROVE Inv'
  OBVIOUS
<1>1. ASSUME NEW p \in Players, \E q \in Players : ExchangeStart(p, q) PROVE Inv'
  BY <1>1, ExchangeStartInv
<1>2. ASSUME NEW p \in Players,
             \/ \E i \in Items : AddItem(p, i) \/ AddItemToFull(p, i) \/ CreateItem(p, i)
             \/ \E n \in Slots : RemoveItem(p, n)
             \/ \E x \in Gold : AddGold(p, x)
      PROVE  Inv'
  BY <1>2, AddItemInv, AddItemToFullInv, CreateItemInv, RemoveItemInv, AddGoldInv
<1>3. ASSUME NEW p \in Players, AcceptFirst(p) \/ AcceptSecond(p) \/ Cancel(p) PROVE Inv'
  BY <1>3, AcceptFirstInv, AcceptSecondInv, CancelInv
<1>4. ASSUME NEW p \in Players,
             \/ Earn(p) \/ Spend(p)
             \/ \E i \in Items : \E c \in 0 .. Room[Kind[i]] - 1 : MoveItem(p, i, c)
      PROVE  Inv'
  BY <1>4, AsideSteps
<1>5. ASSUME NEW i \in Items, DestroyItem(i) PROVE Inv'
  BY <1>5, DestroyItemInv
<1>6. CASE UNCHANGED vars
  BY <1>6, AsideInv DEF vars, birthVars, windowVars, Inv, TypeOK
<1>7. QED
  BY <1>1, <1>2, <1>3, <1>4, <1>5, <1>6 DEF Next

\* The state of a trade, in particular no amount of gold below 0 or at GOLD_MAX
\* and over, whoever trades what and however the trade goes.
THEOREM TypeCorrect == Spec => []TypeOK
<1>1. Inv => TypeOK
  BY DEF Inv
<1>2. QED
  BY <1>1, InitInv, NextInv, PTL DEF Spec

\* m_bExchanging is set on living items in the window of their owner, and on all of
\* them but those in the memory of an item destroyed in an open window
\* (CExchange::AddItem, RemoveItem, Cancel, ITEM_MANAGER::DestroyItem).
THEOREM MarksAreRight == Spec => []MarksMatchWindows
<1>1. Inv => MarksMatchWindows
  BY MarksMatch DEF Inv
<1>2. QED
  BY <1>1, InitInv, NextInv, PTL DEF Spec

\* Whoever has accepted saw the offer as it stands (CExchange::Accept, and the
\* tests of m_bAccept in AddItem, RemoveItem and AddGold).
THEOREM AcceptsWhatStands == Spec => []AcceptSeesOffer
<1>1. Inv => AcceptSeesOffer
  BY DEF Inv, Sound
<1>2. QED
  BY <1>1, InitInv, NextInv, PTL DEF Spec

\* Items change hands in the trade alone.
LEMMA OnlyTradesMove ==
  ASSUME Inv, [Next]_vars, NEW i \in Items, owner'[i] \notin {owner[i], NoOne},
         owner[i] # NoOne
  PROVE  \E p \in Players : /\ AcceptSecond(p)
                            /\ Ready(p, company[p]) /\ HandOver(p, company[p])
<1>1. owner' # owner
  OBVIOUS
<1>2. ~(UNCHANGED vars) /\ ~(UNCHANGED itemVars)
  BY <1>1 DEF vars, itemVars
<1>3. ASSUME NEW j \in Items, DestroyItem(j) PROVE FALSE
  BY <1>3 DEF DestroyItem, Inv, TypeOK
<1>4. ASSUME NEW p \in Players, NEW j \in Items, CreateItem(p, j) PROVE FALSE
  <2>1. owner' = [owner EXCEPT ![j] = p] /\ owner[j] = NoOne
    BY <1>4 DEF CreateItem, Inv, Sound, Marks, UnbornNowhere
  <2>2. QED
    BY <2>1 DEF Inv, TypeOK
<1>5. \E p \in Players : AcceptSecond(p)
  <2>1. \A p \in Players : /\ \A q \in Players : ~ExchangeStart(p, q)
                           /\ \A j \in Items : ~AddItem(p, j) /\ ~AddItemToFull(p, j)
                           /\ \A n \in Slots : ~RemoveItem(p, n)
                           /\ \A x \in Gold : ~AddGold(p, x)
    BY <1>2 DEF ExchangeStart, AddItem, AddItemToFull, RemoveItem, AddGold
  <2>2. \A p \in Players : ~AcceptFirst(p) /\ ~Cancel(p) /\ ~Earn(p) /\ ~Spend(p)
    BY <1>1, <1>2 DEF AcceptFirst, Cancel, Earn, Spend
  <2>3. \A p \in Players, j \in Items : \A c : ~MoveItem(p, j, c)
    BY <1>1 DEF MoveItem
  <2>4. QED
    BY <1>2, <1>3, <1>4, <2>1, <2>2, <2>3 DEF Next
<1>6. QED
  BY <1>2, <1>5 DEF AcceptSecond

\* An item that was destroyed stays so.
LEMMA OnlyBirthsBring ==
  ASSUME Inv, [Next]_vars, NEW i \in Items, owner[i] = NoOne, owner'[i] # NoOne
  PROVE  i \in unborn
<1>1. CASE \E p \in Players : \E j \in Items : CreateItem(p, j)
  <2>1. PICK p \in Players, j \in Items : CreateItem(p, j)
    BY <1>1
  <2>2. i = j
    BY <2>1 DEF CreateItem, Inv, TypeOK
  <2>3. QED
    BY <2>1, <2>2 DEF CreateItem
<1>2. CASE \E p \in Players : AcceptSecond(p)
  <2>1. PICK p \in Players : AcceptSecond(p)
    BY <1>2
  <2>2. company[p] # NoOne /\ owner' # owner
    BY <2>1 DEF AcceptSecond, BothAgree
  <2>3. Ready(p, company[p]) /\ HandOver(p, company[p])
    BY <2>1, <2>2 DEF AcceptSecond, itemVars
  <2>4. owner[i] \in {p, company[p]}
    BY <2>2, <2>3, HandOverTyped DEF Ready
  <2>5. QED
    BY <2>2, <2>4, CompanyTyped
<1>3. CASE \E j \in Items : DestroyItem(j)
  BY <1>3 DEF DestroyItem, Inv, TypeOK
<1>4. CASE owner' = owner
  BY <1>4
<1>5. QED
  <2>1. ASSUME NEW p \in Players,
               \/ \E q \in Players : ExchangeStart(p, q)
               \/ \E j \in Items : AddItem(p, j) \/ AddItemToFull(p, j)
               \/ \E n \in Slots : RemoveItem(p, n)
               \/ \E x \in Gold : AddGold(p, x)
               \/ AcceptFirst(p) \/ Cancel(p) \/ Earn(p) \/ Spend(p)
               \/ \E j \in Items : \E c \in 0 .. Room[Kind[j]] - 1 : MoveItem(p, j, c)
        PROVE  owner' = owner
    BY <2>1 DEF ExchangeStart, AddItem, AddItemToFull, RemoveItem, AddGold, AcceptFirst,
       Cancel, Earn, Spend, MoveItem, itemVars
  <2>2. CASE UNCHANGED vars
    BY <1>4, <2>2 DEF vars
  <2>3. QED
    BY <1>1, <1>2, <1>3, <1>4, <2>1, <2>2 DEF Next

\* An item goes only to the company of its owner, only out of the owner's window,
\* and only as the company saw the window or sees it now, unless it passes for the
\* destroyed item that was shown (CExchange::Accept, Check, Done).
THEOREM TradesNeedConsent == Spec => ItemsMoveByConsent
<1>1. ASSUME Inv, NEW r \in Players, Check(r), NEW n \in Slots,
             NEW i \in Items, Held(r)[n] = i
      PROVE  i \in SlotItems(slots[r]) \/ Mistaken(r, i)
  <2> DEFINE x == slots[r][n].item
  <2>1. /\ x \in SlotItems(slots[r]) /\ i \in Here(x)
        /\ Kind[i] = Kind[x] /\ cell[i] = slots[r][n].pos
    BY <1>1, HeldOwned
  <2>2. CASE i = x
    BY <2>1, <2>2
  <2>3. CASE i # x
    <3>1. i \in aliased
      BY <1>1, <2>1, <2>3 DEF Inv, Sound, Marks, StalePointers
    <3>2. x \in Items /\ x # NoItem /\ Mem[i] = Mem[x] /\ owner[i] # NoOne
      BY <1>1, <2>1, HereTyped, WindowFacts
    <3>3. owner[x] = NoOne
      BY <1>1, <2>3, <3>2 DEF Inv, Sound, Marks, OneAtAddress
    <3>4. QED
      BY <2>1, <2>3, <3>1, <3>2, <3>3 DEF Mistaken
  <2>4. QED
    BY <2>2, <2>3
<1>2. ASSUME Inv, [Next]_vars, NEW i \in Items, owner'[i] \notin {owner[i], NoOne},
             owner[i] # NoOne
      PROVE  Consent(owner[i], owner'[i], i)
  <2>1. PICK p \in Players : /\ AcceptSecond(p)
                             /\ Ready(p, company[p]) /\ HandOver(p, company[p])
    BY <1>2, OnlyTradesMove
  <2>2. company[p] # NoOne /\ company[p] \in accept
    BY <2>1 DEF AcceptSecond, BothAgree
  <2>3. company[p] \in Players /\ company[company[p]] = p /\ Check(p) /\ Check(company[p])
    BY <1>2, <2>1, <2>2, CompanyTyped DEF Ready
  <2>4. \/ /\ owner[i] = p /\ owner'[i] = company[p]
           /\ i \in SlotItems(slots[p]) \/ Mistaken(p, i)
        \/ /\ owner[i] = company[p] /\ owner'[i] = p
           /\ i \in SlotItems(slots[company[p]]) \/ Mistaken(company[p], i)
    BY <1>1, <1>2, <2>1, <2>2, <2>3, HandOverTyped
  <2>5. \A r \in accept : seen[r] = Offer(company[r])
    BY <1>2 DEF Inv, Sound, AcceptSeesOffer
  <2>6. QED
    BY <2>2, <2>3, <2>4, <2>5 DEF Consent
<1>3. Inv /\ [Next]_vars =>
        [\A i \in Items : owner'[i] \notin {owner[i], NoOne} =>
           IF owner[i] = NoOne THEN i \in unborn ELSE Consent(owner[i], owner'[i], i)]_vars
  BY <1>2, OnlyBirthsBring
<1>4. QED
  BY <1>3, InitInv, NextInv, PTL DEF Spec, ItemsMoveByConsent

-----------------------------------------------------------------------------
(* No two items share a cell.                                              *)
(*                                                                         *)
(* The four checks look at the inventories as they are; what is handed     *)
(* over first is there when the second side is placed, which CheckSpace    *)
(* does not foresee.  Done places again, and that is enough: every place   *)
(* it finds is free of what the receiver has and of what it got before.    *)

Apart(own, cel) ==
  \A i, j \in Items : i # j /\ own[i] # NoOne /\ own[j] = own[i] /\ Kind[j] = Kind[i] =>
    Span(i, cel[i]) \cap Span(j, cel[j]) = {}
Inside(own, cel) ==
  \A i \in Items : own[i] # NoOne => Span(i, cel[i]) \subseteq 0 .. Room[Kind[i]] - 1

LEMMA OverlapParts ==
  ASSUME NEW own \in [Items -> Players \cup {NoOne}], NEW cel
  PROVE  (\A i \in Items : own[i] # NoOne =>
            FitsAt(i, cel[i], Taken([own EXCEPT ![i] = NoOne], cel, own[i], Kind[i])))
          <=> Apart(own, cel) /\ Inside(own, cel)
<1>1. ASSUME NEW i \in Items, own[i] # NoOne
      PROVE  Taken([own EXCEPT ![i] = NoOne], cel, own[i], Kind[i])
               = UNION {Span(j, cel[j]) : j \in {k \in Items : k # i /\ own[k] = own[i]
                                                            /\ Kind[k] = Kind[i]}}
  <2>1. {k \in Items : [own EXCEPT ![i] = NoOne][k] = own[i] /\ Kind[k] = Kind[i]}
          = {k \in Items : k # i /\ own[k] = own[i] /\ Kind[k] = Kind[i]}
    BY <1>1
  <2>2. QED
    BY <2>1 DEF Taken
<1>2. ASSUME NEW i \in Items, own[i] # NoOne
      PROVE  FitsAt(i, cel[i], Taken([own EXCEPT ![i] = NoOne], cel, own[i], Kind[i]))
             <=> /\ Span(i, cel[i]) \subseteq 0 .. Room[Kind[i]] - 1
                 /\ \A j \in Items : j # i /\ own[j] = own[i] /\ Kind[j] = Kind[i] =>
                      Span(i, cel[i]) \cap Span(j, cel[j]) = {}
  <2> DEFINE A == Span(i, cel[i])
             B == 0 .. Room[Kind[i]] - 1
             D == {k \in Items : k # i /\ own[k] = own[i] /\ Kind[k] = Kind[i]}
             T == UNION {Span(j, cel[j]) : j \in D}
  <2>1. FitsAt(i, cel[i], Taken([own EXCEPT ![i] = NoOne], cel, own[i], Kind[i]))
        <=> A \subseteq B \ T
    BY <1>1, <1>2 DEF FitsAt
  <2>2. A \subseteq B \ T <=> A \subseteq B /\ \A j \in D : A \cap Span(j, cel[j]) = {}
    <3> HIDE DEF A, B, D
    <3>1. QED
      OBVIOUS
  <2>3. QED
    BY <2>1, <2>2
<1>3. QED
  BY <1>2 DEF Apart, Inside

LEMMA DoneKeepsApart ==
  ASSUME NEW w \in Window,
         NEW own \in [Items -> Players \cup {NoOne}], NEW cel \in [Items -> Int],
         NEW q \in Players, NEW f \in Places(w, own, cel, q),
         Apart(own, cel), Inside(own, cel)
  PROVE  /\ Apart(Owners(own, w, f, q), Cells(cel, w, f))
         /\ Inside(Owners(own, w, f, q), Cells(cel, w, f))
<1> DEFINE own2 == Owners(own, w, f, q)
           cel2 == Cells(cel, w, f)
<1>1. ASSUME NEW n \in Slots, f[n] # NoCell
      PROVE  /\ w[n] \in Items
             /\ FitsAt(w[n], f[n], Taken(own, cel, q, Kind[w[n]]) \cup Given(w, f, n, Kind[w[n]]))
  <2>1. w[n] \in Items
    BY <1>1, MovedTyped
  <2>2. f[n] = FirstFit(w[n], Taken(own, cel, q, Kind[w[n]]) \cup Given(w, f, n, Kind[w[n]]))
    BY <2>1 DEF Places
  <2>3. QED
    BY <1>1, <2>1, <2>2, FirstFitTyped
\* Where an item is that was placed, and whose it is.
<1>2. ASSUME NEW i \in Moved(w, f), own2[i] # NoOne
      PROVE  /\ i \in Items /\ i \notin Cards /\ own2[i] = q
             /\ \E n \in Slots : /\ w[n] = i /\ f[n] # NoCell
                                 /\ \A l \in n + 1 .. MaxSlots : w[l] = i => f[l] = NoCell
                                 /\ cel2[i] = f[n]
  <2>1. i \in Items
    BY MovedTyped
  <2>2. i \notin Cards /\ own2[i] = q
    BY <1>2, <2>1 DEF Owners
  <2>3. QED
    BY <2>1, <2>2, CellsOf
<1>3. ASSUME NEW i \in Items, i \notin Moved(w, f)
      PROVE  cel2[i] = cel[i] /\ own2[i] = own[i]
  BY <1>3 DEF Cells, Owners
<1> HIDE DEF own2, cel2
\* An item that was placed, and one that stays.
<1>5. ASSUME NEW i \in Moved(w, f), own2[i] # NoOne, NEW j \in Items, j \notin Moved(w, f),
             own2[j] = q, Kind[j] = Kind[i]
      PROVE  Span(i, cel2[i]) \cap Span(j, cel2[j]) = {}
  <2>1. PICK n \in Slots : f[n] # NoCell /\ w[n] = i /\ cel2[i] = f[n]
    BY <1>2, <1>5
  <2>2. Span(j, cel[j]) \subseteq Taken(own, cel, q, Kind[i])
    BY <1>3, <1>5 DEF Taken
  <2>3. FitsAt(i, f[n], Taken(own, cel, q, Kind[i]) \cup Given(w, f, n, Kind[i]))
    BY <1>1, <2>1
  <2>4. QED
    BY <1>3, <1>5, <2>1, <2>2, <2>3 DEF FitsAt
\* Two items that were placed, the second later than the first came to its last place.
<1>6. ASSUME NEW n \in Slots, NEW m \in Slots, n < m, f[n] # NoCell, f[m] # NoCell,
             Kind[w[n]] = Kind[w[m]], w[n] \notin Cards,
             \A l \in n + 1 .. MaxSlots : w[l] = w[n] => f[l] = NoCell
      PROVE  Span(w[n], f[n]) \cap Span(w[m], f[m]) = {}
  <2>1. n \in 1 .. m - 1 /\ \A l \in n + 1 .. m - 1 : l \in n + 1 .. MaxSlots
    BY <1>6 DEF Slots
  <2>2. n \in {j \in 1 .. m - 1 :
                /\ f[j] # NoCell /\ Kind[w[j]] = Kind[w[m]] /\ w[j] \notin Cards
                /\ \A l \in j + 1 .. m - 1 : w[l] = w[j] => f[l] = NoCell}
    BY <1>6, <2>1
  <2>3. Span(w[n], f[n]) \subseteq Given(w, f, m, Kind[w[m]])
    BY <2>2 DEF Given
  <2>4. QED
    BY <1>1, <1>6, <2>3 DEF FitsAt
<1>7. Apart(own2, cel2)
  <2>1. ASSUME NEW i \in Items, NEW j \in Items, i # j, own2[i] # NoOne,
               own2[j] = own2[i], Kind[j] = Kind[i]
        PROVE  Span(i, cel2[i]) \cap Span(j, cel2[j]) = {}
    <3>1. CASE i \in Moved(w, f) /\ j \in Moved(w, f)
      <4>1. PICK n \in Slots : /\ w[n] = i /\ f[n] # NoCell /\ i \notin Cards
                               /\ \A l \in n + 1 .. MaxSlots : w[l] = i => f[l] = NoCell
                               /\ cel2[i] = f[n]
        BY <1>2, <2>1, <3>1
      <4>2. PICK m \in Slots : /\ w[m] = j /\ f[m] # NoCell /\ j \notin Cards
                               /\ \A l \in m + 1 .. MaxSlots : w[l] = j => f[l] = NoCell
                               /\ cel2[j] = f[m]
        BY <1>2, <2>1, <3>1
      <4>3. n < m \/ m < n
        BY <2>1, <4>1, <4>2 DEF Slots
      <4>4. CASE n < m
        BY <1>6, <2>1, <4>1, <4>2, <4>4
      <4>5. CASE m < n
        BY <1>6, <2>1, <4>1, <4>2, <4>5
      <4>6. QED
        BY <4>3, <4>4, <4>5
    <3>2. CASE i \in Moved(w, f) /\ j \notin Moved(w, f)
      <4>1. own2[i] = q
        BY <1>2, <2>1, <3>2
      <4>2. QED
        BY <1>5, <2>1, <3>2, <4>1
    <3>3. CASE i \notin Moved(w, f) /\ j \in Moved(w, f)
      <4>1. own2[j] = q
        BY <1>2, <2>1, <3>3
      <4>2. Span(j, cel2[j]) \cap Span(i, cel2[i]) = {}
        BY <1>5, <2>1, <3>3, <4>1
      <4>3. QED
        BY <4>2
    <3>4. CASE i \notin Moved(w, f) /\ j \notin Moved(w, f)
      BY <1>3, <2>1, <3>4 DEF Apart
    <3>5. QED
      BY <3>1, <3>2, <3>3, <3>4
  <2>2. QED
    BY Zenon, <2>1 DEF Apart
<1>8. Inside(own2, cel2)
  <2>1. ASSUME NEW i \in Items, own2[i] # NoOne
        PROVE  Span(i, cel2[i]) \subseteq 0 .. Room[Kind[i]] - 1
    <3>1. CASE i \in Moved(w, f)
      <4>1. PICK n \in Slots : f[n] # NoCell /\ w[n] = i /\ cel2[i] = f[n]
        BY <1>2, <2>1, <3>1
      <4>2. QED
        BY <1>1, <4>1 DEF FitsAt
    <3>2. CASE i \notin Moved(w, f)
      BY <1>3, <2>1, <3>2 DEF Inside
    <3>3. QED
      BY <3>1, <3>2
  <2>2. QED
    BY Zenon, <2>1 DEF Inside
<1>9. QED
  BY <1>7, <1>8 DEF own2, cel2

LEMMA NoOverlapParts == TypeOK => (NoOverlap <=> Apart(owner, cell) /\ Inside(owner, cell))
  BY OverlapParts DEF TypeOK, NoOverlap

LEMMA NoOverlapPartsNext ==
  TypeOK' => (NoOverlap' <=> Apart(owner', cell') /\ Inside(owner', cell'))
  BY OverlapParts DEF TypeOK, NoOverlap

LEMMA HandOverApart ==
  ASSUME Inv, NoOverlap, NEW p \in Players, company[p] # NoOne,
         HandOver(p, company[p])
  PROVE  Apart(owner', cell') /\ Inside(owner', cell')
<1> DEFINE q == company[p]
<1>1. /\ owner \in [Items -> Players \cup {NoOne}] /\ cell \in [Items -> Int]
      /\ Apart(owner, cell) /\ Inside(owner, cell)
  BY NoOverlapParts DEF Inv, TypeOK
<1>2. q \in Players /\ Held(p) \in Window /\ Held(q) \in Window
  BY CompanyTyped, HeldTyped DEF Window
<1>3. PICK f \in Places(Held(p), owner, cell, q) :
        LET own == Owners(owner, Held(p), f, q)
            cel == Cells(cell, Held(p), f)
        IN \E h \in Places(Held(q), own, cel, p) :
             /\ owner' = Owners(own, Held(q), h, p)
             /\ cell' = Cells(cel, Held(q), h)
             /\ gold' = Pay(Pay(gold, p, q, offer[p]), q, p, offer[q])
  BY Zenon DEF HandOver
<1> DEFINE own == Owners(owner, Held(p), f, q)
           cel == Cells(cell, Held(p), f)
<1>4. PICK h \in Places(Held(q), own, cel, p) :
        owner' = Owners(own, Held(q), h, p) /\ cell' = Cells(cel, Held(q), h)
  BY Zenon, <1>3
<1>5. own \in [Items -> Players \cup {NoOne}] /\ cel \in [Items -> Int]
  BY <1>1, <1>2, CellsTyped DEF Owners
<1>6. Apart(own, cel) /\ Inside(own, cel)
  BY <1>1, <1>2, DoneKeepsApart
<1> HIDE DEF own, cel
<1>7. QED
  BY <1>1, <1>2, <1>4, <1>5, <1>6, DoneKeepsApart

\* An item that comes to a free place keeps them apart.
LEMMA PlacedApart ==
  ASSUME Apart(owner, cell), Inside(owner, cell), NEW i \in Items, NEW p \in Players, NEW c,
         \A j \in Items : owner'[j] = (IF j = i THEN p ELSE owner[j]),
         \A j \in Items : cell'[j] = (IF j = i THEN c ELSE cell[j]),
         NEW taken, FitsAt(i, c, taken),
         \A j \in Items : j # i /\ owner[j] = p /\ Kind[j] = Kind[i] => Span(j, cell[j]) \subseteq taken
  PROVE  Apart(owner', cell') /\ Inside(owner', cell')
<1>1. \A j \in Items : j # i /\ owner[j] = p /\ Kind[j] = Kind[i] =>
        Span(j, cell[j]) \cap Span(i, c) = {}
  BY DEF FitsAt
<1>2. Span(i, c) \subseteq 0 .. Room[Kind[i]] - 1
  BY DEF FitsAt
<1>3. Apart(owner', cell')
  <2>1. ASSUME NEW j \in Items, NEW k \in Items, j # k, owner'[j] # NoOne,
               owner'[k] = owner'[j], Kind[k] = Kind[j]
        PROVE  Span(j, cell'[j]) \cap Span(k, cell'[k]) = {}
    <3>1. CASE j = i
      BY <1>1, <2>1, <3>1
    <3>2. CASE k = i
      BY <1>1, <2>1, <3>2
    <3>3. CASE j # i /\ k # i
      BY <2>1, <3>3 DEF Apart
    <3>4. QED
      BY <3>1, <3>2, <3>3
  <2>2. QED
    BY Zenon, <2>1 DEF Apart
<1>4. Inside(owner', cell')
  BY <1>2 DEF Inside
<1>5. QED
  BY <1>3, <1>4

LEMMA NextNoOverlap == Inv /\ NoOverlap /\ [Next]_vars => NoOverlap'
<1> SUFFICES ASSUME Inv, NoOverlap, [Next]_vars PROVE NoOverlap'
  OBVIOUS
<1>1. /\ Apart(owner, cell) /\ Inside(owner, cell)
      /\ (NoOverlap' <=> Apart(owner', cell') /\ Inside(owner', cell'))
      /\ owner \in [Items -> Players \cup {NoOne}] /\ cell \in [Items -> Int]
  BY NextInv, NoOverlapParts, NoOverlapPartsNext DEF Inv, TypeOK
<1>2. ASSUME owner' = owner, cell' = cell PROVE NoOverlap'
  BY <1>1, <1>2
<1>3. ASSUME NEW p \in Players, NEW i \in Items, NEW c \in 0 .. Room[Kind[i]] - 1,
             MoveItem(p, i, c)
      PROVE  NoOverlap'
  <2> DEFINE taken == Taken([owner EXCEPT ![i] = NoOne], cell, p, Kind[i])
  <2>1. /\ owner[i] = p /\ cell' = [cell EXCEPT ![i] = c] /\ owner' = owner
        /\ FitsAt(i, c, taken)
    BY <1>3 DEF MoveItem
  <2>2. \A j \in Items : j # i /\ owner[j] = p /\ Kind[j] = Kind[i] => Span(j, cell[j]) \subseteq taken
    BY <1>1 DEF Taken
  <2>3. /\ \A j \in Items : owner'[j] = (IF j = i THEN p ELSE owner[j])
        /\ \A j \in Items : cell'[j] = (IF j = i THEN c ELSE cell[j])
    BY <1>1, <2>1
  <2>4. FitsAt(i, c, taken) /\ Apart(owner, cell) /\ Inside(owner, cell)
    BY <1>1, <2>1
  <2> HIDE DEF taken
  <2>5. Apart(owner', cell') /\ Inside(owner', cell')
    BY <2>2, <2>3, <2>4, PlacedApart
  <2>6. QED
    BY <1>1, <2>5
<1>4. ASSUME NEW i \in Items, DestroyItem(i) PROVE NoOverlap'
  <2>1. cell' = cell /\ \A j \in Items : owner'[j] = IF j = i THEN NoOne ELSE owner[j]
    BY <1>1, <1>4 DEF DestroyItem
  <2>2. Apart(owner', cell') /\ Inside(owner', cell')
    BY <1>1, <2>1 DEF Apart, Inside
  <2>3. QED
    BY <1>1, <2>2
<1>5. ASSUME NEW p \in Players, NEW i \in Items, CreateItem(p, i) PROVE NoOverlap'
  <2> DEFINE taken == Taken(owner, cell, p, Kind[i])
             c == FirstFit(i, taken)
  <2>1. c # NoCell /\ cell' = [cell EXCEPT ![i] = c] /\ owner' = [owner EXCEPT ![i] = p]
    BY <1>5 DEF CreateItem
  <2>2. FitsAt(i, c, taken)
    BY <2>1, FirstFitTyped
  <2>3. \A j \in Items : owner[j] = p /\ Kind[j] = Kind[i] => Span(j, cell[j]) \subseteq taken
    BY DEF Taken
  <2> HIDE DEF taken, c
  <2>4. /\ \A j \in Items : owner'[j] = (IF j = i THEN p ELSE owner[j])
        /\ \A j \in Items : cell'[j] = (IF j = i THEN c ELSE cell[j])
    BY <1>1, <2>1
  <2>5. QED
    BY <1>1, <2>2, <2>3, <2>4, PlacedApart
<1>6. ASSUME NEW p \in Players, AcceptSecond(p) PROVE NoOverlap'
  <2>1. CASE UNCHANGED itemVars
    BY <1>2, <2>1 DEF itemVars
  <2>2. CASE HandOver(p, company[p])
    BY <1>1, <1>6, <2>2, HandOverApart DEF AcceptSecond, BothAgree
  <2>3. QED
    BY <1>6, <2>1, <2>2 DEF AcceptSecond
<1>7. ASSUME NEW p \in Players,
             \/ \E q \in Players : ExchangeStart(p, q)
             \/ \E i \in Items : AddItem(p, i) \/ AddItemToFull(p, i)
             \/ \E n \in Slots : RemoveItem(p, n)
             \/ \E x \in Gold : AddGold(p, x)
             \/ AcceptFirst(p) \/ Cancel(p) \/ Earn(p) \/ Spend(p)
      PROVE  NoOverlap'
  <2>1. owner' = owner /\ cell' = cell
    BY <1>7 DEF ExchangeStart, AddItem, AddItemToFull, RemoveItem, AddGold, AcceptFirst,
       Cancel, Earn, Spend, itemVars
  <2>2. QED
    BY <1>2, <2>1
<1>8. CASE UNCHANGED vars
  BY <1>2, <1>8 DEF vars
<1>9. QED
  BY <1>3, <1>4, <1>5, <1>6, <1>7, <1>8 DEF Next

\* No two items of a player share a cell of an inventory, and none reaches past
\* its end, whatever is traded, moved and created (CHARACTER::GetEmptyInventory,
\* CExchange::Done), in inventories and with items of any size.
THEOREM ItemsStayApart == Spec => []NoOverlap
<1>1. Init => NoOverlap
  <2>1. ASSUME Init PROVE NoOverlap
    <3>1. PICK s \in Starts : owner = s.owner /\ cell = s.cell
      BY <2>1 DEF Init
    <3>2. QED
      BY <3>1, StartsFitAssumption DEF NoOverlap
  <2>2. QED
    BY <2>1
<1>2. QED
  BY <1>1, InitInv, NextInv, NextNoOverlap, PTL DEF Spec

-----------------------------------------------------------------------------
(* The first plain item and the first soul arrive.                         *)

LEMMA FirstFitFinds ==
  ASSUME NEW i \in Items, NEW taken,
         NEW c \in 0 .. Room[Kind[i]] - 1, FitsAt(i, c, taken)
  PROVE  FirstFit(i, taken) # NoCell
<1> DEFINE S == {d \in 0 .. Room[Kind[i]] - 1 : FitsAt(i, d, taken)}
<1>1. S # {} /\ S \subseteq Nat
  OBVIOUS
<1>2. PICK e \in S : \A d \in S : <<d, e>> \notin OpToRel(<, Nat)
  BY <1>1, NatLessThanWellFounded, WFMin
<1>3. \A d \in S : ~(d < e)
  BY <1>1, <1>2 DEF OpToRel
<1>4. /\ e \in 0 .. Room[Kind[i]] - 1 /\ FitsAt(i, e, taken)
      /\ \A d \in 0 .. e - 1 : ~FitsAt(i, d, taken)
  BY <1>3
<1>5. FirstFit(i, taken) \in 0 .. Room[Kind[i]] - 1
  BY <1>4 DEF FirstFit
<1>6. QED
  BY <1>5 DEF NoCell

\* What has a place keeps one when cells become free.
LEMMA MoreRoom ==
  ASSUME NEW i \in Items, NEW taken, NEW less, less \subseteq taken,
         FirstFit(i, taken) # NoCell
  PROVE  FirstFit(i, less) # NoCell
<1>1. PICK c \in 0 .. Room[Kind[i]] - 1 : FitsAt(i, c, taken)
  BY DEF FirstFit
<1>2. FitsAt(i, c, less)
  BY <1>1 DEF FitsAt
<1>3. QED
  BY <1>2, FirstFitFinds

\* Nothing is given before the first item of its kind that could take its place.
LEMMA FirstPlaced ==
  ASSUME NEW w \in Window, NEW own, NEW cel, NEW q,
         NEW f \in Places(w, own, cel, q), NEW n \in Slots, FirstOf(w, n)
  PROVE  /\ w[n] \in Items /\ w[n] \notin Cards
         /\ f[n] = FirstFit(w[n], Taken(own, cel, q, Kind[w[n]]))
<1>1. w[n] # NoItem /\ w[n] \in Items /\ w[n] \notin Cards
  BY DEF FirstOf, Window
<1>2. \A m \in 1 .. n - 1 : m \in Slots /\ (f[m] # NoCell => w[m] # NoItem)
  <2>1. \A m \in 1 .. n - 1 : m \in Slots
    BY DEF Slots
  <2>2. \A m \in Slots : w[m] = NoItem => f[m] = NoCell
    BY DEF Places
  <2>3. QED
    BY <2>1, <2>2
<1> DEFINE k == Kind[w[n]]
<1>3. \A j \in 1 .. n - 1 : ~(f[j] # NoCell /\ Kind[w[j]] = k /\ w[j] \notin Cards)
  BY <1>2 DEF FirstOf
<1> HIDE DEF k
<1>4. Given(w, f, n, k) = {}
  BY <1>3 DEF Given
<1>5. f[n] = FirstFit(w[n], Taken(own, cel, q, k) \cup Given(w, f, n, k))
  BY <1>1 DEF Places, k
<1>6. QED
  BY <1>1, <1>4, <1>5 DEF k

\* CheckSpace has found a place for the first item of its kind.
LEMMA FirstFits ==
  ASSUME NEW p \in Players, NEW q \in Players, CheckSpace(p, q),
         NEW n \in Slots, FirstOf(Held(p), n)
  PROVE  FirstFit(Held(p)[n], Taken(owner, cell, q, Kind[Held(p)[n]])) # NoCell
<1> DEFINE w == Held(p)
           i == Held(p)[n]
           k == Kind[Held(p)[n]]
<1>1. w \in Window
  BY HeldTyped DEF Window
<1>2. i # NoItem /\ i \in Items /\ k # "book" /\ k \in Kinds
  BY <1>1 DEF FirstOf, Window
<1>3. PICK f \in Foreseen(w, q) : \A m \in Slots : w[m] # NoItem =>
        /\ Kind[w[m]] = "plain" => f[m] # NoCell
        /\ Kind[w[m]] = "soul"  => f[m] = 0
  BY Zenon DEF CheckSpace
<1>4. f[n] # NoCell
  <2>1. k = "plain" \/ k = "soul"
    BY <1>2 DEF Kinds
  <2>2. QED
    BY <1>2, <1>3, <2>1 DEF NoCell
<1>5. f[n] = FirstFit(i, Taken(owner, cell, q, k) \cup Counted(w, f, n, k))
  BY <1>2 DEF Foreseen
<1> HIDE DEF w, i, k
<1>6. FirstFit(i, Taken(owner, cell, q, k)) # NoCell
  BY <1>2, <1>4, <1>5, MoreRoom
<1>7. QED
  BY <1>6 DEF i, k

\* Serving p takes items from p and leaves the others where they are.
LEMMA ServingMakesRoom ==
  ASSUME NEW w, NEW f, NEW p \in Players, NEW q, p # q, NEW k
  PROVE  Taken(Owners(owner, w, f, q), Cells(cell, w, f), p, k)
           \subseteq Taken(owner, cell, p, k)
<1> DEFINE own == Owners(owner, w, f, q)
           cel == Cells(cell, w, f)
<1>1. ASSUME NEW i \in Items, own[i] = p
      PROVE  owner[i] = p /\ cel[i] = cell[i]
  <2>1. i \notin Moved(w, f)
    BY <1>1 DEF Owners
  <2>2. QED
    BY <1>1, <2>1 DEF Owners, Cells
<1> HIDE DEF own, cel
<1>2. Taken(own, cel, p, k) \subseteq Taken(owner, cell, p, k)
  BY <1>1 DEF Taken
<1>3. QED
  BY <1>2 DEF own, cel

\* Both sides get the first item of each kind of the other.
LEMMA HandOverGivesFirst ==
  ASSUME Inv, NEW p \in Players, company[p] # NoOne,
         Ready(p, company[p]), HandOver(p, company[p]),
         NEW n \in Slots
  PROVE  /\ FirstOf(Held(p), n) => owner'[Held(p)[n]] = company[p]
         /\ FirstOf(Held(company[p]), n) => owner'[Held(company[p])[n]] = p
<1> DEFINE q == company[p]
<1>1. q \in Players /\ q # p
  BY CompanyTyped
<1>2. Held(p) \in Window /\ Held(q) \in Window
  BY HeldTyped DEF Window
<1>3. Check(p) /\ Check(q) /\ CheckSpace(p, q) /\ CheckSpace(q, p)
  BY DEF Ready
<1>4. PICK f \in Places(Held(p), owner, cell, q) :
        LET own == Owners(owner, Held(p), f, q)
            cel == Cells(cell, Held(p), f)
        IN \E h \in Places(Held(q), own, cel, p) :
             /\ owner' = Owners(own, Held(q), h, p)
             /\ cell' = Cells(cel, Held(q), h)
             /\ gold' = Pay(Pay(gold, p, q, offer[p]), q, p, offer[q])
  BY Zenon DEF HandOver
<1> DEFINE own == Owners(owner, Held(p), f, q)
           cel == Cells(cell, Held(p), f)
<1>5. PICK h \in Places(Held(q), own, cel, p) : owner' = Owners(own, Held(q), h, p)
  BY Zenon, <1>4
<1>6. ASSUME FirstOf(Held(p), n) PROVE owner'[Held(p)[n]] = q
  <2> DEFINE i == Held(p)[n]
  <2>1. /\ i \in Items /\ i # NoItem /\ i \notin Cards
        /\ f[n] = FirstFit(i, Taken(owner, cell, q, Kind[i]))
    BY <1>2, <1>6, FirstPlaced DEF FirstOf
  <2>2. f[n] # NoCell
    BY <1>1, <1>3, <1>6, <2>1, FirstFits
  <2>3. own[i] = q
    BY <2>1, <2>2 DEF Owners, Moved
  <2>4. i \notin Moved(Held(q), h)
    <3>1. owner[i] = p
      BY <1>3, <2>1, HeldOwned
    <3>2. \A j \in Moved(Held(q), h) : j \in Items /\ \E m \in Slots : Held(q)[m] = j
      BY <1>2, MovedTyped
    <3>3. \A j \in Moved(Held(q), h) : owner[j] = q
      BY <1>1, <1>3, <3>2, HeldOwned
    <3>4. QED
      BY <1>1, <3>1, <3>3
  <2> HIDE DEF own
  <2>5. QED
    BY <1>5, <2>1, <2>3, <2>4 DEF Owners
<1>7. ASSUME FirstOf(Held(q), n) PROVE owner'[Held(q)[n]] = p
  <2> DEFINE i == Held(q)[n]
  <2>1. /\ i \in Items /\ i # NoItem /\ i \notin Cards
        /\ h[n] = FirstFit(i, Taken(own, cel, p, Kind[i]))
    BY <1>2, <1>7, FirstPlaced DEF FirstOf
  <2>2. FirstFit(i, Taken(owner, cell, p, Kind[i])) # NoCell
    BY <1>1, <1>3, <1>7, FirstFits
  <2>3. Taken(own, cel, p, Kind[i]) \subseteq Taken(owner, cell, p, Kind[i])
    BY <1>1, ServingMakesRoom
  <2> HIDE DEF own, cel
  <2>4. h[n] # NoCell
    BY <2>1, <2>2, <2>3, MoreRoom
  <2>5. QED
    BY <1>5, <2>1, <2>4 DEF Owners, Moved
<1>8. QED
  BY <1>6, <1>7

\* A trade that goes through hands over the first plain item and the first soul of
\* each side, cards aside (CExchange::CheckSpace, then CExchange::Done for the one
\* and for the other).
THEOREM FirstItemsArrive == Spec => FirstItemArrives
<1>1. ASSUME Inv, [Next]_vars, NEW i \in Items,
             owner[i] # NoOne, owner'[i] \notin {owner[i], NoOne},
             NEW r \in {owner[i], company[owner[i]]}, NEW n \in Slots,
             FirstOf(Held(r), n)
      PROVE  owner'[Held(r)[n]] = company[r]
  <2>1. PICK p \in Players : /\ AcceptSecond(p)
                             /\ Ready(p, company[p]) /\ HandOver(p, company[p])
    BY <1>1, OnlyTradesMove
  <2>2. company[p] # NoOne
    BY <2>1 DEF AcceptSecond, BothAgree
  <2>3. company[company[p]] = p
    BY <1>1, <2>2, CompanyTyped
  <2>4. owner[i] \in {p, company[p]}
    BY <1>1, <2>1, <2>2, HandOverTyped DEF Ready
  <2>5. r \in {p, company[p]}
    BY <1>1, <2>3, <2>4
  <2>6. QED
    BY <1>1, <2>1, <2>2, <2>3, <2>5, HandOverGivesFirst
<1>2. Inv /\ [Next]_vars =>
        [\A i \in Items : owner[i] # NoOne /\ owner'[i] \notin {owner[i], NoOne} =>
           \A p \in {owner[i], company[owner[i]]} : \A n \in Slots :
             FirstOf(Held(p), n) => owner'[Held(p)[n]] = company[p]]_vars
  BY <1>1
<1>3. QED
  BY <1>2, InitInv, NextInv, PTL DEF Spec, FirstItemArrives
=============================================================================
