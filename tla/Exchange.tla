------------------------------ MODULE Exchange ------------------------------
(***************************************************************************)
(* Trade between two players (CExchange and CInputMain::Exchange).         *)
(*                                                                         *)
(* Two characters open a window each; company[p] is the other side.  A     *)
(* player puts items and gold into its window and accepts; when both have  *)
(* accepted, everything is checked again and then handed over, one side    *)
(* after the other.  An inventory is a grid of cells per kind of item in   *)
(* which an item takes Size[i] cells of one column; "book" stands for the  *)
(* kinds with an inventory of their own (skill books, upgrade items,       *)
(* stones, gift boxes), "soul" for a box of the dragon soul inventory.     *)
(*                                                                         *)
(* A window keeps raw pointers.  Items are identities here, and Mem[i] is  *)
(* the memory that CItem i has while it lives; a pointer to a destroyed    *)
(* item leads to whatever item has that memory now (Here).                 *)
(***************************************************************************)
EXTENDS Integers, FiniteSets

CONSTANTS
  Players,
  Items,
  NoOne,       \* no company (NULL), no owner
  NoItem,      \* an empty place of a window
  MaxSlots,    \* EXCHANGE_ITEM_MAX_NUM
  Cols,        \* columns of an inventory page
  Room,        \* [Kinds -> number of cells of that inventory]
  Kind,        \* [Items -> Kinds]
  Size,        \* [Items -> cells an item takes]
  Cards,       \* the items with the vnums 90008 and 90009 (VCARD)
  Mem,         \* [Items -> address of the CItem]
  GoldMax,     \* GOLD_MAX
  Starts       \* who has what, and where, at first, and which items are to come

Kinds == {"plain", "book", "soul"}
Slots == 1 .. MaxSlots
Gold  == 0 .. GoldMax - 1

ASSUME SlotsAssumption == MaxSlots \in Nat /\ Cols \in Nat \ {0} /\ GoldMax \in Nat \ {0}
ASSUME NamesAssumption == NoOne \notin Players /\ NoItem \notin Items
ASSUME GridAssumption ==
  /\ Room \in [Kinds -> Nat]
  /\ Kind \in [Items -> Kinds]
  /\ Size \in [Items -> Nat \ {0}]
  /\ Cards \subseteq Items
\* The dragon soul grids count the cells below an item in a BYTE
\* (CHARACTER::IsEmptyItemGrid): they are made for items of one cell.
ASSUME SoulAssumption == \A i \in Items : Kind[i] = "soul" => Size[i] = 1
ASSUME StartsAssumption ==
  \A s \in Starts :
    /\ s.owner \in [Items -> Players \cup {NoOne}]
    /\ s.cell \in [Items -> Nat]
    /\ s.gold \in [Players -> Gold]
    /\ s.unborn \subseteq {i \in Items : s.owner[i] = NoOne}
    /\ \A i, j \in Items : i # j /\ NoOne \notin {s.owner[i], s.owner[j]} => Mem[i] # Mem[j]

VARIABLES
  owner,       \* CItem::m_pOwner; NoOne: the item does not exist
  unborn,      \* the items that are still to be created (history)
  cell,        \* CItem::m_wCell
  exchanging,  \* the items with CItem::m_bExchanging
  gold,        \* CHARACTER::GetGold
  company,     \* m_pkExchange and its m_pCompany
  slots,       \* m_apItems with m_aItemPos
  offer,       \* m_lGold
  accept,      \* the players whose window has m_bAccept
  seen,        \* what a player saw on the other side when it accepted (history)
  aliased      \* the items made in memory a window still pointed to (history)

itemVars   == <<owner, cell, gold>>
windowVars == <<company, slots, offer>>
birthVars  == <<unborn, aliased>>
vars == <<owner, unborn, cell, exchanging, gold, company, slots, offer, accept, seen, aliased>>

-----------------------------------------------------------------------------
(* Windows.                                                                *)

NoSlot    == [item |-> NoItem, pos |-> 0]
EmptySlots == [n \in Slots |-> NoSlot]
SlotItems(s) == {s[n].item : n \in Slots} \ {NoItem}

Offer(p) == [slots |-> slots[p], gold |-> offer[p]]
NoOffer  == [slots |-> EmptySlots, gold |-> 0]

\* The item a pointer to x leads to, if there is one.
Here(x) == {i \in Items : x # NoItem /\ owner[i] # NoOne /\ Mem[i] = Mem[x]}

\* What the pointers of p's window lead to.
Held(p) ==
  [n \in Slots |-> LET h == Here(slots[p][n].item)
                   IN IF h = {} THEN NoItem ELSE CHOOSE i \in h : TRUE]

(* Inventories.                                                            *)

Span(i, c) == {c + Cols * k : k \in 0 .. Size[i] - 1}

\* The cells of q's inventory of kind k that are taken.
Taken(own, cel, q, k) ==
  UNION {Span(i, cel[i]) : i \in {j \in Items : own[j] = q /\ Kind[j] = k}}

FitsAt(i, c, taken) == Span(i, c) \subseteq (0 .. Room[Kind[i]] - 1) \ taken

NoCell == -1

\* GetEmptyInventory and CGrid::FindBlank: the first cell, row by row.
FirstFit(i, taken) ==
  IF \E c \in 0 .. Room[Kind[i]] - 1 : FitsAt(i, c, taken)
  THEN CHOOSE c \in 0 .. Room[Kind[i]] - 1 :
         /\ FitsAt(i, c, taken)
         /\ \A d \in 0 .. c - 1 : ~FitsAt(i, d, taken)
  ELSE NoCell

\* Operators named X_Y are X with one change, a bug that X does not have; no
\* other definition uses them.

\* The cells that the slots of w before slot n got.  A card takes none, and what a
\* window holds twice leaves its first place for the second.
Given_None(w, f, n, k) == {}
Given(w, f, n, k) ==
  UNION {Span(w[m], f[m]) :
           m \in {j \in 1 .. n - 1 :
                   /\ f[j] # NoCell /\ Kind[w[j]] = k /\ w[j] \notin Cards
                   /\ \A l \in j + 1 .. n - 1 : w[l] = w[j] => f[l] = NoCell}}

\* CheckSpace counts all of them.
Counted(w, f, n, k) ==
  UNION {Span(w[m], f[m]) : m \in {j \in 1 .. n - 1 : f[j] # NoCell /\ Kind[w[j]] = k}}

SomeCell ==
  {NoCell} \cup {c \in 0 .. Room["plain"] + Room["book"] + Room["soul"] :
                 \E k \in Kinds : c < Room[k]}

\* Where the items w go in q's inventory: one after the other, each to the first
\* place that is free by then.  There is exactly one such f.
Places(w, own, cel, q) ==
  {f \in [Slots -> SomeCell] :
     \A n \in Slots :
       f[n] = IF w[n] = NoItem THEN NoCell
              ELSE LET k == Kind[w[n]] IN
                     FirstFit(w[n], Taken(own, cel, q, k) \cup Given(w, f, n, k))}

\* The same as CheckSpace foresees it.
Foreseen(w, q) ==
  {f \in [Slots -> SomeCell] :
     \A n \in Slots :
       f[n] = IF w[n] = NoItem THEN NoCell
              ELSE LET k == Kind[w[n]] IN
                     FirstFit(w[n], Taken(owner, cell, q, k) \cup Counted(w, f, n, k))}

\* CheckSpace: a plain item without a place refuses the trade, and so does a soul
\* whose box is taken in its first cell, the only one the loop looks at; a book does
\* not.  That a player may lack DragonSoul_IsQualified is left to AcceptSecond, which
\* may refuse any trade.
CheckSpace(p, q) ==
  LET w == Held(p) IN
    \E f \in Foreseen(w, q) : \A n \in Slots : w[n] # NoItem =>
      /\ Kind[w[n]] = "plain" => f[n] # NoCell
      /\ Kind[w[n]] = "soul"  => f[n] = 0

\* Check: the gold is there, and every pointer of the window is the one of the item
\* in the cell it was put in from.
HasItems(p) ==
  \A n \in Slots : slots[p][n].item # NoItem =>
    \E i \in Here(slots[p][n].item) :
      /\ owner[i] = p
      /\ Kind[i] = Kind[slots[p][n].item] /\ cell[i] = slots[p][n].pos

Check_NoGold(p)  == HasItems(p)
Check(p) == offer[p] <= gold[p] /\ HasItems(p)

\* The effect of Done on owners and cells, for the places f; an item without a
\* place is skipped, and a card is used up (VCardUse).
Moved(w, f) == {w[n] : n \in {m \in Slots : f[m] # NoCell}}

Owners(own, w, f, q) ==
  [i \in Items |-> IF i \notin Moved(w, f) THEN own[i] ELSE IF i \in Cards THEN NoOne ELSE q]
Cells(cel, w, f) ==
  [i \in Items |-> IF i \in Moved(w, f)
                   THEN f[CHOOSE n \in Slots :
                            /\ w[n] = i /\ f[n] # NoCell
                            /\ \A m \in n + 1 .. MaxSlots : w[m] = i => f[m] = NoCell]
                   ELSE cel[i]]

\* PointChange(POINT_GOLD) for the giver, then for the receiver, who gets
\* nothing when the sum reaches GOLD_MAX.
Pay(g, p, q, x) ==
  [r \in Players |-> IF r = p THEN g[r] - x
                     ELSE IF r = q /\ g[r] + x < GoldMax THEN g[r] + x
                     ELSE g[r]]

-----------------------------------------------------------------------------
Slot == [item : Items, pos : Int] \cup {NoSlot}

TypeOK ==
  /\ owner \in [Items -> Players \cup {NoOne}]
  /\ cell \in [Items -> Int]
  /\ exchanging \in SUBSET Items
  /\ gold \in [Players -> Gold]
  /\ company \in [Players -> Players \cup {NoOne}]
  /\ slots \in [Players -> [Slots -> Slot]]
  /\ offer \in [Players -> Gold]
  /\ accept \in SUBSET Players
  /\ seen \in [Players -> [slots : [Slots -> Slot], gold : Gold]]
  /\ unborn \in SUBSET Items /\ aliased \in SUBSET Items

ASSUME StartsFitAssumption ==
  \A s \in Starts : \A i \in Items : s.owner[i] # NoOne =>
    FitsAt(i, s.cell[i], Taken([s.owner EXCEPT ![i] = NoOne], s.cell, s.owner[i], Kind[i]))

Init ==
  /\ \E s \in Starts :
       owner = s.owner /\ cell = s.cell /\ gold = s.gold /\ unborn = s.unborn
  /\ exchanging = {}
  /\ aliased = {}
  /\ company = [p \in Players |-> NoOne]
  /\ slots = [p \in Players |-> EmptySlots]
  /\ offer = [p \in Players |-> 0]
  /\ accept = {}
  /\ seen = [p \in Players |-> NoOffer]

\* CHARACTER::ExchangeStart, for two who have no other window open.
ExchangeStart(p, q) ==
  /\ p # q
  /\ company[p] = NoOne /\ company[q] = NoOne
  /\ company' = [r \in Players |-> IF r = p THEN q ELSE IF r = q THEN p ELSE company[r]]
  /\ UNCHANGED <<itemVars, birthVars, exchanging, slots, offer, accept, seen>>

\* A player may change its offer while the other side has not accepted; that
\* takes its own acceptance back (and the other's, which there is none of).
Reopen(p) ==
  /\ company[p] \notin accept
  /\ accept' = accept \ {p, company[p]}
  /\ seen' = [r \in Players |-> IF r \in {p, company[p]} THEN NoOffer ELSE seen[r]]

AddItem(p, i) ==
  /\ company[p] # NoOne
  /\ owner[i] = p
  /\ i \notin exchanging
  /\ Reopen(p)
  /\ \E n \in Slots :
       /\ slots[p][n] = NoSlot
       /\ \A m \in 1 .. n - 1 : slots[p][m] # NoSlot
       /\ slots' = [slots EXCEPT ![p] = [@ EXCEPT ![n] = [item |-> i, pos |-> cell[i]]]]
  /\ exchanging' = exchanging \cup {i}
  /\ UNCHANGED <<itemVars, birthVars, company, offer>>

\* AddItem finds no place in the window, after it took the acceptances back.
AddItemToFull(p, i) ==
  /\ company[p] # NoOne
  /\ owner[i] = p
  /\ i \notin exchanging
  /\ Reopen(p)
  /\ \A n \in Slots : slots[p][n] # NoSlot
  /\ UNCHANGED <<itemVars, birthVars, exchanging, windowVars>>

RemoveItem(p, n) ==
  /\ company[p] # NoOne
  /\ slots[p][n] # NoSlot
  /\ Reopen(p)
  /\ exchanging' = exchanging \ Here(slots[p][n].item)
  /\ slots' = [slots EXCEPT ![p] = [@ EXCEPT ![n] = NoSlot]]
  /\ UNCHANGED <<itemVars, birthVars, company, offer>>

\* AddGold and its test in CInputMain: what the other side has and the offer
\* stay below GOLD_MAX; an offer is not changed (LC_IsEurope).
AddGold(p, x) ==
  /\ company[p] # NoOne
  /\ x > 0 /\ x <= gold[p]
  /\ gold[company[p]] + x < GoldMax
  /\ offer[p] = 0
  /\ Reopen(p)
  /\ offer' = [offer EXCEPT ![p] = x]
  /\ UNCHANGED <<itemVars, birthVars, exchanging, company, slots>>

\* Cancel: both windows close and the items their pointers lead to are free again.
Freed_Own(p) == UNION {Here(i) : i \in SlotItems(slots[p])}
Freed(p) == UNION {Here(i) : i \in SlotItems(slots[p]) \cup SlotItems(slots[company[p]])}

Close(p) ==
  LET pair == {p, company[p]} IN
    /\ company' = [r \in Players |-> IF r \in pair THEN NoOne ELSE company[r]]
    /\ slots' = [r \in Players |-> IF r \in pair THEN EmptySlots ELSE slots[r]]
    /\ offer' = [r \in Players |-> IF r \in pair THEN 0 ELSE offer[r]]
    /\ accept' = accept \ pair
    /\ seen' = [r \in Players |-> IF r \in pair THEN NoOffer ELSE seen[r]]
    /\ exchanging' = exchanging \ Freed(p)
    /\ UNCHANGED birthVars

\* By the client, by distance, death, an offline shop or the end of the session.
Cancel(p) ==
  /\ company[p] # NoOne
  /\ Close(p)
  /\ UNCHANGED itemVars

\* The four checks of Accept.
Ready_OneSide(p, q) == Check(p) /\ CheckSpace(p, q) /\ Check(q)
Ready(p, q) == Check(p) /\ CheckSpace(p, q) /\ Check(q) /\ CheckSpace(q, p)

\* Done for p and then for q: the second sees what the first has moved.
HandOver(p, q) ==
  \E f \in Places(Held(p), owner, cell, q) :
    LET own == Owners(owner, Held(p), f, q)
        cel == Cells(cell, Held(p), f)
    IN \E h \in Places(Held(q), own, cel, p) :
         /\ owner' = Owners(own, Held(q), h, p)
         /\ cell' = Cells(cel, Held(q), h)
         /\ gold' = Pay(Pay(gold, p, q, offer[p]), q, p, offer[q])

\* Accept(true), for the first to accept.
AcceptFirst(p) ==
  /\ company[p] # NoOne
  /\ p \notin accept
  /\ company[p] \notin accept
  /\ accept' = accept \cup {p}
  /\ seen' = [seen EXCEPT ![p] = Offer(company[p])]
  /\ UNCHANGED <<itemVars, birthVars, exchanging, windowVars>>

BothAgree_One(p) == company[p] # NoOne /\ p \notin accept
BothAgree(p) == company[p] # NoOne /\ p \notin accept /\ company[p] \in accept

\* Accept(true), for the second: the trade is made when every check passes and
\* there is a connection to the db; the windows close in either case.
AcceptSecond(p) ==
  /\ BothAgree(p)
  /\ \/ UNCHANGED itemVars   \* a check fails, or there is no connection
     \/ Ready(p, company[p]) /\ HandOver(p, company[p])
  /\ Close(p)

-----------------------------------------------------------------------------
(* What goes on beside the trade.                                          *)

\* MoveItem refuses items in a window.
MoveItem(p, i, c) ==
  /\ owner[i] = p
  /\ i \notin exchanging
  /\ c # cell[i]
  /\ FitsAt(i, c, Taken([owner EXCEPT ![i] = NoOne], cell, p, Kind[i]))
  /\ cell' = [cell EXCEPT ![i] = c]
  /\ UNCHANGED <<owner, birthVars, exchanging, gold, windowVars, accept, seen>>

\* An item ends, whether it is in a window or not: real_time_expire_event,
\* RemoveSpecifyItem.  Its memory is free; the window keeps its pointer.
DestroyItem(i) ==
  /\ owner[i] # NoOne
  /\ owner' = [owner EXCEPT ![i] = NoOne]
  /\ exchanging' = exchanging \ {i}
  /\ UNCHANGED <<birthVars, cell, gold, windowVars, accept, seen>>

\* A player gets a new item (AutoGiveItem), in memory that no other item has.
CreateItem(p, i) ==
  /\ i \in unborn
  /\ \A j \in Items : owner[j] # NoOne => Mem[j] # Mem[i]
  /\ LET c == FirstFit(i, Taken(owner, cell, p, Kind[i])) IN
       /\ c # NoCell
       /\ cell' = [cell EXCEPT ![i] = c]
  /\ owner' = [owner EXCEPT ![i] = p]
  /\ unborn' = unborn \ {i}
  /\ aliased' = IF \E r \in Players : \E x \in SlotItems(slots[r]) : Mem[x] = Mem[i]
                THEN aliased \cup {i} ELSE aliased
  /\ UNCHANGED <<exchanging, gold, windowVars, accept, seen>>

\* Gold is found and spent during a trade.
Earn(p) ==
  /\ gold[p] + 1 < GoldMax
  /\ gold' = [gold EXCEPT ![p] = @ + 1]
  /\ UNCHANGED <<owner, birthVars, cell, exchanging, windowVars, accept, seen>>

Spend(p) ==
  /\ gold[p] > 0
  /\ gold' = [gold EXCEPT ![p] = @ - 1]
  /\ UNCHANGED <<owner, birthVars, cell, exchanging, windowVars, accept, seen>>

Next ==
  \/ \E p \in Players :
       \/ \E q \in Players : ExchangeStart(p, q)
       \/ \E i \in Items : AddItem(p, i) \/ AddItemToFull(p, i) \/ CreateItem(p, i)
       \/ \E n \in Slots : RemoveItem(p, n)
       \/ \E x \in Gold : AddGold(p, x)
       \/ AcceptFirst(p) \/ AcceptSecond(p) \/ Cancel(p)
       \/ Earn(p) \/ Spend(p)
       \/ \E i \in Items : \E c \in 0 .. Room[Kind[i]] - 1 : MoveItem(p, i, c)
  \/ \E i \in Items : DestroyItem(i)

Spec == Init /\ [][Next]_vars

-----------------------------------------------------------------------------
(* Properties.                                                             *)

\* The windows come in pairs.  An item is marked only while it is in the window of
\* its owner, so that no item stays marked, which could never be moved, dropped or
\* traded again.  And an item in the window of its owner is marked and in one place
\* of it, so that it cannot leave while the window is open, unless it was created in
\* the memory of a destroyed item that a window still pointed to: RemoveItem and
\* Cancel for that pointer clear the new item's mark.
MarksMatchWindows ==
  /\ \A p \in Players :
       /\ company[p] # NoOne => company[p] # p /\ company[company[p]] = p
       /\ company[p] = NoOne => slots[p] = EmptySlots /\ offer[p] = 0 /\ p \notin accept
       /\ \A n, m \in Slots : n # m /\ slots[p][n] # NoSlot =>
            slots[p][n].item # slots[p][m].item \/ slots[p][n].item \in aliased
       /\ \A i \in SlotItems(slots[p]) :
            owner[i] = NoOne \/ (owner[i] = p /\ i \in exchanging \cup aliased)
  /\ \A i \in exchanging :
       \E p \in Players : owner[i] = p /\ i \in SlotItems(slots[p])

\* While an acceptance stands, the other side's offer is what it was when the
\* player accepted.
AcceptSeesOffer == \A p \in accept : seen[p] = Offer(company[p])

\* No two items of a player share a cell, and none lies outside its inventory.
NoOverlap ==
  \A i \in Items : owner[i] # NoOne =>
    FitsAt(i, cell[i], Taken([owner EXCEPT ![i] = NoOne], cell, owner[i], Kind[i]))

\* An item changes hands only from a player to the company it trades with, and only
\* when it is among what that company saw when it accepted, or what is offered as it
\* accepts now; and none comes back that has been destroyed.  What the code lets
\* through is an item that took the memory and the cell of a destroyed one of the
\* window, which Check cannot tell from it (Mistaken).
Mistaken(p, i) ==
  \E n \in Slots :
    LET x == slots[p][n].item IN
      /\ x \notin {NoItem, i} /\ owner[x] = NoOne /\ i \in aliased
      /\ Mem[x] = Mem[i] /\ Kind[x] = Kind[i] /\ slots[p][n].pos = cell[i]

Consent(p, q, i) ==
  /\ company[p] = q
  /\ i \in SlotItems(slots[p]) \/ Mistaken(p, i)
  /\ p \in accept \/ q \in accept
  /\ \A r \in {p, q} \cap accept : seen[r] = Offer(company[r])

ItemsMoveByConsent ==
  [][\A i \in Items : owner'[i] \notin {owner[i], NoOne} =>
        IF owner[i] = NoOne THEN i \in unborn ELSE Consent(owner[i], owner'[i], i)]_vars

\* When items change hands, the first plain item and the first soul of each window
\* do, cards aside: CheckSpace looked for their places when neither side had been
\* served, and serving the other side only makes room.  Later items have no such
\* promise: the first fit of an earlier one may fall into the room that was made and
\* block the place that a longer one was counted into; Done then logs "Cannot find
\* blank position".
FirstOf(w, n) ==
  /\ w[n] # NoItem /\ w[n] \notin Cards /\ Kind[w[n]] # "book"
  /\ \A m \in 1 .. n - 1 : w[m] # NoItem /\ w[m] \notin Cards => Kind[w[m]] # Kind[w[n]]

FirstItemArrives ==
  [][\A i \in Items : owner[i] # NoOne /\ owner'[i] \notin {owner[i], NoOne} =>
       \A p \in {owner[i], company[owner[i]]} : \A n \in Slots :
         FirstOf(Held(p), n) => owner'[Held(p)[n]] = company[p]]_vars
=============================================================================
