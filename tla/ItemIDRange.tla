---------------------------- MODULE ItemIDRange ----------------------------
(***************************************************************************)
(* How item ids are handed out.                                            *)
(*                                                                         *)
(* The db process cuts the id space into blocks (CItemIDRangeManager) and  *)
(* gives every game process two of them: the one it issues ids from and a  *)
(* spare (CPeer::m_itemRange, m_itemSpareRange).  A game that uses up its  *)
(* block moves to the spare and asks for another one (ITEM_MANAGER).  When *)
(* a connection goes away, the db puts the block of that connection back   *)
(* in its list, with a first free id read from the item table.             *)
(*                                                                         *)
(* A connection is a value of Conns: the game's end is link[g], the db's   *)
(* end is a member of peers until RemovePeer.  wire[c] is the one id-range *)
(* message that can be under way on it.                                    *)
(***************************************************************************)
EXTENDS Naturals, Sequences, FiniteSets

CONSTANTS
  Games,       \* the game processes
  Conns,       \* names of connections between a game and the db
  NoConn,      \* "no connection" (INVALID_SOCKET)
  W,           \* ids per block, cs_dwMinimumRange
  R,           \* cs_dwMinimumRemainCount
  NumSlots,    \* number of blocks below cs_dwMaxItemID
  OwnMin,      \* conf.txt ITEM_ID_RANGE: the ids the db itself
  OwnMax,      \*   issues for awarded items
  InitItems,   \* the sets of ids the item table may hold at start
  MaxWaiting,  \* bound: items in the db's cache and statements queued
  Events       \* what may happen besides normal running: a subset of EventKinds

\* "exit", "crash": a game process ends in order or dies; "drop": a connection
\* breaks; "restart": the db stops and starts; "award": the db makes awarded
\* items; "destroy": items go.
EventKinds == {"exit", "crash", "drop", "restart", "award", "destroy"}

ASSUME WidthAssumption == W \in Nat /\ R \in Nat /\ 0 < R /\ R < W
ASSUME SlotAssumption == NumSlots \in Nat
ASSUME OwnAssumption == OwnMin \in Nat /\ OwnMax \in Nat /\ OwnMin <= OwnMax
ASSUME ItemsAssumption == InitItems \subseteq SUBSET Nat
ASSUME ConnAssumption == NoConn \notin Conns
ASSUME WaitingAssumption == MaxWaiting \in Nat
ASSUME EventAssumption == Events \subseteq EventKinds

VARIABLES
  listData,    \* CItemIDRangeManager::m_listData
  peers,       \* CClientManager::m_peerList
  peer,        \* m_itemRange and m_itemSpareRange of each CPeer
  wire,        \* the id-range message under way on each connection
  link,        \* CLIENT_DESC::m_sock of each game
  proc,        \* "down", "fresh", "booting", "run" or "stop"
  idRange,     \* ITEM_MANAGER::m_ItemIDRange
  spareRange,  \* ITEM_MANAGER::m_ItemIDSpareRange
  currentID,   \* ITEM_MANAGER::m_dwCurrentID
  mem,         \* ids of items a game made and has not saved yet
  cache,       \* ids of items in the db's m_map_itemCache, to be flushed
  queue,       \* statements on the item table that wait for the SQL thread
  sql,         \* ids in the item table
  ownID,       \* CClientManager::m_itemRange.dwUsableItemIDMin
  late         \* history: ids whose row was still to be written when the db
               \*   took their block back, and that the block starts before

dbVars   == <<listData, peers, peer>>
gameVars == <<proc, idRange, spareRange, currentID>>
rowVars  == <<cache, queue, sql, late>>
itemVars == <<mem, ownID, rowVars>>
vars     == <<listData, peers, peer, wire, link, proc, idRange, spareRange,
              currentID, mem, cache, queue, sql, ownID, late>>

-----------------------------------------------------------------------------
(* Blocks and ranges.                                                      *)

MinId(k) == W * k + 1
MaxId(k) == W * (k + 1)

\* Build skips the blocks that the db's own range covers.
OwnCovers(k) == OwnMin <= MinId(k) /\ MaxId(k) <= OwnMax
Slots == {k \in 1 .. NumSlots : ~OwnCovers(k)}

\* ITEM_ID_RANGE covers whole blocks, but for the last id of the one before.
ASSUME ConfAssumption == \A k \in Slots : MaxId(k) <= OwnMin \/ OwnMax < MinId(k)

\* TItemIDRangeTable: dwMin and dwMax follow from the slot.
ItemRange == {r \in [slot : Slots, start : Nat] :
                MinId(r.slot) <= r.start /\ r.start + R <= MaxId(r.slot)}
NoRange == [slot |-> 0, start |-> 0]
AnyRange == ItemRange \cup {NoRange}

\* Operators named X_Y are X with one change, a bug that X does not have; no
\* other definition uses them.

\* SELECT MAX(id) .. WHERE id >= lo AND id <= hi, plus one; lo when there is
\* no such row.
FirstFree_NoIncrement(lo, hi, ids) ==
  CHOOSE s \in lo .. hi :
    /\ s = lo \/ s \in ids
    /\ \A i \in ids : i \in lo .. hi => i <= s

FirstFree(lo, hi, ids) ==
  CHOOSE s \in lo .. hi + 1 :
    /\ s = lo \/ s - 1 \in ids
    /\ \A i \in ids : i \in lo .. hi => i < s

\* The test of BuildRange; its COUNT(*) afterwards is always 0.
Usable_NoRemainCount(lo, hi, ids) == FirstFree(lo, hi, ids) <= hi

Usable(lo, hi, ids) ==
  /\ FirstFree(lo, hi, ids) <= hi
  /\ R <= hi - FirstFree(lo, hi, ids)

BuildRange(k, ids) == [slot |-> k, start |-> FirstFree(MinId(k), MaxId(k), ids)]

UsableSlot(k, ids) == Usable(MinId(k), MaxId(k), ids)

\* Build(): the usable blocks, in the order of their ids.
BuildSlots(ids) == {k \in Slots : UsableSlot(k, ids)}


BuildLists(ids) ==
  LET n == Cardinality(BuildSlots(ids))
  IN  {[i \in 1 .. n |-> BuildRange(s[i], ids)] :
         s \in {t \in [1 .. n -> BuildSlots(ids)] :
                  \A i, j \in 1 .. n : i < j => t[i] < t[j]}}

\* UpdateRange(): a block comes back at the end of the list.
UpdateRange(list, r, ids) ==
  IF r # NoRange /\ UsableSlot(r.slot, ids)
  THEN Append(list, BuildRange(r.slot, ids)) ELSE list

\* GetRange(): FCheckCollision goes to for_each_peer by value, the copy's
\* verdict is lost, and the head of the list is always taken.
GetRange(list) == IF list = <<>> THEN NoRange ELSE Head(list)

Rest_NoPop(list) == list
Rest(list) == IF list = <<>> THEN <<>> ELSE Tail(list)

\* SetItemIDRange and SetSpareItemIDRange ignore a zero range.
SetRange(old, new) == IF new = NoRange THEN old ELSE new

NoPeer == [main |-> NoRange, spare |-> NoRange]
Peer   == [main : AnyRange, spare : AnyRange]

\* SendSpareItemIDRange, when there is a spare: the spare becomes the main
\* range; a zero new spare clears the old one.
Promote_KeepMain(p, r)  == [main |-> p.main, spare |-> r]
Promote_KeepSpare(p, r) == [main |-> p.spare, spare |-> SetRange(p.spare, r)]
Promote(p, r) == [main |-> p.spare, spare |-> r]

Bare(k) == [kind |-> k, main |-> NoRange, spare |-> NoRange]
Quiet   == Bare("none")
Msg     == [kind : {"none", "boot", "bootAck", "req", "ack"},
            main : AnyRange, spare : AnyRange]

-----------------------------------------------------------------------------
(* Rows still to be written.  Every REPLACE and DELETE of an item is a          *)
(* ReturnQuery, queued on one connection; BuildRange reads by DirectQuery, on   *)
(* another connection, at once.                                                 *)

Statement == [op : {"REPLACE", "DELETE"}, id : Nat]

Queued(op, i) == queue' = Append(queue, [op |-> op, id |-> i])

\* Room for one more, under the bound of the model.
RoomToWait == Cardinality(cache) + Len(queue) < MaxWaiting

\* The item table after one statement.
Row(s, ids) == IF s.op = "REPLACE" THEN ids \cup {s.id} ELSE ids \ {s.id}

\* The item table after all that is queued: the last statement on an id counts.
LastOn(i, n) == queue[n].id = i /\ \A m \in n + 1 .. Len(queue) : queue[m].id # i
QueueRun ==
  LET last(op) == {queue[n].id : n \in {m \in 1 .. Len(queue) :
                                         queue[m].op = op /\ LastOn(queue[m].id, m)}}
  IN  (sql \ last("DELETE")) \cup last("REPLACE")

\* Ids with a row to be written or deleted.
Waiting == cache \cup {queue[n].id : n \in 1 .. Len(queue)}

-----------------------------------------------------------------------------
TypeOK ==
  /\ listData \in Seq(ItemRange)
  /\ peers \in SUBSET Conns
  /\ peer \in [Conns -> Peer]
  /\ wire \in [Conns -> Msg]
  /\ link \in [Games -> Conns \cup {NoConn}]
  /\ proc \in [Games -> {"down", "fresh", "booting", "run", "stop"}]
  /\ idRange \in [Games -> AnyRange]
  /\ spareRange \in [Games -> AnyRange]
  /\ currentID \in [Games -> Nat]
  /\ mem \in [Games -> SUBSET Nat]
  /\ cache \in SUBSET Nat
  /\ queue \in Seq(Statement)
  /\ sql \in SUBSET Nat
  /\ ownID \in Nat
  /\ late \in SUBSET Nat

\* CClientManager::Initialize: no row is read twice, no game is connected.
Init ==
  /\ sql \in InitItems
  /\ Usable(OwnMin, OwnMax, sql)
  /\ ownID = FirstFree(OwnMin, OwnMax, sql)
  /\ listData \in BuildLists(sql)
  /\ peers = {}
  /\ peer = [c \in Conns |-> NoPeer]
  /\ wire = [c \in Conns |-> Quiet]
  /\ link = [g \in Games |-> NoConn]
  /\ proc = [g \in Games |-> "down"]
  /\ idRange = [g \in Games |-> NoRange]
  /\ spareRange = [g \in Games |-> NoRange]
  /\ currentID = [g \in Games |-> 0]
  /\ mem = [g \in Games |-> {}]
  /\ cache = {}
  /\ queue = <<>>
  /\ late = {}

-----------------------------------------------------------------------------
(* The game process.                                                       *)

\* A game process starts.
Start(g) ==
  /\ proc[g] = "down"
  /\ link[g] = NoConn
  /\ proc' = [proc EXCEPT ![g] = "fresh"]
  /\ UNCHANGED <<dbVars, wire, link, idRange, spareRange, currentID, itemVars>>

\* CLIENT_DESC::Connect, SetPhase(PHASE_DBCLIENT) and the db's AddPeer.  Only
\* the first connection of a process sends HEADER_GD_BOOT (bSentBoot); a
\* stopping process does not connect again.
Connect(g, c) ==
  /\ proc[g] \in {"fresh", "booting", "run"}
  /\ link[g] = NoConn
  /\ c \notin peers
  /\ link' = [link EXCEPT ![g] = c]
  /\ peers' = peers \cup {c}
  /\ peer' = [peer EXCEPT ![c] = NoPeer]
  /\ wire' = [wire EXCEPT ![c] =
                IF proc[g] = "fresh" THEN Bare("boot")
                ELSE Quiet]
  /\ proc' = [proc EXCEPT ![g] = IF @ = "fresh" THEN "booting" ELSE @]
  /\ UNCHANGED <<listData, idRange, spareRange, currentID, itemVars>>

\* SetMaxItemID or SetMaxSpareItemID fails at boot.
BootRefused(m) == m.main = NoRange \/ m.spare = NoRange

\* CInputDB::Boot: SetMaxItemID, then SetMaxSpareItemID; a zero range shuts the
\* process down.
GameBoot(g) ==
  /\ proc[g] = "booting"
  /\ link[g] # NoConn
  /\ LET m == wire[link[g]] IN
       /\ m.kind = "bootAck"
       /\ wire' = [wire EXCEPT ![link[g]] = Quiet]
       /\ idRange' = [idRange EXCEPT ![g] = m.main]
       /\ currentID' = [currentID EXCEPT ![g] = IF m.main = NoRange THEN @ ELSE m.main.start]
       /\ spareRange' = [spareRange EXCEPT ![g] =
                           IF m.main = NoRange THEN @ ELSE SetRange(@, m.spare)]
       /\ proc' = [proc EXCEPT ![g] =
                     IF BootRefused(m) THEN "stop" ELSE "run"]
  /\ UNCHANGED <<dbVars, link, itemVars>>

\* GetNewID: m_dwCurrentID >= dwMax means the block is used up, so its last id
\* is never issued.
BlockLasts_ToTheEnd(id, k) == id <= MaxId(k)
BlockLasts(id, k) == id < MaxId(k)

\* GetNewID for a new item, while the block lasts.
NewItem(g) ==
  /\ proc[g] = "run"
  /\ BlockLasts(currentID[g], idRange[g].slot)
  /\ mem' = [mem EXCEPT ![g] = @ \cup {currentID[g]}]
  /\ currentID' = [currentID EXCEPT ![g] = @ + 1]
  /\ UNCHANGED <<dbVars, wire, link, proc, idRange, spareRange, rowVars, ownID>>

\* GetNewID at the end of the block: ask for another spare (DBPacket drops the
\* request when there is no connection), move to the spare, issue its first id.
NewItemFromSpare(g) ==
  /\ proc[g] = "run"
  /\ ~BlockLasts(currentID[g], idRange[g].slot)
  /\ spareRange[g] # NoRange
  /\ wire' = IF link[g] = NoConn THEN wire
             ELSE [wire EXCEPT ![link[g]] = Bare("req")]
  /\ idRange' = [idRange EXCEPT ![g] = spareRange[g]]
  /\ spareRange' = [spareRange EXCEPT ![g] = NoRange]
  /\ mem' = [mem EXCEPT ![g] = @ \cup {spareRange[g].start}]
  /\ currentID' = [currentID EXCEPT ![g] = spareRange[g].start + 1]
  /\ UNCHANGED <<dbVars, link, proc, rowVars, ownID>>

\* GetNewID with neither block nor spare left: thecore_shutdown.
OutOfIDs(g) ==
  /\ proc[g] = "run"
  /\ ~BlockLasts(currentID[g], idRange[g].slot)
  /\ spareRange[g] = NoRange
  /\ proc' = [proc EXCEPT ![g] = "stop"]
  /\ UNCHANGED <<dbVars, wire, link, idRange, spareRange, currentID, itemVars>>

\* HEADER_DG_ACK_SPARE_ITEM_ID_RANGE: SetMaxSpareItemID ignores a zero range.
GameSpare(g) ==
  /\ proc[g] \in {"run", "stop"}
  /\ link[g] # NoConn
  /\ wire[link[g]].kind = "ack"
  /\ spareRange' = [spareRange EXCEPT ![g] = SetRange(@, wire[link[g]].spare)]
  /\ wire' = [wire EXCEPT ![link[g]] = Quiet]
  /\ UNCHANGED <<dbVars, link, proc, idRange, currentID, itemVars>>

\* HEADER_GD_ITEM_SAVE reaches the db: the item goes to the cache, or, when its
\* owner has no cache set or it is in a safebox, its REPLACE is queued at once.
Save(g, i) ==
  /\ i \in mem[g]
  /\ link[g] # NoConn
  /\ RoomToWait
  /\ mem' = [mem EXCEPT ![g] = @ \ {i}]
  /\ \/ cache' = cache \cup {i} /\ UNCHANGED queue
     \/ Queued("REPLACE", i) /\ UNCHANGED cache
  /\ UNCHANGED <<dbVars, wire, link, gameVars, sql, ownID, late>>

\* What is left of a process that has ended.
Gone(g) ==
  /\ proc[g] # "down"
  /\ proc' = [proc EXCEPT ![g] = "down"]
  /\ link' = [link EXCEPT ![g] = NoConn]
  /\ idRange' = [idRange EXCEPT ![g] = NoRange]
  /\ spareRange' = [spareRange EXCEPT ![g] = NoRange]
  /\ currentID' = [currentID EXCEPT ![g] = 0]
  /\ mem' = [mem EXCEPT ![g] = {}]

\* The process ends in order: what it holds is saved (if it can be), and the db
\* reads those saves before it sees the connection closed.
Exit(g) ==
  /\ "exit" \in Events
  /\ link[g] # NoConn => mem[g] = {}
  /\ Gone(g)
  /\ UNCHANGED <<dbVars, wire, rowVars, ownID>>

\* The process dies: what it had not saved is gone.
Crash(g) ==
  /\ "crash" \in Events
  /\ Gone(g)
  /\ UNCHANGED <<dbVars, wire, rowVars, ownID>>

\* The connection breaks; the process lives on and retries (IsRetryWhenClosed).
Drop(g) ==
  /\ "drop" \in Events
  /\ proc[g] # "down"
  /\ link[g] # NoConn
  /\ link' = [link EXCEPT ![g] = NoConn]
  /\ UNCHANGED <<dbVars, wire, gameVars, itemVars>>

-----------------------------------------------------------------------------
(* The db process.                                                         *)

\* QUERY_BOOT: two ranges, recorded in the peer and sent to the game.
DbBoot(c) ==
  /\ c \in peers
  /\ wire[c].kind = "boot"
  /\ LET main  == GetRange(listData)
         spare == GetRange(Rest(listData))
     IN /\ peer' = [peer EXCEPT ![c] = [main  |-> SetRange(@.main, main),
                                        spare |-> SetRange(@.spare, spare)]]
        /\ wire' = [wire EXCEPT ![c] = [kind |-> "bootAck", main |-> main, spare |-> spare]]
  /\ listData' = Rest(Rest(listData))
  /\ UNCHANGED <<peers, link, gameVars, itemVars>>

\* CPeer::SendSpareItemIDRange.
SendSpareItemIDRange(c) ==
  /\ IF peer[c].spare = NoRange
     THEN /\ wire' = [wire EXCEPT ![c] = Bare("ack")]
          /\ UNCHANGED <<listData, peer>>
     ELSE /\ peer' = [peer EXCEPT ![c] = Promote(@, GetRange(listData))]
          /\ wire' = [wire EXCEPT ![c] = [kind |-> "ack", main |-> NoRange,
                                          spare |-> GetRange(listData)]]
          /\ listData' = Rest(listData)
  /\ UNCHANGED <<peers, link, gameVars, itemVars>>

\* HEADER_GD_REQ_SPARE_ITEM_ID_RANGE.
DbSpare_OnlyIfAny(c) ==
  /\ c \in peers
  /\ wire[c].kind = "req"
  /\ listData # <<>>
  /\ SendSpareItemIDRange(c)

DbSpare(c) ==
  /\ c \in peers
  /\ wire[c].kind = "req"
  /\ SendSpareItemIDRange(c)

\* The ids with a row to be written that the block of r, built now, begins before.
StartsBefore(r) ==
  {i \in Waiting : r # NoRange /\ i \in BuildRange(r.slot, sql).start .. MaxId(r.slot)}

\* RemovePeer and CPeer::OnClose, when the db sees the connection closed.  The
\* block in use goes back to the list; the spare does not.
RemovePeer(c) ==
  /\ c \in peers
  /\ \A g \in Games : link[g] # c
  /\ peers' = peers \ {c}
  /\ listData' = UpdateRange(listData, peer[c].main, sql)
  /\ peer' = [peer EXCEPT ![c] = NoPeer]
  /\ wire' = [wire EXCEPT ![c] = Quiet]
  /\ late' = late \cup StartsBefore(peer[c].main)
  /\ UNCHANGED <<link, gameVars, mem, cache, queue, sql, ownID>>

\* CItemCache::OnFlush of one item (UpdateItemCache, FlushItemCacheSet, ...).
Flush(i) ==
  /\ i \in cache
  /\ cache' = cache \ {i}
  /\ Queued("REPLACE", i)
  /\ UNCHANGED <<dbVars, wire, link, gameVars, mem, sql, ownID, late>>

\* The SQL thread runs the oldest statement.
RunStatement ==
  /\ queue # <<>>
  /\ sql' = Row(Head(queue), sql)
  /\ queue' = Tail(queue)
  /\ UNCHANGED <<dbVars, wire, link, gameVars, mem, cache, ownID, late>>

\* RESULT_SAFEBOX_LOAD gives out an awarded item: GetItemID() > dwMax is the
\* overflow test, GainItemID the new id, the row is inserted by DirectQuery.
Award ==
  /\ "award" \in Events
  /\ ownID <= OwnMax
  /\ sql' = sql \cup {ownID}
  /\ ownID' = ownID + 1
  /\ UNCHANGED <<dbVars, wire, link, gameVars, mem, cache, queue, late>>

\* An item is destroyed wherever it is (QUERY_ITEM_DESTROY): it leaves the cache
\* and its DELETE is queued.
Destroy(i) ==
  /\ "destroy" \in Events
  /\ i \in cache \cup sql
  /\ RoomToWait
  /\ cache' = cache \ {i}
  /\ Queued("DELETE", i)
  /\ UNCHANGED <<dbVars, wire, link, gameVars, mem, sql, ownID, late>>

\* The db stops and starts again.  A clean stop flushes its cache and waits for
\* its SQL thread; otherwise what waits is lost.  Every connection is gone and
\* the list is built from the table alone.
DbRestart ==
  /\ "restart" \in Events
  /\ \E clean \in BOOLEAN : sql' = IF clean THEN QueueRun \cup cache ELSE sql
  /\ Usable(OwnMin, OwnMax, sql')
  /\ ownID' = FirstFree(OwnMin, OwnMax, sql')
  /\ listData' \in BuildLists(sql')
  /\ cache' = {}
  /\ queue' = <<>>
  /\ peers' = {}
  /\ peer' = [c \in Conns |-> NoPeer]
  /\ wire' = [c \in Conns |-> Quiet]
  /\ link' = [g \in Games |-> NoConn]
  /\ UNCHANGED <<gameVars, mem, late>>

-----------------------------------------------------------------------------
GameStep(g) ==
  \/ Start(g) \/ GameBoot(g) \/ NewItem(g) \/ NewItemFromSpare(g)
  \/ OutOfIDs(g) \/ GameSpare(g) \/ Exit(g) \/ Crash(g) \/ Drop(g)
  \/ \E c \in Conns : Connect(g, c)
  \/ \E i \in mem[g] : Save(g, i)

DbStep ==
  \/ \E c \in Conns : DbBoot(c) \/ DbSpare(c) \/ RemovePeer(c)
  \/ \E i \in cache : Flush(i)
  \/ RunStatement
  \/ \E i \in cache \cup sql : Destroy(i)
  \/ Award
  \/ DbRestart

Next == DbStep \/ \E g \in Games : GameStep(g)

Spec == Init /\ [][Next]_vars

\* The db serves every message it has received (CClientManager::Process reads
\* all its peers on every turn of MainLoop) and the game reads its db socket.
Fairness ==
  /\ \A c \in Conns : WF_vars(DbBoot(c)) /\ WF_vars(DbSpare(c))
  /\ \A g \in Games : WF_vars(GameBoot(g)) /\ WF_vars(GameSpare(g))

FairSpec == Spec /\ Fairness

-----------------------------------------------------------------------------
(* Properties.                                                             *)

ListSlots(l) == {l[i].slot : i \in 1 .. Len(l)}

Distinct(l) == \A i, j \in 1 .. Len(l) : i # j => l[i].slot # l[j].slot

\* The blocks recorded for a connection.
PeerSlots(c) == {peer[c].main.slot, peer[c].spare.slot} \ {0}

\* Exclusive allocation in the db: no block is in the list twice, no block is
\* recorded for two connections or twice for one, and no block in the list is
\* recorded for a connection.  It is what the collision check of GetRange was
\* written for, and it holds although that check never rejects anything.
DbExclusive ==
  /\ Distinct(listData)
  /\ \A c \in Conns : PeerSlots(c) \cap ListSlots(listData) = {}
  /\ \A c, d \in Conns : c # d => PeerSlots(c) \cap PeerSlots(d) = {}
  /\ \A c \in Conns : peer[c].main # NoRange => peer[c].main.slot # peer[c].spare.slot

\* The ids game g can still issue without hearing from the db.
IssuableFrom(id, r) ==
  {i \in id .. MaxId(r.slot) : r # NoRange /\ BlockLasts(i, r.slot)}

Ahead(g) ==
  IF proc[g] # "run" THEN {}
  ELSE IssuableFrom(currentID[g], idRange[g])
         \cup IssuableFrom(spareRange[g].start, spareRange[g])

\* Two running games never have an id in common that both could still issue.
\* The code does not ensure it once a connection can break under a running
\* game (Events with "drop" or "restart").
NoSharedAhead ==
  \A g, h \in Games : g # h => Ahead(g) \cap Ahead(h) = {}

\* What a running game holds, against the db's record p of its connection and
\* the message m on it: the two agree, up to a request or an answer under way.
RunAgrees(g, p, m) ==
  \/ m.kind = "none" /\ idRange[g] = p.main /\ spareRange[g] = p.spare
  \/ m.kind = "req"  /\ idRange[g] = p.spare /\ spareRange[g] = NoRange
  \/ m.kind = "ack"  /\ idRange[g] = p.main /\ spareRange[g] = NoRange
                     /\ m.spare = p.spare

BootAgrees(p, m) ==
  \/ m.kind = "boot" /\ p = NoPeer
  \/ m.kind = "bootAck" /\ m.main = p.main /\ m.spare = p.spare

GameAgrees(g) ==
  /\ proc[g] \in {"down", "fresh"} => link[g] = NoConn
  /\ proc[g] \in {"booting", "run", "stop"} => link[g] \in peers
  /\ proc[g] = "booting" => BootAgrees(peer[link[g]], wire[link[g]])
  /\ proc[g] = "run" => RunAgrees(g, peer[link[g]], wire[link[g]])

LinksApart == \A g, h \in Games : g # h /\ link[g] # NoConn => link[g] # link[h]

\* The db's record of a game's connection is what the game holds.  OnClose
\* returns the block of that record and SendSpareItemIDRange forgets one, so an
\* error here gives away a block in use.  Connections never break under a game
\* here (Events without "drop" and "restart").
RecordAgrees == LinksApart /\ \A g \in Games : GameAgrees(g)

\* A running game has a block and issues from inside it; the db's next award id
\* is in its own range.
IssuesInBlock ==
  /\ \A g \in Games : proc[g] = "run" => /\ idRange[g] # NoRange
                                        /\ MinId(idRange[g].slot) <= currentID[g]
  /\ OwnMin <= ownID

\* The ids the db gives to awarded items are never ids a game can issue, even
\* where ITEM_ID_RANGE begins on the last id of a block.
AwardIdsApart ==
  \A g \in Games : Ahead(g) \cap (ownID .. OwnMax) = {}

Items == Waiting \cup sql \cup UNION {mem[g] : g \in Games}

\* An id that a running game can still issue already names an item only if the
\* item's row was not in the table yet when the db took its block back: BuildRange
\* looks past everything that waits.
FreshAhead == \A g \in Games : Ahead(g) \cap Items \subseteq late

\* A game that has asked for a spare gets an answer, or loses the connection
\* it asked on.
Asking(g) == /\ link[g] # NoConn
             /\ wire[link[g]].kind \in {"req", "ack"}

RequestAnswered == \A g \in Games : Asking(g) ~> ~Asking(g)
=============================================================================
