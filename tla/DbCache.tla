------------------------------- MODULE DbCache -------------------------------
(* The write-back item cache of the db server.  The game servers send every   *)
(* change of an item as ITEM_SAVE or ITEM_DESTROY; the db server keeps the     *)
(* last value in m_map_itemCache, links it into the item set of its owner when *)
(* that player is loaded, and writes the row later: when the item's timer      *)
(* expires, when the owner has been logged out for a while, or on request.     *)
(* Safebox items bypass the cache.  All statements and selects go through one  *)
(* connection whose thread executes them in order and whose answers come back  *)
(* to the main loop in the same order.                                         *)
(*                                                                             *)
(* The game side is what the messages come from: where each item really is,    *)
(* and which of the changes still wait in m_set_pkItemForDelayedSave.  A       *)
(* message is handled when it is sent: one peer's messages are handled in      *)
(* order, a player is on one game at a time, and an account cannot log in on   *)
(* another game before the LOGOUT that followed the last save was handled.     *)
EXTENDS Naturals, FiniteSets, Sequences, SequencesExt, Functions

CONSTANTS
  Players,      \* player ids (dwPID)
  Accounts,     \* account ids
  AcctOf,       \* the account each player belongs to
  Items,        \* item ids
  NoOne,        \* no owner
  Vals,         \* what the rest of an item's row can hold: naturals 0 .. n
  ItemSecs,     \* g_iItemCacheFlushSeconds
  LogoutSecs,   \* g_iLogoutSeconds
  FlushLimit,   \* m_iCacheFlushCountLimit, flushes per second
  MaxQueue,     \* bound of the model: statements and answers under way
  Events        \* which of the optional behaviours the instance contains

EventKinds == {"safebox", "crash", "flush", "stray", "restart"}

ASSUME PlayersAssumption == IsFiniteSet(Players) /\ NoOne \notin Players
ASSUME AcctAssumption == AcctOf \in [Players -> Accounts]
ASSUME ItemsAssumption == IsFiniteSet(Items)
ASSUME ValsAssumption == 0 \in Vals /\ Vals \subseteq Nat
ASSUME SecsAssumption == ItemSecs \in Nat /\ LogoutSecs \in Nat
ASSUME LimitAssumption == FlushLimit \in Nat \ {0} /\ MaxQueue \in Nat \ {0}
ASSUME EventsAssumption == Events \subseteq EventKinds

VARIABLES
  held,     \* game: what each item is now, [at, who, val]
  pend,     \* game: m_set_pkItemForDelayedSave
  st,       \* game: each player is "off", waiting for its load, or in "play"
  box,      \* game: the account's safebox is "shut", waited for, or "open"
  cache,    \* db: m_map_itemCache, by item id
  sets,     \* db: m_map_pkItemCacheSetPtr, by player id
  pcache,   \* db: the players whose table is in m_map_playerCache
  out,      \* db: m_map_logout, seconds since the logout, by player id
  row,      \* SQL: the item table
  queue,    \* SQL: statements the thread has not executed
  res,      \* SQL: answers the main loop has not popped
  sent      \* the last answer to a game: [op, who, items], or an empty one

game == <<held, pend, st, box>>
sql  == <<row, queue, res>>
vars == <<held, pend, st, box, cache, sets, pcache, out, row, queue, res, sent>>

-----------------------------------------------------------------------------
(* Items, rows and statements.                                                *)

Places == {"bag", "box", "ground", "gone"}
Owners == Players \cup Accounts \cup {NoOne}
Data   == [at : Places, who : Owners, val : Vals]

\* The value of an item that has no row, or a cache entry whose vnum is 0.
Absent == [at |-> "gone", who |-> NoOne, val |-> 0]

Bag(p, v)  == [at |-> "bag", who |-> p, val |-> v]
InBox(a, v) == [at |-> "box", who |-> a, val |-> v]

\* What SaveSingleItem sends for an item in this state: the row it should have.
Saved(d) == IF d.at \in {"bag", "box"} THEN d ELSE Absent

Entry == [data : Data, dirty : BOOLEAN, age : 0 .. ItemSecs + 1]

Put(i, d)      == [op |-> "put", item |-> i, data |-> d]
Select(op, w)  == [op |-> op, who |-> w, to |-> "desc"]

\* The answer to a select: the items of one owner at one place.
Found(table, at, w) ==
  {<<i, table[i].val>> : i \in {j \in Items : table[j].at = at /\ table[j].who = w}}

NotSent == [op |-> "none", who |-> NoOne, items |-> {}]

\* f with v at i (std::map::insert or an assignment through the iterator).
With(f, i, v) == [j \in DOMAIN f \cup {i} |-> IF j = i THEN v ELSE f[j]]

Fresh(d, dirty) == [data |-> d, dirty |-> dirty, age |-> 0]
Flushed(e) == Fresh(e.data, FALSE)

\* Seconds since the entry of i was last flushed; a new entry starts at 0.
Age(i) == IF i \in DOMAIN cache THEN cache[i].age ELSE 0

\* CItemCache::Delete: vnum is set to 0, the owner is left.
Erased(e) == [data |-> [e.data EXCEPT !.at = "gone"], dirty |-> FALSE, age |-> e.age]

DirtyIn(S) == {i \in S : cache[i].dirty}

\* OnFlush of every entry of S: one REPLACE or DELETE each, in any one order.
Writes(S) == LET s == SetToSeq(S) IN [k \in 1 .. Len(s) |-> Put(s[k], cache[s[k]].data)]

Room == Len(queue) + Len(res) < MaxQueue

\* The selects and answers of s for players of P and their accounts now lead to
\* what is left of the way back: "peer" when the desc is gone, "none" when the
\* connection is, and a connection that is gone stays so.
For(x, P) == IF x.op = "bag" THEN x.who \in P ELSE x.who \in {AcctOf[p] : p \in P}

Redirect(s, P, to) ==
  [k \in 1 .. Len(s) |->
     IF s[k].op # "put" /\ s[k].to # "none" /\ For(s[k], P)
     THEN [s[k] EXCEPT !.to = to] ELSE s[k]]

-----------------------------------------------------------------------------
(* The handlers of the db server.                                             *)

\* (mutant) the entry is not erased from the set of its old owner.
Relinked_KeepOld(i, d) ==
  [p \in DOMAIN sets |-> IF p = d.who THEN sets[p] \cup {i} ELSE sets[p]]

\* The sets once entry i has moved to the set of its new owner.
Relinked(i, d) ==
  [p \in DOMAIN sets |->
     IF p = d.who THEN sets[p] \cup {i}
     ELSE IF i \in DOMAIN cache /\ cache[i].data.who = p THEN sets[p] \ {i}
     ELSE sets[p]]

\* (mutant) every save restarts the entry's flush timer.
PutItemCache_RestartTimer(i, d) ==
  /\ cache' = With(cache, i, Fresh(d, d.who \in DOMAIN sets))
  /\ sets' = Relinked(i, d)
  /\ queue' = IF d.who \in DOMAIN sets THEN queue ELSE Append(queue, Put(i, d))

\* ITEM_SAVE of an item in a bag: cached, and written at once when the owner
\* has no item set.
PutItemCache(i, d) ==
  /\ cache' = With(cache, i, [data |-> d, dirty |-> d.who \in DOMAIN sets, age |-> Age(i)])
  /\ sets' = Relinked(i, d)
  /\ queue' = IF d.who \in DOMAIN sets THEN queue ELSE Append(queue, Put(i, d))

\* (mutant) the cached entry of an item that goes to the safebox stays.
PutBoxItem_KeepEntry(i, d) ==
  /\ queue' = Append(queue, Put(i, d))
  /\ UNCHANGED <<cache, sets>>

\* ITEM_SAVE of a safebox item: the entry is dropped and the row written.
PutBoxItem(i, d) ==
  /\ cache' = Restrict(cache, DOMAIN cache \ {i})
  /\ sets' = [p \in DOMAIN sets |->
                IF i \in DOMAIN cache /\ cache[i].data.who = p THEN sets[p] \ {i} ELSE sets[p]]
  /\ queue' = Append(queue, Put(i, d))

\* ITEM_DESTROY: an entry stays cached with vnum 0, and the row is deleted.
DeleteItem(i) ==
  /\ cache' = [j \in DOMAIN cache |-> IF j = i THEN Erased(cache[j]) ELSE cache[j]]
  /\ queue' = IF i \in DOMAIN cache /\ cache[i].data.at = "gone" THEN queue
              ELSE Append(queue, Put(i, Absent))
  /\ UNCHANGED sets

\* The message SaveSingleItem sends for an item in state d.
SaveSingleItem(i, d) ==
  CASE d.at = "bag" -> PutItemCache(i, d)
    [] d.at = "box" -> PutBoxItem(i, d)
    [] OTHER        -> DeleteItem(i)

-----------------------------------------------------------------------------
Mates(p) == {q \in Players : AcctOf[q] = AcctOf[p]}

\* The entries FlushItemCacheSet deletes for the players of L.
Dropped(L) == UNION {sets[p] : p \in L \cap DOMAIN sets}

\* What the table will hold for i once the queue has been executed.
Queued(i) == {k \in 1 .. Len(queue) : queue[k].op = "put" /\ queue[k].item = i}
LastWritten(i) ==
  IF Queued(i) = {} THEN row[i]
  ELSE queue[CHOOSE k \in Queued(i) : \A l \in Queued(i) : l <= k].data

\* The last value of i the db server was given, as a row.
Known(i) == IF i \in DOMAIN cache /\ cache[i].dirty THEN cache[i].data ELSE LastWritten(i)

Believed(i) == IF i \in DOMAIN cache THEN cache[i].data ELSE LastWritten(i)

Init ==
  /\ row \in [Items -> {Bag(p, 0) : p \in Players} \cup {InBox(a, 0) : a \in Accounts}]
  /\ held = row
  /\ pend = {} /\ st = [p \in Players |-> "off"] /\ box = [a \in Accounts |-> "shut"]
  /\ cache = << >> /\ sets = << >> /\ pcache = {} /\ out = << >>
  /\ queue = << >> /\ res = << >> /\ sent = NotSent

(* Loading a player.                                                          *)

DeleteLogoutPlayer(p) == Restrict(out, DOMAIN out \ Mates(p))

\* QUERY_PLAYER_LOAD: none of the account's players is to be flushed for having
\* logged out; a cached player with an item set is answered from the cache, any
\* other by a select.
Load(p) ==
  /\ \A q \in Mates(p) : st[q] = "off"
  /\ Room
  /\ out' = DeleteLogoutPlayer(p)
  /\ \/ /\ p \in pcache /\ p \in DOMAIN sets
        /\ sent' = [op |-> "bag", who |-> p,
                    items |-> {<<i, cache[i].data.val>> :
                                 i \in {j \in sets[p] : cache[j].data.at # "gone"}}]
        /\ st' = [st EXCEPT ![p] = "play"]
        /\ UNCHANGED queue
     \/ /\ ~(p \in pcache /\ p \in DOMAIN sets)
        /\ queue' = Append(queue, Select("bag", p))
        /\ st' = [st EXCEPT ![p] = "load"]
        /\ sent' = NotSent
  /\ UNCHANGED <<held, pend, box, cache, sets, pcache, row, res>>

\* RESULT_ITEM_LOAD: the set is created if there is none and every row found is
\* put into the cache without being marked for writing.
ItemLoad(p, items) ==
  LET ids     == {x[1] : x \in items}
      read(i) == Bag(p, (CHOOSE x \in items : x[1] = i)[2])
      old     == IF p \in DOMAIN sets THEN sets[p] ELSE {}
  IN /\ cache' = [i \in DOMAIN cache \cup ids |->
                    IF i \notin ids THEN cache[i]
                    ELSE IF i \in DOMAIN cache THEN [cache[i] EXCEPT !.data = read(i)]
                    ELSE Fresh(read(i), FALSE)]
     /\ sets' = [q \in DOMAIN sets \cup {p} |->
                   IF q = p THEN old \cup ids ELSE sets[q] \ ids]

\* AnalyzeQueryResult: an answer whose peer is gone is thrown away; one whose
\* desc is gone still fills the cache.  The safebox is read in two queries.
Pop ==
  /\ res # << >>
  /\ res' = Tail(res)
  /\ LET r == Head(res)
         arrived == r.to = "desc"
     IN /\ sent' = IF arrived /\ r.op \in {"bag", "box"}
                   THEN [op |-> r.op, who |-> r.who, items |-> r.items] ELSE NotSent
        /\ \/ /\ r.op = "bag" /\ r.to # "none"
              /\ ItemLoad(r.who, r.items)
              /\ UNCHANGED queue
           \/ /\ r.op = "safebox" /\ r.to # "none"
              /\ queue' = Append(queue, [Select("box", r.who) EXCEPT !.to = r.to])
              /\ UNCHANGED <<cache, sets>>
           \/ /\ r.op = "box" \/ r.to = "none"
              /\ UNCHANGED <<cache, sets, queue>>
        /\ st' = IF arrived /\ r.op = "bag" THEN [st EXCEPT ![r.who] = "play"] ELSE st
        /\ box' = IF arrived /\ r.op = "box" THEN [box EXCEPT ![r.who] = "open"] ELSE box
  /\ UNCHANGED <<held, pend, pcache, out, row>>

\* CHARACTER::ReqSafeboxLoad and QUERY_SAFEBOX_LOAD.
OpenBox(p) ==
  /\ "safebox" \in Events
  /\ st[p] = "play" /\ box[AcctOf[p]] = "shut" /\ Room
  /\ box' = [box EXCEPT ![AcctOf[p]] = "wait"]
  /\ queue' = Append(queue, Select("safebox", AcctOf[p]))
  /\ sent' = NotSent
  /\ UNCHANGED <<held, pend, st, cache, sets, pcache, out, row, res>>

(* What a player does with its items.                                         *)

InPlay(i, at) == held[i].at = at /\ held[i].who \in Players /\ st[held[i].who] = "play"
Carried(i) == InPlay(i, "bag")

\* A change of an item the player keeps is saved later.
Use(i) ==
  /\ Carried(i)
  /\ \E v \in Vals \ {held[i].val} : held' = [held EXCEPT ![i].val = v]
  /\ pend' = pend \cup {i}
  /\ sent' = NotSent
  /\ UNCHANGED <<st, box, cache, sets, pcache, out, sql>>

\* A change that is saved at once: the item's new state is sent to the db.
Moved(i, d) ==
  /\ Room
  /\ held' = [held EXCEPT ![i] = d]
  /\ pend' = pend \ {i}
  /\ SaveSingleItem(i, d)
  /\ sent' = NotSent
  /\ UNCHANGED <<st, box, pcache, out, row, res>>

\* CExchange::Done for one item.
Exchange(i, q) == Carried(i) /\ st[q] = "play" /\ q # held[i].who /\ Moved(i, Bag(q, held[i].val))

\* CHARACTER::DropItem.
Drop(i) == Carried(i) /\ Moved(i, [at |-> "ground", who |-> NoOne, val |-> held[i].val])

\* The item's destroy event, or M2_DESTROY_ITEM of an item nobody picks up.
Vanish(i) == held[i].at = "ground" /\ Moved(i, Absent)

\* CHARACTER::PickupItem: AddToCharacter only marks the item for saving.
PickUp(i, p) ==
  /\ held[i].at = "ground" /\ st[p] = "play"
  /\ held' = [held EXCEPT ![i] = Bag(p, @.val)]
  /\ pend' = pend \cup {i}
  /\ sent' = NotSent
  /\ UNCHANGED <<st, box, cache, sets, pcache, out, sql>>

\* CInputMain::SafeboxCheckin and CSafebox::Add.
CheckIn(i) ==
  /\ Carried(i) /\ box[AcctOf[held[i].who]] = "open"
  /\ Moved(i, InBox(AcctOf[held[i].who], held[i].val))

\* CInputMain::SafeboxCheckout sends ITEM_SAVE and then ITEM_FLUSH
\* (QUERY_ITEM_FLUSH): the row is written whether or not the owner has a set.
SaveAndFlush(i, d) ==
  /\ cache' = With(cache, i, [data |-> d, dirty |-> FALSE,
                              age |-> IF d.who \in DOMAIN sets THEN 0 ELSE Age(i)])
  /\ sets' = Relinked(i, d)
  /\ queue' = Append(queue, Put(i, d))

CheckOut(i, p) ==
  /\ st[p] = "play" /\ held[i].at = "box" /\ held[i].who = AcctOf[p]
  /\ box[AcctOf[p]] = "open" /\ Room
  /\ held' = [held EXCEPT ![i] = Bag(p, @.val)]
  /\ pend' = pend \ {i}
  /\ SaveAndFlush(i, Bag(p, held[i].val))
  /\ sent' = NotSent
  /\ UNCHANGED <<st, box, pcache, out, row, res>>

\* ITEM_MANAGER::Update, or FlushDelayedSave of one item.
SavePending(i) ==
  /\ i \in pend /\ Room
  /\ pend' = pend \ {i}
  /\ SaveSingleItem(i, held[i])
  /\ sent' = NotSent
  /\ UNCHANGED <<held, st, box, pcache, out, row, res>>

\* (mutant) PLAYER_SAVE only updates a table that is already cached.
PutPlayerCache_NoInsert(p) == pcache

PutPlayerCache(p) == pcache \cup {p}

\* The periodic PLAYER_SAVE.
SavePlayer(p) ==
  /\ st[p] = "play" /\ p \notin pcache
  /\ pcache' = PutPlayerCache(p)
  /\ sent' = NotSent
  /\ UNCHANGED <<game, cache, sets, out, sql>>

(* Leaving the game.                                                          *)

\* CHARACTER::Disconnect: PLAYER_SAVE, then the pending items (SavePending),
\* then the safebox is closed; from here on nothing of the player changes.
Disconnect(p) ==
  /\ st[p] = "play"
  /\ st' = [st EXCEPT ![p] = "leaving"]
  /\ pcache' = PutPlayerCache(p)
  /\ sent' = NotSent
  /\ UNCHANGED <<held, pend, box, cache, sets, out, sql>>

\* QUERY_LOGOUT notes the time for every player of the account.
NoteLogout(a) ==
  LET theirs == {q \in Players : AcctOf[q] = a}
  IN out' = [q \in DOMAIN out \cup theirs |-> IF q \in theirs THEN 0 ELSE out[q]]

\* ~DESC: the LOGOUT follows the last pending save of the player.
AllSaved(p) == \A i \in pend : held[i].who # p

Logout(p) ==
  /\ \/ st[p] = "load"
     \/ st[p] = "leaving" /\ AllSaved(p)
  /\ st' = [st EXCEPT ![p] = "off"]
  /\ box' = [box EXCEPT ![AcctOf[p]] = "shut"]
  /\ NoteLogout(AcctOf[p])
  /\ queue' = Redirect(queue, {p}, "peer")
  /\ res' = Redirect(res, {p}, "peer")
  /\ sent' = NotSent
  /\ UNCHANGED <<held, pend, cache, sets, pcache, row>>

\* A LOGOUT of an account that is connected through another peer is handled up
\* to DeleteLogonAccount, which refuses it.
StrayLogout(a) ==
  /\ "stray" \in Events
  /\ \E p \in Players : AcctOf[p] = a /\ st[p] = "play"
  /\ NoteLogout(a)
  /\ sent' = NotSent
  /\ UNCHANGED <<game, cache, sets, pcache, sql>>

\* The game server dies: RemovePeer logs its accounts off without noting the
\* logout.  What was not saved is lost, so the items are what the db knows.
GameCrash ==
  /\ "crash" \in Events
  /\ \E p \in Players : st[p] # "off"
  /\ held' = [i \in Items |-> Saved(Believed(i))]
  /\ pend' = {}
  /\ st' = [p \in Players |-> "off"]
  /\ box' = [a \in Accounts |-> "shut"]
  /\ queue' = Redirect(queue, Players, "none")
  /\ res' = Redirect(res, Players, "none")
  /\ sent' = NotSent
  /\ UNCHANGED <<cache, sets, pcache, out, row>>

(* The timers of the main loop.                                               *)

\* (mutant) a logout is over at once.
LogoutOver_AtOnce(p) == TRUE

\* (mutant) the seconds are counted past the bound.
Older_Unbounded(e) == [e EXCEPT !.age = @ + 1]

Older(e) == IF e.age > ItemSecs THEN e ELSE [e EXCEPT !.age = @ + 1]
Expired(i) == cache[i].dirty /\ Older(cache[i]).age > ItemSecs
LogoutOver(p) == out[p] + 1 > LogoutSecs

\* UpdateItemCache: which of the expired entries are written this second.
UpdateItemCache(done) ==
  LET due == {i \in DOMAIN cache \ done : Expired(i)}
  IN {F \in SUBSET due : Cardinality(F) = Min({Cardinality(due), FlushLimit})}

\* CClientManager::Process, once a second: UpdatePlayerCache, UpdateItemCache,
\* UpdateLogoutPlayer.  Which players' tables are due (T) is left open.
Second ==
  /\ Len(queue) + Len(res) <= MaxQueue
  /\ \E T \in SUBSET pcache :
       LET byPlayer == DirtyIn(Dropped(T))
           over     == {p \in DOMAIN out : LogoutOver(p)}
       IN \E byTimer \in UpdateItemCache(byPlayer) :
            LET F == byPlayer \cup byTimer \cup DirtyIn(Dropped(over)) IN
            /\ queue' = queue \o Writes(F)
            /\ cache' = [i \in DOMAIN cache \ Dropped(over) |->
                           IF i \in F THEN Flushed(cache[i]) ELSE Older(cache[i])]
            /\ sets' = Restrict(sets, DOMAIN sets \ over)
            /\ pcache' = pcache \ over
            /\ out' = [p \in DOMAIN out \ over |-> out[p] + 1]
  /\ sent' = NotSent
  /\ UNCHANGED <<game, row, res>>

\* QUERY_FLUSH_CACHE, sent by a GM's /flush and by a change of name.
FlushCache(p) ==
  /\ "flush" \in Events /\ p \in pcache /\ Room
  /\ queue' = queue \o Writes(DirtyIn(Dropped({p})))
  /\ cache' = Restrict(cache, DOMAIN cache \ Dropped({p}))
  /\ sets' = Restrict(sets, DOMAIN sets \ {p})
  /\ pcache' = pcache \ {p}
  /\ sent' = NotSent
  /\ UNCHANGED <<game, out, row, res>>

\* The db server is stopped and started while nobody is in the game: MainLoop
\* writes every dirty entry on the way out.
Restart ==
  /\ "restart" \in Events /\ \A p \in Players : st[p] = "off"
  /\ queue' = Redirect(queue, Players, "none") \o Writes(DirtyIn(DOMAIN cache))
  /\ res' = Redirect(res, Players, "none")
  /\ cache' = << >> /\ sets' = << >> /\ pcache' = {} /\ out' = << >>
  /\ sent' = NotSent
  /\ UNCHANGED <<game, row>>

(* The SQL thread: one statement.                                             *)

Execute ==
  /\ queue # << >>
  /\ queue' = Tail(queue)
  /\ LET s == Head(queue) IN
     \/ /\ s.op = "put"
        /\ row' = [row EXCEPT ![s.item] = s.data]
        /\ UNCHANGED res
     \/ /\ s.op # "put"
        /\ res' = Append(res, [op |-> s.op, who |-> s.who, to |-> s.to,
                               items |-> IF s.op = "safebox" THEN {} ELSE Found(row, s.op, s.who)])
        /\ UNCHANGED row
  /\ sent' = NotSent
  /\ UNCHANGED <<game, cache, sets, pcache, out>>

Next ==
  \/ \E p \in Players : \/ Load(p) \/ OpenBox(p) \/ SavePlayer(p) \/ Disconnect(p)
                        \/ Logout(p) \/ FlushCache(p)
  \/ \E a \in Accounts : StrayLogout(a)
  \/ \E i \in Items : \/ Use(i) \/ Drop(i) \/ Vanish(i) \/ CheckIn(i) \/ SavePending(i)
                      \/ \E p \in Players : Exchange(i, p) \/ PickUp(i, p) \/ CheckOut(i, p)
  \/ GameCrash \/ Restart \/ Second \/ Execute \/ Pop

Spec == Init /\ [][Next]_vars

\* Both loops run: the thread executes, the main loop pops and ticks.
FairSpec == Spec /\ WF_vars(Execute) /\ WF_vars(Pop) /\ WF_vars(Second)

-----------------------------------------------------------------------------
(* Properties.                                                                *)

Ways    == {"desc", "peer", "none"}
Puts    == [op : {"put"}, item : Items, data : Data]
Reads   == [op : {"bag"}, who : Players, to : Ways]
             \cup [op : {"box", "safebox"}, who : Accounts, to : Ways]
Answers == [op : {"bag"}, who : Players, to : Ways, items : SUBSET (Items \X Vals)]
             \cup [op : {"box", "safebox"}, who : Accounts, to : Ways,
                   items : SUBSET (Items \X Vals)]

\* Every variable keeps its type.
TypeOK ==
  /\ held \in [Items -> Data] /\ pend \subseteq Items
  /\ st \in [Players -> {"off", "load", "play", "leaving"}]
  /\ box \in [Accounts -> {"shut", "wait", "open"}]
  /\ DOMAIN cache \subseteq Items /\ cache \in [DOMAIN cache -> Entry]
  /\ DOMAIN sets \subseteq Players /\ sets \in [DOMAIN sets -> SUBSET Items]
  /\ pcache \subseteq Players
  /\ DOMAIN out \subseteq Players /\ out \in [DOMAIN out -> 0 .. LogoutSecs]
  /\ row \in [Items -> Data]
  /\ queue \in Seq(Puts \cup Reads) /\ res \in Seq(Answers)

\* The item sets hold pointers into m_map_itemCache that FlushItemCacheSet
\* follows and deletes: whatever happens, a set holds only cached items of its
\* player, so no pointer dangles and no entry is deleted through two sets.
LinksAlive ==
  \A p \in DOMAIN sets : sets[p] \subseteq {i \in DOMAIN cache : cache[i].data.who = p}

\* Nothing a game saved is lost, for every item whose last change has been sent:
\* what the db will write, or has written and queued, is the item's state, and
\* so is what it answers from; a clean entry equals the row.
NothingLost ==
  \A i \in Items \ pend : {Saved(Known(i)), Saved(Believed(i))} = {Saved(held[i])}

\* A player that enters the game gets exactly the items it has, as they are, and
\* one that opens the safebox what is in it: none that was given to another
\* player or stored away, none that is missing.
LoadIsCurrent ==
  sent.op \in {"bag", "box"} => sent.items = Found(held, sent.op, sent.who)

\* "What is loaded need not be saved": putting a row that was read into the
\* cache never replaces a value that still waits to be written.
LoadReplacesNothing ==
  [][Len(res') < Len(res) =>
       \A i \in DOMAIN cache : cache[i].dirty => cache'[i].data = cache[i].data]_vars

\* A dirty entry is eventually written, whatever the players do.
EventuallyWritten ==
  \A i \in Items : i \in DOMAIN cache /\ cache[i].dirty
                     ~> i \notin DOMAIN cache \/ ~cache[i].dirty
=============================================================================
