------------------------------- MODULE Party -------------------------------
(* The parties of one channel: every game of the channel keeps all of them     *)
(* (CPartyManager, CParty), and the db keeps them once more                    *)
(* (m_map_pkChannelParty).  A game changes its own copy at once and tells the  *)
(* db, which tells the others.                                                 *)
(*                                                                             *)
(* Modelled: creation, joining, leaving, expelling and disbanding, members     *)
(* that log out, log in and move to another game, level messages, the games'   *)
(* connections to the db with their SETUP, breaks, crashes and restarts.       *)
(* Left out: roles, bonuses, invitations that wait, dungeons, and what the     *)
(* clients are told.                                                           *)
EXTENDS Integers, Sequences, FiniteSets, FiniteSetsExt

CONSTANTS
  Games,       \* game processes of the channel
  Pids,        \* players
  Ids,         \* memory of each game for CParty objects
  NoOne,       \* no player, no game
  NoId,        \* the null pointer to a CParty
  NoParty,     \* no entry in m_map_pkChannelParty
  MaxMembers,  \* PARTY_MAX_MEMBER
  MaxQueue,    \* bound: players act while fewer messages are under way (and faults past)
  MaxBreaks,   \* bound: faults in a behaviour
  Undeterred,  \* bound: players change parties also after an error or a fault
  Events       \* faults: subset of {"drop", "crash", "restart"}

ASSUME NullAssumption == NoOne \notin Pids \cup Games /\ NoId \notin Ids
ASSUME PartyAssumption == \A S \in SUBSET Pids : NoParty # S
ASSUME BoundAssumption == MaxBreaks \in Nat /\ Undeterred \in BOOLEAN

VARIABLES
  party,   \* db: m_map_pkChannelParty of the channel: leader -> members
  known,   \* db: peers that have sent SETUP
  free,    \* db: players that are not logged on
  dbOdd,   \* an error was logged by the db
  breaks,  \* history: connections that broke, processes that ended
  heap,    \* game: its CParty objects, maps, pointers and output buffer
  setup,   \* the answer to SETUP that is on its way to a game
  toGame,  \* what the db sent to a game after it
  up,      \* games with a connection to the db (m_bEnablePCParty)
  at,      \* the game that has a player's character
  ingame   \* characters that have entered the game

dbVars == <<party, known, free, dbOdd, breaks>>
chars == <<at, ingame>>
vars == <<party, known, free, dbOdd, breaks, heap, setup, toGame, up, at, ingame>>

-----------------------------------------------------------------------------
(* CParty and CPartyManager.  A heap holds the objects of one game (Dead is    *)
(* memory of none), m_map_pkParty, the m_pkParty of each character, the        *)
(* messages to the db, and whether an error was logged or one of two races     *)
(* happened that the code does not notice (see P2PQuitParty and Leveled).      *)

Ops == {"setup", "create", "delete", "add", "remove", "level", "logout", "enter"}
Msgs == [op : Ops, leader : Pids \cup {NoOne}, pid : Pids \cup {NoOne}]
Msg(op, l, p) == [op |-> op, leader |-> l, pid |-> p]

\* m_memberMap: members, and chars, those whose pCharacter is not NULL.
Dead == [leader |-> NoOne, members |-> {}, chars |-> {}]
Object(l, ms, cs) == [leader |-> l, members |-> ms, chars |-> cs]

Heap(o, m, l, q, e) == [obj |-> o, map |-> m, link |-> l, out |-> q, odd |-> e]

Say(h, m) == Heap(h.obj, h.map, h.link, Append(h.out, m), h.odd)
Odd(h) == Heap(h.obj, h.map, h.link, h.out, TRUE)

New(h) == CHOOSE id \in Ids : h.obj[id] = Dead
Room(h) == \E id \in Ids : h.obj[id] = Dead

\* CParty::Destroy: SetPartyMember(.., NULL) for the members, SetParty(NULL) for
\* the characters.
Destroy(h, id) ==
  Heap([h.obj EXCEPT ![id] = Dead],
       [p \in Pids |-> IF p \in h.obj[id].members THEN NoId ELSE h.map[p]],
       [p \in Pids |-> IF p \in h.obj[id].chars THEN NoId ELSE h.link[p]],
       h.out, h.odd)

DeleteParty(h, id) ==
  Destroy(Say(h, Msg("delete", h.obj[id].leader, h.obj[id].leader)), id)

Without(h, id, p) ==
  LET x == h.obj[id] IN
    Heap([h.obj EXCEPT ![id] = Object(x.leader, x.members \ {p}, x.chars \ {p})],
         [h.map EXCEPT ![p] = NoId],
         [h.link EXCEPT ![p] = IF p \in x.chars THEN NoId ELSE @],
         h.out, h.odd)

\* P2PQuit: the party ends with its leader.
P2PQuit_Keep(h, id, p) == IF p \notin h.obj[id].members THEN h ELSE Without(h, id, p)

P2PQuit(h, id, p) ==
  IF p \notin h.obj[id].members THEN h
  ELSE IF p = h.obj[id].leader THEN DeleteParty(Without(h, id, p), id)
  ELSE Without(h, id, p)

\* Quit tells the db, unless it was the leader; then DeleteParty has.  (Quit reads
\* the leader from the deleted object, whose memory still holds it.)
Quit(h, id, p) ==
  LET l == h.obj[id].leader IN
    IF p = l THEN P2PQuit(h, id, p) ELSE Say(P2PQuit(h, id, p), Msg("remove", l, p))

\* SetPartyMember: of two parties, the first is left.  That takes the player's
\* entry off m_map_pkParty, and `it->second = pParty' writes to the entry that
\* is gone: the player is in the second party without an entry.
SetPartyMember(h, p, id) ==
  IF h.map[p] = NoId THEN Heap(h.obj, [h.map EXCEPT ![p] = id], h.link, h.out, h.odd)
  ELSE IF h.map[p] = id THEN h
  ELSE Quit(h, h.map[p], p)

\* P2PJoin: the first member is the leader.
P2PJoin(h, id, p) ==
  LET x == h.obj[id]
      l == IF x.members = {} THEN p ELSE x.leader
      o == [h.obj EXCEPT ![id] = Object(l, x.members \cup {p}, x.chars)]
  IN IF p \in x.members THEN h
     ELSE SetPartyMember(Heap(o, h.map, h.link, h.out, h.odd), p, id)

Join(h, id, p) ==
  LET k == P2PJoin(h, id, p) IN Say(k, Msg("add", k.obj[id].leader, p))

\* Link, with its RequestSetMemberLevel; Unlink.
Link(h, id, p) ==
  LET x == h.obj[id] IN
    IF p \notin x.members THEN Odd(h)
    ELSE Say(Heap([h.obj EXCEPT ![id] = Object(x.leader, x.members, x.chars \cup {p})],
                  h.map, [h.link EXCEPT ![p] = id], h.out, h.odd),
             Msg("level", x.leader, p))

Unlink(h, id, p) ==
  LET x == h.obj[id] IN
    IF p \notin x.members THEN Odd(h)
    ELSE Heap([h.obj EXCEPT ![id] = Object(x.leader, x.members, x.chars \ {p})],
              h.map, [h.link EXCEPT ![p] = NoId], h.out, h.odd)

\* CreateParty, for a player without a party.
CreateParty(h, p) ==
  LET id == New(h) IN Link(Join(Say(h, Msg("create", p, p)), id, p), id, p)

\* P2PCreateParty: whatever party the player is in will do.
P2PCreateParty(h, p) == IF h.map[p] # NoId THEN h ELSE P2PJoin(h, New(h), p)

P2PDeleteParty(h, p) == IF h.map[p] = NoId THEN Odd(h) ELSE Destroy(h, h.map[p])

P2PJoinParty(h, l, p) == IF h.map[l] = NoId THEN Odd(h) ELSE P2PJoin(h, h.map[l], p)

\* The leader that the message names does not matter: a player that has joined
\* another party meanwhile is taken out of that one, and nobody notices.
P2PQuitParty(h, l, p) ==
  LET k == P2PQuit(h, h.map[p], p) IN
    IF h.map[p] = NoId THEN Odd(h)
    ELSE IF h.obj[h.map[p]].leader # l THEN Odd(k) ELSE k

\* PartySetMemberLevel looks the party up with P2PCreateParty: a message that
\* comes after the end of the party makes a new one, of the leader alone, which
\* no other process knows.
Leveled(h, l) == IF h.map[l] # NoId THEN h ELSE Odd(P2PCreateParty(h, l))

Handled(h, m) ==
  CASE m.op = "create" -> P2PCreateParty(h, m.leader)
    [] m.op = "delete" -> P2PDeleteParty(h, m.leader)
    [] m.op = "add"    -> P2PJoinParty(h, m.leader, m.pid)
    [] m.op = "remove" -> P2PQuitParty(h, m.leader, m.pid)
    [] OTHER           -> Leveled(h, m.leader)

-----------------------------------------------------------------------------
Nobody == [p \in Pids |-> NoId]
NoObjects == [id \in Ids |-> Dead]

Init ==
  /\ party = [l \in Pids |-> NoParty]
  /\ known = {} /\ free = Pids /\ dbOdd = FALSE /\ breaks = 0
  /\ heap = [g \in Games |-> Heap(NoObjects, Nobody, Nobody, << >>, FALSE)]
  /\ setup = [g \in Games |-> {}]
  /\ toGame = [g \in Games |-> << >>]
  /\ up = {}
  /\ at = [p \in Pids |-> NoOne] /\ ingame = {}

-----------------------------------------------------------------------------
(* A game and its players.                                                     *)

Local(g, h) == /\ heap' = [heap EXCEPT ![g] = h]
               /\ UNCHANGED <<dbVars, setup, toGame, up>>

\* Bounds: messages under way, fewer after a fault; and after an error or a fault
\* players only come and go.
UnderWay ==
  MapThenSumSet(LAMBDA g : Len(heap[g].out) + Cardinality(setup[g]) + Len(toGame[g]), Games)
Calm == UnderWay + breaks < MaxQueue
Logged == dbOdd \/ \E g \in Games : heap[g].odd
Trusting == Undeterred \/ (breaks = 0 /\ ~Logged)

\* A player in the game g acts on the party id, NoId if it has none.
Acts(p, g, id) ==
  /\ p \in ingame /\ at[p] = g /\ g \in up
  /\ heap[g].link[p] = id

Leads(p, g, id) == heap[g].obj[id].leader = p
Size(g, id) == Cardinality(heap[g].obj[id].members)

\* PartyInviteAccept, PartyJoin: q accepts what p offered; p has no party yet, or
\* leads one that is not full.
Found(h, p, q) ==
  LET k == CreateParty(h, p) IN Link(Join(k, k.link[p], q), k.link[p], q)

InviteToNew(p, q) ==
  LET g == at[p] IN
    /\ p # q /\ Acts(p, g, NoId) /\ Acts(q, g, NoId)
    /\ Room(heap[g])
    /\ Local(g, Found(heap[g], p, q))
    /\ UNCHANGED chars

Invite(p, q, id) ==
  LET g == at[p] IN
    /\ Acts(p, g, id) /\ Acts(q, g, NoId)
    /\ Leads(p, g, id)
    /\ Size(g, id) # MaxMembers
    /\ Local(g, Link(Join(heap[g], id, q), id, q))
    /\ UNCHANGED chars

\* CInputMain::PartyRemove by the leader: any player may be named.
Expel(p, q, id) ==
  LET g == at[p] IN
    /\ Acts(p, g, id) /\ Leads(p, g, id)
    /\ Local(g, IF q = p \/ Size(g, id) = 2 THEN DeleteParty(heap[g], id)
                ELSE Quit(heap[g], id, q))
    /\ UNCHANGED chars

\* PartyRemove by a member, for itself, and do_ungroup: a party of two ends.
Leave(p, id) ==
  LET g == at[p] IN
    /\ Acts(p, g, id)
    /\ Local(g, IF Size(g, id) = 2 THEN DeleteParty(heap[g], id)
                ELSE Quit(heap[g], id, p))
    /\ UNCHANGED chars

\* PointChange(POINT_LEVEL): RequestSetMemberLevel.
LevelUp(p, id) ==
  LET g == at[p] IN
    /\ Acts(p, g, id)
    /\ Local(g, Say(heap[g], Msg("level", heap[g].obj[id].leader, p)))
    /\ UNCHANGED chars

\* Entergame: SetParty.
EnterGame(p) ==
  LET g == at[p] IN
    /\ g # NoOne /\ p \notin ingame
    /\ Local(g, IF heap[g].map[p] = NoId THEN heap[g] ELSE Link(heap[g], heap[g].map[p], p))
    /\ ingame' = ingame \cup {p}
    /\ UNCHANGED at

\* Disconnect: Unlink, then the LOGOUT of DESC::Destroy.
Unlinked_Not(h, p) == h
Unlinked(h, p) == IF h.link[p] = NoId THEN h ELSE Unlink(h, h.link[p], p)

Disconnect(p) ==
  LET g == at[p] IN
    /\ g # NoOne
    /\ IF g \in up THEN Local(g, Say(Unlinked(heap[g], p), Msg("logout", NoOne, p)))
       ELSE /\ heap' = [heap EXCEPT ![g] = Unlinked(heap[g], p)]
            /\ free' = free \cup {p}
            /\ UNCHANGED <<party, known, dbOdd, breaks, setup, toGame, up>>
    /\ at' = [at EXCEPT ![p] = NoOne]
    /\ ingame' = ingame \ {p}

\* SetPhase: SETUP, and EnablePCParty without waiting for the answer.
Connect(g) ==
  /\ g \notin up
  /\ up' = up \cup {g}
  /\ heap' = [heap EXCEPT ![g] = Say(@, Msg("setup", NoOne, NoOne))]
  /\ UNCHANGED <<dbVars, setup, toGame, chars>>

\* A message of the db.
Receive(g) ==
  /\ setup[g] = {} /\ toGame[g] # << >>
  /\ toGame' = [toGame EXCEPT ![g] = Tail(@)]
  /\ LET m == Head(toGame[g]) IN
       IF m.op = "enter"
       THEN at' = [at EXCEPT ![m.pid] = g] /\ UNCHANGED heap
       ELSE /\ Room(heap[g])
            /\ heap' = [heap EXCEPT ![g] = Handled(@, m)]
            /\ UNCHANGED at
  /\ UNCHANGED <<dbVars, setup, up, ingame>>

\* A message of the answer to SETUP: in the order of the db's map, which is left
\* open, but CREATE first.  The level of a member follows at once.
ReceiveSetup(g) ==
  \E m \in setup[g] :
    /\ m.op = "add" => Msg("create", m.leader, m.leader) \notin setup[g]
    /\ Room(heap[g])
    /\ LET h == Handled(heap[g], m) IN
         heap' = [heap EXCEPT ![g] = IF m.op = "add" THEN Leveled(h, m.leader) ELSE h]
    /\ setup' = [setup EXCEPT ![g] = @ \ {m}]
    /\ UNCHANGED <<dbVars, toGame, up, chars>>

-----------------------------------------------------------------------------
(* The db.                                                                     *)

\* The next message of the game g, taken off its queue.
Waiting(g, op) == g \in up /\ heap[g].out # << >> /\ Head(heap[g].out).op = op

Took(g) == LET h == heap[g] IN
             heap' = [heap EXCEPT ![g] = Heap(h.obj, h.map, h.link, Tail(h.out), h.odd)]

\* ForwardPacket, to the games of the channel.
Forward(m, to) ==
  toGame' = [r \in Games |-> IF r \in to THEN Append(toGame[r], m) ELSE toGame[r]]

\* sys_err.
Refuse == dbOdd' = TRUE /\ UNCHANGED <<party, toGame>>

QUERY_PARTY_CREATE(g, m) ==
  IF party[m.leader] # NoParty THEN Refuse
  ELSE /\ party' = [party EXCEPT ![m.leader] = {}]
       /\ Forward(m, known \ {g}) /\ UNCHANGED dbOdd

QUERY_PARTY_DELETE(g, m) ==
  IF party[m.leader] = NoParty THEN Refuse
  ELSE /\ party' = [party EXCEPT ![m.leader] = NoParty]
       /\ Forward(m, known \ {g}) /\ UNCHANGED dbOdd

QUERY_PARTY_ADD(g, m) ==
  IF party[m.leader] = NoParty \/ m.pid \in party[m.leader] THEN Refuse
  ELSE /\ party' = [party EXCEPT ![m.leader] = @ \cup {m.pid}]
       /\ Forward(m, known \ {g}) /\ UNCHANGED dbOdd

QUERY_PARTY_REMOVE(g, m) ==
  IF party[m.leader] = NoParty \/ m.pid \notin party[m.leader] THEN Refuse
  ELSE /\ party' = [party EXCEPT ![m.leader] = @ \ {m.pid}]
       /\ Forward(m, known \ {g}) /\ UNCHANGED dbOdd

\* The sender is told, too.
QUERY_PARTY_SET_MEMBER_LEVEL(g, m) ==
  IF party[m.leader] = NoParty \/ m.pid \notin party[m.leader] THEN Refuse
  ELSE Forward(m, known) /\ UNCHANGED <<party, dbOdd>>

DbParty(g) ==
  LET m == Head(heap[g].out) IN
    /\ \/ Waiting(g, "create") /\ QUERY_PARTY_CREATE(g, m)
       \/ Waiting(g, "delete") /\ QUERY_PARTY_DELETE(g, m)
       \/ Waiting(g, "add")    /\ QUERY_PARTY_ADD(g, m)
       \/ Waiting(g, "remove") /\ QUERY_PARTY_REMOVE(g, m)
       \/ Waiting(g, "level")  /\ QUERY_PARTY_SET_MEMBER_LEVEL(g, m)
    /\ Took(g)
    /\ UNCHANGED <<known, free, breaks, setup, up, chars>>

\* SETUP: SendPartyOnSetup.
DbSetup(g) ==
  /\ Waiting(g, "setup") /\ Took(g)
  /\ known' = known \cup {g}
  /\ LET leaders == {l \in Pids : party[l] # NoParty} IN
       setup' = [setup EXCEPT ![g] =
         {Msg("create", l, l) : l \in leaders} \cup
         UNION {{Msg("add", l, p) : p \in party[l]} : l \in leaders}]
  /\ UNCHANGED <<party, free, dbOdd, breaks, toGame, up, chars>>

\* The player may log in again, on any game.
DbLogout(g) ==
  /\ Waiting(g, "logout") /\ Took(g)
  /\ free' = free \cup {Head(heap[g].out).pid}
  /\ UNCHANGED <<party, known, dbOdd, breaks, setup, toGame, up, chars>>

Login(p, g) ==
  /\ p \in free /\ g \in known
  /\ free' = free \ {p}
  /\ Forward(Msg("enter", NoOne, p), {g})
  /\ UNCHANGED <<party, known, dbOdd, breaks, heap, setup, up, chars>>

-----------------------------------------------------------------------------
(* Faults.                                                                     *)

\* CLIENT_DESC::Destroy: DeleteAllParty, whose messages are lost with the rest,
\* and DisablePCParty.
Ended(h) ==
  LET ms == UNION {h.obj[id].members : id \in Ids}
      cs == UNION {h.obj[id].chars : id \in Ids}
  IN Heap(NoObjects,
          [p \in Pids |-> IF p \in ms THEN NoId ELSE h.map[p]],
          [p \in Pids |-> IF p \in cs THEN NoId ELSE h.link[p]],
          << >>, h.odd)

\* Players that were on their way between the db and the games S.
Stranded(S) ==
  {p \in Pids : \E g \in S :
     \/ \E i \in DOMAIN toGame[g] : toGame[g][i] = Msg("enter", NoOne, p)
     \/ \E i \in DOMAIN heap[g].out : heap[g].out[i] = Msg("logout", NoOne, p)}

Cut_Peer(S) ==
  /\ Trusting /\ breaks < MaxBreaks /\ breaks' = breaks + 1
  /\ up' = up \ S /\ known' = known
  /\ toGame' = [g \in Games |-> IF g \in S THEN << >> ELSE toGame[g]]
  /\ setup' = [g \in Games |-> IF g \in S THEN {} ELSE setup[g]]

Cut(S) ==
  /\ Trusting /\ breaks < MaxBreaks /\ breaks' = breaks + 1
  /\ up' = up \ S /\ known' = known \ S
  /\ toGame' = [g \in Games |-> IF g \in S THEN << >> ELSE toGame[g]]
  /\ setup' = [g \in Games |-> IF g \in S THEN {} ELSE setup[g]]

Drop(g) ==
  /\ "drop" \in Events /\ g \in up
  /\ Cut({g})
  /\ heap' = [heap EXCEPT ![g] = Ended(@)]
  /\ free' = free \cup Stranded({g})
  /\ UNCHANGED <<party, dbOdd, chars>>

\* RemovePeer leaves the parties as they are.
Crash(g) ==
  /\ "crash" \in Events /\ g \in up
  /\ Cut({g})
  /\ heap' = [heap EXCEPT ![g] = Heap(NoObjects, Nobody, Nobody, << >>, @.odd)]
  /\ free' = free \cup Stranded({g}) \cup {p \in Pids : at[p] = g}
  /\ at' = [p \in Pids |-> IF at[p] = g THEN NoOne ELSE at[p]]
  /\ ingame' = {p \in ingame : at[p] # g}
  /\ UNCHANGED <<party, dbOdd>>

DbRestart ==
  /\ "restart" \in Events
  /\ Cut(Games)
  /\ heap' = [g \in Games |-> Ended(heap[g])]
  /\ free' = free \cup Stranded(Games)
  /\ party' = [l \in Pids |-> NoParty]
  /\ UNCHANGED <<dbOdd, chars>>

Play(p) ==
  \/ \E q \in Pids : InviteToNew(p, q)
  \/ \E id \in Ids :
       \/ \E q \in Pids : Invite(p, q, id) \/ Expel(p, q, id)
       \/ Leave(p, id) \/ LevelUp(p, id)

ComeAndGo(p) ==
  EnterGame(p) \/ Disconnect(p) \/ \E g \in Games : Login(p, g)

Next ==
  \/ Calm /\ Trusting /\ \E p \in ingame : Play(p)
  \/ Calm /\ \E p \in Pids : ComeAndGo(p)
  \/ \E g \in Games :
       \/ Connect(g) \/ Receive(g) \/ ReceiveSetup(g)
       \/ DbParty(g) \/ DbSetup(g) \/ DbLogout(g)
       \/ Drop(g) \/ Crash(g)
  \/ DbRestart

Spec == Init /\ [][Next]_vars

-----------------------------------------------------------------------------
(* Properties.                                                                 *)

Objects == [leader : Pids \cup {NoOne}, members : SUBSET Pids, chars : SUBSET Pids]
Heaps == [obj : [Ids -> Objects], map : [Pids -> Ids \cup {NoId}],
          link : [Pids -> Ids \cup {NoId}], out : Seq(Msgs), odd : BOOLEAN]

TypeOK ==
  /\ party \in [Pids -> {NoParty} \cup SUBSET Pids]
  /\ known \subseteq up /\ up \subseteq Games
  /\ free \subseteq Pids /\ dbOdd \in BOOLEAN /\ breaks \in Nat
  /\ heap \in [Games -> Heaps]
  /\ setup \in [Games -> SUBSET Msgs]
  /\ toGame \in [Games -> Seq(Msgs)]
  /\ at \in [Pids -> Games \cup {NoOne}]
  /\ ingame \subseteq {p \in Pids : at[p] # NoOne}

\* No pointer dangles, whatever is deleted under whom: m_map_pkParty leads to
\* parties that have the player as a member, a character's m_pkParty and the
\* pCharacter of its party point at each other, only characters that are in the
\* game are pointed at, and a party has its leader.
Sound(h) ==
  /\ \A p \in Pids : h.map[p] # NoId => p \in h.obj[h.map[p]].members
  /\ \A p \in Pids : h.link[p] # NoId => p \in h.obj[h.link[p]].chars
  /\ \A id \in Ids : \A p \in h.obj[id].chars : h.link[p] = id
  /\ \A id \in Ids : h.obj[id].chars \subseteq h.obj[id].members
  /\ \A id \in Ids : h.obj[id].members # {} => h.obj[id].leader \in h.obj[id].members

PointersAlive ==
  \A g \in Games :
    /\ Sound(heap[g])
    /\ \A p \in Pids : heap[g].link[p] # NoId => p \in ingame /\ at[p] = g

\* The copies agree: when no message is under way, every game has the parties of
\* the db with the same members, each of them in the map, unless a connection has
\* broken, a process has logged an error, a late level message has made a party, or
\* a late REMOVE has taken a player out of another party.
Agrees(h) ==
  /\ {<<h.obj[id].leader, h.obj[id].members>> : id \in {i \in Ids : h.obj[i] # Dead}}
       = {<<l, party[l]>> : l \in {k \in Pids : party[k] # NoParty}}
  /\ \A id \in Ids : \A p \in h.obj[id].members : h.map[p] = id

Quiet ==
  /\ known = up
  /\ \A g \in up : heap[g].out = << >> /\ toGame[g] = << >> /\ setup[g] = {}

CopiesAgree ==
  Quiet /\ breaks = 0 /\ ~Logged => \A g \in up : Agrees(heap[g])
=============================================================================
