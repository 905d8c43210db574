------------------------------- MODULE GuildWar -------------------------------
(***************************************************************************)
(* Guild wars: CGuildManager and CGuildWarReserve of the db                *)
(* (db/GuildManager.cpp), the games that ask for wars and follow them      *)
(* (guild_war.cpp, guild_manager.cpp), the packets between them and the    *)
(* reservation table.                                                      *)
(*                                                                         *)
(* A field war starts when it is accepted.  A battle is reserved, waits    *)
(* twice, is fought on a war map and settles the stakes of its bettors.    *)
(* Times are seconds left.  The two guilds of a war are one pair.          *)
(***************************************************************************)
EXTENDS Integers, Sequences, FiniteSets

CONSTANTS
  Pairs, Games,
  Types,        \* of "field", "battle", "flag"
  Wars,         \* the ids of the reservation table
  Elems,        \* the addresses of TGuildWarPQElement
  None,
  ReserveSecs, WaitSecs, FieldSecs, BattleSecs,
  MaxQueue,     \* bound on the packets under way in one direction
  Faults        \* what may go wrong once: "db", "game", "link", "insert"

ASSUME SecsAssumption == /\ ReserveSecs \in Nat /\ WaitSecs \in Nat
                         /\ FieldSecs \in Nat /\ BattleSecs \in Nat
ASSUME FiniteAssumption == IsFiniteSet(Pairs) /\ IsFiniteSet(Wars)
ASSUME IdsAssumption  == Wars \subseteq Nat /\ Elems \subseteq Nat

VARIABLES
  enemy,    \* per game and pair: CGuild::m_EnemyGuild
  fought,   \* per game: CGuildManager::m_GuildWar
  toDb, toGame,
  war,      \* m_WarMap: the element and the reservation of a war
  elem,     \* m_pqOnWar: the elements that are allocated
  wait,     \* m_pqWaitStart
  reserve,  \* m_map_kWarReserve
  bet,      \* the wars somebody has staked gold on
  row,      \* the reservation table: started and winner
  sql,      \* per war: the statements of AsyncQuery that have not run
  paid,     \* how often the stakes of a war have been paid
  phase,    \* where Update is
  faults,   \* what has gone wrong
  crowded   \* a war was started while another one waited

gameVars == <<enemy, fought>>
dbVars   == <<war, elem, wait, reserve, bet>>
table    == <<row, sql, paid>>
net      == <<toDb, toGame>>
ghosts   == <<faults, crowded>>
vars     == <<gameVars, net, dbVars, table, phase, ghosts>>

-----------------------------------------------------------------------------
States == {"declare", "wait", "reserve", "on"}
ASSUME NoneAssumption == /\ None \notin Wars /\ None \notin Elems
                         /\ None \notin Types /\ None \notin States

Opening == {"SEND_DECLARE", "REFUSE", "WAIT_START", "RESERVE", "ON_WAR"}
Closing == {"OVER", "END", "CANCEL"}
Packets == [war : Opening, pair : Pairs, type : Types, draw : BOOLEAN]
             \cup [war : Closing, pair : Pairs, type : {None}, draw : BOOLEAN]
Secs    == 0 .. BattleSecs + FieldSecs + WaitSecs + ReserveSecs

Packet(k, p, t) == [war |-> k, pair |-> p, type |-> t, draw |-> FALSE]
Close(k, p)     == Packet(k, p, None)
NoEnemy == [type |-> None, state |-> None]
NoWar   == [elem |-> None, res |-> None]
Free    == [pair |-> None, type |-> None, left |-> 0, ended |-> FALSE]
Absent  == [pair |-> None, type |-> None, left |-> 0, started |-> FALSE]

Statements == {"start", "settle", "award"}

TypeOK ==
  /\ enemy \in [Games -> [Pairs -> [type : Types, state : States] \cup {NoEnemy}]]
  /\ fought \in [Games -> SUBSET Pairs]
  /\ toDb \in [Games -> Seq(Packets)]
  /\ toGame \in [Games -> Seq(Packets)]
  /\ war \in [Pairs -> [elem : Elems, res : Wars \cup {None}] \cup {NoWar}]
  /\ elem \in [Elems -> [pair : Pairs, type : Types, left : Secs, ended : BOOLEAN]
                          \cup {Free}]
  /\ wait \in SUBSET [pair : Pairs, type : Types, left : Secs, res : Wars]
  /\ reserve \in [Wars -> [pair : Pairs, type : Types, left : Secs, started : BOOLEAN]
                            \cup {Absent}]
  /\ bet \in SUBSET Wars
  /\ row \in [Wars -> {"none", "open", "started", "settled"}]
  /\ sql \in [Wars -> Seq(Statements)]
  /\ paid \in [Wars -> 0 .. 2]
  /\ phase \in {"idle", "reserve", "onwar", "waitstart"}
  /\ faults \in SUBSET Faults
  /\ crowded \in BOOLEAN

Init ==
  /\ enemy = [g \in Games |-> [p \in Pairs |-> NoEnemy]]
  /\ fought = [g \in Games |-> {}]
  /\ toDb = [g \in Games |-> <<>>]
  /\ toGame = [g \in Games |-> <<>>]
  /\ war = [p \in Pairs |-> NoWar]
  /\ elem = [e \in Elems |-> Free]
  /\ wait = {}
  /\ reserve = [w \in Wars |-> Absent]
  /\ bet = {}
  /\ row = [w \in Wars |-> "none"]
  /\ sql = [w \in Wars |-> <<>>]
  /\ paid = [w \in Wars |-> 0]
  /\ phase = "idle"
  /\ faults = {}
  /\ crowded = FALSE

-----------------------------------------------------------------------------
(* What guild masters, war maps and game masters ask of the db.            *)

Send(g, m) ==
  /\ Len(toDb[g]) < MaxQueue
  /\ toDb' = [toDb EXCEPT ![g] = Append(@, m)]
  /\ UNCHANGED <<gameVars, toGame, dbVars, table, phase, ghosts>>

RequestDeclareWar(g, p, t) ==
  /\ enemy[g][p] = NoEnemy
  /\ Send(g, Packet("SEND_DECLARE", p, t))

\* The answer to a declaration: nothing changes until the db has decided.
AcceptWar(g, p) ==
  /\ enemy[g][p].state = "declare"
  /\ Send(g, Packet(IF enemy[g][p].type = "field" THEN "ON_WAR" ELSE "WAIT_START",
                    p, enemy[g][p].type))

RequestRefuseWar(g, p) ==
  /\ enemy[g][p].state = "declare"
  /\ Send(g, Packet("REFUSE", p, enemy[g][p].type))

\* A war map has a winner, or has run out of members.
RequestWarOver(g, p) ==
  /\ enemy[g][p].state = "on"
  /\ enemy[g][p].type = "battle"
  /\ \E d \in BOOLEAN : Send(g, [Close("OVER", p) EXCEPT !.draw = d])

RequestEndWar(g, p)    == Send(g, Close("END", p))
RequestCancelWar(g, p) == Send(g, Close("CANCEL", p))

-----------------------------------------------------------------------------
(* A game follows what the db tells it (CInputDB::GuildWar).               *)

\* CGuildManager::EndWar: only a war that was started is forgotten.
EndWar(g, p) ==
  IF p \in fought[g]
  THEN /\ enemy' = [enemy EXCEPT ![g] = [@ EXCEPT ![p] = NoEnemy]]
       /\ fought' = [fought EXCEPT ![g] = @ \ {p}]
  ELSE UNCHANGED gameVars

SetEnemy(g, p, e) == enemy' = [enemy EXCEPT ![g] = [@ EXCEPT ![p] = e]]

Follow(g, m) ==
  LET p == m.pair
      e == enemy[g][p]
  IN \/ /\ m.war = "SEND_DECLARE"
        /\ IF e = NoEnemy THEN SetEnemy(g, p, [type |-> m.type, state |-> "declare"])
                          ELSE UNCHANGED enemy
        /\ UNCHANGED fought
     \/ /\ m.war = "REFUSE"
        /\ IF e.state = "declare" THEN SetEnemy(g, p, NoEnemy) ELSE UNCHANGED enemy
        /\ UNCHANGED fought
     \/ /\ m.war = "WAIT_START"
        /\ IF e = NoEnemy THEN UNCHANGED enemy
                          ELSE SetEnemy(g, p, [type |-> e.type, state |-> "wait"])
        /\ UNCHANGED fought
     \/ /\ m.war = "RESERVE"
        /\ SetEnemy(g, p, [type |-> IF e = NoEnemy THEN m.type ELSE e.type,
                           state |-> "reserve"])
        /\ UNCHANGED fought
     \/ /\ m.war = "ON_WAR"
        /\ IF e = NoEnemy \/ e.state = "on"
           THEN UNCHANGED gameVars
           ELSE /\ SetEnemy(g, p, [type |-> e.type, state |-> "on"])
                /\ fought' = [fought EXCEPT ![g] = @ \cup {p}]
     \/ /\ m.war \in Closing
        /\ EndWar(g, p)

GameReceives(g) ==
  /\ toGame[g] # <<>>
  /\ Follow(g, Head(toGame[g]))
  /\ toGame' = [toGame EXCEPT ![g] = Tail(@)]
  /\ UNCHANGED <<toDb, dbVars, table, phase, ghosts>>

-----------------------------------------------------------------------------
(* The war map of the db.                                                  *)

Room == \A g \in Games : Len(toGame[g]) < MaxQueue
Told(m) == [g \in Games |-> Append(toGame[g], m)]

SecsOf(t) == IF t = "field" THEN FieldSecs ELSE BattleSecs

\* The entry of the pair is overwritten; an older element stays in the queue.
\* Which free memory the new element gets makes no difference: the lowest.
StartWar(p, t, r) ==
  \E e \in Elems :
    /\ elem[e] = Free /\ \A f \in Elems : f < e => elem[f] # Free
    /\ elem' = [elem EXCEPT ![e] = [pair |-> p, type |-> t, left |-> SecsOf(t),
                                    ended |-> FALSE]]
    /\ war' = [war EXCEPT ![p] = [elem |-> e, res |-> r]]

\* RemoveWar leaves the element to Update, marked.
RemoveWar(p, els) ==
  IF war[p] = NoWar THEN els
  ELSE [els EXCEPT ![war[p].elem] = [@ EXCEPT !.ended = TRUE]]

Forget_Late(p) == war
Forget(p) == [war EXCEPT ![p] = NoWar]

\* WarEnd(draw or not): the ladder points are left out.
Ends(p) == war[p] # NoWar /\ ~elem[war[p].elem].ended

-----------------------------------------------------------------------------
(* CGuildWarReserve: the statements of Draw and End.                       *)

Draw_PaysFirst(w) == IF w \in bet THEN <<"award", "settle">> ELSE <<"settle">>
Draw(w) == IF w \in bet THEN <<"settle", "award">> ELSE <<"settle">>

\* End pays the winners, when somebody has bet on them; RecvWarOver calls it
\* for battles only.
Settlements(w, t, draw) ==
  IF draw THEN {Draw(w)} ELSE IF t = "battle" THEN {Draw(w), <<"settle">>} ELSE {<<>>}

Queued(w, s) == sql' = [sql EXCEPT ![w] = @ \o s]

RunStatement(w) ==
  /\ sql[w] # <<>>
  /\ sql' = [sql EXCEPT ![w] = Tail(@)]
  /\ row' = [row EXCEPT ![w] = CASE Head(sql[w]) = "start"  -> "started"
                                 [] Head(sql[w]) = "settle" -> "settled"
                                 [] OTHER -> @]
  /\ paid' = [paid EXCEPT ![w] = IF Head(sql[w]) = "award" /\ @ < 2 THEN @ + 1 ELSE @]
  /\ UNCHANGED <<gameVars, net, dbVars, phase, ghosts>>

-----------------------------------------------------------------------------
(* The db takes a packet of a game, and tells all games.                   *)

Forward(m) == toGame' = Told(m)

\* CGuildManager::ReserveWar: a row of its own for every request.
ReserveWar(m) ==
  \/ \E w \in Wars :
       /\ row[w] = "none" /\ \A v \in Wars : v < w => row[v] # "none"
       /\ row' = [row EXCEPT ![w] = "open"]
       /\ reserve' = [reserve EXCEPT ![w] = [pair |-> m.pair, type |-> m.type,
                                            left |-> ReserveSecs, started |-> FALSE]]
       /\ Forward(Packet("RESERVE", m.pair, m.type))
       /\ UNCHANGED faults
  \/ /\ "insert" \in Faults \ faults
     /\ faults' = faults \cup {"insert"}
     /\ Forward(Close("CANCEL", m.pair))
     /\ UNCHANGED <<row, reserve>>

RecvWarOver(m) ==
  LET p == m.pair
      r == war[p].res
  IN /\ elem' = RemoveWar(p, elem)
     /\ war' = Forget(p)
     /\ IF r # None
        THEN \E s \in Settlements(r, elem[war[p].elem].type, m.draw) : Queued(r, s)
        ELSE UNCHANGED sql
     /\ Forward(m)

\* WarEnd, for RecvWarEnd and for a war that has lasted too long.
WarEnd_Silent(p, els) ==
  IF Ends(p)
  THEN /\ elem' = RemoveWar(p, els)
       /\ war' = Forget(p)
       /\ UNCHANGED toGame
  ELSE elem' = els /\ UNCHANGED <<war, toGame>>
WarEnd(p, els) ==
  IF Ends(p)
  THEN /\ elem' = RemoveWar(p, els)
       /\ war' = Forget(p)
       /\ Forward(Close("END", p))
  ELSE elem' = els /\ UNCHANGED <<war, toGame>>

\* Bound: the elements that reserved wars may need are kept for them.
Spare == Cardinality({e \in Elems : elem[e] = Free}) > Cardinality(Wars)

Handle(m) ==
  \/ /\ m.war \in {"SEND_DECLARE", "REFUSE"}
     /\ Forward(m)
     /\ UNCHANGED <<dbVars, row, sql, faults>>
  \/ /\ m.war = "WAIT_START"
     /\ ReserveWar(m)
     /\ UNCHANGED <<war, elem, wait, bet, sql>>
  \/ /\ m.war = "ON_WAR"
     /\ Spare
     /\ StartWar(m.pair, m.type, None)
     /\ Forward(m)
     /\ UNCHANGED <<wait, reserve, bet, row, sql, faults>>
  \/ /\ m.war = "OVER"
     /\ RecvWarOver(m)
     /\ UNCHANGED <<wait, reserve, bet, row, faults>>
  \/ /\ m.war = "END"
     /\ WarEnd(m.pair, elem)
     /\ UNCHANGED <<wait, reserve, bet, row, sql, faults>>
  \/ /\ m.war = "CANCEL"
     /\ elem' = RemoveWar(m.pair, elem)
     /\ war' = Forget(m.pair)
     /\ Forward(m)
     /\ UNCHANGED <<wait, reserve, bet, row, sql, faults>>

DbReceives(g) ==
  /\ phase = "idle"
  /\ toDb[g] # <<>>
  /\ Room
  /\ Handle(Head(toDb[g]))
  /\ toDb' = [toDb EXCEPT ![g] = Tail(@)]
  /\ UNCHANGED <<gameVars, paid, phase, crowded>>

\* A stake is taken until the war is announced.
Bet(w) ==
  /\ phase = "idle"
  /\ reserve[w] # Absent
  /\ ~reserve[w].started
  /\ bet' = bet \cup {w}
  /\ UNCHANGED <<gameVars, net, war, elem, wait, reserve, table, phase, ghosts>>

-----------------------------------------------------------------------------
(* Update, once a second.                                                  *)

Less_Wraps(n) == n - 1
Less(n) == IF n = 0 THEN 0 ELSE n - 1

Older(x) == [x EXCEPT !.left = Less(@)]

Update ==
  /\ phase = "idle"
  /\ phase' = "reserve"
  /\ elem' = [e \in Elems |-> Older(elem[e])]
  /\ wait' = {Older(x) : x \in wait}
  /\ reserve' = [w \in Wars |-> Older(reserve[w])]
  /\ UNCHANGED <<gameVars, net, war, bet, table, ghosts>>

Due(w) == reserve[w] # Absent /\ ~reserve[w].started /\ reserve[w].left = 0

ProcessReserveWar ==
  /\ phase = "reserve"
  /\ \/ \E w \in Wars :
          /\ Due(w)
          /\ Room
          /\ Queued(w, <<"start">>)
          /\ reserve' = [reserve EXCEPT ![w] = [@ EXCEPT !.started = TRUE]]
          /\ wait' = wait \cup {[pair |-> reserve[w].pair, type |-> reserve[w].type,
                                left |-> WaitSecs, res |-> w]}
          /\ Forward(Packet("WAIT_START", reserve[w].pair, reserve[w].type))
          /\ UNCHANGED phase
     \/ /\ \A w \in Wars : ~Due(w)
        /\ phase' = "onwar"
        /\ UNCHANGED <<sql, reserve, wait, toGame>>
  /\ UNCHANGED <<gameVars, toDb, war, elem, bet, row, paid, ghosts>>

\* The front of a priority queue: nothing is due before it.
Front(e) ==
  elem[e] # Free /\ \A f \in Elems : elem[f] # Free => elem[e].left <= elem[f].left

Expired_OnlyEnded(e) == Front(e) /\ elem[e].ended
Expired(e) == Front(e) /\ (elem[e].left = 0 \/ elem[e].ended)

Foremost(S) == {x \in S : \A y \in S : x.left <= y.left}

ProcessOnWar ==
  /\ phase = "onwar"
  /\ \/ \E e \in Elems :
          /\ Expired(e)
          /\ Room
          /\ IF elem[e].ended
             THEN elem' = [elem EXCEPT ![e] = Free] /\ UNCHANGED <<war, toGame>>
             ELSE LET p == elem[e].pair IN
                  IF Ends(p)
                  THEN /\ elem' = [RemoveWar(p, elem) EXCEPT ![e] = Free]
                       /\ war' = Forget(p)
                       /\ Forward(Close("END", p))
                  ELSE elem' = [elem EXCEPT ![e] = Free] /\ UNCHANGED <<war, toGame>>
          /\ UNCHANGED phase
     \/ /\ \A e \in Elems : ~Expired(e)
        /\ phase' = "waitstart"
        /\ UNCHANGED <<war, elem, toGame>>
  /\ UNCHANGED <<gameVars, toDb, wait, reserve, bet, table, ghosts>>

\* `ws' is a reference to the top of m_pqWaitStart, which is popped before it
\* is used: with more than one entry it then names the entry that comes next.
Named(x) == IF wait = {x} THEN {x} ELSE Foremost(wait \ {x})

ProcessWaitStart ==
  /\ phase = "waitstart"
  /\ \/ \E x \in Foremost(wait) :
          /\ x.left = 0
          /\ Room
          /\ wait' = wait \ {x}
          /\ \E ws \in Named(x) : /\ StartWar(ws.pair, ws.type, ws.res)
                                 /\ Forward(Packet("ON_WAR", ws.pair, ws.type))
          /\ crowded' = (crowded \/ wait # {x})
          /\ UNCHANGED phase
     \/ /\ \A x \in wait : x.left > 0
        /\ phase' = "idle"
        /\ UNCHANGED <<wait, war, elem, toGame, crowded>>
  /\ UNCHANGED <<gameVars, toDb, reserve, bet, table, faults>>

-----------------------------------------------------------------------------
(* Restarts and broken connections.                                        *)

\* CLIENT_DESC::Destroy: games that lose the db end the wars they fight.
StopAllGuildWar(lost) ==
  /\ enemy' = [g \in Games |-> [p \in Pairs |->
                  IF g \in lost /\ p \in fought[g] THEN NoEnemy ELSE enemy[g][p]]]
  /\ fought' = [g \in Games |-> IF g \in lost THEN {} ELSE fought[g]]

Orders(S) == {s \in [1 .. Cardinality(S) -> S] :
                \A i, j \in 1 .. Cardinality(S) : s[i] = s[j] => i = j}

Reservations(res) == {Packet("RESERVE", res[w].pair, res[w].type) :
                        w \in {v \in Wars : res[v] # Absent /\ ~res[v].started}}

\* The db loses its memory, its packets and its statements, the games lose the
\* db.  BootReserveWar calls off the wars that were announced or that it has
\* missed.
DbRestart ==
  /\ "db" \in Faults \ faults
  /\ faults' = faults \cup {"db"}
  /\ \E missed \in SUBSET {w \in Wars : row[w] = "open"} :
       LET off == missed \cup {w \in Wars : row[w] = "started"}
       IN /\ reserve' = [w \in Wars |-> IF row[w] = "open" /\ w \notin missed
                                        THEN [reserve[w] EXCEPT !.started = FALSE]
                                        ELSE Absent]
          /\ sql' = [w \in Wars |-> IF w \in off THEN Draw(w) ELSE <<>>]
  /\ war' = [p \in Pairs |-> NoWar]
  /\ elem' = [e \in Elems |-> Free]
  /\ wait' = {}
  /\ phase' = "idle"
  /\ StopAllGuildWar(Games)
  /\ toDb' = [g \in Games |-> <<>>]
  /\ \E s \in Orders(Reservations(reserve')) : toGame' = [g \in Games |-> s]
  /\ UNCHANGED <<bet, row, paid, crowded>>

\* A game that was restarted, or whose connection broke, comes back and is told
\* of the wars and the reservations.
GameReconnects(g) ==
  /\ phase = "idle"
  /\ \/ /\ "game" \in Faults \ faults
        /\ faults' = faults \cup {"game"}
        /\ enemy' = [enemy EXCEPT ![g] = [p \in Pairs |-> NoEnemy]]
        /\ fought' = [fought EXCEPT ![g] = {}]
     \/ /\ "link" \in Faults \ faults
        /\ faults' = faults \cup {"link"}
        /\ StopAllGuildWar({g})
  /\ toDb' = [toDb EXCEPT ![g] = <<>>]
  /\ \E s \in Orders({Packet("ON_WAR", p, elem[war[p].elem].type) :
                        p \in {q \in Pairs : Ends(q)}}),
        t \in Orders(Reservations(reserve)) : toGame' = [toGame EXCEPT ![g] = s \o t]
  /\ UNCHANGED <<dbVars, table, phase, crowded>>

-----------------------------------------------------------------------------
Next ==
  \/ \E g \in Games, p \in Pairs :
       \/ \E t \in Types : RequestDeclareWar(g, p, t)
       \/ AcceptWar(g, p)
       \/ RequestRefuseWar(g, p)
       \/ RequestWarOver(g, p)
       \/ RequestEndWar(g, p)
       \/ RequestCancelWar(g, p)
  \/ \E g \in Games : GameReceives(g) \/ DbReceives(g) \/ GameReconnects(g)
  \/ \E w \in Wars : Bet(w) \/ RunStatement(w)
  \/ Update \/ ProcessReserveWar \/ ProcessOnWar \/ ProcessWaitStart
  \/ DbRestart

Spec == Init /\ [][Next]_vars

\* Both processes run their loops.
FairSpec ==
  /\ Spec
  /\ WF_vars(Update) /\ WF_vars(ProcessReserveWar)
  /\ WF_vars(ProcessOnWar) /\ WF_vars(ProcessWaitStart)
  /\ \A g \in Games : WF_vars(GameReceives(g))
-----------------------------------------------------------------------------
(* Properties.                                                             *)

\* The element a war points to is allocated, in the queue that will end the
\* war, not marked as ended, and of the pair, however wars of one pair follow
\* and overwrite each other (m_WarMap, m_pqOnWar).
ElementsAlive ==
  \A p \in Pairs : war[p] # NoWar =>
    LET x == elem[war[p].elem] IN x # Free /\ ~x.ended /\ x.pair = p

ToldEnd(g, p) == \E i \in DOMAIN toGame[g] :
                   toGame[g][i].war \in Closing /\ toGame[g][i].pair = p

\* A war that goes on in a game goes on in the db, or the packet that ends it
\* is under way: no end of a war is kept from a game.  A db that comes back has
\* forgotten its wars and tells nobody, but no game has kept one then, nor has
\* an ON_WAR left that it could still follow.
WarsAreBacked ==
  \A g \in Games, p \in Pairs : p \in fought[g] => war[p] # NoWar \/ ToldEnd(g, p)

\* The stakes on a war are paid once at the most, whatever is answered twice,
\* overwritten, called off or lost with the db (CGuildWarReserve::Draw, End,
\* BootReserveWar), as long as no two wars wait for their start together.
StakesPaidOnce == crowded \/ \A w \in Wars : paid[w] <= 1

\* Every war ends, even if no game reports its end (CGuildManager::Update).
WarsEnd == \A p \in Pairs : (war[p] # NoWar) ~> (war[p] = NoWar)

\* "WaitStart -> StartWar -> EndWar" (guild_war.cpp): a war waits, then it is
\* fought; no war is fought while its entry still waits.
WaitsThenFights ==
  \A x \in wait : \A p \in Pairs : war[p] # NoWar => war[p].res # x.res
=============================================================================
