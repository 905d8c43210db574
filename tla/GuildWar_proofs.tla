---------------------------- MODULE GuildWar_proofs ---------------------------
(* Theorems of GuildWar, for any guilds, games, reservations and durations.   *)
EXTENDS GuildWar, FiniteSetTheorems, SequenceTheorems, TLAPS

USE SecsAssumption, IdsAssumption, NoneAssumption, FiniteAssumption

WarType     == [elem : Elems, res : Wars \cup {None}]
ElemType    == [pair : Pairs, type : Types, left : Secs, ended : BOOLEAN]
WaitType    == [pair : Pairs, type : Types, left : Secs, res : Wars]
ReserveType == [pair : Pairs, type : Types, left : Secs, started : BOOLEAN]
EnemyType   == [type : Types, state : States]

Inv == TypeOK /\ ElementsAlive

-----------------------------------------------------------------------------
(* Packets and records.                                                    *)

LEMMA PacketTypes ==
  ASSUME NEW p \in Pairs
  PROVE  /\ \A k \in Closing : Close(k, p) \in Packets
         /\ \A k \in Opening, t \in Types : Packet(k, p, t) \in Packets
         /\ \A d \in BOOLEAN : [Close("OVER", p) EXCEPT !.draw = d] \in Packets
  BY DEF Close, Packet, Packets, Closing, Opening

LEMMA OpeningTyped ==
  ASSUME NEW m \in Packets
  PROVE  /\ m.pair \in Pairs /\ m.draw \in BOOLEAN
         /\ m.war \in Opening \cup Closing
         /\ m.war \in Opening => m.type \in Types
  BY DEF Packets, Closing, Opening

LEMMA OlderTyped ==
  /\ Older(Free) = Free /\ Older(Absent) = Absent
  /\ \A x \in ElemType : /\ Older(x) \in ElemType /\ Older(x) # Free
                         /\ Older(x).pair = x.pair /\ Older(x).ended = x.ended
  /\ \A x \in WaitType : Older(x) \in WaitType /\ Older(x).res = x.res
  /\ \A x \in ReserveType : Older(x) \in ReserveType /\ Older(x).started = x.started
<1>1. \A n \in Secs : Less(n) \in Secs
  BY DEF Secs, Less
<1>2. Less(0) = 0
  BY DEF Less
<1>3. Older(Free) = Free /\ Older(Absent) = Absent
  <2>1. ASSUME NEW x, x = [x EXCEPT !.left = 0], x.left = 0 PROVE Older(x) = x
    BY <2>1, <1>2 DEF Older
  <2>2. ASSUME NEW S, NEW T, NEW x \in [pair : S, type : S, left : {0}, ended : T]
        PROVE  Older(x) = x
    BY <2>1
  <2>3. ASSUME NEW S, NEW T, NEW x \in [pair : S, type : S, left : {0}, started : T]
        PROVE  Older(x) = x
    BY <2>1
  <2>4. /\ Free \in [pair : {None}, type : {None}, left : {0}, ended : BOOLEAN]
        /\ Absent \in [pair : {None}, type : {None}, left : {0}, started : BOOLEAN]
    BY DEF Free, Absent
  <2>5. QED
    BY <2>2, <2>3, <2>4
<1>4. ASSUME NEW x \in ElemType
      PROVE  /\ Older(x) \in ElemType
             /\ Older(x).pair = x.pair /\ Older(x).ended = x.ended
  BY <1>1 DEF Older, ElemType
<1>5. ASSUME NEW x \in ElemType PROVE Older(x) # Free
  BY <1>4 DEF ElemType, Free
<1>6. ASSUME NEW x \in WaitType PROVE Older(x) \in WaitType /\ Older(x).res = x.res
  BY <1>1 DEF Older, WaitType
<1>7. ASSUME NEW x \in ReserveType
      PROVE  Older(x) \in ReserveType /\ Older(x).started = x.started
  BY <1>1 DEF Older, ReserveType
<1>8. QED
  BY <1>3, <1>4, <1>5, <1>6, <1>7

-----------------------------------------------------------------------------
(* Types and elements: one lemma per action.                               *)

LEMMA InitInv == Init => Inv
<1> SUFFICES ASSUME Init PROVE Inv
  OBVIOUS
<1>2. /\ enemy \in [Games -> [Pairs -> [type : Types, state : States] \cup {NoEnemy}]]
      /\ war \in [Pairs -> [elem : Elems, res : Wars \cup {None}] \cup {NoWar}]
      /\ elem \in [Elems -> [pair : Pairs, type : Types, left : Secs, ended : BOOLEAN]
                              \cup {Free}]
      /\ reserve \in [Wars -> [pair : Pairs, type : Types, left : Secs, started : BOOLEAN]
                                \cup {Absent}]
  BY DEF Init
<1>3. TypeOK
  <2>1. <<>> \in Seq(Packets) /\ <<>> \in Seq(Statements)
    OBVIOUS
  <2>2. /\ toDb \in [Games -> Seq(Packets)] /\ toGame \in [Games -> Seq(Packets)]
        /\ sql \in [Wars -> Seq(Statements)]
    BY <2>1 DEF Init
  <2>3. /\ fought \in [Games -> SUBSET Pairs]
        /\ row \in [Wars -> {"none", "open", "started", "settled"}]
        /\ paid \in [Wars -> 0 .. 2]
    BY DEF Init
  <2>4. /\ wait \in SUBSET [pair : Pairs, type : Types, left : Secs, res : Wars]
        /\ bet \in SUBSET Wars
        /\ phase \in {"idle", "reserve", "onwar", "waitstart"}
        /\ faults \in SUBSET Faults
        /\ crowded \in BOOLEAN
    BY DEF Init
  <2>5. QED
    BY <1>2, <2>2, <2>3, <2>4 DEF TypeOK
<1>4. ElementsAlive
  BY DEF Init, ElementsAlive
<1>5. QED
  BY <1>3, <1>4 DEF Inv

LEMMA Requests ==
  ASSUME Inv, NEW g \in Games, NEW p \in Pairs,
         \/ \E t \in Types : RequestDeclareWar(g, p, t)
         \/ AcceptWar(g, p) \/ RequestRefuseWar(g, p) \/ RequestWarOver(g, p)
         \/ RequestEndWar(g, p) \/ RequestCancelWar(g, p)
  PROVE  \E m \in Packets : Send(g, m)
<1>1. enemy[g][p] \in EnemyType \cup {NoEnemy}
  BY DEF Inv, TypeOK, EnemyType
<1>2. enemy[g][p].state = "declare" => enemy[g][p].type \in Types
  <2>1. NoEnemy.state # "declare"
    BY DEF NoEnemy, States
  <2>2. QED
    BY <1>1, <2>1 DEF EnemyType, NoEnemy
<1>3. CASE \E t \in Types : RequestDeclareWar(g, p, t)
  BY <1>3, PacketTypes DEF RequestDeclareWar, Opening
<1>4. CASE AcceptWar(g, p)
  BY <1>4, <1>2, PacketTypes DEF AcceptWar, Opening
<1>5. CASE RequestRefuseWar(g, p)
  BY <1>5, <1>2, PacketTypes DEF RequestRefuseWar, Opening
<1>6. CASE RequestWarOver(g, p)
  BY <1>6, PacketTypes DEF RequestWarOver
<1>7. CASE RequestEndWar(g, p)
  BY <1>7, PacketTypes DEF RequestEndWar, Closing
<1>8. CASE RequestCancelWar(g, p)
  BY <1>8, PacketTypes DEF RequestCancelWar, Closing
<1>9. QED
  BY <1>3, <1>4, <1>5, <1>6, <1>7, <1>8

LEMMA SendInv ==
  ASSUME Inv, NEW g \in Games, NEW m \in Packets, Send(g, m)
  PROVE  Inv'
<1>1. toDb' \in [Games -> Seq(Packets)]
  BY DEF Inv, TypeOK, Send
<1>2. TypeOK'
  BY <1>1 DEF Inv, TypeOK, Send, gameVars, dbVars, table, ghosts
<1>3. ElementsAlive'
  BY DEF Inv, ElementsAlive, Send, dbVars
<1>4. QED
  BY <1>2, <1>3 DEF Inv

LEMMA FollowTyped ==
  ASSUME Inv, NEW g \in Games, NEW m \in Packets, Follow(g, m)
  PROVE  /\ enemy' \in [Games -> [Pairs -> EnemyType \cup {NoEnemy}]]
         /\ fought' \in [Games -> SUBSET Pairs]
<1> DEFINE p == m.pair
           e == enemy[g][p]
<1>1. p \in Pairs /\ (m.war \in Opening => m.type \in Types)
  BY OpeningTyped
<1>2. /\ enemy \in [Games -> [Pairs -> EnemyType \cup {NoEnemy}]]
      /\ fought \in [Games -> SUBSET Pairs]
      /\ e \in EnemyType \cup {NoEnemy}
  BY <1>1 DEF Inv, TypeOK, EnemyType
<1>3. ASSUME NEW x \in EnemyType \cup {NoEnemy}, SetEnemy(g, p, x)
      PROVE  enemy' \in [Games -> [Pairs -> EnemyType \cup {NoEnemy}]]
  BY <1>1, <1>2, <1>3 DEF SetEnemy
<1>4. ASSUME NEW t \in Types, NEW s \in States
      PROVE  [type |-> t, state |-> s] \in EnemyType
  BY DEF EnemyType
<1>5. e # NoEnemy => e.type \in Types
  BY <1>2 DEF EnemyType
<1>6. CASE m.war = "SEND_DECLARE"
  BY <1>1, <1>2, <1>3, <1>4, <1>6 DEF Follow, Opening, Closing, States
<1>7. CASE m.war = "REFUSE"
  BY <1>1, <1>2, <1>3, <1>4, <1>7 DEF Follow, Closing
<1>8. CASE m.war = "WAIT_START"
  BY <1>1, <1>2, <1>3, <1>4, <1>5, <1>8 DEF Follow, Closing, States
<1>9. CASE m.war = "RESERVE"
  BY <1>1, <1>2, <1>3, <1>4, <1>5, <1>9 DEF Follow, Opening, Closing, States
<1>10. CASE m.war = "ON_WAR"
  <2>1. CASE e = NoEnemy \/ e.state = "on"
    BY <1>2, <1>10, <2>1 DEF Follow, Closing, gameVars
  <2>2. CASE ~(e = NoEnemy \/ e.state = "on")
    <3>1. /\ SetEnemy(g, p, [type |-> e.type, state |-> "on"])
          /\ fought' = [fought EXCEPT ![g] = @ \cup {p}]
      BY <1>10, <2>2 DEF Follow, Closing
    <3>2. QED
      BY <3>1, <2>2, <1>1, <1>2, <1>3, <1>4, <1>5 DEF States
  <2>3. QED
    BY <2>1, <2>2
<1>11. CASE m.war \in Closing
  <2>1. EndWar(g, p)
    BY <1>11 DEF Follow, Closing
  <2>2. CASE p \in fought[g]
    <3>1. SetEnemy(g, p, NoEnemy) /\ fought' = [fought EXCEPT ![g] = @ \ {p}]
      BY <2>1, <2>2 DEF EndWar, SetEnemy
    <3>2. QED
      BY <3>1, <1>2, <1>3
  <2>3. CASE p \notin fought[g]
    BY <2>1, <2>3, <1>2 DEF EndWar, gameVars
  <2>4. QED
    BY <2>2, <2>3
<1>12. QED
  BY <1>6, <1>7, <1>8, <1>9, <1>10, <1>11, OpeningTyped DEF Opening

LEMMA GameReceivesInv ==
  ASSUME Inv, NEW g \in Games, GameReceives(g)
  PROVE  Inv'
<1>1. Head(toGame[g]) \in Packets /\ Tail(toGame[g]) \in Seq(Packets)
  BY DEF Inv, TypeOK, GameReceives
<1>2. toGame' \in [Games -> Seq(Packets)]
  BY <1>1 DEF Inv, TypeOK, GameReceives
<1>3. /\ enemy' \in [Games -> [Pairs -> EnemyType \cup {NoEnemy}]]
      /\ fought' \in [Games -> SUBSET Pairs]
  BY <1>1, FollowTyped DEF GameReceives
<1>4. TypeOK'
  BY <1>2, <1>3 DEF Inv, TypeOK, GameReceives, dbVars, table, ghosts, EnemyType
<1>5. ElementsAlive'
  BY DEF Inv, ElementsAlive, GameReceives, dbVars
<1>6. QED
  BY <1>4, <1>5 DEF Inv

\* The elements, and what the war map holds of them.
Elements ==
  /\ war \in [Pairs -> WarType \cup {NoWar}]
  /\ elem \in [Elems -> ElemType \cup {Free}]
  /\ ElementsAlive

LEMMA InvParts ==
  Inv <=> /\ Elements
          /\ enemy \in [Games -> [Pairs -> EnemyType \cup {NoEnemy}]]
          /\ fought \in [Games -> SUBSET Pairs]
          /\ toDb \in [Games -> Seq(Packets)]
          /\ toGame \in [Games -> Seq(Packets)]
          /\ wait \in SUBSET WaitType
          /\ reserve \in [Wars -> ReserveType \cup {Absent}]
          /\ bet \in SUBSET Wars
          /\ row \in [Wars -> {"none", "open", "started", "settled"}]
          /\ sql \in [Wars -> Seq(Statements)]
          /\ paid \in [Wars -> 0 .. 2]
          /\ phase \in {"idle", "reserve", "onwar", "waitstart"}
          /\ faults \in SUBSET Faults
          /\ crowded \in BOOLEAN
  BY Zenon DEF Inv, TypeOK, Elements, EnemyType, WarType, ElemType, WaitType, ReserveType

LEMMA InvPartsNext ==
  Inv' <=> /\ Elements'
           /\ enemy' \in [Games -> [Pairs -> EnemyType \cup {NoEnemy}]]
           /\ fought' \in [Games -> SUBSET Pairs]
           /\ toDb' \in [Games -> Seq(Packets)]
           /\ toGame' \in [Games -> Seq(Packets)]
           /\ wait' \in SUBSET WaitType
           /\ reserve' \in [Wars -> ReserveType \cup {Absent}]
           /\ bet' \in SUBSET Wars
           /\ row' \in [Wars -> {"none", "open", "started", "settled"}]
           /\ sql' \in [Wars -> Seq(Statements)]
           /\ paid' \in [Wars -> 0 .. 2]
           /\ phase' \in {"idle", "reserve", "onwar", "waitstart"}
           /\ faults' \in SUBSET Faults
           /\ crowded' \in BOOLEAN
  BY Zenon DEF Inv, TypeOK, Elements, EnemyType, WarType, ElemType, WaitType, ReserveType

LEMMA SecsTyped ==
  /\ \A t : SecsOf(t) \in Secs
  /\ ReserveSecs \in Secs /\ WaitSecs \in Secs
  BY DEF Secs, SecsOf

LEMMA PointsToPair ==
  ASSUME Elements, NEW p \in Pairs, war[p] # NoWar
  PROVE  /\ war[p].elem \in Elems /\ war[p].res \in Wars \cup {None}
         /\ elem[war[p].elem] \in ElemType
         /\ elem[war[p].elem] # Free
         /\ elem[war[p].elem].pair = p
         /\ ~elem[war[p].elem].ended
<1>1. war[p] \in WarType
  BY DEF Elements
<1>2. war[p].elem \in Elems /\ war[p].res \in Wars \cup {None}
  BY <1>1 DEF WarType
<1>3. QED
  BY <1>2 DEF Elements, ElementsAlive

LEMMA StartWarKeeps ==
  ASSUME Elements, NEW p \in Pairs, NEW t \in Types, NEW r \in Wars \cup {None},
         StartWar(p, t, r)
  PROVE  Elements'
<1> DEFINE x == [pair |-> p, type |-> t, left |-> SecsOf(t), ended |-> FALSE]
<1>1. PICK e \in Elems : /\ elem[e] = Free
                         /\ elem' = [elem EXCEPT ![e] = x]
                         /\ war' = [war EXCEPT ![p] = [elem |-> e, res |-> r]]
  BY DEF StartWar
<1>2. x \in ElemType /\ x # Free /\ ~x.ended /\ x.pair = p
  <2>1. x \in ElemType
    BY SecsTyped DEF ElemType
  <2>2. x.type # None
    OBVIOUS
  <2>3. QED
    BY <2>1, <2>2 DEF Free
<1>3. [elem |-> e, res |-> r] \in WarType
  BY DEF WarType
<1> HIDE DEF x
<1>4. /\ war' \in [Pairs -> WarType \cup {NoWar}]
      /\ elem' \in [Elems -> ElemType \cup {Free}]
  BY <1>1, <1>2, <1>3 DEF Elements
<1>5. ASSUME NEW q \in Pairs, war'[q] # NoWar
      PROVE  LET y == elem'[war'[q].elem] IN y # Free /\ ~y.ended /\ y.pair = q
  <2>1. CASE q = p
    BY <1>1, <1>2, <2>1 DEF Elements
  <2>2. CASE q # p
    <3>1. war'[q] = war[q]
      BY <1>1, <2>2 DEF Elements
    <3>2. war[q].elem # e
      BY <1>1, <1>5, <3>1, PointsToPair
    <3>3. QED
      BY <1>1, <1>5, <3>1, <3>2, PointsToPair DEF Elements
  <2>3. QED
    BY <2>1, <2>2
<1>6. QED
  BY <1>4, <1>5 DEF Elements, ElementsAlive

LEMMA RemoveKeeps ==
  ASSUME Elements, NEW p \in Pairs, elem' = RemoveWar(p, elem), war' = Forget(p)
  PROVE  Elements'
<1>1. war' \in [Pairs -> WarType \cup {NoWar}] /\ war'[p] = NoWar
  BY DEF Elements, Forget
<1>2. CASE war[p] = NoWar
  BY <1>2 DEF RemoveWar, Forget, Elements, ElementsAlive
<1>3. CASE war[p] # NoWar
  <2>1. elem' = [elem EXCEPT ![war[p].elem] = [@ EXCEPT !.ended = TRUE]]
    BY <1>3 DEF RemoveWar
  <2>2. [elem[war[p].elem] EXCEPT !.ended = TRUE] \in ElemType
    BY <1>3, PointsToPair DEF ElemType
  <2>3. elem' \in [Elems -> ElemType \cup {Free}]
    BY <2>1, <2>2 DEF Elements
  <2>4. ASSUME NEW q \in Pairs, war'[q] # NoWar
        PROVE  LET y == elem'[war'[q].elem] IN y # Free /\ ~y.ended /\ y.pair = q
    <3>1. q # p /\ war'[q] = war[q]
      BY <1>1, <2>4 DEF Forget, Elements
    <3>2. war[q].elem # war[p].elem
      BY <1>3, <2>4, <3>1, PointsToPair
    <3>3. elem'[war[q].elem] = elem[war[q].elem]
      BY <2>1, <2>4, <3>1, <3>2, PointsToPair DEF Elements
    <3>4. QED
      BY <2>4, <3>1, <3>3, PointsToPair
  <2>5. QED
    BY <1>1, <2>3, <2>4 DEF Elements, ElementsAlive
<1>4. QED
  BY <1>2, <1>3

LEMMA ForwardTyped ==
  ASSUME toGame \in [Games -> Seq(Packets)], NEW m \in Packets, Forward(m)
  PROVE  toGame' \in [Games -> Seq(Packets)]
  BY DEF Forward, Told

LEMMA WarEndKeeps ==
  ASSUME Elements, toGame \in [Games -> Seq(Packets)],
         NEW p \in Pairs, WarEnd(p, elem)
  PROVE  Elements' /\ toGame' \in [Games -> Seq(Packets)]
<1>1. CASE Ends(p)
  BY <1>1, RemoveKeeps, ForwardTyped, PacketTypes DEF WarEnd, Closing
<1>2. CASE ~Ends(p)
  BY <1>2 DEF WarEnd, Elements, ElementsAlive
<1>3. QED
  BY <1>1, <1>2

-----------------------------------------------------------------------------
(* What the db does with a packet, and in Update.                          *)

LEMMA SettlementsTyped ==
  ASSUME NEW w \in Wars, sql \in [Wars -> Seq(Statements)]
  PROVE  /\ Draw(w) \in Seq(Statements)
         /\ \A t, d : Settlements(w, t, d) \subseteq Seq(Statements)
         /\ \A s \in Seq(Statements) :
              Queued(w, s) => sql' \in [Wars -> Seq(Statements)]
<1>1. /\ <<>> \in Seq(Statements) /\ <<"settle">> \in Seq(Statements)
      /\ <<"settle", "award">> \in Seq(Statements)
  BY DEF Statements
<1>2. Draw(w) \in Seq(Statements)
  BY <1>1 DEF Draw
<1>3. \A t, d : Settlements(w, t, d) \subseteq Seq(Statements)
  BY <1>1, <1>2 DEF Settlements
<1>4. ASSUME NEW s \in Seq(Statements), Queued(w, s)
      PROVE  sql' \in [Wars -> Seq(Statements)]
  BY <1>4 DEF Queued
<1>5. QED
  BY <1>2, <1>3, <1>4

\* What Handle may change, besides the elements.
HandledTypes ==
  /\ toGame' \in [Games -> Seq(Packets)]
  /\ wait' \in SUBSET WaitType
  /\ reserve' \in [Wars -> ReserveType \cup {Absent}]
  /\ bet' \in SUBSET Wars
  /\ row' \in [Wars -> {"none", "open", "started", "settled"}]
  /\ sql' \in [Wars -> Seq(Statements)]
  /\ faults' \in SUBSET Faults

LEMMA ReserveWarTyped ==
  ASSUME Inv, NEW m \in Packets, m.type \in Types, ReserveWar(m)
  PROVE  /\ toGame' \in [Games -> Seq(Packets)]
         /\ reserve' \in [Wars -> ReserveType \cup {Absent}]
         /\ row' \in [Wars -> {"none", "open", "started", "settled"}]
         /\ faults' \in SUBSET Faults
<1>1. m.pair \in Pairs
  BY OpeningTyped
<1>2. /\ toGame \in [Games -> Seq(Packets)]
      /\ reserve \in [Wars -> ReserveType \cup {Absent}]
      /\ row \in [Wars -> {"none", "open", "started", "settled"}]
      /\ faults \in SUBSET Faults
  BY InvParts
<1>3. ASSUME NEW w \in Wars,
             row' = [row EXCEPT ![w] = "open"],
             reserve' = [reserve EXCEPT ![w] = [pair |-> m.pair, type |-> m.type,
                                            left |-> ReserveSecs, started |-> FALSE]],
             Forward(Packet("RESERVE", m.pair, m.type)),
             UNCHANGED faults
      PROVE  /\ toGame' \in [Games -> Seq(Packets)]
             /\ reserve' \in [Wars -> ReserveType \cup {Absent}]
             /\ row' \in [Wars -> {"none", "open", "started", "settled"}]
             /\ faults' \in SUBSET Faults
  <2>1. [pair |-> m.pair, type |-> m.type, left |-> ReserveSecs, started |-> FALSE]
          \in ReserveType
    BY <1>1, SecsTyped DEF ReserveType
  <2>2. reserve' \in [Wars -> ReserveType \cup {Absent}]
    BY <1>2, <1>3, <2>1
  <2>3. row' \in [Wars -> {"none", "open", "started", "settled"}]
    BY <1>2, <1>3
  <2>4. toGame' \in [Games -> Seq(Packets)]
    BY <1>1, <1>2, <1>3, PacketTypes, ForwardTyped DEF Opening
  <2>5. QED
    BY <1>2, <1>3, <2>2, <2>3, <2>4
<1>4. ASSUME "insert" \in Faults \ faults,
             faults' = faults \cup {"insert"},
             Forward(Close("CANCEL", m.pair)),
             UNCHANGED <<row, reserve>>
      PROVE  /\ toGame' \in [Games -> Seq(Packets)]
             /\ reserve' \in [Wars -> ReserveType \cup {Absent}]
             /\ row' \in [Wars -> {"none", "open", "started", "settled"}]
             /\ faults' \in SUBSET Faults
  BY <1>1, <1>2, <1>4, PacketTypes, ForwardTyped DEF Closing
<1>5. QED
  BY Zenon, <1>3, <1>4 DEF ReserveWar

LEMMA HandleKeeps ==
  ASSUME Inv, NEW m \in Packets, Handle(m)
  PROVE  Elements' /\ HandledTypes
<1> DEFINE p == m.pair
<1>1. /\ p \in Pairs /\ m.war \in Opening \cup Closing
      /\ m.war \in Opening => m.type \in Types
  BY OpeningTyped
<1>2. /\ Elements
      /\ toGame \in [Games -> Seq(Packets)] /\ wait \in SUBSET WaitType
      /\ reserve \in [Wars -> ReserveType \cup {Absent}] /\ bet \in SUBSET Wars
      /\ row \in [Wars -> {"none", "open", "started", "settled"}]
      /\ sql \in [Wars -> Seq(Statements)] /\ faults \in SUBSET Faults
  BY InvParts
<1>3. ASSUME war' = war, elem' = elem PROVE Elements'
  BY <1>2, <1>3 DEF Elements, ElementsAlive
<1>4. CASE m.war \in {"SEND_DECLARE", "REFUSE"}
  <2>1. Forward(m) /\ UNCHANGED <<dbVars, row, sql, faults>>
    BY <1>4 DEF Handle
  <2>2. QED
    BY <1>2, <1>3, <2>1, ForwardTyped DEF dbVars, HandledTypes
<1>5. CASE m.war = "WAIT_START"
  <2>1. ReserveWar(m) /\ UNCHANGED <<war, elem, wait, bet, sql>>
    BY <1>5 DEF Handle
  <2>2. m.type \in Types
    BY <1>1, <1>5 DEF Opening
  <2>3. QED
    BY <1>2, <1>3, <2>1, <2>2, ReserveWarTyped DEF HandledTypes
<1>6. CASE m.war = "ON_WAR"
  <2>1. /\ StartWar(p, m.type, None) /\ Forward(m)
        /\ UNCHANGED <<wait, reserve, bet, row, sql, faults>>
    BY <1>6 DEF Handle
  <2>2. m.type \in Types
    BY <1>1, <1>6 DEF Opening
  <2>3. Elements'
    BY <1>1, <1>2, <2>1, <2>2, StartWarKeeps
  <2>4. QED
    BY <1>2, <2>1, <2>3, ForwardTyped DEF HandledTypes
<1>7. CASE m.war = "OVER"
  <2>1. RecvWarOver(m) /\ UNCHANGED <<wait, reserve, bet, row, faults>>
    BY <1>7 DEF Handle
  <2>2. Elements'
    BY <1>1, <1>2, <2>1, RemoveKeeps DEF RecvWarOver
  <2>3. sql' \in [Wars -> Seq(Statements)]
    <3>1. CASE war[p].res = None
      BY <1>2, <2>1, <3>1 DEF RecvWarOver
    <3>2. CASE war[p].res # None
      <4>1. war[p].res \in Wars
        BY <1>1, <1>2, <3>2, PointsToPair DEF NoWar
      <4>2. QED
        BY <1>2, <2>1, <3>2, <4>1, SettlementsTyped DEF RecvWarOver
    <3>3. QED
      BY <3>1, <3>2
  <2>4. toGame' \in [Games -> Seq(Packets)]
    BY <1>2, <2>1, ForwardTyped DEF RecvWarOver
  <2>5. QED
    BY <1>2, <2>1, <2>2, <2>3, <2>4 DEF HandledTypes
<1>8. CASE m.war = "END"
  <2>1. WarEnd(p, elem) /\ UNCHANGED <<wait, reserve, bet, row, sql, faults>>
    BY <1>8 DEF Handle
  <2>2. QED
    BY <1>1, <1>2, <2>1, WarEndKeeps DEF HandledTypes
<1>9. CASE m.war = "CANCEL"
  <2>1. /\ elem' = RemoveWar(p, elem) /\ war' = Forget(p) /\ Forward(m)
        /\ UNCHANGED <<wait, reserve, bet, row, sql, faults>>
    BY <1>9 DEF Handle
  <2>2. QED
    BY <1>1, <1>2, <2>1, RemoveKeeps, ForwardTyped DEF HandledTypes
<1>10. m.war # "RESERVE"
  BY DEF Handle
<1>11. QED
  BY <1>1, <1>4, <1>5, <1>6, <1>7, <1>8, <1>9, <1>10 DEF Opening, Closing

LEMMA DbReceivesInv ==
  ASSUME Inv, NEW g \in Games, DbReceives(g)
  PROVE  Inv'
<1>1. toDb \in [Games -> Seq(Packets)]
  BY InvParts
<1>2. Head(toDb[g]) \in Packets /\ Tail(toDb[g]) \in Seq(Packets)
  BY <1>1 DEF DbReceives
<1>3. toDb' \in [Games -> Seq(Packets)]
  BY <1>1, <1>2 DEF DbReceives
<1>4. Elements' /\ HandledTypes
  BY <1>2, HandleKeeps DEF DbReceives
<1>5. /\ enemy' = enemy /\ fought' = fought /\ paid' = paid /\ phase' = phase
      /\ crowded' = crowded
  BY DEF DbReceives, gameVars
<1>6. QED
  BY <1>3, <1>4, <1>5, InvParts, InvPartsNext DEF HandledTypes

LEMMA RunStatementInv ==
  ASSUME Inv, NEW w \in Wars, RunStatement(w)
  PROVE  Inv'
<1>1. /\ sql \in [Wars -> Seq(Statements)] /\ paid \in [Wars -> 0 .. 2]
      /\ row \in [Wars -> {"none", "open", "started", "settled"}]
  BY InvParts
<1>2. Tail(sql[w]) \in Seq(Statements)
  BY <1>1 DEF RunStatement
<1>3. sql' \in [Wars -> Seq(Statements)]
  BY <1>1, <1>2 DEF RunStatement
<1>4. row' \in [Wars -> {"none", "open", "started", "settled"}]
  BY <1>1 DEF RunStatement
<1>5. paid' \in [Wars -> 0 .. 2]
  <2>1. (IF Head(sql[w]) = "award" /\ paid[w] < 2 THEN paid[w] + 1 ELSE paid[w]) \in 0 .. 2
    BY <1>1
  <2>2. QED
    BY <1>1, <2>1 DEF RunStatement
<1>6. TypeOK'
  BY <1>3, <1>4, <1>5 DEF Inv, TypeOK, RunStatement, gameVars, net, dbVars, ghosts
<1>7. ElementsAlive'
  BY DEF Inv, ElementsAlive, RunStatement, dbVars
<1>8. QED
  BY <1>6, <1>7 DEF Inv

LEMMA BetInv ==
  ASSUME Inv, NEW w \in Wars, Bet(w)
  PROVE  Inv'
<1>1. TypeOK'
  BY DEF Inv, TypeOK, Bet, gameVars, net, table, ghosts
<1>2. ElementsAlive'
  BY DEF Inv, ElementsAlive, Bet
<1>3. QED
  BY <1>1, <1>2 DEF Inv

LEMMA UpdateInv ==
  ASSUME Inv, Update
  PROVE  Inv'
<1>1. /\ Elements /\ wait \in SUBSET WaitType
      /\ reserve \in [Wars -> ReserveType \cup {Absent}]
  BY InvParts
<1>2. elem' \in [Elems -> ElemType \cup {Free}]
  BY <1>1, OlderTyped DEF Update, Elements
<1>3. wait' \in SUBSET WaitType
  BY <1>1, OlderTyped DEF Update
<1>4. reserve' \in [Wars -> ReserveType \cup {Absent}]
  BY <1>1, OlderTyped DEF Update
<1>5. Elements'
  <2>1. ASSUME NEW q \in Pairs, war[q] # NoWar
        PROVE  LET y == elem'[war[q].elem] IN y # Free /\ ~y.ended /\ y.pair = q
    BY <1>1, <2>1, PointsToPair, OlderTyped DEF Update
  <2>2. war' = war
    BY DEF Update
  <2>3. QED
    BY <1>1, <1>2, <2>1, <2>2 DEF Elements, ElementsAlive
<1>6. QED
  BY <1>3, <1>4, <1>5, InvParts, InvPartsNext
     DEF Update, gameVars, net, table, ghosts

ReserveTypes ==
  /\ wait' \in SUBSET WaitType
  /\ reserve' \in [Wars -> ReserveType \cup {Absent}]
  /\ sql' \in [Wars -> Seq(Statements)]
  /\ toGame' \in [Games -> Seq(Packets)]
  /\ phase' \in {"idle", "reserve", "onwar", "waitstart"}

LEMMA ProcessReserveWarInv ==
  ASSUME Inv, ProcessReserveWar
  PROVE  Inv'
<1>1. /\ Elements /\ wait \in SUBSET WaitType
      /\ reserve \in [Wars -> ReserveType \cup {Absent}]
      /\ sql \in [Wars -> Seq(Statements)] /\ toGame \in [Games -> Seq(Packets)]
      /\ phase \in {"idle", "reserve", "onwar", "waitstart"}
  BY InvParts
<1>2. Elements'
  BY <1>1 DEF ProcessReserveWar, Elements, ElementsAlive
<1>3. ReserveTypes
  <2>1. ASSUME NEW w \in Wars,
               Due(w), Queued(w, <<"start">>),
               reserve' = [reserve EXCEPT ![w] = [@ EXCEPT !.started = TRUE]],
               wait' = wait \cup {[pair |-> reserve[w].pair, type |-> reserve[w].type,
                                   left |-> WaitSecs, res |-> w]},
               Forward(Packet("WAIT_START", reserve[w].pair, reserve[w].type)),
               UNCHANGED phase
        PROVE  ReserveTypes
    <3>1. /\ reserve[w] \in ReserveType
          /\ reserve[w].pair \in Pairs /\ reserve[w].type \in Types
      BY <1>1, <2>1 DEF Due, ReserveType
    <3>2. [reserve[w] EXCEPT !.started = TRUE] \in ReserveType
      BY <3>1 DEF ReserveType
    <3>3. [pair |-> reserve[w].pair, type |-> reserve[w].type, left |-> WaitSecs,
           res |-> w] \in WaitType
      BY <3>1, SecsTyped DEF WaitType
    <3>4. <<"start">> \in Seq(Statements)
      BY DEF Statements
    <3>5. reserve' \in [Wars -> ReserveType \cup {Absent}] /\ wait' \in SUBSET WaitType
      BY <1>1, <2>1, <3>2, <3>3
    <3>6. sql' \in [Wars -> Seq(Statements)]
      BY <1>1, <2>1, <3>4, SettlementsTyped
    <3>7. toGame' \in [Games -> Seq(Packets)]
      BY <1>1, <2>1, <3>1, PacketTypes, ForwardTyped DEF Opening
    <3>8. QED
      BY <1>1, <2>1, <3>5, <3>6, <3>7 DEF ReserveTypes
  <2>2. ASSUME phase' = "onwar", UNCHANGED <<sql, reserve, wait, toGame>>
        PROVE  ReserveTypes
    BY <1>1, <2>2 DEF ReserveTypes
  <2>3. CASE \E w \in Wars :
          /\ Due(w)
          /\ Queued(w, <<"start">>)
          /\ reserve' = [reserve EXCEPT ![w] = [@ EXCEPT !.started = TRUE]]
          /\ wait' = wait \cup {[pair |-> reserve[w].pair, type |-> reserve[w].type,
                                left |-> WaitSecs, res |-> w]}
          /\ Forward(Packet("WAIT_START", reserve[w].pair, reserve[w].type))
          /\ UNCHANGED phase
    BY Zenon, <2>1, <2>3
  <2>4. QED
    BY Zenon, <2>2, <2>3 DEF ProcessReserveWar
<1>4. QED
  BY <1>2, <1>3, InvParts, InvPartsNext
     DEF ProcessReserveWar, gameVars, ghosts, ReserveTypes

\* The element leaves the queue when no war points to it.
LEMMA FreeKeeps ==
  ASSUME Elements, NEW e \in Elems, \A q \in Pairs : war[q] # NoWar => war[q].elem # e,
         elem' = [elem EXCEPT ![e] = Free], war' = war
  PROVE  Elements'
<1>1. elem' \in [Elems -> ElemType \cup {Free}]
  BY DEF Elements
<1>2. ASSUME NEW q \in Pairs, war[q] # NoWar
      PROVE  LET y == elem'[war[q].elem] IN y # Free /\ ~y.ended /\ y.pair = q
  BY <1>2, PointsToPair DEF Elements
<1>3. QED
  BY <1>1, <1>2 DEF Elements, ElementsAlive

LEMMA ProcessOnWarInv ==
  ASSUME Inv, ProcessOnWar
  PROVE  Inv'
<1>1. Elements /\ toGame \in [Games -> Seq(Packets)]
  BY InvParts
<1>2. ASSUME NEW e \in Elems, Expired(e), elem[e].ended,
             elem' = [elem EXCEPT ![e] = Free], UNCHANGED <<war, toGame>>
      PROVE  Elements' /\ toGame' \in [Games -> Seq(Packets)]
  BY <1>1, <1>2, PointsToPair, FreeKeeps
<1>3. ASSUME NEW e \in Elems, Expired(e), ~elem[e].ended, Ends(elem[e].pair),
             elem' = [RemoveWar(elem[e].pair, elem) EXCEPT ![e] = Free],
             war' = Forget(elem[e].pair), Forward(Close("END", elem[e].pair))
      PROVE  Elements' /\ toGame' \in [Games -> Seq(Packets)]
  <2> DEFINE p == elem[e].pair
             els == RemoveWar(p, elem)
  <2>1. elem[e] \in ElemType /\ p \in Pairs
    BY <1>1, <1>3 DEF Expired, Front, Elements, ElemType
  <2>2. war[p] # NoWar
    BY <1>3 DEF Ends
  <2>3. els = [elem EXCEPT ![war[p].elem] = [@ EXCEPT !.ended = TRUE]]
    BY <2>2 DEF RemoveWar
  <2>4. [elem[war[p].elem] EXCEPT !.ended = TRUE] \in ElemType
    <3>1. elem[war[p].elem] \in ElemType
      BY <1>1, <2>1, <2>2, PointsToPair
    <3>2. QED
      BY <3>1 DEF ElemType
  <2>5. els \in [Elems -> ElemType \cup {Free}]
    BY <1>1, <2>3, <2>4 DEF Elements
  <2>6. elem' = [els EXCEPT ![e] = Free]
    BY <1>3
  <2> HIDE DEF els
  <2>7. elem' \in [Elems -> ElemType \cup {Free}]
    BY <2>5, <2>6
  <2>8. war' \in [Pairs -> WarType \cup {NoWar}] /\ war'[p] = NoWar
    BY <1>1, <1>3, <2>1 DEF Elements, Forget
  <2>9. ASSUME NEW q \in Pairs, war'[q] # NoWar
        PROVE  LET y == elem'[war'[q].elem] IN y # Free /\ ~y.ended /\ y.pair = q
    <3>1. q # p /\ war'[q] = war[q] /\ war[q] # NoWar
      BY <1>1, <1>3, <2>8, <2>9 DEF Forget, Elements
    <3>2. war[q].elem # war[p].elem /\ war[q].elem # e
      BY <1>1, <2>1, <2>2, <3>1, PointsToPair
    <3>3. elem'[war[q].elem] = elem[war[q].elem]
      BY <1>1, <2>3, <2>5, <2>6, <3>1, <3>2, PointsToPair DEF Elements
    <3>4. QED
      BY <1>1, <3>1, <3>3, PointsToPair
  <2>10. toGame' \in [Games -> Seq(Packets)]
    BY <1>1, <1>3, <2>1, PacketTypes, ForwardTyped DEF Closing
  <2>11. QED
    BY <2>7, <2>8, <2>9, <2>10 DEF Elements, ElementsAlive
<1>4. ASSUME NEW e \in Elems, Expired(e), ~elem[e].ended, ~Ends(elem[e].pair),
             elem' = [elem EXCEPT ![e] = Free], UNCHANGED <<war, toGame>>
      PROVE  Elements' /\ toGame' \in [Games -> Seq(Packets)]
  <2>1. \A q \in Pairs : war[q] # NoWar => war[q].elem # e
    BY <1>1, <1>4, PointsToPair DEF Ends
  <2>2. QED
    BY <1>1, <1>4, <2>1, FreeKeeps
<1>5. ASSUME UNCHANGED <<war, elem, toGame>>
      PROVE  Elements' /\ toGame' \in [Games -> Seq(Packets)]
  BY <1>1, <1>5 DEF Elements, ElementsAlive
<1>6. Elements' /\ toGame' \in [Games -> Seq(Packets)]
  <2>1. CASE \E e \in Elems :
          /\ Expired(e)
          /\ IF elem[e].ended
             THEN elem' = [elem EXCEPT ![e] = Free] /\ UNCHANGED <<war, toGame>>
             ELSE LET p == elem[e].pair IN
                  IF Ends(p)
                  THEN /\ elem' = [RemoveWar(p, elem) EXCEPT ![e] = Free]
                       /\ war' = Forget(p)
                       /\ Forward(Close("END", p))
                  ELSE elem' = [elem EXCEPT ![e] = Free] /\ UNCHANGED <<war, toGame>>
    BY Zenon, <2>1, <1>2, <1>3, <1>4
  <2>2. QED
    BY Zenon, <2>1, <1>5 DEF ProcessOnWar
<1>7. phase' \in {"idle", "reserve", "onwar", "waitstart"}
  BY InvParts DEF ProcessOnWar
<1>8. QED
  BY <1>6, <1>7, InvParts, InvPartsNext DEF ProcessOnWar, gameVars, table, ghosts

LEMMA ProcessWaitStartInv ==
  ASSUME Inv, ProcessWaitStart
  PROVE  Inv'
<1>1. Elements /\ toGame \in [Games -> Seq(Packets)] /\ wait \in SUBSET WaitType
  BY InvParts
<1>2. ASSUME NEW x \in Foremost(wait), NEW ws \in Named(x),
             StartWar(ws.pair, ws.type, ws.res), Forward(Packet("ON_WAR", ws.pair, ws.type))
      PROVE  Elements' /\ toGame' \in [Games -> Seq(Packets)]
  <2>1. ws \in WaitType
    BY <1>1 DEF Named, Foremost
  <2>2. ws.pair \in Pairs /\ ws.type \in Types /\ ws.res \in Wars
    BY <2>1 DEF WaitType
  <2>3. QED
    BY <1>1, <1>2, <2>2, StartWarKeeps, ForwardTyped, PacketTypes DEF Opening
<1>3. /\ Elements' /\ toGame' \in [Games -> Seq(Packets)] /\ wait' \in SUBSET WaitType
      /\ phase' \in {"idle", "reserve", "onwar", "waitstart"} /\ crowded' \in BOOLEAN
  <2>1. CASE \E x \in Foremost(wait) :
               /\ wait' = wait \ {x}
               /\ \E ws \in Named(x) : /\ StartWar(ws.pair, ws.type, ws.res)
                                       /\ Forward(Packet("ON_WAR", ws.pair, ws.type))
               /\ crowded' = (crowded \/ wait # {x})
               /\ UNCHANGED phase
    <3>1. Elements' /\ toGame' \in [Games -> Seq(Packets)]
      BY Zenon, <2>1, <1>2
    <3>2. wait' \in SUBSET WaitType /\ crowded' \in BOOLEAN
      BY <1>1, <2>1
    <3>3. QED
      BY <2>1, <3>1, <3>2, InvParts
  <2>2. CASE phase' = "idle" /\ UNCHANGED <<wait, war, elem, toGame, crowded>>
    BY <2>2, <1>1, InvParts DEF Elements, ElementsAlive
  <2>3. QED
    BY Zenon, <2>1, <2>2 DEF ProcessWaitStart
<1>4. QED
  BY <1>3, InvParts, InvPartsNext DEF ProcessWaitStart, gameVars, table

-----------------------------------------------------------------------------
(* Restarts.                                                               *)

LEMMA OrdersTyped ==
  ASSUME NEW S, S \subseteq Packets, IsFiniteSet(S), NEW s \in Orders(S)
  PROVE  s \in Seq(Packets)
<1>1. Cardinality(S) \in Nat
  BY FS_CardinalityType
<1>2. s \in [1 .. Cardinality(S) -> Packets]
  BY DEF Orders
<1>3. QED
  BY <1>1, <1>2

LEMMA ImageFinite ==
  ASSUME NEW S, IsFiniteSet(S), NEW f, f = [x \in S |-> f[x]]
  PROVE  IsFiniteSet({f[x] : x \in S})
<1> DEFINE T == {f[x] : x \in S}
<1>1. f \in Surjection(S, T)
  BY DEF Surjection
<1>2. QED
  BY <1>1, FS_Surjection

LEMMA ReservationsTyped ==
  ASSUME NEW res \in [Wars -> ReserveType \cup {Absent}]
  PROVE  /\ Reservations(res) \subseteq Packets
         /\ IsFiniteSet(Reservations(res))
<1> DEFINE S == {v \in Wars : res[v] # Absent /\ ~res[v].started}
           f == [w \in S |-> Packet("RESERVE", res[w].pair, res[w].type)]
<1>1. IsFiniteSet(S)
  BY FS_Subset
<1>2. Reservations(res) = {f[w] : w \in S}
  BY DEF Reservations
<1>3. IsFiniteSet({f[w] : w \in S})
  <2>1. f = [w \in S |-> f[w]]
    OBVIOUS
  <2> HIDE DEF f
  <2>2. QED
    BY <1>1, <2>1, ImageFinite
<1>4. ASSUME NEW w \in S
      PROVE  Packet("RESERVE", res[w].pair, res[w].type) \in Packets
  <2>1. res[w] \in ReserveType
    OBVIOUS
  <2>2. QED
    BY <2>1, PacketTypes DEF ReserveType, Opening
<1>5. QED
  BY <1>2, <1>3, <1>4 DEF Reservations

LEMMA StopTyped ==
  ASSUME Inv, NEW lost, StopAllGuildWar(lost)
  PROVE  /\ enemy' \in [Games -> [Pairs -> EnemyType \cup {NoEnemy}]]
         /\ fought' \in [Games -> SUBSET Pairs]
<1>1. /\ enemy \in [Games -> [Pairs -> EnemyType \cup {NoEnemy}]]
      /\ fought \in [Games -> SUBSET Pairs]
  BY InvParts
<1>2. QED
  BY <1>1 DEF StopAllGuildWar

LEMMA DbRestartInv ==
  ASSUME Inv, DbRestart
  PROVE  Inv'
<1>1. /\ reserve \in [Wars -> ReserveType \cup {Absent}]
      /\ toDb \in [Games -> Seq(Packets)] /\ toGame \in [Games -> Seq(Packets)]
      /\ faults \in SUBSET Faults
  BY InvParts
<1>2. Elements'
  <2>1. \A p \in Pairs : war'[p] = NoWar
    BY DEF DbRestart
  <2>2. /\ war' \in [Pairs -> WarType \cup {NoWar}]
        /\ elem' \in [Elems -> ElemType \cup {Free}]
    BY DEF DbRestart
  <2>3. QED
    BY <2>1, <2>2 DEF Elements, ElementsAlive
<1>3. /\ reserve' \in [Wars -> ReserveType \cup {Absent}]
      /\ sql' \in [Wars -> Seq(Statements)]
  <2>1. PICK missed \in SUBSET {w \in Wars : row[w] = "open"} :
          LET off == missed \cup {w \in Wars : row[w] = "started"}
          IN /\ reserve' = [w \in Wars |-> IF row[w] = "open" /\ w \notin missed
                                           THEN [reserve[w] EXCEPT !.started = FALSE]
                                           ELSE Absent]
             /\ sql' = [w \in Wars |-> IF w \in off THEN Draw(w) ELSE <<>>]
    BY Zenon DEF DbRestart
  <2>2. ASSUME NEW w \in Wars
        PROVE  [reserve[w] EXCEPT !.started = FALSE] \in ReserveType \cup {Absent}
    <3>1. CASE reserve[w] \in ReserveType
      BY <3>1 DEF ReserveType
    <3>2. CASE reserve[w] = Absent
      <4>1. ASSUME NEW S, NEW x \in [pair : S, type : S, left : {0}, started : {FALSE}]
            PROVE  [x EXCEPT !.started = FALSE] = x
        OBVIOUS
      <4>2. Absent \in [pair : {None}, type : {None}, left : {0}, started : {FALSE}]
        BY DEF Absent
      <4>3. [Absent EXCEPT !.started = FALSE] = Absent
        BY <4>1, <4>2
      <4>4. QED
        BY <3>2, <4>3
    <3>3. QED
      BY <1>1, <3>1, <3>2
  <2>3. <<>> \in Seq(Statements) /\ \A w \in Wars : Draw(w) \in Seq(Statements)
    BY SettlementsTyped, InvParts
  <2>4. reserve' \in [Wars -> ReserveType \cup {Absent}]
    BY <2>1, <2>2
  <2>5. sql' \in [Wars -> Seq(Statements)]
    BY <2>1, <2>3
  <2>6. QED
    BY <2>4, <2>5
<1>4. toGame' \in [Games -> Seq(Packets)]
  <2>1. PICK s \in Orders(Reservations(reserve')) : toGame' = [g \in Games |-> s]
    BY DEF DbRestart
  <2>2. s \in Seq(Packets)
    BY <1>3, ReservationsTyped, OrdersTyped
  <2>3. QED
    BY <2>1, <2>2
<1>5. toDb' \in [Games -> Seq(Packets)]
  <2>1. <<>> \in Seq(Packets)
    OBVIOUS
  <2>2. QED
    BY <2>1 DEF DbRestart
<1>6. wait' \in SUBSET WaitType /\ phase' \in {"idle", "reserve", "onwar", "waitstart"}
      /\ faults' \in SUBSET Faults
  BY <1>1 DEF DbRestart
<1>7. /\ enemy' \in [Games -> [Pairs -> EnemyType \cup {NoEnemy}]]
      /\ fought' \in [Games -> SUBSET Pairs]
  BY StopTyped DEF DbRestart
<1>8. QED
  BY <1>2, <1>3, <1>4, <1>5, <1>6, <1>7, InvParts, InvPartsNext DEF DbRestart

LEMMA GameReconnectsInv ==
  ASSUME Inv, NEW g \in Games, GameReconnects(g)
  PROVE  Inv'
<1>1. /\ reserve \in [Wars -> ReserveType \cup {Absent}] /\ Elements
      /\ toDb \in [Games -> Seq(Packets)] /\ toGame \in [Games -> Seq(Packets)]
      /\ enemy \in [Games -> [Pairs -> EnemyType \cup {NoEnemy}]]
      /\ fought \in [Games -> SUBSET Pairs] /\ faults \in SUBSET Faults
  BY InvParts
<1> DEFINE S == {q \in Pairs : Ends(q)}
           f == [p \in S |-> Packet("ON_WAR", p, elem[war[p].elem].type)]
           on == {Packet("ON_WAR", p, elem[war[p].elem].type) : p \in S}
<1>2. on \subseteq Packets /\ IsFiniteSet(on)
  <2>1. IsFiniteSet(S)
    BY FS_Subset
  <2>2. on = {f[p] : p \in S}
    OBVIOUS
  <2>3. IsFiniteSet({f[p] : p \in S})
    BY <2>1, ImageFinite
  <2>4. ASSUME NEW p \in S
        PROVE  Packet("ON_WAR", p, elem[war[p].elem].type) \in Packets
    <3>1. elem[war[p].elem] \in ElemType
      BY <1>1, PointsToPair DEF Ends
    <3>2. QED
      BY <3>1, PacketTypes DEF ElemType, Opening
  <2>5. QED
    BY <2>2, <2>3, <2>4
<1>3. toGame' \in [Games -> Seq(Packets)]
  <2>1. PICK s \in Orders(on), t \in Orders(Reservations(reserve)) :
          toGame' = [toGame EXCEPT ![g] = s \o t]
    BY DEF GameReconnects
  <2>2. s \in Seq(Packets) /\ t \in Seq(Packets)
    BY <1>1, <1>2, ReservationsTyped, OrdersTyped
  <2>3. s \o t \in Seq(Packets)
    BY <2>2
  <2>4. QED
    BY <1>1, <2>1, <2>3
<1>4. /\ enemy' \in [Games -> [Pairs -> EnemyType \cup {NoEnemy}]]
      /\ fought' \in [Games -> SUBSET Pairs]
      /\ faults' \in SUBSET Faults
  <2>1. faults' \in SUBSET Faults
    BY <1>1 DEF GameReconnects
  <2>2. CASE /\ enemy' = [enemy EXCEPT ![g] = [p \in Pairs |-> NoEnemy]]
             /\ fought' = [fought EXCEPT ![g] = {}]
    BY <1>1, <2>1, <2>2
  <2>3. CASE StopAllGuildWar({g})
    BY <2>1, <2>3, StopTyped
  <2>4. QED
    BY <2>2, <2>3 DEF GameReconnects
<1>5. toDb' \in [Games -> Seq(Packets)]
  <2>1. <<>> \in Seq(Packets)
    OBVIOUS
  <2>2. QED
    BY <1>1, <2>1 DEF GameReconnects
<1>6. Elements'
  BY <1>1 DEF GameReconnects, dbVars, Elements, ElementsAlive
<1>7. QED
  BY <1>3, <1>4, <1>5, <1>6, InvParts, InvPartsNext DEF GameReconnects, dbVars, table

-----------------------------------------------------------------------------
(* The invariant.                                                          *)

LEMMA NextInv == Inv /\ [Next]_vars => Inv'
<1> SUFFICES ASSUME Inv, [Next]_vars PROVE Inv'
  OBVIOUS
<1>1. ASSUME NEW g \in Games, NEW p \in Pairs,
             \/ \E t \in Types : RequestDeclareWar(g, p, t)
             \/ AcceptWar(g, p) \/ RequestRefuseWar(g, p) \/ RequestWarOver(g, p)
             \/ RequestEndWar(g, p) \/ RequestCancelWar(g, p)
      PROVE  Inv'
  BY <1>1, Requests, SendInv
<1>2. ASSUME NEW g \in Games, GameReceives(g) \/ DbReceives(g) \/ GameReconnects(g)
      PROVE  Inv'
  BY <1>2, GameReceivesInv, DbReceivesInv, GameReconnectsInv
<1>3. ASSUME NEW w \in Wars, Bet(w) \/ RunStatement(w)
      PROVE  Inv'
  BY <1>3, BetInv, RunStatementInv
<1>4. CASE Update \/ ProcessReserveWar \/ ProcessOnWar \/ ProcessWaitStart \/ DbRestart
  BY <1>4, UpdateInv, ProcessReserveWarInv, ProcessOnWarInv, ProcessWaitStartInv,
     DbRestartInv
<1>5. CASE UNCHANGED vars
  BY <1>5 DEF vars, gameVars, net, dbVars, table, ghosts, Inv, TypeOK, ElementsAlive
<1>6. QED
  BY <1>1, <1>2, <1>3, <1>4, <1>5 DEF Next

\* What a war, a packet, a reservation may look like, in every process.
THEOREM TypeCorrect == Spec => []TypeOK
<1>1. Inv => TypeOK
  BY DEF Inv
<1>2. QED
  BY <1>1, InitInv, NextInv, PTL DEF Spec

\* The element of a war is in the queue, unmarked and of that pair (m_WarMap,
\* m_pqOnWar), after any number of wars that overwrite one another.
THEOREM ElementsStayAlive == Spec => []ElementsAlive
<1>1. Inv => ElementsAlive
  BY DEF Inv
<1>2. QED
  BY <1>1, InitInv, NextInv, PTL DEF Spec

-----------------------------------------------------------------------------
(* A game never keeps a war that the db has ended.                         *)
(*                                                                         *)
(* A game may follow an old ON_WAR after the db has ended the war.  That   *)
(* is harmless because the end follows in the same queue: Backed says so   *)
(* of what the game has and of every ON_WAR that is under way.             *)

Ended(q, i, p) == \E j \in DOMAIN q : j > i /\ q[j].war \in Closing /\ q[j].pair = p
Starts(m, p)   == m.war = "ON_WAR" /\ m.pair = p
Closes(m, p)   == m.war \in Closing /\ m.pair = p

BackedAt(S, q, p) ==
  /\ p \in S => Ended(q, 0, p)
  /\ \A i \in DOMAIN q : Starts(q[i], p) => Ended(q, i, p)

Backed ==
  \A g \in Games, p \in Pairs : war[p] = NoWar => BackedAt(fought[g], toGame[g], p)

LEMMA AppendCloses ==
  ASSUME NEW S, NEW q \in Seq(Packets), NEW m \in Packets, NEW p, Closes(m, p)
  PROVE  BackedAt(S, Append(q, m), p)
<1> DEFINE r == Append(q, m)
<1>1. /\ DOMAIN r = 1 .. Len(q) + 1 /\ Len(q) \in Nat
      /\ r[Len(q) + 1] = m
  OBVIOUS
<1>2. m.war # "ON_WAR"
  BY DEF Closes, Closing
<1>3. \A i \in 0 .. Len(q) : Ended(r, i, p)
  BY <1>1 DEF Ended, Closes
<1>4. ASSUME NEW i \in DOMAIN r, Starts(r[i], p) PROVE Ended(r, i, p)
  <2>1. i # Len(q) + 1
    BY <1>1, <1>2, <1>4 DEF Starts
  <2>2. QED
    BY <1>1, <1>3, <2>1
<1> HIDE DEF r
<1>5. BackedAt(S, r, p)
  BY <1>1, <1>3, <1>4 DEF BackedAt
<1>6. QED
  BY <1>5 DEF r

LEMMA AppendOther ==
  ASSUME NEW S, NEW q \in Seq(Packets), NEW m \in Packets, NEW p,
         BackedAt(S, q, p), ~Starts(m, p)
  PROVE  BackedAt(S, Append(q, m), p)
<1> DEFINE r == Append(q, m)
<1>1. /\ DOMAIN r = 1 .. Len(q) + 1 /\ Len(q) \in Nat /\ DOMAIN q = 1 .. Len(q)
      /\ r[Len(q) + 1] = m /\ \A i \in DOMAIN q : r[i] = q[i]
  OBVIOUS
<1> HIDE DEF r
<1>2. \A i : Ended(q, i, p) => Ended(r, i, p)
  BY <1>1 DEF Ended
<1>3. ASSUME NEW i \in DOMAIN r, Starts(r[i], p) PROVE Ended(r, i, p)
  <2>1. i \in DOMAIN q /\ Starts(q[i], p)
    BY <1>1, <1>3 DEF Starts
  <2>2. QED
    BY <1>2, <2>1 DEF BackedAt
<1>4. BackedAt(S, r, p)
  BY <1>2, <1>3 DEF BackedAt
<1>5. QED
  BY <1>4 DEF r

LEMMA TailBacked ==
  ASSUME NEW S, NEW T, NEW q \in Seq(Packets), q # <<>>, NEW p,
         BackedAt(S, q, p),
         Closes(Head(q), p) => p \notin T,
         p \in T => p \in S \/ Starts(Head(q), p)
  PROVE  BackedAt(T, Tail(q), p)
<1> DEFINE r == Tail(q)
<1>1. /\ Len(q) \in Nat /\ Len(q) > 0 /\ DOMAIN q = 1 .. Len(q) /\ q[1] = Head(q)
      /\ DOMAIN r = 1 .. Len(q) - 1 /\ \A i \in DOMAIN r : r[i] = q[i + 1]
  OBVIOUS
<1> HIDE DEF r
<1>2. ASSUME NEW i \in 0 .. Len(q), Ended(q, i + 1, p) PROVE Ended(r, i, p)
  <2>1. PICK j \in DOMAIN q : j > i + 1 /\ q[j].war \in Closing /\ q[j].pair = p
    BY <1>2 DEF Ended
  <2>2. j - 1 \in DOMAIN r /\ j - 1 > i /\ r[j - 1] = q[j]
    BY <1>1, <2>1
  <2>3. QED
    BY <2>1, <2>2 DEF Ended
<1>3. ASSUME NEW i \in DOMAIN r, Starts(r[i], p) PROVE Ended(r, i, p)
  <2>1. i + 1 \in DOMAIN q /\ Starts(q[i + 1], p)
    BY <1>1, <1>3
  <2>2. QED
    BY <1>1, <1>2, <2>1 DEF BackedAt
<1>4. ASSUME p \in T PROVE Ended(r, 0, p)
  <2>1. CASE Starts(Head(q), p)
    BY <1>1, <1>2, <2>1 DEF BackedAt
  <2>2. CASE p \in S
    <3>1. PICK j \in DOMAIN q : j > 0 /\ q[j].war \in Closing /\ q[j].pair = p
      BY <2>2 DEF BackedAt, Ended
    <3>2. j # 1
      BY <1>1, <1>4, <3>1 DEF Closes
    <3>3. Ended(q, 1, p)
      BY <1>1, <3>1, <3>2 DEF Ended
    <3>4. QED
      BY <1>1, <1>2, <3>3
  <2>3. QED
    BY <1>4, <2>1, <2>2
<1>5. BackedAt(T, r, p)
  BY <1>3, <1>4 DEF BackedAt
<1>6. QED
  BY <1>5 DEF r

\* A packet to all games keeps what is backed, if it ends the wars that go.
LEMMA ForwardBacked ==
  ASSUME Inv, Backed, NEW m \in Packets, Forward(m), fought' = fought,
         \A p \in Pairs : war'[p] = NoWar =>
           Closes(m, p) \/ (war[p] = NoWar /\ ~Starts(m, p))
  PROVE  Backed'
<1> SUFFICES ASSUME NEW g \in Games, NEW p \in Pairs,
                    war'[p] = NoWar
             PROVE  BackedAt(fought'[g], toGame'[g], p)
  BY DEF Backed
<1>1. toGame[g] \in Seq(Packets) /\ toGame'[g] = Append(toGame[g], m)
  BY DEF Inv, TypeOK, Forward, Told
<1>2. CASE Closes(m, p)
  BY <1>1, <1>2, AppendCloses
<1>3. CASE war[p] = NoWar /\ ~Starts(m, p)
  BY <1>1, <1>3, AppendOther DEF Backed
<1>4. QED
  BY <1>2, <1>3

LEMMA SameBacked ==
  ASSUME Backed, fought' = fought, toGame' = toGame,
         \A p \in Pairs : war'[p] = NoWar => war[p] = NoWar
  PROVE  Backed'
  BY DEF Backed

LEMMA ClosePacket ==
  ASSUME NEW p \in Pairs, NEW k \in Closing
  PROVE  Close(k, p) \in Packets /\ Closes(Close(k, p), p)
  BY PacketTypes DEF Close, Packet, Closes

LEMMA OtherPacket ==
  ASSUME NEW p \in Pairs, NEW t \in Types, NEW k \in Opening, k # "ON_WAR"
  PROVE  Packet(k, p, t) \in Packets /\ \A q : ~Starts(Packet(k, p, t), q)
  BY PacketTypes DEF Packet, Starts

LEMMA ForgetOnly ==
  ASSUME Inv, NEW p \in Pairs, war' = Forget(p)
  PROVE  \A q \in Pairs : war'[q] = NoWar => q = p \/ war[q] = NoWar
  BY DEF Forget, Inv, TypeOK

LEMMA StartOnly ==
  ASSUME Inv, NEW p \in Pairs, NEW t, NEW r, StartWar(p, t, r)
  PROVE  \A q \in Pairs : war'[q] = NoWar => q # p /\ war[q] = NoWar
<1>1. PICK e \in Elems : war' = [war EXCEPT ![p] = [elem |-> e, res |-> r]]
  BY DEF StartWar
<1>2. [elem |-> e, res |-> r] # NoWar
  BY DEF NoWar
<1>3. QED
  BY <1>1, <1>2 DEF Inv, TypeOK

LEMMA FollowBacked ==
  ASSUME Inv, Backed, NEW g \in Games, GameReceives(g)
  PROVE  Backed'
<1> DEFINE m == Head(toGame[g])
<1> SUFFICES ASSUME NEW h \in Games, NEW p \in Pairs, war[p] = NoWar
             PROVE  BackedAt(fought'[h], toGame'[h], p)
  BY DEF Backed, GameReceives, dbVars, ghosts
<1>1. /\ toGame \in [Games -> Seq(Packets)] /\ fought \in [Games -> SUBSET Pairs]
      /\ toGame[g] # <<>> /\ toGame' = [toGame EXCEPT ![g] = Tail(@)]
      /\ Follow(g, m) /\ m \in Packets /\ m.war \in Opening \cup Closing
  <2>1. toGame \in [Games -> Seq(Packets)] /\ toGame[g] # <<>>
    BY InvParts DEF GameReceives
  <2>2. Head(toGame[g]) \in Packets
    BY <2>1
  <2>3. QED
    BY <2>1, <2>2, OpeningTyped, InvParts DEF GameReceives
<1>2. BackedAt(fought[h], toGame[h], p)
  BY DEF Backed
<1>3. \A k \in Games : k # g => fought'[k] = fought[k]
  BY <1>1 DEF Follow, EndWar, gameVars
<1>4. CASE h # g
  BY <1>1, <1>2, <1>3, <1>4
<1>5. CASE h = g
  <2>1. \/ m.war \notin Closing \cup {"ON_WAR"} /\ fought' = fought
        \/ /\ m.war = "ON_WAR"
           /\ \/ fought' = fought
              \/ fought' = [fought EXCEPT ![g] = @ \cup {m.pair}]
        \/ /\ m.war \in Closing
           /\ \/ fought' = [fought EXCEPT ![g] = @ \ {m.pair}]
              \/ m.pair \notin fought[g] /\ fought' = fought
    BY <1>1 DEF Follow, EndWar, gameVars, Closing
  <2>2. Closes(m, p) => p \notin fought'[g]
    BY <1>1, <2>1 DEF Closes, Closing
  <2>3. p \in fought'[g] => p \in fought[g] \/ Starts(m, p)
    BY <1>1, <2>1 DEF Starts, Closing
  <2>4. BackedAt(fought'[g], Tail(toGame[g]), p)
    BY <1>1, <1>2, <1>5, <2>2, <2>3, TailBacked
  <2>5. QED
    BY <1>1, <1>5, <2>4
<1>6. QED
  BY <1>4, <1>5

LEMMA HandleBacked ==
  ASSUME Inv, Backed, NEW m \in Packets, Handle(m), fought' = fought
  PROVE  Backed'
<1> DEFINE p == m.pair
<1>1. /\ p \in Pairs /\ m.war \in Opening \cup Closing
      /\ m.war \in Opening => m.type \in Types
  BY OpeningTyped
<1>2. CASE m.war \in {"SEND_DECLARE", "REFUSE"}
  <2>1. Forward(m) /\ UNCHANGED <<dbVars, row, sql, faults>>
    BY <1>2 DEF Handle
  <2>2. QED
    BY <1>2, <2>1, ForwardBacked DEF dbVars, Starts
<1>3. CASE m.war = "WAIT_START"
  <2>1. ReserveWar(m) /\ war' = war
    BY <1>3 DEF Handle
  <2>2. m.type \in Types
    BY <1>1, <1>3 DEF Opening
  <2>3. CASE Forward(Packet("RESERVE", p, m.type)) /\ UNCHANGED faults
    BY <1>1, <2>1, <2>2, <2>3, OtherPacket, ForwardBacked DEF Opening
  <2>4. CASE Forward(Close("CANCEL", p)) /\ faults' = faults \cup {"insert"}
    <3>1. \A q \in Pairs : ~Starts(Close("CANCEL", p), q)
      BY DEF Close, Packet, Starts
    <3>2. Close("CANCEL", p) \in Packets
      BY <1>1, ClosePacket DEF Closing
    <3>3. QED
      BY <2>1, <2>4, <3>1, <3>2, ForwardBacked
  <2>5. QED
    BY <2>1, <2>3, <2>4 DEF ReserveWar
<1>4. CASE m.war = "ON_WAR"
  <2>1. StartWar(p, m.type, None) /\ Forward(m) /\ UNCHANGED faults
    BY <1>4 DEF Handle
  <2>2. m.type \in Types
    BY <1>1, <1>4 DEF Opening
  <2>3. QED
    BY <1>1, <2>1, <2>2, StartOnly, ForwardBacked DEF Starts
<1>5. CASE m.war = "OVER"
  <2>1. Forward(m) /\ war' = Forget(p) /\ UNCHANGED faults
    BY <1>5 DEF Handle, RecvWarOver
  <2>2. QED
    BY <1>1, <1>5, <2>1, ForgetOnly, ForwardBacked DEF Starts, Closes, Closing
<1>6. CASE m.war = "END"
  <2>1. WarEnd(p, elem) /\ UNCHANGED faults
    BY <1>6 DEF Handle
  <2>2. CASE Ends(p)
    <3>1. Forward(Close("END", p)) /\ war' = Forget(p)
      BY <2>1, <2>2 DEF WarEnd
    <3>2. \A q \in Pairs : ~Starts(Close("END", p), q)
      BY DEF Close, Packet, Starts
    <3>3. QED
      BY <1>1, <2>1, <3>1, <3>2, ClosePacket, ForgetOnly, ForwardBacked DEF Closing
  <2>3. CASE ~Ends(p)
    BY <2>1, <2>3, SameBacked DEF WarEnd
  <2>4. QED
    BY <2>2, <2>3
<1>7. CASE m.war = "CANCEL"
  <2>1. Forward(m) /\ war' = Forget(p) /\ UNCHANGED faults
    BY <1>7 DEF Handle
  <2>2. QED
    BY <1>1, <1>7, <2>1, ForgetOnly, ForwardBacked DEF Starts, Closes, Closing
<1>8. m.war # "RESERVE"
  BY DEF Handle
<1>9. QED
  BY <1>1, <1>2, <1>3, <1>4, <1>5, <1>6, <1>7, <1>8 DEF Opening, Closing

LEMMA ProcessReserveWarBacked ==
  ASSUME Inv, Backed, ProcessReserveWar
  PROVE  Backed'
<1>1. war' = war /\ fought' = fought /\ faults' = faults
  BY DEF ProcessReserveWar, gameVars, ghosts
<1>2. ASSUME NEW w \in Wars, Due(w),
             Forward(Packet("WAIT_START", reserve[w].pair, reserve[w].type))
      PROVE  Backed'
  <2>1. reserve[w] \in ReserveType
    BY <1>2, InvParts DEF Due
  <2>2. QED
    BY <1>1, <1>2, <2>1, OtherPacket, ForwardBacked DEF ReserveType, Opening
<1>3. CASE UNCHANGED toGame
  BY <1>1, <1>3, SameBacked
<1>4. QED
  BY <1>2, <1>3 DEF ProcessReserveWar

LEMMA ProcessOnWarBacked ==
  ASSUME Inv, Backed, ProcessOnWar
  PROVE  Backed'
<1>1. fought' = fought /\ faults' = faults
  BY DEF ProcessOnWar, gameVars, ghosts
<1>2. ASSUME NEW e \in Elems, Expired(e), war' = Forget(elem[e].pair),
             Forward(Close("END", elem[e].pair))
      PROVE  Backed'
  <2>1. elem[e] \in ElemType
    BY <1>2, InvParts DEF Elements, Expired, Front
  <2>2. elem[e].pair \in Pairs
    BY <2>1 DEF ElemType
  <2>3. \A q \in Pairs : ~Starts(Close("END", elem[e].pair), q)
    BY DEF Close, Packet, Starts
  <2>4. QED
    BY <1>1, <1>2, <2>2, <2>3, ClosePacket, ForgetOnly, ForwardBacked DEF Closing
<1>3. CASE UNCHANGED <<war, toGame>>
  BY <1>1, <1>3, SameBacked
<1>4. CASE \E e \in Elems :
          /\ Expired(e)
          /\ IF elem[e].ended
             THEN elem' = [elem EXCEPT ![e] = Free] /\ UNCHANGED <<war, toGame>>
             ELSE LET p == elem[e].pair IN
                  IF Ends(p)
                  THEN /\ elem' = [RemoveWar(p, elem) EXCEPT ![e] = Free]
                       /\ war' = Forget(p)
                       /\ Forward(Close("END", p))
                  ELSE elem' = [elem EXCEPT ![e] = Free] /\ UNCHANGED <<war, toGame>>
  BY Zenon, <1>2, <1>3, <1>4
<1>5. CASE UNCHANGED <<war, elem, toGame>>
  BY <1>3, <1>5
<1>6. QED
  BY Zenon, <1>4, <1>5 DEF ProcessOnWar

LEMMA ProcessWaitStartBacked ==
  ASSUME Inv, Backed, ProcessWaitStart
  PROVE  Backed'
<1>1. fought' = fought /\ faults' = faults
  BY DEF ProcessWaitStart, gameVars
<1>2. ASSUME NEW x \in Foremost(wait), NEW ws \in Named(x),
             StartWar(ws.pair, ws.type, ws.res), Forward(Packet("ON_WAR", ws.pair, ws.type))
      PROVE  Backed'
  <2>1. ws \in WaitType
    BY InvParts DEF Named, Foremost
  <2>2. ws.pair \in Pairs /\ ws.type \in Types
    BY <2>1 DEF WaitType
  <2>3. Packet("ON_WAR", ws.pair, ws.type) \in Packets
    BY <2>2, PacketTypes DEF Opening
  <2>4. \A q \in Pairs : Starts(Packet("ON_WAR", ws.pair, ws.type), q) => q = ws.pair
    BY DEF Packet, Starts
  <2>5. QED
    BY <1>1, <1>2, <2>2, <2>3, <2>4, StartOnly, ForwardBacked
<1>3. CASE \E x \in Foremost(wait) : \E ws \in Named(x) :
             /\ StartWar(ws.pair, ws.type, ws.res)
             /\ Forward(Packet("ON_WAR", ws.pair, ws.type))
  BY Zenon, <1>2, <1>3
<1>4. CASE UNCHANGED <<wait, war, elem, toGame, crowded>>
  BY <1>1, <1>4, SameBacked
<1>5. QED
  BY Zenon, <1>3, <1>4 DEF ProcessWaitStart

\* A game that comes back has no wars, and is told of those that go on.
LEMMA GameReconnectsBacked ==
  ASSUME Inv, Backed, NEW g \in Games, GameReconnects(g)
  PROVE  Backed'
<1> SUFFICES ASSUME NEW h \in Games, NEW p \in Pairs, war[p] = NoWar
             PROVE  BackedAt(fought'[h], toGame'[h], p)
  BY DEF Backed, GameReconnects, dbVars
<1>1. /\ toGame \in [Games -> Seq(Packets)] /\ fought \in [Games -> SUBSET Pairs]
      /\ reserve \in [Wars -> ReserveType \cup {Absent}]
  BY InvParts
<1> DEFINE on == {Packet("ON_WAR", q, elem[war[q].elem].type) : q \in {x \in Pairs : Ends(x)}}
<1>2. PICK s \in Orders(on), t \in Orders(Reservations(reserve)) :
        toGame' = [toGame EXCEPT ![g] = s \o t]
  BY DEF GameReconnects
<1>3. CASE h # g
  <2>1. fought'[h] = fought[h] /\ toGame'[h] = toGame[h]
    BY <1>1, <1>2, <1>3 DEF GameReconnects, StopAllGuildWar
  <2>2. QED
    BY <2>1 DEF Backed
<1>4. CASE h = g
  <2>1. fought'[h] = {} /\ toGame'[h] = s \o t
    BY <1>1, <1>2, <1>4 DEF GameReconnects, StopAllGuildWar
  <2>2. IsFiniteSet(on) /\ IsFiniteSet(Reservations(reserve))
    <3> DEFINE S == {x \in Pairs : Ends(x)}
               f == [q \in S |-> Packet("ON_WAR", q, elem[war[q].elem].type)]
    <3>1. IsFiniteSet(S)
      BY FS_Subset
    <3>2. on = {f[q] : q \in S} /\ f = [q \in S |-> f[q]]
      OBVIOUS
    <3> HIDE DEF f
    <3>3. IsFiniteSet({f[q] : q \in S})
      BY <3>1, <3>2, ImageFinite
    <3>4. QED
      BY <1>1, <3>2, <3>3, ReservationsTyped
  <2>3. /\ s \in [1 .. Cardinality(on) -> on] /\ Cardinality(on) \in Nat
        /\ t \in [1 .. Cardinality(Reservations(reserve)) -> Reservations(reserve)]
        /\ Cardinality(Reservations(reserve)) \in Nat
    BY <2>2, FS_CardinalityType DEF Orders
  <2>4. \A m \in on : ~Starts(m, p)
    BY DEF Packet, Starts, Ends
  <2>5. \A m \in Reservations(reserve) : ~Starts(m, p)
    BY DEF Packet, Starts, Reservations
  <2> HIDE DEF on
  <2>6. \A i \in DOMAIN (s \o t) : ~Starts((s \o t)[i], p)
    <3>1. s \in Seq(on) /\ t \in Seq(Reservations(reserve))
      BY <2>3
    <3>2. ASSUME NEW i \in DOMAIN (s \o t)
          PROVE  (s \o t)[i] \in on \cup Reservations(reserve)
      BY <3>1
    <3>3. QED
      BY <2>4, <2>5, <3>2
  <2>7. QED
    BY <2>1, <2>6 DEF BackedAt
<1>5. QED
  BY <1>3, <1>4

\* The games have ended their wars, and are told of reservations only.
LEMMA DbRestartBacked ==
  ASSUME Inv, Backed, DbRestart
  PROVE  Backed'
<1> SUFFICES ASSUME NEW h \in Games, NEW p \in Pairs
             PROVE  BackedAt(fought'[h], toGame'[h], p)
  BY DEF Backed
<1> DEFINE told == Reservations(reserve')
<1>1. reserve' \in [Wars -> ReserveType \cup {Absent}]
  BY DbRestartInv, InvPartsNext
<1>2. PICK s \in Orders(told) : toGame' = [g \in Games |-> s]
  BY DEF DbRestart
<1>3. s \in [1 .. Cardinality(told) -> told] /\ Cardinality(told) \in Nat
  BY <1>1, ReservationsTyped, FS_CardinalityType DEF Orders
<1>4. \A m \in told : ~Starts(m, p)
  BY DEF Packet, Starts, Reservations
<1> HIDE DEF told
<1>5. \A i \in DOMAIN s : ~Starts(s[i], p)
  BY <1>3, <1>4
<1>6. toGame'[h] = s /\ fought'[h] = {}
  BY <1>2 DEF DbRestart, StopAllGuildWar
<1>7. QED
  BY <1>5, <1>6 DEF BackedAt

LEMMA NextBacked == Inv /\ Backed /\ [Next]_vars => Backed'
<1> SUFFICES ASSUME Inv, Backed, [Next]_vars PROVE Backed'
  OBVIOUS
<1>1. ASSUME NEW g \in Games, NEW p \in Pairs,
             \/ \E t \in Types : RequestDeclareWar(g, p, t)
             \/ AcceptWar(g, p) \/ RequestRefuseWar(g, p) \/ RequestWarOver(g, p)
             \/ RequestEndWar(g, p) \/ RequestCancelWar(g, p)
      PROVE  Backed'
  <2>1. PICK m \in Packets : Send(g, m)
    BY <1>1, Requests
  <2>2. QED
    BY <2>1, SameBacked DEF Send, gameVars, dbVars, ghosts
<1>2. ASSUME NEW g \in Games, DbReceives(g) PROVE Backed'
  <2>1. Head(toDb[g]) \in Packets
    BY <1>2, InvParts DEF DbReceives
  <2>2. QED
    BY <1>2, <2>1, HandleBacked DEF DbReceives, gameVars
<1>3. ASSUME NEW g \in Games, GameReceives(g) \/ GameReconnects(g) PROVE Backed'
  BY <1>3, FollowBacked, GameReconnectsBacked
<1>4. ASSUME NEW w \in Wars, Bet(w) \/ RunStatement(w) PROVE Backed'
  BY <1>4, SameBacked DEF Bet, RunStatement, gameVars, net, dbVars, ghosts
<1>5. CASE Update
  BY <1>5, SameBacked DEF Update, gameVars, net, ghosts
<1>6. CASE ProcessReserveWar \/ ProcessOnWar \/ ProcessWaitStart
  BY <1>6, ProcessReserveWarBacked, ProcessOnWarBacked, ProcessWaitStartBacked
<1>7. CASE DbRestart
  BY <1>7, DbRestartBacked
<1>8. CASE UNCHANGED vars
  BY <1>8, SameBacked DEF vars, gameVars, net, dbVars, ghosts
<1>9. QED
  BY <1>1, <1>2, <1>3, <1>4, <1>5, <1>6, <1>7, <1>8 DEF Next

\* A war that goes on in a game goes on in the db, or its end is under way, for
\* any number of games, pairs and packets.
THEOREM WarsStayBacked == Spec => []WarsAreBacked
<1>1. Init => Backed
  BY DEF Init, Backed, BackedAt
<1>2. Inv /\ Backed => WarsAreBacked
  <2> SUFFICES ASSUME Backed, NEW g \in Games, NEW p \in Pairs,
                      p \in fought[g], war[p] = NoWar
               PROVE  ToldEnd(g, p)
    BY DEF WarsAreBacked
  <2>1. Ended(toGame[g], 0, p)
    BY DEF Backed, BackedAt
  <2>2. QED
    BY <2>1 DEF Ended, ToldEnd
<1>3. QED
  BY <1>1, <1>2, InitInv, NextInv, NextBacked, PTL DEF Spec

-----------------------------------------------------------------------------
(* Stakes are paid once.                                                   *)
(*                                                                         *)
(* A reservation is claimed while a war or an entry that waits has it.     *)
(* Only one has it, so it is settled once; from then on nothing claims it, *)
(* and its row is settled before the award runs, so that a db that comes   *)
(* back does not settle it again.                                          *)

Fresh == {<<>>, <<"start">>}
Over  == {<<"settle">>, <<"settle", "award">>, <<"start", "settle">>,
          <<"start", "settle", "award">>, <<"award">>}

Claimed(w) == \/ \E x \in wait : x.res = w
              \/ \E p \in Pairs : war[p].res = w
Planned(w) == reserve[w] # Absent /\ ~reserve[w].started

Alone ==
  /\ \A x, y \in wait : x.res = y.res => x = y
  /\ \A x \in wait, p \in Pairs : war[p].res # x.res
  /\ \A p, q \in Pairs : war[p].res = war[q].res => p = q \/ war[p].res = None

Account(w) ==
  /\ sql[w] \in Fresh \cup Over
  /\ row[w] = "none" => reserve[w] = Absent /\ sql[w] = <<>>
  /\ Planned(w) => sql[w] = <<>> /\ row[w] # "settled"
  /\ Claimed(w) => reserve[w].started /\ sql[w] \in Fresh /\ row[w] # "settled"
  /\ row[w] = "settled" => sql[w] \in {<<>>, <<"award">>}
  /\ sql[w] = <<"award">> => row[w] = "settled"
  /\ paid[w] # 0 => paid[w] = 1 /\ row[w] = "settled" /\ sql[w] = <<>>

Accounts == ~crowded => Alone /\ \A w \in Wars : Account(w)

LEMMA AccountsInit == Init => Accounts
<1> SUFFICES ASSUME Init PROVE Accounts
  OBVIOUS
<1>1. \A p \in Pairs : war[p].res = None
  BY DEF Init, NoWar
<1>2. Alone
  BY <1>1 DEF Init, Alone
<1>3. ASSUME NEW w \in Wars PROVE Account(w)
  <2>1. ~Claimed(w)
    BY <1>1, NoneAssumption DEF Init, Claimed
  <2>2. /\ reserve[w] = Absent /\ row[w] = "none" /\ sql[w] = <<>> /\ paid[w] = 0
    BY DEF Init
  <2>3. QED
    BY <2>1, <2>2 DEF Account, Planned, Fresh
<1>4. QED
  BY <1>2, <1>3 DEF Accounts

LEMMA StakesOnce == Accounts => StakesPaidOnce
  BY DEF Accounts, Account, StakesPaidOnce

\* What only takes wars away changes no account.
LEMMA FewerClaims ==
  ASSUME Inv, Accounts, UNCHANGED <<wait, crowded>>,
         \A p \in Pairs : war'[p].res \in {war[p].res, None}
  PROVE  /\ ~crowded' => Alone'
         /\ \A w \in Wars : Claimed(w)' => Claimed(w)
<1>1. ASSUME ~crowded' PROVE Alone'
  <2>1. Alone
    BY <1>1 DEF Accounts
  <2>2. \A x \in wait : x.res # None
    BY InvParts, NoneAssumption DEF WaitType
  <2>3. QED
    BY <2>1, <2>2 DEF Alone
<1>2. \A w \in Wars : Claimed(w)' => Claimed(w)
  BY NoneAssumption DEF Claimed
<1>3. QED
  BY <1>1, <1>2

LEMMA SameAccount ==
  ASSUME NEW w, Account(w), Claimed(w)' => Claimed(w),
         sql'[w] = sql[w], row'[w] = row[w], paid'[w] = paid[w], reserve'[w] = reserve[w]
  PROVE  Account(w)'
  BY DEF Account, Planned

LEMMA FewerWars ==
  ASSUME Inv, Accounts, UNCHANGED <<wait, crowded, reserve, row, sql, paid>>,
         \A p \in Pairs : war'[p].res \in {war[p].res, None}
  PROVE  Accounts'
<1>1. /\ ~crowded' => Alone'
      /\ \A w \in Wars : Claimed(w)' => Claimed(w)
  BY FewerClaims
<1>2. ASSUME ~crowded', NEW w \in Wars PROVE Account(w)'
  BY <1>1, <1>2, SameAccount DEF Accounts
<1>3. QED
  BY <1>1, <1>2 DEF Accounts

-----------------------------------------------------------------------------
(* Statements.                                                             *)

LEMMA FirstStatement ==
  ASSUME NEW s \in Fresh \cup Over, s # <<>>
  PROVE  \/ /\ Head(s) = "start"
            /\ Tail(s) \in {<<>>, <<"settle">>, <<"settle", "award">>}
            /\ s \notin {<<>>, <<"award">>} /\ (s \in Fresh => Tail(s) = <<>>)
         \/ /\ Head(s) = "settle"
            /\ Tail(s) \in {<<>>, <<"award">>}
            /\ s \notin Fresh
         \/ /\ s = <<"award">> /\ Head(s) = "award" /\ Tail(s) = <<>>
            /\ s \notin Fresh
<1>1. \A a, b : Head(<<a>>) = a /\ Tail(<<a>>) = <<>> /\ Head(<<a, b>>) = a
                /\ Tail(<<a, b>>) = <<b>>
  OBVIOUS
<1>2. \A a, b, c : Head(<<a, b, c>>) = a /\ Tail(<<a, b, c>>) = <<b, c>>
  OBVIOUS
<1>3. CASE s = <<"start">>
  BY <1>1, <1>3
<1>4. CASE s = <<"settle">>
  BY <1>1, <1>4 DEF Fresh
<1>5. CASE s = <<"settle", "award">>
  BY <1>1, <1>5 DEF Fresh
<1>6. CASE s = <<"start", "settle">>
  BY <1>1, <1>6 DEF Fresh
<1>7. CASE s = <<"start", "settle", "award">>
  BY <1>2, <1>7 DEF Fresh
<1>8. CASE s = <<"award">>
  BY <1>1, <1>8 DEF Fresh
<1>9. QED
  BY <1>3, <1>4, <1>5, <1>6, <1>7, <1>8 DEF Fresh, Over

LEMMA AddStatements ==
  ASSUME NEW s \in Fresh
  PROVE  /\ s \o <<>> = s
         /\ s \o <<"settle">> \in Over
         /\ s \o <<"settle", "award">> \in Over
         /\ <<"award">> \notin {s, s \o <<"settle">>, s \o <<"settle", "award">>}
<1>1. CASE s = <<>>
  BY <1>1 DEF Over
<1>2. CASE s = <<"start">>
  <2>1. <<"start">> \o <<"settle">> = <<"start", "settle">>
    <3>1. <<"start">> \in Seq(Statements) /\ <<"settle">> \in Seq(Statements)
          /\ <<"start", "settle">> \in Seq(Statements)
      BY DEF Statements
    <3>2. /\ <<"start">> \o <<"settle">> \in Seq(Statements)
          /\ Len(<<"start">> \o <<"settle">>) = Len(<<"start", "settle">>)
          /\ \A i \in 1 .. 2 : (<<"start">> \o <<"settle">>)[i] = <<"start", "settle">>[i]
      BY <3>1, ConcatProperties
    <3>3. QED
      BY <3>1, <3>2, SeqEqual
  <2>2. <<"start">> \o <<"settle", "award">> = <<"start", "settle", "award">>
    <3>1. <<"start">> \in Seq(Statements) /\ <<"settle", "award">> \in Seq(Statements)
          /\ <<"start", "settle", "award">> \in Seq(Statements)
      BY DEF Statements
    <3>2. /\ <<"start">> \o <<"settle", "award">> \in Seq(Statements)
          /\ Len(<<"start">> \o <<"settle", "award">>) = Len(<<"start", "settle", "award">>)
          /\ \A i \in 1 .. 3 : (<<"start">> \o <<"settle", "award">>)[i] = <<"start", "settle", "award">>[i]
      BY <3>1, ConcatProperties
    <3>3. QED
      BY <3>1, <3>2, SeqEqual
  <2>3. QED
    BY <1>2, <2>1, <2>2 DEF Over
<1>3. QED
  BY <1>1, <1>2 DEF Fresh

LEMMA RunStatementAccounts ==
  ASSUME Inv, Accounts, NEW w \in Wars, RunStatement(w)
  PROVE  Accounts'
<1>1. /\ UNCHANGED <<war, wait, reserve, crowded>>
      /\ sql[w] # <<>> /\ sql' = [sql EXCEPT ![w] = Tail(@)]
      /\ row' = [row EXCEPT ![w] = CASE Head(sql[w]) = "start"  -> "started"
                                     [] Head(sql[w]) = "settle" -> "settled"
                                     [] OTHER -> @]
      /\ paid' = [paid EXCEPT ![w] =
                    IF Head(sql[w]) = "award" /\ @ < 2 THEN @ + 1 ELSE @]
  BY DEF RunStatement, dbVars, ghosts
<1>2. /\ ~crowded' => Alone'
      /\ \A v \in Wars : Claimed(v)' => Claimed(v)
  BY <1>1, FewerClaims
<1>3. ASSUME ~crowded', NEW v \in Wars, v # w PROVE Account(v)'
  <2>1. Account(v)
    BY <1>1, <1>3 DEF Accounts
  <2>2. sql'[v] = sql[v] /\ row'[v] = row[v] /\ paid'[v] = paid[v]
    BY <1>1, <1>3, InvParts
  <2>3. QED
    BY <1>1, <1>2, <2>1, <2>2, SameAccount
<1>4. ASSUME ~crowded' PROVE Account(w)'
  <2>1. Account(w)
    BY <1>1, <1>4 DEF Accounts
  <2>2. sql[w] \in Fresh \cup Over /\ sql[w] # <<>>
    BY <1>1, <2>1 DEF Account
  <2>3. /\ sql'[w] = Tail(sql[w])
        /\ Head(sql[w]) = "start" => row'[w] = "started" /\ paid'[w] = paid[w]
        /\ Head(sql[w]) = "settle" => row'[w] = "settled" /\ paid'[w] = paid[w]
        /\ Head(sql[w]) = "award" =>
             row'[w] = row[w] /\ (paid[w] = 0 => paid'[w] = 1)
    BY <1>1, InvParts
  <2>4. paid[w] = 0 /\ ~Planned(w) /\ row[w] # "none"
    BY <2>1, <2>2 DEF Account
  <2>5. ~Planned(w)'
    BY <1>1, <2>4 DEF Planned
  <2>6. CASE /\ Head(sql[w]) = "start"
             /\ Tail(sql[w]) \in {<<>>, <<"settle">>, <<"settle", "award">>}
             /\ sql[w] \notin {<<>>, <<"award">>} /\ (sql[w] \in Fresh => Tail(sql[w]) = <<>>)
    <3>1. Tail(sql[w]) \in Fresh \cup Over /\ Tail(sql[w]) # <<"award">>
      BY <2>6 DEF Fresh, Over
    <3>2. Claimed(w)' => reserve'[w].started /\ sql'[w] \in Fresh
      BY <1>1, <1>2, <2>1, <2>3, <2>6 DEF Account, Fresh
    <3>3. QED
      BY <2>3, <2>4, <2>5, <2>6, <3>1, <3>2 DEF Account
  <2>7. CASE /\ Head(sql[w]) = "settle"
             /\ Tail(sql[w]) \in {<<>>, <<"award">>}
             /\ sql[w] \notin Fresh
    <3>1. Tail(sql[w]) \in Fresh \cup Over
      BY <2>7 DEF Fresh, Over
    <3>2. ~Claimed(w)'
      BY <1>2, <2>1, <2>7 DEF Account
    <3>3. QED
      BY <2>3, <2>4, <2>5, <2>7, <3>1, <3>2 DEF Account
  <2>8. CASE /\ sql[w] = <<"award">> /\ Head(sql[w]) = "award" /\ Tail(sql[w]) = <<>>
             /\ sql[w] \notin Fresh
    <3>1. ~Claimed(w)' /\ row[w] = "settled"
      BY <1>2, <2>1, <2>8 DEF Account
    <3>2. QED
      BY <2>3, <2>4, <2>5, <2>8, <3>1 DEF Account, Fresh
  <2>9. QED
    BY <2>2, <2>6, <2>7, <2>8, FirstStatement
<1>5. QED
  BY <1>2, <1>3, <1>4 DEF Accounts

-----------------------------------------------------------------------------
(* Packets.                                                                *)

LEMMA ForgetFewer ==
  ASSUME Inv, NEW p \in Pairs, war' = Forget(p)
  PROVE  \A q \in Pairs : war'[q].res = IF q = p THEN None ELSE war[q].res
  BY InvParts DEF Forget, Elements, NoWar

LEMMA ReserveWarAccounts ==
  ASSUME Inv, Accounts, NEW m, ReserveWar(m), UNCHANGED <<war, wait, sql, paid, crowded>>
  PROVE  Accounts'
<1>1. /\ ~crowded' => Alone'
      /\ \A w \in Wars : Claimed(w)' => Claimed(w)
  BY FewerClaims
<1>2. CASE UNCHANGED <<row, reserve>>
  BY <1>2, FewerWars
<1>3. ASSUME NEW w \in Wars, row[w] = "none",
             row' = [row EXCEPT ![w] = "open"],
             reserve' = [reserve EXCEPT ![w] = [pair |-> m.pair, type |-> m.type,
                                              left |-> ReserveSecs, started |-> FALSE]]
      PROVE  Accounts'
  <2>1. ASSUME ~crowded', NEW v \in Wars, v # w PROVE Account(v)'
    <3>1. row'[v] = row[v] /\ reserve'[v] = reserve[v]
      BY <1>3, <2>1, InvParts
    <3>2. QED
      BY <1>1, <2>1, <3>1, SameAccount DEF Accounts
  <2>2. ASSUME ~crowded' PROVE Account(w)'
    <3>1. Account(w)
      BY <2>2 DEF Accounts
    <3>2. sql[w] = <<>> /\ reserve[w] = Absent /\ ~Claimed(w) /\ paid[w] = 0
      BY <1>3, <3>1 DEF Account, Absent
    <3>3. row'[w] = "open"
      BY <1>3, InvParts
    <3>4. sql'[w] = <<>> /\ paid'[w] = 0 /\ ~Claimed(w)' /\ <<>> # <<"award">>
      BY <1>1, <3>2
    <3>5. QED
      BY <3>3, <3>4 DEF Account, Fresh
  <2>3. QED
    BY <1>1, <2>1, <2>2 DEF Accounts
<1>4. QED
  BY <1>2, <1>3 DEF ReserveWar

\* A war that is over is settled: nothing else has its reservation.
LEMMA RecvWarOverAccounts ==
  ASSUME Inv, Accounts, NEW m \in Packets, RecvWarOver(m),
         UNCHANGED <<wait, reserve, row, paid, crowded>>
  PROVE  Accounts'
<1> DEFINE p == m.pair
<1>1. p \in Pairs /\ war' = Forget(p)
  BY DEF RecvWarOver, Packets
<1>2. \A q \in Pairs : war'[q].res = IF q = p THEN None ELSE war[q].res
  BY <1>1, ForgetFewer
<1>3. /\ ~crowded' => Alone'
      /\ \A w \in Wars : Claimed(w)' => Claimed(w)
  BY <1>2, FewerClaims
<1>4. CASE UNCHANGED sql
  BY <1>2, <1>4, FewerWars
<1>5. ASSUME NEW r \in Wars, r = war[p].res,
             NEW s \in Settlements(r, elem[war[p].elem].type, m.draw), Queued(r, s)
      PROVE  Accounts'
  <2>2. s \in {<<>>, <<"settle">>, <<"settle", "award">>}
    BY <1>5 DEF Settlements, Draw
  <2>3. ASSUME ~crowded', NEW v \in Wars, v # r PROVE Account(v)'
    <3>1. sql'[v] = sql[v]
      BY <1>5, <2>3, InvParts DEF Queued
    <3>2. QED
      BY <1>3, <2>3, <3>1, SameAccount DEF Accounts
  <2>4. ASSUME ~crowded' PROVE Account(r)'
    <3>1. Account(r) /\ Alone
      BY <2>4 DEF Accounts
    <3>2. Claimed(r)
      BY <1>1, <1>5 DEF Claimed
    <3>3. ~Claimed(r)'
      <4>1. \A q \in Pairs : war'[q].res # r
        <5>1. r # None
          BY <1>5
        <5>2. ASSUME NEW q \in Pairs, q # p PROVE war[q].res # r
          BY <1>1, <1>5, <3>1, <5>1, <5>2 DEF Alone
        <5>3. QED
          BY <1>2, <5>1, <5>2
      <4>2. \A x \in wait : x.res # r
        BY <1>1, <1>5, <3>1 DEF Alone
      <4>3. QED
        BY <4>1, <4>2 DEF Claimed
    <3>4. /\ sql[r] \in Fresh /\ row[r] # "settled" /\ paid[r] = 0
          /\ row[r] # "none" /\ ~Planned(r)
      BY <3>1, <3>2 DEF Account, Absent, Planned
    <3>5. sql'[r] = sql[r] \o s
      BY <1>5, InvParts DEF Queued
    <3>6. sql'[r] \in Fresh \cup Over /\ sql'[r] # <<"award">>
      BY <2>2, <3>4, <3>5, AddStatements
    <3>7. ~Planned(r)'
      BY <3>4 DEF Planned
    <3>8. QED
      BY <3>3, <3>4, <3>6, <3>7 DEF Account
  <2>5. QED
    BY <1>3, <2>3, <2>4 DEF Accounts
<1>6. war[p].res \in Wars \cup {None}
  <2>1. war[p] \in WarType \cup {NoWar}
    BY <1>1, InvParts DEF Elements
  <2>2. QED
    BY <2>1 DEF WarType, NoWar
<1>7. QED
  BY <1>4, <1>5, <1>6 DEF RecvWarOver

LEMMA HandleAccounts ==
  ASSUME Inv, Accounts, NEW m \in Packets, Handle(m), UNCHANGED <<paid, crowded>>
  PROVE  Accounts'
<1>1. m.pair \in Pairs
  BY DEF Packets
<1>2. ASSUME UNCHANGED <<wait, reserve, row, sql>>, war' = Forget(m.pair) \/ war' = war
      PROVE  Accounts'
  BY <1>1, <1>2, ForgetFewer, FewerWars
<1>3. CASE m.war \in {"SEND_DECLARE", "REFUSE"} /\ UNCHANGED <<dbVars, row, sql, faults>>
  BY <1>2, <1>3 DEF dbVars
<1>4. CASE ReserveWar(m) /\ UNCHANGED <<war, elem, wait, bet, sql>>
  BY <1>4, ReserveWarAccounts
<1>5. CASE /\ StartWar(m.pair, m.type, None)
           /\ UNCHANGED <<wait, reserve, bet, row, sql, faults>>
  <2>1. PICK e \in Elems : war' = [war EXCEPT ![m.pair] = [elem |-> e, res |-> None]]
    BY <1>5 DEF StartWar
  <2>2. \A q \in Pairs : war'[q].res \in {war[q].res, None}
    BY <1>1, <2>1, InvParts DEF Elements
  <2>3. QED
    BY <1>5, <2>2, FewerWars
<1>6. CASE RecvWarOver(m) /\ UNCHANGED <<wait, reserve, bet, row, faults>>
  BY <1>6, RecvWarOverAccounts
<1>7. CASE WarEnd(m.pair, elem) /\ UNCHANGED <<wait, reserve, bet, row, sql, faults>>
  BY <1>2, <1>7 DEF WarEnd
<1>8. CASE /\ war' = Forget(m.pair)
           /\ UNCHANGED <<wait, reserve, bet, row, sql, faults>>
  BY <1>2, <1>8
<1>9. QED
  BY <1>3, <1>4, <1>5, <1>6, <1>7, <1>8 DEF Handle

-----------------------------------------------------------------------------
(* Timers and restarts.                                                    *)

LEMMA UpdateAccounts ==
  ASSUME Inv, Accounts, Update
  PROVE  Accounts'
<1>1. /\ wait' = {Older(x) : x \in wait}
      /\ reserve' = [w \in Wars |-> Older(reserve[w])]
      /\ UNCHANGED <<war, row, sql, paid, crowded>>
  BY DEF Update, table, ghosts
<1>2. \A x \in wait : Older(x).res = x.res
  BY InvParts DEF WaitType, Older
<1>3. ASSUME NEW w \in Wars
      PROVE  /\ reserve'[w].started = reserve[w].started
             /\ reserve'[w] = Absent <=> reserve[w] = Absent
  <2> reserve'[w] = [reserve[w] EXCEPT !.left = Less(@)]
    BY <1>1 DEF Older
  <2>1. CASE reserve[w] = Absent
    <3>1. Less(Absent.left) = Absent.left
      BY DEF Less, Absent
    <3>2. QED
      BY <2>1, <3>1 DEF Absent
  <2>2. CASE reserve[w] \in ReserveType
    <3>1. reserve[w].type \in Types /\ reserve'[w].type = reserve[w].type
          /\ reserve'[w].started = reserve[w].started
      BY <2>2 DEF ReserveType
    <3>2. Absent.type \notin Types
      BY DEF Absent
    <3>3. QED
      BY <3>1, <3>2
  <2>3. QED
    BY <2>1, <2>2, InvParts
<1>4. ASSUME ~crowded' PROVE Alone'
  BY <1>1, <1>2, <1>4 DEF Accounts, Alone
<1>5. \A w \in Wars : Claimed(w)' => Claimed(w)
  BY <1>1, <1>2 DEF Claimed
<1>6. ASSUME ~crowded', NEW w \in Wars PROVE Account(w)'
  BY <1>1, <1>3, <1>5, <1>6 DEF Accounts, Account, Planned
<1>7. QED
  BY <1>4, <1>6 DEF Accounts

LEMMA ProcessReserveWarAccounts ==
  ASSUME Inv, Accounts, ProcessReserveWar
  PROVE  Accounts'
<1>1. UNCHANGED <<war, row, paid, crowded>>
  BY DEF ProcessReserveWar, ghosts
<1>2. CASE UNCHANGED <<sql, reserve, wait>>
  BY <1>1, <1>2, FewerWars
<1>3. ASSUME NEW w \in Wars, Due(w), Queued(w, <<"start">>),
             reserve' = [reserve EXCEPT ![w] = [@ EXCEPT !.started = TRUE]],
             wait' = wait \cup {[pair |-> reserve[w].pair, type |-> reserve[w].type,
                                 left |-> WaitSecs, res |-> w]}
      PROVE  Accounts'
  <2> SUFFICES ASSUME ~crowded' PROVE Alone' /\ \A v \in Wars : Account(v)'
    BY DEF Accounts
  <2>1. Alone /\ \A v \in Wars : Account(v)
    BY <1>1 DEF Accounts
  <2>2. Planned(w) /\ ~Claimed(w)
    BY <1>3, <2>1 DEF Due, Planned, Account
  <2>3. Alone'
    BY <1>1, <1>3, <2>1, <2>2 DEF Alone, Claimed
  <2>4. ASSUME NEW v \in Wars, v # w PROVE Account(v)'
    <3>1. sql'[v] = sql[v] /\ reserve'[v] = reserve[v]
      BY <1>3, <2>4, InvParts DEF Queued
    <3>2. Claimed(v)' => Claimed(v)
      BY <1>1, <1>3, <2>4 DEF Claimed
    <3>3. QED
      BY <1>1, <2>1, <3>1, <3>2, SameAccount
  <2>5. Account(w)'
    <3>1. sql[w] = <<>> /\ row[w] # "settled" /\ row[w] # "none" /\ paid[w] = 0
      BY <2>1, <2>2 DEF Account, Planned
    <3>2. sql'[w] = <<"start">>
      BY <1>3, <3>1, InvParts DEF Queued
    <3>3. reserve'[w].started
      BY <1>3, <2>2, InvParts DEF Planned, ReserveType
    <3>4. QED
      BY <1>1, <3>1, <3>2, <3>3 DEF Account, Planned, Fresh
  <2>6. QED
    BY <2>3, <2>4, <2>5
<1>4. QED
  BY <1>2, <1>3 DEF ProcessReserveWar

LEMMA ProcessOnWarAccounts ==
  ASSUME Inv, Accounts, ProcessOnWar
  PROVE  Accounts'
<1>1. UNCHANGED <<wait, reserve, row, sql, paid, crowded>>
  BY DEF ProcessOnWar, table, ghosts
<1>2. ASSUME NEW e \in Elems, Expired(e), war' = Forget(elem[e].pair)
      PROVE  Accounts'
  <2>1. elem[e] \in ElemType
    BY <1>2, InvParts DEF Elements, Expired, Front
  <2>2. elem[e].pair \in Pairs
    BY <2>1 DEF ElemType
  <2>3. QED
    BY <1>1, <1>2, <2>2, ForgetFewer, FewerWars
<1>3. CASE UNCHANGED war
  BY <1>1, <1>3, FewerWars
<1>4. CASE \E e \in Elems :
          /\ Expired(e)
          /\ IF elem[e].ended
             THEN elem' = [elem EXCEPT ![e] = Free] /\ UNCHANGED <<war, toGame>>
             ELSE LET p == elem[e].pair IN
                  IF Ends(p)
                  THEN /\ elem' = [RemoveWar(p, elem) EXCEPT ![e] = Free]
                       /\ war' = Forget(p)
                       /\ Forward(Close("END", p))
                  ELSE elem' = [elem EXCEPT ![e] = Free] /\ UNCHANGED <<war, toGame>>
  BY Zenon, <1>2, <1>3, <1>4
<1>5. CASE UNCHANGED <<war, elem, toGame>>
  BY <1>3, <1>5
<1>6. QED
  BY Zenon, <1>4, <1>5 DEF ProcessOnWar

LEMMA ProcessWaitStartAccounts ==
  ASSUME Inv, Accounts, ProcessWaitStart
  PROVE  Accounts'
<1>1. UNCHANGED <<reserve, row, sql, paid>>
  BY DEF ProcessWaitStart, table
<1>2. CASE UNCHANGED <<wait, war, elem, toGame, crowded>>
  BY <1>1, <1>2, FewerWars
<1>3. ASSUME NEW x \in Foremost(wait), wait' = wait \ {x}, NEW ws \in Named(x),
             StartWar(ws.pair, ws.type, ws.res),
             crowded' = (crowded \/ wait # {x})
      PROVE  Accounts'
  <2> SUFFICES ASSUME ~crowded' PROVE Alone' /\ \A v \in Wars : Account(v)'
    BY DEF Accounts
  <2>1. ~crowded /\ wait = {x} /\ wait' = {} /\ ws = x
    BY <1>3 DEF Named
  <2>2. Alone /\ \A v \in Wars : Account(v)
    BY <2>1 DEF Accounts
  <2>3. x.pair \in Pairs /\ x.res \in Wars
    BY <2>1, InvParts DEF WaitType
  <2>4. PICK e \in Elems : war' = [war EXCEPT ![x.pair] = [elem |-> e, res |-> x.res]]
    BY <1>3, <2>1 DEF StartWar
  <2>5. \A q \in Pairs : war'[q].res = IF q = x.pair THEN x.res ELSE war[q].res
    BY <2>3, <2>4, InvParts DEF Elements
  <2>6. Alone'
    BY <2>1, <2>2, <2>3, <2>5 DEF Alone
  <2>7. ASSUME NEW v \in Wars PROVE Claimed(v)' => Claimed(v)
    BY <2>1, <2>5 DEF Claimed
  <2>8. QED
    BY <1>1, <2>2, <2>6, <2>7, SameAccount
<1>4. CASE \E x \in Foremost(wait) :
             /\ wait' = wait \ {x}
             /\ \E ws \in Named(x) : StartWar(ws.pair, ws.type, ws.res)
             /\ crowded' = (crowded \/ wait # {x})
  BY Zenon, <1>3, <1>4
<1>5. QED
  BY <1>2, <1>4 DEF ProcessWaitStart

\* What was paid is settled, and a db that comes back settles what is not.
LEMMA DbRestartAccounts ==
  ASSUME Inv, Accounts, DbRestart
  PROVE  Accounts'
<1> SUFFICES ASSUME ~crowded' PROVE Alone' /\ \A w \in Wars : Account(w)'
  BY DEF Accounts
<1>1. /\ \A w \in Wars : Account(w)
      /\ UNCHANGED <<row, paid>> /\ wait' = {} /\ war' = [p \in Pairs |-> NoWar]
  BY DEF DbRestart, Accounts
<1>2. \A p \in Pairs : war'[p].res = None
  BY <1>1 DEF NoWar
<1>3. Alone'
  BY <1>1, <1>2 DEF Alone
<1>4. PICK missed \in SUBSET {w \in Wars : row[w] = "open"} :
        /\ reserve' = [w \in Wars |-> IF row[w] = "open" /\ w \notin missed
                                      THEN [reserve[w] EXCEPT !.started = FALSE]
                                      ELSE Absent]
        /\ sql' = [w \in Wars |-> IF w \in missed \cup {v \in Wars : row[v] = "started"}
                                  THEN Draw(w) ELSE <<>>]
  BY DEF DbRestart
<1>5. ASSUME NEW w \in Wars PROVE Account(w)'
  <2>1. ~Claimed(w)'
    <3>1. w # None
      OBVIOUS
    <3>2. QED
      BY <1>1, <1>2, <3>1 DEF Claimed
  <2>2. paid[w] # 0 => paid[w] = 1 /\ row[w] = "settled"
    BY <1>1 DEF Account
  <2>3. CASE w \in missed \/ row[w] = "started"
    <3>1. sql'[w] = Draw(w) /\ reserve'[w] = Absent /\ row[w] \in {"open", "started"}
      BY <1>4, <2>3
    <3>2. Draw(w) \in Over /\ Draw(w) # <<"award">>
      BY DEF Draw, Over
    <3>3. QED
      BY <1>1, <2>1, <2>2, <3>1, <3>2 DEF Account, Planned
  <2>4. CASE w \notin missed /\ row[w] # "started"
    <3>1. /\ sql'[w] = <<>>
          /\ row[w] # "open" => reserve'[w] = Absent
      BY <1>4, <2>4
    <3>2. QED
      BY <1>1, <2>1, <2>2, <3>1 DEF Account, Planned, Fresh
  <2>5. QED
    BY <2>3, <2>4
<1>6. QED
  BY <1>3, <1>5

LEMMA NextAccounts == Inv /\ Accounts /\ [Next]_vars => Accounts'
<1> SUFFICES ASSUME Inv, Accounts, [Next]_vars PROVE Accounts'
  OBVIOUS
<1>1. ASSUME UNCHANGED <<war, wait, crowded, reserve, row, sql, paid>> PROVE Accounts'
  BY <1>1, FewerWars
<1>2. ASSUME NEW g \in Games, NEW p \in Pairs,
             \/ \E t \in Types : RequestDeclareWar(g, p, t)
             \/ AcceptWar(g, p) \/ RequestRefuseWar(g, p) \/ RequestWarOver(g, p)
             \/ RequestEndWar(g, p) \/ RequestCancelWar(g, p)
      PROVE  Accounts'
  <2>1. PICK m \in Packets : Send(g, m)
    BY <1>2, Requests
  <2>2. QED
    BY <1>1, <2>1 DEF Send, dbVars, table, ghosts
<1>3. ASSUME NEW g \in Games, DbReceives(g) PROVE Accounts'
  <2>1. Head(toDb[g]) \in Packets
    BY <1>3, InvParts DEF DbReceives
  <2>2. QED
    BY <1>3, <2>1, HandleAccounts DEF DbReceives
<1>4. ASSUME NEW g \in Games, GameReceives(g) \/ GameReconnects(g) PROVE Accounts'
  BY <1>1, <1>4 DEF GameReceives, GameReconnects, dbVars, table, ghosts
<1>5. ASSUME NEW w \in Wars, Bet(w) PROVE Accounts'
  BY <1>1, <1>5 DEF Bet, table, ghosts
<1>6. ASSUME NEW w \in Wars, RunStatement(w) PROVE Accounts'
  BY <1>6, RunStatementAccounts
<1>7. CASE Update \/ ProcessReserveWar \/ ProcessOnWar \/ ProcessWaitStart \/ DbRestart
  BY <1>7, UpdateAccounts, ProcessReserveWarAccounts, ProcessOnWarAccounts,
     ProcessWaitStartAccounts, DbRestartAccounts
<1>8. CASE UNCHANGED vars
  BY <1>1, <1>8 DEF vars, dbVars, table, ghosts
<1>9. QED
  BY <1>2, <1>3, <1>4, <1>5, <1>6, <1>7, <1>8 DEF Next

\* The stakes on a reserved war are paid once at the most, however it ends and
\* whenever the db restarts, unless two wars have waited for their start together.
THEOREM StakesArePaidOnce == Spec => []StakesPaidOnce
  BY InitInv, NextInv, AccountsInit, NextAccounts, StakesOnce, PTL DEF Spec
=============================================================================
