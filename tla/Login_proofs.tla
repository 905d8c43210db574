---------------------------- MODULE Login_proofs ----------------------------
(* Proofs about Login: the type invariant; that the maps of the db server     *)
(* never lead to a CLoginData that was deleted, whatever the clients do and   *)
(* whatever crashes, breaks, restarts or collides; and, while connections     *)
(* last, that an account has one session at most, and that one that is logged *)
(* on has one.                                                                *)
EXTENDS Login, TLAPS, FiniteSetTheorems

-----------------------------------------------------------------------------
(* Types of messages.                                                         *)

\* A message for the db, sent if the connection is up.
LEMMA SendType ==
  ASSUME NetOK, NEW g, NEW m \in Asks, Send(g, m)
  PROVE  toDb' \in [Games -> Seq(Asks)]
BY DEF NetOK, Send

\* An answer to a message or a query that names a DESC.
LEMMA ReplyType ==
  ASSUME NetOK, NEW g \in Games, NEW m, m.desc \in Descs, m.acct \in Accounts,
         NEW op \in {"success", "already", "notexist", "loaded", "loadfailed"},
         Reply(g, op, m)
  PROVE  toGame' \in [Games -> Seq(Tells)]
<1> DEFINE t == [op |-> op, desc |-> m.desc, acct |-> m.acct]
<1>1. t \in Tells
  BY DEF Tells
<1>2. toGame' = [toGame EXCEPT ![g] = Append(@, t)]
  BY DEF Reply
<1> HIDE DEF t
<1> QED
  BY <1>1, <1>2 DEF NetOK

\* The message the db takes from a connection.
LEMMA TakeType ==
  ASSUME NetOK, NEW g \in Games, NEW op, Take(g, op)
  PROVE  /\ toDb' \in [Games -> Seq(Asks)]
         /\ Head(toDb[g]) \in Asks /\ Head(toDb[g]).op = op
BY DEF NetOK, Take

\* The answer a game reads.
LEMMA AnswerType ==
  ASSUME NetOK, NEW g \in Games, NEW op, Answer(g, op)
  PROVE  /\ toGame' \in [Games -> Seq(Tells)]
         /\ Head(toGame[g]) \in Tells
BY DEF NetOK, Answer

\* Messages that name a DESC, a logout, and a setup.
LEMMA AsksTypes ==
  /\ \A m \in Asks : m.op \in {"login", "load"} => m.desc \in Descs /\ m.acct \in Accounts
  /\ \A m \in Asks : m.op \in {"logout", "dc"} => m.acct \in Accounts
  /\ \A m \in Asks : m.op = "setup" => m.logins \in SUBSET [acct : Accounts, key : AnyKey]
BY DEF Asks

-----------------------------------------------------------------------------
(* Types of the CLoginData objects and of the maps.                           *)

\* A map with one more entry, or one changed.
LEMMA WithType ==
  ASSUME NEW T, NEW f, f \in [DOMAIN f -> T], NEW i, NEW v \in T
  PROVE  /\ With(f, i, v) \in [DOMAIN f \cup {i} -> T]
         /\ DOMAIN With(f, i, v) = DOMAIN f \cup {i}
BY DEF With

\* A map with fewer entries.
LEMMA EraseType ==
  ASSUME NEW T, NEW f, f \in [DOMAIN f -> T], NEW S
  PROVE  /\ DOMAIN Erase(f, S) = DOMAIN f \ S
         /\ Erase(f, S) \in [DOMAIN f \ S -> T]
         /\ \A i \in DOMAIN f \ S : Erase(f, S)[i] = f[i]
BY DEF Erase, Restrict

\* Accounts that log off leave objects.
LEMMA LoggedOffType ==
  ASSUME DbOK, NEW X
  PROVE  DOMAIN LoggedOff(X) \subseteq LDs /\ LoggedOff(X) \in [DOMAIN LoggedOff(X) -> Objects]
<1>1. ld \in [DOMAIN ld -> Objects] /\ DOMAIN ld \subseteq LDs
  BY DEF DbOK
<1>2. \A y \in DOMAIN ld : [acct |-> ld[y].acct, key |-> ld[y].key, play |-> FALSE,
                            deleted |-> ld[y].deleted, conn |-> None] \in Objects
  BY <1>1 DEF Objects
<1> QED
  BY <1>1, <1>2 DEF LoggedOff

\* So does a deletion.
LEMMA DeleteType ==
  ASSUME DbOK, NEW x
  PROVE  /\ DOMAIN DeleteLoginData(x) \subseteq DOMAIN ld
         /\ DeleteLoginData(x) \in [DOMAIN DeleteLoginData(x) -> Objects]
<1>1. ld \in [DOMAIN ld -> Objects]
  BY DEF DbOK
<1>2. \A y \in DOMAIN ld : [ld[y] EXCEPT !.deleted = TRUE] \in Objects
  BY <1>1 DEF Objects
<1> QED
  BY <1>1, <1>2 DEF DeleteLoginData, Erase, Restrict

\* A player that is loaded.
LEMMA SetPlayType ==
  ASSUME DbOK, NetOK, NEW m, m.desc \in Descs, m.acct \in Accounts, NEW g \in Games, SetPlay(m, g)
  PROVE  /\ DOMAIN ld' \subseteq LDs /\ ld' \in [DOMAIN ld' -> Objects]
         /\ toGame' \in [Games -> Seq(Tells)]
<1>1. \A y \in DOMAIN ld : [ld[y] EXCEPT !.play = TRUE] \in Objects
  BY DEF DbOK, Objects
<1>2. DOMAIN ld' \subseteq LDs /\ ld' \in [DOMAIN ld' -> Objects]
  BY <1>1 DEF DbOK, SetPlay
<1>3. toGame' \in [Games -> Seq(Tells)]
  BY ReplyType DEF SetPlay
<1> QED
  BY <1>2, <1>3

-----------------------------------------------------------------------------
(* The type invariant.                                                        *)

\* The initial state.
LEMMA InitTyped == Init => TypeOK
<1> SUFFICES ASSUME Init PROVE TypeOK
  OBVIOUS
<1>1. DOMAIN << >> = {} /\ \A T : << >> \in [{} -> T] /\ << >> \in Seq(T)
  OBVIOUS
<1>2. NoSession \in Sessions /\ NoSession.st = "free"
  BY DEF NoSession, Sessions, AnyKey
<1>3. DbOK
  BY <1>1 DEF Init, DbOK
<1>4. NetOK
  BY <1>1 DEF Init, NetOK
<1>5. GameOK
  BY <1>1, <1>2 DEF Init, GameOK
<1> QED
  BY <1>3, <1>4, <1>5 DEF TypeOK

\* Handlers of the db that leave its objects and maps alone, or change the
\* games only, need one part of the invariant each.
LEMMA DbKept  == DbOK /\ UNCHANGED db => DbOK'
BY DEF DbOK, db

LEMMA NetKept == NetOK /\ UNCHANGED net => NetOK'
BY DEF NetOK, net

LEMMA GameKept == GameOK /\ UNCHANGED game => GameOK'
BY DEF GameOK, game

\* An authentication.
LEMMA AuthLoginTyped ==
  ASSUME TypeOK, NEW a \in Accounts, NEW k \in Keys, AuthLogin(a, k)
  PROVE  TypeOK'
<1> DEFINE old   == IF a \in DOMAIN byLogin THEN {byLogin[a]} ELSE {}
           objs  == IF old = {} THEN ld ELSE DeleteLoginData(byLogin[a])
           keys  == Erase(byKey, {ld[x].key : x \in old})
           names == Erase(byLogin, {a})
           left  == LDs \ (Range(keys) \cup Range(names) \cup Range(logon))
           new   == CHOOSE x \in left : TRUE
<1>1. /\ left # {}
      /\ \/ ld' = objs /\ byKey' = keys /\ byLogin' = names
         \/ /\ ld' = With(objs, new, LoginData(a, k))
            /\ byKey' = With(keys, k, new)
            /\ byLogin' = With(names, a, new)
      /\ UNCHANGED <<logon, net, game>>
  BY DEF AuthLogin
<1>2. /\ DOMAIN ld \subseteq LDs /\ ld \in [DOMAIN ld -> Objects]
      /\ DOMAIN byKey \subseteq AnyKey /\ byKey \in [DOMAIN byKey -> LDs]
      /\ DOMAIN byLogin \subseteq Accounts /\ byLogin \in [DOMAIN byLogin -> LDs]
      /\ DOMAIN logon \subseteq Accounts /\ logon \in [DOMAIN logon -> LDs]
  BY DEF TypeOK, DbOK
<1>3. DOMAIN objs \subseteq LDs /\ objs \in [DOMAIN objs -> Objects]
  BY <1>2, DeleteType DEF TypeOK
<1>4. DOMAIN keys \subseteq AnyKey /\ keys \in [DOMAIN keys -> LDs]
  BY <1>2 DEF Erase, Restrict
<1>5. DOMAIN names \subseteq Accounts /\ names \in [DOMAIN names -> LDs]
  BY <1>2 DEF Erase, Restrict
<1>6. new \in LDs
  BY <1>1
<1>7. LoginData(a, k) \in Objects
  BY DEF LoginData, Objects, AnyKey
<1>8. k \in AnyKey
  BY DEF AnyKey
<1> HIDE DEF old, objs, keys, names, left, new
<1>9. DbOK'
  <2>1. CASE ld' = objs /\ byKey' = keys /\ byLogin' = names
    BY <1>1, <1>2, <1>3, <1>4, <1>5, <2>1 DEF DbOK
  <2>2. CASE /\ ld' = With(objs, new, LoginData(a, k))
             /\ byKey' = With(keys, k, new) /\ byLogin' = With(names, a, new)
    <3>1. DOMAIN ld' \subseteq LDs /\ ld' \in [DOMAIN ld' -> Objects]
      BY <1>3, <1>6, <1>7, <2>2 DEF With
    <3>2. DOMAIN byKey' \subseteq AnyKey /\ byKey' \in [DOMAIN byKey' -> LDs]
      BY <1>4, <1>6, <1>8, <2>2 DEF With
    <3>3. DOMAIN byLogin' \subseteq Accounts /\ byLogin' \in [DOMAIN byLogin' -> LDs]
      BY <1>5, <1>6, <2>2 DEF With
    <3> QED
      BY <1>1, <1>2, <3>1, <3>2, <3>3 DEF DbOK
  <2> QED
    BY <1>1, <2>1, <2>2
<1> QED
  BY <1>1, <1>9, NetKept, GameKept DEF TypeOK

\* The accounts a connection that is set up names.
LEMMA SetupTyped ==
  ASSUME TypeOK, NEW g \in Games, Setup(g)
  PROVE  TypeOK'
<1> DEFINE L     == Head(toDb[g]).logins
           accts == {e.acct : e \in L}
           new   == CHOOSE f \in [L -> Unused] : IsInjective(f)
           of(x) == CHOOSE e \in L : new[e] = x
           won   == accts \ DOMAIN logon
<1>1. PICK F \in SUBSET L :
        /\ \A a \in accts : \E e \in F : /\ e.acct = a
                                        /\ \A o \in F : o.acct = a => o = e
        /\ byKey' = [k \in DOMAIN byKey \cup {e.key : e \in L} |->
                       IF k \in DOMAIN byKey THEN byKey[k] ELSE new[CHOOSE e \in L : e.key = k]]
        /\ byLogin' = [a \in DOMAIN byLogin \cup accts |->
                         IF a \in DOMAIN byLogin THEN byLogin[a]
                         ELSE new[CHOOSE e \in F : e.acct = a]]
        /\ logon' = [a \in DOMAIN logon \cup accts |->
                       IF a \in DOMAIN logon THEN logon[a] ELSE byLogin'[a]]
        /\ ld' = [x \in DOMAIN ld \cup Range(new) |->
                    LET o == IF x \notin Range(new) THEN ld[x]
                             ELSE [LoginData(of(x).acct, of(x).key) EXCEPT
                                     !.play = of(x) \in F /\ of(x).acct \in won]
                    IN IF x \in {byLogin'[a] : a \in won} THEN [o EXCEPT !.conn = g] ELSE o]
  BY Zenon DEF Setup
<1>2. /\ DOMAIN ld \subseteq LDs /\ ld \in [DOMAIN ld -> Objects]
      /\ DOMAIN byKey \subseteq AnyKey /\ byKey \in [DOMAIN byKey -> LDs]
      /\ DOMAIN byLogin \subseteq Accounts /\ byLogin \in [DOMAIN byLogin -> LDs]
      /\ DOMAIN logon \subseteq Accounts /\ logon \in [DOMAIN logon -> LDs]
  BY DEF TypeOK, DbOK
<1>3. L \in SUBSET [acct : Accounts, key : AnyKey]
  <2>1. Take(g, "setup")
    BY Zenon DEF Setup
  <2>2. Head(toDb[g]) \in Asks /\ Head(toDb[g]).op = "setup"
    BY <2>1, TakeType DEF TypeOK
  <2> QED
    BY <2>2, AsksTypes
<1>4. new \in [L -> Unused] /\ IsInjective(new)
  <2>1. \E f \in [L -> Unused] : IsInjective(f)
    BY DEF Setup
  <2> QED
    BY <2>1
<1>5. \A x \in Range(new) : of(x) \in L /\ x \in LDs
  BY <1>4 DEF Range, Unused
<1> HIDE DEF new, of, L
<1>6. \A e \in L : e.acct \in Accounts /\ e.key \in AnyKey /\ new[e] \in LDs
  BY <1>3, <1>4 DEF Unused
<1>7. DOMAIN byKey' \subseteq AnyKey /\ byKey' \in [DOMAIN byKey' -> LDs]
  <2>1. \A k \in {e.key : e \in L} : (CHOOSE e \in L : e.key = k) \in L /\ k \in AnyKey
    BY <1>6
  <2> QED
    BY <1>1, <1>2, <1>6, <2>1
<1>8. DOMAIN byLogin' \subseteq Accounts /\ byLogin' \in [DOMAIN byLogin' -> LDs]
  <2>1. \A a \in accts : (CHOOSE e \in F : e.acct = a) \in F /\ a \in Accounts
    BY <1>1, <1>6
  <2> QED
    BY <1>1, <1>2, <1>6, <2>1
<1>9. DOMAIN logon' \subseteq Accounts /\ logon' \in [DOMAIN logon' -> LDs]
  BY <1>1, <1>2, <1>6, <1>8
<1>10. DOMAIN ld' \subseteq LDs /\ ld' \in [DOMAIN ld' -> Objects]
  <2> DEFINE base(x) == IF x \notin Range(new) THEN ld[x]
                        ELSE [LoginData(of(x).acct, of(x).key) EXCEPT
                                !.play = of(x) \in F /\ of(x).acct \in won]
             at == {byLogin'[a] : a \in won}
  <2>1. ASSUME NEW x \in DOMAIN ld \cup Range(new) PROVE base(x) \in Objects
    <3>1. CASE x \notin Range(new)
      BY <1>2, <2>1, <3>1
    <3>2. CASE x \in Range(new)
      <4>1. of(x).acct \in Accounts /\ of(x).key \in AnyKey
        BY <1>5, <1>6, <3>2
      <4>2. LoginData(of(x).acct, of(x).key) \in Objects
        BY <4>1 DEF LoginData, Objects
      <4> DEFINE d == LoginData(of(x).acct, of(x).key)
                 b == of(x) \in F /\ of(x).acct \in won
      <4>3. b \in BOOLEAN
        OBVIOUS
      <4> HIDE DEF d, b
      <4>4. [d EXCEPT !.play = b] \in Objects
        BY <4>2, <4>3 DEF Objects, d
      <4> QED
        BY <3>2, <4>4 DEF d, b
    <3> QED
      BY <3>1, <3>2
  <2>2. \A o \in Objects : [o EXCEPT !.conn = g] \in Objects
    BY DEF Objects
  <2>3. ld' = [x \in DOMAIN ld \cup Range(new) |->
                 IF x \in at THEN [base(x) EXCEPT !.conn = g] ELSE base(x)]
    BY <1>1
  <2> HIDE DEF base, at
  <2> QED
    BY <1>2, <1>5, <2>1, <2>2, <2>3
<1>11. NetOK'
  BY TakeType DEF TypeOK, NetOK, Setup
<1>12. GameOK'
  BY GameKept DEF TypeOK, Setup
<1> QED
  BY <1>7, <1>8, <1>9, <1>10, <1>11, <1>12 DEF TypeOK, DbOK

\* A connection that is lost.
LEMMA LostTyped ==
  ASSUME TypeOK, NEW g \in Games, Lost(g)
  PROVE  DbOK' /\ NetOK'
<1>1. DbOK'
  <2> DEFINE theirs == {a \in DOMAIN logon : ld[logon[a]].conn = g}
             X == {logon[a] : a \in theirs}
  <2>1. ld' = LoggedOff(X) /\ logon' = Erase(logon, theirs) /\ UNCHANGED <<byKey, byLogin>>
    BY DEF Lost
  <2>2. DOMAIN LoggedOff(X) \subseteq LDs /\ LoggedOff(X) \in [DOMAIN LoggedOff(X) -> Objects]
    BY LoggedOffType DEF TypeOK
  <2> HIDE DEF X, theirs
  <2>3. DOMAIN logon' \subseteq Accounts /\ logon' \in [DOMAIN logon' -> LDs]
    BY <2>1 DEF TypeOK, DbOK, Erase, Restrict
  <2> QED
    BY <2>1, <2>2, <2>3 DEF TypeOK, DbOK
<1>2. NetOK'
  <2>1. \A q \in Queries : [q EXCEPT !.game = None] \in Queries
    BY DEF Queries
  <2>2. sql' \in Seq(Queries)
    BY <2>1 DEF TypeOK, NetOK, Lost
  <2>3. << >> \in Seq(Asks) /\ << >> \in Seq(Tells)
    OBVIOUS
  <2>4. /\ toDb' = [toDb EXCEPT ![g] = << >>] /\ toGame' = [toGame EXCEPT ![g] = << >>]
        /\ up' = up \ {g}
    BY DEF Lost
  <2> QED
    BY <2>2, <2>3, <2>4 DEF TypeOK, NetOK
<1> QED
  BY <1>1, <1>2

\* What the db does with a message.
LEMMA DbStepTyped ==
  ASSUME TypeOK, NEW g \in Games, DbStep(g)
  PROVE  TypeOK'
<1> DEFINE m == Head(toDb[g])
<1>0. DbOK /\ NetOK /\ GameOK
  BY DEF TypeOK
<1>1. ASSUME LoginByKey(g) PROVE TypeOK'
  <2>1. Take(g, "login") /\ UNCHANGED <<db, up, game>>
    BY <1>1 DEF LoginByKey
  <2>2. toDb' \in [Games -> Seq(Asks)] /\ m.desc \in Descs /\ m.acct \in Accounts
    BY <1>0, <2>1, TakeType, AsksTypes
  <2>3. sql' \in Seq(Queries) /\ toGame' \in [Games -> Seq(Tells)]
    <3>1. Query("index", m, g) \in Queries
      BY <2>2 DEF Query, Queries
    <3>2. CASE Reply(g, "notexist", m) /\ UNCHANGED sql
      BY <1>0, <2>2, <3>2, ReplyType DEF NetOK
    <3>3. CASE Reply(g, "already", m) /\ UNCHANGED sql
      BY <1>0, <2>2, <3>3, ReplyType DEF NetOK
    <3>4. CASE sql' = Append(sql, Query("index", m, g)) /\ UNCHANGED toGame
      BY <1>0, <3>1, <3>4 DEF NetOK
    <3> QED
      BY <1>1, <3>2, <3>3, <3>4 DEF LoginByKey
  <2> QED
    BY <1>0, <2>1, <2>2, <2>3, DbKept, GameKept DEF TypeOK, NetOK
<1>2. ASSUME PlayerLoad(g) PROVE TypeOK'
  <2>1. Take(g, "load") /\ UNCHANGED <<byKey, byLogin, logon, up, game>>
    BY <1>2 DEF PlayerLoad
  <2>2. toDb' \in [Games -> Seq(Asks)] /\ m.desc \in Descs /\ m.acct \in Accounts
    BY <1>0, <2>1, TakeType, AsksTypes
  <2>3. /\ sql' \in Seq(Queries) /\ toGame' \in [Games -> Seq(Tells)]
        /\ DOMAIN ld' \subseteq LDs /\ ld' \in [DOMAIN ld' -> Objects]
    <3>1. Query("player", m, g) \in Queries
      BY <2>2 DEF Query, Queries
    <3>2. CASE SetPlay(m, g) /\ UNCHANGED sql
      BY <1>0, <2>2, <3>2, SetPlayType DEF NetOK
    <3>3. CASE sql' = Append(sql, Query("player", m, g)) /\ UNCHANGED <<ld, toGame>>
      BY <1>0, <3>1, <3>3 DEF NetOK, DbOK
    <3> QED
      BY <1>2, <3>2, <3>3 DEF PlayerLoad
  <2> QED
    BY <1>0, <2>1, <2>2, <2>3, GameKept DEF TypeOK, NetOK, DbOK
<1>3. ASSUME Logout(g) PROVE TypeOK'
  <2>1. Take(g, "logout") /\ UNCHANGED <<byKey, byLogin, sql, up, toGame, game>>
    BY <1>3 DEF Logout
  <2>2. DbOK'
    <3>1. CASE UNCHANGED <<ld, logon>>
      BY <1>0, <2>1, <3>1 DEF DbOK
    <3>2. CASE ld' = LoggedOff({logon[m.acct]}) /\ logon' = Erase(logon, {m.acct})
      <4>1. DOMAIN ld' \subseteq LDs /\ ld' \in [DOMAIN ld' -> Objects]
        BY <1>0, <3>2, LoggedOffType
      <4>2. DOMAIN logon' \subseteq Accounts /\ logon' \in [DOMAIN logon' -> LDs]
        BY <1>0, <3>2 DEF DbOK, Erase, Restrict
      <4> QED
        BY <1>0, <2>1, <4>1, <4>2 DEF DbOK
    <3> QED
      BY <1>3, <3>1, <3>2 DEF Logout
  <2> QED
    BY <1>0, <2>1, <2>2, TakeType, GameKept DEF TypeOK, NetOK
<1>4. ASSUME DeleteLoginKey(g) PROVE TypeOK'
  <2>1. Take(g, "dc") /\ UNCHANGED <<ld, byLogin, logon, sql, up, toGame, game>>
    BY <1>4 DEF DeleteLoginKey
  <2>2. DOMAIN byKey' \subseteq AnyKey /\ byKey' \in [DOMAIN byKey' -> LDs]
    BY <1>0, <1>4 DEF DeleteLoginKey, DbOK, Erase, Restrict
  <2> QED
    BY <1>0, <2>1, <2>2, TakeType, GameKept DEF TypeOK, NetOK, DbOK
<1> QED
  BY <1>1, <1>2, <1>3, <1>4, SetupTyped DEF DbStep

\* What the db does with an answer of its SQL thread.
LEMMA ResultTyped ==
  ASSUME TypeOK, Result
  PROVE  TypeOK'
<1> DEFINE r == Head(sql)
<1>0. DbOK /\ NetOK /\ GameOK
  BY DEF TypeOK
<1>1. sql # << >> /\ UNCHANGED <<byKey, byLogin, up, toDb, game>>
  BY DEF Result
<1>2. r \in Queries /\ Tail(sql) \in Seq(Queries)
  BY <1>0, <1>1 DEF NetOK
<1>3. r.desc \in Descs /\ r.acct \in Accounts
  BY <1>2 DEF Queries
<1>4. /\ sql' \in Seq(Queries) /\ toGame' \in [Games -> Seq(Tells)]
      /\ DOMAIN ld' \subseteq LDs /\ ld' \in [DOMAIN ld' -> Objects]
      /\ DOMAIN logon' \subseteq Accounts /\ logon' \in [DOMAIN logon' -> LDs]
  <2>1. CASE r.game = None /\ sql' = Tail(sql) /\ UNCHANGED <<ld, logon, toGame>>
    BY <1>0, <1>2, <2>1 DEF NetOK, DbOK
  <2>2. CASE /\ sql' = Append(Tail(sql), [r EXCEPT !.op = "players"])
             /\ UNCHANGED <<ld, logon, toGame>>
    <3>1. [r EXCEPT !.op = "players"] \in Queries
      BY <1>2 DEF Queries
    <3> HIDE DEF r
    <3>2. sql' \in Seq(Queries)
      BY <1>2, <2>2, <3>1
    <3> QED
      BY <1>0, <2>2, <3>2 DEF NetOK, DbOK
  <2>3. CASE /\ r.game # None /\ MayLogon(r.acct) /\ sql' = Tail(sql)
             /\ ld' = [ld EXCEPT ![byLogin[r.acct]] = [@ EXCEPT !.conn = r.game]]
             /\ logon' = With(logon, r.acct, byLogin[r.acct])
             /\ Reply(r.game, "success", r)
    <3>1. r.game \in Games
      BY <1>2, <2>3 DEF Queries
    <3>2. toGame' \in [Games -> Seq(Tells)]
      BY <1>0, <1>3, <2>3, <3>1, ReplyType
    <3>3. \A y \in DOMAIN ld : [ld[y] EXCEPT !.conn = r.game] \in Objects
      BY <1>0, <3>1 DEF DbOK, Objects
    <3> DEFINE n == r.game
    <3>4. \A y \in DOMAIN ld : [ld[y] EXCEPT !.conn = n] \in Objects
      BY <3>3
    <3> HIDE DEF n
    <3>5. DOMAIN ld' \subseteq LDs /\ ld' \in [DOMAIN ld' -> Objects]
      BY <1>0, <2>3, <3>4 DEF DbOK, n
    <3>6. byLogin[r.acct] \in LDs
      BY <1>0, <2>3 DEF DbOK, MayLogon
    <3>7. DOMAIN logon' \subseteq Accounts /\ logon' \in [DOMAIN logon' -> LDs]
      BY <1>0, <1>3, <2>3, <3>6 DEF DbOK, With
    <3> QED
      BY <1>2, <2>3, <3>2, <3>5, <3>7
  <2>4. CASE /\ r.game # None /\ sql' = Tail(sql)
             /\ Reply(r.game, "already", r) /\ UNCHANGED <<ld, logon>>
    <3>1. r.game \in Games
      BY <1>2, <2>4 DEF Queries
    <3> QED
      BY <1>0, <1>2, <1>3, <2>4, <3>1, ReplyType DEF DbOK
  <2>5. CASE r.game # None /\ sql' = Tail(sql) /\ SetPlay(r, r.game) /\ UNCHANGED logon
    <3>1. r.game \in Games
      BY <1>2, <2>5 DEF Queries
    <3> QED
      BY <1>0, <1>2, <1>3, <2>5, <3>1, SetPlayType DEF DbOK
  <2> QED
    BY <2>1, <2>2, <2>3, <2>4, <2>5 DEF Result
<1> QED
  BY <1>0, <1>1, <1>4, GameKept DEF TypeOK, NetOK, DbOK

\* What the clients of a game do.
LEMMA ClientTyped ==
  ASSUME TypeOK, NEW d \in Descs
  PROVE  /\ \A g \in Games, a \in Accounts, k \in Keys : SendLogin(d, g, a, k) => TypeOK'
         /\ Select(d) \/ Close(d) \/ KickOver(d) \/ Destroy(d) => TypeOK'
<1>0. DbOK /\ NetOK /\ GameOK /\ desc \in [Descs -> Sessions]
  BY DEF TypeOK, GameOK
<1>1. ASSUME NEW g \in Games, NEW a \in Accounts, NEW k \in Keys, SendLogin(d, g, a, k)
      PROVE  TypeOK'
  <2> DEFINE n == [st |-> "asked", game |-> g, acct |-> None, key |-> k, kicked |-> FALSE]
             o == [desc[d] EXCEPT !.key = k]
             m == [op |-> "login", desc |-> d, acct |-> a, key |-> k]
  <2>1. n \in Sessions /\ m \in Asks /\ n.st = "asked"
    BY DEF Sessions, Asks, AnyKey
  <2>2. /\ desc' = [desc EXCEPT ![d] = n] \/ desc' = [desc EXCEPT ![d] = o]
        /\ Send(g, m)
        /\ UNCHANGED <<db, sql, up, toGame, named, kicks>>
    BY <1>1 DEF SendLogin
  <2>3. o \in Sessions /\ o.st = desc[d].st /\ o.acct = desc[d].acct
    BY <1>0 DEF Sessions, AnyKey
  <2> HIDE DEF n, o, m
  <2>5. GameOK'
    BY <1>0, <2>1, <2>2, <2>3 DEF GameOK
  <2>4. NetOK'
    BY <1>0, <2>1, <2>2, SendType DEF NetOK
  <2> QED
    BY <1>0, <2>2, <2>4, <2>5, DbKept DEF TypeOK
<1>2. ASSUME Select(d) PROVE TypeOK'
  <2> DEFINE m == [op |-> "load", desc |-> d, acct |-> desc[d].acct, key |-> None]
  <2>1. desc[d].acct \in Accounts
    BY <1>0, <1>2 DEF Select, GameOK, Sessions
  <2>2. m \in Asks /\ [desc[d] EXCEPT !.st = "load"] \in Sessions
    BY <1>0, <2>1 DEF Asks, AnyKey, Sessions
  <2>3. /\ desc' = [desc EXCEPT ![d] = [desc[d] EXCEPT !.st = "load"]]
        /\ Send(desc[d].game, m) /\ UNCHANGED <<db, sql, up, toGame, named, kicks>>
    BY <1>2 DEF Select
  <2>4. [desc[d] EXCEPT !.st = "load"].st = "load"
    BY <1>0 DEF Sessions
  <2>5. GameOK'
    <3> DEFINE n == [desc[d] EXCEPT !.st = "load"]
    <3>1. n \in Sessions /\ n.st = "load" /\ desc' = [desc EXCEPT ![d] = n]
      BY <2>2, <2>3, <2>4
    <3> HIDE DEF n
    <3> QED
      BY <1>0, <2>3, <3>1 DEF GameOK
  <2> HIDE DEF m
  <2>6. NetOK'
    BY <1>0, <2>2, <2>3, SendType DEF NetOK
  <2> QED
    BY <1>0, <2>3, <2>5, <2>6, DbKept DEF TypeOK
<1>3. ASSUME Close(d) \/ KickOver(d) PROVE TypeOK'
  <2>1. PICK n \in Sessions : n.st = "closing" /\ desc' = [desc EXCEPT ![d] = n]
    <3> DEFINE n1 == [desc[d] EXCEPT !.st = "closing"]
               n2 == [st |-> "closing", game |-> desc[d].game, acct |-> desc[d].acct,
                      key |-> desc[d].key, kicked |-> FALSE]
    <3>1. n1 \in Sessions /\ n1.st = "closing" /\ n2 \in Sessions /\ n2.st = "closing"
      BY <1>0 DEF Sessions
    <3>2. desc' = [desc EXCEPT ![d] = n1] \/ desc' = [desc EXCEPT ![d] = n2]
      BY <1>3 DEF Close, KickOver
    <3> HIDE DEF n1, n2
    <3> QED
      BY <3>1, <3>2
  <2>2. GameOK'
    BY <1>0, <1>3, <2>1 DEF GameOK, Close, KickOver
  <2> QED
    BY <1>0, <1>3, <2>2, DbKept, NetKept DEF TypeOK, Close, KickOver
<1>4. ASSUME Destroy(d) PROVE TypeOK'
  <2>1. NoSession \in Sessions /\ NoSession.st = "free"
    BY DEF NoSession, Sessions, AnyKey
  <2>2. desc' = [desc EXCEPT ![d] = NoSession] /\ UNCHANGED <<db, sql, up, toGame, kicks>>
    BY <1>4 DEF Destroy
  <2>3. desc[d].acct \in Accounts \cup {None}
    BY <1>0 DEF Sessions
  <2>4. CASE UNCHANGED <<named, toDb>>
    <3>1. GameOK'
      BY <1>0, <2>1, <2>2, <2>4 DEF GameOK
    <3> QED
      BY <1>0, <2>2, <2>4, <3>1, DbKept DEF TypeOK, NetOK
  <2>5. CASE /\ desc[d].acct # None /\ named' = Unnamed(desc[d].game, desc[d].acct)
             /\ Send(desc[d].game, Off(desc[d].acct))
    <3>1. Off(desc[d].acct) \in Asks
      BY <2>3, <2>5 DEF Off, Asks
    <3>2. NetOK'
      BY <1>0, <2>2, <2>5, <3>1, SendType DEF NetOK
    <3>3. /\ DOMAIN named' = Games
          /\ \A g \in Games : DOMAIN named'[g] \subseteq Accounts /\ named'[g] \in [DOMAIN named'[g] -> Descs]
      BY <1>0, <2>5 DEF Unnamed, Erase, Restrict, GameOK
    <3>4. GameOK'
      BY <1>0, <2>1, <2>2, <3>3 DEF GameOK
    <3> QED
      BY <1>0, <2>2, <3>2, <3>4, DbKept DEF TypeOK
  <2> QED
    BY <1>4, <2>4, <2>5 DEF Destroy
<1> QED
  BY <1>1, <1>2, <1>3, <1>4

\* A DESC that is kicked or refused stays one, and keeps its account.
LEMMA KickedTypes ==
  ASSUME NEW s \in Sessions
  PROVE  /\ Kicked(s) \in Sessions /\ Kicked(s).st # "select"
         /\ Failed(s) \in Sessions /\ Failed(s).acct = s.acct
         /\ Failed(s).st = "select" => s.st = "select"
<1>1. CASE s.st = "select"
  BY <1>1 DEF Kicked, Failed, Sessions
<1>2. CASE s.st # "select"
  BY <1>2 DEF Kicked, Failed, Sessions
<1> QED
  BY <1>1, <1>2

\* What a game does with an answer of the db.
LEMMA GameReadsTyped ==
  ASSUME TypeOK, NEW g \in Games, GameReads(g)
  PROVE  TypeOK'
<1> DEFINE m == Head(toGame[g])
<1>0. DbOK /\ NetOK /\ GameOK /\ desc \in [Descs -> Sessions]
  BY DEF TypeOK, GameOK
<1>1. toGame' \in [Games -> Seq(Tells)] /\ m.desc \in Descs /\ m.acct \in Accounts
  <2>1. \E op : Answer(g, op)
    BY DEF GameReads, LoginSuccess, LoginAlready, LoginFailure, CharacterLoaded, LoadFailed
  <2>2. toGame' \in [Games -> Seq(Tells)] /\ m \in Tells
    BY <1>0, <2>1, AnswerType
  <2> QED
    BY <2>2 DEF Tells
<1>2. UNCHANGED <<db, sql, up>>
  BY DEF GameReads, LoginSuccess, LoginAlready, LoginFailure, CharacterLoaded, LoadFailed, game
<1>3. ASSUME toDb' \in [Games -> Seq(Asks)] PROVE NetOK'
  BY <1>0, <1>1, <1>2, <1>3 DEF NetOK
<1>4. DbOK'
  BY <1>0, <1>2, DbKept
<1> HIDE DEF m
<1>5. ASSUME LoginSuccess(g) PROVE TypeOK'
  <2>1. CASE Orphan(g, m.acct) /\ UNCHANGED <<desc, named, kicks>>
    <3>1. Off(m.acct) \in Asks
      BY <1>1 DEF Off, Asks
    <3>2. NetOK'
      BY <1>0, <1>3, <2>1, <3>1, SendType DEF Orphan
    <3> QED
      BY <1>0, <1>4, <2>1, <3>2, GameKept DEF TypeOK, game
  <2>2. CASE /\ desc' = [desc EXCEPT ![m.desc] =
                           [st |-> "select", game |-> @.game, acct |-> m.acct,
                            key |-> @.key, kicked |-> @.kicked]]
             /\ named' = [named EXCEPT ![g] = Insert(@, m.acct, m.desc)]
             /\ UNCHANGED <<toDb, kicks>>
    <3> DEFINE s == desc[m.desc]
               n == [st |-> "select", game |-> s.game, acct |-> m.acct,
                     key |-> s.key, kicked |-> s.kicked]
    <3>1. n \in Sessions /\ n.acct # None
      BY <1>0, <1>1, SetsAssumption DEF Sessions
    <3>2. desc' = [desc EXCEPT ![m.desc] = n]
      BY <2>2
    <3> HIDE DEF n, s
    <3>3. /\ DOMAIN named' = Games
          /\ \A h \in Games : DOMAIN named'[h] \subseteq Accounts /\ named'[h] \in [DOMAIN named'[h] -> Descs]
      BY <1>0, <1>1, <2>2 DEF Insert, With, GameOK
    <3>4. /\ desc' \in [Descs -> Sessions]
          /\ \A d \in Descs : desc'[d].st = "select" => desc'[d].acct # None
      BY <1>0, <3>1, <3>2 DEF GameOK
    <3>6. kicks' \in [Games -> SUBSET Accounts]
      BY <1>0, <2>2 DEF GameOK
    <3>5. NetOK'
      BY <1>0, <1>3, <2>2 DEF NetOK
    <3> QED
      BY <1>4, <3>3, <3>4, <3>5, <3>6 DEF TypeOK, GameOK
  <2> QED
    BY <1>5, <2>1, <2>2 DEF LoginSuccess, m
<1>6. ASSUME LoginAlready(g) PROVE TypeOK'
  <2>1. NetOK'
    BY <1>0, <1>3, <1>6 DEF LoginAlready, NetOK
  <2>2. GameOK'
    <3>1. CASE UNCHANGED <<desc, named, kicks>>
      BY <1>0, <3>1, GameKept DEF game
    <3>2. CASE ~UNCHANGED <<desc, named, kicks>>
      <4>1. /\ desc' \in [Descs -> Sessions]
            /\ \A d \in Descs : desc'[d].st = "select" => desc'[d].acct # None
        <5> DEFINE there == m.acct \in DOMAIN named[g]
                   n(d) == IF there /\ d = named[g][m.acct] THEN Kicked(desc[d])
                           ELSE IF d = m.desc THEN Failed(desc[d]) ELSE desc[d]
        <5>1. desc' = [d \in Descs |-> n(d)]
          BY <1>6, <3>2 DEF LoginAlready, m
        <5>2. ASSUME NEW d \in Descs
              PROVE  n(d) \in Sessions /\ (n(d).st = "select" => n(d).acct # None)
          <6>1. desc[d] \in Sessions /\ (desc[d].st = "select" => desc[d].acct # None)
            BY <1>0 DEF GameOK
          <6>2. CASE there /\ d = named[g][m.acct]
            BY <6>1, <6>2, KickedTypes
          <6>3. CASE ~(there /\ d = named[g][m.acct]) /\ d = m.desc
            <7>1. n(d) = Failed(desc[d])
              BY <6>3
            <7> HIDE DEF n, there
            <7> QED
              BY <6>1, <7>1, KickedTypes
          <6>4. CASE ~(there /\ d = named[g][m.acct]) /\ d # m.desc
            BY <6>1, <6>4
          <6> QED
            BY <6>2, <6>3, <6>4
        <5> HIDE DEF n
        <5> QED
          BY <5>1, <5>2
      <4>2. kicks' \in [Games -> SUBSET Accounts] /\ UNCHANGED named
        <5>1. \/ kicks' = kicks
              \/ kicks' = [h \in Games |-> IF h \in OtherGames(g) THEN kicks[h] \cup {m.acct} ELSE kicks[h]]
          BY <1>6 DEF LoginAlready, m
        <5>2. UNCHANGED named
          BY <1>6 DEF LoginAlready
        <5> QED
          <6>1. kicks \in [Games -> SUBSET Accounts]
            BY <1>0 DEF GameOK
          <6>2. \A h \in Games : kicks[h] \cup {m.acct} \in SUBSET Accounts
            BY <1>1, <6>1
          <6>3. kicks' \in [Games -> SUBSET Accounts]
            BY <5>1, <6>1, <6>2
          <6> QED
            BY <5>2, <6>3
      <4> QED
        BY <1>0, <4>1, <4>2 DEF GameOK
    <3> QED
      BY <3>1, <3>2
  <2> QED
    BY <1>4, <2>1, <2>2 DEF TypeOK
<1>7. ASSUME LoginFailure(g) PROVE TypeOK'
  <2>1. desc' = [desc EXCEPT ![m.desc] = Failed(desc[m.desc])] /\ UNCHANGED <<toDb, named, kicks>>
    BY <1>7 DEF LoginFailure, m
  <2>2. desc[m.desc] \in Sessions
    BY <1>0, <1>1
  <2>3. GameOK'
    BY <1>0, <2>1, <2>2, KickedTypes DEF GameOK
  <2> QED
    BY <1>0, <1>3, <1>4, <2>1, <2>3 DEF TypeOK, NetOK
<1>8. ASSUME CharacterLoaded(g) PROVE TypeOK'
  <2>1. UNCHANGED <<toDb, named, kicks>>
    BY <1>8 DEF CharacterLoaded
  <2>2. GameOK'
    <3>1. CASE UNCHANGED desc
      BY <1>0, <2>1, <3>1, GameKept DEF game
    <3>2. ASSUME NEW s \in {"play", "closing"}, desc' = [desc EXCEPT ![m.desc] = [@ EXCEPT !.st = s]]
          PROVE  GameOK'
      <4> DEFINE n == [desc[m.desc] EXCEPT !.st = s]
      <4>1. n \in Sessions /\ n.st # "select"
        <5>1. desc[m.desc] \in Sessions
          BY <1>0, <1>1
        <5>2. CASE s = "play"
          BY <5>1, <5>2 DEF Sessions
        <5>3. CASE s = "closing"
          BY <5>1, <5>3 DEF Sessions
        <5> QED
          BY <5>2, <5>3
      <4>2. desc' = [desc EXCEPT ![m.desc] = n]
        BY <3>2
      <4> HIDE DEF n
      <4> QED
        BY <1>0, <2>1, <4>1, <4>2 DEF GameOK
    <3> QED
      BY <1>8, <3>1, <3>2 DEF CharacterLoaded, m
  <2> QED
    BY <1>0, <1>3, <1>4, <2>1, <2>2 DEF TypeOK, NetOK
<1>9. ASSUME LoadFailed(g) PROVE TypeOK'
  <2>1. UNCHANGED toDb /\ UNCHANGED game
    BY <1>9 DEF LoadFailed
  <2> QED
    BY <1>0, <1>3, <1>4, <2>1, GameKept DEF TypeOK, NetOK
<1> QED
  BY <1>5, <1>6, <1>7, <1>8, <1>9 DEF GameReads

\* Messages of other games, and faults.
LEMMA OthersTyped ==
  ASSUME TypeOK, NEW g \in Games
  PROVE  /\ \A a \in Accounts : Disconnect(g, a) \/ SendDC(g, a) => TypeOK'
         /\ Connect(g) \/ Drop(g) \/ Crash(g) \/ Restart => TypeOK'
<1>0. DbOK /\ NetOK /\ GameOK /\ desc \in [Descs -> Sessions]
  BY DEF TypeOK, GameOK
<1>1. ASSUME NEW a \in Accounts, Disconnect(g, a) PROVE TypeOK'
  <2>1. kicks' \in [Games -> SUBSET Accounts] /\ UNCHANGED named
    BY <1>0, <1>1 DEF Disconnect, GameOK
  <2>2. CASE UNCHANGED desc
    BY <1>0, <1>1, <2>1, <2>2, DbKept, NetKept DEF TypeOK, GameOK, Disconnect
  <2>3. CASE /\ a \in DOMAIN named[g]
             /\ desc' = [desc EXCEPT ![named[g][a]] = Kicked(desc[named[g][a]])]
    <3>1. named[g][a] \in Descs /\ desc[named[g][a]] \in Sessions
      BY <1>0, <2>3 DEF GameOK
    <3>2. GameOK'
      BY <1>0, <2>1, <2>3, <3>1, KickedTypes DEF GameOK
    <3> QED
      BY <1>0, <1>1, <3>2, DbKept, NetKept DEF TypeOK, Disconnect
  <2> QED
    BY <1>1, <2>2, <2>3 DEF Disconnect
<1>2. ASSUME NEW a \in Accounts, SendDC(g, a) PROVE TypeOK'
  <2> DEFINE m == [op |-> "dc", desc |-> None, acct |-> a, key |-> None]
  <2>1. m \in Asks
    BY DEF Asks
  <2>2. Send(g, m) /\ UNCHANGED <<db, sql, up, toGame, desc, named>>
    BY <1>2 DEF SendDC
  <2> HIDE DEF m
  <2>3. NetOK'
    BY <1>0, <2>1, <2>2, SendType DEF NetOK
  <2>4. GameOK'
    BY <1>0, <1>2, <2>2 DEF GameOK, SendDC
  <2> QED
    BY <1>0, <2>2, <2>3, <2>4, DbKept DEF TypeOK
<1>3. ASSUME Connect(g) PROVE TypeOK'
  <2> DEFINE L == {[acct |-> desc[d].acct, key |-> desc[d].key] :
                     d \in {x \in Descs : desc[x].game = g /\ desc[x].acct # None}}
             m == [op |-> "setup", logins |-> L]
  <2>1. L \in SUBSET [acct : Accounts, key : AnyKey]
    BY <1>0 DEF Sessions
  <2>2. toDb' = [toDb EXCEPT ![g] = <<m>>] /\ up' = up \cup {g}
        /\ UNCHANGED <<db, sql, toGame, game>>
    BY <1>3 DEF Connect
  <2> HIDE DEF L
  <2>3. m \in Asks
    BY <2>1 DEF Asks
  <2> HIDE DEF m
  <2>4. <<m>> \in Seq(Asks)
    BY <2>3
  <2>5. NetOK'
    BY <1>0, <2>2, <2>4 DEF NetOK
  <2> QED
    BY <1>0, <2>2, <2>5, DbKept, GameKept DEF TypeOK
<1>4. ASSUME Drop(g) PROVE TypeOK'
  BY <1>0, <1>4, LostTyped, GameKept DEF TypeOK, Drop
<1>5. ASSUME Crash(g) PROVE TypeOK'
  <2>1. NoSession \in Sessions /\ NoSession.st = "free"
    BY DEF NoSession, Sessions, AnyKey
  <2>2. desc' \in [Descs -> Sessions] /\ \A d \in Descs : desc'[d].st = "select" => desc'[d].acct # None
    BY <1>0, <1>5, <2>1 DEF Crash, GameOK
  <2>3. DOMAIN << >> = {} /\ << >> \in [{} -> Descs]
    OBVIOUS
  <2>4. kicks' \in [Games -> SUBSET Accounts]
    BY <1>0, <1>5 DEF Crash, GameOK
  <2>5. /\ DOMAIN named' = Games
        /\ \A h \in Games : DOMAIN named'[h] \subseteq Accounts /\ named'[h] \in [DOMAIN named'[h] -> Descs]
    BY <1>0, <1>5, <2>3 DEF Crash, GameOK
  <2> QED
    BY <1>5, <2>2, <2>4, <2>5, LostTyped DEF TypeOK, Crash, GameOK
<1>6. ASSUME Restart PROVE TypeOK'
  <2>1. DOMAIN << >> = {} /\ \A T : << >> \in [{} -> T] /\ << >> \in Seq(T)
    OBVIOUS
  <2>2. DbOK'
    BY <1>6, <2>1 DEF Restart, DbOK
  <2>3. NetOK'
    BY <1>6, <2>1 DEF Restart, NetOK
  <2> QED
    BY <1>0, <1>6, <2>2, <2>3, GameKept DEF TypeOK, Restart
<1> QED
  BY <1>1, <1>2, <1>3, <1>4, <1>5, <1>6

\* A step preserves the types.
LEMMA StepTyped == TypeOK /\ [Next]_vars => TypeOK'
<1> SUFFICES ASSUME TypeOK, [Next]_vars PROVE TypeOK'
  OBVIOUS
<1>1. CASE UNCHANGED vars
  BY <1>1 DEF TypeOK, DbOK, NetOK, GameOK, vars
<1>2. CASE Next
  <2>1. ASSUME NEW a \in Accounts, NEW k \in Keys,
               AuthLogin(a, k) \/ \E d \in Descs, g \in Games : SendLogin(d, g, a, k)
        PROVE  TypeOK'
    BY <2>1, AuthLoginTyped, ClientTyped
  <2>2. ASSUME NEW d \in Descs, Select(d) \/ Close(d) \/ KickOver(d) \/ Destroy(d)
        PROVE  TypeOK'
    BY <2>2, ClientTyped
  <2>3. ASSUME NEW g \in Games, DbStep(g) PROVE TypeOK'
    BY <2>3, DbStepTyped
  <2>4. ASSUME NEW g \in Games, GameReads(g) PROVE TypeOK'
    BY <2>4, GameReadsTyped
  <2>5. ASSUME NEW g \in Games, Connect(g) \/ Drop(g) \/ Crash(g) PROVE TypeOK'
    BY <2>5, OthersTyped
  <2>6. ASSUME NEW g \in Games, NEW a \in Accounts, Disconnect(g, a) \/ SendDC(g, a) PROVE TypeOK'
    BY <2>6, OthersTyped
  <2>7. ASSUME Restart PROVE TypeOK'
    <3>1. PICK g : g \in up
      BY <2>7 DEF Restart
    <3>2. g \in Games
      BY <3>1 DEF TypeOK, NetOK
    <3> QED
      BY <2>7, <3>2, OthersTyped
  <2> QED
    BY <1>2, <2>1, <2>2, <2>3, <2>4, <2>5, <2>6, <2>7, ResultTyped DEF Next
<1> QED
  BY <1>1, <1>2

\* TypeOK holds for any accounts, games, clients, keys and addresses, and
\* whichever of the optional behaviours happen.
THEOREM TypeCorrect == Spec => []TypeOK
BY InitTyped, StepTyped, PTL DEF Spec

-----------------------------------------------------------------------------
(* Pointers.  Every object the maps lead to carries the key and the account   *)
(* it is found under, so no map leads to it under another; that is why a      *)
(* deletion that erases one entry of each map leaves none behind.             *)

\* PointersAlive, entry by entry.
LEMMA Entries ==
  PointersAlive <=>
    /\ \A k \in DOMAIN byKey :
         byKey[k] \in DOMAIN ld /\ ld[byKey[k]].key = k /\ ~ld[byKey[k]].deleted
    /\ \A a \in DOMAIN byLogin :
         byLogin[a] \in DOMAIN ld /\ ld[byLogin[a]].acct = a /\ ~ld[byLogin[a]].deleted
    /\ \A a \in DOMAIN logon : logon[a] \in DOMAIN ld /\ ld[logon[a]].acct = a
BY DEF PointersAlive, Pointed, Range

\* A change of the flags of objects, or of the connection in them, is harmless.
LEMMA SameObjects ==
  ASSUME PointersAlive, UNCHANGED <<byKey, byLogin, logon>>,
         \A x \in DOMAIN ld : /\ x \in DOMAIN ld' /\ ld'[x].acct = ld[x].acct
                              /\ ld'[x].key = ld[x].key /\ ld'[x].deleted = ld[x].deleted
  PROVE  PointersAlive'
<1> DEFINE P(l, b, n, o) ==
      /\ \A k \in DOMAIN b : b[k] \in DOMAIN l /\ l[b[k]].key = k /\ ~l[b[k]].deleted
      /\ \A a \in DOMAIN n : n[a] \in DOMAIN l /\ l[n[a]].acct = a /\ ~l[n[a]].deleted
      /\ \A a \in DOMAIN o : o[a] \in DOMAIN l /\ l[o[a]].acct = a
<1>1. P(ld, byKey, byLogin, logon)
  BY Entries
<1>2. P(ld', byKey', byLogin', logon')
  BY <1>1
<1> QED
  BY <1>2 DEF PointersAlive, Pointed, Range

\* Loading a player is.
LEMMA SetPlayAlive ==
  ASSUME DbOK, PointersAlive, NEW m, NEW g, SetPlay(m, g), UNCHANGED <<byKey, byLogin, logon>>
  PROVE  PointersAlive'
<1>1. \A o \in Objects : LET n == [o EXCEPT !.play = TRUE]
                        IN n.acct = o.acct /\ n.key = o.key /\ n.deleted = o.deleted
  BY DEF Objects
<1>2. \A x \in DOMAIN ld : /\ x \in DOMAIN ld' /\ ld'[x].acct = ld[x].acct
                           /\ ld'[x].key = ld[x].key /\ ld'[x].deleted = ld[x].deleted
  BY <1>1 DEF DbOK, SetPlay
<1> QED
  BY <1>2, SameObjects

\* Accounts that log off: an object that is freed is in no other map.
LEMMA LoggedOffAlive ==
  ASSUME DbOK, PointersAlive, NEW S, S \subseteq DOMAIN logon,
         ld' = LoggedOff({logon[a] : a \in S}), logon' = Erase(logon, S),
         UNCHANGED <<byKey, byLogin>>
  PROVE  PointersAlive'
<1> DEFINE X == {logon[a] : a \in S}
<1>1. /\ \A k \in DOMAIN byKey :
           byKey[k] \in DOMAIN ld /\ ld[byKey[k]].key = k /\ ~ld[byKey[k]].deleted
      /\ \A a \in DOMAIN byLogin :
           byLogin[a] \in DOMAIN ld /\ ld[byLogin[a]].acct = a /\ ~ld[byLogin[a]].deleted
      /\ \A a \in DOMAIN logon : logon[a] \in DOMAIN ld /\ ld[logon[a]].acct = a
  BY Entries
<1>2. DOMAIN ld' = DOMAIN ld \ {x \in X : ld[x].deleted}
  BY DEF LoggedOff
<1>3. \A x \in DOMAIN ld' : /\ ld'[x].acct = ld[x].acct /\ ld'[x].key = ld[x].key
                            /\ ld'[x].deleted = ld[x].deleted
  BY <1>2 DEF LoggedOff
<1>4. \A a \in DOMAIN logon \ S : logon[a] \notin X
  BY <1>1
<1>5. DOMAIN logon' = DOMAIN logon \ S /\ \A a \in DOMAIN logon' : logon'[a] = logon[a]
  BY DEF Erase, Restrict
<1> HIDE DEF X
<1>6. /\ \A k \in DOMAIN byKey' :
           byKey'[k] \in DOMAIN ld' /\ ld'[byKey'[k]].key = k /\ ~ld'[byKey'[k]].deleted
      /\ \A a \in DOMAIN byLogin' :
           byLogin'[a] \in DOMAIN ld' /\ ld'[byLogin'[a]].acct = a /\ ~ld'[byLogin'[a]].deleted
  BY <1>1, <1>2, <1>3, ZenonT(40)
<1>7. \A a \in DOMAIN logon' : logon'[a] \in DOMAIN ld' /\ ld'[logon'[a]].acct = a
  BY <1>1, <1>2, <1>3, <1>4, <1>5
<1> QED
  BY <1>6, <1>7 DEF PointersAlive, Pointed, Range

\* An authentication: the old object leaves both maps, and stays for
\* m_map_kLogonAccount if that leads to it; the new one is in neither.
LEMMA AuthLoginAlive ==
  ASSUME DbOK, PointersAlive, NEW a \in Accounts, NEW k \in Keys, AuthLogin(a, k)
  PROVE  PointersAlive'
<1> DEFINE old   == IF a \in DOMAIN byLogin THEN {byLogin[a]} ELSE {}
           objs  == IF old = {} THEN ld ELSE DeleteLoginData(byLogin[a])
           keys  == Erase(byKey, {ld[x].key : x \in old})
           names == Erase(byLogin, {a})
           left  == LDs \ (Range(keys) \cup Range(names) \cup Range(logon))
           new   == CHOOSE x \in left : TRUE
<1>1. /\ left # {} /\ logon' = logon
      /\ \/ ld' = objs /\ byKey' = keys /\ byLogin' = names
         \/ /\ ld' = With(objs, new, LoginData(a, k))
            /\ byKey' = With(keys, k, new)
            /\ byLogin' = With(names, a, new)
  BY DEF AuthLogin
<1>2. /\ \A h \in DOMAIN byKey :
           byKey[h] \in DOMAIN ld /\ ld[byKey[h]].key = h /\ ~ld[byKey[h]].deleted
      /\ \A b \in DOMAIN byLogin :
           byLogin[b] \in DOMAIN ld /\ ld[byLogin[b]].acct = b /\ ~ld[byLogin[b]].deleted
      /\ \A b \in DOMAIN logon : logon[b] \in DOMAIN ld /\ ld[logon[b]].acct = b
  BY Entries
<1>3. /\ DOMAIN keys = DOMAIN byKey \ {ld[x].key : x \in old}
      /\ \A h \in DOMAIN keys : keys[h] = byKey[h]
      /\ DOMAIN names = DOMAIN byLogin \ {a}
      /\ \A b \in DOMAIN names : names[b] = byLogin[b]
  BY DEF Erase, Restrict
<1>4. /\ \A x \in DOMAIN ld \ old : x \in DOMAIN objs /\ objs[x] = ld[x]
      /\ \A x \in old : a \in DOMAIN logon => x \in DOMAIN objs /\ objs[x].acct = a
  <2>1. CASE old = {}
    BY <2>1
  <2>2. CASE a \in DOMAIN byLogin
    <3>1. old = {byLogin[a]} /\ objs = DeleteLoginData(byLogin[a]) /\ byLogin[a] \in DOMAIN ld
      BY <1>2, <2>2
    <3>2. ld[byLogin[a]] \in Objects /\ ld[byLogin[a]].acct = a
      BY <1>2, <2>2 DEF DbOK
    <3>3. [ld[byLogin[a]] EXCEPT !.deleted = TRUE].acct = a
      BY <3>2 DEF Objects
    <3> HIDE DEF objs, old
    <3> QED
      BY <3>1, <3>2, <3>3 DEF DeleteLoginData, Erase, Restrict
  <2> QED
    BY <2>1, <2>2
<1>5. \A x \in old : x = byLogin[a] /\ a \in DOMAIN byLogin
  OBVIOUS
<1> HIDE DEF old, objs, keys, names
<1>6. /\ \A h \in DOMAIN keys : keys[h] \in DOMAIN objs /\ objs[keys[h]].key = h /\ ~objs[keys[h]].deleted
      /\ \A b \in DOMAIN names : names[b] \in DOMAIN objs /\ objs[names[b]].acct = b /\ ~objs[names[b]].deleted
  <2>1. \A h \in DOMAIN keys : byKey[h] \in DOMAIN ld \ old
    BY <1>2, <1>3
  <2>2. \A b \in DOMAIN names : byLogin[b] \in DOMAIN ld \ old
    BY <1>2, <1>3, <1>5
  <2> QED
    BY <1>2, <1>3, <1>4, <2>1, <2>2
<1>7. \A b \in DOMAIN logon : logon[b] \in DOMAIN objs /\ objs[logon[b]].acct = b
  <2> TAKE b \in DOMAIN logon
  <2>1. CASE logon[b] \in old
    BY <1>2, <1>4, <1>5, <2>1
  <2>2. CASE logon[b] \notin old
    BY <1>2, <1>4, <2>2
  <2> QED
    BY <2>1, <2>2
<1>8. CASE ld' = objs /\ byKey' = keys /\ byLogin' = names
  BY <1>1, <1>6, <1>7, <1>8 DEF PointersAlive, Pointed, Range
<1>9. CASE /\ ld' = With(objs, new, LoginData(a, k))
           /\ byKey' = With(keys, k, new)
           /\ byLogin' = With(names, a, new)
  <2>1. /\ \A h \in DOMAIN keys : keys[h] # new
        /\ \A b \in DOMAIN names : names[b] # new
        /\ \A b \in DOMAIN logon : logon[b] # new
    <3>1. new \in left
      BY <1>1
    <3> QED
      BY <3>1 DEF Range
  <2>2. LoginData(a, k).acct = a /\ LoginData(a, k).key = k /\ ~LoginData(a, k).deleted
    BY DEF LoginData
  <2> HIDE DEF new, left
  <2>3. /\ DOMAIN ld' = DOMAIN objs \cup {new} /\ ld'[new] = LoginData(a, k)
        /\ \A x \in DOMAIN objs : x # new => ld'[x] = objs[x]
        /\ DOMAIN byKey' = DOMAIN keys \cup {k} /\ byKey'[k] = new
        /\ \A h \in DOMAIN keys : h # k => byKey'[h] = keys[h]
        /\ DOMAIN byLogin' = DOMAIN names \cup {a} /\ byLogin'[a] = new
        /\ \A b \in DOMAIN names : b # a => byLogin'[b] = names[b]
    BY <1>9 DEF With
  <2>4. \A h \in DOMAIN byKey' : byKey'[h] \in DOMAIN ld' /\ ld'[byKey'[h]].key = h /\ ~ld'[byKey'[h]].deleted
    BY <1>6, <2>1, <2>2, <2>3
  <2>5. \A b \in DOMAIN byLogin' : byLogin'[b] \in DOMAIN ld' /\ ld'[byLogin'[b]].acct = b /\ ~ld'[byLogin'[b]].deleted
    BY <1>6, <2>1, <2>2, <2>3
  <2>6. \A b \in DOMAIN logon' : logon'[b] \in DOMAIN ld' /\ ld'[logon'[b]].acct = b
    BY <1>1, <1>7, <2>1, <2>3
  <2> QED
    BY <2>4, <2>5, <2>6 DEF PointersAlive, Pointed, Range
<1> QED
  BY <1>1, <1>8, <1>9

\* The accounts of a connection that is set up: their objects are new, one for
\* each, and the entries that are there stay.
LEMMA SetupAlive ==
  ASSUME TypeOK, PointersAlive, NEW g \in Games, Setup(g)
  PROVE  PointersAlive'
<1> DEFINE L     == Head(toDb[g]).logins
           accts == {e.acct : e \in L}
           new   == CHOOSE f \in [L -> Unused] : IsInjective(f)
           of(x) == CHOOSE e \in L : new[e] = x
           won   == accts \ DOMAIN logon
<1>1. PICK F \in SUBSET L :
        /\ \A a \in accts : \E e \in F : /\ e.acct = a
                                        /\ \A o \in F : o.acct = a => o = e
        /\ byKey' = [k \in DOMAIN byKey \cup {e.key : e \in L} |->
                       IF k \in DOMAIN byKey THEN byKey[k] ELSE new[CHOOSE e \in L : e.key = k]]
        /\ byLogin' = [a \in DOMAIN byLogin \cup accts |->
                         IF a \in DOMAIN byLogin THEN byLogin[a]
                         ELSE new[CHOOSE e \in F : e.acct = a]]
        /\ logon' = [a \in DOMAIN logon \cup accts |->
                       IF a \in DOMAIN logon THEN logon[a] ELSE byLogin'[a]]
        /\ ld' = [x \in DOMAIN ld \cup Range(new) |->
                    LET o == IF x \notin Range(new) THEN ld[x]
                             ELSE [LoginData(of(x).acct, of(x).key) EXCEPT
                                     !.play = of(x) \in F /\ of(x).acct \in won]
                    IN IF x \in {byLogin'[a] : a \in won} THEN [o EXCEPT !.conn = g] ELSE o]
  BY Zenon DEF Setup
<1>2. /\ \A h \in DOMAIN byKey :
           byKey[h] \in DOMAIN ld /\ ld[byKey[h]].key = h /\ ~ld[byKey[h]].deleted
      /\ \A b \in DOMAIN byLogin :
           byLogin[b] \in DOMAIN ld /\ ld[byLogin[b]].acct = b /\ ~ld[byLogin[b]].deleted
      /\ \A b \in DOMAIN logon : logon[b] \in DOMAIN ld /\ ld[logon[b]].acct = b
  BY Entries
<1>3. L \in SUBSET [acct : Accounts, key : AnyKey]
  <2>1. Take(g, "setup")
    BY Zenon DEF Setup
  <2>2. Head(toDb[g]) \in Asks /\ Head(toDb[g]).op = "setup"
    BY <2>1, TakeType DEF TypeOK
  <2> QED
    BY <2>2, AsksTypes
<1>4. new \in [L -> Unused] /\ IsInjective(new)
  <2>1. \E f \in [L -> Unused] : IsInjective(f)
    BY DEF Setup
  <2> QED
    BY <2>1
<1>5. \A e \in L : of(new[e]) = e /\ new[e] \in Range(new)
  BY <1>4 DEF Range, IsInjective
<1>6. ld \in [DOMAIN ld -> Objects]
  BY DEF TypeOK, DbOK
<1>7. /\ \A h \in DOMAIN byKey : byKey[h] \notin Range(new)
      /\ \A b \in DOMAIN byLogin : byLogin[b] \notin Range(new)
      /\ \A b \in DOMAIN logon : logon[b] \notin Range(new)
  BY <1>4 DEF Range, Unused, Pointed
<1>8. /\ DOMAIN ld' = DOMAIN ld \cup Range(new)
      /\ \A x \in DOMAIN ld \ Range(new) : /\ ld'[x].acct = ld[x].acct /\ ld'[x].key = ld[x].key
                                          /\ ld'[x].deleted = ld[x].deleted
      /\ \A e \in L : /\ ld'[new[e]].acct = e.acct /\ ld'[new[e]].key = e.key
                       /\ ~ld'[new[e]].deleted
  <2> DEFINE base(x) == IF x \notin Range(new) THEN ld[x]
                        ELSE [LoginData(of(x).acct, of(x).key) EXCEPT
                                !.play = of(x) \in F /\ of(x).acct \in won]
             at == {byLogin'[a] : a \in won}
  <2>1. ld' = [x \in DOMAIN ld \cup Range(new) |->
                 IF x \in at THEN [base(x) EXCEPT !.conn = g] ELSE base(x)]
    BY <1>1
  <2>2. \A o \in Objects : LET n == [o EXCEPT !.conn = g]
                          IN n.acct = o.acct /\ n.key = o.key /\ n.deleted = o.deleted
    BY DEF Objects
  <2>3. \A x \in DOMAIN ld \ Range(new) : base(x) = ld[x] /\ base(x) \in Objects
    BY <1>6
  <2>4. ASSUME NEW e \in L
        PROVE  /\ base(new[e]) \in Objects /\ base(new[e]).acct = e.acct
               /\ base(new[e]).key = e.key /\ ~base(new[e]).deleted
    <3> DEFINE d == LoginData(e.acct, e.key)
               b == e \in F /\ e.acct \in won
    <3>1. base(new[e]) = [d EXCEPT !.play = b]
      BY <1>5, ZenonT(40)
    <3>2. b \in BOOLEAN
      OBVIOUS
    <3>3. e.acct \in Accounts /\ e.key \in AnyKey
      BY <1>3
    <3>4. /\ d \in Objects /\ d.acct = e.acct /\ d.key = e.key /\ d.deleted = FALSE
      BY <3>3 DEF LoginData, Objects
    <3> HIDE DEF d, b
    <3>5. LET n == [d EXCEPT !.play = b]
          IN n \in Objects /\ n.acct = e.acct /\ n.key = e.key /\ n.deleted = FALSE
      BY <3>2, <3>4 DEF Objects
    <3> HIDE DEF base
    <3> QED
      BY <3>1, <3>5
  <2> HIDE DEF base, at, new, of, L
  <2> QED
    BY <1>5, <2>1, <2>2, <2>3, <2>4
<1> HIDE DEF new, of, L
<1>9. \A h \in DOMAIN byKey' :
        byKey'[h] \in DOMAIN ld' /\ ld'[byKey'[h]].key = h /\ ~ld'[byKey'[h]].deleted
  <2> TAKE h \in DOMAIN byKey'
  <2>1. CASE h \in DOMAIN byKey
    <3>1. byKey'[h] = byKey[h] /\ byKey[h] \in DOMAIN ld \ Range(new)
      BY <1>1, <1>2, <1>7, <2>1
    <3> HIDE DEF new, of, won, accts, L
    <3> QED
      BY <1>2, <1>8, <2>1, <3>1
  <2>2. CASE h \notin DOMAIN byKey
    <3>1. PICK e \in L : e.key = h /\ byKey'[h] = new[e]
      BY <1>1, <2>2
    <3> QED
      BY <1>5, <1>8, <3>1
  <2> QED
    BY <2>1, <2>2
<1>10. \A b \in DOMAIN byLogin' :
         byLogin'[b] \in DOMAIN ld' /\ ld'[byLogin'[b]].acct = b /\ ~ld'[byLogin'[b]].deleted
  <2> TAKE b \in DOMAIN byLogin'
  <2>1. CASE b \in DOMAIN byLogin
    <3>1. byLogin'[b] = byLogin[b] /\ byLogin[b] \in DOMAIN ld \ Range(new)
      BY <1>1, <1>2, <1>7, <2>1
    <3> HIDE DEF new, of, won, accts, L
    <3> QED
      BY <1>2, <1>8, <2>1, <3>1
  <2>2. CASE b \notin DOMAIN byLogin
    <3>1. b \in accts /\ byLogin'[b] = new[CHOOSE e \in F : e.acct = b]
      BY <1>1, <2>2
    <3>2. PICK e \in L : e.acct = b /\ byLogin'[b] = new[e]
      BY <1>1, <3>1
    <3> QED
      BY <1>5, <1>8, <3>2
  <2> QED
    BY <2>1, <2>2
<1>11. \A b \in DOMAIN logon' : logon'[b] \in DOMAIN ld' /\ ld'[logon'[b]].acct = b
  <2> TAKE b \in DOMAIN logon'
  <2>1. CASE b \in DOMAIN logon
    BY <1>1, <1>2, <1>7, <1>8, <2>1, SMTT(30)
  <2>2. CASE b \notin DOMAIN logon
    <3>1. b \in DOMAIN byLogin' /\ logon'[b] = byLogin'[b]
      BY <1>1, <2>2
    <3> QED
      BY <1>10, <3>1
  <2> QED
    BY <2>1, <2>2
<1> QED
  BY <1>9, <1>10, <1>11 DEF PointersAlive, Pointed, Range

\* A lost connection.
LEMMA LostAlive ==
  ASSUME DbOK, PointersAlive, NEW g, Lost(g)
  PROVE  PointersAlive'
<1> DEFINE theirs == {a \in DOMAIN logon : ld[logon[a]].conn = g}
<1>1. /\ ld' = LoggedOff({logon[a] : a \in theirs}) /\ logon' = Erase(logon, theirs)
      /\ UNCHANGED <<byKey, byLogin>> /\ theirs \subseteq DOMAIN logon
  BY DEF Lost
<1> HIDE DEF theirs
<1> QED
  BY <1>1, LoggedOffAlive

\* The other messages and answers the db handles.
LEMMA DbStepAlive ==
  ASSUME TypeOK, PointersAlive, NEW g \in Games, DbStep(g)
  PROVE  PointersAlive'
<1>0. DbOK
  BY DEF TypeOK
<1>1. CASE LoginByKey(g)
  BY <1>1, SameObjects DEF LoginByKey, db
<1>2. CASE PlayerLoad(g)
  <2>1. CASE SetPlay(Head(toDb[g]), g)
    BY <1>0, <1>2, <2>1, SetPlayAlive DEF PlayerLoad
  <2>2. CASE UNCHANGED ld
    BY <1>2, <2>2, SameObjects DEF PlayerLoad
  <2> QED
    BY <1>2, <2>1, <2>2 DEF PlayerLoad
<1>3. CASE Logout(g)
  <2> DEFINE a == Head(toDb[g]).acct
  <2>1. CASE Accepted(a, g)
    <3>1. /\ {a} \subseteq DOMAIN logon /\ ld' = LoggedOff({logon[b] : b \in {a}})
          /\ logon' = Erase(logon, {a}) /\ UNCHANGED <<byKey, byLogin>>
      <4>1. {logon[b] : b \in {a}} = {logon[a]}
        OBVIOUS
      <4> QED
        BY <1>3, <2>1, <4>1 DEF Logout, Accepted
    <3> QED
      BY <1>0, <3>1, LoggedOffAlive
  <2>2. CASE ~Accepted(a, g)
    BY <1>3, <2>2, SameObjects DEF Logout
  <2> QED
    BY <2>1, <2>2
<1>4. CASE DeleteLoginKey(g)
  <2>1. /\ DOMAIN byKey' \subseteq DOMAIN byKey /\ \A k \in DOMAIN byKey' : byKey'[k] = byKey[k]
        /\ UNCHANGED <<ld, byLogin, logon>>
    BY <1>4 DEF DeleteLoginKey, Erase, Restrict
  <2> QED
    BY <2>1, Entries DEF PointersAlive, Pointed, Range
<1> QED
  BY <1>1, <1>2, <1>3, <1>4, SetupAlive DEF DbStep

\* The answers of the SQL thread: an account that is logged in is entered with
\* the object it is found under.
LEMMA ResultAlive ==
  ASSUME TypeOK, PointersAlive, Result
  PROVE  PointersAlive'
<1> DEFINE r == Head(sql)
<1>0. DbOK /\ UNCHANGED <<byKey, byLogin>>
  BY DEF TypeOK, Result
<1>1. CASE UNCHANGED <<ld, logon>>
  BY <1>0, <1>1, SameObjects
<1>2. CASE SetPlay(r, r.game) /\ UNCHANGED logon
  BY <1>0, <1>2, SetPlayAlive
<1>3. CASE /\ MayLogon(r.acct)
           /\ ld' = [ld EXCEPT ![byLogin[r.acct]] = [@ EXCEPT !.conn = r.game]]
           /\ logon' = With(logon, r.acct, byLogin[r.acct])
  <2> DEFINE n == r.game
  <2>1. \A o \in Objects : LET x == [o EXCEPT !.conn = n]
                          IN x.acct = o.acct /\ x.key = o.key /\ x.deleted = o.deleted
    BY DEF Objects
  <2>2. ld' = [ld EXCEPT ![byLogin[r.acct]] = [@ EXCEPT !.conn = n]]
    BY <1>3
  <2> HIDE DEF n
  <2>3. /\ DOMAIN ld' = DOMAIN ld
        /\ \A x \in DOMAIN ld : /\ ld'[x].acct = ld[x].acct /\ ld'[x].key = ld[x].key
                                 /\ ld'[x].deleted = ld[x].deleted
    BY <1>0, <2>1, <2>2 DEF DbOK
  <2>4. /\ \A k \in DOMAIN byKey :
             byKey[k] \in DOMAIN ld /\ ld[byKey[k]].key = k /\ ~ld[byKey[k]].deleted
        /\ \A a \in DOMAIN byLogin :
             byLogin[a] \in DOMAIN ld /\ ld[byLogin[a]].acct = a /\ ~ld[byLogin[a]].deleted
        /\ \A a \in DOMAIN logon : logon[a] \in DOMAIN ld /\ ld[logon[a]].acct = a
    BY Entries
  <2>5. /\ r.acct \in DOMAIN byLogin /\ DOMAIN logon' = DOMAIN logon \cup {r.acct}
        /\ logon'[r.acct] = byLogin[r.acct] /\ \A a \in DOMAIN logon \ {r.acct} : logon'[a] = logon[a]
    BY <1>3 DEF MayLogon, With
  <2>6. \A a \in DOMAIN logon' : logon'[a] \in DOMAIN ld' /\ ld'[logon'[a]].acct = a
    BY <2>3, <2>4, <2>5
  <2> QED
    BY <1>0, <2>3, <2>4, <2>6 DEF PointersAlive, Pointed, Range
<1> QED
  BY <1>1, <1>2, <1>3 DEF Result

\* A step leaves no map with a pointer to a deleted object.
LEMMA StepAlive == TypeOK /\ PointersAlive /\ [Next]_vars => PointersAlive'
<1> SUFFICES ASSUME TypeOK, PointersAlive, [Next]_vars PROVE PointersAlive'
  OBVIOUS
<1>0. DbOK
  BY DEF TypeOK
<1>1. ASSUME UNCHANGED db PROVE PointersAlive'
  BY <1>1, SameObjects DEF db
<1>2. CASE UNCHANGED vars
  BY <1>1, <1>2 DEF vars, db
<1>3. ASSUME NEW a \in Accounts, NEW k \in Keys, AuthLogin(a, k) PROVE PointersAlive'
  BY <1>0, <1>3, AuthLoginAlive
<1>4. ASSUME NEW d \in Descs, NEW g \in Games, NEW a \in Accounts, NEW k \in Keys, SendLogin(d, g, a, k)
      PROVE  PointersAlive'
  BY <1>1, <1>4 DEF SendLogin
<1>5. ASSUME NEW d \in Descs, Select(d) \/ Close(d) \/ KickOver(d) \/ Destroy(d) PROVE PointersAlive'
  BY <1>1, <1>5 DEF Select, Close, KickOver, Destroy
<1>6. ASSUME NEW g \in Games, GameReads(g) PROVE PointersAlive'
  BY <1>1, <1>6 DEF GameReads, LoginSuccess, LoginAlready, LoginFailure, CharacterLoaded, LoadFailed
<1>7. ASSUME NEW g \in Games, NEW a \in Accounts, Disconnect(g, a) \/ SendDC(g, a) PROVE PointersAlive'
  BY <1>1, <1>7 DEF Disconnect, SendDC
<1>8. ASSUME NEW g \in Games, Connect(g) PROVE PointersAlive'
  BY <1>1, <1>8 DEF Connect
<1>9. ASSUME NEW g \in Games, Drop(g) \/ Crash(g) PROVE PointersAlive'
  BY <1>0, <1>9, LostAlive DEF Drop, Crash
<1>10. ASSUME Restart PROVE PointersAlive'
  <2>1. DOMAIN << >> = {}
    OBVIOUS
  <2> QED
    BY <1>10, <2>1 DEF Restart, PointersAlive, Pointed, Range
<1> QED
  BY <1>2, <1>3, <1>4, <1>5, <1>6, <1>7, <1>8, <1>9, <1>10, DbStepAlive, ResultAlive DEF Next

\* No map of the db ever leads to a CLoginData that was deleted: for any number
\* of accounts, games, clients and keys, through authentications at any time,
\* broken connections, crashes, restarts, the command DC and keys drawn twice.
THEOREM PointersStayAlive == Spec => []PointersAlive
<1>1. Init => PointersAlive
  <2>1. DOMAIN << >> = {}
    OBVIOUS
  <2> QED
    BY <2>1 DEF Init, PointersAlive, Pointed, Range
<1> QED
  BY <1>1, StepAlive, TypeCorrect, PTL DEF Spec

-----------------------------------------------------------------------------
(* One session: the invariant.                                                *)

\* Some entry of q is in M; at most one is; and what a step does to both.
Holds(q, M) == \E i \in 1 .. Len(q) : q[i] \in M
Once(q, M)  == \A i, j \in 1 .. Len(q) : q[i] \in M /\ q[j] \in M => i = j
Shrinks(q, r, M) == (Once(q, M) => Once(r, M)) /\ (Holds(r, M) => Holds(q, M))
Same(q, r, M)    == Shrinks(q, r, M) /\ (Holds(q, M) => Holds(r, M))

\* The login of a client that is under way: the request, its queries, the answer.
Request(d) == [op : {"login"}, desc : {d}, acct : Accounts, key : AnyKey]
Lookup(d)  == [op : {"index", "players"}, desc : {d}, acct : Accounts, game : Games \cup {None}]
Verdict(d) == [op : {"success", "already", "notexist"}, desc : {d}, acct : Accounts]
Waiting(d) == \/ \E g \in Games : Holds(toDb[g], Request(d)) \/ Holds(toGame[g], Verdict(d))
              \/ Holds(sql, Lookup(d))

\* What uses an account apart from the DESCs it is bound to.
Welcome(a)  == [op : {"success"}, desc : Descs, acct : {a}]
Farewell(a) == [op : {"logout"}, desc : {None}, acct : {a}, key : {None}]

\* The setup of a connection that names sessions.
Reunion == [op : {"setup"}, logins : (SUBSET [acct : Accounts, key : AnyKey]) \ {{}}]

\* The db takes a for logged in on game g.
LoggedOnAt(a, g) == a \in DOMAIN logon /\ g = ld[logon[a]].conn /\ g \in up

\* A connection that is down holds nothing, and no query waits for it; a game
\* that connects again has no session to set up.
Lines ==
  /\ \A g \in Games \ up : toDb[g] = << >> /\ toGame[g] = << >>
  /\ \A i \in 1 .. Len(sql) : sql[i].game \in up \cup {None}
  /\ \A g \in Games : ~Holds(toDb[g], Reunion)

\* No client asks for a login while it has one under way or an account.
AsksOnce == "relogin" \notin Events

\* The logins of a client that are under way go to and come from its own game.
\* A client that does not ask again has one at most, and no account meanwhile.
OneLogin(d) ==
  /\ desc[d].game \in Games
  /\ \A g \in Games : Holds(toDb[g], Request(d)) \/ Holds(toGame[g], Verdict(d)) => g = desc[d].game
  /\ \A i \in 1 .. Len(sql) : sql[i] \in Lookup(d) => sql[i].game \in {desc[d].game, None}
  /\ AsksOnce =>
       /\ \A g \in Games : /\ Once(toDb[g], Request(d)) /\ Once(toGame[g], Verdict(d))
                           /\ ~(Holds(toDb[g], Request(d)) /\ Holds(toGame[g], Verdict(d)))
                           /\ Holds(toDb[g], Request(d)) \/ Holds(toGame[g], Verdict(d)) =>
                                ~Holds(sql, Lookup(d))
       /\ Once(sql, Lookup(d))
       /\ Waiting(d) => desc[d].acct = None /\ desc[d].st # "open"

Client(d) ==
  /\ desc[d].st # "free" => OneLogin(d)
  /\ desc[d].st \in {"free", "open", "asked"} => desc[d].acct = None
  /\ desc[d].st = "free" => ~desc[d].kicked

\* An account is used in one place at most: by a DESC, by a success on its way
\* to one, or by a logout; and there the db takes it for logged in.
OneUse(a) ==
  /\ \A d, e \in BoundTo(a) : d = e
  /\ \A d \in BoundTo(a) : LoggedOnAt(a, desc[d].game)
  /\ \A g \in Games :
       /\ Once(toGame[g], Welcome(a)) /\ Once(toDb[g], Farewell(a))
       /\ Holds(toGame[g], Welcome(a)) =>
            LoggedOnAt(a, g) /\ BoundTo(a) = {} /\ ~Holds(toDb[g], Farewell(a))
       /\ Holds(toDb[g], Farewell(a)) => LoggedOnAt(a, g) /\ BoundTo(a) = {}

Orderly == Lines /\ (\A d \in Descs : Client(d)) /\ (\A a \in Accounts : OneUse(a))

\* An account that is logged on is used where the db has it logged on.
UsedAt(a, g) == \/ \E d \in BoundTo(a) : desc[d].game = g
                \/ Holds(toGame[g], Welcome(a)) \/ Holds(toDb[g], Farewell(a))
Traced(a) == a \in DOMAIN logon => \E g \in Games : LoggedOnAt(a, g) /\ UsedAt(a, g)
AllTraced == DOMAIN logon \subseteq DOMAIN byLogin /\ \A a \in Accounts : Traced(a)

-----------------------------------------------------------------------------
(* Queues.                                                                    *)

LEMMA SameStays == \A q, M : Same(q, q, M)
BY DEF Same, Shrinks

\* The head of a queue is taken; if it is the one entry in M, none is left.
LEMMA TailHolds ==
  ASSUME NEW T, NEW q \in Seq(T), q # << >>, NEW M
  PROVE  /\ Shrinks(q, Tail(q), M)
         /\ Head(q) \notin M => Same(q, Tail(q), M)
         /\ Head(q) \in M => Holds(q, M) /\ (Once(q, M) => ~Holds(Tail(q), M))
<1>1. /\ Len(q) \in Nat /\ 1 \in 1 .. Len(q) /\ Head(q) = q[1]
      /\ Len(Tail(q)) = Len(q) - 1
      /\ \A i \in 1 .. Len(Tail(q)) : Tail(q)[i] = q[i + 1] /\ i + 1 \in 1 .. Len(q) /\ i + 1 # 1
  OBVIOUS
<1>2. Shrinks(q, Tail(q), M)
  BY <1>1 DEF Shrinks, Once, Holds
<1>3. ASSUME Head(q) \notin M, Holds(q, M) PROVE Holds(Tail(q), M)
  <2>1. PICK i \in 1 .. Len(q) : q[i] \in M
    BY <1>3 DEF Holds
  <2>2. i - 1 \in 1 .. Len(Tail(q)) /\ (i - 1) + 1 = i
    BY <1>1, <1>3, <2>1
  <2>3. Tail(q)[i - 1] \in M
    BY <1>1, <2>1, <2>2
  <2> QED
    BY <2>2, <2>3 DEF Holds
<1>4. Head(q) \in M => Holds(q, M) /\ (Once(q, M) => ~Holds(Tail(q), M))
  BY <1>1 DEF Holds, Once
<1> QED
  BY <1>2, <1>3, <1>4 DEF Same

\* A message is added.
LEMMA AppendHolds ==
  ASSUME NEW T, NEW q \in Seq(T), NEW m, NEW M
  PROVE  /\ m \notin M => Same(q, Append(q, m), M)
         /\ m \in M => Holds(Append(q, m), M)
         /\ ~Holds(q, M) => Once(Append(q, m), M)
<1> DEFINE r == Append(q, m)
           n == Len(q)
<1>1. /\ n \in Nat /\ Len(r) = n + 1 /\ r[n + 1] = m
      /\ \A i \in 1 .. n : r[i] = q[i] /\ i \in 1 .. n + 1
      /\ \A i \in 1 .. n + 1 : i = n + 1 \/ i \in 1 .. n
  OBVIOUS
<1> HIDE DEF r
<1>2. n + 1 \in 1 .. n + 1
  BY <1>1
<1> HIDE DEF n
<1>3. n = Len(q)
  BY DEF n
<1>4. m \notin M => Same(q, r, M)
  BY <1>1, <1>2, <1>3 DEF Same, Shrinks, Once, Holds
<1>5. m \in M => Holds(r, M)
  BY <1>1, <1>2 DEF Holds
<1>6. ~Holds(q, M) => Once(r, M)
  BY <1>1, <1>3 DEF Once, Holds
<1> QED
  BY <1>4, <1>5, <1>6 DEF r

\* An empty queue.
LEMMA NoneHeld == \A M : Once(<< >>, M) /\ ~Holds(<< >>, M)
BY DEF Once, Holds

\* A queue with entries that are in M where its own are.
LEMMA LikeHolds ==
  ASSUME NEW q, NEW r, Len(r) = Len(q), NEW M,
         \A i \in 1 .. Len(q) : r[i] \in M <=> q[i] \in M
  PROVE  Same(q, r, M)
BY DEF Same, Shrinks, Once, Holds

-----------------------------------------------------------------------------
(* What the messages do to the connections.                                   *)

\* Nothing is sent on a connection that is down.
LEMMA Sent ==
  ASSUME NetOK, NEW g \in Games, NEW m, Send(g, m)
  PROVE  /\ \A h \in Games : \A M : m \notin M \/ h # g => Same(toDb[h], toDb'[h], M)
         /\ \A h \in Games : g \notin up \/ h # g => toDb'[h] = toDb[h]
         /\ g \in up => toDb'[g] = Append(toDb[g], m)
<1>1. toDb \in [Games -> Seq(Asks)]
  BY DEF NetOK
<1>2. \A h \in Games : g \notin up \/ h # g => toDb'[h] = toDb[h]
  BY <1>1 DEF Send
<1>3. g \in up => toDb'[g] = Append(toDb[g], m)
  BY <1>1 DEF Send
<1>4. ASSUME NEW h \in Games, NEW M, m \notin M \/ h # g PROVE Same(toDb[h], toDb'[h], M)
  <2>1. CASE toDb'[h] = toDb[h]
    BY <2>1, SameStays
  <2>2. CASE h = g /\ toDb'[h] = Append(toDb[h], m)
    <3>1. toDb[h] \in Seq(Asks)
      BY <1>1
    <3> QED
      BY <1>4, <2>2, <3>1, AppendHolds
  <2> QED
    BY <1>2, <1>3, <2>1, <2>2
<1> QED
  BY <1>2, <1>3, <1>4

LEMMA Replied ==
  ASSUME NetOK, NEW g \in Games, NEW op, NEW m, NEW t,
         t = [op |-> op, desc |-> m.desc, acct |-> m.acct], Reply(g, op, m)
  PROVE  /\ \A h \in Games : \A M : t \notin M \/ h # g => Same(toGame[h], toGame'[h], M)
         /\ \A h \in Games : h # g => toGame'[h] = toGame[h]
         /\ toGame'[g] = Append(toGame[g], t)
<1>1. toGame \in [Games -> Seq(Tells)]
  BY DEF NetOK
<1>2. toGame' = [toGame EXCEPT ![g] = Append(@, t)]
  BY DEF Reply
<1>3. toGame'[g] = Append(toGame[g], t) /\ \A h \in Games : h # g => toGame'[h] = toGame[h]
  BY <1>1, <1>2
<1>4. ASSUME NEW h \in Games, NEW M, t \notin M \/ h # g PROVE Same(toGame[h], toGame'[h], M)
  <2>1. CASE h # g
    BY <1>3, <2>1, SameStays
  <2>2. CASE h = g
    <3>1. toGame[h] \in Seq(Tells) /\ t \notin M /\ toGame'[h] = Append(toGame[h], t)
      BY <1>1, <1>3, <1>4, <2>2
    <3>2. Same(toGame[h], Append(toGame[h], t), M)
      BY <3>1, AppendHolds
    <3> QED
      BY <3>1, <3>2
  <2> QED
    BY <2>1, <2>2
<1> QED
  BY <1>3, <1>4

\* The db takes a message, and nothing else is on its way on that connection
\* but what was before.
LEMMA Took ==
  ASSUME NetOK, NEW g \in Games, NEW op, Take(g, op), NEW m, m = Head(toDb[g])
  PROVE  /\ m \in Asks /\ m.op = op /\ toDb[g] # << >> /\ toDb'[g] = Tail(toDb[g])
         /\ \A h \in Games : h # g => toDb'[h] = toDb[h]
         /\ \A h \in Games : \A M : /\ Shrinks(toDb[h], toDb'[h], M)
                                    /\ m \notin M \/ h # g => Same(toDb[h], toDb'[h], M)
         /\ \A M : m \in M => Holds(toDb[g], M) /\ (Once(toDb[g], M) => ~Holds(toDb'[g], M))
<1>1. toDb \in [Games -> Seq(Asks)] /\ toDb[g] # << >> /\ m.op = op
  BY DEF NetOK, Take
<1>2. toDb'[g] = Tail(toDb[g]) /\ \A h \in Games : h # g => toDb'[h] = toDb[h]
  BY <1>1 DEF Take
<1>3. toDb[g] \in Seq(Asks) /\ m \in Asks
  BY <1>1
<1>4. ASSUME NEW h \in Games, NEW M
      PROVE  /\ Shrinks(toDb[h], toDb'[h], M)
             /\ m \notin M \/ h # g => Same(toDb[h], toDb'[h], M)
  <2>1. CASE h # g
    BY <1>2, <2>1, SameStays DEF Same
  <2>2. CASE h = g
    <3>1. /\ toDb[h] \in Seq(Asks) /\ toDb[h] # << >>
          /\ toDb'[h] = Tail(toDb[h]) /\ m = Head(toDb[h])
      BY <1>1, <1>2, <1>3, <2>2
    <3>2. /\ Shrinks(toDb[h], Tail(toDb[h]), M)
          /\ m \notin M => Same(toDb[h], Tail(toDb[h]), M)
      BY <3>1, TailHolds
    <3> QED
      BY <2>2, <3>1, <3>2
  <2> QED
    BY <2>1, <2>2
<1>5. ASSUME NEW M, m \in M
      PROVE  Holds(toDb[g], M) /\ (Once(toDb[g], M) => ~Holds(toDb'[g], M))
  BY <1>1, <1>2, <1>3, <1>5, TailHolds
<1> QED
  BY <1>1, <1>2, <1>3, <1>4, <1>5

\* A game reads an answer.
LEMMA Answered ==
  ASSUME NetOK, NEW g \in Games, NEW op, Answer(g, op), NEW m, m = Head(toGame[g])
  PROVE  /\ m \in Tells /\ m.op = op /\ toGame[g] # << >> /\ toGame'[g] = Tail(toGame[g])
         /\ \A h \in Games : h # g => toGame'[h] = toGame[h]
         /\ \A h \in Games : \A M : /\ Shrinks(toGame[h], toGame'[h], M)
                                    /\ m \notin M \/ h # g => Same(toGame[h], toGame'[h], M)
         /\ \A M : m \in M => Holds(toGame[g], M) /\ (Once(toGame[g], M) => ~Holds(toGame'[g], M))
<1>1. toGame \in [Games -> Seq(Tells)] /\ toGame[g] # << >> /\ m.op = op
  BY DEF NetOK, Answer
<1>2. toGame'[g] = Tail(toGame[g]) /\ \A h \in Games : h # g => toGame'[h] = toGame[h]
  BY <1>1 DEF Answer
<1>3. toGame[g] \in Seq(Tells) /\ m \in Tells
  BY <1>1
<1>4. ASSUME NEW h \in Games, NEW M
      PROVE  /\ Shrinks(toGame[h], toGame'[h], M)
             /\ m \notin M \/ h # g => Same(toGame[h], toGame'[h], M)
  <2>1. CASE h # g
    BY <1>2, <2>1, SameStays DEF Same
  <2>2. CASE h = g
    <3>1. /\ toGame[h] \in Seq(Tells) /\ toGame[h] # << >>
          /\ toGame'[h] = Tail(toGame[h]) /\ m = Head(toGame[h])
      BY <1>1, <1>2, <1>3, <2>2
    <3>2. /\ Shrinks(toGame[h], Tail(toGame[h]), M)
          /\ m \notin M => Same(toGame[h], Tail(toGame[h]), M)
      BY <3>1, TailHolds
    <3> QED
      BY <2>2, <3>1, <3>2
  <2> QED
    BY <2>1, <2>2
<1>5. ASSUME NEW M, m \in M
      PROVE  Holds(toGame[g], M) /\ (Once(toGame[g], M) => ~Holds(toGame'[g], M))
  BY <1>1, <1>2, <1>3, <1>5, TailHolds
<1> QED
  BY <1>1, <1>2, <1>3, <1>4, <1>5

-----------------------------------------------------------------------------
(* Kinds of messages.                                                         *)

LEMMA Kinds ==
  ASSUME NEW m
  PROVE  /\ \A d : m.op # "login" \/ m.desc # d => m \notin Request(d)
         /\ \A d : m.op \notin {"index", "players"} \/ m.desc # d => m \notin Lookup(d)
         /\ \A d : m.op \notin {"success", "already", "notexist"} \/ m.desc # d => m \notin Verdict(d)
         /\ \A a : m.op # "success" \/ m.acct # a => m \notin Welcome(a)
         /\ \A a : m.op # "logout" \/ m.acct # a => m \notin Farewell(a)
BY DEF Request, Lookup, Verdict, Welcome, Farewell

LEMMA Members ==
  /\ \A m \in Asks : m.op = "login" => m \in Request(m.desc)
  /\ \A m \in Asks : m.op = "logout" => m \in Farewell(m.acct)
  /\ \A m \in Queries : m.op \in {"index", "players"} => m \in Lookup(m.desc)
  /\ \A m \in Tells : m.op \in {"success", "already", "notexist"} => m \in Verdict(m.desc)
  /\ \A m \in Tells : m.op = "success" => m \in Welcome(m.acct)
BY DEF Asks, Queries, Tells, Request, Lookup, Verdict, Welcome, Farewell

-----------------------------------------------------------------------------
(* Steps that start no login and end no session.                              *)

\* The queries of d go to the games they went to, or to none.
GamesLike(q, r, d) ==
  \A i \in 1 .. Len(r) : r[i] \in Lookup(d) =>
    r[i].game = None \/ \E j \in 1 .. Len(q) : q[j] \in Lookup(d) /\ q[j].game = r[i].game

LEMMA TailGames ==
  ASSUME NEW T, NEW q \in Seq(T), q # << >>, NEW d
  PROVE  GamesLike(q, Tail(q), d)
<1>1. \A i \in 1 .. Len(Tail(q)) : i + 1 \in 1 .. Len(q) /\ Tail(q)[i] = q[i + 1]
  OBVIOUS
<1> QED
  BY <1>1 DEF GamesLike

LEMMA AppendGames ==
  ASSUME NEW T, NEW q \in Seq(T), NEW m, NEW d, m \notin Lookup(d)
  PROVE  GamesLike(q, Append(q, m), d)
<1>1. \A i \in 1 .. Len(Append(q, m)) :
        \/ i \in 1 .. Len(q) /\ Append(q, m)[i] = q[i]
        \/ Append(q, m)[i] = m
  OBVIOUS
<1> QED
  BY <1>1 DEF GamesLike

\* A DESC keeps its account, and asks for none while a login is under way.
DescQuiet(d) ==
  /\ desc'[d].st # "free" =>
       /\ desc[d].st # "free" /\ desc'[d].game = desc[d].game /\ desc'[d].acct = desc[d].acct
       /\ AsksOnce /\ desc'[d].st = "open" => desc[d].st = "open" \/ ~Waiting(d)'
  /\ desc'[d].st \in {"free", "open", "asked"} => desc'[d].acct = None
  /\ desc'[d].st = "free" => ~desc'[d].kicked

\* Nothing is under way for d but what was.
LoginsQuiet(d) ==
  /\ \A g \in Games : /\ Shrinks(toDb[g], toDb'[g], Request(d))
                      /\ Shrinks(toGame[g], toGame'[g], Verdict(d))
  /\ Shrinks(sql, sql', Lookup(d)) /\ GamesLike(sql, sql', d)

ClientQuiet(d) == DescQuiet(d) /\ LoginsQuiet(d)

LEMMA ClientKept ==
  ASSUME NEW d \in Descs, Client(d), ClientQuiet(d)
  PROVE  Client(d)'
<1> SUFFICES ASSUME desc'[d].st # "free" PROVE OneLogin(d)'
  BY DEF Client, ClientQuiet, DescQuiet
<1>1. /\ OneLogin(d) /\ desc'[d].game = desc[d].game /\ desc'[d].acct = desc[d].acct
      /\ AsksOnce /\ desc'[d].st = "open" => desc[d].st = "open" \/ ~Waiting(d)'
  BY DEF Client, ClientQuiet, DescQuiet
<1>2. \A g \in Games :
        /\ AsksOnce => Once(toDb'[g], Request(d)) /\ Once(toGame'[g], Verdict(d))
        /\ Holds(toDb'[g], Request(d)) => Holds(toDb[g], Request(d))
        /\ Holds(toGame'[g], Verdict(d)) => Holds(toGame[g], Verdict(d))
  BY <1>1 DEF OneLogin, ClientQuiet, LoginsQuiet, Shrinks
<1>3. (AsksOnce => Once(sql', Lookup(d))) /\ (Holds(sql', Lookup(d)) => Holds(sql, Lookup(d)))
  BY <1>1 DEF OneLogin, ClientQuiet, LoginsQuiet, Shrinks
<1>4. \A i \in 1 .. Len(sql') : sql'[i] \in Lookup(d) => sql'[i].game \in {desc'[d].game, None}
  BY <1>1 DEF OneLogin, ClientQuiet, LoginsQuiet, GamesLike
<1>5. Waiting(d)' => Waiting(d)
  BY <1>2, <1>3 DEF Waiting
<1> QED
  BY <1>1, <1>2, <1>3, <1>4, <1>5 DEF OneLogin

\* No use of a comes or goes.
BoundQuiet(a) ==
  \A d \in Descs : /\ desc'[d].acct = a <=> desc[d].acct = a
                   /\ desc[d].acct = a => desc'[d].game = desc[d].game
UsesQuiet(a) ==
  \A g \in Games : /\ Same(toGame[g], toGame'[g], Welcome(a))
                   /\ Same(toDb[g], toDb'[g], Farewell(a))
OnQuiet(a) ==
  /\ \A g \in Games : LoggedOnAt(a, g) => LoggedOnAt(a, g)'
  /\ a \in DOMAIN logon' => a \in DOMAIN logon
UseQuiet(a) == BoundQuiet(a) /\ UsesQuiet(a) /\ OnQuiet(a)

LEMMA UseKept ==
  ASSUME TypeOK, NEW a \in Accounts, OneUse(a), UseQuiet(a)
  PROVE  OneUse(a)' /\ (Traced(a) => Traced(a)')
<1>1. BoundTo(a)' = BoundTo(a) /\ \A d \in BoundTo(a) : desc'[d].game = desc[d].game
  <2>1. \A d \in Descs : /\ desc'[d].acct = a <=> desc[d].acct = a
                         /\ desc[d].acct = a => desc'[d].game = desc[d].game
    BY DEF UseQuiet, BoundQuiet
  <2>2. BoundTo(a)' = BoundTo(a)
    BY <2>1 DEF BoundTo
  <2>3. \A d \in BoundTo(a) : d \in Descs /\ desc[d].acct = a
    BY DEF BoundTo
  <2> QED
    BY <2>1, <2>2, <2>3
<1>2. \A g \in Games :
        /\ Holds(toGame'[g], Welcome(a)) <=> Holds(toGame[g], Welcome(a))
        /\ Holds(toDb'[g], Farewell(a)) <=> Holds(toDb[g], Farewell(a))
        /\ Once(toGame[g], Welcome(a)) => Once(toGame'[g], Welcome(a))
        /\ Once(toDb[g], Farewell(a)) => Once(toDb'[g], Farewell(a))
        /\ LoggedOnAt(a, g) => LoggedOnAt(a, g)'
  BY DEF UseQuiet, UsesQuiet, OnQuiet, Same, Shrinks
<1>3. \A d \in BoundTo(a) : LoggedOnAt(a, desc[d].game)'
  <2>1. \A g : LoggedOnAt(a, g) => g \in Games
    BY DEF LoggedOnAt, TypeOK, NetOK
  <2> SUFFICES ASSUME NEW d \in BoundTo(a) PROVE LoggedOnAt(a, desc[d].game)'
    OBVIOUS
  <2>2. PICK g \in Games : g = desc[d].game /\ g = desc'[d].game /\ LoggedOnAt(a, g)
    BY <1>1, <2>1 DEF OneUse
  <2>3. LoggedOnAt(a, g)'
    BY <1>2, <2>2
  <2> QED
    BY <2>2, <2>3 DEF LoggedOnAt
<1>4. OneUse(a)'
  BY <1>1, <1>2, <1>3 DEF OneUse
<1>5. ASSUME Traced(a), a \in DOMAIN logon' PROVE \E g \in Games : LoggedOnAt(a, g)' /\ UsedAt(a, g)'
  <2>1. PICK g \in Games : LoggedOnAt(a, g) /\ UsedAt(a, g)
    BY <1>5 DEF UseQuiet, OnQuiet, Traced
  <2>2. LoggedOnAt(a, g)' /\ UsedAt(a, g)'
    BY <1>1, <1>2, <2>1 DEF UsedAt
  <2> QED
    BY <2>2
<1> QED
  BY <1>4, <1>5 DEF Traced

\* The db forgets no account that is logged on, nor where.
LEMMA OnKept ==
  ASSUME NEW a, logon' = logon, up \subseteq up',
         a \in DOMAIN logon => ld'[logon[a]].conn = ld[logon[a]].conn
  PROVE  OnQuiet(a)
BY DEF OnQuiet, LoggedOnAt

\* An account that a DESC may have left.
LEMMA UseLeft ==
  ASSUME TypeOK, NEW a \in Accounts, OneUse(a), UsesQuiet(a), OnQuiet(a), BoundTo(a)' \subseteq BoundTo(a),
         \A d \in BoundTo(a)' : desc'[d].game = desc[d].game
  PROVE  OneUse(a)'
<1>1. \A g \in Games :
        /\ Holds(toGame'[g], Welcome(a)) <=> Holds(toGame[g], Welcome(a))
        /\ Holds(toDb'[g], Farewell(a)) <=> Holds(toDb[g], Farewell(a))
        /\ Once(toGame[g], Welcome(a)) => Once(toGame'[g], Welcome(a))
        /\ Once(toDb[g], Farewell(a)) => Once(toDb'[g], Farewell(a))
        /\ LoggedOnAt(a, g) => LoggedOnAt(a, g)'
  BY DEF UsesQuiet, OnQuiet, Same, Shrinks
<1>2. ASSUME NEW d \in BoundTo(a)' PROVE LoggedOnAt(a, desc[d].game)'
  <2>1. \A g : LoggedOnAt(a, g) => g \in Games
    BY DEF LoggedOnAt, TypeOK, NetOK
  <2>2. PICK g \in Games : g = desc'[d].game /\ LoggedOnAt(a, g)
    BY <2>1 DEF OneUse
  <2>3. LoggedOnAt(a, g)'
    BY <1>1, <2>2
  <2> QED
    BY <2>2, <2>3 DEF LoggedOnAt
<1>3. BoundTo(a) = {} => BoundTo(a)' = {}
  OBVIOUS
<1> QED
  BY <1>1, <1>2, <1>3 DEF OneUse

\* A step that is quiet for all.
LEMMA QuietStep ==
  ASSUME TypeOK, Orderly, Lines',
         \A d \in Descs : /\ desc'[d].acct = desc[d].acct /\ desc'[d].game = desc[d].game
                          /\ DescQuiet(d) /\ LoginsQuiet(d),
         \A a \in Accounts : UsesQuiet(a) /\ OnQuiet(a)
  PROVE  Orderly' /\ \A a \in Accounts : Traced(a) => Traced(a)'
<1>1. \A d \in Descs : Client(d)'
  BY ClientKept DEF Orderly, ClientQuiet
<1>2. \A a \in Accounts : OneUse(a)' /\ (Traced(a) => Traced(a)')
  BY UseKept DEF Orderly, UseQuiet, BoundQuiet
<1> QED
  BY <1>1, <1>2 DEF Orderly

\* DESCs that do not change.
LEMMA DescsQuiet ==
  ASSUME Orderly, desc' = desc
  PROVE  \A d \in Descs : /\ desc'[d].acct = desc[d].acct /\ desc'[d].game = desc[d].game
                          /\ DescQuiet(d)
BY DEF Orderly, Client, DescQuiet

-----------------------------------------------------------------------------
(* Connections that are down.                                                 *)

LEMMA LinesKept ==
  ASSUME TypeOK, Lines, up' = up,
         \A g \in Games \ up : toDb'[g] = toDb[g] /\ toGame'[g] = toGame[g],
         \A i \in 1 .. Len(sql') : sql'[i].game \in up \cup {None},
         \A g \in Games : Shrinks(toDb[g], toDb'[g], Reunion)
  PROVE  Lines'
BY DEF Lines, Shrinks

\* A message is only read on a connection that is up.
LEMMA ReadsUp ==
  ASSUME Lines, NEW g \in Games, toDb[g] # << >> \/ toGame[g] # << >>
  PROVE  g \in up
BY DEF Lines

LEMMA NoReunion ==
  ASSUME NEW m
  PROVE  m.op # "setup" \/ m.logins = {} => m \notin Reunion
BY DEF Reunion

\* The queries that are left, and the one that is added.
LEMMA TailQueries ==
  ASSUME TypeOK, Lines, sql # << >>
  PROVE  /\ \A i \in 1 .. Len(Tail(sql)) : Tail(sql)[i].game \in up \cup {None}
         /\ Head(sql) \in Queries /\ Head(sql).game \in up \cup {None}
<1>1. sql \in Seq(Queries)
  BY DEF TypeOK, NetOK
<1>2. /\ \A i \in 1 .. Len(Tail(sql)) : i + 1 \in 1 .. Len(sql) /\ Tail(sql)[i] = sql[i + 1]
      /\ 1 \in 1 .. Len(sql) /\ Head(sql) = sql[1] /\ sql[1] \in Queries
  BY <1>1
<1> QED
  BY <1>2 DEF Lines

LEMMA MoreQueries ==
  ASSUME NEW T, NEW q \in Seq(T), NEW m, NEW S, \A i \in 1 .. Len(q) : q[i].game \in S, m.game \in S
  PROVE  \A i \in 1 .. Len(Append(q, m)) : Append(q, m)[i].game \in S
<1>1. \A i \in 1 .. Len(Append(q, m)) :
        \/ i \in 1 .. Len(q) /\ Append(q, m)[i] = q[i]
        \/ Append(q, m)[i] = m
  OBVIOUS
<1> QED
  BY <1>1

-----------------------------------------------------------------------------
(* The accounts that are logged on.                                           *)

OnAsBefore == /\ logon' = logon
              /\ \A b \in DOMAIN logon : ld'[logon[b]].conn = ld[logon[b]].conn

\* An authentication leaves them, and the account can still be found.
LEMMA AuthLoginOn ==
  ASSUME DbOK, PointersAlive, NEW a \in Accounts, NEW k \in Keys, AuthLogin(a, k)
  PROVE  OnAsBefore /\ ("collide" \notin Events => DOMAIN byLogin \subseteq DOMAIN byLogin')
<1> DEFINE old   == IF a \in DOMAIN byLogin THEN {byLogin[a]} ELSE {}
           objs  == IF old = {} THEN ld ELSE DeleteLoginData(byLogin[a])
           keys  == Erase(byKey, {ld[x].key : x \in old})
           names == Erase(byLogin, {a})
           left  == LDs \ (Range(keys) \cup Range(names) \cup Range(logon))
           new   == CHOOSE x \in left : TRUE
<1>1. /\ left # {} /\ logon' = logon /\ k \in Draw
      /\ \/ /\ k \in DOMAIN keys
            /\ ld' = objs /\ byKey' = keys /\ byLogin' = names
         \/ /\ ld' = With(objs, new, LoginData(a, k))
            /\ byKey' = With(keys, k, new)
            /\ byLogin' = With(names, a, new)
  BY DEF AuthLogin
<1>2. /\ \A b \in DOMAIN byLogin :
           byLogin[b] \in DOMAIN ld /\ ld[byLogin[b]].acct = b /\ ~ld[byLogin[b]].deleted
      /\ \A b \in DOMAIN logon : logon[b] \in DOMAIN ld /\ ld[logon[b]].acct = b
  BY Entries
<1>3. DOMAIN keys \subseteq DOMAIN byKey /\ DOMAIN names = DOMAIN byLogin \ {a}
  BY DEF Erase, Restrict
<1>4. \A b \in DOMAIN logon : logon[b] \in DOMAIN objs /\ objs[logon[b]].conn = ld[logon[b]].conn
  <2> TAKE b \in DOMAIN logon
  <2>1. CASE a \notin DOMAIN byLogin
    BY <1>2, <2>1
  <2>2. CASE a \in DOMAIN byLogin
    <3>1. objs = DeleteLoginData(byLogin[a]) /\ byLogin[a] \in DOMAIN ld
      BY <1>2, <2>2
    <3>2. ld[byLogin[a]] \in Objects /\ ld[byLogin[a]].acct = a
      BY <1>2, <2>2 DEF DbOK
    <3>3. [ld[byLogin[a]] EXCEPT !.deleted = TRUE].conn = ld[byLogin[a]].conn
      BY <3>2 DEF Objects
    <3>4. a \notin DOMAIN logon => logon[b] # byLogin[a]
      BY <1>2, <3>2
    <3> HIDE DEF objs
    <3> QED
      BY <1>2, <3>1, <3>2, <3>3, <3>4 DEF DeleteLoginData, Erase, Restrict
  <2> QED
    BY <2>1, <2>2
<1>5. \A b \in DOMAIN logon : logon[b] # new
  <2>1. new \in left
    BY <1>1
  <2> QED
    BY <2>1 DEF Range
<1> HIDE DEF new, left, objs, names
<1>6. OnAsBefore
  BY <1>1, <1>4, <1>5 DEF OnAsBefore, With
<1>7. ASSUME "collide" \notin Events PROVE DOMAIN byLogin \subseteq DOMAIN byLogin'
  <2>1. k \notin DOMAIN byKey
    BY <1>1, <1>7 DEF Draw, KeysInUse
  <2>2. byLogin' = With(names, a, new)
    BY <1>1, <1>3, <2>1
  <2> QED
    BY <1>3, <2>2 DEF With
<1> QED
  BY <1>6, <1>7

\* So does the load of a player.
LEMMA SetPlayOn ==
  ASSUME DbOK, NEW m, NEW g, SetPlay(m, g), logon' = logon
  PROVE  OnAsBefore
<1>1. \A o \in Objects : [o EXCEPT !.play = TRUE].conn = o.conn
  BY DEF Objects
<1>2. DOMAIN logon = DOMAIN logon /\ \A x \in DOMAIN ld : ld'[x].conn = ld[x].conn
  BY <1>1 DEF DbOK, SetPlay
<1>3. CASE ld' = ld
  BY <1>3 DEF OnAsBefore
<1>4. CASE ~(ld' = ld)
  <2>1. PICK x : ld' = [ld EXCEPT ![x] = [@ EXCEPT !.play = TRUE]]
    BY <1>4 DEF SetPlay
  <2>2. ld \in [DOMAIN ld -> Objects]
    BY DEF DbOK
  <2>3. \A y : y \notin DOMAIN ld \/ y # x => ld'[y].conn = ld[y].conn
    BY <1>2, <2>1, <2>2
  <2> QED
    BY <1>2, <2>3 DEF OnAsBefore
<1> QED
  BY <1>3, <1>4

\* A setup without sessions changes nothing.
LEMMA EmptySetup ==
  ASSUME DbOK, NEW g \in Games, Setup(g), Head(toDb[g]).logins = {}
  PROVE  UNCHANGED <<ld, byKey, byLogin, logon>>
<1> DEFINE L   == Head(toDb[g]).logins
           new == CHOOSE f \in [L -> Unused] : IsInjective(f)
<1>1. L = {}
  OBVIOUS
<1>2. new \in [L -> Unused]
  BY DEF Setup
<1>3. Range(new) = {}
  BY <1>1, <1>2 DEF Range
<1> HIDE DEF new
<1>4. byKey' = byKey
  <2>1. byKey' = [k \in DOMAIN byKey \cup {e.key : e \in L} |->
                    IF k \in DOMAIN byKey THEN byKey[k] ELSE new[CHOOSE e \in L : e.key = k]]
    BY DEF Setup, new
  <2>2. {e.key : e \in L} = {}
    BY <1>1
  <2> QED
    BY <2>1, <2>2 DEF DbOK
<1> DEFINE of(y) == CHOOSE e \in L : new[e] = y
           won   == {e.acct : e \in L} \ DOMAIN logon
           G(x, F) == LET o == IF x \notin Range(new) THEN ld[x]
                               ELSE [LoginData(of(x).acct, of(x).key) EXCEPT
                                       !.play = of(x) \in F /\ of(x).acct \in won]
                      IN IF x \in {byLogin'[a] : a \in won} THEN [o EXCEPT !.conn = g] ELSE o
<1>5. PICK F \in SUBSET L :
        /\ byLogin' = [a \in DOMAIN byLogin \cup {e.acct : e \in L} |->
                         IF a \in DOMAIN byLogin THEN byLogin[a]
                         ELSE new[CHOOSE e \in F : e.acct = a]]
        /\ logon' = [a \in DOMAIN logon \cup {e.acct : e \in L} |->
                       IF a \in DOMAIN logon THEN logon[a] ELSE byLogin'[a]]
        /\ ld' = [x \in DOMAIN ld \cup Range(new) |-> G(x, F)]
  BY DEF Setup, new
<1>6. {e.acct : e \in L} = {}
  BY <1>1
<1>7. byLogin' = byLogin /\ logon' = logon
  BY <1>5, <1>6 DEF DbOK
<1>8. ld' = ld
  <2>1. won = {}
    BY <1>6
  <2>2. \A x \in DOMAIN ld : G(x, F) = ld[x]
    BY <1>3, <2>1
  <2> HIDE DEF G
  <2>3. ld' = [x \in DOMAIN ld |-> ld[x]]
    BY <1>3, <1>5, <2>2
  <2> QED
    BY <2>3 DEF DbOK
<1> QED
  BY <1>4, <1>7, <1>8

-----------------------------------------------------------------------------
(* Messages that are no login, success or logout.                             *)

LEMMA LikeItself == \A q, d : GamesLike(q, q, d)
BY DEF GamesLike

LEMMA NetQuiet ==
  ASSUME UNCHANGED <<sql, toDb, toGame>>
  PROVE  (\A d : LoginsQuiet(d)) /\ (\A a : UsesQuiet(a))
BY SameStays, LikeItself DEF LoginsQuiet, UsesQuiet, Same

LEMMA SentQuiet ==
  ASSUME TypeOK, Lines, NEW g \in Games, NEW m, Send(g, m), m.op \notin {"login", "logout", "setup"},
         UNCHANGED <<sql, up, toGame>>
  PROVE  Lines' /\ (\A d : LoginsQuiet(d)) /\ (\A a : UsesQuiet(a))
<1>1. \A h \in Games : \A M : m \notin M => Same(toDb[h], toDb'[h], M)
  BY Sent DEF TypeOK
<1>2. \A h \in Games \ up : toDb'[h] = toDb[h]
  BY Sent DEF TypeOK
<1>3. \A h \in Games : \A M : m \notin M => Shrinks(toDb[h], toDb'[h], M)
  BY <1>1 DEF Same
<1>4. Lines'
  BY <1>2, <1>3, NoReunion, LinesKept DEF Lines
<1>5. ASSUME NEW d PROVE LoginsQuiet(d)
  BY <1>3, Kinds, SameStays, LikeItself DEF LoginsQuiet, Same
<1>6. ASSUME NEW a PROVE UsesQuiet(a)
  BY <1>1, Kinds, SameStays DEF UsesQuiet
<1> QED
  BY <1>4, <1>5, <1>6

LEMMA TookQuiet ==
  ASSUME TypeOK, Lines, NEW g \in Games, NEW op, op # "logout", Take(g, op),
         UNCHANGED <<sql, up, toGame>>
  PROVE  Lines' /\ (\A d : LoginsQuiet(d)) /\ (\A a : UsesQuiet(a))
<1> DEFINE m == Head(toDb[g])
<1>1. /\ m.op = op /\ g \in up
      /\ \A h \in Games : h # g => toDb'[h] = toDb[h]
      /\ \A h \in Games : \A M : /\ Shrinks(toDb[h], toDb'[h], M)
                                 /\ m \notin M => Same(toDb[h], toDb'[h], M)
  BY Took, ReadsUp DEF TypeOK
<1> HIDE DEF m
<1>4. Lines'
  BY <1>1, LinesKept DEF Lines
<1>5. ASSUME NEW d PROVE LoginsQuiet(d)
  BY <1>1, SameStays, LikeItself DEF LoginsQuiet, Same
<1>6. ASSUME NEW a PROVE UsesQuiet(a)
  BY <1>1, Kinds, SameStays DEF UsesQuiet
<1> QED
  BY <1>4, <1>5, <1>6

LEMMA AnsweredQuiet ==
  ASSUME TypeOK, Lines, NEW g \in Games, NEW op, op # "success", Answer(g, op),
         UNCHANGED <<sql, up, toDb>>
  PROVE  Lines' /\ (\A d : LoginsQuiet(d)) /\ (\A a : UsesQuiet(a))
<1> DEFINE m == Head(toGame[g])
<1>1. /\ m.op = op /\ g \in up
      /\ \A h \in Games : h # g => toGame'[h] = toGame[h]
      /\ \A h \in Games : \A M : /\ Shrinks(toGame[h], toGame'[h], M)
                                 /\ m \notin M => Same(toGame[h], toGame'[h], M)
  BY Answered, ReadsUp DEF TypeOK
<1> HIDE DEF m
<1>4. Lines'
  BY <1>1, LinesKept, SameStays DEF Lines, Same
<1>5. ASSUME NEW d PROVE LoginsQuiet(d)
  BY <1>1, SameStays, LikeItself DEF LoginsQuiet, Same
<1>6. ASSUME NEW a PROVE UsesQuiet(a)
  BY <1>1, Kinds, SameStays DEF UsesQuiet
<1> QED
  BY <1>4, <1>5, <1>6

-----------------------------------------------------------------------------
(* The quiet steps of the db.                                                 *)

LEMMA AuthLoginOrderly ==
  ASSUME TypeOK, PointersAlive, Orderly, NEW a \in Accounts, NEW k \in Keys, AuthLogin(a, k)
  PROVE  Orderly' /\ \A b \in Accounts : Traced(b) => Traced(b)'
<1>1. UNCHANGED <<sql, up, toDb, toGame, desc, named>>
  BY DEF AuthLogin, net, game
<1>2. Lines'
  BY <1>1 DEF Orderly, Lines
<1>3. \A b \in Accounts : OnQuiet(b)
  BY <1>1, AuthLoginOn, OnKept DEF TypeOK, OnAsBefore
<1> QED
  BY <1>1, <1>2, <1>3, NetQuiet, DescsQuiet, QuietStep

\* HEADER_GD_DC, and the setup of a game that has no session.
LEMMA KeysOrderly ==
  ASSUME TypeOK, Orderly, NEW g \in Games, DeleteLoginKey(g) \/ Setup(g)
  PROVE  Orderly' /\ (\A b \in Accounts : Traced(b) => Traced(b)') /\ UNCHANGED <<byLogin, logon>>
<1>1. /\ UNCHANGED <<sql, up, toGame, desc, named>>
      /\ \E op \in {"dc", "setup"} : Take(g, op)
  BY DEF DeleteLoginKey, Setup, game
<1>2. UNCHANGED <<ld, byLogin, logon>>
  <2>1. CASE DeleteLoginKey(g)
    BY <2>1 DEF DeleteLoginKey
  <2>2. CASE Setup(g)
    <3> DEFINE m == Head(toDb[g])
    <3>1. m \in Asks /\ m.op = "setup" /\ toDb[g] # << >> /\ toDb[g] \in Seq(Asks)
      BY <2>2, TakeType, ZenonT(40) DEF Setup, Take, TypeOK, NetOK
    <3>2. m.logins \in SUBSET [acct : Accounts, key : AnyKey] /\ m = [op |-> "setup", logins |-> m.logins]
      BY <3>1 DEF Asks
    <3>3. m \notin Reunion
      <4>1. m = toDb[g][1] /\ 1 \in 1 .. Len(toDb[g])
        BY <3>1
      <4> QED
        BY <4>1 DEF Orderly, Lines, Holds
    <3>4. m.logins = {}
      BY <3>2, <3>3 DEF Reunion
    <3> QED
      BY <2>2, <3>4, EmptySetup DEF TypeOK
  <2> QED
    BY <2>1, <2>2
<1>3. \A b \in Accounts : OnQuiet(b)
  BY <1>1, <1>2, OnKept
<1>4. Lines' /\ (\A d : LoginsQuiet(d)) /\ (\A b : UsesQuiet(b))
  BY <1>1, TookQuiet DEF Orderly
<1> QED
  BY <1>1, <1>2, <1>3, <1>4, DescsQuiet, QuietStep

\* The load of a player is answered at once or asked for.
LEMMA SetPlayReply ==
  ASSUME NEW m, NEW g, SetPlay(m, g)
  PROVE  \E op \in {"loaded", "loadfailed"} : Reply(g, op, m)
BY DEF SetPlay

\* An answer that is no verdict on a login.
LEMMA RepliedQuiet ==
  ASSUME TypeOK, NEW g \in Games, NEW op, op \notin {"success", "already", "notexist"},
         NEW m, Reply(g, op, m)
  PROVE  /\ \A h \in Games : h # g => toGame'[h] = toGame[h]
         /\ \A d : \A h \in Games : Shrinks(toGame[h], toGame'[h], Verdict(d))
         /\ \A a : \A h \in Games : Same(toGame[h], toGame'[h], Welcome(a))
<1> DEFINE t == [op |-> op, desc |-> m.desc, acct |-> m.acct]
<1>1. /\ \A h \in Games : \A M : t \notin M \/ h # g => Same(toGame[h], toGame'[h], M)
      /\ \A h \in Games : h # g => toGame'[h] = toGame[h]
  BY Replied DEF TypeOK
<1>2. t.op = op
  OBVIOUS
<1> HIDE DEF t
<1>3. (\A d : t \notin Verdict(d)) /\ (\A a : t \notin Welcome(a))
  BY <1>2, Kinds
<1> QED
  BY <1>1, <1>3 DEF Same

LEMMA PlayerLoadOrderly ==
  ASSUME TypeOK, Orderly, NEW g \in Games, PlayerLoad(g)
  PROVE  Orderly' /\ (\A b \in Accounts : Traced(b) => Traced(b)') /\ UNCHANGED <<byLogin, logon>>
<1> DEFINE m == Head(toDb[g])
           x == Query("player", m, g)
<1>1. /\ UNCHANGED <<byLogin, logon, up, desc, named>> /\ Take(g, "load")
      /\ \/ SetPlay(m, g) /\ UNCHANGED sql
         \/ sql' = Append(sql, x) /\ UNCHANGED <<ld, toGame>>
  BY DEF PlayerLoad, game
<1>2. /\ m.op = "load" /\ g \in up /\ m \in Asks
      /\ \A h \in Games : h # g => toDb'[h] = toDb[h]
      /\ \A h \in Games : \A M : /\ Shrinks(toDb[h], toDb'[h], M)
                                 /\ m \notin M => Same(toDb[h], toDb'[h], M)
  BY <1>1, Took, ReadsUp DEF TypeOK, Orderly
<1>3. /\ \A b \in Accounts : OnQuiet(b)
      /\ \A h \in Games : h # g => toGame'[h] = toGame[h]
      /\ \A d : \A h \in Games : Shrinks(toGame[h], toGame'[h], Verdict(d))
      /\ \A a : \A h \in Games : Same(toGame[h], toGame'[h], Welcome(a))
  <2>1. CASE SetPlay(m, g)
    <3>1. \A b \in Accounts : OnQuiet(b)
      BY <1>1, <2>1, SetPlayOn, OnKept DEF TypeOK, OnAsBefore
    <3> HIDE DEF m
    <3> QED
      BY <2>1, <3>1, SetPlayReply, RepliedQuiet
  <2>2. CASE UNCHANGED <<ld, toGame>>
    <3>1. \A b \in Accounts : OnQuiet(b)
      BY <1>1, <2>2, OnKept
    <3> QED
      BY <2>2, <3>1, SameStays DEF Same
  <2> QED
    BY <1>1, <2>1, <2>2
<1>4. /\ \A d : Shrinks(sql, sql', Lookup(d)) /\ GamesLike(sql, sql', d)
      /\ \A i \in 1 .. Len(sql') : sql'[i].game \in up \cup {None}
  <2>1. CASE sql' = sql
    BY <2>1, SameStays, LikeItself DEF Orderly, Lines, Same
  <2>2. CASE sql' = Append(sql, x)
    <3>1. x.op = "player" /\ x.game = g /\ sql \in Seq(Queries)
      BY DEF Query, TypeOK, NetOK
    <3>2. \A d : x \notin Lookup(d)
      BY <3>1, Kinds
    <3>3. \A i \in 1 .. Len(sql) : sql[i].game \in up \cup {None}
      BY DEF Orderly, Lines
    <3> HIDE DEF x
    <3> QED
      BY <1>2, <2>2, <3>1, <3>2, <3>3, AppendHolds, AppendGames, MoreQueries DEF Same
  <2> QED
    BY <1>1, <2>1, <2>2
<1> HIDE DEF m
<1>5. Lines'
  BY <1>1, <1>2, <1>3, <1>4, LinesKept DEF Orderly
<1>6. \A d : LoginsQuiet(d)
  BY <1>2, <1>3, <1>4 DEF LoginsQuiet
<1>7. \A a : UsesQuiet(a)
  <2>1. \A a : m \notin Farewell(a)
    BY <1>2, Kinds
  <2> QED
    BY <1>2, <1>3, <2>1 DEF UsesQuiet
<1> QED
  BY <1>1, <1>3, <1>5, <1>6, <1>7, DescsQuiet, QuietStep

-----------------------------------------------------------------------------
(* A login goes on: from the request to the query, to the verdict.            *)

\* A request of d has become a query: nothing else is under way for d but what
\* was, and a client that does not ask again waits in the sql queue only.
LEMMA OnlyLookup ==
  ASSUME NEW d \in Descs, Client(d), desc'[d] = desc[d], Waiting(d),
         \A i \in 1 .. Len(sql') : sql'[i] \in Lookup(d) /\ desc[d].st # "free"
                                     => sql'[i].game \in {desc[d].game, None},
         \A h \in Games : /\ Holds(toDb'[h], Request(d)) => Holds(toDb[h], Request(d))
                          /\ Holds(toGame'[h], Verdict(d)) => Holds(toGame[h], Verdict(d)),
         AsksOnce /\ desc[d].st # "free" =>
           /\ Once(sql', Lookup(d))
           /\ \A h \in Games : ~Holds(toDb'[h], Request(d)) /\ ~Holds(toGame'[h], Verdict(d))
  PROVE  Client(d)'
<1> SUFFICES ASSUME desc[d].st # "free" PROVE OneLogin(d)'
  BY DEF Client
<1>1. desc[d].game \in Games /\ (AsksOnce => desc[d].acct = None /\ desc[d].st # "open")
  BY DEF Client, OneLogin
<1>2. AsksOnce => \A h \in Games : Once(toDb'[h], Request(d)) /\ Once(toGame'[h], Verdict(d))
  BY DEF Once, Holds
<1>3. \A h \in Games : Holds(toDb'[h], Request(d)) \/ Holds(toGame'[h], Verdict(d)) => h = desc[d].game
  BY DEF Client, OneLogin
<1> QED
  BY <1>1, <1>2, <1>3 DEF OneLogin

\* The same of an answer: a client that does not ask again waits for it only.
LEMMA OnlyVerdict ==
  ASSUME NEW d \in Descs, Client(d), desc'[d] = desc[d], Waiting(d), NEW g \in Games,
         desc[d].st # "free" => desc[d].game = g, GamesLike(sql, sql', d),
         \A h \in Games : /\ Holds(toDb'[h], Request(d)) => Holds(toDb[h], Request(d))
                          /\ h # g /\ Holds(toGame'[h], Verdict(d)) => Holds(toGame[h], Verdict(d)),
         AsksOnce /\ desc[d].st # "free" =>
           /\ Once(toGame'[g], Verdict(d)) /\ ~Holds(sql', Lookup(d))
           /\ \A h \in Games : ~Holds(toDb'[h], Request(d)) /\ (h # g => ~Holds(toGame'[h], Verdict(d)))
  PROVE  Client(d)'
<1> SUFFICES ASSUME desc[d].st # "free" PROVE OneLogin(d)'
  BY DEF Client
<1>1. desc[d].game \in Games /\ (AsksOnce => desc[d].acct = None /\ desc[d].st # "open")
  BY DEF Client, OneLogin
<1>2. AsksOnce => \A h \in Games : Once(toDb'[h], Request(d)) /\ Once(toGame'[h], Verdict(d))
  BY DEF Once, Holds
<1>3. AsksOnce => Once(sql', Lookup(d))
  BY DEF Once, Holds
<1>4. \A h \in Games : Holds(toDb'[h], Request(d)) \/ Holds(toGame'[h], Verdict(d)) => h = desc[d].game
  BY DEF Client, OneLogin
<1>5. \A i \in 1 .. Len(sql') : sql'[i] \in Lookup(d) => sql'[i].game \in {desc[d].game, None}
  BY DEF Client, OneLogin, GamesLike
<1> QED
  BY <1>1, <1>2, <1>3, <1>4, <1>5 DEF OneLogin

\* What a client that waits for its request has: nothing else, if it does not
\* ask again.
LEMMA RequestAlone ==
  ASSUME NEW d \in Descs, Client(d), desc[d].st # "free", NEW g \in Games, Holds(toDb[g], Request(d))
  PROVE  /\ Waiting(d) /\ g = desc[d].game
         /\ AsksOnce => ~Holds(sql, Lookup(d)) /\ Once(toDb[g], Request(d))
         /\ AsksOnce => \A h \in Games : /\ ~Holds(toGame[h], Verdict(d))
                                         /\ h # g => ~Holds(toDb[h], Request(d))
BY DEF Client, OneLogin, Waiting

LEMMA LookupAlone ==
  ASSUME NEW d \in Descs, Client(d), desc[d].st # "free", Holds(sql, Lookup(d))
  PROVE  /\ Waiting(d)
         /\ AsksOnce => Once(sql, Lookup(d))
         /\ AsksOnce => \A h \in Games : ~Holds(toGame[h], Verdict(d)) /\ ~Holds(toDb[h], Request(d))
BY DEF Client, OneLogin, Waiting

LEMMA VerdictAlone ==
  ASSUME NEW d \in Descs, Client(d), desc[d].st # "free", NEW g \in Games, Holds(toGame[g], Verdict(d))
  PROVE  /\ Waiting(d) /\ g = desc[d].game
         /\ AsksOnce => ~Holds(sql, Lookup(d)) /\ Once(toGame[g], Verdict(d))
         /\ AsksOnce => \A h \in Games : /\ ~Holds(toDb[h], Request(d))
                                         /\ h # g => ~Holds(toGame[h], Verdict(d))
BY DEF Client, OneLogin, Waiting

\* An answer to m is heard by nobody but its client.
LEMMA RepliedTo ==
  ASSUME TypeOK, NEW g \in Games, NEW op, NEW m, Reply(g, op, m)
  PROVE  /\ \A h \in Games : h # g => toGame'[h] = toGame[h]
         /\ \A d : d # m.desc => \A h \in Games : Shrinks(toGame[h], toGame'[h], Verdict(d))
         /\ \A a : op # "success" \/ a # m.acct => \A h \in Games : Same(toGame[h], toGame'[h], Welcome(a))
         /\ \A d : ~Holds(toGame[g], Verdict(d)) => Once(toGame'[g], Verdict(d))
<1> DEFINE t == [op |-> op, desc |-> m.desc, acct |-> m.acct]
<1>1. /\ \A h \in Games : \A M : t \notin M \/ h # g => Same(toGame[h], toGame'[h], M)
      /\ \A h \in Games : h # g => toGame'[h] = toGame[h]
      /\ toGame'[g] = Append(toGame[g], t)
  BY Replied DEF TypeOK
<1>2. t.op = op /\ t.desc = m.desc /\ t.acct = m.acct
  OBVIOUS
<1> HIDE DEF t
<1>3. (\A d : d # m.desc => t \notin Verdict(d)) /\ (\A a : op # "success" \/ a # m.acct => t \notin Welcome(a))
  BY <1>2, Kinds
<1>4. \A d : ~Holds(toGame[g], Verdict(d)) => Once(toGame'[g], Verdict(d))
  <2>1. toGame[g] \in Seq(Tells)
    BY DEF TypeOK, NetOK
  <2> QED
    BY <1>1, <2>1, AppendHolds
<1> QED
  BY <1>1, <1>3, <1>4 DEF Same

\* QUERY_LOGIN_BY_KEY.
LEMMA LoginByKeyOrderly ==
  ASSUME TypeOK, Orderly, NEW g \in Games, LoginByKey(g)
  PROVE  Orderly' /\ (\A b \in Accounts : Traced(b) => Traced(b)') /\ UNCHANGED <<byLogin, logon>>
<1> DEFINE m == Head(toDb[g])
           x == Query("index", m, g)
<1>1. /\ UNCHANGED <<ld, byLogin, logon, up, desc, named>> /\ Take(g, "login")
      /\ \/ (\E op \in {"notexist", "already"} : Reply(g, op, m)) /\ UNCHANGED sql
         \/ sql' = Append(sql, x) /\ UNCHANGED toGame
  BY DEF LoginByKey, game, db
<1>2. /\ m.op = "login" /\ g \in up /\ m \in Asks
      /\ \A h \in Games : h # g => toDb'[h] = toDb[h]
      /\ \A h \in Games : \A M : /\ Shrinks(toDb[h], toDb'[h], M)
                                 /\ m \notin M => Same(toDb[h], toDb'[h], M)
      /\ \A M : m \in M => Holds(toDb[g], M) /\ (Once(toDb[g], M) => ~Holds(toDb'[g], M))
  BY <1>1, Took, ReadsUp DEF TypeOK, Orderly
<1>3. PICK d \in Descs : d = m.desc /\ m \in Request(d)
  BY <1>2, AsksTypes, Members
<1>4. /\ x.op = "index" /\ x.game = g /\ x.desc = d /\ sql \in Seq(Queries)
      /\ \A i \in 1 .. Len(sql) : sql[i].game \in up \cup {None}
  BY <1>3 DEF Query, TypeOK, NetOK, Orderly, Lines
<1> HIDE DEF m, x
<1>5. \A i \in 1 .. Len(sql') : sql'[i].game \in up \cup {None}
  BY <1>1, <1>2, <1>4, MoreQueries
<1>6. \A h \in Games : h # g => toGame'[h] = toGame[h]
  BY <1>1, RepliedTo
<1>7. Lines'
  BY <1>1, <1>2, <1>5, <1>6, LinesKept DEF Orderly
<1>8. ASSUME NEW e \in Descs, e # d PROVE Client(e)'
  <2>1. \A h \in Games : Shrinks(toGame[h], toGame'[h], Verdict(e))
    BY <1>1, <1>3, <1>8, RepliedTo, SameStays DEF Same
  <2>2. Shrinks(sql, sql', Lookup(e)) /\ GamesLike(sql, sql', e)
    <3>1. x \notin Lookup(e)
      BY <1>4, <1>8, Kinds
    <3>2. CASE sql' = sql
      BY <3>2, SameStays, LikeItself DEF Same
    <3>3. CASE sql' = Append(sql, x)
      BY <1>4, <3>1, <3>3, AppendHolds, AppendGames DEF Same
    <3> QED
      BY <1>1, <3>2, <3>3
  <2>3. LoginsQuiet(e)
    BY <1>2, <2>1, <2>2 DEF LoginsQuiet
  <2> QED
    BY <1>1, <2>3, DescsQuiet, ClientKept DEF Orderly, ClientQuiet
<1>9. Client(d)'
  <2>1. Client(d) /\ Holds(toDb[g], Request(d)) /\ Waiting(d) /\ desc'[d] = desc[d]
    BY <1>1, <1>2, <1>3 DEF Orderly, Waiting
  <2>2. ASSUME desc[d].st # "free"
        PROVE  /\ g = desc[d].game
               /\ AsksOnce => /\ ~Holds(sql, Lookup(d))
                              /\ \A h \in Games : /\ ~Holds(toGame[h], Verdict(d))
                                                  /\ ~Holds(toDb'[h], Request(d))
    BY <1>2, <1>3, <2>1, <2>2, RequestAlone
  <2>3. \A h \in Games : Holds(toDb'[h], Request(d)) => Holds(toDb[h], Request(d))
    BY <1>2 DEF Shrinks
  <2>4. CASE (\E op \in {"notexist", "already"} : Reply(g, op, m)) /\ UNCHANGED sql
    <3>1. \A h \in Games : h # g => toGame'[h] = toGame[h]
      BY <1>6
    <3>2. ~Holds(toGame[g], Verdict(d)) => Once(toGame'[g], Verdict(d))
      BY <2>4, RepliedTo
    <3>3. AsksOnce /\ desc[d].st # "free" =>
            /\ Once(toGame'[g], Verdict(d)) /\ ~Holds(sql', Lookup(d))
            /\ \A h \in Games : ~Holds(toDb'[h], Request(d)) /\ (h # g => ~Holds(toGame'[h], Verdict(d)))
      BY <2>2, <2>4, <3>1, <3>2
    <3>4. GamesLike(sql, sql', d)
      BY <2>4, LikeItself
    <3> QED
      BY <2>1, <2>2, <2>3, <3>1, <3>3, <3>4, OnlyVerdict
  <2>5. CASE sql' = Append(sql, x) /\ UNCHANGED toGame
    <3>1. AsksOnce /\ desc[d].st # "free" => Once(sql', Lookup(d))
      BY <1>4, <2>2, <2>5, AppendHolds
    <3>2. ASSUME desc[d].st # "free", NEW i \in 1 .. Len(sql'), sql'[i] \in Lookup(d)
          PROVE  sql'[i].game \in {desc[d].game, None}
      <4>1. (i \in 1 .. Len(sql) /\ sql'[i] = sql[i]) \/ sql'[i] = x
        BY <1>4, <2>5, <3>2
      <4>2. i \in 1 .. Len(sql) /\ sql'[i] = sql[i] => sql'[i].game \in {desc[d].game, None}
        BY <2>1, <3>2 DEF Client, OneLogin
      <4> QED
        BY <1>4, <2>2, <3>2, <4>1, <4>2
    <3>3. AsksOnce /\ desc[d].st # "free" =>
            \A h \in Games : ~Holds(toDb'[h], Request(d)) /\ ~Holds(toGame'[h], Verdict(d))
      BY <2>2, <2>5
    <3> QED
      BY <2>1, <2>3, <2>5, <3>1, <3>2, <3>3, OnlyLookup
  <2> QED
    BY <1>1, <2>4, <2>5
<1>10. ASSUME NEW a \in Accounts PROVE OneUse(a)' /\ (Traced(a) => Traced(a)')
  <2>1. m \notin Farewell(a)
    BY <1>2, Kinds
  <2>2. \A h \in Games : Same(toGame[h], toGame'[h], Welcome(a))
    BY <1>1, RepliedTo, SameStays
  <2>3. UsesQuiet(a)
    BY <1>2, <2>1, <2>2 DEF UsesQuiet
  <2> QED
    BY <1>1, <2>3, OnKept, UseKept DEF Orderly, UseQuiet, BoundQuiet
<1> QED
  BY <1>1, <1>7, <1>8, <1>9, <1>10 DEF Orderly

\* An account that is logged in on g: the db notes the connection.
LEMMA LogonOn ==
  ASSUME DbOK, PointersAlive, NEW a \in Accounts, NEW g \in Games, MayLogon(a),
         ld' = [ld EXCEPT ![byLogin[a]] = [@ EXCEPT !.conn = g]],
         logon' = With(logon, a, byLogin[a]), up' = up
  PROVE  /\ \A b \in Accounts : b # a => OnQuiet(b)
         /\ g \in up => LoggedOnAt(a, g)' /\ DOMAIN logon' = DOMAIN logon \cup {a}
<1>1. /\ a \notin DOMAIN logon /\ a \in DOMAIN byLogin /\ byLogin[a] \in DOMAIN ld
      /\ ld[byLogin[a]].acct = a /\ \A b \in DOMAIN logon : logon[b] \in DOMAIN ld /\ ld[logon[b]].acct = b
  BY Entries DEF MayLogon
<1>2. /\ DOMAIN logon' = DOMAIN logon \cup {a} /\ logon'[a] = byLogin[a]
      /\ \A b \in DOMAIN logon : b # a => logon'[b] = logon[b]
  BY DEF With
<1>3. ld'[byLogin[a]].conn = g /\ \A x \in DOMAIN ld : x # byLogin[a] => ld'[x] = ld[x]
  <2>1. ld[byLogin[a]] \in Objects
    BY <1>1 DEF DbOK
  <2>2. [ld[byLogin[a]] EXCEPT !.conn = g].conn = g
    BY <2>1 DEF Objects
  <2>3. ld'[byLogin[a]] = [ld[byLogin[a]] EXCEPT !.conn = g]
    BY <1>1
  <2> QED
    BY <1>1, <2>2, <2>3
<1>4. \A b \in DOMAIN logon : logon'[b] = logon[b] /\ ld'[logon[b]] = ld[logon[b]]
  BY <1>1, <1>2, <1>3
<1>5. ASSUME NEW b \in Accounts, b # a PROVE OnQuiet(b)
  BY <1>2, <1>4, <1>5 DEF OnQuiet, LoggedOnAt
<1>6. ASSUME g \in up PROVE LoggedOnAt(a, g)'
  BY <1>2, <1>3, <1>6 DEF LoggedOnAt
<1> QED
  BY <1>2, <1>5, <1>6

\* Answers of the SQL thread that decide nothing about a login.
LEMMA ResultQuiet ==
  ASSUME TypeOK, Orderly, Result, NEW r \in Queries, r = Head(sql), r.game # None => r.op # "players"
  PROVE  Orderly' /\ (\A b \in Accounts : Traced(b) => Traced(b)') /\ logon' = logon
<1> DEFINE x == [r EXCEPT !.op = "players"]
<1>1. /\ UNCHANGED <<byLogin, up, toDb, desc, named>> /\ sql # << >>
      /\ \/ sql' = Tail(sql) /\ UNCHANGED <<ld, logon, toGame>>
         \/ r.game # None /\ r.op = "index" /\ sql' = Append(Tail(sql), x) /\ UNCHANGED <<ld, logon, toGame>>
         \/ r.game # None /\ sql' = Tail(sql) /\ SetPlay(r, r.game) /\ UNCHANGED logon
  BY DEF Result, game
<1>2. /\ sql \in Seq(Queries) /\ Tail(sql) \in Seq(Queries)
      /\ r.game \in up \cup {None}
      /\ \A i \in 1 .. Len(Tail(sql)) : Tail(sql)[i].game \in up \cup {None}
  BY <1>1, TailQueries DEF TypeOK, NetOK, Orderly
<1>3. r.op = "index" => x \in Queries /\ x.desc = r.desc /\ x.game = r.game
  BY DEF Queries
<1> HIDE DEF x
<1>4. \A i \in 1 .. Len(sql') : sql'[i].game \in up \cup {None}
  BY <1>1, <1>2, <1>3, MoreQueries
<1>5. /\ \A b \in Accounts : OnQuiet(b)
      /\ \A h \in Games \ up : toGame'[h] = toGame[h]
      /\ \A d : \A h \in Games : Shrinks(toGame[h], toGame'[h], Verdict(d))
      /\ \A a : \A h \in Games : Same(toGame[h], toGame'[h], Welcome(a))
  <2>1. CASE r.game # None /\ SetPlay(r, r.game) /\ UNCHANGED logon
    <3>1. \A b \in Accounts : OnQuiet(b)
      BY <1>1, <2>1, SetPlayOn, OnKept DEF TypeOK, OnAsBefore
    <3>2. PICK g \in Games : g = r.game /\ g \in up
      BY <1>2, <2>1 DEF TypeOK, NetOK
    <3> QED
      BY <2>1, <3>1, <3>2, SetPlayReply, RepliedQuiet
  <2>2. CASE UNCHANGED <<ld, logon, toGame>>
    <3>1. \A b \in Accounts : OnQuiet(b)
      BY <1>1, <2>2, OnKept
    <3> QED
      BY <2>2, <3>1, SameStays DEF Same
  <2> QED
    BY <1>1, <2>1, <2>2
<1>6. ASSUME NEW d \in Descs PROVE Shrinks(sql, sql', Lookup(d)) /\ GamesLike(sql, sql', d)
  <2>1. /\ Shrinks(sql, Tail(sql), Lookup(d)) /\ GamesLike(sql, Tail(sql), d)
        /\ r \in Lookup(d) => /\ Holds(sql, Lookup(d))
                              /\ Once(sql, Lookup(d)) => ~Holds(Tail(sql), Lookup(d))
    BY <1>1, <1>2, TailHolds, TailGames
  <2>2. CASE sql' = Tail(sql)
    BY <2>1, <2>2
  <2>3. CASE r.game # None /\ r.op = "index" /\ sql' = Append(Tail(sql), x) /\ r \notin Lookup(d)
    <3>1. r.desc # d
      BY <2>3, Members
    <3>2. x \notin Lookup(d)
      BY <1>3, <2>3, <3>1, Kinds
    <3>3. /\ Same(Tail(sql), Append(Tail(sql), x), Lookup(d))
          /\ GamesLike(Tail(sql), Append(Tail(sql), x), d)
      BY <1>2, <3>2, AppendHolds, AppendGames
    <3>4. GamesLike(sql, sql', d)
      BY <2>1, <2>3, <3>3 DEF GamesLike
    <3> QED
      BY <2>1, <2>3, <3>3, <3>4 DEF Same, Shrinks
  <2>4. CASE r.game # None /\ r.op = "index" /\ sql' = Append(Tail(sql), x) /\ r \in Lookup(d)
    <3>1. Holds(sql, Lookup(d)) /\ (Once(sql, Lookup(d)) => Once(sql', Lookup(d)))
      BY <1>2, <2>1, <2>4, AppendHolds
    <3>2. \A i \in 1 .. Len(sql') : (i \in 1 .. Len(Tail(sql)) /\ sql'[i] = Tail(sql)[i]) \/ sql'[i] = x
      BY <1>2, <2>4
    <3>3. 1 \in 1 .. Len(sql) /\ sql[1] = r
      BY <1>1, <1>2
    <3>4. GamesLike(sql, sql', d)
      BY <1>3, <2>1, <2>4, <3>2, <3>3 DEF GamesLike
    <3> QED
      BY <3>1, <3>4 DEF Shrinks
  <2> QED
    BY <1>1, <2>2, <2>3, <2>4
<1>7. \A h \in Games : \A M : Same(toDb[h], toDb'[h], M)
  BY <1>1, SameStays
<1>8. Lines'
  BY <1>1, <1>4, <1>5, <1>7, LinesKept DEF Orderly, Same
<1>9. \A d \in Descs : LoginsQuiet(d)
  BY <1>5, <1>6, <1>7 DEF LoginsQuiet, Same
<1>10. \A a : UsesQuiet(a)
  BY <1>5, <1>7 DEF UsesQuiet
<1> QED
  BY <1>1, <1>5, <1>8, <1>9, <1>10, DescsQuiet, QuietStep

\* RESULT_LOGIN: the account is free and is logged in, or it is in use.
LEMMA ResultVerdict ==
  ASSUME TypeOK, PointersAlive, Orderly, Result, NEW r \in Queries, r = Head(sql),
         r.game # None, r.op = "players"
  PROVE  /\ Orderly' /\ (\A b \in Accounts : Traced(b) => Traced(b)')
         /\ DOMAIN logon' \subseteq DOMAIN logon \cup DOMAIN byLogin
<1>0. PICK a \in Accounts, d \in Descs : a = r.acct /\ d = r.desc
  BY DEF Queries
<1>1. /\ UNCHANGED <<byKey, byLogin, up, toDb, desc, named>> /\ sql # << >> /\ sql' = Tail(sql)
      /\ \/ /\ MayLogon(a) /\ Reply(r.game, "success", r)
            /\ ld' = [ld EXCEPT ![byLogin[a]] = [@ EXCEPT !.conn = r.game]]
            /\ logon' = With(logon, a, byLogin[a])
         \/ ~MayLogon(a) /\ Reply(r.game, "already", r) /\ UNCHANGED <<ld, logon>>
  BY <1>0 DEF Result, game
<1>2. /\ sql \in Seq(Queries) /\ r.game \in up \cup {None}
      /\ \A i \in 1 .. Len(sql') : sql'[i].game \in up \cup {None}
  BY <1>1, TailQueries DEF TypeOK, NetOK, Orderly
<1>3. PICK g \in Games : g = r.game /\ g \in up
  BY <1>2 DEF TypeOK, NetOK
<1>4. PICK op \in {"success", "already"} : Reply(g, op, r) /\ (op = "success" <=> MayLogon(a))
  BY <1>1, <1>3
<1>5. /\ \A h \in Games : h # g => toGame'[h] = toGame[h]
      /\ \A e : e # d => \A h \in Games : Shrinks(toGame[h], toGame'[h], Verdict(e))
      /\ \A b : op # "success" \/ b # a => \A h \in Games : Same(toGame[h], toGame'[h], Welcome(b))
      /\ ~Holds(toGame[g], Verdict(d)) => Once(toGame'[g], Verdict(d))
  BY <1>0, <1>4, RepliedTo
<1>6. \A h \in Games : \A M : Same(toDb[h], toDb'[h], M)
  BY <1>1, SameStays
<1>7. Lines'
  BY <1>1, <1>2, <1>3, <1>5, <1>6, LinesKept DEF Orderly, Same
<1>8. \A e \in Descs : /\ Shrinks(sql, sql', Lookup(e)) /\ GamesLike(sql, sql', e)
  BY <1>1, <1>2, TailHolds, TailGames
<1>9. ASSUME NEW e \in Descs, e # d PROVE Client(e)'
  <2>1. LoginsQuiet(e)
    BY <1>5, <1>6, <1>8, <1>9 DEF LoginsQuiet, Same
  <2> QED
    BY <1>1, <2>1, DescsQuiet, ClientKept DEF Orderly, ClientQuiet
<1>10. Client(d)'
  <2>1. r \in Lookup(d)
    BY <1>0, Members
  <2>2. Holds(sql, Lookup(d)) /\ (Once(sql, Lookup(d)) => ~Holds(sql', Lookup(d)))
    BY <1>1, <1>2, <2>1, TailHolds
  <2>3. Client(d) /\ desc'[d] = desc[d] /\ Waiting(d)
    BY <1>1, <2>2 DEF Orderly, Waiting
  <2>4. ASSUME desc[d].st # "free"
        PROVE  /\ desc[d].game = g
               /\ AsksOnce =>
                    /\ Once(toGame'[g], Verdict(d)) /\ ~Holds(sql', Lookup(d))
                    /\ \A h \in Games : /\ ~Holds(toDb'[h], Request(d))
                                        /\ h # g => ~Holds(toGame'[h], Verdict(d))
    <3>1. AsksOnce => /\ Once(sql, Lookup(d))
                      /\ \A h \in Games : ~Holds(toGame[h], Verdict(d)) /\ ~Holds(toDb[h], Request(d))
      BY <2>2, <2>3, <2>4, LookupAlone
    <3>2. desc[d].game = g
      <4>1. 1 \in 1 .. Len(sql) /\ sql[1] = r
        BY <1>1, <1>2
      <4> QED
        BY <1>3, <2>1, <2>3, <2>4, <4>1 DEF Client, OneLogin
    <3> QED
      BY <1>1, <1>5, <2>2, <3>1, <3>2
  <2>5. \A h \in Games : /\ Holds(toDb'[h], Request(d)) => Holds(toDb[h], Request(d))
                         /\ h # g /\ Holds(toGame'[h], Verdict(d)) => Holds(toGame[h], Verdict(d))
    BY <1>1, <1>5
  <2> QED
    BY <1>8, <2>3, <2>4, <2>5, OnlyVerdict
<1>11. ASSUME NEW b \in Accounts, b # a \/ op = "already" PROVE OneUse(b)' /\ (Traced(b) => Traced(b)')
  <2>1. OnQuiet(b)
    <3>1. CASE op = "already"
      BY <1>1, <1>4, <3>1, OnKept
    <3>2. CASE b # a /\ op = "success"
      BY <1>1, <1>3, <1>4, <3>2, LogonOn DEF TypeOK
    <3> QED
      BY <1>11, <3>1, <3>2
  <2>2. UsesQuiet(b)
    BY <1>5, <1>6, <1>11 DEF UsesQuiet
  <2> QED
    BY <1>1, <2>1, <2>2, UseKept DEF Orderly, UseQuiet, BoundQuiet
<1>12. CASE op = "success"
  <2>1. LoggedOnAt(a, g)' /\ DOMAIN logon' = DOMAIN logon \cup {a} /\ a \notin DOMAIN logon /\ a \in DOMAIN byLogin
    BY <1>1, <1>3, <1>4, <1>12, LogonOn DEF TypeOK, MayLogon
  <2>2. /\ BoundTo(a) = {} /\ \A h \in Games : ~Holds(toGame[h], Welcome(a)) /\ ~Holds(toDb[h], Farewell(a))
    BY <2>1 DEF Orderly, OneUse, LoggedOnAt
  <2>3. BoundTo(a)' = {} /\ \A h \in Games : ~Holds(toDb'[h], Farewell(a))
    BY <1>1, <2>2 DEF BoundTo
  <2>4. /\ \A h \in Games : h # g => ~Holds(toGame'[h], Welcome(a))
        /\ Once(toGame'[g], Welcome(a)) /\ Holds(toGame'[g], Welcome(a))
    <3> DEFINE t == [op |-> "success", desc |-> d, acct |-> a]
    <3>1. toGame'[g] = Append(toGame[g], t) /\ toGame[g] \in Seq(Tells)
      BY <1>0, <1>4, <1>12, Replied DEF TypeOK, NetOK
    <3>2. t \in Welcome(a)
      BY DEF Welcome
    <3> HIDE DEF t
    <3> QED
      BY <1>5, <2>2, <3>1, <3>2, AppendHolds
  <2>5. OneUse(a)'
    BY <2>1, <2>3, <2>4 DEF OneUse, Once, Holds
  <2>6. Traced(a)'
    BY <2>1, <2>4 DEF Traced, UsedAt
  <2> QED
    BY <1>1, <1>7, <1>9, <1>10, <1>11, <2>1, <2>5, <2>6 DEF Orderly
<1>13. CASE op = "already"
  BY <1>1, <1>4, <1>7, <1>9, <1>10, <1>11, <1>13 DEF Orderly
<1> QED
  BY <1>12, <1>13

-----------------------------------------------------------------------------
(* The quiet steps of the games.                                              *)

\* A DESC that changes its phase, and no login or session with it.
LEMMA PhaseQuiet ==
  ASSUME Orderly, NEW d \in Descs, desc[d].st # "free", desc'[d].st \notin {"free", "open", "asked"},
         desc'[d].acct = desc[d].acct, desc'[d].game = desc[d].game
  PROVE  DescQuiet(d)
BY DEF DescQuiet

\* The client asks for its player, goes, or is sent away.
LEMMA PhasesOrderly ==
  ASSUME TypeOK, Orderly, NEW d \in Descs, Select(d) \/ Close(d) \/ KickOver(d)
  PROVE  Orderly' /\ \A b \in Accounts : Traced(b) => Traced(b)'
<1>1. /\ UNCHANGED <<ld, logon, up, named>>
      /\ desc \in [Descs -> Sessions]
      /\ \E st \in {"load", "closing"}, k \in BOOLEAN :
           desc' = [desc EXCEPT ![d] = [st |-> st, game |-> @.game, acct |-> @.acct, key |-> @.key, kicked |-> k]]
      /\ desc[d].st # "free"
  <2>1. desc \in [Descs -> Sessions] /\ (desc[d].kicked => desc[d].st # "free")
    BY DEF TypeOK, GameOK, Orderly, Client
  <2>2. \A s \in Sessions : \A st :
          [s EXCEPT !.st = st] = [st |-> st, game |-> s.game, acct |-> s.acct, key |-> s.key, kicked |-> s.kicked]
          /\ s.kicked \in BOOLEAN
    BY DEF Sessions
  <2>3. desc[d] \in Sessions
    BY <2>1
  <2>4. CASE Select(d)
    BY <2>1, <2>2, <2>3, <2>4 DEF Select, db
  <2>5. CASE Close(d)
    BY <2>1, <2>2, <2>3, <2>5 DEF Close, db, net
  <2>6. CASE KickOver(d)
    BY <2>1, <2>6 DEF KickOver, db, net
  <2> QED
    BY <2>4, <2>5, <2>6
<1>2. \A e \in Descs : /\ desc'[e].acct = desc[e].acct /\ desc'[e].game = desc[e].game
                       /\ DescQuiet(e)
  <2> TAKE e \in Descs
  <2>1. PICK st \in {"load", "closing"}, k \in BOOLEAN :
          desc' = [desc EXCEPT ![d] = [st |-> st, game |-> @.game, acct |-> @.acct, key |-> @.key, kicked |-> k]]
    BY <1>1
  <2>2. CASE e = d
    <3>1. /\ desc'[e].acct = desc[e].acct /\ desc'[e].game = desc[e].game
          /\ desc[e].st # "free" /\ desc'[e].st \notin {"free", "open", "asked"}
      BY <1>1, <2>1, <2>2
    <3> QED
      BY <3>1, PhaseQuiet
  <2>3. CASE e # d
    <3>1. desc'[e] = desc[e]
      BY <1>1, <2>1, <2>3
    <3> QED
      BY <3>1 DEF Orderly, Client, DescQuiet
  <2> QED
    BY <2>2, <2>3
<1>3. Lines' /\ (\A e : LoginsQuiet(e)) /\ (\A b : UsesQuiet(b))
  <2>1. CASE Select(d)
    <3> DEFINE m == [op |-> "load", desc |-> d, acct |-> desc[d].acct, key |-> None]
    <3>1. desc[d].game \in Games
      BY <1>1 DEF Orderly, Client, OneLogin
    <3>2. Send(desc[d].game, m) /\ UNCHANGED <<sql, up, toGame>> /\ m.op = "load"
      BY <2>1 DEF Select
    <3> HIDE DEF m
    <3> QED
      BY <3>1, <3>2, SentQuiet DEF Orderly
  <2>2. CASE Close(d) \/ KickOver(d)
    BY <2>2, NetQuiet DEF Close, KickOver, net, Orderly, Lines
  <2> QED
    BY <2>1, <2>2
<1>4. \A b \in Accounts : OnQuiet(b)
  BY <1>1, OnKept
<1> QED
  BY <1>1, <1>2, <1>3, <1>4, QuietStep

\* The admin command DC.
LEMMA SendDCOrderly ==
  ASSUME TypeOK, Orderly, NEW g \in Games, NEW a \in Accounts, SendDC(g, a)
  PROVE  Orderly' /\ \A b \in Accounts : Traced(b) => Traced(b)'
<1> DEFINE m == [op |-> "dc", desc |-> None, acct |-> a, key |-> None]
<1>1. /\ UNCHANGED <<ld, logon, sql, up, toGame, desc, named>> /\ Send(g, m) /\ m.op = "dc"
  BY DEF SendDC, db
<1> HIDE DEF m
<1>2. Lines' /\ (\A e : LoginsQuiet(e)) /\ (\A b : UsesQuiet(b))
  BY <1>1, SentQuiet DEF Orderly
<1>3. \A b \in Accounts : OnQuiet(b)
  BY <1>1, OnKept
<1> QED
  BY <1>1, <1>2, <1>3, DescsQuiet, QuietStep

\* What DisconnectOfSameLogin and the failure of a login do to a DESC.
LEMMA KickedQuiet ==
  ASSUME TypeOK, Orderly, NEW d \in Descs, desc'[d] = Kicked(desc[d])
  PROVE  desc'[d].acct = desc[d].acct /\ desc'[d].game = desc[d].game /\ DescQuiet(d)
<1>1. desc[d] \in Sessions
  BY DEF TypeOK, GameOK
<1>2. CASE desc[d].st = "free"
  BY <1>2 DEF Kicked, Orderly, Client, DescQuiet
<1>3. CASE desc[d].st # "free"
  <2>1. desc'[d].acct = desc[d].acct /\ desc'[d].game = desc[d].game
        /\ desc'[d].st \in {"play", "closing"}
    BY <1>1, <1>3 DEF Kicked, Sessions
  <2> QED
    BY <1>3, <2>1, PhaseQuiet
<1> QED
  BY <1>2, <1>3

LEMMA FailedQuiet ==
  ASSUME TypeOK, Orderly, NEW d \in Descs, desc'[d] = Failed(desc[d]),
         AsksOnce /\ desc[d].st # "free" => ~Waiting(d)'
  PROVE  desc'[d].acct = desc[d].acct /\ desc'[d].game = desc[d].game /\ DescQuiet(d)
<1>1. desc[d] \in Sessions /\ Client(d)
  BY DEF TypeOK, GameOK, Orderly
<1>2. CASE desc[d].st = "asked"
  <2>1. /\ desc'[d].acct = desc[d].acct /\ desc'[d].game = desc[d].game /\ desc'[d].st = "open"
        /\ desc[d].acct = None
    BY <1>1, <1>2 DEF Failed, Sessions, Client
  <2> QED
    BY <1>2, <2>1 DEF DescQuiet
<1>3. CASE desc[d].st # "asked"
  <2>1. desc'[d] = desc[d]
    BY <1>3 DEF Failed
  <2> QED
    BY <1>1, <2>1 DEF Client, DescQuiet
<1> QED
  BY <1>2, <1>3

\* The verdict that is read is the client's, and the last that it waits for if
\* it does not ask again.
LEMMA VerdictRead ==
  ASSUME TypeOK, Orderly, NEW g \in Games, NEW op \in {"success", "already", "notexist"}, Answer(g, op),
         NEW d \in Descs, d = Head(toGame[g]).desc, desc[d].st # "free", UNCHANGED <<sql, toDb>>
  PROVE  /\ g = desc[d].game
         /\ AsksOnce => ~Waiting(d)' /\ desc[d].acct = None
<1> DEFINE m == Head(toGame[g])
<1>1. /\ m \in Tells /\ m.op = op
      /\ \A h \in Games : h # g => toGame'[h] = toGame[h]
      /\ \A M : m \in M => Holds(toGame[g], M) /\ (Once(toGame[g], M) => ~Holds(toGame'[g], M))
  BY Answered DEF TypeOK
<1>2. m \in Verdict(d)
  BY <1>1, Members
<1>3. Holds(toGame[g], Verdict(d)) /\ Client(d)
  BY <1>1, <1>2 DEF Orderly
<1>4. /\ Waiting(d) /\ g = desc[d].game
      /\ AsksOnce => /\ ~Holds(sql, Lookup(d)) /\ Once(toGame[g], Verdict(d))
                     /\ \A h \in Games : /\ ~Holds(toDb[h], Request(d))
                                         /\ h # g => ~Holds(toGame[h], Verdict(d))
  BY <1>3, VerdictAlone
<1>5. AsksOnce => ~Holds(toGame'[g], Verdict(d))
  BY <1>1, <1>2, <1>4
<1> HIDE DEF m
<1>6. AsksOnce => ~Waiting(d)'
  BY <1>1, <1>4, <1>5 DEF Waiting
<1> QED
  BY <1>3, <1>4, <1>6 DEF Client, OneLogin

\* LOGIN_NOT_EXIST, PLAYER_LOAD and PLAYER_LOAD_FAILED.
LEMMA AnswersOrderly ==
  ASSUME TypeOK, Orderly, NEW g \in Games, LoginFailure(g) \/ CharacterLoaded(g) \/ LoadFailed(g)
  PROVE  Orderly' /\ \A b \in Accounts : Traced(b) => Traced(b)'
<1> DEFINE m == Head(toGame[g])
<1>1. /\ UNCHANGED <<ld, logon, sql, up, toDb, named>> /\ desc \in [Descs -> Sessions]
      /\ \E op \in {"notexist", "loaded", "loadfailed"} : Answer(g, op)
  BY DEF LoginFailure, CharacterLoaded, LoadFailed, db, game, TypeOK, GameOK
<1>2. Lines' /\ (\A e : LoginsQuiet(e)) /\ (\A b : UsesQuiet(b))
  BY <1>1, AnsweredQuiet DEF Orderly
<1>3. \A b \in Accounts : OnQuiet(b)
  BY <1>1, OnKept
<1>4. PICK d \in Descs : d = m.desc
  BY <1>1, Answered DEF Tells, TypeOK
<1>5. \A e \in Descs : desc'[e] = desc[e] =>
        desc'[e].acct = desc[e].acct /\ desc'[e].game = desc[e].game /\ DescQuiet(e)
  BY DEF Orderly, Client, DescQuiet
<1>6. \A e \in Descs : desc'[e].acct = desc[e].acct /\ desc'[e].game = desc[e].game /\ DescQuiet(e)
  <2>1. CASE LoginFailure(g)
    <3>1. /\ desc'[d] = Failed(desc[d]) /\ \A e \in Descs : e # d => desc'[e] = desc[e]
          /\ Answer(g, "notexist")
      BY <1>1, <1>4, <2>1 DEF LoginFailure
    <3>2. AsksOnce /\ desc[d].st # "free" => ~Waiting(d)'
      BY <1>1, <1>4, <3>1, VerdictRead
    <3> HIDE DEF m
    <3> QED
      BY <1>5, <3>1, <3>2, FailedQuiet
  <2>2. CASE CharacterLoaded(g) /\ desc' # desc
    <3>1. PICK st \in {"play", "closing"} : desc[d].st # "free" /\ desc' = [desc EXCEPT ![d] = [@ EXCEPT !.st = st]]
      BY <1>4, <2>2 DEF CharacterLoaded, Free
    <3>2. /\ desc'[d].acct = desc[d].acct /\ desc'[d].game = desc[d].game /\ desc'[d].st = st
          /\ \A e \in Descs : e # d => desc'[e] = desc[e]
      <4>1. desc[d] \in Sessions
        BY <1>1
      <4> QED
        BY <1>1, <3>1, <4>1 DEF Sessions
    <3>3. DescQuiet(d)
      BY <3>1, <3>2, PhaseQuiet
    <3> HIDE DEF m
    <3> QED
      BY <1>5, <3>2, <3>3
  <2>3. CASE desc' = desc
    BY <1>5, <2>3
  <2> QED
    BY <2>1, <2>2, <2>3 DEF LoadFailed, game
<1> QED
  BY <1>1, <1>2, <1>3, <1>6, QuietStep

\* LOGIN_ALREADY: the other session of the account is closed, if it is here.
LEMMA LoginAlreadyOrderly ==
  ASSUME TypeOK, Orderly, NEW g \in Games, LoginAlready(g)
  PROVE  Orderly' /\ \A b \in Accounts : Traced(b) => Traced(b)'
<1> DEFINE m == Head(toGame[g])
           there == m.acct \in DOMAIN named[g]
<1>1. /\ UNCHANGED <<ld, logon, sql, up, toDb, named>> /\ desc \in [Descs -> Sessions]
      /\ Answer(g, "already")
  BY DEF LoginAlready, db, game, TypeOK, GameOK
<1>2. Lines' /\ (\A e : LoginsQuiet(e)) /\ (\A b : UsesQuiet(b))
  BY <1>1, AnsweredQuiet DEF Orderly
<1>3. \A b \in Accounts : OnQuiet(b)
  BY <1>1, OnKept
<1>4. PICK d \in Descs : d = m.desc
  BY <1>1, Answered DEF Tells, TypeOK
<1>5. \A e \in Descs : desc'[e] = desc[e] =>
        desc'[e].acct = desc[e].acct /\ desc'[e].game = desc[e].game /\ DescQuiet(e)
  BY DEF Orderly, Client, DescQuiet
<1>6. \A e \in Descs : desc'[e].acct = desc[e].acct /\ desc'[e].game = desc[e].game /\ DescQuiet(e)
  <2>1. CASE desc' = desc
    BY <1>5, <2>1
  <2>2. CASE desc' # desc
    <3>1. /\ desc[d].st # "free"
          /\ desc' = [e \in Descs |-> IF there /\ e = named[g][m.acct] THEN Kicked(desc[e])
                                      ELSE IF e = m.desc THEN Failed(desc[e]) ELSE desc[e]]
      BY <1>4, <2>2 DEF LoginAlready, Free
    <3>2. \A e \in Descs : \/ desc'[e] = desc[e]
                           \/ e = d /\ desc'[e] = Failed(desc[e])
                           \/ there /\ e = named[g][m.acct] /\ desc'[e] = Kicked(desc[e])
      BY <1>4, <3>1
    <3>3. AsksOnce => ~Waiting(d)'
      BY <1>1, <1>4, <3>1, VerdictRead
    <3> HIDE DEF m, there
    <3> QED
      BY <1>5, <3>2, <3>3, KickedQuiet, FailedQuiet
  <2> QED
    BY <2>1, <2>2
<1> HIDE DEF m, there
<1> QED
  BY <1>1, <1>2, <1>3, <1>6, QuietStep

\* Another game asks for it to be closed.
LEMMA DisconnectOrderly ==
  ASSUME TypeOK, Orderly, NEW g \in Games, NEW a \in Accounts, Disconnect(g, a)
  PROVE  Orderly' /\ \A b \in Accounts : Traced(b) => Traced(b)'
<1>1. /\ UNCHANGED <<ld, logon, sql, up, toDb, toGame, named>> /\ desc \in [Descs -> Sessions]
  BY DEF Disconnect, db, net, TypeOK, GameOK
<1>2. Lines' /\ (\A e : LoginsQuiet(e)) /\ (\A b : UsesQuiet(b))
  BY <1>1, NetQuiet DEF Orderly, Lines
<1>3. \A b \in Accounts : OnQuiet(b)
  BY <1>1, OnKept
<1>4. \A e \in Descs : desc'[e] = desc[e] \/ desc'[e] = Kicked(desc[e])
  BY <1>1 DEF Disconnect
<1>5. \A e \in Descs : desc'[e].acct = desc[e].acct /\ desc'[e].game = desc[e].game /\ DescQuiet(e)
  BY <1>4, KickedQuiet DEF Orderly, Client, DescQuiet
<1> QED
  BY <1>1, <1>2, <1>3, <1>5, QuietStep

-----------------------------------------------------------------------------
(* The steps that start a login or end a session.                             *)

\* A client asks for a login: one that has none under way and no account, or
\* one that asks again.
LEMMA SendLoginOrderly ==
  ASSUME TypeOK, Orderly, NEW d \in Descs, NEW g \in Games, NEW a \in Accounts, NEW k \in Keys,
         SendLogin(d, g, a, k)
  PROVE  Orderly' /\ \A b \in Accounts : Traced(b) => Traced(b)'
<1> DEFINE m == [op |-> "login", desc |-> d, acct |-> a, key |-> k]
           s == [st |-> "asked", game |-> g, acct |-> None, key |-> k, kicked |-> FALSE]
           o == [desc[d] EXCEPT !.key = k]
<1>1. /\ UNCHANGED <<ld, logon, sql, up, toGame, named>> /\ desc \in [Descs -> Sessions]
      /\ Send(g, m)
      /\ \/ desc' = [desc EXCEPT ![d] = s] /\ (NewHandle(d) \/ (desc[d].st = "open" /\ desc[d].game = g))
         \/ desc' = [desc EXCEPT ![d] = o] /\ Again(d, g)
  BY DEF SendLogin, db, TypeOK, GameOK
<1>2. m.op = "login" /\ m.desc = d
  OBVIOUS
<1>3. \A e \in Descs : e # d => desc'[e] = desc[e]
  BY <1>1
<1>4. /\ desc'[d].acct = desc[d].acct /\ desc'[d].game = g /\ desc'[d].st \notin {"free", "open"}
      /\ desc'[d].st = "asked" => desc'[d].acct = None
      /\ desc[d].acct # None => desc[d].game = g
      /\ AsksOnce => desc'[d].acct = None /\ ~Waiting(d)
      /\ \A h \in Games : Holds(toDb[h], Request(d)) \/ Holds(toGame[h], Verdict(d)) => h = g
      /\ \A i \in 1 .. Len(sql) : sql[i] \in Lookup(d) => sql[i].game \in {g, None}
  <2>1. Client(d) /\ desc[d] \in Sessions
    BY <1>1 DEF Orderly
  <2>2. CASE desc' = [desc EXCEPT ![d] = s] /\ NewHandle(d)
    <3>1. /\ \A x \in Lookup(d) : x.op # "setup" /\ x.desc = d
          /\ \A x \in Request(d) : x.op # "setup" /\ x.desc = d
          /\ \A x \in Verdict(d) : x.op # "setup" /\ x.desc = d
      BY DEF Lookup, Request, Verdict
    <3>2. ~Holds(sql, Lookup(d)) /\ \A h \in Games : ~Holds(toDb[h], Request(d)) /\ ~Holds(toGame[h], Verdict(d))
      BY <2>2, <3>1 DEF NewHandle, Mentions, Holds
    <3>3. desc'[d] = s /\ desc[d].acct = None
      BY <1>1, <2>1, <2>2 DEF NewHandle, Free, Client
    <3>4. \A i \in 1 .. Len(sql) : sql[i] \notin Lookup(d)
      BY <3>2 DEF Holds
    <3> QED
      BY <3>2, <3>3, <3>4 DEF Waiting
  <2>3. CASE desc' = [desc EXCEPT ![d] = s] /\ desc[d].st = "open" /\ desc[d].game = g
    <3>1. desc'[d] = s /\ desc[d].acct = None
      BY <1>1, <2>1, <2>3 DEF Client
    <3> QED
      BY <2>1, <2>3, <3>1 DEF Client, OneLogin
  <2>4. CASE desc' = [desc EXCEPT ![d] = o] /\ Again(d, g)
    <3>1. /\ desc'[d].acct = desc[d].acct /\ desc'[d].game = desc[d].game /\ desc'[d].st = desc[d].st
          /\ desc[d].st \in {"asked", "select", "load"} /\ desc[d].game = g /\ ~AsksOnce
      BY <1>1, <2>1, <2>4 DEF Sessions, Again, AsksOnce
    <3> QED
      BY <2>1, <3>1 DEF Client, OneLogin
  <2> QED
    BY <1>1, <2>2, <2>3, <2>4
<1> HIDE DEF m, s, o
<1>5. /\ \A h \in Games : \A M : m \notin M \/ h # g => Same(toDb[h], toDb'[h], M)
      /\ \A h \in Games : g \notin up \/ h # g => toDb'[h] = toDb[h]
      /\ g \in up => toDb'[g] = Append(toDb[g], m)
  BY <1>1, Sent DEF TypeOK
<1>6. Lines'
  <2>1. \A h \in Games : Shrinks(toDb[h], toDb'[h], Reunion)
    BY <1>2, <1>5, NoReunion DEF Same
  <2>2. \A h \in Games \ up : toDb'[h] = toDb[h]
    BY <1>5
  <2> QED
    BY <1>1, <2>1, <2>2, LinesKept DEF Orderly, Lines
<1>7. ASSUME NEW e \in Descs, e # d PROVE Client(e)'
  <2>1. m \notin Request(e)
    BY <1>2, <1>7, Kinds
  <2>2. LoginsQuiet(e)
    BY <1>1, <1>5, <2>1, SameStays, LikeItself DEF LoginsQuiet, Same
  <2>3. Client(e) /\ DescQuiet(e)
    BY <1>3, <1>7 DEF Orderly, Client, DescQuiet
  <2> QED
    BY <2>2, <2>3, ClientKept DEF ClientQuiet
<1>8. Client(d)'
  <2>1. \A h \in Games : Holds(toDb'[h], Request(d)) \/ Holds(toGame'[h], Verdict(d)) => h = g
    BY <1>1, <1>4, <1>5
  <2>2. ASSUME AsksOnce
        PROVE  /\ ~Holds(sql', Lookup(d)) /\ Once(toDb'[g], Request(d))
               /\ \A h \in Games : ~Holds(toGame'[h], Verdict(d)) /\ (h # g => ~Holds(toDb'[h], Request(d)))
    <3>1. ~Holds(sql', Lookup(d)) /\ \A h \in Games : ~Holds(toDb[h], Request(d)) /\ ~Holds(toGame'[h], Verdict(d))
      BY <1>1, <1>4, <2>2 DEF Waiting
    <3>2. Once(toDb'[g], Request(d))
      <4>1. toDb[g] \in Seq(Asks) /\ ~Holds(toDb[g], Request(d))
        BY <3>1 DEF TypeOK, NetOK
      <4>2. Once(Append(toDb[g], m), Request(d)) /\ Once(toDb[g], Request(d))
        BY <4>1, AppendHolds DEF Once, Holds
      <4> QED
        BY <1>5, <4>2
    <3> QED
      BY <2>1, <3>1, <3>2
  <2>3. AsksOnce => \A h \in Games : Once(toDb'[h], Request(d)) /\ Once(toGame'[h], Verdict(d))
    BY <2>2 DEF Once, Holds
  <2>4. AsksOnce => Once(sql', Lookup(d))
    BY <2>2 DEF Once, Holds
  <2>5. OneLogin(d)'
    BY <1>1, <1>4, <2>1, <2>2, <2>3, <2>4 DEF OneLogin
  <2> QED
    BY <1>4, <2>5 DEF Client
<1>9. ASSUME NEW b \in Accounts PROVE OneUse(b)' /\ (Traced(b) => Traced(b)')
  <2>1. m \notin Farewell(b) /\ b # None
    BY <1>2, Kinds, SetsAssumption
  <2>2. UsesQuiet(b)
    BY <1>1, <1>5, <2>1, SameStays DEF UsesQuiet
  <2>3. BoundQuiet(b)
    BY <1>3, <1>4, <2>1 DEF BoundQuiet
  <2> QED
    BY <1>1, <2>2, <2>3, OnKept, UseKept DEF Orderly, UseQuiet
<1> QED
  BY <1>6, <1>7, <1>8, <1>9 DEF Orderly

\* DESC::Destroy: the account that was bound is logged out, and nothing else
\* uses it.
LEMMA DestroyOrderly ==
  ASSUME TypeOK, Orderly, NEW d \in Descs, Destroy(d)
  PROVE  Orderly' /\ \A b \in Accounts : Traced(b) => Traced(b)'
<1> DEFINE a == desc[d].acct
           g == desc[d].game
           m == Off(a)
<1>1. /\ UNCHANGED <<ld, logon, sql, up, toGame>> /\ desc \in [Descs -> Sessions]
      /\ desc[d].st = "closing" /\ desc' = [desc EXCEPT ![d] = NoSession]
      /\ IF a = None THEN UNCHANGED <<named, toDb>> ELSE named' = Unnamed(g, a) /\ Send(g, m)
  BY DEF Destroy, db, TypeOK, GameOK
<1>2. /\ desc'[d].acct = None /\ desc'[d].st = "free" /\ ~desc'[d].kicked
      /\ \A e \in Descs : e # d => desc'[e] = desc[e]
  BY <1>1 DEF NoSession
<1>3. g \in Games /\ m.op = "logout" /\ m.acct = a /\ Client(d) /\ a \in Accounts \cup {None}
  BY <1>1 DEF Orderly, Client, OneLogin, Off, TypeOK, GameOK, Sessions
<1>4. Client(d)'
  BY <1>2 DEF Client
<1>5. CASE a = None
  <2>1. Lines' /\ (\A e : LoginsQuiet(e)) /\ (\A b : UsesQuiet(b))
    BY <1>1, <1>5, NetQuiet DEF Orderly, Lines
  <2>2. \A e \in Descs : e # d => Client(e)'
    BY <1>2, <2>1, ClientKept DEF Orderly, Client, ClientQuiet, DescQuiet
  <2>3. ASSUME NEW b \in Accounts PROVE OneUse(b)' /\ (Traced(b) => Traced(b)')
    <3>1. BoundQuiet(b)
      BY <1>2, <1>5, SetsAssumption DEF BoundQuiet
    <3> QED
      BY <1>1, <2>1, <3>1, OnKept, UseKept DEF Orderly, UseQuiet
  <2> QED
    BY <1>4, <2>1, <2>2, <2>3 DEF Orderly
<1>6. CASE a # None
  <2>0. PICK A \in Accounts, G \in Games : A = a /\ G = g /\ A # None
    BY <1>3, <1>6
  <2>1. /\ d \in BoundTo(A) /\ LoggedOnAt(A, G) /\ OneUse(A) /\ G \in up
        /\ \A e \in Descs : desc[e].acct = A => e = d
        /\ \A h \in Games : ~Holds(toGame[h], Welcome(A)) /\ ~Holds(toDb[h], Farewell(A))
    <3>1. d \in BoundTo(A) /\ OneUse(A)
      BY <2>0 DEF BoundTo, Orderly
    <3> QED
      BY <2>0, <3>1 DEF OneUse, BoundTo, LoggedOnAt
  <2>2. named' = Unnamed(G, A) /\ Send(G, m) /\ m.op = "logout" /\ m.acct = A /\ m \in Farewell(A)
    BY <1>1, <1>3, <1>6, <2>0 DEF Off, Farewell
  <2> HIDE DEF m
  <2>3. /\ \A h \in Games : \A M : m \notin M \/ h # G => Same(toDb[h], toDb'[h], M)
        /\ \A h \in Games : h # G => toDb'[h] = toDb[h]
        /\ toDb'[G] = Append(toDb[G], m) /\ toDb[G] \in Seq(Asks)
    BY <2>0, <2>1, <2>2, Sent DEF TypeOK, NetOK
  <2>4. Lines'
    <3>1. \A h \in Games : Shrinks(toDb[h], toDb'[h], Reunion)
      BY <2>2, <2>3, NoReunion DEF Same
    <3> QED
      BY <1>1, <2>1, <2>3, <3>1, LinesKept DEF Orderly, Lines
  <2>5. ASSUME NEW e \in Descs, e # d PROVE Client(e)'
    <3>1. m \notin Request(e)
      BY <2>2, Kinds
    <3>2. LoginsQuiet(e)
      BY <1>1, <2>3, <3>1, SameStays, LikeItself DEF LoginsQuiet, Same
    <3> QED
      BY <1>2, <2>5, <3>2, ClientKept DEF Orderly, Client, ClientQuiet, DescQuiet
  <2>6. ASSUME NEW b \in Accounts, b # A PROVE OneUse(b)' /\ (Traced(b) => Traced(b)')
    <3>1. m \notin Farewell(b) /\ b # None
      BY <2>2, <2>6, Kinds, SetsAssumption
    <3>2. UsesQuiet(b)
      BY <1>1, <2>3, <3>1, SameStays DEF UsesQuiet
    <3>3. BoundQuiet(b)
      BY <1>2, <2>0, <2>6, <3>1 DEF BoundQuiet
    <3> QED
      BY <1>1, <3>2, <3>3, OnKept, UseKept DEF Orderly, UseQuiet
  <2>7. OneUse(A)' /\ Traced(A)'
    <3>1. BoundTo(A)' = {}
      BY <1>2, <2>0, <2>1 DEF BoundTo
    <3>2. LoggedOnAt(A, G)'
      BY <1>1, <2>1 DEF LoggedOnAt
    <3>3. /\ \A h \in Games : ~Holds(toGame'[h], Welcome(A)) /\ (h # G => ~Holds(toDb'[h], Farewell(A)))
          /\ Once(toDb'[G], Farewell(A)) /\ Holds(toDb'[G], Farewell(A))
      BY <1>1, <2>1, <2>2, <2>3, AppendHolds
    <3>4. OneUse(A)'
      BY <3>1, <3>2, <3>3 DEF OneUse, Once, Holds
    <3>5. Traced(A)'
      BY <3>2, <3>3 DEF Traced, UsedAt
    <3> QED
      BY <3>4, <3>5
  <2> QED
    BY <1>4, <2>0, <2>4, <2>5, <2>6, <2>7 DEF Orderly
<1> QED
  BY <1>5, <1>6

\* A success arrives: it is the only use of the account, which is then bound to
\* the DESC, or logged out if the client is gone.
LEMMA LoginSuccessOrderly ==
  ASSUME TypeOK, Orderly, NEW g \in Games, LoginSuccess(g)
  PROVE  Orderly' /\ (AsksOnce => \A b \in Accounts : Traced(b) => Traced(b)')
<1> DEFINE m == Head(toGame[g])
<1>1. /\ UNCHANGED <<ld, logon, sql, up>> /\ desc \in [Descs -> Sessions] /\ Answer(g, "success")
      /\ IF Free(m.desc)
         THEN Orphan(g, m.acct) /\ UNCHANGED <<desc, named>>
         ELSE /\ desc' = [desc EXCEPT ![m.desc] =
                   [st |-> "select", game |-> @.game, acct |-> m.acct, key |-> @.key, kicked |-> @.kicked]]
              /\ named' = [named EXCEPT ![g] = Insert(@, m.acct, m.desc)]
              /\ UNCHANGED toDb
  BY DEF LoginSuccess, db, TypeOK, GameOK
<1>2. /\ m \in Tells /\ m.op = "success" /\ g \in up
      /\ \A h \in Games : h # g => toGame'[h] = toGame[h]
      /\ \A h \in Games : \A M : /\ Shrinks(toGame[h], toGame'[h], M)
                                 /\ m \notin M \/ h # g => Same(toGame[h], toGame'[h], M)
      /\ \A M : m \in M => Holds(toGame[g], M) /\ (Once(toGame[g], M) => ~Holds(toGame'[g], M))
  BY <1>1, Answered, ReadsUp DEF TypeOK, Orderly
<1>3. PICK d \in Descs, a \in Accounts : d = m.desc /\ a = m.acct /\ m \in Welcome(a)
  BY <1>2, Members DEF Tells
<1>4. /\ LoggedOnAt(a, g) /\ BoundTo(a) = {} /\ ~Holds(toGame'[g], Welcome(a))
      /\ \A h \in Games : ~Holds(toDb[h], Farewell(a)) /\ (h # g => ~Holds(toGame[h], Welcome(a)))
  <2>1. OneUse(a) /\ Holds(toGame[g], Welcome(a))
    BY <1>2, <1>3 DEF Orderly
  <2> QED
    BY <1>2, <1>3, <2>1 DEF OneUse, LoggedOnAt
<1>5. LoggedOnAt(a, g)' /\ a # None
  BY <1>1, <1>4, SetsAssumption DEF LoggedOnAt
<1>6. \A b \in Accounts : b # a => \A h \in Games : Same(toGame[h], toGame'[h], Welcome(b))
  <2>1. \A b \in Accounts : b # a => m \notin Welcome(b)
    BY <1>3, Kinds
  <2> QED
    BY <1>2, <2>1
<1>7. CASE desc[d].st = "free"
  <2> DEFINE t == Off(a)
  <2>1. Send(g, t) /\ UNCHANGED <<desc, named>> /\ t.op = "logout" /\ t.acct = a /\ t \in Farewell(a)
    BY <1>1, <1>3, <1>7 DEF Free, Orphan, Off, Farewell
  <2> HIDE DEF t, m
  <2>2. /\ \A h \in Games : \A M : t \notin M \/ h # g => Same(toDb[h], toDb'[h], M)
        /\ \A h \in Games : h # g => toDb'[h] = toDb[h]
        /\ toDb'[g] = Append(toDb[g], t) /\ toDb[g] \in Seq(Asks)
    BY <1>2, <2>1, Sent DEF TypeOK, NetOK
  <2>3. Lines'
    <3>1. \A h \in Games : Shrinks(toDb[h], toDb'[h], Reunion)
      BY <2>1, <2>2, NoReunion DEF Same
    <3> QED
      BY <1>1, <1>2, <2>2, <3>1, LinesKept DEF Orderly, Lines
  <2>4. ASSUME NEW e \in Descs PROVE Client(e)'
    <3>1. t \notin Request(e)
      BY <2>1, Kinds
    <3>2. LoginsQuiet(e)
      BY <1>1, <1>2, <2>2, <3>1, SameStays, LikeItself DEF LoginsQuiet, Same
    <3> QED
      BY <2>1, <3>2, ClientKept, DescsQuiet DEF Orderly, ClientQuiet
  <2>5. ASSUME NEW b \in Accounts, b # a PROVE OneUse(b)' /\ (Traced(b) => Traced(b)')
    <3>1. t \notin Farewell(b)
      BY <2>1, <2>5, Kinds
    <3>2. UsesQuiet(b)
      BY <1>6, <2>2, <2>5, <3>1 DEF UsesQuiet
    <3> QED
      BY <1>1, <2>1, <3>2, OnKept, UseKept DEF Orderly, UseQuiet, BoundQuiet
  <2>6. OneUse(a)' /\ Traced(a)'
    <3>1. BoundTo(a)' = {}
      BY <1>4, <2>1 DEF BoundTo
    <3>2. ~Holds(toDb[g], Farewell(a))
      BY <1>4
    <3>3. Once(Append(toDb[g], t), Farewell(a)) /\ Holds(Append(toDb[g], t), Farewell(a))
      BY <2>1, <2>2, <3>2, AppendHolds
    <3>4. /\ \A h \in Games : ~Holds(toGame'[h], Welcome(a)) /\ (h # g => ~Holds(toDb'[h], Farewell(a)))
          /\ Once(toDb'[g], Farewell(a)) /\ Holds(toDb'[g], Farewell(a))
      BY <1>2, <1>4, <2>2, <3>3
    <3> QED
      BY <1>5, <3>1, <3>4 DEF OneUse, Once, Holds, Traced, UsedAt
  <2> QED
    BY <2>1, <2>3, <2>4, <2>5, <2>6 DEF Orderly
<1>8. CASE desc[d].st # "free"
  <2>1. /\ desc' = [desc EXCEPT ![d] = [st |-> "select", game |-> @.game, acct |-> a,
                                        key |-> @.key, kicked |-> @.kicked]]
        /\ named' = [named EXCEPT ![g] = Insert(@, a, d)] /\ UNCHANGED toDb
    BY <1>1, <1>3, <1>8 DEF Free
  <2>2. g = desc[d].game /\ (AsksOnce => ~Waiting(d)' /\ desc[d].acct = None)
    BY <1>1, <1>3, <1>8, <2>1, VerdictRead
  <2> HIDE DEF m
  <2>3. /\ desc'[d].st = "select" /\ desc'[d].game = g /\ desc'[d].acct = a
        /\ \A e \in Descs : e # d => desc'[e] = desc[e]
    BY <1>1, <2>1, <2>2
  <2>4. \A h \in Games : \A M : Same(toDb[h], toDb'[h], M)
    BY <2>1, SameStays
  <2>5. Lines'
    BY <1>1, <1>2, <2>1, <2>4, LinesKept DEF Orderly, Lines, Same
  <2>6. \A e \in Descs : LoginsQuiet(e)
    BY <1>1, <1>2, <2>4, SameStays, LikeItself DEF LoginsQuiet, Same
  <2>7. ASSUME NEW e \in Descs, e # d PROVE Client(e)'
    BY <2>3, <2>6, <2>7, ClientKept DEF Orderly, Client, ClientQuiet, DescQuiet
  <2>8. Client(d)'
    <3>1. OneLogin(d)
      BY <1>8 DEF Orderly, Client
    <3>2. AsksOnce => /\ \A h \in Games : Once(toDb'[h], Request(d)) /\ Once(toGame'[h], Verdict(d))
                      /\ Once(sql', Lookup(d))
      BY <2>6, <3>1 DEF OneLogin, LoginsQuiet, Shrinks
    <3>3. \A h \in Games : Holds(toDb'[h], Request(d)) \/ Holds(toGame'[h], Verdict(d)) => h = g
      BY <2>2, <2>6, <3>1 DEF OneLogin, LoginsQuiet, Shrinks
    <3>4. \A i \in 1 .. Len(sql') : sql'[i] \in Lookup(d) => sql'[i].game \in {g, None}
      BY <2>2, <2>6, <3>1 DEF OneLogin, LoginsQuiet, GamesLike
    <3>5. OneLogin(d)'
      BY <2>2, <2>3, <3>2, <3>3, <3>4 DEF OneLogin, Waiting
    <3> QED
      BY <2>3, <3>5 DEF Client
  <2>9. ASSUME NEW b \in Accounts, b # a
        PROVE  OneUse(b)' /\ (AsksOnce => (Traced(b) => Traced(b)'))
    <3>1. UsesQuiet(b) /\ OnQuiet(b) /\ OneUse(b)
      BY <1>1, <1>6, <2>4, <2>9, OnKept DEF UsesQuiet, Orderly
    <3>2. AsksOnce => BoundQuiet(b)
      BY <2>2, <2>3, <2>9, SetsAssumption DEF BoundQuiet
    <3>3. AsksOnce => (Traced(b) => Traced(b)')
      BY <3>1, <3>2, UseKept DEF UseQuiet
    <3>4. BoundTo(b)' \subseteq BoundTo(b) /\ \A e \in BoundTo(b)' : desc'[e].game = desc[e].game
      BY <2>3, <2>9 DEF BoundTo
    <3> QED
      BY <3>1, <3>3, <3>4, UseLeft
  <2>10. OneUse(a)' /\ Traced(a)'
    <3>1. BoundTo(a)' = {d}
      BY <1>4, <2>3 DEF BoundTo
    <3>2. \A h \in Games : ~Holds(toGame'[h], Welcome(a)) /\ ~Holds(toDb'[h], Farewell(a))
      BY <1>2, <1>4, <2>1
    <3> QED
      BY <1>5, <2>3, <3>1, <3>2 DEF OneUse, Once, Holds, Traced, UsedAt
  <2> QED
    BY <2>5, <2>7, <2>8, <2>9, <2>10 DEF Orderly
<1> QED
  BY <1>7, <1>8

\* The accounts of S leave m_map_kLogonAccount; the others stay where they are.
LEMMA LoggedOffOn ==
  ASSUME PointersAlive, NEW S, ld' = LoggedOff({logon[a] : a \in S}), logon' = Erase(logon, S),
         S \subseteq DOMAIN logon
  PROVE  /\ DOMAIN logon' = DOMAIN logon \ S
         /\ \A b \in DOMAIN logon' : logon'[b] = logon[b] /\ ld'[logon[b]] = ld[logon[b]]
<1>1. DOMAIN logon' = DOMAIN logon \ S /\ \A b \in DOMAIN logon' : logon'[b] = logon[b]
  BY DEF Erase, Restrict
<1>2. \A b \in DOMAIN logon : logon[b] \in DOMAIN ld /\ ld[logon[b]].acct = b
  BY Entries
<1>3. \A b \in DOMAIN logon' : logon[b] \in DOMAIN ld /\ logon[b] \notin {logon[a] : a \in S}
  BY <1>1, <1>2
<1> QED
  BY <1>1, <1>3 DEF LoggedOff

\* QUERY_LOGOUT: nothing uses the account any more, and it is logged off unless
\* m_map_pkLoginDataByLogin has lost it.
LEMMA LogoutOrderly ==
  ASSUME TypeOK, PointersAlive, Orderly, NEW g \in Games, Logout(g)
  PROVE  /\ Orderly' /\ DOMAIN logon' \subseteq DOMAIN logon
         /\ DOMAIN logon \subseteq DOMAIN byLogin => \A b \in Accounts : Traced(b) => Traced(b)'
<1> DEFINE m == Head(toDb[g])
<1>1. /\ UNCHANGED <<sql, up, toGame, desc, named>> /\ Take(g, "logout")
      /\ IF Accepted(m.acct, g)
         THEN ld' = LoggedOff({logon[m.acct]}) /\ logon' = Erase(logon, {m.acct})
         ELSE UNCHANGED <<ld, logon>>
  BY DEF Logout, game
<1>2. /\ m \in Asks /\ m.op = "logout" /\ g \in up
      /\ \A h \in Games : h # g => toDb'[h] = toDb[h]
      /\ \A h \in Games : \A M : /\ Shrinks(toDb[h], toDb'[h], M)
                                 /\ m \notin M \/ h # g => Same(toDb[h], toDb'[h], M)
      /\ \A M : m \in M => Holds(toDb[g], M) /\ (Once(toDb[g], M) => ~Holds(toDb'[g], M))
  BY <1>1, Took, ReadsUp DEF TypeOK, Orderly
<1>3. PICK a \in Accounts : a = m.acct /\ m \in Farewell(a)
  BY <1>2, AsksTypes, Members
<1>4. /\ LoggedOnAt(a, g) /\ BoundTo(a) = {} /\ ~Holds(toDb'[g], Farewell(a))
      /\ \A h \in Games : ~Holds(toGame[h], Welcome(a)) /\ (h # g => ~Holds(toDb[h], Farewell(a)))
  <2>1. OneUse(a) /\ Holds(toDb[g], Farewell(a))
    BY <1>2, <1>3 DEF Orderly
  <2> QED
    BY <1>2, <1>3, <2>1 DEF OneUse, LoggedOnAt
<1>5. \A b \in Accounts : b # a => m \notin Farewell(b)
  BY <1>3, Kinds
<1>6. /\ \A b \in Accounts : b # a => OnQuiet(b)
      /\ DOMAIN logon' \subseteq DOMAIN logon
      /\ a \in DOMAIN byLogin => a \notin DOMAIN logon'
  <2>1. CASE Accepted(a, g)
    <3>1. ld' = LoggedOff({logon[b] : b \in {a}}) /\ logon' = Erase(logon, {a}) /\ {a} \subseteq DOMAIN logon
      <4>1. {logon[b] : b \in {a}} = {logon[a]}
        OBVIOUS
      <4> QED
        BY <1>1, <1>3, <2>1, <4>1 DEF Accepted
    <3>2. /\ DOMAIN logon' = DOMAIN logon \ {a}
          /\ \A b \in DOMAIN logon' : logon'[b] = logon[b] /\ ld'[logon[b]] = ld[logon[b]]
      BY <3>1, LoggedOffOn
    <3> QED
      BY <1>1, <3>2 DEF OnQuiet, LoggedOnAt
  <2>2. CASE ~Accepted(a, g)
    <3>1. UNCHANGED <<ld, logon>> /\ a \notin DOMAIN byLogin
      BY <1>1, <1>3, <1>4, <2>2 DEF Accepted, LoggedOnAt
    <3> QED
      BY <1>1, <3>1, OnKept
  <2> QED
    BY <2>1, <2>2
<1> HIDE DEF m
<1>7. Lines'
  BY <1>1, <1>2, LinesKept DEF Orderly, Lines
<1>8. ASSUME NEW e \in Descs PROVE Client(e)'
  <2>1. LoginsQuiet(e)
    BY <1>1, <1>2, SameStays, LikeItself DEF LoginsQuiet, Same
  <2> QED
    BY <1>1, <2>1, ClientKept, DescsQuiet DEF Orderly, ClientQuiet
<1>9. ASSUME NEW b \in Accounts, b # a PROVE OneUse(b)' /\ (Traced(b) => Traced(b)')
  <2>1. UsesQuiet(b)
    BY <1>1, <1>2, <1>5, <1>9, SameStays DEF UsesQuiet
  <2> QED
    BY <1>1, <1>6, <1>9, <2>1, UseKept DEF Orderly, UseQuiet, BoundQuiet
<1>10. OneUse(a)'
  <2>1. BoundTo(a)' = {} /\ \A h \in Games : ~Holds(toGame'[h], Welcome(a)) /\ ~Holds(toDb'[h], Farewell(a))
    BY <1>1, <1>2, <1>4 DEF BoundTo
  <2> QED
    BY <2>1 DEF OneUse, Once, Holds
<1>11. DOMAIN logon \subseteq DOMAIN byLogin => Traced(a)'
  BY <1>4, <1>6 DEF LoggedOnAt, Traced
<1> QED
  BY <1>1, <1>6, <1>7, <1>8, <1>9, <1>10, <1>11 DEF Orderly

\* A game connects again: it has no session, or it would be connected.
LEMMA ConnectOrderly ==
  ASSUME TypeOK, Orderly, NEW g \in Games, Connect(g)
  PROVE  Orderly' /\ \A b \in Accounts : Traced(b) => Traced(b)'
<1> DEFINE S == {x \in Descs : desc[x].game = g /\ desc[x].acct # None}
           m == [op |-> "setup", logins |-> {[acct |-> desc[d].acct, key |-> desc[d].key] : d \in S}]
<1>1. /\ UNCHANGED <<ld, logon, sql, toGame, desc, named>> /\ g \notin up /\ up' = up \cup {g}
      /\ toDb' = [toDb EXCEPT ![g] = <<m>>]
  BY DEF Connect, db, game
<1>2. S = {}
  <2> SUFFICES ASSUME NEW x \in Descs, desc[x].game = g, desc[x].acct # None PROVE FALSE
    OBVIOUS
  <2>1. PICK a \in Accounts : a = desc[x].acct
    BY DEF TypeOK, GameOK, Sessions
  <2>2. x \in BoundTo(a) /\ OneUse(a)
    BY <2>1 DEF BoundTo, Orderly
  <2> QED
    BY <1>1, <2>2 DEF OneUse, LoggedOnAt
<1>3. m.op = "setup" /\ m.logins = {}
  BY <1>2
<1> HIDE DEF m, S
<1>4. toDb \in [Games -> Seq(Asks)] /\ toDb[g] = << >>
  BY <1>1 DEF TypeOK, NetOK, Orderly, Lines
<1>5. \A h \in Games : \A M : m \notin M => Same(toDb[h], toDb'[h], M)
  <2> TAKE h \in Games
  <2>1. CASE h # g
    BY <1>1, <1>4, <2>1, SameStays
  <2>2. CASE h = g
    <3>1. toDb'[h] = Append(toDb[h], m) /\ toDb[h] \in Seq(Asks)
      BY <1>1, <1>4, <2>2
    <3> QED
      BY <3>1, AppendHolds
  <2> QED
    BY <2>1, <2>2
<1>6. Lines'
  <2>1. \A h \in Games : ~Holds(toDb'[h], Reunion)
    BY <1>3, <1>5, NoReunion DEF Orderly, Lines, Same, Shrinks
  <2>2. \A h \in Games : h # g => toDb'[h] = toDb[h]
    BY <1>1, <1>4
  <2> QED
    BY <1>1, <2>1, <2>2 DEF Orderly, Lines
<1>7. /\ \A d : m \notin Request(d)
      /\ \A b : m \notin Farewell(b)
  BY <1>3, Kinds
<1>8. (\A d : LoginsQuiet(d)) /\ (\A b : UsesQuiet(b))
  BY <1>1, <1>5, <1>7, SameStays, LikeItself DEF LoginsQuiet, UsesQuiet, Same
<1>9. \A b \in Accounts : OnQuiet(b)
  BY <1>1, OnKept
<1> QED
  BY <1>1, <1>6, <1>8, <1>9, DescsQuiet, QuietStep

\* A game server dies with its clients, and its accounts are logged off.
LEMMA CrashOrderly ==
  ASSUME TypeOK, PointersAlive, Orderly, NEW g \in Games, Crash(g)
  PROVE  /\ Orderly' /\ (\A b \in Accounts : Traced(b) => Traced(b)')
         /\ DOMAIN logon' \subseteq DOMAIN logon
<1> DEFINE S == {a \in DOMAIN logon : ld[logon[a]].conn = g}
<1>1. /\ ld' = LoggedOff({logon[a] : a \in S}) /\ logon' = Erase(logon, S)
      /\ sql' = [i \in 1 .. Len(sql) |-> IF sql[i].game = g THEN [sql[i] EXCEPT !.game = None] ELSE sql[i]]
      /\ up' = up \ {g} /\ toDb' = [toDb EXCEPT ![g] = << >>] /\ toGame' = [toGame EXCEPT ![g] = << >>]
      /\ desc' = [d \in Descs |-> IF desc[d].game = g THEN NoSession ELSE desc[d]]
      /\ named' = [named EXCEPT ![g] = << >>]
  BY DEF Crash, Lost
<1>2. /\ toDb \in [Games -> Seq(Asks)] /\ toGame \in [Games -> Seq(Tells)]
      /\ sql \in Seq(Queries) /\ DOMAIN named = Games
  BY DEF TypeOK, NetOK, GameOK
<1>3. /\ toDb'[g] = << >> /\ toGame'[g] = << >>
      /\ \A h \in Games : h # g => toDb'[h] = toDb[h] /\ toGame'[h] = toGame[h]
  BY <1>1, <1>2
<1>4. /\ \A b \in S : b \notin DOMAIN logon'
      /\ \A b \in DOMAIN logon' : b \in DOMAIN logon
      /\ \A b \in DOMAIN logon \ S : /\ b \in DOMAIN logon' /\ logon'[b] = logon[b]
                                     /\ ld'[logon[b]] = ld[logon[b]]
  <2>1. S \subseteq DOMAIN logon
    OBVIOUS
  <2> HIDE DEF S
  <2> QED
    BY <1>1, <2>1, LoggedOffOn
<1>5. /\ Len(sql') = Len(sql)
      /\ \A i \in 1 .. Len(sql) :
           /\ sql[i].game = g => sql'[i] = [sql[i] EXCEPT !.game = None]
           /\ sql[i].game # g => sql'[i] = sql[i]
  BY <1>1, <1>2
<1>6. \A i \in 1 .. Len(sql) : /\ sql'[i].game = IF sql[i].game = g THEN None ELSE sql[i].game
                               /\ \A d : sql'[i] \in Lookup(d) <=> sql[i] \in Lookup(d)
  <2> TAKE i \in 1 .. Len(sql)
  <2>1. sql[i] \in Queries
    BY <1>2
  <2>2. CASE sql[i].game = g
    <3> DEFINE r == [op |-> sql[i].op, desc |-> sql[i].desc, acct |-> sql[i].acct, game |-> None]
    <3>1. sql'[i] = r /\ sql[i] = [op |-> sql[i].op, desc |-> sql[i].desc, acct |-> sql[i].acct, game |-> sql[i].game]
          /\ sql[i].acct \in Accounts /\ sql[i].game \in Games \cup {None}
      BY <1>5, <2>1, <2>2 DEF Queries
    <3>2. \A d : r \in Lookup(d) <=> sql[i] \in Lookup(d)
      BY <3>1 DEF Lookup
    <3> QED
      BY <2>2, <3>1, <3>2
  <2>3. CASE sql[i].game # g
    BY <1>5, <2>3
  <2> QED
    BY <2>2, <2>3
<1>7. \A d : Shrinks(sql, sql', Lookup(d)) /\ GamesLike(sql, sql', d)
  <2>1. \A d : Same(sql, sql', Lookup(d))
    BY <1>5, <1>6, LikeHolds
  <2> QED
    BY <1>5, <1>6, <2>1 DEF GamesLike, Same
<1>8. \A h \in Games : \A M : Shrinks(toDb[h], toDb'[h], M) /\ Shrinks(toGame[h], toGame'[h], M)
  <2> TAKE h \in Games
  <2>1. CASE h = g
    BY <1>3, <2>1, NoneHeld DEF Shrinks
  <2>2. CASE h # g
    BY <1>3, <2>2, SameStays DEF Same
  <2> QED
    BY <2>1, <2>2
<1>9. Lines'
  <2>1. \A h \in Games : ~Holds(toDb'[h], Reunion)
    BY <1>8 DEF Orderly, Lines, Shrinks
  <2>2. \A i \in 1 .. Len(sql') : sql'[i].game \in up' \cup {None}
    BY <1>1, <1>5, <1>6 DEF Orderly, Lines
  <2>3. \A h \in Games \ up' : toDb'[h] = << >> /\ toGame'[h] = << >>
    BY <1>1, <1>3 DEF Orderly, Lines
  <2> QED
    BY <2>1, <2>2, <2>3 DEF Lines
<1>10. \A d \in Descs : /\ desc[d].game = g => desc'[d] = NoSession
                        /\ desc[d].game # g => desc'[d] = desc[d]
  BY <1>1
<1>11. ASSUME NEW d \in Descs PROVE Client(d)'
  <2>1. CASE desc[d].game = g
    BY <1>10, <2>1 DEF NoSession, Client
  <2>2. CASE desc[d].game # g
    <3>1. LoginsQuiet(d)
      BY <1>7, <1>8 DEF LoginsQuiet
    <3> QED
      BY <1>10, <2>2, <3>1, ClientKept DEF Orderly, Client, ClientQuiet, DescQuiet
  <2> QED
    BY <2>1, <2>2
<1>12. ASSUME NEW a \in Accounts PROVE OneUse(a)' /\ (Traced(a) => Traced(a)')
  <2>0. OneUse(a) /\ a # None
    BY SetsAssumption DEF Orderly
  <2>1. CASE LoggedOnAt(a, g)
    <3>1. a \notin DOMAIN logon'
      BY <1>4, <2>1 DEF LoggedOnAt
    <3>2. BoundTo(a)' = {}
      <4>1. \A d \in Descs : desc[d].acct = a => desc[d].game = g
        BY <2>0, <2>1 DEF OneUse, BoundTo, LoggedOnAt
      <4> QED
        BY <1>10, <2>0, <4>1 DEF BoundTo, NoSession
    <3>3. \A h \in Games : ~Holds(toGame'[h], Welcome(a)) /\ ~Holds(toDb'[h], Farewell(a))
      <4>1. \A h \in Games : h # g => ~Holds(toGame[h], Welcome(a)) /\ ~Holds(toDb[h], Farewell(a))
        BY <2>0, <2>1 DEF OneUse, LoggedOnAt
      <4> QED
        BY <1>3, <4>1, NoneHeld
    <3> QED
      BY <3>1, <3>2, <3>3 DEF OneUse, Traced, Once, Holds
  <2>2. CASE ~LoggedOnAt(a, g)
    <3>1. \A d \in Descs : desc[d].acct = a => desc[d].game # g
      BY <2>0, <2>2 DEF OneUse, BoundTo
    <3>2. ~Holds(toGame[g], Welcome(a)) /\ ~Holds(toDb[g], Farewell(a))
      BY <2>0, <2>2 DEF OneUse
    <3>3. BoundQuiet(a)
      BY <1>10, <2>0, <3>1 DEF BoundQuiet, NoSession
    <3>4. UsesQuiet(a)
      <4>1. Same(toGame[g], toGame'[g], Welcome(a)) /\ Same(toDb[g], toDb'[g], Farewell(a))
        BY <1>3, <3>2, NoneHeld DEF Same, Shrinks
      <4> QED
        BY <1>3, <4>1, SameStays DEF UsesQuiet
    <3>5. OnQuiet(a)
      BY <1>1, <1>4, <2>2 DEF OnQuiet, LoggedOnAt
    <3> QED
      BY <2>0, <3>3, <3>4, <3>5, UseKept DEF UseQuiet
  <2> QED
    BY <2>1, <2>2
<1> QED
  BY <1>4, <1>9, <1>11, <1>12 DEF Orderly

-----------------------------------------------------------------------------
(* The theorems.                                                              *)

\* No connection to the db breaks while its two servers go on: a broken one
\* leaves a game with sessions that the db has logged off.
ConnectionsLast == Events \cap {"drop", "restart"} = {}

LEMMA StepOrderly ==
  ASSUME ConnectionsLast, TypeOK, PointersAlive, Orderly, [Next]_vars
  PROVE  Orderly' /\ (AsksOnce /\ "collide" \notin Events /\ AllTraced => AllTraced')
<1> DEFINE Fine == /\ Orderly'
                   /\ AsksOnce /\ "collide" \notin Events /\ DOMAIN logon \subseteq DOMAIN byLogin =>
                        /\ DOMAIN logon' \subseteq DOMAIN byLogin'
                        /\ \A b \in Accounts : Traced(b) => Traced(b)'
<1>1. /\ Orderly' /\ (AsksOnce => \A b \in Accounts : Traced(b) => Traced(b)')
      /\ UNCHANGED <<byLogin, logon>>
      => Fine
  OBVIOUS
<1>2. ASSUME UNCHANGED vars PROVE Fine
  <2>1. UNCHANGED <<ld, byLogin, logon, sql, up, toDb, toGame, desc, named>>
    BY <1>2 DEF vars
  <2>2. Lines' /\ (\A b \in Accounts : OnQuiet(b))
    BY <2>1, OnKept DEF Orderly, Lines
  <2> QED
    BY <1>1, <2>1, <2>2, NetQuiet, DescsQuiet, QuietStep
<1>3. ASSUME NEW a \in Accounts, NEW k \in Keys, AuthLogin(a, k) PROVE Fine
  <2>1. Orderly' /\ \A b \in Accounts : Traced(b) => Traced(b)'
    BY <1>3, AuthLoginOrderly
  <2>2. logon' = logon /\ ("collide" \notin Events => DOMAIN byLogin \subseteq DOMAIN byLogin')
    BY <1>3, AuthLoginOn DEF TypeOK, OnAsBefore
  <2> QED
    BY <2>1, <2>2
<1>4. ASSUME NEW d \in Descs, NEW g \in Games, NEW a \in Accounts, NEW k \in Keys, SendLogin(d, g, a, k)
      PROVE  Fine
  <2>1. UNCHANGED <<byLogin, logon>>
    BY <1>4 DEF SendLogin, db
  <2> QED
    BY <1>1, <1>4, <2>1, SendLoginOrderly
<1>5. ASSUME NEW d \in Descs, Select(d) \/ Close(d) \/ KickOver(d) \/ Destroy(d) PROVE Fine
  <2>1. UNCHANGED <<byLogin, logon>>
    BY <1>5 DEF Select, Close, KickOver, Destroy, db
  <2> QED
    BY <1>1, <1>5, <2>1, PhasesOrderly, DestroyOrderly
<1>6. ASSUME NEW g \in Games, DbStep(g) PROVE Fine
  <2>1. CASE Logout(g)
    <3>1. byLogin' = byLogin
      BY <2>1 DEF Logout
    <3> QED
      BY <2>1, <3>1, LogoutOrderly
  <2>2. CASE LoginByKey(g) \/ PlayerLoad(g) \/ DeleteLoginKey(g) \/ Setup(g)
    BY <1>1, <2>2, LoginByKeyOrderly, PlayerLoadOrderly, KeysOrderly
  <2> QED
    BY <1>6, <2>1, <2>2 DEF DbStep
<1>7. ASSUME NEW g \in Games, GameReads(g) PROVE Fine
  <2>1. UNCHANGED <<byLogin, logon>>
    BY <1>7 DEF GameReads, LoginSuccess, LoginAlready, LoginFailure, CharacterLoaded, LoadFailed, db
  <2> QED
    BY <1>1, <1>7, <2>1, LoginSuccessOrderly, LoginAlreadyOrderly, AnswersOrderly DEF GameReads
<1>8. ASSUME NEW g \in Games, NEW a \in Accounts, Disconnect(g, a) \/ SendDC(g, a) PROVE Fine
  <2>1. UNCHANGED <<byLogin, logon>>
    BY <1>8 DEF Disconnect, SendDC, db
  <2> QED
    BY <1>1, <1>8, <2>1, DisconnectOrderly, SendDCOrderly
<1>9. ASSUME NEW g \in Games, Connect(g) PROVE Fine
  <2>1. UNCHANGED <<byLogin, logon>>
    BY <1>9 DEF Connect, db
  <2> QED
    BY <1>1, <1>9, <2>1, ConnectOrderly
<1>10. ASSUME NEW g \in Games, Crash(g) PROVE Fine
  <2>1. byLogin' = byLogin
    BY <1>10 DEF Crash, Lost
  <2> QED
    BY <1>10, <2>1, CrashOrderly
<1>11. ASSUME Result PROVE Fine
  <2>1. byLogin' = byLogin /\ Head(sql) \in Queries
    BY <1>11, TailQueries DEF Result, Orderly
  <2>2. PICK r \in Queries : r = Head(sql)
    BY <2>1
  <2>3. CASE r.game # None => r.op # "players"
    BY <1>1, <1>11, <2>1, <2>2, <2>3, ResultQuiet
  <2>4. CASE r.game # None /\ r.op = "players"
    BY <1>11, <2>1, <2>2, <2>4, ResultVerdict
  <2> QED
    BY <2>3, <2>4
<1>12. ~Restart /\ \A g \in Games : ~Drop(g)
  BY DEF ConnectionsLast, Restart, Drop
<1>13. Fine
  <2> HIDE DEF Fine
  <2>1. ASSUME NEW a \in Accounts, NEW k \in Keys,
               AuthLogin(a, k) \/ \E d \in Descs, g \in Games : SendLogin(d, g, a, k)
        PROVE  Fine
    BY <1>3, <1>4, <2>1
  <2>2. ASSUME NEW g \in Games, \/ DbStep(g) \/ GameReads(g) \/ Connect(g) \/ Drop(g) \/ Crash(g)
                                \/ \E a \in Accounts : Disconnect(g, a) \/ SendDC(g, a)
        PROVE  Fine
    BY <1>6, <1>7, <1>8, <1>9, <1>10, <1>12, <2>2
  <2> QED
    BY <1>2, <1>5, <1>11, <1>12, <2>1, <2>2 DEF Next
<1> QED
  BY <1>13 DEF AllTraced

LEMMA InitOrderly == Init => Orderly /\ AllTraced
<1> SUFFICES ASSUME Init PROVE Orderly /\ AllTraced
  OBVIOUS
<1>0. DOMAIN << >> = {} /\ Len(<< >>) = 0
  OBVIOUS
<1>1. /\ sql = << >> /\ up = Games /\ logon = << >>
      /\ \A g \in Games : toDb[g] = << >> /\ toGame[g] = << >> /\ named[g] = << >>
      /\ \A d \in Descs : desc[d].st = "free" /\ desc[d].acct = None /\ ~desc[d].kicked
  BY DEF Init, NoSession
<1>2. Lines
  BY <1>0, <1>1 DEF Lines, Holds
<1>3. \A d \in Descs : Client(d)
  BY <1>1 DEF Client
<1>4. \A a \in Accounts : OneUse(a) /\ Traced(a)
  <2>1. \A a \in Accounts : BoundTo(a) = {}
    BY <1>1, SetsAssumption DEF BoundTo
  <2>2. \A a \in Accounts : a \notin DOMAIN logon
    BY <1>0, <1>1
  <2> QED
    BY <1>1, <2>1, <2>2, NoneHeld DEF OneUse, Traced
<1> QED
  BY <1>0, <1>1, <1>2, <1>3, <1>4 DEF Orderly, AllTraced

\* Two DESCs that are bound to an account are one.
LEMMA OrderlyOne == Orderly => OneSession
<1> SUFFICES ASSUME Orderly, NEW a \in Accounts PROVE Cardinality(BoundTo(a)) <= 1
  BY DEF OneSession
<1>1. \A d, e \in BoundTo(a) : d = e
  BY DEF Orderly, OneUse
<1>2. CASE BoundTo(a) = {}
  <2>1. Cardinality({}) = 0
    BY FS_EmptySet
  <2> QED
    BY <1>2, <2>1
<1>3. CASE BoundTo(a) # {}
  <2>1. PICK d : BoundTo(a) = {d}
    BY <1>1, <1>3
  <2>2. Cardinality({d}) = 1
    BY FS_Singleton
  <2> QED
    BY <2>1, <2>2
<1> QED
  BY <1>2, <1>3

\* The success and the logout that AllTraced finds are the ones of the property.
LEMMA TracedUse == TypeOK /\ AllTraced => LogonHasSession
<1> SUFFICES ASSUME TypeOK, AllTraced, NEW a \in DOMAIN logon
             PROVE  \E g \in Games : /\ g = ld[logon[a]].conn
                                     /\ \/ \E d \in BoundTo(a) : desc[d].game = g
                                        \/ Under(a, "success", toGame[g]) # {}
                                        \/ Under(a, "logout", toDb[g]) # {}
  BY DEF LogonHasSession
<1>1. PICK g \in Games : LoggedOnAt(a, g) /\ UsedAt(a, g)
  BY DEF AllTraced, Traced, TypeOK, DbOK
<1>2. ASSUME NEW q, Holds(q, Welcome(a)) PROVE Under(a, "success", q) # {}
  BY <1>2 DEF Holds, Welcome, Under
<1>3. ASSUME NEW q, Holds(q, Farewell(a)) PROVE Under(a, "logout", q) # {}
  BY <1>3 DEF Holds, Farewell, Under
<1> QED
  BY <1>1, <1>2, <1>3 DEF LoggedOnAt, UsedAt

\* While no connection breaks between servers that go on, an account is in use
\* by one client at most: for any number of accounts, clients and games, with
\* several logins of an account and of a client at a time, clients that ask for
\* another account as they choose a character or go while a login is under way,
\* game servers that crash and start again, DC commands and keys drawn twice.
\* Nothing but the order of the answers and of the logouts, and the single entry
\* of m_map_kLogonAccount, keeps a second client out.
THEOREM OneSessionEach ==
  ASSUME ConnectionsLast
  PROVE  Spec => []OneSession
<1>1. TypeOK /\ PointersAlive /\ Orderly /\ [Next]_vars => Orderly'
  BY StepOrderly
<1>2. Init => Orderly
  BY InitOrderly
<1> QED
  BY <1>1, <1>2, OrderlyOne, TypeCorrect, PointersStayAlive, PTL DEF Spec

\* Under the same condition, and as long as the db refuses no authentication
\* because of its key and no client asks again, no account is locked out:
\* whatever the db takes for logged in is in use on the game it has recorded, or
\* a success or a logout is on its way there.  A client that is bound to a second
\* account leaves the first logged on, which TLC finds with two accounts.
THEOREM LogonsHaveSessions ==
  ASSUME ConnectionsLast, AsksOnce, "collide" \notin Events
  PROVE  Spec => []LogonHasSession
<1>1. TypeOK /\ PointersAlive /\ (Orderly /\ AllTraced) /\ [Next]_vars => (Orderly /\ AllTraced)'
  BY StepOrderly
<1>2. Init => Orderly /\ AllTraced
  BY InitOrderly
<1>3. TypeOK /\ AllTraced => LogonHasSession
  BY TracedUse
<1> QED
  BY <1>1, <1>2, <1>3, TypeCorrect, PointersStayAlive, PTL DEF Spec
=============================================================================
