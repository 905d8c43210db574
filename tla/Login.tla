-------------------------------- MODULE Login --------------------------------
(* Who is logged in.  The auth server registers every authentication with the  *)
(* db server, which keeps a CLoginData per account under its login key and its *)
(* login name; a client then logs in to a game server with the key, the db     *)
(* server admits it if the account is not in m_map_kLogonAccount, and the game *)
(* binds the account to the client's connection, a DESC.  When the DESC is     *)
(* destroyed the game sends LOGOUT.  A client that finds its account in use    *)
(* makes the game server look for the other session, here or through the P2P   *)
(* connections, and close it.                                                  *)
(*                                                                             *)
(* Each connection between a game and the db is FIFO in both directions.  The  *)
(* answers of the SQL thread come back in the order of the queries.            *)
EXTENDS Naturals, FiniteSets, Sequences, SequencesExt, Functions

CONSTANTS
  Accounts,   \* login names; account ids correspond to them one to one
  Games,      \* game servers
  Descs,      \* client connections of all the games
  Keys,       \* login keys
  LDs,        \* addresses of CLoginData objects
  None,       \* no game, account, key or desc
  MaxQueue,   \* bound of the model: messages and queries under way
  MaxAsks,    \* bound of the model: requests of one client under way
  Events      \* which of the optional behaviours the instance contains

EventKinds == {"crash", "drop", "restart", "dc", "collide", "relogin"}

ASSUME SetsAssumption == None \notin Accounts \cup Games \cup Descs \cup Keys
ASSUME DescsAssumption == IsFiniteSet(Descs)
ASSUME EventsAssumption == Events \subseteq EventKinds /\ MaxQueue \in Nat /\ MaxAsks \in Nat

VARIABLES
  ld,       \* db: the CLoginData objects, by address
  byKey,    \* db: m_map_pkLoginData
  byLogin,  \* db: m_map_pkLoginDataByLogin, and ...ByAID, which agrees with it
  logon,    \* db: m_map_kLogonAccount
  sql,      \* db: queries of logins and player loads that are not answered
  up,       \* the games whose connection to the db is up
  toDb,     \* messages from each game to the db
  toGame,   \* messages from the db to each game
  desc,     \* game: the DESCs
  named,    \* game: m_map_loginName of each game
  kicks     \* HEADER_GG_DISCONNECT messages on their way to each game

db   == <<ld, byKey, byLogin, logon>>
net  == <<sql, up, toDb, toGame>>
game == <<desc, named, kicks>>
vars == <<ld, byKey, byLogin, logon, sql, up, toDb, toGame, desc, named, kicks>>

-----------------------------------------------------------------------------
(* Maps and objects.                                                          *)

\* f with v at i, and std::map::insert, which leaves an entry that is there.
With(f, i, v)   == [j \in DOMAIN f \cup {i} |-> IF j = i THEN v ELSE f[j]]
Insert(f, i, v) == IF i \in DOMAIN f THEN f ELSE With(f, i, v)
Erase(f, S)     == Restrict(f, DOMAIN f \ S)

\* Objects some map points to.  One that is in none is deleted or leaked: its
\* address can be used again, or might as well be.
Pointed == Range(byKey) \cup Range(byLogin) \cup Range(logon)
Unused  == LDs \ Pointed

LoginData(a, k) == [acct |-> a, key |-> k, play |-> FALSE, deleted |-> FALSE, conn |-> None]

Free(d)   == desc[d].st = "free"
NoSession == [st |-> "free", game |-> None, acct |-> None, key |-> None, kicked |-> FALSE]

Send(g, m) == toDb' = IF g \in up THEN [toDb EXCEPT ![g] = Append(@, m)] ELSE toDb
Reply(g, op, m) == toGame' = [toGame EXCEPT ![g] = Append(@, [op |-> op, desc |-> m.desc, acct |-> m.acct])]

Init ==
  /\ ld = << >> /\ byKey = << >> /\ byLogin = << >> /\ logon = << >>
  /\ sql = << >> /\ up = Games
  /\ toDb = [g \in Games |-> << >>] /\ toGame = [g \in Games |-> << >>]
  /\ desc = [d \in Descs |-> NoSession]
  /\ named = [g \in Games |-> << >>]
  /\ kicks = [g \in Games |-> {}]


-----------------------------------------------------------------------------
(* The db server: authentication.                                             *)

\* (mutant) the object is freed although m_map_kLogonAccount points to it.
DeleteLoginData_Free(x) == Erase(ld, {x})

\* An object that is logged in is kept for DeleteLogonAccount to free.
DeleteLoginData(x) ==
  IF ld[x].acct \in DOMAIN logon
  THEN [y \in DOMAIN ld |-> IF y = x THEN [ld[y] EXCEPT !.deleted = TRUE] ELSE ld[y]]
  ELSE Erase(ld, {x})

KeysInUse ==
  DOMAIN byKey \cup {ld[x].key : x \in Pointed} \cup {desc[d].key : d \in Descs}

\* CreateLoginKey: a random number, none that is in use; the db remembers keys
\* longer than the auth server, so the instance may contain collisions.
Draw == IF "collide" \in Events THEN Keys ELSE Keys \ KeysInUse

\* QUERY_AUTH_LOGIN: the account's old object goes, then the new one is refused
\* if its key is taken.
AuthLogin(a, k) ==
  LET old   == IF a \in DOMAIN byLogin THEN {byLogin[a]} ELSE {}
      objs  == IF old = {} THEN ld ELSE DeleteLoginData(byLogin[a])
      keys  == Erase(byKey, {ld[x].key : x \in old})
      names == Erase(byLogin, {a})
      left  == LDs \ (Range(keys) \cup Range(names) \cup Range(logon))
  IN /\ k \in Draw /\ left # {}
     /\ IF k \in DOMAIN keys
        THEN ld' = objs /\ byKey' = keys /\ byLogin' = names
        ELSE LET new == CHOOSE x \in left : TRUE
             IN /\ ld' = With(objs, new, LoginData(a, k))
                /\ byKey' = With(keys, k, new)
                /\ byLogin' = With(names, a, new)
     /\ UNCHANGED <<logon, net, game>>

(* The db server: messages of the games.                                      *)

Take(g, op) ==
  /\ toDb[g] # << >> /\ Head(toDb[g]).op = op
  /\ toDb' = [toDb EXCEPT ![g] = Tail(@)]

Query(op, m, g) == [op |-> op, desc |-> m.desc, acct |-> m.acct, game |-> g]

\* QUERY_LOGIN_BY_KEY.  The client keys agree: they were drawn with the key.
LoginByKey(g) ==
  LET m == Head(toDb[g]) IN
  /\ Take(g, "login")
  /\ \/ /\ m.key \in DOMAIN byKey => ld[byKey[m.key]].acct \notin DOMAIN logon \cup {m.acct}
        /\ Reply(g, "notexist", m) /\ UNCHANGED sql
     \/ /\ m.key \in DOMAIN byKey /\ ld[byKey[m.key]].acct \in DOMAIN logon
        /\ Reply(g, "already", m) /\ UNCHANGED sql
     \/ /\ m.key \in DOMAIN byKey /\ ld[byKey[m.key]].acct \notin DOMAIN logon
        /\ ld[byKey[m.key]].acct = m.acct
        /\ sql' = Append(sql, Query("index", m, g)) /\ UNCHANGED toGame
  /\ UNCHANGED <<db, up, game>>

\* A player is loaded once per session: m_bPlay.
MayPlay(a) == a \in DOMAIN byLogin /\ ~ld[byLogin[a]].play

SetPlay(m, g) ==
  IF MayPlay(m.acct)
  THEN /\ ld' = [ld EXCEPT ![byLogin[m.acct]] = [@ EXCEPT !.play = TRUE]]
       /\ Reply(g, "loaded", m)
  ELSE Reply(g, "loadfailed", m) /\ UNCHANGED ld

\* QUERY_PLAYER_LOAD: the player is in the cache, or is asked for.
PlayerLoad(g) ==
  LET m == Head(toDb[g]) IN
  /\ Take(g, "load")
  /\ \/ SetPlay(m, g) /\ UNCHANGED sql
     \/ sql' = Append(sql, Query("player", m, g)) /\ UNCHANGED <<ld, toGame>>
  /\ UNCHANGED <<byKey, byLogin, logon, up, game>>

\* The objects once those of X have left m_map_kLogonAccount.  The peer handle
\* that stays in them is not read again before it is set.
LoggedOff(X) ==
  [y \in DOMAIN ld \ {x \in X : ld[x].deleted} |->
     IF y \in X THEN [acct |-> ld[y].acct, key |-> ld[y].key, play |-> FALSE,
                      deleted |-> ld[y].deleted, conn |-> None] ELSE ld[y]]

\* QUERY_LOGOUT and DeleteLogonAccount.
Accepted(a, g) == a \in DOMAIN byLogin /\ a \in DOMAIN logon /\ ld[logon[a]].conn = g

Logout(g) ==
  LET a == Head(toDb[g]).acct IN
  /\ Take(g, "logout")
  /\ IF Accepted(a, g)
     THEN ld' = LoggedOff({logon[a]}) /\ logon' = Erase(logon, {a})
     ELSE UNCHANGED <<ld, logon>>
  /\ UNCHANGED <<byKey, byLogin, sql, up, toGame, game>>

\* HEADER_GD_DC: DeleteLoginKey.
DeleteLoginKey(g) ==
  LET a == Head(toDb[g]).acct IN
  /\ Take(g, "dc")
  /\ byKey' = IF a \in DOMAIN byLogin THEN Erase(byKey, {ld[byLogin[a]].key}) ELSE byKey
  /\ UNCHANGED <<ld, byLogin, logon, sql, up, toGame, game>>

\* QUERY_SETUP: the accounts a game holds.  Each gets an object, which enters
\* the maps where it finds room; InsertLogonAccount takes the object that
\* m_map_pkLoginDataByLogin has.  F: the entry that comes first, per account.
Setup(g) ==
  LET L     == Head(toDb[g]).logins
      accts == {e.acct : e \in L}
      new   == CHOOSE f \in [L -> Unused] : IsInjective(f)
      of(x) == CHOOSE e \in L : new[e] = x
      won   == accts \ DOMAIN logon
  IN /\ Take(g, "setup")
     /\ \E f \in [L -> Unused] : IsInjective(f)
     /\ \E F \in SUBSET L :
          /\ \A a \in accts : \E e \in F : /\ e.acct = a
                                          /\ \A o \in F : o.acct = a => o = e
          /\ byKey' = [k \in DOMAIN byKey \cup {e.key : e \in L} |->
                         IF k \in DOMAIN byKey THEN byKey[k] ELSE new[CHOOSE e \in L : e.key = k]]
          /\ byLogin' = [a \in DOMAIN byLogin \cup accts |->
                           IF a \in DOMAIN byLogin THEN byLogin[a]
                           ELSE new[CHOOSE e \in F : e.acct = a]]
          /\ logon' = [a \in DOMAIN logon \cup accts |->
                         IF a \in DOMAIN logon THEN logon[a] ELSE byLogin'[a]]
          /\ ld' = [x \in DOMAIN ld \cup Range(new) |->
                      LET o == IF x \notin Range(new) THEN ld[x]
                               ELSE [LoginData(of(x).acct, of(x).key) EXCEPT
                                       !.play = of(x) \in F /\ of(x).acct \in won]
                      IN IF x \in {byLogin'[a] : a \in won} THEN [o EXCEPT !.conn = g] ELSE o]
     /\ UNCHANGED <<sql, up, toGame, game>>

\* RemovePeer: the accounts of a connection that is gone are logged off, and its
\* queries have nobody to answer to.
Lost(g) ==
  LET theirs == {a \in DOMAIN logon : ld[logon[a]].conn = g}
  IN /\ ld' = LoggedOff({logon[a] : a \in theirs})
     /\ logon' = Erase(logon, theirs)
     /\ sql' = [i \in 1 .. Len(sql) |-> IF sql[i].game = g THEN [sql[i] EXCEPT !.game = None] ELSE sql[i]]
     /\ up' = up \ {g}
     /\ toDb' = [toDb EXCEPT ![g] = << >>]
     /\ toGame' = [toGame EXCEPT ![g] = << >>]
     /\ UNCHANGED <<byKey, byLogin>>

(* The db server: answers to its queries.                                     *)

\* (mutant) the account is not looked up again.
MayLogon_Always(a) == a \in DOMAIN byLogin

\* InsertLogonAccount.
MayLogon(a) == a \notin DOMAIN logon /\ a \in DOMAIN byLogin

\* RESULT_LOGIN_BY_KEY asks for the players, RESULT_LOGIN logs the account in,
\* RESULT_PLAYER_LOAD answers.  A query whose peer is gone is forgotten.
Result ==
  /\ sql # << >>
  /\ LET r == Head(sql) IN
     \/ /\ r.game = None
        /\ sql' = Tail(sql) /\ UNCHANGED <<ld, logon, toGame>>
     \/ /\ r.game # None /\ r.op = "index"
        /\ sql' = Append(Tail(sql), [r EXCEPT !.op = "players"])
        /\ UNCHANGED <<ld, logon, toGame>>
     \/ /\ r.game # None /\ r.op = "players" /\ MayLogon(r.acct)
        /\ sql' = Tail(sql)
        /\ ld' = [ld EXCEPT ![byLogin[r.acct]] = [@ EXCEPT !.conn = r.game]]
        /\ logon' = With(logon, r.acct, byLogin[r.acct])
        /\ Reply(r.game, "success", r)
     \/ /\ r.game # None /\ r.op = "players" /\ ~MayLogon(r.acct)
        /\ sql' = Tail(sql)
        /\ Reply(r.game, "already", r)
        /\ UNCHANGED <<ld, logon>>
     \/ /\ r.game # None /\ r.op = "player"
        /\ sql' = Tail(sql)
        /\ SetPlay(r, r.game)
        /\ UNCHANGED logon
  /\ UNCHANGED <<byKey, byLogin, up, toDb, game>>

-----------------------------------------------------------------------------
(* The game servers: their clients.                                           *)

\* Handles of DESCs are never used again.
Mentions(q, d) == \E i \in 1 .. Len(q) : q[i].op # "setup" /\ q[i].desc = d
NewHandle(d) ==
  Free(d) /\ ~Mentions(sql, d) /\ \A g \in Games : ~Mentions(toDb[g], d) /\ ~Mentions(toGame[g], d)

OnTheWay(d, q) == Cardinality({i \in 1 .. Len(q) : q[i].op # "setup" /\ q[i].desc = d})

\* CInputLogin::LoginByKey of a client with a key the auth server gave it.  Nothing
\* refuses a client that asks again before the answer or as it chooses its character,
\* for the same account or another.
Again(d, g) ==
  /\ "relogin" \in Events /\ desc[d].game = g /\ desc[d].st \in {"asked", "select", "load"}
  /\ OnTheWay(d, sql) + OnTheWay(d, toDb[g]) + OnTheWay(d, toGame[g]) < MaxAsks

SendLogin(d, g, a, k) ==
  /\ k \in DOMAIN byKey /\ ld[byKey[k]].acct = a
  /\ Len(toDb[g]) < MaxQueue /\ Len(sql) < MaxQueue
  /\ \/ /\ NewHandle(d) \/ (desc[d].st = "open" /\ desc[d].game = g)
        /\ desc' = [desc EXCEPT ![d] =
                      [st |-> "asked", game |-> g, acct |-> None, key |-> k, kicked |-> FALSE]]
     \/ /\ Again(d, g)
        /\ desc' = [desc EXCEPT ![d] = [@ EXCEPT !.key = k]]
  /\ Send(g, [op |-> "login", desc |-> d, acct |-> a, key |-> k])
  /\ UNCHANGED <<db, sql, up, toGame, named, kicks>>

\* CInputLogin::CharacterSelect.
Select(d) ==
  LET s == desc[d] IN
  /\ s.st = "select"
  /\ desc' = [desc EXCEPT ![d] = [@ EXCEPT !.st = "load"]]
  /\ Send(s.game, [op |-> "load", desc |-> d, acct |-> s.acct, key |-> None])
  /\ UNCHANGED <<db, sql, up, toGame, named, kicks>>

\* The client goes: PHASE_CLOSE.
Close(d) ==
  /\ desc[d].st \notin {"free", "closing"}
  /\ desc' = [desc EXCEPT ![d] = [@ EXCEPT !.st = "closing"]]
  /\ UNCHANGED <<db, net, named, kicks>>

\* disconnect_event, five seconds after DisconnectOfSameLogin.
KickOver(d) ==
  /\ desc[d].kicked
  /\ desc' = [desc EXCEPT ![d] =
                [st |-> "closing", game |-> @.game, acct |-> @.acct, key |-> @.key, kicked |-> FALSE]]
  /\ UNCHANGED <<db, net, named, kicks>>

Off(a) == [op |-> "logout", desc |-> None, acct |-> a, key |-> None]


\* DisconnectAccount: by login name, whoever's the entry is.
Unnamed(g, a) == [named EXCEPT ![g] = Erase(@, {a})]

\* (mutant) LOGOUT is sent whether or not an account is bound.
Destroy_Always(d) ==
  LET s == desc[d] IN
  /\ s.st = "closing"
  /\ desc' = [desc EXCEPT ![d] = NoSession]
  /\ named' = Unnamed(s.game, s.acct) /\ Send(s.game, Off(s.acct))
  /\ UNCHANGED <<db, sql, up, toGame, kicks>>

\* DestroyClosed and DESC::Destroy.
Destroy(d) ==
  LET s == desc[d] IN
  /\ s.st = "closing"
  /\ desc' = [desc EXCEPT ![d] = NoSession]
  /\ IF s.acct = None THEN UNCHANGED <<named, toDb>>
     ELSE named' = Unnamed(s.game, s.acct) /\ Send(s.game, Off(s.acct))
  /\ UNCHANGED <<db, sql, up, toGame, kicks>>

(* The game servers: answers of the db and messages of other games.           *)

Answer(g, op) ==
  /\ toGame[g] # << >> /\ Head(toGame[g]).op = op
  /\ toGame' = [toGame EXCEPT ![g] = Tail(@)]

\* (mutant) an account whose client is gone is not logged out.
Orphan_Ignored(g, a) == UNCHANGED toDb

\* The client did not wait for LOGIN_SUCCESS.
Orphan(g, a) == Send(g, Off(a))

LoginSuccess(g) ==
  LET m == Head(toGame[g]) IN
  /\ Answer(g, "success")
  /\ IF Free(m.desc)
     THEN Orphan(g, m.acct) /\ UNCHANGED <<desc, named>>
     ELSE /\ desc' = [desc EXCEPT ![m.desc] =
               [st |-> "select", game |-> @.game, acct |-> m.acct, key |-> @.key, kicked |-> @.kicked]]
          /\ named' = [named EXCEPT ![g] = Insert(@, m.acct, m.desc)]
          /\ UNCHANGED toDb
  /\ UNCHANGED <<db, sql, up, kicks>>

\* DisconnectOfSameLogin.  A client that was bound to another account in between left
\* its first name behind; what is written through it once it is destroyed is lost.
Kicked(s) ==
  IF s.st = "free" THEN s
  ELSE IF s.st = "play" THEN [s EXCEPT !.kicked = TRUE] ELSE [s EXCEPT !.st = "closing"]
Failed(s) == IF s.st = "asked" THEN [s EXCEPT !.st = "open"] ELSE s

\* (mutant) only this server's sessions are looked at.
OtherGames_None(g) == {}

OtherGames(g) == Games \ {g}

LoginAlready(g) ==
  LET m     == Head(toGame[g])
      there == m.acct \in DOMAIN named[g]
  IN /\ Answer(g, "already")
     /\ IF Free(m.desc) THEN UNCHANGED <<desc, kicks>>
        ELSE /\ desc' = [d \in Descs |->
                           IF there /\ d = named[g][m.acct] THEN Kicked(desc[d])
                           ELSE IF d = m.desc THEN Failed(desc[d]) ELSE desc[d]]
             /\ kicks' = IF there THEN kicks
                         ELSE [h \in Games |-> IF h \in OtherGames(g) THEN kicks[h] \cup {m.acct} ELSE kicks[h]]
     /\ UNCHANGED <<db, sql, up, toDb, named>>

\* CInputP2P::Disconnect.
Disconnect(g, a) ==
  /\ a \in kicks[g]
  /\ kicks' = [kicks EXCEPT ![g] = @ \ {a}]
  /\ desc' = IF a \in DOMAIN named[g]
             THEN [desc EXCEPT ![named[g][a]] = Kicked(desc[named[g][a]])] ELSE desc
  /\ UNCHANGED <<db, net, named>>

\* LOGIN_NOT_EXIST.
LoginFailure(g) ==
  LET m == Head(toGame[g]) IN
  /\ Answer(g, "notexist")
  /\ desc' = [desc EXCEPT ![m.desc] = Failed(@)]
  /\ UNCHANGED <<db, sql, up, toDb, named, kicks>>

\* CInputDB::PlayerLoad: the character enters, or has no place here.
CharacterLoaded(g) ==
  LET m == Head(toGame[g]) IN
  /\ Answer(g, "loaded")
  /\ IF Free(m.desc) THEN UNCHANGED desc
     ELSE \E s \in {"play", "closing"} : desc' = [desc EXCEPT ![m.desc] = [@ EXCEPT !.st = s]]
  /\ UNCHANGED <<db, sql, up, toDb, named, kicks>>

\* PLAYER_LOAD_FAILED: nobody tells the client.
LoadFailed(g) ==
  /\ Answer(g, "loadfailed")
  /\ UNCHANGED <<db, sql, up, toDb, game>>

\* The admin command DC.
SendDC(g, a) ==
  /\ "dc" \in Events /\ Len(toDb[g]) < MaxQueue
  /\ kicks' = [h \in Games |-> IF h # g THEN kicks[h] \cup {a} ELSE kicks[h]]
  /\ Send(g, [op |-> "dc", desc |-> None, acct |-> a, key |-> None])
  /\ UNCHANGED <<db, sql, up, toGame, desc, named>>

(* Connections and servers.                                                   *)

\* CLIENT_DESC::SetPhase(PHASE_DBCLIENT): the first message names every account
\* that is bound to a DESC.
Connect(g) ==
  /\ g \notin up
  /\ up' = up \cup {g}
  /\ toDb' = [toDb EXCEPT ![g] =
       << [op |-> "setup", logins |-> {[acct |-> desc[d].acct, key |-> desc[d].key] :
                                          d \in {x \in Descs : desc[x].game = g /\ desc[x].acct # None}}] >>]
  /\ UNCHANGED <<db, sql, toGame, game>>

\* The connection breaks; both sides go on.
Drop(g) ==
  /\ "drop" \in Events /\ g \in up
  /\ Lost(g)
  /\ UNCHANGED game

\* A game server dies, and its clients' connections with it.
Crash(g) ==
  /\ "crash" \in Events
  /\ Lost(g)
  /\ desc' = [d \in Descs |-> IF desc[d].game = g THEN NoSession ELSE desc[d]]
  /\ named' = [named EXCEPT ![g] = << >>]
  /\ kicks' = [kicks EXCEPT ![g] = {}]

\* The db server is restarted.
Restart ==
  /\ "restart" \in Events /\ up # {}
  /\ ld' = << >> /\ byKey' = << >> /\ byLogin' = << >> /\ logon' = << >> /\ sql' = << >>
  /\ up' = {}
  /\ toDb' = [g \in Games |-> << >>] /\ toGame' = [g \in Games |-> << >>]
  /\ UNCHANGED game

-----------------------------------------------------------------------------
DbStep(g) ==
  LoginByKey(g) \/ PlayerLoad(g) \/ Logout(g) \/ DeleteLoginKey(g) \/ Setup(g)

GameReads(g) ==
  \/ LoginSuccess(g) \/ LoginAlready(g) \/ LoginFailure(g) \/ CharacterLoaded(g) \/ LoadFailed(g)

Next ==
  \/ \E a \in Accounts, k \in Keys : \/ AuthLogin(a, k)
                                     \/ \E d \in Descs, g \in Games : SendLogin(d, g, a, k)
  \/ \E d \in Descs : Select(d) \/ Close(d) \/ KickOver(d) \/ Destroy(d)
  \/ \E g \in Games : \/ DbStep(g) \/ GameReads(g) \/ Connect(g) \/ Drop(g) \/ Crash(g)
                      \/ \E a \in Accounts : Disconnect(g, a) \/ SendDC(g, a)
  \/ Result \/ Restart

Spec == Init /\ [][Next]_vars

\* Each server reads its sockets on every turn of its loop, the SQL thread
\* answers, and the game's events and DestroyClosed come up.
Fairness ==
  /\ WF_vars(Result)
  /\ \A g \in Games : /\ WF_vars(DbStep(g)) /\ WF_vars(GameReads(g))
                      /\ \A a \in Accounts : WF_vars(Disconnect(g, a))
  /\ \A d \in Descs : WF_vars(KickOver(d)) /\ WF_vars(Destroy(d))

FairSpec == Spec /\ Fairness

-----------------------------------------------------------------------------
(* Properties.                                                                *)

AnyKey   == Keys \cup {None}
Objects  == [acct : Accounts, key : AnyKey, play : BOOLEAN, deleted : BOOLEAN, conn : Games \cup {None}]
Sessions == [st : {"free", "open", "asked", "select", "load", "play", "closing"},
             game : Games \cup {None}, acct : Accounts \cup {None}, key : AnyKey, kicked : BOOLEAN]
Asks     == [op : {"login", "load"}, desc : Descs, acct : Accounts, key : AnyKey]
              \cup [op : {"logout", "dc"}, desc : {None}, acct : Accounts, key : {None}]
              \cup [op : {"setup"}, logins : SUBSET [acct : Accounts, key : AnyKey]]
Tells    == [op : {"success", "already", "notexist", "loaded", "loadfailed"}, desc : Descs, acct : Accounts]
Queries  == [op : {"index", "players", "player"}, desc : Descs, acct : Accounts, game : Games \cup {None}]

DbOK ==
  /\ DOMAIN ld \subseteq LDs /\ ld \in [DOMAIN ld -> Objects]
  /\ DOMAIN byKey \subseteq AnyKey /\ byKey \in [DOMAIN byKey -> LDs]
  /\ DOMAIN byLogin \subseteq Accounts /\ byLogin \in [DOMAIN byLogin -> LDs]
  /\ DOMAIN logon \subseteq Accounts /\ logon \in [DOMAIN logon -> LDs]

NetOK ==
  /\ sql \in Seq(Queries) /\ up \subseteq Games
  /\ toDb \in [Games -> Seq(Asks)] /\ toGame \in [Games -> Seq(Tells)]

GameOK ==
  /\ desc \in [Descs -> Sessions]
  /\ \A d \in Descs : desc[d].st = "select" => desc[d].acct # None
  /\ DOMAIN named = Games
  /\ \A g \in Games : DOMAIN named[g] \subseteq Accounts /\ named[g] \in [DOMAIN named[g] -> Descs]
  /\ kicks \in [Games -> SUBSET Accounts]

\* Every variable keeps its type; a client at the choice of its characters has
\* an account, and whatever is sent to the db names one.
TypeOK == DbOK /\ NetOK /\ GameOK

\* No map of the db points to a CLoginData that was deleted, whatever logs in,
\* authenticates again, breaks or restarts; and an object that waits to be
\* deleted at the logout is in no map but m_map_kLogonAccount.
PointersAlive ==
  /\ Pointed \subseteq DOMAIN ld
  /\ \A k \in DOMAIN byKey : ld[byKey[k]].key = k /\ ~ld[byKey[k]].deleted
  /\ \A a \in DOMAIN byLogin : ld[byLogin[a]].acct = a /\ ~ld[byLogin[a]].deleted
  /\ \A a \in DOMAIN logon : ld[logon[a]].acct = a

\* The sessions of an account: DESCs it is bound to, and logins and logouts
\* that are still on their way.
BoundTo(a) == {d \in Descs : desc[d].acct = a}
Under(a, op, q) == {i \in 1 .. Len(q) : q[i].op = op /\ q[i].acct = a}

\* An account is in use by one client at a time, on one game.
OneSession == \A a \in Accounts : Cardinality(BoundTo(a)) <= 1

\* Nobody is locked out: an account the db takes for logged in has a session, a
\* success or a logout on its way, at the connection the db has recorded.
LogonHasSession ==
  \A a \in DOMAIN logon : \E g \in Games :
    /\ g = ld[logon[a]].conn
    /\ \/ \E d \in BoundTo(a) : desc[d].game = g
       \/ Under(a, "success", toGame[g]) # {}
       \/ Under(a, "logout", toDb[g]) # {}

\* A client that keeps finding the account in use gets it: the other session
\* is closed and logged out.
Asked(a) == \E g \in Games : /\ toGame[g] # << >> /\ Head(toGame[g]).op = "already"
                             /\ Head(toGame[g]).acct = a /\ ~Free(Head(toGame[g]).desc)
                             /\ LoginAlready(g)
LoggedOut == \A a \in Accounts : <>[][~Asked(a)]_vars \/ []<>(a \notin DOMAIN logon)
=============================================================================
