--------------------------- MODULE DbCache_proofs ---------------------------
(* Proofs about DbCache: the type invariant; that the item sets of the db      *)
(* server never hold a pointer to an entry that is gone or that another set   *)
(* holds too, whatever crashes, flushes, stray logouts and restarts happen;   *)
(* and, when none of the optional behaviours but the safebox and the restart  *)
(* happens, that nothing is lost and that what is loaded is current.          *)
EXTENDS DbCache, TLAPS, FiniteSetTheorems, SequenceTheorems, WellFoundedInduction

-----------------------------------------------------------------------------
(* Types of the helpers.                                                      *)

\* Values of the data the statements carry.
LEMMA DataTypes ==
  /\ Absent \in Data
  /\ \A p \in Players, v \in Vals : Bag(p, v) \in Data
  /\ \A a \in Accounts, v \in Vals : InBox(a, v) \in Data
  /\ \A d \in Data : Saved(d) \in Data
  /\ \A d \in Data, b \in BOOLEAN : Fresh(d, b) \in Entry
  /\ \A e \in Entry : Flushed(e) \in Entry /\ Older(e) \in Entry /\ Erased(e) \in Entry
<1>1. Absent \in Data
  BY ValsAssumption DEF Absent, Data, Places, Owners
<1>2. \A p \in Players, v \in Vals : Bag(p, v) \in Data
  BY DEF Bag, Data, Places, Owners
<1>3. \A a \in Accounts, v \in Vals : InBox(a, v) \in Data
  BY DEF InBox, Data, Places, Owners
<1>4. \A d \in Data : Saved(d) \in Data
  BY <1>1 DEF Saved
<1>5. \A d \in Data, b \in BOOLEAN : Fresh(d, b) \in Entry
  BY SecsAssumption DEF Fresh, Entry
<1>6. ASSUME NEW e \in Entry PROVE Flushed(e) \in Entry
  BY <1>5 DEF Flushed, Entry
<1>8. ASSUME NEW e \in Entry PROVE Erased(e) \in Entry
  <2> DEFINE d == e.data
  <2>1. d \in Data /\ "gone" \in Places
    BY DEF Entry, Places
  <2>2. [d EXCEPT !.at = "gone"] \in Data
    BY <2>1 DEF Data
  <2> QED
    BY <2>2 DEF Erased, Entry
<1>7. ASSUME NEW e \in Entry PROVE Older(e) \in Entry
  <2>1. CASE e.age > ItemSecs
    BY <2>1 DEF Older
  <2>2. CASE ~(e.age > ItemSecs)
    <3>1. e.age + 1 \in 0 .. ItemSecs + 1
      BY <2>2, SecsAssumption DEF Entry
    <3> QED
      BY <2>2, <3>1 DEF Older, Entry
  <2> QED
    BY <2>1, <2>2
<1> QED
  BY <1>1, <1>2, <1>3, <1>4, <1>5, <1>6, <1>7, <1>8

\* A map with one more key, or one changed.
LEMMA WithType ==
  ASSUME NEW T, NEW f, f \in [DOMAIN f -> T], NEW i, NEW v \in T
  PROVE  /\ With(f, i, v) \in [DOMAIN f \cup {i} -> T]
         /\ DOMAIN With(f, i, v) = DOMAIN f \cup {i}
BY DEF With

\* A map with fewer keys.
LEMMA RestrictType ==
  ASSUME NEW T, NEW f, f \in [DOMAIN f -> T], NEW S, S \subseteq DOMAIN f
  PROVE  Restrict(f, S) \in [S -> T] /\ DOMAIN Restrict(f, S) = S
BY DEF Restrict

\* A nonempty set of positions of a sequence has a last one.
LEMMA LastPosition ==
  ASSUME NEW n \in Nat, NEW S, S \subseteq 1 .. n, S # {}
  PROVE  \E k \in S : \A l \in S : l <= k
<1> DEFINE D == {n - k : k \in S}
<1>1. D # {} /\ D \subseteq Nat
  <2>1. \A k \in S : k \in Nat /\ k <= n /\ n - k \in Nat
    OBVIOUS
  <2>2. PICK k \in S : TRUE
    OBVIOUS
  <2>3. n - k \in D
    OBVIOUS
  <2> QED
    BY <2>1, <2>3
<1>2. PICK d \in D : \A e \in D : ~(<<e, d>> \in OpToRel(<, Nat))
  BY <1>1, NatLessThanWellFounded, WFMin
<1>3. \A e \in D : ~(e < d)
  BY <1>1, <1>2 DEF OpToRel
<1>4. PICK k \in S : d = n - k
  OBVIOUS
<1>5. \A l \in S : l <= k
  BY <1>3, <1>4
<1> QED
  BY <1>5

\* The row an item will have is a row.
LEMMA LastWrittenType ==
  ASSUME NEW i \in Items, TypeOK
  PROVE  LastWritten(i) \in Data
<1>1. row[i] \in Data /\ queue \in Seq(Puts \cup Reads)
  BY DEF TypeOK
<1>2. CASE Queued(i) = {}
  BY <1>1, <1>2 DEF LastWritten
<1>3. CASE Queued(i) # {}
  <2>1. Len(queue) \in Nat /\ Queued(i) \subseteq 1 .. Len(queue)
    BY <1>1 DEF Queued
  <2> DEFINE k == CHOOSE k \in Queued(i) : \A l \in Queued(i) : l <= k
  <2>2. k \in Queued(i)
    BY <1>3, <2>1, LastPosition
  <2>3. queue[k] \in Puts
    BY <1>1, <2>1, <2>2 DEF Queued, Reads
  <2> QED
    BY <1>3, <2>3 DEF LastWritten, Puts
<1> QED
  BY <1>2, <1>3

\* OnFlush of a set of entries is a sequence of writes.
LEMMA WritesType ==
  ASSUME TypeOK, NEW S, S \subseteq DOMAIN cache
  PROVE  Writes(S) \in Seq(Puts \cup Reads)
<1> DEFINE s == SetToSeq(S)
<1>1. IsFiniteSet(S) /\ Cardinality(S) \in Nat
  BY ItemsAssumption, FS_Subset, FS_CardinalityType DEF TypeOK
<1>2. \E f : f \in [1 .. Cardinality(S) -> S] /\ IsInjective(f)
  <2>1. ExistsBijection(1 .. Cardinality(S), S)
    BY <1>1, FS_CardinalityType
  <2> QED
    BY <2>1 DEF ExistsBijection, Bijection, Injection, Surjection, IsInjective
<1>3. s \in [1 .. Cardinality(S) -> S]
  BY <1>2 DEF SetToSeq
<1>4. Len(s) = Cardinality(S)
  BY <1>1, <1>3
<1>5. \A k \in 1 .. Len(s) : Put(s[k], cache[s[k]].data) \in Puts
  BY <1>3, <1>4 DEF Put, Puts, TypeOK, Entry
<1>6. Writes(S) = [k \in 1 .. Len(s) |-> Put(s[k], cache[s[k]].data)]
  BY DEF Writes
<1> QED
  BY <1>1, <1>4, <1>5, <1>6

\* What a select finds is a set of items and values.
LEMMA FoundType ==
  ASSUME TypeOK, NEW at, NEW w
  PROVE  Found(row, at, w) \in SUBSET (Items \X Vals)
BY DEF TypeOK, Found, Data

\* Redirecting keeps statements statements and answers answers.
LEMMA RedirectType ==
  ASSUME NEW S, NEW to \in Ways
  PROVE  /\ queue \in Seq(Puts \cup Reads) => Redirect(queue, S, to) \in Seq(Puts \cup Reads)
         /\ res \in Seq(Answers) => Redirect(res, S, to) \in Seq(Answers)
<1>1. \A x \in Reads : [x EXCEPT !.to = to] \in Reads
  BY DEF Reads
<1>2. \A x \in Answers : [x EXCEPT !.to = to] \in Answers
  BY DEF Answers
<1>3. \A x \in Puts \cup Reads : x.op # "put" => x \in Reads
  BY DEF Puts
<1> QED
  BY <1>1, <1>2, <1>3 DEF Redirect

-----------------------------------------------------------------------------
(* The type invariant.                                                        *)

\* The part of the type invariant about the item cache, and about the
\* statements, which most handlers change together.
CacheOK ==
  /\ DOMAIN cache \subseteq Items /\ cache \in [DOMAIN cache -> Entry]
  /\ DOMAIN sets \subseteq Players /\ sets \in [DOMAIN sets -> SUBSET Items]
  /\ queue \in Seq(Puts \cup Reads)

\* Linking an entry to its owner keeps the sets sets of items.
LEMMA RelinkedType ==
  ASSUME TypeOK, NEW i \in Items, NEW d
  PROVE  /\ DOMAIN Relinked(i, d) = DOMAIN sets
         /\ Relinked(i, d) \in [DOMAIN sets -> SUBSET Items]
BY DEF TypeOK, Relinked

\* A statement more.
LEMMA AppendPut ==
  ASSUME TypeOK, NEW i \in Items, NEW d \in Data
  PROVE  Append(queue, Put(i, d)) \in Seq(Puts \cup Reads)
<1>1. Put(i, d) \in Puts
  BY DEF Put, Puts
<1> QED
  BY <1>1 DEF TypeOK

\* The seconds of an entry's flush timer.
LEMMA AgeType ==
  ASSUME TypeOK, NEW i
  PROVE  Age(i) \in 0 .. ItemSecs + 1
BY SecsAssumption DEF TypeOK, Age, Entry

\* A save, or a destruction, handled by the db server.
LEMMA SaveType ==
  ASSUME TypeOK, NEW i \in Items, NEW d \in Data, SaveSingleItem(i, d)
  PROVE  CacheOK'
<1>0. /\ DOMAIN cache \subseteq Items /\ cache \in [DOMAIN cache -> Entry]
      /\ DOMAIN sets \subseteq Players /\ sets \in [DOMAIN sets -> SUBSET Items]
      /\ queue \in Seq(Puts \cup Reads)
  BY DEF TypeOK
<1>1. CASE PutItemCache(i, d)
  <2> DEFINE new == [data |-> d, dirty |-> d.who \in DOMAIN sets, age |-> Age(i)]
  <2>1. Age(i) \in 0 .. ItemSecs + 1
    BY AgeType
  <2>2. new \in Entry
    BY <2>1 DEF Entry
  <2>3. cache' = With(cache, i, new) /\ sets' = Relinked(i, d)
    BY <1>1 DEF PutItemCache
  <2> HIDE DEF new
  <2>a. /\ With(cache, i, new) \in [DOMAIN cache \cup {i} -> Entry]
        /\ DOMAIN With(cache, i, new) = DOMAIN cache \cup {i}
    BY <1>0, <2>2 DEF With
  <2>4. DOMAIN cache' \subseteq Items /\ cache' \in [DOMAIN cache' -> Entry]
    BY <1>0, <2>3, <2>a
  <2>5. DOMAIN sets' \subseteq Players /\ sets' \in [DOMAIN sets' -> SUBSET Items]
    BY <1>0, <2>3, RelinkedType
  <2>6. queue' \in Seq(Puts \cup Reads)
    BY <1>0, <1>1, AppendPut DEF PutItemCache
  <2> QED
    BY <2>4, <2>5, <2>6 DEF CacheOK
<1>2. CASE PutBoxItem(i, d)
  <2>1. DOMAIN cache' \subseteq Items /\ cache' \in [DOMAIN cache' -> Entry]
    BY <1>0, <1>2 DEF PutBoxItem, Restrict
  <2>2. DOMAIN sets' \subseteq Players /\ sets' \in [DOMAIN sets' -> SUBSET Items]
    BY <1>0, <1>2 DEF PutBoxItem
  <2>3. queue' \in Seq(Puts \cup Reads)
    BY <1>2, AppendPut DEF PutBoxItem
  <2> QED
    BY <2>1, <2>2, <2>3 DEF CacheOK
<1>3. CASE DeleteItem(i)
  <2>1. \A j \in DOMAIN cache : Erased(cache[j]) \in Entry
    BY <1>0, DataTypes
  <2>2. DOMAIN cache' \subseteq Items /\ cache' \in [DOMAIN cache' -> Entry]
    BY <1>0, <1>3, <2>1 DEF DeleteItem
  <2>3. queue' \in Seq(Puts \cup Reads)
    BY <1>0, <1>3, AppendPut, DataTypes DEF DeleteItem
  <2> QED
    BY <1>0, <1>3, <2>2, <2>3 DEF CacheOK, DeleteItem
<1> QED
  BY <1>1, <1>2, <1>3 DEF SaveSingleItem

\* The initial state.
LEMMA InitTyped == Init => TypeOK
<1> SUFFICES ASSUME Init PROVE TypeOK
  OBVIOUS
<1>1. row \in [Items -> Data] /\ held \in [Items -> Data]
  BY DataTypes, ValsAssumption DEF Init
<1>2. /\ DOMAIN << >> = {} /\ \A T : << >> \in [{} -> T] /\ << >> \in Seq(T)
  OBVIOUS
<1> QED
  BY <1>1, <1>2 DEF Init, TypeOK

\* What a load brings into the cache.
LEMMA ItemLoadType ==
  ASSUME TypeOK, NEW p \in Players, NEW items \in SUBSET (Items \X Vals), ItemLoad(p, items)
  PROVE  /\ DOMAIN cache' \subseteq Items /\ cache' \in [DOMAIN cache' -> Entry]
         /\ DOMAIN sets' \subseteq Players /\ sets' \in [DOMAIN sets' -> SUBSET Items]
<1> DEFINE ids     == {x[1] : x \in items}
           read(i) == Bag(p, (CHOOSE x \in items : x[1] = i)[2])
           old     == IF p \in DOMAIN sets THEN sets[p] ELSE {}
<1>1. /\ DOMAIN cache \subseteq Items /\ cache \in [DOMAIN cache -> Entry]
      /\ DOMAIN sets \subseteq Players /\ sets \in [DOMAIN sets -> SUBSET Items]
  BY DEF TypeOK
<1>2. ids \subseteq Items
  OBVIOUS
<1>3. ASSUME NEW i \in ids
      PROVE  read(i) \in Data
  <2>1. \E x \in items : x[1] = i
    OBVIOUS
  <2>2. (CHOOSE x \in items : x[1] = i) \in items
    BY <2>1
  <2>3. (CHOOSE x \in items : x[1] = i)[2] \in Vals
    BY <2>2
  <2> QED
    BY <2>3, DataTypes
<1>4. ASSUME NEW i \in ids, i \in DOMAIN cache
      PROVE  [cache[i] EXCEPT !.data = read(i)] \in Entry
  <2> HIDE DEF read
  <2> QED
    BY <1>1, <1>3, <1>4 DEF Entry
<1>5. \A i \in ids : Fresh(read(i), FALSE) \in Entry
  BY <1>3, DataTypes
<1>6. /\ cache' = [i \in DOMAIN cache \cup ids |->
                     IF i \notin ids THEN cache[i]
                     ELSE IF i \in DOMAIN cache THEN [cache[i] EXCEPT !.data = read(i)]
                     ELSE Fresh(read(i), FALSE)]
      /\ sets' = [q \in DOMAIN sets \cup {p} |->
                    IF q = p THEN old \cup ids ELSE sets[q] \ ids]
  BY DEF ItemLoad
<1> HIDE DEF ids, read
<1>7. DOMAIN cache' \subseteq Items /\ cache' \in [DOMAIN cache' -> Entry]
  BY <1>1, <1>2, <1>4, <1>5, <1>6
<1>8. DOMAIN sets' \subseteq Players /\ sets' \in [DOMAIN sets' -> SUBSET Items]
  BY <1>1, <1>2, <1>6
<1> QED
  BY <1>7, <1>8

\* The entries that are flushed with a player are cached.
LEMMA DroppedCached ==
  ASSUME LinksAlive, NEW L
  PROVE  Dropped(L) \subseteq DOMAIN cache
BY DEF LinksAlive, Dropped

\* A step preserves the types: one step of the proof per action.
LEMMA StepTyped == TypeOK /\ LinksAlive /\ [Next]_vars => TypeOK'
<1> SUFFICES ASSUME TypeOK, LinksAlive, [Next]_vars PROVE TypeOK'
  OBVIOUS
<1>0. /\ held \in [Items -> Data] /\ pend \subseteq Items
      /\ st \in [Players -> {"off", "load", "play", "leaving"}]
      /\ box \in [Accounts -> {"shut", "wait", "open"}]
      /\ DOMAIN cache \subseteq Items /\ cache \in [DOMAIN cache -> Entry]
      /\ DOMAIN sets \subseteq Players /\ sets \in [DOMAIN sets -> SUBSET Items]
      /\ pcache \subseteq Players
      /\ DOMAIN out \subseteq Players /\ out \in [DOMAIN out -> 0 .. LogoutSecs]
      /\ row \in [Items -> Data]
      /\ queue \in Seq(Puts \cup Reads) /\ res \in Seq(Answers)
  BY DEF TypeOK
<1>1. ASSUME NEW p \in Players, Load(p) PROVE TypeOK'
  <2>1. Append(queue, Select("bag", p)) \in Seq(Puts \cup Reads)
    <3>1. Select("bag", p) \in Reads
      BY DEF Select, Reads, Ways
    <3> QED
      BY <1>0, <3>1
  <2>2. DOMAIN out' \subseteq Players /\ out' \in [DOMAIN out' -> 0 .. LogoutSecs]
    BY <1>0, <1>1 DEF Load, DeleteLogoutPlayer, Restrict
  <2>3. st' \in [Players -> {"off", "load", "play", "leaving"}]
    BY <1>0, <1>1 DEF Load
  <2>4. queue' \in Seq(Puts \cup Reads)
    BY <1>0, <1>1, <2>1 DEF Load
  <2>5. UNCHANGED <<held, pend, box, cache, sets, pcache, row, res>>
    BY <1>1 DEF Load
  <2> QED
    BY <1>0, <2>2, <2>3, <2>4, <2>5 DEF TypeOK
<1>2. ASSUME NEW p \in Players, OpenBox(p) PROVE TypeOK'
  <2>1. AcctOf[p] \in Accounts
    BY AcctAssumption
  <2>2. Append(queue, Select("safebox", AcctOf[p])) \in Seq(Puts \cup Reads)
    <3>1. Select("safebox", AcctOf[p]) \in Reads
      BY <2>1 DEF Select, Reads, Ways
    <3> QED
      BY <1>0, <3>1
  <2> QED
    BY <1>0, <1>2, <2>1, <2>2 DEF TypeOK, OpenBox
<1>3. ASSUME NEW p \in Players, SavePlayer(p) PROVE TypeOK'
  BY <1>0, <1>3 DEF TypeOK, SavePlayer, PutPlayerCache, game, sql
<1>4. ASSUME NEW p \in Players, Disconnect(p) PROVE TypeOK'
  BY <1>0, <1>4 DEF TypeOK, Disconnect, PutPlayerCache, sql
<1>5. ASSUME NEW p \in Players, Logout(p) PROVE TypeOK'
  <2>1. AcctOf[p] \in Accounts /\ "peer" \in Ways
    BY AcctAssumption DEF Ways
  <2>2. queue' \in Seq(Puts \cup Reads) /\ res' \in Seq(Answers)
    BY <1>0, <1>5, <2>1, RedirectType DEF Logout
  <2>3. DOMAIN out' \subseteq Players /\ out' \in [DOMAIN out' -> 0 .. LogoutSecs]
    BY <1>0, <1>5, SecsAssumption DEF Logout, NoteLogout
  <2> QED
    BY <1>0, <1>5, <2>1, <2>2, <2>3 DEF TypeOK, Logout
<1>6. ASSUME NEW p \in Players, FlushCache(p) PROVE TypeOK'
  <2>1. DirtyIn(Dropped({p})) \subseteq DOMAIN cache
    BY DroppedCached DEF DirtyIn
  <2>2. Writes(DirtyIn(Dropped({p}))) \in Seq(Puts \cup Reads)
    BY <2>1, WritesType
  <2>3. queue' \in Seq(Puts \cup Reads)
    BY <1>0, <1>6, <2>2 DEF FlushCache
  <2> QED
    BY <1>0, <1>6, <2>3 DEF TypeOK, FlushCache, game, Restrict
<1>7. ASSUME NEW a \in Accounts, StrayLogout(a) PROVE TypeOK'
  <2>1. DOMAIN out' \subseteq Players /\ out' \in [DOMAIN out' -> 0 .. LogoutSecs]
    BY <1>0, <1>7, SecsAssumption DEF StrayLogout, NoteLogout
  <2> QED
    BY <1>0, <1>7, <2>1 DEF TypeOK, StrayLogout, game, sql
<1>8. ASSUME NEW i \in Items, Use(i) PROVE TypeOK'
  <2>1. held' \in [Items -> Data]
    <3>1. PICK v \in Vals : held' = [held EXCEPT ![i].val = v]
      BY <1>8 DEF Use
    <3>2. [held[i] EXCEPT !.val = v] \in Data
      BY <1>0 DEF Data
    <3> QED
      BY <1>0, <3>1, <3>2
  <2> QED
    BY <1>0, <1>8, <2>1 DEF TypeOK, Use, sql
<1>9. ASSUME NEW i \in Items, NEW d \in Data, Moved(i, d) PROVE TypeOK'
  <2>1. CacheOK'
    BY <1>9, SaveType DEF Moved
  <2> QED
    BY <1>0, <1>9, <2>1 DEF TypeOK, Moved, CacheOK
<1>10. ASSUME NEW i \in Items
       PROVE  held[i].at \in Places /\ held[i].who \in Owners /\ held[i].val \in Vals
  BY <1>0 DEF Data
<1>11. ASSUME NEW i \in Items, NEW p \in Players, Exchange(i, p) PROVE TypeOK'
  BY <1>9, <1>10, <1>11, DataTypes DEF Exchange
<1>12. ASSUME NEW i \in Items, Drop(i) PROVE TypeOK'
  <2>1. [at |-> "ground", who |-> NoOne, val |-> held[i].val] \in Data
    BY <1>10 DEF Data, Places, Owners
  <2> QED
    BY <1>9, <1>12, <2>1 DEF Drop
<1>13. ASSUME NEW i \in Items, Vanish(i) PROVE TypeOK'
  BY <1>9, <1>13, DataTypes DEF Vanish
<1>14. ASSUME NEW i \in Items, CheckIn(i) PROVE TypeOK'
  <2>1. AcctOf[held[i].who] \in Accounts
    BY <1>14, AcctAssumption DEF CheckIn, Carried, InPlay
  <2> QED
    BY <1>9, <1>10, <1>14, <2>1, DataTypes DEF CheckIn
<1>15. ASSUME NEW i \in Items, SavePending(i) PROVE TypeOK'
  <2>1. CacheOK'
    BY <1>0, <1>15, SaveType DEF SavePending
  <2> QED
    BY <1>0, <1>15, <2>1 DEF TypeOK, SavePending, CacheOK
<1>16. ASSUME NEW i \in Items, NEW p \in Players, PickUp(i, p) PROVE TypeOK'
  <2>1. held' \in [Items -> Data]
    BY <1>0, <1>10, <1>16, DataTypes DEF PickUp
  <2> QED
    BY <1>0, <1>16, <2>1 DEF TypeOK, PickUp, sql
<1>17. ASSUME NEW i \in Items, NEW p \in Players, CheckOut(i, p) PROVE TypeOK'
  <2> DEFINE d   == Bag(p, held[i].val)
             new == [data |-> d, dirty |-> FALSE,
                     age |-> IF d.who \in DOMAIN sets THEN 0 ELSE Age(i)]
  <2>1. d \in Data /\ new \in Entry
    BY <1>10, DataTypes, AgeType, SecsAssumption DEF Entry
  <2>2. held' \in [Items -> Data]
    BY <1>0, <1>17, <2>1 DEF CheckOut
  <2>3. /\ cache' = With(cache, i, new) /\ sets' = Relinked(i, d)
        /\ queue' = Append(queue, Put(i, d))
    BY <1>17 DEF CheckOut, SaveAndFlush
  <2> HIDE DEF d, new
  <2>4. DOMAIN cache' \subseteq Items /\ cache' \in [DOMAIN cache' -> Entry]
    BY <1>0, <2>1, <2>3 DEF With
  <2>5. DOMAIN sets' \subseteq Players /\ sets' \in [DOMAIN sets' -> SUBSET Items]
    BY <1>0, <2>3, RelinkedType
  <2>6. queue' \in Seq(Puts \cup Reads)
    BY <2>1, <2>3, AppendPut
  <2> QED
    BY <1>0, <1>17, <2>2, <2>4, <2>5, <2>6 DEF TypeOK, CheckOut
<1>18. ASSUME GameCrash PROVE TypeOK'
  <2>1. held' \in [Items -> Data]
    <3>1. \A i \in Items : Believed(i) \in Data
      BY <1>0, LastWrittenType DEF Believed, Entry
    <3> QED
      BY <1>18, <3>1, DataTypes DEF GameCrash
  <2>2. queue' \in Seq(Puts \cup Reads) /\ res' \in Seq(Answers)
    <3>1. "none" \in Ways
      BY DEF Ways
    <3> QED
      BY <1>0, <1>18, <3>1, RedirectType DEF GameCrash
  <2> QED
    BY <1>0, <1>18, <2>1, <2>2 DEF TypeOK, GameCrash
<1>19. ASSUME Restart PROVE TypeOK'
  <2>1. "none" \in Ways /\ DirtyIn(DOMAIN cache) \subseteq DOMAIN cache
    BY DEF Ways, DirtyIn
  <2>2. queue' \in Seq(Puts \cup Reads) /\ res' \in Seq(Answers)
    <3>1. /\ Redirect(queue, Players, "none") \in Seq(Puts \cup Reads)
          /\ Redirect(res, Players, "none") \in Seq(Answers)
      BY <1>0, <2>1, RedirectType
    <3>2. Writes(DirtyIn(DOMAIN cache)) \in Seq(Puts \cup Reads)
      BY <2>1, WritesType
    <3> QED
      BY <1>19, <3>1, <3>2 DEF Restart
  <2>3. DOMAIN << >> = {} /\ \A T : << >> \in [{} -> T]
    OBVIOUS
  <2> QED
    BY <1>0, <1>19, <2>2, <2>3 DEF TypeOK, Restart, game
<1>20. ASSUME Second PROVE TypeOK'
  <2> DEFINE over == {p \in DOMAIN out : LogoutOver(p)}
  <2>1. PICK T \in SUBSET pcache :
          \E byTimer \in UpdateItemCache(DirtyIn(Dropped(T))) :
            LET F == DirtyIn(Dropped(T)) \cup byTimer \cup DirtyIn(Dropped(over)) IN
            /\ queue' = queue \o Writes(F)
            /\ cache' = [i \in DOMAIN cache \ Dropped(over) |->
                           IF i \in F THEN Flushed(cache[i]) ELSE Older(cache[i])]
            /\ sets' = Restrict(sets, DOMAIN sets \ over)
            /\ pcache' = pcache \ over
            /\ out' = [p \in DOMAIN out \ over |-> out[p] + 1]
    BY <1>20 DEF Second
  <2>2. PICK byTimer \in UpdateItemCache(DirtyIn(Dropped(T))) :
            LET F == DirtyIn(Dropped(T)) \cup byTimer \cup DirtyIn(Dropped(over)) IN
            /\ queue' = queue \o Writes(F)
            /\ cache' = [i \in DOMAIN cache \ Dropped(over) |->
                           IF i \in F THEN Flushed(cache[i]) ELSE Older(cache[i])]
            /\ sets' = Restrict(sets, DOMAIN sets \ over)
            /\ pcache' = pcache \ over
            /\ out' = [p \in DOMAIN out \ over |-> out[p] + 1]
    BY <2>1
  <2> DEFINE F == DirtyIn(Dropped(T)) \cup byTimer \cup DirtyIn(Dropped(over))
  <2>3. F \subseteq DOMAIN cache
    BY DroppedCached DEF UpdateItemCache, DirtyIn
  <2>4. queue' \in Seq(Puts \cup Reads)
    <3> HIDE DEF F
    <3>1. queue' = queue \o Writes(F)
      BY <2>2 DEF F
    <3>2. Writes(F) \in Seq(Puts \cup Reads)
      BY <2>3, WritesType
    <3> QED
      BY <1>0, <3>1, <3>2
  <2>5. DOMAIN cache' \subseteq Items /\ cache' \in [DOMAIN cache' -> Entry]
    <3>1. \A i \in DOMAIN cache : Flushed(cache[i]) \in Entry /\ Older(cache[i]) \in Entry
      BY <1>0, DataTypes
    <3> HIDE DEF F, over
    <3> QED
      BY <1>0, <2>2, <3>1 DEF F
  <2>6. DOMAIN out' \subseteq Players /\ out' \in [DOMAIN out' -> 0 .. LogoutSecs]
    <3>1. \A p \in DOMAIN out \ over : out[p] + 1 \in 0 .. LogoutSecs
      BY <1>0, SecsAssumption DEF LogoutOver
    <3> HIDE DEF F, over
    <3> QED
      BY <1>0, <2>2, <3>1
  <2>7. DOMAIN sets' \subseteq Players /\ sets' \in [DOMAIN sets' -> SUBSET Items]
    BY <1>0, <2>2 DEF Restrict
  <2>8. pcache' \subseteq Players
    BY <1>0, <2>2
  <2>9. UNCHANGED <<held, pend, st, box, row, res>>
    BY <1>20 DEF Second, game
  <2> QED
    BY <1>0, <2>4, <2>5, <2>6, <2>7, <2>8, <2>9 DEF TypeOK
<1>21. ASSUME Execute PROVE TypeOK'
  <2> DEFINE s == Head(queue)
  <2>1. s \in Puts \cup Reads /\ queue' \in Seq(Puts \cup Reads)
    BY <1>0, <1>21 DEF Execute
  <2>2. UNCHANGED <<held, pend, st, box, cache, sets, pcache, out>>
    BY <1>21 DEF Execute, game
  <2>3. CASE s.op = "put" /\ row' = [row EXCEPT ![s.item] = s.data] /\ res' = res
    <3>1. s \in Puts
      BY <2>1, <2>3 DEF Reads
    <3>2. s.data \in Data /\ s.item \in Items
      BY <3>1 DEF Puts
    <3>3. row' \in [Items -> Data]
      BY <1>0, <2>3, <3>2
    <3> QED
      BY <1>0, <2>1, <2>2, <2>3, <3>3 DEF TypeOK
  <2>4. CASE s.op # "put" /\ row' = row /\
             res' = Append(res, [op |-> s.op, who |-> s.who, to |-> s.to,
                       items |-> IF s.op = "safebox" THEN {} ELSE Found(row, s.op, s.who)])
    <3>1. s \in Reads
      BY <2>1, <2>4 DEF Puts
    <3> DEFINE items == IF s.op = "safebox" THEN {} ELSE Found(row, s.op, s.who)
    <3>2. items \in SUBSET (Items \X Vals)
      BY FoundType
    <3> HIDE DEF items
    <3>3. [op |-> s.op, who |-> s.who, to |-> s.to, items |-> items] \in Answers
      BY <3>1, <3>2 DEF Reads, Answers
    <3>4. res' \in Seq(Answers)
      BY <1>0, <2>4, <3>3 DEF items
    <3> QED
      BY <1>0, <2>1, <2>2, <2>4, <3>4 DEF TypeOK
  <2> QED
    BY <1>21, <2>3, <2>4 DEF Execute
<1>22. ASSUME Pop PROVE TypeOK'
  <2> DEFINE r == Head(res)
  <2>1. r \in Answers /\ res' \in Seq(Answers)
    BY <1>0, <1>22 DEF Pop
  <2>2. UNCHANGED <<held, pend, pcache, out, row>>
    BY <1>22 DEF Pop
  <2>3. /\ r.op = "bag" => r.who \in Players
        /\ r.op # "bag" => r.who \in Accounts
        /\ r.items \in SUBSET (Items \X Vals) /\ r.to \in Ways
    BY <2>1 DEF Answers
  <2>4. st' \in [Players -> {"off", "load", "play", "leaving"}]
    BY <1>0, <1>22, <2>3 DEF Pop
  <2>5. box' \in [Accounts -> {"shut", "wait", "open"}]
    BY <1>0, <1>22, <2>3 DEF Pop
  <2>6. CASE r.op = "bag" /\ ItemLoad(r.who, r.items) /\ queue' = queue
    <3>1. /\ DOMAIN cache' \subseteq Items /\ cache' \in [DOMAIN cache' -> Entry]
          /\ DOMAIN sets' \subseteq Players /\ sets' \in [DOMAIN sets' -> SUBSET Items]
      BY <2>3, <2>6, ItemLoadType
    <3> QED
      BY <1>0, <2>1, <2>2, <2>4, <2>5, <2>6, <3>1 DEF TypeOK
  <2>7. CASE /\ r.op = "safebox" /\ UNCHANGED <<cache, sets>>
             /\ queue' = Append(queue, [Select("box", r.who) EXCEPT !.to = r.to])
    <3> DEFINE s == Select("box", r.who)
    <3>1. s \in Reads /\ s \in [op : {"box"}, who : Accounts, to : Ways]
      BY <2>3, <2>7 DEF Select, Reads, Ways
    <3> HIDE DEF s, r
    <3>2. [s EXCEPT !.to = r.to] \in Reads
      BY <2>3, <3>1 DEF Reads
    <3>3. queue' \in Seq(Puts \cup Reads)
      BY <1>0, <2>7, <3>2 DEF s
    <3> QED
      BY <1>0, <2>1, <2>2, <2>4, <2>5, <2>7, <3>3 DEF TypeOK
  <2>8. CASE UNCHANGED <<cache, sets, queue>>
    BY <1>0, <2>1, <2>2, <2>4, <2>5, <2>8 DEF TypeOK
  <2> QED
    BY <1>22, <2>6, <2>7, <2>8 DEF Pop
<1>23. CASE UNCHANGED vars
  BY <1>0, <1>23 DEF TypeOK, vars, sql
<1> QED
  BY <1>1, <1>2, <1>3, <1>4, <1>5, <1>6, <1>7, <1>8, <1>11, <1>12, <1>13, <1>14, <1>15,
     <1>16, <1>17, <1>18, <1>19, <1>20, <1>21, <1>22, <1>23 DEF Next

-----------------------------------------------------------------------------
(* The item sets.                                                             *)

\* A change of the owner of an entry, with the sets linked anew.
LEMMA RelinkedAlive ==
  ASSUME TypeOK, LinksAlive, NEW i \in Items, NEW d,
         DOMAIN cache' = DOMAIN cache \cup {i}, cache'[i].data = d,
         \A j \in DOMAIN cache \ {i} : cache'[j] = cache[j],
         sets' = Relinked(i, d)
  PROVE  LinksAlive'
<1>0. /\ sets \in [DOMAIN sets -> SUBSET Items]
      /\ \A p \in DOMAIN sets : \A j \in sets[p] : j \in DOMAIN cache /\ cache[j].data.who = p
  BY DEF TypeOK, LinksAlive
<1>1. DOMAIN sets' = DOMAIN sets
  BY DEF Relinked
<1>2. ASSUME NEW p \in DOMAIN sets, NEW j \in sets'[p]
      PROVE  j \in DOMAIN cache' /\ cache'[j].data.who = p
  <2>1. CASE p = d.who
    <3>1. sets'[p] = sets[p] \cup {i}
      BY <2>1 DEF Relinked
    <3> QED
      BY <1>0, <1>2, <2>1, <3>1
  <2>2. CASE p # d.who /\ i \in DOMAIN cache /\ cache[i].data.who = p
    <3>1. sets'[p] = sets[p] \ {i}
      BY <2>2 DEF Relinked
    <3> QED
      BY <1>0, <1>2, <3>1
  <2>3. CASE p # d.who /\ ~(i \in DOMAIN cache /\ cache[i].data.who = p)
    <3>1. sets'[p] = sets[p]
      BY <2>3 DEF Relinked
    <3>2. j # i
      BY <1>0, <1>2, <2>3, <3>1
    <3> QED
      BY <1>0, <1>2, <3>1, <3>2
  <2> QED
    BY <2>1, <2>2, <2>3
<1> QED
  BY <1>1, <1>2 DEF LinksAlive

\* A save keeps the links: the entry leaves its old owner's set, and joins the
\* new one's.
LEMMA SaveLinked ==
  ASSUME TypeOK, LinksAlive, NEW i \in Items, NEW d \in Data, SaveSingleItem(i, d)
  PROVE  LinksAlive'
<1>0. /\ cache \in [DOMAIN cache -> Entry]
      /\ sets \in [DOMAIN sets -> SUBSET Items]
      /\ \A p \in DOMAIN sets : \A j \in sets[p] : j \in DOMAIN cache /\ cache[j].data.who = p
  BY DEF TypeOK, LinksAlive
<1>1. CASE PutItemCache(i, d)
  <2>1. /\ DOMAIN cache' = DOMAIN cache \cup {i} /\ cache'[i].data = d
        /\ \A j \in DOMAIN cache \ {i} : cache'[j] = cache[j]
    BY <1>1 DEF PutItemCache, With
  <2>2. sets' = Relinked(i, d)
    BY <1>1 DEF PutItemCache
  <2> QED
    BY <1>0, <2>1, <2>2, RelinkedAlive
<1>2. CASE PutBoxItem(i, d)
  <2>1. /\ DOMAIN cache' = DOMAIN cache \ {i}
        /\ \A j \in DOMAIN cache \ {i} : cache'[j] = cache[j]
    BY <1>2 DEF PutBoxItem, Restrict
  <2>2. DOMAIN sets' = DOMAIN sets
    BY <1>2 DEF PutBoxItem
  <2>3. \A p \in DOMAIN sets : sets'[p] \subseteq sets[p] /\ i \notin sets'[p]
    BY <1>0, <1>2 DEF PutBoxItem
  <2> QED
    BY <1>0, <2>1, <2>2, <2>3 DEF LinksAlive
<1>3. CASE DeleteItem(i)
  <2>1. \A j \in DOMAIN cache : Erased(cache[j]).data.who = cache[j].data.who
    <3> SUFFICES ASSUME NEW j \in DOMAIN cache
                 PROVE  Erased(cache[j]).data.who = cache[j].data.who
      OBVIOUS
    <3> DEFINE x == cache[j].data
    <3>1. x \in Data
      BY <1>0 DEF Entry
    <3>2. [x EXCEPT !.at = "gone"].who = x.who
      BY <3>1 DEF Data
    <3> QED
      BY <3>2 DEF Erased
  <2>2. /\ DOMAIN cache' = DOMAIN cache /\ sets' = sets
        /\ \A j \in DOMAIN cache : cache'[j].data.who = cache[j].data.who
    BY <1>3, <2>1 DEF DeleteItem
  <2> QED
    BY <1>0, <2>2 DEF LinksAlive
<1> QED
  BY <1>1, <1>2, <1>3 DEF SaveSingleItem

\* So does a load: what it reads leaves every other set.
LEMMA ItemLoadLinked ==
  ASSUME TypeOK, LinksAlive, NEW p \in Players, NEW items \in SUBSET (Items \X Vals),
         ItemLoad(p, items)
  PROVE  LinksAlive'
<1> DEFINE ids     == {x[1] : x \in items}
           read(i) == Bag(p, (CHOOSE x \in items : x[1] = i)[2])
           old     == IF p \in DOMAIN sets THEN sets[p] ELSE {}
<1>0. /\ cache \in [DOMAIN cache -> Entry]
      /\ sets \in [DOMAIN sets -> SUBSET Items]
      /\ \A q \in DOMAIN sets : \A j \in sets[q] : j \in DOMAIN cache /\ cache[j].data.who = q
  BY DEF TypeOK, LinksAlive
<1>1. \A i \in ids : read(i).who = p
  BY DEF Bag
<1>2. /\ cache' = [i \in DOMAIN cache \cup ids |->
                     IF i \notin ids THEN cache[i]
                     ELSE IF i \in DOMAIN cache THEN [cache[i] EXCEPT !.data = read(i)]
                     ELSE Fresh(read(i), FALSE)]
      /\ sets' = [q \in DOMAIN sets \cup {p} |->
                    IF q = p THEN old \cup ids ELSE sets[q] \ ids]
  BY DEF ItemLoad
<1> HIDE DEF ids, read
<1>3. \A i \in ids : cache'[i].data = read(i)
  <2>1. \A i \in ids \ DOMAIN cache : Fresh(read(i), FALSE).data = read(i)
    BY DEF Fresh
  <2>2. \A i \in ids \cap DOMAIN cache : [cache[i] EXCEPT !.data = read(i)].data = read(i)
    BY <1>0 DEF Entry
  <2> QED
    BY <1>2, <2>1, <2>2
<1>4. /\ DOMAIN cache' = DOMAIN cache \cup ids
      /\ \A i \in DOMAIN cache \ ids : cache'[i] = cache[i]
  BY <1>2
<1>5. /\ DOMAIN sets' = DOMAIN sets \cup {p} /\ sets'[p] = old \cup ids
      /\ \A q \in DOMAIN sets \ {p} : sets'[q] = sets[q] \ ids
  BY <1>2
<1> QED
  BY <1>0, <1>1, <1>3, <1>4, <1>5 DEF LinksAlive

\* A step keeps the links: one step of the proof per kind of action.
LEMMA StepLinked == TypeOK /\ LinksAlive /\ [Next]_vars => LinksAlive'
<1> SUFFICES ASSUME TypeOK, LinksAlive, [Next]_vars PROVE LinksAlive'
  OBVIOUS
<1>0. /\ held \in [Items -> Data]
      /\ cache \in [DOMAIN cache -> Entry]
      /\ sets \in [DOMAIN sets -> SUBSET Items]
      /\ \A p \in DOMAIN sets : \A j \in sets[p] : j \in DOMAIN cache /\ cache[j].data.who = p
  BY DEF TypeOK, LinksAlive
<1>1. CASE UNCHANGED <<cache, sets>>
  BY <1>1 DEF LinksAlive
<1>2. ASSUME NEW p \in Players,
             Load(p) \/ OpenBox(p) \/ SavePlayer(p) \/ Disconnect(p) \/ Logout(p)
      PROVE  LinksAlive'
  BY <1>1, <1>2 DEF Load, OpenBox, SavePlayer, Disconnect, Logout
<1>3. ASSUME NEW p \in Players, FlushCache(p) PROVE LinksAlive'
  <2>1. /\ DOMAIN cache' = DOMAIN cache \ Dropped({p})
        /\ \A j \in DOMAIN cache \ Dropped({p}) : cache'[j] = cache[j]
        /\ DOMAIN sets' = DOMAIN sets \ {p} /\ \A q \in DOMAIN sets \ {p} : sets'[q] = sets[q]
    BY <1>3 DEF FlushCache, Restrict
  <2>2. \A q \in DOMAIN sets \ {p} : sets[q] \cap Dropped({p}) = {}
    BY <1>0 DEF Dropped
  <2> QED
    BY <1>0, <2>1, <2>2 DEF LinksAlive
<1>4. ASSUME NEW a \in Accounts, StrayLogout(a) PROVE LinksAlive'
  BY <1>1, <1>4 DEF StrayLogout
<1>5. ASSUME NEW i \in Items, NEW d \in Data, Moved(i, d) PROVE LinksAlive'
  BY <1>5, SaveLinked DEF Moved
<1>6. ASSUME NEW i \in Items
      PROVE  held[i].at \in Places /\ held[i].who \in Owners /\ held[i].val \in Vals
  BY <1>0 DEF Data
<1>7. ASSUME NEW i \in Items, Drop(i) \/ Vanish(i) \/ CheckIn(i) \/ SavePending(i)
      PROVE  LinksAlive'
  <2>1. [at |-> "ground", who |-> NoOne, val |-> held[i].val] \in Data
    BY <1>6 DEF Data, Places, Owners
  <2>2. CASE Drop(i)
    BY <1>5, <2>1, <2>2 DEF Drop
  <2>3. CASE Vanish(i)
    BY <1>5, <2>3, DataTypes DEF Vanish
  <2>4. CASE CheckIn(i)
    <3>1. AcctOf[held[i].who] \in Accounts
      BY <2>4, AcctAssumption DEF CheckIn, Carried, InPlay
    <3> QED
      BY <1>5, <1>6, <2>4, <3>1, DataTypes DEF CheckIn
  <2>5. CASE SavePending(i)
    BY <1>0, <2>5, SaveLinked DEF SavePending
  <2> QED
    BY <1>7, <2>2, <2>3, <2>4, <2>5
<1>8. ASSUME NEW i \in Items, NEW p \in Players, Exchange(i, p) \/ PickUp(i, p)
      PROVE  LinksAlive'
  <2>1. CASE Exchange(i, p)
    BY <1>5, <1>6, <2>1, DataTypes DEF Exchange
  <2>2. CASE PickUp(i, p)
    BY <1>1, <2>2 DEF PickUp
  <2> QED
    BY <1>8, <2>1, <2>2
<1>9. ASSUME NEW i \in Items, NEW p \in Players, CheckOut(i, p) PROVE LinksAlive'
  <2> DEFINE d   == Bag(p, held[i].val)
             new == [data |-> d, dirty |-> FALSE,
                     age |-> IF d.who \in DOMAIN sets THEN 0 ELSE Age(i)]
  <2>1. /\ cache' = With(cache, i, new) /\ sets' = Relinked(i, d)
        /\ new.data = d
    BY <1>9 DEF CheckOut, SaveAndFlush
  <2> HIDE DEF d, new
  <2>2. /\ DOMAIN cache' = DOMAIN cache \cup {i} /\ cache'[i].data = d
        /\ \A j \in DOMAIN cache \ {i} : cache'[j] = cache[j]
    BY <2>1 DEF With
  <2> QED
    BY <2>1, <2>2, RelinkedAlive
<1>10. ASSUME NEW i \in Items, Use(i) PROVE LinksAlive'
  BY <1>1, <1>10 DEF Use
<1>11. ASSUME GameCrash PROVE LinksAlive'
  BY <1>1, <1>11 DEF GameCrash
<1>12. ASSUME Restart PROVE LinksAlive'
  BY <1>12 DEF Restart, LinksAlive
<1>13. ASSUME Second PROVE LinksAlive'
  <2> DEFINE over == {p \in DOMAIN out : LogoutOver(p)}
             same(j) == cache'[j].data = cache[j].data
  <2>1. \E F : /\ cache' = [i \in DOMAIN cache \ Dropped(over) |->
                             IF i \in F THEN Flushed(cache[i]) ELSE Older(cache[i])]
               /\ sets' = Restrict(sets, DOMAIN sets \ over)
    BY <1>13 DEF Second
  <2>2. \A j \in DOMAIN cache : /\ Flushed(cache[j]).data = cache[j].data
                                /\ Older(cache[j]).data = cache[j].data
    BY <1>0 DEF Flushed, Fresh, Older, Entry
  <2> HIDE DEF over
  <2>3. /\ DOMAIN cache' = DOMAIN cache \ Dropped(over)
        /\ \A j \in DOMAIN cache \ Dropped(over) : cache'[j].data = cache[j].data
    BY <2>1, <2>2
  <2>4. /\ DOMAIN sets' = DOMAIN sets \ over
        /\ \A p \in DOMAIN sets \ over : sets'[p] = sets[p]
    BY <2>1 DEF Restrict
  <2>5. \A p \in DOMAIN sets \ over : sets[p] \cap Dropped(over) = {}
    BY <1>0 DEF Dropped
  <2> QED
    BY <1>0, <2>3, <2>4, <2>5 DEF LinksAlive
<1>14. ASSUME Execute PROVE LinksAlive'
  BY <1>1, <1>14 DEF Execute
<1>15. ASSUME Pop PROVE LinksAlive'
  <2> DEFINE r == Head(res)
  <2>1. r \in Answers
    BY <1>15 DEF Pop, TypeOK
  <2>2. CASE r.op = "bag" /\ ItemLoad(r.who, r.items)
    <3>1. r.who \in Players /\ r.items \in SUBSET (Items \X Vals)
      BY <2>1, <2>2 DEF Answers
    <3> QED
      BY <2>2, <3>1, ItemLoadLinked
  <2> QED
    BY <1>1, <1>15, <2>2 DEF Pop
<1>16. CASE UNCHANGED vars
  BY <1>1, <1>16 DEF vars
<1> QED
  BY <1>2, <1>3, <1>4, <1>7, <1>8, <1>9, <1>10, <1>11, <1>12, <1>13, <1>14, <1>15, <1>16 DEF Next

-----------------------------------------------------------------------------
\* Every variable keeps its type: for any number of players, accounts and
\* items, any timeouts and any of the optional behaviours.
THEOREM TypeCorrect == Spec => []TypeOK
<1>1. Init => TypeOK /\ LinksAlive
  BY InitTyped DEF Init, LinksAlive
<1>2. TypeOK /\ LinksAlive /\ [Next]_vars => TypeOK' /\ LinksAlive'
  BY StepTyped, StepLinked
<1> QED
  BY <1>1, <1>2, PTL DEF Spec

\* Whatever crashes, flushes, stray logouts and restarts happen, an item set of
\* the db server holds only entries that are cached and belong to its player:
\* FlushItemCacheSet follows no dangling pointer and no entry is deleted twice.
THEOREM LinksStayAlive == Spec => []LinksAlive
<1>1. Init => TypeOK /\ LinksAlive
  BY InitTyped DEF Init, LinksAlive
<1>2. TypeOK /\ LinksAlive /\ [Next]_vars => TypeOK' /\ LinksAlive'
  BY StepTyped, StepLinked
<1> QED
  BY <1>1, <1>2, PTL DEF Spec

-----------------------------------------------------------------------------
(* Nothing is lost, and what is loaded is current.                            *)
(*                                                                            *)
(* Two things have to hold for it that no handler checks.  A dirty entry is   *)
(* about two players: its owner, and the one whom the row still names; the    *)
(* next load of either must not be a select.  And an answer that is on its    *)
(* way must still be right when it comes: its player cannot have played since *)
(* the select was sent.                                                       *)

\* The optional behaviours under which the cache is coherent: no crash of a
\* game, no QUERY_FLUSH_CACHE and no LOGOUT of somebody else's account.
Calm == Events \subseteq {"safebox", "restart"}

\* An entry is written before the logout of a player is over (the defaults are
\* five and ten minutes), and no second has more to write than it may.
TimersOrdered == ItemSecs <= LogoutSecs
NotOverloaded == Cardinality({i \in DOMAIN cache : Expired(i)}) <= FlushLimit

Bags  == {Bag(p, v) : p \in Players, v \in Vals}
Boxes == {InBox(a, v) : a \in Accounts, v \in Vals}
Rows  == Bags \cup Boxes \cup {Absent}

\* tl is left of q, and r2 of table r for item i, once the first statement is executed.
FirstDone(q, tl, r, r2, i) ==
  /\ q \in Seq(Puts \cup Reads) /\ q # << >> /\ tl = Tail(q)
  /\ q[1].op # "put" => r2[i] = r[i]
  /\ q[1].op = "put" => r2[i] = IF q[1].item = i THEN q[1].data ELSE r[i]

\* What i is once the first n statements of q have been executed on table r.
PutsIn(q, n, i) == {k \in 1 .. n : q[k].op = "put" /\ q[k].item = i}
After(q, r, n, i) ==
  IF PutsIn(q, n, i) = {} THEN r[i]
  ELSE q[CHOOSE k \in PutsIn(q, n, i) : \A l \in PutsIn(q, n, i) : l <= k].data

\* Rows are written for items in bags and safeboxes, and entries for bags.
Shapes ==
  /\ \A i \in Items : row[i] \in Rows /\ Saved(held[i]) \in Rows
  /\ \A k \in 1 .. Len(queue) : queue[k].op = "put" => queue[k].data \in Rows
  /\ \A i \in DOMAIN cache :
       cache[i].data \in Bags \/ (cache[i].data.at = "gone" /\ ~cache[i].dirty)

\* Players come and go one at a time per account; who is cached or plays has a
\* set; a logout is noted only where nobody is.
Seats ==
  /\ \A p \in Players : p \in pcache \/ st[p] \in {"play", "leaving"} => p \in DOMAIN sets
  /\ \A p \in Players : st[p] = "leaving" => p \in pcache
  /\ \A p, q \in Players : p # q /\ AcctOf[p] = AcctOf[q] => st[p] = "off" \/ st[q] = "off"
  /\ \A p \in DOMAIN out : \A q \in Mates(p) : st[q] = "off"

\* The players a dirty entry is about, and what keeps them from being read.
About(i, p) == \/ cache[i].data.who = p
               \/ LastWritten(i).at = "bag" /\ LastWritten(i).who = p
Guarded(i, p) ==
  \/ st[p] \in {"play", "leaving"}
  \/ p \in pcache /\ (p \in DOMAIN out => out[p] <= cache[i].age)

Entries ==
  \A i \in DOMAIN cache :
    /\ ~cache[i].dirty => Saved(cache[i].data) = LastWritten(i)
    /\ cache[i].dirty => /\ LastWritten(i).at # "box"
                         /\ \A p \in Players : About(i, p) => Guarded(i, p)

\* What the db believes is what the games last sent; of an item that waits to be
\* saved it is an earlier state in the hands of the same player, or none.
Follows ==
  \A i \in Items :
    LET b == Saved(Believed(i)) IN
    IF i \notin pend THEN b = Saved(held[i])
    ELSE /\ held[i] \in Bags /\ st[held[i].who] \in {"play", "leaving"}
         /\ b = Absent \/ (b \in Bags /\ b.who = held[i].who)

\* An item set has all the items of its player.
Complete ==
  \A p \in DOMAIN sets : \A i \in Items :
    Saved(Believed(i)) \in Bags /\ Saved(Believed(i)).who = p => i \in sets[p]

\* A select or an answer that will fill the cache with p's items, and one that
\* will open a's safebox.
FillsBag(x, p) == x.op = "bag" /\ x.to # "none" /\ x.who = p
OpensBox(x, a) == x.op \in {"box", "safebox"} /\ x.to = "desc" /\ x.who = a

\* The items of f at one place of one owner are those of g.
SameAt(f, g, at, w) ==
  \A i \in Items : <<at, w>> \in {<<f[i].at, f[i].who>>, <<g[i].at, g[i].who>>}
                    => f[i] = g[i]
Table(n) == [i \in Items |-> After(queue, row, n, i)]

Waits(x) ==
  /\ \A p \in Players : FillsBag(x, p) =>
       /\ st[p] \in {"off", "load"} /\ p \notin pcache
       /\ x.to = "desc" => st[p] = "load"
  /\ \A a \in Accounts : OpensBox(x, a) => box[a] = "wait"

StatementRight(k) ==
  /\ Waits(queue[k])
  /\ \A p \in Players : FillsBag(queue[k], p) => SameAt(Table(k - 1), held, "bag", p)
  /\ \A a \in Accounts : OpensBox(queue[k], a) /\ queue[k].op = "box"
                           => SameAt(Table(k - 1), held, "box", a)

AnswerRight(n) ==
  /\ Waits(res[n])
  /\ \A p \in Players : FillsBag(res[n], p) => res[n].items = Found(held, "bag", p)
  /\ \A a \in Accounts : OpensBox(res[n], a) /\ res[n].op = "box"
                           => res[n].items = Found(held, "box", a)

Flights == /\ \A k \in 1 .. Len(queue) : StatementRight(k)
           /\ \A n \in 1 .. Len(res) : AnswerRight(n)

\* Nothing follows the answer that lets a player in or opens a box.
Clash(x, y) ==
  \/ \E p \in Players : FillsBag(x, p) /\ x.to = "desc" /\ FillsBag(y, p)
  \/ \E a \in Accounts : OpensBox(x, a) /\ OpensBox(y, a)
InOrder(s) == \A n \in 1 .. Len(s) : \A m \in n + 1 .. Len(s) : ~Clash(s[n], s[m])
Orders ==
  /\ InOrder(res) /\ InOrder(queue)
  /\ \A n \in 1 .. Len(res), k \in 1 .. Len(queue) : ~Clash(res[n], queue[k])

Coherent == Shapes /\ Seats /\ Entries /\ Follows /\ Complete /\ Flights /\ Orders

-----------------------------------------------------------------------------
(* The table once some statements have been executed.                         *)

LEMMA LastPut ==
  ASSUME NEW q, NEW r, NEW n \in Nat, NEW i, PutsIn(q, n, i) # {}
  PROVE  \E k \in PutsIn(q, n, i) : /\ \A l \in PutsIn(q, n, i) : l <= k
                                    /\ After(q, r, n, i) = q[k].data
<1>1. PutsIn(q, n, i) \subseteq 1 .. n
  BY DEF PutsIn
<1> DEFINE k == CHOOSE k \in PutsIn(q, n, i) : \A l \in PutsIn(q, n, i) : l <= k
<1>2. k \in PutsIn(q, n, i) /\ \A l \in PutsIn(q, n, i) : l <= k
  BY <1>1, LastPosition
<1>3. After(q, r, n, i) = q[k].data
  BY DEF After
<1> QED
  BY <1>2, <1>3

LEMMA AfterPut ==
  ASSUME NEW q, NEW r, NEW n \in Nat, NEW i, NEW k \in PutsIn(q, n, i),
         \A l \in PutsIn(q, n, i) : l <= k
  PROVE  After(q, r, n, i) = q[k].data
<1>1. PICK m \in PutsIn(q, n, i) : /\ \A l \in PutsIn(q, n, i) : l <= m
                                   /\ After(q, r, n, i) = q[m].data
  BY LastPut
<1>2. m <= k /\ k <= m /\ m \in Int /\ k \in Int
  BY <1>1 DEF PutsIn
<1> QED
  BY <1>1, <1>2

LEMMA AfterNone ==
  ASSUME NEW q, NEW r, NEW n, NEW i, PutsIn(q, n, i) = {}
  PROVE  After(q, r, n, i) = r[i]
BY DEF After

\* Only the writes count.
LEMMA AfterPuts ==
  ASSUME NEW q, NEW q2, NEW r, NEW n \in Nat, NEW m \in Nat, NEW i,
         PutsIn(q2, m, i) = PutsIn(q, n, i),
         \A k \in PutsIn(q, n, i) : q2[k] = q[k]
  PROVE  After(q2, r, m, i) = After(q, r, n, i)
<1>2. CASE PutsIn(q, n, i) = {}
  BY <1>2, AfterNone
<1>3. CASE PutsIn(q, n, i) # {}
  <2>1. PICK k \in PutsIn(q, n, i) : /\ \A l \in PutsIn(q, n, i) : l <= k
                                     /\ After(q, r, n, i) = q[k].data
    BY <1>3, LastPut
  <2>2. q2[k] = q[k] /\ k \in PutsIn(q2, m, i) /\ \A l \in PutsIn(q2, m, i) : l <= k
    BY <2>1
  <2>3. After(q2, r, m, i) = q2[k].data
    BY <2>2, AfterPut
  <2> QED
    BY <2>1, <2>2, <2>3
<1> QED
  BY <1>2, <1>3

LEMMA AfterSame ==
  ASSUME NEW q, NEW q2, NEW r, NEW n \in Nat, NEW i,
         \A k \in 1 .. n : q[k].op = "put" \/ q2[k].op = "put" => q2[k] = q[k]
  PROVE  After(q2, r, n, i) = After(q, r, n, i)
<1>1. PutsIn(q2, n, i) = PutsIn(q, n, i)
  BY DEF PutsIn
<1>2. \A k \in PutsIn(q, n, i) : q2[k] = q[k]
  BY DEF PutsIn
<1> QED
  BY <1>1, <1>2, AfterPuts

\* One statement more.
LEMMA AfterNext ==
  ASSUME NEW q, NEW r, NEW n \in Nat, NEW i
  PROVE  After(q, r, n + 1, i) = IF q[n + 1].op = "put" /\ q[n + 1].item = i
                                 THEN q[n + 1].data ELSE After(q, r, n, i)
<1>1. n + 1 \in Nat
  OBVIOUS
<1>2. CASE q[n + 1].op = "put" /\ q[n + 1].item = i
  <2>1. n + 1 \in PutsIn(q, n + 1, i) /\ \A l \in PutsIn(q, n + 1, i) : l <= n + 1
    BY <1>2 DEF PutsIn
  <2> QED
    BY <1>1, <1>2, <2>1, AfterPut
<1>3. CASE ~(q[n + 1].op = "put" /\ q[n + 1].item = i)
  <2>1. PutsIn(q, n + 1, i) = PutsIn(q, n, i)
    BY <1>3 DEF PutsIn
  <2>2. After(q, r, n + 1, i) = After(q, r, n, i)
    BY <1>1, <2>1, AfterPuts
  <2> QED
    BY <1>3, <2>2
<1> QED
  BY <1>2, <1>3

\* The first statement is executed.
LEMMA AfterTail ==
  ASSUME NEW q, NEW tl, NEW r, NEW r2, NEW n \in Nat, n < Len(q), NEW i,
         FirstDone(q, tl, r, r2, i)
  PROVE  After(tl, r2, n, i) = After(q, r, n + 1, i)
<1> DEFINE T == Puts \cup Reads
<1>a. /\ q \in Seq(T) /\ q # << >> /\ tl = Tail(q)
      /\ q[1].op # "put" => r2[i] = r[i]
      /\ q[1].op = "put" => r2[i] = IF q[1].item = i THEN q[1].data ELSE r[i]
  BY DEF FirstDone
<1> SUFFICES After(Tail(q), r2, n, i) = After(q, r, n + 1, i)
  BY <1>a
<1> USE <1>a
<1> HIDE DEF T
<1> DEFINE P == PutsIn(q, n + 1, i)
           R == PutsIn(Tail(q), n, i)
<1>0. n + 1 \in Nat /\ Len(q) \in Nat
  OBVIOUS
<1>1. \A k \in 1 .. n : Tail(q)[k] = q[k + 1]
  OBVIOUS
<1>2. \A k \in 1 .. n : k \in R <=> k + 1 \in P
  BY <1>1 DEF PutsIn
<1>3. R \subseteq 1 .. n /\ P \subseteq 1 .. n + 1
  BY DEF PutsIn
<1> HIDE DEF P, R
<1>4. CASE R # {}
  <2>1. PICK k \in R : (\A l \in R : l <= k) /\ After(Tail(q), r2, n, i) = Tail(q)[k].data
    BY <1>4, LastPut DEF R
  <2>2. k + 1 \in P /\ Tail(q)[k] = q[k + 1]
    BY <1>1, <1>2, <1>3
  <2>3. ASSUME NEW l \in P PROVE l <= k + 1
    <3>1. CASE l = 1
      BY <1>3, <3>1
    <3>2. CASE l # 1
      <4>1. l - 1 \in 1 .. n /\ (l - 1) + 1 = l
        BY <1>3, <3>2
      <4>2. l - 1 \in R
        BY <1>2, <4>1
      <4> QED
        BY <1>3, <2>1, <4>1, <4>2
    <3> QED
      BY <3>1, <3>2
  <2>4. After(q, r, n + 1, i) = q[k + 1].data
    BY <1>0, <2>2, <2>3, AfterPut DEF P
  <2> QED
    BY <2>1, <2>2, <2>4
<1>5. CASE R = {}
  <2>1. After(Tail(q), r2, n, i) = r2[i]
    BY <1>5, AfterNone DEF R
  <2>2. P \subseteq {1}
    <3> SUFFICES ASSUME NEW l \in P, l # 1 PROVE FALSE
      OBVIOUS
    <3>1. l - 1 \in 1 .. n /\ (l - 1) + 1 = l
      BY <1>3
    <3> QED
      BY <1>2, <1>5, <3>1
  <2>3. CASE P = {}
    <3>1. After(q, r, n + 1, i) = r[i]
      BY <2>3, AfterNone DEF P
    <3>2. ~(q[1].op = "put" /\ q[1].item = i)
      BY <2>3 DEF P, PutsIn
    <3> QED
      BY <2>1, <3>1, <3>2
  <2>4. CASE 1 \in P
    <3>1. After(q, r, n + 1, i) = q[1].data
      BY <1>0, <2>2, <2>4, AfterPut DEF P
    <3>2. q[1].op = "put" /\ q[1].item = i
      BY <2>4 DEF P, PutsIn
    <3> QED
      BY <2>1, <3>1, <3>2
  <2> QED
    BY <2>2, <2>3, <2>4
<1> QED
  BY <1>4, <1>5

LEMMA LastIs ==
  ASSUME NEW i
  PROVE  LastWritten(i) = After(queue, row, Len(queue), i)
BY DEF LastWritten, After, Queued, PutsIn

LEMMA LastIsNext ==
  ASSUME NEW i
  PROVE  LastWritten(i)' = After(queue', row', Len(queue'), i)
BY DEF LastWritten, After, Queued, PutsIn

\* A statement is appended.
LEMMA LastAppend ==
  ASSUME TypeOK, NEW x, queue' = Append(queue, x), row' = row, NEW i
  PROVE  LastWritten(i)' = IF x.op = "put" /\ x.item = i THEN x.data ELSE LastWritten(i)
<1> DEFINE n == Len(queue)
           q == queue'
<1>1. n \in Nat /\ Len(q) = n + 1 /\ q[n + 1] = x
      /\ \A k \in 1 .. n : q[k] = queue[k]
  BY DEF TypeOK
<1>2. LastWritten(i)' = After(q, row, Len(q), i) /\ LastWritten(i) = After(queue, row, n, i)
  BY LastIs, LastIsNext
<1> HIDE DEF n, q
<1>3. After(q, row, n, i) = After(queue, row, n, i)
  BY <1>1, AfterSame
<1>4. After(q, row, n + 1, i) = IF q[n + 1].op = "put" /\ q[n + 1].item = i
                                THEN q[n + 1].data ELSE After(q, row, n, i)
  BY <1>1, AfterNext
<1> QED
  BY <1>1, <1>2, <1>3, <1>4

\* Entries are written.
LEMMA WritesAre ==
  ASSUME TypeOK, NEW S, S \subseteq DOMAIN cache
  PROVE  /\ Len(Writes(S)) \in Nat
         /\ \A k \in 1 .. Len(Writes(S)) :
              \E i \in S : Writes(S)[k] = Put(i, cache[i].data)
         /\ \A i \in S : \E k \in 1 .. Len(Writes(S)) :
              /\ Writes(S)[k] = Put(i, cache[i].data)
              /\ \A l \in 1 .. Len(Writes(S)) : Writes(S)[l].item = i => l = k
<1> DEFINE s == SetToSeq(S)
           N == Cardinality(S)
<1>1. IsFiniteSet(S) /\ N \in Nat
  BY ItemsAssumption, FS_Subset, FS_CardinalityType DEF TypeOK
<1>2. \E f : f \in [1 .. N -> S] /\ IsInjective(f)
  <2>1. ExistsBijection(1 .. N, S)
    BY <1>1, FS_CardinalityType
  <2> QED
    BY <2>1 DEF ExistsBijection, Bijection, Injection, Surjection, IsInjective
<1>3. s \in [1 .. N -> S] /\ IsInjective(s)
  BY <1>2 DEF SetToSeq
<1> HIDE DEF s
<1>4. \A i \in S : \E k \in 1 .. N : s[k] = i
  <2>0. IsFiniteSet(1 .. N) /\ Cardinality(1 .. N) = N
    BY <1>1, FS_Interval
  <2>1. s \in Injection(1 .. N, S)
    BY <1>3 DEF Injection, IsInjective
  <2>2. s \in Surjection(1 .. N, S)
    BY <1>1, <2>0, <2>1, FS_Injection
  <2> QED
    BY <2>2 DEF Surjection
<1>5. Len(s) = N
  BY <1>1, <1>3
<1>6. Writes(S) = [k \in 1 .. N |-> Put(s[k], cache[s[k]].data)]
  BY <1>5 DEF Writes, s
<1>7. Len(Writes(S)) = N
  BY <1>1, <1>6
<1>8. ASSUME NEW i \in S
      PROVE  \E k \in 1 .. N : /\ Writes(S)[k] = Put(i, cache[i].data)
                               /\ \A l \in 1 .. N : Writes(S)[l].item = i => l = k
  <2>1. PICK k \in 1 .. N : s[k] = i
    BY <1>4
  <2>2. \A l \in 1 .. N : Writes(S)[l].item = s[l]
    BY <1>6 DEF Put
  <2>3. \A l \in 1 .. N : s[l] = i => l = k
    BY <1>3, <2>1 DEF IsInjective
  <2> QED
    BY <1>6, <2>1, <2>2, <2>3
<1>9. \A k \in 1 .. N : \E i \in S : Writes(S)[k] = Put(i, cache[i].data)
  BY <1>3, <1>6
<1> QED
  BY <1>1, <1>7, <1>8, <1>9

LEMMA Appended ==
  ASSUME NEW T, NEW q \in Seq(T), NEW w \in Seq(T)
  PROVE  /\ q \o w \in Seq(T) /\ Len(q \o w) = Len(q) + Len(w)
         /\ \A k \in 1 .. Len(q) : (q \o w)[k] = q[k]
         /\ \A k \in 1 .. Len(w) : (q \o w)[Len(q) + k] = w[k]
OBVIOUS

LEMMA LastWrites ==
  ASSUME TypeOK, NEW S, S \subseteq DOMAIN cache, NEW q, Len(q) = Len(queue),
         q \in Seq(Puts \cup Reads),
         \A k \in 1 .. Len(q) : queue[k].op = "put" \/ q[k].op = "put" => q[k] = queue[k],
         queue' = q \o Writes(S), row' = row, NEW i
  PROVE  LastWritten(i)' = IF i \in S THEN cache[i].data ELSE LastWritten(i)
<1> DEFINE n == Len(queue)
           w == Writes(S)
           m == Len(w)
           z == queue'
<1>1. n \in Nat /\ w \in Seq(Puts \cup Reads) /\ m \in Nat
  BY WritesType DEF TypeOK
<1>2. /\ Len(z) = n + m
      /\ \A k \in 1 .. n : z[k] = q[k]
      /\ \A k \in 1 .. m : z[n + k] = w[k]
  <2>1. z = q \o w /\ Len(q) = n /\ q \in Seq(Puts \cup Reads)
    OBVIOUS
  <2>a. w \in Seq(Puts \cup Reads)
    BY <1>1
  <2> DEFINE T == Puts \cup Reads
  <2>b. q \in Seq(T) /\ w \in Seq(T)
    BY <2>1, <2>a
  <2> HIDE DEF z, w, n, T
  <2>2. /\ Len(q \o w) = Len(q) + Len(w)
        /\ \A k \in 1 .. Len(q) : (q \o w)[k] = q[k]
        /\ \A k \in 1 .. Len(w) : (q \o w)[Len(q) + k] = w[k]
    BY ONLY <2>b, Appended
  <2> QED
    BY <2>1, <2>2
<1>3. /\ \A k \in 1 .. m : \E j \in S : w[k] = Put(j, cache[j].data)
      /\ \A j \in S : \E k \in 1 .. m : w[k] = Put(j, cache[j].data)
                                        /\ \A l \in 1 .. m : w[l].item = j => l = k
  BY WritesAre
<1>4. LastWritten(i)' = After(z, row, Len(z), i) /\ LastWritten(i) = After(queue, row, n, i)
  BY LastIs, LastIsNext
<1>5. \A k \in 1 .. n : z[k].op = "put" \/ queue[k].op = "put" => z[k] = queue[k]
  BY <1>2
<1> HIDE DEF n, w, m, z
<1>6. \A j, d : Put(j, d).op = "put" /\ Put(j, d).item = j /\ Put(j, d).data = d
  BY DEF Put
<1>7. n + m \in Nat
  BY <1>1
<1>8. CASE i \in S
  <2>1. PICK k \in 1 .. m : w[k] = Put(i, cache[i].data)
                            /\ \A l \in 1 .. m : w[l].item = i => l = k
    BY <1>3, <1>8
  <2>2. n + k \in 1 .. n + m /\ z[n + k] = Put(i, cache[i].data)
    BY <1>1, <1>2, <2>1
  <2>3. n + k \in PutsIn(z, n + m, i)
    BY <1>6, <2>2 DEF PutsIn
  <2>4. ASSUME NEW l \in PutsIn(z, n + m, i) PROVE l <= n + k
    <3>1. l \in 1 .. n + m /\ z[l].item = i
      BY DEF PutsIn
    <3>2. CASE l <= n
      BY <1>1, <3>1, <3>2
    <3>3. CASE ~(l <= n)
      <4>1. l - n \in 1 .. m /\ n + (l - n) = l
        BY <1>1, <3>1, <3>3
      <4>2. w[l - n].item = i
        BY <1>2, <3>1, <4>1
      <4>3. l - n = k
        BY <2>1, <4>1, <4>2
      <4> QED
        BY <1>1, <4>1, <4>3
    <3> QED
      BY <3>2, <3>3
  <2>5. After(z, row, n + m, i) = z[n + k].data
    BY <1>7, <2>3, <2>4, AfterPut
  <2> QED
    BY <1>2, <1>4, <1>6, <1>8, <2>2, <2>5
<1>9. CASE i \notin S
  <2>1. ASSUME NEW l \in PutsIn(z, n + m, i) PROVE l \in 1 .. n
    <3>1. l \in 1 .. n + m /\ z[l].item = i
      BY DEF PutsIn
    <3>2. CASE ~(l <= n)
      <4>1. l - n \in 1 .. m /\ n + (l - n) = l
        BY <1>1, <3>1, <3>2
      <4>2. w[l - n].item = i
        BY <1>2, <3>1, <4>1
      <4>3. PICK j \in S : w[l - n] = Put(j, cache[j].data)
        BY <1>3, <4>1
      <4> QED
        BY <1>6, <1>9, <4>2, <4>3
    <3> QED
      BY <1>1, <3>1, <3>2
  <2>2. PutsIn(z, n + m, i) = PutsIn(queue, n, i)
    <3>1. PutsIn(z, n + m, i) = PutsIn(z, n, i)
      BY <1>1, <2>1 DEF PutsIn
    <3>2. PutsIn(z, n, i) = PutsIn(queue, n, i)
      BY <1>5 DEF PutsIn
    <3> QED
      BY <3>1, <3>2
  <2>3. \A k \in PutsIn(queue, n, i) : z[k] = queue[k]
    BY <1>5 DEF PutsIn
  <2>4. After(z, row, n + m, i) = After(queue, row, n, i)
    BY <1>1, <1>7, <2>2, <2>3, AfterPuts
  <2> QED
    BY <1>2, <1>4, <1>9, <2>4
<1> QED
  BY <1>8, <1>9

-----------------------------------------------------------------------------
(* What the parts of the invariant say about one item.                        *)

LEMMA RowFacts ==
  /\ \A d \in Bags : d \in Rows /\ d.at = "bag" /\ d.who \in Players /\ Saved(d) = d
  /\ \A d \in Boxes : d \in Rows /\ d.at = "box" /\ d.who \in Accounts /\ Saved(d) = d
  /\ Absent \in Rows /\ Absent.at = "gone" /\ Saved(Absent) = Absent
  /\ \A d \in Rows : Saved(d) = d
  /\ \A d : d.at = "bag" \/ d.at = "box" => Saved(d) = d
  /\ \A d : d.at # "bag" /\ d.at # "box" => Saved(d) = Absent
  /\ \A d : Saved(Saved(d)) = Saved(d)
  /\ \A d \in Rows : d.at = "bag" => d \in Bags
  /\ \A d \in Rows : d.at = "box" => d \in Boxes
  /\ \A d : Saved(d).at = "bag" \/ Saved(d).at = "box" => Saved(d) = d
<1>1. Absent.at = "gone"
  BY DEF Absent
<1>2. \A d \in Bags : d.at = "bag" /\ d.who \in Players
  BY DEF Bags, Bag
<1>3. \A d \in Boxes : d.at = "box" /\ d.who \in Accounts
  BY DEF Boxes, InBox
<1> QED
  BY <1>1, <1>2, <1>3 DEF Saved, Rows

LEMMA LastRow ==
  ASSUME TypeOK, Shapes, NEW i \in Items
  PROVE  LastWritten(i) \in Rows
<1> DEFINE n == Len(queue)
<1>1. n \in Nat
  BY DEF TypeOK
<1>2. LastWritten(i) = After(queue, row, n, i)
  BY LastIs
<1> HIDE DEF n
<1>3. CASE PutsIn(queue, n, i) = {}
  BY <1>2, <1>3, AfterNone DEF Shapes
<1>4. CASE PutsIn(queue, n, i) # {}
  <2>1. PICK k \in PutsIn(queue, n, i) : After(queue, row, n, i) = queue[k].data
    BY <1>1, <1>4, LastPut
  <2>2. k \in 1 .. n /\ queue[k].op = "put"
    BY DEF PutsIn
  <2> QED
    BY <1>2, <2>1, <2>2 DEF Shapes, n
<1> QED
  BY <1>3, <1>4

\* An item that is not dirty is in the table as it is believed to be; one whose
\* row is in a safebox is not cached.
LEMMA Written ==
  ASSUME TypeOK, Shapes, Entries, NEW i \in Items
  PROVE  /\ ~(i \in DOMAIN cache /\ cache[i].dirty) => LastWritten(i) = Saved(Believed(i))
         /\ LastWritten(i).at = "box" => i \notin DOMAIN cache
         /\ LastWritten(i) \in Rows /\ Saved(LastWritten(i)) = LastWritten(i)
         /\ Saved(Believed(i)) \in Rows
         /\ i \in DOMAIN cache /\ cache[i].dirty => cache[i].data \in Bags
<1>1. LastWritten(i) \in Rows /\ Saved(LastWritten(i)) = LastWritten(i)
  BY LastRow, RowFacts
<1>2. CASE i \in DOMAIN cache
  <2>1. Believed(i) = cache[i].data
    BY <1>2 DEF Believed
  <2>2. cache[i].data \in Bags \/ (cache[i].data.at = "gone" /\ ~cache[i].dirty)
    BY <1>2 DEF Shapes
  <2>3. Saved(cache[i].data) \in Rows /\ Saved(cache[i].data).at # "box"
    BY <2>2, RowFacts
  <2>4. ~cache[i].dirty => Saved(cache[i].data) = LastWritten(i)
    BY <1>2 DEF Entries
  <2>5. cache[i].dirty => LastWritten(i).at # "box"
    BY <1>2 DEF Entries
  <2> QED
    BY <1>1, <1>2, <2>1, <2>2, <2>3, <2>4, <2>5
<1>3. CASE i \notin DOMAIN cache
  BY <1>1, <1>3 DEF Believed
<1> QED
  BY <1>2, <1>3

\* What the db believes of an item, and who has it.
LEMMA Truth ==
  ASSUME TypeOK, Shapes, Follows, NEW i \in Items
  PROVE  /\ i \notin pend => Saved(Believed(i)) = Saved(held[i])
         /\ i \in pend => /\ held[i] \in Bags /\ st[held[i].who] \in {"play", "leaving"}
                          /\ \/ Saved(Believed(i)) = Absent
                             \/ /\ Saved(Believed(i)) \in Bags
                                /\ Saved(Believed(i)).who = held[i].who
         /\ held[i].at = "bag" => held[i] \in Bags
         /\ held[i].at = "box" => held[i] \in Boxes
<1>1. Saved(held[i]) \in Rows
  BY DEF Shapes
<1> QED
  BY <1>1, RowFacts DEF Follows

\* Of a player that does not play and is not cached, the table has what it has.
LEMMA BagWritten ==
  ASSUME TypeOK, Shapes, Entries, Follows, NEW p \in Players,
         st[p] \notin {"play", "leaving"}, p \notin pcache
  PROVE  /\ \A i \in Items : held[i] \in Bags /\ held[i].who = p =>
              /\ ~(i \in DOMAIN cache /\ cache[i].dirty)
              /\ LastWritten(i) = held[i] /\ i \notin pend
         /\ \A i \in Items : LastWritten(i) \in Bags /\ LastWritten(i).who = p
                               => LastWritten(i) = held[i]
<1>1. ASSUME NEW i \in Items, i \in DOMAIN cache, cache[i].dirty
      PROVE  ~About(i, p)
  BY <1>1 DEF Entries, Guarded
<1>2. ASSUME NEW i \in Items, held[i] \in Bags, held[i].who = p
      PROVE  /\ ~(i \in DOMAIN cache /\ cache[i].dirty)
             /\ LastWritten(i) = held[i] /\ i \notin pend
  <2>1. i \notin pend
    BY <1>2, Truth
  <2>2. Saved(Believed(i)) = held[i]
    BY <1>2, <2>1, Truth, RowFacts
  <2>3. ~(i \in DOMAIN cache /\ cache[i].dirty)
    <3> SUFFICES ASSUME i \in DOMAIN cache, cache[i].dirty PROVE FALSE
      OBVIOUS
    <3>1. cache[i].data = held[i]
      BY <2>2, Written, RowFacts DEF Believed
    <3> QED
      BY <1>1, <1>2, <3>1 DEF About
  <2> QED
    BY <2>1, <2>2, <2>3, Written
<1>3. ASSUME NEW i \in Items, LastWritten(i) \in Bags, LastWritten(i).who = p
      PROVE  LastWritten(i) = held[i]
  <2>1. ~(i \in DOMAIN cache /\ cache[i].dirty)
    BY <1>1, <1>3, RowFacts DEF About
  <2>2. LastWritten(i) = Saved(Believed(i))
    BY <2>1, Written
  <2>3. i \notin pend
    BY <1>3, <2>2, Truth, RowFacts
  <2> QED
    BY <1>3, <2>2, <2>3, Truth, RowFacts
<1> QED
  BY <1>2, <1>3

\* Of a safebox, the table always has what is in it.
LEMMA BoxWritten ==
  ASSUME TypeOK, Shapes, Entries, Follows, NEW i \in Items,
         held[i].at = "box" \/ LastWritten(i).at = "box"
  PROVE  LastWritten(i) = held[i] /\ i \notin pend /\ i \notin DOMAIN cache
<1>1. CASE LastWritten(i).at = "box"
  <2>1. i \notin DOMAIN cache /\ LastWritten(i) = Saved(Believed(i))
    BY <1>1, Written
  <2>2. i \notin pend
    BY <1>1, <2>1, Truth, RowFacts
  <2> QED
    BY <1>1, <2>1, <2>2, Truth, RowFacts
<1>2. CASE held[i].at = "box"
  <2>1. i \notin pend /\ Saved(Believed(i)) = held[i]
    BY <1>2, Truth, RowFacts
  <2>2. i \notin DOMAIN cache
    <3> SUFFICES ASSUME i \in DOMAIN cache PROVE FALSE
      OBVIOUS
    <3>1. cache[i].data.at # "box" /\ Believed(i) = cache[i].data
      BY RowFacts DEF Shapes, Believed
    <3> QED
      BY <1>2, <2>1, <3>1, RowFacts
  <2> QED
    BY <2>1, <2>2, Written
<1> QED
  BY <1>1, <1>2

\* The two forms of "the same items in one place".
LEMMA SameFound ==
  ASSUME NEW f, NEW g, NEW at, NEW w, SameAt(f, g, at, w)
  PROVE  Found(f, at, w) = Found(g, at, w)
BY DEF SameAt, Found

-----------------------------------------------------------------------------
(* Statements and answers under way.                                          *)

\* y is what is left of x when the way back may have been cut.
SameRead(y, x) ==
  /\ y.op = x.op /\ (x.op = "put" => y = x)
  /\ x.op # "put" => y.who = x.who /\ (y.to = x.to \/ (y.to # "desc" /\ x.to # "none"))

\* An item that moves is in no bag and no safebox that is being read.
Settled(d) == /\ d.at = "bag" => st[d.who] \in {"play", "leaving"}
              /\ d.at = "box" => box[d.who] # "wait"
HeldKept == \A i \in Items : held'[i] = held[i] \/ (Settled(held[i]) /\ Settled(held'[i]))

LEMMA CutFills ==
  ASSUME NEW x, NEW y, SameRead(y, x)
  PROVE  /\ \A p : FillsBag(y, p) => FillsBag(x, p) /\ (y.to = "desc" => x.to = "desc")
         /\ \A a : OpensBox(y, a) => OpensBox(x, a)
BY DEF SameRead, FillsBag, OpensBox

\* What was right about a bag or a safebox stays so.
LEMMA PlaceKept ==
  ASSUME NEW t, NEW at, NEW w, SameAt(t, held, at, w), HeldKept,
         \/ at = "bag" /\ st[w] \in {"off", "load"}
         \/ at = "box" /\ box[w] = "wait"
  PROVE  SameAt(t, held', at, w)
<1>1. ASSUME NEW i \in Items,
             \/ t[i].at = at /\ t[i].who = w
             \/ held'[i].at = at /\ held'[i].who = w
      PROVE  t[i] = held'[i]
  <2>1. \/ t[i].at = at /\ t[i].who = w
        \/ held[i].at = at /\ held[i].who = w
        => t[i] = held[i]
    BY DEF SameAt
  <2>2. held'[i] = held[i] \/ (Settled(held[i]) /\ Settled(held'[i]))
    BY DEF HeldKept
  <2>3. CASE held'[i] = held[i]
    BY <1>1, <2>1, <2>3
  <2>4. CASE Settled(held[i]) /\ Settled(held'[i])
    <3>1. ~(held[i].at = at /\ held[i].who = w) /\ ~(held'[i].at = at /\ held'[i].who = w)
      BY <2>4 DEF Settled
    <3> QED
      BY <1>1, <2>1, <3>1
  <2> QED
    BY <2>2, <2>3, <2>4
<1> QED
  BY <1>1 DEF SameAt

LEMMA FoundKept ==
  ASSUME NEW at, NEW w, HeldKept,
         \/ at = "bag" /\ st[w] \in {"off", "load"}
         \/ at = "box" /\ box[w] = "wait"
  PROVE  Found(held', at, w) = Found(held, at, w)
<1>1. SameAt(held, held, at, w)
  BY DEF SameAt
<1>2. SameAt(held, held', at, w)
  BY <1>1, PlaceKept
<1> QED
  BY <1>2, SameFound

\* Statements before one that is appended, with the ways back cut or not.
LEMMA FlightsKept ==
  ASSUME TypeOK, Flights, HeldKept, row' = row,
         Len(queue') \in Nat, Len(queue) <= Len(queue'),
         \A k \in 1 .. Len(queue) : SameRead(queue'[k], queue[k]) /\ Waits(queue[k])',
         \A k \in Len(queue) + 1 .. Len(queue') : StatementRight(k)',
         Len(res') = Len(res),
         \A n \in 1 .. Len(res) : /\ SameRead(res'[n], res[n]) /\ Waits(res[n])'
                                  /\ res'[n].items = res[n].items
  PROVE  Flights'
<1>0. Len(queue) \in Nat /\ Len(res) \in Nat
  BY DEF TypeOK
<1>1. ASSUME NEW k \in 1 .. Len(queue) PROVE StatementRight(k)'
  <2> DEFINE x == queue[k]
             y == queue'[k]
             t == Table(k - 1)
  <2>1. StatementRight(k) /\ SameRead(y, x)
    BY DEF Flights
  <2>2. Table(k - 1)' = t
    <3>1. ASSUME NEW i PROVE After(queue', row, k - 1, i) = After(queue, row, k - 1, i)
      <4>1. k - 1 \in Nat /\ \A l \in 1 .. k - 1 : l \in 1 .. Len(queue)
        BY <1>0
      <4>2. \A l \in 1 .. k - 1 : queue[l].op = "put" \/ queue'[l].op = "put"
                                    => queue'[l] = queue[l]
        BY <4>1 DEF SameRead
      <4> QED
        BY <4>1, <4>2, AfterSame
    <3> QED
      BY <3>1 DEF Table
  <2> HIDE DEF t
  <2>3. ASSUME NEW p \in Players, FillsBag(y, p) PROVE SameAt(t, held', "bag", p)
    <3>1. FillsBag(x, p)
      BY <2>1, <2>3, CutFills
    <3>2. SameAt(t, held, "bag", p) /\ st[p] \in {"off", "load"}
      BY <2>1, <3>1 DEF StatementRight, Waits, t
    <3> QED
      BY <3>2, PlaceKept
  <2>4. ASSUME NEW a \in Accounts, OpensBox(y, a), y.op = "box" PROVE SameAt(t, held', "box", a)
    <3>1. OpensBox(x, a) /\ x.op = "box"
      BY <2>1, <2>4, CutFills DEF SameRead
    <3>2. SameAt(t, held, "box", a) /\ box[a] = "wait"
      BY <2>1, <3>1 DEF StatementRight, Waits, t
    <3> QED
      BY <3>2, PlaceKept
  <2>5. Waits(queue[k])'
    OBVIOUS
  <2> QED
    BY <2>2, <2>3, <2>4, <2>5 DEF StatementRight
<1>2. ASSUME NEW n \in 1 .. Len(res) PROVE AnswerRight(n)'
  <2> DEFINE x == res[n]
             y == res'[n]
  <2>1. AnswerRight(n) /\ SameRead(y, x) /\ Waits(res[n])' /\ y.items = x.items
    BY DEF Flights
  <2>2. ASSUME NEW p \in Players, FillsBag(y, p) PROVE y.items = Found(held', "bag", p)
    <3>1. FillsBag(x, p)
      BY <2>1, <2>2, CutFills
    <3>2. x.items = Found(held, "bag", p) /\ st[p] \in {"off", "load"}
      BY <2>1, <3>1 DEF AnswerRight, Waits
    <3>3. Found(held', "bag", p) = Found(held, "bag", p)
      BY <3>2, FoundKept
    <3> QED
      BY <2>1, <3>2, <3>3
  <2>3. ASSUME NEW a \in Accounts, OpensBox(y, a), y.op = "box"
        PROVE  y.items = Found(held', "box", a)
    <3>1. OpensBox(x, a) /\ x.op = "box"
      BY <2>1, <2>3, CutFills DEF SameRead
    <3>2. x.items = Found(held, "box", a) /\ box[a] = "wait"
      BY <2>1, <3>1 DEF AnswerRight, Waits
    <3>3. Found(held', "box", a) = Found(held, "box", a)
      BY <3>2, FoundKept
    <3> QED
      BY <2>1, <3>2, <3>3
  <2> QED
    BY <2>1, <2>2, <2>3 DEF AnswerRight
<1>3. \A k \in 1 .. Len(queue') : StatementRight(k)'
  BY <1>0, <1>1
<1> QED
  BY <1>2, <1>3 DEF Flights

\* Nothing that is appended opens what something before it opens.
LEMMA OrdersKept ==
  ASSUME TypeOK, Orders, Len(queue') \in Nat, Len(queue) <= Len(queue'),
         \A k \in 1 .. Len(queue) : SameRead(queue'[k], queue[k]),
         \A k \in Len(queue) + 1 .. Len(queue') :
           /\ \A l \in 1 .. k - 1 : ~Clash(queue'[l], queue'[k])
           /\ \A n \in 1 .. Len(res) : ~Clash(res'[n], queue'[k]),
         Len(res') = Len(res), \A n \in 1 .. Len(res) : SameRead(res'[n], res[n])
  PROVE  Orders'
<1>0. Len(queue) \in Nat /\ Len(res) \in Nat
  BY DEF TypeOK
<1>1. ASSUME NEW x, NEW x2, NEW y, NEW y2, SameRead(x2, x), SameRead(y2, y), Clash(x2, y2)
      PROVE  Clash(x, y)
  BY <1>1, CutFills DEF Clash
<1>2. InOrder(res)'
  <2>1. \A n \in 1 .. Len(res), m \in 1 .. Len(res) :
          n < m => ~Clash(res[n], res[m])
    BY <1>0 DEF Orders, InOrder
  <2>2. \A n \in 1 .. Len(res), m \in 1 .. Len(res) :
          n < m => ~Clash(res'[n], res'[m])
    BY <1>1, <2>1
  <2> QED
    BY <1>0, <2>2 DEF InOrder
<1>3. InOrder(queue)'
  <2>1. \A n \in 1 .. Len(queue), m \in 1 .. Len(queue) :
          n < m => ~Clash(queue[n], queue[m])
    BY <1>0 DEF Orders, InOrder
  <2>2. \A n \in 1 .. Len(queue), m \in 1 .. Len(queue) :
          n < m => ~Clash(queue'[n], queue'[m])
    BY <1>1, <2>1
  <2>3. \A n \in 1 .. Len(queue'), m \in 1 .. Len(queue') :
          n < m => ~Clash(queue'[n], queue'[m])
    <3> SUFFICES ASSUME NEW n \in 1 .. Len(queue'), NEW m \in 1 .. Len(queue'), n < m
                 PROVE  ~Clash(queue'[n], queue'[m])
      OBVIOUS
    <3>1. CASE m <= Len(queue)
      BY <1>0, <2>2, <3>1
    <3>2. CASE ~(m <= Len(queue))
      <4>1. m \in Len(queue) + 1 .. Len(queue') /\ n \in 1 .. m - 1
        BY <1>0, <3>2
      <4> QED
        BY <4>1
    <3> QED
      BY <3>1, <3>2
  <2> QED
    BY <2>3 DEF InOrder
<1>4. ASSUME NEW n \in 1 .. Len(res), NEW k \in 1 .. Len(queue')
      PROVE  ~Clash(res'[n], queue'[k])
  <2>1. CASE k <= Len(queue)
    <3>1. k \in 1 .. Len(queue)
      BY <1>0, <2>1
    <3>2. ~Clash(res[n], queue[k])
      BY <3>1 DEF Orders
    <3> QED
      BY <1>1, <3>1, <3>2
  <2>2. CASE ~(k <= Len(queue))
    <3>1. k \in Len(queue) + 1 .. Len(queue')
      BY <1>0, <2>2
    <3> QED
      BY <3>1
  <2> QED
    BY <2>1, <2>2
<1> QED
  BY <1>2, <1>3, <1>4 DEF Orders

LEMMA PutsRight ==
  ASSUME NEW x, x.op = "put"
  PROVE  /\ \A p : ~FillsBag(x, p)
         /\ \A a : ~OpensBox(x, a)
         /\ \A y : ~Clash(y, x)
BY DEF FillsBag, OpensBox, Clash

\* The usual case: writes are appended, players at the door stay there, and
\* safeboxes that are waited for are still waited for.
DoorsKept ==
  /\ \A p \in Players : st[p] \in {"off", "load"} /\ p \notin pcache
                          => /\ st'[p] = st[p] \/ (st[p] = "off" /\ st'[p] = "load")
                             /\ p \notin pcache'
  /\ \A a \in Accounts : box[a] = "wait" => box'[a] = "wait"

LEMMA DoorWaits ==
  ASSUME NEW x, Waits(x), DoorsKept
  PROVE  /\ \A p \in Players : FillsBag(x, p) =>
              /\ st'[p] \in {"off", "load"} /\ p \notin pcache'
              /\ x.to = "desc" => st'[p] = "load"
         /\ \A a \in Accounts : OpensBox(x, a) => box'[a] = "wait"
BY DEF Waits, DoorsKept

LEMMA FlightsQuiet ==
  ASSUME TypeOK, Flights, Orders, HeldKept, DoorsKept, row' = row, res' = res,
         Len(queue') \in Nat, Len(queue) <= Len(queue'),
         \A k \in 1 .. Len(queue) : queue'[k] = queue[k],
         \A k \in Len(queue) + 1 .. Len(queue') : queue'[k].op = "put"
  PROVE  Flights' /\ Orders'
<1>1. \A x : SameRead(x, x)
  BY DEF SameRead
<1>2. ASSUME NEW k \in 1 .. Len(queue) PROVE Waits(queue[k])'
  <2>1. Waits(queue[k]) /\ queue'[k] = queue[k]
    BY DEF Flights, StatementRight
  <2>2. PICK y : y = queue[k] /\ y = queue'[k] /\ Waits(y)
    BY <2>1
  <2>3. /\ \A p \in Players : FillsBag(y, p) =>
             /\ st'[p] \in {"off", "load"} /\ p \notin pcache'
             /\ y.to = "desc" => st'[p] = "load"
        /\ \A a \in Accounts : OpensBox(y, a) => box'[a] = "wait"
    BY <2>2, DoorWaits
  <2> QED
    BY <2>2, <2>3 DEF Waits
<1>3. ASSUME NEW n \in 1 .. Len(res) PROVE Waits(res[n])'
  <2>1. Waits(res[n]) /\ res'[n] = res[n]
    BY DEF Flights, AnswerRight
  <2>2. PICK y : y = res[n] /\ y = res'[n] /\ Waits(y)
    BY <2>1
  <2>3. /\ \A p \in Players : FillsBag(y, p) =>
             /\ st'[p] \in {"off", "load"} /\ p \notin pcache'
             /\ y.to = "desc" => st'[p] = "load"
        /\ \A a \in Accounts : OpensBox(y, a) => box'[a] = "wait"
    BY <2>2, DoorWaits
  <2> QED
    BY <2>2, <2>3 DEF Waits
<1>4. ASSUME NEW k \in Len(queue) + 1 .. Len(queue') PROVE StatementRight(k)'
  <2>1. queue'[k].op = "put"
    OBVIOUS
  <2> QED
    BY <2>1, PutsRight DEF StatementRight, Waits
<1>5. Flights'
  BY <1>1, <1>2, <1>3, <1>4, FlightsKept
<1>6. Orders'
  BY <1>1, PutsRight, OrdersKept
<1> QED
  BY <1>5, <1>6

-----------------------------------------------------------------------------
(* A save, and the moves that are saved at once.                              *)

\* What a save does to the entry, the sets and the table to come.
LEMMA SendEffect ==
  ASSUME TypeOK, Shapes, Entries, NEW i \in Items, NEW d, Saved(d) \in Rows,
         row' = row,
         SaveSingleItem(i, d) \/ (SaveAndFlush(i, d) /\ d.at = "bag")
  PROVE  /\ \A j \in Items : j # i =>
              /\ j \in DOMAIN cache' <=> j \in DOMAIN cache
              /\ j \in DOMAIN cache => cache'[j] = cache[j]
              /\ LastWritten(j)' = LastWritten(j)
         /\ DOMAIN sets' = DOMAIN sets
         /\ \A p \in DOMAIN sets : sets[p] \ {i} \subseteq sets'[p]
         /\ d.at = "bag" /\ d.who \in DOMAIN sets => i \in sets'[d.who]
         /\ i \in DOMAIN cache' /\ cache'[i].dirty =>
              /\ cache'[i].data = d /\ d.at = "bag" /\ LastWritten(i)' = LastWritten(i)
              /\ cache'[i].age = Age(i)
         /\ i \in DOMAIN cache' /\ ~cache'[i].dirty =>
              /\ Saved(cache'[i].data) = Saved(d) /\ LastWritten(i)' = Saved(d)
              /\ cache'[i].data \in Bags \/ cache'[i].data.at = "gone"
         /\ i \notin DOMAIN cache' => LastWritten(i)' = Saved(d)
         /\ \/ queue' = queue
            \/ queue' = Append(queue, Put(i, Saved(d)))
<1>1. \A e : LET x == Put(i, e) IN x.op = "put" /\ x.item = i /\ x.data = e
  BY DEF Put
<1>2. ASSUME NEW e, queue' = Append(queue, Put(i, e))
      PROVE  LastWritten(i)' = e /\ \A j : j # i => LastWritten(j)' = LastWritten(j)
  BY <1>1, <1>2, LastAppend
<1>3. ASSUME queue' = queue
      PROVE  \A j : LastWritten(j)' = LastWritten(j)
  BY <1>3 DEF LastWritten, Queued
<1>4. CASE d.at = "bag"
  <2>1. d \in Bags /\ Saved(d) = d
    BY <1>4, RowFacts
  <2>2. PICK e \in [data : {d}, dirty : BOOLEAN, age : Nat] :
              /\ cache' = With(cache, i, e) /\ sets' = Relinked(i, d)
              /\ e.dirty => e.age = Age(i) /\ queue' = queue
              /\ ~e.dirty => queue' = Append(queue, Put(i, d))
    <3>1. Age(i) \in Nat
      BY AgeType, SecsAssumption
    <3>2. CASE SaveSingleItem(i, d)
      <4>1. PutItemCache(i, d)
        BY <1>4, <3>2 DEF SaveSingleItem
      <4> DEFINE e == [data |-> d, dirty |-> d.who \in DOMAIN sets, age |-> Age(i)]
      <4>2. e \in [data : {d}, dirty : BOOLEAN, age : Nat] /\ e.age = Age(i)
            /\ e.dirty = (d.who \in DOMAIN sets)
        BY <3>1
      <4>3. /\ cache' = With(cache, i, e) /\ sets' = Relinked(i, d)
            /\ queue' = IF d.who \in DOMAIN sets THEN queue ELSE Append(queue, Put(i, d))
        BY <4>1 DEF PutItemCache
      <4> HIDE DEF e
      <4> QED
        BY <3>2, <4>2, <4>3
    <3>3. CASE SaveAndFlush(i, d)
      <4> DEFINE e == [data |-> d, dirty |-> FALSE,
                       age |-> IF d.who \in DOMAIN sets THEN 0 ELSE Age(i)]
      <4>1. e \in [data : {d}, dirty : BOOLEAN, age : Nat] /\ ~e.dirty
        BY <3>1
      <4>2. /\ cache' = With(cache, i, e) /\ sets' = Relinked(i, d)
            /\ queue' = Append(queue, Put(i, d))
        BY <3>3 DEF SaveAndFlush
      <4> HIDE DEF e
      <4> QED
        BY <4>1, <4>2
    <3> QED
      BY <3>2, <3>3
  <2>3. /\ DOMAIN cache' = DOMAIN cache \cup {i} /\ cache'[i] = e
        /\ \A j \in DOMAIN cache : j # i => cache'[j] = cache[j]
    BY <2>2 DEF With
  <2>4. /\ DOMAIN sets' = DOMAIN sets
        /\ \A p \in DOMAIN sets : sets[p] \ {i} \subseteq sets'[p]
        /\ d.who \in DOMAIN sets => i \in sets'[d.who]
    BY <2>2 DEF Relinked
  <2>5. e.data = d
    OBVIOUS
  <2>6. CASE e.dirty
    BY <1>3, <1>4, <2>1, <2>2, <2>3, <2>4, <2>5, <2>6
  <2>7. CASE ~e.dirty
    BY <1>2, <1>4, <2>1, <2>2, <2>3, <2>4, <2>5, <2>7
  <2> QED
    BY <2>6, <2>7
<1>5. CASE d.at = "box"
  <2>1. PutBoxItem(i, d) /\ Saved(d) = d
    BY <1>5, RowFacts DEF SaveSingleItem
  <2>2. /\ DOMAIN cache' = DOMAIN cache \ {i}
        /\ \A j \in DOMAIN cache : j # i => cache'[j] = cache[j]
    BY <2>1 DEF PutBoxItem, Restrict
  <2>3. /\ DOMAIN sets' = DOMAIN sets
        /\ \A p \in DOMAIN sets : sets[p] \ {i} \subseteq sets'[p]
    BY <2>1 DEF PutBoxItem
  <2>4. queue' = Append(queue, Put(i, d))
    BY <2>1 DEF PutBoxItem
  <2> QED
    BY <1>2, <1>5, <2>1, <2>2, <2>3, <2>4
<1>6. CASE d.at # "bag" /\ d.at # "box"
  <2>1. DeleteItem(i) /\ Saved(d) = Absent
    BY <1>6, RowFacts DEF SaveSingleItem
  <2>2. DOMAIN cache' = DOMAIN cache /\ sets' = sets
        /\ \A j \in DOMAIN cache : j # i => cache'[j] = cache[j]
    BY <2>1 DEF DeleteItem
  <2>3. i \in DOMAIN cache => ~cache'[i].dirty /\ cache'[i].data.at = "gone"
                              /\ Saved(cache'[i].data) = Absent
    <3> SUFFICES ASSUME i \in DOMAIN cache
                 PROVE  ~cache'[i].dirty /\ cache'[i].data.at = "gone"
      BY RowFacts
    <3> DEFINE x == cache[i].data
    <3>1. x \in Data
      BY DEF TypeOK, Entry
    <3>2. [x EXCEPT !.at = "gone"].at = "gone"
      BY <3>1 DEF Data
    <3> QED
      BY <2>1, <3>2 DEF DeleteItem, Erased
  <2>4. CASE i \in DOMAIN cache /\ cache[i].data.at = "gone"
    <3>1. queue' = queue
      BY <2>1, <2>4 DEF DeleteItem
    <3>2. ~cache[i].dirty
      BY <2>4, RowFacts DEF Shapes
    <3>3. LastWritten(i) = Absent
      BY <2>4, <3>2, RowFacts DEF Entries
    <3> QED
      BY <1>3, <1>6, <2>1, <2>2, <2>3, <3>1, <3>3
  <2>5. CASE ~(i \in DOMAIN cache /\ cache[i].data.at = "gone")
    <3>1. queue' = Append(queue, Put(i, Absent))
      BY <2>1, <2>5 DEF DeleteItem
    <3> QED
      BY <1>2, <1>6, <2>1, <2>2, <2>3, <3>1
  <2> QED
    BY <2>4, <2>5
<1> QED
  BY <1>4, <1>5, <1>6

\* A message about one item that is true when it is sent.
LEMMA SendKeeps ==
  ASSUME TypeOK, LinksAlive, Coherent, TypeOK', NEW i \in Items, NEW d, Saved(d) \in Rows,
         SaveSingleItem(i, d) \/ (SaveAndFlush(i, d) /\ d.at = "bag"),
         held'[i] = d, \A j \in Items : j # i => held'[j] = held[j],
         pend' = pend \ {i},
         UNCHANGED <<st, box, pcache, out, row, res>>,
         Settled(held[i]), d # held[i] => Settled(d),
         d.at = "bag" => st[d.who] \in {"play", "leaving"},
         i \in DOMAIN cache' /\ cache'[i].dirty => held[i].at = "bag"
  PROVE  Coherent'
<1>0. /\ Shapes /\ Seats /\ Entries /\ Follows /\ Complete /\ Flights /\ Orders
      /\ Len(queue) \in Nat /\ pend \subseteq Items
  BY DEF Coherent, TypeOK
<1>1. /\ \A j \in Items : j # i =>
           /\ j \in DOMAIN cache' <=> j \in DOMAIN cache
           /\ j \in DOMAIN cache => cache'[j] = cache[j]
           /\ LastWritten(j)' = LastWritten(j)
           /\ Believed(j)' = Believed(j)
      /\ DOMAIN sets' = DOMAIN sets
      /\ \A p \in DOMAIN sets : sets[p] \ {i} \subseteq sets'[p]
      /\ d.at = "bag" /\ d.who \in DOMAIN sets => i \in sets'[d.who]
  BY <1>0, SendEffect DEF Believed
<1>2. /\ i \in DOMAIN cache' /\ cache'[i].dirty =>
           /\ cache'[i].data = d /\ d.at = "bag" /\ LastWritten(i)' = LastWritten(i)
           /\ cache'[i].age = Age(i)
      /\ i \in DOMAIN cache' /\ ~cache'[i].dirty =>
           /\ Saved(cache'[i].data) = Saved(d) /\ LastWritten(i)' = Saved(d)
           /\ cache'[i].data \in Bags \/ cache'[i].data.at = "gone"
      /\ i \notin DOMAIN cache' => LastWritten(i)' = Saved(d)
      /\ Saved(Believed(i)') = Saved(d)
  <2>1. Saved(Saved(d)) = Saved(d)
    BY RowFacts
  <2> QED
    BY <1>0, <2>1, SendEffect DEF Believed
<1>3. queue' = queue \/ queue' = Append(queue, Put(i, Saved(d)))
  BY <1>0, SendEffect
<1>4. /\ Len(queue') \in Nat /\ Len(queue) <= Len(queue')
      /\ \A k \in 1 .. Len(queue) : queue'[k] = queue[k]
      /\ \A k \in Len(queue) + 1 .. Len(queue') : queue'[k].op = "put" /\ queue'[k].data = Saved(d)
  <2>1. CASE queue' = queue
    BY <1>0, <2>1
  <2>2. CASE queue' = Append(queue, Put(i, Saved(d)))
    <3>1. Put(i, Saved(d)).op = "put" /\ Put(i, Saved(d)).data = Saved(d)
      BY DEF Put
    <3>2. Len(queue') = Len(queue) + 1 /\ queue'[Len(queue) + 1] = Put(i, Saved(d))
          /\ \A k \in 1 .. Len(queue) : queue'[k] = queue[k]
      BY <2>2 DEF TypeOK
    <3> QED
      BY <1>0, <3>1, <3>2
  <2> QED
    BY <1>3, <2>1, <2>2
<1>5. Shapes'
  <2>1. \A j \in Items : row'[j] \in Rows /\ Saved(held'[j]) \in Rows
    BY <1>0 DEF Shapes
  <2>2. \A k \in 1 .. Len(queue') : queue'[k].op = "put" => queue'[k].data \in Rows
    <3> SUFFICES ASSUME NEW k \in 1 .. Len(queue'), queue'[k].op = "put"
                 PROVE  queue'[k].data \in Rows
      OBVIOUS
    <3>1. CASE k \in 1 .. Len(queue)
      BY <1>0, <1>4, <3>1 DEF Shapes
    <3>2. CASE k \notin 1 .. Len(queue)
      <4>1. k \in Len(queue) + 1 .. Len(queue')
        BY <1>0, <1>4, <3>2
      <4> QED
        BY <1>4, <4>1
    <3> QED
      BY <3>1, <3>2
  <2>3. ASSUME NEW j \in DOMAIN cache'
        PROVE  cache'[j].data \in Bags \/ (cache'[j].data.at = "gone" /\ ~cache'[j].dirty)
    <3>1. CASE j = i
      <4>1. d.at = "bag" => d \in Bags
        BY RowFacts
      <4> QED
        BY <1>2, <3>1, <4>1
    <3>2. CASE j # i
      <4>1. j \in Items
        BY DEF TypeOK
      <4> QED
        BY <1>0, <1>1, <3>2, <4>1 DEF Shapes
    <3> QED
      BY <3>1, <3>2
  <2> QED
    BY <2>1, <2>2, <2>3 DEF Shapes
<1>6. Seats'
  BY <1>0, <1>1 DEF Seats
<1>7. Entries'
  <2>1. ASSUME NEW j \in DOMAIN cache', j # i
        PROVE  /\ ~cache'[j].dirty => Saved(cache'[j].data) = LastWritten(j)'
               /\ cache'[j].dirty => /\ LastWritten(j)'.at # "box"
                                     /\ \A p \in Players : About(j, p)' => Guarded(j, p)'
    <3>1. j \in Items
      BY DEF TypeOK
    <3>2. j \in DOMAIN cache /\ cache'[j] = cache[j] /\ LastWritten(j)' = LastWritten(j)
      BY <1>1, <2>1, <3>1
    <3>3. \A p : (About(j, p)' <=> About(j, p)) /\ (Guarded(j, p)' <=> Guarded(j, p))
      BY <3>2 DEF About, Guarded
    <3> QED
      BY <1>0, <3>2, <3>3 DEF Entries
  <2>2. ASSUME i \in DOMAIN cache', ~cache'[i].dirty
        PROVE  Saved(cache'[i].data) = LastWritten(i)'
    BY <1>2, <2>2
  <2>3. ASSUME i \in DOMAIN cache', cache'[i].dirty
        PROVE  /\ LastWritten(i)'.at # "box"
               /\ \A p \in Players : About(i, p)' => Guarded(i, p)'
    <3>1. /\ cache'[i].data = d /\ d.at = "bag" /\ LastWritten(i)' = LastWritten(i)
          /\ cache'[i].age = Age(i) /\ held[i].at = "bag"
      BY <1>2, <2>3
    <3>2. LastWritten(i).at # "box"
      BY <1>0, <3>1, BoxWritten
    <3>3. ASSUME NEW p \in Players, LastWritten(i).at = "bag", LastWritten(i).who = p
          PROVE  Guarded(i, p)'
      <4>1. CASE i \in DOMAIN cache /\ cache[i].dirty
        <5>1. About(i, p)
          BY <3>3 DEF About
        <5>2. Guarded(i, p)
          BY <1>0, <4>1, <5>1 DEF Entries
        <5>3. Age(i) = cache[i].age
          BY <4>1 DEF Age
        <5> QED
          BY <3>1, <5>2, <5>3 DEF Guarded
      <4>2. CASE ~(i \in DOMAIN cache /\ cache[i].dirty)
        <5>1. LastWritten(i) = Saved(Believed(i))
          BY <1>0, <4>2, Written
        <5>2. p = held[i].who
          BY <1>0, <3>1, <3>3, <5>1, Truth, RowFacts
        <5>3. st[p] \in {"play", "leaving"}
          BY <3>1, <5>2 DEF Settled
        <5> QED
          BY <5>3 DEF Guarded
      <4> QED
        BY <4>1, <4>2
    <3>4. ASSUME NEW p \in Players, cache'[i].data.who = p
          PROVE  Guarded(i, p)'
      BY <3>1, <3>4 DEF Guarded
    <3> QED
      BY <3>1, <3>2, <3>3, <3>4 DEF About
  <2> QED
    BY <2>1, <2>2, <2>3 DEF Entries
<1>8. Follows'
  <2>1. ASSUME NEW j \in Items, j # i
        PROVE  IF j \notin pend' THEN Saved(Believed(j)') = Saved(held'[j])
               ELSE /\ held'[j] \in Bags /\ st'[held'[j].who] \in {"play", "leaving"}
                    /\ \/ Saved(Believed(j)') = Absent
                       \/ /\ Saved(Believed(j)') \in Bags
                          /\ Saved(Believed(j)').who = held'[j].who
    BY <1>0, <1>1, <2>1 DEF Follows
  <2>2. i \notin pend' /\ Saved(Believed(i)') = Saved(held'[i])
    BY <1>2
  <2> QED
    BY <2>1, <2>2 DEF Follows
<1>9. Complete'
  <2> SUFFICES ASSUME NEW p \in DOMAIN sets, NEW j \in Items,
                      Saved(Believed(j)') \in Bags, Saved(Believed(j)').who = p
               PROVE  j \in sets'[p]
    BY <1>1 DEF Complete
  <2>1. CASE j # i
    BY <1>0, <1>1, <2>1 DEF Complete
  <2>2. CASE j = i
    <3>1. d.at = "bag" /\ d.who = p
      BY <1>2, <2>2, RowFacts
    <3> QED
      BY <1>1, <2>2, <3>1
  <2> QED
    BY <2>1, <2>2
<1>10. HeldKept
  BY DEF HeldKept
<1>11. Flights' /\ Orders'
  BY <1>0, <1>4, <1>10, FlightsQuiet DEF DoorsKept
<1> QED
  BY <1>5, <1>6, <1>7, <1>8, <1>9, <1>11 DEF Coherent

\* The moves of items, and the saves of those that wait.
LEMMA MovesKeep ==
  ASSUME TypeOK, LinksAlive, Coherent, TypeOK', NEW i \in Items, NEW d,
         \/ Moved(i, d) /\ (d.at = "bag" => held[i].at = "bag")
         \/ SavePending(i) /\ d = held[i]
         \/ \E p \in Players : CheckOut(i, p) /\ d = Bag(p, held[i].val),
         Saved(d) \in Rows, Settled(held[i]), d # held[i] => Settled(d),
         d.at = "bag" => st[d.who] \in {"play", "leaving"}
  PROVE  Coherent'
<1>0. held \in [Items -> Data] /\ Shapes /\ Entries
  BY DEF TypeOK, Coherent
<1>1. CASE Moved(i, d) /\ (d.at = "bag" => held[i].at = "bag")
  <2>1. /\ held'[i] = d /\ \A j \in Items : j # i => held'[j] = held[j]
        /\ pend' = pend \ {i} /\ UNCHANGED <<st, box, pcache, out, row, res>>
        /\ SaveSingleItem(i, d)
    BY <1>0, <1>1 DEF Moved
  <2>2. i \in DOMAIN cache' /\ cache'[i].dirty => held[i].at = "bag"
    BY <1>0, <1>1, <2>1, SendEffect
  <2> QED
    BY <2>1, <2>2, SendKeeps
<1>2. CASE SavePending(i) /\ d = held[i]
  <2>1. /\ held'[i] = d /\ \A j \in Items : j # i => held'[j] = held[j]
        /\ pend' = pend \ {i} /\ UNCHANGED <<st, box, pcache, out, row, res>>
        /\ SaveSingleItem(i, d)
    BY <1>2 DEF SavePending
  <2>2. i \in DOMAIN cache' /\ cache'[i].dirty => held[i].at = "bag"
    BY <1>0, <1>2, <2>1, SendEffect
  <2> QED
    BY <1>2, <2>1, <2>2, SendKeeps
<1>3. CASE \E p \in Players : CheckOut(i, p) /\ d = Bag(p, held[i].val)
  <2>1. PICK p \in Players : CheckOut(i, p) /\ d = Bag(p, held[i].val)
    BY <1>3
  <2>2. d.at = "bag" /\ held[i].at = "box"
    BY <2>1 DEF Bag, CheckOut
  <2>3. /\ held'[i] = d /\ \A j \in Items : j # i => held'[j] = held[j]
        /\ pend' = pend \ {i} /\ UNCHANGED <<st, box, pcache, out, row, res>>
        /\ SaveAndFlush(i, d)
    BY <1>0, <2>1 DEF CheckOut, Bag
  <2>4. cache'[i].dirty = FALSE
    BY <2>3 DEF SaveAndFlush, With
  <2> QED
    BY <2>2, <2>3, <2>4, SendKeeps
<1> QED
  BY <1>1, <1>2, <1>3

LEMMA SendsKeep ==
  ASSUME TypeOK, LinksAlive, Coherent, TypeOK', NEW i \in Items,
         \/ Drop(i) \/ Vanish(i) \/ CheckIn(i) \/ SavePending(i)
         \/ \E p \in Players : Exchange(i, p) \/ CheckOut(i, p)
  PROVE  Coherent'
<1>0. held[i] \in Data /\ held[i].val \in Vals /\ Shapes /\ Follows
  BY DEF TypeOK, Data, Coherent
<1>1. \A p \in Players, v \in Vals : Bag(p, v) \in Bags /\ Bag(p, v).at = "bag" /\ Bag(p, v).who = p
  BY DEF Bags, Bag
<1>2. \A a \in Accounts, v \in Vals : InBox(a, v) \in Boxes /\ InBox(a, v).at = "box"
                                      /\ InBox(a, v).who = a
  BY DEF Boxes, InBox
<1>3. CASE Drop(i)
  <2> DEFINE d == [at |-> "ground", who |-> NoOne, val |-> held[i].val]
  <2>1. Moved(i, d) /\ d.at = "ground"
    BY <1>3 DEF Drop
  <2>2. Settled(held[i]) /\ Settled(d)
    BY <1>3, <2>1 DEF Settled, Drop, Carried, InPlay
  <2>3. Saved(d) \in Rows
    BY <2>1, RowFacts
  <2> HIDE DEF d
  <2> QED
    BY <2>1, <2>2, <2>3, MovesKeep
<1>4. CASE Vanish(i)
  <2>1. Moved(i, Absent) /\ Absent.at = "gone" /\ Saved(Absent) \in Rows
    BY <1>4, RowFacts DEF Vanish
  <2>2. Settled(held[i]) /\ Settled(Absent)
    BY <1>4, <2>1 DEF Settled, Vanish
  <2> QED
    BY <2>1, <2>2, MovesKeep
<1>5. CASE CheckIn(i)
  <2> DEFINE d == InBox(AcctOf[held[i].who], held[i].val)
  <2>0. AcctOf[held[i].who] \in Accounts
    BY <1>5, AcctAssumption DEF CheckIn, Carried, InPlay
  <2>1. Moved(i, d) /\ d.at = "box" /\ d \in Boxes /\ box[d.who] = "open"
    BY <1>0, <1>2, <1>5, <2>0 DEF CheckIn
  <2>2. Settled(held[i]) /\ Settled(d)
    BY <1>5, <2>1 DEF Settled, CheckIn, Carried, InPlay
  <2>3. Saved(d) \in Rows
    BY <2>1, RowFacts
  <2> HIDE DEF d
  <2> QED
    BY <2>1, <2>2, <2>3, MovesKeep
<1>6. CASE SavePending(i)
  <2>1. i \in pend
    BY <1>6 DEF SavePending
  <2>2. held[i] \in Bags /\ st[held[i].who] \in {"play", "leaving"}
    BY <1>0, <2>1, Truth
  <2>3. Saved(held[i]) \in Rows /\ held[i].at = "bag"
    BY <2>2, RowFacts
  <2>4. Settled(held[i])
    BY <2>2, <2>3 DEF Settled
  <2> QED
    BY <1>6, <2>2, <2>3, <2>4, MovesKeep
<1>7. ASSUME NEW p \in Players, Exchange(i, p) PROVE Coherent'
  <2> DEFINE d == Bag(p, held[i].val)
  <2>1. Moved(i, d) /\ d.at = "bag" /\ d \in Bags /\ d.who = p
    BY <1>0, <1>1, <1>7 DEF Exchange
  <2>2. st[p] = "play" /\ held[i].at = "bag" /\ st[held[i].who] = "play"
    BY <1>7 DEF Exchange, Carried, InPlay
  <2>3. Settled(held[i]) /\ Settled(d)
    BY <2>1, <2>2 DEF Settled
  <2>4. Saved(d) \in Rows
    BY <2>1, RowFacts
  <2> HIDE DEF d
  <2> QED
    BY <2>1, <2>2, <2>3, <2>4, MovesKeep
<1>8. ASSUME NEW p \in Players, CheckOut(i, p) PROVE Coherent'
  <2> DEFINE d == Bag(p, held[i].val)
  <2>1. d.at = "bag" /\ d \in Bags /\ d.who = p
    BY <1>0, <1>1
  <2>2. st[p] = "play" /\ held[i].at = "box" /\ box[held[i].who] = "open"
    BY <1>8 DEF CheckOut
  <2>3. Settled(held[i]) /\ Settled(d)
    BY <2>1, <2>2 DEF Settled
  <2>4. Saved(d) \in Rows
    BY <2>1, RowFacts
  <2> QED
    BY <1>8, <2>1, <2>2, <2>3, <2>4, MovesKeep
<1> QED
  BY <1>3, <1>4, <1>5, <1>6, <1>7, <1>8

-----------------------------------------------------------------------------
(* Players come and go, and change what they have.                            *)

\* What the db knows stays, and so does who is in the game with items to save.
LEMMA KnownKept ==
  ASSUME TypeOK, Coherent, UNCHANGED <<cache, sets>>,
         \A i \in Items : LastWritten(i)' = LastWritten(i),
         \A i \in DOMAIN cache, p \in Players : Guarded(i, p) => Guarded(i, p)'
  PROVE  /\ Entries' /\ Complete'
         /\ UNCHANGED <<held, pend>> /\
            (\A i \in pend : st[held[i].who] \in {"play", "leaving"}
                               => st'[held[i].who] \in {"play", "leaving"})
            => Follows'
<1>0. /\ DOMAIN cache \subseteq Items
      /\ Entries /\ Complete /\ Follows
  BY DEF TypeOK, Coherent
<1>1. \A i \in Items : Believed(i)' = Believed(i)
  BY DEF Believed
<1>2. Entries'
  <2>1. \A i \in DOMAIN cache, p \in Players : About(i, p)' <=> About(i, p)
    BY <1>0 DEF About
  <2> QED
    BY <1>0, <2>1 DEF Entries
<1>3. Complete'
  BY <1>0, <1>1 DEF Complete
<1>4. ASSUME UNCHANGED <<held, pend>>,
             \A i \in pend : st[held[i].who] \in {"play", "leaving"}
                               => st'[held[i].who] \in {"play", "leaving"}
      PROVE  Follows'
  BY <1>0, <1>1, <1>4 DEF Follows
<1> QED
  BY <1>2, <1>3, <1>4

\* Nothing is written.
LEMMA LastSame ==
  ASSUME TypeOK, row' = row, Len(queue') = Len(queue),
         \A k \in 1 .. Len(queue) : SameRead(queue'[k], queue[k])
  PROVE  \A i \in Items : LastWritten(i)' = LastWritten(i)
<1> DEFINE n == Len(queue)
<1>1. n \in Nat
  BY DEF TypeOK
<1>2. \A k \in 1 .. n : queue[k].op = "put" \/ queue'[k].op = "put" => queue'[k] = queue[k]
  BY DEF SameRead
<1>3. \A i : After(queue', row, n, i) = After(queue, row, n, i)
  BY <1>1, <1>2, AfterSame
<1> QED
  BY <1>3, LastIs, LastIsNext

\* A select is appended.
LEMMA ReadAppended ==
  ASSUME TypeOK, Shapes, NEW x, x.op # "put", queue' = Append(queue, x), row' = row,
         UNCHANGED <<cache, held>>
  PROVE  /\ Len(queue') = Len(queue) + 1 /\ Len(queue) \in Nat /\ queue'[Len(queue) + 1] = x
         /\ \A k \in 1 .. Len(queue) : queue'[k] = queue[k]
         /\ \A i \in Items : LastWritten(i)' = LastWritten(i)
         /\ \A i \in Items : After(queue', row', Len(queue), i) = LastWritten(i)
         /\ Shapes'
<1> DEFINE n == Len(queue)
<1>1. /\ Len(queue') = n + 1 /\ n \in Nat /\ queue'[n + 1] = x
      /\ \A k \in 1 .. n : queue'[k] = queue[k]
  BY DEF TypeOK
<1>2. \A i \in Items : LastWritten(i)' = LastWritten(i)
  BY LastAppend
<1>3. ASSUME NEW i PROVE After(queue', row, n, i) = LastWritten(i)
  <2>1. LastWritten(i) = After(queue, row, n, i)
    BY LastIs
  <2>2. \A k \in 1 .. n : queue[k].op = "put" \/ queue'[k].op = "put" => queue'[k] = queue[k]
    BY <1>1
  <2> HIDE DEF n
  <2>3. n \in Nat
    BY <1>1
  <2>4. After(queue', row, n, i) = After(queue, row, n, i)
    BY ONLY <2>2, <2>3, AfterSame
  <2> QED
    BY <2>1, <2>4
<1>5. Shapes'
  <2>1. \A k \in 1 .. n + 1 : queue'[k].op = "put" => queue'[k].data \in Rows
    <3> SUFFICES ASSUME NEW k \in 1 .. n + 1, queue'[k].op = "put" PROVE queue'[k].data \in Rows
      OBVIOUS
    <3>1. k \in 1 .. n
      BY <1>1
    <3> QED
      BY <1>1, <3>1 DEF Shapes
  <2> QED
    BY <1>1, <2>1 DEF Shapes
<1> QED
  BY <1>1, <1>2, <1>3, <1>5

LEMMA ReadFlights ==
  ASSUME TypeOK, Flights, Orders, HeldKept, DoorsKept, UNCHANGED <<row, res>>,
         NEW n \in Nat, n = Len(queue), NEW x, Len(queue') = n + 1, queue'[n + 1] = x,
         \A k \in 1 .. n : queue'[k] = queue[k], StatementRight(n + 1)',
         \A y : Waits(y) => ~Clash(y, x)
  PROVE  Flights' /\ Orders'
<1>1. \A y : SameRead(y, y)
  BY DEF SameRead
<1>2. ASSUME NEW k \in 1 .. n PROVE Waits(queue[k])' /\ ~Clash(queue[k], x)
  <2>1. Waits(queue[k]) /\ queue'[k] = queue[k]
    BY DEF Flights, StatementRight
  <2>2. PICK y : y = queue[k] /\ y = queue'[k] /\ Waits(y)
    BY <2>1
  <2>3. /\ \A p \in Players : FillsBag(y, p) =>
             /\ st'[p] \in {"off", "load"} /\ p \notin pcache'
             /\ y.to = "desc" => st'[p] = "load"
        /\ \A a \in Accounts : OpensBox(y, a) => box'[a] = "wait"
    BY <2>2, DoorWaits
  <2> QED
    BY <2>2, <2>3 DEF Waits
<1>3. ASSUME NEW m \in 1 .. Len(res) PROVE Waits(res[m])' /\ ~Clash(res[m], x)
  <2>1. Waits(res[m]) /\ res'[m] = res[m]
    BY DEF Flights, AnswerRight
  <2>2. PICK y : y = res[m] /\ y = res'[m] /\ Waits(y)
    BY <2>1
  <2>3. /\ \A p \in Players : FillsBag(y, p) =>
             /\ st'[p] \in {"off", "load"} /\ p \notin pcache'
             /\ y.to = "desc" => st'[p] = "load"
        /\ \A a \in Accounts : OpensBox(y, a) => box'[a] = "wait"
    BY <2>2, DoorWaits
  <2> QED
    BY <2>2, <2>3 DEF Waits
<1>4. Flights'
  <2>1. \A k \in n + 1 .. Len(queue') : StatementRight(k)'
    OBVIOUS
  <2> QED
    BY <1>1, <1>2, <1>3, <2>1, FlightsKept
<1>5. Orders'
  <2>1. ASSUME NEW k \in n + 1 .. Len(queue')
        PROVE  /\ \A l \in 1 .. k - 1 : ~Clash(queue'[l], queue'[k])
               /\ \A m \in 1 .. Len(res) : ~Clash(res'[m], queue'[k])
    <3>1. k = n + 1 /\ (n + 1) - 1 = n /\ queue'[k] = x
      OBVIOUS
    <3> QED
      BY <1>2, <1>3, <3>1
  <2> QED
    BY <1>1, <2>1, OrdersKept
<1> QED
  BY <1>4, <1>5

LEMMA LoadKeeps ==
  ASSUME TypeOK, Coherent, NEW p \in Players, Load(p)
  PROVE  Coherent'
<1>0. /\ Shapes /\ Seats /\ Entries /\ Follows /\ Complete /\ Flights /\ Orders
      /\ Len(queue) \in Nat /\ pend \subseteq Items /\ AcctOf[p] = AcctOf[p]
      /\ st \in [Players -> {"off", "load", "play", "leaving"}]
  BY DEF Coherent, TypeOK
<1>1. /\ st[p] = "off" /\ \A q \in Players : AcctOf[q] = AcctOf[p] => st[q] = "off"
      /\ UNCHANGED <<held, pend, box, cache, sets, pcache, row, res>>
      /\ DOMAIN out' = DOMAIN out \ Mates(p) /\ \A q \in DOMAIN out' : out'[q] = out[q]
      /\ \A q \in Players : q # p => st'[q] = st[q]
  BY <1>0 DEF Load, Mates, DeleteLogoutPlayer, Restrict
<1>2. \A i \in DOMAIN cache, q \in Players : Guarded(i, q) => Guarded(i, q)'
  BY <1>1 DEF Guarded
<1>3. HeldKept
  BY <1>1 DEF HeldKept
<1>4. ASSUME NEW q \in DOMAIN out', NEW r \in Mates(q) PROVE st'[r] = "off"
  <2>1. q \in DOMAIN out /\ q \notin Mates(p) /\ q \in Players
    BY <1>1, <1>4 DEF TypeOK
  <2>2. st[r] = "off" /\ r \in Players /\ r # p
    BY <1>0, <2>1 DEF Seats, Mates
  <2> QED
    BY <1>1, <2>2
<1>5. \A i \in pend : st[held[i].who] \in {"play", "leaving"} /\ held[i].who \in Players
  BY <1>0, Truth, RowFacts
<1>6. CASE p \in pcache /\ p \in DOMAIN sets /\ st' = [st EXCEPT ![p] = "play"] /\ queue' = queue
  <2>1. st'[p] = "play"
    BY <1>0, <1>6
  <2>2. Seats'
    BY <1>0, <1>1, <1>4, <1>6, <2>1 DEF Seats
  <2>3. \A i \in Items : LastWritten(i)' = LastWritten(i)
    BY <1>1, <1>6 DEF LastWritten, Queued
  <2>4. Entries' /\ Follows' /\ Complete'
    BY <1>1, <1>2, <1>5, <2>1, <2>3, KnownKept
  <2>5. Shapes'
    BY <1>0, <1>1, <1>6 DEF Shapes
  <2>6. DoorsKept
    BY <1>1, <1>6 DEF DoorsKept
  <2>7. Flights' /\ Orders'
    BY <1>0, <1>1, <1>3, <1>6, <2>6, FlightsQuiet
  <2> QED
    BY <2>2, <2>4, <2>5, <2>7 DEF Coherent
<1>7. CASE /\ ~(p \in pcache /\ p \in DOMAIN sets)
           /\ queue' = Append(queue, Select("bag", p)) /\ st' = [st EXCEPT ![p] = "load"]
  <2> DEFINE x == Select("bag", p)
  <2>n. PICK n \in Nat : n = Len(queue)
    BY <1>0
  <2>0. x.op = "bag" /\ x.who = p /\ x.to = "desc"
    BY DEF Select
  <2>1. st'[p] = "load" /\ p \notin pcache
    BY <1>0, <1>7 DEF Seats
  <2>2. Seats'
    BY <1>0, <1>1, <1>4, <2>1 DEF Seats
  <2>3. /\ Len(queue') = n + 1 /\ n \in Nat /\ queue'[n + 1] = x
        /\ \A k \in 1 .. n : queue'[k] = queue[k]
        /\ \A i \in Items : LastWritten(i)' = LastWritten(i)
        /\ \A i \in Items : After(queue', row', n, i) = LastWritten(i)
        /\ Shapes'
    BY <1>0, <1>1, <1>7, <2>0, <2>n, ReadAppended
  <2> HIDE DEF x
  <2>4. Entries' /\ Follows' /\ Complete'
    <3>1. \A i \in pend : st'[held[i].who] \in {"play", "leaving"}
      BY <1>1, <1>5
    <3> QED
      BY <1>1, <1>2, <2>3, <3>1, KnownKept
  <2>5. DoorsKept
    BY <1>1, <2>1 DEF DoorsKept
  <2>9. StatementRight(n + 1)'
    <3>1. SameAt([i \in Items |-> LastWritten(i)], held, "bag", p)
      <4>1. ASSUME NEW i \in Items,
                   \/ LastWritten(i).at = "bag" /\ LastWritten(i).who = p
                   \/ held[i].at = "bag" /\ held[i].who = p
            PROVE  LastWritten(i) = held[i]
        <5>1. LastWritten(i).at = "bag" => LastWritten(i) \in Bags
          BY <1>0, LastRow, RowFacts
        <5>2. held[i].at = "bag" => held[i] \in Bags
          BY <1>0, Truth
        <5> QED
          BY <1>0, <1>1, <2>1, <4>1, <5>1, <5>2, BagWritten
      <4> QED
        BY <4>1 DEF SameAt
    <3>2. Waits(x)'
      BY <1>1, <2>0, <2>1 DEF Waits, FillsBag, OpensBox
    <3>3. Table((n + 1) - 1)' = [i \in Items |-> LastWritten(i)]
      BY <2>3 DEF Table
    <3>4. \A q \in Players : FillsBag(x, q) => q = p
      BY <2>0 DEF FillsBag
    <3>5. \A a : ~(OpensBox(x, a) /\ x.op = "box")
      BY <2>0
    <3> QED
      BY <1>1, <2>3, <3>1, <3>2, <3>3, <3>4, <3>5 DEF StatementRight, Waits
  <2>10. Flights' /\ Orders'
    <3>1. ASSUME NEW y, Waits(y) PROVE ~Clash(y, x)
      BY <1>1, <2>0, <3>1 DEF Clash, Waits, FillsBag, OpensBox
    <3> QED
      BY <1>0, <1>1, <1>3, <2>3, <2>5, <2>9, <2>n, <3>1, ReadFlights
  <2> QED
    BY <2>2, <2>3, <2>4, <2>10 DEF Coherent
<1> QED
  BY <1>6, <1>7 DEF Load

LEMMA OpenBoxKeeps ==
  ASSUME TypeOK, Coherent, NEW p \in Players, OpenBox(p)
  PROVE  Coherent'
<1> DEFINE a == AcctOf[p]
           x == Select("safebox", a)
<1>0. /\ Shapes /\ Seats /\ Entries /\ Follows /\ Complete /\ Flights /\ Orders
      /\ Len(queue) \in Nat /\ pend \subseteq Items /\ a \in Accounts
      /\ box \in [Accounts -> {"shut", "wait", "open"}]
  BY AcctAssumption DEF Coherent, TypeOK
<1>1. /\ box[a] = "shut" /\ box' = [box EXCEPT ![a] = "wait"] /\ queue' = Append(queue, x)
      /\ UNCHANGED <<held, pend, st, cache, sets, pcache, out, row, res>>
  BY DEF OpenBox
<1>2. x.op = "safebox" /\ x.who = a /\ x.to = "desc"
  BY DEF Select
<1>3. PICK n \in Nat : n = Len(queue)
  BY <1>0
<1>4. /\ Len(queue') = n + 1 /\ queue'[n + 1] = x
      /\ \A k \in 1 .. n : queue'[k] = queue[k]
      /\ \A i \in Items : LastWritten(i)' = LastWritten(i)
      /\ Shapes'
  BY <1>0, <1>1, <1>2, <1>3, ReadAppended
<1> HIDE DEF x, a
<1>5. Seats'
  BY <1>0, <1>1 DEF Seats
<1>6. Entries' /\ Follows' /\ Complete'
  <2>1. \A i \in DOMAIN cache, q \in Players : Guarded(i, q) => Guarded(i, q)'
    BY <1>1 DEF Guarded
  <2> QED
    BY <1>1, <1>4, <2>1, KnownKept
<1>7. HeldKept /\ DoorsKept
  BY <1>0, <1>1 DEF HeldKept, DoorsKept
<1>8. StatementRight(n + 1)'
  <2>1. \A q : ~FillsBag(x, q)
    BY <1>2 DEF FillsBag
  <2>2. \A b : OpensBox(x, b) => b = a
    BY <1>2 DEF OpensBox
  <2>3. box'[a] = "wait" /\ x.op # "box"
    BY <1>0, <1>1, <1>2
  <2> QED
    BY <1>4, <2>1, <2>2, <2>3 DEF StatementRight, Waits
<1>9. ASSUME NEW y, Waits(y) PROVE ~Clash(y, x)
  BY <1>0, <1>1, <1>2, <1>9 DEF Clash, Waits, FillsBag, OpensBox
<1>10. Flights' /\ Orders'
  BY <1>0, <1>1, <1>3, <1>4, <1>7, <1>8, <1>9, ReadFlights
<1> QED
  BY <1>4, <1>5, <1>6, <1>10 DEF Coherent

LEMMA SeenKeeps ==
  ASSUME TypeOK, LinksAlive, Coherent, NEW p \in Players, SavePlayer(p) \/ Disconnect(p)
  PROVE  Coherent'
<1>0. /\ Shapes /\ Seats /\ Entries /\ Follows /\ Complete /\ Flights /\ Orders
      /\ Len(queue) \in Nat /\ pend \subseteq Items
      /\ st \in [Players -> {"off", "load", "play", "leaving"}]
  BY DEF Coherent, TypeOK
<1>1. /\ st[p] = "play" /\ st'[p] \in {"play", "leaving"} /\ pcache' = pcache \cup {p}
      /\ \A q \in Players : q # p => st'[q] = st[q]
      /\ UNCHANGED <<held, pend, box, cache, sets, out, row, queue, res>>
  BY <1>0 DEF SavePlayer, Disconnect, PutPlayerCache, game, sql
<1>2. Seats'
  <2>1. p \in DOMAIN sets
    BY <1>0, <1>1 DEF Seats
  <2>2. \A q \in DOMAIN out : p \notin Mates(q)
    BY <1>0, <1>1 DEF Seats
  <2>3. \A q \in DOMAIN out : \A r \in Mates(q) : st'[r] = "off"
    BY <1>0, <1>1, <2>2 DEF Seats, Mates
  <2>4. \A q, r \in Players : q # r /\ AcctOf[q] = AcctOf[r] => st'[q] = "off" \/ st'[r] = "off"
    BY <1>0, <1>1 DEF Seats
  <2> QED
    BY <1>0, <1>1, <2>1, <2>3, <2>4 DEF Seats
<1>3. \A i \in Items : LastWritten(i)' = LastWritten(i)
  BY <1>1 DEF LastWritten, Queued
<1>4. Entries' /\ Follows' /\ Complete'
  <2>1. \A i \in DOMAIN cache, q \in Players : Guarded(i, q) => Guarded(i, q)'
    BY <1>1 DEF Guarded
  <2>2. \A i \in pend : st'[held[i].who] \in {"play", "leaving"}
    <3>1. \A i \in pend : st[held[i].who] \in {"play", "leaving"} /\ held[i].who \in Players
      BY <1>0, Truth, RowFacts
    <3> QED
      BY <1>1, <3>1
  <2> QED
    BY <1>1, <1>3, <2>1, <2>2, KnownKept
<1>5. Shapes'
  BY <1>0, <1>1 DEF Shapes
<1>6. HeldKept /\ DoorsKept
  BY <1>1 DEF HeldKept, DoorsKept
<1>7. Flights' /\ Orders'
  BY <1>0, <1>1, <1>6, FlightsQuiet
<1> QED
  BY <1>2, <1>4, <1>5, <1>7 DEF Coherent

\* Use and PickUp: the change is not sent yet.
LEMMA ChangesKeep ==
  ASSUME TypeOK, Coherent, NEW i \in Items, Use(i) \/ (\E p \in Players : PickUp(i, p))
  PROVE  Coherent'
<1>0. /\ Shapes /\ Seats /\ Entries /\ Follows /\ Complete /\ Flights /\ Orders
      /\ Len(queue) \in Nat /\ pend \subseteq Items /\ held \in [Items -> Data]
  BY DEF Coherent, TypeOK
<1>1. /\ pend' = pend \cup {i} /\ \A j \in Items : j # i => held'[j] = held[j]
      /\ UNCHANGED <<st, box, cache, sets, pcache, out, row, queue, res>>
  BY <1>0 DEF Use, PickUp, sql
<1>2. /\ held'[i] \in Bags /\ st[held'[i].who] = "play"
      /\ \/ held[i] \in Bags /\ held[i].who = held'[i].who
         \/ held[i].at = "ground"
  <2>1. CASE Use(i)
    <3>1. held[i] \in Bags /\ st[held[i].who] = "play"
      BY <1>0, <2>1, Truth DEF Use, Carried, InPlay
    <3>2. PICK v \in Vals : held'[i] = [held[i] EXCEPT !.val = v]
      BY <1>0, <2>1 DEF Use
    <3>3. held'[i] = Bag(held[i].who, v) /\ held[i].who \in Players
      BY <3>1, <3>2 DEF Bags, Bag
    <3>4. held'[i] \in Bags /\ held'[i].who = held[i].who
      BY <3>3 DEF Bags, Bag
    <3> QED
      BY <3>1, <3>4
  <2>2. CASE \E p \in Players : PickUp(i, p)
    <3>1. PICK p \in Players : PickUp(i, p)
      BY <2>2
    <3>2. held[i].val \in Vals
      BY <1>0 DEF Data
    <3>3. held'[i] = Bag(p, held[i].val) /\ held[i].at = "ground" /\ st[p] = "play"
      BY <1>0, <3>1 DEF PickUp
    <3>4. held'[i] \in Bags /\ held'[i].who = p
      BY <3>2, <3>3 DEF Bags, Bag
    <3> QED
      BY <3>3, <3>4
  <2> QED
    BY <2>1, <2>2
<1>3. \A j \in Items : LastWritten(j)' = LastWritten(j) /\ Believed(j)' = Believed(j)
  BY <1>1 DEF LastWritten, Queued, Believed
<1>4. Entries' /\ Complete'
  <2>1. \A j \in DOMAIN cache, q \in Players : Guarded(j, q) => Guarded(j, q)'
    BY <1>1 DEF Guarded
  <2> QED
    BY <1>1, <1>3, <2>1, KnownKept
<1>5. Follows'
  <2>1. ASSUME NEW j \in Items, j # i
        PROVE  LET b == Saved(Believed(j)') IN
               IF j \notin pend' THEN b = Saved(held'[j])
               ELSE /\ held'[j] \in Bags /\ st'[held'[j].who] \in {"play", "leaving"}
                    /\ b = Absent \/ (b \in Bags /\ b.who = held'[j].who)
    BY <1>0, <1>1, <1>3, <2>1 DEF Follows
  <2>2. LET b == Saved(Believed(i)) IN b = Absent \/ (b \in Bags /\ b.who = held'[i].who)
    <3>1. CASE held[i] \in Bags /\ held[i].who = held'[i].who
      BY <1>0, <3>1, Truth, RowFacts
    <3>2. CASE held[i].at = "ground"
      <4>1. i \notin pend /\ Saved(held[i]) = Absent
        BY <1>0, <3>2, Truth, RowFacts
      <4> QED
        BY <1>0, <4>1, Truth
    <3> QED
      BY <1>2, <3>1, <3>2
  <2> QED
    BY <1>1, <1>2, <1>3, <2>1, <2>2 DEF Follows
<1>6. Shapes'
  <2>1. \A j \in Items : Saved(held'[j]) \in Rows
    BY <1>0, <1>1, <1>2, RowFacts DEF Shapes
  <2> QED
    BY <1>0, <1>1, <2>1 DEF Shapes
<1>7. HeldKept /\ DoorsKept
  <2>1. held[i].at = "bag" => st[held[i].who] = "play"
    BY <1>2
  <2>2. held[i].at # "box" /\ held'[i].at = "bag"
    BY <1>2, RowFacts
  <2>3. Settled(held[i]) /\ Settled(held'[i])
    BY <1>2, <2>1, <2>2 DEF Settled
  <2> QED
    BY <1>1, <2>3 DEF HeldKept, DoorsKept
<1>8. Flights' /\ Orders'
  BY <1>0, <1>1, <1>7, FlightsQuiet
<1>9. Seats'
  BY <1>0, <1>1 DEF Seats
<1> QED
  BY <1>4, <1>5, <1>6, <1>8, <1>9 DEF Coherent

\* Cutting the ways back of some players.
LEMMA Redirected ==
  ASSUME TypeOK, NEW P, NEW to \in {"peer", "none"}, NEW s, s \in {queue, res}
  PROVE  /\ Redirect(s, P, to) \in Seq(UNION {Puts, Reads, Answers}) /\ Len(Redirect(s, P, to)) = Len(s)
         /\ \A k \in 1 .. Len(s) :
              LET y == Redirect(s, P, to)[k] IN
              /\ SameRead(y, s[k])
              /\ y = s[k] \/ (y.op # "put" /\ y.to = to /\ For(s[k], P))
              /\ s[k].op # "put" /\ For(s[k], P) => y.to # "desc"
              /\ s = res => y.items = s[k].items
<1> DEFINE R == UNION {Puts, Reads, Answers}
           ReadLike == Reads \cup Answers
<1>1. s \in Seq(R) /\ Len(s) \in Nat
  BY DEF TypeOK
<1>2. ASSUME NEW x \in R, x.op # "put"
      PROVE  LET y == [x EXCEPT !.to = to] IN
             y \in R /\ y.op = x.op /\ y.to = to /\ y.who = x.who
             /\ (x \in Answers => y.items = x.items)
  <2>1. CASE x \in Reads
    BY <2>1 DEF Reads, Answers, Ways
  <2>2. CASE x \in Answers
    BY <2>2 DEF Answers, Ways
  <2> QED
    BY <1>2, <2>1, <2>2 DEF Puts
<1>3. ASSUME NEW k \in 1 .. Len(s)
      PROVE  LET y == Redirect(s, P, to)[k] IN
             /\ y \in R /\ SameRead(y, s[k])
             /\ y = s[k] \/ (y.op # "put" /\ y.to = to /\ For(s[k], P))
             /\ s[k].op # "put" /\ For(s[k], P) => y.to # "desc"
             /\ s = res => y.items = s[k].items
  <2> DEFINE x == s[k]
             y == Redirect(s, P, to)[k]
  <2>1. x \in R /\ (s = res => x \in Answers)
    BY <1>1 DEF TypeOK
  <2>2. y = IF x.op # "put" /\ x.to # "none" /\ For(x, P) THEN [x EXCEPT !.to = to] ELSE x
    BY DEF Redirect
  <2> HIDE DEF x, y, R
  <2>3. CASE x.op # "put" /\ x.to # "none" /\ For(x, P)
    <3>1. y = [x EXCEPT !.to = to]
      BY <2>2, <2>3
    <3>2. y \in R /\ y.op = x.op /\ y.to = to /\ y.who = x.who
          /\ (x \in Answers => y.items = x.items)
      BY <1>2, <2>1, <2>3, <3>1
    <3> QED
      BY <2>1, <2>3, <3>2 DEF SameRead, x, y
  <2>4. CASE ~(x.op # "put" /\ x.to # "none" /\ For(x, P))
    <3>1. y = x
      BY <2>2, <2>4
    <3> QED
      BY <2>1, <2>4, <3>1 DEF SameRead, x, y
  <2> QED
    BY <2>3, <2>4
<1>4. Len(Redirect(s, P, to)) = Len(s) /\ Redirect(s, P, to) \in Seq(R)
  <2>1. Redirect(s, P, to) \in [1 .. Len(s) -> R]
    BY <1>3 DEF Redirect
  <2> QED
    BY <1>1, <2>1
<1> QED
  BY <1>3, <1>4

\* So the statements and the answers read the same, and stay as many.
LEMMA BothRedirected ==
  ASSUME TypeOK, NEW P, NEW to \in {"peer", "none"}, NEW q, NEW t,
         q = Redirect(queue, P, to), t = Redirect(res, P, to)
  PROVE  /\ Len(q) = Len(queue) /\ \A k \in 1 .. Len(queue) : SameRead(q[k], queue[k])
         /\ Len(t) = Len(res)
         /\ \A k \in 1 .. Len(res) : SameRead(t[k], res[k]) /\ t[k].items = res[k].items
<1>1. Len(q) = Len(queue) /\ \A k \in 1 .. Len(queue) : SameRead(q[k], queue[k])
  <2>1. PICK s : s = queue
    OBVIOUS
  <2> QED
    BY <2>1, Redirected, SMTT(40)
<1>2. /\ Len(t) = Len(res)
      /\ \A k \in 1 .. Len(res) : SameRead(t[k], res[k]) /\ t[k].items = res[k].items
  <2>1. PICK s : s = res
    OBVIOUS
  <2> QED
    BY <2>1, Redirected
<1> QED
  BY <1>1, <1>2

LEMMA LogoutKeeps ==
  ASSUME TypeOK, Coherent, NEW p \in Players, Logout(p)
  PROVE  Coherent'
<1>0. /\ Shapes /\ Seats /\ Entries /\ Follows /\ Complete /\ Flights /\ Orders
      /\ Len(queue) \in Nat /\ pend \subseteq Items /\ AcctOf[p] \in Accounts
      /\ st \in [Players -> {"off", "load", "play", "leaving"}]
      /\ box \in [Accounts -> {"shut", "wait", "open"}]
      /\ cache \in [DOMAIN cache -> Entry] /\ DOMAIN out \subseteq Players
  BY AcctAssumption DEF Coherent, TypeOK
<1>1. /\ st[p] = "load" \/ (st[p] = "leaving" /\ AllSaved(p))
      /\ st'[p] = "off" /\ \A q \in Players : q # p => st'[q] = st[q]
      /\ \A a \in Accounts : a # AcctOf[p] => box'[a] = box[a]
      /\ queue' = Redirect(queue, {p}, "peer") /\ res' = Redirect(res, {p}, "peer")
      /\ UNCHANGED <<held, pend, cache, sets, pcache, row>>
  BY <1>0 DEF Logout
<1>2. /\ DOMAIN out' = DOMAIN out \cup {q \in Players : AcctOf[q] = AcctOf[p]}
      /\ \A q \in DOMAIN out' : out'[q] = IF AcctOf[q] = AcctOf[p] /\ q \in Players THEN 0 ELSE out[q]
  <2> DEFINE theirs == {q \in Players : AcctOf[q] = AcctOf[p]}
  <2>1. out' = [q \in DOMAIN out \cup theirs |-> IF q \in theirs THEN 0 ELSE out[q]]
    BY DEF Logout, NoteLogout
  <2>2. DOMAIN out' = DOMAIN out \cup theirs
    BY <2>1
  <2>3. \A q \in DOMAIN out' : out'[q] = IF q \in theirs THEN 0 ELSE out[q]
    BY <2>1
  <2> QED
    BY <2>2, <2>3
<1>3. /\ Len(queue') = Len(queue) /\ \A k \in 1 .. Len(queue) : SameRead(queue'[k], queue[k])
      /\ Len(res') = Len(res)
      /\ \A k \in 1 .. Len(res) : SameRead(res'[k], res[k]) /\ res'[k].items = res[k].items
  BY <1>1, BothRedirected
<1>4. Seats'
  <2>1. \A q \in Players : q # p /\ AcctOf[q] = AcctOf[p] => st[q] = "off"
    BY <1>0, <1>1 DEF Seats
  <2>2. ASSUME NEW q \in DOMAIN out', NEW r \in Mates(q) PROVE st'[r] = "off"
    <3>1. r \in Players /\ AcctOf[r] = AcctOf[q]
      BY DEF Mates
    <3>2. CASE AcctOf[q] = AcctOf[p]
      BY <1>1, <2>1, <3>1, <3>2
    <3>3. CASE AcctOf[q] # AcctOf[p]
      <4>1. q \in DOMAIN out
        BY <1>2, <3>3
      <4>2. st[r] = "off"
        BY <1>0, <4>1 DEF Seats
      <4> QED
        BY <1>1, <3>1, <4>2
    <3> QED
      BY <3>2, <3>3
  <2>3. \A q, r \in Players : q # r /\ AcctOf[q] = AcctOf[r] => st'[q] = "off" \/ st'[r] = "off"
    BY <1>0, <1>1 DEF Seats
  <2> QED
    BY <1>0, <1>1, <2>2, <2>3 DEF Seats
<1>5. \A i \in Items : LastWritten(i)' = LastWritten(i)
  BY <1>1, <1>3, LastSame
<1>6. Entries' /\ Follows' /\ Complete'
  <2>1. ASSUME NEW i \in DOMAIN cache, NEW q \in Players, Guarded(i, q)
        PROVE  Guarded(i, q)'
    <3>1. cache[i].age \in Nat
      BY <1>0, SecsAssumption DEF Entry
    <3>2. CASE st[q] \in {"play", "leaving"} /\ q # p
      BY <1>1, <3>2 DEF Guarded
    <3>3. CASE ~(st[q] \in {"play", "leaving"} /\ q # p)
      <4>1. q \in pcache
        BY <1>0, <1>1, <2>1, <3>3 DEF Guarded, Seats
      <4>2. q \in DOMAIN out' => out'[q] <= cache[i].age
        <5>1. CASE AcctOf[q] = AcctOf[p]
          BY <1>2, <3>1, <5>1
        <5>2. CASE AcctOf[q] # AcctOf[p]
          <6>1. q # p
            BY <5>2
          <6>2. st[q] \notin {"play", "leaving"}
            BY <3>3, <6>1
          <6> QED
            BY <1>2, <2>1, <5>2, <6>2 DEF Guarded
        <5> QED
          BY <5>1, <5>2
      <4> QED
        BY <1>1, <4>1, <4>2 DEF Guarded
    <3> QED
      BY <3>2, <3>3
  <2>2. \A i \in pend : st[held[i].who] \in {"play", "leaving"} => st'[held[i].who] \in {"play", "leaving"}
    <3>1. \A i \in pend : st[held[i].who] \in {"play", "leaving"} /\ held[i].who \in Players
      BY <1>0, Truth, RowFacts
    <3>2. \A i \in pend : held[i].who # p
      BY <1>1, <3>1 DEF AllSaved
    <3> QED
      BY <1>1, <3>1, <3>2
  <2> QED
    BY <1>1, <1>5, <2>1, <2>2, KnownKept
<1>7. Shapes'
  <2>1. \A k \in 1 .. Len(queue') : queue'[k].op = "put" => queue'[k].data \in Rows
    BY <1>0, <1>3 DEF Shapes, SameRead
  <2> QED
    BY <1>0, <1>1, <2>1 DEF Shapes
<1>8. HeldKept
  BY <1>1 DEF HeldKept
<1>9. ASSUME NEW x, NEW y, Waits(x), SameRead(y, x),
             y = x \/ (y.op # "put" /\ y.to = "peer" /\ For(x, {p})),
             x.op # "put" /\ For(x, {p}) => y.to # "desc"
      PROVE  /\ \A q \in Players : FillsBag(y, q) =>
                  /\ st'[q] \in {"off", "load"} /\ q \notin pcache'
                  /\ y.to = "desc" => st'[q] = "load"
             /\ \A a \in Accounts : OpensBox(y, a) => box'[a] = "wait"
  <2>1. ASSUME NEW q \in Players, FillsBag(y, q)
        PROVE  /\ st'[q] \in {"off", "load"} /\ q \notin pcache'
               /\ y.to = "desc" => st'[q] = "load"
    <3>1. FillsBag(x, q) /\ (y.to = "desc" => x.to = "desc")
      BY <1>9, <2>1, CutFills
    <3>2. st[q] \in {"off", "load"} /\ q \notin pcache /\ (x.to = "desc" => st[q] = "load")
      BY <1>9, <3>1 DEF Waits
    <3>3. q = p => y.to # "desc"
      BY <1>9, <3>1 DEF FillsBag, For
    <3> QED
      BY <1>1, <3>1, <3>2, <3>3
  <2>2. ASSUME NEW a \in Accounts, OpensBox(y, a) PROVE box'[a] = "wait"
    <3>1. OpensBox(x, a) /\ y.to = "desc"
      BY <1>9, <2>2, CutFills DEF OpensBox
    <3>2. a # AcctOf[p]
      BY <1>9, <3>1 DEF OpensBox, For
    <3> QED
      BY <1>1, <1>9, <3>1, <3>2 DEF Waits
  <2> QED
    BY <2>1, <2>2
<1>10. ASSUME NEW k \in 1 .. Len(queue) PROVE Waits(queue[k])'
  <2>1. Waits(queue[k]) /\ SameRead(queue'[k], queue[k])
    BY <1>0, <1>3 DEF Flights, StatementRight
  <2>2. /\ queue'[k] = queue[k] \/ (queue'[k].op # "put" /\ queue'[k].to = "peer" /\ For(queue[k], {p}))
        /\ queue[k].op # "put" /\ For(queue[k], {p}) => queue'[k].to # "desc"
    BY <1>1, Redirected
  <2> QED
    BY <1>9, <2>1, <2>2 DEF Waits
<1>11. ASSUME NEW n \in 1 .. Len(res) PROVE Waits(res[n])'
  <2>1. Waits(res[n]) /\ SameRead(res'[n], res[n])
    BY <1>0, <1>3 DEF Flights, AnswerRight
  <2>2. /\ res'[n] = res[n] \/ (res'[n].op # "put" /\ res'[n].to = "peer" /\ For(res[n], {p}))
        /\ res[n].op # "put" /\ For(res[n], {p}) => res'[n].to # "desc"
    BY <1>1, Redirected
  <2> QED
    BY <1>9, <2>1, <2>2 DEF Waits
<1>12. Flights' /\ Orders'
  <2>1. Len(queue) + 1 .. Len(queue') = {}
    BY <1>0, <1>3
  <2>2. Len(queue') \in Nat /\ Len(queue) <= Len(queue')
    BY <1>0, <1>3
  <2>3. Flights'
    BY <1>0, <1>1, <1>3, <1>8, <1>10, <1>11, <2>1, <2>2, FlightsKept
  <2>4. Orders'
    BY <1>0, <1>3, <2>1, <2>2, OrdersKept
  <2> QED
    BY <2>3, <2>4
<1> QED
  BY <1>4, <1>6, <1>7, <1>12 DEF Coherent

-----------------------------------------------------------------------------
(* The timers, and a restart.                                                 *)

\* Entries are written at the end of the queue.
LEMMA WritesAppended ==
  ASSUME TypeOK, Shapes, NEW S, S \subseteq DirtyIn(DOMAIN cache),
         NEW q \in Seq(Puts \cup Reads), Len(q) = Len(queue),
         \A k \in 1 .. Len(queue) : SameRead(q[k], queue[k]),
         queue' = q \o Writes(S), row' = row
  PROVE  /\ Len(queue') \in Nat /\ Len(queue) <= Len(queue')
         /\ \A k \in 1 .. Len(queue) : queue'[k] = q[k]
         /\ \A k \in Len(queue) + 1 .. Len(queue') :
              queue'[k].op = "put" /\ queue'[k].data \in Rows
         /\ \A i \in Items : LastWritten(i)' = IF i \in S THEN cache[i].data ELSE LastWritten(i)
<1> DEFINE n == Len(queue)
           w == Writes(S)
           z == queue'
           T == Puts \cup Reads
<1>1. n \in Nat /\ S \subseteq DOMAIN cache /\ DOMAIN cache \subseteq Items
      /\ \A i \in S : cache[i].dirty
  BY DEF TypeOK, DirtyIn
<1>2. w \in Seq(T) /\ q \in Seq(T) /\ Len(q) = n /\ z = q \o w
  BY <1>1, WritesType
<1>3. /\ Len(w) \in Nat
      /\ \A k \in 1 .. Len(w) : \E i \in S : w[k] = Put(i, cache[i].data)
  BY <1>1, WritesAre
<1>4. \A i \in Items : LastWritten(i)' = IF i \in S THEN cache[i].data ELSE LastWritten(i)
  <2>1. \A k \in 1 .. Len(q) : queue[k].op = "put" \/ q[k].op = "put" => q[k] = queue[k]
    BY DEF SameRead
  <2> HIDE DEF n, w, z, T
  <2> QED
    BY <1>1, <2>1, LastWrites
<1>t. w \in Seq(T) /\ q \in Seq(T)
  BY <1>2
<1> HIDE DEF n, w, z, T
<1>5. /\ Len(q \o w) = Len(q) + Len(w)
      /\ \A k \in 1 .. Len(q) : (q \o w)[k] = q[k]
      /\ \A k \in 1 .. Len(w) : (q \o w)[Len(q) + k] = w[k]
  BY ONLY <1>t, Appended
<1>6. ASSUME NEW k \in n + 1 .. Len(z) PROVE z[k].op = "put" /\ z[k].data \in Rows
  <2>1. k - n \in 1 .. Len(w) /\ n + (k - n) = k
    BY <1>1, <1>2, <1>3, <1>5
  <2>2. z[k] = w[k - n]
    BY <1>2, <1>5, <2>1
  <2>3. PICK i \in S : w[k - n] = Put(i, cache[i].data)
    BY <1>3, <2>1
  <2>4. cache[i].data \in Rows
    BY <1>1, RowFacts DEF Shapes
  <2> QED
    BY <2>2, <2>3, <2>4 DEF Put
<1>7. Len(z) \in Nat /\ n <= Len(z) /\ \A k \in 1 .. n : z[k] = q[k]
  BY <1>1, <1>2, <1>3, <1>5
<1> QED
  BY <1>4, <1>6, <1>7 DEF n, z

LEMMA RestartKeeps ==
  ASSUME TypeOK, Coherent, Restart
  PROVE  Coherent'
<1> DEFINE q == Redirect(queue, Players, "none")
           S == DirtyIn(DOMAIN cache)
<1>0. /\ Shapes /\ Seats /\ Entries /\ Follows /\ Complete /\ Flights /\ Orders
      /\ Len(queue) \in Nat /\ pend \subseteq Items
      /\ st \in [Players -> {"off", "load", "play", "leaving"}]
  BY DEF Coherent, TypeOK
<1>1. /\ \A p \in Players : st[p] = "off"
      /\ UNCHANGED <<held, pend, st, box, row>>
      /\ queue' = q \o Writes(S) /\ res' = Redirect(res, Players, "none")
      /\ DOMAIN cache' = {} /\ DOMAIN sets' = {} /\ pcache' = {} /\ DOMAIN out' = {}
  BY DEF Restart, game
<1>2. /\ q \in Seq(Puts \cup Reads) /\ Len(q) = Len(queue)
      /\ \A k \in 1 .. Len(queue) : SameRead(q[k], queue[k])
      /\ Len(res') = Len(res)
      /\ \A n \in 1 .. Len(res) : SameRead(res'[n], res[n]) /\ res'[n].items = res[n].items
  <2>1. q \in Seq(Puts \cup Reads)
    BY RedirectType DEF TypeOK, Ways
  <2>2. res' = Redirect(res, Players, "none")
    BY <1>1
  <2> QED
    BY <2>1, <2>2, BothRedirected
<1>s. S \subseteq DirtyIn(DOMAIN cache)
  OBVIOUS
<1> HIDE DEF q, S
<1>3. /\ Len(queue') \in Nat /\ Len(queue) <= Len(queue')
      /\ \A k \in 1 .. Len(queue) : queue'[k] = q[k]
      /\ \A k \in Len(queue) + 1 .. Len(queue') :
              queue'[k].op = "put" /\ queue'[k].data \in Rows
      /\ \A i \in Items : LastWritten(i)' = IF i \in S THEN cache[i].data ELSE LastWritten(i)
  <2>1. Shapes /\ row' = row /\ queue' = q \o Writes(S) /\ q \in Seq(Puts \cup Reads)
        /\ Len(q) = Len(queue)
    BY <1>0, <1>1, <1>2
  <2>2. \A k \in 1 .. Len(queue) : SameRead(q[k], queue[k])
    BY <1>2
  <2> QED
    BY <1>s, <2>1, <2>2, WritesAppended
<1>4. Shapes'
  <2>1. ASSUME NEW k \in 1 .. Len(queue'), queue'[k].op = "put" PROVE queue'[k].data \in Rows
    <3>1. CASE k <= Len(queue)
      <4>1. k \in 1 .. Len(queue)
        BY <1>0, <3>1
      <4> QED
        BY <1>0, <1>2, <1>3, <2>1, <4>1 DEF Shapes, SameRead
    <3>2. CASE ~(k <= Len(queue))
      <4>1. k \in Len(queue) + 1 .. Len(queue')
        BY <1>0, <1>3, <3>2
      <4> QED
        BY <1>3, <4>1
    <3> QED
      BY <3>1, <3>2
  <2> QED
    BY <1>0, <1>1, <2>1 DEF Shapes
<1>5. pend = {}
  <2>1. \A i \in pend : st[held[i].who] \in {"play", "leaving"} /\ held[i].who \in Players
    BY <1>0, Truth, RowFacts
  <2> QED
    BY <1>1, <2>1
<1>6. Follows'
  <2>1. ASSUME NEW i \in Items PROVE Saved(Believed(i)') = Saved(Believed(i))
    <3>1. Believed(i)' = LastWritten(i)'
      BY <1>1 DEF Believed
    <3>2. CASE i \in S
      BY <1>3, <3>1, <3>2 DEF S, DirtyIn, Believed
    <3>3. CASE i \notin S
      <4>1. LastWritten(i) = Saved(Believed(i))
        BY <1>0, <3>3, Written DEF S, DirtyIn
      <4> QED
        BY <1>3, <3>1, <3>3, <4>1, RowFacts
    <3> QED
      BY <3>2, <3>3
  <2>2. \A i \in Items : Saved(Believed(i)') = Saved(held[i])
    BY <1>0, <1>5, <2>1, Truth
  <2> QED
    BY <1>1, <1>5, <2>2 DEF Follows
<1>7. Seats' /\ Entries' /\ Complete'
  <2>1. Seats'
    BY <1>0, <1>1 DEF Seats
  <2>2. Entries' /\ Complete'
    BY <1>1 DEF Entries, Complete
  <2> QED
    BY <2>1, <2>2
<1>8. HeldKept /\ DoorsKept
  BY <1>1 DEF HeldKept, DoorsKept
<1>9. ASSUME NEW x, NEW y, Waits(x), SameRead(y, x)
      PROVE  /\ \A p \in Players : FillsBag(y, p) =>
                  /\ st'[p] \in {"off", "load"} /\ p \notin pcache'
                  /\ y.to = "desc" => st'[p] = "load"
             /\ \A a \in Accounts : OpensBox(y, a) => box'[a] = "wait"
  <2>1. /\ \A p \in Players : FillsBag(y, p) => FillsBag(x, p) /\ (y.to = "desc" => x.to = "desc")
        /\ \A a \in Accounts : OpensBox(y, a) => OpensBox(x, a)
    BY <1>9, CutFills
  <2> QED
    BY <1>8, <1>9, <2>1, DoorWaits
<1>10. ASSUME NEW k \in 1 .. Len(queue) PROVE Waits(queue[k])' /\ SameRead(queue'[k], queue[k])
  <2>1. Waits(queue[k]) /\ SameRead(queue'[k], queue[k])
    BY <1>0, <1>2, <1>3 DEF Flights, StatementRight
  <2> QED
    BY <1>9, <2>1 DEF Waits
<1>11. ASSUME NEW n \in 1 .. Len(res) PROVE Waits(res[n])'
  <2>1. Waits(res[n]) /\ SameRead(res'[n], res[n])
    BY <1>0, <1>2 DEF Flights, AnswerRight
  <2> QED
    BY <1>9, <2>1 DEF Waits
<1>12. Flights'
  <2>1. ASSUME NEW k \in Len(queue) + 1 .. Len(queue') PROVE StatementRight(k)'
    <3>1. queue'[k].op = "put"
      BY <1>3
    <3> QED
      BY <3>1, PutsRight DEF StatementRight, Waits
  <2> QED
    BY <1>1, <1>2, <1>3, <1>8, <1>0, <1>10, <1>11, <2>1, FlightsKept
<1>13. Orders'
  <2>1. \A k \in Len(queue) + 1 .. Len(queue') : \A y : ~Clash(y, queue'[k])
    BY <1>3, PutsRight
  <2> QED
    BY <1>0, <1>2, <1>3, <1>10, <2>1, OrdersKept
<1> QED
  BY <1>4, <1>6, <1>7, <1>12, <1>13 DEF Coherent

\* When no second has more to write than it may, everything that is due is.
LEMMA AllDue ==
  ASSUME TypeOK, NotOverloaded, NEW done, NEW F \in UpdateItemCache(done)
  PROVE  F = {i \in DOMAIN cache \ done : Expired(i)}
<1> DEFINE due == {i \in DOMAIN cache \ done : Expired(i)}
           all == {i \in DOMAIN cache : Expired(i)}
<1>1. IsFiniteSet(all) /\ due \subseteq all
  BY ItemsAssumption, FS_Subset DEF TypeOK
<1>2. IsFiniteSet(due) /\ Cardinality(due) <= Cardinality(all)
      /\ Cardinality(due) \in Nat /\ Cardinality(all) \in Nat
  BY <1>1, FS_Subset, FS_CardinalityType
<1>3. Cardinality(due) <= FlushLimit
  BY <1>2, LimitAssumption DEF NotOverloaded
<1>4. F \subseteq due /\ Cardinality(F) = Min({Cardinality(due), FlushLimit})
  BY DEF UpdateItemCache
<1> HIDE DEF due, all
<1>5. Min({Cardinality(due), FlushLimit}) = Cardinality(due)
  <2> DEFINE c == Cardinality(due)
             m == Min({c, FlushLimit})
  <2>1. c \in Nat /\ FlushLimit \in Nat /\ c <= FlushLimit
    BY <1>2, <1>3, LimitAssumption
  <2>2. m \in {c, FlushLimit} /\ \A y \in {c, FlushLimit} : m <= y
    <3>1. \E x \in {c, FlushLimit} : \A y \in {c, FlushLimit} : x <= y
      BY <2>1
    <3> QED
      BY <3>1 DEF Min
  <2> HIDE DEF c, m
  <2>3. m = c
    BY <2>1, <2>2
  <2> QED
    BY <2>3 DEF c, m
<1>6. F = due
  BY <1>2, <1>4, <1>5, FS_Subset
<1> QED
  BY <1>6 DEF due

LEMMA SecondKeeps ==
  ASSUME TypeOK, LinksAlive, Coherent, NotOverloaded, TimersOrdered, Second
  PROVE  Coherent'
<1> DEFINE over == {p \in DOMAIN out : LogoutOver(p)}
<1>0. /\ Shapes /\ Seats /\ Entries /\ Follows /\ Complete /\ Flights /\ Orders
      /\ Len(queue) \in Nat /\ queue \in Seq(Puts \cup Reads) /\ pend \subseteq Items
      /\ cache \in [DOMAIN cache -> Entry] /\ DOMAIN cache \subseteq Items
      /\ out \in [DOMAIN out -> 0 .. LogoutSecs] /\ LogoutSecs \in Nat /\ ItemSecs \in Nat
      /\ pcache \subseteq Players
  BY SecsAssumption DEF Coherent, TypeOK
<1>1. PICK T \in SUBSET pcache : \E byTimer \in UpdateItemCache(DirtyIn(Dropped(T))) :
        LET F == DirtyIn(Dropped(T)) \cup byTimer \cup DirtyIn(Dropped(over)) IN
        /\ queue' = queue \o Writes(F)
        /\ cache' = [i \in DOMAIN cache \ Dropped(over) |->
                       IF i \in F THEN Flushed(cache[i]) ELSE Older(cache[i])]
        /\ sets' = Restrict(sets, DOMAIN sets \ over)
        /\ pcache' = pcache \ over
        /\ out' = [p \in DOMAIN out \ over |-> out[p] + 1]
  BY DEF Second
<1>2. PICK byTimer \in UpdateItemCache(DirtyIn(Dropped(T))) :
        LET F == DirtyIn(Dropped(T)) \cup byTimer \cup DirtyIn(Dropped(over)) IN
        /\ queue' = queue \o Writes(F)
        /\ cache' = [i \in DOMAIN cache \ Dropped(over) |->
                       IF i \in F THEN Flushed(cache[i]) ELSE Older(cache[i])]
        /\ sets' = Restrict(sets, DOMAIN sets \ over)
        /\ pcache' = pcache \ over
        /\ out' = [p \in DOMAIN out \ over |-> out[p] + 1]
  BY <1>1
<1> DEFINE F == DirtyIn(Dropped(T)) \cup byTimer \cup DirtyIn(Dropped(over))
           D == Dropped(over)
<1>3. byTimer = {i \in DOMAIN cache \ DirtyIn(Dropped(T)) : Expired(i)}
  BY AllDue
<1>4. /\ F \subseteq DirtyIn(DOMAIN cache)
      /\ \A i \in DOMAIN cache : Expired(i) => i \in F
      /\ \A i \in D : cache[i].dirty => i \in F
      /\ D \subseteq DOMAIN cache
  BY <1>3, DroppedCached DEF DirtyIn, Expired
<1>5. /\ queue' = queue \o Writes(F)
      /\ cache' = [i \in DOMAIN cache \ D |-> IF i \in F THEN Flushed(cache[i]) ELSE Older(cache[i])]
      /\ DOMAIN sets' = DOMAIN sets \ over /\ \A p \in DOMAIN sets \ over : sets'[p] = sets[p]
      /\ pcache' = pcache \ over
      /\ out' = [p \in DOMAIN out \ over |-> out[p] + 1]
      /\ UNCHANGED <<held, pend, st, box, row, res>>
  BY <1>2 DEF Second, Restrict, game
<1>6. \A p \in DOMAIN out : p \in over <=> out[p] + 1 > LogoutSecs
  BY DEF LogoutOver
<1>7. over \subseteq DOMAIN out
  OBVIOUS
<1> HIDE DEF F, D, over
<1>8. \A x : SameRead(x, x)
  BY DEF SameRead
<1>9. /\ Len(queue') \in Nat /\ Len(queue) <= Len(queue')
      /\ \A k \in 1 .. Len(queue) : queue'[k] = queue[k]
      /\ \A k \in Len(queue) + 1 .. Len(queue') : queue'[k].op = "put" /\ queue'[k].data \in Rows
      /\ \A i \in Items : LastWritten(i)' = IF i \in F THEN cache[i].data ELSE LastWritten(i)
  BY <1>0, <1>4, <1>5, <1>8, WritesAppended
<1>10. ASSUME NEW i \in DOMAIN cache'
       PROVE  /\ i \in DOMAIN cache /\ i \notin D /\ cache'[i].data = cache[i].data
              /\ i \in F => ~cache'[i].dirty
              /\ i \notin F => /\ cache'[i].dirty = cache[i].dirty
                               /\ cache[i].dirty => /\ cache'[i].age = cache[i].age + 1
                                                    /\ cache[i].age + 1 <= ItemSecs
  <2>1. i \in DOMAIN cache /\ i \notin D /\ cache[i] \in Entry
    BY <1>0, <1>5
  <2>2. cache'[i] = IF i \in F THEN Flushed(cache[i]) ELSE Older(cache[i])
    BY <1>5, <2>1
  <2>3. CASE i \in F
    <3>1. Flushed(cache[i]).data = cache[i].data /\ Flushed(cache[i]).dirty = FALSE
      BY DEF Flushed, Fresh
    <3> QED
      BY <2>1, <2>2, <2>3, <3>1
  <2>4. CASE i \notin F
    <3>1. ~Expired(i)
      BY <1>4, <2>1, <2>4
    <3>2. cache[i].age \in 0 .. ItemSecs + 1
      BY <2>1 DEF Entry
    <3>3. CASE cache[i].age > ItemSecs
      <4>1. Older(cache[i]) = cache[i]
        BY <3>3 DEF Older
      <4> QED
        BY <2>1, <2>2, <2>4, <3>1, <3>3, <4>1 DEF Expired
    <3>4. CASE ~(cache[i].age > ItemSecs)
      <4>1. /\ Older(cache[i]).data = cache[i].data /\ Older(cache[i]).dirty = cache[i].dirty
            /\ Older(cache[i]).age = cache[i].age + 1
        BY <2>1, <3>4 DEF Older, Entry
      <4>2. cache[i].dirty => cache[i].age + 1 <= ItemSecs
        BY <1>0, <3>1, <3>2, <4>1 DEF Expired
      <4> QED
        BY <2>1, <2>2, <2>4, <4>1, <4>2
    <3> QED
      BY <3>3, <3>4
  <2> QED
    BY <2>3, <2>4
<1>11. Shapes'
  <2>1. ASSUME NEW k \in 1 .. Len(queue'), queue'[k].op = "put" PROVE queue'[k].data \in Rows
    <3>1. CASE k <= Len(queue)
      <4>1. k \in 1 .. Len(queue)
        BY <1>0, <3>1
      <4> QED
        BY <1>0, <1>9, <2>1, <4>1 DEF Shapes
    <3>2. CASE ~(k <= Len(queue))
      <4>1. k \in Len(queue) + 1 .. Len(queue')
        BY <1>0, <1>9, <3>2
      <4> QED
        BY <1>9, <4>1
    <3> QED
      BY <3>1, <3>2
  <2>2. ASSUME NEW i \in DOMAIN cache'
        PROVE  cache'[i].data \in Bags \/ (cache'[i].data.at = "gone" /\ ~cache'[i].dirty)
    BY <1>0, <1>10 DEF Shapes
  <2> QED
    BY <1>0, <1>5, <2>1, <2>2 DEF Shapes
<1>12. ASSUME NEW p \in Players, st[p] \in {"play", "leaving"} PROVE p \notin over
  <2>1. p \in Mates(p)
    BY DEF Mates
  <2>2. p \in DOMAIN out => st[p] = "off"
    BY <1>0, <2>1 DEF Seats
  <2> QED
    BY <1>7, <1>12, <2>2
<1>13. Seats'
  <2>1. \A p \in Players : p \in pcache' \/ st[p] \in {"play", "leaving"} => p \in DOMAIN sets'
    BY <1>0, <1>5, <1>12 DEF Seats
  <2>2. \A p \in Players : st[p] = "leaving" => p \in pcache'
    BY <1>0, <1>5, <1>12 DEF Seats
  <2>3. \A p \in DOMAIN out' : p \in DOMAIN out
    BY <1>5
  <2> QED
    BY <1>0, <1>5, <2>1, <2>2, <2>3 DEF Seats
<1>14. Entries'
  <2>1. ASSUME NEW i \in DOMAIN cache', ~cache'[i].dirty
        PROVE  Saved(cache'[i].data) = LastWritten(i)'
    <3>1. i \in DOMAIN cache /\ i \in Items /\ cache'[i].data = cache[i].data
      BY <1>0, <1>10
    <3>2. CASE i \in F
      <4>1. cache[i].dirty
        BY <1>4, <3>2 DEF DirtyIn
      <4>2. Saved(cache[i].data) = cache[i].data
        BY <1>0, <3>1, <4>1, Written, RowFacts
      <4> QED
        BY <1>9, <3>1, <3>2, <4>2
    <3>3. CASE i \notin F
      <4>1. ~cache[i].dirty
        BY <1>10, <2>1, <3>3
      <4> QED
        BY <1>0, <1>9, <3>1, <3>3, <4>1 DEF Entries
    <3> QED
      BY <3>2, <3>3
  <2>2. ASSUME NEW i \in DOMAIN cache', cache'[i].dirty
        PROVE  /\ LastWritten(i)'.at # "box"
               /\ \A p \in Players : About(i, p)' => Guarded(i, p)'
    <3>1. /\ i \in DOMAIN cache /\ i \in Items /\ i \notin F /\ cache'[i].data = cache[i].data
          /\ cache[i].dirty /\ cache'[i].age = cache[i].age + 1 /\ cache[i].age + 1 <= ItemSecs
          /\ cache[i].age \in Nat
      BY <1>0, <1>10, <2>2 DEF Entry
    <3>2. LastWritten(i)' = LastWritten(i) /\ LastWritten(i).at # "box"
      BY <1>0, <1>9, <3>1 DEF Entries
    <3>3. ASSUME NEW p \in Players, About(i, p)' PROVE Guarded(i, p)'
      <4>1. About(i, p)
        BY <3>1, <3>2, <3>3 DEF About
      <4>2. Guarded(i, p)
        BY <1>0, <3>1, <4>1 DEF Entries
      <4>3. CASE st[p] \in {"play", "leaving"}
        BY <1>5, <4>3 DEF Guarded
      <4>4. CASE p \in pcache /\ (p \in DOMAIN out => out[p] <= cache[i].age)
        <5>1. p \in DOMAIN out => out[p] \in Nat
          BY <1>0
        <5>2. p \notin over
          BY <1>0, <1>6, <1>7, <3>1, <4>4, <5>1 DEF TimersOrdered
        <5>3. p \in DOMAIN out' => out'[p] = out[p] + 1 /\ p \in DOMAIN out
          BY <1>5
        <5> QED
          BY <1>5, <3>1, <4>4, <5>1, <5>2, <5>3 DEF Guarded
      <4> QED
        BY <4>2, <4>3, <4>4 DEF Guarded
    <3> QED
      BY <3>2, <3>3
  <2> QED
    BY <2>1, <2>2 DEF Entries
<1>15. ASSUME NEW i \in Items PROVE Saved(Believed(i)') = Saved(Believed(i))
  <2>1. CASE i \in DOMAIN cache'
    BY <1>10, <2>1 DEF Believed
  <2>2. CASE i \notin DOMAIN cache'
    <3>1. Believed(i)' = LastWritten(i)'
      BY <2>2 DEF Believed
    <3>2. CASE i \in F
      <4>1. Believed(i) = cache[i].data
        BY <1>4, <3>2 DEF Believed, DirtyIn
      <4> QED
        BY <1>9, <3>1, <3>2, <4>1
    <3>3. CASE i \notin F
      <4>1. ~(i \in DOMAIN cache /\ cache[i].dirty)
        <5>1. i \in DOMAIN cache => i \in D
          BY <1>5, <2>2
        <5> QED
          BY <1>4, <3>3, <5>1
      <4>2. LastWritten(i) = Saved(Believed(i))
        BY <1>0, <4>1, Written
      <4> QED
        BY <1>9, <3>1, <3>3, <4>2, RowFacts
    <3> QED
      BY <3>2, <3>3
  <2> QED
    BY <2>1, <2>2
<1>16. Follows' /\ Complete'
  <2>1. Follows'
    BY <1>0, <1>5, <1>15 DEF Follows
  <2>2. Complete'
    BY <1>0, <1>5, <1>15 DEF Complete
  <2> QED
    BY <2>1, <2>2
<1>17. HeldKept /\ DoorsKept
  BY <1>5 DEF HeldKept, DoorsKept
<1>18. Flights' /\ Orders'
  BY <1>0, <1>5, <1>9, <1>17, FlightsQuiet
<1> QED
  BY <1>11, <1>13, <1>14, <1>16, <1>18 DEF Coherent

-----------------------------------------------------------------------------
(* The SQL thread, and the answers.                                           *)

LEMMA ExecuteKeeps ==
  ASSUME TypeOK, Coherent, Execute
  PROVE  Coherent'
<1> DEFINE s == Head(queue)
           x == [op |-> s.op, who |-> s.who, to |-> s.to,
                 items |-> IF s.op = "safebox" THEN {} ELSE Found(row, s.op, s.who)]
<1>0. /\ Shapes /\ Seats /\ Entries /\ Follows /\ Complete /\ Flights /\ Orders
      /\ queue \in Seq(Puts \cup Reads) /\ res \in Seq(Answers) /\ row \in [Items -> Data]
      /\ Len(queue) \in Nat /\ Len(res) \in Nat /\ queue # << >> /\ DOMAIN cache \subseteq Items
  BY DEF Coherent, TypeOK, Execute
<1>1. /\ s = queue[1] /\ 1 \in 1 .. Len(queue) /\ s \in Puts \cup Reads
      /\ queue' = Tail(queue) /\ Len(queue') = Len(queue) - 1
      /\ \A k \in 1 .. Len(queue') : queue'[k] = queue[k + 1] /\ k + 1 \in 1 .. Len(queue)
  BY <1>0 DEF Execute
<1>2. /\ s.op = "put" => row' = [row EXCEPT ![s.item] = s.data] /\ res' = res
      /\ s.op # "put" => row' = row /\ res' = Append(res, x)
      /\ UNCHANGED <<held, pend, st, box, cache, sets, pcache, out>>
  BY DEF Execute, game
<1> HIDE DEF s, x
<1>3. s.op = "put" => \A i \in Items : row'[i] = IF s.item = i THEN s.data ELSE row[i]
  BY <1>0, <1>2
<1>4. ASSUME NEW n \in Nat, n < Len(queue), NEW i \in Items
      PROVE  After(queue', row', n, i) = After(queue, row, n + 1, i)
  <2>1. FirstDone(queue, queue', row, row', i)
    BY <1>0, <1>1, <1>2, <1>3 DEF FirstDone
  <2> QED
    BY <1>4, <2>1, AfterTail
<1>5. \A i \in Items : LastWritten(i)' = LastWritten(i) /\ Believed(i)' = Believed(i)
  <2>1. Len(queue') \in Nat /\ Len(queue') < Len(queue) /\ Len(queue') + 1 = Len(queue)
    BY <1>0, <1>1
  <2>2. \A i \in Items : LastWritten(i)' = LastWritten(i)
    BY <1>4, <2>1, LastIs, LastIsNext
  <2> QED
    BY <1>2, <2>2 DEF Believed
<1>6. Entries' /\ Follows' /\ Complete'
  <2>1. \A i \in DOMAIN cache, p \in Players : Guarded(i, p) => Guarded(i, p)'
    BY <1>2 DEF Guarded
  <2> QED
    BY <1>2, <1>5, <2>1, KnownKept
<1>7. Seats'
  BY <1>0, <1>2 DEF Seats
<1>8. Shapes'
  <2>1. \A i \in Items : row'[i] \in Rows
    <3>1. s.op = "put" => s.data \in Rows
      BY <1>0, <1>1 DEF Shapes
    <3> QED
      BY <1>0, <1>2, <1>3, <3>1 DEF Shapes
  <2> QED
    BY <1>0, <1>1, <1>2, <2>1 DEF Shapes
<1>9. ASSUME NEW k \in 1 .. Len(queue') PROVE StatementRight(k)'
  <2>1. queue'[k] = queue[k + 1] /\ k + 1 \in 1 .. Len(queue)
    BY <1>1
  <2>2. StatementRight(k + 1)
    BY <1>0, <2>1 DEF Flights
  <2>3. Table(k - 1)' = Table((k + 1) - 1)
    <3>1. k - 1 \in Nat /\ k - 1 < Len(queue) /\ (k - 1) + 1 = (k + 1) - 1
      BY <1>0, <1>1
    <3>2. \A i \in Items : After(queue', row', k - 1, i) = After(queue, row, (k + 1) - 1, i)
      BY <1>4, <3>1
    <3> QED
      BY <3>2 DEF Table
  <2>4. Waits(queue[k])'
    BY <1>2, <2>1, <2>2 DEF StatementRight, Waits
  <2> QED
    BY <1>2, <2>1, <2>2, <2>3, <2>4 DEF StatementRight
<1>10. s.op # "put" =>
         /\ x.op = s.op /\ x.who = s.who /\ x.to = s.to
         /\ x.items = IF s.op = "safebox" THEN {} ELSE Found(row, s.op, s.who)
  BY DEF x
<1>11. s.op # "put" => /\ \A p : FillsBag(x, p) <=> FillsBag(s, p)
                       /\ \A a : OpensBox(x, a) <=> OpensBox(s, a)
  BY <1>10 DEF FillsBag, OpensBox
<1>12. ASSUME s.op # "put"
       PROVE  /\ \A p \in Players : FillsBag(x, p) =>
                   /\ st[p] \in {"off", "load"} /\ p \notin pcache
                   /\ x.to = "desc" => st[p] = "load"
                   /\ x.items = Found(held, "bag", p)
              /\ \A a \in Accounts : OpensBox(x, a) =>
                   /\ box[a] = "wait"
                   /\ x.op = "box" => x.items = Found(held, "box", a)
  <2>1. StatementRight(1) /\ queue[1] = s
    BY <1>0, <1>1 DEF Flights
  <2>2. \A i \in Items : Table(1 - 1)[i] = row[i]
    <3>1. \A i : PutsIn(queue, 1 - 1, i) = {}
      BY DEF PutsIn
    <3>2. \A i : After(queue, row, 1 - 1, i) = row[i]
      BY <3>1, AfterNone
    <3> QED
      BY <3>2 DEF Table
  <2>3. \A at, w : SameAt(Table(1 - 1), held, at, w) => Found(row, at, w) = Found(held, at, w)
    <3>1. \A at, w : SameAt(Table(1 - 1), held, at, w) => SameAt(row, held, at, w)
      BY <2>2 DEF SameAt
    <3> QED
      BY <3>1, SameFound
  <2>4. ASSUME NEW p \in Players, FillsBag(x, p)
        PROVE  /\ st[p] \in {"off", "load"} /\ p \notin pcache
               /\ x.to = "desc" => st[p] = "load"
               /\ x.items = Found(held, "bag", p)
    <3>1. FillsBag(s, p) /\ s.op = "bag" /\ s.who = p
      BY <1>11, <1>12, <2>4 DEF FillsBag
    <3>2. x.items = Found(row, "bag", p) /\ x.to = s.to
      BY <1>10, <1>12, <3>1
    <3> QED
      BY <2>1, <2>3, <3>1, <3>2 DEF StatementRight, Waits
  <2>5. ASSUME NEW a \in Accounts, OpensBox(x, a)
        PROVE  /\ box[a] = "wait"
               /\ x.op = "box" => x.items = Found(held, "box", a)
    <3>1. OpensBox(s, a) /\ s.who = a
      BY <1>11, <1>12, <2>5 DEF OpensBox
    <3>2. x.op = s.op /\ (s.op = "box" => x.items = Found(row, "box", a))
      BY <1>10, <1>12, <3>1
    <3> QED
      BY <2>1, <2>3, <3>1, <3>2 DEF StatementRight, Waits
  <2> QED
    BY <2>4, <2>5
<1>13. Flights'
  <2>1. ASSUME NEW n \in 1 .. Len(res) PROVE res'[n] = res[n]
    BY <1>0, <1>2
  <2>2. ASSUME NEW n \in 1 .. Len(res) PROVE AnswerRight(n)'
    <3>1. AnswerRight(n) /\ res'[n] = res[n]
      BY <1>0, <2>1 DEF Flights
    <3>2. Waits(res[n])'
      BY <1>2, <3>1 DEF AnswerRight, Waits
    <3> QED
      BY <1>2, <3>1, <3>2 DEF AnswerRight
  <2>3. ASSUME NEW n \in 1 .. Len(res'), n \notin 1 .. Len(res) PROVE AnswerRight(n)'
    <3>1. s.op # "put" /\ res' = Append(res, x)
      BY <1>2, <2>3
    <3>2. res'[n] = x
      BY <1>0, <2>3, <3>1
    <3> QED
      BY <1>2, <1>12, <3>1, <3>2 DEF AnswerRight, Waits
  <2> QED
    BY <1>9, <2>2, <2>3 DEF Flights
<1>14. Orders'
  <2>1. \A k \in 1 .. Len(queue), m \in 1 .. Len(queue) : k < m => ~Clash(queue[k], queue[m])
    BY <1>0 DEF Orders, InOrder
  <2>2. \A n \in 1 .. Len(res), m \in 1 .. Len(res) : n < m => ~Clash(res[n], res[m])
    BY <1>0 DEF Orders, InOrder
  <2>3. \A n \in 1 .. Len(res), k \in 1 .. Len(queue) : ~Clash(res[n], queue[k])
    BY <1>0 DEF Orders
  <2>4. InOrder(queue)'
    <3>1. \A k \in 1 .. Len(queue'), m \in 1 .. Len(queue') : k < m => ~Clash(queue'[k], queue'[m])
      <4> SUFFICES ASSUME NEW k \in 1 .. Len(queue'), NEW m \in 1 .. Len(queue'), k < m
                   PROVE  ~Clash(queue'[k], queue'[m])
        OBVIOUS
      <4>1. /\ queue'[k] = queue[k + 1] /\ k + 1 \in 1 .. Len(queue)
            /\ queue'[m] = queue[m + 1] /\ m + 1 \in 1 .. Len(queue) /\ k + 1 < m + 1
        BY <1>1
      <4> QED
        BY <2>1, <4>1
    <3> QED
      BY <1>0, <1>1, <3>1 DEF InOrder
  <2>5. CASE s.op = "put"
    <3>1. res' = res
      BY <1>2, <2>5
    <3>2. \A n \in 1 .. Len(res), k \in 1 .. Len(queue') : ~Clash(res[n], queue'[k])
      BY <1>1, <2>3
    <3> QED
      BY <1>0, <2>4, <3>1, <3>2 DEF Orders, InOrder
  <2>6. CASE s.op # "put"
    <3>1. /\ Len(res') = Len(res) + 1 /\ res'[Len(res) + 1] = x
          /\ \A n \in 1 .. Len(res) : res'[n] = res[n]
      BY <1>0, <1>2, <2>6
    <3>2. /\ \A y : Clash(y, x) => Clash(y, s)
          /\ \A y : Clash(x, y) => Clash(s, y)
      BY <1>10, <1>11, <2>6 DEF Clash
    <3>3. InOrder(res)'
      <4>1. ASSUME NEW n \in 1 .. Len(res'), NEW m \in 1 .. Len(res'), n < m
            PROVE  ~Clash(res'[n], res'[m])
        <5>1. n \in 1 .. Len(res)
          BY <1>0, <3>1, <4>1
        <5>2. CASE m \in 1 .. Len(res)
          BY <2>2, <3>1, <4>1, <5>1, <5>2
        <5>3. CASE m \notin 1 .. Len(res)
          <6>1. res'[m] = x
            BY <1>0, <3>1, <5>3
          <6> QED
            BY <1>1, <2>3, <3>1, <3>2, <5>1, <6>1
        <5> QED
          BY <5>2, <5>3
      <4> QED
        BY <1>0, <3>1, <4>1 DEF InOrder
    <3>4. ASSUME NEW n \in 1 .. Len(res'), NEW k \in 1 .. Len(queue')
          PROVE  ~Clash(res'[n], queue'[k])
      <4>1. queue'[k] = queue[k + 1] /\ k + 1 \in 1 .. Len(queue) /\ 1 < k + 1
        BY <1>1
      <4>2. CASE n \in 1 .. Len(res)
        BY <2>3, <3>1, <4>1, <4>2
      <4>3. CASE n \notin 1 .. Len(res)
        <5>1. res'[n] = x
          BY <1>0, <3>1, <4>3
        <5>2. ~Clash(s, queue[k + 1])
          BY <1>1, <2>1, <4>1
        <5> QED
          BY <3>2, <4>1, <5>1, <5>2
      <4> QED
        BY <4>2, <4>3
    <3> QED
      BY <2>4, <3>3, <3>4 DEF Orders
  <2> QED
    BY <2>5, <2>6
<1> QED
  BY <1>6, <1>7, <1>8, <1>13, <1>14 DEF Coherent

\* What a load puts into the cache: what the player has, and nothing else.
LEMMA LoadEffect ==
  ASSUME TypeOK, Coherent, NEW p \in Players, st[p] \in {"off", "load"}, p \notin pcache,
         ItemLoad(p, Found(held, "bag", p)), UNCHANGED <<queue, row>>
  PROVE  LET ids == {i \in Items : held[i] \in Bags /\ held[i].who = p} IN
         /\ DOMAIN cache' = DOMAIN cache \cup ids
         /\ \A i \in ids : /\ cache'[i].data = held[i] /\ ~cache'[i].dirty
                           /\ LastWritten(i)' = held[i] /\ i \notin pend
                           /\ ~(i \in DOMAIN cache /\ cache[i].dirty)
         /\ \A i \in DOMAIN cache \ ids : cache'[i] = cache[i]
         /\ DOMAIN sets' = DOMAIN sets \cup {p} /\ ids \subseteq sets'[p]
         /\ \A q \in DOMAIN sets : sets[q] \ ids \subseteq sets'[q]
<1> DEFINE items   == Found(held, "bag", p)
           ids     == {x[1] : x \in items}
           read(i) == Bag(p, (CHOOSE x \in items : x[1] = i)[2])
           mine    == {i \in Items : held[i] \in Bags /\ held[i].who = p}
<1>0. /\ Shapes /\ Entries /\ Follows /\ held \in [Items -> Data]
      /\ cache \in [DOMAIN cache -> Entry] /\ DOMAIN cache \subseteq Items
  BY DEF TypeOK, Coherent
<1>1. \A i \in Items : i \in mine <=> held[i].at = "bag" /\ held[i].who = p
  BY <1>0, Truth, RowFacts
<1>2. items = {<<i, held[i].val>> : i \in mine}
  BY <1>1 DEF Found
<1>3. ids = mine
  <2> HIDE DEF mine, items
  <2>1. ASSUME NEW i \in mine PROVE i \in ids
    <3>1. <<i, held[i].val>> \in items
      BY <1>2
    <3> QED
      BY <3>1
  <2>2. ASSUME NEW x \in items PROVE x[1] \in mine
    BY <1>2
  <2> QED
    BY <2>1, <2>2
<1>4. ASSUME NEW i \in mine PROVE read(i) = held[i]
  <2>1. i \in Items /\ held[i] \in Bags /\ held[i].who = p
    OBVIOUS
  <2> HIDE DEF mine, items
  <2>2. <<i, held[i].val>> \in items /\ \A x \in items : x[1] = i => x[2] = held[i].val
    BY <1>2
  <2>3. (CHOOSE x \in items : x[1] = i)[2] = held[i].val
    BY <2>2
  <2>4. PICK q \in Players, v \in Vals : held[i] = Bag(q, v)
    BY <2>1 DEF Bags
  <2>5. held[i] = Bag(p, held[i].val)
    BY <2>1, <2>4 DEF Bag
  <2> QED
    BY <2>3, <2>5
<1>5. /\ cache' = [i \in DOMAIN cache \cup ids |->
                     IF i \notin ids THEN cache[i]
                     ELSE IF i \in DOMAIN cache THEN [cache[i] EXCEPT !.data = read(i)]
                     ELSE Fresh(read(i), FALSE)]
      /\ DOMAIN sets' = DOMAIN sets \cup {p} /\ ids \subseteq sets'[p]
      /\ \A q \in DOMAIN sets : sets[q] \ ids \subseteq sets'[q]
  BY DEF ItemLoad
<1>6. ASSUME NEW i \in mine
      PROVE  /\ ~(i \in DOMAIN cache /\ cache[i].dirty)
             /\ LastWritten(i) = held[i] /\ i \notin pend
  BY <1>0, BagWritten
<1>7. \A i : LastWritten(i)' = LastWritten(i)
  BY DEF LastWritten, Queued
<1> HIDE DEF ids, read, mine, items
<1>8. ASSUME NEW i \in mine PROVE cache'[i].data = held[i] /\ ~cache'[i].dirty
  <2>1. CASE i \in DOMAIN cache
    <3>1. cache'[i] = [cache[i] EXCEPT !.data = held[i]] /\ cache[i] \in Entry /\ ~cache[i].dirty
      BY <1>0, <1>3, <1>4, <1>5, <1>6, <2>1
    <3> QED
      BY <3>1 DEF Entry
  <2>2. CASE i \notin DOMAIN cache
    <3>1. cache'[i] = Fresh(held[i], FALSE)
      BY <1>3, <1>4, <1>5, <2>2
    <3> QED
      BY <3>1 DEF Fresh
  <2> QED
    BY <2>1, <2>2
<1>9. /\ DOMAIN cache' = DOMAIN cache \cup mine
      /\ \A i \in DOMAIN cache \ mine : cache'[i] = cache[i]
  BY <1>3, <1>5
<1> QED
  BY <1>3, <1>5, <1>6, <1>7, <1>8, <1>9 DEF mine

LEMMA LoadedKeeps ==
  ASSUME TypeOK, Coherent, NEW p \in Players, st[p] \in {"off", "load"}, p \notin pcache,
         ItemLoad(p, Found(held, "bag", p)),
         UNCHANGED <<queue, row, held, pend, pcache, out>>,
         \A q \in Players : q # p => st'[q] = st[q], st'[p] \in {"off", "load", "play"},
         st'[p] = st[p] \/ st[p] = "load"
  PROVE  Shapes' /\ Seats' /\ Entries' /\ Follows' /\ Complete'
<1> DEFINE mine == {i \in Items : held[i] \in Bags /\ held[i].who = p}
<1>0. /\ Shapes /\ Seats /\ Entries /\ Follows /\ Complete
      /\ pend \subseteq Items /\ DOMAIN cache \subseteq Items
  BY DEF TypeOK, Coherent
<1>1. /\ DOMAIN cache' = DOMAIN cache \cup mine
      /\ \A i \in mine : /\ cache'[i].data = held[i] /\ ~cache'[i].dirty
                         /\ LastWritten(i)' = held[i] /\ i \notin pend
                         /\ ~(i \in DOMAIN cache /\ cache[i].dirty)
      /\ \A i \in DOMAIN cache \ mine : cache'[i] = cache[i]
      /\ DOMAIN sets' = DOMAIN sets \cup {p} /\ mine \subseteq sets'[p]
      /\ \A q \in DOMAIN sets : sets[q] \ mine \subseteq sets'[q]
  BY LoadEffect
<1>2. \A i : LastWritten(i)' = LastWritten(i)
  BY DEF LastWritten, Queued
<1>3. \A i \in mine : i \in Items /\ held[i] \in Bags /\ held[i].who = p
  OBVIOUS
<1>4. \A i \in Items \ mine : ~(held[i] \in Bags /\ held[i].who = p)
  OBVIOUS
<1> HIDE DEF mine
<1>5. \A q \in Players : st[q] \in {"play", "leaving"} => st'[q] = st[q]
  OBVIOUS
<1>6. Shapes'
  BY <1>0, <1>1, <1>3, RowFacts DEF Shapes
<1>7. Seats'
  <2>1. \A q \in DOMAIN out : st'[p] # st[p] => p \notin Mates(q)
    BY <1>0 DEF Seats
  <2>2. \A q \in DOMAIN out : \A r \in Mates(q) : st'[r] = "off"
    BY <1>0, <2>1 DEF Seats, Mates
  <2>3. \A q \in Players : st'[q] = "leaving" => st[q] = "leaving"
    OBVIOUS
  <2>4. \A q, r \in Players : q # r /\ AcctOf[q] = AcctOf[r] => st'[q] = "off" \/ st'[r] = "off"
    BY <1>0 DEF Seats
  <2>5. \A q \in Players : q \in pcache' \/ st'[q] \in {"play", "leaving"} => q \in DOMAIN sets'
    BY <1>0, <1>1 DEF Seats
  <2> QED
    BY <1>0, <2>2, <2>3, <2>4, <2>5 DEF Seats
<1>8. Entries'
  <2>1. ASSUME NEW i \in DOMAIN cache', i \notin mine
        PROVE  /\ ~cache'[i].dirty => Saved(cache'[i].data) = LastWritten(i)'
               /\ cache'[i].dirty => /\ LastWritten(i)'.at # "box"
                                     /\ \A q \in Players : About(i, q)' => Guarded(i, q)'
    <3>1. i \in DOMAIN cache /\ cache'[i] = cache[i]
      BY <1>1, <2>1
    <3>2. \A q \in Players : (About(i, q)' <=> About(i, q)) /\ (Guarded(i, q) => Guarded(i, q)')
      BY <1>2, <1>5, <3>1 DEF About, Guarded
    <3> QED
      BY <1>0, <1>2, <3>1, <3>2 DEF Entries
  <2>2. ASSUME NEW i \in mine
        PROVE  ~cache'[i].dirty /\ Saved(cache'[i].data) = LastWritten(i)'
    BY <1>1, <1>3, RowFacts
  <2> QED
    BY <2>1, <2>2 DEF Entries
<1>9. \A i \in Items : IF i \in mine THEN Believed(i)' = held[i] ELSE Believed(i)' = Believed(i)
  BY <1>1, <1>2 DEF Believed
<1>10. Follows'
  <2>1. ASSUME NEW i \in Items, i \in mine
        PROVE  i \notin pend' /\ Saved(Believed(i)') = Saved(held'[i])
    BY <1>1, <1>9, <2>1
  <2>2. ASSUME NEW i \in Items, i \notin mine
        PROVE  LET b == Saved(Believed(i)') IN
               IF i \notin pend' THEN b = Saved(held'[i])
               ELSE /\ held'[i] \in Bags /\ st'[held'[i].who] \in {"play", "leaving"}
                    /\ b = Absent \/ (b \in Bags /\ b.who = held'[i].who)
    <3>1. held[i] \in Bags => held[i].who \in Players
      BY RowFacts
    <3> QED
      BY <1>0, <1>5, <1>9, <2>2, <3>1 DEF Follows
  <2> QED
    BY <2>1, <2>2 DEF Follows
<1>11. Complete'
  <2> SUFFICES ASSUME NEW q \in DOMAIN sets', NEW i \in Items,
                      Saved(Believed(i)') \in Bags, Saved(Believed(i)').who = q
               PROVE  i \in sets'[q]
    BY DEF Complete
  <2>1. CASE i \in mine
    <3>1. q = p
      BY <1>3, <1>9, <2>1, RowFacts
    <3> QED
      BY <1>1, <2>1, <3>1
  <2>2. CASE i \notin mine
    <3>1. Saved(Believed(i)) \in Bags /\ Saved(Believed(i)).who = q
      BY <1>9, <2>2
    <3>2. q # p
      <4> SUFFICES ASSUME q = p PROVE FALSE
        OBVIOUS
      <4>1. CASE i \in pend
        <5>1. held[i] \in Bags /\ st[held[i].who] \in {"play", "leaving"} /\ held[i].who = p
          BY <1>0, <3>1, <4>1, Truth, RowFacts
        <5> QED
          BY <5>1
      <4>2. CASE i \notin pend
        <5>1. held[i] \in Bags /\ held[i].who = p
          BY <1>0, <3>1, <4>2, Truth, RowFacts
        <5> QED
          BY <1>4, <2>2, <5>1
      <4> QED
        BY <4>1, <4>2
    <3>3. q \in DOMAIN sets /\ i \in sets[q]
      BY <1>0, <1>1, <3>1, <3>2 DEF Complete
    <3> QED
      BY <1>1, <2>2, <3>3
  <2> QED
    BY <2>1, <2>2
<1> QED
  BY <1>6, <1>7, <1>8, <1>10, <1>11

LEMMA PopKeeps ==
  ASSUME TypeOK, Coherent, Pop
  PROVE  Coherent'
<1> DEFINE r == Head(res)
<1>0. /\ Shapes /\ Seats /\ Entries /\ Follows /\ Complete /\ Flights /\ Orders
      /\ queue \in Seq(Puts \cup Reads) /\ res \in Seq(Answers)
      /\ Len(queue) \in Nat /\ Len(res) \in Nat /\ res # << >>
      /\ st \in [Players -> {"off", "load", "play", "leaving"}]
      /\ box \in [Accounts -> {"shut", "wait", "open"}]
  BY DEF Coherent, TypeOK, Pop
<1>1. /\ r = res[1] /\ 1 \in 1 .. Len(res) /\ r \in Answers
      /\ Len(res') = Len(res) - 1
      /\ \A k \in 1 .. Len(res') : res'[k] = res[k + 1] /\ k + 1 \in 1 .. Len(res) /\ 1 < k + 1
  BY <1>0 DEF Pop
<1>2. /\ st' = IF r.to = "desc" /\ r.op = "bag" THEN [st EXCEPT ![r.who] = "play"] ELSE st
      /\ box' = IF r.to = "desc" /\ r.op = "box" THEN [box EXCEPT ![r.who] = "open"] ELSE box
      /\ UNCHANGED <<held, pend, pcache, out, row>>
  BY DEF Pop
<1>3. \/ r.op = "bag" /\ r.to # "none" /\ ItemLoad(r.who, r.items) /\ queue' = queue
      \/ /\ r.op = "safebox" /\ r.to # "none" /\ UNCHANGED <<cache, sets>>
         /\ queue' = Append(queue, [Select("box", r.who) EXCEPT !.to = r.to])
      \/ UNCHANGED <<cache, sets, queue>> /\ (r.op = "box" \/ r.to = "none")
  BY DEF Pop
<1> HIDE DEF r
<1>4. /\ r.op \in {"bag", "box", "safebox"} /\ r.to \in Ways
      /\ r.op = "bag" => r.who \in Players
      /\ r.op # "bag" => r.who \in Accounts
  BY <1>1 DEF Answers
<1>5. AnswerRight(1) /\ Waits(r)
  BY <1>0, <1>1 DEF Flights, AnswerRight
<1>6. ASSUME NEW y, Waits(y), ~Clash(r, y)
      PROVE  /\ \A q \in Players : FillsBag(y, q) =>
                  /\ st'[q] \in {"off", "load"} /\ q \notin pcache'
                  /\ y.to = "desc" => st'[q] = "load"
             /\ \A a \in Accounts : OpensBox(y, a) => box'[a] = "wait"
  <2>1. ASSUME NEW q \in Players, FillsBag(y, q) PROVE st'[q] = st[q]
    <3>1. ~(FillsBag(r, q) /\ r.to = "desc")
      BY <1>6, <2>1 DEF Clash
    <3>2. ~(r.to = "desc" /\ r.op = "bag" /\ r.who = q)
      BY <3>1 DEF FillsBag
    <3> QED
      BY <1>0, <1>2, <3>2
  <2>2. ASSUME NEW a \in Accounts, OpensBox(y, a) PROVE box'[a] = box[a]
    <3>1. ~OpensBox(r, a)
      BY <1>6, <2>2 DEF Clash
    <3>2. ~(r.to = "desc" /\ r.op = "box" /\ r.who = a)
      BY <3>1 DEF OpensBox
    <3> QED
      BY <1>0, <1>2, <3>2
  <2> QED
    BY <1>2, <1>6, <2>1, <2>2 DEF Waits
<1>7. ASSUME NEW k \in 1 .. Len(res') PROVE AnswerRight(k)'
  <2>1. /\ res'[k] = res[k + 1] /\ AnswerRight(k + 1) /\ ~Clash(r, res[k + 1])
    BY <1>0, <1>1 DEF Flights, Orders, InOrder
  <2>2. Waits(res[k])'
    <3>1. PICK y : y = res[k + 1] /\ y = res'[k] /\ Waits(y) /\ ~Clash(r, y)
      BY <2>1 DEF AnswerRight
    <3>2. /\ \A q \in Players : FillsBag(y, q) =>
               /\ st'[q] \in {"off", "load"} /\ q \notin pcache'
               /\ y.to = "desc" => st'[q] = "load"
          /\ \A a \in Accounts : OpensBox(y, a) => box'[a] = "wait"
      BY <1>6, <3>1
    <3> QED
      BY <3>1, <3>2 DEF Waits
  <2> QED
    BY <1>2, <2>1, <2>2 DEF AnswerRight
<1>8. PICK n \in Nat : n = Len(queue)
  BY <1>0
<1>9. /\ \A k \in 1 .. n : queue'[k] = queue[k]
      /\ Len(queue') = n \/ Len(queue') = n + 1
  <2>1. queue' = queue \/ \E x : queue' = Append(queue, x)
    BY <1>3
  <2>2. queue \in Seq(Puts \cup Reads)
    BY <1>0
  <2>3. \A x : Len(Append(queue, x)) = n + 1 /\ \A k \in 1 .. n : Append(queue, x)[k] = queue[k]
    BY <1>8, <2>2
  <2> QED
    BY <1>8, <2>1, <2>3
<1>10. ASSUME NEW k \in 1 .. n PROVE StatementRight(k)'
  <2>1. StatementRight(k) /\ queue'[k] = queue[k] /\ ~Clash(r, queue[k])
    BY <1>0, <1>1, <1>8, <1>9 DEF Flights, Orders
  <2>2. Waits(queue[k])'
    BY <1>6, <2>1 DEF StatementRight, Waits
  <2>3. Table(k - 1)' = Table(k - 1)
    <3>1. k - 1 \in Nat /\ \A l \in 1 .. k - 1 : queue'[l] = queue[l]
      BY <1>9
    <3>2. \A i : After(queue', row, k - 1, i) = After(queue, row, k - 1, i)
      BY <3>1, AfterSame
    <3> QED
      BY <1>2, <3>2 DEF Table
  <2> QED
    BY <1>2, <2>1, <2>2, <2>3 DEF StatementRight
<1>11. /\ InOrder(res)'
       /\ \A k \in 1 .. n, m \in 1 .. n : k < m => ~Clash(queue'[k], queue'[m])
       /\ \A m \in 1 .. Len(res'), k \in 1 .. n : ~Clash(res'[m], queue'[k])
  <2>1. \A k \in 1 .. Len(res), m \in 1 .. Len(res) : k < m => ~Clash(res[k], res[m])
    BY <1>0 DEF Orders, InOrder
  <2>2. \A k \in 1 .. n, m \in 1 .. n : k < m => ~Clash(queue[k], queue[m])
    BY <1>0, <1>8 DEF Orders, InOrder
  <2>3. \A m \in 1 .. Len(res), k \in 1 .. n : ~Clash(res[m], queue[k])
    BY <1>0, <1>8 DEF Orders
  <2>4. InOrder(res)'
    <3>1. ASSUME NEW k \in 1 .. Len(res'), NEW m \in 1 .. Len(res'), k < m
          PROVE  ~Clash(res'[k], res'[m])
      <4>1. /\ res'[k] = res[k + 1] /\ k + 1 \in 1 .. Len(res)
            /\ res'[m] = res[m + 1] /\ m + 1 \in 1 .. Len(res) /\ k + 1 < m + 1
        BY <1>1, <3>1
      <4> QED
        BY <2>1, <4>1
    <3> QED
      BY <1>0, <1>1, <3>1 DEF InOrder
  <2> QED
    BY <1>1, <1>9, <2>2, <2>3, <2>4
<1>12. Len(queue') = n => Flights' /\ Orders'
  <2> SUFFICES ASSUME Len(queue') = n PROVE Flights' /\ Orders'
    OBVIOUS
  <2>1. Flights'
    BY <1>7, <1>10 DEF Flights
  <2>2. InOrder(queue)'
    BY <1>11 DEF InOrder
  <2> QED
    BY <1>11, <2>1, <2>2 DEF Orders
<1>13. CASE r.op = "bag" /\ r.to # "none" /\ ItemLoad(r.who, r.items) /\ queue' = queue
  <2> DEFINE p == r.who
  <2>1. p \in Players /\ FillsBag(r, p)
    BY <1>4, <1>13 DEF FillsBag
  <2>2. /\ st[p] \in {"off", "load"} /\ p \notin pcache /\ (r.to = "desc" => st[p] = "load")
    BY <1>5, <2>1 DEF Waits
  <2>3. r.items = Found(held, "bag", p)
    BY <1>1, <1>5, <2>1 DEF AnswerRight
  <2>4. ItemLoad(p, Found(held, "bag", p))
    BY <1>13, <2>3
  <2>5. /\ \A q \in Players : q # p => st'[q] = st[q]
        /\ st'[p] = st[p] \/ (st[p] = "load" /\ st'[p] = "play")
    BY <1>0, <1>2, <2>1, <2>2
  <2> HIDE DEF p
  <2>6. Shapes' /\ Seats' /\ Entries' /\ Follows' /\ Complete'
    BY <1>2, <1>13, <2>1, <2>2, <2>4, <2>5, LoadedKeeps
  <2>7. Flights' /\ Orders'
    BY <1>8, <1>12, <1>13
  <2> QED
    BY <2>6, <2>7 DEF Coherent
<1>14. ASSUME UNCHANGED <<cache, sets>>, ~(r.op = "bag" /\ r.to # "none"),
              \A i \in Items : LastWritten(i)' = LastWritten(i)
       PROVE  Seats' /\ Entries' /\ Follows' /\ Complete'
  <2>1. st' = st
    BY <1>2, <1>14
  <2>2. Seats'
    BY <1>0, <1>2, <1>14, <2>1 DEF Seats
  <2>3. \A i \in DOMAIN cache, q \in Players : Guarded(i, q) => Guarded(i, q)'
    BY <1>2, <1>14, <2>1 DEF Guarded
  <2>4. Entries' /\ Follows' /\ Complete'
    BY <1>2, <1>14, <2>1, <2>3, KnownKept
  <2> QED
    BY <2>2, <2>4
<1>15. CASE UNCHANGED <<cache, sets, queue>> /\ (r.op = "box" \/ r.to = "none")
  <2>1. \A i \in Items : LastWritten(i)' = LastWritten(i)
    BY <1>2, <1>15 DEF LastWritten, Queued
  <2>2. Seats' /\ Entries' /\ Follows' /\ Complete'
    BY <1>14, <1>15, <2>1
  <2>3. Shapes'
    BY <1>0, <1>2, <1>15 DEF Shapes
  <2>4. Flights' /\ Orders'
    BY <1>8, <1>12, <1>15
  <2> QED
    BY <2>2, <2>3, <2>4 DEF Coherent
<1>16. CASE /\ r.op = "safebox" /\ r.to # "none" /\ UNCHANGED <<cache, sets>>
            /\ queue' = Append(queue, [Select("box", r.who) EXCEPT !.to = r.to])
  <2> DEFINE x == [Select("box", r.who) EXCEPT !.to = r.to]
  <2>1. x.op = "box" /\ x.who = r.who /\ x.to = r.to
    BY DEF Select
  <2>2. queue' = Append(queue, x)
    BY <1>16
  <2> HIDE DEF x
  <2>3. /\ Len(queue') = n + 1 /\ queue'[n + 1] = x
        /\ \A k \in 1 .. n : queue'[k] = queue[k]
        /\ \A i \in Items : LastWritten(i)' = LastWritten(i)
        /\ \A i \in Items : After(queue', row', n, i) = LastWritten(i)
        /\ Shapes'
    BY <1>0, <1>2, <1>8, <1>16, <2>1, <2>2, ReadAppended
  <2>4. Seats' /\ Entries' /\ Follows' /\ Complete'
    BY <1>14, <1>16, <2>3
  <2>5. \A q : ~FillsBag(x, q)
    BY <2>1 DEF FillsBag
  <2>6. \A a : OpensBox(x, a) <=> OpensBox(r, a)
    BY <1>16, <2>1 DEF OpensBox
  <2>7. \A y : Clash(y, x) => Clash(y, r)
    BY <2>5, <2>6 DEF Clash
  <2>8. \A y : Clash(y, x) => Clash(r, y)
    BY <2>5, <2>6 DEF Clash
  <2>9. box' = box
    BY <1>2, <1>16
  <2>10. StatementRight(n + 1)'
    <3>1. \A a \in Accounts : OpensBox(x, a) => box'[a] = "wait"
      BY <1>5, <2>6, <2>9 DEF Waits
    <3>2. Waits(queue[n + 1])'
      BY <2>3, <2>5, <3>1 DEF Waits
    <3>3. Table((n + 1) - 1)' = [i \in Items |-> LastWritten(i)]
      BY <2>3 DEF Table
    <3>4. \A a : SameAt([i \in Items |-> LastWritten(i)], held, "box", a)
      BY <1>0, BoxWritten DEF SameAt
    <3> QED
      BY <1>2, <2>3, <2>5, <3>2, <3>3, <3>4 DEF StatementRight
  <2>11. Flights'
    <3>1. \A k \in 1 .. Len(queue') : k \in 1 .. n \/ k = n + 1
      BY <2>3
    <3> QED
      BY <1>7, <1>10, <2>10, <3>1 DEF Flights
  <2>12. \A k \in 1 .. n : ~Clash(queue'[k], x)
    <3>1. \A k \in 1 .. n : ~Clash(r, queue[k])
      BY <1>0, <1>1, <1>8 DEF Orders
    <3> QED
      BY <2>3, <2>8, <3>1
  <2>13. \A k \in 1 .. Len(res') : ~Clash(res'[k], x)
    <3>1. \A k \in 1 .. Len(res') : ~Clash(r, res'[k])
      BY <1>0, <1>1 DEF Orders, InOrder
    <3> QED
      BY <2>8, <3>1
  <2>14. Orders'
    <3>1. \A k \in 1 .. Len(queue'), m \in 1 .. Len(queue') : k < m => ~Clash(queue'[k], queue'[m])
      <4> SUFFICES ASSUME NEW k \in 1 .. n + 1, NEW m \in 1 .. n + 1, k < m
                   PROVE  ~Clash(queue'[k], queue'[m])
        BY <2>3
      <4>1. k \in 1 .. n /\ (m \in 1 .. n \/ m = n + 1)
        OBVIOUS
      <4> QED
        BY <1>11, <2>3, <2>12, <4>1
    <3>2. InOrder(queue)'
      BY <2>3, <3>1 DEF InOrder
    <3>3. \A m \in 1 .. Len(res'), k \in 1 .. Len(queue') : ~Clash(res'[m], queue'[k])
      <4>1. \A k \in 1 .. Len(queue') : k \in 1 .. n \/ k = n + 1
        BY <2>3
      <4> QED
        BY <1>11, <2>3, <2>13, <4>1
    <3> QED
      BY <1>11, <3>2, <3>3 DEF Orders
  <2> QED
    BY <2>3, <2>4, <2>11, <2>14 DEF Coherent
<1> QED
  BY <1>3, <1>13, <1>15, <1>16

-----------------------------------------------------------------------------
(* Every step keeps the invariant, and what it says.                          *)

LEMMA InitCoherent == Init => Coherent
<1> SUFFICES ASSUME Init PROVE Coherent
  OBVIOUS
<1>1. /\ held = row /\ pend = {} /\ pcache = {} /\ Len(queue) = 0 /\ Len(res) = 0
      /\ DOMAIN cache = {} /\ DOMAIN sets = {} /\ DOMAIN out = {}
      /\ \A p \in Players : st[p] = "off"
  BY DEF Init
<1>2. ASSUME NEW i \in Items PROVE row[i] \in Rows /\ Saved(row[i]) = row[i]
  <2>1. row[i] \in {Bag(p, 0) : p \in Players} \cup {InBox(a, 0) : a \in Accounts}
    BY DEF Init
  <2>2. 0 \in Vals
    BY ValsAssumption
  <2>3. row[i] \in Rows
    BY <2>1, <2>2 DEF Rows, Bags, Boxes
  <2> QED
    BY <2>3, RowFacts
<1>3. ASSUME NEW i \in Items PROVE Believed(i) = row[i]
  <2>1. Queued(i) = {}
    BY <1>1 DEF Queued
  <2> QED
    BY <1>1, <2>1 DEF Believed, LastWritten
<1>4. Shapes
  BY <1>1, <1>2 DEF Shapes
<1>5. Seats
  BY <1>1 DEF Seats
<1>6. Entries /\ Complete
  BY <1>1 DEF Entries, Complete
<1>7. Follows
  BY <1>1, <1>2, <1>3 DEF Follows
<1>8. Flights /\ Orders
  <2>1. 1 .. Len(queue) = {} /\ 1 .. Len(res) = {}
    BY <1>1
  <2>2. Flights
    BY <2>1 DEF Flights
  <2>3. Orders
    BY <2>1 DEF Orders, InOrder
  <2> QED
    BY <2>2, <2>3
<1> QED
  BY <1>4, <1>5, <1>6, <1>7, <1>8 DEF Coherent

LEMMA StutterKeeps ==
  ASSUME TypeOK, Coherent, UNCHANGED vars
  PROVE  Coherent'
<1>1. UNCHANGED <<held, pend, st, box, cache, sets, pcache, out, row, queue, res>>
  BY DEF vars
<1>2. Shapes' /\ Seats' /\ Complete' /\ Orders'
  <2>1. \A i : LastWritten(i)' = LastWritten(i) /\ Believed(i)' = Believed(i)
    BY <1>1 DEF LastWritten, Queued, Believed
  <2> QED
    BY <1>1, <2>1 DEF Coherent, Shapes, Seats, Complete, Orders, InOrder
<1>3. HeldKept /\ DoorsKept
  BY <1>1 DEF HeldKept, DoorsKept
<1>4. Flights' /\ Orders'
  <2>1. Len(queue) \in Nat /\ Flights /\ Orders
    BY DEF TypeOK, Coherent
  <2> QED
    BY <1>1, <1>3, <2>1, FlightsQuiet
<1>5. Entries' /\ Follows'
  <2>1. \A i : LastWritten(i)' = LastWritten(i)
    BY <1>1 DEF LastWritten, Queued
  <2>2. \A i \in DOMAIN cache, p \in Players : Guarded(i, p) => Guarded(i, p)'
    BY <1>1 DEF Guarded
  <2> QED
    BY <1>1, <2>1, <2>2, KnownKept
<1> QED
  BY <1>2, <1>4, <1>5 DEF Coherent

\* Under the two hypotheses on the instance and the one on the load.
LEMMA StepCoherent ==
  ASSUME Calm, TimersOrdered, TypeOK, LinksAlive, Coherent, NotOverloaded, [Next]_vars
  PROVE  Coherent'
<1>0. TypeOK'
  BY StepTyped
<1>1. ASSUME NEW p \in Players, Load(p) PROVE Coherent'
  BY <1>1, LoadKeeps
<1>2. ASSUME NEW p \in Players, OpenBox(p) PROVE Coherent'
  BY <1>2, OpenBoxKeeps
<1>3. ASSUME NEW p \in Players, SavePlayer(p) \/ Disconnect(p) PROVE Coherent'
  BY <1>3, SeenKeeps
<1>4. ASSUME NEW p \in Players, Logout(p) PROVE Coherent'
  BY <1>4, LogoutKeeps
<1>5. \A p \in Players : ~FlushCache(p)
  BY DEF Calm, FlushCache
<1>6. \A a \in Accounts : ~StrayLogout(a)
  BY DEF Calm, StrayLogout
<1>7. ASSUME NEW i \in Items, Use(i) \/ (\E p \in Players : PickUp(i, p)) PROVE Coherent'
  BY <1>7, ChangesKeep
<1>8. ASSUME NEW i \in Items,
             \/ Drop(i) \/ Vanish(i) \/ CheckIn(i) \/ SavePending(i)
             \/ \E p \in Players : Exchange(i, p) \/ CheckOut(i, p)
      PROVE  Coherent'
  BY <1>0, <1>8, SendsKeep
<1>9. ~GameCrash
  BY DEF Calm, GameCrash
<1>10. ASSUME Restart PROVE Coherent'
  BY <1>10, RestartKeeps
<1>11. ASSUME Second PROVE Coherent'
  BY <1>11, SecondKeeps
<1>12. ASSUME Execute PROVE Coherent'
  BY <1>12, ExecuteKeeps
<1>13. ASSUME Pop PROVE Coherent'
  BY <1>13, PopKeeps
<1>14. CASE UNCHANGED vars
  BY <1>14, StutterKeeps
<1> QED
  BY <1>1, <1>2, <1>3, <1>4, <1>5, <1>6, <1>7, <1>8, <1>9, <1>10, <1>11, <1>12, <1>13, <1>14
     DEF Next

LEMMA CoherentKnows ==
  ASSUME TypeOK, Coherent
  PROVE  NothingLost
<1> SUFFICES ASSUME NEW i \in Items \ pend
             PROVE  Saved(Known(i)) = Saved(held[i]) /\ Saved(Believed(i)) = Saved(held[i])
  BY DEF NothingLost
<1>0. Shapes /\ Entries /\ Follows
  BY DEF Coherent
<1>1. Saved(Believed(i)) = Saved(held[i])
  BY <1>0, Truth
<1>2. Saved(Known(i)) = Saved(Believed(i))
  <2>1. CASE i \in DOMAIN cache /\ cache[i].dirty
    BY <2>1 DEF Known, Believed
  <2>2. CASE ~(i \in DOMAIN cache /\ cache[i].dirty)
    BY <1>0, <2>2, Written, RowFacts DEF Known
  <2> QED
    BY <2>1, <2>2
<1> QED
  BY <1>1, <1>2

\* The answer to a load from the cache.
LEMMA CachedIsCurrent ==
  ASSUME TypeOK, LinksAlive, Coherent, NEW p \in Players, p \in DOMAIN sets, st[p] = "off"
  PROVE  {<<i, cache[i].data.val>> : i \in {j \in sets[p] : cache[j].data.at # "gone"}}
           = Found(held, "bag", p)
<1>0. /\ Shapes /\ Follows /\ Complete /\ sets[p] \subseteq Items
      /\ \A i \in sets[p] : i \in DOMAIN cache /\ cache[i].data.who = p
  BY DEF Coherent, TypeOK, LinksAlive
<1> DEFINE L == {j \in sets[p] : cache[j].data.at # "gone"}
           R == {j \in Items : held[j].at = "bag" /\ held[j].who = p}
<1>1. ASSUME NEW i \in L PROVE i \in R /\ cache[i].data = held[i]
  <2>1. i \in DOMAIN cache /\ i \in Items /\ cache[i].data.who = p /\ cache[i].data \in Bags
    BY <1>0 DEF Shapes
  <2>2. Saved(Believed(i)) = cache[i].data
    BY <2>1, RowFacts DEF Believed
  <2>3. i \notin pend
    BY <1>0, <2>1, <2>2, Truth, RowFacts
  <2> QED
    BY <1>0, <2>1, <2>2, <2>3, Truth, RowFacts
<1>2. ASSUME NEW i \in R PROVE i \in L
  <2>1. held[i] \in Bags /\ held[i].who = p
    BY <1>0, Truth
  <2>2. i \notin pend
    BY <1>0, <2>1, Truth
  <2>3. Saved(Believed(i)) = held[i]
    BY <1>0, <2>1, <2>2, Truth, RowFacts
  <2>4. i \in sets[p] /\ i \in DOMAIN cache
    BY <1>0, <2>1, <2>3 DEF Complete
  <2>5. cache[i].data.at # "gone"
    BY <2>1, <2>3, <2>4, RowFacts DEF Believed
  <2> QED
    BY <2>4, <2>5
<1>3. L = R /\ \A i \in L : cache[i].data = held[i]
  BY <1>1, <1>2
<1> HIDE DEF L, R
<1>4. {<<i, cache[i].data.val>> : i \in L} = {<<i, held[i].val>> : i \in R}
  BY <1>3
<1> QED
  BY <1>4 DEF Found, L, R

LEMMA StepCurrent ==
  ASSUME TypeOK, LinksAlive, Coherent, LoadIsCurrent, [Next]_vars
  PROVE  LoadIsCurrent'
<1>0. NotSent.op = "none"
  BY DEF NotSent
<1>1. sent' = NotSent => LoadIsCurrent'
  BY <1>0 DEF LoadIsCurrent
<1>2. ASSUME NEW p \in Players, Load(p) PROVE LoadIsCurrent'
  <2>1. held' = held /\ st[p] = "off"
    BY <1>2 DEF Load, Mates
  <2>2. CASE sent' = NotSent
    BY <1>1, <2>2
  <2>3. CASE /\ p \in DOMAIN sets
             /\ sent' = [op |-> "bag", who |-> p,
                         items |-> {<<i, cache[i].data.val>> :
                                      i \in {j \in sets[p] : cache[j].data.at # "gone"}}]
    BY <2>1, <2>3, CachedIsCurrent DEF LoadIsCurrent
  <2> QED
    BY <1>2, <2>2, <2>3 DEF Load
<1>3. ASSUME Pop PROVE LoadIsCurrent'
  <2> DEFINE r == Head(res)
  <2>1. /\ r = res[1] /\ 1 \in 1 .. Len(res) /\ r \in Answers
    BY <1>3 DEF Pop, TypeOK
  <2>2. AnswerRight(1)
    BY <2>1 DEF Coherent, Flights
  <2>3. held' = held
    BY <1>3 DEF Pop
  <2>4. sent' = IF r.to = "desc" /\ r.op \in {"bag", "box"}
                THEN [op |-> r.op, who |-> r.who, items |-> r.items] ELSE NotSent
    BY <1>3 DEF Pop
  <2> HIDE DEF r
  <2>5. CASE r.to = "desc" /\ r.op = "bag"
    <3>1. r.who \in Players /\ FillsBag(r, r.who)
      BY <2>1, <2>5 DEF Answers, FillsBag
    <3>2. r.items = Found(held, "bag", r.who)
      BY <2>1, <2>2, <3>1 DEF AnswerRight
    <3> QED
      BY <2>3, <2>4, <2>5, <3>2 DEF LoadIsCurrent
  <2>6. CASE r.to = "desc" /\ r.op = "box"
    <3>1. r.who \in Accounts /\ OpensBox(r, r.who)
      BY <2>1, <2>6 DEF Answers, OpensBox
    <3>2. r.items = Found(held, "box", r.who)
      BY <2>1, <2>2, <2>6, <3>1 DEF AnswerRight
    <3> QED
      BY <2>3, <2>4, <2>6, <3>2 DEF LoadIsCurrent
  <2> QED
    BY <1>1, <2>4, <2>5, <2>6
<1>4. CASE UNCHANGED vars
  BY <1>4 DEF vars, LoadIsCurrent
<1> QED
  BY <1>1, <1>2, <1>3, <1>4 DEF Next, OpenBox, SavePlayer, Disconnect, Logout, FlushCache,
     StrayLogout, Use, Drop, Vanish, CheckIn, SavePending, Exchange, PickUp, CheckOut, Moved,
     GameCrash, Restart, Second, Execute

LEMMA StepReplaces ==
  ASSUME TypeOK, LinksAlive, Coherent, [Next]_vars, Len(res') < Len(res),
         NEW i \in DOMAIN cache, cache[i].dirty
  PROVE  cache'[i].data = cache[i].data
<1>0. Len(res) \in Nat /\ res \in Seq(Answers)
  BY DEF TypeOK
<1>1. ~(res' = res) /\ ~(\E x : res' = Append(res, x))
  BY <1>0
<1>2. \A P : \A to \in {"peer", "none"} : res' # Redirect(res, P, to)
  BY <1>0, Redirected
<1>3. Pop
  BY <1>1, <1>2 DEF Next, Load, OpenBox, SavePlayer, Disconnect, Logout, FlushCache,
     StrayLogout, Use, Drop, Vanish, CheckIn, SavePending, Exchange, PickUp, CheckOut, Moved,
     GameCrash, Restart, Second, Execute, vars, sql
<1> DEFINE r == Head(res)
<1>4. r = res[1] /\ 1 \in 1 .. Len(res) /\ r \in Answers
  BY <1>3 DEF Pop, TypeOK
<1>5. AnswerRight(1)
  BY <1>4 DEF Coherent, Flights
<1>6. CASE cache' = cache
  BY <1>6
<1>7. CASE r.op = "bag" /\ r.to # "none" /\ ItemLoad(r.who, r.items) /\ UNCHANGED <<queue, row>>
  <2>1. r.who \in Players /\ FillsBag(r, r.who)
    BY <1>4, <1>7 DEF Answers, FillsBag
  <2>2. /\ r.items = Found(held, "bag", r.who)
        /\ st[r.who] \in {"off", "load"} /\ r.who \notin pcache
    BY <1>4, <1>5, <2>1 DEF AnswerRight, Waits
  <2>3. PICK p \in Players : p = r.who
    BY <2>1
  <2>4. i \in Items
    BY DEF TypeOK
  <2>a. /\ st[p] \in {"off", "load"} /\ p \notin pcache /\ UNCHANGED <<queue, row>>
        /\ ItemLoad(p, Found(held, "bag", p))
    BY <1>7, <2>2, <2>3
  <2> HIDE DEF r
  <2> DEFINE mine == {k \in Items : held[k] \in Bags /\ held[k].who = p}
  <2>b. /\ \A j \in mine : ~(j \in DOMAIN cache /\ cache[j].dirty)
        /\ \A j \in DOMAIN cache \ mine : cache'[j] = cache[j]
    BY <2>a, LoadEffect
  <2> QED
    BY <2>b
<1> QED
  BY <1>3, <1>6, <1>7 DEF Pop

-----------------------------------------------------------------------------
\* Nothing a game saved is lost: once an item's last change has been sent, the
\* db will write it, answers from it, or has it in the table, whatever trades,
\* safeboxes, logouts, late answers and restarts happen; provided that no game
\* crashes, nobody flushes a cache by hand or logs another's account out, that
\* an entry is written before a logout is over, and that no second has more to
\* write than it may.  Without any one of these it is false.
THEOREM NothingIsLost ==
  ASSUME Calm, TimersOrdered
  PROVE  Spec /\ []NotOverloaded => []NothingLost
<1>1. Init => TypeOK /\ LinksAlive /\ Coherent
  BY InitTyped, InitCoherent DEF Init, LinksAlive
<1>2. TypeOK /\ LinksAlive /\ Coherent /\ NotOverloaded /\ [Next]_vars
        => TypeOK' /\ LinksAlive' /\ Coherent'
  BY StepTyped, StepLinked, StepCoherent
<1>3. TypeOK /\ Coherent => NothingLost
  BY CoherentKnows
<1> QED
  BY <1>1, <1>2, <1>3, PTL DEF Spec

\* Under the same conditions a player that enters gets exactly the items it has,
\* and one that opens the safebox what is in it, from the cache or from a select
\* that may have waited while others traded, stored and logged out.
THEOREM LoadsAreCurrent ==
  ASSUME Calm, TimersOrdered
  PROVE  Spec /\ []NotOverloaded => []LoadIsCurrent
<1>1. Init => TypeOK /\ LinksAlive /\ Coherent /\ LoadIsCurrent
  BY InitTyped, InitCoherent DEF Init, LinksAlive, LoadIsCurrent, NotSent
<1>2. TypeOK /\ LinksAlive /\ Coherent /\ LoadIsCurrent /\ NotOverloaded /\ [Next]_vars
        => TypeOK' /\ LinksAlive' /\ Coherent' /\ LoadIsCurrent'
  BY StepTyped, StepLinked, StepCoherent, StepCurrent
<1> QED
  BY <1>1, <1>2, PTL DEF Spec

\* Under the same conditions the rows a select found never replace a value in
\* the cache that still waits to be written.
THEOREM LoadsReplaceNothing ==
  ASSUME Calm, TimersOrdered
  PROVE  Spec /\ []NotOverloaded => LoadReplacesNothing
<1>1. Init => TypeOK /\ LinksAlive /\ Coherent
  BY InitTyped, InitCoherent DEF Init, LinksAlive
<1>2. TypeOK /\ LinksAlive /\ Coherent /\ NotOverloaded /\ [Next]_vars
        => TypeOK' /\ LinksAlive' /\ Coherent'
  BY StepTyped, StepLinked, StepCoherent
<1>3. TypeOK /\ LinksAlive /\ Coherent /\ [Next]_vars
        => [Len(res') < Len(res) =>
              \A i \in DOMAIN cache : cache[i].dirty => cache'[i].data = cache[i].data]_vars
  BY StepReplaces
<1> QED
  BY <1>1, <1>2, <1>3, PTL DEF Spec, LoadReplacesNothing
=============================================================================
