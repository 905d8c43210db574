--------------------------- MODULE AsyncSQL_proofs ---------------------------
(* Proofs about AsyncSQL, for any number of statements and of errors: types,  *)
(* no lost wakeup, what errors strand, and that the connection implements     *)
(* StatementQueue.                                                            *)
EXTENDS AsyncSQL, TLAPS, SequenceTheorems

\* The thread's moves between its places.
Moves ==
  Connect \/ ConnectFails \/ Loop \/ CopyNothing \/ RunOver \/ DrainRetry \/ DrainOver

\* Next, by what the actions do to the queues.
LEMMA NextCases ==
  Next <=> \/ \E ret \in BOOLEAN : PushQuery(ret)
           \/ PopResult \/ Quit \/ Wait \/ CopyQuery \/ Run \/ Retry \/ Drain
           \/ Moves
BY DEF Next, Main, ChildLoop, Moves

-----------------------------------------------------------------------------
(* Types.                                                                     *)

\* An answer is queued behind the others, or not at all.
LEMMA AnsweredType ==
  ASSUME NEW q \in Seq(Msgs), NEW m \in Msgs
  PROVE  Answered(q, m) \in Seq(Msgs)
BY DEF Answered

LEMMA TypeInit == Init => TypeOK
<1> SUFFICES ASSUME Init PROVE TypeOK
  OBVIOUS
<1>1. query \in Seq(Msgs) /\ copy \in Seq(Msgs) /\ result \in Seq(Msgs) /\ finished \in Seq(Msgs)
  BY DEF Init
<1>2. msgCount \in 0 .. MaxQueries /\ fails \in 0 .. MaxFails
  BY QueryAssumption, FailAssumption DEF Init
<1>3. sem \in Nat /\ count \in Nat /\ bEnd \in BOOLEAN /\ pc \in Places
  BY DEF Init, Places
<1> QED
  BY <1>1, <1>2, <1>3 DEF TypeOK

\* A step of Next keeps the types.  Run needs the copy not to be empty.
LEMMA TypeStep ==
  ASSUME TypeOK, StrandedByFailure, [Next]_vars
  PROVE  TypeOK'
<1> USE QueryAssumption, FailAssumption DEF TypeOK, Places, mainVars
<1>1. ASSUME NEW ret \in BOOLEAN, PushQuery(ret) PROVE TypeOK'
  <2> DEFINE m == [id |-> msgCount + 1, bReturn |-> ret]
  <2>1. m \in Msgs
    BY <1>1 DEF PushQuery, Msgs
  <2>2. query' = Append(query, m)
    BY <1>1 DEF PushQuery
  <2> HIDE DEF m
  <2>3. query' \in Seq(Msgs)
    BY <2>1, <2>2
  <2> QED
    BY <1>1, <2>3 DEF PushQuery
<1>2. CASE PopResult
  BY <1>2 DEF PopResult
<1>3. CASE Quit
  BY <1>3 DEF Quit
<1>4. CASE Wait
  BY <1>4 DEF Wait
<1>5. CASE CopyQuery
  BY <1>5 DEF CopyQuery
<1>6. CASE Run
  <2>1. copy # <<>>
    BY <1>6 DEF Run, StrandedByFailure
  <2>2. Head(copy) \in Msgs /\ Tail(copy) \in Seq(Msgs)
    BY <2>1
  <2>3. Answered(result, Head(copy)) \in Seq(Msgs)
    BY <2>2, AnsweredType
  <2> QED
    BY <1>6, <2>2, <2>3 DEF Run
<1>7. CASE Retry
  BY <1>7 DEF Retry
<1>8. CASE Drain
  <2>1. Head(query) \in Msgs /\ Tail(query) \in Seq(Msgs)
    BY <1>8 DEF Drain
  <2>2. Answered(result, Head(query)) \in Seq(Msgs)
    BY <2>1, AnsweredType
  <2> QED
    BY <1>8, <2>1, <2>2 DEF Drain, mainVars
<1>9. CASE Moves
  BY <1>9 DEF Moves, Connect, ConnectFails, Loop, CopyNothing, RunOver, DrainRetry,
              DrainOver, mainVars
<1>10. CASE UNCHANGED vars
  BY <1>10 DEF vars
<1> QED
  BY <1>1, <1>2, <1>3, <1>4, <1>5, <1>6, <1>7, <1>8, <1>9, <1>10, NextCases

-----------------------------------------------------------------------------
(* What errors strand.                                                        *)

LEMMA StrandedInit == Init => StrandedByFailure
BY DEF Init, StrandedByFailure

\* Turns and statements of the copy go down together, except at an error.
LEMMA StrandedStep ==
  ASSUME TypeOK, StrandedByFailure, [Next]_vars
  PROVE  StrandedByFailure'
<1> USE DEF TypeOK, StrandedByFailure
<1>1. ASSUME NEW ret \in BOOLEAN, PushQuery(ret) PROVE StrandedByFailure'
  BY <1>1 DEF PushQuery
<1>2. CASE PopResult \/ Quit \/ Wait
  BY <1>2 DEF PopResult, Quit, Wait, mainVars
<1>3. CASE CopyQuery
  <2>1. Len(copy') = Len(copy) + Len(query)
    BY <1>3 DEF CopyQuery
  <2> QED
    BY <1>3, <2>1 DEF CopyQuery, mainVars
<1>4. CASE Run
  <2>1. copy # <<>>
    BY <1>4 DEF Run
  <2>2. Len(copy') = Len(copy) - 1
    BY <1>4, <2>1 DEF Run
  <2> QED
    BY <1>4, <2>2 DEF Run
<1>5. CASE Retry
  BY <1>5 DEF Retry
<1>6. CASE Drain
  BY <1>6 DEF Drain
<1>7. CASE Moves
  BY <1>7 DEF Moves, Connect, ConnectFails, Loop, CopyNothing, RunOver, DrainRetry, DrainOver
<1>8. CASE UNCHANGED vars
  BY <1>8 DEF vars
<1> QED
  BY <1>1, <1>2, <1>3, <1>4, <1>5, <1>6, <1>7, <1>8, NextCases

\* Queues and counters keep their types, whatever fails and whenever the
\* program quits: ChildLoop takes no statement from an empty queue.
THEOREM TypeCorrect == Spec => []TypeOK
<1>1. Init => TypeOK /\ StrandedByFailure
  BY TypeInit, StrandedInit
<1>2. TypeOK /\ StrandedByFailure /\ [Next]_vars => (TypeOK /\ StrandedByFailure)'
  BY TypeStep, StrandedStep
<1> QED
  BY <1>1, <1>2, PTL DEF Spec

\* Every error of the connection strands at most one statement in the copy of
\* ChildLoop, for any number of statements and errors.
THEOREM ErrorsStrandOneEach == Spec => []StrandedByFailure
<1>1. Init => TypeOK /\ StrandedByFailure
  BY TypeInit, StrandedInit
<1>2. TypeOK /\ StrandedByFailure /\ [Next]_vars => (TypeOK /\ StrandedByFailure)'
  BY TypeStep, StrandedStep
<1> QED
  BY <1>1, <1>2, PTL DEF Spec

-----------------------------------------------------------------------------
(* Wakeups.                                                                   *)

\* Statements in the queue have a count in m_sem except while the thread,
\* having taken it, is about to copy them.
Awake ==
  /\ pc \notin {"copy", "drain", "done"} /\ query # <<>> => sem > 0
  /\ pc = "wait" /\ bEnd => sem > 0

LEMMA AwakeStep ==
  ASSUME TypeOK, Awake, [Next]_vars
  PROVE  Awake'
<1> USE DEF TypeOK, Awake
<1>1. ASSUME NEW ret \in BOOLEAN, PushQuery(ret) PROVE Awake'
  BY <1>1 DEF PushQuery
<1>2. CASE PopResult \/ Quit \/ Wait
  BY <1>2 DEF PopResult, Quit, Wait, mainVars
<1>3. CASE CopyQuery \/ Run \/ Retry \/ Drain
  BY <1>3 DEF CopyQuery, Run, Retry, Drain, mainVars
<1>4. CASE Moves
  BY <1>4 DEF Moves, Connect, ConnectFails, Loop, CopyNothing, RunOver, DrainRetry,
              DrainOver, mainVars
<1>5. CASE UNCHANGED vars
  BY <1>5 DEF vars
<1> QED
  BY <1>1, <1>2, <1>3, <1>4, <1>5, NextCases

\* The thread never sleeps while there is something to do: one wait may stand
\* for many PushQuery calls, and still none of them is missed.
THEOREM NeverSleepsOnWork == Spec => []NoLostWakeup
<1>1. Init => Awake
  BY DEF Init, Awake
<1>2. TypeOK /\ Awake /\ [Next]_vars => Awake'
  BY AwakeStep
<1>3. Awake => NoLostWakeup
  BY DEF Awake, NoLostWakeup
<1> QED
  BY <1>1, <1>2, <1>3, TypeCorrect, PTL DEF Spec

-----------------------------------------------------------------------------
(* AsyncSQL implements StatementQueue.                                        *)

\* Adding behind, taking from the front, and cutting off the front of a
\* sequence made of two.
LEMMA TwoQueues ==
  ASSUME NEW s \in Seq(Msgs), NEW t \in Seq(Msgs)
  PROVE  /\ s \o t \in Seq(Msgs)
         /\ \A m \in Msgs : s \o Append(t, m) = Append(s \o t, m)
         /\ s # <<>> => /\ s \o t # <<>>
                        /\ Head(s \o t) = Head(s)
                        /\ Tail(s \o t) = Tail(s) \o t
         /\ Len(s) \in 0 .. Len(s \o t)
         /\ t = SubSeq(s \o t, Len(s) + 1, Len(s \o t))
<1>1. s \o t \in Seq(Msgs) /\ Len(s \o t) = Len(s) + Len(t)
  BY ConcatProperties
<1>2. ASSUME NEW m \in Msgs PROVE s \o Append(t, m) = Append(s \o t, m)
  <2>1. s \o Append(t, m) = s \o (t \o <<m>>)
    BY AppendIsConcat
  <2>2. Append(s \o t, m) = (s \o t) \o <<m>>
    BY <1>1, AppendIsConcat
  <2> QED
    BY <2>1, <2>2, ConcatAssociative
<1>3. ASSUME s # <<>>
      PROVE  s \o t # <<>> /\ Head(s \o t) = Head(s) /\ Tail(s \o t) = Tail(s) \o t
  <2>1. Len(s) \in Nat /\ Len(s) > 0 /\ Len(t) \in Nat
    BY <1>3, EmptySeq, LenProperties
  <2>2. s \o t # <<>>
    BY <1>3, ConcatEqualIffEmpty
  <2>3. Head(s \o t) = Head(s)
    BY <1>1, <2>1, <2>2
  <2>4. /\ Tail(s) \in Seq(Msgs) /\ Len(Tail(s)) = Len(s) - 1
        /\ \A i \in 1 .. Len(Tail(s)) : Tail(s)[i] = s[i + 1]
    BY <1>3, HeadTailProperties
  <2>5. /\ Tail(s \o t) \in Seq(Msgs) /\ Len(Tail(s \o t)) = Len(s) + Len(t) - 1
        /\ \A i \in 1 .. Len(Tail(s \o t)) : Tail(s \o t)[i] = (s \o t)[i + 1]
    BY <1>1, <2>2, HeadTailProperties
  <2>6. /\ Tail(s) \o t \in Seq(Msgs)
        /\ Len(Tail(s) \o t) = Len(s) - 1 + Len(t)
        /\ \A i \in 1 .. Len(s) - 1 + Len(t) :
             (Tail(s) \o t)[i] = IF i <= Len(s) - 1 THEN Tail(s)[i] ELSE t[i - (Len(s) - 1)]
    BY <2>4, ConcatProperties
  <2>7. ASSUME NEW i \in 1 .. Len(s) + Len(t) - 1
        PROVE  Tail(s \o t)[i] = (Tail(s) \o t)[i]
    <3>1. (s \o t)[i + 1] = IF i + 1 <= Len(s) THEN s[i + 1] ELSE t[i + 1 - Len(s)]
      BY <2>1, ConcatProperties
    <3> QED
      BY <2>1, <2>4, <2>5, <2>6, <3>1
  <2>8. Tail(s \o t) = Tail(s) \o t
    BY <2>1, <2>5, <2>6, <2>7, SeqEqual
  <2> QED
    BY <2>2, <2>3, <2>8
<1>4. Len(s) \in 0 .. Len(s \o t)
  BY <1>1, LenProperties
<1>5. t = SubSeq(s \o t, Len(s) + 1, Len(s \o t))
  <2> DEFINE u == SubSeq(s \o t, Len(s) + 1, Len(s) + Len(t))
  <2>1. Len(s) \in Nat /\ Len(t) \in Nat
    BY LenProperties
  <2>2. \A i \in Len(s) + 1 .. Len(s) + Len(t) : (s \o t)[i] = t[i - Len(s)] /\ (s \o t)[i] \in Msgs
    BY <1>1, <2>1, ConcatProperties, ElementOfSeq
  <2>3. /\ u \in Seq(Msgs)
        /\ Len(u) = Len(t)
        /\ \A i \in 1 .. Len(t) : u[i] = (s \o t)[Len(s) + i]
    BY <2>1, <2>2, SubSeqProperties
  <2>4. \A i \in 1 .. Len(t) : u[i] = t[i]
    BY <2>1, <2>2, <2>3
  <2> HIDE DEF u
  <2>5. u = t
    BY <2>3, <2>4, SeqEqual
  <2> QED
    BY <1>1, <2>5 DEF u
<1> QED
  BY <1>1, <1>2, <1>3, <1>4, <1>5

\* What the mapping keeps while the queues and the thread's stage stay.
LEMMA SameStage ==
  ASSUME UNCHANGED <<query, copy>>,
         pc \in {"drain", "done"} <=> pc' \in {"drain", "done"}
  PROVE  Pending' = Pending
BY DEF Pending

LEMMA QueueInit == Init => Queue!Init
<1> SUFFICES ASSUME Init PROVE Queue!Init
  OBVIOUS
<1>1. Pending = <<>> \o <<>>
  BY DEF Init, Pending
<1>2. Pending = <<>>
  BY <1>1, EmptySeq, ConcatEmptySeq
<1> QED
  BY <1>2 DEF Init, Queue!Init

\* The copy is empty until the thread is connected.
Unconnected == pc = "connect" => copy = <<>>

LEMMA UnconnectedStep ==
  ASSUME Unconnected, [Next]_vars
  PROVE  Unconnected'
BY DEF Unconnected, vars, mainVars, Next, Main, ChildLoop, PushQuery, PopResult, Quit, Connect,
       ConnectFails, Loop, Wait, CopyQuery, CopyNothing, Run, Retry, RunOver, Drain,
       DrainRetry, DrainOver

\* A step that changes nothing StatementQueue sees.
LEMMA Stutter ==
  ASSUME Pending' = Pending, UNCHANGED <<msgCount, result, bEnd, finished, fails>>
  PROVE  UNCHANGED Queue!vars
BY DEF Queue!vars

\* Every step of the connection is a step of StatementQueue or none.
LEMMA QueueStep ==
  ASSUME TypeOK, StrandedByFailure, Unconnected, [Next]_vars
  PROVE  [Queue!Next]_(Queue!vars)
<1>1. ASSUME NEW ret \in BOOLEAN, PushQuery(ret) PROVE Queue!Submit(ret)
  <2> DEFINE m == [id |-> msgCount + 1, bReturn |-> ret]
  <2>1. m \in Msgs
    BY <1>1, QueryAssumption DEF PushQuery, TypeOK, Msgs
  <2>2. query' = Append(query, m) /\ UNCHANGED <<copy, pc>>
    BY <1>1 DEF PushQuery
  <2> HIDE DEF m
  <2>3. copy \o Append(query, m) = Append(copy \o query, m)
    BY <2>1, TwoQueues DEF TypeOK
  <2>4. Pending' = Append(Pending, m)
    BY <2>2, <2>3 DEF Pending
  <2> USE DEF m
  <2> QED
    BY <1>1, <2>4 DEF PushQuery, Queue!Submit
<1>2. CASE PopResult
  <2>1. Pending' = Pending
    BY <1>2, SameStage DEF PopResult
  <2>2. Queue!Take
    BY <1>2, <2>1 DEF PopResult, Queue!Take
  <2> QED
    BY <2>2 DEF Queue!Next
<1>3. CASE Quit
  <2>1. Pending' = Pending
    BY <1>3, SameStage DEF Quit
  <2>2. Queue!Close
    BY <1>3, <2>1 DEF Quit, Queue!Close
  <2> QED
    BY <2>2 DEF Queue!Next
<1>4. CASE Wait
  <2>1. Pending' = Pending
    BY <1>4, SameStage DEF Wait
  <2> QED
    BY <1>4, <2>1, Stutter DEF Wait, mainVars
<1>5. CASE CopyQuery
  <2>1. Pending' = (copy \o query) \o <<>>
    BY <1>5 DEF CopyQuery, Pending
  <2>2. Pending' = Pending
    BY <1>5, <2>1, TwoQueues, ConcatEmptySeq DEF CopyQuery, Pending, TypeOK
  <2> QED
    BY <1>5, <2>2, Stutter DEF CopyQuery, mainVars
<1>6. CASE Run
  <2>1. copy # <<>>
    BY <1>6 DEF Run, StrandedByFailure, TypeOK
  <2>2. /\ copy \o query # <<>>
        /\ Head(copy \o query) = Head(copy)
        /\ Tail(copy \o query) = Tail(copy) \o query
    BY <2>1, TwoQueues DEF TypeOK
  <2>3. Pending = copy \o query /\ Pending' = Tail(copy) \o query
    BY <1>6 DEF Run, Pending
  <2>4. Queue!Answered(result, Head(copy)) = Answered(result, Head(copy))
    BY DEF Answered, Queue!Answered
  <2>5. Queue!Finish
    BY <1>6, <2>2, <2>3, <2>4 DEF Run, mainVars, Queue!Finish
  <2> QED
    BY <2>5 DEF Queue!Next
<1>7. CASE Retry
  <2>1. Pending' = Pending
    BY <1>7, SameStage DEF Retry
  <2>2. fails' > 0
    BY <1>7 DEF Retry, TypeOK
  <2>3. Queue!Fail
    BY <1>7, <2>1, <2>2 DEF Retry, mainVars, Queue!Fail
  <2> QED
    BY <2>3 DEF Queue!Next
<1>8. CASE Drain
  <2>1. Pending = query /\ Pending' = Tail(query)
    BY <1>8 DEF Drain, Pending
  <2>2. Queue!Answered(result, Head(query)) = Answered(result, Head(query))
    BY DEF Answered, Queue!Answered
  <2>3. Queue!Finish
    BY <1>8, <2>1, <2>2 DEF Drain, mainVars, Queue!Finish
  <2> QED
    BY <2>3 DEF Queue!Next
<1>9. CASE Loop
  <2>1. CASE ~bEnd
    BY <1>9, <2>1, SameStage, Stutter DEF Loop, mainVars
  <2>2. CASE bEnd /\ copy = <<>>
    <3>1. copy \o query = query
      BY <2>2, ConcatEmptySeq DEF TypeOK
    <3>2. Pending' = Pending
      BY <1>9, <2>2, <3>1 DEF Loop, Pending
    <3> QED
      BY <1>9, <3>2, Stutter DEF Loop, mainVars
  <2>3. CASE bEnd /\ copy # <<>>
    <3>1. fails > 0
      BY <1>9, <2>3 DEF Loop, StrandedByFailure, TypeOK
    <3>2. Pending = copy \o query /\ Pending' = query
      BY <1>9, <2>3 DEF Loop, Pending
    <3>3. Len(copy) \in 0 .. Len(Pending) /\ Pending' = SubSeq(Pending, Len(copy) + 1, Len(Pending))
      BY <3>2, TwoQueues DEF TypeOK
    <3>4. Queue!LeaveOut
      BY <1>9, <2>3, <3>1, <3>3 DEF Loop, mainVars, Queue!LeaveOut
    <3> QED
      BY <3>4 DEF Queue!Next
  <2> QED
    BY <2>1, <2>2, <2>3 DEF TypeOK
<1>10. CASE ConnectFails
  <2>1. copy \o query = query
    BY <1>10, ConcatEmptySeq DEF ConnectFails, Unconnected, TypeOK
  <2>2. Pending' = Pending
    BY <1>10, <2>1 DEF ConnectFails, Pending
  <2>3. fails' > 0
    BY <1>10 DEF ConnectFails, TypeOK
  <2>4. Queue!Fail
    BY <1>10, <2>2, <2>3 DEF ConnectFails, mainVars, Queue!Fail
  <2> QED
    BY <2>4 DEF Queue!Next
<1>11. CASE DrainRetry
  <2>1. Pending' = Pending
    BY <1>11, SameStage DEF DrainRetry
  <2>2. fails' > 0
    BY <1>11 DEF DrainRetry, TypeOK
  <2>3. Queue!Fail
    BY <1>11, <2>1, <2>2 DEF DrainRetry, mainVars, Queue!Fail
  <2> QED
    BY <2>3 DEF Queue!Next
<1>12. CASE Connect \/ CopyNothing \/ RunOver \/ DrainOver
  <2>1. Pending' = Pending
    BY <1>12, SameStage DEF Connect, CopyNothing, RunOver, DrainOver
  <2> QED
    BY <1>12, <2>1, Stutter DEF Connect, CopyNothing, RunOver, DrainOver, mainVars
<1>13. CASE UNCHANGED vars
  BY <1>13, SameStage, Stutter DEF vars
<1>14. ASSUME NEW ret \in BOOLEAN, PushQuery(ret) PROVE Queue!Next
  BY <1>1, <1>14 DEF Queue!Next
<1> QED
  BY <1>2, <1>3, <1>4, <1>5, <1>6, <1>7, <1>8, <1>9, <1>10, <1>11, <1>12, <1>13, <1>14,
     NextCases DEF Moves

\* The connection implements the promise of StatementQueue for any number of
\* statements and errors: statements are finished in order, at most once, the
\* answers come back in that order, and only an error followed by Quit leaves
\* statements out.
THEOREM QueueImplemented == Spec => Implements
<1>1. Init => Queue!Init /\ Unconnected
  BY QueueInit DEF Init, Unconnected
<1>2. TypeOK /\ StrandedByFailure /\ Unconnected /\ [Next]_vars => [Queue!Next]_(Queue!vars)
  BY QueueStep
<1>3. Unconnected /\ [Next]_vars => Unconnected'
  BY UnconnectedStep
<1> QED
  BY <1>1, <1>2, <1>3, TypeCorrect, ErrorsStrandOneEach, PTL DEF Spec, Implements, Queue!Spec
=============================================================================
