------------------------------ MODULE AsyncSQL ------------------------------
(***************************************************************************)
(* One connection of libsql with a thread of its own (CAsyncSQL).  The     *)
(* main thread queues statements and takes answers; ChildLoop waits on a   *)
(* semaphore, moves the queue into a copy that only it touches, and sends  *)
(* as many statements as it copied.  A statement that meets an error of    *)
(* the connection stays at the head of the copy and costs one turn of the  *)
(* loop; any other error finishes it like success.                         *)
(*                                                                         *)
(* Every action is the work between two uses of shared state: a section    *)
(* under m_mtxQuery or m_mtxResult, a wait, a test of m_bEnd.              *)
(***************************************************************************)
EXTENDS Naturals, Sequences

CONSTANTS
  MaxQueries,  \* bound on the statements of a run
  MaxFails     \* bound on the errors of the connection

ASSUME QueryAssumption == MaxQueries \in Nat
ASSUME FailAssumption == MaxFails \in Nat

VARIABLES
  msgCount,  \* m_iMsgCount
  query,     \* m_queue_query
  copy,      \* m_queue_query_copy
  result,    \* m_queue_result
  sem,       \* the count of m_sem
  bEnd,      \* m_bEnd
  pc,        \* where the thread is
  count,     \* ChildLoop's count: turns left
  finished,  \* the statements MySQL has finished, in that order
  fails      \* errors of the connection so far

mainVars == <<msgCount, bEnd>>
vars == <<msgCount, query, copy, result, sem, bEnd, pc, count, finished, fails>>

Msgs == [id : 1 .. MaxQueries, bReturn : BOOLEAN]
Places == {"connect", "loop", "wait", "copy", "run", "drain", "done"}

Init ==
  /\ msgCount = 0 /\ query = <<>> /\ copy = <<>> /\ result = <<>>
  /\ sem = 0 /\ bEnd = FALSE /\ pc = "connect" /\ count = 0
  /\ finished = <<>> /\ fails = 0

-----------------------------------------------------------------------------
(* The main thread.                                                        *)

\* Operators named X_Y are X with one change, a bug that X does not have; no
\* other definition uses them.

\* AsyncQuery and ReturnQuery.
PushQuery(ret) ==
  /\ ~bEnd /\ msgCount < MaxQueries
  /\ msgCount' = msgCount + 1
  /\ query' = Append(query, [id |-> msgCount + 1, bReturn |-> ret])
  /\ sem' = sem + 1
  /\ UNCHANGED <<copy, result, bEnd, pc, count, finished, fails>>

PopResult ==
  /\ ~bEnd /\ result # <<>>
  /\ result' = Tail(result)
  /\ UNCHANGED <<msgCount, query, copy, sem, bEnd, pc, count, finished, fails>>

\* The main thread then waits for the thread to end, and uses nothing more.
Quit ==
  /\ ~bEnd
  /\ bEnd' = TRUE
  /\ sem' = sem + 1
  /\ UNCHANGED <<msgCount, query, copy, result, pc, count, finished, fails>>

-----------------------------------------------------------------------------
(* The thread.                                                             *)

Connect ==
  /\ pc = "connect"
  /\ pc' = "loop"
  /\ UNCHANGED <<mainVars, query, copy, result, sem, count, finished, fails>>

\* The thread ends at once; nobody looks at it before Quit.
ConnectFails ==
  /\ pc = "connect" /\ fails < MaxFails
  /\ fails' = fails + 1
  /\ pc' = "done"
  /\ UNCHANGED <<mainVars, query, copy, result, sem, count, finished>>

\* while (!m_bEnd)
Loop_SkipDrain ==
  /\ pc = "loop"
  /\ pc' = IF bEnd THEN "done" ELSE "wait"
  /\ UNCHANGED <<mainVars, query, copy, result, sem, count, finished, fails>>

Loop ==
  /\ pc = "loop"
  /\ pc' = IF bEnd THEN "drain" ELSE "wait"
  /\ UNCHANGED <<mainVars, query, copy, result, sem, count, finished, fails>>

Wait_NotBlocking ==
  /\ pc = "wait"
  /\ sem' = sem - 1
  /\ pc' = "copy"
  /\ UNCHANGED <<mainVars, query, copy, result, count, finished, fails>>

Wait ==
  /\ pc = "wait" /\ sem > 0
  /\ sem' = sem - 1
  /\ pc' = "copy"
  /\ UNCHANGED <<mainVars, query, copy, result, count, finished, fails>>

CopyQuery ==
  /\ pc = "copy" /\ query # <<>>
  /\ copy' = copy \o query
  /\ query' = <<>>
  /\ count' = Len(copy) + Len(query)
  /\ pc' = "run"
  /\ UNCHANGED <<mainVars, result, sem, finished, fails>>

\* It looks at m_queue_query only: what is left in the copy stays there.
CopyNothing ==
  /\ pc = "copy" /\ query = <<>>
  /\ pc' = "loop"
  /\ UNCHANGED <<mainVars, query, copy, result, sem, count, finished, fails>>

\* Store and PushResult, or delete.
Answered(queue, msg) == IF msg.bReturn THEN Append(queue, msg) ELSE queue

\* copy is never empty here (StrandedByFailure says count <= Len(copy)).
Run_NoPop ==
  /\ pc = "run" /\ count > 0
  /\ count' = count - 1
  /\ finished' = Append(finished, Head(copy))
  /\ result' = Answered(result, Head(copy))
  /\ UNCHANGED <<mainVars, query, copy, sem, pc, fails>>

Run ==
  /\ pc = "run" /\ count > 0
  /\ count' = count - 1
  /\ copy' = Tail(copy)
  /\ finished' = Append(finished, Head(copy))
  /\ result' = Answered(result, Head(copy))
  /\ UNCHANGED <<mainVars, query, sem, pc, fails>>

\* "AsyncSQL: retrying"
Retry ==
  /\ pc = "run" /\ count > 0 /\ fails < MaxFails
  /\ count' = count - 1
  /\ sem' = sem + 1
  /\ fails' = fails + 1
  /\ UNCHANGED <<mainVars, query, copy, result, pc, finished>>

RunOver_Early ==
  /\ pc = "run" /\ count <= 1
  /\ pc' = "loop"
  /\ UNCHANGED <<mainVars, query, copy, result, sem, count, finished, fails>>

RunOver ==
  /\ pc = "run" /\ count = 0
  /\ pc' = "loop"
  /\ UNCHANGED <<mainVars, query, copy, result, sem, count, finished, fails>>

\* After the loop: the queue, without the copy.
Drain ==
  /\ pc = "drain" /\ query # <<>>
  /\ query' = Tail(query)
  /\ finished' = Append(finished, Head(query))
  /\ result' = Answered(result, Head(query))
  /\ UNCHANGED <<mainVars, copy, sem, pc, count, fails>>

\* Here a failed statement really is sent again.
DrainRetry ==
  /\ pc = "drain" /\ query # <<>> /\ fails < MaxFails
  /\ fails' = fails + 1
  /\ UNCHANGED <<mainVars, query, copy, result, sem, pc, count, finished>>

DrainOver ==
  /\ pc = "drain" /\ query = <<>>
  /\ pc' = "done"
  /\ UNCHANGED <<mainVars, query, copy, result, sem, count, finished, fails>>

-----------------------------------------------------------------------------
ChildLoop ==
  \/ Connect \/ ConnectFails \/ Loop \/ Wait
  \/ CopyQuery \/ CopyNothing \/ Run \/ Retry \/ RunOver
  \/ Drain \/ DrainRetry \/ DrainOver

Main ==
  \/ \E ret \in BOOLEAN : PushQuery(ret)
  \/ PopResult
  \/ Quit

Next == Main \/ ChildLoop

Spec == Init /\ [][Next]_vars

\* The operating system runs the thread; errors of the connection stop.
FairSpec == Spec /\ WF_vars(ChildLoop)

-----------------------------------------------------------------------------
(* Properties.                                                             *)

\* The queues hold statements and answers, the counters are numbers.
TypeOK ==
  /\ msgCount \in 0 .. MaxQueries
  /\ query \in Seq(Msgs) /\ copy \in Seq(Msgs)
  /\ result \in Seq(Msgs) /\ finished \in Seq(Msgs)
  /\ sem \in Nat /\ count \in Nat /\ fails \in 0 .. MaxFails
  /\ bEnd \in BOOLEAN /\ pc \in Places

\* The thread never sleeps on m_sem while statements wait in m_queue_query or
\* Quit has been called, although CopyQuery takes many statements at a wait
\* and the counts it leaves behind wake it for nothing.
NoLostWakeup == pc = "wait" /\ (query # <<>> \/ bEnd) => sem > 0

\* ChildLoop never looks into an empty copy, and every error of the
\* connection strands at most one statement there: without errors the copy is
\* empty whenever the thread is not working through it.
StrandedByFailure ==
  /\ pc = "run" => count <= Len(copy) /\ Len(copy) - count <= fails
  /\ pc # "run" => Len(copy) <= fails

\* The statements that will still be sent, and while the loop runs those that
\* errors stranded in the copy.
Pending == IF pc \in {"drain", "done"} THEN query ELSE copy \o query

Queue == INSTANCE StatementQueue
  WITH submitted <- msgCount, pending <- Pending, answers <- result,
       failed <- fails > 0, closed <- bEnd

\* Through the copy, the errors and the end of the thread, statements are
\* finished in the order they were queued, each at most once, answers come
\* back in that order, and only errors followed by Quit leave statements out.
Implements == Queue!Spec

\* Without errors every statement is finished, before or after Quit.
AllFinished ==
  \A n \in 1 .. MaxQueries :
    msgCount >= n ~> fails > 0 \/ \E i \in DOMAIN finished : finished[i].id = n
=============================================================================
