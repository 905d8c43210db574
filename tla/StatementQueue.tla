--------------------------- MODULE StatementQueue ---------------------------
(***************************************************************************)
(* What a CAsyncSQL object promises the program that uses it: statements   *)
(* are finished one at a time in the order they were queued, each once,    *)
(* and the answers come back in the same order.  When the program quits    *)
(* after the connection had failed, some of the oldest unfinished          *)
(* statements may be left out.                                             *)
(***************************************************************************)
EXTENDS Naturals, Sequences

CONSTANTS MaxQueries   \* bound on the statements of a run

VARIABLES
  submitted,  \* statements queued so far; they are numbered from 1
  pending,    \* queued and neither finished nor left out
  finished,   \* the statements MySQL has finished, in that order
  answers,    \* answers that wait for the program
  failed,     \* has the connection failed?
  closed      \* has the program quit?

vars == <<submitted, pending, finished, answers, failed, closed>>

Msgs == [id : 1 .. MaxQueries, bReturn : BOOLEAN]

\* Answers that a finished statement adds.
Answered(queue, msg) == IF msg.bReturn THEN Append(queue, msg) ELSE queue

Init ==
  /\ submitted = 0 /\ pending = <<>> /\ finished = <<>> /\ answers = <<>>
  /\ failed = FALSE /\ closed = FALSE

Submit(ret) ==
  /\ ~closed
  /\ submitted < MaxQueries
  /\ submitted' = submitted + 1
  /\ pending' = Append(pending, [id |-> submitted + 1, bReturn |-> ret])
  /\ UNCHANGED <<finished, answers, failed, closed>>

Finish ==
  /\ pending # <<>>
  /\ pending' = Tail(pending)
  /\ finished' = Append(finished, Head(pending))
  /\ answers' = Answered(answers, Head(pending))
  /\ UNCHANGED <<submitted, failed, closed>>

Take ==
  /\ ~closed
  /\ answers # <<>>
  /\ answers' = Tail(answers)
  /\ UNCHANGED <<submitted, pending, finished, failed, closed>>

Fail ==
  /\ failed' = TRUE
  /\ UNCHANGED <<submitted, pending, finished, answers, closed>>

Close ==
  /\ ~closed
  /\ closed' = TRUE
  /\ UNCHANGED <<submitted, pending, finished, answers, failed>>

LeaveOut ==
  /\ closed /\ failed
  /\ \E k \in 0 .. Len(pending) : pending' = SubSeq(pending, k + 1, Len(pending))
  /\ UNCHANGED <<submitted, finished, answers, failed, closed>>

Next ==
  \/ \E ret \in BOOLEAN : Submit(ret)
  \/ Finish \/ Take \/ Fail \/ Close \/ LeaveOut

Spec == Init /\ [][Next]_vars
=============================================================================
