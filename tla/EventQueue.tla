----------------------------- MODULE EventQueue -----------------------------
(***************************************************************************)
(* The queue of timed events of a game (event.cpp, CEventQueue).           *)
(*                                                                         *)
(* An event is queued through an element, a piece of memory that is freed  *)
(* when the event runs; event->q_el goes on pointing at it.  Functions of  *)
(* events, and everything else between two heartbeats, create, cancel and  *)
(* reset events through the handles they hold.  Keys are kept relative to  *)
(* the pulse, so that time has no bound.                                   *)
(***************************************************************************)
EXTENDS Integers, Sequences

CONSTANTS
  Events,    \* the EVENT objects
  Cells,     \* the memory of queue elements
  NoEvent, NoCell,
  MaxWhen    \* bound on the delays that are asked for

Delays == 0 .. MaxWhen

ASSUME DelayAssumption == MaxWhen \in Nat \ {0}
ASSUME NoneAssumption  == NoEvent \notin Events /\ NoCell \notin Cells

VARIABLES
  queue,       \* CEventQueue::m_pq_queue, the next to run first
  elem,        \* what a cell holds: pvData, iKey - pulse, bCancel
  qel,         \* EVENT::q_el
  processing,  \* the events with is_processing
  forced,      \* the events with is_force_to_end
  handle,      \* the events whose owner still has its LPEVENT
  running,     \* the event whose function is on the stack
  inPulse,     \* event_process is at work
  cancelled,   \* events that were cancelled before they ended
  struck       \* events that a write through a stale q_el cancelled

ghosts == <<cancelled, struck>>
vars == <<queue, elem, qel, processing, forced, handle, running, inPulse, ghosts>>

-----------------------------------------------------------------------------
Blank == [ev |-> NoEvent, left |-> 0, cancel |-> FALSE]

Queued(c) == \E i \in DOMAIN queue : queue[i] = c
Live(c)   == Queued(c) /\ ~elem[c].cancel

\* An EVENT is freed with its last reference: a handle, an element, the stack.
InUse(e) == e \in handle \/ e = running \/ \E c \in Cells : Queued(c) /\ elem[c].ev = e

\* stable_priority_queue::push: behind the elements that are due no later.
Place_AtEnd(w) == Len(queue) + 1
Place(w) == CHOOSE k \in 1 .. Len(queue) + 1 :
              \A i \in DOMAIN queue : i < k <=> elem[queue[i]].left <= w

Inserted(c, k) ==
  [i \in 1 .. Len(queue) + 1 |->
     IF i < k THEN queue[i] ELSE IF i = k THEN c ELSE queue[i - 1]]

\* The bCancel of a cell is set, whatever it holds by now.
Marked(c) ==
  IF Queued(c) THEN [elem EXCEPT ![c] = [@ EXCEPT !.cancel = TRUE]] ELSE elem

\* The events, other than e, whose element a write through e's q_el cancels.
Victims(e) == {f \in Events \ {e} : qel[e] # NoCell /\ Live(qel[e]) /\ elem[qel[e]].ev = f}

\* event_create_ex asks for a pulse at least.
Delay_AsAsked(w) == w
Delay(w) == IF w < 1 THEN 1 ELSE w

TypeOK ==
  /\ queue \in Seq(Cells)
  /\ elem \in [Cells -> [ev : Events \cup {NoEvent}, left : Delays, cancel : BOOLEAN]]
  /\ qel \in [Events -> Cells \cup {NoCell}]
  /\ processing \in SUBSET Events
  /\ forced \in SUBSET Events
  /\ handle \in SUBSET Events
  /\ running \in Events \cup {NoEvent}
  /\ inPulse \in BOOLEAN
  /\ cancelled \in SUBSET Events
  /\ struck \in SUBSET Events

Init ==
  /\ queue = <<>>
  /\ elem = [c \in Cells |-> Blank]
  /\ qel = [e \in Events |-> NoCell]
  /\ processing = {}
  /\ forced = {}
  /\ handle = {}
  /\ running = NoEvent
  /\ inPulse = FALSE
  /\ cancelled = {}
  /\ struck = {}

-----------------------------------------------------------------------------
(* What event functions and the rest of the game call.                     *)

\* The game runs one thread: within a pulse only the running function calls.
MayCall == inPulse => running # NoEvent

event_create(e, w) ==
  /\ MayCall
  /\ ~InUse(e)
  /\ \E c \in Cells :
       /\ ~Queued(c)
       /\ queue' = Inserted(c, Place(Delay(w)))
       /\ elem' = [elem EXCEPT ![c] = [ev |-> e, left |-> Delay(w), cancel |-> FALSE]]
       /\ qel' = [qel EXCEPT ![e] = c]
  /\ processing' = processing \ {e}
  /\ forced' = forced \ {e}
  /\ handle' = handle \cup {e}
  /\ cancelled' = cancelled \ {e}
  /\ struck' = struck \ {e}
  /\ UNCHANGED <<running, inPulse>>

\* An owner sets its handle to NULL without cancelling, or kept none.
Forget(e) ==
  /\ MayCall
  /\ e \in handle
  /\ handle' = handle \ {e}
  /\ UNCHANGED <<queue, elem, qel, processing, forced, running, inPulse, ghosts>>

\* event_cancel.  While the event runs, q_el is the freed element: if that memory
\* has become the element of another event, the other event is cancelled.
event_cancel(e) ==
  /\ MayCall
  /\ e \in handle
  /\ handle' = handle \ {e}
  /\ forced' = IF e \in processing THEN forced \cup {e} ELSE forced
  /\ elem' = Marked(qel[e])
  /\ cancelled' = IF qel[e] # NoCell THEN cancelled \cup {e} ELSE cancelled
  /\ struck' = struck \cup Victims(e)
  /\ UNCHANGED <<queue, qel, processing, running, inPulse>>

\* event_reset_time: the old element is cancelled and a new one queued; its
\* callers ask for a pulse or more.  Nothing happens to a running event.
Renewed_KeepsOld(e, c, w) ==
  [elem EXCEPT ![c] = [ev |-> e, left |-> w, cancel |-> FALSE]]
Renewed(e, c, w) ==
  [Marked(qel[e]) EXCEPT ![c] = [ev |-> e, left |-> w, cancel |-> FALSE]]

event_reset_time(e, w) ==
  /\ MayCall
  /\ e \in handle \ processing
  /\ w > 0
  /\ \E c \in Cells :
       /\ ~Queued(c)
       /\ queue' = Inserted(c, Place(w))
       /\ elem' = Renewed(e, c, w)
       /\ qel' = [qel EXCEPT ![e] = c]
  /\ struck' = (struck \ {e}) \cup Victims(e)
  /\ UNCHANGED <<processing, forced, handle, running, inPulse, cancelled>>

-----------------------------------------------------------------------------
(* event_process, once per pulse.                                          *)

Pulse_TimeStands ==
  /\ ~inPulse
  /\ inPulse' = TRUE
  /\ UNCHANGED <<queue, elem, qel, processing, forced, handle, running, ghosts>>
Pulse ==
  /\ ~inPulse
  /\ inPulse' = TRUE
  /\ elem' = [c \in Cells |->
                IF Queued(c) THEN [elem[c] EXCEPT !.left = @ - 1] ELSE elem[c]]
  /\ UNCHANGED <<queue, qel, processing, forced, handle, running, ghosts>>

HeadDue == queue # <<>> /\ elem[queue[1]].left <= 0

Dequeue ==
  /\ queue' = Tail(queue)
  /\ elem' = [elem EXCEPT ![queue[1]] = Blank]

\* A cancelled element is deleted; the event keeps its pointer to it.
SkipCancelled ==
  /\ inPulse /\ running = NoEvent
  /\ HeadDue
  /\ elem[queue[1]].cancel
  /\ Dequeue
  /\ UNCHANGED <<qel, processing, forced, handle, running, inPulse, ghosts>>

\* The element is deleted and the function called.
Run ==
  /\ inPulse /\ running = NoEvent
  /\ HeadDue
  /\ ~elem[queue[1]].cancel
  /\ Dequeue
  /\ running' = elem[queue[1]].ev
  /\ processing' = processing \cup {elem[queue[1]].ev}
  /\ UNCHANGED <<qel, forced, handle, inPulse, ghosts>>

\* The function returns the delay of its next run, or 0.  An event that ends
\* stays is_processing.
Ends_NotForced(e, w) == w <= 0
Ends(e, w) == w <= 0 \/ e \in forced

Return(w) ==
  /\ running # NoEvent
  /\ running' = NoEvent
  /\ IF Ends(running, w)
     THEN /\ qel' = [qel EXCEPT ![running] = NoCell]
          /\ UNCHANGED <<queue, elem, processing>>
     ELSE /\ \E c \in Cells :
               /\ ~Queued(c)
               /\ queue' = Inserted(c, Place(w))
               /\ elem' = [elem EXCEPT ![c] = [ev |-> running, left |-> w, cancel |-> FALSE]]
               /\ qel' = [qel EXCEPT ![running] = c]
          /\ processing' = processing \ {running}
  /\ UNCHANGED <<forced, handle, inPulse, ghosts>>

EndPulse ==
  /\ inPulse /\ running = NoEvent
  /\ ~HeadDue
  /\ inPulse' = FALSE
  /\ UNCHANGED <<queue, elem, qel, processing, forced, handle, running, ghosts>>

event_process == SkipCancelled \/ Run \/ EndPulse
Returns == \E w \in Delays : Return(w)

Next ==
  \/ \E e \in Events :
       \/ \E w \in Delays : event_create(e, w) \/ event_reset_time(e, w)
       \/ Forget(e) \/ event_cancel(e)
  \/ Pulse \/ event_process \/ Returns

\* The main loop goes on from heartbeat to heartbeat, and functions return.
Fairness == WF_vars(Pulse) /\ WF_vars(event_process) /\ WF_vars(Returns)

Spec == Init /\ [][Next]_vars
FairSpec == Spec /\ Fairness

-----------------------------------------------------------------------------
(* Properties.                                                             *)

\* No event is late, and none waits that is due once the pulse is over: the queue
\* stays in the order of the keys whoever adds to it, from inside a function or
\* from outside.
OnTime ==
  /\ \A i, j \in DOMAIN queue : i < j => elem[queue[i]].left <= elem[queue[j]].left
  /\ \A c \in Cells : Queued(c) =>
       /\ elem[c].left >= 0
       /\ ~inPulse => elem[c].left >= 1

\* A handle leads to an event that will run: one that runs now or has ended, or
\* whose q_el is its element, queued and not cancelled, unless the event was the
\* victim of a write through a stale q_el.  No event is queued twice.
HandlesAlive ==
  /\ \A e \in handle \ (processing \cup struck) :
       qel[e] # NoCell /\ Live(qel[e]) /\ elem[qel[e]].ev = e
  /\ \A c, d \in Cells : Live(c) /\ Live(d) /\ elem[c].ev = elem[d].ev => c = d

\* An event that was cancelled before it ended does not run again, also when it
\* was cancelled by its own function and that function asks for another run.
CancelledNeverRuns ==
  [][\A e \in Events : running' = e /\ running # e => e \notin cancelled]_vars

\* An event that is created runs, unless it is cancelled, reset for ever, or hit
\* by a stale write.
EventRuns ==
  \A e \in Events :
    \/ []<><<\E w \in Delays : event_reset_time(e, w)>>_vars
    \/ e \in handle \ processing ~> running = e \/ e \in cancelled \cup struck
=============================================================================
