------------------------------ MODULE RunLoop ------------------------------
(***************************************************************************)
(* The run loop of a thread of the map renderer: two queues of work tasks  *)
(* behind one mutex, filled by any thread and emptied by the thread that   *)
(* is in run(). A task that was posted with invokeCancellable has a mutex  *)
(* of its own, which its function runs under and cancel() waits for,       *)
(* unless it is the function itself that calls it: the mutex is recursive. *)
(***************************************************************************)
EXTENDS Naturals, Sequences

CONSTANTS
  Works,   \* the functions posted with invokeCancellable
  NoTask   \* process() has no task in its hand

VARIABLES
  highPriorityQueue,
  defaultQueue,
  task,      \* the task process() took from a queue
  executing, \* task holds its mutex and its function runs
  canceled,  \* the works whose flag is set
  selfCanceled  \* a history variable: those of them that set it as they ran

loopVars == <<highPriorityQueue, defaultQueue, task, executing, canceled,
              selfCanceled>>

LoopInit ==
  /\ highPriorityQueue = <<>>
  /\ defaultQueue = <<>>
  /\ task = NoTask
  /\ executing = FALSE
  /\ canceled = {}
  /\ selfCanceled = {}

\* invoke: the mutex of the loop makes a push one step, and wakes the loop.
Push(t) ==
  /\ defaultQueue' = Append(defaultQueue, t)
  /\ UNCHANGED highPriorityQueue

PushHigh(t) ==
  /\ highPriorityQueue' = Append(highPriorityQueue, t)
  /\ UNCHANGED defaultQueue

\* process() takes a task under the mutex and runs it without.
Take ==
  /\ task = NoTask
  /\ IF highPriorityQueue # <<>>
       THEN /\ task' = Head(highPriorityQueue)
            /\ highPriorityQueue' = Tail(highPriorityQueue)
            /\ UNCHANGED defaultQueue
       ELSE /\ defaultQueue # <<>>
            /\ task' = Head(defaultQueue)
            /\ defaultQueue' = Tail(defaultQueue)
            /\ UNCHANGED highPriorityQueue
  /\ UNCHANGED <<executing, canceled, selfCanceled>>

\* operator() locks the mutex of the task and looks at the flag.
Execute ==
  /\ task # NoTask
  /\ ~executing
  /\ task \notin canceled
  /\ executing' = TRUE
  /\ UNCHANGED <<highPriorityQueue, defaultQueue, task, canceled, selfCanceled>>

Skip ==
  /\ task \in canceled
  /\ ~executing
  /\ task' = NoTask
  /\ UNCHANGED <<highPriorityQueue, defaultQueue, executing, canceled, selfCanceled>>

\* The function returned: the mutex is free, the task is gone.
Finish ==
  /\ executing
  /\ executing' = FALSE
  /\ task' = NoTask
  /\ UNCHANGED <<highPriorityQueue, defaultQueue, canceled, selfCanceled>>

\* Mutant: cancel() sets the flag without the mutex.
CancelAtOnce(w) ==
  /\ canceled' = canceled \cup {w}
  /\ UNCHANGED <<highPriorityQueue, defaultQueue, task, executing, selfCanceled>>

\* cancel() waits for the mutex of the task, which its function may hold.
Cancel(w) ==
  /\ ~(executing /\ task = w)
  /\ canceled' = canceled \cup {w}
  /\ UNCHANGED <<highPriorityQueue, defaultQueue, task, executing, selfCanceled>>

\* The function of the work calls cancel(): its thread has the mutex already, so
\* the call returns at once and the function goes on to its end.
CancelItself(w) ==
  /\ executing /\ task = w
  /\ canceled' = canceled \cup {w}
  /\ selfCanceled' = selfCanceled \cup {w}
  /\ UNCHANGED <<highPriorityQueue, defaultQueue, task, executing>>
=============================================================================
