------------------------------- MODULE Thread -------------------------------
(***************************************************************************)
(* util::Thread of the map renderer. Its owner makes it and returns at     *)
(* once; the new thread makes a RunLoop, the object, opens the mailbox of  *)
(* the actor, says that it is running and runs the loop. Clients ask the   *)
(* object through an ActorRef, whose reference to the mailbox is weak. The *)
(* owner may pause the thread, and its destructor ends it. Mailbox is in   *)
(* the library: it keeps one "receive" on the loop while it holds messages.*)
(***************************************************************************)
EXTENDS RunLoop

CONSTANT Messages  \* the asks, each from a thread of its own

VARIABLES
  child,     \* what the thread has come to
  stopping,  \* RunLoop::stop was called while run() was running
  owner,     \* where the owner is in pause(), resume() or the destructor
  pausedSet, \* the promises between the owner and the loop
  resumedSet,  \* (of resumed, the one whose future the loop holds)
  stoppableSet,
  queue,     \* the messages of the mailbox
  handling,  \* the message the object handles, at most one
  more,      \* the mailbox was not empty when that one was taken
  client,    \* where the thread that asks m is in ActorRef::ask
  reply,     \* what the future of m holds
  posted     \* the works that were posted to the loop

childVars == <<child, stopping>>
promises == <<pausedSet, resumedSet, stoppableSet>>
ownerVars == <<owner, promises>>
mailboxVars == <<queue, handling, more>>
clientVars == <<client, reply>>
vars == <<loopVars, childVars, ownerVars, mailboxVars, clientVars, posted>>

Chores == {"receive", "pause", "noop"}
Tasks == Works \cup Chores

ASSUME TasksAssumption == Works \cap Chores = {} /\ NoTask \notin Tasks

Lives == {"spawned", "loop", "object", "open", "ready", "run",
          "returned", "closed", "destroyed", "exited"}

\* The destructors of the thread's locals leave them in the reverse order.
HasLoop == child \notin {"spawned", "exited"}
HasObject == child \notin {"spawned", "loop", "destroyed", "exited"}
IsRunning == child \notin {"spawned", "loop", "object", "open"}
HasScheduler == child \notin {"spawned", "loop", "object"}
IsClosed == child \in {"closed", "destroyed", "exited"}

Init ==
  /\ LoopInit
  /\ child = "spawned" /\ stopping = FALSE
  /\ owner = "using"
  /\ pausedSet = FALSE /\ resumedSet = FALSE /\ stoppableSet = FALSE
  /\ queue = <<>> /\ handling = {} /\ more = FALSE
  /\ client = [m \in Messages |-> "idle"]
  /\ reply = [m \in Messages |-> "none"]
  /\ posted = {}
-----------------------------------------------------------------------------
(* The thread *)

Becomes(from, to) ==
  /\ child = from
  /\ child' = to
  /\ UNCHANGED <<stopping, ownerVars, mailboxVars, clientVars, posted>>

MakeLoop == Becomes("spawned", "loop") /\ UNCHANGED loopVars
MakeObject == Becomes("loop", "object") /\ UNCHANGED loopVars

\* Mutant: what was sent to the aspiring actor is not scheduled.
OpenOnly == Becomes("object", "open") /\ UNCHANGED loopVars

\* Messages sent before the object was there are scheduled now.
OpenMailbox ==
  /\ Becomes("object", "open")
  /\ IF queue # <<>> THEN Push("receive") ELSE UNCHANGED <<highPriorityQueue, defaultQueue>>
  /\ UNCHANGED <<task, executing, canceled, selfCanceled>>

SayRunning == Becomes("open", "ready") /\ UNCHANGED loopVars
EnterRun == Becomes("ready", "run") /\ UNCHANGED loopVars

\* run() returns once it was stopped, between two tasks; the rest of its queues goes with the loop.
LeaveRun ==
  /\ stopping /\ task = NoTask
  /\ Becomes("run", "returned")
  /\ UNCHANGED loopVars

\* ~EstablishedActor closes the mailbox and then destroys the object.
CloseMailbox == Becomes("returned", "closed") /\ UNCHANGED loopVars
DestroyObject == Becomes("closed", "destroyed") /\ UNCHANGED loopVars

ExitThread ==
  /\ Becomes("destroyed", "exited")
  /\ highPriorityQueue' = <<>> /\ defaultQueue' = <<>>
  /\ UNCHANGED <<task, executing, canceled, selfCanceled>>

Begin(t) ==
  /\ child = "run"
  /\ task = t
  /\ Execute

TakeTask ==
  /\ child = "run" /\ Take
  /\ UNCHANGED <<childVars, ownerVars, mailboxVars, clientVars, posted>>

SkipTask ==
  /\ child = "run" /\ Skip
  /\ UNCHANGED <<childVars, ownerVars, mailboxVars, clientVars, posted>>

\* The posted works and the noop of the destructor.
BeginWork ==
  /\ \E w \in Works : Begin(w)
  /\ UNCHANGED <<childVars, ownerVars, mailboxVars, clientVars, posted>>

FinishWork ==
  /\ child = "run" /\ task \in Works /\ Finish
  /\ UNCHANGED <<childVars, ownerVars, mailboxVars, clientVars, posted>>

BeginNoop ==
  /\ Begin("noop")
  /\ stoppableSet' = TRUE
  /\ UNCHANGED <<childVars, owner, pausedSet, resumedSet, mailboxVars, clientVars, posted>>

FinishNoop ==
  /\ child = "run" /\ task = "noop" /\ Finish
  /\ UNCHANGED <<childVars, ownerVars, mailboxVars, clientVars, posted>>

\* Mutant: the task waits for resumed before it sets paused.
WaitFirst ==
  /\ Begin("pause")
  /\ resumedSet' = FALSE
  /\ UNCHANGED <<childVars, owner, pausedSet, stoppableSet, mailboxVars, clientVars, posted>>

\* The task of pause() takes the future of resumed, which is its own even if the
\* owner pauses again before the task has left.
BeginPause ==
  /\ Begin("pause")
  /\ pausedSet' = TRUE /\ resumedSet' = FALSE
  /\ UNCHANGED <<childVars, owner, stoppableSet, mailboxVars, clientVars, posted>>

\* The task of pause() ends when resumed is set.
FinishPause ==
  /\ child = "run" /\ task = "pause" /\ resumedSet /\ Finish
  /\ UNCHANGED <<childVars, ownerVars, mailboxVars, clientVars, posted>>

\* Mailbox::maybeReceive takes one message and runs it.
BeginReceive ==
  /\ Begin("receive")
  /\ queue # <<>>
  /\ handling' = {Head(queue)}
  /\ queue' = Tail(queue)
  /\ more' = (Tail(queue) # <<>>)
  /\ UNCHANGED <<childVars, ownerVars, clientVars, posted>>

FinishReceive ==
  /\ child = "run" /\ task = "receive"
  /\ executing
  /\ executing' = FALSE /\ task' = NoTask
  /\ reply' = [m \in Messages |-> IF m \in handling THEN "value" ELSE reply[m]]
  /\ handling' = {}
  /\ more' = FALSE
  /\ IF more THEN Push("receive") ELSE UNCHANGED <<highPriorityQueue, defaultQueue>>
  /\ UNCHANGED <<canceled, selfCanceled, childVars, ownerVars, queue, client, posted>>
-----------------------------------------------------------------------------
(* The owner *)

Goes(from, to) ==
  /\ owner = from
  /\ owner' = to
  /\ UNCHANGED <<childVars, mailboxVars, clientVars, posted>>

StartPause ==
  /\ Goes("using", "pause")
  /\ pausedSet' = FALSE
  /\ UNCHANGED <<loopVars, resumedSet, stoppableSet>>

\* Mutant: pause() does not wait for the loop to get to the task.
PostPauseOnly ==
  /\ IsRunning
  /\ Goes("pause", "paused")
  /\ PushHigh("pause")
  /\ UNCHANGED <<task, executing, canceled, selfCanceled, promises>>

\* pause() waits for running before it uses the loop.
PostPause ==
  /\ IsRunning
  /\ Goes("pause", "pausing")
  /\ PushHigh("pause")
  /\ UNCHANGED <<task, executing, canceled, selfCanceled, promises>>

Paused ==
  /\ pausedSet
  /\ Goes("pausing", "paused")
  /\ UNCHANGED <<loopVars, promises>>

Resume ==
  /\ Goes("paused", "using")
  /\ resumedSet' = TRUE
  /\ UNCHANGED <<loopVars, pausedSet, stoppableSet>>

\* ~Thread resumes a thread that is paused.
StartDestroy ==
  /\ \/ Goes("using", "destroy") /\ UNCHANGED resumedSet
     \/ Goes("paused", "destroy") /\ resumedSet' = TRUE
  /\ UNCHANGED <<loopVars, pausedSet, stoppableSet>>

\* Mutant: the destructor does not wait for running.
GoOn ==
  /\ Goes("destroy", "posting")
  /\ UNCHANGED <<loopVars, promises>>

AwaitRunning ==
  /\ IsRunning
  /\ Goes("destroy", "posting")
  /\ UNCHANGED <<loopVars, promises>>

\* Mutant: stop() is called without the noop.
NoNoop ==
  /\ Goes("posting", "stop")
  /\ UNCHANGED <<loopVars, promises>>

PostNoop ==
  /\ Goes("posting", "stoppable")
  /\ Push("noop")
  /\ UNCHANGED <<task, executing, canceled, selfCanceled, promises>>

Stoppable ==
  /\ stoppableSet
  /\ Goes("stoppable", "stop")
  /\ UNCHANGED <<loopVars, promises>>

\* stop() has an effect on a loop that is in run().
Stop ==
  /\ owner = "stop"
  /\ owner' = "join"
  /\ stopping' = (child = "run")
  /\ UNCHANGED <<loopVars, child, promises, mailboxVars, clientVars, posted>>

\* The last reference to the mailbox: its messages go, and their promises are broken.
FreeMailbox ==
  /\ queue' = <<>>
  /\ reply' = [m \in Messages |-> IF reply[m] = "pending" THEN "error" ELSE reply[m]]

Holds(m) == client[m] \in {"locked", "pushed"}

Join ==
  /\ owner = "join" /\ child = "exited"
  /\ owner' = "gone"
  /\ IF \E m \in Messages : Holds(m) THEN UNCHANGED <<queue, reply>> ELSE FreeMailbox
  /\ UNCHANGED <<loopVars, childVars, promises, handling, more, client, posted>>
-----------------------------------------------------------------------------
(* The clients, and the works *)

\* weakMailbox.lock()
Lock(m) ==
  /\ client[m] = "idle"
  /\ IF owner = "gone" /\ ~\E n \in Messages : Holds(n)
       THEN /\ client' = [client EXCEPT ![m] = "done"]
            /\ reply' = [reply EXCEPT ![m] = "error"]
       ELSE /\ client' = [client EXCEPT ![m] = "locked"]
            /\ UNCHANGED reply
  /\ UNCHANGED <<loopVars, childVars, ownerVars, mailboxVars, posted>>

\* Mutant: every message schedules the mailbox.
ScheduleEach(m) ==
  /\ client[m] = "locked"
  /\ client' = [client EXCEPT ![m] = "pushed"]
  /\ reply' = [reply EXCEPT ![m] = IF IsClosed THEN "error" ELSE "pending"]
  /\ queue' = IF IsClosed THEN queue ELSE Append(queue, m)
  /\ IF HasScheduler /\ ~IsClosed
       THEN Push("receive")
       ELSE UNCHANGED <<highPriorityQueue, defaultQueue>>
  /\ UNCHANGED <<task, executing, canceled, selfCanceled, childVars, ownerVars,
                 handling, more, posted>>

\* Mutant: a mailbox that was closed still takes messages.
PushAnyway(m) ==
  /\ client[m] = "locked"
  /\ client' = [client EXCEPT ![m] = "pushed"]
  /\ reply' = [reply EXCEPT ![m] = "pending"]
  /\ queue' = Append(queue, m)
  /\ IF HasScheduler /\ ~IsClosed /\ queue = <<>>
       THEN Push("receive")
       ELSE UNCHANGED <<highPriorityQueue, defaultQueue>>
  /\ UNCHANGED <<task, executing, canceled, selfCanceled, childVars, ownerVars,
                 handling, more, posted>>

\* Mailbox::push drops a message once it is closed, and schedules a mailbox that was empty.
PushMessage(m) ==
  /\ client[m] = "locked"
  /\ client' = [client EXCEPT ![m] = "pushed"]
  /\ reply' = [reply EXCEPT ![m] = IF IsClosed THEN "error" ELSE "pending"]
  /\ queue' = IF IsClosed THEN queue ELSE Append(queue, m)
  /\ IF HasScheduler /\ ~IsClosed /\ queue = <<>>
       THEN Push("receive")
       ELSE UNCHANGED <<highPriorityQueue, defaultQueue>>
  /\ UNCHANGED <<task, executing, canceled, selfCanceled, childVars, ownerVars,
                 handling, more, posted>>

Release(m) ==
  /\ client[m] = "pushed"
  /\ client' = [client EXCEPT ![m] = "done"]
  /\ IF owner = "gone" /\ \A n \in Messages \ {m} : ~Holds(n)
       THEN FreeMailbox
       ELSE UNCHANGED <<queue, reply>>
  /\ UNCHANGED <<loopVars, childVars, ownerVars, handling, more, posted>>

\* The object posts work to its own loop; whoever keeps the WorkRequest may cancel
\* it, the work included.
PostWork(w) ==
  /\ handling # {}
  /\ w \notin posted
  /\ posted' = posted \cup {w}
  /\ Push(w)
  /\ UNCHANGED <<task, executing, canceled, selfCanceled, childVars, ownerVars,
                 mailboxVars, clientVars>>

CancelWork(w) ==
  /\ w \in posted \ canceled
  /\ Cancel(w) \/ CancelItself(w)
  /\ UNCHANGED <<childVars, ownerVars, mailboxVars, clientVars, posted>>
-----------------------------------------------------------------------------
ThreadStep ==
  \/ MakeLoop \/ MakeObject \/ OpenMailbox \/ SayRunning \/ EnterRun
  \/ TakeTask \/ SkipTask \/ BeginWork \/ FinishWork \/ BeginNoop \/ FinishNoop
  \/ BeginPause \/ FinishPause \/ BeginReceive \/ FinishReceive
  \/ LeaveRun \/ CloseMailbox \/ DestroyObject \/ ExitThread

\* Steps the owner has begun a call for.
OwnerStep == PostPause \/ Paused \/ AwaitRunning \/ PostNoop \/ Stoppable \/ Stop \/ Join
OwnerCall == StartPause \/ Resume \/ StartDestroy
ClientStep(m) == PushMessage(m) \/ Release(m)

Next ==
  \/ ThreadStep \/ OwnerStep \/ OwnerCall
  \/ \E m \in Messages : Lock(m) \/ ClientStep(m)
  \/ \E w \in Works : PostWork(w) \/ CancelWork(w)

\* A thread that can run does; nobody has to pause, destroy, ask, post or cancel.
Spec ==
  /\ Init /\ [][Next]_vars
  /\ WF_vars(ThreadStep) /\ WF_vars(OwnerStep)
  /\ \A m \in Messages : WF_vars(ClientStep(m))
=============================================================================
