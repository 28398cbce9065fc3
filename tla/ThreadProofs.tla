---------------------------- MODULE ThreadProofs ----------------------------
(***************************************************************************)
(* Thread keeps the invariants of ThreadProps and implements Actor, for    *)
(* any number of asks and of posted works.                                 *)
(***************************************************************************)
EXTENDS ThreadProps, SequenceTheorems, TLAPS

\* What waits in the queues of the loop and in the mailbox.
Scheduled == {defaultQueue[i] : i \in DOMAIN defaultQueue}
Queued == {queue[i] : i \in DOMAIN queue}
Distinct == \A i, j \in DOMAIN defaultQueue : defaultQueue[i] = defaultQueue[j] => i = j

\* The loop runs tasks while the thread is in run(), and each of them was put
\* there by who may: a chore of the destructor comes after its beginning.
LoopInv ==
  /\ executing => task # NoTask
  /\ task # NoTask => child = "run"
  /\ "pause" \notin Scheduled
  /\ Works \cap (Scheduled \cup {task}) \subseteq posted
  /\ "noop" \in Scheduled \cup {task} => owner \in {"stoppable", "stop", "join", "gone"}

\* The owner goes on after the thread said it is running, and the thread
\* leaves run() after the owner called stop().
LifeInv ==
  /\ child \in {"returned", "closed", "destroyed", "exited"} => stopping
  /\ stopping => owner \in {"join", "gone"}
  /\ owner \in {"pausing", "paused", "posting", "stoppable", "stop", "join", "gone"} => IsRunning
  /\ owner = "gone" => child = "exited"
  /\ child = "exited" => defaultQueue = <<>>

\* The loop has one "receive" for a mailbox with messages, which is waiting,
\* in the hand of the loop, or to be pushed when the message it handles is done.
MailInv ==
  /\ handling # {} <=> executing /\ task = "receive"
  /\ handling = {} \/ \E m \in Messages : handling = {m}
  /\ more => handling # {} /\ queue # <<>> /\ "receive" \notin Scheduled
  /\ "receive" \in Scheduled => queue # <<>> /\ HasScheduler
  /\ task = "receive" /\ ~executing => queue # <<>> /\ "receive" \notin Scheduled
  /\ \A m \in Messages : reply[m] = "pending" => m \in Queued \cup handling
  /\ \A m \in Messages : client[m] \in {"idle", "locked"} => reply[m] = "none" /\ m \notin Queued \cup handling

\* The owner's pause is in the queue, in the hand of the loop or executing,
\* and it cannot end before the owner resumes the thread.
PauseInv ==
  /\ highPriorityQueue \in {<<>>, <<"pause">>}
  /\ highPriorityQueue # <<>> => owner = "pausing" /\ ~pausedSet
  /\ task = "pause" /\ ~executing => owner = "pausing" /\ ~pausedSet /\ highPriorityQueue = <<>>
  /\ owner = "pause" => ~pausedSet
  /\ owner = "paused" \/ (owner = "pausing" /\ pausedSet)
       => executing /\ task = "pause" /\ ~resumedSet

IInv == TypeOK /\ LoopInv /\ LifeInv /\ MailInv /\ PauseInv /\ CanceledNeverRuns
-----------------------------------------------------------------------------
\* The queues.

\* A task that is pushed is scheduled, behind what is.
LEMMA PushFacts ==
  ASSUME TypeOK, NEW t \in Tasks, Push(t)
  PROVE  /\ defaultQueue' \in Seq(Tasks)
         /\ Scheduled' = Scheduled \cup {t}
         /\ t \notin Scheduled => Distinct'
         /\ highPriorityQueue' = highPriorityQueue
<1>1. defaultQueue \in Seq(Tasks) /\ Distinct
  BY DEF TypeOK, Distinct
<1>2. /\ defaultQueue' = Append(defaultQueue, t)
      /\ highPriorityQueue' = highPriorityQueue
  BY DEF Push
<1>3. /\ defaultQueue' \in Seq(Tasks)
      /\ Len(defaultQueue) \in Nat
      /\ DOMAIN defaultQueue = 1..Len(defaultQueue)
      /\ DOMAIN defaultQueue' = 1..(Len(defaultQueue) + 1)
      /\ \A i \in 1..Len(defaultQueue) : defaultQueue'[i] = defaultQueue[i]
      /\ defaultQueue'[Len(defaultQueue) + 1] = t
  BY <1>1, <1>2, AppendProperties
<1>4. Scheduled' = Scheduled \cup {t}
  BY <1>3 DEF Scheduled
<1>5. ASSUME t \notin Scheduled
      PROVE  Distinct'
  BY <1>1, <1>3, <1>5 DEF Distinct, Scheduled
<1> QED
  BY <1>2, <1>3, <1>4, <1>5

\* The task that process() takes: the pause that waits, if one does, or else
\* the first of the others, which is then scheduled no more.
LEMMA TakeFacts ==
  ASSUME TypeOK, PauseInv, Take
  PROVE  /\ task' \in Tasks
         /\ highPriorityQueue' = <<>>
         /\ defaultQueue' \in Seq(Tasks) /\ Distinct'
         /\ \/ /\ highPriorityQueue = <<"pause">> /\ task' = "pause"
               /\ Scheduled' = Scheduled
            \/ /\ highPriorityQueue = <<>> /\ task' \in Scheduled
               /\ Scheduled' = Scheduled \ {task'}
<1>1. defaultQueue \in Seq(Tasks) /\ Distinct
  BY DEF TypeOK, Distinct
<1>2. CASE highPriorityQueue = <<"pause">>
  <2>1. task' = "pause" /\ highPriorityQueue' = <<>> /\ defaultQueue' = defaultQueue
    BY <1>2 DEF Take
  <2>2. Scheduled' = Scheduled /\ Distinct'
    BY <1>1, <2>1 DEF Scheduled, Distinct
  <2> QED
    BY <1>1, <1>2, <2>1, <2>2 DEF Tasks, Chores
<1>3. CASE highPriorityQueue = <<>>
  <2>1. /\ defaultQueue # <<>>
        /\ task' = Head(defaultQueue) /\ defaultQueue' = Tail(defaultQueue)
        /\ highPriorityQueue' = <<>>
    BY <1>3 DEF Take
  <2>2. /\ Len(defaultQueue) \in Nat \ {0}
        /\ DOMAIN defaultQueue = 1..Len(defaultQueue)
        /\ task' = defaultQueue[1]
        /\ defaultQueue' \in Seq(Tasks)
        /\ DOMAIN defaultQueue' = 1..(Len(defaultQueue) - 1)
        /\ \A i \in 1..(Len(defaultQueue) - 1) : defaultQueue'[i] = defaultQueue[i + 1]
    BY <1>1, <2>1, HeadTailProperties
  <2>3. task' \in Tasks /\ task' \in Scheduled
    BY <1>1, <2>2 DEF Scheduled
  <2>4. Distinct'
    <3>1. SUFFICES ASSUME NEW i \in 1..(Len(defaultQueue) - 1), NEW j \in 1..(Len(defaultQueue) - 1),
                          defaultQueue'[i] = defaultQueue'[j]
                   PROVE  i = j
      BY <2>2 DEF Distinct
    <3>2. i + 1 \in DOMAIN defaultQueue /\ j + 1 \in DOMAIN defaultQueue
      BY <2>2
    <3>3. defaultQueue[i + 1] = defaultQueue[j + 1]
      BY <2>2, <3>1
    <3>4. i + 1 = j + 1
      BY <1>1, <3>2, <3>3 DEF Distinct
    <3> QED
      BY <3>4
  <2>5. Scheduled' = Scheduled \ {task'}
    <3>1. Scheduled' \subseteq Scheduled \ {task'}
      BY <1>1, <2>2 DEF Scheduled, Distinct
    <3>2. ASSUME NEW i \in 1..Len(defaultQueue), defaultQueue[i] # task'
          PROVE  defaultQueue[i] \in Scheduled'
      <4>1. i - 1 \in 1..(Len(defaultQueue) - 1) /\ (i - 1) + 1 = i
        BY <2>2, <3>2
      <4> QED
        BY <2>2, <4>1 DEF Scheduled
    <3>3. Scheduled \ {task'} \subseteq Scheduled'
      <4> SUFFICES ASSUME NEW u \in Scheduled, u # task' PROVE u \in Scheduled'
        OBVIOUS
      <4>1. PICK i \in 1..Len(defaultQueue) : u = defaultQueue[i]
        BY <2>2 DEF Scheduled
      <4> QED
        BY <3>2, <4>1
    <3> QED
      BY <3>1, <3>3
  <2> QED
    BY <1>3, <2>1, <2>2, <2>3, <2>4, <2>5
<1> QED
  BY <1>2, <1>3 DEF PauseInv

\* A message that is appended to the mailbox.
LEMMA AppendFacts ==
  ASSUME TypeOK, NEW m \in Messages
  PROVE  /\ Append(queue, m) \in Seq(Messages) /\ Append(queue, m) # <<>>
         /\ {Append(queue, m)[i] : i \in DOMAIN Append(queue, m)} = Queued \cup {m}
<1>1. queue \in Seq(Messages)
  BY DEF TypeOK
<1>2. /\ Append(queue, m) \in Seq(Messages)
      /\ Len(queue) \in Nat /\ DOMAIN queue = 1..Len(queue)
      /\ DOMAIN Append(queue, m) = 1..(Len(queue) + 1)
      /\ \A i \in 1..Len(queue) : Append(queue, m)[i] = queue[i]
      /\ Append(queue, m)[Len(queue) + 1] = m
  BY <1>1, AppendProperties
<1> QED
  BY <1>2 DEF Queued

\* The message that is taken out of the mailbox.
LEMMA ReceiveFacts ==
  ASSUME TypeOK, queue # <<>>
  PROVE  /\ Head(queue) \in Messages /\ Tail(queue) \in Seq(Messages)
         /\ Queued = {Tail(queue)[i] : i \in DOMAIN Tail(queue)} \cup {Head(queue)}
<1>1. queue \in Seq(Messages)
  BY DEF TypeOK
<1>2. /\ Len(queue) \in Nat \ {0} /\ DOMAIN queue = 1..Len(queue)
      /\ Head(queue) = queue[1] /\ Head(queue) \in Messages
      /\ Tail(queue) \in Seq(Messages)
      /\ DOMAIN Tail(queue) = 1..(Len(queue) - 1)
      /\ \A i \in 1..(Len(queue) - 1) : Tail(queue)[i] = queue[i + 1]
  BY <1>1, HeadTailProperties
<1>3. ASSUME NEW i \in 1..Len(queue), queue[i] # Head(queue)
      PROVE  queue[i] \in {Tail(queue)[j] : j \in DOMAIN Tail(queue)}
  <2>1. i - 1 \in DOMAIN Tail(queue) /\ Tail(queue)[i - 1] = queue[i]
    BY <1>2, <1>3
  <2> QED
    BY <2>1
<1> QED
  BY <1>2, <1>3 DEF Queued
-----------------------------------------------------------------------------
\* Steps.

\* The invariant holds at first.
LEMMA InitOK ==
  ASSUME Init PROVE IInv
<1>1. TypeOK
  <2>1. /\ <<>> \in Seq(Tasks) /\ <<>> \in Seq(Messages)
        /\ DOMAIN defaultQueue = {}
    BY DEF Init, LoopInit
  <2>2. /\ client \in [Messages -> {"idle", "locked", "pushed", "done"}]
        /\ reply \in [Messages -> {"none", "pending", "value", "error"}]
    BY DEF Init
  <2>3. /\ highPriorityQueue \in Seq(Tasks) /\ defaultQueue \in Seq(Tasks)
        /\ queue \in Seq(Messages)
        /\ \A i, j \in DOMAIN defaultQueue : defaultQueue[i] = defaultQueue[j] => i = j
    BY <2>1 DEF Init, LoopInit
  <2>4. /\ task \in Tasks \cup {NoTask} /\ executing \in BOOLEAN
        /\ canceled \subseteq posted /\ posted \subseteq Works /\ selfCanceled \subseteq canceled
    BY DEF Init, LoopInit
  <2>5. /\ child \in Lives /\ stopping \in BOOLEAN /\ owner = "using"
        /\ pausedSet \in BOOLEAN /\ resumedSet \in BOOLEAN /\ stoppableSet \in BOOLEAN
        /\ handling \subseteq Messages /\ more \in BOOLEAN
    BY DEF Init, Lives
  <2> QED
    BY <2>2, <2>3, <2>4, <2>5 DEF TypeOK
<1>2. Scheduled = {} /\ Queued = {}
  BY DEF Init, LoopInit, Scheduled, Queued
<1>3. LoopInv
  BY <1>2, TasksAssumption DEF Init, LoopInit, LoopInv, Tasks, Chores
<1>4. LifeInv /\ PauseInv
  BY TasksAssumption DEF Init, LoopInit, LifeInv, PauseInv, Tasks, Chores
<1>5. MailInv
  BY <1>2, TasksAssumption DEF Init, LoopInit, MailInv, Tasks, Chores
<1>6. CanceledNeverRuns
  BY DEF Init, LoopInit, CanceledNeverRuns
<1> QED
  BY <1>1, <1>3, <1>4, <1>5, <1>6 DEF IInv

\* An opened mailbox that holds messages is scheduled, for the first time.
LEMMA OpenMailboxFacts ==
  ASSUME IInv, OpenMailbox
  PROVE  /\ defaultQueue' \in Seq(Tasks) /\ Distinct'
         /\ highPriorityQueue' = highPriorityQueue
         /\ \/ queue # <<>> /\ Scheduled' = Scheduled \cup {"receive"}
            \/ queue = <<>> /\ Scheduled' = Scheduled
<1>1. "receive" \notin Scheduled /\ "receive" \in Tasks
  BY DEF IInv, MailInv, HasScheduler, OpenMailbox, Becomes, Tasks, Chores
<1>2. CASE queue # <<>>
  BY <1>1, <1>2, PushFacts DEF OpenMailbox, IInv
<1>3. CASE queue = <<>>
  BY <1>3 DEF OpenMailbox, IInv, TypeOK, Distinct, Scheduled
<1> QED
  BY <1>2, <1>3

\* A mailbox that held more is scheduled again, and was not before.
LEMMA FinishReceiveFacts ==
  ASSUME IInv, FinishReceive
  PROVE  /\ defaultQueue' \in Seq(Tasks) /\ Distinct'
         /\ highPriorityQueue' = highPriorityQueue
         /\ \/ more /\ Scheduled' = Scheduled \cup {"receive"}
            \/ ~more /\ Scheduled' = Scheduled
<1>1. "receive" \in Tasks /\ (more => "receive" \notin Scheduled) /\ more \in BOOLEAN
  BY DEF IInv, TypeOK, MailInv, Tasks, Chores
<1>2. CASE more
  BY <1>1, <1>2, PushFacts DEF FinishReceive, IInv
<1>3. CASE ~more
  BY <1>3 DEF FinishReceive, IInv, TypeOK, Distinct, Scheduled
<1> QED
  BY <1>1, <1>2, <1>3

\* A message goes behind the others, and schedules a mailbox that was empty.
LEMMA PushMessageFacts ==
  ASSUME IInv, NEW m \in Messages, PushMessage(m)
  PROVE  /\ defaultQueue' \in Seq(Tasks) /\ Distinct'
         /\ highPriorityQueue' = highPriorityQueue
         /\ \/ HasScheduler /\ ~IsClosed /\ queue = <<>> /\ Scheduled' = Scheduled \cup {"receive"}
            \/ /\ ~(HasScheduler /\ ~IsClosed /\ queue = <<>>)
               /\ Scheduled' = Scheduled /\ defaultQueue' = defaultQueue
         /\ \/ IsClosed /\ queue' = queue /\ Queued' = Queued
            \/ /\ ~IsClosed /\ queue' # <<>> /\ queue' \in Seq(Messages)
               /\ queue' = Append(queue, m) /\ Queued' = Queued \cup {m}
<1>1. "receive" \in Tasks
  BY DEF Tasks, Chores
<1>2. ASSUME HasScheduler, ~IsClosed, queue = <<>>
      PROVE  /\ defaultQueue' \in Seq(Tasks) /\ Distinct'
             /\ highPriorityQueue' = highPriorityQueue
             /\ Scheduled' = Scheduled \cup {"receive"}
  <2>1. "receive" \notin Scheduled
    BY <1>2 DEF IInv, MailInv
  <2> QED
    BY <1>1, <1>2, <2>1, PushFacts DEF PushMessage, IInv
<1>3. ASSUME ~(HasScheduler /\ ~IsClosed /\ queue = <<>>)
      PROVE  /\ defaultQueue' \in Seq(Tasks) /\ Distinct'
             /\ highPriorityQueue' = highPriorityQueue
             /\ Scheduled' = Scheduled /\ defaultQueue' = defaultQueue
  <2>1. UNCHANGED <<highPriorityQueue, defaultQueue>>
    BY <1>3 DEF PushMessage
  <2> QED
    BY <2>1 DEF IInv, TypeOK, Distinct, Scheduled
<1>4. ASSUME IsClosed
      PROVE  queue' = queue /\ Queued' = Queued
  BY <1>4 DEF PushMessage, Queued
<1>5. ASSUME ~IsClosed
      PROVE  /\ queue' # <<>> /\ queue' \in Seq(Messages)
             /\ queue' = Append(queue, m) /\ Queued' = Queued \cup {m}
  <2>1. queue' = Append(queue, m)
    BY <1>5 DEF PushMessage
  <2> QED
    BY <2>1, AppendFacts DEF IInv, Queued
<1>6. \/ IsClosed /\ queue' = queue /\ Queued' = Queued
      \/ /\ ~IsClosed /\ queue' # <<>> /\ queue' \in Seq(Messages)
         /\ queue' = Append(queue, m) /\ Queued' = Queued \cup {m}
  BY <1>4, <1>5
<1> QED
  BY <1>2, <1>3, <1>6

\* The destructor posts one noop.
LEMMA PostNoopFacts ==
  ASSUME IInv, PostNoop
  PROVE  /\ defaultQueue' \in Seq(Tasks) /\ Distinct'
         /\ highPriorityQueue' = highPriorityQueue
         /\ Scheduled' = Scheduled \cup {"noop"}
<1>1. "noop" \notin Scheduled /\ "noop" \in Tasks
  BY DEF IInv, LoopInv, PostNoop, Goes, Tasks, Chores
<1> QED
  BY <1>1, PushFacts DEF PostNoop, IInv

\* A work is posted once.
LEMMA PostWorkFacts ==
  ASSUME IInv, NEW w \in Works, PostWork(w)
  PROVE  /\ defaultQueue' \in Seq(Tasks) /\ Distinct'
         /\ highPriorityQueue' = highPriorityQueue
         /\ Scheduled' = Scheduled \cup {w}
<1>1. w \notin Scheduled /\ w \in Tasks
  BY DEF IInv, LoopInv, PostWork, Tasks
<1> QED
  BY <1>1, PushFacts DEF PostWork, IInv

\* A step that leaves the queues alone.
\* What waits in a queue depends on the queue only.
LEMMA SameQueues ==
  /\ UNCHANGED defaultQueue => Scheduled' = Scheduled
  /\ UNCHANGED queue => Queued' = Queued
BY DEF Scheduled, Queued
-----------------------------------------------------------------------------
\* One lemma for each part of the invariant, and a step for each action.

\* LoopInv: only PostWork and PostNoop add a task that LoopInv limits, and the
\* loop has one in its hand in run() only.
LEMMA LoopInvStep ==
  ASSUME IInv, [Next]_vars
  PROVE  LoopInv'
<1> USE DEF LoopInv
<1>1. LoopInv /\ TypeOK
  BY DEF IInv
<1>2. UNCHANGED defaultQueue => Scheduled' = Scheduled
  BY SameQueues
<1>3. CASE MakeLoop \/ MakeObject \/ SayRunning \/ EnterRun \/ LeaveRun \/ CloseMailbox \/ DestroyObject
  BY <1>1, <1>2, <1>3 DEF MakeLoop, MakeObject, SayRunning, EnterRun, LeaveRun, CloseMailbox,
     DestroyObject, Becomes, loopVars, ownerVars
<1>4. CASE OpenMailbox
  <2>1. /\ child = "object" /\ UNCHANGED <<task, executing, owner, posted>>
    BY <1>4 DEF OpenMailbox, Becomes, ownerVars
  <2>2. Scheduled' \subseteq Scheduled \cup {"receive"}
    BY <1>4, OpenMailboxFacts
  <2>3. "receive" \notin Works
    BY TasksAssumption DEF Chores
  <2> QED
    BY <1>1, <2>1, <2>2, <2>3
<1>5. CASE ExitThread
  <2>1. Scheduled' = {}
    BY <1>5 DEF ExitThread, Scheduled
  <2> QED
    BY <1>1, <1>5, <2>1 DEF ExitThread, Becomes, ownerVars
<1>6. CASE TakeTask
  <2>1. /\ child = "run" /\ Take /\ UNCHANGED <<child, owner, posted, executing>>
    BY <1>6 DEF TakeTask, Take, childVars, ownerVars
  <2>2. ~executing /\ ~executing'
    BY <1>1, <2>1 DEF Take, TypeOK
  <2>3. /\ Scheduled' \subseteq Scheduled
        /\ task' \in Scheduled \/ task' = "pause"
    BY <2>1, TakeFacts DEF IInv
  <2>4. "pause" \notin Works
    BY TasksAssumption DEF Chores
  <2> QED
    BY <1>1, <2>1, <2>2, <2>3, <2>4
<1>7. CASE SkipTask \/ FinishWork \/ FinishNoop \/ FinishPause
  <2>1. /\ task' = NoTask /\ ~executing' /\ Scheduled' = Scheduled
        /\ UNCHANGED <<child, owner, posted>>
    BY <1>1, <1>2, <1>7 DEF SkipTask, FinishWork, FinishNoop, FinishPause, Skip, Finish,
       childVars, ownerVars, TypeOK
  <2>2. NoTask \notin Works /\ NoTask # "noop"
    BY TasksAssumption DEF Tasks, Chores
  <2> QED
    BY <1>1, <2>1, <2>2
<1>8. CASE BeginWork \/ BeginNoop \/ BeginPause \/ BeginReceive
  BY <1>1, <1>2, <1>8 DEF BeginWork, BeginNoop, BeginPause, BeginReceive, Begin, Execute,
     childVars, ownerVars
<1>9. CASE FinishReceive
  <2>1. /\ task' = NoTask /\ ~executing' /\ Scheduled' \subseteq Scheduled \cup {"receive"}
        /\ UNCHANGED <<child, owner, posted>>
    BY <1>9, FinishReceiveFacts DEF FinishReceive, childVars, ownerVars
  <2>2. NoTask \notin Works /\ NoTask # "noop" /\ "receive" \notin Works
    BY TasksAssumption DEF Tasks, Chores
  <2> QED
    BY <1>1, <2>1, <2>2
<1>10. CASE PostPause \/ Paused \/ AwaitRunning \/ Stoppable \/ Stop \/ Join
  BY <1>1, <1>2, <1>10 DEF PostPause, Paused, AwaitRunning, Stoppable, Stop, Join, Goes, PushHigh,
     loopVars, childVars
<1>11. CASE PostNoop
  <2>1. /\ Scheduled' = Scheduled \cup {"noop"} /\ owner' = "stoppable"
        /\ UNCHANGED <<child, task, executing, posted>>
    BY <1>11, PostNoopFacts DEF PostNoop, Goes, childVars
  <2>2. "noop" \notin Works
    BY TasksAssumption DEF Chores
  <2> QED
    BY <1>1, <2>1, <2>2
<1>12. CASE OwnerCall
  BY <1>1, <1>2, <1>12 DEF OwnerCall, StartPause, Resume, StartDestroy, Goes, loopVars, childVars
<1>13. ASSUME NEW m \in Messages, Lock(m) \/ Release(m)
       PROVE  LoopInv'
  BY <1>1, <1>2, <1>13 DEF Lock, Release, loopVars, childVars, ownerVars
<1>14. ASSUME NEW m \in Messages, PushMessage(m)
       PROVE  LoopInv'
  <2>1. /\ Scheduled' \subseteq Scheduled \cup {"receive"}
        /\ UNCHANGED <<child, owner, task, executing, posted>>
    BY <1>14, PushMessageFacts DEF PushMessage, childVars, ownerVars
  <2>2. "receive" \notin Works
    BY TasksAssumption DEF Chores
  <2> QED
    BY <1>1, <2>1, <2>2
<1>15. ASSUME NEW w \in Works, PostWork(w)
       PROVE  LoopInv'
  <2>1. /\ Scheduled' = Scheduled \cup {w} /\ posted' = posted \cup {w}
        /\ UNCHANGED <<child, owner, task, executing>>
    BY <1>15, PostWorkFacts DEF PostWork, childVars, ownerVars
  <2>2. w # "noop" /\ w # "pause"
    BY TasksAssumption DEF Chores
  <2> QED
    BY <1>1, <2>1, <2>2
<1>16. ASSUME NEW w \in Works, CancelWork(w)
       PROVE  LoopInv'
  BY <1>1, <1>2, <1>16 DEF CancelWork, Cancel, CancelItself, childVars, ownerVars
<1>17. CASE UNCHANGED vars
  BY <1>1, <1>2, <1>17 DEF vars, loopVars, childVars, ownerVars
<1> QED
  BY <1>3, <1>4, <1>5, <1>6, <1>7, <1>8, <1>9, <1>10, <1>11, <1>12, <1>13, <1>14, <1>15, <1>16, <1>17
     DEF Next, ThreadStep, OwnerStep, ClientStep

\* LifeInv: the owner has passed running.wait() whenever it uses the loop, and
\* has called stop() before the thread leaves run().
LEMMA LifeInvStep ==
  ASSUME IInv, [Next]_vars
  PROVE  LifeInv'
<1> USE DEF LifeInv
<1>1. LifeInv
  BY DEF IInv
<1>2. TypeOK
  BY DEF IInv
<1>3. CASE MakeLoop \/ MakeObject \/ SayRunning \/ EnterRun \/ LeaveRun \/ CloseMailbox \/ DestroyObject
  BY <1>1, <1>2, <1>3 DEF MakeLoop, MakeObject, SayRunning, EnterRun, LeaveRun, CloseMailbox,
     DestroyObject, Becomes, loopVars, ownerVars, IsRunning, TypeOK
<1>4. CASE OpenMailbox \/ ExitThread
  BY <1>1, <1>2, <1>4 DEF OpenMailbox, ExitThread, Becomes, ownerVars, IsRunning, TypeOK
<1>5. CASE TakeTask \/ SkipTask \/ BeginWork \/ FinishWork \/ BeginNoop \/ FinishNoop
           \/ BeginPause \/ FinishPause \/ BeginReceive \/ FinishReceive
  <2>1. child = "run" /\ UNCHANGED <<child, stopping, owner>>
    BY <1>5 DEF TakeTask, SkipTask, BeginWork, FinishWork, BeginNoop, FinishNoop, BeginPause,
       FinishPause, BeginReceive, FinishReceive, Begin, childVars, ownerVars
  <2> QED
    BY <1>1, <2>1 DEF IsRunning
<1>6. CASE PostPause \/ Paused \/ AwaitRunning \/ PostNoop \/ Stoppable
  BY <1>1, <1>2, <1>6 DEF PostPause, Paused, AwaitRunning, PostNoop, Stoppable, Goes, childVars,
     loopVars, IsRunning, Push, PushHigh, TypeOK
<1>7. CASE Stop \/ Join
  BY <1>1, <1>2, <1>7 DEF Stop, Join, childVars, loopVars, IsRunning, TypeOK
<1>8. CASE OwnerCall
  BY <1>1, <1>8 DEF OwnerCall, StartPause, Resume, StartDestroy, Goes, loopVars, childVars, IsRunning
<1>9. ASSUME NEW m \in Messages, Lock(m) \/ Release(m)
      PROVE  LifeInv'
  BY <1>1, <1>9 DEF Lock, Release, loopVars, childVars, ownerVars, IsRunning
<1>10. ASSUME NEW m \in Messages, PushMessage(m)
       PROVE  LifeInv'
  <2>1. UNCHANGED <<child, stopping, owner>>
    BY <1>10 DEF PushMessage, childVars, ownerVars
  <2>2. child = "exited" => UNCHANGED defaultQueue
    BY <1>10 DEF PushMessage, IsClosed
  <2> QED
    BY <1>1, <2>1, <2>2 DEF IsRunning
<1>11. ASSUME NEW w \in Works, PostWork(w) \/ CancelWork(w)
       PROVE  LifeInv'
  <2>1. UNCHANGED <<child, stopping, owner>>
    BY <1>11 DEF PostWork, CancelWork, childVars, ownerVars
  <2>2. child = "exited" => UNCHANGED defaultQueue
    <3>1. handling # {} => child = "run"
      BY DEF IInv, MailInv, LoopInv
    <3> QED
      BY <1>11, <3>1 DEF PostWork, CancelWork, Cancel, CancelItself
  <2> QED
    BY <1>1, <2>1, <2>2 DEF IsRunning
<1>12. CASE UNCHANGED vars
  BY <1>1, <1>12 DEF vars, loopVars, childVars, ownerVars, IsRunning
<1> QED
  BY <1>3, <1>4, <1>5, <1>6, <1>7, <1>8, <1>9, <1>10, <1>11, <1>12
     DEF Next, ThreadStep, OwnerStep, ClientStep

\* CanceledNeverRuns: the mutex of the task orders cancel() and operator(),
\* unless the thread that runs the work is the one that cancels it.
LEMMA CanceledStep ==
  ASSUME IInv, [Next]_vars
  PROVE  CanceledNeverRuns'
<1> USE DEF CanceledNeverRuns
<1>1. CanceledNeverRuns /\ LoopInv /\ TypeOK
  BY DEF IInv
<1>2. CASE MakeLoop \/ MakeObject \/ OpenMailbox \/ SayRunning \/ EnterRun \/ LeaveRun
           \/ CloseMailbox \/ DestroyObject \/ ExitThread
  BY <1>1, <1>2 DEF MakeLoop, MakeObject, OpenMailbox, SayRunning, EnterRun, LeaveRun, CloseMailbox,
     DestroyObject, ExitThread, loopVars
<1>3. CASE TakeTask
  BY <1>1, <1>3 DEF TakeTask, Take, LoopInv
<1>4. CASE SkipTask \/ FinishWork \/ FinishNoop \/ FinishPause \/ FinishReceive
  BY <1>1, <1>4 DEF SkipTask, FinishWork, FinishNoop, FinishPause, FinishReceive, Skip, Finish
<1>5. CASE BeginWork \/ BeginNoop \/ BeginPause \/ BeginReceive
  BY <1>1, <1>5 DEF BeginWork, BeginNoop, BeginPause, BeginReceive, Begin, Execute
<1>6. CASE OwnerStep \/ OwnerCall
  BY <1>1, <1>6 DEF OwnerStep, OwnerCall, PostPause, Paused, AwaitRunning, PostNoop, Stoppable, Stop,
     Join, StartPause, Resume, StartDestroy, loopVars
<1>7. ASSUME NEW m \in Messages, Lock(m) \/ PushMessage(m) \/ Release(m)
      PROVE  CanceledNeverRuns'
  BY <1>1, <1>7 DEF Lock, PushMessage, Release, loopVars
<1>8. ASSUME NEW w \in Works, PostWork(w)
      PROVE  CanceledNeverRuns'
  BY <1>1, <1>8 DEF PostWork
<1>9. ASSUME NEW w \in Works, CancelWork(w)
      PROVE  CanceledNeverRuns'
  BY <1>1, <1>9 DEF CancelWork, Cancel, CancelItself
<1>10. CASE UNCHANGED vars
  BY <1>1, <1>10 DEF vars, loopVars
<1> QED
  BY <1>2, <1>3, <1>4, <1>5, <1>6, <1>7, <1>8, <1>9, <1>10 DEF Next, ThreadStep, ClientStep

\* PauseInv: the owner is in pause() as long as its task waits, and the task
\* that set paused cannot end before the owner set resumed.
LEMMA PauseInvStep ==
  ASSUME IInv, [Next]_vars
  PROVE  PauseInv'
<1> USE DEF PauseInv
<1>1. PauseInv /\ LoopInv /\ TypeOK
  BY DEF IInv
<1>2. NoTask # "pause" /\ "pause" \notin Works
  BY TasksAssumption DEF Tasks, Chores
<1>3. CASE MakeLoop \/ MakeObject \/ OpenMailbox \/ SayRunning \/ EnterRun \/ LeaveRun
           \/ CloseMailbox \/ DestroyObject
  BY <1>1, <1>3, OpenMailboxFacts DEF MakeLoop, MakeObject, OpenMailbox, SayRunning, EnterRun,
     LeaveRun, CloseMailbox, DestroyObject, Becomes, loopVars, ownerVars, promises, Push
<1>4. CASE ExitThread
  BY <1>1, <1>4 DEF ExitThread, Becomes, ownerVars, promises
<1>5. CASE TakeTask
  <2>1. /\ Take /\ task = NoTask /\ UNCHANGED <<owner, pausedSet, resumedSet, executing>>
    BY <1>5 DEF TakeTask, Take, ownerVars, promises
  <2>2. ~executing
    BY <1>1, <2>1 DEF LoopInv, TypeOK
  <2>3. /\ highPriorityQueue' = <<>>
        /\ task' = "pause" => highPriorityQueue = <<"pause">>
    BY <1>1, <2>1, TakeFacts DEF LoopInv
  <2> QED
    BY <1>1, <2>1, <2>2, <2>3
<1>6. CASE SkipTask \/ FinishWork \/ FinishNoop \/ FinishPause \/ FinishReceive
  <2>1. /\ task' = NoTask
        /\ UNCHANGED <<highPriorityQueue, owner, pausedSet, resumedSet>>
    BY <1>6, FinishReceiveFacts DEF SkipTask, FinishWork, FinishNoop, FinishPause, FinishReceive,
       Skip, Finish, ownerVars, promises
  <2>2. ~executing \/ task # "pause" \/ resumedSet
    BY <1>2, <1>6 DEF SkipTask, FinishWork, FinishNoop, FinishPause, FinishReceive, Skip
  <2> QED
    BY <1>1, <1>2, <2>1, <2>2
<1>7. CASE BeginWork \/ BeginNoop \/ BeginReceive
  BY <1>1, <1>2, <1>7 DEF BeginWork, BeginNoop, BeginReceive, Begin, Execute, ownerVars, promises
<1>8. CASE BeginPause
  BY <1>1, <1>8 DEF BeginPause, Begin, Execute, TypeOK
<1>9. CASE PostPause
  <2>1. /\ owner = "pause" /\ owner' = "pausing"
        /\ highPriorityQueue' = Append(highPriorityQueue, "pause")
        /\ UNCHANGED <<task, executing, pausedSet, resumedSet>>
    BY <1>9 DEF PostPause, Goes, PushHigh, promises
  <2>2. highPriorityQueue = <<>> /\ ~pausedSet
    BY <1>1, <2>1
  <2>3. highPriorityQueue' = <<"pause">>
    BY <2>1, <2>2
  <2> QED
    BY <1>1, <2>1, <2>2, <2>3
<1>10. CASE Paused \/ AwaitRunning \/ PostNoop \/ Stoppable
  BY <1>1, <1>10 DEF Paused, AwaitRunning, PostNoop, Stoppable, Goes, Push, loopVars, promises
<1>11. CASE Stop \/ Join
  BY <1>1, <1>11 DEF Stop, Join, loopVars, promises
<1>12. CASE StartPause \/ Resume \/ StartDestroy
  BY <1>1, <1>12 DEF StartPause, Resume, StartDestroy, Goes, loopVars, TypeOK
<1>13. ASSUME NEW m \in Messages, Lock(m) \/ Release(m)
       PROVE  PauseInv'
  BY <1>1, <1>13 DEF Lock, Release, loopVars, ownerVars, promises
<1>14. ASSUME NEW m \in Messages, PushMessage(m)
       PROVE  PauseInv'
  BY <1>1, <1>14, PushMessageFacts DEF PushMessage, ownerVars, promises
<1>15. ASSUME NEW w \in Works, PostWork(w) \/ CancelWork(w)
       PROVE  PauseInv'
  BY <1>1, <1>15 DEF PostWork, CancelWork, Push, Cancel, CancelItself, ownerVars, promises
<1>16. CASE UNCHANGED vars
  BY <1>1, <1>16 DEF vars, loopVars, ownerVars, promises
<1> QED
  BY <1>3, <1>4, <1>5, <1>6, <1>7, <1>8, <1>9, <1>10, <1>11, <1>12, <1>13, <1>14, <1>15, <1>16
     DEF Next, ThreadStep, OwnerStep, OwnerCall, ClientStep

\* MailInv: whoever finds the mailbox empty schedules it, and the loop does so
\* again as long as it found another message.
LEMMA MailInvStep ==
  ASSUME IInv, [Next]_vars
  PROVE  MailInv'
<1> USE DEF MailInv
<1>1. MailInv /\ LoopInv /\ LifeInv /\ TypeOK
  BY DEF IInv
<1>2. /\ UNCHANGED defaultQueue => Scheduled' = Scheduled
      /\ UNCHANGED queue => Queued' = Queued
  BY SameQueues
<1>3. NoTask # "receive" /\ "receive" \notin Works
  BY TasksAssumption DEF Tasks, Chores
<1>4. CASE MakeLoop \/ MakeObject \/ SayRunning \/ EnterRun \/ LeaveRun \/ CloseMailbox \/ DestroyObject
  BY <1>1, <1>2, <1>4 DEF MakeLoop, MakeObject, SayRunning, EnterRun, LeaveRun, CloseMailbox,
     DestroyObject, Becomes, loopVars, mailboxVars, clientVars, HasScheduler
<1>5. CASE OpenMailbox
  <2>1. /\ child = "object" /\ child' = "open"
        /\ UNCHANGED <<task, executing, queue, handling, more, client, reply>>
    BY <1>5 DEF OpenMailbox, Becomes, mailboxVars, clientVars
  <2>2. task = NoTask /\ ~executing /\ handling = {} /\ ~more
    BY <1>1, <2>1 DEF LoopInv, TypeOK
  <2>3. Scheduled' = Scheduled \/ (queue # <<>> /\ Scheduled' = Scheduled \cup {"receive"})
    BY <1>5, OpenMailboxFacts
  <2> QED
    BY <1>1, <1>2, <1>3, <2>1, <2>2, <2>3 DEF HasScheduler
<1>6. CASE ExitThread
  <2>1. /\ child = "destroyed" /\ Scheduled' = {}
        /\ UNCHANGED <<task, executing, queue, handling, more, client, reply>>
    BY <1>6 DEF ExitThread, Becomes, mailboxVars, clientVars, Scheduled
  <2>2. task = NoTask /\ ~more
    BY <1>1, <2>1 DEF LoopInv, TypeOK
  <2> QED
    BY <1>1, <1>2, <1>3, <2>1, <2>2
<1>7. CASE TakeTask
  <2>1. /\ Take /\ task = NoTask
        /\ UNCHANGED <<child, executing, queue, handling, more, client, reply>>
    BY <1>7 DEF TakeTask, Take, childVars, mailboxVars, clientVars
  <2>2. ~executing /\ handling = {} /\ ~more
    BY <1>1, <2>1 DEF LoopInv, TypeOK
  <2>3. \/ Scheduled' = Scheduled /\ task' = "pause"
        \/ task' \in Scheduled /\ Scheduled' = Scheduled \ {task'}
    BY <2>1, TakeFacts DEF IInv
  <2> QED
    BY <1>1, <1>2, <1>3, <2>1, <2>2, <2>3 DEF HasScheduler
<1>8. CASE SkipTask \/ FinishWork \/ FinishNoop \/ FinishPause
  <2>1. /\ task' = NoTask /\ ~executing'
        /\ UNCHANGED <<child, defaultQueue, queue, handling, more, client, reply>>
    BY <1>1, <1>8 DEF SkipTask, FinishWork, FinishNoop, FinishPause, Skip, Finish, childVars,
       mailboxVars, clientVars, TypeOK
  <2>2. ~executing \/ task # "receive"
    BY <1>1, <1>3, <1>8 DEF SkipTask, FinishWork, FinishNoop, FinishPause, Skip, TypeOK
  <2> QED
    BY <1>1, <1>2, <1>3, <2>1, <2>2 DEF HasScheduler
<1>9. CASE BeginWork \/ BeginNoop \/ BeginPause
  <2>1. /\ task # "receive" /\ ~executing /\ executing'
        /\ UNCHANGED <<child, task, defaultQueue, queue, handling, more, client, reply>>
    BY <1>3, <1>9 DEF BeginWork, BeginNoop, BeginPause, Begin, Execute, childVars, mailboxVars, clientVars
  <2> QED
    BY <1>1, <1>2, <2>1 DEF HasScheduler
<1>10. CASE BeginReceive
  <2>1. /\ task = "receive" /\ task' = "receive" /\ ~executing /\ executing'
        /\ queue # <<>> /\ queue' = Tail(queue)
        /\ handling' = {Head(queue)} /\ more' = (queue' # <<>>)
        /\ UNCHANGED <<child, defaultQueue, client, reply>>
    BY <1>10 DEF BeginReceive, Begin, Execute, childVars, clientVars
  <2>2. /\ Head(queue) \in Messages
        /\ Queued = Queued' \cup handling'
    BY <1>1, <2>1, ReceiveFacts DEF Queued
  <2>3. handling = {} /\ "receive" \notin Scheduled'
    BY <1>1, <1>2, <2>1
  <2> QED
    BY <1>1, <2>1, <2>2, <2>3
<1>11. CASE FinishReceive
  <2>1. /\ task = "receive" /\ child = "run" /\ executing
        /\ task' = NoTask /\ ~executing' /\ handling' = {} /\ ~more'
        /\ reply' = [m \in Messages |-> IF m \in handling THEN "value" ELSE reply[m]]
        /\ UNCHANGED <<child, queue, client>>
    BY <1>11 DEF FinishReceive, childVars
  <2>2. Scheduled' = Scheduled \/ (more /\ Scheduled' = Scheduled \cup {"receive"})
    BY <1>11, FinishReceiveFacts
  <2> QED
    BY <1>1, <1>2, <1>3, <2>1, <2>2 DEF HasScheduler
<1>12. CASE PostPause \/ Paused \/ AwaitRunning \/ Stoppable \/ OwnerCall \/ Stop
  BY <1>1, <1>2, <1>12 DEF PostPause, Paused, AwaitRunning, Stoppable, OwnerCall, StartPause, Resume,
     StartDestroy, Goes, Stop, PushHigh, loopVars, childVars, mailboxVars, clientVars, HasScheduler
<1>13. CASE PostNoop
  <2>1. /\ Scheduled' = Scheduled \cup {"noop"}
        /\ UNCHANGED <<child, task, executing, queue, handling, more, client, reply>>
    BY <1>13, PostNoopFacts DEF PostNoop, Goes, childVars, mailboxVars, clientVars
  <2> QED
    BY <1>1, <1>2, <2>1 DEF HasScheduler
<1>14. CASE Join
  <2>1. /\ child = "exited"
        /\ UNCHANGED <<defaultQueue, task, executing, child, handling, more, client>>
    BY <1>14 DEF Join, loopVars, childVars
  <2>2. handling = {} /\ ~more /\ Scheduled' = {} /\ task = NoTask
    BY <1>1, <2>1 DEF LoopInv, LifeInv, TypeOK, Scheduled
  <2>3. UNCHANGED <<queue, reply>> \/ FreeMailbox
    BY <1>14 DEF Join
  <2>4. CASE FreeMailbox
    <3>1. Queued' = {} /\ \A m \in Messages : reply'[m] # "pending" /\ (reply[m] = "none" => reply'[m] = "none")
      BY <2>4 DEF FreeMailbox, Queued
    <3> QED
      BY <1>1, <1>3, <2>1, <2>2, <3>1
  <2>5. CASE UNCHANGED <<queue, reply>>
    BY <1>1, <1>2, <1>3, <2>1, <2>2, <2>5
  <2> QED
    BY <2>3, <2>4, <2>5
<1>15. ASSUME NEW m \in Messages, Lock(m)
       PROVE  MailInv'
  <2>1. /\ client[m] = "idle" /\ UNCHANGED <<defaultQueue, task, executing, child, queue, handling, more>>
        /\ \A n \in Messages \ {m} : UNCHANGED <<client[n], reply[n]>>
        /\ \/ client'[m] = "done" /\ reply'[m] = "error"
           \/ client'[m] = "locked" /\ reply'[m] = reply[m]
    BY <1>1, <1>15 DEF Lock, loopVars, childVars, mailboxVars, TypeOK
  <2> QED
    BY <1>1, <1>2, <2>1 DEF HasScheduler
<1>16. ASSUME NEW m \in Messages, PushMessage(m)
       PROVE  MailInv'
  <2>1. /\ client[m] = "locked" /\ client'[m] = "pushed"
        /\ reply'[m] = IF IsClosed THEN "error" ELSE "pending"
        /\ \A n \in Messages \ {m} : UNCHANGED <<client[n], reply[n]>>
        /\ UNCHANGED <<task, executing, child, handling, more>>
    BY <1>1, <1>16 DEF PushMessage, childVars, TypeOK
  <2> QED
    BY <1>1, <1>3, <1>16, <2>1, PushMessageFacts DEF HasScheduler
<1>17. ASSUME NEW m \in Messages, Release(m)
       PROVE  MailInv'
  <2>1. /\ client[m] = "pushed" /\ client'[m] = "done"
        /\ \A n \in Messages \ {m} : UNCHANGED client[n]
        /\ UNCHANGED <<defaultQueue, task, executing, child, handling, more>>
        /\ \/ UNCHANGED <<queue, reply>>
           \/ owner = "gone" /\ FreeMailbox
    BY <1>1, <1>17 DEF Release, loopVars, childVars, TypeOK
  <2>2. CASE UNCHANGED <<queue, reply>>
    BY <1>1, <1>2, <2>1, <2>2 DEF HasScheduler
  <2>3. CASE owner = "gone" /\ FreeMailbox
    <3>1. handling = {} /\ ~more /\ Scheduled' = {} /\ task = NoTask
      BY <1>1, <2>1, <2>3 DEF LoopInv, LifeInv, TypeOK, Scheduled
    <3>2. Queued' = {} /\ \A n \in Messages : reply'[n] # "pending" /\ (reply[n] = "none" => reply'[n] = "none")
      BY <2>3 DEF FreeMailbox, Queued
    <3> QED
      BY <1>1, <1>3, <2>1, <3>1, <3>2
  <2> QED
    BY <2>1, <2>2, <2>3
<1>18. ASSUME NEW w \in Works, PostWork(w)
       PROVE  MailInv'
  <2>1. /\ Scheduled' = Scheduled \cup {w} /\ w # "receive"
        /\ UNCHANGED <<child, task, executing, queue, handling, more, client, reply>>
    BY <1>3, <1>18, PostWorkFacts DEF PostWork, childVars, mailboxVars, clientVars
  <2> QED
    BY <1>1, <1>2, <2>1 DEF HasScheduler
<1>19. ASSUME NEW w \in Works, CancelWork(w)
       PROVE  MailInv'
  BY <1>1, <1>2, <1>19 DEF CancelWork, Cancel, CancelItself, childVars, mailboxVars, clientVars, HasScheduler
<1>20. CASE UNCHANGED vars
  BY <1>1, <1>2, <1>20 DEF vars, loopVars, childVars, mailboxVars, clientVars, HasScheduler
<1> QED
  BY <1>4, <1>5, <1>6, <1>7, <1>8, <1>9, <1>10, <1>11, <1>12, <1>13, <1>14, <1>15, <1>16, <1>17,
     <1>18, <1>19, <1>20 DEF Next, ThreadStep, OwnerStep, ClientStep

\* TypeOK: the queues of the loop hold tasks, and the default one each once.
LEMMA TypeStep ==
  ASSUME IInv, [Next]_vars
  PROVE  TypeOK'
<1>1. /\ TypeOK /\ MailInv
      /\ defaultQueue \in Seq(Tasks) /\ Distinct
      /\ queue \in Seq(Messages)
  BY DEF IInv, TypeOK, Distinct
<1>2. highPriorityQueue' \in Seq(Tasks)
  <2>1. highPriorityQueue' = <<>> \/ highPriorityQueue' = <<"pause">>
    BY PauseInvStep DEF PauseInv
  <2>2. "pause" \in Tasks
    BY DEF Tasks, Chores
  <2>3. \A t \in Tasks : <<t>> \in Seq(Tasks)
    OBVIOUS
  <2>4. <<"pause">> \in Seq(Tasks)
    BY <2>2, <2>3
  <2>5. <<>> \in Seq(Tasks)
    OBVIOUS
  <2> QED
    BY <2>1, <2>4, <2>5
<1>3. UNCHANGED defaultQueue => defaultQueue' \in Seq(Tasks) /\ Distinct'
  BY <1>1 DEF Distinct
<1>4. SUFFICES /\ defaultQueue' \in Seq(Tasks) /\ Distinct'
               /\ task' \in Tasks \cup {NoTask} /\ executing' \in BOOLEAN
               /\ canceled' \subseteq posted' /\ posted' \subseteq Works
               /\ selfCanceled' \subseteq canceled'
               /\ child' \in Lives /\ stopping' \in BOOLEAN
               /\ owner' \in {"using", "pause", "pausing", "paused", "destroy", "posting",
                              "stoppable", "stop", "join", "gone"}
               /\ pausedSet' \in BOOLEAN /\ resumedSet' \in BOOLEAN /\ stoppableSet' \in BOOLEAN
               /\ queue' \in Seq(Messages) /\ handling' \subseteq Messages /\ more' \in BOOLEAN
               /\ client' \in [Messages -> {"idle", "locked", "pushed", "done"}]
               /\ reply' \in [Messages -> {"none", "pending", "value", "error"}]
  BY <1>2, <1>4 DEF TypeOK, Distinct
<1> USE DEF TypeOK
<1>5. CASE MakeLoop \/ MakeObject \/ SayRunning \/ EnterRun \/ LeaveRun \/ CloseMailbox \/ DestroyObject
  BY <1>1, <1>3, <1>5 DEF MakeLoop, MakeObject, SayRunning, EnterRun, LeaveRun, CloseMailbox,
     DestroyObject, Becomes, Lives, loopVars, ownerVars, promises, mailboxVars, clientVars
<1>6. CASE OpenMailbox
  BY <1>1, <1>6, OpenMailboxFacts DEF OpenMailbox, Becomes, Lives, ownerVars, promises, mailboxVars, clientVars
<1>7. CASE ExitThread
  <2>1. defaultQueue' \in Seq(Tasks) /\ Distinct'
    BY <1>7 DEF ExitThread, Distinct
  <2> QED
    BY <1>1, <1>7, <2>1 DEF ExitThread, Becomes, Lives, ownerVars, promises, mailboxVars, clientVars
<1>8. CASE TakeTask
  <2>1. /\ task' \in Tasks /\ defaultQueue' \in Seq(Tasks) /\ Distinct'
    BY <1>8, TakeFacts DEF TakeTask, IInv
  <2> QED
    BY <1>1, <1>8, <2>1 DEF TakeTask, Take, childVars, ownerVars, promises, mailboxVars, clientVars
<1>9. CASE SkipTask \/ FinishWork \/ FinishNoop \/ FinishPause
  BY <1>1, <1>3, <1>9 DEF SkipTask, FinishWork, FinishNoop, FinishPause, Skip, Finish,
     childVars, ownerVars, promises, mailboxVars, clientVars
<1>10. CASE BeginWork \/ BeginNoop \/ BeginPause
  BY <1>1, <1>3, <1>10 DEF BeginWork, BeginNoop, BeginPause, Begin, Execute,
     childVars, ownerVars, promises, mailboxVars, clientVars
<1>11. CASE BeginReceive
  <2>1. Head(queue) \in Messages /\ Tail(queue) \in Seq(Messages)
    BY <1>1, <1>11, ReceiveFacts DEF BeginReceive
  <2> QED
    BY <1>1, <1>3, <1>11, <2>1 DEF BeginReceive, Begin, Execute, childVars, ownerVars, promises, clientVars
<1>12. CASE FinishReceive
  <2>1. reply' \in [Messages -> {"none", "pending", "value", "error"}]
    BY <1>1, <1>12 DEF FinishReceive
  <2> QED
    BY <1>1, <1>12, <2>1, FinishReceiveFacts DEF FinishReceive, childVars, ownerVars, promises
<1>13. CASE PostPause \/ Paused \/ AwaitRunning \/ Stoppable \/ OwnerCall
  BY <1>1, <1>3, <1>13 DEF PostPause, Paused, AwaitRunning, Stoppable, OwnerCall, StartPause, Resume,
     StartDestroy, Goes, PushHigh, loopVars, childVars, promises, mailboxVars, clientVars
<1>14. CASE PostNoop
  BY <1>1, <1>14, PostNoopFacts DEF PostNoop, Goes, childVars, promises, mailboxVars, clientVars
<1>15. CASE Stop
  BY <1>1, <1>3, <1>15 DEF Stop, loopVars, promises, mailboxVars, clientVars
<1>16. ASSUME FreeMailbox
       PROVE  /\ queue' \in Seq(Messages)
              /\ reply' \in [Messages -> {"none", "pending", "value", "error"}]
  BY <1>1, <1>16 DEF FreeMailbox
<1>17. CASE Join
  BY <1>1, <1>3, <1>16, <1>17 DEF Join, loopVars, childVars, promises
<1>18. ASSUME NEW m \in Messages, Lock(m)
       PROVE  TypeOK'
  BY <1>1, <1>2, <1>3, <1>18 DEF Lock, loopVars, childVars, ownerVars, promises, mailboxVars
<1>19. ASSUME NEW m \in Messages, PushMessage(m)
       PROVE  TypeOK'
  BY <1>1, <1>2, <1>19, PushMessageFacts DEF PushMessage, Distinct, childVars, ownerVars, promises
<1>20. ASSUME NEW m \in Messages, Release(m)
       PROVE  TypeOK'
  BY <1>1, <1>2, <1>3, <1>16, <1>20 DEF Release, loopVars, childVars, ownerVars, promises
<1>21. ASSUME NEW w \in Works, PostWork(w)
       PROVE  TypeOK'
  BY <1>1, <1>2, <1>21, PostWorkFacts DEF PostWork, Distinct, childVars, ownerVars, promises, mailboxVars, clientVars
<1>22. ASSUME NEW w \in Works, CancelWork(w)
       PROVE  TypeOK'
  BY <1>1, <1>2, <1>3, <1>22 DEF CancelWork, Cancel, CancelItself, childVars, ownerVars, promises, mailboxVars, clientVars
<1>23. CASE UNCHANGED vars
  BY <1>1, <1>3, <1>23 DEF vars, loopVars, childVars, ownerVars, promises, mailboxVars, clientVars
<1> QED
  BY <1>5, <1>6, <1>7, <1>8, <1>9, <1>10, <1>11, <1>12, <1>13, <1>14, <1>15, <1>17, <1>18, <1>19,
     <1>20, <1>21, <1>22, <1>23 DEF Next, ThreadStep, OwnerStep, ClientStep, Distinct
-----------------------------------------------------------------------------
\* The invariant of the thread: it holds at first, and every step keeps it.
LEMMA ThreadInvariant == Spec => []IInv
<1>1. Init => IInv
  BY InitOK
<1>2. IInv /\ [Next]_vars => IInv'
  BY TypeStep, LoopInvStep, LifeInvStep, MailInvStep, PauseInvStep, CanceledStep DEF IInv
<1> QED
  BY <1>1, <1>2, PTL DEF Spec

\* Every variable keeps its type, and the loop holds a task once.
THEOREM ThreadTypeOK == Spec => []TypeOK
<1>1. IInv => TypeOK
  BY DEF IInv
<1> QED
  BY <1>1, ThreadInvariant, PTL

\* Between pause() and resume() the loop is in the task of pause(): it handles
\* no message and runs no posted work.
THEOREM PauseIsQuiet == Spec => []PausedProcessesNothing
<1>1. IInv => PausedProcessesNothing
  BY DEF IInv, PauseInv, PausedProcessesNothing
<1> QED
  BY <1>1, ThreadInvariant, PTL

\* A posted work whose request was cancelled does not run after that, wherever
\* the loop had it; only one that cancelled itself goes on to its end.
THEOREM CancelIsFinal == Spec => []CanceledNeverRuns
<1>1. IInv => CanceledNeverRuns
  BY DEF IInv
<1> QED
  BY <1>1, ThreadInvariant, PTL

\* The owner's pointer to the loop is good whenever it is used, and the object
\* is there while it handles a message.
THEOREM PointersAreGood == Spec => []LoopIsThere
<1>1. IInv => LoopIsThere
  <2>1. ASSUME IInv PROVE owner \in {"pausing", "posting", "stoppable", "stop"} => HasLoop /\ child # "returned"
    BY <2>1 DEF IInv, LifeInv, IsRunning, HasLoop
  <2>2. ASSUME IInv PROVE handling # {} => HasObject
    BY <2>2 DEF IInv, LoopInv, MailInv, HasObject
  <2> QED
    BY <2>1, <2>2 DEF LoopIsThere
<1> QED
  BY <1>1, ThreadInvariant, PTL
-----------------------------------------------------------------------------
\* The thread implements the actor.

\* The first in the inbox is the message that is being handled.
LEMMA InboxFacts ==
  ASSUME TypeOK, NEW m \in Messages
  PROVE  /\ handling = {} => inbox = queue
         /\ handling = {m} => /\ inbox = <<m>> \o queue /\ inbox # <<>>
                              /\ Head(inbox) = m /\ Tail(inbox) = queue
<1>1. ASSUME handling = {m} PROVE inbox = <<m>> \o queue
  <2>1. \A n \in Messages : handling = {n} => n = m
    BY <1>1
  <2>2. (CHOOSE n \in Messages : handling = {n}) = m
    BY <1>1, <2>1
  <2> QED
    BY <1>1, <2>2 DEF inbox
<1>2. <<m>> \o queue # <<>> /\ Head(<<m>> \o queue) = m /\ Tail(<<m>> \o queue) = queue
  BY DEF TypeOK
<1> QED
  BY <1>1, <1>2 DEF inbox

\* The inbox and the life of the actor depend on these variables only.
LEMMA InboxFrame ==
  /\ UNCHANGED <<queue, handling>> => inbox' = inbox
  /\ UNCHANGED child => life' = life
<1>1. ASSUME UNCHANGED <<queue, handling>>
      PROVE  inbox' = inbox
  <2>1. queue' = queue /\ handling' = handling
    BY <1>1
  <2>2. (CHOOSE m \in Messages : handling' = {m}) = (CHOOSE m \in Messages : handling = {m})
    BY <2>1, Zenon
  <2> QED
    BY <2>1, <2>2 DEF inbox
<1>2. ASSUME UNCHANGED child
      PROVE  life' = life
  BY <1>2 DEF life, IsClosed, HasScheduler
<1> QED
  BY <1>1, <1>2

\* At first the actor aspires.
LEMMA ActorInit ==
  ASSUME Init
  PROVE  A!Init
<1>1. life = "aspiring"
  BY DEF Init, life, IsClosed, HasScheduler
<1>2. inbox = <<>>
  BY DEF Init, inbox
<1> QED
  BY <1>1, <1>2 DEF Init, A!Init

\* A mailbox that is freed discards what it holds.
LEMMA FreeDiscards ==
  ASSUME IInv, child = "exited", FreeMailbox, UNCHANGED <<child, handling>>
  PROVE  [A!Next]_<<life, inbox, reply>>
<1>1. /\ handling = {} /\ handling' = {}
      /\ TypeOK
  BY DEF IInv, MailInv, LoopInv
<1>2. inbox = queue /\ inbox' = <<>>
  BY <1>1 DEF inbox, FreeMailbox
<1>3. life = "dead" /\ life' = "dead"
  BY DEF life, IsClosed
<1>4. CASE queue # <<>>
  BY <1>2, <1>3, <1>4 DEF FreeMailbox, A!Next, A!Discard
<1>5. CASE queue = <<>>
  <2>1. \A m \in Messages : reply[m] # "pending"
    BY <1>1, <1>5 DEF IInv, MailInv, Queued
  <2>2. reply' = reply
    BY <1>1, <2>1 DEF FreeMailbox, TypeOK
  <2> QED
    BY <1>2, <1>3, <1>5, <2>2
<1> QED
  BY <1>4, <1>5

\* Every step of the thread is one of the actor, or changes nothing of it.
LEMMA ActorStep ==
  ASSUME IInv, [Next]_vars
  PROVE  [A!Next]_<<life, inbox, reply>>
<1>1. TypeOK /\ LoopInv /\ LifeInv /\ MailInv
  BY DEF IInv
<1>2. CASE MakeLoop \/ MakeObject \/ SayRunning \/ EnterRun \/ LeaveRun \/ DestroyObject \/ ExitThread
  <2>1. UNCHANGED <<queue, handling, reply>>
    BY <1>2 DEF MakeLoop, MakeObject, SayRunning, EnterRun, LeaveRun, DestroyObject, ExitThread,
       Becomes, mailboxVars, clientVars
  <2>2. life' = life
    BY <1>2 DEF MakeLoop, MakeObject, SayRunning, EnterRun, LeaveRun, DestroyObject, ExitThread,
       Becomes, life, IsClosed, HasScheduler
  <2> QED
    BY <2>1, <2>2, InboxFrame
<1>3. CASE OpenMailbox
  <2>1. /\ child = "object" /\ child' = "open" /\ UNCHANGED <<queue, handling, reply>>
    BY <1>3 DEF OpenMailbox, Becomes, mailboxVars, clientVars
  <2>2. life = "aspiring" /\ life' = "established"
    BY <2>1 DEF life, IsClosed, HasScheduler
  <2> QED
    BY <2>1, <2>2, InboxFrame DEF A!Next, A!Establish
<1>4. CASE CloseMailbox
  <2>1. /\ child = "returned" /\ child' = "closed" /\ UNCHANGED <<queue, handling, reply>>
    BY <1>4 DEF CloseMailbox, Becomes, mailboxVars, clientVars
  <2>2. life = "established" /\ life' = "dead"
    BY <2>1 DEF life, IsClosed, HasScheduler
  <2> QED
    BY <2>1, <2>2, InboxFrame DEF A!Next, A!Die
<1>5. CASE TakeTask \/ SkipTask \/ BeginWork \/ FinishWork \/ BeginNoop \/ FinishNoop
           \/ BeginPause \/ FinishPause
  <2>1. UNCHANGED <<child, queue, handling, reply>>
    BY <1>5 DEF TakeTask, SkipTask, BeginWork, FinishWork, BeginNoop, FinishNoop, BeginPause,
       FinishPause, childVars, mailboxVars, clientVars
  <2> QED
    BY <2>1, InboxFrame
<1>6. CASE BeginReceive
  <2>1. /\ task = "receive" /\ ~executing /\ queue # <<>>
        /\ queue' = Tail(queue) /\ handling' = {Head(queue)}
        /\ UNCHANGED <<child, reply>>
    BY <1>6 DEF BeginReceive, Begin, Execute, childVars, clientVars
  <2>2. handling = {} /\ Head(queue) \in Messages
    BY <1>1, <2>1, ReceiveFacts DEF MailInv
  <2>3. inbox = queue
    BY <1>1, <2>2 DEF inbox
  <2>4. TypeOK'
    BY TypeStep
  <2>5. inbox' = <<Head(queue)>> \o Tail(queue)
    <3>1. \A n \in Messages : handling' = {n} => n = Head(queue)
      BY <2>1
    <3>2. (CHOOSE n \in Messages : handling' = {n}) = Head(queue)
      BY <2>1, <2>2, <3>1
    <3> QED
      BY <2>1, <3>2 DEF inbox
  <2>6. <<Head(queue)>> \o Tail(queue) = queue
    BY <1>1, <2>1 DEF TypeOK
  <2> QED
    BY <2>1, <2>3, <2>5, <2>6, InboxFrame
<1>7. CASE FinishReceive
  <2>1. /\ task = "receive" /\ executing /\ child = "run"
        /\ reply' = [m \in Messages |-> IF m \in handling THEN "value" ELSE reply[m]]
        /\ handling' = {} /\ UNCHANGED <<child, queue>>
    BY <1>7 DEF FinishReceive, childVars
  <2>2. PICK m \in Messages : handling = {m}
    BY <1>1, <2>1 DEF MailInv
  <2>3. /\ inbox # <<>> /\ Head(inbox) = m /\ Tail(inbox) = queue
    BY <1>1, <2>2, InboxFacts
  <2>4. inbox' = queue
    BY <2>1 DEF inbox
  <2>5. reply' = [reply EXCEPT ![m] = "value"]
    BY <1>1, <2>1, <2>2 DEF TypeOK
  <2>6. life = "established" /\ life' = life
    BY <2>1 DEF life, IsClosed, HasScheduler
  <2> QED
    BY <2>3, <2>4, <2>5, <2>6 DEF A!Next, A!Handle
<1>8. CASE PostPause \/ Paused \/ AwaitRunning \/ PostNoop \/ Stoppable \/ Stop \/ OwnerCall
  <2>1. UNCHANGED <<child, queue, handling, reply>>
    BY <1>8 DEF PostPause, Paused, AwaitRunning, PostNoop, Stoppable, Stop, OwnerCall, StartPause,
       Resume, StartDestroy, Goes, childVars, mailboxVars, clientVars
  <2> QED
    BY <2>1, InboxFrame
<1>9. CASE Join
  <2>1. child = "exited" /\ UNCHANGED <<child, handling>>
    BY <1>9 DEF Join, childVars
  <2>2. UNCHANGED <<queue, reply>> \/ FreeMailbox
    BY <1>9 DEF Join
  <2> QED
    BY <2>1, <2>2, FreeDiscards, InboxFrame
<1>10. ASSUME NEW m \in Messages, Lock(m)
       PROVE  [A!Next]_<<life, inbox, reply>>
  <2>1. UNCHANGED <<child, queue, handling>>
    BY <1>10 DEF Lock, childVars, mailboxVars
  <2>2. CASE UNCHANGED reply
    BY <2>1, <2>2, InboxFrame
  <2>3. CASE owner = "gone" /\ reply' = [reply EXCEPT ![m] = "error"]
    <3>1. life = "dead"
      BY <1>1, <2>3 DEF LifeInv, life, IsClosed
    <3>2. reply[m] = "none"
      BY <1>1, <1>10 DEF MailInv, Lock
    <3> QED
      BY <2>1, <2>3, <3>1, <3>2, InboxFrame DEF A!Next, A!Refuse
  <2> QED
    BY <1>10, <2>2, <2>3 DEF Lock
<1>11. ASSUME NEW m \in Messages, PushMessage(m)
       PROVE  [A!Next]_<<life, inbox, reply>>
  <2>1. /\ client[m] = "locked" /\ UNCHANGED <<child, handling>>
        /\ reply' = [reply EXCEPT ![m] = IF IsClosed THEN "error" ELSE "pending"]
        /\ queue' = IF IsClosed THEN queue ELSE Append(queue, m)
    BY <1>11 DEF PushMessage, childVars
  <2>2. reply[m] = "none"
    BY <1>1, <2>1 DEF MailInv
  <2>3. CASE IsClosed
    <3>1. life = "dead"
      BY <2>3 DEF life
    <3>2. UNCHANGED <<life, inbox>>
      BY <2>1, <2>3, InboxFrame
    <3>3. reply' = [reply EXCEPT ![m] = "error"]
      BY <2>1, <2>3
    <3> QED
      BY <2>2, <3>1, <3>2, <3>3 DEF A!Next, A!Refuse
  <2>4. CASE ~IsClosed
    <3>1. life # "dead"
      BY <2>4 DEF life
    <3>2. /\ reply' = [reply EXCEPT ![m] = "pending"]
          /\ queue' = Append(queue, m)
      BY <2>1, <2>4
    <3>3. inbox' = Append(inbox, m)
      <4>1. CASE handling = {}
        BY <2>1, <3>2, <4>1 DEF inbox
      <4>2. CASE handling # {}
        <5>1. \A n \in Messages : <<n>> \o Append(queue, m) = Append(<<n>> \o queue, m)
          BY <1>1 DEF TypeOK
        <5>2. PICK n \in Messages : handling = {n}
          BY <1>1, <4>2 DEF MailInv
        <5>3. (CHOOSE k \in Messages : handling = {k}) = n
          BY <5>2
        <5>4. inbox = <<n>> \o queue /\ inbox' = <<n>> \o Append(queue, m)
          BY <2>1, <3>2, <4>2, <5>3 DEF inbox
        <5> QED
          BY <5>1, <5>4
      <4> QED
        BY <4>1, <4>2
    <3>4. life' = life
      BY <2>1, InboxFrame
    <3> QED
      BY <2>2, <3>1, <3>2, <3>3, <3>4 DEF A!Next, A!Send
  <2> QED
    BY <2>3, <2>4
<1>12. ASSUME NEW m \in Messages, Release(m)
       PROVE  [A!Next]_<<life, inbox, reply>>
  <2>1. UNCHANGED <<child, handling>>
    BY <1>12 DEF Release, childVars
  <2>2. \/ UNCHANGED <<queue, reply>>
        \/ owner = "gone" /\ FreeMailbox
    BY <1>12 DEF Release
  <2>3. owner = "gone" => child = "exited"
    BY <1>1 DEF LifeInv
  <2> QED
    BY <2>1, <2>2, <2>3, FreeDiscards, InboxFrame
<1>13. ASSUME NEW w \in Works, PostWork(w) \/ CancelWork(w)
       PROVE  [A!Next]_<<life, inbox, reply>>
  <2>1. UNCHANGED <<child, queue, handling, reply>>
    BY <1>13 DEF PostWork, CancelWork, childVars, mailboxVars, clientVars
  <2> QED
    BY <2>1, InboxFrame
<1>14. CASE UNCHANGED vars
  <2>1. UNCHANGED <<child, queue, handling, reply>>
    BY <1>14 DEF vars, childVars, mailboxVars, clientVars
  <2> QED
    BY <2>1, InboxFrame
<1> QED
  BY <1>2, <1>3, <1>4, <1>5, <1>6, <1>7, <1>8, <1>9, <1>10, <1>11, <1>12, <1>13, <1>14
     DEF Next, ThreadStep, OwnerStep, ClientStep

\* To those who hold an ActorRef the thread is an actor: it handles what it is
\* sent in order, and keeps or breaks each promise once.
THEOREM ThreadIsAnActor == Spec => IsAnActor
<1>1. Init => A!Init
  BY ActorInit
<1>2. IInv /\ [Next]_vars => [A!Next]_<<life, inbox, reply>>
  BY ActorStep
<1> QED
  BY <1>1, <1>2, ThreadInvariant, PTL DEF Spec, IsAnActor, A!Spec
=============================================================================
