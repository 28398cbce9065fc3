---------------------------- MODULE ThreadProps ----------------------------
(***************************************************************************)
(* What Thread promises to the code that pauses it, destroys it and asks   *)
(* its object, whichever threads run first.                                *)
(***************************************************************************)
EXTENDS Thread

\* Every variable has its type; the loop holds a task once, so that a mailbox
\* is never asked to receive more often than it has messages.
TypeOK ==
  /\ highPriorityQueue \in Seq(Tasks) /\ defaultQueue \in Seq(Tasks)
  /\ \A i, j \in DOMAIN defaultQueue : defaultQueue[i] = defaultQueue[j] => i = j
  /\ task \in Tasks \cup {NoTask} /\ executing \in BOOLEAN
  /\ canceled \subseteq posted /\ posted \subseteq Works /\ selfCanceled \subseteq canceled
  /\ child \in Lives /\ stopping \in BOOLEAN
  /\ owner \in {"using", "pause", "pausing", "paused", "destroy", "posting",
                "stoppable", "stop", "join", "gone"}
  /\ pausedSet \in BOOLEAN /\ resumedSet \in BOOLEAN /\ stoppableSet \in BOOLEAN
  /\ queue \in Seq(Messages) /\ handling \subseteq Messages /\ more \in BOOLEAN
  /\ client \in [Messages -> {"idle", "locked", "pushed", "done"}]
  /\ reply \in [Messages -> {"none", "pending", "value", "error"}]

\* Between pause() and resume() the object handles no message and no posted
\* work runs, although messages may be sent to it (thread.hpp, pause).
PausedProcessesNothing ==
  owner = "paused" => executing /\ task = "pause"

\* After cancel() returned the function of the work does not run, not even
\* if the loop had taken the work before: what it uses may be freed. The one
\* exception is a work that called cancel() itself, for which the call returns
\* although the function goes on (work_task_impl.hpp, cancel).
CanceledNeverRuns ==
  \A w \in canceled : executing /\ task = w => w \in selfCanceled

\* The owner uses the loop through a plain pointer, in pause() and in the
\* destructor, and finds it set and the loop there; and a message is handled
\* while the object is there (thread.hpp).
LoopIsThere ==
  /\ owner \in {"pausing", "posting", "stoppable", "stop"} => HasLoop /\ child # "returned"
  /\ handling # {} => HasObject

\* To those who ask, the thread is an actor (actor_ref.hpp, established_actor.hpp).
life == IF IsClosed THEN "dead" ELSE IF HasScheduler THEN "established" ELSE "aspiring"
inbox == IF handling = {} THEN queue ELSE <<CHOOSE m \in Messages : handling = {m}>> \o queue

A == INSTANCE Actor

\* Every behaviour of the thread is one of an actor: messages sent before the
\* object was made are kept, all are handled in their order, none after the
\* actor died, and every promise is kept or broken once.
IsAnActor == A!Spec

\* The destructor returns, wherever the new thread was when it began and
\* whatever was queued (thread.hpp, ~Thread).
DestructorReturns == owner = "destroy" ~> owner = "gone"

\* pause() returns, whatever is queued.
PauseReturns == owner = "pause" ~> owner = "paused"

\* An ask is answered, with an error if the actor goes first, unless the
\* owner keeps the thread paused (actor_ref.hpp, ask).
AsksAreAnswered ==
  \A m \in Messages : reply[m] = "pending" ~> reply[m] # "pending" \/ owner = "paused"
=============================================================================
