------------------------------ MODULE JobQueue ------------------------------
(***************************************************************************)
(* From a client's POST to the end of its job: the server's QueueHandler,  *)
(* the queue it submits to, the worker that renders the sheet and posts    *)
(* its progress, and the server's NotificationHandler, all of them over    *)
(* the coordinator's tables. A request and the row it may create have the  *)
(* same name: each request creates at most one row.                        *)
(***************************************************************************)
EXTENDS Coordinator, Progress

CONSTANTS
  Faults,    \* which of FaultKinds may happen
  MaxPosts,  \* a bound of the model: the posts a worker makes
  NoAnswer,  \* the request has not been answered
  Refused    \* the request was answered with an error

\* db:      a statement or a query fails, and the server stays up
\* enqueue: the queue returns an error, whether or not it took the job
\* noid:    the queue takes the job and returns no id
\* lose:    a post is lost on its way, or with the server that was handling it
\* abandon: a worker sees its connection fail while the server still has it
\* A handler or a worker that dies takes no more steps: Spec asks for none, so
\* a crash of either at any point is among its behaviours.
FaultKinds == {"db", "enqueue", "noid", "lose", "abandon"}

Requests == JobIDs

ASSUME FaultsAssumption == Faults \subseteq FaultKinds
ASSUME MaxPostsAssumption == MaxPosts \in Nat
ASSUME AnswerAssumption == NoAnswer # Refused /\ {NoAnswer, Refused} \cap JobIDs = {}

\* What a client asks for: a cell by its mdgid, or bounds, for which the grid
\* provider gives some cell that meets them with the bounds put in its place.
Want == [cell: Cells, extent: Extents \cup {Whole}, style: Styles]

VARIABLES
  pc,       \* where the handler of each request is
  want,     \* what each request asks for
  ticket,   \* the queue id Enqueue returned to the handler
  answer,   \* the job in the reply
  queued,   \* the jobs the queue took
  emitted,  \* the statuses each worker has posted, in order
  hasty,    \* the workers that moved on while a post of theirs was in flight
  posts     \* the posts in flight: sent, or found once FindByJobID has run

handler == <<pc, ticket, answer>>
workers == <<emitted, hasty>>
vars == <<rows, statuses, pc, want, ticket, answer, queued, emitted, hasty,
          posts>>

Labels == {"ready", "find", "new", "enqueue", "reject", "queueID", "jobData",
           "status", "done"}

Init ==
  /\ TablesInit
  /\ pc = [r \in Requests |-> "ready"]
  /\ want \in [Requests -> Want]
  /\ ticket = [r \in Requests |-> "null"]
  /\ answer = [r \in Requests |-> NoAnswer]
  /\ queued = {}
  /\ emitted = [j \in JobIDs |-> <<>>]
  /\ hasty = {}
  /\ posts = {}

-----------------------------------------------------------------------------
\* QueueHandler. Every step ends at a call that leaves the process.

Goto(r, label) == pc' = [pc EXCEPT ![r] = label]

Reply(r, a) ==
  /\ Goto(r, "done")
  /\ answer' = [answer EXCEPT ![r] = a]

ByBounds(r) == want[r].extent # Whole

\* Mutant: a job known by bounds is looked up as well, by the mdgid it got.
ReceiveFindsAll(r) ==
  /\ pc[r] = "ready"
  /\ Goto(r, "find")
  /\ UNCHANGED <<tables, want, ticket, answer, queued, workers, posts>>

\* Only a job known by mdgid is looked up; one known by bounds is always new.
Receive(r) ==
  /\ pc[r] = "ready"
  /\ Goto(r, IF ByBounds(r) THEN "new" ELSE "find")
  /\ UNCHANGED <<tables, want, ticket, answer, queued, workers, posts>>

Found(r) == FindByJob(want[r].cell, want[r].style)

\* The switch on the status of jobs[0]: j is returned instead of a new job.
Reusable(r, j) ==
  /\ IsFirst(j, Found(r))
  /\ LatestStatus(j) \in {"requested", "started"}

AnswerExisting(r) ==
  /\ pc[r] = "find"
  /\ \E j \in JobIDs : Reusable(r, j) /\ Reply(r, j)
  /\ UNCHANGED <<tables, want, ticket, queued, workers, posts>>

\* Mutant: the default case of the switch does not go on to a new job.
NoneFoundIfEmpty(r) ==
  /\ pc[r] = "find"
  /\ Found(r) = {}
  /\ Goto(r, "new")
  /\ UNCHANGED <<tables, want, ticket, answer, queued, workers, posts>>

\* A query that fails is logged and finds nothing.
NoneFound(r) ==
  /\ pc[r] = "find"
  /\ (\A j \in JobIDs : ~Reusable(r, j)) \/ "db" \in Faults
  /\ Goto(r, "new")
  /\ UNCHANGED <<tables, want, ticket, answer, queued, workers, posts>>

CreateJob(r) ==
  /\ pc[r] = "new"
  /\ NewJob(r, want[r].cell, want[r].extent, want[r].style)
  /\ Goto(r, "enqueue")
  /\ UNCHANGED <<want, ticket, answer, queued, workers, posts>>

CreateJobFails(r) ==
  /\ "db" \in Faults
  /\ pc[r] = "new"
  /\ Reply(r, Refused)
  /\ UNCHANGED <<tables, want, ticket, queued, workers, posts>>

Enqueue(r) ==
  /\ pc[r] = "enqueue"
  /\ queued' = queued \cup {r}
  /\ \E id \in {"set"} \cup (IF "noid" \in Faults THEN {"empty"} ELSE {}) :
       ticket' = [ticket EXCEPT ![r] = id]
  /\ Goto(r, "queueID")
  /\ UNCHANGED <<tables, want, answer, workers, posts>>

\* Mutant: the error of SubmitJob is logged and not returned.
EnqueueErrorIgnored(r) ==
  /\ "enqueue" \in Faults
  /\ pc[r] = "enqueue"
  /\ queued' \in {queued, queued \cup {r}}
  /\ ticket' = [ticket EXCEPT ![r] = "set"]
  /\ Goto(r, "queueID")
  /\ UNCHANGED <<tables, want, answer, workers, posts>>

\* An error does not say that the queue has not taken the job.
EnqueueFails(r) ==
  /\ "enqueue" \in Faults
  /\ pc[r] = "enqueue"
  /\ queued' \in {queued, queued \cup {r}}
  /\ Goto(r, "reject")
  /\ UNCHANGED <<tables, want, ticket, answer, workers, posts>>

\* Mutant: no return after the error reply, so the handler runs on.
RejectRunsOn(r) ==
  /\ pc[r] = "reject"
  /\ InsertStatus(r, "failed", 0)
  /\ Goto(r, "queueID")
  /\ answer' = [answer EXCEPT ![r] = Refused]
  /\ ticket' = [ticket EXCEPT ![r] = "set"]
  /\ UNCHANGED <<want, queued, workers, posts>>

Reject(r) ==
  /\ pc[r] = "reject"
  /\ \/ InsertStatus(r, "failed", 0)
     \/ "db" \in Faults /\ UNCHANGED tables
  /\ Reply(r, Refused)
  /\ UNCHANGED <<want, ticket, queued, workers, posts>>

\* UpdateField(jb, QJobID, JobData, Requested): one statement per field. An
\* error ends the loop, the handler ignores it and replies.
StoreQueueID(r) ==
  /\ pc[r] = "queueID"
  /\ UpdateQueueID(r, ticket[r])
  /\ Goto(r, "jobData")
  /\ UNCHANGED <<want, ticket, answer, queued, workers, posts>>

StoreJobData(r) ==
  /\ pc[r] = "jobData"
  /\ UpdateJobData(r)
  /\ Goto(r, "status")
  /\ UNCHANGED <<want, ticket, answer, queued, workers, posts>>

StoreRequested(r) ==
  /\ pc[r] = "status"
  /\ InsertStatus(r, "requested", 0)
  /\ Reply(r, r)
  /\ UNCHANGED <<want, ticket, queued, workers, posts>>

StoreFails(r) ==
  /\ "db" \in Faults
  /\ pc[r] \in {"queueID", "jobData", "status"}
  /\ Reply(r, r)
  /\ UNCHANGED <<tables, want, ticket, queued, workers, posts>>

-----------------------------------------------------------------------------
\* The worker, which follows one of the Scripts.

\* Mutant: the worker announces that its job is requested when it starts.
UpcomingRequested(j) ==
  IF emitted[j] = <<>> THEN {"requested"} ELSE {"processing", "failed"}

\* The statuses the worker of j may post next.
Upcoming(j) ==
  LET n == Len(emitted[j])
  IN  {script[n + 1] : script \in {sc \in Scripts :
                                     n < Len(sc) /\ Begins(emitted[j], sc)}}

Finished(j) == \E i \in DOMAIN emitted[j] : emitted[j][i] \in Terminal

PostsOf(j) == {p \in posts : p.job = j}

\* Mutant: the posts are made from a goroutine of their own.
DoesNotWait(j) == TRUE

\* http.Post returns when the server has answered, or the connection failed.
HasItsAnswer(j) == PostsOf(j) = {} \/ j \in hasty

NewPost(j) == [job |-> j, nth |-> Len(emitted[j]) + 1, found |-> FALSE]

WorkerPosts(j) ==
  /\ j \in queued
  /\ HasItsAnswer(j)
  /\ Len(emitted[j]) < MaxPosts
  /\ \E s \in Upcoming(j) : emitted' = [emitted EXCEPT ![j] = Append(@, s)]
  /\ posts' = posts \cup {NewPost(j)}
  /\ UNCHANGED <<tables, want, handler, queued, hasty>>

WorkerGivesUp(j) ==
  /\ "abandon" \in Faults
  /\ PostsOf(j) # {}
  /\ hasty' = hasty \cup {j}
  /\ UNCHANGED <<tables, want, handler, queued, emitted, posts>>

-----------------------------------------------------------------------------
\* NotificationHandler: FindByJobID, then UpdateField.

NotifyFind(p) ==
  /\ ~p.found
  /\ FindByJobID(p.job)
  /\ posts' = (posts \ {p}) \cup {[p EXCEPT !.found = TRUE]}
  /\ UNCHANGED <<tables, want, handler, queued, workers>>

\* 404: the worker logs the code and goes on.
NotifyUnknown(p) ==
  /\ ~p.found
  /\ ~FindByJobID(p.job) \/ "db" \in Faults
  /\ posts' = posts \ {p}
  /\ UNCHANGED <<tables, want, handler, queued, workers>>

NotifyUpdate(p) ==
  /\ p.found
  /\ InsertStatus(p.job, emitted[p.job][p.nth], p.nth)
  /\ posts' = posts \ {p}
  /\ UNCHANGED <<want, handler, queued, workers>>

NotifyUpdateFails(p) ==
  /\ "db" \in Faults
  /\ p.found
  /\ posts' = posts \ {p}
  /\ UNCHANGED <<tables, want, handler, queued, workers>>

PostLost(p) ==
  /\ "lose" \in Faults
  /\ posts' = posts \ {p}
  /\ UNCHANGED <<tables, want, handler, queued, workers>>

-----------------------------------------------------------------------------

HandlerStep(r) ==
  \/ AnswerExisting(r) \/ NoneFound(r)
  \/ CreateJob(r) \/ CreateJobFails(r)
  \/ Enqueue(r) \/ EnqueueFails(r) \/ Reject(r)
  \/ StoreQueueID(r) \/ StoreJobData(r) \/ StoreRequested(r) \/ StoreFails(r)

NotifyStep(p) ==
  NotifyFind(p) \/ NotifyUnknown(p) \/ NotifyUpdate(p) \/ NotifyUpdateFails(p)

Next ==
  \/ \E r \in Requests : Receive(r) \/ HandlerStep(r)
  \/ \E j \in JobIDs : WorkerPosts(j) \/ WorkerGivesUp(j)
  \/ \E p \in posts : NotifyStep(p) \/ PostLost(p)

Spec == Init /\ [][Next]_vars

\* Handlers are goroutines the Go scheduler runs; the queue runs every job it
\* took up to the end of its rendering. Clients need not ask for anything.
Fairness ==
  /\ \A r \in Requests : WF_vars(HandlerStep(r))
  /\ \A j \in JobIDs : WF_vars(~Finished(j) /\ WorkerPosts(j))
  /\ WF_vars(\E p \in posts : NotifyStep(p))

FairSpec == Spec /\ Fairness
=============================================================================
