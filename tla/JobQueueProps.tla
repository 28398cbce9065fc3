--------------------------- MODULE JobQueueProps ---------------------------
(***************************************************************************)
(* The properties of JobQueue: what the runs check and the theorems state. *)
(***************************************************************************)
EXTENDS JobQueue

\* A post in flight: the nth of its job's worker.
Post == [job: JobIDs, nth: Nat \ {0}, found: BOOLEAN]

\* Every variable has its type, and every post in flight is one its worker made.
TypeOK ==
  /\ rows \in [JobIDs -> Row \cup {NoRow}]
  /\ statuses \in Seq(StatusRow)
  /\ pc \in [Requests -> Labels]
  /\ want \in [Requests -> Want]
  /\ ticket \in [Requests -> QueueIDs]
  /\ answer \in [Requests -> JobIDs \cup {NoAnswer, Refused}]
  /\ queued \in SUBSET JobIDs
  /\ emitted \in [JobIDs -> Seq(WorkerStatus)]
  /\ hasty \in SUBSET JobIDs
  /\ posts \in SUBSET Post
  /\ \A p \in posts : p.nth <= Len(emitted[p.job])

-----------------------------------------------------------------------------
\* Safety.

\* A job that FindByJobID, FindByJob or Jobs returns has been taken by the
\* queue: no failure of Enqueue or of a later statement shows a job that no
\* worker will ever run.
ShownJobWasQueued == \A j \in JobIDs : Shown(j) => j \in queued

\* A worker's status is recorded only under a job whose first status is
\* requested: however fast the worker is, its posts do not overtake the
\* server's own insert, because FindByJobID does not find the job before it.
RequestedComesFirst ==
  \A i \in DOMAIN statuses :
    statuses[i].nth # 0 =>
      \E k \in 1..(i - 1) : /\ statuses[k].job = statuses[i].job
                            /\ statuses[k].status = "requested"

\* The statuses recorded for a job are among those its worker posted, in the
\* order it posted them and each at most once, unless the worker gave up on a
\* post that the server was still handling.
RecordedInOrder ==
  \A i, k \in DOMAIN statuses :
    LET a == statuses[i]
        b == statuses[k]
    IN  /\ a.nth # 0 => /\ a.nth \in DOMAIN emitted[a.job]
                        /\ a.status = emitted[a.job][a.nth]
        /\ (/\ i < k /\ a.job = b.job /\ a.job \notin hasty
            /\ a.nth # 0 /\ b.nth # 0) => a.nth < b.nth

\* The job named in a reply has a row, for the mdgid and the style asked for. It
\* is a job of the request's own, with the bounds asked for, unless the request
\* gave an mdgid.
AnswerMatches ==
  \A r \in Requests :
    answer[r] \in JobIDs =>
      LET row == rows[answer[r]]
      IN  /\ row # NoRow /\ row.cell = want[r].cell /\ row.style = want[r].style
          /\ ByBounds(r) => answer[r] = r
          /\ answer[r] = r => row.extent = want[r].extent

\* A client that was handed the job of another request can ask for it by its id
\* from then on, whatever became of that request, of its handler or its worker.
OldJobIsThere ==
  \A r \in Requests : answer[r] \in JobIDs \ {r} => Shown(answer[r])

\* A reply names a job that fits its request: no request is answered with a job
\* for other bounds than it gave, and an old job is one the client can follow.
AnswerFitsRequest == AnswerMatches /\ OldJobIsThere

\* A request that was refused leaves no job to be seen and no worker's status,
\* although the queue may have taken the job and a worker may be running it.
RefusedStaysHidden ==
  \A r \in Requests :
    answer[r] = Refused =>
      /\ ~Shown(r)
      /\ \A i \in DOMAIN statuses : statuses[i].job = r => statuses[i].nth = 0

\* A job that has shown a worker's status never shows requested again.
NeverBackToRequested ==
  [][\A j \in JobIDs :
       Shown(j) /\ LatestStatus(j) # "requested" =>
         Shown(j)' /\ LatestStatus(j)' # "requested"]_vars

\* What is seen of each job, the variable shown of JobLifecycle.
ShownStatus == [j \in JobIDs |-> IF Shown(j) THEN LatestStatus(j) ELSE "none"]

Lifecycle == INSTANCE JobLifecycle WITH shown <- ShownStatus

\* The server over its tables, with its queue, workers and posts and whatever
\* fails of them, keeps the promise of JobLifecycle.
LifecycleSpec == Lifecycle!Spec

-----------------------------------------------------------------------------
\* The inductive invariant of JobQueueProofs, of which every safety property
\* above is a consequence.

Working == Labels \ {"ready", "find", "new", "done"}

\* What a request's row, reply and queue entry are at each label of its handler.
HandlerInv ==
  \A r \in Requests :
    /\ pc[r] \in {"ready", "find", "new"} => rows[r] = NoRow
    /\ pc[r] \in Working => rows[r] # NoRow
    /\ pc[r] \in {"queueID", "jobData", "status"} => r \in queued
    /\ pc[r] # "done" => answer[r] = NoAnswer
    /\ pc[r] = "find" => ~ByBounds(r)
    /\ rows[r] # NoRow => /\ rows[r].cell = want[r].cell
                          /\ rows[r].extent = want[r].extent
                          /\ rows[r].style = want[r].style
    /\ rows[r] # NoRow /\ rows[r].hasData =>
         r \in queued /\ pc[r] \in {"status", "done"} /\ answer[r] # Refused

IsRequested(i) == statuses[i].status = "requested" /\ statuses[i].nth = 0

\* A status is inserted when the handler of its job is done, by the server or,
\* once the job is requested, for its worker.
StatusInv ==
  \A i \in DOMAIN statuses :
    LET s == statuses[i]
    IN  /\ rows[s.job] # NoRow
        /\ pc[s.job] = "done"
        /\ s.nth = 0 => IsRequested(i) \/ answer[s.job] = Refused
        /\ s.nth # 0 => /\ s.status \in WorkerStatus
                        /\ rows[s.job].hasData
                        /\ \E k \in 1..(i - 1) :
                             IsRequested(k) /\ statuses[k].job = s.job

\* A post that was found is for a job that is requested.
PostInv ==
  \A p \in posts :
    p.found =>
      /\ rows[p.job] # NoRow
      /\ rows[p.job].hasData
      /\ \E k \in DOMAIN statuses : IsRequested(k) /\ statuses[k].job = p.job

\* A worker that is not hasty has at most one post in flight, the latest.
OrderInv ==
  /\ RecordedInOrder
  /\ \A p \in posts :
       p.job \notin hasty =>
         /\ PostsOf(p.job) = {p}
         /\ \A i \in DOMAIN statuses :
              statuses[i].job = p.job => statuses[i].nth < p.nth

\* LatestID is defined for every job with a status.
LatestInv ==
  \A j \in JobIDs :
    HasStatus(j) => \E i \in StatusIDs(j) : \A k \in StatusIDs(j) : k <= i

\* All of it: what a request, a status row and a post in flight are at any time.
IndInv ==
  /\ TypeOK
  /\ HandlerInv
  /\ AnswerMatches
  /\ StatusInv
  /\ PostInv
  /\ OrderInv
  /\ LatestInv

-----------------------------------------------------------------------------
\* Liveness, under Fairness and with no fault.

\* Every request the server received is answered.
EveryRequestAnswered ==
  \A r \in Requests : pc[r] \notin {"ready", "done"} ~> pc[r] = "done"

\* A job that is shown before its worker has posted anything ends up shown as
\* completed or failed.
PublishedInTimeIsReported ==
  \A j \in JobIDs :
    (Shown(j) /\ emitted[j] = <<>>) ~> (Shown(j) /\ LatestStatus(j) \in Terminal)

-----------------------------------------------------------------------------
\* What the documentation says and the code does not do.

\* "Make sure jobs that are the same receive the same JobID and are not
\* requeued into the system": two jobs for the same mdgid, sheet and style are
\* never both with the queue and unfinished.
SameJobQueuedOnce ==
  \A i, j \in queued :
    (/\ ~ByBounds(i) /\ ~ByBounds(j)
     /\ want[i].cell = want[j].cell /\ want[i].style = want[j].style
     /\ ~Finished(i) /\ ~Finished(j)) => i = j

\* "Job is already there just return info about the old job": a request is
\* answered with an old job only while its worker has posts to make or posts
\* in flight.
AnsweredJobIsThere ==
  [][\A r \in Requests :
       pc[r] = "find" /\ pc'[r] = "done" =>
         ~Finished(answer'[r]) \/ PostsOf(answer'[r]) # {}]_vars

\* "Jobs returns the jobs that the provider knows about": while no request is
\* being handled, a job that FindByJobID finds is listed by Jobs.
JobsListsEveryJob ==
  (\A r \in Requests : pc[r] \in {"ready", "done"}) =>
    \A j \in JobIDs : FindByJobID(j) => j \in Jobs(0)
=============================================================================
