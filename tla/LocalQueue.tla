----------------------------- MODULE LocalQueue -----------------------------
(***************************************************************************)
(* The queue of a server that renders its jobs itself. Handlers of requests*)
(* hand a jobInfo from a pool over an unbuffered channel to runners, which *)
(* share one Atlante: its JobID, and the Emitter of each sheet. The        *)
(* context of the runners ends with the process, and the channel is never  *)
(* closed. Nothing in the process starts the snapshot manager, so a run    *)
(* of a sheet with an image fails; it posts its end all the same.          *)
(***************************************************************************)
EXTENDS Naturals, Sequences

CONSTANTS
  Requests, \* the requests to queue a job, and the jobs they make
  Sheets,
  SheetOf,  \* the sheet of each job
  MaxRunners, \* the runners max_runners may ask for at most
  Infos,    \* jobInfo records, as many as can be in use at once
  Nobody    \* no request: nil, or the empty job id

ASSUME NobodyAssumption == Nobody \notin Requests
ASSUME InfosAssumption == Infos # {}
ASSUME MaxRunnersAssumption == MaxRunners \in Nat \ {0}
ASSUME SheetOfAssumption == SheetOf \in [Requests -> Sheets]

VARIABLES
  runners, \* the runners the provider was made with, max_runners or 1
  handler, \* where the handler of a request is
  info,    \* the jobInfo of a handler that sends
  job,     \* what each jobInfo points to
  senders, \* the handlers blocked on jobChannel, in their order
  run,     \* where each runner is
  taken,   \* the jobInfo a runner took
  given,   \* the request it was sent by (history)
  current, \* the job a runner runs
  jobID,   \* Atlante.JobID
  read,    \* the JobID a runner has read and not yet made an emitter of
  emitter, \* the job that the Emitter of each sheet posts to
  posts,   \* pairs of jobs: the run of the one has posted to the other
  ended,   \* the jobs whose run has posted its end
  mixed,   \* the jobs whose run was not alone (history)
  crashed  \* the process died

handlerVars == <<handler, info, senders>>
runnerVars == <<run, taken, given, current, read>>
vars == <<runners, handlerVars, job, runnerVars, jobID, emitter, posts, ended, mixed, crashed>>

HandlerLabels == {"idle", "sending", "encoding", "done"}
RunnerLabels == {"waiting", "taken", "filling", "named", "emitting", "running"}
Runners == 1..MaxRunners
NoInfo == CHOOSE i \in Infos : TRUE

Init ==
  /\ \E k \in Runners : runners = 1..k
  /\ handler = [r \in Requests |-> "idle"]
  /\ info = [r \in Requests |-> NoInfo]
  /\ job = [i \in Infos |-> Nobody]
  /\ senders = <<>>
  /\ run = [n \in Runners |-> "waiting"]
  /\ taken = [n \in Runners |-> NoInfo]
  /\ given = [n \in Runners |-> Nobody]
  /\ current = [n \in Runners |-> Nobody]
  /\ jobID = Nobody
  /\ read = [n \in Runners |-> Nobody]
  /\ emitter = [s \in Sheets |-> Nobody]
  /\ posts = {}
  /\ ended = {}
  /\ mixed = {}
  /\ crashed = FALSE
-----------------------------------------------------------------------------
\* Mutant: the runner puts the jobInfo back before it runs the job.
HeldBySenders == {info[r] : r \in {q \in Requests : handler[q] = "sending"}}

\* The jobInfos that are not in the pool.
Held ==
  {info[r] : r \in {q \in Requests : handler[q] = "sending"}}
    \cup {taken[n] : n \in {k \in runners : run[k] # "waiting"}}

\* Enqueue takes a jobInfo from the pool, fills it in and sends it. Which of
\* them, an old or a new one, makes no difference: it is reset first.
Enqueue(r) ==
  /\ handler[r] = "idle" /\ Infos \ Held # {}
  /\ handler' = [handler EXCEPT ![r] = "sending"]
  /\ LET i == CHOOSE i \in Infos \ Held : TRUE IN
       /\ info' = [info EXCEPT ![r] = i]
       /\ job' = [job EXCEPT ![i] = r]
  /\ senders' = Append(senders, r)
  /\ UNCHANGED <<runners, runnerVars, jobID, emitter, posts, ended, mixed, crashed>>

\* Base64Marshal has read the job, which a runner may be running.
Encoded(r) ==
  /\ handler[r] = "encoding"
  /\ handler' = [handler EXCEPT ![r] = "done"]
  /\ UNCHANGED <<runners, info, senders, job, runnerVars, jobID, emitter, posts, ended, mixed, crashed>>

Busy == {n \in runners : run[n] # "waiting"}

Receive(n) ==
  /\ run[n] = "waiting" /\ senders # <<>>
  /\ run' = [run EXCEPT ![n] = "taken"]
  /\ taken' = [taken EXCEPT ![n] = info[Head(senders)]]
  /\ given' = [given EXCEPT ![n] = Head(senders)]
  /\ handler' = [handler EXCEPT ![Head(senders)] = "encoding"]
  /\ info' = [info EXCEPT ![Head(senders)] = NoInfo]
  /\ senders' = Tail(senders)
  /\ mixed' = IF Busy = {} THEN mixed
              ELSE mixed \cup {Head(senders)} \cup {given[k] : k \in Busy}
  /\ UNCHANGED <<runners, job, current, read, jobID, emitter, posts, ended, crashed>>

\* The copy of the job shares its cell and its metadata with the handler's.
StartJob(n) ==
  /\ run[n] = "taken"
  /\ run' = [run EXCEPT ![n] = "filling"]
  /\ current' = [current EXCEPT ![n] = job[taken[n]]]
  /\ UNCHANGED <<runners, handlerVars, job, taken, given, read, jobID, emitter, posts, ended, mixed, crashed>>

\* The maps of Go are not for a reader and a writer at once: the process may die.
MapRace(n) ==
  /\ run[n] = "filling"
  /\ handler[current[n]] = "encoding"
  /\ crashed' = TRUE
  /\ UNCHANGED <<runners, handlerVars, job, runnerVars, jobID, emitter, posts, ended, mixed>>

\* Mutant: a.JobID is not set.
FillOnly(n) ==
  /\ run[n] = "filling"
  /\ run' = [run EXCEPT ![n] = "named"]
  /\ UNCHANGED <<runners, handlerVars, job, taken, given, current, read, jobID, emitter, posts, ended, mixed, crashed>>

\* The metadata go to the cell, and a.JobID is set.
FillMetaData(n) ==
  /\ run[n] = "filling"
  /\ run' = [run EXCEPT ![n] = "named"]
  /\ jobID' = current[n]
  /\ UNCHANGED <<runners, handlerVars, job, taken, given, current, read, emitter, posts, ended, mixed, crashed>>

ReadJobID(n) ==
  /\ run[n] = "named"
  /\ run' = [run EXCEPT ![n] = "emitting"]
  /\ read' = [read EXCEPT ![n] = jobID]
  /\ UNCHANGED <<runners, handlerVars, job, taken, given, current, jobID, emitter, posts, ended, mixed, crashed>>

\* Mutant: a sheet that has an emitter keeps it.
KeepEmitter(n) ==
  /\ run[n] = "emitting"
  /\ run' = [run EXCEPT ![n] = "running"]
  /\ emitter' = IF emitter[SheetOf[current[n]]] # Nobody THEN emitter
                ELSE [emitter EXCEPT ![SheetOf[current[n]]] = read[n]]
  /\ UNCHANGED <<runners, handlerVars, job, taken, given, current, read, jobID, posts, ended, mixed, crashed>>

NewEmitter(n) ==
  /\ run[n] = "emitting"
  /\ run' = [run EXCEPT ![n] = "running"]
  /\ emitter' = [emitter EXCEPT ![SheetOf[current[n]]] = read[n]]
  /\ UNCHANGED <<runners, handlerVars, job, taken, given, current, read, jobID, posts, ended, mixed, crashed>>

\* GeneratePDF posts to what the emitter of its sheet is at the time.
Emit(n) == posts' = posts \cup {<<current[n], emitter[SheetOf[current[n]]]>>}

Post(n) ==
  /\ run[n] = "running"
  /\ Emit(n)
  /\ UNCHANGED <<runners, handlerVars, job, runnerVars, jobID, emitter, ended, mixed, crashed>>

\* What a runner knows when it waits.
Waits(n) ==
  /\ run' = [run EXCEPT ![n] = "waiting"]
  /\ taken' = [taken EXCEPT ![n] = NoInfo]
  /\ given' = [given EXCEPT ![n] = Nobody]
  /\ current' = [current EXCEPT ![n] = Nobody]
  /\ read' = [read EXCEPT ![n] = Nobody]

\* Mutant: a runner whose job failed leaves.
FinishAndLeave(n) ==
  /\ run[n] = "running"
  /\ Emit(n)
  /\ ended' = ended \cup {current[n]}
  /\ Waits(n)
  /\ runners' \in {runners, runners \ {n}}
  /\ UNCHANGED <<handlerVars, job, jobID, emitter, mixed, crashed>>

\* Mutant: generatePDF leaves the last post to GeneratePDF.
FinishSilently(n) ==
  /\ run[n] = "running"
  /\ Waits(n)
  /\ UNCHANGED <<runners, handlerVars, job, jobID, emitter, posts, ended, mixed, crashed>>

\* generatePDF posts completed or failed; the jobInfo goes back to the pool.
Finish(n) ==
  /\ run[n] = "running"
  /\ Emit(n)
  /\ ended' = ended \cup {current[n]}
  /\ Waits(n)
  /\ UNCHANGED <<runners, handlerVars, job, jobID, emitter, mixed, crashed>>
-----------------------------------------------------------------------------
HandlerStep(r) == Encoded(r)
RunnerStep(n) ==
  \/ Receive(n) \/ StartJob(n) \/ FillMetaData(n) \/ ReadJobID(n)
  \/ NewEmitter(n) \/ Post(n) \/ Finish(n)

Next ==
  /\ ~crashed
  /\ \/ \E r \in Requests : Enqueue(r) \/ HandlerStep(r)
     \/ \E n \in runners : RunnerStep(n) \/ MapRace(n)

\* Runners and handlers go on; a rendering ends, as Render shows; no request has to come.
Spec ==
  /\ Init /\ [][Next]_vars
  /\ \A n \in Runners : WF_vars(~crashed /\ n \in runners /\ RunnerStep(n))
  /\ \A r \in Requests : WF_vars(~crashed /\ HandlerStep(r))
-----------------------------------------------------------------------------
(* Properties *)

TypeOK ==
  /\ runners \subseteq Runners
  /\ handler \in [Requests -> HandlerLabels] /\ info \in [Requests -> Infos]
  /\ job \in [Infos -> Requests \cup {Nobody}] /\ senders \in Seq(Requests)
  /\ run \in [Runners -> RunnerLabels] /\ taken \in [Runners -> Infos]
  /\ given \in [Runners -> Requests \cup {Nobody}]
  /\ current \in [Runners -> Requests \cup {Nobody}]
  /\ read \in [Runners -> Requests \cup {Nobody}] /\ jobID \in Requests \cup {Nobody}
  /\ emitter \in [Sheets -> Requests \cup {Nobody}]
  /\ posts \subseteq Requests \X Requests /\ ended \subseteq Requests
  /\ mixed \subseteq Requests /\ crashed \in BOOLEAN

\* A runner runs the job that was sent to it, although jobInfos are used
\* again while others run (local.go, jobRunner and Enqueue).
RunsWhatWasSent ==
  \A n \in runners : run[n] \notin {"waiting", "taken"} => current[n] = given[n]

\* A status is posted to another job only by a run that was not alone in the
\* process; with one runner every post names its job (atlante.go, generatePDF).
PostsNameTheirJob ==
  \A p \in posts : p[1] # p[2] => p[1] \in mixed

\* Enqueue returns, once the runners are through with the jobs before it
\* (local.go, Enqueue).
EnqueueReturns ==
  \A r \in Requests : handler[r] = "sending" ~> handler[r] # "sending" \/ crashed

\* A job the queue took is run to its end, which is posted, even if to a job
\* of another run (local.go, jobRunner; atlante.go, generatePDF).
EveryJobEnds ==
  \A r \in Requests :
    handler[r] = "encoding" ~> crashed \/ r \in ended
=============================================================================
