-------------------------- MODULE LocalQueueProofs --------------------------
(***************************************************************************)
(* The local queue, for any requests, sheets and runners: a runner runs    *)
(* what was sent to it, and a status can go to another job only from a run *)
(* that was not alone.                                                     *)
(***************************************************************************)
EXTENDS LocalQueue, SequenceTheorems, TLAPS

Working(n) == run[n] # "waiting"

\* The handlers in the channel's queue are those that send, each once.
SendersInv ==
  /\ \A i, k \in DOMAIN senders : senders[i] = senders[k] => i = k
  /\ \A i \in DOMAIN senders : handler[senders[i]] = "sending"

\* A jobInfo holds the request of the one who has it, a handler or a runner:
\* so no two have the same.
InfoInv ==
  /\ \A r \in Requests : handler[r] = "sending" => job[info[r]] = r
  /\ \A n \in runners : Working(n) =>
       /\ given[n] \in Requests /\ handler[given[n]] \in {"encoding", "done"}
       /\ job[taken[n]] = given[n]
  /\ RunsWhatWasSent

\* An emitter that is made is one for a job, and the run that was alone so far
\* finds its own job in what it shares.
EmitterInv ==
  \A n \in runners :
    /\ run[n] \in {"named", "emitting", "running"} => jobID \in Requests
    /\ run[n] = "emitting" => read[n] \in Requests
    /\ run[n] = "running" => emitter[SheetOf[given[n]]] \in Requests
    /\ given[n] \notin mixed =>
         /\ run[n] = "named" => jobID = given[n]
         /\ run[n] = "emitting" => read[n] = given[n]
         /\ run[n] = "running" => emitter[SheetOf[given[n]]] = given[n]

\* Two runs at a time are known to have been together.
MixedInv ==
  \A n, k \in runners : Working(n) /\ Working(k) /\ n # k => given[n] \in mixed

IInv == TypeOK /\ SendersInv /\ InfoInv /\ EmitterInv /\ MixedInv /\ PostsNameTheirJob
-----------------------------------------------------------------------------
\* At first nobody sends and nobody runs.
LEMMA InitOK == Init => IInv
<1> SUFFICES ASSUME Init PROVE IInv
  OBVIOUS
<1>1. PICK k \in Runners : runners = 1..k
  BY DEF Init
<1>2. NoInfo \in Infos
  BY InfosAssumption DEF NoInfo
<1>3. runners \subseteq Runners
  BY <1>1, MaxRunnersAssumption DEF Runners
<1>4. TypeOK
  BY <1>2, <1>3, EmptySeq DEF Init, TypeOK, HandlerLabels, RunnerLabels
<1>5. \A n \in runners : run[n] = "waiting"
  BY <1>3 DEF Init
<1>6. SendersInv
  BY DEF Init, SendersInv
<1>7. InfoInv
  BY <1>5 DEF Init, InfoInv, Working, RunsWhatWasSent
<1>8. EmitterInv /\ MixedInv /\ PostsNameTheirJob
  BY <1>5 DEF Init, EmitterInv, MixedInv, Working, PostsNameTheirJob
<1> QED
  BY <1>4, <1>6, <1>7, <1>8 DEF IInv

\* What Enqueue does to the queue of the channel.
LEMMA AppendFacts ==
  ASSUME TypeOK, NEW r \in Requests, senders' = Append(senders, r)
  PROVE  /\ senders' \in Seq(Requests)
         /\ Len(senders) \in Nat
         /\ DOMAIN senders = 1..Len(senders)
         /\ DOMAIN senders' = 1..(Len(senders) + 1)
         /\ \A i \in 1..Len(senders) : senders'[i] = senders[i]
         /\ senders'[Len(senders) + 1] = r
BY AppendProperties DEF TypeOK

\* What Receive does to it.
LEMMA TailFacts ==
  ASSUME TypeOK, SendersInv, senders # <<>>, senders' = Tail(senders)
  PROVE  /\ Head(senders) \in Requests /\ handler[Head(senders)] = "sending"
         /\ senders' \in Seq(Requests)
         /\ \A i \in DOMAIN senders' : i + 1 \in DOMAIN senders /\ senders'[i] = senders[i + 1]
         /\ \A i \in DOMAIN senders' : senders'[i] # Head(senders)
         /\ \A i, k \in DOMAIN senders' : senders'[i] = senders'[k] => i = k
<1>1. senders \in Seq(Requests)
  BY DEF TypeOK
<1>2. /\ Len(senders) \in Nat \ {0}
      /\ DOMAIN senders = 1..Len(senders)
      /\ Head(senders) = senders[1] /\ Head(senders) \in Requests
      /\ senders' \in Seq(Requests)
      /\ DOMAIN senders' = 1..(Len(senders) - 1)
      /\ \A i \in 1..(Len(senders) - 1) : senders'[i] = senders[i + 1]
  BY <1>1, HeadTailProperties
<1>3. \A i \in DOMAIN senders' : i \in Nat /\ i >= 1 /\ i + 1 \in DOMAIN senders
  BY <1>2
<1>4. \A i, k \in DOMAIN senders' : senders'[i] = senders'[k] => i = k
  <2> SUFFICES ASSUME NEW i \in DOMAIN senders', NEW k \in DOMAIN senders',
                      senders'[i] = senders'[k]
               PROVE  i = k
    OBVIOUS
  <2>1. i + 1 = k + 1
    BY <1>2, <1>3 DEF SendersInv
  <2> QED
    BY <1>3, <2>1
<1>5. \A i \in DOMAIN senders' : senders'[i] # Head(senders)
  <2> SUFFICES ASSUME NEW i \in DOMAIN senders', senders'[i] = Head(senders) PROVE FALSE
    OBVIOUS
  <2>1. i + 1 = 1
    BY <1>2, <1>3 DEF SendersInv
  <2> QED
    BY <1>3, <2>1
<1>6. handler[Head(senders)] = "sending"
  BY <1>2 DEF SendersInv
<1> QED
  BY <1>2, <1>3, <1>4, <1>5, <1>6

\* Enqueue: the jobInfo that is filled in is nobody's.
LEMMA EnqueueStep ==
  ASSUME IInv, NEW r \in Requests, Enqueue(r)
  PROVE  IInv'
<1>1. TypeOK /\ SendersInv /\ InfoInv /\ EmitterInv /\ MixedInv /\ PostsNameTheirJob
  BY DEF IInv
<1> DEFINE i == CHOOSE j \in Infos \ Held : TRUE
<1>2. /\ handler[r] = "idle"
      /\ handler' = [handler EXCEPT ![r] = "sending"]
      /\ info' = [info EXCEPT ![r] = i]
      /\ job' = [job EXCEPT ![i] = r]
      /\ senders' = Append(senders, r)
      /\ UNCHANGED <<runners, runnerVars, jobID, emitter, posts, ended, mixed, crashed>>
  BY DEF Enqueue
<1>3. i \in Infos /\ i \notin Held
  BY DEF Enqueue
<1> HIDE DEF i
<1>4. /\ \A q \in Requests : handler[q] = "sending" => info[q] # i
      /\ \A n \in runners : Working(n) => taken[n] # i
  BY <1>3 DEF Held, Working
<1>5. TypeOK'
  BY <1>1, <1>2, <1>3, AppendFacts DEF TypeOK, HandlerLabels, runnerVars
<1>6. SendersInv'
  <2>1. \A k \in 1..Len(senders) : senders[k] # r /\ senders[k] \in Requests
                                   /\ handler[senders[k]] = "sending"
    BY <1>1, <1>2, AppendFacts, ElementOfSeq DEF SendersInv, TypeOK
  <2> QED
    BY <1>1, <1>2, <2>1, AppendFacts DEF SendersInv, TypeOK
<1>7. InfoInv'
  <2>1. \A q \in Requests : handler'[q] = "sending" => job'[info'[q]] = q
    BY <1>1, <1>2, <1>3, <1>4 DEF InfoInv, TypeOK
  <2>2. \A n \in runners : Working(n) =>
          /\ given[n] \in Requests /\ handler'[given[n]] \in {"encoding", "done"}
          /\ job'[taken[n]] = given[n]
    BY <1>1, <1>2, <1>3, <1>4 DEF InfoInv, TypeOK
  <2> QED
    BY <1>1, <1>2, <2>1, <2>2 DEF InfoInv, Working, RunsWhatWasSent, runnerVars
<1>8. EmitterInv' /\ MixedInv' /\ PostsNameTheirJob'
  BY <1>1, <1>2 DEF EmitterInv, MixedInv, PostsNameTheirJob, Working, runnerVars
<1> QED
  BY <1>5, <1>6, <1>7, <1>8 DEF IInv

\* Encoded: the handler is through.
LEMMA EncodedStep ==
  ASSUME IInv, NEW r \in Requests, Encoded(r)
  PROVE  IInv'
<1>1. TypeOK /\ SendersInv /\ InfoInv /\ EmitterInv /\ MixedInv /\ PostsNameTheirJob
  BY DEF IInv
<1>2. /\ handler[r] = "encoding"
      /\ handler' = [handler EXCEPT ![r] = "done"]
      /\ UNCHANGED <<runners, info, senders, job, runnerVars, jobID, emitter, posts, ended, mixed, crashed>>
  BY DEF Encoded
<1>3. TypeOK'
  BY <1>1, <1>2 DEF TypeOK, HandlerLabels, runnerVars
<1>4. SendersInv'
  BY <1>1, <1>2 DEF SendersInv, TypeOK
<1>5. InfoInv'
  BY <1>1, <1>2 DEF InfoInv, TypeOK, Working, RunsWhatWasSent, runnerVars
<1>6. EmitterInv' /\ MixedInv' /\ PostsNameTheirJob'
  BY <1>1, <1>2 DEF EmitterInv, MixedInv, PostsNameTheirJob, Working, runnerVars
<1> QED
  BY <1>3, <1>4, <1>5, <1>6 DEF IInv

\* Receive: the runner has the jobInfo of the oldest sender; those who run
\* already are no longer alone.
LEMMA ReceiveStep ==
  ASSUME IInv, NEW n \in runners, Receive(n)
  PROVE  IInv'
<1>1. TypeOK /\ SendersInv /\ InfoInv /\ EmitterInv /\ MixedInv /\ PostsNameTheirJob
  BY DEF IInv
<1> DEFINE h == Head(senders)
<1>2. /\ run[n] = "waiting" /\ senders # <<>>
      /\ run' = [run EXCEPT ![n] = "taken"]
      /\ taken' = [taken EXCEPT ![n] = info[h]]
      /\ given' = [given EXCEPT ![n] = h]
      /\ handler' = [handler EXCEPT ![h] = "encoding"]
      /\ info' = [info EXCEPT ![h] = NoInfo]
      /\ senders' = Tail(senders)
      /\ mixed' = IF Busy = {} THEN mixed
                  ELSE mixed \cup {h} \cup {given[k] : k \in Busy}
      /\ UNCHANGED <<runners, job, current, read, jobID, emitter, posts, ended, crashed>>
  BY DEF Receive
<1>3. /\ h \in Requests /\ handler[h] = "sending" /\ job[info[h]] = h
      /\ senders' \in Seq(Requests) /\ n \in Runners /\ NoInfo \in Infos
  BY <1>1, <1>2, TailFacts, InfosAssumption DEF InfoInv, TypeOK, NoInfo
<1> HIDE DEF h
<1>4. /\ mixed \subseteq mixed'
      /\ \A k \in runners : Working(k) => given[k] \in mixed' /\ h \in mixed'
  BY <1>2 DEF Busy, Working
<1>5. mixed' \subseteq Requests
  BY <1>1, <1>2, <1>3 DEF Busy, InfoInv, TypeOK, Working
<1>6. TypeOK'
  BY <1>1, <1>2, <1>3, <1>5 DEF TypeOK, HandlerLabels, RunnerLabels
<1>7. SendersInv'
  BY <1>1, <1>2, <1>3, TailFacts DEF SendersInv, TypeOK, h
<1>8. InfoInv'
  <2>1. \A q \in Requests : handler'[q] = "sending" => job'[info'[q]] = q
    BY <1>1, <1>2, <1>3 DEF InfoInv, TypeOK
  <2>2. ASSUME NEW k \in runners, Working(k)'
        PROVE  /\ given'[k] \in Requests /\ handler'[given'[k]] \in {"encoding", "done"}
               /\ job'[taken'[k]] = given'[k]
    <3>1. CASE k = n
      BY <1>1, <1>2, <1>3, <3>1 DEF TypeOK
    <3>2. CASE k # n
      <4>1. Working(k) /\ given'[k] = given[k] /\ taken'[k] = taken[k]
        BY <1>1, <1>2, <2>2, <3>2 DEF TypeOK, Working
      <4>2. given[k] \in Requests /\ handler[given[k]] \in {"encoding", "done"}
            /\ job[taken[k]] = given[k]
        BY <1>1, <4>1 DEF InfoInv
      <4> QED
        BY <1>1, <1>2, <1>3, <4>1, <4>2 DEF TypeOK
    <3> QED
      BY <3>1, <3>2
  <2>3. RunsWhatWasSent'
    BY <1>1, <1>2, <1>3 DEF InfoInv, RunsWhatWasSent, TypeOK
  <2> QED
    BY <1>2, <2>1, <2>2, <2>3 DEF InfoInv
<1>9. EmitterInv'
  BY <1>1, <1>2, <1>3, <1>4 DEF EmitterInv, TypeOK
<1>10. MixedInv'
  BY <1>1, <1>2, <1>3, <1>4 DEF MixedInv, TypeOK, Working
<1>11. PostsNameTheirJob'
  BY <1>1, <1>2, <1>4 DEF PostsNameTheirJob
<1> QED
  BY <1>6, <1>7, <1>8, <1>9, <1>10, <1>11 DEF IInv

\* StartJob, FillMetaData, ReadJobID and NewEmitter: the runner goes on with the
\* job it was given, which is its alone or is known to be mixed.
LEMMA PrepareStep ==
  ASSUME IInv, NEW n \in runners,
         StartJob(n) \/ FillMetaData(n) \/ ReadJobID(n) \/ NewEmitter(n)
  PROVE  IInv'
<1>1. TypeOK /\ SendersInv /\ InfoInv /\ EmitterInv /\ MixedInv /\ PostsNameTheirJob
  BY DEF IInv
<1>2. /\ Working(n) /\ run'[n] # "waiting" /\ n \in Runners
      /\ \A k \in runners \ {n} : run'[k] = run[k] /\ current'[k] = current[k] /\ read'[k] = read[k]
      /\ UNCHANGED <<runners, handlerVars, job, taken, given, posts, ended, mixed, crashed>>
  BY <1>1 DEF StartJob, FillMetaData, ReadJobID, NewEmitter, Working, TypeOK
<1>3. /\ given[n] \in Requests /\ job[taken[n]] = given[n]
      /\ run[n] # "taken" => current[n] = given[n]
      /\ \A k \in runners \ {n} : Working(k) => given[k] \in mixed
      /\ SheetOf[given[n]] \in Sheets
  BY <1>1, <1>2, SheetOfAssumption DEF InfoInv, RunsWhatWasSent, MixedInv, Working
<1>4. /\ StartJob(n) => run'[n] = "filling" /\ current'[n] = given[n]
      /\ ~StartJob(n) => run[n] # "taken" /\ UNCHANGED current
      /\ FillMetaData(n) \/ UNCHANGED jobID
      /\ NewEmitter(n) \/ UNCHANGED emitter
      /\ ReadJobID(n) \/ UNCHANGED read
      /\ FillMetaData(n) => run'[n] = "named" /\ jobID' = given[n]
      /\ ReadJobID(n) => run'[n] = "emitting" /\ read'[n] = jobID /\ run[n] = "named"
      /\ NewEmitter(n) => /\ run'[n] = "running" /\ run[n] = "emitting"
                          /\ emitter' = [emitter EXCEPT ![SheetOf[given[n]]] = read[n]]
  BY <1>1, <1>2, <1>3 DEF StartJob, FillMetaData, ReadJobID, NewEmitter, TypeOK
<1>5. TypeOK'
  <2>1. /\ run' \in [Runners -> RunnerLabels]
        /\ current' \in [Runners -> Requests \cup {Nobody}]
        /\ read' \in [Runners -> Requests \cup {Nobody}]
        /\ jobID' \in Requests \cup {Nobody}
        /\ emitter' \in [Sheets -> Requests \cup {Nobody}]
    BY <1>1, <1>2 DEF StartJob, FillMetaData, ReadJobID, NewEmitter, TypeOK, RunnerLabels
  <2> QED
    BY <1>1, <1>2, <2>1 DEF TypeOK, handlerVars
<1>6. SendersInv'
  BY <1>1, <1>2 DEF SendersInv, handlerVars
<1>7. InfoInv'
  <2>1. RunsWhatWasSent'
    BY <1>1, <1>2, <1>3, <1>4 DEF InfoInv, RunsWhatWasSent
  <2> QED
    BY <1>1, <1>2, <2>1 DEF InfoInv, Working, handlerVars
<1>8. EmitterInv'
  <2> SUFFICES ASSUME NEW k \in runners
               PROVE  /\ run'[k] \in {"named", "emitting", "running"} => jobID' \in Requests
                      /\ run'[k] = "emitting" => read'[k] \in Requests
                      /\ run'[k] = "running" => emitter'[SheetOf[given[k]]] \in Requests
                      /\ given[k] \notin mixed =>
                           /\ run'[k] = "named" => jobID' = given[k]
                           /\ run'[k] = "emitting" => read'[k] = given[k]
                           /\ run'[k] = "running" => emitter'[SheetOf[given[k]]] = given[k]
    BY <1>2 DEF EmitterInv
  <2>1. CASE k = n
    BY <1>1, <1>2, <1>3, <1>4, <2>1 DEF EmitterInv, StartJob, FillMetaData, ReadJobID, NewEmitter, TypeOK
  <2>2. CASE k # n /\ ~Working(k)
    BY <1>2, <2>2 DEF Working
  <2>3. CASE k # n /\ Working(k)
    <3>1. given[k] \in mixed /\ run'[k] = run[k] /\ read'[k] = read[k]
      BY <1>2, <1>3, <2>3
    <3>2. run[k] \in {"named", "emitting", "running"} => jobID' \in Requests
      BY <1>1, <1>3, <1>4 DEF EmitterInv
    <3>3. run[k] = "running" => emitter'[SheetOf[given[k]]] \in Requests
      <4>1. ASSUME run[k] = "running"
            PROVE  emitter[SheetOf[given[k]]] \in Requests /\ SheetOf[given[k]] \in Sheets
        BY <1>1, <2>3, <4>1, SheetOfAssumption DEF EmitterInv, InfoInv
      <4>2. NewEmitter(n) => read[n] \in Requests
        BY <1>1, <1>4 DEF EmitterInv
      <4> QED
        BY <1>1, <1>4, <4>1, <4>2 DEF TypeOK
    <3> QED
      BY <1>1, <3>1, <3>2, <3>3 DEF EmitterInv
  <2> QED
    BY <2>1, <2>2, <2>3
<1>9. MixedInv'
  <2>1. \A k \in runners : Working(k)' <=> Working(k)
    BY <1>2 DEF Working
  <2> QED
    BY <1>1, <1>2, <2>1 DEF MixedInv
<1>10. PostsNameTheirJob'
  BY <1>1, <1>2 DEF PostsNameTheirJob
<1> QED
  BY <1>5, <1>6, <1>7, <1>8, <1>9, <1>10 DEF IInv

\* Post and Finish: what is posted goes to the emitter of the runner's sheet.
LEMMA EmitStep ==
  ASSUME IInv, NEW n \in runners, Post(n) \/ Finish(n)
  PROVE  IInv'
<1>1. TypeOK /\ SendersInv /\ InfoInv /\ EmitterInv /\ MixedInv /\ PostsNameTheirJob
  BY DEF IInv
<1>2. /\ run[n] = "running" /\ n \in Runners /\ given[n] \in Requests /\ current[n] = given[n]
      /\ emitter[SheetOf[given[n]]] \in Requests
      /\ given[n] \notin mixed => emitter[SheetOf[given[n]]] = given[n]
  BY <1>1 DEF Post, Finish, InfoInv, RunsWhatWasSent, EmitterInv, Working, TypeOK
<1>3. /\ UNCHANGED <<runners, handlerVars, job, jobID, emitter, mixed, crashed>>
      /\ posts' = posts \cup {<<given[n], emitter[SheetOf[given[n]]]>>}
      /\ ended' \subseteq ended \cup {given[n]}
      /\ UNCHANGED runnerVars \/ Waits(n)
  BY <1>2 DEF Post, Finish, Emit, runnerVars
<1>4. \A k \in runners : \/ ~Working(k)'
                         \/ /\ run'[k] = run[k] /\ given'[k] = given[k] /\ taken'[k] = taken[k]
                            /\ current'[k] = current[k] /\ read'[k] = read[k] /\ Working(k)
  BY <1>1, <1>3 DEF Waits, runnerVars, Working, TypeOK
<1>5. TypeOK'
  <2>1. /\ run' \in [Runners -> RunnerLabels] /\ taken' \in [Runners -> Infos]
        /\ given' \in [Runners -> Requests \cup {Nobody}]
        /\ current' \in [Runners -> Requests \cup {Nobody}]
        /\ read' \in [Runners -> Requests \cup {Nobody}]
    BY <1>1, <1>3, InfosAssumption DEF Waits, runnerVars, TypeOK, RunnerLabels, NoInfo
  <2> QED
    BY <1>1, <1>2, <1>3, <2>1 DEF TypeOK, handlerVars
<1>6. SendersInv'
  BY <1>1, <1>3 DEF SendersInv, handlerVars
<1>7. InfoInv'
  <2>1. RunsWhatWasSent'
    BY <1>1, <1>3, <1>4 DEF InfoInv, RunsWhatWasSent, Working
  <2> QED
    BY <1>1, <1>3, <1>4, <2>1 DEF InfoInv, handlerVars
<1>8. EmitterInv'
  BY <1>1, <1>3, <1>4 DEF EmitterInv, Working
<1>9. MixedInv'
  BY <1>1, <1>3, <1>4 DEF MixedInv
<1>10. PostsNameTheirJob'
  BY <1>1, <1>2, <1>3 DEF PostsNameTheirJob
<1> QED
  BY <1>5, <1>6, <1>7, <1>8, <1>9, <1>10 DEF IInv
-----------------------------------------------------------------------------
\* IInv holds in every state.
THEOREM LocalQueueInvariant == Spec => []IInv
<1>1. ASSUME IInv, [Next]_vars PROVE IInv'
  <2>1. CASE UNCHANGED vars
    BY <1>1, <2>1 DEF vars, handlerVars, runnerVars, IInv, TypeOK, SendersInv, InfoInv, EmitterInv,
       MixedInv, PostsNameTheirJob, RunsWhatWasSent, Working
  <2>2. ASSUME NEW n \in runners, MapRace(n) PROVE IInv'
    BY <1>1, <2>2 DEF MapRace, handlerVars, runnerVars, IInv, TypeOK, SendersInv, InfoInv, EmitterInv,
       MixedInv, PostsNameTheirJob, RunsWhatWasSent, Working
  <2> QED
    BY <1>1, <2>1, <2>2, EnqueueStep, EncodedStep, ReceiveStep, PrepareStep, EmitStep
       DEF Next, HandlerStep, RunnerStep
<1> QED
  BY <1>1, InitOK, PTL DEF Spec

\* Every variable keeps its type: what is posted goes to some job.
THEOREM LocalQueueTypeOK == Spec => []TypeOK
<1>1. IInv => TypeOK
  BY DEF IInv
<1> QED
  BY <1>1, LocalQueueInvariant, PTL

\* A runner runs the job that was sent to it (local.go, jobRunner and Enqueue).
THEOREM RunnerRunsItsJob == Spec => []RunsWhatWasSent
<1>1. IInv => RunsWhatWasSent
  BY DEF IInv, InfoInv
<1> QED
  BY <1>1, LocalQueueInvariant, PTL

\* Only a run that was not alone posts to another job (atlante.go, generatePDF).
THEOREM LonePostsNameTheirJob == Spec => []PostsNameTheirJob
<1>1. IInv => PostsNameTheirJob
  BY DEF IInv
<1> QED
  BY <1>1, LocalQueueInvariant, PTL
=============================================================================
