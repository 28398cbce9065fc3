-------------------------- MODULE JobQueueProofs --------------------------
(***************************************************************************)
(* The safety properties of JobQueueProps are invariants of JobQueue for   *)
(* every number of requests, cells and styles, and whatever faults happen. *)
(***************************************************************************)
EXTENDS JobQueueProps, SequenceTheorems, TLAPS

-----------------------------------------------------------------------------
\* The table job_statuses.

LEMMA StatusRowFacts ==
  ASSUME TypeOK
  PROVE  /\ DOMAIN statuses = 1..Len(statuses) /\ Len(statuses) \in Nat
         /\ \A i \in DOMAIN statuses : /\ statuses[i].job \in JobIDs
                                      /\ statuses[i].status \in Status
                                      /\ statuses[i].nth \in Nat
<1>1. statuses \in Seq(StatusRow)
  BY DEF TypeOK
<1>2. /\ DOMAIN statuses = 1..Len(statuses) /\ Len(statuses) \in Nat
      /\ \A i \in DOMAIN statuses : statuses[i] \in StatusRow
  BY <1>1
<1> QED  BY <1>2 DEF StatusRow

\* A statement that inserts a status adds one record after the others.
LEMMA InsertFacts ==
  ASSUME TypeOK, NEW j \in JobIDs, NEW s \in Status, NEW n \in Nat,
         InsertStatus(j, s, n)
  PROVE  /\ statuses' \in Seq(StatusRow)
         /\ DOMAIN statuses = 1..Len(statuses)
         /\ DOMAIN statuses' = 1..(Len(statuses) + 1)
         /\ Len(statuses) \in Nat
         /\ \A i \in DOMAIN statuses : statuses'[i] = statuses[i]
         /\ statuses'[Len(statuses) + 1] = [job |-> j, status |-> s, nth |-> n]
         /\ rows' = rows
<1> DEFINE rec == [job |-> j, status |-> s, nth |-> n]
<1>1. statuses \in Seq(StatusRow) /\ rec \in StatusRow
  BY DEF TypeOK, StatusRow
<1>2. statuses' = Append(statuses, rec) /\ rows' = rows
  BY DEF InsertStatus
<1> HIDE DEF rec
<1>3. /\ Append(statuses, rec) \in Seq(StatusRow)
      /\ Len(Append(statuses, rec)) = Len(statuses) + 1
      /\ \A i \in 1..Len(statuses) : Append(statuses, rec)[i] = statuses[i]
      /\ Append(statuses, rec)[Len(statuses) + 1] = rec
  BY <1>1, AppendProperties
<1>4. /\ DOMAIN statuses = 1..Len(statuses)
      /\ Len(statuses) \in Nat
      /\ DOMAIN Append(statuses, rec) = 1..(Len(statuses) + 1)
  BY <1>1, <1>3
<1> QED  BY <1>2, <1>3, <1>4 DEF rec

\* An insert gives its job a latest status and leaves those of the others.
LEMMA LatestAfterInsert ==
  ASSUME TypeOK, LatestInv, NEW j \in JobIDs, NEW s \in Status, NEW n \in Nat,
         InsertStatus(j, s, n)
  PROVE  /\ LatestInv'
         /\ HasStatus(j)' /\ LatestStatus(j)' = s
         /\ \A k \in JobIDs \ {j} :
              /\ HasStatus(k)' <=> HasStatus(k)
              /\ HasStatus(k) => LatestStatus(k)' = LatestStatus(k)
<1> DEFINE new == Len(statuses) + 1
<1>1. /\ DOMAIN statuses = 1..Len(statuses)
      /\ DOMAIN statuses' = 1..new
      /\ Len(statuses) \in Nat
      /\ \A i \in DOMAIN statuses : statuses'[i] = statuses[i]
      /\ statuses'[new] = [job |-> j, status |-> s, nth |-> n]
  BY InsertFacts
<1> HIDE DEF new
<1>2. /\ new \in StatusIDs(j)' 
      /\ \A k \in StatusIDs(j)' : k \in Nat /\ k <= new
  BY <1>1 DEF StatusIDs, new
<1>3. LatestID(j)' = new
  <2>1. LatestID(j)' \in StatusIDs(j)'
        /\ \A k \in StatusIDs(j)' : k <= LatestID(j)'
    BY <1>2 DEF LatestID
  <2> QED  BY <2>1, <1>2, <1>1 DEF new
<1>4. ASSUME NEW k \in JobIDs \ {j}
      PROVE  StatusIDs(k)' = StatusIDs(k)
  BY <1>1 DEF StatusIDs, new
<1>5. ASSUME NEW k \in JobIDs, HasStatus(k)
      PROVE  LatestID(k) \in StatusIDs(k)
  BY <1>5 DEF LatestInv, LatestID
<1>6. ASSUME NEW k \in JobIDs \ {j}, HasStatus(k)
      PROVE  LatestStatus(k)' = LatestStatus(k)
  <2>1. LatestID(k)' = LatestID(k)
    BY <1>4 DEF LatestID
  <2>2. LatestID(k) \in DOMAIN statuses
    BY <1>5, <1>6 DEF StatusIDs
  <2> QED  BY <2>1, <2>2, <1>1 DEF LatestStatus
<1>7. \A k \in JobIDs \ {j} : HasStatus(k)' <=> HasStatus(k)
  BY <1>4 DEF HasStatus
<1>8. HasStatus(j)' /\ LatestStatus(j)' = s
  BY <1>1, <1>2, <1>3 DEF HasStatus, LatestStatus
<1>9. LatestInv'
  <2> SUFFICES ASSUME NEW k \in JobIDs, HasStatus(k)'
               PROVE  (\E i \in StatusIDs(k) : \A m \in StatusIDs(k) : m <= i)'
    BY DEF LatestInv
  <2>1. CASE k = j
    BY <2>1, <1>2
  <2>2. CASE k # j
    BY <2>2, <1>4, <1>7 DEF LatestInv
  <2> QED  BY <2>1, <2>2
<1> QED  BY <1>6, <1>7, <1>8, <1>9

-----------------------------------------------------------------------------
\* The table jobs.

\* Inserting a row leaves the others alone.
LEMMA NewJobFacts ==
  ASSUME TypeOK, NEW r \in JobIDs, NEW c \in Cells, NEW s \in Styles,
         NEW e \in Extents \cup {Whole}, NewJob(r, c, e, s)
  PROVE  /\ rows' \in [JobIDs -> Row \cup {NoRow}]
         /\ rows'[r] # NoRow /\ ~rows'[r].hasData
         /\ rows'[r].cell = c /\ rows'[r].extent = e /\ rows'[r].style = s
         /\ \A j \in JobIDs \ {r} : rows'[j] = rows[j]
<1>1. [cell |-> c, extent |-> e, style |-> s, queueID |-> "null",
       hasData |-> FALSE] \in Row
  BY DEF Row, QueueIDs
<1> QED  BY <1>1, NoRowAssumption DEF NewJob, TypeOK

\* Storing a queue id changes nothing else of a row.
LEMMA UpdateQueueIDFacts ==
  ASSUME TypeOK, NEW r \in JobIDs, rows[r] # NoRow, NEW id \in QueueIDs,
         UpdateQueueID(r, id)
  PROVE  /\ rows' \in [JobIDs -> Row \cup {NoRow}]
         /\ rows'[r] # NoRow /\ rows'[r].hasData = rows[r].hasData
         /\ rows'[r].cell = rows[r].cell /\ rows'[r].style = rows[r].style
         /\ rows'[r].extent = rows[r].extent
         /\ \A j \in JobIDs \ {r} : rows'[j] = rows[j]
<1>1. rows[r] \in Row
  BY DEF TypeOK
<1>2. [rows[r] EXCEPT !.queueID = id] \in Row
  BY <1>1 DEF Row
<1>3. rows' = [rows EXCEPT ![r] = [rows[r] EXCEPT !.queueID = id]]
  BY DEF UpdateQueueID
<1>4. /\ rows' \in [JobIDs -> Row \cup {NoRow}]
      /\ rows'[r] = [rows[r] EXCEPT !.queueID = id]
      /\ \A j \in JobIDs \ {r} : rows'[j] = rows[j]
  BY <1>2, <1>3 DEF TypeOK
<1>5. rows'[r] # NoRow
  BY <1>2, <1>4, NoRowAssumption
<1>6. /\ rows'[r].hasData = rows[r].hasData
      /\ rows'[r].cell = rows[r].cell /\ rows'[r].style = rows[r].style
      /\ rows'[r].extent = rows[r].extent
  BY <1>1, <1>4 DEF Row
<1> QED  BY <1>4, <1>5, <1>6

\* Storing the job's data changes nothing else of a row.
LEMMA UpdateJobDataFacts ==
  ASSUME TypeOK, NEW r \in JobIDs, rows[r] # NoRow, UpdateJobData(r)
  PROVE  /\ rows' \in [JobIDs -> Row \cup {NoRow}]
         /\ rows'[r] # NoRow /\ rows'[r].hasData
         /\ rows'[r].cell = rows[r].cell /\ rows'[r].style = rows[r].style
         /\ rows'[r].extent = rows[r].extent
         /\ \A j \in JobIDs \ {r} : rows'[j] = rows[j]
<1>1. rows[r] \in Row
  BY DEF TypeOK
<1>2. [rows[r] EXCEPT !.hasData = TRUE] \in Row
  BY <1>1 DEF Row
<1>3. rows' = [rows EXCEPT ![r] = [rows[r] EXCEPT !.hasData = TRUE]]
  BY DEF UpdateJobData
<1>4. /\ rows' \in [JobIDs -> Row \cup {NoRow}]
      /\ rows'[r] = [rows[r] EXCEPT !.hasData = TRUE]
      /\ \A j \in JobIDs \ {r} : rows'[j] = rows[j]
  BY <1>2, <1>3 DEF TypeOK
<1>5. rows'[r] # NoRow
  BY <1>2, <1>4, NoRowAssumption
<1>6. /\ rows'[r].hasData
      /\ rows'[r].cell = rows[r].cell /\ rows'[r].style = rows[r].style
      /\ rows'[r].extent = rows[r].extent
  BY <1>1, <1>4 DEF Row
<1> QED  BY <1>4, <1>5, <1>6

-----------------------------------------------------------------------------
\* Steps of a handler.

\* A step that inserts no status, leaves the posts and the workers alone and
\* changes nothing of the requests that are done keeps what is said of both.
LEMMA QuietStep ==
  ASSUME IndInv, UNCHANGED <<statuses, posts, emitted, hasty>>,
         \A j \in JobIDs : pc[j] = "done" => /\ rows'[j] = rows[j]
                                            /\ pc'[j] = "done"
                                            /\ answer'[j] = answer[j]
  PROVE  StatusInv' /\ PostInv' /\ OrderInv' /\ LatestInv'
<1>1. \A i \in DOMAIN statuses : statuses[i].job \in JobIDs
  BY StatusRowFacts DEF IndInv
<1>2. StatusInv'
  <2> SUFFICES ASSUME NEW i \in DOMAIN statuses
               PROVE  LET s == statuses[i]
                      IN  /\ rows'[s.job] # NoRow
                          /\ pc'[s.job] = "done"
                          /\ s.nth = 0 => IsRequested(i) \/ answer'[s.job] = Refused
                          /\ s.nth # 0 => /\ s.status \in WorkerStatus
                                          /\ rows'[s.job].hasData
                                          /\ \E k \in 1..(i - 1) :
                                               /\ IsRequested(k)
                                               /\ statuses[k].job = s.job
    BY DEF StatusInv, IsRequested
  <2>1. pc[statuses[i].job] = "done"
    BY DEF IndInv, StatusInv
  <2>2. /\ rows'[statuses[i].job] = rows[statuses[i].job]
        /\ pc'[statuses[i].job] = "done"
        /\ answer'[statuses[i].job] = answer[statuses[i].job]
    BY <1>1, <2>1
  <2> QED  BY <2>2 DEF IndInv, StatusInv
<1>3. PostInv'
  BY <1>1 DEF IndInv, StatusInv, PostInv, IsRequested
<1>4. OrderInv' /\ LatestInv'
  BY DEF IndInv, OrderInv, RecordedInOrder, PostsOf, LatestInv, HasStatus, StatusIDs
<1> QED  BY <1>2, <1>3, <1>4

\* A step of a request's handler that inserts no status.
LEMMA HandlerKeepsInv ==
  ASSUME IndInv, NEW r \in Requests,
         \/ Receive(r) \/ AnswerExisting(r) \/ NoneFound(r) \/ CreateJob(r)
         \/ CreateJobFails(r) \/ Enqueue(r) \/ EnqueueFails(r)
         \/ StoreQueueID(r) \/ StoreJobData(r) \/ StoreFails(r)
  PROVE  IndInv'
<1> USE DEF Requests
<1>1. TypeOK /\ HandlerInv /\ AnswerMatches
  BY DEF IndInv
<1>2. SUFFICES /\ TypeOK' /\ HandlerInv' /\ AnswerMatches'
               /\ UNCHANGED <<statuses, posts, emitted, hasty>>
               /\ \A j \in JobIDs : pc[j] = "done" => /\ rows'[j] = rows[j]
                                                     /\ pc'[j] = "done"
                                                     /\ answer'[j] = answer[j]
  BY QuietStep DEF IndInv
<1>3. CASE Receive(r)
  <2> USE <1>3 DEF Receive, Goto, tables, workers
  <2>1. UNCHANGED <<statuses, posts, emitted, hasty>>
    OBVIOUS
  <2>2. TypeOK'
    BY <1>1 DEF TypeOK, HandlerInv, Row, Want, QueueIDs, Labels, Working
  <2>3. HandlerInv'
    BY <1>1 DEF TypeOK, HandlerInv, Labels, Working, Row, ByBounds
  <2>4. AnswerMatches'
    BY <1>1, AnswerAssumption DEF TypeOK, HandlerInv, AnswerMatches, Row,
        Working, Labels, ByBounds
  <2>5. \A j \in JobIDs : pc[j] = "done" => /\ rows'[j] = rows[j]
                                           /\ pc'[j] = "done"
                                           /\ answer'[j] = answer[j]
    BY <1>1 DEF TypeOK
  <2> QED  BY <2>1, <2>2, <2>3, <2>4, <2>5
<1>4. CASE AnswerExisting(r)
  <2> USE <1>4 DEF AnswerExisting, Reply, Goto, Reusable, IsFirst, Found,
      FindByJob, Shown, tables, workers
  <2>1. UNCHANGED <<statuses, posts, emitted, hasty>>
    OBVIOUS
  <2>2. TypeOK'
    BY <1>1 DEF TypeOK, HandlerInv, Row, Want, QueueIDs, Labels, Working
  <2>3. HandlerInv'
    BY <1>1 DEF TypeOK, HandlerInv, Labels, Working, Row, ByBounds
  <2>4. AnswerMatches'
    BY <1>1, AnswerAssumption DEF TypeOK, HandlerInv, AnswerMatches, Row,
        Working, Labels, ByBounds
  <2>5. \A j \in JobIDs : pc[j] = "done" => /\ rows'[j] = rows[j]
                                           /\ pc'[j] = "done"
                                           /\ answer'[j] = answer[j]
    BY <1>1 DEF TypeOK
  <2> QED  BY <2>1, <2>2, <2>3, <2>4, <2>5
<1>5. CASE NoneFound(r)
  <2> USE <1>5 DEF NoneFound, Goto, tables, workers
  <2>1. UNCHANGED <<statuses, posts, emitted, hasty>>
    OBVIOUS
  <2>2. TypeOK'
    BY <1>1 DEF TypeOK, HandlerInv, Row, Want, QueueIDs, Labels, Working
  <2>3. HandlerInv'
    BY <1>1 DEF TypeOK, HandlerInv, Labels, Working, Row, ByBounds
  <2>4. AnswerMatches'
    BY <1>1, AnswerAssumption DEF TypeOK, HandlerInv, AnswerMatches, Row,
        Working, Labels, ByBounds
  <2>5. \A j \in JobIDs : pc[j] = "done" => /\ rows'[j] = rows[j]
                                           /\ pc'[j] = "done"
                                           /\ answer'[j] = answer[j]
    BY <1>1 DEF TypeOK
  <2> QED  BY <2>1, <2>2, <2>3, <2>4, <2>5
<1>6. CASE CreateJob(r)
  <2>0. /\ pc[r] = "new"
        /\ pc' = [pc EXCEPT ![r] = "enqueue"]
        /\ UNCHANGED <<want, ticket, answer, queued, statuses, posts, emitted, hasty>>
    BY <1>6 DEF CreateJob, Goto, NewJob, workers
  <2>1. /\ rows' \in [JobIDs -> Row \cup {NoRow}]
        /\ rows[r] = NoRow
        /\ rows'[r] # NoRow /\ ~rows'[r].hasData
        /\ rows'[r].cell = want[r].cell /\ rows'[r].style = want[r].style
        /\ rows'[r].extent = want[r].extent
        /\ \A j \in JobIDs \ {r} : rows'[j] = rows[j]
    <3>1. /\ want[r].cell \in Cells /\ want[r].style \in Styles
          /\ want[r].extent \in Extents \cup {Whole}
      BY <1>1 DEF TypeOK, Want
    <3>2. NewJob(r, want[r].cell, want[r].extent, want[r].style) /\ r \in JobIDs
      BY <1>6 DEF CreateJob, Requests
    <3>3. rows[r] = NoRow
      BY <3>2 DEF NewJob
    <3> QED  BY <1>1, <3>1, <3>2, <3>3, NewJobFacts
  <2>2. TypeOK'
    BY <1>1, <2>0, <2>1 DEF TypeOK, Labels
  <2>3. HandlerInv'
    <3> SUFFICES ASSUME NEW q \in JobIDs
                 PROVE  HandlerInv!(q)'
      BY DEF HandlerInv
    <3>1. CASE q = r
      BY <1>1, <2>0, <2>1, <3>1, AnswerAssumption DEF TypeOK, HandlerInv, Labels,
          Working
    <3>2. CASE q # r
      BY <1>1, <2>0, <2>1, <3>2 DEF TypeOK, HandlerInv, ByBounds
    <3> QED  BY <3>1, <3>2
  <2>4. AnswerMatches'
    BY <1>1, <2>0, <2>1 DEF HandlerInv, AnswerMatches, ByBounds
  <2>5. \A j \in JobIDs : pc[j] = "done" => /\ rows'[j] = rows[j]
                                           /\ pc'[j] = "done"
                                           /\ answer'[j] = answer[j]
    BY <1>1, <2>0, <2>1 DEF TypeOK
  <2> QED  BY <2>0, <2>2, <2>3, <2>4, <2>5
<1>7. CASE CreateJobFails(r)
  <2> USE <1>7 DEF CreateJobFails, Reply, Goto, tables, workers
  <2>1. UNCHANGED <<statuses, posts, emitted, hasty>>
    OBVIOUS
  <2>2. TypeOK'
    BY <1>1 DEF TypeOK, HandlerInv, Row, Want, QueueIDs, Labels, Working
  <2>3. HandlerInv'
    BY <1>1 DEF TypeOK, HandlerInv, Labels, Working, Row, ByBounds
  <2>4. AnswerMatches'
    BY <1>1, AnswerAssumption DEF TypeOK, HandlerInv, AnswerMatches, Row,
        Working, Labels, ByBounds
  <2>5. \A j \in JobIDs : pc[j] = "done" => /\ rows'[j] = rows[j]
                                           /\ pc'[j] = "done"
                                           /\ answer'[j] = answer[j]
    BY <1>1 DEF TypeOK
  <2> QED  BY <2>1, <2>2, <2>3, <2>4, <2>5
<1>8. CASE Enqueue(r)
  <2> USE <1>8 DEF Enqueue, Goto, tables, workers
  <2>1. UNCHANGED <<statuses, posts, emitted, hasty>>
    OBVIOUS
  <2>2. TypeOK'
    BY <1>1 DEF TypeOK, HandlerInv, Row, Want, QueueIDs, Labels, Working
  <2>3. HandlerInv'
    BY <1>1 DEF TypeOK, HandlerInv, Labels, Working, Row, ByBounds
  <2>4. AnswerMatches'
    BY <1>1, AnswerAssumption DEF TypeOK, HandlerInv, AnswerMatches, Row,
        Working, Labels, ByBounds
  <2>5. \A j \in JobIDs : pc[j] = "done" => /\ rows'[j] = rows[j]
                                           /\ pc'[j] = "done"
                                           /\ answer'[j] = answer[j]
    BY <1>1 DEF TypeOK
  <2> QED  BY <2>1, <2>2, <2>3, <2>4, <2>5
<1>9. CASE EnqueueFails(r)
  <2> USE <1>9 DEF EnqueueFails, Goto, tables, workers
  <2>1. UNCHANGED <<statuses, posts, emitted, hasty>>
    OBVIOUS
  <2>2. TypeOK'
    BY <1>1 DEF TypeOK, HandlerInv, Row, Want, QueueIDs, Labels, Working
  <2>3. HandlerInv'
    BY <1>1 DEF TypeOK, HandlerInv, Labels, Working, Row, ByBounds
  <2>4. AnswerMatches'
    BY <1>1, AnswerAssumption DEF TypeOK, HandlerInv, AnswerMatches, Row,
        Working, Labels, ByBounds
  <2>5. \A j \in JobIDs : pc[j] = "done" => /\ rows'[j] = rows[j]
                                           /\ pc'[j] = "done"
                                           /\ answer'[j] = answer[j]
    BY <1>1 DEF TypeOK
  <2> QED  BY <2>1, <2>2, <2>3, <2>4, <2>5
<1>10. CASE StoreQueueID(r)
  <2>0. /\ pc[r] = "queueID"
        /\ pc' = [pc EXCEPT ![r] = "jobData"]
        /\ UNCHANGED <<want, ticket, answer, queued, statuses, posts, emitted, hasty>>
    BY <1>10 DEF StoreQueueID, Goto, UpdateQueueID, workers
  <2>1. /\ rows' \in [JobIDs -> Row \cup {NoRow}]
        /\ rows[r] # NoRow
        /\ rows'[r] # NoRow /\ rows'[r].hasData = rows[r].hasData
        /\ rows'[r].cell = rows[r].cell /\ rows'[r].style = rows[r].style
        /\ rows'[r].extent = rows[r].extent
        /\ \A j \in JobIDs \ {r} : rows'[j] = rows[j]
    <3>1. rows[r] # NoRow /\ ticket[r] \in QueueIDs
      BY <1>1, <2>0 DEF TypeOK, HandlerInv, Working, Labels
    <3> QED  BY <1>1, <1>10, <3>1, UpdateQueueIDFacts DEF StoreQueueID
  <2>2. TypeOK'
    BY <1>1, <2>0, <2>1 DEF TypeOK, Labels
  <2>3. HandlerInv'
    <3> SUFFICES ASSUME NEW q \in JobIDs
                 PROVE  HandlerInv!(q)'
      BY DEF HandlerInv
    <3>1. CASE q = r
      BY <1>1, <2>0, <2>1, <3>1, AnswerAssumption DEF TypeOK, HandlerInv, Labels,
          Working
    <3>2. CASE q # r
      BY <1>1, <2>0, <2>1, <3>2 DEF TypeOK, HandlerInv, ByBounds
    <3> QED  BY <3>1, <3>2
  <2>4. AnswerMatches'
    BY <1>1, <2>0, <2>1 DEF HandlerInv, AnswerMatches, ByBounds
  <2>5. \A j \in JobIDs : pc[j] = "done" => /\ rows'[j] = rows[j]
                                           /\ pc'[j] = "done"
                                           /\ answer'[j] = answer[j]
    BY <1>1, <2>0, <2>1 DEF TypeOK
  <2> QED  BY <2>0, <2>2, <2>3, <2>4, <2>5
<1>11. CASE StoreJobData(r)
  <2>0. /\ pc[r] = "jobData"
        /\ pc' = [pc EXCEPT ![r] = "status"]
        /\ UNCHANGED <<want, ticket, answer, queued, statuses, posts, emitted, hasty>>
    BY <1>11 DEF StoreJobData, Goto, UpdateJobData, workers
  <2>1. /\ rows' \in [JobIDs -> Row \cup {NoRow}]
        /\ rows[r] # NoRow
        /\ rows'[r] # NoRow /\ rows'[r].hasData
        /\ rows'[r].cell = rows[r].cell /\ rows'[r].style = rows[r].style
        /\ rows'[r].extent = rows[r].extent
        /\ \A j \in JobIDs \ {r} : rows'[j] = rows[j]
    <3>1. rows[r] # NoRow /\ ticket[r] \in QueueIDs
      BY <1>1, <2>0 DEF TypeOK, HandlerInv, Working, Labels
    <3> QED  BY <1>1, <1>11, <3>1, UpdateJobDataFacts DEF StoreJobData
  <2>2. TypeOK'
    BY <1>1, <2>0, <2>1 DEF TypeOK, Labels
  <2>3. HandlerInv'
    <3> SUFFICES ASSUME NEW q \in JobIDs
                 PROVE  HandlerInv!(q)'
      BY DEF HandlerInv
    <3>1. CASE q = r
      BY <1>1, <2>0, <2>1, <3>1, AnswerAssumption DEF TypeOK, HandlerInv, Labels,
          Working
    <3>2. CASE q # r
      BY <1>1, <2>0, <2>1, <3>2 DEF TypeOK, HandlerInv, ByBounds
    <3> QED  BY <3>1, <3>2
  <2>4. AnswerMatches'
    BY <1>1, <2>0, <2>1 DEF HandlerInv, AnswerMatches, ByBounds
  <2>5. \A j \in JobIDs : pc[j] = "done" => /\ rows'[j] = rows[j]
                                           /\ pc'[j] = "done"
                                           /\ answer'[j] = answer[j]
    BY <1>1, <2>0, <2>1 DEF TypeOK
  <2> QED  BY <2>0, <2>2, <2>3, <2>4, <2>5
<1>12. CASE StoreFails(r)
  <2> USE <1>12 DEF StoreFails, Reply, Goto, tables, workers
  <2>1. UNCHANGED <<statuses, posts, emitted, hasty>>
    OBVIOUS
  <2>2. TypeOK'
    BY <1>1 DEF TypeOK, HandlerInv, Row, Want, QueueIDs, Labels, Working
  <2>3. HandlerInv'
    BY <1>1, AnswerAssumption DEF TypeOK, HandlerInv, Labels, Working, Row, ByBounds
  <2>4. AnswerMatches'
    <3>1. /\ rows[r] # NoRow /\ rows[r].cell = want[r].cell
          /\ rows[r].style = want[r].style /\ rows[r].extent = want[r].extent
      BY <1>1 DEF HandlerInv, Working, Labels
    <3> QED  BY <1>1, <3>1 DEF TypeOK, AnswerMatches, ByBounds
  <2>5. \A j \in JobIDs : pc[j] = "done" => /\ rows'[j] = rows[j]
                                           /\ pc'[j] = "done"
                                           /\ answer'[j] = answer[j]
    BY <1>1 DEF TypeOK
  <2> QED  BY <2>1, <2>2, <2>3, <2>4, <2>5
<1> QED  BY <1>3, <1>4, <1>5, <1>6, <1>7, <1>8, <1>9, <1>10, <1>11, <1>12

\* An insert keeps what is said of the statuses, and of the posts still there,
\* when the new status is one that StatusInv allows.
LEMMA InsertKeepsStatuses ==
  ASSUME IndInv, NEW j \in JobIDs, NEW s \in Status, NEW n \in Nat,
         InsertStatus(j, s, n),
         posts' \subseteq posts,
         \A k \in JobIDs : pc[k] = "done" => pc'[k] = "done" /\ answer'[k] = answer[k],
         rows[j] # NoRow,
         pc'[j] = "done",
         n = 0 => s = "requested" \/ answer'[j] = Refused,
         n # 0 => /\ s \in WorkerStatus
                  /\ rows[j].hasData
                  /\ \E k \in DOMAIN statuses :
                       IsRequested(k) /\ statuses[k].job = j
  PROVE  StatusInv' /\ PostInv' /\ LatestInv'
<1> DEFINE new == Len(statuses) + 1
<1>1. /\ DOMAIN statuses = 1..Len(statuses)
      /\ DOMAIN statuses' = 1..new
      /\ Len(statuses) \in Nat
      /\ \A i \in DOMAIN statuses : statuses'[i] = statuses[i]
      /\ statuses'[new] = [job |-> j, status |-> s, nth |-> n]
      /\ rows' = rows
  BY InsertFacts DEF IndInv
<1> HIDE DEF new
<1>2. \A k \in DOMAIN statuses : IsRequested(k)' <=> IsRequested(k)
  BY <1>1 DEF IsRequested
<1>3. StatusInv'
  <2> SUFFICES ASSUME NEW i \in 1..new
               PROVE  StatusInv!(i)'
    BY <1>1 DEF StatusInv
  <2>1. CASE i = new
    BY <2>1, <1>1, <1>2 DEF new, IsRequested
  <2>2. CASE i # new
    <3>1. i \in DOMAIN statuses /\ 1..(i - 1) \subseteq DOMAIN statuses
      BY <2>2, <1>1 DEF new
    <3>2. statuses[i].job \in JobIDs /\ pc[statuses[i].job] = "done"
      BY <3>1, StatusRowFacts DEF IndInv, StatusInv
    <3> QED  BY <3>1, <3>2, <1>1, <1>2 DEF IndInv, StatusInv
  <2> QED  BY <2>1, <2>2
<1>4. PostInv'
  <2>1. DOMAIN statuses \subseteq DOMAIN statuses'
    BY <1>1 DEF new
  <2> QED  BY <2>1, <1>1, <1>2 DEF IndInv, PostInv
<1>5. LatestInv'
  BY LatestAfterInsert DEF IndInv
<1> QED  BY <1>3, <1>4, <1>5

\* An insert by the server itself disturbs no order among the worker's.
LEMMA ServerInsertKeepsOrder ==
  ASSUME IndInv, NEW j \in JobIDs, NEW s \in Status, InsertStatus(j, s, 0),
         UNCHANGED <<posts, emitted, hasty>>
  PROVE  OrderInv'
<1> DEFINE new == Len(statuses) + 1
<1>1. /\ DOMAIN statuses = 1..Len(statuses)
      /\ DOMAIN statuses' = 1..new
      /\ Len(statuses) \in Nat
      /\ \A i \in DOMAIN statuses : statuses'[i] = statuses[i]
      /\ statuses'[new] = [job |-> j, status |-> s, nth |-> 0]
  BY InsertFacts DEF IndInv
<1> HIDE DEF new
<1>2. \A i \in DOMAIN statuses' : i # new => i \in DOMAIN statuses
  BY <1>1 DEF new
<1>3. RecordedInOrder'
  BY <1>1, <1>2 DEF IndInv, OrderInv, RecordedInOrder
<1>4. \A p \in posts : p.nth \in Nat \ {0}
  BY DEF IndInv, TypeOK, Post
<1> QED  BY <1>1, <1>2, <1>3, <1>4 DEF IndInv, OrderInv, PostsOf

\* The server records that the queue did not take the job, or fails to.
LEMMA RejectKeepsInv ==
  ASSUME IndInv, NEW r \in Requests, Reject(r)
  PROVE  IndInv'
<1> USE DEF Requests
<1>1. TypeOK /\ HandlerInv /\ AnswerMatches
  BY DEF IndInv
<1>2. /\ pc[r] = "reject"
      /\ pc' = [pc EXCEPT ![r] = "done"]
      /\ answer' = [answer EXCEPT ![r] = Refused]
      /\ UNCHANGED <<rows, want, ticket, queued, emitted, hasty, posts>>
  BY DEF Reject, Reply, Goto, InsertStatus, tables, workers
<1>3. statuses' \in Seq(StatusRow)
  <2>1. CASE InsertStatus(r, "failed", 0)
    BY <1>1, <2>1, InsertFacts DEF Status
  <2>2. CASE UNCHANGED tables
    BY <1>1, <2>2 DEF TypeOK, tables
  <2> QED  BY <2>1, <2>2 DEF Reject
<1>4. TypeOK'
  BY <1>1, <1>2, <1>3 DEF TypeOK, Labels
<1>5. HandlerInv'
  <2>1. rows[r] # NoRow => ~rows[r].hasData
    BY <1>1, <1>2 DEF HandlerInv
  <2> QED  BY <1>1, <1>2, <2>1 DEF TypeOK, HandlerInv, Labels, Working, ByBounds
<1>6. AnswerMatches'
  BY <1>1, <1>2, AnswerAssumption DEF TypeOK, AnswerMatches, ByBounds
<1>7. \A j \in JobIDs : pc[j] = "done" => /\ rows'[j] = rows[j]
                                         /\ pc'[j] = "done"
                                         /\ answer'[j] = answer[j]
  BY <1>1, <1>2 DEF TypeOK
<1>8. StatusInv' /\ PostInv' /\ OrderInv' /\ LatestInv'
  <2>1. CASE InsertStatus(r, "failed", 0)
    <3>1. rows[r] # NoRow
      BY <1>1, <1>2 DEF HandlerInv, Working, Labels
    <3>2. pc'[r] = "done" /\ answer'[r] = Refused
      BY <1>1, <1>2 DEF TypeOK
    <3>3. "failed" \in Status
      BY DEF Status
    <3>4. StatusInv' /\ PostInv' /\ LatestInv'
      BY <2>1, <1>2, <1>7, <3>1, <3>2, <3>3, InsertKeepsStatuses
    <3>5. OrderInv'
      BY <2>1, <1>2, <3>3, ServerInsertKeepsOrder
    <3> QED  BY <3>4, <3>5
  <2>2. CASE UNCHANGED tables
    BY <2>2, <1>2, <1>7, QuietStep DEF tables
  <2> QED  BY <2>1, <2>2 DEF Reject
<1> QED  BY <1>4, <1>5, <1>6, <1>8 DEF IndInv

\* The server publishes the job.
LEMMA StoreRequestedKeepsInv ==
  ASSUME IndInv, NEW r \in Requests, StoreRequested(r)
  PROVE  IndInv'
<1> USE DEF Requests
<1>1. TypeOK /\ HandlerInv /\ AnswerMatches
  BY DEF IndInv
<1>2. /\ pc[r] = "status"
      /\ pc' = [pc EXCEPT ![r] = "done"]
      /\ answer' = [answer EXCEPT ![r] = r]
      /\ InsertStatus(r, "requested", 0)
      /\ UNCHANGED <<rows, want, ticket, queued, emitted, hasty, posts>>
  BY DEF StoreRequested, Reply, Goto, InsertStatus, workers
<1>3. statuses' \in Seq(StatusRow) /\ "requested" \in Status
  BY <1>1, <1>2, InsertFacts DEF Status
<1>4. /\ rows[r] # NoRow /\ rows[r].cell = want[r].cell
      /\ rows[r].style = want[r].style /\ rows[r].extent = want[r].extent
  BY <1>1, <1>2 DEF HandlerInv, Working, Labels
<1>5. TypeOK'
  BY <1>1, <1>2, <1>3 DEF TypeOK, Labels
<1>6. HandlerInv'
  BY <1>1, <1>2, AnswerAssumption DEF TypeOK, HandlerInv, Labels, Working, ByBounds
<1>7. AnswerMatches'
  BY <1>1, <1>2, <1>4 DEF TypeOK, AnswerMatches, ByBounds
<1>8. /\ pc'[r] = "done"
      /\ \A j \in JobIDs : pc[j] = "done" => pc'[j] = "done" /\ answer'[j] = answer[j]
  BY <1>1, <1>2 DEF TypeOK
<1>9. StatusInv' /\ PostInv' /\ LatestInv'
  BY <1>2, <1>3, <1>4, <1>8, InsertKeepsStatuses
<1>10. OrderInv'
  BY <1>2, <1>3, ServerInsertKeepsOrder
<1> QED  BY <1>5, <1>6, <1>7, <1>9, <1>10 DEF IndInv

-----------------------------------------------------------------------------
\* Steps of a worker and of the handler of its posts.

\* A step that changes no request and no row keeps what is said of them.
LEMMA RequestsUntouched ==
  ASSUME IndInv, UNCHANGED <<rows, pc, want, ticket, answer, queued>>
  PROVE  HandlerInv' /\ AnswerMatches'
BY DEF IndInv, HandlerInv, AnswerMatches, ByBounds

\* Every script is made of statuses a worker can post.
LEMMA UpcomingFacts ==
  ASSUME TypeOK, NEW j \in JobIDs, NEW s \in Upcoming(j)
  PROVE  s \in WorkerStatus
<1>1. \A script \in Scripts : \A i \in 1..Len(script) : script[i] \in WorkerStatus
  BY DEF Scripts, WorkerStatus, Status
<1>2. emitted[j] \in Seq(WorkerStatus)
  BY DEF TypeOK
<1>3. PICK script \in Scripts : /\ Len(emitted[j]) < Len(script)
                                /\ s = script[Len(emitted[j]) + 1]
  BY DEF Upcoming
<1>4. Len(script) \in Nat /\ Len(emitted[j]) \in Nat
  BY <1>2 DEF Scripts
<1> QED  BY <1>1, <1>3, <1>4

\* A worker that is not hasty posts only when none of its posts is in flight.
LEMMA WorkerPostsKeepsInv ==
  ASSUME IndInv, NEW j \in JobIDs, WorkerPosts(j)
  PROVE  IndInv'
<1>1. TypeOK /\ OrderInv
  BY DEF IndInv
<1>2. PICK s \in Upcoming(j) : emitted' = [emitted EXCEPT ![j] = Append(@, s)]
  BY DEF WorkerPosts
<1>3. /\ HasItsAnswer(j)
      /\ posts' = posts \cup {NewPost(j)}
      /\ UNCHANGED <<rows, statuses, want, pc, ticket, answer, queued, hasty>>
  BY DEF WorkerPosts, tables, handler
<1>4. /\ emitted' \in [JobIDs -> Seq(WorkerStatus)]
      /\ Len(emitted[j]) \in Nat
      /\ Len(emitted'[j]) = Len(emitted[j]) + 1
      /\ \A i \in 1..Len(emitted[j]) : emitted'[j][i] = emitted[j][i]
      /\ \A k \in JobIDs \ {j} : emitted'[k] = emitted[k]
  <2>1. emitted[j] \in Seq(WorkerStatus) /\ s \in WorkerStatus
    BY <1>1, UpcomingFacts DEF TypeOK
  <2>2. emitted'[j] = Append(emitted[j], s)
    BY <1>1, <1>2 DEF TypeOK
  <2>3. /\ Append(emitted[j], s) \in Seq(WorkerStatus)
        /\ Len(Append(emitted[j], s)) = Len(emitted[j]) + 1
        /\ \A i \in 1..Len(emitted[j]) : Append(emitted[j], s)[i] = emitted[j][i]
    BY <2>1, AppendProperties
  <2> QED  BY <1>1, <1>2, <2>1, <2>2, <2>3 DEF TypeOK
<1>5. NewPost(j) \in Post /\ NewPost(j).job = j /\ ~NewPost(j).found
      /\ NewPost(j).nth = Len(emitted[j]) + 1
  BY <1>4 DEF NewPost, Post
<1>6. \A p \in posts : p \in Post /\ p.nth <= Len(emitted[p.job])
  BY <1>1 DEF TypeOK
<1>7. TypeOK'
  <2>1. posts' \in SUBSET Post
    BY <1>3, <1>5, <1>6
  <2>2. \A p \in posts' : p.nth <= Len(emitted'[p.job])
    <3> SUFFICES ASSUME NEW p \in posts'
                 PROVE  p.nth <= Len(emitted'[p.job])
      OBVIOUS
    <3>1. CASE p = NewPost(j)
      BY <3>1, <1>4, <1>5
    <3>2. CASE p \in posts
      BY <3>2, <1>4, <1>6 DEF Post
    <3> QED  BY <3>1, <3>2, <1>3
  <2> QED  BY <1>1, <1>3, <1>4, <2>1, <2>2 DEF TypeOK
<1>8. HandlerInv' /\ AnswerMatches'
  BY <1>3, RequestsUntouched
<1>9. StatusInv' /\ LatestInv'
  BY <1>3 DEF IndInv, StatusInv, IsRequested, LatestInv, HasStatus, StatusIDs
<1>10. PostInv'
  BY <1>3, <1>5 DEF IndInv, PostInv, IsRequested
<1>11. RecordedInOrder'
  <2>1. ASSUME NEW i \in DOMAIN statuses, statuses[i].nth # 0
        PROVE  /\ statuses[i].nth \in DOMAIN emitted'[statuses[i].job]
               /\ statuses[i].status = emitted'[statuses[i].job][statuses[i].nth]
    <3>1. /\ statuses[i].job \in JobIDs
          /\ statuses[i].nth \in DOMAIN emitted[statuses[i].job]
          /\ statuses[i].status = emitted[statuses[i].job][statuses[i].nth]
      BY <1>1, <2>1, StatusRowFacts DEF OrderInv, RecordedInOrder
    <3>2. emitted[j] \in Seq(WorkerStatus) /\ emitted'[j] \in Seq(WorkerStatus)
      BY <1>1, <1>4 DEF TypeOK
    <3>3. DOMAIN emitted[j] = 1..Len(emitted[j]) /\ DOMAIN emitted'[j] = 1..Len(emitted'[j])
      BY <3>2
    <3>4. CASE statuses[i].job = j
      <4>1. statuses[i].nth \in 1..Len(emitted[j]) /\ statuses[i].nth \in 1..Len(emitted'[j])
        BY <3>1, <3>3, <3>4, <1>4
      <4> QED  BY <3>1, <3>3, <3>4, <4>1, <1>4
    <3>5. CASE statuses[i].job # j
      BY <3>1, <3>5, <1>4
    <3> QED  BY <3>4, <3>5
  <2> QED  BY <2>1, <1>1, <1>3 DEF OrderInv, RecordedInOrder
<1>12. ASSUME NEW p \in posts', p.job \notin hasty
       PROVE  /\ PostsOf(p.job)' = {p}
              /\ \A i \in DOMAIN statuses :
                   statuses[i].job = p.job => statuses[i].nth < p.nth
  <2>1. CASE p.job = j
    <3>1. PostsOf(j) = {}
      BY <2>1, <1>3, <1>12 DEF HasItsAnswer
    <3>2. p = NewPost(j) /\ PostsOf(j)' = {p}
      BY <2>1, <3>1, <1>3, <1>5 DEF PostsOf
    <3>3. ASSUME NEW i \in DOMAIN statuses, statuses[i].job = j
          PROVE  statuses[i].nth <= Len(emitted[j])
      <4>1. emitted[j] \in Seq(WorkerStatus) /\ statuses[i].nth \in Nat
        BY <1>1, StatusRowFacts DEF TypeOK
      <4> QED  BY <1>1, <3>3, <4>1 DEF OrderInv, RecordedInOrder
    <3>4. \A i \in DOMAIN statuses : statuses[i].nth \in Nat
      BY <1>1, StatusRowFacts
    <3> QED  BY <2>1, <3>2, <3>3, <3>4, <1>4, <1>5
  <2>2. CASE p.job # j
    <3>1. p \in posts /\ PostsOf(p.job)' = PostsOf(p.job)
      BY <2>2, <1>3, <1>5 DEF PostsOf
    <3> QED  BY <3>1, <1>1, <1>12 DEF OrderInv
  <2> QED  BY <2>1, <2>2
<1>13. OrderInv'
  BY <1>3, <1>11, <1>12 DEF OrderInv
<1> QED  BY <1>7, <1>8, <1>9, <1>10, <1>13 DEF IndInv

\* A worker that gives up on a post is hasty from then on.
LEMMA WorkerGivesUpKeepsInv ==
  ASSUME IndInv, NEW j \in JobIDs, WorkerGivesUp(j)
  PROVE  IndInv'
<1>1. /\ hasty' = hasty \cup {j}
      /\ UNCHANGED <<rows, statuses, want, pc, ticket, answer, queued, emitted, posts>>
  BY DEF WorkerGivesUp, tables, handler
<1>2. TypeOK'
  BY <1>1 DEF IndInv, TypeOK
<1>3. HandlerInv' /\ AnswerMatches'
  BY <1>1, RequestsUntouched
<1>4. StatusInv' /\ PostInv' /\ LatestInv'
  BY <1>1 DEF IndInv, StatusInv, PostInv, IsRequested, LatestInv, HasStatus, StatusIDs
<1>5. OrderInv'
  BY <1>1 DEF IndInv, OrderInv, RecordedInOrder, PostsOf
<1> QED  BY <1>2, <1>3, <1>4, <1>5 DEF IndInv

\* The server finds the job of a post: no order changes, and the job is
\* requested, for it is shown.
LEMMA NotifyFindKeepsInv ==
  ASSUME IndInv, NEW p \in posts, NotifyFind(p)
  PROVE  IndInv'
<1> DEFINE q == [p EXCEPT !.found = TRUE]
<1>1. /\ Shown(p.job)
      /\ posts' = (posts \ {p}) \cup {q}
      /\ UNCHANGED <<rows, statuses, want, pc, ticket, answer, queued, emitted, hasty>>
  BY DEF NotifyFind, FindByJobID, tables, handler, workers
<1>2. p \in Post /\ q \in Post /\ q.job = p.job /\ q.nth = p.nth /\ q.found
  BY DEF IndInv, TypeOK, Post
<1> HIDE DEF q
<1>3. TypeOK'
  BY <1>1, <1>2 DEF IndInv, TypeOK
<1>4. HandlerInv' /\ AnswerMatches'
  BY <1>1, RequestsUntouched
<1>5. StatusInv' /\ LatestInv'
  BY <1>1 DEF IndInv, StatusInv, IsRequested, LatestInv, HasStatus, StatusIDs
<1>6. PostInv'
  <2>1. PICK i \in DOMAIN statuses : statuses[i].job = p.job
    BY <1>1 DEF Shown, HasStatus, StatusIDs
  <2>2. rows[p.job] # NoRow /\ rows[p.job].hasData /\ answer[p.job] # Refused
    BY <1>1, <1>2 DEF Shown, IndInv, HandlerInv, Requests, Post
  <2>3. \E k \in DOMAIN statuses : IsRequested(k) /\ statuses[k].job = p.job
    <3>1. CASE statuses[i].nth = 0
      BY <2>1, <2>2, <3>1 DEF IndInv, StatusInv
    <3>2. CASE statuses[i].nth # 0
      <4>1. 1..(i - 1) \subseteq DOMAIN statuses
        BY StatusRowFacts DEF IndInv
      <4> QED  BY <2>1, <3>2, <4>1 DEF IndInv, StatusInv
    <3> QED  BY <3>1, <3>2
  <2> QED  BY <1>1, <1>2, <2>2, <2>3 DEF IndInv, PostInv, IsRequested
<1>7. OrderInv'
  <2>1. RecordedInOrder'
    BY <1>1 DEF IndInv, OrderInv, RecordedInOrder
  <2>2. ASSUME NEW m \in posts', m.job \notin hasty
        PROVE  /\ PostsOf(m.job)' = {m}
               /\ \A i \in DOMAIN statuses :
                    statuses[i].job = m.job => statuses[i].nth < m.nth
    <3>1. CASE m.job = p.job
      <4>1. PostsOf(p.job) = {p}
        BY <2>2, <3>1 DEF IndInv, OrderInv
      <4>2. m = q /\ PostsOf(p.job)' = {q}
        BY <3>1, <4>1, <1>1, <1>2 DEF PostsOf
      <4> QED  BY <4>2, <2>2, <1>2 DEF IndInv, OrderInv
    <3>2. CASE m.job # p.job
      <4>1. m \in posts /\ PostsOf(m.job)' = PostsOf(m.job)
        BY <3>2, <1>1, <1>2 DEF PostsOf
      <4> QED  BY <4>1, <2>2 DEF IndInv, OrderInv
    <3> QED  BY <3>1, <3>2
  <2> QED  BY <1>1, <2>1, <2>2 DEF OrderInv
<1> QED  BY <1>3, <1>4, <1>5, <1>6, <1>7 DEF IndInv

\* A post that changes nothing leaves fewer in flight.
LEMMA PostDroppedKeepsInv ==
  ASSUME IndInv, NEW p \in posts,
         NotifyUnknown(p) \/ NotifyUpdateFails(p) \/ PostLost(p)
  PROVE  IndInv'
<1>1. /\ posts' = posts \ {p}
      /\ UNCHANGED <<rows, statuses, want, pc, ticket, answer, queued, emitted, hasty>>
  BY DEF NotifyUnknown, NotifyUpdateFails, PostLost, tables, handler, workers
<1>2. TypeOK'
  BY <1>1 DEF IndInv, TypeOK
<1>3. HandlerInv' /\ AnswerMatches'
  BY <1>1, RequestsUntouched
<1>4. StatusInv' /\ PostInv' /\ LatestInv'
  BY <1>1 DEF IndInv, StatusInv, PostInv, IsRequested, LatestInv, HasStatus, StatusIDs
<1>5. OrderInv'
  <2>1. ASSUME NEW m \in posts', m.job \notin hasty
        PROVE  PostsOf(m.job)' = {m}
    <3>1. PostsOf(m.job) = {m}
      BY <1>1, <2>1 DEF IndInv, OrderInv
    <3> QED  BY <3>1, <1>1, <2>1 DEF PostsOf
  <2> QED  BY <2>1, <1>1 DEF IndInv, OrderInv, RecordedInOrder
<1> QED  BY <1>2, <1>3, <1>4, <1>5 DEF IndInv

\* The server records the status of a post.
LEMMA NotifyUpdateKeepsInv ==
  ASSUME IndInv, NEW p \in posts, NotifyUpdate(p)
  PROVE  IndInv'
<1> DEFINE j == p.job
           n == p.nth
           s == emitted[j][n]
           new == Len(statuses) + 1
<1>1. /\ p.found
      /\ InsertStatus(j, s, n)
      /\ posts' = posts \ {p}
      /\ UNCHANGED <<rows, want, pc, ticket, answer, queued, emitted, hasty>>
  BY DEF NotifyUpdate, InsertStatus, handler, workers
<1>2. /\ j \in JobIDs /\ n \in Nat \ {0}
      /\ emitted[j] \in Seq(WorkerStatus) /\ n <= Len(emitted[j])
  BY DEF IndInv, TypeOK, Post
<1>3. s \in WorkerStatus /\ s \in Status /\ n \in DOMAIN emitted[j]
  BY <1>2 DEF WorkerStatus
<1> HIDE DEF s
<1>4. /\ DOMAIN statuses = 1..Len(statuses)
      /\ DOMAIN statuses' = 1..new
      /\ Len(statuses) \in Nat
      /\ \A i \in DOMAIN statuses : statuses'[i] = statuses[i]
      /\ statuses'[new] = [job |-> j, status |-> s, nth |-> n]
      /\ statuses' \in Seq(StatusRow)
  BY <1>1, <1>2, <1>3, InsertFacts DEF IndInv
<1> HIDE DEF new
<1>5. TypeOK'
  BY <1>1, <1>4 DEF IndInv, TypeOK
<1>6. HandlerInv' /\ AnswerMatches'
  BY <1>1, RequestsUntouched
<1>7. StatusInv' /\ PostInv' /\ LatestInv'
  <2>1. /\ rows[j] # NoRow /\ rows[j].hasData
        /\ \E k \in DOMAIN statuses : IsRequested(k) /\ statuses[k].job = j
    BY <1>1 DEF IndInv, PostInv
  <2>2. pc[j] = "done"
    BY <2>1 DEF IndInv, StatusInv
  <2>3. /\ posts' \subseteq posts
        /\ pc'[j] = "done"
        /\ \A k \in JobIDs : pc[k] = "done" => pc'[k] = "done" /\ answer'[k] = answer[k]
    BY <1>1, <2>2
  <2> QED  BY <1>1, <1>2, <1>3, <2>1, <2>3, InsertKeepsStatuses
<1>8. ASSUME j \notin hasty
      PROVE  /\ PostsOf(j) = {p}
             /\ \A i \in DOMAIN statuses :
                  statuses[i].job = j => statuses[i].nth < n
  BY <1>8 DEF IndInv, OrderInv
<1>9. RecordedInOrder'
  <2>1. \A i \in DOMAIN statuses' : i # new => i \in DOMAIN statuses
    BY <1>4 DEF new
  <2>2. \A i \in DOMAIN statuses : ~(new < i)
    BY <1>4 DEF new
  <2> SUFFICES ASSUME NEW i \in DOMAIN statuses', NEW k \in DOMAIN statuses'
               PROVE  RecordedInOrder!(i, k)'
    BY DEF RecordedInOrder
  <2>3. CASE i # new /\ k # new
    BY <2>1, <2>3, <1>1, <1>4 DEF IndInv, OrderInv, RecordedInOrder
  <2>4. CASE i # new /\ k = new
    BY <2>1, <2>4, <1>1, <1>4, <1>8 DEF IndInv, OrderInv, RecordedInOrder
  <2>5. CASE i = new
    BY <2>1, <2>2, <2>5, <1>1, <1>3, <1>4 DEF s, new
  <2> QED  BY <2>3, <2>4, <2>5
<1>10. OrderInv'
  <2>1. ASSUME NEW m \in posts', m.job \notin hasty
        PROVE  /\ PostsOf(m.job)' = {m}
               /\ \A i \in DOMAIN statuses' :
                    statuses'[i].job = m.job => statuses'[i].nth < m.nth
    <3>1. m \in posts /\ PostsOf(m.job) = {m}
      BY <1>1, <2>1 DEF IndInv, OrderInv
    <3>2. m.job # j
      BY <1>1, <2>1, <3>1 DEF PostsOf
    <3>3. PostsOf(m.job)' = {m}
      BY <3>1, <1>1, <2>1 DEF PostsOf
    <3>4. \A i \in DOMAIN statuses' : i # new => i \in DOMAIN statuses
      BY <1>4 DEF new
    <3> QED  BY <3>1, <3>2, <3>3, <3>4, <1>4, <2>1 DEF IndInv, OrderInv
  <2> QED  BY <2>1, <1>1, <1>9 DEF OrderInv
<1> QED  BY <1>5, <1>6, <1>7, <1>10 DEF IndInv

-----------------------------------------------------------------------------
\* The invariant.

LEMMA InitInv == Init => IndInv
<1> SUFFICES ASSUME Init  PROVE IndInv
  OBVIOUS
<1>1. TypeOK
  BY DEF Init, TablesInit, TypeOK, Requests, Labels, QueueIDs
<1>2. HandlerInv /\ AnswerMatches
  BY AnswerAssumption DEF Init, TablesInit, HandlerInv, AnswerMatches, Working,
      Labels, Requests
<1>3. StatusInv /\ PostInv /\ OrderInv /\ LatestInv
  BY DEF Init, TablesInit, StatusInv, PostInv, OrderInv, RecordedInOrder,
         LatestInv, HasStatus, StatusIDs
<1> QED  BY <1>1, <1>2, <1>3 DEF IndInv

\* Every step of the specification keeps IndInv.
LEMMA NextKeepsInv == IndInv /\ [Next]_vars => IndInv'
<1> SUFFICES ASSUME IndInv, [Next]_vars  PROVE IndInv'
  OBVIOUS
<1>1. ASSUME NEW r \in Requests, Receive(r) \/ HandlerStep(r)
      PROVE  IndInv'
  BY <1>1, HandlerKeepsInv, RejectKeepsInv, StoreRequestedKeepsInv DEF HandlerStep
<1>2. ASSUME NEW j \in JobIDs, WorkerPosts(j) \/ WorkerGivesUp(j)
      PROVE  IndInv'
  BY <1>2, WorkerPostsKeepsInv, WorkerGivesUpKeepsInv
<1>3. ASSUME NEW p \in posts, NotifyStep(p) \/ PostLost(p)
      PROVE  IndInv'
  BY <1>3, NotifyFindKeepsInv, PostDroppedKeepsInv, NotifyUpdateKeepsInv DEF NotifyStep
<1>4. CASE UNCHANGED vars
  <2>1. UNCHANGED <<rows, statuses, pc, want, ticket, answer, queued, emitted, hasty, posts>>
    BY <1>4 DEF vars
  <2>2. TypeOK'
    BY <2>1 DEF IndInv, TypeOK
  <2>3. HandlerInv' /\ AnswerMatches'
    BY <2>1, RequestsUntouched
  <2>4. StatusInv' /\ PostInv' /\ OrderInv' /\ LatestInv'
    BY <2>1, QuietStep
  <2> QED  BY <2>2, <2>3, <2>4 DEF IndInv
<1> QED  BY <1>1, <1>2, <1>3, <1>4 DEF Next

\* IndInv holds in every state; the theorems below read off what it implies.
LEMMA Invariance == Spec => []IndInv
BY InitInv, NextKeepsInv, PTL DEF Spec

-----------------------------------------------------------------------------
\* The safety properties.

\* Every variable of the server, the queue and the workers keeps its type, and
\* every post in flight is one its worker made.
THEOREM TypeCorrect == Spec => []TypeOK
<1>1. IndInv => TypeOK
  BY DEF IndInv
<1> QED  BY <1>1, Invariance, PTL

\* QueueHandler shows a job only after Enqueue took it, whatever fails.
THEOREM QueuedBeforeShown == Spec => []ShownJobWasQueued
<1>1. IndInv => ShownJobWasQueued
  BY DEF IndInv, HandlerInv, ShownJobWasQueued, Shown, Requests
<1> QED  BY <1>1, Invariance, PTL

\* NotificationHandler records no status before QueueHandler's requested.
THEOREM RequestedFirst == Spec => []RequestedComesFirst
<1>1. IndInv => RequestedComesFirst
  BY DEF IndInv, StatusInv, RequestedComesFirst, IsRequested
<1> QED  BY <1>1, Invariance, PTL

\* NotificationHandler records what the worker posted, in order and once each,
\* as long as the worker waits for the answers to its posts.
THEOREM RecordingInOrder == Spec => []RecordedInOrder
<1>1. IndInv => RecordedInOrder
  BY DEF IndInv, OrderInv
<1> QED  BY <1>1, Invariance, PTL

\* A job whose client was told of an error is never shown, nor its worker heard.
THEOREM RefusedHidden == Spec => []RefusedStaysHidden
<1>1. IndInv => RefusedStaysHidden
  <2> SUFFICES ASSUME IndInv, NEW r \in Requests, answer[r] = Refused
               PROVE  RefusedStaysHidden!(r)
    BY DEF RefusedStaysHidden
  <2>1. ~(rows[r] # NoRow /\ rows[r].hasData)
    BY DEF IndInv, HandlerInv
  <2> QED  BY <2>1 DEF IndInv, StatusInv, Shown
<1> QED  BY <1>1, Invariance, PTL

-----------------------------------------------------------------------------
\* What a job is seen with.

SameShown(j) ==
  /\ Shown(j)' <=> Shown(j)
  /\ Shown(j) => LatestStatus(j)' = LatestStatus(j)

Published(j) ==
  /\ ~Shown(j) /\ Shown(j)'
  /\ LatestStatus(j)' = "requested"
  /\ j \in queued

Reported(j) ==
  /\ Shown(j) /\ Shown(j)'
  /\ LatestStatus(j)' \in WorkerStatus

\* Inserting a status changes what its own job is seen with, if that is shown.
LEMMA ShownAfterInsert ==
  ASSUME IndInv, NEW j \in JobIDs, NEW s \in Status, NEW n \in Nat,
         InsertStatus(j, s, n)
  PROVE  /\ Shown(j)' <=> /\ rows[j] # NoRow
                          /\ rows[j].hasData
                          /\ rows[j].queueID = "set"
         /\ LatestStatus(j)' = s
         /\ \A k \in JobIDs \ {j} : SameShown(k)
<1>1. rows' = rows
  BY DEF InsertStatus
<1> QED  BY <1>1, LatestAfterInsert DEF IndInv, Shown, SameShown

\* A step that changes neither table changes nothing that is seen.
LEMMA ShownUntouched ==
  ASSUME UNCHANGED tables
  PROVE  \A j \in JobIDs : SameShown(j)
<1>1. rows' = rows /\ statuses' = statuses
  BY DEF tables
<1> QED  BY <1>1 DEF SameShown, Shown, HasStatus, StatusIDs, LatestStatus, LatestID

\* A job whose handler is not done has no status, so it is not shown.
LEMMA UnfinishedIsHidden ==
  ASSUME IndInv, NEW r \in JobIDs, pc[r] # "done"
  PROVE  ~HasStatus(r) /\ ~Shown(r)
BY DEF IndInv, StatusInv, HasStatus, StatusIDs, Shown

\* A step of a handler that changes its row only changes nothing that is seen.
LEMMA RowStepIsHidden ==
  ASSUME IndInv, NEW r \in JobIDs, pc[r] # "done", statuses' = statuses,
         \A j \in JobIDs \ {r} : rows'[j] = rows[j]
  PROVE  \A j \in JobIDs : SameShown(j)
<1>1. \A j \in JobIDs : /\ HasStatus(j)' <=> HasStatus(j)
                        /\ LatestStatus(j)' = LatestStatus(j)
  BY DEF HasStatus, StatusIDs, LatestStatus, LatestID
<1>2. ~HasStatus(r) /\ ~Shown(r)
  BY UnfinishedIsHidden
<1> QED  BY <1>1, <1>2 DEF SameShown, Shown

\* A handler's step submits a job, publishes one, or shows nothing new.
LEMMA HandlerStepShows ==
  ASSUME IndInv, NEW r \in Requests, Receive(r) \/ HandlerStep(r)
  PROVE  \/ /\ \A j \in JobIDs : SameShown(j)
            /\ queued' = queued \/ queued' = queued \cup {r}
         \/ /\ Published(r)
            /\ \A j \in JobIDs \ {r} : SameShown(j)
            /\ queued' = queued
<1> USE DEF Requests
<1>1. CASE Receive(r) \/ AnswerExisting(r) \/ NoneFound(r) \/ CreateJobFails(r) \/ StoreFails(r)
  <2>1. UNCHANGED tables /\ queued' = queued
    BY <1>1 DEF Receive, AnswerExisting, NoneFound, CreateJobFails, StoreFails
  <2> QED  BY <2>1, ShownUntouched
<1>2. CASE Enqueue(r) \/ EnqueueFails(r)
  <2>1. UNCHANGED tables /\ (queued' = queued \/ queued' = queued \cup {r})
    BY <1>2 DEF Enqueue, EnqueueFails
  <2> QED  BY <2>1, ShownUntouched
<1>3. CASE CreateJob(r) \/ StoreQueueID(r) \/ StoreJobData(r)
  <2>1. /\ pc[r] # "done" /\ statuses' = statuses /\ queued' = queued
        /\ rows \in [JobIDs -> Row \cup {NoRow}]
    BY <1>3 DEF CreateJob, StoreQueueID, StoreJobData, NewJob, UpdateQueueID,
                UpdateJobData, IndInv, TypeOK
  <2>2. \A j \in JobIDs \ {r} : rows'[j] = rows[j]
    BY <1>3, <2>1 DEF CreateJob, StoreQueueID, StoreJobData, NewJob, UpdateQueueID,
                UpdateJobData
  <2> QED  BY <2>1, <2>2, RowStepIsHidden
<1>4. CASE Reject(r)
  <2>1. pc[r] = "reject" /\ queued' = queued
    BY <1>4 DEF Reject
  <2>2. CASE UNCHANGED tables
    BY <2>1, <2>2, ShownUntouched
  <2>3. CASE InsertStatus(r, "failed", 0)
    <3>1. ~Shown(r) /\ ~(rows[r] # NoRow /\ rows[r].hasData)
      BY <2>1, UnfinishedIsHidden DEF IndInv, HandlerInv
    <3>2. "failed" \in Status
      BY DEF Status
    <3> QED  BY <2>1, <2>3, <3>1, <3>2, ShownAfterInsert DEF SameShown
  <2> QED  BY <1>4, <2>2, <2>3 DEF Reject
<1>5. CASE StoreRequested(r)
  <2>1. /\ pc[r] = "status" /\ queued' = queued
        /\ InsertStatus(r, "requested", 0)
    BY <1>5 DEF StoreRequested
  <2>2. ~Shown(r) /\ r \in queued
    BY <2>1, UnfinishedIsHidden DEF IndInv, HandlerInv
  <2>3. "requested" \in Status
    BY DEF Status
  <2> QED  BY <2>1, <2>2, <2>3, ShownAfterInsert DEF SameShown, Published
<1> QED  BY <1>1, <1>2, <1>3, <1>4, <1>5 DEF HandlerStep

\* A step of a worker or of a post reports a status, or shows nothing new.
LEMMA PostStepShows ==
  ASSUME IndInv, NEW p \in posts, NotifyStep(p) \/ PostLost(p)
  PROVE  /\ queued' = queued
         /\ \/ \A j \in JobIDs : SameShown(j)
            \/ /\ p.job \in JobIDs
               /\ Reported(p.job)
               /\ \A j \in JobIDs \ {p.job} : SameShown(j)
<1>1. CASE NotifyFind(p) \/ NotifyUnknown(p) \/ NotifyUpdateFails(p) \/ PostLost(p)
  <2>1. UNCHANGED tables /\ queued' = queued
    BY <1>1 DEF NotifyFind, NotifyUnknown, NotifyUpdateFails, PostLost
  <2> QED  BY <2>1, ShownUntouched
<1>2. CASE NotifyUpdate(p)
  <2> DEFINE j == p.job
             s == emitted[j][p.nth]
  <2>1. InsertStatus(j, s, p.nth) /\ queued' = queued /\ p.found
    BY <1>2 DEF NotifyUpdate
  <2>2. /\ j \in JobIDs /\ p.nth \in Nat \ {0}
        /\ emitted[j] \in Seq(WorkerStatus) /\ p.nth <= Len(emitted[j])
    BY DEF IndInv, TypeOK, Post
  <2>3. s \in WorkerStatus /\ s \in Status
    BY <2>2 DEF WorkerStatus
  <2> HIDE DEF s
  <2>4. rows[j] # NoRow /\ rows[j].hasData /\ HasStatus(j)
    BY <2>1 DEF IndInv, PostInv, HasStatus, StatusIDs
  <2>5. /\ Shown(j)' <=> Shown(j)
        /\ LatestStatus(j)' = s
        /\ \A k \in JobIDs \ {j} : SameShown(k)
    BY <2>1, <2>2, <2>3, <2>4, ShownAfterInsert DEF Shown
  <2> QED  BY <2>1, <2>2, <2>3, <2>5 DEF Reported, SameShown
<1> QED  BY <1>1, <1>2 DEF NotifyStep

\* Every step publishes one job, reports one status, or shows nothing new.
LEMMA StepShows ==
  ASSUME IndInv, [Next]_vars
  PROVE  \/ /\ \A j \in JobIDs : SameShown(j)
            /\ queued' = queued \/ \E r \in JobIDs : queued' = queued \cup {r}
         \/ /\ queued' = queued
            /\ \E j \in JobIDs : /\ Published(j) \/ Reported(j)
                                 /\ \A k \in JobIDs \ {j} : SameShown(k)
<1>1. CASE \E r \in Requests : Receive(r) \/ HandlerStep(r)
  BY <1>1, HandlerStepShows DEF Requests
<1>2. CASE \E j \in JobIDs : WorkerPosts(j) \/ WorkerGivesUp(j)
  <2>1. UNCHANGED tables /\ queued' = queued
    BY <1>2 DEF WorkerPosts, WorkerGivesUp
  <2> QED  BY <2>1, ShownUntouched
<1>3. CASE \E p \in posts : NotifyStep(p) \/ PostLost(p)
  BY <1>3, PostStepShows
<1>4. CASE UNCHANGED vars
  BY <1>4, ShownUntouched DEF vars, tables
<1> QED  BY <1>1, <1>2, <1>3, <1>4 DEF Next

\* Once NotificationHandler has recorded a worker's status, neither it nor
\* QueueHandler makes the job show requested again, or hides it.
THEOREM NeverRequestedAgain == Spec => NeverBackToRequested
<1>1. IndInv /\ [Next]_vars =>
        \A j \in JobIDs : Shown(j) /\ LatestStatus(j) # "requested" =>
                           Shown(j)' /\ LatestStatus(j)' # "requested"
  <2> SUFFICES ASSUME IndInv, [Next]_vars, NEW j \in JobIDs,
                      Shown(j), LatestStatus(j) # "requested"
               PROVE  Shown(j)' /\ LatestStatus(j)' # "requested"
    OBVIOUS
  <2>1. SameShown(j) \/ Published(j) \/ Reported(j)
    BY StepShows
  <2> QED  BY <2>1 DEF SameShown, Published, Reported, WorkerStatus
<1> QED  BY <1>1, Invariance, PTL DEF Spec, NeverBackToRequested

\* Only the steps of a request's handler answer it, with a job of its own or one
\* that is shown.
LEMMA AnswersKnown ==
  ASSUME IndInv, [Next]_vars, NEW r \in Requests, answer'[r] # answer[r]
  PROVE  answer'[r] \in JobIDs => answer'[r] = r \/ Shown(answer'[r])
<1> USE DEF Requests
<1>1. answer \in [JobIDs -> JobIDs \cup {NoAnswer, Refused}] /\ Refused \notin JobIDs
  BY AnswerAssumption DEF IndInv, TypeOK
<1>2. PICK q \in Requests : Receive(q) \/ HandlerStep(q)
  BY DEF Next, vars, handler, WorkerPosts, WorkerGivesUp, NotifyStep, NotifyFind,
         NotifyUnknown, NotifyUpdate, NotifyUpdateFails, PostLost
<1>3. CASE AnswerExisting(q)
  BY <1>1, <1>3 DEF AnswerExisting, Reusable, IsFirst, Found, FindByJob, Reply
<1>4. CASE CreateJobFails(q) \/ Reject(q) \/ StoreRequested(q) \/ StoreFails(q)
  BY <1>1, <1>4 DEF CreateJobFails, Reject, StoreRequested, StoreFails, Reply
<1>5. CASE \/ Receive(q) \/ NoneFound(q) \/ CreateJob(q) \/ Enqueue(q)
           \/ EnqueueFails(q) \/ StoreQueueID(q) \/ StoreJobData(q)
  BY <1>5 DEF Receive, NoneFound, CreateJob, Enqueue, EnqueueFails, StoreQueueID,
              StoreJobData
<1> QED  BY <1>2, <1>3, <1>4, <1>5 DEF HandlerStep

\* QueueHandler answers with a job for the mdgid and the style asked for, one of
\* its own when bounds were asked for; another request's job, which it finds by
\* its mdgid, stays there for the client that was handed it.
THEOREM AnswersFit == Spec => []AnswerFitsRequest
<1>1. Init => OldJobIsThere
  BY AnswerAssumption DEF Init, OldJobIsThere, Requests
<1>2. IndInv /\ OldJobIsThere /\ [Next]_vars => OldJobIsThere'
  <2> SUFFICES ASSUME IndInv, OldJobIsThere, [Next]_vars
               PROVE  OldJobIsThere'
    OBVIOUS
  <2>1. \A j \in JobIDs : Shown(j) => Shown(j)'
    BY StepShows DEF SameShown, Published, Reported
  <2>2. \A r \in Requests : answer'[r] \in JobIDs \ {r} => Shown(answer'[r])
    BY AnswersKnown DEF OldJobIsThere
  <2> QED  BY <2>1, <2>2 DEF OldJobIsThere, Shown, HasStatus, StatusIDs
<1>3. IndInv /\ OldJobIsThere => AnswerFitsRequest
  BY DEF IndInv, AnswerFitsRequest
<1> QED  BY <1>1, <1>2, <1>3, Invariance, PTL DEF Spec

\* Whatever fails, the server over its tables implements JobLifecycle.
THEOREM ImplementsLifecycle == Spec => LifecycleSpec
<1>1. Init => Lifecycle!Init
  BY DEF Init, TablesInit, Lifecycle!Init, ShownStatus, Shown
<1>2. IndInv /\ [Next]_vars => [Lifecycle!Next]_<<queued, ShownStatus>>
  <2> SUFFICES ASSUME IndInv, [Next]_vars
               PROVE  Lifecycle!Next \/ UNCHANGED <<queued, ShownStatus>>
    OBVIOUS
  <2>1. ASSUME \A j \in JobIDs : SameShown(j)
        PROVE  ShownStatus' = ShownStatus
    BY <2>1 DEF ShownStatus, SameShown
  <2>2. ASSUME NEW j \in JobIDs, \A k \in JobIDs \ {j} : SameShown(k), Shown(j)'
        PROVE  ShownStatus' = [ShownStatus EXCEPT ![j] = LatestStatus(j)']
    BY <2>2 DEF ShownStatus, SameShown
  <2>3. CASE /\ \A j \in JobIDs : SameShown(j)
             /\ queued' = queued \/ \E r \in JobIDs : queued' = queued \cup {r}
    BY <2>1, <2>3 DEF Lifecycle!Next, Lifecycle!Submit
  <2>4. ASSUME NEW j \in JobIDs, \A k \in JobIDs \ {j} : SameShown(k),
               queued' = queued, Published(j)
        PROVE  Lifecycle!Next
    <3>1. ShownStatus[j] = "none" /\ j \in queued
      BY <2>4 DEF ShownStatus, Published
    <3>2. ShownStatus' = [ShownStatus EXCEPT ![j] = "requested"]
      BY <2>2, <2>4 DEF Published
    <3> QED  BY <3>1, <3>2, <2>4 DEF Lifecycle!Next, Lifecycle!Publish
  <2>5. ASSUME NEW j \in JobIDs, \A k \in JobIDs \ {j} : SameShown(k),
               queued' = queued, Reported(j)
        PROVE  Lifecycle!Next
    <3>1. ShownStatus[j] # "none"
      <4>1. LatestStatus(j) # "none"
        <5>1. HasStatus(j)
          BY <2>5 DEF Reported, Shown
        <5>2. LatestID(j) \in StatusIDs(j)
          BY <5>1 DEF IndInv, LatestInv, LatestID
        <5> QED  BY <5>2, StatusRowFacts DEF IndInv, StatusIDs, LatestStatus, Status
      <4> QED  BY <4>1, <2>5 DEF ShownStatus, Reported
    <3>2. ShownStatus' = [ShownStatus EXCEPT ![j] = LatestStatus(j)']
      BY <2>2, <2>5 DEF Reported
    <3> QED  BY <3>1, <3>2, <2>5 DEF Lifecycle!Next, Lifecycle!Report, Reported
  <2> QED  BY StepShows, <2>3, <2>4, <2>5
<1> QED  BY <1>1, <1>2, Invariance, PTL DEF Spec, LifecycleSpec, Lifecycle!Spec

=============================================================================
