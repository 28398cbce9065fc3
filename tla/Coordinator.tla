---------------------------- MODULE Coordinator ----------------------------
(***************************************************************************)
(* The postgresql coordinator: the tables jobs and job_statuses, the       *)
(* statements that change them and the queries the server's handlers run.  *)
(* A statement or a query is one SQL command, hence one atomic step; a     *)
(* call of UpdateField with several fields is several of them.             *)
(***************************************************************************)
EXTENDS Naturals, Sequences, FiniteSets

CONSTANTS
  JobIDs,  \* the serial ids of table jobs; no query orders by them
  Cells,   \* a grid cell of a sheet: mdgid, sheet_number and sheet_name
  Extents, \* the bounds that are asked for instead of those of a cell
  Whole,   \* the bounds of the cell itself
  Styles,  \* style locations; no row has the empty location of old versions
  NoRow    \* what is stored under an id that was never inserted

Status == {"requested", "started", "processing", "completed", "failed"}
WorkerStatus == Status \ {"requested"}
Terminal == {"completed", "failed"}

\* queue_id: NULL, the empty string of a submission without an id, or an id.
QueueIDs == {"null", "empty", "set"}

\* hasData: job_data is not NULL. It is never the empty string.
Row == [cell: Cells, extent: Extents \cup {Whole}, style: Styles,
        queueID: QueueIDs, hasData: BOOLEAN]

\* nth is a history field no query reads: the position of this status among
\* those the job's worker sent, 0 when the server wrote the status itself.
StatusRow == [job: JobIDs, status: Status, nth: Nat]

ASSUME NoRowAssumption == NoRow \notin Row
ASSUME WholeAssumption == Whole \notin Extents

VARIABLES
  rows,     \* table jobs
  statuses  \* table job_statuses; the index of a record is its serial id

tables == <<rows, statuses>>

TablesInit ==
  /\ rows = [j \in JobIDs |-> NoRow]
  /\ statuses = <<>>

-----------------------------------------------------------------------------
\* The statements.

NewJob(j, cell, extent, style) ==
  /\ rows[j] = NoRow
  /\ rows' = [rows EXCEPT ![j] = [cell |-> cell, extent |-> extent,
                                  style |-> style, queueID |-> "null",
                                  hasData |-> FALSE]]
  /\ UNCHANGED statuses

UpdateQueueID(j, id) ==
  /\ rows' = [rows EXCEPT ![j].queueID = id]
  /\ UNCHANGED statuses

UpdateJobData(j) ==
  /\ rows' = [rows EXCEPT ![j].hasData = TRUE]
  /\ UNCHANGED statuses

\* Mutant: the switch over status types has no case for field.Failed.
InsertStatusNoFailed(j, s, n) ==
  /\ statuses' = IF s = "failed" THEN statuses
                 ELSE Append(statuses, [job |-> j, status |-> s, nth |-> n])
  /\ UNCHANGED rows

InsertStatus(j, s, n) ==
  /\ statuses' = Append(statuses, [job |-> j, status |-> s, nth |-> n])
  /\ UNCHANGED rows

-----------------------------------------------------------------------------
\* The queries.

StatusIDs(j) == {i \in DOMAIN statuses : statuses[i].job = j}

HasStatus(j) == StatusIDs(j) # {}

\* The id of the latest status of j, for a job that has one.
LatestID(j) == CHOOSE i \in StatusIDs(j) : \A k \in StatusIDs(j) : k <= i

LatestStatus(j) == statuses[LatestID(j)].status

\* ORDER BY jobstatus.id DESC: a row without a status sorts before the others.
SortsBefore(i, j) ==
  \/ ~HasStatus(i) /\ HasStatus(j)
  \/ HasStatus(i) /\ HasStatus(j) /\ LatestID(i) > LatestID(j)

\* job_data is scanned into a string, which a NULL cannot be: pgx then fails
\* the scan and closes the result set, and the loop over it ends there.
Unscannable(j) == rows[j] # NoRow /\ ~rows[j].hasData

\* scanRow returns a job. It skips a row with no queue_id or no status.
Shown(j) ==
  /\ rows[j] # NoRow
  /\ rows[j].hasData
  /\ rows[j].queueID = "set"
  /\ HasStatus(j)

\* What the handlers can see of FindByJob's result: the jobs of this cell and
\* style whose row comes before the first one that cannot be scanned. The
\* bounds are not compared: a cell for bounds bears the mdgid of a cell that
\* meets them, so jobs for other bounds of this mdgid are found as well.
FindByJob(cell, style) ==
  {j \in JobIDs :
     /\ Shown(j)
     /\ rows[j].cell = cell
     /\ rows[j].style = style
     /\ \A p \in JobIDs :
          Unscannable(p) /\ rows[p].cell = cell => ~SortsBefore(p, j)}

\* j is jobs[0] of a result.
IsFirst(j, found) == j \in found /\ \A k \in found : LatestID(k) <= LatestID(j)

\* Mutant: a LEFT JOIN, and no error for a row without a status.
FindByJobIDNoStatus(j) ==
  rows[j] # NoRow /\ rows[j].hasData /\ rows[j].queueID = "set"

\* The inner join with job_statuses, then scanRow.
FindByJobID(j) == Shown(j)

\* Jobs(limit): the limit counts the rows of the query, those that are then
\* skipped included; 0 is no limit.
Jobs(limit) ==
  {j \in JobIDs :
     /\ Shown(j)
     /\ \A p \in JobIDs : Unscannable(p) => ~SortsBefore(p, j)
     /\ limit # 0 =>
          Cardinality({k \in JobIDs : rows[k] # NoRow /\ SortsBefore(k, j)})
            < limit}

=============================================================================
