# A TLA+ model of atlante

atlante makes map sheets. A client asks the server for a sheet and a cell of a
grid; the server records a job, gives it to a queue and replies with the job's
id. A worker renders the sheet (template, map image, SVG, PDF), writes the
files to a store and posts its progress back to the server, which records it
for those who ask about the job. This directory models that system, checks it
with TLC and proves with TLAPS the safety of its server, its workers, the local
queue and the renderer's threads, and what its algorithms compute.

## Inventory

| component | state | operations | what makes it correct |
|---|---|---|---|
| coordinator (`atlante/server/coordinator`) | tables `jobs` and `job_statuses` | NewJob, UpdateField, FindByJob, FindByJobID, Jobs | what is shown of a job is consistent whichever statement failed |
| server handlers (`atlante/server`) | none of its own between requests | QueueHandler, NotificationHandler, JobsHandler, JobInfoHandler, GridInfoHandler | the same job is queued once, replies name the job asked for, statuses are recorded in order |
| queue (`atlante/queuer`: AWS Batch, local runners) | the jobs it took | Enqueue | an accepted job is run |
| notifiers (`atlante/notifiers`) | none | Emit: one blocking HTTP POST | order of a worker's posts |
| PDF generation (`atlante/atlante.go`, `sheet.go`, `image_structure.go`) | emitter and writers of the sheet, the image | generatePDF, GeneratePDF, generateImage | every run posts its end once, and truly |
| image (`mbgl/image`) | backing store, tiles | New, GenerateImage, At | all tiles or an error |
| snapshot manager (`mbgl/snapshot.go`) | `workQueue`, `isManagerRunning` | StartSnapshotManager, SnapshotManager, Snapshot | each caller gets its reply; a shutdown hurts nobody |
| file stores (`atlante/filestore`) | open pipes, `globalWaitGroupPipe` | FileWriter, Writer, Pipe, Cleanup | what is written gets stored, the process ends |
| worker command (`cmd/atlante`) | context, exit code | rootCmdRun, main | ends, with an exit code that tells |
| local queue (`atlante/queuer/local`) | a pool of jobInfos, a channel, one `Atlante` shared by the runners | Enqueue, jobRunner, GeneratePDFJob | a runner runs what was sent to it and posts to its own job |
| renderer threads (`mbgl/c/include/mbgl/util`, `actor`) | task queues of a RunLoop, mailbox, promises between the owner and the thread | Thread, pause, resume, ~Thread, process, cancel, ActorRef::ask | no thread waits forever or uses what is gone; a paused thread does nothing |
| renderer values (`tile_id.hpp`, `image.hpp`, `geo.hpp`) | none | children, scaledTo, wrap, copy, clear, unwrapForShortestPath, hull | arithmetic at the edges of the world and of an image |
| grids, styles, setqueue, grating | none between calls, or a list | MdgidPart, SublistFor, Push, LabelForRow ... | the result fits its input at every boundary |
| configuration, registries, remaining template helpers, PDF conversion, inset maps | see `PROJECT.json` | | |

How they interact: handlers and the coordinator share the two tables, and any
number of handlers run at once, in one server or several. Server and worker
share nothing but the queue (server to worker) and HTTP posts (worker to
server). Inside a worker the main goroutine, the snapshot manager, the signal
handler and one goroutine per upload interact through a channel, a flag, a
context and pipes. A server with a local queue has its workers inside: handlers
hand jobs to runners over a channel, and the runners share what a worker
process has to itself. Below the snapshot manager the C++ renderer keeps
threads of its own, each with a loop of tasks that others push to.

What is hard: handlers interleave between their SQL statements; each call may
fail after some of its effects; the worker may be faster than the server that
started it; posts are dropped, lost or overtaken; a cancellation comes at any
time; pipes and channels block. `PROJECT.json` lists each such hazard at its
line, with the properties that cover it or the reason none does yet.

## Modules

| module | models | checked by |
|---|---|---|
| `Coordinator` | the tables, the statements that write them, the queries | through `JobQueue` |
| `Progress` | the sequences of statuses a worker posts | through `JobQueue` and `Render` |
| `JobQueue` | QueueHandler, the queue, a worker's posts, NotificationHandler | `JobQueueFaults.cfg`, `JobQueueLive.cfg` |
| `JobLifecycle` | abstract: what is promised about a job | as a property of `JobQueueFaults.cfg` |
| `JobQueueProps` | the properties of `JobQueue` and its inductive invariant | |
| `JobQueueProofs` | the theorems | tlapm |
| `Snapshot` | the snapshot manager and its callers | `SnapshotCalls.cfg`, `SnapshotStop.cfg` |
| `SnapshotProofs` | the theorem about it | tlapm |
| `Render` | a worker process; it extends `Snapshot` | `Render.cfg`, `RenderStored.cfg` |
| `RenderProps` | the properties of `Render` | |
| `RenderProofs` | the theorems about it; it extends `SnapshotProofs` | tlapm |
| `LocalQueue` | Enqueue, the runners and what they share, with its properties | `LocalQueue.cfg` |
| `LocalQueueProofs` | the theorems about it | tlapm |
| `RunLoop` | the two task queues of a loop, `process`, cancellable tasks | through `Thread` |
| `Thread` | a thread, its owner, those who ask it; it extends `RunLoop` | `ThreadCalls.cfg` |
| `Actor` | abstract: what an actor promises to those who ask it | as a property of `ThreadCalls.cfg` |
| `ThreadProps`, `ThreadProofs` | the properties of `Thread`, and the theorems | `ThreadCalls.cfg`, tlapm |
| `TileIds`, `Pixels`, `LatLngs` | tile names, bounds checks of image copies, positions | `Parts.cfg` |
| `ImageTiles` | which tile and pixel a pixel of the image is read from | `Parts.cfg` |
| `Grid5k`, `Styles`, `SetQueue`, `Grating` | the algorithms of these packages | `Parts.cfg` |
| `Grid5kProofs` | the theorem about the grid | tlapm |
| `GeometryProofs` | lemmas about recursive functions, tiles, images and positions | tlapm |
| `PartsProofs` | lemmas about the queue, styles and the grating, and the theorems about all parts; it extends both | tlapm |
| `MCJobQueue`, `MCSnapshot`, `MCRender`, `MCLocalQueue`, `MCThread`, `MCParts` | model values and bounds | |

### Coordinator and JobQueue

`rows` and `statuses` are the two tables. One SQL command is one action, since
that is what a database makes atomic; `UpdateField` with three fields is three
actions, and a failure between them leaves what the earlier ones did. A query
is an operator: `Shown` is what `scanRow` lets through, `FindByJob` and `Jobs`
add the filter, the order and the end of the loop at a row that cannot be
scanned. The pgx driver is not in the model beyond that: a NULL `job_data`
fails the scan into a string, and a failed scan closes the result set.

`pc[r]` is the program counter of the handler of request `r`; its labels are
the calls that leave the process. A request and the row it may insert have the
same name: ids are serial numbers, and no query orders by them, so nothing but
their identity matters. What a request asks for (`Want`) is a cell, bounds and a
style: for an mdgid the bounds are those of the cell (`Whole`); for bounds the grid
provider returns a cell that meets them, with its mdgid, and puts the bounds in its
place, so the cell and the extent are chosen independently. `FindByJob` compares the
cell and the style and not the extent, as the query does. The history variables `nth` (in a status row),
`emitted` and `hasty` say which post a row came from; no guard of the server
reads them.

Both servers and workers may die at any point: the next-state relation does not
oblige a handler or a worker to take its next step, so the behaviours with a
crash are behaviours of `Spec`. Faults that leave the actor alive are named in
`FaultKinds` and chosen by the constant `Faults`.

A worker is reduced to the sequence of statuses it posts (`Progress!Scripts`):
each post is sent after the reply to the one before, unless the connection
fails first (`WorkerGivesUp`). `Render` is where the sequences come from: its
property `PostsFollowScripts` is what `JobQueue` takes for granted.

### Snapshot and Render

`Snapshot` keeps the unbuffered channel as a FIFO queue of blocked senders
(`senders`), as the Go runtime does, and the reply as part of the manager's
step, since the caller is waiting for it. `callers` separates the
two programs that use it: the worker cancels its context and has one caller, the
tile server has many callers and never cancels. Many callers and a cancellation
together do not occur.

`Render` is one process of the worker command. `pc` is where its main goroutine
is, `posts` what it posted, `open` and `upload` the two ends of each pipe. A
write to a pipe needs the upload to read (`CanWrite`); an upload that failed
reads no more and does not close its end, so the writer blocks. The template is
opaque: it writes to the SVG, may fetch remote assets and may use the image, in
any order and with an error at any point. The tiles are drawn through
`Snapshot`, whose actions take part in `Render`'s.

A store is the sequence of its parts, as a multi store has them: nil writers
(`log`), writers that write at once (`local`) and pipes (`pipe`). When a part
of a multi store fails to open a file, the writers of the parts before it are
dropped without a Close; if one was a pipe its upload reads forever. `lost` is
the set of these files.

### LocalQueue

`handler` is where the handler of a request is in `Enqueue` and after it,
`senders` the channel's queue of blocked senders, `run` where each runner is in
`GeneratePDFJob`. A jobInfo is in the pool when nobody holds it (`Held`); `job`
is what each points to, so that a jobInfo used again too early would show as a
runner with a job it was not sent. `jobID` and `emitter` are the fields of the
one `Atlante` and of its sheets; the code reads and writes them in separate
steps without a lock, and so does the model. `given` and `mixed` are history:
what was sent to a runner, and which runs overlapped another. `MapRace` is the
one undefined outcome of a data race in this code: the handler marshals the
maps of the cell while the runner writes them, which ends the process.

### RunLoop, Thread and Actor

The owner's calls, the new thread and every client are processes; each step
between two synchronisations (a mutex, a promise, a push to the loop) is an
action. `child` goes through the thread's life in the order of its constructors
and destructors, `owner` through pause(), resume() and ~Thread. `task` is what
`process()` has taken, `executing` whether it is inside. A promise is a flag
that is set once and reset when the next pair is made. A client of `ask` first
locks the weak reference to the mailbox and then pushes, and the actor may close
its mailbox between these two steps. `Mailbox` and the cancellation of a
`WorkRequest` belong to a library that is not in the repository: they are
modelled from how the headers use them, and marked external. The mutex of a
cancellable work is recursive: `Cancel` waits for the function that holds it,
`CancelItself` is the call made by that function, which returns at once. The
history variable `selfCanceled` has the works that did so; only they may run on
after a cancel() that returned.

`Actor` says it in one page: messages are kept until the object is there,
handled in order, and each ask gets one answer. The mapping (`life`, `inbox`) is
in `ThreadProps`; the message being handled is the head of `inbox`.

### Parts

The modules of the parts have no variables: each is an algorithm as an operator
and a reference definition beside it. `MCParts` makes one state per input. Numbers
keep their width where the code depends on it (`Pixels` adds positions and sizes
modulo a power of two; in `TileIds` a column has `Bits` bits, a wrap `WrapBits` bits
and a sign, and a number shifted by as many bits as it has is `Undefined`). Lengths and coordinates are integers or halves; the
rounding of floating-point numbers is not modelled. `SetQueue`, `LatLngs` and the
others are modules without actions, so the map from code to model is one of
functions: `Push(q, key, val)` is the queue after the call with what it returned.

## Runs

| run | instance | shows |
|---|---|---|
| `jobqueue_faults` | 2 requests, 1 cell by its mdgid or one of 2 bounds, 2 styles, all faults, 2 posts | the safety properties, and that `JobQueue` implements `JobLifecycle` |
| `jobqueue_live` | 2 requests, 1 sheet, no fault, 4 posts | every request is answered; a job shown before its worker posts is reported to its end |
| `snapshot_calls` | 4 callers without cancellation, 1 with | each caller is answered, once |
| `render` | 9 stores, multi stores in either order included, 2 tiles, every failure, cancellation at any time | posts follow the scripts and agree with the exit code, the shutdown of the manager is harmless, the process ends unless a pipe is jammed or lost |
| `local_queue` | 3 requests, 2 of them for one sheet, 1 or 2 runners, 3 jobInfos | a runner runs what it was sent, lone runs post to their job, Enqueue returns, each job ends |
| `thread` | 2 asks, 1 work, any number of pauses | `Thread` implements `Actor`; pause, ask and the destructor return and use only what is there |
| `parts` | every input of a bounded size | the algorithms agree with their references |
| `jobqueue_twice`, `jobqueue_gone`, `jobqueue_list`, `snapshot_stop`, `render_stored` | small | five places where the code does not do what its documentation says; see `findings` in `PROJECT.json` |

Why the bounds are enough. Two requests are what it takes for a lookup to race
an insert, for a job to be answered with another's, and for a row to hide
another. Requests interact through a cell and a style only, so two styles of
one cell are what it takes to confuse them. With faults two posts per worker
suffice to reorder, lose or duplicate a post; without faults four posts are all
a worker ever makes. A second tile is what it takes to call `Snapshot` after a
failure. Two bounds of one cell are what it takes to mistake a job for other bounds.
`JobQueueFaults.cfg` uses the symmetry of the names of requests and bounds, which no
definition orders; `JobQueueLive.cfg` uses none, as it checks liveness.
Two runners are what it takes to mix two runs, a third request to wait for both
and to use a jobInfo again. Two asks are what it takes to have one handled
while another waits in the mailbox, with the loop's one task for both; one work
is enough, as works are independent. The owner pauses and resumes as often as
it likes: nothing counts it. Columns of `parts` have 4 bits and levels go to
3, so that the children of the deepest tiles use a column to its end; images are a
few tiles wide, lists two
styles long and queues full, so that each boundary is met from both sides; rows of
the grating go to their maximum. The theorems drop the bounds: every invariant
that a passing run checks is proved for all values of the constants, from the
assumptions the modules state.

Every cfg says `CHECK_DEADLOCK FALSE`: the system may stop, with every request
answered, the process ended or its one caller refused.

Fairness. `JobQueue`: a handler that runs is a goroutine and goes on; the queue
runs what it took; posts are handled. No client has to ask for anything, and no
fault has to happen. `Snapshot`: the manager and a caller that decided to send
go on. `Thread`: a thread that can run does, the owner's calls and the clients'
go on, and nobody has to call pause(), ask() or the destructor; an ask is
answered unless the owner keeps the thread paused, which is its right.
`LocalQueue`: runners and handlers go on, and a rendering ends, which `Render`
shows. In `Snapshot` weak fairness of the manager suffices, as a `select` chooses at random
among its ready cases and `Stop` happens once. `Render`: the main goroutine,
the manager and an upload that is at the end of its pipe go on; signals and
failures need not come. `parts` needs none.

`WorkerEnds` assumes that no upload fails and that no remote asset goes to a
pipe (`~Jammed`); that the process ends also assumes that no pipe was lost by a
multi store (`lost = {}`). Without the assumptions it is false of the code: the
goroutine of `Pipe` does not close its end on an error, `attemptWrite` never
closes its writer, and nobody has the writer of a lost pipe, so the process
waits forever in a write or in `Cleanup`. Its second half says what is left when
a pipe was lost: the worker still posts its end and hangs in `Cleanup` only.

## Proofs

`JobQueueProofs` proves, for every set of requests, cells, bounds and styles, every set
of faults and every bound on posts: the type invariant, each of the five safety
invariants of `jobqueue_faults`, the action property `NeverBackToRequested`, and
that `Spec` implements `JobLifecycle` under the mapping `ShownStatus`. The
assumptions are those named in the modules: `NoRow`, `NoAnswer` and `Refused`
are not values of the sets they are added to, nor is `Whole` one of `Extents`, `Faults` is a set of fault kinds,
`MaxPosts` a natural number.

None of the properties is inductive by itself. `IndInv` adds:

- `HandlerInv`: at each label, whether the request has a row, whether the queue
  has its job, and that a row with `job_data` is one the queue took, of a
  request that was not refused, and that a request by bounds never looks one up
  and has no answer but its own job or a refusal. It is why only queued jobs are shown:
  `job_data` is stored after `Enqueue` returned without an error.
- `StatusInv`: a status row belongs to a job whose handler is done, is either
  the server's own or follows the job's requested, and then the row has its
  data. It is why a worker's status is never first and why refused jobs have
  none.
- `PostInv`: a post whose job was found is for a job that is requested; it
  carries what `FindByJobID` saw over to the insert that follows.
- `OrderInv`: a worker that is not hasty has one post in flight, later than all
  that are recorded.
- `LatestInv`: the latest status of a job exists.

`AnswerFitsRequest` has two parts. That a reply matches its request is one of
`IndInv`. That a job of another request stays there to be asked for is by itself
inductive with `IndInv`: only a job that is shown is answered (`AnswersKnown`), and
no step hides one (`StepShows`).

TLC has checked `IndInv` on the instance of `jobqueue_faults`. The proof that a
step preserves it has one lemma per kind of step; the refinement maps a step of
`JobQueue` to `Submit`, `Publish`, `Report` or a stutter (`StepShows`).

`SnapshotProofs`: `EachWaiterIsKnown` for any callers and programs. The
invariant `KnownWaiters` says it of every caller, in a program or not, and adds
that the queue holds a caller once and never the one that is served. It is a property
of the callers' code as much as of the channel: a call that gave up without its reply
would leave a reply channel nobody reads, on which the manager blocks.

`RenderProofs`, for any stores and number of tiles, from the assumption that one
caller makes up the program (`WorkerAssumption`): the type invariant,
`ExitAgreesWithPosts`, `CompletedWasRendered`, `ShutdownIsHarmless`. `IInv` adds
to `Snapshot`'s:

- `PostInv`: an end is the last thing posted, and which end it is follows from
  `err` and the place of the main goroutine.
- `ImageInv`: tiles are drawn only while the image has been started and is not
  done, so that a template that went through has drawn all or none.
- `PdfInv`: what the store was given by the time the PDF is copied.
- `CallInv`: the worker is in `Snapshot` only while it draws, and once the queue
  is closed it was refused and will not ask again. It is why the second close,
  which panics, and the wait for a stuck manager cannot happen.
- `ScriptInv`: at each place of the main goroutine, how far in which script its
  posts are. It proves `PostsFollowScripts`, and so discharges what `JobQueue`
  takes for granted of a worker. `Place` counts the posts by which a worker
  moves on in its script: a run of processing is one of them, as each file that
  is begun posts it, and failed is at most two, as `GeneratePDF` and `generatePDF`
  may both post the end.

`LocalQueueProofs`, for any requests, sheets, runners and jobInfos: the type
invariant, `RunsWhatWasSent`, `PostsNameTheirJob`. `InfoInv` says that a jobInfo
points to the request of the one who holds it, which already makes holders
distinct; `MixedInv` that two runs at a time are known as mixed; `EmitterInv`
that the job a lone run finds in the shared fields is its own at each step.

`ThreadProofs`, for any asks and works: the type invariant,
`PausedProcessesNothing`, `CanceledNeverRuns`, `LoopIsThere`, and that `Thread`
implements `Actor`. `IInv` joins four parts: `LoopInv` (a task is in hand only
while the thread is in run()), `LifeInv` (who has reached what in the other's
life: the owner goes on after the thread said it runs, the thread leaves run()
after stop()), `MailInv` (the loop has one `receive` exactly while the mailbox
has messages that nobody handles) and `PauseInv` (the pause of an owner is
queued, in hand or executing, and its promises are those it waits for).
`CanceledNeverRuns` is inductive beside it: no work whose flag is set starts, and
none that runs has its flag set by another thread, which waits for the mutex. In the
refinement each step of `Thread` is one of `Actor` or leaves `life`, `inbox` and
`reply` alone.

`Grid5kProofs`: `SheetHolds` for sheets of any width and height, by the linear
arithmetic of the split alone.

`PartsProofs` has a theorem for each of the eight invariants of `parts`. A state of
`MCParts` is one input, chosen afresh, so each invariant is inductive once it holds
of every input an action may choose (`CaseIsTaken` says which action chose it). The
lemmas say it of every input there can be, more than `MCParts` enumerates:

- Tiles (`FamiliesAgree`, `PlacesAreKept`, `OverscalingAgrees`): numbers of any width,
  any zoom level below the width of a column, any column within the worlds the wrap
  can count, any row a row can hold. `WordIs` and `ToWrapIs` show that nothing is cut
  off there; they need `Side[a + b] = Side[a] * Side[b]` and that halving `d`
  times is dividing by `Side[d]`, of negative columns too.
- Images (`CopyIsSafe`): any sizes and positions. What the code computes modulo
  `UInts` is what it would compute without an end once its checks have passed.
- Positions (`ShortestPath`, `HullsAndConstraints`): any two longitudes of the world,
  any positions for hulls. `LongitudeIs` shows that the two remainders of `wrap()`,
  which keep the sign of what they divide, are the one of mathematics.
- Image assembly (`PixelsHaveTiles`): any size of tiles and pixel ratios from 1 on in
  steps of a half; the program uses 1. It needs `LengthsAssumption`: neighbouring
  tiles share a pixel, so a row of `2n + 1` tiles is `2n + 1` pixels shorter than their
  sides add up to, and covers the image only while `n` is small against `tilesize`.
  The bound is `2 * tilesize^2 - 3 * tilesize`: for the 2048 of the code, images of
  more than 8 million pixels a side, beyond any sheet.
- Queue (`QueueMatches`), styles (`FoundUnderItsName`, `AppendedIsKept`): sequences of
  any length, sets of any size.
- Grating (`LabelsAreInOrder`, `SquaresFitTheSides`): any row, any number of letters
  above one, sides of any length.

Three definitions are recursive: `Side`, `Label` and `Place`. The induction theorems
of the library take a predicate as a parameter and cannot be used, so
`GeometryProofs` argues by the least counterexample: a set of natural numbers that
is not empty has a least element (`NatMin`, from the well-foundedness of `<`).
`RecursionHasAFunction` shows once that a recursion that gets smaller has a
function, and `SideUnfolds`, `LabelUnfolds` and `PlaceUnfolds` are its three uses:
without them a recursive definition is a CHOOSE that could be of anything. `SideAdds`,
`ShiftedIs` and `LabelsAreInOrder` are then sets of counterexamples shown empty.

Assumptions on constants, beyond those named above: `MaxZoom` and `MaxList` are
natural numbers (they bound what is enumerated), `MaxZoom` is below `Bits`, which is
at least two, and a wrap can count two worlds, `Cap` is one (`make` panics for a
negative size), `tilesize`, `UInts`, `Channels`, `Width` and `SqrSide` are positive,
`Letters` is at least two, and `NoName` is not a name. TLC evaluates all of them.

Model-checked only: liveness (`EveryRequestAnswered`, `PublishedInTimeIsReported`,
`EveryCallReturns`, `WorkerEnds`, `DestructorReturns`, `PauseReturns`,
`AsksAreAnswered`, `EnqueueReturns`, `EveryJobEnds`), since TLAPS has no proofs under
fairness here.

## Where code and comments differ

Five runs show a difference and are listed under `findings`. These were met
while reading and have no run of their own:

- `thread.hpp:26-28` says the constructor blocks until the object is created; it
  returns at once. `Thread` models what it does.
- `grid5k.go` has a comment that doubts the arithmetic of the last column; the
  model and the theorem show it right. Positions on the eastern and southern
  edge belong to the next cell.
- `notifiers/http`: the default URL template uses `.job_id`, which the value it is
  given does not have, so the default provider makes no emitter.
- `filestore/multi` says that ErrSkipWrite is not an error; its loops treat it as
  one.
- `tile_id.hpp`: the tile 0/0/0 is a child of itself. The assertion of line 100 lets
  level 32 in, of which `children` overflows (line 133) and `scaledTo(0)` shifts by 32,
  which is undefined (line 125); the model says what 32-bit numbers do, and the
  property is about the levels below.
- `style.go`: the contract of `For` (lines 13-17) says that a name that is not found
  gives the default and false. A sublist of one name that the list lacks gives the
  list's first style, or an empty one, and true (lines 121-124), and `config.go:198`
  does not check the names it is given. `SheetFindsItsStyles` says exactly when.
- `coordinator/postgresql`: `FindByJob` finds jobs "as described by the atlante job
  descriptions" (line 513) but does not compare bounds, so a request by mdgid may be
  answered with a job made for bounds that a cell of that mdgid meets. The reverse
  cannot happen (`AnswerFitsRequest`). Of the two jobs it returns at most, the handler
  looks at the first, and so does the model.
- `coordinator/logger`: `UpdateField` returns "unknown field type" for job data, before
  it forwards anything, and `Jobs` returns nothing: a server that logs its coordinator
  never publishes a job.
- `grating.go:203` takes the squarish rows and columns if there are `>= MinRowCol` rows
  and `>= MaxRowCol` columns, which looks like a slip for the lower limit or for `<=`:
  only gratings with as many columns as there can be are made squarish. `RowsAndCols`
  does as the code does.
- `image.go`: `At` has a value receiver; an image that was not generated before is
  generated again for each pixel.
- `snapshot.cpp:51` returns the text of an exception that is gone by then.

## Not modelled

`PROJECT.json` has every component with its status. Configuration, registries and
command-line parsing run once, at start-up, and keep no state. The template
helpers and the trellis are floating-point geometry and formatting. The handlers
that only read are left out except for the job lists. Retries by AWS Batch would
run a worker twice for one job; the job definition that asks for them is not part
of the repository. In `Render` a failed write to the template's local copy is a
failure of the template after it, and the worker has an emitter. In `LocalQueue`
the runners never leave, as their context is that of the process.

Under `mbgl/c/include` the repository has the headers of a C++ map library and of
its dependencies (a test framework, `expected`, `variant`, OpenGL declarations,
style properties). Their behaviour is in compiled code that is not there, or they
are containers and declarations that no code of the repository uses by itself.
They make up most of the C++ lines; what they define that acts (threads, loops,
actors, tile names, images, positions) is modelled. The Go packages are the
system.

## Plan

1. A worker whose posts are handled by the server: `Render` composed with
   `JobQueue`, the scripts no longer assumed, and with a server that may never
   answer a post.
2. A server with a local queue: `LocalQueue` composed with `JobQueue`.
3. The read-only handlers: GridInfoHandler's lookup, the limit of Jobs.
4. Timers and watches of the run loop, and actors on a pool of threads.
5. Proofs: the safety of the two compositions above once they are there, and the
   liveness arguments, should the prover come to support them.
