------------------------------ MODULE Snapshot ------------------------------
(***************************************************************************)
(* The snapshot manager, the one goroutine that draws map tiles, and the   *)
(* goroutines that ask it for one with Snapshot(). Requests go through the *)
(* unbuffered channel workQueue, every reply through a channel of its own. *)
(* StartSnapshotManager returns once the manager runs: there Init begins.  *)
(***************************************************************************)
EXTENDS Naturals, Sequences

CONSTANTS
  Callers,   \* the goroutines that may call Snapshot
  Programs,  \* the sets of them that do, in the programs that use it
  NoCaller   \* the manager is at its select statement

ASSUME CallersAssumption == NoCaller \notin Callers
ASSUME ProgramsAssumption == Programs \subseteq SUBSET Callers

VARIABLES
  callers,  \* the goroutines that call Snapshot
  ctxDone,  \* the context is cancelled
  running,  \* isManagerRunning
  closed,   \* workQueue is closed
  senders,  \* the callers blocked on workQueue, oldest first
  serving,  \* the caller whose tile the manager draws
  stuck,    \* the manager waits forever to reply to the zero job
  call      \* where each caller is in Snapshot

snapVars == <<callers, ctxDone, running, closed, senders, serving, stuck, call>>

CallLabels == {"out", "send", "blocked", "image", "error", "refused", "panic"}

SnapInit ==
  /\ callers \in Programs
  /\ ctxDone = FALSE
  /\ running = TRUE
  /\ closed = FALSE
  /\ senders = <<>>
  /\ serving = NoCaller
  /\ stuck = FALSE
  /\ call = [c \in Callers |-> "out"]

-----------------------------------------------------------------------------
\* Snapshot, in the caller.

Accept(c) ==
  /\ call[c] = "out"
  /\ running
  /\ call' = [call EXCEPT ![c] = "send"]
  /\ UNCHANGED <<callers, ctxDone, running, closed, senders, serving, stuck>>

\* The manager is not running: close(workQueue), which panics the second time.
\* Its context is cancelled, so c is the only caller and no sender is blocked.
Refuse(c) ==
  /\ call[c] = "out"
  /\ ~running
  /\ closed' = TRUE
  /\ call' = [call EXCEPT ![c] = IF closed THEN "panic" ELSE "refused"]
  /\ UNCHANGED <<callers, ctxDone, running, senders, serving, stuck>>

Send(c) ==
  /\ call[c] = "send"
  /\ call' = [call EXCEPT ![c] = "blocked"]
  /\ senders' = Append(senders, c)
  /\ UNCHANGED <<callers, ctxDone, running, closed, serving, stuck>>

\* Mutant: a caller gives up while its tile is drawn, as a select on the reply
\* and on a timeout would let it.
ReturnEarly(c) ==
  /\ call[c] \in {"image", "error", "refused"} \/ c = serving
  /\ call' = [call EXCEPT ![c] = "out"]
  /\ UNCHANGED <<callers, ctxDone, running, closed, senders, serving, stuck>>

\* The caller takes the result; it may then call Snapshot again.
Return(c) ==
  /\ call[c] \in {"image", "error", "refused"}
  /\ call' = [call EXCEPT ![c] = "out"]
  /\ UNCHANGED <<callers, ctxDone, running, closed, senders, serving, stuck>>

-----------------------------------------------------------------------------
\* SnapshotManager.

AtSelect == serving = NoCaller /\ ~stuck

Receive ==
  /\ AtSelect
  /\ senders # <<>>
  /\ serving' = Head(senders)
  /\ senders' = Tail(senders)
  /\ UNCHANGED <<callers, ctxDone, running, closed, stuck, call>>

\* Mutant: a tile that could not be drawn is logged and gets no reply.
ReplyImagesOnly ==
  /\ serving # NoCaller
  /\ \/ call' = [call EXCEPT ![serving] = "image"]
     \/ UNCHANGED call
  /\ serving' = NoCaller
  /\ UNCHANGED <<callers, ctxDone, running, closed, senders, stuck>>

Reply ==
  /\ serving # NoCaller
  /\ \E result \in {"image", "error"} : call' = [call EXCEPT ![serving] = result]
  /\ serving' = NoCaller
  /\ UNCHANGED <<callers, ctxDone, running, closed, senders, stuck>>

\* The break leaves the select statement and not the loop: the manager says it
\* is not running and is back at its select. It never reaches the code after
\* the loop, which would refuse the jobs left in the queue.
Stop ==
  /\ AtSelect
  /\ ctxDone
  /\ running
  /\ running' = FALSE
  /\ UNCHANGED <<callers, ctxDone, closed, senders, serving, stuck, call>>

\* A closed channel yields a zero job, whose reply goes to a nil channel.
TakeZeroJob ==
  /\ AtSelect
  /\ closed
  /\ senders = <<>>
  /\ stuck' = TRUE
  /\ UNCHANGED <<callers, ctxDone, running, closed, senders, serving, call>>

\* atlante cancels the context, on a signal or a timeout, and has one caller;
\* the tile server of snap has a caller per request and never cancels it.
Cancel ==
  /\ \A c, d \in callers : c = d
  /\ ~ctxDone
  /\ ctxDone' = TRUE
  /\ UNCHANGED <<callers, running, closed, senders, serving, stuck, call>>

ManagerStep == Receive \/ Reply \/ Stop \/ TakeZeroJob

\* A caller that was refused does not try again.
CallerStep(c) ==
  \/ Accept(c) \/ Refuse(c) \/ Send(c)
  \/ call[c] # "refused" /\ Return(c)

SnapNext == ManagerStep \/ Cancel \/ \E c \in callers : CallerStep(c)

SnapSpec == SnapInit /\ [][SnapNext]_snapVars

\* Both are goroutines; select chooses at random among its ready cases, so the
\* one that stays ready is chosen in the end. No one has to ask for a tile.
SnapFairness ==
  /\ WF_snapVars(ManagerStep)
  /\ \A c \in Callers : WF_snapVars(Send(c))

SnapFairSpec == SnapSpec /\ SnapFairness
-----------------------------------------------------------------------------

Waiting == {senders[i] : i \in DOMAIN senders}

\* Every variable has its type.
SnapTypeOK ==
  /\ ctxDone \in BOOLEAN /\ running \in BOOLEAN
  /\ closed \in BOOLEAN /\ stuck \in BOOLEAN
  /\ senders \in Seq(Callers)
  /\ serving \in Callers \cup {NoCaller}
  /\ callers \subseteq Callers
  /\ call \in [Callers -> CallLabels]

\* Whoever the manager has a tile to draw for is there to take the reply, which
\* has no buffer: a caller that had left would hold up the one goroutine that
\* draws, for all the others and for good. And each caller that is blocked in
\* Snapshot is owed one reply, whatever the manager's state and the context's.
EachWaiterIsKnown ==
  \A c \in Callers :
    /\ call[c] = "blocked" <=> c \in Waiting \/ c = serving
    /\ c \in Waiting => c # serving
    /\ \A i, k \in DOMAIN senders : senders[i] = senders[k] => i = k

\* A caller that sends its request gets a reply, whatever the others do.
EveryCallReturns ==
  \A c \in Callers : call[c] = "blocked" ~> call[c] \in {"image", "error"}

\* "We are shutdowning, let's empty the queue": once the manager has said that
\* it is not running, it takes no more tiles to draw.
StoppedManagerDrawsNothing ==
  [][~running /\ serving = NoCaller => serving' = NoCaller]_snapVars
=============================================================================
