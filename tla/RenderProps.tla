---------------------------- MODULE RenderProps ----------------------------
(***************************************************************************)
(* The properties of Render.                                               *)
(***************************************************************************)
EXTENDS Render, SequencesExt

\* Every variable has its type.
TypeOK ==
  /\ SnapTypeOK
  /\ store \in Stores
  /\ pc \in Labels
  /\ posts \in Seq({"started", "processing", "failed", "completed"})
  /\ err \in {"none", "nil", "error"}
  /\ todo \subseteq {"asset", "image"}
  /\ tiles \in 0..MaxTiles
  /\ open \subseteq Files
  /\ upload \in [Files -> {"none", "reading", "stored", "failed"}]
  /\ pdf \in {"none", "empty", "part", "whole"}
  /\ lost \subseteq open
  /\ exitCode \in {"none", "nil", "error", "panic"}

Posted(s) == s \in ToSet(posts)

\* How many of the first n posts are failed.
Fails(sent, n) == Cardinality({i \in 1..n : sent[i] = "failed"})

\* A run of processing counts once, and failed at most twice.
Absorbed(sent, i) ==
  \/ sent[i] = "processing" /\ i > 1 /\ sent[i - 1] = "processing"
  \/ sent[i] = "failed" /\ Fails(sent, i - 1) >= 2

\* How far in a script its first n posts are.
Place(sent, n) == Cardinality({i \in 1..n : ~Absorbed(sent, i)})

Follows(sent, script) ==
  \A i \in DOMAIN sent : Place(sent, i) <= Len(script) /\ script[Place(sent, i)] = sent[i]

\* What a worker posts, whatever fails in it and whenever it is cancelled, is
\* the beginning of one of the Scripts that JobQueue's workers follow, and all
\* of one when the process ends by itself with something posted.
PostsFollowScripts ==
  \E script \in Scripts :
    /\ Follows(posts, script)
    /\ exitCode \in {"nil", "error"} /\ posts # <<>> => Place(posts, Len(posts)) = Len(script)

\* The process exits with an error exactly when the last thing it posted, if it
\* posted anything, is failed; a job is never posted both failed and completed.
ExitAgreesWithPosts ==
  /\ ~(Posted("completed") /\ Posted("failed"))
  /\ exitCode \in {"nil", "error"} /\ posts # <<>> =>
       Last(posts) = IF exitCode = "nil" THEN "completed" ELSE "failed"

\* Completed is posted only for a job whose template, with its image, and
\* whose conversion went through; the store has then been given a file for the
\* PDF, complete or not, or wants none.
CompletedWasRendered ==
  Posted("completed") =>
    /\ "image" \in todo \/ tiles = 0
    /\ HasPart("pipe") => upload["pdf"] # "none"
    /\ HasPart("pipe") \/ HasPart("local") => pdf \in {"part", "whole"}

\* Snapshot closes its queue at most once, and the manager blocks forever only
\* when the worker waits for no tile: the worker asks for none after a refusal.
ShutdownIsHarmless ==
  /\ call[Me] # "panic"
  /\ stuck => call[Me] \notin {"send", "blocked"}

\* An upload failed and left its pipe without a reader, or a template fetched a
\* remote asset into a pipe, which nobody closes.
Jammed == (\E f \in Files : upload[f] = "failed") \/ "asset" \in open

\* Unless the pipes are jammed the process ends, with every pipe it opened
\* closed and uploaded; and when a multi store lost one it waits for that at
\* its end only, having posted what became of the job.
WorkerEnds ==
  /\ [](~Jammed /\ lost = {}) => <>(exitCode # "none")
  /\ [](~Jammed) => <>(exitCode # "none" \/ (pc = "cleanup" /\ posts # <<>>))

\* "Completed is the status of a successful completed job": when a worker that
\* posted completed has exited, the PDF is in the store.
CompletedIsStored ==
  exitCode # "none" /\ Posted("completed") /\ Piped("pdf") => upload["pdf"] = "stored"
=============================================================================
