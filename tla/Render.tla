------------------------------- MODULE Render -------------------------------
(***************************************************************************)
(* A worker process, atlante run for one job: generatePDF and GeneratePDF, *)
(* the sheet's template with the image and the remote assets it may use,   *)
(* the snapshot manager that draws the tiles of the image, the uploads of  *)
(* a file store that is fed through pipes, and the end of main.            *)
(***************************************************************************)
EXTENDS Snapshot, Progress, Functions

CONSTANTS
  Stores,   \* the sheet's file stores to check
  MaxTiles  \* a bound of the model: the tiles of the image

\* The parts of a sheet's file store, in the order a multi store asks them:
\* log:   the log store, whose writers are nil
\* local: writers that write at once, as the file store's
\* pipe:  writers that feed an upload, as the s3 store's
Store == [parts: {<<>>, <<"log">>, <<"local">>, <<"pipe">>, <<"local", "pipe">>, <<"pipe", "local">>},
          intermediate: BOOLEAN]

\* asset stands for the files a template fetches with remote.
Files == {"svg", "asset", "png", "pdf"}

ASSUME StoresAssumption == Stores \subseteq Store
ASSUME MaxTilesAssumption == MaxTiles \in Nat \ {0}
ASSUME WorkerAssumption == \E c \in Callers : Programs = {{c}}

Me == CHOOSE c \in Callers : Programs = {{c}}

VARIABLES
  store,    \* the sheet's file store
  pc,       \* where the main goroutine is
  posts,    \* the statuses it has posted
  err,      \* what GeneratePDF returned: "none" while it runs, "nil" or "error"
  todo,     \* what the template may still use, of "asset" and "image"
  tiles,    \* the tiles of the image still to be drawn
  open,     \* the files whose pipe's write end is open
  upload,   \* the uploads: "none", "reading", "stored" or "failed"
  pdf,      \* what the PDF copied to the store holds
  lost,     \* the files whose pipe was opened and given to nobody
  exitCode  \* of the process; "none" while it runs

files == <<open, upload, pdf, lost>>
renderVars == <<store, pc, posts, err, todo, tiles, files, exitCode>>
vars == <<snapVars, renderVars>>

Labels == {"main", "started", "svg", "template", "fill", "asset", "tile",
           "png", "broken", "convert", "svg2pdf", "pdf", "copy", "complete",
           "defer", "notify", "cancel", "cleanup", "gone"}

Init ==
  /\ SnapInit
  /\ store \in Stores
  /\ pc = "main"
  /\ posts = <<>>
  /\ err = "none"
  /\ todo = {"asset", "image"}
  /\ tiles = MaxTiles
  /\ open = {}
  /\ upload = [f \in Files |-> "none"]
  /\ pdf = "none"
  /\ lost = {}
  /\ exitCode = "none"

-----------------------------------------------------------------------------
\* Posts, files and errors.

Emit(s) == posts' = Append(posts, s)

Goto(label) == pc' = label

\* EmitError and the return of the error: the deferred calls are left.
EmitError ==
  /\ Emit("failed")
  /\ err' = "error"
  /\ Goto("defer")

HasPart(kind) == kind \in Range(store.parts)
Piped(f) == HasPart("pipe") /\ (store.intermediate \/ f = "pdf")

\* Pipe starts the upload; a local file or a nil writer has none.
OpenFile(f) ==
  IF Piped(f)
    THEN /\ open' = open \cup {f}
         /\ upload' = [upload EXCEPT ![f] = "reading"]
    ELSE UNCHANGED <<open, upload>>

\* FileWriter.Writer of a multi store forgets the writers it has when the next
\* store fails.
LosePipe(f) ==
  IF store.parts = <<"pipe", "local">> /\ Piped(f)
    THEN /\ OpenFile(f)
         /\ lost' = lost \cup {f}
    ELSE UNCHANGED <<open, upload, lost>>

\* A write to a pipe waits for the upload to read it. An upload that failed
\* reads no more, and its end of the pipe stays open.
CanWrite(f) == Piped(f) => upload[f] = "reading"

-----------------------------------------------------------------------------
\* generatePDF and GeneratePDF.

\* rootCmdRun or GeneratePDFJob fails before there is anything to post.
BadJob ==
  /\ pc = "main"
  /\ err' = "error"
  /\ Goto("cancel")
  /\ UNCHANGED <<snapVars, store, posts, todo, tiles, files, exitCode>>

Start ==
  /\ pc = "main"
  /\ Emit("started")
  /\ Goto("started")
  /\ UNCHANGED <<snapVars, store, err, todo, tiles, files, exitCode>>

NoFileWriter ==
  /\ pc = "started"
  /\ HasPart("local")
  /\ EmitError
  /\ UNCHANGED <<snapVars, store, todo, tiles, files, exitCode>>

CreateSVG ==
  /\ pc = "started"
  /\ Emit("processing")
  /\ Goto("svg")
  /\ UNCHANGED <<snapVars, store, err, todo, tiles, files, exitCode>>

\* The deferred file.Close() of a nil file panics before the error is looked at.
NoSVGWriter ==
  /\ pc = "svg"
  /\ Goto("gone")
  /\ exitCode' = "panic"
  /\ UNCHANGED <<snapVars, store, posts, err, todo, tiles, files>>

OpenSVG ==
  /\ pc = "svg"
  /\ OpenFile("svg")
  /\ IF ctxDone THEN EmitError ELSE Goto("template") /\ UNCHANGED <<posts, err>>
  /\ UNCHANGED <<snapVars, store, todo, tiles, pdf, lost, exitCode>>

-----------------------------------------------------------------------------
\* sheet.Execute: the template writes to the svg between the functions it calls.

WriteSVG ==
  /\ pc = "template"
  /\ CanWrite("svg")
  /\ Goto("fill")
  /\ UNCHANGED <<snapVars, store, posts, err, todo, tiles, files, exitCode>>

TemplateFails ==
  /\ pc \in {"fill", "asset", "broken"}
  /\ EmitError
  /\ UNCHANGED <<snapVars, store, todo, tiles, files, exitCode>>

TemplateDone ==
  /\ pc = "fill"
  /\ Goto("convert")
  /\ UNCHANGED <<snapVars, store, posts, err, todo, tiles, files, exitCode>>

FetchAsset ==
  /\ pc = "fill"
  /\ "asset" \in todo
  /\ todo' = todo \ {"asset"}
  /\ OpenFile("asset")
  /\ Goto("asset")
  /\ UNCHANGED <<snapVars, store, posts, err, tiles, pdf, lost, exitCode>>

\* attemptWrite returns without closing its writer.
WriteAsset ==
  /\ pc = "asset"
  /\ CanWrite("asset")
  /\ Goto("template")
  /\ UNCHANGED <<snapVars, store, posts, err, todo, tiles, files, exitCode>>

\* generateImage, and the GenerateImage it calls.
StartImage ==
  /\ pc = "fill"
  /\ "image" \in todo
  /\ todo' = todo \ {"image"}
  /\ Emit("processing")
  /\ OpenFile("png")
  /\ Goto("tile")
  /\ UNCHANGED <<snapVars, store, err, tiles, pdf, lost, exitCode>>

\* The copy beside the template comes before the store's.
NoPNGWriter ==
  /\ pc = "fill"
  /\ "image" \in todo
  /\ todo' = todo \ {"image"}
  /\ posts' = posts \o <<"processing", "failed">>
  /\ Goto("broken")
  /\ LosePipe("png") \/ UNCHANGED <<open, upload, lost>>
  /\ UNCHANGED <<snapVars, store, err, tiles, pdf, exitCode>>

\* Mutant: one tile too many.
AskForTileTooOften ==
  /\ pc = "tile"
  /\ Accept(Me) \/ Refuse(Me)
  /\ UNCHANGED renderVars

AskForTile ==
  /\ pc = "tile"
  /\ tiles > 0
  /\ Accept(Me) \/ Refuse(Me)
  /\ UNCHANGED renderVars

SendTile == Send(Me) /\ UNCHANGED renderVars

TakeTile ==
  /\ pc = "tile"
  /\ call[Me] = "image"
  /\ Return(Me)
  /\ tiles' = tiles - 1
  /\ UNCHANGED <<store, pc, posts, err, todo, files, exitCode>>

\* Mutant: generateImage does not close its file when it fails.
ImageErrorLeavesOpen ==
  /\ Emit("failed")
  /\ Goto("broken")
  /\ UNCHANGED open

\* The error is posted and given to the template, once the png is closed.
ImageError ==
  /\ Emit("failed")
  /\ open' = open \ {"png"}
  /\ Goto("broken")

\* Mutant: GenerateImage leaves out a tile it cannot draw and goes on.
SkipTile ==
  /\ pc = "tile"
  /\ call[Me] \in {"error", "refused"}
  /\ Return(Me)
  /\ tiles' = tiles - 1
  /\ UNCHANGED <<store, pc, posts, err, todo, files, exitCode>>

TileFails ==
  /\ pc = "tile"
  /\ call[Me] \in {"error", "refused"}
  /\ Return(Me)
  /\ ImageError
  /\ UNCHANGED <<store, err, todo, tiles, upload, pdf, lost, exitCode>>

\* The backing store cannot be created, written or synced.
BackingStoreFails ==
  /\ pc = "tile"
  /\ call[Me] = "out"
  /\ ImageError
  /\ UNCHANGED <<snapVars, store, err, todo, tiles, upload, pdf, lost, exitCode>>

TilesDone ==
  /\ pc = "tile"
  /\ tiles = 0
  /\ Goto("png")
  /\ UNCHANGED <<snapVars, store, posts, err, todo, tiles, files, exitCode>>

WritePNG ==
  /\ pc = "png"
  /\ CanWrite("png")
  /\ open' = open \ {"png"}
  /\ Goto("template")
  /\ UNCHANGED <<snapVars, store, posts, err, todo, tiles, upload, pdf, lost, exitCode>>

EncodeFails ==
  /\ pc = "png"
  /\ ImageError
  /\ UNCHANGED <<snapVars, store, err, todo, tiles, upload, pdf, lost, exitCode>>

-----------------------------------------------------------------------------
\* The PDF.

Convert ==
  /\ pc = "convert"
  /\ Emit("processing")
  /\ Goto("svg2pdf")
  /\ UNCHANGED <<snapVars, store, err, todo, tiles, files, exitCode>>

\* Mutant: the error of svg2pdf is posted and not returned.
ConvertFailsGoesOn ==
  /\ pc = "svg2pdf"
  /\ Emit("failed")
  /\ Goto("pdf")
  /\ UNCHANGED <<snapVars, store, err, todo, tiles, files, exitCode>>

ConvertFails ==
  /\ pc = "svg2pdf"
  /\ EmitError
  /\ UNCHANGED <<snapVars, store, todo, tiles, files, exitCode>>

Converted ==
  /\ pc = "svg2pdf"
  /\ IF ctxDone THEN EmitError ELSE Goto("pdf") /\ UNCHANGED <<posts, err>>
  /\ UNCHANGED <<snapVars, store, todo, tiles, files, exitCode>>

NothingToStore ==
  /\ pc = "pdf"
  /\ store.parts = <<>>
  /\ Goto("complete")
  /\ UNCHANGED <<snapVars, store, posts, err, todo, tiles, files, exitCode>>

\* A nil writer: GeneratePDF returns without a post of its own.
PDFNotWanted ==
  /\ pc = "pdf"
  /\ store.parts = <<"log">>
  /\ err' = "nil"
  /\ Goto("defer")
  /\ UNCHANGED <<snapVars, store, posts, todo, tiles, files, exitCode>>

NoPDFWriter ==
  /\ pc = "pdf"
  /\ HasPart("local")
  /\ EmitError
  /\ LosePipe("pdf")
  /\ UNCHANGED <<snapVars, store, todo, tiles, pdf, exitCode>>

OpenPDF ==
  /\ pc = "pdf"
  /\ HasPart("local") \/ HasPart("pipe")
  /\ OpenFile("pdf")
  /\ pdf' = "empty"
  /\ Goto("copy")
  /\ UNCHANGED <<snapVars, store, posts, err, todo, tiles, lost, exitCode>>

\* Mutant: the error of os.Open is ignored as that of io.Copy is.
PDFUnreadableIgnored ==
  /\ pc = "copy"
  /\ Goto("complete")
  /\ UNCHANGED <<snapVars, store, posts, err, todo, tiles, files, exitCode>>

\* os.Open fails: the writer is open already and the store gets an empty file.
PDFUnreadable ==
  /\ pc = "copy"
  /\ EmitError
  /\ UNCHANGED <<snapVars, store, todo, tiles, files, exitCode>>

\* The error of io.Copy is ignored.
CopyPDF ==
  /\ pc = "copy"
  /\ CanWrite("pdf")
  /\ pdf' \in {"part", "whole"}
  /\ Goto("complete")
  /\ UNCHANGED <<snapVars, store, posts, err, todo, tiles, open, upload, lost, exitCode>>

Complete ==
  /\ pc = "complete"
  /\ Emit("completed")
  /\ err' = "nil"
  /\ Goto("defer")
  /\ UNCHANGED <<snapVars, store, todo, tiles, files, exitCode>>

\* generateImage has closed the png; what remains are the svg and the PDF.
RunDeferred ==
  /\ pc = "defer"
  /\ open' = open \ ({"svg", "pdf"} \ lost)
  /\ Goto("notify")
  /\ UNCHANGED <<snapVars, store, posts, err, todo, tiles, upload, pdf, lost, exitCode>>

\* Mutant: generatePDF posts completed without a look at the error.
NotifyAlways ==
  /\ pc = "notify"
  /\ Emit("completed")
  /\ Goto("cancel")
  /\ UNCHANGED <<snapVars, store, err, todo, tiles, files, exitCode>>

\* generatePDF posts the outcome, again.
Notify ==
  /\ pc = "notify"
  /\ Emit(IF err = "nil" THEN "completed" ELSE "failed")
  /\ Goto("cancel")
  /\ UNCHANGED <<snapVars, store, err, todo, tiles, files, exitCode>>

-----------------------------------------------------------------------------
\* The end of rootCmdRun and of main, and the uploads.

RunCancel ==
  /\ pc = "cancel"
  /\ ctxDone' = TRUE
  /\ Goto("cleanup")
  /\ UNCHANGED <<callers, running, closed, senders, serving, stuck, call>>
  /\ UNCHANGED <<store, posts, err, todo, tiles, files, exitCode>>

\* filestore.Cleanup waits for every upload that was started.
Exit ==
  /\ pc = "cleanup"
  /\ \A f \in Files : upload[f] # "reading"
  /\ Goto("gone")
  /\ exitCode' = err
  /\ UNCHANGED <<snapVars, store, posts, err, todo, tiles, files>>

\* The upload is at the end of what is written to it.
UploadEnds(f) ==
  /\ exitCode = "none"
  /\ upload[f] = "reading"
  /\ f \notin open
  /\ upload' = [upload EXCEPT ![f] = "stored"]
  /\ UNCHANGED <<snapVars, store, pc, posts, err, todo, tiles, open, pdf, lost, exitCode>>

\* The error is logged, and known to nobody else.
UploadFails(f) ==
  /\ exitCode = "none"
  /\ upload[f] = "reading"
  /\ upload' = [upload EXCEPT ![f] = "failed"]
  /\ UNCHANGED <<snapVars, store, pc, posts, err, todo, tiles, open, pdf, lost, exitCode>>

-----------------------------------------------------------------------------

GeneratePDF ==
  \/ Start \/ NoFileWriter \/ CreateSVG \/ NoSVGWriter \/ OpenSVG
  \/ WriteSVG \/ TemplateFails \/ TemplateDone \/ FetchAsset \/ WriteAsset
  \/ Convert \/ ConvertFails \/ Converted
  \/ NothingToStore \/ PDFNotWanted \/ NoPDFWriter \/ OpenPDF
  \/ PDFUnreadable \/ CopyPDF \/ Complete \/ RunDeferred

GenerateImage ==
  \/ StartImage \/ NoPNGWriter \/ AskForTile \/ SendTile \/ TakeTile
  \/ TileFails \/ BackingStoreFails \/ TilesDone \/ WritePNG \/ EncodeFails

MainStep ==
  GeneratePDF \/ GenerateImage \/ BadJob \/ Notify \/ RunCancel \/ Exit

SnapshotManager == exitCode = "none" /\ ManagerStep /\ UNCHANGED renderVars

\* A signal, whichever it is, or the timeout.
CancelRender == exitCode = "none" /\ Cancel /\ UNCHANGED renderVars

Next ==
  \/ MainStep
  \/ SnapshotManager
  \/ CancelRender
  \/ \E f \in Files : UploadEnds(f) \/ UploadFails(f)

Spec == Init /\ [][Next]_vars

\* Goroutines, all of them. Neither signals nor failures have to come.
Fairness ==
  /\ WF_vars(MainStep)
  /\ WF_vars(SnapshotManager)
  /\ \A f \in Files : WF_vars(UploadEnds(f))

FairSpec == Spec /\ Fairness
=============================================================================
