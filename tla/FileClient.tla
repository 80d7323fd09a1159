------------------------------ MODULE FileClient ------------------------------
(***************************************************************************)
(* The ESP32's users of the file commands, one at a time in its loop():    *)
(* uploads, downloads and deletions asked for on the web pages, and the    *)
(* log it keeps on the SD card through a handle it never closes.           *)
(*                                                                         *)
(* Job number n uploads the pieces <<n, 1>>, <<n, 2>>, ...; the pieces of   *)
(* the log, and those on the card at first, are <<0, 1>>, <<0, 2>>, ...     *)
(***************************************************************************)
EXTENDS FileServer

CONSTANTS
  WebFiles,     \* files the browser knows
  LogFile,      \* SD_LOG_PATH
  Card,         \* what the card holds at first
  Kinds,        \* jobs of this instance: a set of "upload", "download",
                \* "delete" and "log"
  Pieces,       \* pieces of an upload
  MaxJobs       \* jobs (bounds the model, not the code)

ASSUME ClientBounds ==
  /\ Pieces \in Nat /\ MaxJobs \in Nat
  /\ Card \in [DOMAIN Card -> Seq({0} \X Nat)]

VARIABLES
  job,          \* what the ESP32 is doing, between its calls
  jobs,         \* jobs begun
  log,          \* g_handle_open, g_handle and what is in g_buf
  outcome,      \* how the last job ended, as its user sees it
  misread,      \* jobs in which an answer was taken for another
  again,        \* jobs of which the STM32 ran a request a second time
  ran           \* the request the STM32 ran last

cliVars   == <<job, jobs, log, outcome>>
ghostVars == <<misread, again, ran>>
vars == <<linkVars, srvVars, cliVars, ghostVars>>

NoJob == [kind |-> "none"]

Init ==
  /\ LinkInit
  /\ ServerInit(Card)
  /\ job = NoJob /\ jobs = 0
  /\ log = [open |-> FALSE, h |-> 0, buf |-> 1]
  /\ outcome = NoJob
  /\ misread = {} /\ again = {} /\ ran = NoRequest

Begin(new) ==
  /\ job = NoJob
  /\ new.kind \in Kinds
  /\ jobs < MaxJobs
  /\ jobs' = jobs + 1
  /\ job' = new
  /\ outcome' = NoJob
  /\ UNCHANGED <<linkVars, srvVars, log, ghostVars>>

At(kind, step) == job.kind = kind /\ job.step = step /\ phase = "idle"

\* The job makes its next call.  n, in the frame, is for the properties: it
\* tells apart the requests of two jobs that are otherwise the same.
Call(frame) ==
  /\ Request(frame)
  /\ UNCHANGED <<srvVars, cliVars, ghostVars>>

\* What the end of a call leaves to the job and the log.
Continue(next) == job' = next /\ outcome' = outcome
End(how) == job' = NoJob /\ outcome' = how
Of(kind, ok) == [kind |-> kind, n |-> jobs, ok |-> ok, file |-> job.file]
Returned ==
  /\ misread' = IF Misread THEN misread \cup {jobs} ELSE misread
  /\ UNCHANGED <<srvVars, jobs, again, ran>>

-----------------------------------------------------------------------------
(* handleUpload.  A chunk that fails ends the job with the handle open.    *)

BeginUpload == \E f \in WebFiles :
  Begin([kind |-> "upload", file |-> f, step |-> "open", h |-> 0, done |-> 0])

AllSent(done) == done = Pieces

CallUpload ==
  \/ At("upload", "open") /\ Call([cmd |-> "WRITE_OPEN", n |-> jobs, file |-> job.file])
  \/ /\ At("upload", "data") /\ ~AllSent(job.done)
     /\ Call([cmd |-> "WRITE_CHUNK", n |-> jobs, h |-> job.h,
              piece |-> <<jobs, job.done + 1>>])
  \/ /\ At("upload", "data") /\ AllSent(job.done)
     /\ Call([cmd |-> "WRITE_CLOSE", n |-> jobs, h |-> job.h])

UploadOpened ==
  /\ job.kind = "upload" /\ Succeeds("WRITE_OPEN")
  /\ Continue([job EXCEPT !.step = "data", !.h = Head(resps).h])
  /\ Returned /\ UNCHANGED log

UploadWrote ==
  /\ job.kind = "upload" /\ Succeeds("WRITE_CHUNK")
  /\ Continue([job EXCEPT !.done = @ + 1])
  /\ Returned /\ UNCHANGED log

UploadClosed ==
  /\ job.kind = "upload" /\ Succeeds("WRITE_CLOSE")
  /\ End(Of("upload", TRUE))
  /\ Returned /\ UNCHANGED log

UploadFails ==
  /\ job.kind = "upload"
  /\ Fails("WRITE_OPEN") \/ Fails("WRITE_CHUNK") \/ Fails("WRITE_CLOSE")
  /\ End(Of("upload", FALSE))
  /\ Returned /\ UNCHANGED log

\* The browser goes away in the middle.  UPLOAD_FILE_ABORTED is not among the
\* cases handleUpload tells apart: nothing is closed.
UploadAborted ==
  /\ At("upload", "data")
  /\ End(Of("upload", FALSE))
  /\ UNCHANGED <<linkVars, srvVars, jobs, log, ghostVars>>

-----------------------------------------------------------------------------
(* handleDownload.                                                         *)

BeginDownload == \E f \in WebFiles :
  Begin([kind |-> "download", file |-> f, step |-> "open", h |-> 0, size |-> 0,
         eof |-> FALSE, got |-> <<>>])

\* The loop goes on while the file has not ended and bytes are missing; a
\* chunk that fails, or that comes back empty, ends it.
MMoreIgnoresEmpty(next, data) == ~next.eof /\ Len(next.got) < next.size
More(next, data) == ~next.eof /\ Len(next.got) < next.size /\ data # <<>>

MOffsetStays(got) == 0
Offset(got) == Len(got)

CallDownload ==
  \/ At("download", "open")  /\ Call([cmd |-> "READ_OPEN", n |-> jobs, file |-> job.file])
  \/ At("download", "data")  /\ Call([cmd |-> "READ_CHUNK", n |-> jobs, h |-> job.h,
                                       offset |-> Offset(job.got)])
  \/ At("download", "close") /\ Call([cmd |-> "READ_CLOSE", n |-> jobs, h |-> job.h])

DownloadOpened ==
  /\ job.kind = "download" /\ Succeeds("READ_OPEN")
  /\ LET ans == Head(resps) IN
     Continue([job EXCEPT !.h = ans.h, !.size = ans.size,
                          !.step = IF ans.size > 0 THEN "data" ELSE "close"])
  /\ Returned /\ UNCHANGED log

DownloadRead ==
  /\ job.kind = "download" /\ Succeeds("READ_CHUNK")
  /\ LET ans  == Head(resps)
         next == [job EXCEPT !.got = @ \o ans.data, !.eof = ans.eof]
     IN Continue([next EXCEPT !.step = IF More(next, ans.data) THEN "data" ELSE "close"])
  /\ Returned /\ UNCHANGED log

DownloadReadFails ==
  /\ job.kind = "download" /\ Fails("READ_CHUNK")
  /\ Continue([job EXCEPT !.step = "close"])
  /\ Returned /\ UNCHANGED log

\* The browser was promised size bytes: it takes the download for complete
\* when it got them.
DownloadEnds ==
  /\ job.kind = "download"
  /\ Succeeds("READ_CLOSE") \/ Fails("READ_CLOSE") \/ Fails("READ_OPEN")
  /\ End([kind |-> "download", n |-> jobs, file |-> job.file, got |-> job.got,
          ok |-> job.step = "close" /\ Len(job.got) = job.size])
  /\ Returned /\ UNCHANGED log

-----------------------------------------------------------------------------
(* handleDelete.                                                           *)

BeginDelete == \E f \in WebFiles : Begin([kind |-> "delete", file |-> f, step |-> "delete"])

CallDelete == At("delete", "delete") /\ Call([cmd |-> "DELETE", n |-> jobs, file |-> job.file])

DeleteEnds ==
  /\ job.kind = "delete"
  /\ \/ Succeeds("DELETE") /\ End(Of("delete", TRUE))
     \/ Fails("DELETE") /\ End(Of("delete", FALSE))
  /\ Returned /\ UNCHANGED log

-----------------------------------------------------------------------------
(* sdlog_try_flush.  g_buf holds the piece numbered log.buf.               *)

\* g_buf after WRITE_CHUNK: a failure leaves it for the next flush.
MBufferDropped(wrote) == log.buf + 1
Buffer(wrote) == IF wrote THEN log.buf + 1 ELSE log.buf

BeginFlush == Begin([kind |-> "log", step |-> IF log.open THEN "data" ELSE "open"])

CallFlush ==
  \/ At("log", "open") /\ Call([cmd |-> "WRITE_OPEN", n |-> jobs, file |-> LogFile])
  \/ At("log", "data") /\ Call([cmd |-> "WRITE_CHUNK", n |-> jobs, h |-> log.h,
                                 piece |-> <<0, log.buf>>])
  \/ At("log", "sync") /\ Call([cmd |-> "WRITE_SYNC", n |-> jobs, h |-> log.h])

FlushOpened ==
  /\ job.kind = "log" /\ Succeeds("WRITE_OPEN")
  /\ log' = [log EXCEPT !.open = TRUE, !.h = Head(resps).h]
  /\ Continue([job EXCEPT !.step = "data"])
  /\ Returned

FlushWrote ==
  /\ job.kind = "log" /\ Succeeds("WRITE_CHUNK")
  /\ log' = [log EXCEPT !.buf = Buffer(TRUE)]
  /\ Continue([job EXCEPT !.step = "sync"])
  /\ Returned

\* The handle stays as it was, whatever happens.
FlushWriteFails ==
  /\ job.kind = "log" /\ Fails("WRITE_CHUNK")
  /\ log' = [log EXCEPT !.buf = Buffer(FALSE)]
  /\ End([kind |-> "log", n |-> jobs, ok |-> FALSE])
  /\ Returned

FlushEnds ==
  /\ job.kind = "log"
  /\ Fails("WRITE_OPEN") \/ Succeeds("WRITE_SYNC") \/ Fails("WRITE_SYNC")
  /\ End([kind |-> "log", n |-> jobs, ok |-> job.step = "sync"])
  /\ Returned /\ UNCHANGED log

-----------------------------------------------------------------------------
StmServe ==
  /\ Serve
  /\ ran' = Head(reqs)
  /\ again' = IF Head(reqs) = ran THEN again \cup {ran.n} ELSE again
  /\ UNCHANGED <<cliVars, misread>>

StmGarbled == TakeGarbled /\ UNCHANGED <<srvVars, cliVars, ghostVars>>

LinkStep ==
  /\ TransmitOk \/ TransmitBad \/ ReadTimeout \/ ReadFrameError \/ ReadStale
  /\ UNCHANGED <<srvVars, cliVars, ghostVars>>

Uploading   == CallUpload \/ UploadOpened \/ UploadWrote \/ UploadClosed \/ UploadFails \/ UploadAborted
Downloading == CallDownload \/ DownloadOpened \/ DownloadRead \/ DownloadReadFails \/ DownloadEnds
Deleting    == CallDelete \/ DeleteEnds
Flushing    == CallFlush \/ FlushOpened \/ FlushWrote \/ FlushWriteFails \/ FlushEnds

\* Every job of this instance is done (the bound MaxJobs, not the code).
Finished == job = NoJob /\ jobs = MaxJobs /\ UNCHANGED vars

Next ==
  \/ Finished
  \/ BeginUpload \/ BeginDownload \/ BeginDelete \/ BeginFlush
  \/ Uploading \/ Downloading \/ Deleting \/ Flushing
  \/ StmServe \/ StmGarbled \/ LinkStep

Spec == Init /\ [][Next]_vars

\* The ESP32's loop() keeps turning: its waits end and its jobs go on.
\* Nothing is asked of the STM32 or of the line.
FairSpec == Spec /\ WF_vars(LinkStep \/ Uploading \/ Downloading \/ Deleting \/ Flushing)
=============================================================================
