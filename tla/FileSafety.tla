------------------------------ MODULE FileSafety ------------------------------
(***************************************************************************)
(* What FileClient and FileServer guarantee.                               *)
(***************************************************************************)
EXTENDS FileClient

UploadOf(n) == [i \in 1..Pieces |-> <<n, i>>]

\* An upload reported complete is the file on the card, piece for piece, if
\* no answer was taken for another, no request of it ran twice and the card
\* kept the file when it was closed (handle_write_close answers OK also when
\* it did not; a write that fails is told, and the upload is not complete);
\* late requests and leaked handles of earlier jobs do it no harm.
UploadExact ==
  /\ outcome.kind = "upload" /\ outcome.ok
  /\ outcome.n \notin misread \cup again
  => /\ outcome.file \in DOMAIN disk
     /\ outcome.file \notin unkept => disk[outcome.file] = UploadOf(outcome.n)

\* A download the browser takes for complete is the file, however often its
\* requests were repeated, as long as no answer was taken for another: the
\* offset in READ_CHUNK makes repeating it harmless.
DownloadExact ==
  /\ outcome.kind = "download" /\ outcome.ok /\ outcome.n \notin misread
  => outcome.file \in DOMAIN disk /\ disk[outcome.file] = outcome.got

\* The pieces of an upload are on the card, or in a handle, in the order they
\* were sent, whatever was lost, repeated or misread.
InOrder(data) ==
  \A i, j \in 1..Len(data) :
    i < j /\ data[i][1] = data[j][1] /\ data[i][1] # 0 => data[i][2] <= data[j][2]
UploadOrdered ==
  /\ \A f \in DOMAIN disk : InOrder(disk[f])
  /\ \A h \in HandleIds : handles[h].mode = "write" => InOrder(handles[h].data)

\* The handle the log keeps for the whole session is open on the log's file
\* and holds every piece flushed, whatever happens to the other jobs, as long
\* as no answer was taken for another.
LogKept ==
  log.open /\ misread = {} =>
    /\ Used(log.h)
    /\ handles[log.h].mode = "write" /\ handles[log.h].file = LogFile
    /\ \A k \in 1..(log.buf - 1) :
         \E i \in 1..Len(handles[log.h].data) : handles[log.h].data[i] = <<0, k>>

\* Every job ends: the ESP32 never hangs on a file, also when the STM32 never
\* answers again or the card can no longer be read.
JobEnds == job # NoJob ~> job = NoJob

-----------------------------------------------------------------------------
(* The card of the small instance: one file of two pieces, as left by some *)
(* upload 0.                                                               *)

OldCard == ("old" :> << <<0, 1>>, <<0, 2>> >>)
=============================================================================
