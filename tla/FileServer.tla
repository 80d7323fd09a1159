------------------------------ MODULE FileServer ------------------------------
(***************************************************************************)
(* The file commands the STM32 serves to the ESP32 over UartLink           *)
(* (WIFI_HANDLER.cpp): READ_OPEN / READ_CHUNK / READ_CLOSE, WRITE_OPEN /   *)
(* WRITE_CHUNK / WRITE_SYNC / WRITE_CLOSE and DELETE, on a table of        *)
(* NumHandles handles and the SD card.                                     *)
(*                                                                         *)
(* A file is a sequence of pieces, a piece being what one chunk carries.   *)
(* The card is the function from the files that exist to what another      *)
(* handle would read of them: what is written through a handle is there    *)
(* once the handle is synced or closed.  The code looks at no result of    *)
(* sync() and close(), and answers OK all the same.                        *)
(*                                                                         *)
(* No request is told from a repetition of itself, and no answer says      *)
(* which request it answers.  Answers carry the request they answer, "of", *)
(* for the properties alone: the code has no such field and no action of   *)
(* the model looks at it.                                                  *)
(***************************************************************************)
EXTENDS UartLink, Integers, FiniteSets, TLC

CONSTANTS
  NumHandles,   \* WIFI_NUM_HANDLES
  CardFails     \* whether any access to the card may fail, sync() and close() too

ASSUME ServerBounds == NumHandles \in Nat \ {0} /\ CardFails \in BOOLEAN

VARIABLES
  disk,         \* the SD card
  handles,      \* wifi_handle, wifi_handle_used
  unkept        \* for the properties alone: the files of which the card did not
                \* keep what was written, when it was last synced or closed

srvVars == <<disk, handles, unkept>>

HandleIds == 0..(NumHandles - 1)
Closed == [mode |-> "closed"]

ServerInit(card) ==
  /\ disk = card /\ unkept = {}
  /\ handles = [h \in HandleIds |-> Closed]

Used(h) == h \in HandleIds /\ handles[h] # Closed
FreeHandles == {h \in HandleIds : ~Used(h)}
\* alloc_handle: the first one free.
AllocHandle == CHOOSE h \in FreeHandles : \A g \in FreeHandles : h <= g

Status(req, st) == [cmd |-> req.cmd, of |-> req, status |-> st]
Refuse(req, st) == Answer(Status(req, st)) /\ UNCHANGED srvVars

\* What the card has of f once handle h is synced.  (A file deleted meanwhile
\* stays deleted.)
Synced(h) ==
  LET f == handles[h].file IN
  IF handles[h].mode = "write" /\ f \in DOMAIN disk
  THEN [disk EXCEPT ![f] = handles[h].data] ELSE disk

\* sync(), also the one in close().
SyncHandle(h) ==
  LET f == handles[h].file IN
  \/ handles[h].mode = "read" /\ UNCHANGED <<disk, unkept>>
  \/ handles[h].mode = "write" /\ disk' = Synced(h) /\ unkept' = unkept \ {f}
  \/ handles[h].mode = "write" /\ CardFails /\ disk' = disk /\ unkept' = unkept \cup {f}

CloseHandle(h) ==
  /\ SyncHandle(h)
  /\ handles' = [handles EXCEPT ![h] = Closed]

-----------------------------------------------------------------------------
ReadOpen(req) ==
  \/ FreeHandles = {} /\ Refuse(req, "NO_HANDLE_FREE")
  \/ /\ FreeHandles # {} /\ (CardFails \/ req.file \notin DOMAIN disk)
     /\ Refuse(req, "NOT_FOUND")
  \/ /\ FreeHandles # {} /\ req.file \in DOMAIN disk
     /\ handles' = [handles EXCEPT ![AllocHandle] =
          [mode |-> "read", file |-> req.file, data |-> disk[req.file], pos |-> 0]]
     /\ UNCHANGED <<disk, unkept>>
     /\ Answer([cmd |-> "READ_OPEN", of |-> req, status |-> "OK",
                h |-> AllocHandle, size |-> Len(disk[req.file])])

\* Past the end, seekSet leaves the position alone.
SeekSet(f, offset) == IF offset <= Len(f.data) THEN offset ELSE f.pos

\* A read that fails, or of a handle open for writing, counts as no bytes.
\* Whether this was the end is computed from the offset asked for.
ReadChunk(req) ==
  \/ ~Used(req.h) /\ Refuse(req, "BAD_HANDLE")
  \/ /\ Used(req.h)
     /\ LET f    == handles[req.h]
            pos  == SeekSet(f, req.offset)
            some == f.mode = "read" /\ pos < Len(f.data)
        IN \E n \in (IF some THEN {1} ELSE {0}) \cup (IF CardFails THEN {0} ELSE {}) :
             /\ handles' = [handles EXCEPT ![req.h].pos = pos + n]
             /\ Answer([cmd |-> "READ_CHUNK", of |-> req, status |-> "OK",
                        data |-> SubSeq(f.data, pos + 1, pos + n),
                        eof |-> req.offset + n >= Len(f.data)])
     /\ UNCHANGED <<disk, unkept>>

\* READ_CLOSE and WRITE_CLOSE close a handle of either kind.
Close(req) ==
  \/ ~Used(req.h) /\ Refuse(req, "BAD_HANDLE")
  \/ Used(req.h) /\ CloseHandle(req.h) /\ Answer(Status(req, "OK"))

\* O_TRUNC: whatever the file held is gone at once.
MNotTruncated(f) == IF f \in DOMAIN disk THEN disk[f] ELSE <<>>
Truncated(f) == <<>>

WriteOpen(req) ==
  \/ FreeHandles = {} /\ Refuse(req, "NO_HANDLE_FREE")
  \/ FreeHandles # {} /\ CardFails /\ Refuse(req, "IO_ERROR")
  \/ /\ FreeHandles # {}
     /\ handles' = [handles EXCEPT ![AllocHandle] =
          [mode |-> "write", file |-> req.file, data |-> Truncated(req.file), pos |-> 0]]
     /\ disk' = [f \in DOMAIN disk \cup {req.file} |->
                  IF f = req.file THEN Truncated(f) ELSE disk[f]]
     /\ unkept' = unkept
     /\ Answer([cmd |-> "WRITE_OPEN", of |-> req, status |-> "OK", h |-> AllocHandle])

MPutFirst(data, pos, piece) == <<piece>> \o data
\* data with piece put at position pos.
Put(data, pos, piece) ==
  SubSeq(data, 1, pos) \o <<piece>> \o SubSeq(data, pos + 2, Len(data))

WriteChunk(req) ==
  \/ ~Used(req.h) /\ Refuse(req, "BAD_HANDLE")
  \/ Used(req.h) /\ (CardFails \/ handles[req.h].mode = "read") /\ Refuse(req, "IO_ERROR")
  \/ /\ Used(req.h) /\ handles[req.h].mode = "write"
     /\ handles' = [handles EXCEPT ![req.h].data = Put(@, handles[req.h].pos, req.piece),
                                   ![req.h].pos = @ + 1]
     /\ UNCHANGED <<disk, unkept>>
     /\ Answer(Status(req, "OK"))

WriteSync(req) ==
  \/ ~Used(req.h) /\ Refuse(req, "BAD_HANDLE")
  \/ /\ Used(req.h)
     /\ SyncHandle(req.h)
     /\ handles' = handles
     /\ Answer(Status(req, "OK"))

Delete(req) ==
  \/ req.file \notin DOMAIN disk /\ Refuse(req, "NOT_FOUND")
  \/ req.file \in DOMAIN disk /\ CardFails /\ Refuse(req, "IO_ERROR")
  \/ /\ req.file \in DOMAIN disk
     /\ disk' = [f \in DOMAIN disk \ {req.file} |-> disk[f]]
     /\ UNCHANGED <<handles, unkept>>
     /\ Answer(Status(req, "OK"))

\* wifi_handler_poll: take a frame, run its handler.
Serve ==
  LET req == Head(reqs) IN
  \/ Take("READ_OPEN")   /\ ReadOpen(req)
  \/ Take("READ_CHUNK")  /\ ReadChunk(req)
  \/ Take("READ_CLOSE")  /\ Close(req)
  \/ Take("WRITE_OPEN")  /\ WriteOpen(req)
  \/ Take("WRITE_CHUNK") /\ WriteChunk(req)
  \/ Take("WRITE_SYNC")  /\ WriteSync(req)
  \/ Take("WRITE_CLOSE") /\ Close(req)
  \/ Take("DELETE")      /\ Delete(req)

-----------------------------------------------------------------------------
(* A call of the client has come back, with what it asked for or without.  *)

Succeeds(cmd) ==
  /\ request.cmd = cmd
  /\ ReadAnswer
  /\ Head(resps).status = "OK"

Fails(cmd) ==
  /\ request.cmd = cmd
  /\ \/ ReadAnswer /\ Head(resps).status # "OK"
     \/ ReturnFailure

\* The answer read is not the answer to the request made.
Misread == phase = "wait" /\ phase' = "idle" /\ Head(resps).of # request

=============================================================================
