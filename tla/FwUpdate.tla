------------------------------- MODULE FwUpdate -------------------------------
(***************************************************************************)
(* The ESP32 updates its own firmware from the SD card                     *)
(* (check_and_apply_firmware_update, once per boot): read the image        *)
(* through FileServer into the inactive flash partition, switch to it if   *)
(* it is valid, delete the file and restart.  A file that is bad is        *)
(* deleted and a note left in its place; a file that could not be read     *)
(* stays for the next boot.  The STM32 blinks its LED from the READ_OPEN   *)
(* of the file to its DELETE, or until a timeout.                          *)
(*                                                                         *)
(* The power may fail at any moment, for both processors at once.          *)
(***************************************************************************)
EXTENDS FileServer

CONSTANTS
  GoodImage,      \* the only image Update.end accepts
  Images,         \* what FW_UPDATE_PATH may hold at first
  Partition,      \* pieces the flash partition holds
  MaxBoots        \* boots (bounds the model, not the code)

Pieces == {GoodImage[i] : i \in DOMAIN GoodImage}

ASSUME UpdateBounds ==
  /\ GoodImage \in Images /\ GoodImage \in Seq(Pieces)
  /\ Partition \in Nat /\ Len(GoodImage) \in 1..Partition
  /\ MaxBoots \in Nat

VARIABLES
  image,          \* what the file held at first
  upd,            \* where the ESP32 is in this boot
  firmware,       \* what it runs: "old" or "new"
  blinking,       \* esp32_update_in_progress
  boots,          \* boots so far
  misread         \* an answer was taken for another

updVars == <<image, upd, firmware, blinking, boots, misread>>
vars == <<linkVars, srvVars, updVars>>

Fw   == "ESP32FW.BIN"     \* FW_UPDATE_PATH
Note == "ESP32FWFAILED.TXT"    \* FW_UPDATE_FAILED_PATH

Boot == [step |-> "open", h |-> 0, size |-> 0, got |-> <<>>, good |-> FALSE,
         transport |-> FALSE]

Init ==
  /\ LinkInit
  /\ image \in Images
  /\ ServerInit([f \in {Fw} |-> image])
  /\ upd = Boot /\ firmware = "old" /\ blinking = FALSE
  /\ boots = 1 /\ misread = FALSE

-----------------------------------------------------------------------------
(* The ESP32's calls, by the step it is at.                                *)

At(step) == upd.step = step /\ phase = "idle"
Call(frame) == Request(frame) /\ UNCHANGED <<srvVars, updVars>>

Ask ==
  \/ At("open")   /\ Call([cmd |-> "READ_OPEN", file |-> Fw])
  \/ At("data")   /\ Call([cmd |-> "READ_CHUNK", h |-> upd.h, offset |-> Len(upd.got)])
  \/ At("close")  /\ Call([cmd |-> "READ_CLOSE", h |-> upd.h])
  \/ At("done")   /\ Call([cmd |-> "DELETE", file |-> Fw])
  \/ At("tidy")   /\ Call([cmd |-> "DELETE", file |-> Note])
  \/ At("reject") /\ Call([cmd |-> "DELETE", file |-> Fw])
  \/ At("note")   /\ Call([cmd |-> "WRITE_OPEN", file |-> Note])
  \/ At("text")   /\ Call([cmd |-> "WRITE_CHUNK", h |-> upd.h, piece |-> "why"])
  \/ At("shut")   /\ Call([cmd |-> "WRITE_CLOSE", h |-> upd.h])

Returned ==
  /\ misread' = (misread \/ Misread)
  /\ UNCHANGED <<srvVars, image, blinking, boots>>
GoTo(step) == upd' = [upd EXCEPT !.step = step] /\ UNCHANGED firmware

\* Update.begin refuses an empty image and one larger than the partition.
Opened ==
  /\ Succeeds("READ_OPEN")
  /\ LET ans == Head(resps) IN
     upd' = [upd EXCEPT !.h = ans.h, !.size = ans.size,
               !.good = ans.size \in 1..Partition,
               !.step = IF ans.size \in 1..Partition THEN "data" ELSE "close"]
  /\ UNCHANGED firmware /\ Returned

\* No file, no handle or no answer: the boot goes on as it is.
NotOpened == Fails("READ_OPEN") /\ GoTo("running") /\ Returned

\* The loop goes on while bytes are missing and the file has not ended.
Read ==
  /\ Succeeds("READ_CHUNK")
  /\ LET ans == Head(resps)
         got == upd.got \o ans.data
         more == ans.data # <<>> /\ ~ans.eof /\ Len(got) < upd.size
     IN upd' = [upd EXCEPT !.got = got, !.step = IF more THEN "data" ELSE "close"]
  /\ UNCHANGED firmware /\ Returned

MReadFailsAsContent == [upd EXCEPT !.good = FALSE, !.step = "close"]
AfterReadFails == [upd EXCEPT !.good = FALSE, !.transport = TRUE, !.step = "close"]

ReadFails ==
  /\ Fails("READ_CHUNK")
  /\ upd' = AfterReadFails
  /\ UNCHANGED firmware /\ Returned

\* After READ_CLOSE, however it ended: Update.end, and what follows from it.
Valid == upd.good /\ Len(upd.got) = upd.size /\ upd.got = GoodImage
Judge ==
  /\ Succeeds("READ_CLOSE") \/ Fails("READ_CLOSE")
  /\ upd' = [upd EXCEPT !.step = IF Valid THEN "done"
                                 ELSE IF upd.transport THEN "running" ELSE "reject"]
  /\ firmware' = IF Valid THEN "new" ELSE firmware
  /\ Returned

\* Nothing looks at how the deletions end.
Deleted ==
  /\ Succeeds("DELETE") \/ Fails("DELETE")
  /\ GoTo(CASE upd.step = "done" -> "tidy"
            [] upd.step = "tidy" -> "restart"
            [] upd.step = "reject" -> "note")
  /\ Returned

\* mark_firmware_update_failed.
NoteOpened ==
  /\ Succeeds("WRITE_OPEN")
  /\ upd' = [upd EXCEPT !.h = Head(resps).h, !.step = "text"]
  /\ UNCHANGED firmware /\ Returned
NoteNotOpened == Fails("WRITE_OPEN") /\ GoTo("running") /\ Returned
NoteWritten   == (Succeeds("WRITE_CHUNK") \/ Fails("WRITE_CHUNK")) /\ GoTo("shut") /\ Returned
NoteClosed    == (Succeeds("WRITE_CLOSE") \/ Fails("WRITE_CLOSE")) /\ GoTo("running") /\ Returned

\* ESP.restart: the ESP32 alone starts again.  What the STM32 has taken and
\* what it holds open stays; answers on their way may be lost.
Restart ==
  /\ At("restart") /\ boots < MaxBoots
  /\ \E n \in 0..Len(resps) : resps' = Drop(resps, n)
  /\ upd' = Boot /\ boots' = boots + 1
  /\ UNCHANGED <<reqs, phase, request, tries, stale, srvVars, image, firmware,
                 blinking, misread>>

-----------------------------------------------------------------------------
(* The STM32.                                                              *)

OpensFw   == Head(reqs).cmd = "READ_OPEN" /\ Head(reqs).file = Fw /\ handles' # handles
DeletesFw == Head(reqs).cmd = "DELETE" /\ Head(reqs).file = Fw /\ disk' # disk

StmServe ==
  /\ Serve
  /\ blinking' = IF OpensFw THEN TRUE ELSE IF DeletesFw THEN FALSE ELSE blinking
  /\ UNCHANGED <<image, upd, firmware, boots, misread>>

StmGarbled == TakeGarbled /\ UNCHANGED <<srvVars, updVars>>

\* ESP32_UPDATE_TIMEOUT_MS after the READ_OPEN.
UpdateTimeout ==
  /\ blinking /\ blinking' = FALSE
  /\ UNCHANGED <<linkVars, srvVars, image, upd, firmware, boots, misread>>

PowerCycle ==
  /\ boots < MaxBoots
  /\ reqs' = <<>> /\ resps' = <<>>
  /\ phase' = "idle" /\ request' = NoRequest /\ tries' = 0 /\ stale' = 0
  /\ handles' = [h \in HandleIds |-> Closed]
  /\ upd' = Boot /\ blinking' = FALSE /\ boots' = boots + 1
  /\ UNCHANGED <<disk, unkept, image, firmware, misread>>

LinkStep ==
  /\ TransmitOk \/ TransmitBad \/ ReadTimeout \/ ReadFrameError \/ ReadStale
  /\ UNCHANGED <<srvVars, updVars>>

\* Running for good, or out of boots (the bound MaxBoots, not the code).
Settled ==
  /\ upd.step = "running" \/ upd.step = "restart"
  /\ boots = MaxBoots /\ UNCHANGED vars

Next ==
  \/ Ask \/ Opened \/ NotOpened \/ Read \/ ReadFails \/ Judge \/ Deleted
  \/ NoteOpened \/ NoteNotOpened \/ NoteWritten \/ NoteClosed
  \/ Restart \/ PowerCycle \/ Settled
  \/ StmServe \/ StmGarbled \/ UpdateTimeout \/ LinkStep

Spec == Init /\ [][Next]_vars

-----------------------------------------------------------------------------
\* A good image is only given up once it has been installed: no lost frame,
\* no retry and no power cut in the middle makes the ESP32 delete it, or
\* leave a note that it was bad, as long as no answer is taken for another.
GoodImageSurvives ==
  image = GoodImage /\ ~misread =>
    /\ Fw \in DOMAIN disk \/ firmware = "new"
    /\ Note \notin DOMAIN disk

-----------------------------------------------------------------------------
(* The small instance: the image, one with a damaged piece, a truncated    *)
(* one, one too large.                                                     *)

TwoPieces == <<1, 2>>
Variety == {TwoPieces, <<1, 9>>, <<1>>, <<1, 2, 3>>}
=============================================================================
