------------------------------- MODULE EspTasks -------------------------------
(***************************************************************************)
(* What the ESP32 does of its own accord, in setup() and then in loop():   *)
(* it waits for the STM32, joins a network of WIFI.CFG, leaves its address *)
(* on the card, sets the STM32's clock from an NTP server if NTP.CFG says  *)
(* so, does it again when LOAD *NTP has left a flag on the card or a web   *)
(* page asks, and joins again when the network is lost.  Everything it     *)
(* needs from the card goes through FileServer.                            *)
(*                                                                         *)
(* A configuration is a record: whether MODE is SERVER, and the zone       *)
(* (UTCOFFSET and DST).  A file of configuration is a sequence of them, as *)
(* a repeated WRITE_CHUNK leaves one; the last value of each key counts.   *)
(***************************************************************************)
EXTENDS FileServer

CONSTANTS
  Cards,        \* what the card may hold at first
  Zones, Addresses,
  MaxFaults,    \* frames lost, damaged or late             (these bound the
  MaxEvents     \* networks lost, and what users change      model, not the code)

ASSUME TasksBounds == {MaxFaults, MaxEvents} \subseteq Nat
\* Files are finite.
ASSUME CardsReadable ==
  \A card \in Cards :
    /\ card \in [DOMAIN card -> {card[f] : f \in DOMAIN card}]
    /\ \A f \in DOMAIN card : card[f] \in Seq({card[f][i] : i \in DOMAIN card[f]})

VARIABLES
  task,                 \* the task under way, and where it is
  online, address,      \* WiFi.status(), WiFi.localIP()
  known,                \* the ESP32's own clock has been set by a server
  ntp_stop_retrying, ip_file_pending,
  rtc,                  \* the zone the STM32's clock was set for, in a sequence; empty: it is behind
  excused, misread,     \* for the properties: see Card, NotOpened, Read, Returned
  faults, events

taskVars  == <<task, ntp_stop_retrying, ip_file_pending>>
wifiVars  == <<online, address, known>>
countVars == <<faults, events>>
vars == <<linkVars, srvVars, taskVars, wifiVars, rtc, excused, misread, countVars>>

Cfg  == "NTP.CFG"
Nets == "WIFI.CFG"
Flag == "NTP_SYNC_NOW.FLAG"
IpFile == "IP.TXT"

Off == [on |-> FALSE, zone |-> "UTC"]
\* Lines of another text have no key.
Conf(content) ==
  LET keys == SelectSeq(content, LAMBDA p : "on" \in DOMAIN p)
  IN IF keys = <<>> THEN Off ELSE keys[Len(keys)]
OnCard(card) == Conf(IF Cfg \in DOMAIN card THEN card[Cfg] ELSE <<>>)

Task(kind, by, step) ==
  [kind |-> kind, by |-> by, step |-> step, h |-> 0, got |-> <<>>, ok |-> TRUE, cfg |-> Off]
InLoop == task.kind = "none"
Idle == Task("none", "loop", "none")

Init ==
  /\ LinkInit /\ \E card \in Cards : ServerInit(card)
  /\ task = Task("ping", "setup", "ping")
  /\ online = FALSE /\ address = "none" /\ known = FALSE
  /\ ntp_stop_retrying = FALSE /\ ip_file_pending = FALSE
  /\ rtc = <<>>
  /\ excused = ~OnCard(disk).on /\ misread = FALSE
  /\ faults = 0 /\ events = 0

-----------------------------------------------------------------------------
(* The calls of the ESP32, by the step the task is at.                     *)

At(step) == task.step = step /\ phase = "idle"
File == CASE task.kind = "connect" -> Nets [] task.kind = "flag" -> Flag
          [] task.kind = "address" -> IpFile [] OTHER -> Cfg
Piece == IF task.kind = "address" THEN [ip |-> address] ELSE task.cfg

\* The requests of two calls are otherwise the same when two tasks read from
\* one handle, and a late answer to the first is not one to the second: calls
\* are numbered, for the properties alone, by numbers of no frame on the line.
\* A PING has none: one stands for any other.
Numbered(frame) == frame.cmd \notin {"garbled", "PING"}
Unused(n) ==
  /\ \A i \in DOMAIN reqs : Numbered(reqs[i]) => reqs[i].no # n
  /\ \A i \in DOMAIN resps :
       resps[i] # FrameError /\ Numbered(resps[i].of) => resps[i].of.no # n
Call(frame) ==
  /\ Request(frame)
  /\ UNCHANGED <<srvVars, taskVars, wifiVars, rtc, excused, misread, countVars>>

Ask ==
  \E n \in 0..(ReqRoom + RespRoom) :
    /\ Unused(n) /\ \A m \in 0..(n - 1) : ~Unused(m)
    /\ \/ At("ping")   /\ Call([cmd |-> "PING"])
       \/ At("open")   /\ Call([cmd |-> "READ_OPEN", no |-> n, file |-> File])
       \/ At("data")   /\ Call([cmd |-> "READ_CHUNK", no |-> n, h |-> task.h, offset |-> Len(task.got)])
       \/ At("shut")   /\ Call([cmd |-> "READ_CLOSE", no |-> n, h |-> task.h])
       \/ At("drop")   /\ Call([cmd |-> "DELETE", no |-> n, file |-> Flag])
       \/ At("create") /\ Call([cmd |-> "WRITE_OPEN", no |-> n, file |-> File])
       \/ At("write")  /\ Call([cmd |-> "WRITE_CHUNK", no |-> n, h |-> task.h, piece |-> Piece])
       \/ At("close")  /\ Call([cmd |-> "WRITE_CLOSE", no |-> n, h |-> task.h])
       \/ At("set")    /\ Call([cmd |-> "SET_TIME", no |-> n, zone |-> task.cfg.zone])

Ends(cmd) == Succeeds(cmd) \/ Fails(cmd)
Returned ==
  /\ misread' = (misread \/ Misread)
  /\ UNCHANGED <<srvVars, wifiVars, rtc, countVars>>
Becomes(next) == task' = next /\ UNCHANGED <<ntp_stop_retrying, ip_file_pending>>
GoTo(step) == Becomes([task EXCEPT !.step = step])

\* wait_for_stm32: it may also have waited long enough, and goes on.
Pinged ==
  /\ \/ Succeeds("PING") /\ Becomes(Task("connect", "setup", "open"))
     \/ Fails("PING") /\ (GoTo("ping") \/ Becomes(Task("connect", "setup", "open")))
  /\ Returned /\ UNCHANGED excused

-----------------------------------------------------------------------------
(* sync_time_from_ntp and connect_wifi_from_cfg_once, after their file.    *)

MSyncEnds(ok, disabled) ==
  /\ task' = Idle
  /\ ntp_stop_retrying' = (ntp_stop_retrying \/ (ok /\ task.by # "retry") \/ (disabled /\ task.by = "setup"))
  /\ UNCHANGED ip_file_pending
SyncEnds(ok, disabled) ==
  /\ task' = Idle
  /\ ntp_stop_retrying' =
       (ntp_stop_retrying \/ ok \/ (disabled /\ task.by \in {"setup", "retry"}))
  /\ UNCHANGED ip_file_pending

\* setup() tries again after 5 s, loop() when check_wifi_reconnect is due.
NotConnected == Becomes(IF task.by = "setup" THEN Task("connect", "setup", "open") ELSE Idle)

\* A file that was not opened counts as one that does not exist.
AfterFile(ok, got) ==
  \/ task.kind = "connect" /\ ok /\ got # <<>> /\ GoTo("try")
  \/ task.kind = "connect" /\ ~(ok /\ got # <<>>) /\ NotConnected
  \/ task.kind = "sync" /\ ~ok /\ SyncEnds(FALSE, FALSE)
  \/ task.kind = "sync" /\ ok /\ ~Conf(got).on /\ SyncEnds(FALSE, TRUE)
  \/ /\ task.kind = "sync" /\ ok /\ Conf(got).on
     /\ Becomes([task EXCEPT !.step = "ask", !.cfg = Conf(got)])

\* download_text_file, and check_ntp_sync_flag's look at its file.
Opened ==
  /\ Succeeds("READ_OPEN")
  /\ Becomes([task EXCEPT !.h = Head(resps).h, !.step = IF task.kind = "flag" THEN "shut" ELSE "data"])
  /\ Returned /\ UNCHANGED excused

NotOpened ==
  /\ Fails("READ_OPEN")
  /\ \/ task.kind = "flag" /\ Becomes(Idle)
     \/ AfterFile(TRUE, <<>>)
  /\ excused' = (excused \/ (task.kind = "sync" /\ Cfg \in DOMAIN disk))
  /\ Returned

Read ==
  /\ Succeeds("READ_CHUNK")
  /\ LET ans == Head(resps) IN
     /\ Becomes([task EXCEPT !.got = @ \o ans.data,
                !.step = IF ans.eof \/ ans.data = <<>> THEN "shut" ELSE "data"])
     /\ excused' = (excused \/ (task.kind = "sync" /\ ans.data = <<>> /\ ~ans.eof))
  /\ Returned

MAfterReadFails == [task EXCEPT !.step = "shut"]
AfterReadFails == [task EXCEPT !.ok = FALSE, !.step = "shut"]
ReadFails ==
  /\ Fails("READ_CHUNK") /\ Becomes(AfterReadFails)
  /\ Returned /\ UNCHANGED excused

\* The flag is deleted before the clock is set.
Shut ==
  /\ Ends("READ_CLOSE")
  /\ \/ task.kind = "flag" /\ GoTo("drop")
     \/ AfterFile(task.ok, task.got)
  /\ Returned /\ UNCHANGED excused
FlagDropped ==
  /\ Ends("DELETE") /\ Becomes(Task("sync", "flag", "open"))
  /\ Returned /\ UNCHANGED excused

\* getLocalTime: waits for the server unless the ESP32's clock is set already.
TimeRead ==
  /\ At("ask") /\ (known \/ online) /\ known' = TRUE
  /\ GoTo("set")
  /\ UNCHANGED <<linkVars, srvVars, online, address, rtc, excused, misread, countVars>>
NtpSilent ==
  /\ At("ask") /\ ~known
  /\ SyncEnds(FALSE, FALSE)
  /\ UNCHANGED <<linkVars, srvVars, wifiVars, rtc, excused, misread, countVars>>

TimeSet ==
  /\ \/ Succeeds("SET_TIME") /\ SyncEnds(TRUE, FALSE)
     \/ Fails("SET_TIME") /\ SyncEnds(FALSE, FALSE)
  /\ Returned /\ UNCHANGED excused

\* try_connect, for the networks in turn.
Connected ==
  /\ At("try") /\ online' = TRUE /\ address' \in Addresses
  /\ Becomes(Task("address", task.by, "create"))
  /\ UNCHANGED <<linkVars, srvVars, known, rtc, excused, misread, countVars>>
NotJoined ==
  /\ At("try") /\ NotConnected
  /\ UNCHANGED <<linkVars, srvVars, wifiVars, rtc, excused, misread, countVars>>

-----------------------------------------------------------------------------
(* write_ip_help_file and handleNtpSave.  The latter looks at no result    *)
(* but that of WRITE_OPEN.                                                 *)

\* After the address setup() sets the clock; a reconnection asks for it again.
MAddressDone(ok) ==
  /\ ip_file_pending' = ~ok
  /\ task' = IF task.by = "setup" THEN Task("sync", "setup", "open") ELSE Idle
  /\ UNCHANGED ntp_stop_retrying
AddressDone(ok) ==
  /\ ip_file_pending' = ~ok
  /\ task' = IF task.by = "setup" THEN Task("sync", "setup", "open") ELSE Idle
  /\ ntp_stop_retrying' = (ntp_stop_retrying /\ task.by # "reconnect")

Created ==
  /\ \/ Succeeds("WRITE_OPEN") /\ Becomes([task EXCEPT !.h = Head(resps).h, !.step = "write"])
     \/ Fails("WRITE_OPEN") /\ task.kind = "address" /\ AddressDone(FALSE)
     \/ Fails("WRITE_OPEN") /\ task.kind = "save" /\ Becomes(Idle)
  /\ Returned /\ UNCHANGED excused

Written ==
  /\ \/ Succeeds("WRITE_CHUNK") /\ GoTo("close")
     \/ Fails("WRITE_CHUNK") /\ Becomes([task EXCEPT !.ok = FALSE, !.step = "close"])
  /\ Returned /\ UNCHANGED excused

WriteEnds ==
  /\ \/ task.kind = "address" /\ Succeeds("WRITE_CLOSE") /\ AddressDone(task.ok)
     \/ task.kind = "address" /\ Fails("WRITE_CLOSE") /\ AddressDone(FALSE)
     \/ task.kind = "save" /\ Ends("WRITE_CLOSE") /\ Becomes(Idle)
  /\ Returned /\ UNCHANGED excused

-----------------------------------------------------------------------------
(* loop(): a task that is due.  Time is abstract: any may be.              *)

Event == events < MaxEvents /\ events' = events + 1

Due(next) ==
  /\ InLoop /\ Becomes(next)
  /\ UNCHANGED <<linkVars, srvVars, wifiVars, rtc, excused, misread, faults>>

CheckFlag    == Due(Task("flag", "flag", "open")) /\ UNCHANGED events
CheckNtp     == ~ntp_stop_retrying /\ online /\ Due(Task("sync", "retry", "open")) /\ UNCHANGED events
CheckWifi    == ~online /\ Due(Task("connect", "reconnect", "open")) /\ UNCHANGED events
CheckAddress == ip_file_pending /\ online /\ Due(Task("address", "retry", "create")) /\ UNCHANGED events
SyncNow      == online /\ Due(Task("sync", "web", "open")) /\ UNCHANGED events
NtpSave ==
  /\ online /\ Event
  /\ \E c \in [on : BOOLEAN, zone : Zones] : Due([Task("save", "web", "create") EXCEPT !.cfg = c])

-----------------------------------------------------------------------------
(* The STM32, the Z80's commands, and the network.                         *)

\* excused remembers that the configuration was off once, or could not be
\* opened (NotOpened) or read to its end (Read).
Card == excused' = (excused \/ ~OnCard(disk').on)

Spend(n) == faults' = faults + n /\ faults' <= MaxFaults

StmServe ==
  /\ \/ Serve /\ rtc' = rtc
     \/ Take("PING") /\ Answer(Status(Head(reqs), "OK")) /\ UNCHANGED <<srvVars, rtc>>
     \/ /\ Take("SET_TIME") /\ rtc' = <<Head(reqs).zone>>
        /\ Answer(Status(Head(reqs), "OK")) /\ UNCHANGED srvVars
     \/ TakeGarbled /\ UNCHANGED <<srvVars, rtc>>
  /\ Spend(IF resps' = resps THEN 1 ELSE 0) /\ Card
  /\ UNCHANGED <<taskVars, wifiVars, misread, events>>

LinkStep ==
  /\ \/ TransmitOk /\ Spend(0)
     \/ TransmitBad /\ Spend(1)
     \/ ReadTimeout /\ Spend(IF reqs = <<>> /\ resps = <<>> THEN 0 ELSE 1)
     \/ (ReadFrameError \/ ReadStale) /\ Spend(0)
  /\ UNCHANGED <<srvVars, taskVars, wifiVars, rtc, excused, misread, events>>

\* The Z80's commands write files at once.
WithFile(file, content) ==
  [f \in DOMAIN disk \cup {file} |-> IF f = file THEN content ELSE disk[f]]

\* cmd_ntp_setoffset, cmd_enable_dst, cmd_disable_dst: ntp_cfg_write_field.
Z80SetsZone ==
  /\ Event
  /\ \E z \in Zones :
       disk' = WithFile(Cfg, <<[on |-> OnCard(disk).on, zone |-> z]>>)
  /\ Card
  /\ UNCHANGED <<linkVars, handles, unkept, taskVars, wifiVars, rtc, misread, faults>>

\* cmd_ntp_sync.
Z80Asks ==
  /\ Event
  /\ disk' = WithFile(Flag, <<>>)
  /\ UNCHANGED <<linkVars, handles, unkept, taskVars, wifiVars, rtc, excused, misread, faults>>

\* Meanwhile the STM32's clock may fall behind.
WifiLost ==
  /\ online /\ Event
  /\ online' = FALSE /\ rtc' = <<>>
  /\ UNCHANGED <<linkVars, srvVars, taskVars, address, known, excused, misread, faults>>

-----------------------------------------------------------------------------
Esp == Ask \/ LinkStep \/ Pinged \/ Opened \/ NotOpened \/ Read \/ ReadFails \/ Shut \/ FlagDropped
       \/ TimeRead \/ NtpSilent \/ TimeSet \/ Connected \/ NotJoined \/ Created \/ Written \/ WriteEnds

Next ==
  \/ Esp \/ StmServe
  \/ CheckFlag \/ CheckNtp \/ CheckWifi \/ CheckAddress \/ SyncNow \/ NtpSave
  \/ Z80SetsZone \/ Z80Asks \/ WifiLost

\* Both loops go round, each task of loop() comes to its turn, and a network
\* or a server that is tried again and again answers at last.
Spec == Init /\ [][Next]_vars
FairSpec ==
  /\ Spec
  /\ WF_vars(Esp) /\ WF_vars(StmServe)
  /\ SF_vars(CheckFlag) /\ SF_vars(CheckNtp) /\ SF_vars(CheckWifi) /\ SF_vars(CheckAddress)
  /\ SF_vars(Connected) /\ SF_vars(TimeRead)

-----------------------------------------------------------------------------
(* What the tasks promise.                                                 *)

\* Between its tasks the ESP32's two notes are true, as long as no answer was
\* taken for another: if the address file is not pending, it is on the card
\* and, unless the card did not keep it as it was closed (which nobody is
\* told), says the address in use; if the clock is not to be tried again, it was
\* set since the network was last lost, or the configuration was off, or its
\* file could not be opened or read to its end (which the code takes for off).
NotesTrue ==
  InLoop /\ online /\ ~misread =>
    /\ ~ip_file_pending =>
         /\ IpFile \in DOMAIN disk
         /\ IpFile \notin unkept =>
              /\ disk[IpFile] # <<>>
              /\ \A i \in DOMAIN disk[IpFile] : disk[IpFile][i] = [ip |-> address]
    /\ ntp_stop_retrying => rtc # <<>> \/ excused

\* No handle is left for a task that needs one: repeated OPENs took them.
NoHandle == FreeHandles = {} /\ task.step \in {"open", "create"}

\* After failures of the line that end, everything that was put off is done:
\* the address written, the clock set or found to be off, LOAD *NTP's flag
\* taken (check_ip_file_retry, check_ntp_retry, check_ntp_sync_flag).
CaughtUp == ~ip_file_pending /\ ntp_stop_retrying /\ Flag \notin DOMAIN disk
CatchesUp == []<>(CaughtUp \/ NoHandle)
=============================================================================
