-------------------------------- MODULE AtModem -------------------------------
(***************************************************************************)
(* The modem the Z80 talks to (NET_BRIDGE.cpp): what at_process_from_z80   *)
(* and net_bridge_loop do with the bytes that come out of the bridge's     *)
(* stream from the Z80.  In command mode they are AT commands, in data     *)
(* mode they go to the socket, except a "+++" with silence before and      *)
(* after it, which goes back to command mode without hanging up; after a   *)
(* command that asks for raw data, the next bytes are that data.           *)
(*                                                                         *)
(* In data mode a byte is "+" or "x" (any other; a command too is data).   *)
(* In command mode it is CR, or the text of a command, which counts as one *)
(* byte, or "x" (any other).  Time is the flag quiet: the guard time has   *)
(* gone by since the last data byte.                                       *)
(* What the modem answers is part of the stream to the Z80 (NetLink).      *)
(* A chunk is the number of its bytes: each is chosen as it is looked at,  *)
(* and not before.                                                         *)
(***************************************************************************)
EXTENDS Naturals, Sequences

CONSTANTS
  Commands,     \* the AT commands the Z80 may write
  LineCap,      \* sizeof at_cmdbuf
  RawLen,       \* raw bytes a command asks for
  ChunkCap,     \* WIFI_PROTO_NET_CHUNK
  MaxBytes,     \* bytes the Z80 writes, and
  MaxDials      \* connections made (these two bound the model, not the code)

ASSUME ModemBounds ==
  /\ Commands \subseteq {"ATDT", "ATH", "ATO", "ATZ", "AT+SHA256"}
  /\ LineCap \in Nat /\ RawLen \in Nat \ {0} /\ ChunkCap \in Nat
  /\ MaxBytes \in Nat /\ MaxDials \in Nat

VARIABLES
  state,        \* "idle", "connected" or "error"
  alive,        \* client.connected(): the server has not hung up
  command,      \* at_command_mode
  line,         \* at_cmdbuf
  esc,          \* esc_plus_count
  quiet,        \* ESC_GUARD_MS since esc_last_byte_ms
  raw,          \* raw bytes still to come; 0 if none were asked for
  stalled,      \* RAW_TIMEOUT_MS since the last of them
  chunk,        \* bytes of the chunk still to be processed
  sent,         \* bytes handed to this connection's socket
  data,         \* data bytes of this connection, escapes left out, and
                \* whether each came after silence
  taken, dials  \* counters for MaxBytes and MaxDials

modeVars == <<state, alive, command, line, esc>>
timeVars == <<quiet, stalled>>
modemVars == <<modeVars, timeVars, raw, chunk, sent, data, taken, dials>>

ModemInit ==
  /\ state = "idle" /\ alive = FALSE /\ command = TRUE
  /\ line = <<>> /\ esc = 0
  /\ quiet \in BOOLEAN /\ stalled = FALSE
  /\ raw = 0 /\ chunk = 0
  /\ sent = <<>> /\ data = <<>>
  /\ taken = 0 /\ dials = 0

Pluses(n) == [i \in 1..n |-> "+"]

-----------------------------------------------------------------------------
(* Hanging up and connecting, from the web page or a command.              *)

\* net_bridge_disconnect.
MHangUpKeepsMode ==
  /\ alive' = FALSE
  /\ state' = IF state = "connected" THEN "idle" ELSE state
  /\ command' = command /\ line' = <<>> /\ esc' = 0
HangUp ==
  /\ alive' = FALSE
  /\ state' = IF state = "connected" THEN "idle" ELSE state
  /\ command' = TRUE /\ line' = <<>> /\ esc' = 0

\* net_bridge_connect: hang up first; no WiFi, or no answer, is an error.
Dial ==
  /\ line' = <<>> /\ esc' = 0
  /\ sent' = <<>> /\ data' = <<>>
  /\ \/ /\ dials < MaxDials /\ dials' = dials + 1
        /\ state' = "connected" /\ alive' = TRUE /\ command' = FALSE
     \/ /\ state' = "error" /\ alive' = FALSE /\ command' = TRUE
        /\ UNCHANGED dials

-----------------------------------------------------------------------------
(* One byte from the Z80.                                                  *)

Feed == chunk > 0 /\ chunk' = chunk - 1

\* In raw mode: collected, whatever it is.  The last one runs the command.
RawByte ==
  /\ raw > 0 /\ Feed
  /\ raw' = raw - 1 /\ stalled' = FALSE
  /\ UNCHANGED <<modeVars, quiet, sent, data, taken, dials>>

InCommand == raw = 0 /\ command
InData    == raw = 0 /\ ~command

\* at_cmdbuf takes one byte more, or is discarded.
Longer(b) == IF Len(line) >= LineCap THEN <<>> ELSE Append(line, b)

CommandByte(b) ==
  /\ InCommand /\ Feed
  /\ line' = Longer(b)
  /\ UNCHANGED <<state, alive, command, esc, timeVars, raw, sent, data, taken, dials>>

\* CR: at_execute_command, by what the line holds.
Enter(cmd) == InCommand /\ Feed /\ line = <<cmd>>

DialCommand ==
  /\ Enter("ATDT") /\ Dial
  /\ UNCHANGED <<timeVars, raw, taken>>

HangUpCommand ==
  /\ Enter("ATH") \/ Enter("ATZ")
  /\ HangUp
  /\ UNCHANGED <<timeVars, raw, sent, data, taken, dials>>

\* Back to data mode, if there is a line to go back to.
OnlineCommand ==
  /\ Enter("ATO")
  /\ command' = (state # "connected") /\ line' = <<>>
  /\ UNCHANGED <<state, alive, esc, timeVars, raw, sent, data, taken, dials>>

RawCommand ==
  /\ Enter("AT+SHA256")
  /\ raw' = RawLen /\ stalled' = FALSE /\ line' = <<>>
  /\ UNCHANGED <<state, alive, command, esc, quiet, sent, data, taken, dials>>

\* An empty line, or one that is no command: ERROR or nothing.
OtherLine ==
  /\ InCommand /\ Feed
  /\ ~\E cmd \in Commands : line = <<cmd>>
  /\ line' = <<>>
  /\ UNCHANGED <<state, alive, command, esc, timeVars, raw, sent, data, taken, dials>>

\* "+" held back as the beginning of an escape: the first one only after
\* silence, the second and third in any case.
MHeldAlways(b, held) == b = "+"
HeldByte(b, held) == b = "+" /\ (held > 0 \/ quiet)

\* What was held back goes to the socket after all.
MReleaseOne(n) == IF n > 0 THEN Pluses(1) ELSE <<>>
Release(n) == Pluses(n)

\* A byte that comes after "+++" releases the three, and is then looked at as
\* any other.
DataByte(b) ==
  /\ InData /\ Feed
  /\ data' = Append(data, <<b, quiet>>)
  /\ quiet' = FALSE
  /\ LET held == IF esc = 3 THEN 0 ELSE esc IN
     IF HeldByte(b, held)
     THEN esc' = held + 1 /\ sent' = sent \o Release(esc - held)
     ELSE esc' = 0        /\ sent' = sent \o Release(esc) \o <<b>>
  /\ UNCHANGED <<state, alive, command, line, stalled, raw, taken, dials>>

-----------------------------------------------------------------------------
(* The turns of net_bridge_loop, between chunks.                           *)

Turn == chunk = 0

\* What the Z80 has written arrives.
Receive ==
  /\ Turn
  /\ \E n \in 1..ChunkCap :
       /\ taken + n <= MaxBytes
       /\ chunk' = n
       /\ taken' = taken + n
  /\ UNCHANGED <<modeVars, timeVars, raw, sent, data, dials>>

\* at_check_escape_timeout: "+++" and then silence.
MEscapeComplete == FALSE
EscapeComplete == ~command /\ esc = 3 /\ quiet

CheckEscape ==
  /\ Turn /\ EscapeComplete
  /\ command' = TRUE /\ esc' = 0
  /\ data' = SubSeq(data, 1, Len(data) - 3)
  /\ UNCHANGED <<state, alive, line, timeVars, raw, chunk, sent, taken, dials>>

\* raw_check_timeout: the command fails.
RawTimeout ==
  /\ Turn /\ raw > 0 /\ stalled
  /\ raw' = 0
  /\ UNCHANGED <<modeVars, timeVars, chunk, sent, data, taken, dials>>

\* The server hung up; the loop notices.
NoCarrier ==
  /\ Turn /\ state = "connected" /\ ~alive
  /\ HangUp
  /\ UNCHANGED <<timeVars, raw, chunk, sent, data, taken, dials>>

\* The buttons of the /telnet page.
WebConnect ==
  /\ Turn /\ Dial
  /\ UNCHANGED <<timeVars, raw, chunk, taken>>

WebDisconnect ==
  /\ Turn /\ HangUp
  /\ UNCHANGED <<timeVars, raw, chunk, sent, data, taken, dials>>

\* The world: the server hangs up; time goes by, also while a chunk is being
\* processed (writing to the socket may block).
ServerCloses ==
  /\ alive /\ alive' = FALSE
  /\ UNCHANGED <<state, command, line, esc, timeVars, raw, chunk, sent, data, taken, dials>>

GuardTime ==
  /\ ~quiet /\ quiet' = TRUE
  /\ UNCHANGED <<modeVars, stalled, raw, chunk, sent, data, taken, dials>>

RawTime ==
  /\ raw > 0 /\ ~stalled /\ stalled' = TRUE
  /\ UNCHANGED <<modeVars, quiet, raw, chunk, sent, data, taken, dials>>

Process ==
  \/ RawByte
  \/ \E b \in Commands \cup {"x"} : CommandByte(b)
  \/ \E b \in {"+", "x"} : DataByte(b)
  \/ DialCommand \/ HangUpCommand \/ OnlineCommand \/ RawCommand \/ OtherLine
Loop == CheckEscape \/ RawTimeout \/ NoCarrier
Time == GuardTime \/ RawTime

ModemNext ==
  \/ Process \/ Loop \/ Receive
  \/ WebConnect \/ WebDisconnect
  \/ ServerCloses \/ Time

ModemSpec == ModemInit /\ [][ModemNext]_modemVars

\* The loop keeps turning and time goes by.
ModemFairSpec ==
  /\ ModemSpec
  /\ WF_modemVars(Process) /\ WF_modemVars(CheckEscape) /\ WF_modemVars(RawTimeout) /\ WF_modemVars(NoCarrier)
  /\ WF_modemVars(GuardTime) /\ WF_modemVars(RawTime)

-----------------------------------------------------------------------------
(* What the modem guarantees.                                              *)

\* Every data byte reaches the socket once and in order: what was handed to
\* it, with the "+" still held back, is what the Z80 wrote in data mode.  A
\* "+++" that turns out to be data is not lost, one that is an escape is not
\* sent.
SocketExact ==
  state = "connected" =>
    sent \o Pluses(esc) = [i \in 1..Len(data) |-> data[i][1]]

\* Only an escape takes an open line to command mode: three "+" in a row, the
\* first after silence in the data, and silence after the third.  No transfer
\* that merely contains "+++" is cut.
EscapeNeedsSilence ==
  [][~command /\ command' /\ state' = "connected" /\ dials' = dials =>
       LET n == Len(data) IN
       /\ n >= 3 /\ \A i \in (n - 2)..n : data[i][1] = "+"
       /\ data[n - 2][2] /\ quiet]_modemVars

\* Data mode means there is a line: however it ended, by ATH, by the web page
\* or by the server, the Z80 gets its command mode back.
ModeFollowsLine == ~command => state = "connected"

\* "+++" is decided: it becomes an escape, or the bytes after it show it is
\* none.
EscapeHonoured == ~command /\ esc = 3 ~> command \/ esc # 3
=============================================================================
