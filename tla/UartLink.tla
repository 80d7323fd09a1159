------------------------------- MODULE UartLink -------------------------------
(***************************************************************************)
(* The UART between the ESP32 (WiFi module) and the STM32 (the interface's *)
(* MCU): the synchronous request / response transport every command of     *)
(* WIFI_PROTOCOL.h travels on.                                             *)
(*                                                                         *)
(* The ESP32 side is wifi_client_request: it sends a frame, waits for the  *)
(* answer, and sends the same frame again, up to MaxTries times, after a   *)
(* timeout, a damaged answer or a CMD_FRAME_ERROR.  The STM32 side is      *)
(* wifi_handler_poll, called once per turn of its loop(): one frame is     *)
(* taken, handled and answered.  The STM32 never starts a frame.           *)
(*                                                                         *)
(* Frames are values: the CRC is what makes a damaged frame recognisable,  *)
(* so a damaged frame is the value Garbled and a frame that loses its SOF  *)
(* or is cut short is a lost one.  Time is abstract: a timeout may expire  *)
(* at any moment while an answer is awaited, also when the answer is on    *)
(* its way, which is how late answers to earlier requests come about.      *)
(***************************************************************************)
EXTENDS Naturals, Sequences

CONSTANTS
  MaxTries,   \* WIFI_CLIENT_MAX_RETRIES
  MaxStale,   \* answers to other commands skipped in one attempt
  ReqRoom,    \* whole frames the STM32's serial receive buffer holds
  RespRoom    \* whole frames the ESP32's serial receive buffer holds

ASSUME LinkBounds ==
  /\ MaxTries \in Nat \ {0}
  /\ MaxStale \in Nat \ {0}
  /\ ReqRoom \in Nat \ {0}
  /\ RespRoom \in Nat \ {0}

VARIABLES
  reqs,       \* frames sent by the ESP32 and not yet taken by the STM32
  resps,      \* frames sent by the STM32 and not yet taken by the ESP32
  phase,      \* where the ESP32 is in wifi_client_request
  request,    \* the frame being requested
  tries,      \* attempts made for it
  stale       \* frames of other commands skipped in this attempt

linkVars == <<reqs, resps, phase, request, tries, stale>>

Phases == {"idle", "send", "wait", "failed"}

FrameError == [cmd |-> "FRAME_ERROR"]
Garbled    == [cmd |-> "garbled"]
NoRequest  == [cmd |-> "none"]

Drop(s, n) == SubSeq(s, n + 1, Len(s))

LinkInit ==
  /\ reqs = <<>>
  /\ resps = <<>>
  /\ phase = "idle"
  /\ request = NoRequest
  /\ tries = 0
  /\ stale = 0

-----------------------------------------------------------------------------
(* The ESP32 side.                                                         *)

Request(frame) ==
  /\ phase = "idle"
  /\ phase' = "send"
  /\ request' = frame
  /\ tries' = 0
  /\ UNCHANGED <<reqs, resps, stale>>

\* One attempt: whatever has already arrived is thrown away (the rest is
\* still on the wire), the frame is written, the wait starts.
Attempt ==
  /\ phase = "send"
  /\ \E n \in 0..Len(resps) : resps' = Drop(resps, n)
  /\ phase' = "wait"
  /\ tries' = tries + 1
  /\ stale' = 0
  /\ UNCHANGED request

TransmitOk ==
  /\ Attempt
  /\ Len(reqs) < ReqRoom
  /\ reqs' = Append(reqs, request)

\* Noise on the line, or a receive buffer that overflows while the STM32 is
\* busy elsewhere: the frame arrives damaged or does not arrive.
TransmitBad ==
  /\ Attempt
  /\ \/ reqs' = reqs
     \/ Len(reqs) < ReqRoom /\ reqs' = Append(reqs, Garbled)

AttemptOver == phase' = IF tries < MaxTries THEN "send" ELSE "failed"

\* Nothing arrived in time, or what arrived was cut short or had a bad CRC.
ReadTimeout ==
  /\ phase = "wait"
  /\ AttemptOver
  /\ \/ resps' = resps
     \/ resps # <<>> /\ resps' = Tail(resps)
  /\ UNCHANGED <<reqs, request, tries, stale>>

ReadFrameError ==
  /\ phase = "wait"
  /\ resps # <<>>
  /\ Head(resps) = FrameError
  /\ resps' = Tail(resps)
  /\ AttemptOver
  /\ UNCHANGED <<reqs, request, tries, stale>>

\* A late answer to an earlier request of another command is skipped.
ReadStale ==
  /\ phase = "wait"
  /\ resps # <<>>
  /\ Head(resps) # FrameError
  /\ Head(resps).cmd # request.cmd
  /\ resps' = Tail(resps)
  /\ stale' = stale + 1
  /\ IF stale + 1 < MaxStale THEN phase' = "wait" ELSE AttemptOver
  /\ UNCHANGED <<reqs, request, tries>>

\* An answer of the command asked for ends the call.  Frames carry no
\* request number: nothing tells this request's answer from a late one.
ReadAnswer ==
  /\ phase = "wait"
  /\ resps # <<>>
  /\ Head(resps).cmd = request.cmd
  /\ resps' = Tail(resps)
  /\ phase' = "idle"
  /\ request' = NoRequest
  /\ tries' = 0
  /\ stale' = 0
  /\ UNCHANGED reqs

\* Every attempt failed: the caller gets ok = false.
ReturnFailure ==
  /\ phase = "failed"
  /\ phase' = "idle"
  /\ request' = NoRequest
  /\ tries' = 0
  /\ stale' = 0
  /\ UNCHANGED <<reqs, resps>>

-----------------------------------------------------------------------------
(* The STM32 side.                                                         *)

Take(frameCmd) ==
  /\ reqs # <<>>
  /\ Head(reqs).cmd = frameCmd
  /\ reqs' = Tail(reqs)
  /\ UNCHANGED <<phase, request, tries, stale>>

AnswerSent(frame) == Len(resps) < RespRoom /\ resps' = Append(resps, frame)
AnswerLost        == resps' = resps
Answer(frame)     == AnswerSent(frame) \/ AnswerLost

\* wifi_read_frame: a frame with a bad CRC is answered with CMD_FRAME_ERROR.
TakeGarbled == Take("garbled") /\ Answer(FrameError)

=============================================================================
