------------------------------- MODULE NetLink -------------------------------
(***************************************************************************)
(* The network bridge: the two byte streams between the program on the     *)
(* Z80 and the ESP32, carried by CMD_NET_POLL over UartLink.               *)
(*                                                                         *)
(*   ESP32 -> Z80   txq (txq_buf) -> pending -> rx_buf (net_rx_buf) -> Z80 *)
(*   Z80 -> ESP32   Z80 -> tx_buf (net_tx_buf) -> at_process_from_z80      *)
(*                                                                         *)
(* Each direction has an alternating bit (net_seq_out / net_seq_in on the  *)
(* STM32, net_seq_out / net_seq_in_last on the ESP32).  A chunk stays with *)
(* its sender until the other side echoes the bit it was sent with.        *)
(*                                                                         *)
(* The n-th byte put into a stream is the number n.  The protocol looks at *)
(* no byte, so a stream that arrives as 1, 2, 3... is one that arrives     *)
(* whole, once and in order.                                               *)
(***************************************************************************)
EXTENDS UartLink

CONSTANTS
  Chunk,      \* WIFI_PROTO_NET_CHUNK: bytes of data in a frame, at most
  Unit,       \* bytes one unit of credit stands for (16 in the code)
  TxqCap,     \* TXQ_MASK: bytes txq holds
  RxCap,      \* NET_BUF_MASK: bytes net_rx_buf holds
  TxCap,      \* NET_BUF_MASK: bytes net_tx_buf holds
  Batch,      \* bytes fed into txq, or moved by the Z80, in one step
  MaxToZ80,   \* bytes that may enter the stream to the Z80, and
  MaxFromZ80  \* from it (these two bound the model, not the code)

ASSUME NetBounds ==
  /\ Chunk \in Nat \ {0}
  /\ Unit \in Nat \ {0}
  /\ TxqCap \in Nat \ {0}
  /\ RxCap \in Nat
  /\ TxCap \in Nat \ {0}
  /\ Batch \in Nat \ {0}
  /\ MaxToZ80 \in Nat
  /\ MaxFromZ80 \in Nat
  /\ Chunk <= RxCap           \* the first credit fits (128 <= 2047)

VARIABLES
  txq, pending, credit, e_out, e_in,           \* ESP32
  rx_buf, tx_buf, inflight, s_in, s_out,       \* STM32
  toZ80,      \* bytes that entered the stream to the Z80
  z80_log,    \* what the Z80 has read
  fromZ80,    \* bytes the STM32 accepted from the Z80
  esp_log     \* what the ESP32 has processed of them

espVars  == <<txq, pending, credit, e_out, e_in>>
stmVars  == <<rx_buf, tx_buf, inflight, s_in, s_out>>
histVars == <<toZ80, z80_log, fromZ80, esp_log>>
vars == <<linkVars, espVars, stmVars, histVars>>

Smaller(a, b) == IF a <= b THEN a ELSE b

\* The bytes a+1, ..., b of a stream.
Bytes(a, b) == [i \in 1..(b - a) |-> a + i]

RxFree == RxCap - Len(rx_buf)

\* NET_POLL: the request carries the chunk for the Z80, the answer the chunk
\* from it; seq is the bit of the data carried, ack the bit last accepted.
PollRequest(data) ==
  [cmd |-> "NET_POLL", seq |-> e_out, ack |-> e_in, data |-> data]
PollAnswer(seq, ack, free, data) ==
  [cmd |-> "NET_POLL", seq |-> seq, ack |-> ack, free |-> free, data |-> data]
Other == [cmd |-> "other"]      \* any other command of WIFI_PROTOCOL.h

Init ==
  /\ LinkInit
  /\ txq = <<>> /\ pending = <<>>
  /\ credit = Chunk \div Unit
  /\ e_out = FALSE /\ e_in = TRUE
  /\ rx_buf = <<>> /\ tx_buf = <<>> /\ inflight = 0
  /\ s_in = TRUE /\ s_out = FALSE
  /\ toZ80 = 0 /\ fromZ80 = 0
  /\ z80_log = <<>> /\ esp_log = <<>>

-----------------------------------------------------------------------------
(* ESP32 (NET_BRIDGE.cpp, wifi_client_net_poll)                            *)

\* Bytes that may be pushed into txq now: from the socket, AT replies, MQTT
\* messages.  txq_push drops what does not fit: such a byte never enters the
\* stream.
FeedRoom == Smaller(Batch, Smaller(TxqCap - Len(txq), MaxToZ80 - toZ80))

\* How many of the queued bytes are moved into pending.
MLoadIgnoresPending(queued) == Smaller(Len(queued), Smaller(credit * Unit, Chunk))
Load(queued) ==
  IF pending = <<>> THEN Smaller(Len(queued), Smaller(credit * Unit, Chunk)) ELSE 0

\* net_bridge_loop up to the request: feed k bytes into txq, move what the
\* credit allows into pending if pending is free, poll.
NetPoll ==
  \E k \in 0..FeedRoom :
    LET queued == txq \o Bytes(toZ80, toZ80 + k)
        n      == Load(queued)
    IN /\ pending' = IF n > 0 THEN SubSeq(queued, 1, n) ELSE pending
       /\ txq' = Drop(queued, n)
       /\ toZ80' = toZ80 + k
       /\ Request(PollRequest(pending'))
       /\ UNCHANGED <<credit, e_out, e_in, stmVars, z80_log, fromZ80, esp_log>>

\* Is the chunk offered confirmed, is the chunk received a new one.
MEspAckedAny(ans) == request.data # <<>>
EspAcked(ans) == request.data # <<>> /\ ans.ack = e_out
MEspFreshAny(ans) == ans.data # <<>>
MEspFreshOwnBit(ans) == ans.data # <<>> /\ ans.seq # e_out
EspFresh(ans) == ans.data # <<>> /\ ans.seq # e_in

\* The rest of wifi_client_net_poll and of net_bridge_loop once the answer
\* is in: release pending if it was confirmed, take the chunk if it is new
\* and run it through at_process_from_z80, which may queue r reply bytes.
NetPollAnswer ==
  /\ request.cmd = "NET_POLL"
  /\ ReadAnswer
  /\ LET ans == Head(resps) IN
     /\ credit' = ans.free
     /\ e_out' = IF EspAcked(ans) THEN ~e_out ELSE e_out
     /\ pending' = IF EspAcked(ans) \/ request.data = <<>> THEN <<>> ELSE pending
     /\ e_in' = IF EspFresh(ans) THEN ans.seq ELSE e_in
     /\ esp_log' = IF EspFresh(ans) THEN esp_log \o ans.data ELSE esp_log
     /\ \E r \in 0..FeedRoom :
          /\ r > 0 => EspFresh(ans)
          /\ txq' = txq \o Bytes(toZ80, toZ80 + r)
          /\ toZ80' = toZ80 + r
  /\ UNCHANGED <<stmVars, z80_log, fromZ80>>

\* No answer: *out_rx_free was cleared before asking, so the credit is zero
\* until a poll succeeds; pending is offered again by the next one.
NetPollFails ==
  /\ request.cmd = "NET_POLL"
  /\ ReturnFailure
  /\ credit' = 0
  /\ UNCHANGED <<txq, pending, e_out, e_in, stmVars, histVars>>

\* The web pages, the SD log and the debugger use the same UART.
OtherRequest == Request(Other) /\ UNCHANGED <<espVars, stmVars, histVars>>
OtherAnswer  == request = Other /\ ReadAnswer /\ UNCHANGED <<espVars, stmVars, histVars>>
OtherFails   == request = Other /\ ReturnFailure /\ UNCHANGED <<espVars, stmVars, histVars>>

-----------------------------------------------------------------------------
(* STM32 (WIFI_HANDLER.cpp)                                                *)

\* All of the chunk is stored, or none of it.
MAcceptsTwice(req) == req.data # <<>> /\ Len(req.data) <= RxFree
Accepts(req) == req.data # <<>> /\ req.seq # s_in /\ Len(req.data) <= RxFree

\* The bit last accepted.  An empty frame leaves it alone.
MSeqInFollowsEmpty(req) == IF Accepts(req) \/ req.data = <<>> THEN req.seq ELSE s_in
SeqIn(req) == IF Accepts(req) THEN req.seq ELSE s_in

\* The ESP32 confirms the chunk in flight.
StmAcked(req) == inflight > 0 /\ req.ack = s_out

\* Length of the next offer from queue: what is in flight is offered again
\* exactly as it was.
Offer(req, queue) ==
  IF inflight > 0 /\ ~StmAcked(req) THEN inflight ELSE Smaller(Len(queue), Chunk)

\* The credit given: whole units of free space.  (The code caps it at 255;
\* 2047 bytes are 127 units.)
MFreeUnitsRoundedUp(buf) == (RxCap - Len(buf) + Unit - 1) \div Unit
FreeUnits(buf) == (RxCap - Len(buf)) \div Unit

\* handle_net_poll, in its three steps: take the chunk if it is new and fits;
\* release what the ESP32 confirmed; offer the next chunk, or the same again.
StmNetPoll ==
  /\ Take("NET_POLL")
  /\ LET req   == Head(reqs)
         queue == IF StmAcked(req) THEN Drop(tx_buf, inflight) ELSE tx_buf
         n     == Offer(req, queue)
     IN /\ rx_buf' = IF Accepts(req) THEN rx_buf \o req.data ELSE rx_buf
        /\ s_in' = SeqIn(req)
        /\ s_out' = IF StmAcked(req) THEN ~s_out ELSE s_out
        /\ tx_buf' = queue
        /\ inflight' = n
        /\ Answer(PollAnswer(s_out', s_in', FreeUnits(rx_buf'), SubSeq(queue, 1, n)))
  /\ UNCHANGED <<espVars, histVars>>

StmGarbled == TakeGarbled /\ UNCHANGED <<espVars, stmVars, histVars>>
StmOther   == Take("other") /\ Answer(Other) /\ UNCHANGED <<espVars, stmVars, histVars>>

\* cmd_net_read: the Z80 asks for up to max bytes.
Z80Read ==
  /\ rx_buf # <<>>
  /\ \E max \in 1..Batch :
       LET n == Smaller(Len(rx_buf), max) IN
       /\ z80_log' = z80_log \o SubSeq(rx_buf, 1, n)
       /\ rx_buf' = Drop(rx_buf, n)
  /\ UNCHANGED <<linkVars, espVars, tx_buf, inflight, s_in, s_out, toZ80, fromZ80, esp_log>>

\* cmd_net_write: as many of the count bytes as fit are accepted.
Z80Write ==
  /\ \E count \in 1..Batch :
       LET n == Smaller(TxCap - Len(tx_buf), count) IN
       /\ n > 0
       /\ fromZ80 + n <= MaxFromZ80
       /\ tx_buf' = tx_buf \o Bytes(fromZ80, fromZ80 + n)
       /\ fromZ80' = fromZ80 + n
  /\ UNCHANGED <<linkVars, espVars, rx_buf, inflight, s_in, s_out, toZ80, z80_log, esp_log>>

-----------------------------------------------------------------------------
LinkStep ==
  /\ TransmitOk \/ TransmitBad \/ ReadTimeout \/ ReadFrameError \/ ReadStale
  /\ UNCHANGED <<espVars, stmVars, histVars>>

Next ==
  \/ NetPoll \/ NetPollAnswer \/ NetPollFails
  \/ OtherRequest \/ OtherAnswer \/ OtherFails
  \/ StmNetPoll \/ StmGarbled \/ StmOther
  \/ Z80Read \/ Z80Write
  \/ LinkStep

Spec == Init /\ [][Next]_vars

StmStep == StmNetPoll \/ StmGarbled \/ StmOther

\* Both loop()s keep turning: the ESP32's waits end, the STM32 takes what
\* arrives, also between requests.  The line is not always bad: over and over
\* a poll is made with nothing else under way, arrives whole, is answered
\* while the ESP32 waits for it, and the answer is read.  The program on the
\* Z80 keeps reading.
Fairness ==
  /\ WF_vars(LinkStep)
  /\ WF_vars(NetPollFails \/ OtherFails)
  /\ WF_vars(StmStep)
  /\ SF_vars(StmStep /\ phase = "idle")
  /\ SF_vars(NetPoll /\ reqs = <<>>)
  /\ SF_vars(TransmitOk /\ request.cmd = "NET_POLL" /\ resps' = <<>> /\ LinkStep)
  /\ SF_vars(StmNetPoll /\ phase = "wait" /\ request.cmd = "NET_POLL" /\ resps' # resps)
  /\ SF_vars(NetPollAnswer)
  /\ WF_vars(Z80Read)

FairSpec == Spec /\ Fairness
=============================================================================
