------------------------------ MODULE NetSafety -------------------------------
(***************************************************************************)
(* What NetLink guarantees, and the inductive invariant behind it.         *)
(***************************************************************************)
EXTENDS NetLink, AltBit

(* The frames that may be on the line. *)
PollRequests ==
  [cmd : {"NET_POLL"}, seq : BOOLEAN, ack : BOOLEAN, data : Seq(Nat)]
PollAnswers ==
  [cmd : {"NET_POLL"}, seq : BOOLEAN, ack : BOOLEAN, free : Nat, data : Seq(Nat)]
ReqFrames  == PollRequests \cup {Garbled, Other}
RespFrames == PollAnswers \cup {FrameError, Other}

LinkTypeOK ==
  /\ reqs \in Seq(ReqFrames) /\ Len(reqs) <= ReqRoom
  /\ resps \in Seq(RespFrames) /\ Len(resps) <= RespRoom
  /\ phase \in Phases
  /\ request \in PollRequests \cup {NoRequest, Other}
  /\ tries \in 0..MaxTries
  /\ stale \in 0..MaxStale

BridgeTypeOK ==
  /\ txq \in Seq(Nat) /\ Len(txq) <= TxqCap
  /\ pending \in Seq(Nat) /\ Len(pending) <= Chunk
  /\ credit \in Nat
  /\ rx_buf \in Seq(Nat) /\ Len(rx_buf) <= RxCap
  /\ tx_buf \in Seq(Nat) /\ Len(tx_buf) <= TxCap
  /\ inflight \in 0..Len(tx_buf) /\ inflight <= Chunk
  /\ e_out \in BOOLEAN /\ e_in \in BOOLEAN /\ s_in \in BOOLEAN /\ s_out \in BOOLEAN
  /\ toZ80 \in 0..MaxToZ80 /\ fromZ80 \in 0..MaxFromZ80
  /\ z80_log \in Seq(Nat) /\ esp_log \in Seq(Nat)

\* Types, and the limits of every buffer: no ring buffer is ever asked to
\* hold more than its mask allows, no frame carries more than a chunk.
TypeOK == LinkTypeOK /\ BridgeTypeOK

-----------------------------------------------------------------------------
(* The two streams.                                                        *)

\* The chunk offered counts as stored once the bits agree, whether or not
\* the ESP32 knows.
Unstored == IF s_in = e_out THEN <<>> ELSE pending
\* What the ESP32 has not processed of net_tx_buf.
Unprocessed == IF e_in = s_out THEN Drop(tx_buf, inflight) ELSE tx_buf

\* Bytes for the Z80 (socket data, AT replies) reach it whole, once and in
\* order, through every retry, lost answer and late answer of NET_POLL: what
\* it read, followed by what is buffered, is what was put in.
StreamToZ80 ==
  z80_log \o rx_buf \o Unstored \o txq = Bytes(0, toZ80)

\* The same for what the Z80 wrote with NET_WRITE: the AT interpreter and the
\* socket see every accepted byte once, in order.
StreamFromZ80 ==
  esp_log \o Unprocessed = Bytes(0, fromZ80)

\* Both directions, which share the frames of NET_POLL.
Streams == StreamToZ80 /\ StreamFromZ80

\* A chunk not yet stored always fits: the credit in rx_free, also when it
\* comes in a late answer, never lets the ESP32 offer more than net_rx_buf
\* can take, so handle_net_poll never has to turn a chunk down for room.
CreditSound ==
  s_in # e_out => Len(pending) <= RxFree

\* What is in flight is offered again exactly as it was: until the other end
\* confirms it, neither the ESP32's pending chunk nor the STM32's inflight
\* bytes change.
ReofferSame ==
  [][/\ (pending # <<>> /\ e_out' = e_out) => pending' = pending
     /\ (inflight > 0 /\ s_out' = s_out) =>
          /\ inflight' = inflight
          /\ SubSeq(tx_buf', 1, inflight') = SubSeq(tx_buf, 1, inflight)]_vars

\* Each direction is a pipe.
Held == rx_buf \o Unstored \o txq
ToZ80   == INSTANCE BytePipe WITH put <- toZ80, held <- Held, taken <- z80_log
FromZ80 == INSTANCE BytePipe WITH put <- fromZ80, held <- Unprocessed, taken <- esp_log
Pipes == ToZ80!PipeSpec /\ FromZ80!PipeSpec

\* Every byte put in comes out, as long as the line is not bad for ever and
\* the Z80 keeps reading: no exchange of bits, credits and retries wedges the
\* bridge (an earlier version did, see the comment in handle_net_poll).
Delivers ==
  /\ \A n \in 1..MaxToZ80 : toZ80 >= n ~> Len(z80_log) >= n
  /\ \A n \in 1..MaxFromZ80 : fromZ80 >= n ~> Len(esp_log) >= n

-----------------------------------------------------------------------------
(* The inductive invariant.                                                *)

\* wifi_client_request neither starts an attempt nor reads a frame too many.
AttemptsLeft ==
  /\ phase = "send" => tries < MaxTries
  /\ phase = "wait" => stale < MaxStale
  /\ phase = "idle" <=> request = NoRequest

\* A request under way carries what the ESP32 holds now.
RequestCurrent ==
  request.cmd = "NET_POLL" => request = PollRequest(pending)

\* Each direction obeys the alternating bit.
DownLine == AltBitInv(reqs, resps, e_out, s_in, pending)
UpLine   == AltBitInv(resps, reqs, s_out, e_in, SubSeq(tx_buf, 1, inflight))

\* Credit held or on its way promises no more room than there is.
CreditLine ==
  /\ CreditSound
  /\ pending = <<>> => credit * Unit <= RxFree
  /\ \A i \in Poll(resps) :
       (s_in # e_out \/ resps[i].ack = e_out) => resps[i].free * Unit <= RxFree

NetInv == AttemptsLeft /\ RequestCurrent /\ DownLine /\ UpLine /\ CreditLine
=============================================================================
