-------------------------------- MODULE AltBit --------------------------------
(***************************************************************************)
(* The alternating bit of one direction of the network bridge, as an       *)
(* invariant of the two lines its frames travel on.                        *)
(***************************************************************************)
EXTENDS Naturals, Sequences

\* Where a line holds frames of CMD_NET_POLL, and where those carry data.
Poll(line) == {i \in DOMAIN line : line[i].cmd = "NET_POLL"}
Data(line) == {i \in Poll(line) : line[i].data # <<>>}

\* chunk is what the sender offers with the bit tx, rx the bit its receiver
\* last accepted; data travels on dataLine, confirmations on ackLine.
\*   - A frame on the line with the sender's bit carries the chunk, and no
\*     older data follows it.
\*   - Before the chunk is stored, every confirmation denies it.
\*   - Once it is, no older data is on the line, and after a confirmation of
\*     it come only confirmations of it.
AltBitInv(dataLine, ackLine, tx, rx, chunk) ==
  /\ \A i \in Data(dataLine) : dataLine[i].seq = tx => dataLine[i].data = chunk
  /\ \A i, j \in Data(dataLine) :
       i < j /\ dataLine[i].seq = tx => dataLine[j].seq = tx
  /\ rx # tx => \A i \in Poll(ackLine) : ackLine[i].ack = rx
  /\ rx = tx =>
       /\ chunk # <<>>
       /\ \A i \in Data(dataLine) : dataLine[i].seq = tx
       /\ \A i, j \in Poll(ackLine) :
            i < j /\ ackLine[i].ack = tx => ackLine[j].ack = tx
=============================================================================
