\* Seven bytes from the Z80 hold an escape, a command and data around them;
\* two connections, so that one can follow the other.  Chunks of up to three
\* bytes, so that a "+++" can come in one, two or three of them.  One byte of
\* raw data and a command buffer of one byte reach both limits early.
CONSTANTS
  Commands = {"ATDT", "ATH", "ATZ", "ATO", "AT+SHA256"}
  LineCap = 1
  RawLen = 1
  ChunkCap = 3
  MaxBytes = 7
  MaxDials = 2
SPECIFICATION ModemFairSpec
INVARIANTS SocketExact ModeFollowsLine
PROPERTIES EscapeNeedsSilence EscapeHonoured
