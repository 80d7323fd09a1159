\* Both streams at once, and every kind of failure.  Two tries per request, so
\* that a retry meets what the first try did, and a late answer of one poll the
\* next poll.  Chunks of up to two bytes, units of credit of two bytes and a
\* receive buffer of two: one free byte is half a unit, so rounding the credit
\* matters.  Two bytes in each direction: sent in chunks of one, they bring
\* both bits back to where they began.
CONSTANTS
  MaxTries = 2
  MaxStale = 1
  ReqRoom = 1
  RespRoom = 1
  Chunk = 2
  Unit = 2
  TxqCap = 2
  RxCap = 2
  TxCap = 1
  Batch = 1
  MaxToZ80 = 2
  MaxFromZ80 = 2
SPECIFICATION FairSpec
INVARIANTS Streams NetInv
PROPERTIES ReofferSame Pipes Delivers
