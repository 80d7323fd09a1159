\* Every kind of line failure and every kind of job, and a card that may fail
\* at each access.  Two pieces, so that a repetition and a wrong order show;
\* two jobs, so that the second meets the first one's late answers and leaked
\* handle; one frame of room each way, which is enough to lose, repeat or
\* delay every one of them.
CONSTANTS
  MaxTries = 2
  MaxStale = 1
  ReqRoom = 1
  RespRoom = 1
  NumHandles = 2
  CardFails = TRUE
  WebFiles = {"old"}
  LogFile = "log"
  Kinds = {"upload", "download", "delete", "log"}
  Card <- OldCard
  Pieces = 2
  MaxJobs = 2
SPECIFICATION FairSpec
INVARIANTS UploadExact DownloadExact UploadOrdered LogKept
PROPERTIES JobEnds
