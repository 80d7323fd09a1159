\* Two boots, so that a power cut at any step is followed by a whole run.  A
\* good image of two pieces, a damaged one, a truncated one, one too large.
CONSTANTS
  MaxTries = 2
  MaxStale = 1
  ReqRoom = 2
  RespRoom = 2
  NumHandles = 2
  CardFails = FALSE
  GoodImage <- TwoPieces
  Images <- Variety
  Partition = 2
  MaxBoots = 2
SPECIFICATION Spec
INVARIANT GoodImageSurvives
