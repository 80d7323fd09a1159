\* Every routine of the ROM and of the examples, in any sequence, with the
\* empty string and one of two bytes, and every way the handlers may go while
\* the card works.
CONSTANTS
  Lens = {0, 2}
  Sizes = {0, 2}
  Wrap = 3
  CardFails = FALSE
  Unset = {0}
  Odd = {}
SPECIFICATION FairSpec
INVARIANT InStep
PROPERTIES OneToggle Answered
