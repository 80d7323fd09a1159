SPECIFICATION Spec
CONSTANTS
  Voices = 2
  MAX_PLAY_LOOP_DEPTH = 2
  WavFiles <- WavSet
  WAV_BUFFER_SIZE = 2
  MaxReadErrors = 1
  Songs <- SongSet
  Garbled <- GarbledSet
  VgmFiles <- VgmSet
  VGM_RETRIES = 1
  Programs <- ProgramSet
  Word = 16
  MaxCommands = 2
  MaxNotes = 9
  Texts <- TextSet
  Strings <- StringSet
  StackBytes <- StackSet
  Samples = 1
INVARIANTS NotesExact Silence SpokenWhole
PROPERTY Ends
CHECK_DEADLOCK FALSE
