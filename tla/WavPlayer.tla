------------------------------- MODULE WavPlayer ------------------------------
(***************************************************************************)
(* WAV.cpp: two buffers, emptied by the timer interrupt (get_next_sample)  *)
(* and filled from the loop (load_wav_buffer).  Which samples are heard is *)
(* not modelled: a buffer is how many it holds.                            *)
(***************************************************************************)
EXTENDS Integers

CONSTANTS
  WavFiles,          \* [size |-> samples, good |-> a PCM header]
  WAV_BUFFER_SIZE,
  MaxReadErrors

ASSUME WavBounds == WAV_BUFFER_SIZE \in Nat \ {0} /\ MaxReadErrors \in Nat

VARIABLES wav, readErrors

wavVars == <<wav, readErrors>>

HeaderSize == 44      \* positions count from its end
None == -1
Failed == -1
WavInit ==
  /\ wav = [playing |-> FALSE, size |-> 0, total |-> 0, open |-> FALSE, pcm |-> FALSE,
            cur |-> 0, len |-> [b \in {0, 1} |-> 0], bpos |-> 0, fpos |-> 0,
            pending |-> None, loading |-> FALSE]
  /\ readErrors = 0

\* wav_file.read: what is left from fpos, a buffer at most.  total is the size
\* of the file that is open, size what playWavFile noted.
Got(w) ==
  IF ~w.open THEN Failed
  ELSE IF w.fpos >= w.total THEN 0
  ELSE IF w.total - w.fpos < WAV_BUFFER_SIZE THEN w.total - w.fpos ELSE WAV_BUFFER_SIZE

\* load_wav_buffer up to its last assignment: an error moves the position back
\* by one, and closes the file.
MLoaded(w, b, n) == [w EXCEPT !.len[b] = n, !.open = @ /\ n >= 0]
Loaded(w, b, n) ==
  [w EXCEPT !.len[b] = n, !.fpos = @ + n, !.open = @ /\ n >= 0]

\* playWavFile.  A file that is not PCM leaves what was playing to go on from
\* it; one that is not there passes for PCM if the last one was (the -1 of
\* read is compared as unsigned).
Begun(f) ==
  LET there == f.size > 0
      w == [wav EXCEPT !.size = IF there THEN f.size ELSE -HeaderSize, !.total = f.size, !.open = there,
                       !.pcm = IF there THEN f.good ELSE @]
      first == Loaded([w EXCEPT !.fpos = 0, !.playing = TRUE], 0,
                      Got([w EXCEPT !.fpos = 0]))
      second == IF first.fpos < first.size THEN Loaded(first, 1, Got(first)) ELSE first
  IN  IF ~w.pcm THEN w ELSE [second EXCEPT !.pending = None, !.cur = 0]

PlayWav == \E f \in WavFiles : wav' = Begun(f) /\ UNCHANGED readErrors

\* The interrupt.  data_len is compared as unsigned: after an error the buffer
\* has no end.
Runaway == wav.len[wav.cur] = Failed
GetNextSample ==
  /\ wav.playing
  /\ wav' = IF Runaway THEN wav
            ELSE IF wav.bpos < wav.len[wav.cur] THEN [wav EXCEPT !.bpos = @ + 1]
            ELSE IF wav.fpos < wav.size
            THEN [wav EXCEPT !.pending = wav.cur, !.cur = 1 - @, !.bpos = 1]
            ELSE [wav EXCEPT !.playing = FALSE]
  /\ UNCHANGED readErrors

\* idle_tasks.  A request the interrupt makes before the last assignment is
\* lost with it.
LoadBuffer ==
  /\ wav.playing /\ wav.pending # None /\ ~wav.loading
  /\ \/ /\ wav' = [Loaded(wav, wav.pending, Got(wav)) EXCEPT !.loading = TRUE]
        /\ UNCHANGED readErrors
     \/ /\ readErrors < MaxReadErrors /\ readErrors' = readErrors + 1
        /\ wav' = [Loaded(wav, wav.pending, Failed) EXCEPT !.loading = TRUE]

LoadDone ==
  /\ wav.loading /\ wav' = [wav EXCEPT !.pending = None, !.loading = FALSE]
  /\ UNCHANGED readErrors
==============================================================================
