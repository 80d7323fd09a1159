-------------------------------- MODULE Players -------------------------------
(***************************************************************************)
(* What the STM32 plays: PLAY, VGM files and PEG programs, which share the *)
(* AY, WAV files and the voice; the commands that start and stop them,     *)
(* from the Z80 or the serial port; and the snapshot's copy of them        *)
(* (VGM.cpp, PEG.cpp, MCUSTATE.cpp, COMMANDS.cpp, COMMS.cpp, the .ino).    *)
(*                                                                         *)
(* Of the AY's registers the amplitudes are kept, as who gave them: a note *)
(* of PLAY, a VGM, a PEG program, the Z80, a snapshot, or "off".           *)
(***************************************************************************)
EXTENDS PlayTune, WavPlayer, VoiceSynth, FiniteSets, FiniteSetsExt

CONSTANTS
  Songs,             \* [Channels -> strings]
  Garbled,           \* what they may be written over with
  VgmFiles,          \* sequences of "wait", "on", "off", "other", "cut" (a write
                     \* without its value, at the end)
  VGM_RETRIES,       \* 10
  Programs,          \* PEG programs: sequences of instructions
  Word,              \* 2^16
  MaxCommands, MaxNotes        \* bound the model

ASSUME PlayersBounds ==
  /\ Songs \cup Garbled \subseteq [Channels -> Seq(Tokens)]
  /\ Word \in Nat \ {0} /\ VGM_RETRIES \in Nat \ {0} /\ MaxCommands \in Nat /\ MaxNotes \in Nat

VARIABLES
  tune,       \* parser_state: [ch, playing, heard, fg, own, kept, song, held]; heard:
              \* the notes played, fg: cmd_AY_play waits for its end, own: the strings
              \* are the serial port's, kept: nothing was written over them
  amp,        \* ay_registers 8 to 10
  vgm,        \* [file, pos, playing, mode, retries, due, open]
  peg,        \* [mem, pc, on, due, v, carry], one thread
  snap,       \* the snapshot's copy
  loading,    \* a snapshot is being loaded
  commands    \* counts for the bound

auVars == <<tune, amp>>
playersVars == <<wavVars, voice, auVars, vgm, peg, snap, loading, commands>>

NoFile == <<>>
NoTune == [c \in Channels |-> <<>>]
Header == "other"

Starting(song, fg, own) ==
  [ch |-> [c \in Channels |-> Channel(song[c])], playing |-> TRUE,
   heard |-> [c \in Channels |-> <<>>], fg |-> fg, own |-> own, kept |-> TRUE,
   song |-> song, held |-> FALSE]

PegInit(mem) ==
  [mem |-> mem, pc |-> 0, on |-> FALSE, due |-> TRUE, v |-> [n \in 0..3 |-> 0], carry |-> 0]

NoSnap ==
  [has |-> FALSE, amp |-> Silent, vgm |-> NoFile, state |-> 0, mode |-> 0, pos |-> 1,
   peg |-> PegInit(<<>>)]

Init ==
  /\ WavInit /\ VoiceInit
  /\ tune = [Starting(NoTune, FALSE, TRUE) EXCEPT !.playing = FALSE]
  /\ amp = Silent
  /\ vgm = [file |-> NoFile, pos |-> 1, playing |-> FALSE, mode |-> 0, retries |-> 0,
            due |-> TRUE, open |-> FALSE]
  /\ peg = PegInit(<<>>)
  /\ snap = NoSnap /\ loading = FALSE /\ commands = 0

\* loop() goes round: PLAY does not hold it, and no other task is half done.
Loop == ~tune.held /\ ~wav.loading /\ voice.step = "none"
\* idle_tasks, also while a command waits for the voice.
InLoop == Loop /\ ~tune.fg

Command == InLoop /\ ~Waiting /\ commands < MaxCommands /\ commands' = commands + 1

-----------------------------------------------------------------------------
(* PLAY.                                                                   *)

\* cmd_AY_play, with or without "*", and the serial port's PLAY:
\* play_parser_start silences the AY.
Play ==
  /\ Command
  /\ \E song \in Songs, how \in {"wait", "background", "serial"} :
       tune' = Starting(song, how = "wait", how = "serial")
  /\ amp' = Silent
  /\ UNCHANGED <<wavVars, voice, vgm, peg, snap, loading>>

\* Any command with a string of its own is read into params, where the strings
\* of a PLAY in the background are.
WritesOver ==
  \E song \in Garbled :
    tune' = [tune EXCEPT !.kept = FALSE, !.song = song,
                         !.ch = [c \in Channels |-> [@[c] EXCEPT !.str = song[c]]]]
OtherString ==
  /\ Command /\ tune.playing /\ ~tune.own /\ WritesOver
  /\ UNCHANGED <<wavVars, voice, amp, vgm, peg, snap, loading>>

\* play_parser_update, from loop() or from cmd_AY_play, which returns when it
\* is over.
PlayUpdate ==
  /\ Loop /\ ~Waiting /\ tune.playing /\ \A c \in Channels : Len(tune.heard[c]) < MaxNotes
  /\ \E s \in {Updated([ch |-> tune.ch, amp |-> amp, playing |-> TRUE,
                        heard |-> tune.heard, held |-> FALSE])} :
       /\ tune' = [tune EXCEPT !.ch = s.ch, !.playing = s.playing, !.heard = s.heard,
                               !.held = s.held, !.fg = @ /\ s.playing]
       /\ amp' = s.amp
  /\ UNCHANGED <<wavVars, voice, vgm, peg, snap, loading, commands>>

\* Time: the note of a channel ends.
NoteEnds ==
  /\ \E c \in Channels : tune.ch[c].wait /\ tune' = [tune EXCEPT !.ch[c].wait = FALSE]
  /\ UNCHANGED <<wavVars, voice, amp, vgm, peg, snap, loading, commands>>

\* A reset of the Z80 ends the tune it waits for, if the parser returns.
ResetPlay ==
  /\ Loop /\ tune.fg
  /\ tune' = [tune EXCEPT !.playing = FALSE, !.fg = FALSE] /\ amp' = Silent
  /\ UNCHANGED <<wavVars, voice, vgm, peg, snap, loading, commands>>

-----------------------------------------------------------------------------
(* VGM.                                                                    *)

DataStart == 2      \* a file is its header, then its commands

\* openVGM.
Opened(f) ==
  [vgm EXCEPT !.file = f, !.pos = DataStart, !.open = (f # NoFile), !.retries = 0, !.due = TRUE]

\* cmd_play_VGM starts what it could open; the serial port's PLAYVGM starts
\* all the same.
PlayVgm ==
  /\ Command
  /\ \E f \in VgmFiles \cup {NoFile}, serial \in BOOLEAN :
       vgm' = [Opened(f) EXCEPT !.playing = IF f # NoFile \/ serial THEN TRUE ELSE @]
  /\ UNCHANGED <<wavVars, voice, auVars, peg, snap, loading>>

\* cmd_pause_VGM; cmd_stop_VGM also goes back to the start of the file, header
\* and all.
PauseVgm ==
  /\ Command /\ vgm.open
  /\ \E stop \in BOOLEAN : vgm' = [vgm EXCEPT !.playing = FALSE, !.pos = IF stop THEN 1 ELSE @]
  /\ amp' = Silent
  /\ UNCHANGED <<wavVars, voice, tune, peg, snap, loading>>

ContVgm ==
  /\ Command /\ vgm.open /\ vgm' = [vgm EXCEPT !.playing = TRUE]
  /\ UNCHANGED <<wavVars, voice, auVars, peg, snap, loading>>

LoopVgm ==
  /\ Command /\ \E m \in {0, 1} : vgm' = [vgm EXCEPT !.mode = m]
  /\ UNCHANGED <<wavVars, voice, auVars, peg, snap, loading>>

\* A read that fails, too often: the end.
MGivenUp == amp
GivenUp == Silent
ReadFails ==
  IF vgm.retries + 1 > VGM_RETRIES
  THEN /\ vgm' = [vgm EXCEPT !.retries = @ + 1, !.open = FALSE, !.playing = FALSE]
       /\ amp' = GivenUp
  ELSE vgm' = [vgm EXCEPT !.retries = @ + 1] /\ UNCHANGED amp

\* read_next_VGM_command.
VgmCommand ==
  /\ InLoop /\ vgm.playing /\ vgm.due
  /\ LET over == ~vgm.open \/ vgm.pos > Len(vgm.file) + 1
         tok  == IF over THEN "none" ELSE IF vgm.pos = 1 THEN Header ELSE vgm.file[vgm.pos - 1]
         next == [vgm EXCEPT !.pos = @ + 1, !.retries = 0]
     IN  \/ /\ over /\ vgm.mode = 1 /\ UNCHANGED amp
            /\ vgm' = [vgm EXCEPT !.pos = IF vgm.open THEN DataStart ELSE @]
         \/ over /\ vgm.mode # 1 /\ ReadFails
         \/ tok = "cut" /\ vgm' = [next EXCEPT !.retries = 1] /\ UNCHANGED amp
         \/ tok = "wait" /\ vgm' = [next EXCEPT !.due = FALSE] /\ UNCHANGED amp
         \/ tok \in {"on", "off"} /\ vgm' = next
            /\ amp' = [amp EXCEPT ![1] = IF tok = "on" THEN "vgm" ELSE "off"]
         \/ tok = "other" /\ vgm' = next /\ UNCHANGED amp
  /\ UNCHANGED <<wavVars, voice, tune, peg, snap, loading, commands>>

VgmDue ==
  /\ ~vgm.due /\ vgm' = [vgm EXCEPT !.due = TRUE]
  /\ UNCHANGED <<wavVars, voice, auVars, peg, snap, loading, commands>>

-----------------------------------------------------------------------------
(* PEG: instructions are <<name, operands>>.                               *)

MemSize == 8      \* 256
Vars == 0..3      \* 0..15

\* The bits of a word, and what AND and XOR make of them.
Bits == {k \in 0..15 : 2^k < Word}
Bit(x, k) == (x \div 2^k) % 2
And(x, y) == MapThenSumSet(LAMBDA k : 2^k * Bit(x, k) * Bit(y, k), Bits)
Xor(x, y) == MapThenSumSet(LAMBDA k : 2^k * ((Bit(x, k) + Bit(y, k)) % 2), Bits)

\* What an operation on V[n1] and y makes of [v, carry].  SUB of two variables
\* goes on into ADC; OR is a copy; a division by 0 gives what the processor
\* gives.
Alu(op, p, n1, n2, y) ==
  LET x  == p.v[n1]
      up == (n1 + 1) % Cardinality(Vars)
      V(r) == [p EXCEPT !.v[n1] = r % Word]
      C(r) == [V(r) EXCEPT !.carry = (r \div Word) % 2]
      Pair(lo, hi) == [p EXCEPT !.v = [@ EXCEPT ![n1] = lo, ![up] = hi]]
      d == C(x - y)
  IN  CASE op = "LD"  -> V(y)
        [] op = "ADD" -> C(x + y)
        [] op = "SUB" -> d
        [] op = "SUBV" -> LET r == d.v[n1] + d.v[n2] + d.carry
                          IN [d EXCEPT !.v[n1] = r % Word, !.carry = (r \div Word) % 2]
        [] op = "ADC" -> C(x + y + p.carry)
        [] op = "SBC" -> C(x - y - p.carry)
        [] op = "NOT" -> V(Word - 1 - y)
        [] op = "AND" -> V(And(x, y))
        [] op = "OR"  -> V(y)
        [] op = "XOR" -> V(Xor(x, y))
        [] op = "MUL" -> Pair((x * y) % Word, (x * y) \div Word)
        [] op = "DIV" -> IF y = 0 THEN Pair(0, x) ELSE Pair(x \div y, x % y)
        [] op = "SHL" -> V(x * 2^y)
        [] op = "SHR" -> V(x \div 2^y)
AluOps == {"LD", "ADD", "SUB", "SUBV", "ADC", "SBC", "NOT", "AND", "OR", "XOR", "MUL", "DIV", "SHL", "SHR"}

At(p) == IF p.pc < Len(p.mem) THEN p.mem[p.pc + 1] ELSE <<"LDR", 0, 0>>
\* JR, DJNZ: from the next instruction.
To(p, off) == [p EXCEPT !.pc = (@ + off) % MemSize]
Next1(p) == [p EXCEPT !.pc = (@ + 1) % MemSize]

\* exec_PEG.  A register is a channel's amplitude, or 0 for the others.
Djnz(p, n, off) ==
  LET q == [p EXCEPT !.v[n] = (@ - 1) % Word] IN IF q.v[n] # 0 THEN To(q, off) ELSE q

ExecPeg ==
  /\ InLoop /\ peg.on /\ peg.due
  /\ \E i \in {At(peg)} :
       \/ /\ i[1] = "LDR"                   \* a register: LD and ADD
          /\ amp' = IF i[2] \notin Channels THEN amp
                    ELSE [amp EXCEPT ![i[2]] = IF i[3] = 0 THEN "off" ELSE "peg"]
          /\ peg' = Next1(peg)
       \/ i[1] \in AluOps /\ peg' = Next1(Alu(i[1], peg, i[2], 0, i[3])) /\ UNCHANGED amp
       \/ i[1] = "VAR" /\ peg' = Next1(Alu(i[2], peg, i[3], i[4], peg.v[i[4]])) /\ UNCHANGED amp
       \/ i[1] = "DJNZ" /\ peg' = Next1(Djnz(peg, i[2], i[3])) /\ UNCHANGED amp
       \/ i[1] = "JR" /\ peg' = Next1(To(peg, i[2])) /\ UNCHANGED amp
       \/ i[1] = "WAIT" /\ peg' = Next1([peg EXCEPT !.due = FALSE]) /\ UNCHANGED amp
       \/ i[1] = "HALT" /\ peg' = Next1([peg EXCEPT !.on = FALSE]) /\ UNCHANGED amp
  /\ UNCHANGED <<wavVars, voice, tune, vgm, snap, loading, commands>>

PegDue ==
  /\ ~peg.due /\ peg' = [peg EXCEPT !.due = TRUE]
  /\ UNCHANGED <<wavVars, voice, auVars, vgm, snap, loading, commands>>

\* cmd_load_PEG and cmd_sdload_PEG, at 0; cmd_play_PEG, which does not end a
\* WAIT under way; cmd_stop_PEG, cmd_pause_PEG, cmd_cont_PEG.
PegCommand ==
  /\ Command
  /\ \/ \E m \in Programs : peg' = [peg EXCEPT !.mem = m]
     \/ peg' = [peg EXCEPT !.pc = 0, !.on = TRUE]
     \/ peg' = [peg EXCEPT !.pc = 0, !.on = FALSE]
     \/ \E on \in BOOLEAN : peg' = [peg EXCEPT !.on = on]
  /\ UNCHANGED <<wavVars, voice, auVars, vgm, snap, loading>>

-----------------------------------------------------------------------------
(* Snapshots, and the Z80's own writes.                                    *)

\* mcustate_save.
Save ==
  /\ Command /\ ~loading
  /\ snap' = [has |-> TRUE, amp |-> amp, vgm |-> IF vgm.open THEN vgm.file ELSE NoFile,
              state |-> IF ~vgm.open THEN 0 ELSE IF vgm.playing THEN 1 ELSE 2,
              mode |-> vgm.mode, pos |-> vgm.pos, peg |-> peg]
  /\ UNCHANGED <<wavVars, voice, auVars, vgm, peg, loading>>

\* mcustate_quiet: PLAY goes on.
LoadBegins ==
  /\ Command /\ snap.has /\ ~loading /\ loading' = TRUE
  /\ vgm' = [vgm EXCEPT !.playing = FALSE] /\ peg' = [peg EXCEPT !.on = FALSE] /\ amp' = Silent
  /\ UNCHANGED <<wavVars, voice, tune, snap>>

\* mcustate_apply.  The file may not be there any more.
Taken(a) == [c \in Channels |-> IF a[c] = "off" THEN "off" ELSE "snapshot"]
LoadEnds ==
  /\ InLoop /\ ~Waiting /\ loading /\ loading' = FALSE
  /\ amp' = Taken(snap.amp)
  /\ peg' = [snap.peg EXCEPT !.due = peg.due]
  /\ \E f \in {NoFile, snap.vgm} :
       vgm' = IF snap.state = 0 THEN [vgm EXCEPT !.playing = FALSE]
              ELSE IF f = NoFile THEN [Opened(f) EXCEPT !.playing = FALSE]
              ELSE [Opened(f) EXCEPT !.playing = (snap.state = 1), !.mode = snap.mode, !.pos = snap.pos]
  /\ UNCHANGED <<wavVars, voice, tune, snap, commands>>

\* cmd_AY_set_reg.
SetReg ==
  /\ Command /\ \E c \in Channels, w \in {"off", "z80"} : amp' = [amp EXCEPT ![c] = w]
  /\ UNCHANGED <<wavVars, voice, tune, vgm, peg, snap, loading>>

\* LOAD of a WAV file, or the serial port's PLAYWAV.
StartWav == Command /\ PlayWav /\ UNCHANGED <<voice, auVars, vgm, peg, snap, loading>>
Sample == GetNextSample /\ UNCHANGED <<voice, auVars, vgm, peg, snap, loading, commands>>
LoadWav == InLoop /\ LoadBuffer /\ UNCHANGED <<voice, auVars, vgm, peg, snap, loading, commands>>
LoadWavDone == LoadDone /\ UNCHANGED <<voice, auVars, vgm, peg, snap, loading, commands>>

-----------------------------------------------------------------------------
(* The voice.                                                              *)

\* cmd_say, with "*" in the background, and the serial port's SPEECH.
Say ==
  /\ Command
  /\ \E text \in Texts, how \in {"wait", "background", "serial"} :
       /\ SpeakText(text, how = "wait")
       /\ IF tune.playing /\ ~tune.own /\ how # "serial" THEN WritesOver ELSE UNCHANGED tune
  /\ UNCHANGED <<wavVars, amp, vgm, peg, snap, loading>>

\* cmd_binary_say.
BinarySay == Command /\ SpeakBytes /\ UNCHANGED <<wavVars, auVars, vgm, peg, snap, loading>>

SpeechStep == SpeechGoesOn /\ UNCHANGED <<wavVars, auVars, vgm, peg, snap, loading, commands>>
VoiceTick == VoiceSample /\ UNCHANGED <<wavVars, auVars, vgm, peg, snap, loading, commands>>

Next ==
  \/ Play \/ OtherString \/ PlayUpdate \/ NoteEnds \/ ResetPlay
  \/ PlayVgm \/ PauseVgm \/ ContVgm \/ LoopVgm \/ VgmCommand \/ VgmDue
  \/ PegCommand \/ ExecPeg \/ PegDue
  \/ Save \/ LoadBegins \/ LoadEnds \/ SetReg
  \/ StartWav \/ Sample \/ LoadWav \/ LoadWavDone
  \/ Say \/ BinarySay \/ SpeechStep \/ VoiceTick

\* The loop goes round, the interrupt comes, time passes.
Spec ==
  /\ Init /\ [][Next]_playersVars
  /\ WF_playersVars(PlayUpdate) /\ WF_playersVars(NoteEnds)
  /\ WF_playersVars(VgmCommand) /\ WF_playersVars(VgmDue)
  /\ WF_playersVars(ExecPeg) /\ WF_playersVars(PegDue)
  /\ WF_playersVars(Sample) /\ WF_playersVars(LoadWav) /\ WF_playersVars(LoadWavDone)
  /\ WF_playersVars(SpeechStep) /\ WF_playersVars(VoiceTick)

-----------------------------------------------------------------------------
(* What they promise.                                                      *)

\* A string is played as it is written: every section twice, also inside
\* another, one that is not closed up to the end, and one that closes nothing
\* for ever; the loop is held only by a string that is for ever and plays
\* nothing (process_channel_event; strings whose sections fit in the stack and
\* that nothing was written over).
NotesExact ==
  tune.kept =>
    /\ \A c \in Channels : Fits(tune.song[c]) =>
         /\ PlayedSo(tune.song[c], tune.heard[c])
         /\ Finished(tune.ch[c]) => PlayedToEnd(tune.song[c], tune.heard[c])
    /\ tune.held => \E c \in Channels : Endless(tune.song[c]) /\ Body(tune.song[c]) = <<>>

\* A note never outlives its player: a channel that PLAY or a VGM left sounding
\* is silenced when it ends, is stopped, paused, replaced or runs out of
\* file, whichever of them wrote to the AY in between (play_parser_stop,
\* read_next_VGM_command, cmd_stop_VGM, mcustate_quiet).  The exception: after
\* an H the voices that follow it are still gone through, and a note of theirs
\* may stay.
HaltBefore(c) == \E h \in 1..(c - 1) : Contains(tune.song[h], "H")
Silence ==
  \A c \in Channels :
    /\ amp[c] = "play" => tune.playing \/ HaltBefore(c)
    /\ amp[c] = "vgm" => vgm.playing

\* What is not for ever ends: a tune, a WAV (through every race of the interrupt
\* with the loop, unless a read fails), a VGM without its loop mode (also one
\* whose file is not there or is cut off), what is said, also over something
\* else, and a PEG program that halts, also when it was changed under way
\* (play_parser_update, get_next_sample, read_next_VGM_command,
\* load_next_alophone, exec_PEG).
ForEver == \E c \in Channels : Endless(tune.song[c])
Blocked == tune.held \/ (tune.fg /\ ForEver)
Ends ==
  /\ tune.playing ~> ~tune.playing \/ ~tune.kept \/ ForEver
  /\ wav.playing ~> ~wav.playing \/ Runaway \/ Blocked
  /\ voice.playing ~> ~voice.playing
  /\ vgm.playing ~> ~vgm.playing \/ vgm.mode = 1 \/ Blocked
  /\ peg.on ~> ~peg.on \/ peg.mem = <<>> \/ Blocked
==============================================================================
