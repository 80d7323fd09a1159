------------------------------- MODULE PlayTune -------------------------------
(***************************************************************************)
(* PLAY: the strings of play_command_parser.cpp.                           *)
(*                                                                         *)
(* A string is a sequence of tokens: "C" a note, "&" a rest, "V" a volume, *)
(* "W" an envelope or its end, "(" and ")", "H", and "o" for those that    *)
(* change nothing here (octave, length, tempo, comments).  Time is whether *)
(* a channel still waits for its last note.                                *)
(***************************************************************************)
EXTENDS Integers, Sequences, FiniteSets, SequencesExt

CONSTANTS
  Voices,                \* 3
  MAX_PLAY_LOOP_DEPTH

ASSUME TuneBounds == Voices \in Nat \ {0} /\ MAX_PLAY_LOOP_DEPTH \in Nat

Channels == 1..Voices
Tokens == {"C", "&", "V", "W", "(", ")", "H", "o"}
Forever == -1

\* PlayChannelState: current_index counts from 1 here.
Channel(s) == [str |-> s, idx |-> 1, loops |-> <<>>, wait |-> FALSE]

AtEnd(ch) == ch.idx > Len(ch.str)
Finished(ch) == AtEnd(ch) /\ ch.loops = <<>>
Skipped(ch) == [ch EXCEPT !.idx = @ + 1]

MLoopEnd(ch) ==
  LET top == Last(ch.loops) IN
  IF top.left >= 0 THEN [ch EXCEPT !.idx = top.start, !.loops = Append(Front(@), [top EXCEPT !.left = @ - 1])]
  ELSE [ch EXCEPT !.loops = Front(@)]

\* The end of a section, at its ")" or at the end of the string: again, or out
\* of it.
LoopEnd(ch) ==
  LET top == Last(ch.loops) IN
  IF top.left = Forever THEN [ch EXCEPT !.idx = top.start]
  ELSE IF top.left > 0
  THEN [ch EXCEPT !.idx = top.start, !.loops = Append(Front(@), [top EXCEPT !.left = @ - 1])]
  ELSE [ch EXCEPT !.loops = Front(@)]

\* A "(" too many: what it encloses is not played, up to the next ")".
AfterClose(ch) ==
  LET closes == {i \in ch.idx..Len(ch.str) : ch.str[i] = ")"}
      end    == CHOOSE i \in closes \cup {Len(ch.str)} : \A j \in closes : i <= j
  IN  [ch EXCEPT !.idx = end + 1]

LoopBegin(ch) ==
  IF Len(ch.loops) >= MAX_PLAY_LOOP_DEPTH THEN AfterClose(ch)
  ELSE [Skipped(ch) EXCEPT !.loops = Append(@, [start |-> ch.idx + 1, left |-> 1])]

\* ")" without "(": from the start, for ever.
FromStart(ch) == [ch EXCEPT !.idx = 1, !.loops = <<[start |-> 1, left |-> Forever]>>]

\* More tokens than a string gives before it ends or repeats itself: each once
\* for every way in which the sections around it are in their second round.
Enough(ch) == Cardinality(SUBSET (0..MAX_PLAY_LOOP_DEPTH)) * (Len(ch.str) + 1)

\* F(x) is written Only({F(y) : y \in {x}}) where x is long to evaluate.
Only(S) == CHOOSE x \in S : TRUE

\* A note or a rest: its time begins.
Sounding(ch) == [Skipped(ch) EXCEPT !.wait = TRUE]

\* The settings that write the channel's amplitude at once.
Loudness == {"V", "W"}

\* One token, or the end of a section, for s = [ch, v, out]; v is the channel's
\* amplitude, out what ends the event, "go" while nothing has.
Token(s) ==
  LET ch  == s.ch
      tok == ch.str[ch.idx]
      Go(c)      == [s EXCEPT !.ch = c]
      Out(c, o)  == [s EXCEPT !.ch = c, !.out = o]
      Note(w)    == [ch |-> Sounding(ch), v |-> w, out |-> "note"]
  IN  CASE s.out # "go"                         -> s
        [] s.out = "go" /\ Finished(ch)          -> Out(ch, "end")
        [] s.out = "go" /\ AtEnd(ch) /\ ~Finished(ch) -> Go(LoopEnd(ch))
        [] s.out = "go" /\ ~AtEnd(ch) ->
           CASE tok = "C" -> Note("play")
             [] tok = "&" -> Note("off")
             [] tok = "H" -> Out(Skipped(ch), "halt")
             [] tok \in Loudness -> [Go(Skipped(ch)) EXCEPT !.v = "play"]
             [] tok = "(" -> Go(LoopBegin(ch))
             [] tok = ")" /\ ch.loops # <<>> -> Go(LoopEnd(Skipped(ch)))
             [] tok = ")" /\ ch.loops = <<>> ->
                  IF MAX_PLAY_LOOP_DEPTH <= 1 THEN Out(FromStart(ch), "end") ELSE Go(FromStart(ch))
             [] tok = "o" -> Go(Skipped(ch))

\* Token after token, from a channel with the amplitude v.
Run(ch, v) ==
  LET after[n \in 0..Enough(ch)] ==
        IF n = 0 THEN [ch |-> ch, v |-> v, out |-> "go"]
        ELSE Only({Token(s) : s \in {after[n - 1]}})
  IN  after

\* process_channel_event: up to a note, a rest, an H or the end; "held" when the
\* tokens never bring it there.
Ended(s) == IF s.out = "go" THEN [s EXCEPT !.out = "held"] ELSE s
Event(ch, v) == Only({Ended(s) : s \in {Run(ch, v)[Enough(ch)]}})

-----------------------------------------------------------------------------
(* play_parser_update, on s = [ch, amp, playing, heard, held].              *)

Silent == [c \in Channels |-> "off"]

AfterEvent(s, c, e) ==
  CASE e.out = "note" -> [s EXCEPT !.ch[c] = e.ch, !.amp[c] = e.v,
                                   !.heard[c] = Append(@, e.ch.idx - 1)]
    [] e.out = "held" -> [s EXCEPT !.held = TRUE]
    [] e.out = "end"  -> [s EXCEPT !.ch[c] = e.ch, !.amp[c] = "off"]
    [] e.out = "halt" -> [s EXCEPT !.ch[c] = e.ch, !.amp = Silent, !.playing = FALSE]

DoChannel(s, c) ==
  IF s.held \/ s.ch[c].wait THEN s
  ELSE IF Finished(s.ch[c]) THEN [s EXCEPT !.amp[c] = "off"]
  ELSE Only({AfterEvent(s, c, e) : e \in {Event(s.ch[c], s.amp[c])}})

Active(s) == \E c \in Channels : s.ch[c].wait \/ ~Finished(s.ch[c])

\* play_parser_stop: every channel of the AY, whoever wrote it.
Stopped(s) == [s EXCEPT !.playing = FALSE, !.amp = Silent]

\* The channels in order, and then what is left of the tune.
InOrder(s) ==
  LET upto[c \in 0..Voices] ==
        IF c = 0 THEN s ELSE Only({DoChannel(e, c) : e \in {upto[c - 1]}})
  IN  upto
Over(s) == IF ~s.held /\ ~Active(s) THEN Stopped(s) ELSE s
Updated(s) == Only({Over(e) : e \in {InOrder(s)[Voices]}})

-----------------------------------------------------------------------------
(* What a string means, by the manual: a section is played twice, one that *)
(* is not closed up to the end of the string; a ")" that closes nothing is *)
(* from the start, for ever.                                               *)

Count(t, i, tok) == Cardinality({k \in 1..i : t[k] = tok})
Nesting(t, i) == Count(t, i, "(") - Count(t, i, ")")
Least(S, default) == CHOOSE i \in S \cup {default} : \A j \in S : i <= j

\* Where what is before i is closed, or the end.
CloseOf(t, i) == Least({j \in i..Len(t) : Nesting(t, j) < Nesting(t, i - 1)}, Len(t) + 1)

Meaning(t, from, to) ==
  LET notes[i \in Nat, j \in Nat] ==
        IF i >= j THEN <<>>
        ELSE IF t[i] = "("
        THEN LET m == Least({CloseOf(t, i + 1)}, j)
                 body == notes[i + 1, m]
             IN  body \o body \o notes[m + 1, j]
        ELSE (IF t[i] \in {"C", "&", "H"} THEN <<i>> ELSE <<>>) \o notes[i + 1, j]
  IN  notes[from, to]

Body(t) == Meaning(t, 1, CloseOf(t, 1))
Endless(t) == CloseOf(t, 1) <= Len(t)
Halts(t, s) == {k \in 1..Len(s) : t[s[k]] = "H"}
UpToH(t, s) == SubSeq(s, 1, Least(Halts(t, s), Len(s) + 1) - 1)
\* The section for ever takes a place of the stack.
Fits(t) == \A i \in 1..Len(t) :
             Nesting(t, i) <= MAX_PLAY_LOOP_DEPTH - (IF Endless(t) THEN 1 ELSE 0)

\* s is played as t says, up to now, or to the end.
PlayedSo(t, s) ==
  LET b == Body(t) IN
  IF Endless(t) /\ Halts(t, b) = {}
  THEN \A k \in DOMAIN s : b # <<>> /\ s[k] = b[((k - 1) % Len(b)) + 1]
  ELSE IsPrefix(s, UpToH(t, b))
PlayedToEnd(t, s) == ~(Endless(t) /\ Halts(t, Body(t)) = {}) /\ s = UpToH(t, Body(t))
==============================================================================
