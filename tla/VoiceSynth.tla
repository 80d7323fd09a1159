------------------------------ MODULE VoiceSynth ------------------------------
(***************************************************************************)
(* voice_synthesizer.cpp: a text is turned into allophones, and the timer  *)
(* interrupt plays them one after the other.                               *)
(*                                                                         *)
(* A text is a sequence of <<character, 0>> and <<"#", n>>, a number.  Of  *)
(* the tables there are a few entries; a word of a number, with the pause  *)
(* before it, is one item here, and an item some samples.                  *)
(***************************************************************************)
EXTENDS Integers, Sequences, SequencesExt

CONSTANTS
  Texts,
  Strings,         \* what cmd_binary_say is given: sequences of items and END
  StackBytes,      \* what may be on the stack after it
  Samples          \* of an item

VARIABLE voice     \* [step, due, seq, idx, id, data, playing, fg, said, alone]; due: what
                   \* is to be said, fg: the command waits, said: the items given to the
                   \* mixer, alone: nothing was being said when it began

-----------------------------------------------------------------------------
(* Numbers.                                                                *)

Numero == <<"one", "two", "three", "four", "five", "six", "seven", "eight", "nine", "ten",
            "eleven", "twelve", "thirteen", "fourteen", "fifteen", "sixteen", "seventeen",
            "eighteen", "nineteen">>
Decenas == <<"twenty", "thirty", "forty", "fifty", "sixty", "seventy", "eighty", "ninety">>
Scales == {"hundred", "thousand", "million", "and"}

Unidad(v) == IF v = 0 THEN <<>> ELSE <<Numero[v]>>
DecenaYUnidad(v) ==
  IF v % 100 < 20 THEN Unidad(v % 100)
  ELSE <<Decenas[((v % 100) \div 10) - 1]>> \o Unidad(v % 10)
Centena(v) == IF v = 0 THEN <<>> ELSE Unidad(v) \o <<"hundred">>
SndAnd(v) == IF v >= 100 /\ v % 100 # 0 THEN <<"and">> ELSE <<>>
UnderThousand(v) == Centena((v % 1000) \div 100) \o SndAnd(v) \o DecenaYUnidad(v)

\* procesa_millar and procesa_millon, of less than 1000.
Scaled(v, scale) == IF v = 0 THEN <<>> ELSE UnderThousand(v) \o <<scale>>
Lower(v) == Scaled((v % 1000000000) \div 1000000, "million") \o Scaled((v % 1000000) \div 1000, "thousand")
            \o UnderThousand(v)
\* procesa_billon says "million" too; of less than 10^9 its own call says nothing.
Billon(v) == IF v = 0 THEN <<>> ELSE Lower(v) \o <<"million">>
Number(n) == Billon(n \div 1000000000) \o Lower(n)

-----------------------------------------------------------------------------
(* Text.                                                                   *)

Ch(c) == <<c, 0>>
\* alof and words, in the order in which they are tried.
Alof == <<[text |-> <<Ch("P"), Ch("P")>>, say |-> <<"PP">>]>>
Words == <<[text |-> <<Ch("Z"), Ch("A")>>, say |-> <<"ZZ", "AE">>],
           [text |-> <<Ch("A")>>, say |-> <<"EY">>],
           [text |-> <<Ch("Z")>>, say |-> <<"ZZ", "IY">>]>>
Items == {"PA1", "PP", "EY", "ZZ", "AE", "IY"} \cup ToSet(Numero) \cup ToSet(Decenas) \cup Scales
END == "0xff"
NoItem == "none"

The(S) == CHOOSE x \in S : TRUE

\* text_to_speech, once round, on s = [i, alof, out].
Convert(text, s) ==
  LET table == IF s.alof THEN Alof ELSE Words
      fits  == {k \in DOMAIN table : IsPrefix(table[k].text, SubSeq(text, s.i, Len(text)))}
      first == table[CHOOSE k \in fits : \A j \in fits : k <= j]
      Goes(n, say) == [i |-> s.i + n, alof |-> s.alof, out |-> s.out \o say]
  IN  CASE s.i > Len(text)                       -> s
        [] s.i <= Len(text) /\ text[s.i] = Ch("/") -> [i |-> s.i + 1, alof |-> ~s.alof, out |-> s.out]
        [] s.i <= Len(text) /\ text[s.i][1] = "#" /\ ~s.alof -> Goes(1, Number(text[s.i][2]))
        [] OTHER -> IF fits # {} THEN Goes(Len(first.text), first.say) ELSE Goes(1, <<>>)

Spelled(text) ==
  LET after[n \in 0..Len(text)] ==
        IF n = 0 THEN [i |-> 1, alof |-> FALSE, out |-> <<>>]
        ELSE The({Convert(text, s) : s \in {after[n - 1]}})
  IN  The({s.out : s \in {after[Len(text)]}})

-----------------------------------------------------------------------------
(* Playing.                                                                *)

VoiceInit ==
  voice = [step |-> "none", due |-> <<END>>, seq |-> <<>>, idx |-> 1, id |-> NoItem, data |-> 0,
           playing |-> FALSE, fg |-> FALSE, said |-> <<>>, alone |-> TRUE]

\* voice_synthesizer_stop.
Ceased(v) == [v EXCEPT !.playing = FALSE, !.seq = <<>>, !.idx = 1, !.data = 0, !.id = NoItem]

\* get_next_alophone_id; beyond the end of the string is what is on the stack.
Read(v) ==
  IF v.seq = <<>> THEN {END}
  ELSE IF v.idx \in DOMAIN v.seq THEN {v.seq[v.idx]} ELSE Items \cup {END}

\* load_next_alophone.
MNextAlophone(v, x) ==
  IF x = END THEN Ceased(v) ELSE [v EXCEPT !.idx = @ + 2, !.id = x, !.data = 0]
NextAlophone(v, x) ==
  IF x = END THEN Ceased(v) ELSE [v EXCEPT !.idx = @ + 1, !.id = x, !.data = 0]

\* Speech: of an empty string, the end of what is being said.
Speak(due, seq, fg) ==
  LET v == [voice EXCEPT !.due = due, !.seq = seq, !.fg = fg, !.said = <<>>, !.alone = ~voice.playing]
  IN  voice' = IF due[1] = END THEN Ceased(v) ELSE [v EXCEPT !.step = "sequence"]

\* text_to_speech writes over the string that is being said, as far as it goes.
Converted(text) == Append(Spelled(text), END)
SpeakText(text, fg) ==
  IF voice.seq = <<>> THEN Speak(Converted(text), <<>>, fg)
  ELSE \E s \in {Converted(text) \o SubSeq(voice.seq, Len(Converted(text)) + 1, Len(voice.seq))} :
         Speak(s, s, fg)

\* cmd_binary_say ends what it is given with two zeros, which are an allophone.
SpeakBytes ==
  \E str \in Strings, after \in StackBytes :
    Speak(str \o <<"PA1", "PA1">> \o Append(after, END), voice.seq, TRUE)

\* What is left of Speech; the interrupt may come before each step.
SpeechGoesOn ==
  \/ voice.step = "sequence" /\ voice' = [voice EXCEPT !.seq = voice.due, !.step = "index"]
  \/ voice.step = "index" /\ voice' = [voice EXCEPT !.idx = 1, !.step = "playing"]
  \/ voice.step = "playing" /\ voice' = [voice EXCEPT !.playing = TRUE, !.step = "load"]
  \/ /\ voice.step = "load"
     /\ \E x \in Read(voice) : voice' = [NextAlophone(voice, x) EXCEPT !.step = "none"]

\* A sample is given to the mixer; the last one completes an item.
Sampled(v) ==
  [v EXCEPT !.data = @ + 1, !.said = IF v.data + 1 = Samples THEN Append(@, v.id) ELSE @]

\* voice_synthesizer_get_sample, one time in four.
VoiceSample ==
  /\ voice.playing /\ voice.id # NoItem
  /\ \/ voice.data < Samples /\ voice' = Sampled(voice)
     \/ /\ voice.data >= Samples
        /\ \E x \in Read(voice) :
             voice' = IF x = END THEN NextAlophone(voice, x) ELSE Sampled(NextAlophone(voice, x))

Waiting == voice.fg /\ voice.playing

ASSUME VoiceBounds ==
  /\ Samples \in Nat \ {0}
  /\ \A t \in Texts : t \in Seq(STRING \X Nat)
  /\ Strings \subseteq Seq(Items \cup {END}) /\ StackBytes \subseteq Seq(Items \cup {END})

-----------------------------------------------------------------------------
(* What it promises.                                                       *)

\* What is begun in silence is said whole: every item once and in order up to
\* the end of the string, however the interrupt falls between the steps of
\* Speech and whatever the commands that follow do; what is begun over something
\* else may lose its beginning, or be lost (Speech, load_next_alophone).
SpokenWhole ==
  voice.alone =>
    /\ \A i \in 1..Len(voice.said) : voice.said[i] = voice.due[i]
    /\ voice.step = "none" /\ ~voice.playing => voice.due[Len(voice.said) + 1] = END

\* What a listener makes of the words of a number.
Heard(words) ==
  LET val(w) == IF w \in ToSet(Numero) THEN CHOOSE k \in DOMAIN Numero : Numero[k] = w
                ELSE IF w \in ToSet(Decenas) THEN 10 * (1 + CHOOSE k \in DOMAIN Decenas : Decenas[k] = w)
                ELSE 0
      Adds(s, w) == CASE w = "hundred"  -> [s EXCEPT !.part = 100 * @]
                      [] w = "thousand" -> [all |-> s.all + 1000 * s.part, part |-> 0]
                      [] w = "million"  -> [all |-> s.all + 1000000 * s.part, part |-> 0]
                      [] OTHER          -> [s EXCEPT !.part = @ + val(w)]
      sum == FoldLeft(Adds, [all |-> 0, part |-> 0], words)
  IN  sum.all + sum.part
==============================================================================
