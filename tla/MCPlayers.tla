------------------------------ MODULE MCPlayers ------------------------------
(* Small instance of Players: in one voice every string of up to two notes, *)
(* "(" and ")" and some longer ones, and some songs in two.                 *)
EXTENDS Players

Short == UNION {[1..n -> {"C", "(", ")"}] : n \in 0..2}
Nested == {<<"(", "C", ")", "C">>, <<"(", "C", "(", "C">>, <<"(", "(", "C", ")">>,
           <<"(", "(", "(", "C">>, <<"C", ")", "C">>}
Two == {<<<<"(", "V", "C">>, <<"C", "&">>>>, <<<<"C">>, <<"(", "C", "H">>>>,
        <<<<"o", "C", "H", "C">>, <<"W">>>>, <<<<"C", "H">>, <<"C", "C">>>>}
SongSet == {<<s, <<>>>> : s \in Short \cup Nested} \cup Two
GarbledSet == {<<<<"C">>, <<>>>>, <<<<"(", "V", "C">>, <<"C", "H">>>>}

\* Longer than both buffers, shorter than one, not PCM, and not there.
WavSet == {[size |-> 5, good |-> TRUE], [size |-> 1, good |-> TRUE],
           [size |-> 3, good |-> FALSE], [size |-> 0, good |-> FALSE]}
VgmSet == {<<"on", "wait", "off">>, <<"on", "other", "cut">>}
ProgramSet ==
  {<< <<"LD", 0, 2>>, <<"LDR", 1, 15>>, <<"WAIT">>, <<"DJNZ", 0, 6>>, <<"LDR", 1, 0>>, <<"HALT">> >>,
   << <<"LD", 0, 14>>, <<"ADD", 0, 5>>, <<"VAR", "ADC", 0, 1>>, <<"JR", 1>>, <<"HALT">>,
      <<"DJNZ", 0, 7>>, <<"HALT">> >>}

\* Two entries that begin alike, a number, and the other table; bytes with and
\* without an end of their own.
TextSet == {<<Ch("Z"), Ch("A")>>, <<<<"#", 40>>, Ch("?"), Ch("/"), Ch("P"), Ch("P")>>, <<>>}
StringSet == {<<"PP", END>>, <<"PP">>}
StackSet == {<<>>, <<"ZZ">>}

\* A number is heard as what it is, 0 as nothing.
ASSUME NumbersTold ==
  \A n \in 1..1200 \cup {19999, 20001, 100000, 101010, 999999, 1000000, 2003004, 999999999} :
    Heard(Number(n)) = n
==============================================================================
