----------------------------- MODULE PlayersProof -----------------------------
(***************************************************************************)
(* A note never outlives its player, and what is begun in silence is said  *)
(* whole: proof for every song, file, program, text and number of voices.  *)
(*                                                                         *)
(* The amplitudes say who gave them.  What makes Silence inductive is what *)
(* a token can do: a note is somebody's, a rest nobody's, and only an H,   *)
(* in the string of the voice that is played, ends the tune before the     *)
(* last voice, with every amplitude off.                                   *)
(*                                                                         *)
(* What makes SpokenWhole inductive is where the index is at each step of  *)
(* Speech, and that the interrupt does nothing until there is an item.     *)
(***************************************************************************)
EXTENDS Players, FiniteSetTheorems, SequenceTheorems, WellFoundedInduction, TLAPS

Who == {"play", "vgm", "peg", "z80", "snapshot", "off"}

\* Where a string may be at.
Levels == [start : Nat \ {0}, left : Int]
Places(t) == [str : {t}, idx : Nat \ {0}, loops : Seq(Levels), wait : BOOLEAN]

\* What its tokens may have come to.
Ways(t) ==
  {s \in [ch : Places(t), v : Who, out : {"go", "note", "halt", "end", "held"}] :
     /\ s.out = "note" => s.v \in {"play", "off"}
     /\ s.out = "halt" => Contains(t, "H")}

\* A string before the voice's has an H.
HaltedBy(song, c) == \E h \in 1..c : Contains(song[h], "H")

\* The tune of song within play_parser_update, with the voices up to c played;
\* on: the amplitudes of a VGM.
Within(song, on) ==
  {s \in [ch : [Channels -> UNION {Places(song[c]) : c \in Channels}], amp : [Channels -> Who],
          playing : BOOLEAN, heard : [Channels -> Seq(Nat)], held : BOOLEAN] :
     /\ \A c \in Channels : s.ch[c] \in Places(song[c])
     /\ \A c \in Channels : s.amp[c] = "vgm" => c \in on}
Halted(s, song, c) ==
  ~s.playing =>
    /\ HaltedBy(song, c)
    /\ \A h \in Channels : s.amp[h] = "play" => HaltedBy(song, h - 1)

Tunes(song) ==
  {x \in [ch : [Channels -> UNION {Places(song[c]) : c \in Channels}], playing : BOOLEAN,
          heard : [Channels -> Seq(Nat)], fg : BOOLEAN, own : BOOLEAN, kept : BOOLEAN, song : {song},
          held : BOOLEAN] :
     \A c \in Channels : x.ch[c] \in Places(song[c])}
TuneRight == tune.song \in [Channels -> Seq(Tokens)] /\ tune \in Tunes(tune.song)
VgmStates ==
  [file : VgmFiles \cup {NoFile}, pos : Nat \ {0}, playing : BOOLEAN, mode : {0, 1}, retries : Nat,
   due : BOOLEAN, open : BOOLEAN]
VgmRight == vgm \in VgmStates
SnapRight ==
  snap.vgm \in VgmFiles \cup {NoFile} /\ snap.mode \in {0, 1} /\ snap.pos \in Nat \ {0}

PlayersInv ==
  /\ TuneRight /\ VgmRight /\ SnapRight
  /\ amp \in [Channels -> Who]
  /\ Silence

-----------------------------------------------------------------------------
(* Numbers, and functions by recursion over them.                          *)

LEMMA LeastOf ==
  ASSUME NEW T, T \subseteq Nat, T # {}
  PROVE  \E x \in T : \A y \in T : x <= y
<1> DEFINE R == {ss \in Nat \X Nat : ss[1] < ss[2]}
<1>1. IsWellFoundedOn(R, Nat)
  BY NatLessThanWellFounded DEF OpToRel
<1>2. \A x \in Nat, y \in Nat : x < y => <<x, y>> \in R
  OBVIOUS
<1> HIDE DEF R
<1>3. \E x \in T : \A y \in T : <<y, x>> \notin R
  BY <1>1, WFMin
<1>4. PICK x \in T : \A y \in T : <<y, x>> \notin R
  BY <1>3
<1>5. ASSUME NEW y \in T PROVE x <= y
  <2>1. x \in Nat /\ y \in Nat /\ ~(y < x)
    BY <1>2, <1>4
  <2> QED
    BY <2>1
<1> QED
  BY <1>5

LEMMA Induction ==
  ASSUME NEW A, 0 \in A, \A n \in Nat : n \in A => n + 1 \in A
  PROVE  Nat \subseteq A
<1> SUFFICES ASSUME Nat \ A # {} PROVE FALSE
  OBVIOUS
<1>1. PICK x \in Nat \ A : \A y \in Nat \ A : x <= y
  BY LeastOf
<1>2. x # 0 /\ x - 1 \in Nat /\ x - 1 \in A
  BY <1>1
<1> QED
  BY <1>1, <1>2

LEMMA UpTo ==
  ASSUME NEW A, NEW N \in Nat, 0 \in A, \A n \in 1..N : n - 1 \in A => n \in A
  PROVE  N \in A
<1> DEFINE B == {n \in Nat : n <= N => n \in A}
<1>1. 0 \in B
  OBVIOUS
<1>2. ASSUME NEW n \in Nat, n \in B PROVE n + 1 \in B
  <2>1. n + 1 <= N => n + 1 \in 1..N /\ (n + 1) - 1 = n
    OBVIOUS
  <2> QED
    BY <1>2, <2>1
<1>3. Nat \subseteq B
  <2> HIDE DEF B
  <2> QED
    BY <1>1, <1>2, Induction
<1> QED
  BY <1>3

\* F, from x, up to N times.
Steps(x, F, N, g) ==
  /\ DOMAIN g = 0..N /\ g[0] = x
  /\ \A n \in 1..N : g[n] = F[<<n, g[n - 1]>>]

LEMMA StepsExist ==
  ASSUME NEW S, NEW x \in S, NEW N \in Nat, NEW F \in [(1..N) \X S -> S]
  PROVE  \E g \in [0..N -> S] : Steps(x, F, N, g)
<1> DEFINE A == {n \in Nat : n <= N => \E g \in [0..n -> S] : Steps(x, F, n, g)}
<1>1. 0 \in A
  <2>1. [i \in 0..0 |-> x] \in [0..0 -> S] /\ Steps(x, F, 0, [i \in 0..0 |-> x])
    BY DEF Steps
  <2> QED
    BY <2>1
<1>2. ASSUME NEW n \in Nat, n \in A PROVE n + 1 \in A
  <2> SUFFICES ASSUME n + 1 <= N PROVE \E g \in [0..(n + 1) -> S] : Steps(x, F, n + 1, g)
    OBVIOUS
  <2>1. PICK g \in [0..n -> S] : Steps(x, F, n, g)
    BY <1>2
  <2> DEFINE h == [i \in 0..(n + 1) |-> IF i = n + 1 THEN F[<<n + 1, g[n]>>] ELSE g[i]]
  <2>2. F[<<n + 1, g[n]>>] \in S
    BY <2>1
  <2>3. h \in [0..(n + 1) -> S]
    BY <2>1, <2>2
  <2>4. Steps(x, F, n + 1, h)
    <3>1. DOMAIN h = 0..(n + 1) /\ h[0] = x
      BY <2>1 DEF Steps
    <3>2. ASSUME NEW i \in 1..(n + 1) PROVE h[i] = F[<<i, h[i - 1]>>]
      <4>1. CASE i = n + 1
        <5>1. h[n + 1] = F[<<n + 1, g[n]>>] /\ h[n] = g[n] /\ i - 1 = n
          BY <2>1, <4>1
        <5> QED
          BY <4>1, <5>1
      <4>2. CASE i # n + 1
        BY <2>1, <4>2 DEF Steps
      <4> QED
        BY <4>1, <4>2
    <3> HIDE DEF h
    <3> QED
      BY <3>1, <3>2 DEF Steps
  <2> QED
    BY <2>3, <2>4
<1>3. Nat \subseteq A
  <2> HIDE DEF A
  <2> QED
    BY <1>1, <1>2, Induction
<1> QED
  BY <1>3

LEMMA OnlyOne ==
  ASSUME NEW x
  PROVE  Only({x}) = x
BY DEF Only

-----------------------------------------------------------------------------
(* What a token does.                                                      *)

LEMMA PlaceParts ==
  ASSUME NEW t \in Seq(Tokens), NEW ch \in Places(t)
  PROVE  /\ ch.str = t /\ ch.idx \in Nat \ {0} /\ ch.loops \in Seq(Levels) /\ ch.wait \in BOOLEAN
         /\ Len(t) \in Nat /\ Len(ch.loops) \in Nat
         /\ ch.loops # <<>> => Last(ch.loops) \in Levels /\ Front(ch.loops) \in Seq(Levels)
<1>1. ch.str = t /\ ch.idx \in Nat \ {0} /\ ch.loops \in Seq(Levels) /\ ch.wait \in BOOLEAN
  BY DEF Places
<1>2. Len(t) \in Nat /\ Len(ch.loops) \in Nat
  BY <1>1, LenProperties
<1>3. ASSUME ch.loops # <<>> PROVE Last(ch.loops) \in Levels /\ Front(ch.loops) \in Seq(Levels)
  <2>1. Len(ch.loops) \in 1..Len(ch.loops)
    BY <1>1, <1>2, <1>3, EmptySeq
  <2> QED
    BY <1>1, <2>1, ElementOfSeq, SubSeqProperties DEF Last, Front
<1> QED
  BY <1>1, <1>2, <1>3

\* What is changed stays a place.
LEMMA PlaceChanged ==
  ASSUME NEW t \in Seq(Tokens), NEW ch \in Places(t)
  PROVE  /\ \A i \in Nat \ {0} : [ch EXCEPT !.idx = i] \in Places(t)
         /\ \A l \in Seq(Levels) : [ch EXCEPT !.loops = l] \in Places(t)
         /\ \A i \in Nat \ {0}, l \in Seq(Levels) : [ch EXCEPT !.idx = i, !.loops = l] \in Places(t)
         /\ [ch EXCEPT !.wait = TRUE] \in Places(t) /\ [ch EXCEPT !.wait = FALSE] \in Places(t)
BY DEF Places

LEMMA SkippedPlace ==
  ASSUME NEW t \in Seq(Tokens), NEW ch \in Places(t)
  PROVE  Skipped(ch) \in Places(t) /\ Skipped(ch).loops = ch.loops /\ Sounding(ch) \in Places(t)
<1>1. ch.idx + 1 \in Nat \ {0}
  BY PlaceParts
<1>2. Skipped(ch) \in Places(t)
  BY <1>1, PlaceChanged DEF Skipped
<1>3. Skipped(ch).loops = ch.loops
  BY DEF Skipped, Places
<1> QED
  BY <1>2, <1>3, PlaceChanged DEF Sounding

LEMMA LoopEndPlace ==
  ASSUME NEW t \in Seq(Tokens), NEW ch \in Places(t), ch.loops # <<>>
  PROVE  LoopEnd(ch) \in Places(t)
<1> DEFINE top == Last(ch.loops)
<1>1. /\ top \in Levels /\ Front(ch.loops) \in Seq(Levels)
  BY PlaceParts
<1>2. top.start \in Nat \ {0} /\ top.left \in Int /\ [top EXCEPT !.left = top.left - 1] \in Levels
  BY <1>1 DEF Levels
<1>3. Append(Front(ch.loops), [top EXCEPT !.left = top.left - 1]) \in Seq(Levels)
  BY <1>1, <1>2, AppendProperties
<1> HIDE DEF top
<1>4. /\ [ch EXCEPT !.idx = top.start] \in Places(t)
      /\ [ch EXCEPT !.idx = top.start, !.loops = Append(Front(ch.loops), [top EXCEPT !.left = top.left - 1])]
           \in Places(t)
      /\ [ch EXCEPT !.loops = Front(ch.loops)] \in Places(t)
  BY <1>1, <1>2, <1>3, PlaceChanged
<1> QED
  BY <1>4 DEF LoopEnd, top

LEMMA AfterClosePlace ==
  ASSUME NEW t \in Seq(Tokens), NEW ch \in Places(t)
  PROVE  AfterClose(ch) \in Places(t)
<1> DEFINE closes == {i \in ch.idx..Len(ch.str) : ch.str[i] = ")"}
           end    == CHOOSE i \in closes \cup {Len(ch.str)} : \A j \in closes : i <= j
<1>1. closes \subseteq Nat /\ Len(ch.str) \in Nat
  <2>1. ch.idx \in Nat /\ Len(ch.str) \in Nat
    BY PlaceParts
  <2> QED
    BY <2>1
<1>2. \E i \in closes \cup {Len(ch.str)} : \A j \in closes : i <= j
  <2>1. CASE closes = {}
    BY <2>1
  <2>2. CASE closes # {}
    <3> HIDE DEF closes
    <3> QED
      BY <1>1, <2>2, LeastOf
  <2> QED
    BY <2>1, <2>2
<1>3. end \in closes \cup {Len(ch.str)}
  <2> HIDE DEF closes
  <2> QED
    BY <1>2
<1>4. end + 1 \in Nat \ {0}
  <2> HIDE DEF closes, end
  <2> QED
    BY <1>1, <1>3
<1>5. AfterClose(ch) = [ch EXCEPT !.idx = end + 1]
  BY DEF AfterClose
<1> HIDE DEF end
<1> QED
  BY <1>4, <1>5, PlaceChanged

LEMMA LoopBeginPlace ==
  ASSUME NEW t \in Seq(Tokens), NEW ch \in Places(t)
  PROVE  LoopBegin(ch) \in Places(t)
<1>1. ch.idx + 1 \in Nat \ {0} /\ [start |-> ch.idx + 1, left |-> 1] \in Levels /\ ch.loops \in Seq(Levels)
  <2>1. ch.idx \in Nat /\ ch.loops \in Seq(Levels)
    BY PlaceParts
  <2> QED
    BY <2>1 DEF Levels
<1>2. Append(ch.loops, [start |-> ch.idx + 1, left |-> 1]) \in Seq(Levels)
  BY <1>1, AppendProperties
<1>3. [Skipped(ch) EXCEPT !.loops = Append(ch.loops, [start |-> ch.idx + 1, left |-> 1])] \in Places(t)
  BY <1>2, SkippedPlace, PlaceChanged
<1> QED
  BY <1>3, AfterClosePlace, SkippedPlace DEF LoopBegin

LEMMA FromStartPlace ==
  ASSUME NEW t \in Seq(Tokens), NEW ch \in Places(t)
  PROVE  FromStart(ch) \in Places(t)
<1>1. [start |-> 1, left |-> Forever] \in Levels
  BY DEF Levels, Forever
<1>2. <<[start |-> 1, left |-> Forever]>> \in Seq(Levels)
  BY <1>1
<1> DEFINE l == <<[start |-> 1, left |-> Forever]>>
           i == 1
<1>3. FromStart(ch) = [ch EXCEPT !.idx = i, !.loops = l] /\ i \in Nat \ {0} /\ l \in Seq(Levels)
  BY <1>2 DEF FromStart
<1> HIDE DEF i, l
<1>4. [ch EXCEPT !.idx = i, !.loops = l] \in Places(t)
  BY <1>3, PlaceChanged
<1> QED
  BY <1>3, <1>4

\* A note is play's and a rest nobody's; H is in the string.
LEMMA TokenWay ==
  ASSUME NEW t \in Seq(Tokens), NEW s \in Ways(t)
  PROVE  Token(s) \in Ways(t)
<1> DEFINE ch == s.ch
           tok == ch.str[ch.idx]
<1>1. /\ s.ch \in Places(t) /\ s.v \in Who /\ s.out \in {"go", "note", "halt", "end", "held"}
      /\ \A c \in Places(t) : s.out = "go" => [s EXCEPT !.ch = c] \in Ways(t)
      /\ \A c \in Places(t) : [s EXCEPT !.ch = c, !.out = "end"] \in Ways(t)
      /\ \A c \in Places(t) : Contains(t, "H") => [s EXCEPT !.ch = c, !.out = "halt"] \in Ways(t)
      /\ \A c \in Places(t) : s.out = "go" => [[s EXCEPT !.ch = c] EXCEPT !.v = "play"] \in Ways(t)
      /\ \A c \in Places(t), w \in {"play", "off"} : [ch |-> c, v |-> w, out |-> "note"] \in Ways(t)
  BY DEF Ways, Who
<1>2. CASE s.out # "go"
  BY <1>2 DEF Token
<1>3. CASE s.out = "go" /\ Finished(ch)
  <2>1. Token(s) = [s EXCEPT !.ch = ch, !.out = "end"]
    BY <1>3 DEF Token, Finished
  <2> QED
    BY <1>1, <2>1
<1>4. CASE s.out = "go" /\ AtEnd(ch) /\ ~Finished(ch)
  <2>1. Token(s) = [s EXCEPT !.ch = LoopEnd(ch)]
    BY <1>4 DEF Token
  <2>2. LoopEnd(ch) \in Places(t)
    BY <1>1, <1>4, LoopEndPlace DEF Finished
  <2> QED
    BY <1>1, <1>4, <2>1, <2>2
<1>5. CASE s.out = "go" /\ ~AtEnd(ch)
  <2>1. /\ ch.str = t /\ ch.idx \in 1..Len(t) /\ tok \in Tokens
    <3>1. ch.str = t /\ ch.idx \in Nat \ {0} /\ Len(t) \in Nat
      BY <1>1, PlaceParts
    <3>2. ch.idx \in 1..Len(t)
      BY <1>5, <3>1 DEF AtEnd
    <3> QED
      BY <3>1, <3>2, ElementOfSeq
  <2>2. ~Finished(ch)
    BY <1>5 DEF Finished
  <2>3. /\ Skipped(ch) \in Places(t) /\ Sounding(ch) \in Places(t) /\ Skipped(ch).loops = ch.loops
        /\ LoopBegin(ch) \in Places(t) /\ FromStart(ch) \in Places(t)
        /\ ch.loops # <<>> => LoopEnd(Skipped(ch)) \in Places(t)
    BY <1>1, SkippedPlace, LoopBeginPlace, FromStartPlace, LoopEndPlace
  <2>4. CASE tok = "C" \/ tok = "&"
    <3>1. Token(s) = [ch |-> Sounding(ch), v |-> IF tok = "C" THEN "play" ELSE "off", out |-> "note"]
      BY <1>5, <2>2, <2>4 DEF Token, Loudness
    <3> QED
      BY <1>1, <2>3, <3>1
  <2>5. CASE tok = "H"
    <3>1. Token(s) = [s EXCEPT !.ch = Skipped(ch), !.out = "halt"]
      BY <1>5, <2>2, <2>5 DEF Token, Loudness
    <3>2. Contains(t, "H")
      BY <2>1, <2>5 DEF Contains
    <3> QED
      BY <1>1, <2>3, <3>1, <3>2
  <2>6. CASE tok \in Loudness
    <3>1. Token(s) = [[s EXCEPT !.ch = Skipped(ch)] EXCEPT !.v = "play"]
      BY <1>5, <2>2, <2>6 DEF Token, Loudness
    <3> QED
      BY <1>1, <1>5, <2>3, <3>1
  <2>7. CASE tok = "(" \/ tok = "o"
    <3>1. Token(s) = [s EXCEPT !.ch = IF tok = "(" THEN LoopBegin(ch) ELSE Skipped(ch)]
      BY <1>5, <2>2, <2>7 DEF Token, Loudness
    <3> QED
      BY <1>1, <1>5, <2>3, <3>1
  <2>8. CASE tok = ")" /\ ch.loops # <<>>
    <3>1. Token(s) = [s EXCEPT !.ch = LoopEnd(Skipped(ch))]
      BY <1>5, <2>2, <2>8 DEF Token, Loudness
    <3> QED
      BY <1>1, <1>5, <2>3, <2>8, <3>1
  <2>9. CASE tok = ")" /\ ch.loops = <<>>
    <3>1. \/ Token(s) = [s EXCEPT !.ch = FromStart(ch), !.out = "end"]
          \/ Token(s) = [s EXCEPT !.ch = FromStart(ch)]
      BY <1>5, <2>2, <2>9 DEF Token, Loudness
    <3> QED
      BY <1>1, <1>5, <2>3, <3>1
  <2> QED
    BY <2>1, <2>4, <2>5, <2>6, <2>7, <2>8, <2>9 DEF Tokens, Loudness
<1> QED
  BY <1>1, <1>2, <1>3, <1>4, <1>5

\* Every token of an event, to its end.
LEMMA RunWays ==
  ASSUME NEW t \in Seq(Tokens), NEW ch \in Places(t), NEW v \in Who
  PROVE  Run(ch, v)[Enough(ch)] \in Ways(t)
<1> DEFINE N == Enough(ch)
           x == [ch |-> ch, v |-> v, out |-> "go"]
           F == [p \in (1..N) \X Ways(t) |-> Token(p[2])]
           Turn(f) == [n \in 0..N |-> IF n = 0 THEN x ELSE Only({Token(s) : s \in {f[n - 1]}})]
           g == Run(ch, v)
<1>1. N \in Nat /\ x \in Ways(t) /\ F \in [(1..N) \X Ways(t) -> Ways(t)]
  <2>1. Len(ch.str) \in Nat
    BY PlaceParts
  <2>2. N \in Nat
    <3>1. IsFiniteSet(0..MAX_PLAY_LOOP_DEPTH)
      BY FS_Interval, TuneBounds
    <3>2. IsFiniteSet(SUBSET (0..MAX_PLAY_LOOP_DEPTH))
      BY <3>1, FS_SUBSET
    <3>3. Cardinality(SUBSET (0..MAX_PLAY_LOOP_DEPTH)) \in Nat
      BY <3>2, FS_CardinalityType
    <3> QED
      BY <2>1, <3>3 DEF Enough
  <2>3. x \in Ways(t)
    BY DEF Ways
  <2> QED
    BY <2>2, <2>3, TokenWay
<1>2. PICK h \in [0..N -> Ways(t)] : Steps(x, F, N, h)
  <2> HIDE DEF N, x, F
  <2> QED
    BY <1>1, StepsExist
<1>3. h = Turn(h)
  <2>1. ASSUME NEW n \in 0..N PROVE h[n] = Turn(h)[n]
    <3>1. CASE n = 0
      BY <1>2, <3>1 DEF Steps
    <3>2. CASE n # 0
      <4>1. n \in 1..N /\ n - 1 \in 0..N
        BY <1>1, <3>2
      <4>2. h[n - 1] \in Ways(t) /\ h[n] = F[<<n, h[n - 1]>>]
        BY <1>2, <4>1 DEF Steps
      <4>3. h[n] = Token(h[n - 1])
        BY <4>1, <4>2
      <4>4. {Token(s) : s \in {h[n - 1]}} = {Token(h[n - 1])}
        OBVIOUS
      <4> QED
        BY <3>2, <4>3, <4>4, OnlyOne
    <3> QED
      BY <3>1, <3>2
  <2>2. DOMAIN h = 0..N /\ DOMAIN Turn(h) = 0..N
    BY <1>2
  <2> QED
    BY <1>2, <2>1
<1>4. g = CHOOSE f : f = Turn(f)
  BY DEF Run
<1>5. g = Turn(g)
  <2> HIDE DEF Turn, g
  <2> QED
    BY <1>3, <1>4
<1>6. g[0] \in Ways(t)
  BY <1>1, <1>5
<1>7. ASSUME NEW n \in 1..N, g[n - 1] \in Ways(t) PROVE g[n] \in Ways(t)
  <2>1. {Token(s) : s \in {g[n - 1]}} = {Token(g[n - 1])}
    OBVIOUS
  <2>2. Turn(g)[n] = Only({Token(s) : s \in {g[n - 1]}})
    BY <1>1
  <2> HIDE DEF Turn, g
  <2>3. g[n] = Token(g[n - 1])
    BY <1>5, <2>1, <2>2, OnlyOne
  <2> QED
    BY <1>7, <2>3, TokenWay
<1> HIDE DEF N, g
<1>8. g[N] \in Ways(t)
  <2> DEFINE A == {n \in 0..N : g[n] \in Ways(t)}
  <2>1. 0 \in A /\ \A n \in 1..N : n - 1 \in A => n \in A
    BY <1>1, <1>6, <1>7
  <2>2. N \in A
    <3> HIDE DEF A
    <3> QED
      BY <1>1, <2>1, UpTo
  <2> QED
    BY <2>2
<1> QED
  BY <1>8 DEF g, N

\* process_channel_event.
LEMMA EventWay ==
  ASSUME NEW t \in Seq(Tokens), NEW ch \in Places(t), NEW v \in Who
  PROVE  Event(ch, v) \in Ways(t) /\ Event(ch, v).out # "go"
<1> DEFINE r == Run(ch, v)[Enough(ch)]
<1>1. r \in Ways(t)
  BY RunWays
<1>2. Event(ch, v) = Ended(r)
  <2>1. {Ended(s) : s \in {r}} = {Ended(r)}
    OBVIOUS
  <2> HIDE DEF r
  <2>2. Only({Ended(s) : s \in {r}}) = Ended(r)
    BY <2>1, OnlyOne
  <2> QED
    BY <2>2 DEF Event, r
<1> HIDE DEF r
<1>3. Ended(r) \in Ways(t) /\ Ended(r).out # "go"
  BY <1>1 DEF Ended, Ways
<1> QED
  BY <1>2, <1>3

-----------------------------------------------------------------------------
(* What play_parser_update does, voice by voice.                           *)

LEMMA AfterEventWithin ==
  ASSUME NEW song \in [Channels -> Seq(Tokens)], NEW on, NEW s \in Within(song, on),
         NEW c \in Channels, NEW e \in Ways(song[c]), e.out # "go"
  PROVE  /\ AfterEvent(s, c, e) \in Within(song, on)
         /\ Halted(s, song, c - 1) => Halted(AfterEvent(s, c, e), song, c)
<1> DEFINE T == UNION {Places(song[h]) : h \in Channels}
<1>1. /\ s.ch \in [Channels -> T] /\ s.amp \in [Channels -> Who] /\ s.playing \in BOOLEAN
      /\ s.heard \in [Channels -> Seq(Nat)] /\ s.held \in BOOLEAN
      /\ \A h \in Channels : s.ch[h] \in Places(song[h]) /\ (s.amp[h] = "vgm" => h \in on)
      /\ s \in [ch : [Channels -> T], amp : [Channels -> Who], playing : BOOLEAN,
                heard : [Channels -> Seq(Nat)], held : BOOLEAN]
  BY DEF Within
<1>2. /\ e.ch \in Places(song[c]) /\ e.ch \in T /\ e.v \in Who
      /\ e.out \in {"note", "halt", "end", "held"}
      /\ e.out = "note" => e.v \in {"play", "off"}
      /\ e.out = "halt" => Contains(song[c], "H")
  BY DEF Ways
<1>3. c \in Nat \ {0} /\ 1..(c - 1) \subseteq 1..c /\ c \in 1..c
  BY TuneBounds DEF Channels
<1>4. HaltedBy(song, c - 1) => HaltedBy(song, c)
  BY <1>3 DEF HaltedBy
<1>5. CASE e.out = "note"
  <2> DEFINE r == AfterEvent(s, c, e)
  <2>1. Append(s.heard[c], e.ch.idx - 1) \in Seq(Nat)
    <3>1. e.ch.idx - 1 \in Nat
      BY <1>2, PlaceParts
    <3> QED
      BY <1>1, <3>1, AppendProperties
  <2>2. r = [s EXCEPT !.ch[c] = e.ch, !.amp[c] = e.v, !.heard[c] = Append(s.heard[c], e.ch.idx - 1)]
    BY <1>5 DEF AfterEvent
  <2>3. /\ r.ch = [s.ch EXCEPT ![c] = e.ch] /\ r.amp = [s.amp EXCEPT ![c] = e.v]
        /\ r.playing = s.playing /\ r.held = s.held
        /\ r.heard = [s.heard EXCEPT ![c] = Append(s.heard[c], e.ch.idx - 1)]
        /\ r = [ch |-> r.ch, amp |-> r.amp, playing |-> r.playing, heard |-> r.heard, held |-> r.held]
    BY <1>1, <2>2
  <2> HIDE DEF r, T
  <2>4. /\ r.ch \in [Channels -> T] /\ r.amp \in [Channels -> Who] /\ r.heard \in [Channels -> Seq(Nat)]
        /\ \A h \in Channels : r.ch[h] \in Places(song[h]) /\ (r.amp[h] = "vgm" => h \in on)
    BY <1>1, <1>2, <1>5, <2>1, <2>3
  <2>5. Halted(s, song, c - 1) => Halted(r, song, c)
    BY <1>1, <1>4, <2>3 DEF Halted
  <2>6. r \in Within(song, on)
    BY <1>1, <2>3, <2>4 DEF Within, T
  <2> QED
    BY <2>5, <2>6 DEF r
<1>6. CASE e.out = "held"
  <2>1. AfterEvent(s, c, e) = [s EXCEPT !.held = TRUE]
    BY <1>6 DEF AfterEvent
  <2>2. [s EXCEPT !.held = TRUE] \in Within(song, on)
    BY DEF Within
  <2>3. Halted(s, song, c - 1) => Halted([s EXCEPT !.held = TRUE], song, c)
    BY <1>1, <1>4 DEF Halted
  <2> QED
    BY <2>1, <2>2, <2>3
<1>7. CASE e.out = "end" \/ e.out = "halt"
  <2> DEFINE r == AfterEvent(s, c, e)
             on2 == IF e.out = "end" THEN [s.amp EXCEPT ![c] = "off"] ELSE Silent
             playing2 == IF e.out = "end" THEN s.playing ELSE FALSE
  <2>1. /\ r.ch = [s.ch EXCEPT ![c] = e.ch] /\ r.amp = on2 /\ r.playing = playing2
        /\ r.held = s.held /\ r.heard = s.heard
        /\ r = [ch |-> r.ch, amp |-> r.amp, playing |-> r.playing, heard |-> r.heard, held |-> r.held]
    <3>1. CASE e.out = "end"
      <4>1. r = [s EXCEPT !.ch[c] = e.ch, !.amp[c] = "off"]
        BY <3>1 DEF AfterEvent
      <4> QED
        BY <1>1, <3>1, <4>1
    <3>2. CASE e.out = "halt"
      <4>1. r = [s EXCEPT !.ch[c] = e.ch, !.amp = Silent, !.playing = FALSE]
        BY <3>2 DEF AfterEvent
      <4> QED
        BY <1>1, <3>2, <4>1
    <3> QED
      BY <1>7, <3>1, <3>2
  <2> HIDE DEF r, T
  <2>2. /\ r.amp \in [Channels -> Who] /\ \A h \in Channels : r.amp[h] \in {s.amp[h], "off"}
    BY <1>1, <2>1 DEF Silent, Who
  <2>3. /\ r.ch \in [Channels -> T]
        /\ \A h \in Channels : r.ch[h] \in Places(song[h]) /\ (r.amp[h] = "vgm" => h \in on)
    BY <1>1, <1>2, <2>1, <2>2
  <2>4. ASSUME Halted(s, song, c - 1) PROVE Halted(r, song, c)
    <3>1. CASE e.out = "end"
      BY <1>4, <2>1, <2>2, <2>4, <3>1 DEF Halted
    <3>2. CASE e.out = "halt"
      <4>1. HaltedBy(song, c)
        BY <1>2, <1>3, <3>2 DEF HaltedBy
      <4>2. \A h \in Channels : r.amp[h] = "off"
        BY <2>1, <3>2 DEF Silent
      <4> QED
        BY <4>1, <4>2 DEF Halted
    <3> QED
      BY <1>7, <3>1, <3>2
  <2>5. r \in Within(song, on)
    BY <1>1, <2>1, <2>2, <2>3 DEF Within, T
  <2> QED
    BY <2>4, <2>5 DEF r
<1> QED
  BY <1>2, <1>5, <1>6, <1>7

LEMMA DoChannelWithin ==
  ASSUME NEW song \in [Channels -> Seq(Tokens)], NEW on, NEW s \in Within(song, on), NEW c \in Channels
  PROVE  /\ DoChannel(s, c) \in Within(song, on)
         /\ Halted(s, song, c - 1) => Halted(DoChannel(s, c), song, c)
<1>1. HaltedBy(song, c - 1) => HaltedBy(song, c)
  <2>1. c \in Nat
    BY TuneBounds DEF Channels
  <2> QED
    BY <2>1 DEF HaltedBy
<1>2. song[c] \in Seq(Tokens) /\ s.ch[c] \in Places(song[c]) /\ s.amp[c] \in Who
  BY DEF Within
<1>3. CASE s.held \/ s.ch[c].wait
  BY <1>1, <1>3 DEF DoChannel, Halted
<1>4. CASE ~(s.held \/ s.ch[c].wait) /\ Finished(s.ch[c])
  <2> DEFINE r == [s EXCEPT !.amp[c] = "off"]
  <2>1. r \in Within(song, on)
    BY DEF Within, Who
  <2>2. r.playing = s.playing /\ \A h \in Channels : r.amp[h] = "play" => s.amp[h] = "play"
    BY DEF Within
  <2>3. DoChannel(s, c) = r
    BY <1>4 DEF DoChannel
  <2> HIDE DEF r
  <2> QED
    BY <1>1, <2>1, <2>2, <2>3 DEF Halted
<1>5. CASE ~(s.held \/ s.ch[c].wait) /\ ~Finished(s.ch[c])
  <2> DEFINE e == Event(s.ch[c], s.amp[c])
  <2>1. e \in Ways(song[c]) /\ e.out # "go"
    BY <1>2, EventWay
  <2>2. DoChannel(s, c) = Only({AfterEvent(s, c, x) : x \in {e}})
    BY <1>5 DEF DoChannel
  <2> HIDE DEF e
  <2>3. {AfterEvent(s, c, x) : x \in {e}} = {AfterEvent(s, c, e)}
    OBVIOUS
  <2>4. DoChannel(s, c) = AfterEvent(s, c, e)
    BY <2>2, <2>3, OnlyOne
  <2> QED
    BY <2>1, <2>4, AfterEventWithin
<1> QED
  BY <1>3, <1>4, <1>5

\* play_parser_update of a tune that is playing.
LEMMA UpdatedWithin ==
  ASSUME NEW song \in [Channels -> Seq(Tokens)], NEW on, NEW s \in Within(song, on), s.playing
  PROVE  /\ Updated(s) \in Within(song, on)
         /\ ~Updated(s).playing =>
              \A c \in Channels : Updated(s).amp[c] = "play" => HaltedBy(song, c - 1)
<1> DEFINE S == Within(song, on)
           F == [p \in (1..Voices) \X S |-> DoChannel(p[2], p[1])]
           Turn(f) == [c \in 0..Voices |-> IF c = 0 THEN s ELSE Only({DoChannel(e, c) : e \in {f[c - 1]}})]
           g == InOrder(s)
<1>1. Voices \in Nat /\ F \in [(1..Voices) \X S -> S]
  BY TuneBounds, DoChannelWithin DEF Channels
<1>2. PICK h \in [0..Voices -> S] : Steps(s, F, Voices, h)
  <2> HIDE DEF S, F
  <2>1. s \in S
    BY DEF S
  <2> QED
    BY <1>1, <2>1, StepsExist
<1>3. h = Turn(h)
  <2>1. ASSUME NEW n \in 0..Voices PROVE h[n] = Turn(h)[n]
    <3>1. CASE n = 0
      BY <1>2, <3>1 DEF Steps
    <3>2. CASE n # 0
      <4>1. n \in 1..Voices /\ n - 1 \in 0..Voices
        BY <1>1, <3>2
      <4>2. h[n - 1] \in S /\ h[n] = F[<<n, h[n - 1]>>]
        BY <1>2, <4>1 DEF Steps
      <4>3. h[n] = DoChannel(h[n - 1], n)
        BY <4>1, <4>2
      <4>4. {DoChannel(e, n) : e \in {h[n - 1]}} = {DoChannel(h[n - 1], n)}
        OBVIOUS
      <4> QED
        BY <3>2, <4>3, <4>4, OnlyOne
    <3> QED
      BY <3>1, <3>2
  <2>2. DOMAIN h = 0..Voices /\ DOMAIN Turn(h) = 0..Voices
    BY <1>2
  <2> QED
    BY <1>2, <2>1
<1>4. g = CHOOSE f : f = Turn(f)
  BY DEF InOrder
<1>5. g = Turn(g)
  <2> HIDE DEF Turn, g
  <2> QED
    BY <1>3, <1>4
<1>6. g[0] = s
  BY <1>1, <1>5
<1>7. ASSUME NEW n \in 1..Voices PROVE g[n] = DoChannel(g[n - 1], n)
  <2>1. {DoChannel(e, n) : e \in {g[n - 1]}} = {DoChannel(g[n - 1], n)}
    OBVIOUS
  <2>2. Turn(g)[n] = Only({DoChannel(e, n) : e \in {g[n - 1]}})
    BY <1>1
  <2> HIDE DEF Turn, g
  <2> QED
    BY <1>5, <2>1, <2>2, OnlyOne
<1> HIDE DEF g
<1>8. g[Voices] \in S /\ Halted(g[Voices], song, Voices)
  <2> DEFINE A == {n \in 0..Voices : g[n] \in S /\ Halted(g[n], song, n)}
  <2>1. 0 \in A
    BY <1>1, <1>6 DEF Halted
  <2>2. ASSUME NEW n \in 1..Voices, n - 1 \in A PROVE n \in A
    <3>1. n \in Channels /\ g[n - 1] \in Within(song, on) /\ Halted(g[n - 1], song, n - 1)
      BY <1>1, <2>2 DEF Channels
    <3> QED
      BY <1>1, <1>7, <3>1, DoChannelWithin
  <2>3. Voices \in A
    <3> HIDE DEF A
    <3> QED
      BY <1>1, <2>1, <2>2, UpTo
  <2> QED
    BY <2>3
<1> DEFINE e == g[Voices]
<1>9. Updated(s) = Over(e)
  <2>1. {Over(x) : x \in {e}} = {Over(e)}
    OBVIOUS
  <2>2. Updated(s) = Only({Over(x) : x \in {e}})
    BY DEF Updated, g
  <2> HIDE DEF e
  <2> QED
    BY <2>1, <2>2, OnlyOne
<1> HIDE DEF e
<1>10. e \in Within(song, on) /\ Halted(e, song, Voices)
  BY <1>8 DEF e
<1>11. /\ Stopped(e) \in Within(song, on)
       /\ \A c \in Channels : Stopped(e).amp[c] = "off"
  BY <1>10 DEF Stopped, Within, Silent, Who
<1> QED
  BY <1>9, <1>10, <1>11 DEF Over, Halted

-----------------------------------------------------------------------------
(* The invariant.                                                          *)

LEMMA Started ==
  ASSUME NEW song \in [Channels -> Seq(Tokens)], NEW fg \in BOOLEAN, NEW own \in BOOLEAN
  PROVE  Starting(song, fg, own) \in Tunes(song)
<1> DEFINE ch == [c \in Channels |-> Channel(song[c])]
           heard == [c \in Channels |-> <<>>]
<1>1. \A c \in Channels : Channel(song[c]) \in Places(song[c])
  BY EmptySeq DEF Channel, Places
<1>2. heard \in [Channels -> Seq(Nat)] /\ ch \in [Channels -> UNION {Places(song[c]) : c \in Channels}]
      /\ \A c \in Channels : ch[c] \in Places(song[c])
  BY <1>1, EmptySeq
<1>3. Starting(song, fg, own) = [ch |-> ch, playing |-> TRUE, heard |-> heard, fg |-> fg, own |-> own,
                                kept |-> TRUE, song |-> song, held |-> FALSE]
  BY DEF Starting
<1> HIDE DEF ch, heard
<1> QED
  BY <1>2, <1>3 DEF Tunes

LEMMA TuneIs ==
  ASSUME NEW song \in [Channels -> Seq(Tokens)], tune' \in Tunes(song)
  PROVE  TuneRight' /\ tune'.song = song
BY DEF TuneRight, Tunes

\* What may change in the state of a VGM: it goes on playing, or not.
GoesOn(x, y) == y \in VgmStates /\ (x.playing => y.playing)

LEMMA VgmChanges ==
  ASSUME NEW x \in VgmStates, NEW y
  PROVE  /\ \A p \in Nat \ {0} : y = [x EXCEPT !.pos = p] => GoesOn(x, y)
         /\ \A m \in {0, 1} : y = [x EXCEPT !.mode = m] => GoesOn(x, y)
         /\ \A r \in Nat : y = [x EXCEPT !.retries = r] => GoesOn(x, y)
         /\ \A due \in BOOLEAN : y = [x EXCEPT !.due = due] => GoesOn(x, y)
         /\ \A p \in Nat \ {0}, r \in Nat : y = [x EXCEPT !.pos = p, !.retries = r] => GoesOn(x, y)
BY DEF VgmStates, GoesOn

LEMMA VgmTurned ==
  ASSUME NEW x \in VgmStates, NEW y, NEW on \in BOOLEAN
  PROVE  /\ y = [x EXCEPT !.playing = on] => y \in VgmStates /\ (on => y.playing)
         /\ \A p \in Nat \ {0} : y = [x EXCEPT !.playing = on, !.pos = p] => y \in VgmStates
         /\ \A r \in Nat, open \in BOOLEAN :
              y = [x EXCEPT !.retries = r, !.open = open, !.playing = on] => y \in VgmStates
BY DEF VgmStates

LEMMA VgmOpens ==
  ASSUME NEW x \in VgmStates, NEW y, NEW f \in VgmFiles \cup {NoFile}, NEW p \in Nat \ {0},
         NEW open \in BOOLEAN, NEW r \in Nat, NEW due \in BOOLEAN,
         y = [x EXCEPT !.file = f, !.pos = p, !.open = open, !.retries = r, !.due = due]
  PROVE  GoesOn(x, y)
BY DEF VgmStates, GoesOn

LEMMA VgmParts ==
  ASSUME NEW x \in VgmStates
  PROVE  x.pos \in Nat \ {0} /\ x.retries \in Nat /\ x.playing \in BOOLEAN /\ GoesOn(x, x)
BY DEF VgmStates, GoesOn

LEMMA OpenedRight ==
  ASSUME VgmRight, NEW f \in VgmFiles \cup {NoFile}
  PROVE  GoesOn(vgm, Opened(f))
<1> DEFINE open == f # NoFile
           start == DataStart
           none == 0
           yes == TRUE
<1>1. open \in BOOLEAN /\ start \in Nat \ {0} /\ none \in Nat /\ yes \in BOOLEAN
  BY DEF DataStart
<1>2. Opened(f) = [vgm EXCEPT !.file = f, !.pos = start, !.open = open, !.retries = none, !.due = yes]
  BY DEF Opened
<1> HIDE DEF open, start, none, yes
<1> QED
  BY <1>1, <1>2, VgmOpens DEF VgmRight

\* At first every amplitude is off.
LEMMA InitRight == Init => PlayersInv
<1> SUFFICES ASSUME Init PROVE PlayersInv
  OBVIOUS
<1>1. TuneRight
  <2>1. NoTune \in [Channels -> Seq(Tokens)]
    BY EmptySeq DEF NoTune
  <2>2. tune = [Starting(NoTune, FALSE, TRUE) EXCEPT !.playing = FALSE]
    BY DEF Init
  <2>3. Starting(NoTune, FALSE, TRUE) \in Tunes(NoTune)
    BY <2>1, Started
  <2>4. tune \in Tunes(NoTune)
    BY <2>2, <2>3 DEF Tunes
  <2> QED
    BY <2>1, <2>4 DEF TuneRight, Tunes
<1>2. VgmRight
  BY DEF Init, VgmRight, VgmStates
<1>3. SnapRight
  BY DEF Init, NoSnap, SnapRight
<1>4. amp \in [Channels -> Who] /\ \A c \in Channels : amp[c] = "off"
  BY DEF Init, Silent, Who
<1> QED
  BY <1>1, <1>2, <1>3, <1>4 DEF PlayersInv, Silence

LEMMA VgmActions ==
  ASSUME PlayersInv, PlayVgm \/ PauseVgm \/ ContVgm \/ LoopVgm \/ VgmCommand \/ VgmDue
  PROVE  PlayersInv'
<1>1. UNCHANGED <<tune, snap>>
  BY DEF PlayVgm, PauseVgm, ContVgm, LoopVgm, VgmCommand, VgmDue, auVars
<1>2. VgmRight /\ amp \in [Channels -> Who] /\ Silence
  BY DEF PlayersInv
<1>3. TuneRight' /\ SnapRight'
  BY <1>1 DEF PlayersInv, TuneRight, SnapRight
<1>4. ASSUME VgmRight', amp' \in [Channels -> Who],
             \A c \in Channels : amp'[c] = "play" => amp[c] = "play",
             \A c \in Channels : amp'[c] = "vgm" => vgm'.playing
      PROVE  PlayersInv'
  BY <1>1, <1>2, <1>3, <1>4 DEF PlayersInv, Silence, HaltBefore
<1>5. CASE PlayVgm
  <2>1. PICK f \in VgmFiles \cup {NoFile}, serial \in BOOLEAN :
          vgm' = [Opened(f) EXCEPT !.playing = IF f # NoFile \/ serial THEN TRUE ELSE @]
    BY <1>5 DEF PlayVgm
  <2>2. GoesOn(vgm, Opened(f))
    BY <1>2, OpenedRight
  <2>3. GoesOn(vgm, vgm')
    <3> DEFINE x == Opened(f)
               on == IF f # NoFile \/ serial THEN TRUE ELSE x.playing
    <3>1. x \in VgmStates /\ x.playing \in BOOLEAN
      BY <2>2, VgmParts DEF GoesOn
    <3>2. on \in BOOLEAN /\ (x.playing => on)
      BY <3>1
    <3>3. vgm' = [x EXCEPT !.playing = on]
      BY <2>1
    <3>5. vgm.playing => x.playing
      BY <2>2 DEF GoesOn
    <3> HIDE DEF x, on
    <3>4. vgm' \in VgmStates /\ (on => vgm'.playing)
      BY <3>1, <3>2, <3>3, VgmTurned
    <3> QED
      BY <3>2, <3>4, <3>5 DEF GoesOn
  <2>4. amp' = amp
    BY <1>5 DEF PlayVgm, auVars
  <2> QED
    BY <1>2, <1>4, <2>3, <2>4 DEF Silence, VgmRight, GoesOn
<1>6. CASE PauseVgm
  <2>1. VgmRight'
    <3>1. PICK stop \in BOOLEAN :
            vgm' = [vgm EXCEPT !.playing = FALSE, !.pos = IF stop THEN 1 ELSE @]
      BY <1>6 DEF PauseVgm
    <3> DEFINE p == IF stop THEN 1 ELSE vgm.pos
               no == FALSE
    <3>2. p \in Nat \ {0} /\ no \in BOOLEAN
      BY <1>2, VgmParts DEF VgmRight
    <3>3. vgm' = [vgm EXCEPT !.playing = no, !.pos = p]
      BY <3>1
    <3> HIDE DEF p, no
    <3> QED
      BY <1>2, <3>2, <3>3, VgmTurned DEF VgmRight
  <2>2. amp' \in [Channels -> Who] /\ \A c \in Channels : amp'[c] = "off"
    BY <1>6 DEF PauseVgm, Silent, Who
  <2> QED
    BY <1>4, <2>1, <2>2
<1>7. CASE ContVgm \/ LoopVgm \/ VgmDue
  <2>1. GoesOn(vgm, vgm')
    <3> DEFINE yes == TRUE
    <3>1. \/ vgm' = [vgm EXCEPT !.playing = yes]
          \/ \E m \in {0, 1} : vgm' = [vgm EXCEPT !.mode = m]
          \/ vgm' = [vgm EXCEPT !.due = yes]
      BY <1>7 DEF ContVgm, LoopVgm, VgmDue
    <3>2. yes \in BOOLEAN /\ yes
      OBVIOUS
    <3> HIDE DEF yes
    <3>3. CASE vgm' = [vgm EXCEPT !.playing = yes]
      BY <1>2, <3>2, <3>3, VgmTurned DEF VgmRight, GoesOn
    <3>4. CASE \E m \in {0, 1} : vgm' = [vgm EXCEPT !.mode = m]
      BY <1>2, <3>4, VgmChanges DEF VgmRight
    <3>5. CASE vgm' = [vgm EXCEPT !.due = yes]
      BY <1>2, <3>2, <3>5, VgmChanges DEF VgmRight
    <3> QED
      BY <3>1, <3>3, <3>4, <3>5
  <2>2. amp' = amp
    BY <1>7 DEF ContVgm, LoopVgm, VgmDue, auVars
  <2> QED
    BY <1>2, <1>4, <2>1, <2>2 DEF Silence, VgmRight, GoesOn
<1>8. CASE VgmCommand
  <2>1. vgm.playing
    BY <1>8 DEF VgmCommand
  <2> DEFINE Amps == {amp, [amp EXCEPT ![1] = "vgm"], [amp EXCEPT ![1] = "off"]}
  <2>2. \/ amp' = Silent /\ VgmRight'
        \/ amp' \in Amps /\ GoesOn(vgm, vgm')
    <3> DEFINE none == 0
               once == 1
               no == FALSE
               ahead == vgm.pos + 1
               more == vgm.retries + 1
               start == IF vgm.open THEN DataStart ELSE vgm.pos
               next == [vgm EXCEPT !.pos = ahead, !.retries = none]
    <3>1. /\ none \in Nat /\ once \in Nat /\ no \in BOOLEAN /\ more \in Nat
          /\ ahead \in Nat \ {0} /\ start \in Nat \ {0}
      BY <1>2, VgmParts DEF VgmRight, DataStart
    <3>2. \/ amp' = Silent /\ vgm' = [vgm EXCEPT !.retries = more, !.open = no, !.playing = no]
          \/ /\ amp' \in Amps
             /\ \/ vgm' = [vgm EXCEPT !.pos = start]
                \/ vgm' = [vgm EXCEPT !.retries = more]
                \/ vgm' = [next EXCEPT !.retries = once]
                \/ vgm' = [next EXCEPT !.due = no]
                \/ vgm' = next
      BY <1>8 DEF VgmCommand, ReadFails, GivenUp
    <3> HIDE DEF none, once, no, ahead, more, start, Amps
    <3>3. GoesOn(vgm, next)
      BY <1>2, <3>1, VgmChanges DEF VgmRight
    <3> HIDE DEF next
    <3>4. next \in VgmStates
      BY <3>3 DEF GoesOn
    <3>5. ASSUME GoesOn(next, vgm') PROVE GoesOn(vgm, vgm')
      BY <3>3, <3>5 DEF GoesOn
    <3>6. CASE amp' = Silent /\ vgm' = [vgm EXCEPT !.retries = more, !.open = no, !.playing = no]
      <4>1. vgm' \in VgmStates
        BY <1>2, <3>1, <3>6, VgmTurned DEF VgmRight
      <4> QED
        BY <3>6, <4>1 DEF VgmRight
    <3>7. ASSUME vgm' = [vgm EXCEPT !.pos = start] PROVE GoesOn(vgm, vgm')
      BY <1>2, <3>1, <3>7, VgmChanges DEF VgmRight
    <3>8. ASSUME vgm' = [vgm EXCEPT !.retries = more] PROVE GoesOn(vgm, vgm')
      BY <1>2, <3>1, <3>8, VgmChanges DEF VgmRight
    <3>9. ASSUME vgm' = [next EXCEPT !.retries = once] PROVE GoesOn(vgm, vgm')
      BY <3>1, <3>4, <3>5, <3>9, VgmChanges
    <3>10. ASSUME vgm' = [next EXCEPT !.due = no] PROVE GoesOn(vgm, vgm')
      BY <3>1, <3>4, <3>5, <3>10, VgmChanges
    <3>11. ASSUME vgm' = next PROVE GoesOn(vgm, vgm')
      BY <3>3, <3>11
    <3> QED
      BY <3>2, <3>7, <3>8, <3>9, <3>10, <3>11, <3>6
  <2>3. /\ amp' \in [Channels -> Who]
        /\ \A c \in Channels : amp'[c] \in {amp[c], "vgm", "off"}
        /\ \A c \in Channels : amp'[c] = "vgm" => vgm'.playing
    BY <1>2, <2>1, <2>2 DEF Silent, Who, Silence, GoesOn
  <2> QED
    BY <1>4, <2>2, <2>3 DEF GoesOn, VgmRight
<1> QED
  BY <1>5, <1>6, <1>7, <1>8

-----------------------------------------------------------------------------
(* The actions of PLAY.                                                    *)

LEMMA TuneStops ==
  ASSUME NEW song, NEW x \in Tunes(song), NEW no \in BOOLEAN, NEW y, y = [x EXCEPT !.playing = no, !.fg = no]
  PROVE  y \in Tunes(song)
BY DEF Tunes

\* What play_parser_update is given.
LEMMA GivenWithin ==
  ASSUME PlayersInv
  PROVE  LET s == [ch |-> tune.ch, amp |-> amp, playing |-> TRUE, heard |-> tune.heard, held |-> FALSE]
         IN  s \in Within(tune.song, {c \in Channels : vgm.playing}) /\ s.playing
<1> DEFINE on == {c \in Channels : vgm.playing}
           ch == tune.ch
           heard == tune.heard
           yes == TRUE
           no == FALSE
           song == tune.song
           s == [ch |-> ch, amp |-> amp, playing |-> yes, heard |-> heard, held |-> no]
<1>1. /\ ch \in [Channels -> UNION {Places(song[c]) : c \in Channels}]
      /\ heard \in [Channels -> Seq(Nat)] /\ yes \in BOOLEAN /\ no \in BOOLEAN
      /\ \A c \in Channels : ch[c] \in Places(song[c])
  BY DEF PlayersInv, TuneRight, Tunes
<1>2. amp \in [Channels -> Who] /\ \A c \in Channels : amp[c] = "vgm" => c \in on
  BY DEF PlayersInv, Silence
<1>3. yes /\ s.playing = yes
  OBVIOUS
<1> HIDE DEF ch, heard, on, yes, no, song
<1>4. s \in Within(song, on)
  BY <1>1, <1>2 DEF Within
<1> QED
  BY <1>3, <1>4 DEF ch, heard, on, yes, no, song

LEMMA UpdateRight ==
  ASSUME PlayersInv, PlayUpdate
  PROVE  PlayersInv'
<1> DEFINE on == {c \in Channels : vgm.playing}
           given == [ch |-> tune.ch, amp |-> amp, playing |-> TRUE, heard |-> tune.heard, held |-> FALSE]
           s == Updated(given)
           song == tune.song
           fg == tune.fg /\ s.playing
<1>1. given \in Within(song, on) /\ given.playing
  BY GivenWithin
<1>2. song \in [Channels -> Seq(Tokens)] /\ tune \in Tunes(song)
  BY DEF PlayersInv, TuneRight
<1>3. UNCHANGED <<vgm, snap>> /\ amp' = s.amp
      /\ tune' = [tune EXCEPT !.ch = s.ch, !.playing = s.playing, !.heard = s.heard, !.held = s.held, !.fg = fg]
  BY DEF PlayUpdate
<1> HIDE DEF given
<1>4. /\ s \in Within(song, on)
      /\ ~s.playing => \A c \in Channels : s.amp[c] = "play" => HaltedBy(song, c - 1)
  <2> HIDE DEF on, song
  <2> QED
    BY <1>1, <1>2, UpdatedWithin
<1> HIDE DEF s
<1>5. fg \in BOOLEAN
  OBVIOUS
<1>6. tune' \in Tunes(song) /\ (s.playing => tune'.playing)
  <2> HIDE DEF fg, on, song
  <2>1. tune' = [tune EXCEPT !.ch = s.ch, !.playing = s.playing, !.heard = s.heard, !.held = s.held, !.fg = fg]
    BY <1>3
  <2>2. tune \in Tunes(song) /\ s \in Within(song, on)
    BY <1>2, <1>4
  <2> QED
    BY <1>5, <2>1, <2>2 DEF Tunes, Within
<1>7. tune'.song = song /\ TuneRight'
  BY <1>2, <1>6 DEF TuneRight, Tunes
<1>8. VgmRight' /\ SnapRight'
  BY <1>3 DEF PlayersInv, VgmRight, SnapRight
<1>9. s.amp \in [Channels -> Who] /\ \A c \in Channels : s.amp[c] = "vgm" => vgm.playing
  BY <1>4 DEF Within
<1>10. Silence'
  <2>1. ASSUME NEW c \in Channels, s.amp[c] = "play" PROVE tune'.playing \/ HaltedBy(song, c - 1)
    BY <1>4, <1>6, <2>1
  <2>2. \A c \in Channels : HaltedBy(song, c - 1) => HaltBefore(c)'
    BY <1>7 DEF HaltedBy, HaltBefore
  <2> QED
    BY <1>3, <1>9, <2>1, <2>2 DEF Silence
<1> QED
  BY <1>3, <1>7, <1>8, <1>9, <1>10 DEF PlayersInv

\* A step that gives no channel a note, and ends nobody's.
LEMMA NoNote ==
  ASSUME PlayersInv, TuneRight', VgmRight', SnapRight', amp' \in [Channels -> Who],
         \A c \in Channels : amp'[c] = "play" => amp[c] = "play",
         \A c \in Channels : amp'[c] = "vgm" => amp[c] = "vgm",
         tune.playing => tune'.playing, ~tune.playing => tune'.song = tune.song,
         vgm.playing => vgm'.playing
  PROVE  PlayersInv'
BY DEF PlayersInv, Silence, HaltBefore

\* A step that silences the AY.
LEMMA Silenced ==
  ASSUME TuneRight', VgmRight', SnapRight', amp' = Silent
  PROVE  PlayersInv'
<1>1. amp' \in [Channels -> Who] /\ \A c \in Channels : amp'[c] = "off"
  BY DEF Silent, Who
<1> QED
  BY <1>1 DEF PlayersInv, Silence

LEMMA PlayRight == ASSUME PlayersInv, Play PROVE PlayersInv'
<1>1. PICK song \in Songs, how \in {"wait", "background", "serial"} :
        tune' = Starting(song, how = "wait", how = "serial")
  BY DEF Play
<1> DEFINE fg == how = "wait"
           own == how = "serial"
<1>2. song \in [Channels -> Seq(Tokens)] /\ fg \in BOOLEAN /\ own \in BOOLEAN
  BY PlayersBounds
<1>3. tune' = Starting(song, fg, own)
  BY <1>1
<1> HIDE DEF fg, own
<1>4. tune' \in Tunes(song)
  BY <1>2, <1>3, Started
<1>5. TuneRight'
  BY <1>2, <1>4 DEF TuneRight, Tunes
<1>6. VgmRight' /\ SnapRight' /\ amp' = Silent
  BY DEF Play, PlayersInv, VgmRight, SnapRight
<1> QED
  BY <1>5, <1>6, Silenced

\* The places of a string are places of any other.
LEMMA WrittenOver ==
  ASSUME PlayersInv, tune.playing, WritesOver, UNCHANGED <<amp, vgm, snap>>
  PROVE  PlayersInv'
<1>1. PICK song \in Garbled :
        tune' = [tune EXCEPT !.kept = FALSE, !.song = song,
                             !.ch = [c \in Channels |-> [tune.ch[c] EXCEPT !.str = song[c]]]]
  BY DEF WritesOver
<1> DEFINE ch == [c \in Channels |-> [tune.ch[c] EXCEPT !.str = song[c]]]
           no == FALSE
<1>2. song \in [Channels -> Seq(Tokens)] /\ no \in BOOLEAN /\ tune \in Tunes(tune.song)
  BY PlayersBounds DEF PlayersInv, TuneRight
<1>3. \A c \in Channels : ch[c] \in Places(song[c])
  BY <1>2 DEF Tunes, Places
<1>4. ch \in [Channels -> UNION {Places(song[c]) : c \in Channels}]
  BY <1>3
<1>5. tune' = [tune EXCEPT !.kept = no, !.song = song, !.ch = ch]
  BY <1>1
<1> HIDE DEF ch, no
<1>6. tune' \in Tunes(song) /\ (tune.playing => tune'.playing)
  BY <1>2, <1>3, <1>4, <1>5 DEF Tunes
<1>7. TuneRight'
  <2>1. tune'.song = song
    BY <1>6 DEF Tunes
  <2> QED
    BY <1>2, <1>6, <2>1 DEF TuneRight
<1>8. VgmRight' /\ SnapRight' /\ amp' = amp /\ vgm' = vgm /\ tune.playing /\ amp \in [Channels -> Who]
  BY DEF PlayersInv, VgmRight, SnapRight
<1> QED
  BY <1>6, <1>7, <1>8, NoNote

LEMMA OtherRight == ASSUME PlayersInv, OtherString PROVE PlayersInv'
BY WrittenOver DEF OtherString

LEMMA SayRight == ASSUME PlayersInv, Say PROVE PlayersInv'
<1>1. UNCHANGED <<amp, vgm, snap>>
  BY DEF Say
<1>2. \/ tune.playing /\ WritesOver
      \/ UNCHANGED tune
  BY DEF Say
<1>3. CASE UNCHANGED tune
  <2>1. TuneRight' /\ VgmRight' /\ SnapRight' /\ amp \in [Channels -> Who]
    BY <1>1, <1>3 DEF PlayersInv, TuneRight, VgmRight, SnapRight
  <2> QED
    BY <1>1, <1>3, <2>1, NoNote
<1> QED
  BY <1>1, <1>2, <1>3, WrittenOver

LEMMA NoteEndsRight == ASSUME PlayersInv, NoteEnds PROVE PlayersInv'
<1>1. PICK d \in Channels : tune' = [tune EXCEPT !.ch[d].wait = FALSE]
  BY DEF NoteEnds
<1> DEFINE ch == [tune.ch EXCEPT ![d].wait = FALSE]
           song == tune.song
<1>2. song \in [Channels -> Seq(Tokens)] /\ tune \in Tunes(song)
  BY DEF PlayersInv, TuneRight
<1>3. \A c \in Channels : ch[c] \in Places(song[c])
  BY <1>2 DEF Tunes, Places
<1>4. ch \in [Channels -> UNION {Places(song[c]) : c \in Channels}]
  <2>1. tune.ch = [c \in Channels |-> tune.ch[c]]
    BY <1>2 DEF Tunes
  <2>2. ch = [c \in Channels |-> ch[c]]
    BY <2>1
  <2> HIDE DEF ch, song
  <2> QED
    BY <1>3, <2>2
<1>5. tune' = [tune EXCEPT !.ch = ch]
  BY <1>1
<1> HIDE DEF ch, song
<1>6. tune' \in Tunes(song) /\ (tune.playing => tune'.playing)
  BY <1>2, <1>3, <1>4, <1>5 DEF Tunes
<1>7. TuneRight' /\ tune'.song = tune.song
  <2>1. tune'.song = song
    BY <1>6 DEF Tunes
  <2> QED
    BY <1>2, <1>6, <2>1 DEF TuneRight, song
<1>8. VgmRight' /\ SnapRight' /\ amp' = amp /\ vgm' = vgm /\ amp \in [Channels -> Who]
  BY DEF NoteEnds, PlayersInv, VgmRight, SnapRight
<1> QED
  BY <1>6, <1>7, <1>8, NoNote

LEMMA ResetRight == ASSUME PlayersInv, ResetPlay PROVE PlayersInv'
<1> DEFINE no == FALSE
           song == tune.song
<1>1. song \in [Channels -> Seq(Tokens)] /\ tune \in Tunes(song) /\ no \in BOOLEAN
  BY DEF PlayersInv, TuneRight
<1>2. tune' = [tune EXCEPT !.playing = no, !.fg = no]
  BY DEF ResetPlay
<1> HIDE DEF no, song
<1>3. tune' \in Tunes(song)
  BY <1>1, <1>2, TuneStops
<1>4. TuneRight'
  BY <1>1, <1>3 DEF TuneRight, Tunes
<1>5. VgmRight' /\ SnapRight' /\ amp' = Silent
  BY DEF ResetPlay, PlayersInv, VgmRight, SnapRight
<1> QED
  BY <1>4, <1>5, Silenced

-----------------------------------------------------------------------------
(* The other actions.                                                      *)

\* Who else writes an amplitude: a PEG program and the Z80.
LEMMA WriteRight ==
  ASSUME PlayersInv, UNCHANGED <<tune, vgm, snap>>, NEW c, NEW w \in {"off", "peg", "z80"},
         amp' = amp \/ amp' = [amp EXCEPT ![c] = w]
  PROVE  PlayersInv'
<1>1. TuneRight' /\ VgmRight' /\ SnapRight'
  BY DEF PlayersInv, TuneRight, VgmRight, SnapRight
<1>2. amp \in [Channels -> Who]
  BY DEF PlayersInv
<1>3. amp' \in [Channels -> Who] /\ \A d \in Channels : amp'[d] \in {amp[d], w}
  BY <1>2 DEF Who
<1> QED
  BY <1>1, <1>3, NoNote

LEMMA OtherActions ==
  ASSUME PlayersInv,
         \/ PegCommand \/ ExecPeg \/ PegDue \/ SetReg
         \/ StartWav \/ Sample \/ LoadWav \/ LoadWavDone
         \/ BinarySay \/ SpeechStep \/ VoiceTick \/ UNCHANGED playersVars
  PROVE  PlayersInv'
<1>1. UNCHANGED <<tune, vgm, snap>>
  BY DEF PegCommand, ExecPeg, PegDue, SetReg, StartWav, Sample, LoadWav, LoadWavDone,
         BinarySay, SpeechStep, VoiceTick, playersVars, auVars
<1>2. amp' = amp \/ \E c \in Channels, w \in {"off", "peg", "z80"} : amp' = [amp EXCEPT ![c] = w]
  <2>1. CASE ExecPeg
    <3>1. PICK i : \/ amp' = IF i[2] \notin Channels THEN amp
                             ELSE [amp EXCEPT ![i[2]] = IF i[3] = 0 THEN "off" ELSE "peg"]
                   \/ UNCHANGED amp
      BY <2>1 DEF ExecPeg
    <3> QED
      BY <3>1
  <2>2. CASE SetReg
    BY <2>2 DEF SetReg
  <2>3. CASE ~ExecPeg /\ ~SetReg
    BY <2>3 DEF PegCommand, PegDue, StartWav, Sample, LoadWav, LoadWavDone,
         BinarySay, SpeechStep, VoiceTick, playersVars, auVars
  <2> QED
    BY <2>1, <2>2, <2>3
<1> QED
  BY <1>1, <1>2, WriteRight

LEMMA SaveRight == ASSUME PlayersInv, Save PROVE PlayersInv'
<1>1. UNCHANGED <<tune, amp, vgm>>
  BY DEF Save, auVars
<1>2. SnapRight'
  BY DEF Save, SnapRight, PlayersInv, VgmRight, VgmStates
<1>3. TuneRight' /\ VgmRight' /\ amp \in [Channels -> Who]
  BY <1>1 DEF PlayersInv, TuneRight, VgmRight
<1> QED
  BY <1>1, <1>2, <1>3, NoNote

LEMMA LoadBeginsRight == ASSUME PlayersInv, LoadBegins PROVE PlayersInv'
<1> DEFINE no == FALSE
<1>1. vgm' = [vgm EXCEPT !.playing = no] /\ no \in BOOLEAN /\ vgm \in VgmStates
  BY DEF LoadBegins, PlayersInv, VgmRight
<1> HIDE DEF no
<1>2. VgmRight'
  BY <1>1, VgmTurned DEF VgmRight
<1>3. TuneRight' /\ SnapRight' /\ amp' = Silent
  BY DEF LoadBegins, PlayersInv, TuneRight, SnapRight
<1> QED
  BY <1>2, <1>3, Silenced

\* What a snapshot brings back is nobody's.
LEMMA LoadEndsRight == ASSUME PlayersInv, LoadEnds PROVE PlayersInv'
<1>1. PICK f \in {NoFile, snap.vgm} :
        vgm' = IF snap.state = 0 THEN [vgm EXCEPT !.playing = FALSE]
               ELSE IF f = NoFile THEN [Opened(f) EXCEPT !.playing = FALSE]
               ELSE [Opened(f) EXCEPT !.playing = (snap.state = 1), !.mode = snap.mode, !.pos = snap.pos]
  BY DEF LoadEnds
<1> DEFINE no == FALSE
           on == snap.state = 1
           mode == snap.mode
           pos == snap.pos
           x == Opened(f)
<1>2. /\ f \in VgmFiles \cup {NoFile} /\ mode \in {0, 1} /\ pos \in Nat \ {0}
      /\ no \in BOOLEAN /\ on \in BOOLEAN
      /\ VgmRight /\ vgm \in VgmStates
  BY <1>1 DEF PlayersInv, SnapRight, VgmRight
<1>3. x \in VgmStates
  BY <1>2, OpenedRight DEF GoesOn
<1>4. \/ vgm' = [vgm EXCEPT !.playing = no]
      \/ vgm' = [x EXCEPT !.playing = no]
      \/ vgm' = [x EXCEPT !.playing = on, !.mode = mode, !.pos = pos]
  BY <1>1
<1> HIDE DEF no, on, mode, pos, x
<1>5. vgm' \in VgmStates
  <2>1. CASE vgm' = [vgm EXCEPT !.playing = no]
    BY <1>2, <2>1, VgmTurned
  <2>2. CASE vgm' = [x EXCEPT !.playing = no]
    BY <1>2, <1>3, <2>2, VgmTurned
  <2>3. CASE vgm' = [x EXCEPT !.playing = on, !.mode = mode, !.pos = pos]
    BY <1>2, <1>3, <2>3 DEF VgmStates
  <2> QED
    BY <1>4, <2>1, <2>2, <2>3
<1>6. TuneRight' /\ SnapRight' /\ VgmRight'
  BY <1>5 DEF LoadEnds, PlayersInv, TuneRight, SnapRight, VgmRight
<1>7. amp' \in [Channels -> {"off", "snapshot"}]
  BY DEF LoadEnds, Taken
<1>8. amp' \in [Channels -> Who] /\ \A c \in Channels : amp'[c] \in {"off", "snapshot"}
  BY <1>7 DEF Who
<1> QED
  BY <1>6, <1>8 DEF PlayersInv, Silence

-----------------------------------------------------------------------------
(* Text is spelled in items.                                               *)

LEMMA NumberWords ==
  /\ \A v \in 1..19 : Numero[v] \in Items
  /\ \A v \in 1..8 : Decenas[v] \in Items
<1>1. DOMAIN Numero = 1..19
  BY SMT DEF Numero
<1>2. DOMAIN Decenas = 1..8
  BY SMT DEF Decenas
<1>3. ToSet(Numero) \subseteq Items /\ ToSet(Decenas) \subseteq Items
  BY Zenon DEF Items
<1> HIDE DEF Numero, Decenas, Items
<1> QED
  BY <1>1, <1>2, <1>3 DEF ToSet

LEMMA Spoken ==
  /\ <<>> \in Seq(Items)
  /\ \A x \in Items : <<x>> \in Seq(Items)
  /\ \A x, y \in Items : <<x, y>> \in Seq(Items)
  /\ \A s, r \in Seq(Items) : s \o r \in Seq(Items)
<1> HIDE DEF Items
<1>1. <<>> \in Seq(Items)
  BY EmptySeq
<1>2. ASSUME NEW x \in Items PROVE <<x>> \in Seq(Items)
  OBVIOUS
<1>3. ASSUME NEW x \in Items, NEW y \in Items PROVE <<x, y>> \in Seq(Items)
  OBVIOUS
<1>4. ASSUME NEW s \in Seq(Items), NEW r \in Seq(Items) PROVE s \o r \in Seq(Items)
  BY ConcatProperties
<1> QED
  BY <1>1, <1>2, <1>3, <1>4

LEMMA UnderWords ==
  ASSUME NEW v \in Nat
  PROVE  UnderThousand(v) \in Seq(Items)
<1>1. ASSUME NEW w \in 0..19 PROVE Unidad(w) \in Seq(Items)
  <2>1. CASE w = 0
    BY <2>1, Spoken DEF Unidad
  <2>2. CASE w # 0
    <3> DEFINE x == Numero[w]
    <3>1. x \in Items
      BY <2>2, NumberWords
    <3>2. Unidad(w) = <<x>>
      BY <2>2 DEF Unidad
    <3> HIDE DEF x
    <3> QED
      BY <3>1, <3>2, Spoken
  <2> QED
    BY <2>1, <2>2
<1> DEFINE tens == v % 100
           units == v % 10
           hundreds == (v % 1000) \div 100
<1>2. units \in 0..19 /\ tens \in 0..99 /\ hundreds \in 0..19
  OBVIOUS
<1>3. DecenaYUnidad(v) \in Seq(Items)
  <2>1. CASE tens < 20
    <3>1. DecenaYUnidad(v) = Unidad(tens)
      BY <2>1 DEF DecenaYUnidad
    <3>2. tens \in 0..19
      BY <1>2, <2>1
    <3> HIDE DEF tens
    <3> QED
      BY <1>1, <3>1, <3>2
  <2>2. CASE ~(tens < 20)
    <3> DEFINE k == (tens \div 10) - 1
               x == Decenas[k]
    <3>1. k \in 1..8
      <4> HIDE DEF tens
      <4> QED
        BY <1>2, <2>2
    <3>2. DecenaYUnidad(v) = <<x>> \o Unidad(units)
      BY <2>2 DEF DecenaYUnidad
    <3>3. x \in Items
      <4> HIDE DEF k
      <4> QED
        BY <3>1, NumberWords
    <3> HIDE DEF x
    <3>4. <<x>> \in Seq(Items)
      BY <3>3, Spoken
    <3>5. Unidad(units) \in Seq(Items)
      <4>1. units \in 0..19
        BY <1>2
      <4> HIDE DEF units
      <4> QED
        BY <1>1, <4>1
    <3> HIDE DEF units
    <3> QED
      BY <3>2, <3>4, <3>5, Spoken
  <2> QED
    BY <2>1, <2>2
<1>4. "hundred" \in Items /\ "and" \in Items
  BY DEF Items, Scales
<1>5. Centena(hundreds) \in Seq(Items)
  <2> HIDE DEF hundreds
  <2>1. Unidad(hundreds) \in Seq(Items) /\ <<"hundred">> \in Seq(Items)
    BY <1>1, <1>2, <1>4, Spoken
  <2>2. Unidad(hundreds) \o <<"hundred">> \in Seq(Items)
    BY <2>1, Spoken
  <2> QED
    BY <2>2, Spoken DEF Centena
<1>6. SndAnd(v) \in Seq(Items)
  BY <1>4, Spoken DEF SndAnd
<1>7. UnderThousand(v) = Centena(hundreds) \o SndAnd(v) \o DecenaYUnidad(v)
  BY DEF UnderThousand
<1> HIDE DEF hundreds
<1>8. Centena(hundreds) \o SndAnd(v) \in Seq(Items)
  BY <1>5, <1>6, Spoken
<1> QED
  BY <1>3, <1>7, <1>8, Spoken

LEMMA NumberItems ==
  ASSUME NEW n \in Nat
  PROVE  Number(n) \in Seq(Items)
<1>1. "million" \in Items /\ "thousand" \in Items
  BY DEF Items, Scales
<1>2. ASSUME NEW v \in Nat, NEW scale \in Items PROVE Scaled(v, scale) \in Seq(Items)
  <2>1. UnderThousand(v) \in Seq(Items) /\ <<scale>> \in Seq(Items)
    BY UnderWords, Spoken
  <2>2. UnderThousand(v) \o <<scale>> \in Seq(Items)
    BY <2>1, Spoken
  <2> QED
    BY <2>2, Spoken DEF Scaled
<1>3. ASSUME NEW v \in Nat PROVE Lower(v) \in Seq(Items)
  <2> DEFINE m == (v % 1000000000) \div 1000000
             k == (v % 1000000) \div 1000
             a == Scaled(m, "million")
             b == Scaled(k, "thousand")
             c == UnderThousand(v)
  <2>1. m \in Nat /\ k \in Nat
    BY SMT
  <2>2. Lower(v) = a \o b \o c
    BY DEF Lower
  <2> HIDE DEF m, k
  <2>3. a \in Seq(Items) /\ b \in Seq(Items) /\ c \in Seq(Items)
    BY <1>1, <1>2, <2>1, UnderWords
  <2> HIDE DEF a, b, c
  <2>4. a \o b \in Seq(Items)
    BY <2>3, Spoken
  <2> QED
    BY <2>2, <2>3, <2>4, Spoken
<1>4. ASSUME NEW v \in Nat PROVE Billon(v) \in Seq(Items)
  <2>1. Lower(v) \in Seq(Items) /\ <<"million">> \in Seq(Items)
    BY <1>1, <1>3, Spoken
  <2>2. Lower(v) \o <<"million">> \in Seq(Items)
    BY <2>1, Spoken
  <2> QED
    BY <2>2, Spoken DEF Billon
<1> DEFINE high == n \div 1000000000
<1>5. high \in Nat /\ Number(n) = Billon(high) \o Lower(n)
  BY SMT DEF Number
<1> HIDE DEF high
<1>6. Billon(high) \in Seq(Items) /\ Lower(n) \in Seq(Items)
  BY <1>3, <1>4, <1>5
<1> QED
  BY <1>5, <1>6, Spoken

\* Where text_to_speech may be.
Converting == [i : Nat \ {0}, alof : BOOLEAN, out : Seq(Items)]

LEMMA TableItems ==
  ASSUME NEW table \in {Alof, Words}, NEW k \in DOMAIN table
  PROVE  table[k].say \in Seq(Items) /\ Len(table[k].text) \in Nat /\ DOMAIN table \subseteq Nat
<1>1. "PP" \in Items /\ "ZZ" \in Items /\ "AE" \in Items /\ "EY" \in Items /\ "IY" \in Items
  BY DEF Items
<1>2. CASE table = Alof
  <2>1. DOMAIN table = {1} /\ k = 1
    BY <1>2 DEF Alof
  <2>2. table[1].say = <<"PP">> /\ Len(table[1].text) = 2
    BY <1>2 DEF Alof
  <2>3. <<"PP">> \in Seq(Items)
    BY <1>1, Spoken
  <2> QED
    BY <2>1, <2>2, <2>3
<1>3. CASE table = Words
  <2>1. DOMAIN table = 1..3
    BY <1>3 DEF Words
  <2>2. table[1].say = <<"ZZ", "AE">> /\ Len(table[1].text) = 2
    BY <1>3 DEF Words
  <2>3. table[2].say = <<"EY">> /\ Len(table[2].text) = 1
    BY <1>3 DEF Words
  <2>4. table[3].say = <<"ZZ", "IY">> /\ Len(table[3].text) = 1
    BY <1>3 DEF Words
  <2>5. k \in {1, 2, 3}
    BY <2>1
  <2>6. <<"ZZ", "AE">> \in Seq(Items) /\ <<"EY">> \in Seq(Items) /\ <<"ZZ", "IY">> \in Seq(Items)
    <3> DEFINE zz == "ZZ"
               ae == "AE"
               ey == "EY"
               iy == "IY"
    <3>1. zz \in Items /\ ae \in Items /\ ey \in Items /\ iy \in Items
      BY <1>1
    <3> HIDE DEF zz, ae, ey, iy
    <3>2. <<zz, ae>> \in Seq(Items) /\ <<ey>> \in Seq(Items) /\ <<zz, iy>> \in Seq(Items)
      BY <3>1, Spoken
    <3> QED
      BY <3>2 DEF zz, ae, ey, iy
  <2>7. DOMAIN table \subseteq Nat
    BY <2>1
  <2> DEFINE a == <<"ZZ", "AE">>
             b == <<"EY">>
             c == <<"ZZ", "IY">>
  <2>8. /\ table[1].say = a /\ table[2].say = b /\ table[3].say = c
        /\ a \in Seq(Items) /\ b \in Seq(Items) /\ c \in Seq(Items)
    BY <2>2, <2>3, <2>4, <2>6
  <2>9. Len(table[1].text) \in Nat /\ Len(table[2].text) \in Nat /\ Len(table[3].text) \in Nat
    BY <2>2, <2>3, <2>4
  <2> HIDE DEF a, b, c
  <2> QED
    BY <2>5, <2>7, <2>8, <2>9
<1> QED
  BY <1>2, <1>3

LEMMA ConvertItems ==
  ASSUME NEW text \in Seq(STRING \X Nat), NEW s \in Converting
  PROVE  Convert(text, s) \in Converting
<1> DEFINE table == IF s.alof THEN Alof ELSE Words
           fits == {k \in DOMAIN table : IsPrefix(table[k].text, SubSeq(text, s.i, Len(text)))}
           first == table[CHOOSE k \in fits : \A j \in fits : k <= j]
           Goes(n, say) == [i |-> s.i + n, alof |-> s.alof, out |-> s.out \o say]
<1>1. s.i \in Nat \ {0} /\ s.alof \in BOOLEAN /\ s.out \in Seq(Items) /\ Len(text) \in Nat
  BY DEF Converting
<1>2. ASSUME NEW n \in Nat, NEW say \in Seq(Items) PROVE Goes(n, say) \in Converting
  <2>1. s.i + n \in Nat \ {0} /\ s.out \o say \in Seq(Items)
    BY <1>1, ConcatProperties
  <2> QED
    BY <1>1, <2>1 DEF Converting
<1>3. [i |-> s.i + 1, alof |-> ~s.alof, out |-> s.out] \in Converting
  BY <1>1 DEF Converting
<1>4. ASSUME s.i <= Len(text) PROVE Goes(1, Number(text[s.i][2])) \in Converting
  <2>1. text[s.i] \in STRING \X Nat
    BY <1>1, <1>4
  <2>2. text[s.i][2] \in Nat
    BY <2>1
  <2> HIDE DEF Goes
  <2> QED
    BY <1>2, <2>2, NumberItems
<1>5. ASSUME fits # {} PROVE Goes(Len(first.text), first.say) \in Converting
  <2>1. table \in {Alof, Words}
    OBVIOUS
  <2>2. fits \subseteq DOMAIN table /\ fits \subseteq Nat
    <3>1. PICK k0 : k0 \in fits
      BY <1>5
    <3> HIDE DEF table
    <3> QED
      BY <2>1, <3>1, TableItems
  <2>3. \E k \in fits : \A j \in fits : k <= j
    <3> HIDE DEF fits
    <3> QED
      BY <1>5, <2>2, LeastOf
  <2>4. (CHOOSE k \in fits : \A j \in fits : k <= j) \in fits
    <3> HIDE DEF fits
    <3> QED
      BY <2>3
  <2>5. first.say \in Seq(Items) /\ Len(first.text) \in Nat
    <3> HIDE DEF table, fits
    <3> QED
      BY <2>1, <2>2, <2>4, TableItems
  <2> HIDE DEF Goes, first
  <2> QED
    BY <1>2, <2>5
<1>6. Goes(1, <<>>) \in Converting
  <2> DEFINE nothing == <<>>
  <2>1. nothing \in Seq(Items) /\ 1 \in Nat
    BY Spoken
  <2> HIDE DEF nothing
  <2>2. Goes(1, nothing) \in Converting
    <3> HIDE DEF Goes
    <3> QED
      BY <1>2, <2>1
  <2> QED
    BY <2>2 DEF nothing
<1>7. \/ Convert(text, s) = s
      \/ Convert(text, s) = [i |-> s.i + 1, alof |-> ~s.alof, out |-> s.out]
      \/ s.i <= Len(text) /\ Convert(text, s) = Goes(1, Number(text[s.i][2]))
      \/ fits # {} /\ Convert(text, s) = Goes(Len(first.text), first.say)
      \/ Convert(text, s) = Goes(1, <<>>)
  <2> DEFINE slash == s.i <= Len(text) /\ text[s.i] = Ch("/")
             number == s.i <= Len(text) /\ text[s.i][1] = "#" /\ ~s.alof
             past == s.i > Len(text)
             a == s
             b == [i |-> s.i + 1, alof |-> ~s.alof, out |-> s.out]
             c == Goes(1, Number(text[s.i][2]))
             d == Goes(Len(first.text), first.say)
             e == Goes(1, <<>>)
             f == fits # {}
  <2>1. Convert(text, s) = CASE past -> a [] slash -> b [] number -> c [] OTHER -> IF f THEN d ELSE e
    BY DEF Convert
  <2>2. number => s.i <= Len(text)
    OBVIOUS
  <2> HIDE DEF past, slash, number, a, b, c, d, e, f
  <2>3. \/ Convert(text, s) = a \/ Convert(text, s) = b \/ (number /\ Convert(text, s) = c)
        \/ (f /\ Convert(text, s) = d) \/ Convert(text, s) = e
    BY <2>1
  <2> USE DEF a, b, c, d, e, f
  <2> QED
    BY <2>2, <2>3
<1> HIDE DEF Goes, fits, first, table
<1> QED
  BY <1>2, <1>3, <1>4, <1>5, <1>6, <1>7

LEMMA TheOne ==
  ASSUME NEW x
  PROVE  The({x}) = x
BY DEF The

LEMMA SpelledItems ==
  ASSUME NEW text \in Seq(STRING \X Nat)
  PROVE  Spelled(text) \in Seq(Items)
<1> DEFINE N == Len(text)
           x == [i |-> 1, alof |-> FALSE, out |-> <<>>]
           F == [p \in (1..N) \X Converting |-> Convert(text, p[2])]
           Turn(f) == [n \in 0..N |-> IF n = 0 THEN x ELSE The({Convert(text, s) : s \in {f[n - 1]}})]
           g == CHOOSE f : f = Turn(f)
<1>1. N \in Nat /\ x \in Converting /\ F \in [(1..N) \X Converting -> Converting]
  <2>1. <<>> \in Seq(Items)
    OBVIOUS
  <2>2. x \in Converting
    BY <2>1 DEF Converting
  <2> QED
    BY <2>2, ConvertItems
<1>2. PICK h \in [0..N -> Converting] : Steps(x, F, N, h)
  <2> HIDE DEF N, x, F
  <2> QED
    BY <1>1, StepsExist
<1>3. h = Turn(h)
  <2>1. ASSUME NEW n \in 0..N PROVE h[n] = Turn(h)[n]
    <3>1. CASE n = 0
      BY <1>2, <3>1 DEF Steps
    <3>2. CASE n # 0
      <4>1. n \in 1..N /\ n - 1 \in 0..N
        BY <1>1, <3>2
      <4>2. h[n - 1] \in Converting /\ h[n] = F[<<n, h[n - 1]>>]
        BY <1>2, <4>1 DEF Steps
      <4>3. h[n] = Convert(text, h[n - 1])
        BY <4>1, <4>2
      <4>4. {Convert(text, s) : s \in {h[n - 1]}} = {Convert(text, h[n - 1])}
        OBVIOUS
      <4> QED
        BY <3>2, <4>3, <4>4, TheOne
    <3> QED
      BY <3>1, <3>2
  <2>2. DOMAIN h = 0..N /\ DOMAIN Turn(h) = 0..N
    BY <1>2
  <2> QED
    BY <1>2, <2>1
<1>4. g = Turn(g)
  <2> HIDE DEF Turn
  <2> QED
    BY <1>3
<1>5. Spelled(text) = The({s.out : s \in {g[N]}})
  BY DEF Spelled
<1> HIDE DEF g
<1>6. g[0] \in Converting
  BY <1>1, <1>4
<1>7. ASSUME NEW n \in 1..N, g[n - 1] \in Converting PROVE g[n] \in Converting
  <2>1. {Convert(text, s) : s \in {g[n - 1]}} = {Convert(text, g[n - 1])}
    OBVIOUS
  <2>2. Turn(g)[n] = The({Convert(text, s) : s \in {g[n - 1]}})
    BY <1>1
  <2> HIDE DEF Turn
  <2>3. g[n] = Convert(text, g[n - 1])
    BY <1>4, <2>1, <2>2, TheOne
  <2> QED
    BY <1>7, <2>3, ConvertItems
<1> HIDE DEF N
<1>8. g[N] \in Converting
  <2> DEFINE A == {n \in 0..N : g[n] \in Converting}
  <2>1. 0 \in A /\ \A n \in 1..N : n - 1 \in A => n \in A
    BY <1>1, <1>6, <1>7
  <2> HIDE DEF A
  <2>2. N \in A
    BY <1>1, <2>1, UpTo
  <2> QED
    BY <2>2 DEF A
<1> DEFINE e == g[N]
<1>9. e \in Converting /\ Spelled(text) = The({s.out : s \in {e}})
  BY <1>5, <1>8
<1> HIDE DEF e
<1>10. {s.out : s \in {e}} = {e.out} /\ e.out \in Seq(Items)
  BY <1>9 DEF Converting
<1>11. The({e.out}) = e.out
  BY TheOne
<1> QED
  BY <1>9, <1>10, <1>11

-----------------------------------------------------------------------------
(* What is said.                                                           *)

Codes == Items \cup {END}
VoiceStates ==
  [step : {"none", "sequence", "index", "playing", "load"}, due : Seq(Codes), seq : Seq(Codes),
   idx : Nat \ {0}, id : Items \cup {NoItem}, data : Nat, playing : BOOLEAN, fg : BOOLEAN,
   said : Seq(Items), alone : BOOLEAN]

\* The beginning of what is to be said; and where it is read, while it is.
Prefix(v) ==
  /\ v.due # <<>> /\ v.due[Len(v.due)] = END
  /\ Len(v.said) < Len(v.due) /\ \A i \in 1..Len(v.said) : v.said[i] = v.due[i]
Midway(v) ==
  /\ v.seq = v.due /\ v.idx - 1 \in 1..(Len(v.due) - 1) /\ v.id = v.due[v.idx - 1]
  /\ Len(v.said) = v.idx - (IF v.data < Samples THEN 2 ELSE 1)

\* What was begun in silence, at each of Speech's steps and after them.
Alone(v) ==
  /\ Prefix(v)
  /\ v.step # "none" => v.said = <<>> /\ v.id = NoItem /\ (v.playing <=> v.step = "load")
  /\ v.step \in {"index", "playing", "load"} => v.seq = v.due
  /\ v.step \in {"playing", "load"} => v.idx = 1
  /\ v.step = "none" /\ v.playing => Midway(v)
  /\ v.step = "none" /\ ~v.playing => v.due[Len(v.said) + 1] = END

VoiceRight(v) ==
  /\ v \in VoiceStates
  /\ ~v.playing => v.id = NoItem /\ (v.step \in {"none", "load"} => v.seq = <<>>)
  /\ v.alone => Alone(v)
VoiceInv == VoiceRight(voice)

\* The parts of a state, and of one that differs in some of them.
Same(w, v) == w.step = v.step /\ w.due = v.due /\ w.fg = v.fg /\ w.alone = v.alone

LEMMA CeasedIs ==
  ASSUME NEW v \in VoiceStates, NEW w, w = Ceased(v)
  PROVE  /\ w \in VoiceStates /\ Same(w, v)
         /\ ~w.playing /\ w.seq = <<>> /\ w.id = NoItem /\ w.said = v.said
<1> DEFINE no == FALSE
           empty == <<>>
           one == 1
           zero == 0
<1>1. no \in BOOLEAN /\ one \in Nat \ {0} /\ zero \in Nat /\ empty \in Seq(Codes) /\ ~no
  BY EmptySeq
<1>2. w = [v EXCEPT !.playing = no, !.seq = empty, !.idx = one, !.data = zero, !.id = NoItem]
  BY DEF Ceased
<1> HIDE DEF no, empty, one, zero
<1>3. w \in VoiceStates
  BY <1>1, <1>2 DEF VoiceStates
<1>4. Same(w, v) /\ w.playing = no /\ w.seq = empty /\ w.id = NoItem /\ w.said = v.said
  BY <1>2 DEF VoiceStates, Same
<1> QED
  BY <1>1, <1>3, <1>4 DEF empty

LEMMA LoadedIs ==
  ASSUME NEW v \in VoiceStates, NEW x \in Codes, x # END, NEW w, w = NextAlophone(v, x)
  PROVE  /\ w \in VoiceStates /\ Same(w, v) /\ x \in Items
         /\ w.playing = v.playing /\ w.seq = v.seq /\ w.said = v.said
         /\ w.idx = v.idx + 1 /\ w.id = x /\ w.data = 0
<1> DEFINE next == v.idx + 1
           zero == 0
<1>1. next \in Nat \ {0} /\ zero \in Nat /\ x \in Items
  BY DEF VoiceStates, Codes
<1>2. w = [v EXCEPT !.idx = next, !.id = x, !.data = zero]
  BY DEF NextAlophone
<1>3. w.idx = next /\ w.data = zero
  BY <1>2 DEF VoiceStates
<1> HIDE DEF next, zero
<1>4. w \in VoiceStates
  BY <1>1, <1>2 DEF VoiceStates
<1>5. Same(w, v) /\ w.playing = v.playing /\ w.seq = v.seq /\ w.said = v.said /\ w.id = x
  BY <1>2 DEF VoiceStates, Same
<1> QED
  BY <1>1, <1>3, <1>4, <1>5 DEF next, zero

LEMMA SampledIs ==
  ASSUME NEW v \in VoiceStates, v.id \in Items, NEW w, w = Sampled(v)
  PROVE  /\ w \in VoiceStates /\ Same(w, v)
         /\ w.playing = v.playing /\ w.seq = v.seq /\ w.idx = v.idx /\ w.id = v.id
         /\ w.data = v.data + 1
         /\ w.said = IF v.data + 1 = Samples THEN Append(v.said, v.id) ELSE v.said
<1> DEFINE next == v.data + 1
           said == IF v.data + 1 = Samples THEN Append(v.said, v.id) ELSE v.said
<1>1. v.data \in Nat /\ v.said \in Seq(Items)
  BY DEF VoiceStates
<1>2. next \in Nat /\ said \in Seq(Items)
  BY <1>1, AppendProperties
<1>3. w = [v EXCEPT !.data = next, !.said = said]
  BY DEF Sampled
<1> HIDE DEF next, said
<1>4. w \in VoiceStates
  BY <1>2, <1>3 DEF VoiceStates
<1>5. Same(w, v) /\ w.playing = v.playing /\ w.seq = v.seq /\ w.idx = v.idx /\ w.id = v.id
      /\ w.data = next /\ w.said = said
  BY <1>3 DEF VoiceStates, Same
<1> QED
  BY <1>4, <1>5 DEF next, said

LEMMA VoiceParts ==
  ASSUME NEW v \in VoiceStates
  PROVE  /\ v.due \in Seq(Codes) /\ v.seq \in Seq(Codes) /\ v.idx \in Nat \ {0} /\ v.data \in Nat
         /\ v.said \in Seq(Items) /\ v.playing \in BOOLEAN /\ v.alone \in BOOLEAN /\ v.fg \in BOOLEAN
         /\ v.id \in Items \cup {NoItem}
         /\ Len(v.due) \in Nat /\ Len(v.said) \in Nat /\ DOMAIN v.due = 1..Len(v.due)
         /\ DOMAIN v.seq = 1..Len(v.seq)
<1>1. /\ v.due \in Seq(Codes) /\ v.seq \in Seq(Codes) /\ v.idx \in Nat \ {0} /\ v.data \in Nat
      /\ v.said \in Seq(Items) /\ v.playing \in BOOLEAN /\ v.alone \in BOOLEAN /\ v.fg \in BOOLEAN
      /\ v.id \in Items \cup {NoItem}
  BY DEF VoiceStates
<1> QED
  BY <1>1, LenProperties

LEMMA ReadCode ==
  ASSUME NEW v \in VoiceStates, NEW x \in Read(v)
  PROVE  x \in Codes /\ (v.seq = <<>> => x = END) /\ (v.idx \in 1..Len(v.seq) => x = v.seq[v.idx])
<1>1. v.idx \in 1..Len(v.seq) => v.seq # <<>> /\ v.seq[v.idx] \in Codes
  <2>1. v.seq \in Seq(Codes) /\ (v.seq = <<>> => Len(v.seq) = 0)
    BY VoiceParts, EmptySeq
  <2> QED
    BY <2>1, ElementOfSeq
<1>2. END \in Codes /\ Items \cup {END} = Codes /\ DOMAIN v.seq = 1..Len(v.seq)
  BY VoiceParts DEF Codes
<1> QED
  BY <1>1, <1>2 DEF Read

\* The next item is the one that comes next: lead is how many are said before it.
LEMMA NextRight ==
  ASSUME NEW v \in VoiceStates, Prefix(v), v.seq = v.due, v.idx \in 1..Len(v.due),
         Len(v.said) = v.idx - 1, NEW x \in Read(v), NEW w, w = NextAlophone(v, x)
  PROVE  /\ w \in VoiceStates /\ Same(w, v) /\ Prefix(w) /\ w.said = v.said
         /\ x = END => ~w.playing /\ w.seq = <<>> /\ w.id = NoItem /\ w.due[Len(w.said) + 1] = END
         /\ x # END => w.playing = v.playing /\ Midway(w) /\ w.data = 0 /\ w.id \in Items
<1>1. x \in Codes /\ x = v.due[v.idx]
  BY ReadCode
<1>2. Len(v.due) \in Nat /\ v.idx \in Nat \ {0} /\ Samples \in Nat \ {0}
  BY VoiceParts, VoiceBounds
<1>3. CASE x = END
  <2>1. w = Ceased(v)
    BY <1>3 DEF NextAlophone
  <2>2. /\ w \in VoiceStates /\ Same(w, v) /\ w.said = v.said
        /\ ~w.playing /\ w.seq = <<>> /\ w.id = NoItem
    BY <2>1, CeasedIs
  <2>3. w.due = v.due
    BY <2>2 DEF Same
  <2>4. w.due[Len(w.said) + 1] = END
    <3>1. Len(w.said) + 1 = v.idx
      BY <1>2, <2>2
    <3> QED
      BY <1>1, <1>3, <2>3, <3>1
  <2>5. Prefix(w)
    BY <2>2, <2>3 DEF Prefix
  <2> QED
    BY <1>3, <2>2, <2>4, <2>5
<1>4. CASE x # END
  <2>1. x \in Items
    BY <1>1, <1>4 DEF Codes
  <2>2. /\ w \in VoiceStates /\ Same(w, v) /\ w.playing = v.playing /\ w.seq = v.seq /\ w.said = v.said
        /\ w.idx = v.idx + 1 /\ w.id = x /\ w.data = 0
    BY <1>1, <1>4, LoadedIs
  <2>3. w.due = v.due
    BY <2>2 DEF Same
  <2>4. v.idx # Len(v.due)
    <3>1. v.due[Len(v.due)] = END
      BY DEF Prefix
    <3> QED
      BY <1>1, <1>4, <3>1
  <2>5. Midway(w)
    <3>1. w.idx - 1 = v.idx /\ v.idx \in 1..(Len(v.due) - 1)
      BY <1>2, <2>2, <2>4
    <3>2. Len(w.said) = w.idx - 2 /\ w.data < Samples
      BY <1>2, <2>2
    <3> QED
      BY <1>1, <2>2, <2>3, <3>1, <3>2 DEF Midway
  <2>6. Prefix(w)
    BY <2>2, <2>3 DEF Prefix
  <2> QED
    BY <1>4, <2>1, <2>2, <2>5, <2>6
<1> QED
  BY <1>3, <1>4

\* A sample more of the item it is at.
LEMMA SampleRight ==
  ASSUME NEW v \in VoiceStates, Prefix(v), Midway(v), v.id \in Items, v.data < Samples,
         NEW w, w = Sampled(v)
  PROVE  w \in VoiceStates /\ Same(w, v) /\ w.playing = v.playing /\ Prefix(w) /\ Midway(w)
<1>1. /\ w \in VoiceStates /\ Same(w, v)
      /\ w.playing = v.playing /\ w.seq = v.seq /\ w.idx = v.idx /\ w.id = v.id
      /\ w.data = v.data + 1
      /\ w.said = IF v.data + 1 = Samples THEN Append(v.said, v.id) ELSE v.said
  BY SampledIs
<1>2. w.due = v.due
  BY <1>1 DEF Same
<1>3. /\ v.data \in Nat /\ Samples \in Nat \ {0} /\ Len(v.due) \in Nat /\ Len(v.said) \in Nat
      /\ v.idx \in Nat \ {0} /\ v.said \in Seq(Items)
  BY VoiceParts, VoiceBounds
<1>4. /\ Len(v.said) = v.idx - 2 /\ v.idx - 1 \in 1..(Len(v.due) - 1) /\ v.id = v.due[v.idx - 1]
      /\ v.seq = v.due
  BY DEF Midway
<1>5. CASE v.data + 1 = Samples
  <2>1. w.said = Append(v.said, v.id)
    BY <1>1, <1>5
  <2>2. /\ Len(w.said) = Len(v.said) + 1 /\ w.said[Len(v.said) + 1] = v.id
        /\ \A i \in 1..Len(v.said) : w.said[i] = v.said[i]
    BY <1>3, <2>1, AppendProperties
  <2>3. \A i \in 1..Len(w.said) : w.said[i] = w.due[i]
    <3> SUFFICES ASSUME NEW i \in 1..Len(w.said) PROVE w.said[i] = w.due[i]
      OBVIOUS
    <3>1. CASE i = Len(v.said) + 1
      BY <1>2, <1>3, <1>4, <2>2, <3>1
    <3>2. CASE i # Len(v.said) + 1
      <4>1. i \in 1..Len(v.said)
        BY <1>3, <2>2, <3>2
      <4> QED
        BY <1>2, <2>2, <4>1 DEF Prefix
    <3> QED
      BY <3>1, <3>2
  <2>4. Len(w.said) < Len(w.due) /\ Len(w.said) = w.idx - 1 /\ ~(w.data < Samples)
    BY <1>1, <1>2, <1>3, <1>4, <1>5, <2>2
  <2>5. Prefix(w)
    BY <1>2, <2>3, <2>4 DEF Prefix
  <2>6. Midway(w)
    BY <1>1, <1>2, <1>4, <2>4 DEF Midway
  <2> QED
    BY <1>1, <2>5, <2>6
<1>6. CASE v.data + 1 # Samples
  <2>1. w.said = v.said /\ w.data < Samples
    BY <1>1, <1>3, <1>6
  <2>2. Prefix(w)
    BY <1>2, <2>1 DEF Prefix
  <2>3. Midway(w)
    BY <1>1, <1>2, <1>4, <2>1 DEF Midway
  <2> QED
    BY <1>1, <2>2, <2>3
<1> QED
  BY <1>5, <1>6

LEMMA SampleStep == ASSUME VoiceInv, VoiceSample PROVE VoiceInv'
<1> DEFINE v == voice
           w == voice'
<1>1. v \in VoiceStates /\ v.playing /\ v.id # NoItem /\ (v.alone => Alone(v))
  BY DEF VoiceInv, VoiceRight, VoiceSample
<1>2. v.id \in Items /\ v.alone \in BOOLEAN /\ v.data \in Nat /\ v.idx \in Nat \ {0} /\ Len(v.due) \in Nat
      /\ Samples \in Nat \ {0} /\ v.step \in {"none", "sequence", "index", "playing", "load"}
  BY <1>1, VoiceParts, VoiceBounds DEF VoiceStates
<1>3. v.alone => v.step = "none" /\ Prefix(v) /\ Midway(v)
  BY <1>1, <1>2 DEF Alone
<1>4. \/ v.data < Samples /\ w = Sampled(v)
      \/ v.data >= Samples /\ \E x \in Read(v) :
           w = IF x = END THEN NextAlophone(v, x) ELSE Sampled(NextAlophone(v, x))
  BY DEF VoiceSample
<1> HIDE DEF v, w
<1>5. CASE v.data < Samples /\ w = Sampled(v)
  <2>1. w \in VoiceStates /\ Same(w, v) /\ w.playing = v.playing
    BY <1>1, <1>2, <1>5, SampledIs
  <2>2. v.alone => Prefix(w) /\ Midway(w)
    BY <1>1, <1>2, <1>3, <1>5, SampleRight
  <2>3. VoiceRight(w)
    BY <1>1, <1>3, <2>1, <2>2 DEF VoiceRight, Alone, Same
  <2> QED
    BY <2>3 DEF VoiceInv, w
<1>6. ASSUME v.data >= Samples, NEW x \in Read(v), x = END, w = NextAlophone(v, x) PROVE VoiceInv'
  <2>1. w = Ceased(v)
    BY <1>6 DEF NextAlophone
  <2>2. w \in VoiceStates /\ Same(w, v) /\ ~w.playing /\ w.seq = <<>> /\ w.id = NoItem /\ w.said = v.said
    BY <1>1, <2>1, CeasedIs
  <2>3. ASSUME v.alone PROVE Prefix(w) /\ w.due[Len(w.said) + 1] = END
    <3>1. v.seq = v.due /\ v.idx - 1 \in 1..(Len(v.due) - 1)
          /\ Len(v.said) = v.idx - (IF v.data < Samples THEN 2 ELSE 1)
      BY <1>3, <2>3 DEF Midway
    <3>2. v.idx \in 1..Len(v.due) /\ Len(v.said) = v.idx - 1
      BY <1>2, <1>6, <3>1
    <3> QED
      BY <1>1, <1>3, <1>6, <2>3, <3>1, <3>2, NextRight
  <2>4. VoiceRight(w)
    BY <1>3, <2>2, <2>3 DEF VoiceRight, Alone, Same
  <2> QED
    BY <2>4 DEF VoiceInv, w
<1>7. ASSUME v.data >= Samples, NEW x \in Read(v), x # END, w = Sampled(NextAlophone(v, x)) PROVE VoiceInv'
  <2> DEFINE u == NextAlophone(v, x)
  <2>1. x \in Codes /\ x \in Items
    BY <1>1, <1>7, ReadCode DEF Codes
  <2>2. u \in VoiceStates /\ Same(u, v) /\ u.playing = v.playing /\ u.id = x /\ u.data = 0
    BY <1>1, <1>7, <2>1, LoadedIs
  <2>3. ASSUME v.alone PROVE Prefix(u) /\ Midway(u)
    <3>1. v.seq = v.due /\ v.idx - 1 \in 1..(Len(v.due) - 1)
          /\ Len(v.said) = v.idx - (IF v.data < Samples THEN 2 ELSE 1)
      BY <1>3, <2>3 DEF Midway
    <3>2. v.idx \in 1..Len(v.due) /\ Len(v.said) = v.idx - 1
      BY <1>2, <1>7, <3>1
    <3> QED
      BY <1>1, <1>3, <1>7, <2>3, <3>1, <3>2, NextRight
  <2>4. w = Sampled(u)
    BY <1>7
  <2> HIDE DEF u
  <2>5. w \in VoiceStates /\ Same(w, u) /\ w.playing = u.playing
    BY <2>1, <2>2, <2>4, SampledIs
  <2>6. v.alone => Prefix(w) /\ Midway(w)
    <3>1. u.data < Samples /\ u.id \in Items
      BY <1>2, <2>1, <2>2
    <3> QED
      BY <2>2, <2>3, <2>4, <3>1, SampleRight
  <2>7. VoiceRight(w)
    BY <1>1, <1>3, <2>2, <2>5, <2>6 DEF VoiceRight, Alone, Same
  <2> QED
    BY <2>7 DEF VoiceInv, w
<1> QED
  BY <1>4, <1>5, <1>6, <1>7

\* What is left of Speech.
LEMMA SpeechStepRight == ASSUME VoiceInv, SpeechGoesOn PROVE VoiceInv'
<1> DEFINE v == voice
           w == voice'
           yes == TRUE
           one == 1
<1>1. v \in VoiceStates /\ (v.alone => Alone(v)) /\ (~v.playing => v.id = NoItem)
  BY DEF VoiceInv, VoiceRight
<1>2. /\ v.due \in Seq(Codes) /\ v.alone \in BOOLEAN /\ v.playing \in BOOLEAN
      /\ yes \in BOOLEAN /\ yes /\ one \in Nat \ {0} /\ one = 1
  BY <1>1, VoiceParts
<1>3. \/ v.step = "sequence" /\ w = [v EXCEPT !.seq = v.due, !.step = "index"]
      \/ v.step = "index" /\ w = [v EXCEPT !.idx = one, !.step = "playing"]
      \/ v.step = "playing" /\ w = [v EXCEPT !.playing = yes, !.step = "load"]
      \/ v.step = "load" /\ \E x \in Read(v) : w = [NextAlophone(v, x) EXCEPT !.step = "none"]
  BY DEF SpeechGoesOn
<1>4. ~v.playing /\ v.step = "load" => v.seq = <<>>
  BY DEF VoiceInv, VoiceRight
<1> HIDE DEF v, w, yes, one
<1>5. CASE v.step = "sequence" /\ w = [v EXCEPT !.seq = v.due, !.step = "index"]
  <2>1. w \in VoiceStates
    BY <1>1, <1>2, <1>5 DEF VoiceStates
  <2>2. /\ w.step = "index" /\ w.due = v.due /\ w.seq = v.due /\ w.id = v.id /\ w.playing = v.playing
        /\ w.said = v.said /\ w.alone = v.alone
    BY <1>1, <1>5 DEF VoiceStates
  <2>3. w.alone => Alone(w)
    BY <1>1, <1>5, <2>2 DEF Alone, Prefix
  <2>4. VoiceRight(w)
    BY <1>1, <2>1, <2>2, <2>3 DEF VoiceRight
  <2> QED
    BY <2>4 DEF VoiceInv, w
<1>6. CASE v.step = "index" /\ w = [v EXCEPT !.idx = one, !.step = "playing"]
  <2>1. w \in VoiceStates
    BY <1>1, <1>2, <1>6 DEF VoiceStates
  <2>2. /\ w.step = "playing" /\ w.due = v.due /\ w.seq = v.seq /\ w.id = v.id /\ w.playing = v.playing
        /\ w.said = v.said /\ w.alone = v.alone /\ w.idx = 1
    BY <1>1, <1>2, <1>6 DEF VoiceStates
  <2>3. w.alone => Alone(w)
    BY <1>1, <1>6, <2>2 DEF Alone, Prefix
  <2>4. VoiceRight(w)
    BY <1>1, <2>1, <2>2, <2>3 DEF VoiceRight
  <2> QED
    BY <2>4 DEF VoiceInv, w
<1>7. CASE v.step = "playing" /\ w = [v EXCEPT !.playing = yes, !.step = "load"]
  <2>1. w \in VoiceStates
    BY <1>1, <1>2, <1>7 DEF VoiceStates
  <2>2. /\ w.step = "load" /\ w.due = v.due /\ w.seq = v.seq /\ w.id = v.id /\ w.playing
        /\ w.said = v.said /\ w.alone = v.alone /\ w.idx = v.idx
    BY <1>1, <1>2, <1>7 DEF VoiceStates
  <2>3. w.alone => Alone(w)
    BY <1>1, <1>7, <2>2 DEF Alone, Prefix
  <2>4. VoiceRight(w)
    BY <1>1, <2>1, <2>2, <2>3 DEF VoiceRight
  <2> QED
    BY <2>4 DEF VoiceInv, w
<1>8. ASSUME v.step = "load", NEW x \in Read(v), w = [NextAlophone(v, x) EXCEPT !.step = "none"] PROVE VoiceInv'
  <2> DEFINE u == NextAlophone(v, x)
             none == "none"
  <2>1. x \in Codes
    BY <1>1, ReadCode
  <2>2. /\ u \in VoiceStates /\ Same(u, v) /\ u.said = v.said
        /\ x = END => ~u.playing /\ u.seq = <<>> /\ u.id = NoItem
        /\ x # END => u.playing = v.playing
    <3>1. CASE x = END
      <4>1. u = Ceased(v)
        BY <3>1 DEF NextAlophone
      <4> QED
        BY <1>1, <3>1, <4>1, CeasedIs
    <3>2. CASE x # END
      BY <1>1, <2>1, <3>2, LoadedIs
    <3> QED
      BY <3>1, <3>2
  <2>3. ASSUME v.alone
        PROVE  /\ Prefix(u) /\ (x = END => u.due[Len(u.said) + 1] = END)
               /\ (x # END => u.playing /\ Midway(u))
    <3>1. Prefix(v) /\ v.said = <<>> /\ v.playing /\ v.seq = v.due /\ v.idx = 1
      BY <1>1, <1>8, <2>3 DEF Alone
    <3>2. Len(v.said) = v.idx - 1 /\ v.idx \in 1..Len(v.due)
      <4>1. Len(v.said) = 0 /\ Len(v.said) < Len(v.due) /\ Len(v.due) \in Nat
        BY <1>1, <3>1, VoiceParts, EmptySeq DEF Prefix
      <4> QED
        BY <3>1, <4>1
    <3>3. /\ Prefix(u) /\ (x = END => u.due[Len(u.said) + 1] = END)
          /\ (x # END => u.playing = v.playing /\ Midway(u))
      BY <1>1, <1>8, <3>1, <3>2, NextRight
    <3> QED
      BY <3>1, <3>3
  <2>4. x # END => v.playing
    BY <1>1, <1>4, <1>8, ReadCode
  <2>5. w = [u EXCEPT !.step = none] /\ none = "none"
    BY <1>8
  <2> HIDE DEF u, none
  <2>6. w \in VoiceStates
    BY <2>2, <2>5 DEF VoiceStates
  <2>7. /\ w.step = none /\ w.due = u.due /\ w.seq = u.seq /\ w.idx = u.idx /\ w.id = u.id
        /\ w.data = u.data /\ w.playing = u.playing /\ w.said = u.said /\ w.alone = u.alone
    BY <2>2, <2>5 DEF VoiceStates
  <2>8. u.alone = v.alone
    BY <2>2 DEF Same
  <2>9. Prefix(u) => Prefix(w)
    BY <2>7 DEF Prefix
  <2>10. Midway(u) => Midway(w)
    BY <2>7 DEF Midway
  <2>11. w.alone => Alone(w)
    <3>1. ASSUME w.alone PROVE Alone(w)
      <4>1. v.alone
        BY <2>7, <2>8, <3>1
      <4>2. Prefix(w) /\ (x = END => w.due[Len(w.said) + 1] = END /\ ~w.playing)
            /\ (x # END => w.playing /\ Midway(w))
        BY <2>2, <2>3, <2>7, <2>9, <2>10, <4>1
      <4>3. w.step = "none"
        BY <2>5, <2>7
      <4> QED
        BY <4>2, <4>3 DEF Alone
    <3> QED
      BY <3>1
  <2>12. ~w.playing => w.id = NoItem /\ w.seq = <<>>
    BY <2>2, <2>4, <2>7
  <2>13. VoiceRight(w)
    BY <2>6, <2>11, <2>12 DEF VoiceRight
  <2> QED
    BY <2>13 DEF VoiceInv, w
<1> QED
  BY <1>3, <1>5, <1>6, <1>7, <1>8

\* What was begun in silence is a string of items up to its end.
LEMMA SpeakRight ==
  ASSUME VoiceInv, voice.step = "none", NEW due \in Seq(Codes), NEW seq \in Seq(Codes), NEW fg \in BOOLEAN,
         due # <<>>, ~voice.playing => due[Len(due)] = END, Speak(due, seq, fg)
  PROVE  VoiceInv'
<1> DEFINE v == voice
           w == voice'
           empty == <<>>
           alone == ~v.playing
           u == [v EXCEPT !.due = due, !.seq = seq, !.fg = fg, !.said = empty, !.alone = alone]
           sequence == "sequence"
<1>1. v \in VoiceStates /\ (~v.playing => v.id = NoItem)
  BY DEF VoiceInv, VoiceRight
<1>2. empty \in Seq(Items) /\ empty = <<>> /\ alone \in BOOLEAN /\ v.step = "none" /\ Len(empty) = 0
      /\ due \in Seq(Codes) /\ seq \in Seq(Codes) /\ fg \in BOOLEAN
      /\ sequence \in {"none", "sequence", "index", "playing", "load"} /\ sequence = "sequence"
  BY <1>1, EmptySeq
<1>3. w = IF due[1] = END THEN Ceased(u) ELSE [u EXCEPT !.step = sequence]
  BY DEF Speak
<1>4. Len(due) \in Nat \ {0}
  BY LenProperties, EmptySeq
<1>5. alone => ~v.playing
  OBVIOUS
<1>6. ~v.playing => due[Len(due)] = END
  OBVIOUS
<1>7. due # <<>>
  OBVIOUS
<1> HIDE DEF v, w, empty, alone, sequence
<1>8. u \in VoiceStates
  BY <1>1, <1>2 DEF VoiceStates
<1>9. /\ u.step = "none" /\ u.due = due /\ u.said = empty /\ u.alone = alone /\ u.playing = v.playing
      /\ u.id = v.id
  BY <1>1, <1>2 DEF VoiceStates
<1> HIDE DEF u
<1>10. ASSUME NEW s, s.due = due, s.said = empty, alone PROVE Prefix(s)
  <2>1. Len(s.said) < Len(s.due) /\ \A i \in 1..Len(s.said) : s.said[i] = s.due[i]
    BY <1>2, <1>4, <1>10
  <2> QED
    BY <1>5, <1>6, <1>7, <1>10, <2>1 DEF Prefix
<1>11. CASE due[1] = END
  <2>1. w = Ceased(u)
    BY <1>3, <1>11
  <2>2. /\ w \in VoiceStates /\ Same(w, u) /\ ~w.playing /\ w.seq = <<>> /\ w.id = NoItem /\ w.said = u.said
    BY <1>8, <2>1, CeasedIs
  <2>3. w.step = "none" /\ w.due = due /\ w.alone = alone /\ w.said = empty
    BY <1>9, <2>2 DEF Same
  <2>4. w.due[Len(w.said) + 1] = END
    BY <1>2, <1>11, <2>3
  <2>5. w.alone => Alone(w)
    BY <1>10, <2>2, <2>3, <2>4 DEF Alone
  <2>6. VoiceRight(w)
    BY <2>2, <2>5 DEF VoiceRight
  <2> QED
    BY <2>6 DEF VoiceInv, w
<1>12. CASE due[1] # END
  <2>1. w = [u EXCEPT !.step = sequence]
    BY <1>3, <1>12
  <2>2. w \in VoiceStates
    BY <1>2, <1>8, <2>1 DEF VoiceStates
  <2>3. /\ w.step = sequence /\ w.due = due /\ w.alone = alone /\ w.said = empty
        /\ w.playing = v.playing /\ w.id = v.id
    BY <1>8, <1>9, <2>1 DEF VoiceStates
  <2>4. w.alone => Prefix(w) /\ ~w.playing /\ w.id = NoItem
    BY <1>1, <1>5, <1>10, <2>3
  <2>5. w.alone => Alone(w)
    BY <1>2, <2>3, <2>4 DEF Alone
  <2>6. VoiceRight(w)
    BY <1>1, <1>2, <2>2, <2>3, <2>5 DEF VoiceRight
  <2> QED
    BY <2>6 DEF VoiceInv, w
<1> QED
  BY <1>11, <1>12

\* Two strings, joined.
LEMMA Joined ==
  ASSUME NEW S, NEW a \in Seq(S), NEW b \in Seq(S)
  PROVE  /\ a \o b \in Seq(S) /\ (b # <<>> => a \o b # <<>> /\ (a \o b)[Len(a \o b)] = b[Len(b)])
         /\ (a # <<>> => a \o b # <<>>)
<1>1. a \o b \in Seq(S) /\ Len(a \o b) = Len(a) + Len(b) /\ Len(a) \in Nat /\ Len(b) \in Nat
  BY LenProperties
<1>2. (b # <<>> => Len(b) > 0) /\ (a # <<>> => Len(a) > 0)
  BY <1>1, EmptySeq
<1>3. a \o b = <<>> => Len(a \o b) = 0
  BY EmptySeq
<1>4. b # <<>> => (a \o b)[Len(a) + Len(b)] = b[Len(b)]
  BY <1>1, <1>2
<1> QED
  BY <1>1, <1>2, <1>3, <1>4

LEMMA Closed ==
  ASSUME NEW S, NEW s \in Seq(S), NEW e \in S
  PROVE  /\ Append(s, e) \in Seq(S) /\ Append(s, e) # <<>>
         /\ Append(s, e)[Len(Append(s, e))] = e
<1>1. /\ Append(s, e) \in Seq(S) /\ Len(Append(s, e)) = Len(s) + 1
      /\ Append(s, e)[Len(s) + 1] = e /\ Len(s) \in Nat
  BY AppendProperties, LenProperties
<1>2. Append(s, e) = <<>> => Len(Append(s, e)) = 0
  BY EmptySeq
<1> QED
  BY <1>1, <1>2

LEMMA TextRight == ASSUME VoiceInv, voice.step = "none", NEW text \in Texts, NEW fg \in BOOLEAN, SpeakText(text, fg)
                   PROVE VoiceInv'
<1> DEFINE c == Converted(text)
<1>1. c \in Seq(Codes) /\ c # <<>> /\ c[Len(c)] = END
  <2>1. text \in Seq(STRING \X Nat)
    BY VoiceBounds
  <2>2. Spelled(text) \in Seq(Items)
    BY <2>1, SpelledItems
  <2> DEFINE s == Spelled(text)
  <2>3. s \in Seq(Codes) /\ END \in Codes
    BY <2>2 DEF Codes
  <2>4. c = Append(s, END)
    BY DEF Converted
  <2> HIDE DEF c, s
  <2> QED
    BY <2>3, <2>4, Closed
<1>2. voice.seq \in Seq(Codes) /\ voice \in VoiceStates
  BY VoiceParts DEF VoiceInv, VoiceRight
<1> HIDE DEF c
<1>3. CASE voice.seq = <<>>
  <2> DEFINE empty == <<>>
  <2>1. empty \in Seq(Codes) /\ Speak(c, empty, fg)
    BY <1>3, EmptySeq DEF SpeakText, c
  <2> HIDE DEF empty
  <2> QED
    BY <1>1, <2>1, SpeakRight
<1>4. CASE voice.seq # <<>>
  <2>1. PICK s : s = c \o SubSeq(voice.seq, Len(c) + 1, Len(voice.seq)) /\ Speak(s, s, fg)
    BY <1>4 DEF SpeakText, c
  <2>2. voice.playing
    BY <1>4 DEF VoiceInv, VoiceRight
  <2>3. SubSeq(voice.seq, Len(c) + 1, Len(voice.seq)) \in Seq(Codes)
    <3>1. Len(c) \in Nat /\ Len(voice.seq) \in Nat
      BY <1>1, <1>2, LenProperties
    <3> QED
      BY <1>2, <3>1, SubSeqProperties
  <2>4. s \in Seq(Codes) /\ s # <<>>
    BY <1>1, <2>1, <2>3, Joined
  <2> QED
    BY <2>1, <2>2, <2>4, SpeakRight
<1> QED
  BY <1>3, <1>4

LEMMA BytesRight == ASSUME VoiceInv, voice.step = "none", SpeakBytes PROVE VoiceInv'
<1> DEFINE pair == <<"PA1", "PA1">>
<1>1. PICK str \in Strings, after \in StackBytes : Speak(str \o pair \o Append(after, END), voice.seq, TRUE)
  BY DEF SpeakBytes
<1>2. str \in Seq(Codes) /\ after \in Seq(Items \cup {END})
  BY VoiceBounds DEF Codes
<1>3. pair \in Seq(Codes)
  <2>1. "PA1" \in Codes
    BY DEF Codes, Items
  <2> HIDE DEF Codes
  <2> QED
    BY <2>1
<1>4. voice.seq \in Seq(Codes)
  BY VoiceParts DEF VoiceInv, VoiceRight
<1> DEFINE a == str \o pair
           b == Append(after, END)
<1>5. a \in Seq(Codes)
  <2> HIDE DEF Codes, pair
  <2> QED
    BY <1>2, <1>3, Joined
<1>6. b \in Seq(Codes) /\ b # <<>> /\ b[Len(b)] = END
  <2>1. after \in Seq(Codes) /\ END \in Codes
    BY <1>2 DEF Codes
  <2> HIDE DEF Codes
  <2> QED
    BY <2>1, Closed
<1>7. Speak(a \o b, voice.seq, TRUE)
  BY <1>1
<1> HIDE DEF a, b
<1>8. a \o b \in Seq(Codes) /\ a \o b # <<>> /\ (a \o b)[Len(a \o b)] = END
  BY <1>5, <1>6, Joined
<1> QED
  BY <1>4, <1>7, <1>8, SpeakRight

\* Every other action leaves the voice alone.
LEMMA VoiceStep == ASSUME VoiceInv, [Next]_playersVars PROVE VoiceInv'
<1>1. CASE voice' = voice
  BY <1>1 DEF VoiceInv
<1>2. ASSUME Say PROVE VoiceInv'
  <2>1. voice.step = "none"
    BY <1>2 DEF Say, Command, InLoop, Loop
  <2>2. PICK text \in Texts, how \in {"wait", "background", "serial"} : SpeakText(text, how = "wait")
    BY <1>2 DEF Say
  <2> QED
    BY <2>1, <2>2, TextRight
<1>3. ASSUME BinarySay PROVE VoiceInv'
  BY <1>3, BytesRight DEF BinarySay, Command, InLoop, Loop
<1>4. ASSUME SpeechStep PROVE VoiceInv'
  BY <1>4, SpeechStepRight DEF SpeechStep
<1>5. ASSUME VoiceTick PROVE VoiceInv'
  BY <1>5, SampleStep DEF VoiceTick
<1>6. Play \/ OtherString \/ PlayUpdate \/ NoteEnds \/ ResetPlay => voice' = voice
  BY DEF Play, OtherString, PlayUpdate, NoteEnds, ResetPlay
<1>7. PlayVgm \/ PauseVgm \/ ContVgm \/ LoopVgm \/ VgmCommand \/ VgmDue => voice' = voice
  <2>1. PlayVgm \/ ContVgm \/ LoopVgm => voice' = voice
    BY Zenon DEF PlayVgm, ContVgm, LoopVgm
  <2>2. PauseVgm \/ VgmDue => voice' = voice
    BY Zenon DEF PauseVgm, VgmDue
  <2>3. VgmCommand => voice' = voice
    BY Zenon DEF VgmCommand
  <2> QED
    BY <2>1, <2>2, <2>3
<1>8. PegCommand \/ ExecPeg \/ PegDue => voice' = voice
  BY DEF PegCommand, ExecPeg, PegDue
<1>9. Save \/ LoadBegins \/ LoadEnds \/ SetReg => voice' = voice
  BY DEF Save, LoadBegins, LoadEnds, SetReg
<1>10. StartWav \/ Sample \/ LoadWav \/ LoadWavDone => voice' = voice
  BY DEF StartWav, Sample, LoadWav, LoadWavDone
<1>11. UNCHANGED playersVars => voice' = voice
  BY DEF playersVars
<1> QED
  BY <1>1, <1>2, <1>3, <1>4, <1>5, <1>6, <1>7, <1>8, <1>9, <1>10, <1>11 DEF Next

LEMMA VoiceBegins == ASSUME VoiceInit PROVE VoiceInv
<1> DEFINE empty == <<>>
           end == <<END>>
           no == FALSE
           yes == TRUE
           v == [step |-> "none", due |-> end, seq |-> empty, idx |-> 1, id |-> NoItem, data |-> 0,
                 playing |-> no, fg |-> no, said |-> empty, alone |-> yes]
<1>1. /\ empty \in Seq(Codes) /\ empty \in Seq(Items) /\ Len(empty) = 0 /\ empty = <<>>
      /\ end \in Seq(Codes) /\ Len(end) = 1 /\ end[1] = END /\ end # <<>>
      /\ no \in BOOLEAN /\ yes \in BOOLEAN /\ ~no
  <2>1. END \in Codes
    BY DEF Codes
  <2> HIDE DEF Codes, Items
  <2> QED
    BY <2>1, EmptySeq
<1>2. voice = v
  BY DEF VoiceInit
<1> HIDE DEF empty, end, no, yes
<1>3. v \in VoiceStates
  BY <1>1 DEF VoiceStates
<1>4. Prefix(v) /\ v.due[Len(v.said) + 1] = END
  BY <1>1 DEF Prefix
<1>5. Alone(v)
  BY <1>1, <1>4 DEF Alone
<1> QED
  BY <1>1, <1>2, <1>3, <1>5 DEF VoiceInv, VoiceRight

-----------------------------------------------------------------------------
(* The theorems.                                                           *)

\* What the tune, the VGM and the snapshot may be at, and Silence: for every
\* song, every VGM, every PEG program and every number of voices.
THEOREM PlayersInvariant == Spec => []PlayersInv
<1>1. PlayersInv /\ [Next]_playersVars => PlayersInv'
  BY PlayRight, OtherRight, SayRight, UpdateRight, NoteEndsRight, ResetRight, VgmActions, OtherActions, SaveRight,
     LoadBeginsRight, LoadEndsRight DEF Next
<1> QED
  BY InitRight, <1>1, PTL DEF Spec

\* A note never outlives its player: when PLAY or a VGM ends, is stopped,
\* paused, replaced or runs out of file, no amplitude of its own is left, but a
\* note of a voice after an H (play_parser_stop, read_next_VGM_command,
\* cmd_stop_VGM, mcustate_quiet).
THEOREM NoteEndsWithPlayer == Spec => []Silence
<1>1. PlayersInv => Silence
  BY DEF PlayersInv
<1> QED
  BY <1>1, PlayersInvariant, PTL

\* What may be being said: at every step of Speech, and after every sample, for
\* every text, string and number of samples.
THEOREM VoiceInvariant == Spec => []VoiceInv
<1>1. Init => VoiceInv
  BY VoiceBegins DEF Init
<1>2. VoiceInv /\ [Next]_playersVars => VoiceInv'
  BY VoiceStep
<1> QED
  BY <1>1, <1>2, PTL DEF Spec

\* What is begun in silence is said whole: every item once and in order up to
\* the end, however the interrupt falls between the steps of Speech (Speech,
\* load_next_alophone, voice_synthesizer_get_sample).
THEOREM SaidWhole == Spec => []SpokenWhole
<1>1. VoiceInv => SpokenWhole
  BY DEF VoiceInv, VoiceRight, Alone, Prefix, SpokenWhole
<1> QED
  BY <1>1, VoiceInvariant, PTL
=============================================================================
