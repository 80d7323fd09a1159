---------------------------------- MODULE B81 ---------------------------------
(***************************************************************************)
(* LOAD of a listing: b81_to_p makes of a text (.B81) the image of a BASIC *)
(* program (.P), in two passes over the file (B81.cpp).  The first numbers *)
(* the lines and finds the labels; the second numbers them again and       *)
(* converts them.                                                          *)
(*                                                                         *)
(* A line of the text is what begins it (mark), whether it goes on in the  *)
(* next one (cont), and the rest, a sequence of tokens: "q" a quote, "e"   *)
(* one that is written as such (\"), "rem", "goto" (of those a line number *)
(* may follow), "word" another keyword, "dig" a digit, "let" a letter,     *)
(* "sign" another character, "bad" what cannot be converted, and labels.   *)
(* Where a line has more than its mark, or goes on, a space follows the    *)
(* mark.                                                                   *)
(***************************************************************************)
EXTENDS Integers, Sequences, FiniteSets, SequencesExt

CONSTANTS
  Listings,              \* the texts
  Labels,                \* "@..."
  MAX_LABELS,            \* 64
  LINE_INC,              \* 10
  MAX_LINE,              \* 16383
  SYSVARS, TAIL,         \* bytes before and after the lines: 116 and 26
  B81_MAX_P              \* 16375

\* What may begin a line: a number, which may be far to the right, beyond what
\* the first pass keeps of a line (HEAD); a label; "#!basic-start="; or nothing
\* of these.
Beginnings ==
  {<<"blank">>, <<"text">>, <<"comment">>} \cup ({"label"} \X Labels)
    \cup ({"num", "far", "start"} \X Int)

ASSUME B81Bounds ==
  /\ Listings \subseteq Seq([mark : Beginnings, cont : BOOLEAN,
                             body : Seq({"q", "e", "rem", "goto", "word", "dig", "let", "sign",
                                         "bad"}
                                        \cup Labels)])
  /\ MAX_LABELS \in Nat /\ MAX_LINE \in Nat /\ LINE_INC \in Nat \ {0}
  /\ SYSVARS \in Nat /\ TAIL \in Nat /\ B81_MAX_P \in Nat

VARIABLES
  text,
  pass,         \* "number", "convert", "done", "failed"
  at,           \* the next line of the text
  current,      \* the last number
  labels,       \* [label -> line]
  startLine,    \* #!basic-start, or NoStart
  prog,         \* the lines converted
  pos,          \* bytes
  nxtlin        \* the line of prog it starts at, or 0

b81Vars == <<text, pass, at, current, labels, startLine, prog, pos, nxtlin>>
NoStart == -2

B81Init ==
  /\ text \in Listings
  /\ pass \in {"number", "failed"}   \* no memory, or no file
  /\ at = 1 /\ current = -1 /\ labels = [l \in {} |-> 0]
  /\ startLine = NoStart /\ prog = <<>> /\ pos = 0 /\ nxtlin = 0

-----------------------------------------------------------------------------
(* Reading: lines that go on are joined, blank ones left out; one that goes *)
(* on at the end of the file is lost.                                      *)

Solid(i) == text[i].mark # <<"blank">>
Lasts(i) == {k \in i..Len(text) : Solid(k) /\ ~text[k].cont}
Firsts == {k \in at..Len(text) : Solid(k)}
Earliest(S) == CHOOSE k \in S : \A j \in S : k <= j

More == Lasts(at) # {}
First == Earliest(Firsts)
Past == Earliest(Lasts(at)) + 1
Mark == text[First].mark
\* In a line that goes on another, what begins it is text like the rest: a
\* number, which counts as one digit, "#", or "@" and "!", which have no code.
MarkText(m) ==
  CASE m[1] \in {"num", "far"}     -> <<"dig">>
    [] m[1] = "comment"            -> <<"sign">>
    [] m[1] \in {"label", "start"} -> <<"bad">>
    [] m[1] \in {"blank", "text"}  -> <<>>
Pieces == [k \in 1..(Past - First) |->
             LET line == text[First + k - 1] IN
             IF k = 1 THEN line.body
             ELSE IF Solid(First + k - 1) THEN MarkText(line.mark) \o line.body ELSE <<>>]
Body == FlattenSeq(Pieces)

Fail == pass' = "failed" /\ UNCHANGED <<text, at, current, labels, startLine, prog, pos, nxtlin>>

\* "#": the first "#!basic-start=" says where it starts.
Commented == Mark[1] \in {"comment", "start"}
Comment ==
  /\ pass \in {"number", "convert"} /\ More /\ Commented
  /\ at' = Past
  /\ startLine' = IF startLine = NoStart /\ Mark[1] = "start" THEN Mark[2] ELSE startLine
  /\ UNCHANGED <<text, pass, current, labels, prog, pos, nxtlin>>

\* numberLine: its own number, or the next.
Numbered(m, p) == m[1] = "num" \/ (m[1] = "far" /\ p = "convert")
Number(m, p, last) ==
  IF Numbered(m, p) THEN m[2] ELSE (IF last = -1 THEN 0 ELSE last) + LINE_INC
MInOrder(m, p, last) ==
  /\ Numbered(m, p) => m[2] >= last
  /\ Number(m, p, last) \in 0..MAX_LINE
InOrder(m, p, last) ==
  /\ Numbered(m, p) => m[2] > last
  /\ Number(m, p, last) \in 0..MAX_LINE

\* The first line with a label has it.
WithLabel(n) ==
  IF Mark[1] # "label" \/ Mark[2] \in DOMAIN labels THEN labels
  ELSE [l \in DOMAIN labels \cup {Mark[2]} |-> IF l = Mark[2] THEN n ELSE labels[l]]

NumberLine ==
  /\ pass = "number" /\ More /\ ~Commented
  /\ LET n == Number(Mark, pass, current) IN
     IF InOrder(Mark, pass, current) /\ Cardinality(DOMAIN WithLabel(n)) <= MAX_LABELS
     THEN /\ current' = n /\ labels' = WithLabel(n) /\ at' = Past
          /\ UNCHANGED <<text, pass, startLine, prog, pos, nxtlin>>
     ELSE Fail

\* What comes before the lines.
Header == pos' = SYSVARS

MSecondPass ==
  /\ pass = "number" /\ ~More
  /\ \/ Fail
     \/ /\ pass' = "convert" /\ at' = 1 /\ Header
        /\ UNCHANGED <<text, current, labels, startLine, prog, nxtlin>>
\* The file again, and memory for the longest line; or not.
SecondPass ==
  /\ pass = "number" /\ ~More
  /\ \/ Fail
     \/ /\ pass' = "convert" /\ at' = 1 /\ current' = -1 /\ Header
        /\ UNCHANGED <<text, labels, startLine, prog, nxtlin>>

-----------------------------------------------------------------------------
(* Converting a line, in the order of the code: labels, quotes inside      *)
(* strings, keywords, numbers.                                             *)

Quotes(b, i) == {k \in 1..(i - 1) : b[k] = "q"}
Inside(b, i) == Cardinality(Quotes(b, i)) % 2 = 1
\* replaceLabels goes up to a REM that is not in a string.
Reached(b, i) == \A k \in 1..(i - 1) : b[k] = "rem" => Inside(b, k)
Jump(b, i) == i > 1 /\ b[i] \in Labels /\ b[i - 1] = "goto" /\ ~Inside(b, i) /\ Reached(b, i)
Targets(b) == {b[i] : i \in {k \in DOMAIN b : Jump(b, k)}}
Labelled(b) == [i \in DOMAIN b |-> IF Jump(b, i) THEN "line" ELSE b[i]]

\* "" in a string is a quote of it, but in a line that begins with REM.
Paired(b) ==
  LET Step(s, t) ==
        CASE t = "q" /\ ~s.in           -> [in |-> TRUE, open |-> FALSE, out |-> Append(s.out, t)]
          [] t = "q" /\ s.in /\ ~s.open -> [s EXCEPT !.open = TRUE]
          [] t = "q" /\ s.open          -> [s EXCEPT !.open = FALSE, !.out = Append(@, "e")]
          [] t # "q" /\ s.open          -> [in |-> FALSE, open |-> FALSE, out |-> s.out \o <<"q", t>>]
          [] t # "q" /\ ~s.open         -> [s EXCEPT !.out = Append(@, t)]
      r == FoldLeft(Step, [in |-> FALSE, open |-> FALSE, out |-> <<>>], b)
  IN  IF b # <<>> /\ b[1] = "rem" THEN b ELSE IF r.open THEN Append(r.out, "q") ELSE r.out

AtQuotes(b, i) == {k \in i..Len(b) : b[k] = "q"}
RemBefore(b, i, q) == \E k \in i..(q - 1) : b[k] = "rem"

\* maskStrings, from the first quote: what is in strings, until a REM comes
\* before the next quote or there is none.
InStrings(b) ==
  LET state[i \in 0..Len(b)] ==
        IF i = 0
        THEN [in |-> FALSE, masked |-> {},
              over |-> AtQuotes(b, 1) = {} \/ RemBefore(b, 1, Earliest(AtQuotes(b, 1)))]
        ELSE LET s == state[i - 1] IN
             CASE s.over \/ i < Earliest(AtQuotes(b, 1)) -> s
               [] ~s.over /\ b[i] = "q" -> [s EXCEPT !.in = ~@]
               [] ~s.over /\ b[i] # "q" /\ s.in -> [s EXCEPT !.masked = @ \cup {i}]
               [] OTHER -> [s EXCEPT !.over = \/ AtQuotes(b, i + 1) = {}
                                              \/ RemBefore(b, i + 1, Earliest(AtQuotes(b, i + 1)))]
  IN  state[Len(b)].masked

MInRem(b, hidden) ==
  LET rems == {k \in DOMAIN b : b[k] = "rem"}
  IN  IF rems = {} THEN {} ELSE (Earliest(rems) + 1)..Len(b)
\* maskRem: what follows the first REM that is not in a string.
InRem(b, hidden) ==
  LET from[p \in 1..(Len(b) + 1)] ==
        LET rems == {k \in p..Len(b) : b[k] = "rem" /\ k \notin hidden}
            r    == Earliest(rems)
            q    == Earliest(AtQuotes(b, p))
        IN  IF rems = {} THEN {}
            ELSE IF AtQuotes(b, p) = {} \/ r < q THEN (r + 1)..Len(b)
            ELSE IF AtQuotes(b, q + 1) = {} THEN {}
            ELSE from[Earliest(AtQuotes(b, q + 1)) + 1]
  IN  from[1]

Keywords == {"rem", "goto", "word"}
Coded(b) == {i \in DOMAIN b : b[i] \in Keywords} \ (InStrings(b) \cup InRem(b, InStrings(b)))

\* A digit begins a number, but in a name.
StartOfNumber(b, i) == b[i] \in {"dig", "line"} /\ (i > 1 => b[i - 1] \notin {"dig", "let"})

\* What is put out: a keyword's code, a number with its value, or characters.
PutOut(b) ==
  LET state[i \in 0..Len(b)] ==
        IF i = 0 THEN [in |-> FALSE, rem |-> FALSE, out |-> <<>>]
        ELSE LET s  == state[i - 1]
                 in == IF ~s.rem /\ b[i] = "q" THEN ~s.in ELSE s.in
                 rm == s.rem \/ (~s.in /\ b[i] = "rem" /\ i \in Coded(b))
                 as == IF i \in Coded(b) THEN "code"
                       ELSE IF ~in /\ ~rm /\ StartOfNumber(b, i) THEN "value" ELSE "chars"
             IN  [in |-> in, rem |-> rm, out |-> Append(s.out, [tok |-> b[i], as |-> as])]
  IN  state[Len(b)].out

Converted(b) == PutOut(Paired(Labelled(b)))
\* A character with no code ("@" has none, where it is not of a jump).
NoCode(b, i) == b[i] = "bad" \/ (b[i] \in Labels /\ ~Jump(b, i))
Fails(b) == Targets(b) \ DOMAIN labels # {} \/ \E i \in DOMAIN b : NoCode(b, i)

\* A number takes its digit, a mark and five bytes; a line four more and its end.
Bytes(out) == 5 + Len(out) + 6 * Cardinality({i \in DOMAIN out : out[i].as = "value"})

\* A line with something in it, if only a line it goes on in; a number or a
\* label alone is none.
HasMore(line) == line.mark[1] = "text" \/ line.body # <<>> \/ line.cont
Exists == HasMore(text[First])

ConvertLine ==
  /\ pass = "convert" /\ More /\ ~Commented
  /\ LET n == Number(Mark, pass, current) IN
     IF ~InOrder(Mark, pass, current) THEN Fail
     ELSE \E b \in {Body} :
          IF Fails(b) THEN Fail
          ELSE /\ IF ~Exists THEN UNCHANGED <<prog, pos>>
                  ELSE \E out \in {Converted(b)} :
                       /\ pos' = pos + Bytes(out)
                       /\ prog' = Append(prog, [num |-> n, from |-> First, out |-> out,
                                                jumps |-> {[label |-> l, to |-> labels[l]] : l \in Targets(b)}])
               /\ current' = n /\ at' = Past
               /\ pass' = IF pos' > B81_MAX_P THEN "failed" ELSE pass
               /\ UNCHANGED <<text, labels, startLine, nxtlin>>

\* trailer: from the first line that is not before startLine.
Trailer ==
  /\ pass = "convert" /\ ~More
  /\ LET from == {i \in DOMAIN prog : startLine >= 0 /\ prog[i].num >= startLine} IN
     IF pos + TAIL > B81_MAX_P THEN Fail
     ELSE /\ pass' = "done" /\ pos' = pos + TAIL
          /\ nxtlin' = IF from = {} THEN 0 ELSE Earliest(from)
          /\ UNCHANGED <<text, at, current, labels, startLine, prog>>

B81Next == Comment \/ NumberLine \/ SecondPass \/ ConvertLine \/ Trailer
B81Spec == B81Init /\ [][B81Next]_b81Vars
-----------------------------------------------------------------------------
(* What it promises.                                                       *)

\* Where a line of the program begins in the text.
Begins ==
  {i \in DOMAIN text :
     /\ Solid(i) /\ Lasts(i) # {} /\ text[i].mark[1] \notin {"comment", "start"}
     /\ \A j \in 1..(i - 1) : text[j].cont /\ Solid(j) => \E k \in (j + 1)..(i - 1) : Solid(k)}
Far == \E i \in DOMAIN text : text[i].mark[1] = "far"
Labelling(p, l) ==
  /\ p \in Begins /\ text[p].mark = <<"label", l>>
  /\ \A q \in Begins : text[q].mark = <<"label", l>> => p <= q

\* A jump to a label goes where the label is, though its number was found in
\* the first pass and the lines were numbered again in the second: to the
\* first line that is not before the label, also when the label's own line is
\* empty (numberLine, replaceLabels; in texts whose numbers begin within what
\* the first pass keeps of a line).
Jumps ==
  pass = "done" /\ ~Far =>
    \A i \in DOMAIN prog : \A j \in prog[i].jumps :
      \E p \in Begins :
        /\ Labelling(p, j.label)
        /\ \A k \in DOMAIN prog : prog[k].num >= j.to <=> prog[k].from >= p

\* The program is the whole text: every line that has something, once and in
\* order, with the number it gives itself, and numbers that grow; and it
\* starts at the least of them that is not before "#!basic-start="
\* (b81_to_p, readLine, numberLine, trailer).
WholeListing ==
  pass = "done" =>
    /\ {prog[i].from : i \in DOMAIN prog} =
         {i \in Begins : text[i].mark[1] = "text" \/ text[i].body # <<>> \/ text[i].cont}
    /\ \A i, j \in DOMAIN prog : i < j => prog[i].from < prog[j].from /\ prog[i].num < prog[j].num
    /\ \A i \in DOMAIN prog : LET m == text[prog[i].from].mark IN m[1] \in {"num", "far"} => prog[i].num = m[2]
    /\ nxtlin = 0 <=> startLine < 0 \/ \A i \in DOMAIN prog : prog[i].num < startLine
    /\ nxtlin # 0 => \A i \in DOMAIN prog : prog[i].num >= startLine => prog[nxtlin].num <= prog[i].num

\* Nothing is made a keyword or a number inside a string or after REM, and
\* everything is outside, though four parts of the code find the strings, each
\* in its own way (replaceLabels, maskStrings, maskRem, startOfNumber).
InText(out, i) ==
  \/ Cardinality({k \in 1..(i - 1) : out[k].tok = "q"}) % 2 = 1
  \/ \E r \in 1..(i - 1) : /\ out[r].tok = "rem"
                            /\ Cardinality({k \in 1..(r - 1) : out[k].tok = "q"}) % 2 = 0
TextKept ==
  \A n \in DOMAIN prog : LET out == prog[n].out IN
    \A i \in DOMAIN out :
      /\ out[i].tok \in Keywords => (out[i].as = "code" <=> ~InText(out, i))
      /\ out[i].tok = "line" => out[i].as = "value"
      /\ out[i].tok = "dig" =>
           (out[i].as = "value" <=> ~InText(out, i) /\ (i > 1 => out[i - 1].tok \notin {"dig", "let"}))
==============================================================================
