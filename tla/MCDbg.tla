-------------------------------- MODULE MCDbg --------------------------------
(***************************************************************************)
(* Programs, files and sessions of the user for Dbg.                       *)
(***************************************************************************)
EXTENDS DbgSafety

Unpoked == [m |-> Never, h |-> Never, alt |-> Never]
Plain == [m |-> Off, h |-> 0, alt |-> Off]

\* mod, a CALL and what mod rewrites; or a program with a RST 38h of its own.
Program(own) ==
  (0 :> (IF own THEN "FF" ELSE "mod")) @@ (1 :> "call") @@ (2 :> "nop") @@ (Rst :> "ret") @@ (Nmi :> "ret")

Fast == [mem |-> Program(FALSE), nmi |-> FALSE, vid |-> Plain, pk |-> Unpoked, chroma |-> "off",
         c128 |-> FALSE, lock |-> FALSE, cmds |-> <<>>]
Slow == [Fast EXCEPT !.nmi = TRUE]
OwnRst == [Fast EXCEPT !.mem = Program(TRUE)]
\* The normal picture, with the D_FILE elsewhere.
Alt == [Fast EXCEPT !.vid.alt = 170, !.pk = [m |-> Off, h |-> Never, alt |-> 170]]
\* Superfast text with the alternative D_FILE, the Chroma and 128 characters.
Rich == [Fast EXCEPT !.vid = [m |-> SuperText, h |-> 0, alt |-> 170], !.pk = [m |-> SuperText, h |-> 0, alt |-> 170],
                     !.chroma = "on", !.c128 = TRUE]
Hires == [Fast EXCEPT !.vid = [m |-> SuperHr, h |-> 2, alt |-> Off], !.pk = [m |-> SuperHr, h |-> 2, alt |-> Never]]

C(c) == <<c, 0>>
CA(c, a) == <<c, a>>
Key(k) == <<"key", k>>

With(j, l) == [j EXCEPT !.cmds = l]

\* Breakpoints, steps, running to an address, watching a write.
Flow == << C("p"), CA("b", 2), CA("b", 1), C("c"), C("o"), CA("g", 0), CA("bc", 1), CA("w", 2), C("c"), CA("s", 2),
           CA("w", None), CA("e", 2), CA("x", 1), C("c"), C("p"), C("bc"), C("c") >>
\* Into the routine at $0038, out of it, and the trace.
Trace == << C("p"), CA("b", Rst), C("c"), C("u"), CA("t", 3), C("th"), CA("b", 1), C("t"), C("c"), C("p"), C("t"), C("abort"),
            CA("bc", None), C("th"), C("r"), C("m"), C("io"), C("sym"), C("c") >>
\* A reset while it runs with breakpoints, and another while it is stopped.
Resets == << C("p"), CA("b", 1), C("c"), C("c"), C("reset"), C("c"), C("c"), C("reset"), C("p"), C("c") >>
\* v for each kind of picture, steps in it, and back.
View == << C("p"), C("v"), CA("s", 1), C("v"), CA("v", 1), C("s"), C("c"), C("p"), CA("v", 2), C("c") >>
\* The debugger's screen: from the console, with its keys, and after a reset.
Screen == << C("web"), C("p"), C("ui"), Key("H"), Key("S"), Key("B"), Key("2"), Key("O"), Key("V"), Key("V"), Key("Q"),
             Key("C"), C("ui"), C("c"), C("p"), C("c") >>
Keys == << CA("qs", 1), Key("R"), Key("1"), Key("W"), Key("2"), Key("G"), Key("0"), Key("T"), Key("2"), Key("U"), Key("C"),
           C("p"), C("reset"), C("uirun"), C("uirun"), C("p"), C("c") >>
\* Snapshots: running, stopped, with the debugger's picture; and loaded again.
Shots == << CA("qs", 3), C("p"), CA("v", 2), C("snap"), C("c"), CA("load", 0), C("p"), C("ui"), Key("Z"), Key("V"), Key("S"),
            CA("load", 0) >>
Loads == << CA("load", 1), C("snap"), C("ui"), Key("L"), CA("load", 0) >>
\* Captures, running and stopped, from the program's picture and from ours.
Caps == << C("cap"), C("p"), CA("v", 1), C("cap"), C("ui"), C("cap"), CA("qs", 1), C("cap") >>

Text == << [EmptyFile EXCEPT !.pc = 1, !.sp = MaxSp + 1, !.map = "map1", !.chroma = "on",
              !.ay = [v |-> "other", sel |-> 3], !.mem = <<Program(FALSE), [dat |-> "dat2", stk |-> [k \in 1..MaxSp |-> 2]]>>,
              !.col = <<"red", "blue">>, !.p0 = <<"ram0", [m |-> 1, h |-> 1, alt |-> 1]>>, !.sh0 = <<"font", Unpoked>>] >>

\* Any two commands of a few, after a pause.
Few == {C("c"), CA("s", 1), C("v"), CA("v", 2), C("ui"), C("snap"), C("cap"), CA("t", 1), CA("b", 2), C("u"), CA("qs", 3), CA("load", 0), C("p")}
Twos == {<<C("p"), a, b, C("c")>> : a \in Few \ {C("p"), C("u"), CA("load", 0)}, b \in Few}

Sessions ==
  {With(j, l) : j \in {Fast, Slow}, l \in {Flow, Trace, Resets, View, Screen, Keys, Shots, Loads, Caps}}
  \cup {With(OwnRst, l) : l \in {Flow, Trace}}
  \cup {With(j, l) : j \in {Rich, Hires, Alt}, l \in {View, Screen, Shots, Loads, Caps}}
  \cup {With(j, l) : j \in {Rich, Slow}, l \in Twos}

MCJobs == Sessions
MCFiles == Text
=============================================================================
