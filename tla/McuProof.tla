------------------------------ MODULE McuProof -------------------------------
(***************************************************************************)
(* The Z80 and the STM32 never lose step, for strings, blocks, files and   *)
(* listings of any length.                                                 *)
(*                                                                         *)
(* What is left of a routine fits what is left of a handler if no way the  *)
(* two may go on has the one wait for what the other never does: Fits is   *)
(* the largest relation that every exchange preserves.  The proof shows    *)
(* that every routine fits every handler of the command it sends, and that *)
(* McuLink keeps it so, with the resets, listings given up and tunes       *)
(* interrupted that may come in between.                                   *)
(***************************************************************************)
EXTENDS McuSafety, SequenceTheorems, WellFoundedInduction, TLAPS

\* The Z80 uses the commands as both sides mean them, no file fails to open,
\* the length of a file fits its two bytes, and a missing file has none: each
\* of these is a case in which the two sides do not agree in the code.
Agreed ==
  /\ Odd = {} /\ CardFails = FALSE /\ Unset = {0}
  /\ \A n \in Sizes : n \in Lens /\ n < Wrap

-----------------------------------------------------------------------------
(* What fits.                                                              *)

SimpleOps ==
  [op : {"ack", "get", "done", "next", "play", "chdir", "reboot"}]
  \cup [op : {"put"}, v : Nat]
Ops == SimpleOps \cup [op : {"count"}, then : [Lens -> Seq(SimpleOps)]]

SimpleAccesses ==
  [a : {"send"}, c : Commands] \cup [a : {"out", "last"}, v : Nat] \cup [a : {"in", "inchar"}]
Accesses == SimpleAccesses \cup [a : {"incount"}, then : [Lens -> Seq(SimpleAccesses)]]

\* What the Z80 has still to do and the STM32 has still to do, when the STM32
\* owes a toggle ("wait"), when it does not ("go"), and when it has put a byte
\* and waits for the Z80 to read it ("offer"); TRUE if the command is over.
Dealings == {"wait", "go", "offer"} \X Seq(Accesses) \X Seq(Ops) \X BOOLEAN

OnlyDone(h) == \A i \in 1..Len(h) : h[i].op = "done"

WaitFits(r, h, d, F) ==
  /\ h # << >>
  /\ \/ Head(h).op = "ack" /\ << "go", r, Tail(h), d >> \in F
     \/ Head(h).op = "put" /\ << "offer", r, h, d >> \in F
     \/ Head(h).op = "done" /\ << "wait", r, Tail(h), TRUE >> \in F
     \/ Head(h).op = "chdir" /\ << "wait", r, Tail(h), d >> \in F
     \/ /\ Head(h).op = "play" /\ OnlyDone(Tail(h)) /\ Tail(h) # << >>
        /\ << "wait", r, << Status, Ack >> \o Tail(h), d >> \in F
     \/ Head(h).op = "reboot" /\ OnlyDone(Tail(h)) /\ Tail(h) # << >>

GoFits(r, h, d, F) ==
  \/ r = << >> /\ OnlyDone(h) /\ (d \/ h # << >>)
  \/ r = << >> /\ h # << >> /\ Head(h).op = "next"
  \/ /\ r # << >> /\ h # << >>
     /\ \/ /\ Head(r).a \in {"out", "last"} /\ Head(h).op = "get"
           /\ << "wait", Tail(r), Tail(h), d >> \in F
        \/ /\ Head(r).a \in {"out", "last"} /\ Head(h).op = "count" /\ Head(r).v \in Lens
           /\ << "wait", Tail(r), Head(h).then[Head(r).v] \o Tail(h), d >> \in F
        \/ /\ Head(r).a = "send" /\ Head(r).c = "cmd_get_next_char" /\ Head(h).op = "next"
           /\ << "wait", Tail(r), Tail(h), d >> \in F

OfferFits(r, h, d, F) ==
  /\ r # << >> /\ h # << >> /\ Head(h).op = "put"
  /\ \/ Head(r).a = "in" /\ << "wait", Tail(r), Tail(h), d >> \in F
     \/ /\ Head(r).a = "incount" /\ Head(h).v \in Lens
        /\ << "wait", Head(r).then[Head(h).v] \o Tail(r), Tail(h), d >> \in F
     \/ /\ Head(r).a = "inchar"
        /\ IF Head(h).v = EOT
           THEN << "wait", << In >>, Tail(h), d >> \in F
           ELSE /\ << "wait", << >>, Tail(h), d >> \in F
                /\ << "wait", PrintCmdOutput, Tail(h), d >> \in F

Preserved(m, r, h, d, F) ==
  /\ m = "wait"  => WaitFits(r, h, d, F)
  /\ m = "go"    => GoFits(r, h, d, F)
  /\ m = "offer" => OfferFits(r, h, d, F)

Closed(F) == \A s \in F : Preserved(s[1], s[2], s[3], s[4], F)
Fits == UNION {F \in SUBSET Dealings : Closed(F)}

Waits(r, h, d)  == << "wait", r, h, d >> \in Fits
Goes(r, h, d)   == << "go", r, h, d >> \in Fits
Offers(r, h, d) == << "offer", r, h, d >> \in Fits

\* More fits in a larger relation.
LEMMA LargerKeeps ==
  ASSUME NEW F, NEW G, F \subseteq G, NEW m, NEW r, NEW h, NEW d, Preserved(m, r, h, d, F)
  PROVE  Preserved(m, r, h, d, G)
<1>1. WaitFits(r, h, d, F) => WaitFits(r, h, d, G)
  BY DEF WaitFits
<1>2. GoFits(r, h, d, F) => GoFits(r, h, d, G)
  BY DEF GoFits
<1>3. OfferFits(r, h, d, F) => OfferFits(r, h, d, G)
  BY DEF OfferFits
<1> QED
  BY <1>1, <1>2, <1>3 DEF Preserved

\* Fits is preserved, and is all that a step into Fits preserves.
LEMMA FitsIsLargest ==
  /\ Fits \subseteq Dealings /\ Closed(Fits)
  /\ \A s \in Dealings : Preserved(s[1], s[2], s[3], s[4], Fits) => s \in Fits
<1>1. Fits \subseteq Dealings
  BY DEF Fits
<1>2. Closed(Fits)
  <2> SUFFICES ASSUME NEW s \in Fits PROVE Preserved(s[1], s[2], s[3], s[4], Fits)
    BY DEF Closed
  <2>1. PICK F \in SUBSET Dealings : Closed(F) /\ s \in F
    BY DEF Fits
  <2>2. F \subseteq Fits
    BY <2>1 DEF Fits
  <2>3. Preserved(s[1], s[2], s[3], s[4], F)
    BY <2>1 DEF Closed
  <2> QED
    BY <2>2, <2>3, LargerKeeps
<1> DEFINE G == {s \in Dealings : Preserved(s[1], s[2], s[3], s[4], Fits)}
<1>3. Fits \subseteq G
  BY <1>1, <1>2 DEF Closed
<1>4. Closed(G)
  <2> SUFFICES ASSUME NEW s \in G PROVE Preserved(s[1], s[2], s[3], s[4], G)
    BY DEF Closed
  <2>1. Preserved(s[1], s[2], s[3], s[4], Fits)
    OBVIOUS
  <2> QED
    BY <1>3, <2>1, LargerKeeps
<1>5. G \subseteq Fits
  <2>1. G \in SUBSET Dealings
    OBVIOUS
  <2> HIDE DEF G
  <2> QED
    BY <1>4, <2>1 DEF Fits
<1> QED
  BY <1>1, <1>2, <1>5

LEMMA FitsIff ==
  ASSUME NEW r \in Seq(Accesses), NEW h \in Seq(Ops), NEW d \in BOOLEAN
  PROVE  /\ Waits(r, h, d) <=> WaitFits(r, h, d, Fits)
         /\ Goes(r, h, d) <=> GoFits(r, h, d, Fits)
         /\ Offers(r, h, d) <=> OfferFits(r, h, d, Fits)
<1>1. ASSUME NEW m \in {"wait", "go", "offer"}
      PROVE  << m, r, h, d >> \in Fits <=> Preserved(m, r, h, d, Fits)
  <2>1. << m, r, h, d >> \in Dealings
    BY <1>1 DEF Dealings
  <2> DEFINE s == << m, r, h, d >>
  <2>2. s[1] = m /\ s[2] = r /\ s[3] = h /\ s[4] = d
    OBVIOUS
  <2>3. s \in Fits <=> Preserved(s[1], s[2], s[3], s[4], Fits)
    BY <2>1, FitsIsLargest DEF Closed
  <2> QED
    BY <2>2, <2>3
<1>2. /\ Preserved("wait", r, h, d, Fits) <=> WaitFits(r, h, d, Fits)
      /\ Preserved("go", r, h, d, Fits) <=> GoFits(r, h, d, Fits)
      /\ Preserved("offer", r, h, d, Fits) <=> OfferFits(r, h, d, Fits)
  BY DEF Preserved
<1> QED
  BY <1>1, <1>2 DEF Waits, Goes, Offers

LEMMA FitsTypes ==
  ASSUME NEW r, NEW h, NEW d, Waits(r, h, d) \/ Goes(r, h, d) \/ Offers(r, h, d)
  PROVE  r \in Seq(Accesses) /\ h \in Seq(Ops) /\ d \in BOOLEAN
BY FitsIsLargest DEF Waits, Goes, Offers, Dealings

-----------------------------------------------------------------------------
(* The exchanges, one at a time.                                           *)

LEMMA First ==
  ASSUME NEW S, NEW a \in S, NEW s \in Seq(S)
  PROVE  /\ << a >> \o s \in Seq(S) /\ << a >> \o s # << >>
         /\ Head(<< a >> \o s) = a /\ Tail(<< a >> \o s) = s
OBVIOUS

\* Where a sequence may be cut.
LEMMA Cut ==
  ASSUME NEW a, NEW b
  PROVE  << a, b >> = << a >> \o << b >>
<1> DEFINE s == << a, b >>
           t == << a >> \o << b >>
<1>1. s \in Seq({a, b}) /\ t \in Seq({a, b}) /\ Len(s) = 2 /\ Len(t) = 2
  OBVIOUS
<1>2. s[1] = t[1] /\ s[2] = t[2]
  OBVIOUS
<1> HIDE DEF s, t
<1>3. \A i \in 1..Len(s) : s[i] = t[i]
  BY <1>1, <1>2
<1>4. s = t
  BY <1>1, <1>3, SeqEqual
<1> QED
  BY <1>4 DEF s, t

LEMMA Cut12 ==
  ASSUME NEW a, NEW b, NEW c
  PROVE  << a, b, c >> = << a >> \o << b, c >>
OBVIOUS

LEMMA CutLast ==
  /\ \A a, b, c : << a, b, c >> = << a, b >> \o << c >>
  /\ \A a, b, c, d : << a, b, c, d >> = << a, b, c >> \o << d >>
  /\ \A a, b, c, d, e : << a, b, c, d, e >> = << a, b, c, d >> \o << e >>
<1>1. ASSUME NEW a, NEW b, NEW c PROVE << a, b, c >> = << a, b >> \o << c >>
  OBVIOUS
<1>2. ASSUME NEW a, NEW b, NEW c, NEW d
      PROVE  << a, b, c, d >> = << a, b, c >> \o << d >>
  OBVIOUS
<1>3. ASSUME NEW a, NEW b, NEW c, NEW d, NEW e
      PROVE  << a, b, c, d, e >> = << a, b, c, d >> \o << e >>
  OBVIOUS
<1> QED
  BY <1>1, <1>2, <1>3

LEMMA RoutineCuts ==
  \A a, b, c : << a, b, c >> = (<< a >> \o << b >>) \o << c >>
<1> SUFFICES ASSUME NEW a, NEW b, NEW c
             PROVE  << a, b, c >> = (<< a >> \o << b >>) \o << c >>
  OBVIOUS
<1>1. << a, b, c >> = << a, b >> \o << c >>
  BY CutLast
<1>2. << a, b >> = << a >> \o << b >>
  BY Cut
<1> QED
  BY <1>1, <1>2, Zenon

\* The steps of the handlers are Ops.
LEMMA OpTypes ==
  /\ Ack \in SimpleOps /\ Get \in SimpleOps /\ Done \in SimpleOps /\ Char \in SimpleOps
  /\ Play \in SimpleOps /\ Chdir \in SimpleOps /\ Reboot \in SimpleOps /\ Status \in SimpleOps
  /\ \A v \in Nat : Put(v) \in SimpleOps
  /\ \A f \in [Lens -> Seq(SimpleOps)] : Count(f) \in Ops
  /\ SimpleOps \subseteq Ops /\ Seq(SimpleOps) \subseteq Seq(Ops)
<1>1. SimpleOps \subseteq Ops
  BY DEF Ops
<1>2. Seq(SimpleOps) \subseteq Seq(Ops)
  BY <1>1, SeqMonotonic
<1>3. \A f \in [Lens -> Seq(SimpleOps)] : Count(f) \in Ops
  BY DEF Count, Ops
<1> QED
  BY <1>1, <1>2, <1>3
     DEF Ack, Get, Done, Char, Play, Chdir, Reboot, Status, Put, SimpleOps

LEMMA AccessTypes ==
  /\ In \in SimpleAccesses /\ InChar \in SimpleAccesses
  /\ \A c \in Commands : Send(c) \in SimpleAccesses
  /\ \A v \in Nat : Out(v) \in SimpleAccesses /\ Last(v) \in SimpleAccesses
  /\ \A f \in [Lens -> Seq(SimpleAccesses)] : InCount(f) \in Accesses
  /\ SimpleAccesses \subseteq Accesses /\ Seq(SimpleAccesses) \subseteq Seq(Accesses)
<1>1. SimpleAccesses \subseteq Accesses
  BY DEF Accesses
<1>2. Seq(SimpleAccesses) \subseteq Seq(Accesses)
  BY <1>1, SeqMonotonic
<1>3. \A f \in [Lens -> Seq(SimpleAccesses)] : InCount(f) \in Accesses
  BY DEF InCount, Accesses
<1> QED
  BY <1>1, <1>2, <1>3 DEF In, InChar, Send, Out, Last, SimpleAccesses

\* A byte given by the Z80.
Given(v) == {Out(v), Last(v)}

LEMMA Toggled ==
  ASSUME NEW r, NEW h, NEW d, Goes(r, h, d)
  PROVE  Waits(r, << Ack >> \o h, d)
<1>1. r \in Seq(Accesses) /\ h \in Seq(Ops) /\ d \in BOOLEAN /\ Ack \in Ops
  BY FitsTypes, OpTypes
<1> DEFINE g == << Ack >> \o h
<1>2. g \in Seq(Ops) /\ g # << >> /\ Head(g) = Ack /\ Tail(g) = h
  BY <1>1, First
<1>3. Ack.op = "ack"
  BY DEF Ack
<1> HIDE DEF g
<1>4. WaitFits(r, g, d, Fits)
  BY <1>2, <1>3 DEF WaitFits, Goes
<1>5. Waits(r, g, d)
  BY <1>1, <1>2, <1>4, FitsIff
<1> QED
  BY <1>5 DEF g

LEMMA ByteTaken ==
  ASSUME NEW r, NEW h, NEW d, Waits(r, h, d), NEW v \in Nat, NEW x \in Given(v)
  PROVE  Goes(<< x >> \o r, << Get >> \o h, d)
<1>1. r \in Seq(Accesses) /\ h \in Seq(Ops) /\ d \in BOOLEAN /\ Get \in Ops /\ x \in Accesses
  BY FitsTypes, OpTypes, AccessTypes DEF Given
<1> DEFINE g == << Get >> \o h
           p == << x >> \o r
<1>2. g \in Seq(Ops) /\ g # << >> /\ Head(g) = Get /\ Tail(g) = h
  BY <1>1, First
<1>3. p \in Seq(Accesses) /\ p # << >> /\ Head(p) = x /\ Tail(p) = r
  BY <1>1, First
<1>4. Get.op = "get" /\ x.a \in {"out", "last"}
  BY DEF Get, Given, Out, Last
<1> HIDE DEF g, p
<1>5. GoFits(p, g, d, Fits)
  BY <1>2, <1>3, <1>4 DEF GoFits, Waits
<1>6. Goes(p, g, d)
  BY <1>1, <1>2, <1>3, <1>5, FitsIff
<1> QED
  BY <1>6 DEF g, p

LEMMA CountTaken ==
  ASSUME NEW r, NEW h \in Seq(Ops), NEW d, NEW f \in [Lens -> Seq(SimpleOps)], NEW v \in Lens,
         NEW x \in Given(v), Waits(r, f[v] \o h, d)
  PROVE  Goes(<< x >> \o r, << Count(f) >> \o h, d)
<1>0. v \in Nat
  BY LensAssumption
<1>1. r \in Seq(Accesses) /\ d \in BOOLEAN /\ Count(f) \in Ops /\ x \in Accesses
  BY <1>0, FitsTypes, OpTypes, AccessTypes DEF Given
<1> DEFINE g == << Count(f) >> \o h
           p == << x >> \o r
<1>2. g \in Seq(Ops) /\ g # << >> /\ Head(g) = Count(f) /\ Tail(g) = h
  BY <1>1, First
<1>3. p \in Seq(Accesses) /\ p # << >> /\ Head(p) = x /\ Tail(p) = r
  BY <1>1, First
<1>4. Count(f).op = "count" /\ Count(f).then = f /\ x.a \in {"out", "last"} /\ x.v = v
  BY DEF Count, Given, Out, Last
<1> HIDE DEF g, p
<1>5. GoFits(p, g, d, Fits)
  BY <1>2, <1>3, <1>4 DEF GoFits, Waits
<1>6. Goes(p, g, d)
  BY <1>1, <1>2, <1>3, <1>5, FitsIff
<1> QED
  BY <1>6 DEF g, p

LEMMA Offered ==
  ASSUME NEW r, NEW h, NEW d, NEW v \in Nat, Offers(r, << Put(v) >> \o h, d), h \in Seq(Ops)
  PROVE  Waits(r, << Put(v) >> \o h, d)
<1> DEFINE g == << Put(v) >> \o h
<1>1. r \in Seq(Accesses) /\ g \in Seq(Ops) /\ d \in BOOLEAN
  BY FitsTypes
<1>2. g # << >> /\ Head(g) = Put(v)
  BY OpTypes, First
<1>3. Put(v).op = "put"
  BY DEF Put
<1>4. Offers(r, g, d)
  OBVIOUS
<1> HIDE DEF g
<1>5. WaitFits(r, g, d, Fits)
  BY <1>2, <1>3, <1>4 DEF WaitFits, Offers
<1>6. Waits(r, g, d)
  BY <1>1, <1>5, FitsIff
<1> QED
  BY <1>6 DEF g

LEMMA ByteRead ==
  ASSUME NEW r, NEW h, NEW d, Waits(r, h, d), NEW v \in Nat
  PROVE  Waits(<< In >> \o r, << Put(v) >> \o h, d)
<1>1. r \in Seq(Accesses) /\ h \in Seq(Ops) /\ d \in BOOLEAN /\ Put(v) \in Ops /\ In \in Accesses
  BY FitsTypes, OpTypes, AccessTypes
<1> DEFINE g == << Put(v) >> \o h
           p == << In >> \o r
<1>2. g \in Seq(Ops) /\ g # << >> /\ Head(g) = Put(v) /\ Tail(g) = h
  BY <1>1, First
<1>3. p \in Seq(Accesses) /\ p # << >> /\ Head(p) = In /\ Tail(p) = r
  BY <1>1, First
<1>4. Put(v).op = "put" /\ In.a = "in"
  BY DEF Put, In
<1>5. OfferFits(p, g, d, Fits)
  <2> HIDE DEF g, p
  <2> QED
    BY <1>2, <1>3, <1>4 DEF OfferFits, Waits
<1>6. Offers(p, g, d)
  <2> HIDE DEF g, p
  <2> QED
    BY <1>1, <1>2, <1>3, <1>5, FitsIff
<1> QED
  BY <1>1, <1>6, Offered

LEMMA CountRead ==
  ASSUME NEW r \in Seq(Accesses), NEW h, NEW d, NEW f \in [Lens -> Seq(SimpleAccesses)],
         NEW v \in Lens, Waits(f[v] \o r, h, d)
  PROVE  Waits(<< InCount(f) >> \o r, << Put(v) >> \o h, d)
<1>0. v \in Nat
  BY LensAssumption
<1>1. h \in Seq(Ops) /\ d \in BOOLEAN /\ Put(v) \in Ops /\ InCount(f) \in Accesses
  BY <1>0, FitsTypes, OpTypes, AccessTypes
<1> DEFINE g == << Put(v) >> \o h
           p == << InCount(f) >> \o r
<1>2. g \in Seq(Ops) /\ g # << >> /\ Head(g) = Put(v) /\ Tail(g) = h
  BY <1>1, First
<1>3. p \in Seq(Accesses) /\ p # << >> /\ Head(p) = InCount(f) /\ Tail(p) = r
  BY <1>1, First
<1>4. Put(v).op = "put" /\ Put(v).v = v /\ InCount(f).a = "incount" /\ InCount(f).then = f
  BY DEF Put, InCount
<1>5. OfferFits(p, g, d, Fits)
  <2> HIDE DEF g, p
  <2> QED
    BY <1>2, <1>3, <1>4 DEF OfferFits, Waits
<1>6. Offers(p, g, d)
  <2> HIDE DEF g, p
  <2> QED
    BY <1>1, <1>2, <1>3, <1>5, FitsIff
<1> QED
  BY <1>0, <1>1, <1>6, Offered

\* What passes without a word to the Z80.
LEMMA Silent ==
  ASSUME NEW r, NEW h, NEW d
  PROVE  /\ d \in BOOLEAN /\ Waits(r, h, TRUE) => Waits(r, << Done >> \o h, d)
         /\ Waits(r, h, d) => Waits(r, << Chdir >> \o h, d)
<1>1. ASSUME d \in BOOLEAN, Waits(r, h, TRUE) PROVE Waits(r, << Done >> \o h, d)
  <2> DEFINE g == << Done >> \o h
  <2>1. r \in Seq(Accesses) /\ h \in Seq(Ops) /\ Done \in Ops
    BY <1>1, FitsTypes, OpTypes
  <2>2. g \in Seq(Ops) /\ g # << >> /\ Head(g) = Done /\ Tail(g) = h
    BY <2>1, First
  <2>3. Done.op = "done"
    BY DEF Done
  <2> HIDE DEF g
  <2>4. WaitFits(r, g, d, Fits)
    BY <1>1, <2>2, <2>3 DEF WaitFits, Waits
  <2>5. Waits(r, g, d)
    BY <1>1, <2>1, <2>2, <2>4, FitsIff
  <2> QED
    BY <2>5 DEF g
<1>2. ASSUME Waits(r, h, d) PROVE Waits(r, << Chdir >> \o h, d)
  <2> DEFINE g == << Chdir >> \o h
  <2>1. r \in Seq(Accesses) /\ h \in Seq(Ops) /\ d \in BOOLEAN /\ Chdir \in Ops
    BY <1>2, FitsTypes, OpTypes
  <2>2. g \in Seq(Ops) /\ g # << >> /\ Head(g) = Chdir /\ Tail(g) = h
    BY <2>1, First
  <2>3. Chdir.op = "chdir"
    BY DEF Chdir
  <2> HIDE DEF g
  <2>4. WaitFits(r, g, d, Fits)
    BY <1>2, <2>2, <2>3 DEF WaitFits, Waits
  <2>5. Waits(r, g, d)
    BY <2>1, <2>2, <2>4, FitsIff
  <2> QED
    BY <2>5 DEF g
<1> QED
  BY <1>1, <1>2

\* The command is over, or the next byte decides.
LEMMA Ended ==
  /\ Goes(<< >>, << >>, TRUE)
  /\ \A d \in BOOLEAN : Goes(<< >>, << Done >>, d) /\ Goes(<< >>, << Done, Done >>, d)
  /\ \A d \in BOOLEAN, h \in Seq(Ops) : Goes(<< >>, << Char >> \o h, d)
<1>1. << >> \in Seq(Accesses) /\ << >> \in Seq(Ops) /\ Done \in Ops /\ Char \in Ops
  BY OpTypes
<1>2. Goes(<< >>, << >>, TRUE)
  <2>1. GoFits(<< >>, << >>, TRUE, Fits)
    BY DEF GoFits, OnlyDone
  <2> QED
    BY <1>1, <2>1, FitsIff
<1>3. ASSUME NEW d \in BOOLEAN, NEW h \in Seq(Ops), h # << >>, OnlyDone(h)
      PROVE  Goes(<< >>, h, d)
  <2>1. GoFits(<< >>, h, d, Fits)
    BY <1>3 DEF GoFits
  <2> QED
    BY <1>1, <2>1, FitsIff
<1>4. /\ << Done >> \in Seq(Ops) /\ << Done, Done >> \in Seq(Ops)
      /\ << Done >> # << >> /\ << Done, Done >> # << >>
  BY <1>1
<1>5. OnlyDone(<< Done >>) /\ OnlyDone(<< Done, Done >>)
  BY DEF OnlyDone, Done
<1>6. ASSUME NEW d \in BOOLEAN, NEW h \in Seq(Ops)
      PROVE  Goes(<< >>, << Char >> \o h, d)
  <2> DEFINE g == << Char >> \o h
  <2>1. g \in Seq(Ops) /\ g # << >> /\ Head(g) = Char
    BY <1>1, First
  <2>2. Char.op = "next"
    BY DEF Char
  <2> HIDE DEF g
  <2>3. GoFits(<< >>, g, d, Fits)
    BY <2>1, <2>2 DEF GoFits
  <2>4. Goes(<< >>, g, d)
    BY <1>1, <2>1, <2>3, FitsIff
  <2> QED
    BY <2>4 DEF g
<1> QED
  BY <1>2, <1>3, <1>4, <1>5, <1>6

\* A tune, and a .ROM: the Z80 need not do anything more.
LEMMA PlayFits ==
  ASSUME NEW r, NEW d, Waits(r, << Status, Ack >> \o << Done >>, d)
  PROVE  Waits(r, << Play, Done >>, d)
<1> DEFINE g == << Play, Done >>
<1>1. /\ g \in Seq(Ops) /\ g # << >> /\ Head(g) = Play /\ Tail(g) = << Done >>
      /\ Tail(g) # << >>
  BY OpTypes
<1>2. Play.op = "play" /\ OnlyDone(<< Done >>)
  BY DEF Play, Done, OnlyDone
<1>3. r \in Seq(Accesses) /\ d \in BOOLEAN
  BY FitsTypes
<1> HIDE DEF g
<1>4. WaitFits(r, g, d, Fits)
  BY <1>1, <1>2 DEF WaitFits, Waits
<1>5. Waits(r, g, d)
  BY <1>1, <1>3, <1>4, FitsIff
<1> QED
  BY <1>5 DEF g

LEMMA RebootFits ==
  ASSUME NEW r \in Seq(Accesses), NEW d \in BOOLEAN
  PROVE  Waits(r, << Reboot, Done >>, d)
<1> DEFINE g == << Reboot, Done >>
<1>1. /\ g \in Seq(Ops) /\ g # << >> /\ Head(g) = Reboot /\ Tail(g) = << Done >>
      /\ Tail(g) # << >>
  BY OpTypes
<1>2. Reboot.op = "reboot" /\ OnlyDone(<< Done >>)
  BY DEF Reboot, Done, OnlyDone
<1> HIDE DEF g
<1>3. WaitFits(r, g, d, Fits)
  BY <1>1, <1>2 DEF WaitFits
<1>4. Waits(r, g, d)
  BY <1>1, <1>3, FitsIff
<1> QED
  BY <1>4 DEF g

\* A character of a listing: asked for, and read.
LEMMA CharAsked ==
  ASSUME NEW r, NEW h, NEW d, Waits(r, h, d)
  PROVE  Goes(<< Send("cmd_get_next_char") >> \o r, << Char >> \o h, d)
<1> DEFINE x == Send("cmd_get_next_char")
           g == << Char >> \o h
           p == << x >> \o r
<1>0. x \in Accesses
  <2>1. "cmd_get_next_char" \in Commands
    BY DEF Commands, commands
  <2>2. x \in SimpleAccesses
    BY <2>1, AccessTypes
  <2> QED
    BY <2>2, AccessTypes
<1>1. r \in Seq(Accesses) /\ h \in Seq(Ops) /\ d \in BOOLEAN /\ Char \in Ops /\ x \in Accesses
  BY <1>0, FitsTypes, OpTypes
<1>2. g \in Seq(Ops) /\ g # << >> /\ Head(g) = Char /\ Tail(g) = h
  BY <1>1, First
<1>3. p \in Seq(Accesses) /\ p # << >> /\ Head(p) = x /\ Tail(p) = r
  BY <1>1, First
<1>4. Char.op = "next" /\ x.a = "send" /\ x.c = "cmd_get_next_char"
  BY DEF Char, Send
<1> HIDE DEF g, p, x
<1>5. GoFits(p, g, d, Fits)
  BY <1>2, <1>3, <1>4 DEF GoFits, Waits
<1>6. Goes(p, g, d)
  BY <1>1, <1>2, <1>3, <1>5, FitsIff
<1> QED
  BY <1>6 DEF g, p, x

LEMMA CharRead ==
  ASSUME NEW h, NEW d, NEW v \in Nat,
         IF v = EOT THEN Waits(<< In >>, h, d)
         ELSE Waits(<< >>, h, d) /\ Waits(PrintCmdOutput, h, d)
  PROVE  Waits(<< InChar >>, << Put(v) >> \o h, d)
<1> DEFINE g == << Put(v) >> \o h
           p == << InChar >>
<1>1. h \in Seq(Ops) /\ d \in BOOLEAN /\ Put(v) \in Ops /\ InChar \in Accesses
  BY FitsTypes, OpTypes, AccessTypes
<1>2. g \in Seq(Ops) /\ g # << >> /\ Head(g) = Put(v) /\ Tail(g) = h
  BY <1>1, First
<1>3. p \in Seq(Accesses) /\ p # << >> /\ Head(p) = InChar
  BY <1>1
<1>4. Put(v).op = "put" /\ Put(v).v = v /\ InChar.a = "inchar"
  BY DEF Put, InChar
<1>5. OfferFits(p, g, d, Fits)
  <2> HIDE DEF g, p
  <2>1. IF v = EOT THEN << "wait", << In >>, h, d >> \in Fits
        ELSE << "wait", << >>, h, d >> \in Fits /\ << "wait", PrintCmdOutput, h, d >> \in Fits
    BY DEF Waits
  <2> QED
    BY <1>2, <1>3, <1>4, <2>1 DEF OfferFits
<1>6. Offers(p, g, d)
  <2> HIDE DEF g, p
  <2> QED
    BY <1>1, <1>2, <1>3, <1>5, FitsIff
<1> QED
  BY <1>1, <1>6, Offered

-----------------------------------------------------------------------------
(* Repetitions.                                                            *)

LEMMA TimesFacts ==
  ASSUME NEW S, NEW s \in Seq(S), Len(s) \in 1..4, NEW n \in Nat
  PROVE  /\ Times(n, s) \in Seq(S) /\ Len(Times(n, s)) = n * Len(s)
         /\ Times(0, s) = << >>
         /\ Times(n + 1, s) = s \o Times(n, s)
<1>1. \A i \in 1..Len(s) : s[i] \in S
  BY ElementOfSeq
<1>2. ASSUME NEW m \in Nat, NEW k \in 1..4, Len(s) = k
      PROVE  Times(m, s) \in Seq(S) /\ Len(Times(m, s)) = m * k
  <2>1. m * k \in Nat
    <3>1. k \in Nat
      BY <1>2
    <3> QED
      BY <3>1
  <2>2. \A i \in 1..(m * k) : ((i - 1) % k) + 1 \in 1..k
    BY <1>2
  <2>3. Times(m, s) = [i \in 1..(m * k) |-> s[((i - 1) % k) + 1]]
    BY <1>2 DEF Times
  <2>4. Times(m, s) \in [1..(m * k) -> S]
    BY <1>1, <1>2, <2>2, <2>3
  <2> QED
    BY <2>1, <2>4, SeqDef
<1>3. Times(0, s) = << >>
  BY <1>1 DEF Times
<1>4. ASSUME NEW k \in 1..4, Len(s) = k
      PROVE  Times(n + 1, s) = s \o Times(n, s)
  <2> DEFINE a == Times(n + 1, s)
             b == s \o Times(n, s)
  <2>0. n + 1 \in Nat
    OBVIOUS
  <2>1. a \in Seq(S) /\ Len(a) = (n + 1) * k
    BY <1>2, <1>4, <2>0
  <2>2. Times(n, s) \in Seq(S) /\ Len(Times(n, s)) = n * k
    BY <1>2, <1>4
  <2>3. b \in Seq(S) /\ Len(b) = k + n * k
    BY <1>4, <2>2, ConcatProperties
  <2>4. (n + 1) * k = k + n * k
    BY <1>4
  <2>5. ASSUME NEW i \in 1..Len(a) PROVE a[i] = b[i]
    <3>1. i \in 1..((n + 1) * k) /\ i \in 1..(k + n * k)
      BY <2>1, <2>4, <2>5
    <3>2. a[i] = s[((i - 1) % k) + 1]
      BY <1>4, <3>1 DEF Times
    <3>3. CASE i <= k
      <4>1. b[i] = s[i]
        <5>1. i \in 1..(Len(s) + Len(Times(n, s)))
          BY <1>4, <2>2, <3>1
        <5> QED
          BY <1>4, <2>2, <3>3, <5>1, ConcatProperties
      <4>2. (i - 1) % k = i - 1
        BY <1>4, <3>1, <3>3
      <4> QED
        BY <3>1, <3>2, <4>1, <4>2
    <3>4. CASE i > k
      <4>1. b[i] = Times(n, s)[i - k]
        BY <1>4, <2>2, <3>1, <3>4, ConcatProperties, SMTT(60)
      <4>2. i - k \in 1..(n * k)
        BY <1>4, <3>1, <3>4
      <4>3. Times(n, s)[i - k] = s[((i - k - 1) % k) + 1]
        BY <1>4, <4>2 DEF Times
      <4>4. (i - k - 1) % k = (i - 1) % k
        BY <1>4, <3>1, <3>4
      <4> QED
        BY <3>2, <4>1, <4>3, <4>4
    <3>5. i \in Nat /\ k \in Nat
      BY <1>4, <2>5, <2>1, <3>1
    <3>6. i <= k \/ i > k
      BY <3>5
    <3> QED
      BY <3>3, <3>4, <3>6
  <2> HIDE DEF a, b
  <2>6. a = b
    BY <2>1, <2>3, <2>4, <2>5, SeqEqual
  <2> QED
    BY <2>6 DEF a, b
<1> QED
  BY <1>2, <1>3, <1>4

-----------------------------------------------------------------------------
(* Accesses and calls that go together, whatever comes after them.         *)

Does(p, q) ==
  /\ p \in Seq(Accesses) /\ q \in Seq(Ops)
  /\ \A r, h, d : Waits(r, h, d) => Waits(p \o r, q \o h, d)

\* The last calls of a handler.
Closes(e) == e \in Seq(Ops) /\ Waits(<< >>, e, FALSE)

LEMMA DoesBoth ==
  ASSUME NEW p1, NEW q1, NEW p2, NEW q2, Does(p1, q1), Does(p2, q2)
  PROVE  Does(p1 \o p2, q1 \o q2)
<1>1. /\ p1 \in Seq(Accesses) /\ p2 \in Seq(Accesses)
      /\ q1 \in Seq(Ops) /\ q2 \in Seq(Ops)
  BY DEF Does
<1>2. p1 \o p2 \in Seq(Accesses) /\ q1 \o q2 \in Seq(Ops)
  BY <1>1, ConcatProperties
<1>3. ASSUME NEW r, NEW h, NEW d, Waits(r, h, d)
      PROVE  Waits((p1 \o p2) \o r, (q1 \o q2) \o h, d)
  <2>1. r \in Seq(Accesses) /\ h \in Seq(Ops)
    BY <1>3, FitsTypes
  <2>2. Waits(p2 \o r, q2 \o h, d)
    BY <1>3 DEF Does
  <2>3. Waits(p1 \o (p2 \o r), q1 \o (q2 \o h), d)
    BY <2>2 DEF Does
  <2>4. (p1 \o p2) \o r = p1 \o (p2 \o r)
    BY <1>1, <2>1, ConcatAssociative, SMTT(60)
  <2>5. (q1 \o q2) \o h = q1 \o (q2 \o h)
    BY <1>1, <2>1, ConcatAssociative, SMTT(60)
  <2> QED
    BY <2>3, <2>4, <2>5
<1> QED
  BY <1>2, <1>3 DEF Does

LEMMA DoesOne ==
  /\ Does(<< >>, << >>) /\ Does(<< >>, << Chdir >>)
  /\ \A v \in Nat : Does(<< In >>, << Put(v) >>)
  /\ \A v \in Nat : \A x \in Given(v) : Does(<< x >>, << Ack, Get >>)
<1>0. /\ << >> \in Seq(Accesses) /\ << >> \in Seq(Ops)
      /\ Ack \in Ops /\ Get \in Ops /\ Chdir \in Ops /\ In \in Accesses
      /\ \A v \in Nat : Put(v) \in Ops /\ \A x \in Given(v) : x \in Accesses
  BY OpTypes, AccessTypes DEF Given
<1>1. ASSUME NEW r, NEW h, NEW d, Waits(r, h, d)
      PROVE  << >> \o r = r /\ << >> \o h = h
  BY <1>1, FitsTypes, ConcatEmptySeq
<1>2. Does(<< >>, << >>)
  BY <1>0, <1>1 DEF Does
<1>3. Does(<< >>, << Chdir >>)
  <2>1. << Chdir >> \in Seq(Ops)
    BY <1>0
  <2> QED
    BY <1>0, <1>1, <2>1, Silent DEF Does
<1>4. ASSUME NEW v \in Nat PROVE Does(<< In >>, << Put(v) >>)
  <2>1. << In >> \in Seq(Accesses) /\ << Put(v) >> \in Seq(Ops)
    BY <1>0
  <2> QED
    BY <2>1, ByteRead DEF Does
<1>5. ASSUME NEW v \in Nat, NEW x \in Given(v) PROVE Does(<< x >>, << Ack, Get >>)
  <2>1. << x >> \in Seq(Accesses) /\ << Ack, Get >> \in Seq(Ops)
    BY <1>0
  <2>2. ASSUME NEW r, NEW h, NEW d, Waits(r, h, d)
        PROVE  Waits(<< x >> \o r, << Ack, Get >> \o h, d)
    <3>1. Waits(<< x >> \o r, << Ack >> \o (<< Get >> \o h), d)
      BY <2>2, ByteTaken, Toggled
    <3>2. h \in Seq(Ops) /\ << Ack >> \in Seq(Ops) /\ << Get >> \in Seq(Ops)
      BY <1>0, <2>2, FitsTypes
    <3>3. (<< Ack >> \o << Get >>) \o h = << Ack >> \o (<< Get >> \o h)
      BY <3>2, ConcatAssociative
    <3>4. << Ack, Get >> = << Ack >> \o << Get >>
      BY Cut
    <3> QED
      BY <3>1, <3>3, <3>4
  <2> QED
    BY <2>1, <2>2 DEF Does
<1> QED
  BY <1>2, <1>3, <1>4, <1>5

\* A byte that tells how many follow: given, and read.
LEMMA DoesCount ==
  ASSUME NEW f \in [Lens -> Seq(SimpleOps)], NEW v \in Lens, NEW x \in Given(v), NEW p,
         Does(p, f[v])
  PROVE  Does(<< x >> \o p, << Ack, Count(f) >>)
<1>0. v \in Nat
  BY LensAssumption
<1>1. /\ p \in Seq(Accesses) /\ x \in Accesses /\ << x >> \in Seq(Accesses)
      /\ << x >> \o p \in Seq(Accesses)
      /\ << Ack, Count(f) >> \in Seq(Ops) /\ << Ack >> \in Seq(Ops) /\ << Count(f) >> \in Seq(Ops)
  <2>1. p \in Seq(Accesses) /\ x \in Accesses
    BY <1>0, AccessTypes DEF Does, Given
  <2>2. Ack \in Ops /\ Count(f) \in Ops
    BY OpTypes
  <2> QED
    BY <2>1, <2>2
<1>2. ASSUME NEW r, NEW h, NEW d, Waits(r, h, d)
      PROVE  Waits((<< x >> \o p) \o r, << Ack, Count(f) >> \o h, d)
  <2>1. r \in Seq(Accesses) /\ h \in Seq(Ops)
    BY <1>2, FitsTypes
  <2>2. Waits(p \o r, f[v] \o h, d)
    BY <1>2 DEF Does
  <2>3. Waits(<< x >> \o (p \o r), << Ack >> \o (<< Count(f) >> \o h), d)
    BY <2>1, <2>2, CountTaken, Toggled
  <2>4. (<< x >> \o p) \o r = << x >> \o (p \o r)
    BY <1>1, <2>1, ConcatAssociative
  <2>5. (<< Ack >> \o << Count(f) >>) \o h = << Ack >> \o (<< Count(f) >> \o h)
    BY <1>1, <2>1, ConcatAssociative
  <2>6. << Ack, Count(f) >> = << Ack >> \o << Count(f) >>
    BY Cut
  <2> QED
    BY <2>3, <2>4, <2>5, <2>6
<1> QED
  BY <1>1, <1>2 DEF Does

LEMMA DoesCountRead ==
  ASSUME NEW f \in [Lens -> Seq(SimpleAccesses)], NEW v \in Lens, NEW q, Does(f[v], q)
  PROVE  Does(<< InCount(f) >>, << Put(v) >> \o q)
<1>0. v \in Nat
  BY LensAssumption
<1>1. /\ q \in Seq(Ops) /\ << Put(v) >> \in Seq(Ops) /\ << Put(v) >> \o q \in Seq(Ops)
      /\ << InCount(f) >> \in Seq(Accesses)
  <2>1. q \in Seq(Ops) /\ Put(v) \in Ops /\ InCount(f) \in Accesses
    BY <1>0, OpTypes, AccessTypes DEF Does
  <2> QED
    BY <2>1
<1>2. ASSUME NEW r, NEW h, NEW d, Waits(r, h, d)
      PROVE  Waits(<< InCount(f) >> \o r, (<< Put(v) >> \o q) \o h, d)
  <2>1. r \in Seq(Accesses) /\ h \in Seq(Ops)
    BY <1>2, FitsTypes
  <2>2. Waits(f[v] \o r, q \o h, d)
    BY <1>2 DEF Does
  <2>3. Waits(<< InCount(f) >> \o r, << Put(v) >> \o (q \o h), d)
    BY <2>1, <2>2, CountRead
  <2>4. (<< Put(v) >> \o q) \o h = << Put(v) >> \o (q \o h)
    BY <1>1, <2>1, ConcatAssociative
  <2> QED
    BY <2>3, <2>4
<1> QED
  BY <1>1, <1>2 DEF Does

\* Induction over the naturals, for sets.
LEMMA Successive ==
  ASSUME NEW T, 0 \in T, \A n \in Nat : n \in T => n + 1 \in T
  PROVE  \A n \in Nat : n \in T
<1> DEFINE R == {ss \in Nat \X Nat : ss[1] < ss[2]}
           U == Nat \ T
<1>1. IsWellFoundedOn(R, Nat)
  BY NatLessThanWellFounded DEF OpToRel
<1>2. \A x \in Nat, y \in Nat : x < y => << x, y >> \in R
  OBVIOUS
<1> SUFFICES ASSUME U # {} PROVE FALSE
  OBVIOUS
<1>3. U \subseteq Nat
  OBVIOUS
<1> HIDE DEF R
<1>4. PICK x \in U : \A y \in U : << y, x >> \notin R
  <2> HIDE DEF U
  <2> QED
    BY <1>1, <1>3, WFMin
<1>5. x \in Nat /\ x # 0 /\ x \notin T
  BY <1>4
<1>6. x - 1 \in Nat /\ x - 1 < x /\ (x - 1) + 1 = x
  BY <1>5
<1>7. x - 1 \notin U
  BY <1>2, <1>4, <1>5, <1>6
<1> QED
  BY <1>5, <1>6, <1>7

\* The bytes of a string or a block, one acknowledged after another.
LEMMA DoesBytes ==
  ASSUME NEW n \in Nat
  PROVE  \A p \in Seq(Given(0)) : Len(p) = n => Does(p, Times(n, << Ack, Get >>))
<1> DEFINE s == << Ack, Get >>
           T == {k \in Nat : \A p \in Seq(Given(0)) : Len(p) = k => Does(p, Times(k, s))}
<1>1. s \in Seq(Ops) /\ Len(s) = 2
  BY OpTypes
<1>2. ASSUME NEW k \in Nat PROVE Times(0, s) = << >> /\ Times(k + 1, s) = s \o Times(k, s)
  <2>1. Len(s) \in 1..4
    BY <1>1
  <2> HIDE DEF s, T
  <2> QED
    BY <1>1, <2>1, TimesFacts
<1>3. 0 \in T
  <2>1. \A p \in Seq(Given(0)) : Len(p) = 0 => p = << >>
    BY EmptySeq
  <2> QED
    BY <1>2, <2>1, DoesOne
<1>4. ASSUME NEW k \in Nat, k \in T PROVE k + 1 \in T
  <2> SUFFICES ASSUME NEW p \in Seq(Given(0)), Len(p) = k + 1
               PROVE  Does(p, Times(k + 1, s))
    OBVIOUS
  <2>1. p # << >>
    BY EmptySeq
  <2>2. Head(p) \in Given(0) /\ Tail(p) \in Seq(Given(0)) /\ Len(Tail(p)) = k
    BY <2>1, HeadTailProperties
  <2>3. p = << Head(p) >> \o Tail(p)
    BY <2>1
  <2>4. Does(Tail(p), Times(k, s))
    BY <1>4, <2>2
  <2>5. Does(<< Head(p) >>, s)
    BY <2>2, DoesOne
  <2> HIDE DEF s
  <2>6. Does(<< Head(p) >> \o Tail(p), s \o Times(k, s))
    BY <2>4, <2>5, DoesBoth
  <2> QED
    BY <1>2, <2>3, <2>6
<1>5. \A k \in Nat : k \in T
  <2> HIDE DEF T
  <2> QED
    BY <1>3, <1>4, Successive
<1> QED
  BY <1>5

\* Any number of bytes given, and read.
LEMMA DoesReads ==
  ASSUME NEW n \in Nat
  PROVE  Does(Ins(n), Times(n, << Put(0) >>))
<1> DEFINE s == << Put(0) >>
           i == << In >>
           T == {k \in Nat : Does(Ins(k), Times(k, s))}
<1>1. s \in Seq(Ops) /\ Len(s) = 1 /\ i \in Seq(Accesses) /\ Len(i) = 1
  BY OpTypes, AccessTypes
<1>2. ASSUME NEW k \in Nat
      PROVE  /\ Times(0, s) = << >> /\ Times(k + 1, s) = s \o Times(k, s)
             /\ Ins(0) = << >> /\ Ins(k + 1) = i \o Ins(k)
  <2>1. Ins(k) = Times(k, i) /\ Ins(k + 1) = Times(k + 1, i) /\ Ins(0) = Times(0, i)
    BY DEF Ins
  <2>2. Len(s) \in 1..4 /\ Len(i) \in 1..4
    BY <1>1
  <2> HIDE DEF s, i, T
  <2>3. Times(0, s) = << >> /\ Times(k + 1, s) = s \o Times(k, s)
    BY <1>1, <2>2, TimesFacts
  <2>4. Times(0, i) = << >> /\ Times(k + 1, i) = i \o Times(k, i)
    BY <1>1, <2>2, TimesFacts
  <2> QED
    BY <2>1, <2>3, <2>4
<1>3. Does(i, s)
  BY DoesOne
<1> HIDE DEF s, i
<1>4. 0 \in T
  BY <1>2, DoesOne
<1>5. ASSUME NEW k \in Nat, k \in T PROVE k + 1 \in T
  <2>1. Does(i \o Ins(k), s \o Times(k, s))
    BY <1>3, <1>5, DoesBoth
  <2>2. Does(Ins(k + 1), Times(k + 1, s))
    BY <1>2, <2>1
  <2> QED
    BY <2>2
<1>6. \A k \in Nat : k \in T
  <2> HIDE DEF T
  <2> QED
    BY <1>4, <1>5, Successive
<1> QED
  BY <1>6 DEF s

\* A length and its bytes.
LEMMA SendStringIs ==
  ASSUME NEW n \in Nat
  PROVE  /\ Times(n, << Out(0) >>) \in Seq(Given(0)) /\ Len(Times(n, << Out(0) >>)) = n
         /\ SendString(n) \in Seq(SimpleAccesses) /\ Len(SendString(n)) = n + 1
         /\ SendString(n)[1] = Out(n)
         /\ \A i \in 1..n : SendString(n)[i + 1] = Out(0)
<1> DEFINE s == << Out(0) >>
           t == Times(n, s)
<1>1. s \in Seq(Given(0)) /\ Len(s) = 1
  BY DEF Given
<1>2. t \in Seq(Given(0)) /\ Len(t) = n
  <2> HIDE DEF s
  <2>1. Len(s) \in 1..4
    BY <1>1
  <2>2. t \in Seq(Given(0)) /\ Len(t) = n * Len(s)
    BY <1>1, <2>1, TimesFacts
  <2> QED
    BY <1>1, <2>2
<1>3. \A j \in 1..n : t[j] = Out(0)
  <2> SUFFICES ASSUME NEW j \in 1..n PROVE t[j] = Out(0)
    OBVIOUS
  <2>1. n * Len(s) = n /\ ((j - 1) % Len(s)) + 1 = 1
    BY <1>1
  <2>2. t[j] = s[1]
    BY <2>1 DEF Times
  <2> QED
    BY <2>2
<1> HIDE DEF t, s
<1>4. t \in Seq(SimpleAccesses) /\ << Out(n) >> \in Seq(SimpleAccesses)
  <2>1. Given(0) \subseteq SimpleAccesses /\ Out(n) \in SimpleAccesses
    BY AccessTypes DEF Given
  <2> QED
    BY <1>2, <2>1, SeqMonotonic
<1>5. SendString(n) = << Out(n) >> \o t
  BY DEF SendString, t, s
<1>6. /\ SendString(n) \in Seq(SimpleAccesses) /\ Len(SendString(n)) = n + 1
      /\ SendString(n)[1] = Out(n)
  BY <1>2, <1>4, <1>5
<1>7. \A i \in 1..n : SendString(n)[i + 1] = Out(0)
  <2> SUFFICES ASSUME NEW i \in 1..n PROVE SendString(n)[i + 1] = Out(0)
    OBVIOUS
  <2>1. Len(<< Out(n) >>) = 1 /\ i + 1 \in 1..(1 + Len(t)) /\ i + 1 > 1 /\ (i + 1) - 1 = i
    BY <1>2
  <2>2. SendString(n)[i + 1] = t[i]
    BY <1>4, <1>5, <2>1, ConcatProperties
  <2> QED
    BY <1>3, <2>2
<1> QED
  BY <1>2, <1>6, <1>7 DEF t, s

LEMMA LastStringIs ==
  ASSUME NEW n \in Nat
  PROVE  \E x \in Given(n), p \in Seq(Given(0)) : Len(p) = n /\ LastString(n) = << x >> \o p
<1> DEFINE o == SendString(n)
           l == LastString(n)
<1>1. /\ o \in Seq(SimpleAccesses) /\ Len(o) = n + 1 /\ o[1] = Out(n)
      /\ \A i \in 1..n : o[i + 1] = Out(0)
  BY SendStringIs
<1>2. \E v \in {0, n} : o[n + 1] = Out(v) /\ (n = 0 => v = n) /\ (n # 0 => v = 0)
  <2>1. CASE n = 0
    BY <1>1, <2>1
  <2>2. CASE n # 0
    BY <1>1, <2>2
  <2> QED
    BY <2>1, <2>2
<1>3. PICK v \in {0, n} : o[n + 1] = Out(v) /\ (n = 0 => v = n) /\ (n # 0 => v = 0)
  BY <1>2
<1>4. o[n + 1].v = v /\ v \in Nat
  BY <1>3 DEF Out
<1>5. l = [o EXCEPT ![n + 1] = Last(v)]
  BY <1>4 DEF LastString
<1>6. n + 1 \in 1..Len(o) /\ Last(v) \in SimpleAccesses
  BY <1>1, <1>4, AccessTypes
<1> HIDE DEF o, l
<1>7. /\ l \in Seq(SimpleAccesses) /\ Len(l) = n + 1
      /\ \A j \in 1..(n + 1) : l[j] = IF j = n + 1 THEN Last(v) ELSE o[j]
  BY <1>1, <1>5, <1>6, ExceptSeq
<1>8. l # << >> /\ Head(l) = l[1] /\ l = << Head(l) >> \o Tail(l)
  BY <1>7
<1>9. Head(l) \in Given(n)
  BY <1>1, <1>3, <1>7, <1>8 DEF Given
<1>10. Len(Tail(l)) = n /\ \A i \in 1..n : Tail(l)[i] = l[i + 1]
  BY <1>7, <1>8, HeadTailProperties
<1>11. ASSUME NEW i \in 1..n PROVE Tail(l)[i] \in Given(0)
  <2>1. i + 1 \in 1..(n + 1) /\ n # 0
    OBVIOUS
  <2>2. Tail(l)[i] = IF i + 1 = n + 1 THEN Last(v) ELSE o[i + 1]
    BY <1>7, <1>10, <2>1
  <2>3. v = 0 /\ o[i + 1] = Out(0)
    BY <1>1, <1>3, <2>1
  <2> QED
    BY <2>2, <2>3 DEF Given
<1>12. Tail(l) \in Seq(Given(0))
  <2>1. Tail(l) \in Seq(SimpleAccesses)
    BY <1>7, <1>8, HeadTailProperties
  <2>2. Tail(l) \in [1..n -> Given(0)]
    BY <1>10, <1>11, <2>1, LenProperties
  <2> QED
    BY <2>2, SeqDef
<1> QED
  BY <1>8, <1>9, <1>10, <1>12 DEF l

LEMMA DoesString ==
  ASSUME NEW n \in Lens
  PROVE  Does(SendString(n), << Ack, String >>) /\ Does(LastString(n), << Ack, String >>)
<1> DEFINE f == [m \in Lens |-> Times(m, << Ack, Get >>)]
<1>0. n \in Nat
  BY LensAssumption
<1>1. f \in [Lens -> Seq(SimpleOps)]
  <2> DEFINE s == << Ack, Get >>
  <2>1. s \in Seq(SimpleOps) /\ Len(s) \in 1..4
    BY OpTypes
  <2> HIDE DEF s
  <2>2. \A m \in Lens : Times(m, s) \in Seq(SimpleOps)
    BY <2>1, LensAssumption, TimesFacts
  <2> QED
    BY <2>2 DEF s
<1>2. String = Count(f)
  BY DEF String
<1>3. f[n] = Times(n, << Ack, Get >>)
  OBVIOUS
<1> HIDE DEF f
<1>4. ASSUME NEW x \in Given(n), NEW p \in Seq(Given(0)), Len(p) = n
      PROVE  Does(<< x >> \o p, << Ack, String >>)
  <2>1. Does(p, f[n])
    BY <1>0, <1>3, <1>4, DoesBytes
  <2> QED
    BY <1>1, <1>2, <2>1, DoesCount
<1>5. Does(SendString(n), << Ack, String >>)
  <2>1. /\ Times(n, << Out(0) >>) \in Seq(Given(0)) /\ Len(Times(n, << Out(0) >>)) = n
        /\ Out(n) \in Given(n)
    BY <1>0, SendStringIs DEF Given
  <2> QED
    BY <1>4, <2>1 DEF SendString
<1>6. Does(LastString(n), << Ack, String >>)
  <2>1. PICK x \in Given(n), p \in Seq(Given(0)) : Len(p) = n /\ LastString(n) = << x >> \o p
    BY <1>0, LastStringIs
  <2> QED
    BY <1>4, <2>1
<1> QED
  BY <1>5, <1>6

\* A length read, and as many bytes.
LEMMA DoesAnswer ==
  ASSUME NEW n \in Lens
  PROVE  Does(<< InBlock >>, Answer(n))
<1> DEFINE f == [m \in Lens |-> Ins(m)]
<1>0. n \in Nat
  BY LensAssumption
<1>1. f \in [Lens -> Seq(SimpleAccesses)]
  <2> DEFINE s == << In >>
  <2>1. s \in Seq(SimpleAccesses) /\ Len(s) \in 1..4
    BY AccessTypes
  <2> HIDE DEF s
  <2>2. \A m \in Lens : Times(m, s) \in Seq(SimpleAccesses)
    BY <2>1, LensAssumption, TimesFacts
  <2> QED
    BY <2>2 DEF s, Ins
<1>2. InBlock = InCount(f)
  BY DEF InBlock
<1>3. f[n] = Ins(n)
  OBVIOUS
<1> HIDE DEF f
<1>4. Does(f[n], Times(n, << Put(0) >>))
  BY <1>0, <1>3, DoesReads
<1> QED
  BY <1>1, <1>2, <1>4, DoesCountRead DEF Answer

\* The last calls: the Z80 has nothing more to do, or reads the status.
LEMMA Closing ==
  /\ Closes(<< Ack, Done >>) /\ Closes(<< Done, Ack >>) /\ Closes(<< Ack, Done, Done >>)
  /\ \A d \in BOOLEAN : Waits(<< >>, << Ack, Done >>, d)
<1>1. /\ Ack \in Ops /\ Done \in Ops
      /\ << Ack, Done >> \in Seq(Ops) /\ << Done, Ack >> \in Seq(Ops)
      /\ << Ack, Done, Done >> \in Seq(Ops)
  BY OpTypes
<1>2. ASSUME NEW d \in BOOLEAN PROVE Waits(<< >>, << Ack, Done >>, d)
  <2>1. Goes(<< >>, << Done >>, d)
    BY Ended
  <2>2. Waits(<< >>, << Ack >> \o << Done >>, d)
    BY <2>1, Toggled
  <2> QED
    BY <2>2, Cut
<1>3. Waits(<< >>, << Ack, Done, Done >>, FALSE)
  <2>1. Goes(<< >>, << Done, Done >>, FALSE)
    BY Ended
  <2>2. Waits(<< >>, << Ack >> \o << Done, Done >>, FALSE)
    BY <2>1, Toggled
  <2> QED
    BY <2>2, Cut12
<1>4. Waits(<< >>, << Done, Ack >>, FALSE)
  <2>1. Waits(<< >>, << Ack >> \o << >>, TRUE)
    BY Ended, Toggled
  <2>2. << Ack >> \o << >> = << Ack >>
    <3>1. << Ack >> \in Seq(Ops)
      BY <1>1
    <3> QED
      BY <3>1, ConcatEmptySeq
  <2>3. Waits(<< >>, << Done >> \o << Ack >>, FALSE)
    BY <2>1, <2>2, Silent
  <2> QED
    BY <2>3, Cut
<1> QED
  BY <1>1, <1>2, <1>3, <1>4 DEF Closes

LEMMA ReadsStatus ==
  ASSUME NEW d \in BOOLEAN
  PROVE  Waits(<< In >>, << Status, Ack, Done >>, d)
<1>1. Waits(<< In >> \o << >>, << Put(0) >> \o << Ack, Done >>, d)
  BY Closing, ByteRead
<1>2. << In >> \o << >> = << In >>
  <2>1. << In >> \in Seq(Accesses)
    BY AccessTypes
  <2> QED
    BY <2>1, ConcatEmptySeq
<1>3. << Put(0) >> \o << Ack, Done >> = << Status, Ack, Done >>
  BY Cut12 DEF Status
<1> QED
  BY <1>1, <1>2, <1>3

\* A listing of any length, which the Z80 may leave after any character.
LEMMA ListingFits ==
  ASSUME NEW n \in Nat, NEW d \in BOOLEAN
  PROVE  Goes(PrintCmdOutput, Listing(n), d)
<1> DEFINE s == << Char, Put(0), Ack >>
           e == << Char, Put(EOT), Status, Ack, Done >>
           x(k) == Times(k, s) \o e
           T == {k \in Nat : x(k) \in Seq(Ops) /\ Goes(<< >>, x(k), d) /\ Goes(PrintCmdOutput, x(k), d)}
<1>1. /\ Char \in Ops /\ Ack \in Ops /\ Put(0) \in Ops /\ Done \in Ops
      /\ Put(EOT) \in Ops /\ Status \in Ops
      /\ s \in Seq(Ops) /\ Len(s) = 3 /\ e \in Seq(Ops)
  <2>1. EOT \in Nat
    BY DEF EOT
  <2> QED
    BY <2>1, OpTypes
<1>2. PrintCmdOutput = << Send("cmd_get_next_char") >> \o << InChar >>
  BY Cut DEF PrintCmdOutput
<1>3. ASSUME NEW k \in Nat
      PROVE  /\ Times(0, s) = << >> /\ Times(k, s) \in Seq(Ops)
             /\ Times(k + 1, s) = s \o Times(k, s)
  <2>1. Len(s) \in 1..4
    BY <1>1
  <2> HIDE DEF s, T
  <2> QED
    BY <1>1, <2>1, TimesFacts
<1>4. x(0) = e
  BY <1>1, <1>3, ConcatEmptySeq
<1>5. 0 \in T
  <2> DEFINE u == << Put(EOT) >> \o << Status, Ack, Done >>
  <2>1. Waits(<< InChar >>, u, d)
    BY ReadsStatus, CharRead DEF EOT
  <2>2. Goes(PrintCmdOutput, << Char >> \o u, d)
    BY <1>2, <2>1, CharAsked
  <2>3. u \in Seq(Ops)
    BY <2>1, FitsTypes
  <2>4. Goes(<< >>, << Char >> \o u, d)
    BY <2>3, Ended
  <2>5. e = << Char >> \o u
    OBVIOUS
  <2> QED
    BY <1>1, <1>4, <2>2, <2>4, <2>5
<1>6. ASSUME NEW k \in Nat, k \in T PROVE k + 1 \in T
  <2> DEFINE y == x(k)
             u == << Put(0) >> \o (<< Ack >> \o y)
  <2>1. y \in Seq(Ops) /\ Goes(<< >>, y, d) /\ Goes(PrintCmdOutput, y, d)
    BY <1>6
  <2>2. x(k + 1) = << Char >> \o u
    <3>1. x(k + 1) = s \o y
      <4>1. Times(k, s) \in Seq(Ops) /\ Times(k + 1, s) = s \o Times(k, s)
        BY <1>3
      <4> HIDE DEF s, e, T
      <4>2. (s \o Times(k, s)) \o e = s \o (Times(k, s) \o e)
        BY <1>1, <4>1, ConcatAssociative, SMTT(60)
      <4> QED
        BY <4>1, <4>2, Zenon
    <3>2. s = << Char >> \o << Put(0), Ack >>
      BY Cut12
    <3>3. << Put(0), Ack >> = << Put(0) >> \o << Ack >>
      BY Cut
    <3>4. /\ << Char >> \in Seq(Ops) /\ << Put(0), Ack >> \in Seq(Ops)
          /\ << Put(0) >> \in Seq(Ops) /\ << Ack >> \in Seq(Ops)
      BY <1>1
    <3> HIDE DEF s, x, y
    <3>5. s \o y = << Char >> \o (<< Put(0), Ack >> \o y)
      BY <2>1, <3>2, <3>4, ConcatAssociative
    <3>6. << Put(0), Ack >> \o y = u
      BY <2>1, <3>3, <3>4, ConcatAssociative
    <3> QED
      BY <3>1, <3>5, <3>6
  <2> HIDE DEF y, x
  <2>3. Waits(<< >>, << Ack >> \o y, d) /\ Waits(PrintCmdOutput, << Ack >> \o y, d)
    BY <2>1, Toggled
  <2>4. Waits(<< InChar >>, u, d)
    BY <2>3, CharRead DEF EOT
  <2>5. Goes(PrintCmdOutput, << Char >> \o u, d)
    BY <1>2, <2>4, CharAsked
  <2>6. u \in Seq(Ops)
    BY <2>4, FitsTypes
  <2>7. Goes(<< >>, << Char >> \o u, d)
    BY <2>6, Ended
  <2>8. x(k + 1) \in Seq(Ops) /\ Goes(<< >>, x(k + 1), d) /\ Goes(PrintCmdOutput, x(k + 1), d)
    BY <2>2, <2>5, <2>7, FitsTypes
  <2> QED
    BY <2>8
<1>7. n \in T
  <2> HIDE DEF T
  <2> QED
    BY <1>5, <1>6, Successive
<1> QED
  BY <1>7 DEF Listing

\* The name of a file or a directory to list, each byte of it acknowledged
\* after it is taken: the listing follows at once.
LEMMA WordsTaken ==
  ASSUME NEW n \in Lens, NEW r, NEW h, NEW d, Goes(r, h, d)
  PROVE  Waits(SendString(n) \o r, << Ack, Words >> \o h, d)
<1> DEFINE s == << Get, Ack >>
           f == [m \in Lens |-> << Ack >> \o Times(m, s)]
           T == {k \in Nat : \A p \in Seq(Given(0)) :
                   Len(p) = k => Goes(p \o r, Times(k, s) \o h, d)}
<1>0. n \in Nat /\ Lens \subseteq Nat
  BY LensAssumption
<1>1. r \in Seq(Accesses) /\ h \in Seq(Ops)
  BY FitsTypes
<1>2. /\ Ack \in SimpleOps /\ Ack \in Ops /\ Get \in Ops
      /\ s \in Seq(SimpleOps) /\ s \in Seq(Ops) /\ Len(s) = 2
      /\ << Ack >> \in Seq(SimpleOps) /\ << Ack >> \in Seq(Ops) /\ << Get >> \in Seq(Ops)
  BY OpTypes
<1>3. ASSUME NEW k \in Nat
      PROVE  /\ Times(0, s) = << >> /\ Times(k, s) \in Seq(SimpleOps) /\ Times(k, s) \in Seq(Ops)
             /\ Times(k + 1, s) = s \o Times(k, s)
  <2>1. Len(s) \in 1..4
    BY <1>2
  <2> HIDE DEF s, T, f
  <2>2. Times(0, s) = << >> /\ Times(k, s) \in Seq(SimpleOps) /\ Times(k + 1, s) = s \o Times(k, s)
    BY <1>2, <2>1, TimesFacts
  <2> QED
    BY <2>2, OpTypes
<1>4. s = << Get >> \o << Ack >>
  BY Cut
<1>5. Given(0) \subseteq Accesses
  BY AccessTypes DEF Given
<1>6. 0 \in T
  <2>1. \A p \in Seq(Given(0)) : Len(p) = 0 => p = << >>
    BY EmptySeq
  <2>2. << >> \o r = r /\ Times(0, s) \o h = h
    BY <1>1, <1>3, ConcatEmptySeq
  <2> QED
    BY <2>1, <2>2
<1>7. ASSUME NEW k \in Nat, k \in T PROVE k + 1 \in T
  <2> SUFFICES ASSUME NEW p \in Seq(Given(0)), Len(p) = k + 1
               PROVE  Goes(p \o r, Times(k + 1, s) \o h, d)
    OBVIOUS
  <2> DEFINE q == Tail(p)
             t == Times(k, s)
             g == t \o h
  <2>1. p # << >>
    BY EmptySeq
  <2>2. Head(p) \in Given(0) /\ q \in Seq(Given(0)) /\ Len(q) = k
    BY <2>1, HeadTailProperties
  <2>3. p = << Head(p) >> \o q
    BY <2>1
  <2>4. Goes(q \o r, g, d)
    BY <1>7, <2>2
  <2>5. Goes(<< Head(p) >> \o (q \o r), << Get >> \o (<< Ack >> \o g), d)
    BY <2>2, <2>4, Toggled, ByteTaken
  <2>6. q \in Seq(Accesses) /\ << Head(p) >> \in Seq(Accesses)
    <3>1. q \in Seq(Accesses)
      BY <1>5, <2>2, SeqMonotonic
    <3> QED
      BY <1>5, <2>2, <3>1
  <2>7. t \in Seq(Ops) /\ g \in Seq(Ops)
    BY <1>1, <1>3, ConcatProperties
  <2>8. Times(k + 1, s) = s \o t
    BY <1>3
  <2> HIDE DEF q, t, s, T, f
  <2> DEFINE a == << Head(p) >>
  <2> HIDE DEF a
  <2>9. p \o r = a \o (q \o r)
    <3>1. p = a \o q
      BY <2>3 DEF a
    <3>2. a \in Seq(Accesses) /\ q \in Seq(Accesses) /\ r \in Seq(Accesses)
      BY <1>1, <2>6 DEF a
    <3>3. (a \o q) \o r = a \o (q \o r)
      BY <3>2, ConcatAssociative
    <3> QED
      BY <3>1, <3>3, Zenon
  <2>10. (s \o t) \o h = s \o g
    BY <1>1, <1>2, <2>7, ConcatAssociative, SMTT(60)
  <2> HIDE DEF g
  <2>11. s \o g = << Get >> \o (<< Ack >> \o g)
    BY <1>2, <1>4, <2>7, ConcatAssociative
  <2> QED
    BY <2>5, <2>8, <2>9, <2>10, <2>11, Zenon DEF a
<1>8. n \in T
  <2> HIDE DEF T
  <2> QED
    BY <1>0, <1>6, <1>7, Successive
<1> DEFINE p == Times(n, << Out(0) >>)
<1>9. /\ p \in Seq(Given(0)) /\ Len(p) = n /\ Out(n) \in Given(n)
      /\ SendString(n) = << Out(n) >> \o p
  BY <1>0, SendStringIs DEF SendString, Given
<1>10. Waits(p \o r, << Ack >> \o (Times(n, s) \o h), d)
  <2>1. Goes(p \o r, Times(n, s) \o h, d)
    BY <1>8, <1>9
  <2> QED
    BY <2>1, Toggled
<1>11. Words = Count(f)
  BY DEF Words
<1>12. f[n] = << Ack >> \o Times(n, s)
  OBVIOUS
<1>13. f \in [Lens -> Seq(SimpleOps)]
  <2>1. ASSUME NEW m \in Lens PROVE << Ack >> \o Times(m, s) \in Seq(SimpleOps)
    <3>1. Times(m, s) \in Seq(SimpleOps)
      BY <1>0, <1>3
    <3> HIDE DEF s
    <3> QED
      BY <1>2, <3>1, ConcatProperties
  <2> QED
    BY <2>1
<1>14. Times(n, s) \in Seq(Ops)
  BY <1>0, <1>3
<1> HIDE DEF f, s, p
<1>15. f[n] \o h = << Ack >> \o (Times(n, s) \o h)
  BY <1>1, <1>2, <1>12, <1>14, ConcatAssociative
<1>16. Waits(<< Out(n) >> \o (p \o r), << Ack >> \o (<< Count(f) >> \o h), d)
  <2>1. Waits(p \o r, f[n] \o h, d)
    BY <1>10, <1>15
  <2>2. Goes(<< Out(n) >> \o (p \o r), << Count(f) >> \o h, d)
    BY <1>1, <1>9, <1>13, <2>1, CountTaken
  <2> QED
    BY <2>2, Toggled
<1>17. SendString(n) \o r = << Out(n) >> \o (p \o r)
  <2>1. p \in Seq(Accesses) /\ << Out(n) >> \in Seq(Accesses)
    <3>1. p \in Seq(Accesses)
      BY <1>5, <1>9, SeqMonotonic
    <3>2. Out(n) \in Accesses
      BY <1>0, AccessTypes
    <3> QED
      BY <3>1, <3>2
  <2> QED
    BY <1>1, <1>9, <2>1, ConcatAssociative
<1>18. << Ack, Words >> \o h = << Ack >> \o (<< Count(f) >> \o h)
  <2>1. << Ack, Words >> = << Ack >> \o << Count(f) >>
    BY <1>11, Cut
  <2>2. << Count(f) >> \in Seq(Ops)
    <3>1. Count(f) \in Ops
      BY <1>13, OpTypes
    <3> QED
      BY <3>1
  <2> QED
    BY <1>1, <1>2, <2>1, <2>2, ConcatAssociative
<1> QED
  BY <1>16, <1>17, <1>18

\* An even number of bytes, taken by twos.
LEMMA DoesPairs ==
  ASSUME NEW n \in Lens, n % 2 = 0
  PROVE  Does(SendString(n), << Ack, Pairs >>)
<1> DEFINE s == << Ack, Get, Ack, Get >>
           f == [m \in Lens |-> Times(m \div 2, s)]
           p == Times(n, << Out(0) >>)
           k == n \div 2
<1>0. n \in Nat /\ Lens \subseteq Nat
  BY LensAssumption
<1>1. s \in Seq(SimpleOps) /\ Len(s) = 4 /\ << Ack, Get >> \in Seq(SimpleOps)
  BY OpTypes
<1>2. f \in [Lens -> Seq(SimpleOps)]
  <2>1. ASSUME NEW m \in Lens PROVE Times(m \div 2, s) \in Seq(SimpleOps)
    <3>1. m \div 2 \in Nat /\ Len(s) \in 1..4
      BY <1>0, <1>1
    <3> HIDE DEF s
    <3> QED
      BY <1>1, <3>1, TimesFacts
  <2> QED
    BY <2>1
<1>3. k \in Nat /\ n = 2 * k
  BY <1>0
<1>4. Times(k, s) = Times(n, << Ack, Get >>)
  <2> DEFINE u == Times(k, s)
             v == Times(n, << Ack, Get >>)
  <2>1. \A j \in 1..(4 * k) : s[((j - 1) % 4) + 1] = << Ack, Get >>[((j - 1) % 2) + 1]
    <3> SUFFICES ASSUME NEW j \in 1..(4 * k)
                 PROVE  s[((j - 1) % 4) + 1] = << Ack, Get >>[((j - 1) % 2) + 1]
      OBVIOUS
    <3>1. \/ (j - 1) % 4 = 0 /\ (j - 1) % 2 = 0
          \/ (j - 1) % 4 = 1 /\ (j - 1) % 2 = 1
          \/ (j - 1) % 4 = 2 /\ (j - 1) % 2 = 0
          \/ (j - 1) % 4 = 3 /\ (j - 1) % 2 = 1
      <4>1. j - 1 \in Nat
        BY <1>3
      <4>2. \A i \in Nat :
              \/ i % 4 = 0 /\ i % 2 = 0
              \/ i % 4 = 1 /\ i % 2 = 1
              \/ i % 4 = 2 /\ i % 2 = 0
              \/ i % 4 = 3 /\ i % 2 = 1
        OBVIOUS
      <4> QED
        BY <4>1, <4>2
    <3>2. /\ s[1] = Ack /\ s[2] = Get /\ s[3] = Ack /\ s[4] = Get
          /\ << Ack, Get >>[1] = Ack /\ << Ack, Get >>[2] = Get
      OBVIOUS
    <3> HIDE DEF s
    <3> QED
      BY <3>1, <3>2
  <2>2. k * 4 = 4 * k /\ n * 2 = 4 * k
    BY <1>3
  <2>3. u = [j \in 1..(4 * k) |-> s[((j - 1) % 4) + 1]]
    BY <1>1, <2>2 DEF Times
  <2>4. v = [j \in 1..(4 * k) |-> << Ack, Get >>[((j - 1) % 2) + 1]]
    BY <2>2 DEF Times
  <2> QED
    BY <2>1, <2>3, <2>4
<1>5. Pairs = Count(f) /\ f[n] = Times(k, s)
  BY DEF Pairs
<1>6. p \in Seq(Given(0)) /\ Len(p) = n /\ Out(n) \in Given(n) /\ SendString(n) = << Out(n) >> \o p
  BY <1>0, SendStringIs DEF SendString, Given
<1> HIDE DEF f, p, k, s
<1>7. Does(p, f[n])
  BY <1>0, <1>4, <1>5, <1>6, DoesBytes
<1> QED
  BY <1>2, <1>5, <1>6, <1>7, DoesCount

-----------------------------------------------------------------------------
(* The routines and the handlers of their commands.                        *)

\* A routine may be begun: it fits every handler of the command it sends.
Suits(x, t) ==
  \E c \in Commands \ {"cmd_get_next_char"} : \E p \in Seq(Accesses) :
    /\ x = << Send(c) >> \o p
    /\ \A h \in commands(t)[c] : Waits(p, h, FALSE)

\* The beginning of a routine, and of the handler of c.
Serves(x, c, q) == \E p \in Seq(Accesses) : Does(p, q) /\ x = << Send(c) >> \o p

\* c has this handler only.
Only(t, c, h) == c \in Commands \ {"cmd_get_next_char"} /\ commands(t)[c] = {h}

LEMMA ServesFirst ==
  ASSUME NEW c, NEW p, NEW q, Does(p, q)
  PROVE  Serves(<< Send(c) >> \o p, c, q)
BY DEF Serves, Does

LEMMA ServesMore ==
  ASSUME NEW c \in Commands, NEW x, NEW q, Serves(x, c, q), NEW p2, NEW q2, Does(p2, q2)
  PROVE  Serves(x \o p2, c, q \o q2)
<1>1. PICK p \in Seq(Accesses) : Does(p, q) /\ x = << Send(c) >> \o p
  BY DEF Serves
<1>2. Does(p \o p2, q \o q2)
  BY <1>1, DoesBoth
<1>3. p2 \in Seq(Accesses) /\ p \o p2 \in Seq(Accesses)
  BY <1>2 DEF Does
<1>4. << Send(c) >> \in Seq(Accesses)
  <2>1. Send(c) \in Accesses
    BY AccessTypes
  <2> QED
    BY <2>1
<1> DEFINE s == << Send(c) >>
<1> HIDE DEF s
<1>5. s \in Seq(Accesses)
  BY <1>4 DEF s
<1>6. (s \o p) \o p2 = s \o (p \o p2)
  BY <1>1, <1>3, <1>5, ConcatAssociative
<1>7. x \o p2 = << Send(c) >> \o (p \o p2)
  BY <1>1, <1>6 DEF s
<1> QED
  BY <1>2, <1>3, <1>7 DEF Serves

LEMMA EndFits ==
  ASSUME NEW p, NEW q, NEW e, Does(p, q), Closes(e)
  PROVE  Waits(p, q \o e, FALSE)
<1>1. Waits(p \o << >>, q \o e, FALSE) /\ p \in Seq(Accesses)
  BY DEF Does, Closes
<1>2. p \o << >> = p
  BY <1>1, ConcatEmptySeq
<1> QED
  BY <1>1, <1>2

LEMMA Served ==
  ASSUME NEW t, NEW c \in Commands \ {"cmd_get_next_char"}, NEW x, NEW q, Serves(x, c, q),
         \A h \in commands(t)[c] : \E e : Closes(e) /\ h = q \o e
  PROVE  Suits(x, t)
<1>1. PICK p \in Seq(Accesses) : Does(p, q) /\ x = << Send(c) >> \o p
  BY DEF Serves
<1>2. ASSUME NEW h \in commands(t)[c] PROVE Waits(p, h, FALSE)
  <2>1. PICK e : Closes(e) /\ h = q \o e
    OBVIOUS
  <2> QED
    BY <1>1, <2>1, EndFits
<1> QED
  BY <1>1, <1>2 DEF Suits

LEMMA ServedOnly ==
  ASSUME NEW t, NEW c, NEW h, NEW x, NEW q, NEW e,
         Only(t, c, h), Serves(x, c, q), Closes(e), h = q \o e
  PROVE  Suits(x, t)
BY Served DEF Only

\* The commands that only acknowledge.
AckCommands ==
  {"cmd_enable_48K", "cmd_disable_48K", "cmd_romlock_on", "cmd_romlock_off",
   "cmd_fullpaging", "cmd_halfpaging", "cmd_enable_mc45", "cmd_disable_mc45",
   "cmd_enable_dst", "cmd_disable_dst", "cmd_sel_64_chars", "cmd_sel_128_chars",
   "cmd_sel_256_chars", "cmd_pause_VGM", "cmd_stop_VGM", "cmd_cont_VGM", "cmd_ntp_sync"}

LEMMA AckTable ==
  ASSUME NEW t, NEW c \in AckCommands
  PROVE  Only(t, c, OnlyAck)
<1>1. /\ Only(t, "cmd_enable_48K", OnlyAck) /\ Only(t, "cmd_disable_48K", OnlyAck)
      /\ Only(t, "cmd_romlock_on", OnlyAck)
  BY SMTT(60) DEF Only, Commands, commands, cmd_enable_48K, cmd_disable_48K, cmd_romlock_on
<1>2. /\ Only(t, "cmd_romlock_off", OnlyAck) /\ Only(t, "cmd_fullpaging", OnlyAck)
      /\ Only(t, "cmd_halfpaging", OnlyAck)
  BY SMTT(60) DEF Only, Commands, commands, cmd_romlock_off, cmd_fullpaging, cmd_halfpaging
<1>3. /\ Only(t, "cmd_enable_mc45", OnlyAck) /\ Only(t, "cmd_disable_mc45", OnlyAck)
      /\ Only(t, "cmd_enable_dst", OnlyAck)
  BY SMTT(60) DEF Only, Commands, commands, cmd_enable_mc45, cmd_disable_mc45, cmd_enable_dst
<1>4. /\ Only(t, "cmd_disable_dst", OnlyAck) /\ Only(t, "cmd_sel_64_chars", OnlyAck)
      /\ Only(t, "cmd_sel_128_chars", OnlyAck)
  BY SMTT(60) DEF Only, Commands, commands, cmd_disable_dst, cmd_sel_64_chars, cmd_sel_128_chars
<1>5. /\ Only(t, "cmd_sel_256_chars", OnlyAck) /\ Only(t, "cmd_pause_VGM", OnlyAck)
      /\ Only(t, "cmd_stop_VGM", OnlyAck)
  BY SMTT(60) DEF Only, Commands, commands, cmd_sel_256_chars, cmd_pause_VGM, cmd_stop_VGM
<1>6. /\ Only(t, "cmd_cont_VGM", OnlyAck) /\ Only(t, "cmd_ntp_sync", OnlyAck)
  BY SMTT(60) DEF Only, Commands, commands, cmd_cont_VGM, cmd_ntp_sync
<1> QED
  BY <1>1, <1>2, <1>3, <1>4, <1>5, <1>6 DEF AckCommands

LEMMA AloneSuits ==
  ASSUME NEW t
  PROVE  /\ \A c \in AckCommands : Suits(<< Send(c) >>, t)
         /\ Suits(<< Send("cmd_nop") >>, t)
<1>1. ASSUME NEW c, NEW h, Only(t, c, h), Closes(h) PROVE Suits(<< Send(c) >>, t)
  <2>1. << Send(c) >> = << Send(c) >> \o << >>
    <3>1. << Send(c) >> \in Seq({Send(c)})
      OBVIOUS
    <3> QED
      BY <3>1, ConcatEmptySeq
  <2>2. << >> \in Seq(Accesses) /\ Waits(<< >>, h, FALSE)
    BY <1>1, FitsTypes DEF Closes
  <2> QED
    BY <1>1, <2>1, <2>2 DEF Suits, Only
<1>2. Closes(OnlyAck) /\ Closes(cmd_nop)
  BY Closing DEF OnlyAck, cmd_nop
<1>3. Only(t, "cmd_nop", cmd_nop)
  BY DEF Only, Commands, commands
<1> QED
  BY <1>1, <1>2, <1>3, AckTable

\* One and two bytes given, and one or more read.
LEMMA BytesTable ==
  ASSUME NEW t
  PROVE  /\ Only(t, "cmd_loop_VGM", OneByte) /\ Only(t, "cmd_pause_PEG", OneByte)
         /\ Only(t, "cmd_stop_PEG", OneByte) /\ Only(t, "cmd_cont_PEG", OneByte)
         /\ Only(t, "cmd_setbyte", TwoBytes) /\ Only(t, "cmd_AY_set_reg", TwoBytes)
         /\ Only(t, "cmd_play_PEG", TwoBytes)
         /\ Only(t, "cmd_getbyte", ByteToByte) /\ Only(t, "cmd_AY_get_reg", ByteToByte)
         /\ Only(t, "cmd_ntp_setoffset", ByteToByte)
<1>1. /\ Only(t, "cmd_loop_VGM", OneByte) /\ Only(t, "cmd_pause_PEG", OneByte)
      /\ Only(t, "cmd_stop_PEG", OneByte) /\ Only(t, "cmd_cont_PEG", OneByte)
      /\ Only(t, "cmd_setbyte", TwoBytes)
  BY SMTT(60) DEF Only, Commands, commands, cmd_loop_VGM, cmd_pause_PEG, cmd_stop_PEG,
         cmd_cont_PEG, cmd_setbyte
<1>2. /\ Only(t, "cmd_AY_set_reg", TwoBytes) /\ Only(t, "cmd_play_PEG", TwoBytes)
      /\ Only(t, "cmd_getbyte", ByteToByte) /\ Only(t, "cmd_AY_get_reg", ByteToByte)
      /\ Only(t, "cmd_ntp_setoffset", ByteToByte)
  BY DEF Only, Commands, commands, cmd_AY_set_reg, cmd_play_PEG, cmd_getbyte,
         cmd_AY_get_reg, cmd_ntp_setoffset
<1> QED
  BY <1>1, <1>2

LEMMA DoesPlain ==
  Does(<< Out(0) >>, << Ack, Get >>) /\ Does(<< In >>, << Put(0) >>) /\ Does(<< In >>, << Status >>)
BY DoesOne DEF Given, Status

LEMMA BytesSuit ==
  ASSUME NEW t
  PROVE  /\ \A c \in {"cmd_loop_VGM", "cmd_pause_PEG", "cmd_stop_PEG", "cmd_cont_PEG"} :
              Suits(<< Send(c), Out(0) >>, t)
         /\ \A c \in {"cmd_setbyte", "cmd_AY_set_reg", "cmd_play_PEG"} :
              Suits(<< Send(c), Out(0), Out(0) >>, t)
         /\ \A c \in {"cmd_getbyte", "cmd_AY_get_reg", "cmd_ntp_setoffset"} :
              Suits(<< Send(c), Out(0), In >>, t)
<1>1. ASSUME NEW c, Only(t, c, OneByte) PROVE Suits(<< Send(c), Out(0) >>, t)
  <2>1. Serves(<< Send(c) >> \o << Out(0) >>, c, << Ack, Get >>)
    BY DoesPlain, ServesFirst
  <2>2. OneByte = << Ack, Get >> \o << Ack, Done >>
    BY DEF OneByte
  <2>3. << Send(c), Out(0) >> = << Send(c) >> \o << Out(0) >>
    BY Cut
  <2> QED
    BY <1>1, <2>1, <2>2, <2>3, Closing, ServedOnly
<1>2. ASSUME NEW c, Only(t, c, TwoBytes) PROVE Suits(<< Send(c), Out(0), Out(0) >>, t)
  <2>1. Serves(<< Send(c) >> \o << Out(0) >>, c, << Ack, Get >>)
    BY DoesPlain, ServesFirst
  <2>2. Serves((<< Send(c) >> \o << Out(0) >>) \o << Out(0) >>, c, << Ack, Get >> \o << Ack, Get >>)
    BY <1>2, <2>1, DoesPlain, ServesMore DEF Only
  <2>3. TwoBytes = (<< Ack, Get >> \o << Ack, Get >>) \o << Ack, Done >>
    BY DEF TwoBytes
  <2>4. << Send(c), Out(0), Out(0) >> = (<< Send(c) >> \o << Out(0) >>) \o << Out(0) >>
    BY RoutineCuts, SMTT(60)
  <2> QED
    BY <1>2, <2>2, <2>3, <2>4, Closing, ServedOnly
<1>3. ASSUME NEW c, Only(t, c, ByteToByte) PROVE Suits(<< Send(c), Out(0), In >>, t)
  <2>1. Serves(<< Send(c) >> \o << Out(0) >>, c, << Ack, Get >>)
    BY DoesPlain, ServesFirst
  <2>2. Serves((<< Send(c) >> \o << Out(0) >>) \o << In >>, c, << Ack, Get >> \o << Put(0) >>)
    BY <1>3, <2>1, DoesPlain, ServesMore DEF Only
  <2>3. ByteToByte = (<< Ack, Get >> \o << Put(0) >>) \o << Ack, Done >>
    BY DEF ByteToByte
  <2>4. << Send(c), Out(0), In >> = (<< Send(c) >> \o << Out(0) >>) \o << In >>
    BY RoutineCuts, SMTT(60)
  <2> QED
    BY <1>3, <2>2, <2>3, <2>4, Closing, ServedOnly
<1> QED
  BY <1>1, <1>2, <1>3, BytesTable

\* Commands with strings.
LEMMA StringTable ==
  ASSUME NEW t
  PROVE  /\ \A c \in {"cmd_mkdir", "cmd_rmdir", "cmd_del", "cmd_play_VGM", "cmd_joy", "cmd_say",
                      "cmd_ntp_setserver"} : Only(t, c, OneString)
         /\ \A c \in {"cmd_opendir2", "cmd_f_open", "cmd_f_create", "cmd_f_open_zx81",
                      "cmd_f_create_zx81"} : Only(t, c, do_f_open)
         /\ Only(t, "cmd_cd", cmd_cd)
         /\ Only(t, "cmd_move", TwoStrings) /\ Only(t, "cmd_copy", TwoStrings)
<1>1. /\ Only(t, "cmd_mkdir", OneString) /\ Only(t, "cmd_rmdir", OneString)
      /\ Only(t, "cmd_del", OneString)
  BY SMTT(60) DEF Only, Commands, commands, cmd_mkdir, cmd_rmdir, cmd_del
<1>2. /\ Only(t, "cmd_play_VGM", OneString) /\ Only(t, "cmd_joy", OneString)
  BY SMTT(60) DEF Only, Commands, commands, cmd_play_VGM, cmd_joy
<1>3. /\ Only(t, "cmd_say", OneString) /\ Only(t, "cmd_ntp_setserver", OneString)
  BY SMTT(60) DEF Only, Commands, commands, cmd_say, cmd_ntp_setserver
<1>4. /\ Only(t, "cmd_opendir2", do_f_open) /\ Only(t, "cmd_f_open", do_f_open)
      /\ Only(t, "cmd_f_create", do_f_open)
  BY SMTT(60) DEF Only, Commands, commands, cmd_opendir2, do_f_open
<1>5. /\ Only(t, "cmd_f_open_zx81", do_f_open) /\ Only(t, "cmd_f_create_zx81", do_f_open)
  BY SMTT(60) DEF Only, Commands, commands
<1>6. /\ Only(t, "cmd_cd", cmd_cd) /\ Only(t, "cmd_move", TwoStrings)
      /\ Only(t, "cmd_copy", TwoStrings)
  BY SMTT(60) DEF Only, Commands, commands, cmd_move, cmd_copy
<1> QED
  BY <1>1, <1>2, <1>3, <1>4, <1>5, <1>6

LEMMA StringSuits ==
  ASSUME NEW t, NEW n \in Lens
  PROVE  \A c \in {"cmd_mkdir", "cmd_rmdir", "cmd_del", "cmd_play_VGM", "cmd_joy", "cmd_say",
                   "cmd_ntp_setserver", "cmd_opendir2", "cmd_f_open", "cmd_f_create",
                   "cmd_f_open_zx81", "cmd_f_create_zx81", "cmd_cd"} :
           Suits(<< Send(c) >> \o SendString(n) \o << In >>, t)
<1>1. ASSUME NEW c \in Commands
      PROVE  /\ Serves(<< Send(c) >> \o SendString(n), c, << Ack, String >>)
             /\ Serves((<< Send(c) >> \o SendString(n)) \o << In >>, c,
                       << Ack, String >> \o << Status >>)
             /\ Serves((<< Send(c) >> \o SendString(n)) \o << In >>, c,
                       (<< Ack, String >> \o << Chdir >>) \o << Status >>)
  <2>1. Serves(<< Send(c) >> \o SendString(n), c, << Ack, String >>)
    BY DoesString, ServesFirst
  <2>2. Serves((<< Send(c) >> \o SendString(n)) \o << In >>, c, << Ack, String >> \o << Status >>)
    BY <2>1, DoesPlain, ServesMore
  <2>3. Does(SendString(n), << Ack, String >> \o << Chdir >>)
    <3>1. Does(SendString(n) \o << >>, << Ack, String >> \o << Chdir >>)
      BY DoesString, DoesOne, DoesBoth
    <3>2. SendString(n) \o << >> = SendString(n)
      BY DoesString, ConcatEmptySeq DEF Does
    <3> QED
      BY <3>1, <3>2
  <2>4. Serves(<< Send(c) >> \o SendString(n), c, << Ack, String >> \o << Chdir >>)
    BY <2>3, ServesFirst
  <2>5. Serves((<< Send(c) >> \o SendString(n)) \o << In >>, c,
               (<< Ack, String >> \o << Chdir >>) \o << Status >>)
    BY <2>4, DoesPlain, ServesMore
  <2> QED
    BY <2>1, <2>2, <2>5
<1>2. /\ OneString = (<< Ack, String >> \o << Status >>) \o << Ack, Done >>
      /\ do_f_open = (<< Ack, String >> \o << Status >>) \o << Done, Ack >>
  <2>1. OneString = (<< Ack, String >> \o << Status >>) \o << Ack, Done >>
    BY DEF OneString
  <2>2. do_f_open = (<< Ack, String >> \o << Status >>) \o << Done, Ack >>
    BY DEF do_f_open
  <2> QED
    BY <2>1, <2>2
<1>3. cmd_cd = ((<< Ack, String >> \o << Chdir >>) \o << Status >>) \o << Done, Ack >>
  BY DEF cmd_cd
<1>4. ASSUME NEW c, Only(t, c, OneString) \/ Only(t, c, do_f_open) \/ Only(t, c, cmd_cd)
      PROVE  Suits((<< Send(c) >> \o SendString(n)) \o << In >>, t)
  <2>1. c \in Commands
    BY <1>4 DEF Only
  <2>2. CASE Only(t, c, OneString)
    BY <1>1, <1>2, <2>1, <2>2, Closing, ServedOnly
  <2>3. CASE Only(t, c, do_f_open)
    BY <1>1, <1>2, <2>1, <2>3, Closing, ServedOnly
  <2>4. CASE Only(t, c, cmd_cd)
    BY <1>1, <1>3, <2>1, <2>4, Closing, ServedOnly
  <2> QED
    BY <1>4, <2>2, <2>3, <2>4
<1> QED
  BY <1>4, StringTable

LEMMA TwoStringsSuit ==
  ASSUME NEW t, NEW n \in Lens, NEW m \in Lens
  PROVE  \A c \in {"cmd_copy", "cmd_move"} :
           Suits(<< Send(c) >> \o SendString(n) \o SendString(m) \o << In >>, t)
<1>1. ASSUME NEW c, Only(t, c, TwoStrings)
      PROVE  Suits(((<< Send(c) >> \o SendString(n)) \o SendString(m)) \o << In >>, t)
  <2>0. c \in Commands
    BY <1>1 DEF Only
  <2>1. Serves(<< Send(c) >> \o SendString(n), c, << Ack, String >>)
    BY DoesString, ServesFirst
  <2>2. Serves((<< Send(c) >> \o SendString(n)) \o SendString(m), c,
               << Ack, String >> \o << Ack, String >>)
    BY <2>0, <2>1, DoesString, ServesMore
  <2>3. Serves(((<< Send(c) >> \o SendString(n)) \o SendString(m)) \o << In >>, c,
               (<< Ack, String >> \o << Ack, String >>) \o << Status >>)
    BY <2>0, <2>2, DoesPlain, ServesMore
  <2>4. TwoStrings = ((<< Ack, String >> \o << Ack, String >>) \o << Status >>) \o << Ack, Done >>
    BY DEF TwoStrings
  <2> QED
    BY <1>1, <2>3, <2>4, Closing, ServedOnly
<1> QED
  BY <1>1, StringTable

\* Bytes and strings, and the status and another byte read.
LEMMA MixedTable ==
  ASSUME NEW t
  PROVE  /\ Only(t, "cmd_f_open_img", cmd_f_open_img) /\ Only(t, "cmd_sdload_PEG", cmd_sdload_PEG)
         /\ Only(t, "cmd_f_write", cmd_f_write) /\ Only(t, "cmd_net_write", cmd_net_write)
         /\ Only(t, "cmd_loadZ81dbg", cmd_loadZ81dbg) /\ Only(t, "cmd_load_PEG", cmd_load_PEG)
         /\ Only(t, "cmd_f_close", cmd_f_close) /\ Only(t, "cmd_getrowlen", cmd_getrowlen)
         /\ Only(t, "cmd_ver", cmd_ver) /\ Only(t, "cmd_get_fpga_version", cmd_ver)
         /\ Only(t, "cmd_AY_play", cmd_AY_play)
<1>1. /\ Only(t, "cmd_f_open_img", cmd_f_open_img) /\ Only(t, "cmd_sdload_PEG", cmd_sdload_PEG)
      /\ Only(t, "cmd_f_write", cmd_f_write)
  BY SMTT(60) DEF Only, Commands, commands
<1>2. /\ Only(t, "cmd_net_write", cmd_net_write) /\ Only(t, "cmd_loadZ81dbg", cmd_loadZ81dbg)
      /\ Only(t, "cmd_load_PEG", cmd_load_PEG)
  BY SMTT(60) DEF Only, Commands, commands
<1>3. /\ Only(t, "cmd_f_close", cmd_f_close) /\ Only(t, "cmd_getrowlen", cmd_getrowlen)
      /\ Only(t, "cmd_AY_play", cmd_AY_play)
  BY SMTT(60) DEF Only, Commands, commands
<1>4. /\ Only(t, "cmd_ver", cmd_ver) /\ Only(t, "cmd_get_fpga_version", cmd_ver)
  BY SMTT(60) DEF Only, Commands, commands, cmd_ver, cmd_get_fpga_version
<1> QED
  BY <1>1, <1>2, <1>3, <1>4

\* Accesses and calls by twos and threes.
LEMMA DoesMore ==
  /\ Does(<< Out(0), In >>, << Ack, Get, Status >>)
  /\ Does(<< Out(0), Out(0) >>, << Ack, Get, Ack, Get >>)
  /\ Does(<< In, In >>, << Put(0), Status >>) /\ Does(<< In, In >>, << Status, Put(0) >>)
<1>1. Does(<< Out(0), In >>, << Ack, Get, Status >>)
  <2>1. Does(<< Out(0) >> \o << In >>, << Ack, Get >> \o << Status >>)
    BY DoesPlain, DoesBoth
  <2>2. << Ack, Get, Status >> = << Ack, Get >> \o << Status >>
    BY CutLast
  <2> QED
    BY <2>1, <2>2, Cut
<1>2. Does(<< Out(0), Out(0) >>, << Ack, Get, Ack, Get >>)
  <2>1. Does(<< Out(0) >> \o << Out(0) >>, << Ack, Get >> \o << Ack, Get >>)
    BY DoesPlain, DoesBoth
  <2>2. << Ack, Get, Ack, Get >> = << Ack, Get >> \o << Ack, Get >>
    OBVIOUS
  <2> QED
    BY <2>1, <2>2, Cut
<1>3. Does(<< In, In >>, << Put(0), Status >>) /\ Does(<< In, In >>, << Status, Put(0) >>)
  <2>1. /\ Does(<< In >> \o << In >>, << Put(0) >> \o << Status >>)
        /\ Does(<< In >> \o << In >>, << Status >> \o << Put(0) >>)
    BY DoesPlain, DoesBoth
  <2> QED
    BY <2>1, Cut
<1> QED
  BY <1>1, <1>2, <1>3

\* After q, every handler of c fits y.
Leaves(t, c, q, y) == \A h \in commands(t)[c] : \E e : Waits(y, e, FALSE) /\ h = q \o e

\* The end of a routine that no other part of the proof knows.
LEMMA ServedThen ==
  ASSUME NEW t, NEW c \in Commands \ {"cmd_get_next_char"}, NEW x, NEW q, Serves(x, c, q),
         NEW y \in Seq(Accesses), Leaves(t, c, q, y)
  PROVE  Suits(x \o y, t)
<1>1. PICK p \in Seq(Accesses) : Does(p, q) /\ x = << Send(c) >> \o p
  BY DEF Serves
<1>2. p \o y \in Seq(Accesses)
  BY <1>1, ConcatProperties
<1>3. x \o y = << Send(c) >> \o (p \o y)
  <2> DEFINE s == << Send(c) >>
  <2>1. s \in Seq(Accesses)
    <3>1. Send(c) \in Accesses
      BY AccessTypes
    <3> QED
      BY <3>1
  <2> HIDE DEF s
  <2>2. (s \o p) \o y = s \o (p \o y)
    BY <1>1, <2>1, ConcatAssociative, SMTT(60)
  <2> QED
    BY <1>1, <2>2 DEF s
<1>4. ASSUME NEW h \in commands(t)[c] PROVE Waits(p \o y, h, FALSE)
  <2>1. PICK e : Waits(y, e, FALSE) /\ h = q \o e
    BY DEF Leaves
  <2> QED
    BY <1>1, <2>1 DEF Does
<1> QED
  BY <1>2, <1>3, <1>4 DEF Suits

LEMMA MixedSuits ==
  ASSUME NEW t, NEW n \in Lens
  PROVE  /\ Suits(<< Send("cmd_f_open_img") >> \o SendString(n) \o << Out(0), In >>, t)
         /\ Suits(<< Send("cmd_sdload_PEG") >> \o SendString(n) \o << Out(0), In >>, t)
         /\ Suits(<< Send("cmd_f_write"), Out(0), Out(0) >> \o SendString(n) \o << In >>, t)
         /\ Suits(<< Send("cmd_net_write") >> \o SendString(n) \o << In, In >>, t)
         /\ Suits(<< Send("cmd_loadZ81dbg") >> \o SendString(n) \o << In, In >>, t)
         /\ (n % 2 = 0 => Suits(<< Send("cmd_load_PEG"), Out(0) >> \o SendString(n), t))
<1>1. ASSUME NEW c \in Commands, NEW y, NEW q, Does(y, q)
      PROVE  Serves((<< Send(c) >> \o SendString(n)) \o y, c, << Ack, String >> \o q)
  <2>1. Serves(<< Send(c) >> \o SendString(n), c, << Ack, String >>)
    BY DoesString, ServesFirst
  <2> QED
    BY <1>1, <2>1, ServesMore
<1>2. Suits((<< Send("cmd_f_open_img") >> \o SendString(n)) \o << Out(0), In >>, t)
  <2>1. cmd_f_open_img = (<< Ack, String >> \o << Ack, Get, Status >>) \o << Done, Ack >>
    BY DEF cmd_f_open_img
  <2>2. Only(t, "cmd_f_open_img", cmd_f_open_img) /\ "cmd_f_open_img" \in Commands
    BY MixedTable DEF Only
  <2> QED
    BY <1>1, <2>1, <2>2, DoesMore, Closing, ServedOnly
<1>3. Suits((<< Send("cmd_sdload_PEG") >> \o SendString(n)) \o << Out(0), In >>, t)
  <2>1. cmd_sdload_PEG = (<< Ack, String >> \o << Ack, Get, Status >>) \o << Ack, Done >>
    BY DEF cmd_sdload_PEG
  <2>2. Only(t, "cmd_sdload_PEG", cmd_sdload_PEG) /\ "cmd_sdload_PEG" \in Commands
    BY MixedTable DEF Only
  <2> QED
    BY <1>1, <2>1, <2>2, DoesMore, Closing, ServedOnly
<1>4. Suits((<< Send("cmd_f_write"), Out(0), Out(0) >> \o SendString(n)) \o << In >>, t)
  <2> DEFINE c == "cmd_f_write"
             g == << Ack, Get, Ack, Get >>
  <2>1. cmd_f_write = ((g \o << Ack, String >>) \o << Status >>) \o << Done, Ack >>
    BY DEF cmd_f_write
  <2>2. Only(t, c, cmd_f_write) /\ c \in Commands
    BY MixedTable DEF Only
  <2>3. << Send(c), Out(0), Out(0) >> = << Send(c) >> \o << Out(0), Out(0) >>
    BY Cut12
  <2>4. Serves(<< Send(c), Out(0), Out(0) >>, c, g)
    BY <2>3, DoesMore, ServesFirst
  <2>5. Serves(<< Send(c), Out(0), Out(0) >> \o SendString(n), c, g \o << Ack, String >>)
    BY <2>2, <2>4, DoesString, ServesMore
  <2>6. Serves((<< Send(c), Out(0), Out(0) >> \o SendString(n)) \o << In >>, c,
               (g \o << Ack, String >>) \o << Status >>)
    BY <2>2, <2>5, DoesPlain, ServesMore
  <2> QED
    BY <2>1, <2>2, <2>6, Closing, ServedOnly
<1>5. Suits((<< Send("cmd_net_write") >> \o SendString(n)) \o << In, In >>, t)
  <2>1. cmd_net_write = (<< Ack, String >> \o << Put(0), Status >>) \o << Done, Ack >>
    BY DEF cmd_net_write
  <2>2. Only(t, "cmd_net_write", cmd_net_write) /\ "cmd_net_write" \in Commands
    BY MixedTable DEF Only
  <2> QED
    BY <1>1, <2>1, <2>2, DoesMore, Closing, ServedOnly
<1>6. Suits((<< Send("cmd_loadZ81dbg") >> \o SendString(n)) \o << In, In >>, t)
  <2>1. cmd_loadZ81dbg = (<< Ack, String >> \o << Status, Put(0) >>) \o << Done, Ack >>
    BY DEF cmd_loadZ81dbg
  <2>2. Only(t, "cmd_loadZ81dbg", cmd_loadZ81dbg) /\ "cmd_loadZ81dbg" \in Commands
    BY MixedTable DEF Only
  <2> QED
    BY <1>1, <2>1, <2>2, DoesMore, Closing, ServedOnly
<1>7. ASSUME n % 2 = 0 PROVE Suits(<< Send("cmd_load_PEG"), Out(0) >> \o SendString(n), t)
  <2> DEFINE c == "cmd_load_PEG"
  <2>1. cmd_load_PEG = (<< Ack, Get >> \o << Ack, Pairs >>) \o << Ack, Done >>
    BY DEF cmd_load_PEG
  <2>2. Only(t, c, cmd_load_PEG) /\ c \in Commands
    BY MixedTable DEF Only
  <2>3. Serves(<< Send(c), Out(0) >>, c, << Ack, Get >>)
    BY Cut, DoesPlain, ServesFirst
  <2>4. Serves(<< Send(c), Out(0) >> \o SendString(n), c, << Ack, Get >> \o << Ack, Pairs >>)
    BY <1>7, <2>2, <2>3, DoesPairs, ServesMore
  <2> QED
    BY <2>1, <2>2, <2>4, Closing, ServedOnly
<1> QED
  BY <1>2, <1>3, <1>4, <1>5, <1>6, <1>7

LEMMA ReadsSuit ==
  ASSUME NEW t
  PROVE  /\ Suits(<< Send("cmd_ver"), In >>, t)
         /\ Suits(<< Send("cmd_get_fpga_version"), In >>, t)
         /\ Suits(<< Send("cmd_f_close"), Out(0), In >>, t)
         /\ Suits(<< Send("cmd_getrowlen"), Out(0), Out(0), In, In >>, t)
<1>1. \A c \in {"cmd_ver", "cmd_get_fpga_version"} : Suits(<< Send(c), In >>, t)
  <2> SUFFICES ASSUME NEW c \in {"cmd_ver", "cmd_get_fpga_version"}
               PROVE  Suits(<< Send(c), In >>, t)
    OBVIOUS
  <2>1. Serves(<< Send(c), In >>, c, << Put(0) >>)
    BY Cut, DoesPlain, ServesFirst
  <2>2. cmd_ver = << Put(0) >> \o << Ack, Done >>
    BY DEF cmd_ver
  <2> QED
    BY <2>1, <2>2, MixedTable, Closing, ServedOnly
<1>2. Suits(<< Send("cmd_f_close"), Out(0), In >>, t)
  <2> DEFINE c == "cmd_f_close"
  <2>1. << Send(c), Out(0), In >> = << Send(c) >> \o << Out(0), In >>
    BY Cut12
  <2>2. Serves(<< Send(c), Out(0), In >>, c, << Ack, Get, Status >>)
    BY <2>1, DoesMore, ServesFirst
  <2>3. cmd_f_close = << Ack, Get, Status >> \o << Done, Ack >>
    BY DEF cmd_f_close
  <2> QED
    BY <2>2, <2>3, MixedTable, Closing, ServedOnly
<1>3. Suits(<< Send("cmd_getrowlen"), Out(0), Out(0), In, In >>, t)
  <2> DEFINE c == "cmd_getrowlen"
             g == << Ack, Get, Ack, Get >>
  <2>1. << Send(c), Out(0), Out(0), In, In >> = (<< Send(c) >> \o << Out(0), Out(0) >>) \o << In, In >>
    OBVIOUS
  <2>2. Only(t, c, cmd_getrowlen) /\ c \in Commands
    BY MixedTable DEF Only
  <2>3. Serves(<< Send(c) >> \o << Out(0), Out(0) >>, c, g)
    BY DoesMore, ServesFirst
  <2>4. Serves((<< Send(c) >> \o << Out(0), Out(0) >>) \o << In, In >>, c, g \o << Put(0), Status >>)
    BY <2>2, <2>3, DoesMore, ServesMore
  <2>5. cmd_getrowlen = (g \o << Put(0), Status >>) \o << Ack, Done >>
    BY DEF cmd_getrowlen
  <2> QED
    BY <2>1, <2>2, <2>4, <2>5, Closing, ServedOnly
<1> QED
  BY <1>1, <1>2, <1>3

\* A tune, whether it ends or is ended.
LEMMA PlaySuits ==
  ASSUME NEW t, NEW n \in Lens, NEW m \in Lens, NEW k \in Lens
  PROVE  Suits(<< Send("cmd_AY_play") >> \o SendString(n) \o SendString(m) \o LastString(k)
               \o << In >>, t)
<1> DEFINE c == "cmd_AY_play"
           g == << Ack, String >>
<1>1. Only(t, c, cmd_AY_play) /\ c \in Commands
  BY MixedTable DEF Only
<1>2. Serves(<< Send(c) >> \o SendString(n), c, g)
  BY DoesString, ServesFirst
<1>3. Serves((<< Send(c) >> \o SendString(n)) \o SendString(m), c, g \o g)
  BY <1>1, <1>2, DoesString, ServesMore
<1>4. Serves(((<< Send(c) >> \o SendString(n)) \o SendString(m)) \o LastString(k), c, (g \o g) \o g)
  BY <1>1, <1>3, DoesString, ServesMore
<1>5. Waits(<< In >>, << Play, Done >>, FALSE)
  <2>1. << Status, Ack, Done >> = << Status, Ack >> \o << Done >>
    OBVIOUS
  <2>2. Waits(<< In >>, << Status, Ack >> \o << Done >>, FALSE)
    BY <2>1, ReadsStatus
  <2> QED
    BY <2>2, PlayFits
<1>6. cmd_AY_play = ((g \o g) \o g) \o << Play, Done >>
  BY DEF cmd_AY_play
<1>7. << In >> \in Seq(Accesses)
  BY AccessTypes
<1> DEFINE x == ((<< Send(c) >> \o SendString(n)) \o SendString(m)) \o LastString(k)
           q == (g \o g) \o g
           y == << In >>
<1>8. c \in Commands \ {"cmd_get_next_char"} /\ Serves(x, c, q) /\ y \in Seq(Accesses)
  BY <1>1, <1>4, <1>7
<1>9. Leaves(t, c, q, y)
  BY <1>1, <1>5, <1>6 DEF Only, Leaves
<1>10. Suits(x \o y, t)
  <2> HIDE DEF x, q, c, y
  <2> QED
    BY <1>8, <1>9, ServedThen
<1> QED
  BY <1>10
\* The other commands with one handler each.
LEMMA OtherTable ==
  ASSUME NEW t
  PROVE  /\ Only(t, "cmd_rtc", cmd_rtc) /\ Only(t, "cmd_f_seek", cmd_f_seek)
         /\ Only(t, "cmd_f_read", cmd_f_read) /\ Only(t, "cmd_f_stat", cmd_f_stat)
         /\ Only(t, "cmd_bat", cmd_bat) /\ Only(t, "cmd_free", cmd_free)
<1>1. /\ Only(t, "cmd_rtc", cmd_rtc) /\ Only(t, "cmd_f_seek", cmd_f_seek)
      /\ Only(t, "cmd_f_read", cmd_f_read)
  BY SMTT(60) DEF Only, Commands, commands
<1>2. /\ Only(t, "cmd_f_stat", cmd_f_stat) /\ Only(t, "cmd_bat", cmd_bat)
      /\ Only(t, "cmd_free", cmd_free)
  BY SMTT(60) DEF Only, Commands, commands
<1> QED
  BY <1>1, <1>2

LEMMA ReadsStatusFirst ==
  Waits(<< In >>, << Status, Done, Ack >>, FALSE)
<1>1. Waits(<< In >> \o << >>, << Put(0) >> \o << Done, Ack >>, FALSE)
  <2>1. Waits(<< >>, << Done, Ack >>, FALSE)
    BY Closing DEF Closes
  <2> QED
    BY <2>1, ByteRead
<1>2. << In >> \o << >> = << In >>
  <2>1. << In >> \in Seq(Accesses)
    BY AccessTypes
  <2> QED
    BY <2>1, ConcatEmptySeq
<1>3. << Put(0) >> \o << Done, Ack >> = << Status, Done, Ack >>
  BY Cut12 DEF Status
<1> QED
  BY <1>1, <1>2, <1>3

\* A routine with the status to read, of a command with one handler.
LEMMA ThenStatus ==
  ASSUME NEW t, NEW c, NEW h, NEW x, NEW q, NEW e, Only(t, c, h), Serves(x, c, q),
         e = << Status, Ack, Done >> \/ e = << Status, Done, Ack >>, h = q \o e
  PROVE  Suits(x \o << In >>, t)
<1> DEFINE y == << In >>
<1>1. Waits(y, e, FALSE)
  BY ReadsStatus, ReadsStatusFirst
<1>2. y \in Seq(Accesses)
  BY AccessTypes
<1> HIDE DEF y
<1>3. Leaves(t, c, q, y)
  BY <1>1 DEF Only, Leaves
<1>4. c \in Commands \ {"cmd_get_next_char"}
  BY DEF Only
<1>5. Suits(x \o y, t)
  BY <1>2, <1>3, <1>4, ServedThen
<1> QED
  BY <1>5 DEF y

\* A first access that goes with what follows.
LEMMA ServesPair ==
  ASSUME NEW c \in Commands, NEW a \in Accesses, NEW p \in Seq(Accesses), NEW q,
         Does(<< a >> \o p, q)
  PROVE  Serves(<< Send(c), a >> \o p, c, q)
<1> DEFINE s == << Send(c) >>
           u == << a >>
<1>1. s \in Seq(Accesses) /\ u \in Seq(Accesses)
  <2>1. Send(c) \in Accesses
    BY AccessTypes
  <2> QED
    BY <2>1
<1>2. << Send(c), a >> = s \o u
  BY Cut
<1> HIDE DEF s, u
<1>3. (s \o u) \o p = s \o (u \o p)
  BY <1>1, ConcatAssociative
<1>4. Serves(s \o (u \o p), c, q)
  BY ServesFirst DEF s, u
<1> QED
  BY <1>2, <1>3, <1>4

LEMMA DateSuits ==
  ASSUME NEW t
  PROVE  /\ Suits(<< Send("cmd_rtc"), Out(0) >> \o Ins(DateLen) \o << In >>, t)
         /\ \A n \in Filled : Suits(<< Send("cmd_rtc") >> \o SendString(n) \o << In >>, t)
<1> DEFINE c == "cmd_rtc"
           f == [n \in Lens |-> IF n = 0 THEN Times(DateLen, << Put(0) >>)
                                ELSE Times(n, << Ack, Get >>)]
           q == << Ack, Count(f) >>
<1>0. DateLen \in Nat /\ 0 \in Lens /\ Lens \subseteq Nat
  BY LensAssumption DEF DateLen
<1>1. f \in [Lens -> Seq(SimpleOps)]
  <2> DEFINE s == << Ack, Get >>
             b == << Put(0) >>
  <2>1. s \in Seq(SimpleOps) /\ Len(s) \in 1..4 /\ b \in Seq(SimpleOps) /\ Len(b) \in 1..4
    BY OpTypes
  <2> HIDE DEF s, b
  <2>2. \A m \in Lens : Times(m, s) \in Seq(SimpleOps)
    BY <1>0, <2>1, TimesFacts
  <2>3. Times(DateLen, b) \in Seq(SimpleOps)
    BY <1>0, <2>1, TimesFacts
  <2> QED
    BY <2>2, <2>3 DEF s, b
<1>2. f[0] = Times(DateLen, << Put(0) >>) /\ \A n \in Filled : f[n] = Times(n, << Ack, Get >>)
  BY <1>0 DEF Filled
<1>3. cmd_rtc = q \o << Status, Done, Ack >>
  <2>1. cmd_rtc = << Ack, Count(f), Status, Done, Ack >>
    BY DEF cmd_rtc
  <2> HIDE DEF f
  <2>2. << Ack, Count(f), Status, Done, Ack >> = << Ack, Count(f) >> \o << Status, Done, Ack >>
    OBVIOUS
  <2> QED
    BY <2>1, <2>2
<1> HIDE DEF f
<1>4. Only(t, c, cmd_rtc) /\ c \in Commands
  BY OtherTable DEF Only
<1>5. Serves(<< Send(c), Out(0) >> \o Ins(DateLen), c, q)
  <2>1. Does(Ins(DateLen), f[0]) /\ Ins(DateLen) \in Seq(Accesses)
    BY <1>0, <1>2, DoesReads DEF Does
  <2>2. Out(0) \in Given(0) /\ Out(0) \in Accesses
    BY AccessTypes DEF Given
  <2>3. Does(<< Out(0) >> \o Ins(DateLen), << Ack, Count(f) >>)
    BY <1>0, <1>1, <2>1, <2>2, DoesCount
  <2> QED
    BY <1>4, <2>1, <2>2, <2>3, ServesPair
<1>6. ASSUME NEW n \in Filled PROVE Serves(<< Send(c) >> \o SendString(n), c, q)
  <2>1. n \in Lens /\ n \in Nat
    BY <1>0 DEF Filled
  <2> DEFINE p == Times(n, << Out(0) >>)
  <2>2. /\ p \in Seq(Given(0)) /\ Len(p) = n /\ Out(n) \in Given(n)
        /\ SendString(n) = << Out(n) >> \o p
    BY <2>1, SendStringIs DEF SendString, Given
  <2>3. Does(p, f[n])
    BY <1>2, <2>1, <2>2, DoesBytes
  <2> HIDE DEF p
  <2>4. Does(<< Out(n) >> \o p, << Ack, Count(f) >>)
    BY <1>1, <2>1, <2>2, <2>3, DoesCount
  <2> QED
    BY <2>2, <2>4, ServesFirst
<1> HIDE DEF q, c
<1>7. Suits((<< Send(c), Out(0) >> \o Ins(DateLen)) \o << In >>, t)
  BY <1>3, <1>4, <1>5, ThenStatus
<1>8. \A n \in Filled : Suits((<< Send(c) >> \o SendString(n)) \o << In >>, t)
  BY <1>3, <1>4, <1>6, ThenStatus
<1> QED
  BY <1>7, <1>8 DEF c

LEMMA InsLast ==
  ASSUME NEW n \in Nat
  PROVE  Ins(n + 1) = Ins(n) \o << In >>
<1> DEFINE i == << In >>
<1>1. i \in Seq(Accesses) /\ Len(i) = 1 /\ i[1] = In
  BY AccessTypes
<1>2. ASSUME NEW k \in Nat
      PROVE  /\ Ins(k) \in Seq(Accesses) /\ Len(Ins(k)) = k
             /\ \A j \in 1..k : Ins(k)[j] = In
  <2>1. Len(i) \in 1..4 /\ k * Len(i) = k
    BY <1>1
  <2>2. \A j \in 1..k : ((j - 1) % Len(i)) + 1 = 1
    BY <1>1
  <2>3. Ins(k) = Times(k, i)
    BY DEF Ins
  <2> HIDE DEF i
  <2>4. Times(k, i) \in Seq(Accesses) /\ Len(Times(k, i)) = k * Len(i)
    BY <1>1, <2>1, TimesFacts
  <2>5. \A j \in 1..k : Times(k, i)[j] = In
    BY <1>1, <2>1, <2>2 DEF Times
  <2> QED
    BY <2>1, <2>3, <2>4, <2>5
<1> DEFINE a == Ins(n + 1)
           b == Ins(n) \o i
<1>3. a \in Seq(Accesses) /\ Len(a) = n + 1 /\ \A j \in 1..(n + 1) : a[j] = In
  BY <1>2
<1>4. b \in Seq(Accesses) /\ Len(b) = n + 1 /\ \A j \in 1..(n + 1) : b[j] = In
  <2>1. Ins(n) \in Seq(Accesses) /\ Len(Ins(n)) = n /\ \A j \in 1..n : Ins(n)[j] = In
    BY <1>2
  <2> HIDE DEF i
  <2>2. b \in Seq(Accesses) /\ Len(b) = n + 1
    BY <1>1, <2>1, ConcatProperties
  <2>3. ASSUME NEW j \in 1..(n + 1) PROVE b[j] = In
    <3>1. CASE j <= n
      BY <1>1, <2>1, <3>1, ConcatProperties
    <3>2. CASE j = n + 1
      <4>1. b[j] = i[j - n]
        BY <1>1, <2>1, <3>2, ConcatProperties, SMTT(60)
      <4> QED
        BY <1>1, <3>2, <4>1
    <3>3. j <= n \/ j = n + 1
      OBVIOUS
    <3> QED
      BY <3>1, <3>2, <3>3
  <2> QED
    BY <2>2, <2>3
<1> HIDE DEF a, b
<1>5. a = b
  BY <1>3, <1>4, SeqEqual
<1> QED
  BY <1>5 DEF a, b

LEMMA FilesSuit ==
  ASSUME NEW t
  PROVE  /\ Suits(<< Send("cmd_f_seek") >> \o Times(5, << Out(0) >>) \o << In >>, t)
         /\ Suits(<< Send("cmd_f_stat"), Out(0) >> \o Ins(8) \o << In >>, t)
         /\ Suits(<< Send("cmd_bat") >> \o Ins(5) \o << In >>, t)
         /\ Suits(<< Send("cmd_free") >> \o Ins(9), t)
<1>1. Suits((<< Send("cmd_f_seek") >> \o Times(5, << Out(0) >>)) \o << In >>, t)
  <2> DEFINE c == "cmd_f_seek"
             s == << Ack, Get >>
             p == Times(5, << Out(0) >>)
             q == Times(5, s)
             e == << Status, Done, Ack >>
  <2>1. p \in Seq(Given(0)) /\ Len(p) = 5
    BY SendStringIs
  <2>2. Does(p, q)
    BY <2>1, DoesBytes
  <2>3. q = s \o Times(4, s)
    <3>1. s \in Seq(Ops) /\ Len(s) \in 1..4
      BY OpTypes
    <3> HIDE DEF s
    <3>2. Times(4 + 1, s) = s \o Times(4, s)
      BY <3>1, TimesFacts
    <3>3. 4 + 1 = 5
      OBVIOUS
    <3> QED
      BY <3>2, <3>3
  <2>4. cmd_f_seek = (s \o Times(4, s)) \o e
    BY DEF cmd_f_seek
  <2>5. Only(t, c, cmd_f_seek)
    BY OtherTable
  <2> HIDE DEF c, p, q, s
  <2>6. Serves(<< Send(c) >> \o p, c, q)
    BY <2>2, ServesFirst
  <2>7. Suits((<< Send(c) >> \o p) \o << In >>, t)
    BY <2>3, <2>4, <2>5, <2>6, ThenStatus
  <2> QED
    BY <2>7 DEF c, p
<1>2. Suits((<< Send("cmd_f_stat"), Out(0) >> \o Ins(8)) \o << In >>, t)
  <2> DEFINE c == "cmd_f_stat"
             q == << Ack, Get >> \o Times(8, << Put(0) >>)
             e == << Status, Done, Ack >>
  <2>1. Does(Ins(8), Times(8, << Put(0) >>)) /\ Ins(8) \in Seq(Accesses)
    BY DoesReads DEF Does
  <2>2. Does(<< Out(0) >> \o Ins(8), q)
    BY <2>1, DoesPlain, DoesBoth
  <2>3. cmd_f_stat = q \o e
    BY DEF cmd_f_stat
  <2>4. Only(t, c, cmd_f_stat) /\ c \in Commands
    BY OtherTable DEF Only
  <2>5. Out(0) \in Accesses
    BY AccessTypes
  <2> HIDE DEF c, q
  <2>6. Serves(<< Send(c), Out(0) >> \o Ins(8), c, q)
    BY <2>1, <2>2, <2>4, <2>5, ServesPair
  <2>7. Suits((<< Send(c), Out(0) >> \o Ins(8)) \o << In >>, t)
    BY <2>3, <2>4, <2>6, ThenStatus
  <2> QED
    BY <2>7 DEF c
<1>3. Suits((<< Send("cmd_bat") >> \o Ins(5)) \o << In >>, t)
  <2> DEFINE c == "cmd_bat"
             q == Times(5, << Put(0) >>)
             e == << Status, Ack, Done >>
  <2>1. Does(Ins(5), q)
    BY DoesReads
  <2>2. cmd_bat = q \o e
    BY DEF cmd_bat
  <2>3. Only(t, c, cmd_bat)
    BY OtherTable
  <2> HIDE DEF c, q
  <2>4. Serves(<< Send(c) >> \o Ins(5), c, q)
    BY <2>1, ServesFirst
  <2>5. Suits((<< Send(c) >> \o Ins(5)) \o << In >>, t)
    BY <2>2, <2>3, <2>4, ThenStatus
  <2> QED
    BY <2>5 DEF c
<1>4. Suits(<< Send("cmd_free") >> \o Ins(9), t)
  <2> DEFINE c == "cmd_free"
             q == Times(8, << Put(0) >>)
             e == << Status, Ack, Done >>
             s == << Send(c) >>
             i == << In >>
  <2>1. Does(Ins(8), q) /\ Ins(8) \in Seq(Accesses)
    BY DoesReads DEF Does
  <2>2. cmd_free = q \o e
    BY DEF cmd_free
  <2>3. Only(t, c, cmd_free) /\ c \in Commands
    BY OtherTable DEF Only
  <2>4. s \in Seq(Accesses) /\ i \in Seq(Accesses)
    <3>1. Send(c) \in Accesses /\ In \in Accesses
      BY <2>3, AccessTypes
    <3> QED
      BY <3>1
  <2>5. Ins(8 + 1) = Ins(8) \o i /\ 8 + 1 = 9
    <3>1. 8 \in Nat /\ 8 + 1 = 9
      OBVIOUS
    <3> QED
      BY <3>1, InsLast, Zenon
  <2> HIDE DEF c, q
  <2>6. Serves(s \o Ins(8), c, q)
    BY <2>1, ServesFirst
  <2>7. Suits((s \o Ins(8)) \o i, t)
    BY <2>2, <2>3, <2>6, ThenStatus
  <2> HIDE DEF s, i
  <2>8. (s \o Ins(8)) \o i = s \o (Ins(8) \o i)
    BY <2>1, <2>4, ConcatAssociative, SMTT(60)
  <2>9. s \o Ins(9) = (s \o Ins(8)) \o i
    BY <2>5, <2>8
  <2> QED
    BY <2>7, <2>9 DEF c, s
<1> QED
  BY <1>1, <1>2, <1>3, <1>4
LEMMA ReadSuits ==
  ASSUME NEW t, NEW n \in Lens
  PROVE  Suits(<< Send("cmd_f_read"), Out(0), Out(0), Out(n) >> \o Ins(n) \o << In >>, t)
<1> DEFINE c == "cmd_f_read"
           f == [m \in Lens |-> Times(m, << Put(0) >>)]
           g == << Ack, Get, Ack, Get >>
           k == << Ack, Count(f) >>
           e == << Status, Done, Ack >>
<1>0. Lens \subseteq Nat /\ n \in Nat
  BY LensAssumption
<1>1. f \in [Lens -> Seq(SimpleOps)]
  <2> DEFINE b == << Put(0) >>
  <2>1. b \in Seq(SimpleOps) /\ Len(b) \in 1..4
    BY OpTypes
  <2> HIDE DEF b
  <2>2. \A m \in Lens : Times(m, b) \in Seq(SimpleOps)
    BY <1>0, <2>1, TimesFacts
  <2> QED
    BY <2>2 DEF b
<1>2. f[n] = Times(n, << Put(0) >>)
  OBVIOUS
<1>3. cmd_f_read = (g \o k) \o e
  <2>1. cmd_f_read = << Ack, Get, Ack, Get, Ack, Count(f), Status, Done, Ack >>
    BY DEF cmd_f_read
  <2> HIDE DEF f
  <2>2. << Ack, Get, Ack, Get, Ack, Count(f), Status, Done, Ack >> = (g \o k) \o e
    OBVIOUS
  <2> QED
    BY <2>1, <2>2
<1> HIDE DEF f
<1>4. Only(t, c, cmd_f_read) /\ c \in Commands
  BY OtherTable DEF Only
<1> DEFINE x == << Send(c), Out(0), Out(0) >>
           o == << Out(n) >>
<1>5. Does(Ins(n), f[n]) /\ Ins(n) \in Seq(Accesses)
  BY <1>0, <1>2, DoesReads DEF Does
<1>6. Does(o \o Ins(n), k)
  <2>1. Out(n) \in Given(n)
    BY DEF Given
  <2> QED
    BY <1>1, <1>5, <2>1, DoesCount
<1>7. Serves(x, c, g)
  <2>1. x = << Send(c) >> \o << Out(0), Out(0) >>
    BY Cut12
  <2> QED
    BY <2>1, DoesMore, ServesFirst
<1>8. x \in Seq(Accesses) /\ o \in Seq(Accesses)
  <2>1. Send(c) \in Accesses /\ Out(0) \in Accesses /\ Out(n) \in Accesses
    BY <1>0, <1>4, AccessTypes
  <2> QED
    BY <2>1
<1>9. << Send(c), Out(0), Out(0), Out(n) >> = x \o o
  OBVIOUS
<1> HIDE DEF x, o, g, k, c
<1>10. Serves(x \o (o \o Ins(n)), c, g \o k)
  BY <1>4, <1>6, <1>7, ServesMore
<1>11. (x \o o) \o Ins(n) = x \o (o \o Ins(n))
  BY <1>5, <1>8, ConcatAssociative
<1>12. Serves((x \o o) \o Ins(n), c, g \o k)
  BY <1>10, <1>11
<1>13. Suits(((x \o o) \o Ins(n)) \o << In >>, t)
  BY <1>3, <1>4, <1>12, ThenStatus
<1>14. Suits((<< Send(c), Out(0), Out(0), Out(n) >> \o Ins(n)) \o << In >>, t)
  BY <1>9, <1>13
<1> QED
  BY <1>14 DEF c

\* A socket read: as many bytes as have arrived, and no more than asked for.
LEMMA NetReadSuits ==
  ASSUME NEW t, NEW n \in Lens
  PROVE  Suits(<< Send("cmd_net_read"), Out(n), InBlock, In, In >>, t)
<1> DEFINE c == "cmd_net_read"
           p == << Out(n) >> \o << InBlock >>
           y == << In, In >>
           e == << Put(0), Status, Done, Ack >>
<1>0. Lens \subseteq Nat /\ n \in Nat
  BY LensAssumption
<1>1. Waits(y, e, FALSE)
  <2>1. Waits(<< In >> \o << In >>, << Put(0) >> \o << Status, Done, Ack >>, FALSE)
    BY ReadsStatusFirst, ByteRead
  <2>2. y = << In >> \o << In >>
    BY Cut
  <2>3. e = << Put(0) >> \o << Status, Done, Ack >>
    OBVIOUS
  <2> QED
    BY <2>1, <2>2, <2>3
<1>2. ASSUME NEW k \in Lens
      PROVE  Waits(p \o y, cmd_net_read(k), FALSE) /\ p \in Seq(Accesses)
  <2> DEFINE f == [m \in Lens |-> Answer(Least(m, k))]
             q == << Ack, Count(f) >>
  <2>1. \A m \in Lens : Least(m, k) \in Lens
    BY DEF Least
  <2>2. \A m \in Lens : Answer(m) \in Seq(SimpleOps)
    <3> SUFFICES ASSUME NEW m \in Lens PROVE Answer(m) \in Seq(SimpleOps)
      OBVIOUS
    <3> DEFINE b == << Put(0) >>
               u == << Put(m) >>
    <3>1. /\ b \in Seq(SimpleOps) /\ Len(b) \in 1..4 /\ u \in Seq(SimpleOps)
          /\ Answer(m) = u \o Times(m, b)
      BY <1>0, OpTypes DEF Answer
    <3> HIDE DEF b, u
    <3>2. Times(m, b) \in Seq(SimpleOps)
      BY <1>0, <3>1, TimesFacts
    <3> QED
      BY <3>1, <3>2, ConcatProperties
  <2>3. f \in [Lens -> Seq(SimpleOps)]
    BY <2>1, <2>2
  <2>4. f[n] = Answer(Least(n, k))
    OBVIOUS
  <2>5. cmd_net_read(k) = q \o e
    <3>1. cmd_net_read(k) = << Ack, Count(f), Put(0), Status, Done, Ack >>
      BY DEF cmd_net_read
    <3> HIDE DEF f
    <3>2. << Ack, Count(f), Put(0), Status, Done, Ack >> = << Ack, Count(f) >> \o e
      OBVIOUS
    <3> QED
      BY <3>1, <3>2
  <2> HIDE DEF f
  <2>6. Does(<< InBlock >>, f[n])
    BY <2>1, <2>4, DoesAnswer
  <2>7. Out(n) \in Given(n)
    BY DEF Given
  <2>8. Does(p, q)
    BY <2>3, <2>6, <2>7, DoesCount
  <2> HIDE DEF p, q, y, e
  <2>9. Waits(p \o y, q \o e, FALSE) /\ p \in Seq(Accesses)
    BY <1>1, <2>8 DEF Does
  <2> QED
    BY <2>5, <2>9
<1>3. << Send(c), Out(n), InBlock, In, In >> = << Send(c) >> \o (p \o y)
  OBVIOUS
<1>4. p \in Seq(Accesses)
  BY <1>2, LensAssumption
<1>5. y \in Seq(Accesses)
  BY AccessTypes
<1>6. p \o y \in Seq(Accesses)
  <2> HIDE DEF p, y
  <2> QED
    BY <1>4, <1>5, ConcatProperties
<1>7. c \in Commands \ {"cmd_get_next_char"} /\ commands(t)[c] = {cmd_net_read(k) : k \in Lens}
  BY DEF Commands, commands
<1> HIDE DEF p, y, c
<1>8. \A h \in commands(t)[c] : Waits(p \o y, h, FALSE)
  BY <1>2, <1>7
<1>9. Suits(<< Send(c) >> \o (p \o y), t)
  BY <1>6, <1>7, <1>8 DEF Suits
<1>10. Suits(<< Send(c), Out(n), InBlock, In, In >>, t)
  BY <1>3, <1>9
<1> QED
  BY <1>10 DEF c

\* A row of an array.
LEMMA RowSuits ==
  ASSUME NEW t, CardFails = FALSE
  PROVE  Suits(<< Send("cmd_getrow"), Out(0), Out(0), InBlock, In >>, t)
<1> DEFINE c == "cmd_getrow"
           p == << Out(0), Out(0) >> \o << InBlock >>
           y == << In >>
           g == << Ack, Get, Ack, Get >>
           e == << Status, Ack, Done >>
<1>1. ASSUME NEW k \in Lens
      PROVE  Waits(p \o y, cmd_getrow(k), FALSE) /\ p \in Seq(Accesses)
  <2>1. Does(p, g \o Answer(k))
    BY DoesMore, DoesAnswer, DoesBoth
  <2>2. cmd_getrow(k) = (g \o Answer(k)) \o e
    BY DEF cmd_getrow
  <2>3. Waits(y, e, FALSE)
    BY ReadsStatus
  <2> HIDE DEF p, y, g, e
  <2>4. Waits(p \o y, (g \o Answer(k)) \o e, FALSE) /\ p \in Seq(Accesses)
    BY <2>1, <2>3 DEF Does
  <2> QED
    BY <2>2, <2>4
<1>2. << Send(c), Out(0), Out(0), InBlock, In >> = << Send(c) >> \o (p \o y)
  OBVIOUS
<1>3. p \in Seq(Accesses)
  BY <1>1, LensAssumption
<1>4. y \in Seq(Accesses)
  BY AccessTypes
<1>5. p \o y \in Seq(Accesses)
  <2> HIDE DEF p, y
  <2> QED
    BY <1>3, <1>4, ConcatProperties
<1>6. c \in Commands \ {"cmd_get_next_char"} /\ commands(t)[c] = {cmd_getrow(k) : k \in Lens}
  BY DEF Commands, commands
<1> HIDE DEF p, y, c
<1>7. \A h \in commands(t)[c] : Waits(p \o y, h, FALSE)
  BY <1>1, <1>6
<1>8. Suits(<< Send(c) >> \o (p \o y), t)
  BY <1>5, <1>6, <1>7 DEF Suits
<1>9. Suits(<< Send(c), Out(0), Out(0), InBlock, In >>, t)
  BY <1>2, <1>8
<1> QED
  BY <1>9 DEF c

LEMMA SaveSuits ==
  ASSUME NEW n \in Lens, NEW m \in Lens
  PROVE  Suits(<< Send("cmd_save") >> \o SendString(n) \o << Out(0) >> \o SendString(m)
               \o << In >>, FALSE)
<1> DEFINE c == "cmd_save"
           g == << Ack, String >>
           b == << Ack, Get >>
           e == << Status, Ack, Done >>
<1>1. Only(FALSE, c, cmd_save) /\ c \in Commands
  BY DEF Only, Commands, commands
<1>2. Serves(<< Send(c) >> \o SendString(n), c, g)
  BY DoesString, ServesFirst
<1>3. Serves((<< Send(c) >> \o SendString(n)) \o << Out(0) >>, c, g \o b)
  BY <1>1, <1>2, DoesPlain, ServesMore
<1>4. Serves(((<< Send(c) >> \o SendString(n)) \o << Out(0) >>) \o SendString(m), c, (g \o b) \o g)
  BY <1>1, <1>3, DoesString, ServesMore
<1>5. cmd_save = ((g \o b) \o g) \o e
  BY DEF cmd_save
<1> DEFINE x == ((<< Send(c) >> \o SendString(n)) \o << Out(0) >>) \o SendString(m)
           q == (g \o b) \o g
<1>6. Serves(x, c, q) /\ cmd_save = q \o e
  BY <1>4, <1>5
<1>7. Suits(x \o << In >>, FALSE)
  <2> HIDE DEF x, q, c
  <2> QED
    BY <1>1, <1>6, ThenStatus
<1> QED
  BY <1>7

\* Listings.
LEMMA ListingsSuit ==
  ASSUME NEW t, NEW n \in Lens
  PROVE  /\ \A c \in {"cmd_dir_open", "cmd_type"} :
              Suits(<< Send(c) >> \o SendString(n) \o PrintCmdOutput, t)
         /\ \A c \in {"cmd_pwd", "cmd_free_txt"} : Suits(<< Send(c) >> \o PrintCmdOutput, t)
<1>0. Lens \subseteq Nat /\ n \in Nat
  BY LensAssumption
<1>1. PrintCmdOutput \in Seq(Accesses)
  <2>1. 0 \in Nat /\ FALSE \in BOOLEAN
    OBVIOUS
  <2> QED
    BY <2>1, ListingFits, FitsTypes
<1>2. /\ commands(t)["cmd_dir_open"] = {<< Ack, Words >> \o Listing(k) : k \in Lens}
      /\ commands(t)["cmd_type"] = {<< Ack, Words >> \o Listing(k) : k \in Lens}
      /\ commands(t)["cmd_pwd"] = {<< Ack >> \o Listing(k) : k \in Lens}
      /\ commands(t)["cmd_free_txt"] = {<< Ack >> \o Listing(k) : k \in Lens}
  BY DEF commands, cmd_dir_open, cmd_type, cmd_pwd, cmd_free_txt
<1>3. {"cmd_dir_open", "cmd_type", "cmd_pwd", "cmd_free_txt"} \subseteq
        Commands \ {"cmd_get_next_char"}
  BY DEF Commands, commands
<1>4. ASSUME NEW c \in Commands \ {"cmd_get_next_char"},
             commands(t)[c] = {<< Ack, Words >> \o Listing(k) : k \in Lens}
      PROVE  Suits((<< Send(c) >> \o SendString(n)) \o PrintCmdOutput, t)
  <2> DEFINE p == SendString(n)
             y == PrintCmdOutput
             s == << Send(c) >>
  <2>1. ASSUME NEW k \in Lens PROVE Waits(p \o y, << Ack, Words >> \o Listing(k), FALSE)
    BY <1>0, ListingFits, WordsTaken
  <2>2. p \in Seq(Accesses) /\ s \in Seq(Accesses) /\ y \in Seq(Accesses)
    <3>1. p \in Seq(Accesses) /\ Send(c) \in Accesses
      BY <1>0, SendStringIs, AccessTypes
    <3> QED
      BY <1>1, <3>1
  <2> HIDE DEF p, y
  <2>3. p \o y \in Seq(Accesses)
    BY <2>2, ConcatProperties
  <2>4. Suits(s \o (p \o y), t)
    BY <1>4, <2>1, <2>3 DEF Suits
  <2> HIDE DEF s
  <2>5. (s \o p) \o y = s \o (p \o y)
    BY <2>2, ConcatAssociative, SMTT(60)
  <2> QED
    BY <2>4, <2>5 DEF s, p, y
<1>5. ASSUME NEW c \in Commands \ {"cmd_get_next_char"},
             commands(t)[c] = {<< Ack >> \o Listing(k) : k \in Lens}
      PROVE  Suits(<< Send(c) >> \o PrintCmdOutput, t)
  <2>1. ASSUME NEW k \in Lens PROVE Waits(PrintCmdOutput, << Ack >> \o Listing(k), FALSE)
    BY <1>0, ListingFits, Toggled
  <2> QED
    BY <1>1, <1>5, <2>1 DEF Suits
<1> QED
  BY <1>2, <1>3, <1>4, <1>5
\* A file, whatever it is: the status, the length and as many bytes.
LEMMA LoadSuits ==
  ASSUME NEW t, NEW n \in Lens, Agreed
  PROVE  Suits(<< Send("cmd_load") >> \o SendString(n) \o << In, InBlock, In >>, t)
<1> DEFINE c == "cmd_load"
           g == << Ack, String >>
           u == << Put(0) >>
           e == << Status, Ack, Done >>
           y == << In, InBlock, In >>
<1>0. Lens \subseteq Nat /\ 0 \in Lens /\ 0 \in Sizes
  BY LensAssumption
<1>1. c \in Commands \ {"cmd_get_next_char"} /\ c \in Commands
  BY DEF Commands, commands
<1>2. Serves(<< Send(c) >> \o SendString(n), c, g)
  BY DoesString, ServesFirst
<1>3. y = (<< In >> \o << InBlock >>) \o << In >>
  <2>1. << In, InBlock >> = << In >> \o << InBlock >>
    BY Cut
  <2>2. y = << In, InBlock >> \o << In >>
    OBVIOUS
  <2> QED
    BY <2>1, <2>2, Zenon
<1>4. ASSUME NEW m \in Lens PROVE Waits(y, (u \o Answer(m)) \o e, FALSE)
  <2>1. Does(<< In >> \o << InBlock >>, u \o Answer(m))
    BY DoesPlain, DoesAnswer, DoesBoth
  <2>2. Waits(<< In >>, e, FALSE)
    BY ReadsStatus
  <2>3. Waits((<< In >> \o << InBlock >>) \o << In >>, (u \o Answer(m)) \o e, FALSE)
    BY <2>1, <2>2 DEF Does
  <2> QED
    BY <1>3, <2>3
<1>5. y \in Seq(Accesses)
  <2>1. In \in Accesses /\ InBlock \in Accesses
    <3>1. << InBlock >> \in Seq(Accesses)
      BY <1>0, DoesAnswer DEF Does
    <3> QED
      BY <3>1, AccessTypes
  <2> QED
    BY <2>1
<1>6. /\ g \in Seq(Ops) /\ u \in Seq(Ops) /\ e \in Seq(Ops) /\ << Reboot, Done >> \in Seq(Ops)
      /\ \A m \in Nat : << Put(m) >> \in Seq(Ops) /\ Times(m, u) \in Seq(Ops)
  <2>1. g \in Seq(Ops)
    BY <1>0, DoesString DEF Does
  <2>2. u \in Seq(Ops) /\ e \in Seq(Ops) /\ << Reboot, Done >> \in Seq(Ops)
    BY OpTypes
  <2>3. \A m \in Nat : << Put(m) >> \in Seq(Ops)
    BY OpTypes
  <2>4. \A m \in Nat : Times(m, u) \in Seq(Ops)
    <3>1. u \in Seq(Ops) /\ Len(u) \in 1..4
      BY <2>2
    <3> HIDE DEF u
    <3> QED
      BY <3>1, TimesFacts
  <2> QED
    BY <2>1, <2>2, <2>3, <2>4
<1>7. ASSUME NEW m \in Nat PROVE Answer(m) = << Put(m) >> \o Times(m, u)
  BY DEF Answer
\* What a size and its bytes are, and what a converted file is.
<1>8. ASSUME NEW m \in Lens, m % Wrap = m PROVE Sized(m, 0) = g \o ((u \o Answer(m)) \o e)
  <2> DEFINE v == << Put(m) >>
             b == Times(m, u)
             f == << Ack, String, Put(0), Put(m) >>
  <2>1. m + 0 = m /\ m \in Nat
    BY <1>0
  <2>2. Sized(m, 0) = f \o b \o e
    BY <1>8, <2>1 DEF Sized
  <2>3. f = (g \o u) \o v
    OBVIOUS
  <2>4. v \in Seq(Ops) /\ b \in Seq(Ops) /\ Answer(m) = v \o b
    BY <1>6, <1>7, <2>1
  <2>5. g \in Seq(Ops) /\ u \in Seq(Ops) /\ e \in Seq(Ops)
    BY <1>6
  <2> HIDE DEF v, b, f, g, u, e
  <2> DEFINE k == g \o u
             w == v \o b
             z == u \o w
  <2>7. k \in Seq(Ops) /\ w \in Seq(Ops) /\ z \in Seq(Ops)
    BY <2>4, <2>5, ConcatProperties
  <2>8. (g \o u) \o w = g \o z
    <3> HIDE DEF w
    <3> QED
      BY <2>5, <2>7, ConcatAssociative
  <2>9. (k \o v) \o b = k \o w
    <3> HIDE DEF k
    <3> QED
      BY <2>4, <2>7, ConcatAssociative, SMTT(60)
  <2>10. (g \o z) \o e = g \o (z \o e)
    <3> HIDE DEF z
    <3> QED
      BY <2>5, <2>7, ConcatAssociative, SMTT(60)
  <2> QED
    BY <2>2, <2>3, <2>4, <2>8, <2>9, <2>10, Zenon
<1>9. ASSUME NEW m \in Lens PROVE load_B81(m) = g \o ((u \o Answer(m)) \o e)
  <2> DEFINE f == << Ack, String, Put(0) >>
             a == Answer(m)
  <2>1. load_B81(m) = f \o a \o e
    BY DEF load_B81
  <2>2. f = g \o u
    OBVIOUS
  <2>3. g \in Seq(Ops) /\ u \in Seq(Ops) /\ e \in Seq(Ops) /\ a \in Seq(Ops)
    BY <1>6, DoesAnswer DEF Does
  <2> HIDE DEF a, f, g, u, e
  <2> DEFINE z == u \o a
  <2>4. z \in Seq(Ops)
    BY <2>3, ConcatProperties
  <2>5. (g \o u) \o a = g \o z
    BY <2>3, ConcatAssociative, SMTT(60)
  <2>6. (g \o z) \o e = g \o (z \o e)
    <3> HIDE DEF z
    <3> QED
      BY <2>3, <2>4, ConcatAssociative, SMTT(60)
  <2> QED
    BY <2>1, <2>2, <2>5, <2>6, Zenon DEF a
<1>10. cmd_load_rom = g \o << Reboot, Done >>
  BY DEF cmd_load_rom
<1>11. Waits(y, << Reboot, Done >>, FALSE)
  BY <1>5, RebootFits
\* The table.
<1>12. ASSUME NEW h \in commands(t)[c]
       PROVE  \/ \E m \in Sizes : h = Sized(m, 0)
              \/ \E m \in Lens : h = load_B81(m)
              \/ h = cmd_load_rom
  <2>1. commands(t)[c] =
          {cmd_load(m) : m \in Sizes}
          \cup (IF t THEN {} ELSE {cmd_load_none(k) : k \in Unset})
          \cup (IF t THEN {} ELSE {cmd_load_rom} \cup {load_B81(m) : m \in Lens})
          \cup (IF t /\ CardFails THEN {cmd_load_t81(m) : m \in Lens \ {0}} ELSE {})
    BY DEF commands
  <2>2. CardFails = FALSE /\ Unset = {0}
    BY DEF Agreed
  <2>3. \/ \E m \in Sizes : h = cmd_load(m)
        \/ \E k \in Unset : h = cmd_load_none(k)
        \/ h = cmd_load_rom
        \/ \E m \in Lens : h = load_B81(m)
    <3> HIDE DEF c
    <3> QED
      BY <2>1, <2>2
  <2>4. (\A m : cmd_load(m) = Sized(m, 0)) /\ cmd_load_none(0) = Sized(0, 0)
    BY DEF cmd_load, cmd_load_none
  <2> QED
    BY <1>0, <2>2, <2>3, <2>4
<1>13. \A m \in Sizes : m \in Lens /\ m % Wrap = m
  <2> SUFFICES ASSUME NEW m \in Sizes PROVE m \in Lens /\ m % Wrap = m
    OBVIOUS
  <2>1. m \in Lens /\ m < Wrap /\ m \in Nat /\ Wrap \in Nat
    BY LensAssumption DEF Agreed
  <2> QED
    BY <2>1
<1> DEFINE x == << Send(c) >> \o SendString(n)
<1> HIDE DEF x, g, y, c, e, u
<1>14. Leaves(t, c, g, y)
  <2> SUFFICES ASSUME NEW h \in commands(t)[c]
               PROVE  \E z : Waits(y, z, FALSE) /\ h = g \o z
    BY DEF Leaves
  <2>1. CASE \E m \in Sizes : h = Sized(m, 0)
    BY <1>4, <1>8, <1>13, <2>1
  <2>2. CASE \E m \in Lens : h = load_B81(m)
    BY <1>4, <1>9, <2>2
  <2>3. CASE h = cmd_load_rom
    BY <1>10, <1>11, <2>3
  <2> QED
    BY <1>12, <2>1, <2>2, <2>3
<1>15. Suits(x \o y, t)
  BY <1>1, <1>2, <1>5, <1>14, ServedThen DEF x
<1> QED
  BY <1>15 DEF x, y, c

\* Every routine may be begun.
LEMMA AllSuit ==
  ASSUME Agreed, NEW t \in BOOLEAN, NEW x \in Routines(t)
  PROVE  Suits(x, t)
<1>0. /\ Filled \subseteq Lens /\ CardFails = FALSE
      /\ "SaveInT81" \notin Odd /\ "SaveEmpty" \notin Odd /\ "EmptyDate" \notin Odd
      /\ "ICHR" \notin Odd /\ "NextChar" \notin Odd /\ "Spare" \notin Odd
  BY DEF Agreed, Filled
<1>1. \/ x \in SetTapeOnOff \cup GetMCUVersion \cup GetFPGAVersion \cup ChkTapeMode
      \/ x \in SDLoad \cup CmdDIR \cup CmdPRINT \cup CmdPWD \cup CmdFREE
      \/ x \in SendCmdAndStr \cup SendStrToStr \cup CmdROW \cup CmdPAGE \cup CMD_ONOFF_BC
      \/ x \in Common64_128C \cup CmdZ81 \cup CmdJOY \cup CmdSAY \cup CmdPLAY
      \/ x \in VGMThen \cup CmdVGMLOOP \cup CmdPEG \cup PEGRun \cup DoPEG \cup CmdPEB
      \/ x \in CmdBAT \cup DateRead \cup DateSet \cup NtpOffsetSend \cup NtpServerSet
      \/ x \in NtpForceSync \cup f_name_cmd \cup f_open_img \cup f_seek \cup f_read
      \/ x \in f_write \cup f_close \cup f_stat \cup net_read \cup net_write \cup ByManual
      \/ t = FALSE /\ x \in SDSave
  <2> DEFINE G == { SetTapeOnOff, GetMCUVersion, GetFPGAVersion, ChkTapeMode, SDLoad, CmdDIR,
                    CmdPRINT, CmdPWD, CmdFREE, SendCmdAndStr, SendStrToStr, CmdROW, CmdPAGE,
                    CMD_ONOFF_BC, Common64_128C, CmdZ81, CmdJOY, CmdSAY, CmdPLAY, VGMThen,
                    CmdVGMLOOP, CmdPEG, PEGRun, DoPEG, CmdPEB, CmdBAT, DateRead, DateSet,
                    NtpOffsetSend, NtpServerSet, NtpForceSync, f_name_cmd, f_open_img, f_seek,
                    f_read, f_write, f_close, f_stat, net_read, net_write, ByManual }
  <2>1. (\E F \in G : x \in F) \/ (t = FALSE /\ x \in SDSave)
    <3> HIDE DEF G
    <3> DEFINE W == UNION G
               Z == IF t /\ "SaveInT81" \notin Odd THEN {} ELSE SDSave
               A == IF "SaveEmpty" \in Odd THEN SDSaveEmpty ELSE {}
               B == IF "ICHR" \in Odd THEN CmdICHR ELSE {}
               C == IF "NextChar" \in Odd THEN { << Send("cmd_get_next_char"), In, In >> } ELSE {}
               D == IF "Spare" \in Odd THEN Alone({"cmd_spare"}) ELSE {}
    <3>1. A = {} /\ B = {} /\ C = {} /\ D = {}
      BY <1>0
    <3>2. x \in W \/ x \in Z
      <4>1. Routines(t) = W \cup Z \cup A \cup B \cup C \cup D
        BY DEF Routines, G
      <4> HIDE DEF W, Z, A, B, C, D
      <4> QED
        BY <3>1, <4>1
    <3>3. x \in Z => ~t /\ x \in SDSave
      BY <1>0, Zenon
    <3>4. x \in UNION G => \E F \in G : x \in F
      OBVIOUS
    <3>5. ~t => t = FALSE
      OBVIOUS
    <3> QED
      BY <3>2, <3>3, <3>4, <3>5, Zenon
  <2> QED
    BY <2>1
<1>2. CASE x \in SetTapeOnOff \cup GetMCUVersion \cup GetFPGAVersion \cup ChkTapeMode
  BY <1>2, BytesSuit, ReadsSuit DEF SetTapeOnOff, GetMCUVersion, GetFPGAVersion, ChkTapeMode
<1>3. CASE x \in SDLoad \cup CmdDIR \cup CmdPRINT \cup CmdPWD \cup CmdFREE
  <2>1. CASE x \in SDLoad
    BY <1>0, <2>1, LoadSuits DEF SDLoad
  <2>2. CASE x \in CmdDIR \cup CmdPRINT
    BY <1>0, <2>2, ListingsSuit DEF CmdDIR, CmdPRINT
  <2>3. CASE x \in CmdPWD \cup CmdFREE
    BY <2>3, ListingsSuit, LensAssumption DEF CmdPWD, CmdFREE
  <2> QED
    BY <1>3, <2>1, <2>2, <2>3
<1>4. CASE x \in SendCmdAndStr \cup SendStrToStr \cup CmdROW \cup CmdPAGE \cup CMD_ONOFF_BC
  <2>1. CASE x \in SendCmdAndStr
    <3> DEFINE y(c, n) == << Send(c) >> \o SendString(n) \o << In >>
               C == {"cmd_mkdir", "cmd_rmdir", "cmd_cd", "cmd_opendir2", "cmd_del", "cmd_play_VGM"}
    <3>1. SendCmdAndStr = {y(c, n) : c \in C, n \in Filled}
      BY DEF SendCmdAndStr, StrToStatus
    <3>2. \A c \in C, n \in Filled : Suits(y(c, n), t)
      BY <1>0, StringSuits
    <3> HIDE DEF y, C
    <3> QED
      BY <2>1, <3>1, <3>2
  <2>2. CASE x \in SendStrToStr
    <3> DEFINE y(c, n, m) == << Send(c) >> \o SendString(n) \o SendString(m) \o << In >>
               C == {"cmd_copy", "cmd_move"}
    <3>1. SendStrToStr = {y(c, n, m) : c \in C, n \in Filled, m \in Filled}
      BY DEF SendStrToStr
    <3>2. \A c \in C, n \in Filled, m \in Filled : Suits(y(c, n, m), t)
      BY <1>0, TwoStringsSuit
    <3> HIDE DEF y, C
    <3> QED
      BY <2>2, <3>1, <3>2
  <2>3. CASE x \in CmdROW
    BY <1>0, <2>3, RowSuits DEF CmdROW
  <2>4. CASE x \in CmdPAGE \cup CMD_ONOFF_BC
    BY <2>4, AloneSuits DEF CmdPAGE, CMD_ONOFF_BC, Alone, AckCommands
  <2> QED
    BY <1>4, <2>1, <2>2, <2>3, <2>4
<1>5. CASE x \in Common64_128C \cup CmdZ81 \cup CmdJOY \cup CmdSAY \cup CmdPLAY
  <2>1. CASE x \in Common64_128C
    BY <2>1, AloneSuits DEF Common64_128C, Alone, AckCommands
  <2>2. CASE x \in CmdZ81
    BY <1>0, <2>2, MixedSuits DEF CmdZ81
  <2>3. CASE x \in CmdJOY \cup CmdSAY
    <3>1. PICK c \in {"cmd_joy", "cmd_say"}, n \in Lens :
            x = << Send(c) >> \o SendString(n) \o << In >>
      BY <2>3 DEF CmdJOY, CmdSAY, StrToStatus
    <3> QED
      BY <3>1, StringSuits
  <2>4. CASE x \in CmdPLAY
    <3> DEFINE y(n, m, k) == << Send("cmd_AY_play") >> \o SendString(n) \o SendString(m)
                             \o LastString(k) \o << In >>
    <3>1. CmdPLAY = {y(n, m, k) : n \in Lens, m \in Lens, k \in Lens}
      BY DEF CmdPLAY
    <3>2. \A n \in Lens, m \in Lens, k \in Lens : Suits(y(n, m, k), t)
      BY PlaySuits
    <3> HIDE DEF y
    <3> QED
      BY <2>4, <3>1, <3>2
  <2> QED
    BY <1>5, <2>1, <2>2, <2>3, <2>4
<1>6. CASE x \in VGMThen \cup CmdVGMLOOP \cup CmdPEG \cup PEGRun \cup DoPEG \cup CmdPEB
  <2>1. CASE x \in VGMThen
    BY <2>1, AloneSuits DEF VGMThen, Alone, AckCommands
  <2>2. CASE x \in CmdVGMLOOP \cup PEGRun \cup DoPEG
    BY <2>2, BytesSuit DEF CmdVGMLOOP, PEGRun, DoPEG
  <2>3. CASE x \in CmdPEG \cup CmdPEB
    BY <1>0, <2>3, MixedSuits DEF CmdPEG, CmdPEB
  <2> QED
    BY <1>6, <2>1, <2>2, <2>3
<1>7. CASE x \in CmdBAT \cup DateRead \cup DateSet \cup NtpOffsetSend \cup NtpServerSet
  <2>1. CASE x \in CmdBAT
    BY <2>1, FilesSuit DEF CmdBAT
  <2>2. CASE x \in DateRead
    BY <2>2, DateSuits DEF DateRead
  <2>5. CASE x \in DateSet
    <3>1. PICK n \in Filled : x = << Send("cmd_rtc") >> \o SendString(n) \o << In >>
      BY <1>0, <2>5 DEF DateSet, StrToStatus
    <3> QED
      BY <3>1, DateSuits
  <2>3. CASE x \in NtpOffsetSend
    BY <2>3, BytesSuit DEF NtpOffsetSend
  <2>4. CASE x \in NtpServerSet
    <3>1. PICK n \in Lens : x = << Send("cmd_ntp_setserver") >> \o SendString(n) \o << In >>
      BY <2>4 DEF NtpServerSet, StrToStatus
    <3> QED
      BY <3>1, StringSuits
  <2> QED
    BY <1>7, <2>1, <2>2, <2>3, <2>4, <2>5
<1>8. CASE x \in NtpForceSync \cup f_name_cmd \cup f_open_img \cup f_seek \cup f_read
  <2>1. CASE x \in NtpForceSync
    BY <2>1, AloneSuits DEF NtpForceSync, Alone, AckCommands
  <2>2. CASE x \in f_name_cmd
    <3> DEFINE y(c, n) == << Send(c) >> \o SendString(n) \o << In >>
               C == {"cmd_f_open", "cmd_f_create", "cmd_f_open_zx81", "cmd_f_create_zx81"}
    <3>1. f_name_cmd = {y(c, n) : c \in C, n \in Filled}
      BY DEF f_name_cmd, StrToStatus
    <3>2. \A c \in C, n \in Filled : Suits(y(c, n), t)
      BY <1>0, StringSuits
    <3> HIDE DEF y, C
    <3> QED
      BY <2>2, <3>1, <3>2
  <2>3. CASE x \in f_open_img
    BY <1>0, <2>3, MixedSuits DEF f_open_img
  <2>4. CASE x \in f_seek
    BY <2>4, FilesSuit DEF f_seek
  <2>5. CASE x \in f_read
    BY <1>0, <2>5, ReadSuits DEF f_read
  <2> QED
    BY <1>8, <2>1, <2>2, <2>3, <2>4, <2>5
<1>9. CASE x \in f_write \cup f_close \cup f_stat \cup net_read \cup net_write \cup ByManual
  <2>1. CASE x \in f_write \cup net_write
    BY <1>0, <2>1, MixedSuits DEF f_write, net_write
  <2>2. CASE x \in f_close
    BY <2>2, ReadsSuit DEF f_close
  <2>3. CASE x \in f_stat
    BY <2>3, FilesSuit DEF f_stat
  <2>4. CASE x \in net_read
    BY <2>4, NetReadSuits DEF net_read
  <2>5. CASE x \in ByManual
    <3>1. /\ Suits(<< Send("cmd_nop") >>, t) /\ Suits(<< Send("cmd_free") >> \o Ins(9), t)
          /\ Suits(<< Send("cmd_getrowlen"), Out(0), Out(0), In, In >>, t)
      BY AloneSuits, FilesSuit, ReadsSuit
    <3>2. /\ Suits(<< Send("cmd_AY_set_reg"), Out(0), Out(0) >>, t)
          /\ Suits(<< Send("cmd_AY_get_reg"), Out(0), In >>, t)
      BY BytesSuit
    <3> QED
      BY <2>5, <3>1, <3>2 DEF ByManual
  <2> QED
    BY <1>9, <2>1, <2>2, <2>3, <2>4, <2>5
<1>10. CASE t = FALSE /\ x \in SDSave
  <2> DEFINE y(n, m) == << Send("cmd_save") >> \o SendString(n) \o << Out(0) >> \o SendString(m)
                        \o << In >>
  <2>1. SDSave = {y(n, m) : n \in Filled, m \in Filled}
    BY DEF SDSave
  <2>2. \A n \in Filled, m \in Filled : Suits(y(n, m), FALSE)
    BY <1>0, SaveSuits
  <2> HIDE DEF y
  <2>3. x \in SDSave
    BY <1>10
  <2>4. Suits(x, FALSE)
    <3>1. PICK n \in Filled, m \in Filled : x = y(n, m)
      BY <2>1, <2>3
    <3> QED
      BY <2>2, <3>1, Zenon
  <2>5. t = FALSE
    BY <1>10
  <2> QED
    BY <2>4, <2>5, Zenon
<1> QED
  BY <1>1, <1>2, <1>3, <1>4, <1>5, <1>6, <1>7, <1>8, <1>9, <1>10

-----------------------------------------------------------------------------
(* Where the Z80 and the STM32 may be.                                     *)

Over == command_active = CMD_IDLE
Starts(op) == handler # << >> /\ Head(handler).op = op
AtPlay == Starts("play") /\ OnlyDone(Tail(handler)) /\ Tail(handler) # << >>

\* The STM32 has nothing to say: the next byte is a command.
Calm ==
  \/ OnlyDone(handler) /\ (Over \/ handler # << >>)
  \/ Starts("next")
  \/ AtPlay /\ reseted

\* The Z80's last access was answered, or was not: what it waits for will
\* come, or has come.
Free ==
  /\ IF pending = "none" THEN comm_clk = phase ELSE comm_clk # phase
  /\ ~data_reg /\ ~ctrl_reg
Held == pending # "none" /\ comm_clk = phase /\ ~ctrl_reg

Ready(r) ==
  /\ called \in Commands \ {"cmd_get_next_char"}
  /\ \A h \in commands(T81_dir)[called] : Waits(r, h, FALSE)

\* No routine; one that is begun; its command sent, and taken by a listing
\* that it ends; the reset.
Resting == Free /\ routine = << >> /\ ~sending /\ Calm
Begun ==
  /\ Free /\ pending = "none" /\ ~sending /\ Calm
  /\ routine # << >> /\ Head(routine) = Send(called) /\ Ready(Tail(routine))
Asked ==
  /\ Held /\ data_reg /\ pending = "command" /\ ~sending /\ Calm
  /\ latch_b = Command(called) /\ Ready(routine)
Chosen ==
  /\ Held /\ ~data_reg /\ pending = "command" /\ ~sending
  /\ command_active = called /\ handler = << >> /\ Ready(routine)
Resetting ==
  /\ ctrl_reg /\ pending = "reset" /\ comm_clk = phase /\ ~data_reg
  /\ ~sending /\ routine = << >> /\ (Calm \/ AtPlay)

\* In a command: the STM32 owes a toggle; it does not; it has put a byte; the
\* Z80 has given one, asked for a character of a listing, or read a byte.
Working == Held /\ ~data_reg /\ ~sending /\ Waits(routine, handler, Over)
Between == Free /\ routine # << >> /\ ~sending /\ Goes(routine, handler, Over)
Offering ==
  Free /\ sending /\ Offers(routine, handler, Over) /\ latch_o = Head(handler).v
GivenByte ==
  /\ Held /\ data_reg /\ pending \in {"out", "last"} /\ ~sending /\ latch_b.c = NoCommand
  /\ \/ Starts("get") /\ Waits(routine, Tail(handler), Over)
     \/ /\ Starts("count") /\ latch_b.v \in Lens
        /\ Waits(routine, Head(handler).then[latch_b.v] \o Tail(handler), Over)
AskedMore ==
  /\ Held /\ data_reg /\ pending = "command" /\ ~sending
  /\ latch_b = Command("cmd_get_next_char")
  /\ Starts("next") /\ Waits(routine, Tail(handler), Over)
ReadOut ==
  /\ Held /\ data_reg /\ pending = "in" /\ sending
  /\ Starts("put") /\ Waits(routine, Tail(handler), Over)

Exchanging == Working \/ Between \/ Offering \/ GivenByte \/ AskedMore \/ ReadOut

Types ==
  /\ comm_clk \in BOOLEAN /\ phase \in BOOLEAN /\ T81_dir \in BOOLEAN
  /\ handler \in Seq(Ops)

IndInv ==
  /\ Types
  /\ \/ Resting \/ Begun \/ Asked \/ Chosen \/ Resetting
     \/ running = called /\ ~reseted /\ Exchanging

LEMMA WaitsStep ==
  ASSUME NEW r, NEW h, NEW d, Waits(r, h, d)
  PROVE  /\ h # << >>
         /\ \/ Head(h).op = "ack" /\ Goes(r, Tail(h), d)
            \/ Head(h).op = "put" /\ Offers(r, h, d)
            \/ Head(h).op = "done" /\ Waits(r, Tail(h), TRUE)
            \/ Head(h).op = "chdir" /\ Waits(r, Tail(h), d)
            \/ /\ Head(h).op = "play" /\ OnlyDone(Tail(h)) /\ Tail(h) # << >>
               /\ Waits(r, << Status, Ack >> \o Tail(h), d)
            \/ Head(h).op = "reboot" /\ OnlyDone(Tail(h)) /\ Tail(h) # << >>
<1>1. WaitFits(r, h, d, Fits)
  BY FitsTypes, FitsIff
<1> QED
  BY <1>1 DEF WaitFits, Waits, Goes, Offers

LEMMA GoesStep ==
  ASSUME NEW r, NEW h, NEW d, Goes(r, h, d)
  PROVE  \/ r = << >> /\ OnlyDone(h) /\ (d \/ h # << >>)
         \/ r = << >> /\ h # << >> /\ Head(h).op = "next"
         \/ /\ r # << >> /\ h # << >>
            /\ \/ /\ Head(r).a \in {"out", "last"} /\ Head(h).op = "get"
                  /\ Waits(Tail(r), Tail(h), d)
               \/ /\ Head(r).a \in {"out", "last"} /\ Head(h).op = "count" /\ Head(r).v \in Lens
                  /\ Waits(Tail(r), Head(h).then[Head(r).v] \o Tail(h), d)
               \/ /\ Head(r).a = "send" /\ Head(r).c = "cmd_get_next_char"
                  /\ Head(h).op = "next" /\ Waits(Tail(r), Tail(h), d)
<1>1. GoFits(r, h, d, Fits)
  BY FitsTypes, FitsIff
<1> QED
  BY <1>1 DEF GoFits, Waits

LEMMA OffersStep ==
  ASSUME NEW r, NEW h, NEW d, Offers(r, h, d)
  PROVE  /\ r # << >> /\ h # << >> /\ Head(h).op = "put"
         /\ \/ Head(r).a = "in" /\ Waits(Tail(r), Tail(h), d)
            \/ /\ Head(r).a = "incount" /\ Head(h).v \in Lens
               /\ Waits(Head(r).then[Head(h).v] \o Tail(r), Tail(h), d)
            \/ /\ Head(r).a = "inchar"
               /\ IF Head(h).v = EOT
                  THEN Waits(<< In >>, Tail(h), d)
                  ELSE Waits(<< >>, Tail(h), d) /\ Waits(PrintCmdOutput, Tail(h), d)
<1>1. OfferFits(r, h, d, Fits)
  BY FitsTypes, FitsIff
<1> QED
  BY <1>1 DEF OfferFits, Waits

\* What the phases say of the first call and the first access.
LEMMA CalmCall ==
  ASSUME Calm, handler \in Seq(Ops), handler # << >>
  PROVE  Head(handler).op \in {"done", "next", "play"}
<1>1. OnlyDone(handler) => Head(handler).op = "done"
  <2>1. Head(handler) = handler[1] /\ 1 \in 1..Len(handler)
    OBVIOUS
  <2> QED
    BY <2>1 DEF OnlyDone
<1> QED
  BY <1>1 DEF Calm, Starts, AtPlay

LEMMA WorkingCall ==
  ASSUME Working
  PROVE  handler # << >> /\ Head(handler).op \in {"ack", "put", "done", "chdir", "play", "reboot"}
BY WaitsStep DEF Working

LEMMA BetweenCall ==
  ASSUME Between
  PROVE  /\ handler # << >> /\ Head(handler).op \in {"get", "count", "next"}
         /\ Head(routine).a \in {"out", "last", "send"}
BY GoesStep DEF Between

LEMMA OfferingCall ==
  ASSUME Offering
  PROVE  /\ handler # << >> /\ Head(handler).op = "put"
         /\ routine # << >> /\ Head(routine).a \in {"in", "incount", "inchar"}
BY OffersStep DEF Offering

\* Which phase a call belongs to.
LEMMA CallPhase ==
  ASSUME IndInv, handler # << >>, ~ctrl_reg
  PROVE  /\ Head(handler).op \in {"ack", "chdir", "reboot"} => running = called /\ ~reseted /\ Working
         /\ Head(handler).op \in {"done", "play"} =>
              \/ (Resting \/ Begun \/ Asked) /\ Calm
              \/ running = called /\ ~reseted /\ Working
         /\ Head(handler).op \in {"get", "count"} /\ data_reg =>
              running = called /\ ~reseted /\ GivenByte
         /\ Head(handler).op = "next" /\ data_reg =>
              Asked \/ (running = called /\ ~reseted /\ AskedMore)
         /\ Head(handler).op = "put" /\ ~sending => running = called /\ ~reseted /\ Working
         /\ Head(handler).op = "put" /\ sending /\ data_reg =>
              running = called /\ ~reseted /\ ReadOut
<1>1. handler \in Seq(Ops)
  BY DEF IndInv, Types
<1>2. CASE Resting \/ Begun \/ Asked
  <2>1. Calm
    BY <1>2 DEF Resting, Begun, Asked
  <2>2. Head(handler).op \in {"done", "next", "play"}
    BY <1>1, <2>1, CalmCall
  <2>3. data_reg => Asked
    BY <1>2 DEF Resting, Begun, Free
  <2> QED
    BY <1>2, <2>1, <2>2, <2>3
<1>3. CASE Chosen \/ Resetting
  BY <1>3 DEF Chosen, Resetting
<1>4. CASE running = called /\ ~reseted /\ Exchanging
  <2>1. CASE Working
    <3>1. Head(handler).op \in {"ack", "put", "done", "chdir", "play", "reboot"} /\ ~sending
      BY <2>1, WorkingCall DEF Working
    <3> QED
      BY <1>4, <2>1, <3>1
  <2>2. CASE Between
    <3>1. Head(handler).op \in {"get", "count", "next"} /\ ~data_reg
      BY <2>2, BetweenCall DEF Between, Free
    <3> QED
      BY <3>1
  <2>3. CASE Offering
    <3>1. Head(handler).op = "put" /\ ~data_reg /\ sending
      BY <2>3, OfferingCall DEF Offering, Free
    <3> QED
      BY <3>1
  <2>4. CASE GivenByte
    <3>1. Head(handler).op \in {"get", "count"}
      BY <2>4 DEF GivenByte, Starts
    <3> QED
      BY <1>4, <2>4, <3>1
  <2>5. CASE AskedMore
    <3>1. Head(handler).op = "next"
      BY <2>5 DEF AskedMore, Starts
    <3> QED
      BY <1>4, <2>5, <3>1
  <2>6. CASE ReadOut
    <3>1. Head(handler).op = "put" /\ sending
      BY <2>6 DEF ReadOut, Starts
    <3> QED
      BY <1>4, <2>6, <3>1
  <2> QED
    BY <1>4, <2>1, <2>2, <2>3, <2>4, <2>5, <2>6 DEF Exchanging
<1> QED
  BY <1>2, <1>3, <1>4 DEF IndInv

\* Which phase an access belongs to.
LEMMA AccessPhase ==
  ASSUME IndInv, pending = "none", routine # << >>
  PROVE  /\ Begun \/ (running = called /\ ~reseted /\ (Between \/ Offering))
         /\ Head(routine).a \in {"out", "last"} => running = called /\ ~reseted /\ Between
         /\ Head(routine).a \in {"in", "incount", "inchar"} =>
              running = called /\ ~reseted /\ Offering
<1>1. Begun \/ (running = called /\ ~reseted /\ (Between \/ Offering))
  BY DEF IndInv, Resting, Asked, Chosen, Resetting, Exchanging, Working, GivenByte, AskedMore,
         ReadOut, Held
<1>2. CASE Begun
  BY <1>1, <1>2 DEF Begun, Send
<1>3. CASE running = called /\ ~reseted /\ (Between \/ Offering)
  BY <1>3, BetweenCall, OfferingCall
<1> QED
  BY <1>1, <1>2, <1>3
-----------------------------------------------------------------------------
(* The steps of the STM32.                                                 *)

Toggles == comm_clk' # comm_clk => pending # "none" /\ comm_clk = phase

LEMMA StepToggleClock ==
  ASSUME IndInv, ToggleClock
  PROVE  IndInv' /\ Toggles
<1>1. /\ ~ctrl_reg /\ handler # << >> /\ Head(handler).op = "ack"
      /\ comm_clk' = ~comm_clk /\ handler' = Tail(handler)
      /\ UNCHANGED << data_reg, ctrl_reg, latch_b, latch_o, routine, pending, phase, called,
                      command_active, reseted, T81_dir, sending, running >>
  BY DEF ToggleClock, AtCall, Rest, z80Vars
<1>2. running = called /\ ~reseted /\ Working
  BY <1>1, CallPhase
<1>3. comm_clk \in BOOLEAN /\ phase \in BOOLEAN /\ T81_dir \in BOOLEAN /\ handler \in Seq(Ops)
  BY DEF IndInv, Types
<1>4. Types'
  BY <1>1, <1>3 DEF Types
<1>5. Goes(routine, Tail(handler), Over)
  BY <1>1, <1>2, WaitsStep DEF Working
<1>6. Goes(routine', handler', Over')
  BY <1>1, <1>5 DEF Over
<1>7. Free'
  BY <1>1, <1>2, <1>3 DEF Working, Held, Free
<1>10. Toggles
  BY <1>2 DEF Working, Held, Toggles
<1>8. CASE routine # << >>
  <2>1. Between'
    BY <1>1, <1>2, <1>6, <1>7, <1>8 DEF Between, Working
  <2> QED
    BY <1>1, <1>2, <1>4, <1>10, <2>1 DEF IndInv, Exchanging
<1>9. CASE routine = << >>
  <2>1. \/ OnlyDone(handler') /\ (Over' \/ handler' # << >>)
        \/ handler' # << >> /\ Head(handler').op = "next"
    BY <1>1, <1>6, <1>9, GoesStep
  <2>2. Calm'
    BY <2>1 DEF Calm, Starts
  <2>3. Resting'
    BY <1>1, <1>2, <1>7, <1>9, <2>2 DEF Resting, Working
  <2> QED
    BY <1>4, <1>10, <2>3 DEF IndInv
<1> QED
  BY <1>8, <1>9
LEMMA StepSendByteToZ80 ==
  ASSUME IndInv, SendByteToZ80
  PROVE  IndInv' /\ Toggles
<1>1. /\ ~ctrl_reg /\ handler # << >> /\ Head(handler).op = "put" /\ ~sending
      /\ latch_o' = Head(handler).v /\ comm_clk' = ~comm_clk /\ sending' = TRUE
      /\ UNCHANGED << data_reg, ctrl_reg, latch_b, routine, pending, phase, called,
                      command_active, reseted, T81_dir, handler, running >>
  BY DEF SendByteToZ80, AtCall, z80Vars
<1>2. running = called /\ ~reseted /\ Working
  BY <1>1, CallPhase
<1>3. comm_clk \in BOOLEAN /\ phase \in BOOLEAN /\ T81_dir \in BOOLEAN /\ handler \in Seq(Ops)
  BY DEF IndInv, Types
<1>4. Types'
  BY <1>1, <1>3 DEF Types
<1>5. Offers(routine, handler, Over)
  BY <1>1, <1>2, WaitsStep DEF Working
<1>6. Offers(routine', handler', Over')
  BY <1>1, <1>5 DEF Over
<1>7. Free'
  BY <1>1, <1>2, <1>3 DEF Working, Held, Free
<1>8. Offering'
  BY <1>1, <1>6, <1>7 DEF Offering
<1>9. Toggles
  BY <1>2 DEF Working, Held, Toggles
<1> QED
  BY <1>1, <1>2, <1>4, <1>8, <1>9 DEF IndInv, Exchanging

\* A step after which the STM32 owes a toggle.
LEMMA NowWorking ==
  ASSUME IndInv, UNCHANGED << comm_clk, ctrl_reg, routine, pending, phase, called, reseted, running >>,
         T81_dir' \in BOOLEAN, Held, running = called, ~reseted, ~data_reg', ~sending',
         Waits(routine, handler', Over')
  PROVE  IndInv'
<1>1. handler' \in Seq(Ops)
  BY FitsTypes
<1>2. Types'
  BY <1>1 DEF IndInv, Types
<1>3. Working'
  BY DEF Working, Held
<1> QED
  BY <1>2, <1>3 DEF IndInv, Exchanging

LEMMA StepByteSent ==
  ASSUME IndInv, ByteSent
  PROVE  IndInv'
<1>1. /\ ~ctrl_reg /\ handler # << >> /\ Head(handler).op = "put" /\ sending
      /\ data_reg /\ data_reg' = FALSE /\ sending' = FALSE /\ handler' = Tail(handler)
      /\ UNCHANGED << comm_clk, ctrl_reg, latch_b, latch_o, routine, pending, phase, called,
                      command_active, reseted, T81_dir, running >>
  BY DEF ByteSent, Taken, AtCall, Rest, z80Vars
<1>2. running = called /\ ~reseted /\ ReadOut
  BY <1>1, CallPhase
<1>3. Waits(routine, handler', Over') /\ Held /\ T81_dir' \in BOOLEAN
  BY <1>1, <1>2 DEF ReadOut, Over, IndInv, Types
<1> QED
  BY <1>1, <1>2, <1>3, NowWorking

LEMMA StepGetByteFromZ80 ==
  ASSUME IndInv, GetByteFromZ80
  PROVE  IndInv'
<1>1. /\ ~ctrl_reg /\ handler # << >> /\ Head(handler).op = "get"
      /\ data_reg /\ data_reg' = FALSE /\ handler' = Tail(handler)
      /\ UNCHANGED << comm_clk, ctrl_reg, latch_b, latch_o, routine, pending, phase, called,
                      command_active, reseted, T81_dir, running, sending >>
  BY DEF GetByteFromZ80, Taken, AtCall, Rest, z80Vars
<1>2. running = called /\ ~reseted /\ GivenByte
  BY <1>1, CallPhase
<1>3. Waits(routine, Tail(handler), Over) /\ Held /\ ~sending
  BY <1>1, <1>2 DEF GivenByte, Starts
<1>4. Waits(routine, handler', Over') /\ T81_dir' \in BOOLEAN
  BY <1>1, <1>3 DEF Over, IndInv, Types
<1> QED
  BY <1>1, <1>2, <1>3, <1>4, NowWorking

LEMMA StepGetCount ==
  ASSUME IndInv, GetCount
  PROVE  IndInv'
<1>1. /\ ~ctrl_reg /\ handler # << >> /\ Head(handler).op = "count"
      /\ data_reg /\ data_reg' = FALSE
      /\ latch_b.c = NoCommand => handler' = Head(handler).then[latch_b.v] \o Tail(handler)
      /\ UNCHANGED << comm_clk, ctrl_reg, latch_b, latch_o, routine, pending, phase, called,
                      command_active, reseted, T81_dir, running, sending >>
  BY DEF GetCount, Taken, AtCall, Rest, z80Vars
<1>2. running = called /\ ~reseted /\ GivenByte
  BY <1>1, CallPhase
<1>3. /\ Waits(routine, Head(handler).then[latch_b.v] \o Tail(handler), Over)
      /\ Held /\ ~sending /\ latch_b.c = NoCommand
  BY <1>1, <1>2 DEF GivenByte, Starts
<1>4. Waits(routine, handler', Over') /\ T81_dir' \in BOOLEAN
  BY <1>1, <1>3 DEF Over, IndInv, Types
<1> QED
  BY <1>1, <1>2, <1>3, <1>4, NowWorking

LEMMA NotCommands ==
  "none" \notin Commands /\ "idle" \notin Commands /\ "cmd_get_next_char" \in Commands
BY DEF Commands, commands

LEMMA StepGetNextChar ==
  ASSUME IndInv, GetNextChar
  PROVE  IndInv'
<1>1. /\ ~ctrl_reg /\ handler # << >> /\ Head(handler).op = "next"
      /\ data_reg /\ data_reg' = FALSE
      /\ UNCHANGED << comm_clk, ctrl_reg, latch_b, latch_o, routine, pending, phase, called,
                      reseted, T81_dir, running, sending >>
  BY DEF GetNextChar, Taken, AtCall, z80Vars
<1>2. \A c : latch_b = Command(c) /\ c # NoCommand =>
        IF c = "cmd_get_next_char"
        THEN handler' = Tail(handler) /\ command_active' = command_active
        ELSE handler' = << >> /\ command_active' = c
  BY DEF GetNextChar, Meaning, Command, Rest
<1>3. Asked \/ (running = called /\ ~reseted /\ AskedMore)
  BY <1>1, CallPhase
<1>4. CASE Asked
  <2>1. /\ called \in Commands \ {"cmd_get_next_char"} /\ called # NoCommand
        /\ latch_b = Command(called)
    BY <1>4, NotCommands DEF Asked, Ready, NoCommand
  <2>2. handler' = << >> /\ command_active' = called
    BY <1>2, <2>1
  <2>3. Chosen'
    BY <1>1, <1>4, <2>2 DEF Asked, Chosen, Held, Ready
  <2>4. Types'
    BY <1>1, <2>2 DEF IndInv, Types
  <2> QED
    BY <2>3, <2>4 DEF IndInv
<1>5. CASE running = called /\ ~reseted /\ AskedMore
  <2>1. handler' = Tail(handler) /\ command_active' = command_active
    BY <1>2, <1>5, NotCommands DEF AskedMore, NoCommand
  <2>2. /\ Waits(routine, handler', Over') /\ T81_dir' \in BOOLEAN /\ Held /\ ~sending
    BY <1>1, <1>5, <2>1 DEF AskedMore, Over, IndInv, Types
  <2> QED
    BY <1>1, <1>5, <2>2, NowWorking
<1> QED
  BY <1>3, <1>4, <1>5

LEMMA StepChangeDir ==
  ASSUME IndInv, ChangeDir
  PROVE  IndInv'
<1>1. /\ ~ctrl_reg /\ handler # << >> /\ Head(handler).op = "chdir"
      /\ T81_dir' \in BOOLEAN /\ handler' = Tail(handler)
      /\ UNCHANGED << comm_clk, data_reg, ctrl_reg, latch_b, latch_o, routine, pending, phase,
                      called, command_active, reseted, running, sending >>
  BY DEF ChangeDir, AtCall, Rest, fpgaVars, z80Vars
<1>2. running = called /\ ~reseted /\ Working
  BY <1>1, CallPhase
<1>3. Waits(routine, Tail(handler), Over) /\ Held /\ ~sending /\ ~data_reg
  BY <1>1, <1>2, WaitsStep DEF Working
<1>4. Waits(routine, handler', Over')
  BY <1>1, <1>3 DEF Over
<1> QED
  BY <1>1, <1>2, <1>3, <1>4, NowWorking

\* A call that changes nothing but the handler, before the next command.
LEMMA StillCalm ==
  ASSUME IndInv, Resting \/ Begun \/ Asked, Calm', handler' \in Seq(Ops),
         UNCHANGED << comm_clk, data_reg, ctrl_reg, latch_b, latch_o, routine, pending, phase,
                      called, T81_dir, sending >>
  PROVE  IndInv'
<1>1. Types'
  BY DEF IndInv, Types
<1>2. Resting => Resting'
  BY DEF Resting, Free
<1>3. Begun => Begun'
  BY DEF Begun, Free, Ready
<1>4. Asked => Asked'
  BY DEF Asked, Held, Ready
<1> QED
  BY <1>1, <1>2, <1>3, <1>4 DEF IndInv

LEMMA StepPlayEnds ==
  ASSUME IndInv, PlayEnds
  PROVE  IndInv'
<1>1. /\ ~ctrl_reg /\ handler # << >> /\ Head(handler).op = "play"
      /\ handler' = (IF reseted THEN << >> ELSE << Status, Ack >>) \o Tail(handler)
      /\ UNCHANGED << comm_clk, data_reg, ctrl_reg, latch_b, latch_o, routine, pending, phase,
                      called, command_active, reseted, T81_dir, running, sending >>
  BY DEF PlayEnds, AnswerUnlessReset, AtCall, Rest, fpgaVars, z80Vars
<1>2. handler \in Seq(Ops) /\ Tail(handler) \in Seq(Ops)
  BY <1>1 DEF IndInv, Types
<1>3. \/ (Resting \/ Begun \/ Asked) /\ Calm
      \/ running = called /\ ~reseted /\ Working
  BY <1>1, CallPhase
<1>4. CASE (Resting \/ Begun \/ Asked) /\ Calm
  <2>1. handler[1] = Head(handler) /\ 1 \in 1..Len(handler)
    BY <1>1, <1>2
  <2>2. ~OnlyDone(handler)
    BY <1>1, <2>1 DEF OnlyDone
  <2>3. reseted /\ OnlyDone(Tail(handler)) /\ Tail(handler) # << >>
    BY <1>1, <1>4, <2>2 DEF Calm, Starts, AtPlay
  <2>4. handler' = Tail(handler)
    BY <1>1, <1>2, <2>3, ConcatEmptySeq
  <2>5. Calm'
    BY <2>3, <2>4 DEF Calm
  <2> QED
    BY <1>1, <1>2, <1>4, <2>4, <2>5, StillCalm
<1>5. CASE running = called /\ ~reseted /\ Working
  <2>1. Waits(routine, << Status, Ack >> \o Tail(handler), Over) /\ Held /\ ~sending /\ ~data_reg
    BY <1>1, <1>5, WaitsStep DEF Working
  <2>2. handler' = << Status, Ack >> \o Tail(handler)
    BY <1>1, <1>5
  <2>3. Waits(routine, handler', Over') /\ T81_dir' \in BOOLEAN
    BY <1>1, <2>1, <2>2 DEF Over, IndInv, Types
  <2> QED
    BY <1>1, <1>5, <2>1, <2>3, NowWorking
<1> QED
  BY <1>3, <1>4, <1>5

LEMMA StepResetCommands ==
  ASSUME IndInv, reset_commands
  PROVE  IndInv'
<1>1. /\ ~ctrl_reg /\ handler # << >> /\ Head(handler).op = "done"
      /\ command_active' = CMD_IDLE /\ handler' = Tail(handler)
      /\ UNCHANGED << comm_clk, data_reg, ctrl_reg, latch_b, latch_o, routine, pending, phase,
                      called, reseted, T81_dir, running, sending >>
  BY DEF reset_commands, AtCall, Rest, fpgaVars, z80Vars
<1>2. handler \in Seq(Ops) /\ Tail(handler) \in Seq(Ops)
  BY <1>1 DEF IndInv, Types
<1>3. \/ (Resting \/ Begun \/ Asked) /\ Calm
      \/ running = called /\ ~reseted /\ Working
  BY <1>1, CallPhase
<1>4. CASE (Resting \/ Begun \/ Asked) /\ Calm
  <2>1. OnlyDone(handler)
    BY <1>1, <1>4 DEF Calm, Starts, AtPlay
  <2>2. OnlyDone(Tail(handler))
    <3> SUFFICES ASSUME NEW i \in 1..Len(Tail(handler)) PROVE Tail(handler)[i].op = "done"
      BY DEF OnlyDone
    <3>1. Tail(handler)[i] = handler[i + 1] /\ i + 1 \in 1..Len(handler)
      BY <1>1, <1>2
    <3> QED
      BY <2>1, <3>1 DEF OnlyDone
  <2>3. Calm'
    BY <1>1, <2>2 DEF Calm, Over
  <2> QED
    BY <1>1, <1>2, <1>4, <2>3, StillCalm
<1>5. CASE running = called /\ ~reseted /\ Working
  <2>1. Waits(routine, Tail(handler), TRUE) /\ Held /\ ~sending /\ ~data_reg
    BY <1>1, <1>5, WaitsStep DEF Working
  <2>2. Over' = TRUE /\ T81_dir' \in BOOLEAN
    BY <1>1 DEF Over, IndInv, Types
  <2>3. Waits(routine, handler', Over')
    BY <1>1, <2>1, <2>2
  <2> QED
    BY <1>1, <1>5, <2>1, <2>2, <2>3, NowWorking
<1> QED
  BY <1>3, <1>4, <1>5

LEMMA StepResetZ80 ==
  ASSUME IndInv, ResetZ80
  PROVE  IndInv'
<1>1. /\ ~ctrl_reg /\ handler # << >> /\ Head(handler).op = "reboot"
      /\ data_reg' = FALSE /\ routine' = << >> /\ pending' = "none" /\ phase' = comm_clk
      /\ handler' = Tail(handler)
      /\ UNCHANGED << comm_clk, ctrl_reg, T81_dir, sending >>
  BY DEF ResetZ80, AtCall, Rest
<1>2. running = called /\ ~reseted /\ Working
  BY <1>1, CallPhase
<1>3. OnlyDone(Tail(handler)) /\ Tail(handler) # << >> /\ ~sending
  BY <1>1, <1>2, WaitsStep DEF Working
<1>4. Calm'
  BY <1>1, <1>3 DEF Calm
<1>5. Resting'
  BY <1>1, <1>3, <1>4 DEF Resting, Free
<1>6. Types'
  BY <1>1 DEF IndInv, Types
<1> QED
  BY <1>5, <1>6 DEF IndInv

LEMMA StepGetCtrlReg ==
  ASSUME IndInv, get_ctrl_reg
  PROVE  IndInv' /\ Toggles
<1>1. /\ ctrl_reg /\ ctrl_reg' = FALSE /\ command_active' = CMD_IDLE /\ reseted' = TRUE
      /\ comm_clk' = ~comm_clk
      /\ UNCHANGED << data_reg, routine, pending, phase, T81_dir, handler, sending >>
  BY DEF get_ctrl_reg, z80Vars
<1>2. Resetting
  BY <1>1 DEF IndInv, Resting, Begun, Asked, Chosen, Exchanging, Working, Between, Offering,
              GivenByte, AskedMore, ReadOut, Free, Held
<1>3. comm_clk \in BOOLEAN /\ phase \in BOOLEAN
  BY DEF IndInv, Types
<1>4. Calm'
  BY <1>1, <1>2 DEF Resetting, Calm, AtPlay, Starts, Over
<1>5. Free'
  BY <1>1, <1>2, <1>3 DEF Resetting, Free
<1>6. Resting'
  BY <1>1, <1>2, <1>4, <1>5 DEF Resetting, Resting
<1>7. Types'
  BY <1>1 DEF IndInv, Types
<1>8. Toggles
  BY <1>2 DEF Resetting, Toggles
<1> QED
  BY <1>6, <1>7, <1>8 DEF IndInv
\* The STM32 takes the command it has been sent.
LEMMA NowActive ==
  ASSUME IndInv, UNCHANGED << comm_clk, ctrl_reg, routine, pending, phase, called, T81_dir, sending >>,
         Held, ~sending, Ready(routine), ~data_reg', handler' \in commands(T81_dir)[called],
         command_active' = called, running' = called, ~reseted'
  PROVE  IndInv'
<1>1. called \in Commands /\ Waits(routine, handler', FALSE)
  BY DEF Ready
<1>2. Over' = FALSE
  BY <1>1, NotCommands DEF Over, CMD_IDLE
<1>3. Waits(routine, handler', Over')
  BY <1>1, <1>2
<1>4. handler' \in Seq(Ops)
  BY <1>1, FitsTypes
<1>5. Types'
  BY <1>4 DEF IndInv, Types
<1>6. Working'
  BY <1>3 DEF Working, Held
<1> QED
  BY <1>5, <1>6 DEF IndInv, Exchanging

LEMMA StepLoop ==
  ASSUME IndInv, loop
  PROVE  IndInv'
<1>1. /\ ~ctrl_reg /\ handler = << >> /\ reseted' = FALSE /\ data_reg' = FALSE
      /\ UNCHANGED << comm_clk, ctrl_reg, latch_b, latch_o, routine, pending, phase, called,
                      T81_dir, sending >>
  BY DEF loop, ResetForgotten, z80Vars
<1>2. ASSUME NEW c \in Commands, Polled = {c}
      PROVE  /\ command_active' = c /\ handler' \in commands(T81_dir)[c] /\ running' = c
  BY <1>2 DEF loop
<1>3. ASSUME Polled = {CMD_IDLE}
      PROVE  command_active' = CMD_IDLE /\ UNCHANGED << handler, running >>
  <2>1. CMD_IDLE \notin Commands
    BY NotCommands DEF CMD_IDLE
  <2> QED
    BY <1>3, <2>1 DEF loop
<1>4. ~(Working \/ Between \/ Offering \/ GivenByte \/ AskedMore \/ ReadOut) /\ ~Resetting
  BY <1>1, WorkingCall, BetweenCall, OfferingCall DEF GivenByte, AskedMore, ReadOut,
         Starts, Resetting
<1>5. Resting \/ Begun \/ Asked \/ Chosen
  BY <1>4 DEF IndInv, Exchanging
<1>6. Calm => Over
  BY <1>1 DEF Calm, Starts, AtPlay
<1>7. CASE Resting \/ Begun
  <2>1. ~data_reg /\ Calm /\ ~sending
    BY <1>7 DEF Resting, Begun, Free
  <2>2. Polled = {CMD_IDLE}
    BY <1>6, <2>1 DEF Polled, Over
  <2>3. handler' = << >> /\ Over'
    BY <1>1, <1>3, <2>2 DEF Over
  <2>4. Calm'
    BY <2>3 DEF Calm, OnlyDone
  <2>5. Types'
    BY <1>1, <2>3 DEF IndInv, Types
  <2>6. Resting => Resting'
    BY <1>1, <2>1, <2>4 DEF Resting, Free
  <2>7. Begun => Begun'
    BY <1>1, <2>1, <2>4 DEF Begun, Free, Ready
  <2> QED
    BY <1>7, <2>5, <2>6, <2>7 DEF IndInv
<1>8. CASE Asked
  <2>1. Calm /\ data_reg /\ latch_b = Command(called) /\ Held /\ ~sending /\ Ready(routine)
    BY <1>8 DEF Asked
  <2>2. called \in Commands /\ called # NoCommand
    BY <2>1, NotCommands DEF Ready, NoCommand
  <2>3. Polled = {called}
    BY <1>6, <2>1, <2>2 DEF Polled, Over, Meaning, Command
  <2> QED
    BY <1>1, <1>2, <2>1, <2>2, <2>3, NowActive
<1>9. CASE Chosen
  <2>1. ~data_reg /\ command_active = called /\ Held /\ ~sending /\ Ready(routine)
    BY <1>9 DEF Chosen
  <2>2. called \in Commands /\ Polled = {called}
    BY <2>1 DEF Ready, Polled
  <2> QED
    BY <1>1, <1>2, <2>1, <2>2, NowActive
<1> QED
  BY <1>5, <1>7, <1>8, <1>9

LEMMA StepHandler ==
  ASSUME IndInv, HandlerStep
  PROVE  IndInv' /\ Toggles
<1>1. CASE ToggleClock \/ SendByteToZ80
  BY <1>1, StepToggleClock, StepSendByteToZ80
<1>2. CASE GetByteFromZ80 \/ GetCount \/ GetNextChar \/ ByteSent
  <2>1. IndInv'
    BY <1>2, StepGetByteFromZ80, StepGetCount, StepGetNextChar, StepByteSent
  <2>2. comm_clk' = comm_clk
    BY <1>2 DEF GetByteFromZ80, GetCount, GetNextChar, ByteSent, Taken
  <2> QED
    BY <2>1, <2>2 DEF Toggles
<1>3. CASE ChangeDir \/ PlayEnds \/ reset_commands \/ ResetZ80
  <2>1. IndInv'
    BY <1>3, StepChangeDir, StepPlayEnds, StepResetCommands, StepResetZ80
  <2>2. comm_clk' = comm_clk
    BY <1>3 DEF ChangeDir, PlayEnds, reset_commands, ResetZ80, fpgaVars
  <2> QED
    BY <2>1, <2>2 DEF Toggles
<1> QED
  BY <1>1, <1>2, <1>3 DEF HandlerStep

-----------------------------------------------------------------------------
(* The steps of the Z80.                                                   *)

LEMMA StepBegin ==
  ASSUME IndInv, Begin, Agreed
  PROVE  IndInv'
<1>1. PICK r \in Routines(T81_dir) : routine' = r /\ called' = r[1].c
  BY DEF Begin
<1>2. /\ routine = << >> /\ pending = "none" /\ phase' = comm_clk
      /\ UNCHANGED << comm_clk, data_reg, ctrl_reg, latch_b, latch_o, pending, command_active,
                      reseted, T81_dir, handler, sending, running >>
  BY DEF Begin, Idle, fpgaVars, stmVars
<1>3. Resting
  BY <1>2, WaitsStep, OfferingCall DEF IndInv, Begun, Asked, Chosen, Resetting, Exchanging,
         Working, Between,
              GivenByte, AskedMore, ReadOut, Held
<1>4. T81_dir \in BOOLEAN
  BY DEF IndInv, Types
<1>5. Suits(r, T81_dir)
  BY <1>4, AllSuit
<1>6. PICK c \in Commands \ {"cmd_get_next_char"}, p \in Seq(Accesses) :
        r = << Send(c) >> \o p /\ \A h \in commands(T81_dir)[c] : Waits(p, h, FALSE)
  BY <1>5 DEF Suits
<1>7. r # << >> /\ Head(r) = Send(c) /\ Tail(r) = p /\ r[1] = Send(c)
  <2>1. Send(c) \in Accesses
    BY <1>6, AccessTypes
  <2>2. r # << >> /\ Head(r) = Send(c) /\ Tail(r) = p
    BY <1>6, <2>1, First
  <2>3. p \in Seq(Accesses)
    BY <1>6
  <2>4. << Send(c) >> \in Seq(Accesses)
    BY <2>1
  <2>5. << Send(c) >> \o p \in Seq(Accesses)
    BY <2>3, <2>4, ConcatProperties
  <2>6. r \in Seq(Accesses)
    BY <1>6, <2>5
  <2>7. r[1] = Head(r)
    BY <2>2, <2>6
  <2> QED
    BY <2>2, <2>7
<1>8. called' = c
  BY <1>1, <1>7 DEF Send
<1>9. Ready(Tail(routine))'
  BY <1>1, <1>2, <1>6, <1>7, <1>8 DEF Ready
<1>10. Free' /\ Calm' /\ ~sending'
  BY <1>2, <1>3 DEF Resting, Free, Calm, Starts, AtPlay, Over
<1>11. Begun'
  BY <1>1, <1>2, <1>7, <1>8, <1>9, <1>10 DEF Begun
<1>12. Types'
  BY <1>2 DEF IndInv, Types
<1> QED
  BY <1>11, <1>12 DEF IndInv

LEMMA StepSendCommand ==
  ASSUME IndInv, SendCommand
  PROVE  IndInv'
<1>1. /\ routine # << >> /\ pending = "none" /\ Head(routine).a = "send"
      /\ latch_b' = Command(Head(routine).c) /\ routine' = Tail(routine)
      /\ data_reg' = TRUE /\ pending' = "command"
      /\ UNCHANGED << comm_clk, ctrl_reg, latch_o, phase, called, command_active, reseted,
                      T81_dir, handler, sending, running >>
  BY DEF SendCommand, Turn, Access, stmVars
<1>2. Begun \/ (running = called /\ ~reseted /\ Between)
  <2>1. Begun \/ (running = called /\ ~reseted /\ (Between \/ Offering))
    BY <1>1, AccessPhase
  <2>2. ~Offering
    BY <1>1, OfferingCall
  <2> QED
    BY <2>1, <2>2
<1>3. Types'
  BY <1>1 DEF IndInv, Types
<1>4. CASE Begun
  <2>1. latch_b' = Command(called)
    BY <1>1, <1>4 DEF Begun, Send
  <2>2. Calm' /\ Held'
    BY <1>1, <1>4 DEF Begun, Free, Held, Calm, Starts, AtPlay, Over
  <2>3. Asked'
    BY <1>1, <1>4, <2>1, <2>2 DEF Begun, Asked, Ready
  <2> QED
    BY <1>3, <2>3 DEF IndInv
<1>5. CASE running = called /\ ~reseted /\ Between
  <2>1. /\ Head(routine).c = "cmd_get_next_char" /\ handler # << >> /\ Head(handler).op = "next"
        /\ Waits(Tail(routine), Tail(handler), Over)
    BY <1>1, <1>5, GoesStep DEF Between
  <2>2. Held'
    BY <1>1, <1>5 DEF Between, Free, Held
  <2>3. Waits(routine', Tail(handler'), Over')
    BY <1>1, <2>1 DEF Over
  <2>4. AskedMore'
    BY <1>1, <1>5, <2>1, <2>2, <2>3 DEF AskedMore, Between, Starts
  <2> QED
    BY <1>1, <1>3, <1>5, <2>4 DEF IndInv, Exchanging
<1> QED
  BY <1>2, <1>4, <1>5

LEMMA StepSendParam ==
  ASSUME IndInv, SendParam
  PROVE  IndInv'
<1>1. /\ routine # << >> /\ pending = "none" /\ Head(routine).a \in {"out", "last"}
      /\ latch_b' = Param(Head(routine).v) /\ routine' = Tail(routine)
      /\ data_reg' = TRUE /\ pending' \in {"out", "last"}
      /\ UNCHANGED << comm_clk, ctrl_reg, latch_o, phase, called, command_active, reseted,
                      T81_dir, handler, sending, running >>
  BY DEF SendParam, Turn, Access, stmVars
<1>2. running = called /\ ~reseted /\ Between
  BY <1>1, AccessPhase
<1>3. Types'
  BY <1>1 DEF IndInv, Types
<1>4. /\ handler # << >>
      /\ \/ Head(handler).op = "get" /\ Waits(Tail(routine), Tail(handler), Over)
         \/ /\ Head(handler).op = "count" /\ Head(routine).v \in Lens
            /\ Waits(Tail(routine), Head(handler).then[Head(routine).v] \o Tail(handler), Over)
  BY <1>1, <1>2, GoesStep DEF Between
<1>5. latch_b'.c = NoCommand /\ latch_b'.v = Head(routine).v
  BY <1>1 DEF Param
<1>6. Held'
  BY <1>1, <1>2 DEF Between, Free, Held
<1>7. Over' = Over
  BY <1>1 DEF Over
<1>8. /\ handler' # << >>
      /\ \/ Head(handler').op = "get" /\ Waits(routine', Tail(handler'), Over')
         \/ /\ Head(handler').op = "count" /\ latch_b'.v \in Lens
            /\ Waits(routine', Head(handler').then[latch_b'.v] \o Tail(handler'), Over')
  BY <1>1, <1>4, <1>5, <1>7
<1>9. GivenByte'
  BY <1>1, <1>2, <1>5, <1>6, <1>8 DEF GivenByte, Between, Starts
<1> QED
  BY <1>1, <1>2, <1>3, <1>9 DEF IndInv, Exchanging

\* The Z80 reads the byte that the STM32 has put.
LEMMA NowRead ==
  ASSUME IndInv, Offering, running = called, ~reseted, pending = "none", pending' = "in", data_reg',
         UNCHANGED << comm_clk, ctrl_reg, phase, called, command_active, reseted, T81_dir,
                      handler, sending, running >>,
         Waits(routine', Tail(handler), Over)
  PROVE  IndInv'
<1>1. Types'
  BY DEF IndInv, Types
<1>2. handler # << >> /\ Head(handler).op = "put"
  BY OfferingCall
<1>3. Waits(routine', Tail(handler'), Over')
  BY DEF Over
<1>4. ReadOut'
  BY <1>2, <1>3 DEF ReadOut, Offering, Free, Held, Starts
<1> QED
  BY <1>1, <1>4 DEF IndInv, Exchanging

LEMMA StepRead ==
  ASSUME IndInv, ReadByte \/ ReadCount \/ ReadChar
  PROVE  IndInv'
<1>1. /\ routine # << >> /\ pending = "none" /\ Head(routine).a \in {"in", "incount", "inchar"}
      /\ data_reg' = TRUE /\ pending' = "in"
      /\ UNCHANGED << comm_clk, ctrl_reg, latch_b, latch_o, phase, called, command_active, reseted,
                      T81_dir, handler, sending, running >>
  BY DEF ReadByte, ReadCount, ReadChar, Read, Turn, Access, stmVars
<1>2. running = called /\ ~reseted /\ Offering
  BY <1>1, AccessPhase
<1>3. /\ handler # << >> /\ latch_o = Head(handler).v
      /\ \/ Head(routine).a = "in" /\ Waits(Tail(routine), Tail(handler), Over)
         \/ /\ Head(routine).a = "incount" /\ latch_o \in Lens
            /\ Waits(Head(routine).then[latch_o] \o Tail(routine), Tail(handler), Over)
         \/ /\ Head(routine).a = "inchar"
            /\ IF latch_o = EOT
               THEN Waits(<< In >>, Tail(handler), Over)
               ELSE Waits(<< >>, Tail(handler), Over) /\ Waits(PrintCmdOutput, Tail(handler), Over)
  BY <1>2, OffersStep DEF Offering
<1>4. Waits(routine', Tail(handler), Over)
  <2>1. CASE ReadByte
    <3>1. Head(routine).a = "in" /\ routine' = Tail(routine)
      BY <2>1 DEF ReadByte, Read, Turn
    <3> QED
      BY <1>3, <3>1
  <2>2. CASE ReadCount
    <3>1. /\ Head(routine).a = "incount"
          /\ latch_o \in Lens => routine' = Head(routine).then[latch_o] \o Tail(routine)
      BY <2>2 DEF ReadCount, Read, Turn
    <3> QED
      BY <1>3, <3>1
  <2>3. CASE ReadChar
    <3>1. /\ Head(routine).a = "inchar"
          /\ IF latch_o = EOT THEN routine' = << In >>
             ELSE routine' = << >> \/ routine' = PrintCmdOutput
      BY <2>3 DEF ReadChar, Read, Turn
    <3> QED
      BY <1>3, <3>1
  <2> QED
    BY <2>1, <2>2, <2>3
<1> QED
  BY <1>1, <1>2, <1>4, NowRead

\* A change of the clock is seen.
LEMMA StepConfirmed ==
  ASSUME IndInv, Confirmed
  PROVE  IndInv'
<1>1. /\ pending # "none" /\ comm_clk # phase /\ pending' = "none" /\ phase' = comm_clk
      /\ UNCHANGED << comm_clk, data_reg, ctrl_reg, latch_b, latch_o, routine, called,
                      command_active, reseted, T81_dir, handler, sending, running >>
  BY DEF Confirmed, fpgaVars, stmVars
<1>2. Resting \/ (running = called /\ ~reseted /\ (Between \/ Offering))
  BY <1>1 DEF IndInv, Begun, Asked, Chosen, Resetting, Exchanging, Working, GivenByte,
         AskedMore,
              ReadOut, Held
<1>3. Types'
  BY <1>1 DEF IndInv, Types
<1>4. CASE Resting
  <2>1. Calm' /\ Free'
    BY <1>1, <1>4 DEF Resting, Free, Calm, Starts, AtPlay, Over
  <2>2. Resting'
    BY <1>1, <1>4, <2>1 DEF Resting
  <2> QED
    BY <1>3, <2>2 DEF IndInv
<1>5. CASE running = called /\ ~reseted /\ Between
  <2>1. Free' /\ Goes(routine', handler', Over')
    BY <1>1, <1>5 DEF Between, Free, Over
  <2>2. Between'
    BY <1>1, <1>5, <2>1 DEF Between
  <2> QED
    BY <1>1, <1>3, <1>5, <2>2 DEF IndInv, Exchanging
<1>6. CASE running = called /\ ~reseted /\ Offering
  <2>1. Free' /\ Offers(routine', handler', Over')
    BY <1>1, <1>6 DEF Offering, Free, Over
  <2>2. Offering'
    BY <1>1, <1>6, <2>1 DEF Offering
  <2> QED
    BY <1>1, <1>3, <1>6, <2>2 DEF IndInv, Exchanging
<1> QED
  BY <1>2, <1>4, <1>5, <1>6

LEMMA StepBreak ==
  ASSUME IndInv, Break, Agreed
  PROVE  IndInv'
<1>1. /\ pending = "last" /\ comm_clk = phase /\ ~data_reg
      /\ handler # << >> /\ Head(handler).op = "play"
      /\ routine' = << >> /\ ctrl_reg' = TRUE /\ pending' = "reset"
      /\ UNCHANGED << comm_clk, data_reg, phase, command_active, reseted, T81_dir, handler,
                      sending >>
  BY DEF Break, ResetMcu, stmVars, Agreed
<1>2. ~ctrl_reg
  BY <1>1 DEF IndInv, Resting, Begun, Asked, Chosen, Resetting, Exchanging, Working, Between,
              Offering, GivenByte, AskedMore, ReadOut, Free, Held
<1>3. Working
  <2>1. \/ (Resting \/ Begun \/ Asked) /\ Calm
        \/ running = called /\ ~reseted /\ Working
    BY <1>1, <1>2, CallPhase
  <2> QED
    BY <1>1, <2>1 DEF Resting, Begun, Asked, Free
<1>4. OnlyDone(Tail(handler)) /\ Tail(handler) # << >> /\ ~sending
  BY <1>1, <1>3, WaitsStep DEF Working
<1>5. Resetting'
  BY <1>1, <1>4 DEF Resetting, AtPlay, Starts
<1>6. Types'
  BY <1>1 DEF IndInv, Types
<1> QED
  BY <1>5, <1>6 DEF IndInv

LEMMA StepReset ==
  ASSUME IndInv, SD81_RESET
  PROVE  IndInv'
<1>1. /\ routine = << >> /\ pending = "none" /\ phase' = comm_clk
      /\ ctrl_reg' = TRUE /\ pending' = "reset"
      /\ UNCHANGED << comm_clk, data_reg, routine, command_active, reseted, T81_dir, handler,
                      sending >>
  BY DEF SD81_RESET, Idle, ResetMcu, stmVars
<1>2. Resting
  BY <1>1, WaitsStep, OfferingCall DEF IndInv, Begun, Asked, Chosen, Resetting, Exchanging,
         Working, Between,
              GivenByte, AskedMore, ReadOut, Held
<1>3. Calm'
  BY <1>1, <1>2 DEF Resting, Calm, Starts, AtPlay, Over
<1>4. Resetting'
  BY <1>1, <1>2, <1>3 DEF Resting, Resetting, Free
<1>5. Types'
  BY <1>1 DEF IndInv, Types
<1> QED
  BY <1>4, <1>5 DEF IndInv

-----------------------------------------------------------------------------
(* The theorems.                                                           *)

LEMMA Invariance ==
  ASSUME Agreed
  PROVE  Init => IndInv
<1> SUFFICES ASSUME Init PROVE IndInv
  OBVIOUS
<1>1. Types
  <2>1. comm_clk = FALSE /\ phase = FALSE /\ T81_dir = FALSE /\ handler = << >>
    BY DEF Init
  <2>2. handler \in Seq(Ops)
    BY <2>1
  <2> QED
    BY <2>1, <2>2 DEF Types
<1>2. Calm
  BY DEF Init, Calm, OnlyDone, Over
<1>3. Resting
  BY <1>2 DEF Init, Resting, Free
<1> QED
  BY <1>1, <1>3 DEF IndInv

LEMMA Consecution ==
  ASSUME Agreed, IndInv, [Next]_vars
  PROVE  IndInv' /\ (vars' = vars \/ Toggles)
<1>1. CASE HandlerStep
  BY <1>1, StepHandler
<1>2. CASE get_ctrl_reg
  BY <1>2, StepGetCtrlReg
<1>3. CASE loop
  BY <1>3, StepLoop DEF loop, Toggles
<1>4. CASE Begin \/ Confirmed \/ Break \/ SD81_RESET
  <2>1. comm_clk' = comm_clk
    BY <1>4 DEF Begin, Confirmed, Break, SD81_RESET, ResetMcu, fpgaVars
  <2> QED
    BY <1>4, <2>1, StepBegin, StepConfirmed, StepBreak, StepReset DEF Toggles
<1>5. CASE Z80Access
  <2>1. comm_clk' = comm_clk
    BY <1>5 DEF Z80Access, SendCommand, SendParam, ReadByte, ReadCount, ReadChar, Read, Access
  <2> QED
    BY <1>5, <2>1, StepSendCommand, StepSendParam, StepRead DEF Toggles, Z80Access
<1>6. CASE UNCHANGED vars
  <2>1. UNCHANGED << comm_clk, data_reg, ctrl_reg, latch_b, latch_o, routine, pending, phase,
                     called, command_active, reseted, T81_dir, handler, sending, running >>
    BY <1>6 DEF vars, fpgaVars, z80Vars, stmVars
  <2>2. IndInv'
    BY <2>1 DEF IndInv, Types, Resting, Begun, Asked, Chosen, Resetting, Exchanging, Working,
                Between, Offering, GivenByte, AskedMore, ReadOut, Free, Held, Calm, Ready, Over,
                AtPlay, Starts
  <2> QED
    BY <1>6, <2>2
<1> QED
  BY <1>1, <1>2, <1>3, <1>4, <1>5, <1>6 DEF Next

LEMMA Implication ==
  ASSUME IndInv
  PROVE  InStep
<1>1. handler \in Seq(Ops)
  BY DEF IndInv, Types
<1>2. Calm => AwaitsCommand \/ (AtPlay /\ reseted)
  BY DEF Calm, AwaitsCommand, OnlyDoneLeft, OnlyDone, Over, Starts
<1>3. AtPlay /\ reseted => AwaitsCommand
  BY DEF AtPlay, Starts, AwaitsCommand
<1>4. Calm => AwaitsCommand
  BY <1>2, <1>3
<1>5. data_reg /\ pending = "command" => Asked \/ AskedMore
  BY DEF IndInv, Resting, Begun, Chosen, Resetting, Exchanging, Working, Between, Offering,
         GivenByte, ReadOut, Free
<1>6. data_reg /\ pending = "command" => AwaitsCommand
  BY <1>4, <1>5 DEF Asked, AskedMore, Starts, AwaitsCommand
<1>7. data_reg /\ pending \in {"out", "last"} => running = called /\ GivenByte
  BY DEF IndInv, Resting, Begun, Asked, Chosen, Resetting, Exchanging, Working, Between,
         Offering,
         AskedMore, ReadOut, Free
<1>8. data_reg /\ pending \in {"out", "last"} =>
        running = called /\ handler # << >> /\ Head(handler).op \in {"get", "count"}
  BY <1>7 DEF GivenByte, Starts
<1>9. data_reg /\ pending = "in" => running = called /\ sending
  BY DEF IndInv, Resting, Begun, Asked, Chosen, Resetting, Exchanging, Working, Between,
         Offering,
         GivenByte, AskedMore, ReadOut, Free
<1>10. Idle => Resting
  BY WaitsStep, OfferingCall DEF Idle, IndInv, Begun, Asked, Chosen, Resetting, Exchanging,
         Working, Between, GivenByte, AskedMore, ReadOut, Held
<1>11. Idle => AwaitsCommand \/ ctrl_reg
  BY <1>4, <1>10 DEF Resting
<1> QED
  BY <1>6, <1>8, <1>9, <1>11 DEF InStep

\* What the Z80 does on the port is what the STM32 waits for, in any sequence
\* of routines, for strings, blocks, files and listings of any length
\* (sdhandler.inc.asm, COMMANDS.cpp and COMMS.cpp).
THEOREM NeverOutOfStep ==
  ASSUME Agreed
  PROVE  Spec => []InStep
<1>1. Init => IndInv
  BY Invariance
<1>2. IndInv /\ [Next]_vars => IndInv'
  BY Consecution
<1>3. IndInv => InStep
  BY Implication
<1> QED
  BY <1>1, <1>2, <1>3, PTL DEF Spec

\* The STM32 changes the clock under a Z80 that waits for it, and once for
\* each access.
THEOREM TogglesOnce ==
  ASSUME Agreed
  PROVE  Spec => OneToggle
<1>1. Init => IndInv
  BY Invariance
<1>2. IndInv /\ [Next]_vars => IndInv'
  BY Consecution
<1>3. IndInv /\ [Next]_vars => [comm_clk' # comm_clk => pending # "none" /\ comm_clk = phase]_vars
  BY Consecution DEF Toggles
<1> QED
  BY <1>1, <1>2, <1>3, PTL DEF Spec, OneToggle
=============================================================================
