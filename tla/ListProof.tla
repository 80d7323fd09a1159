------------------------------- MODULE ListProof ------------------------------
(***************************************************************************)
(* A listing shows each entry once and in order, and a page asked for      *)
(* again is the page there was: proofs for every directory, page, number   *)
(* of listings and width of the index.                                     *)
(*                                                                         *)
(* The index in a request is one byte and the STM32 compares it with what  *)
(* it remembers of the last page.  What makes the two agree is that, in a  *)
(* directory with no more than Wrap entries, cursor and index mean the     *)
(* same place, so that a page depends on the request alone.                *)
(*                                                                         *)
(* In a listing of a program, jumps go where the labels are and nothing is *)
(* left out: proofs for texts of any length, with any labels.              *)
(***************************************************************************)
EXTENDS ListDir, B81, SequenceTheorems, WellFoundedInduction, TLAPS

Fits(d) == d \in DOMAIN Size /\ Size[d] <= Wrap
Items   == (DOMAIN Size) \X Nat

\* What a request asks for.
Frames  == [cmd : {"LIST_DIR"}, path : Asked, start : 0..(Wrap - 1), n : Nat]
From(r) == Least(r.start, Size[r.path])
To(r)   == Least(From(r) + PageRoom, Size[r.path])

\* The answers to it.
Pages ==
  {a \in [cmd : {"LIST_DIR"}, of : Frames, status : {"OK"}, entries : Seq(Items), more : BOOLEAN] :
     /\ a.of.path \in DOMAIN Size
     /\ Fits(a.of.path) =>
          /\ a.entries = Entries(a.of.path, From(a.of), To(a.of))
          /\ a.more <=> To(a.of) < Size[a.of.path]}
Missing == [cmd : {"LIST_DIR"}, of : Frames, status : {"NOT_FOUND"}]
Right   == Pages \cup Missing

LineRight ==
  /\ reqs \in Seq(Frames \cup {Garbled})
  /\ resps \in Seq(Right \cup {FrameError})
  /\ request \in Frames \cup {NoRequest}
  /\ phase = "idle" <=> request = NoRequest

\* The cursor is where its index says.
CursorRight ==
  cursor.open =>
    /\ cursor.path \in DOMAIN Size
    /\ cursor.pos \in 0..Size[cursor.path] /\ cursor.lastPos \in 0..Size[cursor.path]
    /\ Fits(cursor.path) =>
         /\ cursor.next = cursor.pos
         /\ cursor.lastPos = Least(cursor.last, Size[cursor.path])

\* What the ESP32 has of the directory is what comes before its index.
ListsMade == [dir : Asked, start : 0..(Wrap - 1), got : Seq(Items)]
ListRight ==
  /\ lists \in Nat
  /\ list \in ListsMade \cup {NoList}
  /\ list # NoList /\ ~misread /\ Fits(list.dir) =>
       list.start <= Size[list.dir] /\ list.got = Entries(list.dir, 0, list.start)
AsksRight ==
  request # NoRequest => list # NoList /\ request.path = list.dir /\ request.start = list.start
ResultRight ==
  result # NoList /\ result.ok /\ ~misread =>
    /\ result.dir \in DOMAIN Size
    /\ Fits(result.dir) => result.got = Entries(result.dir, 0, Size[result.dir])

\* The page the STM32 gave last is the one its request asks for.
PageRight ==
  /\ ran \in Frames \cup {NoRequest}
  /\ ran # NoRequest =>
       /\ Fits(ran.path) => page = Entries(ran.path, From(ran), To(ran))
       /\ ran.path \notin DOMAIN Size => page = <<>>

ListInv == LineRight /\ CursorRight /\ ListRight /\ AsksRight /\ ResultRight /\ PageRight

-----------------------------------------------------------------------------
(* Sequences.                                                              *)

LEMMA SeqParts ==
  ASSUME NEW S, NEW s \in Seq(S)
  PROVE  /\ s # <<>> => Head(s) \in S /\ Tail(s) \in Seq(S)
         /\ \A n \in 0..Len(s) : Drop(s, n) \in Seq(S)
         /\ \A x \in S : Append(s, x) \in Seq(S)
<1>1. ASSUME NEW n \in 0..Len(s) PROVE Drop(s, n) \in Seq(S)
  <2>1. \A i \in (n + 1)..Len(s) : s[i] \in S
    BY ElementOfSeq
  <2> QED
    BY <2>1, SubSeqProperties, LenProperties DEF Drop
<1> QED
  BY <1>1, HeadTailProperties, AppendProperties

LEMMA EntriesFacts ==
  ASSUME NEW d \in DOMAIN Size, NEW a \in Nat, NEW b \in Nat, a <= b
  PROVE  /\ Entries(d, a, b) \in Seq(Items)
         /\ Len(Entries(d, a, b)) = b - a
         /\ \A i \in 1..(b - a) : Entries(d, a, b)[i] = <<d, a + i>>
<1> DEFINE e == Entries(d, a, b)
<1>1. /\ b - a \in Nat
      /\ e = [i \in 1..(b - a) |-> <<d, a + i>>]
      /\ \A i \in 1..(b - a) : <<d, a + i>> \in Items
  BY DEF Entries, Items
<1>2. e \in [1..(b - a) -> Items]
  BY <1>1
<1> HIDE DEF e
<1>3. e \in Seq(Items)
  BY <1>1, <1>2, SeqDef
<1>4. Len(e) = b - a
  BY <1>1, <1>2, <1>3, LenProperties
<1> QED
  BY <1>1, <1>3, <1>4 DEF e

\* Two stretches of a directory, one after the other.
LEMMA EntriesJoin ==
  ASSUME NEW d \in DOMAIN Size, NEW a \in Nat, NEW b \in Nat, a <= b
  PROVE  Entries(d, 0, a) \o Entries(d, a, b) = Entries(d, 0, b)
<1> DEFINE s == Entries(d, 0, a)
           t == Entries(d, a, b)
           u == Entries(d, 0, b)
<1>1. /\ s \in Seq(Items) /\ Len(s) = a /\ \A i \in 1..a : s[i] = <<d, i>>
      /\ t \in Seq(Items) /\ Len(t) = b - a /\ \A i \in 1..(b - a) : t[i] = <<d, a + i>>
      /\ u \in Seq(Items) /\ Len(u) = b /\ \A i \in 1..b : u[i] = <<d, i>>
  <2>1. \A c \in Nat : /\ Entries(d, 0, c) \in Seq(Items) /\ Len(Entries(d, 0, c)) = c
                       /\ \A i \in 1..c : Entries(d, 0, c)[i] = <<d, i>>
    <3> SUFFICES ASSUME NEW c \in Nat
                 PROVE  /\ Entries(d, 0, c) \in Seq(Items) /\ Len(Entries(d, 0, c)) = c
                        /\ \A i \in 1..c : Entries(d, 0, c)[i] = <<d, i>>
      OBVIOUS
    <3> HIDE DEF s, t, u
    <3>1. /\ 0 \in Nat /\ 0 <= c /\ c - 0 = c
          /\ \A i \in 1..c : 0 + i = i
      OBVIOUS
    <3>2. /\ Entries(d, 0, c) \in Seq(Items) /\ Len(Entries(d, 0, c)) = c - 0
          /\ \A i \in 1..(c - 0) : Entries(d, 0, c)[i] = <<d, 0 + i>>
      BY <3>1, EntriesFacts
    <3> QED
      BY <3>1, <3>2
  <2>2. /\ t \in Seq(Items) /\ Len(t) = b - a /\ \A i \in 1..(b - a) : t[i] = <<d, a + i>>
    BY EntriesFacts
  <2> QED
    BY <2>1, <2>2
<1> HIDE DEF s, t, u
<1>2. /\ s \o t \in Seq(Items) /\ Len(s \o t) = b
      /\ \A i \in 1..b : (s \o t)[i] = IF i <= a THEN s[i] ELSE t[i - a]
  <2>1. /\ s \o t \in Seq(Items) /\ Len(s \o t) = Len(s) + Len(t)
        /\ \A i \in 1..(Len(s) + Len(t)) :
             (s \o t)[i] = IF i <= Len(s) THEN s[i] ELSE t[i - Len(s)]
    BY <1>1, ConcatProperties
  <2>2. a + (b - a) = b
    OBVIOUS
  <2> QED
    BY <1>1, <2>1, <2>2
<1>3. \A i \in 1..b : (s \o t)[i] = u[i]
  <2> SUFFICES ASSUME NEW i \in 1..b PROVE (s \o t)[i] = u[i]
    OBVIOUS
  <2>1. CASE i <= a
    <3>1. i \in 1..a
      BY <2>1
    <3> QED
      BY <1>1, <1>2, <2>1, <3>1
  <2>2. CASE ~(i <= a)
    <3>1. i - a \in 1..(b - a) /\ a + (i - a) = i
      BY <2>2
    <3> QED
      BY <1>1, <1>2, <2>2, <3>1
  <2> QED
    BY <2>1, <2>2
<1>4. s \o t = u
  BY <1>1, <1>2, <1>3, SeqEqual
<1> QED
  BY <1>4 DEF s, t, u

LEMMA NoEntries == \A d : Entries(d, 0, 0) = <<>>
<1>1. ASSUME NEW d PROVE Entries(d, 0, 0) = [i \in 1..0 |-> <<d, 0 + i>>]
  BY DEF Entries
<1>2. ASSUME NEW d PROVE [i \in 1..0 |-> <<d, 0 + i>>] = <<>>
  <2> DEFINE e == [i \in 1..0 |-> <<d, 0 + i>>]
  <2>1. e \in [1..0 -> {<<d, 0>>}]
    OBVIOUS
  <2> HIDE DEF e
  <2>2. e \in Seq({<<d, 0>>}) /\ Len(e) = 0
    BY <2>1, SeqDef, LenProperties
  <2> QED
    BY <2>2, EmptySeq DEF e
<1> QED
  BY <1>1, <1>2

-----------------------------------------------------------------------------
(* The page of a request.                                                  *)

LEMMA Unwrapped == ASSUME NEW x \in Nat, NEW w \in Nat \ {0}, x < w PROVE x % w = x
OBVIOUS

LEMMA Wrapped == ASSUME NEW x \in Nat, NEW w \in Nat \ {0} PROVE x % w \in 0..(w - 1)
OBVIOUS

LEMMA SizeNat == \A d \in DOMAIN Size : Size[d] \in Nat
BY ListBounds

LEMMA RequestRange ==
  ASSUME NEW r \in Frames, r.path \in DOMAIN Size
  PROVE  /\ r.start \in 0..(Wrap - 1) /\ r.start \in Nat /\ Size[r.path] \in Nat
         /\ From(r) \in 0..Size[r.path] /\ From(r) <= r.start
         /\ To(r) \in From(r)..Size[r.path]
         /\ To(r) < Size[r.path] => From(r) = r.start /\ To(r) = r.start + PageRoom
BY ListBounds, SizeNat DEF Frames, From, To, Least

\* Where the cursor is remembered it is where the index says, so that the
\* page is the same with and without it.
LEMMA StartsWhereAsked ==
  ASSUME CursorRight, NEW r \in Frames, Fits(r.path)
  PROVE  PageStart(r) = From(r)
<1>1. r.path \in DOMAIN Size /\ Size[r.path] \in Nat /\ r.start \in Nat
  BY RequestRange DEF Fits
<1>2. CASE Same(r)
  BY <1>1, <1>2 DEF Same, PageStart, From, Least, CursorRight
<1>3. CASE ~Same(r)
  BY <1>3 DEF PageStart, From
<1> QED
  BY <1>2, <1>3

LEMMA StartRange ==
  ASSUME CursorRight, NEW r \in Frames, r.path \in DOMAIN Size
  PROVE  PageStart(r) \in 0..Size[r.path]
<1>1. Size[r.path] \in Nat /\ r.start \in Nat
  BY RequestRange
<1> QED
  BY <1>1 DEF Same, PageStart, Least, CursorRight

-----------------------------------------------------------------------------
(* The line.                                                               *)

LEMMA Shapes ==
  /\ \A r \in Frames : r # NoRequest /\ r # Garbled /\ r.cmd = "LIST_DIR"
  /\ \A l \in ListsMade : l # NoList
  /\ NoRequest \notin Frames /\ NoList \notin ListsMade
<1>1. \A r \in Frames : r # NoRequest /\ r # Garbled /\ r.cmd = "LIST_DIR"
  BY DEF Frames, NoRequest, Garbled
<1>2. \A l \in ListsMade : l # NoList
  <2>1. \A l \in ListsMade : "start" \in DOMAIN l
    BY DEF ListsMade
  <2>2. "start" \notin DOMAIN NoList
    BY DEF NoList
  <2> QED
    BY <2>1, <2>2
<1> QED
  BY <1>1, <1>2

LEMMA LineSteps ==
  ASSUME LineRight, LinkStep
  PROVE  LineRight' /\ UNCHANGED request
<1> DEFINE Q == Frames \cup {Garbled}
           R == Right \cup {FrameError}
<1>1. reqs \in Seq(Q) /\ resps \in Seq(R) /\ request \in Frames \cup {NoRequest}
  BY DEF LineRight
<1>2. UNCHANGED request /\ phase # "idle" /\ phase' # "idle"
  BY DEF LinkStep, TransmitOk, TransmitBad, Attempt, ReadTimeout, ReadFrameError,
         ReadStale, AttemptOver
<1>3. request \in Frames
  BY <1>1, <1>2 DEF LineRight
<1>4. \/ reqs' = reqs
      \/ reqs' = Append(reqs, request) \/ reqs' = Append(reqs, Garbled)
  BY DEF LinkStep, TransmitOk, TransmitBad, ReadTimeout, ReadFrameError, ReadStale
<1>5. \/ resps' = resps
      \/ resps # <<>> /\ resps' = Tail(resps)
      \/ \E n \in 0..Len(resps) : resps' = Drop(resps, n)
  BY DEF LinkStep, TransmitOk, TransmitBad, Attempt, ReadTimeout, ReadFrameError, ReadStale
<1> HIDE DEF R
<1>6. reqs' \in Seq(Q)
  <2>1. request \in Q /\ Garbled \in Q
    BY <1>3
  <2> HIDE DEF Q
  <2> QED
    BY <1>1, <1>4, <2>1, SeqParts
<1>7. resps' \in Seq(R)
  BY <1>1, <1>5, SeqParts
<1> QED
  BY <1>1, <1>2, <1>6, <1>7 DEF LineRight, R

LEMMA CallEnds ==
  ASSUME LineRight, ReadAnswer \/ ReturnFailure
  PROVE  LineRight' /\ request' = NoRequest
<1> DEFINE R == Right \cup {FrameError}
<1>1. resps \in Seq(R)
  BY DEF LineRight
<1>2. /\ request' = NoRequest /\ phase' = "idle" /\ reqs' = reqs
      /\ resps' = resps \/ (resps # <<>> /\ resps' = Tail(resps))
  BY DEF ReadAnswer, ReturnFailure
<1>3. resps' \in Seq(R)
  <2> HIDE DEF R
  <2> QED
    BY <1>1, <1>2, SeqParts
<1> QED
  BY <1>2, <1>3 DEF LineRight

LEMMA Answers ==
  ASSUME LineRight, reqs # <<>>, reqs' = Tail(reqs), UNCHANGED <<phase, request>>,
         NEW a \in Right \cup {FrameError}, Answer(a)
  PROVE  LineRight'
<1> DEFINE R == Right \cup {FrameError}
           Q == Frames \cup {Garbled}
<1>1. reqs \in Seq(Q) /\ resps \in Seq(R)
  BY DEF LineRight
<1>2. resps' = resps \/ resps' = Append(resps, a)
  BY DEF Answer, AnswerSent, AnswerLost
<1>3. a \in R
  OBVIOUS
<1> HIDE DEF Q, R
<1>4. reqs' \in Seq(Q) /\ resps' \in Seq(R)
  BY <1>1, <1>2, <1>3, SeqParts
<1> QED
  BY <1>4 DEF LineRight, Q, R

\* What is at the front of either line.
LEMMA Fronts ==
  ASSUME LineRight
  PROVE  /\ reqs # <<>> => Head(reqs) \in Frames \cup {Garbled}
         /\ resps # <<>> => Head(resps) \in Right \cup {FrameError}
<1> DEFINE R == Right \cup {FrameError}
           Q == Frames \cup {Garbled}
<1>1. reqs \in Seq(Q) /\ resps \in Seq(R)
  BY DEF LineRight
<1> HIDE DEF Q, R
<1>2. (reqs # <<>> => Head(reqs) \in Q) /\ (resps # <<>> => Head(resps) \in R)
  BY <1>1, SeqParts
<1> QED
  BY <1>2 DEF Q, R

\* A damaged frame is no request.
LEMMA TakenFrame ==
  ASSUME LineRight, Take("LIST_DIR")
  PROVE  /\ Head(reqs) \in Frames /\ reqs # <<>> /\ reqs' = Tail(reqs)
         /\ UNCHANGED <<phase, request>>
BY Fronts DEF Take, Garbled

\* An answer that says OK is a page.
LEMMA AnswerIsPage ==
  ASSUME LineRight, ReadAnswer, Head(resps).status = "OK"
  PROVE  Head(resps) \in Pages
<1> DEFINE a == Head(resps)
<1>1. resps # <<>> /\ a.cmd = request.cmd /\ request \in Frames \cup {NoRequest}
  BY DEF ReadAnswer, LineRight
<1>2. a \in Right \cup {FrameError}
  BY <1>1, Fronts
<1>3. a.cmd \in {"LIST_DIR", "none"}
  BY <1>1, Shapes DEF NoRequest
<1> HIDE DEF a
<1>4. a \in Pages
  BY <1>2, <1>3 DEF Right, Missing, FrameError, a
<1> QED
  BY <1>4 DEF a

-----------------------------------------------------------------------------
(* The STM32.                                                              *)

LEMMA PageServed ==
  ASSUME ListInv, ServePage
  PROVE  ListInv'
<1> DEFINE r    == Head(reqs)
           from == PageStart(r)
           to   == Least(from + PageRoom, Size[r.path])
           a    == [cmd |-> "LIST_DIR", of |-> r, status |-> "OK",
                    entries |-> Entries(r.path, from, to), more |-> to < Size[r.path]]
<1>1. /\ r \in Frames /\ reqs # <<>> /\ reqs' = Tail(reqs)
      /\ UNCHANGED <<phase, request>>
  BY TakenFrame DEF ListInv, ServePage
<1>2. /\ r.path \in DOMAIN Size
      /\ cursor' = [open |-> to < Size[r.path], path |-> r.path, pos |-> to,
                    next |-> (r.start + (to - from)) % Wrap,
                    last |-> r.start, lastPos |-> from]
      /\ page' = Entries(r.path, from, to) /\ Answer(a) /\ ran' = r
      /\ UNCHANGED <<list, lists, result, misread>>
  BY DEF ServePage, cliVars
<1> HIDE DEF r
<1>3. /\ Size[r.path] \in Nat /\ from \in 0..Size[r.path] /\ PageRoom \in Nat
      /\ Wrap \in Nat \ {0}
  BY <1>1, <1>2, SizeNat, StartRange, ListBounds DEF ListInv
<1>4. to \in from..Size[r.path] /\ from \in Nat /\ to \in Nat /\ from <= to
  BY <1>3 DEF Least
<1>5. Fits(r.path) => from = From(r) /\ to = To(r)
  BY <1>1, StartsWhereAsked DEF ListInv, To
<1> HIDE DEF from, to
<1>6. Entries(r.path, from, to) \in Seq(Items)
  BY <1>2, <1>4, EntriesFacts
<1>7. a \in Pages
  <2>1. (to < Size[r.path]) \in BOOLEAN
    BY <1>3, <1>4
  <2>2. a \in [cmd : {"LIST_DIR"}, of : Frames, status : {"OK"}, entries : Seq(Items), more : BOOLEAN]
    BY <1>1, <1>6, <2>1
  <2>3. /\ a.of = r /\ a.entries = Entries(r.path, from, to)
        /\ a.more = (to < Size[r.path])
    OBVIOUS
  <2> HIDE DEF a
  <2> QED
    BY <1>2, <1>5, <2>2, <2>3 DEF Pages
<1>8. LineRight'
  <2> HIDE DEF a
  <2> QED
    BY <1>1, <1>2, <1>7, Answers DEF ListInv, Right, r
<1>9. CursorRight'
  <2>1. ASSUME to < Size[r.path], Fits(r.path)
        PROVE  (r.start + (to - from)) % Wrap = to
    <3>1. from = r.start /\ to = r.start + PageRoom /\ to < Wrap /\ r.start \in Nat
      BY <1>1, <1>3, <1>4, <1>5, <2>1, RequestRange DEF Fits
    <3>2. r.start + (to - from) = to
      BY <1>3, <3>1
    <3> QED
      BY <1>3, <1>4, <3>1, <3>2, Unwrapped
  <2>2. SUFFICES ASSUME cursor'.open
                 PROVE  /\ cursor'.path \in DOMAIN Size
                        /\ cursor'.pos \in 0..Size[cursor'.path]
                        /\ cursor'.lastPos \in 0..Size[cursor'.path]
                        /\ Fits(cursor'.path) =>
                             /\ cursor'.next = cursor'.pos
                             /\ cursor'.lastPos = Least(cursor'.last, Size[cursor'.path])
    BY DEF CursorRight
  <2>3. /\ cursor'.path = r.path /\ cursor'.pos = to /\ cursor'.lastPos = from
        /\ cursor'.next = (r.start + (to - from)) % Wrap /\ cursor'.last = r.start
        /\ cursor'.open = (to < Size[r.path])
    BY <1>2
  <2>4. to < Size[r.path]
    BY <2>2, <2>3
  <2> QED
    BY <1>2, <1>3, <1>4, <1>5, <2>1, <2>3, <2>4 DEF From
<1>10. PageRight'
  BY <1>1, <1>2, <1>5 DEF PageRight
<1>11. ListRight' /\ AsksRight' /\ ResultRight'
  BY <1>1, <1>2 DEF ListInv, ListRight, AsksRight, ResultRight
<1> QED
  BY <1>8, <1>9, <1>10, <1>11 DEF ListInv

LEMMA MissingServed ==
  ASSUME ListInv, NoSuchDir
  PROVE  ListInv'
<1> DEFINE r == Head(reqs)
           a == [cmd |-> "LIST_DIR", of |-> r, status |-> "NOT_FOUND"]
<1>1. /\ r \in Frames /\ reqs # <<>> /\ reqs' = Tail(reqs)
      /\ UNCHANGED <<phase, request>>
  BY TakenFrame DEF ListInv, NoSuchDir
<1>2. /\ r.path \notin DOMAIN Size /\ Answer(a) /\ ran' = r /\ page' = <<>>
      /\ cursor' = [cursor EXCEPT !.open = FALSE]
      /\ UNCHANGED <<list, lists, result, misread>>
  BY DEF NoSuchDir, cliVars
<1> HIDE DEF r
<1>3. a \in Right
  BY <1>1 DEF Right, Missing
<1>4. LineRight'
  <2> HIDE DEF a
  <2> QED
    BY <1>1, <1>2, <1>3, Answers DEF ListInv, r
<1>5. CursorRight'
  BY <1>2 DEF CursorRight
<1>6. PageRight'
  BY <1>1, <1>2 DEF PageRight, Fits
<1>7. ListRight' /\ AsksRight' /\ ResultRight'
  BY <1>1, <1>2 DEF ListInv, ListRight, AsksRight, ResultRight
<1> QED
  BY <1>4, <1>5, <1>6, <1>7 DEF ListInv

-----------------------------------------------------------------------------
(* The ESP32.                                                              *)

LEMMA ListBegins == Init => ListInv
<1> SUFFICES ASSUME Init PROVE ListInv
  OBVIOUS
<1>1. /\ reqs = <<>> /\ resps = <<>> /\ request = NoRequest /\ phase = "idle"
      /\ list = NoList /\ result = NoList /\ lists = 0 /\ ran = NoRequest
      /\ cursor = NoCursor
  BY DEF Init, LinkInit
<1>2. LineRight
  BY <1>1, EmptySeq DEF LineRight
<1>3. cursor.open = FALSE
  BY <1>1 DEF NoCursor
<1> QED
  BY <1>1, <1>2, <1>3 DEF ListInv, CursorRight, ListRight, AsksRight, ResultRight, PageRight

LEMMA BeginStays ==
  ASSUME ListInv, BeginList
  PROVE  ListInv'
<1>1. /\ list = NoList /\ lists' = lists + 1 /\ result' = NoList /\ misread' = FALSE
      /\ UNCHANGED <<reqs, resps, phase, request, cursor, ran, page>>
  BY DEF BeginList, linkVars, srvVars
<1>2. PICK d \in Asked : list' = [dir |-> d, start |-> 0, got |-> <<>>]
  BY DEF BeginList
<1>3. list' \in ListsMade
  BY <1>2, EmptySeq, ListBounds DEF ListsMade
<1>4. LineRight' /\ CursorRight' /\ PageRight' /\ AsksRight' /\ ResultRight'
  BY <1>1 DEF ListInv, LineRight, CursorRight, PageRight, AsksRight, ResultRight
<1>5. ListRight'
  <2>1. Fits(d) => 0 <= Size[d]
    BY SizeNat DEF Fits
  <2>2. list'.dir = d /\ list'.start = 0 /\ list'.got = <<>>
    BY <1>2
  <2>3. lists' \in Nat
    BY <1>1 DEF ListInv, ListRight
  <2> QED
    BY <1>3, <2>1, <2>2, <2>3, NoEntries DEF ListRight
<1> QED
  BY <1>4, <1>5 DEF ListInv

LEMMA AskStays ==
  ASSUME ListInv, AskPage
  PROVE  ListInv'
<1>1. /\ list # NoList /\ phase' = "send"
      /\ request' = [cmd |-> "LIST_DIR", path |-> list.dir, start |-> list.start, n |-> lists]
      /\ UNCHANGED <<reqs, resps, cursor, list, lists, result, misread, ran, page>>
  BY DEF AskPage, Request, srvVars, cliVars, ghostVars
<1>2. list \in ListsMade /\ lists \in Nat
  BY <1>1 DEF ListInv, ListRight
<1>3. request' \in Frames
  BY <1>1, <1>2 DEF ListsMade, Frames
<1>4. LineRight'
  BY <1>1, <1>3, Shapes DEF ListInv, LineRight
<1> QED
  BY <1>1, <1>4 DEF ListInv, CursorRight, ListRight, AsksRight, ResultRight, PageRight

LEMMA FailStays ==
  ASSUME ListInv, ListFails
  PROVE  ListInv'
<1>1. /\ ReadAnswer \/ ReturnFailure
      /\ list' = NoList /\ result' = [dir |-> list.dir, ok |-> FALSE, got |-> list.got]
      /\ UNCHANGED <<cursor, lists, misread, ran, page>>
  BY DEF ListFails, srvVars, ghostVars
<1>2. LineRight' /\ request' = NoRequest
  BY <1>1, CallEnds DEF ListInv
<1>3. result'.ok = FALSE
  BY <1>1
<1> QED
  BY <1>1, <1>2, <1>3
  DEF ListInv, CursorRight, ListRight, AsksRight, ResultRight, PageRight

\* What an answer adds to the listing.
LEMMA PageAdds ==
  ASSUME ListInv, GotPage
  PROVE  /\ Head(resps) \in Pages /\ list \in ListsMade
         /\ ~misread' => ~misread /\ Head(resps).of = request
         /\ IF misread' THEN TRUE
            ELSE /\ Fits(list.dir) =>
                      /\ Head(resps).entries =
                           Entries(list.dir, list.start, list.start + Len(Head(resps).entries))
                      /\ list.start + Len(Head(resps).entries) \in 0..Size[list.dir]
                      /\ Head(resps).more <=> list.start + Len(Head(resps).entries) < Size[list.dir]
                 /\ list.dir \in DOMAIN Size
<1> DEFINE a == Head(resps)
<1>1. ReadAnswer /\ a.status = "OK" /\ misread' = (misread \/ a.of # request)
  BY DEF GotPage
<1>2. a \in Pages
  BY <1>1, AnswerIsPage DEF ListInv
<1>3. request # NoRequest
  BY <1>1 DEF ReadAnswer, ListInv, LineRight
<1>4. list \in ListsMade /\ request.path = list.dir /\ request.start = list.start
  BY <1>3 DEF ListInv, ListRight, AsksRight
<1>5. ~misread' => ~misread /\ a.of = request
  BY <1>1, Zenon
<1>6. ASSUME ~misread'
      PROVE  /\ Fits(list.dir) =>
                  /\ a.entries = Entries(list.dir, list.start, list.start + Len(a.entries))
                  /\ list.start + Len(a.entries) \in 0..Size[list.dir]
                  /\ a.more <=> list.start + Len(a.entries) < Size[list.dir]
             /\ list.dir \in DOMAIN Size
  <2> HIDE DEF a
  <2>1. a.of = request /\ ~misread
    BY <1>5, <1>6
  <2>2. list.dir \in DOMAIN Size
    BY <1>2, <1>4, <2>1 DEF Pages
  <2>3. ASSUME Fits(list.dir)
        PROVE  /\ a.entries = Entries(list.dir, list.start, list.start + Len(a.entries))
               /\ list.start + Len(a.entries) \in 0..Size[list.dir]
               /\ a.more <=> list.start + Len(a.entries) < Size[list.dir]
    <3> DEFINE d  == list.dir
               to == To(request)
    <3>1. list.start <= Size[d] /\ list.start \in Nat /\ Size[d] \in Nat
      <4>1. list # NoList
        BY <1>4, Shapes
      <4>2. list.start <= Size[d]
        BY <2>1, <2>3, <4>1 DEF ListInv, ListRight
      <4>3. list.start \in Nat
        BY <1>4 DEF ListsMade
      <4> QED
        BY <2>2, <4>2, <4>3, SizeNat
    <3>2. request \in Frames
      BY <1>3 DEF ListInv, LineRight
    <3>3. From(request) = list.start
      BY <1>4, <3>1 DEF From, Least
    <3>4. to \in list.start..Size[d] /\ to \in Nat
      BY <1>4, <2>2, <3>1, <3>2, <3>3, RequestRange
    <3>5. a.entries = Entries(d, list.start, to) /\ (a.more <=> to < Size[d])
      BY <1>2, <1>4, <2>1, <2>3, <3>3 DEF Pages
    <3> HIDE DEF to
    <3>6. Len(a.entries) = to - list.start
      <4>1. d \in DOMAIN Size /\ list.start <= to
        BY <2>2, <3>1, <3>4
      <4>2. Len(Entries(d, list.start, to)) = to - list.start
        BY <3>1, <3>4, <4>1, EntriesFacts
      <4> QED
        BY <3>5, <4>2
    <3>7. list.start + Len(a.entries) = to
      BY <3>1, <3>4, <3>6
    <3> QED
      BY <3>1, <3>4, <3>5, <3>7
  <2> QED
    BY <2>2, <2>3
<1> QED
  BY <1>2, <1>4, <1>5, <1>6

LEMMA GotStays ==
  ASSUME ListInv, GotPage
  PROVE  ListInv'
<1> DEFINE a    == Head(resps)
           got  == IF misread' THEN <<>> ELSE list.got \o a.entries
           next == list.start + Len(a.entries)
<1>1. /\ ReadAnswer /\ UNCHANGED <<cursor, lists, ran, page>>
      /\ IF a.more
         THEN /\ list' = [list EXCEPT !.got = got, !.start = next % Wrap]
              /\ UNCHANGED result
         ELSE list' = NoList /\ result' = [dir |-> list.dir, ok |-> TRUE, got |-> got]
  BY DEF GotPage, NextStart, srvVars
<1>2. /\ a \in Pages /\ list \in ListsMade
      /\ ~misread' => ~misread /\ list.dir \in DOMAIN Size
      /\ ~misread' /\ Fits(list.dir) =>
           /\ a.entries = Entries(list.dir, list.start, next)
           /\ next \in 0..Size[list.dir]
           /\ a.more <=> next < Size[list.dir]
  BY PageAdds
<1>3. /\ list.start \in Nat /\ a.entries \in Seq(Items) /\ list.got \in Seq(Items)
      /\ list.dir \in Asked /\ a.more \in BOOLEAN
  BY <1>2 DEF ListsMade, Pages
<1> HIDE DEF a
<1>4. Len(a.entries) \in Nat /\ next \in Nat /\ list.start <= next
  BY <1>3, LenProperties
<1>5. got \in Seq(Items)
  BY <1>3, EmptySeq, ConcatProperties
<1>6. ASSUME ~misread', Fits(list.dir)
      PROVE  got = Entries(list.dir, 0, next)
  <2>1. list # NoList /\ list.got = Entries(list.dir, 0, list.start) /\ list.dir \in DOMAIN Size
    <3>1. list # NoList
      BY <1>2, Shapes
    <3> QED
      BY <1>2, <1>6, <3>1 DEF ListInv, ListRight
  <2>2. got = Entries(list.dir, 0, list.start) \o Entries(list.dir, list.start, next)
    BY <1>2, <1>6, <2>1
  <2> HIDE DEF got, next
  <2> QED
    BY <1>3, <1>4, <2>1, <2>2, EntriesJoin
<1>7. LineRight' /\ request' = NoRequest
  BY <1>1, CallEnds DEF ListInv
<1>8. CursorRight' /\ PageRight' /\ AsksRight'
  BY <1>1, <1>7 DEF ListInv, CursorRight, PageRight, AsksRight
<1> HIDE DEF got
<1>9. CASE a.more
  <2>1. /\ list' = [list EXCEPT !.got = got, !.start = next % Wrap]
        /\ UNCHANGED <<result, lists>>
    BY <1>1, <1>9
  <2> HIDE DEF next
  <2>2. next % Wrap \in 0..(Wrap - 1)
    BY <1>4, ListBounds, Wrapped
  <2>3. list' \in ListsMade /\ list'.dir = list.dir /\ list'.got = got /\ list'.start = next % Wrap
    BY <1>2, <1>5, <2>1, <2>2 DEF ListsMade
  <2>4. ASSUME ~misread', Fits(list.dir) PROVE next % Wrap = next /\ next <= Size[list.dir]
    <3>1. next < Size[list.dir] /\ Size[list.dir] \in Nat /\ Size[list.dir] <= Wrap
      BY <1>2, <1>9, <2>4, SizeNat DEF Fits
    <3>2. next < Wrap /\ Wrap \in Nat \ {0}
      BY <1>4, <3>1, ListBounds
    <3> QED
      BY <1>4, <3>1, <3>2, Unwrapped
  <2>5. ListRight'
    BY <1>6, <2>1, <2>3, <2>4 DEF ListInv, ListRight
  <2>6. ResultRight'
    <3>1. ~misread' => ~misread
      BY <1>2
    <3> QED
      BY <2>1, <3>1 DEF ListInv, ResultRight
  <2> QED
    BY <1>7, <1>8, <2>5, <2>6 DEF ListInv
<1>10. CASE ~a.more
  <2>1. /\ list' = NoList /\ UNCHANGED lists
        /\ result' = [dir |-> list.dir, ok |-> TRUE, got |-> got]
    BY <1>1, <1>10
  <2>2. ASSUME ~misread', Fits(list.dir) PROVE next = Size[list.dir]
    <3>1. ~(next < Size[list.dir]) /\ next \in 0..Size[list.dir] /\ Size[list.dir] \in Nat
      BY <1>2, <1>10, <2>2, SizeNat DEF Fits
    <3> QED
      BY <3>1
  <2>3. result'.dir = list.dir /\ result'.got = got
    BY <2>1
  <2> HIDE DEF next
  <2>4. ResultRight'
    BY <1>2, <1>6, <2>2, <2>3 DEF ResultRight
  <2>5. ListRight'
    BY <2>1 DEF ListInv, ListRight
  <2> QED
    BY <1>7, <1>8, <2>4, <2>5 DEF ListInv
<1> QED
  BY <1>3, <1>9, <1>10

-----------------------------------------------------------------------------
LEMMA QuietStays ==
  ASSUME ListInv, StmGarbled \/ LinkStep \/ Expire \/ UNCHANGED vars
  PROVE  ListInv'
<1>1. UNCHANGED <<cursor, list, lists, result, misread, ran, page>>
  BY DEF StmGarbled, LinkStep, Expire, vars, srvVars, cliVars, ghostVars
<1>2. LineRight' /\ UNCHANGED request
  <2>1. CASE StmGarbled
    <3>1. /\ reqs # <<>> /\ reqs' = Tail(reqs) /\ UNCHANGED <<phase, request>>
          /\ Answer(FrameError)
      BY <2>1 DEF StmGarbled, TakeGarbled, Take
    <3> QED
      BY <3>1, Answers DEF ListInv
  <2>2. CASE LinkStep
    BY <2>2, LineSteps DEF ListInv
  <2>3. CASE Expire \/ UNCHANGED vars
    BY <2>3 DEF Expire, vars, linkVars, ListInv, LineRight
  <2> QED
    BY <2>1, <2>2, <2>3
<1> QED
  BY <1>1, <1>2 DEF ListInv, CursorRight, ListRight, AsksRight, ResultRight, PageRight

LEMMA ListSteps == ListInv /\ [Next]_vars => ListInv'
BY BeginStays, AskStays, GotStays, FailStays, PageServed, MissingServed, QuietStays
DEF Next, Finished

\* A listing that succeeds has each entry of the directory once and in order,
\* through retries, late pages, expired cursors and listings given up halfway,
\* as long as no answer was taken for another and the directory has no more
\* entries than the index counts (wifi_client_list_dir, handle_list_dir).
THEOREM ListingIsExact == Spec => []ListingExact
<1>1. ListInv => ListingExact
  <2> SUFFICES ASSUME ListInv, result # NoList, result.ok, ~misread, Size[result.dir] <= Wrap
               PROVE  result.got = Entries(result.dir, 0, Size[result.dir])
    BY DEF ListingExact
  <2> QED
    BY DEF ListInv, ResultRight, Fits
<1> QED
  BY <1>1, ListBegins, ListSteps, PTL DEF Spec

\* While no directory has more entries than the index counts, a request that
\* the STM32 runs a second time gets the page it got the first time, whether
\* the directory is still open or has expired (the comment above
\* handle_list_dir).
THEOREM RepeatedPage ==
  ASSUME \A d \in DOMAIN Size : Size[d] <= Wrap
  PROVE  Spec => RetrySamePage
<1>1. ASSUME ListInv, [Next]_vars, reqs # <<>>, reqs' = Tail(reqs), Head(reqs) = ran
      PROVE  page' = page
  <2>1. CASE ServePage
    <3> DEFINE r == Head(reqs)
    <3>1. r \in Frames
      BY <1>1, <2>1, TakenFrame DEF ServePage, ListInv
    <3>2. /\ r.path \in DOMAIN Size
          /\ page' = Entries(r.path, PageStart(r), Least(PageStart(r) + PageRoom, Size[r.path]))
      BY <2>1 DEF ServePage
    <3>3. Fits(r.path)
      BY <3>2 DEF Fits
    <3>4. PageStart(r) = From(r)
      BY <1>1, <3>1, <3>3, StartsWhereAsked DEF ListInv
    <3>5. page = Entries(r.path, From(r), To(r))
      BY <1>1, <3>1, <3>3, Shapes DEF ListInv, PageRight
    <3> QED
      BY <3>2, <3>4, <3>5 DEF To
  <2>2. CASE NoSuchDir
    <3>1. Head(reqs) \in Frames /\ Head(reqs).path \notin DOMAIN Size /\ page' = <<>>
      BY <1>1, <2>2, TakenFrame DEF NoSuchDir, ListInv
    <3> QED
      BY <1>1, <3>1, Shapes DEF ListInv, PageRight
  <2>3. CASE ~ServePage /\ ~NoSuchDir
    BY <1>1, <2>3 DEF Next, Finished, BeginList, AskPage, GotPage, ListFails, Expire,
                      StmGarbled, LinkStep, vars, ghostVars
  <2> QED
    BY <2>1, <2>2, <2>3
<1>2. ListInv /\ [Next]_vars =>
        [reqs # <<>> /\ reqs' = Tail(reqs) /\ Head(reqs) = ran => page' = page]_vars
  BY <1>1
<1> QED
  BY <1>2, ListBegins, ListSteps, PTL DEF Spec, RetrySamePage


-----------------------------------------------------------------------------
(* Listings of programs.  The two passes of b81_to_p find the same numbers  *)
(* because both number the same lines (Begins), each line's number depends *)
(* on the one before, and what begins the line reads the same in both,     *)
(* unless it is far to the right.  The numbers are G, from 0 (no line yet) *)
(* to the end of the text.                                                 *)

Lines == [mark : Beginnings, cont : BOOLEAN,
          body : Seq({"q", "e", "rem", "goto", "word", "dig", "let", "sign",
                      "bad"} \cup Labels)]

B81Type ==
  /\ text \in Seq(Lines)
  /\ pass \in {"number", "convert", "done", "failed"}
  /\ at \in 1..(Len(text) + 1)
  /\ current \in Int /\ startLine \in Int /\ nxtlin \in Nat
  /\ \E P : prog \in Seq(P)

\* The next line of the text begins a line of the program.
Boundary == at = 1 \/ (Solid(at - 1) /\ ~text[at - 1].cont)

Something(i) == text[i].mark[1] = "text" \/ text[i].body # <<>> \/ text[i].cont
Wanted == {i \in Begins : Something(i)}

\* The lines so far.
Increasing ==
  \A i, j \in DOMAIN prog : i < j => prog[i].from < prog[j].from /\ prog[i].num < prog[j].num
OwnNumbers ==
  \A i \in DOMAIN prog :
    LET m == text[prog[i].from].mark IN m[1] \in {"num", "far"} => prog[i].num = m[2]
SoFar ==
  /\ pass = "number" => prog = <<>>
  /\ pass = "convert" =>
       /\ {prog[i].from : i \in DOMAIN prog} = {i \in Wanted : i < at}
       /\ \A i \in DOMAIN prog : prog[i].num \in Int /\ prog[i].num <= current
       /\ Increasing /\ OwnNumbers

\* G numbers the lines up to n.
Numbering(G, n) ==
  /\ G[0] = -1
  /\ \A i \in Begins : i <= n => G[i] = Number(text[i].mark, "number", G[i - 1])
  /\ \A i, j \in 0..n : i <= j /\ (\A b \in Begins : ~(i < b /\ b <= j)) => G[i] = G[j]
  /\ \A i \in 0..n, j \in Begins : i < j /\ j <= n => G[i] < G[j]
LabelsOf(G, n, ls) ==
  /\ \A l : l \in DOMAIN ls <=> \E p \in Begins : p <= n /\ text[p].mark = <<"label", l>>
  /\ \A l : \A p \in Begins : p <= n /\ Labelling(p, l) => ls[l] = G[p]
LinesOf(G) ==
  \A k \in DOMAIN prog :
    /\ prog[k].from \in Begins /\ prog[k].num = G[prog[k].from]
    /\ \A j \in prog[k].jumps : j.label \in DOMAIN labels /\ j.to = labels[j.label]

Gs == [0..Len(text) -> Int]
FirstOf(G) == Numbering(G, at - 1) /\ LabelsOf(G, at - 1, labels) /\ current = G[at - 1]
SecondOf(G) ==
  Numbering(G, Len(text)) /\ LabelsOf(G, Len(text), labels) /\ current = G[at - 1] /\ LinesOf(G)
Agree ==
  /\ pass = "number"  => \E G \in Gs : FirstOf(G)
  /\ pass = "convert" => \E G \in Gs : SecondOf(G)

B81Inv ==
  /\ B81Type /\ Boundary /\ SoFar
  /\ ~Far => Agree
  /\ WholeListing /\ Jumps

-----------------------------------------------------------------------------
(* Reading.                                                                *)

LEMMA LeastIs ==
  ASSUME NEW S, S \subseteq Nat, S # {}
  PROVE  Earliest(S) \in S /\ \A j \in S : Earliest(S) <= j
<1> DEFINE R == {ss \in Nat \X Nat : ss[1] < ss[2]}
<1>1. IsWellFoundedOn(R, Nat)
  BY NatLessThanWellFounded DEF OpToRel
<1>2. \A x \in Nat, y \in Nat : x < y => <<x, y>> \in R
  OBVIOUS
<1> HIDE DEF R
<1>3. \E x \in S : \A y \in S : <<y, x>> \notin R
  BY <1>1, WFMin
<1>4. PICK x \in S : \A y \in S : <<y, x>> \notin R
  BY <1>3
<1>5. ASSUME NEW y \in S PROVE x <= y
  <2>1. x \in Nat /\ y \in Nat /\ ~(y < x)
    BY <1>2, <1>4
  <2> QED
    BY <2>1
<1>6. \E k \in S : \A j \in S : k <= j
  BY <1>5
<1> QED
  BY <1>6 DEF Earliest

LEMMA GreatestIs ==
  ASSUME NEW S, S \subseteq Nat, S # {}, NEW n \in Nat, \A j \in S : j <= n
  PROVE  \E m \in S : \A j \in S : j <= m
<1> DEFINE T == {n - j : j \in S}
<1>0. \A j \in S : n - j \in Nat
  OBVIOUS
<1>1. T \subseteq Nat /\ T # {}
  BY <1>0
<1> HIDE DEF T
<1>2. PICK t \in T : \A u \in T : t <= u
  BY <1>1, LeastIs, Zenon
<1>3. PICK m \in S : t = n - m
  BY <1>2 DEF T
<1>4. ASSUME NEW j \in S PROVE j <= m
  <2>1. n - m <= n - j
    BY <1>2, <1>3 DEF T
  <2> QED
    BY <2>1
<1> QED
  BY <1>4

\* What is read from a boundary on is one line, and ends at a boundary.
LEMMA Read ==
  ASSUME text \in Seq(Lines), at \in 1..(Len(text) + 1), Boundary, More
  PROVE  /\ First \in at..Len(text) /\ Past \in (First + 1)..(Len(text) + 1)
         /\ Solid(First) /\ Solid(Past - 1) /\ ~text[Past - 1].cont
         /\ Past - 1 = Earliest(Lasts(First))
         /\ \A i \in at..(Past - 1) : i \in Begins <=> i = First /\ ~Commented
<1> DEFINE last == Earliest(Lasts(at))
<1>1. last \in Lasts(at) /\ \A j \in Lasts(at) : last <= j
  <2>1. Lasts(at) \subseteq Nat /\ Lasts(at) # {}
    BY DEF More, Lasts
  <2> QED
    BY <2>1, LeastIs
<1>2. last \in at..Len(text) /\ Solid(last) /\ ~text[last].cont
  BY <1>1 DEF Lasts
<1>3. First \in Firsts /\ \A j \in Firsts : First <= j
  <2>1. last \in Firsts
    BY <1>2 DEF Firsts
  <2>2. Firsts \subseteq Nat
    BY DEF Firsts
  <2> QED
    BY <2>1, <2>2, LeastIs DEF First
<1>4. First \in at..Len(text) /\ Solid(First) /\ First <= last
  BY <1>2, <1>3 DEF Firsts
<1>5. Past = last + 1
  BY DEF Past
<1> HIDE DEF last
<1>6. \A j \in at..(First - 1) : ~Solid(j)
  <2> SUFFICES ASSUME NEW j \in at..(First - 1), Solid(j) PROVE FALSE
    OBVIOUS
  <2>1. j \in Firsts
    BY <1>4 DEF Firsts
  <2> QED
    BY <1>3, <1>4, <2>1
<1>7. Lasts(First) # {} /\ last = Earliest(Lasts(First))
  <2>1. \A k : k \in Lasts(at) <=> k \in Lasts(First)
    <3>1. ASSUME NEW k, k \in Lasts(at) PROVE k \in Lasts(First)
      <4>1. k \in at..Len(text) /\ Solid(k) /\ ~text[k].cont
        BY <3>1 DEF Lasts
      <4>2. First <= k
        BY <1>4, <1>6, <4>1
      <4> QED
        BY <1>4, <4>1, <4>2 DEF Lasts
    <3>2. ASSUME NEW k, k \in Lasts(First) PROVE k \in Lasts(at)
      BY <1>4, <3>2 DEF Lasts
    <3> QED
      BY <3>1, <3>2
  <2>2. Lasts(at) = Lasts(First)
    BY <2>1
  <2>3. last = Earliest(Lasts(at))
    BY DEF last
  <2> QED
    BY <1>1, <2>2, <2>3
<1>8. First \in Begins <=> ~Commented
  <2>1. ASSUME NEW j \in 1..(First - 1), text[j].cont, Solid(j)
        PROVE  \E k \in (j + 1)..(First - 1) : Solid(k)
    <3>1. j < at
      BY <1>4, <1>6, <2>1
    <3>2. j # at - 1 /\ at - 1 \in 1..(First - 1)
      BY <1>4, <2>1, <3>1 DEF Boundary
    <3>3. Solid(at - 1) /\ at - 1 \in (j + 1)..(First - 1)
      BY <1>4, <3>1, <3>2 DEF Boundary
    <3> QED
      BY <3>3
  <2>2. First \in DOMAIN text
    BY <1>4
  <2> QED
    BY <1>4, <1>7, <2>1, <2>2 DEF Begins, Commented, Mark
<1>9. ASSUME NEW i \in at..last, i \in Begins PROVE i = First
  <2>1. Solid(i) /\ i \in DOMAIN text
    BY <1>9 DEF Begins
  <2>2. ~(i < First)
    BY <1>6, <1>4, <2>1
  <2> SUFFICES ASSUME First < i PROVE FALSE
    BY <1>4, <2>2
  <2> DEFINE S == {j \in First..(i - 1) : Solid(j)}
  <2>3. S \subseteq Nat /\ S # {} /\ \A j \in S : j <= i /\ i \in Nat
    BY <1>2, <1>4
  <2> HIDE DEF S
  <2>4. PICK m \in S : \A j \in S : j <= m
    BY <2>3, GreatestIs
  <2>5. m \in at..Len(text) /\ Solid(m) /\ m < last /\ m \in First..(i - 1)
    BY <1>2, <1>4, <2>4 DEF S
  <2>6. text[m].cont
    <3> SUFFICES ASSUME ~text[m].cont PROVE FALSE
      OBVIOUS
    <3>1. m \in Lasts(at)
      BY <2>5 DEF Lasts
    <3> QED
      BY <1>1, <2>5, <3>1, <1>2
  <2>7. PICK k \in (m + 1)..(i - 1) : Solid(k)
    <3>1. m \in 1..(i - 1)
      BY <2>5, <1>4
    <3> QED
      BY <1>9, <2>5, <2>6, <3>1 DEF Begins
  <2>8. k \in S
    BY <2>5, <2>7, <1>4 DEF S
  <2>9. k <= m
    BY <2>4, <2>8
  <2> QED
    BY <2>7, <2>5, <2>9
<1> QED
  BY <1>2, <1>4, <1>5, <1>7, <1>8, <1>9

\* Nothing begins after the last line.
LEMMA NoMore ==
  ASSUME text \in Seq(Lines), at \in 1..(Len(text) + 1), ~More
  PROVE  \A b \in Begins : b < at
<1> SUFFICES ASSUME NEW b \in Begins, at <= b PROVE FALSE
  BY DEF Begins
<1>1. PICK k : k \in Lasts(b)
  BY DEF Begins
<1>2. k \in Lasts(at)
  BY <1>1 DEF Lasts, Begins
<1> QED
  BY <1>2 DEF More

-----------------------------------------------------------------------------
(* Numbering.                                                              *)

\* The numbers up to a, and one more line from there, or none, up to q.
LEMMA Extend ==
  ASSUME text \in Seq(Lines), NEW a \in 1..(Len(text) + 1), NEW q \in (a - 1)..Len(text),
         NEW f \in a..(Len(text) + 1), NEW n \in Int, NEW G \in Gs, Numbering(G, a - 1),
         \A i \in a..q : i \in Begins => i = f,
         f \in Begins => n = Number(text[f].mark, "number", G[a - 1]) /\ n > G[a - 1],
         f \notin Begins => n = G[a - 1],
         NEW H, H = [i \in 0..Len(text) |-> IF i < a THEN G[i] ELSE IF i < f THEN G[a - 1] ELSE n]
  PROVE  /\ H \in Gs /\ Numbering(H, q)
         /\ \A i \in 0..(a - 1) : H[i] = G[i]
         /\ \A i \in f..Len(text) : H[i] = n
<1>0. Len(text) \in Nat /\ Begins \subseteq 1..Len(text)
  BY DEF Begins
<1>1. H \in Gs /\ \A i \in 0..(a - 1) : G[i] \in Int
  <2>1. \A i \in 0..Len(text) : G[i] \in Int
    BY DEF Gs
  <2>2. a - 1 \in 0..Len(text)
    BY <1>0
  <2>3. \A i \in 0..Len(text) : (IF i < a THEN G[i] ELSE IF i < f THEN G[a - 1] ELSE n) \in Int
    BY <2>1, <2>2
  <2>4. H \in Gs
    BY <2>3 DEF Gs
  <2> QED
    BY <1>0, <2>1, <2>4
<1>2. /\ \A i \in 0..(a - 1) : H[i] = G[i]
      /\ \A i \in a..(f - 1) : i <= Len(text) => H[i] = G[a - 1]
      /\ \A i \in f..Len(text) : H[i] = n
  BY <1>0
<1>3. H[0] = -1
  <2>1. 0 \in 0..(a - 1)
    OBVIOUS
  <2> QED
    BY <1>2, <2>1 DEF Numbering
<1>4. ASSUME NEW i \in Begins, i <= q PROVE H[i] = Number(text[i].mark, "number", H[i - 1])
  <2>1. CASE i < a
    BY <1>0, <1>2, <1>4, <2>1 DEF Numbering
  <2>2. CASE i >= a
    <3>1. i = f
      BY <1>0, <1>4, <2>2
    <3>2. H[i - 1] = G[a - 1]
      BY <1>0, <1>2, <1>4, <3>1
    <3> QED
      BY <1>0, <1>2, <1>4, <3>1, <3>2
  <2> QED
    BY <1>0, <2>1, <2>2
<1>5. ASSUME NEW i \in 0..q, NEW j \in 0..q, i <= j, \A b \in Begins : ~(i < b /\ b <= j)
      PROVE  H[i] = H[j]
  <2>1. CASE j < a
    BY <1>0, <1>2, <1>5, <2>1 DEF Numbering
  <2>2. CASE j >= a
    <3>1. H[i] = G[a - 1] \/ (i >= f /\ H[i] = n)
      <4>1. CASE i < a
        <5>1. G[i] = G[a - 1]
          BY <1>0, <1>5, <2>2, <4>1 DEF Numbering
        <5> QED
          BY <1>0, <1>2, <1>5, <4>1, <5>1
      <4>2. CASE i >= a
        BY <1>0, <1>2, <1>5, <4>2
      <4> QED
        BY <4>1, <4>2
    <3>2. CASE j < f
      BY <1>0, <1>2, <1>5, <2>2, <3>1, <3>2
    <3>3. CASE j >= f
      <4>1. H[j] = n
        BY <1>0, <1>2, <1>5, <3>3
      <4>2. i < f => f \notin Begins
        BY <1>5, <3>3
      <4> QED
        BY <1>0, <1>5, <3>1, <4>1, <4>2
    <3> QED
      BY <1>0, <1>5, <3>2, <3>3
  <2> QED
    BY <1>0, <1>5, <2>1, <2>2
<1>6. ASSUME NEW i \in 0..q, NEW j \in Begins, i < j, j <= q PROVE H[i] < H[j]
  <2>1. CASE j < a
    BY <1>0, <1>2, <1>6, <2>1 DEF Numbering
  <2>2. CASE j >= a
    <3>1. j = f /\ H[j] = n
      BY <1>0, <1>2, <1>6, <2>2
    <3>2. G[a - 1] < n /\ G[a - 1] \in Int
      BY <1>1, <1>6, <3>1
    <3>3. H[i] <= G[a - 1]
      <4>1. CASE i < a
        <5>1. G[i] <= G[a - 1]
          <6> SUFFICES ASSUME i # a - 1 PROVE G[i] <= G[a - 1]
            BY <1>1
          <6>0. i \in 0..(a - 1) /\ a - 1 \in 0..(a - 1) /\ i < a - 1
            BY <4>1
          <6> DEFINE S == {b \in Begins : i < b /\ b <= a - 1}
          <6>1. CASE S = {}
            <7>1. G[i] = G[a - 1]
              BY <6>0, <6>1 DEF Numbering
            <7> QED
              BY <1>1, <6>0, <7>1
          <6>2. CASE S # {}
            <7>1. S \subseteq Nat /\ (\A b \in S : b <= a - 1) /\ a - 1 \in Nat
              BY <1>0
            <7>2. PICK m \in S : \A b \in S : b <= m
              <8> HIDE DEF S
              <8> QED
                BY <6>2, <7>1, GreatestIs
            <7>3. G[i] < G[m]
              BY <1>0, <6>0, <7>2 DEF Numbering
            <7>4. G[m] = G[a - 1]
              <8>1. \A b \in Begins : ~(m < b /\ b <= a - 1)
                <9> SUFFICES ASSUME NEW b \in Begins, m < b, b <= a - 1 PROVE FALSE
                  OBVIOUS
                <9>1. b \in S
                  BY <1>0, <6>0, <7>2
                <9> QED
                  BY <1>0, <7>2, <9>1
              <8>2. m \in 0..(a - 1) /\ m <= a - 1
                BY <1>0, <7>2
              <8> QED
                BY <6>0, <8>1, <8>2 DEF Numbering
            <7>5. m \in 0..(a - 1)
              BY <1>0, <7>2
            <7> QED
              BY <1>1, <6>0, <7>3, <7>4, <7>5
          <6> QED
            BY <6>1, <6>2
        <5> QED
          BY <1>2, <1>6, <4>1, <5>1
      <4>2. CASE i >= a
        BY <1>0, <1>1, <1>2, <1>6, <3>1, <4>2
      <4> QED
        BY <4>1, <4>2
    <3>4. H[i] \in Int
      <4>1. i \in 0..Len(text)
        BY <1>0, <1>6
      <4> QED
        BY <1>1, <4>1 DEF Gs
    <3> QED
      BY <3>1, <3>2, <3>3, <3>4
  <2> QED
    BY <1>0, <2>1, <2>2
<1>7. Numbering(H, q)
  <2>1. \A i \in Begins : i <= q => H[i] = Number(text[i].mark, "number", H[i - 1])
    BY <1>4
  <2>2. \A i, j \in 0..q : i <= j /\ (\A b \in Begins : ~(i < b /\ b <= j)) => H[i] = H[j]
    BY <1>5, Zenon
  <2>3. \A i \in 0..q, j \in Begins : i < j /\ j <= q => H[i] < H[j]
    BY <1>6
  <2> QED
    BY <1>3, <2>1, <2>2, <2>3, Zenon DEF Numbering
<1> QED
  BY <1>1, <1>2, <1>7

LEMMA Marks ==
  ASSUME text \in Seq(Lines), NEW i \in 1..Len(text)
  PROVE  /\ text[i].mark[1] = "label" => text[i].mark = <<"label", text[i].mark[2]>>
         /\ text[i].mark[1] \in {"num", "far", "start"} => text[i].mark[2] \in Int
<1>1. text[i].mark \in Beginnings
  <2>1. text[i] \in Lines
    OBVIOUS
  <2> QED
    BY <2>1 DEF Lines
<1> DEFINE m == text[i].mark
<1>2. m = <<"blank">> \/ m = <<"text">> \/ m = <<"comment">> \/ m \in {"label"} \X Labels
        \/ m \in {"num", "far", "start"} \X Int
  BY <1>1, Zenon DEF Beginnings
<1>3. m \in {"label"} \X Labels => m = <<"label", m[2]>>
  OBVIOUS
<1>4. m \in {"num", "far", "start"} \X Int => m[1] # "label" /\ m[2] \in Int
  OBVIOUS
<1>5. m \in {"label"} \X Labels => m[1] = "label"
  OBVIOUS
<1>6. /\ m = <<"blank">> => m[1] = "blank"
      /\ m = <<"text">> => m[1] = "text"
      /\ m = <<"comment">> => m[1] = "comment"
  OBVIOUS
<1> HIDE DEF m
<1>7. m[1] = "label" => m = <<"label", m[2]>>
  BY <1>2, <1>3, <1>4, <1>6
<1>8. m[1] \in {"num", "far", "start"} => m[2] \in Int
  BY <1>2, <1>4, <1>5, <1>6
<1> QED
  BY <1>7, <1>8 DEF m

WithLine(ls, f, n) ==
  IF text[f].mark[1] # "label" \/ text[f].mark[2] \in DOMAIN ls THEN ls
  ELSE [l \in DOMAIN ls \cup {text[f].mark[2]} |-> IF l = text[f].mark[2] THEN n ELSE ls[l]]

\* The labels up to a, and that of one more line.
LEMMA OneMoreLabel ==
  ASSUME text \in Seq(Lines), NEW a \in 1..(Len(text) + 1), NEW q \in a..Len(text), NEW f \in a..q,
         NEW n, NEW G, NEW H, NEW ls, NEW new, f \in Begins,
         \A i \in a..q : i \in Begins => i = f,
         LabelsOf(G, a - 1, ls), \A i \in 0..(a - 1) : H[i] = G[i], H[f] = n,
         new = WithLine(ls, f, n)
  PROVE  LabelsOf(H, q, new)
<1>0. Len(text) \in Nat /\ Begins \subseteq 1..Len(text)
  BY DEF Begins
<1> USE DEF WithLine
<1> DEFINE m == text[f].mark
<1>1. \A p \in Begins : p <= q <=> p <= a - 1 \/ p = f
  BY <1>0
<1>2. m[1] = "label" => m = <<"label", m[2]>>
  BY <1>0, Marks
<1>3. \A l : m = <<"label", l>> => m[1] = "label" /\ m[2] = l
  OBVIOUS
<1>4. \A l : l \in DOMAIN new <=> l \in DOMAIN ls \/ m = <<"label", l>>
  <2>1. CASE m[1] # "label"
    BY <2>1, <1>3
  <2>2. CASE m[1] = "label"
    <3>1. \A l : m = <<"label", l>> <=> l = m[2]
      BY <1>2, <1>3, <2>2
    <3> QED
      BY <2>2, <3>1
  <2> QED
    BY <2>1, <2>2
<1>5. \A l : l \in DOMAIN ls <=> \E p \in Begins : p <= a - 1 /\ text[p].mark = <<"label", l>>
  BY DEF LabelsOf
<1>6. ASSUME NEW l
      PROVE  l \in DOMAIN new <=> \E p \in Begins : p <= q /\ text[p].mark = <<"label", l>>
  BY <1>1, <1>4, <1>5
<1>7. ASSUME NEW l, NEW p \in Begins, p <= q, Labelling(p, l) PROVE new[l] = H[p]
  <2>1. text[p].mark = <<"label", l>> /\ \A o \in Begins : text[o].mark = <<"label", l>> => p <= o
    BY <1>7 DEF Labelling
  <2>2. CASE p <= a - 1
    <3>1. l \in DOMAIN ls
      BY <1>5, <2>1, <2>2
    <3>2. new[l] = ls[l]
      <4>1. CASE m[1] # "label" \/ m[2] \in DOMAIN ls
        BY <4>1
      <4>2. CASE ~(m[1] # "label" \/ m[2] \in DOMAIN ls)
        BY <3>1, <4>2
      <4> QED
        BY <4>1, <4>2
    <3>3. ls[l] = G[p]
      BY <1>7, <2>2 DEF LabelsOf
    <3> QED
      BY <1>0, <2>2, <3>2, <3>3
  <2>3. CASE p = f
    <3>1. l \notin DOMAIN ls
      <4> SUFFICES ASSUME l \in DOMAIN ls PROVE FALSE
        OBVIOUS
      <4>1. PICK o \in Begins : o <= a - 1 /\ text[o].mark = <<"label", l>>
        BY <1>5
      <4> QED
        BY <1>0, <2>1, <2>3, <4>1
    <3>2. m[1] = "label" /\ m[2] = l
      BY <1>3, <2>1, <2>3
    <3> QED
      BY <2>3, <3>1, <3>2
  <2> QED
    BY <1>1, <1>7, <2>2, <2>3
<1> QED
  BY <1>6, <1>7 DEF LabelsOf

\* Or of none.
LEMMA NoMoreLabels ==
  ASSUME text \in Seq(Lines), NEW a \in 1..(Len(text) + 1), NEW q \in (a - 1)..Len(text),
         NEW G, NEW H, NEW ls, \A i \in a..q : i \notin Begins,
         LabelsOf(G, a - 1, ls), \A i \in 0..(a - 1) : H[i] = G[i]
  PROVE  LabelsOf(H, q, ls)
<1>0. Len(text) \in Nat /\ Begins \subseteq 1..Len(text)
  BY DEF Begins
<1>1. \A p \in Begins : p <= q <=> p <= a - 1
  BY <1>0
<1>2. \A p \in Begins : p <= q => H[p] = G[p]
  BY <1>0, <1>1
<1>3. \A l : l \in DOMAIN ls <=> \E p \in Begins : p <= q /\ text[p].mark = <<"label", l>>
  BY <1>1 DEF LabelsOf
<1>4. \A l : \A p \in Begins : p <= q /\ Labelling(p, l) => ls[l] = H[p]
  BY <1>1, <1>2 DEF LabelsOf
<1> QED
  BY <1>3, <1>4 DEF LabelsOf

\* The text does not change, nor what is said of it.
LEMMA SameText ==
  ASSUME text' = text
  PROVE  /\ Begins' = Begins /\ Wanted' = Wanted /\ Far' = Far /\ Gs' = Gs
         /\ \A i : Lasts(i)' = Lasts(i) /\ (Solid(i)' <=> Solid(i))
         /\ \A p, l : Labelling(p, l)' = Labelling(p, l)
         /\ \A G, n : Numbering(G, n)' = Numbering(G, n)
         /\ \A G, n, ls : LabelsOf(G, n, ls)' = LabelsOf(G, n, ls)
<1>0. \A i : Lasts(i)' = Lasts(i) /\ (Solid(i)' <=> Solid(i))
  BY DEF Lasts, Solid
<1>1. Begins' = Begins
  BY DEF Begins, Solid, Lasts
<1>2. Wanted' = Wanted
  BY <1>1 DEF Wanted, Something, Solid, Lasts
<1>3. Far' = Far /\ Gs' = Gs
  BY DEF Far, Gs
<1>4. \A p, l : Labelling(p, l)' = Labelling(p, l)
  BY <1>1 DEF Labelling
<1>5. \A G, n : Numbering(G, n)' = Numbering(G, n)
  BY <1>1 DEF Numbering
<1>6. \A G, n, ls : LabelsOf(G, n, ls)' = LabelsOf(G, n, ls)
  BY <1>1, <1>4 DEF LabelsOf
<1> QED
  BY <1>0, <1>1, <1>2, <1>3, <1>4, <1>5, <1>6

-----------------------------------------------------------------------------
(* The steps.                                                              *)

LEMMA FailKeeps ==
  ASSUME B81Inv, Fail
  PROVE  B81Inv'
<1>1. pass' = "failed" /\ text' = text /\ at' = at
  BY DEF Fail
<1>2. B81Type'
  BY DEF B81Inv, B81Type, Fail
<1>3. Boundary'
  BY <1>1 DEF B81Inv, Boundary, Solid
<1>4. SoFar' /\ (~Far => Agree)' /\ WholeListing' /\ Jumps'
  BY <1>1 DEF SoFar, Agree, WholeListing, Jumps
<1> QED
  BY <1>2, <1>3, <1>4 DEF B81Inv

\* What begins before the end of a line read, and what it has.
LEMMA LinesRead ==
  ASSUME B81Type, Boundary, More
  PROVE  /\ {i \in Wanted : i < Past} =
              {i \in Wanted : i < at} \cup (IF ~Commented /\ Exists THEN {First} ELSE {})
         /\ \A i \in {i \in Wanted : i < at} : i < First
<1>0. text \in Seq(Lines) /\ at \in 1..(Len(text) + 1) /\ Begins \subseteq 1..Len(text)
  BY DEF B81Type, Begins
<1>1. /\ First \in at..Len(text) /\ Past \in (First + 1)..(Len(text) + 1)
      /\ Past - 1 = Earliest(Lasts(First))
      /\ \A i \in at..(Past - 1) : i \in Begins <=> i = First /\ ~Commented
  BY <1>0, Read
<1>2. Exists <=> Something(First)
  BY DEF Exists, HasMore, Something
<1>3. ASSUME NEW i \in Begins
      PROVE  i < Past <=> i < at \/ (i = First /\ ~Commented)
  BY <1>0, <1>1
<1>4. ~Commented => First \in Begins
  BY <1>1
<1>5. \A i : i \in {j \in Wanted : j < Past} <=>
              i \in {j \in Wanted : j < at} \/ (i = First /\ ~Commented /\ Exists)
  BY <1>2, <1>3, <1>4 DEF Wanted
<1>6. {i \in Wanted : i < Past} =
        {i \in Wanted : i < at} \cup (IF ~Commented /\ Exists THEN {First} ELSE {})
  BY <1>5
<1>7. \A i \in {j \in Wanted : j < at} : i < First
  BY <1>0, <1>1 DEF Wanted
<1> QED
  BY <1>6, <1>7

\* A line passed over, or numbered in the first pass.
LEMMA OneMore ==
  ASSUME B81Type, Boundary, More, NEW G \in Gs, Numbering(G, at - 1), NEW n \in Int,
         ~Commented => n = Number(Mark, "number", G[at - 1]) /\ n > G[at - 1],
         Commented => n = G[at - 1], NEW ls,
         LabelsOf(G, at - 1, labels),
         ls = IF Commented THEN labels ELSE WithLabel(n)
  PROVE  \E H \in Gs : Numbering(H, Past - 1) /\ LabelsOf(H, Past - 1, ls) /\ n = H[Past - 1]
<1>0. text \in Seq(Lines) /\ at \in 1..(Len(text) + 1)
  BY DEF B81Type
<1>1. /\ First \in at..Len(text) /\ Past \in (First + 1)..(Len(text) + 1)
      /\ \A i \in at..(Past - 1) : i \in Begins <=> i = First /\ ~Commented
  BY <1>0, Read
<1>2. /\ Past - 1 \in (at - 1)..Len(text) /\ First \in at..(Len(text) + 1)
      /\ First \in at..(Past - 1) /\ Past - 1 \in First..Len(text) /\ Past - 1 \in at..Len(text)
  BY <1>0, <1>1
<1>3. First \in Begins <=> ~Commented
  BY <1>1, <1>2
<1>4. /\ First \in Begins => n = Number(text[First].mark, "number", G[at - 1]) /\ n > G[at - 1]
      /\ First \notin Begins => n = G[at - 1]
      /\ \A i \in at..(Past - 1) : i \in Begins => i = First
  BY <1>1, <1>3 DEF Mark
<1> DEFINE H == [i \in 0..Len(text) |-> IF i < at THEN G[i] ELSE IF i < First THEN G[at - 1] ELSE n]
<1>5. /\ H \in Gs /\ Numbering(H, Past - 1)
      /\ \A i \in 0..(at - 1) : H[i] = G[i]
      /\ \A i \in First..Len(text) : H[i] = n
  <2>1. H = [i \in 0..Len(text) |-> IF i < at THEN G[i] ELSE IF i < First THEN G[at - 1] ELSE n]
    OBVIOUS
  <2> HIDE DEF H
  <2> QED
    BY <1>0, <1>2, <1>4, <2>1, Extend
<1> HIDE DEF H
<1>6. H[Past - 1] = n /\ H[First] = n
  BY <1>2, <1>5
<1>7. LabelsOf(H, Past - 1, ls)
  <2>1. CASE Commented
    <3>1. \A i \in at..(Past - 1) : i \notin Begins
      BY <1>1, <2>1
    <3>2. ls = labels
      BY <2>1
    <3> QED
      BY <1>0, <1>2, <1>5, <3>1, <3>2, NoMoreLabels
  <2>2. CASE ~Commented
    <3>1. ls = WithLine(labels, First, n)
      BY <2>2 DEF WithLabel, Mark, WithLine
    <3>2. First \in Begins /\ at \in 1..(Len(text) + 1) /\ Past - 1 \in at..Len(text)
      BY <1>0, <1>2, <1>3, <2>2
    <3> QED
      BY <1>0, <1>2, <1>4, <1>5, <1>6, <3>1, <3>2, OneMoreLabel
  <2> QED
    BY <2>1, <2>2
<1> QED
  BY <1>5, <1>6, <1>7

\* The numbers in the second pass are those of the first.
LEMMA SameNumber ==
  ASSUME B81Type, Boundary, More, ~Commented, ~Far, NEW G \in Gs, Numbering(G, Len(text)),
         current = G[at - 1]
  PROVE  G[First] = Number(Mark, "convert", current) /\ G[Past - 1] = G[First]
<1>0. text \in Seq(Lines) /\ at \in 1..(Len(text) + 1) /\ Begins \subseteq 1..Len(text)
  BY DEF B81Type, Begins
<1>1. /\ First \in at..Len(text) /\ Past \in (First + 1)..(Len(text) + 1)
      /\ \A i \in at..(Past - 1) : i \in Begins <=> i = First
  BY <1>0, Read
<1>2. First \in Begins /\ First <= Len(text)
  BY <1>0, <1>1
<1>3. G[First] = Number(Mark, "number", G[First - 1])
  BY <1>2 DEF Numbering, Mark
<1>4. G[at - 1] = G[First - 1]
  <2>1. at - 1 \in 0..Len(text) /\ First - 1 \in 0..Len(text) /\ at - 1 <= First - 1
    BY <1>0, <1>1
  <2>2. \A b \in Begins : ~(at - 1 < b /\ b <= First - 1)
    BY <1>0, <1>1
  <2> QED
    BY <2>1, <2>2 DEF Numbering
<1>5. G[First] = G[Past - 1]
  <2>1. First \in 0..Len(text) /\ Past - 1 \in 0..Len(text) /\ First <= Past - 1
    BY <1>0, <1>1
  <2>2. \A b \in Begins : ~(First < b /\ b <= Past - 1)
    BY <1>0, <1>1
  <2> QED
    BY <2>1, <2>2 DEF Numbering
<1>6. Mark[1] # "far"
  BY <1>0, <1>2 DEF Far, Mark
<1>7. Number(Mark, "number", current) = Number(Mark, "convert", current)
  BY <1>6 DEF Number, Numbered
<1> QED
  BY <1>3, <1>4, <1>5, <1>7

\* Numbers grow.
LEMMA NumberGrows ==
  ASSUME B81Type, More, Boundary, InOrder(Mark, pass, current)
  PROVE  Number(Mark, pass, current) \in Int /\ Number(Mark, pass, current) > current
<1>1. current \in Int /\ LINE_INC \in Nat /\ LINE_INC > 0
  BY B81Bounds DEF B81Type
<1>2. Mark[1] \in {"num", "far"} => Mark[2] \in Int
  <2>1. First \in 1..Len(text) /\ text \in Seq(Lines)
    BY Read DEF B81Type
  <2> QED
    BY <2>1, Marks DEF Mark
<1> DEFINE m == Mark
<1> HIDE DEF m
<1>3. CASE Numbered(m, pass)
  BY <1>1, <1>2, <1>3 DEF InOrder, Number, Numbered, m
<1>4. CASE ~Numbered(m, pass)
  BY <1>1, <1>4 DEF Number, m
<1> QED
  BY <1>3, <1>4

LEMMA CommentKeeps ==
  ASSUME B81Inv, Comment
  PROVE  B81Inv'
<1>0. /\ B81Type /\ Boundary /\ More /\ Commented /\ text \in Seq(Lines) /\ at \in 1..(Len(text) + 1)
      /\ pass \in {"number", "convert"} /\ at' = Past
      /\ text' = text /\ pass' = pass /\ current' = current /\ labels' = labels /\ prog' = prog
      /\ pos' = pos /\ nxtlin' = nxtlin
  BY DEF B81Inv, B81Type, Comment
<1>1. /\ First \in at..Len(text) /\ Past \in (First + 1)..(Len(text) + 1)
      /\ Solid(Past - 1) /\ ~text[Past - 1].cont
      /\ \A i \in at..(Past - 1) : i \notin Begins
  BY <1>0, Read
<1>2. startLine' \in Int
  <2>1. Mark[1] = "start" => Mark[2] \in Int
    <3>1. First \in 1..Len(text)
      BY <1>0, <1>1
    <3> QED
      BY <1>0, <3>1, Marks DEF Mark
  <2> QED
    BY <2>1 DEF Comment, B81Inv, B81Type
<1>3. B81Type'
  <2>1. Past \in 1..(Len(text) + 1)
    BY <1>0, <1>1
  <2> QED
    BY <1>0, <1>2, <2>1 DEF B81Type
<1>4. Boundary'
  BY <1>0, <1>1 DEF Boundary, Solid
<1>5. SoFar'
  <2>1. {i \in Wanted : i < Past} = {i \in Wanted : i < at}
    BY <1>0, LinesRead
  <2>2. Wanted' = Wanted
    BY <1>0, SameText
  <2>3. {i \in Wanted' : i < at'} = {i \in Wanted : i < at}
    BY <1>0, <2>1, <2>2
  <2>4. SoFar
    BY DEF B81Inv
  <2> QED
    BY <1>0, <2>3, <2>4 DEF SoFar, Increasing, OwnNumbers
<1>6. ASSUME ~Far, pass = "number" PROVE Agree'
  <2>1. PICK G \in Gs : Numbering(G, at - 1) /\ LabelsOf(G, at - 1, labels) /\ current = G[at - 1]
    BY <1>6 DEF B81Inv, Agree, FirstOf
  <2>2. PICK H \in Gs : Numbering(H, Past - 1) /\ LabelsOf(H, Past - 1, labels) /\ current = H[Past - 1]
    BY <1>0, <2>1, OneMore DEF B81Type
  <2>3. /\ Begins' = Begins /\ Gs' = Gs
    BY <1>0, SameText
  <2>4. FirstOf(H)'
    BY <1>0, <2>2, <2>3 DEF FirstOf, Numbering, LabelsOf, Labelling
  <2> QED
    BY <1>0, <1>6, <2>3, <2>4 DEF Agree
<1>7. ASSUME ~Far, pass = "convert" PROVE Agree'
  <2>1. PICK G \in Gs : SecondOf(G)
    BY <1>7 DEF B81Inv, Agree
  <2>2. Begins' = Begins /\ Gs' = Gs
    BY <1>0, SameText
  <2>3. G[Past - 1] = G[at - 1]
    <3>1. at - 1 \in 0..Len(text) /\ Past - 1 \in 0..Len(text) /\ at - 1 <= Past - 1
      BY <1>0, <1>1
    <3>2. \A b \in Begins : ~(at - 1 < b /\ b <= Past - 1)
      <4>1. Begins \subseteq 1..Len(text)
        BY DEF Begins
      <4> QED
        BY <1>0, <1>1, <4>1
    <3> QED
      BY <2>1, <3>1, <3>2 DEF SecondOf, Numbering
  <2>4. SecondOf(G)'
    <3>1. Numbering(G, Len(text))'
      BY <1>0, <2>1, <2>2 DEF SecondOf, Numbering
    <3>2. LabelsOf(G, Len(text), labels)'
      BY <1>0, <2>1, <2>2 DEF SecondOf, LabelsOf, Labelling
    <3>3. LinesOf(G)'
      BY <1>0, <2>1, <2>2 DEF SecondOf, LinesOf
    <3>4. (current = G[at - 1])'
      BY <1>0, <2>1, <2>3 DEF SecondOf
    <3> QED
      BY <3>1, <3>2, <3>3, <3>4 DEF SecondOf
  <2> QED
    BY <1>0, <1>7, <2>2, <2>4 DEF Agree
<1>8. (~Far => Agree)'
  <2>1. Far' = Far
    BY <1>0, SameText
  <2> QED
    BY <1>0, <1>6, <1>7, <2>1
<1>9. WholeListing' /\ Jumps'
  BY <1>0 DEF WholeListing, Jumps
<1> QED
  BY <1>3, <1>4, <1>5, <1>8, <1>9 DEF B81Inv

LEMMA NumberLineKeeps ==
  ASSUME B81Inv, NumberLine
  PROVE  B81Inv'
<1> DEFINE n == Number(Mark, pass, current)
<1>0. /\ B81Type /\ Boundary /\ More /\ ~Commented /\ text \in Seq(Lines) /\ at \in 1..(Len(text) + 1)
      /\ pass = "number"
  BY DEF B81Inv, B81Type, NumberLine
<1> SUFFICES ASSUME ~Fail PROVE B81Inv'
  BY FailKeeps
<1>1. /\ InOrder(Mark, pass, current)
      /\ current' = n /\ labels' = WithLabel(n) /\ at' = Past
      /\ UNCHANGED <<text, pass, startLine, prog, pos, nxtlin>>
  BY DEF NumberLine
<1>2. /\ First \in at..Len(text) /\ Past \in (First + 1)..(Len(text) + 1)
      /\ Solid(Past - 1) /\ ~text[Past - 1].cont
  BY <1>0, Read
<1>3. n \in Int /\ n > current
  BY <1>0, <1>1, <1>2, NumberGrows
<1> HIDE DEF n
<1>4. B81Type'
  <2>1. Past \in 1..(Len(text) + 1)
    BY <1>0, <1>2
  <2> QED
    BY <1>0, <1>1, <1>3, <2>1 DEF B81Type
<1>5. Boundary'
  BY <1>1, <1>2 DEF Boundary, Solid
<1>6. SoFar'
  BY <1>0, <1>1 DEF SoFar, B81Inv
<1>7. ASSUME ~Far PROVE Agree'
  <2>1. PICK G \in Gs : Numbering(G, at - 1) /\ LabelsOf(G, at - 1, labels) /\ current = G[at - 1]
    BY <1>0, <1>7 DEF B81Inv, Agree, FirstOf
  <2>2. n = Number(Mark, "number", G[at - 1]) /\ n > G[at - 1]
    BY <1>0, <1>3, <2>1 DEF n
  <2>3. PICK H \in Gs : Numbering(H, Past - 1) /\ LabelsOf(H, Past - 1, labels') /\ n = H[Past - 1]
    <3>1. labels' = IF Commented THEN labels ELSE WithLabel(n)
      BY <1>0, <1>1
    <3> HIDE DEF n
    <3> QED
      BY <1>0, <1>3, <2>1, <2>2, <3>1, OneMore
  <2>4. Begins' = Begins /\ Gs' = Gs
    BY <1>1, SameText
  <2>5. FirstOf(H)'
    <3>1. text' = text /\ at' = Past /\ current' = n
      BY <1>1
    <3>2. Numbering(H, at - 1)'
      BY <2>3, <2>4, <3>1 DEF Numbering
    <3>3. LabelsOf(H, at - 1, labels)'
      BY <2>3, <2>4, <3>1 DEF LabelsOf, Labelling
    <3> QED
      BY <2>3, <3>1, <3>2, <3>3 DEF FirstOf
  <2> QED
    BY <1>0, <1>1, <2>4, <2>5 DEF Agree
<1>8. Far' = Far
  BY <1>1, SameText
<1>9. WholeListing' /\ Jumps'
  BY <1>0, <1>1 DEF WholeListing, Jumps
<1> QED
  BY <1>4, <1>5, <1>6, <1>7, <1>8, <1>9 DEF B81Inv

LEMMA SecondPassKeeps ==
  ASSUME B81Inv, SecondPass
  PROVE  B81Inv'
<1> SUFFICES ASSUME ~Fail PROVE B81Inv'
  BY FailKeeps
<1>0. /\ text \in Seq(Lines) /\ at \in 1..(Len(text) + 1) /\ Len(text) \in Nat /\ ~More /\ pass = "number"
      /\ pass' = "convert" /\ at' = 1 /\ current' = -1
      /\ UNCHANGED <<text, labels, startLine, prog, nxtlin>>
      /\ B81Type /\ SoFar
  BY DEF B81Inv, B81Type, SecondPass
<1>1. B81Type' /\ Boundary'
  <2>1. -1 \in Int /\ 1 \in 1..(Len(text) + 1)
    BY <1>0
  <2> QED
    BY <1>0, <2>1 DEF B81Type, Boundary
<1>2. SoFar'
  <2>1. prog' = <<>> /\ DOMAIN prog' = {}
    BY <1>0 DEF SoFar
  <2>2. {i \in Wanted' : i < at'} = {}
    BY <1>0, SameText DEF Wanted, Begins
  <2> QED
    BY <1>0, <2>1, <2>2 DEF SoFar, Increasing, OwnNumbers
<1>3. ASSUME ~Far PROVE Agree'
  <2>1. PICK G \in Gs : Numbering(G, at - 1) /\ LabelsOf(G, at - 1, labels) /\ current = G[at - 1]
    BY <1>0, <1>3 DEF B81Inv, Agree, FirstOf
  <2>2. \A b \in Begins : b < at
    BY <1>0, NoMore
  <2>3. PICK H \in Gs : Numbering(H, Len(text)) /\ \A i \in 0..(at - 1) : H[i] = G[i]
    <3> DEFINE f == Len(text) + 1
               n == G[at - 1]
               K == [i \in 0..Len(text) |-> IF i < at THEN G[i] ELSE IF i < f THEN G[at - 1] ELSE n]
    <3>1. f \in at..(Len(text) + 1) /\ f \notin Begins /\ Len(text) \in (at - 1)..Len(text)
      BY <1>0 DEF Begins
    <3>2. n \in Int /\ n = G[at - 1]
      <4>1. at - 1 \in 0..Len(text)
        BY <1>0
      <4> QED
        BY <4>1 DEF Gs
    <3>3. \A i \in at..Len(text) : i \in Begins => i = f
      BY <1>0, <2>2
    <3>4. K = [i \in 0..Len(text) |-> IF i < at THEN G[i] ELSE IF i < f THEN G[at - 1] ELSE n]
      OBVIOUS
    <3> HIDE DEF f, n, K
    <3>5. /\ f \in Begins => n = Number(text[f].mark, "number", G[at - 1]) /\ n > G[at - 1]
          /\ f \notin Begins => n = G[at - 1]
          /\ text \in Seq(Lines) /\ at \in 1..(Len(text) + 1)
      BY <1>0, <3>1, <3>2
    <3>6. K \in Gs /\ Numbering(K, Len(text)) /\ \A i \in 0..(at - 1) : K[i] = G[i]
      BY <2>1, <3>1, <3>2, <3>3, <3>4, <3>5, Extend
    <3> QED
      BY <3>6
  <2>4. LabelsOf(H, Len(text), labels)
    <3>1. \A i \in at..Len(text) : i \notin Begins
      BY <1>0, <2>2
    <3>2. Len(text) \in (at - 1)..Len(text)
      BY <1>0
    <3> QED
      BY <1>0, <2>1, <2>3, <3>1, <3>2, NoMoreLabels
  <2>5. Begins' = Begins /\ Gs' = Gs
    BY <1>0, SameText
  <2>6. H[at' - 1] = -1
    BY <1>0, <2>3 DEF Numbering
  <2>7. LinesOf(H)'
    <3>1. prog' = <<>> /\ DOMAIN prog' = {}
      BY <1>0 DEF SoFar
    <3> QED
      BY <3>1 DEF LinesOf
  <2>8. SecondOf(H)'
    <3>0. text' = text /\ labels' = labels /\ current' = -1
      BY <1>0
    <3>1. Numbering(H, Len(text))'
      BY <2>3, <2>5, <3>0 DEF Numbering
    <3>2. LabelsOf(H, Len(text), labels)'
      BY <2>4, <2>5, <3>0 DEF LabelsOf, Labelling
    <3> QED
      BY <2>6, <2>7, <3>0, <3>1, <3>2 DEF SecondOf
  <2> QED
    BY <1>0, <2>3, <2>5, <2>8 DEF Agree
<1>4. Far' = Far
  BY <1>0, SameText
<1>5. WholeListing' /\ Jumps'
  BY <1>0 DEF WholeListing, Jumps
<1> QED
  BY <1>1, <1>2, <1>3, <1>4, <1>5 DEF B81Inv

\* What a line adds to the program, if it is one.
LEMMA ConvertedLine ==
  ASSUME B81Inv, ConvertLine, ~Fail, NEW n, n = Number(Mark, pass, current)
  PROVE  /\ pass = "convert" /\ More /\ ~Commented /\ InOrder(Mark, pass, current)
         /\ current' = n /\ at' = Past /\ pass' \in {"convert", "failed"}
         /\ UNCHANGED <<text, labels, startLine, nxtlin>>
         /\ ~Exists => prog' = prog
         /\ Exists => \E r : /\ prog' = Append(prog, r) /\ r.num = n /\ r.from = First
                             /\ \A j \in r.jumps : j.label \in DOMAIN labels /\ j.to = labels[j.label]
<1>1. pass = "convert" /\ More /\ ~Commented /\ InOrder(Mark, pass, current)
  BY DEF ConvertLine
<1>2. PICK b \in {Body} :
        /\ ~Fails(b)
        /\ IF ~Exists THEN UNCHANGED <<prog, pos>>
           ELSE \E out \in {Converted(b)} :
                  /\ pos' = pos + Bytes(out)
                  /\ prog' = Append(prog, [num |-> n, from |-> First, out |-> out,
                                           jumps |-> {[label |-> l, to |-> labels[l]] : l \in Targets(b)}])
        /\ current' = n /\ at' = Past
        /\ pass' = IF pos' > B81_MAX_P THEN "failed" ELSE pass
        /\ UNCHANGED <<text, labels, startLine, nxtlin>>
  BY <1>1 DEF ConvertLine
<1>3. Targets(b) \subseteq DOMAIN labels
  BY <1>2 DEF Fails
<1>4. CASE ~Exists
  BY <1>1, <1>2, <1>4 DEF B81Inv, B81Type
<1>5. CASE Exists
  <2>1. PICK out : /\ pos' = pos + Bytes(out)
                   /\ prog' = Append(prog, [num |-> n, from |-> First, out |-> out,
                                            jumps |-> {[label |-> l, to |-> labels[l]] : l \in Targets(b)}])
    BY <1>2, <1>5
  <2> DEFINE r == [num |-> n, from |-> First, out |-> out,
                   jumps |-> {[label |-> l, to |-> labels[l]] : l \in Targets(b)}]
  <2>2. r.num = n /\ r.from = First /\ r.jumps = {[label |-> l, to |-> labels[l]] : l \in Targets(b)}
    OBVIOUS
  <2>3. prog' = Append(prog, r)
    BY <2>1
  <2> HIDE DEF r
  <2>4. \A j \in r.jumps : j.label \in DOMAIN labels /\ j.to = labels[j.label]
    BY <1>3, <2>2
  <2> QED
    BY <1>1, <1>2, <1>5, <2>2, <2>3, <2>4
<1> QED
  BY <1>4, <1>5

\* A sequence with one more element.
LEMMA OneMoreLine ==
  ASSUME NEW s, NEW P, s \in Seq(P), NEW e, NEW t, t = Append(s, e)
  PROVE  /\ \E Q : t \in Seq(Q)
         /\ Len(s) \in Nat /\ DOMAIN s = 1..Len(s) /\ DOMAIN t = 1..(Len(s) + 1)
         /\ \A i \in 1..Len(s) : t[i] = s[i]
         /\ t[Len(s) + 1] = e
<1> DEFINE Q == P \cup {e}
<1>1. s \in Seq(Q) /\ e \in Q
  OBVIOUS
<1> HIDE DEF Q
<1>2. t \in Seq(Q)
  BY <1>1
<1> QED
  BY <1>1, <1>2

LEMMA ConvertLineKeeps ==
  ASSUME B81Inv, ConvertLine
  PROVE  B81Inv'
<1> SUFFICES ASSUME ~Fail PROVE B81Inv'
  BY FailKeeps
<1>0. /\ B81Type /\ Boundary /\ SoFar /\ text \in Seq(Lines) /\ at \in 1..(Len(text) + 1)
      /\ Begins \subseteq 1..Len(text)
  BY DEF B81Inv, B81Type, Begins
<1>1. PICK n : n = Number(Mark, pass, current)
  OBVIOUS
<1>2. /\ pass = "convert" /\ More /\ ~Commented /\ InOrder(Mark, pass, current)
      /\ current' = n /\ at' = Past /\ pass' \in {"convert", "failed"}
      /\ text' = text /\ labels' = labels /\ startLine' = startLine /\ nxtlin' = nxtlin
  BY <1>1, ConvertedLine
<1>3. /\ First \in at..Len(text) /\ Past \in (First + 1)..(Len(text) + 1)
      /\ Solid(Past - 1) /\ ~text[Past - 1].cont /\ First \in Begins
  BY <1>0, <1>2, Read
<1>4. n \in Int /\ current \in Int /\ n > current
  BY <1>0, <1>1, <1>2, NumberGrows DEF B81Type
<1>5. PICK P : prog \in Seq(P)
  BY <1>0 DEF B81Type
<1>6. Wanted' = Wanted /\ Begins' = Begins /\ Gs' = Gs /\ Far' = Far
  BY <1>2, SameText
<1>7. /\ ~Exists => prog' = prog
      /\ Exists => \E r : /\ prog' = Append(prog, r) /\ r.num = n /\ r.from = First
                          /\ \A j \in r.jumps : j.label \in DOMAIN labels /\ j.to = labels[j.label]
  BY <1>1, ConvertedLine, Zenon
<1>8. Boundary'
  BY <1>2, <1>3 DEF Boundary, Solid
<1>9. \E Q : prog' \in Seq(Q)
  BY <1>5, <1>7, OneMoreLine
<1>10. B81Type'
  <2>1. Past \in 1..(Len(text) + 1) /\ pass' \in {"number", "convert", "done", "failed"}
    BY <1>0, <1>2, <1>3
  <2> QED
    BY <1>0, <1>2, <1>4, <1>9, <2>1 DEF B81Type
<1>11. SoFar'
  <2> SUFFICES ASSUME pass' = "convert"
               PROVE  /\ {prog'[i].from : i \in DOMAIN prog'} = {i \in Wanted : i < Past}
                      /\ \A i \in DOMAIN prog' : prog'[i].num \in Int /\ prog'[i].num <= n
                      /\ Increasing' /\ OwnNumbers'
    BY <1>2, <1>6 DEF SoFar
  <2>1. /\ {i \in Wanted : i < Past} =
             {i \in Wanted : i < at} \cup (IF Exists THEN {First} ELSE {})
        /\ \A i \in {j \in Wanted : j < at} : i < First
    BY <1>0, <1>2, LinesRead
  <2>2. /\ {prog[i].from : i \in DOMAIN prog} = {i \in Wanted : i < at}
        /\ \A i \in DOMAIN prog : prog[i].num \in Int /\ prog[i].num <= current
        /\ Increasing /\ OwnNumbers
    BY <1>0, <1>2 DEF SoFar
  <2>3. CASE ~Exists
    <3>1. prog' = prog
      BY <1>7, <2>3
    <3>2. {i \in Wanted : i < Past} = {i \in Wanted : i < at}
      BY <2>1, <2>3
    <3>3. \A i \in DOMAIN prog : prog[i].num \in Int /\ prog[i].num <= n
      BY <1>4, <2>2
    <3> QED
      BY <1>2, <2>2, <3>1, <3>2, <3>3 DEF Increasing, OwnNumbers
  <2>4. CASE Exists
    <3>1. PICK r : prog' = Append(prog, r) /\ r.num = n /\ r.from = First
      BY <1>7, <2>4
    <3>2. /\ Len(prog) \in Nat /\ DOMAIN prog = 1..Len(prog) /\ DOMAIN prog' = 1..(Len(prog) + 1)
          /\ \A i \in 1..Len(prog) : prog'[i] = prog[i]
          /\ prog'[Len(prog) + 1] = r
      BY <1>5, <3>1, OneMoreLine
    <3>3. {prog'[i].from : i \in DOMAIN prog'} = {prog[i].from : i \in DOMAIN prog} \cup {First}
      <4>1. \A i \in DOMAIN prog' : prog'[i].from \in {prog[k].from : k \in DOMAIN prog} \cup {First}
        BY <3>1, <3>2
      <4>2. \A k \in DOMAIN prog : prog[k].from \in {prog'[i].from : i \in DOMAIN prog'}
        BY <3>2
      <4>3. First \in {prog'[i].from : i \in DOMAIN prog'}
        BY <3>1, <3>2
      <4> QED
        BY <4>1, <4>2, <4>3
    <3>4. {prog'[i].from : i \in DOMAIN prog'} = {i \in Wanted : i < Past}
      BY <2>1, <2>2, <2>4, <3>3
    <3>5. \A i \in DOMAIN prog' : prog'[i].num \in Int /\ prog'[i].num <= n
      BY <1>4, <2>2, <3>1, <3>2
    <3>6. Increasing'
      <4>1. \A i \in 1..Len(prog) : prog[i].from < First /\ prog[i].num < n
        <5>1. \A i \in DOMAIN prog : prog[i].from \in {j \in Wanted : j < at}
          BY <2>2
        <5> QED
          BY <1>4, <2>1, <2>2, <3>2, <5>1
      <4> SUFFICES ASSUME NEW i \in DOMAIN prog', NEW j \in DOMAIN prog', i < j
                   PROVE  prog'[i].from < prog'[j].from /\ prog'[i].num < prog'[j].num
        BY DEF Increasing
      <4>2. CASE j = Len(prog) + 1
        <5>1. i \in 1..Len(prog)
          BY <3>2, <4>2
        <5> QED
          BY <3>1, <3>2, <4>1, <4>2, <5>1
      <4>3. CASE j # Len(prog) + 1
        <5>1. i \in 1..Len(prog) /\ j \in 1..Len(prog)
          BY <3>2, <4>3
        <5> QED
          BY <2>2, <3>2, <5>1 DEF Increasing
      <4> QED
        BY <4>2, <4>3
    <3>7. OwnNumbers'
      <4>1. Mark[1] \in {"num", "far"} => n = Mark[2]
        BY <1>1, <1>2 DEF Number, Numbered
      <4> SUFFICES ASSUME NEW i \in DOMAIN prog', text[prog'[i].from].mark[1] \in {"num", "far"}
                   PROVE  prog'[i].num = text[prog'[i].from].mark[2]
        BY <1>2 DEF OwnNumbers
      <4>2. CASE i = Len(prog) + 1
        BY <3>1, <3>2, <4>1, <4>2 DEF Mark
      <4>3. CASE i # Len(prog) + 1
        <5>1. i \in 1..Len(prog)
          BY <3>2, <4>3
        <5> QED
          BY <2>2, <3>2, <5>1 DEF OwnNumbers
      <4> QED
        BY <4>2, <4>3
    <3> QED
      BY <3>4, <3>5, <3>6, <3>7
  <2> QED
    BY <2>3, <2>4
<1>12. ASSUME ~Far PROVE Agree'
  <2> SUFFICES ASSUME pass' = "convert" PROVE \E G \in Gs : SecondOf(G)'
    BY <1>2, <1>6 DEF Agree
  <2>1. PICK G \in Gs : SecondOf(G)
    BY <1>2, <1>12 DEF B81Inv, Agree
  <2>2. G[First] = n /\ G[Past - 1] = n
    BY <1>0, <1>1, <1>2, <1>12, <2>1, SameNumber DEF SecondOf
  <2>3. Numbering(G, Len(text))'
    BY <1>2, <1>6, <2>1 DEF SecondOf, Numbering
  <2>4. LabelsOf(G, Len(text), labels)'
    BY <1>2, <1>6, <2>1 DEF SecondOf, LabelsOf, Labelling
  <2>5. LinesOf(G)'
    <3>1. LinesOf(G)
      BY <2>1 DEF SecondOf
    <3>2. CASE ~Exists
      BY <1>2, <1>6, <1>7, <3>1, <3>2 DEF LinesOf
    <3>3. CASE Exists
      <4>1. PICK r : /\ prog' = Append(prog, r) /\ r.num = n /\ r.from = First
                     /\ \A j \in r.jumps : j.label \in DOMAIN labels /\ j.to = labels[j.label]
        BY <1>7, <3>3
      <4>2. /\ Len(prog) \in Nat /\ DOMAIN prog = 1..Len(prog) /\ DOMAIN prog' = 1..(Len(prog) + 1)
            /\ \A i \in 1..Len(prog) : prog'[i] = prog[i]
            /\ prog'[Len(prog) + 1] = r
        BY <1>5, <4>1, OneMoreLine
      <4> SUFFICES ASSUME NEW k \in DOMAIN prog'
                   PROVE  /\ prog'[k].from \in Begins /\ prog'[k].num = G[prog'[k].from]
                          /\ \A j \in prog'[k].jumps : j.label \in DOMAIN labels /\ j.to = labels[j.label]
        BY <1>2, <1>6 DEF LinesOf
      <4>3. CASE k = Len(prog) + 1
        BY <1>3, <2>2, <4>1, <4>2, <4>3
      <4>4. CASE k # Len(prog) + 1
        <5>1. k \in 1..Len(prog)
          BY <4>2, <4>4
        <5> QED
          BY <3>1, <4>2, <5>1 DEF LinesOf
      <4> QED
        BY <4>3, <4>4
    <3> QED
      BY <3>2, <3>3
  <2>6. (current = G[at - 1])'
    BY <1>2, <2>2
  <2> QED
    BY <2>1, <2>3, <2>4, <2>5, <2>6 DEF SecondOf
<1>13. WholeListing' /\ Jumps'
  BY <1>2 DEF WholeListing, Jumps
<1> QED
  BY <1>6, <1>8, <1>10, <1>11, <1>12, <1>13 DEF B81Inv

LEMMA TrailerKeeps ==
  ASSUME B81Inv, Trailer
  PROVE  B81Inv'
<1> SUFFICES ASSUME ~Fail PROVE B81Inv'
  BY FailKeeps
<1> DEFINE from == {i \in DOMAIN prog : startLine >= 0 /\ prog[i].num >= startLine}
<1>0. /\ B81Type /\ SoFar /\ text \in Seq(Lines) /\ at \in 1..(Len(text) + 1)
      /\ pass = "convert" /\ ~More /\ pass' = "done"
      /\ nxtlin' = IF from = {} THEN 0 ELSE Earliest(from)
      /\ UNCHANGED <<text, at, current, labels, startLine, prog>>
  BY DEF B81Inv, B81Type, Trailer
<1>1. /\ {prog[i].from : i \in DOMAIN prog} = {i \in Wanted : i < at}
      /\ \A i \in DOMAIN prog : prog[i].num \in Int
      /\ Increasing /\ OwnNumbers
  BY <1>0 DEF SoFar
<1>2. {i \in Wanted : i < at} = Wanted
  BY <1>0, NoMore DEF Wanted
<1>3. PICK P : prog \in Seq(P)
  BY <1>0 DEF B81Type
<1>4. startLine \in Int /\ DOMAIN prog \subseteq Nat \ {0}
  BY <1>0, <1>3 DEF B81Type
<1>5. from # {} => Earliest(from) \in from /\ \A j \in from : Earliest(from) <= j
  <2>1. from \subseteq Nat
    BY <1>4
  <2> HIDE DEF from
  <2> QED
    BY <2>1, LeastIs
<1>6. nxtlin' \in Nat /\ (nxtlin' # 0 => from # {} /\ nxtlin' = Earliest(from)) /\ (nxtlin' = 0 => from = {})
  BY <1>0, <1>4, <1>5
<1>7. B81Type' /\ Boundary'
  <2>1. Boundary
    BY DEF B81Inv
  <2> QED
    BY <1>0, <1>6, <2>1 DEF B81Type, Boundary, Solid
<1>8. SoFar' /\ Agree'
  BY <1>0 DEF SoFar, Agree
<1>9. WholeListing'
  <2>1. {prog[i].from : i \in DOMAIN prog} =
          {i \in Begins : text[i].mark[1] = "text" \/ text[i].body # <<>> \/ text[i].cont}
    BY <1>1, <1>2 DEF Wanted, Something
  <2>2. nxtlin' = 0 <=> startLine < 0 \/ \A i \in DOMAIN prog : prog[i].num < startLine
    <3>1. from = {} <=> startLine < 0 \/ \A i \in DOMAIN prog : prog[i].num < startLine
      BY <1>1, <1>4
    <3> QED
      BY <1>6, <3>1
  <2>3. ASSUME nxtlin' # 0, NEW i \in DOMAIN prog, prog[i].num >= startLine
        PROVE  prog[nxtlin'].num <= prog[i].num
    <3>1. i \in from /\ nxtlin' \in from /\ nxtlin' <= i
      <4>1. nxtlin' \in from
        BY <1>5, <1>6, <2>3
      <4>2. i \in from
        BY <2>3, <4>1
      <4> HIDE DEF from
      <4> QED
        BY <1>5, <1>6, <2>3, <4>1, <4>2
    <3> QED
      BY <1>1, <1>4, <3>1 DEF Increasing
  <2> QED
    <3>1. /\ text' = text /\ prog' = prog /\ startLine' = startLine /\ Begins' = Begins
          /\ \A i : Lasts(i)' = Lasts(i) /\ (Solid(i)' <=> Solid(i))
      BY <1>0, SameText
    <3>2. \A i, j \in DOMAIN prog : i < j => prog[i].from < prog[j].from /\ prog[i].num < prog[j].num
      BY <1>1 DEF Increasing
    <3>3. \A i \in DOMAIN prog : LET m == text[prog[i].from].mark IN m[1] \in {"num", "far"} => prog[i].num = m[2]
      BY <1>1 DEF OwnNumbers
    <3>4. nxtlin' # 0 => \A i \in DOMAIN prog : prog[i].num >= startLine => prog[nxtlin'].num <= prog[i].num
      BY <2>3
    <3> QED
      BY <2>1, <2>2, <3>1, <3>2, <3>3, <3>4 DEF WholeListing
<1>10. Jumps'
  <2> SUFFICES ASSUME ~Far, NEW i \in DOMAIN prog, NEW j \in prog[i].jumps
               PROVE  \E p \in Begins :
                        /\ Labelling(p, j.label)
                        /\ \A k \in DOMAIN prog : prog[k].num >= j.to <=> prog[k].from >= p
    BY <1>0, SameText DEF Jumps
  <2>1. PICK G \in Gs : SecondOf(G)
    BY <1>0 DEF B81Inv, Agree
  <2>2. j.label \in DOMAIN labels /\ j.to = labels[j.label]
    BY <2>1 DEF SecondOf, LinesOf
  <2> DEFINE S == {p \in Begins : text[p].mark = <<"label", j.label>>}
  <2>3. S # {} /\ S \subseteq Nat
    <3>0. LabelsOf(G, Len(text), labels)
      BY <2>1 DEF SecondOf
    <3>1. \A l : l \in DOMAIN labels => \E p \in Begins : text[p].mark = <<"label", l>>
      BY <3>0 DEF LabelsOf
    <3>2. Begins \subseteq Nat
      BY <1>0 DEF Begins
    <3>3. \E p \in Begins : text[p].mark = <<"label", j.label>>
      BY <2>2, <3>1
    <3> QED
      BY <3>2, <3>3
  <2>4. Earliest(S) \in S /\ \A q \in S : Earliest(S) <= q
    <3> HIDE DEF S
    <3> QED
      BY <2>3, LeastIs
  <2>5. PICK p \in S : \A q \in S : p <= q
    BY <2>4
  <2>6. Begins \subseteq 1..Len(text) /\ Len(text) \in Nat
    BY <1>0 DEF Begins
  <2>7. p \in Begins /\ Labelling(p, j.label) /\ p <= Len(text)
    BY <2>5, <2>6 DEF Labelling
  <2>8. j.to = G[p]
    BY <2>1, <2>2, <2>7 DEF SecondOf, LabelsOf
  <2>9. ASSUME NEW k \in DOMAIN prog
        PROVE  prog[k].num >= j.to <=> prog[k].from >= p
    <3> DEFINE f == prog[k].from
    <3>1. f \in Begins /\ prog[k].num = G[f]
      BY <2>1 DEF SecondOf, LinesOf
    <3> HIDE DEF f
    <3>2. f \in 0..Len(text) /\ p \in 0..Len(text) /\ f <= Len(text)
      BY <2>6, <2>7, <3>1
    <3>3. G[f] \in Int /\ G[p] \in Int
      BY <3>2 DEF Gs
    <3>4. (f < p => G[f] < G[p]) /\ (p < f => G[p] < G[f])
      BY <2>1, <2>7, <3>1, <3>2 DEF SecondOf, Numbering
    <3>5. G[f] >= G[p] <=> f >= p
      BY <3>2, <3>3, <3>4
    <3> QED
      BY <2>8, <3>1, <3>5 DEF f
  <2> QED
    BY <2>7, <2>9
<1> QED
  BY <1>7, <1>8, <1>9, <1>10 DEF B81Inv

LEMMA SameState ==
  ASSUME B81Inv, text' = text, pass' = pass, at' = at, current' = current, labels' = labels,
         startLine' = startLine, prog' = prog, nxtlin' = nxtlin
  PROVE  B81Inv'
<1>0. Wanted' = Wanted /\ Begins' = Begins /\ Gs' = Gs /\ Far' = Far
  BY SameText
<1>1. B81Type' /\ Boundary'
  BY DEF B81Inv, B81Type, Boundary, Solid
<1>2. SoFar'
  BY <1>0 DEF B81Inv, SoFar, Increasing, OwnNumbers
<1>3. ASSUME Agree PROVE Agree'
  <2>1. ASSUME pass = "number" PROVE \E G \in Gs : FirstOf(G)'
    <3>1. PICK G \in Gs : FirstOf(G)
      BY <1>3, <2>1 DEF Agree
    <3>2. Numbering(G, at - 1)'
      BY <1>0, <3>1 DEF FirstOf, Numbering
    <3>3. LabelsOf(G, at - 1, labels)'
      BY <1>0, <3>1 DEF FirstOf, LabelsOf, Labelling
    <3> QED
      BY <3>1, <3>2, <3>3 DEF FirstOf
  <2>2. ASSUME pass = "convert" PROVE \E G \in Gs : SecondOf(G)'
    <3>1. PICK G \in Gs : SecondOf(G)
      BY <1>3, <2>2 DEF Agree
    <3>2. Numbering(G, Len(text))'
      BY <1>0, <3>1 DEF SecondOf, Numbering
    <3>3. LabelsOf(G, Len(text), labels)'
      BY <1>0, <3>1 DEF SecondOf, LabelsOf, Labelling
    <3>4. LinesOf(G)'
      BY <1>0, <3>1 DEF SecondOf, LinesOf
    <3> QED
      BY <3>1, <3>2, <3>3, <3>4 DEF SecondOf
  <2> QED
    BY <1>0, <2>1, <2>2 DEF Agree
<1>4. WholeListing'
  BY <1>0, SameText DEF B81Inv, WholeListing
<1>5. Jumps'
  BY <1>0, SameText DEF B81Inv, Jumps
<1>6. (~Far => Agree)'
  BY <1>0, <1>3 DEF B81Inv
<1> QED
  BY <1>1, <1>2, <1>4, <1>5, <1>6 DEF B81Inv

LEMMA B81Starts == ASSUME B81Init PROVE B81Inv
<1>1. text \in Seq(Lines) /\ Len(text) \in Nat
  <2>1. Listings \subseteq Seq(Lines)
    BY B81Bounds, Zenon DEF Lines
  <2>2. text \in Seq(Lines)
    BY <2>1 DEF B81Init
  <2> QED
    BY <2>2
<1>2. B81Type
  <2>1. prog \in Seq({})
    BY DEF B81Init
  <2>2. 1 \in 1..(Len(text) + 1)
    BY <1>1
  <2> QED
    BY <1>1, <2>1, <2>2 DEF B81Type, B81Init, NoStart
<1>3. Boundary /\ SoFar /\ WholeListing /\ Jumps
  BY DEF B81Init, Boundary, SoFar, WholeListing, Jumps
<1>4. Agree
  <2> SUFFICES ASSUME pass = "number" PROVE \E G \in Gs : FirstOf(G)
    BY DEF B81Init, Agree
  <2> DEFINE G == [i \in 0..Len(text) |-> -1]
  <2>1. G \in Gs /\ G[0] = -1
    BY <1>1 DEF Gs
  <2>2. Begins \subseteq 1..Len(text)
    BY DEF Begins
  <2>3. Numbering(G, 0)
    BY <1>1, <2>1, <2>2 DEF Numbering
  <2>4. LabelsOf(G, 0, labels)
    <3>1. \A p \in Begins : ~(p <= 0)
      BY <1>1, <2>2
    <3>2. DOMAIN labels = {}
      BY DEF B81Init
    <3> QED
      BY <3>1, <3>2 DEF LabelsOf
  <2>5. at - 1 = 0 /\ current = -1
    BY DEF B81Init
  <2> HIDE DEF G
  <2> QED
    BY <2>1, <2>3, <2>4, <2>5 DEF FirstOf
<1> QED
  BY <1>2, <1>3, <1>4 DEF B81Inv

\* The invariant: the lines converted so far are those of the text so far, and
\* numbers and labels are those of a numbering that both passes follow.
THEOREM B81Invariant == B81Spec => []B81Inv
<1>1. ASSUME B81Inv, [B81Next]_b81Vars PROVE B81Inv'
  <2>1. CASE Comment
    BY <1>1, <2>1, CommentKeeps
  <2>2. CASE NumberLine
    BY <1>1, <2>2, NumberLineKeeps
  <2>3. CASE SecondPass
    BY <1>1, <2>3, SecondPassKeeps
  <2>4. CASE ConvertLine
    BY <1>1, <2>4, ConvertLineKeeps
  <2>5. CASE Trailer
    BY <1>1, <2>5, TrailerKeeps
  <2>6. CASE UNCHANGED b81Vars
    <3>1. /\ text' = text /\ pass' = pass /\ at' = at /\ current' = current /\ labels' = labels
          /\ startLine' = startLine /\ prog' = prog /\ pos' = pos /\ nxtlin' = nxtlin
      BY <2>6 DEF b81Vars
    <3> QED
      BY <1>1, <3>1, SameState
  <2> QED
    BY <1>1, <2>1, <2>2, <2>3, <2>4, <2>5, <2>6 DEF B81Next
<1> QED
  BY <1>1, B81Starts, PTL DEF B81Spec

\* Jumps of every listing go where its labels are.
THEOREM JumpsArriveAtLabels == B81Spec => []Jumps
<1>1. B81Inv => Jumps
  BY DEF B81Inv
<1> QED
  BY <1>1, B81Invariant, PTL

\* Every line is converted, once and in order.
THEOREM ListingIsWhole == B81Spec => []WholeListing
<1>1. B81Inv => WholeListing
  BY DEF B81Inv
<1> QED
  BY <1>1, B81Invariant, PTL
==============================================================================
