------------------------------- MODULE TasksProof ------------------------------
(***************************************************************************)
(* The ESP32's two notes are true between its tasks: proof.                *)
(*                                                                         *)
(* NotesTrue is about the card and the STM32's clock.  What makes it       *)
(* inductive is the order of the line: nothing is sent after a request     *)
(* but its repetitions, so that once it is answered nothing older is on    *)
(* its way; and what each step of a task has done by then.                 *)
(***************************************************************************)
EXTENDS EspTasks, SequenceTheorems, WellFoundedInduction, TLAPS

\* A finite sequence, and what is in it.
IsSeq(s) == s \in Seq({s[i] : i \in DOMAIN s})
Elems(s) == {s[i] : i \in 1..Len(s)}

\* The frames the STM32 has yet to take, and the answers to the request made.
Sent == Elems(reqs)
Mine == {a \in Elems(resps) : a.cmd = request.cmd /\ a.of = request}
Done(cmd) == {a \in Mine : a.cmd = cmd /\ a.status = "OK"}

Calling == phase # "idle"

-----------------------------------------------------------------------------
(* The inductive invariant, as long as no answer was taken for another.    *)

Commands == {"READ_OPEN", "READ_CHUNK", "READ_CLOSE", "WRITE_OPEN", "WRITE_CHUNK",
             "WRITE_CLOSE", "DELETE", "SET_TIME"}

\* What the ESP32 sends.
Frame(r) ==
  /\ r.cmd \in Commands \cup {"PING"}
  /\ r.cmd = "READ_CHUNK" => r.offset \in Nat
  /\ r.cmd = "DELETE" => r.file = Flag

\* Nothing is sent after the request made but itself; so what is answered was
\* the last.  (PINGs are not told apart.)
LineRight ==
  /\ IsSeq(reqs) /\ IsSeq(resps)
  /\ \A r \in Sent : r = Garbled \/ Frame(r)
  /\ Calling => Frame(request)
  /\ Calling /\ request.cmd # "PING" =>
       /\ \A i, j \in 1..Len(reqs) :
            i < j /\ reqs[i] = request => reqs[j] \in {request, Garbled}
       /\ Mine # {} => Sent \subseteq {request, Garbled}

\* The steps of each kind of task.
StepsOf(kind) ==
  CASE kind = "none" -> {"none"}
    [] kind = "ping" -> {"ping"}
    [] kind = "connect" -> {"open", "data", "shut", "try"}
    [] kind = "sync" -> {"open", "data", "shut", "ask", "set"}
    [] kind = "flag" -> {"open", "shut", "drop"}
    [] kind \in {"address", "save"} -> {"create", "write", "close"}

TaskRight ==
  /\ task = [kind |-> task.kind, by |-> task.by, step |-> task.step, h |-> task.h,
             got |-> task.got, ok |-> task.ok, cfg |-> task.cfg]
  /\ task.kind \in {"none", "ping", "connect", "sync", "flag", "address", "save"}
  /\ task.step \in StepsOf(task.kind)
  /\ task.kind = "ping" => task.by = "setup"
  /\ task.kind = "connect" => task.by \in {"setup", "reconnect"}

\* The request made is the one of the step.
AsksRight ==
  Calling =>
    /\ request.cmd = "PING" => task.step = "ping"
    /\ request.cmd = "READ_OPEN" => task.step = "open" /\ request.file = File
    /\ request.cmd = "READ_CHUNK" =>
         task.step = "data" /\ request.h = task.h /\ request.offset = Len(task.got)
    /\ request.cmd = "READ_CLOSE" => task.step = "shut" /\ request.h = task.h
    /\ request.cmd = "DELETE" => task.step = "drop"
    /\ request.cmd = "WRITE_OPEN" => task.step = "create" /\ request.file = File
    /\ request.cmd = "WRITE_CHUNK" =>
         task.step = "write" /\ request.h = task.h /\ request.piece = Piece
    /\ request.cmd = "WRITE_CLOSE" => task.step = "close" /\ request.h = task.h
    /\ request.cmd = "SET_TIME" => task.step = "set"

\* The card, and the handles.
Handle(x) ==
  \/ x = Closed
  \/ /\ x = [mode |-> x.mode, file |-> x.file, data |-> x.data, pos |-> x.pos]
     /\ x.mode \in {"read", "write"} /\ IsSeq(x.data) /\ x.pos \in 0..Len(x.data)

CardRight ==
  /\ disk = [f \in DOMAIN disk |-> disk[f]]
  /\ \A f \in DOMAIN disk : IsSeq(disk[f])
  /\ handles = [h \in HandleIds |-> handles[h]]
  /\ \A h \in HandleIds : Handle(handles[h])

\* What is read is a prefix of the file, which is a configuration that is on,
\* unless the note need not be true any more.
On(content) == task.kind = "sync" => Conf(content).on \/ excused
Reading(h) == h \in HandleIds /\ handles[h].mode = "read" /\ On(handles[h].data)
Chunk(a, data, n) ==
  \/ n < Len(data) /\ a.data = <<data[n + 1]>> /\ a.eof = (n + 1 >= Len(data))
  \/ a.data = <<>> /\ a.eof = (n >= Len(data))
ReadRight ==
  /\ Calling => \A a \in Done("READ_OPEN") : Reading(a.h)
  /\ task.step = "open" => task.got = <<>>
  /\ task.step = "data" =>
       /\ Reading(task.h)
       /\ Len(task.got) \in 0..Len(handles[task.h].data)
       /\ task.got = SubSeq(handles[task.h].data, 1, Len(task.got))
       /\ \A r \in Sent : r.cmd \in {"garbled", "READ_OPEN", "READ_CHUNK"}
       /\ Calling => \A a \in Done("READ_CHUNK") :
            Chunk(a, handles[task.h].data, Len(task.got))
  /\ task.step = "shut" /\ task.ok => On(task.got)

\* The file of the address, whose content is known unless the card did not keep it.
Address(content) == \A i \in 1..Len(content) : content[i] = [ip |-> address]
OnFile ==
  /\ IpFile \in DOMAIN disk
  /\ IpFile \notin unkept => disk[IpFile] # <<>> /\ Address(disk[IpFile])
Writer(h) == h \in HandleIds /\ handles[h].mode = "write" /\ handles[h].file = IpFile
Writing ==
  /\ Writer(task.h) /\ IpFile \in DOMAIN disk
  /\ handles[task.h].pos = Len(handles[task.h].data)
  /\ Address(handles[task.h].data)
  /\ \A r \in Sent : r.cmd = "WRITE_CHUNK" => r.h = task.h /\ r.piece = [ip |-> address]
Closing ==
  /\ handles[task.h] = Closed /\ OnFile
  /\ \A r \in Sent : r = Garbled \/ (Calling /\ r = request)
AddressRight ==
  task.kind = "address" =>
    /\ Calling => \A a \in Done("WRITE_OPEN") :
         Writer(a.h) /\ handles[a.h].data = <<>> /\ IpFile \in DOMAIN disk
    /\ task.step = "write" =>
         /\ Writing
         /\ \A r \in Sent : r.cmd \in {"garbled", "WRITE_OPEN", "WRITE_CHUNK"}
         /\ Calling /\ Done("WRITE_CHUNK") # {} => handles[task.h].data # <<>>
    /\ task.step = "close" /\ task.ok =>
         \/ /\ Writing /\ handles[task.h].data # <<>>
            /\ \A r \in Sent : r.cmd \in {"garbled", "WRITE_CHUNK"} \/ (Calling /\ r = request)
            /\ Calling => Done("WRITE_CLOSE") = {}
         \/ Closing

\* The file is kept: nothing on its way, or to be sent, opens it or closes a
\* handle that writes it.
FileRight ==
  online /\ task.kind # "address" /\ ~ip_file_pending =>
    /\ OnFile
    /\ \A r \in Sent :
         /\ r.cmd = "WRITE_OPEN" => r.file # IpFile
         /\ r.cmd \in {"READ_CLOSE", "WRITE_CLOSE"} => ~Writer(r.h)
    /\ task.step \in {"data", "shut", "write", "close"} => ~Writer(task.h)
    /\ Calling => \A a \in Done("READ_OPEN") \cup Done("WRITE_OPEN") : ~Writer(a.h)

\* The clock.
Reconnecting == task.kind = "address" /\ task.by = "reconnect"
ClockRight ==
  /\ ~OnCard(disk).on => excused
  /\ online /\ ~Reconnecting /\ ntp_stop_retrying => rtc # <<>> \/ excused
  /\ task.kind \in {"ping", "connect", "address"} /\ task.by = "setup" => ~ntp_stop_retrying
  /\ Calling /\ online /\ Done("SET_TIME") # {} => rtc # <<>>

TasksRight ==
  /\ LineRight /\ TaskRight /\ AsksRight /\ CardRight
  /\ ReadRight /\ AddressRight /\ FileRight /\ ClockRight
TasksInv == ~misread => TasksRight

-----------------------------------------------------------------------------
(* Sequences.                                                              *)

LEMMA SeqIs ==
  ASSUME NEW S, NEW s \in Seq(S)
  PROVE  IsSeq(s) /\ DOMAIN s = 1..Len(s)
<1> DEFINE T == {s[i] : i \in DOMAIN s}
<1>1. Len(s) \in Nat /\ DOMAIN s = 1..Len(s) /\ s = [i \in 1..Len(s) |-> s[i]]
  BY LenProperties
<1>2. \A i \in 1..Len(s) : s[i] \in T
  BY <1>1
<1> HIDE DEF T
<1>3. s \in [1..Len(s) -> T]
  BY <1>1, <1>2
<1>4. s \in Seq(T)
  BY <1>1, <1>3, SeqDef
<1> QED
  BY <1>1, <1>4 DEF IsSeq, T

LEMMA SmallSeqs == IsSeq(<<>>) /\ \A x : IsSeq(<<x>>)
<1>1. <<>> \in Seq({}) /\ \A x : <<x>> \in Seq({x})
  OBVIOUS
<1> QED
  BY <1>1, SeqIs

LEMMA SeqParts ==
  ASSUME NEW s, IsSeq(s)
  PROVE  /\ Len(s) \in Nat /\ DOMAIN s = 1..Len(s)
         /\ s # <<>> => /\ Len(s) > 0 /\ Head(s) = s[1] /\ IsSeq(Tail(s))
                        /\ Len(Tail(s)) = Len(s) - 1
                        /\ \A i \in 1..(Len(s) - 1) : Tail(s)[i] = s[i + 1]
         /\ \A n \in 0..Len(s) :
              /\ IsSeq(Drop(s, n)) /\ Len(Drop(s, n)) = Len(s) - n
              /\ \A i \in 1..(Len(s) - n) : Drop(s, n)[i] = s[i + n]
         /\ \A x :
              /\ IsSeq(Append(s, x)) /\ Len(Append(s, x)) = Len(s) + 1
              /\ \A i \in 1..(Len(s) + 1) : Append(s, x)[i] = IF i <= Len(s) THEN s[i] ELSE x
<1> DEFINE S == {s[i] : i \in DOMAIN s}
<1>0. s \in Seq(S)
  BY DEF IsSeq
<1> HIDE DEF S
<1>1. Len(s) \in Nat /\ DOMAIN s = 1..Len(s) /\ (s # <<>> => Len(s) > 0)
  BY <1>0, LenProperties, EmptySeq
<1>2. ASSUME NEW n \in 0..Len(s)
      PROVE  /\ IsSeq(Drop(s, n)) /\ Len(Drop(s, n)) = Len(s) - n
             /\ \A i \in 1..(Len(s) - n) : Drop(s, n)[i] = s[i + n]
  <2>1. \A i \in (n + 1)..Len(s) : s[i] \in S
    BY <1>0, ElementOfSeq
  <2>2. /\ Drop(s, n) \in Seq(S) /\ Len(Drop(s, n)) = Len(s) - n
        /\ \A i \in 1..(Len(s) - n) : Drop(s, n)[i] = s[i + n]
    <3>1. Len(s) \in Nat /\ n \in Nat /\ n <= Len(s)
      BY <1>1
    <3>2. /\ SubSeq(s, n + 1, Len(s)) \in Seq(S)
          /\ Len(SubSeq(s, n + 1, Len(s))) = IF n + 1 <= Len(s) THEN Len(s) - (n + 1) + 1 ELSE 0
          /\ \A i \in 1..(Len(s) - (n + 1) + 1) : SubSeq(s, n + 1, Len(s))[i] = s[n + 1 + i - 1]
      BY <2>1, <3>1, SubSeqProperties
    <3> QED
      BY <3>1, <3>2 DEF Drop
  <2> QED
    BY <2>2, SeqIs
<1>3. ASSUME NEW x
      PROVE  /\ IsSeq(Append(s, x)) /\ Len(Append(s, x)) = Len(s) + 1
             /\ \A i \in 1..(Len(s) + 1) : Append(s, x)[i] = IF i <= Len(s) THEN s[i] ELSE x
  <2> DEFINE U == S \cup {x}
  <2>1. s \in Seq(U)
    <3>1. \A i \in 1..Len(s) : s[i] \in U
      BY <1>0, ElementOfSeq
    <3> HIDE DEF U
    <3>2. s = [i \in 1..Len(s) |-> s[i]]
      BY <1>0, LenProperties
    <3> QED
      BY <1>1, <3>1, <3>2, SeqDef
  <2>2. x \in U
    OBVIOUS
  <2> HIDE DEF U
  <2>3. /\ Append(s, x) \in Seq(U) /\ Len(Append(s, x)) = Len(s) + 1
        /\ \A i \in 1..(Len(s) + 1) : Append(s, x)[i] = IF i <= Len(s) THEN s[i] ELSE x
    BY <1>1, <2>1, <2>2, AppendProperties
  <2> QED
    BY <2>3, SeqIs
<1>4. s # <<>> => /\ Head(s) = s[1] /\ Tail(s) \in Seq(S)
                  /\ Len(Tail(s)) = Len(s) - 1
                  /\ \A i \in 1..(Len(s) - 1) : Tail(s)[i] = s[i + 1]
  BY <1>0, <1>1, HeadTailProperties
<1>5. s # <<>> => IsSeq(Tail(s))
  BY <1>4, SeqIs
<1> QED
  BY <1>1, <1>2, <1>3, <1>4, <1>5

LEMMA ElemsParts ==
  ASSUME NEW s, IsSeq(s)
  PROVE  /\ s # <<>> => Head(s) \in Elems(s) /\ Elems(Tail(s)) \subseteq Elems(s)
         /\ \A n \in 0..Len(s) : Elems(Drop(s, n)) \subseteq Elems(s)
         /\ \A y : Elems(Append(s, y)) \subseteq Elems(s) \cup {y}
<1>1. ASSUME s # <<>> PROVE Head(s) \in Elems(s) /\ Elems(Tail(s)) \subseteq Elems(s)
  <2>1. 1 \in 1..Len(s) /\ Head(s) = s[1]
    BY <1>1, SeqParts
  <2>2. ASSUME NEW x \in Elems(Tail(s)) PROVE x \in Elems(s)
    <3>1. PICK i \in 1..Len(Tail(s)) : x = Tail(s)[i]
      BY DEF Elems
    <3>2. i + 1 \in 1..Len(s) /\ x = s[i + 1]
      BY <1>1, <3>1, SeqParts
    <3> QED
      BY <3>2 DEF Elems
  <2> QED
    BY <2>1, <2>2 DEF Elems
<1>2. ASSUME NEW n \in 0..Len(s), NEW x \in Elems(Drop(s, n)) PROVE x \in Elems(s)
  <2>1. PICK i \in 1..Len(Drop(s, n)) : x = Drop(s, n)[i]
    BY DEF Elems
  <2>2. Len(s) \in Nat /\ Len(Drop(s, n)) = Len(s) - n
    BY SeqParts
  <2>3. i \in 1..(Len(s) - n) /\ i + n \in 1..Len(s)
    BY <2>2
  <2>4. x = s[i + n]
    BY <2>1, <2>3, SeqParts
  <2> QED
    BY <2>3, <2>4 DEF Elems
<1>3. ASSUME NEW y, NEW x \in Elems(Append(s, y)) PROVE x \in Elems(s) \/ x = y
  <2>1. PICK i \in 1..Len(Append(s, y)) : x = Append(s, y)[i]
    BY DEF Elems
  <2> QED
    BY <2>1, SeqParts DEF Elems
<1> QED
  BY <1>1, <1>2, <1>3

\* Put replaces a piece, or adds one to the end.
LEMMA PutFacts ==
  ASSUME NEW data, IsSeq(data), NEW pos \in 0..Len(data), NEW piece
  PROVE  /\ IsSeq(Put(data, pos, piece)) /\ Put(data, pos, piece) # <<>>
         /\ pos + 1 \in 0..Len(Put(data, pos, piece))
         /\ pos = Len(data) =>
              /\ Len(Put(data, pos, piece)) = pos + 1
              /\ \A i \in 1..(pos + 1) :
                   Put(data, pos, piece)[i] = IF i = pos + 1 THEN piece ELSE data[i]
<1> DEFINE S == {data[i] : i \in DOMAIN data} \cup {piece}
           u == SubSeq(data, 1, pos)
           v == SubSeq(data, pos + 2, Len(data))
           w == <<piece>>
<1>1. Len(data) \in Nat /\ DOMAIN data = 1..Len(data) /\ pos \in Nat
  BY SeqParts
<1>2. \A i \in 1..Len(data) : data[i] \in S
  BY <1>1
<1>3. piece \in S
  OBVIOUS
<1> HIDE DEF S
<1>4. u \in Seq(S) /\ Len(u) = pos /\ \A i \in 1..pos : u[i] = data[i]
  <2>1. \A i \in 1..pos : data[i] \in S
    BY <1>1, <1>2
  <2>2. /\ u \in Seq(S) /\ Len(u) = IF 1 <= pos THEN pos - 1 + 1 ELSE 0
        /\ \A i \in 1..(pos - 1 + 1) : u[i] = data[1 + i - 1]
    BY <1>1, <2>1, SubSeqProperties
  <2> QED
    BY <1>1, <2>2
<1>5. v \in Seq(S) /\ (pos = Len(data) => Len(v) = 0)
  <2>1. \A i \in (pos + 2)..Len(data) : data[i] \in S
    BY <1>1, <1>2
  <2>2. v \in Seq(S) /\ Len(v) = IF pos + 2 <= Len(data) THEN Len(data) - (pos + 2) + 1 ELSE 0
    BY <1>1, <2>1, SubSeqProperties
  <2>3. pos = Len(data) => ~(pos + 2 <= Len(data))
    BY <1>1
  <2> HIDE DEF v
  <2> QED
    BY <2>2, <2>3
<1>6. w \in Seq(S) /\ Len(w) = 1 /\ w[1] = piece
  BY <1>3
<1>7. Put(data, pos, piece) = (u \o w) \o v
  BY DEF Put
<1> HIDE DEF u, v, w
<1>8. /\ u \o w \in Seq(S) /\ Len(u \o w) = pos + 1
      /\ \A i \in 1..(pos + 1) : (u \o w)[i] = IF i <= pos THEN data[i] ELSE piece
  <2>1. /\ u \o w \in Seq(S) /\ Len(u \o w) = Len(u) + Len(w)
        /\ \A i \in 1..(Len(u) + Len(w)) : (u \o w)[i] = IF i <= Len(u) THEN u[i] ELSE w[i - Len(u)]
    BY <1>4, <1>6, ConcatProperties
  <2> QED
    BY <1>1, <1>4, <1>6, <2>1
<1>9. /\ (u \o w) \o v \in Seq(S) /\ Len((u \o w) \o v) = Len(u \o w) + Len(v)
      /\ \A i \in 1..(Len(u \o w) + Len(v)) :
           ((u \o w) \o v)[i] = IF i <= Len(u \o w) THEN (u \o w)[i] ELSE v[i - Len(u \o w)]
  BY <1>5, <1>8, ConcatProperties
<1>10. Len(v) \in Nat
  BY <1>5, LenProperties
<1>11. IsSeq((u \o w) \o v) /\ (u \o w) \o v # <<>> /\ pos + 1 \in 0..Len((u \o w) \o v)
  <2>1. IsSeq((u \o w) \o v)
    BY <1>9, SeqIs
  <2>2. Len((u \o w) \o v) = pos + 1 + Len(v)
    BY <1>8, <1>9
  <2>3. Len(<<>>) = 0
    OBVIOUS
  <2> QED
    BY <1>1, <1>10, <2>1, <2>2, <2>3
<1>12. ASSUME pos = Len(data), NEW i \in 1..(pos + 1)
       PROVE  ((u \o w) \o v)[i] = IF i = pos + 1 THEN piece ELSE data[i]
  BY <1>1, <1>5, <1>8, <1>9, <1>12
<1>13. pos = Len(data) => Len((u \o w) \o v) = pos + 1
  BY <1>1, <1>5, <1>8, <1>9
<1> QED
  BY <1>7, <1>11, <1>12, <1>13

\* alloc_handle finds a free handle when there is one.
LEMMA LeastOf ==
  ASSUME NEW T, T \subseteq Nat, T # {}
  PROVE  \E x \in T : \A y \in T : x <= y
<1> DEFINE R == {ss \in Nat \X Nat : ss[1] < ss[2]}
<1>1. IsWellFoundedOn(R, Nat)
  BY NatLessThanWellFounded DEF OpToRel
<1>2. \A x \in Nat, y \in Nat : x < y => <<x, y>> \in R
  OBVIOUS
<1> HIDE DEF R
<1>3. \E x \in T : \A y \in T : <<y, x>> \notin R
  BY <1>1, WFMin
<1>4. PICK x \in T : \A y \in T : <<y, x>> \notin R
  BY <1>3
<1>5. ASSUME NEW y \in T PROVE x <= y
  <2>1. x \in Nat /\ y \in Nat /\ ~(y < x)
    BY <1>2, <1>4
  <2> QED
    BY <2>1
<1> QED
  BY <1>5

LEMMA AllocFree ==
  ASSUME FreeHandles # {}
  PROVE  AllocHandle \in HandleIds /\ handles[AllocHandle] = Closed
<1>1. HandleIds \subseteq Nat /\ FreeHandles \subseteq HandleIds
  BY ServerBounds DEF HandleIds, FreeHandles
<1>2. \E x \in FreeHandles : \A y \in FreeHandles : x <= y
  BY <1>1, LeastOf
<1>3. AllocHandle \in FreeHandles
  BY <1>2 DEF AllocHandle
<1> QED
  BY <1>3 DEF FreeHandles, Used

-----------------------------------------------------------------------------
(* The line.                                                               *)

LEMMA FrameFacts ==
  /\ Garbled.cmd = "garbled" /\ FrameError.cmd = "FRAME_ERROR"
  /\ \A r : Frame(r) => r.cmd \notin {"garbled", "FRAME_ERROR", "none"} /\ r # Garbled
BY DEF Garbled, FrameError, Frame, Commands

\* A call under way: its frame may be sent once more, answers may go away.
LEMMA LinkMoves ==
  ASSUME LineRight, LinkStep
  PROVE  /\ LineRight' /\ Calling /\ Calling' /\ request' = request
         /\ Sent' \subseteq Sent \cup {request, Garbled} /\ Mine' \subseteq Mine
<1>1. phase # "idle" /\ phase' # "idle" /\ request' = request
  BY DEF LinkStep, TransmitOk, TransmitBad, Attempt, ReadTimeout, ReadFrameError,
         ReadStale, AttemptOver
<1>2. IsSeq(reqs) /\ IsSeq(resps)
  BY DEF LineRight
<1>3. \/ reqs' = reqs
      \/ \E f \in {request, Garbled} : reqs' = Append(reqs, f)
  BY DEF LinkStep, TransmitOk, TransmitBad, ReadTimeout, ReadFrameError, ReadStale
<1>4. \/ resps' = resps
      \/ resps # <<>> /\ resps' = Tail(resps)
      \/ \E n \in 0..Len(resps) : resps' = Drop(resps, n)
  BY DEF LinkStep, TransmitOk, TransmitBad, Attempt, ReadTimeout, ReadFrameError, ReadStale
<1>5. IsSeq(resps') /\ Elems(resps') \subseteq Elems(resps)
  BY <1>2, <1>4, SeqParts, ElemsParts
<1>6. IsSeq(reqs') /\ Sent' \subseteq Sent \cup {request, Garbled}
  <2>1. CASE reqs' = reqs
    BY <1>2, <2>1 DEF Sent
  <2>2. ASSUME NEW f \in {request, Garbled}, reqs' = Append(reqs, f)
        PROVE  IsSeq(reqs') /\ Sent' \subseteq Sent \cup {request, Garbled}
    <3>1. IsSeq(reqs')
      BY <1>2, <2>2, SeqParts
    <3>2. Elems(reqs') \subseteq Elems(reqs) \cup {f}
      BY <1>2, <2>2, ElemsParts
    <3> QED
      BY <3>1, <3>2 DEF Sent
  <2> QED
    BY <1>3, <2>1, <2>2
<1>7. Mine' \subseteq Mine
  BY <1>1, <1>5 DEF Mine
<1>8. Frame(request)
  BY <1>1 DEF LineRight, Calling
<1>9. ASSUME request.cmd # "PING"
      PROVE  /\ \A i, j \in 1..Len(reqs') :
                  i < j /\ reqs'[i] = request => reqs'[j] \in {request, Garbled}
             /\ Mine' # {} => Sent' \subseteq {request, Garbled}
  <2>1. /\ \A i, j \in 1..Len(reqs) :
             i < j /\ reqs[i] = request => reqs[j] \in {request, Garbled}
        /\ Mine # {} => Sent \subseteq {request, Garbled}
    BY <1>1, <1>9 DEF LineRight, Calling
  <2>2. ASSUME NEW i \in 1..Len(reqs'), NEW j \in 1..Len(reqs'), i < j, reqs'[i] = request
        PROVE  reqs'[j] \in {request, Garbled}
    <3>1. CASE reqs' = reqs
      BY <2>1, <2>2, <3>1
    <3>2. CASE \E f \in {request, Garbled} : reqs' = Append(reqs, f)
      <4>1. PICK f \in {request, Garbled} : reqs' = Append(reqs, f)
        BY <3>2
      <4>2. /\ Len(reqs) \in Nat /\ Len(reqs') = Len(reqs) + 1
            /\ \A k \in 1..(Len(reqs) + 1) : reqs'[k] = IF k <= Len(reqs) THEN reqs[k] ELSE f
        BY <1>2, <4>1, SeqParts
      <4>3. i \in 1..Len(reqs) /\ reqs'[i] = reqs[i]
        BY <2>2, <4>2
      <4>4. CASE j <= Len(reqs)
        BY <2>1, <2>2, <4>2, <4>3, <4>4
      <4>5. CASE j > Len(reqs)
        BY <4>2, <4>5
      <4> QED
        BY <4>2, <4>4, <4>5
    <3> QED
      BY <1>3, <3>1, <3>2
  <2> QED
    BY <1>6, <1>7, <2>1, <2>2
<1> QED
  BY <1>1, <1>5, <1>6, <1>7, <1>8, <1>9 DEF LineRight, Calling

\* A call is made: its number is on no frame of the line.
LEMMA CallMade ==
  ASSUME LineRight, NEW frame, Frame(frame), Request(frame),
         NEW n, Unused(n), frame.cmd # "PING" => frame.no = n
  PROVE  /\ LineRight' /\ ~Calling /\ Calling' /\ request' = frame /\ Sent' = Sent
         /\ \A cmd \in Commands : Done(cmd)' = {}
<1>1. /\ phase = "idle" /\ phase' = "send" /\ request' = frame
      /\ reqs' = reqs /\ resps' = resps
  BY DEF Request
<1>2. IsSeq(reqs) /\ IsSeq(resps) /\ \A r \in Sent : r = Garbled \/ Frame(r)
  BY DEF LineRight
<1>3. ASSUME frame.cmd # "PING"
      PROVE  Mine' = {} /\ \A i \in 1..Len(reqs) : reqs[i] # frame
  <2>1. Numbered(frame) /\ frame.no = n
    BY <1>3, FrameFacts DEF Numbered
  <2>2. ASSUME NEW i \in 1..Len(reqs) PROVE reqs[i] # frame
    <3>1. i \in DOMAIN reqs
      BY <1>2, SeqParts
    <3> QED
      BY <2>1, <3>1 DEF Unused
  <2>3. ASSUME NEW i \in 1..Len(resps), resps[i].cmd = frame.cmd, resps[i].of = frame
        PROVE  FALSE
    <3>1. i \in DOMAIN resps
      BY <1>2, SeqParts
    <3>2. resps[i] # FrameError
      BY <2>3, FrameFacts
    <3> QED
      BY <2>1, <2>3, <3>1, <3>2 DEF Unused
  <2>4. Mine' = {a \in Elems(resps) : a.cmd = frame.cmd /\ a.of = frame}
    BY <1>1 DEF Mine
  <2> QED
    BY <2>2, <2>3, <2>4 DEF Elems
<1>4. ASSUME NEW cmd \in Commands PROVE Done(cmd)' = {}
  <2>1. CASE frame.cmd = "PING"
    <3>1. \A a \in Mine' : a.cmd = "PING"
      BY <1>1, <2>1 DEF Mine
    <3> QED
      BY <3>1 DEF Done, Commands
  <2>2. CASE frame.cmd # "PING"
    BY <1>3, <2>2 DEF Done
  <2> QED
    BY <2>1, <2>2
<1>5. LineRight'
  <2>1. Sent' = Sent
    BY <1>1 DEF Sent
  <2> QED
    BY <1>1, <1>2, <1>3, <2>1 DEF LineRight, Calling
<1> QED
  BY <1>1, <1>4, <1>5 DEF Sent, Calling

\* A call comes back.
LEMMA CallBack ==
  ASSUME LineRight, ReadAnswer \/ ReturnFailure
  PROVE  LineRight' /\ Calling /\ ~Calling' /\ Sent' = Sent /\ Frame(request)
<1>1. /\ phase # "idle" /\ phase' = "idle" /\ reqs' = reqs
      /\ resps' = resps \/ (resps # <<>> /\ resps' = Tail(resps))
  BY DEF ReadAnswer, ReturnFailure
<1>2. IsSeq(resps')
  BY <1>1, SeqParts DEF LineRight
<1> QED
  BY <1>1, <1>2 DEF LineRight, Calling, Sent

\* With its own answer: nothing older is on its way.
LEMMA Answered ==
  ASSUME LineRight, ReadAnswer, ~Misread
  PROVE  /\ Head(resps) \in Mine /\ Head(resps).cmd = request.cmd
         /\ request.cmd # "PING" => Sent \subseteq {request, Garbled}
<1>1. /\ phase = "wait" /\ phase' = "idle" /\ resps # <<>>
      /\ Head(resps).cmd = request.cmd
  BY DEF ReadAnswer
<1>2. Head(resps).of = request
  BY <1>1 DEF Misread
<1>3. Head(resps) \in Elems(resps)
  BY <1>1, ElemsParts DEF LineRight
<1>4. Head(resps) \in Mine
  BY <1>1, <1>2, <1>3 DEF Mine
<1> QED
  BY <1>1, <1>4 DEF LineRight, Calling

\* The STM32 takes a frame and answers it, or loses the answer.
LEMMA FrameTaken ==
  ASSUME LineRight, reqs # <<>>, reqs' = Tail(reqs), UNCHANGED <<phase, request>>,
         NEW a, Answer(a), a = FrameError \/ a.of = Head(reqs)
  PROVE  /\ LineRight' /\ Sent' \subseteq Sent /\ Head(reqs) \in Sent
         /\ Calling' = Calling
         /\ Calling => Mine' \subseteq Mine \cup {b \in {a} : a.of = Head(reqs)}
         /\ Calling /\ Head(reqs) # request => Mine' \subseteq Mine
         /\ Calling /\ request.cmd # "PING" /\ Head(reqs) = request =>
              Sent \subseteq {request, Garbled}
<1>1. IsSeq(reqs) /\ IsSeq(resps)
  BY DEF LineRight
<1>2. /\ IsSeq(reqs') /\ Sent' \subseteq Sent /\ Head(reqs) \in Sent
      /\ Len(reqs) > 0 /\ Len(reqs) \in Nat /\ Head(reqs) = reqs[1]
      /\ Len(reqs') = Len(reqs) - 1
      /\ \A i \in 1..(Len(reqs) - 1) : reqs'[i] = reqs[i + 1]
  BY <1>1, SeqParts, ElemsParts DEF Sent
<1>3. IsSeq(resps') /\ Elems(resps') \subseteq Elems(resps) \cup {a}
  <2>1. resps' = resps \/ resps' = Append(resps, a)
    BY DEF Answer, AnswerSent, AnswerLost
  <2>2. ASSUME resps' = Append(resps, a)
        PROVE  IsSeq(resps') /\ Elems(resps') \subseteq Elems(resps) \cup {a}
    <3>1. IsSeq(resps')
      BY <1>1, <2>2, SeqParts
    <3> QED
      BY <1>1, <2>2, <3>1, ElemsParts
  <2> QED
    BY <1>1, <2>1, <2>2
<1>4. ASSUME Calling
      PROVE  /\ Mine' \subseteq Mine \cup {b \in {a} : a.of = Head(reqs)}
             /\ Head(reqs) # request => Mine' \subseteq Mine
  <2>1. ASSUME NEW b \in Mine', b \notin Mine PROVE b = a /\ a.of = Head(reqs) /\ a.of = request
    <3>1. b \in Elems(resps') /\ b.cmd = request.cmd /\ b.of = request
      BY <2>1 DEF Mine
    <3>2. b = a
      BY <1>3, <2>1, <3>1 DEF Mine
    <3>3. a # FrameError
      BY <1>4, <3>1, <3>2, FrameFacts DEF LineRight
    <3> QED
      BY <3>1, <3>2, <3>3
  <2> QED
    BY <2>1
<1>5. ASSUME Calling, request.cmd # "PING", Head(reqs) = request
      PROVE  Sent \subseteq {request, Garbled}
  <2>1. \A i, j \in 1..Len(reqs) :
          i < j /\ reqs[i] = request => reqs[j] \in {request, Garbled}
    BY <1>5 DEF LineRight
  <2>2. ASSUME NEW j \in 1..Len(reqs) PROVE reqs[j] \in {request, Garbled}
    BY <1>2, <1>5, <2>1
  <2> QED
    BY <2>2 DEF Sent, Elems
<1>6. ASSUME Calling, request.cmd # "PING"
      PROVE  /\ \A i, j \in 1..Len(reqs') :
                  i < j /\ reqs'[i] = request => reqs'[j] \in {request, Garbled}
             /\ Mine' # {} => Sent' \subseteq {request, Garbled}
  <2>1. /\ \A i, j \in 1..Len(reqs) :
             i < j /\ reqs[i] = request => reqs[j] \in {request, Garbled}
        /\ Mine # {} => Sent \subseteq {request, Garbled}
    BY <1>6 DEF LineRight
  <2>2. ASSUME NEW i \in 1..Len(reqs'), NEW j \in 1..Len(reqs'), i < j, reqs'[i] = request
        PROVE  reqs'[j] \in {request, Garbled}
    <3>1. i + 1 \in 1..Len(reqs) /\ j + 1 \in 1..Len(reqs) /\ i + 1 < j + 1
      BY <1>2, <2>2
    <3>2. reqs'[i] = reqs[i + 1] /\ reqs'[j] = reqs[j + 1]
      BY <1>2
    <3> QED
      BY <2>1, <2>2, <3>1, <3>2
  <2>3. ASSUME Mine' # {} PROVE Sent' \subseteq {request, Garbled}
    BY <1>2, <1>4, <1>5, <1>6, <2>1, <2>3
  <2> QED
    BY <2>2, <2>3
<1>7. /\ \A r \in Sent' : r = Garbled \/ Frame(r)
      /\ Calling => Frame(request)
  BY <1>2 DEF LineRight
<1> QED
  BY <1>2, <1>3, <1>4, <1>5, <1>6, <1>7 DEF LineRight, Calling

-----------------------------------------------------------------------------
(* The STM32's commands.                                                   *)

\* What serving r does, and answers.
Opens(r, a, mode, data) ==
  /\ a.h \in HandleIds /\ handles[a.h] = Closed
  /\ handles' = [handles EXCEPT ![a.h] = [mode |-> mode, file |-> r.file, data |-> data, pos |-> 0]]
Refused(a) == a.status # "OK" /\ UNCHANGED srvVars
OpensToRead(r, a) ==
  /\ r.cmd = "READ_OPEN" /\ r.file \in DOMAIN disk /\ UNCHANGED <<disk, unkept>>
  /\ Opens(r, a, "read", disk[r.file])
Reads(r, a) ==
  /\ r.cmd = "READ_CHUNK" /\ Used(r.h) /\ UNCHANGED <<disk, unkept>>
  /\ \E p \in 0..Len(handles[r.h].data) : handles' = [handles EXCEPT ![r.h].pos = p]
  /\ handles[r.h].mode = "read" /\ r.offset <= Len(handles[r.h].data) =>
       Chunk(a, handles[r.h].data, r.offset)
Closes(r) == r.cmd \in {"READ_CLOSE", "WRITE_CLOSE"} /\ Used(r.h) /\ CloseHandle(r.h)
OpensToWrite(r, a) ==
  /\ r.cmd = "WRITE_OPEN" /\ Opens(r, a, "write", <<>>) /\ unkept' = unkept
  /\ disk' = [f \in DOMAIN disk \cup {r.file} |-> IF f = r.file THEN <<>> ELSE disk[f]]
Writes(r) ==
  /\ r.cmd = "WRITE_CHUNK" /\ Used(r.h) /\ handles[r.h].mode = "write"
  /\ UNCHANGED <<disk, unkept>>
  /\ handles' = [handles EXCEPT ![r.h] =
       [mode |-> "write", file |-> @.file, data |-> Put(@.data, @.pos, r.piece), pos |-> @.pos + 1]]
Deletes(r) ==
  /\ r.cmd = "DELETE" /\ UNCHANGED <<handles, unkept>>
  /\ disk' = [f \in DOMAIN disk \ {r.file} |-> disk[f]]
Effect(r, a) ==
  \/ Refused(a) \/ OpensToRead(r, a) \/ Reads(r, a) \/ Closes(r)
  \/ OpensToWrite(r, a) \/ Writes(r) \/ Deletes(r)
  \/ r.cmd \in {"PING", "SET_TIME"} /\ UNCHANGED srvVars

LEMMA HandleFacts ==
  ASSUME CardRight, NEW h, Used(h)
  PROVE  /\ h \in HandleIds /\ handles[h] # Closed
         /\ handles[h] = [mode |-> handles[h].mode, file |-> handles[h].file,
                          data |-> handles[h].data, pos |-> handles[h].pos]
         /\ handles[h].mode \in {"read", "write"} /\ IsSeq(handles[h].data)
         /\ Len(handles[h].data) \in Nat /\ handles[h].pos \in 0..Len(handles[h].data)
<1>1. h \in HandleIds /\ handles[h] # Closed
  BY DEF Used
<1>2. Handle(handles[h])
  BY <1>1 DEF CardRight
<1> QED
  BY <1>1, <1>2, SeqParts DEF Handle

\* One piece of a sequence, or none.
LEMMA PieceOf ==
  ASSUME NEW data, IsSeq(data), NEW n \in Nat
  PROVE  /\ SubSeq(data, n + 1, n) = <<>>
         /\ n < Len(data) => SubSeq(data, n + 1, n + 1) = <<data[n + 1]>>
<1> DEFINE S == {data[i] : i \in DOMAIN data}
<1>1. data \in Seq(S) /\ Len(data) \in Nat
  BY SeqParts DEF IsSeq
<1>2. \A i \in 1..Len(data) : data[i] \in S
  BY SeqParts
<1> HIDE DEF S
<1>3. SubSeq(data, n + 1, n) = <<>>
  <2>1. \A i \in (n + 1)..n : data[i] \in S
    OBVIOUS
  <2>2. /\ SubSeq(data, n + 1, n) \in Seq(S)
        /\ Len(SubSeq(data, n + 1, n)) = IF n + 1 <= n THEN n - (n + 1) + 1 ELSE 0
    BY <1>1, <2>1, SubSeqProperties
  <2> QED
    BY <2>2, EmptySeq
<1>4. ASSUME n < Len(data) PROVE SubSeq(data, n + 1, n + 1) = <<data[n + 1]>>
  <2> DEFINE u == SubSeq(data, n + 1, n + 1)
             w == <<data[n + 1]>>
  <2>1. \A i \in (n + 1)..(n + 1) : data[i] \in S
    BY <1>1, <1>2, <1>4
  <2>2. /\ u \in Seq(S) /\ Len(u) = IF n + 1 <= n + 1 THEN n + 1 - (n + 1) + 1 ELSE 0
        /\ \A i \in 1..(n + 1 - (n + 1) + 1) : u[i] = data[n + 1 + i - 1]
    BY <1>1, <2>1, SubSeqProperties
  <2>3. Len(u) = 1 /\ u[1] = data[n + 1]
    BY <2>2
  <2>4. data[n + 1] \in S
    BY <1>1, <1>2, <1>4
  <2>5. w \in Seq(S) /\ Len(w) = 1 /\ w[1] = data[n + 1]
    BY <2>4
  <2> HIDE DEF u, w
  <2>6. Len(u) = Len(w) /\ \A i \in 1..Len(u) : u[i] = w[i]
    BY <2>3, <2>5
  <2>7. u = w
    BY <2>2, <2>5, <2>6, SeqEqual
  <2> QED
    BY <2>7 DEF u, w
<1> QED
  BY <1>3, <1>4

LEMMA ReadChunkFacts ==
  ASSUME CardRight, NEW r, r.cmd = "READ_CHUNK", r.offset \in Nat, ReadChunk(r)
  PROVE  \E a : a.of = r /\ a.cmd = r.cmd /\ Answer(a) /\ Effect(r, a)
<1>1. CASE ~Used(r.h) /\ Refuse(r, "BAD_HANDLE")
  <2>1. /\ Status(r, "BAD_HANDLE").of = r /\ Status(r, "BAD_HANDLE").cmd = r.cmd
        /\ Status(r, "BAD_HANDLE").status # "OK"
    BY DEF Status
  <2> QED
    BY <1>1, <2>1 DEF Refuse, Effect, Refused
<1>2. CASE ~(~Used(r.h) /\ Refuse(r, "BAD_HANDLE"))
  <2>0. Used(r.h)
    BY <1>2 DEF ReadChunk
  <2> DEFINE f   == handles[r.h]
             pos == SeekSet(f, r.offset)
             some == f.mode = "read" /\ pos < Len(f.data)
             ans(n) == [cmd |-> "READ_CHUNK", of |-> r, status |-> "OK",
                        data |-> SubSeq(f.data, pos + 1, pos + n),
                        eof |-> r.offset + n >= Len(f.data)]
  <2>1. /\ f = [mode |-> f.mode, file |-> f.file, data |-> f.data, pos |-> f.pos]
        /\ r.h \in HandleIds /\ IsSeq(f.data) /\ Len(f.data) \in Nat /\ f.pos \in 0..Len(f.data)
    BY <2>0, HandleFacts
  <2>2. PICK n \in (IF some THEN {1} ELSE {0}) \cup (IF CardFails THEN {0} ELSE {}) :
          /\ handles' = [handles EXCEPT ![r.h].pos = pos + n]
          /\ Answer(ans(n)) /\ UNCHANGED <<disk, unkept>>
    BY <1>2 DEF ReadChunk, Refuse
  <2>3. pos \in 0..Len(f.data) /\ (r.offset <= Len(f.data) => pos = r.offset)
    BY <2>1 DEF SeekSet
  <2> HIDE DEF pos
  <2>8. n \in {0, 1} /\ (n = 1 => f.mode = "read" /\ pos < Len(f.data))
    BY <2>2
  <2> HIDE DEF some
  <2>4. pos + n \in 0..Len(f.data)
    BY <2>1, <2>3, <2>8
  <2>5. ans(n).of = r /\ ans(n).cmd = r.cmd
    OBVIOUS
  <2>6. ASSUME r.offset <= Len(f.data) PROVE Chunk(ans(n), f.data, r.offset)
    <3>1. pos = r.offset /\ pos \in Nat
      BY <2>3, <2>6
    <3>2. /\ SubSeq(f.data, pos + 1, pos) = <<>>
          /\ pos < Len(f.data) => SubSeq(f.data, pos + 1, pos + 1) = <<f.data[pos + 1]>>
      BY <2>1, <3>1, PieceOf
    <3>3. CASE n = 0
      <4>1. ans(n).data = <<>>
        BY <3>1, <3>2, <3>3
      <4>2. ans(n).eof = (r.offset >= Len(f.data))
        BY <3>3
      <4> QED
        BY <4>1, <4>2 DEF Chunk
    <3>4. CASE n = 1
      <4>1. ans(n).data = <<f.data[r.offset + 1]>> /\ r.offset < Len(f.data)
        BY <2>8, <3>1, <3>2, <3>4
      <4>2. ans(n).eof = (r.offset + 1 >= Len(f.data))
        BY <3>4
      <4> QED
        BY <4>1, <4>2 DEF Chunk
    <3> QED
      BY <2>8, <3>3, <3>4
  <2>7. Reads(r, ans(n))
    BY <2>0, <2>2, <2>4, <2>6 DEF Reads
  <2> HIDE DEF ans
  <2> QED
    BY <2>2, <2>5, <2>7 DEF Effect
<1> QED
  BY <1>1, <1>2 DEF ReadChunk

LEMMA OpenFacts ==
  ASSUME NEW r,
         (r.cmd = "READ_OPEN" /\ ReadOpen(r)) \/ (r.cmd = "WRITE_OPEN" /\ WriteOpen(r))
  PROVE  \E a : a.of = r /\ a.cmd = r.cmd /\ Answer(a) /\ Effect(r, a)
<1>1. ASSUME NEW st \in {"NO_HANDLE_FREE", "NOT_FOUND", "IO_ERROR"}, Refuse(r, st)
      PROVE  \E a : a.of = r /\ a.cmd = r.cmd /\ Answer(a) /\ Effect(r, a)
  <2>1. Status(r, st).of = r /\ Status(r, st).cmd = r.cmd /\ Status(r, st).status # "OK"
    BY DEF Status
  <2> QED
    BY <1>1, <2>1 DEF Refuse, Effect, Refused
<1>2. CASE r.cmd = "READ_OPEN" /\ ReadOpen(r) /\ FreeHandles # {} /\ r.file \in DOMAIN disk
  <2> DEFINE a == [cmd |-> "READ_OPEN", of |-> r, status |-> "OK",
                   h |-> AllocHandle, size |-> Len(disk[r.file])]
  <2>1. CASE Answer(a) /\ UNCHANGED <<disk, unkept>>
             /\ handles' = [handles EXCEPT ![AllocHandle] =
                  [mode |-> "read", file |-> r.file, data |-> disk[r.file], pos |-> 0]]
    <3>1. a.of = r /\ a.cmd = r.cmd /\ a.h = AllocHandle
      BY <1>2
    <3> HIDE DEF a
    <3>2. Opens(r, a, "read", disk[r.file])
      BY <1>2, <2>1, <3>1, AllocFree DEF Opens
    <3> QED
      BY <1>2, <2>1, <3>1, <3>2 DEF Effect, OpensToRead
  <2> QED
    BY <1>1, <1>2, <2>1 DEF ReadOpen
<1>3. CASE r.cmd = "WRITE_OPEN" /\ WriteOpen(r) /\ FreeHandles # {}
  <2> DEFINE a == [cmd |-> "WRITE_OPEN", of |-> r, status |-> "OK", h |-> AllocHandle]
  <2>1. CASE Answer(a) /\ unkept' = unkept
             /\ handles' = [handles EXCEPT ![AllocHandle] =
                  [mode |-> "write", file |-> r.file, data |-> Truncated(r.file), pos |-> 0]]
             /\ disk' = [f \in DOMAIN disk \cup {r.file} |->
                          IF f = r.file THEN Truncated(f) ELSE disk[f]]
    <3>1. a.of = r /\ a.cmd = r.cmd /\ a.h = AllocHandle
      BY <1>3
    <3> HIDE DEF a
    <3>2. Opens(r, a, "write", <<>>)
      BY <1>3, <2>1, <3>1, AllocFree DEF Opens, Truncated
    <3> QED
      BY <1>3, <2>1, <3>1, <3>2 DEF Effect, OpensToWrite, Truncated
  <2> QED
    BY <1>1, <1>3, <2>1 DEF WriteOpen
<1> QED
  BY <1>1, <1>2, <1>3 DEF ReadOpen, WriteOpen

LEMMA OtherFacts ==
  ASSUME CardRight, NEW r,
         \/ r.cmd \in {"READ_CLOSE", "WRITE_CLOSE"} /\ Close(r)
         \/ r.cmd = "WRITE_CHUNK" /\ WriteChunk(r)
         \/ r.cmd = "DELETE" /\ Delete(r)
  PROVE  \E a : a.of = r /\ a.cmd = r.cmd /\ Answer(a) /\ Effect(r, a)
<1>0. \A st : Status(r, st).of = r /\ Status(r, st).cmd = r.cmd /\ Status(r, st).status = st
  BY DEF Status
<1>1. ASSUME NEW st \in {"BAD_HANDLE", "NOT_FOUND", "IO_ERROR"}, Refuse(r, st)
      PROVE  \E a : a.of = r /\ a.cmd = r.cmd /\ Answer(a) /\ Effect(r, a)
  BY <1>0, <1>1 DEF Refuse, Effect, Refused
<1>2. CASE r.cmd \in {"READ_CLOSE", "WRITE_CLOSE"} /\ Close(r)
  BY <1>0, <1>1, <1>2 DEF Close, Effect, Closes
<1>3. CASE r.cmd = "WRITE_CHUNK" /\ WriteChunk(r)
  <2>1. CASE Used(r.h) /\ handles[r.h].mode = "write" /\ Answer(Status(r, "OK"))
             /\ UNCHANGED <<disk, unkept>>
             /\ handles' = [handles EXCEPT ![r.h].data = Put(@, handles[r.h].pos, r.piece),
                                           ![r.h].pos = @ + 1]
    <3>1. /\ r.h \in HandleIds
          /\ handles[r.h] = [mode |-> handles[r.h].mode, file |-> handles[r.h].file,
                             data |-> handles[r.h].data, pos |-> handles[r.h].pos]
          /\ handles[r.h].pos \in Nat
      BY <2>1, HandleFacts
    <3>2. /\ handles \in [HandleIds -> {handles[h] : h \in HandleIds}]
          /\ handles[r.h] \in [mode : {"write"}, file : {handles[r.h].file},
                               data : {handles[r.h].data}, pos : Nat]
      <4>1. handles = [h \in HandleIds |-> handles[h]]
        BY DEF CardRight
      <4> QED
        BY <2>1, <3>1, <4>1
    <3>3. handles' = [handles EXCEPT ![r.h] =
            [mode |-> "write", file |-> @.file, data |-> Put(@.data, @.pos, r.piece), pos |-> @.pos + 1]]
      BY <2>1, <3>1, <3>2
    <3> QED
      BY <1>0, <1>3, <2>1, <3>3 DEF Effect, Writes
  <2> QED
    BY <1>1, <1>3, <2>1 DEF WriteChunk
<1>4. CASE r.cmd = "DELETE" /\ Delete(r)
  BY <1>0, <1>1, <1>4 DEF Delete, Effect, Deletes
<1> QED
  BY <1>2, <1>3, <1>4

\* The STM32's turn: a damaged frame, or a request served.
Idling == UNCHANGED <<task, ntp_stop_retrying, ip_file_pending, online, address, misread>>
Served(r, a) ==
  /\ r \in Sent /\ Frame(r) /\ a.of = r /\ a.cmd = r.cmd /\ Effect(r, a)
  /\ IF r.cmd = "SET_TIME" THEN rtc' = <<r.zone>> ELSE rtc' = rtc
  /\ excused' = (excused \/ ~OnCard(disk').on)
  /\ Idling /\ request' = request /\ Calling' = Calling /\ Sent' \subseteq Sent
  /\ Calling /\ request.cmd # "PING" /\ r = request => Sent \subseteq {request, Garbled}
  /\ Calling => \A cmd \in Commands : \A b \in Done(cmd)' :
       /\ r = request /\ r.cmd = cmd
       /\ b \in Done(cmd) \/ (b = a /\ a.status = "OK")

LEMMA StmTurn ==
  ASSUME LineRight, CardRight, StmServe
  PROVE  /\ LineRight'
         /\ \/ /\ UNCHANGED <<disk, handles, unkept, rtc, request>> /\ Idling
               /\ excused' = (excused \/ ~OnCard(disk').on)
               /\ Calling' = Calling /\ Sent' \subseteq Sent /\ (Calling => Mine' \subseteq Mine)
            \/ \E r, a : Served(r, a)
<1> DEFINE r == Head(reqs)
<1>1. /\ reqs # <<>> /\ reqs' = Tail(reqs) /\ UNCHANGED <<phase, request>> /\ Idling
      /\ excused' = (excused \/ ~OnCard(disk').on)
  BY DEF StmServe, Serve, Take, TakeGarbled, Card, taskVars, wifiVars, Idling
<1>2. r \in Sent
  BY <1>1, ElemsParts DEF LineRight, Sent
<1>3. r = Garbled \/ Frame(r)
  BY <1>2 DEF LineRight
<1>4. CASE TakeGarbled /\ UNCHANGED <<srvVars, rtc>>
  <2>1. Answer(FrameError) /\ r.cmd = "garbled" /\ UNCHANGED <<disk, handles, unkept, rtc>>
    BY <1>4 DEF TakeGarbled, Take, srvVars
  <2>2. r = Garbled
    BY <1>3, <2>1, FrameFacts
  <2>3. LineRight' /\ Sent' \subseteq Sent /\ Calling' = Calling
        /\ (Calling /\ r # request => Mine' \subseteq Mine)
    BY <1>1, <2>1, FrameTaken
  <2>4. Calling => r # request
    BY <2>2, FrameFacts DEF LineRight
  <2>5. (Calling => Mine' \subseteq Mine)
    BY <2>3, <2>4
  <2> QED
    BY <1>1, <2>1, <2>3, <2>5
<1>5. CASE ~(TakeGarbled /\ UNCHANGED <<srvVars, rtc>>)
  <2>1. \E a : /\ a.of = r /\ a.cmd = r.cmd /\ Answer(a) /\ Effect(r, a)
               /\ IF r.cmd = "SET_TIME" THEN rtc' = <<r.zone>> ELSE rtc' = rtc
    <3>1. CASE Serve /\ rtc' = rtc
      <4>1. /\ r.cmd # "SET_TIME" /\ r.cmd # "garbled"
            /\ \/ (r.cmd = "READ_OPEN" /\ ReadOpen(r)) \/ (r.cmd = "WRITE_OPEN" /\ WriteOpen(r))
               \/ r.cmd = "READ_CHUNK" /\ ReadChunk(r)
               \/ r.cmd \in {"READ_CLOSE", "WRITE_CLOSE"} /\ Close(r)
               \/ r.cmd = "WRITE_CHUNK" /\ WriteChunk(r)
               \/ r.cmd = "DELETE" /\ Delete(r)
               \/ r.cmd = "WRITE_SYNC"
        BY <3>1 DEF Serve, Take
      <4>2. Frame(r) /\ r.cmd # "WRITE_SYNC"
        BY <1>3, <4>1, FrameFacts DEF Frame, Commands
      <4>3. \E a : a.of = r /\ a.cmd = r.cmd /\ Answer(a) /\ Effect(r, a)
        BY <4>1, <4>2, OpenFacts, ReadChunkFacts, OtherFacts DEF Frame
      <4> QED
        BY <3>1, <4>1, <4>3
    <3>2. CASE Take("PING") /\ Answer(Status(r, "OK")) /\ UNCHANGED <<srvVars, rtc>>
      BY <3>2 DEF Take, Status, Effect
    <3>3. CASE Take("SET_TIME") /\ rtc' = <<r.zone>> /\ Answer(Status(r, "OK")) /\ UNCHANGED srvVars
      BY <3>3 DEF Take, Status, Effect
    <3> QED
      BY <1>5, <3>1, <3>2, <3>3 DEF StmServe
  <2>2. PICK a : /\ a.of = r /\ a.cmd = r.cmd /\ Answer(a) /\ Effect(r, a)
                 /\ IF r.cmd = "SET_TIME" THEN rtc' = <<r.zone>> ELSE rtc' = rtc
    BY <2>1
  <2>3. Frame(r)
    <3>1. r.cmd # "garbled"
      BY <1>5 DEF StmServe, Serve, Take
    <3> QED
      BY <1>3, <3>1, FrameFacts
  <2>4. /\ LineRight' /\ Sent' \subseteq Sent /\ Calling' = Calling
        /\ Calling => Mine' \subseteq Mine \cup {b \in {a} : a.of = r}
        /\ Calling /\ r # request => Mine' \subseteq Mine
        /\ Calling /\ request.cmd # "PING" /\ r = request => Sent \subseteq {request, Garbled}
    BY <1>1, <2>2, FrameTaken
  <2>5. ASSUME Calling, NEW cmd \in Commands, NEW b \in Done(cmd)'
        PROVE  /\ r = request /\ r.cmd = cmd
               /\ b \in Done(cmd) \/ (b = a /\ a.status = "OK")
    <3>1. b \in Mine' /\ b.cmd = cmd /\ b.status = "OK" /\ request.cmd = cmd
      BY <1>1, <2>5 DEF Done, Mine
    <3>2. request.cmd # "PING"
      BY <3>1 DEF Commands
    <3>3. b \in Mine => Sent \subseteq {request, Garbled}
      BY <2>5, <3>2 DEF LineRight
    <3>4. b \in Mine => r = request
      BY <1>2, <2>3, <3>3, FrameFacts
    <3>5. r = request
      BY <2>4, <2>5, <3>1, <3>4
    <3>6. b \in Mine \/ b = a
      BY <2>4, <2>5, <3>1
    <3> QED
      BY <2>4, <2>5, <3>1, <3>2, <3>5, <3>6 DEF Done
  <2>6. Served(r, a)
    BY <1>1, <1>2, <2>2, <2>3, <2>4, <2>5 DEF Served
  <2> QED
    BY <2>4, <2>6
<1> QED
  BY <1>4, <1>5

\* What becomes of a handle.
LEMMA HandleServed ==
  ASSUME CardRight, NEW r, NEW a, Effect(r, a), NEW h \in HandleIds
  PROVE  /\ Handle(handles'[h])
         /\ handles[h] = Closed =>
              \/ handles'[h] = Closed
              \/ OpensToRead(r, a) /\ a.h = h /\ handles'[h].mode = "read"
                 /\ handles'[h].data = disk[r.file]
              \/ OpensToWrite(r, a) /\ a.h = h /\ handles'[h].mode = "write"
                 /\ handles'[h].file = r.file /\ handles'[h].data = <<>> /\ handles'[h].pos = 0
         /\ handles[h] # Closed =>
              \/ Closes(r) /\ r.h = h /\ handles'[h] = Closed
              \/ /\ handles'[h].mode = handles[h].mode /\ handles'[h].file = handles[h].file
                 /\ \/ /\ handles'[h].data = handles[h].data
                       /\ handles'[h].pos = handles[h].pos \/ (r.cmd = "READ_CHUNK" /\ r.h = h)
                    \/ /\ Writes(r) /\ r.h = h
                       /\ handles'[h].data = Put(handles[h].data, handles[h].pos, r.piece)
                       /\ handles'[h].pos = handles[h].pos + 1
<1>1. handles = [g \in HandleIds |-> handles[g]] /\ Handle(handles[h])
      /\ \A f \in DOMAIN disk : IsSeq(disk[f])
  BY DEF CardRight
<1>2. CASE handles' = handles
  BY <1>1, <1>2
<1>3. ASSUME NEW mode \in {"read", "write"}, NEW data, IsSeq(data), Opens(r, a, mode, data)
      PROVE  /\ handles[h] # Closed => handles'[h] = handles[h]
             /\ handles[h] = Closed =>
                  IF h = a.h
                  THEN handles'[h] = [mode |-> mode, file |-> r.file, data |-> data, pos |-> 0]
                  ELSE handles'[h] = Closed
             /\ Handle(handles'[h])
  <2>1. handles[h] # Closed => handles'[h] = handles[h]
    BY <1>1, <1>3 DEF Opens
  <2>2. handles[h] = Closed =>
          IF h = a.h
          THEN handles'[h] = [mode |-> mode, file |-> r.file, data |-> data, pos |-> 0]
          ELSE handles'[h] = Closed
    BY <1>1, <1>3 DEF Opens
  <2>3. Handle([mode |-> mode, file |-> r.file, data |-> data, pos |-> 0])
    <3>1. Len(data) \in Nat
      BY <1>3, SeqParts
    <3> QED
      BY <1>3, <3>1 DEF Handle
  <2>4. Handle(Closed)
    BY DEF Handle
  <2> QED
    BY <1>1, <2>1, <2>2, <2>3, <2>4
<1>4. CASE OpensToRead(r, a)
  <2>1. IsSeq(disk[r.file]) /\ Opens(r, a, "read", disk[r.file])
    BY <1>1, <1>4 DEF OpensToRead
  <2>2. /\ handles[h] # Closed => handles'[h] = handles[h]
        /\ handles[h] = Closed =>
             IF h = a.h
             THEN handles'[h] = [mode |-> "read", file |-> r.file, data |-> disk[r.file], pos |-> 0]
             ELSE handles'[h] = Closed
        /\ Handle(handles'[h])
    BY <1>3, <2>1
  <2> QED
    BY <1>4, <2>2
<1>5. CASE OpensToWrite(r, a)
  <2>1. Opens(r, a, "write", <<>>)
    BY <1>5 DEF OpensToWrite
  <2>2. /\ handles[h] # Closed => handles'[h] = handles[h]
        /\ handles[h] = Closed =>
             IF h = a.h
             THEN handles'[h] = [mode |-> "write", file |-> r.file, data |-> <<>>, pos |-> 0]
             ELSE handles'[h] = Closed
        /\ Handle(handles'[h])
    BY <1>3, <2>1, SmallSeqs
  <2> QED
    BY <1>5, <2>2
<1>6. CASE Reads(r, a)
  <2>1. PICK p \in 0..Len(handles[r.h].data) : handles' = [handles EXCEPT ![r.h].pos = p]
    BY <1>6 DEF Reads
  <2>2. r.h # h => handles'[h] = handles[h]
    BY <1>1, <2>1
  <2>3. CASE r.h = h
    <3>1. handles[h] = [mode |-> handles[h].mode, file |-> handles[h].file,
                        data |-> handles[h].data, pos |-> handles[h].pos]
          /\ handles[h].mode \in {"read", "write"} /\ IsSeq(handles[h].data)
      BY <1>6, <2>3, HandleFacts DEF Reads
    <3>2. handles'[h] = [mode |-> handles[h].mode, file |-> handles[h].file,
                         data |-> handles[h].data, pos |-> p]
      BY <1>1, <2>1, <2>3, <3>1
    <3>3. Handle(handles'[h])
      BY <2>1, <2>3, <3>1, <3>2 DEF Handle
    <3>4. handles[h] # Closed /\ r.cmd = "READ_CHUNK"
      BY <1>6, <2>3 DEF Reads, Used
    <3> QED
      BY <2>3, <3>2, <3>3, <3>4
  <2> QED
    BY <1>1, <2>2, <2>3
<1>7. CASE Closes(r)
  <2>1. handles' = [handles EXCEPT ![r.h] = Closed]
    BY <1>7 DEF Closes, CloseHandle
  <2>2. handles'[h] = IF r.h = h THEN Closed ELSE handles[h]
    BY <1>1, <2>1
  <2>3. Handle(Closed)
    BY DEF Handle
  <2> QED
    BY <1>1, <1>7, <2>2, <2>3
<1>8. CASE Writes(r)
  <2>1. r.h # h => handles'[h] = handles[h]
    BY <1>1, <1>8 DEF Writes
  <2>2. CASE r.h = h
    <3>1. /\ IsSeq(handles[h].data) /\ Len(handles[h].data) \in Nat
          /\ handles[h].pos \in 0..Len(handles[h].data) /\ handles[h] # Closed
          /\ handles[h].mode = "write"
      BY <1>8, <2>2, HandleFacts DEF Writes
    <3> DEFINE put == Put(handles[h].data, handles[h].pos, r.piece)
    <3>2. handles'[h] = [mode |-> "write", file |-> handles[h].file,
                         data |-> put, pos |-> handles[h].pos + 1]
      BY <1>1, <1>8, <2>2 DEF Writes
    <3>3. IsSeq(put) /\ handles[h].pos + 1 \in 0..Len(put)
      BY <3>1, PutFacts
    <3> HIDE DEF put
    <3>4. Handle(handles'[h])
      BY <3>2, <3>3 DEF Handle
    <3>5. /\ handles'[h].mode = handles[h].mode /\ handles'[h].file = handles[h].file
          /\ handles'[h].data = put /\ handles'[h].pos = handles[h].pos + 1
      BY <3>1, <3>2
    <3> QED
      BY <1>8, <2>2, <3>1, <3>4, <3>5 DEF put
  <2> QED
    BY <1>1, <2>1, <2>2
<1>9. CASE Refused(a) \/ Deletes(r) \/ (r.cmd \in {"PING", "SET_TIME"} /\ UNCHANGED srvVars)
  BY <1>2, <1>9 DEF Refused, Deletes, srvVars
<1> QED
  BY <1>4, <1>5, <1>6, <1>7, <1>8, <1>9 DEF Effect

\* What becomes of the card: a handle that is closed puts its data there, unless
\* the card does not keep them.
Stores(r) == Closes(r) /\ handles[r.h].mode = "write"
LEMMA DiskServed ==
  ASSUME CardRight, NEW r, NEW a, Effect(r, a)
  PROVE  /\ disk' = [f \in DOMAIN disk' |-> disk'[f]]
         /\ \A f \in DOMAIN disk : (r.cmd = "DELETE" => f # r.file) => f \in DOMAIN disk'
         /\ \A f \in DOMAIN disk' :
              \/ f \in DOMAIN disk /\ disk'[f] = disk[f]
              \/ OpensToWrite(r, a) /\ f = r.file /\ disk'[f] = <<>>
              \/ Stores(r) /\ handles[r.h].file = f /\ disk'[f] = handles[r.h].data
         /\ r.cmd = "WRITE_OPEN" /\ a.status = "OK" => r.file \in DOMAIN disk'
         /\ \A f : ~(Stores(r) /\ handles[r.h].file = f) => (f \in unkept' <=> f \in unkept)
         /\ Stores(r) /\ handles[r.h].file \in DOMAIN disk =>
              \/ handles[r.h].file \in unkept'
              \/ disk'[handles[r.h].file] = handles[r.h].data
<1>1. disk = [f \in DOMAIN disk |-> disk[f]]
  BY DEF CardRight
<1>2. CASE Closes(r)
  <2> DEFINE file == handles[r.h].file
             data == handles[r.h].data
  <2>1. SyncHandle(r.h) /\ r.cmd \in {"READ_CLOSE", "WRITE_CLOSE"}
    BY <1>2 DEF Closes, CloseHandle
  <2>2. CASE handles[r.h].mode = "write" /\ disk' = Synced(r.h) /\ unkept' = unkept \ {file}
    <3>1. CASE file \in DOMAIN disk
      <4>1. disk' = [disk EXCEPT ![file] = data]
        BY <2>2, <3>1 DEF Synced
      <4>2. DOMAIN disk' = DOMAIN disk
            /\ \A f \in DOMAIN disk : disk'[f] = IF f = file THEN data ELSE disk[f]
        BY <1>1, <4>1
      <4>3. disk' = [f \in DOMAIN disk' |-> disk'[f]]
        BY <1>1, <4>1
      <4> HIDE DEF data
      <4> QED
        BY <1>2, <2>1, <2>2, <3>1, <4>2, <4>3 DEF Stores, data
    <3>2. CASE file \notin DOMAIN disk
      <4>1. disk' = disk
        BY <2>2, <3>2 DEF Synced
      <4> QED
        BY <1>1, <1>2, <2>1, <2>2, <3>2, <4>1 DEF Stores
    <3> QED
      BY <3>1, <3>2
  <2>3. CASE handles[r.h].mode = "write" /\ disk' = disk /\ unkept' = unkept \cup {file}
    BY <1>1, <1>2, <2>1, <2>3 DEF Stores
  <2>4. CASE handles[r.h].mode = "read" /\ UNCHANGED <<disk, unkept>>
    BY <1>1, <2>1, <2>4 DEF Stores
  <2> QED
    BY <2>1, <2>2, <2>3, <2>4 DEF SyncHandle
<1>3. CASE OpensToWrite(r, a)
  <2>1. /\ r.cmd = "WRITE_OPEN" /\ unkept' = unkept
        /\ disk' = [f \in DOMAIN disk \cup {r.file} |-> IF f = r.file THEN <<>> ELSE disk[f]]
    BY <1>3 DEF OpensToWrite
  <2>2. /\ DOMAIN disk' = DOMAIN disk \cup {r.file}
        /\ \A f \in DOMAIN disk \cup {r.file} : disk'[f] = IF f = r.file THEN <<>> ELSE disk[f]
    BY <2>1
  <2>3. disk' = [f \in DOMAIN disk' |-> disk'[f]]
    BY <2>1
  <2>4. ~Stores(r)
    BY <2>1 DEF Stores, Closes
  <2> QED
    BY <1>3, <2>1, <2>2, <2>3, <2>4
<1>4. CASE Deletes(r)
  <2>1. /\ r.cmd = "DELETE" /\ unkept' = unkept
        /\ disk' = [f \in DOMAIN disk \ {r.file} |-> disk[f]]
    BY <1>4 DEF Deletes
  <2>2. /\ DOMAIN disk' = DOMAIN disk \ {r.file}
        /\ \A f \in DOMAIN disk \ {r.file} : disk'[f] = disk[f]
    BY <2>1
  <2>3. disk' = [f \in DOMAIN disk' |-> disk'[f]]
    BY <2>1
  <2>4. ~Stores(r)
    BY <2>1 DEF Stores, Closes
  <2> QED
    BY <2>1, <2>2, <2>3, <2>4
<1>5. CASE ~Closes(r) /\ ~OpensToWrite(r, a) /\ ~Deletes(r)
  <2>1. UNCHANGED <<disk, unkept>> /\ ~(r.cmd = "WRITE_OPEN" /\ a.status = "OK")
    BY <1>5 DEF Effect, Refused, OpensToRead, Reads, Writes, srvVars
  <2>2. ~Stores(r)
    BY <1>5 DEF Stores
  <2> QED
    BY <1>1, <2>1, <2>2
<1> QED
  BY <1>2, <1>3, <1>4, <1>5

LEMMA CardServed ==
  ASSUME CardRight, NEW r, NEW a, Effect(r, a)
  PROVE  CardRight'
<1>1. \A h \in HandleIds : Handle(handles'[h])
  BY HandleServed
<1>2. handles' = [h \in HandleIds |-> handles'[h]]
  <2>1. handles = [h \in HandleIds |-> handles[h]]
    BY DEF CardRight
  <2> QED
    BY <2>1 DEF Effect, Refused, OpensToRead, Reads, Closes, CloseHandle, OpensToWrite,
                Opens, Writes, Deletes, srvVars
<1>3. ASSUME NEW f \in DOMAIN disk' PROVE IsSeq(disk'[f])
  <2>1. CASE f \in DOMAIN disk /\ disk'[f] = disk[f]
    BY <2>1 DEF CardRight
  <2>2. CASE disk'[f] = <<>>
    BY <2>2, SmallSeqs
  <2>3. CASE Stores(r) /\ disk'[f] = handles[r.h].data
    BY <2>3, HandleFacts DEF Stores, Closes
  <2> QED
    BY <2>1, <2>2, <2>3, DiskServed
<1>4. disk' = [f \in DOMAIN disk' |-> disk'[f]]
  BY DiskServed
<1> QED
  BY <1>1, <1>2, <1>3, <1>4 DEF CardRight, Handle, HandleIds

-----------------------------------------------------------------------------
(* The STM32's turn keeps the invariant.                                   *)

LEMMA ReadServed ==
  ASSUME CardRight, TaskRight, AsksRight, ReadRight, ClockRight, NEW r, NEW a, Served(r, a)
  PROVE  ReadRight'
<1>1. /\ task' = task /\ (excused => excused') /\ Calling' = Calling /\ Sent' \subseteq Sent
      /\ Frame(r) /\ r \in Sent /\ Effect(r, a)
  BY DEF Served, Idling
<1>2. \A content : On(content) => On(content)'
  BY <1>1 DEF On
<1>3. ASSUME NEW h \in HandleIds, handles[h].mode = "read", ~(Closes(r) /\ r.h = h)
      PROVE  handles'[h].mode = "read" /\ handles'[h].data = handles[h].data
  <2>1. handles[h] # Closed /\ handles[h].mode # "write"
    BY <1>3 DEF Closed
  <2>2. Writes(r) => r.h # h
    BY <2>1 DEF Writes
  <2> QED
    BY <1>1, <1>3, <2>1, <2>2, HandleServed
<1>4. ASSUME NEW h, Reading(h), ~(Closes(r) /\ r.h = h)
      PROVE  Reading(h)' /\ handles'[h].data = handles[h].data
  BY <1>2, <1>3, <1>4 DEF Reading
<1>5. ASSUME Calling, NEW b \in Done("READ_OPEN")' PROVE Reading(b.h)'
  <2>1. /\ r = request /\ r.cmd = "READ_OPEN"
        /\ b \in Done("READ_OPEN") \/ (b = a /\ a.status = "OK")
    BY <1>5 DEF Served, Commands
  <2>2. CASE b \in Done("READ_OPEN")
    <3>1. Reading(b.h) /\ ~Closes(r)
      BY <1>5, <2>1, <2>2 DEF ReadRight, Closes
    <3> QED
      BY <1>4, <3>1
  <2>3. CASE b = a /\ a.status = "OK"
    <3>2. OpensToRead(r, a)
      BY <1>1, <2>1, <2>3 DEF Effect, Refused, Reads, Closes, OpensToWrite, Writes, Deletes
    <3>3. a.h \in HandleIds /\ handles[a.h] = Closed /\ r.file \in DOMAIN disk
      BY <3>2 DEF OpensToRead, Opens
    <3>4. handles'[a.h].mode = "read" /\ handles'[a.h].data = disk[r.file]
      <4>1. handles' = [handles EXCEPT ![a.h] =
              [mode |-> "read", file |-> r.file, data |-> disk[r.file], pos |-> 0]]
        BY <3>2 DEF OpensToRead, Opens
      <4>2. handles = [h \in HandleIds |-> handles[h]]
        BY DEF CardRight
      <4> QED
        BY <3>3, <4>1, <4>2
    <3>5. task.kind = "sync" => r.file = Cfg
      BY <1>5, <2>1 DEF AsksRight, File
    <3>6. On(disk[r.file])
      BY <3>3, <3>5 DEF On, ClockRight, OnCard
    <3> QED
      BY <1>2, <2>3, <3>3, <3>4, <3>6 DEF Reading
  <2> QED
    BY <2>1, <2>2, <2>3
<1>6. ASSUME task.step = "data"
      PROVE  /\ Reading(task.h)' /\ handles'[task.h].data = handles[task.h].data
             /\ \A s \in Sent' : s.cmd \in {"garbled", "READ_OPEN", "READ_CHUNK"}
  <2>1. Reading(task.h) /\ \A s \in Sent : s.cmd \in {"garbled", "READ_OPEN", "READ_CHUNK"}
    BY <1>6 DEF ReadRight
  <2>2. ~Closes(r)
    BY <1>1, <2>1 DEF Closes
  <2> QED
    BY <1>1, <1>4, <2>1, <2>2
<1>7. ASSUME Calling, task.step = "data", NEW b \in Done("READ_CHUNK")'
      PROVE  Chunk(b, handles[task.h].data, Len(task.got))
  <2>1. /\ r = request /\ r.cmd = "READ_CHUNK"
        /\ b \in Done("READ_CHUNK") \/ (b = a /\ a.status = "OK")
    BY <1>7 DEF Served, Commands
  <2>2. CASE b \in Done("READ_CHUNK")
    BY <1>7, <2>2 DEF ReadRight
  <2>3. CASE b = a /\ a.status = "OK"
    <3>1. Reads(r, a)
      BY <1>1, <2>1, <2>3 DEF Effect, Refused, OpensToRead, Closes, OpensToWrite, Writes, Deletes
    <3>2. r.h = task.h /\ r.offset = Len(task.got)
      BY <1>7, <2>1 DEF AsksRight
    <3>3. handles[task.h].mode = "read" /\ Len(task.got) <= Len(handles[task.h].data)
      BY <1>7 DEF ReadRight, Reading
    <3> QED
      BY <2>3, <3>1, <3>2, <3>3 DEF Reads
  <2> QED
    BY <2>1, <2>2, <2>3
<1>8. ASSUME task.step = "data"
      PROVE  /\ Len(task.got) <= Len(handles'[task.h].data)
             /\ task.got = SubSeq(handles'[task.h].data, 1, Len(task.got))
             /\ Calling => \A b \in Done("READ_CHUNK")' :
                  Chunk(b, handles'[task.h].data, Len(task.got))
  BY <1>6, <1>7, <1>8 DEF ReadRight
<1>9. task.step = "shut" /\ task.ok => On(task.got)'
  BY <1>1, <1>2 DEF ReadRight
<1>10. Calling => \A b \in Done("READ_OPEN")' : Reading(b.h)'
  BY <1>5
<1>11. task.step = "open" => task.got = <<>>
  BY DEF ReadRight
<1> QED
  BY <1>1, <1>6, <1>8, <1>9, <1>10, <1>11 DEF ReadRight, Chunk

LEMMA WriterStays ==
  ASSUME CardRight, NEW r, NEW a, Effect(r, a), NEW h, Writer(h), ~(Closes(r) /\ r.h = h)
  PROVE  /\ Writer(h)'
         /\ \/ handles'[h].data = handles[h].data
               /\ (handles'[h].pos = handles[h].pos \/ r.cmd = "READ_CHUNK")
            \/ /\ Writes(r) /\ r.h = h
               /\ handles'[h].data = Put(handles[h].data, handles[h].pos, r.piece)
               /\ handles'[h].pos = handles[h].pos + 1
<1>1. h \in HandleIds /\ handles[h] # Closed
  BY DEF Writer, Closed
<1> QED
  BY <1>1, HandleServed DEF Writer

\* No handle begins to write the file but by an open.
LEMMA NoNewWriter ==
  ASSUME CardRight, NEW r, NEW a, Effect(r, a), NEW h, Writer(h)'
  PROVE  Writer(h) \/ (OpensToWrite(r, a) /\ r.file = IpFile)
<1>1. h \in HandleIds /\ handles'[h].mode = "write" /\ handles'[h].file = IpFile
  BY DEF Writer
<1>2. Closed.mode = "closed"
  BY DEF Closed
<1>3. CASE handles[h] = Closed
  BY <1>1, <1>2, <1>3, HandleServed
<1>4. CASE handles[h] # Closed
  BY <1>1, <1>2, <1>4, HandleServed DEF Writer
<1> QED
  BY <1>3, <1>4

\* A line of the address is written to the end of the file.
LEMMA LineWritten ==
  ASSUME CardRight, Writing, NEW r, r.piece = [ip |-> address]
  PROVE  /\ Put(handles[task.h].data, handles[task.h].pos, r.piece) # <<>>
         /\ Address(Put(handles[task.h].data, handles[task.h].pos, r.piece))
         /\ handles[task.h].pos + 1 = Len(Put(handles[task.h].data, handles[task.h].pos, r.piece))
<1> DEFINE d   == handles[task.h].data
           pos == handles[task.h].pos
           put == Put(d, pos, r.piece)
<1>1. Used(task.h)
  BY DEF Writing, Writer, Used, Closed
<1>2. IsSeq(d) /\ Len(d) \in Nat /\ pos = Len(d) /\ pos \in 0..Len(d)
  BY <1>1, HandleFacts DEF Writing
<1>3. \A i \in 1..Len(d) : d[i] = [ip |-> address]
  BY DEF Writing, Address
<1> HIDE DEF d, pos
<1>4. /\ put # <<>> /\ Len(put) = pos + 1
      /\ \A i \in 1..(pos + 1) : put[i] = IF i = pos + 1 THEN r.piece ELSE d[i]
  BY <1>2, PutFacts
<1> HIDE DEF put
<1>5. \A i \in 1..Len(put) : put[i] = [ip |-> address]
  BY <1>2, <1>3, <1>4
<1> QED
  BY <1>4, <1>5 DEF Address, put, d, pos

\* While the file is being written.
LEMMA WritingServed ==
  ASSUME CardRight, TaskRight, Writing, NEW r, NEW a, Served(r, a), ~Closes(r),
         r.cmd # "READ_CHUNK"
  PROVE  /\ Writing'
         /\ handles[task.h].data # <<>> => handles'[task.h].data # <<>>
         /\ Writes(r) => handles'[task.h].data # <<>>
<1>1. /\ UNCHANGED <<task, address>> /\ Sent' \subseteq Sent /\ r \in Sent /\ Frame(r) /\ Effect(r, a)
  BY DEF Served, Idling
<1>2. Writer(task.h) /\ IpFile \in DOMAIN disk
  BY DEF Writing
<1>3. /\ Writer(task.h)'
      /\ \/ handles'[task.h].data = handles[task.h].data /\ handles'[task.h].pos = handles[task.h].pos
         \/ /\ Writes(r) /\ r.h = task.h
            /\ handles'[task.h].data = Put(handles[task.h].data, handles[task.h].pos, r.piece)
            /\ handles'[task.h].pos = handles[task.h].pos + 1
  BY <1>1, <1>2, WriterStays
<1>4. IpFile \in DOMAIN disk'
  <2>1. r.cmd = "DELETE" => IpFile # r.file
    BY <1>1 DEF Frame, IpFile, Flag
  <2> QED
    BY <1>1, <1>2, <2>1, DiskServed
<1>5. Writes(r) => r.h = task.h /\ r.piece = [ip |-> address]
  BY <1>1 DEF Writing, Writes
<1>6. CASE Writes(r) /\ handles'[task.h].data = Put(handles[task.h].data, handles[task.h].pos, r.piece)
           /\ handles'[task.h].pos = handles[task.h].pos + 1
  <2>1. /\ handles'[task.h].data # <<>> /\ Address(handles'[task.h].data)
        /\ handles'[task.h].pos = Len(handles'[task.h].data)
    BY <1>5, <1>6, LineWritten
  <2> QED
    BY <1>1, <1>3, <1>4, <2>1 DEF Writing, Address
<1>7. CASE ~Writes(r)
  BY <1>1, <1>3, <1>4, <1>7 DEF Writing, Address
<1>8. CASE Writes(r) /\ handles'[task.h].data = handles[task.h].data
  <2>1. Used(task.h) /\ task.h \in HandleIds
    BY <1>2 DEF Writer, Used, Closed
  <2>2. handles'[task.h].data = Put(handles[task.h].data, handles[task.h].pos, r.piece)
        /\ handles'[task.h].pos = handles[task.h].pos + 1
    <3>1. handles = [h \in HandleIds |-> handles[h]]
      BY DEF CardRight
    <3> QED
      BY <1>5, <1>8, <2>1, <3>1 DEF Writes
  <2> QED
    BY <1>6, <1>8, <2>2
<1> QED
  BY <1>3, <1>6, <1>7, <1>8

LEMMA AddressServed ==
  ASSUME CardRight, LineRight, TaskRight, AsksRight, AddressRight, NEW r, NEW a, Served(r, a)
  PROVE  AddressRight'
<1> SUFFICES ASSUME task.kind = "address" PROVE AddressRight'
  BY DEF AddressRight, Served, Idling
<1>1. /\ UNCHANGED <<task, address, request>> /\ Calling' = Calling /\ Sent' \subseteq Sent
      /\ Frame(r) /\ r \in Sent /\ Effect(r, a)
  BY DEF Served, Idling
<1>2. File = IpFile
  BY DEF File
<1>3. ASSUME Calling, NEW b \in Done("WRITE_OPEN")'
      PROVE  Writer(b.h)' /\ handles'[b.h].data = <<>> /\ IpFile \in DOMAIN disk'
  <2>1. /\ r = request /\ r.cmd = "WRITE_OPEN"
        /\ b \in Done("WRITE_OPEN") \/ (b = a /\ a.status = "OK")
    BY <1>3 DEF Served, Commands
  <2>2. r.file = IpFile
    BY <1>2, <1>3, <2>1 DEF AsksRight
  <2>3. CASE b \in Done("WRITE_OPEN")
    <3>1. Writer(b.h) /\ handles[b.h].data = <<>> /\ IpFile \in DOMAIN disk
      BY <1>3, <2>3 DEF AddressRight
    <3>2. ~Closes(r) /\ ~Writes(r) /\ r.cmd # "DELETE"
      BY <2>1 DEF Closes, Writes
    <3>3. Writer(b.h)' /\ handles'[b.h].data = handles[b.h].data
      BY <1>1, <3>1, <3>2, WriterStays
    <3> QED
      BY <1>1, <3>1, <3>2, <3>3, DiskServed
  <2>4. CASE b = a /\ a.status = "OK"
    <3>1. OpensToWrite(r, a)
      BY <1>1, <2>1, <2>4 DEF Effect, Refused, OpensToRead, Reads, Closes, Writes, Deletes
    <3>2. a.h \in HandleIds /\ handles[a.h] = Closed
      BY <3>1 DEF OpensToWrite, Opens
    <3>3. handles'[a.h] = [mode |-> "write", file |-> IpFile, data |-> <<>>, pos |-> 0]
      <4>1. handles' = [handles EXCEPT ![a.h] =
              [mode |-> "write", file |-> r.file, data |-> <<>>, pos |-> 0]]
        BY <3>1 DEF OpensToWrite, Opens
      <4>2. handles = [h \in HandleIds |-> handles[h]]
        BY DEF CardRight
      <4> QED
        BY <2>2, <3>2, <4>1, <4>2
    <3>4. IpFile \in DOMAIN disk'
      BY <1>1, <2>1, <2>2, <2>4, DiskServed
    <3> QED
      BY <2>4, <3>2, <3>3, <3>4 DEF Writer
  <2> QED
    BY <2>1, <2>3, <2>4
<1>4. ASSUME task.step = "write"
      PROVE  /\ Writing'
             /\ \A s \in Sent' : s.cmd \in {"garbled", "WRITE_OPEN", "WRITE_CHUNK"}
             /\ Calling /\ Done("WRITE_CHUNK")' # {} => handles'[task.h].data # <<>>
  <2>1. Writing /\ \A s \in Sent : s.cmd \in {"garbled", "WRITE_OPEN", "WRITE_CHUNK"}
    BY <1>4 DEF AddressRight
  <2>2. ~Closes(r) /\ r.cmd # "READ_CHUNK"
    BY <1>1, <2>1 DEF Closes
  <2>3. /\ Writing'
        /\ handles[task.h].data # <<>> => handles'[task.h].data # <<>>
        /\ Writes(r) => handles'[task.h].data # <<>>
    BY <2>1, <2>2, WritingServed
  <2>4. ASSUME Calling, NEW b \in Done("WRITE_CHUNK")' PROVE handles'[task.h].data # <<>>
    <3>1. /\ r = request /\ r.cmd = "WRITE_CHUNK"
          /\ b \in Done("WRITE_CHUNK") \/ (b = a /\ a.status = "OK")
      BY <2>4 DEF Served, Commands
    <3>2. CASE b \in Done("WRITE_CHUNK")
      BY <1>4, <2>3, <2>4, <3>2 DEF AddressRight
    <3>3. CASE b = a /\ a.status = "OK"
      <4>1. Writes(r)
        BY <1>1, <3>1, <3>3 DEF Effect, Refused, OpensToRead, Reads, Closes, OpensToWrite, Deletes
      <4> QED
        BY <2>3, <4>1
    <3> QED
      BY <3>1, <3>2, <3>3
  <2> QED
    BY <1>1, <2>1, <2>3, <2>4
<1>5. ASSUME task.step = "close", task.ok
      PROVE  \/ /\ Writing' /\ handles'[task.h].data # <<>>
                /\ \A s \in Sent' : s.cmd \in {"garbled", "WRITE_CHUNK"} \/ (Calling /\ s = request)
                /\ Calling => Done("WRITE_CLOSE")' = {}
             \/ Closing'
  <2>1. Calling => request.cmd = "WRITE_CLOSE" /\ request.h = task.h
    BY <1>5 DEF AsksRight, LineRight, Frame, Commands
  <2>2. CASE Closing
    <3>1. Calling /\ r = request
      BY <1>1, <2>2, FrameFacts DEF Closing
    <3>2. r.h = task.h /\ handles[task.h] = Closed
      BY <2>1, <2>2, <3>1 DEF Closing
    <3>3. UNCHANGED <<disk, handles, unkept>>
      BY <1>1, <2>1, <3>1, <3>2 DEF Effect, Refused, OpensToRead, Reads, Closes, Used,
           OpensToWrite, Writes, Deletes, srvVars
    <3> QED
      BY <1>1, <2>2, <3>3 DEF Closing, OnFile, Address
  <2>3. CASE /\ Writing /\ handles[task.h].data # <<>>
             /\ \A s \in Sent : s.cmd \in {"garbled", "WRITE_CHUNK"} \/ (Calling /\ s = request)
             /\ Calling => Done("WRITE_CLOSE") = {}
    <3>1. CASE Closes(r)
      <4>1. Calling /\ r = request
        BY <1>1, <2>3, <3>1, FrameFacts DEF Closes
      <4>2. r.h = task.h /\ Sent \subseteq {request, Garbled}
        BY <2>1, <4>1 DEF Served
      <4>3. Writer(task.h) /\ IpFile \in DOMAIN disk
        BY <2>3 DEF Writing
      <4>4. handles'[task.h] = Closed
        <5>1. handles' = [handles EXCEPT ![r.h] = Closed] /\ handles = [h \in HandleIds |-> handles[h]]
          BY <3>1 DEF Closes, CloseHandle, CardRight
        <5> QED
          BY <4>2, <4>3, <5>1 DEF Writer
      <4>5. IpFile \in unkept' \/ disk'[IpFile] = handles[task.h].data
        BY <1>1, <3>1, <4>2, <4>3, DiskServed DEF Writer, Stores
      <4>6. IpFile \in DOMAIN disk'
        BY <1>1, <3>1, <4>3, DiskServed DEF Closes
      <4>7. IpFile \notin unkept' => Address(disk'[IpFile]) /\ disk'[IpFile] # <<>>
        BY <2>3, <4>5 DEF Writing
      <4> QED
        BY <1>1, <4>1, <4>2, <4>4, <4>6, <4>7 DEF Closing, OnFile, Address
    <3>2. CASE ~Closes(r)
      <4>1. r.cmd # "READ_CHUNK"
        BY <1>1, <2>1, <2>3
      <4>2. Writing' /\ handles'[task.h].data # <<>>
        BY <2>3, <3>2, <4>1, WritingServed
      <4>3. ASSUME Calling, NEW b \in Done("WRITE_CLOSE")' PROVE FALSE
        <5>1. /\ r = request /\ r.cmd = "WRITE_CLOSE"
              /\ b \in Done("WRITE_CLOSE") \/ (b = a /\ a.status = "OK")
          BY <4>3 DEF Served, Commands
        <5>2. a.status = "OK"
          BY <2>3, <4>3, <5>1
        <5> QED
          BY <1>1, <3>2, <5>1, <5>2 DEF Effect, Refused, OpensToRead, Reads, OpensToWrite, Writes, Deletes
      <4> QED
        BY <1>1, <2>3, <4>2, <4>3
    <3> QED
      BY <3>1, <3>2
  <2> QED
    BY <1>5, <2>2, <2>3 DEF AddressRight
<1> QED
  BY <1>1, <1>3, <1>4, <1>5 DEF AddressRight

LEMMA FileServed ==
  ASSUME CardRight, LineRight, TaskRight, AsksRight, FileRight, NEW r, NEW a, Served(r, a)
  PROVE  FileRight'
<1> SUFFICES ASSUME online, task.kind # "address", ~ip_file_pending
             PROVE  FileRight'
  BY DEF FileRight, Served, Idling
<1>1. /\ UNCHANGED <<task, address, online, ip_file_pending, request>>
      /\ Calling' = Calling /\ Sent' \subseteq Sent /\ Frame(r) /\ r \in Sent /\ Effect(r, a)
  BY DEF Served, Idling
<1>2. /\ OnFile
      /\ \A s \in Sent : /\ s.cmd = "WRITE_OPEN" => s.file # IpFile
                         /\ s.cmd \in {"READ_CLOSE", "WRITE_CLOSE"} => ~Writer(s.h)
      /\ task.step \in {"data", "shut", "write", "close"} => ~Writer(task.h)
      /\ Calling => \A b \in Done("READ_OPEN") \cup Done("WRITE_OPEN") : ~Writer(b.h)
  BY DEF FileRight
<1>3. ~(OpensToWrite(r, a) /\ r.file = IpFile)
  <2>1. r.cmd = "WRITE_OPEN" => r.file # IpFile
    BY <1>1, <1>2
  <2> QED
    BY <2>1 DEF OpensToWrite
<1>4. ASSUME NEW h, Writer(h)' PROVE Writer(h)
  <2>1. Effect(r, a)
    BY <1>1
  <2> QED
    BY <1>3, <1>4, <2>1, NoNewWriter
<1>5. OnFile'
  <2>1. IpFile \in DOMAIN disk'
    <3>1. r.cmd = "DELETE" => IpFile # r.file
      BY <1>1 DEF Frame, IpFile, Flag
    <3> QED
      BY <1>1, <1>2, <3>1, DiskServed DEF OnFile
  <2>2. ~(Stores(r) /\ handles[r.h].file = IpFile)
    BY <1>1, <1>2 DEF Stores, Closes, Used, Writer
  <2>3. disk'[IpFile] = disk[IpFile] /\ (IpFile \in unkept' <=> IpFile \in unkept)
    BY <1>1, <1>3, <2>1, <2>2, DiskServed
  <2> QED
    BY <1>1, <1>2, <2>1, <2>3 DEF OnFile, Address
<1>6. ASSUME Calling, NEW b \in Done("READ_OPEN")' \cup Done("WRITE_OPEN")' PROVE ~Writer(b.h)'
  <2>1. \/ b \in Done("READ_OPEN") \cup Done("WRITE_OPEN")
        \/ b = a /\ a.status = "OK" /\ r.cmd \in {"READ_OPEN", "WRITE_OPEN"}
    BY <1>6 DEF Served, Commands
  <2>2. CASE b \in Done("READ_OPEN") \cup Done("WRITE_OPEN")
    BY <1>2, <1>4, <1>6, <2>2
  <2>3. CASE b = a /\ a.status = "OK" /\ r.cmd \in {"READ_OPEN", "WRITE_OPEN"}
    <3>1. handles[a.h] = Closed
      BY <1>1, <2>3 DEF Effect, Refused, OpensToRead, OpensToWrite, Opens, Reads, Closes, Writes, Deletes
    <3>2. ~Writer(a.h)
      BY <3>1 DEF Writer, Closed
    <3> QED
      BY <1>4, <2>3, <3>2
  <2> QED
    BY <2>1, <2>2, <2>3
<1> QED
  BY <1>1, <1>2, <1>4, <1>5, <1>6 DEF FileRight

LEMMA ClockServed ==
  ASSUME ClockRight, NEW r, NEW a, Served(r, a)
  PROVE  ClockRight'
<1>1. /\ UNCHANGED <<task, online, ntp_stop_retrying, request>> /\ Calling' = Calling
      /\ excused' = (excused \/ ~OnCard(disk').on)
      /\ IF r.cmd = "SET_TIME" THEN rtc' = <<r.zone>> ELSE rtc' = rtc
  BY DEF Served, Idling
<1>2. <<r.zone>> # <<>>
  OBVIOUS
<1>3. rtc # <<>> => rtc' # <<>>
  BY <1>1, <1>2
<1>4. ASSUME Calling, NEW b \in Done("SET_TIME")' PROVE rtc' # <<>>
  <2>1. r.cmd = "SET_TIME"
    BY <1>4 DEF Served, Commands
  <2> QED
    BY <1>1, <1>2, <2>1
<1>5. ~OnCard(disk)'.on => excused'
  BY <1>1
<1> QED
  BY <1>1, <1>3, <1>4, <1>5 DEF ClockRight, Reconnecting

-----------------------------------------------------------------------------
(* Frames on their way, and calls.                                         *)

\* What a request may be, at its step.
LEMMA RequestFacts ==
  ASSUME Calling, LineRight, TaskRight, AsksRight
  PROVE  /\ task.step = "data" => request.cmd = "READ_CHUNK"
         /\ task.step = "write" =>
              request.cmd = "WRITE_CHUNK" /\ request.h = task.h /\ request.piece = Piece
         /\ task.step = "close" => request.cmd = "WRITE_CLOSE" /\ request.h = task.h
         /\ request.cmd = "WRITE_OPEN" => request.file = File
         /\ request.cmd \in {"READ_CLOSE", "WRITE_CLOSE"} =>
              request.h = task.h /\ task.step \in {"shut", "close"}
         /\ task.step \notin {"none", "try", "ask"}
BY DEF LineRight, Frame, Commands, AsksRight

LEMMA FileNames ==
  /\ task.kind = "address" => File = IpFile /\ Piece = [ip |-> address]
  /\ task.kind # "address" => File # IpFile
  /\ task.kind = "sync" => File = Cfg
BY DEF File, Piece, IpFile, Cfg, Nets, Flag

\* Only frames move.
Moves ==
  /\ UNCHANGED <<srvVars, rtc, request>> /\ Idling /\ Calling' = Calling
  /\ excused => excused'
  /\ Sent' \subseteq Sent \cup {Garbled} \cup {r \in {request} : Calling}
  /\ Calling => Mine' \subseteq Mine

LEMMA MovesKeep ==
  ASSUME TasksRight, Moves, LineRight', ~OnCard(disk).on => excused'
  PROVE  TasksRight'
<1>1. /\ UNCHANGED <<disk, handles, unkept, rtc, request, task, ntp_stop_retrying,
                     ip_file_pending, online, address>>
      /\ Calling' = Calling /\ (excused => excused')
      /\ \A r \in Sent' : r \in Sent \/ r = Garbled \/ (Calling /\ r = request)
      /\ \A cmd : Calling => Done(cmd)' \subseteq Done(cmd)
  BY DEF Moves, Idling, Done, srvVars
<1>2. LineRight /\ TaskRight /\ AsksRight
  BY DEF TasksRight
<1>3. TaskRight' /\ CardRight'
  BY <1>1 DEF TasksRight, TaskRight, CardRight, Handle, HandleIds
<1>4. AsksRight'
  BY <1>1, <1>2 DEF AsksRight, File, Piece
<1>5. \A content : On(content) => On(content)'
  BY <1>1 DEF On
<1>6. ReadRight'
  <2>1. \A h : Reading(h) => Reading(h)'
    BY <1>1, <1>5 DEF Reading
  <2>2. ASSUME task.step = "data", NEW r \in Sent' PROVE r.cmd \in {"garbled", "READ_OPEN", "READ_CHUNK"}
    BY <1>1, <1>2, <2>2, FrameFacts, RequestFacts DEF TasksRight, ReadRight
  <2>3. /\ Calling => \A a \in Done("READ_OPEN") : Reading(a.h)
        /\ task.step = "open" => task.got = <<>>
        /\ task.step = "data" =>
             /\ Reading(task.h)
             /\ Len(task.got) \in 0..Len(handles[task.h].data)
             /\ task.got = SubSeq(handles[task.h].data, 1, Len(task.got))
             /\ Calling => \A a \in Done("READ_CHUNK") :
                  Chunk(a, handles[task.h].data, Len(task.got))
        /\ task.step = "shut" /\ task.ok => On(task.got)
    BY DEF TasksRight, ReadRight
  <2> QED
    BY <1>1, <1>5, <2>1, <2>2, <2>3 DEF ReadRight, Chunk
<1>7. AddressRight'
  <2> SUFFICES ASSUME task.kind = "address" PROVE AddressRight'
    BY <1>1 DEF AddressRight
  <2>1. File = IpFile /\ Piece = [ip |-> address]
    BY FileNames
  <2>2. /\ \A h : Writer(h) => Writer(h)'
        /\ OnFile => OnFile'
        /\ \A content : Address(content) => Address(content)'
    BY <1>1 DEF Writer, OnFile, Address
  <2>3. ASSUME Writing, Calling => (request.cmd = "WRITE_CHUNK" => request.h = task.h /\ request.piece = [ip |-> address])
        PROVE  Writing'
    BY <1>1, <2>2, <2>3, FrameFacts DEF Writing
  <2>4. Closing => Closing'
    BY <1>1, <2>2 DEF Closing
  <2>5. Calling => \A a \in Done("WRITE_OPEN")' :
          Writer(a.h)' /\ handles'[a.h].data = <<>> /\ IpFile \in DOMAIN disk'
    BY <1>1, <2>2 DEF TasksRight, AddressRight
  <2>6. ASSUME task.step = "write"
        PROVE  /\ Writing'
               /\ \A r \in Sent' : r.cmd \in {"garbled", "WRITE_OPEN", "WRITE_CHUNK"}
               /\ Calling /\ Done("WRITE_CHUNK")' # {} => handles'[task.h].data # <<>>
    <3>1. Calling => request.cmd = "WRITE_CHUNK" /\ request.h = task.h /\ request.piece = [ip |-> address]
      BY <1>2, <2>1, <2>6, RequestFacts
    <3>2. /\ Writing /\ \A r \in Sent : r.cmd \in {"garbled", "WRITE_OPEN", "WRITE_CHUNK"}
          /\ Calling /\ Done("WRITE_CHUNK") # {} => handles[task.h].data # <<>>
      BY <2>6 DEF TasksRight, AddressRight
    <3> QED
      BY <1>1, <2>3, <3>1, <3>2, FrameFacts
  <2>7. ASSUME task.step = "close", task.ok
        PROVE  \/ /\ Writing' /\ handles'[task.h].data # <<>>
                  /\ \A r \in Sent' : r.cmd \in {"garbled", "WRITE_CHUNK"} \/ (Calling /\ r = request)
                  /\ Calling => Done("WRITE_CLOSE")' = {}
               \/ Closing'
    <3>1. Calling => request.cmd = "WRITE_CLOSE"
      BY <1>2, <2>7, RequestFacts
    <3>2. CASE /\ Writing /\ handles[task.h].data # <<>>
               /\ \A r \in Sent : r.cmd \in {"garbled", "WRITE_CHUNK"} \/ (Calling /\ r = request)
               /\ Calling => Done("WRITE_CLOSE") = {}
      BY <1>1, <2>3, <3>1, <3>2, FrameFacts
    <3> QED
      BY <2>4, <2>7, <3>2 DEF TasksRight, AddressRight
  <2> QED
    BY <1>1, <2>5, <2>6, <2>7 DEF AddressRight
<1>8. FileRight'
  <2> SUFFICES ASSUME online, task.kind # "address", ~ip_file_pending PROVE FileRight'
    BY <1>1 DEF FileRight
  <2>1. (\A h : Writer(h)' => Writer(h)) /\ (OnFile => OnFile')
    BY <1>1 DEF Writer, OnFile, Address
  <2>2. /\ OnFile
        /\ \A r \in Sent : /\ r.cmd = "WRITE_OPEN" => r.file # IpFile
                           /\ r.cmd \in {"READ_CLOSE", "WRITE_CLOSE"} => ~Writer(r.h)
        /\ task.step \in {"data", "shut", "write", "close"} => ~Writer(task.h)
        /\ Calling => \A a \in Done("READ_OPEN") \cup Done("WRITE_OPEN") : ~Writer(a.h)
    BY DEF TasksRight, FileRight
  <2>3. Calling => /\ request.cmd = "WRITE_OPEN" => request.file # IpFile
                   /\ request.cmd \in {"READ_CLOSE", "WRITE_CLOSE"} => ~Writer(request.h)
    BY <1>2, <2>2, FileNames, RequestFacts
  <2>4. ASSUME NEW r \in Sent'
        PROVE  /\ r.cmd = "WRITE_OPEN" => r.file # IpFile
               /\ r.cmd \in {"READ_CLOSE", "WRITE_CLOSE"} => ~Writer(r.h)
    BY <1>1, <2>2, <2>3, FrameFacts
  <2> QED
    BY <1>1, <2>1, <2>2, <2>4 DEF FileRight
<1>9. ClockRight'
  BY <1>1 DEF TasksRight, ClockRight, Reconnecting, OnCard
<1> QED
  BY <1>3, <1>4, <1>6, <1>7, <1>8, <1>9 DEF TasksRight

LEMMA LinkKeeps ==
  ASSUME TasksRight, LinkStep
  PROVE  TasksRight'
<1>1. /\ LineRight' /\ Calling /\ Calling' /\ request' = request
      /\ Sent' \subseteq Sent \cup {request, Garbled} /\ Mine' \subseteq Mine
  BY LinkMoves DEF TasksRight
<1>2. UNCHANGED <<srvVars, disk, rtc, excused>> /\ Idling
  BY DEF LinkStep, srvVars, taskVars, wifiVars, Idling
<1>3. Moves
  BY <1>1, <1>2 DEF Moves, Calling
<1>4. ~OnCard(disk).on => excused'
  BY <1>2 DEF TasksRight, ClockRight
<1> QED
  BY <1>1, <1>3, <1>4, MovesKeep

LEMMA StmKeeps ==
  ASSUME TasksRight, StmServe
  PROVE  TasksRight'
<1>1. LineRight /\ CardRight
  BY DEF TasksRight
<1>2. LineRight'
  BY <1>1, StmTurn
<1>3. CASE /\ UNCHANGED <<disk, handles, unkept, rtc, request>> /\ Idling
           /\ excused' = (excused \/ ~OnCard(disk').on)
           /\ Calling' = Calling /\ Sent' \subseteq Sent /\ (Calling => Mine' \subseteq Mine)
  <2>1. Moves
    BY <1>3 DEF Moves, srvVars
  <2>2. ~OnCard(disk).on => excused'
    BY <1>3
  <2> QED
    BY <1>2, <2>1, <2>2, MovesKeep
<1>4. ASSUME NEW r, NEW a, Served(r, a)
      PROVE  TasksRight'
  <2>1. ReadRight' /\ AddressRight' /\ FileRight' /\ ClockRight'
    BY <1>4, ReadServed, AddressServed, FileServed, ClockServed DEF TasksRight
  <2>2. CardRight'
    BY <1>1, <1>4, CardServed DEF Served
  <2>3. UNCHANGED <<task, address, request>> /\ Calling' = Calling
    BY <1>4 DEF Served, Idling
  <2>4. TaskRight' /\ AsksRight'
    BY <2>3 DEF TasksRight, TaskRight, AsksRight, File, Piece
  <2> QED
    BY <1>2, <2>1, <2>2, <2>4 DEF TasksRight
<1> QED
  BY <1>1, <1>3, <1>4, StmTurn

\* A call is made.
LEMMA AskKeeps ==
  ASSUME TasksRight, Ask
  PROVE  TasksRight'
<1>1. PICK n \in 0..(ReqRoom + RespRoom) :
        /\ Unused(n)
        /\ \/ At("ping")   /\ Call([cmd |-> "PING"])
           \/ At("open")   /\ Call([cmd |-> "READ_OPEN", no |-> n, file |-> File])
           \/ At("data")   /\ Call([cmd |-> "READ_CHUNK", no |-> n, h |-> task.h, offset |-> Len(task.got)])
           \/ At("shut")   /\ Call([cmd |-> "READ_CLOSE", no |-> n, h |-> task.h])
           \/ At("drop")   /\ Call([cmd |-> "DELETE", no |-> n, file |-> Flag])
           \/ At("create") /\ Call([cmd |-> "WRITE_OPEN", no |-> n, file |-> File])
           \/ At("write")  /\ Call([cmd |-> "WRITE_CHUNK", no |-> n, h |-> task.h, piece |-> Piece])
           \/ At("close")  /\ Call([cmd |-> "WRITE_CLOSE", no |-> n, h |-> task.h])
           \/ At("set")    /\ Call([cmd |-> "SET_TIME", no |-> n, zone |-> task.cfg.zone])
  BY DEF Ask
<1>2. \E frame : /\ Call(frame) /\ (frame.cmd # "PING" => frame.no = n)
                 /\ frame.cmd \in Commands \cup {"PING"}
                 /\ frame.cmd = "PING" => task.step = "ping"
                 /\ frame.cmd = "READ_OPEN" => task.step = "open" /\ frame.file = File
                 /\ frame.cmd = "READ_CHUNK" =>
                      task.step = "data" /\ frame.h = task.h /\ frame.offset = Len(task.got)
                 /\ frame.cmd = "READ_CLOSE" => task.step = "shut" /\ frame.h = task.h
                 /\ frame.cmd = "DELETE" => task.step = "drop" /\ frame.file = Flag
                 /\ frame.cmd = "WRITE_OPEN" => task.step = "create" /\ frame.file = File
                 /\ frame.cmd = "WRITE_CHUNK" =>
                      task.step = "write" /\ frame.h = task.h /\ frame.piece = Piece
                 /\ frame.cmd = "WRITE_CLOSE" => task.step = "close" /\ frame.h = task.h
                 /\ frame.cmd = "SET_TIME" => task.step = "set"
  BY <1>1 DEF At, Commands
<1>3. PICK frame : /\ Call(frame) /\ (frame.cmd # "PING" => frame.no = n)
                   /\ frame.cmd \in Commands \cup {"PING"}
                   /\ frame.cmd = "PING" => task.step = "ping"
                   /\ frame.cmd = "READ_OPEN" => task.step = "open" /\ frame.file = File
                   /\ frame.cmd = "READ_CHUNK" =>
                        task.step = "data" /\ frame.h = task.h /\ frame.offset = Len(task.got)
                   /\ frame.cmd = "READ_CLOSE" => task.step = "shut" /\ frame.h = task.h
                   /\ frame.cmd = "DELETE" => task.step = "drop" /\ frame.file = Flag
                   /\ frame.cmd = "WRITE_OPEN" => task.step = "create" /\ frame.file = File
                   /\ frame.cmd = "WRITE_CHUNK" =>
                        task.step = "write" /\ frame.h = task.h /\ frame.piece = Piece
                   /\ frame.cmd = "WRITE_CLOSE" => task.step = "close" /\ frame.h = task.h
                   /\ frame.cmd = "SET_TIME" => task.step = "set"
  BY <1>2
<1>4. Frame(frame)
  <2>1. task.step = "data" => Len(task.got) \in Nat
    BY DEF TasksRight, ReadRight
  <2> QED
    BY <1>3, <2>1 DEF Frame
<1>5. /\ LineRight' /\ ~Calling /\ Calling' /\ request' = frame /\ Sent' = Sent
      /\ \A cmd \in Commands : Done(cmd)' = {}
  BY <1>1, <1>3, <1>4, CallMade DEF Call, TasksRight
<1>6. UNCHANGED <<disk, handles, unkept, rtc, excused, task, ntp_stop_retrying,
                  ip_file_pending, online, address, misread>>
  BY <1>3 DEF Call, srvVars, taskVars, wifiVars
<1>7. LineRight /\ TaskRight /\ AsksRight
  BY DEF TasksRight
<1>8. TaskRight' /\ CardRight' /\ ClockRight'
  BY <1>5, <1>6 DEF TasksRight, TaskRight, CardRight, Handle, HandleIds, ClockRight, Reconnecting,
     OnCard, Commands
<1>9. AsksRight'
  <2>1. File' = File /\ Piece' = Piece
    BY <1>6 DEF File, Piece
  <2> QED
    BY <1>3, <1>5, <1>6, <2>1 DEF AsksRight
<1>10. Done("READ_OPEN")' = {} /\ Done("READ_CHUNK")' = {} /\ Done("WRITE_OPEN")' = {}
       /\ Done("WRITE_CHUNK")' = {} /\ Done("WRITE_CLOSE")' = {}
  BY <1>5 DEF Commands
<1>11. ReadRight'
  <2>1. \A content : On(content)' = On(content)
    BY <1>6 DEF On
  <2>2. \A h : Reading(h)' = Reading(h)
    BY <1>6, <2>1 DEF Reading
  <2> QED
    BY <1>5, <1>6, <1>10, <2>1, <2>2 DEF TasksRight, ReadRight
<1>12. AddressRight'
  <2>1. /\ Writing' = Writing /\ OnFile' = OnFile
    BY <1>5, <1>6 DEF Writing, Writer, OnFile, Address
  <2>2. Closing => Closing'
    BY <1>5, <1>6, <2>1 DEF Closing
  <2> QED
    BY <1>5, <1>6, <1>10, <2>1, <2>2 DEF TasksRight, AddressRight
<1>13. FileRight'
  <2>1. OnFile' = OnFile /\ \A h : Writer(h)' = Writer(h)
    BY <1>6 DEF OnFile, Address, Writer
  <2> QED
    BY <1>5, <1>6, <1>10, <2>1 DEF TasksRight, FileRight
<1> QED
  BY <1>5, <1>8, <1>9, <1>11, <1>12, <1>13 DEF TasksRight

-----------------------------------------------------------------------------
(* Calls that come back, and what the ESP32 does between calls.            *)

\* The line, the card and what is true of the STM32 are as before, and no call
\* is under way any more.
Rests ==
  /\ LineRight' /\ ~Calling' /\ Sent' = Sent /\ UNCHANGED <<disk, handles, unkept, rtc>>
  /\ excused => excused'

\* A task that has only begun, or holds no handle any more.
LEMMA RestKeeps ==
  ASSUME TasksRight, Rests
  PROVE  /\ CardRight' /\ AsksRight' /\ (~OnCard(disk)'.on => excused')
         /\ /\ task'.step \notin {"data", "shut", "write", "close"}
            /\ task'.step = "open" => task'.got = <<>>
            => ReadRight' /\ AddressRight'
<1>1. ~Calling' /\ UNCHANGED <<disk, handles>> /\ (excused => excused')
  BY DEF Rests
<1>2. CardRight' /\ AsksRight' /\ (~OnCard(disk)'.on => excused')
  BY <1>1 DEF TasksRight, CardRight, Handle, HandleIds, AsksRight, OnCard, ClockRight
<1>3. ASSUME task'.step \notin {"data", "shut", "write", "close"},
             task'.step = "open" => task'.got = <<>>
      PROVE  ReadRight' /\ AddressRight'
  BY <1>1, <1>3 DEF ReadRight, AddressRight
<1> QED
  BY <1>2, <1>3

\* The file of the address is kept by any task but the one that writes it.
LEMMA FileKept ==
  ASSUME TasksRight, Rests, address' = address, online' => online,
         task.kind # "address", ip_file_pending' = ip_file_pending,
         task'.step \in {"data", "shut", "write", "close"} /\ online /\ ~ip_file_pending =>
           ~Writer(task'.h)
  PROVE  FileRight'
<1> SUFFICES ASSUME online', ~ip_file_pending' PROVE FileRight'
  BY DEF FileRight
<1>1. /\ online /\ ~ip_file_pending /\ ~Calling' /\ Sent' = Sent
      /\ UNCHANGED <<disk, handles, unkept, address>>
  BY DEF Rests
<1>2. OnFile' = OnFile /\ \A h : Writer(h)' = Writer(h)
  BY <1>1 DEF OnFile, Address, Writer
<1> QED
  BY <1>1, <1>2 DEF TasksRight, FileRight

LEMMA ClockKept ==
  ASSUME TasksRight, Rests, ~OnCard(disk)'.on => excused',
         /\ online' /\ ~Reconnecting' /\ ntp_stop_retrying' =>
              \/ online /\ ~Reconnecting /\ ntp_stop_retrying
              \/ rtc # <<>>
              \/ excused',
         task'.kind \in {"ping", "connect", "address"} /\ task'.by = "setup" => ~ntp_stop_retrying'
  PROVE  ClockRight'
<1>1. ~Calling' /\ UNCHANGED <<disk, rtc>> /\ (excused => excused')
  BY DEF Rests
<1>2. online /\ ~Reconnecting /\ ntp_stop_retrying => rtc # <<>> \/ excused
  BY DEF TasksRight, ClockRight
<1> QED
  BY <1>1, <1>2 DEF ClockRight

\* A call comes back.
LEMMA Back ==
  ASSUME TasksRight, NEW cmd, Ends(cmd), Returned
  PROVE  /\ LineRight' /\ Calling /\ ~Calling' /\ Sent' = Sent
         /\ UNCHANGED <<disk, handles, unkept, rtc, online, address>>
         /\ request.cmd = cmd /\ Frame(request)
<1>1. ReadAnswer \/ ReturnFailure
  BY DEF Ends, Succeeds, Fails
<1>2. LineRight' /\ Calling /\ ~Calling' /\ Sent' = Sent /\ Frame(request)
  BY <1>1, CallBack DEF TasksRight
<1> QED
  BY <1>2 DEF Ends, Succeeds, Fails, Returned, srvVars, wifiVars

LEMMA Success ==
  ASSUME TasksRight, NEW cmd \in Commands, Succeeds(cmd), ~Misread
  PROVE  Head(resps) \in Done(cmd) /\ Sent \subseteq {request, Garbled}
<1>1. ReadAnswer /\ request.cmd = cmd /\ Head(resps).status = "OK"
  BY DEF Succeeds
<1>2. cmd # "PING"
  BY DEF Commands
<1> QED
  BY <1>1, <1>2, Answered DEF TasksRight, Done

\* The record a task is.
LEMMA TaskParts ==
  ASSUME TaskRight
  PROVE  /\ \A s : [task EXCEPT !.step = s] =
              [kind |-> task.kind, by |-> task.by, step |-> s, h |-> task.h,
               got |-> task.got, ok |-> task.ok, cfg |-> task.cfg]
         /\ \A s, x : [task EXCEPT !.h = x, !.step = s] =
              [kind |-> task.kind, by |-> task.by, step |-> s, h |-> x,
               got |-> task.got, ok |-> task.ok, cfg |-> task.cfg]
         /\ \A s, x : [task EXCEPT !.got = x, !.step = s] =
              [kind |-> task.kind, by |-> task.by, step |-> s, h |-> task.h,
               got |-> x, ok |-> task.ok, cfg |-> task.cfg]
         /\ \A s, x : [task EXCEPT !.ok = x, !.step = s] =
              [kind |-> task.kind, by |-> task.by, step |-> s, h |-> task.h,
               got |-> task.got, ok |-> x, cfg |-> task.cfg]
         /\ \A s, x : [task EXCEPT !.step = s, !.cfg = x] =
              [kind |-> task.kind, by |-> task.by, step |-> s, h |-> task.h,
               got |-> task.got, ok |-> task.ok, cfg |-> x]
<1>1. task = [kind |-> task.kind, by |-> task.by, step |-> task.step, h |-> task.h,
              got |-> task.got, ok |-> task.ok, cfg |-> task.cfg]
  BY DEF TaskRight
<1>2. ASSUME NEW s
      PROVE  [task EXCEPT !.step = s] =
               [kind |-> task.kind, by |-> task.by, step |-> s, h |-> task.h,
                got |-> task.got, ok |-> task.ok, cfg |-> task.cfg]
  BY <1>1
<1>3. ASSUME NEW s, NEW x
      PROVE  [task EXCEPT !.h = x, !.step = s] =
               [kind |-> task.kind, by |-> task.by, step |-> s, h |-> x,
                got |-> task.got, ok |-> task.ok, cfg |-> task.cfg]
  <2> DEFINE T == [task EXCEPT !.h = x]
  <2>1. T = [kind |-> task.kind, by |-> task.by, step |-> task.step, h |-> x,
             got |-> task.got, ok |-> task.ok, cfg |-> task.cfg]
    BY <1>1
  <2>2. [task EXCEPT !.h = x, !.step = s] = [T EXCEPT !.step = s]
    BY <1>1
  <2> HIDE DEF T
  <2>3. [T EXCEPT !.step = s] =
          [kind |-> task.kind, by |-> task.by, step |-> s, h |-> x,
           got |-> task.got, ok |-> task.ok, cfg |-> task.cfg]
    BY <2>1
  <2> QED
    BY <2>2, <2>3
<1>4. ASSUME NEW s, NEW x
      PROVE  [task EXCEPT !.got = x, !.step = s] =
               [kind |-> task.kind, by |-> task.by, step |-> s, h |-> task.h,
                got |-> x, ok |-> task.ok, cfg |-> task.cfg]
  <2> DEFINE T == [task EXCEPT !.got = x]
  <2>1. T = [kind |-> task.kind, by |-> task.by, step |-> task.step, h |-> task.h,
             got |-> x, ok |-> task.ok, cfg |-> task.cfg]
    BY <1>1
  <2>2. [task EXCEPT !.got = x, !.step = s] = [T EXCEPT !.step = s]
    BY <1>1
  <2> HIDE DEF T
  <2>3. [T EXCEPT !.step = s] =
          [kind |-> task.kind, by |-> task.by, step |-> s, h |-> task.h,
           got |-> x, ok |-> task.ok, cfg |-> task.cfg]
    BY <2>1
  <2> QED
    BY <2>2, <2>3
<1>5. ASSUME NEW s, NEW x
      PROVE  [task EXCEPT !.ok = x, !.step = s] =
               [kind |-> task.kind, by |-> task.by, step |-> s, h |-> task.h,
                got |-> task.got, ok |-> x, cfg |-> task.cfg]
  <2> DEFINE T == [task EXCEPT !.ok = x]
  <2>1. T = [kind |-> task.kind, by |-> task.by, step |-> task.step, h |-> task.h,
             got |-> task.got, ok |-> x, cfg |-> task.cfg]
    BY <1>1
  <2>2. [task EXCEPT !.ok = x, !.step = s] = [T EXCEPT !.step = s]
    BY <1>1
  <2> HIDE DEF T
  <2>3. [T EXCEPT !.step = s] =
          [kind |-> task.kind, by |-> task.by, step |-> s, h |-> task.h,
           got |-> task.got, ok |-> x, cfg |-> task.cfg]
    BY <2>1
  <2> QED
    BY <2>2, <2>3
<1>6. ASSUME NEW s, NEW x
      PROVE  [task EXCEPT !.step = s, !.cfg = x] =
               [kind |-> task.kind, by |-> task.by, step |-> s, h |-> task.h,
                got |-> task.got, ok |-> task.ok, cfg |-> x]
  <2> DEFINE T == [task EXCEPT !.step = s]
  <2>1. T = [kind |-> task.kind, by |-> task.by, step |-> s, h |-> task.h,
             got |-> task.got, ok |-> task.ok, cfg |-> task.cfg]
    BY <1>1
  <2>2. [task EXCEPT !.step = s, !.cfg = x] = [T EXCEPT !.cfg = x]
    BY <1>1
  <2> HIDE DEF T
  <2>3. [T EXCEPT !.cfg = x] =
          [kind |-> task.kind, by |-> task.by, step |-> s, h |-> task.h,
           got |-> task.got, ok |-> task.ok, cfg |-> x]
    BY <2>1
  <2> QED
    BY <2>2, <2>3
<1> QED
  BY <1>2, <1>3, <1>4, <1>5, <1>6

\* A step that holds no handle, of a task that does not write the address.
LEMMA NewTask ==
  ASSUME TasksRight, Rests, TaskRight',
         task'.step \notin {"data", "shut", "write", "close"},
         task'.step = "open" => task'.got = <<>>,
         task.kind # "address", address' = address, online' => online,
         ip_file_pending' = ip_file_pending,
         ntp_stop_retrying' => ntp_stop_retrying \/ (online => rtc # <<>>) \/ excused',
         task'.kind \in {"ping", "connect", "address"} /\ task'.by = "setup" => ~ntp_stop_retrying'
  PROVE  TasksRight'
<1>1. CardRight' /\ AsksRight' /\ (~OnCard(disk)'.on => excused') /\ ReadRight' /\ AddressRight'
  BY RestKeeps
<1>2. FileRight'
  BY FileKept
<1>3. ClockRight'
  <2>1. ~Reconnecting
    BY DEF Reconnecting
  <2> QED
    BY <1>1, <2>1, ClockKept
<1> QED
  BY <1>1, <1>2, <1>3 DEF TasksRight, Rests

\* A new task, or none.
LEMMA TaskIs ==
  \A kind, by, step :
    /\ Task(kind, by, step) = [kind |-> kind, by |-> by, step |-> step, h |-> 0, got |-> <<>>,
                               ok |-> TRUE, cfg |-> Off]
    /\ Idle = [kind |-> "none", by |-> "loop", step |-> "none", h |-> 0, got |-> <<>>,
               ok |-> TRUE, cfg |-> Off]
BY DEF Task, Idle

LEMMA PingedKeeps ==
  ASSUME TasksRight, Pinged
  PROVE  TasksRight'
<1>1. Ends("PING") /\ Returned /\ UNCHANGED <<excused, ntp_stop_retrying, ip_file_pending>>
  BY DEF Pinged, Ends, GoTo, Becomes
<1>2. /\ Rests /\ UNCHANGED <<online, address>> /\ Calling /\ request.cmd = "PING"
  BY <1>1, Back DEF Rests
<1>3. task.step = "ping"
  BY <1>2 DEF TasksRight, AsksRight
<1>4. task.kind = "ping" /\ task.by = "setup" /\ ~ntp_stop_retrying
  BY <1>3 DEF TasksRight, TaskRight, StepsOf, ClockRight
<1>5. task' = [task EXCEPT !.step = "ping"] \/ task' = Task("connect", "setup", "open")
  BY DEF Pinged, GoTo, Becomes
<1>6. /\ TaskRight' /\ task'.step \in {"ping", "open"}
      /\ task'.step = "open" => task'.got = <<>>
  <2>1. CASE task' = [task EXCEPT !.step = "ping"]
    <3>1. task' = [kind |-> task.kind, by |-> task.by, step |-> "ping", h |-> task.h,
                   got |-> task.got, ok |-> task.ok, cfg |-> task.cfg]
      BY <2>1, TaskParts DEF TasksRight
    <3> QED
      BY <1>4, <3>1 DEF TaskRight, StepsOf
  <2>2. CASE task' = Task("connect", "setup", "open")
    BY <2>2, TaskIs DEF TaskRight, StepsOf
  <2> QED
    BY <1>5, <2>1, <2>2
<1> QED
  BY <1>1, <1>2, <1>4, <1>6, NewTask

\* The end of a file of configuration.
LEMMA AfterFileKeeps ==
  ASSUME TasksRight, Rests, NEW ok, NEW got, AfterFile(ok, got), UNCHANGED <<online, address>>,
         task.step \in {"open", "shut", "try"},
         task.kind = "sync" /\ ok => Conf(got).on \/ excused'
  PROVE  TasksRight'
<1>1. \/ /\ task.kind = "connect" /\ Becomes([task EXCEPT !.step = "try"])
      \/ /\ task.kind = "connect" /\ NotConnected
      \/ /\ task.kind = "sync" /\ SyncEnds(FALSE, FALSE)
      \/ /\ task.kind = "sync" /\ excused' /\ SyncEnds(FALSE, TRUE)
      \/ /\ task.kind = "sync" /\ Becomes([task EXCEPT !.step = "ask", !.cfg = Conf(got)])
  BY DEF AfterFile, GoTo
<1>2. /\ TaskRight /\ (task.kind \in {"connect"} /\ task.by = "setup" => ~ntp_stop_retrying)
      /\ task.kind = "connect" => task.by \in {"setup", "reconnect"}
  BY DEF TasksRight, ClockRight, TaskRight
<1>3. CASE task.kind = "connect" /\ Becomes([task EXCEPT !.step = "try"])
  <2>1. task' = [kind |-> task.kind, by |-> task.by, step |-> "try", h |-> task.h,
                 got |-> task.got, ok |-> task.ok, cfg |-> task.cfg]
    BY <1>2, <1>3, TaskParts DEF Becomes
  <2>2. TaskRight'
    BY <1>2, <1>3, <2>1 DEF TaskRight, StepsOf
  <2> QED
    BY <1>2, <1>3, <2>1, <2>2, NewTask DEF Becomes
<1>4. CASE task.kind = "connect" /\ NotConnected
  <2>1. (task' = Task("connect", "setup", "open") /\ task.by = "setup") \/ task' = Idle
    BY <1>4 DEF NotConnected, Becomes
  <2>2. /\ TaskRight' /\ task'.step \in {"open", "none"} /\ task'.got = <<>>
        /\ task'.kind \in {"none"} \/ task.by = "setup"
    BY <2>1, TaskIs DEF TaskRight, StepsOf
  <2>3. UNCHANGED <<ntp_stop_retrying, ip_file_pending>>
    BY <1>4 DEF NotConnected, Becomes
  <2> QED
    BY <1>2, <1>4, <2>2, <2>3, NewTask
<1>5. ASSUME task.kind = "sync", task' = Idle, ip_file_pending' = ip_file_pending,
             ntp_stop_retrying' => ntp_stop_retrying \/ excused'
      PROVE  TasksRight'
  <2>1. TaskRight' /\ task'.step = "none" /\ task'.kind = "none"
    BY <1>5, TaskIs DEF TaskRight, StepsOf
  <2> QED
    BY <1>5, <2>1, NewTask
<1>6. CASE task.kind = "sync" /\ SyncEnds(FALSE, FALSE)
  BY <1>5, <1>6 DEF SyncEnds
<1>7. CASE task.kind = "sync" /\ excused' /\ SyncEnds(FALSE, TRUE)
  BY <1>5, <1>7 DEF SyncEnds
<1>8. CASE task.kind = "sync" /\ Becomes([task EXCEPT !.step = "ask", !.cfg = Conf(got)])
  <2> DEFINE c == Conf(got)
  <2> HIDE DEF c
  <2>1. task' = [kind |-> task.kind, by |-> task.by, step |-> "ask", h |-> task.h,
                 got |-> task.got, ok |-> task.ok, cfg |-> c]
    BY <1>2, <1>8, TaskParts DEF Becomes, c
  <2>2. TaskRight'
    BY <1>2, <1>8, <2>1 DEF TaskRight, StepsOf
  <2> QED
    BY <1>8, <2>1, <2>2, NewTask DEF Becomes
<1> QED
  BY <1>1, <1>3, <1>4, <1>6, <1>7, <1>8

LEMMA NotOpenedKeeps ==
  ASSUME TasksRight, NotOpened
  PROVE  TasksRight'
<1>1. Ends("READ_OPEN") /\ Returned
  BY DEF NotOpened, Ends
<1>2. /\ Rests /\ UNCHANGED <<online, address>> /\ Calling /\ request.cmd = "READ_OPEN"
      /\ excused' = (excused \/ (task.kind = "sync" /\ Cfg \in DOMAIN disk))
  BY <1>1, Back DEF Rests, NotOpened
<1>3. task.step = "open" /\ task.kind \in {"connect", "sync", "flag"}
  BY <1>2 DEF TasksRight, AsksRight, TaskRight, StepsOf
<1>4. CASE task.kind = "flag" /\ Becomes(Idle)
  <2>1. TaskRight' /\ task'.step = "none" /\ task'.kind = "none"
    BY <1>4, TaskIs DEF Becomes, TaskRight, StepsOf
  <2> QED
    BY <1>2, <1>4, <2>1, NewTask DEF Becomes
<1>5. CASE AfterFile(TRUE, <<>>)
  <2>1. ASSUME task.kind = "sync" PROVE Conf(<<>>).on \/ excused'
    <3>1. Cfg \in DOMAIN disk \/ OnCard(disk) = Conf(<<>>)
      BY DEF OnCard
    <3>2. ~OnCard(disk).on => excused
      BY DEF TasksRight, ClockRight
    <3> QED
      BY <1>2, <2>1, <3>1, <3>2
  <2> QED
    BY <1>2, <1>3, <1>5, <2>1, AfterFileKeeps
<1> QED
  BY <1>4, <1>5 DEF NotOpened

LEMMA ShutKeeps ==
  ASSUME TasksRight, Shut
  PROVE  TasksRight'
<1>1. Ends("READ_CLOSE") /\ Returned /\ excused' = excused
  BY DEF Shut
<1>2. /\ Rests /\ UNCHANGED <<online, address>> /\ Calling /\ request.cmd = "READ_CLOSE"
  BY <1>1, Back DEF Rests
<1>3. task.step = "shut" /\ task.kind \in {"connect", "sync", "flag"}
  BY <1>2 DEF TasksRight, AsksRight, TaskRight, StepsOf
<1>4. CASE task.kind = "flag" /\ GoTo("drop")
  <2>1. task' = [kind |-> task.kind, by |-> task.by, step |-> "drop", h |-> task.h,
                 got |-> task.got, ok |-> task.ok, cfg |-> task.cfg]
    BY <1>4, TaskParts DEF TasksRight, GoTo, Becomes
  <2>2. TaskRight'
    BY <1>4, <2>1 DEF TaskRight, StepsOf
  <2> QED
    BY <1>2, <1>4, <2>1, <2>2, NewTask DEF GoTo, Becomes
<1>5. CASE AfterFile(task.ok, task.got)
  <2>1. ASSUME task.kind = "sync", task.ok PROVE Conf(task.got).on \/ excused'
    BY <1>1, <1>3, <2>1 DEF TasksRight, ReadRight, On
  <2> QED
    BY <1>2, <1>3, <1>5, <2>1, AfterFileKeeps
<1> QED
  BY <1>4, <1>5 DEF Shut

LEMMA FlagDroppedKeeps ==
  ASSUME TasksRight, FlagDropped
  PROVE  TasksRight'
<1>1. /\ Ends("DELETE") /\ Returned /\ excused' = excused
      /\ task' = Task("sync", "flag", "open") /\ UNCHANGED <<ntp_stop_retrying, ip_file_pending>>
  BY DEF FlagDropped, Becomes
<1>2. /\ Rests /\ UNCHANGED <<online, address>> /\ Calling /\ request.cmd = "DELETE"
  BY <1>1, Back DEF Rests
<1>3. task.kind = "flag"
  BY <1>2 DEF TasksRight, AsksRight, TaskRight, StepsOf
<1>4. TaskRight' /\ task'.step = "open" /\ task'.got = <<>> /\ task'.kind = "sync"
  BY <1>1, TaskIs DEF TaskRight, StepsOf
<1> QED
  BY <1>1, <1>2, <1>3, <1>4, NewTask

LEMMA TimeSetKeeps ==
  ASSUME TasksRight, TimeSet, ~Misread
  PROVE  TasksRight'
<1>1. Ends("SET_TIME") /\ Returned /\ excused' = excused
  BY DEF TimeSet, Ends
<1>2. /\ Rests /\ UNCHANGED <<online, address>> /\ Calling /\ request.cmd = "SET_TIME"
  BY <1>1, Back DEF Rests
<1>3. task.kind = "sync"
  BY <1>2 DEF TasksRight, AsksRight, TaskRight, StepsOf
<1>4. /\ task' = Idle /\ ip_file_pending' = ip_file_pending
      /\ ntp_stop_retrying' => ntp_stop_retrying \/ (online => rtc # <<>>)
  <2>1. CASE Succeeds("SET_TIME") /\ SyncEnds(TRUE, FALSE)
    <3>1. Done("SET_TIME") # {}
      BY <2>1, Success DEF Commands
    <3>2. online => rtc # <<>>
      BY <1>2, <3>1 DEF TasksRight, ClockRight
    <3> QED
      BY <2>1, <3>2 DEF SyncEnds
  <2>2. CASE Fails("SET_TIME") /\ SyncEnds(FALSE, FALSE)
    BY <2>2 DEF SyncEnds
  <2> QED
    BY <2>1, <2>2 DEF TimeSet
<1>5. TaskRight' /\ task'.step = "none" /\ task'.kind = "none"
  BY <1>4, TaskIs DEF TaskRight, StepsOf
<1> QED
  BY <1>2, <1>3, <1>4, <1>5, NewTask

\* A task that reads goes on.
LEMMA Reader ==
  ASSUME TasksRight, Rests, TaskRight', task.kind \in {"connect", "sync", "flag"},
         task'.kind = task.kind, task'.by = task.by, task'.step \in {"data", "shut"},
         UNCHANGED <<online, address, ntp_stop_retrying, ip_file_pending>>,
         online /\ ~ip_file_pending => ~Writer(task'.h), ReadRight'
  PROVE  TasksRight'
<1>1. CardRight' /\ AsksRight' /\ (~OnCard(disk)'.on => excused')
  BY RestKeeps
<1>2. FileRight'
  BY FileKept
<1>3. ClockRight'
  <2>1. task'.kind \in {"ping", "connect", "address"} /\ task'.by = "setup" => ~ntp_stop_retrying'
    BY DEF TasksRight, ClockRight
  <2>2. Reconnecting' = Reconnecting
    BY DEF Reconnecting
  <2> QED
    BY <1>1, <2>1, <2>2, ClockKept
<1>4. AddressRight'
  BY DEF AddressRight
<1> QED
  BY <1>1, <1>2, <1>3, <1>4 DEF TasksRight, Rests

LEMMA OpenedKeeps ==
  ASSUME TasksRight, Opened, ~Misread
  PROVE  TasksRight'
<1>0. PICK a, s : a = Head(resps) /\ s = IF task.kind = "flag" THEN "shut" ELSE "data"
  OBVIOUS
<1>1. /\ Ends("READ_OPEN") /\ Returned /\ Succeeds("READ_OPEN")
      /\ UNCHANGED <<excused, ntp_stop_retrying, ip_file_pending>>
      /\ task' = [task EXCEPT !.h = a.h, !.step = s]
  BY <1>0 DEF Opened, Ends, Becomes
<1>2. /\ Rests /\ UNCHANGED <<online, address>> /\ Calling /\ request.cmd = "READ_OPEN"
  BY <1>1, Back DEF Rests
<1>3. task.step = "open" /\ task.kind \in {"connect", "sync", "flag"}
  BY <1>2 DEF TasksRight, AsksRight, TaskRight, StepsOf
<1>4. a \in Done("READ_OPEN") /\ Sent \subseteq {request, Garbled}
  BY <1>0, <1>1, Success DEF Commands
<1>5. s \in {"data", "shut"} /\ (s = "shut" => task.kind = "flag")
      /\ (task.kind = "flag" => s = "shut")
  BY <1>0
<1>6. task' = [kind |-> task.kind, by |-> task.by, step |-> s, h |-> a.h,
               got |-> task.got, ok |-> task.ok, cfg |-> task.cfg]
  <2>1. TaskRight
    BY DEF TasksRight
  <2> QED
    BY <1>1, <2>1, TaskParts
<1>7. TaskRight'
  BY <1>3, <1>5, <1>6 DEF TasksRight, TaskRight, StepsOf
<1>8. task.got = <<>> /\ Reading(a.h)
  BY <1>2, <1>3, <1>4 DEF TasksRight, ReadRight
<1>9. ReadRight'
  <2>0. UNCHANGED <<handles, excused>> /\ ~Calling' /\ Sent' = Sent
    BY <1>1, <1>2 DEF Rests
  <2>1. ASSUME task'.step = "data"
        PROVE  /\ Reading(task.h)' /\ Len(task'.got) \in 0..Len(handles[task'.h].data)
               /\ task'.got = SubSeq(handles[task'.h].data, 1, Len(task'.got))
               /\ \A r \in Sent' : r.cmd \in {"garbled", "READ_OPEN", "READ_CHUNK"}
    <3>1. task'.h = a.h /\ task'.got = <<>> /\ task'.kind = task.kind
      BY <1>6, <1>8
    <3>2. Reading(a.h)'
      BY <1>8, <2>0, <3>1 DEF Reading, On
    <3>3. Used(a.h)
      BY <1>8 DEF Reading, Used, Closed
    <3>4. IsSeq(handles[a.h].data) /\ Len(handles[a.h].data) \in Nat
      BY <3>3, HandleFacts DEF TasksRight
    <3>5. Len(<<>>) = 0
      OBVIOUS
    <3>6. SubSeq(handles[a.h].data, 1, 0) = <<>>
      <4>1. SubSeq(handles[a.h].data, 0 + 1, 0) = <<>>
        BY <3>4, PieceOf
      <4> QED
        BY <4>1
    <3>7. \A r \in Sent' : r.cmd \in {"garbled", "READ_OPEN", "READ_CHUNK"}
      BY <1>2, <1>4, <2>0, FrameFacts
    <3> QED
      BY <3>1, <3>2, <3>4, <3>5, <3>6, <3>7
  <2>2. task'.step = "shut" => task'.kind = "flag"
    BY <1>5, <1>6
  <2>3. task'.step # "open"
    BY <1>5, <1>6
  <2> QED
    BY <2>0, <2>1, <2>2, <2>3 DEF ReadRight, On
<1>10. online /\ ~ip_file_pending => ~Writer(task'.h)
  BY <1>2, <1>3, <1>4, <1>6 DEF TasksRight, FileRight
<1> QED
  BY <1>1, <1>2, <1>3, <1>5, <1>6, <1>7, <1>9, <1>10, Reader

LEMMA ReadFailsKeeps ==
  ASSUME TasksRight, ReadFails
  PROVE  TasksRight'
<1>1. /\ Ends("READ_CHUNK") /\ Returned
      /\ UNCHANGED <<excused, ntp_stop_retrying, ip_file_pending>>
      /\ task' = [task EXCEPT !.ok = FALSE, !.step = "shut"]
  BY DEF ReadFails, Ends, Becomes, AfterReadFails
<1>2. /\ Rests /\ UNCHANGED <<online, address>> /\ Calling /\ request.cmd = "READ_CHUNK"
  BY <1>1, Back DEF Rests
<1>3. task.step = "data" /\ task.kind \in {"connect", "sync"}
  BY <1>2 DEF TasksRight, AsksRight, TaskRight, StepsOf
<1>4. task' = [kind |-> task.kind, by |-> task.by, step |-> "shut", h |-> task.h,
               got |-> task.got, ok |-> FALSE, cfg |-> task.cfg]
  <2>1. TaskRight
    BY DEF TasksRight
  <2> QED
    BY <1>1, <2>1, TaskParts
<1>5. TaskRight'
  BY <1>3, <1>4 DEF TasksRight, TaskRight, StepsOf
<1>6. ReadRight'
  BY <1>2, <1>4 DEF ReadRight, Rests
<1>7. online /\ ~ip_file_pending => ~Writer(task'.h)
  BY <1>3, <1>4 DEF TasksRight, FileRight
<1> QED
  BY <1>1, <1>2, <1>3, <1>4, <1>5, <1>6, <1>7, Reader

\* One more piece of what is read.
LEMMA NextPiece ==
  ASSUME NEW data, IsSeq(data), NEW got, Len(got) \in 0..Len(data),
         got = SubSeq(data, 1, Len(got)), NEW a, Chunk(a, data, Len(got))
  PROVE  /\ Len(got \o a.data) \in 0..Len(data)
         /\ got \o a.data = SubSeq(data, 1, Len(got \o a.data))
         /\ a.eof => got \o a.data = data
<1> DEFINE S == {data[i] : i \in DOMAIN data}
           n == Len(got)
<1>1. data \in Seq(S) /\ Len(data) \in Nat /\ n \in Nat /\ n <= Len(data)
  BY SeqParts DEF IsSeq
<1>2. \A i \in 1..Len(data) : data[i] \in S
  BY SeqParts
<1> HIDE DEF S
<1>3. ASSUME NEW m \in 0..Len(data)
      PROVE  /\ SubSeq(data, 1, m) \in Seq(S) /\ Len(SubSeq(data, 1, m)) = m
             /\ \A i \in 1..m : SubSeq(data, 1, m)[i] = data[i]
  <2>1. m \in Nat /\ \A i \in 1..m : data[i] \in S
    BY <1>1, <1>2
  <2>2. /\ SubSeq(data, 1, m) \in Seq(S)
        /\ Len(SubSeq(data, 1, m)) = IF 1 <= m THEN m - 1 + 1 ELSE 0
        /\ \A i \in 1..(m - 1 + 1) : SubSeq(data, 1, m)[i] = data[1 + i - 1]
    BY <1>1, <2>1, SubSeqProperties
  <2> QED
    BY <2>1, <2>2
<1>4. got \in Seq(S) /\ \A i \in 1..n : got[i] = data[i]
  BY <1>1, <1>3
<1>5. SubSeq(data, 1, Len(data)) = data
  <2>1. /\ SubSeq(data, 1, Len(data)) \in Seq(S) /\ Len(SubSeq(data, 1, Len(data))) = Len(data)
        /\ \A i \in 1..Len(data) : SubSeq(data, 1, Len(data))[i] = data[i]
    BY <1>1, <1>3
  <2> QED
    BY <1>1, <2>1, SeqEqual
<1>6. CASE n < Len(data) /\ a.data = <<data[n + 1]>> /\ a.eof = (n + 1 >= Len(data))
  <2> DEFINE w == <<data[n + 1]>>
  <2>1. data[n + 1] \in S
    BY <1>1, <1>2, <1>6
  <2>2. w \in Seq(S) /\ Len(w) = 1 /\ w[1] = data[n + 1]
    BY <2>1
  <2> HIDE DEF w
  <2>3. /\ got \o w \in Seq(S) /\ Len(got \o w) = Len(got) + Len(w)
        /\ \A i \in 1..(Len(got) + Len(w)) :
             (got \o w)[i] = IF i <= Len(got) THEN got[i] ELSE w[i - Len(got)]
    BY <1>4, <2>2, ConcatProperties
  <2>4. Len(got \o w) = n + 1 /\ \A i \in 1..(n + 1) : (got \o w)[i] = data[i]
    BY <1>1, <1>4, <2>2, <2>3
  <2>5. n + 1 \in 0..Len(data)
    BY <1>1, <1>6
  <2>6. /\ SubSeq(data, 1, n + 1) \in Seq(S) /\ Len(SubSeq(data, 1, n + 1)) = n + 1
        /\ \A i \in 1..(n + 1) : SubSeq(data, 1, n + 1)[i] = data[i]
    BY <1>3, <2>5
  <2>7. got \o w = SubSeq(data, 1, n + 1)
    <3> DEFINE u == got \o w
               v == SubSeq(data, 1, n + 1)
    <3>1. u \in Seq(S) /\ v \in Seq(S) /\ Len(u) = Len(v) /\ \A i \in 1..Len(u) : u[i] = v[i]
      BY <2>3, <2>4, <2>6
    <3> HIDE DEF u, v
    <3>2. u = v
      BY <3>1, SeqEqual
    <3> QED
      BY <3>2 DEF u, v
  <2>8. a.data = w
    BY <1>6 DEF w
  <2>9. a.eof => n + 1 = Len(data)
    <3>1. a.eof => n + 1 >= Len(data)
      BY <1>6, Zenon
    <3> QED
      BY <1>1, <1>6, <3>1
  <2> QED
    BY <1>5, <2>4, <2>5, <2>7, <2>8, <2>9
<1>7. CASE a.data = <<>> /\ a.eof = (n >= Len(data))
  <2>1. got \o <<>> = got
    BY <1>4, ConcatEmptySeq
  <2>2. a.eof => n = Len(data)
    <3>1. a.eof => n >= Len(data)
      BY <1>7, Zenon
    <3> QED
      BY <1>1, <3>1
  <2> QED
    BY <1>5, <1>7, <2>1, <2>2
<1> QED
  BY <1>6, <1>7 DEF Chunk

LEMMA ReadKeeps ==
  ASSUME TasksRight, Read, ~Misread
  PROVE  TasksRight'
<1>0. PICK a, g, s : /\ a = Head(resps) /\ g = task.got \o a.data
                     /\ s = IF a.eof \/ a.data = <<>> THEN "shut" ELSE "data"
  OBVIOUS
<1>1. /\ Ends("READ_CHUNK") /\ Returned /\ Succeeds("READ_CHUNK")
      /\ UNCHANGED <<ntp_stop_retrying, ip_file_pending>>
      /\ task' = [task EXCEPT !.got = g, !.step = s]
      /\ excused' = (excused \/ (task.kind = "sync" /\ a.data = <<>> /\ ~a.eof))
  BY <1>0 DEF Read, Ends, Becomes
<1>2. /\ Rests /\ UNCHANGED <<online, address>> /\ Calling /\ request.cmd = "READ_CHUNK"
  BY <1>1, Back DEF Rests
<1>3. task.step = "data" /\ task.kind \in {"connect", "sync"}
  BY <1>2 DEF TasksRight, AsksRight, TaskRight, StepsOf
<1>4. a \in Done("READ_CHUNK") /\ Sent \subseteq {request, Garbled}
  BY <1>0, <1>1, Success DEF Commands
<1>5. /\ s \in {"data", "shut"}
      /\ s = "shut" => a.eof \/ a.data = <<>>
  BY <1>0
<1>6. task' = [kind |-> task.kind, by |-> task.by, step |-> s, h |-> task.h,
               got |-> g, ok |-> task.ok, cfg |-> task.cfg]
  <2>1. TaskRight
    BY DEF TasksRight
  <2> QED
    BY <1>1, <2>1, TaskParts
<1>7. TaskRight'
  BY <1>3, <1>5, <1>6 DEF TasksRight, TaskRight, StepsOf
<1> DEFINE data == handles[task.h].data
<1>8. /\ Reading(task.h) /\ Len(task.got) \in 0..Len(data)
      /\ task.got = SubSeq(data, 1, Len(task.got)) /\ Chunk(a, data, Len(task.got))
  BY <1>2, <1>3, <1>4 DEF TasksRight, ReadRight
<1>9. IsSeq(data)
  <2>1. Used(task.h)
    BY <1>8 DEF Reading, Used, Closed
  <2> QED
    BY <2>1, HandleFacts DEF TasksRight
<1>10. Len(g) \in 0..Len(data) /\ g = SubSeq(data, 1, Len(g)) /\ (a.eof => g = data)
  <2>1. g = task.got \o a.data
    BY <1>0
  <2>2. PICK x : x = task.got
    OBVIOUS
  <2> HIDE DEF data
  <2>3. IsSeq(data) /\ Len(x) \in 0..Len(data) /\ x = SubSeq(data, 1, Len(x)) /\ Chunk(a, data, Len(x))
    BY <1>8, <1>9, <2>2
  <2>4. /\ Len(x \o a.data) \in 0..Len(data)
        /\ x \o a.data = SubSeq(data, 1, Len(x \o a.data))
        /\ a.eof => x \o a.data = data
    BY <2>3, NextPiece
  <2> QED
    BY <2>1, <2>2, <2>4
<1>11. ReadRight'
  <2>0. UNCHANGED handles /\ ~Calling' /\ Sent' = Sent /\ (excused => excused')
    BY <1>2 DEF Rests
  <2>1. ASSUME task'.step = "data"
        PROVE  /\ Reading(task.h)' /\ Len(task'.got) \in 0..Len(handles'[task'.h].data)
               /\ task'.got = SubSeq(handles'[task'.h].data, 1, Len(task'.got))
               /\ \A r \in Sent' : r.cmd \in {"garbled", "READ_OPEN", "READ_CHUNK"}
    <3>1. Reading(task.h)'
      BY <1>6, <1>8, <2>0 DEF Reading, On
    <3>2. \A r \in Sent' : r.cmd \in {"garbled", "READ_OPEN", "READ_CHUNK"}
      BY <1>2, <1>4, <2>0, FrameFacts
    <3> QED
      BY <1>6, <1>10, <2>0, <3>1, <3>2
  <2>2. ASSUME task'.step = "shut" PROVE On(task.got)'
    <3>1. CASE a.eof
      BY <1>6, <1>8, <1>10, <2>0, <3>1 DEF Reading, On
    <3>2. CASE ~a.eof
      <4>1. a.data = <<>>
        BY <1>5, <1>6, <2>2, <3>2
      <4> QED
        BY <1>1, <1>6, <3>2, <4>1 DEF On
    <3> QED
      BY <3>1, <3>2
  <2>3. task'.step # "open"
    BY <1>5, <1>6
  <2> QED
    BY <2>0, <2>1, <2>2, <2>3 DEF ReadRight
<1>12. online /\ ~ip_file_pending => ~Writer(task'.h)
  BY <1>3, <1>6 DEF TasksRight, FileRight
<1> QED
  BY <1>1, <1>2, <1>3, <1>5, <1>6, <1>7, <1>11, <1>12, Reader

\* A task that writes goes on.
LEMMA WriterGoesOn ==
  ASSUME TasksRight, Rests, TaskRight', task.kind \in {"address", "save"},
         task'.kind = task.kind, task'.by = task.by, task'.step \in {"write", "close"},
         UNCHANGED <<online, address, ntp_stop_retrying, ip_file_pending>>,
         task.kind = "save" /\ online /\ ~ip_file_pending => ~Writer(task'.h), AddressRight'
  PROVE  TasksRight'
<1>1. CardRight' /\ AsksRight' /\ (~OnCard(disk)'.on => excused')
  BY RestKeeps
<1>2. FileRight'
  <2>1. CASE task.kind = "save"
    BY <2>1, FileKept
  <2>2. CASE task.kind = "address"
    BY <2>2 DEF FileRight
  <2> QED
    BY <2>1, <2>2
<1>3. ClockRight'
  <2>1. task'.kind \in {"ping", "connect", "address"} /\ task'.by = "setup" => ~ntp_stop_retrying'
    BY DEF TasksRight, ClockRight
  <2>2. Reconnecting' = Reconnecting
    BY DEF Reconnecting
  <2> QED
    BY <1>1, <2>1, <2>2, ClockKept
<1>4. ReadRight'
  BY DEF ReadRight, Rests
<1> QED
  BY <1>1, <1>2, <1>3, <1>4 DEF TasksRight, Rests

\* write_ip_help_file is over.
LEMMA AddressEnds ==
  ASSUME TasksRight, Rests, UNCHANGED <<online, address>>, task.kind = "address",
         NEW ok, AddressDone(ok),
         ok => OnFile /\ \A r \in Sent : /\ r.cmd = "WRITE_OPEN" => r.file # IpFile
                                         /\ r.cmd \in {"READ_CLOSE", "WRITE_CLOSE"} => ~Writer(r.h)
  PROVE  TasksRight'
<1>1. /\ task' = Task("sync", "setup", "open") \/ task' = Idle
      /\ ip_file_pending' = ~ok
      /\ ntp_stop_retrying' => ntp_stop_retrying /\ task.by # "reconnect"
  BY DEF AddressDone
<1>2. /\ TaskRight' /\ task'.step \in {"open", "none"} /\ task'.got = <<>>
      /\ task'.kind \in {"sync", "none"}
  BY <1>1, TaskIs DEF TaskRight, StepsOf
<1>3. CardRight' /\ AsksRight' /\ (~OnCard(disk)'.on => excused') /\ ReadRight' /\ AddressRight'
  BY <1>2, RestKeeps
<1>4. FileRight'
  <2>1. UNCHANGED <<disk, handles, unkept, address>> /\ Sent' = Sent /\ ~Calling'
    BY DEF Rests
  <2>2. OnFile' = OnFile /\ \A h : Writer(h)' = Writer(h)
    BY <2>1 DEF OnFile, Address, Writer
  <2>3. ~ip_file_pending' => ok
    BY <1>1
  <2> QED
    BY <1>2, <2>1, <2>2, <2>3 DEF FileRight
<1>5. ClockRight'
  <2>1. ntp_stop_retrying' => ntp_stop_retrying /\ ~Reconnecting
    BY <1>1 DEF Reconnecting
  <2> QED
    BY <1>2, <1>3, <2>1, ClockKept
<1> QED
  BY <1>2, <1>3, <1>4, <1>5 DEF TasksRight, Rests

\* handleNtpSave is over.
LEMMA SaveEnds ==
  ASSUME TasksRight, Rests, UNCHANGED <<online, address, ntp_stop_retrying, ip_file_pending>>,
         task.kind = "save", task' = Idle
  PROVE  TasksRight'
<1>1. TaskRight' /\ task'.step = "none" /\ task'.kind = "none"
  BY TaskIs DEF TaskRight, StepsOf
<1> QED
  BY <1>1, NewTask

LEMMA CreatedKeeps ==
  ASSUME TasksRight, Created, ~Misread
  PROVE  TasksRight'
<1>1. Ends("WRITE_OPEN") /\ Returned /\ excused' = excused
  BY DEF Created, Ends
<1>2. /\ Rests /\ UNCHANGED <<online, address>> /\ Calling /\ request.cmd = "WRITE_OPEN"
  BY <1>1, Back DEF Rests
<1>3. task.step = "create" /\ task.kind \in {"address", "save"}
  BY <1>2 DEF TasksRight, AsksRight, TaskRight, StepsOf
<1>4. CASE Succeeds("WRITE_OPEN") /\ Becomes([task EXCEPT !.h = Head(resps).h, !.step = "write"])
  <2>0. PICK a : a = Head(resps)
    OBVIOUS
  <2>1. a \in Done("WRITE_OPEN") /\ Sent \subseteq {request, Garbled}
    BY <1>4, <2>0, Success DEF Commands
  <2>2. /\ task' = [kind |-> task.kind, by |-> task.by, step |-> "write", h |-> a.h,
                    got |-> task.got, ok |-> task.ok, cfg |-> task.cfg]
        /\ UNCHANGED <<ntp_stop_retrying, ip_file_pending>>
    <3>1. TaskRight
      BY DEF TasksRight
    <3> QED
      BY <1>4, <2>0, <3>1, TaskParts DEF Becomes
  <2>3. TaskRight'
    BY <1>3, <2>2 DEF TasksRight, TaskRight, StepsOf
  <2>4. AddressRight'
    <3> SUFFICES ASSUME task.kind = "address" PROVE AddressRight'
      BY <2>2 DEF AddressRight
    <3>0. UNCHANGED <<disk, handles, address>> /\ ~Calling' /\ Sent' = Sent
      BY <1>2 DEF Rests
    <3>1. Writer(a.h) /\ handles[a.h].data = <<>> /\ IpFile \in DOMAIN disk
      BY <1>2, <2>1 DEF TasksRight, AddressRight
    <3>2. handles[a.h].pos = Len(handles[a.h].data)
      <4>1. Used(a.h)
        BY <3>1 DEF Writer, Used, Closed
      <4>2. handles[a.h].pos \in 0..Len(handles[a.h].data) /\ Len(handles[a.h].data) \in Nat
        BY <4>1, HandleFacts DEF TasksRight
      <4>3. Len(<<>>) = 0
        OBVIOUS
      <4> QED
        BY <3>1, <4>2, <4>3
    <3>3. \A r \in Sent : r.cmd \in {"garbled", "WRITE_OPEN"}
      BY <1>2, <2>1, FrameFacts
    <3>4. Writing'
      <4>1. task'.h = a.h
        BY <2>2
      <4>2. Len(<<>>) = 0
        OBVIOUS
      <4> QED
        BY <3>0, <3>1, <3>2, <3>3, <4>1, <4>2 DEF Writing, Writer, Address
    <3> QED
      BY <2>2, <3>0, <3>3, <3>4 DEF AddressRight
  <2>5. task.kind = "save" /\ online /\ ~ip_file_pending => ~Writer(task'.h)
    BY <1>2, <2>1, <2>2 DEF TasksRight, FileRight
  <2> QED
    BY <1>2, <1>3, <2>2, <2>3, <2>4, <2>5, WriterGoesOn
<1>5. CASE task.kind = "address" /\ AddressDone(FALSE)
  BY <1>2, <1>5, AddressEnds
<1>6. CASE task.kind = "save" /\ Becomes(Idle)
  BY <1>2, <1>6, SaveEnds DEF Becomes
<1> QED
  BY <1>4, <1>5, <1>6 DEF Created

LEMMA WrittenKeeps ==
  ASSUME TasksRight, Written, ~Misread
  PROVE  TasksRight'
<1>1. Ends("WRITE_CHUNK") /\ Returned /\ excused' = excused
  BY DEF Written, Ends
<1>2. /\ Rests /\ UNCHANGED <<online, address>> /\ Calling /\ request.cmd = "WRITE_CHUNK"
  BY <1>1, Back DEF Rests
<1>3. task.step = "write" /\ task.kind \in {"address", "save"}
  BY <1>2 DEF TasksRight, AsksRight, TaskRight, StepsOf
<1>4. PICK ok : /\ ok = FALSE \/ (ok = task.ok /\ Succeeds("WRITE_CHUNK"))
                /\ task' = [kind |-> task.kind, by |-> task.by, step |-> "close", h |-> task.h,
                            got |-> task.got, ok |-> ok, cfg |-> task.cfg]
                /\ UNCHANGED <<ntp_stop_retrying, ip_file_pending>>
  <2>0. TaskRight
    BY DEF TasksRight
  <2>1. CASE Succeeds("WRITE_CHUNK") /\ GoTo("close")
    BY <2>0, <2>1, TaskParts DEF GoTo, Becomes
  <2>2. CASE Becomes([task EXCEPT !.ok = FALSE, !.step = "close"])
    BY <2>0, <2>2, TaskParts DEF Becomes
  <2> QED
    BY <2>1, <2>2 DEF Written
<1>5. TaskRight'
  BY <1>3, <1>4 DEF TasksRight, TaskRight, StepsOf
<1>6. AddressRight'
  <2> SUFFICES ASSUME task.kind = "address", task'.ok PROVE AddressRight'
    BY <1>2, <1>4 DEF AddressRight, Rests
  <2>0. UNCHANGED <<disk, handles, address>> /\ ~Calling' /\ Sent' = Sent
    BY <1>2 DEF Rests
  <2>1. Succeeds("WRITE_CHUNK")
    BY <1>4
  <2>2. Done("WRITE_CHUNK") # {} /\ Sent \subseteq {request, Garbled}
    BY <2>1, Success DEF Commands
  <2>3. Writing /\ handles[task.h].data # <<>>
    BY <1>2, <1>3, <2>2 DEF TasksRight, AddressRight
  <2>4. \A r \in Sent : r.cmd \in {"garbled", "WRITE_CHUNK"}
    BY <1>2, <2>2, FrameFacts
  <2>5. Writing' /\ task'.h = task.h /\ task'.step = "close"
    BY <1>4, <2>0, <2>3 DEF Writing, Writer, Address
  <2> QED
    BY <2>0, <2>3, <2>4, <2>5 DEF AddressRight
<1>7. task.kind = "save" /\ online /\ ~ip_file_pending => ~Writer(task'.h)
  BY <1>3, <1>4 DEF TasksRight, FileRight
<1> QED
  BY <1>2, <1>3, <1>4, <1>5, <1>6, <1>7, WriterGoesOn

LEMMA WriteEndsKeeps ==
  ASSUME TasksRight, WriteEnds, ~Misread
  PROVE  TasksRight'
<1>1. Ends("WRITE_CLOSE") /\ Returned /\ excused' = excused
  BY DEF WriteEnds, Ends
<1>2. /\ Rests /\ UNCHANGED <<online, address>> /\ Calling /\ request.cmd = "WRITE_CLOSE"
      /\ Frame(request)
  BY <1>1, Back DEF Rests
<1>3. task.step = "close" /\ task.kind \in {"address", "save"} /\ request.h = task.h
  BY <1>2 DEF TasksRight, AsksRight, TaskRight, StepsOf
<1>4. CASE task.kind = "address" /\ Succeeds("WRITE_CLOSE") /\ AddressDone(task.ok)
  <2>1. ASSUME task.ok
        PROVE  OnFile /\ \A r \in Sent : /\ r.cmd = "WRITE_OPEN" => r.file # IpFile
                                         /\ r.cmd \in {"READ_CLOSE", "WRITE_CLOSE"} => ~Writer(r.h)
    <3>1. Done("WRITE_CLOSE") # {} /\ Sent \subseteq {request, Garbled}
      BY <1>4, Success DEF Commands
    <3>2. Closing
      BY <1>2, <1>3, <1>4, <2>1, <3>1 DEF TasksRight, AddressRight
    <3>3. ~Writer(task.h)
      BY <3>2 DEF Closing, Writer, Closed
    <3> QED
      BY <1>2, <1>3, <3>1, <3>2, <3>3, FrameFacts DEF Closing
  <2> QED
    BY <1>2, <1>4, <2>1, AddressEnds
<1>5. CASE task.kind = "address" /\ AddressDone(FALSE)
  BY <1>2, <1>5, AddressEnds
<1>6. CASE task.kind = "save" /\ Becomes(Idle)
  BY <1>2, <1>6, SaveEnds DEF Becomes
<1> QED
  BY <1>4, <1>5, <1>6 DEF WriteEnds

-----------------------------------------------------------------------------
(* Between calls, in the loop, and from without.                           *)

\* No call is under way when a task is due, or waits for something else.
LEMMA AtRest ==
  ASSUME TasksRight, task.kind = "none" \/ task.step \in {"try", "ask"},
         UNCHANGED <<linkVars, srvVars, rtc, excused>>
  PROVE  Rests
<1>1. ~Calling
  <2>1. task.kind = "none" => task.step = "none"
    BY DEF TasksRight, TaskRight, StepsOf
  <2> QED
    BY <2>1, RequestFacts DEF TasksRight
<1>2. LineRight' /\ Sent' = Sent /\ Calling' = Calling
  BY DEF linkVars, TasksRight, LineRight, Frame, Sent, Calling, Mine
<1> QED
  BY <1>1, <1>2 DEF Rests, srvVars

LEMMA LoopKeeps ==
  ASSUME TasksRight,
         CheckFlag \/ CheckNtp \/ CheckWifi \/ CheckAddress \/ SyncNow \/ NtpSave
  PROVE  TasksRight'
<1>1. /\ task.kind = "none" /\ UNCHANGED <<ntp_stop_retrying, ip_file_pending>>
      /\ UNCHANGED <<linkVars, srvVars, online, address, rtc, excused>>
      /\ \/ \E kind \in {"flag", "sync"} : \E by : task' = Task(kind, by, "open")
         \/ ~online /\ task' = Task("connect", "reconnect", "open")
         \/ task' = Task("address", "retry", "create")
         \/ \E c : task' = [Task("save", "web", "create") EXCEPT !.cfg = c]
  BY DEF CheckFlag, CheckNtp, CheckWifi, CheckAddress, SyncNow, NtpSave, Due, InLoop,
         Becomes, wifiVars
<1>2. Rests
  BY <1>1, AtRest
<1>3. /\ TaskRight' /\ task'.step \in {"open", "create"} /\ task'.got = <<>>
      /\ task'.by # "setup" \/ task'.kind \in {"flag", "sync"}
  <2>1. ASSUME NEW kind \in {"flag", "sync"}, NEW by, task' = Task(kind, by, "open")
        PROVE  /\ TaskRight' /\ task'.step = "open" /\ task'.got = <<>> /\ task'.kind = kind
    BY <2>1, TaskIs DEF TaskRight, StepsOf
  <2>2. CASE task' = Task("connect", "reconnect", "open") \/ task' = Task("address", "retry", "create")
    BY <2>2, TaskIs DEF TaskRight, StepsOf
  <2>3. ASSUME NEW c, task' = [Task("save", "web", "create") EXCEPT !.cfg = c]
        PROVE  /\ TaskRight' /\ task'.step = "create" /\ task'.got = <<>> /\ task'.by = "web"
    <3>1. task' = [kind |-> "save", by |-> "web", step |-> "create", h |-> 0, got |-> <<>>,
                   ok |-> TRUE, cfg |-> c]
      BY <2>3 DEF Task
    <3> QED
      BY <3>1 DEF TaskRight, StepsOf
  <2> QED
    BY <1>1, <2>1, <2>2, <2>3
<1> QED
  BY <1>1, <1>2, <1>3, NewTask

LEMMA WaitKeeps ==
  ASSUME TasksRight, TimeRead \/ NtpSilent \/ NotJoined
  PROVE  TasksRight'
<1>0. TaskRight
  BY DEF TasksRight
<1>1. CASE TimeRead
  <2>1. /\ task.step = "ask" /\ UNCHANGED <<linkVars, srvVars, online, address, rtc, excused>>
        /\ UNCHANGED <<ntp_stop_retrying, ip_file_pending>>
        /\ task' = [task EXCEPT !.step = "set"]
    BY <1>1 DEF TimeRead, At, GoTo, Becomes
  <2>2. task' = [kind |-> task.kind, by |-> task.by, step |-> "set", h |-> task.h,
                 got |-> task.got, ok |-> task.ok, cfg |-> task.cfg]
    BY <1>0, <2>1, TaskParts
  <2>3. task.kind = "sync"
    BY <1>0, <2>1 DEF TaskRight, StepsOf
  <2>4. TaskRight'
    BY <1>0, <2>2, <2>3 DEF TaskRight, StepsOf
  <2>5. Rests
    BY <2>1, AtRest
  <2> QED
    BY <2>1, <2>2, <2>3, <2>4, <2>5, NewTask
<1>2. CASE NtpSilent
  <2>1. /\ task.step = "ask" /\ UNCHANGED <<linkVars, srvVars, online, address, rtc, excused>>
        /\ ip_file_pending' = ip_file_pending /\ task' = Idle
        /\ ntp_stop_retrying' => ntp_stop_retrying
    BY <1>2 DEF NtpSilent, At, SyncEnds, wifiVars
  <2>2. TaskRight' /\ task'.step = "none" /\ task'.kind = "none"
    BY <2>1, TaskIs DEF TaskRight, StepsOf
  <2>3. task.kind = "sync"
    BY <1>0, <2>1 DEF TaskRight, StepsOf
  <2>4. Rests
    BY <2>1, AtRest
  <2> QED
    BY <2>1, <2>2, <2>3, <2>4, NewTask
<1>3. CASE NotJoined
  <2>1. /\ task.step = "try" /\ UNCHANGED <<linkVars, srvVars, online, address, rtc, excused>>
        /\ NotConnected
    BY <1>3 DEF NotJoined, At, wifiVars
  <2>2. task.kind = "connect"
    BY <1>0, <2>1 DEF TaskRight, StepsOf
  <2>3. AfterFile(FALSE, <<>>)
    BY <2>1, <2>2 DEF AfterFile
  <2>4. Rests
    BY <2>1, AtRest
  <2> QED
    BY <2>1, <2>2, <2>3, <2>4, AfterFileKeeps
<1> QED
  BY <1>1, <1>2, <1>3

LEMMA ConnectedKeeps ==
  ASSUME TasksRight, Connected
  PROVE  TasksRight'
<1>1. /\ task.step = "try" /\ UNCHANGED <<linkVars, srvVars, rtc, excused>>
      /\ UNCHANGED <<ntp_stop_retrying, ip_file_pending>>
      /\ task' = Task("address", task.by, "create")
  BY DEF Connected, At, Becomes
<1>2. Rests
  BY <1>1, AtRest
<1>3. /\ task.kind = "connect" /\ task.by \in {"setup", "reconnect"}
      /\ task.by = "setup" => ~ntp_stop_retrying
  BY <1>1 DEF TasksRight, TaskRight, StepsOf, ClockRight
<1>4. /\ TaskRight' /\ task'.step = "create" /\ task'.kind = "address" /\ task'.by = task.by
  BY <1>1, TaskIs DEF TaskRight, StepsOf
<1>5. CardRight' /\ AsksRight' /\ (~OnCard(disk)'.on => excused') /\ ReadRight' /\ AddressRight'
  BY <1>2, <1>4, RestKeeps
<1>6. FileRight'
  BY <1>4 DEF FileRight
<1>7. ClockRight'
  <2>1. Reconnecting' \/ ~ntp_stop_retrying'
    BY <1>1, <1>3, <1>4 DEF Reconnecting
  <2> QED
    BY <1>1, <1>2, <1>3, <1>4, <1>5, <2>1, ClockKept
<1> QED
  BY <1>2, <1>4, <1>5, <1>6, <1>7 DEF TasksRight, Rests

\* What happens on the card without the ESP32, and to the network.
LEMMA OutsideKeeps ==
  ASSUME TasksRight, UNCHANGED <<linkVars, handles, task, address, ntp_stop_retrying, ip_file_pending>>,
         disk' = [f \in DOMAIN disk' |-> disk'[f]], \A f \in DOMAIN disk' : IsSeq(disk'[f]),
         IpFile \in DOMAIN disk => IpFile \in DOMAIN disk' /\ disk'[IpFile] = disk[IpFile],
         unkept' = unkept,
         excused => excused', ~OnCard(disk').on => excused',
         online' => online /\ rtc' = rtc
  PROVE  TasksRight'
<1>1. /\ UNCHANGED <<reqs, resps, request, phase>> /\ Calling' = Calling /\ Sent' = Sent
      /\ Mine' = Mine /\ \A cmd : Done(cmd)' = Done(cmd)
  BY DEF linkVars, Calling, Sent, Mine, Done
<1>2. LineRight'
  BY <1>1 DEF TasksRight, LineRight
<1>3. TaskRight' /\ AsksRight'
  <2>1. File' = File /\ Piece' = Piece
    BY DEF File, Piece
  <2> QED
    BY <1>1, <2>1 DEF TasksRight, TaskRight, AsksRight
<1>4. CardRight'
  BY DEF TasksRight, CardRight, Handle, HandleIds
<1>5. \A content : On(content) => On(content)'
  BY DEF On
<1>6. ReadRight'
  <2>1. \A h : Reading(h) => Reading(h)'
    BY <1>5 DEF Reading
  <2> QED
    BY <1>1, <1>5, <2>1 DEF TasksRight, ReadRight
<1>7. (\A h : Writer(h)' = Writer(h)) /\ (OnFile => OnFile')
  BY DEF Writer, OnFile, Address
<1>8. AddressRight'
  <2>1. Writing => Writing'
    BY <1>1, <1>7 DEF Writing, Address
  <2>2. Closing => Closing'
    BY <1>1, <1>7 DEF Closing
  <2> QED
    BY <1>1, <1>7, <2>1, <2>2 DEF TasksRight, AddressRight
<1>9. FileRight'
  BY <1>1, <1>7 DEF TasksRight, FileRight
<1>10. ClockRight'
  BY <1>1 DEF TasksRight, ClockRight, Reconnecting
<1> QED
  BY <1>2, <1>3, <1>4, <1>6, <1>8, <1>9, <1>10 DEF TasksRight

\* One file more on the card, or another content of one.
LEMMA FilePut ==
  ASSUME CardRight, NEW f, NEW content, IsSeq(content), disk' = WithFile(f, content)
  PROVE  /\ disk' = [g \in DOMAIN disk' |-> disk'[g]] /\ \A g \in DOMAIN disk' : IsSeq(disk'[g])
         /\ f \in DOMAIN disk' /\ disk'[f] = content
         /\ \A g : g # f => (g \in DOMAIN disk' <=> g \in DOMAIN disk)
         /\ \A g \in DOMAIN disk : g # f => disk'[g] = disk[g]
BY DEF CardRight, WithFile

LEMMA Z80Keeps ==
  ASSUME TasksRight, Z80SetsZone \/ Z80Asks \/ WifiLost
  PROVE  TasksRight'
<1>0. CardRight /\ (~OnCard(disk).on => excused)
  BY DEF TasksRight, ClockRight
<1>1. UNCHANGED <<linkVars, handles, unkept, task, address, ntp_stop_retrying, ip_file_pending>>
      /\ (excused => excused') /\ (online' => online /\ rtc' = rtc)
  <2>1. CASE Z80SetsZone
    BY <2>1 DEF Z80SetsZone, taskVars, wifiVars, Card
  <2>2. CASE Z80Asks
    BY <2>2 DEF Z80Asks, taskVars, wifiVars
  <2>3. CASE WifiLost
    BY <2>3 DEF WifiLost, taskVars, srvVars
  <2> QED
    BY <2>1, <2>2, <2>3
<1>2. CASE Z80SetsZone
  <2>1. PICK c : disk' = WithFile(Cfg, <<c>>)
    BY <1>2 DEF Z80SetsZone
  <2>2. IsSeq(<<c>>) /\ IpFile # Cfg
    BY SmallSeqs DEF IpFile, Cfg
  <2>3. ~OnCard(disk').on => excused'
    BY <1>2 DEF Z80SetsZone, Card
  <2>4. /\ disk' = [g \in DOMAIN disk' |-> disk'[g]] /\ \A g \in DOMAIN disk' : IsSeq(disk'[g])
        /\ IpFile \in DOMAIN disk => IpFile \in DOMAIN disk' /\ disk'[IpFile] = disk[IpFile]
    BY <1>0, <2>1, <2>2, FilePut
  <2> QED
    BY <1>1, <2>3, <2>4, OutsideKeeps
<1>3. CASE Z80Asks
  <2>1. disk' = WithFile(Flag, <<>>) /\ excused' = excused
    BY <1>3 DEF Z80Asks
  <2>2. IsSeq(<<>>) /\ IpFile # Flag /\ Cfg # Flag
    BY SmallSeqs DEF IpFile, Cfg, Flag
  <2>3. /\ disk' = [g \in DOMAIN disk' |-> disk'[g]] /\ \A g \in DOMAIN disk' : IsSeq(disk'[g])
        /\ \A g : g # Flag => (g \in DOMAIN disk' <=> g \in DOMAIN disk)
        /\ \A g \in DOMAIN disk : g # Flag => disk'[g] = disk[g]
    BY <1>0, <2>1, <2>2, FilePut
  <2>4. OnCard(disk') = OnCard(disk)
    BY <2>2, <2>3 DEF OnCard
  <2> QED
    BY <1>0, <1>1, <2>1, <2>2, <2>3, <2>4, OutsideKeeps
<1>4. CASE WifiLost
  <2>1. disk' = disk /\ excused' = excused
    BY <1>4 DEF WifiLost, srvVars
  <2>2. disk' = [g \in DOMAIN disk' |-> disk'[g]] /\ \A g \in DOMAIN disk' : IsSeq(disk'[g])
    BY <1>0, <2>1 DEF CardRight
  <2> QED
    BY <1>0, <1>1, <2>1, <2>2, OutsideKeeps
<1> QED
  BY <1>2, <1>3, <1>4

-----------------------------------------------------------------------------
(* The theorem.                                                            *)

LEMMA InitRight ==
  ASSUME Init
  PROVE  TasksRight
<1>1. PICK card \in Cards : ServerInit(card)
  BY DEF Init
<1>2. /\ reqs = <<>> /\ resps = <<>> /\ phase = "idle"
      /\ disk = card /\ handles = [h \in HandleIds |-> Closed]
      /\ task = Task("ping", "setup", "ping") /\ ~online /\ ~ntp_stop_retrying
      /\ excused = ~OnCard(disk).on
  BY <1>1 DEF Init, LinkInit, ServerInit
<1>3. Sent = {} /\ ~Calling
  <2>1. Len(<<>>) = 0
    OBVIOUS
  <2> QED
    BY <1>2, <2>1 DEF Sent, Elems, Calling
<1>4. LineRight
  BY <1>2, <1>3, SmallSeqs DEF LineRight
<1>5. TaskRight /\ task.step = "ping" /\ task.kind = "ping"
  BY <1>2, TaskIs DEF TaskRight, StepsOf
<1>6. CardRight
  <2>1. \A f \in DOMAIN disk : IsSeq(disk[f])
    BY <1>1, <1>2, CardsReadable DEF IsSeq
  <2>2. disk = [f \in DOMAIN disk |-> disk[f]]
    BY <1>1, <1>2, CardsReadable
  <2> QED
    BY <1>2, <2>1, <2>2 DEF CardRight, Handle
<1>7. AsksRight /\ ReadRight /\ AddressRight /\ FileRight
  BY <1>2, <1>3, <1>5 DEF AsksRight, ReadRight, AddressRight, FileRight
<1>8. ClockRight
  BY <1>2, <1>3, <1>5 DEF ClockRight
<1> QED
  BY <1>4, <1>5, <1>6, <1>7, <1>8 DEF TasksRight

LEMMA NextKeeps ==
  ASSUME TasksInv, [Next]_vars
  PROVE  TasksInv'
<1> SUFFICES ASSUME ~misread' PROVE TasksRight'
  BY DEF TasksInv
<1>1. ~misread
  BY DEF Next, vars, Esp, Ask, Call, LinkStep, Pinged, Opened, NotOpened, Read, ReadFails,
     Shut, FlagDropped, TimeRead, NtpSilent, TimeSet, Connected, NotJoined, Created, Written,
     WriteEnds, Returned, StmServe, CheckFlag, CheckNtp, CheckWifi, CheckAddress, SyncNow,
     NtpSave, Due, Z80SetsZone, Z80Asks, WifiLost
<1>2. TasksRight
  BY <1>1 DEF TasksInv
<1>3. CASE Opened \/ Read \/ TimeSet \/ Created \/ Written \/ WriteEnds
  <2>1. ~Misread
    BY <1>3 DEF Opened, Read, TimeSet, Created, Written, WriteEnds, Returned
  <2> QED
    BY <1>2, <1>3, <2>1, OpenedKeeps, ReadKeeps, TimeSetKeeps, CreatedKeeps, WrittenKeeps,
       WriteEndsKeeps
<1>4. CASE Ask \/ LinkStep \/ StmServe
  BY <1>2, <1>4, AskKeeps, LinkKeeps, StmKeeps
<1>5. CASE Pinged \/ NotOpened \/ ReadFails \/ Shut \/ FlagDropped
  BY <1>2, <1>5, PingedKeeps, NotOpenedKeeps, ReadFailsKeeps, ShutKeeps, FlagDroppedKeeps
<1>6. CASE TimeRead \/ NtpSilent \/ NotJoined \/ Connected
  BY <1>2, <1>6, WaitKeeps, ConnectedKeeps
<1>7. CASE CheckFlag \/ CheckNtp \/ CheckWifi \/ CheckAddress \/ SyncNow \/ NtpSave
  BY <1>2, <1>7, LoopKeeps
<1>8. CASE Z80SetsZone \/ Z80Asks \/ WifiLost
  BY <1>2, <1>8, Z80Keeps
<1>9. CASE UNCHANGED vars
  <2>1. /\ UNCHANGED <<linkVars, handles, unkept, task, address, ntp_stop_retrying, ip_file_pending>>
        /\ disk' = disk /\ excused' = excused /\ online' = online /\ rtc' = rtc
    BY <1>9 DEF vars, srvVars, taskVars, wifiVars
  <2>2. /\ disk' = [f \in DOMAIN disk' |-> disk'[f]] /\ \A f \in DOMAIN disk' : IsSeq(disk'[f])
        /\ ~OnCard(disk').on => excused'
    BY <1>2, <2>1 DEF TasksRight, CardRight, ClockRight
  <2> QED
    BY <1>2, <2>1, <2>2, OutsideKeeps
<1> QED
  BY <1>3, <1>4, <1>5, <1>6, <1>7, <1>8, <1>9 DEF Next, Esp

\* What every state of the ESP32's tasks satisfies, until an answer is taken
\* for another's: the line holds nothing after the request made but its
\* repetitions, and each step of a task has done what it counts on.
THEOREM TasksInvariance == Spec => []TasksInv
<1>1. Init => TasksInv
  BY InitRight DEF TasksInv
<1> QED
  BY <1>1, NextKeeps, PTL DEF Spec

\* Between its tasks, while it is online and no answer was taken for another,
\* the ESP32's two notes are true: unless ip_file_pending says otherwise, the
\* file of the address is on the card, where it tells the address in use unless
\* the card did not keep what was written to it, and
\* ntp_stop_retrying only stops it when the clock was set since the network
\* was last lost, or was not to be set.
THEOREM NotesAreTrue == Spec => []NotesTrue
<1>1. TasksInv => NotesTrue
  <2> SUFFICES ASSUME TasksRight, task.kind = "none", online
               PROVE  /\ ~ip_file_pending =>
                           /\ IpFile \in DOMAIN disk
                           /\ IpFile \notin unkept =>
                                /\ disk[IpFile] # <<>>
                                /\ \A i \in DOMAIN disk[IpFile] : disk[IpFile][i] = [ip |-> address]
                      /\ ntp_stop_retrying => rtc # <<>> \/ excused
    BY DEF TasksInv, NotesTrue, InLoop
  <2>1. ASSUME ~ip_file_pending
        PROVE  /\ IpFile \in DOMAIN disk
               /\ IpFile \notin unkept =>
                    /\ disk[IpFile] # <<>>
                    /\ \A i \in DOMAIN disk[IpFile] : disk[IpFile][i] = [ip |-> address]
    <3>1. OnFile
      BY <2>1 DEF TasksRight, FileRight
    <3>2. IsSeq(disk[IpFile])
      BY <3>1 DEF TasksRight, CardRight, OnFile
    <3>3. DOMAIN disk[IpFile] = 1..Len(disk[IpFile])
      BY <3>2, SeqParts
    <3> QED
      BY <3>1, <3>3 DEF OnFile, Address
  <2>2. ntp_stop_retrying => rtc # <<>> \/ excused
    BY DEF TasksRight, ClockRight, Reconnecting
  <2> QED
    BY <2>1, <2>2
<1> QED
  BY <1>1, TasksInvariance, PTL
=============================================================================
