------------------------------- MODULE FileProof ------------------------------
(***************************************************************************)
(* Proofs about the files of the web pages and of the log, for every set   *)
(* of files, number of handles, of pieces, of jobs and of tries, and a     *)
(* card that may fail at any access.                                       *)
(*                                                                         *)
(* Neither side can tell a request from its repetition.  What saves the    *)
(* files is order: the line is first in, first out and the ESP32 begins a  *)
(* job when the one before has ended, so that when the STM32 runs a        *)
(* request of a job, no request of an earlier job can come any more        *)
(* (OrderInv).  Each property then needs to look at the requests of one    *)
(* job alone.                                                              *)
(***************************************************************************)
EXTENDS FileSafety, SequenceTheorems, WellFoundedInduction, TLAPS

Files == WebFiles \cup {LogFile}
Piece == Nat \X Nat

-----------------------------------------------------------------------------
(* Types.                                                                  *)

Reading  == {"READ_OPEN", "READ_CHUNK", "READ_CLOSE"}
Numbers  == Nat \ {0}
Requests ==
  [cmd : {"READ_OPEN", "WRITE_OPEN", "DELETE"}, n : Numbers, file : Files]
  \cup [cmd : {"READ_CHUNK"}, n : Numbers, h : Nat, offset : Nat]
  \cup {r \in [cmd : {"WRITE_CHUNK"}, n : Numbers, h : Nat, piece : Piece] :
          r.piece[1] \in {0, r.n}}
  \cup [cmd : {"READ_CLOSE", "WRITE_CLOSE", "WRITE_SYNC"}, n : Numbers, h : Nat]

Failures == {"NO_HANDLE_FREE", "NOT_FOUND", "BAD_HANDLE", "IO_ERROR"}
Silent   == {"READ_CLOSE", "WRITE_CLOSE", "WRITE_CHUNK", "WRITE_SYNC", "DELETE"}
Commands == Reading \cup Silent \cup {"WRITE_OPEN"}
Answers  ==
  {a \in [cmd : Commands, of : Requests, status : Failures]
         \cup [cmd : Silent, of : Requests, status : {"OK"}]
         \cup [cmd : {"READ_OPEN"}, of : Requests, status : {"OK"}, h : HandleIds, size : Nat]
         \cup [cmd : {"WRITE_OPEN"}, of : Requests, status : {"OK"}, h : HandleIds]
         \cup [cmd : {"READ_CHUNK"}, of : Requests, status : {"OK"}, data : Seq(Piece), eof : BOOLEAN] :
     a.cmd = a.of.cmd}

LineType ==
  /\ reqs \in Seq(Requests \cup {Garbled})
  /\ resps \in Seq(Answers \cup {FrameError})
  /\ request \in Requests \cup {NoRequest}
  /\ phase = "idle" <=> request = NoRequest
  /\ ran \in Requests \cup {NoRequest}

Opens(m) == {f \in [mode : {m}, file : Files, data : Seq(Piece), pos : Nat] : f.pos <= Len(f.data)}
CardType ==
  /\ disk \in [DOMAIN disk -> Seq(Piece)]
  /\ handles \in [HandleIds -> {Closed} \cup Opens("read") \cup Opens("write")]

Uploads   == {j \in [kind : {"upload"}, file : WebFiles, step : {"open", "data"}, h : Nat, done : Nat] :
                j.done <= Pieces}
Downloads == [kind : {"download"}, file : WebFiles, step : {"open", "data", "close"}, h : Nat,
              size : Nat, eof : BOOLEAN, got : Seq(Piece)]
Deletes   == [kind : {"delete"}, file : WebFiles, step : {"delete"}]
Flushes   == [kind : {"log"}, step : {"open", "data", "sync"}]
Jobs      == Uploads \cup Downloads \cup Deletes \cup Flushes
Outcomes  ==
  [kind : {"upload", "delete"}, n : Nat, ok : BOOLEAN, file : WebFiles]
  \cup [kind : {"download"}, n : Nat, file : WebFiles, got : Seq(Piece), ok : BOOLEAN]
  \cup [kind : {"log"}, n : Nat, ok : BOOLEAN]
JobType ==
  /\ jobs \in Nat
  /\ job \in Jobs \cup {NoJob}
  /\ log \in [open : BOOLEAN, h : Nat, buf : Numbers]
  /\ outcome \in Outcomes \cup {NoJob}
  /\ job # NoJob => outcome = NoJob /\ jobs > 0
  /\ outcome # NoJob => outcome.n = jobs
  /\ job = NoJob /\ outcome = NoJob => jobs = 0

-----------------------------------------------------------------------------
(* Order.                                                                  *)

\* What the job being done, or done last, is.
Kind == IF job # NoJob THEN job.kind ELSE outcome.kind
OwnCommands(kind) ==
  CASE kind = "upload"   -> {"WRITE_OPEN", "WRITE_CHUNK", "WRITE_CLOSE"}
    [] kind = "download" -> Reading
    [] kind = "delete"   -> {"DELETE"}
    [] kind = "log"      -> {"WRITE_OPEN", "WRITE_CHUNK", "WRITE_SYNC"}
    [] OTHER             -> {}

\* Where in its upload a request comes.
Rank(r) ==
  IF r.cmd = "WRITE_CHUNK" /\ r.piece[1] = r.n THEN r.piece[2]
  ELSE IF r.cmd = "WRITE_CLOSE" THEN Pieces + 1
  ELSE 0
Cap == IF job.kind = "upload" /\ job.step = "data" THEN job.done + 1 ELSE 0

Before(r, s) ==
  \/ r.n < s.n
  \/ r.n = s.n /\ Rank(r) <= Rank(s) /\ (r.cmd \in Reading <=> s.cmd \in Reading)
Follows(s, r) == r \in Requests /\ s \in Requests => Before(r, s)
Ordered(s) == \A i, j \in 1..Len(s) : i < j => Follows(s[j], s[i])

Elems(s) == {s[i] : i \in 1..Len(s)}

\* The request the job makes where it is.
Wants(r) ==
  \/ /\ job.kind = "upload" /\ job.step = "open"
     /\ r = [cmd |-> "WRITE_OPEN", n |-> jobs, file |-> job.file]
  \/ /\ job.kind = "upload" /\ job.step = "data" /\ job.done # Pieces
     /\ r = [cmd |-> "WRITE_CHUNK", n |-> jobs, h |-> job.h, piece |-> <<jobs, job.done + 1>>]
  \/ /\ job.kind = "upload" /\ job.step = "data" /\ job.done = Pieces
     /\ r = [cmd |-> "WRITE_CLOSE", n |-> jobs, h |-> job.h]
  \/ /\ job.kind = "download" /\ job.step = "open"
     /\ r = [cmd |-> "READ_OPEN", n |-> jobs, file |-> job.file]
  \/ /\ job.kind = "download" /\ job.step = "data"
     /\ r = [cmd |-> "READ_CHUNK", n |-> jobs, h |-> job.h, offset |-> Len(job.got)]
  \/ /\ job.kind = "download" /\ job.step = "close"
     /\ r = [cmd |-> "READ_CLOSE", n |-> jobs, h |-> job.h]
  \/ /\ job.kind = "delete"
     /\ r = [cmd |-> "DELETE", n |-> jobs, file |-> job.file]
  \/ /\ job.kind = "log" /\ job.step = "open"
     /\ r = [cmd |-> "WRITE_OPEN", n |-> jobs, file |-> LogFile]
  \/ /\ job.kind = "log" /\ job.step = "data"
     /\ r = [cmd |-> "WRITE_CHUNK", n |-> jobs, h |-> log.h, piece |-> <<0, log.buf>>]
  \/ /\ job.kind = "log" /\ job.step = "sync"
     /\ r = [cmd |-> "WRITE_SYNC", n |-> jobs, h |-> log.h]

\* A request under way, or run, is of this job as it was up to now, or of an
\* earlier one.
Known(r) ==
  r \in Requests =>
    /\ r.n <= jobs
    /\ r.n = jobs => r.cmd \in OwnCommands(Kind)
    /\ r.n = jobs /\ job # NoJob => Rank(r) <= Cap

OrderInv ==
  /\ request # NoRequest => Wants(request)
  /\ Ordered(reqs)
  /\ \A r \in Elems(reqs) : Follows(r, ran) /\ Known(r)
  /\ Known(ran)
  /\ \A a \in Elems(resps) : a \in Answers => ran # NoRequest /\ a.of.n <= ran.n

BaseInv == LineType /\ CardType /\ JobType /\ OrderInv

-----------------------------------------------------------------------------
(* What each property adds.                                                *)

\* The STM32 has begun to run the requests of the job: no others come.
Begun == ran \in Requests /\ ran.n = jobs

Own(r)        == r \in Requests /\ r.n = jobs
Answered(a)   == a \in Answers /\ a.of.n = jobs /\ a.status = "OK"
File          == IF job # NoJob THEN job.file ELSE outcome.file

\* UploadOrdered: in a handle, the pieces of the job of the request run last
\* are behind its position, and none is further in its upload than the request.
Behind(data, pos, r) ==
  \A i \in 1..Len(data) :
    IF r \in Requests
    THEN /\ data[i][1] <= r.n
         /\ data[i][1] = r.n => i <= pos /\ data[i][2] <= Rank(r) /\ r.cmd \notin Reading
    ELSE data[i][1] = 0
PiecesInv ==
  /\ \A f \in DOMAIN disk : InOrder(disk[f])
  /\ \A h \in HandleIds : handles[h].mode = "write" =>
       InOrder(handles[h].data) /\ Behind(handles[h].data, handles[h].pos, ran)

\* DownloadExact: from its first READ_OPEN on nothing but the download's own
\* requests is run, the file stays as it is, and its handles read it.
Reads(h, f) ==
  /\ f \in DOMAIN disk
  /\ h \in HandleIds =>
       \/ handles[h] = Closed
       \/ handles[h].mode = "read" /\ handles[h].data = disk[f]
Prefix(s, t) == Len(s) <= Len(t) /\ \A i \in 1..Len(s) : s[i] = t[i]
PieceOf(a, data) ==
  a.data = <<>> \/ (a.of.offset < Len(data) /\ a.data = <<data[a.of.offset + 1]>>)
DownReqs ==
  \A r \in Elems(reqs) : Own(r) =>
    IF r.cmd = "READ_OPEN" THEN r.file = File
    ELSE /\ Begun /\ Reads(r.h, File)
         /\ r.cmd = "READ_CHUNK" => r.offset <= Len(disk[File])
DownAnswers ==
  \A a \in Elems(resps) : Answered(a) =>
    /\ a.cmd = "READ_OPEN" => Reads(a.h, File) /\ a.size = Len(disk[File])
    /\ a.cmd = "READ_CHUNK" => PieceOf(a, disk[File])
DownJob ==
  job # NoJob =>
    IF job.step = "open" THEN job.got = <<>>
    ELSE Begun /\ Reads(job.h, File) /\ job.size = Len(disk[File]) /\ Prefix(job.got, disk[File])
DownEnd == job = NoJob /\ outcome.ok => Begun /\ File \in DOMAIN disk /\ outcome.got = disk[File]
DownInv ==
  Kind = "download" /\ jobs \notin misread => DownReqs /\ DownAnswers /\ DownJob /\ DownEnd

\* LogKept: no request but the log's own is about its handle.
Logs(h) == h \in HandleIds /\ handles[h].mode = "write" /\ handles[h].file = LogFile
           /\ handles[h].pos = Len(handles[h].data)
Has(h, piece) == \E i \in 1..Len(handles[h].data) : handles[h].data[i] = piece
Elsewhere(r) ==
  r \in Requests /\ r.cmd \in {"READ_CHUNK", "READ_CLOSE", "WRITE_CLOSE"} /\ log.open => r.h # log.h
OfTheLog(r) ==
  Own(r) /\ Kind = "log" =>
    /\ r.cmd = "WRITE_OPEN" => r.file = LogFile
    /\ r.cmd = "WRITE_CHUNK" => log.open /\ r.h = log.h
LogHandle ==
  IF log.open THEN Logs(log.h) /\ \A k \in 1..(log.buf - 1) : Has(log.h, <<0, k>>)
  ELSE log.buf = 1
LogReqs == \A r \in Elems(reqs) : Elsewhere(r) /\ OfTheLog(r)
LogAnswers ==
  \A a \in Elems(resps) : Answered(a) =>
    IF Kind = "log"
    THEN /\ a.cmd = "WRITE_OPEN" => Logs(a.h)
         /\ a.cmd = "WRITE_CHUNK" => log.open /\ Has(log.h, a.of.piece)
    ELSE a.cmd \in {"READ_OPEN", "WRITE_OPEN"} /\ log.open => a.h # log.h
LogJob ==
  /\ job.kind \in {"upload", "download"} /\ job.step # "open" /\ log.open => job.h # log.h
  /\ job.kind = "log" => (job.step = "open" <=> ~log.open)
LogInv == misread = {} => LogHandle /\ LogReqs /\ LogAnswers /\ LogJob

\* UploadExact: each request of the upload runs once, and the next is made
\* when the answer to it has been read, so that an answer under way is to the
\* request being made, and there is no other.
Exact         == Kind = "upload" /\ jobs \notin misread \cup again /\ (job # NoJob \/ outcome.ok)
Running       == request # NoRequest /\ ran = request
OwnAnswer(a)  == a \in Answers /\ a.of.n = jobs
First(n, k)   == [i \in 1..k |-> <<n, i>>]
Wrote(h, k)   ==
  /\ File \in DOMAIN disk
  /\ h \in HandleIds
  /\ handles[h] = [mode |-> "write", file |-> File, data |-> First(jobs, k), pos |-> k]
Complete      == File \in DOMAIN disk /\ (File \notin unkept => disk[File] = UploadOf(jobs))
UpReqs == \A r \in Elems(reqs) : Own(r) => r = ran \/ r = request
Alone  == \A i, j \in 1..Len(resps) : OwnAnswer(resps[i]) /\ OwnAnswer(resps[j]) => i = j
UpAnswers ==
  /\ Alone
  /\ \A a \in Elems(resps) : OwnAnswer(a) => Running /\ a.of = ran
  /\ \A a \in Elems(resps) : Answered(a) =>
       /\ a.cmd = "WRITE_OPEN" => Wrote(a.h, 0)
       /\ a.cmd = "WRITE_CHUNK" => Wrote(job.h, job.done + 1)
       /\ a.cmd = "WRITE_CLOSE" => Complete
UpJob ==
  job # NoJob =>
    IF job.step = "open" THEN job.done = 0 /\ (Begun => Running)
    ELSE Begun /\ (Running \/ (Rank(ran) <= job.done /\ Wrote(job.h, job.done)))
UpEnd == job = NoJob => Begun /\ Complete
UpInv == Exact => UpReqs /\ UpAnswers /\ UpJob /\ UpEnd

-----------------------------------------------------------------------------
(* Sequences.                                                              *)

LEMMA SeqParts ==
  ASSUME NEW S, NEW s \in Seq(S)
  PROVE  /\ Len(s) \in Nat
         /\ s # <<>> => /\ Len(s) > 0 /\ Head(s) \in S /\ Head(s) = s[1] /\ Tail(s) \in Seq(S)
                        /\ Len(Tail(s)) = Len(s) - 1
                        /\ \A i \in 1..(Len(s) - 1) : Tail(s)[i] = s[i + 1]
         /\ \A n \in 0..Len(s) :
              /\ Drop(s, n) \in Seq(S) /\ Len(Drop(s, n)) = Len(s) - n
              /\ \A i \in 1..(Len(s) - n) : Drop(s, n)[i] = s[i + n]
         /\ \A x \in S :
              /\ Append(s, x) \in Seq(S) /\ Len(Append(s, x)) = Len(s) + 1
              /\ \A i \in 1..(Len(s) + 1) : Append(s, x)[i] = IF i <= Len(s) THEN s[i] ELSE x
<1>1. Len(s) \in Nat /\ (s # <<>> => Len(s) > 0)
  BY LenProperties, EmptySeq
<1>2. ASSUME NEW n \in 0..Len(s)
      PROVE  /\ Drop(s, n) \in Seq(S) /\ Len(Drop(s, n)) = Len(s) - n
             /\ \A i \in 1..(Len(s) - n) : Drop(s, n)[i] = s[i + n]
  <2>1. \A i \in (n + 1)..Len(s) : s[i] \in S
    BY ElementOfSeq
  <2> QED
    BY <1>1, <2>1, SubSeqProperties DEF Drop
<1>3. ASSUME NEW x \in S
      PROVE  /\ Append(s, x) \in Seq(S) /\ Len(Append(s, x)) = Len(s) + 1
             /\ \A i \in 1..(Len(s) + 1) : Append(s, x)[i] = IF i <= Len(s) THEN s[i] ELSE x
  BY <1>1, AppendProperties
<1> QED
  BY <1>1, <1>2, <1>3, HeadTailProperties

LEMMA ElemsParts ==
  ASSUME NEW S, NEW s \in Seq(S)
  PROVE  /\ \A x \in Elems(s) : x \in S
         /\ s # <<>> => Head(s) \in Elems(s) /\ \A x \in Elems(Tail(s)) : x \in Elems(s)
         /\ \A n \in 0..Len(s) : \A x \in Elems(Drop(s, n)) : x \in Elems(s)
         /\ \A y \in S : \A x \in Elems(Append(s, y)) : x \in Elems(s) \/ x = y
<1>1. \A x \in Elems(s) : x \in S
  BY ElementOfSeq DEF Elems
<1>2. ASSUME s # <<>> PROVE Head(s) \in Elems(s) /\ \A x \in Elems(Tail(s)) : x \in Elems(s)
  <2>1. 1 \in 1..Len(s) /\ Head(s) = s[1]
    BY <1>2, SeqParts
  <2>2. ASSUME NEW x \in Elems(Tail(s)) PROVE x \in Elems(s)
    <3>1. PICK i \in 1..Len(Tail(s)) : x = Tail(s)[i]
      BY DEF Elems
    <3>2. i + 1 \in 1..Len(s) /\ x = s[i + 1]
      BY <1>2, <3>1, SeqParts
    <3> QED
      BY <3>2 DEF Elems
  <2> QED
    BY <2>1, <2>2 DEF Elems
<1>3. ASSUME NEW n \in 0..Len(s), NEW x \in Elems(Drop(s, n)) PROVE x \in Elems(s)
  <2>1. PICK i \in 1..Len(Drop(s, n)) : x = Drop(s, n)[i]
    BY DEF Elems
  <2>2. Len(s) \in Nat /\ Len(Drop(s, n)) = Len(s) - n
    BY SeqParts
  <2>3. i \in 1..(Len(s) - n) /\ i + n \in 1..Len(s)
    BY <2>2
  <2>4. x = s[i + n]
    BY <2>1, <2>3, SeqParts
  <2> QED
    BY <2>3, <2>4 DEF Elems
<1>4. ASSUME NEW y \in S, NEW x \in Elems(Append(s, y)) PROVE x \in Elems(s) \/ x = y
  <2>1. PICK i \in 1..Len(Append(s, y)) : x = Append(s, y)[i]
    BY DEF Elems
  <2> QED
    BY <2>1, SeqParts DEF Elems
<1> QED
  BY <1>1, <1>2, <1>3, <1>4

-----------------------------------------------------------------------------
(* Requests, answers and jobs.                                             *)

LEMMA RequestFacts ==
  ASSUME NEW r \in Requests
  PROVE  /\ r.n \in Numbers /\ r.cmd \in Commands
         /\ r.cmd \in {"READ_OPEN", "WRITE_OPEN", "DELETE"} => r.file \in Files
         /\ r.cmd \in {"READ_CHUNK", "READ_CLOSE", "WRITE_CHUNK", "WRITE_CLOSE", "WRITE_SYNC"}
              => r.h \in Nat
         /\ r.cmd = "READ_CHUNK" => r.offset \in Nat
         /\ r.cmd = "WRITE_CHUNK" => /\ r.piece \in Piece /\ r.piece[1] \in {0, r.n}
                                     /\ r.piece[1] \in Nat /\ r.piece[2] \in Nat
         /\ r # Garbled /\ r # NoRequest /\ r.cmd \notin {"garbled", "none", "FRAME_ERROR"}
<1>1. CASE r \in [cmd : {"READ_OPEN", "WRITE_OPEN", "DELETE"}, n : Numbers, file : Files]
  BY <1>1 DEF Garbled, NoRequest, Commands, Silent, Reading
<1>2. CASE r \in [cmd : {"READ_CHUNK"}, n : Numbers, h : Nat, offset : Nat]
  BY <1>2 DEF Garbled, NoRequest, Commands, Silent, Reading
<1>3. CASE r \in [cmd : {"WRITE_CHUNK"}, n : Numbers, h : Nat, piece : Piece] /\ r.piece[1] \in {0, r.n}
  BY <1>3 DEF Garbled, NoRequest, Commands, Silent, Reading, Piece
<1>4. CASE r \in [cmd : {"READ_CLOSE", "WRITE_CLOSE", "WRITE_SYNC"}, n : Numbers, h : Nat]
  BY <1>4 DEF Garbled, NoRequest, Commands, Silent, Reading
<1> QED
  BY <1>1, <1>2, <1>3, <1>4 DEF Requests

LEMMA RankFacts ==
  ASSUME NEW r \in Requests
  PROVE  /\ Rank(r) \in Nat /\ r.n \in Nat
         /\ r.cmd \notin {"WRITE_CHUNK", "WRITE_CLOSE"} => Rank(r) = 0
BY RequestFacts, ClientBounds DEF Rank, Numbers

LEMMA AnswerFacts ==
  ASSUME NEW a \in Answers
  PROVE  /\ a.of \in Requests /\ a.cmd = a.of.cmd /\ a.cmd \in Commands
         /\ a # FrameError
         /\ a.status = "OK" /\ a.cmd = "READ_OPEN" => a.h \in HandleIds /\ a.size \in Nat
         /\ a.status = "OK" /\ a.cmd = "WRITE_OPEN" => a.h \in HandleIds
         /\ a.status = "OK" /\ a.cmd = "READ_CHUNK" => a.data \in Seq(Piece) /\ a.eof \in BOOLEAN
<1>0. a.cmd = a.of.cmd
  BY DEF Answers
<1>1. CASE a \in [cmd : Commands, of : Requests, status : Failures]
  BY <1>0, <1>1, RequestFacts DEF FrameError, Failures
<1>2. CASE a \in [cmd : Silent, of : Requests, status : {"OK"}]
  BY <1>0, <1>2, RequestFacts DEF FrameError, Silent
<1>3. CASE a \in [cmd : {"READ_OPEN"}, of : Requests, status : {"OK"}, h : HandleIds, size : Nat]
  BY <1>0, <1>3, RequestFacts DEF FrameError
<1>4. CASE a \in [cmd : {"WRITE_OPEN"}, of : Requests, status : {"OK"}, h : HandleIds]
  BY <1>0, <1>4, RequestFacts DEF FrameError
<1>5. CASE a \in [cmd : {"READ_CHUNK"}, of : Requests, status : {"OK"}, data : Seq(Piece), eof : BOOLEAN]
  BY <1>0, <1>5, RequestFacts DEF FrameError
<1> QED
  BY <1>1, <1>2, <1>3, <1>4, <1>5 DEF Answers

LEMMA JobFacts ==
  ASSUME JobType
  PROVE  /\ job = NoJob <=> job.kind = "none"
         /\ job.kind = "upload" =>
              /\ job \in Uploads /\ job.file \in WebFiles /\ job.h \in Nat /\ job.done \in Nat
              /\ job.done <= Pieces /\ job.step \in {"open", "data"}
         /\ job.kind = "download" =>
              /\ job \in Downloads /\ job.file \in WebFiles /\ job.h \in Nat /\ job.size \in Nat
              /\ job.got \in Seq(Piece) /\ job.step \in {"open", "data", "close"}
              /\ job.eof \in BOOLEAN
         /\ job.kind = "delete" => job \in Deletes /\ job.file \in WebFiles /\ job.step = "delete"
         /\ job.kind = "log" => job \in Flushes /\ job.step \in {"open", "data", "sync"}
         /\ job # NoJob => job.kind \in {"upload", "download", "delete", "log"}
         /\ log.open \in BOOLEAN /\ log.h \in Nat /\ log.buf \in Numbers
<1>1. CASE job = NoJob
  BY <1>1 DEF JobType, NoJob
<1>2. CASE job \in Uploads
  BY <1>2 DEF JobType, NoJob, Uploads
<1>3. CASE job \in Downloads
  BY <1>3 DEF JobType, NoJob, Downloads
<1>4. CASE job \in Deletes
  BY <1>4 DEF JobType, NoJob, Deletes
<1>5. CASE job \in Flushes
  BY <1>5 DEF JobType, NoJob, Flushes
<1> QED
  BY <1>1, <1>2, <1>3, <1>4, <1>5 DEF JobType, Jobs

-----------------------------------------------------------------------------
(* What the STM32 does with a request r it answers with a.                 *)

Refused(a) == a.status # "OK" /\ UNCHANGED srvVars
OpenedToRead(r, a) ==
  /\ r.cmd = "READ_OPEN" /\ a.status = "OK" /\ a.h \in HandleIds /\ handles[a.h] = Closed
  /\ r.file \in DOMAIN disk /\ a.size = Len(disk[r.file]) /\ disk' = disk
  /\ handles' = [handles EXCEPT ![a.h] =
                   [mode |-> "read", file |-> r.file, data |-> disk[r.file], pos |-> 0]]
HasRead(r, a) ==
  /\ r.cmd = "READ_CHUNK" /\ a.status = "OK" /\ Used(r.h)
  /\ \E p \in 0..Len(handles[r.h].data) : handles' = [handles EXCEPT ![r.h].pos = p]
  /\ r.offset <= Len(handles[r.h].data) => PieceOf(a, handles[r.h].data)
  /\ disk' = disk
HasClosed(r, a) ==
  r.cmd \in {"READ_CLOSE", "WRITE_CLOSE"} /\ a.status = "OK" /\ Used(r.h) /\ CloseHandle(r.h)
OpenedToWrite(r, a) ==
  /\ r.cmd = "WRITE_OPEN" /\ a.status = "OK" /\ a.h \in HandleIds /\ handles[a.h] = Closed
  /\ handles' = [handles EXCEPT ![a.h] =
                   [mode |-> "write", file |-> r.file, data |-> <<>>, pos |-> 0]]
  /\ disk' = [f \in DOMAIN disk \cup {r.file} |-> IF f = r.file THEN <<>> ELSE disk[f]]
HasWritten(r, a) ==
  /\ r.cmd = "WRITE_CHUNK" /\ a.status = "OK" /\ Used(r.h) /\ handles[r.h].mode = "write"
  /\ handles' = [handles EXCEPT ![r.h] =
                   [mode |-> "write", file |-> @.file, data |-> Put(@.data, @.pos, r.piece),
                    pos |-> @.pos + 1]]
  /\ disk' = disk
HasSynced(r, a) ==
  /\ r.cmd = "WRITE_SYNC" /\ a.status = "OK" /\ Used(r.h)
  /\ SyncHandle(r.h) /\ handles' = handles
HasDeleted(r, a) ==
  /\ r.cmd = "DELETE" /\ a.status = "OK" /\ r.file \in DOMAIN disk
  /\ disk' = [f \in DOMAIN disk \ {r.file} |-> disk[f]] /\ handles' = handles
Effect(r, a) ==
  \/ Refused(a)
  \/ OpenedToRead(r, a) \/ HasRead(r, a) \/ HasClosed(r, a)
  \/ OpenedToWrite(r, a) \/ HasWritten(r, a) \/ HasSynced(r, a) \/ HasDeleted(r, a)

\* alloc_handle finds a free handle when there is one.
LEMMA LeastOf ==
  ASSUME NEW T, T \subseteq Nat, T # {}
  PROVE  \E x \in T : \A y \in T : x <= y
<1> DEFINE R == {ss \in Nat \X Nat : ss[1] < ss[2]}
<1>1. IsWellFoundedOn(R, Nat)
  BY NatLessThanWellFounded DEF OpToRel
<1>2. \A x \in Nat, y \in Nat : x < y => <<x, y>> \in R
  OBVIOUS
<1> HIDE DEF R
<1>3. \E x \in T : \A y \in T : <<y, x>> \notin R
  BY <1>1, WFMin
<1>4. PICK x \in T : \A y \in T : <<y, x>> \notin R
  BY <1>3
<1>5. ASSUME NEW y \in T PROVE x <= y
  <2>1. x \in Nat /\ y \in Nat /\ ~(y < x)
    BY <1>2, <1>4
  <2> QED
    BY <2>1
<1> QED
  BY <1>5

LEMMA AllocFree ==
  ASSUME FreeHandles # {}
  PROVE  AllocHandle \in HandleIds /\ handles[AllocHandle] = Closed
<1>1. HandleIds \subseteq Nat /\ FreeHandles \subseteq HandleIds
  BY ServerBounds DEF HandleIds, FreeHandles
<1>2. \E x \in FreeHandles : \A y \in FreeHandles : x <= y
  BY <1>1, LeastOf
<1>3. AllocHandle \in FreeHandles
  BY <1>2 DEF AllocHandle
<1> QED
  BY <1>3 DEF FreeHandles, Used

LEMMA HandleFacts ==
  ASSUME CardType, NEW h \in HandleIds, handles[h] # Closed
  PROVE  /\ handles[h].mode \in {"read", "write"} /\ handles[h].file \in Files
         /\ handles[h] \in Opens(handles[h].mode)
         /\ handles[h].data \in Seq(Piece) /\ Len(handles[h].data) \in Nat
         /\ handles[h].pos \in 0..Len(handles[h].data)
<1>1. handles[h] \in Opens("read") \cup Opens("write")
  BY DEF CardType
<1>2. \A m : \A f \in Opens(m) : /\ f.mode = m /\ f.file \in Files /\ f.data \in Seq(Piece)
                                 /\ f.pos \in Nat /\ f.pos <= Len(f.data)
  BY DEF Opens
<1>3. PICK m \in {"read", "write"} : handles[h] \in Opens(m)
  BY <1>1
<1>4. /\ handles[h].mode = m /\ handles[h].file \in Files /\ handles[h].data \in Seq(Piece)
      /\ handles[h].pos \in Nat /\ handles[h].pos <= Len(handles[h].data)
  BY <1>2, <1>3
<1>5. Len(handles[h].data) \in Nat
  BY <1>4, LenProperties
<1> QED
  BY <1>3, <1>4, <1>5

LEMMA PutFacts ==
  ASSUME NEW data \in Seq(Piece), NEW pos \in 0..Len(data), NEW piece \in Piece
  PROVE  /\ Put(data, pos, piece) \in Seq(Piece)
         /\ Len(Put(data, pos, piece)) = IF pos < Len(data) THEN Len(data) ELSE pos + 1
         /\ \A i \in 1..Len(Put(data, pos, piece)) :
              Put(data, pos, piece)[i] = IF i = pos + 1 THEN piece ELSE data[i]
<1> DEFINE u == SubSeq(data, 1, pos)
           v == SubSeq(data, pos + 2, Len(data))
           w == <<piece>>
<1>1. Len(data) \in Nat /\ pos \in Nat
  BY LenProperties
<1>2. \A i \in 1..Len(data) : data[i] \in Piece
  BY ElementOfSeq
<1>3. u \in Seq(Piece) /\ Len(u) = pos /\ \A i \in 1..pos : u[i] = data[i]
  <2>1. \A i \in 1..pos : data[i] \in Piece
    BY <1>1, <1>2
  <2>2. /\ u \in Seq(Piece) /\ Len(u) = IF 1 <= pos THEN pos - 1 + 1 ELSE 0
        /\ \A i \in 1..(pos - 1 + 1) : u[i] = data[1 + i - 1]
    BY <1>1, <2>1, SubSeqProperties
  <2> QED
    BY <1>1, <2>2
<1>4. /\ v \in Seq(Piece) /\ Len(v) = IF pos + 2 <= Len(data) THEN Len(data) - pos - 1 ELSE 0
      /\ \A i \in 1..(Len(data) - pos - 1) : v[i] = data[pos + 1 + i]
  <2>1. \A i \in (pos + 2)..Len(data) : data[i] \in Piece
    BY <1>1, <1>2
  <2>2. /\ v \in Seq(Piece)
        /\ Len(v) = IF pos + 2 <= Len(data) THEN Len(data) - (pos + 2) + 1 ELSE 0
        /\ \A i \in 1..(Len(data) - (pos + 2) + 1) : v[i] = data[pos + 2 + i - 1]
    BY <1>1, <2>1, SubSeqProperties
  <2> QED
    BY <1>1, <2>2
<1>5. w \in Seq(Piece) /\ Len(w) = 1 /\ w[1] = piece
  OBVIOUS
<1> HIDE DEF u, v, w
<1>6. /\ u \o w \in Seq(Piece) /\ Len(u \o w) = pos + 1
      /\ \A i \in 1..(pos + 1) : (u \o w)[i] = IF i <= pos THEN data[i] ELSE piece
  <2>1. /\ u \o w \in Seq(Piece) /\ Len(u \o w) = Len(u) + Len(w)
        /\ \A i \in 1..(Len(u) + Len(w)) : (u \o w)[i] = IF i <= Len(u) THEN u[i] ELSE w[i - Len(u)]
    BY <1>3, <1>5, ConcatProperties
  <2> QED
    BY <1>1, <1>3, <1>5, <2>1
<1>7. /\ (u \o w) \o v \in Seq(Piece) /\ Len((u \o w) \o v) = Len(u \o w) + Len(v)
      /\ \A i \in 1..(Len(u \o w) + Len(v)) :
           ((u \o w) \o v)[i] = IF i <= Len(u \o w) THEN (u \o w)[i] ELSE v[i - Len(u \o w)]
  BY <1>4, <1>6, ConcatProperties
<1>8. Put(data, pos, piece) = (u \o w) \o v
  BY DEF Put, u, v, w
<1>9. Len((u \o w) \o v) = IF pos < Len(data) THEN Len(data) ELSE pos + 1
  <2>1. Len((u \o w) \o v) = pos + 1 + Len(v)
    BY <1>6, <1>7
  <2>2. Len(v) = IF pos + 2 <= Len(data) THEN Len(data) - pos - 1 ELSE 0
    BY <1>4
  <2>3. CASE pos + 2 <= Len(data)
    BY <1>1, <2>1, <2>2, <2>3
  <2>4. CASE ~(pos + 2 <= Len(data))
    <3>1. Len((u \o w) \o v) = pos + 1
      BY <1>1, <2>1, <2>2, <2>4
    <3>2. pos < Len(data) => pos + 1 = Len(data)
      BY <1>1, <2>4
    <3> QED
      BY <1>1, <3>1, <3>2
  <2> QED
    BY <2>3, <2>4
<1>10. ASSUME NEW i \in 1..Len((u \o w) \o v)
       PROVE  ((u \o w) \o v)[i] = IF i = pos + 1 THEN piece ELSE data[i]
  <2>1. CASE i <= pos + 1
    <3>1. i \in 1..(pos + 1) /\ i \in 1..(Len(u \o w) + Len(v))
      BY <1>1, <1>6, <1>7, <2>1
    <3>2. ((u \o w) \o v)[i] = (u \o w)[i]
      BY <1>6, <1>7, <2>1, <3>1
    <3> QED
      BY <1>1, <1>6, <2>1, <3>1, <3>2
  <2>2. CASE i > pos + 1
    <3>0. /\ i \in Nat /\ i <= Len(data) /\ pos < Len(data) /\ Len(u \o w) = pos + 1
          /\ i \in 1..(Len(u \o w) + Len(v))
      BY <1>1, <1>6, <1>7, <1>9, <2>2
    <3>1. /\ i \in 1..(Len(u \o w) + Len(v)) /\ ~(i <= Len(u \o w))
          /\ i - Len(u \o w) \in 1..(Len(data) - pos - 1)
      BY <1>1, <2>2, <3>0
    <3>2. ((u \o w) \o v)[i] = v[i - Len(u \o w)]
      BY <1>7, <3>1
    <3>3. v[i - Len(u \o w)] = data[pos + 1 + (i - Len(u \o w))]
      BY <1>4, <3>1
    <3>4. pos + 1 + (i - Len(u \o w)) = i
      BY <1>1, <1>6
    <3> QED
      BY <2>2, <3>2, <3>3, <3>4, <1>1
  <2> QED
    BY <1>1, <2>1, <2>2
<1> QED
  BY <1>7, <1>8, <1>9, <1>10

LEMMA StatusFacts ==
  ASSUME NEW r \in Requests, NEW st
  PROVE  /\ Status(r, st).of = r /\ Status(r, st).status = st /\ Status(r, st).cmd = r.cmd
         /\ st \in Failures => Status(r, st) \in Answers /\ st # "OK"
         /\ st = "OK" /\ r.cmd \in Silent => Status(r, st) \in Answers
BY RequestFacts DEF Status, Answers, Failures

Said(r, a) == a \in Answers /\ a.of = r /\ (resps' = resps \/ resps' = Append(resps, a))

LEMMA SaidFacts ==
  ASSUME NEW r \in Requests, NEW a, a \in Answers, a.of = r, Answer(a)
  PROVE  Said(r, a)
BY DEF Said, Answer, AnswerSent, AnswerLost

LEMMA RefuseFacts ==
  ASSUME NEW r \in Requests, NEW st \in Failures, Refuse(r, st)
  PROVE  \E a : Said(r, a) /\ Effect(r, a)
<1>1. Said(r, Status(r, st))
  BY StatusFacts, SaidFacts DEF Refuse
<1>2. Refused(Status(r, st))
  BY StatusFacts DEF Refused, Refuse
<1> QED
  BY <1>1, <1>2 DEF Effect

LEMMA ReadOpenFacts ==
  ASSUME CardType, NEW r \in Requests, r.cmd = "READ_OPEN", ReadOpen(r)
  PROVE  \E a : Said(r, a) /\ Effect(r, a)
<1>1. CASE Refuse(r, "NO_HANDLE_FREE") \/ Refuse(r, "NOT_FOUND")
  BY <1>1, RefuseFacts DEF Failures
<1>2. CASE ~(Refuse(r, "NO_HANDLE_FREE") \/ Refuse(r, "NOT_FOUND"))
  <2> DEFINE a == [cmd |-> "READ_OPEN", of |-> r, status |-> "OK",
                   h |-> AllocHandle, size |-> Len(disk[r.file])]
  <2>1. /\ FreeHandles # {} /\ r.file \in DOMAIN disk /\ disk' = disk /\ Answer(a)
        /\ handles' = [handles EXCEPT ![AllocHandle] =
             [mode |-> "read", file |-> r.file, data |-> disk[r.file], pos |-> 0]]
    BY <1>2 DEF ReadOpen
  <2>2. AllocHandle \in HandleIds /\ handles[AllocHandle] = Closed
    BY <2>1, AllocFree
  <2>3. Len(disk[r.file]) \in Nat
    BY <2>1, LenProperties DEF CardType
  <2>4. a \in Answers /\ a.of = r /\ a.status = "OK" /\ a.h = AllocHandle /\ a.size = Len(disk[r.file])
    BY <2>2, <2>3 DEF Answers
  <2> HIDE DEF a
  <2>5. OpenedToRead(r, a)
    BY <2>1, <2>2, <2>4 DEF OpenedToRead
  <2> QED
    BY <2>1, <2>4, <2>5, SaidFacts DEF Effect
<1> QED
  BY <1>1, <1>2

LEMMA WriteOpenFacts ==
  ASSUME NEW r \in Requests, r.cmd = "WRITE_OPEN", WriteOpen(r)
  PROVE  \E a : Said(r, a) /\ Effect(r, a)
<1>1. CASE Refuse(r, "NO_HANDLE_FREE") \/ Refuse(r, "IO_ERROR")
  BY <1>1, RefuseFacts DEF Failures
<1>2. CASE ~(Refuse(r, "NO_HANDLE_FREE") \/ Refuse(r, "IO_ERROR"))
  <2> DEFINE a == [cmd |-> "WRITE_OPEN", of |-> r, status |-> "OK", h |-> AllocHandle]
  <2>1. /\ FreeHandles # {} /\ Answer(a)
        /\ handles' = [handles EXCEPT ![AllocHandle] =
             [mode |-> "write", file |-> r.file, data |-> <<>>, pos |-> 0]]
        /\ disk' = [f \in DOMAIN disk \cup {r.file} |-> IF f = r.file THEN <<>> ELSE disk[f]]
    BY <1>2 DEF WriteOpen, Truncated
  <2>2. AllocHandle \in HandleIds /\ handles[AllocHandle] = Closed
    BY <2>1, AllocFree
  <2>3. a \in Answers /\ a.of = r /\ a.status = "OK" /\ a.h = AllocHandle
    BY <2>2 DEF Answers
  <2> HIDE DEF a
  <2>4. OpenedToWrite(r, a)
    BY <2>1, <2>2, <2>3 DEF OpenedToWrite
  <2> QED
    BY <2>1, <2>3, <2>4, SaidFacts DEF Effect
<1> QED
  BY <1>1, <1>2

LEMMA ReadChunkFacts ==
  ASSUME CardType, NEW r \in Requests, r.cmd = "READ_CHUNK", ReadChunk(r)
  PROVE  \E a : Said(r, a) /\ Effect(r, a)
<1>1. CASE Refuse(r, "BAD_HANDLE")
  BY <1>1, RefuseFacts DEF Failures
<1>2. CASE ~Refuse(r, "BAD_HANDLE")
  <2> DEFINE f    == handles[r.h]
             pos  == SeekSet(f, r.offset)
             some == f.mode = "read" /\ pos < Len(f.data)
             ans(n) == [cmd |-> "READ_CHUNK", of |-> r, status |-> "OK",
                        data |-> SubSeq(f.data, pos + 1, pos + n),
                        eof |-> r.offset + n >= Len(f.data)]
  <2>1. PICK n \in (IF some THEN {1} ELSE {0}) \cup (IF CardFails THEN {0} ELSE {}) :
          /\ Used(r.h) /\ disk' = disk
          /\ handles' = [handles EXCEPT ![r.h].pos = pos + n]
          /\ Answer(ans(n))
    BY <1>2 DEF ReadChunk
  <2>2. /\ r.h \in HandleIds /\ f.data \in Seq(Piece) /\ Len(f.data) \in Nat
        /\ f.pos \in 0..Len(f.data) /\ r.offset \in Nat
    BY <2>1, HandleFacts, RequestFacts DEF Used
  <2>3. pos \in 0..Len(f.data) /\ (r.offset <= Len(f.data) => pos = r.offset)
    BY <2>2 DEF SeekSet
  <2> HIDE DEF pos
  <2>4. n \in {0, 1} /\ (n = 1 => pos < Len(f.data))
    BY <2>1
  <2> HIDE DEF some
  <2>5. pos + n \in 0..Len(f.data)
    BY <2>2, <2>3, <2>4
  <2>6. /\ SubSeq(f.data, pos + 1, pos + n) \in Seq(Piece)
        /\ n = 0 => SubSeq(f.data, pos + 1, pos + n) = <<>>
        /\ n = 1 => SubSeq(f.data, pos + 1, pos + n) = <<f.data[pos + 1]>>
    <3>1. ASSUME n = 0 PROVE SubSeq(f.data, pos + 1, pos + n) = <<>>
      BY <2>3, <3>1, SubSeqEmpty
    <3>2. ASSUME n = 1
          PROVE  /\ SubSeq(f.data, pos + 1, pos + n) = <<f.data[pos + 1]>>
                 /\ SubSeq(f.data, pos + 1, pos + n) \in Seq(Piece)
      <4> DEFINE s == SubSeq(f.data, pos + 1, pos + 1)
                 t == <<f.data[pos + 1]>>
      <4>1. pos + 1 \in 1..Len(f.data) /\ pos + n = pos + 1
        BY <2>2, <2>3, <2>4, <3>2
      <4>2. f.data[pos + 1] \in Piece
        BY <2>2, <4>1, ElementOfSeq
      <4>3. \A i \in (pos + 1)..(pos + 1) : f.data[i] \in Piece
        BY <4>1, <4>2
      <4>4. /\ s \in Seq(Piece) /\ Len(s) = IF pos + 1 <= pos + 1 THEN pos + 1 - (pos + 1) + 1 ELSE 0
            /\ \A i \in 1..(pos + 1 - (pos + 1) + 1) : s[i] = f.data[pos + 1 + i - 1]
        BY <2>3, <4>3, SubSeqProperties
      <4>5. Len(s) = 1 /\ s[1] = f.data[pos + 1]
        BY <2>3, <4>4
      <4>6. t \in Seq(Piece) /\ Len(t) = 1 /\ t[1] = f.data[pos + 1]
        BY <4>2
      <4> HIDE DEF s, t
      <4>7. s = t
        <5>1. Len(s) = Len(t) /\ \A i \in 1..Len(s) : s[i] = t[i]
          BY <4>5, <4>6
        <5> QED
          BY <4>4, <4>6, <5>1, SeqEqual
      <4> QED
        BY <4>1, <4>4, <4>7 DEF s, t
    <3> QED
      BY <2>4, <3>1, <3>2, EmptySeq
  <2>7. (r.offset + n >= Len(f.data)) \in BOOLEAN
    OBVIOUS
  <2>8. ans(n) \in Answers /\ ans(n).of = r /\ ans(n).status = "OK"
        /\ ans(n).data = SubSeq(f.data, pos + 1, pos + n)
    BY <2>6, <2>7 DEF Answers
  <2> DEFINE a == ans(n)
  <2>9. a \in Answers /\ a.of = r /\ a.status = "OK" /\ Answer(a)
        /\ a.data = SubSeq(f.data, pos + 1, pos + n)
    BY <2>1, <2>8
  <2> HIDE DEF a
  <2>10. r.offset <= Len(f.data) => PieceOf(a, f.data)
    BY <2>2, <2>3, <2>4, <2>6, <2>9 DEF PieceOf
  <2>11. HasRead(r, a)
    BY <2>1, <2>5, <2>9, <2>10 DEF HasRead
  <2> QED
    BY <2>9, <2>11, SaidFacts DEF Effect
<1> QED
  BY <1>1, <1>2

LEMMA SilentFacts ==
  ASSUME NEW r \in Requests, r.cmd \in Silent, Answer(Status(r, "OK"))
  PROVE  /\ Said(r, Status(r, "OK")) /\ Status(r, "OK").status = "OK"
BY StatusFacts, SaidFacts

LEMMA CloseFacts ==
  ASSUME NEW r \in Requests, r.cmd \in {"READ_CLOSE", "WRITE_CLOSE"}, Close(r)
  PROVE  \E a : Said(r, a) /\ Effect(r, a)
<1>1. CASE Refuse(r, "BAD_HANDLE")
  BY <1>1, RefuseFacts DEF Failures
<1>2. CASE ~Refuse(r, "BAD_HANDLE")
  <2>1. Used(r.h) /\ CloseHandle(r.h) /\ Answer(Status(r, "OK"))
    BY <1>2 DEF Close
  <2>2. Said(r, Status(r, "OK")) /\ Status(r, "OK").status = "OK"
    BY <2>1, SilentFacts DEF Silent
  <2> QED
    BY <2>1, <2>2 DEF HasClosed, Effect
<1> QED
  BY <1>1, <1>2

LEMMA WriteSyncFacts ==
  ASSUME NEW r \in Requests, r.cmd = "WRITE_SYNC", WriteSync(r)
  PROVE  \E a : Said(r, a) /\ Effect(r, a)
<1>1. CASE Refuse(r, "BAD_HANDLE")
  BY <1>1, RefuseFacts DEF Failures
<1>2. CASE ~Refuse(r, "BAD_HANDLE")
  <2>1. Used(r.h) /\ SyncHandle(r.h) /\ handles' = handles /\ Answer(Status(r, "OK"))
    BY <1>2 DEF WriteSync
  <2>2. Said(r, Status(r, "OK")) /\ Status(r, "OK").status = "OK"
    BY <2>1, SilentFacts DEF Silent
  <2> QED
    BY <2>1, <2>2 DEF HasSynced, Effect
<1> QED
  BY <1>1, <1>2

LEMMA DeleteFacts ==
  ASSUME NEW r \in Requests, r.cmd = "DELETE", Delete(r)
  PROVE  \E a : Said(r, a) /\ Effect(r, a)
<1>1. CASE Refuse(r, "NOT_FOUND") \/ Refuse(r, "IO_ERROR")
  BY <1>1, RefuseFacts DEF Failures
<1>2. CASE ~(Refuse(r, "NOT_FOUND") \/ Refuse(r, "IO_ERROR"))
  <2>1. /\ r.file \in DOMAIN disk /\ disk' = [f \in DOMAIN disk \ {r.file} |-> disk[f]]
        /\ handles' = handles /\ Answer(Status(r, "OK"))
    BY <1>2 DEF Delete
  <2>2. Said(r, Status(r, "OK")) /\ Status(r, "OK").status = "OK"
    BY <2>1, SilentFacts DEF Silent
  <2> QED
    BY <2>1, <2>2 DEF HasDeleted, Effect
<1> QED
  BY <1>1, <1>2

LEMMA WriteChunkFacts ==
  ASSUME CardType, NEW r \in Requests, r.cmd = "WRITE_CHUNK", WriteChunk(r)
  PROVE  \E a : Said(r, a) /\ Effect(r, a)
<1>1. CASE Refuse(r, "BAD_HANDLE") \/ Refuse(r, "IO_ERROR")
  BY <1>1, RefuseFacts DEF Failures
<1>2. CASE ~(Refuse(r, "BAD_HANDLE") \/ Refuse(r, "IO_ERROR"))
  <2>1. /\ Used(r.h) /\ handles[r.h].mode = "write" /\ disk' = disk /\ Answer(Status(r, "OK"))
        /\ handles' = [handles EXCEPT ![r.h].data = Put(@, handles[r.h].pos, r.piece),
                                      ![r.h].pos = @ + 1]
    BY <1>2 DEF WriteChunk
  <2>2. Said(r, Status(r, "OK")) /\ Status(r, "OK").status = "OK"
    BY <2>1, SilentFacts DEF Silent
  <2>3. /\ r.h \in HandleIds
        /\ handles[r.h] \in [mode : {"write"}, file : Files, data : Seq(Piece), pos : Nat]
    BY <2>1, HandleFacts DEF Used, Opens
  <2>4. handles' = [handles EXCEPT ![r.h] =
                      [mode |-> "write", file |-> @.file, data |-> Put(@.data, @.pos, r.piece),
                       pos |-> @.pos + 1]]
    BY <2>1, <2>3 DEF CardType
  <2> QED
    BY <2>1, <2>2, <2>4 DEF HasWritten, Effect
<1> QED
  BY <1>1, <1>2

\* The STM32 takes a request and serves it.
LEMMA Served ==
  ASSUME LineType, CardType, StmServe
  PROVE  /\ reqs # <<>> /\ Head(reqs) \in Requests /\ reqs' = Tail(reqs)
         /\ UNCHANGED <<phase, request, tries, stale, cliVars, misread>>
         /\ ran' = Head(reqs) /\ again' = IF Head(reqs) = ran THEN again \cup {ran.n} ELSE again
         /\ \E a : Said(Head(reqs), a) /\ Effect(Head(reqs), a)
<1> DEFINE r == Head(reqs)
<1>1. /\ ran' = r /\ again' = IF r = ran THEN again \cup {ran.n} ELSE again
      /\ UNCHANGED <<cliVars, misread>>
      /\ Serve
  BY DEF StmServe
<1>2. reqs # <<>> /\ reqs' = Tail(reqs) /\ UNCHANGED <<phase, request, tries, stale>>
  BY <1>1 DEF Serve, Take
<1>3. r \in Requests \cup {Garbled}
  BY <1>2, SeqParts DEF LineType
<1>4. r \in Requests
  <2>1. r.cmd # "garbled"
    BY <1>1 DEF Serve, Take
  <2> QED
    BY <1>3, <2>1 DEF Garbled
<1> HIDE DEF r
<1>5. \/ r.cmd = "READ_OPEN" /\ ReadOpen(r)
      \/ r.cmd = "READ_CHUNK" /\ ReadChunk(r)
      \/ r.cmd \in {"READ_CLOSE", "WRITE_CLOSE"} /\ Close(r)
      \/ r.cmd = "WRITE_OPEN" /\ WriteOpen(r)
      \/ r.cmd = "WRITE_CHUNK" /\ WriteChunk(r)
      \/ r.cmd = "WRITE_SYNC" /\ WriteSync(r)
      \/ r.cmd = "DELETE" /\ Delete(r)
  BY <1>1 DEF Serve, Take, r
<1>6. \E a : Said(r, a) /\ Effect(r, a)
  BY <1>4, <1>5, ReadOpenFacts, ReadChunkFacts, CloseFacts, WriteOpenFacts, WriteChunkFacts,
     WriteSyncFacts, DeleteFacts
<1> QED
  BY <1>1, <1>2, <1>4, <1>6 DEF r

LEMMA SyncedFacts ==
  ASSUME CardType, NEW h \in HandleIds, handles[h] # Closed
  PROVE  /\ DOMAIN Synced(h) = DOMAIN disk
         /\ \A f \in DOMAIN disk :
              Synced(h)[f] = IF handles[h].mode = "write" /\ handles[h].file = f
                             THEN handles[h].data ELSE disk[f]
         /\ Synced(h) \in [DOMAIN disk -> Seq(Piece)]
BY HandleFacts DEF Synced, CardType

\* The card keeps what a handle holds, or it does not.
LEMMA KeptOrNot ==
  ASSUME NEW h, SyncHandle(h)
  PROVE  /\ disk' = Synced(h) \/ disk' = disk
         /\ handles[h].mode = "read" => disk' = disk
BY DEF SyncHandle

LEMMA CardServed ==
  ASSUME CardType, NEW r \in Requests, NEW a, Effect(r, a)
  PROVE  CardType'
<1> DEFINE Table == [HandleIds -> {Closed} \cup Opens("read") \cup Opens("write")]
<1>1. disk \in [DOMAIN disk -> Seq(Piece)] /\ handles \in Table
  BY DEF CardType
<1>2. \A d : d \in Seq(Piece) => Len(d) \in Nat
  BY LenProperties
<1>3. \A h \in HandleIds, x \in {Closed} \cup Opens("read") \cup Opens("write") :
        [handles EXCEPT ![h] = x] \in Table
  BY <1>1
<1> SUFFICES disk' \in [DOMAIN disk' -> Seq(Piece)] /\ handles' \in Table
  BY DEF CardType
<1> HIDE DEF Table
<1>4. CASE Refused(a)
  BY <1>1, <1>4 DEF Refused, srvVars
<1>5. CASE OpenedToRead(r, a)
  <2> DEFINE x == [mode |-> "read", file |-> r.file, data |-> disk[r.file], pos |-> 0]
  <2>1. r.file \in Files /\ disk[r.file] \in Seq(Piece) /\ Len(disk[r.file]) \in Nat
    BY <1>1, <1>2, <1>5, RequestFacts DEF OpenedToRead
  <2>2. x \in Opens("read")
    BY <2>1 DEF Opens
  <2> HIDE DEF x
  <2> QED
    BY <1>1, <1>3, <1>5, <2>2 DEF OpenedToRead, x
<1>6. CASE HasRead(r, a)
  <2>1. PICK p \in 0..Len(handles[r.h].data) : handles' = [handles EXCEPT ![r.h].pos = p]
    BY <1>6 DEF HasRead
  <2>2. r.h \in HandleIds /\ handles[r.h] # Closed /\ disk' = disk
    BY <1>6 DEF HasRead, Used
  <2> DEFINE x == [handles[r.h] EXCEPT !.pos = p]
  <2>3. PICK m \in {"read", "write"} : handles[r.h] \in Opens(m)
    BY <2>2, HandleFacts
  <2>4. Len(handles[r.h].data) \in Nat
    BY <2>2, HandleFacts
  <2>5. x \in Opens(m)
    BY <2>1, <2>3, <2>4 DEF Opens
  <2>6. handles' = [handles EXCEPT ![r.h] = x]
    BY <2>1
  <2> HIDE DEF x
  <2> QED
    BY <1>1, <1>3, <2>2, <2>5, <2>6
<1>7. CASE HasClosed(r, a)
  <2>1. /\ r.h \in HandleIds /\ handles[r.h] # Closed
        /\ handles' = [handles EXCEPT ![r.h] = Closed] /\ SyncHandle(r.h)
    BY <1>7 DEF HasClosed, CloseHandle, Used
  <2>2. DOMAIN disk' = DOMAIN disk /\ disk' \in [DOMAIN disk -> Seq(Piece)]
    BY <1>1, <2>1, SyncedFacts, KeptOrNot
  <2> QED
    BY <1>1, <1>3, <2>1, <2>2
<1>8. CASE OpenedToWrite(r, a)
  <2> DEFINE x == [mode |-> "write", file |-> r.file, data |-> <<>>, pos |-> 0]
  <2>1. r.file \in Files /\ <<>> \in Seq(Piece)
    BY <1>8, RequestFacts DEF OpenedToWrite
  <2>2. x \in Opens("write")
    BY <2>1, EmptySeq DEF Opens
  <2> HIDE DEF x
  <2>3. handles' \in Table
    BY <1>3, <1>8, <2>2 DEF OpenedToWrite, x
  <2>4. disk' \in [DOMAIN disk' -> Seq(Piece)]
    BY <1>1, <1>8, <2>1 DEF OpenedToWrite
  <2> QED
    BY <2>3, <2>4
<1>9. CASE HasWritten(r, a)
  <2> DEFINE f == handles[r.h]
             x == [mode |-> "write", file |-> f.file, data |-> Put(f.data, f.pos, r.piece),
                   pos |-> f.pos + 1]
  <2>1. /\ r.h \in HandleIds /\ f.data \in Seq(Piece) /\ f.pos \in 0..Len(f.data) /\ f.file \in Files
        /\ Len(f.data) \in Nat /\ r.piece \in Piece
    BY <1>9, HandleFacts, RequestFacts DEF HasWritten, Used
  <2>2. Put(f.data, f.pos, r.piece) \in Seq(Piece)
        /\ f.pos + 1 <= Len(Put(f.data, f.pos, r.piece))
    BY <2>1, PutFacts
  <2>3. x \in Opens("write")
    BY <2>1, <2>2 DEF Opens
  <2>4. handles' = [handles EXCEPT ![r.h] = x] /\ disk' = disk
    BY <1>9 DEF HasWritten
  <2> HIDE DEF x
  <2> QED
    BY <1>1, <1>3, <2>1, <2>3, <2>4
<1>10. CASE HasSynced(r, a)
  <2>1. r.h \in HandleIds /\ handles[r.h] # Closed /\ handles' = handles /\ SyncHandle(r.h)
    BY <1>10 DEF HasSynced, Used
  <2> QED
    BY <1>1, <2>1, SyncedFacts, KeptOrNot
<1>11. CASE HasDeleted(r, a)
  BY <1>1, <1>11 DEF HasDeleted
<1> QED
  BY <1>4, <1>5, <1>6, <1>7, <1>8, <1>9, <1>10, <1>11 DEF Effect

-----------------------------------------------------------------------------
(* What the ESP32 and the line do.                                         *)

\* Answers are thrown away or read from the front.
Dropped == \E n \in 0..Len(resps) : resps' = Drop(resps, n)

LEMMA DropFacts ==
  ASSUME LineType
  PROVE  /\ resps' = resps => Dropped
         /\ resps # <<>> /\ resps' = Tail(resps) => Dropped
         /\ Dropped => /\ resps' \in Seq(Answers \cup {FrameError})
                       /\ \A a \in Elems(resps') : a \in Elems(resps)
<1>1. Len(resps) \in Nat
  BY LenProperties DEF LineType
<1>2. ASSUME resps' = resps PROVE Dropped
  <2>1. SubSeq(resps, 1, Len(resps)) = resps
    BY SubSeqFull DEF LineType
  <2>2. 0 \in 0..Len(resps) /\ resps = Drop(resps, 0)
    BY <1>1, <2>1 DEF Drop
  <2> QED
    BY <1>2, <2>2 DEF Dropped
<1>3. ASSUME resps # <<>>, resps' = Tail(resps) PROVE Dropped
  <2>1. Tail(resps) = SubSeq(resps, 2, Len(resps))
    BY <1>3, TailIsSubSeq DEF LineType
  <2>2. Len(resps) > 0
    BY <1>3, EmptySeq DEF LineType
  <2>3. 1 \in 0..Len(resps) /\ Tail(resps) = Drop(resps, 1)
    BY <1>1, <2>1, <2>2 DEF Drop
  <2> QED
    BY <1>3, <2>3 DEF Dropped
<1>4. ASSUME Dropped
      PROVE  /\ resps' \in Seq(Answers \cup {FrameError})
             /\ \A a \in Elems(resps') : a \in Elems(resps)
  <2>1. PICK n \in 0..Len(resps) : resps' = Drop(resps, n)
    BY <1>4 DEF Dropped
  <2> QED
    BY <2>1, SeqParts, ElemsParts DEF LineType
<1> QED
  BY <1>2, <1>3, <1>4

LEMMA LinkMoves ==
  ASSUME LineType, LinkStep
  PROVE  /\ Dropped /\ request' = request /\ request \in Requests
         /\ phase # "idle" /\ phase' # "idle"
         /\ UNCHANGED <<srvVars, cliVars, ghostVars>>
         /\ reqs' = reqs \/ reqs' = Append(reqs, request) \/ reqs' = Append(reqs, Garbled)
<1>1. UNCHANGED <<srvVars, cliVars, ghostVars>>
  BY DEF LinkStep
<1>2. ASSUME phase # "idle" PROVE request \in Requests
  BY <1>2 DEF LineType
<1>3. CASE TransmitOk \/ TransmitBad
  BY <1>1, <1>2, <1>3 DEF TransmitOk, TransmitBad, Attempt, Dropped
<1>4. CASE ReadTimeout \/ ReadFrameError \/ ReadStale
  <2>1. /\ phase = "wait" /\ phase' # "idle" /\ request' = request /\ reqs' = reqs
        /\ resps' = resps \/ (resps # <<>> /\ resps' = Tail(resps))
    BY <1>4 DEF ReadTimeout, ReadFrameError, ReadStale, AttemptOver
  <2> QED
    BY <1>1, <1>2, <2>1, DropFacts
<1> QED
  BY <1>3, <1>4 DEF LinkStep

LEMMA LinkElems ==
  ASSUME LineType, LinkStep
  PROVE  /\ \A x \in Elems(reqs') : x \in Elems(reqs) \/ x = request \/ x = Garbled
         /\ \A a \in Elems(resps') : a \in Elems(resps)
<1>1. /\ Dropped /\ request \in Requests
      /\ reqs' = reqs \/ reqs' = Append(reqs, request) \/ reqs' = Append(reqs, Garbled)
  BY LinkMoves
<1> DEFINE S == Requests \cup {Garbled}
<1>2. reqs \in Seq(S) /\ request \in S /\ Garbled \in S
  BY <1>1 DEF LineType
<1> HIDE DEF S
<1>3. /\ \A x \in Elems(Append(reqs, request)) : x \in Elems(reqs) \/ x = request
      /\ \A x \in Elems(Append(reqs, Garbled)) : x \in Elems(reqs) \/ x = Garbled
  BY <1>2, ElemsParts
<1> QED
  BY <1>1, <1>3, DropFacts

LEMMA SaidElems ==
  ASSUME LineType, NEW r, NEW a, Said(r, a)
  PROVE  \A b \in Elems(resps') : b \in Elems(resps) \/ b = a
<1>1. /\ a \in Answers \cup {FrameError} /\ resps \in Seq(Answers \cup {FrameError})
      /\ resps' = resps \/ resps' = Append(resps, a)
  BY DEF Said, LineType
<1>2. \A b \in Elems(Append(resps, a)) : b \in Elems(resps) \/ b = a
  BY <1>1, ElemsParts
<1> QED
  BY <1>1, <1>2

\* A call comes back with an answer of the command asked for, or without one.
GotAnswer(a) ==
  /\ a \in Answers /\ a = Head(resps) /\ a \in Elems(resps) /\ a.cmd = request.cmd
  /\ resps # <<>> /\ resps' = Tail(resps) /\ phase = "wait"
  /\ misread' = IF a.of # request THEN misread \cup {jobs} ELSE misread
GotNone == resps' = resps /\ misread' = misread

LEMMA CameBack ==
  ASSUME LineType, Returned, ReadAnswer \/ ReturnFailure
  PROVE  /\ reqs' = reqs /\ phase' = "idle" /\ request' = NoRequest /\ request \in Requests
         /\ phase # "idle" /\ Dropped
         /\ UNCHANGED <<srvVars, jobs, again, ran>>
         /\ ReadAnswer => GotAnswer(Head(resps))
         /\ ~ReadAnswer => GotNone
<1>1. UNCHANGED <<srvVars, jobs, again, ran>>
  BY DEF Returned
<1>2. /\ reqs' = reqs /\ phase' = "idle" /\ request' = NoRequest /\ phase # "idle"
      /\ resps' = resps \/ (resps # <<>> /\ resps' = Tail(resps))
  BY DEF ReadAnswer, ReturnFailure
<1>3. request \in Requests
  BY <1>2 DEF LineType
<1>4. ASSUME ReadAnswer PROVE GotAnswer(Head(resps))
  <2> DEFINE a == Head(resps)
  <2>1. /\ phase = "wait" /\ resps # <<>> /\ a.cmd = request.cmd /\ resps' = Tail(resps)
        /\ phase' = "idle"
    BY <1>4 DEF ReadAnswer
  <2>2. a \in Answers \cup {FrameError} /\ a \in Elems(resps)
    BY <2>1, SeqParts, ElemsParts DEF LineType
  <2>3. a # FrameError
    BY <1>3, <2>1, RequestFacts DEF FrameError
  <2>4. misread' = IF a.of # request THEN misread \cup {jobs} ELSE misread
    BY <2>1 DEF Returned, Misread
  <2> QED
    BY <2>1, <2>2, <2>3, <2>4 DEF GotAnswer
<1>5. ASSUME ~ReadAnswer PROVE GotNone
  <2>1. phase = "failed" /\ resps' = resps
    BY <1>5 DEF ReturnFailure
  <2> QED
    BY <2>1 DEF GotNone, Returned, Misread
<1> QED
  BY <1>1, <1>2, <1>3, <1>4, <1>5, DropFacts

-----------------------------------------------------------------------------
(* What the jobs do.                                                       *)

LEMMA WantsFacts ==
  ASSUME JobType, NEW r, Wants(r)
  PROVE  /\ r \in Requests /\ r.n = jobs /\ jobs \in Nat /\ Rank(r) = Cap
         /\ r.cmd \in OwnCommands(Kind) /\ job # NoJob
<1>1. job # NoJob /\ jobs \in Numbers /\ Kind = job.kind
  BY JobFacts DEF Wants, JobType, Numbers, Kind
<1>2. CASE job.kind = "upload"
  <2>1. /\ job.file \in Files /\ job.h \in Nat /\ job.done \in Nat /\ job.done <= Pieces
        /\ job.step \in {"open", "data"}
    BY <1>2, JobFacts DEF Files
  <2>2. CASE job.step = "open"
    <3>1. r = [cmd |-> "WRITE_OPEN", n |-> jobs, file |-> job.file]
      BY <1>2, <2>2 DEF Wants
    <3>2. r \in Requests
      BY <1>1, <2>1, <3>1 DEF Requests
    <3> QED
      BY <1>1, <1>2, <2>2, <3>1, <3>2 DEF Rank, Cap, OwnCommands, Numbers
  <2>3. CASE job.step = "data" /\ job.done # Pieces
    <3>1. r = [cmd |-> "WRITE_CHUNK", n |-> jobs, h |-> job.h, piece |-> <<jobs, job.done + 1>>]
      BY <1>2, <2>3 DEF Wants
    <3>2. r \in Requests
      BY <1>1, <2>1, <3>1 DEF Requests, Piece, Numbers
    <3> QED
      BY <1>1, <1>2, <2>3, <3>1, <3>2 DEF Rank, Cap, OwnCommands, Numbers
  <2>4. CASE job.step = "data" /\ job.done = Pieces
    <3>1. r = [cmd |-> "WRITE_CLOSE", n |-> jobs, h |-> job.h]
      BY <1>2, <2>4 DEF Wants
    <3>2. r \in Requests
      BY <1>1, <2>1, <3>1 DEF Requests
    <3> QED
      BY <1>1, <1>2, <2>4, <3>1, <3>2 DEF Rank, Cap, OwnCommands, Numbers
  <2> QED
    BY <2>1, <2>2, <2>3, <2>4
<1>3. CASE job.kind = "download"
  <2>1. /\ job.file \in Files /\ job.h \in Nat /\ Len(job.got) \in Nat
        /\ job.step \in {"open", "data", "close"}
    BY <1>3, JobFacts, LenProperties DEF Files
  <2>2. CASE job.step = "open"
    <3>1. r = [cmd |-> "READ_OPEN", n |-> jobs, file |-> job.file]
      BY <1>3, <2>2 DEF Wants
    <3>2. r \in Requests
      BY <1>1, <2>1, <3>1 DEF Requests
    <3> QED
      BY <1>1, <1>3, <2>2, <3>1, <3>2 DEF Rank, Cap, OwnCommands, Numbers, Reading
  <2>3. CASE job.step = "data"
    <3>1. r = [cmd |-> "READ_CHUNK", n |-> jobs, h |-> job.h, offset |-> Len(job.got)]
      BY <1>3, <2>3 DEF Wants
    <3>2. r \in Requests
      BY <1>1, <2>1, <3>1 DEF Requests
    <3> QED
      BY <1>1, <1>3, <2>3, <3>1, <3>2 DEF Rank, Cap, OwnCommands, Numbers, Reading
  <2>4. CASE job.step = "close"
    <3>1. r = [cmd |-> "READ_CLOSE", n |-> jobs, h |-> job.h]
      BY <1>3, <2>4 DEF Wants
    <3>2. r \in Requests
      BY <1>1, <2>1, <3>1 DEF Requests
    <3> QED
      BY <1>1, <1>3, <2>4, <3>1, <3>2 DEF Rank, Cap, OwnCommands, Numbers, Reading
  <2> QED
    BY <2>1, <2>2, <2>3, <2>4
<1>4. CASE job.kind = "delete"
  <2>1. job.file \in Files /\ r = [cmd |-> "DELETE", n |-> jobs, file |-> job.file]
    BY <1>4, JobFacts DEF Files, Wants
  <2>2. r \in Requests
    BY <1>1, <2>1 DEF Requests
  <2> QED
    BY <1>1, <1>4, <2>1, <2>2 DEF Rank, Cap, OwnCommands, Numbers
<1>5. CASE job.kind = "log"
  <2>1. /\ LogFile \in Files /\ log.h \in Nat /\ log.buf \in Nat /\ 0 # jobs
        /\ job.step \in {"open", "data", "sync"}
    BY <1>1, <1>5, JobFacts DEF Files, Numbers
  <2>2. CASE job.step = "open"
    <3>1. r = [cmd |-> "WRITE_OPEN", n |-> jobs, file |-> LogFile]
      BY <1>5, <2>2 DEF Wants
    <3>2. r \in Requests
      BY <1>1, <2>1, <3>1 DEF Requests
    <3> QED
      BY <1>1, <1>5, <2>2, <3>1, <3>2 DEF Rank, Cap, OwnCommands, Numbers
  <2>3. CASE job.step = "data"
    <3>1. r = [cmd |-> "WRITE_CHUNK", n |-> jobs, h |-> log.h, piece |-> <<0, log.buf>>]
      BY <1>5, <2>3 DEF Wants
    <3>2. r \in Requests
      BY <1>1, <2>1, <3>1 DEF Requests, Piece
    <3> QED
      BY <1>1, <1>5, <2>1, <2>3, <3>1, <3>2 DEF Rank, Cap, OwnCommands, Numbers
  <2>4. CASE job.step = "sync"
    <3>1. r = [cmd |-> "WRITE_SYNC", n |-> jobs, h |-> log.h]
      BY <1>5, <2>4 DEF Wants
    <3>2. r \in Requests
      BY <1>1, <2>1, <3>1 DEF Requests
    <3> QED
      BY <1>1, <1>5, <2>4, <3>1, <3>2 DEF Rank, Cap, OwnCommands, Numbers
  <2> QED
    BY <2>1, <2>2, <2>3, <2>4
<1> QED
  BY <1>1, <1>2, <1>3, <1>4, <1>5, JobFacts

Asks == CallUpload \/ CallDownload \/ CallDelete \/ CallFlush
LEMMA AskFacts ==
  ASSUME Asks
  PROVE  phase = "idle" /\ \E r : Wants(r) /\ Call(r)
<1>1. phase = "idle"
  BY DEF Asks, CallUpload, CallDownload, CallDelete, CallFlush, At
<1>2. CASE CallUpload
  BY <1>2 DEF CallUpload, At, AllSent, Wants
<1>3. CASE CallDownload
  BY <1>3 DEF CallDownload, At, Offset, Wants
<1>4. CASE CallDelete
  BY <1>4 DEF CallDelete, At, Wants
<1>5. CASE CallFlush
  BY <1>5 DEF CallFlush, At, Wants
<1> QED
  BY <1>1, <1>2, <1>3, <1>4, <1>5 DEF Asks

Begins == BeginUpload \/ BeginDownload \/ BeginDelete \/ BeginFlush
LEMMA BeginFacts ==
  ASSUME JobType, Begins
  PROVE  /\ job = NoJob /\ jobs' = jobs + 1 /\ outcome' = NoJob /\ job' \in Jobs /\ job' # NoJob
         /\ UNCHANGED <<linkVars, srvVars, log, ghostVars>>
         /\ job'.kind \in {"upload", "download"} => job'.step = "open"
         /\ job'.kind = "log" => (job'.step = "open" <=> ~log.open)
         /\ job'.kind = "download" => job'.got = <<>>
         /\ job'.kind = "upload" => job'.done = 0
         /\ JobType' /\ jobs \in Nat /\ Cap' = 0
<1>1. jobs \in Nat /\ 0 <= Pieces /\ <<>> \in Seq(Piece)
  BY ClientBounds, EmptySeq DEF JobType
<1>2. \E new : Begin(new) /\ /\ new \in Jobs /\ new # NoJob
                             /\ new.kind \in {"upload", "download"} => new.step = "open"
                             /\ new.kind = "log" => (new.step = "open" <=> ~log.open)
                             /\ new.kind = "download" => new.got = <<>>
                             /\ new.kind = "upload" => new.done = 0
  <2>1. CASE BeginUpload
    <3>1. PICK f \in WebFiles :
            Begin([kind |-> "upload", file |-> f, step |-> "open", h |-> 0, done |-> 0])
      BY <2>1 DEF BeginUpload
    <3> DEFINE u == [kind |-> "upload", file |-> f, step |-> "open", h |-> 0, done |-> 0]
    <3>2. u \in Jobs /\ u # NoJob /\ u.kind = "upload" /\ u.step = "open" /\ u.done = 0
      BY <1>1 DEF Jobs, Uploads, NoJob
    <3> QED
      BY <3>1, <3>2
  <2>2. CASE BeginDownload
    <3>1. PICK f \in WebFiles :
            Begin([kind |-> "download", file |-> f, step |-> "open", h |-> 0, size |-> 0,
                   eof |-> FALSE, got |-> <<>>])
      BY <2>2 DEF BeginDownload
    <3> DEFINE d == [kind |-> "download", file |-> f, step |-> "open", h |-> 0, size |-> 0,
                     eof |-> FALSE, got |-> <<>>]
    <3>2. d \in Jobs /\ d # NoJob /\ d.kind = "download" /\ d.step = "open" /\ d.got = <<>>
      BY <1>1 DEF Jobs, Downloads, NoJob
    <3> QED
      BY <3>1, <3>2
  <2>3. CASE BeginDelete
    BY <1>1, <2>3 DEF BeginDelete, Jobs, Deletes, NoJob
  <2>4. CASE BeginFlush
    <3> DEFINE l == [kind |-> "log", step |-> IF log.open THEN "data" ELSE "open"]
    <3>1. Begin(l)
      BY <2>4 DEF BeginFlush
    <3>2. l \in Jobs /\ l # NoJob /\ l.kind = "log" /\ (l.step = "open" <=> ~log.open)
      BY DEF Jobs, Flushes, NoJob
    <3> QED
      BY <3>1, <3>2
  <2> QED
    BY <2>1, <2>2, <2>3, <2>4 DEF Begins
<1>3. PICK new : Begin(new) /\ /\ new \in Jobs /\ new # NoJob
                               /\ new.kind \in {"upload", "download"} => new.step = "open"
                               /\ new.kind = "log" => (new.step = "open" <=> ~log.open)
                               /\ new.kind = "download" => new.got = <<>>
                               /\ new.kind = "upload" => new.done = 0
  BY <1>2
<1>4. /\ job = NoJob /\ jobs' = jobs + 1 /\ outcome' = NoJob /\ job' = new
      /\ UNCHANGED <<linkVars, srvVars, log, ghostVars>>
  BY <1>3 DEF Begin
<1>5. JobType'
  BY <1>1, <1>3, <1>4 DEF JobType
<1>6. Cap' = 0
  BY <1>3, <1>4 DEF Cap
<1> QED
  BY <1>1, <1>3, <1>4, <1>5, <1>6

\* The calls that come back, and what the job becomes.
Returns ==
  \/ UploadOpened \/ UploadWrote \/ UploadClosed \/ UploadFails
  \/ DownloadOpened \/ DownloadRead \/ DownloadReadFails \/ DownloadEnds
  \/ DeleteEnds
  \/ FlushOpened \/ FlushWrote \/ FlushWriteFails \/ FlushEnds

LEMMA ReturnsFacts ==
  ASSUME Returns
  PROVE  Returned /\ (ReadAnswer \/ ReturnFailure) /\ job # NoJob
<1>1. \A cmd : Succeeds(cmd) \/ Fails(cmd) => ReadAnswer \/ ReturnFailure
  BY DEF Succeeds, Fails
<1>2. job.kind \in {"upload", "download", "delete", "log"} => job # NoJob
  BY DEF NoJob
<1>3. CASE UploadOpened \/ UploadWrote \/ UploadClosed \/ UploadFails
  BY <1>1, <1>2, <1>3 DEF UploadOpened, UploadWrote, UploadClosed, UploadFails
<1>4. CASE DownloadOpened \/ DownloadRead \/ DownloadReadFails \/ DownloadEnds
  BY <1>1, <1>2, <1>4 DEF DownloadOpened, DownloadRead, DownloadReadFails, DownloadEnds
<1>5. CASE DeleteEnds
  BY <1>1, <1>2, <1>5 DEF DeleteEnds
<1>6. CASE FlushOpened \/ FlushWrote \/ FlushWriteFails \/ FlushEnds
  BY <1>1, <1>2, <1>6 DEF FlushOpened, FlushWrote, FlushWriteFails, FlushEnds
<1> QED
  BY <1>3, <1>4, <1>5, <1>6 DEF Returns

\* A job goes on, or ends.
Goes ==
  /\ job' # NoJob /\ job' \in Jobs /\ outcome' = outcome
  /\ job'.kind = job.kind /\ Cap <= Cap' /\ Cap' \in Nat
Ends == job' = NoJob /\ outcome' \in Outcomes /\ outcome'.n = jobs /\ outcome'.kind = job.kind
LogGoes == log' \in [open : BOOLEAN, h : Nat, buf : Numbers]

LEMMA UploadTurns ==
  ASSUME LineType, JobType, OrderInv, job.kind = "upload",
         UploadOpened \/ UploadWrote \/ UploadClosed \/ UploadFails \/ UploadAborted
  PROVE  (Goes \/ Ends) /\ log' = log
<1>0. log' = log
  BY DEF UploadOpened, UploadWrote, UploadClosed, UploadFails, UploadAborted
<1>1. /\ job \in Uploads /\ job.file \in WebFiles /\ job.h \in Nat /\ job.done \in Nat
      /\ job.done <= Pieces /\ job # NoJob /\ job.step \in {"open", "data"}
  BY JobFacts DEF NoJob
<1>2. Cap \in Nat
  BY <1>1 DEF Cap
<1>3. CASE UploadOpened
  <2> DEFINE a == Head(resps)
  <2>1. /\ ReadAnswer /\ Returned /\ a.status = "OK" /\ request.cmd = "WRITE_OPEN"
        /\ job' = [job EXCEPT !.step = "data", !.h = a.h] /\ outcome' = outcome
    BY <1>3 DEF UploadOpened, Succeeds, Continue
  <2>2. a \in Answers /\ a.cmd = "WRITE_OPEN"
    BY <2>1, CameBack DEF GotAnswer
  <2>3. a.h \in Nat
    BY <2>1, <2>2, AnswerFacts, ServerBounds DEF HandleIds
  <2> HIDE DEF a
  <2>4. job' \in Uploads /\ job'.kind = "upload" /\ job'.step = "data" /\ job'.done = job.done
    BY <1>1, <2>1, <2>3 DEF Uploads
  <2>5. request = NoRequest \/ Wants(request)
    BY DEF OrderInv
  <2>6. job.step = "open"
    BY <1>1, <2>1, <2>5 DEF NoRequest, Wants
  <2>7. Cap = 0 /\ Cap' \in Nat
    BY <1>1, <2>4, <2>6 DEF Cap
  <2>8. job' # NoJob /\ job' \in Jobs
    BY <2>4 DEF NoJob, Jobs
  <2> QED
    BY <1>0, <1>1, <2>1, <2>4, <2>7, <2>8 DEF Goes
<1>4. CASE UploadWrote
  <2>1. /\ job' = [job EXCEPT !.done = @ + 1] /\ outcome' = outcome /\ request.cmd = "WRITE_CHUNK"
    BY <1>4 DEF UploadWrote, Succeeds, Continue
  <2>2. request = NoRequest \/ Wants(request)
    BY DEF OrderInv
  <2>3. job.step = "data" /\ job.done # Pieces
    BY <1>1, <2>1, <2>2 DEF NoRequest, Wants
  <2>4. job.done + 1 <= Pieces /\ job.done + 1 \in Nat
    BY <1>1, <2>3, ClientBounds
  <2>5. job' \in Uploads /\ job'.kind = "upload" /\ job'.step = "data" /\ job'.done = job.done + 1
    BY <1>1, <2>1, <2>3, <2>4 DEF Uploads
  <2>6. Cap <= Cap' /\ Cap' \in Nat
    BY <1>1, <2>3, <2>5 DEF Cap
  <2>7. job' # NoJob /\ job' \in Jobs
    BY <2>5 DEF NoJob, Jobs
  <2> QED
    BY <1>0, <1>1, <2>1, <2>5, <2>6, <2>7 DEF Goes
<1>5. CASE UploadClosed \/ UploadFails \/ UploadAborted
  <2>1. PICK ok \in BOOLEAN : job' = NoJob /\ outcome' = Of("upload", ok)
    BY <1>5 DEF UploadClosed, UploadFails, UploadAborted, End
  <2>2. jobs \in Nat
    BY DEF JobType
  <2>3. /\ Of("upload", ok) \in Outcomes /\ Of("upload", ok).n = jobs
        /\ Of("upload", ok).kind = "upload"
    BY <1>1, <2>2 DEF Of, Outcomes
  <2> QED
    BY <1>0, <2>1, <2>3 DEF Ends
<1> QED
  BY <1>3, <1>4, <1>5

LEMMA DownloadTurns ==
  ASSUME LineType, JobType, OrderInv, job.kind = "download",
         DownloadOpened \/ DownloadRead \/ DownloadReadFails \/ DownloadEnds
  PROVE  (Goes \/ Ends) /\ log' = log
<1>0. log' = log
  BY DEF DownloadOpened, DownloadRead, DownloadReadFails, DownloadEnds
<1>1. /\ job \in Downloads /\ job.file \in WebFiles /\ job.h \in Nat /\ job.size \in Nat
      /\ job.got \in Seq(Piece) /\ job # NoJob /\ job.eof \in BOOLEAN
  BY JobFacts DEF NoJob
<1>2. \A j : j \in Downloads => j # NoJob /\ j \in Jobs /\ j.kind = "download"
  BY DEF Jobs, Downloads, NoJob
<1>3. ASSUME job' \in Downloads, outcome' = outcome PROVE Goes
  <2>1. job'.kind = "download" /\ job' # NoJob /\ job' \in Jobs
    BY <1>2, <1>3
  <2>2. Cap = 0 /\ Cap' = 0
    BY <2>1 DEF Cap
  <2> QED
    BY <1>3, <2>1, <2>2 DEF Goes
<1>4. CASE DownloadOpened
  <2> DEFINE a == Head(resps)
  <2>1. /\ ReadAnswer /\ Returned /\ a.status = "OK" /\ request.cmd = "READ_OPEN" /\ outcome' = outcome
        /\ job' = [job EXCEPT !.h = a.h, !.size = a.size,
                              !.step = IF a.size > 0 THEN "data" ELSE "close"]
    BY <1>4 DEF DownloadOpened, Succeeds, Continue
  <2>2. a \in Answers /\ a.cmd = "READ_OPEN"
    BY <2>1, CameBack DEF GotAnswer
  <2>3. a.h \in Nat /\ a.size \in Nat
    BY <2>1, <2>2, AnswerFacts, ServerBounds DEF HandleIds
  <2> HIDE DEF a
  <2>4. job' \in Downloads
    BY <1>1, <2>1, <2>3 DEF Downloads
  <2> QED
    BY <1>0, <1>3, <2>1, <2>4
<1>5. CASE DownloadRead
  <2> DEFINE a    == Head(resps)
             next == [job EXCEPT !.got = @ \o a.data, !.eof = a.eof]
  <2>1. /\ ReadAnswer /\ Returned /\ a.status = "OK" /\ request.cmd = "READ_CHUNK" /\ outcome' = outcome
        /\ job' = [next EXCEPT !.step = IF More(next, a.data) THEN "data" ELSE "close"]
    BY <1>5 DEF DownloadRead, Succeeds, Continue
  <2>2. a \in Answers /\ a.cmd = "READ_CHUNK"
    BY <2>1, CameBack DEF GotAnswer
  <2>3. a.data \in Seq(Piece) /\ a.eof \in BOOLEAN
    BY <2>1, <2>2, AnswerFacts
  <2> HIDE DEF a
  <2>4. job.got \o a.data \in Seq(Piece)
    BY <1>1, <2>3, ConcatProperties
  <2>5. next \in Downloads
    BY <1>1, <2>3, <2>4 DEF Downloads
  <2> HIDE DEF next
  <2>6. job' \in Downloads
    BY <2>1, <2>5 DEF Downloads
  <2> QED
    BY <1>0, <1>3, <2>1, <2>6
<1>6. CASE DownloadReadFails
  <2>1. job' = [job EXCEPT !.step = "close"] /\ outcome' = outcome
    BY <1>6 DEF DownloadReadFails, Continue
  <2>2. job' \in Downloads
    BY <1>1, <2>1 DEF Downloads
  <2> QED
    BY <1>0, <1>3, <2>1, <2>2
<1>7. CASE DownloadEnds
  <2> DEFINE ok == job.step = "close" /\ Len(job.got) = job.size
             o  == [kind |-> "download", n |-> jobs, file |-> job.file, got |-> job.got, ok |-> ok]
  <2>1. job' = NoJob /\ outcome' = o
    BY <1>7 DEF DownloadEnds, End
  <2>2. jobs \in Nat /\ ok \in BOOLEAN
    BY DEF JobType
  <2> HIDE DEF ok
  <2>3. o \in Outcomes /\ o.n = jobs /\ o.kind = "download"
    BY <1>1, <2>2 DEF Outcomes
  <2> QED
    BY <1>0, <2>1, <2>3 DEF Ends
<1> QED
  BY <1>4, <1>5, <1>6, <1>7

LEMMA DeleteTurns ==
  ASSUME JobType, job.kind = "delete", DeleteEnds
  PROVE  Ends /\ log' = log
<1>1. PICK ok \in BOOLEAN : job' = NoJob /\ outcome' = Of("delete", ok) /\ log' = log
  BY DEF DeleteEnds, End
<1>2. jobs \in Nat /\ job.file \in WebFiles
  BY JobFacts DEF JobType
<1>3. Of("delete", ok) \in Outcomes /\ Of("delete", ok).n = jobs /\ Of("delete", ok).kind = "delete"
  BY <1>2 DEF Of, Outcomes
<1> QED
  BY <1>1, <1>3 DEF Ends

LEMMA FlushTurns ==
  ASSUME LineType, JobType, OrderInv, job.kind = "log",
         FlushOpened \/ FlushWrote \/ FlushWriteFails \/ FlushEnds
  PROVE  (Goes \/ Ends) /\ LogGoes
<1>1. job \in Flushes /\ job # NoJob /\ jobs \in Nat /\ log \in [open : BOOLEAN, h : Nat, buf : Numbers]
  BY JobFacts DEF NoJob, JobType
<1>2. ASSUME NEW step \in {"open", "data", "sync"}, Continue([job EXCEPT !.step = step]) PROVE Goes
  <2>1. job' = [job EXCEPT !.step = step] /\ outcome' = outcome
    BY <1>2 DEF Continue
  <2>2. job' \in Flushes /\ job'.kind = "log"
    BY <1>1, <2>1 DEF Flushes
  <2>3. job' # NoJob /\ job' \in Jobs
    BY <2>2 DEF NoJob, Jobs
  <2>4. Cap = 0 /\ Cap' = 0
    BY <2>2 DEF Cap
  <2> QED
    BY <2>1, <2>2, <2>3, <2>4 DEF Goes
<1>3. ASSUME NEW ok \in BOOLEAN, End([kind |-> "log", n |-> jobs, ok |-> ok]) PROVE Ends
  <2>1. /\ [kind |-> "log", n |-> jobs, ok |-> ok] \in Outcomes
        /\ [kind |-> "log", n |-> jobs, ok |-> ok].n = jobs
        /\ [kind |-> "log", n |-> jobs, ok |-> ok].kind = "log"
    BY <1>1, <1>3 DEF Outcomes
  <2> QED
    BY <1>3, <2>1 DEF End, Ends
<1>4. CASE FlushOpened
  <2> DEFINE a == Head(resps)
  <2>1. /\ ReadAnswer /\ Returned /\ a.status = "OK" /\ request.cmd = "WRITE_OPEN"
        /\ Continue([job EXCEPT !.step = "data"]) /\ log' = [log EXCEPT !.open = TRUE, !.h = a.h]
    BY <1>4 DEF FlushOpened, Succeeds
  <2>2. a \in Answers /\ a.cmd = "WRITE_OPEN"
    BY <2>1, CameBack DEF GotAnswer
  <2>3. a.h \in Nat
    BY <2>1, <2>2, AnswerFacts, ServerBounds DEF HandleIds
  <2> HIDE DEF a
  <2> QED
    BY <1>1, <1>2, <2>1, <2>3 DEF LogGoes
<1>5. CASE FlushWrote
  <2>1. Continue([job EXCEPT !.step = "sync"]) /\ log' = [log EXCEPT !.buf = log.buf + 1]
    BY <1>5 DEF FlushWrote, Buffer
  <2> QED
    BY <1>1, <1>2, <2>1 DEF LogGoes, Numbers
<1>6. CASE FlushWriteFails
  <2>1. End([kind |-> "log", n |-> jobs, ok |-> FALSE]) /\ log' = [log EXCEPT !.buf = log.buf]
    BY <1>6 DEF FlushWriteFails, Buffer
  <2> QED
    BY <1>1, <1>3, <2>1 DEF LogGoes
<1>7. CASE FlushEnds
  <2> DEFINE ok == job.step = "sync"
  <2>1. End([kind |-> "log", n |-> jobs, ok |-> ok]) /\ log' = log /\ ok \in BOOLEAN
    BY <1>7 DEF FlushEnds
  <2> HIDE DEF ok
  <2> QED
    BY <1>1, <1>3, <2>1 DEF LogGoes
<1> QED
  BY <1>4, <1>5, <1>6, <1>7

\* When a call comes back, or the browser gives up.
LEMMA Turns ==
  ASSUME LineType, JobType, OrderInv, jobs' = jobs, Returns \/ UploadAborted
  PROVE  JobType' /\ job # NoJob /\ Kind' = Kind /\ (Goes \/ Ends)
<1>1. job # NoJob /\ jobs \in Nat /\ jobs > 0 /\ outcome = NoJob
  <2>1. job # NoJob
    <3>1. UploadAborted => job.kind = "upload"
      BY DEF UploadAborted, At
    <3>2. job.kind = "upload" => job # NoJob
      BY DEF NoJob
    <3> QED
      BY <3>1, <3>2, ReturnsFacts
  <2> QED
    BY <2>1 DEF JobType
<1>2. (Goes \/ Ends) /\ LogGoes
  <2>1. log \in [open : BOOLEAN, h : Nat, buf : Numbers]
    BY DEF JobType
  <2>2. CASE UploadOpened \/ UploadWrote \/ UploadClosed \/ UploadFails \/ UploadAborted
    <3>1. job.kind = "upload"
      BY <2>2 DEF UploadOpened, UploadWrote, UploadClosed, UploadFails, UploadAborted, At
    <3> QED
      BY <2>1, <2>2, <3>1, UploadTurns DEF LogGoes
  <2>3. CASE DownloadOpened \/ DownloadRead \/ DownloadReadFails \/ DownloadEnds
    <3>1. job.kind = "download"
      BY <2>3 DEF DownloadOpened, DownloadRead, DownloadReadFails, DownloadEnds
    <3> QED
      BY <2>1, <2>3, <3>1, DownloadTurns DEF LogGoes
  <2>4. CASE DeleteEnds
    BY <2>1, <2>4, DeleteTurns DEF LogGoes, DeleteEnds
  <2>5. CASE FlushOpened \/ FlushWrote \/ FlushWriteFails \/ FlushEnds
    <3>1. job.kind = "log"
      BY <2>5 DEF FlushOpened, FlushWrote, FlushWriteFails, FlushEnds
    <3> QED
      BY <2>5, <3>1, FlushTurns
  <2> QED
    BY <2>2, <2>3, <2>4, <2>5 DEF Returns
<1>3. CASE Goes
  <2>1. JobType'
    BY <1>1, <1>2, <1>3 DEF Goes, LogGoes, JobType
  <2> QED
    BY <1>1, <1>3, <2>1 DEF Goes, Kind
<1>4. CASE Ends
  <2>0. outcome' # NoJob
    BY <1>4, <1>1, JobFacts DEF Ends, NoJob
  <2>1. JobType'
    BY <1>1, <1>2, <1>4, <2>0 DEF Ends, LogGoes, JobType
  <2> QED
    BY <1>1, <1>4, <2>1 DEF Ends, Kind
<1> QED
  BY <1>1, <1>2, <1>3, <1>4

-----------------------------------------------------------------------------
(* BaseInv, step by step.                                                  *)

LEMMA OrderedParts ==
  ASSUME NEW S, NEW s \in Seq(S), Ordered(s)
  PROVE  /\ s # <<>> => Ordered(Tail(s)) /\ \A x \in Elems(Tail(s)) : Follows(x, Head(s))
         /\ \A y \in S : (\A x \in Elems(s) : Follows(y, x)) => Ordered(Append(s, y))
<1>1. ASSUME s # <<>> PROVE Ordered(Tail(s)) /\ \A x \in Elems(Tail(s)) : Follows(x, Head(s))
  <2>1. /\ Len(s) \in Nat /\ Len(s) > 0 /\ Head(s) = s[1] /\ Len(Tail(s)) = Len(s) - 1
        /\ \A i \in 1..(Len(s) - 1) : Tail(s)[i] = s[i + 1]
    BY <1>1, SeqParts
  <2>2. \A i \in 1..(Len(s) - 1) : i + 1 \in 1..Len(s) /\ 1 \in 1..Len(s) /\ 1 < i + 1
    BY <2>1
  <2>3. Ordered(Tail(s))
    BY <2>1, <2>2 DEF Ordered
  <2>4. ASSUME NEW x \in Elems(Tail(s)) PROVE Follows(x, Head(s))
    <3>1. PICK i \in 1..(Len(s) - 1) : x = s[i + 1]
      BY <2>1 DEF Elems
    <3> QED
      BY <2>1, <2>2, <3>1 DEF Ordered
  <2> QED
    BY <2>3, <2>4
<1>2. ASSUME NEW y \in S, \A x \in Elems(s) : Follows(y, x) PROVE Ordered(Append(s, y))
  <2>1. /\ Len(s) \in Nat /\ Len(Append(s, y)) = Len(s) + 1
        /\ \A i \in 1..(Len(s) + 1) : Append(s, y)[i] = IF i <= Len(s) THEN s[i] ELSE y
    BY LenProperties, AppendProperties
  <2>2. \A i \in 1..Len(s) : Follows(y, s[i])
    BY <1>2 DEF Elems
  <2>3. ASSUME NEW i \in 1..(Len(s) + 1), NEW j \in 1..(Len(s) + 1), i < j
        PROVE  Follows(Append(s, y)[j], Append(s, y)[i])
    <3>1. i \in 1..Len(s) /\ Append(s, y)[i] = s[i]
      BY <2>1, <2>3
    <3>2. CASE j = Len(s) + 1
      <4>1. Append(s, y)[j] = y
        BY <2>1, <3>2
      <4> QED
        BY <2>2, <3>1, <4>1
    <3>3. CASE j # Len(s) + 1
      <4>1. j \in 1..Len(s) /\ Append(s, y)[j] = s[j]
        BY <2>1, <3>3
      <4> QED
        BY <2>3, <3>1, <4>1 DEF Ordered
    <3> QED
      BY <3>2, <3>3
  <2> QED
    BY <2>1, <2>3 DEF Ordered
<1> QED
  BY <1>1, <1>2

\* The request being made comes after all there are.
LEMMA Newest ==
  ASSUME LineType, JobType, OrderInv, request \in Requests
  PROVE  /\ Known(request) /\ Wants(request) /\ request.n = jobs /\ Rank(request) = Cap
         /\ \A r : Known(r) => Follows(request, r)
<1>1. /\ Wants(request) /\ request.n = jobs /\ jobs \in Nat /\ Rank(request) = Cap
      /\ request.cmd \in OwnCommands(Kind) /\ job # NoJob
  BY WantsFacts, RequestFacts DEF OrderInv
<1>2. Cap \in Nat
  BY <1>1, RankFacts
<1>3. Known(request)
  BY <1>1, <1>2 DEF Known
<1>4. ASSUME NEW r, Known(r), r \in Requests PROVE Before(r, request)
  <2>1. r.n \in Nat /\ r.n <= jobs /\ Rank(r) \in Nat
    BY <1>4, RankFacts DEF Known
  <2>2. CASE r.n < jobs
    BY <1>1, <2>2 DEF Before
  <2>3. CASE r.n = jobs
    <3>1. r.cmd \in OwnCommands(Kind) /\ Rank(r) <= Cap
      BY <1>1, <1>4, <2>3 DEF Known
    <3>2. r.cmd \in Reading <=> request.cmd \in Reading
      BY <1>1, <3>1 DEF OwnCommands, Reading
    <3> QED
      BY <1>1, <2>3, <3>1, <3>2 DEF Before
  <2> QED
    BY <1>1, <2>1, <2>2, <2>3
<1> QED
  BY <1>1, <1>3, <1>4 DEF Follows

LEMMA KnownStays ==
  ASSUME NEW r, Known(r), job' = job, jobs' = jobs, outcome' = outcome
  PROVE  Known(r)'
BY DEF Known, Kind, Cap, OwnCommands

LEMMA KnownOn ==
  ASSUME NEW r, Known(r), jobs' = jobs, Kind' = Kind,
         job # NoJob, Cap \in Nat, job' # NoJob => Cap' \in Nat /\ Cap <= Cap'
  PROVE  Known(r)'
<1> SUFFICES ASSUME r \in Requests PROVE Known(r)'
  BY DEF Known
<1>1. /\ r.n <= jobs
      /\ r.n = jobs => r.cmd \in OwnCommands(Kind) /\ Rank(r) <= Cap
  BY DEF Known
<1>2. Rank(r) \in Nat
  BY RankFacts
<1>3. OwnCommands(Kind') = OwnCommands(Kind)
  OBVIOUS
<1>4. r.n = jobs' /\ job' # NoJob => Rank(r) <= Cap'
  BY <1>1, <1>2
<1> QED
  BY <1>1, <1>3, <1>4 DEF Known

LEMMA BaseStays ==
  ASSUME BaseInv, UNCHANGED vars
  PROVE  BaseInv'
BY DEF BaseInv, LineType, CardType, JobType, OrderInv, vars, linkVars, srvVars, cliVars, ghostVars,
       Known, Kind, Cap, Wants

LEMMA BaseLink ==
  ASSUME BaseInv, LinkStep
  PROVE  BaseInv'
<1> DEFINE S == Requests \cup {Garbled}
<1>1. LineType /\ CardType /\ JobType /\ OrderInv /\ reqs \in Seq(S)
  BY DEF BaseInv, LineType
<1>2. /\ Dropped /\ request' = request /\ request \in Requests /\ request # NoRequest
      /\ phase # "idle" /\ phase' # "idle" /\ ran' = ran
      /\ UNCHANGED <<srvVars, cliVars>>
      /\ reqs' = reqs \/ reqs' = Append(reqs, request) \/ reqs' = Append(reqs, Garbled)
  BY <1>1, LinkMoves, RequestFacts DEF ghostVars
<1>3. /\ resps' \in Seq(Answers \cup {FrameError}) /\ \A a \in Elems(resps') : a \in Elems(resps)
  BY <1>1, <1>2, DropFacts
<1>4. /\ Known(request) /\ Wants(request) /\ \A r : Known(r) => Follows(request, r)
  BY <1>1, <1>2, Newest
<1>5. /\ Known(Garbled) /\ \A r : Follows(Garbled, r)
  BY RequestFacts DEF Known, Follows
<1>6. /\ Ordered(reqs) /\ Known(ran) /\ \A r \in Elems(reqs) : Follows(r, ran) /\ Known(r)
      /\ \A a \in Elems(resps) : a \in Answers => ran # NoRequest /\ a.of.n <= ran.n
  BY <1>1 DEF OrderInv
<1>7. request \in S /\ Garbled \in S
  BY <1>2
<1> HIDE DEF S
<1>8. ASSUME NEW x \in {request, Garbled}, reqs' = Append(reqs, x)
      PROVE  /\ reqs' \in Seq(S) /\ Ordered(reqs')
             /\ \A r \in Elems(reqs') : Follows(r, ran) /\ Known(r)
  <2>1. /\ \A r : Known(r) => Follows(x, r)
        /\ Known(x) /\ x \in S
    BY <1>4, <1>5, <1>7
  <2>2. reqs' \in Seq(S)
    BY <1>1, <1>8, <2>1, SeqParts
  <2>3. Ordered(reqs')
    BY <1>1, <1>6, <1>8, <2>1, OrderedParts
  <2>4. \A r \in Elems(reqs') : r \in Elems(reqs) \/ r = x
    BY <1>1, <1>8, <2>1, ElemsParts
  <2> QED
    BY <1>6, <2>1, <2>2, <2>3, <2>4
<1>9. /\ reqs' \in Seq(S) /\ Ordered(reqs')
      /\ \A r \in Elems(reqs') : Follows(r, ran) /\ Known(r)
  <2>1. CASE reqs' = reqs
    BY <1>1, <1>6, <2>1
  <2> QED
    BY <1>2, <1>8, <2>1
<1>10. job' = job /\ jobs' = jobs /\ outcome' = outcome /\ log' = log
  BY <1>2 DEF cliVars
<1>11. LineType'
  BY <1>1, <1>2, <1>3, <1>9 DEF LineType, S
<1>12. CardType' /\ JobType'
  BY <1>1, <1>2, <1>10 DEF CardType, JobType, srvVars
<1>13. Wants(request)'
  BY <1>2, <1>4, <1>10 DEF Wants
<1>14. \A r : Known(r) => Known(r)'
  BY <1>10, KnownStays
<1>15. OrderInv'
  BY <1>2, <1>3, <1>6, <1>9, <1>13, <1>14 DEF OrderInv
<1> QED
  BY <1>11, <1>12, <1>15 DEF BaseInv

LEMMA BaseAsk ==
  ASSUME BaseInv, Asks
  PROVE  BaseInv'
<1>1. LineType /\ CardType /\ JobType /\ OrderInv
  BY DEF BaseInv
<1>2. PICK r : phase = "idle" /\ Wants(r) /\ Call(r)
  BY AskFacts
<1>3. /\ request' = r /\ phase' = "send" /\ reqs' = reqs /\ resps' = resps
      /\ UNCHANGED <<srvVars, cliVars, ghostVars>>
  BY <1>2 DEF Call, Request
<1>4. r \in Requests /\ r # NoRequest
  BY <1>1, <1>2, WantsFacts, RequestFacts
<1>5. /\ disk' = disk /\ handles' = handles /\ job' = job /\ jobs' = jobs /\ outcome' = outcome
      /\ log' = log /\ ran' = ran
  BY <1>3 DEF srvVars, cliVars, ghostVars
<1>6. LineType'
  BY <1>1, <1>3, <1>4, <1>5 DEF LineType
<1>7. CardType' /\ JobType'
  BY <1>1, <1>5 DEF CardType, JobType
<1>8. Wants(request)'
  BY <1>2, <1>3, <1>5 DEF Wants
<1>9. \A x : Known(x) => Known(x)'
  BY <1>5, KnownStays
<1>10. OrderInv'
  BY <1>1, <1>3, <1>5, <1>8, <1>9 DEF OrderInv
<1> QED
  BY <1>6, <1>7, <1>10 DEF BaseInv

LEMMA BaseBegin ==
  ASSUME BaseInv, Begins
  PROVE  BaseInv'
<1>1. LineType /\ CardType /\ JobType /\ OrderInv
  BY DEF BaseInv
<1>2. /\ job = NoJob /\ jobs' = jobs + 1 /\ JobType' /\ jobs \in Nat /\ Cap' = 0
      /\ reqs' = reqs /\ resps' = resps /\ request' = request /\ phase' = phase
      /\ disk' = disk /\ handles' = handles /\ ran' = ran
  BY <1>1, BeginFacts DEF linkVars, srvVars, ghostVars
<1>3. request = NoRequest
  BY <1>1, <1>2, WantsFacts DEF OrderInv
<1>4. ASSUME NEW x, Known(x) PROVE Known(x)'
  <2> SUFFICES ASSUME x \in Requests PROVE Known(x)'
    BY DEF Known
  <2>1. x.n \in Nat /\ x.n <= jobs
    BY <1>4, RankFacts DEF Known
  <2>2. x.n <= jobs' /\ x.n # jobs'
    BY <1>2, <2>1
  <2> QED
    BY <2>2 DEF Known
<1>5. LineType' /\ CardType'
  BY <1>1, <1>2 DEF LineType, CardType
<1>6. OrderInv'
  BY <1>1, <1>2, <1>3, <1>4 DEF OrderInv
<1> QED
  BY <1>2, <1>5, <1>6 DEF BaseInv

LEMMA BaseTurn ==
  ASSUME BaseInv, Returns \/ UploadAborted
  PROVE  BaseInv'
<1>1. LineType /\ CardType /\ JobType /\ OrderInv
  BY DEF BaseInv
<1>2. /\ jobs' = jobs /\ reqs' = reqs /\ Dropped /\ request' = NoRequest /\ phase' = "idle"
      /\ disk' = disk /\ handles' = handles /\ ran' = ran
  <2>1. CASE Returns
    BY <1>1, <2>1, ReturnsFacts, CameBack DEF srvVars
  <2>2. CASE UploadAborted
    <3>1. /\ phase = "idle" /\ UNCHANGED <<linkVars, srvVars, jobs, log, ghostVars>>
      BY <2>2 DEF UploadAborted, At
    <3> QED
      BY <1>1, <3>1, DropFacts DEF LineType, linkVars, srvVars, ghostVars
  <2> QED
    BY <2>1, <2>2
<1>3. JobType' /\ job # NoJob /\ Kind' = Kind /\ (Goes \/ Ends)
  BY <1>1, <1>2, Turns
<1>4. Cap \in Nat
  BY <1>1, JobFacts DEF Cap
<1>5. job' # NoJob => Cap' \in Nat /\ Cap <= Cap'
  BY <1>3 DEF Goes, Ends
<1>6. \A x : Known(x) => Known(x)'
  BY <1>2, <1>3, <1>4, <1>5, KnownOn
<1>7. /\ resps' \in Seq(Answers \cup {FrameError}) /\ \A a \in Elems(resps') : a \in Elems(resps)
  BY <1>1, <1>2, DropFacts
<1>8. LineType' /\ CardType'
  BY <1>1, <1>2, <1>7 DEF LineType, CardType
<1>9. OrderInv'
  BY <1>1, <1>2, <1>6, <1>7 DEF OrderInv
<1> QED
  BY <1>3, <1>8, <1>9 DEF BaseInv

LEMMA BaseServe ==
  ASSUME BaseInv, StmServe
  PROVE  BaseInv'
<1> DEFINE S == Requests \cup {Garbled}
           r == Head(reqs)
<1>1. LineType /\ CardType /\ JobType /\ OrderInv /\ reqs \in Seq(S)
      /\ resps \in Seq(Answers \cup {FrameError})
  BY DEF BaseInv, LineType
<1>2. PICK a : /\ Said(r, a) /\ Effect(r, a)
               /\ reqs # <<>> /\ r \in Requests /\ reqs' = Tail(reqs)
               /\ UNCHANGED <<phase, request, tries, stale, cliVars, misread>> /\ ran' = r
  BY <1>1, Served
<1>3. CardType'
  BY <1>1, <1>2, CardServed
<1>4. job' = job /\ jobs' = jobs /\ outcome' = outcome /\ log' = log
  BY <1>2 DEF cliVars
<1>5. /\ Ordered(reqs) /\ \A x \in Elems(reqs) : Follows(x, ran) /\ Known(x)
      /\ \A b \in Elems(resps) : b \in Answers => ran # NoRequest /\ b.of.n <= ran.n
  BY <1>1 DEF OrderInv
<1>6. r \in Elems(reqs) /\ \A x \in Elems(Tail(reqs)) : x \in Elems(reqs)
  BY <1>1, <1>2, ElemsParts
<1>7. Tail(reqs) \in Seq(S) /\ Ordered(Tail(reqs)) /\ \A x \in Elems(Tail(reqs)) : Follows(x, r)
  BY <1>1, <1>2, <1>5, SeqParts, OrderedParts
<1>8. /\ a \in Answers /\ a.of = r /\ (resps' = resps \/ resps' = Append(resps, a))
  BY <1>2 DEF Said
<1>9. /\ resps' \in Seq(Answers \cup {FrameError})
      /\ \A b \in Elems(resps') : b \in Elems(resps) \/ b = a
  <2>1. a \in Answers \cup {FrameError}
    BY <1>8
  <2>2. /\ Append(resps, a) \in Seq(Answers \cup {FrameError})
        /\ \A b \in Elems(Append(resps, a)) : b \in Elems(resps) \/ b = a
    BY <1>1, <2>1, AppendProperties, ElemsParts
  <2> QED
    BY <1>1, <1>8, <2>2
<1>10. ran # NoRequest => ran \in Requests /\ ran.n <= r.n
  <2> SUFFICES ASSUME ran # NoRequest PROVE ran \in Requests /\ ran.n <= r.n
    OBVIOUS
  <2>1. ran \in Requests /\ Follows(r, ran)
    BY <1>1, <1>5, <1>6 DEF LineType
  <2>2. Before(ran, r) /\ ran.n \in Nat /\ r.n \in Nat
    BY <1>2, <2>1, RankFacts DEF Follows
  <2> QED
    BY <2>1, <2>2 DEF Before
<1>11. r # NoRequest /\ r.n \in Nat
  BY <1>2, RequestFacts, RankFacts
<1>12. \A b \in Elems(resps') : b \in Answers => b.of.n <= r.n
  <2>1. SUFFICES ASSUME NEW b \in Elems(resps'), b \in Answers PROVE b.of.n <= r.n
    OBVIOUS
  <2>2. b.of.n \in Nat
    BY <2>1, AnswerFacts, RankFacts
  <2>3. CASE b = a
    BY <1>8, <1>11, <2>3
  <2>4. CASE b \in Elems(resps)
    <3>1. b.of.n <= ran.n /\ ran \in Requests /\ ran.n <= r.n
      BY <1>5, <1>10, <2>1, <2>4
    <3> QED
      BY <1>11, <2>2, <3>1, RankFacts
  <2> QED
    BY <1>9, <2>3, <2>4
<1>13. \A x : Known(x) => Known(x)'
  BY <1>4, KnownStays
<1> HIDE DEF r
<1>14. LineType'
  BY <1>1, <1>2, <1>7, <1>9 DEF LineType
<1>15. JobType'
  BY <1>1, <1>4 DEF JobType
<1>16. request # NoRequest => Wants(request)'
  BY <1>1, <1>2, <1>4 DEF OrderInv, Wants
<1>17. OrderInv'
  <2>1. \A x \in Elems(reqs') : Follows(x, ran') /\ Known(x)'
    BY <1>2, <1>5, <1>6, <1>7, <1>13
  <2>2. Known(ran)'
    BY <1>2, <1>5, <1>6, <1>13
  <2>3. Ordered(reqs')
    BY <1>2, <1>7
  <2>4. \A b \in Elems(resps') : b \in Answers => ran' # NoRequest /\ b.of.n <= ran'.n
    BY <1>2, <1>11, <1>12
  <2>5. request' # NoRequest => Wants(request)'
    BY <1>2, <1>16
  <2> QED
    BY <2>1, <2>2, <2>3, <2>4, <2>5 DEF OrderInv
<1> QED
  BY <1>3, <1>14, <1>15, <1>17 DEF BaseInv

LEMMA GarbledFacts ==
  ASSUME LineType, StmGarbled
  PROVE  /\ reqs # <<>> /\ reqs' = Tail(reqs)
         /\ UNCHANGED <<phase, request, srvVars, cliVars, ghostVars>>
         /\ resps' = resps \/ resps' = Append(resps, FrameError)
         /\ reqs' \in Seq(Requests \cup {Garbled}) /\ resps' \in Seq(Answers \cup {FrameError})
         /\ \A x \in Elems(reqs') : x \in Elems(reqs)
         /\ \A b \in Elems(resps') : b \in Elems(resps) \/ b = FrameError
<1>1. /\ reqs # <<>> /\ reqs' = Tail(reqs)
      /\ UNCHANGED <<phase, request, srvVars, cliVars, ghostVars>>
      /\ resps' = resps \/ resps' = Append(resps, FrameError)
  BY DEF StmGarbled, TakeGarbled, Take, Answer, AnswerSent, AnswerLost
<1> DEFINE S == Requests \cup {Garbled}
           A == Answers \cup {FrameError}
<1>2. reqs \in Seq(S) /\ resps \in Seq(A) /\ FrameError \in A
  BY DEF LineType
<1> HIDE DEF S, A
<1>3. reqs' \in Seq(S) /\ \A x \in Elems(reqs') : x \in Elems(reqs)
  BY <1>1, <1>2, SeqParts, ElemsParts
<1>4. resps' \in Seq(A) /\ \A b \in Elems(resps') : b \in Elems(resps) \/ b = FrameError
  <2>1. /\ Append(resps, FrameError) \in Seq(A)
        /\ \A b \in Elems(Append(resps, FrameError)) : b \in Elems(resps) \/ b = FrameError
    BY <1>2, AppendProperties, ElemsParts
  <2> QED
    BY <1>1, <1>2, <2>1
<1> QED
  BY <1>1, <1>3, <1>4 DEF S, A

LEMMA BaseGarbled ==
  ASSUME BaseInv, StmGarbled
  PROVE  BaseInv'
<1>1. LineType /\ CardType /\ JobType /\ OrderInv
  BY DEF BaseInv
<1>2. /\ reqs # <<>> /\ reqs' = Tail(reqs) /\ phase' = phase /\ request' = request
      /\ disk' = disk /\ handles' = handles /\ ran' = ran
      /\ job' = job /\ jobs' = jobs /\ outcome' = outcome /\ log' = log
      /\ reqs' \in Seq(Requests \cup {Garbled}) /\ resps' \in Seq(Answers \cup {FrameError})
      /\ \A x \in Elems(reqs') : x \in Elems(reqs)
      /\ \A b \in Elems(resps') : b \in Elems(resps) \/ b = FrameError
  BY <1>1, GarbledFacts DEF srvVars, cliVars, ghostVars
<1>3. Ordered(reqs')
  BY <1>1, <1>2, OrderedParts DEF LineType, OrderInv
<1>4. \A x : Known(x) => Known(x)'
  BY <1>2, KnownStays
<1>5. \A b \in Elems(resps') : b \in Answers => b \in Elems(resps)
  BY <1>2, AnswerFacts
<1>6. request # NoRequest => Wants(request)'
  BY <1>1, <1>2 DEF OrderInv, Wants
<1>7. LineType' /\ CardType' /\ JobType'
  BY <1>1, <1>2 DEF LineType, CardType, JobType
<1>8. OrderInv'
  BY <1>1, <1>2, <1>3, <1>4, <1>5, <1>6 DEF OrderInv
<1> QED
  BY <1>7, <1>8 DEF BaseInv

LEMMA BaseInit ==
  ASSUME Init
  PROVE  BaseInv
<1>1. /\ reqs = <<>> /\ resps = <<>> /\ phase = "idle" /\ request = NoRequest /\ ran = NoRequest
      /\ disk = Card /\ handles = [h \in HandleIds |-> Closed] /\ job = NoJob /\ jobs = 0
      /\ log = [open |-> FALSE, h |-> 0, buf |-> 1] /\ outcome = NoJob
  BY DEF Init, LinkInit, ServerInit
<1>2. NoRequest \notin Requests
  BY RequestFacts
<1>3. LineType
  BY <1>1, EmptySeq DEF LineType
<1>4. CardType
  <2>1. ASSUME NEW f \in DOMAIN Card PROVE Card[f] \in Seq(Piece)
    <3>1. Card[f] \in Seq({0} \X Nat) /\ {0} \X Nat \subseteq Piece
      BY ClientBounds DEF Piece
    <3> QED
      BY <3>1, SeqMonotonic
  <2>2. Card \in [DOMAIN Card -> Seq(Piece)]
    BY <2>1, ClientBounds
  <2> QED
    BY <1>1, <2>2 DEF CardType
<1>5. JobType
  BY <1>1 DEF JobType, Numbers
<1>6. OrderInv
  <2>1. Len(reqs) = 0 /\ Len(resps) = 0
    BY <1>1
  <2>2. Elems(reqs) = {} /\ Elems(resps) = {} /\ Ordered(reqs)
    BY <2>1 DEF Elems, Ordered
  <2> QED
    BY <1>1, <1>2, <2>2 DEF OrderInv, Known
<1> QED
  BY <1>3, <1>4, <1>5, <1>6 DEF BaseInv

LEMMA NextParts ==
  ASSUME [Next]_vars
  PROVE  Asks \/ Begins \/ Returns \/ UploadAborted \/ StmServe \/ StmGarbled \/ LinkStep
         \/ UNCHANGED vars
BY DEF Next, Finished, Asks, Begins, Returns, Uploading, Downloading, Deleting, Flushing

LEMMA BaseNext ==
  ASSUME BaseInv, [Next]_vars
  PROVE  BaseInv'
BY NextParts, BaseAsk, BaseBegin, BaseTurn, BaseServe, BaseGarbled, BaseLink, BaseStays

\* The requests are run in the order of the jobs, and of their jobs.
THEOREM InTheOrderOfJobs == Spec => []BaseInv
<1>1. Init => BaseInv
  BY BaseInit
<1>2. BaseInv /\ [Next]_vars => BaseInv'
  BY BaseNext
<1> QED
  BY <1>1, <1>2, PTL DEF Spec

-----------------------------------------------------------------------------
(* Only the STM32 touches the card.                                        *)

LEMMA OthersKeep ==
  ASSUME BaseInv, [Next]_vars, ~StmServe
  PROVE  disk' = disk /\ handles' = handles /\ ran' = ran /\ again' = again
<1>1. LineType /\ JobType /\ OrderInv
  BY DEF BaseInv
<1>2. CASE Asks
  BY <1>2, AskFacts DEF Call, srvVars, ghostVars
<1>3. CASE Begins
  BY <1>1, <1>3, BeginFacts DEF srvVars, ghostVars
<1>4. CASE Returns
  BY <1>1, <1>4, ReturnsFacts, CameBack DEF srvVars
<1>5. CASE UploadAborted
  BY <1>5 DEF UploadAborted, srvVars, ghostVars
<1>6. CASE StmGarbled
  BY <1>1, <1>6, GarbledFacts DEF srvVars, ghostVars
<1>7. CASE LinkStep
  BY <1>1, <1>7, LinkMoves DEF srvVars, ghostVars
<1>8. CASE UNCHANGED vars
  BY <1>8 DEF vars, srvVars, ghostVars
<1> QED
  BY <1>2, <1>3, <1>4, <1>5, <1>6, <1>7, <1>8, NextParts

\* A request taken comes after the one run before.
LEMMA HeadFacts ==
  ASSUME BaseInv, reqs # <<>>
  PROVE  /\ Head(reqs) \in Elems(reqs) /\ Follows(Head(reqs), ran) /\ Known(Head(reqs))
         /\ ran \in Requests \cup {NoRequest}
         /\ \A x \in Elems(Tail(reqs)) : x \in Elems(reqs) /\ Follows(x, Head(reqs))
<1>1. reqs \in Seq(Requests \cup {Garbled}) /\ ran \in Requests \cup {NoRequest}
      /\ Ordered(reqs) /\ \A r \in Elems(reqs) : Follows(r, ran) /\ Known(r)
  BY DEF BaseInv, LineType, OrderInv
<1> DEFINE S == Requests \cup {Garbled}
<1>2. reqs \in Seq(S)
  BY <1>1
<1> HIDE DEF S
<1>3. /\ Head(reqs) \in Elems(reqs)
      /\ \A x \in Elems(Tail(reqs)) : x \in Elems(reqs) /\ Follows(x, Head(reqs))
  BY <1>1, <1>2, ElemsParts, OrderedParts
<1> QED
  BY <1>1, <1>3

-----------------------------------------------------------------------------
(* UploadOrdered.                                                          *)

LEMMA BehindOn ==
  ASSUME NEW data \in Seq(Piece), NEW pos, NEW r \in Requests, NEW s \in Requests \cup {NoRequest},
         Follows(r, s), Behind(data, pos, s)
  PROVE  Behind(data, pos, r) /\ (r.cmd \in Reading => \A p : Behind(data, p, r))
<1>1. r.n \in Numbers /\ Rank(r) \in Nat /\ r.n \in Nat
  BY RequestFacts, RankFacts
<1>2. ASSUME NEW i \in 1..Len(data)
      PROVE  /\ data[i][1] <= r.n
             /\ data[i][1] = r.n => i <= pos /\ data[i][2] <= Rank(r) /\ r.cmd \notin Reading
  <2>1. data[i] \in Piece
    BY ElementOfSeq
  <2>2. data[i][1] \in Nat /\ data[i][2] \in Nat
    BY <2>1 DEF Piece
  <2>3. CASE s \in Requests
    <3>1. Before(s, r) /\ s.n \in Nat /\ Rank(s) \in Nat
      BY <2>3, RankFacts DEF Follows
    <3>2. /\ data[i][1] <= s.n
          /\ data[i][1] = s.n => i <= pos /\ data[i][2] <= Rank(s) /\ s.cmd \notin Reading
      BY <2>3 DEF Behind
    <3>3. CASE s.n < r.n
      BY <1>1, <2>2, <3>1, <3>2, <3>3
    <3>4. CASE s.n = r.n
      <4>1. Rank(s) <= Rank(r) /\ (s.cmd \in Reading <=> r.cmd \in Reading)
        BY <1>1, <3>1, <3>4 DEF Before
      <4>2. ASSUME data[i][1] = r.n
            PROVE  i <= pos /\ data[i][2] <= Rank(r) /\ r.cmd \notin Reading
        <5>1. i <= pos /\ data[i][2] <= Rank(s) /\ s.cmd \notin Reading
          BY <3>2, <3>4, <4>2
        <5> QED
          BY <1>1, <2>2, <3>1, <4>1, <5>1
      <4> QED
        BY <3>2, <3>4, <4>2
    <3> QED
      BY <1>1, <3>1, <3>3, <3>4 DEF Before
  <2>4. CASE s \notin Requests
    <3>1. data[i][1] = 0
      BY <2>4 DEF Behind
    <3> QED
      BY <1>1, <3>1 DEF Numbers
  <2> QED
    BY <2>3, <2>4
<1> QED
  BY <1>2 DEF Behind

LEMMA BehindPut ==
  ASSUME NEW data \in Seq(Piece), NEW pos \in 0..Len(data), NEW r \in Requests,
         r.cmd = "WRITE_CHUNK", InOrder(data), Behind(data, pos, r)
  PROVE  InOrder(Put(data, pos, r.piece)) /\ Behind(Put(data, pos, r.piece), pos + 1, r)
<1> DEFINE new == Put(data, pos, r.piece)
<1>1. /\ r.piece \in Piece /\ r.piece[1] \in {0, r.n} /\ r.piece[1] \in Nat /\ r.piece[2] \in Nat
      /\ r.n \in Nat /\ r.cmd \notin Reading
  BY RequestFacts, RankFacts DEF Reading
<1>2. /\ Len(data) \in Nat /\ Len(new) = IF pos < Len(data) THEN Len(data) ELSE pos + 1
      /\ \A i \in 1..Len(new) : new[i] = IF i = pos + 1 THEN r.piece ELSE data[i]
  <2>1. r.piece \in Piece
    BY <1>1
  <2>2. Len(data) \in Nat
    BY LenProperties
  <2> QED
    BY <2>1, <2>2, PutFacts
<1>3. \A i \in 1..Len(data) : data[i][1] \in Nat /\ data[i][2] \in Nat
  BY ElementOfSeq DEF Piece
<1>4. ASSUME r.piece[1] # 0 PROVE r.piece[1] = r.n /\ Rank(r) = r.piece[2]
  BY <1>1, <1>4 DEF Rank
<1>5. \A i \in 1..Len(data) :
        /\ data[i][1] <= r.n
        /\ data[i][1] = r.n => i <= pos /\ data[i][2] <= Rank(r)
  BY DEF Behind
<1> HIDE DEF new
<1>6. \A i \in 1..Len(new) : i = pos + 1 \/ (i \in 1..Len(data) /\ i # pos + 1)
  BY <1>2
<1>7. ASSUME NEW i \in 1..Len(new), NEW j \in 1..Len(new), i < j,
             new[i][1] = new[j][1], new[i][1] # 0
      PROVE  new[i][2] <= new[j][2]
  <2>1. CASE i # pos + 1 /\ j # pos + 1
    <3>1. i \in 1..Len(data) /\ j \in 1..Len(data) /\ new[i] = data[i] /\ new[j] = data[j]
      BY <1>2, <1>6, <2>1
    <3> QED
      BY <1>7, <3>1 DEF InOrder
  <2>2. CASE i = pos + 1 /\ j # pos + 1
    <3>1. j \in 1..Len(data) /\ new[j] = data[j] /\ new[i] = r.piece /\ ~(j <= pos)
      BY <1>2, <1>6, <1>7, <2>2
    <3>2. data[j][1] = r.n
      BY <1>4, <1>7, <3>1
    <3> QED
      BY <1>5, <3>1, <3>2
  <2>3. CASE i # pos + 1 /\ j = pos + 1
    <3>1. i \in 1..Len(data) /\ new[i] = data[i] /\ new[j] = r.piece
      BY <1>2, <1>6, <2>3
    <3>2. data[i][1] = r.n /\ Rank(r) = r.piece[2]
      BY <1>4, <1>7, <3>1
    <3> QED
      BY <1>5, <3>1, <3>2
  <2> QED
    BY <1>7, <2>1, <2>2, <2>3
<1>8. ASSUME NEW i \in 1..Len(new)
      PROVE  /\ new[i][1] <= r.n
             /\ new[i][1] = r.n => i <= pos + 1 /\ new[i][2] <= Rank(r) /\ r.cmd \notin Reading
  <2>1. CASE i = pos + 1
    <3>1. new[i] = r.piece /\ i <= pos + 1
      BY <1>2, <2>1
    <3>2. r.piece[1] <= r.n
      BY <1>1
    <3>3. r.piece[1] = r.n => r.piece[2] <= Rank(r)
      <4>1. r.n # 0
        BY RequestFacts DEF Numbers
      <4> QED
        BY <1>1, <1>4, <4>1
    <3> QED
      BY <1>1, <3>1, <3>2, <3>3
  <2>2. CASE i # pos + 1
    <3>1. i \in 1..Len(data) /\ new[i] = data[i]
      BY <1>2, <1>6, <2>2
    <3>2. data[i][1] = r.n => i <= pos + 1
      BY <1>2, <1>5, <3>1
    <3> QED
      BY <1>1, <1>5, <3>1, <3>2
  <2> QED
    BY <2>1, <2>2
<1>9. InOrder(new)
  BY <1>7 DEF InOrder
<1>10. Behind(new, pos + 1, r)
  BY <1>8 DEF Behind
<1> QED
  BY <1>9, <1>10 DEF new

LEMMA NothingBehind ==
  ASSUME NEW pos, NEW r
  PROVE  InOrder(<<>>) /\ Behind(<<>>, pos, r)
<1>1. Len(<<>>) = 0
  OBVIOUS
<1> QED
  BY <1>1 DEF InOrder, Behind

LEMMA PiecesEffect ==
  ASSUME CardType, PiecesInv, NEW r \in Requests, NEW a, Effect(r, a), Follows(r, ran),
         ran \in Requests \cup {NoRequest}
  PROVE  /\ \A f \in DOMAIN disk' : InOrder(disk'[f])
         /\ \A h \in HandleIds : handles'[h].mode = "write" =>
              InOrder(handles'[h].data) /\ Behind(handles'[h].data, handles'[h].pos, r)
<1> DEFINE Good(x) == x.mode = "write" => InOrder(x.data) /\ Behind(x.data, x.pos, r)
           DiskGood(d) == \A f \in DOMAIN d : InOrder(d[f])
<1>1. DiskGood(disk) /\ handles = [h \in HandleIds |-> handles[h]]
  BY DEF PiecesInv, CardType
<1>2. ASSUME NEW h \in HandleIds
      PROVE  /\ Good(handles[h])
             /\ handles[h].mode = "write" => InOrder(handles[h].data)
             /\ r.cmd \in Reading => \A p : Good([handles[h] EXCEPT !.pos = p])
  <2>1. CASE handles[h] = Closed
    BY <2>1 DEF Closed
  <2>2. CASE handles[h] # Closed
    <3>1. handles[h].data \in Seq(Piece) /\ handles[h] \in Opens(handles[h].mode)
      BY <2>2, HandleFacts
    <3>2. CASE handles[h].mode = "write"
      <4>1. InOrder(handles[h].data) /\ Behind(handles[h].data, handles[h].pos, ran)
        BY <3>2 DEF PiecesInv
      <4>2. /\ Behind(handles[h].data, handles[h].pos, r)
            /\ r.cmd \in Reading => \A p : Behind(handles[h].data, p, r)
        BY <3>1, <4>1, BehindOn
      <4>3. \A p : /\ [handles[h] EXCEPT !.pos = p].data = handles[h].data
                   /\ [handles[h] EXCEPT !.pos = p].pos = p
        BY <3>1 DEF Opens
      <4> QED
        BY <4>1, <4>2, <4>3
    <3>3. CASE handles[h].mode # "write"
      <4>1. \A p : [handles[h] EXCEPT !.pos = p].mode = handles[h].mode
        BY <3>1 DEF Opens
      <4> QED
        BY <3>3, <4>1
    <3> QED
      BY <3>2, <3>3
  <2> QED
    BY <2>1, <2>2
<1>3. ASSUME NEW h \in HandleIds, NEW x, Good(x), handles' = [handles EXCEPT ![h] = x]
      PROVE  \A g \in HandleIds : Good(handles'[g])
  <2>1. \A g \in HandleIds : handles'[g] = IF g = h THEN x ELSE handles[g]
    BY <1>1, <1>3
  <2> HIDE DEF Good
  <2> QED
    BY <1>2, <1>3, <2>1
<1>4. Good(Closed)
  BY DEF Closed
<1>5. \A h \in HandleIds : handles[h] # Closed => DiskGood(Synced(h))
  BY <1>1, <1>2, SyncedFacts
<1> SUFFICES DiskGood(disk') /\ \A h \in HandleIds : Good(handles'[h])
  OBVIOUS
<1> HIDE DEF Good, DiskGood
<1>6. CASE Refused(a)
  BY <1>1, <1>2, <1>6 DEF Refused, srvVars
<1>7. CASE OpenedToRead(r, a)
  <2> DEFINE x == [mode |-> "read", file |-> r.file, data |-> disk[r.file], pos |-> 0]
  <2>1. Good(x)
    BY DEF Good
  <2> HIDE DEF x
  <2> QED
    BY <1>1, <1>3, <1>7, <2>1 DEF OpenedToRead, x
<1>8. CASE HasRead(r, a)
  <2>1. r.h \in HandleIds /\ r.cmd \in Reading /\ disk' = disk
    BY <1>8 DEF HasRead, Used, Reading
  <2>2. PICK p : handles' = [handles EXCEPT ![r.h].pos = p]
    BY <1>8 DEF HasRead
  <2> DEFINE x == [handles[r.h] EXCEPT !.pos = p]
  <2>3. handles' = [handles EXCEPT ![r.h] = x] /\ Good(x)
    BY <1>2, <2>1, <2>2
  <2> HIDE DEF x
  <2> QED
    BY <1>1, <1>3, <2>1, <2>3
<1>9. CASE HasClosed(r, a)
  <2>1. /\ r.h \in HandleIds /\ handles[r.h] # Closed
        /\ handles' = [handles EXCEPT ![r.h] = Closed] /\ SyncHandle(r.h)
    BY <1>9 DEF HasClosed, CloseHandle, Used
  <2>2. DiskGood(disk')
    BY <1>1, <1>5, <2>1, KeptOrNot
  <2> QED
    BY <1>3, <1>4, <2>1, <2>2
<1>10. CASE OpenedToWrite(r, a)
  <2> DEFINE x == [mode |-> "write", file |-> r.file, data |-> <<>>, pos |-> 0]
  <2>1. Good(x)
    BY NothingBehind DEF Good
  <2> HIDE DEF x
  <2>2. \A h \in HandleIds : Good(handles'[h])
    BY <1>3, <1>10, <2>1 DEF OpenedToWrite, x
  <2>3. DiskGood(disk')
    BY <1>1, <1>10, NothingBehind DEF OpenedToWrite, DiskGood
  <2> QED
    BY <2>2, <2>3
<1>11. CASE HasWritten(r, a)
  <2> DEFINE f == handles[r.h]
             x == [mode |-> "write", file |-> f.file, data |-> Put(f.data, f.pos, r.piece),
                   pos |-> f.pos + 1]
  <2>1. /\ r.h \in HandleIds /\ f # Closed /\ f.mode = "write" /\ r.cmd = "WRITE_CHUNK"
        /\ handles' = [handles EXCEPT ![r.h] = x] /\ disk' = disk
    BY <1>11 DEF HasWritten, Used
  <2>2. f.data \in Seq(Piece) /\ f.pos \in 0..Len(f.data)
    BY <2>1, HandleFacts
  <2>3. InOrder(f.data) /\ Behind(f.data, f.pos, r)
    BY <1>2, <2>1 DEF Good
  <2>4. InOrder(x.data) /\ Behind(x.data, x.pos, r)
    BY <2>1, <2>2, <2>3, BehindPut
  <2>5. Good(x)
    BY <2>4 DEF Good
  <2> HIDE DEF x
  <2> QED
    BY <1>1, <1>3, <2>1, <2>5
<1>12. CASE HasSynced(r, a)
  <2>1. r.h \in HandleIds /\ handles[r.h] # Closed /\ handles' = handles /\ SyncHandle(r.h)
    BY <1>12 DEF HasSynced, Used
  <2> QED
    BY <1>1, <1>2, <1>5, <2>1, KeptOrNot
<1>13. CASE HasDeleted(r, a)
  BY <1>1, <1>2, <1>13 DEF HasDeleted, DiskGood
<1> QED
  BY <1>6, <1>7, <1>8, <1>9, <1>10, <1>11, <1>12, <1>13 DEF Effect

LEMMA PiecesNext ==
  ASSUME BaseInv, PiecesInv, [Next]_vars
  PROVE  PiecesInv'
<1>1. CASE ~StmServe
  <2>1. disk' = disk /\ handles' = handles /\ ran' = ran
    BY <1>1, OthersKeep
  <2> QED
    BY <2>1 DEF PiecesInv
<1>2. CASE StmServe
  <2> DEFINE r == Head(reqs)
  <2>1. LineType /\ CardType
    BY DEF BaseInv
  <2>2. PICK a : Effect(r, a) /\ reqs # <<>> /\ r \in Requests /\ ran' = r
    BY <1>2, <2>1, Served
  <2>3. Follows(r, ran) /\ ran \in Requests \cup {NoRequest}
    BY <2>2, HeadFacts
  <2> HIDE DEF r
  <2>4. /\ \A f \in DOMAIN disk' : InOrder(disk'[f])
        /\ \A h \in HandleIds : handles'[h].mode = "write" =>
             InOrder(handles'[h].data) /\ Behind(handles'[h].data, handles'[h].pos, r)
    BY <2>1, <2>2, <2>3, PiecesEffect
  <2> QED
    BY <2>2, <2>4 DEF PiecesInv
<1> QED
  BY <1>1, <1>2

LEMMA PiecesInit ==
  ASSUME Init
  PROVE  PiecesInv
<1>1. disk = Card /\ handles = [h \in HandleIds |-> Closed]
  BY DEF Init, ServerInit
<1>2. ASSUME NEW f \in DOMAIN Card PROVE InOrder(Card[f])
  <2>1. Card[f] \in Seq({0} \X Nat)
    BY ClientBounds
  <2>2. \A i \in 1..Len(Card[f]) : Card[f][i] \in {0} \X Nat
    BY <2>1, ElementOfSeq
  <2>3. \A i \in 1..Len(Card[f]) : Card[f][i][1] = 0
    BY <2>2
  <2> QED
    BY <2>3 DEF InOrder
<1>3. \A h \in HandleIds : handles[h].mode = "closed"
  BY <1>1 DEF Closed
<1> QED
  BY <1>1, <1>2, <1>3 DEF PiecesInv

\* The pieces of an upload are on the card, and in each handle, in the order
\* they were sent, whatever was lost, repeated, misread or refused.
THEOREM UploadsInOrder == Spec => []UploadOrdered
<1>1. Init => BaseInv /\ PiecesInv
  BY BaseInit, PiecesInit
<1>2. BaseInv /\ PiecesInv /\ [Next]_vars => BaseInv' /\ PiecesInv'
  BY BaseNext, PiecesNext
<1>3. PiecesInv => UploadOrdered
  BY DEF PiecesInv, UploadOrdered
<1> QED
  BY <1>1, <1>2, <1>3, PTL DEF Spec

-----------------------------------------------------------------------------
(* The requests of the job.                                                *)

LEMMA OwnFacts ==
  ASSUME BaseInv
  PROVE  /\ jobs \in Nat
         /\ \A r \in Elems(reqs) : Own(r) => r.cmd \in OwnCommands(Kind)
         /\ \A a \in Elems(resps) : OwnAnswer(a) => Begun
         /\ \A r \in Elems(reqs) : r \in Requests /\ Begun => r.n = jobs
         /\ ran \in Requests => ran.n <= jobs
<1>1. /\ jobs \in Nat /\ ran \in Requests \cup {NoRequest} /\ Known(ran)
      /\ \A r \in Elems(reqs) : Known(r) /\ Follows(r, ran)
      /\ \A a \in Elems(resps) : a \in Answers => ran # NoRequest /\ a.of.n <= ran.n
  BY DEF BaseInv, JobType, OrderInv, LineType
<1>2. ran \in Requests => ran.n <= jobs /\ ran.n \in Nat
  BY <1>1, RankFacts DEF Known
<1>3. ASSUME NEW a \in Elems(resps), OwnAnswer(a) PROVE Begun
  <2>1. ran \in Requests /\ jobs <= ran.n
    BY <1>1, <1>3 DEF OwnAnswer
  <2> QED
    BY <1>1, <1>2, <2>1 DEF Begun
<1>4. ASSUME NEW r \in Elems(reqs), r \in Requests, Begun PROVE r.n = jobs
  <2>1. r.n <= jobs /\ r.n \in Nat /\ Before(ran, r) /\ ran.n = jobs
    BY <1>1, <1>4, RankFacts DEF Known, Follows, Begun
  <2> QED
    BY <1>1, <2>1 DEF Before
<1>5. ASSUME NEW r \in Elems(reqs), Own(r) PROVE r.cmd \in OwnCommands(Kind)
  BY <1>1, <1>5 DEF Own, Known
<1> QED
  BY <1>1, <1>2, <1>3, <1>4, <1>5

\* A new job has no request, run or to run, and no answer.
LEMMA NothingYet ==
  ASSUME BaseInv, Begins
  PROVE  /\ \A r \in Elems(reqs') : ~Own(r)'
         /\ \A a \in Elems(resps') : ~OwnAnswer(a)'
         /\ ~Begun'
<1>1. /\ jobs \in Nat /\ ran \in Requests \cup {NoRequest} /\ Known(ran)
      /\ \A r \in Elems(reqs) : Known(r)
      /\ \A a \in Elems(resps) : a \in Answers => ran # NoRequest /\ a.of.n <= ran.n
  BY DEF BaseInv, JobType, OrderInv, LineType
<1>2. jobs' = jobs + 1 /\ reqs' = reqs /\ resps' = resps /\ ran' = ran
  BY BeginFacts DEF BaseInv, linkVars, ghostVars
<1>3. ASSUME NEW r, Known(r), r \in Requests PROVE r.n \in Nat /\ r.n <= jobs /\ r.n # jobs + 1
  <2>1. r.n \in Nat /\ r.n <= jobs
    BY <1>3, RankFacts DEF Known
  <2> QED
    BY <1>1, <2>1
<1>4. ASSUME NEW a \in Elems(resps), a \in Answers PROVE a.of.n # jobs + 1
  <2>1. ran \in Requests /\ a.of.n <= ran.n /\ ran.n \in Nat /\ ran.n <= jobs /\ a.of.n \in Nat
    BY <1>1, <1>3, <1>4, AnswerFacts, RankFacts
  <2> QED
    BY <1>1, <2>1
<1> QED
  BY <1>1, <1>2, <1>3, <1>4 DEF Own, OwnAnswer, Begun

LEMMA SameFile ==
  ASSUME JobType, Returns \/ UploadAborted, Kind \in {"upload", "download"}
  PROVE  File' = File /\ job.kind = Kind
<1>1. job # NoJob /\ job.kind = Kind /\ File = job.file
  <2>1. UploadAborted => job.kind = "upload"
    BY DEF UploadAborted, At
  <2>2. job.kind = "upload" => job # NoJob
    BY DEF NoJob
  <2> QED
    BY <2>1, <2>2, ReturnsFacts DEF Kind, File
<1>2. CASE job.kind = "upload"
  <2>1. job \in Uploads /\ job.file \in WebFiles
    BY <1>2, JobFacts
  <2>2. CASE UploadOpened \/ UploadWrote
    <3>1. job'.file = job.file /\ job'.kind = "upload"
      BY <1>2, <2>1, <2>2 DEF UploadOpened, UploadWrote, Continue, Uploads
    <3>2. job' # NoJob
      BY <3>1 DEF NoJob
    <3> QED
      BY <1>1, <3>1, <3>2 DEF File
  <2>3. CASE UploadClosed \/ UploadFails \/ UploadAborted
    BY <1>1, <2>3 DEF UploadClosed, UploadFails, UploadAborted, End, Of, File
  <2> QED
    BY <1>2, <2>2, <2>3 DEF Returns, DownloadOpened, DownloadRead, DownloadReadFails, DownloadEnds,
       DeleteEnds, FlushOpened, FlushWrote, FlushWriteFails, FlushEnds
<1>3. CASE job.kind = "download"
  <2>1. job \in Downloads /\ job.file \in WebFiles
    BY <1>3, JobFacts
  <2>2. CASE DownloadOpened \/ DownloadRead \/ DownloadReadFails
    <3>1. job'.file = job.file /\ job'.kind = "download"
      BY <1>3, <2>1, <2>2 DEF DownloadOpened, DownloadRead, DownloadReadFails, Continue, Downloads
    <3>2. job' # NoJob
      BY <3>1 DEF NoJob
    <3> QED
      BY <1>1, <3>1, <3>2 DEF File
  <2>3. CASE DownloadEnds
    BY <1>1, <2>3 DEF DownloadEnds, End, File
  <2> QED
    BY <1>3, <2>2, <2>3 DEF Returns, UploadOpened, UploadWrote, UploadClosed, UploadFails,
       UploadAborted, At, DeleteEnds, FlushOpened, FlushWrote, FlushWriteFails, FlushEnds
<1> QED
  BY <1>1, <1>2, <1>3

-----------------------------------------------------------------------------
(* DownloadExact.                                                          *)

LEMMA ReadsFacts ==
  ASSUME NEW h, NEW f, Reads(h, f), disk' = disk, handles' = handles
  PROVE  Reads(h, f)'
BY DEF Reads

\* What is read of the file goes on where the download had come to.
LEMMA PrefixOn ==
  ASSUME NEW s \in Seq(Piece), NEW t \in Seq(Piece), Prefix(s, t), NEW a, a.of.offset = Len(s),
         PieceOf(a, t), a.data \in Seq(Piece)
  PROVE  Prefix(s \o a.data, t)
<1>1. Len(s) \in Nat /\ Len(t) \in Nat /\ Len(s) <= Len(t) /\ \A i \in 1..Len(s) : s[i] = t[i]
  BY LenProperties DEF Prefix
<1>2. CASE a.data = <<>>
  BY <1>2, ConcatEmptySeq
<1>3. CASE a.data # <<>>
  <2> DEFINE d == a.data
  <2>1. Len(s) < Len(t) /\ d = <<t[Len(s) + 1]>>
    BY <1>3 DEF PieceOf
  <2>2. Len(d) = 1 /\ d[1] = t[Len(s) + 1]
    BY <2>1
  <2>3. /\ s \o d \in Seq(Piece) /\ Len(s \o d) = Len(s) + Len(d)
        /\ \A i \in 1..(Len(s) + Len(d)) : (s \o d)[i] = IF i <= Len(s) THEN s[i] ELSE d[i - Len(s)]
    BY ConcatProperties
  <2> HIDE DEF d
  <2>4. ASSUME NEW i \in 1..(Len(s) + 1) PROVE (s \o d)[i] = t[i]
    <3>1. CASE i <= Len(s)
      BY <1>1, <2>2, <2>3, <3>1
    <3>2. CASE i = Len(s) + 1
      <4>1. i - Len(s) = 1 /\ ~(i <= Len(s)) /\ i \in 1..(Len(s) + Len(d))
        BY <1>1, <2>2, <3>2
      <4>2. (s \o d)[i] = d[i - Len(s)]
        BY <2>3, <4>1
      <4>3. (s \o d)[i] = d[1]
        BY <4>1, <4>2
      <4> QED
        BY <2>2, <3>2, <4>3
    <3>3. i <= Len(s) \/ i = Len(s) + 1
      BY <1>1
    <3> QED
      BY <3>1, <3>2, <3>3
  <2>5. Len(s \o d) = Len(s) + 1 /\ Len(s) + 1 <= Len(t)
    BY <1>1, <2>1, <2>2, <2>3
  <2>6. Prefix(s \o d, t)
    BY <2>4, <2>5 DEF Prefix
  <2> QED
    BY <2>6 DEF d
<1> QED
  BY <1>2, <1>3

LEMMA PrefixWhole ==
  ASSUME NEW s \in Seq(Piece), NEW t \in Seq(Piece), Prefix(s, t), Len(s) = Len(t)
  PROVE  s = t
BY SeqEqual DEF Prefix

\* The other requests and answers keep what is said of them.
LEMMA DownCarries ==
  ASSUME DownReqs, DownAnswers, disk' = disk, handles' = handles, ran' = ran, jobs' = jobs,
         File' = File
  PROVE  /\ (\A r \in Elems(reqs') : r \in Elems(reqs)) => DownReqs'
         /\ (\A a \in Elems(resps') : Answered(a) => a \in Elems(resps)) => DownAnswers'
<1>1. \A h, f : Reads(h, f) => Reads(h, f)'
  BY ReadsFacts
<1>2. Begun' <=> Begun
  BY DEF Begun
<1>3. \A r : Own(r)' <=> Own(r)
  BY DEF Own
<1>4. \A a : Answered(a)' <=> Answered(a)
  BY DEF Answered
<1> QED
  BY <1>1, <1>2, <1>3, <1>4 DEF DownReqs, DownAnswers

LEMMA DownStays ==
  ASSUME DownInv, job' = job, jobs' = jobs, outcome' = outcome, misread' = misread,
         disk' = disk, handles' = handles, ran' = ran,
         \A r \in Elems(reqs') : Own(r) => r \in Elems(reqs) \/ r = request,
         \A a \in Elems(resps') : Answered(a) => a \in Elems(resps),
         BaseInv, request \in Requests \/ \A r \in Elems(reqs') : r \in Elems(reqs)
  PROVE  DownInv'
<1>1. Kind' = Kind /\ File' = File /\ (Begun' <=> Begun)
  BY DEF Kind, File, Begun
<1> SUFFICES ASSUME Kind = "download", jobs \notin misread
             PROVE  DownReqs' /\ DownAnswers' /\ DownJob' /\ DownEnd'
  BY <1>1 DEF DownInv
<1>2. DownReqs /\ DownAnswers /\ DownJob /\ DownEnd
  BY DEF DownInv
<1>3. \A h, f : Reads(h, f) => Reads(h, f)'
  BY ReadsFacts
<1>4. DownAnswers'
  BY <1>1, <1>2, DownCarries
<1>5. DownJob' /\ DownEnd'
  BY <1>1, <1>2, <1>3 DEF DownJob, DownEnd
<1>6. ASSUME request \in Requests
      PROVE  IF request.cmd = "READ_OPEN" THEN request.file = File
             ELSE /\ Begun /\ Reads(request.h, File)
                  /\ request.cmd = "READ_CHUNK" => request.offset <= Len(disk[File])
  <2>1. LineType /\ JobType /\ OrderInv
    BY DEF BaseInv
  <2>2. Wants(request)
    BY <1>6, <2>1, Newest
  <2>3. job # NoJob /\ job.kind = "download" /\ File = job.file
    BY <2>1, <2>2, WantsFacts DEF Kind, File
  <2>4. job.step \in {"open", "data", "close"}
    BY <2>1, <2>3, JobFacts
  <2>5. CASE job.step = "open"
    BY <2>2, <2>3, <2>5 DEF Wants
  <2>6. CASE job.step # "open"
    <3>1. Begun /\ Reads(job.h, File) /\ Len(job.got) <= Len(disk[File])
      BY <1>2, <2>3, <2>6 DEF DownJob, Prefix
    <3>2. \/ request = [cmd |-> "READ_CHUNK", n |-> jobs, h |-> job.h, offset |-> Len(job.got)]
          \/ request = [cmd |-> "READ_CLOSE", n |-> jobs, h |-> job.h]
      BY <2>2, <2>3, <2>4, <2>6 DEF Wants
    <3> QED
      BY <3>1, <3>2
  <2> QED
    BY <2>5, <2>6
<1>7. DownReqs'
  <2> SUFFICES ASSUME NEW r \in Elems(reqs'), Own(r)
               PROVE  IF r.cmd = "READ_OPEN" THEN r.file = File'
                      ELSE /\ Begun' /\ Reads(r.h, File)'
                           /\ r.cmd = "READ_CHUNK" => r.offset <= Len(disk[File])'
    BY DEF DownReqs, Own
  <2>1. CASE r \in Elems(reqs)
    BY <1>1, <1>2, <1>3, <2>1 DEF DownReqs
  <2>2. CASE r = request /\ request \in Requests
    BY <1>1, <1>3, <1>6, <2>2
  <2> QED
    BY <2>1, <2>2
<1> QED
  BY <1>4, <1>5, <1>7

\* A call of the download comes back.
LEMMA DownReturns ==
  ASSUME BaseInv, DownReqs, DownAnswers, DownJob, Kind = "download", Returns, jobs \notin misread'
  PROVE  DownReqs' /\ DownAnswers' /\ DownJob' /\ DownEnd'
<1>1. LineType /\ JobType /\ OrderInv
  BY DEF BaseInv
<1>2. Returned /\ (ReadAnswer \/ ReturnFailure) /\ job # NoJob
  BY ReturnsFacts
<1>3. /\ reqs' = reqs /\ Dropped /\ disk' = disk /\ handles' = handles /\ jobs' = jobs /\ ran' = ran
      /\ request \in Requests
      /\ ReadAnswer => GotAnswer(Head(resps))
  BY <1>1, <1>2, CameBack DEF srvVars
<1>4. File' = File /\ job.kind = "download" /\ File = job.file
  BY <1>1, <1>2, SameFile DEF File
<1>5. DownReqs' /\ DownAnswers'
  BY <1>1, <1>3, <1>4, DownCarries, DropFacts
<1>6. /\ job \in Downloads /\ job.file \in WebFiles /\ job.h \in Nat /\ job.size \in Nat
      /\ job.got \in Seq(Piece) /\ job.step \in {"open", "data", "close"}
  BY <1>1, <1>4, JobFacts
<1>7. Wants(request)
  BY <1>1, <1>3, Newest
<1>8. ASSUME ReadAnswer, Head(resps).status = "OK"
      PROVE  /\ Answered(Head(resps)) /\ Head(resps) \in Elems(resps) /\ Head(resps).of = request
             /\ Head(resps).cmd = request.cmd /\ Head(resps) \in Answers /\ Begun
  <2>1. GotAnswer(Head(resps)) /\ Head(resps).of = request
    BY <1>3, <1>8 DEF GotAnswer
  <2>2. request.n = jobs
    BY <1>1, <1>7, WantsFacts
  <2> QED
    BY <1>8, <2>1, <2>2, OwnFacts DEF GotAnswer, Answered, OwnAnswer
<1>9. \A h, f : Reads(h, f) => Reads(h, f)'
  BY <1>3, ReadsFacts
<1>10. Begun' <=> Begun
  BY <1>3 DEF Begun
<1>11. CASE DownloadOpened
  <2> DEFINE a == Head(resps)
  <2>1. /\ ReadAnswer /\ a.status = "OK" /\ request.cmd = "READ_OPEN" /\ outcome' = outcome
        /\ job' = [job EXCEPT !.h = a.h, !.size = a.size,
                              !.step = IF a.size > 0 THEN "data" ELSE "close"]
    BY <1>11 DEF DownloadOpened, Succeeds, Continue
  <2>2. Answered(a) /\ a \in Elems(resps) /\ a.cmd = "READ_OPEN" /\ Begun /\ a \in Answers
    BY <1>8, <2>1
  <2> HIDE DEF a
  <2>3. Reads(a.h, File) /\ a.size = Len(disk[File])
    BY <2>2 DEF DownAnswers
  <2>4. job.step = "open"
    BY <1>4, <1>7, <2>1 DEF Wants
  <2>5. job.got = <<>>
    BY <1>2, <2>4 DEF DownJob
  <2>6. /\ job'.kind = "download" /\ job'.step \in {"data", "close"} /\ job'.h = a.h
        /\ job'.size = a.size /\ job'.got = <<>>
    BY <1>6, <2>1, <2>5 DEF Downloads
  <2>7. Prefix(<<>>, disk[File])
    <3>1. File \in DOMAIN disk
      BY <2>3 DEF Reads
    <3>2. Len(disk[File]) \in Nat /\ Len(<<>>) = 0
      BY <3>1, LenProperties DEF BaseInv, CardType
    <3> QED
      BY <3>2 DEF Prefix
  <2>8. job' # NoJob
    BY <2>6 DEF NoJob
  <2>9. DownJob'
    BY <1>3, <1>4, <1>9, <1>10, <2>2, <2>3, <2>6, <2>7 DEF DownJob
  <2> QED
    BY <1>5, <2>8, <2>9 DEF DownEnd
<1>12. CASE DownloadRead
  <2> DEFINE a    == Head(resps)
             next == [job EXCEPT !.got = @ \o a.data, !.eof = a.eof]
  <2>1. /\ ReadAnswer /\ a.status = "OK" /\ request.cmd = "READ_CHUNK" /\ outcome' = outcome
        /\ job' = [next EXCEPT !.step = IF More(next, a.data) THEN "data" ELSE "close"]
    BY <1>12 DEF DownloadRead, Succeeds, Continue
  <2>2. Answered(a) /\ a \in Elems(resps) /\ a.cmd = "READ_CHUNK" /\ a.of = request
        /\ Begun /\ a \in Answers
    BY <1>8, <2>1
  <2> HIDE DEF a
  <2>3. job.step = "data" /\ request.offset = Len(job.got)
    BY <1>4, <1>7, <2>1 DEF Wants
  <2>4. Reads(job.h, File) /\ job.size = Len(disk[File]) /\ Prefix(job.got, disk[File])
    BY <1>2, <2>3 DEF DownJob
  <2>5. PieceOf(a, disk[File]) /\ a.data \in Seq(Piece) /\ a.eof \in BOOLEAN
    BY <2>1, <2>2, AnswerFacts DEF DownAnswers
  <2>6. disk[File] \in Seq(Piece)
    BY <2>4 DEF Reads, BaseInv, CardType
  <2>7. Prefix(job.got \o a.data, disk[File])
    BY <1>6, <2>2, <2>3, <2>4, <2>5, <2>6, PrefixOn
  <2>8. /\ next.kind = "download" /\ next.h = job.h /\ next.size = job.size
        /\ next.got = job.got \o a.data
        /\ DOMAIN next = {"kind", "file", "step", "h", "size", "eof", "got"}
    BY <1>4, <1>6 DEF Downloads
  <2> HIDE DEF next
  <2>9. /\ job'.kind = "download" /\ job'.step \in {"data", "close"} /\ job'.h = job.h
        /\ job'.size = job.size /\ job'.got = job.got \o a.data
    BY <2>1, <2>8
  <2>10. job' # NoJob
    BY <2>9 DEF NoJob
  <2>11. DownJob'
    BY <1>3, <1>4, <1>9, <1>10, <2>2, <2>4, <2>7, <2>9 DEF DownJob
  <2> QED
    BY <1>5, <2>10, <2>11 DEF DownEnd
<1>13. CASE DownloadReadFails
  <2>1. job' = [job EXCEPT !.step = "close"] /\ request.cmd = "READ_CHUNK"
    BY <1>13 DEF DownloadReadFails, Continue, Fails
  <2>2. job.step = "data"
    BY <1>4, <1>7, <2>1 DEF Wants
  <2>3. Begun /\ Reads(job.h, File) /\ job.size = Len(disk[File]) /\ Prefix(job.got, disk[File])
    BY <1>2, <2>2 DEF DownJob
  <2>4. /\ job'.kind = "download" /\ job'.step = "close" /\ job'.h = job.h
        /\ job'.size = job.size /\ job'.got = job.got
    BY <1>6, <2>1 DEF Downloads
  <2>5. job' # NoJob
    BY <2>4 DEF NoJob
  <2>6. DownJob'
    BY <1>3, <1>4, <1>9, <1>10, <2>3, <2>4 DEF DownJob
  <2> QED
    BY <1>5, <2>5, <2>6 DEF DownEnd
<1>14. CASE DownloadEnds
  <2>1. /\ job' = NoJob
        /\ outcome' = [kind |-> "download", n |-> jobs, file |-> job.file, got |-> job.got,
                       ok |-> job.step = "close" /\ Len(job.got) = job.size]
    BY <1>14 DEF DownloadEnds, End
  <2>2. ASSUME outcome'.ok PROVE Begun /\ File \in DOMAIN disk /\ job.got = disk[File]
    <3>1. job.step = "close" /\ Len(job.got) = job.size
      BY <2>1, <2>2
    <3>2. Begun /\ Reads(job.h, File) /\ job.size = Len(disk[File]) /\ Prefix(job.got, disk[File])
      BY <1>2, <3>1 DEF DownJob
    <3>3. File \in DOMAIN disk /\ disk[File] \in Seq(Piece)
      BY <3>2 DEF Reads, BaseInv, CardType
    <3> QED
      BY <1>6, <3>1, <3>2, <3>3, PrefixWhole
  <2>3. DownEnd'
    BY <1>3, <1>4, <1>10, <2>1, <2>2 DEF DownEnd
  <2> QED
    BY <1>5, <2>1, <2>3 DEF DownJob
<1> QED
  BY <1>4, <1>11, <1>12, <1>13, <1>14 DEF Returns, UploadOpened, UploadWrote, UploadClosed, UploadFails,
     DeleteEnds, FlushOpened, FlushWrote, FlushWriteFails, FlushEnds

\* The STM32 runs a request of the download: the file stays as it is.
LEMMA DownRuns ==
  ASSUME CardType, NEW r \in Requests, NEW a, Effect(r, a), a.cmd = r.cmd, r.cmd \in Reading,
         r.cmd = "READ_OPEN" => r.file = File,
         r.cmd # "READ_OPEN" => Reads(r.h, File),
         r.cmd = "READ_CHUNK" => r.offset <= Len(disk[File]),
         File' = File
  PROVE  /\ disk' = disk
         /\ \A h : Reads(h, File) => Reads(h, File)'
         /\ a.status = "OK" /\ a.cmd = "READ_OPEN" => Reads(a.h, File)' /\ a.size = Len(disk[File])
         /\ a.status = "OK" /\ a.cmd = "READ_CHUNK" => PieceOf(a, disk[File])
<1>1. handles = [h \in HandleIds |-> handles[h]]
  BY DEF CardType
<1>2. ASSUME NEW g \in HandleIds, NEW x, handles' = [handles EXCEPT ![g] = x], disk' = disk,
             File \in DOMAIN disk => x = Closed \/ (x.mode = "read" /\ x.data = disk[File])
      PROVE  \A h : Reads(h, File) => Reads(h, File)'
  BY <1>1, <1>2 DEF Reads
<1>3. CASE Refused(a)
  BY <1>3 DEF Refused, srvVars, Reads
<1>4. CASE OpenedToRead(r, a)
  <2> DEFINE x == [mode |-> "read", file |-> r.file, data |-> disk[r.file], pos |-> 0]
  <2>1. /\ a.h \in HandleIds /\ handles' = [handles EXCEPT ![a.h] = x] /\ disk' = disk
        /\ r.file = File /\ File \in DOMAIN disk /\ a.size = Len(disk[File])
        /\ a.cmd = "READ_OPEN"
    BY <1>4 DEF OpenedToRead
  <2>2. x.mode = "read" /\ x.data = disk[File]
    BY <2>1
  <2> HIDE DEF x
  <2>3. \A h : Reads(h, File) => Reads(h, File)'
    BY <1>2, <2>1, <2>2
  <2>4. Reads(a.h, File)'
    BY <1>1, <2>1, <2>2 DEF Reads
  <2> QED
    BY <2>1, <2>3, <2>4
<1>5. CASE HasRead(r, a)
  <2>1. /\ r.h \in HandleIds /\ handles[r.h] # Closed /\ disk' = disk /\ r.cmd = "READ_CHUNK"
        /\ r.offset <= Len(handles[r.h].data) => PieceOf(a, handles[r.h].data)
    BY <1>5 DEF HasRead, Used
  <2>2. PICK p : handles' = [handles EXCEPT ![r.h].pos = p]
    BY <1>5 DEF HasRead
  <2> DEFINE x == [handles[r.h] EXCEPT !.pos = p]
  <2>3. handles[r.h].mode = "read" /\ handles[r.h].data = disk[File]
    BY <2>1 DEF Reads
  <2>4. handles' = [handles EXCEPT ![r.h] = x]
    BY <2>2
  <2>5. x.mode = "read" /\ x.data = disk[File]
    BY <2>1, <2>3, HandleFacts DEF Opens
  <2> HIDE DEF x
  <2>6. \A h : Reads(h, File) => Reads(h, File)'
    BY <1>2, <2>1, <2>4, <2>5
  <2> QED
    BY <2>1, <2>3, <2>6
<1>6. CASE HasClosed(r, a)
  <2>1. /\ r.h \in HandleIds /\ handles[r.h] # Closed /\ r.cmd = "READ_CLOSE"
        /\ SyncHandle(r.h) /\ handles' = [handles EXCEPT ![r.h] = Closed]
    BY <1>6 DEF HasClosed, CloseHandle, Used, Reading
  <2>2. handles[r.h].mode = "read"
    BY <2>1 DEF Reads
  <2>3. disk' = disk
    BY <2>1, <2>2, KeptOrNot
  <2>4. \A h : Reads(h, File) => Reads(h, File)'
    BY <1>2, <2>1, <2>3
  <2> QED
    BY <2>1, <2>3, <2>4
<1>7. CASE OpenedToWrite(r, a) \/ HasWritten(r, a) \/ HasSynced(r, a) \/ HasDeleted(r, a)
  BY <1>7 DEF OpenedToWrite, HasWritten, HasSynced, HasDeleted, Reading
<1> QED
  BY <1>3, <1>4, <1>5, <1>6, <1>7 DEF Effect

LEMMA DownServes ==
  ASSUME BaseInv, DownReqs, DownAnswers, DownJob, DownEnd, Kind = "download", StmServe
  PROVE  DownReqs' /\ DownAnswers' /\ DownJob' /\ DownEnd'
<1> DEFINE r == Head(reqs)
<1>1. LineType /\ CardType /\ JobType /\ OrderInv /\ resps \in Seq(Answers \cup {FrameError})
  BY DEF BaseInv, LineType
<1>2. PICK a : /\ Said(r, a) /\ Effect(r, a) /\ reqs # <<>> /\ r \in Requests
               /\ reqs' = Tail(reqs) /\ ran' = r /\ UNCHANGED cliVars
  BY <1>1, Served
<1>3. /\ r \in Elems(reqs) /\ Follows(r, ran) /\ Known(r)
      /\ \A x \in Elems(reqs') : x \in Elems(reqs)
  BY <1>2, HeadFacts
<1>4. /\ a \in Answers /\ a.of = r /\ a.cmd = r.cmd
      /\ resps' = resps \/ resps' = Append(resps, a)
  BY <1>2, AnswerFacts DEF Said
<1>5. \A b \in Elems(resps') : b \in Elems(resps) \/ b = a
  BY <1>1, <1>2, SaidElems
<1>6. job' = job /\ jobs' = jobs /\ outcome' = outcome /\ File' = File
  BY <1>2 DEF cliVars, File
<1> HIDE DEF r
<1>7. CASE r.n # jobs
  <2>1. ~Begun /\ ~Begun'
    BY <1>2, <1>3, <1>6, <1>7, OwnFacts DEF Begun
  <2>2. \A b \in Elems(resps') : ~Answered(b)
    BY <1>4, <1>5, <1>7, <2>1, OwnFacts DEF Answered, OwnAnswer
  <2>3. DownReqs' /\ DownAnswers'
    BY <1>3, <1>6, <2>1, <2>2 DEF DownReqs, DownAnswers, Own, Answered
  <2>4. DownJob' /\ DownEnd'
    BY <1>6, <2>1 DEF DownJob, DownEnd
  <2> QED
    BY <2>3, <2>4
<1>8. CASE r.n = jobs
  <2>1. Own(r) /\ r.cmd \in Reading
    BY <1>2, <1>3, <1>8, OwnFacts DEF Own, OwnCommands
  <2>2. /\ r.cmd = "READ_OPEN" => r.file = File
        /\ r.cmd # "READ_OPEN" => Reads(r.h, File)
        /\ r.cmd = "READ_CHUNK" => r.offset <= Len(disk[File])
    BY <1>3, <2>1 DEF DownReqs
  <2>3. /\ disk' = disk
        /\ \A h : Reads(h, File) => Reads(h, File)'
        /\ a.status = "OK" /\ a.cmd = "READ_OPEN" => Reads(a.h, File)' /\ a.size = Len(disk[File])
        /\ a.status = "OK" /\ a.cmd = "READ_CHUNK" => PieceOf(a, disk[File])
    BY <1>1, <1>2, <1>4, <1>6, <2>1, <2>2, DownRuns
  <2>4. Begun'
    BY <1>2, <1>6, <1>8 DEF Begun
  <2>5. DownReqs'
    BY <1>3, <1>6, <2>3, <2>4 DEF DownReqs, Own
  <2>6. DownAnswers'
    <3> SUFFICES ASSUME NEW b \in Elems(resps'), Answered(b)
                 PROVE  /\ b.cmd = "READ_OPEN" => Reads(b.h, File)' /\ b.size = Len(disk[File])
                        /\ b.cmd = "READ_CHUNK" => PieceOf(b, disk[File])
      BY <1>6, <2>3 DEF DownAnswers, Answered
    <3>1. CASE b = a
      BY <2>3, <3>1 DEF Answered
    <3>2. CASE b \in Elems(resps)
      BY <2>3, <3>2 DEF DownAnswers
    <3> QED
      BY <1>5, <3>1, <3>2
  <2>7. DownJob' /\ DownEnd'
    BY <1>6, <2>3, <2>4 DEF DownJob, DownEnd
  <2> QED
    BY <2>5, <2>6, <2>7
<1> QED
  BY <1>7, <1>8

LEMMA DownNext ==
  ASSUME BaseInv, DownInv, [Next]_vars
  PROVE  DownInv'
<1>1. LineType /\ CardType /\ JobType /\ OrderInv
  BY DEF BaseInv
<1>2. CASE Asks
  <2>1. PICK r : Call(r)
    BY <1>2, AskFacts
  <2>2. /\ reqs' = reqs /\ resps' = resps
        /\ job' = job /\ jobs' = jobs /\ outcome' = outcome /\ misread' = misread
        /\ disk' = disk /\ handles' = handles /\ ran' = ran
    BY <2>1 DEF Call, Request, srvVars, cliVars, ghostVars
  <2> QED
    BY <2>2, DownStays
<1>3. CASE Begins
  <2>1. /\ \A r \in Elems(reqs') : ~Own(r)'
        /\ \A a \in Elems(resps') : ~OwnAnswer(a)'
        /\ ~Begun'
    BY <1>3, NothingYet
  <2>2. DownReqs' /\ DownAnswers'
    BY <2>1 DEF DownReqs, DownAnswers, Answered, OwnAnswer
  <2>3. Kind' = "download" => DownJob' /\ DownEnd'
    BY <1>1, <1>3, BeginFacts DEF Kind, DownJob, DownEnd
  <2> QED
    BY <2>2, <2>3 DEF DownInv
<1>4. CASE Returns
  <2> SUFFICES ASSUME Kind' = "download", jobs' \notin misread'
               PROVE  DownReqs' /\ DownAnswers' /\ DownJob' /\ DownEnd'
    BY DEF DownInv
  <2>1. Returned /\ (ReadAnswer \/ ReturnFailure)
    BY <1>4, ReturnsFacts
  <2>2. /\ jobs' = jobs
        /\ ReadAnswer => GotAnswer(Head(resps))
        /\ ~ReadAnswer => GotNone
    BY <1>1, <2>1, CameBack
  <2>3. Kind = "download"
    BY <1>1, <1>4, <2>2, Turns
  <2>4. jobs \notin misread /\ jobs \notin misread'
    BY <2>2 DEF GotAnswer, GotNone
  <2>5. DownReqs /\ DownAnswers /\ DownJob
    BY <2>3, <2>4 DEF DownInv
  <2> QED
    BY <1>4, <2>3, <2>4, <2>5, DownReturns
<1>5. CASE UploadAborted
  <2>1. jobs' = jobs /\ job.kind = "upload" /\ job # NoJob
    BY <1>5 DEF UploadAborted, At, NoJob
  <2>2. Kind' = "upload"
    BY <1>1, <1>5, <2>1, Turns DEF Kind
  <2> QED
    BY <2>2 DEF DownInv
<1>6. CASE StmServe
  <2>1. jobs' = jobs /\ misread' = misread /\ Kind' = Kind
    BY <1>1, <1>6, Served DEF cliVars, Kind
  <2> QED
    BY <1>6, <2>1, DownServes DEF DownInv
<1>7. CASE StmGarbled
  <2>1. /\ job' = job /\ jobs' = jobs /\ outcome' = outcome /\ misread' = misread
        /\ disk' = disk /\ handles' = handles /\ ran' = ran
        /\ \A x \in Elems(reqs') : x \in Elems(reqs)
        /\ \A b \in Elems(resps') : b \in Elems(resps) \/ b = FrameError
    BY <1>1, <1>7, GarbledFacts DEF srvVars, cliVars, ghostVars
  <2>2. ~Answered(FrameError)
    BY AnswerFacts DEF Answered
  <2> QED
    BY <2>1, <2>2, DownStays
<1>8. CASE LinkStep
  <2>1. /\ job' = job /\ jobs' = jobs /\ outcome' = outcome /\ misread' = misread
        /\ disk' = disk /\ handles' = handles /\ ran' = ran
        /\ request \in Requests
    BY <1>1, <1>8, LinkMoves DEF srvVars, cliVars, ghostVars
  <2>2. /\ \A x \in Elems(reqs') : x \in Elems(reqs) \/ x = request \/ x = Garbled
        /\ \A a \in Elems(resps') : a \in Elems(resps)
    BY <1>1, <1>8, LinkElems
  <2>3. ~Own(Garbled)
    BY RequestFacts DEF Own
  <2> QED
    BY <2>1, <2>2, <2>3, DownStays
<1>9. CASE UNCHANGED vars
  <2>1. /\ reqs' = reqs /\ resps' = resps
        /\ job' = job /\ jobs' = jobs /\ outcome' = outcome /\ misread' = misread
        /\ disk' = disk /\ handles' = handles /\ ran' = ran
    BY <1>9 DEF vars, linkVars, srvVars, cliVars, ghostVars
  <2> QED
    BY <2>1, DownStays
<1> QED
  BY <1>2, <1>3, <1>4, <1>5, <1>6, <1>7, <1>8, <1>9, NextParts

\* A download the browser takes for complete is the file, however often its
\* requests were repeated, if no answer was taken for another.
THEOREM DownloadIsExact == Spec => []DownloadExact
<1>1. Init => BaseInv /\ DownInv
  <2> SUFFICES ASSUME Init PROVE Kind = "none"
    BY BaseInit DEF DownInv
  <2> QED
    BY DEF Init, Kind, NoJob
<1>2. BaseInv /\ DownInv /\ [Next]_vars => BaseInv' /\ DownInv'
  BY BaseNext, DownNext
<1>3. BaseInv /\ DownInv => DownloadExact
  <2> SUFFICES ASSUME BaseInv, DownInv, outcome.kind = "download", outcome.ok,
                      outcome.n \notin misread
               PROVE  outcome.file \in DOMAIN disk /\ disk[outcome.file] = outcome.got
    BY DEF DownloadExact
  <2>1. outcome # NoJob
    BY DEF NoJob
  <2>2. job = NoJob /\ outcome.n = jobs
    BY <2>1 DEF BaseInv, JobType
  <2>3. Kind = "download" /\ File = outcome.file
    BY <2>2 DEF Kind, File
  <2>4. DownEnd
    BY <2>2, <2>3 DEF DownInv
  <2> QED
    BY <2>2, <2>3, <2>4 DEF DownEnd
<1> QED
  BY <1>1, <1>2, <1>3, PTL DEF Spec

-----------------------------------------------------------------------------
(* LogKept.                                                                *)

LEMMA PutAtEnd ==
  ASSUME NEW data \in Seq(Piece), NEW piece \in Piece, NEW pos \in 0..Len(data)
  PROVE  pos = Len(data) =>
           /\ Len(Put(data, pos, piece)) = Len(data) + 1
           /\ \A i \in 1..Len(Put(data, pos, piece)) :
                Put(data, pos, piece)[i] = IF i = Len(data) + 1 THEN piece ELSE data[i]
<1> DEFINE new == Put(data, pos, piece)
<1>1. Len(data) \in Nat
  BY LenProperties
<1>2. /\ Len(new) = IF pos < Len(data) THEN Len(data) ELSE pos + 1
      /\ \A i \in 1..Len(new) : new[i] = IF i = pos + 1 THEN piece ELSE data[i]
  BY PutFacts
<1> HIDE DEF new
<1>3. pos = Len(data) =>
        /\ Len(new) = Len(data) + 1
        /\ \A i \in 1..Len(new) : new[i] = IF i = Len(data) + 1 THEN piece ELSE data[i]
  BY <1>1, <1>2
<1> QED
  BY <1>3 DEF new

\* A handle the log writes stays as it is under what is about other handles,
\* and grows under what is written through it.
LEMMA LogsOn ==
  ASSUME CardType, NEW r \in Requests, NEW a, Effect(r, a), NEW h, Logs(h),
         r.cmd \in {"READ_CHUNK", "READ_CLOSE", "WRITE_CLOSE"} => r.h # h
  PROVE  /\ Logs(h)' /\ \A piece : Has(h, piece) => Has(h, piece)'
         /\ HasWritten(r, a) /\ r.h = h => Has(h, r.piece)'
<1>1. h \in HandleIds /\ handles[h].mode = "write" /\ handles[h] # Closed
  BY DEF Logs, Closed
<1>2. handles = [g \in HandleIds |-> handles[g]]
  BY DEF CardType
<1>3. ASSUME handles'[h] = handles[h], ~(HasWritten(r, a) /\ r.h = h)
      PROVE  /\ Logs(h)' /\ \A piece : Has(h, piece) => Has(h, piece)'
             /\ HasWritten(r, a) /\ r.h = h => Has(h, r.piece)'
  BY <1>3 DEF Logs, Has
<1>4. CASE HasWritten(r, a) /\ r.h = h
  <2> DEFINE f   == handles[h]
             new == Put(f.data, f.pos, r.piece)
             x   == [mode |-> "write", file |-> f.file, data |-> new, pos |-> f.pos + 1]
  <2>1. handles' = [handles EXCEPT ![h] = x] /\ r.cmd = "WRITE_CHUNK"
    BY <1>4 DEF HasWritten
  <2>2. /\ f.data \in Seq(Piece) /\ f.pos = Len(f.data) /\ Len(f.data) \in Nat /\ f.file = LogFile
        /\ f.pos \in 0..Len(f.data)
    BY <1>1, HandleFacts DEF Logs
  <2>3. r.piece \in Piece
    BY <2>1, RequestFacts
  <2>4. /\ Len(new) = Len(f.data) + 1
        /\ \A i \in 1..Len(new) : new[i] = IF i = Len(f.data) + 1 THEN r.piece ELSE f.data[i]
    <3>1. f.data \in Seq(Piece) /\ f.pos \in 0..Len(f.data) /\ f.pos = Len(f.data)
      BY <2>2
    <3> HIDE DEF f
    <3> QED
      BY <2>3, <3>1, PutAtEnd
  <2>5. handles'[h] = x
    BY <1>1, <1>2, <2>1
  <2>6. x.mode = "write" /\ x.file = f.file /\ x.data = new /\ x.pos = f.pos + 1
    OBVIOUS
  <2> HIDE DEF new, x
  <2>7. Logs(h)'
    BY <1>1, <2>2, <2>4, <2>5, <2>6 DEF Logs
  <2>8. ASSUME NEW piece, Has(h, piece) PROVE Has(h, piece)'
    <3>1. PICK i \in 1..Len(f.data) : f.data[i] = piece
      BY <2>8 DEF Has
    <3>2. i \in 1..Len(new) /\ i # Len(f.data) + 1
      BY <2>2, <2>4
    <3>3. new[i] = piece
      BY <2>4, <3>1, <3>2
    <3> QED
      BY <2>5, <2>6, <3>2, <3>3 DEF Has
  <2>9. Has(h, r.piece)'
    <3>1. Len(f.data) + 1 \in 1..Len(new)
      BY <2>2, <2>4
    <3>2. new[Len(f.data) + 1] = r.piece
      BY <2>4, <3>1
    <3> QED
      BY <2>5, <2>6, <3>1, <3>2 DEF Has
  <2> QED
    BY <2>7, <2>8, <2>9
<1>5. CASE ~(HasWritten(r, a) /\ r.h = h)
  <2>1. ASSUME NEW g \in HandleIds, NEW x, g # h, handles' = [handles EXCEPT ![g] = x]
        PROVE  handles'[h] = handles[h]
    <3>1. \A k \in HandleIds : handles'[k] = IF k = g THEN x ELSE handles[k]
      BY <1>2, <2>1
    <3> QED
      BY <1>1, <2>1, <3>1
  <2>2. CASE Refused(a) \/ HasSynced(r, a) \/ HasDeleted(r, a)
    BY <1>3, <1>5, <2>2 DEF Refused, HasSynced, HasDeleted, srvVars
  <2>3. CASE OpenedToRead(r, a) \/ OpenedToWrite(r, a)
    <3>1. a.h \in HandleIds /\ a.h # h
      BY <1>1, <2>3 DEF OpenedToRead, OpenedToWrite
    <3>2. \E x : handles' = [handles EXCEPT ![a.h] = x]
      BY <2>3 DEF OpenedToRead, OpenedToWrite
    <3> QED
      BY <1>3, <1>5, <2>1, <3>1, <3>2
  <2>4. CASE HasRead(r, a)
    <3>1. r.h \in HandleIds /\ r.h # h
      BY <2>4 DEF HasRead, Used
    <3>2. PICK p : handles' = [handles EXCEPT ![r.h].pos = p]
      BY <2>4 DEF HasRead
    <3>3. handles' = [handles EXCEPT ![r.h] = [handles[r.h] EXCEPT !.pos = p]]
      BY <3>2
    <3> QED
      BY <1>3, <1>5, <2>1, <3>1, <3>3
  <2>5. CASE HasClosed(r, a)
    <3>1. r.h \in HandleIds /\ r.h # h /\ handles' = [handles EXCEPT ![r.h] = Closed]
      BY <2>5 DEF HasClosed, CloseHandle, Used
    <3> QED
      BY <1>3, <1>5, <2>1, <3>1
  <2>6. CASE HasWritten(r, a)
    <3>1. r.h \in HandleIds /\ r.h # h
      BY <1>5, <2>6 DEF HasWritten, Used
    <3>2. \E x : handles' = [handles EXCEPT ![r.h] = x]
      BY <2>6 DEF HasWritten
    <3> QED
      BY <1>3, <1>5, <2>1, <3>1, <3>2
  <2> QED
    BY <1>3, <1>5, <2>2, <2>3, <2>4, <2>5, <2>6 DEF Effect
<1> QED
  BY <1>4, <1>5

LEMMA LogStays ==
  ASSUME BaseInv, LogInv, job' = job, jobs' = jobs, outcome' = outcome, log' = log,
         misread' = misread, handles' = handles,
         \A r \in Elems(reqs') : r \in Requests => r \in Elems(reqs) \/ r = request,
         \A a \in Elems(resps') : Answered(a) => a \in Elems(resps)
  PROVE  LogInv'
<1>1. LineType /\ JobType /\ OrderInv
  BY DEF BaseInv
<1>2. Kind' = Kind
  BY DEF Kind
<1> SUFFICES ASSUME misread = {} PROVE LogHandle' /\ LogReqs' /\ LogAnswers' /\ LogJob'
  BY DEF LogInv
<1>3. LogHandle /\ LogReqs /\ LogAnswers /\ LogJob
  BY DEF LogInv
<1>4. ASSUME request \in Requests PROVE Elsewhere(request) /\ OfTheLog(request)
  <2>1. Wants(request)
    BY <1>1, <1>4, Newest
  <2>2. job # NoJob /\ Kind = job.kind
    BY <1>1, <2>1, WantsFacts DEF Kind
  <2>3. CASE job.kind = "upload"
    BY <1>3, <2>1, <2>2, <2>3 DEF Wants, Elsewhere, OfTheLog, LogJob
  <2>4. CASE job.kind = "download"
    BY <1>3, <2>1, <2>2, <2>4 DEF Wants, Elsewhere, OfTheLog, LogJob
  <2>5. CASE job.kind = "delete"
    BY <1>3, <2>1, <2>2, <2>5 DEF Wants, Elsewhere, OfTheLog, LogJob
  <2>6. CASE job.kind = "log"
    BY <1>3, <2>1, <2>2, <2>6 DEF Wants, Elsewhere, OfTheLog, LogJob
  <2> QED
    BY <1>1, <2>2, <2>3, <2>4, <2>5, <2>6, JobFacts
<1>5. LogReqs'
  <2> SUFFICES ASSUME NEW r \in Elems(reqs') PROVE Elsewhere(r)' /\ OfTheLog(r)'
    BY DEF LogReqs
  <2>1. CASE r \in Requests
    BY <1>2, <1>3, <1>4, <2>1 DEF LogReqs, Elsewhere, OfTheLog, Own
  <2>2. CASE r \notin Requests
    BY <2>2 DEF Elsewhere, OfTheLog, Own
  <2> QED
    BY <2>1, <2>2
<1>6. LogAnswers'
  BY <1>2, <1>3 DEF LogAnswers, Answered, Logs, Has
<1>7. LogHandle' /\ LogJob'
  BY <1>3 DEF LogHandle, LogJob, Logs, Has
<1> QED
  BY <1>5, <1>6, <1>7

LEMMA LogServes ==
  ASSUME BaseInv, LogHandle, LogReqs, LogAnswers, LogJob, StmServe
  PROVE  LogHandle' /\ LogReqs' /\ LogAnswers' /\ LogJob'
<1>1. LineType /\ CardType /\ JobType
  BY DEF BaseInv
<1>0. PICK r : r = Head(reqs)
  OBVIOUS
<1>2. PICK a : /\ Said(r, a) /\ Effect(r, a) /\ reqs # <<>> /\ r \in Requests
               /\ reqs' = Tail(reqs) /\ ran' = r /\ UNCHANGED cliVars
  BY <1>0, <1>1, Served
<1>3. r \in Elems(reqs) /\ Follows(r, ran) /\ \A x \in Elems(reqs') : x \in Elems(reqs)
  BY <1>0, <1>2, HeadFacts
<1>4. a \in Answers /\ a.of = r /\ a.cmd = r.cmd
  BY <1>2, AnswerFacts DEF Said
<1>5. \A b \in Elems(resps') : b \in Elems(resps) \/ b = a
  BY <1>1, <1>2, SaidElems
<1>6. job' = job /\ jobs' = jobs /\ outcome' = outcome /\ log' = log /\ Kind' = Kind
  BY <1>2 DEF cliVars, Kind
<1>7. Elsewhere(r) /\ OfTheLog(r)
  BY <1>3 DEF LogReqs
<1>8. ASSUME log.open
      PROVE  /\ Logs(log.h) /\ Logs(log.h)' /\ \A piece : Has(log.h, piece) => Has(log.h, piece)'
             /\ HasWritten(r, a) /\ r.h = log.h => Has(log.h, r.piece)'
  <2>1. PICK h : h = log.h
    OBVIOUS
  <2>2. Logs(h) /\ (r.cmd \in {"READ_CHUNK", "READ_CLOSE", "WRITE_CLOSE"} => r.h # h)
    BY <1>2, <1>7, <1>8, <2>1 DEF LogHandle, Elsewhere
  <2>3. /\ Logs(h)' /\ \A piece : Has(h, piece) => Has(h, piece)'
        /\ HasWritten(r, a) /\ r.h = h => Has(h, r.piece)'
    BY <1>1, <1>2, <2>2, LogsOn
  <2>4. log'.h = h
    BY <1>6, <2>1
  <2>5. Logs(log.h)'
    BY <2>3, <2>4 DEF Logs
  <2>6. \A piece : Has(log.h, piece)' <=> Has(h, piece)'
    BY <2>4 DEF Has
  <2> QED
    BY <2>1, <2>2, <2>3, <2>5, <2>6
<1>9. LogHandle'
  BY <1>6, <1>8 DEF LogHandle
<1>10. LogReqs' /\ LogJob'
  BY <1>3, <1>6 DEF LogReqs, LogJob, Elsewhere, OfTheLog, Own
<1>11. ASSUME NEW b \in Elems(resps), Answered(b)
       PROVE  IF Kind = "log"
              THEN /\ b.cmd = "WRITE_OPEN" => Logs(b.h)'
                   /\ b.cmd = "WRITE_CHUNK" => log.open /\ Has(log.h, b.of.piece)'
              ELSE b.cmd \in {"READ_OPEN", "WRITE_OPEN"} /\ log.open => b.h # log.h
  <2>1. CASE Kind # "log"
    BY <1>11, <2>1 DEF LogAnswers
  <2>2. CASE Kind = "log"
    <3>1. Begun
      BY <1>11, OwnFacts DEF Answered, OwnAnswer
    <3>2. r.n = jobs
      BY <1>2, <1>3, <3>1, OwnFacts
    <3>3. r.cmd \in {"WRITE_OPEN", "WRITE_CHUNK", "WRITE_SYNC"}
      BY <1>2, <1>3, <2>2, <3>2, OwnFacts DEF Own, OwnCommands
    <3>4. b.cmd = "WRITE_OPEN" => Logs(b.h)'
      <4> SUFFICES ASSUME b.cmd = "WRITE_OPEN" PROVE Logs(b.h)'
        OBVIOUS
      <4> DEFINE h == b.h
      <4>1. Logs(h)
        BY <1>11, <2>2 DEF LogAnswers
      <4> HIDE DEF h
      <4>2. Logs(h)'
        BY <1>1, <1>2, <3>3, <4>1, LogsOn
      <4> QED
        BY <4>2 DEF h
    <3>5. b.cmd = "WRITE_CHUNK" => log.open /\ Has(log.h, b.of.piece)'
      <4>1. b.cmd = "WRITE_CHUNK" => log.open /\ Has(log.h, b.of.piece)
        BY <1>11, <2>2 DEF LogAnswers
      <4> DEFINE piece == b.of.piece
      <4> HIDE DEF piece
      <4>2. log.open /\ Has(log.h, piece) => Has(log.h, piece)'
        BY <1>8
      <4> QED
        BY <4>1, <4>2 DEF piece
    <3> QED
      BY <2>2, <3>4, <3>5
  <2> QED
    BY <2>1, <2>2
<1>12. ASSUME Answered(a)
       PROVE  IF Kind = "log"
              THEN /\ a.cmd = "WRITE_OPEN" => Logs(a.h)'
                   /\ a.cmd = "WRITE_CHUNK" => log.open /\ Has(log.h, a.of.piece)'
              ELSE a.cmd \in {"READ_OPEN", "WRITE_OPEN"} /\ log.open => a.h # log.h
  <2>1. Own(r) /\ a.status = "OK" /\ ~Refused(a)
    BY <1>2, <1>4, <1>12 DEF Answered, Own, Refused
  <2>2. CASE a.cmd = "WRITE_OPEN"
    <3>1. OpenedToWrite(r, a)
      BY <1>2, <1>4, <2>1, <2>2 DEF Effect, OpenedToRead, HasRead, HasClosed, HasWritten, HasSynced,
         HasDeleted
    <3>2. Kind = "log" => Logs(a.h)'
      <4> DEFINE x == [mode |-> "write", file |-> r.file, data |-> <<>>, pos |-> 0]
      <4>1. a.h \in HandleIds /\ handles' = [handles EXCEPT ![a.h] = x]
        BY <3>1 DEF OpenedToWrite
      <4>2. handles'[a.h] = x
        BY <1>1, <4>1 DEF CardType
      <4>3. Kind = "log" => r.file = LogFile
        BY <1>4, <1>7, <2>1, <2>2 DEF OfTheLog
      <4>4. x.mode = "write" /\ x.file = r.file /\ x.pos = Len(x.data)
        OBVIOUS
      <4> HIDE DEF x
      <4> QED
        BY <4>1, <4>2, <4>3, <4>4 DEF Logs
    <3>3. log.open => a.h # log.h
      BY <1>8, <3>1 DEF OpenedToWrite, Logs, Closed
    <3> QED
      BY <2>2, <3>2, <3>3
  <2>3. CASE a.cmd = "READ_OPEN"
    <3>1. OpenedToRead(r, a)
      BY <1>2, <1>4, <2>1, <2>3 DEF Effect, OpenedToWrite, HasRead, HasClosed, HasWritten, HasSynced,
         HasDeleted
    <3>2. log.open => a.h # log.h
      BY <1>8, <3>1 DEF OpenedToRead, Logs, Closed
    <3> QED
      BY <2>3, <3>2
  <2>4. CASE a.cmd = "WRITE_CHUNK"
    <3>1. HasWritten(r, a)
      BY <1>2, <1>4, <2>1, <2>4 DEF Effect, OpenedToRead, OpenedToWrite, HasRead, HasClosed, HasSynced,
         HasDeleted
    <3>2. Kind = "log" => log.open /\ r.h = log.h
      BY <1>4, <1>7, <2>1, <2>4 DEF OfTheLog
    <3>3. Kind = "log" => log.open /\ Has(log.h, r.piece)'
      BY <1>8, <3>1, <3>2
    <3>4. Kind = "log" => log.open /\ Has(log.h, a.of.piece)'
      BY <1>4, <3>3 DEF Has
    <3> QED
      BY <2>4, <3>4
  <2> QED
    BY <2>2, <2>3, <2>4
<1>13. LogAnswers'
  <2> SUFFICES ASSUME NEW b \in Elems(resps'), Answered(b)
               PROVE  IF Kind = "log"
                      THEN /\ b.cmd = "WRITE_OPEN" => Logs(b.h)'
                           /\ b.cmd = "WRITE_CHUNK" => log.open /\ Has(log.h, b.of.piece)'
                      ELSE b.cmd \in {"READ_OPEN", "WRITE_OPEN"} /\ log.open => b.h # log.h
    BY <1>6 DEF LogAnswers, Answered, Has
  <2> QED
    BY <1>5, <1>11, <1>12
<1> QED
  BY <1>9, <1>10, <1>13

LEMMA LogCarries ==
  ASSUME LogHandle, LogReqs, LogAnswers, log' = log, handles' = handles, jobs' = jobs, Kind' = Kind,
         reqs' = reqs, \A a \in Elems(resps') : a \in Elems(resps)
  PROVE  LogHandle' /\ LogReqs' /\ LogAnswers'
<1>1. LogHandle'
  BY DEF LogHandle, Logs, Has
<1>2. LogReqs'
  BY DEF LogReqs, Elsewhere, OfTheLog, Own
<1>3. LogAnswers'
  BY DEF LogAnswers, Answered, Logs, Has
<1> QED
  BY <1>1, <1>2, <1>3

\* An answer read in a call that comes back is to the request of the job.
LEMMA TrueAnswer ==
  ASSUME BaseInv, Returned, ReadAnswer, jobs \notin misread'
  PROVE  \E a : /\ a = Head(resps) /\ a \in Answers /\ a \in Elems(resps) /\ a.of = request
                /\ a.cmd = request.cmd /\ request.n = jobs /\ Begun
                /\ a.status = "OK" => Answered(a)
<1>1. LineType /\ JobType /\ OrderInv
  BY DEF BaseInv
<1>2. PICK a : a = Head(resps)
  OBVIOUS
<1>3. GotAnswer(a) /\ request \in Requests
  BY <1>1, <1>2, CameBack
<1>4. request.n = jobs
  BY <1>1, <1>3, Newest
<1>5. a \in Answers /\ a \in Elems(resps) /\ a.of = request /\ a.cmd = request.cmd
  BY <1>3 DEF GotAnswer
<1>6. Begun
  BY <1>4, <1>5, OwnFacts DEF OwnAnswer
<1> QED
  BY <1>2, <1>4, <1>5, <1>6 DEF Answered

LEMMA LogReturns ==
  ASSUME BaseInv, LogHandle, LogReqs, LogAnswers, LogJob, Returns, misread' = {}
  PROVE  LogHandle' /\ LogReqs' /\ LogAnswers' /\ LogJob'
<1>1. LineType /\ JobType /\ OrderInv
  BY DEF BaseInv
<1>2. Returned /\ (ReadAnswer \/ ReturnFailure) /\ job # NoJob
  BY ReturnsFacts
<1>3. /\ reqs' = reqs /\ Dropped /\ handles' = handles /\ jobs' = jobs /\ ran' = ran
      /\ request \in Requests
  BY <1>1, <1>2, CameBack DEF srvVars
<1>4. Wants(request)
  BY <1>1, <1>3, Newest
<1>5. Kind' = Kind /\ Kind = job.kind
  BY <1>1, <1>2, <1>3, Turns DEF Kind
<1>6. \A a \in Elems(resps') : a \in Elems(resps)
  BY <1>1, <1>3, DropFacts
<1>7. log' = log => LogHandle' /\ LogReqs' /\ LogAnswers'
  BY <1>3, <1>5, <1>6, LogCarries
<1>8. ReadAnswer =>
        \E a : /\ a = Head(resps) /\ a \in Answers /\ a \in Elems(resps) /\ a.of = request
               /\ a.cmd = request.cmd /\ request.n = jobs /\ Begun
               /\ a.status = "OK" => Answered(a)
  BY <1>2, TrueAnswer
<1>9. job' = NoJob => LogJob'
  BY DEF LogJob, NoJob
<1>10. CASE UploadOpened \/ UploadWrote \/ UploadClosed \/ UploadFails
  <2>1. job.kind = "upload" /\ log' = log /\ job \in Uploads
    BY <1>1, <1>10, JobFacts DEF UploadOpened, UploadWrote, UploadClosed, UploadFails
  <2>2. CASE UploadOpened
    <3>1. /\ ReadAnswer /\ Head(resps).status = "OK" /\ request.cmd = "WRITE_OPEN"
          /\ job' = [job EXCEPT !.step = "data", !.h = Head(resps).h]
      BY <2>2 DEF UploadOpened, Succeeds, Continue
    <3>2. PICK a : /\ a = Head(resps) /\ a \in Elems(resps) /\ a.cmd = "WRITE_OPEN" /\ Answered(a)
      BY <1>8, <3>1
    <3>3. log.open => a.h # log.h
      BY <1>5, <2>1, <3>2 DEF LogAnswers
    <3>4. job'.kind = "upload" /\ job'.h = a.h
      BY <2>1, <3>1, <3>2 DEF Uploads
    <3> QED
      BY <1>7, <2>1, <3>3, <3>4 DEF LogJob
  <2>3. CASE UploadWrote
    <3>1. request.cmd = "WRITE_CHUNK" /\ job' = [job EXCEPT !.done = @ + 1]
      BY <2>3 DEF UploadWrote, Succeeds, Continue
    <3>2. job.step = "data"
      BY <1>4, <2>1, <3>1 DEF Wants
    <3>3. job'.kind = "upload" /\ job'.h = job.h
      BY <2>1, <3>1 DEF Uploads
    <3> QED
      BY <1>7, <2>1, <3>2, <3>3 DEF LogJob
  <2>4. CASE UploadClosed \/ UploadFails
    BY <1>7, <1>9, <2>1, <2>4 DEF UploadClosed, UploadFails, End
  <2> QED
    BY <1>10, <2>2, <2>3, <2>4
<1>11. CASE DownloadOpened \/ DownloadRead \/ DownloadReadFails \/ DownloadEnds
  <2>1. job.kind = "download" /\ log' = log /\ job \in Downloads
    BY <1>1, <1>11, JobFacts DEF DownloadOpened, DownloadRead, DownloadReadFails, DownloadEnds
  <2>2. CASE DownloadOpened
    <3>1. /\ ReadAnswer /\ Head(resps).status = "OK" /\ request.cmd = "READ_OPEN"
          /\ job' = [job EXCEPT !.h = Head(resps).h, !.size = Head(resps).size,
                                !.step = IF Head(resps).size > 0 THEN "data" ELSE "close"]
      BY <2>2 DEF DownloadOpened, Succeeds, Continue
    <3>2. PICK a : /\ a = Head(resps) /\ a \in Elems(resps) /\ a.cmd = "READ_OPEN" /\ Answered(a)
      BY <1>8, <3>1
    <3>3. log.open => a.h # log.h
      BY <1>5, <2>1, <3>2 DEF LogAnswers
    <3>4. job'.kind = "download" /\ job'.h = a.h
      BY <2>1, <3>1, <3>2 DEF Downloads
    <3> QED
      BY <1>7, <2>1, <3>3, <3>4 DEF LogJob
  <2>3. CASE DownloadRead \/ DownloadReadFails
    <3>1. request.cmd = "READ_CHUNK"
      BY <2>3 DEF DownloadRead, DownloadReadFails, Succeeds, Fails
    <3>2. job.step = "data"
      BY <1>4, <2>1, <3>1 DEF Wants
    <3>3. job'.kind = "download" /\ job'.h = job.h
      BY <2>1, <2>3 DEF DownloadRead, DownloadReadFails, Continue, Downloads
    <3> QED
      BY <1>7, <2>1, <3>2, <3>3 DEF LogJob
  <2>4. CASE DownloadEnds
    BY <1>7, <1>9, <2>1, <2>4 DEF DownloadEnds, End
  <2> QED
    BY <1>11, <2>2, <2>3, <2>4
<1>12. CASE DeleteEnds
  BY <1>7, <1>9, <1>12 DEF DeleteEnds, End
<1>13. CASE FlushOpened \/ FlushWrote \/ FlushWriteFails \/ FlushEnds
  <2>1. /\ job.kind = "log" /\ Kind = "log" /\ job \in Flushes
        /\ log \in [open : BOOLEAN, h : Nat, buf : Numbers] /\ log.buf \in Nat /\ log.open \in BOOLEAN
    BY <1>1, <1>5, <1>13, JobFacts DEF FlushOpened, FlushWrote, FlushWriteFails, FlushEnds, JobType,
       Numbers
  <2>2. CASE FlushOpened
    <3>1. /\ ReadAnswer /\ Head(resps).status = "OK" /\ request.cmd = "WRITE_OPEN"
          /\ job' = [job EXCEPT !.step = "data"]
          /\ log' = [log EXCEPT !.open = TRUE, !.h = Head(resps).h]
      BY <2>2 DEF FlushOpened, Succeeds, Continue
    <3>2. PICK a : /\ a = Head(resps) /\ a \in Elems(resps) /\ a.cmd = "WRITE_OPEN" /\ Answered(a)
                   /\ Begun
      BY <1>8, <3>1
    <3>3. Logs(a.h)
      BY <2>1, <3>2 DEF LogAnswers
    <3>4. job.step = "open" /\ ~log.open
      BY <1>4, <2>1, <3>1 DEF Wants, LogJob
    <3>5. log.buf = 1
      BY <3>4 DEF LogHandle
    <3>6. log'.open = TRUE /\ log'.h = a.h /\ log'.buf = 1
      BY <2>1, <3>1, <3>2, <3>5
    <3>7. LogHandle'
      <4>1. \A k \in 1..(log'.buf - 1) : FALSE
        BY <3>6
      <4>2. Logs(log.h)'
        BY <1>3, <3>3, <3>6 DEF Logs
      <4> QED
        BY <3>6, <4>1, <4>2 DEF LogHandle
    <3>8. ASSUME NEW r \in Elems(reqs), r \in Requests
          PROVE  /\ r.cmd \in {"WRITE_OPEN", "WRITE_CHUNK", "WRITE_SYNC"} /\ Own(r)
                 /\ r.cmd = "WRITE_OPEN" => r.file = LogFile
                 /\ r.cmd # "WRITE_CHUNK"
      <4>1. Own(r)
        BY <3>2, <3>8, OwnFacts DEF Own
      <4>2. r.cmd \in {"WRITE_OPEN", "WRITE_CHUNK", "WRITE_SYNC"}
        BY <2>1, <4>1, OwnFacts DEF OwnCommands
      <4>3. OfTheLog(r)
        BY DEF LogReqs
      <4> QED
        BY <2>1, <3>4, <4>1, <4>2, <4>3 DEF OfTheLog
    <3>9. LogReqs'
      BY <1>3, <3>8 DEF LogReqs, Elsewhere, OfTheLog, Own
    <3>10. LogAnswers'
      <4> SUFFICES ASSUME NEW b \in Elems(resps'), Answered(b)
                   PROVE  /\ b.cmd = "WRITE_OPEN" => Logs(b.h)'
                          /\ b.cmd # "WRITE_CHUNK"
        BY <1>3, <1>5, <2>1 DEF LogAnswers, Answered
      <4>1. /\ b.cmd = "WRITE_OPEN" => Logs(b.h)
            /\ b.cmd # "WRITE_CHUNK"
        BY <1>6, <2>1, <3>4 DEF LogAnswers
      <4> QED
        BY <1>3, <4>1 DEF Logs
    <3>11. job'.kind = "log" /\ job'.step = "data"
      BY <2>1, <3>1 DEF Flushes
    <3>12. LogJob'
      BY <3>6, <3>11 DEF LogJob
    <3> QED
      BY <3>7, <3>9, <3>10, <3>12
  <2>3. CASE FlushWrote
    <3>1. /\ ReadAnswer /\ Head(resps).status = "OK" /\ request.cmd = "WRITE_CHUNK"
          /\ job' = [job EXCEPT !.step = "sync"]
          /\ log' = [log EXCEPT !.buf = log.buf + 1]
      BY <2>3 DEF FlushWrote, Succeeds, Continue, Buffer
    <3>2. PICK a : /\ a = Head(resps) /\ a \in Elems(resps) /\ a.cmd = "WRITE_CHUNK" /\ Answered(a)
                   /\ a.of = request
      BY <1>8, <3>1
    <3>3. request.piece = <<0, log.buf>> /\ job.step = "data"
      BY <1>4, <2>1, <3>1 DEF Wants
    <3>4. log.open /\ Has(log.h, <<0, log.buf>>)
      BY <2>1, <3>2, <3>3 DEF LogAnswers
    <3>5. log'.open = log.open /\ log'.h = log.h /\ log'.buf = log.buf + 1
      BY <2>1, <3>1
    <3>6. LogHandle'
      <4>1. Logs(log.h)'
        BY <1>3, <3>4, <3>5 DEF LogHandle, Logs
      <4>2. ASSUME NEW k \in 1..(log'.buf - 1) PROVE Has(log.h, <<0, k>>)'
        <5>1. k \in 1..(log.buf - 1) \/ k = log.buf
          BY <2>1, <3>5
        <5>2. Has(log.h, <<0, k>>)
          BY <3>4, <5>1 DEF LogHandle
        <5> QED
          BY <1>3, <3>5, <5>2 DEF Has
      <4> QED
        BY <3>4, <3>5, <4>1, <4>2 DEF LogHandle
    <3>7. LogReqs'
      BY <1>3, <1>5, <3>5 DEF LogReqs, Elsewhere, OfTheLog, Own
    <3>8. LogAnswers'
      BY <1>3, <1>5, <1>6, <3>5 DEF LogAnswers, Answered, Logs, Has
    <3>9. job'.kind = "log" /\ job'.step = "sync"
      BY <2>1, <3>1 DEF Flushes
    <3>10. LogJob'
      BY <3>4, <3>5, <3>9 DEF LogJob
    <3> QED
      BY <3>6, <3>7, <3>8, <3>10
  <2>4. CASE FlushWriteFails
    <3>1. job' = NoJob /\ log' = [log EXCEPT !.buf = log.buf]
      BY <2>4 DEF FlushWriteFails, End, Buffer
    <3>2. log' = log
      BY <2>1, <3>1
    <3> QED
      BY <1>7, <1>9, <3>1, <3>2
  <2>5. CASE FlushEnds
    BY <1>7, <1>9, <2>5 DEF FlushEnds, End
  <2> QED
    BY <1>13, <2>2, <2>3, <2>4, <2>5
<1> QED
  BY <1>10, <1>11, <1>12, <1>13 DEF Returns

LEMMA LogNext ==
  ASSUME BaseInv, LogInv, [Next]_vars
  PROVE  LogInv'
<1>1. LineType /\ CardType /\ JobType /\ OrderInv
  BY DEF BaseInv
<1>2. CASE Asks
  <2>1. PICK r : Call(r)
    BY <1>2, AskFacts
  <2>2. /\ reqs' = reqs /\ resps' = resps
        /\ job' = job /\ jobs' = jobs /\ outcome' = outcome /\ log' = log
        /\ misread' = misread /\ handles' = handles
    BY <2>1 DEF Call, Request, srvVars, cliVars, ghostVars
  <2> QED
    BY <2>2, LogStays
<1>3. CASE Begins
  <2> SUFFICES ASSUME misread' = {} PROVE LogHandle' /\ LogReqs' /\ LogAnswers' /\ LogJob'
    BY DEF LogInv
  <2>1. /\ \A r \in Elems(reqs') : ~Own(r)'
        /\ \A a \in Elems(resps') : ~OwnAnswer(a)'
    BY <1>3, NothingYet
  <2>2. /\ reqs' = reqs /\ log' = log /\ handles' = handles /\ misread' = misread
        /\ job'.kind \in {"upload", "download"} => job'.step = "open"
        /\ job'.kind = "log" => (job'.step = "open" <=> ~log.open)
    BY <1>1, <1>3, BeginFacts DEF linkVars, srvVars, ghostVars
  <2>3. LogHandle /\ LogReqs /\ LogAnswers /\ LogJob
    BY <2>2 DEF LogInv
  <2>4. LogHandle'
    BY <2>2, <2>3 DEF LogHandle, Logs, Has
  <2>5. LogReqs'
    BY <2>1, <2>2, <2>3 DEF LogReqs, Elsewhere, OfTheLog
  <2>6. LogAnswers'
    BY <2>1 DEF LogAnswers, Answered, OwnAnswer
  <2>7. LogJob'
    BY <2>2 DEF LogJob
  <2> QED
    BY <2>4, <2>5, <2>6, <2>7
<1>4. CASE Returns
  <2> SUFFICES ASSUME misread' = {} PROVE LogHandle' /\ LogReqs' /\ LogAnswers' /\ LogJob'
    BY DEF LogInv
  <2>1. misread = {}
    BY <1>1, <1>4, ReturnsFacts, CameBack DEF GotAnswer, GotNone
  <2> QED
    BY <1>4, <2>1, LogReturns DEF LogInv
<1>5. CASE UploadAborted
  <2> SUFFICES ASSUME misread' = {} PROVE LogHandle' /\ LogReqs' /\ LogAnswers' /\ LogJob'
    BY DEF LogInv
  <2>1. /\ reqs' = reqs /\ resps' = resps /\ log' = log /\ handles' = handles /\ misread' = misread
        /\ jobs' = jobs /\ job' = NoJob
    BY <1>5 DEF UploadAborted, End, linkVars, srvVars, ghostVars
  <2>2. Kind' = Kind
    BY <1>1, <1>5, <2>1, Turns
  <2>3. LogHandle /\ LogReqs /\ LogAnswers /\ LogJob
    BY <2>1 DEF LogInv
  <2>4. LogJob'
    BY <2>1 DEF LogJob, NoJob
  <2> QED
    BY <2>1, <2>2, <2>3, <2>4, LogCarries
<1>6. CASE StmServe
  <2>1. misread' = misread
    BY <1>1, <1>6, Served
  <2> QED
    BY <1>6, <2>1, LogServes DEF LogInv
<1>7. CASE StmGarbled
  <2>1. /\ job' = job /\ jobs' = jobs /\ outcome' = outcome /\ log' = log
        /\ misread' = misread /\ handles' = handles
        /\ \A x \in Elems(reqs') : x \in Elems(reqs)
        /\ \A b \in Elems(resps') : b \in Elems(resps) \/ b = FrameError
    BY <1>1, <1>7, GarbledFacts DEF srvVars, cliVars, ghostVars
  <2>2. ~Answered(FrameError)
    BY AnswerFacts DEF Answered
  <2> QED
    BY <2>1, <2>2, LogStays
<1>8. CASE LinkStep
  <2>1. /\ job' = job /\ jobs' = jobs /\ outcome' = outcome /\ log' = log
        /\ misread' = misread /\ handles' = handles
    BY <1>1, <1>8, LinkMoves DEF srvVars, cliVars, ghostVars
  <2>2. /\ \A x \in Elems(reqs') : x \in Elems(reqs) \/ x = request \/ x = Garbled
        /\ \A a \in Elems(resps') : a \in Elems(resps)
    BY <1>1, <1>8, LinkElems
  <2>3. Garbled \notin Requests
    BY RequestFacts
  <2> QED
    BY <2>1, <2>2, <2>3, LogStays
<1>9. CASE UNCHANGED vars
  <2>1. /\ reqs' = reqs /\ resps' = resps
        /\ job' = job /\ jobs' = jobs /\ outcome' = outcome /\ log' = log
        /\ misread' = misread /\ handles' = handles
    BY <1>9 DEF vars, linkVars, srvVars, cliVars, ghostVars
  <2> QED
    BY <2>1, LogStays
<1> QED
  BY <1>2, <1>3, <1>4, <1>5, <1>6, <1>7, <1>8, <1>9, NextParts

\* The handle the log keeps stays open on its file and holds every piece
\* flushed, whatever the other jobs do, if no answer was taken for another.
THEOREM LogIsKept == Spec => []LogKept
<1>1. Init => BaseInv /\ LogInv
  <2> SUFFICES ASSUME Init PROVE LogHandle /\ LogReqs /\ LogAnswers /\ LogJob
    BY BaseInit DEF LogInv
  <2>1. /\ log = [open |-> FALSE, h |-> 0, buf |-> 1] /\ job.kind = "none"
        /\ Len(reqs) = 0 /\ Len(resps) = 0
    BY DEF Init, LinkInit, NoJob
  <2>2. Elems(reqs) = {} /\ Elems(resps) = {}
    BY <2>1 DEF Elems
  <2> QED
    BY <2>1, <2>2 DEF LogHandle, LogReqs, LogAnswers, LogJob
<1>2. BaseInv /\ LogInv /\ [Next]_vars => BaseInv' /\ LogInv'
  BY BaseNext, LogNext
<1>3. LogInv => LogKept
  <2> SUFFICES ASSUME LogInv, log.open, misread = {}
               PROVE  /\ Used(log.h)
                      /\ handles[log.h].mode = "write" /\ handles[log.h].file = LogFile
                      /\ \A k \in 1..(log.buf - 1) :
                           \E i \in 1..Len(handles[log.h].data) : handles[log.h].data[i] = <<0, k>>
    BY DEF LogKept
  <2>1. Logs(log.h) /\ \A k \in 1..(log.buf - 1) : Has(log.h, <<0, k>>)
    BY DEF LogInv, LogHandle
  <2>2. Used(log.h)
    <3>1. log.h \in HandleIds /\ handles[log.h].mode = "write"
      BY <2>1 DEF Logs
    <3>2. Closed.mode # "write"
      BY DEF Closed
    <3> QED
      BY <3>1, <3>2 DEF Used
  <2> QED
    BY <2>1, <2>2 DEF Logs, Has
<1> QED
  BY <1>1, <1>2, <1>3, PTL DEF Spec

-----------------------------------------------------------------------------
(* UploadExact.                                                            *)

LEMMA AloneOn ==
  ASSUME LineType, Alone, jobs' = jobs
  PROVE  /\ Dropped => Alone'
         /\ resps' = Append(resps, FrameError) => Alone'
         /\ resps # <<>> /\ resps' = Tail(resps) /\ OwnAnswer(Head(resps)) =>
              \A a \in Elems(resps') : ~OwnAnswer(a)
<1> DEFINE A == Answers \cup {FrameError}
<1>1. resps \in Seq(A) /\ FrameError \in A
  BY DEF LineType
<1> HIDE DEF A
<1>2. Len(resps) \in Nat
  BY <1>1, LenProperties
<1>3. \A a : OwnAnswer(a)' <=> OwnAnswer(a)
  BY DEF OwnAnswer
<1>4. ~OwnAnswer(FrameError)
  BY AnswerFacts DEF OwnAnswer
<1>5. ASSUME Dropped PROVE Alone'
  <2>1. PICK n \in 0..Len(resps) : resps' = Drop(resps, n)
    BY <1>5 DEF Dropped
  <2>2. /\ Len(resps') = Len(resps) - n
        /\ \A i \in 1..(Len(resps) - n) : resps'[i] = resps[i + n]
    <3>1. /\ Len(Drop(resps, n)) = Len(resps) - n
          /\ \A i \in 1..(Len(resps) - n) : Drop(resps, n)[i] = resps[i + n]
      BY <1>1, SeqParts
    <3> QED
      BY <2>1, <3>1
  <2>3. ASSUME NEW i \in 1..Len(resps'), NEW j \in 1..Len(resps'),
               OwnAnswer(resps'[i]), OwnAnswer(resps'[j])
        PROVE  i = j
    <3>1. i \in 1..(Len(resps) - n) /\ j \in 1..(Len(resps) - n)
      BY <2>2
    <3>2. i + n \in 1..Len(resps) /\ j + n \in 1..Len(resps)
      BY <1>2, <3>1
    <3>3. OwnAnswer(resps[i + n]) /\ OwnAnswer(resps[j + n])
      BY <2>2, <2>3, <3>1
    <3>4. i + n = j + n
      BY <3>2, <3>3 DEF Alone
    <3> QED
      BY <3>1, <3>4
  <2> QED
    BY <1>3, <2>3 DEF Alone
<1>6. ASSUME resps' = Append(resps, FrameError) PROVE Alone'
  <2>1. /\ Len(resps') = Len(resps) + 1
        /\ \A i \in 1..(Len(resps) + 1) : resps'[i] = IF i <= Len(resps) THEN resps[i] ELSE FrameError
    BY <1>1, <1>6, SeqParts
  <2>2. ASSUME NEW i \in 1..Len(resps'), OwnAnswer(resps'[i])
        PROVE  i \in 1..Len(resps) /\ resps'[i] = resps[i]
    BY <1>2, <1>4, <2>1, <2>2
  <2>3. ASSUME NEW i \in 1..Len(resps'), NEW j \in 1..Len(resps'),
               OwnAnswer(resps'[i]), OwnAnswer(resps'[j])
        PROVE  i = j
    <3>1. i \in 1..Len(resps) /\ j \in 1..Len(resps) /\ resps'[i] = resps[i] /\ resps'[j] = resps[j]
      BY <2>2, <2>3
    <3> QED
      BY <2>3, <3>1 DEF Alone
  <2> QED
    BY <1>3, <2>3 DEF Alone
<1>7. ASSUME resps # <<>>, resps' = Tail(resps), OwnAnswer(Head(resps)), NEW a \in Elems(resps'),
             OwnAnswer(a)
      PROVE  FALSE
  <2>1. PICK i \in 1..Len(resps') : a = resps'[i]
    BY DEF Elems
  <2>2. /\ Len(resps') = Len(resps) - 1 /\ Head(resps) = resps[1] /\ Len(resps) > 0
        /\ \A k \in 1..(Len(resps) - 1) : resps'[k] = resps[k + 1]
    BY <1>1, <1>7, SeqParts
  <2>3. i + 1 \in 1..Len(resps) /\ 1 \in 1..Len(resps) /\ resps[i + 1] = a /\ i + 1 # 1
    BY <1>2, <2>1, <2>2
  <2>4. i + 1 = 1
    BY <1>7, <2>2, <2>3 DEF Alone
  <2> QED
    BY <2>3, <2>4
<1> QED
  BY <1>5, <1>6, <1>7

\* What is said of the answers does not depend on the line.
LEMMA WroteStays ==
  ASSUME disk' = disk, handles' = handles, unkept' = unkept, jobs' = jobs, File' = File
  PROVE  (Complete <=> Complete') /\ \A h, k : Wrote(h, k) => Wrote(h, k)'
BY DEF Complete, Wrote, UploadOf, First

LEMMA UpStays ==
  ASSUME LineType, UpInv, job' = job, jobs' = jobs, outcome' = outcome,
         misread' = misread, again' = again, disk' = disk, handles' = handles, unkept' = unkept,
         ran' = ran, request' = request \/ request = NoRequest,
         \A r \in Elems(reqs') : Own(r) => r \in Elems(reqs) \/ r = request',
         \A a \in Elems(resps') : OwnAnswer(a) => a \in Elems(resps),
         Alone => Alone'
  PROVE  UpInv'
<1>1. /\ Kind' = Kind /\ File' = File /\ (Begun' <=> Begun) /\ (Exact' <=> Exact)
      /\ Running => Running'
  BY DEF Kind, File, Begun, Exact, Running
<1> SUFFICES ASSUME Exact PROVE UpReqs' /\ UpAnswers' /\ UpJob' /\ UpEnd'
  BY <1>1 DEF UpInv
<1>2. UpReqs /\ UpAnswers /\ UpJob /\ UpEnd
  BY DEF UpInv
<1>3. /\ \A r : Own(r)' <=> Own(r)
      /\ \A a : (OwnAnswer(a)' <=> OwnAnswer(a)) /\ (Answered(a)' <=> Answered(a))
      /\ \A a : Answered(a) => OwnAnswer(a)
      /\ ~Own(NoRequest)
  BY RequestFacts DEF Own, OwnAnswer, Answered
<1>4. (Complete <=> Complete') /\ \A h, k : Wrote(h, k) => Wrote(h, k)'
  BY <1>1, WroteStays
<1>5. UpReqs'
  BY <1>2, <1>3 DEF UpReqs
<1>6. UpAnswers'
  BY <1>1, <1>2, <1>3, <1>4 DEF UpAnswers
<1>7. UpJob' /\ UpEnd'
  BY <1>1, <1>2, <1>4 DEF UpJob, UpEnd, Rank
<1> QED
  BY <1>5, <1>6, <1>7

LEMMA PutNext ==
  ASSUME NEW n \in Nat, NEW k \in Nat
  PROVE  /\ First(n, 0) = <<>> /\ Len(First(n, k)) = k
         /\ Put(First(n, k), k, <<n, k + 1>>) = First(n, k + 1)
<1>1. ASSUME NEW m \in Nat
      PROVE  /\ First(n, m) \in Seq(Piece) /\ Len(First(n, m)) = m
             /\ \A i \in 1..m : First(n, m)[i] = <<n, i>>
  BY DEF First, Piece
<1> DEFINE data  == First(n, k)
           piece == <<n, k + 1>>
           new   == Put(data, k, piece)
           next  == First(n, k + 1)
<1>2. /\ data \in Seq(Piece) /\ Len(data) = k /\ \A i \in 1..k : data[i] = <<n, i>>
      /\ next \in Seq(Piece) /\ Len(next) = k + 1 /\ \A i \in 1..(k + 1) : next[i] = <<n, i>>
      /\ piece \in Piece
  <2>1. /\ data \in Seq(Piece) /\ Len(data) = k /\ \A i \in 1..k : data[i] = <<n, i>>
    BY <1>1
  <2>2. k + 1 \in Nat
    OBVIOUS
  <2>3. /\ next \in Seq(Piece) /\ Len(next) = k + 1 /\ \A i \in 1..(k + 1) : next[i] = <<n, i>>
    BY <1>1, <2>2
  <2>4. piece \in Piece
    BY <2>2 DEF Piece
  <2> QED
    BY <2>1, <2>3, <2>4
<1>3. /\ Len(new) = k + 1 /\ new \in Seq(Piece)
      /\ \A i \in 1..(k + 1) : new[i] = IF i = k + 1 THEN piece ELSE data[i]
  <2> HIDE DEF data, piece
  <2>1. k \in 0..Len(data)
    BY <1>2
  <2>2. new \in Seq(Piece)
    BY <1>2, <2>1, PutFacts
  <2>3. k = Len(data) =>
          /\ Len(new) = Len(data) + 1
          /\ \A i \in 1..Len(new) : new[i] = IF i = Len(data) + 1 THEN piece ELSE data[i]
    BY <1>2, <2>1, PutAtEnd
  <2> QED
    BY <1>2, <2>2, <2>3
<1>4. \A i \in 1..(k + 1) : new[i] = next[i]
  <2> SUFFICES ASSUME NEW i \in 1..(k + 1) PROVE new[i] = next[i]
    OBVIOUS
  <2>1. CASE i = k + 1
    BY <1>2, <1>3, <2>1
  <2>2. CASE i # k + 1
    <3>1. i \in 1..k
      BY <2>2
    <3> QED
      BY <1>2, <1>3, <2>2, <3>1
  <2> QED
    BY <2>1, <2>2
<1>5. new = next
  <2> HIDE DEF new, next
  <2> QED
    BY <1>2, <1>3, <1>4, SeqEqual
<1>6. First(n, 0) = <<>>
  BY DEF First
<1> QED
  BY <1>1, <1>5, <1>6

\* The upload's request runs: it does what the job will take its answer for.
LEMMA UpRuns ==
  ASSUME LineType, CardType, JobType, OrderInv, UpJob, Kind = "upload",
         request \in Requests, ~Running, NEW a, Effect(request, a), a.cmd = request.cmd,
         a.status = "OK", job' = job, jobs' = jobs, File' = File
  PROVE  /\ a.cmd = "WRITE_OPEN" => Wrote(a.h, 0)'
         /\ a.cmd = "WRITE_CHUNK" => Wrote(job.h, job.done + 1)'
         /\ a.cmd = "WRITE_CLOSE" => Complete'
<1>1. Wants(request) /\ job # NoJob /\ job.kind = "upload" /\ jobs \in Nat /\ File = job.file
  BY Newest, WantsFacts DEF Kind, File
<1>2. job.done \in Nat /\ job.h \in Nat /\ job.step \in {"open", "data"}
  BY <1>1, JobFacts
<1> PICK n, f, k, h : n = jobs /\ f = File /\ k = job.done /\ h = job.h
  OBVIOUS
<1>3. /\ n' = n /\ n \in Nat /\ k \in Nat
      /\ handles = [g \in HandleIds |-> handles[g]]
  BY <1>1, <1>2 DEF CardType
<1>4. CASE job.step = "open"
  <2>1. request = [cmd |-> "WRITE_OPEN", n |-> jobs, file |-> job.file]
    BY <1>1, <1>4 DEF Wants
  <2>2. OpenedToWrite(request, a)
    BY <2>1 DEF Effect, Refused, OpenedToRead, HasRead, HasClosed, HasWritten, HasSynced, HasDeleted
  <2>3. /\ a.h \in HandleIds
        /\ handles' = [handles EXCEPT ![a.h] =
                         [mode |-> "write", file |-> f, data |-> <<>>, pos |-> 0]]
        /\ disk' = [g \in DOMAIN disk \cup {f} |-> IF g = f THEN <<>> ELSE disk[g]]
    BY <1>1, <2>1, <2>2 DEF OpenedToWrite
  <2>4. First(jobs', 0) = <<>>
    BY <1>3, PutNext
  <2>5. Wrote(a.h, 0)'
    BY <1>3, <2>3, <2>4 DEF Wrote
  <2> QED
    BY <2>1, <2>5
<1>5. CASE job.step = "data"
  <2>1. Wrote(h, k)
    BY <1>1, <1>5 DEF UpJob
  <2>2. /\ f \in DOMAIN disk /\ h \in HandleIds
        /\ handles[h] = [mode |-> "write", file |-> f, data |-> First(n, k), pos |-> k]
    BY <2>1 DEF Wrote
  <2>3. CASE job.done # Pieces
    <3>1. request = [cmd |-> "WRITE_CHUNK", n |-> n, h |-> h, piece |-> <<n, k + 1>>]
      BY <1>1, <1>5, <2>3 DEF Wants
    <3>2. HasWritten(request, a)
      BY <3>1 DEF Effect, Refused, OpenedToRead, HasRead, HasClosed, OpenedToWrite, HasSynced, HasDeleted
    <3>3. /\ handles' = [handles EXCEPT ![h] =
                           [mode |-> "write", file |-> @.file, data |-> Put(@.data, @.pos, <<n, k + 1>>),
                            pos |-> @.pos + 1]]
          /\ disk' = disk
      BY <3>1, <3>2 DEF HasWritten
    <3>4. handles'[h] = [mode |-> "write", file |-> f, data |-> Put(First(n, k), k, <<n, k + 1>>),
                         pos |-> k + 1]
      BY <1>3, <2>2, <3>3
    <3>5. handles'[h] = [mode |-> "write", file |-> f, data |-> First(n, k + 1), pos |-> k + 1]
      BY <1>3, <3>4, PutNext
    <3>6. Wrote(job.h, job.done + 1)'
      BY <2>2, <3>3, <3>5 DEF Wrote
    <3> QED
      BY <3>1, <3>6
  <2>4. CASE job.done = Pieces
    <3>1. request = [cmd |-> "WRITE_CLOSE", n |-> n, h |-> h]
      BY <1>1, <1>5, <2>4 DEF Wants
    <3>2. HasClosed(request, a)
      BY <3>1 DEF Effect, Refused, OpenedToRead, HasRead, HasWritten, OpenedToWrite, HasSynced, HasDeleted
    <3>3. SyncHandle(h) /\ handles[h] # Closed
      BY <3>1, <3>2 DEF HasClosed, CloseHandle, Used
    <3>4. \/ disk' = Synced(h)
          \/ disk' = disk /\ f \in unkept'
      BY <2>2, <3>3 DEF SyncHandle
    <3>5. DOMAIN disk' = DOMAIN disk /\ (f \notin unkept' => disk'[f] = First(n, Pieces))
      BY <2>2, <2>4, <3>3, <3>4, SyncedFacts
    <3>6. Complete'
      BY <2>2, <3>5 DEF Complete, UploadOf, First
    <3> QED
      BY <3>1, <3>6
  <2> QED
    BY <2>3, <2>4
<1> QED
  BY <1>2, <1>4, <1>5

LEMMA AppendParts ==
  ASSUME NEW S, NEW s \in Seq(S), NEW x \in S
  PROVE  /\ Len(Append(s, x)) = Len(s) + 1
         /\ \A i \in 1..(Len(s) + 1) : Append(s, x)[i] = IF i <= Len(s) THEN s[i] ELSE x
<1>1. Len(s) \in Nat
  BY LenProperties
<1> QED
  BY <1>1, AppendProperties

LEMMA AloneNew ==
  ASSUME LineType, \A b \in Elems(resps) : ~OwnAnswer(b), jobs' = jobs,
         NEW a \in Answers, resps' = resps \/ resps' = Append(resps, a)
  PROVE  Alone'
<1> DEFINE A == Answers \cup {FrameError}
<1>1. resps \in Seq(A) /\ a \in A
  BY DEF LineType
<1> HIDE DEF A
<1>2. Len(resps) \in Nat /\ \A i \in 1..Len(resps) : ~OwnAnswer(resps[i])
  BY <1>1, LenProperties DEF Elems
<1>3. \A b : OwnAnswer(b)' <=> OwnAnswer(b)
  BY DEF OwnAnswer
<1>4. /\ Len(Append(resps, a)) = Len(resps) + 1
      /\ \A j \in 1..(Len(resps) + 1) : Append(resps, a)[j] = IF j <= Len(resps) THEN resps[j] ELSE a
  BY <1>1, AppendParts
<1>5. ASSUME resps' = Append(resps, a), NEW i \in 1..Len(resps'), OwnAnswer(resps'[i])
      PROVE  i = Len(resps) + 1
  <2>1. /\ Len(resps') = Len(resps) + 1
        /\ \A j \in 1..(Len(resps) + 1) : resps'[j] = IF j <= Len(resps) THEN resps[j] ELSE a
    BY <1>4, <1>5
  <2>2. i \in 1..(Len(resps) + 1)
    BY <2>1
  <2>3. ~(i \in 1..Len(resps))
    BY <1>2, <1>5, <2>1, <2>2
  <2> QED
    BY <1>2, <2>2, <2>3
<1> QED
  BY <1>2, <1>3, <1>5 DEF Alone

LEMMA UpServes ==
  ASSUME BaseInv, UpReqs, UpAnswers, UpJob, UpEnd, Kind = "upload", StmServe, jobs \notin again'
  PROVE  UpReqs' /\ UpAnswers' /\ UpJob' /\ UpEnd'
<1>1. /\ LineType /\ CardType /\ JobType /\ OrderInv
      /\ request \in Requests \cup {NoRequest} /\ NoRequest \notin Requests
  BY RequestFacts DEF BaseInv, LineType
<1>2. PICK r : r = Head(reqs)
  OBVIOUS
<1>3. PICK a : Said(r, a) /\ Effect(r, a)
  BY <1>1, <1>2, Served
<1>4. /\ reqs # <<>> /\ r \in Requests /\ reqs' = Tail(reqs) /\ ran' = r /\ request' = request
      /\ job' = job /\ jobs' = jobs /\ outcome' = outcome
      /\ r = ran => ran.n \in again'
  BY <1>1, <1>2, Served DEF cliVars
<1>5. /\ r \in Elems(reqs) /\ Follows(r, ran) /\ Known(r)
      /\ \A x \in Elems(reqs') : x \in Elems(reqs) /\ Follows(x, r)
  BY <1>2, <1>4, HeadFacts
<1>6. /\ a \in Answers /\ a.of = r /\ a.cmd = r.cmd
      /\ resps' = resps \/ resps' = Append(resps, a)
  BY <1>3, <1>4, AnswerFacts DEF Said
<1>7. \A b \in Elems(resps') : b \in Elems(resps) \/ b = a
  BY <1>1, <1>3, SaidElems
<1>8. /\ File' = File /\ Kind' = Kind /\ jobs \in Nat
      /\ \A x : Own(x)' <=> Own(x)
      /\ \A b : (OwnAnswer(b)' <=> OwnAnswer(b)) /\ (Answered(b)' <=> Answered(b))
      /\ \A b : Answered(b) => OwnAnswer(b)
  BY <1>1, <1>4, OwnFacts DEF File, Kind, Own, OwnAnswer, Answered
<1>9. request \in Requests => /\ Own(request) /\ Rank(request) = Cap /\ job # NoJob
                              /\ job.kind = "upload"
  BY <1>1, Newest, WantsFacts DEF Own, Kind
<1>10. CASE ~Own(r)
  <2>1. ~Begun /\ ~Begun' /\ r # request
    BY <1>4, <1>5, <1>9, <1>10, OwnFacts DEF Begun, Own
  <2>2. ~Running'
    BY <1>4, <2>1 DEF Running
  <2>3. \A b \in Elems(resps') : ~OwnAnswer(b)
    <3>1. ~OwnAnswer(a)
      BY <1>4, <1>6, <1>10 DEF OwnAnswer, Own
    <3>2. \A b \in Elems(resps) : ~OwnAnswer(b)
      BY <2>1, OwnFacts
    <3> QED
      BY <1>7, <3>1, <3>2
  <2>4. UpReqs'
    BY <1>4, <1>5, <1>8, <2>1 DEF UpReqs, Own, Begun
  <2>5. Alone'
    BY <1>8, <2>3 DEF Alone, Elems
  <2>6. UpAnswers'
    BY <1>8, <2>3, <2>5 DEF UpAnswers
  <2>7. UpJob' /\ UpEnd'
    BY <1>4, <2>1 DEF UpJob, UpEnd
  <2> QED
    BY <2>4, <2>6, <2>7
<1>11. CASE Own(r)
  <2>1. r # ran
    BY <1>4, <1>11 DEF Own
  <2>2. r = request /\ request \in Requests /\ request # NoRequest
    BY <1>1, <1>4, <1>5, <1>11, <2>1 DEF UpReqs
  <2>3. ~Running /\ Running' /\ Begun' /\ job # NoJob
    BY <1>4, <1>9, <1>11, <2>1, <2>2 DEF Running, Begun, Own
  <2>4. \A b \in Elems(resps) : ~OwnAnswer(b)
    BY <2>3 DEF UpAnswers
  <2>5. UpReqs'
    <3> SUFFICES ASSUME NEW x \in Elems(reqs'), Own(x), x # request PROVE FALSE
      BY <1>4, <1>8 DEF UpReqs
    <3>1. x = ran /\ x \in Requests /\ Follows(x, r)
      BY <1>5 DEF UpReqs, Own
    <3>2. Begun /\ r.n = ran.n /\ jobs \in Nat
      BY <1>8, <1>11, <3>1 DEF Begun, Own
    <3>3. Rank(r) <= Rank(ran) /\ Rank(r) \in Nat /\ Rank(ran) \in Nat
      BY <1>4, <3>1, <3>2, RankFacts DEF Follows, Before, Own
    <3>4. job.step = "data" /\ Rank(ran) <= job.done /\ job.done \in Nat
      BY <1>1, <1>9, <2>2, <2>3, <3>2, JobFacts DEF UpJob
    <3>5. Rank(r) = job.done + 1
      BY <1>9, <2>2, <3>4 DEF Cap
    <3> QED
      BY <3>3, <3>4, <3>5
  <2>6. Alone'
    BY <1>1, <1>4, <1>6, <2>4, AloneNew
  <2>7. UpAnswers'
    <3>1. ASSUME NEW b \in Elems(resps'), OwnAnswer(b) PROVE b = a
      BY <1>7, <2>4, <3>1
    <3>2. a.of = ran'
      BY <1>4, <1>6
    <3>3. a.status = "OK" =>
            /\ a.cmd = "WRITE_OPEN" => Wrote(a.h, 0)'
            /\ a.cmd = "WRITE_CHUNK" => Wrote(job.h, job.done + 1)'
            /\ a.cmd = "WRITE_CLOSE" => Complete'
      BY <1>1, <1>3, <1>4, <1>6, <1>8, <2>2, <2>3, UpRuns
    <3>4. Answered(a) => a.status = "OK"
      BY DEF Answered
    <3> QED
      BY <1>8, <2>3, <2>6, <3>1, <3>2, <3>3, <3>4 DEF UpAnswers
  <2>8. UpJob' /\ UpEnd'
    BY <1>4, <2>3 DEF UpJob, UpEnd
  <2> QED
    BY <2>5, <2>7, <2>8
<1> QED
  BY <1>10, <1>11

\* A call of the upload comes back.
LEMMA UpReturns ==
  ASSUME BaseInv, UpInv, Returns
  PROVE  UpInv'
<1>1. LineType /\ CardType /\ JobType /\ OrderInv
  BY DEF BaseInv
<1>2. Returned /\ (ReadAnswer \/ ReturnFailure) /\ job # NoJob
  BY ReturnsFacts
<1>3. /\ reqs' = reqs /\ disk' = disk /\ handles' = handles /\ unkept' = unkept /\ jobs' = jobs /\ again' = again
      /\ ran' = ran /\ request \in Requests /\ request # NoRequest
      /\ ReadAnswer => GotAnswer(Head(resps))
      /\ ~ReadAnswer => GotNone
  BY <1>1, <1>2, CameBack, RequestFacts DEF srvVars
<1>4. Kind' = Kind /\ Kind = job.kind
  BY <1>1, <1>2, <1>3, Turns DEF Kind
<1> SUFFICES ASSUME Exact' PROVE UpReqs' /\ UpAnswers' /\ UpJob' /\ UpEnd'
  BY DEF UpInv
<1>5. Kind = "upload" /\ jobs \notin misread' /\ jobs \notin again /\ (job' # NoJob \/ outcome'.ok)
  BY <1>3, <1>4 DEF Exact
<1>6. jobs \notin misread
  BY <1>3, <1>5 DEF GotAnswer, GotNone
<1>7. UpReqs /\ UpAnswers /\ UpJob
  BY <1>2, <1>5, <1>6 DEF UpInv, Exact
<1>8. Wants(request) /\ job \in Uploads /\ job.done \in Nat
  BY <1>1, <1>3, <1>4, <1>5, Newest, JobFacts
<1>9. File' = File /\ File = job.file
  BY <1>1, <1>2, <1>5, SameFile DEF File
<1>0. \/ job.step = "open" /\ request = [cmd |-> "WRITE_OPEN", n |-> jobs, file |-> job.file]
      \/ /\ job.step = "data"
         /\ request = [cmd |-> "WRITE_CHUNK", n |-> jobs, h |-> job.h, piece |-> <<jobs, job.done + 1>>]
      \/ job.step = "data" /\ request = [cmd |-> "WRITE_CLOSE", n |-> jobs, h |-> job.h]
  BY <1>4, <1>5, <1>8 DEF Wants
<1>10. UploadOpened \/ UploadWrote \/ UploadClosed
  <2>1. ~UploadFails
    BY <1>5 DEF UploadFails, End, Of
  <2> QED
    BY <1>4, <1>5, <2>1 DEF Returns, DownloadOpened, DownloadRead, DownloadReadFails, DownloadEnds,
       DeleteEnds, FlushOpened, FlushWrote, FlushWriteFails, FlushEnds
<1>11. ReadAnswer /\ Head(resps).status = "OK"
  BY <1>10 DEF UploadOpened, UploadWrote, UploadClosed, Succeeds
<1>12. PICK a : /\ a = Head(resps) /\ a \in Answers /\ a \in Elems(resps) /\ a.of = request
                /\ a.cmd = request.cmd /\ request.n = jobs /\ Begun
                /\ a.status = "OK" => Answered(a)
  BY <1>2, <1>3, <1>5, <1>11, TrueAnswer
<1>13. Answered(a) /\ OwnAnswer(a) /\ Running /\ ran = request
  BY <1>7, <1>11, <1>12 DEF Answered, OwnAnswer, UpAnswers, Running
<1>14. /\ a.cmd = "WRITE_OPEN" => Wrote(a.h, 0)
       /\ a.cmd = "WRITE_CHUNK" => Wrote(job.h, job.done + 1)
       /\ a.cmd = "WRITE_CLOSE" => Complete
  BY <1>7, <1>12, <1>13 DEF UpAnswers
<1>15. \A b \in Elems(resps') : ~OwnAnswer(b)
  BY <1>1, <1>3, <1>7, <1>11, <1>12, <1>13, AloneOn DEF GotAnswer, UpAnswers
<1>16. UpAnswers'
  <2>1. \A b : (OwnAnswer(b)' <=> OwnAnswer(b)) /\ (Answered(b)' => OwnAnswer(b))
    BY <1>3 DEF OwnAnswer, Answered
  <2>2. Alone'
    BY <1>15, <2>1 DEF Alone, Elems
  <2> QED
    BY <1>15, <2>1, <2>2 DEF UpAnswers
<1>17. UpReqs'
  BY <1>3, <1>7, <1>13 DEF UpReqs, Own
<1>18. Begun' /\ (Complete => Complete') /\ \A h, k : Wrote(h, k) => Wrote(h, k)'
  BY <1>3, <1>9, <1>12, WroteStays DEF Begun
<1>19. CASE UploadOpened
  <2>0. request.cmd = "WRITE_OPEN"
    BY <1>19 DEF UploadOpened, Succeeds
  <2>1. /\ a.cmd = "WRITE_OPEN" /\ job' = [job EXCEPT !.step = "data", !.h = a.h]
    BY <1>12, <1>19, <2>0 DEF UploadOpened, Continue
  <2>2. job.step = "open"
    BY <1>0, <2>0
  <2>3. job.done = 0 /\ Rank(ran) = 0
    BY <1>2, <1>3, <1>7, <1>13, <2>0, <2>2, RankFacts DEF UpJob
  <2>4. job'.step = "data" /\ job'.done = 0 /\ job'.h = a.h /\ job'.kind = "upload"
    BY <1>8, <2>1, <2>3 DEF Uploads
  <2>5. Wrote(a.h, 0)'
    BY <1>14, <1>18, <2>1
  <2>6. Wrote(job.h, job.done)'
    BY <2>4, <2>5 DEF Wrote
  <2>7. Rank(ran)' <= job'.done
    BY <1>3, <2>3, <2>4
  <2> QED
    BY <1>16, <1>17, <1>18, <2>4, <2>6, <2>7 DEF UpJob, UpEnd, NoJob
<1>20. CASE UploadWrote
  <2>0. request.cmd = "WRITE_CHUNK"
    BY <1>20 DEF UploadWrote, Succeeds
  <2>1. /\ a.cmd = "WRITE_CHUNK" /\ job' = [job EXCEPT !.done = @ + 1]
    BY <1>12, <1>20, <2>0 DEF UploadWrote, Continue
  <2>2. job.step = "data" /\ request.piece = <<jobs, job.done + 1>> /\ request.n = jobs
    BY <1>0, <2>0
  <2>3. Rank(ran) = job.done + 1
    BY <1>8, <1>13, <2>0, <2>2 DEF Rank
  <2>4. job'.step = "data" /\ job'.done = job.done + 1 /\ job'.h = job.h /\ job'.kind = "upload"
    BY <1>8, <2>1, <2>2 DEF Uploads
  <2>5. PICK h, k : h = job.h /\ k = job.done + 1
    OBVIOUS
  <2>6. Wrote(h, k)'
    BY <1>14, <1>18, <2>1, <2>5
  <2>7. Wrote(job.h, job.done)'
    BY <2>4, <2>5, <2>6 DEF Wrote
  <2>8. Rank(ran)' <= job'.done
    BY <1>3, <1>8, <2>3, <2>4
  <2> QED
    BY <1>16, <1>17, <1>18, <2>4, <2>7, <2>8 DEF UpJob, UpEnd, NoJob
<1>21. CASE UploadClosed
  <2>1. a.cmd = "WRITE_CLOSE" /\ job' = NoJob
    BY <1>12, <1>21 DEF UploadClosed, Succeeds, End
  <2> QED
    BY <1>14, <1>16, <1>17, <1>18, <2>1 DEF UpJob, UpEnd
<1> QED
  BY <1>10, <1>19, <1>20, <1>21

LEMMA UpNext ==
  ASSUME BaseInv, UpInv, [Next]_vars
  PROVE  UpInv'
<1>1. LineType /\ CardType /\ JobType /\ OrderInv
  BY DEF BaseInv
<1>2. CASE Asks
  <2>1. PICK r : Call(r)
    BY <1>2, AskFacts
  <2>2. /\ reqs' = reqs /\ resps' = resps /\ phase = "idle"
        /\ job' = job /\ jobs' = jobs /\ outcome' = outcome /\ misread' = misread /\ again' = again
        /\ disk' = disk /\ handles' = handles /\ unkept' = unkept /\ ran' = ran
    BY <2>1 DEF Call, Request, srvVars, cliVars, ghostVars
  <2>3. request = NoRequest
    BY <1>1, <2>2 DEF LineType
  <2>4. Alone => Alone'
    BY <2>2 DEF Alone, OwnAnswer
  <2> QED
    BY <1>1, <2>2, <2>3, <2>4, UpStays
<1>3. CASE Begins
  <2>1. /\ \A r \in Elems(reqs') : ~Own(r)'
        /\ \A a \in Elems(resps') : ~OwnAnswer(a)'
        /\ ~Begun'
    BY <1>3, NothingYet
  <2>2. UpReqs' /\ UpAnswers'
    BY <2>1 DEF UpReqs, UpAnswers, Alone, Answered, OwnAnswer, Elems
  <2>3. Kind' = "upload" => UpJob' /\ UpEnd'
    BY <1>1, <1>3, <2>1, BeginFacts DEF Kind, UpJob, UpEnd
  <2> QED
    BY <2>2, <2>3 DEF UpInv, Exact
<1>4. CASE Returns
  BY <1>4, UpReturns
<1>5. CASE UploadAborted
  <2>1. job' = NoJob /\ outcome'.ok = FALSE
    BY <1>5 DEF UploadAborted, End, Of
  <2> QED
    BY <2>1 DEF UpInv, Exact
<1>6. CASE StmServe
  <2> SUFFICES ASSUME Exact' PROVE UpReqs' /\ UpAnswers' /\ UpJob' /\ UpEnd'
    BY DEF UpInv
  <2>1. /\ job' = job /\ jobs' = jobs /\ outcome' = outcome /\ misread' = misread
        /\ again' = IF Head(reqs) = ran THEN again \cup {ran.n} ELSE again
    BY <1>1, <1>6, Served DEF cliVars
  <2>2. Exact /\ Kind = "upload" /\ jobs \notin again'
    BY <2>1 DEF Exact, Kind
  <2> QED
    BY <1>6, <2>2, UpServes DEF UpInv
<1>7. CASE StmGarbled
  <2>1. /\ job' = job /\ jobs' = jobs /\ outcome' = outcome /\ misread' = misread
        /\ again' = again /\ request' = request
        /\ disk' = disk /\ handles' = handles /\ unkept' = unkept /\ ran' = ran
        /\ \A x \in Elems(reqs') : x \in Elems(reqs)
        /\ \A b \in Elems(resps') : b \in Elems(resps) \/ b = FrameError
        /\ resps' = resps \/ resps' = Append(resps, FrameError)
    BY <1>1, <1>7, GarbledFacts DEF srvVars, cliVars, ghostVars
  <2>2. ~OwnAnswer(FrameError)
    BY AnswerFacts DEF OwnAnswer
  <2>3. Alone => Alone'
    BY <1>1, <2>1, AloneOn DEF Alone, OwnAnswer
  <2> QED
    BY <1>1, <2>1, <2>2, <2>3, UpStays
<1>8. CASE LinkStep
  <2>1. /\ job' = job /\ jobs' = jobs /\ outcome' = outcome /\ misread' = misread
        /\ again' = again /\ request' = request /\ Dropped
        /\ disk' = disk /\ handles' = handles /\ unkept' = unkept /\ ran' = ran
    BY <1>1, <1>8, LinkMoves DEF srvVars, cliVars, ghostVars
  <2>2. /\ \A x \in Elems(reqs') : x \in Elems(reqs) \/ x = request \/ x = Garbled
        /\ \A a \in Elems(resps') : a \in Elems(resps)
    BY <1>1, <1>8, LinkElems
  <2>3. ~Own(Garbled)
    BY RequestFacts DEF Own
  <2>4. Alone => Alone'
    BY <1>1, <2>1, AloneOn
  <2> QED
    BY <1>1, <2>1, <2>2, <2>3, <2>4, UpStays
<1>9. CASE UNCHANGED vars
  <2>1. /\ reqs' = reqs /\ resps' = resps /\ request' = request
        /\ job' = job /\ jobs' = jobs /\ outcome' = outcome /\ misread' = misread /\ again' = again
        /\ disk' = disk /\ handles' = handles /\ unkept' = unkept /\ ran' = ran
    BY <1>9 DEF vars, linkVars, srvVars, cliVars, ghostVars
  <2>2. Alone => Alone'
    BY <2>1 DEF Alone, OwnAnswer
  <2> QED
    BY <1>1, <2>1, <2>2, UpStays
<1> QED
  BY <1>2, <1>3, <1>4, <1>5, <1>6, <1>7, <1>8, <1>9, NextParts

\* An upload reported complete is the file on the card, piece for piece, if no
\* answer was taken for another, no request of it ran twice and the card kept the
\* file when it was last closed or flushed. Nothing else is asked of the card,
\* which may fail at every other access.
THEOREM UploadIsExact == Spec => []UploadExact
<1>1. Init => BaseInv /\ UpInv
  <2> SUFFICES ASSUME Init PROVE Kind = "none"
    BY BaseInit DEF UpInv, Exact
  <2> QED
    BY DEF Init, Kind, NoJob
<1>2. BaseInv /\ UpInv /\ [Next]_vars => BaseInv' /\ UpInv'
  BY BaseNext, UpNext
<1>3. BaseInv /\ UpInv => UploadExact
  <2> SUFFICES ASSUME BaseInv, UpInv, outcome.kind = "upload", outcome.ok,
                      outcome.n \notin misread \cup again
               PROVE  /\ outcome.file \in DOMAIN disk
                      /\ outcome.file \notin unkept => disk[outcome.file] = UploadOf(outcome.n)
    BY DEF UploadExact
  <2>1. outcome # NoJob
    BY DEF NoJob
  <2>2. job = NoJob /\ outcome.n = jobs
    BY <2>1 DEF BaseInv, JobType
  <2>3. Kind = "upload" /\ File = outcome.file
    BY <2>2 DEF Kind, File
  <2>4. Complete
    BY <2>2, <2>3 DEF UpInv, Exact, UpEnd
  <2> QED
    BY <2>2, <2>3, <2>4 DEF Complete
<1> QED
  BY <1>1, <1>2, <1>3, PTL DEF Spec

=============================================================================
