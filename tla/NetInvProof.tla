----------------------------- MODULE NetInvProof ------------------------------
(***************************************************************************)
(* Proofs about NetLink, for every value of its constants: its buffers     *)
(* stay within their bounds, and NetInv is an invariant, with it the       *)
(* credit rule.  In between, how AltBitInv survives each thing that can    *)
(* happen to a line: frames leave its front, one joins its end, the        *)
(* receiver stores a chunk, the sender sees it confirmed, the sender takes *)
(* up a new one.                                                           *)
(*                                                                         *)
(* Then the two streams arrive whole, once and in order, and what is in    *)
(* flight is offered again as it was; and NetLink implements BytePipe      *)
(* twice: each step of the bridge puts bytes into a pipe, takes some out   *)
(* of it, or leaves it as it is.                                           *)
(***************************************************************************)
EXTENDS NetSafety, AltBit, AtModem, SequenceTheorems, TLAPS

-----------------------------------------------------------------------------
(* Facts about the operators.                                              *)

\* The remainder after n elements.
LEMMA DropFacts ==
  ASSUME NEW S, NEW s \in Seq(S), NEW n \in 0..Len(s)
  PROVE  /\ Drop(s, n) \in Seq(S)
         /\ Len(Drop(s, n)) = Len(s) - n
         /\ \A i \in 1..(Len(s) - n) : Drop(s, n)[i] = s[i + n]
<1>1. \A i \in (n + 1)..Len(s) : s[i] \in S
  BY ElementOfSeq
<1> QED
  BY <1>1, SubSeqProperties, LenProperties DEF Drop

\* The first n elements.
LEMMA PrefixFacts ==
  ASSUME NEW S, NEW s \in Seq(S), NEW n \in 0..Len(s)
  PROVE  /\ SubSeq(s, 1, n) \in Seq(S)
         /\ Len(SubSeq(s, 1, n)) = n
         /\ \A i \in 1..n : SubSeq(s, 1, n)[i] = s[i]
         /\ SubSeq(s, 1, n) \o Drop(s, n) = s
<1>1. \A i \in 1..n : s[i] \in S
  BY ElementOfSeq, LenProperties
<1>2. SubSeq(s, 1, n) \o SubSeq(s, n + 1, Len(s)) = SubSeq(s, 1, Len(s))
  <2>1. /\ 1 \in 1..(Len(s) + 1)
        /\ n \in (1 - 1)..Len(s)
        /\ Len(s) \in n..Len(s)
    BY LenProperties
  <2> QED
    BY <2>1, ConcatAdjacentSubSeq, Zenon
<1>3. /\ SubSeq(s, 1, n) \in Seq(S)
      /\ Len(SubSeq(s, 1, n)) = IF 1 <= n THEN n - 1 + 1 ELSE 0
      /\ \A i \in 1..(n - 1 + 1) : SubSeq(s, 1, n)[i] = s[1 + i - 1]
  BY <1>1, SubSeqProperties, LenProperties
<1>4. SubSeq(s, 1, n) \o Drop(s, n) = s
  BY <1>2, SubSeqFull DEF Drop
<1>5. n \in Nat
  BY LenProperties
<1>6. Len(SubSeq(s, 1, n)) = n
  BY <1>3, <1>5
<1>7. \A i \in 1..n : SubSeq(s, 1, n)[i] = s[i]
  BY <1>3, <1>5
<1> QED
  BY <1>3, <1>4, <1>6, <1>7

\* The bytes a + 1 .. b.
LEMMA BytesFacts ==
  ASSUME NEW a \in Nat, NEW b \in Nat, a <= b
  PROVE  /\ Bytes(a, b) \in Seq(Nat)
         /\ Len(Bytes(a, b)) = b - a
         /\ \A i \in 1..(b - a) : Bytes(a, b)[i] = a + i
<1>1. Bytes(a, b) \in [1..(b - a) -> Nat]
  BY DEF Bytes
<1>2. Bytes(a, b) \in Seq(Nat)
  BY <1>1, b - a \in Nat, SeqDef
<1> QED
  BY <1>1, <1>2, LenProperties DEF Bytes

\* A stream extended by the bytes that enter it.
LEMMA BytesExtend ==
  ASSUME NEW a \in Nat, NEW b \in Nat, a <= b
  PROVE  Bytes(0, a) \o Bytes(a, b) = Bytes(0, b)
<1>1. /\ Bytes(0, a) \in Seq(Nat) /\ Len(Bytes(0, a)) = a
      /\ \A i \in 1..a : Bytes(0, a)[i] = i
  BY BytesFacts
<1>2. /\ Bytes(a, b) \in Seq(Nat) /\ Len(Bytes(a, b)) = b - a
      /\ \A i \in 1..(b - a) : Bytes(a, b)[i] = a + i
  BY BytesFacts
<1>3. /\ Bytes(0, b) \in Seq(Nat) /\ Len(Bytes(0, b)) = b
      /\ \A i \in 1..b : Bytes(0, b)[i] = i
  BY BytesFacts
<1> DEFINE st == Bytes(0, a) \o Bytes(a, b)
<1>4. /\ st \in Seq(Nat)
      /\ Len(st) = b
      /\ \A i \in 1..b : st[i] = IF i <= a THEN Bytes(0, a)[i] ELSE Bytes(a, b)[i - a]
  BY <1>1, <1>2, ConcatProperties
<1>5. ASSUME NEW i \in 1..b
      PROVE  st[i] = i
  <2>1. CASE i <= a
    <3>1. i \in 1..a /\ st[i] = Bytes(0, a)[i]
      BY <1>4, <2>1
    <3> QED
      BY <1>1, <3>1, Zenon
  <2>2. CASE ~(i <= a)
    <3>1. i - a \in 1..(b - a) /\ a + (i - a) = i
      BY <2>2
    <3>2. st[i] = Bytes(a, b)[i - a]
      BY <1>4, <2>2, Zenon
    <3> QED
      BY <1>2, <3>1, <3>2, Zenon
  <2> QED
    BY <2>1, <2>2
<1> DEFINE t == Bytes(0, b)
<1>6. t \in Seq(Nat) /\ Len(t) = b /\ \A i \in 1..b : t[i] = i
  BY <1>3, Zenon
<1> HIDE DEF st, t
<1>7. Len(st) = Len(t) /\ \A i \in 1..Len(st) : st[i] = t[i]
  BY <1>4, <1>5, <1>6
<1>8. st = t
  BY <1>4, <1>6, <1>7, SeqEqual
<1> QED
  BY <1>8 DEF st, t

\* Smaller is the minimum.
LEMMA SmallerFacts ==
  ASSUME NEW a \in Int, NEW b \in Int
  PROVE  /\ Smaller(a, b) \in Int
         /\ Smaller(a, b) <= a /\ Smaller(a, b) <= b
         /\ Smaller(a, b) \in {a, b}
BY DEF Smaller

LEMMA DivFacts ==
  ASSUME NEW a \in Nat, NEW u \in Nat \ {0}
  PROVE  a \div u \in Nat /\ (a \div u) * u <= a
OBVIOUS

LEMMA SmallerRange ==
  ASSUME NEW a \in Int, NEW b \in Int, NEW c \in Int,
         NEW k \in 0..Smaller(a, Smaller(b, c))
  PROVE  k \in Nat /\ k <= a /\ k <= b /\ k <= c
BY DEF Smaller

-----------------------------------------------------------------------------
(* Type correctness.                                                       *)

LinkInv == LinkTypeOK /\ AttemptsLeft

\* Frames appended to, and taken from, the two lines.
LEMMA LineFacts ==
  ASSUME LinkTypeOK
  PROVE  /\ \A f \in ReqFrames : Append(reqs, f) \in Seq(ReqFrames)
         /\ \A f \in ReqFrames : Len(Append(reqs, f)) = Len(reqs) + 1
         /\ \A f \in RespFrames : Append(resps, f) \in Seq(RespFrames)
         /\ \A f \in RespFrames : Len(Append(resps, f)) = Len(resps) + 1
         /\ reqs # <<>> => /\ Head(reqs) \in ReqFrames
                           /\ Tail(reqs) \in Seq(ReqFrames)
                           /\ Len(Tail(reqs)) = Len(reqs) - 1
         /\ resps # <<>> => /\ Head(resps) \in RespFrames
                            /\ Tail(resps) \in Seq(RespFrames)
                            /\ Len(Tail(resps)) = Len(resps) - 1
         /\ \A n \in 0..Len(resps) : /\ Drop(resps, n) \in Seq(RespFrames)
                                      /\ Len(Drop(resps, n)) <= Len(resps)
         /\ Len(reqs) \in Nat /\ Len(resps) \in Nat
<1>1. reqs \in Seq(ReqFrames) /\ resps \in Seq(RespFrames)
  BY DEF LinkTypeOK
<1>2. Len(reqs) \in Nat /\ Len(resps) \in Nat
  BY <1>1, LenProperties
<1>3. \A n \in 0..Len(resps) : /\ Drop(resps, n) \in Seq(RespFrames)
                               /\ Len(Drop(resps, n)) <= Len(resps)
  BY <1>1, <1>2, DropFacts
<1>4. /\ reqs # <<>> => /\ Head(reqs) \in ReqFrames
                        /\ Tail(reqs) \in Seq(ReqFrames)
                        /\ Len(Tail(reqs)) = Len(reqs) - 1
      /\ resps # <<>> => /\ Head(resps) \in RespFrames
                         /\ Tail(resps) \in Seq(RespFrames)
                         /\ Len(Tail(resps)) = Len(resps) - 1
  BY <1>1, HeadTailProperties, Zenon
<1>5. /\ \A f \in ReqFrames : Append(reqs, f) \in Seq(ReqFrames)
      /\ \A f \in ReqFrames : Len(Append(reqs, f)) = Len(reqs) + 1
      /\ \A f \in RespFrames : Append(resps, f) \in Seq(RespFrames)
      /\ \A f \in RespFrames : Len(Append(resps, f)) = Len(resps) + 1
  BY <1>1, AppendProperties, Zenon
<1> QED
  BY <1>2, <1>3, <1>4, <1>5

\* The request made while a call is under way is a frame of the protocol.
LEMMA RequestIsFrame ==
  ASSUME LinkInv, phase # "idle"
  PROVE  request \in ReqFrames
BY DEF LinkInv, LinkTypeOK, AttemptsLeft, ReqFrames

LEMMA LinkStepTypes ==
  ASSUME LinkInv, LinkStep
  PROVE  LinkInv'
<1>0. LinkTypeOK /\ AttemptsLeft
  BY DEF LinkInv
<1> USE LinkBounds, <1>0
<1>a. /\ \A f \in ReqFrames : /\ Append(reqs, f) \in Seq(ReqFrames)
                               /\ Len(Append(reqs, f)) = Len(reqs) + 1
      /\ resps # <<>> => /\ Tail(resps) \in Seq(RespFrames)
                         /\ Len(Tail(resps)) = Len(resps) - 1
      /\ \A n \in 0..Len(resps) : /\ Drop(resps, n) \in Seq(RespFrames)
                                   /\ Len(Drop(resps, n)) <= Len(resps)
      /\ Len(reqs) \in Nat /\ Len(resps) \in Nat
  BY LineFacts, Zenon
<1>1. ASSUME Attempt,
             \/ reqs' = reqs
             \/ Len(reqs) < ReqRoom /\ reqs' = Append(reqs, request)
             \/ Len(reqs) < ReqRoom /\ reqs' = Append(reqs, Garbled)
      PROVE  LinkInv'
  <2>1. request \in ReqFrames /\ Garbled \in ReqFrames
    BY <1>1, RequestIsFrame DEF LinkInv, Attempt, ReqFrames
  <2>2. reqs' \in Seq(ReqFrames) /\ Len(reqs') <= ReqRoom
    <3>1. CASE reqs' = reqs
      BY <3>1 DEF LinkTypeOK
    <3>2. CASE Len(reqs) < ReqRoom /\ reqs' = Append(reqs, request)
      BY <3>2, <1>a, <2>1 DEF LinkTypeOK
    <3>3. CASE Len(reqs) < ReqRoom /\ reqs' = Append(reqs, Garbled)
      BY <3>3, <1>a, <2>1 DEF LinkTypeOK
    <3> QED
      BY <1>1, <3>1, <3>2, <3>3, Zenon
  <2>3. resps' \in Seq(RespFrames) /\ Len(resps') <= RespRoom
    BY <1>1, <1>a DEF Attempt, LinkTypeOK
  <2>4. /\ phase' = "wait" /\ phase = "send" /\ tries' = tries + 1
        /\ stale' = 0 /\ request' = request
    BY <1>1 DEF Attempt
  <2> QED
    BY <2>2, <2>3, <2>4 DEF LinkInv, LinkTypeOK, AttemptsLeft, Phases
<1>2. CASE TransmitOk
  BY <1>1, <1>2 DEF TransmitOk
<1>3. CASE TransmitBad
  BY <1>1, <1>3 DEF TransmitBad
<1>4. CASE ReadTimeout
  <2>1. resps' \in Seq(RespFrames) /\ Len(resps') <= RespRoom
    <3>1. CASE resps' = resps
      BY <3>1 DEF LinkTypeOK
    <3>2. CASE resps # <<>> /\ resps' = Tail(resps)
      BY <3>2, <1>a DEF LinkTypeOK
    <3> QED
      BY <1>4, <3>1, <3>2, Zenon DEF ReadTimeout
  <2>2. /\ UNCHANGED <<reqs, request, tries, stale>>
        /\ phase = "wait"
        /\ phase' = IF tries < MaxTries THEN "send" ELSE "failed"
    BY <1>4 DEF ReadTimeout, AttemptOver
  <2> QED
    BY <2>1, <2>2 DEF LinkInv, LinkTypeOK, AttemptsLeft, Phases
<1>5. CASE ReadFrameError
  BY <1>5, <1>a DEF ReadFrameError, AttemptOver, LinkInv, LinkTypeOK, AttemptsLeft, Phases
<1>6. CASE ReadStale
  <2>1. stale' \in 0..MaxStale /\ (stale' < MaxStale \/ phase' # "wait")
    BY <1>6 DEF ReadStale, AttemptOver, LinkTypeOK, AttemptsLeft
  <2>2. phase' \in {"wait", "send", "failed"} /\ (phase' = "send" => tries < MaxTries)
    BY <1>6 DEF ReadStale, AttemptOver
  <2>3. /\ UNCHANGED <<reqs, request, tries>> /\ phase = "wait"
        /\ resps # <<>> /\ resps' = Tail(resps)
    BY <1>6 DEF ReadStale
  <2> QED
    BY <1>a, <2>1, <2>2, <2>3 DEF LinkInv, LinkTypeOK, AttemptsLeft, Phases
<1> QED
  BY <1>2, <1>3, <1>4, <1>5, <1>6, LinkStep DEF LinkStep
LEMMA CallTypes ==
  ASSUME LinkInv
  PROVE  /\ \A f \in PollRequests \cup {Other} : Request(f) => LinkInv'
         /\ ReadAnswer => LinkInv'
         /\ ReturnFailure => LinkInv'
<1>1. LinkTypeOK
  BY DEF LinkInv
<1>2. ASSUME NEW f \in PollRequests \cup {Other}, Request(f)
      PROVE  LinkInv'
  <2>1. f # NoRequest
    BY DEF NoRequest, Other, PollRequests
  <2> QED
    BY <1>2, <2>1, LinkBounds
    DEF Request, LinkInv, LinkTypeOK, AttemptsLeft, Phases
<1>3. ASSUME ReadAnswer PROVE LinkInv'
  <2>1. resps' \in Seq(RespFrames) /\ Len(resps') <= RespRoom
    <3>1. resps # <<>> /\ resps' = Tail(resps)
      BY <1>3 DEF ReadAnswer
    <3>2. Tail(resps) \in Seq(RespFrames) /\ Len(Tail(resps)) = Len(resps) - 1
      BY <1>1, <3>1, LineFacts, Zenon
    <3>3. Len(resps) \in Nat /\ Len(resps) <= RespRoom
      BY <1>1, LineFacts DEF LinkTypeOK
    <3> QED
      BY <3>1, <3>2, <3>3, LinkBounds
  <2> QED
    BY <1>3, <2>1, LinkBounds
    DEF ReadAnswer, LinkInv, LinkTypeOK, AttemptsLeft, Phases
<1>4. ASSUME ReturnFailure PROVE LinkInv'
  BY <1>4, LinkBounds
  DEF ReturnFailure, LinkInv, LinkTypeOK, AttemptsLeft, Phases
<1> QED
  BY <1>2, <1>3, <1>4

LEMMA ServeTypes ==
  ASSUME LinkInv, NEW c, NEW f \in RespFrames, Take(c), Answer(f)
  PROVE  LinkInv'
<1>1. LinkTypeOK
  BY DEF LinkInv
<1>2. reqs' \in Seq(ReqFrames) /\ Len(reqs') <= ReqRoom
  <2>1. reqs # <<>> /\ reqs' = Tail(reqs)
    BY DEF Take
  <2>2. Tail(reqs) \in Seq(ReqFrames) /\ Len(Tail(reqs)) = Len(reqs) - 1
    BY <1>1, <2>1, LineFacts, Zenon
  <2>3. Len(reqs) \in Nat /\ Len(reqs) <= ReqRoom
    BY <1>1, LineFacts DEF LinkTypeOK
  <2> QED
    BY <2>1, <2>2, <2>3, LinkBounds
<1>3. resps' \in Seq(RespFrames) /\ Len(resps') <= RespRoom
  <2>1. CASE resps' = resps
    BY <1>1, <2>1 DEF LinkTypeOK
  <2>2. CASE Len(resps) < RespRoom /\ resps' = Append(resps, f)
    BY <1>1, <2>2, LineFacts, LinkBounds DEF LinkTypeOK
  <2> QED
    BY <2>1, <2>2 DEF Answer, AnswerSent, AnswerLost
<1> QED
  BY <1>2, <1>3 DEF Take, LinkInv, LinkTypeOK, AttemptsLeft

\* What each action of the bridge does to the rings, the chunks and the bits.
LEMMA FeedFacts ==
  ASSUME BridgeTypeOK, NEW k \in 0..FeedRoom
  PROVE  /\ k \in Nat
         /\ toZ80 + k \in 0..MaxToZ80
         /\ txq \o Bytes(toZ80, toZ80 + k) \in Seq(Nat)
         /\ Len(txq \o Bytes(toZ80, toZ80 + k)) = Len(txq) + k
         /\ Len(txq) + k <= TxqCap
<1>1. /\ txq \in Seq(Nat) /\ Len(txq) \in Nat /\ Len(txq) <= TxqCap
      /\ toZ80 \in Nat /\ toZ80 <= MaxToZ80
      /\ Batch \in Nat /\ TxqCap \in Nat /\ MaxToZ80 \in Nat
  BY NetBounds, LenProperties DEF BridgeTypeOK
<1>2. k \in Nat /\ k <= TxqCap - Len(txq) /\ k <= MaxToZ80 - toZ80
  <2>1. TxqCap - Len(txq) \in Int /\ MaxToZ80 - toZ80 \in Int /\ Batch \in Int
    BY <1>1
  <2> QED
    BY <2>1, SmallerRange DEF FeedRoom
<1>3. toZ80 + k \in Nat /\ toZ80 + k <= MaxToZ80 /\ (toZ80 + k) - toZ80 = k
  BY <1>1, <1>2
<1>4. /\ Bytes(toZ80, toZ80 + k) \in Seq(Nat)
      /\ Len(Bytes(toZ80, toZ80 + k)) = k
  <2>1. toZ80 \in Nat /\ toZ80 + k \in Nat /\ toZ80 <= toZ80 + k
    BY <1>1, <1>2
  <2>2. /\ Bytes(toZ80, toZ80 + k) \in Seq(Nat)
        /\ Len(Bytes(toZ80, toZ80 + k)) = (toZ80 + k) - toZ80
    BY <2>1, BytesFacts, Zenon
  <2> QED
    BY <2>2, <1>3
<1>5. /\ txq \o Bytes(toZ80, toZ80 + k) \in Seq(Nat)
      /\ Len(txq \o Bytes(toZ80, toZ80 + k)) = Len(txq) + Len(Bytes(toZ80, toZ80 + k))
  BY <1>1, <1>4, ConcatProperties, Zenon
<1>6. k \in Nat /\ toZ80 + k \in 0..MaxToZ80 /\ Len(txq) + k <= TxqCap
  BY <1>1, <1>2, <1>3
<1>7. Len(txq \o Bytes(toZ80, toZ80 + k)) = Len(txq) + k
  BY <1>4, <1>5, Zenon
<1> QED
  BY <1>5, <1>6, <1>7, Zenon

\* How much of the queue is moved into pending.
LEMMA LoadFacts ==
  ASSUME BridgeTypeOK, NEW q \in Seq(Nat)
  PROVE  /\ Load(q) \in 0..Len(q)
         /\ Load(q) <= Chunk
         /\ Load(q) > 0 => pending = <<>> /\ Load(q) <= credit * Unit
<1>1. /\ Len(q) \in Nat /\ credit \in Nat /\ Unit \in Nat /\ Chunk \in Nat
      /\ credit * Unit \in Nat
  BY NetBounds, LenProperties DEF BridgeTypeOK
<1>2. CASE pending # <<>>
  BY <1>1, <1>2 DEF Load
<1>3. CASE pending = <<>>
  <2>1. Load(q) = Smaller(Len(q), Smaller(credit * Unit, Chunk))
    BY <1>3 DEF Load
  <2>2. Smaller(credit * Unit, Chunk) \in Nat
    BY <1>1 DEF Smaller
  <2>3. Load(q) \in Nat
    BY <1>1, <2>1, <2>2 DEF Smaller
  <2>4. Load(q) \in 0..Smaller(Len(q), Smaller(credit * Unit, Chunk))
    BY <2>1, <2>3
  <2>5. Len(q) \in Int /\ credit * Unit \in Int /\ Chunk \in Int
    BY <1>1
  <2>6. Load(q) <= Len(q) /\ Load(q) <= credit * Unit /\ Load(q) <= Chunk
    BY <2>4, <2>5, SmallerRange
  <2> QED
    BY <1>1, <1>3, <2>3, <2>6
<1> QED
  BY <1>2, <1>3

LEMMA NetPollTypes ==
  ASSUME LinkInv, BridgeTypeOK, NetPoll
  PROVE  LinkInv' /\ BridgeTypeOK'
<1>1. PICK k \in 0..FeedRoom :
        LET q == txq \o Bytes(toZ80, toZ80 + k) IN
        /\ pending' = IF Load(q) > 0 THEN SubSeq(q, 1, Load(q)) ELSE pending
        /\ txq' = Drop(q, Load(q))
        /\ toZ80' = toZ80 + k
        /\ Request(PollRequest(pending'))
        /\ UNCHANGED <<credit, e_out, e_in, stmVars, z80_log, fromZ80, esp_log>>
  BY Zenon DEF NetPoll
<1> DEFINE q == txq \o Bytes(toZ80, toZ80 + k)
           n == Load(q)
<1>2. /\ q \in Seq(Nat) /\ Len(q) = Len(txq) + k /\ Len(txq) + k <= TxqCap
      /\ k \in Nat /\ toZ80 + k \in 0..MaxToZ80
  BY FeedFacts
<1>3. n \in 0..Len(q) /\ n <= Chunk
  BY <1>2, LoadFacts
<1> HIDE DEF n, q
<1>4. /\ SubSeq(q, 1, n) \in Seq(Nat) /\ Len(SubSeq(q, 1, n)) = n
      /\ Drop(q, n) \in Seq(Nat) /\ Len(Drop(q, n)) = Len(q) - n
  BY <1>2, <1>3, PrefixFacts, DropFacts, Zenon
<1>5. pending' \in Seq(Nat) /\ Len(pending') <= Chunk
  <2>1. pending' = IF n > 0 THEN SubSeq(q, 1, n) ELSE pending
    BY <1>1 DEF n, q
  <2> QED
    BY <1>3, <1>4, <2>1 DEF BridgeTypeOK
<1>6. txq' \in Seq(Nat) /\ Len(txq') <= TxqCap
  <2>1. txq' = Drop(q, n)
    BY <1>1 DEF n, q
  <2>2. Len(txq) \in Nat
    BY LenProperties DEF BridgeTypeOK
  <2> QED
    BY <1>2, <1>3, <1>4, <2>1, <2>2, NetBounds
<1>7. toZ80' \in 0..MaxToZ80
  BY <1>1, <1>2
<1>8. BridgeTypeOK'
  BY <1>1, <1>5, <1>6, <1>7 DEF BridgeTypeOK, stmVars
<1>9. PollRequest(pending') \in PollRequests
  BY <1>5 DEF PollRequest, PollRequests, BridgeTypeOK
<1> QED
  BY <1>1, <1>8, <1>9, CallTypes
\* An answer to NET_POLL on the line is one the STM32 made.
LEMMA AnswerFacts ==
  ASSUME LinkInv, ReadAnswer, request.cmd = "NET_POLL"
  PROVE  Head(resps) \in PollAnswers
<1>1. Head(resps) \in RespFrames
  BY LineFacts DEF LinkInv, ReadAnswer
<1>2. Head(resps).cmd = "NET_POLL"
  BY DEF ReadAnswer
<1> QED
  BY <1>1, <1>2 DEF RespFrames, FrameError, Other

LEMMA NetPollAnswerTypes ==
  ASSUME LinkInv, BridgeTypeOK, NetPollAnswer
  PROVE  LinkInv' /\ BridgeTypeOK'
<1> DEFINE ans == Head(resps)
<1>1. PICK r \in 0..FeedRoom :
        /\ txq' = txq \o Bytes(toZ80, toZ80 + r)
        /\ toZ80' = toZ80 + r
  BY Zenon DEF NetPollAnswer
<1>2. /\ txq' \in Seq(Nat) /\ Len(txq') <= TxqCap
      /\ toZ80' \in 0..MaxToZ80
  BY <1>1, FeedFacts
<1>3. ans \in PollAnswers
  BY AnswerFacts DEF NetPollAnswer
<1>4. /\ ans.free \in Nat /\ ans.seq \in BOOLEAN /\ ans.data \in Seq(Nat)
  BY <1>3 DEF PollAnswers
<1>5. /\ credit' = ans.free
      /\ e_out' = IF EspAcked(ans) THEN ~e_out ELSE e_out
      /\ pending' = IF EspAcked(ans) \/ request.data = <<>> THEN <<>> ELSE pending
      /\ e_in' = IF EspFresh(ans) THEN ans.seq ELSE e_in
      /\ esp_log' = IF EspFresh(ans) THEN esp_log \o ans.data ELSE esp_log
      /\ UNCHANGED <<stmVars, z80_log, fromZ80>>
  BY DEF NetPollAnswer
<1> HIDE DEF ans
<1>6. esp_log' \in Seq(Nat)
  BY <1>4, <1>5, ConcatProperties DEF BridgeTypeOK
<1>7. pending' \in Seq(Nat) /\ Len(pending') <= Chunk
  BY <1>5, EmptySeq, NetBounds DEF BridgeTypeOK
<1>8. BridgeTypeOK'
  BY <1>2, <1>4, <1>5, <1>6, <1>7 DEF BridgeTypeOK, stmVars
<1> QED
  BY <1>8, CallTypes DEF NetPollAnswer

\* How much the STM32 offers, from a queue of what it has not had confirmed.
LEMMA StmQueueFacts ==
  ASSUME BridgeTypeOK, NEW req
  PROVE  LET queue == IF StmAcked(req) THEN Drop(tx_buf, inflight) ELSE tx_buf
             n     == Offer(req, queue)
         IN /\ queue \in Seq(Nat) /\ Len(queue) <= TxCap
            /\ n \in 0..Len(queue) /\ n <= Chunk
            /\ SubSeq(queue, 1, n) \in Seq(Nat) /\ Len(SubSeq(queue, 1, n)) = n
<1> DEFINE queue == IF StmAcked(req) THEN Drop(tx_buf, inflight) ELSE tx_buf
           n     == Offer(req, queue)
<1>1. /\ tx_buf \in Seq(Nat) /\ Len(tx_buf) \in Nat /\ inflight \in 0..Len(tx_buf)
      /\ Len(tx_buf) <= TxCap /\ inflight <= Chunk /\ TxCap \in Nat /\ Chunk \in Nat
  BY NetBounds, LenProperties DEF BridgeTypeOK
<1>2. /\ Drop(tx_buf, inflight) \in Seq(Nat)
      /\ Len(Drop(tx_buf, inflight)) = Len(tx_buf) - inflight
  BY <1>1, DropFacts, Zenon
<1>3. queue \in Seq(Nat) /\ Len(queue) \in Nat /\ Len(queue) <= TxCap
  BY <1>1, <1>2
<1>4. n \in 0..Len(queue) /\ n <= Chunk
  <2>1. CASE inflight > 0 /\ ~StmAcked(req)
    BY <1>1, <2>1 DEF Offer
  <2>2. CASE ~(inflight > 0 /\ ~StmAcked(req))
    <3>1. n = Smaller(Len(queue), Chunk)
      BY <2>2 DEF Offer
    <3> QED
      BY <1>1, <1>3, <3>1 DEF Smaller
  <2> QED
    BY <2>1, <2>2
<1>5. SubSeq(queue, 1, n) \in Seq(Nat) /\ Len(SubSeq(queue, 1, n)) = n
  BY <1>3, <1>4, PrefixFacts, Zenon
<1> QED
  BY <1>3, <1>4, <1>5, Zenon

\* A request for the STM32 to serve is one the ESP32 made.
LEMMA RequestFacts ==
  ASSUME LinkInv, Take("NET_POLL")
  PROVE  Head(reqs) \in PollRequests
<1>1. Head(reqs) \in ReqFrames
  BY LineFacts DEF LinkInv, Take
<1>2. Head(reqs).cmd = "NET_POLL"
  BY DEF Take
<1> QED
  BY <1>1, <1>2 DEF ReqFrames, Garbled, Other

LEMMA StmNetPollTypes ==
  ASSUME LinkInv, BridgeTypeOK, StmNetPoll
  PROVE  LinkInv' /\ BridgeTypeOK'
<1> DEFINE req   == Head(reqs)
           queue == IF StmAcked(req) THEN Drop(tx_buf, inflight) ELSE tx_buf
           n     == Offer(req, queue)
           ans   == PollAnswer(s_out', s_in', FreeUnits(rx_buf'), SubSeq(queue, 1, n))
<1>1. /\ Take("NET_POLL") /\ Answer(ans)
      /\ rx_buf' = IF Accepts(req) THEN rx_buf \o req.data ELSE rx_buf
      /\ s_in' = SeqIn(req)
      /\ s_out' = IF StmAcked(req) THEN ~s_out ELSE s_out
      /\ tx_buf' = queue
      /\ inflight' = n
      /\ UNCHANGED <<espVars, histVars>>
  BY Zenon DEF StmNetPoll
<1>2. req.data \in Seq(Nat) /\ req.seq \in BOOLEAN
  BY <1>1, RequestFacts DEF PollRequests
<1>3. /\ queue \in Seq(Nat) /\ Len(queue) <= TxCap
      /\ n \in 0..Len(queue) /\ n <= Chunk
      /\ SubSeq(queue, 1, n) \in Seq(Nat)
  BY StmQueueFacts, Zenon
<1> HIDE DEF req, queue, n
<1>4. rx_buf' \in Seq(Nat) /\ Len(rx_buf') \in Nat /\ Len(rx_buf') <= RxCap
  <2>1. /\ rx_buf \in Seq(Nat) /\ Len(rx_buf) \in Nat /\ Len(rx_buf) <= RxCap
        /\ RxCap \in Nat /\ Len(req.data) \in Nat
    BY <1>2, NetBounds, LenProperties DEF BridgeTypeOK
  <2>2. /\ rx_buf \o req.data \in Seq(Nat)
        /\ Len(rx_buf \o req.data) = Len(rx_buf) + Len(req.data)
    BY <1>2, <2>1, ConcatProperties, Zenon
  <2>3. CASE Accepts(req)
    <3>1. Len(req.data) <= RxCap - Len(rx_buf) /\ rx_buf' = rx_buf \o req.data
      BY <1>1, <2>3 DEF Accepts, RxFree
    <3> QED
      BY <2>1, <2>2, <3>1
  <2>4. CASE ~Accepts(req)
    BY <1>1, <2>1, <2>4
  <2> QED
    BY <2>3, <2>4
<1>5. s_in' \in BOOLEAN /\ s_out' \in BOOLEAN
  BY <1>1, <1>2 DEF SeqIn, BridgeTypeOK
<1>6. FreeUnits(rx_buf') \in Nat
  BY <1>4, NetBounds, DivFacts DEF FreeUnits
<1>7. ans \in RespFrames
  BY <1>3, <1>5, <1>6 DEF PollAnswer, PollAnswers, RespFrames
<1>8. BridgeTypeOK'
  BY <1>1, <1>3, <1>4, <1>5 DEF BridgeTypeOK, espVars, histVars
<1> HIDE DEF ans
<1> QED
  BY <1>1, <1>7, <1>8, ServeTypes
LEMMA Z80ReadTypes ==
  ASSUME LinkInv, BridgeTypeOK, Z80Read
  PROVE  LinkInv' /\ BridgeTypeOK'
<1>1. PICK max \in 1..Batch :
        /\ z80_log' = z80_log \o SubSeq(rx_buf, 1, Smaller(Len(rx_buf), max))
        /\ rx_buf' = Drop(rx_buf, Smaller(Len(rx_buf), max))
  BY DEF Z80Read
<1> DEFINE n == Smaller(Len(rx_buf), max)
<1>2. rx_buf \in Seq(Nat) /\ Len(rx_buf) \in Nat /\ Len(rx_buf) <= RxCap
  BY LenProperties DEF BridgeTypeOK
<1>3. n \in 0..Len(rx_buf)
  BY <1>2, NetBounds DEF Smaller
<1> HIDE DEF n
<1>4. /\ SubSeq(rx_buf, 1, n) \in Seq(Nat)
      /\ Drop(rx_buf, n) \in Seq(Nat)
      /\ Len(Drop(rx_buf, n)) = Len(rx_buf) - n
  BY <1>2, <1>3, PrefixFacts, DropFacts, Zenon
<1>5. z80_log' \in Seq(Nat)
  <2>1. z80_log \in Seq(Nat) /\ z80_log' = z80_log \o SubSeq(rx_buf, 1, n)
    BY <1>1 DEF BridgeTypeOK, n
  <2> QED
    BY <1>4, <2>1, ConcatProperties
<1>6. rx_buf' \in Seq(Nat) /\ Len(rx_buf') <= RxCap
  BY <1>1, <1>2, <1>3, <1>4, NetBounds DEF n
<1>7. UNCHANGED <<linkVars, espVars, tx_buf, inflight, s_in, s_out, toZ80, fromZ80, esp_log>>
  BY DEF Z80Read
<1> QED
  BY <1>5, <1>6, <1>7
  DEF LinkInv, LinkTypeOK, AttemptsLeft, linkVars, BridgeTypeOK, espVars

LEMMA Z80WriteTypes ==
  ASSUME LinkInv, BridgeTypeOK, Z80Write
  PROVE  LinkInv' /\ BridgeTypeOK'
<1>1. PICK count \in 1..Batch :
        LET n == Smaller(TxCap - Len(tx_buf), count) IN
        /\ n > 0
        /\ fromZ80 + n <= MaxFromZ80
        /\ tx_buf' = tx_buf \o Bytes(fromZ80, fromZ80 + n)
        /\ fromZ80' = fromZ80 + n
  BY DEF Z80Write
<1> DEFINE n == Smaller(TxCap - Len(tx_buf), count)
<1>2. /\ tx_buf \in Seq(Nat) /\ Len(tx_buf) \in Nat /\ inflight \in 0..Len(tx_buf)
      /\ fromZ80 \in Nat /\ TxCap \in Nat /\ MaxFromZ80 \in Nat
  BY NetBounds, LenProperties DEF BridgeTypeOK
<1>3. n \in Nat /\ n <= TxCap - Len(tx_buf)
  BY <1>1, <1>2, NetBounds DEF Smaller
<1> HIDE DEF n
<1>4. /\ fromZ80 + n <= MaxFromZ80
      /\ tx_buf' = tx_buf \o Bytes(fromZ80, fromZ80 + n)
      /\ fromZ80' = fromZ80 + n
  BY <1>1 DEF n
<1>5. /\ Bytes(fromZ80, fromZ80 + n) \in Seq(Nat)
      /\ Len(Bytes(fromZ80, fromZ80 + n)) = n
  <2>1. fromZ80 + n \in Nat /\ fromZ80 <= fromZ80 + n /\ (fromZ80 + n) - fromZ80 = n
    BY <1>2, <1>3
  <2>2. /\ Bytes(fromZ80, fromZ80 + n) \in Seq(Nat)
        /\ Len(Bytes(fromZ80, fromZ80 + n)) = (fromZ80 + n) - fromZ80
    BY <1>2, <2>1, BytesFacts, Zenon
  <2> QED
    BY <2>1, <2>2
<1>6. tx_buf' \in Seq(Nat) /\ Len(tx_buf') = Len(tx_buf) + n
  <2>1. /\ tx_buf' \in Seq(Nat)
        /\ Len(tx_buf') = Len(tx_buf) + Len(Bytes(fromZ80, fromZ80 + n))
    BY <1>2, <1>4, <1>5, ConcatProperties, Zenon
  <2> QED
    BY <1>5, <2>1
<1>7. fromZ80' \in 0..MaxFromZ80 /\ inflight' \in 0..Len(tx_buf') /\ Len(tx_buf') <= TxCap
  BY <1>2, <1>3, <1>4, <1>6 DEF Z80Write
<1>8. UNCHANGED <<linkVars, espVars, rx_buf, inflight, s_in, s_out, toZ80, z80_log, esp_log>>
  BY DEF Z80Write
<1> QED
  BY <1>6, <1>7, <1>8
  DEF LinkInv, LinkTypeOK, AttemptsLeft, linkVars, BridgeTypeOK, espVars

\* TypeOK needs AttemptsLeft to be inductive: an attempt is counted as it
\* starts, a frame as it is read.
TypeInv == LinkInv /\ BridgeTypeOK

LEMMA InitTypes == Init => TypeInv
<1> SUFFICES ASSUME Init PROVE TypeInv
  OBVIOUS
<1>1. LinkInv
  BY LinkBounds, EmptySeq
  DEF Init, LinkInit, LinkInv, LinkTypeOK, AttemptsLeft, Phases
<1>2. credit \in Nat
  BY NetBounds, DivFacts DEF Init
<1>3. <<>> \in Seq(Nat) /\ Len(<<>>) = 0
  BY EmptySeq
<1>4. BridgeTypeOK
  <2>1. /\ Len(txq) <= TxqCap /\ Len(pending) <= Chunk
        /\ Len(rx_buf) <= RxCap /\ Len(tx_buf) <= TxCap
        /\ inflight \in 0..Len(tx_buf) /\ inflight <= Chunk
        /\ toZ80 \in 0..MaxToZ80 /\ fromZ80 \in 0..MaxFromZ80
    BY <1>3, NetBounds DEF Init
  <2>2. /\ txq \in Seq(Nat) /\ pending \in Seq(Nat) /\ rx_buf \in Seq(Nat)
        /\ tx_buf \in Seq(Nat) /\ z80_log \in Seq(Nat) /\ esp_log \in Seq(Nat)
    BY <1>3, Zenon DEF Init
  <2>3. e_out \in BOOLEAN /\ e_in \in BOOLEAN /\ s_in \in BOOLEAN /\ s_out \in BOOLEAN
    BY DEF Init
  <2> QED
    BY <1>2, <2>1, <2>2, <2>3, Zenon DEF BridgeTypeOK
<1> QED
  BY <1>1, <1>4 DEF TypeInv

LEMMA NextTypes == TypeInv /\ [Next]_vars => TypeInv'
<1> SUFFICES ASSUME LinkInv, BridgeTypeOK, [Next]_vars
             PROVE  LinkInv' /\ BridgeTypeOK'
  BY DEF TypeInv
<1>1. ASSUME UNCHANGED <<espVars, stmVars, histVars>> PROVE BridgeTypeOK'
  BY <1>1 DEF BridgeTypeOK, espVars, stmVars, histVars
<1>2. CASE NetPoll
  BY <1>2, NetPollTypes
<1>3. CASE NetPollAnswer
  BY <1>3, NetPollAnswerTypes
<1>4. CASE NetPollFails
  <2>1. BridgeTypeOK'
    BY <1>4 DEF NetPollFails, BridgeTypeOK, stmVars, histVars
  <2> QED
    BY <1>4, <2>1, CallTypes DEF NetPollFails
<1>5. CASE OtherRequest
  BY <1>1, <1>5, CallTypes DEF OtherRequest
<1>6. CASE OtherAnswer
  BY <1>1, <1>6, CallTypes DEF OtherAnswer
<1>7. CASE OtherFails
  BY <1>1, <1>7, CallTypes DEF OtherFails
<1>8. CASE StmNetPoll
  BY <1>8, StmNetPollTypes
<1>9. CASE StmGarbled
  BY <1>1, <1>9, ServeTypes DEF StmGarbled, TakeGarbled, RespFrames
<1>10. CASE StmOther
  BY <1>1, <1>10, ServeTypes DEF StmOther, RespFrames
<1>11. CASE Z80Read
  BY <1>11, Z80ReadTypes
<1>12. CASE Z80Write
  BY <1>12, Z80WriteTypes
<1>13. CASE LinkStep
  BY <1>1, <1>13, LinkStepTypes DEF LinkStep
<1>14. CASE UNCHANGED vars
  BY <1>1, <1>14 DEF vars, linkVars, LinkInv, LinkTypeOK, AttemptsLeft
<1> QED
  BY <1>2, <1>3, <1>4, <1>5, <1>6, <1>7, <1>8, <1>9, <1>10, <1>11, <1>12,
     <1>13, <1>14, Zenon DEF Next

LEMMA TypeInvariance == Spec => []TypeInv
BY InitTypes, NextTypes, PTL DEF Spec

\* Every variable keeps its type and every ring buffer, chunk and counter its
\* limit, whatever the sizes of buffers and chunks and the number of retries.
THEOREM TypeCorrect == Spec => []TypeOK
<1>1. TypeInv => TypeOK
  BY DEF TypeInv, LinkInv, TypeOK
<1> QED
  BY <1>1, TypeInvariance, PTL

-----------------------------------------------------------------------------
(* The alternating bit, for either direction.                              *)


\* t is what is left of s once n frames left its front.
Shift(t, s, n) == \A i \in DOMAIN t : i + n \in DOMAIN s /\ t[i] = s[i + n]

LEMMA ShiftPositions ==
  ASSUME NEW S, NEW s \in Seq(S), NEW t \in Seq(S), NEW n \in Nat, Shift(t, s, n)
  PROVE  /\ \A i \in Poll(t) : i + n \in Poll(s) /\ t[i] = s[i + n] /\ i \in Nat
         /\ \A i \in Data(t) : i + n \in Data(s) /\ t[i] = s[i + n] /\ i \in Nat
<1>1. \A i \in DOMAIN t : i \in Nat
  BY LenProperties
<1> QED
  BY <1>1 DEF Shift, Poll, Data

LEMMA NoShift == ASSUME NEW S, NEW s \in Seq(S) PROVE Shift(s, s, 0)
<1>1. \A i \in DOMAIN s : i + 0 = i
  BY LenProperties
<1> QED
  BY <1>1 DEF Shift

LEMMA TailShift ==
  ASSUME NEW S, NEW s \in Seq(S), s # <<>>
  PROVE  Tail(s) \in Seq(S) /\ Shift(Tail(s), s, 1)
<1>1. /\ Tail(s) \in Seq(S) /\ Len(Tail(s)) = Len(s) - 1
      /\ \A i \in 1..Len(Tail(s)) : Tail(s)[i] = s[i + 1]
  BY HeadTailProperties
<1>2. DOMAIN s = 1..Len(s) /\ DOMAIN Tail(s) = 1..Len(Tail(s)) /\ Len(s) \in Nat
  BY <1>1, LenProperties
<1> QED
  BY <1>1, <1>2 DEF Shift

LEMMA TailPositions ==
  ASSUME NEW S, NEW s \in Seq(S), s # <<>>
  PROVE  \A i \in Poll(Tail(s)) : i + 1 \in Poll(s) /\ Tail(s)[i] = s[i + 1]
<1>1. Tail(s) \in Seq(S) /\ Shift(Tail(s), s, 1)
  BY TailShift
<1> QED
  BY <1>1 DEF Shift, Poll

\* Frames leave the lines, at the front.
LEMMA AltBitShift ==
  ASSUME NEW S, NEW dl \in Seq(S), NEW dl2 \in Seq(S), NEW m \in Nat, Shift(dl2, dl, m),
         NEW T, NEW al \in Seq(T), NEW al2 \in Seq(T), NEW n \in Nat, Shift(al2, al, n),
         NEW tx, NEW rx, NEW offer, AltBitInv(dl, al, tx, rx, offer)
  PROVE  AltBitInv(dl2, al2, tx, rx, offer)
<1>1. \A i \in Data(dl2) : i + m \in Data(dl) /\ dl2[i] = dl[i + m] /\ i \in Nat
  BY ShiftPositions
<1>2. \A i \in Poll(al2) : i + n \in Poll(al) /\ al2[i] = al[i + n] /\ i \in Nat
  BY ShiftPositions
<1>3. \A i \in Data(dl2) : dl2[i].seq = tx => dl2[i].data = offer
  BY <1>1 DEF AltBitInv
<1>4. ASSUME NEW i \in Data(dl2), NEW j \in Data(dl2), i < j, dl2[i].seq = tx
      PROVE  dl2[j].seq = tx
  <2>1. i + m < j + m
    BY <1>1, <1>4
  <2> QED
    BY <1>1, <1>4, <2>1 DEF AltBitInv
<1>5. rx # tx => \A i \in Poll(al2) : al2[i].ack = rx
  BY <1>2 DEF AltBitInv
<1>6. ASSUME rx = tx
      PROVE  /\ offer # <<>>
             /\ \A i \in Data(dl2) : dl2[i].seq = tx
  BY <1>1, <1>6 DEF AltBitInv
<1>7. ASSUME rx = tx, NEW i \in Poll(al2), NEW j \in Poll(al2), i < j, al2[i].ack = tx
      PROVE  al2[j].ack = tx
  <2>1. i + n < j + n
    BY <1>2, <1>7
  <2> QED
    BY <1>2, <1>7, <2>1 DEF AltBitInv
<1> QED
  BY <1>3, <1>4, <1>5, <1>6, <1>7 DEF AltBitInv

LEMMA AppendPositions ==
  ASSUME NEW S, NEW s \in Seq(S), NEW f \in S
  PROVE  /\ DOMAIN Append(s, f) = DOMAIN s \cup {Len(s) + 1}
         /\ \A i \in DOMAIN s : /\ Append(s, f)[i] = s[i]
                                /\ i \in Nat /\ i < Len(s) + 1
         /\ Append(s, f)[Len(s) + 1] = f
         /\ Len(s) \in Nat
<1>1. /\ Append(s, f) \in Seq(S) /\ Len(Append(s, f)) = Len(s) + 1
      /\ \A i \in 1..Len(s) : Append(s, f)[i] = s[i]
      /\ Append(s, f)[Len(s) + 1] = f
  BY AppendProperties
<1>2. Len(s) \in Nat /\ DOMAIN s = 1..Len(s)
  BY LenProperties
<1>3. DOMAIN Append(s, f) = 1..(Len(s) + 1)
  BY <1>1, LenProperties
<1> QED
  BY <1>1, <1>2, <1>3

\* The sender writes a frame with its bit, carrying its chunk or nothing; or a
\* frame of another command is written.
LEMMA AltBitOffer ==
  ASSUME NEW S, NEW dl \in Seq(S), NEW f \in S, NEW al,
         NEW tx, NEW rx, NEW offer, AltBitInv(dl, al, tx, rx, offer),
         f.cmd = "NET_POLL" => f.seq = tx /\ f.data \in {offer, <<>>}
  PROVE  AltBitInv(Append(dl, f), al, tx, rx, offer)
<1> DEFINE dl2 == Append(dl, f)
           last == Len(dl) + 1
<1>1. /\ \A i \in Data(dl2) : i = last \/ (i \in Data(dl) /\ dl2[i] = dl[i] /\ i < last)
      /\ last \in Data(dl2) => dl2[last].seq = tx /\ dl2[last].data = offer
      /\ last \in Nat /\ \A i \in Data(dl) : i \in Nat
  BY AppendPositions DEF Data, Poll
<1> HIDE DEF dl2, last
<1>2. \A i \in Data(dl2) : dl2[i].seq = tx => dl2[i].data = offer
  BY <1>1 DEF AltBitInv
<1>3. ASSUME NEW i \in Data(dl2), NEW j \in Data(dl2), i < j, dl2[i].seq = tx
      PROVE  dl2[j].seq = tx
  <2>1. CASE j = last
    BY <1>1, <2>1
  <2>2. CASE j # last
    <3>1. j \in Data(dl) /\ j < last /\ j \in Nat
      BY <1>1, <2>2
    <3>2. i # last
      BY <1>1, <1>3, <3>1
    <3> QED
      BY <1>1, <1>3, <3>1, <3>2, <2>2 DEF AltBitInv
  <2> QED
    BY <2>1, <2>2
<1>4. rx = tx => \A i \in Data(dl2) : dl2[i].seq = tx
  BY <1>1 DEF AltBitInv
<1> QED
  BY <1>2, <1>3, <1>4 DEF AltBitInv, dl2

\* The receiver writes a frame that echoes its bit; or a frame of another
\* command is written.
LEMMA AltBitEcho ==
  ASSUME NEW T, NEW al \in Seq(T), NEW f \in T, NEW dl,
         NEW tx, NEW rx, NEW offer, AltBitInv(dl, al, tx, rx, offer),
         f.cmd = "NET_POLL" => f.ack = rx
  PROVE  AltBitInv(dl, Append(al, f), tx, rx, offer)
<1> DEFINE al2 == Append(al, f)
           last == Len(al) + 1
<1>1. /\ \A i \in Poll(al2) : i = last \/ (i \in Poll(al) /\ al2[i] = al[i] /\ i < last)
      /\ last \in Poll(al2) => al2[last].ack = rx
      /\ last \in Nat /\ \A i \in Poll(al) : i \in Nat
  BY AppendPositions DEF Poll
<1> HIDE DEF al2, last
<1>2. rx # tx => \A i \in Poll(al2) : al2[i].ack = rx
  BY <1>1 DEF AltBitInv
<1>3. ASSUME rx = tx, NEW i \in Poll(al2), NEW j \in Poll(al2), i < j, al2[i].ack = tx
      PROVE  al2[j].ack = tx
  <2>1. CASE j = last
    BY <1>1, <1>3, <2>1
  <2>2. CASE j # last
    <3>1. j \in Poll(al) /\ j < last /\ j \in Nat
      BY <1>1, <2>2
    <3>2. i # last
      BY <1>1, <1>3, <3>1
    <3> QED
      BY <1>1, <1>3, <3>1, <3>2, <2>2 DEF AltBitInv
  <2> QED
    BY <2>1, <2>2
<1> QED
  BY <1>2, <1>3 DEF AltBitInv, al2

\* The head of a line is its first position.
LEMMA HeadPosition ==
  ASSUME NEW S, NEW s \in Seq(S), s # <<>>, Head(s).cmd = "NET_POLL"
  PROVE  /\ Head(s) = s[1] /\ 1 \in Poll(s)
         /\ Head(s).data # <<>> => 1 \in Data(s)
         /\ \A i \in DOMAIN Tail(s) : i \in Nat /\ 1 < i + 1
<1>1. Len(s) \in Nat \ {0} /\ DOMAIN s = 1..Len(s)
  BY EmptySeq, LenProperties
<1>2. Head(s) = s[1]
  OBVIOUS
<1>3. Tail(s) \in Seq(S)
  BY HeadTailProperties
<1>4. \A i \in DOMAIN Tail(s) : i \in Nat /\ 1 <= i
  BY <1>3, LenProperties
<1> QED
  BY <1>1, <1>2, <1>4 DEF Poll, Data

\* The receiver stores the chunk of the frame it takes, if its bit is new: it
\* is the chunk the sender offers.
LEMMA AltBitStore ==
  ASSUME NEW S, NEW dl \in Seq(S), dl # <<>>, Head(dl).cmd = "NET_POLL",
         Head(dl).data # <<>>, NEW al,
         NEW tx \in BOOLEAN, NEW rx \in BOOLEAN, Head(dl).seq \in BOOLEAN,
         Head(dl).seq # rx,
         NEW offer, AltBitInv(dl, al, tx, rx, offer)
  PROVE  /\ rx # tx /\ Head(dl).seq = tx /\ Head(dl).data = offer
         /\ AltBitInv(Tail(dl), al, tx, Head(dl).seq, offer)
<1>1. Head(dl) = dl[1] /\ 1 \in Data(dl)
  BY HeadPosition
<1>2. rx # tx
  BY <1>1 DEF AltBitInv
<1>3. Head(dl).seq = tx
  BY <1>2
<1>4. Head(dl).data = offer
  BY <1>1, <1>3 DEF AltBitInv
<1>5. /\ \A i \in Data(Tail(dl)) : i + 1 \in Data(dl) /\ Tail(dl)[i] = dl[i + 1] /\ i \in Nat
      /\ \A i \in Data(Tail(dl)) : 1 < i + 1
  BY TailShift, ShiftPositions, HeadPosition DEF Data, Poll
<1>6. ASSUME NEW i \in Data(Tail(dl))
      PROVE  Tail(dl)[i].seq = tx /\ Tail(dl)[i].data = offer
  <2>1. i + 1 \in Data(dl) /\ Tail(dl)[i] = dl[i + 1] /\ 1 < i + 1
    BY <1>5
  <2>2. dl[1].seq = tx
    BY <1>1, <1>3
  <2>3. dl[i + 1].seq = tx
    BY <1>1, <2>1, <2>2 DEF AltBitInv
  <2> QED
    BY <2>1, <2>3 DEF AltBitInv
<1>7. \A i \in Poll(al) : al[i].ack # tx
  BY <1>2 DEF AltBitInv
<1> QED
  BY <1>2, <1>3, <1>4, <1>6, <1>7 DEF AltBitInv

\* The sender sees its chunk confirmed: it was stored, and all that follows on
\* the line confirms it too.
LEMMA AltBitConfirm ==
  ASSUME NEW T, NEW al \in Seq(T), al # <<>>, Head(al).cmd = "NET_POLL",
         NEW tx, NEW rx, Head(al).ack = tx,
         NEW dl, NEW offer, AltBitInv(dl, al, tx, rx, offer)
  PROVE  rx = tx /\ \A i \in Poll(Tail(al)) : Tail(al)[i].ack = tx
<1>1. Head(al) = al[1] /\ 1 \in Poll(al)
  BY HeadPosition
<1>2. rx = tx
  BY <1>1 DEF AltBitInv
<1>3. /\ \A i \in Poll(Tail(al)) : i + 1 \in Poll(al) /\ Tail(al)[i] = al[i + 1] /\ i \in Nat
      /\ \A i \in Poll(Tail(al)) : 1 < i + 1
  BY TailShift, ShiftPositions, HeadPosition DEF Poll
<1>4. \A i \in Poll(Tail(al)) : Tail(al)[i].ack = tx
  BY <1>1, <1>2, <1>3 DEF AltBitInv
<1> QED
  BY <1>2, <1>4

\* It goes on with the other bit, and any chunk or none.
LEMMA AltBitRelease ==
  ASSUME NEW dl, NEW al, NEW al2, NEW tx \in BOOLEAN, NEW offer, NEW next,
         AltBitInv(dl, al, tx, tx, offer),
         \A i \in Poll(al2) : al2[i].ack = tx
  PROVE  AltBitInv(dl, al2, ~tx, tx, next)
<1>1. \A i \in Data(dl) : dl[i].seq # ~tx
  BY DEF AltBitInv
<1> QED
  BY <1>1 DEF AltBitInv

\* A sender with no chunk may take one up: no frame on the line has its bit.
LEMMA AltBitLoad ==
  ASSUME NEW dl, NEW al, NEW tx, NEW rx, NEW offer,
         AltBitInv(dl, al, tx, rx, <<>>)
  PROVE  rx # tx /\ AltBitInv(dl, al, tx, rx, offer)
<1>1. \A i \in Data(dl) : dl[i].seq # tx
  BY DEF AltBitInv, Data
<1> QED
  BY <1>1 DEF AltBitInv

-----------------------------------------------------------------------------
(* NetInv.                                                                 *)


LinesInv == RequestCurrent /\ DownLine /\ UpLine /\ CreditLine
CoreInv  == TypeInv /\ LinesInv

LEMMA CoreTypes ==
  ASSUME TypeInv
  PROVE  /\ reqs \in Seq(ReqFrames) /\ resps \in Seq(RespFrames)
         /\ e_out \in BOOLEAN /\ e_in \in BOOLEAN /\ s_in \in BOOLEAN /\ s_out \in BOOLEAN
         /\ pending \in Seq(Nat) /\ rx_buf \in Seq(Nat) /\ tx_buf \in Seq(Nat)
         /\ txq \in Seq(Nat) /\ z80_log \in Seq(Nat) /\ esp_log \in Seq(Nat)
         /\ inflight \in 0..Len(tx_buf) /\ Len(tx_buf) \in Nat
         /\ credit \in Nat /\ Len(rx_buf) \in Nat /\ RxFree \in Nat
         /\ Len(pending) \in Nat /\ toZ80 \in Nat /\ fromZ80 \in Nat
<1>1. LinkTypeOK /\ BridgeTypeOK
  BY DEF TypeInv, LinkInv
<1>2. /\ reqs \in Seq(ReqFrames) /\ resps \in Seq(RespFrames)
      /\ e_out \in BOOLEAN /\ e_in \in BOOLEAN /\ s_in \in BOOLEAN /\ s_out \in BOOLEAN
      /\ pending \in Seq(Nat) /\ rx_buf \in Seq(Nat) /\ tx_buf \in Seq(Nat)
      /\ txq \in Seq(Nat) /\ z80_log \in Seq(Nat) /\ esp_log \in Seq(Nat)
      /\ inflight \in 0..Len(tx_buf) /\ credit \in Nat
  BY <1>1 DEF LinkTypeOK, BridgeTypeOK
<1>3. Len(tx_buf) \in Nat /\ Len(rx_buf) \in Nat /\ Len(pending) \in Nat
  BY <1>2, LenProperties, Zenon
<1>4. RxFree \in Nat
  BY <1>1, <1>3, NetBounds DEF BridgeTypeOK, RxFree
<1>5. toZ80 \in Nat /\ fromZ80 \in Nat
  BY <1>1, NetBounds DEF BridgeTypeOK
<1> QED
  BY <1>2, <1>3, <1>4, <1>5

LEMMA DropShift ==
  ASSUME NEW S, NEW s \in Seq(S), NEW n \in 0..Len(s)
  PROVE  Drop(s, n) \in Seq(S) /\ Shift(Drop(s, n), s, n) /\ n \in Nat
<1>1. /\ Drop(s, n) \in Seq(S) /\ Len(Drop(s, n)) = Len(s) - n
      /\ \A i \in 1..(Len(s) - n) : Drop(s, n)[i] = s[i + n]
  BY DropFacts
<1>2. Len(s) \in Nat /\ DOMAIN s = 1..Len(s) /\ DOMAIN Drop(s, n) = 1..Len(Drop(s, n))
  BY <1>1, LenProperties
<1> QED
  BY <1>1, <1>2 DEF Shift

-----------------------------------------------------------------------------
(* What leaves the lines as they are, or takes frames off their front.     *)

LEMMA CreditShift ==
  ASSUME TypeInv, CreditLine, NEW n \in Nat,
         resps' \in Seq(RespFrames), Shift(resps', resps, n),
         UNCHANGED <<credit, pending, s_in, e_out>>, RxFree' \in Nat, RxFree <= RxFree'
  PROVE  CreditLine'
<1>1. resps \in Seq(RespFrames) /\ RxFree \in Nat /\ Len(pending) \in Nat /\ credit \in Nat
  BY CoreTypes
<1>2. \A i \in Poll(resps') : i + n \in Poll(resps) /\ resps'[i] = resps[i + n]
  BY <1>1, ShiftPositions
<1>3. CreditSound'
  BY <1>1 DEF CreditLine, CreditSound
<1>4. credit * Unit \in Nat
  BY <1>1, NetBounds
<1>5. pending' = <<>> => credit' * Unit <= RxFree'
  BY <1>1, <1>4 DEF CreditLine
<1>6. ASSUME NEW i \in Poll(resps'), s_in' # e_out' \/ resps'[i].ack = e_out'
      PROVE  resps'[i].free * Unit <= RxFree'
  <2>1. i + n \in Poll(resps) /\ resps'[i] = resps[i + n]
    BY <1>2
  <2>2. resps[i + n].free * Unit <= RxFree
    BY <1>6, <2>1 DEF CreditLine
  <2>3. resps[i + n].free \in Nat
    <3>1. resps[i + n] \in RespFrames /\ resps[i + n].cmd = "NET_POLL"
      BY <1>1, <2>1, LenProperties DEF Poll
    <3> QED
      BY <3>1 DEF RespFrames, PollAnswers, FrameError, Other
  <2>4. resps[i + n].free * Unit \in Nat
    BY <2>3, NetBounds
  <2> QED
    BY <1>1, <2>1, <2>2, <2>4
<1> QED
  BY <1>3, <1>5, <1>6 DEF CreditLine

LEMMA LinesShift ==
  ASSUME TypeInv, DownLine, UpLine, NEW m \in Nat, NEW n \in Nat,
         reqs' \in Seq(ReqFrames), Shift(reqs', reqs, m),
         resps' \in Seq(RespFrames), Shift(resps', resps, n),
         UNCHANGED <<e_out, e_in, s_in, s_out, pending, tx_buf, inflight>>
  PROVE  DownLine' /\ UpLine'
<1>1. reqs \in Seq(ReqFrames) /\ resps \in Seq(RespFrames)
  BY CoreTypes
<1>2. AltBitInv(reqs', resps', e_out, s_in, pending)
  BY <1>1, AltBitShift DEF DownLine
<1>3. AltBitInv(resps', reqs', s_out, e_in, SubSeq(tx_buf, 1, inflight))
  BY <1>1, AltBitShift DEF UpLine
<1> QED
  BY <1>2, <1>3 DEF DownLine, UpLine

LEMMA LinkStepLines ==
  ASSUME CoreInv, LinkStep
  PROVE  LinesInv'
<1>1. TypeInv /\ RequestCurrent /\ DownLine /\ UpLine /\ CreditLine
  BY DEF CoreInv, LinesInv
<1>2. UNCHANGED <<e_out, e_in, s_in, s_out, pending, tx_buf, inflight, credit, rx_buf>>
  BY DEF LinkStep, espVars, stmVars
<1>3. reqs \in Seq(ReqFrames) /\ resps \in Seq(RespFrames) /\ RxFree \in Nat
  BY <1>1, CoreTypes
<1>4. RxFree' = RxFree
  BY <1>2 DEF RxFree
<1>5. \E n \in Nat : resps' \in Seq(RespFrames) /\ Shift(resps', resps, n)
  <2>1. CASE resps' = resps
    BY <1>3, <2>1, NoShift
  <2>2. CASE resps # <<>> /\ resps' = Tail(resps)
    BY <1>3, <2>2, TailShift
  <2>3. CASE \E n \in 0..Len(resps) : resps' = Drop(resps, n)
    BY <1>3, <2>3, DropShift
  <2> QED
    BY <2>1, <2>2, <2>3
    DEF LinkStep, TransmitOk, TransmitBad, Attempt, ReadTimeout, ReadFrameError, ReadStale
<1>6. PICK n \in Nat : resps' \in Seq(RespFrames) /\ Shift(resps', resps, n)
  BY <1>5
<1>7. CreditLine'
  BY <1>1, <1>2, <1>3, <1>4, <1>6, CreditShift
<1>8. AltBitInv(reqs, resps', e_out, s_in, pending)
  BY <1>1, <1>3, <1>6, NoShift, AltBitShift DEF DownLine
<1>9. AltBitInv(resps', reqs, s_out, e_in, SubSeq(tx_buf, 1, inflight))
  BY <1>1, <1>3, <1>6, NoShift, AltBitShift DEF UpLine
<1>10. ASSUME NEW f \in ReqFrames, reqs' = Append(reqs, f),
              f.cmd = "NET_POLL" => f = PollRequest(pending)
       PROVE  DownLine' /\ UpLine'
  <2>1. f.cmd = "NET_POLL" => /\ f.seq = e_out /\ f.ack = e_in
                              /\ f.data \in {pending, <<>>}
    BY <1>10 DEF PollRequest
  <2>2. AltBitInv(reqs', resps', e_out, s_in, pending)
    BY <1>3, <1>8, <1>10, <2>1, AltBitOffer
  <2>3. AltBitInv(resps', reqs', s_out, e_in, SubSeq(tx_buf, 1, inflight))
    BY <1>3, <1>9, <1>10, <2>1, AltBitEcho
  <2> QED
    BY <1>2, <2>2, <2>3 DEF DownLine, UpLine
<1>11. DownLine' /\ UpLine'
  <2>1. CASE reqs' = reqs
    BY <1>2, <1>8, <1>9, <2>1 DEF DownLine, UpLine
  <2>2. CASE reqs' = Append(reqs, Garbled)
    BY <1>10, <2>2 DEF Garbled, ReqFrames
  <2>3. CASE reqs' = Append(reqs, request) /\ phase # "idle"
    BY <1>1, <1>10, <2>3, RequestIsFrame DEF RequestCurrent, TypeInv
  <2> QED
    BY <2>1, <2>2, <2>3
    DEF LinkStep, TransmitOk, TransmitBad, Attempt, ReadTimeout, ReadFrameError, ReadStale
<1>12. RequestCurrent'
  <2>1. request' = request
    BY DEF LinkStep, TransmitOk, TransmitBad, Attempt, ReadTimeout, ReadFrameError, ReadStale
  <2> QED
    BY <1>1, <1>2, <2>1 DEF RequestCurrent, PollRequest
<1> QED
  BY <1>7, <1>11, <1>12 DEF LinesInv
-----------------------------------------------------------------------------
(* The ESP32.                                                              *)

LEMMA NetPollLines ==
  ASSUME CoreInv, NetPoll
  PROVE  LinesInv'
<1>1. TypeInv /\ DownLine /\ UpLine /\ CreditLine
  BY DEF CoreInv, LinesInv
<1>2. PICK k \in 0..FeedRoom :
        LET q == txq \o Bytes(toZ80, toZ80 + k) IN
        /\ pending' = IF Load(q) > 0 THEN SubSeq(q, 1, Load(q)) ELSE pending
        /\ Request(PollRequest(pending'))
        /\ UNCHANGED <<credit, e_out, e_in, stmVars>>
  BY Zenon DEF NetPoll
<1> DEFINE q == txq \o Bytes(toZ80, toZ80 + k)
           n == Load(q)
<1>3. q \in Seq(Nat)
  BY <1>1, FeedFacts DEF TypeInv
<1>4. /\ n \in 0..Len(q)
      /\ n > 0 => pending = <<>> /\ n <= credit * Unit
  BY <1>1, <1>3, LoadFacts DEF TypeInv
<1>5. pending' = IF n > 0 THEN SubSeq(q, 1, n) ELSE pending
  BY <1>2
<1> HIDE DEF n, q
<1>6. SubSeq(q, 1, n) \in Seq(Nat) /\ Len(SubSeq(q, 1, n)) = n
  BY <1>3, <1>4, PrefixFacts, Zenon
<1>7. /\ UNCHANGED <<reqs, resps, credit, e_out, e_in, s_in, s_out, rx_buf, tx_buf, inflight>>
      /\ request' = PollRequest(pending')
  BY <1>2 DEF Request, stmVars
<1>8. RxFree' = RxFree /\ RxFree \in Nat /\ Len(pending) \in Nat /\ credit \in Nat
  BY <1>1, <1>7, CoreTypes DEF RxFree
<1>9. DownLine'
  <2>1. CASE n > 0
    <3>1. AltBitInv(reqs, resps, e_out, s_in, <<>>)
      BY <1>1, <1>4, <2>1 DEF DownLine
    <3>2. AltBitInv(reqs, resps, e_out, s_in, pending')
      BY <3>1, AltBitLoad
    <3> QED
      BY <1>7, <3>2 DEF DownLine
  <2>2. CASE ~(n > 0)
    BY <1>1, <1>5, <1>7, <2>2 DEF DownLine
  <2> QED
    BY <2>1, <2>2
<1>10. UpLine'
  BY <1>1, <1>7 DEF UpLine
<1>11. CreditLine'
  <2>1. CreditSound'
    <3>1. CASE n > 0
      <4>1. n <= credit * Unit /\ credit * Unit <= RxFree
        BY <1>1, <1>4, <3>1 DEF CreditLine
      <4>2. credit * Unit \in Nat /\ n \in Nat
        BY <1>3, <1>4, <1>8, NetBounds, LenProperties
      <4>3. Len(pending') <= RxFree'
        BY <1>5, <1>6, <1>8, <3>1, <4>1, <4>2
      <4> QED
        BY <4>3 DEF CreditSound
    <3>2. CASE ~(n > 0)
      BY <1>1, <1>5, <1>7, <1>8, <3>2 DEF CreditLine, CreditSound
    <3> QED
      BY <3>1, <3>2
  <2>2. pending' = <<>> => pending = <<>>
    <3>1. Len(<<>>) = 0
      BY EmptySeq
    <3> QED
      BY <1>4, <1>5, <1>6, <3>1
  <2> QED
    BY <1>1, <1>7, <1>8, <2>1, <2>2 DEF CreditLine
<1>12. RequestCurrent'
  BY <1>7 DEF RequestCurrent, PollRequest
<1> QED
  BY <1>9, <1>10, <1>11, <1>12 DEF LinesInv

\* What the ESP32 learns from an answer it accepts.
LEMMA NetPollAnswerFacts ==
  ASSUME CoreInv, NetPollAnswer
  PROVE  LET ans == Head(resps) IN
         /\ resps # <<>> /\ ans \in PollAnswers /\ ans.cmd = "NET_POLL"
         /\ resps' = Tail(resps) /\ UNCHANGED reqs
         /\ EspAcked(ans) => s_in = e_out /\ pending # <<>>
         /\ pending' = IF EspAcked(ans) THEN <<>> ELSE pending
         /\ e_out' = IF EspAcked(ans) THEN ~e_out ELSE e_out
         /\ EspFresh(ans) => /\ e_in # s_out /\ ans.seq = s_out
                             /\ ans.data = SubSeq(tx_buf, 1, inflight)
         /\ e_in' = IF EspFresh(ans) THEN ans.seq ELSE e_in
         /\ UNCHANGED <<s_in, s_out, rx_buf, tx_buf, inflight>>
<1> DEFINE ans == Head(resps)
<1>1. TypeInv /\ RequestCurrent /\ DownLine /\ UpLine
  BY DEF CoreInv, LinesInv
<1>2. request = PollRequest(pending)
  BY <1>1 DEF NetPollAnswer, RequestCurrent
<1>3. request.data = pending
  BY <1>2 DEF PollRequest
<1>4. /\ resps # <<>> /\ ans.cmd = "NET_POLL"
      /\ resps' = Tail(resps) /\ UNCHANGED reqs
  BY DEF NetPollAnswer, ReadAnswer
<1>5. ans \in PollAnswers
  BY <1>1, AnswerFacts DEF NetPollAnswer, TypeInv
<1>6. /\ e_out' = IF EspAcked(ans) THEN ~e_out ELSE e_out
      /\ pending' = IF EspAcked(ans) \/ request.data = <<>> THEN <<>> ELSE pending
      /\ e_in' = IF EspFresh(ans) THEN ans.seq ELSE e_in
      /\ UNCHANGED <<s_in, s_out, rx_buf, tx_buf, inflight>>
  BY DEF NetPollAnswer, stmVars
<1>7. /\ reqs \in Seq(ReqFrames) /\ resps \in Seq(RespFrames)
      /\ e_out \in BOOLEAN /\ e_in \in BOOLEAN /\ s_in \in BOOLEAN /\ s_out \in BOOLEAN
  BY <1>1, CoreTypes
<1>8. ans.seq \in BOOLEAN
  BY <1>5 DEF PollAnswers
<1>9. ASSUME EspAcked(ans) PROVE s_in = e_out /\ pending # <<>>
  <2>1. Head(resps).ack = e_out /\ pending # <<>>
    BY <1>3, <1>9 DEF EspAcked
  <2>2. AltBitInv(reqs, resps, e_out, s_in, pending)
    BY <1>1 DEF DownLine
  <2>3. resps # <<>> /\ Head(resps).cmd = "NET_POLL"
    BY <1>4
  <2>4. s_in = e_out /\ \A i \in Poll(Tail(resps)) : Tail(resps)[i].ack = e_out
    BY <1>7, <2>1, <2>2, <2>3, AltBitConfirm
  <2> QED
    BY <2>1, <2>4
<1>10. ASSUME EspFresh(ans)
       PROVE  /\ e_in # s_out /\ ans.seq = s_out
              /\ ans.data = SubSeq(tx_buf, 1, inflight)
  <2> DEFINE offer == SubSeq(tx_buf, 1, inflight)
  <2>1. ans.data # <<>> /\ ans.seq # e_in
    BY <1>10 DEF EspFresh
  <2>2. AltBitInv(resps, reqs, s_out, e_in, offer)
    BY <1>1 DEF UpLine
  <2>3. resps # <<>> /\ ans.cmd = "NET_POLL"
    BY <1>4
  <2> HIDE DEF offer
  <2>4. e_in # s_out
    BY <1>7, <1>8, <2>1, <2>2, <2>3, AltBitStore
  <2>5. ans.seq = s_out
    BY <1>7, <1>8, <2>1, <2>2, <2>3, AltBitStore
  <2>6. ans.data = offer
    BY <1>7, <1>8, <2>1, <2>2, <2>3, AltBitStore
  <2> QED
    BY <2>4, <2>5, <2>6 DEF offer
<1>11. pending' = IF EspAcked(ans) THEN <<>> ELSE pending
  BY <1>3, <1>6
<1> QED
  BY <1>4, <1>5, <1>6, <1>9, <1>10, <1>11, Zenon

LEMMA NetPollAnswerLines ==
  ASSUME CoreInv, NetPollAnswer
  PROVE  LinesInv'
<1> DEFINE ans == Head(resps)
<1>1. TypeInv /\ RequestCurrent /\ DownLine /\ UpLine /\ CreditLine
  BY DEF CoreInv, LinesInv
<1>2. /\ resps # <<>> /\ ans \in PollAnswers /\ ans.cmd = "NET_POLL"
      /\ resps' = Tail(resps) /\ UNCHANGED reqs
      /\ EspAcked(ans) => s_in = e_out /\ pending # <<>>
      /\ pending' = IF EspAcked(ans) THEN <<>> ELSE pending
      /\ e_out' = IF EspAcked(ans) THEN ~e_out ELSE e_out
      /\ EspFresh(ans) => /\ e_in # s_out /\ ans.seq = s_out
                          /\ ans.data = SubSeq(tx_buf, 1, inflight)
      /\ e_in' = IF EspFresh(ans) THEN ans.seq ELSE e_in
      /\ UNCHANGED <<s_in, s_out, rx_buf, tx_buf, inflight>>
  BY NetPollAnswerFacts, Zenon
<1>3. /\ reqs \in Seq(ReqFrames) /\ resps \in Seq(RespFrames)
      /\ e_out \in BOOLEAN /\ e_in \in BOOLEAN /\ s_in \in BOOLEAN /\ s_out \in BOOLEAN
      /\ RxFree \in Nat /\ pending \in Seq(Nat) /\ Len(pending) \in Nat
  BY <1>1, CoreTypes
<1>4. ans.free \in Nat /\ ans.seq \in BOOLEAN
  BY <1>2 DEF PollAnswers
<1>5. Tail(resps) \in Seq(RespFrames) /\ Shift(Tail(resps), resps, 1)
  BY <1>2, <1>3, TailShift
<1>6. Shift(reqs, reqs, 0)
  BY <1>3, NoShift
<1>7. ASSUME EspAcked(ans)
      PROVE  /\ ans.ack = e_out
             /\ \A i \in Poll(Tail(resps)) : Tail(resps)[i].ack = e_out
             /\ AltBitInv(reqs, Tail(resps), ~e_out, s_in, <<>>)
  <2>1. Head(resps).ack = e_out
    BY <1>7 DEF EspAcked
  <2>2. AltBitInv(reqs, resps, e_out, s_in, pending)
    BY <1>1 DEF DownLine
  <2>3. resps # <<>> /\ Head(resps).cmd = "NET_POLL"
    BY <1>2
  <2>4. s_in = e_out /\ \A i \in Poll(Tail(resps)) : Tail(resps)[i].ack = e_out
    BY <1>3, <2>1, <2>2, <2>3, AltBitConfirm
  <2>5. AltBitInv(reqs, Tail(resps), ~e_out, e_out, <<>>)
    BY <1>3, <2>2, <2>4, AltBitRelease
  <2> QED
    BY <2>1, <2>4, <2>5
<1>8. DownLine'
  <2>1. CASE EspAcked(ans)
    BY <1>2, <1>7, <2>1 DEF DownLine
  <2>2. CASE ~EspAcked(ans)
    <3>1. AltBitInv(reqs, Tail(resps), e_out, s_in, pending)
      BY <1>1, <1>3, <1>5, <1>6, AltBitShift DEF DownLine
    <3> QED
      BY <1>2, <2>2, <3>1 DEF DownLine
  <2> QED
    BY <2>1, <2>2
<1>9. UpLine'
  <2>1. CASE EspFresh(ans)
    <3>1. ans.data # <<>> /\ ans.seq # e_in
      BY <2>1 DEF EspFresh
    <3>2. AltBitInv(Tail(resps), reqs, s_out, ans.seq, SubSeq(tx_buf, 1, inflight))
      <4>1. AltBitInv(resps, reqs, s_out, e_in, SubSeq(tx_buf, 1, inflight))
        BY <1>1 DEF UpLine
      <4>2. resps # <<>> /\ ans.cmd = "NET_POLL"
        BY <1>2
      <4> QED
        BY <1>3, <1>4, <3>1, <4>1, <4>2, AltBitStore
    <3> QED
      BY <1>2, <2>1, <3>2 DEF UpLine
  <2>2. CASE ~EspFresh(ans)
    <3> DEFINE offer == SubSeq(tx_buf, 1, inflight)
    <3>0. AltBitInv(resps, reqs, s_out, e_in, offer) /\ 0 \in Nat /\ 1 \in Nat
      BY <1>1 DEF UpLine
    <3> HIDE DEF offer
    <3>1. AltBitInv(Tail(resps), reqs, s_out, e_in, offer)
      BY <1>3, <1>5, <1>6, <3>0, AltBitShift, ZenonT(30)
    <3> USE DEF offer
    <3> QED
      BY <1>2, <2>2, <3>1 DEF UpLine
  <2> QED
    BY <2>1, <2>2
<1>10. CreditLine'
  <2>1. RxFree' = RxFree /\ credit' = ans.free
    BY <1>2 DEF RxFree, NetPollAnswer
  <2>2. 1 \in Poll(resps) /\ Head(resps) = resps[1]
    <3>1. resps # <<>> /\ Head(resps).cmd = "NET_POLL" /\ resps \in Seq(RespFrames)
      BY <1>2, <1>3
    <3>2. 1 \in Poll(resps)
      BY <3>1, HeadPosition, Zenon
    <3>3. Head(resps) = resps[1]
      BY <3>1, HeadPosition, Zenon
    <3> QED
      BY <3>2, <3>3
  <2>3. \A i \in Poll(Tail(resps)) : i + 1 \in Poll(resps) /\ Tail(resps)[i] = resps[i + 1]
    BY <1>2, <1>3, TailPositions
  <2>4. CASE EspAcked(ans)
    <3>1. \A i \in Poll(resps') : resps'[i].free * Unit <= RxFree'
      BY <1>1, <1>2, <1>7, <2>1, <2>3, <2>4 DEF CreditLine
    <3>2. credit' * Unit <= RxFree'
      <4>1. resps[1].ack = e_out /\ credit' = resps[1].free
        BY <1>7, <2>1, <2>2, <2>4
      <4>2. resps[1].free * Unit <= RxFree
        BY <1>1, <2>2, <4>1 DEF CreditLine
      <4> QED
        BY <2>1, <4>1, <4>2
    <3>3. Len(pending') = 0
      BY <1>2, <2>4, EmptySeq
    <3>4. CreditSound'
      BY <1>3, <2>1, <3>3 DEF CreditSound
    <3> QED
      BY <3>1, <3>2, <3>4 DEF CreditLine
  <2>5. CASE ~EspAcked(ans)
    <3>1. UNCHANGED <<pending, e_out, s_in>>
      BY <1>2, <2>5
    <3>2. CreditSound'
      BY <1>1, <2>1, <3>1 DEF CreditLine, CreditSound
    <3>3. pending = <<>> => s_in # e_out
      BY <1>1, AltBitLoad DEF DownLine
    <3>4. pending' = <<>> => credit' * Unit <= RxFree'
      <4>1. SUFFICES ASSUME pending = <<>> PROVE credit' * Unit <= RxFree
        BY <2>1, <3>1
      <4>2. resps[1].free * Unit <= RxFree
        BY <1>1, <2>2, <3>3, <4>1 DEF CreditLine
      <4> QED
        BY <2>1, <2>2, <4>2
    <3>5. \A i \in Poll(resps') :
            (s_in' # e_out' \/ resps'[i].ack = e_out') => resps'[i].free * Unit <= RxFree'
      BY <1>1, <1>2, <2>1, <2>3, <3>1 DEF CreditLine
    <3> QED
      BY <3>2, <3>4, <3>5 DEF CreditLine
  <2> QED
    BY <2>4, <2>5
<1>11. RequestCurrent'
  BY DEF NetPollAnswer, ReadAnswer, RequestCurrent, NoRequest
<1> QED
  BY <1>8, <1>9, <1>10, <1>11 DEF LinesInv

LEMMA FailLines ==
  ASSUME CoreInv, NetPollFails
  PROVE  LinesInv'
<1>1. TypeInv /\ DownLine /\ UpLine /\ CreditLine
  BY DEF CoreInv, LinesInv
<1>2. /\ UNCHANGED <<reqs, resps, e_out, e_in, s_in, s_out, pending, rx_buf, tx_buf, inflight>>
      /\ credit' = 0 /\ request' = NoRequest
  BY DEF NetPollFails, ReturnFailure, stmVars
<1>3. RxFree' = RxFree /\ RxFree \in Nat /\ 0 * Unit = 0
  BY <1>1, <1>2, CoreTypes, NetBounds DEF RxFree
<1>4. DownLine' /\ UpLine'
  BY <1>1, <1>2 DEF DownLine, UpLine
<1>5. CreditLine'
  BY <1>1, <1>2, <1>3 DEF CreditLine, CreditSound
<1>6. RequestCurrent'
  BY <1>2 DEF RequestCurrent, NoRequest
<1> QED
  BY <1>4, <1>5, <1>6 DEF LinesInv

\* Calls of other commands leave the bridge alone.
LEMMA OtherCallLines ==
  ASSUME CoreInv, OtherRequest \/ OtherAnswer \/ OtherFails
  PROVE  LinesInv'
<1>1. TypeInv /\ DownLine /\ UpLine /\ CreditLine
  BY DEF CoreInv, LinesInv
<1>2. UNCHANGED <<reqs, e_out, e_in, s_in, s_out, pending, rx_buf, tx_buf, inflight, credit>>
  BY DEF OtherRequest, OtherAnswer, OtherFails, Request, ReadAnswer, ReturnFailure,
         espVars, stmVars
<1>3. reqs \in Seq(ReqFrames) /\ resps \in Seq(RespFrames) /\ RxFree \in Nat
  BY <1>1, CoreTypes
<1>4. RxFree' = RxFree
  BY <1>2 DEF RxFree
<1>5. \E n \in Nat : resps' \in Seq(RespFrames) /\ Shift(resps', resps, n)
  <2>1. CASE resps' = resps
    BY <1>3, <2>1, NoShift
  <2>2. CASE resps # <<>> /\ resps' = Tail(resps)
    BY <1>3, <2>2, TailShift
  <2> QED
    BY <2>1, <2>2 DEF OtherRequest, OtherAnswer, OtherFails, Request, ReadAnswer, ReturnFailure
<1>6. PICK n \in Nat : resps' \in Seq(RespFrames) /\ Shift(resps', resps, n)
  BY <1>5
<1>7. CreditLine'
  BY <1>1, <1>2, <1>3, <1>4, <1>6, CreditShift
<1>8. reqs' \in Seq(ReqFrames) /\ Shift(reqs', reqs, 0)
  BY <1>2, <1>3, NoShift
<1>9. DownLine' /\ UpLine'
  BY <1>1, <1>2, <1>6, <1>8, LinesShift
<1>10. RequestCurrent'
  BY DEF OtherRequest, OtherAnswer, OtherFails, Request, ReadAnswer, ReturnFailure,
         RequestCurrent, NoRequest, Other
<1> QED
  BY <1>7, <1>9, <1>10 DEF LinesInv

-----------------------------------------------------------------------------
(* The STM32.                                                              *)

\* What the STM32 learns from a request it takes.
LEMMA StmNetPollFacts ==
  ASSUME CoreInv, StmNetPoll
  PROVE  LET req == Head(reqs) IN
         /\ reqs # <<>> /\ req \in PollRequests /\ req.cmd = "NET_POLL"
         /\ reqs' = Tail(reqs)
         /\ Accepts(req) => /\ s_in # e_out /\ req.seq = e_out /\ req.data = pending
                            /\ pending # <<>> /\ Len(pending) <= RxFree
         /\ StmAcked(req) => e_in = s_out /\ inflight > 0
<1> DEFINE req == Head(reqs)
           offer == SubSeq(tx_buf, 1, inflight)
<1>1. TypeInv /\ DownLine /\ UpLine
  BY DEF CoreInv, LinesInv
<1>2. reqs # <<>> /\ req.cmd = "NET_POLL" /\ reqs' = Tail(reqs)
  BY DEF StmNetPoll, Take
<1>3. req \in PollRequests
  BY <1>1, RequestFacts DEF StmNetPoll, TypeInv
<1>4. /\ reqs \in Seq(ReqFrames) /\ resps \in Seq(RespFrames)
      /\ e_out \in BOOLEAN /\ e_in \in BOOLEAN /\ s_in \in BOOLEAN /\ s_out \in BOOLEAN
  BY <1>1, CoreTypes
<1>5. req.seq \in BOOLEAN
  BY <1>3 DEF PollRequests
<1>6. ASSUME Accepts(req)
      PROVE  /\ s_in # e_out /\ req.seq = e_out /\ req.data = pending
             /\ pending # <<>> /\ Len(pending) <= RxFree
  <2>1. req.data # <<>> /\ req.seq # s_in /\ Len(req.data) <= RxFree
    BY <1>6 DEF Accepts
  <2>2. AltBitInv(reqs, resps, e_out, s_in, pending)
    BY <1>1 DEF DownLine
  <2>3. s_in # e_out
    BY <1>2, <1>4, <1>5, <2>1, <2>2, AltBitStore
  <2>4. req.seq = e_out
    BY <1>2, <1>4, <1>5, <2>1, <2>2, AltBitStore
  <2>5. req.data = pending
    BY <1>2, <1>4, <1>5, <2>1, <2>2, AltBitStore
  <2> QED
    BY <2>1, <2>3, <2>4, <2>5
<1>7. ASSUME StmAcked(req)
      PROVE  e_in = s_out /\ inflight > 0
  <2>1. Head(reqs).ack = s_out /\ inflight > 0
    BY <1>7 DEF StmAcked
  <2>2. AltBitInv(resps, reqs, s_out, e_in, offer)
    BY <1>1 DEF UpLine
  <2>3. reqs # <<>> /\ Head(reqs).cmd = "NET_POLL"
    BY <1>2
  <2> HIDE DEF offer
  <2>4. e_in = s_out /\ \A i \in Poll(Tail(reqs)) : Tail(reqs)[i].ack = s_out
    BY <1>4, <2>1, <2>2, <2>3, AltBitConfirm, ZenonT(30)
  <2> QED
    BY <2>1, <2>4
<1> QED
  BY <1>2, <1>3, <1>6, <1>7, Zenon

\* The effect of handle_net_poll on the STM32's variables.
LEMMA StmNetPollEffect ==
  ASSUME CoreInv, StmNetPoll
  PROVE  LET req   == Head(reqs)
             queue == IF StmAcked(req) THEN Drop(tx_buf, inflight) ELSE tx_buf
             n     == Offer(req, queue)
             ans   == PollAnswer(s_out', s_in', FreeUnits(rx_buf'), SubSeq(queue, 1, n))
         IN /\ rx_buf' = IF Accepts(req) THEN rx_buf \o req.data ELSE rx_buf
            /\ s_in' = IF Accepts(req) THEN req.seq ELSE s_in
            /\ s_out' = IF StmAcked(req) THEN ~s_out ELSE s_out
            /\ tx_buf' = queue /\ inflight' = n
            /\ ans \in RespFrames
            /\ resps' = resps \/ resps' = Append(resps, ans)
            /\ UNCHANGED <<e_out, e_in, pending, credit, request, txq, toZ80, z80_log,
                           fromZ80, esp_log>>
<1> DEFINE req   == Head(reqs)
           queue == IF StmAcked(req) THEN Drop(tx_buf, inflight) ELSE tx_buf
           n     == Offer(req, queue)
           ans   == PollAnswer(s_out', s_in', FreeUnits(rx_buf'), SubSeq(queue, 1, n))
<1>1. /\ rx_buf' = IF Accepts(req) THEN rx_buf \o req.data ELSE rx_buf
      /\ s_in' = IF Accepts(req) THEN req.seq ELSE s_in
      /\ s_out' = IF StmAcked(req) THEN ~s_out ELSE s_out
      /\ tx_buf' = queue /\ inflight' = n
      /\ Answer(ans)
      /\ UNCHANGED <<e_out, e_in, pending, credit, request, txq, toZ80, z80_log,
                     fromZ80, esp_log>>
  BY Zenon DEF StmNetPoll, SeqIn, Take, espVars, histVars
<1>2. TypeInv /\ BridgeTypeOK
  BY DEF CoreInv, TypeInv
<1>3. SubSeq(queue, 1, n) \in Seq(Nat)
  BY <1>2, StmQueueFacts
<1>4. TypeInv'
  BY <1>2, NextTypes DEF Next
<1>5. s_out' \in BOOLEAN /\ s_in' \in BOOLEAN /\ FreeUnits(rx_buf') \in Nat
  <2>1. BridgeTypeOK'
    BY <1>4 DEF TypeInv
  <2>2. rx_buf' \in Seq(Nat) /\ Len(rx_buf') <= RxCap
    BY <2>1 DEF BridgeTypeOK
  <2>3. RxCap - Len(rx_buf') \in Nat
    BY <2>2, LenProperties, NetBounds
  <2>4. FreeUnits(rx_buf') \in Nat
    BY <2>3, DivFacts, NetBounds DEF FreeUnits
  <2> QED
    BY <2>1, <2>4 DEF BridgeTypeOK
<1>6. ans \in RespFrames
  BY <1>3, <1>5 DEF PollAnswer, RespFrames, PollAnswers
<1>7. resps' = resps \/ resps' = Append(resps, ans)
  BY <1>1, Zenon DEF Answer, AnswerSent, AnswerLost
<1> QED
  BY <1>1, <1>6, <1>7, Zenon

LEMMA StmNetPollLines ==
  ASSUME CoreInv, StmNetPoll
  PROVE  LinesInv'
<1> DEFINE req   == Head(reqs)
           offer == SubSeq(tx_buf, 1, inflight)
           queue == IF StmAcked(req) THEN Drop(tx_buf, inflight) ELSE tx_buf
           n     == Offer(req, queue)
           next  == SubSeq(queue, 1, n)
           ans   == PollAnswer(s_out', s_in', FreeUnits(rx_buf'), next)
<1>1. TypeInv /\ RequestCurrent /\ DownLine /\ UpLine /\ CreditLine
  BY DEF CoreInv, LinesInv
<1>2. /\ reqs # <<>> /\ req \in PollRequests /\ req.cmd = "NET_POLL"
      /\ reqs' = Tail(reqs)
      /\ Accepts(req) => /\ s_in # e_out /\ req.seq = e_out /\ req.data = pending
                         /\ pending # <<>> /\ Len(pending) <= RxFree
      /\ StmAcked(req) => e_in = s_out /\ inflight > 0
  BY StmNetPollFacts, Zenon
<1>3. /\ rx_buf' = IF Accepts(req) THEN rx_buf \o req.data ELSE rx_buf
      /\ s_in' = IF Accepts(req) THEN req.seq ELSE s_in
      /\ s_out' = IF StmAcked(req) THEN ~s_out ELSE s_out
      /\ tx_buf' = queue /\ inflight' = n
      /\ ans \in RespFrames
      /\ resps' = resps \/ resps' = Append(resps, ans)
      /\ UNCHANGED <<e_out, e_in, pending, credit, request>>
  BY StmNetPollEffect, Zenon
<1>4. /\ reqs \in Seq(ReqFrames) /\ resps \in Seq(RespFrames)
      /\ e_out \in BOOLEAN /\ e_in \in BOOLEAN /\ s_in \in BOOLEAN /\ s_out \in BOOLEAN
      /\ RxFree \in Nat
  BY <1>1, CoreTypes
<1>5. Tail(reqs) \in Seq(ReqFrames) /\ Shift(Tail(reqs), reqs, 1)
  BY <1>2, <1>4, TailShift
<1>6. Shift(resps, resps, 0)
  BY <1>4, NoShift
<1>7. ans.seq = s_out' /\ ans.ack = s_in' /\ ans.data = next /\ ans.free = FreeUnits(rx_buf')
  BY DEF PollAnswer
<1>8. DownLine'
  <2>1. AltBitInv(reqs, resps, e_out, s_in, pending)
    BY <1>1 DEF DownLine
  <2>2. AltBitInv(Tail(reqs), resps, e_out, s_in', pending)
    <3>1. CASE Accepts(req)
      <4>1. req.data # <<>> /\ req.seq # s_in
        BY <3>1 DEF Accepts
      <4>2. reqs # <<>> /\ req.cmd = "NET_POLL" /\ req.seq \in BOOLEAN
        BY <1>2, <1>4, <3>1
      <4>3. AltBitInv(Tail(reqs), resps, e_out, req.seq, pending)
        BY <1>4, <2>1, <4>1, <4>2, AltBitStore
      <4> QED
        BY <1>3, <3>1, <4>3
    <3>2. CASE ~Accepts(req)
      <4>1. AltBitInv(Tail(reqs), resps, e_out, s_in, pending)
        BY <1>4, <1>5, <1>6, <2>1, AltBitShift
      <4> QED
        BY <1>3, <3>2, <4>1
    <3> QED
      BY <3>1, <3>2
  <2> HIDE DEF ans
  <2>3. AltBitInv(Tail(reqs), Append(resps, ans), e_out, s_in', pending)
    BY <1>3, <1>4, <1>7, <2>2, AltBitEcho
  <2> QED
    BY <1>2, <1>3, <2>2, <2>3 DEF DownLine
<1>9. UpLine'
  <2>1. AltBitInv(resps, reqs, s_out, e_in, offer)
    BY <1>1 DEF UpLine
  <2>2. AltBitInv(resps, Tail(reqs), s_out', e_in, next)
    <3>1. CASE StmAcked(req)
      <4>1. Head(reqs).ack = s_out
        BY <3>1 DEF StmAcked
      <4>2. reqs # <<>> /\ Head(reqs).cmd = "NET_POLL"
        BY <1>2
      <4> HIDE DEF offer, next
      <4>3. e_in = s_out /\ \A i \in Poll(Tail(reqs)) : Tail(reqs)[i].ack = s_out
        BY <1>4, <2>1, <4>1, <4>2, AltBitConfirm, ZenonT(30)
      <4>4. AltBitInv(resps, Tail(reqs), ~s_out, s_out, next)
        BY <1>4, <2>1, <4>3, AltBitRelease
      <4> QED
        BY <1>3, <3>1, <4>3, <4>4
    <3>2. CASE ~StmAcked(req)
      <4> HIDE DEF offer, next
      <4>1. AltBitInv(resps, Tail(reqs), s_out, e_in, offer)
        BY <1>4, <1>5, <1>6, <2>1, AltBitShift
      <4>2. AltBitInv(resps, Tail(reqs), s_out, e_in, next)
        <5>1. CASE inflight > 0
          <6>1. next = offer
            BY <3>2, <5>1 DEF Offer, next, offer
          <6> QED
            BY <4>1, <6>1
        <5>2. CASE ~(inflight > 0)
          <6>1. inflight = 0
            BY <1>1, <5>2, CoreTypes
          <6>2. tx_buf \in Seq(Nat) /\ 0 \in 0..Len(tx_buf)
            BY <1>1, <6>1, CoreTypes
          <6>3. offer \in Seq(Nat) /\ Len(offer) = 0
            BY <6>1, <6>2, PrefixFacts DEF offer
          <6>4. offer = <<>>
            BY <6>3, EmptySeq
          <6>5. AltBitInv(resps, Tail(reqs), s_out, e_in, <<>>)
            BY <4>1, <6>4
          <6> QED
            BY <6>5, AltBitLoad
        <5> QED
          BY <5>1, <5>2
      <4> QED
        BY <1>3, <3>2, <4>2
    <3> QED
      BY <3>1, <3>2
  <2>3. UpLine' <=> AltBitInv(resps', reqs', s_out', e_in, next)
    BY <1>3 DEF UpLine
  <2> HIDE DEF ans, next
  <2>4. AltBitInv(Append(resps, ans), Tail(reqs), s_out', e_in, next)
    BY <1>3, <1>4, <1>7, <2>2, AltBitOffer
  <2> QED
    BY <1>2, <1>3, <2>2, <2>3, <2>4
<1>10. CreditLine'
  <2>1. CreditSound'
    <3>1. CASE Accepts(req)
      BY <1>2, <1>3, <3>1 DEF CreditSound
    <3>2. CASE ~Accepts(req)
      BY <1>1, <1>3, <3>2 DEF CreditLine, CreditSound, RxFree
    <3> QED
      BY <3>1, <3>2
  <2>2. pending' = <<>> => credit' * Unit <= RxFree'
    BY <1>1, <1>2, <1>3 DEF CreditLine, RxFree
  <2>3. ASSUME NEW i \in Poll(resps), s_in' # e_out \/ resps[i].ack = e_out
        PROVE  resps[i].free * Unit <= RxFree'
    <3>1. CASE Accepts(req)
      <4>1. s_in # e_out /\ s_in' = e_out
        BY <1>2, <1>3, <3>1
      <4>2. resps[i].ack # e_out
        BY <1>1, <2>3, <4>1 DEF DownLine, AltBitInv
      <4> QED
        BY <2>3, <4>1, <4>2
    <3>2. CASE ~Accepts(req)
      BY <1>1, <1>3, <2>3, <3>2 DEF CreditLine, RxFree
    <3> QED
      BY <3>1, <3>2
  <2>4. FreeUnits(rx_buf') * Unit <= RxFree'
    <3>1. BridgeTypeOK'
      BY <1>1, NextTypes DEF Next, TypeInv
    <3>2. rx_buf' \in Seq(Nat) /\ Len(rx_buf') <= RxCap
      BY <3>1 DEF BridgeTypeOK
    <3>3. RxCap - Len(rx_buf') \in Nat
      BY <3>2, LenProperties, NetBounds
    <3> QED
      BY <3>3, DivFacts, NetBounds DEF FreeUnits, RxFree
  <2>5. ASSUME NEW i \in Poll(resps'), s_in' # e_out' \/ resps'[i].ack = e_out'
        PROVE  resps'[i].free * Unit <= RxFree'
    <3> HIDE DEF ans
    <3>1. CASE resps' = resps
      BY <1>3, <2>3, <2>5, <3>1
    <3>2. CASE resps' = Append(resps, ans)
      <4>1. i = Len(resps) + 1 \/ (i \in Poll(resps) /\ resps'[i] = resps[i])
        BY <1>3, <1>4, <2>5, <3>2, AppendPositions DEF Poll
      <4>2. CASE i = Len(resps) + 1
        BY <1>3, <1>4, <1>7, <2>4, <3>2, <4>2, AppendPositions
      <4>3. CASE i \in Poll(resps) /\ resps'[i] = resps[i]
        BY <1>3, <2>3, <2>5, <4>3
      <4> QED
        BY <4>1, <4>2, <4>3
    <3> QED
      BY <1>3, <3>1, <3>2
  <2> QED
    BY <2>1, <2>2, <2>5 DEF CreditLine
<1>11. RequestCurrent'
  BY <1>1, <1>3 DEF RequestCurrent, PollRequest
<1> QED
  BY <1>8, <1>9, <1>10, <1>11 DEF LinesInv

\* Damaged requests, and requests of other commands.
LEMMA OtherServeLines ==
  ASSUME CoreInv, StmGarbled \/ StmOther
  PROVE  LinesInv'
<1>1. TypeInv /\ RequestCurrent /\ DownLine /\ UpLine /\ CreditLine
  BY DEF CoreInv, LinesInv
<1>2. /\ UNCHANGED <<e_out, e_in, s_in, s_out, pending, rx_buf, tx_buf, inflight, credit, request>>
      /\ reqs # <<>> /\ reqs' = Tail(reqs)
  BY DEF StmGarbled, StmOther, TakeGarbled, Take, espVars, stmVars
<1>3. PICK f \in {FrameError, Other} : resps' = resps \/ resps' = Append(resps, f)
  BY DEF StmGarbled, StmOther, TakeGarbled, Answer, AnswerSent, AnswerLost
<1>4. /\ f \in RespFrames /\ f.cmd # "NET_POLL"
  BY DEF RespFrames, FrameError, Other
<1>5. /\ reqs \in Seq(ReqFrames) /\ resps \in Seq(RespFrames) /\ RxFree' = RxFree
  BY <1>1, <1>2, CoreTypes DEF RxFree
<1>6. Tail(reqs) \in Seq(ReqFrames) /\ Shift(Tail(reqs), reqs, 1) /\ Shift(resps, resps, 0)
  BY <1>2, <1>5, TailShift, NoShift
<1>7. AltBitInv(Tail(reqs), resps, e_out, s_in, pending)
  BY <1>1, <1>5, <1>6, AltBitShift DEF DownLine
<1>8. AltBitInv(resps, Tail(reqs), s_out, e_in, SubSeq(tx_buf, 1, inflight))
  BY <1>1, <1>5, <1>6, AltBitShift DEF UpLine
<1>9. DownLine'
  <2>1. AltBitInv(Tail(reqs), Append(resps, f), e_out, s_in, pending)
    BY <1>4, <1>5, <1>7, AltBitEcho
  <2> QED
    BY <1>2, <1>3, <1>7, <2>1 DEF DownLine
<1>10. UpLine'
  <2>1. AltBitInv(Append(resps, f), Tail(reqs), s_out, e_in, SubSeq(tx_buf, 1, inflight))
    BY <1>4, <1>5, <1>8, AltBitOffer
  <2> QED
    BY <1>2, <1>3, <1>8, <2>1 DEF UpLine
<1>11. CreditLine'
  <2>1. CASE resps' = resps
    BY <1>1, <1>2, <1>5, <2>1 DEF CreditLine, CreditSound
  <2>2. CASE resps' = Append(resps, f)
    <3>1. \A i \in Poll(resps') : i \in Poll(resps) /\ resps'[i] = resps[i]
      BY <1>4, <1>5, <2>2, AppendPositions DEF Poll
    <3> QED
      BY <1>1, <1>2, <1>5, <3>1 DEF CreditLine, CreditSound
  <2> QED
    BY <1>3, <2>1, <2>2
<1>12. RequestCurrent'
  BY <1>1, <1>2 DEF RequestCurrent, PollRequest
<1> QED
  BY <1>9, <1>10, <1>11, <1>12 DEF LinesInv

-----------------------------------------------------------------------------
(* The Z80.                                                                *)

LEMMA Z80ReadLines ==
  ASSUME CoreInv, Z80Read
  PROVE  LinesInv'
<1>1. TypeInv /\ RequestCurrent /\ DownLine /\ UpLine /\ CreditLine
  BY DEF CoreInv, LinesInv
<1>2. PICK max \in 1..Batch : rx_buf' = Drop(rx_buf, Smaller(Len(rx_buf), max))
  BY DEF Z80Read
<1>3. UNCHANGED <<reqs, resps, e_out, e_in, s_in, s_out, pending, tx_buf, inflight, credit, request>>
  BY DEF Z80Read, linkVars, espVars
<1>4. /\ reqs \in Seq(ReqFrames) /\ resps \in Seq(RespFrames)
      /\ rx_buf \in Seq(Nat) /\ Len(rx_buf) \in Nat /\ RxFree \in Nat
  BY <1>1, CoreTypes
<1>5. Smaller(Len(rx_buf), max) \in 0..Len(rx_buf)
  BY <1>4, NetBounds DEF Smaller
<1>6. Len(rx_buf') \in Nat /\ Len(rx_buf') <= Len(rx_buf)
  BY <1>2, <1>4, <1>5, DropFacts
<1>7. RxFree' \in Nat /\ RxFree <= RxFree'
  BY <1>4, <1>6, NetBounds DEF RxFree
<1>8. resps' \in Seq(RespFrames) /\ Shift(resps', resps, 0)
  BY <1>3, <1>4, NoShift
<1>9. CreditLine'
  BY <1>1, <1>3, <1>7, <1>8, CreditShift
<1> QED
  BY <1>1, <1>3, <1>9 DEF LinesInv, DownLine, UpLine, RequestCurrent, PollRequest

\* What the Z80 writes goes behind what is in flight.
LEMMA WriteBehind ==
  ASSUME NEW S, NEW s \in Seq(S), NEW t \in Seq(S), NEW n \in 0..Len(s)
  PROVE  /\ SubSeq(s \o t, 1, n) = SubSeq(s, 1, n)
         /\ Drop(s \o t, n) = Drop(s, n) \o t
<1>1. /\ s \o t \in Seq(S) /\ Len(s \o t) = Len(s) + Len(t)
      /\ \A i \in 1..Len(s) : (s \o t)[i] = s[i]
      /\ \A i \in 1..Len(t) : (s \o t)[Len(s) + i] = t[i]
  BY ConcatProperties
<1>2. Len(s) \in Nat /\ Len(t) \in Nat /\ n \in 0..Len(s \o t)
  BY <1>1, LenProperties
<1>3. /\ SubSeq(s \o t, 1, n) \in Seq(S) /\ Len(SubSeq(s \o t, 1, n)) = n
      /\ \A i \in 1..n : SubSeq(s \o t, 1, n)[i] = (s \o t)[i]
  BY <1>1, <1>2, PrefixFacts
<1>4. /\ SubSeq(s, 1, n) \in Seq(S) /\ Len(SubSeq(s, 1, n)) = n
      /\ \A i \in 1..n : SubSeq(s, 1, n)[i] = s[i]
  BY <1>2, PrefixFacts
<1>5. SubSeq(s \o t, 1, n) = SubSeq(s, 1, n)
  <2>1. \A i \in 1..n : SubSeq(s \o t, 1, n)[i] = SubSeq(s, 1, n)[i]
    BY <1>1, <1>2, <1>3, <1>4
  <2> QED
    BY <1>3, <1>4, <2>1, SeqEqual
<1>6. SubSeq(s, 1, n) \o Drop(s, n) = s
  BY <1>2, PrefixFacts, Zenon
<1>7. SubSeq(s \o t, 1, n) \o Drop(s \o t, n) = s \o t
  BY <1>1, <1>2, PrefixFacts, Zenon
<1>8. Drop(s, n) \in Seq(S) /\ Drop(s \o t, n) \in Seq(S)
  <2>1. Drop(s, n) \in Seq(S)
    BY DropFacts, Zenon
  <2>2. Drop(s \o t, n) \in Seq(S)
    BY <1>1, <1>2, DropFacts, Zenon
  <2> QED
    BY <2>1, <2>2
<1>9. Drop(s, n) \o t \in Seq(S)
  BY <1>8, ConcatProperties, Zenon
<1> DEFINE p == SubSeq(s, 1, n)
           d == Drop(s, n)
           e == Drop(s \o t, n)
<1>10. p \in Seq(S) /\ d \in Seq(S) /\ e \in Seq(S) /\ d \o t \in Seq(S)
  BY <1>4, <1>8, <1>9
<1>11. p \o d = s /\ p \o e = s \o t
  BY <1>5, <1>6, <1>7
<1> HIDE DEF p, d, e
<1>12. (p \o d) \o t = p \o (d \o t)
  BY <1>10, ConcatAssociative, SMTT(60)
<1>13. p \o e = p \o (d \o t)
  BY <1>11, <1>12
<1>14. e = d \o t
  BY <1>10, <1>13, ConcatSimplifications
<1> QED
  BY <1>5, <1>14 DEF d, e

LEMMA Z80WriteFacts ==
  ASSUME CoreInv, Z80Write
  PROVE  \E n \in Nat :
           /\ tx_buf' = tx_buf \o Bytes(fromZ80, fromZ80 + n)
           /\ fromZ80' = fromZ80 + n
           /\ Bytes(fromZ80, fromZ80 + n) \in Seq(Nat)
<1>1. PICK count \in 1..Batch :
        LET n == Smaller(TxCap - Len(tx_buf), count) IN
        /\ n > 0
        /\ tx_buf' = tx_buf \o Bytes(fromZ80, fromZ80 + n)
        /\ fromZ80' = fromZ80 + n
  BY DEF Z80Write
<1> DEFINE n == Smaller(TxCap - Len(tx_buf), count)
<1>2. n > 0 /\ tx_buf' = tx_buf \o Bytes(fromZ80, fromZ80 + n) /\ fromZ80' = fromZ80 + n
  BY <1>1
<1>3. fromZ80 \in Nat /\ Len(tx_buf) \in Nat
  BY CoreTypes DEF CoreInv
<1>4. n \in Nat
  BY <1>2, <1>3, NetBounds DEF Smaller
<1> HIDE DEF n
<1>5. fromZ80 + n \in Nat /\ fromZ80 <= fromZ80 + n
  BY <1>3, <1>4
<1>6. Bytes(fromZ80, fromZ80 + n) \in Seq(Nat)
  BY <1>3, <1>5, BytesFacts
<1> QED
  BY <1>2, <1>4, <1>6

LEMMA Z80WriteLines ==
  ASSUME CoreInv, Z80Write
  PROVE  LinesInv'
<1>1. TypeInv /\ RequestCurrent /\ DownLine /\ UpLine /\ CreditLine
  BY DEF CoreInv, LinesInv
<1>2. PICK n \in Nat : /\ tx_buf' = tx_buf \o Bytes(fromZ80, fromZ80 + n)
                       /\ Bytes(fromZ80, fromZ80 + n) \in Seq(Nat)
  BY Z80WriteFacts
<1>3. UNCHANGED <<reqs, resps, e_out, e_in, s_in, s_out, pending, rx_buf, inflight, credit, request>>
  BY DEF Z80Write, linkVars, espVars
<1>4. tx_buf \in Seq(Nat) /\ inflight \in 0..Len(tx_buf)
  BY <1>1, CoreTypes
<1>5. SubSeq(tx_buf', 1, inflight) = SubSeq(tx_buf, 1, inflight)
  BY <1>2, <1>4, WriteBehind
<1>6. UpLine'
  BY <1>1, <1>3, <1>5 DEF UpLine
<1> QED
  BY <1>1, <1>3, <1>6
  DEF LinesInv, DownLine, CreditLine, CreditSound, RxFree, RequestCurrent, PollRequest

-----------------------------------------------------------------------------
(* The invariant.                                                          *)

LEMMA InitCore == Init => CoreInv
<1> SUFFICES ASSUME Init PROVE CoreInv
  OBVIOUS
<1>1. TypeInv
  BY InitTypes
<1>2. /\ reqs = <<>> /\ resps = <<>> /\ pending = <<>> /\ rx_buf = <<>> /\ tx_buf = <<>>
      /\ inflight = 0 /\ request = NoRequest /\ credit = Chunk \div Unit
      /\ e_out = FALSE /\ s_in = TRUE /\ s_out = FALSE /\ e_in = TRUE
  BY DEF Init, LinkInit
<1>3. Poll(<<>>) = {} /\ Data(<<>>) = {} /\ Len(<<>>) = 0
  BY EmptySeq DEF Poll, Data
<1>4. DownLine /\ UpLine
  BY <1>2, <1>3 DEF DownLine, UpLine, AltBitInv
<1>5. CreditLine
  <2>1. RxFree = RxCap
    BY <1>2, <1>3, NetBounds DEF RxFree
  <2>2. credit * Unit <= RxCap
    <3>1. (Chunk \div Unit) * Unit <= Chunk /\ Chunk \div Unit \in Nat
      BY DivFacts, NetBounds
    <3> QED
      BY <1>2, <3>1, NetBounds
  <2>3. CreditSound
    BY <1>2, <1>3, <2>1, NetBounds DEF CreditSound
  <2> QED
    BY <1>2, <1>3, <2>1, <2>2, <2>3 DEF CreditLine
<1>6. RequestCurrent
  BY <1>2 DEF RequestCurrent, NoRequest
<1> QED
  BY <1>1, <1>4, <1>5, <1>6 DEF CoreInv, LinesInv

LEMMA NextCore == CoreInv /\ [Next]_vars => CoreInv'
<1> SUFFICES ASSUME CoreInv, [Next]_vars PROVE CoreInv'
  OBVIOUS
<1>1. TypeInv'
  BY NextTypes DEF CoreInv
<1>2. LinesInv'
  <2>1. CASE NetPoll
    BY <2>1, NetPollLines
  <2>2. CASE NetPollAnswer
    BY <2>2, NetPollAnswerLines
  <2>3. CASE NetPollFails
    BY <2>3, FailLines
  <2>4. CASE OtherRequest \/ OtherAnswer \/ OtherFails
    BY <2>4, OtherCallLines
  <2>5. CASE StmNetPoll
    BY <2>5, StmNetPollLines
  <2>6. CASE StmGarbled \/ StmOther
    BY <2>6, OtherServeLines
  <2>7. CASE Z80Read
    BY <2>7, Z80ReadLines
  <2>8. CASE Z80Write
    BY <2>8, Z80WriteLines
  <2>9. CASE LinkStep
    BY <2>9, LinkStepLines
  <2>10. CASE UNCHANGED vars
    BY <2>10 DEF vars, linkVars, espVars, stmVars, CoreInv, LinesInv, DownLine, UpLine,
                 CreditLine, CreditSound, RxFree, RequestCurrent, PollRequest
  <2> QED
    BY <2>1, <2>2, <2>3, <2>4, <2>5, <2>6, <2>7, <2>8, <2>9, <2>10 DEF Next
<1> QED
  BY <1>1, <1>2 DEF CoreInv

LEMMA CoreInvariance == Spec => []CoreInv
BY InitCore, NextCore, PTL DEF Spec

\* The alternating bits, the credit and the retry counter of the bridge obey
\* their invariant whatever the sizes of its buffers and chunks.
THEOREM NetInvariance == Spec => []NetInv
<1>1. CoreInv => NetInv
  BY DEF CoreInv, TypeInv, LinkInv, LinesInv, NetInv
<1> QED
  BY <1>1, CoreInvariance, PTL

\* handle_net_poll never has to turn a new chunk down for lack of room.
THEOREM CreditIsSound == Spec => []CreditSound
<1>1. CoreInv => CreditSound
  BY DEF CoreInv, LinesInv, CreditLine
<1> QED
  BY <1>1, CoreInvariance, PTL

-----------------------------------------------------------------------------
(* The stream towards the Z80.                                             *)

LEMMA UnstoredTypes ==
  ASSUME TypeInv
  PROVE  Unstored \in Seq(Nat)
BY CoreTypes, EmptySeq DEF Unstored

\* The stream grows when k more bytes join it behind what is buffered.
LEMMA StreamGrows ==
  ASSUME TypeInv, TypeInv', NEW k \in Nat, toZ80' = toZ80 + k,
         UNCHANGED <<z80_log, rx_buf>>
  PROVE  /\ StreamToZ80
         /\ Unstored' \o txq' = Unstored \o (txq \o Bytes(toZ80, toZ80 + k))
         => StreamToZ80'
<1> DEFINE p    == z80_log \o rx_buf
           u2   == Unstored'
           t2   == txq'
           more == Bytes(toZ80, toZ80 + k)
<1>1. /\ z80_log \in Seq(Nat) /\ rx_buf \in Seq(Nat)
      /\ Unstored \in Seq(Nat) /\ txq \in Seq(Nat) /\ toZ80 \in Nat
  BY CoreTypes, UnstoredTypes
<1>2. u2 \in Seq(Nat)
  BY EmptySeq DEF TypeInv, BridgeTypeOK, Unstored
<1>3. t2 \in Seq(Nat)
  BY DEF TypeInv, BridgeTypeOK
<1>4. p \in Seq(Nat)
  BY <1>1, ConcatProperties
<1>5. toZ80 + k \in Nat /\ toZ80 <= toZ80 + k
  BY <1>1
<1>6. more \in Seq(Nat)
  BY <1>1, <1>5, BytesFacts
<1>7. Bytes(0, toZ80) \o more = Bytes(0, toZ80 + k)
  BY <1>1, <1>5, BytesExtend
<1> HIDE DEF p, u2, t2, more
<1> DEFINE N == Nat
           u == Unstored
           t == txq
<1>a. p \in Seq(N) /\ u2 \in Seq(N) /\ t2 \in Seq(N)
  BY <1>2, <1>3, <1>4
<1>b. p \in Seq(N) /\ u \in Seq(N)
  BY <1>1, <1>4
<1>c. t \in Seq(N) /\ more \in Seq(N)
  BY <1>1, <1>6
<1> HIDE DEF N, u, t
<1>8. (p \o u2) \o t2 = p \o (u2 \o t2)
  BY <1>a, ConcatAssociative, SMTT(60)
<1>9. ((p \o u) \o t) \o more = p \o (u \o (t \o more))
  <2> DEFINE tm == t \o more
             pu == p \o u
  <2>1. tm \in Seq(N)
    BY <1>c, ConcatProperties
  <2>2. pu \in Seq(N)
    BY <1>b, ConcatProperties
  <2>3. pu \o tm = p \o (u \o tm)
    <3> HIDE DEF tm
    <3> QED
      BY <1>b, <2>1, ConcatAssociative
  <2>4. (pu \o t) \o more = pu \o tm
    <3> HIDE DEF pu
    <3> QED
      BY <1>c, <2>2, ConcatAssociative, SMTT(60)
  <2> QED
    BY <2>3, <2>4, Zenon
<1>10. StreamToZ80' <=> (p \o u2) \o t2 = Bytes(0, toZ80 + k)
  BY DEF StreamToZ80, p, u2, t2
<1>11. StreamToZ80 <=> (p \o Unstored) \o txq = Bytes(0, toZ80)
  BY DEF StreamToZ80, p
<1> QED
  BY <1>7, <1>8, <1>9, <1>10, <1>11, Zenon DEF u2, t2, more, u, t

\* Bytes have joined the stream behind what is buffered, or none have.
Fed ==
  \E k \in Nat :
    /\ toZ80' = toZ80 + k
    /\ Unstored' \o txq' = Unstored \o (txq \o Bytes(toZ80, toZ80 + k))
    /\ UNCHANGED <<z80_log, rx_buf>>

LEMMA NetPollFeeds ==
  ASSUME CoreInv, NetPoll
  PROVE  Fed
<1>1. TypeInv /\ BridgeTypeOK /\ DownLine
  BY DEF CoreInv, LinesInv, TypeInv
<1>2. PICK k \in 0..FeedRoom :
        LET q == txq \o Bytes(toZ80, toZ80 + k) IN
        /\ pending' = IF Load(q) > 0 THEN SubSeq(q, 1, Load(q)) ELSE pending
        /\ txq' = Drop(q, Load(q))
        /\ toZ80' = toZ80 + k
        /\ UNCHANGED <<e_out, stmVars, z80_log>>
  BY Zenon DEF NetPoll
<1> DEFINE q == txq \o Bytes(toZ80, toZ80 + k)
           n == Load(q)
<1>3. q \in Seq(Nat) /\ k \in Nat
  BY <1>1, FeedFacts
<1>4. n \in 0..Len(q) /\ (n > 0 => pending = <<>>)
  BY <1>1, <1>3, LoadFacts
<1>5. /\ pending' = IF n > 0 THEN SubSeq(q, 1, n) ELSE pending
      /\ txq' = Drop(q, n) /\ toZ80' = toZ80 + k
      /\ UNCHANGED <<e_out, s_in, rx_buf, z80_log>>
  BY <1>2 DEF stmVars
<1>6. /\ z80_log \in Seq(Nat) /\ rx_buf \in Seq(Nat) /\ txq \in Seq(Nat)
      /\ toZ80 \in Nat /\ Unstored \in Seq(Nat)
  BY <1>1, CoreTypes, UnstoredTypes
<1>7. Unstored' \o txq' = Unstored \o q
  <2> HIDE DEF q, n
  <2>1. /\ SubSeq(q, 1, n) \in Seq(Nat) /\ Len(SubSeq(q, 1, n)) = n
        /\ SubSeq(q, 1, n) \o Drop(q, n) = q
    BY <1>3, <1>4, PrefixFacts, Zenon
  <2>2. CASE n > 0
    <3>1. AltBitInv(reqs, resps, e_out, s_in, <<>>)
      BY <1>1, <1>4, <2>2 DEF DownLine
    <3>2. s_in # e_out
      BY <3>1, AltBitLoad
    <3>3. Unstored = <<>> /\ Unstored' = SubSeq(q, 1, n)
      BY <1>4, <1>5, <2>2, <3>2 DEF Unstored
    <3>4. <<>> \o q = q
      BY <1>3, ConcatEmptySeq
    <3> QED
      BY <1>5, <2>1, <3>3, <3>4
  <2>3. CASE ~(n > 0)
    <3>1. Len(SubSeq(q, 1, n)) = 0
      BY <1>4, <2>1, <2>3
    <3>2. SubSeq(q, 1, n) = <<>>
      BY <2>1, <3>1, EmptySeq
    <3>3. Drop(q, n) \in Seq(Nat)
      BY <1>3, <1>4, DropFacts, Zenon
    <3>4. Drop(q, n) = q
      BY <2>1, <3>2, <3>3, ConcatEmptySeq
    <3>5. Unstored' = Unstored
      BY <1>5, <2>3 DEF Unstored
    <3> QED
      BY <1>5, <3>4, <3>5
  <2> QED
    BY <2>2, <2>3
<1> HIDE DEF q, n
<1>8. q = txq \o Bytes(toZ80, toZ80 + k)
  BY DEF q
<1> QED
  BY <1>3, <1>5, <1>7, <1>8 DEF Fed

LEMMA NetPollAnswerFeeds ==
  ASSUME CoreInv, NetPollAnswer
  PROVE  Fed
<1>1. TypeInv /\ BridgeTypeOK
  BY DEF CoreInv, TypeInv
<1>2. PICK r \in 0..FeedRoom : /\ txq' = txq \o Bytes(toZ80, toZ80 + r)
                               /\ toZ80' = toZ80 + r
  BY Zenon DEF NetPollAnswer
<1>3. r \in Nat
  BY <1>1, FeedFacts
<1>4. LET ans == Head(resps) IN
      /\ EspAcked(ans) => s_in = e_out /\ pending # <<>>
      /\ pending' = IF EspAcked(ans) THEN <<>> ELSE pending
      /\ e_out' = IF EspAcked(ans) THEN ~e_out ELSE e_out
      /\ UNCHANGED <<s_in, rx_buf>>
  BY NetPollAnswerFacts, Zenon
<1>5. e_out \in BOOLEAN
  BY <1>1, CoreTypes
<1>6. Unstored' = Unstored
  BY <1>4, <1>5 DEF Unstored
<1>7. Unstored' \o txq' = Unstored \o (txq \o Bytes(toZ80, toZ80 + r))
  BY <1>2, <1>6, Zenon
<1>8. UNCHANGED <<z80_log, rx_buf>>
  BY DEF NetPollAnswer, stmVars
<1> QED
  BY <1>2, <1>3, <1>7, <1>8, Zenon DEF Fed

LEMMA StmNetPollStream ==
  ASSUME CoreInv, StreamToZ80, StmNetPoll
  PROVE  StreamToZ80'
<1> DEFINE req == Head(reqs)
           N   == Nat
<1>1. /\ z80_log \in Seq(N) /\ rx_buf \in Seq(N) /\ pending \in Seq(N)
  BY CoreTypes DEF CoreInv
<1>2. Accepts(req) => s_in # e_out /\ req.seq = e_out /\ req.data = pending
  BY StmNetPollFacts
<1>3. /\ rx_buf' = IF Accepts(req) THEN rx_buf \o req.data ELSE rx_buf
      /\ s_in' = IF Accepts(req) THEN req.seq ELSE s_in
      /\ UNCHANGED <<e_out, pending, txq, toZ80, z80_log>>
  BY StmNetPollEffect, Zenon
<1> HIDE DEF N
<1>4. CASE Accepts(req)
  <2>1. Unstored = pending /\ Unstored' = <<>>
    BY <1>2, <1>3, <1>4 DEF Unstored
  <2>2. z80_log \o (rx_buf \o pending) = (z80_log \o rx_buf) \o pending
    BY <1>1, ConcatAssociative
  <2>3. z80_log \o rx_buf \in Seq(N)
    BY <1>1, ConcatProperties
  <2>4. (z80_log \o rx_buf) \o pending \in Seq(N)
    BY <1>1, <2>3, ConcatProperties
  <2>5. ((z80_log \o rx_buf) \o pending) \o <<>> = (z80_log \o rx_buf) \o pending
    BY <2>4, ConcatEmptySeq, Zenon
  <2>6. rx_buf' = rx_buf \o pending
    BY <1>2, <1>3, <1>4
  <2> QED
    BY <1>3, <2>1, <2>2, <2>5, <2>6, Zenon DEF StreamToZ80
<1>5. CASE ~Accepts(req)
  BY <1>3, <1>5 DEF StreamToZ80, Unstored
<1> QED
  BY <1>4, <1>5

LEMMA Z80ReadStream ==
  ASSUME CoreInv, StreamToZ80, Z80Read
  PROVE  StreamToZ80'
<1> DEFINE N == Nat
<1>1. PICK max \in 1..Batch :
        /\ z80_log' = z80_log \o SubSeq(rx_buf, 1, Smaller(Len(rx_buf), max))
        /\ rx_buf' = Drop(rx_buf, Smaller(Len(rx_buf), max))
  BY DEF Z80Read
<1> DEFINE n    == Smaller(Len(rx_buf), max)
           out  == SubSeq(rx_buf, 1, n)
           rest == Drop(rx_buf, n)
<1>2. /\ z80_log \in Seq(Nat) /\ rx_buf \in Seq(Nat) /\ Len(rx_buf) \in Nat
  BY CoreTypes DEF CoreInv
<1>3. n \in 0..Len(rx_buf)
  BY <1>2, NetBounds DEF Smaller
<1>4. z80_log' = z80_log \o out /\ rx_buf' = rest
  BY <1>1
<1> HIDE DEF n
<1>5. out \in Seq(Nat) /\ out \o rest = rx_buf
  BY <1>2, <1>3, PrefixFacts, Zenon
<1>6. rest \in Seq(Nat)
  BY <1>2, <1>3, DropFacts, Zenon
<1> HIDE DEF out, rest
<1>7. z80_log \in Seq(N) /\ out \in Seq(N) /\ rest \in Seq(N)
  BY <1>2, <1>5, <1>6
<1> HIDE DEF N
<1>8. (z80_log \o out) \o rest = z80_log \o (out \o rest)
  BY <1>7, ConcatAssociative
<1>9. z80_log' \o rx_buf' = z80_log \o rx_buf
  BY <1>4, <1>5, <1>8, Zenon
<1>10. UNCHANGED <<txq, pending, s_in, e_out, toZ80>>
  BY DEF Z80Read, espVars
<1> QED
  BY <1>9, <1>10 DEF StreamToZ80, Unstored

LEMMA NextStreamToZ80 == CoreInv /\ StreamToZ80 /\ [Next]_vars => StreamToZ80'
<1> SUFFICES ASSUME CoreInv, StreamToZ80, [Next]_vars PROVE StreamToZ80'
  OBVIOUS
<1>1. CASE NetPoll \/ NetPollAnswer
  <2>1. PICK k \in Nat :
          /\ toZ80' = toZ80 + k
          /\ Unstored' \o txq' = Unstored \o (txq \o Bytes(toZ80, toZ80 + k))
          /\ UNCHANGED <<z80_log, rx_buf>>
    BY <1>1, NetPollFeeds, NetPollAnswerFeeds DEF Fed
  <2>2. TypeInv /\ TypeInv'
    BY NextTypes DEF CoreInv
  <2> QED
    BY <2>1, <2>2, StreamGrows
<1>2. CASE StmNetPoll
  BY <1>2, StmNetPollStream
<1>3. CASE Z80Read
  BY <1>3, Z80ReadStream
<1>4. ASSUME UNCHANGED <<z80_log, rx_buf, pending, txq, s_in, e_out, toZ80>>
      PROVE  StreamToZ80'
  BY <1>4 DEF StreamToZ80, Unstored
<1>5. CASE NetPollFails \/ OtherRequest \/ OtherAnswer \/ OtherFails
  BY <1>4, <1>5 DEF NetPollFails, OtherRequest, OtherAnswer, OtherFails,
                    espVars, stmVars, histVars
<1>6. CASE StmGarbled \/ StmOther \/ LinkStep
  BY <1>4, <1>6 DEF StmGarbled, StmOther, LinkStep, espVars, stmVars, histVars
<1>7. CASE Z80Write
  BY <1>4, <1>7 DEF Z80Write, espVars
<1>8. CASE UNCHANGED vars
  BY <1>4, <1>8 DEF vars, espVars, stmVars, histVars
<1> QED
  BY <1>1, <1>2, <1>3, <1>5, <1>6, <1>7, <1>8 DEF Next

\* Whatever the line does to the frames, the bytes put into the stream to the
\* Z80 are read by it whole, once and in order, or still wait in a buffer.
THEOREM DeliveryToZ80 == Spec => []StreamToZ80
<1>1. Init => StreamToZ80
  <2> SUFFICES ASSUME Init PROVE StreamToZ80
    OBVIOUS
  <2>1. Unstored = <<>> /\ z80_log = <<>> /\ rx_buf = <<>> /\ txq = <<>> /\ toZ80 = 0
    BY DEF Init, Unstored
  <2>2. <<>> \o <<>> = <<>>
    BY EmptySeq, ConcatEmptySeq
  <2>3. Bytes(0, 0) \in Seq(Nat) /\ Len(Bytes(0, 0)) = 0
    BY BytesFacts
  <2>4. Bytes(0, 0) = <<>>
    BY <2>3, EmptySeq
  <2> QED
    BY <2>1, <2>2, <2>4, Zenon DEF StreamToZ80
<1> QED
  BY <1>1, NextStreamToZ80, CoreInvariance, PTL DEF Spec

-----------------------------------------------------------------------------
(* The stream from the Z80.                                                *)

LEMMA EmptyInflight ==
  ASSUME CoreInv, inflight = 0
  PROVE  e_in # s_out
<1> DEFINE offer == SubSeq(tx_buf, 1, inflight)
<1>1. tx_buf \in Seq(Nat) /\ inflight \in 0..Len(tx_buf)
  BY CoreTypes DEF CoreInv
<1>2. offer \in Seq(Nat) /\ Len(offer) = 0
  BY <1>1, PrefixFacts
<1>3. AltBitInv(resps, reqs, s_out, e_in, offer)
  BY DEF CoreInv, LinesInv, UpLine
<1> HIDE DEF offer
<1>4. offer = <<>>
  BY <1>2, EmptySeq
<1> QED
  BY <1>3, <1>4, AltBitLoad

LEMMA NetPollAnswerUp ==
  ASSUME CoreInv, StreamFromZ80, NetPollAnswer
  PROVE  StreamFromZ80'
<1> DEFINE ans  == Head(resps)
           N    == Nat
           out  == SubSeq(tx_buf, 1, inflight)
           rest == Drop(tx_buf, inflight)
<1>1. /\ EspFresh(ans) => e_in # s_out /\ ans.seq = s_out /\ ans.data = out
      /\ e_in' = IF EspFresh(ans) THEN ans.seq ELSE e_in
      /\ UNCHANGED <<s_out, tx_buf, inflight>>
  BY NetPollAnswerFacts, Zenon
<1>2. /\ esp_log' = IF EspFresh(ans) THEN esp_log \o ans.data ELSE esp_log
      /\ UNCHANGED fromZ80
  BY DEF NetPollAnswer
<1>3. /\ esp_log \in Seq(Nat) /\ tx_buf \in Seq(Nat) /\ inflight \in 0..Len(tx_buf)
  BY CoreTypes DEF CoreInv
<1>4. out \in Seq(Nat) /\ out \o rest = tx_buf
  BY <1>3, PrefixFacts, Zenon
<1>5. rest \in Seq(Nat)
  BY <1>3, DropFacts, Zenon
<1>6. CASE EspFresh(ans)
  <2>1. Unprocessed = tx_buf /\ Unprocessed' = rest
    BY <1>1, <1>6 DEF Unprocessed
  <2> HIDE DEF out, rest
  <2>2. esp_log \in Seq(N) /\ out \in Seq(N) /\ rest \in Seq(N)
    BY <1>3, <1>4, <1>5
  <2> HIDE DEF N
  <2>3. (esp_log \o out) \o rest = esp_log \o (out \o rest)
    BY <2>2, ConcatAssociative
  <2>4. esp_log' = esp_log \o out
    BY <1>1, <1>2, <1>6
  <2> QED
    BY <1>2, <1>4, <2>1, <2>3, <2>4, Zenon DEF StreamFromZ80
<1>7. CASE ~EspFresh(ans)
  BY <1>1, <1>2, <1>7 DEF StreamFromZ80, Unprocessed
<1> QED
  BY <1>6, <1>7

LEMMA StmNetPollUp ==
  ASSUME CoreInv, StreamFromZ80, StmNetPoll
  PROVE  StreamFromZ80'
<1> DEFINE req   == Head(reqs)
           queue == IF StmAcked(req) THEN Drop(tx_buf, inflight) ELSE tx_buf
<1>1. StmAcked(req) => e_in = s_out
  BY StmNetPollFacts, Zenon
<1>2. /\ s_out' = IF StmAcked(req) THEN ~s_out ELSE s_out
      /\ tx_buf' = queue /\ inflight' = Offer(req, queue)
      /\ UNCHANGED <<e_in, fromZ80, esp_log>>
  BY StmNetPollEffect, Zenon
<1>3. s_out \in BOOLEAN /\ inflight \in Nat
  BY CoreTypes DEF CoreInv
<1>4. CASE StmAcked(req)
  BY <1>1, <1>2, <1>3, <1>4 DEF StreamFromZ80, Unprocessed
<1>5. CASE ~StmAcked(req) /\ inflight > 0
  <2>1. inflight' = inflight /\ tx_buf' = tx_buf /\ s_out' = s_out
    BY <1>2, <1>5 DEF Offer
  <2> QED
    BY <1>2, <2>1 DEF StreamFromZ80, Unprocessed
<1>6. CASE ~StmAcked(req) /\ inflight = 0
  <2>1. e_in # s_out
    BY <1>6, EmptyInflight
  <2> QED
    BY <1>2, <1>6, <2>1 DEF StreamFromZ80, Unprocessed
<1> QED
  BY <1>3, <1>4, <1>5, <1>6

LEMMA Z80WriteUp ==
  ASSUME CoreInv, StreamFromZ80, Z80Write
  PROVE  StreamFromZ80'
<1>1. PICK n \in Nat : /\ tx_buf' = tx_buf \o Bytes(fromZ80, fromZ80 + n)
                       /\ fromZ80' = fromZ80 + n
                       /\ Bytes(fromZ80, fromZ80 + n) \in Seq(Nat)
  BY Z80WriteFacts
<1> DEFINE N    == Nat
           more == Bytes(fromZ80, fromZ80 + n)
           u    == Unprocessed
<1>2. UNCHANGED <<e_in, s_out, inflight, esp_log>>
  BY DEF Z80Write, linkVars, espVars
<1>3. /\ esp_log \in Seq(Nat) /\ tx_buf \in Seq(Nat) /\ inflight \in 0..Len(tx_buf)
      /\ fromZ80 \in Nat
  BY CoreTypes DEF CoreInv
<1>4. Drop(tx_buf, inflight) \in Seq(Nat)
  BY <1>3, DropFacts, Zenon
<1>5. Drop(tx_buf \o more, inflight) = Drop(tx_buf, inflight) \o more
  BY <1>1, <1>3, WriteBehind
<1>6. Unprocessed' = u \o more
  BY <1>1, <1>2, <1>5 DEF Unprocessed
<1>7. u \in Seq(Nat)
  BY <1>3, <1>4 DEF Unprocessed
<1>8. fromZ80 + n \in Nat /\ fromZ80 <= fromZ80 + n
  BY <1>3
<1>9. Bytes(0, fromZ80) \o more = Bytes(0, fromZ80 + n)
  BY <1>3, <1>8, BytesExtend
<1> HIDE DEF u, more
<1>10. esp_log \in Seq(N) /\ u \in Seq(N) /\ more \in Seq(N)
  BY <1>1, <1>3, <1>7 DEF more
<1> HIDE DEF N
<1>11. (esp_log \o u) \o more = esp_log \o (u \o more)
  BY <1>10, ConcatAssociative
<1>12. esp_log \o u = Bytes(0, fromZ80)
  BY DEF StreamFromZ80, u
<1>13. esp_log' \o Unprocessed' = Bytes(0, fromZ80 + n)
  BY <1>2, <1>6, <1>9, <1>11, <1>12, Zenon
<1> QED
  BY <1>1, <1>13 DEF StreamFromZ80

LEMMA NextStreamFromZ80 == CoreInv /\ StreamFromZ80 /\ [Next]_vars => StreamFromZ80'
<1> SUFFICES ASSUME CoreInv, StreamFromZ80, [Next]_vars PROVE StreamFromZ80'
  OBVIOUS
<1>1. CASE NetPollAnswer
  BY <1>1, NetPollAnswerUp
<1>2. CASE StmNetPoll
  BY <1>2, StmNetPollUp
<1>3. CASE Z80Write
  BY <1>3, Z80WriteUp
<1>4. ASSUME UNCHANGED <<esp_log, tx_buf, inflight, e_in, s_out, fromZ80>>
      PROVE  StreamFromZ80'
  BY <1>4 DEF StreamFromZ80, Unprocessed
<1>5. CASE NetPoll \/ NetPollFails
  BY <1>4, <1>5 DEF NetPoll, NetPollFails, stmVars, histVars
<1>6. CASE OtherRequest \/ OtherAnswer \/ OtherFails
  BY <1>4, <1>6 DEF OtherRequest, OtherAnswer, OtherFails, espVars, stmVars, histVars
<1>7. CASE StmGarbled \/ StmOther \/ LinkStep
  BY <1>4, <1>7 DEF StmGarbled, StmOther, LinkStep, espVars, stmVars, histVars
<1>8. CASE Z80Read
  BY <1>4, <1>8 DEF Z80Read, espVars
<1>9. CASE UNCHANGED vars
  BY <1>4, <1>9 DEF vars, espVars, stmVars, histVars
<1> QED
  BY <1>1, <1>2, <1>3, <1>5, <1>6, <1>7, <1>8, <1>9 DEF Next

\* The same for the bytes cmd_net_write accepted: the ESP32 processes them
\* whole, once and in order.
THEOREM DeliveryFromZ80 == Spec => []StreamFromZ80
<1>1. Init => StreamFromZ80
  <2> SUFFICES ASSUME Init PROVE StreamFromZ80
    OBVIOUS
  <2>1. Unprocessed = <<>> /\ esp_log = <<>> /\ fromZ80 = 0
    BY DEF Init, Unprocessed
  <2>2. <<>> \o <<>> = <<>>
    BY EmptySeq, ConcatEmptySeq
  <2>3. Bytes(0, 0) \in Seq(Nat) /\ Len(Bytes(0, 0)) = 0
    BY BytesFacts
  <2>4. Bytes(0, 0) = <<>>
    BY <2>3, EmptySeq
  <2> QED
    BY <2>1, <2>2, <2>4, Zenon DEF StreamFromZ80
<1> QED
  BY <1>1, NextStreamFromZ80, CoreInvariance, PTL DEF Spec

\* Both at once, in the frames they share.
THEOREM DeliveryBothWays == Spec => []Streams
<1>1. StreamToZ80 /\ StreamFromZ80 => Streams
  BY DEF Streams
<1> QED
  BY <1>1, DeliveryToZ80, DeliveryFromZ80, PTL

-----------------------------------------------------------------------------
(* What is in flight is offered again as it was.                           *)

StillOffered ==
  /\ (pending # <<>> /\ e_out' = e_out) => pending' = pending
  /\ (inflight > 0 /\ s_out' = s_out) =>
       /\ inflight' = inflight
       /\ SubSeq(tx_buf', 1, inflight') = SubSeq(tx_buf, 1, inflight)

LEMMA NextOffers == CoreInv /\ [Next]_vars => StillOffered
<1> SUFFICES ASSUME CoreInv, [Next]_vars PROVE StillOffered
  OBVIOUS
<1>1. TypeInv /\ BridgeTypeOK
  BY DEF CoreInv, TypeInv
<1>2. /\ e_out \in BOOLEAN /\ s_out \in BOOLEAN
      /\ tx_buf \in Seq(Nat) /\ inflight \in 0..Len(tx_buf)
  BY <1>1, CoreTypes
<1>3. CASE NetPoll
  <2>1. PICK k \in 0..FeedRoom :
          LET q == txq \o Bytes(toZ80, toZ80 + k) IN
          pending' = IF Load(q) > 0 THEN SubSeq(q, 1, Load(q)) ELSE pending
    BY <1>3, Zenon DEF NetPoll
  <2> DEFINE q == txq \o Bytes(toZ80, toZ80 + k)
  <2>2. q \in Seq(Nat)
    BY <1>1, FeedFacts
  <2>3. Load(q) > 0 => pending = <<>>
    BY <1>1, <2>2, LoadFacts
  <2>4. UNCHANGED <<tx_buf, inflight>>
    BY <1>3 DEF NetPoll, stmVars
  <2> QED
    BY <2>1, <2>3, <2>4 DEF StillOffered
<1>4. CASE NetPollAnswer
  <2>1. LET ans == Head(resps) IN
        /\ pending' = IF EspAcked(ans) THEN <<>> ELSE pending
        /\ e_out' = IF EspAcked(ans) THEN ~e_out ELSE e_out
        /\ UNCHANGED <<tx_buf, inflight>>
    BY <1>4, NetPollAnswerFacts, Zenon
  <2> QED
    BY <1>2, <2>1 DEF StillOffered
<1>5. CASE StmNetPoll
  <2> DEFINE req   == Head(reqs)
             queue == IF StmAcked(req) THEN Drop(tx_buf, inflight) ELSE tx_buf
  <2>1. /\ s_out' = IF StmAcked(req) THEN ~s_out ELSE s_out
        /\ tx_buf' = queue /\ inflight' = Offer(req, queue)
        /\ UNCHANGED pending
    BY <1>5, StmNetPollEffect, Zenon
  <2> QED
    BY <1>2, <2>1 DEF StillOffered, Offer
<1>6. CASE Z80Write
  <2>1. PICK n \in Nat : /\ tx_buf' = tx_buf \o Bytes(fromZ80, fromZ80 + n)
                         /\ Bytes(fromZ80, fromZ80 + n) \in Seq(Nat)
    BY <1>6, Z80WriteFacts
  <2>2. SubSeq(tx_buf', 1, inflight) = SubSeq(tx_buf, 1, inflight)
    BY <1>2, <2>1, WriteBehind
  <2>3. UNCHANGED <<pending, inflight>>
    BY <1>6 DEF Z80Write, espVars
  <2> QED
    BY <2>2, <2>3 DEF StillOffered
<1>7. ASSUME UNCHANGED <<pending, tx_buf, inflight>>
      PROVE  StillOffered
  BY <1>7 DEF StillOffered
<1>8. CASE NetPollFails \/ OtherRequest \/ OtherAnswer \/ OtherFails
  BY <1>7, <1>8 DEF NetPollFails, OtherRequest, OtherAnswer, OtherFails, espVars, stmVars
<1>9. CASE StmGarbled \/ StmOther \/ LinkStep
  BY <1>7, <1>9 DEF StmGarbled, StmOther, LinkStep, espVars, stmVars
<1>10. CASE Z80Read
  BY <1>7, <1>10 DEF Z80Read, espVars
<1>11. CASE UNCHANGED vars
  BY <1>7, <1>11 DEF vars, espVars, stmVars
<1> QED
  BY <1>3, <1>4, <1>5, <1>6, <1>8, <1>9, <1>10, <1>11 DEF Next

\* A retry repeats what it retries: neither end changes an unconfirmed chunk.
THEOREM OffersAreStable == Spec => ReofferSame
<1>1. CoreInv /\ [Next]_vars => [StillOffered]_vars
  BY NextOffers
<1>2. [][StillOffered]_vars <=> ReofferSame
  BY DEF StillOffered, ReofferSame
<1> QED
  BY <1>1, <1>2, CoreInvariance, PTL DEF Spec

-----------------------------------------------------------------------------
(* The refinement of BytePipe.                                             *)


Down == [ToZ80!Put \/ ToZ80!Take]_<<toZ80, Held, z80_log>>
Up   == [FromZ80!Put \/ FromZ80!Take]_<<fromZ80, Unprocessed, esp_log>>

LEMMA NoBytes == ASSUME NEW a \in Nat PROVE Bytes(a, a) = <<>>
<1>1. Bytes(a, a) \in Seq(Nat) /\ Len(Bytes(a, a)) = a - a
  BY BytesFacts
<1> QED
  BY <1>1, EmptySeq

-----------------------------------------------------------------------------
(* The steps of the pipe towards the Z80.                                  *)

\* Bytes that enter the stream are put into the pipe.
LEMMA FeedPuts ==
  ASSUME CoreInv, Fed, TypeInv'
  PROVE  Down
<1> PICK k \in Nat :
      /\ toZ80' = toZ80 + k
      /\ Unstored' \o txq' = Unstored \o (txq \o Bytes(toZ80, toZ80 + k))
      /\ UNCHANGED <<z80_log, rx_buf>>
  BY DEF Fed
<1>0. Unstored' \in Seq(Nat) /\ txq' \in Seq(Nat)
  BY EmptySeq DEF TypeInv, BridgeTypeOK, Unstored
<1> DEFINE N    == Nat
           more == Bytes(toZ80, toZ80 + k)
           u2   == Unstored'
           t2   == txq'
           u    == Unstored
<1>1. /\ rx_buf \in Seq(Nat) /\ Unstored \in Seq(Nat) /\ txq \in Seq(Nat) /\ toZ80 \in Nat
  BY CoreTypes, UnstoredTypes DEF CoreInv
<1>2. toZ80 + k \in Nat /\ toZ80 <= toZ80 + k
  BY <1>1
<1>3. more \in Seq(Nat)
  BY <1>1, <1>2, BytesFacts
<1>4. Held' = (rx_buf \o u2) \o t2
  BY DEF Held
<1>5. /\ rx_buf \in Seq(N) /\ u \in Seq(N) /\ txq \in Seq(N) /\ more \in Seq(N)
      /\ u2 \in Seq(N) /\ t2 \in Seq(N)
  BY <1>0, <1>1, <1>3
<1>6. u2 \o t2 = u \o (txq \o more)
  OBVIOUS
<1> HIDE DEF N, more, u2, t2, u
<1>7. (rx_buf \o u2) \o t2 = rx_buf \o (u2 \o t2)
  BY <1>5, ConcatAssociative, SMTT(60)
<1>8. ((rx_buf \o u) \o txq) \o more = rx_buf \o (u \o (txq \o more))
  <2> DEFINE tm == txq \o more
             pu == rx_buf \o u
  <2>1. tm \in Seq(N) /\ pu \in Seq(N)
    BY <1>5, ConcatProperties
  <2>2. pu \o tm = rx_buf \o (u \o tm)
    <3> HIDE DEF tm
    <3> QED
      BY <1>5, <2>1, ConcatAssociative, SMTT(60)
  <2>3. (pu \o txq) \o more = pu \o tm
    <3> HIDE DEF pu
    <3> QED
      BY <1>5, <2>1, ConcatAssociative, SMTT(60)
  <2> QED
    BY <2>2, <2>3, Zenon
<1>9. Held' = Held \o more
  BY <1>4, <1>6, <1>7, <1>8, Zenon DEF Held, u
<1>10. CASE k > 0
  <2>1. toZ80' \in Nat /\ toZ80' > toZ80
    BY <1>1, <1>10
  <2>2. ToZ80!Fresh(toZ80, toZ80') = more
    BY DEF ToZ80!Fresh, Bytes, more
  <2> QED
    BY <1>9, <2>1, <2>2 DEF Down, ToZ80!Put
<1>11. CASE k = 0
  <2>1. more = <<>> /\ toZ80' = toZ80
    BY <1>1, <1>11, NoBytes DEF more
  <2>2. Held \in Seq(N)
    <3>1. rx_buf \o u \in Seq(N)
      BY <1>5, ConcatProperties
    <3>2. (rx_buf \o u) \o txq \in Seq(N)
      BY <1>5, <3>1, ConcatProperties
    <3> QED
      BY <3>2 DEF Held, u
  <2>3. Held \o <<>> = Held
    BY <2>2, ConcatEmptySeq
  <2> QED
    BY <1>9, <2>1, <2>3 DEF Down
<1> QED
  BY <1>10, <1>11

\* What cmd_net_read gives the Z80 is taken from the front of the pipe.
LEMMA ReadTakes ==
  ASSUME CoreInv, Z80Read
  PROVE  Down
<1> DEFINE N == Nat
<1>1. PICK max \in 1..Batch :
        /\ z80_log' = z80_log \o SubSeq(rx_buf, 1, Smaller(Len(rx_buf), max))
        /\ rx_buf' = Drop(rx_buf, Smaller(Len(rx_buf), max))
  BY DEF Z80Read
<1> DEFINE n == Smaller(Len(rx_buf), max)
           w == Unstored
<1>2. /\ rx_buf \in Seq(N) /\ Len(rx_buf) \in Nat /\ w \in Seq(N) /\ txq \in Seq(N)
  BY CoreTypes, UnstoredTypes DEF CoreInv
<1>3. rx_buf # <<>> /\ UNCHANGED <<txq, pending, s_in, e_out, toZ80>>
  BY DEF Z80Read, espVars
<1>4. n \in 1..Len(rx_buf)
  <2>1. Len(rx_buf) > 0
    BY <1>2, <1>3, EmptySeq
  <2> QED
    BY <1>2, <2>1, NetBounds DEF Smaller
<1>5. z80_log' = z80_log \o SubSeq(rx_buf, 1, n) /\ rx_buf' = Drop(rx_buf, n)
  BY <1>1
<1>6. Held = (rx_buf \o w) \o txq /\ Held' = (Drop(rx_buf, n) \o w) \o txq
  BY <1>3, <1>5 DEF Held, Unstored
<1> HIDE DEF n, w
<1>7. w \o txq \in Seq(N)
  BY <1>2, ConcatProperties
<1>8. Drop(rx_buf, n) \in Seq(N)
  <2>1. n \in 0..Len(rx_buf)
    BY <1>2, <1>4
  <2> HIDE DEF N
  <2> QED
    BY <1>2, <2>1, DropFacts
<1> HIDE DEF N
<1>9. Held = rx_buf \o (w \o txq) /\ Held' = Drop(rx_buf, n) \o (w \o txq)
  BY <1>2, <1>6, <1>8, ConcatAssociative, SMTT(60)
<1>10. /\ SubSeq(rx_buf \o (w \o txq), 1, n) = SubSeq(rx_buf, 1, n)
       /\ Drop(rx_buf \o (w \o txq), n) = Drop(rx_buf, n) \o (w \o txq)
  <2>1. n \in 0..Len(rx_buf)
    BY <1>2, <1>4
  <2> QED
    BY <1>2, <1>7, <2>1, WriteBehind
<1>11. n \in 1..Len(Held)
  <2>1. Len(rx_buf \o (w \o txq)) = Len(rx_buf) + Len(w \o txq) /\ Len(w \o txq) \in Nat
    BY <1>2, <1>7, ConcatProperties, LenProperties
  <2> QED
    BY <1>2, <1>4, <1>9, <2>1
<1>12. /\ z80_log' = z80_log \o SubSeq(Held, 1, n)
       /\ Held' = SubSeq(Held, n + 1, Len(Held))
  BY <1>5, <1>9, <1>10 DEF Drop
<1> QED
  BY <1>3, <1>11, <1>12 DEF Down, ToZ80!Take

\* A chunk that is stored stays in the pipe.
LEMMA StoringKeeps ==
  ASSUME CoreInv, StmNetPoll
  PROVE  Down
<1> DEFINE req == Head(reqs)
           N   == Nat
<1>1. rx_buf \in Seq(N) /\ pending \in Seq(N)
  BY CoreTypes DEF CoreInv
<1>2. Accepts(req) => s_in # e_out /\ req.seq = e_out /\ req.data = pending
  BY StmNetPollFacts
<1>3. /\ rx_buf' = IF Accepts(req) THEN rx_buf \o req.data ELSE rx_buf
      /\ s_in' = IF Accepts(req) THEN req.seq ELSE s_in
      /\ UNCHANGED <<e_out, pending, txq, toZ80, z80_log>>
  BY StmNetPollEffect, Zenon
<1> HIDE DEF N
<1>4. rx_buf' \o Unstored' = rx_buf \o Unstored
  <2>1. CASE Accepts(req)
    <3>1. Unstored = pending /\ Unstored' = <<>> /\ rx_buf' = rx_buf \o pending
      BY <1>2, <1>3, <2>1 DEF Unstored
    <3>2. rx_buf \o pending \in Seq(N)
      BY <1>1, ConcatProperties
    <3>3. (rx_buf \o pending) \o <<>> = rx_buf \o pending
      BY <3>2, ConcatEmptySeq, Zenon
    <3> QED
      BY <3>1, <3>3
  <2>2. CASE ~Accepts(req)
    BY <1>3, <2>2 DEF Unstored
  <2> QED
    BY <2>1, <2>2
<1>5. Held' = Held
  BY <1>3, <1>4 DEF Held
<1> QED
  BY <1>3, <1>5 DEF Down

LEMMA StepsDown == CoreInv /\ [Next]_vars => Down
<1> SUFFICES ASSUME CoreInv, [Next]_vars PROVE Down
  OBVIOUS
<1>1. CASE NetPoll \/ NetPollAnswer
  <2>1. TypeInv'
    BY NextTypes DEF CoreInv
  <2> QED
    BY <1>1, <2>1, NetPollFeeds, NetPollAnswerFeeds, FeedPuts
<1>2. CASE StmNetPoll
  BY <1>2, StoringKeeps
<1>3. CASE Z80Read
  BY <1>3, ReadTakes
<1>4. ASSUME UNCHANGED <<z80_log, rx_buf, pending, txq, s_in, e_out, toZ80>>
      PROVE  Down
  BY <1>4 DEF Down, Held, Unstored
<1>5. CASE NetPollFails \/ OtherRequest \/ OtherAnswer \/ OtherFails
  BY <1>4, <1>5 DEF NetPollFails, OtherRequest, OtherAnswer, OtherFails,
                    espVars, stmVars, histVars
<1>6. CASE StmGarbled \/ StmOther \/ LinkStep
  BY <1>4, <1>6 DEF StmGarbled, StmOther, LinkStep, espVars, stmVars, histVars
<1>7. CASE Z80Write
  BY <1>4, <1>7 DEF Z80Write, espVars
<1>8. CASE UNCHANGED vars
  BY <1>4, <1>8 DEF vars, espVars, stmVars, histVars
<1> QED
  BY <1>1, <1>2, <1>3, <1>5, <1>6, <1>7, <1>8 DEF Next

-----------------------------------------------------------------------------
(* The steps of the pipe from the Z80.                                     *)

\* A new chunk is taken from the front of the pipe.
LEMMA AnswerTakes ==
  ASSUME CoreInv, NetPollAnswer
  PROVE  Up
<1> DEFINE ans == Head(resps)
           out == SubSeq(tx_buf, 1, inflight)
<1>1. /\ EspFresh(ans) => e_in # s_out /\ ans.seq = s_out /\ ans.data = out
      /\ e_in' = IF EspFresh(ans) THEN ans.seq ELSE e_in
      /\ UNCHANGED <<s_out, tx_buf, inflight>>
  BY NetPollAnswerFacts, Zenon
<1>2. /\ esp_log' = IF EspFresh(ans) THEN esp_log \o ans.data ELSE esp_log
      /\ UNCHANGED fromZ80
  BY DEF NetPollAnswer
<1>3. tx_buf \in Seq(Nat) /\ inflight \in 0..Len(tx_buf) /\ Len(tx_buf) \in Nat
  BY CoreTypes DEF CoreInv
<1>4. CASE EspFresh(ans)
  <2>1. Unprocessed = tx_buf /\ Unprocessed' = SubSeq(tx_buf, inflight + 1, Len(tx_buf))
    BY <1>1, <1>4 DEF Unprocessed, Drop
  <2>2. inflight \in 1..Len(Unprocessed)
    <3>1. out \in Seq(Nat) /\ Len(out) = inflight
      BY <1>3, PrefixFacts
    <3>2. out # <<>>
      BY <1>1, <1>4 DEF EspFresh
    <3> HIDE DEF out
    <3>3. inflight # 0
      BY <3>1, <3>2, EmptySeq
    <3> QED
      BY <1>3, <2>1, <3>3
  <2> QED
    BY <1>1, <1>2, <1>4, <2>1, <2>2 DEF Up, FromZ80!Take
<1>5. CASE ~EspFresh(ans)
  BY <1>1, <1>2, <1>5 DEF Up, Unprocessed
<1> QED
  BY <1>4, <1>5

\* Releasing and offering move nothing.
LEMMA OfferKeeps ==
  ASSUME CoreInv, StmNetPoll
  PROVE  Up
<1> DEFINE req   == Head(reqs)
           queue == IF StmAcked(req) THEN Drop(tx_buf, inflight) ELSE tx_buf
<1>1. StmAcked(req) => e_in = s_out
  BY StmNetPollFacts, Zenon
<1>2. /\ s_out' = IF StmAcked(req) THEN ~s_out ELSE s_out
      /\ tx_buf' = queue /\ inflight' = Offer(req, queue)
      /\ UNCHANGED <<e_in, fromZ80, esp_log>>
  BY StmNetPollEffect, Zenon
<1>3. s_out \in BOOLEAN /\ inflight \in Nat
  BY CoreTypes DEF CoreInv
<1>4. CASE StmAcked(req)
  BY <1>1, <1>2, <1>3, <1>4 DEF Up, Unprocessed
<1>5. CASE ~StmAcked(req) /\ inflight > 0
  <2>1. inflight' = inflight /\ tx_buf' = tx_buf /\ s_out' = s_out
    BY <1>2, <1>5 DEF Offer
  <2> QED
    BY <1>2, <2>1 DEF Up, Unprocessed
<1>6. CASE ~StmAcked(req) /\ inflight = 0
  <2>1. e_in # s_out
    BY <1>6, EmptyInflight
  <2> QED
    BY <1>2, <1>6, <2>1 DEF Up, Unprocessed
<1> QED
  BY <1>3, <1>4, <1>5, <1>6

\* What cmd_net_write accepts is put into the pipe.
LEMMA WritePuts ==
  ASSUME CoreInv, Z80Write
  PROVE  Up
<1>1. PICK n \in Nat : /\ tx_buf' = tx_buf \o Bytes(fromZ80, fromZ80 + n)
                       /\ fromZ80' = fromZ80 + n
                       /\ Bytes(fromZ80, fromZ80 + n) \in Seq(Nat)
  BY Z80WriteFacts
<1> DEFINE more == Bytes(fromZ80, fromZ80 + n)
<1>2. UNCHANGED <<e_in, s_out, inflight, esp_log>>
  BY DEF Z80Write, linkVars, espVars
<1>3. tx_buf \in Seq(Nat) /\ inflight \in 0..Len(tx_buf) /\ fromZ80 \in Nat
  BY CoreTypes DEF CoreInv
<1>4. Drop(tx_buf \o more, inflight) = Drop(tx_buf, inflight) \o more
  BY <1>1, <1>3, WriteBehind
<1>5. Unprocessed' = Unprocessed \o more
  BY <1>1, <1>2, <1>4 DEF Unprocessed
<1>6. CASE n > 0
  <2>1. fromZ80' \in Nat /\ fromZ80' > fromZ80
    BY <1>1, <1>3, <1>6
  <2>2. FromZ80!Fresh(fromZ80, fromZ80') = more
    BY <1>1 DEF FromZ80!Fresh, Bytes
  <2> QED
    BY <1>2, <1>5, <2>1, <2>2 DEF Up, FromZ80!Put
<1>7. CASE n = 0
  <2>1. more = <<>> /\ fromZ80' = fromZ80
    BY <1>1, <1>3, <1>7, NoBytes
  <2>2. Unprocessed \in Seq(Nat)
    <3>1. Drop(tx_buf, inflight) \in Seq(Nat)
      BY <1>3, DropFacts, Zenon
    <3> QED
      BY <1>3, <3>1 DEF Unprocessed
  <2>3. Unprocessed \o <<>> = Unprocessed
    BY <2>2, ConcatEmptySeq
  <2> QED
    BY <1>2, <1>5, <2>1, <2>3 DEF Up
<1> QED
  BY <1>6, <1>7

LEMMA StepsUp == CoreInv /\ [Next]_vars => Up
<1> SUFFICES ASSUME CoreInv, [Next]_vars PROVE Up
  OBVIOUS
<1>1. CASE NetPollAnswer
  BY <1>1, AnswerTakes
<1>2. CASE StmNetPoll
  BY <1>2, OfferKeeps
<1>3. CASE Z80Write
  BY <1>3, WritePuts
<1>4. ASSUME UNCHANGED <<esp_log, tx_buf, inflight, e_in, s_out, fromZ80>>
      PROVE  Up
  BY <1>4 DEF Up, Unprocessed
<1>5. CASE NetPoll \/ NetPollFails
  BY <1>4, <1>5 DEF NetPoll, NetPollFails, stmVars, histVars
<1>6. CASE OtherRequest \/ OtherAnswer \/ OtherFails
  BY <1>4, <1>6 DEF OtherRequest, OtherAnswer, OtherFails, espVars, stmVars, histVars
<1>7. CASE StmGarbled \/ StmOther \/ LinkStep
  BY <1>4, <1>7 DEF StmGarbled, StmOther, LinkStep, espVars, stmVars, histVars
<1>8. CASE Z80Read
  BY <1>4, <1>8 DEF Z80Read, espVars
<1>9. CASE UNCHANGED vars
  BY <1>4, <1>9 DEF vars, espVars, stmVars, histVars
<1> QED
  BY <1>1, <1>2, <1>3, <1>5, <1>6, <1>7, <1>8, <1>9 DEF Next

-----------------------------------------------------------------------------
LEMMA BothEmpty == Init => ToZ80!PipeInit /\ FromZ80!PipeInit
<1> SUFFICES ASSUME Init PROVE ToZ80!PipeInit /\ FromZ80!PipeInit
  OBVIOUS
<1>1. /\ Unstored = <<>> /\ Unprocessed = <<>> /\ rx_buf = <<>> /\ txq = <<>>
      /\ z80_log = <<>> /\ esp_log = <<>> /\ toZ80 = 0 /\ fromZ80 = 0
  BY DEF Init, Unstored, Unprocessed
<1>2. <<>> \o <<>> = <<>>
  BY EmptySeq, ConcatEmptySeq
<1>3. Held = <<>>
  BY <1>1, <1>2 DEF Held
<1> QED
  BY <1>1, <1>3 DEF ToZ80!PipeInit, FromZ80!PipeInit

\* The bridge is two pipes: what goes in at one end comes out at the other,
\* nothing is added, nothing is passed, in every step of the protocol, for
\* every size of the buffers and every number of retries.
THEOREM BridgeIsTwoPipes == Spec => Pipes
<1>1. CoreInv /\ [Next]_vars => [ToZ80!Put \/ ToZ80!Take]_(ToZ80!pipeVars)
  BY StepsDown DEF Down, ToZ80!pipeVars
<1>2. CoreInv /\ [Next]_vars => [FromZ80!Put \/ FromZ80!Take]_(FromZ80!pipeVars)
  BY StepsUp DEF Up, FromZ80!pipeVars
<1> QED
  BY <1>1, <1>2, BothEmpty, CoreInvariance, PTL
  DEF Spec, Pipes, ToZ80!PipeSpec, FromZ80!PipeSpec

-----------------------------------------------------------------------------
(* The modem, of the same NET_BRIDGE.cpp: its data is exact and only an     *)
(* escape ends its data mode.                                              *)
(*                                                                         *)
(* SocketExact says that what is held back is "+"; that it is the end of   *)
(* the data, begins after silence and is at most three bytes is what makes *)
(* it inductive, and makes "+++" an escape (EscapeNeedsSilence).           *)

ModemBytes == {"+", "x"}
DataBytes == ModemBytes \X BOOLEAN

\* s went to the socket, and the last n bytes of d are held back.
HeldBack(s, d, n) ==
  /\ s \in Seq(ModemBytes) /\ d \in Seq(DataBytes) /\ n \in 0..3
  /\ Len(s) + n = Len(d)
  /\ \A i \in 1..Len(s) : s[i] = d[i][1]
  /\ \A i \in (Len(s) + 1)..Len(d) : d[i][1] = "+"
  /\ n > 0 => d[Len(s) + 1][2]

ModemInv ==
  /\ state \in {"idle", "connected", "error"}
  /\ command \in BOOLEAN /\ quiet \in BOOLEAN /\ dials \in Nat
  /\ ModeFollowsLine
  /\ state = "connected" => HeldBack(sent, data, esc)

-----------------------------------------------------------------------------
(* The sequences.                                                          *)

LEMMA PlusesAre ==
  ASSUME NEW n \in Nat
  PROVE  /\ Pluses(n) \in Seq(ModemBytes) /\ Len(Pluses(n)) = n
         /\ \A i \in 1..n : Pluses(n)[i] = "+"
<1>1. Pluses(n) \in [1..n -> ModemBytes]
  BY DEF Pluses, ModemBytes
<1>2. Pluses(n) \in Seq(ModemBytes)
  BY <1>1
<1>3. DOMAIN Pluses(n) = 1..n
  BY DEF Pluses
<1>4. Len(Pluses(n)) = n
  BY <1>2, <1>3, LenProperties
<1> QED
  BY <1>2, <1>4 DEF Pluses

\* A byte more is held back.
LEMMA HoldMore ==
  ASSUME NEW s, NEW d, NEW n \in 0..2, NEW q \in BOOLEAN, HeldBack(s, d, n), n > 0 \/ q
  PROVE  HeldBack(s, Append(d, <<"+", q>>), n + 1)
<1> DEFINE e == Append(d, <<"+", q>>)
<1>1. s \in Seq(ModemBytes) /\ d \in Seq(DataBytes) /\ Len(s) \in Nat /\ Len(d) \in Nat /\ Len(s) + n = Len(d)
  BY LenProperties DEF HeldBack
<1>2. <<"+", q>> \in DataBytes
  BY DEF DataBytes, ModemBytes
<1>3. /\ e \in Seq(DataBytes) /\ Len(e) = Len(d) + 1 /\ e[Len(d) + 1] = <<"+", q>>
      /\ \A i \in 1..Len(d) : e[i] = d[i]
  BY <1>1, <1>2, AppendProperties
<1> HIDE DEF e
<1>4. n + 1 \in 0..3 /\ Len(s) + (n + 1) = Len(e)
  BY <1>1, <1>3
<1>5. \A i \in 1..Len(s) : s[i] = e[i][1]
  BY <1>1, <1>3 DEF HeldBack
<1>6. \A i \in (Len(s) + 1)..Len(e) : e[i][1] = "+"
  BY <1>1, <1>3 DEF HeldBack
<1>7. e[Len(s) + 1][2]
  BY <1>1, <1>3 DEF HeldBack
<1> QED
  BY <1>1, <1>3, <1>4, <1>5, <1>6, <1>7 DEF HeldBack, e

\* What was held back goes to the socket.
LEMMA ReleaseAll ==
  ASSUME NEW s, NEW d, NEW n, HeldBack(s, d, n)
  PROVE  HeldBack(s \o Pluses(n), d, 0)
<1> DEFINE t == s \o Pluses(n)
<1>1. s \in Seq(ModemBytes) /\ d \in Seq(DataBytes) /\ Len(s) \in Nat /\ Len(d) \in Nat /\ Len(s) + n = Len(d)
      /\ n \in Nat
  BY LenProperties DEF HeldBack
<1>2. Pluses(n) \in Seq(ModemBytes) /\ Len(Pluses(n)) = n /\ \A i \in 1..n : Pluses(n)[i] = "+"
  BY <1>1, PlusesAre
<1>3. /\ t \in Seq(ModemBytes) /\ Len(t) = Len(s) + Len(Pluses(n))
      /\ \A i \in 1..Len(s) + Len(Pluses(n)) :
           t[i] = IF i <= Len(s) THEN s[i] ELSE Pluses(n)[i - Len(s)]
  BY <1>1, <1>2, ConcatProperties
<1> HIDE DEF t
<1>4. ASSUME NEW i \in 1..Len(t) PROVE t[i] = d[i][1]
  <2>1. CASE i <= Len(s)
    BY <1>1, <1>2, <1>3, <2>1 DEF HeldBack
  <2>2. CASE i > Len(s)
    <3>1. i - Len(s) \in 1..n /\ i \in (Len(s) + 1)..Len(d)
      BY <1>1, <1>2, <1>3, <2>2
    <3> QED
      BY <1>1, <1>2, <1>3, <2>2, <3>1 DEF HeldBack
  <2> QED
    BY <1>1, <1>2, <1>3, <2>1, <2>2
<1> QED
  BY <1>1, <1>2, <1>3, <1>4 DEF HeldBack, t

\* A byte that is not held back goes to the socket.
LEMMA SendMore ==
  ASSUME NEW s, NEW d, NEW b \in ModemBytes, NEW q \in BOOLEAN, HeldBack(s, d, 0)
  PROVE  HeldBack(s \o <<b>>, Append(d, <<b, q>>), 0)
<1> DEFINE e == Append(d, <<b, q>>)
           t == s \o <<b>>
<1>1. s \in Seq(ModemBytes) /\ d \in Seq(DataBytes) /\ Len(s) \in Nat /\ Len(d) \in Nat /\ Len(s) = Len(d)
  BY LenProperties DEF HeldBack
<1>2. <<b, q>> \in DataBytes
  BY DEF DataBytes
<1>3. /\ e \in Seq(DataBytes) /\ Len(e) = Len(d) + 1 /\ e[Len(d) + 1] = <<b, q>>
      /\ \A i \in 1..Len(d) : e[i] = d[i]
  BY <1>1, <1>2, AppendProperties
<1>4. t = Append(s, b)
  BY <1>1, AppendIsConcat
<1>5. /\ t \in Seq(ModemBytes) /\ Len(t) = Len(s) + 1 /\ t[Len(s) + 1] = b
      /\ \A i \in 1..Len(s) : t[i] = s[i]
  BY <1>1, <1>4, AppendProperties
<1> HIDE DEF e, t
<1>6. \A i \in 1..Len(t) : t[i] = e[i][1]
  BY <1>1, <1>3, <1>5 DEF HeldBack
<1> QED
  BY <1>1, <1>3, <1>5, <1>6 DEF HeldBack, e, t

\* The three bytes of an escape leave the data.
LEMMA Escape ==
  ASSUME NEW s, NEW d, HeldBack(s, d, 3)
  PROVE  HeldBack(s, SubSeq(d, 1, Len(d) - 3), 0)
<1> DEFINE e == SubSeq(d, 1, Len(d) - 3)
<1>1. s \in Seq(ModemBytes) /\ d \in Seq(DataBytes) /\ Len(s) \in Nat /\ Len(d) \in Nat /\ Len(s) + 3 = Len(d)
  BY LenProperties DEF HeldBack
<1>2. \A i \in 1..Len(d) - 3 : d[i] \in DataBytes
  BY <1>1, ElementOfSeq
<1>3. /\ e \in Seq(DataBytes) /\ Len(e) = IF 1 <= Len(d) - 3 THEN Len(d) - 3 - 1 + 1 ELSE 0
      /\ \A i \in 1..(Len(d) - 3) - 1 + 1 : e[i] = d[1 + i - 1]
  BY <1>1, <1>2, SubSeqProperties
<1> HIDE DEF e
<1>4. Len(e) = Len(s) /\ \A i \in 1..Len(s) : e[i] = d[i]
  BY <1>1, <1>3
<1> QED
  BY <1>1, <1>3, <1>4 DEF HeldBack, e

\* SocketExact in one line.
LEMMA InOneLine ==
  ASSUME NEW s, NEW d, NEW n, HeldBack(s, d, n)
  PROVE  s \o Pluses(n) = [i \in 1..Len(d) |-> d[i][1]]
<1> DEFINE t == s \o Pluses(n)
           f == [i \in 1..Len(d) |-> d[i][1]]
<1>1. HeldBack(t, d, 0)
  BY ReleaseAll
<1> HIDE DEF t
<1>2. t \in Seq(ModemBytes) /\ d \in Seq(DataBytes) /\ Len(d) \in Nat /\ Len(t) = Len(d)
      /\ \A i \in 1..Len(t) : t[i] = d[i][1]
  BY <1>1, LenProperties DEF HeldBack
<1>3. t \in [1..Len(d) -> ModemBytes]
  BY <1>2, LenProperties
<1>4. t = f
  BY <1>2, <1>3
<1> QED
  BY <1>4 DEF t

-----------------------------------------------------------------------------
(* The steps.                                                              *)

LEMMA ModemBegins == ModemInit => ModemInv
BY DEF ModemInit, ModemInv, ModeFollowsLine

\* A byte of data is held back, alone or after others, or releases them.
LEMMA DataStep ==
  ASSUME ModemInv, NEW b \in ModemBytes, DataByte(b)
  PROVE  ModemInv'
<1>1. state = "connected" /\ HeldBack(sent, data, esc)
  BY DEF ModemInv, DataByte, InData, ModeFollowsLine
<1>2. esc \in 0..3 /\ quiet \in BOOLEAN
  BY <1>1 DEF HeldBack, ModemInv
<1> DEFINE held == IF esc = 3 THEN 0 ELSE esc
<1>3. /\ data' = Append(data, <<b, quiet>>) /\ quiet' = FALSE
      /\ UNCHANGED <<state, command, dials>>
      /\ IF HeldByte(b, held)
         THEN esc' = held + 1 /\ sent' = sent \o Release(esc - held)
         ELSE esc' = 0        /\ sent' = sent \o Release(esc) \o <<b>>
  BY DEF DataByte
<1>4. HeldBack(sent', data', esc')
  <2>1. CASE HeldByte(b, held)
    <3>1. b = "+" /\ (held > 0 \/ quiet) /\ esc' = held + 1 /\ sent' = sent \o Release(esc - held)
      BY <1>3, <2>1 DEF HeldByte
    <3>2. HeldBack(sent \o Release(esc - held), data, held)
      <4>1. CASE esc = 3
        <5>1. esc - held = 3 /\ held = 0
          BY <4>1
        <5> QED
          BY <1>1, <4>1, <5>1, ReleaseAll DEF Release
      <4>2. CASE esc # 3
        <5>1. esc - held = 0 /\ held = esc
          BY <1>2, <4>2
        <5>2. sent \in Seq(ModemBytes)
          BY <1>1 DEF HeldBack
        <5>3. Pluses(0) = <<>>
          BY PlusesAre, EmptySeq
        <5>4. sent \o Pluses(0) = sent
          BY <5>2, <5>3, ConcatEmptySeq
        <5> QED
          BY <1>1, <5>1, <5>4 DEF Release
      <4> QED
        BY <4>1, <4>2
    <3>3. held \in 0..2
      BY <1>2
    <3> HIDE DEF held
    <3>4. HeldBack(sent', data, held)
      BY <3>1, <3>2
    <3>5. HeldBack(sent', Append(data, <<"+", quiet>>), held + 1)
      BY <1>2, <3>1, <3>3, <3>4, HoldMore
    <3> QED
      BY <1>3, <3>1, <3>5
  <2>2. CASE ~HeldByte(b, held)
    <3>1. esc' = 0 /\ sent' = (sent \o Pluses(esc)) \o <<b>>
      BY <1>3, <2>2 DEF Release
    <3>2. HeldBack(sent \o Pluses(esc), data, 0)
      BY <1>1, ReleaseAll
    <3>3. HeldBack((sent \o Pluses(esc)) \o <<b>>, Append(data, <<b, quiet>>), 0)
      BY <1>2, <3>2, SendMore
    <3> QED
      BY <1>3, <3>1, <3>3
  <2> QED
    BY <2>1, <2>2
<1> HIDE DEF held
<1> QED
  BY <1>3, <1>4 DEF ModemInv, ModeFollowsLine

LEMMA EscapeStep ==
  ASSUME ModemInv, CheckEscape
  PROVE  ModemInv'
<1>1. state = "connected" /\ HeldBack(sent, data, 3)
  BY DEF ModemInv, CheckEscape, EscapeComplete, ModeFollowsLine
<1>2. /\ data' = SubSeq(data, 1, Len(data) - 3) /\ esc' = 0 /\ command' = TRUE
      /\ UNCHANGED <<state, quiet, sent, dials>>
  BY DEF CheckEscape, timeVars
<1>3. HeldBack(sent', data', esc')
  BY <1>1, <1>2, Escape
<1> QED
  BY <1>2, <1>3 DEF ModemInv, ModeFollowsLine

\* A new line starts with nothing sent and nothing held back.
LEMMA DialStep ==
  ASSUME ModemInv, Dial, quiet' \in BOOLEAN
  PROVE  ModemInv'
<1>1. HeldBack(<<>>, <<>>, 0)
  <2>1. <<>> \in Seq(ModemBytes) /\ <<>> \in Seq(DataBytes) /\ Len(<<>>) = 0
    BY EmptySeq
  <2> QED
    BY <2>1 DEF HeldBack
<1>2. esc' = 0 /\ sent' = <<>> /\ data' = <<>>
  BY DEF Dial
<1>3. HeldBack(sent', data', esc')
  BY <1>1, <1>2
<1>4. dials' \in Nat
  BY DEF Dial, ModemInv
<1>5. \/ state' = "connected" /\ command' = FALSE
      \/ state' = "error" /\ command' = TRUE
  BY DEF Dial
<1>6. state' \in {"idle", "connected", "error"} /\ command' \in BOOLEAN
  BY <1>5
<1>7. ModeFollowsLine'
  BY <1>5 DEF ModeFollowsLine
<1> QED
  BY <1>3, <1>4, <1>6, <1>7 DEF ModemInv

LEMMA HangUpStep ==
  ASSUME ModemInv, HangUp, quiet' \in BOOLEAN, dials' = dials
  PROVE  ModemInv'
BY DEF ModemInv, HangUp, ModeFollowsLine

\* The other steps leave the data, and the line unless it is open, alone.
LEMMA OtherSteps ==
  ASSUME ModemInv, UNCHANGED <<state, esc, sent, data, dials>>, quiet' \in BOOLEAN,
         command' = command \/ command' = (state # "connected")
  PROVE  ModemInv'
BY DEF ModemInv, ModeFollowsLine

\* Every step is one of these.
Quiet == /\ UNCHANGED <<state, esc, sent, data, dials>> /\ quiet' \in BOOLEAN
         /\ command' = command \/ (command /\ command' = (state # "connected"))

LEMMA Kinds ==
  ASSUME ModemInv, [ModemNext]_modemVars
  PROVE  \/ Quiet \/ CheckEscape
         \/ \E b \in ModemBytes : DataByte(b)
         \/ quiet' \in BOOLEAN /\ Dial
         \/ quiet' \in BOOLEAN /\ HangUp /\ dials' = dials
<1> USE DEF ModemInv
<1>1. CASE UNCHANGED modemVars
  BY <1>1 DEF modemVars, modeVars, timeVars, Quiet
<1>2. CASE RawByte
  BY <1>2 DEF RawByte, modeVars, Quiet
<1>3. CASE \E b \in Commands \cup {"x"} : CommandByte(b)
  BY <1>3 DEF CommandByte, timeVars, Quiet
<1>4. CASE \E b \in {"+", "x"} : DataByte(b)
  BY <1>4 DEF ModemBytes
<1>5. CASE DialCommand
  BY <1>5 DEF DialCommand, timeVars
<1>6. CASE HangUpCommand
  BY <1>6 DEF HangUpCommand, timeVars
<1>7. CASE OnlineCommand
  BY <1>7 DEF OnlineCommand, Enter, InCommand, timeVars, Quiet
<1>8. CASE RawCommand
  BY <1>8 DEF RawCommand, Quiet
<1>9. CASE OtherLine
  BY <1>9 DEF OtherLine, timeVars, Quiet
<1>10. CASE RawTimeout \/ Receive
  BY <1>10 DEF RawTimeout, Receive, modeVars, timeVars, Quiet
<1>11. CASE NoCarrier
  BY <1>11 DEF NoCarrier, timeVars
<1>12. CASE WebConnect
  BY <1>12 DEF WebConnect, timeVars
<1>13. CASE WebDisconnect
  BY <1>13 DEF WebDisconnect, timeVars
<1>14. CASE ServerCloses
  BY <1>14 DEF ServerCloses, timeVars, Quiet
<1>15. CASE GuardTime \/ RawTime
  BY <1>15 DEF GuardTime, RawTime, modeVars, Quiet
<1> QED
  BY <1>1, <1>2, <1>3, <1>4, <1>5, <1>6, <1>7, <1>8, <1>9, <1>10, <1>11, <1>12, <1>13,
     <1>14, <1>15 DEF ModemNext, Process, Loop, Time

LEMMA ModemStep == ModemInv /\ [ModemNext]_modemVars => ModemInv'
BY Kinds, DataStep, EscapeStep, DialStep, HangUpStep, OtherSteps DEF Quiet

LEMMA Always == ModemSpec => []ModemInv
BY ModemBegins, ModemStep, PTL DEF ModemSpec

-----------------------------------------------------------------------------
(* The theorems.                                                           *)

\* Data mode means there is a line, whoever hangs up and whenever.
THEOREM LineInDataMode == ModemSpec => []ModeFollowsLine
<1>1. ModemInv => ModeFollowsLine
  BY DEF ModemInv
<1> QED
  BY Always, <1>1, PTL

\* What went to the socket and is held back is what the Z80 wrote, whatever it
\* writes, however it is cut into chunks and wherever silence falls.
THEOREM DataIsExact == ModemSpec => []SocketExact
<1>1. ModemInv => SocketExact
  BY InOneLine DEF ModemInv, SocketExact
<1> QED
  BY Always, <1>1, PTL

\* Nothing but a "+++" between two silences leaves data mode on an open line.
THEOREM EscapeIsDeliberate == ModemSpec => EscapeNeedsSilence
<1> DEFINE Deliberate ==
      ~command /\ command' /\ state' = "connected" /\ dials' = dials =>
        LET n == Len(data) IN
        /\ n >= 3 /\ \A i \in (n - 2)..n : data[i][1] = "+"
        /\ data[n - 2][2] /\ quiet
<1>1. ModemInv /\ [ModemNext]_modemVars => [Deliberate]_modemVars
  <2> SUFFICES ASSUME ModemInv, [ModemNext]_modemVars,
                      ~command, command', state' = "connected", dials' = dials
               PROVE  LET n == Len(data) IN
                      /\ n >= 3 /\ \A i \in (n - 2)..n : data[i][1] = "+"
                      /\ data[n - 2][2] /\ quiet
    OBVIOUS
  <2>1. CheckEscape
    <3>1. ~Quiet
      BY DEF Quiet
    <3>2. ASSUME NEW b \in ModemBytes, DataByte(b) PROVE FALSE
      BY <3>2 DEF DataByte
    <3>3. ~Dial
      BY DEF Dial, ModemInv
    <3>4. ~HangUp
      BY DEF HangUp, ModemInv
    <3> QED
      BY <3>1, <3>2, <3>3, <3>4, Kinds
  <2>2. HeldBack(sent, data, 3) /\ quiet
    BY <2>1 DEF ModemInv, ModeFollowsLine, CheckEscape, EscapeComplete
  <2>3. Len(sent) \in Nat /\ Len(data) = Len(sent) + 3
    BY <2>2, LenProperties DEF HeldBack
  <2>4. Len(data) >= 3 /\ Len(data) - 2 = Len(sent) + 1
    BY <2>3
  <2> QED
    BY <2>2, <2>4 DEF HeldBack
<1> QED
  BY Always, <1>1, PTL DEF ModemSpec, EscapeNeedsSilence
=============================================================================
