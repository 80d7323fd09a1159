------------------------------- MODULE MqttProof ------------------------------
(***************************************************************************)
(* Proofs about the MQTT client, for every ring, number of slots, list of  *)
(* brokers and number of messages, commands and lost connections.          *)
(*                                                                         *)
(* The ring: what is in it are the newest messages, in places that are     *)
(* counted modulo its size.  The subscriptions: each slot in use has been  *)
(* decided by the broker of this connection, or its SUBSCRIBE is on the    *)
(* way with no UNSUBSCRIBE behind it.  The publications: an identifier on  *)
(* the line or confirmed last is the awaited one's only if the publication *)
(* is.                                                                     *)
(***************************************************************************)
EXTENDS MqttSafety, SequenceTheorems, FiniteSetTheorems, TLAPS

-----------------------------------------------------------------------------
(* Types.                                                                  *)

Publications == [m : Nat, qos : {0, 1}]
ToBroker ==
  {Connect, Puback, Pingreq}
  \cup [t : {"UNSUBSCRIBE"}, topic : Topics]
  \cup [t : {"SUBSCRIBE"}, topic : Topics, id : Nat]
  \cup [t : {"PUBLISH"}, m : Nat, qos : {0, 1}, id : Nat]
FromBroker ==
  [t : {"CONNACK", "SUBACK"}, rc : Nat]
  \cup [t : {"PUBACK"}, id : Nat]
  \cup [t : {"PINGRESP", "BAD"}]
  \cup [t : {"PUBLISH"}, n : Nat, kind : {"short", "long", "large"}, qos : {0, 1}]
Waits ==
  {Idle}
  \cup [op : {"dial", "connack"}, from : {"list", "loop"}, k : Nat]
  \cup [op : {"suback"}, slot : Subs, topic : Topics]
  \cup {b \in [op : {"puback"}, p : Publications, n : {1, 2}, id : Nat] : b.p.qos = 1}

TypeInv ==
  /\ up \in Seq(ToBroker) /\ down \in Seq(FromBroker)
  /\ subs \in [Subs -> Topics \cup {Free}]
  /\ next_id \in 1..MaxId /\ acked_id \in Nat
  /\ raw \in Publications /\ busy \in Waits
  /\ cmds \in Nat /\ sent \in Nat
  /\ busy.op \in {"dial", "connack"} => state # "up"

-----------------------------------------------------------------------------
(* What each property adds.                                                *)

\* Resubscribed: a topic is decided, or asked for and not given up since.
Unsubscribes(i, t) == up[i].t = "UNSUBSCRIBE" /\ up[i].topic = t
Subscribes(i, t)   == up[i].t = "SUBSCRIBE" /\ up[i].topic = t
Settled(t) ==
  \/ t \in granted \cup refused /\ \A i \in 1..Len(up) : ~Unsubscribes(i, t)
  \/ \E i \in 1..Len(up) :
       Subscribes(i, t) /\ \A j \in (i + 1)..Len(up) : ~Unsubscribes(j, t)
AllSettled == \A s \in Subs : subs[s] # Free => Settled(subs[s])
SubsInv ==
  /\ alive => tcp
  /\ state = "up" /\ alive => AllSettled

\* QueueExact: messages come in the order of their numbers, and the last of
\* them are in the ring.
Place(h, i) == (h + i - 1) % RxCap
IsMessage(i) == i \in 1..Len(down) /\ down[i].t = "PUBLISH"
InOrder ==
  /\ \A i, j \in 1..Len(arrived) : i < j => arrived[i] < arrived[j]
  /\ \A i \in 1..Len(arrived) : arrived[i] <= sent
  /\ \A i \in 1..Len(down) : IsMessage(i) =>
       /\ \A j \in 1..Len(arrived) : arrived[j] < down[i].n
       /\ \A j \in 1..Len(down) : IsMessage(j) /\ i < j => down[i].n < down[j].n
       /\ read < down[i].n /\ down[i].n <= sent
  /\ read <= sent
RingType ==
  /\ rxq \in [0..(RxCap - 1) -> Nat]
  /\ rx_head \in 0..(RxCap - 1) /\ rx_count \in 0..RxCap /\ rx_lost \in Nat
  /\ arrived \in Seq(Nat) /\ spoiled \in Nat /\ read \in Nat /\ taken \in Nat
Matches ==
  /\ rx_count <= Len(arrived)
  /\ \A i \in 1..rx_count :
       /\ rxq[Place(rx_head, i)] = arrived[Len(arrived) - rx_count + i]
       /\ read < rxq[Place(rx_head, i)]
RingInv ==
  /\ RingType /\ Matches /\ InOrder
  /\ taken + rx_count + rx_lost = Len(arrived) + spoiled

\* Published: no identifier is newer than the last, and those that equal the
\* awaited one are the awaited publication's.
Elems(s) == {s[i] : i \in 1..Len(s)}
Confirms(p, i) == p.t = "PUBACK" /\ p.id = i
Asks(p)        == p.t = "PUBLISH" /\ p.qos = 1
PubInv ==
  /\ acked_id <= next_id
  /\ \A p \in Elems(down) : p.t = "PUBACK" => p.id <= next_id
  /\ \A p \in Elems(up) : Asks(p) => p.id <= next_id
  /\ busy.op = "puback" =>
       /\ busy.id <= next_id
       /\ acked_id = busy.id => busy.p.m \in stored
       /\ \A p \in Elems(down) : Confirms(p, busy.id) => busy.p.m \in stored
       /\ \A p \in Elems(up) : Asks(p) /\ p.id = busy.id => p.m = busy.p.m
  /\ answer # 0 => answer \in stored

-----------------------------------------------------------------------------
(* Sequences.                                                              *)

LEMMA Taken ==
  ASSUME NEW S, NEW s \in Seq(S), s # <<>>
  PROVE  /\ Len(s) \in Nat /\ Len(s) > 0 /\ Head(s) = s[1] /\ Head(s) \in S
         /\ Tail(s) \in Seq(S) /\ Len(Tail(s)) = Len(s) - 1
         /\ \A i \in 1..(Len(s) - 1) : Tail(s)[i] = s[i + 1]
BY HeadTailProperties, LenProperties, EmptySeq

LEMMA Put ==
  ASSUME NEW S, NEW s \in Seq(S), NEW x \in S
  PROVE  /\ Append(s, x) \in Seq(S) /\ Len(Append(s, x)) = Len(s) + 1 /\ Len(s) \in Nat
         /\ \A i \in 1..Len(s) : Append(s, x)[i] = s[i]
         /\ Append(s, x)[Len(s) + 1] = x
<1>1. Len(s) \in Nat
  BY LenProperties
<1> QED
  BY <1>1, AppendProperties

LEMMA Joined ==
  ASSUME NEW S, NEW s \in Seq(S), NEW q \in Seq(S)
  PROVE  /\ s \o q \in Seq(S) /\ Len(s) \in Nat /\ Len(q) \in Nat
         /\ Len(s \o q) = Len(s) + Len(q)
         /\ \A i \in 1..Len(s) : (s \o q)[i] = s[i]
         /\ \A i \in 1..Len(q) : (s \o q)[Len(s) + i] = q[i]
<1>1. Len(s) \in Nat /\ Len(q) \in Nat
  BY LenProperties
<1>2. /\ s \o q \in Seq(S) /\ Len(s \o q) = Len(s) + Len(q)
      /\ \A i \in 1..(Len(s) + Len(q)) :
           (s \o q)[i] = IF i <= Len(s) THEN s[i] ELSE q[i - Len(s)]
  BY ConcatProperties
<1>3. ASSUME NEW i \in 1..Len(q) PROVE (s \o q)[Len(s) + i] = q[i]
  BY <1>1, <1>2
<1> QED
  BY <1>1, <1>2, <1>3

LEMMA One ==
  ASSUME NEW S, NEW x \in S
  PROVE  <<x>> \in Seq(S) /\ Len(<<x>>) = 1 /\ <<x>>[1] = x
OBVIOUS

-----------------------------------------------------------------------------
(* Types.                                                                  *)

LEMMA BusyFacts ==
  ASSUME busy \in Waits
  PROVE  /\ busy.op \in {"dial", "connack"} =>
              busy \in [op : {"dial", "connack"}, from : {"list", "loop"}, k : Nat]
         /\ busy.op = "suback" => busy \in [op : {"suback"}, slot : Subs, topic : Topics]
         /\ busy.op = "puback" =>
              /\ busy \in [op : {"puback"}, p : Publications, n : {1, 2}, id : Nat]
              /\ busy.p.qos = 1
         /\ busy = Idle => busy.op = "idle"
         /\ busy.op \in {"idle", "dial", "connack", "suback", "puback"}
BY DEF Waits, Idle

LEMMA Packets ==
  /\ Connect \in ToBroker /\ Puback \in ToBroker /\ Pingreq \in ToBroker
  /\ \A t \in Topics, i \in Nat :
       Unsubscribe(t) \in ToBroker /\ Subscribe(t, i) \in ToBroker
  /\ \A p \in Publications, i \in Nat : Publish(p.m, p.qos, i) \in ToBroker
BY DEF ToBroker, Connect, Puback, Pingreq, Unsubscribe, Subscribe, Publish, Publications

LEMMA CameFacts ==
  ASSUME NEW p \in FromBroker
  PROVE  /\ p.t \in {"CONNACK", "SUBACK", "PUBACK", "PINGRESP", "BAD", "PUBLISH"}
         /\ p.t = "PUBACK" => p.id \in Nat
         /\ p.t = "PUBLISH" => p.n \in Nat /\ p.kind \in {"short", "long", "large"} /\ p.qos \in {0, 1}
BY DEF FromBroker

LEMMA SentFacts ==
  ASSUME NEW p \in ToBroker
  PROVE  /\ p.t \in {"CONNECT", "SUBSCRIBE", "UNSUBSCRIBE", "PUBLISH", "PINGREQ", "PUBACK"}
         /\ p.t \in {"SUBSCRIBE", "UNSUBSCRIBE"} => p.topic \in Topics
         /\ p.t = "PUBLISH" => p.m \in Nat /\ p.qos \in {0, 1} /\ p.id \in Nat
BY DEF ToBroker, Connect, Puback, Pingreq

LEMMA Ids ==
  ASSUME next_id \in 1..MaxId, NEW k \in Nat
  PROVE  /\ NewId(k) \in 1..MaxId
         /\ next_id < MaxId => NewId(1) = next_id + 1
         /\ next_id = MaxId => NewId(1) = 1
<1>1. MaxId \in Nat /\ MaxId > 1
  BY MqttBounds
<1>2. \A x \in Nat : x % MaxId \in 0..(MaxId - 1)
  BY <1>1
<1>3. \A x \in Nat : x < MaxId => x % MaxId = x
  BY <1>1
<1>4. MaxId % MaxId = 0
  BY <1>1
<1>5. next_id - 1 + k \in Nat /\ next_id - 1 + 1 = next_id /\ next_id \in Nat
  BY <1>1
<1>6. NewId(k) \in 1..MaxId
  BY <1>1, <1>2, <1>5 DEF NewId
<1> QED
  BY <1>1, <1>3, <1>4, <1>5, <1>6 DEF NewId

\* tcp_close and tx.
LEMMA Closes == ASSUME TcpClose PROVE ~alive' /\ up' = <<>> /\ down' = <<>>
BY DEF TcpClose

LEMMA Sends ==
  ASSUME TypeInv, NEW q \in Seq(ToBroker), Tx(q)
  PROVE  /\ up' \in Seq(ToBroker) /\ down' = down
         /\ up' = IF alive THEN up \o q ELSE up
<1>1. up \o q \in Seq(ToBroker)
  BY Joined DEF TypeInv
<1> QED
  BY <1>1 DEF Tx, TypeInv

\* What is known of the line, action by action.
LineKinds == up \in Seq(ToBroker) /\ down \in Seq(FromBroker)
LEMMA LineCloses == ASSUME TcpClose PROVE LineKinds'
BY Closes, EmptySeq DEF LineKinds
LEMMA LineSends ==
  ASSUME TypeInv, NEW q \in Seq(ToBroker), Tx(q)
  PROVE  LineKinds'
BY Sends DEF LineKinds, TypeInv
LEMMA LineStays ==
  ASSUME TypeInv, UNCHANGED lineVars
  PROVE  LineKinds'
BY DEF LineKinds, TypeInv, lineVars

-----------------------------------------------------------------------------
(* Types are kept.                                                         *)

LEMMA TypeInit == Init => TypeInv
<1> SUFFICES ASSUME Init PROVE TypeInv
  OBVIOUS
<1>1. <<>> \in Seq(ToBroker) /\ <<>> \in Seq(FromBroker)
  BY EmptySeq
<1>2. NoRaw \in Publications /\ Idle \in Waits /\ Idle.op = "idle"
  BY DEF NoRaw, Publications, Idle, Waits
<1>3. subs \in [Subs -> Topics \cup {Free}]
  BY DEF Init
<1>4. next_id \in 1..MaxId
  BY MqttBounds DEF Init
<1> QED
  BY <1>1, <1>2, <1>3, <1>4 DEF Init, TypeInv

LEMMA TypePump == ASSUME TypeInv, Pump PROVE TypeInv'
<1>1. PICK p \in {Head(down)} :
        \/ /\ Message(p)
           /\ down' = Tail(down) /\ UNCHANGED <<state, tcp, alive>>
        \/ /\ Acked(p)
           /\ down' = Tail(down) /\ UNCHANGED <<state, tcp, alive, up, ringVars>>
        \/ /\ Broken(p) /\ MarkDown
           /\ UNCHANGED <<flagVars, ringVars>>
  BY DEF Pump
<1>2. down \in Seq(FromBroker) /\ down # <<>>
  BY DEF Pump, TypeInv
<1>3. p \in FromBroker /\ Tail(down) \in Seq(FromBroker)
  BY <1>1, <1>2, Taken
<1>4. UNCHANGED <<subs, next_id, raw, busy, cmds, sent>>
  BY DEF Pump, sessionVars, brokerVars
<1>5. LineKinds' /\ acked_id' \in Nat /\ (state' = state \/ (state' = "reconnect" /\ state = "up"))
  <2>1. CASE Message(p) /\ down' = Tail(down) /\ UNCHANGED <<state, tcp, alive>>
    <3>1. up' \in {up, Append(up, Puback)} /\ acked_id' = acked_id
      BY <2>1 DEF Message, flagVars
    <3>2. up \in Seq(ToBroker) /\ Puback \in ToBroker
      BY Packets DEF TypeInv
    <3>3. Append(up, Puback) \in Seq(ToBroker)
      BY <3>2, Put
    <3>4. up' \in Seq(ToBroker)
      BY <3>1, <3>2, <3>3
    <3> QED
      BY <2>1, <3>1, <3>4, <1>3 DEF LineKinds, TypeInv
  <2>2. CASE Acked(p) /\ down' = Tail(down) /\ UNCHANGED <<state, tcp, alive, up, ringVars>>
    <3>1. acked_id' \in Nat
      BY <2>2, <1>3, CameFacts DEF Acked, TypeInv
    <3> QED
      BY <2>2, <3>1, <1>3 DEF LineKinds, TypeInv
  <2>3. CASE Broken(p) /\ MarkDown /\ UNCHANGED <<flagVars, ringVars>>
    BY <2>3, LineCloses DEF MarkDown, flagVars, TypeInv
  <2> QED
    BY <1>1, <2>1, <2>2, <2>3
<1> QED
  BY <1>4, <1>5 DEF TypeInv, LineKinds

LEMMA Assembled ==
  ASSUME LineKinds', subs' \in [Subs -> Topics \cup {Free}], next_id' \in 1..MaxId, acked_id' \in Nat,
         raw' \in Publications, busy' \in Waits, cmds' \in Nat, sent' \in Nat,
         busy'.op \in {"dial", "connack"} => state' # "up"
  PROVE  TypeInv'
BY DEF TypeInv, LineKinds

LEMMA IdleFacts == Idle \in Waits /\ Idle.op = "idle"
BY DEF Idle, Waits

\* A broker that does not open, or does not accept.
LEMMA TypeFailed == ASSUME TypeInv, DialFails \/ NotAccepted PROVE TypeInv'
<1>1. AttemptFailed(busy) /\ busy.op \in {"dial", "connack"}
  BY DEF DialFails, NotAccepted
<1>2. UNCHANGED <<subs, next_id, raw, cmds, sent, acked_id>>
  BY DEF DialFails, NotAccepted, brokerVars, flagVars
<1>3. LineKinds'
  BY <1>1, LineCloses DEF AttemptFailed
<1>4. busy.k \in Nat /\ state # "up"
  BY <1>1, BusyFacts DEF TypeInv
<1>5. [op |-> "dial", from |-> "list", k |-> busy.k + 1] \in Waits
  BY <1>4 DEF Waits
<1>6. busy' \in Waits /\ state' # "up"
  BY <1>1, <1>4, <1>5, IdleFacts DEF AttemptFailed
<1> QED
  BY <1>2, <1>3, <1>6, Assembled DEF TypeInv

LEMMA TypeOpens == ASSUME TypeInv, DialOpens PROVE TypeInv'
<1>1. /\ UNCHANGED <<state, subs, next_id, raw, cmds, sent, acked_id>>
      /\ busy' = [busy EXCEPT !.op = "connack"] /\ busy.op = "dial"
      /\ up' = <<Connect>> /\ down' = <<>>
  BY DEF DialOpens, sessionVars
<1>2. LineKinds'
  BY <1>1, One, Packets, EmptySeq DEF LineKinds
<1>3. busy \in [op : {"dial", "connack"}, from : {"list", "loop"}, k : Nat]
  BY <1>1, BusyFacts DEF TypeInv
<1>4. busy' \in [op : {"dial", "connack"}, from : {"list", "loop"}, k : Nat]
  BY <1>1, <1>3
<1>5. busy' \in Waits /\ state' # "up"
  BY <1>1, <1>4 DEF Waits, TypeInv
<1> QED
  BY <1>1, <1>2, <1>5, Assembled DEF TypeInv

\* The SUBSCRIBEs of a new session.
LEMMA Again ==
  ASSUME TypeInv, NEW used \in Ascending(UsedSlots)
  PROVE  /\ Len(used) \in Nat
         /\ Resubscribe(used) \in Seq(ToBroker) /\ Len(Resubscribe(used)) = Len(used)
         /\ \A i \in 1..Len(used) :
              /\ Resubscribe(used)[i] = Subscribe(subs[used[i]], NewId(i))
              /\ subs[used[i]] \in Topics
         /\ \A s \in UsedSlots : \E i \in 1..Len(used) : used[i] = s
<1>1. IsFiniteSet(UsedSlots) /\ UsedSlots \subseteq Subs
  BY FS_Subset, MqttBounds DEF UsedSlots
<1>2. PICK c \in Nat : c = Cardinality(UsedSlots)
  BY <1>1, FS_CardinalityType
<1>3. used \in [1..c -> UsedSlots] /\ \A s \in UsedSlots : \E i \in DOMAIN used : used[i] = s
  BY <1>2 DEF Ascending
<1>4. Len(used) = c
  BY <1>3
<1>5. ASSUME NEW i \in 1..c
      PROVE  subs[used[i]] \in Topics /\ Subscribe(subs[used[i]], NewId(i)) \in ToBroker
  <2>1. used[i] \in UsedSlots
    BY <1>3
  <2>2. subs[used[i]] \in Topics
    BY <2>1 DEF UsedSlots, TypeInv
  <2>3. NewId(i) \in 1..MaxId /\ MaxId \in Nat
    <3>1. next_id \in 1..MaxId /\ i \in Nat
      BY DEF TypeInv
    <3> QED
      BY <3>1, Ids, MqttBounds
  <2> QED
    BY <2>2, <2>3, Packets
<1>6. /\ Resubscribe(used) \in Seq(ToBroker) /\ Len(Resubscribe(used)) = c
      /\ \A i \in 1..c : Resubscribe(used)[i] = Subscribe(subs[used[i]], NewId(i))
  BY <1>4, <1>5 DEF Resubscribe
<1> QED
  BY <1>2, <1>3, <1>4, <1>5, <1>6

LEMMA TypeAccepted == ASSUME TypeInv, Accepted PROVE TypeInv'
<1>1. PICK used \in Ascending(UsedSlots) :
        /\ IF tcp THEN Tx(Resubscribe(used)) ELSE UNCHANGED lineVars
        /\ next_id' = NewId(Len(used))
  BY DEF Accepted
<1>2. /\ UNCHANGED <<subs, raw, cmds, sent, acked_id>> /\ busy' = Idle
  BY DEF Accepted, brokerVars, flagVars
<1>3. Resubscribe(used) \in Seq(ToBroker) /\ Len(used) \in Nat
  BY Again
<1>4. LineKinds'
  BY <1>1, <1>3, LineSends, LineStays
<1>5. next_id' \in 1..MaxId
  BY <1>1, <1>3, Ids DEF TypeInv
<1> QED
  BY <1>2, <1>4, <1>5, IdleFacts, Assembled DEF TypeInv

LEMMA TypeLoop == ASSUME TypeInv, LoopDown \/ PingDue \/ Reconnect PROVE TypeInv'
<1>1. UNCHANGED <<subs, raw, cmds, sent, acked_id, next_id>>
  BY DEF LoopDown, PingDue, Reconnect, brokerVars, flagVars, sessionVars
<1>2. LineKinds'
  <2>1. <<Pingreq>> \in Seq(ToBroker)
    BY One, Packets
  <2>2. TcpClose \/ Tx(<<Pingreq>>)
    BY DEF LoopDown, PingDue, Reconnect, MarkDown
  <2> QED
    BY <2>1, <2>2, LineCloses, LineSends
<1>3. busy' \in Waits /\ (busy'.op \in {"dial", "connack"} => state' # "up")
  <2>1. CASE LoopDown \/ PingDue
    BY <2>1, IdleFacts DEF LoopDown, PingDue, InLoop
  <2>2. CASE Reconnect
    BY <2>2 DEF Reconnect, Waits
  <2> QED
    BY <2>1, <2>2
<1> QED
  BY <1>1, <1>2, <1>3, Assembled DEF TypeInv

LEMMA TypeConnect == ASSUME TypeInv, CmdConnect \/ CmdClose PROVE TypeInv'
<1>1. UNCHANGED <<raw, sent, acked_id, next_id>> /\ busy = Idle /\ cmds' \in {cmds, cmds + 1}
  BY DEF CmdConnect, CmdClose, brokerVars, flagVars, Command, InLoop
<1>2. LineKinds' /\ subs' \in [Subs -> Topics \cup {Free}]
  <2>1. CASE SessionStop
    BY <2>1, LineCloses DEF SessionStop
  <2>2. CASE UNCHANGED <<subs, ringVars, lineVars>>
    BY <2>2, LineStays DEF TypeInv
  <2> QED
    BY <2>1, <2>2 DEF CmdConnect, CmdClose
<1>3. busy' \in Waits /\ (busy'.op \in {"dial", "connack"} => state' # "up")
  <2>1. CASE CmdClose
    BY <2>1, <1>1, IdleFacts DEF CmdClose
  <2>2. CASE CmdConnect
    <3>1. [op |-> "dial", from |-> "list", k |-> 0] \in Waits
      BY DEF Waits
    <3> QED
      BY <1>1, <2>2, <3>1, IdleFacts DEF CmdConnect
  <2> QED
    BY <2>1, <2>2
<1>4. cmds' \in Nat
  BY <1>1 DEF TypeInv
<1> QED
  BY <1>1, <1>2, <1>3, <1>4, Assembled DEF TypeInv

LEMMA SlotFacts == ASSUME NEW t, NEW s \in SlotFor(t) PROVE s \in Subs
BY DEF SlotFor, First

LEMMA TypeSub == ASSUME TypeInv, CmdSub PROVE TypeInv'
<1>1. UNCHANGED <<raw, sent, acked_id>> /\ busy = Idle /\ cmds' = cmds + 1
  BY DEF CmdSub, brokerVars, Command, InLoop
<1>2. PICK t \in Topics : SubAnswered(t) \/ SubSent(t)
  BY DEF CmdSub
<1>3. cmds' \in Nat
  BY <1>1 DEF TypeInv
<1>4. CASE SubAnswered(t)
  <2>1. UNCHANGED <<state, lineVars, next_id, busy>>
    BY <1>4 DEF SubAnswered
  <2>2. subs' = subs \/ \E s \in SlotFor(t) : subs' = [subs EXCEPT ![s] = t]
    BY <1>4 DEF SubAnswered
  <2>3. subs' \in [Subs -> Topics \cup {Free}]
    BY <2>2, SlotFacts DEF TypeInv
  <2> QED
    BY <1>1, <1>3, <2>1, <2>3, IdleFacts, LineStays, Assembled DEF TypeInv
<1>5. CASE SubSent(t)
  <2>1. PICK s \in SlotFor(t) :
          /\ subs' = [subs EXCEPT ![s] = t]
          /\ next_id' = NewId(1) /\ got_suback' = NoCode
          /\ \/ /\ Tx(<<Subscribe(t, next_id')>>)
                /\ busy' = [op |-> "suback", slot |-> s, topic |-> t]
                /\ Unanswered /\ UNCHANGED <<state, ping_out>>
             \/ /\ TxMayFail /\ MarkDown /\ Unanswered /\ UNCHANGED busy
    BY <1>5 DEF SubSent
  <2>2. s \in Subs /\ subs' \in [Subs -> Topics \cup {Free}]
    BY <2>1, SlotFacts DEF TypeInv
  <2>3. next_id' \in 1..MaxId /\ next_id' \in Nat
    BY <2>1, Ids, MqttBounds DEF TypeInv
  <2>4. <<Subscribe(t, next_id')>> \in Seq(ToBroker)
    BY <2>3, One, Packets
  <2>5. LineKinds'
    BY <2>1, <2>4, LineSends, LineCloses DEF MarkDown
  <2>6. [op |-> "suback", slot |-> s, topic |-> t] \in Waits
    BY <2>2 DEF Waits
  <2>7. busy' \in Waits /\ busy'.op \in {"suback", "idle"}
    BY <1>1, <2>1, <2>6, IdleFacts
  <2> QED
    BY <1>1, <1>3, <2>2, <2>3, <2>5, <2>7, Assembled DEF TypeInv
<1> QED
  BY <1>2, <1>4, <1>5

LEMMA TypeSubEnds == ASSUME TypeInv, SubFound \/ SubExpires PROVE TypeInv'
<1>1. UNCHANGED <<raw, sent, acked_id, cmds, next_id, lineVars>> /\ busy' = Idle
  BY DEF SubFound, SubExpires, brokerVars, flagVars
<1>2. subs' = subs \/ (busy.op = "suback" /\ subs' = [subs EXCEPT ![busy.slot] = Free])
  BY DEF SubFound, SubExpires, sessionVars
<1>3. subs' \in [Subs -> Topics \cup {Free}]
  BY <1>2, BusyFacts DEF TypeInv
<1> QED
  BY <1>1, <1>3, IdleFacts, LineStays, Assembled DEF TypeInv

LEMMA TypeUnsub == ASSUME TypeInv, CmdUnsub PROVE TypeInv'
<1>1. UNCHANGED <<raw, sent, acked_id, busy>> /\ busy = Idle /\ cmds' = cmds + 1
  BY DEF CmdUnsub, brokerVars, flagVars, Command, InLoop
<1>2. PICK t \in Topics :
        \/ /\ state \in {"up", "reconnect"}
           /\ subs' = [s \in Subs |-> IF subs[s] = t THEN Free ELSE subs[s]]
           /\ IF state = "up"
              THEN /\ next_id' = NewId(1)
                   /\ \/ Tx(<<Unsubscribe(t)>>)
                      \/ TxMayFail /\ UNCHANGED lineVars
              ELSE UNCHANGED <<next_id, lineVars>>
           /\ Unanswered
        \/ /\ state = "off" /\ Unanswered
           /\ UNCHANGED <<subs, next_id, lineVars>>
  BY DEF CmdUnsub
<1>3. subs' \in [Subs -> Topics \cup {Free}]
  BY <1>2 DEF TypeInv
<1>4. next_id' \in 1..MaxId
  BY <1>2, Ids DEF TypeInv
<1>5. <<Unsubscribe(t)>> \in Seq(ToBroker)
  BY One, Packets
<1>6. LineKinds'
  BY <1>2, <1>5, LineSends, LineStays
<1>7. cmds' \in Nat
  BY <1>1 DEF TypeInv
<1> QED
  BY <1>1, <1>3, <1>4, <1>6, <1>7, IdleFacts, Assembled DEF TypeInv

\* An attempt to publish, the first or the second.
LEMMA TypeAttempt ==
  ASSUME TypeInv, NEW p \in Publications, NEW n \in {1, 2}, NEW i \in Nat, Attempt(p, n, i),
         busy.op \in {"idle", "puback"}
  PROVE  LineKinds' /\ busy' \in Waits /\ busy'.op \in {"idle", "puback"}
<1>1. <<Publish(p.m, p.qos, i)>> \in Seq(ToBroker)
  BY One, Packets
<1>2. LineKinds'
  BY <1>1, LineSends, LineCloses DEF Attempt, MarkDown
<1>3. p.qos \in {0, 1}
  BY DEF Publications
<1>4. p.qos = 1 => [op |-> "puback", p |-> p, n |-> n, id |-> i] \in Waits
  BY DEF Waits
<1>5. busy' = Idle \/ (p.qos = 1 /\ busy' = [op |-> "puback", p |-> p, n |-> n, id |-> i])
  BY <1>3 DEF Attempt
<1> QED
  BY <1>2, <1>4, <1>5, IdleFacts

LEMMA TypePublish ==
  ASSUME TypeInv, NEW p \in Publications, PublishNow(p), busy = Idle
  PROVE  /\ LineKinds' /\ busy' \in Waits /\ busy'.op \in {"idle", "puback"}
         /\ next_id' \in 1..MaxId
<1>1. next_id' \in 1..MaxId
  BY Ids DEF PublishNow, TypeInv
<1>2. Attempt(p, 1, next_id') /\ next_id' \in Nat
  BY <1>1, MqttBounds DEF PublishNow
<1> QED
  BY <1>1, <1>2, TypeAttempt, IdleFacts

LEMMA TypePub == ASSUME TypeInv, CmdPub \/ PubData PROVE TypeInv'
<1>1. UNCHANGED <<subs, sent, acked_id>> /\ busy = Idle /\ cmds' \in {cmds, cmds + 1}
  BY DEF CmdPub, PubData, brokerVars, flagVars, sessionVars, Command, InLoop
<1>2. cmds' \in Nat /\ cmds + 1 \in Nat
  BY <1>1 DEF TypeInv
<1>3. /\ raw' \in Publications
      /\ \/ UNCHANGED <<state, lineVars, next_id, busy>>
         \/ \E p \in Publications : PublishNow(p)
  <2>1. \A q \in {0, 1} : [m |-> cmds + 1, qos |-> q] \in Publications
    BY <1>2 DEF Publications
  <2>2. NoRaw \in Publications /\ raw \in Publications
    BY DEF NoRaw, Publications, TypeInv
  <2>3. CASE CmdPub
    <3>1. PICK q \in {0, 1}, empty \in BOOLEAN :
            IF state # "up"
            THEN /\ Unanswered
                 /\ UNCHANGED <<state, ping_out, lineVars, next_id, raw, busy>>
            ELSE IF empty
            THEN PublishNow([m |-> cmds + 1, qos |-> q]) /\ UNCHANGED raw
            ELSE /\ raw' = [m |-> cmds + 1, qos |-> q]
                 /\ Unanswered /\ UNCHANGED <<state, ping_out, lineVars, next_id, busy>>
      BY <2>3 DEF CmdPub
    <3> QED
      BY <2>1, <2>2, <3>1
  <2>4. CASE PubData
    BY <2>2, <2>4 DEF PubData
  <2> QED
    BY <2>3, <2>4
<1>4. /\ LineKinds' /\ busy' \in Waits /\ busy'.op \in {"idle", "puback"}
      /\ next_id' \in 1..MaxId
  <2>1. CASE UNCHANGED <<state, lineVars, next_id, busy>>
    BY <1>1, <2>1, LineStays, IdleFacts DEF TypeInv
  <2>2. CASE \E p \in Publications : PublishNow(p)
    BY <1>1, <2>2, TypePublish
  <2> QED
    BY <1>3, <2>1, <2>2
<1> QED
  BY <1>1, <1>2, <1>3, <1>4, Assembled DEF TypeInv

LEMMA TypePubWait == ASSUME TypeInv, PubWait PROVE TypeInv'
<1>1. UNCHANGED <<subs, sent, acked_id, next_id, raw, cmds>> /\ busy.op = "puback"
  BY DEF PubWait, PubFound, PubDown, PubExpires, brokerVars, flagVars, sessionVars
<1>2. \/ busy' = Idle /\ UNCHANGED lineVars
      \/ Attempt(busy.p, 2, busy.id)
  BY DEF PubWait, PubFound, PubDown, PubExpires
<1>3. busy.p \in Publications /\ busy.id \in Nat
  BY <1>1, BusyFacts DEF TypeInv
<1>4. LineKinds' /\ busy' \in Waits /\ busy'.op \in {"idle", "puback"}
  <2>1. CASE busy' = Idle /\ UNCHANGED lineVars
    BY <2>1, LineStays, IdleFacts
  <2>2. CASE Attempt(busy.p, 2, busy.id)
    BY <1>1, <1>3, <2>2, TypeAttempt
  <2> QED
    BY <1>2, <2>1, <2>2
<1> QED
  BY <1>1, <1>4, Assembled DEF TypeInv

LEMMA TypeRx == ASSUME TypeInv, CmdRx PROVE TypeInv'
<1>1. /\ UNCHANGED <<state, subs, sent, acked_id, next_id, raw, busy, lineVars>>
      /\ busy = Idle /\ cmds' = cmds + 1
  BY DEF CmdRx, brokerVars, flagVars, sessionVars, Command, InLoop
<1>2. cmds' \in Nat
  BY <1>1 DEF TypeInv
<1> QED
  BY <1>1, <1>2, LineStays, IdleFacts, Assembled DEF TypeInv

LEMMA Replies ==
  ASSUME TypeInv, NEW p \in FromBroker, Reply(p)
  PROVE  down' \in Seq(FromBroker)
BY Put DEF Reply, TypeInv

LEMMA TypeBroker == ASSUME TypeInv, BrokerTakes \/ BrokerSends \/ Lost PROVE TypeInv'
<1>1. UNCHANGED <<state, subs, acked_id, next_id, raw, busy, cmds>>
  BY DEF BrokerTakes, BrokerSends, Lost, clientVars, sessionVars, flagVars
<1>2. sent' \in {sent, sent + 1} /\ sent' \in Nat
  BY DEF BrokerTakes, BrokerSends, Lost, brokerVars, TypeInv
<1>3. CASE BrokerTakes
  <2>1. up # <<>> /\ up' = Tail(up)
    BY <1>3 DEF BrokerTakes
  <2>2. up' \in Seq(ToBroker) /\ Head(up) \in ToBroker
    BY <2>1, Taken DEF TypeInv
  <2>3. PICK p : p = Head(up)
    OBVIOUS
  <2>4. \/ down' = down
        \/ \E c \in {0, 5} : Reply([t |-> "CONNACK", rc |-> c])
        \/ \E c \in {0, 128} : Reply([t |-> "SUBACK", rc |-> c])
        \/ p.t = "PUBLISH" /\ Reply([t |-> "PUBACK", id |-> p.id])
        \/ Reply([t |-> "PINGRESP"])
    BY <1>3, <2>3 DEF BrokerTakes
  <2>5. /\ \A c \in {0, 5, 128} : [t |-> "CONNACK", rc |-> c] \in FromBroker
                                  /\ [t |-> "SUBACK", rc |-> c] \in FromBroker
        /\ [t |-> "PINGRESP"] \in FromBroker
        /\ p.t = "PUBLISH" => [t |-> "PUBACK", id |-> p.id] \in FromBroker
    BY <2>2, <2>3, SentFacts DEF FromBroker
  <2>6. down' \in Seq(FromBroker)
    BY <2>4, <2>5, Replies DEF TypeInv
  <2> QED
    BY <1>1, <1>2, <2>2, <2>6, Assembled DEF TypeInv, LineKinds
<1>4. CASE BrokerSends
  <2>1. up' = up
    BY <1>4 DEF BrokerSends
  <2>2. PICK k \in Kinds :
          Reply(IF k[1] = "bad" THEN [t |-> "BAD"]
                ELSE [t |-> "PUBLISH", n |-> sent', kind |-> k[1], qos |-> k[2]])
    BY <1>4 DEF BrokerSends
  <2>3. k[1] \in {"short", "long", "large", "bad"} /\ k[2] \in {0, 1}
    BY MqttBounds
  <2>4. /\ [t |-> "BAD"] \in FromBroker
        /\ k[1] # "bad" => [t |-> "PUBLISH", n |-> sent', kind |-> k[1], qos |-> k[2]] \in FromBroker
    BY <1>2, <2>3 DEF FromBroker
  <2>5. down' \in Seq(FromBroker)
    BY <2>2, <2>4, Replies
  <2> QED
    BY <1>1, <1>2, <2>1, <2>5, Assembled DEF TypeInv, LineKinds
<1>5. CASE Lost
  <2>1. up' = <<>> /\ down' = down
    BY <1>5 DEF Lost
  <2> QED
    BY <1>1, <1>2, <2>1, EmptySeq, Assembled DEF TypeInv, LineKinds
<1> QED
  BY <1>3, <1>4, <1>5

LEMMA TypeNext == TypeInv /\ [Next]_vars => TypeInv'
<1>1. ASSUME TypeInv, UNCHANGED vars PROVE TypeInv'
  BY <1>1 DEF TypeInv, vars, sessionVars, ringVars, flagVars, lineVars, brokerVars
<1> QED
  BY <1>1, TypePump, TypeFailed, TypeOpens, TypeAccepted, TypeLoop, TypeConnect, TypeSub,
     TypeSubEnds, TypeUnsub, TypePub, TypePubWait, TypeRx, TypeBroker DEF Next

-----------------------------------------------------------------------------
(* Subscriptions.                                                          *)

Drops(p, t) == p.t = "UNSUBSCRIBE" /\ p.topic = t

\* What is asked for and not given up stays so when more packets are sent.
LEMMA SettledStays ==
  ASSUME TypeInv, NEW t, Settled(t), UNCHANGED <<granted, refused>>,
         NEW q \in Seq(ToBroker), up' = up \o q, \A i \in 1..Len(q) : ~Drops(q[i], t)
  PROVE  Settled(t)'
<1>1. /\ Len(up) \in Nat /\ Len(q) \in Nat /\ Len(up') = Len(up) + Len(q)
      /\ \A i \in 1..Len(up) : up'[i] = up[i]
      /\ \A i \in 1..Len(q) : up'[Len(up) + i] = q[i]
  BY Joined DEF TypeInv
<1>2. ASSUME NEW i \in 1..Len(up'), Unsubscribes(i, t)'
      PROVE  i <= Len(up) /\ Unsubscribes(i, t)
  <2>1. CASE i <= Len(up)
    BY <1>1, <1>2, <2>1 DEF Unsubscribes
  <2>2. CASE i > Len(up)
    <3>1. i - Len(up) \in 1..Len(q) /\ i = Len(up) + (i - Len(up))
      BY <1>1, <2>2
    <3>2. up'[i] = q[i - Len(up)]
      BY <1>1, <3>1
    <3> QED
      BY <1>2, <3>1, <3>2 DEF Unsubscribes, Drops
  <2> QED
    BY <1>1, <2>1, <2>2
<1>3. CASE t \in granted \cup refused /\ \A i \in 1..Len(up) : ~Unsubscribes(i, t)
  <2>1. \A i \in 1..Len(up') : ~Unsubscribes(i, t)'
    BY <1>1, <1>2, <1>3
  <2> QED
    BY <1>3, <2>1 DEF Settled
<1>4. CASE \E i \in 1..Len(up) :
             Subscribes(i, t) /\ \A j \in (i + 1)..Len(up) : ~Unsubscribes(j, t)
  <2>1. PICK i \in 1..Len(up) :
          Subscribes(i, t) /\ \A j \in (i + 1)..Len(up) : ~Unsubscribes(j, t)
    BY <1>4
  <2>2. i \in 1..Len(up') /\ Subscribes(i, t)'
    BY <1>1, <2>1 DEF Subscribes
  <2>3. \A j \in (i + 1)..Len(up') : ~Unsubscribes(j, t)'
    BY <1>1, <1>2, <2>1
  <2> QED
    BY <2>2, <2>3 DEF Settled
<1> QED
  BY <1>3, <1>4 DEF Settled

LEMMA SettledSame ==
  ASSUME NEW t, Settled(t), UNCHANGED <<granted, refused, up>>
  PROVE  Settled(t)'
BY DEF Settled, Unsubscribes, Subscribes

\* A topic whose SUBSCRIBE is sent.
LEMMA SettledNew ==
  ASSUME TypeInv, NEW t, NEW q \in Seq(ToBroker), up' = up \o q,
         \A i \in 1..Len(q) : ~Drops(q[i], t),
         NEW k \in 1..Len(q), q[k].t = "SUBSCRIBE", q[k].topic = t
  PROVE  Settled(t)'
<1>1. /\ Len(up) \in Nat /\ Len(q) \in Nat /\ Len(up') = Len(up) + Len(q)
      /\ \A i \in 1..Len(q) : up'[Len(up) + i] = q[i]
  BY Joined DEF TypeInv
<1>2. PICK m \in Nat : m = Len(up) + k
  BY <1>1
<1>3. m \in 1..Len(up') /\ Subscribes(m, t)'
  BY <1>1, <1>2 DEF Subscribes
<1>4. ASSUME NEW j \in (m + 1)..Len(up') PROVE ~Unsubscribes(j, t)'
  <2>1. j - Len(up) \in 1..Len(q) /\ j = Len(up) + (j - Len(up))
    BY <1>1, <1>2
  <2>2. up'[j] = q[j - Len(up)]
    BY <1>1, <2>1
  <2> QED
    BY <2>1, <2>2 DEF Unsubscribes, Drops
<1> QED
  BY <1>3, <1>4 DEF Settled

\* The broker takes the first packet.
LEMMA SettledTaken ==
  ASSUME TypeInv, NEW t, Settled(t), up # <<>>, up' = Tail(up),
         \/ UNCHANGED <<granted, refused>> /\ Head(up).t \notin {"SUBSCRIBE", "UNSUBSCRIBE"}
         \/ /\ Head(up).t = "SUBSCRIBE"
            /\ granted' \cup refused' = granted \cup refused \cup {Head(up).topic}
         \/ /\ Head(up).t = "UNSUBSCRIBE" /\ granted' = granted \ {Head(up).topic}
            /\ refused' = refused
  PROVE  Settled(t)'
<1>1. /\ Len(up) \in Nat /\ Len(up) > 0 /\ Head(up) = up[1] /\ Len(up') = Len(up) - 1
      /\ \A i \in 1..(Len(up) - 1) : up'[i] = up[i + 1]
  BY Taken DEF TypeInv
<1>2. ASSUME NEW i \in 1..Len(up')
      PROVE  /\ i + 1 \in 1..Len(up)
             /\ Unsubscribes(i, t)' <=> Unsubscribes(i + 1, t)
             /\ Subscribes(i, t)' <=> Subscribes(i + 1, t)
  <2>1. i + 1 \in 1..Len(up) /\ up'[i] = up[i + 1]
    BY <1>1
  <2> QED
    BY <2>1 DEF Unsubscribes, Subscribes
<1>3. CASE t \in granted \cup refused /\ \A i \in 1..Len(up) : ~Unsubscribes(i, t)
  <2>1. \A i \in 1..Len(up') : ~Unsubscribes(i, t)'
    BY <1>2, <1>3
  <2>2. 1 \in 1..Len(up)
    BY <1>1
  <2>3. ~(Head(up).t = "UNSUBSCRIBE" /\ Head(up).topic = t)
    BY <1>1, <1>3, <2>2 DEF Unsubscribes
  <2>4. t \in granted' \cup refused'
    BY <1>3, <2>3
  <2> QED
    BY <2>1, <2>4 DEF Settled
<1>4. CASE \E i \in 1..Len(up) :
             Subscribes(i, t) /\ \A j \in (i + 1)..Len(up) : ~Unsubscribes(j, t)
  <2>1. PICK i \in 1..Len(up) :
          Subscribes(i, t) /\ \A j \in (i + 1)..Len(up) : ~Unsubscribes(j, t)
    BY <1>4
  <2>2. CASE i = 1
    <3>1. Head(up).t = "SUBSCRIBE" /\ Head(up).topic = t
      BY <1>1, <2>1, <2>2 DEF Subscribes
    <3>2. t \in granted' \cup refused'
      BY <3>1
    <3>3. \A j \in 1..Len(up') : ~Unsubscribes(j, t)'
      BY <1>1, <1>2, <2>1, <2>2
    <3> QED
      BY <3>2, <3>3 DEF Settled
  <2>3. CASE i > 1
    <3>1. i - 1 \in 1..Len(up') /\ (i - 1) + 1 = i
      BY <1>1, <2>3
    <3>2. Subscribes(i - 1, t)'
      BY <1>2, <2>1, <3>1
    <3>3. \A j \in ((i - 1) + 1)..Len(up') : j \in 1..Len(up') /\ j + 1 \in (i + 1)..Len(up)
      BY <1>1, <2>3
    <3>4. \A j \in ((i - 1) + 1)..Len(up') : ~Unsubscribes(j, t)'
      BY <1>2, <2>1, <3>3
    <3> QED
      BY <3>1, <3>2, <3>4 DEF Settled
  <2> QED
    BY <1>1, <2>2, <2>3
<1> QED
  BY <1>3, <1>4 DEF Settled

\* More packets, of which none gives up a topic in use.
LEMMA AllStay ==
  ASSUME TypeInv, AllSettled, UNCHANGED <<subs, granted, refused>>,
         NEW q \in Seq(ToBroker), up' = up \o q,
         \A i \in 1..Len(q) : q[i].t # "UNSUBSCRIBE"
  PROVE  AllSettled'
<1> SUFFICES ASSUME NEW s \in Subs, subs'[s] # Free PROVE Settled(subs[s])'
  BY DEF AllSettled
<1>1. PICK t : t = subs[s]
  OBVIOUS
<1>2. Settled(t)
  BY <1>1 DEF AllSettled
<1>3. Settled(t)'
  BY <1>2, SettledStays DEF Drops
<1> QED
  BY <1>1, <1>3

LEMMA AllSame ==
  ASSUME AllSettled, UNCHANGED <<subs, granted, refused, up>>
  PROVE  AllSettled'
BY DEF AllSettled, Settled, Unsubscribes, Subscribes

\* Steps that end the connection, or do not bring a session.
LEMMA SubsDown ==
  ASSUME \/ TcpClose
         \/ ~alive' /\ ~alive
  PROVE  SubsInv'
BY Closes DEF SubsInv

LEMMA SubsPump == ASSUME TypeInv, SubsInv, Pump PROVE SubsInv'
<1>1. PICK p \in {Head(down)} :
        \/ /\ Message(p)
           /\ down' = Tail(down) /\ UNCHANGED <<state, tcp, alive>>
        \/ /\ Acked(p)
           /\ down' = Tail(down) /\ UNCHANGED <<state, tcp, alive, up, ringVars>>
        \/ /\ Broken(p) /\ MarkDown
           /\ UNCHANGED <<flagVars, ringVars>>
  BY DEF Pump
<1>2. UNCHANGED <<subs, granted, refused>>
  BY DEF Pump, sessionVars, brokerVars
<1>3. CASE MarkDown
  BY <1>3, SubsDown DEF MarkDown
<1>4. CASE UNCHANGED <<state, tcp, alive>> /\ (up' = up \/ up' = Append(up, Puback))
  <2>1. ASSUME AllSettled PROVE AllSettled'
    <3>1. CASE up' = up
      BY <1>2, <2>1, <3>1, AllSame
    <3>2. CASE up' = Append(up, Puback)
      <4>1. up' = up \o <<Puback>>
        BY <3>2, Packets, AppendIsConcat DEF TypeInv
      <4>2. <<Puback>> \in Seq(ToBroker) /\ \A i \in 1..Len(<<Puback>>) : <<Puback>>[i].t # "UNSUBSCRIBE"
        BY One, Packets DEF Puback
      <4> QED
        BY <1>2, <2>1, <4>1, <4>2, AllStay
    <3> QED
      BY <1>4, <3>1, <3>2
  <2> QED
    BY <1>4, <2>1 DEF SubsInv
<1> QED
  BY <1>1, <1>3, <1>4 DEF Message, Acked

LEMMA SubsFailed == ASSUME DialFails \/ NotAccepted PROVE SubsInv'
BY SubsDown DEF DialFails, NotAccepted, AttemptFailed

LEMMA SubsOpens == ASSUME TypeInv, DialOpens PROVE SubsInv'
BY DEF DialOpens, TypeInv, SubsInv

\* session_connect sends a SUBSCRIBE for every slot in use.
LEMMA SubsAccepted == ASSUME TypeInv, SubsInv, Accepted PROVE SubsInv'
<1>1. PICK used \in Ascending(UsedSlots) :
        /\ IF tcp THEN Tx(Resubscribe(used)) ELSE UNCHANGED lineVars
        /\ next_id' = NewId(Len(used))
  BY DEF Accepted
<1>2. CASE ~alive
  <2>1. ~alive'
    BY <1>1, <1>2 DEF Tx, lineVars
  <2> QED
    BY <1>2, <2>1, SubsDown
<1>3. CASE alive
  <2>1. tcp /\ tcp' = tcp /\ up' = up \o Resubscribe(used) /\ subs' = subs
    BY <1>1, <1>3 DEF SubsInv, Tx, Accepted
  <2>2. PICK q : q = Resubscribe(used)
    OBVIOUS
  <2>3. /\ q \in Seq(ToBroker) /\ Len(q) = Len(used)
        /\ \A i \in 1..Len(q) : q[i] = Subscribe(subs[used[i]], NewId(i))
    BY <2>2, Again
  <2>4. ASSUME NEW s \in Subs, subs'[s] # Free PROVE Settled(subs[s])'
    <3>1. PICK t : t = subs[s]
      OBVIOUS
    <3>2. s \in UsedSlots
      BY <2>1, <2>4 DEF UsedSlots
    <3>3. PICK k \in 1..Len(q) : used[k] = s
      BY <2>3, <3>2, Again
    <3>4. \A x, y : Subscribe(x, y).t = "SUBSCRIBE" /\ Subscribe(x, y).topic = x
      BY DEF Subscribe
    <3>5. q[k].t = "SUBSCRIBE" /\ q[k].topic = t
      BY <2>3, <3>1, <3>3, <3>4
    <3>6. \A i \in 1..Len(q) : ~Drops(q[i], t)
      BY <2>3, <3>4 DEF Drops
    <3>7. Settled(t)'
      BY <2>1, <2>2, <2>3, <3>5, <3>6, SettledNew
    <3> QED
      BY <2>1, <3>1, <3>7
  <2> QED
    BY <2>1, <2>4 DEF SubsInv, AllSettled
<1> QED
  BY <1>2, <1>3

\* A session that goes on with the same subscriptions.
LEMMA SubsKept ==
  ASSUME TypeInv, SubsInv, UNCHANGED <<subs, granted, refused, tcp, alive>>,
         state' = "up" => state = "up",
         NEW q \in Seq(ToBroker), up' = IF alive THEN up \o q ELSE up,
         \A i \in 1..Len(q) : q[i].t # "UNSUBSCRIBE"
  PROVE  SubsInv'
<1>1. ASSUME alive, AllSettled PROVE AllSettled'
  BY <1>1, AllStay
<1> QED
  BY <1>1 DEF SubsInv

LEMMA SubsStays ==
  ASSUME SubsInv, UNCHANGED <<subs, granted, refused, lineVars>>,
         state' = "up" => state = "up"
  PROVE  SubsInv'
<1>1. AllSettled => AllSettled'
  BY AllSame DEF lineVars
<1> QED
  BY <1>1 DEF SubsInv, lineVars

LEMMA SubsLoop == ASSUME TypeInv, SubsInv, LoopDown \/ PingDue \/ Reconnect PROVE SubsInv'
<1>1. CASE TcpClose
  BY <1>1, SubsDown
<1>2. CASE PingDue /\ Tx(<<Pingreq>>) /\ UNCHANGED state
  <2>1. UNCHANGED <<subs, granted, refused>>
    BY <1>2 DEF PingDue, sessionVars, brokerVars
  <2>2. UNCHANGED <<tcp, alive>> /\ up' = IF alive THEN up \o <<Pingreq>> ELSE up
    BY <1>2 DEF Tx
  <2>3. <<Pingreq>> \in Seq(ToBroker) /\ \A i \in 1..Len(<<Pingreq>>) : <<Pingreq>>[i].t # "UNSUBSCRIBE"
    BY One, Packets DEF Pingreq
  <2> QED
    BY <1>2, <2>1, <2>2, <2>3, SubsKept
<1> QED
  BY <1>1, <1>2 DEF LoopDown, PingDue, Reconnect, MarkDown

LEMMA SubsConnect == ASSUME TypeInv, SubsInv, CmdConnect \/ CmdClose PROVE SubsInv'
<1>1. CASE TcpClose
  BY <1>1, SubsDown
<1>2. CASE CmdConnect /\ UNCHANGED lineVars
  BY <1>2 DEF CmdConnect, SubsInv, lineVars
<1> QED
  BY <1>1, <1>2 DEF CmdConnect, CmdClose, SessionStop

\* A topic more, with its SUBSCRIBE.
LEMMA SubsSub == ASSUME TypeInv, SubsInv, CmdSub PROVE SubsInv'
<1>1. UNCHANGED <<granted, refused>>
  BY DEF CmdSub, brokerVars
<1>2. PICK t \in Topics : SubAnswered(t) \/ SubSent(t)
  BY DEF CmdSub
<1>3. CASE SubAnswered(t)
  <2>1. UNCHANGED <<state, lineVars>> /\ (state = "reconnect" \/ subs' = subs)
    BY <1>3 DEF SubAnswered
  <2>2. CASE subs' = subs
    BY <1>1, <2>1, <2>2, SubsStays
  <2>3. CASE state = "reconnect"
    BY <2>1, <2>3 DEF SubsInv, lineVars
  <2> QED
    BY <2>1, <2>2, <2>3
<1>4. CASE SubSent(t)
  <2>1. PICK s \in SlotFor(t) :
          /\ subs' = [subs EXCEPT ![s] = t]
          /\ next_id' = NewId(1) /\ got_suback' = NoCode
          /\ \/ /\ Tx(<<Subscribe(t, next_id')>>)
                /\ busy' = [op |-> "suback", slot |-> s, topic |-> t]
                /\ Unanswered /\ UNCHANGED <<state, ping_out>>
             \/ /\ TxMayFail /\ MarkDown /\ Unanswered /\ UNCHANGED busy
    BY <1>4 DEF SubSent
  <2>2. CASE MarkDown
    BY <2>2, SubsDown DEF MarkDown
  <2>3. CASE Tx(<<Subscribe(t, next_id')>>) /\ UNCHANGED state
    <3>1. next_id' \in 1..MaxId /\ next_id' \in Nat
      BY <2>1, Ids, MqttBounds DEF TypeInv
    <3>2. PICK q : q = <<Subscribe(t, next_id')>>
      OBVIOUS
    <3>3. Subscribe(t, next_id').t = "SUBSCRIBE" /\ Subscribe(t, next_id').topic = t
      BY DEF Subscribe
    <3>4. /\ q \in Seq(ToBroker) /\ 1 \in 1..Len(q) /\ Len(q) = 1
          /\ q[1].t = "SUBSCRIBE" /\ q[1].topic = t
      BY <3>1, <3>2, <3>3, One, Packets
    <3>5. \A i \in 1..Len(q) : q[i].t # "UNSUBSCRIBE"
      BY <3>4
    <3>6. UNCHANGED <<tcp, alive>> /\ up' = IF alive THEN up \o q ELSE up
      BY <2>3, <3>2 DEF Tx
    <3>7. ASSUME alive, AllSettled, NEW r \in Subs, subs'[r] # Free PROVE Settled(subs[r])'
      <4>1. PICK u : u = subs'[r]
        OBVIOUS
      <4>2. up' = up \o q /\ \A i \in 1..Len(q) : ~Drops(q[i], u)
        BY <3>5, <3>6, <3>7 DEF Drops
      <4>3. CASE u = t
        <5>1. Settled(u)'
          BY <3>4, <4>2, <4>3, SettledNew
        <5> QED
          BY <4>1, <5>1
      <4>4. CASE u # t
        <5>1. subs[r] = u /\ Settled(u)
          BY <2>1, <3>7, <4>1, <4>4 DEF TypeInv, AllSettled
        <5>2. Settled(u)'
          BY <1>1, <3>4, <4>2, <5>1, SettledStays
        <5> QED
          BY <4>1, <5>2
      <4> QED
        BY <4>3, <4>4
    <3> QED
      BY <2>3, <3>6, <3>7 DEF SubsInv, AllSettled
  <2> QED
    BY <2>1, <2>2, <2>3
<1> QED
  BY <1>2, <1>3, <1>4

\* The end of the wait for SUBACK frees at most a slot.
LEMMA SubsSubEnds == ASSUME TypeInv, SubsInv, SubFound \/ SubExpires PROVE SubsInv'
<1>1. UNCHANGED <<granted, refused, lineVars, state>>
  BY DEF SubFound, SubExpires, brokerVars
<1>2. subs' = subs \/ (busy.op = "suback" /\ subs' = [subs EXCEPT ![busy.slot] = Free])
  BY DEF SubFound, SubExpires, sessionVars
<1>3. \A s \in Subs : subs'[s] # Free => subs'[s] = subs[s]
  BY <1>2 DEF TypeInv
<1>4. ASSUME AllSettled, NEW s \in Subs, subs'[s] # Free PROVE Settled(subs[s])'
  <2>1. PICK t : t = subs[s]
    OBVIOUS
  <2>2. Settled(t)
    BY <1>3, <1>4, <2>1 DEF AllSettled
  <2>3. Settled(t)'
    BY <1>1, <2>2, SettledSame DEF lineVars
  <2> QED
    BY <1>3, <1>4, <2>1, <2>3
<1> QED
  BY <1>1, <1>4 DEF SubsInv, AllSettled, lineVars

\* A topic that is given up is in no slot.
LEMMA SubsUnsub == ASSUME TypeInv, SubsInv, CmdUnsub PROVE SubsInv'
<1>1. UNCHANGED <<granted, refused, state>>
  BY DEF CmdUnsub, brokerVars
<1>2. PICK t \in Topics :
        \/ /\ state \in {"up", "reconnect"}
           /\ subs' = [s \in Subs |-> IF subs[s] = t THEN Free ELSE subs[s]]
           /\ IF state = "up"
              THEN /\ next_id' = NewId(1)
                   /\ \/ Tx(<<Unsubscribe(t)>>)
                      \/ TxMayFail /\ UNCHANGED lineVars
              ELSE UNCHANGED <<next_id, lineVars>>
           /\ Unanswered
        \/ /\ state = "off" /\ Unanswered
           /\ UNCHANGED <<subs, next_id, lineVars>>
  BY DEF CmdUnsub
<1>3. CASE state # "up"
  <2>1. UNCHANGED lineVars
    BY <1>2, <1>3
  <2> QED
    BY <1>1, <1>3, <2>1 DEF SubsInv, lineVars
<1>4. CASE state = "up"
  <2>1. subs' = [s \in Subs |-> IF subs[s] = t THEN Free ELSE subs[s]]
    BY <1>2, <1>4
  <2>2. PICK q : q = <<Unsubscribe(t)>>
    OBVIOUS
  <2>3. Unsubscribe(t).topic = t
    BY DEF Unsubscribe
  <2>4. q \in Seq(ToBroker) /\ Len(q) = 1 /\ q[1].topic = t
    BY <2>2, <2>3, One, Packets
  <2>5. \/ UNCHANGED lineVars
        \/ UNCHANGED <<tcp, alive>> /\ up' = IF alive THEN up \o q ELSE up
    BY <1>2, <1>4, <2>2 DEF Tx
  <2>6. ASSUME alive, AllSettled, NEW s \in Subs, subs'[s] # Free PROVE Settled(subs[s])'
    <3>1. PICK u : u = subs[s]
      OBVIOUS
    <3>2. subs'[s] = u /\ u # t /\ Settled(u)
      BY <2>1, <2>6, <3>1 DEF AllSettled
    <3>3. \A i \in 1..Len(q) : ~Drops(q[i], u)
      BY <2>4, <3>2 DEF Drops
    <3>4. up' = up \/ up' = up \o q
      BY <2>5, <2>6 DEF lineVars
    <3>5. Settled(u)'
      BY <1>1, <2>4, <3>2, <3>3, <3>4, SettledSame, SettledStays
    <3> QED
      BY <3>2, <3>5
  <2> QED
    BY <1>1, <2>5, <2>6 DEF SubsInv, AllSettled, lineVars
<1> QED
  BY <1>3, <1>4

LEMMA SubsAttempt ==
  ASSUME TypeInv, SubsInv, UNCHANGED <<subs, granted, refused>>,
         NEW p \in Publications, NEW n, NEW i \in Nat, Attempt(p, n, i)
  PROVE  SubsInv'
<1>1. CASE MarkDown
  BY <1>1, SubsDown DEF MarkDown
<1>2. CASE Tx(<<Publish(p.m, p.qos, i)>>) /\ UNCHANGED state
  <2>1. PICK q : q = <<Publish(p.m, p.qos, i)>>
    OBVIOUS
  <2>2. Publish(p.m, p.qos, i).t = "PUBLISH"
    BY DEF Publish
  <2>3. q \in Seq(ToBroker) /\ \A j \in 1..Len(q) : q[j].t # "UNSUBSCRIBE"
    BY <2>1, <2>2, One, Packets
  <2>4. UNCHANGED <<tcp, alive>> /\ up' = IF alive THEN up \o q ELSE up
    BY <1>2, <2>1 DEF Tx
  <2> QED
    BY <1>2, <2>3, <2>4, SubsKept
<1> QED
  BY <1>1, <1>2 DEF Attempt

LEMMA SubsPub == ASSUME TypeInv, SubsInv, CmdPub \/ PubData PROVE SubsInv'
<1>1. UNCHANGED <<subs, granted, refused>>
  BY DEF CmdPub, PubData, brokerVars, sessionVars
<1>2. \/ UNCHANGED <<state, lineVars>>
      \/ \E p \in Publications : PublishNow(p)
  <2>1. \A q \in {0, 1} : [m |-> cmds + 1, qos |-> q] \in Publications
    BY DEF Publications, TypeInv
  <2>2. raw \in Publications
    BY DEF TypeInv
  <2> QED
    BY <2>1, <2>2 DEF CmdPub, PubData
<1>3. CASE UNCHANGED <<state, lineVars>>
  BY <1>1, <1>3, SubsStays
<1>4. ASSUME NEW p \in Publications, PublishNow(p) PROVE SubsInv'
  <2>1. next_id' \in 1..MaxId
    BY <1>4, Ids DEF PublishNow, TypeInv
  <2>2. PICK i \in Nat : i = next_id'
    BY <2>1, MqttBounds
  <2> QED
    BY <1>1, <1>4, <2>2, SubsAttempt DEF PublishNow
<1> QED
  BY <1>2, <1>3, <1>4

LEMMA SubsPubWait == ASSUME TypeInv, SubsInv, PubWait PROVE SubsInv'
<1>1. UNCHANGED <<subs, granted, refused>> /\ busy.op = "puback"
  BY DEF PubWait, PubFound, PubDown, PubExpires, brokerVars, sessionVars
<1>2. \/ UNCHANGED <<state, lineVars>>
      \/ Attempt(busy.p, 2, busy.id)
  BY DEF PubWait, PubFound, PubDown, PubExpires
<1>3. busy.p \in Publications /\ busy.id \in Nat
  BY <1>1, BusyFacts DEF TypeInv
<1> QED
  BY <1>1, <1>2, <1>3, SubsStays, SubsAttempt

LEMMA SubsRx == ASSUME SubsInv, CmdRx PROVE SubsInv'
BY SubsStays DEF CmdRx, sessionVars, brokerVars

\* The broker decides what is asked for.
LEMMA SubsTakes == ASSUME TypeInv, SubsInv, BrokerTakes PROVE SubsInv'
<1>1. UNCHANGED <<state, subs, tcp, alive>> /\ up # <<>> /\ up' = Tail(up)
  BY DEF BrokerTakes, clientVars, sessionVars
<1>2. \/ UNCHANGED <<granted, refused>> /\ Head(up).t \notin {"SUBSCRIBE", "UNSUBSCRIBE"}
      \/ /\ Head(up).t = "SUBSCRIBE"
         /\ granted' \cup refused' = granted \cup refused \cup {Head(up).topic}
      \/ /\ Head(up).t = "UNSUBSCRIBE" /\ granted' = granted \ {Head(up).topic}
         /\ refused' = refused
  BY DEF BrokerTakes
<1>3. ASSUME AllSettled, NEW s \in Subs, subs[s] # Free PROVE Settled(subs[s])'
  <2>1. PICK t : t = subs[s]
    OBVIOUS
  <2>2. Settled(t)
    BY <1>3, <2>1 DEF AllSettled
  <2>3. Settled(t)'
    BY <1>1, <1>2, <2>2, SettledTaken
  <2> QED
    BY <1>1, <2>1, <2>3
<1> QED
  BY <1>1, <1>3 DEF SubsInv, AllSettled

LEMMA SubsOthers == ASSUME SubsInv, BrokerSends \/ Lost PROVE SubsInv'
<1>1. CASE BrokerSends
  <2>1. UNCHANGED <<state, subs, granted, refused, tcp, alive, up>>
    BY <1>1 DEF BrokerSends, clientVars, sessionVars
  <2>2. AllSettled => AllSettled'
    BY <2>1, AllSame
  <2> QED
    BY <2>1, <2>2 DEF SubsInv
<1>2. CASE Lost
  BY <1>2 DEF Lost, SubsInv
<1> QED
  BY <1>1, <1>2

LEMMA SubsNext ==
  ASSUME TypeInv, SubsInv, [Next]_vars
  PROVE  SubsInv'
<1>1. CASE UNCHANGED vars
  <2>1. UNCHANGED <<subs, granted, refused, lineVars, state>>
    BY <1>1 DEF vars, sessionVars, brokerVars
  <2> QED
    BY <2>1, SubsStays
<1> QED
  BY <1>1, SubsPump, SubsFailed, SubsOpens, SubsAccepted, SubsLoop, SubsConnect, SubsSub,
     SubsSubEnds, SubsUnsub, SubsPub, SubsPubWait, SubsRx, SubsTakes, SubsOthers DEF Next

\* With a session and a quiet line each subscription in use has been decided by
\* the broker of this connection, after any sequence of reconnections, brokers,
\* refusals and SUBSCRIBEs that were never answered (session_connect,
\* AT+MQTTSUB, AT+MQTTUNSUB).
THEOREM SubscriptionsReturn == Spec => []Resubscribed
<1>1. Init => SubsInv
  BY DEF Init, SubsInv
<1>2. TypeInv /\ SubsInv => Resubscribed
  <2> SUFFICES ASSUME TypeInv, SubsInv, state = "up", alive, up = <<>>,
                      NEW s \in Subs, subs[s] # Free
               PROVE  subs[s] \in granted \cup refused
    BY DEF Resubscribed
  <2>1. Settled(subs[s])
    BY DEF SubsInv, AllSettled
  <2>2. Len(up) = 0
    BY EmptySeq
  <2> QED
    BY <2>1, <2>2 DEF Settled
<1>3. TypeInv /\ SubsInv /\ [Next]_vars => TypeInv' /\ SubsInv'
  BY TypeNext, SubsNext
<1> QED
  BY TypeInit, <1>1, <1>2, <1>3, PTL DEF Spec

-----------------------------------------------------------------------------
(* The ring.                                                               *)

LEMMA Under == ASSUME NEW w \in Nat \ {0}, NEW x \in Nat, x < w PROVE x % w = x
OBVIOUS

LEMMA Round == ASSUME NEW w \in Nat \ {0}, NEW x \in Nat, x < w PROVE (x + w) % w = x
OBVIOUS

LEMMA Modulo ==
  ASSUME NEW w \in Nat \ {0}, NEW x \in Nat, x < 2 * w
  PROVE  x % w = IF x < w THEN x ELSE x - w
<1>1. CASE x < w
  BY <1>1, Under
<1>2. CASE x >= w
  <2>1. PICK y \in Nat : y = x - w /\ y < w
    BY <1>2
  <2>2. (y + w) % w = y
    BY <2>1, Round
  <2>3. y + w = x
    BY <2>1
  <2> QED
    BY <1>2, <2>1, <2>2, <2>3
<1> QED
  BY <1>1, <1>2

\* Places count from the head, and meet again after RxCap of them only.
LEMMA Places ==
  ASSUME NEW h \in 0..(RxCap - 1), NEW i \in 1..(RxCap + 1)
  PROVE  /\ Place(h, i) = IF h + i <= RxCap THEN h + i - 1 ELSE h + i - 1 - RxCap
         /\ Place(h, i) \in 0..(RxCap - 1)
<1>1. RxCap \in Nat \ {0}
  BY MqttBounds
<1>2. PICK x \in Nat : x = h + i - 1 /\ x < 2 * RxCap
  BY <1>1
<1>3. x % RxCap = IF x < RxCap THEN x ELSE x - RxCap
  BY <1>1, <1>2, Modulo
<1>4. Place(h, i) = x % RxCap
  BY <1>2 DEF Place
<1> QED
  BY <1>1, <1>2, <1>3, <1>4

LEMMA Apart ==
  ASSUME NEW h \in 0..(RxCap - 1), NEW i \in 1..(RxCap + 1), NEW j \in 1..(RxCap + 1),
         i < j, j < i + RxCap
  PROVE  Place(h, i) # Place(h, j)
<1>1. RxCap \in Nat \ {0}
  BY MqttBounds
<1>2. Place(h, i) = IF h + i <= RxCap THEN h + i - 1 ELSE h + i - 1 - RxCap
  BY Places
<1>3. Place(h, j) = IF h + j <= RxCap THEN h + j - 1 ELSE h + j - 1 - RxCap
  BY Places
<1> QED
  BY <1>1, <1>2, <1>3

\* The head moves on: each place is the next one's.
LEMMA Shifted ==
  ASSUME NEW h \in 0..(RxCap - 1), NEW g, g = (h + 1) % RxCap
  PROVE  /\ g \in 0..(RxCap - 1)
         /\ \A i \in 1..RxCap : Place(g, i) = Place(h, i + 1)
<1>1. RxCap \in Nat \ {0}
  BY MqttBounds
<1>2. h + 1 = h + 2 - 1 /\ 2 \in 1..(RxCap + 1)
  BY <1>1
<1>3. g = Place(h, 2)
  BY <1>2 DEF Place
<1>4. g = IF h + 2 <= RxCap THEN h + 1 ELSE 0
  BY <1>1, <1>2, <1>3, Places
<1>5. g \in 0..(RxCap - 1)
  BY <1>1, <1>4
<1>6. ASSUME NEW i \in 1..RxCap PROVE Place(g, i) = Place(h, i + 1)
  <2>1. i \in 1..(RxCap + 1) /\ i + 1 \in 1..(RxCap + 1)
    BY <1>1
  <2>2. Place(g, i) = IF g + i <= RxCap THEN g + i - 1 ELSE g + i - 1 - RxCap
    BY <1>5, <2>1, Places
  <2>3. Place(h, i + 1) = IF h + i + 1 <= RxCap THEN h + i ELSE h + i - RxCap
    <3>1. PICK k \in 1..(RxCap + 1) : k = i + 1
      BY <2>1
    <3>2. Place(h, k) = IF h + k <= RxCap THEN h + k - 1 ELSE h + k - 1 - RxCap
      BY Places
    <3> QED
      BY <1>1, <3>1, <3>2
  <2> QED
    BY <1>1, <1>4, <2>2, <2>3
<1> QED
  BY <1>5, <1>6

\* rx_push of a message that fits.
LEMMA Pushes ==
  ASSUME RingType, Matches, NEW n \in Nat, RxPush(n), arrived' = Append(arrived, n),
         UNCHANGED <<read, taken, spoiled>>, read < n
  PROVE  /\ RingType' /\ Matches'
         /\ rx_count' + rx_lost' = rx_count + rx_lost + 1 /\ Len(arrived') = Len(arrived) + 1
<1>1. RxCap \in Nat \ {0}
  BY MqttBounds
<1>2. /\ arrived' \in Seq(Nat) /\ Len(arrived') = Len(arrived) + 1 /\ Len(arrived) \in Nat
      /\ \A i \in 1..Len(arrived) : arrived'[i] = arrived[i]
      /\ arrived'[Len(arrived) + 1] = n
  BY Put DEF RingType
<1>3. /\ rx_head \in 0..(RxCap - 1) /\ rx_count \in 0..RxCap /\ rx_lost \in Nat
      /\ rxq \in [0..(RxCap - 1) -> Nat]
  BY DEF RingType
<1>4. rx_count + 1 \in 1..(RxCap + 1) /\ rx_head + (rx_count + 1) - 1 = rx_head + rx_count
  BY <1>1, <1>3
<1>5. PICK p \in 0..(RxCap - 1) : p = Place(rx_head, rx_count + 1)
  BY <1>3, <1>4, Places
<1>6. p = (rx_head + rx_count) % RxCap
  BY <1>4, <1>5 DEF Place
<1>7. rxq' = [rxq EXCEPT ![p] = n]
  BY <1>6 DEF RxPush
<1>8. rxq' \in [0..(RxCap - 1) -> Nat] /\ rxq'[p] = n
  BY <1>3, <1>7
<1>9. ASSUME NEW j \in 2..rx_count, RxCap = rx_count PROVE p # Place(rx_head, j)
  <2>1. p = Place(rx_head, 1)
    <3>1. PICK k \in 1..(RxCap + 1) : k = rx_count + 1 /\ p = Place(rx_head, k)
      BY <1>4, <1>5
    <3>2. p = IF rx_head + k <= RxCap THEN rx_head + k - 1 ELSE rx_head + k - 1 - RxCap
      BY <1>3, <3>1, Places
    <3>3. 1 \in 1..(RxCap + 1)
      BY <1>1
    <3>4. Place(rx_head, 1) = IF rx_head + 1 <= RxCap THEN rx_head + 1 - 1 ELSE rx_head + 1 - 1 - RxCap
      BY <1>3, <3>3, Places
    <3> QED
      BY <1>1, <1>3, <1>9, <3>1, <3>2, <3>4
  <2> QED
    BY <1>1, <1>3, <1>9, <2>1, Apart
<1>10. ASSUME NEW i \in 1..rx_count, rx_count < RxCap PROVE p # Place(rx_head, i)
  BY <1>1, <1>3, <1>4, <1>5, <1>10, Apart
<1>11. ASSUME NEW i \in 1..rx_count
       PROVE  /\ Place(rx_head, i) \in 0..(RxCap - 1)
              /\ rxq[Place(rx_head, i)] = arrived'[Len(arrived) - rx_count + i]
              /\ read < rxq[Place(rx_head, i)]
  <2>1. i \in 1..(RxCap + 1) /\ Len(arrived) - rx_count + i \in 1..Len(arrived)
    BY <1>1, <1>2, <1>3 DEF Matches
  <2> QED
    BY <1>2, <1>3, <2>1, Places DEF Matches
<1>12. CASE rx_count = RxCap
  <2>1. rx_head' = (rx_head + 1) % RxCap /\ rx_lost' = rx_lost + 1 /\ rx_count' = rx_count
    BY <1>12 DEF RxPush
  <2>2. /\ rx_head' \in 0..(RxCap - 1)
        /\ \A i \in 1..RxCap : Place(rx_head', i) = Place(rx_head, i + 1)
    BY <1>3, <2>1, Shifted
  <2>3. RingType'
    <3>1. rx_lost' \in Nat /\ rx_count' \in 0..RxCap /\ rx_head' \in 0..(RxCap - 1)
      BY <1>3, <2>1, <2>2
    <3>2. spoiled' \in Nat /\ read' \in Nat /\ taken' \in Nat
      BY DEF RingType
    <3> QED
      BY <1>2, <1>8, <3>1, <3>2 DEF RingType
  <2>4. ASSUME NEW i \in 1..RxCap
        PROVE  /\ rxq'[Place(rx_head', i)] = arrived'[Len(arrived) + 1 - rx_count + i]
               /\ read < rxq'[Place(rx_head', i)]
    <3>1. PICK k \in 2..(RxCap + 1) : k = i + 1 /\ Place(rx_head', i) = Place(rx_head, k)
      BY <1>1, <2>2
    <3>2. CASE k = RxCap + 1
      <4>1. k = rx_count + 1 /\ i = rx_count
        BY <1>1, <1>3, <1>12, <3>1, <3>2
      <4>2. Len(arrived) + 1 - rx_count + i = Len(arrived) + 1
        BY <1>2, <1>3, <4>1
      <4>3. rxq'[Place(rx_head', i)] = n
        BY <1>5, <1>8, <3>1, <4>1
      <4> QED
        BY <1>2, <4>2, <4>3
    <3>3. CASE k <= RxCap
      <4>1. k \in 2..rx_count /\ k \in 1..rx_count
        BY <1>1, <1>12, <3>3
      <4>2. rxq'[Place(rx_head, k)] = rxq[Place(rx_head, k)]
        BY <1>3, <1>7, <1>9, <1>11, <1>12, <4>1
      <4>3. Len(arrived) + 1 - rx_count + i = Len(arrived) - rx_count + k
        BY <1>2, <1>3, <3>1
      <4> QED
        BY <1>11, <3>1, <4>1, <4>2, <4>3
    <3>4. k = RxCap + 1 \/ k <= RxCap
      BY <1>1
    <3> QED
      BY <3>2, <3>3, <3>4
  <2>5. rx_count' <= Len(arrived')
    BY <1>2, <1>3, <2>1 DEF Matches
  <2>6. Len(arrived') - rx_count' = Len(arrived) + 1 - rx_count
    BY <1>2, <1>3, <2>1
  <2>7. Matches'
    BY <1>12, <2>1, <2>4, <2>5, <2>6 DEF Matches
  <2> QED
    BY <1>2, <1>3, <2>1, <2>3, <2>7
<1>13. CASE rx_count < RxCap
  <2>1. rx_head' = rx_head /\ rx_lost' = rx_lost /\ rx_count' = rx_count + 1
    BY <1>3, <1>13 DEF RxPush
  <2>2. RingType'
    BY <1>1, <1>2, <1>3, <1>8, <1>13, <2>1 DEF RingType
  <2>3. ASSUME NEW i \in 1..(rx_count + 1)
        PROVE  /\ rxq'[Place(rx_head, i)] = arrived'[Len(arrived) - rx_count + i]
               /\ read < rxq'[Place(rx_head, i)]
    <3>1. CASE i = rx_count + 1
      <4>1. rxq'[Place(rx_head, i)] = n
        BY <1>5, <1>8, <3>1
      <4>2. Len(arrived) - rx_count + i = Len(arrived) + 1
        BY <1>2, <1>3, <3>1
      <4> QED
        BY <1>2, <4>1, <4>2
    <3>2. CASE i <= rx_count
      <4>1. i \in 1..rx_count
        BY <1>3, <3>2
      <4>2. rxq'[Place(rx_head, i)] = rxq[Place(rx_head, i)]
        BY <1>3, <1>7, <1>10, <1>11, <1>13, <4>1
      <4> QED
        BY <1>11, <4>1, <4>2
    <3>3. i = rx_count + 1 \/ i <= rx_count
      BY <1>1, <1>3
    <3> QED
      BY <3>1, <3>2, <3>3
  <2>4. rx_count' <= Len(arrived') /\ Len(arrived') - rx_count' = Len(arrived) - rx_count
    BY <1>2, <1>3, <2>1 DEF Matches
  <2>5. Matches'
    BY <2>1, <2>3, <2>4 DEF Matches
  <2> QED
    BY <1>2, <1>3, <2>1, <2>2, <2>5
<1> QED
  BY <1>1, <1>3, <1>12, <1>13

-----------------------------------------------------------------------------
(* Messages come in the order of their numbers.                            *)

LEMMA MessageTypes ==
  ASSUME TypeInv
  PROVE  /\ Len(down) \in Nat
         /\ \A i \in 1..Len(down) : down[i] \in FromBroker
         /\ \A i \in 1..Len(down) : down[i].t = "PUBLISH" => down[i].n \in Nat
<1>1. Len(down) \in Nat /\ \A i \in 1..Len(down) : down[i] \in FromBroker
  BY LenProperties, ElementOfSeq DEF TypeInv
<1> QED
  BY <1>1, CameFacts

\* The first packet is read, and is not a message that fits.
LEMMA OrderTaken ==
  ASSUME TypeInv, InOrder, down # <<>>, down' = Tail(down), UNCHANGED <<arrived, sent, read>>
  PROVE  InOrder'
<1>1. /\ Len(down) \in Nat /\ Len(down') = Len(down) - 1
      /\ \A i \in 1..(Len(down) - 1) : down'[i] = down[i + 1]
  BY Taken DEF TypeInv
<1>2. ASSUME NEW i, IsMessage(i)'
      PROVE  /\ i \in Nat /\ i + 1 \in 1..Len(down) /\ down'[i] = down[i + 1]
             /\ IsMessage(i + 1)
  BY <1>1, <1>2 DEF IsMessage
<1>3. ASSUME NEW i \in 1..Len(down'), IsMessage(i)'
      PROVE  /\ \A j \in 1..Len(arrived') : arrived'[j] < down'[i].n
             /\ \A j \in 1..Len(down') : (IsMessage(j) /\ i < j)' => down'[i].n < down'[j].n
             /\ read' < down'[i].n /\ down'[i].n <= sent'
  <2>1. IsMessage(i + 1) /\ i + 1 \in 1..Len(down) /\ down'[i] = down[i + 1]
    BY <1>2, <1>3
  <2>2. \A j \in 1..Len(arrived) : arrived[j] < down[i + 1].n
    BY <2>1 DEF InOrder
  <2>3. read < down[i + 1].n /\ down[i + 1].n <= sent
    BY <2>1 DEF InOrder
  <2>4. ASSUME NEW j \in 1..Len(down'), IsMessage(j)', i < j
        PROVE  down'[i].n < down'[j].n
    <3>1. IsMessage(j + 1) /\ j + 1 \in 1..Len(down) /\ down'[j] = down[j + 1] /\ i + 1 < j + 1
      BY <1>2, <2>4
    <3>2. down[i + 1].n < down[j + 1].n
      BY <2>1, <3>1 DEF InOrder
    <3> QED
      BY <2>1, <3>1, <3>2
  <2> QED
    BY <2>1, <2>2, <2>3, <2>4
<1> QED
  BY <1>3 DEF InOrder

\* It is a message that goes into the ring.
LEMMA OrderPushed ==
  ASSUME TypeInv, RingType, InOrder, down # <<>>, down' = Tail(down), UNCHANGED <<sent, read>>,
         Head(down).t = "PUBLISH", arrived' = Append(arrived, Head(down).n)
  PROVE  InOrder' /\ read < Head(down).n /\ Head(down).n \in Nat
<1>1. /\ Len(down) \in Nat /\ Len(down') = Len(down) - 1 /\ Head(down) = down[1] /\ Len(down) > 0
      /\ \A i \in 1..(Len(down) - 1) : down'[i] = down[i + 1]
  BY Taken DEF TypeInv
<1>2. PICK n : n = Head(down).n
  OBVIOUS
<1>3. 1 \in 1..Len(down) /\ IsMessage(1) /\ down[1].n = n
  BY <1>1, <1>2 DEF IsMessage
<1>4. n \in Nat
  BY <1>1, <1>3, MessageTypes DEF IsMessage
<1>5. /\ \A j \in 1..Len(arrived) : arrived[j] < n
      /\ \A j \in 1..Len(down) : IsMessage(j) /\ 1 < j => n < down[j].n
      /\ read < n /\ n <= sent
  BY <1>3 DEF InOrder
<1>6. /\ Len(arrived') = Len(arrived) + 1 /\ Len(arrived) \in Nat
      /\ \A i \in 1..Len(arrived) : arrived'[i] = arrived[i]
      /\ arrived'[Len(arrived) + 1] = n
  BY <1>2, <1>4, Put DEF RingType
<1>7. \A i \in 1..Len(arrived') : i \in 1..Len(arrived) \/ i = Len(arrived) + 1
  BY <1>6
<1>8. \A i, j \in 1..Len(arrived') : i < j => arrived'[i] < arrived'[j]
  <2> SUFFICES ASSUME NEW i \in 1..Len(arrived'), NEW j \in 1..Len(arrived'), i < j
               PROVE  arrived'[i] < arrived'[j]
    OBVIOUS
  <2>1. i \in 1..Len(arrived)
    BY <1>6
  <2>2. CASE j \in 1..Len(arrived)
    BY <1>6, <2>1, <2>2 DEF InOrder
  <2>3. CASE j = Len(arrived) + 1
    BY <1>5, <1>6, <2>1, <2>3
  <2> QED
    BY <1>7, <2>2, <2>3
<1>9. \A i \in 1..Len(arrived') : arrived'[i] <= sent
  <2> SUFFICES ASSUME NEW i \in 1..Len(arrived') PROVE arrived'[i] <= sent
    OBVIOUS
  <2>1. CASE i \in 1..Len(arrived)
    BY <1>6, <2>1 DEF InOrder
  <2>2. CASE i = Len(arrived) + 1
    BY <1>5, <1>6, <2>2
  <2> QED
    BY <1>7, <2>1, <2>2
<1>10. ASSUME NEW i, IsMessage(i)'
       PROVE  /\ i \in Nat /\ i >= 1 /\ i + 1 \in 1..Len(down) /\ down'[i] = down[i + 1]
              /\ IsMessage(i + 1)
  BY <1>1, <1>10 DEF IsMessage
<1>11. ASSUME NEW i \in 1..Len(down'), IsMessage(i)'
       PROVE  /\ \A j \in 1..Len(arrived') : arrived'[j] < down'[i].n
              /\ \A j \in 1..Len(down') : (IsMessage(j) /\ i < j)' => down'[i].n < down'[j].n
              /\ read' < down'[i].n /\ down'[i].n <= sent'
  <2>1. /\ IsMessage(i + 1) /\ i + 1 \in 1..Len(down) /\ down'[i] = down[i + 1] /\ 1 < i + 1
    BY <1>10, <1>11
  <2>2. \A j \in 1..Len(arrived) : arrived[j] < down[i + 1].n
    BY <2>1 DEF InOrder
  <2>3. read < down[i + 1].n /\ down[i + 1].n <= sent /\ n < down[i + 1].n
    BY <1>5, <2>1 DEF InOrder
  <2>4. \A j \in 1..Len(arrived') : arrived'[j] < down[i + 1].n
    BY <1>6, <1>7, <2>2, <2>3
  <2>5. ASSUME NEW j \in 1..Len(down'), IsMessage(j)', i < j
        PROVE  down'[i].n < down'[j].n
    <3>1. IsMessage(j + 1) /\ j + 1 \in 1..Len(down) /\ down'[j] = down[j + 1] /\ i + 1 < j + 1
      BY <1>10, <2>5
    <3>2. down[i + 1].n < down[j + 1].n
      BY <2>1, <3>1 DEF InOrder
    <3> QED
      BY <2>1, <3>1, <3>2
  <2> QED
    BY <2>1, <2>3, <2>4, <2>5
<1>12. read' <= sent'
  BY DEF InOrder
<1> QED
  BY <1>2, <1>4, <1>5, <1>8, <1>9, <1>11, <1>12 DEF InOrder

\* The broker sends a packet: an answer, or the next message.
LEMMA OrderSent ==
  ASSUME TypeInv, RingType, InOrder, NEW p \in FromBroker, down' = Append(down, p),
         UNCHANGED <<arrived, read>>, sent' \in Nat,
         \/ sent' = sent /\ p.t # "PUBLISH"
         \/ sent' = sent + 1 /\ (p.t = "PUBLISH" => p.n = sent')
  PROVE  InOrder'
<1>1. /\ Len(down) \in Nat /\ Len(down') = Len(down) + 1
      /\ \A i \in 1..Len(down) : down'[i] = down[i]
      /\ down'[Len(down) + 1] = p
  BY Put DEF TypeInv
<1>2. sent \in Nat /\ read \in Nat /\ sent <= sent' /\ Len(arrived) \in Nat
      /\ \A i \in 1..Len(arrived) : arrived[i] \in Nat
  BY LenProperties, ElementOfSeq DEF TypeInv, RingType
<1>3. ASSUME NEW i, IsMessage(i)'
      PROVE  \/ IsMessage(i) /\ i \in 1..Len(down) /\ down'[i] = down[i] /\ down[i].n \in Nat
             \/ i = Len(down) + 1 /\ down'[i].n = sent' /\ sent' = sent + 1
  <2>1. i \in 1..(Len(down) + 1) /\ down'[i].t = "PUBLISH"
    BY <1>1, <1>3 DEF IsMessage
  <2>2. CASE i = Len(down) + 1
    BY <1>1, <2>1, <2>2
  <2>3. CASE i \in 1..Len(down)
    <3>1. down'[i] = down[i] /\ IsMessage(i)
      BY <1>1, <2>1, <2>3 DEF IsMessage
    <3> QED
      BY <2>3, <3>1, MessageTypes DEF IsMessage
  <2>4. i = Len(down) + 1 \/ i \in 1..Len(down)
    BY <1>1, <2>1
  <2> QED
    BY <2>2, <2>3, <2>4
<1>4. ASSUME NEW i \in 1..Len(down'), IsMessage(i)'
      PROVE  /\ \A j \in 1..Len(arrived') : arrived'[j] < down'[i].n
             /\ \A j \in 1..Len(down') : (IsMessage(j) /\ i < j)' => down'[i].n < down'[j].n
             /\ read' < down'[i].n /\ down'[i].n <= sent'
  <2>1. CASE IsMessage(i) /\ i \in 1..Len(down) /\ down'[i] = down[i] /\ down[i].n \in Nat
    <3>1. \A j \in 1..Len(arrived') : arrived'[j] < down'[i].n
      BY <2>1 DEF InOrder
    <3>2. read' < down'[i].n /\ down[i].n <= sent
      BY <2>1 DEF InOrder
    <3>3. down'[i].n <= sent'
      BY <1>2, <2>1, <3>2
    <3>4. ASSUME NEW j \in 1..Len(down'), IsMessage(j)', i < j
          PROVE  down'[i].n < down'[j].n
      <4>1. CASE IsMessage(j) /\ j \in 1..Len(down) /\ down'[j] = down[j]
        <5>1. down[i].n < down[j].n
          BY <2>1, <3>4, <4>1 DEF InOrder
        <5> QED
          BY <2>1, <4>1, <5>1
      <4>2. CASE j = Len(down) + 1 /\ down'[j].n = sent' /\ sent' = sent + 1
        BY <1>2, <2>1, <3>2, <4>2
      <4> QED
        BY <1>3, <3>4, <4>1, <4>2
    <3> QED
      BY <3>1, <3>2, <3>3, <3>4
  <2>2. CASE i = Len(down) + 1 /\ down'[i].n = sent' /\ sent' = sent + 1
    <3>1. \A j \in 1..Len(arrived') : arrived'[j] < down'[i].n
      <4>1. \A j \in 1..Len(arrived) : arrived[j] <= sent
        BY DEF InOrder
      <4> QED
        BY <1>2, <2>2, <4>1
    <3>2. read' < down'[i].n /\ down'[i].n <= sent'
      BY <1>2, <2>2 DEF InOrder
    <3>3. \A j \in 1..Len(down') : ~(i < j)
      BY <1>1, <2>2
    <3> QED
      BY <3>1, <3>2, <3>3
  <2> QED
    BY <1>3, <1>4, <2>1, <2>2
<1>5. /\ \A i, j \in 1..Len(arrived') : i < j => arrived'[i] < arrived'[j]
  BY DEF InOrder
<1>6. /\ \A i \in 1..Len(arrived') : arrived'[i] <= sent'
      /\ read' <= sent'
  <2>1. read <= sent /\ \A i \in 1..Len(arrived) : arrived[i] <= sent
    BY DEF InOrder
  <2> QED
    BY <1>2, <2>1
<1> QED
  BY <1>4, <1>5, <1>6 DEF InOrder

LEMMA OrderDown ==
  ASSUME InOrder, down' = <<>>, UNCHANGED <<arrived, sent, read>>
  PROVE  InOrder'
<1>1. \A i : ~IsMessage(i)'
  BY EmptySeq DEF IsMessage
<1>2. \A i \in 1..Len(down') : IsMessage(i)' => FALSE
  BY <1>1
<1> QED
  BY <1>2 DEF InOrder

LEMMA OrderSame ==
  ASSUME InOrder, UNCHANGED <<down, arrived, sent, read>>
  PROVE  InOrder'
BY DEF InOrder, IsMessage

-----------------------------------------------------------------------------
(* The invariant of the ring, action by action.                            *)

LEMMA RingKept ==
  ASSUME RingInv, InOrder', UNCHANGED ringVars
  PROVE  RingInv'
BY DEF RingInv, RingType, Matches, Place, ringVars

LEMMA RingPump == ASSUME TypeInv, RingInv, Pump PROVE RingInv'
<1>1. PICK p \in {Head(down)} :
        \/ /\ Message(p)
           /\ down' = Tail(down) /\ UNCHANGED <<state, tcp, alive>>
        \/ /\ Acked(p)
           /\ down' = Tail(down) /\ UNCHANGED <<state, tcp, alive, up, ringVars>>
        \/ /\ Broken(p) /\ MarkDown
           /\ UNCHANGED <<flagVars, ringVars>>
  BY DEF Pump
<1>2. down # <<>> /\ p = Head(down) /\ UNCHANGED sent
  BY <1>1 DEF Pump, brokerVars
<1>3. RingType /\ Matches /\ InOrder /\ taken + rx_count + rx_lost = Len(arrived) + spoiled
  BY DEF RingInv
<1>4. /\ rx_count \in Nat /\ rx_lost \in Nat /\ taken \in Nat /\ spoiled \in Nat
      /\ Len(arrived) \in Nat /\ RxCap \in Nat
  BY <1>3, MqttBounds, LenProperties DEF RingType
<1>5. CASE Message(p) /\ down' = Tail(down)
  <2>1. p.t = "PUBLISH" /\ UNCHANGED <<read, taken>>
    BY <1>5 DEF Message
  <2>2. CASE p.kind = "short" /\ RxPush(p.n) /\ arrived' = Append(arrived, p.n) /\ UNCHANGED spoiled
    <3>1. InOrder' /\ read < p.n /\ p.n \in Nat
      BY <1>2, <1>3, <1>5, <2>1, <2>2, OrderPushed
    <3>2. PICK n \in Nat : n = p.n
      BY <3>1
    <3>3. /\ RingType' /\ Matches'
          /\ rx_count' + rx_lost' = rx_count + rx_lost + 1 /\ Len(arrived') = Len(arrived) + 1
      BY <1>3, <2>1, <2>2, <3>1, <3>2, Pushes
    <3>4. taken' + rx_count' + rx_lost' = Len(arrived') + spoiled'
      <4>1. rx_count' \in Nat /\ rx_lost' \in Nat
        BY <1>4, <3>3 DEF RingType
      <4>2. taken + rx_count + rx_lost = Len(arrived) + spoiled
        BY <1>3
      <4>3. /\ taken' = taken /\ spoiled' = spoiled
            /\ rx_count' + rx_lost' = rx_count + rx_lost + 1 /\ Len(arrived') = Len(arrived) + 1
        BY <2>1, <2>2, <3>3
      <4>4. PICK l \in Nat : l = Len(arrived)
        BY <1>4
      <4>5. /\ taken + rx_count + rx_lost = l + spoiled
            /\ taken \in Nat /\ rx_count \in Nat /\ rx_lost \in Nat /\ spoiled \in Nat
        BY <1>4, <4>2, <4>4
      <4>6. taken + rx_count' + rx_lost' = l + 1 + spoiled
        <5>1. PICK c \in Nat, d \in Nat : c = rx_count' /\ d = rx_lost'
          BY <4>1
        <5>2. c + d = rx_count + rx_lost + 1
          BY <4>3, <5>1
        <5>3. taken + c + d = l + 1 + spoiled
          BY <4>5, <5>2
        <5> QED
          BY <5>1, <5>3
      <4> QED
        BY <4>3, <4>4, <4>6
    <3> QED
      BY <3>1, <3>3, <3>4 DEF RingInv
  <2>3. CASE /\ rx_lost' = rx_lost + 1 /\ spoiled' = spoiled + 1
             /\ UNCHANGED <<rxq, rx_head, rx_count, arrived>>
    <3>1. InOrder'
      BY <1>2, <1>3, <1>5, <2>1, <2>3, OrderTaken
    <3>2. RingType' /\ Matches'
      BY <1>3, <2>1, <2>3 DEF RingType, Matches, Place
    <3>3. taken' + rx_count' + rx_lost' = Len(arrived') + spoiled'
      BY <1>3, <1>4, <2>1, <2>3
    <3> QED
      BY <3>1, <3>2, <3>3 DEF RingInv
  <2> QED
    BY <1>5, <2>2, <2>3 DEF Message
<1>6. CASE down' = Tail(down) /\ UNCHANGED ringVars
  <2>1. InOrder'
    BY <1>2, <1>3, <1>6, OrderTaken DEF ringVars
  <2> QED
    BY <1>6, <2>1, RingKept
<1>7. CASE MarkDown /\ UNCHANGED ringVars
  <2>1. down' = <<>>
    BY <1>7, Closes DEF MarkDown
  <2>2. InOrder'
    BY <1>2, <1>3, <1>7, <2>1, OrderDown DEF ringVars
  <2> QED
    BY <1>7, <2>2, RingKept
<1> QED
  BY <1>1, <1>5, <1>6, <1>7

\* The line is closed, or what comes stays as it is.
LEMMA RingStays ==
  ASSUME RingInv, down' \in {<<>>, down}, UNCHANGED <<ringVars, sent>>
  PROVE  RingInv'
<1>1. UNCHANGED <<arrived, read>> /\ InOrder
  BY DEF ringVars, RingInv
<1>2. InOrder'
  BY <1>1, OrderDown, OrderSame
<1> QED
  BY <1>2, RingKept

LEMMA RingOthers ==
  ASSUME RingInv,
         \/ DialFails \/ DialOpens \/ Accepted \/ NotAccepted
         \/ LoopDown \/ PingDue \/ Reconnect
         \/ CmdSub \/ SubFound \/ SubExpires \/ CmdUnsub
         \/ CmdPub \/ PubData \/ PubWait \/ Lost
  PROVE  RingInv'
<1>1. UNCHANGED <<ringVars, sent>>
  BY DEF DialFails, DialOpens, Accepted, NotAccepted, LoopDown, PingDue, Reconnect, CmdSub,
         SubFound, SubExpires, CmdUnsub, CmdPub, PubData, PubWait, Lost, brokerVars, clientVars
<1>2. down' \in {<<>>, down}
  <2>1. TcpClose => down' = <<>>
    BY DEF TcpClose
  <2>2. MarkDown => down' = <<>>
    BY <2>1 DEF MarkDown
  <2>3. \A q : Tx(q) => down' = down
    BY DEF Tx
  <2>4. ASSUME DialFails \/ NotAccepted \/ Reconnect PROVE down' = <<>>
    BY <2>1, <2>4 DEF DialFails, NotAccepted, Reconnect, AttemptFailed
  <2>5. DialOpens => down' = <<>>
    BY DEF DialOpens
  <2>6. Accepted => down' = down
    BY <2>3 DEF Accepted, lineVars
  <2>7. LoopDown \/ PingDue => down' \in {<<>>, down}
    BY <2>2, <2>3 DEF LoopDown, PingDue
  <2>8. CmdSub \/ CmdUnsub => down' \in {<<>>, down}
    BY <2>2, <2>3 DEF CmdSub, SubAnswered, SubSent, CmdUnsub, lineVars
  <2>9. SubFound \/ SubExpires \/ Lost => down' = down
    BY DEF SubFound, SubExpires, Lost, lineVars
  <2>10. \A p, n, i : Attempt(p, n, i) => down' \in {<<>>, down}
    BY <2>2, <2>3 DEF Attempt
  <2>11. \A p : PublishNow(p) => down' \in {<<>>, down}
    BY <2>10 DEF PublishNow
  <2>12. CmdPub \/ PubData => down' \in {<<>>, down}
    BY <2>11 DEF CmdPub, PubData, lineVars
  <2>13. PubWait => down' \in {<<>>, down}
    BY <2>10 DEF PubWait, PubFound, PubDown, PubExpires, lineVars
  <2> QED
    BY <2>4, <2>5, <2>6, <2>7, <2>8, <2>9, <2>12, <2>13
<1> QED
  BY <1>1, <1>2, RingStays

\* The messages of a session that is stopped count as taken.
LEMMA RingStop ==
  ASSUME RingInv, SessionStop, UNCHANGED sent
  PROVE  RingInv'
<1>1. /\ rx_head' = 0 /\ rx_count' = 0 /\ taken' = taken + rx_count
      /\ UNCHANGED <<rxq, rx_lost, arrived, spoiled, read>> /\ down' = <<>>
  BY Closes DEF SessionStop
<1>2. /\ RingType /\ Matches /\ InOrder /\ RxCap \in Nat \ {0}
      /\ taken + rx_count + rx_lost = Len(arrived) + spoiled
  BY MqttBounds DEF RingInv
<1>3. rx_count \in Nat /\ taken \in Nat /\ rx_lost \in Nat /\ Len(arrived) \in Nat
  BY <1>2, LenProperties DEF RingType
<1>4. RingType'
  BY <1>1, <1>2, <1>3 DEF RingType
<1>5. Matches'
  BY <1>1, <1>2, <1>3 DEF Matches
<1>6. InOrder'
  BY <1>1, <1>2, OrderDown
<1>7. taken' + rx_count' + rx_lost' = Len(arrived') + spoiled'
  BY <1>1, <1>2, <1>3
<1> QED
  BY <1>4, <1>5, <1>6, <1>7 DEF RingInv

LEMMA RingSession == ASSUME RingInv, CmdConnect \/ CmdClose PROVE RingInv'
<1>1. UNCHANGED sent
  BY DEF CmdConnect, CmdClose, brokerVars
<1>2. SessionStop \/ UNCHANGED <<ringVars, lineVars>>
  BY DEF CmdConnect, CmdClose
<1> QED
  BY <1>1, <1>2, RingStop, RingStays DEF lineVars

\* AT+MQTTRX: the message it delivers is older than what stays, and than what
\* comes.
LEMMA RingRx == ASSUME TypeInv, RingInv, CmdRx PROVE RingInv'
<1>1. UNCHANGED <<rxq, rx_lost, arrived, spoiled, down, sent>>
  BY DEF CmdRx, lineVars, brokerVars
<1>2. CASE UNCHANGED <<read, taken, rx_head, rx_count>>
  BY <1>1, <1>2, RingStays DEF ringVars
<1>3. CASE /\ rx_count > 0 /\ read' = rxq[rx_head] /\ taken' = taken + 1
           /\ rx_head' = (rx_head + 1) % RxCap /\ rx_count' = rx_count - 1
  <2>1. /\ RingType /\ Matches /\ InOrder /\ RxCap \in Nat \ {0}
        /\ taken + rx_count + rx_lost = Len(arrived) + spoiled
    BY MqttBounds DEF RingInv
  <2>2. /\ rx_count \in 1..RxCap /\ taken \in Nat /\ rx_lost \in Nat /\ Len(arrived) \in Nat
        /\ rx_head \in 0..(RxCap - 1) /\ spoiled \in Nat
        /\ rx_count <= Len(arrived)
    <3>1. /\ rx_count \in 0..RxCap /\ taken \in Nat /\ rx_lost \in Nat /\ arrived \in Seq(Nat)
          /\ rx_head \in 0..(RxCap - 1) /\ spoiled \in Nat /\ rx_count <= Len(arrived)
      BY <2>1 DEF RingType, Matches
    <3>2. Len(arrived) \in Nat
      BY <3>1, LenProperties
    <3>3. rx_count \in 1..RxCap
      BY <1>3, <2>1, <3>1
    <3> QED
      BY <3>1, <3>2, <3>3
  <2>3. PICK f \in 1..Len(arrived) : f = Len(arrived) - rx_count + 1
    <3>1. \A l, c \in Nat : c > 0 /\ c <= l => l - c + 1 \in 1..l
      OBVIOUS
    <3>2. rx_count \in Nat /\ rx_count > 0
      BY <2>1, <2>2
    <3> QED
      BY <2>2, <3>1, <3>2
  <2>4. Place(rx_head, 1) = rx_head
    <3>1. 1 \in 1..(RxCap + 1)
      BY <2>1
    <3>2. Place(rx_head, 1) = IF rx_head + 1 <= RxCap THEN rx_head + 1 - 1 ELSE rx_head + 1 - 1 - RxCap
      BY <2>2, <3>1, Places
    <3> QED
      BY <2>1, <2>2, <3>2
  <2>5. read' = arrived[f]
    <3>1. rxq[Place(rx_head, 1)] = arrived[Len(arrived) - rx_count + 1]
      BY <2>1, <2>2 DEF Matches
    <3> QED
      BY <1>3, <2>3, <2>4, <3>1
  <2>6. /\ rx_head' \in 0..(RxCap - 1)
        /\ \A i \in 1..RxCap : Place(rx_head', i) = Place(rx_head, i + 1)
    BY <1>3, <2>2, Shifted
  <2>7. read' \in Nat
    BY <2>1, <2>3, <2>5, ElementOfSeq DEF RingType
  <2>8. RingType'
    <3>1. rx_count' \in 0..RxCap /\ taken' \in Nat
      BY <1>3, <2>1, <2>2
    <3>2. rxq' \in [0..(RxCap - 1) -> Nat] /\ arrived' \in Seq(Nat) /\ rx_lost' \in Nat /\ spoiled' \in Nat
      BY <1>1, <2>1 DEF RingType
    <3> QED
      BY <2>6, <2>7, <3>1, <3>2 DEF RingType
  <2>9. ASSUME NEW i \in 1..rx_count'
        PROVE  /\ rxq[Place(rx_head', i)] = arrived[Len(arrived) - rx_count' + i]
               /\ read' < rxq[Place(rx_head', i)]
    <3>1. i \in 1..RxCap /\ i + 1 \in 1..rx_count
      <4>1. RxCap \in Nat /\ rx_count \in 1..RxCap /\ rx_count' = rx_count - 1
        BY <1>3, <2>1, <2>2
      <4> QED
        BY <2>9, <4>1
    <3>2. PICK k \in 1..rx_count : k = i + 1 /\ Place(rx_head', i) = Place(rx_head, k)
      BY <2>6, <3>1
    <3>3. rxq[Place(rx_head, k)] = arrived[Len(arrived) - rx_count + k]
      BY <2>1 DEF Matches
    <3>4. PICK g \in 1..Len(arrived) : g = Len(arrived) - rx_count + k /\ f < g
      <4>1. RxCap \in Nat /\ rx_count \in 1..RxCap /\ Len(arrived) \in Nat /\ rx_count <= Len(arrived)
        BY <2>1, <2>2
      <4>2. k \in 2..rx_count
        BY <3>1, <3>2, <4>1
      <4>3. Len(arrived) - rx_count + k \in 1..Len(arrived) /\ f < Len(arrived) - rx_count + k
        BY <2>3, <4>1, <4>2
      <4> QED
        BY <4>3
    <3>5. Len(arrived) - rx_count' + i = g
      BY <1>3, <2>2, <3>1, <3>2, <3>4
    <3>6. arrived[f] < arrived[g]
      BY <2>1, <3>4 DEF InOrder
    <3> QED
      BY <2>5, <3>2, <3>3, <3>4, <3>5, <3>6
  <2>10. rx_count' <= Len(arrived')
    BY <1>1, <1>3, <2>2
  <2>11. Matches'
    BY <1>1, <2>9, <2>10 DEF Matches
  <2>12. InOrder'
    <3>1. read' <= sent
      BY <2>1, <2>3, <2>5 DEF InOrder
    <3>2. ASSUME NEW i \in 1..Len(down), IsMessage(i) PROVE read' < down[i].n
      BY <2>1, <2>3, <2>5, <3>2 DEF InOrder
    <3> QED
      BY <1>1, <2>1, <3>1, <3>2 DEF InOrder, IsMessage
  <2>13. taken' + rx_count' + rx_lost' = Len(arrived') + spoiled'
    BY <1>1, <1>3, <2>1, <2>2
  <2> QED
    BY <2>8, <2>11, <2>12, <2>13 DEF RingInv
<1> QED
  BY <1>2, <1>3 DEF CmdRx

LEMMA RingTakes == ASSUME TypeInv, RingInv, BrokerTakes PROVE RingInv'
<1>1. UNCHANGED <<ringVars, sent>> /\ sent' \in Nat
  BY DEF BrokerTakes, clientVars, TypeInv
<1>2. down' = down \/ \E p \in FromBroker : p.t # "PUBLISH" /\ down' = Append(down, p)
  <2>1. up # <<>> /\ up \in Seq(ToBroker)
    BY DEF BrokerTakes, TypeInv
  <2>2. Head(up) \in ToBroker
    BY <2>1, Taken
  <2>3. /\ \A c \in Nat : [t |-> "CONNACK", rc |-> c] \in FromBroker
        /\ \A c \in Nat : [t |-> "SUBACK", rc |-> c] \in FromBroker
        /\ \A i \in Nat : [t |-> "PUBACK", id |-> i] \in FromBroker
        /\ [t |-> "PINGRESP"] \in FromBroker
    BY DEF FromBroker
  <2>4. Head(up).t = "PUBLISH" => Head(up).id \in Nat
    BY <2>2, SentFacts
  <2> QED
    BY <2>3, <2>4 DEF BrokerTakes, Reply
<1>3. CASE down' = down
  BY <1>1, <1>3, RingStays
<1>4. ASSUME NEW p \in FromBroker, p.t # "PUBLISH", down' = Append(down, p) PROVE RingInv'
  <2>1. RingType /\ InOrder /\ UNCHANGED <<arrived, read>>
    BY <1>1 DEF RingInv, ringVars
  <2>2. InOrder'
    BY <1>1, <1>4, <2>1, OrderSent
  <2> QED
    BY <1>1, <2>2, RingKept
<1> QED
  BY <1>2, <1>3, <1>4

LEMMA RingSends == ASSUME TypeInv, RingInv, BrokerSends PROVE RingInv'
<1>1. UNCHANGED ringVars /\ sent' = sent + 1 /\ sent' \in Nat
  BY DEF BrokerSends, clientVars, TypeInv
<1>2. PICK k \in Kinds :
        Reply(IF k[1] = "bad" THEN [t |-> "BAD"]
              ELSE [t |-> "PUBLISH", n |-> sent', kind |-> k[1], qos |-> k[2]])
  BY DEF BrokerSends
<1>3. k \in {"short", "long", "large", "bad"} \X {0, 1}
  BY MqttBounds
<1>4. k[1] \in {"short", "long", "large", "bad"} /\ k[2] \in {0, 1}
  BY <1>3
<1>5. PICK p \in FromBroker : down' = Append(down, p) /\ (p.t = "PUBLISH" => p.n = sent')
  <2>1. [t |-> "BAD"] \in FromBroker
    BY DEF FromBroker
  <2>2. CASE k[1] = "bad"
    BY <1>2, <2>1, <2>2 DEF Reply
  <2>3. CASE k[1] # "bad"
    <3>1. [t |-> "PUBLISH", n |-> sent', kind |-> k[1], qos |-> k[2]] \in FromBroker
      BY <1>1, <1>4, <2>3 DEF FromBroker
    <3> QED
      BY <1>2, <2>3, <3>1 DEF Reply
  <2> QED
    BY <2>2, <2>3
<1>6. RingType /\ InOrder /\ UNCHANGED <<arrived, read>>
  BY <1>1 DEF RingInv, ringVars
<1>7. InOrder'
  BY <1>1, <1>5, <1>6, OrderSent
<1> QED
  BY <1>1, <1>7, RingKept

LEMMA RingNext ==
  TypeInv /\ RingInv /\ [Next]_vars => RingInv'
<1> SUFFICES ASSUME TypeInv, RingInv, [Next]_vars PROVE RingInv'
  OBVIOUS
<1>1. CASE UNCHANGED vars
  BY <1>1, RingStays DEF vars, lineVars, brokerVars
<1> QED
  BY <1>1, RingPump, RingOthers, RingSession, RingRx, RingTakes, RingSends DEF Next

\* The ring holds the newest messages in their order, each is counted once, and
\* what AT+MQTTRX delivered is older than what waits: for every size of the ring
\* and however often it wraps (rx_push, AT+MQTTRX, session_stop).
THEOREM RingIsExact == Spec => []QueueExact
<1>1. Init => RingInv
  <2> SUFFICES ASSUME Init PROVE RingInv
    OBVIOUS
  <2>1. RxCap \in Nat \ {0} /\ <<>> \in Seq(Nat) /\ Len(<<>>) = 0
    BY MqttBounds, EmptySeq
  <2>2. RingType
    BY <2>1 DEF Init, RingType
  <2>3. Matches
    BY <2>1 DEF Init, Matches
  <2>4. Len(arrived) = 0 /\ Len(down) = 0 /\ sent = 0 /\ read = 0
    BY <2>1 DEF Init
  <2>5. InOrder
    BY <2>4 DEF InOrder
  <2>6. taken + rx_count + rx_lost = Len(arrived) + spoiled
    BY <2>1 DEF Init
  <2> QED
    BY <2>2, <2>3, <2>5, <2>6 DEF RingInv
<1>2. RingInv => QueueExact
  <2> SUFFICES ASSUME RingInv PROVE QueueExact
    OBVIOUS
  <2>1. /\ RingType /\ Matches /\ RxCap \in Nat
        /\ taken + rx_count + rx_lost = Len(arrived) + spoiled
    BY MqttBounds DEF RingInv
  <2>2. /\ rx_count \in Nat /\ Len(arrived) \in Nat /\ rx_count <= Len(arrived)
        /\ arrived \in Seq(Nat)
    BY <2>1, LenProperties DEF RingType, Matches
  <2>3. PICK f \in 1..(Len(arrived) + 1) : f = Len(arrived) - rx_count + 1
    <3>1. \A l, c \in Nat : c <= l => l - c + 1 \in 1..(l + 1)
      OBVIOUS
    <3> QED
      BY <2>2, <3>1
  <2>4. /\ Ring = [i \in 1..rx_count |-> rxq[Place(rx_head, i)]]
        /\ DOMAIN Ring = 1..rx_count
    BY DEF Ring, Place
  <2>5. \A i \in 1..rx_count : Ring[i] = arrived[f + i - 1] /\ read < Ring[i]
    <3> SUFFICES ASSUME NEW i \in 1..rx_count PROVE Ring[i] = arrived[f + i - 1] /\ read < Ring[i]
      OBVIOUS
    <3>1. Ring[i] = rxq[Place(rx_head, i)]
      BY <2>4
    <3>2. f + i - 1 = Len(arrived) - rx_count + i
      BY <2>2, <2>3
    <3>3. /\ rxq[Place(rx_head, i)] = arrived[Len(arrived) - rx_count + i]
          /\ read < rxq[Place(rx_head, i)]
      BY <2>1 DEF Matches
    <3> QED
      BY <3>1, <3>2, <3>3
  <2>6. SubSeq(arrived, f, Len(arrived)) = [i \in 1..rx_count |-> arrived[f + i - 1]]
    <3>1. Len(arrived) - f + 1 = rx_count
      BY <2>2, <2>3
    <3>2. SubSeq(arrived, f, Len(arrived)) = [i \in 1..(Len(arrived) - f + 1) |-> arrived[f + i - 1]]
      OBVIOUS
    <3> QED
      BY <3>1, <3>2
  <2>7. Ring = SubSeq(arrived, f, Len(arrived))
    BY <2>4, <2>5, <2>6
  <2> QED
    BY <2>1, <2>3, <2>4, <2>5, <2>7 DEF QueueExact
<1>3. TypeInv /\ RingInv /\ [Next]_vars => TypeInv' /\ RingInv'
  BY TypeNext, RingNext
<1> QED
  BY TypeInit, <1>1, <1>2, <1>3, PTL DEF Spec

-----------------------------------------------------------------------------
(* Publications, as long as the identifiers do not start again.            *)

LEMMA Within ==
  ASSUME NEW S, NEW s \in Seq(S)
  PROVE  /\ Elems(s) \subseteq S
         /\ \A x \in S : Elems(Append(s, x)) = Elems(s) \cup {x}
         /\ s # <<>> => Head(s) \in Elems(s) /\ Elems(Tail(s)) \subseteq Elems(s)
<1>1. Len(s) \in Nat /\ \A i \in 1..Len(s) : s[i] \in S
  BY LenProperties, ElementOfSeq
<1>2. Elems(s) \subseteq S
  BY <1>1 DEF Elems
<1>3. ASSUME NEW x \in S PROVE Elems(Append(s, x)) = Elems(s) \cup {x}
  <2>1. /\ Len(Append(s, x)) = Len(s) + 1
        /\ \A i \in 1..Len(s) : Append(s, x)[i] = s[i]
        /\ Append(s, x)[Len(s) + 1] = x
    BY Put
  <2>2. \A i : i \in 1..(Len(s) + 1) <=> i \in 1..Len(s) \/ i = Len(s) + 1
    BY <1>1
  <2>3. \A p : p \in Elems(Append(s, x)) <=> \E i \in 1..(Len(s) + 1) : p = Append(s, x)[i]
    BY <2>1 DEF Elems
  <2>4. \A p : p \in Elems(s) <=> \E i \in 1..Len(s) : p = s[i]
    BY DEF Elems
  <2> QED
    BY <2>1, <2>2, <2>3, <2>4
<1>4. ASSUME s # <<>> PROVE Head(s) \in Elems(s) /\ Elems(Tail(s)) \subseteq Elems(s)
  <2>1. /\ Len(s) > 0 /\ Head(s) = s[1] /\ Len(Tail(s)) = Len(s) - 1
        /\ \A i \in 1..(Len(s) - 1) : Tail(s)[i] = s[i + 1]
    BY <1>4, Taken
  <2>2. 1 \in 1..Len(s) /\ \A i \in 1..(Len(s) - 1) : i + 1 \in 1..Len(s)
    BY <1>1, <2>1
  <2> QED
    BY <2>1, <2>2 DEF Elems
<1> QED
  BY <1>2, <1>3, <1>4

LEMMA Nothing == Elems(<<>>) = {}
BY EmptySeq DEF Elems

\* Joined packets are old or new.
LEMMA Beyond ==
  ASSUME NEW S, NEW s \in Seq(S), NEW q \in Seq(S)
  PROVE  \A p \in Elems(s \o q) : p \in Elems(s) \/ p \in Elems(q)
<1>1. /\ Len(s) \in Nat /\ Len(q) \in Nat /\ Len(s \o q) = Len(s) + Len(q)
      /\ \A i \in 1..Len(s) : (s \o q)[i] = s[i]
      /\ \A i \in 1..Len(q) : (s \o q)[Len(s) + i] = q[i]
  BY Joined
<1> SUFFICES ASSUME NEW p \in Elems(s \o q) PROVE p \in Elems(s) \/ p \in Elems(q)
  OBVIOUS
<1>2. PICK i \in 1..(Len(s) + Len(q)) : p = (s \o q)[i]
  BY <1>1 DEF Elems
<1>3. CASE i \in 1..Len(s)
  BY <1>1, <1>2, <1>3 DEF Elems
<1>4. CASE i \notin 1..Len(s)
  <2>1. PICK j \in 1..Len(q) : i = Len(s) + j
    <3>1. i - Len(s) \in 1..Len(q) /\ i = Len(s) + (i - Len(s))
      BY <1>1, <1>4
    <3> QED
      BY <3>1
  <2> QED
    BY <1>1, <1>2, <2>1 DEF Elems
<1> QED
  BY <1>3, <1>4

LEMMA SentOne ==
  ASSUME TypeInv, NEW x \in ToBroker, Tx(<<x>>)
  PROVE  /\ \A p \in Elems(up') : p \in Elems(up) \/ p = x
         /\ down' = down
<1>1. <<x>> \in Seq(ToBroker) /\ \A p \in Elems(<<x>>) : p = x
  BY One DEF Elems
<1>2. down' = down /\ up' = IF alive THEN up \o <<x>> ELSE up
  BY <1>1, Sends
<1>3. \A p \in Elems(up \o <<x>>) : p \in Elems(up) \/ p = x
  BY <1>1, Beyond DEF TypeInv
<1> QED
  BY <1>2, <1>3

\* Nothing is asked for and no confirmation comes: what holds, holds.
LEMMA PubKept ==
  ASSUME TypeInv, PubInv, next_id <= next_id', next_id' \in Nat, acked_id' = acked_id,
         \A p \in Elems(down') : p.t = "PUBACK" => p \in Elems(down),
         \A p \in Elems(up') : Asks(p) => p \in Elems(up),
         stored \subseteq stored',
         busy' = busy \/ busy'.op # "puback",
         answer' \in {answer, 0}
  PROVE  PubInv'
<1>1. acked_id \in Nat /\ next_id \in Nat
  BY MqttBounds DEF TypeInv
<1>2. \A p \in Elems(down) : p.t = "PUBACK" => p.id \in Nat
  BY Within, CameFacts DEF TypeInv
<1>3. \A p \in Elems(up) : Asks(p) => p.id \in Nat
  BY Within, SentFacts DEF TypeInv, Asks
<1>4. acked_id' <= next_id'
  BY <1>1 DEF PubInv
<1>5. \A p \in Elems(down') : p.t = "PUBACK" => p.id <= next_id'
  <2>1. \A p \in Elems(down) : p.t = "PUBACK" => p.id <= next_id
    BY DEF PubInv
  <2> QED
    BY <1>1, <1>2, <2>1
<1>6. \A p \in Elems(up') : Asks(p) => p.id <= next_id'
  <2>1. \A p \in Elems(up) : Asks(p) => p.id <= next_id
    BY DEF PubInv
  <2> QED
    BY <1>1, <1>3, <2>1
<1>7. ASSUME busy'.op = "puback"
      PROVE  /\ busy'.id <= next_id'
             /\ acked_id' = busy'.id => busy'.p.m \in stored'
             /\ \A p \in Elems(down') : Confirms(p, busy'.id) => busy'.p.m \in stored'
             /\ \A p \in Elems(up') : Asks(p) /\ p.id = busy'.id => p.m = busy'.p.m
  <2>1. busy' = busy
    BY <1>7
  <2>2. busy.id \in Nat
    BY <1>7, <2>1, BusyFacts DEF TypeInv
  <2>3. busy.id <= next_id
    BY <1>7, <2>1 DEF PubInv
  <2>4. busy'.id <= next_id'
    BY <1>1, <2>1, <2>2, <2>3
  <2>5. acked_id' = busy'.id => busy'.p.m \in stored'
    BY <1>7, <2>1 DEF PubInv
  <2>6. \A p \in Elems(down') : Confirms(p, busy'.id) => busy'.p.m \in stored'
    BY <1>7, <2>1 DEF PubInv, Confirms
  <2>7. \A p \in Elems(up') : Asks(p) /\ p.id = busy'.id => p.m = busy'.p.m
    BY <1>7, <2>1 DEF PubInv
  <2> QED
    BY <2>4, <2>5, <2>6, <2>7
<1>8. answer' # 0 => answer' \in stored'
  BY DEF PubInv
<1> QED
  BY <1>4, <1>5, <1>6, <1>7, <1>8 DEF PubInv, Confirms

LEMMA PubPump ==
  ASSUME TypeInv, PubInv, Pump, next_id <= next_id', next_id' \in Nat PROVE PubInv'
<1>1. PICK p \in {Head(down)} :
        \/ /\ Message(p)
           /\ down' = Tail(down) /\ UNCHANGED <<state, tcp, alive>>
        \/ /\ Acked(p)
           /\ down' = Tail(down) /\ UNCHANGED <<state, tcp, alive, up, ringVars>>
        \/ /\ Broken(p) /\ MarkDown
           /\ UNCHANGED <<flagVars, ringVars>>
  BY DEF Pump
<1>2. UNCHANGED <<stored, busy, answer, next_id>>
  BY DEF Pump, brokerVars
<1>3. down \in Seq(FromBroker) /\ down # <<>> /\ p = Head(down)
  BY <1>1 DEF Pump, TypeInv
<1>4. p \in Elems(down) /\ Elems(Tail(down)) \subseteq Elems(down)
  BY <1>3, Within
<1>5. CASE Message(p) /\ down' = Tail(down)
  <2>1. up' \in {up, Append(up, Puback)} /\ acked_id' = acked_id
    BY <1>5 DEF Message, flagVars
  <2>2. up \in Seq(ToBroker) /\ Puback \in ToBroker /\ ~Asks(Puback)
    BY Packets DEF TypeInv, Asks, Puback
  <2>3. Elems(Append(up, Puback)) = Elems(up) \cup {Puback}
    BY <2>2, Within
  <2>4. \A q \in Elems(up') : Asks(q) => q \in Elems(up)
    BY <2>1, <2>2, <2>3
  <2> QED
    BY <1>2, <1>4, <1>5, <2>1, <2>4, PubKept
<1>6. CASE Acked(p) /\ down' = Tail(down) /\ up' = up
  <2>1. CASE p.t # "PUBACK"
    <3>1. acked_id' = acked_id
      BY <1>6, <2>1 DEF Acked
    <3> QED
      BY <1>2, <1>4, <1>6, <3>1, PubKept
  <2>2. CASE p.t = "PUBACK"
    <3>1. acked_id' = p.id
      BY <1>6, <2>2 DEF Acked
    <3>2. p.id <= next_id
      BY <1>4, <2>2 DEF PubInv
    <3>3. busy.op = "puback" /\ p.id = busy.id => busy.p.m \in stored
      BY <1>4, <2>2 DEF PubInv, Confirms
    <3> QED
      BY <1>2, <1>4, <1>6, <3>1, <3>2, <3>3 DEF PubInv, Confirms
  <2> QED
    BY <2>1, <2>2
<1>7. CASE MarkDown /\ UNCHANGED flagVars
  <2>1. Elems(down') = {} /\ Elems(up') = {} /\ acked_id' = acked_id
    BY <1>7, Closes, Nothing DEF MarkDown, flagVars
  <2> QED
    BY <1>2, <2>1, PubKept
<1> QED
  BY <1>1, <1>5, <1>6, <1>7

\* The line is closed.
LEMMA PubCloses ==
  ASSUME TypeInv, PubInv, TcpClose, next_id <= next_id', next_id' \in Nat,
         UNCHANGED <<acked_id, stored>>, busy' = busy \/ busy'.op # "puback",
         answer' \in {answer, 0}
  PROVE  PubInv'
<1>1. Elems(down') = {} /\ Elems(up') = {}
  BY Closes, Nothing
<1> QED
  BY <1>1, PubKept

\* A packet that asks for nothing is sent.
LEMMA PubTells ==
  ASSUME TypeInv, PubInv, NEW x \in ToBroker, ~Asks(x), Tx(<<x>>),
         next_id <= next_id', next_id' \in Nat, UNCHANGED <<acked_id, stored>>,
         busy' = busy \/ busy'.op # "puback", answer' \in {answer, 0}
  PROVE  PubInv'
<1>1. /\ \A p \in Elems(up') : p \in Elems(up) \/ p = x
      /\ down' = down
  BY SentOne
<1> QED
  BY <1>1, PubKept

\* The lines stay.
LEMMA PubStays ==
  ASSUME TypeInv, PubInv, UNCHANGED <<up, down>>,
         next_id <= next_id', next_id' \in Nat, UNCHANGED <<acked_id, stored>>,
         busy' = busy \/ busy'.op # "puback", answer' \in {answer, 0}
  PROVE  PubInv'
BY PubKept

LEMMA PubConnecting ==
  ASSUME TypeInv, PubInv, next_id <= next_id', next_id' \in Nat,
         DialFails \/ NotAccepted \/ DialOpens \/ Reconnect
  PROVE  PubInv'
<1>1. CASE DialFails \/ NotAccepted
  <2>1. AttemptFailed(busy) /\ UNCHANGED <<stored, acked_id>>
    BY <1>1 DEF DialFails, NotAccepted, brokerVars, flagVars
  <2>2. TcpClose /\ busy'.op # "puback"
    BY <2>1, IdleFacts DEF AttemptFailed
  <2>3. answer' \in {answer, 0}
    BY <1>1, <2>1 DEF DialFails, NotAccepted, AttemptFailed, Unanswered
  <2> QED
    BY <2>1, <2>2, <2>3, PubCloses
<1>2. CASE DialOpens
  <2>1. /\ UNCHANGED <<stored, acked_id, answer>> /\ up' = <<Connect>> /\ down' = <<>>
        /\ busy' = [busy EXCEPT !.op = "connack"] /\ busy.op = "dial"
    BY <1>2 DEF DialOpens
  <2>2. busy \in [op : {"dial", "connack"}, from : {"list", "loop"}, k : Nat]
    BY <2>1, BusyFacts DEF TypeInv
  <2>3. busy'.op # "puback"
    BY <2>1, <2>2
  <2>4. \A p \in Elems(up') : ~Asks(p)
    BY <2>1 DEF Elems, Asks, Connect
  <2> QED
    BY <2>1, <2>3, <2>4, Nothing, PubKept
<1>3. CASE Reconnect
  <2>1. TcpClose /\ UNCHANGED <<stored, acked_id, answer>> /\ busy'.op # "puback"
    BY <1>3 DEF Reconnect, brokerVars, flagVars
  <2> QED
    BY <2>1, PubCloses
<1> QED
  BY <1>1, <1>2, <1>3

\* The SUBSCRIBEs of a new session ask for no confirmation of a publication.
LEMMA PubAccepted ==
  ASSUME TypeInv, PubInv, next_id <= next_id', next_id' \in Nat, Accepted
  PROVE  PubInv'
<1>1. UNCHANGED <<stored, acked_id, answer>> /\ busy'.op # "puback"
  BY IdleFacts DEF Accepted, brokerVars, flagVars
<1>2. PICK used \in Ascending(UsedSlots) :
        /\ IF tcp THEN Tx(Resubscribe(used)) ELSE UNCHANGED lineVars
        /\ next_id' = NewId(Len(used))
  BY DEF Accepted
<1>3. CASE UNCHANGED lineVars
  BY <1>1, <1>3, PubStays DEF lineVars
<1>4. CASE Tx(Resubscribe(used))
  <2>1. PICK q \in Seq(ToBroker) : q = Resubscribe(used) /\ \A p \in Elems(q) : ~Asks(p)
    <3>1. /\ Resubscribe(used) \in Seq(ToBroker) /\ Len(Resubscribe(used)) = Len(used)
          /\ \A i \in 1..Len(used) : Resubscribe(used)[i] = Subscribe(subs[used[i]], NewId(i))
      BY Again
    <3>2. \A t, i : ~Asks(Subscribe(t, i))
      BY DEF Asks, Subscribe
    <3> QED
      BY <3>1, <3>2 DEF Elems
  <2>2. down' = down /\ up' = IF alive THEN up \o q ELSE up
    BY <1>4, <2>1, Sends
  <2>3. \A p \in Elems(up \o q) : p \in Elems(up) \/ p \in Elems(q)
    BY <2>1, Beyond DEF TypeInv
  <2>4. \A p \in Elems(up') : Asks(p) => p \in Elems(up)
    BY <2>1, <2>2, <2>3
  <2> QED
    BY <1>1, <2>2, <2>4, PubKept
<1> QED
  BY <1>2, <1>3, <1>4

LEMMA PubLoop ==
  ASSUME TypeInv, PubInv, next_id <= next_id', next_id' \in Nat, LoopDown \/ PingDue
  PROVE  PubInv'
<1>1. UNCHANGED <<stored, acked_id, answer, busy>>
  BY DEF LoopDown, PingDue, brokerVars, flagVars
<1>2. TcpClose \/ Tx(<<Pingreq>>)
  BY DEF LoopDown, PingDue, MarkDown
<1>3. Pingreq \in ToBroker /\ ~Asks(Pingreq)
  BY Packets DEF Pingreq, Asks
<1> QED
  BY <1>1, <1>2, <1>3, PubCloses, PubTells

LEMMA PubSession ==
  ASSUME TypeInv, PubInv, next_id <= next_id', next_id' \in Nat, CmdConnect \/ CmdClose
  PROVE  PubInv'
<1>1. UNCHANGED <<stored, acked_id>> /\ answer' = 0 /\ (busy' = busy \/ busy'.op # "puback")
  BY DEF CmdConnect, CmdClose, brokerVars, flagVars, Unanswered
<1>2. TcpClose \/ UNCHANGED <<up, down>>
  BY DEF CmdConnect, CmdClose, SessionStop, lineVars
<1> QED
  BY <1>1, <1>2, PubCloses, PubStays

LEMMA PubSubs ==
  ASSUME TypeInv, PubInv, next_id <= next_id', next_id' \in Nat,
         CmdSub \/ SubFound \/ SubExpires \/ CmdUnsub
  PROVE  PubInv'
<1>1. UNCHANGED <<stored, acked_id>> /\ answer' = 0
  BY DEF CmdSub, SubFound, SubExpires, CmdUnsub, brokerVars, flagVars, Unanswered, SubAnswered, SubSent
<1>2. busy' = busy \/ busy'.op # "puback"
  <2>1. CmdSub => busy' = busy \/ \E s, t : busy' = [op |-> "suback", slot |-> s, topic |-> t]
    BY DEF CmdSub, SubAnswered, SubSent
  <2>2. SubFound \/ SubExpires => busy' = Idle
    BY DEF SubFound, SubExpires
  <2>3. CmdUnsub => busy' = busy
    BY DEF CmdUnsub
  <2> QED
    BY <2>1, <2>2, <2>3, IdleFacts
<1>3. \/ TcpClose \/ UNCHANGED <<up, down>>
      \/ \E t \in Topics : Tx(<<Subscribe(t, next_id')>>) \/ Tx(<<Unsubscribe(t)>>)
  BY DEF CmdSub, SubFound, SubExpires, CmdUnsub, SubAnswered, SubSent, MarkDown, lineVars
<1>4. ASSUME NEW t \in Topics, Tx(<<Subscribe(t, next_id')>>) PROVE PubInv'
  <2>1. PICK x \in ToBroker : x = Subscribe(t, next_id')
    BY Packets
  <2>2. ~Asks(x) /\ Tx(<<x>>)
    BY <1>4, <2>1 DEF Asks, Subscribe
  <2> QED
    BY <1>1, <1>2, <2>2, PubTells
<1>5. ASSUME NEW t \in Topics, Tx(<<Unsubscribe(t)>>) PROVE PubInv'
  <2>1. Unsubscribe(t) \in ToBroker /\ ~Asks(Unsubscribe(t))
    BY Packets DEF Asks, Unsubscribe
  <2> QED
    BY <1>1, <1>2, <1>5, <2>1, PubTells
<1> QED
  BY <1>1, <1>2, <1>3, <1>4, <1>5, PubCloses, PubStays

\* An attempt: a new publication with a new identifier, or the awaited one again.
LEMMA PubAttempt ==
  ASSUME TypeInv, PubInv, NEW p \in Publications, NEW n, NEW i, i = next_id', Attempt(p, n, i),
         next_id <= next_id', next_id' \in Nat, UNCHANGED <<acked_id, stored>>,
         p.qos = 1 => next_id < next_id'
  PROVE  PubInv'
<1>1. CASE TcpClose /\ busy' = Idle /\ answer' = 0
  BY <1>1, IdleFacts, PubCloses
<1>2. CASE Tx(<<Publish(p.m, p.qos, i)>>) /\ answer' = 0
  <2>1. PICK x \in ToBroker : x = Publish(p.m, p.qos, i)
    BY Packets
  <2>2. Tx(<<x>>) /\ x.qos = p.qos /\ x.id = i /\ x.m = p.m
    BY <1>2, <2>1 DEF Publish
  <2>3. CASE p.qos = 0
    <3>1. busy' = Idle
      BY <1>2, <2>3, IdleFacts DEF Attempt
    <3>2. ~Asks(x)
      BY <2>2, <2>3 DEF Asks
    <3> QED
      BY <1>2, <2>2, <3>1, <3>2, IdleFacts, PubTells
  <2>4. CASE p.qos = 1
    <3>1. /\ \A q \in Elems(up') : q \in Elems(up) \/ q = x
          /\ down' = down
      BY <2>2, SentOne
    <3>2. busy' = [op |-> "puback", p |-> p, n |-> n, id |-> i] \/ busy' = Idle
      BY <2>4 DEF Attempt
    <3>3. next_id \in Nat /\ acked_id \in Nat /\ next_id < next_id'
      BY <2>4, MqttBounds DEF TypeInv
    <3>4. acked_id' < next_id'
      BY <3>3 DEF PubInv
    <3>5. \A q \in Elems(down) : q.t = "PUBACK" => q.id \in Nat /\ q.id <= next_id
      BY Within, CameFacts DEF TypeInv, PubInv
    <3>6. \A q \in Elems(up) : Asks(q) => q.id \in Nat /\ q.id <= next_id
      BY Within, SentFacts DEF TypeInv, PubInv, Asks
    <3>7. \A q \in Elems(down') : q.t = "PUBACK" => q.id < next_id'
      BY <3>1, <3>3, <3>5
    <3>8. \A q \in Elems(up') : Asks(q) => q.id < next_id' \/ q = x
      BY <3>1, <3>3, <3>6
    <3>9. \A a \in Nat : ~(a < a)
      OBVIOUS
    <3>10. \A q \in Elems(down') : q.t = "PUBACK" => q.id # next_id' /\ q.id <= next_id'
      BY <3>1, <3>5, <3>7, <3>9
    <3>11. \A q \in Elems(up') : Asks(q) => q.id <= next_id' /\ (q.id = next_id' => q = x)
      <4>1. ASSUME NEW q \in Elems(up'), Asks(q) PROVE q.id <= next_id' /\ (q.id = next_id' => q = x)
        <5>1. CASE q = x
          BY <2>2, <5>1
        <5>2. CASE q # x
          <6>1. q.id \in Nat /\ q.id < next_id'
            BY <3>1, <3>6, <3>8, <4>1, <5>2
          <6> QED
            BY <6>1
        <5> QED
          BY <5>1, <5>2
      <4> QED
        BY <4>1
    <3>12. acked_id' <= next_id' /\ acked_id' # next_id'
      BY <3>3, <3>4
    <3>13. CASE busy' = Idle
      BY <1>2, <3>10, <3>11, <3>12, <3>13, IdleFacts DEF PubInv
    <3>14. CASE busy' = [op |-> "puback", p |-> p, n |-> n, id |-> i]
      <4>1. busy'.id = next_id' /\ busy'.p = p
        BY <3>14
      <4>2. \A q \in Elems(up') : Asks(q) /\ q.id = busy'.id => q.m = busy'.p.m
        BY <2>2, <3>11, <4>1
      <4>3. \A q \in Elems(down') : ~Confirms(q, busy'.id)
        BY <3>10, <4>1 DEF Confirms
      <4> QED
        BY <1>2, <3>10, <3>11, <3>12, <4>1, <4>2, <4>3 DEF PubInv, Confirms
    <3> QED
      BY <3>2, <3>13, <3>14
  <2>5. p.qos \in {0, 1}
    BY DEF Publications
  <2> QED
    BY <2>3, <2>4, <2>5
<1> QED
  BY <1>1, <1>2 DEF Attempt, MarkDown, Unanswered

LEMMA PubNow ==
  ASSUME TypeInv, PubInv, NEW p \in Publications, PublishNow(p),
         next_id <= next_id', next_id' \in Nat, UNCHANGED <<acked_id, stored>>
  PROVE  PubInv'
<1>1. p.qos = 1 => next_id < next_id'
  <2>1. p.qos = 1 => next_id' = NewId(1)
    BY DEF PublishNow
  <2>2. next_id \in 1..MaxId /\ MaxId \in Nat /\ MaxId > 1
    BY MqttBounds DEF TypeInv
  <2>3. next_id < MaxId => NewId(1) = next_id + 1
    BY <2>2, Ids
  <2>4. next_id = MaxId => NewId(1) = 1
    BY <2>2, Ids
  <2>5. CASE next_id < MaxId
    BY <2>1, <2>2, <2>3, <2>5
  <2>6. CASE next_id = MaxId
    BY <2>1, <2>2, <2>4, <2>6
  <2>7. next_id < MaxId \/ next_id = MaxId
    BY <2>2
  <2> QED
    BY <2>5, <2>6, <2>7
<1>2. PICK n, i : Attempt(p, n, i) /\ i = next_id'
  BY DEF PublishNow
<1> QED
  BY <1>1, <1>2, PubAttempt

LEMMA PubPub ==
  ASSUME TypeInv, PubInv, next_id <= next_id', next_id' \in Nat, CmdPub \/ PubData
  PROVE  PubInv'
<1>1. UNCHANGED <<acked_id, stored>>
  BY DEF CmdPub, PubData, flagVars, brokerVars
<1>2. ASSUME NEW p \in Publications, PublishNow(p) PROVE PubInv'
  BY <1>1, <1>2, PubNow
<1>3. CASE answer' = 0 /\ UNCHANGED <<up, down, busy>>
  BY <1>1, <1>3, PubStays
<1>4. CASE CmdPub
  <2>1. PICK q \in {0, 1}, empty \in BOOLEAN :
          IF state # "up"
          THEN /\ Unanswered
               /\ UNCHANGED <<state, ping_out, lineVars, next_id, raw, busy>>
          ELSE IF empty
          THEN PublishNow([m |-> cmds + 1, qos |-> q]) /\ UNCHANGED raw
          ELSE /\ raw' = [m |-> cmds + 1, qos |-> q]
               /\ Unanswered /\ UNCHANGED <<state, ping_out, lineVars, next_id, busy>>
    BY <1>4 DEF CmdPub
  <2>2. [m |-> cmds + 1, qos |-> q] \in Publications
    BY DEF TypeInv, Publications
  <2>3. \/ PublishNow([m |-> cmds + 1, qos |-> q])
        \/ answer' = 0 /\ UNCHANGED <<up, down, busy>>
    BY <2>1 DEF Unanswered, lineVars
  <2> QED
    BY <1>2, <1>3, <2>2, <2>3
<1>5. CASE PubData
  <2>1. raw \in Publications
    BY DEF TypeInv
  <2>2. PublishNow(raw) \/ (answer' = 0 /\ UNCHANGED <<up, down, busy>>)
    BY <1>5 DEF PubData, Unanswered, lineVars
  <2> QED
    BY <1>2, <1>3, <2>1, <2>2
<1> QED
  BY <1>4, <1>5

\* publish_now waits: found, down, or over; the second attempt is the first's
\* publication with the first's identifier.
LEMMA PubWaits ==
  ASSUME TypeInv, PubInv, next_id <= next_id', next_id' \in Nat, PubWait
  PROVE  PubInv'
<1>1. UNCHANGED <<acked_id, stored>> /\ busy.op = "puback"
  BY DEF PubWait, PubFound, PubDown, PubExpires, flagVars, brokerVars
<1>2. CASE PubFound
  <2>1. busy' = Idle /\ UNCHANGED <<up, down>> /\ answer' = busy.p.m /\ acked_id = busy.id
    BY <1>2 DEF PubFound, lineVars
  <2>2. answer' \in stored'
    BY <1>1, <2>1 DEF PubInv
  <2>3. UNCHANGED next_id
    BY DEF PubWait
  <2> QED
    BY <1>1, <2>1, <2>2, <2>3, IdleFacts DEF PubInv
<1>3. CASE busy' = Idle /\ answer' = 0 /\ (TcpClose \/ UNCHANGED <<up, down>>)
  BY <1>1, <1>3, IdleFacts, PubCloses, PubStays
<1>4. CASE Tx(<<Publish(busy.p.m, busy.p.qos, busy.id)>>) /\ Attempt(busy.p, 2, busy.id) /\ answer' = 0
  <2>1. busy \in [op : {"puback"}, p : Publications, n : {1, 2}, id : Nat] /\ busy.p.qos = 1
    BY <1>1, BusyFacts DEF TypeInv
  <2>2. busy.p \in Publications /\ busy.id \in Nat
    BY <2>1
  <2>3. PICK x \in ToBroker : x = Publish(busy.p.m, busy.p.qos, busy.id)
    BY <2>2, Packets
  <2>4. x.id = busy.id /\ x.m = busy.p.m /\ Tx(<<x>>)
    BY <1>4, <2>3 DEF Publish
  <2>5. /\ \A q \in Elems(up') : q \in Elems(up) \/ q = x
        /\ down' = down
    BY <2>4, SentOne
  <2>6. \/ busy' = Idle
        \/ busy' = [op |-> "puback", p |-> busy.p, n |-> 2, id |-> busy.id]
    BY <2>1, <1>4 DEF Attempt
  <2>7. UNCHANGED next_id
    BY DEF PubWait
  <2>8. \A q \in Elems(up') : Asks(q) => q.id <= next_id' /\ (q.id = busy.id => q.m = busy.p.m)
    BY <1>1, <2>4, <2>5, <2>7 DEF PubInv
  <2>9. CASE busy' = Idle
    BY <1>1, <1>4, <2>5, <2>7, <2>8, <2>9, IdleFacts DEF PubInv
  <2>10. CASE busy' = [op |-> "puback", p |-> busy.p, n |-> 2, id |-> busy.id]
    <3>1. busy'.id = busy.id /\ busy'.p = busy.p
      BY <2>10
    <3>2. /\ busy'.id <= next_id'
          /\ acked_id' = busy'.id => busy'.p.m \in stored'
          /\ \A q \in Elems(down') : Confirms(q, busy'.id) => busy'.p.m \in stored'
          /\ \A q \in Elems(up') : Asks(q) /\ q.id = busy'.id => q.m = busy'.p.m
      BY <1>1, <2>5, <2>7, <2>8, <3>1 DEF PubInv, Confirms
    <3>3. /\ acked_id' <= next_id'
          /\ \A q \in Elems(down') : q.t = "PUBACK" => q.id <= next_id'
          /\ \A q \in Elems(up') : Asks(q) => q.id <= next_id'
      BY <1>1, <2>5, <2>7, <2>8 DEF PubInv
    <3> QED
      BY <1>4, <3>2, <3>3 DEF PubInv, Confirms
  <2> QED
    BY <2>6, <2>9, <2>10
<1>5. CASE PubDown
  BY <1>3, <1>5 DEF PubDown, Unanswered, lineVars
<1>6. CASE PubExpires
  <2>1. \/ Attempt(busy.p, 2, busy.id)
        \/ busy' = Idle /\ answer' = 0 /\ UNCHANGED <<up, down>>
    BY <1>6 DEF PubExpires, Unanswered, lineVars
  <2>2. Attempt(busy.p, 2, busy.id) =>
          \/ Tx(<<Publish(busy.p.m, busy.p.qos, busy.id)>>) /\ answer' = 0
          \/ busy' = Idle /\ answer' = 0 /\ TcpClose
    BY DEF Attempt, Unanswered, MarkDown
  <2> QED
    BY <1>3, <1>4, <2>1, <2>2
<1> QED
  BY <1>2, <1>5, <1>6 DEF PubWait

\* The broker confirms the publication it has just stored.
LEMMA PubTakes ==
  ASSUME TypeInv, PubInv, next_id <= next_id', next_id' \in Nat, BrokerTakes
  PROVE  PubInv'
<1>1. up # <<>> /\ up \in Seq(ToBroker) /\ down \in Seq(FromBroker)
  BY DEF BrokerTakes, TypeInv
<1>2. UNCHANGED <<acked_id, busy, answer, next_id>> /\ up' = Tail(up)
  BY DEF BrokerTakes, clientVars, flagVars
<1>3. Head(up) \in Elems(up) /\ Elems(up') \subseteq Elems(up) /\ Head(up) \in ToBroker
  BY <1>1, <1>2, Within, Taken
<1>4. \/ stored' = stored /\ down' = down
      \/ \E y \in FromBroker : stored' = stored /\ down' = Append(down, y) /\ y.t # "PUBACK"
      \/ /\ Head(up).t = "PUBLISH" /\ stored' = stored \cup {Head(up).m}
         /\ IF Head(up).qos = 1 THEN Reply([t |-> "PUBACK", id |-> Head(up).id]) ELSE UNCHANGED down
  <2>1. /\ \A c \in Nat : [t |-> "CONNACK", rc |-> c] \in FromBroker
        /\ \A c \in Nat : [t |-> "SUBACK", rc |-> c] \in FromBroker
        /\ [t |-> "PINGRESP"] \in FromBroker
    BY DEF FromBroker
  <2> QED
    BY <2>1 DEF BrokerTakes, Reply
<1>5. CASE stored' = stored /\ down' = down
  BY <1>2, <1>3, <1>5, PubKept
<1>6. ASSUME NEW y \in FromBroker, stored' = stored, down' = Append(down, y), y.t # "PUBACK"
      PROVE  PubInv'
  <2>1. Elems(down') = Elems(down) \cup {y}
    BY <1>1, <1>6, Within
  <2> QED
    BY <1>2, <1>3, <1>6, <2>1, PubKept
<1>7. ASSUME Head(up).t = "PUBLISH", stored' = stored \cup {Head(up).m},
             IF Head(up).qos = 1 THEN Reply([t |-> "PUBACK", id |-> Head(up).id]) ELSE UNCHANGED down
      PROVE  PubInv'
  <2>1. CASE down' = down
    <3>1. stored \subseteq stored'
      BY <1>7
    <3> QED
      BY <1>2, <1>3, <2>1, <3>1, PubKept
  <2>2. CASE Head(up).qos = 1 /\ down' = Append(down, [t |-> "PUBACK", id |-> Head(up).id])
    <3>1. Asks(Head(up)) /\ Head(up).id \in Nat
      BY <1>3, <1>7, <2>2, SentFacts DEF Asks
    <3>2. PICK y \in FromBroker : y = [t |-> "PUBACK", id |-> Head(up).id]
      <4>1. \A i \in Nat : [t |-> "PUBACK", id |-> i] \in FromBroker
        BY DEF FromBroker
      <4> QED
        BY <3>1, <4>1
    <3>3. Elems(down') = Elems(down) \cup {y}
      BY <1>1, <2>2, <3>2, Within
    <3>4. y.id <= next_id
      BY <1>3, <3>1, <3>2 DEF PubInv
    <3>5. busy.op = "puback" /\ y.id = busy.id => Head(up).m = busy.p.m
      BY <1>3, <3>1, <3>2 DEF PubInv
    <3>6. \A q \in Elems(down') : q.t = "PUBACK" => q.id <= next_id'
      BY <1>2, <3>3, <3>4 DEF PubInv
    <3>7. busy.op = "puback" => \A q \in Elems(down') : Confirms(q, busy.id) => busy.p.m \in stored'
      BY <1>7, <3>3, <3>5 DEF PubInv, Confirms
    <3>8. stored \subseteq stored'
      BY <1>7
    <3> QED
      BY <1>2, <1>3, <3>6, <3>7, <3>8 DEF PubInv, Confirms
  <2> QED
    BY <1>7, <2>1, <2>2 DEF Reply
<1> QED
  BY <1>4, <1>5, <1>6, <1>7

LEMMA PubSends ==
  ASSUME TypeInv, PubInv, next_id <= next_id', next_id' \in Nat, BrokerSends
  PROVE  PubInv'
<1>1. UNCHANGED <<stored, acked_id, busy, answer, up>> /\ sent' \in Nat
  BY DEF BrokerSends, clientVars, flagVars, TypeInv
<1>2. PICK k \in Kinds :
        Reply(IF k[1] = "bad" THEN [t |-> "BAD"]
              ELSE [t |-> "PUBLISH", n |-> sent', kind |-> k[1], qos |-> k[2]])
  BY DEF BrokerSends
<1>3. k \in {"short", "long", "large", "bad"} \X {0, 1}
  BY MqttBounds
<1>4. k[1] \in {"short", "long", "large", "bad"} /\ k[2] \in {0, 1}
  BY <1>3
<1>5. PICK y \in FromBroker : down' = Append(down, y) /\ y.t # "PUBACK"
  <2>1. [t |-> "BAD"] \in FromBroker
    BY DEF FromBroker
  <2>2. CASE k[1] = "bad"
    BY <1>2, <2>1, <2>2 DEF Reply
  <2>3. CASE k[1] # "bad"
    <3>1. [t |-> "PUBLISH", n |-> sent', kind |-> k[1], qos |-> k[2]] \in FromBroker
      BY <1>1, <1>4, <2>3 DEF FromBroker
    <3> QED
      BY <1>2, <2>3, <3>1 DEF Reply
  <2> QED
    BY <2>2, <2>3
<1>6. Elems(down') = Elems(down) \cup {y}
  BY <1>5, Within DEF TypeInv
<1> QED
  BY <1>1, <1>5, <1>6, PubKept

LEMMA PubOthers ==
  ASSUME TypeInv, PubInv, next_id <= next_id', next_id' \in Nat, CmdRx \/ Lost
  PROVE  PubInv'
<1>1. UNCHANGED <<stored, acked_id, busy>> /\ answer' \in {answer, 0}
  BY DEF CmdRx, Lost, clientVars, flagVars, brokerVars, Unanswered
<1>2. down' = down /\ up' \in {up, <<>>}
  BY DEF CmdRx, Lost, lineVars
<1> QED
  BY <1>1, <1>2, Nothing, PubKept

\* The identifiers do not start again in this step.
Onward == next_id <= next_id'

LEMMA PubNext ==
  TypeInv /\ TypeInv' /\ PubInv /\ [Next]_vars /\ [Onward]_vars => PubInv'
<1> SUFFICES ASSUME TypeInv, TypeInv', PubInv, [Next]_vars, [Onward]_vars PROVE PubInv'
  OBVIOUS
<1>1. CASE UNCHANGED vars
  <2>1. UNCHANGED <<acked_id, next_id, up, down, stored, busy, answer>>
    BY <1>1 DEF vars, flagVars, lineVars, brokerVars
  <2> QED
    BY <2>1 DEF PubInv, Confirms
<1>2. CASE Next /\ Onward
  <2>1. next_id <= next_id' /\ next_id' \in Nat
    BY <1>2, MqttBounds DEF Onward, TypeInv
  <2> QED
    BY <1>2, <2>1, PubPump, PubConnecting, PubAccepted, PubLoop, PubSession, PubSubs, PubPub,
       PubWaits, PubTakes, PubSends, PubOthers DEF Next
<1> QED
  BY <1>1, <1>2

\* As long as the identifiers of the session do not start again (65,535 of
\* them), a QoS 1 publication that was answered OK has reached the broker,
\* whatever other confirmations came late or again and whatever sessions ended
\* meanwhile (publish_now, handle_packet).
THEOREM ConfirmedIsStored == Spec /\ [][Onward]_vars => []Published
<1>1. Init => PubInv
  <2> SUFFICES ASSUME Init PROVE PubInv
    OBVIOUS
  <2>1. /\ acked_id = 0 /\ next_id = 1 /\ answer = 0 /\ busy.op = "idle"
        /\ Elems(up) = {} /\ Elems(down) = {}
    BY Nothing, IdleFacts DEF Init
  <2> QED
    BY <2>1 DEF PubInv
<1>2. PubInv => Published
  BY DEF PubInv, Published
<1>3. TypeInv /\ [Next]_vars => TypeInv'
  BY TypeNext
<1>4. TypeInv /\ TypeInv' /\ PubInv /\ [Next]_vars /\ [Onward]_vars => PubInv'
  BY PubNext
<1> QED
  BY TypeInit, <1>1, <1>2, <1>3, <1>4, PTL DEF Spec

================================================================
