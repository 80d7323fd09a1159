------------------------------ MODULE MqttClient ------------------------------
(***************************************************************************)
(* The MQTT client of the ESP32 (NET_MQTT.cpp, mqtt_codec.h): one session, *)
(* the subscriptions it keeps, the ring of received messages that the Z80  *)
(* empties with AT+MQTTRX, publications with two attempts, the ping and    *)
(* the reconnection.                                                       *)
(*                                                                         *)
(* A command that waits for a packet holds the whole loop: busy says what  *)
(* for.  Meanwhile only pump_input runs.  A packet is a record; a timeout  *)
(* may expire at any moment at which what it waits for has not come; the   *)
(* lengths of the back-off are left out, a retry may come at any moment.   *)
(* The broker is external: it takes packets in order and answers each, and *)
(* the connection may end between any two steps.                           *)
(***************************************************************************)
EXTENDS Naturals, Sequences, FiniteSets

CONSTANTS
  Lists,        \* the lists of brokers: /SYS/NET.CFG's, and one of AT+MQTT=host
  Reliable,     \* the brokers that open, and accept in time (an assumption about
                \* the network that only liveness needs: the others may do anything)
  Topics,
  Subs,         \* the slots: 1..MQ_SUBS
  RxCap,        \* MQ_RXQ
  MaxId,        \* the last identifier before they start again
  Kinds,        \* of messages, with their QoS: "short" fits the ring, "long" exceeds
                \* MQ_TOPIC or MQ_PAYLOAD, "large" MAXBODY, "bad" has no length
  LineCap,      \* packets of the broker on their way
  MaxMsgs,      \* messages the broker sends,
  MaxCmds,      \* commands the Z80 gives in a session,
  MaxEvents,    \* messages and commands together, and
  MaxFalls      \* connections lost (these bound the model)

ASSUME MqttBounds ==
  /\ Lists # {} /\ \A l \in Lists : l # <<>>
  /\ IsFiniteSet(Subs) /\ Subs = 1..Cardinality(Subs)
  /\ RxCap \in Nat \ {0} /\ MaxId \in Nat \ {0, 1}
  /\ Kinds \subseteq {"short", "long", "large", "bad"} \X {0, 1}

VARIABLES
  state,        \* "off", "connecting", "up" or "reconnect"
  list, list_idx, last_good,
  subs,         \* slot -> topic, or Free
  rxq, rx_head, rx_count, rx_lost,
  ping_out, next_id, acked_id,
  got_connack, got_suback,      \* the return code, or NoCode
  raw,          \* the publication whose data is awaited, or NoRaw
  busy,         \* what the loop is held by
  tcp,          \* the socket object is set
  alive,        \* and its connection is there
  up, down,     \* packets to the broker, and from it
  granted,      \* topics the broker has for this connection,
  refused,      \* and those it has refused
  stored,       \* publications it has taken
  answer,       \* the publication, if the last command was one of QoS 1 and was
                \* answered OK; else 0
  arrived,      \* messages that came and fit the ring, as the broker numbers them
  spoiled,      \* how many did not fit
  read,         \* the last message AT+MQTTRX has delivered
  taken,        \* how many it has, or were thrown away with their session
  sent, cmds, falls     \* counters for the bounds

sessionVars == <<list, list_idx, last_good, subs>>
ringVars == <<rxq, rx_head, rx_count, rx_lost, arrived, spoiled, read, taken>>
flagVars == <<acked_id, got_connack, got_suback>>
lineVars == <<tcp, alive, up, down>>
brokerVars == <<granted, refused, stored, sent>>
vars == <<state, sessionVars, ringVars, flagVars, lineVars, brokerVars,
          ping_out, next_id, raw, busy, answer, cmds, falls>>

Free == "free"
NoCode == 999
NoRaw == [m |-> 0, qos |-> 0]
Idle == [op |-> "idle"]

Init ==
  /\ state = "off" /\ list \in Lists /\ list_idx = 1 /\ last_good = 1
  /\ subs = [s \in Subs |-> Free]
  /\ rxq = [i \in 0..(RxCap - 1) |-> 0] /\ rx_head = 0 /\ rx_count = 0 /\ rx_lost = 0
  /\ ping_out = FALSE /\ next_id = 1 /\ acked_id = 0
  /\ got_connack = NoCode /\ got_suback = NoCode
  /\ raw = NoRaw /\ busy = Idle
  /\ tcp = FALSE /\ alive = FALSE /\ up = <<>> /\ down = <<>>
  /\ granted = {} /\ stored = {} /\ refused = {}
  /\ answer = 0
  /\ arrived = <<>> /\ spoiled = 0 /\ read = 0 /\ taken = 0
  /\ sent = 0 /\ cmds = 0 /\ falls = 0

-----------------------------------------------------------------------------
(* The socket.                                                             *)

\* new_id, called k times.
NewId(k) == ((next_id - 1 + k) % MaxId) + 1

\* tcp_close.  What the broker has taken it keeps; what was on its way is lost.
TcpClose == tcp' = FALSE /\ alive' = FALSE /\ up' = <<>> /\ down' = <<>>

\* tx that returns true: on a connection that has ended the bytes are lost.
Tx(packets) ==
  /\ tcp /\ up' = IF alive THEN up \o packets ELSE up
  /\ UNCHANGED <<tcp, alive, down>>
TxMayFail == ~tcp \/ ~alive

\* connected() of the socket: what has come may still be read.
Connected == tcp /\ (alive \/ down # <<>>)

\* mark_down.
MarkDown ==
  /\ TcpClose /\ ping_out' = FALSE
  /\ state' = IF state = "up" THEN "reconnect" ELSE state

\* The answers of the other commands are left out.
Unanswered == answer' = 0

\* Packets of ours; the headers and options they carry are left out.
Connect == [t |-> "CONNECT"]
Puback == [t |-> "PUBACK"]
Pingreq == [t |-> "PINGREQ"]
Unsubscribe(t) == [t |-> "UNSUBSCRIBE", topic |-> t]
Subscribe(t, i) == [t |-> "SUBSCRIBE", topic |-> t, id |-> i]
Publish(m, q, i) == [t |-> "PUBLISH", m |-> m, qos |-> q, id |-> i]

-----------------------------------------------------------------------------
(* Packets that come.                                                      *)

\* rx_push of a message that fits: when the ring is full the oldest is lost.
MRxPush(n) ==
  /\ IF rx_count = RxCap
     THEN rx_lost' = rx_lost + 1 /\ UNCHANGED <<rx_head, rx_count>>
     ELSE rx_count' = rx_count + 1 /\ UNCHANGED <<rx_head, rx_lost>>
  /\ rxq' = [rxq EXCEPT ![(rx_head + rx_count) % RxCap] = n]
RxPush(n) ==
  /\ IF rx_count = RxCap
     THEN rx_head' = (rx_head + 1) % RxCap /\ rx_lost' = rx_lost + 1 /\ UNCHANGED rx_count
     ELSE rx_count' = rx_count + 1 /\ UNCHANGED <<rx_head, rx_lost>>
  /\ rxq' = [rxq EXCEPT ![(rx_head + rx_count) % RxCap] = n]

\* Parser.feed and finish: a packet whose length has a fifth byte is not a packet
\* (BAD), one larger than MAXBODY is skipped whole (DROPPED), others are parsed.
Broken(p) == p.t = "BAD"
Parsed(p) == p.kind # "large"

\* handle_packet: a message.  One with QoS 1 is confirmed, fit or not, unless
\* the parser has dropped it.
Message(p) ==
  /\ p.t = "PUBLISH"
  /\ \/ /\ p.kind = "short" /\ RxPush(p.n)
        /\ arrived' = Append(arrived, p.n) /\ UNCHANGED spoiled
     \/ /\ p.kind # "short" /\ rx_lost' = rx_lost + 1 /\ spoiled' = spoiled + 1
        /\ UNCHANGED <<rxq, rx_head, rx_count, arrived>>
  /\ up' = IF Parsed(p) /\ p.qos = 1 /\ alive THEN Append(up, Puback) ELSE up
  /\ UNCHANGED <<read, taken, flagVars, ping_out>>

\* handle_packet: an answer to one of ours.
MAcked(p) ==
  /\ p.t \in {"CONNACK", "SUBACK", "PUBACK", "PINGRESP"}
  /\ got_connack' = IF p.t = "CONNACK" THEN p.rc ELSE got_connack
  /\ got_suback' = IF p.t = "SUBACK" THEN p.rc ELSE got_suback
  /\ acked_id' = IF p.t = "PUBACK" THEN next_id ELSE acked_id
  /\ ping_out' = IF p.t = "PINGRESP" THEN FALSE ELSE ping_out
Acked(p) ==
  /\ p.t \in {"CONNACK", "SUBACK", "PUBACK", "PINGRESP"}
  /\ got_connack' = IF p.t = "CONNACK" THEN p.rc ELSE got_connack
  /\ got_suback' = IF p.t = "SUBACK" THEN p.rc ELSE got_suback
  /\ acked_id' = IF p.t = "PUBACK" THEN p.id ELSE acked_id
  /\ ping_out' = IF p.t = "PINGRESP" THEN FALSE ELSE ping_out

\* pump_input, a packet at a time: from net_mqtt_loop, or from a wait.
Pump ==
  /\ tcp /\ down # <<>>
  /\ busy.op \in {"connack", "suback", "puback"} \/ (busy = Idle /\ state = "up")
  /\ \E p \in {Head(down)} :
       \/ /\ Message(p)
          /\ down' = Tail(down) /\ UNCHANGED <<state, tcp, alive>>
       \/ /\ Acked(p)
          /\ down' = Tail(down) /\ UNCHANGED <<state, tcp, alive, up, ringVars>>
       \/ /\ Broken(p) /\ MarkDown
          /\ UNCHANGED <<flagVars, ringVars>>
  /\ UNCHANGED <<sessionVars, next_id, raw, busy, brokerVars, answer, cmds, falls>>

-----------------------------------------------------------------------------
(* Connecting.                                                             *)

Position(i) == ((i - 1) % Len(list)) + 1

\* tcp_open fails, or the connection does not become a session: connect_list
\* goes on with the next broker, net_mqtt_loop leaves it for its next turn.
MAttemptFailed(b) ==
  /\ TcpClose
  /\ \/ /\ b.from = "list" /\ b.k + 1 < Len(list)
        /\ busy' = [op |-> "dial", from |-> "list", k |-> b.k + 1]
        /\ list_idx' = Position(last_good + b.k + 1) /\ UNCHANGED <<state, answer>>
     \/ /\ b.from = "list" /\ b.k + 1 = Len(list)
        /\ busy' = Idle /\ state' = "off" /\ UNCHANGED <<list_idx, answer>>
     \/ /\ b.from = "loop" /\ busy' = Idle
        /\ UNCHANGED <<state, answer, list_idx>>
AttemptFailed(b) ==
  /\ TcpClose
  /\ \/ /\ b.from = "list" /\ b.k + 1 < Len(list)
        /\ busy' = [op |-> "dial", from |-> "list", k |-> b.k + 1]
        /\ list_idx' = Position(last_good + b.k + 1) /\ UNCHANGED <<state, answer>>
     \/ /\ b.from = "list" /\ b.k + 1 = Len(list)
        /\ busy' = Idle /\ state' = "off" /\ UNCHANGED <<list_idx, answer>>
     \/ /\ b.from = "loop" /\ busy' = Idle
        /\ list_idx' = Position(list_idx + 1) /\ UNCHANGED <<state, answer>>

Unreliable == list[list_idx] \notin Reliable

DialFails ==
  /\ busy.op = "dial" /\ Unreliable /\ AttemptFailed(busy)
  /\ UNCHANGED <<last_good, list, subs, ringVars, flagVars, brokerVars,
                 ping_out, next_id, raw, cmds, falls>>

\* session_connect, up to the wait for CONNACK.
DialOpens ==
  /\ busy.op = "dial"
  /\ tcp' = TRUE /\ alive' = TRUE /\ up' = <<Connect>> /\ down' = <<>>
  /\ granted' = {} /\ refused' = {}
  /\ got_connack' = NoCode
  /\ busy' = [busy EXCEPT !.op = "connack"]
  /\ UNCHANGED <<state, sessionVars, ringVars, acked_id, got_suback, stored, sent,
                 ping_out, next_id, raw, answer, cmds, falls>>

\* The subscriptions in use, in the order of their slots, with new identifiers.
UsedSlots == {s \in Subs : subs[s] # Free}
Ascending(S) ==
  {q \in [1..Cardinality(S) -> S] :
     /\ \A s \in S : \E i \in DOMAIN q : q[i] = s
     /\ \A i, j \in DOMAIN q : i < j => q[i] < q[j]}
MResubscribe(used) == <<>>
Resubscribe(used) ==
  [i \in 1..Len(used) |-> Subscribe(subs[used[i]], NewId(i))]

\* session_connect goes on: the broker has accepted.
Accepted ==
  /\ busy.op = "connack" /\ got_connack = 0
  /\ state' = "up" /\ ping_out' = FALSE /\ busy' = Idle
  /\ \E used \in Ascending(UsedSlots) :
       /\ IF tcp THEN Tx(Resubscribe(used)) ELSE UNCHANGED lineVars
       /\ next_id' = NewId(Len(used))
  /\ IF busy.from = "list"
     THEN last_good' = list_idx
     ELSE UNCHANGED last_good
  /\ UNCHANGED <<answer, list, list_idx, subs, ringVars, flagVars, brokerVars, raw, cmds, falls>>

\* No CONNACK in time, the connection ended, or the broker refuses.
NotAccepted ==
  /\ busy.op = "connack" /\ got_connack # 0 /\ (Unreliable \/ ~Connected)
  /\ AttemptFailed(busy)
  /\ UNCHANGED <<last_good, list, subs, ringVars, flagVars, brokerVars,
                 ping_out, next_id, raw, cmds, falls>>

-----------------------------------------------------------------------------
(* net_mqtt_loop.                                                          *)

InLoop == busy = Idle

\* The connection has ended, or a ping has no answer (15 s).
LoopDown ==
  /\ InLoop /\ state = "up" /\ (~Connected \/ (ping_out /\ falls < MaxFalls))
  /\ falls' = IF Connected THEN falls + 1 ELSE falls
  /\ MarkDown
  /\ UNCHANGED <<sessionVars, ringVars, flagVars, brokerVars, next_id, raw, busy,
                 answer, cmds>>

\* 30 s without a packet of ours.
PingDue ==
  /\ InLoop /\ state = "up" /\ Connected /\ ~ping_out
  /\ \/ Tx(<<Pingreq>>) /\ ping_out' = TRUE /\ UNCHANGED state
     \/ TxMayFail /\ MarkDown
  /\ UNCHANGED <<sessionVars, ringVars, flagVars, brokerVars, next_id, raw, busy,
                 answer, cmds, falls>>

\* next_try has come.
Reconnect ==
  /\ InLoop /\ state = "reconnect"
  /\ TcpClose /\ busy' = [op |-> "dial", from |-> "loop", k |-> 0]
  /\ UNCHANGED <<state, sessionVars, ringVars, flagVars, brokerVars, ping_out,
                 next_id, raw, answer, cmds, falls>>

-----------------------------------------------------------------------------
(* The commands.                                                           *)

Command ==
  /\ InLoop /\ raw = NoRaw
  /\ cmds < MaxCmds /\ cmds + sent < MaxEvents /\ cmds' = cmds + 1

\* session_stop: DISCONNECT, and the subscriptions and messages are forgotten.
SessionStop ==
  /\ TcpClose
  /\ subs' = [s \in Subs |-> Free]
  /\ rx_head' = 0 /\ rx_count' = 0 /\ taken' = taken + rx_count
  /\ UNCHANGED <<rxq, rx_lost, arrived, spoiled, read>>

\* AT+MQTT and AT+MQTT=...: wrong arguments are noticed after the old session
\* has been stopped.
CmdConnect ==
  /\ IF state = "off" THEN InLoop /\ raw = NoRaw /\ UNCHANGED cmds ELSE Command
  /\ IF state = "off" THEN UNCHANGED <<subs, ringVars, lineVars>> ELSE SessionStop
  /\ \/ \E l \in Lists, host \in BOOLEAN :
          /\ host => Len(l) = 1
          /\ list' = l /\ state' = "connecting"
          /\ last_good' = IF host \/ last_good > Len(l) THEN 1 ELSE last_good
          /\ list_idx' = last_good'
          /\ busy' = [op |-> "dial", from |-> "list", k |-> 0]
     \/ /\ state' = "off"
        /\ UNCHANGED <<list, last_good, list_idx, busy>>
  /\ Unanswered
  /\ UNCHANGED <<flagVars, brokerVars, ping_out, next_id, raw, falls>>

\* AT+MQTTCLOSE and ATZ.
CmdClose ==
  /\ Command /\ SessionStop /\ state' = "off" /\ Unanswered
  /\ UNCHANGED <<list, list_idx, last_good, flagVars, brokerVars, ping_out,
                 next_id, raw, busy, falls>>

\* The slot of a topic, or the first that is free, or none.
First(S) == {s \in S : \A r \in S : s <= r}
SlotFor(t) ==
  IF t \in {subs[s] : s \in Subs} THEN {s \in Subs : subs[s] = t}
  ELSE First({s \in Subs : subs[s] = Free})

\* AT+MQTTSUB: without a session, or with every slot taken, an ERROR; while
\* reconnecting it is only noted.
SubAnswered(t) ==
  /\ \/ state = "off" /\ Unanswered /\ UNCHANGED subs
     \/ /\ state \in {"up", "reconnect"} /\ SlotFor(t) = {}
        /\ Unanswered /\ UNCHANGED subs
     \/ /\ state = "reconnect"
        /\ \E s \in SlotFor(t) : subs' = [subs EXCEPT ![s] = t]
        /\ Unanswered
  /\ UNCHANGED <<state, ping_out, lineVars, next_id, got_suback, busy>>

\* With a session the SUBSCRIBE is sent and SUBACK awaited.
SubSent(t) ==
  /\ state = "up"
  /\ \E s \in SlotFor(t) :
       /\ subs' = [subs EXCEPT ![s] = t]
       /\ next_id' = NewId(1) /\ got_suback' = NoCode
       /\ \/ /\ Tx(<<Subscribe(t, next_id')>>)
             /\ busy' = [op |-> "suback", slot |-> s, topic |-> t]
             /\ Unanswered /\ UNCHANGED <<state, ping_out>>
          \/ /\ TxMayFail /\ MarkDown /\ Unanswered /\ UNCHANGED busy

CmdSub ==
  /\ Command
  /\ \E t \in Topics : SubAnswered(t) \/ SubSent(t)
  /\ UNCHANGED <<list, list_idx, last_good, ringVars, acked_id, got_connack,
                 brokerVars, raw, falls>>

\* Any SUBACK will do; a refusal frees the slot.
SubFound ==
  /\ busy.op = "suback" /\ got_suback # NoCode
  /\ subs' = IF got_suback = 128 THEN [subs EXCEPT ![busy.slot] = Free] ELSE subs
  /\ Unanswered /\ busy' = Idle
  /\ UNCHANGED <<state, list, list_idx, last_good, ringVars, flagVars, lineVars,
                 brokerVars, ping_out, next_id, raw, cmds, falls>>

\* No SUBACK in 3 s, or the connection has ended: an ERROR, the slot stays.
SubExpires ==
  /\ busy.op = "suback" /\ got_suback = NoCode
  /\ Unanswered /\ busy' = Idle
  /\ UNCHANGED <<state, sessionVars, ringVars, flagVars, lineVars, brokerVars,
                 ping_out, next_id, raw, cmds, falls>>

\* AT+MQTTUNSUB.
CmdUnsub ==
  /\ Command
  /\ \E t \in Topics :
       \/ /\ state \in {"up", "reconnect"}
          /\ subs' = [s \in Subs |-> IF subs[s] = t THEN Free ELSE subs[s]]
          /\ IF state = "up"
             THEN /\ next_id' = NewId(1)
                  /\ \/ Tx(<<Unsubscribe(t)>>)
                     \/ TxMayFail /\ UNCHANGED lineVars
             ELSE UNCHANGED <<next_id, lineVars>>
          /\ Unanswered
       \/ /\ state = "off" /\ Unanswered
          /\ UNCHANGED <<subs, next_id, lineVars>>
  /\ UNCHANGED <<state, list, list_idx, last_good, ringVars, flagVars, brokerVars,
                 ping_out, raw, busy, falls>>

\* publish_now, an attempt: n is its number, i the identifier.
Attempt(p, n, i) ==
  \/ /\ Tx(<<Publish(p.m, p.qos, i)>>)
     /\ IF p.qos = 0
        THEN busy' = Idle
        ELSE busy' = [op |-> "puback", p |-> p, n |-> n, id |-> i]
     /\ Unanswered /\ UNCHANGED <<state, ping_out>>
  \/ TxMayFail /\ MarkDown /\ Unanswered /\ busy' = Idle

PublishNow(p) ==
  /\ next_id' = IF p.qos = 1 THEN NewId(1) ELSE next_id
  /\ Attempt(p, 1, next_id')

\* AT+MQTTPUB: an empty publication at once, another when its data has come.
CmdPub ==
  /\ Command
  /\ \E q \in {0, 1}, empty \in BOOLEAN :
       IF state # "up"
       THEN /\ Unanswered
            /\ UNCHANGED <<state, ping_out, lineVars, next_id, raw, busy>>
       ELSE IF empty
       THEN PublishNow([m |-> cmds + 1, qos |-> q]) /\ UNCHANGED raw
       ELSE /\ raw' = [m |-> cmds + 1, qos |-> q]
            /\ Unanswered /\ UNCHANGED <<state, ping_out, lineVars, next_id, busy>>
  /\ UNCHANGED <<sessionVars, ringVars, flagVars, brokerVars, falls>>

\* pub_done: the session is looked at again.
PubData ==
  /\ InLoop /\ raw # NoRaw /\ raw' = NoRaw
  /\ \/ /\ Unanswered          \* the data stopped, or no session
        /\ UNCHANGED <<state, ping_out, lineVars, next_id, busy>>
     \/ state = "up" /\ PublishNow(raw)
  /\ UNCHANGED <<sessionVars, ringVars, flagVars, brokerVars, cmds, falls>>

\* publish_now: the confirmation has come, the session is lost, or 3 s are over.
PubFound ==
  /\ busy.op = "puback" /\ acked_id = busy.id
  /\ answer' = busy.p.m /\ busy' = Idle
  /\ UNCHANGED <<state, ping_out, lineVars>>
PubDown ==
  /\ busy.op = "puback" /\ acked_id # busy.id /\ state # "up"
  /\ Unanswered /\ busy' = Idle
  /\ UNCHANGED <<state, ping_out, lineVars>>
PubExpires ==
  /\ busy.op = "puback" /\ acked_id # busy.id
  /\ \/ busy.n = 1 /\ state = "up" /\ Attempt(busy.p, 2, busy.id)
     \/ /\ busy.n = 2 /\ Unanswered /\ busy' = Idle
        /\ UNCHANGED <<state, ping_out, lineVars>>
PubWait ==
  /\ PubFound \/ PubDown \/ PubExpires
  /\ UNCHANGED <<sessionVars, ringVars, flagVars, brokerVars, next_id, raw, cmds, falls>>

\* AT+MQTTRX: the oldest message, if there is one and the answer fits.
CmdRx ==
  /\ Command
  /\ \/ UNCHANGED <<read, taken, rx_head, rx_count>>
     \/ /\ rx_count > 0 /\ read' = rxq[rx_head] /\ taken' = taken + 1
        /\ rx_head' = (rx_head + 1) % RxCap /\ rx_count' = rx_count - 1
  /\ Unanswered
  /\ UNCHANGED <<state, sessionVars, rxq, rx_lost, arrived, spoiled, flagVars,
                 lineVars, brokerVars, ping_out, next_id, raw, busy, falls>>

-----------------------------------------------------------------------------
(* The broker and the network.                                             *)

clientVars == <<state, sessionVars, ringVars, flagVars, ping_out, next_id, raw, busy,
                answer, cmds>>

Reply(p) == down' = Append(down, p)

\* The broker takes a packet and answers it.
BrokerTakes ==
  /\ alive /\ up # <<>> /\ Len(down) < LineCap /\ up' = Tail(up)
  /\ \E p \in {Head(up)} :
       \/ /\ p.t = "CONNECT" /\ Reply([t |-> "CONNACK", rc |-> 0])
          /\ UNCHANGED <<granted, refused, stored>>
       \/ /\ p.t = "CONNECT" /\ Unreliable /\ Reply([t |-> "CONNACK", rc |-> 5])
          /\ UNCHANGED <<granted, refused, stored>>
       \/ /\ p.t = "SUBSCRIBE" /\ Reply([t |-> "SUBACK", rc |-> 0])
          /\ granted' = granted \cup {p.topic} /\ refused' = refused \ {p.topic}
          /\ UNCHANGED stored
       \/ /\ p.t = "SUBSCRIBE" /\ Reply([t |-> "SUBACK", rc |-> 128])
          /\ granted' = granted \ {p.topic} /\ refused' = refused \cup {p.topic}
          /\ UNCHANGED stored
       \/ /\ p.t = "UNSUBSCRIBE" /\ granted' = granted \ {p.topic}
          /\ UNCHANGED <<refused, stored, down>>
       \/ /\ p.t = "PUBLISH" /\ stored' = stored \cup {p.m}
          /\ IF p.qos = 1 THEN Reply([t |-> "PUBACK", id |-> p.id]) ELSE UNCHANGED down
          /\ UNCHANGED <<granted, refused>>
       \/ /\ p.t = "PINGREQ" /\ Reply([t |-> "PINGRESP"])
          /\ UNCHANGED <<granted, refused, stored>>
       \/ /\ p.t = "PUBACK" /\ UNCHANGED <<granted, refused, stored, down>>
  /\ UNCHANGED <<clientVars, tcp, alive, sent, falls>>

\* A message on a topic the client has.
BrokerSends ==
  /\ alive /\ granted # {} /\ sent < MaxMsgs /\ cmds + sent < MaxEvents /\ Len(down) < LineCap
  /\ sent' = sent + 1
  /\ \E k \in Kinds :
       Reply(IF k[1] = "bad" THEN [t |-> "BAD"]
             ELSE [t |-> "PUBLISH", n |-> sent', kind |-> k[1], qos |-> k[2]])
  /\ UNCHANGED <<clientVars, tcp, alive, up, granted, refused, stored, falls>>

\* The connection ends; what has come may still be read.
Lost ==
  /\ alive /\ falls < MaxFalls
  /\ falls' = falls + 1
  /\ alive' = FALSE /\ up' = <<>> /\ UNCHANGED <<tcp, down>>
  /\ UNCHANGED <<clientVars, brokerVars>>

Next ==
  \/ Pump \/ DialFails \/ DialOpens \/ Accepted \/ NotAccepted
  \/ LoopDown \/ PingDue \/ Reconnect
  \/ CmdConnect \/ CmdClose \/ CmdSub \/ SubFound \/ SubExpires \/ CmdUnsub
  \/ CmdPub \/ PubData \/ PubWait \/ CmdRx
  \/ BrokerTakes \/ BrokerSends \/ Lost

\* The loop turns, what holds it comes to an end, and the broker answers.
Turn ==
  \/ Reconnect \/ DialFails \/ DialOpens \/ Accepted \/ NotAccepted
  \/ SubFound \/ SubExpires \/ PubWait
  \/ Pump \/ BrokerTakes

Spec == Init /\ [][Next]_vars /\ WF_vars(Turn)
=============================================================================
