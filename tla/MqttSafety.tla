------------------------------ MODULE MqttSafety ------------------------------
(***************************************************************************)
(* What the MQTT client promises.                                          *)
(***************************************************************************)
EXTENDS MqttClient

\* The messages in the ring, the oldest first.
Ring == [i \in 1..rx_count |-> rxq[(rx_head + i - 1) % RxCap]]

\* The ring holds the newest messages that came, in their order, and each
\* message is counted once: delivered, waiting, lost or thrown away with its
\* session; what AT+MQTTRX delivered is older than what waits (rx_push,
\* AT+MQTTRX, session_stop).
QueueExact ==
  /\ Ring = SubSeq(arrived, Len(arrived) - rx_count + 1, Len(arrived))
  /\ taken + rx_count + rx_lost = Len(arrived) + spoiled
  /\ \A i \in DOMAIN Ring : read < Ring[i]

\* A QoS 1 publication answered with OK has reached the broker, whatever other
\* confirmations came late or again, and whatever sessions ended meanwhile
\* (publish_now, handle_packet).
Published == answer # 0 => answer \in stored

\* With a session and a quiet line every subscription in use is one the broker
\* has or has refused: also after a reconnection, with another broker, with a
\* SUBSCRIBE that was never answered (session_connect, AT+MQTTSUB).
Resubscribed ==
  (state = "up" /\ alive /\ up = <<>>) =>
    \A s \in Subs : subs[s] \in granted \cup refused \cup {Free}

\* A lost session comes back, if a broker of the list is there: each failure
\* moves on to the next (net_mqtt_loop).  (A command may end the wait instead.)
Recovers == state = "reconnect" ~> state # "reconnect"

-----------------------------------------------------------------------------
(* The small instance: a list of two brokers, one subscription, and three  *)
(* kinds of message.                                                       *)

TwoLists == {<<"b1", "b2">>}
SubSlots == {1}
MsgKinds == {<<"short", 0>>, <<"long", 1>>, <<"bad", 0>>}
=============================================================================
