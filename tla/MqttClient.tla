------------------------------ MODULE MqttClient ------------------------------
(***************************************************************************)
(* PahoMqttClient, the same class in gate/src and in                       *)
(* ticket-vending-machine/src, against the Paho library and the broker,    *)
(* which are modelled as the class uses them: a session that survives the  *)
(* connection (clean_session(false)), quality of service 1, and a library  *)
(* thread that reconnects by itself (automatic_reconnect(true)).  An       *)
(* application subscribes to one topic.                                    *)
(*                                                                         *)
(* run() learns of a lost connection only when it looks at is_connected(), *)
(* once per loop.  The broker keeps sessions in memory: a restart forgets  *)
(* them (docker-compose.yml configures no persistence).                    *)
(***************************************************************************)
EXTENDS Integers, Sequences, Functions

CONSTANTS MaxPublish,  \* bound: messages published to the topic
          MaxDrops,    \* bound: connections lost in the network
          MaxRestarts, \* bound: restarts of the broker
          MaxKills     \* bound: times the application is killed

ASSUME BoundsAssumption ==
    /\ MaxPublish \in Nat /\ MaxDrops \in Nat
    /\ MaxRestarts \in Nat /\ MaxKills \in Nat

VARIABLES
    \* The broker's session of this client.
    subscribed, \* whether it holds the topic
    pending,    \* messages kept for it, until they are acknowledged
    sent,       \* how many of them were sent on this connection
    \* The library.
    connected,  \* m_client->is_connected()
    inbox,      \* its queue of messages, acknowledged when put there
    \* The application's thread.
    pc,         \* where it is: connect, subscribe_to_topic, or in run()
    was_disconnected,
    msg,        \* the message the callback is called with, 0 for none
    \* Bounds and history.
    published,  \* messages published so far; they are numbered
    accepted,   \* those that found the session subscribed
    received,   \* those the callback was called with
    drops, restarts, kills

session == <<subscribed, pending>>
connection == <<connected, sent>>
thread == <<pc, was_disconnected, msg>>
history == <<published, accepted, received>>
bounds == <<drops, restarts, kills>>
vars == <<session, connection, inbox, thread, history, bounds>>

Init ==
    /\ subscribed = FALSE /\ pending = <<>> /\ sent = 0
    /\ connected = FALSE /\ inbox = <<>>
    /\ pc = "connect" /\ was_disconnected = TRUE /\ msg = 0
    /\ published = 0 /\ accepted = {} /\ received = {}
    /\ drops = 0 /\ restarts = 0 /\ kills = 0

-------------------------------------------------------------------------------
(* The broker, the network and the library's threads *)

Publish ==
    /\ published < MaxPublish
    /\ published' = published + 1
    /\ IF subscribed
       THEN /\ pending' = Append(pending, published')
            /\ accepted' = accepted \cup {published'}
       ELSE UNCHANGED <<pending, accepted>>
    /\ UNCHANGED <<subscribed, connection, inbox, thread, received, bounds>>

Send ==
    /\ connected /\ sent < Len(pending)
    /\ inbox' = Append(inbox, pending[sent + 1])
    /\ sent' = sent + 1
    /\ UNCHANGED <<session, connected, thread, history, bounds>>

\* The acknowledgement of the oldest message arrives.
Ack ==
    /\ connected /\ sent > 0
    /\ pending' = Tail(pending)
    /\ sent' = sent - 1
    /\ UNCHANGED <<subscribed, connected, inbox, thread, history, bounds>>

\* What was sent and not acknowledged will be sent again.
Drop ==
    /\ connected /\ drops < MaxDrops
    /\ drops' = drops + 1
    /\ connected' = FALSE /\ sent' = 0
    /\ UNCHANGED <<session, inbox, thread, history, restarts, kills>>

BrokerRestart ==
    /\ restarts < MaxRestarts
    /\ restarts' = restarts + 1
    /\ subscribed' = FALSE /\ pending' = <<>>
    /\ connected' = FALSE /\ sent' = 0
    /\ UNCHANGED <<inbox, thread, history, drops, kills>>

\* Mutant of Reconnect: clean_session(true).
ReconnectClean ==
    /\ ~connected /\ pc # "connect"
    /\ connected' = TRUE
    /\ subscribed' = FALSE /\ pending' = <<>>
    /\ UNCHANGED <<sent, inbox, thread, history, bounds>>

\* automatic_reconnect(true), once connect() has succeeded.  The session is
\* resumed if the broker has it; the library subscribes to nothing.
Reconnect ==
    /\ ~connected /\ pc # "connect"
    /\ connected' = TRUE
    /\ UNCHANGED <<session, sent, inbox, thread, history, bounds>>

-------------------------------------------------------------------------------
(* The application's thread *)

GoTo(label) ==
    /\ pc' = label
    /\ UNCHANGED msg

\* The attempt of connect() that succeeds; the others only wait.
Connect ==
    /\ pc = "connect"
    /\ connected' = TRUE
    /\ GoTo("subscribe")
    /\ UNCHANGED <<session, sent, inbox, was_disconnected, history, bounds>>

\* m_client->subscribe: done; or an exception, as there is no connection, or as
\* it is lost before the answer comes, with the topic in the session.
SubscribeSucceeds ==
    /\ connected
    /\ subscribed' = TRUE
    /\ UNCHANGED <<pending, connection, bounds>>

SubscribeThrows ==
    \/ /\ ~connected
       /\ UNCHANGED <<session, connection, bounds>>
    \/ /\ connected /\ drops < MaxDrops
       /\ drops' = drops + 1
       /\ subscribed' = TRUE
       /\ connected' = FALSE /\ sent' = 0
       /\ UNCHANGED <<pending, restarts, kills>>

\* Mutant of SubscribeToTopic: run() starts as if the topic were subscribed.
SubscribeTrusting ==
    /\ pc = "subscribe"
    /\ SubscribeSucceeds \/ SubscribeThrows
    /\ was_disconnected' = FALSE
    /\ GoTo("top")
    /\ UNCHANGED <<inbox, history>>

\* subscribe_to_topic, whose result no caller looks at, and the start of run().
SubscribeToTopic ==
    /\ pc = "subscribe"
    /\ SubscribeSucceeds \/ SubscribeThrows
    /\ was_disconnected' = TRUE
    /\ GoTo("top")
    /\ UNCHANGED <<inbox, history>>

\* Mutant of LoopTop: the flag is cleared before the topics are subscribed.
LoopTopClearing ==
    /\ pc = "top"
    /\ GoTo(IF was_disconnected /\ connected THEN "resubscribe" ELSE "consume")
    /\ was_disconnected' = (was_disconnected /\ ~connected)
    /\ UNCHANGED <<session, connection, inbox, history, bounds>>

\* The test at the top of run()'s loop.
LoopTop ==
    /\ pc = "top"
    /\ GoTo(IF was_disconnected /\ connected THEN "resubscribe" ELSE "consume")
    /\ UNCHANGED <<session, connection, inbox, was_disconnected, history, bounds>>

Resubscribe ==
    /\ pc = "resubscribe"
    /\ \/ SubscribeSucceeds /\ was_disconnected' = FALSE
       \/ SubscribeThrows /\ UNCHANGED was_disconnected
    /\ GoTo("consume")
    /\ UNCHANGED <<inbox, history>>

\* Mutant of Consume: a message taken while disconnected is dropped.
ConsumeWhenConnected ==
    /\ pc = "consume" /\ inbox # <<>>
    /\ inbox' = Tail(inbox)
    /\ IF connected
       THEN msg' = Head(inbox) /\ pc' = "callback"
       ELSE GoTo("sample")
    /\ UNCHANGED <<session, connection, was_disconnected, history, bounds>>

\* try_consume_message_for has a message.
Consume ==
    /\ pc = "consume" /\ inbox # <<>>
    /\ msg' = Head(inbox) /\ inbox' = Tail(inbox)
    /\ pc' = "callback"
    /\ UNCHANGED <<session, connection, was_disconnected, history, bounds>>

\* Mutant of ConsumeNothing: the message is not tested for null.
ConsumeNull ==
    /\ pc = "consume" /\ inbox = <<>>
    /\ GoTo("callback")
    /\ UNCHANGED <<session, connection, inbox, was_disconnected, history, bounds>>

\* Its second has passed, or the null message of a lost connection ended it.
ConsumeNothing ==
    /\ pc = "consume" /\ inbox = <<>>
    /\ GoTo("sample")
    /\ UNCHANGED <<session, connection, inbox, was_disconnected, history, bounds>>

\* The topic's callback runs and returns; a gate's may take seconds.
Callback ==
    /\ pc = "callback"
    /\ received' = received \cup {msg}
    /\ msg' = 0 /\ pc' = "sample"
    /\ UNCHANGED <<session, connection, inbox, was_disconnected,
                   published, accepted, bounds>>

\* The end of the loop looks at the connection.
Sample ==
    /\ pc = "sample"
    /\ was_disconnected' = (was_disconnected \/ ~connected)
    /\ GoTo("top")
    /\ UNCHANGED <<session, connection, inbox, history, bounds>>

Thread ==
    \/ Connect \/ SubscribeToTopic
    \/ LoopTop \/ Resubscribe \/ Consume \/ ConsumeNothing \/ Callback \/ Sample

-------------------------------------------------------------------------------

\* kill -9 and a restart of the application; the broker keeps the session.
Kill ==
    /\ kills < MaxKills
    /\ kills' = kills + 1
    /\ connected' = FALSE /\ sent' = 0 /\ inbox' = <<>>
    /\ pc' = "connect" /\ was_disconnected' = TRUE /\ msg' = 0
    /\ UNCHANGED <<session, history, drops, restarts>>

Next ==
    \/ Thread
    \/ Publish \/ Send \/ Ack \/ Drop \/ BrokerRestart \/ Reconnect
    \/ Kill

\* The thread runs, and the broker is reachable at last: it accepts connections,
\* and it sends what it keeps.
Spec ==
    /\ Init /\ [][Next]_vars
    /\ WF_vars(Thread) /\ WF_vars(Reconnect) /\ WF_vars(Send)

-------------------------------------------------------------------------------
(* Properties *)

Numbers == 1..MaxPublish

TypeOK ==
    /\ subscribed \in BOOLEAN /\ connected \in BOOLEAN
    /\ pending \in Seq(Numbers) /\ inbox \in Seq(Numbers)
    /\ sent \in 0..Len(pending)
    /\ pc \in {"connect", "subscribe", "top", "resubscribe", "consume",
               "callback", "sample"}
    /\ was_disconnected \in BOOLEAN
    /\ msg \in 0..MaxPublish
    /\ published \in 0..MaxPublish
    /\ accepted \subseteq Numbers /\ received \subseteq Numbers
    /\ drops \in 0..MaxDrops /\ restarts \in 0..MaxRestarts /\ kills \in 0..MaxKills

\* Messages come in order and without a gap, however often the connection is
\* lost and messages are sent again, unless a process dies.
NoGap ==
    kills = 0 /\ restarts = 0 =>
        \A m \in received, n \in accepted : n < m => n \in received

\* Every message the broker holds for the application reaches the callback,
\* unless one of the two processes dies first.
Delivered ==
    \A m \in Numbers, k \in 0..MaxKills, r \in 0..MaxRestarts :
        (m \in Range(pending) /\ kills = k /\ restarts = r) ~>
            (m \in received \/ kills # k \/ restarts # r)

\* A disconnection that run() has noticed is repaired, whatever happened to the
\* subscription meanwhile and however often subscribing fails.
NoticedIsRepaired == was_disconnected ~> (subscribed /\ ~was_disconnected)

\* Once the connection is lasting, the topic is subscribed and stays so, as long
\* as the broker keeps its sessions: the first attempts may fail, their result
\* is ignored, and disconnections may go unnoticed.
SessionKeepsTopic == [](restarts = 0) /\ <>[]connected => <>[]subscribed

\* README.md:162: "Re-connected! Re-subscribing to ensure topics are active...".
\* The same whatever the broker keeps.
TopicsActive == <>[]connected => <>[]subscribed
===============================================================================
