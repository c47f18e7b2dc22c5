--------------------------- MODULE MqttClientProofs ---------------------------
(***************************************************************************)
(* Safety of MqttClient for every number of messages, lost connections,    *)
(* restarts of the broker and kills of the application.                    *)
(***************************************************************************)
EXTENDS MqttClient, SequenceTheorems, TLAPS

USE BoundsAssumption

-------------------------------------------------------------------------------
(* Sequences of messages *)

LEMMA AppendMessage ==
    ASSUME NEW s \in Seq(Numbers), NEW x \in Numbers
    PROVE  /\ Append(s, x) \in Seq(Numbers)
           /\ Len(s) \in Nat /\ Len(Append(s, x)) = Len(s) + 1
           /\ \A i \in 1..Len(s) : Append(s, x)[i] = s[i]
           /\ Append(s, x)[Len(s) + 1] = x
  BY AppendProperties, LenProperties

LEMMA TailOfMessages ==
    ASSUME NEW s \in Seq(Numbers), Len(s) # 0
    PROVE  /\ Head(s) = s[1] /\ Head(s) \in Numbers
           /\ Tail(s) \in Seq(Numbers)
           /\ Len(s) \in Nat /\ Len(Tail(s)) = Len(s) - 1
           /\ \A i \in 1..Len(Tail(s)) : Tail(s)[i] = s[i + 1]
<1>1. s # <<>>
  BY EmptySeq
<1>2. Len(s) \in Nat
  BY LenProperties
<1> QED
  BY <1>1, <1>2, HeadTailProperties

LEMMA NoMessages == <<>> \in Seq(Numbers) /\ Len(<<>>) = 0
  BY EmptySeq

-------------------------------------------------------------------------------
(* Types *)

FlagTypes ==
    subscribed \in BOOLEAN /\ connected \in BOOLEAN /\ was_disconnected \in BOOLEAN

\* What the broker keeps, and how much of it was sent.
SessionTypes == pending \in Seq(Numbers) /\ sent \in 0..Len(pending)

\* The application, whose callback is never called with a null message.
ThreadTypes ==
    /\ inbox \in Seq(Numbers)
    /\ pc \in {"connect", "subscribe", "top", "resubscribe", "consume",
               "callback", "sample"}
    /\ msg \in 0..MaxPublish
    /\ pc = "callback" <=> msg # 0

HistoryTypes ==
    /\ published \in 0..MaxPublish
    /\ accepted \subseteq Numbers /\ received \subseteq Numbers
    /\ drops \in 0..MaxDrops /\ restarts \in 0..MaxRestarts /\ kills \in 0..MaxKills

Types == FlagTypes /\ SessionTypes /\ ThreadTypes /\ HistoryTypes

LEMMA TypesAreTypeOK == Types => TypeOK
  BY DEF Types, FlagTypes, SessionTypes, ThreadTypes, HistoryTypes, TypeOK

LEMMA InitTypes == Init => Types
<1> SUFFICES ASSUME Init PROVE Types
  OBVIOUS
<1>1. FlagTypes
  BY DEF Init, FlagTypes
<1>2. SessionTypes /\ ThreadTypes
  BY NoMessages DEF Init, SessionTypes, ThreadTypes
<1>3. HistoryTypes
  BY DEF Init, HistoryTypes
<1> QED
  BY <1>1, <1>2, <1>3 DEF Types

LEMMA Lengths ==
    ASSUME Types
    PROVE  /\ Len(pending) \in Nat /\ Len(inbox) \in Nat
           /\ inbox # <<>> => Len(inbox) # 0
  BY LenProperties, EmptySeq DEF Types, SessionTypes, ThreadTypes

\* What subscribing does, whether it succeeds or throws.
LEMMA SubscribeStep ==
    ASSUME Types, SubscribeToTopic \/ Resubscribe
    PROVE  /\ pc \in {"subscribe", "resubscribe"} /\ pc' \in {"top", "consume"}
           /\ sent' \in {sent, 0} /\ drops' \in 0..MaxDrops
           /\ UNCHANGED <<pending, inbox, msg, history, restarts, kills>>
<1>1. SubscribeSucceeds => sent' = sent /\ UNCHANGED <<pending, drops, restarts, kills>>
  BY DEF SubscribeSucceeds, connection, bounds
<1>2. SubscribeThrows => /\ sent' \in {sent, 0} /\ drops' \in {drops, drops + 1}
                         /\ drops' # drops => drops < MaxDrops
                         /\ UNCHANGED <<pending, restarts, kills>>
  BY DEF SubscribeThrows, session, connection, bounds
<1>3. SubscribeSucceeds \/ SubscribeThrows
  BY DEF SubscribeToTopic, Resubscribe
<1>4. /\ pc \in {"subscribe", "resubscribe"} /\ pc' \in {"top", "consume"}
      /\ UNCHANGED <<inbox, msg, history>>
  BY DEF SubscribeToTopic, Resubscribe, GoTo
<1>5. drops' \in 0..MaxDrops
  BY <1>1, <1>2, <1>3 DEF Types, HistoryTypes
<1> QED
  BY <1>1, <1>2, <1>3, <1>4, <1>5

LEMMA NextFlags == ASSUME Types, [Next]_vars PROVE FlagTypes'
<1> USE DEF Types, FlagTypes
<1>1. CASE Publish \/ Send \/ Ack
  BY <1>1 DEF Publish, Send, Ack, session, connection, thread
<1>2. CASE Drop \/ BrokerRestart \/ Reconnect
  BY <1>2 DEF Drop, BrokerRestart, Reconnect, session, thread
<1>3. CASE Kill \/ Connect
  BY <1>3 DEF Kill, Connect, session
<1>4. CASE SubscribeToTopic
  BY <1>4 DEF SubscribeToTopic, SubscribeSucceeds, SubscribeThrows, session, connection
<1>5. CASE Resubscribe
  BY <1>5 DEF Resubscribe, SubscribeSucceeds, SubscribeThrows, session, connection
<1>6. CASE LoopTop \/ Consume \/ ConsumeNothing \/ Callback \/ Sample
  BY <1>6 DEF LoopTop, Consume, ConsumeNothing, Callback, Sample, session, connection
<1>7. CASE UNCHANGED vars
  BY <1>7 DEF vars, session, connection, thread
<1> QED
  BY <1>1, <1>2, <1>3, <1>4, <1>5, <1>6, <1>7 DEF Next, Thread

LEMMA NextSession == ASSUME Types, [Next]_vars PROVE SessionTypes'
<1> USE DEF Types
<1>0. Len(pending) \in Nat /\ Len(inbox) \in Nat /\ (inbox # <<>> => Len(inbox) # 0)
  BY Lengths
<1> USE <1>0
<1>1. CASE Publish
  <2>1. UNCHANGED sent
    BY <1>1 DEF Publish, connection
  <2>2. pending' \in Seq(Numbers) /\ Len(pending') \in Nat /\ Len(pending') >= Len(pending)
    <3>1. CASE subscribed
      <4>1. published + 1 \in Numbers /\ pending' = Append(pending, published + 1)
        BY <1>1, <3>1 DEF Publish, HistoryTypes, Numbers
      <4> QED
        BY <4>1, AppendMessage DEF SessionTypes
    <3>2. CASE ~subscribed
      BY <1>1, <3>2 DEF Publish, SessionTypes
    <3> QED
      BY <3>1, <3>2
  <2> QED
    BY <2>1, <2>2 DEF SessionTypes
<1>2. CASE Send
  BY <1>2 DEF Send, SessionTypes, session
<1>3. CASE Ack
  <2>1. Len(pending) # 0
    BY <1>3 DEF Ack, SessionTypes
  <2>2. pending' \in Seq(Numbers) /\ Len(pending') = Len(pending) - 1
    BY <1>3, <2>1, TailOfMessages DEF Ack, SessionTypes
  <2> QED
    BY <1>3, <2>2 DEF Ack, SessionTypes
<1>4. CASE Drop
  BY <1>4 DEF Drop, SessionTypes, session
<1>5. CASE BrokerRestart
  BY <1>5, NoMessages DEF BrokerRestart, SessionTypes
<1>6. CASE Kill
  BY <1>6 DEF Kill, SessionTypes, session
<1>7. CASE Reconnect \/ Connect
  BY <1>7 DEF Reconnect, Connect, SessionTypes, session
<1>8. CASE SubscribeToTopic \/ Resubscribe
  BY <1>8, SubscribeStep DEF SessionTypes
<1>9. LoopTop \/ Consume \/ ConsumeNothing \/ Callback \/ Sample \/ UNCHANGED vars
      => UNCHANGED <<session, connection>>
  BY DEF LoopTop, Consume, ConsumeNothing, Callback, Sample, vars
<1>10. CASE UNCHANGED <<session, connection>>
  BY <1>10 DEF session, connection, SessionTypes
<1> QED
  BY <1>1, <1>2, <1>3, <1>4, <1>5, <1>6, <1>7, <1>8, <1>9, <1>10 DEF Next, Thread

LEMMA NextThread == ASSUME Types, [Next]_vars PROVE ThreadTypes'
<1> USE DEF Types
<1>0. Len(pending) \in Nat /\ Len(inbox) \in Nat /\ (inbox # <<>> => Len(inbox) # 0)
  BY Lengths
<1> USE <1>0
<1>1. CASE Send
  <2>1. sent + 1 \in 1..Len(pending)
    BY <1>1 DEF Send, SessionTypes
  <2>2. pending[sent + 1] \in Numbers
    BY <2>1, ElementOfSeq DEF SessionTypes
  <2>3. inbox' \in Seq(Numbers)
    BY <1>1, <2>2, AppendMessage DEF Send, ThreadTypes
  <2> QED
    BY <1>1, <2>3 DEF Send, ThreadTypes, thread
<1>2. CASE Connect
  BY <1>2 DEF Connect, GoTo, ThreadTypes
<1>3. CASE SubscribeToTopic \/ Resubscribe
  BY <1>3, SubscribeStep DEF ThreadTypes
<1>4. CASE LoopTop \/ ConsumeNothing \/ Sample
  BY <1>4 DEF LoopTop, ConsumeNothing, Sample, GoTo, ThreadTypes
<1>5. CASE Consume
  <2>1. inbox' \in Seq(Numbers) /\ msg' \in Numbers
    BY <1>5, TailOfMessages DEF Consume, ThreadTypes
  <2> QED
    BY <1>5, <2>1 DEF Consume, ThreadTypes, Numbers
<1>6. CASE Callback
  BY <1>6 DEF Callback, ThreadTypes
<1>7. CASE Kill
  BY <1>7, NoMessages DEF Kill, ThreadTypes
<1>8. Publish \/ Ack \/ Drop \/ BrokerRestart \/ Reconnect \/ UNCHANGED vars
      => UNCHANGED <<inbox, thread>>
  BY DEF Publish, Ack, Drop, BrokerRestart, Reconnect, vars
<1>9. CASE UNCHANGED <<inbox, thread>>
  BY <1>9 DEF thread, ThreadTypes
<1> QED
  BY <1>1, <1>2, <1>3, <1>4, <1>5, <1>6, <1>7, <1>8, <1>9 DEF Next, Thread

LEMMA NextHistory == ASSUME Types, [Next]_vars PROVE HistoryTypes'
<1> USE DEF Types
<1>1. CASE Publish
  <2>1. /\ published' \in 1..MaxPublish /\ UNCHANGED <<received, drops, restarts, kills>>
        /\ accepted' \in {accepted, accepted \cup {published'}}
    BY <1>1 DEF Publish, HistoryTypes, bounds
  <2> QED
    BY <2>1 DEF HistoryTypes, Numbers
<1>2. CASE Callback
  BY <1>2 DEF Callback, HistoryTypes, ThreadTypes, bounds, Numbers
<1>3. CASE SubscribeToTopic \/ Resubscribe
  BY <1>3, SubscribeStep DEF HistoryTypes, history
<1>4. CASE Drop \/ BrokerRestart \/ Kill
  BY <1>4 DEF Drop, BrokerRestart, Kill, HistoryTypes, history
<1>5. Connect \/ LoopTop \/ Consume \/ ConsumeNothing \/ Sample \/ Send \/ Ack
      \/ Reconnect \/ UNCHANGED vars
      => UNCHANGED <<history, bounds>>
  BY DEF Connect, LoopTop, Consume, ConsumeNothing, Sample, Send, Ack, Reconnect, vars
<1>6. CASE UNCHANGED <<history, bounds>>
  BY <1>6 DEF history, bounds, HistoryTypes
<1> QED
  BY <1>1, <1>2, <1>3, <1>4, <1>5, <1>6 DEF Next, Thread

THEOREM Invariance == Spec => []Types
<1>1. Types /\ [Next]_vars => Types'
  BY NextFlags, NextSession, NextThread, NextHistory DEF Types
<1> QED
  BY <1>1, InitTypes, PTL DEF Spec

\* Every variable keeps its type; above all, the callback is never called without
\* a message, whatever ended try_consume_message_for.
THEOREM TypeCorrect == Spec => []TypeOK
  BY Invariance, TypesAreTypeOK, PTL

-------------------------------------------------------------------------------
(* The order of the messages *)

\* The library has message n, or its callback was called with it.
Got(n) == n \in received \/ n = msg \/ \E i \in 1..Len(inbox) : inbox[i] = n

\* Message n is still to be sent, for the first time or again.
ToSend(n) == \E j \in (sent + 1)..Len(pending) : pending[j] = n

\* Messages are numbered in the order they are published in.
Increasing == \A i, j \in 1..Len(pending) : i < j => pending[i] < pending[j]

NotAhead ==
    /\ \A i \in 1..Len(pending) : pending[i] <= published
    /\ \A i \in 1..Len(inbox) : inbox[i] <= published
    /\ msg <= published
    /\ \A n \in accepted \cup received : n <= published

\* What the session took in is here or to be sent.
Kept == \A n \in accepted : Got(n) \/ ToSend(n)

\* Each message comes after the earlier ones, also if some come again.
InboxInOrder ==
    \A i \in 1..Len(inbox) : \A n \in accepted :
        n < inbox[i] => \/ n \in received \/ n = msg
                        \/ \E j \in 1..(i - 1) : inbox[j] = n

MsgInOrder == \A n \in accepted : n < msg => n \in received

ReceivedInOrder == \A m \in received : \A n \in accepted : n < m => n \in received

InOrder == Kept /\ InboxInOrder /\ MsgInOrder /\ ReceivedInOrder

\* Both processes have lived so far.
Alive == kills = 0 /\ restarts = 0

Ordered == Increasing /\ NotAhead /\ (Alive => InOrder)

LEMMA Domains ==
    ASSUME Types
    PROVE  /\ Len(pending) \in Nat /\ Len(inbox) \in Nat /\ (inbox # <<>> => Len(inbox) # 0)
           /\ pending \in Seq(Numbers) /\ inbox \in Seq(Numbers) /\ sent \in 0..Len(pending)
           /\ \A i \in 1..Len(pending) : pending[i] \in Nat \ {0}
           /\ \A i \in 1..Len(inbox) : inbox[i] \in Nat \ {0}
           /\ msg \in Nat /\ published \in Nat
           /\ accepted \subseteq Nat \ {0} /\ received \subseteq Nat \ {0}
<1>1. pending \in Seq(Numbers) /\ inbox \in Seq(Numbers)
  BY DEF Types, SessionTypes, ThreadTypes
<1>2. /\ \A i \in 1..Len(pending) : pending[i] \in Numbers
      /\ \A i \in 1..Len(inbox) : inbox[i] \in Numbers
  BY <1>1, ElementOfSeq
<1> QED
  BY <1>1, <1>2, Lengths DEF Types, SessionTypes, ThreadTypes, HistoryTypes, Numbers

\* A message is published, and the session takes it in or not.
LEMMA PublishOrdered == ASSUME Types, Ordered, Publish PROVE Ordered'
<1> USE Domains DEF Ordered
<1> DEFINE new == published + 1
<1>1. /\ published' = new
      /\ UNCHANGED <<sent, inbox, msg, received, restarts, kills>>
  BY DEF Publish, connection, thread, bounds
<1>2. new \in Nat /\ published < new
  OBVIOUS
<1>3. CASE ~subscribed
  <2>1. UNCHANGED <<pending, accepted>>
    BY <1>3 DEF Publish
  <2>2. Increasing' /\ NotAhead'
    BY <1>1, <2>1 DEF Increasing, NotAhead
  <2>3. Alive' => InOrder'
    BY <1>1, <2>1 DEF Alive, InOrder, Kept, Got, ToSend, InboxInOrder, MsgInOrder,
       ReceivedInOrder
  <2> QED
    BY <2>2, <2>3
<1>4. CASE subscribed
  <2>1. /\ pending' = Append(pending, new) /\ accepted' = accepted \cup {new}
        /\ new \in Numbers
    BY <1>4 DEF Publish, Types, HistoryTypes, Numbers
  <2>2. /\ Len(pending') = Len(pending) + 1
        /\ \A i \in 1..Len(pending) : pending'[i] = pending[i]
        /\ pending'[Len(pending) + 1] = new
    BY <2>1, AppendMessage
  <2> HIDE DEF new
  <2>3. Increasing'
    <3> SUFFICES ASSUME NEW i \in 1..(Len(pending) + 1), NEW j \in 1..(Len(pending) + 1),
                        i < j
                 PROVE  pending'[i] < pending'[j]
      BY <2>2 DEF Increasing
    <3>1. i \in 1..Len(pending) /\ pending'[i] = pending[i] /\ pending[i] <= published
      BY <2>2 DEF NotAhead
    <3>2. CASE j = Len(pending) + 1
      BY <1>2, <2>2, <3>1, <3>2
    <3>3. CASE j # Len(pending) + 1
      <4>1. j \in 1..Len(pending)
        <5>1. \A k \in Nat : \A l \in 1..(k + 1) : l # k + 1 => l \in 1..k
          OBVIOUS
        <5>2. Len(pending) \in Nat
          BY Domains
        <5> QED
          BY <3>3, <5>1, <5>2
      <4>2. pending'[j] = pending[j] /\ pending[i] < pending[j]
        BY <2>2, <3>1, <4>1 DEF Increasing
      <4> QED
        BY <3>1, <4>2
    <3> QED
      BY <3>2, <3>3
  <2>4. NotAhead'
    <3>1. ASSUME NEW i \in 1..(Len(pending) + 1) PROVE pending'[i] <= new
      <4>1. CASE i = Len(pending) + 1
        BY <1>2, <2>2, <4>1
      <4>2. CASE i # Len(pending) + 1
        <5>1. i \in 1..Len(pending) /\ pending'[i] = pending[i]
          BY <2>2, <4>2
        <5> QED
          BY <1>2, <5>1 DEF NotAhead
      <4> QED
        BY <4>1, <4>2
    <3>2. \A n \in accepted' \cup received' : n <= new
      BY <1>1, <1>2, <2>1 DEF NotAhead
    <3>3. msg' <= new /\ \A i \in 1..Len(inbox') : inbox'[i] <= new
      BY <1>1, <1>2 DEF NotAhead
    <3> QED
      BY <1>1, <2>2, <3>1, <3>2, <3>3 DEF NotAhead
  <2>5. ASSUME Alive' PROVE InOrder'
    <3>1. Alive /\ InOrder
      BY <1>1, <2>5 DEF Alive
    <3>2. ASSUME NEW n \in accepted' PROVE (Got(n) \/ ToSend(n))'
      <4>1. CASE n = new
        <5>1. Len(pending) + 1 \in (sent' + 1)..Len(pending')
          BY <1>1, <2>2
        <5> QED
          BY <2>2, <4>1, <5>1 DEF ToSend
      <4>2. CASE n # new
        <5>1. Got(n) \/ ToSend(n)
          BY <2>1, <3>1, <4>2 DEF InOrder, Kept
        <5> QED
          BY <1>1, <2>2, <5>1 DEF Got, ToSend
      <4> QED
        BY <4>1, <4>2
    <3>3. Kept'
      BY <3>2 DEF Kept
    <3>4. \A m \in Nat : \A n \in accepted' : n < m /\ m <= published => n \in accepted
      BY <1>2, <2>1
    <3>5. InboxInOrder'
      BY <1>1, <3>1, <3>4 DEF InOrder, InboxInOrder, NotAhead
    <3>6. MsgInOrder' /\ ReceivedInOrder'
      BY <1>1, <3>1, <3>4 DEF InOrder, MsgInOrder, ReceivedInOrder, NotAhead
    <3> QED
      BY <3>3, <3>5, <3>6 DEF InOrder
  <2> QED
    BY <2>3, <2>4, <2>5
<1> QED
  BY <1>3, <1>4

\* A message is sent, for the first time or again.
LEMMA SendOrdered == ASSUME Types, Ordered, Send PROVE Ordered'
<1> USE Domains DEF Ordered
<1>0. PICK x : x = pending[sent + 1]
  OBVIOUS
<1>1. /\ sent' = sent + 1 /\ inbox' = Append(inbox, x) /\ sent + 1 \in 1..Len(pending)
      /\ UNCHANGED <<pending, msg, published, accepted, received, restarts, kills>>
  BY <1>0 DEF Send, session, thread, history, bounds
<1>2. x \in Nat \ {0} /\ x <= published
  BY <1>0, <1>1 DEF NotAhead
<1>3. /\ Len(inbox') = Len(inbox) + 1
      /\ \A i \in 1..Len(inbox) : inbox'[i] = inbox[i]
      /\ inbox'[Len(inbox) + 1] = x
  <2>1. x \in Numbers
    BY <1>0, <1>1, ElementOfSeq
  <2> QED
    BY <1>1, <2>1, AppendMessage
<1>4. Increasing'
  BY <1>1 DEF Increasing
<1>5. NotAhead'
  <2>1. ASSUME NEW i \in 1..(Len(inbox) + 1) PROVE inbox'[i] <= published
    <3>1. CASE i = Len(inbox) + 1
      BY <1>2, <1>3, <3>1
    <3>2. CASE i # Len(inbox) + 1
      <4>1. i \in 1..Len(inbox) /\ inbox'[i] = inbox[i]
        BY <1>3, <3>2
      <4> QED
        BY <4>1 DEF NotAhead
    <3> QED
      BY <3>1, <3>2
  <2> QED
    BY <1>1, <1>3, <2>1 DEF NotAhead
<1>6. ASSUME Alive' PROVE InOrder'
  <2>1. Alive /\ InOrder
    BY <1>1, <1>6 DEF Alive
  <2>2. \A n : Got(n) => Got(n)'
    BY <1>1, <1>3 DEF Got
  <2>3. ASSUME NEW n, ToSend(n), n # x PROVE ToSend(n)'
    <3>1. PICK j \in (sent + 1)..Len(pending) : pending[j] = n
      BY <2>3 DEF ToSend
    <3>2. j \in (sent' + 1)..Len(pending')
      BY <1>0, <1>1, <2>3, <3>1
    <3> QED
      BY <1>1, <3>1, <3>2 DEF ToSend
  <2>4. Got(x)'
    <3>1. Len(inbox) + 1 \in 1..Len(inbox')
      BY <1>3
    <3> QED
      BY <1>3, <3>1 DEF Got
  <2>5. Kept'
    BY <1>1, <2>1, <2>2, <2>3, <2>4 DEF InOrder, Kept
  <2>6. ASSUME NEW n \in accepted, n < x PROVE Got(n)
    <3>1. \A j \in (sent + 1)..Len(pending) : x <= pending[j]
      BY <1>0, <1>1 DEF Increasing
    <3>2. ~ToSend(n)
      BY <1>1, <1>2, <2>6, <3>1 DEF ToSend
    <3> QED
      BY <2>1, <3>2 DEF InOrder, Kept
  <2>7. InboxInOrder'
    <3> SUFFICES ASSUME NEW i \in 1..(Len(inbox) + 1), NEW n \in accepted, n < inbox'[i]
                 PROVE  \/ n \in received \/ n = msg
                        \/ \E j \in 1..(i - 1) : inbox'[j] = n
      BY <1>1, <1>3 DEF InboxInOrder
    <3>1. CASE i = Len(inbox) + 1
      BY <1>3, <2>6, <3>1 DEF Got
    <3>2. CASE i # Len(inbox) + 1
      <4>1. i \in 1..Len(inbox) /\ inbox'[i] = inbox[i]
        BY <1>3, <3>2
      <4>2. \/ n \in received \/ n = msg
            \/ \E j \in 1..(i - 1) : inbox[j] = n
        BY <2>1, <4>1 DEF InOrder, InboxInOrder
      <4>3. \A j \in 1..(i - 1) : inbox'[j] = inbox[j]
        BY <1>3, <4>1
      <4> QED
        BY <4>2, <4>3
    <3> QED
      BY <3>1, <3>2
  <2>8. MsgInOrder' /\ ReceivedInOrder'
    BY <1>1, <2>1 DEF InOrder, MsgInOrder, ReceivedInOrder
  <2> QED
    BY <2>5, <2>7, <2>8 DEF InOrder
<1> QED
  BY <1>4, <1>5, <1>6

\* The oldest message is acknowledged.
LEMMA AckOrdered == ASSUME Types, Ordered, Ack PROVE Ordered'
<1> USE Domains DEF Ordered
<1>1. /\ sent' = sent - 1 /\ pending' = Tail(pending) /\ sent > 0 /\ Len(pending) # 0
      /\ UNCHANGED <<inbox, msg, published, accepted, received, restarts, kills>>
  BY DEF Ack, thread, history, bounds
<1>2. /\ Len(pending') = Len(pending) - 1
      /\ \A i \in 1..Len(pending') : pending'[i] = pending[i + 1]
  BY <1>1, TailOfMessages
<1>3. \A i \in 1..Len(pending') : i + 1 \in 1..Len(pending)
  BY <1>2
<1>4. Increasing'
  <2> SUFFICES ASSUME NEW i \in 1..Len(pending'), NEW j \in 1..Len(pending'), i < j
               PROVE  pending'[i] < pending'[j]
    BY DEF Increasing
  <2>1. pending[i + 1] < pending[j + 1]
    BY <1>2, <1>3 DEF Increasing
  <2> QED
    BY <1>2, <2>1
<1>5. NotAhead'
  BY <1>1, <1>2, <1>3 DEF NotAhead
<1>6. ASSUME NEW n, ToSend(n) PROVE ToSend(n)'
  <2>1. PICK j \in (sent + 1)..Len(pending) : pending[j] = n
    BY <1>6 DEF ToSend
  <2>2. j - 1 \in (sent' + 1)..Len(pending') /\ j - 1 \in 1..Len(pending')
    BY <1>1, <1>2, <2>1
  <2>3. pending'[j - 1] = pending[j]
    BY <1>2, <2>2
  <2> QED
    BY <2>1, <2>2, <2>3 DEF ToSend
<1>7. ASSUME Alive' PROVE InOrder'
  <2>1. Alive /\ InOrder
    BY <1>1, <1>7 DEF Alive
  <2>2. Kept'
    BY <1>1, <1>6, <2>1 DEF InOrder, Kept, Got
  <2> QED
    BY <1>1, <2>1, <2>2 DEF InOrder, InboxInOrder, MsgInOrder, ReceivedInOrder
<1> QED
  BY <1>4, <1>5, <1>7

\* The application takes a message from the library.
LEMMA ConsumeOrdered == ASSUME Types, Ordered, Consume PROVE Ordered'
<1> USE Domains DEF Ordered
<1>1. /\ inbox' = Tail(inbox) /\ msg' = Head(inbox) /\ Len(inbox) # 0 /\ msg = 0
      /\ UNCHANGED <<sent, pending, published, accepted, received, restarts, kills>>
  BY DEF Consume, session, connection, history, bounds, Types, ThreadTypes
<1>2. /\ Len(inbox') = Len(inbox) - 1 /\ msg' = inbox[1]
      /\ \A i \in 1..Len(inbox') : inbox'[i] = inbox[i + 1]
  BY <1>1, TailOfMessages
<1>3. \A i \in 1..Len(inbox') : i + 1 \in 1..Len(inbox)
  BY <1>2
<1>4. Increasing' /\ NotAhead'
  BY <1>1, <1>2, <1>3 DEF Increasing, NotAhead
<1>5. ASSUME NEW k \in 0..Len(inbox), NEW n \in accepted, \E j \in 1..k : inbox[j] = n
      PROVE  n = msg' \/ \E j \in 1..(k - 1) : inbox'[j] = n
  <2>1. PICK j \in 1..k : inbox[j] = n
    BY <1>5
  <2>2. CASE j = 1
    BY <1>2, <2>1, <2>2
  <2>3. CASE j # 1
    <3>1. j - 1 \in 1..(k - 1) /\ j - 1 \in 1..Len(inbox')
      BY <1>2, <2>1, <2>3
    <3>2. inbox'[j - 1] = n
      BY <1>2, <2>1, <3>1
    <3> QED
      BY <3>1, <3>2
  <2> QED
    BY <2>2, <2>3
<1>6. ASSUME Alive' PROVE InOrder'
  <2>1. Alive /\ InOrder
    BY <1>1, <1>6 DEF Alive
  <2>2. \A n \in accepted : n # msg
    BY <1>1
  <2>3. ASSUME NEW n \in accepted, Got(n) PROVE Got(n)'
    <3>1. n \in received \/ \E j \in 1..Len(inbox) : inbox[j] = n
      BY <2>2, <2>3 DEF Got
    <3>2. n \in received \/ n = msg' \/ \E j \in 1..(Len(inbox) - 1) : inbox'[j] = n
      BY <1>5, <3>1
    <3> QED
      BY <1>1, <1>2, <3>2 DEF Got
  <2>4. Kept'
    BY <1>1, <2>1, <2>3 DEF InOrder, Kept, ToSend
  <2>5. InboxInOrder'
    <3> SUFFICES ASSUME NEW i \in 1..Len(inbox'), NEW n \in accepted, n < inbox'[i]
                 PROVE  \/ n \in received \/ n = msg'
                        \/ \E j \in 1..(i - 1) : inbox'[j] = n
      BY <1>1 DEF InboxInOrder
    <3>1. i + 1 \in 1..Len(inbox) /\ n < inbox[i + 1]
      BY <1>2, <1>3
    <3>2. n \in received \/ \E j \in 1..((i + 1) - 1) : inbox[j] = n
      BY <2>1, <2>2, <3>1 DEF InOrder, InboxInOrder
    <3>3. (i + 1) - 1 = i /\ i \in 0..Len(inbox)
      BY <1>2
    <3>4. n \in received \/ \E j \in 1..i : inbox[j] = n
      BY <3>2, <3>3
    <3> QED
      BY <1>5, <3>3, <3>4
  <2>6. MsgInOrder'
    <3> SUFFICES ASSUME NEW n \in accepted, n < inbox[1] PROVE n \in received
      BY <1>1, <1>2 DEF MsgInOrder
    <3> QED
      BY <1>1, <2>1, <2>2 DEF InOrder, InboxInOrder
  <2>7. ReceivedInOrder'
    BY <1>1, <2>1 DEF InOrder, ReceivedInOrder
  <2> QED
    BY <2>4, <2>5, <2>6, <2>7 DEF InOrder
<1> QED
  BY <1>4, <1>6

\* The callback has run.
LEMMA CallbackOrdered == ASSUME Types, Ordered, Callback PROVE Ordered'
<1> USE Domains DEF Ordered
<1>1. /\ received' = received \cup {msg} /\ msg' = 0 /\ msg # 0
      /\ UNCHANGED <<sent, pending, inbox, published, accepted, restarts, kills>>
  BY DEF Callback, session, connection, bounds, Types, ThreadTypes
<1>2. Increasing' /\ NotAhead'
  BY <1>1 DEF Increasing, NotAhead
<1>3. ASSUME Alive' PROVE InOrder'
  <2>1. Alive /\ InOrder
    BY <1>1, <1>3 DEF Alive
  <2>2. Kept'
    BY <1>1, <2>1 DEF InOrder, Kept, Got, ToSend
  <2>3. InboxInOrder'
    BY <1>1, <2>1 DEF InOrder, InboxInOrder
  <2>4. MsgInOrder' /\ ReceivedInOrder'
    BY <1>1, <2>1 DEF InOrder, MsgInOrder, ReceivedInOrder
  <2> QED
    BY <2>2, <2>3, <2>4 DEF InOrder
<1> QED
  BY <1>2, <1>3

LEMMA OrderedStep == ASSUME Types, Ordered, [Next]_vars PROVE Ordered'
<1> USE Domains DEF Ordered
\* The connection goes or comes: what was sent may have to be sent again.
<1>1. CASE sent' \in {sent, 0} /\
           UNCHANGED <<pending, inbox, msg, published, accepted, received, restarts, kills>>
  <2>1. Increasing' /\ NotAhead'
    BY <1>1 DEF Increasing, NotAhead
  <2>2. \A n : ToSend(n) => ToSend(n)'
    BY <1>1 DEF ToSend
  <2>3. Alive' => InOrder'
    BY <1>1, <2>2 DEF Alive, InOrder, Kept, Got, InboxInOrder, MsgInOrder, ReceivedInOrder
  <2> QED
    BY <2>1, <2>3
<1>2. CASE BrokerRestart
  <2>1. /\ pending' = <<>> /\ restarts' # 0
        /\ UNCHANGED <<inbox, msg, published, accepted, received>>
    BY <1>2 DEF BrokerRestart, thread, history, Types, HistoryTypes
  <2> QED
    BY <2>1, NoMessages DEF Increasing, NotAhead, Alive
<1>3. CASE Kill
  <2>1. /\ inbox' = <<>> /\ msg' = 0 /\ kills' # 0
        /\ UNCHANGED <<pending, published, accepted, received>>
    BY <1>3 DEF Kill, session, history, Types, HistoryTypes
  <2> QED
    BY <2>1, NoMessages DEF Increasing, NotAhead, Alive
<1>4. Drop \/ Reconnect \/ Connect \/ SubscribeToTopic \/ Resubscribe \/ LoopTop
      \/ ConsumeNothing \/ Sample \/ UNCHANGED vars
      => <1>1!1
  <2>1. Drop \/ Reconnect \/ Connect \/ LoopTop \/ ConsumeNothing \/ Sample
        \/ UNCHANGED vars
        => <1>1!1
    BY DEF Drop, Reconnect, Connect, LoopTop, ConsumeNothing, Sample, vars, GoTo,
       session, connection, thread, history, bounds
  <2>2. SubscribeToTopic \/ Resubscribe => <1>1!1
    BY SubscribeStep DEF history
  <2> QED
    BY <2>1, <2>2
<1> QED
  BY <1>1, <1>2, <1>3, <1>4, PublishOrdered, SendOrdered, AckOrdered, ConsumeOrdered,
     CallbackOrdered DEF Next, Thread

\* Messages come in order and without a gap, however often the connection is lost
\* and messages are sent again, as long as neither process dies.
THEOREM MessagesInOrder == Spec => []NoGap
<1>1. Init => Ordered
  BY NoMessages DEF Init, Ordered, Increasing, NotAhead, InOrder, Kept, InboxInOrder,
     MsgInOrder, ReceivedInOrder
<1>2. Types /\ Ordered /\ [Next]_vars => Ordered'
  BY OrderedStep
<1>3. Ordered => NoGap
  BY DEF Ordered, Alive, InOrder, ReceivedInOrder, NoGap
<1> QED
  BY <1>1, <1>2, <1>3, Invariance, PTL DEF Spec

-------------------------------------------------------------------------------
(* The safety half of SessionKeepsTopic *)

\* While the broker keeps its sessions, the topic is in the session or the next
\* loops of run() will subscribe to it.
TopicOrFlag == restarts = 0 => subscribed \/ was_disconnected

\* run() never takes the topic for subscribed when it is not, although it ignores
\* the result of subscribe_to_topic and misses disconnections, unless the broker
\* restarts: that this exception is needed is the finding of TopicsActive.
THEOREM FlagIsHonest == Spec => []TopicOrFlag
<1>1. Init => TopicOrFlag
  BY DEF Init, TopicOrFlag
<1>2. ASSUME Types, TopicOrFlag, [Next]_vars PROVE TopicOrFlag'
  <2> USE <1>2 DEF TopicOrFlag
  <2>1. CASE Connect \/ LoopTop \/ Consume \/ ConsumeNothing \/ Callback
    BY <2>1 DEF Connect, LoopTop, Consume, ConsumeNothing, Callback, session, bounds
  <2>2. CASE SubscribeToTopic
    BY <2>2 DEF SubscribeToTopic
  <2>3. CASE Resubscribe
    BY <2>3 DEF Resubscribe, SubscribeSucceeds, SubscribeThrows, session, bounds
  <2>4. CASE Sample
    BY <2>4 DEF Sample, session, bounds, Types, FlagTypes
  <2>5. CASE Publish \/ Send \/ Ack \/ Drop \/ Reconnect
    BY <2>5 DEF Publish, Send, Ack, Drop, Reconnect, session, thread, bounds
  <2>6. CASE BrokerRestart
    BY <2>6 DEF BrokerRestart, Types, HistoryTypes
  <2>7. CASE Kill
    BY <2>7 DEF Kill
  <2>8. CASE UNCHANGED vars
    BY <2>8 DEF vars, session, thread, bounds
  <2> QED
    BY <1>2, <2>1, <2>2, <2>3, <2>4, <2>5, <2>6, <2>7, <2>8 DEF Next, Thread
<1> QED
  BY <1>1, <1>2, Invariance, PTL DEF Spec

===============================================================================
