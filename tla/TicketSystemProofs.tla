-------------------------- MODULE TicketSystemProofs --------------------------
(***************************************************************************)
(* Safety of TicketSystem for every set of gates and workers, every clock  *)
(* and every number of deliveries, tickets shown, faults and kills.  What  *)
(* BackOfficeProofs says of the office is used as it is.                   *)
(***************************************************************************)
EXTENDS TicketSystem, FiniteSetTheorems, SequenceTheorems, TLAPS

OP == INSTANCE BackOfficeProofs WITH MaxCreates <- MaxDeliveries

USE ClientsAssumption, ShownAssumption, OfficeAssumption, NoCallAssumption,
    SecondsPerDayAssumption, IntValuesAssumption

\* BackOffice's assumptions hold of this office.
LEMMA OfficeAssumed ==
  /\ Faults \subseteq OP!AllFaults
  /\ /\ MaxClock \in Nat /\ MaxDeliveries \in Nat
     /\ MaxCrashes \in Nat /\ MaxFaults \in Nat
BY DEF OP!AllFaults

USE OfficeAssumed

-------------------------------------------------------------------------------
(* The office of TicketSystem is the one of BackOfficeProofs *)

LEMMA SameReceive ==
  ASSUME NEW w \in Workers
  PROVE  /\ \A date, number : Office!ReceiveCreateOf(w, date, number) =>
                                 OP!ReceiveCreateOf(w, date, number)
         /\ \A t : Office!ReceiveValidateOf(w, t) => OP!ReceiveValidateOf(w, t)
<1>1. \A t : Office!Receive(w, t) = OP!Receive(w, t)
  BY Zenon DEF Office!Receive, OP!Receive, Office!office, OP!office
<1>2. \A s : Office!Answer(w, s) = OP!Answer(w, s) /\ Office!GoTo(w, s) = OP!GoTo(w, s)
  BY Zenon DEF Office!Answer, OP!Answer, Office!GoTo, OP!GoTo
<1>3. \A x : Office!ToInt(x) = OP!ToInt(x)
  BY Zenon DEF Office!ToInt, OP!ToInt
<1>4. \A date, v : Office!Sellable(date, v) = OP!Sellable(date, v)
  BY Zenon DEF Office!Sellable, OP!Sellable, Office!Expired, OP!Expired,
     Office!ExpiryDate, OP!ExpiryDate
<1>5. Office!BadRequest = OP!BadRequest
  BY DEF Office!BadRequest, OP!BadRequest
<1>6. ASSUME NEW date, NEW number, Office!ReceiveCreateOf(w, date, number)
      PROVE  OP!ReceiveCreateOf(w, date, number)
  BY <1>1, <1>2, <1>3, <1>4, <1>5, <1>6, Zenon
  DEF Office!ReceiveCreateOf, OP!ReceiveCreateOf
<1>7. \A t : Office!ReceiveValidateOf(w, t) => OP!ReceiveValidateOf(w, t)
  BY <1>1, <1>2, Zenon DEF Office!ReceiveValidateOf, OP!ReceiveValidateOf
<1> QED
  BY <1>6, <1>7

\* The handlers, up to the response.
OfficeWork(w) ==
    \/ OP!GetLastTicketId(w)
    \/ OP!SaveTruncate(w) \/ OP!SaveThrows(w) \/ OP!SaveWrite(w)
    \/ OP!OpenFault(w) \/ OP!WriteFault(w)
    \/ OP!Validate(w)

LEMMA SameWork ==
  ASSUME NEW w \in Workers, Work(w)
  PROVE  OfficeWork(w) /\ UNCHANGED <<http, history>>
<1> USE DEF Office!Answer, OP!Answer, Office!Throw, OP!Throw, Office!GoTo, OP!GoTo,
        Office!office, OP!office, Office!bounds, OP!bounds, Office!Created, OP!Created,
        Office!ServerError, OP!ServerError, OfficeWork
<1>1. Office!GetLastTicketId(w) => OP!GetLastTicketId(w)
  BY Zenon DEF Office!GetLastTicketId, OP!GetLastTicketId, Office!Ids, OP!Ids,
     Office!Max, OP!Max, Office!Range, OP!Range
<1>2. /\ Office!SaveTruncate(w) => OP!SaveTruncate(w)
      /\ Office!SaveThrows(w) => OP!SaveThrows(w)
      /\ Office!SaveWrite(w) => OP!SaveWrite(w)
  BY Zenon DEF Office!SaveTruncate, OP!SaveTruncate, Office!SaveThrows, OP!SaveThrows,
     Office!SaveWrite, OP!SaveWrite
<1>3. /\ Office!OpenFault(w) => OP!OpenFault(w)
      /\ Office!WriteFault(w) => OP!WriteFault(w)
  BY Zenon DEF Office!OpenFault, OP!OpenFault, Office!WriteFault, OP!WriteFault
<1>4. Office!Validate(w) => OP!Validate(w)
  BY Zenon DEF Office!Validate, OP!Validate, Office!Ids, OP!Ids, Office!Range, OP!Range,
     Office!Stored, OP!Stored, Office!ExpiredOutcomes, OP!ExpiredOutcomes,
     Office!IntProducts, OP!IntProducts, Office!ToInt, OP!ToInt, Office!NotFound,
     OP!NotFound, Office!Gone, OP!Gone, Office!OK, OP!OK
<1> QED
  BY <1>1, <1>2, <1>3, <1>4, Zenon DEF Work

LEMMA SameRest ==
  /\ Office!Init => OP!Init
  /\ \A w \in Workers : Office!Respond(w) => OP!Respond(w)
  /\ Office!Crash => OP!Crash
  /\ Office!Tick => OP!Tick
<1>1. Office!UnknownTicket = OP!UnknownTicket /\ Office!NothingSeen = OP!NothingSeen
  BY DEF Office!UnknownTicket, OP!UnknownTicket, Office!NothingSeen, OP!NothingSeen
<1>2. Office!Init => OP!Init
  BY <1>1, Zenon DEF Office!Init, OP!Init
<1>3. \A w \in Workers : Office!Respond(w) => OP!Respond(w)
  BY <1>1, Zenon DEF Office!Respond, OP!Respond, Office!office, OP!office,
     Office!bounds, OP!bounds, Office!Created, OP!Created, Office!Gone, OP!Gone
<1>4. Office!Crash => OP!Crash
  BY <1>1, Zenon DEF Office!Crash, OP!Crash
<1>5. Office!Tick => OP!Tick
  BY Zenon DEF Office!Tick, OP!Tick, Office!office, OP!office, Office!bounds, OP!bounds
<1> QED
  BY <1>2, <1>3, <1>4, <1>5

LEMMA SameState ==
  /\ Office!Tickets = OP!Tickets /\ Office!Log = OP!Log
  /\ Office!UnknownTicket = OP!UnknownTicket
  /\ OP!TypeOK => Office!TypeOK
<1>1. Office!Ints = OP!Ints
  BY DEF Office!Ints, OP!Ints
<1>2. Office!Tickets = OP!Tickets
  BY <1>1 DEF Office!Tickets, OP!Tickets
<1>3. Office!Log = OP!Log
  BY DEF Office!Log, OP!Log
<1>4. OP!TypeOK => Office!TypeOK
  BY <1>2, Zenon DEF Office!TypeOK, OP!TypeOK, Office!Labels, OP!Labels,
     Office!Created, OP!Created, Office!OK, OP!OK, Office!BadRequest, OP!BadRequest,
     Office!NotFound, OP!NotFound, Office!Gone, OP!Gone, Office!ServerError, OP!ServerError
<1>5. Office!UnknownTicket = OP!UnknownTicket
  BY DEF Office!UnknownTicket, OP!UnknownTicket
<1> QED
  BY <1>2, <1>3, <1>4, <1>5

LEMMA SameDates ==
  /\ \A x : ToInt(x) = OP!ToInt(x)
  /\ \A date, validity : ExpiryDate(date, validity) = OP!ExpiryDate(date, validity)
BY Zenon DEF ToInt, OP!ToInt, ExpiryDate, OP!ExpiryDate

-------------------------------------------------------------------------------
(* The steps *)

Served(w, c) ==
    /\ wire' = wire \ {c}
    /\ serving' = [serving EXCEPT ![w] = c]
    /\ \/ /\ c.client = Tvm
          /\ OP!ReceiveCreateOf(w, c.body.request_date, c.body.validity_in_days)
       \/ /\ c.client # Tvm
          /\ OP!ReceiveValidateOf(w, c.body)
    /\ UNCHANGED <<call, made, answers, history>>

Worked(w) == OfficeWork(w) /\ UNCHANGED <<http, history>>

Replied(w) ==
    /\ OP!Respond(w)
    /\ answers' =
          IF serving[w] \in Range(call)
          THEN answers \cup {[call |-> serving[w], status |-> reply[w],
                              ticket |-> ticket[w]]}
          ELSE answers
    /\ serving' = [serving EXCEPT ![w] = NoCall]
    /\ UNCHANGED <<call, made, wire, history>>

Crashed ==
    /\ OP!Crash
    /\ wire' = {}
    /\ serving' = [w \in Workers |-> NoCall]
    /\ UNCHANGED <<call, made, answers, history>>

Ticked == OP!Tick /\ UNCHANGED <<http, history>>

\* What the office does, and what the clients do.
OfficeStep ==
    \/ \E w \in Workers : (\E c \in wire : Served(w, c)) \/ Worked(w) \/ Replied(w)
    \/ Crashed \/ Ticked

TvmStep ==
    \/ DiscardRequest
    \/ \E r \in Requests : PostRequest(r)
    \/ \E a \in answers : PostAnswered(a)
    \/ PostFailed

GateStep(g) ==
    \/ \E t \in issued : ShowTicket(g, t)
    \/ \E a \in answers : DecideOnline(g, a)
    \/ DecideOffline(g)

LEMMA StepCases ==
  ASSUME [Next]_vars
  PROVE  OfficeStep \/ TvmStep \/ (\E g \in Gates : GateStep(g)) \/ UNCHANGED vars
<1>1. ASSUME VendingMachine PROVE TvmStep
  <2>1. ASSUME NEW r \in Requests \cup {Malformed}, OnNewTicket(r) PROVE TvmStep
    BY <2>1 DEF OnNewTicket, Parses, TvmStep
  <2> QED
    BY <1>1, <2>1, Zenon DEF VendingMachine, TvmStep
<1>2. ASSUME NEW g \in Gates, Gate(g) PROVE GateStep(g)
  BY <1>2, Zenon DEF Gate, GateStep
<1>3. ASSUME NEW w \in Workers, Serve(w) PROVE \E c \in wire : Served(w, c)
  BY <1>3, SameReceive, Zenon DEF Serve, Served
<1>4. ASSUME NEW w \in Workers, Work(w) PROVE Worked(w)
  BY <1>4, SameWork DEF Worked
<1>5. ASSUME NEW w \in Workers, Reply(w) PROVE Replied(w)
  BY <1>5, SameRest, Zenon DEF Reply, Replied
<1>6. OfficeCrash => Crashed
  BY SameRest, Zenon DEF OfficeCrash, Crashed
<1>7. Tick => Ticked
  BY SameRest, Zenon DEF Tick, Ticked
<1> QED
  BY <1>1, <1>2, <1>3, <1>4, <1>5, <1>6, <1>7, Zenon DEF Next, OfficeStep

-------------------------------------------------------------------------------
(* Calls *)

AnswerRecords == [call : Calls, status : Statuses, ticket : OP!Tickets]

HttpTypes ==
    /\ call \in [Clients -> Calls \cup {NoCall}]
    /\ made \in [Clients -> Nat]
    /\ wire \subseteq Calls
    /\ serving \in [Workers -> Calls \cup {NoCall}]
    /\ answers \subseteq AnswerRecords

\* c was made by its client, before now, about what such a client calls about.
Made(c) ==
    /\ c.number <= made[c.client] /\ c.at <= now
    /\ c.client = Tvm => c.body \in Requests
    /\ c.client # Tvm => c.body \in issued

MadeCalls == {c \in Calls : Made(c)}

AllMade ==
    /\ \A k \in Clients :
          call[k] # NoCall => call[k].client = k /\ call[k] \in MadeCalls
    /\ wire \subseteq MadeCalls
    /\ \A w \in Workers : serving[w] # NoCall => serving[w] \in MadeCalls
    /\ \A a \in answers : a.call = call[a.call.client]

\* A call is on its way, or with one worker, or has one answer on its way.
Once ==
    /\ \A w \in Workers :
          serving[w] # NoCall => /\ serving[w] \notin wire
                                 /\ \A v \in Workers \ {w} : serving[v] # serving[w]
    /\ \A a \in answers :
          /\ a.call \notin wire
          /\ \A w \in Workers : serving[w] # a.call
          /\ \A b \in answers : a.call = b.call => a = b

HttpInv == HttpTypes /\ AllMade /\ Once

\* The tickets sold and refused are among those the office acknowledged.
HistoryTypes ==
    /\ delivered \in [Requests -> Nat] /\ failed \in Nat
    /\ issued \subseteq acked /\ refused \subseteq issued
    /\ verdict \in [Gates -> [ticket : OP!Tickets, valid : BOOLEAN,
                              status : Statuses \cup {0}, asked : Nat,
                              hopeless : BOOLEAN]]

\* What a worker does follows from the call it serves.
SellReplies == {OP!Created, OP!BadRequest, OP!ServerError}
ValidateReplies == {OP!OK, OP!NotFound, OP!Gone, OP!ServerError}

Working ==
    \A w \in Workers :
        /\ pc[w] = "idle" <=> serving[w] = NoCall
        /\ serving[w] # NoCall /\ serving[w].client = Tvm =>
              /\ pc[w] \in {"lastId", "save", "write", "reply"}
              /\ pc[w] = "reply" => reply[w] \in SellReplies
              /\ ticket[w].creation_date = serving[w].body.request_date
              /\ ticket[w].validity_in_days = ToInt(serving[w].body.validity_in_days)
        /\ serving[w] # NoCall /\ serving[w].client # Tvm =>
              /\ pc[w] \in {"find", "reply"}
              /\ pc[w] = "reply" => reply[w] \in ValidateReplies
              /\ ticket[w] = serving[w].body

Answering ==
    \A a \in answers :
        /\ a.call.client = Tvm => /\ a.status \in SellReplies
                                  /\ a.status = OP!Created => a.ticket \in acked
        /\ a.call.client # Tvm => /\ a.status \in ValidateReplies
                                  /\ a.ticket = a.call.body

Inv == OP!Inv /\ HttpInv /\ HistoryTypes /\ Working /\ Answering

LEMMA SameStatuses ==
  Statuses = {OP!Created, OP!OK, OP!BadRequest, OP!NotFound, OP!Gone, OP!ServerError}
BY DEF Statuses, Office!Created, OP!Created, Office!OK, OP!OK, Office!BadRequest,
   OP!BadRequest, Office!NotFound, OP!NotFound, Office!Gone, OP!Gone,
   Office!ServerError, OP!ServerError

LEMMA InvIsTypeOK == Inv => TypeOK
<1> SUFFICES ASSUME Inv PROVE TypeOK
  OBVIOUS
<1>1. Office!TypeOK /\ Office!Tickets = OP!Tickets
  BY SameState DEF Inv, OP!Inv
<1>2. \A a \in answers :
         a.call \in Range(call) /\ a.status \in Statuses /\ a.ticket \in Office!Tickets
  <2> SUFFICES ASSUME NEW a \in answers
               PROVE  a.call \in Range(call) /\ a.status \in Statuses
                      /\ a.ticket \in Office!Tickets
    OBVIOUS
  <2>1. a.call \in Calls /\ a.status \in Statuses /\ a.ticket \in OP!Tickets
    BY DEF Inv, HttpInv, HttpTypes, AnswerRecords
  <2>2. a.call.client \in Clients /\ a.call = call[a.call.client]
    BY <2>1 DEF Inv, HttpInv, AllMade, Calls
  <2>3. DOMAIN call = Clients
    BY DEF Inv, HttpInv, HttpTypes
  <2> QED
    BY <1>1, <2>1, <2>2, <2>3 DEF Range
<1>3. issued \subseteq Office!Tickets /\ refused \subseteq Office!Tickets
  BY <1>1 DEF Inv, HistoryTypes, OP!Inv, OP!TypeOK
<1> QED
  BY <1>1, <1>2, <1>3 DEF TypeOK, Inv, HttpInv, HttpTypes, HistoryTypes

LEMMA InitInv == Init => Inv
<1> SUFFICES ASSUME Init PROVE Inv
  OBVIOUS
<1>1. OP!Init
  BY SameRest, Zenon DEF Init
<1>0. OP!Inv
  BY <1>1, OP!InitInv, Zenon
<1>2. HttpInv
  BY DEF Init, HttpInv, HttpTypes, AllMade, Once
<1>3. NoVerdict \in [ticket : OP!Tickets, valid : BOOLEAN, status : Statuses \cup {0},
                     asked : Nat, hopeless : BOOLEAN]
  <2>1. Office!UnknownTicket \in OP!Tickets
    BY SameState, OP!UnknownIsTicket, Zenon
  <2> QED
    BY <2>1 DEF NoVerdict
<1>4. HistoryTypes
  BY <1>3 DEF Init, HistoryTypes
<1>5. Working /\ Answering
  BY <1>1 DEF Init, Working, Answering, OP!Init
<1> QED
  BY <1>0, <1>2, <1>4, <1>5 DEF Inv

-------------------------------------------------------------------------------
(* What each step does to the calls *)

\* A call stays made.
LEMMA MadeStays ==
  ASSUME HttpTypes, HttpTypes', now \in Nat, now' \in Nat,
         \A k \in Clients : made[k] <= made'[k], now <= now', issued \subseteq issued'
  PROVE  MadeCalls \subseteq MadeCalls'
<1> SUFFICES ASSUME NEW c \in Calls, Made(c) PROVE Made(c)'
  BY DEF MadeCalls
<1>1. c.client \in Clients /\ c.number \in Nat /\ c.at \in Nat
  BY DEF Calls
<1> QED
  BY <1>1 DEF Made, HttpTypes

\* An answer on its way is to a call its client waits for.
LEMMA AnswerIsAwaited ==
  ASSUME Inv, NEW a \in answers
  PROVE  /\ a.call \in MadeCalls /\ a.call # NoCall /\ a.call.client \in Clients
         /\ a.call = call[a.call.client]
         /\ a.status \in Statuses /\ a.ticket \in OP!Tickets
<1>1. a.call \in Calls /\ a.status \in Statuses /\ a.ticket \in OP!Tickets
  BY DEF Inv, HttpInv, HttpTypes, AnswerRecords
<1>2. a.call # NoCall /\ a.call.client \in Clients /\ a.call = call[a.call.client]
  BY <1>1 DEF Inv, HttpInv, AllMade, Calls
<1>3. a.call \in MadeCalls
  BY <1>2 DEF Inv, HttpInv, AllMade
<1> QED
  BY <1>1, <1>2, <1>3

\* A client calls: the call is a new one.
LEMMA CallInv ==
  ASSUME Inv, NEW k \in Clients, NEW body \in Bodies, Call(k, body),
         k = Tvm => body \in Requests, k # Tvm => body \in issued,
         UNCHANGED <<officeVars, serving, answers, issued>>
  PROVE  HttpInv' /\ Working' /\ Answering'
<1>1. /\ now' = now /\ now \in Nat /\ made[k] \in Nat
      /\ pc' = pc /\ reply' = reply /\ ticket' = ticket /\ acked' = acked
  BY DEF officeVars, Inv, OP!Inv, OP!TypeOK, HttpInv, HttpTypes
<1>2. PICK c \in Calls :
        /\ c.client = k /\ c.number = made[k] + 1 /\ c.body = body /\ c.at = now
        /\ call[k] = NoCall /\ call' = [call EXCEPT ![k] = c]
        /\ made' = [made EXCEPT ![k] = @ + 1] /\ wire' = wire \cup {c}
  <2> DEFINE sent == [client |-> k, number |-> made[k] + 1, body |-> body, at |-> now,
                      hopeless |-> body \in refused]
  <2>1. (body \in refused) \in BOOLEAN
    OBVIOUS
  <2>2. sent \in Calls
    BY <1>1, <2>1 DEF Calls
  <2>3. /\ sent.client = k /\ sent.number = made[k] + 1
        /\ sent.body = body /\ sent.at = now
    OBVIOUS
  <2>4. /\ call[k] = NoCall /\ call' = [call EXCEPT ![k] = sent]
        /\ made' = [made EXCEPT ![k] = @ + 1] /\ wire' = wire \cup {sent}
    BY Zenon DEF Call
  <2> HIDE DEF sent
  <2> QED
    BY <2>2, <2>3, <2>4
<1>3. c # NoCall /\ made'[k] = made[k] + 1
  BY <1>2 DEF Inv, HttpInv, HttpTypes
<1>4. HttpTypes'
  BY <1>1, <1>2 DEF Inv, HttpInv, HttpTypes
<1>5. MadeCalls \subseteq MadeCalls'
  <2>1. \A j \in Clients : made[j] <= made'[j]
    BY <1>2 DEF Inv, HttpInv, HttpTypes
  <2> QED
    BY <1>1, <1>4, <2>1, MadeStays DEF Inv, HttpInv
<1>6. c \in MadeCalls' /\ c \notin MadeCalls
  <2>1. Made(c)' /\ ~Made(c)
    BY <1>1, <1>2, <1>3 DEF Made
  <2> QED
    BY <2>1 DEF MadeCalls
<1>7. \A a \in answers : a.call # c /\ a.call.client # k
  BY <1>2, <1>6, AnswerIsAwaited
<1>8. \A w \in Workers : serving[w] # c
  BY <1>3, <1>6 DEF Inv, HttpInv, AllMade
<1>9. c \notin wire
  BY <1>6 DEF Inv, HttpInv, AllMade
<1>10. AllMade'
  <2>1. ASSUME NEW j \in Clients, call'[j] # NoCall
        PROVE  call'[j].client = j /\ call'[j] \in MadeCalls'
    <3>1. call'[j] = IF j = k THEN c ELSE call[j]
      BY <1>2 DEF Inv, HttpInv, HttpTypes
    <3> QED
      BY <1>2, <1>5, <1>6, <2>1, <3>1 DEF Inv, HttpInv, AllMade
  <2>2. wire' \subseteq MadeCalls'
    BY <1>2, <1>5, <1>6 DEF Inv, HttpInv, AllMade
  <2>3. ASSUME NEW w \in Workers, serving[w] # NoCall PROVE serving[w] \in MadeCalls'
    BY <1>5, <2>3 DEF Inv, HttpInv, AllMade
  <2>4. ASSUME NEW a \in answers PROVE a.call = call'[a.call.client]
    <3>1. a.call.client \in Clients \ {k} /\ a.call = call[a.call.client]
      BY <1>7, AnswerIsAwaited
    <3> QED
      BY <1>2, <3>1 DEF Inv, HttpInv, HttpTypes
  <2> QED
    BY <2>1, <2>2, <2>3, <2>4 DEF AllMade
<1>11. Once'
  BY <1>2, <1>7, <1>8 DEF Inv, HttpInv, Once
<1>12. Working' /\ Answering'
  BY <1>1 DEF Inv, Working, Answering
<1> QED
  BY <1>4, <1>10, <1>11, <1>12 DEF HttpInv

\* What the end of a call leaves: the other calls, and no answer to this one.
Ended(k) ==
    /\ call[k] # NoCall /\ call' = [call EXCEPT ![k] = NoCall]
    /\ wire' \subseteq wire /\ answers' \subseteq answers
    /\ \A a \in answers' : a.call # call[k]
    /\ UNCHANGED <<made, serving>>

LEMMA ReturnsEnds ==
  ASSUME Inv, NEW k \in Clients, NEW a \in answers, Returns(k, a) PROVE Ended(k)
<1>1. call[k] # NoCall
  BY AnswerIsAwaited DEF Returns
<1>2. \A b \in answers' : b.call # call[k]
  BY DEF Returns, Inv, HttpInv, Once
<1> QED
  BY <1>1, <1>2 DEF Returns, Ended

LEMMA ReturnsNothingEnds ==
  ASSUME NEW k \in Clients, ReturnsNothing(k) PROVE Ended(k)
BY DEF ReturnsNothing, Ended

LEMMA EndInv ==
  ASSUME Inv, NEW k \in Clients, Ended(k), UNCHANGED officeVars, issued \subseteq issued'
  PROVE  HttpInv' /\ Working' /\ Answering'
<1>1. /\ now' = now /\ now \in Nat
      /\ pc' = pc /\ reply' = reply /\ ticket' = ticket /\ acked' = acked
  BY DEF officeVars, Inv, OP!Inv, OP!TypeOK
<1>2. HttpTypes'
  BY DEF Ended, Inv, HttpInv, HttpTypes
<1>3. MadeCalls \subseteq MadeCalls'
  <2>1. \A j \in Clients : made[j] <= made'[j]
    BY DEF Inv, HttpInv, HttpTypes, Ended
  <2> QED
    BY <1>1, <1>2, <2>1, MadeStays DEF Inv, HttpInv
<1>4. ASSUME NEW a \in answers' PROVE a.call = call'[a.call.client]
  <2>1. a.call.client \in Clients /\ a.call = call[a.call.client]
    BY AnswerIsAwaited DEF Ended
  <2>2. a.call.client # k
    BY <2>1 DEF Ended
  <2> QED
    BY <2>1, <2>2 DEF Ended, Inv, HttpInv, HttpTypes
<1>5. \A j \in Clients : call'[j] = IF j = k THEN NoCall ELSE call[j]
  BY DEF Ended, Inv, HttpInv, HttpTypes
<1>6. AllMade'
  BY <1>3, <1>4, <1>5 DEF Ended, Inv, HttpInv, AllMade
<1>7. Once'
  BY DEF Ended, Inv, HttpInv, Once
<1>8. Working' /\ Answering'
  BY <1>1 DEF Ended, Inv, Working, Answering
<1> QED
  BY <1>2, <1>6, <1>7, <1>8 DEF HttpInv

-------------------------------------------------------------------------------
(* What each step does in the office *)

\* The worker that takes a call was idle, and knows what the call is about.
LEMMA ServedFacts ==
  ASSUME Inv, NEW w \in Workers, NEW c \in wire, Served(w, c)
  PROVE  /\ c \in MadeCalls /\ c # NoCall /\ pc[w] = "idle" /\ OP!ReceiveRequest(w)
         /\ UNCHANGED <<OP!office, now, faults, acked>>
         /\ c.client = Tvm =>
               /\ \/ pc'[w] = "reply" /\ reply'[w] = OP!BadRequest
                  \/ pc'[w] = "lastId"
               /\ ticket'[w] = [ticket_id |-> 0, creation_date |-> c.body.request_date,
                                validity_in_days |-> ToInt(c.body.validity_in_days)]
         /\ c.client # Tvm => pc'[w] = "find" /\ ticket'[w] = c.body
         /\ \A v \in Workers \ {w} :
               UNCHANGED <<pc[v], ticket[v], reply[v], seen[v], data[v], serving[v]>>
<1>1. c \in MadeCalls /\ c \in Calls /\ Made(c) /\ c # NoCall
  BY DEF Inv, HttpInv, AllMade, MadeCalls
<1>2. OP!Inv /\ pc \in [Workers -> OP!Labels] /\ ticket \in [Workers -> OP!Tickets]
      /\ DOMAIN reply = Workers /\ serving \in [Workers -> Calls \cup {NoCall}]
  BY DEF Inv, OP!Inv, OP!TypeOK, HttpInv, HttpTypes
<1>3. OP!ReceiveRequest(w)
  <2>1. CASE c.client = Tvm
    <3>1. c.body.request_date \in Dates /\ c.body.validity_in_days \in Validities
      BY <1>1, <2>1 DEF Made, Requests
    <3>2. OP!ReceiveCreateOf(w, c.body.request_date, c.body.validity_in_days)
      BY <2>1 DEF Served
    <3> QED
      BY <3>1, <3>2, Zenon DEF OP!ReceiveRequest, OP!ReceiveCreate
  <2>2. CASE c.client # Tvm
    <3>1. c.body \in acked
      BY <1>1, <2>2 DEF Made, Inv, HistoryTypes
    <3>2. OP!ReceiveValidateOf(w, c.body)
      BY <2>2 DEF Served
    <3> QED
      BY <3>1, <3>2, Zenon DEF OP!ReceiveRequest, OP!ReceiveValidate
  <2> QED
    BY <2>1, <2>2
<1>4. pc[w] = "idle" /\ UNCHANGED <<OP!office, now, faults, acked>>
  BY <1>2, <1>3, OP!Received
<1>5. ASSUME c.client = Tvm
      PROVE  /\ \/ pc'[w] = "reply" /\ reply'[w] = OP!BadRequest
                \/ pc'[w] = "lastId"
             /\ ticket'[w] = [ticket_id |-> 0, creation_date |-> c.body.request_date,
                              validity_in_days |-> ToInt(c.body.validity_in_days)]
  <2> DEFINE t == [ticket_id |-> 0, creation_date |-> c.body.request_date,
                   validity_in_days |-> ToInt(c.body.validity_in_days)]
  <2>1. /\ OP!Receive(w, t)
        /\ OP!Answer(w, OP!BadRequest) \/ OP!GoTo(w, "lastId")
    BY <1>5, SameDates, Zenon DEF Served, OP!ReceiveCreateOf
  <2>2. ticket' = [ticket EXCEPT ![w] = t]
    BY <2>1, Zenon DEF OP!Receive
  <2> HIDE DEF t
  <2>3. ticket'[w] = t
    BY <1>2, <2>2
  <2> QED
    BY <1>2, <2>1, <2>3 DEF OP!Answer, OP!GoTo, t
<1>6. c.client # Tvm => pc'[w] = "find" /\ ticket'[w] = c.body
  BY <1>2 DEF Served, OP!ReceiveValidateOf, OP!Receive, OP!GoTo
<1>7. \A v \in Workers \ {w} :
         UNCHANGED <<pc[v], ticket[v], reply[v], seen[v], data[v]>>
  BY <1>2, <1>3, OP!Frame
<1>8. \A v \in Workers \ {w} : serving'[v] = serving[v]
  BY <1>2 DEF Served
<1> QED
  BY <1>1, <1>3, <1>4, <1>5, <1>6, <1>7, <1>8

\* A worker that works gets on with selling, or has the verdict.
LEMMA WorkedFacts ==
  ASSUME Inv, NEW w \in Workers, Worked(w)
  PROVE  /\ OP!Handle(w) /\ UNCHANGED <<now, acked>>
         /\ \/ /\ pc[w] \in {"lastId", "save", "write"}
               /\ pc'[w] \in {"save", "write", "reply"}
               /\ pc'[w] = "reply" => reply'[w] \in {OP!Created, OP!ServerError}
            \/ /\ pc[w] = "find" /\ pc'[w] = "reply"
               /\ reply'[w] \in ValidateReplies /\ ticket' = ticket
         /\ ticket'[w].creation_date = ticket[w].creation_date
         /\ ticket'[w].validity_in_days = ticket[w].validity_in_days
         /\ \A v \in Workers \ {w} : UNCHANGED <<pc[v], ticket[v], reply[v], seen[v], data[v]>>
<1>1. OP!Inv /\ pc \in [Workers -> OP!Labels] /\ ticket \in [Workers -> OP!Tickets]
      /\ DOMAIN reply = Workers
  BY DEF Inv, OP!Inv, OP!TypeOK
<1>2. OP!Handle(w)
  BY DEF Worked, OfficeWork, OP!Handle
<1>3. UNCHANGED <<now, acked>>
  BY DEF Worked, OfficeWork, OP!GetLastTicketId, OP!SaveTruncate, OP!SaveThrows,
     OP!SaveWrite, OP!OpenFault, OP!WriteFault, OP!Validate
<1>4. CASE OP!GetLastTicketId(w)
  <2>1. PICK id : ticket' = ticket \/ ticket' = [ticket EXCEPT ![w].ticket_id = id]
    BY <1>4 DEF OP!GetLastTicketId
  <2>2. /\ ticket'[w].creation_date = ticket[w].creation_date
        /\ ticket'[w].validity_in_days = ticket[w].validity_in_days
    BY <1>1, <2>1 DEF OP!Tickets
  <2>3. /\ pc[w] = "lastId" /\ pc'[w] \in {"save", "reply"}
        /\ pc'[w] = "reply" => reply'[w] = OP!ServerError
    BY <1>1, <1>4 DEF OP!GetLastTicketId, OP!Throw, OP!Answer, OP!GoTo
  <2> QED
    BY <1>1, <1>2, <1>3, <2>2, <2>3, OP!Frame
<1>5. CASE \/ OP!SaveTruncate(w) \/ OP!SaveThrows(w) \/ OP!SaveWrite(w)
           \/ OP!OpenFault(w) \/ OP!WriteFault(w)
  <2>1. /\ pc[w] \in {"save", "write"} /\ pc'[w] \in {"write", "reply"}
        /\ pc'[w] = "reply" => reply'[w] \in {OP!Created, OP!ServerError}
        /\ ticket' = ticket
    BY <1>1, <1>5 DEF OP!SaveTruncate, OP!SaveThrows, OP!SaveWrite, OP!OpenFault,
       OP!WriteFault, OP!Throw, OP!Answer, OP!GoTo
  <2> QED
    BY <1>1, <1>2, <1>3, <2>1, OP!Frame
<1>6. CASE OP!Validate(w)
  <2>1. /\ pc[w] = "find" /\ pc'[w] = "reply" /\ ticket' = ticket
        /\ reply'[w] \in ValidateReplies
    BY <1>1, <1>6 DEF OP!Validate, OP!Throw, OP!Answer, ValidateReplies
  <2> QED
    BY <1>1, <1>2, <1>3, <2>1, OP!Frame
<1> QED
  BY <1>4, <1>5, <1>6 DEF Worked, OfficeWork

LEMMA RepliedFacts ==
  ASSUME Inv, NEW w \in Workers, Replied(w)
  PROVE  /\ OP!Handle(w) /\ now' = now /\ acked \subseteq acked'
         /\ pc[w] = "reply" /\ serving[w] # NoCall /\ pc'[w] = "idle" /\ serving'[w] = NoCall
         /\ reply[w] = OP!Created => ticket[w] \in acked'
         /\ \A v \in Workers \ {w} :
               UNCHANGED <<pc[v], ticket[v], reply[v], seen[v], data[v], serving[v]>>
<1>1. OP!Inv /\ DOMAIN pc = Workers /\ DOMAIN serving = Workers
  BY DEF Inv, OP!Inv, OP!TypeOK, HttpInv, HttpTypes
<1>2. OP!Handle(w)
  BY DEF Replied, OP!Handle
<1>3. /\ now' = now /\ acked \subseteq acked' /\ pc[w] = "reply" /\ pc'[w] = "idle"
      /\ reply[w] = OP!Created => ticket[w] \in acked'
  BY <1>1 DEF Replied, OP!Respond
<1>4. serving[w] # NoCall
  BY <1>3 DEF Inv, Working
<1>5. serving'[w] = NoCall /\ \A v \in Workers \ {w} : serving'[v] = serving[v]
  BY <1>1 DEF Replied
<1> QED
  BY <1>1, <1>2, <1>3, <1>4, <1>5, OP!Frame

\* Every step of the system is one of the office, or leaves it as it is.
LEMMA ClientsOnly ==
  ASSUME TvmStep \/ (\E g \in Gates : GateStep(g)) \/ UNCHANGED vars
  PROVE  UNCHANGED officeVars
<1>1. TvmStep => UNCHANGED officeVars
  BY DEF TvmStep, DiscardRequest, PostRequest, PostAnswered, PostFailed
<1>2. \A g \in Gates : GateStep(g) => UNCHANGED officeVars
  BY DEF GateStep, ShowTicket, DecideOnline, DecideOffline, Decide
<1> QED
  BY <1>1, <1>2 DEF vars

LEMMA OfficeNext == ASSUME Inv, [Next]_vars PROVE [OP!Next]_(OP!vars)
<1>1. OfficeStep => OP!Next
  BY ServedFacts, WorkedFacts, RepliedFacts DEF OfficeStep, Crashed, Ticked, OP!Next
<1>2. UNCHANGED officeVars => UNCHANGED OP!vars
  BY DEF officeVars, OP!vars, OP!office, OP!bounds
<1> QED
  BY <1>1, <1>2, StepCases, ClientsOnly

-------------------------------------------------------------------------------
(* The invariant is inductive *)

\* Where no client moves, what was made stays made.
LEMMA MadeInOffice ==
  ASSUME Inv, HttpTypes', UNCHANGED <<made, issued>>, now <= now', now' \in Nat
  PROVE  MadeCalls \subseteq MadeCalls'
<1>1. \A k \in Clients : made[k] <= made'[k]
  BY DEF Inv, HttpInv, HttpTypes
<1>2. now \in Nat
  BY DEF Inv, OP!Inv, OP!TypeOK
<1> QED
  BY <1>1, <1>2, MadeStays DEF Inv, HttpInv

LEMMA NowIsNat == ASSUME Inv PROVE now \in Nat /\ now <= now
BY DEF Inv, OP!Inv, OP!TypeOK

LEMMA ServedInv ==
  ASSUME Inv, NEW w \in Workers, NEW c \in wire, Served(w, c)
  PROVE  HttpInv' /\ Working' /\ Answering'
<1>1. /\ c \in MadeCalls /\ c # NoCall /\ serving[w] = NoCall /\ c \in Calls
      /\ UNCHANGED <<now, acked>>
  BY ServedFacts DEF Inv, Working, MadeCalls
<1>2. /\ wire' = wire \ {c} /\ serving' = [serving EXCEPT ![w] = c]
      /\ UNCHANGED <<call, made, answers, issued>>
  BY DEF Served, history
<1>3. serving'[w] = c /\ \A v \in Workers \ {w} : serving'[v] = serving[v]
  BY <1>2 DEF Inv, HttpInv, HttpTypes
<1>4. HttpTypes'
  BY <1>1, <1>2 DEF Inv, HttpInv, HttpTypes
<1>5. MadeCalls \subseteq MadeCalls'
  BY <1>1, <1>2, <1>4, NowIsNat, MadeInOffice
<1>6. AllMade'
  BY <1>1, <1>2, <1>3, <1>5 DEF Inv, HttpInv, AllMade
<1>7. Once'
  BY <1>1, <1>2, <1>3 DEF Inv, HttpInv, Once
<1>8. Working'
  <2>1. ASSUME NEW v \in Workers \ {w}
        PROVE  UNCHANGED <<pc[v], ticket[v], reply[v], serving[v]>>
    BY ServedFacts
  <2>2. /\ c.client = Tvm =>
              /\ pc'[w] \in {"lastId", "reply"}
              /\ pc'[w] = "reply" => reply'[w] \in SellReplies
              /\ ticket'[w].creation_date = c.body.request_date
              /\ ticket'[w].validity_in_days = ToInt(c.body.validity_in_days)
        /\ c.client # Tvm => pc'[w] = "find" /\ ticket'[w] = c.body
    <3>1. ASSUME c.client = Tvm
          PROVE  /\ \/ pc'[w] = "reply" /\ reply'[w] = OP!BadRequest
                    \/ pc'[w] = "lastId"
                 /\ ticket'[w] = [ticket_id |-> 0, creation_date |-> c.body.request_date,
                                  validity_in_days |-> ToInt(c.body.validity_in_days)]
      BY <3>1, ServedFacts, Zenon
    <3>2. c.client = Tvm =>
              /\ ticket'[w].creation_date = c.body.request_date
              /\ ticket'[w].validity_in_days = ToInt(c.body.validity_in_days)
      BY <3>1
    <3>3. c.client # Tvm => pc'[w] = "find" /\ ticket'[w] = c.body
      BY ServedFacts, Zenon
    <3> QED
      BY <3>1, <3>2, <3>3 DEF SellReplies
  <2>3. pc'[w] # "idle" /\ serving'[w] # NoCall
    BY <1>1, <1>3, ServedFacts
  <2> QED
    BY <1>3, <2>1, <2>2, <2>3 DEF Inv, Working
<1>9. Answering'
  BY <1>1, <1>2 DEF Inv, Answering
<1> QED
  BY <1>4, <1>6, <1>7, <1>8, <1>9 DEF HttpInv

LEMMA WorkedInv ==
  ASSUME Inv, NEW w \in Workers, Worked(w)
  PROVE  HttpInv' /\ Working' /\ Answering'
<1>1. UNCHANGED <<call, made, wire, serving, answers, issued, now, acked>>
  BY WorkedFacts DEF Worked, http, history
<1>2. HttpTypes'
  BY <1>1 DEF Inv, HttpInv, HttpTypes
<1>3. MadeCalls \subseteq MadeCalls'
  BY <1>1, <1>2, NowIsNat, MadeInOffice
<1>4. AllMade'
  BY <1>1, <1>3 DEF Inv, HttpInv, AllMade
<1>5. Once' /\ Answering'
  BY <1>1 DEF Inv, HttpInv, Once, Answering
<1>6. Working'
  <2>1. ASSUME NEW v \in Workers \ {w}
        PROVE  UNCHANGED <<pc[v], ticket[v], reply[v]>>
    BY WorkedFacts
  <2>2. CASE /\ pc[w] \in {"lastId", "save", "write"}
             /\ pc'[w] \in {"save", "write", "reply"}
             /\ pc'[w] = "reply" => reply'[w] \in {OP!Created, OP!ServerError}
             /\ ticket'[w].creation_date = ticket[w].creation_date
             /\ ticket'[w].validity_in_days = ticket[w].validity_in_days
    BY <1>1, <2>1, <2>2 DEF Inv, Working, SellReplies
  <2>3. CASE /\ pc[w] = "find" /\ pc'[w] = "reply"
             /\ reply'[w] \in ValidateReplies /\ ticket' = ticket
    BY <1>1, <2>1, <2>3 DEF Inv, Working
  <2> QED
    BY <2>2, <2>3, WorkedFacts
<1> QED
  BY <1>2, <1>4, <1>5, <1>6 DEF HttpInv

\* The response, if the client still waits for it.
LEMMA RepliedAnswer ==
  ASSUME Inv, NEW w \in Workers, Replied(w)
  PROVE  /\ serving[w] \in MadeCalls
         /\ \/ answers' = answers
            \/ \E a \in AnswerRecords :
                  /\ a.call = serving[w] /\ a.status = reply[w] /\ a.ticket = ticket[w]
                  /\ a.call = call[a.call.client]
                  /\ answers' = answers \cup {a}
<1>1. serving[w] \in MadeCalls /\ serving[w] \in Calls /\ serving[w] # NoCall
  BY RepliedFacts DEF Inv, HttpInv, AllMade, MadeCalls
<1>2. CASE serving[w] \notin Range(call)
  BY <1>1, <1>2 DEF Replied
<1>3. CASE serving[w] \in Range(call)
  <2> DEFINE a == [call |-> serving[w], status |-> reply[w], ticket |-> ticket[w]]
  <2>1. reply[w] \in Statuses
    <3>1. reply[w] \in SellReplies \cup ValidateReplies
      BY <1>1, RepliedFacts DEF Inv, Working
    <3> QED
      BY <3>1, SameStatuses DEF SellReplies, ValidateReplies
  <2>2. ticket[w] \in OP!Tickets
    BY DEF Inv, OP!Inv, OP!TypeOK
  <2>3. a \in AnswerRecords
    BY <1>1, <2>1, <2>2 DEF AnswerRecords
  <2>4. serving[w] = call[serving[w].client]
    <3>1. PICK k \in Clients : call[k] = serving[w]
      BY <1>3 DEF Range, Inv, HttpInv, HttpTypes
    <3> QED
      BY <1>1, <3>1 DEF Inv, HttpInv, AllMade
  <2>5. answers' = answers \cup {a}
    BY <1>3 DEF Replied
  <2>6. a.call = serving[w] /\ a.status = reply[w] /\ a.ticket = ticket[w]
    OBVIOUS
  <2> HIDE DEF a
  <2> QED
    BY <1>1, <2>3, <2>4, <2>5, <2>6
<1> QED
  BY <1>2, <1>3

LEMMA RepliedInv ==
  ASSUME Inv, NEW w \in Workers, Replied(w)
  PROVE  HttpInv' /\ Working' /\ Answering'
<1>1. /\ serving[w] # NoCall /\ serving[w] \in MadeCalls /\ now' = now
      /\ acked \subseteq acked'
  BY RepliedFacts, RepliedAnswer
<1>2. serving' = [serving EXCEPT ![w] = NoCall] /\ UNCHANGED <<call, made, wire, issued>>
  BY DEF Replied, history
<1>3. serving'[w] = NoCall /\ \A v \in Workers \ {w} : serving'[v] = serving[v]
  BY RepliedFacts
<1>4. PICK A \in SUBSET AnswerRecords :
         /\ answers' = answers \cup A
         /\ \A a \in A : /\ a.call = serving[w] /\ a.status = reply[w]
                         /\ a.ticket = ticket[w] /\ a.call = call[a.call.client]
         /\ \A a, b \in A : a = b
  <2>1. CASE answers' = answers
    <3>1. {} \in SUBSET AnswerRecords /\ answers' = answers \cup {}
      BY <2>1
    <3> QED
      BY <3>1
  <2>2. ASSUME NEW a \in AnswerRecords,
               a.call = serving[w], a.status = reply[w], a.ticket = ticket[w],
               a.call = call[a.call.client], answers' = answers \cup {a}
        PROVE  \E A \in SUBSET AnswerRecords :
                  /\ answers' = answers \cup A
                  /\ \A b \in A : /\ b.call = serving[w] /\ b.status = reply[w]
                                  /\ b.ticket = ticket[w] /\ b.call = call[b.call.client]
                  /\ \A b, d \in A : b = d
    <3> WITNESS {a} \in SUBSET AnswerRecords
    <3> QED
      BY <2>2
  <2> QED
    BY <2>1, <2>2, RepliedAnswer
<1>5. HttpTypes'
  BY <1>2, <1>4 DEF Inv, HttpInv, HttpTypes
<1>6. MadeCalls \subseteq MadeCalls'
  BY <1>1, <1>2, <1>5, NowIsNat, MadeInOffice
<1>7. AllMade'
  <2>1. \A k \in Clients :
           call'[k] # NoCall => call'[k].client = k /\ call'[k] \in MadeCalls'
    BY <1>2, <1>6 DEF Inv, HttpInv, AllMade
  <2>2. wire' \subseteq MadeCalls'
    BY <1>2, <1>6 DEF Inv, HttpInv, AllMade
  <2>3. \A v \in Workers : serving'[v] # NoCall => serving'[v] \in MadeCalls'
    BY <1>3, <1>6 DEF Inv, HttpInv, AllMade
  <2>4. \A a \in answers' : a.call = call'[a.call.client]
    BY <1>2, <1>4 DEF Inv, HttpInv, AllMade
  <2> QED
    BY <2>1, <2>2, <2>3, <2>4 DEF AllMade
<1>8. Once'
  <2>1. \A v \in Workers :
           serving'[v] # NoCall => /\ serving'[v] \notin wire'
                                   /\ \A u \in Workers \ {v} : serving'[u] # serving'[v]
    BY <1>2, <1>3 DEF Inv, HttpInv, Once
  <2>2. ASSUME NEW a \in answers
        PROVE  /\ a.call \notin wire' /\ a.call # serving[w]
               /\ \A v \in Workers : serving'[v] # a.call
    <3>1. a.call # NoCall
      BY AnswerIsAwaited
    <3> QED
      BY <1>2, <1>3, <3>1 DEF Inv, HttpInv, Once
  <2>3. ASSUME NEW a \in A
        PROVE  /\ a.call \notin wire' /\ a.call = serving[w]
               /\ \A v \in Workers : serving'[v] # a.call
    BY <1>1, <1>2, <1>3, <1>4 DEF Inv, HttpInv, Once
  <2>4. \A a, b \in answers' : a.call = b.call => a = b
    BY <1>4, <2>2, <2>3 DEF Inv, HttpInv, Once
  <2> QED
    BY <1>4, <2>1, <2>2, <2>3, <2>4 DEF Once
<1>9. Working'
  <2>1. pc'[w] = "idle"
    BY RepliedFacts
  <2>2. ASSUME NEW v \in Workers \ {w}
        PROVE  UNCHANGED <<pc[v], ticket[v], reply[v]>>
    BY RepliedFacts
  <2> QED
    BY <1>3, <2>1, <2>2 DEF Inv, Working
<1>10. Answering'
  <2>1. /\ serving[w].client = Tvm => /\ reply[w] \in SellReplies
                                      /\ reply[w] = OP!Created => ticket[w] \in acked'
        /\ serving[w].client # Tvm => /\ reply[w] \in ValidateReplies
                                      /\ ticket[w] = serving[w].body
    BY <1>1, RepliedFacts DEF Inv, Working
  <2>2. ASSUME NEW a \in A
        PROVE  /\ a.call.client = Tvm => /\ a.status \in SellReplies
                                         /\ a.status = OP!Created => a.ticket \in acked'
               /\ a.call.client # Tvm => /\ a.status \in ValidateReplies
                                         /\ a.ticket = a.call.body
    BY <1>4, <2>1
  <2> QED
    BY <1>1, <1>4, <2>2 DEF Inv, Answering
<1> QED
  BY <1>5, <1>7, <1>8, <1>9, <1>10 DEF HttpInv

LEMMA CrashedInv ==
  ASSUME Inv, Crashed
  PROVE  HttpInv' /\ Working' /\ Answering'
<1>1. /\ wire' = {} /\ serving' = [w \in Workers |-> NoCall]
      /\ pc' = [w \in Workers |-> "idle"]
      /\ UNCHANGED <<call, made, answers, issued, now, acked>>
  BY DEF Crashed, OP!Crash, history
<1>2. HttpTypes'
  BY <1>1 DEF Inv, HttpInv, HttpTypes
<1>3. MadeCalls \subseteq MadeCalls'
  BY <1>1, <1>2, NowIsNat, MadeInOffice
<1>4. AllMade'
  BY <1>1, <1>3 DEF Inv, HttpInv, AllMade
<1>5. Once'
  <2>1. \A a \in answers : a.call # NoCall
    BY AnswerIsAwaited
  <2> QED
    BY <1>1, <2>1 DEF Inv, HttpInv, Once
<1>6. Working' /\ Answering'
  BY <1>1 DEF Inv, Working, Answering
<1> QED
  BY <1>2, <1>4, <1>5, <1>6 DEF HttpInv

LEMMA TickedInv ==
  ASSUME Inv, Ticked
  PROVE  HttpInv' /\ Working' /\ Answering'
<1>1. /\ UNCHANGED <<call, made, wire, serving, answers, issued, acked, pc, ticket, reply>>
      /\ now' = now + 1
  BY DEF Ticked, OP!Tick, http, history
<1>2. HttpTypes'
  BY <1>1 DEF Inv, HttpInv, HttpTypes
<1>3. MadeCalls \subseteq MadeCalls'
  BY <1>1, <1>2, NowIsNat, MadeInOffice
<1>4. AllMade'
  BY <1>1, <1>3 DEF Inv, HttpInv, AllMade
<1>5. Once'
  BY <1>1 DEF Inv, HttpInv, Once
<1>6. Working' /\ Answering'
  BY <1>1 DEF Inv, Working, Answering
<1> QED
  BY <1>2, <1>4, <1>5, <1>6 DEF HttpInv

\* A delivery that is discarded counts as a call made.
LEMMA DiscardInv ==
  ASSUME Inv, DiscardRequest
  PROVE  HttpInv' /\ Working' /\ Answering'
<1>1. /\ UNCHANGED <<call, wire, serving, answers, issued, acked, pc, ticket, reply, now>>
      /\ made' = [made EXCEPT ![Tvm] = @ + 1]
  BY DEF DiscardRequest, officeVars, history
<1>2. HttpTypes' /\ \A k \in Clients : made[k] <= made'[k]
  BY <1>1 DEF Clients, Inv, HttpInv, HttpTypes
<1>3. MadeCalls \subseteq MadeCalls'
  BY <1>1, <1>2, NowIsNat, MadeStays DEF Inv, HttpInv
<1>4. AllMade'
  BY <1>1, <1>3 DEF Inv, HttpInv, AllMade
<1>5. Once'
  BY <1>1 DEF Inv, HttpInv, Once
<1>6. Working' /\ Answering'
  BY <1>1 DEF Inv, Working, Answering
<1> QED
  BY <1>2, <1>4, <1>5, <1>6 DEF HttpInv

\* The end of a validation, whoever decided.
LEMMA DecideTypes ==
  ASSUME Inv, NEW g \in Gates, call[g] # NoCall, NEW valid \in BOOLEAN,
         NEW status \in Statuses \cup {0}, NEW expired, Decide(g, valid, status, expired)
  PROVE  HistoryTypes'
<1> DEFINE v == [ticket |-> call[g].body, valid |-> valid, status |-> status,
                 asked |-> call[g].at, hopeless |-> call[g].hopeless]
           Verdicts == [ticket : OP!Tickets, valid : BOOLEAN, status : Statuses \cup {0},
                        asked : Nat, hopeless : BOOLEAN]
<1>1. call[g] \in Calls /\ Made(call[g]) /\ call[g].client = g /\ g # Tvm /\ g \in Clients
  BY DEF Inv, HttpInv, AllMade, MadeCalls, Clients
<1>2. call[g].body \in issued /\ call[g].at \in Nat /\ call[g].hopeless \in BOOLEAN
  BY <1>1 DEF Made, Calls
<1>3. call[g].body \in OP!Tickets
  BY <1>2 DEF Inv, HistoryTypes, OP!Inv, OP!TypeOK
<1>4. v \in Verdicts
  BY <1>2, <1>3
<1>5. verdict' = [verdict EXCEPT ![g] = v]
  BY DEF Decide
<1>6. verdict \in [Gates -> Verdicts]
  BY DEF Inv, HistoryTypes
<1>7. verdict' \in [Gates -> Verdicts]
  <2> HIDE DEF v, Verdicts
  <2> QED
    BY <1>4, <1>5, <1>6
<1>8. /\ refused' \in {refused, refused \cup {call[g].body}}
      /\ UNCHANGED <<acked, issued, delivered, failed>>
  BY DEF Decide, officeVars
<1> QED
  BY <1>2, <1>7, <1>8 DEF Inv, HistoryTypes

LEMMA TvmInv == ASSUME Inv, TvmStep PROVE HttpInv' /\ HistoryTypes' /\ Working' /\ Answering'
<1>1. Tvm \in Clients
  BY DEF Clients
<1>2. CASE DiscardRequest
  <2>1. HistoryTypes'
    BY <1>2 DEF DiscardRequest, officeVars, history, Inv, HistoryTypes
  <2> QED
    BY <1>2, <2>1, DiscardInv
<1>3. ASSUME NEW r \in Requests, PostRequest(r)
      PROVE  HttpInv' /\ HistoryTypes' /\ Working' /\ Answering'
  <2>1. UNCHANGED <<officeVars, serving, answers, issued>> /\ Call(Tvm, r) /\ r \in Bodies
    BY <1>3 DEF PostRequest, Bodies
  <2>2. HistoryTypes'
    BY <1>3 DEF PostRequest, officeVars, Inv, HistoryTypes
  <2> QED
    BY <1>1, <2>1, <2>2, CallInv
<1>4. ASSUME NEW a \in answers, PostAnswered(a)
      PROVE  HttpInv' /\ HistoryTypes' /\ Working' /\ Answering'
  <2>1. /\ Returns(Tvm, a) /\ UNCHANGED officeVars /\ issued \subseteq issued'
        /\ UNCHANGED <<acked, delivered, failed, verdict, refused>>
        /\ issued' = IF Success(a.status) THEN issued \cup {a.ticket} ELSE issued
    BY <1>4 DEF PostAnswered, officeVars
  <2>2. a.call.client = Tvm
    BY <1>1, <2>1, AnswerIsAwaited DEF Returns, Inv, HttpInv, AllMade
  <2>3. Success(a.status) => a.ticket \in acked
    <3>1. a.status \in SellReplies /\ (a.status = OP!Created => a.ticket \in acked)
      BY <2>2 DEF Inv, Answering
    <3> QED
      BY <3>1 DEF SellReplies, Success, OP!Created, OP!BadRequest, OP!ServerError
  <2>4. HistoryTypes'
    BY <2>1, <2>3 DEF Inv, HistoryTypes
  <2> QED
    BY <1>1, <2>1, <2>4, ReturnsEnds, EndInv
<1>5. CASE PostFailed
  <2>1. ReturnsNothing(Tvm) /\ UNCHANGED officeVars /\ issued \subseteq issued'
    BY <1>5 DEF PostFailed
  <2>2. HistoryTypes'
    BY <1>5 DEF PostFailed, officeVars, Inv, HistoryTypes
  <2> QED
    BY <1>1, <2>1, <2>2, ReturnsNothingEnds, EndInv
<1> QED
  BY <1>2, <1>3, <1>4, <1>5 DEF TvmStep

LEMMA GateInv ==
  ASSUME Inv, NEW g \in Gates, GateStep(g)
  PROVE  HttpInv' /\ HistoryTypes' /\ Working' /\ Answering'
<1>1. g \in Clients /\ g # Tvm
  BY DEF Clients
<1>2. ASSUME NEW t \in issued, ShowTicket(g, t)
      PROVE  HttpInv' /\ HistoryTypes' /\ Working' /\ Answering'
  <2>1. t \in Bodies
    BY SameState DEF Inv, HistoryTypes, OP!Inv, OP!TypeOK, Bodies
  <2>2. UNCHANGED <<officeVars, serving, answers, issued>> /\ Call(g, t)
    BY <1>2 DEF ShowTicket, history
  <2>3. HistoryTypes'
    BY <1>2 DEF ShowTicket, officeVars, history, Inv, HistoryTypes
  <2> QED
    BY <1>1, <2>1, <2>2, <2>3, CallInv
<1>3. ASSUME NEW a \in answers, DecideOnline(g, a)
      PROVE  HttpInv' /\ HistoryTypes' /\ Working' /\ Answering'
  <2>1. Returns(g, a) /\ Decide(g, Success(a.status), a.status, a.status = Office!Gone)
    BY <1>3 DEF DecideOnline
  <2>2. Ended(g)
    BY <1>1, <2>1, ReturnsEnds
  <2>3. Success(a.status) \in BOOLEAN /\ a.status \in Statuses \cup {0}
    BY AnswerIsAwaited DEF Success
  <2>4. HistoryTypes'
    BY <2>1, <2>2, <2>3, DecideTypes DEF Ended
  <2> QED
    BY <1>1, <2>1, <2>2, <2>4, EndInv DEF Decide
<1>4. CASE DecideOffline(g)
  <2>1. PICK expired : ReturnsNothing(g) /\ Decide(g, ~expired, 0, expired)
    BY <1>4 DEF DecideOffline
  <2>2. Ended(g)
    BY <1>1, <2>1, ReturnsNothingEnds
  <2>3. HistoryTypes'
    <3>1. (~expired) \in BOOLEAN /\ 0 \in Statuses \cup {0}
      OBVIOUS
    <3> QED
      BY <2>1, <2>2, <3>1, DecideTypes DEF Ended
  <2> QED
    BY <1>1, <2>1, <2>2, <2>3, EndInv DEF Decide
<1> QED
  BY <1>2, <1>3, <1>4 DEF GateStep

\* The inductive invariant: every step of the system keeps it.
LEMMA NextInv == Inv /\ [Next]_vars => Inv'
<1> SUFFICES ASSUME Inv, [Next]_vars PROVE Inv'
  OBVIOUS
<1>1. OP!Inv' /\ acked \subseteq acked'
  BY OfficeNext, OP!NextInv, OP!AckedGrows DEF Inv
<1>2. CASE OfficeStep
  <2>1. UNCHANGED history
    BY <1>2 DEF OfficeStep, Served, Worked, Replied, Crashed, Ticked
  <2>2. HistoryTypes'
    BY <1>1, <2>1 DEF Inv, HistoryTypes, history
  <2>3. HttpInv' /\ Working' /\ Answering'
    BY <1>2, ServedInv, WorkedInv, RepliedInv, CrashedInv, TickedInv DEF OfficeStep
  <2> QED
    BY <1>1, <2>2, <2>3 DEF Inv
<1>3. CASE TvmStep
  BY <1>1, <1>3, TvmInv DEF Inv
<1>4. ASSUME NEW g \in Gates, GateStep(g) PROVE Inv'
  BY <1>1, <1>4, GateInv DEF Inv
<1>5. CASE UNCHANGED vars
  <2>1. /\ UNCHANGED <<pc, ticket, reply, now, acked>> /\ UNCHANGED <<call, made, wire,
           serving, answers, delivered, issued, failed, verdict, refused>>
    BY <1>5 DEF vars, officeVars, http, history
  <2>2. HttpInv'
    BY <2>1 DEF Inv, HttpInv, HttpTypes, AllMade, Once, MadeCalls, Made
  <2>3. HistoryTypes' /\ Working' /\ Answering'
    BY <2>1 DEF Inv, HistoryTypes, Working, Answering
  <2> QED
    BY <1>1, <2>2, <2>3 DEF Inv
<1> QED
  BY <1>2, <1>3, <1>4, <1>5, StepCases

LEMMA Invariance == Spec => []Inv
BY InitInv, NextInv, PTL DEF Spec

\* Every variable keeps its type; in particular every answer on its way is to a
\* call its client still waits for, and no ticket is shown that is not one.
THEOREM TypeCorrect == Spec => []TypeOK
BY Invariance, InvIsTypeOK, PTL
-------------------------------------------------------------------------------
(* The office is used as BackOffice says it is *)

LEMMA OfficeStepRefines == ASSUME Inv, [Next]_vars PROVE [Office!Next]_(Office!vars)
<1>1. ASSUME NEW w \in Workers, Serve(w) PROVE Office!ReceiveRequest(w)
  <2>1. PICK c \in wire :
          \/ /\ c.client = Tvm
             /\ Office!ReceiveCreateOf(w, c.body.request_date, c.body.validity_in_days)
          \/ c.client # Tvm /\ Office!ReceiveValidateOf(w, c.body)
    BY <1>1, Zenon DEF Serve
  <2>2. c \in MadeCalls /\ Made(c)
    BY DEF Inv, HttpInv, AllMade, MadeCalls
  <2>3. CASE c.client = Tvm
    <3>1. c.body.request_date \in Dates /\ c.body.validity_in_days \in Validities
      BY <2>2, <2>3 DEF Made, Requests
    <3> QED
      BY <2>1, <2>3, <3>1, Zenon DEF Office!ReceiveRequest, Office!ReceiveCreate
  <2>4. CASE c.client # Tvm
    <3>1. c.body \in acked
      BY <2>2, <2>4 DEF Made, Inv, HistoryTypes
    <3> QED
      BY <2>1, <2>4, <3>1, Zenon DEF Office!ReceiveRequest, Office!ReceiveValidate
  <2> QED
    BY <2>3, <2>4
<1>2. ASSUME NEW w \in Workers, Work(w) \/ Reply(w) PROVE Office!Handle(w)
  BY <1>2, Zenon DEF Work, Reply, Office!Handle
<1>3. (OfficeCrash => Office!Crash) /\ (Tick => Office!Tick)
  BY DEF OfficeCrash, Tick
<1>4. VendingMachine \/ (\E g \in Gates : Gate(g)) \/ UNCHANGED vars => UNCHANGED officeVars
  BY DEF VendingMachine, OnNewTicket, DiscardRequest, PostRequest, PostAnswered,
     PostFailed, Gate, ShowTicket, DecideOnline, DecideOffline, Decide, vars
<1>5. UNCHANGED officeVars => UNCHANGED Office!vars
  BY DEF officeVars, Office!vars, Office!office, Office!bounds
<1> QED
  BY <1>1, <1>2, <1>3, <1>4, <1>5, Zenon DEF Next, Office!Next

\* BackOffice says of its clients that they ask for tickets with requests that
\* parse, and show tickets the office acknowledged or never sold.  The vending
\* machine and the gates do, so what is proved of BackOffice holds here.
THEOREM OfficeIsImplemented == Spec => ImplementsOffice
<1>1. Init => Office!Init
  BY DEF Init
<1> QED
  BY <1>1, Invariance, OfficeStepRefines, PTL DEF Spec, ImplementsOffice, Office!SafeSpec
-------------------------------------------------------------------------------
(* Sales and the calls they come from *)

\* A call that can still put a ticket on file.
IsOpen(c) ==
    /\ c.client = Tvm
    /\ c \in wire \/ \E w \in Workers : serving[w] = c /\ pc[w] \in {"lastId", "save"}

Open == {c \in Calls : IsOpen(c)}

\* What a step can do to the log and to the open calls: one it makes longer is
\* the sale of an open call, which is open no more.
SalePosted == OP!Log' = OP!Log /\ \E r \in Requests : PostRequest(r)
SaleMade ==
    \E w \in Workers :
        /\ Worked(w) /\ serving[w] \in Open /\ pc[w] = "save" /\ pc'[w] = "write"
        /\ OP!Log' = Append(OP!Log, ticket[w]) /\ ticket'[w] = ticket[w]
        /\ Open' \subseteq Open \ {serving[w]}
NoSale == OP!Log' \in {OP!Log, <<>>} /\ Open' \subseteq Open /\ UNCHANGED delivered

LEMMA OpenInWorked ==
  ASSUME Inv, NEW w \in Workers, Worked(w)
  PROVE  /\ Open' \subseteq Open
         /\ pc[w] = "save" /\ pc'[w] = "write" =>
               serving[w] \in Open /\ Open' \subseteq Open \ {serving[w]}
<1>0. pc'[w] \in {"lastId", "save"} => pc[w] \in {"lastId", "save"}
  BY DEF Worked, OfficeWork, OP!GetLastTicketId, OP!SaveTruncate, OP!SaveThrows,
     OP!SaveWrite, OP!OpenFault, OP!WriteFault, OP!Validate, OP!Throw, OP!Answer,
     OP!GoTo, Inv, OP!Inv, OP!TypeOK
<1>1. /\ UNCHANGED <<wire, serving>>
      /\ pc'[w] \in {"lastId", "save"} => pc[w] \in {"lastId", "save"}
      /\ \A v \in Workers \ {w} : pc'[v] = pc[v]
  BY <1>0, WorkedFacts DEF Worked, http
<1>2. Open' \subseteq Open
  <2> SUFFICES ASSUME NEW c \in Calls, IsOpen(c)' PROVE IsOpen(c)
    BY DEF Open
  <2>1. CASE c \in wire'
    BY <1>1, <2>1 DEF IsOpen
  <2>2. ASSUME NEW v \in Workers, serving'[v] = c, pc'[v] \in {"lastId", "save"}
        PROVE  IsOpen(c)
    BY <1>1, <2>2 DEF IsOpen
  <2> QED
    BY <2>1, <2>2 DEF IsOpen
<1>3. ASSUME pc[w] = "save", pc'[w] = "write"
      PROVE  serving[w] \in Open /\ serving[w] \notin Open'
  <2>1. PICK c \in Calls : c = serving[w] /\ c # NoCall /\ c.client = Tvm
    BY <1>3 DEF Inv, Working, HttpInv, HttpTypes
  <2>2. c \in Open
    BY <1>3, <2>1 DEF Open, IsOpen
  <2>3. c \notin wire /\ \A v \in Workers \ {w} : serving[v] # c
    BY <2>1 DEF Inv, HttpInv, Once
  <2>4. ~IsOpen(c)'
    BY <1>1, <1>3, <2>3 DEF IsOpen
  <2> QED
    BY <2>1, <2>2, <2>4 DEF Open
<1> QED
  BY <1>2, <1>3

LEMMA SaleCases == ASSUME Inv, [Next]_vars PROVE SalePosted \/ SaleMade \/ NoSale
<1>1. \/ OP!Log' = OP!Log
      \/ \E w \in Workers : OP!SaveTruncate(w) /\ OP!Log' = Append(OP!Log, ticket[w])
      \/ OP!Log' = <<>>
  BY OfficeNext, OP!LogStep DEF Inv
<1>2. ASSUME UNCHANGED officeVars PROVE OP!Log' = OP!Log
  BY <1>2 DEF officeVars, OP!Log
<1>3. ASSUME UNCHANGED officeVars, UNCHANGED serving, wire' \subseteq wire
      PROVE  Open' \subseteq Open
  BY <1>3 DEF officeVars, Open, IsOpen
<1>4. DOMAIN pc = Workers
  BY DEF Inv, OP!Inv, OP!TypeOK
<1>5. ASSUME NEW w \in Workers, NEW c \in wire, Served(w, c) PROVE NoSale
  <2>1. UNCHANGED OP!Log
    BY <1>5, ServedFacts DEF OP!Log, OP!office
  <2>2. Open' \subseteq Open
    <3>1. /\ wire' = wire \ {c} /\ c \in wire
          /\ \A v \in Workers \ {w} : serving'[v] = serving[v] /\ pc'[v] = pc[v]
          /\ serving'[w] = c
      BY <1>5, ServedFacts DEF Served, Inv, HttpInv, HttpTypes
    <3> SUFFICES ASSUME NEW d \in Calls, IsOpen(d)' PROVE IsOpen(d)
      BY DEF Open
    <3>2. ASSUME NEW v \in Workers, serving'[v] = d, pc'[v] \in {"lastId", "save"}
          PROVE  d \in wire \/ (serving[v] = d /\ pc[v] \in {"lastId", "save"})
      BY <3>1, <3>2
    <3> QED
      BY <3>1, <3>2 DEF IsOpen
  <2> QED
    BY <1>5, <2>1, <2>2 DEF NoSale, Served, history
<1>6. ASSUME NEW w \in Workers, Worked(w) PROVE SaleMade \/ NoSale
  <2>1. UNCHANGED delivered
    BY <1>6 DEF Worked, history
  <2>2. ASSUME NEW v \in Workers, OP!SaveTruncate(v), OP!Log' = Append(OP!Log, ticket[v])
        PROVE  SaleMade
    <3>1. pc[v] = "save" /\ pc'[v] = "write" /\ ticket' = ticket
      BY <1>4, <2>2 DEF OP!SaveTruncate, OP!GoTo
    <3>2. v = w
      BY <1>6, <3>1, WorkedFacts
    <3> QED
      BY <1>6, <2>2, <3>1, <3>2, OpenInWorked DEF SaleMade
  <2> QED
    BY <1>1, <1>6, <2>1, <2>2, OpenInWorked DEF NoSale
<1>7. ASSUME \/ \E w \in Workers : Replied(w)
             \/ Crashed \/ Ticked
      PROVE  NoSale
  <2>1. OP!Log' \in {OP!Log, <<>>}
    <3>1. ASSUME NEW v \in Workers, OP!SaveTruncate(v) PROVE FALSE
      <4>1. pc[v] = "save" /\ pc'[v] = "write"
        BY <1>4, <3>1 DEF OP!SaveTruncate, OP!GoTo
      <4>2. ASSUME NEW w \in Workers, Replied(w) PROVE pc'[v] \in {"idle", pc[v]}
        BY <4>2, RepliedFacts
      <4>3. Crashed => pc'[v] = "idle"
        BY DEF Crashed, OP!Crash
      <4>4. Ticked => pc'[v] = pc[v]
        BY DEF Ticked, OP!Tick
      <4> QED
        BY <1>7, <4>1, <4>2, <4>3, <4>4
    <3> QED
      BY <1>1, <3>1
  <2>2. Open' \subseteq Open
    <3>1. ASSUME NEW w \in Workers, Replied(w)
          PROVE  /\ wire' = wire /\ serving'[w] = NoCall
                 /\ \A v \in Workers \ {w} : serving'[v] = serving[v] /\ pc'[v] = pc[v]
      BY <3>1, RepliedFacts DEF Replied
    <3>2. (\E w \in Workers : Replied(w)) => Open' \subseteq Open
      BY <3>1 DEF Open, IsOpen
    <3>3. Crashed => Open' \subseteq Open
      BY DEF Crashed, Open, IsOpen
    <3>4. Ticked => Open' \subseteq Open
      BY DEF Ticked, http, OP!Tick, Open, IsOpen
    <3> QED
      BY <1>7, <3>2, <3>3, <3>4
  <2> QED
    BY <1>7, <2>1, <2>2 DEF NoSale, Replied, Crashed, Ticked, history
<1>8. ASSUME TvmStep PROVE SalePosted \/ NoSale
  <2>1. OP!Log' = OP!Log
    BY <1>2, <1>8, ClientsOnly
  <2>2. CASE \E r \in Requests : PostRequest(r)
    BY <2>1, <2>2 DEF SalePosted
  <2>3. CASE DiscardRequest \/ (\E a \in answers : PostAnswered(a)) \/ PostFailed
    <3>1. UNCHANGED <<serving, delivered>> /\ wire' \subseteq wire
      BY <2>3 DEF DiscardRequest, PostAnswered, PostFailed, Returns, ReturnsNothing, history
    <3> QED
      BY <1>3, <1>8, <2>1, <3>1, ClientsOnly DEF NoSale
  <2> QED
    BY <1>8, <2>2, <2>3 DEF TvmStep
<1>9. ASSUME NEW g \in Gates, GateStep(g) PROVE NoSale
  <2>1. OP!Log' = OP!Log /\ UNCHANGED officeVars
    BY <1>2, <1>9, ClientsOnly
  <2>2. CASE \E t \in issued : ShowTicket(g, t)
    <3>1. PICK c : c.client = g /\ wire' = wire \cup {c}
      <4>1. PICK t : Call(g, t)
        BY <2>2 DEF ShowTicket
      <4> DEFINE c == [client |-> g, number |-> made[g] + 1, body |-> t, at |-> now,
                       hopeless |-> t \in refused]
      <4>2. c.client = g
        OBVIOUS
      <4>3. wire' = wire \cup {c}
        BY <4>1, Zenon DEF Call
      <4> HIDE DEF c
      <4> QED
        BY <4>2, <4>3
    <3>2. UNCHANGED <<serving, delivered>>
      BY <2>2 DEF ShowTicket, history
    <3>3. Open' \subseteq Open
      BY <2>1, <3>1, <3>2 DEF officeVars, Open, IsOpen
    <3> QED
      BY <2>1, <3>2, <3>3 DEF NoSale
  <2>3. CASE (\E a \in answers : DecideOnline(g, a)) \/ DecideOffline(g)
    <3>1. UNCHANGED <<serving, delivered>> /\ wire' \subseteq wire
      BY <2>3 DEF DecideOnline, DecideOffline, Decide, Returns, ReturnsNothing
    <3> QED
      BY <1>3, <2>1, <3>1 DEF NoSale
  <2> QED
    BY <1>9, <2>2, <2>3 DEF GateStep
<1>10. UNCHANGED vars => NoSale
  BY <1>2, <1>3 DEF vars, http, history, NoSale
<1> QED
  BY <1>5, <1>6, <1>7, <1>8, <1>9, <1>10, StepCases DEF OfficeStep
\* A part of a finite set, and of one with an element more or less.
LEMMA NoMore ==
  ASSUME NEW S, IsFiniteSet(S), NEW T \in SUBSET S
  PROVE  IsFiniteSet(T) /\ Cardinality(T) \in Nat /\ Cardinality(T) <= Cardinality(S)
BY FS_Subset, FS_CardinalityType

LEMMA OneMore ==
  ASSUME NEW S, IsFiniteSet(S), NEW x, NEW T \in SUBSET (S \cup {x})
  PROVE  IsFiniteSet(T) /\ Cardinality(T) \in Nat /\ Cardinality(T) <= Cardinality(S) + 1
<1>1. Cardinality(S) \in Nat
  BY FS_CardinalityType
<1>2. IsFiniteSet(S \cup {x})
  BY FS_AddElement
<1>3. Cardinality(S \cup {x}) \in {Cardinality(S), Cardinality(S) + 1}
  BY FS_AddElement
<1>4. IsFiniteSet(T) /\ Cardinality(T) \in Nat /\ Cardinality(T) <= Cardinality(S \cup {x})
  BY <1>2, NoMore
<1> QED
  BY <1>1, <1>3, <1>4

LEMMA OneLess ==
  ASSUME NEW S, IsFiniteSet(S), NEW x \in S, NEW T \in SUBSET (S \ {x})
  PROVE  IsFiniteSet(T) /\ Cardinality(T) \in Nat /\ Cardinality(T) <= Cardinality(S) - 1
<1>1. IsFiniteSet(S \ {x}) /\ Cardinality(S \ {x}) = Cardinality(S) - 1
  BY FS_RemoveElement
<1>2. IsFiniteSet(T) /\ Cardinality(T) \in Nat /\ Cardinality(T) <= Cardinality(S \ {x})
  BY <1>1, NoMore
<1> QED
  BY <1>1, <1>2

\* The sales of request r, as SoldFor says, and the open calls for it.
Sold(r) ==
    {i \in DOMAIN OP!Log :
        /\ OP!Log[i].creation_date = r.request_date
        /\ OP!Log[i].validity_in_days = ToInt(r.validity_in_days)}

OpenFor(r) == {c \in Open : c.body = r}

\* The tickets sold tell the requests for them apart: no two numbers of days that
\* are asked for are the same int.
DistinctDays == \A u, v \in Validities : ToInt(u) = ToInt(v) => u = v

\* What was delivered covers what was sold and what may yet be.
Covered ==
    \A r \in Requests :
        /\ IsFiniteSet(OpenFor(r))
        /\ Cardinality(Sold(r)) + Cardinality(OpenFor(r)) <= delivered[r]

LEMMA SoldIsFinite ==
  ASSUME Inv, NEW r PROVE IsFiniteSet(Sold(r)) /\ Cardinality(Sold(r)) \in Nat
<1>1. DOMAIN OP!Log = 1..Len(OP!Log) /\ Len(OP!Log) \in Nat
  BY OP!LogType, LenProperties DEF Inv
<1>2. IsFiniteSet(1..Len(OP!Log))
  BY <1>1, FS_Interval
<1> QED
  BY <1>1, <1>2, FS_Subset, FS_CardinalityType DEF Sold

LEMMA CoveredStep ==
  ASSUME DistinctDays, Inv, Covered, [Next]_vars PROVE Covered'
<1> SUFFICES ASSUME NEW r \in Requests
             PROVE  /\ IsFiniteSet(OpenFor(r)')
                    /\ Cardinality(Sold(r)') + Cardinality(OpenFor(r)') <= delivered'[r]
  BY DEF Covered
<1>1. /\ IsFiniteSet(OpenFor(r)) /\ Cardinality(OpenFor(r)) \in Nat
      /\ Cardinality(Sold(r)) + Cardinality(OpenFor(r)) <= delivered[r]
      /\ IsFiniteSet(Sold(r)) /\ Cardinality(Sold(r)) \in Nat
      /\ delivered \in [Requests -> Nat] /\ delivered[r] \in Nat
  BY SoldIsFinite, FS_CardinalityType DEF Covered, Inv, HistoryTypes
<1>2. /\ DOMAIN OP!Log = 1..Len(OP!Log) /\ Len(OP!Log) \in Nat
      /\ OP!Log \in Seq(OP!Tickets)
  BY OP!LogType, LenProperties DEF Inv
<1>3. ASSUME OpenFor(r)' \subseteq OpenFor(r), Sold(r)' \subseteq Sold(r),
             delivered'[r] >= delivered[r]
      PROVE  /\ IsFiniteSet(OpenFor(r)')
             /\ Cardinality(Sold(r)') + Cardinality(OpenFor(r)') <= delivered'[r]
  <2>1. /\ IsFiniteSet(OpenFor(r)') /\ Cardinality(OpenFor(r)') \in Nat
        /\ Cardinality(OpenFor(r)') <= Cardinality(OpenFor(r))
    BY <1>1, <1>3, NoMore
  <2>2. Cardinality(Sold(r)') \in Nat /\ Cardinality(Sold(r)') <= Cardinality(Sold(r))
    BY <1>1, <1>3, NoMore
  <2>3. delivered'[r] \in Nat
    BY NextInv DEF Inv, HistoryTypes
  <2> QED
    BY <1>1, <1>3, <2>1, <2>2, <2>3
<1>4. CASE NoSale
  <2>1. Sold(r)' \subseteq Sold(r)
    BY <1>4 DEF NoSale, Sold
  <2>2. OpenFor(r)' \subseteq OpenFor(r) /\ delivered'[r] >= delivered[r]
    BY <1>1, <1>4 DEF NoSale, OpenFor
  <2> QED
    BY <1>3, <2>1, <2>2
<1>5. CASE SalePosted
  <2>1. PICK q \in Requests : PostRequest(q)
    BY <1>5 DEF SalePosted
  <2>2. Sold(r)' = Sold(r)
    BY <1>5 DEF SalePosted, Sold
  <2>3. delivered' = [delivered EXCEPT ![q] = @ + 1] /\ UNCHANGED <<serving, pc>>
    BY <2>1 DEF PostRequest, officeVars
  <2>4. PICK c : c.body = q /\ wire' = wire \cup {c}
    <3> DEFINE c == [client |-> Tvm, number |-> made[Tvm] + 1, body |-> q, at |-> now,
                     hopeless |-> q \in refused]
    <3>1. c.body = q
      OBVIOUS
    <3>2. wire' = wire \cup {c}
      BY <2>1, Zenon DEF PostRequest, Call
    <3> HIDE DEF c
    <3> QED
      BY <3>1, <3>2
  <2>5. Open' \subseteq Open \cup {c}
    BY <2>3, <2>4 DEF Open, IsOpen
  <2>6. CASE q # r
    <3>1. OpenFor(r)' \subseteq OpenFor(r) /\ delivered'[r] >= delivered[r]
      BY <1>1, <2>3, <2>4, <2>5, <2>6 DEF OpenFor
    <3> QED
      BY <1>3, <2>2, <3>1
  <2>7. CASE q = r
    <3>1. delivered'[r] = delivered[r] + 1
      BY <1>1, <2>3, <2>7
    <3>2. OpenFor(r)' \subseteq OpenFor(r) \cup {c}
      BY <2>5 DEF OpenFor
    <3>3. /\ IsFiniteSet(OpenFor(r)') /\ Cardinality(OpenFor(r)') \in Nat
          /\ Cardinality(OpenFor(r)') <= Cardinality(OpenFor(r)) + 1
      BY <1>1, <3>2, OneMore
    <3> QED
      BY <1>1, <2>2, <3>1, <3>3
  <2> QED
    BY <2>6, <2>7
<1>6. CASE SaleMade
  <2>1. PICK w \in Workers :
          /\ Worked(w) /\ serving[w] \in Open /\ pc[w] = "save"
          /\ OP!Log' = Append(OP!Log, ticket[w])
          /\ Open' \subseteq Open \ {serving[w]}
    BY <1>6 DEF SaleMade
  <2>2. OpenFor(r)' \subseteq OpenFor(r) \ {serving[w]} /\ delivered'[r] = delivered[r]
    BY <2>1 DEF OpenFor, Worked, history
  <2>3. /\ serving[w].client = Tvm /\ serving[w] # NoCall /\ serving[w].body \in Requests
        /\ ticket[w].creation_date = serving[w].body.request_date
        /\ ticket[w].validity_in_days = ToInt(serving[w].body.validity_in_days)
        /\ ticket[w] \in OP!Tickets
    BY <2>1 DEF Open, IsOpen, Inv, Working, HttpInv, AllMade, MadeCalls, Made, OP!Inv,
       OP!TypeOK
  <2>4. /\ DOMAIN OP!Log' = 1..(Len(OP!Log) + 1)
        /\ \A i \in 1..Len(OP!Log) : OP!Log'[i] = OP!Log[i]
        /\ OP!Log'[Len(OP!Log) + 1] = ticket[w]
    BY <1>2, <2>1, <2>3, AppendProperties, LenProperties
  <2>5. Sold(r)' \subseteq Sold(r) \cup {Len(OP!Log) + 1}
    BY <1>2, <2>4 DEF Sold
  <2>6. CASE serving[w].body = r
    <3>1. serving[w] \in OpenFor(r)
      BY <2>1, <2>6 DEF OpenFor
    <3>2. /\ IsFiniteSet(OpenFor(r)') /\ Cardinality(OpenFor(r)') \in Nat
          /\ Cardinality(OpenFor(r)') <= Cardinality(OpenFor(r)) - 1
      BY <1>1, <2>2, <3>1, OneLess
    <3>3. /\ Cardinality(Sold(r)') \in Nat
          /\ Cardinality(Sold(r)') <= Cardinality(Sold(r)) + 1
      BY <1>1, <2>5, OneMore
    <3> QED
      BY <1>1, <2>2, <3>2, <3>3
  <2>7. CASE serving[w].body # r
    <3>1. ticket[w].creation_date # r.request_date
          \/ ticket[w].validity_in_days # ToInt(r.validity_in_days)
      BY <2>3, <2>7 DEF DistinctDays, Requests
    <3>2. Sold(r)' \subseteq Sold(r)
      BY <2>4, <2>5, <3>1 DEF Sold
    <3> QED
      BY <1>1, <1>3, <2>2, <3>2
  <2> QED
    BY <2>6, <2>7
<1> QED
  BY <1>4, <1>5, <1>6, SaleCases

\* However calls time out, are served late, by any number of workers, or cross a
\* kill of the office, a request is sold at most as often as the broker delivered
\* it to the vending machine.
THEOREM SalesAreDelivered == ASSUME DistinctDays PROVE Spec => []SoldPerDelivery
<1>1. Init => Covered
  <2> SUFFICES ASSUME Init, NEW r \in Requests
               PROVE  /\ IsFiniteSet(OpenFor(r))
                      /\ Cardinality(Sold(r)) + Cardinality(OpenFor(r)) <= delivered[r]
    BY DEF Covered
  <2>1. Open = {}
    BY DEF Init, Open, IsOpen
  <2>2. DOMAIN OP!Log = {}
    BY SameRest DEF Init, OP!Init, OP!Log
  <2>3. OpenFor(r) = {} /\ Sold(r) = {}
    BY <2>1, <2>2 DEF OpenFor, Sold
  <2> QED
    BY <2>3, FS_EmptySet DEF Init
<1>2. Inv /\ Covered => SoldPerDelivery
  <2> SUFFICES ASSUME Inv, Covered, NEW r \in Requests
               PROVE  Cardinality(SoldFor(r)) <= delivered[r]
    BY DEF SoldPerDelivery
  <2>1. SoldFor(r) = Sold(r)
    BY SameState, Zenon DEF SoldFor, Sold
  <2>2. Cardinality(Sold(r)) \in Nat /\ Cardinality(OpenFor(r)) \in Nat
        /\ Cardinality(Sold(r)) + Cardinality(OpenFor(r)) <= delivered[r]
        /\ delivered[r] \in Nat
    BY SoldIsFinite, FS_CardinalityType DEF Covered, Inv, HistoryTypes
  <2> QED
    BY <2>1, <2>2
<1> QED
  BY <1>1, <1>2, CoveredStep, Invariance, PTL DEF Spec
-------------------------------------------------------------------------------
(* Tickets the machine never got *)

Orphans == Range(OP!Log) \ issued

\* The open calls the machine waits for no more.
Abandoned == Open \ {call[Tvm]}

\* The orphan can be the ticket of the call the machine waits for: the call is
\* not open, and nothing that is known of it says otherwise.
MayBeMine(t) ==
    /\ call[Tvm] # NoCall /\ call[Tvm] \notin Open
    /\ \A w \in Workers : serving[w] = call[Tvm] =>
          /\ ticket[w] = t
          /\ pc[w] = "write" \/ (pc[w] = "reply" /\ reply[w] = OP!Created)
    /\ \A a \in answers : a.call = call[Tvm] => a.status = OP!Created /\ a.ticket = t

Mine == {t \in Orphans : MayBeMine(t)}

\* Each orphan, and each call that can still make one, cost a POST, but for the
\* ticket of the call that the machine waits for.
PaidFor ==
    /\ IsFiniteSet(Abandoned)
    /\ Cardinality(Orphans) + Cardinality(Abandoned)
          <= failed + (IF Mine = {} THEN 0 ELSE 1)

\* What a step can do to the account.
Fewer ==
    /\ Orphans' \subseteq Orphans /\ Abandoned' \subseteq Abandoned
    /\ Mine \cap Orphans' \subseteq Mine' /\ failed' = failed
LateSale ==
    /\ \E t, c : /\ c \in Abandoned /\ Abandoned' \subseteq Abandoned \ {c}
                 /\ Orphans' \subseteq Orphans \cup {t}
    /\ Mine \cap Orphans' \subseteq Mine' /\ failed' = failed
SaleInTime ==
    /\ \E t : Orphans' \subseteq Orphans \cup {t} /\ (t \in Orphans' => t \in Mine')
    /\ Mine = {} /\ Abandoned' \subseteq Abandoned /\ failed' = failed
Paid ==
    /\ Orphans' \subseteq Orphans /\ failed' = failed + 1
    /\ \/ Abandoned' \subseteq Abandoned
       \/ Mine = {} /\ \E c : Abandoned' \subseteq Abandoned \cup {c}

LEMMA OrphansAreFinite ==
  ASSUME Inv PROVE IsFiniteSet(Orphans) /\ Cardinality(Orphans) \in Nat
<1>1. DOMAIN OP!Log = 1..Len(OP!Log) /\ Len(OP!Log) \in Nat /\ OP!Log \in Seq(OP!Tickets)
  BY OP!LogType, LenProperties DEF Inv
<1>2. OP!Log \in Surjection(1..Len(OP!Log), Range(OP!Log))
  BY <1>1, LenProperties DEF Surjection, Range
<1>3. IsFiniteSet(Range(OP!Log))
  BY <1>1, <1>2, FS_Interval, FS_Surjection
<1> QED
  BY <1>3, FS_Subset, FS_CardinalityType DEF Orphans

LEMMA AccountStep ==
  ASSUME Inv, Inv', PaidFor, Fewer \/ LateSale \/ SaleInTime \/ Paid
  PROVE  PaidFor'
<1> DEFINE before == IF Mine = {} THEN 0 ELSE 1
           after == IF Mine' = {} THEN 0 ELSE 1
<1>1. /\ IsFiniteSet(Orphans) /\ Cardinality(Orphans) \in Nat
      /\ IsFiniteSet(Abandoned) /\ Cardinality(Abandoned) \in Nat
      /\ Cardinality(Orphans) + Cardinality(Abandoned) <= failed + before
      /\ failed \in Nat
  BY OrphansAreFinite, FS_CardinalityType DEF PaidFor, Inv, HistoryTypes
<1>2. SUFFICES /\ IsFiniteSet(Abandoned')
               /\ Cardinality(Orphans') + Cardinality(Abandoned') <= failed' + after
  BY DEF PaidFor
<1>3. ASSUME Orphans' \subseteq Orphans, Mine \cap Orphans' \subseteq Mine'
      PROVE  /\ Cardinality(Orphans') \in Nat
             /\ Cardinality(Orphans') + before <= Cardinality(Orphans) + after
  <2>1. Cardinality(Orphans') \in Nat /\ Cardinality(Orphans') <= Cardinality(Orphans)
    BY <1>1, <1>3, NoMore
  <2>2. CASE Mine = {} \/ Mine' # {}
    BY <1>1, <2>1, <2>2
  <2>3. CASE Mine # {} /\ Mine' = {}
    <3>1. PICK t \in Orphans : t \notin Orphans'
      BY <1>3, <2>3 DEF Mine
    <3>2. Cardinality(Orphans') <= Cardinality(Orphans) - 1
      BY <1>1, <1>3, <3>1, OneLess
    <3> QED
      BY <1>1, <2>1, <2>3, <3>2
  <2> QED
    BY <2>2, <2>3
<1>4. CASE Fewer
  <2>1. /\ IsFiniteSet(Abandoned') /\ Cardinality(Abandoned') \in Nat
        /\ Cardinality(Abandoned') <= Cardinality(Abandoned)
    BY <1>1, <1>4, NoMore DEF Fewer
  <2>2. /\ Cardinality(Orphans') \in Nat /\ failed' = failed
        /\ Cardinality(Orphans') + before <= Cardinality(Orphans) + after
    BY <1>3, <1>4 DEF Fewer
  <2> QED
    BY <1>1, <2>1, <2>2
<1>5. CASE LateSale
  <2>1. PICK t, c : /\ c \in Abandoned /\ Abandoned' \subseteq Abandoned \ {c}
                    /\ Orphans' \subseteq Orphans \cup {t}
    BY <1>5 DEF LateSale
  <2>2. /\ IsFiniteSet(Abandoned') /\ Cardinality(Abandoned') \in Nat
        /\ Cardinality(Abandoned') <= Cardinality(Abandoned) - 1
    BY <1>1, <2>1, OneLess
  <2>3. failed' = failed
    BY <1>5 DEF LateSale
  <2>4. CASE t \in Orphans \/ t \notin Orphans'
    <3>1. Orphans' \subseteq Orphans /\ Mine \cap Orphans' \subseteq Mine'
      BY <1>5, <2>1, <2>4 DEF LateSale
    <3>2. /\ Cardinality(Orphans') \in Nat
          /\ Cardinality(Orphans') + before <= Cardinality(Orphans) + after
      BY <1>3, <3>1
    <3> QED
      BY <1>1, <2>2, <2>3, <3>2
  <2>5. CASE t \notin Orphans /\ t \in Orphans'
    <3>1. Cardinality(Orphans') \in Nat /\ Cardinality(Orphans') <= Cardinality(Orphans) + 1
      BY <1>1, <2>1, OneMore
    <3>2. CASE Mine = {} \/ Mine' # {}
      BY <1>1, <2>2, <2>3, <3>1, <3>2
    <3>3. CASE Mine # {} /\ Mine' = {}
      <4>1. PICK u \in Orphans : u \notin Orphans'
        BY <1>5, <3>3 DEF LateSale, Mine
      <4>2. Orphans' \subseteq (Orphans \ {u}) \cup {t}
        BY <2>1, <4>1
      <4>3. /\ IsFiniteSet(Orphans \ {u}) /\ Cardinality(Orphans \ {u}) \in Nat
            /\ Cardinality(Orphans \ {u}) <= Cardinality(Orphans) - 1
        BY <1>1, OneLess
      <4>4. Cardinality(Orphans') <= Cardinality(Orphans \ {u}) + 1
        BY <4>2, <4>3, OneMore
      <4> QED
        BY <1>1, <2>2, <2>3, <3>1, <3>3, <4>3, <4>4
    <3> QED
      BY <3>2, <3>3
  <2> QED
    BY <2>4, <2>5
<1>6. CASE SaleInTime
  <2>1. PICK t : Orphans' \subseteq Orphans \cup {t} /\ (t \in Orphans' => t \in Mine')
    BY <1>6 DEF SaleInTime
  <2>2. /\ IsFiniteSet(Abandoned') /\ Cardinality(Abandoned') \in Nat
        /\ Cardinality(Abandoned') <= Cardinality(Abandoned)
    BY <1>1, <1>6, NoMore DEF SaleInTime
  <2>3. before = 0 /\ failed' = failed
    BY <1>6 DEF SaleInTime
  <2>4. CASE t \in Orphans'
    <3>1. after = 1
      BY <2>1, <2>4
    <3>2. Cardinality(Orphans') \in Nat /\ Cardinality(Orphans') <= Cardinality(Orphans) + 1
      BY <1>1, <2>1, OneMore
    <3> QED
      BY <1>1, <2>2, <2>3, <3>1, <3>2
  <2>5. CASE t \notin Orphans'
    <3>1. Cardinality(Orphans') \in Nat /\ Cardinality(Orphans') <= Cardinality(Orphans)
      BY <1>1, <2>1, <2>5, NoMore
    <3> QED
      BY <1>1, <2>2, <2>3, <3>1
  <2> QED
    BY <2>4, <2>5
<1>7. CASE Paid
  <2>1. /\ Cardinality(Orphans') \in Nat /\ Cardinality(Orphans') <= Cardinality(Orphans)
        /\ failed' = failed + 1
    BY <1>1, <1>7, NoMore DEF Paid
  <2>2. CASE Abandoned' \subseteq Abandoned
    <3>1. /\ IsFiniteSet(Abandoned') /\ Cardinality(Abandoned') \in Nat
          /\ Cardinality(Abandoned') <= Cardinality(Abandoned)
      BY <1>1, <2>2, NoMore
    <3> QED
      BY <1>1, <2>1, <3>1
  <2>3. ASSUME Mine = {}, NEW c, Abandoned' \subseteq Abandoned \cup {c}
        PROVE  /\ IsFiniteSet(Abandoned')
               /\ Cardinality(Orphans') + Cardinality(Abandoned') <= failed' + after
    <3>1. /\ IsFiniteSet(Abandoned') /\ Cardinality(Abandoned') \in Nat
          /\ Cardinality(Abandoned') <= Cardinality(Abandoned) + 1
      BY <1>1, <2>3, OneMore
    <3> QED
      BY <1>1, <2>1, <2>3, <3>1
  <2> QED
    BY <1>7, <2>2, <2>3 DEF Paid
<1> QED
  BY <1>4, <1>5, <1>6, <1>7
\* What the office does to the call that the machine waits for.
LEMMA MineInOffice ==
  ASSUME Inv, OfficeStep, NoSale PROVE Fewer
<1> DEFINE c == call[Tvm]
<1>1. UNCHANGED <<call, issued, failed>>
  BY DEF OfficeStep, Served, Worked, Replied, Crashed, Ticked, http, history
<1>2. Orphans' \subseteq Orphans
  BY <1>1 DEF NoSale, Orphans, Range
<1>3. Abandoned' \subseteq Abandoned
  BY <1>1 DEF NoSale, Abandoned
<1>4. c # NoCall => c \in Calls /\ c.client = Tvm
  BY DEF Inv, HttpInv, HttpTypes, AllMade, Clients
<1>5. ASSUME NEW t \in Mine
      PROVE  /\ \A w \in Workers : serving'[w] = c =>
                   /\ ticket'[w] = t
                   /\ pc'[w] = "write" \/ (pc'[w] = "reply" /\ reply'[w] = OP!Created)
             /\ \A a \in answers' : a.call = c => a.status = OP!Created /\ a.ticket = t
  <2>1. /\ c # NoCall /\ c \notin Open
        /\ \A w \in Workers : serving[w] = c =>
              /\ ticket[w] = t
              /\ pc[w] = "write" \/ (pc[w] = "reply" /\ reply[w] = OP!Created)
        /\ \A a \in answers : a.call = c => a.status = OP!Created /\ a.ticket = t
    BY DEF Mine, MayBeMine
  <2>2. ASSUME NEW w \in Workers, NEW d \in wire, Served(w, d) PROVE <1>5!2
    <3>1. d # c
      BY <1>4, <2>1 DEF Open, IsOpen
    <3>2. /\ serving'[w] = d /\ answers' = answers
          /\ \A v \in Workers \ {w} : UNCHANGED <<pc[v], ticket[v], reply[v], serving[v]>>
      BY <2>2, ServedFacts DEF Served, Inv, HttpInv, HttpTypes
    <3> QED
      BY <2>1, <3>1, <3>2
  <2>3. ASSUME NEW w \in Workers, Worked(w) PROVE <1>5!2
    <3>1. /\ serving' = serving /\ answers' = answers
          /\ \A v \in Workers \ {w} : UNCHANGED <<pc[v], ticket[v], reply[v]>>
      BY <2>3, WorkedFacts DEF Worked, http
    <3>2. serving[w] = c => pc[w] = "write"
      BY <2>1, <2>3, WorkedFacts
    <3>3. pc[w] = "write" => ticket' = ticket /\ pc'[w] = "reply" /\ reply'[w] = OP!Created
      BY <2>3 DEF Worked, OfficeWork, OP!GetLastTicketId, OP!SaveTruncate, OP!SaveThrows,
         OP!SaveWrite, OP!OpenFault, OP!WriteFault, OP!Validate, OP!Answer,
         Inv, OP!Inv, OP!TypeOK
    <3> QED
      BY <2>1, <3>1, <3>2, <3>3
  <2>4. ASSUME NEW w \in Workers, Replied(w) PROVE <1>5!2
    <3>1. /\ serving'[w] = NoCall /\ pc[w] = "reply"
          /\ \A v \in Workers \ {w} : UNCHANGED <<pc[v], ticket[v], reply[v], serving[v]>>
      BY <2>4, RepliedFacts
    <3>2. \/ answers' = answers
          \/ \E a : /\ a.call = serving[w] /\ a.status = reply[w] /\ a.ticket = ticket[w]
                    /\ answers' = answers \cup {a}
      BY <2>4, RepliedAnswer
    <3> QED
      BY <2>1, <3>1, <3>2
  <2>5. Crashed => <1>5!2
    BY <2>1 DEF Crashed
  <2>6. Ticked => <1>5!2
    BY <2>1 DEF Ticked, http, OP!Tick
  <2> QED
    BY <2>2, <2>3, <2>4, <2>5, <2>6 DEF OfficeStep
<1>6. ASSUME NEW t \in Mine, t \in Orphans' PROVE t \in Mine'
  <2>1. call'[Tvm] = c /\ c # NoCall /\ c \notin Open'
    BY <1>1 DEF Mine, MayBeMine, NoSale
  <2>2. MayBeMine(t)'
    BY <1>5, <2>1 DEF MayBeMine
  <2> QED
    BY <1>6, <2>2 DEF Mine
<1> QED
  BY <1>1, <1>2, <1>3, <1>6 DEF Fewer

LEMMA MineAtSale ==
  ASSUME Inv, SaleMade PROVE LateSale \/ SaleInTime
<1>1. PICK w \in Workers :
        /\ Worked(w) /\ serving[w] \in Open /\ pc[w] = "save" /\ pc'[w] = "write"
        /\ OP!Log' = Append(OP!Log, ticket[w]) /\ ticket'[w] = ticket[w]
        /\ Open' \subseteq Open \ {serving[w]}
  BY DEF SaleMade
<1>2. PICK c \in Open : c = serving[w] /\ c # NoCall
  BY <1>1 DEF Open, IsOpen
<1>3. PICK t : t = ticket[w] /\ ticket'[w] = t
  BY <1>1
<1>4. /\ UNCHANGED <<call, issued, failed, serving, answers>>
      /\ \A v \in Workers \ {w} : UNCHANGED <<pc[v], ticket[v], reply[v]>>
  BY <1>1, WorkedFacts DEF Worked, http, history
<1>5. Orphans' \subseteq Orphans \cup {t}
  <2>1. OP!Log \in Seq(OP!Tickets) /\ ticket[w] \in OP!Tickets
    BY OP!LogType DEF Inv, OP!Inv, OP!TypeOK
  <2>2. Range(OP!Log') \subseteq Range(OP!Log) \cup {t}
    BY <1>1, <1>3, <2>1, AppendProperties, LenProperties DEF Range
  <2> QED
    BY <1>4, <2>2 DEF Orphans
<1>6. Open' \subseteq Open \ {c}
  BY <1>1, <1>2
<1>7. /\ \A v \in Workers \ {w} : serving[v] # c
      /\ \A a \in answers : a.call # c
  BY <1>2 DEF Inv, HttpInv, Once
<1>8. CASE c = call[Tvm]
  <2>1. Mine = {} /\ Abandoned' \subseteq Abandoned
    BY <1>4, <1>6, <1>8 DEF Mine, MayBeMine, Abandoned
  <2>2. MayBeMine(t)'
    BY <1>1, <1>2, <1>3, <1>4, <1>6, <1>7, <1>8 DEF MayBeMine
  <2>3. t \in Orphans' => t \in Mine'
    BY <2>2 DEF Mine
  <2> QED
    BY <1>4, <1>5, <2>1, <2>3 DEF SaleInTime
<1>9. CASE c # call[Tvm]
  <2>1. c \in Abandoned /\ Abandoned' \subseteq Abandoned \ {c}
    BY <1>2, <1>4, <1>6, <1>9 DEF Abandoned
  <2>2. ASSUME NEW u \in Mine, u \in Orphans' PROVE u \in Mine'
    <3>1. MayBeMine(u)'
      BY <1>2, <1>4, <1>6, <1>9 DEF Mine, MayBeMine
    <3> QED
      BY <2>2, <3>1 DEF Mine
  <2> QED
    BY <1>4, <1>5, <2>1, <2>2 DEF LateSale
<1> QED
  BY <1>8, <1>9

LEMMA MineAtPost ==
  ASSUME Inv, SalePosted PROVE Fewer
<1>1. PICK r \in Requests : PostRequest(r)
  BY DEF SalePosted
<1>2. PICK c : /\ call[Tvm] = NoCall /\ call' = [call EXCEPT ![Tvm] = c]
               /\ wire' = wire \cup {c}
  BY <1>1, Zenon DEF PostRequest, Call
<1>3. /\ OP!Log' = OP!Log /\ call'[Tvm] = c
      /\ UNCHANGED <<issued, failed, serving, pc>>
  BY <1>1, <1>2 DEF SalePosted, PostRequest, officeVars, Inv, HttpInv, HttpTypes, Clients
<1>4. Orphans' = Orphans /\ Mine = {}
  BY <1>2, <1>3 DEF Orphans, Mine, MayBeMine
<1>5. Abandoned' \subseteq Abandoned
  <2>1. Open' \subseteq Open \cup {c}
    BY <1>2, <1>3 DEF Open, IsOpen
  <2>2. call[Tvm] \notin Open
    BY <1>2 DEF Open
  <2> QED
    BY <1>3, <2>1, <2>2 DEF Abandoned
<1> QED
  BY <1>3, <1>4, <1>5 DEF Fewer

LEMMA MineAtClients ==
  ASSUME Inv, NoSale, \/ TvmStep
                      \/ \E g \in Gates : GateStep(g)
                      \/ UNCHANGED vars
  PROVE  Fewer \/ Paid
<1>1. /\ UNCHANGED officeVars /\ OP!Log' = OP!Log
      /\ pc' = pc /\ ticket' = ticket /\ reply' = reply
  BY ClientsOnly DEF officeVars, OP!Log
<1>2. Open' \subseteq Open
  BY DEF NoSale
<1>3. NoCall \notin Open
  BY DEF Open
<1>4. ASSUME UNCHANGED <<issued, failed, serving>>, call'[Tvm] = call[Tvm],
             answers' \subseteq answers
      PROVE  Fewer
  <2>1. Orphans' = Orphans /\ Abandoned' \subseteq Abandoned
    BY <1>1, <1>2, <1>4 DEF Orphans, Abandoned
  <2>2. ASSUME NEW t \in Mine PROVE t \in Mine'
    <3>1. MayBeMine(t)'
      BY <1>1, <1>2, <1>4 DEF Mine, MayBeMine
    <3> QED
      BY <2>1, <3>1 DEF Mine
  <2> QED
    BY <1>4, <2>1, <2>2 DEF Fewer
<1>5. CASE DiscardRequest \/ UNCHANGED vars
  BY <1>4, <1>5 DEF DiscardRequest, vars, http, history
<1>6. ASSUME NEW r \in Requests, PostRequest(r) PROVE Fewer
  BY <1>1, <1>6, MineAtPost DEF SalePosted
<1>7. ASSUME NEW a \in answers, PostAnswered(a) PROVE Fewer
  <2>1. /\ a.call = call[Tvm] /\ call' = [call EXCEPT ![Tvm] = NoCall]
        /\ failed' = failed
        /\ issued' = IF Success(a.status) THEN issued \cup {a.ticket} ELSE issued
    BY <1>7 DEF PostAnswered, Returns
  <2>2. call'[Tvm] = NoCall
    BY <2>1 DEF Inv, HttpInv, HttpTypes, Clients
  <2>3. call[Tvm] \notin Open
    BY <2>1 DEF Open, IsOpen, Inv, HttpInv, Once
  <2>4. Abandoned' \subseteq Abandoned
    BY <1>2, <2>3 DEF Abandoned
  <2>5. Orphans' \subseteq Orphans
    BY <1>1, <2>1 DEF Orphans
  <2>6. ASSUME NEW t \in Mine PROVE t \notin Orphans'
    <3>1. a.status = OP!Created /\ a.ticket = t
      BY <2>1 DEF Mine, MayBeMine
    <3>2. t \in issued'
      BY <2>1, <3>1 DEF Success, OP!Created
    <3> QED
      BY <3>2 DEF Orphans
  <2> QED
    BY <2>1, <2>4, <2>5, <2>6 DEF Fewer
<1>8. CASE PostFailed
  <2>1. call' = [call EXCEPT ![Tvm] = NoCall] /\ failed' = failed + 1 /\ issued' = issued
    BY <1>8 DEF PostFailed, ReturnsNothing
  <2>2. Orphans' = Orphans
    BY <1>1, <2>1 DEF Orphans
  <2>3. CASE call[Tvm] \in Open
    <3>1. Mine = {}
      BY <2>3 DEF Mine, MayBeMine
    <3>2. Abandoned' \subseteq Abandoned \cup {call[Tvm]}
      BY <1>2 DEF Abandoned
    <3> QED
      BY <2>1, <2>2, <3>1, <3>2 DEF Paid
  <2>4. CASE call[Tvm] \notin Open
    <3>1. Abandoned' \subseteq Abandoned
      BY <1>2, <2>4 DEF Abandoned
    <3> QED
      BY <2>1, <2>2, <3>1 DEF Paid
  <2> QED
    BY <2>3, <2>4
<1>9. ASSUME NEW g \in Gates, GateStep(g) PROVE Fewer
  <2>1. g # Tvm /\ DOMAIN call = Clients
    BY DEF Inv, HttpInv, HttpTypes
  <2>2. ASSUME NEW t \in issued, ShowTicket(g, t)
        PROVE  /\ UNCHANGED <<issued, failed, serving, answers>>
               /\ \E c : call' = [call EXCEPT ![g] = c]
    <3>1. UNCHANGED <<issued, failed, serving, answers>>
      BY <2>2 DEF ShowTicket, history
    <3>2. \E c : call' = [call EXCEPT ![g] = c]
      BY <2>2, Zenon DEF ShowTicket, Call
    <3> QED
      BY <3>1, <3>2
  <2>3. ASSUME (\E a \in answers : DecideOnline(g, a)) \/ DecideOffline(g)
        PROVE  /\ UNCHANGED <<issued, failed, serving>> /\ answers' \subseteq answers
               /\ call' = [call EXCEPT ![g] = NoCall]
    BY <2>3 DEF DecideOnline, DecideOffline, Decide, Returns, ReturnsNothing
  <2>4. call'[Tvm] = call[Tvm]
    BY <1>9, <2>1, <2>2, <2>3 DEF GateStep, Clients
  <2> QED
    BY <1>4, <1>9, <2>2, <2>3, <2>4 DEF GateStep
<1> QED
  BY <1>5, <1>6, <1>7, <1>8, <1>9 DEF TvmStep

LEMMA PaidForStep == ASSUME Inv, PaidFor, [Next]_vars PROVE PaidFor'
<1>1. Inv'
  BY NextInv
<1>2. CASE SaleMade
  BY <1>1, <1>2, MineAtSale, AccountStep
<1>3. CASE SalePosted
  BY <1>1, <1>3, MineAtPost, AccountStep
<1>4. CASE NoSale
  BY <1>1, <1>4, MineInOffice, MineAtClients, AccountStep, StepCases
<1> QED
  BY <1>2, <1>3, <1>4, SaleCases

\* A ticket on file that the vending machine was never answered with cost it a
\* POST that failed, or is that of the POST it waits for, whatever faults the file
\* suffers and wherever the office is killed.
THEOREM OrphansArePaidFor == Spec => []OrphansPaidFor
<1>1. Init => PaidFor
  <2> SUFFICES ASSUME Init PROVE PaidFor
    OBVIOUS
  <2>1. Abandoned = {} /\ Orphans = {}
    BY SameRest DEF Init, OP!Init, OP!Log, Abandoned, Orphans, Range, Open, IsOpen
  <2>2. Mine = {}
    BY <2>1 DEF Mine
  <2> QED
    BY <2>1, <2>2, FS_EmptySet DEF Init, PaidFor
<1>2. Inv /\ PaidFor => OrphansPaidFor
  <2> SUFFICES ASSUME Inv, PaidFor
               PROVE  Cardinality(Orphans)
                         <= failed + (IF call[Tvm] = NoCall THEN 0 ELSE 1)
    BY SameState DEF OrphansPaidFor, Orphans
  <2>1. /\ Cardinality(Orphans) \in Nat /\ Cardinality(Abandoned) \in Nat /\ failed \in Nat
        /\ Cardinality(Orphans) + Cardinality(Abandoned)
              <= failed + (IF Mine = {} THEN 0 ELSE 1)
    BY OrphansAreFinite, FS_CardinalityType DEF PaidFor, Inv, HistoryTypes
  <2>2. call[Tvm] = NoCall => Mine = {}
    BY DEF Mine, MayBeMine
  <2> QED
    BY <2>1, <2>2
<1> QED
  BY <1>1, <1>2, PaidForStep, Invariance, PTL DEF Spec
-------------------------------------------------------------------------------
(* Verdicts *)

Expiry(t) == ExpiryDate(t.creation_date, t.validity_in_days)

\* Ids start from 1, so that no ticket the office acknowledges is the unknown one.
Numbered ==
    /\ \A t \in acked : t.ticket_id >= 1
    /\ \A w \in Workers :
          \/ pc[w] \in {"save", "write"}
          \/ pc[w] = "reply" /\ reply[w] = OP!Created
          => ticket[w].ticket_id >= 1

\* What is known of the office.
OfficeInv == OP!AckInv /\ OP!UniqueInv /\ OP!AllFit /\ Numbered

LEMMA ExpiryIsInt == ASSUME NEW t \in OP!Tickets PROVE Expiry(t) \in Int
<1>1. t.creation_date \in Int /\ t.validity_in_days \in Int
  BY OP!IntsAreInt DEF OP!Tickets
<1> QED
  BY <1>1 DEF Expiry, ExpiryDate

LEMMA NumberedStep == ASSUME Inv, Numbered, [Next]_vars PROVE Numbered'
<1>1. /\ pc \in [Workers -> OP!Labels] /\ ticket \in [Workers -> OP!Tickets]
      /\ DOMAIN reply = Workers /\ file \in Seq(OP!Tickets)
  BY DEF Inv, OP!Inv, OP!TypeOK
<1>2. ASSUME NEW w \in Workers, NEW c \in wire, Served(w, c) PROVE Numbered'
  <2>1. /\ acked' = acked
        /\ \A v \in Workers \ {w} : UNCHANGED <<pc[v], ticket[v], reply[v]>>
        /\ \/ pc'[w] \in {"lastId", "find"}
           \/ pc'[w] = "reply" /\ reply'[w] = OP!BadRequest
    BY <1>2, ServedFacts
  <2> QED
    BY <2>1 DEF Numbered, OP!BadRequest, OP!Created
<1>3. ASSUME NEW w \in Workers, Worked(w) PROVE Numbered'
  <2>1. /\ acked' = acked
        /\ \A v \in Workers \ {w} : UNCHANGED <<pc[v], ticket[v], reply[v]>>
    BY <1>3, WorkedFacts
  <2>2. CASE OP!GetLastTicketId(w)
    <3> DEFINE id == OP!Max({0} \cup OP!Ids(file)) + 1
    <3>1. id \in Nat /\ id >= 1
      BY <1>1, OP!NextIdAbove
    <3>2. \/ pc'[w] = "reply" /\ reply'[w] = OP!ServerError
          \/ ticket' = [ticket EXCEPT ![w].ticket_id = id]
      BY <1>1, <2>2 DEF OP!GetLastTicketId, OP!Throw, OP!Answer
    <3> HIDE DEF id
    <3>3. CASE ticket' = [ticket EXCEPT ![w].ticket_id = id]
      <4>1. ticket'[w].ticket_id >= 1
        BY <1>1, <3>1, <3>3 DEF OP!Tickets
      <4> QED
        BY <2>1, <4>1 DEF Numbered
    <3>4. CASE pc'[w] = "reply" /\ reply'[w] = OP!ServerError
      BY <2>1, <3>4 DEF Numbered, OP!ServerError, OP!Created
    <3> QED
      BY <3>2, <3>3, <3>4
  <2>3. CASE \/ OP!SaveTruncate(w) \/ OP!SaveThrows(w) \/ OP!SaveWrite(w)
             \/ OP!OpenFault(w) \/ OP!WriteFault(w)
    <3>1. pc[w] \in {"save", "write"} /\ ticket' = ticket
      BY <2>3 DEF OP!SaveTruncate, OP!SaveThrows, OP!SaveWrite, OP!OpenFault, OP!WriteFault
    <3> QED
      BY <2>1, <3>1 DEF Numbered
  <2>4. CASE OP!Validate(w)
    <3>1. pc'[w] = "reply" /\ reply'[w] # OP!Created
      BY <1>1, <2>4 DEF OP!Validate, OP!Throw, OP!Answer, OP!Created, OP!OK, OP!Gone, OP!NotFound,
         OP!ServerError
    <3> QED
      BY <2>1, <3>1 DEF Numbered
  <2> QED
    BY <1>3, <2>2, <2>3, <2>4 DEF Worked, OfficeWork
<1>4. ASSUME NEW w \in Workers, Replied(w) PROVE Numbered'
  <2>1. /\ pc[w] = "reply" /\ pc'[w] = "idle"
        /\ \A v \in Workers \ {w} : UNCHANGED <<pc[v], ticket[v], reply[v]>>
    BY <1>4, RepliedFacts
  <2>2. acked' = IF reply[w] = OP!Created THEN acked \cup {ticket[w]} ELSE acked
    BY <1>4 DEF Replied, OP!Respond
  <2> QED
    BY <2>1, <2>2 DEF Numbered
<1>5. Crashed => Numbered'
  BY DEF Crashed, OP!Crash, Numbered
<1>6. Ticked => Numbered'
  BY DEF Ticked, OP!Tick, Numbered
<1>7. UNCHANGED officeVars => Numbered'
  BY DEF officeVars, Numbered
<1> QED
  BY <1>2, <1>3, <1>4, <1>5, <1>6, <1>7, StepCases, ClientsOnly DEF OfficeStep

LEMMA OfficeInvariance ==
  ASSUME OP!OneWorker, OP!DaysFit PROVE Spec => [](Inv /\ OfficeInv)
<1>1. Init => OfficeInv
  <2> SUFFICES ASSUME Init PROVE OfficeInv
    OBVIOUS
  <2>1. OP!Init
    BY SameRest DEF Init
  <2>2. OP!AckInv
    BY <2>1, OP!AckInvInductive
  <2>3. DOMAIN OP!Log = {}
    BY <2>1 DEF OP!Init, OP!Log
  <2>4. OP!UniqueInv
    BY <2>1, <2>3 DEF OP!Init, OP!UniqueInv, OP!UniqueIds, OP!IdAboveLog
  <2>5. OP!AllFit
    BY <2>1, <2>3, OP!UnknownFits DEF OP!Init, OP!AllFit
  <2>6. Numbered
    BY <2>1 DEF OP!Init, Numbered
  <2> QED
    BY <2>2, <2>4, <2>5, <2>6 DEF OfficeInv
<1>2. Inv /\ OfficeInv /\ [Next]_vars => OfficeInv'
  <2> SUFFICES ASSUME Inv, OfficeInv, [Next]_vars PROVE OfficeInv'
    OBVIOUS
  <2>1. OP!Inv /\ [OP!Next]_(OP!vars)
    BY OfficeNext DEF Inv
  <2>2. OP!AckInv'
    BY <2>1, OP!AckInvInductive DEF OfficeInv
  <2>3. OP!UniqueInv'
    BY <2>1, OP!UniqueInvStep DEF OfficeInv
  <2>4. OP!AllFit'
    BY <2>1, OP!AllFitStep DEF OfficeInv
  <2>5. Numbered'
    BY NumberedStep DEF OfficeInv
  <2> QED
    BY <2>2, <2>3, <2>4, <2>5 DEF OfficeInv
<1> QED
  BY <1>1, <1>2, Invariance, PTL DEF Spec

\* What a worker finds out about a ticket the office acknowledged.
LEMMA AckedVerdict ==
  ASSUME OP!DaysFit, "open" \notin Faults, Inv, OfficeInv,
         NEW w \in Workers, OP!Validate(w), ticket[w] \in acked
  PROVE  \/ reply'[w] = OP!ServerError
         \/ reply'[w] = IF now > Expiry(ticket[w]) THEN OP!Gone ELSE OP!OK
<1>1. OP!Inv /\ OP!AllFit /\ OP!AckInv /\ OP!UniqueIds
  BY DEF Inv, OfficeInv, OP!UniqueInv
<1>2. /\ pc'[w] = "reply"
      /\ \/ reply'[w] \in {OP!ServerError, OP!NotFound}
         \/ /\ OP!Readable /\ OP!Log = file
            /\ \E i \in DOMAIN file :
                  /\ OP!IsFirst(file, i, ticket[w].ticket_id)
                  /\ reply'[w] = IF OP!Expired(now, file[i].creation_date,
                                               file[i].validity_in_days)
                                 THEN OP!Gone ELSE OP!OK
  BY <1>1, OP!ValidateOutcome
<1>3. OP!Readable => ticket[w] \in OP!Range(OP!Log)
  BY <1>1, OP!AckedOnFile
<1>4. reply'[w] # OP!NotFound
  <2>1. SUFFICES ASSUME ~torn, m_mtx = NoWorker, ticket[w].ticket_id \notin OP!Ids(file)
                 PROVE  FALSE
    BY DEF OP!Validate, OP!Throw, OP!Answer, Inv, OP!Inv, OP!TypeOK, OP!OK, OP!Gone, OP!NotFound,
       OP!ServerError
  <2>2. ticket[w] \in OP!Range(file)
    BY <1>3, <2>1 DEF OP!Readable, OP!Log
  <2> QED
    BY <2>1, <2>2 DEF OP!Ids
<1>5. ASSUME OP!Readable, OP!Log = file, NEW i \in DOMAIN file,
             OP!IsFirst(file, i, ticket[w].ticket_id),
             reply'[w] = IF OP!Expired(now, file[i].creation_date, file[i].validity_in_days)
                         THEN OP!Gone ELSE OP!OK
      PROVE  reply'[w] = IF now > Expiry(ticket[w]) THEN OP!Gone ELSE OP!OK
  <2>1. PICK j \in DOMAIN file : file[j] = ticket[w]
    BY <1>3, <1>5 DEF OP!Range
  <2>2. file[i] = ticket[w]
    BY <1>1, <1>5, <2>1 DEF OP!UniqueIds, OP!IsFirst
  <2> QED
    BY <1>5, <2>2, SameDates, Zenon DEF OP!Expired, Expiry
<1> QED
  BY <1>2, <1>4, <1>5
\* The status is right for call c, at this instant.
Right(status, c) ==
    /\ status = OP!OK => c.at <= Expiry(c.body)
    /\ status = OP!Gone => now > Expiry(c.body)
    /\ status # OP!NotFound

\* So is a gate's verdict; and a ticket that had been refused for its dates was
\* shown after them.
Judged(v) ==
    /\ IF v.valid THEN v.asked <= Expiry(v.ticket)
                  ELSE v.status = OP!ServerError \/ now > Expiry(v.ticket)
    /\ v.hopeless => v.asked > Expiry(v.ticket)

\* From the worker that looks at the file to the gate that decides.
WorkersRight ==
    \A w \in Workers :
        serving[w] # NoCall /\ serving[w].client # Tvm /\ pc[w] = "reply" =>
            Right(reply[w], serving[w])
AnswersRight == \A a \in answers : a.call.client # Tvm => Right(a.status, a.call)
RefusedExpired == \A t \in refused : now > Expiry(t)
ShownLate ==
    \A g \in Gates : call[g] # NoCall /\ call[g].hopeless =>
                         call[g].at > Expiry(call[g].body)
GatesRight == \A g \in Gates : verdict[g] = NoVerdict \/ Judged(verdict[g])

Chain == WorkersRight /\ AnswersRight /\ RefusedExpired /\ ShownLate /\ GatesRight

\* A gate's call is about a ticket the office acknowledged.
LEMMA GateCall ==
  ASSUME Inv, NEW c \in MadeCalls, c.client # Tvm
  PROVE  /\ c \in Calls /\ c.body \in issued /\ c.body \in acked /\ c.body \in OP!Tickets
         /\ c.at \in Nat /\ c.at <= now /\ now \in Nat /\ Expiry(c.body) \in Int
<1>1. c \in Calls /\ c.body \in issued /\ c.body \in acked /\ c.at \in Nat /\ c.at <= now
  BY DEF MadeCalls, Made, Calls, Inv, HistoryTypes
<1>2. c.body \in OP!Tickets /\ now \in Nat
  BY <1>1 DEF Inv, OP!Inv, OP!TypeOK
<1> QED
  BY <1>1, <1>2, ExpiryIsInt

\* What is right stays right.
LEMMA RightStays ==
  ASSUME Inv, now' \in Nat, now <= now', NEW status, NEW c \in MadeCalls, c.client # Tvm,
         Right(status, c)
  PROVE  Right(status, c)'
<1>1. Expiry(c.body) \in Int /\ now \in Nat
  BY GateCall
<1> QED
  BY <1>1 DEF Right

LEMMA JudgedStays ==
  ASSUME Inv, now' \in Nat, now <= now', NEW g \in Gates, Judged(verdict[g]),
         verdict'[g] = verdict[g]
  PROVE  Judged(verdict[g])'
<1>1. PICK v : v = verdict[g] /\ v.ticket \in OP!Tickets /\ Judged(v)
  BY DEF Inv, HistoryTypes
<1>2. Expiry(v.ticket) \in Int /\ now \in Nat
  BY <1>1, ExpiryIsInt, NowIsNat
<1>3. Judged(v)'
  BY <1>1, <1>2 DEF Judged
<1> QED
  BY <1>1, <1>3

\* What is known stays so where nothing new is said.
LEMMA ChainStays ==
  ASSUME Inv, now' \in Nat, now <= now'
  PROVE  /\ AnswersRight /\ answers' \subseteq answers => AnswersRight'
         /\ RefusedExpired /\ refused' = refused => RefusedExpired'
         /\ ShownLate /\ (\A g \in Gates : call'[g] \in {call[g], NoCall}) => ShownLate'
         /\ GatesRight /\ verdict' = verdict => GatesRight'
<1>1. ASSUME AnswersRight, answers' \subseteq answers PROVE AnswersRight'
  <2> SUFFICES ASSUME NEW a \in answers, a.call.client # Tvm PROVE Right(a.status, a.call)'
    BY <1>1 DEF AnswersRight
  <2> QED
    BY <1>1, AnswerIsAwaited, RightStays DEF AnswersRight
<1>2. ASSUME RefusedExpired, refused' = refused PROVE RefusedExpired'
  <2> SUFFICES ASSUME NEW t \in refused PROVE now' > Expiry(t)
    BY <1>2 DEF RefusedExpired
  <2>1. Expiry(t) \in Int
    BY ExpiryIsInt DEF Inv, HistoryTypes, OP!Inv, OP!TypeOK
  <2> QED
    BY <1>2, <2>1, NowIsNat DEF RefusedExpired
<1>3. ASSUME ShownLate, \A g \in Gates : call'[g] \in {call[g], NoCall} PROVE ShownLate'
  BY <1>3 DEF ShownLate
<1>4. ASSUME GatesRight, verdict' = verdict PROVE GatesRight'
  <2> SUFFICES ASSUME NEW g \in Gates, verdict[g] # NoVerdict PROVE Judged(verdict[g])'
    BY <1>4 DEF GatesRight, NoVerdict
  <2> QED
    BY <1>4, JudgedStays DEF GatesRight
<1> QED
  BY <1>1, <1>2, <1>3, <1>4

LEMMA OfficeChain ==
  ASSUME OP!DaysFit, "open" \notin Faults, Inv, OfficeInv, Chain, [Next]_vars, OfficeStep
  PROVE  Chain'
<1>1. now \in Nat /\ now' \in Nat /\ now <= now'
  BY OfficeNext, OP!ClockStep DEF Inv
<1>2. UNCHANGED <<call, refused, verdict>>
  BY DEF OfficeStep, Served, Worked, Replied, Crashed, Ticked, http, history
<1>3. RefusedExpired' /\ ShownLate' /\ GatesRight'
  BY <1>1, <1>2, ChainStays DEF Chain
<1>4. ASSUME NEW v \in Workers, UNCHANGED <<pc[v], reply[v], serving[v]>>,
             serving[v] # NoCall, serving[v].client # Tvm, pc[v] = "reply"
      PROVE  Right(reply[v], serving[v])'
  <2>1. serving[v] \in MadeCalls /\ Right(reply[v], serving[v])
    BY <1>4 DEF Inv, HttpInv, AllMade, Chain, WorkersRight
  <2>2. PICK c, status : /\ c \in MadeCalls /\ c = serving[v] /\ status = reply[v]
                         /\ c.client # Tvm /\ Right(status, c)
    BY <1>4, <2>1
  <2>3. Right(status, c)'
    BY <1>1, <2>2, RightStays
  <2>4. serving'[v] = c /\ reply'[v] = status
    BY <1>4, <2>2
  <2> QED
    BY <2>3, <2>4
<1>5. ASSUME NEW w \in Workers, NEW c \in wire, Served(w, c) PROVE WorkersRight' /\ AnswersRight'
  <2>1. /\ answers' = answers /\ serving'[w] = c /\ (c.client # Tvm => pc'[w] = "find")
        /\ \A v \in Workers \ {w} : UNCHANGED <<pc[v], reply[v], serving[v]>>
    BY <1>5, ServedFacts DEF Served, Inv, HttpInv, HttpTypes
  <2>2. WorkersRight'
    BY <1>4, <2>1 DEF WorkersRight
  <2> QED
    BY <1>1, <2>1, <2>2, ChainStays DEF Chain
<1>6. ASSUME NEW w \in Workers, Worked(w) PROVE WorkersRight' /\ AnswersRight'
  <2>1. /\ answers' = answers /\ serving' = serving /\ now' = now
        /\ \A v \in Workers \ {w} : UNCHANGED <<pc[v], reply[v]>>
    BY <1>6, WorkedFacts DEF Worked, http
  <2>2. ASSUME serving[w] # NoCall, serving[w].client # Tvm
        PROVE  Right(reply[w], serving[w])'
    <3>1. pc[w] \in {"find", "reply"} /\ ticket[w] = serving[w].body
      BY <2>2 DEF Inv, Working
    <3>2. PICK c \in MadeCalls : c = serving[w] /\ c.client # Tvm /\ c.body = ticket[w]
      BY <2>2, <3>1 DEF Inv, HttpInv, AllMade
    <3>3. /\ c.body \in acked /\ c.at \in Nat /\ c.at <= now /\ Expiry(c.body) \in Int
      BY <3>2, GateCall
    <3>4. OP!Validate(w)
      BY <1>6, <3>1 DEF Worked, OfficeWork, OP!GetLastTicketId, OP!SaveTruncate,
         OP!SaveThrows, OP!SaveWrite, OP!OpenFault, OP!WriteFault
    <3>5. \/ reply'[w] = OP!ServerError
          \/ reply'[w] = IF now > Expiry(c.body) THEN OP!Gone ELSE OP!OK
      BY <3>2, <3>3, <3>4, AckedVerdict
    <3>6. PICK status : status = reply'[w]
      OBVIOUS
    <3>7. Right(status, c)'
      BY <1>1, <2>1, <3>3, <3>5, <3>6
      DEF Right, OP!ServerError, OP!Gone, OP!OK, OP!NotFound
    <3>8. serving'[w] = c
      BY <2>1, <3>2
    <3> QED
      BY <3>6, <3>7, <3>8
  <2>3. WorkersRight'
    BY <1>4, <2>1, <2>2 DEF WorkersRight
  <2> QED
    BY <1>1, <2>1, <2>3, ChainStays DEF Chain
<1>7. ASSUME NEW w \in Workers, Replied(w) PROVE WorkersRight' /\ AnswersRight'
  <2>1. /\ serving'[w] = NoCall /\ serving[w] # NoCall /\ pc[w] = "reply" /\ now' = now
        /\ \A v \in Workers \ {w} : UNCHANGED <<pc[v], reply[v], serving[v]>>
    BY <1>7, RepliedFacts
  <2>2. WorkersRight'
    BY <1>4, <2>1 DEF WorkersRight
  <2>3. CASE answers' = answers
    BY <1>1, <2>2, <2>3, ChainStays DEF Chain
  <2>4. ASSUME NEW a, a.call = serving[w], a.status = reply[w], answers' = answers \cup {a}
        PROVE  AnswersRight'
    <3>1. ASSUME NEW b \in answers, b.call.client # Tvm PROVE Right(b.status, b.call)'
      BY <1>1, <3>1, AnswerIsAwaited, RightStays DEF Chain, AnswersRight
    <3>2. ASSUME a.call.client # Tvm PROVE Right(a.status, a.call)'
      <4>1. Right(a.status, a.call) /\ a.call \in MadeCalls
        BY <2>1, <2>4, <3>2, <1>7, RepliedAnswer DEF Chain, WorkersRight
      <4> QED
        BY <1>1, <3>2, <4>1, RightStays
    <3> QED
      BY <2>4, <3>1, <3>2 DEF AnswersRight
  <2> QED
    BY <1>7, <2>2, <2>3, <2>4, RepliedAnswer
<1>8. ASSUME Crashed PROVE WorkersRight' /\ AnswersRight'
  <2>1. answers' = answers /\ \A w \in Workers : serving'[w] = NoCall
    BY <1>8 DEF Crashed
  <2> QED
    BY <1>1, <2>1, ChainStays DEF Chain, WorkersRight
<1>9. ASSUME Ticked PROVE WorkersRight' /\ AnswersRight'
  <2>1. UNCHANGED <<answers, serving, pc, reply>>
    BY <1>9 DEF Ticked, http, OP!Tick
  <2>2. WorkersRight'
    BY <1>4, <2>1 DEF WorkersRight
  <2> QED
    BY <1>1, <2>1, <2>2, ChainStays DEF Chain
<1> QED
  BY <1>3, <1>5, <1>6, <1>7, <1>8, <1>9 DEF OfficeStep, Chain
\* A gate decides: rightly, if what it goes by is right.
LEMMA DecideChain ==
  ASSUME Inv, Chain, NEW g \in Gates, call[g] # NoCall, UNCHANGED now,
         NEW valid \in BOOLEAN, NEW status, NEW expired, Decide(g, valid, status, expired),
         call' = [call EXCEPT ![g] = NoCall], answers' \subseteq answers,
         valid => call[g].at <= Expiry(call[g].body),
         ~valid => status = OP!ServerError \/ now > Expiry(call[g].body),
         expired => now > Expiry(call[g].body)
  PROVE  AnswersRight' /\ RefusedExpired' /\ ShownLate' /\ GatesRight'
<1>1. now' = now /\ now \in Nat /\ now' \in Nat /\ now <= now'
  BY NowIsNat
<1>2. AnswersRight'
  BY <1>1, ChainStays DEF Chain
<1>3. ShownLate'
  <2>1. \A h \in Gates : call'[h] \in {call[h], NoCall}
    BY DEF Inv, HttpInv, HttpTypes, Clients
  <2> QED
    BY <1>1, <2>1, ChainStays DEF Chain
<1>4. RefusedExpired'
  <2>1. refused' \in {refused, refused \cup {call[g].body}}
        /\ (call[g].body \in refused' => expired \/ call[g].body \in refused)
    BY DEF Decide
  <2> QED
    BY <1>1, <2>1 DEF Chain, RefusedExpired
<1>5. GatesRight'
  <2> DEFINE v == [ticket |-> call[g].body, valid |-> valid, status |-> status,
                   asked |-> call[g].at, hopeless |-> call[g].hopeless]
  <2>1. PICK u : /\ u.ticket = call[g].body /\ u.valid = valid /\ u.status = status
                 /\ u.asked = call[g].at /\ u.hopeless = call[g].hopeless
                 /\ verdict' = [verdict EXCEPT ![g] = u]
    <3>1. verdict' = [verdict EXCEPT ![g] = v]
      BY DEF Decide
    <3>2. /\ v.ticket = call[g].body /\ v.valid = valid /\ v.status = status
          /\ v.asked = call[g].at /\ v.hopeless = call[g].hopeless
      OBVIOUS
    <3> HIDE DEF v
    <3> QED
      BY <3>1, <3>2
  <2>2. call[g].hopeless => call[g].at > Expiry(call[g].body)
    BY DEF Chain, ShownLate
  <2>3. Judged(u)'
    BY <1>1, <2>1, <2>2 DEF Judged
  <2>4. verdict'[g] = u
    BY <2>1 DEF Inv, HistoryTypes
  <2>5. ASSUME NEW h \in Gates \ {g}, verdict[h] # NoVerdict PROVE Judged(verdict[h])'
    <3>1. verdict'[h] = verdict[h]
      BY <2>1 DEF Inv, HistoryTypes
    <3> QED
      BY <1>1, <2>5, <3>1, JudgedStays DEF Chain, GatesRight
  <2>6. ASSUME NEW h \in Gates PROVE (verdict[h] = NoVerdict \/ Judged(verdict[h]))'
    <3>1. CASE h = g
      <4>1. Judged(verdict[g])'
        BY <2>3, <2>4
      <4> QED
        BY <3>1, <4>1
    <3>2. CASE h # g /\ verdict[h] # NoVerdict
      BY <2>5, <3>2
    <3>3. CASE h # g /\ verdict[h] = NoVerdict
      <4>1. verdict'[h] = NoVerdict
        BY <2>1, <3>3 DEF Inv, HistoryTypes
      <4> QED
        BY <4>1 DEF NoVerdict
    <3> QED
      BY <3>1, <3>2, <3>3
  <2> QED
    BY <2>6 DEF GatesRight
<1> QED
  BY <1>2, <1>3, <1>4, <1>5
\* The gate's own test, on a ticket the office acknowledged.
LEMMA OfflineExact ==
  ASSUME Inv, OP!AllFit, NEW t \in acked,
         NEW expired \in ExpiredOutcomes(now, t.creation_date, t.validity_in_days)
  PROVE  expired = (now > Expiry(t))
<1>1. t \in OP!Tickets /\ now \in Int
  BY NowIsNat DEF Inv, OP!Inv, OP!TypeOK
<1>2. t.creation_date \in Int /\ t.validity_in_days \in OP!Ints
      /\ OP!Fits(t.validity_in_days)
  BY <1>1 DEF OP!Tickets, OP!AllFit
<1>3. OP!ExpiredOutcomes(now, t.creation_date, t.validity_in_days)
          = {OP!Expired(now, t.creation_date, t.validity_in_days)}
  BY <1>1, <1>2, OP!ExactIfItFits
<1>4. ExpiredOutcomes(now, t.creation_date, t.validity_in_days)
          = OP!ExpiredOutcomes(now, t.creation_date, t.validity_in_days)
  BY Zenon DEF ExpiredOutcomes, OP!ExpiredOutcomes, IntProducts, OP!IntProducts,
     ToInt, OP!ToInt
<1>5. expired = OP!Expired(now, t.creation_date, t.validity_in_days)
  BY <1>3, <1>4, Zenon
<1> QED
  BY <1>5, SameDates, Zenon DEF OP!Expired, Expiry

LEMMA GateChain ==
  ASSUME Inv, OP!AllFit, Chain, NEW g \in Gates, GateStep(g)
  PROVE  AnswersRight' /\ RefusedExpired' /\ ShownLate' /\ GatesRight'
<1>1. now' = now /\ now \in Nat /\ now' \in Nat /\ now <= now'
  BY ClientsOnly, NowIsNat DEF officeVars
<1>2. g \in Clients /\ g # Tvm
  BY DEF Clients
<1>3. call[g] # NoCall =>
        /\ call[g] \in MadeCalls /\ call[g].client = g
        /\ call[g].body \in acked /\ call[g].at <= now /\ call[g].at \in Nat
        /\ Expiry(call[g].body) \in Int
  BY <1>2, GateCall DEF Inv, HttpInv, AllMade
<1>4. ASSUME NEW t \in issued, ShowTicket(g, t)
      PROVE  AnswersRight' /\ RefusedExpired' /\ ShownLate' /\ GatesRight'
  <2>1. UNCHANGED <<answers, refused, verdict>>
    BY <1>4 DEF ShowTicket, history
  <2>2. AnswersRight' /\ RefusedExpired' /\ GatesRight'
    BY <1>1, <2>1, ChainStays DEF Chain
  <2>3. PICK c : /\ c.body = t /\ c.at = now /\ c.hopeless = (t \in refused)
                 /\ call' = [call EXCEPT ![g] = c]
    <3> DEFINE c == [client |-> g, number |-> made[g] + 1, body |-> t, at |-> now,
                     hopeless |-> t \in refused]
    <3>1. c.body = t /\ c.at = now /\ c.hopeless = (t \in refused)
      OBVIOUS
    <3>2. call' = [call EXCEPT ![g] = c]
      BY <1>4, Zenon DEF ShowTicket, Call
    <3> HIDE DEF c
    <3> QED
      BY <3>1, <3>2
  <2>4. ASSUME NEW h \in Gates, call'[h] # NoCall, call'[h].hopeless
        PROVE  call'[h].at > Expiry(call'[h].body)
    <3>1. CASE h = g
      <4>1. call'[h] = c
        BY <1>2, <2>3, <3>1 DEF Inv, HttpInv, HttpTypes
      <4> QED
        BY <2>3, <2>4, <4>1 DEF Chain, RefusedExpired
    <3>2. CASE h # g
      <4>1. call'[h] = call[h]
        BY <2>3, <3>2 DEF Inv, HttpInv, HttpTypes, Clients
      <4> QED
        BY <2>4, <4>1 DEF Chain, ShownLate
    <3> QED
      BY <3>1, <3>2
  <2> QED
    BY <2>2, <2>4 DEF ShownLate
<1>5. ASSUME NEW a \in answers, DecideOnline(g, a)
      PROVE  AnswersRight' /\ RefusedExpired' /\ ShownLate' /\ GatesRight'
  <2>1. /\ a.call = call[g] /\ answers' \subseteq answers
        /\ call' = [call EXCEPT ![g] = NoCall]
        /\ Decide(g, Success(a.status), a.status, a.status = Office!Gone)
    BY <1>5 DEF DecideOnline, Returns
  <2>2. call[g] # NoCall /\ a.call.client = g
    BY <1>3, <2>1, AnswerIsAwaited
  <2>3. Right(a.status, call[g]) /\ a.status \in ValidateReplies
    BY <1>2, <2>1, <2>2 DEF Chain, AnswersRight, Inv, Answering
  <2>4. Success(a.status) \in BOOLEAN
    BY DEF Success
  <2>5. Success(a.status) => a.status = OP!OK
    BY <2>3 DEF Success, ValidateReplies, OP!OK, OP!NotFound, OP!Gone, OP!ServerError
  <2>6. ~Success(a.status) => a.status = OP!ServerError \/ a.status = OP!Gone
    BY <2>3 DEF Right, Success, ValidateReplies, OP!OK, OP!NotFound, OP!Gone, OP!ServerError
  <2>7. a.status = Office!Gone => now > Expiry(call[g].body)
    BY <2>3 DEF Right, Office!Gone, OP!Gone
  <2>8. /\ Success(a.status) => call[g].at <= Expiry(call[g].body)
        /\ ~Success(a.status) => a.status = OP!ServerError \/ now > Expiry(call[g].body)
    BY <2>3, <2>5, <2>6 DEF Right
  <2> QED
    BY <1>1, <2>1, <2>2, <2>4, <2>7, <2>8, DecideChain
<1>6. CASE DecideOffline(g)
  <2>1. PICK expired \in ExpiredOutcomes(now, call[g].body.creation_date,
                                         call[g].body.validity_in_days) :
          /\ call[g] # NoCall /\ answers' \subseteq answers
          /\ call' = [call EXCEPT ![g] = NoCall]
          /\ Decide(g, ~expired, 0, expired)
    BY <1>6 DEF DecideOffline, ReturnsNothing
  <2>2. expired = (now > Expiry(call[g].body))
    BY <1>3, <2>1, OfflineExact
  <2>3. /\ ~expired => ~(now > Expiry(call[g].body))
        /\ expired => now > Expiry(call[g].body)
    BY <2>2, Zenon
  <2>4. ~(now > Expiry(call[g].body)) => call[g].at <= Expiry(call[g].body)
    BY <1>1, <1>3, <2>1
  <2>5. (~expired) \in BOOLEAN
    OBVIOUS
  <2>6. ~expired => call[g].at <= Expiry(call[g].body)
    BY <2>3, <2>4, Zenon
  <2>7. ~~expired => now > Expiry(call[g].body)
    BY <2>3, Zenon
  <2> QED
    BY <1>1, <2>1, <2>3, <2>5, <2>6, <2>7, DecideChain
<1> QED
  BY <1>4, <1>5, <1>6 DEF GateStep

LEMMA ChainStep ==
  ASSUME OP!DaysFit, "open" \notin Faults, Inv, OfficeInv, Chain, [Next]_vars
  PROVE  Chain'
<1>1. CASE OfficeStep
  BY <1>1, OfficeChain
<1>2. ASSUME UNCHANGED officeVars, UNCHANGED serving PROVE WorkersRight'
  <2> SUFFICES ASSUME NEW w \in Workers, serving[w] # NoCall, serving[w].client # Tvm,
                      pc[w] = "reply"
               PROVE  Right(reply[w], serving[w])'
    BY <1>2 DEF WorkersRight, officeVars
  <2>1. UNCHANGED <<reply, serving, now>> /\ Right(reply[w], serving[w])
    BY <1>2 DEF officeVars, Chain, WorkersRight
  <2> QED
    BY <2>1 DEF Right
<1>3. CASE TvmStep \/ UNCHANGED vars
  <2>1. UNCHANGED officeVars /\ UNCHANGED <<serving, refused, verdict>>
        /\ answers' \subseteq answers
    BY <1>3, ClientsOnly DEF TvmStep, DiscardRequest, PostRequest, PostAnswered, PostFailed,
       Returns, ReturnsNothing, vars, http, history
  <2>2. \A g \in Gates : call'[g] = call[g]
    <3>1. call' = call \/ \E c : call' = [call EXCEPT ![Tvm] = c]
      <4>1. ASSUME NEW r \in Requests, PostRequest(r)
            PROVE  \E c : call' = [call EXCEPT ![Tvm] = c]
        BY <4>1, Zenon DEF PostRequest, Call
      <4>2. \/ UNCHANGED vars \/ DiscardRequest
            \/ \E a \in answers : PostAnswered(a)
            \/ PostFailed
            => call' = call \/ call' = [call EXCEPT ![Tvm] = NoCall]
        BY DEF vars, http, DiscardRequest, PostAnswered, PostFailed, Returns, ReturnsNothing
      <4> QED
        BY <1>3, <4>1, <4>2 DEF TvmStep
    <3> QED
      BY <3>1 DEF Inv, HttpInv, HttpTypes, Clients
  <2>3. now' \in Nat /\ now <= now'
    BY <2>1, NowIsNat DEF officeVars
  <2>4. AnswersRight' /\ RefusedExpired' /\ ShownLate' /\ GatesRight'
    BY <2>1, <2>2, <2>3, ChainStays DEF Chain
  <2> QED
    BY <1>2, <2>1, <2>4 DEF Chain
<1>4. ASSUME NEW g \in Gates, GateStep(g) PROVE Chain'
  <2>1. UNCHANGED officeVars /\ UNCHANGED serving
    BY <1>4, ClientsOnly DEF GateStep, ShowTicket, DecideOnline, DecideOffline, Returns,
       ReturnsNothing
  <2> QED
    BY <1>2, <1>4, <2>1, GateChain DEF Chain, OfficeInv
<1> QED
  BY <1>1, <1>3, <1>4, StepCases

LEMMA ChainInvariance ==
  ASSUME OP!OneWorker, OP!DaysFit, "open" \notin Faults
  PROVE  Spec => [](Inv /\ OfficeInv /\ Chain)
<1>1. Init => Chain
  <2> SUFFICES ASSUME Init PROVE Chain
    OBVIOUS
  <2> QED
    BY DEF Init, Chain, WorkersRight, AnswersRight, RefusedExpired, ShownLate, GatesRight,
       Clients
<1> QED
  BY <1>1, ChainStep, OfficeInvariance, PTL DEF Spec

\* With the one worker the office deploys, where its saves can open their file and
\* no expiry test overflows, a gate accepts no ticket that had expired when it was
\* shown, and refuses none for its dates that has not, whether the office or the
\* gate decides, however late the answer comes.
THEOREM VerdictsFitDates ==
  ASSUME OP!OneWorker, OP!DaysFit, "open" \notin Faults
  PROVE  Spec => []VerdictFitsDates
<1>1. Inv /\ OfficeInv /\ Chain => VerdictFitsDates
  <2> SUFFICES ASSUME Inv, OfficeInv, Chain, NEW g \in Gates, verdict[g].ticket \in issued
               PROVE  IF verdict[g].valid
                      THEN verdict[g].asked <= Expiry(verdict[g].ticket)
                      ELSE \/ verdict[g].status = Office!ServerError
                           \/ now > Expiry(verdict[g].ticket)
    BY Zenon DEF VerdictFitsDates, Expiry
  <2>1. verdict[g] # NoVerdict
    <3>1. verdict[g].ticket.ticket_id >= 1
      BY DEF Inv, HistoryTypes, OfficeInv, Numbered
    <3> QED
      BY <3>1 DEF NoVerdict, Office!UnknownTicket
  <2>2. Judged(verdict[g])
    BY <2>1 DEF Chain, GatesRight
  <2> QED
    BY <2>2 DEF Judged, Office!ServerError, OP!ServerError
<1> QED
  BY <1>1, ChainInvariance, PTL

\* Two programs decide whether a ticket has expired, and they agree: once one has
\* refused it for that, no gate that is shown it later accepts it.
THEOREM RefusalsStand ==
  ASSUME OP!OneWorker, OP!DaysFit, "open" \notin Faults
  PROVE  Spec => []RefusalStands
<1>1. Inv /\ OfficeInv /\ Chain => RefusalStands
  <2> SUFFICES ASSUME Inv, Chain, NEW g \in Gates, verdict[g].hopeless, verdict[g].valid
               PROVE  FALSE
    BY DEF RefusalStands
  <2>1. Judged(verdict[g])
    BY DEF Chain, GatesRight, NoVerdict
  <2>2. verdict[g].asked \in Nat /\ Expiry(verdict[g].ticket) \in Int
    BY ExpiryIsInt DEF Inv, HistoryTypes
  <2> QED
    BY <2>1, <2>2 DEF Judged
<1> QED
  BY <1>1, ChainInvariance, PTL
===============================================================================
