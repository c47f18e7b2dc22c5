----------------------------- MODULE TicketSystem -----------------------------
(***************************************************************************)
(* The vending machine, the gates and the back office's ticket API         *)
(* (BackOffice, with the one worker it deploys) put together by HTTP.      *)
(*                                                                         *)
(* A client of the office makes one call at a time, on a connection of its *)
(* own, and waits at most three seconds.  A call it has given up may still *)
(* be served.  The vending machine takes requests from MQTT, which may     *)
(* deliver one twice, and posts each once.  A gate asks the office about   *)
(* the ticket it is shown, and decides by itself if it gets no answer.     *)
(***************************************************************************)
EXTENDS TicketExpiry, Sequences, FiniteSets, FiniteSetsExt, Functions

CONSTANTS Tvm,           \* the vending machine, a client
          Gates,         \* the gates, the other clients
          Malformed,     \* a request parse_ticket refuses
          NoCall,        \* what a client waits for that has no call
          MaxDeliveries, \* bound: requests delivered to the vending machine
          MaxShown,      \* bound: tickets shown, per gate
          \* The back office, see BackOffice.
          Workers, NoWorker, Validities, Dates, MaxClock, MaxCrashes,
          Faults, MaxFaults

ASSUME ClientsAssumption == Tvm \notin Gates /\ NoCall \notin Gates \cup {Tvm}
ASSUME ShownAssumption == MaxDeliveries \in Nat /\ MaxShown \in Nat
ASSUME OfficeAssumption ==
    /\ NoWorker \notin Workers
    /\ Validities \subseteq Int /\ Dates \subseteq Int
    /\ MaxClock \in Nat /\ MaxCrashes \in Nat /\ MaxFaults \in Nat
    /\ Faults \subseteq {"open", "write"}

VARIABLES
    \* The back office, see BackOffice.
    file, torn, m_mtx, pc, ticket, data, reply, now, creates, crashes, faults,
    acked, told, seen,
    \* HTTP
    call,      \* per client, the call it waits for, or NoCall
    made,      \* per client, the number of calls it has made
    wire,      \* the calls on their way to the office
    serving,   \* per worker, the call it serves, or NoCall
    answers,   \* the answers on their way to the clients
    \* History, and bounds.
    delivered, \* per request, how often it was delivered to the machine
    issued,    \* the tickets the vending machine was answered with
    failed,    \* number of POSTs that ended without an answer
    verdict,   \* per gate, its last validation
    refused    \* the tickets gates refused because they had expired

officeVars == <<file, torn, m_mtx, pc, ticket, data, reply, now, creates,
                crashes, faults, acked, told, seen>>
http == <<call, made, wire, serving, answers>>
history == <<delivered, issued, failed, verdict, refused>>
vars == <<officeVars, http, history>>

Office == INSTANCE BackOffice WITH MaxCreates <- MaxDeliveries

Clients == Gates \cup {Tvm}
Requests == [request_date : Dates, validity_in_days : Validities]
Bodies == Requests \cup Office!Tickets

Calls == [client : Clients, number : Nat \ {0}, body : Bodies, at : Nat,
          hopeless : BOOLEAN]

ASSUME NoCallAssumption == NoCall \notin Calls

NoVerdict == [ticket |-> Office!UnknownTicket, valid |-> FALSE, status |-> 0,
              asked |-> 0, hopeless |-> FALSE]

Init ==
    /\ Office!Init
    /\ call = [c \in Clients |-> NoCall]
    /\ made = [c \in Clients |-> 0]
    /\ wire = {} /\ answers = {}
    /\ serving = [w \in Workers |-> NoCall]
    /\ delivered = [r \in Requests |-> 0]
    /\ issued = {} /\ failed = 0
    /\ verdict = [g \in Gates |-> NoVerdict]
    /\ refused = {}

-------------------------------------------------------------------------------
(* The HTTP client *)

\* c calls the office.  What it noticed when it did is read by properties only.
Call(c, body) ==
    LET sent == [client |-> c, number |-> made[c] + 1, body |-> body, at |-> now,
                 hopeless |-> body \in refused]
    IN  /\ call[c] = NoCall
        /\ call' = [call EXCEPT ![c] = sent]
        /\ made' = [made EXCEPT ![c] = @ + 1]
        /\ wire' = wire \cup {sent}

\* c's call ends with answer a of the office.
Returns(c, a) ==
    /\ a.call = call[c]
    /\ answers' = answers \ {a}
    /\ call' = [call EXCEPT ![c] = NoCall]
    /\ UNCHANGED <<made, wire, serving>>

\* c's call ends without one: the connection is refused or breaks, or the three
\* seconds pass.  The office may have the request nevertheless, or get it yet.
ReturnsNothing(c) ==
    /\ call[c] # NoCall
    /\ call' = [call EXCEPT ![c] = NoCall]
    /\ wire' \in {wire, wire \ {call[c]}}
    /\ answers' = {a \in answers : a.call # call[c]}
    /\ UNCHANGED <<made, serving>>

Success(status) == status >= 200 /\ status < 300

-------------------------------------------------------------------------------
(* The vending machine *)

\* A request is delivered and is no ticket request: on_new_ticket returns.
DiscardRequest ==
    /\ call[Tvm] = NoCall
    /\ made[Tvm] < MaxDeliveries
    /\ made' = [made EXCEPT ![Tvm] = @ + 1]
    /\ UNCHANGED <<officeVars, call, wire, serving, answers, history>>

\* A request is delivered, for the first time or again, and posted.
PostRequest(r) ==
    /\ made[Tvm] < MaxDeliveries
    /\ Call(Tvm, r)
    /\ delivered' = [delivered EXCEPT ![r] = @ + 1]
    /\ UNCHANGED <<officeVars, serving, answers, issued, failed, verdict, refused>>

\* parse_ticket: JSON with the three integers, whatever their width.
Parses(payload) == payload # Malformed

OnNewTicket(payload) ==
    \/ ~Parses(payload) /\ DiscardRequest
    \/ Parses(payload) /\ PostRequest(payload)

\* Mutant of PostAnswered: 201 is not below 201.
PostAnsweredExclusive(a) ==
    /\ Returns(Tvm, a)
    /\ issued' = IF a.status >= 200 /\ a.status < 201 THEN issued \cup {a.ticket} ELSE issued
    /\ UNCHANGED <<officeVars, delivered, failed, verdict, refused>>

\* Mutant of PostAnswered: the status is not looked at.
PostAnsweredAnyhow(a) ==
    /\ Returns(Tvm, a)
    /\ issued' = issued \cup {a.ticket}
    /\ UNCHANGED <<officeVars, delivered, failed, verdict, refused>>

\* The post() returns a response: with a 2xx it is the ticket.
PostAnswered(a) ==
    /\ Returns(Tvm, a)
    /\ issued' = IF Success(a.status) THEN issued \cup {a.ticket} ELSE issued
    /\ UNCHANGED <<officeVars, delivered, failed, verdict, refused>>

\* Mutant of PostFailed: the request is posted again.
PostFailedRetrying ==
    /\ call[Tvm] # NoCall /\ call[Tvm] \notin wire
    /\ wire' = wire \cup {call[Tvm]}
    /\ failed' = failed + 1
    /\ UNCHANGED <<officeVars, call, made, serving, answers, delivered, issued,
                   verdict, refused>>

\* The post() returns nothing: the request is over.
PostFailed ==
    /\ ReturnsNothing(Tvm)
    /\ failed' = failed + 1
    /\ UNCHANGED <<officeVars, delivered, issued, verdict, refused>>

-------------------------------------------------------------------------------
(* A gate *)

\* A passenger shows a ticket, and the gate asks the office.
ShowTicket(g, t) ==
    /\ made[g] < MaxShown
    /\ Call(g, t)
    /\ UNCHANGED <<officeVars, serving, answers, history>>

\* The gate decides about the ticket it called about; status is 0 if it is alone.
Decide(g, valid, status, expired) ==
    LET t == call[g].body
    IN  /\ verdict' = [verdict EXCEPT ![g] =
                [ticket |-> t, valid |-> valid, status |-> status,
                 asked |-> call[g].at, hopeless |-> call[g].hopeless]]
        /\ refused' = IF expired THEN refused \cup {t} ELSE refused
        /\ UNCHANGED <<officeVars, delivered, issued, failed>>

\* The get() returns a response: any 2xx is VALID and all else INVALID.
DecideOnline(g, a) ==
    /\ Returns(g, a)
    /\ Decide(g, Success(a.status), a.status, a.status = Office!Gone)

\* Mutant of DecideOffline: a ticket is valid if the office does not say no.
DecideOfflineKindly(g) ==
    /\ ReturnsNothing(g)
    /\ Decide(g, TRUE, 0, FALSE)

\* Mutant of DecideOffline: one more day of grace.
DecideOfflineLater(g) ==
    /\ ReturnsNothing(g)
    /\ \E expired \in ExpiredOutcomes(now, call[g].body.creation_date,
                                      call[g].body.validity_in_days + 1) :
          Decide(g, ~expired, 0, expired)

\* The get() returns nothing: the gate's own is_ticket_expired decides.
DecideOffline(g) ==
    /\ ReturnsNothing(g)
    /\ \E expired \in ExpiredOutcomes(now, call[g].body.creation_date,
                                      call[g].body.validity_in_days) :
          Decide(g, ~expired, 0, expired)

-------------------------------------------------------------------------------
(* The back office *)

\* A worker takes a call off the network and routes it.
Serve(w) ==
    \E sent \in wire :
        /\ wire' = wire \ {sent}
        /\ serving' = [serving EXCEPT ![w] = sent]
        /\ \/ /\ sent.client = Tvm
              /\ Office!ReceiveCreateOf(w, sent.body.request_date,
                                        sent.body.validity_in_days)
           \/ /\ sent.client # Tvm
              /\ Office!ReceiveValidateOf(w, sent.body)
        /\ UNCHANGED <<call, made, answers, history>>

\* The handlers, up to the response.
Work(w) ==
    /\ \/ Office!GetLastTicketId(w)
       \/ Office!SaveTruncate(w) \/ Office!SaveThrows(w) \/ Office!SaveWrite(w)
       \/ Office!OpenFault(w) \/ Office!WriteFault(w)
       \/ Office!Validate(w)
    /\ UNCHANGED <<http, history>>

\* Mutant of Reply: the response reaches a client that is gone.
ReplyAnyway(w) ==
    /\ Office!Respond(w)
    /\ answers' = answers \cup {[call |-> serving[w], status |-> reply[w],
                                 ticket |-> ticket[w]]}
    /\ serving' = [serving EXCEPT ![w] = NoCall]
    /\ UNCHANGED <<call, made, wire, history>>

\* Crow sends the response, to a client that may be gone.
Reply(w) ==
    /\ Office!Respond(w)
    /\ answers' =
          IF serving[w] \in Range(call)
          THEN answers \cup {[call |-> serving[w], status |-> reply[w],
                              ticket |-> ticket[w]]}
          ELSE answers
    /\ serving' = [serving EXCEPT ![w] = NoCall]
    /\ UNCHANGED <<call, made, wire, history>>

\* The office is killed and restarts: every connection to it breaks.
OfficeCrash ==
    /\ Office!Crash
    /\ wire' = {}
    /\ serving' = [w \in Workers |-> NoCall]
    /\ UNCHANGED <<call, made, answers, history>>

Tick == Office!Tick /\ UNCHANGED <<http, history>>

-------------------------------------------------------------------------------

Statuses == {Office!Created, Office!OK, Office!BadRequest, Office!NotFound,
             Office!Gone, Office!ServerError}

VendingMachine ==
    \/ \E r \in Requests \cup {Malformed} : OnNewTicket(r)
    \/ \E a \in answers : PostAnswered(a)
    \/ PostFailed

\* Tickets that were never sold are left to BackOffice and Gate.
Gate(g) ==
    \/ \E t \in issued : ShowTicket(g, t)
    \/ \E a \in answers : DecideOnline(g, a)
    \/ DecideOffline(g)

Next ==
    \/ VendingMachine
    \/ \E g \in Gates : Gate(g)
    \/ \E w \in Workers : Serve(w) \/ Work(w) \/ Reply(w)
    \/ OfficeCrash
    \/ Tick

Spec == Init /\ [][Next]_vars

-------------------------------------------------------------------------------
(* Properties *)

TypeOK ==
    /\ Office!TypeOK
    /\ call \in [Clients -> Calls \cup {NoCall}]
    /\ made \in [Clients -> Nat] /\ failed \in Nat
    /\ wire \subseteq Calls
    /\ serving \in [Workers -> Calls \cup {NoCall}]
    /\ \A a \in answers :
          a.call \in Range(call) /\ a.status \in Statuses /\ a.ticket \in Office!Tickets
    /\ delivered \in [Requests -> Nat]
    /\ issued \subseteq Office!Tickets /\ refused \subseteq Office!Tickets
    /\ verdict \in [Gates -> [ticket : Office!Tickets, valid : BOOLEAN,
                              status : Statuses \cup {0}, asked : Nat,
                              hopeless : BOOLEAN]]

SoldFor(r) ==
    {i \in DOMAIN Office!Log :
        /\ Office!Log[i].creation_date = r.request_date
        /\ Office!Log[i].validity_in_days = ToInt(r.validity_in_days)}

\* However calls time out, are served late or cross a restart of the office, a
\* request is sold at most as often as the broker delivered it.
SoldPerDelivery == \A r \in Requests : Cardinality(SoldFor(r)) <= delivered[r]

\* A ticket on file that the machine never got cost it a failed POST, or is on
\* its way: none is lost on a path that saw an answer.
OrphansPaidFor ==
    Cardinality(Range(Office!Log) \ issued)
        <= failed + (IF call[Tvm] = NoCall THEN 0 ELSE 1)

\* What a gate decides about a ticket the machine issued follows the dates of
\* that ticket, online and offline, also if the answer is late or the office
\* restarted: it accepts none that had expired when it was shown, and refuses
\* none that has not.  The exception is the office's server error, which a gate
\* takes for a refusal.
VerdictFitsDates ==
    \A g \in Gates :
        LET v == verdict[g]
            expiry == ExpiryDate(v.ticket.creation_date, v.ticket.validity_in_days)
        IN  v.ticket \in issued =>
                IF v.valid THEN v.asked <= expiry
                ELSE v.status = Office!ServerError \/ now > expiry

\* Two programs decide whether a ticket has expired.  Once one has refused a
\* ticket for it, at any gate, no gate that asks later accepts it, whichever of
\* them decides then.
RefusalStands ==
    \A g \in Gates : verdict[g].hopeless => ~verdict[g].valid

\* BackOffice says of its clients that they send what can be parsed and show
\* tickets that were sold, or that never were.  These clients do.
ImplementsOffice == Office!SafeSpec
===============================================================================
