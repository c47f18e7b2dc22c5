------------------------------ MODULE BackOffice ------------------------------
(***************************************************************************)
(* The back office's ticket API (back-office/src): TicketsController,      *)
(* TicketsService and JsonTicketsRepository on the file tickets.json.      *)
(*                                                                         *)
(* A worker is a thread that runs HTTP handlers.  The application leaves   *)
(* Crow at its default of one; the repository's mutex provides for more.   *)
(* Every repository method loads the whole file under m_mtx; save() then   *)
(* rewrites it, by truncation and a write.  One action is one critical     *)
(* section, or one of the two halves of persist(), between which the       *)
(* process can be killed.                                                  *)
(*                                                                         *)
(* A ticket's line_number is stored and returned but never looked at: it   *)
(* is left out.                                                            *)
(***************************************************************************)
EXTENDS TicketExpiry, Sequences, FiniteSets, FiniteSetsExt, Functions

CONSTANTS Workers,    \* threads that run HTTP handlers
          NoWorker,   \* the owner of a free mutex
          Validities, \* values of "validity_in_days" in requests
          Dates,      \* values of "request_date" in requests
          MaxClock,   \* bound: last instant of the clock
          MaxCreates, \* bound: requests to create that pass the checks
          MaxCrashes, \* bound: times the process is killed
          Faults,     \* what persist() may suffer: subset of AllFaults
          MaxFaults   \* bound: number of faults

AllFaults == {"open", "write"}

ASSUME WorkersAssumption == NoWorker \notin Workers
ASSUME DatesAssumption == Validities \subseteq Int /\ Dates \subseteq Int
ASSUME BoundsAssumption ==
    /\ MaxClock \in Nat /\ MaxCreates \in Nat
    /\ MaxCrashes \in Nat /\ MaxFaults \in Nat
ASSUME FaultsAssumption == Faults \subseteq AllFaults

Tickets == [ticket_id : Nat, creation_date : Int, validity_in_days : Ints]

\* A ticket that was never sold; ids start from 1.
UnknownTicket == [ticket_id |-> 0, creation_date |-> 0, validity_in_days |-> 0]

VARIABLES
    file,    \* the tickets in tickets.json, <<>> also when there is no file
    torn,    \* tickets.json does not parse: truncated, or written in part
    m_mtx,   \* the owner of the repository's mutex, or NoWorker
    pc,      \* where each worker is
    ticket,  \* per worker, the ticket its request is about
    data,    \* per worker, the document in save()
    reply,   \* per worker, the HTTP status it will answer with, or 0
    now,     \* std::time
    \* Bounds.
    creates, crashes, faults,
    \* History, read by the properties only.
    acked,   \* the tickets answered with 201
    told,    \* the tickets answered with 410
    seen     \* per worker, what was so when its request arrived

office == <<file, torn, m_mtx, data>>
bounds == <<creates, crashes, faults>>
vars == <<office, pc, ticket, reply, now, bounds, acked, told, seen>>

Created == 201
OK == 200
BadRequest == 400
NotFound == 404
Gone == 410
ServerError == 500 \* a handler threw; Crow answers for it

NothingSeen == [at |-> 0, acked |-> {}, told |-> {}]

Init ==
    /\ file = <<>> /\ torn = FALSE
    /\ m_mtx = NoWorker
    /\ pc = [w \in Workers |-> "idle"]
    /\ ticket = [w \in Workers |-> UnknownTicket]
    /\ data = [w \in Workers |-> <<>>]
    /\ reply = [w \in Workers |-> 0]
    /\ now = 0
    /\ creates = 0 /\ crashes = 0 /\ faults = 0
    /\ acked = {} /\ told = {}
    /\ seen = [w \in Workers |-> NothingSeen]

-------------------------------------------------------------------------------
(* Helpers *)

\* The handler is done, and answers with the status.
Answer(w, status) ==
    /\ pc' = [pc EXCEPT ![w] = "reply"]
    /\ reply' = [reply EXCEPT ![w] = status]

GoTo(w, label) ==
    /\ pc' = [pc EXCEPT ![w] = label]
    /\ UNCHANGED reply

\* A worker takes a request about ticket t off the network.
Receive(w, t) ==
    /\ pc[w] = "idle"
    /\ ticket' = [ticket EXCEPT ![w] = t]
    /\ seen' = [seen EXCEPT ![w] = [at |-> now, acked |-> acked, told |-> told]]
    /\ UNCHANGED <<office, now, crashes, faults, acked, told>>

Ids(tickets) == {t.ticket_id : t \in Range(tickets)}

\* Mutant of Throw: the mutex stays locked.
ThrowLocked(w) ==
    /\ torn
    /\ m_mtx' = w
    /\ Answer(w, ServerError)

\* A repository method holds the mutex, and load() throws on a file that does not
\* parse: the lock guard releases the mutex, and Crow answers for the handler.
Throw(w) ==
    /\ torn
    /\ m_mtx' = NoWorker
    /\ Answer(w, ServerError)

-------------------------------------------------------------------------------
(* POST /api/v1/tickets *)

\* The body does not parse (400), or lacks a number (operator[] gives a null,
\* whose conversion throws).
ReceiveMalformed(w) ==
    /\ Receive(w, UnknownTicket)
    /\ Answer(w, BadRequest) \/ Answer(w, ServerError)
    /\ UNCHANGED creates

\* The checks create_ticket_base64 makes before it looks at the file.
Sellable(date, validity) == ~Expired(now, date, validity) /\ date <= now

ReceiveCreateOf(w, date, number) ==
    LET t == [ticket_id |-> 0, creation_date |-> date,
              validity_in_days |-> ToInt(number)]
    IN  /\ Receive(w, t)
        /\ \/ /\ ~Sellable(date, t.validity_in_days)
              /\ Answer(w, BadRequest)
              /\ UNCHANGED creates
           \/ /\ Sellable(date, t.validity_in_days)
              /\ creates < MaxCreates
              /\ creates' = creates + 1
              /\ GoTo(w, "lastId")

ReceiveCreate(w) ==
    \E date \in Dates, number \in Validities : ReceiveCreateOf(w, date, number)

\* Mutant of GetLastTicketId: the increment is forgotten.
GetLastTicketIdOnly(w) ==
    /\ pc[w] = "lastId"
    /\ m_mtx = NoWorker
    /\ \/ Throw(w) /\ UNCHANGED ticket
       \/ /\ ~torn
          /\ ticket' = [ticket EXCEPT ![w].ticket_id = Max({0} \cup Ids(file))]
          /\ GoTo(w, "save")
          /\ UNCHANGED m_mtx
    /\ UNCHANGED <<file, torn, data, now, bounds, acked, told, seen>>

\* get_last_ticket_id, under the mutex, and the increment.
GetLastTicketId(w) ==
    /\ pc[w] = "lastId"
    /\ m_mtx = NoWorker
    /\ \/ Throw(w) /\ UNCHANGED ticket
       \/ /\ ~torn
          /\ ticket' = [ticket EXCEPT ![w].ticket_id = Max({0} \cup Ids(file)) + 1]
          /\ GoTo(w, "save")
          /\ UNCHANGED m_mtx
    /\ UNCHANGED <<file, torn, data, now, bounds, acked, told, seen>>

\* Mutant of SaveTruncate: the tickets on file are not loaded first.
SaveAlone(w) ==
    /\ pc[w] = "save"
    /\ m_mtx = NoWorker
    /\ ~torn
    /\ m_mtx' = w
    /\ data' = [data EXCEPT ![w] = <<ticket[w]>>]
    /\ file' = <<>> /\ torn' = TRUE
    /\ GoTo(w, "write")
    /\ UNCHANGED <<ticket, now, bounds, acked, told, seen>>

\* Mutant of SaveTruncate: the new ticket goes first.
SaveInFront(w) ==
    /\ pc[w] = "save"
    /\ m_mtx = NoWorker
    /\ ~torn
    /\ m_mtx' = w
    /\ data' = [data EXCEPT ![w] = <<ticket[w]>> \o file]
    /\ file' = <<>> /\ torn' = TRUE
    /\ GoTo(w, "write")
    /\ UNCHANGED <<ticket, now, bounds, acked, told, seen>>

\* Mutant of SaveTruncate: it does not wait for the mutex.  Another worker's
\* truncation makes the file look empty, as when it is opened between the two.
SaveUnlocked(w) ==
    /\ pc[w] = "save"
    /\ ~torn \/ m_mtx # NoWorker
    /\ m_mtx' = w
    /\ data' = [data EXCEPT ![w] = Append(file, ticket[w])]
    /\ file' = <<>> /\ torn' = TRUE
    /\ GoTo(w, "write")
    /\ UNCHANGED <<ticket, now, bounds, acked, told, seen>>

\* save() takes the mutex, loads, appends, and persist() opens the file, which
\* truncates it.
SaveTruncate(w) ==
    /\ pc[w] = "save"
    /\ m_mtx = NoWorker
    /\ ~torn
    /\ m_mtx' = w
    /\ data' = [data EXCEPT ![w] = Append(file, ticket[w])]
    /\ file' = <<>> /\ torn' = TRUE
    /\ GoTo(w, "write")
    /\ UNCHANGED <<ticket, now, bounds, acked, told, seen>>

\* save() takes the mutex, and load() throws.
SaveThrows(w) ==
    /\ pc[w] = "save"
    /\ m_mtx = NoWorker
    /\ Throw(w)
    /\ UNCHANGED <<file, torn, data, ticket, now, bounds, acked, told, seen>>

\* The rest of persist(): the document is written, and the mutex released.
SaveWrite(w) ==
    /\ pc[w] = "write"
    /\ file' = data[w] /\ torn' = FALSE
    /\ data' = [data EXCEPT ![w] = <<>>]
    /\ m_mtx' = NoWorker
    /\ Answer(w, Created)
    /\ UNCHANGED <<ticket, now, bounds, acked, told, seen>>

\* Mutant of OpenFault: the file is truncated before the failure.
OpenFaultTruncating(w) ==
    /\ "open" \in Faults /\ faults < MaxFaults
    /\ pc[w] = "save"
    /\ m_mtx = NoWorker
    /\ ~torn
    /\ faults' = faults + 1
    /\ file' = <<>>
    /\ Answer(w, Created)
    /\ UNCHANGED <<torn, m_mtx, data, ticket, now, creates, crashes, acked, told, seen>>

\* The file cannot be opened for writing: persist() looks at no stream state,
\* so nothing changes on file and the client is told the ticket was created.
OpenFault(w) ==
    /\ "open" \in Faults /\ faults < MaxFaults
    /\ pc[w] = "save"
    /\ m_mtx = NoWorker
    /\ ~torn
    /\ faults' = faults + 1
    /\ Answer(w, Created)
    /\ UNCHANGED <<office, ticket, now, creates, crashes, acked, told, seen>>

\* The write fails half-way (a full disk): the same silence, a file that no
\* longer parses.
WriteFault(w) ==
    /\ "write" \in Faults /\ faults < MaxFaults
    /\ pc[w] = "write"
    /\ faults' = faults + 1
    /\ data' = [data EXCEPT ![w] = <<>>]
    /\ m_mtx' = NoWorker
    /\ Answer(w, Created)
    /\ UNCHANGED <<file, torn, ticket, now, creates, crashes, acked, told, seen>>

-------------------------------------------------------------------------------
(* GET /api/v1/tickets/validations *)

ReceiveValidateOf(w, t) ==
    /\ Receive(w, t)
    /\ GoTo(w, "find")
    /\ UNCHANGED creates

\* A gate presents a ticket it was shown: one the office acknowledged, or one
\* it never sold.
ReceiveValidate(w) ==
    \E t \in acked \cup {UnknownTicket} : ReceiveValidateOf(w, t)

\* Mutant of Stored: the last record with the id.
StoredLast(id) ==
    file[CHOOSE i \in DOMAIN file :
            /\ file[i].ticket_id = id
            /\ \A j \in (i + 1)..Len(file) : file[j].ticket_id # id]

\* The record find_by_id returns: the first with the id.
Stored(id) ==
    file[CHOOSE i \in DOMAIN file :
            /\ file[i].ticket_id = id
            /\ \A j \in 1..(i - 1) : file[j].ticket_id # id]

\* find_by_id under the mutex, then is_expired on the record found: the rest of
\* the payload is not looked at.
Validate(w) ==
    /\ pc[w] = "find"
    /\ m_mtx = NoWorker
    /\ LET id == ticket[w].ticket_id
       IN  \/ Throw(w)
           \/ ~torn /\ id \notin Ids(file) /\ Answer(w, NotFound) /\ UNCHANGED m_mtx
           \/ /\ ~torn /\ id \in Ids(file) /\ UNCHANGED m_mtx
              /\ \E expired \in ExpiredOutcomes(now, Stored(id).creation_date,
                                                Stored(id).validity_in_days) :
                    Answer(w, IF expired THEN Gone ELSE OK)
    /\ UNCHANGED <<file, torn, data, ticket, now, bounds, acked, told, seen>>

-------------------------------------------------------------------------------

\* Crow sends the response, and the worker is free.
Respond(w) ==
    /\ pc[w] = "reply"
    /\ acked' = IF reply[w] = Created THEN acked \cup {ticket[w]} ELSE acked
    /\ told' = IF reply[w] = Gone THEN told \cup {ticket[w]} ELSE told
    /\ pc' = [pc EXCEPT ![w] = "idle"]
    /\ reply' = [reply EXCEPT ![w] = 0]
    /\ ticket' = [ticket EXCEPT ![w] = UnknownTicket]
    /\ seen' = [seen EXCEPT ![w] = NothingSeen]
    /\ UNCHANGED <<office, now, bounds>>

\* kill -9 and a restart.  Only the file survives, as it is.
Crash ==
    /\ crashes < MaxCrashes
    /\ crashes' = crashes + 1
    /\ m_mtx' = NoWorker
    /\ pc' = [w \in Workers |-> "idle"]
    /\ ticket' = [w \in Workers |-> UnknownTicket]
    /\ data' = [w \in Workers |-> <<>>]
    /\ reply' = [w \in Workers |-> 0]
    /\ seen' = [w \in Workers |-> NothingSeen]
    /\ UNCHANGED <<file, torn, now, creates, faults, acked, told>>

Tick ==
    /\ now < MaxClock
    /\ now' = now + 1
    /\ UNCHANGED <<office, pc, ticket, reply, bounds, acked, told, seen>>

Handle(w) ==
    \/ GetLastTicketId(w)
    \/ SaveTruncate(w) \/ SaveThrows(w) \/ SaveWrite(w)
    \/ OpenFault(w) \/ WriteFault(w)
    \/ Validate(w)
    \/ Respond(w)

ReceiveRequest(w) ==
    ReceiveMalformed(w) \/ ReceiveCreate(w) \/ ReceiveValidate(w)

Next ==
    \/ \E w \in Workers : ReceiveRequest(w) \/ Handle(w)
    \/ Crash
    \/ Tick

SafeSpec == Init /\ [][Next]_vars

\* A worker that has a request keeps running.  Clients need not send any.
Spec == SafeSpec /\ \A w \in Workers : WF_vars(Handle(w))

-------------------------------------------------------------------------------
(* Properties *)

Labels == {"idle", "lastId", "save", "write", "find", "reply"}

TypeOK ==
    /\ file \in Seq(Tickets) /\ torn \in BOOLEAN
    /\ m_mtx \in Workers \cup {NoWorker}
    /\ pc \in [Workers -> Labels]
    /\ ticket \in [Workers -> Tickets]
    /\ data \in [Workers -> Seq(Tickets)]
    /\ reply \in [Workers -> {0, Created, OK, BadRequest, NotFound, Gone, ServerError}]
    /\ now \in Nat /\ creates \in Nat /\ crashes \in Nat /\ faults \in Nat
    /\ acked \subseteq Tickets /\ told \subseteq Tickets
    /\ seen \in [Workers -> [at : Nat, acked : SUBSET Tickets, told : SUBSET Tickets]]

\* The document tickets.json holds, or is about to hold while save() rewrites it.
Log == IF m_mtx = NoWorker THEN file ELSE data[m_mtx]

Readable == torn => m_mtx # NoWorker

\* No two tickets on file have the same id, although the id is read in one
\* critical section and used in another.  Needs a single worker.
UniqueIds ==
    \A i, j \in DOMAIN Log : Log[i].ticket_id = Log[j].ticket_id => i = j

\* With any number of workers: a sale never takes the id of a ticket that was
\* acknowledged before the request to create it arrived.
FreshIds ==
    \A w \in Workers :
        pc[w] = "reply" /\ reply[w] = Created =>
            \A t \in seen[w].acked : t.ticket_id # ticket[w].ticket_id

\* A ticket the seller was given is never lost from a file that can be read,
\* whatever saves overlap with its own.
AckedKept == Readable => acked \subseteq Range(Log)

\* A ticket on file is not refused as expired before its dates say so.
NoEarlyExpiry ==
    \A w \in Workers :
        pc[w] = "reply" /\ ticket[w] \in Range(Log) /\ reply[w] = Gone =>
            now > ExpiryDate(ticket[w].creation_date, ticket[w].validity_in_days)

\* The verdict on a ticket on file is the one its own dates call for, the dates
\* it was sold with, not those of whatever record the id finds: 410 only after
\* its expiry, 200 only for a request that came no later than that.
VerdictIsRight ==
    /\ NoEarlyExpiry
    /\ \A w \in Workers :
          pc[w] = "reply" /\ ticket[w] \in Range(Log) /\ reply[w] = OK =>
              seen[w].at <= ExpiryDate(ticket[w].creation_date,
                                       ticket[w].validity_in_days)

\* Once a gate was told a ticket has expired, no gate that asks later is told
\* it is valid.
ExpiredIsForever ==
    \A w \in Workers :
        pc[w] = "reply" /\ reply[w] = OK => ticket[w] \notin seen[w].told

\* A save that fails silently loses its own ticket only: as long as the file
\* can be read, no more acknowledged tickets are missing than saves failed.
LostOnlyToFaults ==
    Readable => Cardinality(acked \ Range(Log)) <= faults

\* Every request is answered, so that every worker is free again and again: the
\* handlers never wait for each other for ever, whatever threw in one of them while
\* it held the mutex of the others.
Answered == \A w \in Workers : []<>(pc[w] = "idle")

\* The file is a log: sales are appended whole, overlapping saves included.
Sales == INSTANCE TicketLog WITH log <- Log, readable <- Readable
ImplementsLog == Sales!Spec

\* README.md:58: "apps will create it's Persistent files".  An acknowledged
\* ticket outlives the process that sold it.
AckedSurvives == acked \subseteq Range(Log)

\* JsonTicketsRepository.cpp:20: "handle malformed JSON".  A file that does not
\* parse counts as an empty one, so a gate's request about an unknown ticket is
\* answered NOT_FOUND, not by an error of the server.
MalformedHandled ==
    [][\A w \in Workers : Validate(w) => reply'[w] # ServerError]_vars
===============================================================================
