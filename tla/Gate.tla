--------------------------------- MODULE Gate ---------------------------------
(***************************************************************************)
(* A gate (gate/src): the receiver thread, which takes tickets from MQTT,  *)
(* validates them with the back office or on its own, and records them     *)
(* (TicketProcessor); the reporter thread, which drains the retry queue    *)
(* (RetryQueue); the report file /data/<gate id>.xml; the report the back  *)
(* office keeps of this gate, with the SubmitReport calls the gate has     *)
(* given up and the office may execute still; and kill -9 with a restart.  *)
(*                                                                         *)
(* m_stats counts validations and is pushed once per validation, so the    *)
(* k-th item of the queue is the value of m_stats after k validations.     *)
(***************************************************************************)
EXTENDS TicketExpiry, Sequences, FiniteSets

CONSTANTS Payloads,   \* payloads gates are shown: tickets, and Malformed
          Malformed,  \* a payload parse_base64_ticket refuses
          QueueSize,  \* MAX_SIZE_OF_VALIDATION_Q
          MaxClock,   \* bound: last instant of the clock
          MaxEvents,  \* bound: messages the broker delivers
          MaxCrashes, \* bound: times the gate is killed
          MaxAdrift   \* bound: calls given up and not executed yet, at a time

\* What parse_base64_ticket lets through has the numbers the gate looks at.
ASSUME PayloadsAssumption ==
    /\ Malformed \in Payloads
    /\ \A p \in Payloads \ {Malformed} :
          p \in [creation_date : Int, validity_in_days : Int]
ASSUME BoundsAssumption ==
    /\ QueueSize \in Nat \ {0} /\ MaxClock \in Nat
    /\ MaxEvents \in Nat /\ MaxCrashes \in Nat /\ MaxAdrift \in Nat

Receiver == "receiver" \* the one thread that pushes

Validations == [payload : Payloads,
                strategy : {"ONLINE", "OFFLINE"},
                result : {"VALID", "INVALID"}]

VARIABLES
    inbox,   \* messages in the MQTT client, already acknowledged to the broker
    pc,      \* where the receiver thread is in on_new_ticket
    current, \* the payload it is handling
    stats,   \* m_stats
    last,    \* m_last_validations
    xml,     \* the report file: its summary, its validations, who wrote it
    torn,    \* the report file is truncated, or written in part
    report,  \* m_reports[gate] at the back office: life and number of the item
    late,    \* whether it came by a call that had been given up
    adrift,  \* the calls given up that may be executed still, each in a place
    now,     \* std::time
    \* The retry queue, see RetryQueue.
    queue, pusherPc, runnerPc, item, pushed, handled, evicted,
    \* Bounds and history.
    events,  \* messages delivered
    life     \* number of the gate's process

processor == <<pc, current, stats, last>>
file == <<xml, torn>>
server == <<report, late, adrift>>
runner == <<queue, pusherPc, runnerPc, item, pushed, handled, evicted>>
vars == <<inbox, processor, file, server, now, runner, events, life>>

\* The queue's receiver is the back office, as far as this process fed it.
Q == INSTANCE RetryQueue
        WITH Pushers <- {Receiver}, MaxSize <- QueueSize, MaxPush <- MaxEvents,
             latest <- IF report.life = life THEN report.n ELSE 0

NoReport == [life |-> 0, n |-> 0]

Places == 1..MaxAdrift

NoStats == [total |-> 0, valid |-> 0, invalid |-> 0, online |-> 0, offline |-> 0]

Init ==
    /\ inbox = <<>>
    /\ pc = "idle" /\ current = Malformed
    /\ stats = NoStats /\ last = <<>>
    /\ xml = [life |-> 0, summary |-> NoStats, validations |-> <<>>] /\ torn = FALSE
    /\ report = NoReport /\ late = FALSE
    /\ adrift = [i \in Places |-> NoReport]
    /\ now = 0
    /\ events = 0 /\ life = 1
    /\ Q!Init

-------------------------------------------------------------------------------
(* The receiver thread *)

\* The MQTT client has acknowledged a message and queued it for the application.
Deliver ==
    /\ events < MaxEvents
    /\ events' = events + 1
    /\ \E p \in Payloads : inbox' = Append(inbox, p)
    /\ UNCHANGED <<processor, file, server, now, runner, life>>

\* Mutant of Counted: a validation by the back office counts as valid.
CountedByStrategy(v) ==
    [stats EXCEPT !.total = @ + 1,
                  !.online = IF v.strategy = "ONLINE" THEN @ + 1 ELSE @,
                  !.offline = IF v.strategy = "OFFLINE" THEN @ + 1 ELSE @,
                  !.valid = IF v.strategy = "ONLINE" THEN @ + 1 ELSE @,
                  !.invalid = IF v.strategy = "OFFLINE" THEN @ + 1 ELSE @]

Counted(v) ==
    [stats EXCEPT !.total = @ + 1,
                  !.online = IF v.strategy = "ONLINE" THEN @ + 1 ELSE @,
                  !.offline = IF v.strategy = "OFFLINE" THEN @ + 1 ELSE @,
                  !.valid = IF v.result = "VALID" THEN @ + 1 ELSE @,
                  !.invalid = IF v.result = "INVALID" THEN @ + 1 ELSE @]

\* Mutant of Record: the validation is not kept.
RecordCountOnly(strategy, result) ==
    LET v == [payload |-> current, strategy |-> strategy, result |-> result]
    IN  /\ stats' = Counted(v)
        /\ torn' = TRUE
        /\ pc' = "xml"
        /\ UNCHANGED <<last, current, xml>>

\* Mutant of Record: the counters are pushed before the file is written.
RecordPushingFirst(strategy, result) ==
    LET v == [payload |-> current, strategy |-> strategy, result |-> result]
    IN  /\ stats' = Counted(v)
        /\ last' = Append(last, v)
        /\ pc' = "push"
        /\ UNCHANGED <<current, file>>

\* record_transaction up to the truncation of the report file.
Record(strategy, result) ==
    LET v == [payload |-> current, strategy |-> strategy, result |-> result]
    IN  /\ stats' = Counted(v)
        /\ last' = Append(last, v)
        /\ torn' = TRUE
        /\ pc' = "xml"
        /\ UNCHANGED <<current, xml>>

\* on_new_ticket is called with the next message.
Consume ==
    /\ pc = "idle" /\ pusherPc[Receiver] = "idle"
    /\ inbox # <<>>
    /\ current' = Head(inbox) /\ inbox' = Tail(inbox)
    /\ pc' = "validating"
    /\ UNCHANGED <<stats, last, file, server, now, runner, events, life>>

\* parse_base64_ticket: base64 of a JSON object with four integers, or false.
Parses(payload) == payload # Malformed

\* parse_ticket makes an int of the days.
Parsed(payload) == [payload EXCEPT !.validity_in_days = ToInt(@)]

\* The payload is no ticket: it is recorded without asking anybody.
RefuseMalformed ==
    /\ pc = "validating" /\ ~Parses(current)
    /\ Record("OFFLINE", "INVALID")
    /\ UNCHANGED <<inbox, server, now, runner, events, life>>

\* The back office answered the GET in time, with a 2xx or with another status.
ValidateOnline ==
    /\ pc = "validating" /\ Parses(current)
    /\ \E result \in {"VALID", "INVALID"} : Record("ONLINE", result)
    /\ UNCHANGED <<inbox, server, now, runner, events, life>>

\* The GET failed, or its three seconds passed: is_ticket_expired decides.
ValidateOffline ==
    /\ pc = "validating" /\ Parses(current)
    /\ LET t == Parsed(current)
       IN  \E expired \in ExpiredOutcomes(now, t.creation_date, t.validity_in_days) :
              Record("OFFLINE", IF expired THEN "INVALID" ELSE "VALID")
    /\ UNCHANGED <<inbox, server, now, runner, events, life>>

\* Mutant of WriteXml: the event ends here, and nothing is pushed.
WriteXmlAndReturn ==
    /\ pc = "xml"
    /\ xml' = [life |-> life, summary |-> stats, validations |-> last]
    /\ torn' = FALSE
    /\ pc' = "idle" /\ current' = Malformed
    /\ UNCHANGED <<inbox, stats, last, server, now, runner, events, life>>

\* persist_xml_report writes the document built from stats and last.
WriteXml ==
    /\ pc = "xml"
    /\ xml' = [life |-> life, summary |-> stats, validations |-> last]
    /\ torn' = FALSE
    /\ pc' = "push"
    /\ UNCHANGED <<inbox, current, stats, last, server, now, runner, events, life>>

\* Mutant of PushStats: push() waits while the handler runs, as it would if
\* run() kept the mutex.
PushStatsWhenNotHandling ==
    /\ pc = "push" /\ runnerPc # "handling"
    /\ UNCHANGED <<inbox, stats, last, file, server, now, events, life>>
    /\ Q!PushLocked(Receiver)
    /\ pc' = "idle" /\ current' = Malformed

\* m_validation_stats_retryQ.push(m_stats): its locked block, and the end of
\* on_new_ticket but for the notification.
PushStats ==
    /\ pc = "push"
    /\ UNCHANGED <<inbox, stats, last, file, server, now, events, life>>
    /\ Q!PushLocked(Receiver)
    /\ pc' = "idle" /\ current' = Malformed

\* Mutant of NotifyRunner: the notification is forgotten.
NotifyNobody ==
    /\ pusherPc[Receiver] = "notify"
    /\ pusherPc' = [pusherPc EXCEPT ![Receiver] = "idle"]
    /\ UNCHANGED <<inbox, processor, file, server, now, events, life>>
    /\ UNCHANGED <<queue, runnerPc, item, pushed, handled, evicted>>

NotifyRunner ==
    /\ UNCHANGED <<inbox, processor, file, server, now, events, life>>
    /\ Q!NotifyOne(Receiver)

Receive ==
    \/ Consume \/ RefuseMalformed \/ ValidateOnline \/ ValidateOffline
    \/ WriteXml \/ PushStats \/ NotifyRunner

-------------------------------------------------------------------------------
(* The reporter thread *)

\* What the call that run() is in asks the back office to store.
Request == [life |-> life, n |-> item]

\* SubmitReport reached the back office, which stores the report.
Submitted ==
    /\ report' = Request /\ late' = FALSE
    /\ UNCHANGED <<adrift, inbox, processor, file, now, events, life>>
    /\ Q!HandlerSucceeds

\* The call ends for the gate, which has no answer: it is lost, or it was executed,
\* or it will be executed later, since nothing calls it back.
GivenUp ==
    \/ UNCHANGED server
    \/ report' = Request /\ late' = FALSE /\ UNCHANGED adrift
    \/ \E i \in Places :
          /\ adrift[i] = NoReport
          /\ adrift' = [adrift EXCEPT ![i] = Request]
          /\ UNCHANGED <<report, late>>

\* Mutant of SubmitFails: the counters of the failed call go to the end of the
\* queue.
SubmitFailsRotating ==
    /\ GivenUp
    /\ runnerPc = "handling"
    /\ queue' = Append(Tail(queue), item)
    /\ runnerPc' = "sleep"
    /\ UNCHANGED <<pusherPc, item, pushed, handled, evicted>>
    /\ UNCHANGED <<inbox, processor, file, now, events, life>>

\* SubmitReport returned an error, whatever becomes of the call.
SubmitFails ==
    /\ GivenUp
    /\ UNCHANGED <<inbox, processor, file, now, events, life>>
    /\ Q!HandlerFails

\* The other steps of run().
RunQueue ==
    /\ UNCHANGED <<inbox, processor, file, server, now, events, life>>
    /\ Q!TakeFront \/ Q!Block \/ Q!Pop \/ Q!WakeUp

\* Not owed by the scheduler, unlike the others.
WakeSpuriously ==
    /\ UNCHANGED <<inbox, processor, file, server, now, events, life>>
    /\ Q!SpuriousWakeup

-------------------------------------------------------------------------------

\* SubmitReport at the back office, for a caller that is gone: the report takes the
\* place of the one it has.
ExecuteLate ==
    /\ \E i \in Places :
          /\ adrift[i] # NoReport
          /\ report' = adrift[i] /\ late' = TRUE
          /\ adrift' = [adrift EXCEPT ![i] = NoReport]
    /\ UNCHANGED <<inbox, processor, file, now, runner, events, life>>

\* kill -9 and a restart, with empty counters and an empty queue.  The file and
\* the back office keep what they have, and a call under way is given up.
Crash ==
    /\ life <= MaxCrashes
    /\ life' = life + 1
    /\ inbox' = <<>>
    /\ pc' = "idle" /\ current' = Malformed
    /\ stats' = NoStats /\ last' = <<>>
    /\ queue' = <<>>
    /\ pusherPc' = [p \in {Receiver} |-> "idle"]
    /\ runnerPc' = "check" /\ item' = 0
    /\ pushed' = 0 /\ handled' = {} /\ evicted' = {}
    /\ IF runnerPc = "handling" THEN GivenUp ELSE UNCHANGED server
    /\ UNCHANGED <<file, now, events>>

Tick ==
    /\ now < MaxClock
    /\ now' = now + 1
    /\ UNCHANGED <<inbox, processor, file, server, runner, events, life>>

Next ==
    \/ Deliver \/ Receive
    \/ Submitted \/ SubmitFails \/ RunQueue \/ WakeSpuriously
    \/ ExecuteLate \/ Crash \/ Tick

SafeSpec == Init /\ [][Next]_vars

\* The receiver thread runs; the back office may never answer anything, and the
\* reporter thread may be stuck in a call that has no deadline.
ReceiverSpec == SafeSpec /\ WF_vars(Receive)

\* The reporter thread runs, and whenever it keeps retrying the back office is
\* reachable at last.
Reachable ==
    /\ WF_vars(Submitted \/ SubmitFails \/ RunQueue)
    /\ SF_vars(Submitted)

-------------------------------------------------------------------------------
(* Properties *)

Reports == [life : 0..life, n : 0..MaxEvents]

TypeOK ==
    /\ Q!TypeOK
    /\ inbox \in Seq(Payloads) /\ current \in Payloads
    /\ pc \in {"idle", "validating", "xml", "push"}
    /\ stats \in [DOMAIN NoStats -> Nat]
    /\ last \in Seq(Validations)
    /\ xml \in [life : 0..life, summary : [DOMAIN NoStats -> Nat],
               validations : Seq(Validations)]
    /\ torn \in BOOLEAN
    /\ report \in Reports /\ late \in BOOLEAN /\ adrift \in [Places -> Reports]
    /\ now \in Nat /\ events \in 0..MaxEvents /\ life \in 1..(MaxCrashes + 1)

Tally(vs, test(_)) == Cardinality({i \in DOMAIN vs : test(vs[i])})

\* The report file, whenever it can be read, has a summary that counts the very
\* validations it lists.
XmlAddsUp ==
    ~torn =>
        xml.summary =
            [total   |-> Len(xml.validations),
             valid   |-> Tally(xml.validations, LAMBDA v : v.result = "VALID"),
             invalid |-> Tally(xml.validations, LAMBDA v : v.result = "INVALID"),
             online  |-> Tally(xml.validations, LAMBDA v : v.strategy = "ONLINE"),
             offline |-> Tally(xml.validations, LAMBDA v : v.strategy = "OFFLINE")]

\* The k-th item pushed is m_stats after k validations: no validation is left
\* unreported and none is reported twice.
PushedOncePerValidation ==
    pushed = IF pc \in {"xml", "push"} THEN stats.total - 1 ELSE stats.total

\* A ticket the gate refused on its own had expired, by the days it was parsed to
\* but in exact arithmetic.
OfflineRefusalIsRight ==
    \A i \in DOMAIN last :
        LET v == last[i]
        IN  Parses(v.payload) /\ v.strategy = "OFFLINE" /\ v.result = "INVALID" =>
                Expired(now, v.payload.creation_date, Parsed(v.payload).validity_in_days)

\* What the back office was told is on the gate's disk already: the report file,
\* whenever it can be read, was written by the process that reported or by a later
\* one, and by the same one lists all it reported.
XmlCoversReport ==
    ~torn =>
        \/ xml.life > report.life
        \/ xml.life = report.life /\ Len(xml.validations) >= report.n

\* The back office replaces a report by an older one only when it executes a call
\* that the gate had given up, or died in: never for what the queue evicts, retries
\* or sends again after its answer was lost, and never for a restart of the gate.
ReportBackOnlyIfLate ==
    [][report' # report =>
          \/ late'
          \/ report'.life > report.life
          \/ report'.life = report.life /\ report'.n > report.n]_vars

\* If the back office is reachable at last, it is up to date again and again: its
\* report is of this process and contains every validation of it, unless a call
\* that had been given up was executed since.
CountsReported ==
    Reachable =>
        []<>(stats.total = 0 \/ late \/ report = [life |-> life, n |-> stats.total])

\* Tickets are validated and recorded even if the back office never answers and
\* the reporter thread never gets out of SubmitReport: the receiver thread is
\* again and again through with all that was delivered to it.
TicketsRecorded == []<>(inbox = <<>> /\ pc = "idle")
===============================================================================
