# A TLA+ verification of the ticketing system

The repository is a small distributed system: a vending machine sells
tickets, gates check them, and a back office keeps them. This directory holds
TLA+ models of it, the TLC configurations that check them, and proofs checked by
TLAPS. Paths are relative to `src/`, the repository.

## 1. The system

| part | code | state | operations | talks to |
|---|---|---|---|---|
| MQTT broker | external (`docker-compose.yml`) | sessions, queued messages; lost when it restarts, as no persistence is configured | deliver (QoS 1) | vending machine, gates |
| `PahoMqttClient` | `gate/src`, `ticket-vending-machine/src` (the same file) | connection, `m_topic_map`, `was_disconnected` | `connect`, `subscribe_to_topic`, `run` | broker; calls the topic's callback |
| vending machine | `ticket-vending-machine/src/TicketProcessor.cpp` | none | `on_new_ticket`: parse, one POST | MQTT in, back office out (HTTP) |
| gate: receiver thread | `gate/src/TicketProcessor.cpp`, `MqttTicketReceiver.cpp` | `m_stats`, `m_last_validations`, `/data/<gate id>.xml` | `on_new_ticket`: parse, GET with a 3 s limit or decide alone, record, write XML, push counters | MQTT in, back office (HTTP), retry queue |
| gate: reporter thread | `gate/include/GenericRetryQueue.hpp`, `TransactionTrackingClient.cpp` | `m_queue` and its mutex and condition variable | `push`, `run` | back office (gRPC, no deadline) |
| back office: ticket API | `back-office/src/TicketsController.cpp`, `TicketsService.cpp`, `JsonTicketsRepository.cpp` | `/data/tickets.json`, `m_mtx` | create a ticket, validate a ticket | answers HTTP |
| back office: reports | `back-office/src/TransactionTrackingServiceImpl.cpp` | `m_reports` (memory only) | `SubmitReport`, `GetReport` | answers gRPC |
| scripts | `kill-apps.sh`, `start-new-gate.sh` | - | `kill -9`, start | every process |

A sale goes MQTT -> vending machine -> POST -> `create_ticket_base64` -> file. A
validation goes MQTT -> gate -> GET -> `validate_ticket_base64`, or
`is_ticket_expired` at the gate when the office cannot be reached; then the gate
records it, rewrites its XML file and queues its counters, which the reporter
thread sends by gRPC. The two threads of a gate share the retry queue only. The
HTTP and gRPC servers of the back office share nothing. An HTTP client gives up
after three seconds, which the office does not notice. Gates and the vending
machine hold one MQTT connection each, which the Paho library reopens by itself
in a thread of its own.

What is hard here:

* **Interleavings.** The queue's handler runs without the mutex, and `push` may
  evict the item it works on. The repository takes its mutex per method, while
  a sale needs two methods.
* **Crashes.** `tickets.json` and the XML file are rewritten in place.
  `kill-apps.sh` kills with `-9`. Counters, queue and reports are memory.
* **Connections.** `run()` looks at the connection once per loop; what happens
  to it in between it does not see. Quality of service 1 delivers twice.
* **Calls.** An HTTP call given up after three seconds may be served later; a
  `SubmitReport` whose connection broke may be executed after its own retry.
* **Failures in part.** `persist` looks at no stream state. `load` throws on a
  file that does not parse. A `SubmitReport` may arrive although it fails.
* **Numbers.** Requests are narrowed to `int`; days become seconds in `int` in
  one place and in `int64_t` in another.
* **Time.** A ticket expires between a gate's request and the answer.

What makes each part correct:

* MQTT client: what the session holds is delivered, in order, and the topic
  stays subscribed;
* retry queue: nobody pops an empty queue, the receiver never goes back to an
  older snapshot, the newest snapshot arrives in the end, and only an eviction
  loses one;
* gate: counters, list, file and report agree; each validation is reported;
  a back office that hangs does not stop validation;
* ticket API: an acknowledged ticket is kept, ids are unique, verdicts follow
  the dates of the ticket, every request is answered;
* reports: the office has what it acknowledged, a reader never sees a report go
  back, and gates that fell behind catch up;
* the whole: a request is sold once per delivery, a ticket on file that nobody
  holds cost a failed call, gates and office agree on which tickets are valid.

The hazards, each at its line and with the properties that cover it, are listed
in `PROJECT.json`.

## 2. Modules

| module | models | composed with |
|---|---|---|
| `RetryQueue` | `GenericRetryQueue<T>` | implements `ReportFeed` |
| `ReportFeed` | abstract: a receiver that only moves forward through numbered snapshots | |
| `TicketExpiry` | the validity arithmetic of the back office and of the gate, with the width of `int` | used by `BackOffice`, `Gate`, `TicketSystem` |
| `BackOffice` | the ticket API on its file, with crashes and write faults | implements `TicketLog` |
| `TicketLog` | abstract: a log of sold tickets | |
| `Gate` | both threads, the XML file, the report at the office, kill and restart | instantiates `RetryQueue` |
| `MqttClient` | `PahoMqttClient`, with the library and the broker as it uses them | |
| `TicketSystem` | vending machine, gates and `BackOffice` over HTTP | instantiates `BackOffice`, and implements it |
| `ReportPipeline` | `TransactionTrackingClient` and `Service`, several gates, their names | abstracts `RetryQueue` to the order it offers items in |
| `RetryQueueProofs`, `TicketExpiryProofs`, `MqttClientProofs`, `ReportPipelineProofs` | theorems about the module each is named for | extend it and TLAPS |
| `BackOfficeProofs` | theorems about `BackOffice` | extends it and `TicketExpiryProofs` |
| `GateProofs` | theorems about `Gate` | extends it and `TicketExpiryProofs`, instantiates `RetryQueueProofs` |
| `TicketSystemProofs` | theorems about `TicketSystem` | extends it, instantiates `BackOfficeProofs` |
| `MCGate`, `MCReportPipeline` | constants for `Gate` and `ReportPipeline` | extend them |

Operators whose comment starts with *Mutant of* are faulty variants of the
operator they name. No specification uses them: they are the mistakes that show
that each property can fail.

### RetryQueue

One action is one block under `m_mutex`. `PushLocked` evicts and appends,
`NotifyOne` is the notification after the unlock. `run()` is at `check`
(evaluating the wait predicate), `blocked`, `handling` (the handler runs without
the mutex), `pop` (it returned true) or `sleep` (it returned false; five seconds).
`TakeFront` copies the front; `Pop` pops whatever is in front *then*. Items are
numbers in push order. `latest` is what the handler's receiver applied last: the
handler may apply an item and still fail, as an RPC whose answer is lost does.

### BackOffice

A worker is a thread that runs HTTP handlers, `pc` its place in one.
`ReceiveCreate` is the controller and the checks before the file is read,
`GetLastTicketId` one critical section, `SaveTruncate` and `SaveWrite` the two
halves of the other: between them the file is truncated (`torn`) and the process
can die. While it is truncated the mutex is held, so other workers never see it.
`OpenFault` and `WriteFault` are the two silent failures of `persist`.
`Throw` is `load` throwing on a file that does not parse, with the mutex taken by a
`lock_guard` that releases it on the way out: every critical section can end in it.
`Validate` is `find_by_id` and `is_expired`. `Respond` is when the client knows:
only then is a ticket in `acked`. `ReceiveMalformed` stands for the malformed
bodies of both routes, which have no effect. `line_number` is stored and never
read, and is left out; the base64 text of a ticket is the ticket.

### TicketExpiry

`ExpiryDate` is the 64-bit computation. `ExpiredOutcomes` is the one whose
product is an `int`: overflow is undefined behaviour, and the set holds the
outcomes of a product that wraps and of one that is widened first, as compilers
do either. `ToInt` is the narrowing of a request's number. A day has
`SecondsPerDay` seconds and `int` has `IntValues` values, so that a small
validity crosses the boundary as 24856 days cross the real one.

### Gate

The receiver thread is `Consume`, then `RefuseMalformed`, `ValidateOnline` or
`ValidateOffline`, then `WriteXml`, `PushStats` and `NotifyRunner`; each of the
three validating actions ends in `Record`, which is `record_transaction` up to
the truncation of the XML file. Steps that touch only variables of the receiver
thread are merged; a kill may fall between any two that leave something behind.
The reporter thread is the queue's `run()`: its handler is `Submitted` or
`SubmitFails`. The k-th item pushed is `m_stats` after k validations, so items
are numbers here too. `report` is what the office keeps of this gate, with the
`life` (process) that sent it. `Crash` empties memory and keeps file and report.
A call that fails, or that the gate dies in, is `GivenUp`: lost, executed, or put
`adrift`, from where `ExecuteLate` may execute it at any time, over whatever the
office has by then; `late` says that this is how the report came. The file is
marked with the process that wrote it.

### MqttClient

The application's thread goes through `Connect` (only the attempt that succeeds
changes anything), `SubscribeToTopic` and the loop of `run()`: `LoopTop`,
`Resubscribe`, `Consume` or `ConsumeNothing`, `Callback`, `Sample`. A
subscription fails for want of a connection, or reaches the broker and throws
because the connection goes before the answer. The library and the broker are
external and modelled as far as `run()` can tell: `Reconnect` resumes the
session if there is one and subscribes to nothing; `Send` and `Ack` keep a
message until it is acknowledged and send it again after `Drop`;
`BrokerRestart` forgets the session, since `docker-compose.yml` configures no
persistence; `Kill` empties the application and leaves the session.
`Gate`'s inbox is this module's: its messages are acknowledged, and die with
the process.

### TicketSystem

Every client of the office has at most one call (`call`). `Call` sends it,
`Returns` takes an answer, `ReturnsNothing` is an error or the three seconds:
these are `CprHttpClient`. A call that was given up stays on the `wire` or is
lost. `OnNewTicket` is the vending machine's handler up to its POST, `PostAnswered`
and `PostFailed` the rest. `ShowTicket`, `DecideOnline` and `DecideOffline` are the
gate's handler; what it records is in `Gate`. The office's actions are those of
`BackOffice`: `Serve` gives one of its workers a call from the wire, `Work` runs
the handler, `Reply` sends the answer, if its client still waits.
`ImplementsOffice` closes the loop: `BackOffice` assumes that requests parse and
that gates show tickets it acknowledged, and here its clients are shown to do
so. A client that is killed is one that gives up. One clock is everybody's.

### ReportPipeline

`wire` holds the `SubmitReport` calls not executed yet. `Break` is a connection
that breaks at any time: the call is lost, or stays and is executed later, or was
executed and the gate does not know. A report is `late` if its gate had given the
call up. `Execute` and `GetReport` are the office's handlers, and its restart
(`OfficeRestart`) loses `m_reports`. The queue in front is reduced to what
`RetryQueueProofs` shows of it: items are offered in order, some are skipped,
a failed one is not followed by an older one. `name` is the `machine_id` that
`get_env_gate_id` makes of `GATE_ID`: one of its own, the default that gates may
share, or the empty one, which the office refuses and the queue retries for ever.

## 3. Runs

All pass unless a finding is named. Each property has a mutant of the code that
violates it under the same configuration.

| run | question |
|---|---|
| `retry_queue` | every interleaving of two pushers and `run()`, queue of 3, 7 pushes |
| `retry_queue_loss` | *finding:* an item nobody handled is dropped without the log line |
| `back_office` | one worker, as deployed: sales, validations, narrowing, one silent failure of `persist`, a kill |
| `back_office_two_workers` | what `m_mtx` alone guarantees when ids may collide: a failed write, a kill; every request is answered although handlers throw while they hold it |
| `back_office_durability` | *finding:* a kill between truncation and write loses all tickets |
| `back_office_malformed` | *finding:* a malformed file is a server error, its branch unreachable |
| `back_office_overflow` | *finding:* a ticket just sold may be refused as expired |
| `gate` | both threads, the file and the report, calls executed late, a kill and a restart anywhere; validation goes on though the reporter thread hangs |
| `mqtt_client` | delivery, repair and the subscription with two lost connections, a broker restart, a kill |
| `mqtt_client_forgotten` | *finding:* after an unnoticed broker restart nothing is subscribed, for ever |
| `ticket_system` | sales and verdicts end to end: requests delivered twice, calls that time out, are lost or served late, a kill of the office |
| `report_pipeline` | what `GetReport` may say: calls executed late, names shared or empty, a restart of a gate and of the office, after which a gate's next ticket makes it known again |

What the runs say beside the findings, and a reader might not expect:

* A ticket whose POST timed out is on file and nobody holds it. There is one per
  failed POST at most, and no other (`OrphansPaidFor`).
* A valid ticket is refused in three ways. A gate takes a server error of the
  office for a refusal, and once `tickets.json` does not parse this is the way of
  every ticket (`VerdictFitsDates` excepts it). A sale whose save failed to open the
  file is acknowledged and not on file, so the office answers 404, or, as its id is
  sold again, answers for the other ticket: `VerdictIsRight` speaks of tickets on
  file, and `ticket_system` has no such fault. And a product that overflows makes
  the office or a gate call a ticket expired (`back_office_overflow`).
* `LostOnlyToFaults` counts what is lost while the file can be read. It says nothing
  once the file does not parse, which a failed write or a kill leaves behind.
* A call that a gate gave up, or died in, may be executed at any later time and
  then takes the place of a newer report: `SubmitReport` compares nothing. Only
  such calls make a report go back (`ReportBackOnlyIfLate`), and the older report
  stays until the gate's next ticket.
* After a restart of the office a gate is unknown until its next ticket, which
  makes it known (`KnownAgain`): what was acknowledged before is not told again.
  Without late calls, restarts and shared names the office always has the last
  report it acknowledged.

### Bounds

* `retry_queue`: a queue of 3 has a middle; 7 pushes fill it and evict more
  than it holds, so the item being handled can be evicted, popped past and
  followed by as many again. Handler failures are not bounded.
* `back_office`: 3 sales make a log with a middle. Dates 0 and 1 with a clock
  up to 4 and days of 2 seconds let a ticket be sold, valid, at its last second
  and expired. With 16 values of `int`, a validity of 18 narrows to 2, so the
  number checked is not the number sent; a validity of 6 (`back_office_overflow`)
  overflows when multiplied. One kill and one failure of `persist`, to open or to
  write, may fall anywhere.
* `back_office_two_workers`: two workers and three sales: two may overlap while
  the third comes before, between or after. Days have one second.
  One worker can wait for the mutex that the other has, and a failed write leaves a
  file on which every later handler throws while it holds it.
* `gate`: three messages overfill the queue of two; one kill, two lives. One call at
  a time is adrift, which is enough to come after newer reports of its own process or
  of the next; the place is free again once it was executed. The
  ticket expires while the clock runs; its days are narrowed when it is parsed.
* `ticket_system`: two deliveries, of one request twice or of two; a gate that is
  shown two tickets, or one twice, before and after it expires. Gates share
  nothing but the office, and what one decided reaches another only by way of
  the passenger, so one gate shown a ticket twice stands for two. One kill of the
  office in any state. Clients may give up at any time.
* `report_pipeline`: two validations at one gate and one at the other, so that a
  call executed late can be older than its successor; one broken connection, one
  death of a gate and one of the office, in any order; three choices of names.
* `mqtt_client`: two messages can be sent, sent again and overtake; two lost
  connections can hit the first subscription and its repetition, or two
  deliveries of one message; one broker restart and one kill.

### Fairness

* A worker of the back office that has a request keeps running
  (`WF_vars(Handle(w))`): handlers do not block but on `m_mtx`. Clients owe nothing.
  Weak fairness is enough although the mutex may be taken when a worker wants it: of
  the critical sections only that of a save lasts for more than one step, and the
  saves of a run are bounded.
* `RetryQueue`: the threads run, weakly fair, except that spurious wakeups are
  owed by nobody. That the receiver is reached in the end is the assumption of
  the liveness properties alone (`SF_vars` of the handler's success): whoever
  retries for ever against an office that comes back is answered at last.
* `Gate`: `ReceiverSpec` asks for the receiver thread only: the GET ends within
  3 s, MQTT and the file do not block. `TicketsRecorded` holds under it, with a
  reporter thread stuck in `SubmitReport` for ever. `CountsReported` assumes
  `Reachable` as well: the reporter thread runs and the office answers at last. It
  leaves out a report that came late; that a call adrift is ever executed is owed by
  nobody.
* `ReportPipeline`: reporters run, and the office executes the calls of gates that
  wait (`WF_vars`), which a gRPC server with a free thread does: the handler takes
  a mutex for an assignment. Calls that were given up, readers and failures are
  owed by nobody. Failures are bounded, as an office that fails for ever acknowledges
  nothing.
* `TicketSystem` states no liveness: its clients end their calls by a timeout,
  which is the receiver thread's fairness in `Gate`.
* `MqttClient`: the thread runs, the library reconnects and the broker sends, all
  weakly fair; the broker is reachable in the end because failures are bounded.
  Acknowledgements, publishers and failures are owed by nobody.

## 4. Proofs

The runs check small instances; the theorems below hold for every value of the
constants that the named `ASSUME`s of the models allow: any number of workers,
gates, pushers, messages, sales, kills and faults, any dates and clock. Every
safety property that a passing run checks has a theorem. Theorems marked * have a
hypothesis, stated in them and explained below.

| module | theorem | property |
|---|---|---|
| `RetryQueueProofs` | `TypeCorrect` | `TypeOK` |
| | `PopIsSafe` | `PopSafe` |
| | `LossesArePaidFor` | `LossIsPaidFor` |
| | `NewestIsKept` * | `NewestKept` |
| | `ReceiverMonotone` | `NeverBackwards` |
| | `Refinement` | the queue implements `ReportFeed!SafeSpec` |
| `TicketExpiryProofs` | `ExactIfItFits` * | the `int` tests are the 64-bit test |
| `BackOfficeProofs` | `TypeCorrect` | `TypeOK` |
| | `LossesAreFaults` | `LostOnlyToFaults` |
| | `AckedIsKept` *, `OfficeIsALog` * | `AckedKept`, `ImplementsLog` |
| | `IdsAreFresh` *, `IdsAreUnique` * | `FreshIds`, `UniqueIds` |
| | `ExpiryStands` *, `VerdictsAreRight` * | `ExpiredIsForever`, `VerdictIsRight` |
| `GateProofs` | `TypeCorrect` | `TypeOK` |
| | `ValidationsArePushed` | `PushedOncePerValidation` |
| | `FileCoversReport` | `XmlCoversReport` |
| | `ReportsGoForward` | `ReportBackOnlyIfLate` |
| | `ReportAddsUp` | `XmlAddsUp` |
| | `RefusalsAreRight` * | `OfflineRefusalIsRight` |
| `MqttClientProofs` | `TypeCorrect` | `TypeOK` |
| | `MessagesInOrder` | `NoGap` |
| | `FlagIsHonest` | `TopicOrFlag`: the safety half of `SessionKeepsTopic` |
| `ReportPipelineProofs` | `TypeCorrect` | `TypeOK` |
| | `StaleIsLate` | `StaleOnlyIfLate` |
| | `ReadersGoForward` | `ReaderForward` |
| `TicketSystemProofs` | `TypeCorrect` | `TypeOK` |
| | `OfficeIsImplemented` | `ImplementsOffice` |
| | `SalesAreDelivered` * | `SoldPerDelivery` |
| | `OrphansArePaidFor` | `OrphansPaidFor` |
| | `VerdictsFitDates` *, `RefusalsStand` * | `VerdictFitsDates`, `RefusalStands` |

### Hypotheses

* `"open" \notin Faults`: `tickets.json` can be opened for writing. If it cannot,
  `persist` says nothing and the sale is acknowledged all the same, so
  `AckedKept` is false of the code; without the hypothesis `LossesAreFaults` still
  counts what is lost. Failing to *write* (a full disk) and kills need no
  hypothesis: they leave a file that cannot be read, which `Readable` sees.
* `OneWorker`: `main.cpp` leaves Crow with one thread to run handlers, as
  deployed. An id is read in one critical section and used in another, so two
  workers may sell one id twice. `AckedIsKept`, `OfficeIsALog`, `IdsAreFresh` and
  `ExpiryStands` hold for any number of workers.
* `DaysFit`, `PayloadsFit`: the days that can be asked for, once narrowed to `int`,
  make an `int` when multiplied by 86400, which they do up to 24855 days. Beyond
  them the product overflows, which is undefined, and `back_office_overflow` is
  the counterexample.
* `DistinctDays`: two numbers of days that can be asked for are not the same
  `int`. It is a limit of what `SoldPerDelivery` can say, not of the code: the
  property knows the sales of a request by what the ticket holds, and the ticket
  holds the narrowed number.
* `MaxSize # 1`: in a queue of one every push evicts the item being handled,
  and the pop that follows takes the newest. The gate's queue has ten places.

`ASSUME`s on the constants say what a value is: bounds are naturals, `NoWorker` is
not a worker, `NoCall` and `None` are not calls, a day has at least a second,
`int` has an even number of values and holds the seconds of a day.

### Arguments

`RetryQueue`. The queue is always the consecutive numbers that end with `pushed`
(so nothing is removed but from the front), `run()`'s copy is not newer than the
front, and `latest` not newer than the copy or than what was popped. `PopSafe` is
not inductive alone: `Pop` is safe only because `push` never leaves the queue
empty, which needs the size bound and that only `run()` pops. `LossIsPaidFor`
needs `PaidFor`: while `run()` is about to pop although the item it handled is
gone already, one eviction is still to be spent.

`BackOffice`. `Locked` ties the mutex to the worker between the halves of
`persist` and to the torn file; `SeenIsPast` says that nothing a worker noticed is
taken back. `AckedKept` is not inductive, since a ticket is acknowledged after
it was saved: `AckInv` speaks of every ticket that was acknowledged *or is about
to be*, and of the document a worker holds while the file is empty. For
`LogGrows` a save may only append to the `Log` it read, as it holds the mutex in
both halves. Unique ids need `IdAboveLog`, which a second worker breaks. A refusal
stands (`ToldInv`) since the *first* record with its id has expired, and saves
append: this is why `ExpiredIsForever` needs no unique ids.

`Gate`. The queue's invariant is not proved again: `Inv` contains that of
`RetryQueueProofs`, instantiated with what the office has of *this* process for
`latest`, and `StepOfQueue` shows that every step is one of the queue but a crash,
which starts the queue anew, and a call executed late. For the latter `AdriftBehind`
says that calls adrift carry nothing newer than what the queue offers next, which no
step of the queue changes (`BehindKept`). What reaches the report otherwise is the
item in the handler's hands, not older than the report by the queue's invariant: this
is `ReportsGoForward`. `Filed` says which of file, list and pushes is ahead at each
point of the handler; for `FileCoversReport`, `Covered` says of every call adrift what
the property says of the report, since it may become the report.

`MqttClient`. `NoGap` speaks of the callback only; `InOrder` says it of each stage
(to be sent, in the library's queue, in the callback's hands, received), since a
dropped connection moves messages that were already sent back to the first one.
An earlier message is always at least as far as a later one, duplicates or not.

`ReportPipeline`. `Fresh` extends `StaleOnlyIfLate` from what the gate was told to
what was executed and will be told; it holds because a gate that waits offers
nothing newer (`Offering`). `StillKnown` is the same for a reader: what may
replace a report that was shown is on the `wire`, and `AllPast` bounds the wire by
what each gate has offered.

`TicketSystem`. `TicketSystemProofs` instantiates `BackOfficeProofs`: `Inv`
contains the office's, and `OfficeStepRefines` maps every step to one of the office
or a stutter, so the office's theorems are lemmas here. What has to be shown is
that the clients are what the office assumes: calls are made once (`Once`),
answers are for calls that were made (`AllMade`), and a gate is shown what the
machine issued.

* `SalesAreDelivered`: `Covered` adds to the sales of a request the calls for it
  that may still make one (on the wire or with a worker before its save). A
  delivery adds a call; a save turns a call into a sale.
* `OrphansArePaidFor`: `PaidFor` counts tickets nobody holds *and* given up calls
  that can still make one. The allowance of one is needed: after a save the
  ticket is on file while its POST is still open, and when the office is killed
  then, that is so until the client's three seconds are over.
* `VerdictsFitDates` and `RefusalsStand`: `Chain` says at each place an answer
  passes (worker, answer on its way, gate) that it is right for its call. That
  the record found by id is the ticket shown takes `UniqueInv` and `AckInv` of the
  office, and the gate's own arithmetic takes `ExactIfItFits`.

### Only model-checked

* Liveness: `EventuallyReported`, the fairness of `ImplementsFeed`, `Answered`,
  `CountsReported`, `TicketsRecorded`, `Delivered`, `NoticedIsRepaired`,
  `SessionKeepsTopic`, `AllReported`, `KnownAgain`. Fairness speaks of `ENABLED`, which the
  provers do not handle.
* The findings: they are counterexamples.

## 5. What is not modelled

* MQTT topics of other clients, retained messages and the limit of messages in
  flight: the applications have one topic each and use none of these.
* The clock never goes back; the two readings of it in one sale are one.
* A file that exists but cannot be opened for reading counts as missing in
  `load`; that this is transient is not modelled. Write failures of the XML
  file are not modelled: nothing reads the file, the next ticket rewrites it.
* Text: JSON, base64 and XML are modelled by what they keep. The order and
  wording of log lines is not modelled.
* `Gate` has one gate: gates share nothing but the office, unless they share a
  name. Then they also share an MQTT client id, of which the broker lets one
  connect at a time, and a file: `ReportPipeline` has only their report.
* The clocks of gates and office are one.
* What a restart does to the list in the XML file: a new process starts an empty
  one and its first ticket rewrites the file (`TicketProcessor.cpp:247`), so what
  earlier processes recorded is gone. `XmlCoversReport` takes the file of a later
  process to cover the reports of earlier ones.
* A restart of the office as seen by a gate's queue: `Gate`'s office keeps its report,
  and `ReportPipeline` has the restart, with the queue reduced to an order.
* 32-bit counters (2^31 validations) and the memory that the list of
  validations takes.

## 6. Plan

* The safety halves of the liveness properties that have none yet, as `TopicOrFlag`
  is for `SessionKeepsTopic`: a message that the session took in and the callback
  has not seen is somewhere (`Kept`, proved only with its order); a worker with a
  request can always move, so that `Answered` cannot fail by a deadlock; a queue that is
  not empty is not slept on without a notification to come.
* What the theorems about the composed system say with more than one worker,
  where the two that need unique ids fail.
* `ReportPipeline` abstracts the queue to the order it offers items in: that
  `RetryQueue` implements this abstraction is argued from `Refinement`, and could be
  a theorem of its own.
