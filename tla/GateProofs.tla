------------------------------ MODULE GateProofs ------------------------------
(***************************************************************************)
(* Safety of Gate for every set of payloads, every queue size, every clock *)
(* and every number of messages and kills.  What RetryQueueProofs says of  *)
(* the queue is used as it is, with the back office's report of this       *)
(* process for the queue's receiver; what a call executed late does to it  *)
(* is no step of the queue.                                                *)
(***************************************************************************)
EXTENDS Gate, TicketExpiryProofs, SequenceTheorems, FiniteSetTheorems, TLAPS

QP == INSTANCE RetryQueueProofs
        WITH Pushers <- {Receiver}, MaxSize <- QueueSize, MaxPush <- MaxEvents,
             latest <- IF report.life = life THEN report.n ELSE 0

USE PayloadsAssumption, BoundsAssumption, SecondsPerDayAssumption, IntValuesAssumption

-------------------------------------------------------------------------------
(* The queue, and the types *)

\* A call of this process that was given up carries counters no newer than those
\* the queue offers next.
AdriftBehind ==
    \A i \in Places, n \in Nat :
        adrift[i].life = life /\ adrift[i].n = n => QP!Behind(n)

Inv == TypeOK /\ QP!Inv /\ AdriftBehind

StatFields == {"total", "valid", "invalid", "online", "offline"}

LEMMA DomainOfStats == DOMAIN NoStats = StatFields
  BY DEF NoStats, StatFields

\* Where the gate does not restart and no call is executed late, what happens to
\* the queue and its receiver is what threads do.
LEMMA StepOfQueue ==
    ASSUME [Next]_vars, ~Crash, ~ExecuteLate PROVE [QP!Next]_(QP!vars)
<1>1. ASSUME UNCHANGED <<runner, server, life>> PROVE UNCHANGED QP!vars
  BY <1>1 DEF runner, server, QP!vars
<1>2. CASE PushStats
  <2>1. Q!PushLocked(Receiver)
    BY <1>2 DEF PushStats
  <2>2. QP!PushLocked(Receiver)
    BY <2>1 DEF Q!PushLocked, QP!PushLocked, Q!Enqueued, QP!Enqueued, Q!Full, QP!Full
  <2> QED
    BY <2>2 DEF QP!Next
<1>3. CASE NotifyRunner
  <2>1. QP!NotifyOne(Receiver)
    BY <1>3 DEF NotifyRunner, Q!NotifyOne, QP!NotifyOne
  <2> QED
    BY <2>1 DEF QP!Next
<1>4. CASE Submitted
  <2>1. QP!HandlerSucceeds
    BY <1>4 DEF Submitted, Q!HandlerSucceeds, QP!HandlerSucceeds
  <2> QED
    BY <2>1 DEF QP!Next, QP!Run
<1>5. CASE SubmitFails
  <2>1. QP!HandlerFails
    BY <1>5 DEF SubmitFails, Q!HandlerFails, QP!HandlerFails
  <2> QED
    BY <2>1 DEF QP!Next, QP!Run
<1>6. CASE RunQueue
  <2>1. QP!TakeFront \/ QP!Block \/ QP!Pop \/ QP!WakeUp
    BY <1>6 DEF RunQueue, Q!TakeFront, Q!Block, Q!Pop, Q!WakeUp,
       QP!TakeFront, QP!Block, QP!Pop, QP!WakeUp
  <2> QED
    BY <2>1 DEF QP!Next, QP!Run
<1>7. CASE WakeSpuriously
  <2>1. QP!SpuriousWakeup
    BY <1>7 DEF WakeSpuriously, Q!SpuriousWakeup, QP!SpuriousWakeup
  <2> QED
    BY <2>1 DEF QP!Next
<1>8. \/ Deliver \/ Consume \/ RefuseMalformed \/ ValidateOnline
      \/ ValidateOffline \/ WriteXml \/ Tick \/ UNCHANGED vars
      => UNCHANGED <<runner, server, life>>
  BY DEF Deliver, Consume, RefuseMalformed, ValidateOnline, ValidateOffline,
     WriteXml, Tick, vars
<1> QED
  BY <1>1, <1>2, <1>3, <1>4, <1>5, <1>6, <1>7, <1>8 DEF Next, Receive

\* What the back office's report and the calls given up may become.
LEMMA ServerStep ==
    ASSUME TypeOK, [Next]_vars
    PROVE  /\ \/ UNCHANGED report
              \/ runnerPc = "handling" /\ report' = Request
              \/ late' = TRUE /\ \E i \in Places : report' = adrift[i]
           /\ late' \in BOOLEAN
           /\ adrift' = [i \in Places |-> adrift'[i]]
           /\ \A i \in Places :
                 \/ adrift'[i] \in {adrift[i], NoReport}
                 \/ runnerPc = "handling" /\ adrift'[i] = Request
<1>1. adrift = [i \in Places |-> adrift[i]] /\ late \in BOOLEAN
  BY DEF TypeOK
<1>2. CASE UNCHANGED server
  BY <1>1, <1>2 DEF server
<1>3. CASE GivenUp /\ runnerPc = "handling"
  BY <1>1, <1>2, <1>3 DEF GivenUp
<1>4. CASE Submitted
  BY <1>1, <1>4 DEF Submitted, Q!HandlerSucceeds
<1>5. CASE SubmitFails
  BY <1>3, <1>5 DEF SubmitFails, Q!HandlerFails
<1>6. CASE ExecuteLate
  BY <1>1, <1>6 DEF ExecuteLate
<1>7. CASE Crash
  BY <1>2, <1>3, <1>7 DEF Crash
<1>8. \/ Deliver \/ Consume \/ RefuseMalformed \/ ValidateOnline \/ ValidateOffline
      \/ WriteXml \/ PushStats \/ NotifyRunner \/ RunQueue \/ WakeSpuriously \/ Tick
      \/ UNCHANGED vars
      => UNCHANGED server
  BY DEF Deliver, Consume, RefuseMalformed, ValidateOnline, ValidateOffline, WriteXml,
     PushStats, NotifyRunner, RunQueue, WakeSpuriously, Tick, vars
<1> QED
  BY <1>2, <1>4, <1>5, <1>6, <1>7, <1>8 DEF Next, Receive

\* The counters run() holds are no newer than those it offers next.
LEMMA ItemBehind ==
    ASSUME Inv, runnerPc = "handling"
    PROVE  /\ item \in 1..MaxEvents /\ item <= pushed /\ QP!Behind(item)
<1> USE DEF Inv, QP!Inv, QP!TypeOK
<1>1. /\ queue # <<>> /\ item \in 1..(QP!Gone + 1) /\ QP!Gone \in Nat
      /\ QP!Gone + 1 <= pushed
  <2>1. Len(queue) \in Nat \ {0}
    BY EmptySeq, LenProperties DEF QP!CopyNotStale
  <2> QED
    BY <2>1 DEF QP!CopyNotStale, QP!Consecutive, QP!Gone
<1> QED
  BY <1>1 DEF QP!Behind

\* A call executed late changes the queue's receiver only.
LEMMA LateInv == ASSUME Inv, ExecuteLate PROVE QP!Inv'
<1>1. PICK i \in Places : report' = adrift[i]
  BY DEF ExecuteLate
<1>2. UNCHANGED <<queue, pusherPc, runnerPc, item, pushed, handled, evicted, life>>
  BY DEF ExecuteLate, runner
<1>3. PICK n \in 0..MaxEvents : n = IF report'.life = life THEN report'.n ELSE 0
  BY <1>1 DEF Inv, TypeOK, Reports
<1>4. QP!Behind(n)
  <2>1. QP!Gone + 1 >= 0 /\ pushed \in Nat /\ item \in Nat
    BY LenProperties DEF Inv, QP!Inv, QP!TypeOK, QP!Consecutive, QP!Gone
  <2>2. QP!Behind(0)
    BY <2>1 DEF QP!Behind
  <2> QED
    BY <1>1, <1>3, <2>2 DEF Inv, AdriftBehind
<1>5. QP!TypeOK'
  BY <1>2, <1>3 DEF Inv, QP!Inv, QP!TypeOK, QP!RunnerPc
<1>6. QP!ReceiverBehind'
  BY <1>2, <1>3, <1>4 DEF QP!ReceiverBehind, QP!Behind, QP!Gone
<1> QED
  BY <1>2, <1>5, <1>6 DEF Inv, QP!Inv, QP!Consecutive, QP!CopyNotStale,
     QP!PoppedIsHandled, QP!Gone

LEMMA QueueInv == ASSUME Inv, [Next]_vars PROVE QP!Inv'
<1>1. CASE ~Crash /\ ~ExecuteLate
  <2>1. QP!Inv /\ [QP!Next]_(QP!vars) => QP!Inv'
    BY QP!NextInv
  <2> QED
    BY <1>1, <2>1, StepOfQueue DEF Inv
<1>2. CASE Crash
  <2>1. (QP!Init)'
    <3>1. report' \in {report, Request}
      BY <1>2 DEF Crash, GivenUp, server
    <3>2. report'.life # life'
      BY <1>2, <3>1 DEF Crash, Request, Inv, TypeOK, Reports
    <3> QED
      BY <1>2, <3>2 DEF Crash, QP!Init
  <2>2. QP!Init => QP!Inv
    BY QP!InitInv
  <2> QED
    BY <2>1, QP!InitInv, PTL
<1> QED
  BY <1>1, <1>2, LateInv

LEMMA AdriftStep == ASSUME Inv, [Next]_vars PROVE AdriftBehind'
<1> SUFFICES ASSUME NEW i \in Places, NEW n \in Nat,
                    adrift'[i].life = life', adrift'[i].n = n
             PROVE  QP!Behind(n)'
  BY DEF AdriftBehind, Places
<1>1. TypeOK /\ QP!Inv /\ AdriftBehind
  BY DEF Inv
<1>2. /\ adrift[i] \in Reports /\ item \in 0..MaxEvents /\ life \in Nat \ {0}
      /\ adrift[i].life <= life
  BY <1>1 DEF TypeOK, Q!TypeOK, Reports
<1>3. \/ adrift'[i] = NoReport \/ adrift'[i] = adrift[i]
      \/ runnerPc = "handling" /\ adrift'[i] = Request
  BY <1>1, ServerStep
<1>4. ~Crash
  BY <1>2, <1>3 DEF Crash, Reports, Request, NoReport
<1>5. life' = life
  BY <1>4 DEF Next, Receive, Deliver, Consume, RefuseMalformed, ValidateOnline,
     ValidateOffline, WriteXml, PushStats, NotifyRunner, Submitted, SubmitFails,
     RunQueue, WakeSpuriously, ExecuteLate, Tick, vars
<1>6. QP!Behind(n)
  <2>1. CASE adrift'[i] = adrift[i]
    BY <1>1, <1>5, <2>1 DEF AdriftBehind
  <2>2. CASE runnerPc = "handling" /\ adrift'[i] = Request
    BY <2>2, ItemBehind DEF Request
  <2> QED
    BY <1>2, <1>3, <1>5, <2>1, <2>2 DEF NoReport
<1>7. CASE ExecuteLate
  BY <1>6, <1>7 DEF ExecuteLate, runner, QP!Behind, QP!Gone
<1>8. CASE ~ExecuteLate
  <2>1. [QP!Next]_(QP!vars)
    BY <1>4, <1>8, StepOfQueue
  <2> QED
    BY <1>1, <1>6, <2>1, QP!BehindKept
<1> QED
  BY <1>7, <1>8

\* The validation record_transaction records.
Validation(strategy, result) ==
    [payload |-> current, strategy |-> strategy, result |-> result]

\* The four ways through on_new_ticket end in one record_transaction.
LEMMA RecordStep ==
    ASSUME NEW strategy, NEW result, Record(strategy, result)
    PROVE  /\ stats' = Counted(Validation(strategy, result))
           /\ last' = Append(last, Validation(strategy, result))
           /\ torn' = TRUE /\ pc' = "xml" /\ UNCHANGED <<current, xml>>
  BY DEF Record, Validation

LEMMA Recorded ==
    ASSUME RefuseMalformed \/ ValidateOnline \/ ValidateOffline
    PROVE  /\ pc = "validating"
           /\ \E strategy \in {"ONLINE", "OFFLINE"}, result \in {"VALID", "INVALID"} :
                 Record(strategy, result)
           /\ UNCHANGED <<inbox, server, now, runner, events, life>>
<1>1. CASE RefuseMalformed
  BY <1>1 DEF RefuseMalformed
<1>2. CASE ValidateOnline
  BY <1>2 DEF ValidateOnline
<1>3. CASE ValidateOffline
  BY <1>3 DEF ValidateOffline
<1> QED
  BY <1>1, <1>2, <1>3

\* What counting a validation does to m_stats, field by field.
LEMMA CountedFields ==
    ASSUME stats \in [DOMAIN NoStats -> Nat], NEW v, NEW s, s = Counted(v)
    PROVE  /\ s \in [DOMAIN NoStats -> Nat]
           /\ s.total = stats.total + 1 /\ stats.total \in Nat
           /\ s.valid = (IF v.result = "VALID" THEN stats.valid + 1 ELSE stats.valid)
           /\ s.invalid = (IF v.result = "INVALID" THEN stats.invalid + 1
                                                   ELSE stats.invalid)
           /\ s.online = (IF v.strategy = "ONLINE" THEN stats.online + 1
                                                   ELSE stats.online)
           /\ s.offline = (IF v.strategy = "OFFLINE" THEN stats.offline + 1
                                                     ELSE stats.offline)
<1> DEFINE total == stats.total + 1
           valid == IF v.result = "VALID" THEN stats.valid + 1 ELSE stats.valid
           invalid == IF v.result = "INVALID" THEN stats.invalid + 1 ELSE stats.invalid
           online == IF v.strategy = "ONLINE" THEN stats.online + 1 ELSE stats.online
           offline == IF v.strategy = "OFFLINE" THEN stats.offline + 1 ELSE stats.offline
<1>1. stats \in [StatFields -> Nat]
  BY DomainOfStats
<1>2. /\ total \in Nat /\ valid \in Nat /\ invalid \in Nat
      /\ online \in Nat /\ offline \in Nat /\ stats.total \in Nat
  BY <1>1 DEF StatFields
<1>3. s = [stats EXCEPT !.total = total, !.online = online, !.offline = offline,
                        !.valid = valid, !.invalid = invalid]
  BY Zenon DEF Counted
<1> HIDE DEF total, valid, invalid, online, offline
<1>4. /\ s \in [StatFields -> Nat]
      /\ s.total = total /\ s.valid = valid /\ s.invalid = invalid
      /\ s.online = online /\ s.offline = offline
  <2>1. /\ stats \in [StatFields -> Nat] /\ DOMAIN stats = StatFields
        /\ DOMAIN s = StatFields
    BY <1>1, <1>3
  <2>2. s.total = total /\ s.valid = valid /\ s.invalid = invalid
    BY <1>3, <2>1 DEF StatFields
  <2>3. s.online = online /\ s.offline = offline
    BY <1>3, <2>1 DEF StatFields
  <2>4. s = [f \in StatFields |-> s[f]]
    BY <1>3, <2>1
  <2>5. \A f \in StatFields : s[f] \in Nat
    BY <1>2, <2>2, <2>3 DEF StatFields
  <2> QED
    BY <2>2, <2>3, <2>4, <2>5
<1> QED
  BY <1>2, <1>4, DomainOfStats DEF total, valid, invalid, online, offline

LEMMA NoStatsIsStats == NoStats \in [DOMAIN NoStats -> Nat]
<1>1. NoStats \in [StatFields -> Nat]
  BY DEF NoStats, StatFields
<1> QED
  BY <1>1, DomainOfStats

LEMMA InitInv == Init => Inv
<1> SUFFICES ASSUME Init PROVE Inv
  OBVIOUS
<1>1. QP!Inv
  <2>1. QP!Init
    BY DEF Init, Q!Init, QP!Init
  <2> QED
    BY <2>1, QP!InitInv
<1>2. Q!TypeOK
  BY <1>1 DEF QP!Inv, QP!TypeOK, Q!TypeOK, QP!RunnerPc, Q!RunnerPc
<1>3. <<>> \in Seq(Payloads) /\ <<>> \in Seq(Validations)
  BY EmptySeq
<1>4. xml \in [life : 0..life, summary : [DOMAIN NoStats -> Nat],
               validations : Seq(Validations)]
  BY <1>3, NoStatsIsStats DEF Init
<1>5. stats \in [DOMAIN NoStats -> Nat]
  BY NoStatsIsStats DEF Init
<1>6. /\ report \in Reports /\ late \in BOOLEAN /\ adrift \in [Places -> Reports]
      /\ now \in Nat /\ events \in 0..MaxEvents /\ life \in 1..(MaxCrashes + 1)
  <2>1. NoReport \in Reports
    BY DEF Init, Reports, NoReport
  <2>2. adrift \in [Places -> Reports] /\ report \in Reports /\ late \in BOOLEAN
    BY <2>1 DEF Init
  <2>3. now \in Nat /\ events \in 0..MaxEvents /\ life \in 1..(MaxCrashes + 1)
    BY DEF Init
  <2> QED
    BY <2>2, <2>3
<1>7. /\ inbox \in Seq(Payloads) /\ last \in Seq(Validations)
      /\ current \in Payloads /\ torn \in BOOLEAN
      /\ pc \in {"idle", "validating", "xml", "push"}
  BY <1>3 DEF Init
<1>8. AdriftBehind
  BY DEF Init, AdriftBehind, NoReport
<1> QED
  BY <1>1, <1>2, <1>4, <1>5, <1>6, <1>7, <1>8 DEF Inv, TypeOK

LEMMA NextInv == Inv /\ [Next]_vars => Inv'
<1> SUFFICES ASSUME Inv, [Next]_vars PROVE TypeOK'
  BY QueueInv, AdriftStep DEF Inv
<1>1. Q!TypeOK'
  BY QueueInv DEF QP!Inv, QP!TypeOK, Q!TypeOK, QP!RunnerPc, Q!RunnerPc
<1>2. item \in 0..MaxEvents
  BY DEF Inv, TypeOK, Q!TypeOK
<1> DEFINE Receiving ==
              /\ inbox \in Seq(Payloads) /\ current \in Payloads
              /\ pc \in {"idle", "validating", "xml", "push"}
           Recording ==
              /\ stats \in [DOMAIN NoStats -> Nat]
              /\ last \in Seq(Validations)
              /\ xml \in [life : 0..life, summary : [DOMAIN NoStats -> Nat],
                          validations : Seq(Validations)]
              /\ torn \in BOOLEAN
           Reporting ==
              /\ report \in Reports /\ late \in BOOLEAN /\ adrift \in [Places -> Reports]
              /\ now \in Nat /\ events \in 0..MaxEvents /\ life \in 1..(MaxCrashes + 1)
<1>3. Receiving /\ Recording /\ Reporting
  BY DEF Inv, TypeOK
<1>4. Receiving' /\ Recording' /\ Reporting' => TypeOK'
  BY <1>1 DEF TypeOK
<1>5. UNCHANGED <<stats, last, xml, torn, life>> => Recording'
  BY <1>3
<1>6. /\ now' \in Nat /\ events' \in 0..MaxEvents /\ life' \in 1..(MaxCrashes + 1)
      /\ life' >= life
  <2>1. life \in Nat /\ now \in Nat /\ events \in 0..MaxEvents
    BY <1>3
  <2>2. CASE Deliver \/ Tick
    <3> HIDE DEF Recording, Receiving
    <3> QED
      BY <1>3, <2>2, SMTT(30) DEF Deliver, Tick
  <2>3. CASE Crash
    BY <1>3, <2>3 DEF Crash
  <2>4. \/ Consume \/ RefuseMalformed \/ ValidateOnline \/ ValidateOffline \/ WriteXml
        \/ PushStats \/ NotifyRunner \/ Submitted \/ SubmitFails \/ RunQueue
        \/ WakeSpuriously \/ ExecuteLate \/ UNCHANGED vars
        => UNCHANGED <<now, events, life>>
    BY SMTT(30) DEF Consume, RefuseMalformed, ValidateOnline, ValidateOffline,
       WriteXml, PushStats, NotifyRunner, Submitted, SubmitFails, RunQueue,
       WakeSpuriously, ExecuteLate, vars
  <2> QED
    BY <1>3, <2>1, <2>2, <2>3, <2>4 DEF Next, Receive
<1>7. Receiving'
  <2>1. CASE Deliver
    <3>1. PICK p \in Payloads : inbox' = Append(inbox, p)
      BY <2>1 DEF Deliver
    <3>2. inbox' \in Seq(Payloads)
      BY <1>3, <3>1, AppendProperties
    <3> QED
      BY <1>3, <2>1, <3>2 DEF Deliver, processor
  <2>2. CASE Consume
    <3>1. Head(inbox) \in Payloads /\ Tail(inbox) \in Seq(Payloads)
      BY <1>3, <2>2, HeadTailProperties DEF Consume
    <3> QED
      BY <2>2, <3>1 DEF Consume
  <2>3. CASE RefuseMalformed \/ ValidateOnline \/ ValidateOffline
    BY <1>3, <2>3, Recorded, RecordStep
  <2>4. CASE WriteXml \/ PushStats
    BY <1>3, <2>4 DEF WriteXml, PushStats
  <2>5. CASE \/ NotifyRunner \/ RunQueue \/ WakeSpuriously \/ Submitted \/ SubmitFails
             \/ ExecuteLate
    BY <1>3, <2>5 DEF NotifyRunner, RunQueue, WakeSpuriously, Submitted, SubmitFails,
       ExecuteLate, processor
  <2>6. CASE Crash
    BY <2>6, EmptySeq DEF Crash
  <2>7. CASE Tick \/ UNCHANGED vars
    BY <1>3, <2>7 DEF Tick, vars, processor
  <2> QED
    BY <2>1, <2>2, <2>3, <2>4, <2>5, <2>6, <2>7 DEF Next, Receive
<1>8. Recording'
  <2>1. CASE RefuseMalformed \/ ValidateOnline \/ ValidateOffline
    <3>1. PICK strategy \in {"ONLINE", "OFFLINE"}, result \in {"VALID", "INVALID"} :
             Record(strategy, result)
      BY <2>1, Recorded
    <3>2. Validation(strategy, result) \in Validations
      BY <1>3 DEF Validation, Validations
    <3>3. last' \in Seq(Validations)
      <4>1. last' = Append(last, Validation(strategy, result))
        BY <3>1, RecordStep
      <4> QED
        BY <1>3, <3>2, <4>1, AppendProperties
    <3>4. stats' \in [DOMAIN NoStats -> Nat]
      BY <1>3, <3>1, RecordStep, CountedFields
    <3>5. life' = life
      BY <2>1, Recorded
    <3> QED
      BY <1>3, <3>1, <3>3, <3>4, <3>5, RecordStep
  <2>2. CASE WriteXml
    <3>1. /\ xml' = [life |-> life, summary |-> stats, validations |-> last]
          /\ torn' = FALSE /\ UNCHANGED <<stats, last, life>>
      BY <2>2 DEF WriteXml
    <3>2. xml' \in [life : 0..life, summary : [DOMAIN NoStats -> Nat],
                    validations : Seq(Validations)]
      BY <1>3, <3>1
    <3> QED
      BY <1>3, <3>1, <3>2
  <2>3. CASE Crash
    <3>1. stats' = NoStats /\ last' = <<>> /\ UNCHANGED <<xml, torn>>
      BY <2>3 DEF Crash, file
    <3>2. stats' \in [DOMAIN NoStats -> Nat] /\ last' \in Seq(Validations)
      BY <3>1, NoStatsIsStats, EmptySeq
    <3>3. xml \in [life : 0..life', summary : [DOMAIN NoStats -> Nat],
                   validations : Seq(Validations)]
      BY <1>3, <1>6
    <3> QED
      BY <1>3, <3>1, <3>2, <3>3
  <2>4. \/ Deliver \/ Consume \/ PushStats \/ NotifyRunner \/ Submitted \/ SubmitFails
        \/ RunQueue \/ WakeSpuriously \/ ExecuteLate \/ Tick \/ UNCHANGED vars
        => UNCHANGED <<stats, last, xml, torn, life>>
    BY DEF Deliver, Consume, PushStats, NotifyRunner, Submitted, SubmitFails,
       RunQueue, WakeSpuriously, ExecuteLate, Tick, vars, processor, file
  <2> QED
    BY <1>5, <2>1, <2>2, <2>3, <2>4 DEF Next, Receive
<1>9. Reporting'
  <2>1. Reports \subseteq Reports' /\ NoReport \in Reports /\ Request \in Reports
    BY <1>2, <1>3, <1>6 DEF Reports, NoReport, Request
  <2>2. TypeOK /\ report \in Reports /\ \A i \in Places : adrift[i] \in Reports
    BY DEF Inv, TypeOK
  <2>3. report' \in Reports /\ late' \in BOOLEAN
    BY <2>1, <2>2, ServerStep
  <2>4. /\ adrift' = [i \in Places |-> adrift'[i]]
        /\ \A i \in Places : adrift'[i] \in Reports
    BY <2>1, <2>2, ServerStep
  <2>5. Places' = Places
    BY DEF Places
  <2> QED
    BY <1>6, <2>1, <2>3, <2>4, <2>5
<1> QED
  BY <1>4, <1>7, <1>8, <1>9

THEOREM Invariance == SafeSpec => []Inv
  BY InitInv, NextInv, PTL DEF SafeSpec

\* Every variable of the gate keeps its type: the two threads and the queue, the
\* report file, and the report at the back office, restarts included.
THEOREM TypeCorrect == SafeSpec => []TypeOK
<1>1. Inv => TypeOK
  BY DEF Inv
<1> QED
  BY <1>1, Invariance, PTL

-------------------------------------------------------------------------------
(* The counters and the file *)

\* Between the last write of the file and the next, what was pushed was written, by
\* this process as soon as it pushed anything.
Filed ==
    /\ stats.total = Len(last)
    /\ PushedOncePerValidation
    /\ pc = "push" => ~torn /\ xml.validations = last /\ xml.life = life
    /\ ~torn /\ pushed > 0 => xml.life = life /\ pushed <= Len(xml.validations)

LEMMA FiledStep == ASSUME Inv, Filed, [Next]_vars PROVE Filed'
<1>1. /\ stats \in [DOMAIN NoStats -> Nat] /\ stats.total \in Nat
      /\ last \in Seq(Validations) /\ Len(last) \in Nat /\ pushed \in Nat
  <2>1. stats \in [StatFields -> Nat]
    BY DomainOfStats DEF Inv, TypeOK
  <2> QED
    BY <2>1, DomainOfStats, LenProperties DEF StatFields, Inv, TypeOK, Q!TypeOK
<1>2. CASE RefuseMalformed \/ ValidateOnline \/ ValidateOffline
  <2>1. PICK strategy \in {"ONLINE", "OFFLINE"}, result \in {"VALID", "INVALID"} :
           Record(strategy, result)
    BY <1>2, Recorded
  <2>2. Validation(strategy, result) \in Validations
    BY DEF Validation, Validations, Inv, TypeOK
  <2>3. last' = Append(last, Validation(strategy, result))
    BY <2>1, RecordStep
  <2>4. Len(last') = Len(last) + 1
    BY <1>1, <2>2, <2>3, AppendProperties
  <2>5. stats'.total = stats.total + 1
    BY <1>1, <2>1, RecordStep, CountedFields
  <2>6. torn' = TRUE /\ pc' = "xml" /\ pc = "validating" /\ pushed' = pushed
    BY <1>2, <2>1, RecordStep, Recorded DEF runner
  <2> QED
    BY <1>1, <2>4, <2>5, <2>6 DEF Filed, PushedOncePerValidation
<1>3. CASE WriteXml
  <2>1. /\ pc = "xml" /\ pc' = "push" /\ torn' = FALSE /\ xml'.validations = last
        /\ xml'.life = life /\ UNCHANGED <<stats, last, pushed, life>>
    BY <1>3 DEF WriteXml, runner
  <2> QED
    BY <1>1, <2>1 DEF Filed, PushedOncePerValidation
<1>4. CASE PushStats
  <2>1. /\ pc = "push" /\ pc' = "idle" /\ pushed' = pushed + 1
        /\ UNCHANGED <<stats, last, xml, torn, life>>
    BY <1>4 DEF PushStats, file, Q!PushLocked
  <2> QED
    BY <1>1, <2>1 DEF Filed, PushedOncePerValidation
<1>5. CASE Crash
  <2>1. /\ pc' = "idle" /\ stats' = NoStats /\ last' = <<>> /\ pushed' = 0
        /\ UNCHANGED <<xml, torn>>
    BY <1>5 DEF Crash, file
  <2>2. stats'.total = 0 /\ Len(last') = 0
    BY <2>1, EmptySeq DEF NoStats
  <2> QED
    BY <2>1, <2>2 DEF Filed, PushedOncePerValidation
<1>6. CASE Consume
  BY <1>6 DEF Consume, file, runner, Filed, PushedOncePerValidation
<1>7. \/ Deliver \/ NotifyRunner \/ Submitted \/ SubmitFails \/ RunQueue
      \/ WakeSpuriously \/ ExecuteLate \/ Tick \/ UNCHANGED vars
      => UNCHANGED <<pc, stats, last, xml, torn, pushed, life>>
  BY DEF Deliver, NotifyRunner, Submitted, SubmitFails, RunQueue, WakeSpuriously,
     ExecuteLate, Tick, vars, processor, file, runner, Q!NotifyOne, Q!HandlerSucceeds,
     Q!HandlerFails, Q!TakeFront, Q!Block, Q!Pop, Q!WakeUp, Q!SpuriousWakeup
<1>8. CASE UNCHANGED <<pc, stats, last, xml, torn, pushed, life>>
  BY <1>8 DEF Filed, PushedOncePerValidation
<1> QED
  BY <1>2, <1>3, <1>4, <1>5, <1>6, <1>7, <1>8 DEF Next, Receive

LEMMA FiledInvariance == SafeSpec => [](Inv /\ Filed)
<1>1. Init => Filed
  BY EmptySeq DEF Init, Filed, PushedOncePerValidation, NoStats, Q!Init
<1>2. Inv /\ Filed /\ [Next]_vars => Filed'
  BY FiledStep
<1> QED
  BY <1>1, <1>2, Invariance, PTL DEF SafeSpec

\* m_stats is pushed once per validation, for every interleaving of the two
\* threads and wherever the gate is killed.
THEOREM ValidationsArePushed == SafeSpec => []PushedOncePerValidation
<1>1. Filed => PushedOncePerValidation
  BY DEF Filed
<1> QED
  BY <1>1, FiledInvariance, PTL

\* The file is whole only if it covers what this call of SubmitReport carries.
Covers(c) ==
    ~torn =>
        \/ xml.life > c.life
        \/ xml.life = c.life /\ Len(xml.validations) >= c.n

Covered == Covers(report) /\ \A i \in Places : Covers(adrift[i])

\* What the back office has, and what it may still get, stays covered.
LEMMA CoversStep ==
    ASSUME Inv, Filed, [Next]_vars
    PROVE  \A c \in Reports :
              Covers(c) /\ (c.life = life => c.n <= pushed) =>
                  (~torn' => \/ xml'.life > c.life
                             \/ xml'.life = c.life /\ Len(xml'.validations) >= c.n)
<1> SUFFICES ASSUME NEW c \in Reports, Covers(c), c.life = life => c.n <= pushed, ~torn'
             PROVE  \/ xml'.life > c.life
                    \/ xml'.life = c.life /\ Len(xml'.validations) >= c.n
  OBVIOUS
<1>1. CASE RefuseMalformed \/ ValidateOnline \/ ValidateOffline
  BY <1>1, Recorded, RecordStep
<1>2. CASE WriteXml
  <2>1. pc = "xml" /\ xml'.life = life /\ xml'.validations = last
    BY <1>2 DEF WriteXml
  <2>2. /\ c.life \in 0..life /\ c.n \in Nat /\ life \in Nat
        /\ Len(last) \in Nat /\ pushed \in Nat
    BY LenProperties DEF Reports, Inv, TypeOK, Q!TypeOK
  <2>3. pushed = Len(last) - 1
    BY <2>1 DEF Filed, PushedOncePerValidation
  <2> QED
    BY <2>1, <2>2, <2>3
<1>3. \/ Deliver \/ Consume \/ PushStats \/ NotifyRunner \/ Submitted \/ SubmitFails
      \/ RunQueue \/ WakeSpuriously \/ ExecuteLate \/ Crash \/ Tick \/ UNCHANGED vars
      => UNCHANGED <<xml, torn>>
  BY DEF Deliver, Consume, PushStats, NotifyRunner, Submitted, SubmitFails,
     RunQueue, WakeSpuriously, ExecuteLate, Crash, Tick, vars, file
<1>4. CASE UNCHANGED <<xml, torn>>
  BY <1>4 DEF Covers
<1> QED
  BY <1>1, <1>2, <1>3, <1>4 DEF Next, Receive

LEMMA CoveredStep == ASSUME Inv, Filed, Covered, [Next]_vars PROVE Covered'
<1> DEFINE Kept(c) ==
              ~torn' => \/ xml'.life > c.life
                        \/ xml'.life = c.life /\ Len(xml'.validations) >= c.n
<1>1. /\ report \in Reports /\ life \in Nat /\ pushed \in Nat /\ xml.life \in Nat
      /\ Len(xml.validations) \in Nat /\ \A i \in Places : adrift[i] \in Reports
  BY LenProperties DEF Inv, TypeOK, Q!TypeOK
<1>2. Kept(report)
  <2>1. report.life = life => report.n <= pushed
    BY DEF Inv, QP!Inv, QP!ReceiverBehind, QP!Behind
  <2> QED
    BY <1>1, <2>1, CoversStep DEF Covered
<1>3. ASSUME NEW i \in Places PROVE Kept(adrift[i])
  <2>1. adrift[i].life = life => adrift[i].n <= pushed
    BY <1>1 DEF Inv, AdriftBehind, Reports, QP!Behind
  <2> QED
    BY <1>1, <2>1, CoversStep DEF Covered
<1>4. ASSUME runnerPc = "handling" PROVE Kept(Request)
  <2>1. Request \in Reports
    BY <1>1, <1>4, ItemBehind DEF Request, Reports
  <2>2. Request.life = life /\ Request.n = item
    BY DEF Request
  <2>3. item \in 1..MaxEvents /\ item <= pushed
    BY <1>4, ItemBehind
  <2>4. Covers(Request)
    BY <1>1, <2>2, <2>3 DEF Filed, Covers
  <2> QED
    BY <2>1, <2>2, <2>3, <2>4, CoversStep
<1>5. Kept(NoReport)
  <2>1. NoReport \in Reports /\ NoReport.life # life /\ NoReport.life = 0 /\ NoReport.n = 0
    BY DEF NoReport, Reports, Inv, TypeOK
  <2>2. Covers(NoReport)
    BY <1>1, <2>1 DEF Covers
  <2> QED
    BY <2>1, <2>2, CoversStep
<1> HIDE DEF Kept
<1>6. Kept(report') /\ \A i \in Places : Kept(adrift'[i])
  BY <1>2, <1>3, <1>4, <1>5, ServerStep DEF Inv
<1> QED
  BY <1>6 DEF Kept, Covered, Covers, Places

\* The report file, when it can be read, is never behind what the back office was
\* told, in whichever life of the gate and however late.
THEOREM FileCoversReport == SafeSpec => []XmlCoversReport
<1>1. Init => Covered
  BY EmptySeq DEF Init, Covered, Covers, NoReport
<1>2. Inv /\ Filed /\ Covered /\ [Next]_vars => Covered'
  BY CoveredStep
<1>3. Covered => XmlCoversReport
  BY DEF Covered, Covers, XmlCoversReport
<1> QED
  BY <1>1, <1>2, <1>3, FiledInvariance, PTL DEF SafeSpec

\* For every size of the queue, the back office's report of a gate goes back only by
\* a call executed after it was given up: the queue does not offer older counters
\* than it did, and a new process counts as newer.
THEOREM ReportsGoForward == SafeSpec => ReportBackOnlyIfLate
<1>1. ASSUME Inv, [Next]_vars, report' # report, ~late'
      PROVE  \/ report'.life > report.life
             \/ report'.life = report.life /\ report'.n > report.n
  <2>1. report' = [life |-> life, n |-> item] /\ runnerPc = "handling"
    BY <1>1, ServerStep DEF Inv, Request
  <2>2. /\ report \in [life : 0..life, n : 0..MaxEvents] /\ life \in Nat
        /\ item \in 0..MaxEvents
    BY <1>1 DEF Inv, TypeOK, Q!TypeOK, Reports
  <2>3. report.life = life => report.n <= item
    BY <1>1, <2>1 DEF Inv, QP!Inv, QP!ReceiverBehind, QP!Behind
  <2>4. report.life = life => report.n # item
    BY <1>1, <2>1, <2>2
  <2> QED
    BY <2>1, <2>2, <2>3, <2>4
<1> QED
  BY <1>1, Invariance, PTL DEF SafeSpec, ReportBackOnlyIfLate

-------------------------------------------------------------------------------
(* The sums *)

\* How many validations of a sequence belong to a kind.
Count(vs, kind) == Cardinality({i \in DOMAIN vs : vs[i] \in kind})

Valid == {v \in Validations : v.result = "VALID"}
Invalid == {v \in Validations : v.result = "INVALID"}
Online == {v \in Validations : v.strategy = "ONLINE"}
Offline == {v \in Validations : v.strategy = "OFFLINE"}

\* The summary counts the validations.
Sums(summary, vs) ==
    /\ summary.total = Len(vs)
    /\ summary.valid = Count(vs, Valid)
    /\ summary.invalid = Count(vs, Invalid)
    /\ summary.online = Count(vs, Online)
    /\ summary.offline = Count(vs, Offline)

LEMMA CountAppend ==
    ASSUME NEW vs \in Seq(Validations), NEW v \in Validations, NEW kind
    PROVE  Count(Append(vs, v), kind) =
               IF v \in kind THEN Count(vs, kind) + 1 ELSE Count(vs, kind)
<1> DEFINE Found(us) == {i \in DOMAIN us : us[i] \in kind}
<1>1. /\ Len(vs) \in Nat /\ DOMAIN vs = 1..Len(vs)
      /\ Append(vs, v) \in Seq(Validations) /\ Len(Append(vs, v)) = Len(vs) + 1
      /\ DOMAIN Append(vs, v) = 1..(Len(vs) + 1)
      /\ \A i \in 1..Len(vs) : Append(vs, v)[i] = vs[i]
      /\ Append(vs, v)[Len(vs) + 1] = v
  BY LenProperties, AppendProperties
<1>2. IsFiniteSet(Found(vs))
  <2>1. IsFiniteSet(1..Len(vs))
    BY <1>1, FS_Interval
  <2>2. Found(vs) \subseteq 1..Len(vs)
    BY <1>1
  <2> QED
    BY <2>1, <2>2, FS_Subset
<1>3. CASE v \in kind
  <2>1. Found(Append(vs, v)) = Found(vs) \cup {Len(vs) + 1}
    BY <1>1, <1>3
  <2>2. Len(vs) + 1 \notin Found(vs)
    BY <1>1
  <2> QED
    BY <1>2, <1>3, <2>1, <2>2, FS_AddElement DEF Count
<1>4. CASE v \notin kind
  <2>1. Found(Append(vs, v)) = Found(vs)
    BY <1>1, <1>4
  <2> QED
    BY <1>4, <2>1 DEF Count
<1> QED
  BY <1>3, <1>4

LEMMA SumsAppend ==
    ASSUME stats \in [DOMAIN NoStats -> Nat], NEW vs \in Seq(Validations), Sums(stats, vs),
           NEW v \in Validations
    PROVE  Sums(Counted(v), Append(vs, v))
<1> DEFINE s == Counted(v)
<1>1. /\ s.total = stats.total + 1
      /\ s.valid = (IF v.result = "VALID" THEN stats.valid + 1 ELSE stats.valid)
      /\ s.invalid = (IF v.result = "INVALID" THEN stats.invalid + 1 ELSE stats.invalid)
      /\ s.online = (IF v.strategy = "ONLINE" THEN stats.online + 1 ELSE stats.online)
      /\ s.offline = (IF v.strategy = "OFFLINE" THEN stats.offline + 1
                                                ELSE stats.offline)
  BY CountedFields
<1> HIDE DEF s
<1>2. Len(Append(vs, v)) = Len(vs) + 1
  BY AppendProperties
<1>3. \A kind \in {Valid, Invalid, Online, Offline} :
         Count(Append(vs, v), kind) =
             IF v \in kind THEN Count(vs, kind) + 1 ELSE Count(vs, kind)
  BY CountAppend, Zenon
<1>4. /\ v \in Valid <=> v.result = "VALID"
      /\ v \in Invalid <=> v.result = "INVALID"
      /\ v \in Online <=> v.strategy = "ONLINE"
      /\ v \in Offline <=> v.strategy = "OFFLINE"
  BY DEF Valid, Invalid, Online, Offline
<1>5. Sums(s, Append(vs, v))
  BY <1>1, <1>2, <1>3, <1>4 DEF Sums
<1> QED
  BY <1>5 DEF s

LEMMA SumsOfNone == Sums(NoStats, <<>>)
<1>1. \A kind : Count(<<>>, kind) = 0
  <2> SUFFICES ASSUME NEW kind PROVE Count(<<>>, kind) = 0
    OBVIOUS
  <2>1. {i \in DOMAIN <<>> : <<>>[i] \in kind} = {}
    BY EmptySeq
  <2> QED
    BY <2>1, FS_EmptySet DEF Count
<1> QED
  BY <1>1, EmptySeq DEF Sums, NoStats

\* XmlAddsUp compares the summary as a record, and counts what passes a test.
LEMMA SumsIsAddsUp ==
    ASSUME NEW summary \in [DOMAIN NoStats -> Nat], NEW vs \in Seq(Validations),
           Sums(summary, vs)
    PROVE  summary =
        [total   |-> Len(vs),
         valid   |-> Tally(vs, LAMBDA v : v.result = "VALID"),
         invalid |-> Tally(vs, LAMBDA v : v.result = "INVALID"),
         online  |-> Tally(vs, LAMBDA v : v.strategy = "ONLINE"),
         offline |-> Tally(vs, LAMBDA v : v.strategy = "OFFLINE")]
<1>1. \A i \in DOMAIN vs : vs[i] \in Validations
  BY ElementOfSeq, LenProperties
<1>2. /\ Count(vs, Valid) = Tally(vs, LAMBDA v : v.result = "VALID")
      /\ Count(vs, Invalid) = Tally(vs, LAMBDA v : v.result = "INVALID")
      /\ Count(vs, Online) = Tally(vs, LAMBDA v : v.strategy = "ONLINE")
      /\ Count(vs, Offline) = Tally(vs, LAMBDA v : v.strategy = "OFFLINE")
  <2>1. /\ {i \in DOMAIN vs : vs[i] \in Valid} = {i \in DOMAIN vs : vs[i].result = "VALID"}
        /\ {i \in DOMAIN vs : vs[i] \in Invalid} = {i \in DOMAIN vs : vs[i].result = "INVALID"}
        /\ {i \in DOMAIN vs : vs[i] \in Online} = {i \in DOMAIN vs : vs[i].strategy = "ONLINE"}
        /\ {i \in DOMAIN vs : vs[i] \in Offline} = {i \in DOMAIN vs : vs[i].strategy = "OFFLINE"}
    BY <1>1 DEF Valid, Invalid, Online, Offline
  <2> QED
    BY <2>1, Zenon DEF Count, Tally
<1>3. summary = [total |-> summary.total, valid |-> summary.valid,
                 invalid |-> summary.invalid, online |-> summary.online,
                 offline |-> summary.offline]
  <2>1. summary \in [StatFields -> Nat]
    BY DomainOfStats
  <2> QED
    BY <2>1 DEF StatFields
<1> QED
  BY <1>2, <1>3, Zenon DEF Sums

\* m_stats counts m_last_validations, and so does the file while it is whole.
Summed ==
    /\ Sums(stats, last)
    /\ ~torn => Sums(xml.summary, xml.validations)

LEMMA SummedStep == ASSUME Inv, Summed, [Next]_vars PROVE Summed'
<1>1. CASE RefuseMalformed \/ ValidateOnline \/ ValidateOffline
  <2>1. PICK strategy \in {"ONLINE", "OFFLINE"}, result \in {"VALID", "INVALID"} :
           Record(strategy, result)
    BY <1>1, Recorded
  <2>2. Validation(strategy, result) \in Validations
    BY DEF Validation, Validations, Inv, TypeOK
  <2>3. /\ stats' = Counted(Validation(strategy, result))
        /\ last' = Append(last, Validation(strategy, result))
        /\ torn' = TRUE
    BY <2>1, RecordStep
  <2>4. Sums(stats', last')
    BY <2>2, <2>3, SumsAppend DEF Inv, TypeOK, Summed
  <2> QED
    BY <2>3, <2>4 DEF Summed
<1>2. CASE WriteXml
  <2>1. xml'.summary = stats /\ xml'.validations = last /\ UNCHANGED <<stats, last>>
    BY <1>2 DEF WriteXml
  <2> QED
    BY <2>1, Zenon DEF Summed
<1>3. CASE Crash
  BY <1>3, SumsOfNone DEF Crash, file, Summed
<1>4. \/ Deliver \/ Consume \/ PushStats \/ NotifyRunner \/ Submitted \/ SubmitFails
      \/ RunQueue \/ WakeSpuriously \/ ExecuteLate \/ Tick \/ UNCHANGED vars
      => UNCHANGED <<stats, last, xml, torn>>
  BY DEF Deliver, Consume, PushStats, NotifyRunner, Submitted, SubmitFails,
     RunQueue, WakeSpuriously, ExecuteLate, Tick, vars, processor, file
<1>5. CASE UNCHANGED <<stats, last, xml, torn>>
  BY <1>5 DEF Summed
<1> QED
  BY <1>1, <1>2, <1>3, <1>4, <1>5 DEF Next, Receive

\* The report file, whenever it can be read, has a summary that counts the very
\* validations it lists, however many they are and wherever the gate is killed.
THEOREM ReportAddsUp == SafeSpec => []XmlAddsUp
<1>1. Init => Summed
  <2> SUFFICES ASSUME Init PROVE Summed
    OBVIOUS
  <2>1. /\ stats = NoStats /\ last = <<>>
        /\ xml.summary = NoStats /\ xml.validations = <<>>
    BY DEF Init
  <2> QED
    BY <2>1, SumsOfNone, Zenon DEF Summed
<1>2. Inv /\ Summed /\ [Next]_vars => Summed'
  BY SummedStep
<1>3. Inv /\ Summed => XmlAddsUp
  <2> SUFFICES ASSUME Inv, Summed, ~torn PROVE XmlAddsUp
    BY DEF XmlAddsUp
  <2>1. xml.summary \in [DOMAIN NoStats -> Nat] /\ xml.validations \in Seq(Validations)
    BY DEF Inv, TypeOK
  <2>2. Sums(xml.summary, xml.validations)
    BY DEF Summed
  <2> QED
    BY <2>1, <2>2, SumsIsAddsUp, Zenon DEF XmlAddsUp
<1> QED
  BY <1>1, <1>2, <1>3, Invariance, PTL DEF SafeSpec

-------------------------------------------------------------------------------
(* Refusals *)

\* No ticket shown has so many days that their product with the length of a day
\* overflows an int.  In the code, those of up to 24855 days, 68 years, do not.
PayloadsFit == \A p \in Payloads : Parses(p) => Fits(ToInt(p.validity_in_days))

\* A validation that is no refusal of the gate's own, or one of an expired ticket.
Right(v, at) ==
    Parses(v.payload) /\ v.strategy = "OFFLINE" /\ v.result = "INVALID" =>
        Expired(at, v.payload.creation_date, Parsed(v.payload).validity_in_days)

LEMMA ParsedFields ==
    ASSUME NEW p \in Payloads, Parses(p)
    PROVE  /\ p.creation_date \in Int
           /\ Parsed(p).creation_date = p.creation_date
           /\ Parsed(p).validity_in_days = ToInt(p.validity_in_days)
           /\ Parsed(p).validity_in_days \in Ints
<1>1. p \in [creation_date : Int, validity_in_days : Int]
  BY DEF Parses
<1>2. ToInt(p.validity_in_days) \in Ints
  BY <1>1, ToIntIsInt
<1> DEFINE days == ToInt(p.validity_in_days)
<1>3. Parsed(p) = [p EXCEPT !.validity_in_days = days]
  BY DEF Parsed
<1> HIDE DEF days
<1>4. Parsed(p).creation_date = p.creation_date /\ Parsed(p).validity_in_days = days
  BY <1>1, <1>3
<1> QED
  BY <1>1, <1>2, <1>4 DEF days

LEMMA RecordedIsRight ==
    ASSUME PayloadsFit, Inv, RefuseMalformed \/ ValidateOnline \/ ValidateOffline
    PROVE  \E v \in Validations : last' = Append(last, v) /\ Right(v, now)
<1>1. \A strategy \in {"ONLINE", "OFFLINE"}, result \in {"VALID", "INVALID"} :
         Validation(strategy, result) \in Validations
  BY DEF Validation, Validations, Inv, TypeOK
<1>2. \A strategy, result :
         /\ Validation(strategy, result).payload = current
         /\ Validation(strategy, result).strategy = strategy
         /\ Validation(strategy, result).result = result
  BY DEF Validation
<1>3. CASE RefuseMalformed
  <2>1. ~Parses(current) /\ Record("OFFLINE", "INVALID")
    BY <1>3 DEF RefuseMalformed
  <2>2. Right(Validation("OFFLINE", "INVALID"), now)
    BY <1>2, <2>1 DEF Right
  <2> QED
    BY <1>1, <2>1, <2>2, RecordStep
<1>4. CASE ValidateOnline
  <2>1. PICK result \in {"VALID", "INVALID"} : Record("ONLINE", result)
    BY <1>4 DEF ValidateOnline
  <2>2. Right(Validation("ONLINE", result), now)
    BY <1>2 DEF Right
  <2> QED
    BY <1>1, <2>1, <2>2, RecordStep
<1>5. CASE ValidateOffline
  <2> DEFINE t == Parsed(current)
  <2>1. PICK expired \in ExpiredOutcomes(now, t.creation_date, t.validity_in_days) :
           Record("OFFLINE", IF expired THEN "INVALID" ELSE "VALID")
    BY <1>5 DEF ValidateOffline
  <2>2. Parses(current) /\ current \in Payloads /\ now \in Int
    BY <1>5 DEF ValidateOffline, Inv, TypeOK
  <2>3. expired = Expired(now, current.creation_date, t.validity_in_days)
    <3>1. /\ t.creation_date = current.creation_date /\ current.creation_date \in Int
          /\ t.validity_in_days \in Ints /\ Fits(t.validity_in_days)
      BY <2>2, ParsedFields DEF PayloadsFit
    <3> HIDE DEF t
    <3>2. ExpiredOutcomes(now, current.creation_date, t.validity_in_days)
              = {Expired(now, current.creation_date, t.validity_in_days)}
      BY <2>2, <3>1, ExactIfItFits
    <3> QED
      BY <2>1, <3>1, <3>2
  <2> DEFINE v == Validation("OFFLINE", IF expired THEN "INVALID" ELSE "VALID")
  <2>4. v \in Validations
    BY <1>1
  <2>5. last' = Append(last, v)
    BY <2>1, RecordStep
  <2>6. v.payload = current /\ v.result = (IF expired THEN "INVALID" ELSE "VALID")
    BY <1>2
  <2> HIDE DEF v
  <2>7. Right(v, now)
    BY <2>3, <2>6 DEF Right
  <2> QED
    BY <2>4, <2>5, <2>7
<1> QED
  BY <1>3, <1>4, <1>5

LEMMA RightStays ==
    ASSUME NEW v \in Validations, Inv, Right(v, now), now' \in Int, now <= now'
    PROVE  Right(v, now')
<1> SUFFICES ASSUME Parses(v.payload), v.strategy = "OFFLINE", v.result = "INVALID"
             PROVE  Expired(now', v.payload.creation_date,
                            Parsed(v.payload).validity_in_days)
  BY DEF Right
<1>1. v.payload \in Payloads /\ now \in Int
  BY DEF Validations, Inv, TypeOK
<1>2. /\ v.payload.creation_date \in Int
      /\ Parsed(v.payload).validity_in_days \in Int
  BY <1>1, ParsedFields, IntsAreInt
<1>3. Expired(now, v.payload.creation_date, Parsed(v.payload).validity_in_days)
  BY DEF Right
<1> QED
  BY <1>1, <1>2, <1>3, ExpiredStays

LEMMA RefusalStep ==
    ASSUME PayloadsFit, Inv, OfflineRefusalIsRight, [Next]_vars
    PROVE  OfflineRefusalIsRight'
<1>1. OfflineRefusalIsRight <=> \A i \in DOMAIN last : Right(last[i], now)
  BY DEF OfflineRefusalIsRight, Right
<1>2. OfflineRefusalIsRight' <=> \A i \in DOMAIN last' : Right(last'[i], now')
  BY DEF OfflineRefusalIsRight, Right
<1>3. /\ last \in Seq(Validations) /\ Len(last) \in Nat /\ DOMAIN last = 1..Len(last)
      /\ \A i \in DOMAIN last : last[i] \in Validations
  BY LenProperties, ElementOfSeq DEF Inv, TypeOK
<1>4. CASE RefuseMalformed \/ ValidateOnline \/ ValidateOffline
  <2>1. PICK v \in Validations : last' = Append(last, v) /\ Right(v, now)
    BY <1>4, RecordedIsRight
  <2>2. now' = now
    BY <1>4, Recorded
  <2>3. /\ DOMAIN last' = 1..(Len(last) + 1)
        /\ \A i \in 1..Len(last) : last'[i] = last[i]
        /\ last'[Len(last) + 1] = v
    BY <1>3, <2>1, AppendProperties, LenProperties
  <2>4. ASSUME NEW i \in DOMAIN last' PROVE Right(last'[i], now)
    <3>1. CASE i = Len(last) + 1
      BY <2>1, <2>3, <3>1
    <3>2. CASE i # Len(last) + 1
      <4>1. i \in DOMAIN last /\ last'[i] = last[i]
        BY <1>3, <2>3, <3>2
      <4> QED
        BY <1>1, <4>1
    <3> QED
      BY <3>1, <3>2
  <2> QED
    BY <1>2, <2>2, <2>4
<1>5. CASE Crash
  <2>1. last' = <<>>
    BY <1>5 DEF Crash
  <2> QED
    BY <2>1, EmptySeq DEF OfflineRefusalIsRight
<1>6. CASE Tick
  <2>1. last' = last /\ now' \in Int /\ now <= now'
    BY <1>6 DEF Tick, processor, Inv, TypeOK
  <2> QED
    BY <1>1, <1>2, <1>3, <2>1, RightStays
<1>7. \/ Deliver \/ Consume \/ WriteXml \/ PushStats \/ NotifyRunner \/ Submitted
      \/ SubmitFails \/ RunQueue \/ WakeSpuriously \/ ExecuteLate \/ UNCHANGED vars
      => UNCHANGED <<last, now>>
  BY DEF Deliver, Consume, WriteXml, PushStats, NotifyRunner, Submitted,
     SubmitFails, RunQueue, WakeSpuriously, ExecuteLate, vars, processor
<1>8. CASE UNCHANGED <<last, now>>
  BY <1>8 DEF OfflineRefusalIsRight
<1> QED
  BY <1>4, <1>5, <1>6, <1>7, <1>8 DEF Next, Receive

\* If no product overflows, a ticket the gate refused on its own had expired in
\* exact arithmetic, by the days it was parsed to.
THEOREM RefusalsAreRight ==
    ASSUME PayloadsFit PROVE SafeSpec => []OfflineRefusalIsRight
<1>1. Init => OfflineRefusalIsRight
  BY EmptySeq DEF Init, OfflineRefusalIsRight
<1>2. Inv /\ OfflineRefusalIsRight /\ [Next]_vars => OfflineRefusalIsRight'
  BY RefusalStep
<1> QED
  BY <1>1, <1>2, Invariance, PTL DEF SafeSpec
===============================================================================
