--------------------------- MODULE BackOfficeProofs ---------------------------
(***************************************************************************)
(* Safety of BackOffice for every set of workers, every clock and every    *)
(* number of sales, faults and kills.                                      *)
(***************************************************************************)
EXTENDS BackOffice, TicketExpiryProofs, SequenceTheorems, FiniteSetTheorems,
        TLAPS

USE WorkersAssumption, DatesAssumption, BoundsAssumption, FaultsAssumption,
    SecondsPerDayAssumption, IntValuesAssumption

-------------------------------------------------------------------------------
(* The file and the mutex *)

\* The owner of the mutex is the worker between the two halves of persist(), and
\* the file is torn, and without content, for as long.
Locked ==
    /\ \A w \in Workers : pc[w] = "write" <=> m_mtx = w
    /\ m_mtx # NoWorker => torn
    /\ torn => file = <<>>

\* What a worker noticed when its request came is still so: acknowledgements and
\* refusals are never taken back, and the clock runs forward.
SeenIsPast ==
    \A w \in Workers :
        /\ seen[w].at <= now
        /\ seen[w].acked \subseteq acked
        /\ seen[w].told \subseteq told

Inv == TypeOK /\ Locked /\ SeenIsPast

LEMMA UnknownIsTicket == UnknownTicket \in Tickets
  BY HalfOfInts DEF UnknownTicket, Tickets, Ints

LEMMA NumberedIsTicket ==
    ASSUME NEW t \in Tickets, NEW id \in Nat
    PROVE  [t EXCEPT !.ticket_id = id] \in Tickets
  BY DEF Tickets

LEMMA InitInv == Init => Inv
<1> SUFFICES ASSUME Init PROVE Inv
  OBVIOUS
<1>1. TypeOK
  <2>1. <<>> \in Seq(Tickets)
    BY EmptySeq
  <2> QED
    BY <2>1, UnknownIsTicket DEF Init, TypeOK, Labels, NothingSeen
<1>2. Locked /\ SeenIsPast
  BY DEF Init, Locked, SeenIsPast, NothingSeen
<1> QED
  BY <1>1, <1>2 DEF Inv

\* A finite set of integers has a greatest element: among its parts without
\* one, a smallest part would have one after all.
LEMMA MaxOfFinite ==
    ASSUME NEW S \in SUBSET Int, IsFiniteSet(S), S # {}
    PROVE  Max(S) \in S /\ \A x \in S : Max(S) >= x
<1> DEFINE HasMax(T) == \E m \in T : \A x \in T : m >= x
           Bad == {T \in SUBSET S : T # {} /\ ~HasMax(T)}
<1>1. Bad = {}
  <2> SUFFICES ASSUME Bad # {} PROVE FALSE
    OBVIOUS
  <2>1. FiniteSubsetsOf(S) = SUBSET S
    BY FS_FiniteSubsetsOfFinite
  <2>2. IsWellFoundedOn(StrictSubsetOrdering(S), FiniteSubsetsOf(S))
    BY FS_StrictSubsetOrderingWellFounded
  <2>3. PICK T \in Bad : \A U \in Bad : <<U, T>> \notin StrictSubsetOrdering(S)
    <3>1. Bad \subseteq FiniteSubsetsOf(S)
      BY <2>1
    <3> HIDE DEF Bad
    <3> QED
      BY <3>1, <2>2, WFMin, Zenon
  <2>4. PICK e \in T : TRUE
    OBVIOUS
  <2> DEFINE U == T \ {e}
  <2>5. <<U, T>> \in StrictSubsetOrdering(S)
    BY <2>3, <2>4 DEF StrictSubsetOrdering
  <2>6. U = {} \/ HasMax(U)
    BY <2>3, <2>5
  <2>7. CASE U = {}
    <3>1. e >= e /\ T = {e}
      BY <2>3, <2>4, <2>7
    <3> QED
      BY <3>1, <2>3
  <2>8. CASE HasMax(U)
    <3>1. PICK m \in U : \A x \in U : m >= x
      BY <2>8
    <3>2. m \in T /\ m \in Int /\ e \in Int
      BY <2>3, <2>4, <3>1
    <3>3. CASE m >= e
      <4>1. \A x \in T : m >= x
        BY <3>1, <3>3
      <4> QED
        BY <4>1, <3>2, <2>3
    <3>4. CASE e >= m
      <4>1. \A x \in T : x = e \/ (m >= x /\ x \in Int)
        BY <3>1, <2>3
      <4>2. \A x \in T : e >= x
        BY <4>1, <3>2, <3>4
      <4> QED
        BY <4>2, <2>3
    <3> QED
      BY <3>2, <3>3, <3>4
  <2> QED
    BY <2>6, <2>7, <2>8
<1>2. HasMax(S)
  BY <1>1
<1> QED
  BY <1>2, Zenon DEF Max

\* The tickets of a file are finitely many.
LEMMA RangeIsFinite ==
    ASSUME NEW T, NEW s \in Seq(T) PROVE IsFiniteSet(Range(s))
<1>1. Len(s) \in Nat /\ DOMAIN s = 1..Len(s)
  BY LenProperties
<1>2. IsFiniteSet(1..Len(s))
  BY <1>1, FS_Interval
<1>3. s \in Surjection(1..Len(s), Range(s))
  BY <1>1, LenProperties DEF Surjection, Range
<1> QED
  BY <1>2, <1>3, FS_Surjection, Zenon

\* The id of a new ticket is above those on file.
LEMMA NextIdAbove ==
    ASSUME NEW tickets \in Seq(Tickets)
    PROVE  /\ Max({0} \cup Ids(tickets)) \in Nat
           /\ \A t \in Range(tickets) : t.ticket_id < Max({0} \cup Ids(tickets)) + 1
<1> DEFINE S == {0} \cup Ids(tickets)
<1>1. Range(tickets) \subseteq Tickets
  BY RangeOfSeq
<1>2. S \subseteq Nat
  BY <1>1 DEF Ids, Tickets
<1>3. IsFiniteSet(S)
  <2>1. IsFiniteSet(Ids(tickets))
    <3>1. IsFiniteSet(Range(tickets))
      BY RangeIsFinite
    <3> DEFINE f == [t \in Range(tickets) |-> t.ticket_id]
    <3>2. f \in Surjection(Range(tickets), Ids(tickets))
      BY DEF Surjection, Ids
    <3> QED
      BY <3>1, <3>2, FS_Surjection, Zenon
  <2>2. IsFiniteSet(Ids(tickets) \cup {0})
    BY <2>1, FS_AddElement, Zenon
  <2>3. S = Ids(tickets) \cup {0}
    OBVIOUS
  <2> QED
    BY <2>2, <2>3, Zenon
<1>4. Max(S) \in S /\ \A x \in S : Max(S) >= x
  <2>1. S \in SUBSET Int /\ S # {}
    BY <1>2
  <2> HIDE DEF S
  <2> QED
    BY <1>3, <2>1, MaxOfFinite, Zenon
<1>5. \A t \in Range(tickets) : t.ticket_id \in S
  BY DEF Ids
<1> HIDE DEF S
<1>6. PICK m \in Nat : m = Max(S)
  BY <1>2, <1>4
<1>7. \A x \in S : m >= x /\ x \in Nat
  BY <1>2, <1>4, <1>6
<1>8. \A x \in S : x < m + 1
  BY <1>7
<1> QED
  BY <1>5, <1>6, <1>8 DEF S

Statuses == {Created, OK, BadRequest, NotFound, Gone, ServerError}

\* What a request does to where the workers are and what they will answer.
Routed(w) ==
    /\ \E label \in Labels \ {"write"} : pc' = [pc EXCEPT ![w] = label]
    /\ reply' = reply \/ \E s \in Statuses : reply' = [reply EXCEPT ![w] = s]
    /\ creates' \in Nat

LEMMA ReceiveInv ==
    ASSUME Inv, NEW w \in Workers, NEW t \in Tickets, Receive(w, t), Routed(w)
    PROVE  Inv'
<1> USE DEF Routed, Statuses, Labels
<1>1. TypeOK'
  BY DEF Inv, TypeOK, Receive, office
<1>2. Locked'
  BY DEF Inv, TypeOK, Locked, Receive, office
<1>3. SeenIsPast'
  BY DEF Inv, TypeOK, SeenIsPast, Receive, office
<1> QED
  BY <1>1, <1>2, <1>3 DEF Inv

\* These methods leave the file, and the mutex, as they found them, thrown out of
\* or not.
LEMMA LooksOnly ==
    ASSUME NEW w \in Workers, GetLastTicketId(w) \/ SaveThrows(w) \/ Validate(w)
    PROVE  UNCHANGED office
<1>1. m_mtx = NoWorker /\ UNCHANGED <<file, torn, data>>
  BY DEF GetLastTicketId, SaveThrows, Validate
<1>2. Throw(w) \/ UNCHANGED m_mtx
  BY DEF GetLastTicketId, SaveThrows, Validate
<1> QED
  BY <1>1, <1>2 DEF Throw, office

LEMMA NextInv == Inv /\ [Next]_vars => Inv'
<1> SUFFICES ASSUME Inv, [Next]_vars PROVE Inv'
  OBVIOUS
<1> USE DEF Inv, Answer, GoTo, Labels
<1>1. ASSUME NEW w \in Workers, ReceiveMalformed(w) PROVE Inv'
  <2>1. Receive(w, UnknownTicket) /\ Routed(w)
    BY <1>1 DEF ReceiveMalformed, Routed, Statuses, TypeOK
  <2> QED
    BY <2>1, UnknownIsTicket, ReceiveInv, Zenon
<1>2. ASSUME NEW w \in Workers, ReceiveCreate(w) PROVE Inv'
  <2>1. PICK date \in Dates, number \in Validities : ReceiveCreateOf(w, date, number)
    BY <1>2 DEF ReceiveCreate
  <2> DEFINE t == [ticket_id |-> 0, creation_date |-> date,
                   validity_in_days |-> ToInt(number)]
  <2>2. t \in Tickets
    BY ToIntIsInt DEF Tickets
  <2>3. Receive(w, t)
    BY <2>1, Zenon DEF ReceiveCreateOf
  <2>4. Routed(w)
    <3>1. \/ Answer(w, BadRequest) /\ UNCHANGED creates
          \/ creates' = creates + 1 /\ GoTo(w, "lastId")
      BY <2>1, Zenon DEF ReceiveCreateOf
    <3> QED
      BY <3>1 DEF Routed, Statuses, TypeOK
  <2> QED
    BY <2>2, <2>3, <2>4, ReceiveInv, Zenon
<1>3. ASSUME NEW w \in Workers, ReceiveValidate(w) PROVE Inv'
  <2>1. PICK t \in acked \cup {UnknownTicket} : ReceiveValidateOf(w, t)
    BY <1>3 DEF ReceiveValidate
  <2>2. t \in Tickets
    BY UnknownIsTicket DEF TypeOK
  <2>3. Receive(w, t) /\ Routed(w)
    BY <2>1 DEF ReceiveValidateOf, Routed, Statuses, TypeOK
  <2> QED
    BY <2>2, <2>3, ReceiveInv, Zenon
<1>4. ASSUME NEW w \in Workers, GetLastTicketId(w) PROVE Inv'
  <2> DEFINE id == Max({0} \cup Ids(file)) + 1
  <2>1. TypeOK'
    <3>1. id \in Nat
      <4>1. file \in Seq(Tickets)
        BY DEF TypeOK
      <4>2. Max({0} \cup Ids(file)) \in Nat
        BY <4>1, NextIdAbove, Zenon
      <4> QED
        BY <4>2
    <3>2. ticket' = ticket \/ ticket' = [ticket EXCEPT ![w].ticket_id = id]
      BY <1>4, Zenon DEF GetLastTicketId
    <3> HIDE DEF id
    <3>3. ticket' \in [Workers -> Tickets]
      <4>1. [ticket[w] EXCEPT !.ticket_id = id] \in Tickets
        BY <3>1, NumberedIsTicket, Zenon DEF TypeOK
      <4>2. \/ ticket' = ticket
            \/ ticket' = [ticket EXCEPT ![w] = [ticket[w] EXCEPT !.ticket_id = id]]
        BY <3>2
      <4> QED
        BY <4>1, <4>2 DEF TypeOK
    <3> QED
      BY <1>4, <3>3, LooksOnly DEF GetLastTicketId, Throw, TypeOK, office, bounds
  <2>2. Locked' /\ SeenIsPast'
    <3>1. \/ pc' = [pc EXCEPT ![w] = "reply"]
          \/ pc' = [pc EXCEPT ![w] = "save"]
      BY <1>4 DEF GetLastTicketId, Throw, Answer, GoTo
    <3>2. /\ pc[w] = "lastId" /\ UNCHANGED office
          /\ UNCHANGED <<now, acked, told, seen>>
      BY <1>4, LooksOnly DEF GetLastTicketId
    <3> QED
      BY <3>1, <3>2 DEF TypeOK, Locked, SeenIsPast, office
  <2> QED
    BY <2>1, <2>2
<1>5. ASSUME NEW w \in Workers, SaveTruncate(w) PROVE Inv'
  <2>1. Append(file, ticket[w]) \in Seq(Tickets) /\ <<>> \in Seq(Tickets)
    BY AppendProperties, EmptySeq DEF TypeOK
  <2>2. TypeOK'
    BY <1>5, <2>1 DEF SaveTruncate, TypeOK, office, bounds
  <2>3. Locked' /\ SeenIsPast'
    BY <1>5 DEF SaveTruncate, TypeOK, Locked, SeenIsPast, office, bounds
  <2> QED
    BY <2>2, <2>3
<1>6. ASSUME NEW w \in Workers, SaveThrows(w) PROVE Inv'
  BY <1>6 DEF SaveThrows, Throw, TypeOK, Locked, SeenIsPast, office, bounds
<1>7. ASSUME NEW w \in Workers, SaveWrite(w) PROVE Inv'
  <2>1. data[w] \in Seq(Tickets) /\ <<>> \in Seq(Tickets)
    BY EmptySeq DEF TypeOK
  <2> QED
    BY <1>7, <2>1 DEF SaveWrite, TypeOK, Locked, SeenIsPast, office, bounds
<1>8. ASSUME NEW w \in Workers, OpenFault(w) PROVE Inv'
  BY <1>8 DEF OpenFault, TypeOK, Locked, SeenIsPast, office, bounds
<1>9. ASSUME NEW w \in Workers, WriteFault(w) PROVE Inv'
  <2>1. <<>> \in Seq(Tickets)
    BY EmptySeq
  <2> QED
    BY <1>9, <2>1 DEF WriteFault, TypeOK, Locked, SeenIsPast, office, bounds
<1>10. ASSUME NEW w \in Workers, Validate(w) PROVE Inv'
  <2>1. /\ pc[w] = "find"
        /\ pc' = [pc EXCEPT ![w] = "reply"]
        /\ \E status \in {OK, NotFound, Gone, ServerError} :
              reply' = [reply EXCEPT ![w] = status]
        /\ UNCHANGED <<ticket, now, bounds, acked, told, seen>>
    BY <1>10 DEF Validate, Throw
  <2> QED
    BY <1>10, <2>1, LooksOnly DEF TypeOK, Locked, SeenIsPast, office, bounds
<1>11. ASSUME NEW w \in Workers, Respond(w) PROVE Inv'
  BY <1>11, UnknownIsTicket
  DEF Respond, TypeOK, Locked, SeenIsPast, office, bounds, NothingSeen
<1>12. CASE Crash
  <2>1. <<>> \in Seq(Tickets)
    BY EmptySeq
  <2> QED
    BY <1>12, <2>1, UnknownIsTicket
    DEF Crash, TypeOK, Locked, SeenIsPast, NothingSeen
<1>13. CASE Tick
  BY <1>13 DEF Tick, TypeOK, Locked, SeenIsPast, office, bounds
<1>14. CASE UNCHANGED vars
  BY <1>14 DEF vars, TypeOK, Locked, SeenIsPast, office, bounds
<1> QED
  BY <1>1, <1>2, <1>3, <1>4, <1>5, <1>6, <1>7, <1>8, <1>9, <1>10, <1>11, <1>12,
     <1>13, <1>14 DEF Next, ReceiveRequest, Handle

THEOREM Invariance == SafeSpec => []Inv
  BY InitInv, NextInv, PTL DEF SafeSpec

\* Every variable of the office keeps its type, in particular every ticket on
\* file has days that are an int and an id that is a natural number.
THEOREM TypeCorrect == SafeSpec => []TypeOK
<1>1. Inv => TypeOK
  BY DEF Inv
<1> QED
  BY <1>1, Invariance, PTL

-------------------------------------------------------------------------------
(* The log *)

LEMMA LogType == Inv => Log \in Seq(Tickets) /\ Len(Log) \in Nat
<1> SUFFICES ASSUME Inv PROVE Log \in Seq(Tickets)
  BY LenProperties
<1> QED
  BY DEF Inv, TypeOK, Log

\* No step does more to the log than append the ticket of the worker that enters
\* persist(), or make it unreadable.
LEMMA LogStep ==
    ASSUME Inv, [Next]_vars
    PROVE  \/ Log' = Log /\ Readable' = Readable
           \/ \E w \in Workers :
                 /\ SaveTruncate(w)
                 /\ Readable /\ Readable'
                 /\ Log' = Append(Log, ticket[w])
           \/ Readable /\ ~Readable' /\ Log' = <<>> /\ UNCHANGED acked
<1> USE DEF Inv, Log, Readable
<1>1. ASSUME UNCHANGED office PROVE Log' = Log /\ Readable' = Readable
  BY <1>1 DEF office
<1>2. ASSUME NEW w \in Workers, SaveTruncate(w)
      PROVE  Readable /\ Readable' /\ Log' = Append(Log, ticket[w])
  BY <1>2 DEF SaveTruncate, TypeOK
<1>3. ASSUME NEW w \in Workers, SaveWrite(w)
      PROVE  Log' = Log /\ Readable' = Readable
  BY <1>3 DEF SaveWrite, TypeOK, Locked
<1>4. ASSUME NEW w \in Workers, WriteFault(w)
      PROVE  Readable /\ ~Readable' /\ Log' = <<>> /\ UNCHANGED acked
  BY <1>4 DEF WriteFault, TypeOK, Locked
<1>5. CASE Crash
  <2>1. CASE m_mtx = NoWorker
    BY <1>5, <2>1 DEF Crash
  <2>2. CASE m_mtx # NoWorker
    BY <1>5, <2>2 DEF Crash, Locked, TypeOK
  <2> QED
    BY <2>1, <2>2
<1> HIDE DEF Log, Readable
<1>6. ASSUME NEW w \in Workers,
             \/ ReceiveRequest(w) \/ GetLastTicketId(w) \/ SaveThrows(w)
             \/ OpenFault(w) \/ Validate(w) \/ Respond(w)
      PROVE  UNCHANGED office
  BY <1>6, LooksOnly DEF ReceiveRequest, ReceiveMalformed, ReceiveCreate,
     ReceiveCreateOf, ReceiveValidate, ReceiveValidateOf, Receive, OpenFault, Respond
<1>7. Tick \/ UNCHANGED vars => UNCHANGED office
  BY DEF Tick, vars
<1> QED
  BY <1>1, <1>2, <1>3, <1>4, <1>5, <1>6, <1>7 DEF Next, Handle

\* A log that can be read still could be before, and has kept its tickets where
\* they were.
LEMMA LogGrows ==
    ASSUME Inv, [Next]_vars, Readable'
    PROVE  /\ Readable
           /\ Log \in Seq(Tickets) /\ Log' \in Seq(Tickets)
           /\ Len(Log) \in Nat /\ Len(Log') \in Nat /\ Len(Log) <= Len(Log')
           /\ \A i \in 1..Len(Log) : Log'[i] = Log[i]
           /\ Range(Log) \subseteq Range(Log')
<1>1. Inv'
  BY NextInv
<1>2. /\ Log \in Seq(Tickets) /\ Log' \in Seq(Tickets)
      /\ Len(Log) \in Nat /\ Len(Log') \in Nat
  <2>1. (Log \in Seq(Tickets) /\ Len(Log) \in Nat)'
    BY <1>1, LogType, PTL
  <2> QED
    BY <2>1, LogType
<1>3. /\ Len(Log) <= Len(Log')
      /\ \A i \in 1..Len(Log) : Log'[i] = Log[i]
  <2>1. CASE Log' = Log
    BY <1>2, <2>1
  <2>2. ASSUME NEW w \in Workers, Log' = Append(Log, ticket[w])
        PROVE  <1>3
    <3>1. ticket[w] \in Tickets
      BY DEF Inv, TypeOK
    <3> QED
      BY <1>2, <2>2, <3>1, AppendProperties
  <2> QED
    BY <2>1, <2>2, LogStep
<1>4. Range(Log) \subseteq Range(Log')
  BY <1>2, <1>3, LenProperties DEF Range
<1>5. Readable
  BY LogStep, Zenon
<1> QED
  BY <1>2, <1>3, <1>4, <1>5

-------------------------------------------------------------------------------
(* Acknowledged tickets *)

\* What the sellers were told, and are about to be told, is on file.
Promised ==
    acked \cup {ticket[w] : w \in {v \in Workers : pc[v] = "reply" /\ reply[v] = Created}}

Missing == Promised \ Range(Log)

\* The document in save() ends with the ticket to be acknowledged.
Written == \A w \in Workers : pc[w] = "write" => ticket[w] \in Range(data[w])

\* Saves that failed silently pay for what is missing.
MissingPaidFor ==
    Readable => IsFiniteSet(Missing) /\ Cardinality(Missing) <= faults

\* If every fopen for writing succeeds, nothing is.
NothingMissing == "open" \notin Faults /\ Readable => Missing = {}

\* A worker's steps do not touch the others.
LEMMA Frame ==
    ASSUME Inv, NEW w \in Workers, ReceiveRequest(w) \/ Handle(w)
    PROVE  \A v \in Workers \ {w} :
              UNCHANGED <<pc[v], ticket[v], reply[v], seen[v], data[v]>>
<1>1. CASE ReceiveRequest(w)
  BY <1>1 DEF Inv, TypeOK, ReceiveRequest, ReceiveMalformed, ReceiveCreate, ReceiveCreateOf,
     ReceiveValidate, ReceiveValidateOf, Receive, Answer, GoTo, office
<1>2. CASE Handle(w)
  BY <1>2 DEF Inv, TypeOK, Handle, GetLastTicketId, SaveTruncate, SaveThrows, Throw, SaveWrite,
     OpenFault, WriteFault, Validate, Respond, Answer, GoTo, office
<1> QED
  BY <1>1, <1>2

\* What a worker knows when it has taken a request.
LEMMA Received ==
    ASSUME Inv, NEW w \in Workers, ReceiveRequest(w)
    PROVE  /\ pc[w] = "idle"
           /\ \/ pc'[w] = "reply" /\ reply'[w] \in {BadRequest, ServerError}
              \/ pc'[w] \in {"lastId", "find"}
           /\ seen'[w] = [at |-> now, acked |-> acked, told |-> told]
           /\ UNCHANGED <<office, now, faults, acked, told>>
  BY DEF Inv, TypeOK, ReceiveRequest, ReceiveMalformed, ReceiveCreate, ReceiveCreateOf,
     ReceiveValidate, ReceiveValidateOf, Receive, Answer, GoTo

\* A step that leaves the log readable adds to the missing tickets at most the
\* one of a failed fopen.
LEMMA MissingStep ==
    ASSUME Inv, Written, [Next]_vars, Readable'
    PROVE  \/ Missing' \subseteq Missing /\ faults' >= faults
           \/ /\ "open" \in Faults /\ faults' = faults + 1
              /\ \E t : Missing' \subseteq Missing \cup {t}
<1>0. Readable /\ Range(Log) \subseteq Range(Log')
  BY LogGrows
<1>1. SUFFICES \/ Promised' \subseteq Promised \cup Range(Log') /\ faults' >= faults
               \/ /\ "open" \in Faults /\ faults' = faults + 1
                  /\ \E t : Promised' \subseteq Promised \cup {t}
  BY <1>0 DEF Missing
<1>2. ASSUME NEW w \in Workers, ReceiveRequest(w) \/ Handle(w)
      PROVE  Promised' \subseteq Promised \cup (acked' \ acked)
                                       \cup IF pc'[w] = "reply" /\ reply'[w] = Created
                                            THEN {ticket'[w]} ELSE {}
  BY <1>2, Frame DEF Promised
<1>3. ASSUME NEW w \in Workers, ReceiveRequest(w)
      PROVE  Promised' \subseteq Promised /\ faults' = faults
  <2>1. UNCHANGED <<acked, faults>> /\ ~(pc'[w] = "reply" /\ reply'[w] = Created)
    BY <1>3, Received DEF BadRequest, ServerError, Created
  <2> QED
    BY <1>2, <1>3, <2>1
<1>4. ASSUME NEW w \in Workers,
             \/ GetLastTicketId(w) \/ SaveTruncate(w) \/ SaveThrows(w) \/ Validate(w)
      PROVE  Promised' \subseteq Promised /\ faults' = faults
  <2>1. UNCHANGED <<acked, faults>>
    BY <1>4 DEF GetLastTicketId, SaveTruncate, SaveThrows, Throw, Validate, bounds
  <2>2. pc'[w] = "reply" => reply'[w] \in {NotFound, OK, Gone, ServerError}
    BY <1>4 DEF GetLastTicketId, SaveTruncate, SaveThrows, Throw, Validate, Answer, GoTo,
       Inv, TypeOK
  <2>3. ~(pc'[w] = "reply" /\ reply'[w] = Created)
    BY <2>2 DEF NotFound, OK, Gone, ServerError, Created
  <2> QED
    BY <1>2, <1>4, <2>1, <2>3 DEF Handle
<1>5. ASSUME NEW w \in Workers, SaveWrite(w)
      PROVE  Promised' \subseteq Promised \cup Range(Log') /\ faults' = faults
  <2>1. UNCHANGED <<acked, faults>> /\ ticket'[w] = ticket[w]
    BY <1>5 DEF SaveWrite, bounds
  <2>2. ticket[w] \in Range(Log')
    BY <1>5 DEF SaveWrite, Written, Log
  <2> QED
    BY <1>2, <1>5, <2>1, <2>2 DEF Handle
<1>6. ASSUME NEW w \in Workers, OpenFault(w)
      PROVE  /\ "open" \in Faults /\ faults' = faults + 1
             /\ Promised' \subseteq Promised \cup {ticket'[w]}
  <2>1. /\ "open" \in Faults /\ faults' = faults + 1
        /\ UNCHANGED acked
    BY <1>6 DEF OpenFault
  <2> QED
    BY <1>2, <1>6, <2>1 DEF Handle
<1>7. ASSUME NEW w \in Workers, WriteFault(w) PROVE FALSE
  BY <1>7 DEF WriteFault, Readable, Locked, Inv, TypeOK
<1>8. ASSUME NEW w \in Workers, Respond(w)
      PROVE  Promised' \subseteq Promised /\ faults' = faults
  <2>1. /\ pc[w] = "reply" /\ pc'[w] = "idle" /\ UNCHANGED faults
        /\ acked' = IF reply[w] = Created THEN acked \cup {ticket[w]} ELSE acked
    BY <1>8 DEF Respond, bounds, Inv, TypeOK
  <2>2. acked' \ acked \subseteq Promised
    BY <2>1 DEF Promised
  <2> QED
    BY <1>2, <1>8, <2>1, <2>2 DEF Handle
<1>9. Crash => Promised' \subseteq Promised /\ faults' = faults
  <2> HAVE Crash
  <2>1. (\A v \in Workers : pc'[v] = "idle") /\ UNCHANGED <<acked, faults>>
    BY DEF Crash
  <2> QED
    BY <2>1 DEF Promised
<1>10. Tick \/ UNCHANGED vars => Promised' \subseteq Promised /\ faults' = faults
  <2> HAVE Tick \/ UNCHANGED vars
  <2>1. UNCHANGED <<pc, ticket, reply, acked, faults>>
    BY DEF Tick, vars, bounds
  <2> QED
    BY <2>1 DEF Promised
<1>11. faults \in Nat
  BY DEF Inv, TypeOK
<1> QED
  BY <1>3, <1>4, <1>5, <1>6, <1>7, <1>8, <1>9, <1>10, <1>11 DEF Next, Handle

LEMMA WrittenStep == Inv /\ Written /\ [Next]_vars => Written'
<1> SUFFICES ASSUME Inv, Written, [Next]_vars, NEW v \in Workers, pc'[v] = "write"
             PROVE  ticket'[v] \in Range(data'[v])
  BY DEF Written
<1>1. ASSUME NEW w \in Workers, ReceiveRequest(w) \/ Handle(w), v # w
      PROVE  ticket'[v] \in Range(data'[v])
  BY <1>1, Frame DEF Written
<1>2. CASE ReceiveRequest(v)
  BY <1>2, Received
<1>3. CASE SaveTruncate(v)
  <2>1. /\ ticket[v] \in Tickets /\ file \in Seq(Tickets)
        /\ ticket' = ticket /\ data'[v] = Append(file, ticket[v])
    BY <1>3 DEF SaveTruncate, Inv, TypeOK
  <2>2. ticket[v] \in Range(Append(file, ticket[v]))
    <3>1. Append(file, ticket[v])[Len(file) + 1] = ticket[v]
      BY <2>1, AppendProperties
    <3>2. Len(file) + 1 \in DOMAIN Append(file, ticket[v])
      BY <2>1, AppendProperties, LenProperties
    <3> QED
      BY <3>1, <3>2 DEF Range
  <2> QED
    BY <2>1, <2>2
<1>4. CASE Handle(v) /\ ~SaveTruncate(v)
  BY <1>4 DEF Handle, GetLastTicketId, SaveThrows, Throw, SaveWrite, OpenFault, WriteFault,
     Validate, Respond, Answer, GoTo, Inv, TypeOK
<1>5. CASE Crash
  BY <1>5 DEF Crash
<1>6. CASE Tick \/ UNCHANGED vars
  BY <1>6 DEF Tick, vars, office, Written
<1> QED
  BY <1>1, <1>2, <1>3, <1>4, <1>5, <1>6 DEF Next

AckInv == Written /\ MissingPaidFor /\ NothingMissing

LEMMA AckInvInductive ==
    /\ Init => AckInv
    /\ Inv /\ AckInv /\ [Next]_vars => AckInv'
<1>1. ASSUME Init PROVE AckInv
  <2>1. Promised = {} /\ faults = 0
    BY <1>1 DEF Init, Promised
  <2>2. Missing = {}
    BY <2>1 DEF Missing
  <2>3. IsFiniteSet(Missing) /\ Cardinality(Missing) = 0
    BY <2>2, FS_EmptySet
  <2> QED
    BY <1>1, <2>1, <2>2, <2>3 DEF Init, AckInv, Written, MissingPaidFor, NothingMissing
<1>2. ASSUME Inv, AckInv, [Next]_vars PROVE AckInv'
  <2>1. Written'
    BY <1>2, WrittenStep DEF AckInv
  <2>2. SUFFICES ASSUME Readable'
                 PROVE  /\ IsFiniteSet(Missing') /\ Cardinality(Missing') <= faults'
                        /\ "open" \notin Faults => Missing' = {}
    BY <2>1 DEF AckInv, MissingPaidFor, NothingMissing
  <2>3. Readable
    BY <1>2, <2>2, LogGrows
  <2>4. /\ IsFiniteSet(Missing) /\ Cardinality(Missing) <= faults
        /\ Cardinality(Missing) \in Nat
        /\ "open" \notin Faults => Missing = {}
    BY <1>2, <2>3, FS_CardinalityType DEF AckInv, MissingPaidFor, NothingMissing
  <2>5. faults \in Nat /\ faults' \in Nat
    BY <1>2, NextInv DEF Inv, TypeOK
  <2>6. CASE Missing' \subseteq Missing /\ faults' >= faults
    <3>1. /\ IsFiniteSet(Missing') /\ Cardinality(Missing') <= Cardinality(Missing)
          /\ Cardinality(Missing') \in Nat
      BY <2>4, <2>6, FS_Subset, FS_CardinalityType
    <3> QED
      BY <3>1, <2>4, <2>5, <2>6
  <2>7. ASSUME "open" \in Faults, faults' = faults + 1,
               NEW t, Missing' \subseteq Missing \cup {t}
        PROVE  IsFiniteSet(Missing') /\ Cardinality(Missing') <= faults'
    <3>1. /\ IsFiniteSet(Missing \cup {t})
          /\ Cardinality(Missing \cup {t}) <= Cardinality(Missing) + 1
      <4>1. Cardinality(Missing \cup {t}) \in {Cardinality(Missing), Cardinality(Missing) + 1}
        BY <2>4, FS_AddElement, Zenon
      <4>2. IsFiniteSet(Missing \cup {t})
        BY <2>4, FS_AddElement, Zenon
      <4> HIDE DEF Missing
      <4> QED
        BY <2>4, <4>1, <4>2
    <3>2. /\ IsFiniteSet(Missing')
          /\ Cardinality(Missing') <= Cardinality(Missing \cup {t})
          /\ Cardinality(Missing') \in Nat /\ Cardinality(Missing \cup {t}) \in Nat
      BY <2>7, <3>1, FS_Subset, FS_CardinalityType
    <3> QED
      BY <3>1, <3>2, <2>4, <2>5, <2>7
  <2> QED
    BY <1>2, <2>2, <2>6, <2>7, MissingStep DEF AckInv
<1> QED
  BY <1>1, <1>2

THEOREM AckInvariance == SafeSpec => [](Inv /\ AckInv)
  BY InitInv, NextInv, AckInvInductive, PTL DEF SafeSpec

\* As long as tickets.json can be read, no more of the acknowledged tickets are
\* missing from it than saves failed, for any number of workers.
THEOREM LossesAreFaults == SafeSpec => []LostOnlyToFaults
<1>1. Inv /\ AckInv => LostOnlyToFaults
  <2> SUFFICES ASSUME Inv, AckInv, Readable
               PROVE  Cardinality(acked \ Range(Log)) <= faults
    BY DEF LostOnlyToFaults
  <2>1. IsFiniteSet(Missing) /\ Cardinality(Missing) <= faults /\ faults \in Nat
    BY DEF Inv, TypeOK, AckInv, MissingPaidFor
  <2>2. acked \ Range(Log) \subseteq Missing
    BY DEF Missing, Promised
  <2>3. /\ Cardinality(acked \ Range(Log)) <= Cardinality(Missing)
        /\ Cardinality(acked \ Range(Log)) \in Nat /\ Cardinality(Missing) \in Nat
    BY <2>1, <2>2, FS_Subset, FS_CardinalityType
  <2> QED
    BY <2>1, <2>3
<1> QED
  BY <1>1, AckInvariance, PTL

LEMMA AckedOnFile ==
    "open" \notin Faults /\ Inv /\ AckInv /\ Readable => acked \subseteq Range(Log)
  BY DEF AckInv, NothingMissing, Missing, Promised

\* If every fopen for writing succeeds, no acknowledged ticket is lost from a file
\* that can be read, whatever saves overlap and wherever the process is killed.
THEOREM AckedIsKept == ASSUME "open" \notin Faults PROVE SafeSpec => []AckedKept
<1>1. Inv /\ AckInv => AckedKept
  BY AckedOnFile DEF AckedKept
<1> QED
  BY <1>1, AckInvariance, PTL

-------------------------------------------------------------------------------
(* The file is a log *)

LEMMA AckedGrows == ASSUME Inv, [Next]_vars PROVE acked \subseteq acked'
<1>1. ASSUME NEW w \in Workers, Handle(w) PROVE acked \subseteq acked'
  BY <1>1 DEF Handle, GetLastTicketId, SaveTruncate, SaveThrows, Throw, SaveWrite, OpenFault,
     WriteFault, Validate, Respond
<1>2. ASSUME NEW w \in Workers, ReceiveRequest(w) PROVE acked \subseteq acked'
  BY <1>2, Received
<1>3. Crash \/ Tick \/ UNCHANGED vars => acked \subseteq acked'
  BY DEF Crash, Tick, vars
<1> QED
  BY <1>1, <1>2, <1>3 DEF Next

\* A step of the office sells, acknowledges or corrupts, or leaves the log as it is.
LEMMA SalesStep ==
    ASSUME "open" \notin Faults, Inv, Inv', AckInv', [Next]_vars
    PROVE  [Sales!Next]_(Sales!vars)
<1>1. Log \in Seq(Tickets) /\ Len(Log) \in Nat
  BY LogType
<1>2. CASE Log' = Log /\ Readable' = Readable
  <2>1. (Readable => acked \subseteq Range(Log))'
    BY AckedOnFile, PTL
  <2>2. Sales!Acknowledge
    BY <1>2, <2>1, AckedGrows DEF Sales!Acknowledge, Sales!Range, Range
  <2> QED
    BY <2>2 DEF Sales!Next
<1>3. ASSUME NEW w \in Workers,
             SaveTruncate(w), Readable, Readable', Log' = Append(Log, ticket[w])
      PROVE  Sales!Sell
  <2>1. ticket[w] \in Tickets
    BY DEF Inv, TypeOK
  <2>2. Len(Log') = Len(Log) + 1
    BY <1>1, <1>3, <2>1, AppendProperties
  <2>3. SubSeq(Log', 1, Len(Log)) = Log
    BY <1>1, <1>3, <2>1
  <2>4. UNCHANGED acked
    BY <1>3 DEF SaveTruncate
  <2>5. Readable' = Readable
    BY <1>3 DEF Readable
  <2> QED
    BY <1>3, <2>2, <2>3, <2>4, <2>5 DEF Sales!Sell
<1>4. CASE Readable /\ ~Readable' /\ Log' = <<>> /\ UNCHANGED acked
  <2>1. Sales!Corrupt
    BY <1>4 DEF Sales!Corrupt, Readable
  <2> QED
    BY <2>1 DEF Sales!Next
<1> QED
  BY <1>2, <1>3, <1>4, LogStep DEF Sales!Next

\* If every fopen for writing succeeds, the JSON repository implements TicketLog:
\* an append-only log in which a sale is whole before it is acknowledged.
THEOREM OfficeIsALog == ASSUME "open" \notin Faults PROVE SafeSpec => ImplementsLog
<1>1. Init => Sales!Init
  BY DEF Init, Sales!Init, Log, Readable
<1>2. Inv /\ Inv' /\ AckInv' /\ [Next]_vars => [Sales!Next]_(Sales!vars)
  BY SalesStep
<1> QED
  BY <1>1, <1>2, AckInvariance, PTL DEF SafeSpec, ImplementsLog, Sales!Spec

-------------------------------------------------------------------------------
(* Ids *)

\* The id taken for a sale is above those of the tickets that were acknowledged
\* when the request came, until the answer is sent.
IdAboveSeen ==
    "open" \notin Faults =>
        \A w \in Workers :
            \/ pc[w] \in {"save", "write"}
            \/ pc[w] = "reply" /\ reply[w] = Created
            => \A t \in seen[w].acked : t.ticket_id < ticket[w].ticket_id

\* The id was taken, or the file did not parse.
LEMMA TakesId ==
    ASSUME Inv, NEW w \in Workers, GetLastTicketId(w)
    PROVE  pc'[w] = "save" \/ (pc'[w] = "reply" /\ reply'[w] = ServerError)
<1>1. w \in DOMAIN pc /\ w \in DOMAIN reply
  BY DEF Inv, TypeOK
<1>2. GoTo(w, "save") \/ Answer(w, ServerError)
  BY DEF GetLastTicketId, Throw
<1>3. CASE GoTo(w, "save")
  BY <1>1, <1>3 DEF GoTo
<1>4. CASE Answer(w, ServerError)
  BY <1>1, <1>4 DEF Answer
<1> QED
  BY <1>2, <1>3, <1>4

LEMMA IdAboveSeenStep ==
    ASSUME "open" \notin Faults, Inv, AckInv, IdAboveSeen, [Next]_vars
    PROVE  IdAboveSeen'
<1> SUFFICES ASSUME NEW v \in Workers,
                    \/ pc'[v] \in {"save", "write"}
                    \/ pc'[v] = "reply" /\ reply'[v] = Created
             PROVE  \A t \in seen'[v].acked : t.ticket_id < ticket'[v].ticket_id
  BY DEF IdAboveSeen
<1> DEFINE Sale == \/ pc[v] \in {"save", "write"}
                   \/ pc[v] = "reply" /\ reply[v] = Created
<1>1. ASSUME Sale, UNCHANGED <<ticket[v], seen[v]>>
      PROVE  \A t \in seen'[v].acked : t.ticket_id < ticket'[v].ticket_id
  BY <1>1 DEF IdAboveSeen
<1>2. ASSUME NEW w \in Workers, ReceiveRequest(w) \/ Handle(w), v # w
      PROVE  Sale /\ UNCHANGED <<ticket[v], seen[v]>>
  BY <1>2, Frame
<1>3. ~ReceiveRequest(v)
  BY Received DEF Created, BadRequest, ServerError
<1>4. ASSUME GetLastTicketId(v)
      PROVE  \A t \in seen'[v].acked : t.ticket_id < ticket'[v].ticket_id
  <2> DEFINE id == Max({0} \cup Ids(file)) + 1
  <2>1. pc'[v] = "save"
    BY <1>4, TakesId DEF Created, ServerError
  <2>2. /\ ~torn /\ m_mtx = NoWorker
        /\ ticket' = [ticket EXCEPT ![v].ticket_id = id]
        /\ seen' = seen
    BY <1>4, <2>1 DEF GetLastTicketId, Throw, Answer, Inv, TypeOK
  <2>3. acked \subseteq Range(file)
    BY <2>2, AckedOnFile DEF Readable, Log
  <2>4. \A t \in Range(file) : t.ticket_id < id
    <3>1. file \in Seq(Tickets)
      BY DEF Inv, TypeOK
    <3> QED
      BY <3>1, NextIdAbove
  <2>5. seen[v].acked \subseteq acked
    BY DEF Inv, SeenIsPast
  <2>6. ticket'[v].ticket_id = id
    <3> HIDE DEF id
    <3>1. ticket[v] \in Tickets /\ ticket \in [Workers -> Tickets]
      BY DEF Inv, TypeOK
    <3> QED
      BY <2>2, <3>1 DEF Tickets
  <2> QED
    BY <2>2, <2>3, <2>4, <2>5, <2>6
<1>5. ASSUME Handle(v), ~GetLastTicketId(v)
      PROVE  Sale /\ UNCHANGED <<ticket[v], seen[v]>>
  BY <1>5 DEF Handle, SaveTruncate, SaveThrows, Throw, SaveWrite, OpenFault, WriteFault,
     Validate, Respond, Answer, GoTo, Inv, TypeOK, Created, OK, NotFound, Gone,
     ServerError
<1>6. ~Crash
  BY DEF Crash
<1>7. CASE Tick \/ UNCHANGED vars
  <2>1. UNCHANGED <<pc, reply, ticket, seen>>
    BY <1>7 DEF Tick, vars
  <2> QED
    BY <2>1, <1>1
<1> HIDE DEF Sale
<1> QED
  BY <1>1, <1>2, <1>3, <1>4, <1>5, <1>6, <1>7 DEF Next

\* If every fopen for writing succeeds, a sale never takes the id of a ticket that
\* was acknowledged before its request came, for any number of workers.
THEOREM IdsAreFresh == ASSUME "open" \notin Faults PROVE SafeSpec => []FreshIds
<1>1. Init => IdAboveSeen
  BY DEF Init, IdAboveSeen
<1>2. Inv /\ AckInv /\ IdAboveSeen /\ [Next]_vars => IdAboveSeen'
  BY IdAboveSeenStep
<1>3. Inv /\ IdAboveSeen => FreshIds
  <2> SUFFICES ASSUME Inv, IdAboveSeen, NEW w \in Workers,
                      pc[w] = "reply" /\ reply[w] = Created,
                      NEW t \in seen[w].acked
               PROVE  t.ticket_id # ticket[w].ticket_id
    BY DEF FreshIds
  <2>1. t.ticket_id < ticket[w].ticket_id
    BY DEF IdAboveSeen
  <2>2. t.ticket_id \in Nat /\ ticket[w].ticket_id \in Nat
    BY DEF Inv, TypeOK, Tickets
  <2> QED
    BY <2>1, <2>2
<1> QED
  BY <1>1, <1>2, <1>3, AckInvariance, PTL DEF SafeSpec

\* Crow's default: one thread runs the handlers.
OneWorker == \A v, w \in Workers : v = w

\* The id taken for a sale is above those on file until it is on file itself.
IdAboveLog ==
    \A w \in Workers : pc[w] = "save" =>
        \A i \in DOMAIN Log : Log[i].ticket_id < ticket[w].ticket_id

UniqueInv == UniqueIds /\ IdAboveLog

LEMMA UniqueInvStep ==
    ASSUME OneWorker, Inv, UniqueInv, [Next]_vars PROVE UniqueInv'
<1>1. /\ Log \in Seq(Tickets) /\ Len(Log) \in Nat /\ DOMAIN Log = 1..Len(Log)
      /\ \A i \in DOMAIN Log : Log[i] \in Tickets
  BY LogType, LenProperties, ElementOfSeq
<1>2. CASE Log' = Log
  <2>1. UniqueIds'
    BY <1>2 DEF UniqueInv, UniqueIds
  <2>2. ASSUME NEW v \in Workers, pc'[v] = "save"
        PROVE  \A i \in DOMAIN Log : Log[i].ticket_id < ticket'[v].ticket_id
    <3>1. ASSUME pc[v] = "save", ticket'[v] = ticket[v]
          PROVE  \A i \in DOMAIN Log : Log[i].ticket_id < ticket'[v].ticket_id
      BY <3>1 DEF UniqueInv, IdAboveLog
    <3>2. ASSUME NEW w \in Workers, ReceiveRequest(w) \/ Handle(w), v # w
          PROVE  FALSE
      BY <3>2 DEF OneWorker
    <3>3. ~ReceiveRequest(v)
      BY <2>2, Received
    <3>4. ASSUME GetLastTicketId(v)
          PROVE  \A i \in DOMAIN Log : Log[i].ticket_id < ticket'[v].ticket_id
      <4> DEFINE id == Max({0} \cup Ids(file)) + 1
      <4>1. /\ m_mtx = NoWorker
            /\ ticket' = [ticket EXCEPT ![v].ticket_id = id]
        BY <2>2, <3>4 DEF GetLastTicketId, Throw, Answer, Inv, TypeOK
      <4>2. \A t \in Range(file) : t.ticket_id < id
        <5>1. file \in Seq(Tickets)
          BY DEF Inv, TypeOK
        <5> QED
          BY <5>1, NextIdAbove
      <4>3. ticket'[v].ticket_id = id
        <5> HIDE DEF id
        <5>1. ticket[v] \in Tickets /\ ticket \in [Workers -> Tickets]
          BY DEF Inv, TypeOK
        <5> QED
          BY <4>1, <5>1 DEF Tickets
      <4>4. \A i \in DOMAIN Log : Log[i] \in Range(file)
        BY <4>1 DEF Log, Range
      <4> QED
        BY <4>2, <4>3, <4>4
    <3>5. CASE Handle(v) /\ ~GetLastTicketId(v)
      <4>1. pc[v] = "save" /\ ticket'[v] = ticket[v]
        BY <2>2, <3>5 DEF Handle, SaveTruncate, SaveThrows, Throw, SaveWrite, OpenFault,
           WriteFault, Validate, Respond, Answer, GoTo, Inv, TypeOK
      <4> QED
        BY <3>1, <4>1
    <3>6. ~Crash
      BY <2>2 DEF Crash
    <3>7. CASE Tick \/ UNCHANGED vars
      <4>1. UNCHANGED <<pc, ticket>>
        BY <3>7 DEF Tick, vars
      <4> QED
        BY <2>2, <3>1, <4>1
    <3> QED
      BY <3>2, <3>3, <3>4, <3>5, <3>6, <3>7 DEF Next
  <2> QED
    BY <1>2, <2>1, <2>2 DEF UniqueInv, IdAboveLog
<1>3. ASSUME NEW w \in Workers, SaveTruncate(w), Log' = Append(Log, ticket[w])
      PROVE  UniqueInv'
  <2>1. pc[w] = "save" /\ pc'[w] # "save" /\ ticket[w] \in Tickets
    BY <1>3 DEF SaveTruncate, GoTo, Inv, TypeOK
  <2>2. IdAboveLog'
    BY <2>1 DEF OneWorker, IdAboveLog
  <2>3. /\ DOMAIN Log' = 1..(Len(Log) + 1)
        /\ \A i \in 1..Len(Log) : Log'[i] = Log[i]
        /\ Log'[Len(Log) + 1] = ticket[w]
    BY <1>1, <1>3, <2>1, AppendProperties, LenProperties
  <2>4. \A i \in 1..Len(Log) : Log[i].ticket_id < ticket[w].ticket_id
    BY <1>1, <2>1 DEF UniqueInv, IdAboveLog
  <2>5. \A i \in 1..Len(Log) : Log[i].ticket_id # ticket[w].ticket_id
    BY <1>1, <2>1, <2>4 DEF Tickets
  <2>6. UniqueIds'
    <3> SUFFICES ASSUME NEW i \in 1..(Len(Log) + 1), NEW j \in 1..(Len(Log) + 1),
                        Log'[i].ticket_id = Log'[j].ticket_id
                 PROVE  i = j
      BY <2>3 DEF UniqueIds
    <3>1. CASE i \in 1..Len(Log) /\ j \in 1..Len(Log)
      BY <3>1, <1>1, <2>3 DEF UniqueInv, UniqueIds
    <3>2. (i \in 1..Len(Log) \/ i = Len(Log) + 1) /\ (j \in 1..Len(Log) \/ j = Len(Log) + 1)
      BY <1>1
    <3> QED
      BY <3>1, <3>2, <2>3, <2>5
  <2> QED
    BY <2>2, <2>6 DEF UniqueInv
<1>4. CASE Log' = <<>>
  <2>1. DOMAIN Log' = {}
    BY <1>4
  <2> QED
    BY <2>1 DEF UniqueInv, UniqueIds, IdAboveLog
<1> QED
  BY <1>2, <1>3, <1>4, LogStep

LEMMA UniqueInvariance == ASSUME OneWorker PROVE SafeSpec => [](Inv /\ UniqueInv)
<1>1. Init => UniqueInv
  <2>1. Init => DOMAIN Log = {}
    BY DEF Init, Log
  <2> QED
    BY <2>1 DEF UniqueInv, UniqueIds, IdAboveLog
<1>2. Inv /\ UniqueInv /\ [Next]_vars => UniqueInv'
  BY UniqueInvStep
<1> QED
  BY <1>1, <1>2, InitInv, NextInv, PTL DEF SafeSpec

\* With one worker no two tickets on file have the same id, whatever faults and
\* kills there are: the id is read and used in two critical sections, but nothing
\* comes between them.
THEOREM IdsAreUnique == ASSUME OneWorker PROVE SafeSpec => []UniqueIds
<1>1. UniqueInv => UniqueIds
  BY DEF UniqueInv
<1> QED
  BY <1>1, UniqueInvariance, PTL

-------------------------------------------------------------------------------
(* Verdicts *)

\* The expiry tests do not overflow on what a request can ask for.
DaysFit == \A number \in Validities : Fits(ToInt(number))

\* Nor on any ticket.
AllFit ==
    /\ \A i \in DOMAIN Log : Fits(Log[i].validity_in_days)
    /\ \A w \in Workers : Fits(ticket[w].validity_in_days)
    /\ \A t \in acked : Fits(t.validity_in_days)

LEMMA UnknownFits == Fits(UnknownTicket.validity_in_days)
  BY HalfOfInts DEF Fits, UnknownTicket, Ints

LEMMA AllFitStep == ASSUME DaysFit, Inv, AllFit, [Next]_vars PROVE AllFit'
<1>1. \A i \in DOMAIN Log' : Fits(Log'[i].validity_in_days)
  <2>1. CASE Log' = Log
    BY <2>1 DEF AllFit
  <2>2. ASSUME NEW w \in Workers, Log' = Append(Log, ticket[w])
        PROVE  <1>1
    <3>1. /\ Log \in Seq(Tickets) /\ Len(Log) \in Nat /\ DOMAIN Log = 1..Len(Log)
          /\ ticket[w] \in Tickets
      BY LogType, LenProperties DEF Inv, TypeOK
    <3>2. /\ DOMAIN Log' = 1..(Len(Log) + 1)
          /\ \A i \in 1..Len(Log) : Log'[i] = Log[i]
          /\ Log'[Len(Log) + 1] = ticket[w]
      BY <2>2, <3>1, AppendProperties, LenProperties
    <3>3. \A i \in 1..(Len(Log) + 1) : i \in 1..Len(Log) \/ i = Len(Log) + 1
      BY <3>1
    <3> QED
      BY <3>1, <3>2, <3>3 DEF AllFit
  <2>3. CASE Log' = <<>>
    BY <2>3
  <2> QED
    BY <2>1, <2>2, <2>3, LogStep
<1>2. ASSUME NEW v \in Workers PROVE Fits(ticket'[v].validity_in_days)
  <2>1. Fits(ticket[v].validity_in_days)
    BY DEF AllFit
  <2>2. ASSUME NEW w \in Workers, ReceiveRequest(w) \/ Handle(w), v # w
        PROVE  Fits(ticket'[v].validity_in_days)
    BY <2>1, <2>2, Frame
  <2>3. CASE ReceiveMalformed(v)
    BY <2>3, UnknownFits DEF ReceiveMalformed, Receive, Inv, TypeOK
  <2>4. CASE ReceiveCreate(v)
    <3>1. PICK date \in Dates, number \in Validities : ReceiveCreateOf(v, date, number)
      BY <2>4 DEF ReceiveCreate
    <3>2. ticket' = [ticket EXCEPT ![v] = [ticket_id |-> 0, creation_date |-> date,
                                           validity_in_days |-> ToInt(number)]]
      BY <3>1 DEF ReceiveCreateOf, Receive
    <3>3. ticket'[v].validity_in_days = ToInt(number)
      BY <3>2 DEF Inv, TypeOK
    <3> QED
      BY <3>3 DEF DaysFit
  <2>5. CASE ReceiveValidate(v)
    BY <2>5, UnknownFits
    DEF ReceiveValidate, ReceiveValidateOf, Receive, Inv, TypeOK, AllFit
  <2>6. CASE GetLastTicketId(v)
    <3>1. PICK id : \/ ticket' = ticket
                    \/ ticket' = [ticket EXCEPT ![v].ticket_id = id]
      BY <2>6 DEF GetLastTicketId
    <3>2. ticket[v] \in Tickets /\ ticket \in [Workers -> Tickets]
      BY DEF Inv, TypeOK
    <3>3. ticket'[v].validity_in_days = ticket[v].validity_in_days
      BY <3>1, <3>2 DEF Tickets
    <3> QED
      BY <2>1, <3>3
  <2>7. CASE Respond(v)
    BY <2>7, UnknownFits DEF Respond, Inv, TypeOK
  <2>8. CASE Handle(v) /\ ~GetLastTicketId(v) /\ ~Respond(v)
    BY <2>1, <2>8 DEF Handle, SaveTruncate, SaveThrows, Throw, SaveWrite, OpenFault,
       WriteFault, Validate
  <2>9. CASE Crash
    BY <2>9, UnknownFits DEF Crash
  <2>10. CASE Tick \/ UNCHANGED vars
    BY <2>1, <2>10 DEF Tick, vars
  <2> QED
    BY <2>2, <2>3, <2>4, <2>5, <2>6, <2>7, <2>8, <2>9, <2>10 DEF Next, ReceiveRequest
<1>3. \A t \in acked' : Fits(t.validity_in_days)
  <2>1. \A t \in acked' : t \in acked \/ \E w \in Workers : t = ticket[w]
    <3>1. ASSUME NEW w \in Workers, ReceiveRequest(w) PROVE UNCHANGED acked
      BY <3>1, Received
    <3>2. ASSUME NEW w \in Workers, Handle(w)
          PROVE  UNCHANGED acked \/ acked' = acked \cup {ticket[w]}
      BY <3>2 DEF Handle, GetLastTicketId, SaveTruncate, SaveThrows, Throw, SaveWrite,
         OpenFault, WriteFault, Validate, Respond
    <3>3. CASE Crash \/ Tick \/ UNCHANGED vars
      BY <3>3 DEF Crash, Tick, vars
    <3> QED
      BY <3>1, <3>2, <3>3 DEF Next
  <2> QED
    BY <2>1 DEF AllFit
<1> QED
  BY <1>1, <1>2, <1>3 DEF AllFit

IsFirst(tickets, i, id) ==
    /\ i \in DOMAIN tickets /\ tickets[i].ticket_id = id
    /\ \A j \in 1..(i - 1) : tickets[j].ticket_id # id

\* find_by_id finds the first record with the id, if there is one.
LEMMA StoredIsFirst ==
    ASSUME Inv, NEW id \in Ids(file)
    PROVE  \E i \in DOMAIN file : IsFirst(file, i, id) /\ Stored(id) = file[i]
<1>1. Len(file) \in Nat /\ DOMAIN file = 1..Len(file)
  BY LenProperties DEF Inv, TypeOK
<1> DEFINE At == {i \in DOMAIN file : file[i].ticket_id = id}
           Back == {Len(file) - i : i \in At}
<1>2. Back \in SUBSET Int /\ Back # {} /\ IsFiniteSet(Back)
  <2>1. Back \in SUBSET Nat /\ \A x \in Back : x <= Len(file)
    BY <1>1
  <2>2. Back # {}
    BY DEF Ids, Range
  <2> HIDE DEF Back
  <2>3. IsFiniteSet(Back)
    BY <1>1, <2>1, FS_BoundedSetOfNaturals, Zenon
  <2> QED
    BY <2>1, <2>2, <2>3
<1>3. PICK m \in Back : \A x \in Back : m >= x
  <2> HIDE DEF Back
  <2> QED
    BY <1>2, MaxOfFinite, Zenon
<1>4. PICK i \in At : m = Len(file) - i
  OBVIOUS
<1>5. \A j \in 1..(i - 1) : file[j].ticket_id # id
  <2> SUFFICES ASSUME NEW j \in 1..(i - 1), file[j].ticket_id = id PROVE FALSE
    OBVIOUS
  <2>1. j \in At
    BY <1>1
  <2>2. m >= Len(file) - j
    BY <1>3, <2>1
  <2>3. i \in Int /\ j \in Int /\ j < i /\ m = Len(file) - i
    BY <1>1, <1>4
  <2> HIDE DEF At, Back
  <2> QED
    BY <1>1, <2>2, <2>3
<1>6. IsFirst(file, i, id)
  BY <1>5 DEF IsFirst
<1> DEFINE k == CHOOSE n \in DOMAIN file : IsFirst(file, n, id)
<1>7. k \in DOMAIN file /\ IsFirst(file, k, id)
  BY <1>6
<1>8. Stored(id) = file[k]
  BY DEF Stored, IsFirst
<1> HIDE DEF k
<1> QED
  BY <1>7, <1>8

\* The verdict of find_by_id and is_expired, where nothing overflows.
LEMMA ValidateOutcome ==
    ASSUME DaysFit, Inv, AllFit, NEW w \in Workers, Validate(w)
    PROVE  /\ pc'[w] = "reply" /\ UNCHANGED <<office, ticket, now, told, seen>>
           /\ \/ reply'[w] \in {ServerError, NotFound}
              \/ /\ Readable /\ Log = file
                 /\ \E i \in DOMAIN file :
                       /\ IsFirst(file, i, ticket[w].ticket_id)
                       /\ reply'[w] = IF Expired(now, file[i].creation_date,
                                                 file[i].validity_in_days)
                                      THEN Gone ELSE OK
<1>1. pc'[w] = "reply" /\ UNCHANGED <<office, ticket, now, told, seen>>
  BY LooksOnly DEF Validate, Throw, Answer, Inv, TypeOK
<1> DEFINE id == ticket[w].ticket_id
<1>2. CASE reply'[w] \in {ServerError, NotFound}
  BY <1>1, <1>2
<1>3. CASE reply'[w] \notin {ServerError, NotFound}
  <2>1. /\ ~torn /\ m_mtx = NoWorker /\ id \in Ids(file)
        /\ \E expired \in ExpiredOutcomes(now, Stored(id).creation_date,
                                          Stored(id).validity_in_days) :
              reply'[w] = IF expired THEN Gone ELSE OK
    BY <1>3 DEF Validate, Throw, Answer, Inv, TypeOK
  <2>2. PICK i \in DOMAIN file : IsFirst(file, i, id) /\ Stored(id) = file[i]
    <3> HIDE DEF id
    <3> QED
      BY <2>1, StoredIsFirst
  <2>3. Readable /\ Log = file
    BY <2>1 DEF Readable, Log
  <2>4. /\ now \in Int /\ file[i].creation_date \in Int
        /\ file[i].validity_in_days \in Ints /\ Fits(file[i].validity_in_days)
    <3>1. file[i] \in Tickets /\ now \in Int
      BY ElementOfSeq, LenProperties DEF Inv, TypeOK
    <3> QED
      BY <3>1, <2>3 DEF Tickets, AllFit
  <2>5. ExpiredOutcomes(now, file[i].creation_date, file[i].validity_in_days)
            = {Expired(now, file[i].creation_date, file[i].validity_in_days)}
    BY <2>4, ExactIfItFits, Zenon
  <2>6. reply'[w] = IF Expired(now, file[i].creation_date, file[i].validity_in_days)
                    THEN Gone ELSE OK
    <3>1. PICK expired \in ExpiredOutcomes(now, file[i].creation_date,
                                          file[i].validity_in_days) :
              reply'[w] = IF expired THEN Gone ELSE OK
      BY <2>1, <2>2
    <3>2. expired = Expired(now, file[i].creation_date, file[i].validity_in_days)
      BY <2>5, <3>1, Zenon
    <3> QED
      BY <3>1, <3>2, Zenon
  <2> QED
    BY <1>1, <2>2, <2>3, <2>6
<1> QED
  BY <1>2, <1>3

\* A verdict waits unchanged for its response.
LEMMA VerdictStep ==
    ASSUME Inv, [Next]_vars,
           NEW v \in Workers, pc'[v] = "reply", reply'[v] \in {OK, Gone}
    PROVE  \/ Validate(v)
           \/ pc[v] = "reply" /\ UNCHANGED <<reply[v], ticket[v], seen[v]>>
<1>1. ASSUME NEW w \in Workers, ReceiveRequest(w) \/ Handle(w), v # w
      PROVE  pc[v] = "reply" /\ UNCHANGED <<reply[v], ticket[v], seen[v]>>
  BY <1>1, Frame
<1>2. ~ReceiveRequest(v)
  BY Received DEF OK, Gone, BadRequest, ServerError
<1>3. ~GetLastTicketId(v) /\ ~SaveTruncate(v) /\ ~SaveThrows(v)
  <2>1. ~GetLastTicketId(v)
    BY TakesId DEF OK, Gone, ServerError
  <2>2. ~SaveTruncate(v)
    BY DEF SaveTruncate, GoTo, Inv, TypeOK
  <2>3. ~SaveThrows(v)
    BY DEF SaveThrows, Throw, Answer, Inv, TypeOK, OK, Gone, ServerError
  <2> QED
    BY <2>1, <2>2, <2>3
<1>4. ~SaveWrite(v) /\ ~OpenFault(v) /\ ~WriteFault(v) /\ ~Respond(v)
  BY DEF SaveWrite, OpenFault, WriteFault, Respond, Answer, Inv, TypeOK, OK, Gone,
     Created
<1>5. ~Crash
  BY DEF Crash
<1>6. Tick \/ UNCHANGED vars =>
        pc[v] = "reply" /\ UNCHANGED <<reply[v], ticket[v], seen[v]>>
  BY DEF Tick, vars
<1> QED
  BY <1>1, <1>2, <1>3, <1>4, <1>5, <1>6 DEF Next, Handle

LEMMA ClockStep ==
    ASSUME Inv, [Next]_vars
    PROVE  now \in Nat /\ now' \in Nat /\ now <= now'
<1>1. now' = now \/ now' = now + 1
  <2>1. ASSUME NEW w \in Workers, ReceiveRequest(w) PROVE now' = now
    BY <2>1, Received
  <2>2. ASSUME NEW w \in Workers, Handle(w) PROVE now' = now
    BY <2>2 DEF Handle, GetLastTicketId, SaveTruncate, SaveThrows, Throw, SaveWrite,
       OpenFault, WriteFault, Validate, Respond
  <2> QED
    BY <2>1, <2>2 DEF Next, Crash, Tick, vars
<1> QED
  BY <1>1 DEF Inv, TypeOK

\* The record an id finds has expired.
FoundExpired(id) ==
    \E i \in DOMAIN Log :
        /\ IsFirst(Log, i, id)
        /\ Expired(now, Log[i].creation_date, Log[i].validity_in_days)

\* Sales go to the end, so an id goes on finding the same record, and that stays
\* expired.
LEMMA FoundExpiredStays ==
    ASSUME Inv, [Next]_vars, Readable', NEW id, FoundExpired(id)
    PROVE  FoundExpired(id)'
<1>1. PICK i \in DOMAIN Log :
          /\ IsFirst(Log, i, id)
          /\ Expired(now, Log[i].creation_date, Log[i].validity_in_days)
  BY DEF FoundExpired
<1>2. /\ Log \in Seq(Tickets) /\ Log' \in Seq(Tickets)
      /\ Len(Log) \in Nat /\ Len(Log') \in Nat /\ Len(Log) <= Len(Log')
      /\ \A k \in 1..Len(Log) : Log'[k] = Log[k]
  BY LogGrows
<1>3. DOMAIN Log = 1..Len(Log) /\ DOMAIN Log' = 1..Len(Log')
  BY <1>2, LenProperties
<1>4. i \in DOMAIN Log' /\ Log'[i] = Log[i]
  BY <1>2, <1>3
<1>5. IsFirst(Log', i, id)
  BY <1>1, <1>2, <1>3, <1>4 DEF IsFirst
<1>6. Expired(now', Log[i].creation_date, Log[i].validity_in_days)
  <2>1. now \in Int /\ now' \in Int /\ now <= now'
    BY ClockStep
  <2>2. Log[i].creation_date \in Int /\ Log[i].validity_in_days \in Int
    <3>1. Log[i] \in Tickets
      BY <1>2, <1>3, ElementOfSeq
    <3> QED
      BY <3>1, IntsAreInt DEF Tickets
  <2> QED
    BY <1>1, <2>1, <2>2, ExpiredStays
<1> QED
  BY <1>4, <1>5, <1>6 DEF FoundExpired

\* Every ticket refused as expired, or about to be, is one whose id finds an
\* expired record.
ToldInv ==
    Readable =>
        /\ \A t \in told : FoundExpired(t.ticket_id)
        /\ \A w \in Workers, id \in Nat :
              pc[w] = "reply" /\ reply[w] = Gone /\ ticket[w].ticket_id = id =>
                  FoundExpired(id)

LEMMA ToldInvStep ==
    ASSUME DaysFit, Inv, AllFit, ToldInv, [Next]_vars PROVE ToldInv'
<1> SUFFICES ASSUME Readable'
             PROVE  /\ \A t \in told' : FoundExpired(t.ticket_id)'
                    /\ \A v \in Workers, id \in Nat :
                          pc'[v] = "reply" /\ reply'[v] = Gone /\ ticket'[v].ticket_id = id =>
                              FoundExpired(id)'
  BY DEF ToldInv
<1>0. Readable
  BY LogGrows
<1>1. ASSUME NEW t \in told' PROVE FoundExpired(t.ticket_id)'
  <2>1. t \in told \/ \E w \in Workers : pc[w] = "reply" /\ reply[w] = Gone /\ ticket[w] = t
    <3>1. ASSUME NEW w \in Workers, ReceiveRequest(w) PROVE told' = told
      BY <3>1, Received
    <3>2. ASSUME NEW w \in Workers, Handle(w)
          PROVE  \/ told' = told
                 \/ pc[w] = "reply" /\ reply[w] = Gone /\ told' = told \cup {ticket[w]}
      BY <3>2 DEF Handle, GetLastTicketId, SaveTruncate, SaveThrows, Throw, SaveWrite,
         OpenFault, WriteFault, Validate, Respond
    <3>3. Crash \/ Tick \/ UNCHANGED vars => told' = told
      BY DEF Crash, Tick, vars
    <3> QED
      BY <3>1, <3>2, <3>3 DEF Next
  <2>2. t.ticket_id \in Nat
    <3>1. told \subseteq Tickets /\ \A w \in Workers : ticket[w] \in Tickets
      BY DEF Inv, TypeOK
    <3> QED
      BY <2>1, <3>1 DEF Tickets
  <2>3. FoundExpired(t.ticket_id)
    BY <1>0, <2>1, <2>2 DEF ToldInv
  <2> QED
    BY <2>3, FoundExpiredStays
<1>2. ASSUME NEW v \in Workers, NEW id \in Nat,
             pc'[v] = "reply", reply'[v] = Gone, ticket'[v].ticket_id = id
      PROVE  FoundExpired(id)'
  <2>1. CASE pc[v] = "reply" /\ UNCHANGED <<reply[v], ticket[v]>>
    BY <1>0, <1>2, <2>1, FoundExpiredStays DEF ToldInv
  <2>2. CASE Validate(v)
    <3>1. /\ UNCHANGED ticket /\ Log = file
          /\ \E i \in DOMAIN file :
                /\ IsFirst(file, i, ticket[v].ticket_id)
                /\ Expired(now, file[i].creation_date, file[i].validity_in_days)
      BY <1>2, <2>2, ValidateOutcome DEF Gone, OK, ServerError, NotFound
    <3>2. FoundExpired(id)
      BY <1>2, <3>1 DEF FoundExpired
    <3> QED
      BY <3>2, FoundExpiredStays
  <2> QED
    BY <1>2, <2>1, <2>2, VerdictStep
<1> QED
  BY <1>1, <1>2

LEMMA ForeverStep ==
    ASSUME DaysFit, Inv, AllFit, ToldInv, ExpiredIsForever, [Next]_vars
    PROVE  ExpiredIsForever'
<1> SUFFICES ASSUME NEW v \in Workers, pc'[v] = "reply", reply'[v] = OK,
                    ticket'[v] \in seen'[v].told
             PROVE  FALSE
  BY DEF ExpiredIsForever
<1>1. CASE pc[v] = "reply" /\ UNCHANGED <<reply[v], ticket[v], seen[v]>>
  BY <1>1 DEF ExpiredIsForever
<1>2. CASE Validate(v)
  <2>1. /\ ticket[v] \in seen[v].told /\ Readable /\ Log = file
        /\ \E i \in DOMAIN file :
              /\ IsFirst(file, i, ticket[v].ticket_id)
              /\ ~Expired(now, file[i].creation_date, file[i].validity_in_days)
    BY <1>2, ValidateOutcome DEF OK, Gone, ServerError, NotFound
  <2>2. ticket[v] \in told
    BY <2>1 DEF Inv, SeenIsPast
  <2>3. FoundExpired(ticket[v].ticket_id)
    BY <2>1, <2>2 DEF ToldInv
  <2>4. DOMAIN file = 1..Len(file) /\ Len(file) \in Nat
    BY LenProperties DEF Inv, TypeOK
  <2>5. ASSUME NEW id, NEW i \in DOMAIN file, NEW k \in DOMAIN file,
               IsFirst(file, i, id), IsFirst(file, k, id)
        PROVE  i = k
    BY <2>4, <2>5 DEF IsFirst
  <2> QED
    BY <2>1, <2>3, <2>5 DEF FoundExpired
<1> QED
  BY <1>1, <1>2, VerdictStep

ExpiryInv == AllFit /\ ToldInv /\ ExpiredIsForever

\* Where no expiry test overflows, a gate that asks about a ticket after another
\* was told it has expired is not told it is valid, for any number of workers and
\* whatever is sold in between, and whatever fails.
THEOREM ExpiryStands == ASSUME DaysFit PROVE SafeSpec => []ExpiredIsForever
<1>1. Init => ExpiryInv
  <2>1. Init => DOMAIN Log = {}
    BY DEF Init, Log
  <2> QED
    BY <2>1, UnknownFits DEF Init, ExpiryInv, AllFit, ToldInv, ExpiredIsForever
<1>2. Inv /\ ExpiryInv /\ [Next]_vars => ExpiryInv'
  BY AllFitStep, ToldInvStep, ForeverStep DEF ExpiryInv
<1>3. ExpiryInv => ExpiredIsForever
  BY DEF ExpiryInv
<1> QED
  BY <1>1, <1>2, <1>3, InitInv, NextInv, PTL DEF SafeSpec

LEMMA VerdictIsRightStep ==
    ASSUME OneWorker, DaysFit, Inv, UniqueInv, AllFit, VerdictIsRight, [Next]_vars
    PROVE  VerdictIsRight'
<1> DEFINE Expiry(t) == ExpiryDate(t.creation_date, t.validity_in_days)
<1> SUFFICES ASSUME NEW v \in Workers, pc'[v] = "reply", reply'[v] \in {OK, Gone},
                    ticket'[v] \in Range(Log')
             PROVE  IF reply'[v] = Gone THEN now' > Expiry(ticket'[v])
                                        ELSE seen'[v].at <= Expiry(ticket'[v])
  BY DEF VerdictIsRight, NoEarlyExpiry, Gone, OK
<1>1. ticket[v] \in Tickets /\ Expiry(ticket[v]) \in Int
  <2>1. ticket[v] \in Tickets
    BY DEF Inv, TypeOK
  <2>2. ticket[v].creation_date \in Int /\ ticket[v].validity_in_days \in Int
    BY <2>1, IntsAreInt DEF Tickets
  <2> QED
    BY <2>1, <2>2 DEF ExpiryDate
<1>2. now \in Nat /\ now' \in Nat /\ now <= now' /\ seen[v].at \in Nat /\ seen[v].at <= now
  BY ClockStep DEF Inv, TypeOK, SeenIsPast
<1>3. CASE pc[v] = "reply" /\ UNCHANGED <<reply[v], ticket[v], seen[v]>>
  <2>1. Log' = Log
    <3>1. ASSUME NEW w \in Workers, SaveTruncate(w) PROVE FALSE
      BY <1>3, <3>1 DEF OneWorker, SaveTruncate
    <3>2. Log' # <<>>
      BY DEF Range
    <3> QED
      BY <3>1, <3>2, LogStep
  <2>2. IF reply[v] = Gone THEN now > Expiry(ticket[v]) ELSE seen[v].at <= Expiry(ticket[v])
    BY <1>3, <2>1 DEF VerdictIsRight, NoEarlyExpiry
  <2> HIDE DEF Expiry
  <2>3. CASE reply[v] = Gone
    BY <1>1, <1>2, <1>3, <2>2, <2>3
  <2>4. CASE reply[v] # Gone
    BY <1>3, <2>2, <2>4
  <2> QED
    BY <2>3, <2>4
<1>4. CASE Validate(v)
  <2>1. /\ UNCHANGED <<office, ticket, now, seen>> /\ Log = file
        /\ \E i \in DOMAIN file :
              /\ IsFirst(file, i, ticket[v].ticket_id)
              /\ reply'[v] = IF Expired(now, file[i].creation_date,
                                        file[i].validity_in_days)
                             THEN Gone ELSE OK
    BY <1>4, ValidateOutcome DEF OK, Gone, ServerError, NotFound
  <2>2. PICK i \in DOMAIN file :
              /\ IsFirst(file, i, ticket[v].ticket_id)
              /\ reply'[v] = IF Expired(now, file[i].creation_date,
                                        file[i].validity_in_days)
                             THEN Gone ELSE OK
    BY <2>1
  <2>3. Log' = file
    BY <2>1 DEF Log, office
  <2>4. file[i] = ticket[v]
    BY <2>1, <2>2, <2>3 DEF UniqueInv, UniqueIds, IsFirst, Range
  <2>5. reply'[v] = IF now > Expiry(ticket[v]) THEN Gone ELSE OK
    BY <2>2, <2>4 DEF Expired
  <2> HIDE DEF Expiry
  <2>6. CASE now > Expiry(ticket[v])
    BY <1>1, <1>2, <2>1, <2>5, <2>6 DEF OK, Gone
  <2>7. CASE ~(now > Expiry(ticket[v]))
    BY <1>1, <1>2, <2>1, <2>5, <2>7 DEF OK, Gone
  <2> QED
    BY <2>6, <2>7
<1> QED
  BY <1>3, <1>4, VerdictStep

\* With one worker, and where no expiry test overflows, the verdict on a ticket on
\* file is the one its own dates call for.
THEOREM VerdictsAreRight ==
    ASSUME OneWorker, DaysFit PROVE SafeSpec => []VerdictIsRight
<1>1. Init => AllFit /\ VerdictIsRight
  <2>1. Init => DOMAIN Log = {}
    BY DEF Init, Log
  <2> QED
    BY <2>1, UnknownFits DEF Init, AllFit, VerdictIsRight, NoEarlyExpiry
<1>2. Inv /\ UniqueInv /\ AllFit /\ VerdictIsRight /\ [Next]_vars
        => AllFit' /\ VerdictIsRight'
  BY AllFitStep, VerdictIsRightStep
<1> QED
  BY <1>1, <1>2, UniqueInvariance, PTL DEF SafeSpec

===============================================================================
