---------------------------- MODULE ReportPipeline ----------------------------
(***************************************************************************)
(* The reports of several gates at the back office: SubmitReport calls in  *)
(* flight, m_reports, GetReport, and restarts of either side.              *)
(*                                                                         *)
(* A gate's reporter is abstracted to what RetryQueue guarantees: it       *)
(* offers one item at a time, never an older one than the last, a newer    *)
(* one after a success, and the newest in the end.  A call whose           *)
(* connection broke has failed for the gate, and may be executed still.    *)
(***************************************************************************)
EXTENDS Integers, Functions, FiniteSetsExt

CONSTANTS Gates,      \* processes of gate_app
          Default,    \* the name of a gate without GATE_ID
          Empty,      \* the name of a gate whose GATE_ID is set to nothing
          GateIds,    \* the values of GATE_ID at the gates: functions from gates
          None,       \* no call, no report
          MaxCount,   \* bound: validations of each process, per gate
          MaxBreaks,  \* bound: connections that break
          MaxDeaths,  \* bound: times a gate is killed
          MaxBoots    \* bound: starts of the back office

ASSUME BoundsAssumption ==
    /\ MaxCount \in [Gates -> Nat]
    /\ MaxBreaks \in Nat /\ MaxDeaths \in Nat /\ MaxBoots \in Nat \ {0}

Names == Gates \cup {Default, Empty}

ASSUME NamesAssumption == Default \notin Gates /\ Empty \notin Gates /\ Default # Empty
ASSUME GateIdsAssumption == GateIds \subseteq [Gates -> Gates \cup {Empty, None}]

VARIABLES
    name,     \* per gate, its machine_id
    life,     \* per gate, the number of its process
    counted,  \* per gate, the validations of this process, all pushed
    next,     \* per gate, the oldest item its queue may still offer
    sent,     \* per gate, the call it waits for, or None
    answer,   \* per gate, the answer to its call, if there is one
    wire,     \* calls not executed yet, those given up included
    reports,  \* m_reports: from names to the call stored last
    boot,     \* number of the office's process
    \* Bounds and history.
    breaks, deaths,
    shown,    \* what GetReport returned last, for which name and in which boot
    stored    \* per gate, the last item acknowledged to this process, and by which boot

gate == <<name, life, counted, next>>
vars == <<gate, sent, answer, wire, reports, boot, breaks, deaths, shown, stored>>

Calls == [gate : Gates, life : Nat, n : Nat, try : Nat]

ASSUME NoneAssumption == None \notin Calls

NothingStored == [n |-> 0, boot |-> 0]

\* The name of a gate from the environment variable GATE_ID, or None.
get_env_gate_id(value) == IF value = None THEN Default ELSE value

Init ==
    /\ \E env \in GateIds : name = [g \in Gates |-> get_env_gate_id(env[g])]
    /\ life = [g \in Gates |-> 1]
    /\ counted = [g \in Gates |-> 0]
    /\ next = [g \in Gates |-> 1]
    /\ sent = [g \in Gates |-> None]
    /\ answer = [g \in Gates |-> None]
    /\ wire = {} /\ reports = <<>>
    /\ boot = 1 /\ breaks = 0 /\ deaths = 0
    /\ shown = [name |-> Empty, report |-> None, late |-> FALSE, boot |-> 0]
    /\ stored = [g \in Gates |-> NothingStored]

-------------------------------------------------------------------------------
(* A gate *)

\* A ticket was validated, and the counters pushed.
Count(g) ==
    /\ counted[g] < MaxCount[g]
    /\ counted' = [counted EXCEPT ![g] = @ + 1]
    /\ UNCHANGED <<name, life, next, sent, answer, wire, reports, boot, breaks,
                   deaths, shown, stored>>

\* The queue's handler calls SubmitReport.  The call has no deadline.
SubmitReport(g) ==
    /\ sent[g] = None
    /\ \E n \in next[g]..counted[g] :
          LET c == [gate |-> g, life |-> life[g], n |-> n, try |-> breaks]
          IN  sent' = [sent EXCEPT ![g] = c] /\ wire' = wire \cup {c}
    /\ UNCHANGED <<gate, answer, reports, boot, breaks, deaths, shown, stored>>

\* The call returns OK, and the item is popped, or an error status, and the item
\* is tried again, an INVALID_ARGUMENT like any other.
Returned(g) ==
    LET a == answer[g]
    IN  /\ a # None
        /\ next' = [next EXCEPT ![g] = IF a.ok THEN sent[g].n + 1 ELSE sent[g].n]
        /\ stored' = [stored EXCEPT ![g] =
                          IF a.ok THEN [n |-> sent[g].n, boot |-> a.boot] ELSE @]
        /\ sent' = [sent EXCEPT ![g] = None]
        /\ answer' = [answer EXCEPT ![g] = None]
        /\ UNCHANGED <<name, life, counted, wire, reports, boot, breaks, deaths, shown>>

\* g's call fails without an answer, and n is the next item it offers.
GiveUp(g, n) ==
    /\ next' = [next EXCEPT ![g] = n]
    /\ sent' = [sent EXCEPT ![g] = None]
    /\ answer' = [answer EXCEPT ![g] = None]
    /\ UNCHANGED <<name, life, counted, reports, boot, deaths, shown, stored>>

\* Mutant of Break: the queue drops the item.
BreakDropping(g) ==
    /\ sent[g] # None
    /\ breaks < MaxBreaks /\ breaks' = breaks + 1
    /\ wire' \in {wire, wire \ {sent[g]}}
    /\ GiveUp(g, sent[g].n + 1)

\* Mutant of Break: the queue starts again from its oldest item.
BreakRewinding(g) ==
    /\ sent[g] # None
    /\ breaks < MaxBreaks /\ breaks' = breaks + 1
    /\ wire' \in {wire, wire \ {sent[g]}}
    /\ GiveUp(g, 1)

\* The connection breaks: before the office has the call, which is lost, while
\* it has it and executes it later, or before the gate has the answer.
Break(g) ==
    /\ sent[g] # None
    /\ breaks < MaxBreaks /\ breaks' = breaks + 1
    /\ wire' \in {wire, wire \ {sent[g]}}
    /\ GiveUp(g, sent[g].n)

\* Mutant of Refused: the queue drops the item.
RefusedDropping(g) ==
    /\ sent[g] # None /\ sent[g] \notin wire /\ answer[g] = None
    /\ GiveUp(g, sent[g].n + 1)
    /\ UNCHANGED <<wire, breaks>>

\* The office died with the call.
Refused(g) ==
    /\ sent[g] # None /\ sent[g] \notin wire /\ answer[g] = None
    /\ GiveUp(g, sent[g].n)
    /\ UNCHANGED <<wire, breaks>>

\* kill -9 and a restart of the gate, with the same GATE_ID and no counters.
GateRestart(g) ==
    /\ deaths < MaxDeaths
    /\ deaths' = deaths + 1
    /\ life' = [life EXCEPT ![g] = @ + 1]
    /\ counted' = [counted EXCEPT ![g] = 0]
    /\ next' = [next EXCEPT ![g] = 1]
    /\ sent' = [sent EXCEPT ![g] = None]
    /\ answer' = [answer EXCEPT ![g] = None]
    /\ stored' = [stored EXCEPT ![g] = NothingStored]
    /\ UNCHANGED <<name, wire, reports, boot, breaks, shown>>

-------------------------------------------------------------------------------
(* The back office *)

\* Whether the gate that sent c gave it up, or died.
Late(c) == c # sent[c.gate]

Answer(c, ok) ==
    answer' = IF Late(c) THEN answer
              ELSE [answer EXCEPT ![c.gate] = [ok |-> ok, boot |-> boot]]

\* m_reports[m] = *request
Assigned(m, c) ==
    [k \in DOMAIN reports \cup {m} |->
        IF k = m THEN [report |-> c, late |-> Late(c)] ELSE reports[k]]

\* Mutant of Execute: the map's insert(), which keeps the report it has.
ExecuteInserting(c) ==
    LET m == name[c.gate]
    IN  /\ c \in wire /\ wire' = wire \ {c}
        /\ \/ m = Empty /\ Answer(c, FALSE) /\ UNCHANGED reports
           \/ /\ m # Empty /\ Answer(c, TRUE)
              /\ reports' = IF m \in DOMAIN reports THEN reports ELSE Assigned(m, c)
        /\ UNCHANGED <<gate, sent, boot, breaks, deaths, shown, stored>>

\* Mutant of Execute: an empty machine_id is a name like any other.
ExecuteUnchecked(c) ==
    LET m == name[c.gate]
    IN  /\ c \in wire /\ wire' = wire \ {c}
        /\ Answer(c, TRUE) /\ reports' = Assigned(m, c)
        /\ UNCHANGED <<gate, sent, boot, breaks, deaths, shown, stored>>

\* SubmitReport at the office: an empty machine_id is refused, and else the
\* report takes the place of the one under the same name, whatever it says.
Execute(c) ==
    LET m == name[c.gate]
    IN  /\ c \in wire /\ wire' = wire \ {c}
        /\ \/ m = Empty /\ Answer(c, FALSE) /\ UNCHANGED reports
           \/ m # Empty /\ Answer(c, TRUE) /\ reports' = Assigned(m, c)
        /\ UNCHANGED <<gate, sent, boot, breaks, deaths, shown, stored>>

Known(m) == m \in DOMAIN reports

\* Somebody asks for the report of a name: NOT_FOUND, or the one stored last.
GetReport(m) ==
    /\ m \in Range(name) \ {Empty}
    /\ shown' = [name |-> m,
                  report |-> IF Known(m) THEN reports[m].report ELSE None,
                  late |-> Known(m) /\ reports[m].late,
                  boot |-> boot]
    /\ UNCHANGED <<gate, sent, answer, wire, reports, boot, breaks, deaths, stored>>

\* The office is killed and restarts: without reports, and every call to it broken.
OfficeRestart ==
    /\ boot < MaxBoots
    /\ boot' = boot + 1
    /\ wire' = {} /\ reports' = <<>>
    /\ UNCHANGED <<gate, sent, answer, breaks, deaths, shown, stored>>

-------------------------------------------------------------------------------

\* What the gate's reporter thread does, and the office for a gate that waits.
Reporter(g) == SubmitReport(g) \/ Returned(g) \/ Refused(g)
Service(g) == sent[g] # None /\ Execute(sent[g])

Next ==
    \/ \E g \in Gates : Count(g) \/ Reporter(g) \/ Break(g) \/ GateRestart(g)
    \/ \E c \in wire : Execute(c)
    \/ \E m \in Names : GetReport(m)
    \/ OfficeRestart

SafeSpec == Init /\ [][Next]_vars

\* Reporters run, and an office that is up executes the calls gates wait for.
\* Calls given up, validations, questions and failures are owed by nobody.
Spec == SafeSpec /\ \A g \in Gates : WF_vars(Reporter(g)) /\ WF_vars(Service(g))

-------------------------------------------------------------------------------
(* Properties *)

Shown == [name : Names, report : Calls \cup {None}, late : BOOLEAN, boot : Nat]

TypeOK ==
    /\ name \in [Gates -> Names] /\ life \in [Gates -> Nat]
    /\ \A g \in Gates : counted[g] \in 0..MaxCount[g] /\ next[g] \in 1..(counted[g] + 1)
    /\ sent \in [Gates -> Calls \cup {None}]
    /\ answer \in [Gates -> [ok : BOOLEAN, boot : Nat] \cup {None}]
    /\ wire \subseteq Calls
    /\ DOMAIN reports \subseteq Names \ {Empty}
    /\ Range(reports) \subseteq [report : Calls, late : BOOLEAN]
    /\ boot \in 1..MaxBoots /\ breaks \in 0..MaxBreaks /\ deaths \in 0..MaxDeaths
    /\ shown \in Shown
    /\ stored \in [Gates -> [n : Nat, boot : Nat]]

Alone(g) == \A h \in Gates \ {g} : name[h] # name[g]

\* Report r is of the same process as report s, or of a later one, and not older.
NotOlder(r, s) == r.life > s.life \/ (r.life = s.life /\ r.n >= s.n)

\* A gate that shares its name with no other, once an office acknowledged its
\* report: until it or the office restarts, the office knows that report or a
\* newer one, except when a call the gate had given up was executed since.
StaleOnlyIfLate ==
    \A g \in Gates :
        Alone(g) /\ stored[g].boot = boot =>
            /\ Known(name[g])
            /\ LET kept == reports[name[g]]
               IN  kept.late \/ NotOlder(kept.report, [life |-> life[g], n |-> stored[g].n])

\* Who keeps asking for the report of a name never sees it disappear or go back,
\* unless the office restarted, a call given up was executed late, or two gates
\* have the name.
ReaderForward ==
    [][shown.report # None /\ shown'.name = shown.name /\ shown'.boot = shown.boot =>
          /\ shown'.report # None
          /\ \/ shown'.report.gate # shown.report.gate
             \/ shown'.late
             \/ NotOlder(shown'.report, shown.report)]_vars

\* Through broken connections and restarts of either side, gates that can keep up
\* with their validations are up to date again and again: an office has
\* acknowledged everything they counted.  All but a gate without a name, whose
\* reports are refused and tried again for ever.
AllReported ==
    []<>(\A g \in Gates : name[g] = Empty \/ stored[g].n = counted[g])

\* A restart of the office makes no gate unknown for ever: a validation that no
\* office has answered for yet makes the gate's name known, again if need be, unless
\* the gate dies and loses it.  What was answered before the restart does not.
KnownAgain ==
    \A g \in Gates :
        name[g] # Empty /\ answer[g] = None /\ counted[g] > stored[g].n ~>
            Known(name[g]) \/ counted[g] = 0
===============================================================================
