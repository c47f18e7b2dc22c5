------------------------- MODULE ReportPipelineProofs -------------------------
(***************************************************************************)
(* Safety of ReportPipeline for every set of gates, however they are named, *)
(* and every number of validations, broken connections and restarts.       *)
(***************************************************************************)
EXTENDS ReportPipeline, TLAPS

USE BoundsAssumption, NamesAssumption, GateIdsAssumption, NoneAssumption

-------------------------------------------------------------------------------
(* Types, and what a gate offers *)

Answers == [ok : BOOLEAN, boot : Nat]
Stores == [n : Nat, boot : Nat]

GateTypes ==
    /\ name \in [Gates -> Names] /\ life \in [Gates -> Nat]
    /\ counted \in [Gates -> Nat] /\ next \in [Gates -> Nat]
    /\ sent \in [Gates -> Calls \cup {None}]
    /\ answer \in [Gates -> Answers \cup {None}]
    /\ stored \in [Gates -> Stores]

OfficeTypes ==
    /\ wire \subseteq Calls
    /\ DOMAIN reports \subseteq Names \ {Empty}
    /\ \A m \in DOMAIN reports : reports[m] \in [report : Calls, late : BOOLEAN]
    /\ boot \in 1..MaxBoots /\ breaks \in 0..MaxBreaks /\ deaths \in 0..MaxDeaths
    /\ shown \in Shown

\* A gate offers what it has counted, and never less than it was acknowledged.
Offering ==
    \A g \in Gates :
        /\ counted[g] <= MaxCount[g] /\ next[g] <= counted[g] + 1
        /\ stored[g].n < next[g]
        /\ sent[g] # None => /\ sent[g].gate = g /\ sent[g].life = life[g]
                             /\ next[g] <= sent[g].n /\ sent[g].n <= counted[g]
        /\ answer[g] # None => sent[g] # None

\* Acknowledgements and answers to questions come from this office or earlier ones.
Booted ==
    /\ \A g \in Gates :
          stored[g].boot <= boot /\ (answer[g] # None => answer[g].boot <= boot)
    /\ shown.boot <= boot

Inv == GateTypes /\ OfficeTypes /\ Offering /\ Booted

LEMMA InvIsTypeOK == Inv => TypeOK
<1> SUFFICES ASSUME Inv PROVE TypeOK
  OBVIOUS
<1> USE DEF Inv
<1>1. \A g \in Gates : counted[g] \in 0..MaxCount[g] /\ next[g] \in 1..(counted[g] + 1)
  BY DEF GateTypes, Offering, Stores
<1>2. Range(reports) \subseteq [report : Calls, late : BOOLEAN]
  BY DEF OfficeTypes, Range
<1> QED
  BY <1>1, <1>2 DEF TypeOK, GateTypes, OfficeTypes, Answers, Stores

LEMMA InitInv == Init => Inv
<1> SUFFICES ASSUME Init PROVE Inv
  OBVIOUS
<1>1. name \in [Gates -> Names]
  <2>1. PICK env \in GateIds : name = [g \in Gates |-> get_env_gate_id(env[g])]
    BY DEF Init
  <2>2. \A g \in Gates : get_env_gate_id(env[g]) \in Names
    BY DEF get_env_gate_id, Names
  <2> QED
    BY <2>1, <2>2
<1>2. GateTypes
  <2>1. NothingStored \in Stores /\ 1 \in Nat /\ 0 \in Nat
    BY DEF NothingStored, Stores
  <2>2. /\ life \in [Gates -> Nat] /\ counted \in [Gates -> Nat]
        /\ next \in [Gates -> Nat] /\ sent \in [Gates -> Calls \cup {None}]
        /\ answer \in [Gates -> Answers \cup {None}]
    BY DEF Init
  <2>3. stored \in [Gates -> Stores]
    BY <2>1 DEF Init
  <2> QED
    BY <1>1, <2>2, <2>3 DEF GateTypes
<1>3. DOMAIN reports = {}
  BY DEF Init
<1>4. OfficeTypes
  BY <1>3 DEF Init, OfficeTypes, Shown, Names
<1>5. Offering /\ Booted
  BY DEF Init, Offering, Booted, NothingStored
<1> QED
  BY <1>2, <1>4, <1>5 DEF Inv

-------------------------------------------------------------------------------
(* Each step keeps the types *)

LEMMA CountInv == ASSUME Inv, NEW g \in Gates, Count(g) PROVE Inv'
<1> USE DEF Inv, Count
<1>1. counted[g] \in Nat /\ counted[g] + 1 <= MaxCount[g]
  BY DEF GateTypes
<1>2. counted' \in [Gates -> Nat]
  BY <1>1 DEF GateTypes
<1>3. GateTypes'
  BY <1>2 DEF GateTypes
<1>4. OfficeTypes'
  BY DEF OfficeTypes
<1>5. Offering'
  BY <1>1 DEF GateTypes, Offering, Calls
<1>6. Booted'
  BY DEF Booted
<1> QED
  BY <1>3, <1>4, <1>5, <1>6

LEMMA SubmitInv == ASSUME Inv, NEW g \in Gates, SubmitReport(g) PROVE Inv'
<1> USE DEF Inv
<1>1. PICK n \in next[g]..counted[g] :
        LET c == [gate |-> g, life |-> life[g], n |-> n, try |-> breaks]
        IN  sent' = [sent EXCEPT ![g] = c] /\ wire' = wire \cup {c}
  BY Zenon DEF SubmitReport
<1> DEFINE c == [gate |-> g, life |-> life[g], n |-> n, try |-> breaks]
<1>2. sent' = [sent EXCEPT ![g] = c] /\ wire' = wire \cup {c}
  BY <1>1
<1>3. n \in Nat /\ next[g] <= n /\ n <= counted[g]
  BY <1>1 DEF GateTypes
<1>4. c \in Calls
  BY <1>3 DEF GateTypes, OfficeTypes, Calls
<1>5. c.gate = g /\ c.life = life[g] /\ c.n = n
  OBVIOUS
<1> HIDE DEF c
<1> USE DEF SubmitReport, gate
<1>6. GateTypes'
  BY <1>2, <1>4 DEF GateTypes
<1>7. OfficeTypes'
  BY <1>2, <1>4 DEF OfficeTypes
<1>8. Offering'
  BY <1>2, <1>3, <1>4, <1>5 DEF GateTypes, Offering
<1>9. Booted'
  BY DEF Booted
<1> QED
  BY <1>6, <1>7, <1>8, <1>9

\* What the gate that waits no longer, for whatever reason, offers next.
LEMMA GaveUpInv ==
  ASSUME Inv, NEW g \in Gates, sent[g] # None, GiveUp(g, sent[g].n),
         wire' \subseteq wire, breaks' \in 0..MaxBreaks
  PROVE  Inv'
<1> USE DEF Inv, GiveUp
<1>1. sent[g] \in Calls
  BY DEF GateTypes
<1>2. /\ sent[g].n \in Nat /\ next[g] <= sent[g].n /\ sent[g].n <= counted[g]
  BY <1>1 DEF Offering, Calls
<1>3. next' \in [Gates -> Nat]
  BY <1>2 DEF GateTypes
<1>4. GateTypes'
  BY <1>3 DEF GateTypes
<1>5. OfficeTypes'
  BY DEF OfficeTypes
<1>6. Offering'
  BY <1>2 DEF GateTypes, Offering, Stores
<1>7. Booted'
  BY DEF Booted
<1> QED
  BY <1>4, <1>5, <1>6, <1>7

LEMMA BreakInv == ASSUME Inv, NEW g \in Gates, Break(g) PROVE Inv'
<1>1. wire' \subseteq wire
  BY DEF Break
<1>2. breaks' \in 0..MaxBreaks
  BY DEF Break, Inv, OfficeTypes
<1> QED
  BY <1>1, <1>2, GaveUpInv DEF Break

LEMMA RefusedInv == ASSUME Inv, NEW g \in Gates, Refused(g) PROVE Inv'
<1>1. breaks' \in 0..MaxBreaks
  BY DEF Refused, Inv, OfficeTypes
<1> QED
  BY <1>1, GaveUpInv DEF Refused

LEMMA RestartInv == ASSUME Inv, NEW g \in Gates, GateRestart(g) PROVE Inv'
<1> USE DEF Inv, GateRestart
<1>1. NothingStored \in Stores /\ NothingStored.n = 0 /\ NothingStored.boot = 0
  BY DEF NothingStored, Stores
<1>2. GateTypes'
  BY <1>1 DEF GateTypes
<1>3. OfficeTypes'
  BY DEF OfficeTypes
<1>4. Offering'
  BY <1>1 DEF GateTypes, Offering
<1>5. Booted'
  BY <1>1 DEF GateTypes, OfficeTypes, Booted
<1> QED
  BY <1>2, <1>3, <1>4, <1>5

LEMMA ReturnedInv == ASSUME Inv, NEW g \in Gates, Returned(g) PROVE Inv'
<1> USE DEF Inv, Returned
<1>1. answer[g] \in Answers /\ answer[g] # None
  BY DEF GateTypes
<1>2. sent[g] \in Calls /\ sent[g] # None
  BY <1>1 DEF GateTypes, Offering
<1>3. sent[g].n \in Nat /\ next[g] <= sent[g].n /\ sent[g].n <= counted[g]
  BY <1>2 DEF Offering, Calls
<1>4. answer[g].boot \in Nat /\ answer[g].boot <= boot
  BY <1>1 DEF Answers, Booted
<1> DEFINE s == IF answer[g].ok THEN [n |-> sent[g].n, boot |-> answer[g].boot]
                ELSE stored[g]
           x == IF answer[g].ok THEN sent[g].n + 1 ELSE sent[g].n
<1>5. s \in Stores
  BY <1>3, <1>4 DEF Stores, GateTypes
<1>6. x \in Nat /\ next[g] <= x /\ x <= counted[g] + 1
  BY <1>3 DEF GateTypes
<1>7. s.n < x
  BY <1>3 DEF GateTypes, Offering, Stores
<1>8. s.boot <= boot
  BY <1>4 DEF Booted
<1>9. stored' = [stored EXCEPT ![g] = s] /\ next' = [next EXCEPT ![g] = x]
  BY Zenon
<1> HIDE DEF s, x
<1>10. GateTypes'
  BY <1>5, <1>6, <1>9 DEF GateTypes
<1>11. OfficeTypes'
  BY DEF OfficeTypes
<1>12. Offering'
  BY <1>6, <1>7, <1>9 DEF GateTypes, Offering
<1>13. Booted'
  BY <1>8, <1>9 DEF GateTypes, Booted
<1> QED
  BY <1>10, <1>11, <1>12, <1>13

\* What an answer to a call does to the answers of the gates.
LEMMA AnswerTyped ==
  ASSUME Inv, NEW c \in Calls, NEW ok \in BOOLEAN, Answer(c, ok)
  PROVE  /\ answer' \in [Gates -> Answers \cup {None}]
         /\ \A g \in Gates :
               \/ answer'[g] = answer[g]
               \/ sent[g] = c /\ c.gate = g /\ answer'[g] = [ok |-> ok, boot |-> boot]
<1> DEFINE a == [ok |-> ok, boot |-> boot]
<1>1. c.gate \in Gates
  BY DEF Calls
<1>2. a \in Answers
  BY DEF Answers, Inv, OfficeTypes
<1>3. answer \in [Gates -> Answers \cup {None}]
  BY DEF Inv, GateTypes
<1>4. \/ answer' = answer
      \/ sent[c.gate] = c /\ answer' = [answer EXCEPT ![c.gate] = a]
  BY DEF Answer, Late
<1> HIDE DEF a
<1>5. /\ answer' \in [Gates -> Answers \cup {None}]
      /\ \A g \in Gates : \/ answer'[g] = answer[g]
                          \/ sent[g] = c /\ c.gate = g /\ answer'[g] = a
  BY <1>1, <1>2, <1>3, <1>4
<1> QED
  BY <1>5 DEF a

\* m_reports[m] = *request keeps every other report, and is a function of names.
LEMMA AssignedTyped ==
  ASSUME Inv, NEW c \in Calls, NEW m \in Names \ {Empty}
  PROVE  /\ DOMAIN Assigned(m, c) = DOMAIN reports \cup {m}
         /\ Assigned(m, c)[m] = [report |-> c, late |-> Late(c)]
         /\ \A k \in DOMAIN reports : k # m => Assigned(m, c)[k] = reports[k]
         /\ \A k \in DOMAIN Assigned(m, c) :
               Assigned(m, c)[k] \in [report : Calls, late : BOOLEAN]
<1>1. Late(c) \in BOOLEAN
  BY DEF Late
<1> DEFINE r == [report |-> c, late |-> Late(c)]
<1>2. r \in [report : Calls, late : BOOLEAN]
  BY <1>1
<1> HIDE DEF r
<1>3. Assigned(m, c) = [k \in DOMAIN reports \cup {m} |-> IF k = m THEN r ELSE reports[k]]
  BY Zenon DEF Assigned, r
<1>4. \A k \in DOMAIN reports : reports[k] \in [report : Calls, late : BOOLEAN]
  BY DEF Inv, OfficeTypes
<1>5. /\ DOMAIN Assigned(m, c) = DOMAIN reports \cup {m}
      /\ Assigned(m, c)[m] = r
      /\ \A k \in DOMAIN reports : k # m => Assigned(m, c)[k] = reports[k]
      /\ \A k \in DOMAIN Assigned(m, c) :
            Assigned(m, c)[k] \in [report : Calls, late : BOOLEAN]
  BY <1>2, <1>3, <1>4
<1> QED
  BY <1>5 DEF r

LEMMA AssignedStores ==
  ASSUME Inv, NEW c \in Calls, NEW m \in Names \ {Empty}, reports' = Assigned(m, c)
  PROVE  /\ DOMAIN reports' = DOMAIN reports \cup {m}
         /\ reports'[m] = [report |-> c, late |-> Late(c)]
         /\ \A k \in DOMAIN reports : k # m => reports'[k] = reports[k]
<1>1. /\ DOMAIN Assigned(m, c) = DOMAIN reports \cup {m}
      /\ Assigned(m, c)[m] = [report |-> c, late |-> Late(c)]
      /\ \A k \in DOMAIN reports : k # m => Assigned(m, c)[k] = reports[k]
  BY AssignedTyped
<1> QED
  BY <1>1, Zenon

\* Execute refuses an empty name, and else stores the call; it does nothing else.
LEMMA ExecuteCases ==
  ASSUME Inv, NEW c \in wire, Execute(c)
  PROVE  /\ c \in Calls /\ wire' = wire \ {c}
         /\ UNCHANGED <<gate, sent, boot, breaks, deaths, shown, stored>>
         /\ \/ name[c.gate] = Empty /\ Answer(c, FALSE) /\ reports' = reports
            \/ /\ name[c.gate] \in Names \ {Empty}
               /\ Answer(c, TRUE) /\ reports' = Assigned(name[c.gate], c)
<1>1. c \in Calls
  BY DEF Inv, OfficeTypes
<1>2. name[c.gate] \in Names
  BY <1>1 DEF Inv, GateTypes, Calls
<1> QED
  BY <1>1, <1>2, Zenon DEF Execute

LEMMA ExecuteInv == ASSUME Inv, NEW c \in wire, Execute(c) PROVE Inv'
<1>1. /\ c \in Calls /\ wire' = wire \ {c}
      /\ UNCHANGED <<gate, sent, boot, breaks, deaths, shown, stored>>
  BY ExecuteCases
<1>2. PICK ok \in BOOLEAN : Answer(c, ok)
  BY ExecuteCases
<1>3. /\ answer' \in [Gates -> Answers \cup {None}]
      /\ \A g \in Gates :
            \/ answer'[g] = answer[g]
            \/ sent[g] = c /\ c.gate = g /\ answer'[g] = [ok |-> ok, boot |-> boot]
  BY <1>1, <1>2, AnswerTyped
<1>4. /\ DOMAIN reports' \subseteq Names \ {Empty}
      /\ \A m \in DOMAIN reports' : reports'[m] \in [report : Calls, late : BOOLEAN]
  <2>1. CASE reports' = reports
    BY <2>1 DEF Inv, OfficeTypes
  <2>2. ASSUME NEW m \in Names \ {Empty}, reports' = Assigned(m, c)
        PROVE  /\ DOMAIN reports' \subseteq Names \ {Empty}
               /\ \A k \in DOMAIN reports' :
                     reports'[k] \in [report : Calls, late : BOOLEAN]
    <3>1. /\ DOMAIN Assigned(m, c) = DOMAIN reports \cup {m}
          /\ \A k \in DOMAIN Assigned(m, c) :
                Assigned(m, c)[k] \in [report : Calls, late : BOOLEAN]
      BY <1>1, AssignedTyped
    <3> QED
      BY <2>2, <3>1 DEF Inv, OfficeTypes
  <2> QED
    BY <2>1, <2>2, ExecuteCases
<1> USE DEF gate
<1>5. GateTypes'
  BY <1>1, <1>3 DEF Inv, GateTypes
<1>6. OfficeTypes'
  BY <1>1, <1>4 DEF Inv, OfficeTypes
<1>7. Offering'
  BY <1>1, <1>3 DEF Inv, Offering
<1>8. Booted'
  <2>1. boot <= boot
    BY DEF Inv, OfficeTypes
  <2> QED
    BY <1>1, <1>3, <2>1 DEF Inv, Booted
<1> QED
  BY <1>5, <1>6, <1>7, <1>8 DEF Inv

LEMMA GetReportInv == ASSUME Inv, NEW m \in Names, GetReport(m) PROVE Inv'
<1> USE DEF Inv, GetReport, gate
<1> DEFINE r == IF Known(m) THEN reports[m].report ELSE None
           l == Known(m) /\ reports[m].late
<1>1. r \in Calls \cup {None} /\ l \in BOOLEAN
  BY DEF OfficeTypes, Known
<1>2. shown' = [name |-> m, report |-> r, late |-> l, boot |-> boot]
  BY Zenon
<1> HIDE DEF r, l
<1>3. shown' \in Shown /\ shown'.boot <= boot
  BY <1>1, <1>2 DEF Shown, OfficeTypes
<1>4. GateTypes'
  BY DEF GateTypes
<1>5. OfficeTypes'
  BY <1>3 DEF OfficeTypes
<1>6. Offering'
  BY DEF Offering
<1>7. Booted'
  BY <1>3 DEF Booted
<1> QED
  BY <1>4, <1>5, <1>6, <1>7

LEMMA OfficeRestartInv == ASSUME Inv, OfficeRestart PROVE Inv'
<1> USE DEF Inv, OfficeRestart, gate
<1>1. boot' \in 1..MaxBoots /\ boot < boot'
  BY DEF OfficeTypes
<1>2. DOMAIN reports' = {}
  OBVIOUS
<1>3. GateTypes'
  BY DEF GateTypes
<1>4. OfficeTypes'
  BY <1>1, <1>2 DEF OfficeTypes
<1>5. Offering'
  BY DEF Offering
<1>6. Booted'
  BY <1>1 DEF GateTypes, OfficeTypes, Booted, Answers, Stores, Shown
<1> QED
  BY <1>3, <1>4, <1>5, <1>6

\* The steps of Next, one by one.
LEMMA NextCases ==
  ASSUME Next
  PROVE  \/ \E g \in Gates : \/ Count(g) \/ SubmitReport(g) \/ Returned(g)
                             \/ Refused(g) \/ Break(g) \/ GateRestart(g)
         \/ \E c \in wire : Execute(c)
         \/ \E m \in Names : GetReport(m)
         \/ OfficeRestart
BY Zenon DEF Next, Reporter

LEMMA NextInv == Inv /\ [Next]_vars => Inv'
<1> SUFFICES ASSUME Inv, [Next]_vars PROVE Inv'
  OBVIOUS
<1>1. CASE UNCHANGED vars
  BY <1>1 DEF vars, gate, Inv, GateTypes, OfficeTypes, Offering, Booted
<1>2. ASSUME Next PROVE Inv'
  <2>1. ASSUME NEW g \in Gates,
               \/ Count(g) \/ SubmitReport(g) \/ Returned(g)
               \/ Refused(g) \/ Break(g) \/ GateRestart(g)
        PROVE  Inv'
    BY <2>1, CountInv, SubmitInv, ReturnedInv, RefusedInv, BreakInv, RestartInv
  <2> QED
    BY <1>2, <2>1, NextCases, ExecuteInv, GetReportInv, OfficeRestartInv
<1> QED
  BY <1>1, <1>2

LEMMA Invariance == SafeSpec => []Inv
BY InitInv, NextInv, PTL DEF SafeSpec

\* TypeOK holds of every reachable state.
THEOREM TypeCorrect == SafeSpec => []TypeOK
BY Invariance, InvIsTypeOK, PTL

-------------------------------------------------------------------------------
(* What the office knows of a gate *)

\* The office knows the n-th report of g's process or a newer one, or one it
\* executed after the gate had given it up.
KnowsOf(g, n) ==
    /\ Known(name[g])
    /\ \/ reports[name[g]].late
       \/ NotOlder(reports[name[g]].report, [life |-> life[g], n |-> n])

\* It does of what it acknowledged, from the execution on: while the answer is
\* on its way as well as once the gate has it.
Fresh(g) ==
    Alone(g) =>
        /\ stored[g].boot = boot => KnowsOf(g, stored[g].n)
        /\ answer[g] # None =>
              (answer[g].ok /\ answer[g].boot = boot => KnowsOf(g, sent[g].n))

AllFresh == \A g \in Gates : Fresh(g)

LEMMA AllFreshIsStaleOnlyIfLate == AllFresh => StaleOnlyIfLate
BY Zenon DEF AllFresh, Fresh, KnowsOf, StaleOnlyIfLate

\* A gate none of whose facts a step touches stays as well known as it was.
LEMMA FreshKept ==
  ASSUME NEW g \in Gates, Fresh(g),
         UNCHANGED <<name, life, boot, reports>>,
         stored'[g] = stored[g], answer'[g] = answer[g],
         answer[g] # None => sent'[g] = sent[g]
  PROVE  Fresh(g)'
BY DEF Fresh, Alone, KnowsOf, Known

LEMMA GateFresh ==
  ASSUME Inv, AllFresh, NEW g \in Gates,
         \/ SubmitReport(g) \/ Returned(g) \/ Refused(g) \/ Break(g)
  PROVE  AllFresh'
<1> USE DEF AllFresh
<1>1. UNCHANGED <<name, life, boot, reports>>
  BY DEF SubmitReport, Returned, Refused, Break, GiveUp, gate
<1>2. \A h \in Gates \ {g} : /\ sent'[h] = sent[h] /\ answer'[h] = answer[h]
                             /\ stored'[h] = stored[h]
  BY DEF SubmitReport, Returned, Refused, Break, GiveUp, gate, Inv, GateTypes
<1>3. \A h \in Gates \ {g} : Fresh(h)'
  BY <1>1, <1>2, FreshKept
<1>4. Fresh(g)'
  <2>1. CASE SubmitReport(g)
    <3>1. answer[g] = None
      BY <2>1 DEF SubmitReport, Inv, Offering
    <3>2. answer' = answer /\ stored' = stored
      BY <2>1 DEF SubmitReport
    <3> QED
      BY <1>1, <3>1, <3>2, FreshKept
  <2>2. CASE Returned(g) /\ answer[g].ok
    <3>1. answer[g] # None
      BY <2>2 DEF Returned
    <3>2. stored'[g].n = sent[g].n /\ stored'[g].boot = answer[g].boot /\ answer'[g] = None
      BY <2>2 DEF Returned, Inv, GateTypes
    <3> QED
      BY <1>1, <2>2, <3>1, <3>2 DEF Fresh, Alone, KnowsOf, Known
  <2>3. CASE stored'[g] = stored[g] /\ answer'[g] = None
    BY <1>1, <2>3 DEF Fresh, Alone, KnowsOf, Known
  <2>4. CASE Returned(g) /\ ~answer[g].ok
    <3>1. stored'[g] = stored[g] /\ answer'[g] = None
      BY <2>4 DEF Returned, Inv, GateTypes
    <3> QED
      BY <2>3, <3>1
  <2>5. CASE Refused(g) \/ Break(g)
    <3>1. stored'[g] = stored[g] /\ answer'[g] = None
      BY <2>5 DEF Refused, Break, GiveUp, Inv, GateTypes
    <3> QED
      BY <2>3, <3>1
  <2> QED
    BY <2>1, <2>2, <2>4, <2>5
<1> QED
  BY <1>3, <1>4

LEMMA RestartFresh ==
  ASSUME Inv, AllFresh, NEW g \in Gates, GateRestart(g) PROVE AllFresh'
<1> USE DEF AllFresh, GateRestart
<1>1. \A h \in Gates \ {g} : /\ answer'[h] = answer[h] /\ stored'[h] = stored[h]
                             /\ sent'[h] = sent[h] /\ life'[h] = life[h]
  BY DEF Inv, GateTypes
<1>2. \A h \in Gates \ {g} : Fresh(h)'
  BY <1>1 DEF Fresh, Alone, KnowsOf, Known
<1>3. answer'[g] = None /\ stored'[g].boot = 0 /\ boot' # 0
  BY DEF Inv, GateTypes, OfficeTypes, NothingStored
<1>4. Fresh(g)'
  BY <1>3 DEF Fresh
<1> QED
  BY <1>2, <1>4

\* An execution in time stores what the gate waits for, which is newer than all
\* that was acknowledged to it; one that comes late is marked.
LEMMA ExecuteFresh ==
  ASSUME Inv, AllFresh, NEW c \in wire, Execute(c) PROVE AllFresh'
<1>1. /\ c \in Calls /\ wire' = wire \ {c}
      /\ UNCHANGED <<gate, sent, boot, breaks, deaths, shown, stored>>
  BY ExecuteCases
<1> DEFINE m == name[c.gate]
<1>2. c.gate \in Gates
  BY <1>1 DEF Calls
<1> SUFFICES ASSUME NEW g \in Gates PROVE Fresh(g)'
  BY DEF AllFresh
<1>3. Fresh(g)
  BY DEF AllFresh
<1>4. CASE m = Empty /\ Answer(c, FALSE) /\ reports' = reports
  <2>1. \/ answer'[g] = answer[g]
        \/ answer'[g] = [ok |-> FALSE, boot |-> boot]
    BY <1>1, <1>4, AnswerTyped
  <2> QED
    BY <1>1, <1>3, <1>4, <2>1 DEF Fresh, Alone, KnowsOf, Known, gate
<1>5. CASE /\ m \in Names \ {Empty} /\ Answer(c, TRUE)
           /\ reports' = Assigned(m, c)
  <2>1. /\ DOMAIN reports' = DOMAIN reports \cup {m}
        /\ reports'[m] = [report |-> c, late |-> Late(c)]
        /\ \A k \in DOMAIN reports : k # m => reports'[k] = reports[k]
    <3>1. ASSUME NEW k \in Names \ {Empty}
          PROVE  /\ DOMAIN Assigned(k, c) = DOMAIN reports \cup {k}
                 /\ Assigned(k, c)[k] = [report |-> c, late |-> Late(c)]
                 /\ \A x \in DOMAIN reports : x # k => Assigned(k, c)[x] = reports[x]
      BY <1>1, AssignedTyped
    <3> HIDE DEF m
    <3> QED
      BY <1>5, <3>1, Zenon
  <2>2. \/ answer'[g] = answer[g]
        \/ sent[g] = c /\ c.gate = g /\ answer'[g] = [ok |-> TRUE, boot |-> boot]
    BY <1>1, <1>5, AnswerTyped
  <2>3. CASE name[g] # m
    <3>1. answer'[g] = answer[g]
      BY <2>2, <2>3
    <3>2. Known(name[g]) => Known(name[g])' /\ reports'[name[g]] = reports[name[g]]
      BY <1>1, <2>1, <2>3 DEF Known, gate
    <3> HIDE DEF m
    <3> QED
      BY <1>1, <1>3, <3>1, <3>2 DEF Fresh, Alone, KnowsOf, gate
  <2>4. CASE name[g] = m /\ c.gate # g
    BY <1>1, <1>2, <2>4 DEF Fresh, Alone, gate
  <2>5. CASE c.gate = g
    <3>1. Known(name[g])' /\ reports'[name[g]] = [report |-> c, late |-> Late(c)]
      BY <1>1, <2>1, <2>5 DEF Known, gate
    <3>2. CASE Late(c)
      BY <1>1, <3>1, <3>2 DEF Fresh, KnowsOf, gate
    <3>3. CASE ~Late(c)
      <4>1. sent[g] = c /\ c # None
        BY <1>1, <2>5, <3>3 DEF Late
      <4>2. c.life = life[g] /\ c.n >= stored[g].n /\ c.n >= c.n
        BY <1>1, <4>1 DEF Inv, GateTypes, Offering, Stores, Calls
      <4> HIDE DEF m
      <4>3. NotOlder(c, [life |-> life[g], n |-> stored[g].n])
        BY <4>2 DEF NotOlder
      <4>4. NotOlder(c, [life |-> life[g], n |-> sent[g].n])
        BY <4>1, <4>2 DEF NotOlder
      <4>5. KnowsOf(g, stored[g].n)' /\ KnowsOf(g, sent[g].n)'
        BY <1>1, <3>1, <4>3, <4>4 DEF KnowsOf, gate
      <4> QED
        BY <4>5 DEF Fresh
    <3> QED
      BY <3>2, <3>3
  <2> QED
    BY <2>3, <2>4, <2>5
<1> QED
  BY <1>4, <1>5, ExecuteCases

LEMMA OfficeRestartFresh == ASSUME Inv, OfficeRestart PROVE AllFresh'
<1>1. /\ stored' = stored /\ answer' = answer
      /\ boot' = boot + 1 /\ boot \in Nat
  BY DEF OfficeRestart, Inv, OfficeTypes
<1>2. \A g \in Gates : /\ stored[g].boot \in Nat /\ stored[g].boot <= boot
                       /\ answer[g] # None => /\ answer[g].boot \in Nat
                                              /\ answer[g].boot <= boot
  BY DEF Inv, GateTypes, Booted, Stores, Answers
<1> QED
  BY <1>1, <1>2 DEF AllFresh, Fresh

LEMMA AllFreshNext == Inv /\ AllFresh /\ [Next]_vars => AllFresh'
<1> SUFFICES ASSUME Inv, AllFresh, [Next]_vars PROVE AllFresh'
  OBVIOUS
<1>1. CASE UNCHANGED <<name, life, boot, reports, sent, stored, answer>>
  BY <1>1, FreshKept DEF AllFresh
<1>2. CASE UNCHANGED vars
  BY <1>1, <1>2 DEF vars, gate
<1>3. ASSUME NEW g \in Gates, Count(g) PROVE AllFresh'
  BY <1>1, <1>3 DEF Count
<1>4. ASSUME NEW m \in Names, GetReport(m) PROVE AllFresh'
  BY <1>1, <1>4 DEF GetReport, gate
<1>5. ASSUME NEW g \in Gates,
             \/ SubmitReport(g) \/ Returned(g) \/ Refused(g) \/ Break(g)
      PROVE  AllFresh'
  BY <1>5, GateFresh
<1> QED
  BY <1>2, <1>3, <1>4, <1>5, RestartFresh, ExecuteFresh, OfficeRestartFresh, NextCases

\* StaleOnlyIfLate holds of every reachable state: what the office acknowledged
\* to a gate that shares its name with none, it knows until one of them restarts.
THEOREM StaleIsLate == SafeSpec => []StaleOnlyIfLate
<1>1. Init => AllFresh
  BY DEF Init, AllFresh, Fresh, NothingStored
<1> QED
  BY <1>1, Invariance, AllFreshNext, AllFreshIsStaleOnlyIfLate, PTL DEF SafeSpec

-------------------------------------------------------------------------------
(* What somebody who asks for reports is shown *)

\* The newest item g has offered, or may offer next.
Frontier(g) == IF sent[g] # None THEN sent[g].n ELSE next[g]

\* Call c was made by its gate's process or an earlier one, and not after the
\* call the gate waits for.
Past(c) ==
    \/ c.life < life[c.gate]
    \/ c.life = life[c.gate] /\ c.n <= Frontier(c.gate)

PastCalls == {c \in Calls : Past(c)}

AllPast ==
    /\ wire \subseteq PastCalls
    /\ \A m \in DOMAIN reports : reports[m].report \in PastCalls
    /\ shown.report \in PastCalls \cup {None}

\* The office still has what it has shown, or something that may take its place.
StillKnown ==
    shown.report # None /\ shown.boot = boot =>
        /\ Known(shown.name)
        /\ LET kept == reports[shown.name]
           IN  \/ kept.report.gate # shown.report.gate
               \/ kept.late
               \/ NotOlder(kept.report, shown.report)

\* A gate only moves on: what is past for it stays so.
LEMMA PastStays ==
  ASSUME Inv, [Next]_vars, NEW c \in Calls, Past(c) PROVE Past(c)'
<1> DEFINE g == c.gate
<1>1. g \in Gates /\ c.life \in Nat /\ c.n \in Nat
  BY DEF Calls
<1>2. /\ life[g] \in Nat /\ next[g] \in Nat
      /\ sent[g] # None => sent[g].n \in Nat /\ next[g] <= sent[g].n
  BY <1>1 DEF Inv, GateTypes, Offering, Calls
<1>3. CASE UNCHANGED <<life, next, sent>>
  BY <1>3 DEF Past, Frontier
<1>4. ASSUME life'[g] = life[g], next'[g] = next[g], sent'[g] = sent[g]
      PROVE  Past(c)'
  BY <1>4 DEF Past, Frontier
<1>5. ASSUME NEW h \in Gates,
             \/ SubmitReport(h) \/ Returned(h) \/ Refused(h) \/ Break(h) \/ GateRestart(h)
      PROVE  Past(c)'
  <2>1. CASE h # g
    <3>1. life'[g] = life[g] /\ next'[g] = next[g] /\ sent'[g] = sent[g]
      BY <1>1, <1>5, <2>1 DEF SubmitReport, Returned, Refused, Break, GateRestart,
                              GiveUp, gate, Inv, GateTypes
    <3> QED
      BY <1>4, <2>1, <3>1
  <2>2. CASE h = g /\ GateRestart(g)
    <3>1. life'[g] = life[g] + 1
      BY <1>1, <2>2 DEF GateRestart, Inv, GateTypes
    <3> QED
      BY <1>1, <1>2, <3>1 DEF Past
  <2>3. CASE h = g /\ SubmitReport(g)
    <3>1. PICK n \in next[g]..counted[g] :
             sent' = [sent EXCEPT ![g] = [gate |-> g, life |-> life[g], n |-> n,
                                          try |-> breaks]]
      BY <2>3, Zenon DEF SubmitReport
    <3>2. sent'[g].n = n /\ n >= next[g] /\ n \in Nat
      BY <1>1, <1>2, <3>1 DEF Inv, GateTypes
    <3>3. [gate |-> g, life |-> life[g], n |-> n, try |-> breaks] \in Calls
      BY <1>1, <1>2, <3>2 DEF Calls, Inv, OfficeTypes
    <3>4. sent'[g] # None /\ sent[g] = None /\ life' = life
      BY <1>1, <2>3, <3>1, <3>3 DEF SubmitReport, gate, Inv, GateTypes
    <3> QED
      BY <1>1, <1>2, <3>2, <3>4 DEF Past, Frontier
  <2>4. CASE h = g /\ (Returned(g) \/ Refused(g) \/ Break(g))
    <3>1. sent[g] # None /\ life' = life /\ sent'[g] = None
      BY <1>1, <2>4 DEF Returned, Refused, Break, GiveUp, Inv, GateTypes, Offering
    <3>2. next'[g] = sent[g].n \/ next'[g] = sent[g].n + 1
      BY <1>1, <2>4 DEF Returned, Refused, Break, GiveUp, Inv, GateTypes
    <3> QED
      BY <1>1, <1>2, <3>1, <3>2 DEF Past, Frontier
  <2> QED
    BY <1>5, <2>1, <2>2, <2>3, <2>4
<1>6. UNCHANGED vars => UNCHANGED <<life, next, sent>>
  BY DEF vars, gate
<1>7. ASSUME NEW h \in Gates, Count(h) PROVE UNCHANGED <<life, next, sent>>
  BY <1>7 DEF Count
<1>8. ASSUME NEW d \in wire, Execute(d) PROVE UNCHANGED <<life, next, sent>>
  BY <1>8 DEF Execute, gate
<1>9. ASSUME NEW m \in Names, GetReport(m) PROVE UNCHANGED <<life, next, sent>>
  BY <1>9 DEF GetReport, gate
<1>10. OfficeRestart => UNCHANGED <<life, next, sent>>
  BY DEF OfficeRestart, gate
<1> HIDE DEF g
<1> QED
  BY <1>3, <1>5, <1>6, <1>7, <1>8, <1>9, <1>10, NextCases

LEMMA PastGrows == Inv /\ [Next]_vars => PastCalls \subseteq PastCalls'
BY PastStays DEF PastCalls

\* A call is past as soon as it is made.
LEMMA SubmittedIsPast ==
  ASSUME Inv, NEW g \in Gates, SubmitReport(g)
  PROVE  \E c \in PastCalls' : wire' = wire \cup {c}
<1>1. PICK n \in next[g]..counted[g] :
         LET c == [gate |-> g, life |-> life[g], n |-> n, try |-> breaks]
         IN  sent' = [sent EXCEPT ![g] = c] /\ wire' = wire \cup {c}
  BY Zenon DEF SubmitReport
<1> DEFINE made == [gate |-> g, life |-> life[g], n |-> n, try |-> breaks]
<1>2. sent' = [sent EXCEPT ![g] = made] /\ wire' = wire \cup {made}
  BY <1>1
<1>3. made \in Calls
  BY <1>1 DEF Inv, GateTypes, OfficeTypes, Calls
<1>4. made.gate = g /\ made.life = life[g] /\ made.n = n /\ n \in Nat
  BY <1>1 DEF Inv, GateTypes
<1> HIDE DEF made
<1>5. PICK c \in Calls : c = made
  BY <1>3
<1>6. sent'[g] = c /\ c # None /\ life' = life
  BY <1>2, <1>5 DEF SubmitReport, gate, Inv, GateTypes
<1>7. Past(c)'
  BY <1>4, <1>5, <1>6 DEF Past, Frontier
<1> QED
  BY <1>2, <1>5, <1>7 DEF PastCalls

\* A step puts on the wire only a call that is past, stores only one from the
\* wire, and shows only one that is stored.
LEMMA AllPastNext == Inv /\ AllPast /\ [Next]_vars => AllPast'
<1> SUFFICES ASSUME Inv, AllPast, [Next]_vars PROVE AllPast'
  OBVIOUS
<1> USE DEF AllPast
<1>1. PastCalls \subseteq PastCalls'
  BY PastGrows
<1>2. ASSUME wire' \subseteq wire, shown' = shown, reports' = reports \/ reports' = <<>>
      PROVE  AllPast'
  <2>1. reports' = <<>> => DOMAIN reports' = {}
    OBVIOUS
  <2> QED
    BY <1>1, <1>2, <2>1
<1>3. ASSUME NEW g \in Gates, SubmitReport(g) PROVE AllPast'
  BY <1>1, <1>3, SubmittedIsPast DEF SubmitReport
<1>4. ASSUME NEW c \in wire, Execute(c) PROVE AllPast'
  <2>1. c \in Calls /\ wire' = wire \ {c} /\ shown' = shown
    BY <1>4, ExecuteCases
  <2>2. ASSUME NEW m \in Names \ {Empty}, reports' = Assigned(m, c) PROVE AllPast'
    <3>1. /\ DOMAIN reports' = DOMAIN reports \cup {m}
          /\ reports'[m] = [report |-> c, late |-> Late(c)]
          /\ \A k \in DOMAIN reports : k # m => reports'[k] = reports[k]
      BY <2>1, <2>2, AssignedStores
    <3>2. reports'[m].report = c /\ c \in PastCalls'
      BY <1>1, <3>1
    <3>3. \A k \in DOMAIN reports' : reports'[k].report \in PastCalls'
      BY <1>1, <3>1, <3>2
    <3> QED
      BY <1>1, <2>1, <3>3
  <2> QED
    BY <1>2, <1>4, <2>1, <2>2, ExecuteCases
<1>5. ASSUME NEW m \in Names, GetReport(m) PROVE AllPast'
  <2>1. wire' = wire /\ reports' = reports
    BY <1>5 DEF GetReport
  <2>2. \/ shown'.report = None
        \/ m \in DOMAIN reports /\ shown'.report = reports[m].report
    BY <1>5 DEF GetReport, Known
  <2> QED
    BY <1>1, <2>1, <2>2
<1>6. CASE UNCHANGED vars \/ OfficeRestart
  BY <1>2, <1>6 DEF vars, OfficeRestart
<1>7. ASSUME NEW g \in Gates, \/ Count(g) \/ Returned(g) \/ Refused(g)
                              \/ Break(g) \/ GateRestart(g)
      PROVE  AllPast'
  <2>1. wire' \subseteq wire /\ shown' = shown /\ reports' = reports
    BY <1>7 DEF Count, Returned, Refused, Break, GiveUp, GateRestart
  <2> QED
    BY <1>2, <2>1
<1> QED
  BY <1>3, <1>4, <1>5, <1>6, <1>7, NextCases

\* What takes the place of a report that was shown does not fall behind it.
LEMMA ExecuteStillKnown ==
  ASSUME Inv, AllPast, StillKnown, NEW c \in wire, Execute(c) PROVE StillKnown'
<1>1. /\ c \in Calls /\ UNCHANGED <<sent, boot, shown>>
      /\ \/ reports' = reports
         \/ \E m \in Names \ {Empty} : reports' = Assigned(m, c)
  BY ExecuteCases
<1>2. CASE reports' = reports
  BY <1>1, <1>2 DEF StillKnown, Known
<1>3. ASSUME NEW m \in Names \ {Empty}, reports' = Assigned(m, c) PROVE StillKnown'
  <2>1. /\ DOMAIN reports' = DOMAIN reports \cup {m}
        /\ reports'[m] = [report |-> c, late |-> Late(c)]
        /\ \A k \in DOMAIN reports : k # m => reports'[k] = reports[k]
    BY <1>1, <1>3, AssignedStores
  <2>2. CASE shown.name # m
    BY <1>1, <2>1, <2>2 DEF StillKnown, Known
  <2>3. CASE shown.name = m /\ Late(c)
    BY <1>1, <2>1, <2>3 DEF StillKnown, Known
  <2>4. CASE shown.name = m /\ ~Late(c) /\ shown.report # None /\ shown.report.gate = c.gate
    <3>1. sent[c.gate] = c /\ c.gate \in Gates /\ c # None
      BY <1>1, <2>4 DEF Late, Calls
    <3>2. c.life = life[c.gate] /\ Frontier(c.gate) = c.n
      BY <3>1 DEF Inv, Offering, Frontier
    <3>3. shown.report \in Calls /\ Past(shown.report)
      BY <2>4 DEF AllPast, PastCalls
    <3>4. NotOlder(c, shown.report)
      BY <1>1, <2>4, <3>2, <3>3 DEF Past, NotOlder, Calls
    <3> QED
      BY <1>1, <2>1, <2>4, <3>4 DEF StillKnown, Known
  <2>5. CASE shown.name = m /\ (shown.report = None \/ shown.report.gate # c.gate)
    BY <1>1, <2>1, <2>5 DEF StillKnown, Known
  <2> QED
    BY <2>2, <2>3, <2>4, <2>5
<1> QED
  BY <1>1, <1>2, <1>3

LEMMA StillKnownNext == Inv /\ AllPast /\ StillKnown /\ [Next]_vars => StillKnown'
<1> SUFFICES ASSUME Inv, AllPast, StillKnown, [Next]_vars PROVE StillKnown'
  OBVIOUS
<1>1. CASE UNCHANGED <<reports, boot, shown>>
  BY <1>1 DEF StillKnown, Known
<1>2. ASSUME NEW m \in Names, GetReport(m) PROVE StillKnown'
  <2>1. /\ reports' = reports /\ shown'.name = m
        /\ shown'.report = IF Known(m) THEN reports[m].report ELSE None
    BY <1>2 DEF GetReport
  <2>2. Known(m) => reports[m].report.life \in Nat /\ reports[m].report.n \in Nat
    BY DEF Inv, OfficeTypes, Calls, Known
  <2>3. Known(m) => NotOlder(reports[m].report, reports[m].report)
    BY <2>2 DEF NotOlder
  <2> QED
    BY <2>1, <2>3 DEF StillKnown, Known, NotOlder
<1>3. ASSUME OfficeRestart PROVE StillKnown'
  <2>1. shown' = shown /\ shown.boot # boot'
    BY <1>3 DEF OfficeRestart, Inv, OfficeTypes, Booted, Shown
  <2> QED
    BY <2>1 DEF StillKnown
<1>4. ASSUME NEW g \in Gates, \/ Count(g) \/ SubmitReport(g) \/ Returned(g)
                              \/ Refused(g) \/ Break(g) \/ GateRestart(g)
      PROVE  UNCHANGED <<reports, boot, shown>>
  BY <1>4 DEF Count, SubmitReport, Returned, Refused, Break, GiveUp, GateRestart
<1>5. UNCHANGED vars => UNCHANGED <<reports, boot, shown>>
  BY DEF vars
<1> QED
  BY <1>1, <1>2, <1>3, <1>4, <1>5, ExecuteStillKnown, NextCases

\* ReaderForward's action is taken by every step from a state of these invariants.
LEMMA ForwardStep ==
  ASSUME Inv, StillKnown, [Next]_vars,
         shown.report # None, shown'.name = shown.name, shown'.boot = shown.boot
  PROVE  /\ shown'.report # None
         /\ \/ shown'.report.gate # shown.report.gate
            \/ shown'.late
            \/ NotOlder(shown'.report, shown.report)
<1>1. CASE shown' = shown
  <2>1. shown.report.life \in Nat /\ shown.report.n \in Nat
    BY DEF Inv, OfficeTypes, Shown, Calls
  <2> QED
    BY <1>1, <2>1 DEF NotOlder
<1>2. ASSUME NEW m \in Names, GetReport(m)
      PROVE  /\ shown'.report # None
             /\ \/ shown'.report.gate # shown.report.gate
                \/ shown'.late
                \/ NotOlder(shown'.report, shown.report)
  <2>1. shown' = [name |-> m,
                  report |-> IF Known(m) THEN reports[m].report ELSE None,
                  late |-> Known(m) /\ reports[m].late,
                  boot |-> boot]
    BY <1>2, Zenon DEF GetReport
  <2>2. shown.name = m /\ shown.boot = boot
    BY <2>1
  <2>3. Known(m) /\ \/ reports[m].report.gate # shown.report.gate
                    \/ reports[m].late
                    \/ NotOlder(reports[m].report, shown.report)
    BY <2>2, Zenon DEF StillKnown
  <2>4. shown'.report = reports[m].report /\ (reports[m].late => shown'.late)
    BY <2>1, <2>3
  <2>5. reports[m].report # None
    BY <2>3 DEF Inv, OfficeTypes, Known
  <2> QED
    BY <2>3, <2>4, <2>5
<1>3. ASSUME NEW g \in Gates, \/ Count(g) \/ SubmitReport(g) \/ Returned(g)
                              \/ Refused(g) \/ Break(g) \/ GateRestart(g)
      PROVE  shown' = shown
  BY <1>3 DEF Count, SubmitReport, Returned, Refused, Break, GiveUp, GateRestart
<1>4. UNCHANGED vars \/ OfficeRestart => shown' = shown
  BY DEF vars, OfficeRestart
<1> QED
  BY <1>1, <1>2, <1>3, <1>4, ExecuteCases, NextCases

\* ReaderForward holds of every behaviour: who keeps asking for a name never sees
\* its report disappear or go back, unless an execution came too late, two gates
\* have the name, or the office restarted.
THEOREM ReadersGoForward == SafeSpec => ReaderForward
<1>1. Init => AllPast /\ StillKnown
  <2>1. ASSUME Init PROVE DOMAIN reports = {} /\ wire = {} /\ shown.report = None
    BY <2>1 DEF Init
  <2> QED
    BY <2>1 DEF AllPast, StillKnown
<1>2. Inv /\ StillKnown /\ [Next]_vars =>
        [shown.report # None /\ shown'.name = shown.name /\ shown'.boot = shown.boot =>
            /\ shown'.report # None
            /\ \/ shown'.report.gate # shown.report.gate
               \/ shown'.late
               \/ NotOlder(shown'.report, shown.report)]_vars
  BY ForwardStep
<1> QED
  BY <1>1, <1>2, Invariance, AllPastNext, StillKnownNext, PTL DEF SafeSpec, ReaderForward
===============================================================================
