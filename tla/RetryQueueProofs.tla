--------------------------- MODULE RetryQueueProofs ---------------------------
(***************************************************************************)
(* Safety of RetryQueue for every queue size, number of pushers and number *)
(* of items.                                                               *)
(***************************************************************************)
EXTENDS RetryQueue, SequenceTheorems, FiniteSetTheorems, TLAPS

\* Number of items that have left the queue.
Gone == pushed - Len(queue)

\* The queue holds the newest items, consecutively.
Consecutive ==
    /\ Len(queue) <= pushed
    /\ \A i \in 1..Len(queue) : queue[i] = Gone + i

\* While run() works on its copy, no item older than the copy is queued.  The
\* copy is still the front, or it was evicted and the queue has been full since.
CopyNotStale ==
    runnerPc \in {"handling", "pop", "sleep"} =>
        /\ queue # <<>>
        /\ item \in 1..(Gone + 1)
        /\ item # Gone + 1 => item \in evicted /\ Len(queue) = MaxSize

\* An item that is not ahead of what run() will offer next.
Behind(n) ==
    /\ n <= Gone + 1
    /\ n <= pushed
    /\ runnerPc \in {"handling", "pop", "sleep"} => n <= item

ReceiverBehind == Behind(latest)

PoppedIsHandled == runnerPc = "pop" => item \in handled

Inv ==
    /\ TypeOK
    /\ Len(queue) <= MaxSize
    /\ Consecutive
    /\ CopyNotStale
    /\ ReceiverBehind
    /\ PoppedIsHandled

USE MaxSizeAssumption, MaxPushAssumption

-------------------------------------------------------------------------------
(* What the two operations do to a queue of consecutive items. *)

\* Popping the front of a consecutive queue leaves it consecutive.
LEMMA TailConsecutive ==
    ASSUME queue \in Seq(1..MaxPush), queue # <<>>, pushed \in Nat, Consecutive
    PROVE  /\ Tail(queue) \in Seq(1..MaxPush)
           /\ Len(Tail(queue)) = Len(queue) - 1
           /\ \A i \in 1..Len(Tail(queue)) : Tail(queue)[i] = Gone + 1 + i
           /\ Head(queue) = Gone + 1
           /\ Len(queue) \in Nat \ {0}
<1>1. /\ Tail(queue) \in Seq(1..MaxPush)
      /\ Len(Tail(queue)) = Len(queue) - 1
      /\ \A i \in 1..Len(Tail(queue)) : Tail(queue)[i] = queue[i + 1]
  BY HeadTailProperties
<1>2. Len(queue) \in Nat \ {0}
  BY EmptySeq, LenProperties
<1>3. \A i \in 1..Len(Tail(queue)) : i + 1 \in 1..Len(queue)
  BY <1>1, <1>2
<1>4. \A i \in 1..Len(Tail(queue)) : Tail(queue)[i] = Gone + (i + 1)
  BY <1>1, <1>3 DEF Consecutive
<1>5. Head(queue) = Gone + 1
  BY <1>2 DEF Consecutive
<1> QED
  BY <1>1, <1>2, <1>4, <1>5 DEF Gone

\* A push keeps the queue consecutive, within bounds, and evicts at most the
\* front item, when the queue is full.
LEMMA EnqueuedConsecutive ==
    ASSUME queue \in Seq(1..MaxPush), pushed \in Nat, pushed < MaxPush,
           Consecutive, Len(queue) <= MaxSize,
           NEW q, q = Enqueued(pushed + 1)
    PROVE  /\ q \in Seq(1..MaxPush)
           /\ Len(q) = IF Full THEN Len(queue) ELSE Len(queue) + 1
           /\ Len(q) \in Nat \ {0}
           /\ Len(q) <= MaxSize
           /\ \A i \in 1..Len(q) : q[i] = (pushed + 1) - Len(q) + i
           /\ Full => Len(queue) = MaxSize /\ Head(queue) = Gone + 1
<1> DEFINE base == IF Full THEN Tail(queue) ELSE queue
<1>1. Len(queue) \in Nat
  BY LenProperties
<1>2. Full => queue # <<>>
  BY <1>1 DEF Full
<1>3. /\ base \in Seq(1..MaxPush)
      /\ Len(base) = IF Full THEN Len(queue) - 1 ELSE Len(queue)
      /\ \A i \in 1..Len(base) : base[i] = pushed - Len(base) + i
      /\ Full => Head(queue) = Gone + 1
  <2>1. CASE Full
    BY <1>1, <1>2, <2>1, TailConsecutive DEF Gone
  <2>2. CASE ~Full
    BY <1>1, <2>2 DEF Consecutive, Gone
  <2> QED
    BY <2>1, <2>2
<1>4. PICK b \in Seq(1..MaxPush), off \in Int, new \in 1..MaxPush :
        b = base /\ off = pushed - Len(b) /\ new = pushed + 1
  <2>1. Len(base) \in Nat
    BY <1>3, LenProperties
  <2>2. pushed - Len(base) \in Int /\ pushed + 1 \in 1..MaxPush
    BY <2>1
  <2> QED
    BY <1>3, <2>2, Zenon
<1> HIDE DEF base
<1>5. Len(b) = IF Full THEN Len(queue) - 1 ELSE Len(queue)
  BY <1>3, <1>4, Zenon
<1>6. \A i \in 1..Len(b) : b[i] = off + i
  BY <1>3, <1>4, Zenon
<1>7. Len(b) \in Nat /\ new = off + (Len(b) + 1)
  <2>1. Len(b) \in Nat
    BY LenProperties
  <2> QED
    BY <1>4, <2>1
<1>8. /\ q \in Seq(1..MaxPush)
      /\ Len(q) = Len(b) + 1
      /\ \A i \in 1..(Len(b) + 1) : q[i] = off + i
  <2>1. q = Append(b, new)
    BY <1>4 DEF Enqueued, base
  <2>2. /\ Append(b, new) \in Seq(1..MaxPush)
        /\ Len(Append(b, new)) = Len(b) + 1
    BY AppendProperties
  <2>3. \A i \in 1..Len(b) : Append(b, new)[i] = off + i
    BY <1>6, AppendProperties
  <2>4. Append(b, new)[Len(b) + 1] = off + (Len(b) + 1)
    BY <1>7, AppendProperties
  <2>5. \A i \in 1..(Len(b) + 1) : i \in 1..Len(b) \/ i = Len(b) + 1
    BY <1>7
  <2> QED
    BY <2>1, <2>2, <2>3, <2>4, <2>5, Zenon
<1>9. \A i \in 1..Len(q) : q[i] = (pushed + 1) - Len(q) + i
  <2>1. Len(q) = Len(b) + 1
    BY <1>8
  <2>2. (pushed + 1) - Len(q) = off
    BY <1>4, <1>7, <2>1
  <2> QED
    BY <1>8, <2>2, Zenon
<1>10. /\ Len(q) = IF Full THEN Len(queue) ELSE Len(queue) + 1
       /\ Len(q) \in Nat \ {0}
       /\ Len(q) <= MaxSize
  <2>1. Len(q) = Len(b) + 1
    BY <1>8
  <2> QED
    BY <1>1, <1>5, <1>7, <2>1 DEF Full
<1>11. Full => Len(queue) = MaxSize /\ Head(queue) = Gone + 1
  BY <1>1, <1>3 DEF Full
<1> QED
  BY <1>8, <1>9, <1>10, <1>11

-------------------------------------------------------------------------------
(* The inductive invariant *)

LEMMA InitInv == Init => Inv
  BY EmptySeq DEF Init, Inv, TypeOK, RunnerPc, Consecutive, CopyNotStale, Gone,
     ReceiverBehind, Behind, PoppedIsHandled

LEMMA NextInv == Inv /\ [Next]_vars => Inv'
<1> SUFFICES ASSUME Inv, [Next]_vars PROVE Inv'
  OBVIOUS
<1> USE DEF Inv, TypeOK, RunnerPc
<1>0. Len(queue) \in Nat /\ (queue # <<>> => Len(queue) # 0)
  BY LenProperties, EmptySeq
<1>1. ASSUME NEW p \in Pushers, PushLocked(p) PROVE Inv'
  <2> DEFINE q == Enqueued(pushed + 1)
  <2>1. /\ q \in Seq(1..MaxPush)
        /\ Len(q) = IF Full THEN Len(queue) ELSE Len(queue) + 1
        /\ Len(q) \in Nat \ {0}
        /\ Len(q) <= MaxSize
        /\ \A i \in 1..Len(q) : q[i] = (pushed + 1) - Len(q) + i
        /\ Full => Len(queue) = MaxSize /\ Head(queue) = Gone + 1
    BY <1>1, EnqueuedConsecutive DEF PushLocked
  <2>2. queue' = q /\ pushed' = pushed + 1
    BY <1>1 DEF PushLocked
  <2> HIDE DEF q
  <2>3. Gone' = (IF Full THEN Gone + 1 ELSE Gone) /\ Gone \in Nat
    <3>1. Gone' = pushed + 1 - Len(q) /\ Gone \in Nat
      BY <1>0, <2>2 DEF Gone, Consecutive
    <3>2. CASE Full
      BY <1>0, <2>1, <3>1, <3>2 DEF Gone
    <3>3. CASE ~Full
      BY <1>0, <2>1, <3>1, <3>3 DEF Gone
    <3> QED
      BY <3>1, <3>2, <3>3
  <2>4. Head(queue) \in 1..MaxPush \/ ~Full
    BY <1>1, <2>1, <2>3, <1>0 DEF PushLocked, Gone, Consecutive, Full
  <2>5. TypeOK'
    <3>1. evicted' \subseteq 1..MaxPush
      BY <1>1, <2>4 DEF PushLocked
    <3>2. pushed' \in 0..MaxPush /\ queue' \in Seq(1..MaxPush)
      BY <1>1, <2>1, <2>2 DEF PushLocked
    <3> QED
      BY <1>1, <3>1, <3>2 DEF PushLocked
  <2>6. Consecutive' /\ (Len(queue) <= MaxSize)'
    <3>1. Len(q) <= pushed + 1
      BY <1>0, <2>1 DEF Consecutive
    <3> QED
      BY <3>1, <2>1, <2>2 DEF Consecutive, Gone
  <2>7. CopyNotStale'
    <3>1. queue' # <<>>
      BY <2>1, <2>2, EmptySeq
    <3>2. CASE Full
      BY <1>1, <3>1, <3>2, <2>1, <2>2, <2>3, SMTT(30) DEF CopyNotStale, PushLocked
    <3>3. CASE ~Full
      BY <1>1, <3>1, <3>3, <2>1, <2>2, <2>3, <1>0 DEF CopyNotStale, PushLocked, Full
    <3> QED
      BY <3>2, <3>3
  <2>8. ReceiverBehind'
    BY <1>1, <2>2, <2>3 DEF ReceiverBehind, Behind, PushLocked
  <2>9. PoppedIsHandled'
    BY <1>1 DEF PoppedIsHandled, PushLocked
  <2> QED
    BY <2>5, <2>6, <2>7, <2>8, <2>9
<1>2. ASSUME NEW p \in Pushers, NotifyOne(p) PROVE Inv'
  BY <1>2 DEF NotifyOne, Consecutive, CopyNotStale, Gone, ReceiverBehind, Behind,
     PoppedIsHandled
<1>3. CASE TakeFront
  <2>1. Head(queue) = Gone + 1 /\ Gone \in Nat /\ Gone + 1 <= pushed
    BY <1>0, <1>3, TailConsecutive DEF TakeFront, Gone, Consecutive
  <2>2. TypeOK' /\ Consecutive' /\ (Len(queue) <= MaxSize)'
    BY <1>3, <2>1 DEF TakeFront, Consecutive, Gone
  <2>3. CopyNotStale' /\ ReceiverBehind'
    BY <1>3, <2>1 DEF TakeFront, CopyNotStale, ReceiverBehind, Behind, Gone
  <2>4. PoppedIsHandled'
    BY <1>3 DEF TakeFront, PoppedIsHandled
  <2> QED
    BY <2>2, <2>3, <2>4
<1>4. CASE Block \/ SpuriousWakeup
  BY <1>4 DEF Block, SpuriousWakeup, Consecutive, CopyNotStale, Gone,
     ReceiverBehind, Behind, PoppedIsHandled
<1>5. CASE HandlerSucceeds
  <2>1. item \in 1..(Gone + 1) /\ Gone \in Nat /\ Gone + 1 <= pushed
    BY <1>0, <1>5 DEF HandlerSucceeds, CopyNotStale, Gone, Consecutive
  <2>2. TypeOK' /\ Consecutive' /\ (Len(queue) <= MaxSize)'
    BY <1>5, <2>1 DEF HandlerSucceeds, Consecutive, Gone
  <2>3. CopyNotStale' /\ ReceiverBehind' /\ PoppedIsHandled'
    BY <1>5, <2>1 DEF HandlerSucceeds, CopyNotStale, ReceiverBehind, Behind,
       PoppedIsHandled, Gone
  <2> QED
    BY <2>2, <2>3
<1>6. CASE HandlerFails
  <2>1. item \in 1..(Gone + 1) /\ Gone \in Nat /\ Gone + 1 <= pushed
    BY <1>0, <1>6 DEF HandlerFails, CopyNotStale, Gone, Consecutive
  <2>2. TypeOK' /\ Consecutive' /\ (Len(queue) <= MaxSize)'
    BY <1>6, <2>1 DEF HandlerFails, Consecutive, Gone
  <2>3. CopyNotStale' /\ ReceiverBehind' /\ PoppedIsHandled'
    BY <1>6, <2>1 DEF HandlerFails, CopyNotStale, ReceiverBehind, Behind,
       PoppedIsHandled, Gone
  <2> QED
    BY <2>2, <2>3
<1>7. CASE Pop
  <2>1. queue # <<>> /\ item \in 1..(Gone + 1) /\ item \in handled
    BY <1>7 DEF Pop, CopyNotStale, PoppedIsHandled
  <2>2. /\ queue' \in Seq(1..MaxPush)
        /\ Len(queue') = Len(queue) - 1
        /\ \A i \in 1..Len(queue') : queue'[i] = Gone + 1 + i
    BY <1>7, <2>1, TailConsecutive DEF Pop
  <2>3. Gone' = Gone + 1 /\ Gone \in Nat /\ Gone + 1 <= pushed /\ Len(queue') \in Nat
    BY <1>0, <1>7, <2>1, <2>2 DEF Pop, Gone, Consecutive
  <2>4. TypeOK' /\ (Len(queue) <= MaxSize)'
    BY <1>0, <1>7, <2>2 DEF Pop
  <2>5. Consecutive'
    BY <1>0, <1>7, <2>2, <2>3 DEF Pop, Consecutive, Gone
  <2>6. CopyNotStale' /\ PoppedIsHandled'
    BY <1>7 DEF Pop, CopyNotStale, PoppedIsHandled
  <2>7. ReceiverBehind'
    BY <1>7, <2>3 DEF Pop, ReceiverBehind, Behind
  <2> QED
    BY <2>4, <2>5, <2>6, <2>7
<1>8. CASE WakeUp
  BY <1>8 DEF WakeUp, Consecutive, CopyNotStale, Gone, ReceiverBehind, Behind,
     PoppedIsHandled
<1>9. CASE UNCHANGED vars
  BY <1>9 DEF vars, Consecutive, CopyNotStale, Gone, ReceiverBehind, Behind,
     PoppedIsHandled
<1> QED
  BY <1>1, <1>2, <1>3, <1>4, <1>5, <1>6, <1>7, <1>8, <1>9 DEF Next, Run

\* An item that is behind stays behind.
LEMMA BehindKept ==
    ASSUME Inv, [Next]_vars PROVE \A n \in Nat : Behind(n) => Behind(n)'
<1> SUFFICES ASSUME NEW n \in Nat, Behind(n) PROVE Behind(n)'
  OBVIOUS
<1> USE DEF Inv, TypeOK, Behind
<1>0. /\ Len(queue) \in Nat /\ (queue # <<>> => Len(queue) # 0)
      /\ Gone \in Nat /\ Gone + Len(queue) = pushed
  BY LenProperties, EmptySeq DEF Gone, Consecutive
<1>1. ASSUME NEW p \in Pushers, PushLocked(p) PROVE Behind(n)'
  <2> DEFINE q == Enqueued(pushed + 1)
  <2>1. /\ Len(q) = IF Full THEN Len(queue) ELSE Len(queue) + 1
        /\ Len(q) \in Nat
    BY <1>1, EnqueuedConsecutive DEF PushLocked
  <2>2. queue' = q /\ pushed' = pushed + 1 /\ UNCHANGED <<runnerPc, item>>
    BY <1>1 DEF PushLocked
  <2> HIDE DEF q
  <2>3. Gone' = Gone \/ Gone' = Gone + 1
    BY <1>0, <2>1, <2>2 DEF Gone
  <2> QED
    BY <1>0, <2>2, <2>3
<1>2. CASE TakeFront
  <2>1. Head(queue) = Gone + 1 /\ UNCHANGED <<queue, pushed>>
    BY <1>2, TailConsecutive DEF TakeFront
  <2> QED
    BY <1>2, <2>1 DEF TakeFront, Gone
<1>3. CASE Pop
  <2>1. queue # <<>>
    BY <1>3 DEF Pop, CopyNotStale
  <2>2. Len(queue') = Len(queue) - 1 /\ pushed' = pushed /\ runnerPc' = "check"
    BY <1>3, <2>1, TailConsecutive DEF Pop
  <2>3. Gone' = Gone + 1
    BY <1>0, <2>2 DEF Gone
  <2> QED
    BY <1>0, <2>2, <2>3
<1>4. ASSUME NEW p \in Pushers, NotifyOne(p) PROVE Behind(n)'
  BY <1>4 DEF NotifyOne, Gone
<1>5. CASE Block \/ SpuriousWakeup \/ HandlerSucceeds \/ HandlerFails \/ WakeUp
  BY <1>5 DEF Block, SpuriousWakeup, HandlerSucceeds, HandlerFails, WakeUp, Gone
<1>6. CASE UNCHANGED vars
  BY <1>6 DEF vars, Gone
<1> QED
  BY <1>1, <1>2, <1>3, <1>4, <1>5, <1>6 DEF Next, Run

\* The invariant holds in every behaviour of the queue, fair or not.
THEOREM Invariance == SafeSpec => []Inv
  BY InitInv, NextInv, PTL DEF SafeSpec

-------------------------------------------------------------------------------
(* What the invariant gives *)

\* Every variable of the queue and of its two kinds of threads keeps its type.
THEOREM TypeCorrect == SafeSpec => []TypeOK
<1>1. Inv => TypeOK
  BY DEF Inv
<1> QED
  BY <1>1, Invariance, PTL

\* run() never pops an empty std::queue, and push() never lets it outgrow
\* m_max_size, for every size, every number of pushers and every interleaving.
THEOREM PopIsSafe == SafeSpec => []PopSafe
<1>1. Inv => PopSafe
  BY DEF Inv, PopSafe, CopyNotStale
<1> QED
  BY <1>1, Invariance, PTL

\* The newest item is still queued, unless the handler accepted it.
NewestQueued == pushed # 0 => pushed \in handled \/ queue # <<>>

\* With room for two items, the newest snapshot cannot be popped before the
\* handler took it, however push() evicts the item being handled.
THEOREM NewestIsKept == ASSUME MaxSize # 1 PROVE SafeSpec => []NewestKept
<1>1. Init => NewestQueued
  BY DEF Init, NewestQueued
<1>2. Inv /\ NewestQueued /\ [Next]_vars => NewestQueued'
  <2> SUFFICES ASSUME Inv, NewestQueued, [Next]_vars PROVE NewestQueued'
    OBVIOUS
  <2>0. Len(queue) \in Nat
    BY LenProperties DEF Inv, TypeOK
  <2>1. ASSUME NEW p \in Pushers, PushLocked(p) PROVE NewestQueued'
    <3>1. /\ Len(Enqueued(pushed + 1)) \in Nat \ {0}
          /\ Enqueued(pushed + 1) \in Seq(1..MaxPush)
      BY <2>1, EnqueuedConsecutive DEF PushLocked, Inv, TypeOK
    <3>2. Enqueued(pushed + 1) # <<>>
      BY <3>1, EmptySeq
    <3> QED
      BY <2>1, <3>2 DEF PushLocked, NewestQueued
  <2>2. CASE Pop
    <3> SUFFICES ASSUME Tail(queue) = <<>>, pushed # 0 PROVE pushed \in handled
      BY <2>2 DEF Pop, NewestQueued
    <3>1. queue # <<>> /\ item \in handled
      BY <2>2 DEF Pop, Inv, CopyNotStale, PoppedIsHandled
    <3>2. Len(queue) = 1
      <4>1. Len(Tail(queue)) = Len(queue) - 1
        BY <3>1, TailConsecutive DEF Inv, TypeOK
      <4>2. Len(Tail(queue)) = 0
        BY EmptySeq
      <4> QED
        BY <2>0, <4>1, <4>2
    <3>3. Gone + 1 = pushed
      BY <3>2 DEF Gone, Inv, TypeOK
    <3>4. item = Gone + 1
      BY <2>2, <3>2 DEF Pop, Inv, CopyNotStale
    <3> QED
      BY <3>1, <3>3, <3>4
  <2>3. CASE HandlerSucceeds
    BY <2>3 DEF HandlerSucceeds, NewestQueued
  <2>4. CASE UNCHANGED <<queue, pushed, handled>>
    BY <2>4 DEF NewestQueued
  <2> QED
    BY <2>1, <2>2, <2>3, <2>4 DEF Next, Run, NotifyOne, TakeFront, Block,
       SpuriousWakeup, HandlerFails, WakeUp, vars
<1>3. Inv /\ NewestQueued => NewestKept
  <2> SUFFICES ASSUME Inv, NewestQueued, pushed # 0, pushed \notin handled
               PROVE  queue # <<>> /\ queue[Len(queue)] = pushed
    BY DEF NewestKept
  <2>1. queue # <<>> /\ Len(queue) \in Nat \ {0}
    BY LenProperties, EmptySeq DEF NewestQueued, Inv, TypeOK
  <2>2. queue[Len(queue)] = Gone + Len(queue)
    BY <2>1 DEF Inv, Consecutive
  <2>3. Gone + Len(queue) = pushed
    BY <2>1 DEF Gone, Inv, TypeOK
  <2> QED
    BY <2>1, <2>2, <2>3
<1> QED
  BY <1>1, <1>2, <1>3, Invariance, PTL DEF SafeSpec

-------------------------------------------------------------------------------
(* What eviction costs *)

\* Items run() popped without the handler having accepted them, and without
\* push() having removed them.
PoppedForeign == Lost \ evicted

\* Evictions that came while the item was being handled, or had been.
LateEvictions == evicted \cap handled

\* A foreign pop needs an eviction that came between the handler's success and the
\* pop: while that pop is ahead, there is one more such eviction.
PaidFor ==
    /\ evicted \subseteq Departed
    /\ \A k \in handled : k \in Departed \/ (runnerPc = "pop" /\ k = item)
    /\ runnerPc = "handling" => item \notin handled
    /\ Cardinality(PoppedForeign) <= Cardinality(LateEvictions)
    /\ runnerPc = "pop" /\ item \in Departed =>
          Cardinality(PoppedForeign) + 1 <= Cardinality(LateEvictions)

LEMMA CountsAreFinite ==
    ASSUME Inv
    PROVE  /\ IsFiniteSet(PoppedForeign) /\ Cardinality(PoppedForeign) \in Nat
           /\ IsFiniteSet(LateEvictions) /\ Cardinality(LateEvictions) \in Nat
           /\ Gone \in Nat /\ Departed = 1..Gone
<1>1. Gone \in Nat /\ Departed = 1..Gone
  <2>1. Len(queue) \in Nat
    BY LenProperties DEF Inv, TypeOK
  <2> QED
    BY <2>1 DEF Gone, Departed, Inv, TypeOK, Consecutive
<1>2. IsFiniteSet(1..Gone) /\ IsFiniteSet(1..MaxPush)
  BY <1>1, FS_Interval
<1>3. PoppedForeign \subseteq 1..Gone /\ LateEvictions \subseteq 1..MaxPush
  BY <1>1 DEF PoppedForeign, Lost, LateEvictions, Inv, TypeOK
<1> QED
  BY <1>1, <1>2, <1>3, FS_Subset, FS_CardinalityType

LEMMA PaidForStep == ASSUME Inv, PaidFor, [Next]_vars PROVE PaidFor'
<1> USE CountsAreFinite
<1>0. Inv'
  BY NextInv
<1>1. (Gone \in Nat /\ Departed = 1..Gone)'
  BY <1>0, CountsAreFinite, PTL
<1>2. Len(queue) \in Nat /\ pushed \in Nat /\ (queue # <<>> => Len(queue) # 0)
  BY LenProperties, EmptySeq DEF Inv, TypeOK
<1>3. ASSUME NEW p \in Pushers, PushLocked(p) PROVE PaidFor'
  <2>1. /\ Len(queue') = IF Full THEN Len(queue) ELSE Len(queue) + 1
        /\ Full => Head(queue) = Gone + 1
    BY <1>3, EnqueuedConsecutive DEF PushLocked, Inv, TypeOK
  <2>2. CASE ~Full
    <3>1. Gone' = Gone /\ UNCHANGED <<handled, evicted, item, runnerPc>>
      BY <1>2, <1>3, <2>1, <2>2 DEF PushLocked, Gone
    <3> QED
      BY <1>1, <3>1 DEF PaidFor, PoppedForeign, LateEvictions, Lost
  <2>3. CASE Full
    <3>1. /\ Gone' = Gone + 1 /\ evicted' = evicted \cup {Gone + 1}
          /\ UNCHANGED <<handled, item, runnerPc>>
      BY <1>2, <1>3, <2>1, <2>3 DEF PushLocked, Gone
    <3>2. PoppedForeign' = PoppedForeign
      BY <1>1, <3>1 DEF PoppedForeign, Lost
    <3>3. CASE Gone + 1 \in handled
      <4>1. LateEvictions' = LateEvictions \cup {Gone + 1} /\ Gone + 1 \notin LateEvictions
        BY <3>1, <3>3 DEF LateEvictions, PaidFor
      <4>2. Cardinality(LateEvictions') = Cardinality(LateEvictions) + 1
        BY <4>1, FS_AddElement
      <4> QED
        BY <1>1, <3>1, <3>2, <4>2 DEF PaidFor
    <3>4. CASE Gone + 1 \notin handled
      <4>1. LateEvictions' = LateEvictions
        BY <3>1, <3>4 DEF LateEvictions
      <4>2. runnerPc = "pop" /\ item \in 1..(Gone + 1) => item \in 1..Gone
        BY <3>4 DEF Inv, PoppedIsHandled
      <4> QED
        BY <1>1, <3>1, <3>2, <4>1, <4>2 DEF PaidFor
    <3> QED
      BY <3>3, <3>4
  <2> QED
    BY <2>2, <2>3
<1>4. CASE TakeFront
  <2>1. Head(queue) = Gone + 1
    BY <1>2, <1>4, TailConsecutive DEF TakeFront, Gone, Inv, TypeOK, Consecutive
  <2>2. UNCHANGED <<PoppedForeign, LateEvictions, Departed, handled, evicted>>
    BY <1>4 DEF TakeFront, PoppedForeign, LateEvictions, Lost, Departed
  <2>3. item' \notin Departed /\ item' \notin handled
    BY <1>4, <2>1 DEF TakeFront, PaidFor
  <2> QED
    BY <1>4, <2>2, <2>3 DEF TakeFront, PaidFor
<1>5. CASE HandlerSucceeds
  <2>1. /\ handled' = handled \cup {item} /\ UNCHANGED <<evicted, item, Departed>>
        /\ item \in 1..(Gone + 1) /\ item \notin handled
        /\ item # Gone + 1 => item \in evicted
    BY <1>5 DEF HandlerSucceeds, Departed, Inv, CopyNotStale, PaidFor
  <2>2. PoppedForeign' = PoppedForeign
    BY <2>1 DEF PoppedForeign, Lost
  <2>3. CASE item = Gone + 1
    <3>1. LateEvictions' = LateEvictions /\ item \notin Departed'
      BY <2>1, <2>3 DEF LateEvictions, PaidFor
    <3> QED
      BY <1>5, <2>1, <2>2, <3>1 DEF PaidFor, HandlerSucceeds
  <2>4. CASE item # Gone + 1
    <3>1. LateEvictions' = LateEvictions \cup {item} /\ item \notin LateEvictions
      BY <2>1, <2>4 DEF LateEvictions
    <3>2. Cardinality(LateEvictions') = Cardinality(LateEvictions) + 1
      BY <3>1, FS_AddElement
    <3> QED
      BY <1>5, <2>1, <2>2, <3>2 DEF PaidFor, HandlerSucceeds
  <2> QED
    BY <2>3, <2>4
<1>6. CASE Pop
  <2>1. /\ queue # <<>> /\ item \in 1..(Gone + 1) /\ item \in handled
        /\ runnerPc = "pop" /\ runnerPc' = "check" /\ UNCHANGED <<handled, evicted>>
    BY <1>6 DEF Pop, Inv, CopyNotStale, PoppedIsHandled
  <2>2. Gone' = Gone + 1
    <3>1. Len(queue') = Len(queue) - 1 /\ pushed' = pushed
      BY <1>6, <2>1, TailConsecutive DEF Pop, Inv, TypeOK
    <3> QED
      BY <1>2, <3>1 DEF Gone
  <2>3. LateEvictions' = LateEvictions
    BY <2>1 DEF LateEvictions
  <2>4. /\ evicted \subseteq Departed'
        /\ \A k \in handled : k \in Departed'
    BY <1>1, <2>1, <2>2 DEF PaidFor
  <2>5. Cardinality(PoppedForeign') <= Cardinality(LateEvictions)
    <3>1. CASE item = Gone + 1
      <4>1. PoppedForeign' = PoppedForeign
        BY <1>1, <2>1, <2>2, <3>1 DEF PoppedForeign, Lost
      <4> QED
        BY <4>1 DEF PaidFor
    <3>2. CASE item # Gone + 1
      <4>1. Gone + 1 \notin handled /\ Gone + 1 \notin evicted
        BY <2>1, <3>2 DEF PaidFor
      <4>2. PoppedForeign' = PoppedForeign \cup {Gone + 1} /\ Gone + 1 \notin PoppedForeign
        BY <1>1, <2>1, <2>2, <4>1 DEF PoppedForeign, Lost
      <4>3. Cardinality(PoppedForeign') = Cardinality(PoppedForeign) + 1
        BY <4>2, FS_AddElement
      <4> QED
        BY <2>1, <3>2, <4>3 DEF PaidFor
    <3> QED
      BY <3>1, <3>2
  <2>6. runnerPc' # "pop" /\ runnerPc' # "handling"
    BY <2>1
  <2> QED
    BY <2>1, <2>3, <2>4, <2>5, <2>6 DEF PaidFor
<1>7. CASE UNCHANGED <<queue, item, pushed, handled, evicted>> /\
           (runnerPc = "pop" => runnerPc' = "pop") /\
           (runnerPc' \in {"pop", "handling"} => runnerPc' = runnerPc)
  BY <1>7 DEF PaidFor, PoppedForeign, LateEvictions, Lost, Departed
<1>8. CASE WakeUp
  <2>1. runnerPc = "sleep" /\ runnerPc' = "check"
        /\ UNCHANGED <<queue, pushed, handled, evicted>>
    BY <1>8 DEF WakeUp
  <2>2. UNCHANGED <<PoppedForeign, LateEvictions, Departed>>
    BY <2>1 DEF PoppedForeign, LateEvictions, Lost, Departed
  <2> QED
    BY <2>1, <2>2 DEF PaidFor
<1>9. \/ \E p \in Pushers : NotifyOne(p)
      \/ Block \/ SpuriousWakeup \/ HandlerFails \/ UNCHANGED vars
      => <1>7!1
  BY DEF NotifyOne, Block, SpuriousWakeup, HandlerFails, vars
<1> QED
  BY <1>3, <1>4, <1>5, <1>6, <1>7, <1>8, <1>9 DEF Next, Run

\* run() pops at most one item that was not accepted for each item push() evicted
\* while it was being handled, for every queue size and every interleaving.
THEOREM LossesArePaidFor == SafeSpec => []LossIsPaidFor
<1>1. Init => PaidFor
  <2> SUFFICES ASSUME Init PROVE PaidFor
    OBVIOUS
  <2>1. PoppedForeign = {} /\ LateEvictions = {}
    BY DEF Init, PoppedForeign, LateEvictions, Lost, Departed
  <2> QED
    BY <2>1, FS_EmptySet DEF Init, PaidFor
<1>2. Inv /\ PaidFor /\ [Next]_vars => PaidFor'
  BY PaidForStep
<1>3. PaidFor => LossIsPaidFor
  BY DEF PaidFor, LossIsPaidFor, PoppedForeign, LateEvictions
<1> QED
  BY <1>1, <1>2, <1>3, Invariance, PTL DEF SafeSpec

-------------------------------------------------------------------------------
(* Steps *)

\* What one step may do to the receiver and to the number of pushed items.
LEMMA StepOfReceiver ==
    ASSUME Inv, [Next]_vars
    PROVE  \/ UNCHANGED <<pushed, latest>>
           \/ pushed < MaxPush /\ pushed' = pushed + 1 /\ latest' = latest
           \/ latest' \in latest..pushed /\ pushed' = pushed
<1>1. ASSUME runnerPc = "handling" PROVE item \in latest..pushed
  <2>1. Len(queue) \in Nat \ {0}
    BY <1>1, LenProperties, EmptySeq DEF Inv, TypeOK, CopyNotStale
  <2>2. Gone + 1 <= pushed /\ Gone \in Int
    BY <2>1 DEF Gone, Inv, TypeOK
  <2> QED
    BY <1>1, <2>2 DEF Inv, TypeOK, CopyNotStale, ReceiverBehind, Behind
<1>2. CASE HandlerSucceeds \/ HandlerFails
  <2>1. latest' \in {latest, item} /\ pushed' = pushed /\ runnerPc = "handling"
    BY <1>2 DEF HandlerSucceeds, HandlerFails
  <2>2. latest <= pushed /\ latest \in Nat /\ pushed \in Nat
    BY DEF Inv, TypeOK, ReceiverBehind, Behind
  <2> QED
    BY <1>1, <2>1, <2>2
<1>3. CASE \E p \in Pushers : PushLocked(p)
  BY <1>3 DEF PushLocked
<1>4. CASE UNCHANGED <<pushed, latest>>
  BY <1>4
<1> QED
  BY <1>2, <1>3, <1>4 DEF Next, Run, NotifyOne, TakeFront, Block,
     SpuriousWakeup, Pop, WakeUp, vars

\* The receiver never goes back to an older snapshot, for every queue size.
THEOREM ReceiverMonotone == SafeSpec => NeverBackwards
<1>1. Inv /\ [Next]_vars => [latest' >= latest]_vars
  BY StepOfReceiver DEF Inv, TypeOK
<1> QED
  BY <1>1, Invariance, PTL DEF SafeSpec, NeverBackwards

\* The retry queue implements the safety part of the abstract feed: its initial
\* state is the feed's, and each step publishes, lets one newer snapshot
\* arrive, or leaves both counters alone.
THEOREM Refinement == SafeSpec => Feed!SafeSpec
<1>1. Init => Feed!Init
  BY DEF Init, Feed!Init
<1>2. Inv /\ [Next]_vars => [Feed!Next]_(Feed!vars)
  <2> SUFFICES ASSUME Inv, [Next]_vars PROVE [Feed!Next]_(Feed!vars)
    OBVIOUS
  <2>1. latest \in Nat /\ pushed \in Nat
    BY DEF Inv, TypeOK
  <2>2. CASE UNCHANGED <<pushed, latest>>
    BY <2>2 DEF Feed!vars
  <2>3. CASE pushed < MaxPush /\ pushed' = pushed + 1 /\ latest' = latest
    BY <2>3 DEF Feed!Next, Feed!Publish
  <2>4. CASE latest' \in latest..pushed /\ pushed' = pushed
    <3>1. latest' = latest \/ latest' \in (latest + 1)..pushed
      BY <2>1, <2>4
    <3> QED
      BY <2>4, <3>1 DEF Feed!Next, Feed!Arrive, Feed!vars
  <2> QED
    BY <2>2, <2>3, <2>4, StepOfReceiver
<1> QED
  BY <1>1, <1>2, Invariance, PTL DEF SafeSpec, Feed!SafeSpec
===============================================================================
