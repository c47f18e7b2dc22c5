------------------------------ MODULE RetryQueue ------------------------------
(***************************************************************************)
(* GenericRetryQueue<T> (gate/include/GenericRetryQueue.hpp): a bounded    *)
(* queue that threads push to and one thread, run(), drains by calling a   *)
(* handler that may fail.  run() copies the front item under the mutex,    *)
(* calls the handler with the mutex released, and takes the mutex again to *)
(* pop.  A push in between may evict the very item being handled.          *)
(*                                                                         *)
(* A block of code executed under m_mutex is one action: nothing touches   *)
(* the queue without the mutex.  Items are numbered in push order; in the  *)
(* gate item k is the k-th snapshot of m_stats.                            *)
(***************************************************************************)
EXTENDS Integers, Sequences, FiniteSets

CONSTANTS Pushers,  \* threads that call push()
          MaxSize,  \* m_max_size
          MaxPush   \* bound: number of push() calls in a behaviour

\* m_max_size is an int compared with a size_t: 0 would pop an empty queue in
\* push(), a negative value would never evict.  The gate passes 10.
ASSUME MaxSizeAssumption == MaxSize \in Nat \ {0}
ASSUME MaxPushAssumption == MaxPush \in Nat

VARIABLES
    queue,     \* m_queue
    pusherPc,  \* per pusher: "idle", or "notify" between unlock and notify_one
    runnerPc,  \* where run() is
    item,      \* run()'s local copy of the front item, 0 outside its scope
    latest,    \* the item the handler's receiver applied last, 0 when none
    \* History, read by the properties only.
    pushed,    \* number of items pushed so far
    handled,   \* items for which the handler returned true
    evicted    \* items push() removed to make room

vars == <<queue, pusherPc, runnerPc, item, latest, pushed, handled, evicted>>

RunnerPc == {"check", "blocked", "handling", "pop", "sleep"}

Init ==
    /\ queue = <<>>
    /\ pusherPc = [p \in Pushers |-> "idle"]
    /\ runnerPc = "check"
    /\ item = 0
    /\ latest = 0
    /\ pushed = 0
    /\ handled = {}
    /\ evicted = {}

-------------------------------------------------------------------------------
(* push() *)

\* Mutant of Full: `>` for `>=`.
FullLate == Len(queue) > MaxSize

Full == Len(queue) >= MaxSize

\* Mutant of Enqueued: a full queue turns the new item away.
EnqueuedIfRoom(new) == IF Full THEN queue ELSE Append(queue, new)

\* Pop the oldest item if the queue is full, then append the new one.
Enqueued(new) == Append(IF Full THEN Tail(queue) ELSE queue, new)

\* The locked block of push().
PushLocked(p) ==
    /\ pusherPc[p] = "idle"
    /\ pushed < MaxPush
    /\ pushed' = pushed + 1
    /\ queue' = Enqueued(pushed + 1)
    /\ evicted' = IF Full THEN evicted \cup {Head(queue)} ELSE evicted
    /\ pusherPc' = [pusherPc EXCEPT ![p] = "notify"]
    /\ UNCHANGED <<runnerPc, item, latest, handled>>

\* Mutant of NotifyOne: the notification is forgotten.
NotifyNobody(p) ==
    /\ pusherPc[p] = "notify"
    /\ pusherPc' = [pusherPc EXCEPT ![p] = "idle"]
    /\ UNCHANGED <<queue, runnerPc, item, latest, pushed, handled, evicted>>

\* m_cv.notify_one(), after the mutex was released.
NotifyOne(p) ==
    /\ pusherPc[p] = "notify"
    /\ pusherPc' = [pusherPc EXCEPT ![p] = "idle"]
    /\ runnerPc' = IF runnerPc = "blocked" THEN "check" ELSE runnerPc
    /\ UNCHANGED <<queue, item, latest, pushed, handled, evicted>>

-------------------------------------------------------------------------------
(* run() *)

\* m_cv.wait finds its predicate true: copy the front, release the mutex.
TakeFront ==
    /\ runnerPc = "check"
    /\ queue # <<>>
    /\ item' = Head(queue)
    /\ runnerPc' = "handling"
    /\ UNCHANGED <<queue, pusherPc, latest, pushed, handled, evicted>>

\* m_cv.wait finds it false: release the mutex and block, in one step.
Block ==
    /\ runnerPc = "check"
    /\ queue = <<>>
    /\ runnerPc' = "blocked"
    /\ UNCHANGED <<queue, pusherPc, item, latest, pushed, handled, evicted>>

\* A condition variable may wake with no notification.
SpuriousWakeup ==
    /\ runnerPc = "blocked"
    /\ runnerPc' = "check"
    /\ UNCHANGED <<queue, pusherPc, item, latest, pushed, handled, evicted>>

\* The handler applied the item at its receiver and returned true.
HandlerSucceeds ==
    /\ runnerPc = "handling"
    /\ latest' = item
    /\ handled' = handled \cup {item}
    /\ runnerPc' = "pop"
    /\ UNCHANGED <<queue, pusherPc, item, pushed, evicted>>

\* Mutant of HandlerFails: the failed item goes back to the end of the queue.
HandlerFailsRotating ==
    /\ runnerPc = "handling"
    /\ latest' \in {latest, item}
    /\ queue' = Append(Tail(queue), item)
    /\ runnerPc' = "sleep"
    /\ UNCHANGED <<pusherPc, item, pushed, handled, evicted>>

\* Mutant of HandlerFails: the item is popped whatever the handler returned.
HandlerFailsPopping ==
    /\ runnerPc = "handling"
    /\ latest' \in {latest, item}
    /\ runnerPc' = "pop"
    /\ UNCHANGED <<queue, pusherPc, item, pushed, handled, evicted>>

\* The handler returned false; the receiver may have applied the item all the
\* same, when only the reply was lost.
HandlerFails ==
    /\ runnerPc = "handling"
    /\ latest' \in {latest, item}
    /\ runnerPc' = "sleep"
    /\ UNCHANGED <<queue, pusherPc, item, pushed, handled, evicted>>

\* Mutant of Pop: the whole queue is dropped.
PopAll ==
    /\ runnerPc = "pop"
    /\ queue' = <<>>
    /\ item' = 0
    /\ runnerPc' = "check"
    /\ UNCHANGED <<pusherPc, latest, pushed, handled, evicted>>

\* The second locked block: pop whatever is at the front by now.
Pop ==
    /\ runnerPc = "pop"
    /\ queue' = Tail(queue)
    /\ item' = 0
    /\ runnerPc' = "check"
    /\ UNCHANGED <<pusherPc, latest, pushed, handled, evicted>>

\* Mutant of WakeUp: run() pushes its copy again, after the copy was cleared.
WakeUpRequeueing ==
    /\ runnerPc = "sleep"
    /\ item' = 0
    /\ queue' = Append(queue, item')
    /\ runnerPc' = "check"
    /\ UNCHANGED <<pusherPc, latest, pushed, handled, evicted>>

\* sleep_for(5s) is over: back to the top of the loop.
WakeUp ==
    /\ runnerPc = "sleep"
    /\ item' = 0
    /\ runnerPc' = "check"
    /\ UNCHANGED <<queue, pusherPc, latest, pushed, handled, evicted>>

Run == TakeFront \/ Block \/ HandlerSucceeds \/ HandlerFails \/ Pop \/ WakeUp

Next ==
    \/ \E p \in Pushers : PushLocked(p) \/ NotifyOne(p)
    \/ Run
    \/ SpuriousWakeup

\* The runner's thread is scheduled, and so is a pusher that has left the
\* mutex; nobody need push.  A wake-up without notification is never owed.
Fairness ==
    /\ WF_vars(Run)
    /\ \A p \in Pushers : WF_vars(NotifyOne(p))

SafeSpec == Init /\ [][Next]_vars

Spec == SafeSpec /\ Fairness

\* As Spec, and the handler does not fail for ever: the server is reachable
\* again and again, at some moment when run() retries.
ReachableSpec == Spec /\ SF_vars(HandlerSucceeds)

-------------------------------------------------------------------------------
(* Properties *)

TypeOK ==
    /\ queue \in Seq(1..MaxPush)
    /\ pusherPc \in [Pushers -> {"idle", "notify"}]
    /\ runnerPc \in RunnerPc
    /\ item \in 0..MaxPush
    /\ latest \in 0..MaxPush
    /\ pushed \in 0..MaxPush
    /\ handled \subseteq 1..MaxPush
    /\ evicted \subseteq 1..MaxPush

\* run()'s pop() is never called on an empty std::queue, which would be
\* undefined behaviour, although run() looked at the queue before it released
\* the mutex; and the queue never outgrows m_max_size.
PopSafe ==
    /\ runnerPc = "pop" => queue # <<>>
    /\ Len(queue) <= MaxSize

\* The newest snapshot is never lost: until the handler has taken it, it is
\* the last item of the queue, whatever the eviction in push() and the pop in
\* run() do to each other.  Needs room for two items.
NewestKept ==
    pushed # 0 =>
        \/ pushed \in handled
        \/ queue # <<>> /\ queue[Len(queue)] = pushed

\* The items that left the queue: pushed ones are numbered in queue order.
Departed == 1..(pushed - Len(queue))

\* The items that left the queue and were not handled.
Lost == Departed \ handled

\* An item run() pops unhandled is paid for by one whose eviction came while
\* it was being handled: run() pops at most one foreign item per such eviction.
\* So nothing is lost as long as the queue has never been full in push().
LossIsPaidFor ==
    Cardinality(Lost \ evicted) <= Cardinality(evicted \cap handled)

\* The receiver never goes back to an older snapshot, whatever is evicted or
\* retried while the handler runs.
NeverBackwards == [][latest' >= latest]_vars

\* Every snapshot, or a newer one, reaches the receiver.
EventuallyReported ==
    \A n \in 1..MaxPush : (pushed >= n) ~> (latest >= n)

\* The queue implements the feed the back office relies on, safety and liveness.
Feed == INSTANCE ReportFeed
ImplementsFeed == Feed!Spec

\* What push() says of losses: "Pop oldest item to make room" ... "Queue full.
\* Oldest item removed."  Every item that left the queue was handled, or is one
\* that push() removed and announced.
OnlyEvictionLoses == Lost \subseteq evicted
===============================================================================
