------------------------------ MODULE ReportFeed ------------------------------
(***************************************************************************)
(* What a gate's report pipeline promises the back office.  The gate       *)
(* publishes snapshots of its cumulative counters, numbered 1, 2, 3, ...;  *)
(* the receiver keeps one snapshot.  Snapshots in between may be skipped,  *)
(* since each contains the ones before it, but the receiver never goes     *)
(* back to an older one and ends with the newest.                          *)
(***************************************************************************)
EXTENDS Integers

CONSTANT MaxPush  \* bound: how many snapshots are published

VARIABLES pushed, \* number of snapshots published so far
          latest  \* the snapshot the receiver holds, 0 when it holds none

vars == <<pushed, latest>>

Init == pushed = 0 /\ latest = 0

Publish ==
    /\ pushed < MaxPush
    /\ pushed' = pushed + 1
    /\ UNCHANGED latest

\* Any newer snapshot may arrive, whatever is skipped on the way.
Arrive ==
    /\ latest' \in (latest + 1)..pushed
    /\ UNCHANGED pushed

Next == Publish \/ Arrive

SafeSpec == Init /\ [][Next]_vars

Spec == SafeSpec /\ WF_vars(Arrive)
===============================================================================
