------------------------------- MODULE TicketLog -------------------------------
(***************************************************************************)
(* What the back office's ticket file promises: a log that sales are       *)
(* appended to, one at a time, and never removed from.  It may become      *)
(* unreadable for good, but it is never partial or rewritten.  A sale is   *)
(* acknowledged to the seller only after it is in the log.                 *)
(***************************************************************************)
EXTENDS Sequences, Naturals, Functions

VARIABLES log,      \* the tickets, in the order of their sale
          readable, \* whether the log can be read
          acked     \* the tickets acknowledged to the seller

vars == <<log, readable, acked>>

Init == log = <<>> /\ readable = TRUE /\ acked = {}

Sell ==
    /\ readable /\ UNCHANGED readable
    /\ Len(log') = Len(log) + 1
    /\ SubSeq(log', 1, Len(log)) = log
    /\ UNCHANGED acked

Acknowledge ==
    /\ acked \subseteq acked'
    /\ readable => acked' \subseteq Range(log)
    /\ UNCHANGED <<log, readable>>

\* Nothing is said of the tickets of an unreadable log.
Corrupt ==
    /\ readable
    /\ readable' = FALSE
    /\ log' = <<>>
    /\ UNCHANGED acked

Next == Sell \/ Acknowledge \/ Corrupt

Spec == Init /\ [][Next]_vars
===============================================================================
