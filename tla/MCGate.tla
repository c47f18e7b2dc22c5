-------------------------------- MODULE MCGate --------------------------------
(***************************************************************************)
(* Gate with a payload that is no ticket and a ticket that expires while   *)
(* the clock runs: dated one tick before it starts, for so many days that  *)
(* one is left of them in an int, and a day has one tick.                  *)
(***************************************************************************)
EXTENDS Gate

CONSTANTS Garbage

OneDayTicket == [creation_date |-> -1, validity_in_days |-> IntValues + 1]

MCPayloads == {Garbage, OneDayTicket}
===============================================================================
