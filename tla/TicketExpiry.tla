----------------------------- MODULE TicketExpiry -----------------------------
(***************************************************************************)
(* The expiry arithmetic.  Ids and dates are int64_t, the validity is an   *)
(* int, and two of the three expiry tests multiply two ints, so the        *)
(* product may overflow.  SecondsPerDay is 86400 and IntValues 2^32 in the *)
(* code; the models scale both down and keep SecondsPerDay < IntValues/2.  *)
(***************************************************************************)
EXTENDS Integers

CONSTANTS SecondsPerDay, \* length of a day, in ticks of the clock
          IntValues      \* number of values of an int

ASSUME SecondsPerDayAssumption == SecondsPerDay \in Nat \ {0}
ASSUME IntValuesAssumption ==
    /\ IntValues \in Nat /\ IntValues % 2 = 0
    /\ 2 * SecondsPerDay < IntValues

Ints == (-(IntValues \div 2))..(IntValues \div 2 - 1)

\* Mutant of ToInt: the number keeps its width.
ToIntUnchanged(x) == x

\* What is left of a wider integer in an int: a JSON number read as an int is
\* narrowed without a check.
ToInt(x) == ((x + IntValues \div 2) % IntValues) - IntValues \div 2

\* The instant a ticket stops being valid, in exact arithmetic.
ExpiryDate(date, validity) == date + validity * SecondsPerDay

\* is_expired(int64_t, int64_t): 64-bit arithmetic, exact for every int validity.
Expired(now, date, validity) == now > ExpiryDate(date, validity)

\* The int * int product: exact if it fits.  If not, the behaviour is undefined:
\* a 32-bit multiplication wraps, one widened by the compiler does not.
IntProducts(validity) ==
    {validity * SecondsPerDay, ToInt(validity * SecondsPerDay)}

\* Mutant of ExpiredOutcomes: `>=` for `>`.
ExpiredOutcomesEarly(now, date, validity) ==
    {now >= date + p : p \in IntProducts(validity)}

\* The values is_expired(const Ticket&) can return at instant now.
ExpiredOutcomes(now, date, validity) ==
    {now > date + p : p \in IntProducts(validity)}
===============================================================================
