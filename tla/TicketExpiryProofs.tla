-------------------------- MODULE TicketExpiryProofs --------------------------
(***************************************************************************)
(* The expiry arithmetic, for every length of a day and every width of an  *)
(* int.                                                                    *)
(***************************************************************************)
EXTENDS TicketExpiry, TLAPS

USE SecondsPerDayAssumption, IntValuesAssumption

\* The product of the days and the length of a day is an int, so that the two
\* tests that multiply ints do not overflow.
Fits(validity) == validity * SecondsPerDay \in Ints

LEMMA HalfOfInts ==
    /\ IntValues \div 2 \in Nat \ {0}
    /\ IntValues = 2 * (IntValues \div 2)
  OBVIOUS

\* Narrowing yields an int.
LEMMA ToIntIsInt == ASSUME NEW x \in Int PROVE ToInt(x) \in Ints
  BY HalfOfInts DEF ToInt, Ints

\* An int is not changed by narrowing.
LEMMA ToIntOfInt == ASSUME NEW x \in Ints PROVE ToInt(x) = x
  BY HalfOfInts DEF ToInt, Ints

LEMMA IntsAreInt == Ints \subseteq Int
  BY HalfOfInts DEF Ints

\* From the first day on, for which the product fits, to the last one, it does.
\* With the code's 86400 seconds and 32 bits, the last one is 24855.
LEMMA FitsUpTo ==
    ASSUME NEW last \in Nat, Fits(last), NEW validity \in 0..last
    PROVE  Fits(validity)
<1>1. 0 <= validity * SecondsPerDay
  OBVIOUS
<1>2. validity * SecondsPerDay <= last * SecondsPerDay
  OBVIOUS
<1> QED
  BY <1>1, <1>2, HalfOfInts DEF Fits, Ints

\* Where the product fits, is_expired(const Ticket&) and the gate's
\* is_ticket_expired have one outcome, that of the 64-bit test.
THEOREM ExactIfItFits ==
    ASSUME NEW now \in Int, NEW date \in Int, NEW validity \in Ints, Fits(validity)
    PROVE  ExpiredOutcomes(now, date, validity) = {Expired(now, date, validity)}
<1>1. IntProducts(validity) = {validity * SecondsPerDay}
  BY ToIntOfInt DEF IntProducts, Fits
<1> QED
  BY <1>1, Zenon DEF ExpiredOutcomes, Expired, ExpiryDate

\* A ticket that has expired stays so.
LEMMA ExpiredStays ==
    ASSUME NEW now \in Int, NEW later \in Int, now <= later,
           NEW date \in Int, NEW validity \in Int, Expired(now, date, validity)
    PROVE  Expired(later, date, validity)
<1>1. ExpiryDate(date, validity) \in Int
  BY DEF ExpiryDate
<1> QED
  BY <1>1 DEF Expired
===============================================================================
