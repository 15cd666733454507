----------------------------- MODULE RandomUtil ------------------------------
(***************************************************************************)
(* include/skutils/random.h: integers, vectors of them and strings, drawn  *)
(* one by one from _intDistro.  A call is chosen by Init, also one whose   *)
(* bounds are in the wrong order, as in getRandomInt(1000) with its        *)
(* default upper bound of 100 (example/protobuf/demo_protobuf.cpp:12).     *)
(***************************************************************************)
EXTENDS Integers, Sequences, FiniteSets

CONSTANTS
    Drawn,     \* the upper bound of _intDistro, 10000 in the code
    Bounds,    \* what lower and upper may be
    MaxDrawn   \* bound on the length of a vector or a string

ASSUME RandomAssumption == Drawn \in Nat /\ Bounds \subseteq Int /\ MaxDrawn \in Nat

VARIABLES
    lower, upper,  \* arguments; those of getRandomString() are 0 and the charset's length - 1
    length,        \* how many are asked for
    numbers,       \* the vector, or the positions in the charset
    randomAt       \* "drawing", "returned", or "undefined": a division by zero

randomVars == <<lower, upper, length, numbers, randomAt>>

RandomInit ==
    /\ lower \in Bounds /\ upper \in Bounds
    /\ length \in 0 .. MaxDrawn
    /\ numbers = <<>>
    /\ randomAt = "drawing"

\* Two mistakes that the property below must tell from the code: the upper bound cannot be
\* drawn, and the remainder is not moved.
Bug_RandomInt(raw) == (raw % (IF upper = lower THEN 1 ELSE upper - lower)) + lower
Bug_Unmoved(raw) == raw % (IF upper - lower + 1 > 0 THEN upper - lower + 1 ELSE lower - upper - 1)

\* getRandomInt() with what _intDistro gave; the remainder of C++ has the sign of raw,
\* which is not negative, so that the divisor's does not matter.
RandomInt(raw) ==
    LET divisor == upper - lower + 1
    IN (raw % (IF divisor > 0 THEN divisor ELSE -divisor)) + lower

\* An iteration of getRandomIntVector() or getRandomString()
DrawNumber ==
    /\ randomAt = "drawing"
    /\ \/ /\ Len(numbers) = length
          /\ randomAt' = "returned"
          /\ UNCHANGED numbers
       \/ /\ Len(numbers) < length
          /\ IF upper - lower + 1 = 0 THEN randomAt' = "undefined" /\ UNCHANGED numbers
             ELSE /\ \E raw \in 0 .. Drawn : numbers' = Append(numbers, RandomInt(raw))
                  /\ UNCHANGED randomAt
    /\ UNCHANGED <<lower, upper, length>>

-----------------------------------------------------------------------------
(* Properties *)

RandomTypeOK ==
    /\ numbers \in Seq(Int) /\ Len(numbers) <= length
    /\ randomAt \in {"drawing", "returned", "undefined"}

\* What is drawn lies between bounds that are in order; where they are not, it lies at or
\* above the first, and so never at or below the second.
BetweenBounds ==
    \A k \in DOMAIN numbers :
      IF lower <= upper THEN numbers[k] \in lower .. upper
                        ELSE numbers[k] >= lower /\ numbers[k] > upper

\* Every number between the bounds can be drawn if and only if the range is not wider than
\* that of _intDistro, and then no two differ by more than one in how many of its values
\* lead to them; of a wider range only the lower end is.
Spread ==
    lower <= upper =>
      LET ways(v) == Cardinality({raw \in 0 .. Drawn : RandomInt(raw) = v})
      IN /\ (\A v \in lower .. upper : ways(v) > 0) <=> upper - lower <= Drawn
         /\ \A v, w \in lower .. upper : upper - lower <= Drawn => ways(v) <= ways(w) + 1
         /\ \A v \in lower .. upper : v > lower + Drawn => ways(v) = 0

\* A charset that is empty, or bounds that are one apart in the wrong order, divide by zero;
\* nothing else does.
DividesByZero == randomAt = "undefined" => upper = lower - 1 /\ length > 0

\* Random numbers are where they are asked for, and as even as the generator lets them be.
RandomCorrect == RandomTypeOK /\ BetweenBounds /\ Spread /\ DividesByZero
=============================================================================
