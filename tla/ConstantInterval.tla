-------------------------- MODULE ConstantInterval --------------------------
(* src/ConstantInterval.cpp: what the compiler knows of the range of an integer   *)
(* expression.  Operators on intervals are those of unbounded integers; the bounds *)
(* are kept in int64_t, here Bits wide, and are dropped where that overflows.      *)
EXTENDS Integers

CONSTANT Bits            \* of int64_t

ASSUME BitsAssumption == Bits \in Nat \ {0}

Lowest  == -(2^(Bits - 1))
Highest == (2^(Bits - 1)) - 1
Fits(x) == Lowest <= x /\ x <= Highest

Least(S)    == CHOOSE x \in S : \A y \in S : x <= y
Greatest(S) == CHOOSE x \in S : \A y \in S : y <= x
Magnitude(x) == IF x < 0 THEN -x ELSE x

\* Division of the language: the remainder is never negative, and dividing by zero
\* gives zero.  In int64_t the quotient of the least number and -1 wraps around.
Quotient(a, b) == IF b = 0 THEN 0 ELSE IF b > 0 THEN a \div b ELSE -(a \div (-b))

div_imp(a, b) == IF a = Lowest /\ b = -1 THEN Lowest ELSE Quotient(a, b)

mod_imp(a, b) == IF b = 0 THEN 0 ELSE a % Magnitude(b)

Interval(min_defined, min, max_defined, max) ==
    [min_defined |-> min_defined, min |-> IF min_defined THEN min ELSE 0,
     max_defined |-> max_defined, max |-> IF max_defined THEN max ELSE 0]

everything == Interval(FALSE, 0, FALSE, 0)
single_point(x) == Interval(TRUE, x, TRUE, x)
bounded_below(x) == Interval(TRUE, x, FALSE, 0)
bounded_above(x) == Interval(FALSE, 0, TRUE, x)

\* Between any of the lower bounds L and any of the upper bounds H.
Within(L, H) == Interval(L # {}, Greatest(L), H # {}, Least(H))

contains(i, x) == (i.min_defined => i.min <= x) /\ (i.max_defined => x <= i.max)

is_bounded(i) == i.min_defined /\ i.max_defined

Proper(i) == is_bounded(i) => i.min <= i.max

is_single_point(i) == is_bounded(i) /\ i.min = i.max

\* The comparisons: of all values of the two.
AtMost(a, b) == a.max_defined /\ b.min_defined /\ a.max <= b.min
Below(a, b)  == a.max_defined /\ b.min_defined /\ a.max < b.min

NonNegative(a) == a.min_defined /\ a.min >= 0
NonPositive(a) == a.max_defined /\ a.max <= 0
Positive(a)    == a.min_defined /\ a.min > 0
Negative(a)    == a.max_defined /\ a.max < 0

Lower(a) == IF a.min_defined THEN {a.min} ELSE {}
Upper(a) == IF a.max_defined THEN {a.max} ELSE {}

make_union(a, b) ==
    LET both_min == a.min_defined /\ b.min_defined
        both_max == a.max_defined /\ b.max_defined
    IN  Interval(both_min, IF a.min <= b.min THEN a.min ELSE b.min,
                 both_max, IF a.max >= b.max THEN a.max ELSE b.max)

make_intersection(a, b) == Within(Lower(a) \cup Lower(b), Upper(a) \cup Upper(b))
-----------------------------------------------------------------------------
(* Arithmetic *)

Negated(a) ==
    Interval(a.max_defined /\ Fits(-a.max), -a.max, a.min_defined /\ Fits(-a.min), -a.min)

Plus(a, b) ==
    Interval(a.min_defined /\ b.min_defined /\ Fits(a.min + b.min), a.min + b.min,
             a.max_defined /\ b.max_defined /\ Fits(a.max + b.max), a.max + b.max)

Minus(a, b) ==
    Interval(a.min_defined /\ b.max_defined /\ Fits(a.min - b.max), a.min - b.max,
             a.max_defined /\ b.min_defined /\ Fits(a.max - b.min), a.max - b.min)

min(a, b) ==
    LET both == a.min_defined /\ b.min_defined IN
    Interval(both, IF a.min <= b.min THEN a.min ELSE b.min,
             a.max_defined \/ b.max_defined, Least(Upper(a) \cup Upper(b)))

max(a, b) ==
    LET both == a.max_defined /\ b.max_defined IN
    Interval(a.min_defined \/ b.min_defined, Greatest(Lower(a) \cup Lower(b)),
             both, IF a.max >= b.max THEN a.max ELSE b.max)

\* What the absolute value of the least number would be is left out.
abs(a) ==
    LET far == {x \in {Magnitude(y) : y \in Lower(a) \cup Upper(a)} : Fits(x)} IN
    Interval(TRUE,
             IF Positive(a) THEN a.min
             ELSE IF Negative(a) /\ Fits(-a.max) THEN -a.max ELSE 0,
             is_bounded(a) /\ Fits(-a.min), Greatest(far \cup {0}))

\* Products of the ends: one that overflows leaves its side open.
Times(a, b) ==
    LET corners == {x * y : x \in Lower(a) \cup Upper(a), y \in Lower(b) \cup Upper(b)}
        fitting == {p \in corners : Fits(p)}
        bounded == is_bounded(a) /\ is_bounded(b)
        min_defined ==
            \/ bounded
            \/ NonNegative(a) /\ NonNegative(b)
            \/ NonPositive(a) /\ NonPositive(b)
            \/ a.min_defined /\ b.max_defined /\ NonNegative(b)
            \/ b.min_defined /\ a.max_defined /\ NonNegative(a)
            \/ a.max_defined /\ b.min_defined /\ NonPositive(b)
            \/ b.max_defined /\ a.min_defined /\ NonPositive(a)
        max_defined ==
            \/ bounded
            \/ NonNegative(a) /\ NonPositive(b)
            \/ NonPositive(a) /\ NonNegative(b)
            \/ a.max_defined /\ b.max_defined /\ NonNegative(b)
            \/ b.max_defined /\ a.max_defined /\ NonNegative(a)
            \/ a.min_defined /\ b.min_defined /\ NonPositive(b)
            \/ b.min_defined /\ a.min_defined /\ NonPositive(a)
    IN  Interval(min_defined /\ \A p \in corners : p >= Lowest, Least(fitting \cup {Highest}),
                 max_defined /\ \A p \in corners : p <= Highest, Greatest(fitting \cup {Lowest}))

\* Quotients of the ends, and their limit if the denominator is unbounded; no quotient
\* is larger than its numerator, nor of the wrong sign.
Over(a, b) ==
    LET corners == {div_imp(x, y) : x \in Lower(a) \cup Upper(a),
                                    y \in (Lower(b) \cup Upper(b)) \ {0}}
        limit == IF (Positive(b) /\ ~b.max_defined) \/ (Negative(b) /\ ~b.min_defined)
                 THEN {0} ELSE {}
        far == IF is_bounded(a) /\ a.min # Lowest
               THEN {IF a.max >= -a.min THEN a.max ELSE -a.min} ELSE {}
        same == \/ NonNegative(a) /\ NonNegative(b)
                \/ NonPositive(a) /\ NonPositive(b)
        opposite == \/ NonNegative(a) /\ NonPositive(b)
                    \/ NonPositive(a) /\ NonNegative(b)
        L == (IF (a.min_defined /\ Positive(b)) \/ (a.max_defined /\ Negative(b))
              THEN {Least(corners \cup limit)} ELSE {})
             \cup {-x : x \in far} \cup (IF same THEN {0} ELSE {})
        H == (IF (a.max_defined /\ Positive(b)) \/ (a.min_defined /\ Negative(b))
              THEN {Greatest(corners \cup limit)} ELSE {})
             \cup far \cup (IF opposite /\ ~same THEN {0} ELSE {})
    IN  Within(L, H)

Remainder(a, b) ==
    LET largest == IF is_bounded(b) /\ b.max # Lowest
                   THEN {Greatest({0, b.max - 1, -1 - b.min})} ELSE {}
    IN  IF NonNegative(a) /\ Below(a, abs(b)) THEN a
        ELSE Within({0}, largest \cup (IF is_bounded(a) /\ a.min >= 0 THEN {a.max} ELSE {}))

\* Shifts, as a product and a quotient of powers of two.  The upper end of the amount
\* is read whether it is defined or not.
two_to_the(i) ==
    Interval(TRUE, IF i.min >= Bits - 1 THEN Highest ELSE 2^i.min,
             i.max < Bits - 1, IF i.max < Bits - 1 THEN 2^i.max ELSE 0)

ShiftLeft(a, b) ==
    LET left == max(b, single_point(0))
        right == max(Negated(b), single_point(0))
    IN  Over(Times(a, two_to_the(left)), two_to_the(right))

ShiftRight(a, b) == ShiftLeft(a, Negated(b))
-----------------------------------------------------------------------------
(* Types *)

int(bits)  == [signed |-> TRUE, bits |-> bits]
uint(bits) == [signed |-> FALSE, bits |-> bits]

MinOf(t) == IF t.signed THEN -(2^(t.bits - 1)) ELSE 0
MaxOf(t) == IF t.signed THEN (2^(t.bits - 1)) - 1 ELSE (2^t.bits) - 1
Values(t) == MinOf(t)..MaxOf(t)

can_represent(t, i) == is_bounded(i) /\ i.min \in Values(t) /\ i.max \in Values(t)

bounds_of_type(t) ==
    Interval(TRUE, MinOf(t), t.signed \/ t.bits < Bits, MaxOf(t))

\* Mutant: only the ends that the type has are checked.
LowerOnly(t, i) ==
    IF i.min_defined /\ i.min \in Values(t) THEN i ELSE bounds_of_type(t)

cast(t, i) == IF can_represent(t, i) THEN i ELSE bounds_of_type(t)

saturating_cast(t, a) ==
    LET b == bounds_of_type(t) IN
    IF AtMost(b, a) THEN single_point(b.max)
    ELSE IF AtMost(a, b) THEN single_point(b.min)
    ELSE make_intersection(a, b)
=============================================================================
