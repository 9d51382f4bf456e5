-------------------------- MODULE IntegerDivision --------------------------
(* Division by a small number without dividing.  tools/find_inverse.cpp looks for  *)
(* a multiplier and shifts for each divisor, and writes them into tables;          *)
(* lower_int_uint_div (src/CodeGen_Internal.cpp) turns a division by a constant    *)
(* into them, src/FastIntegerDivide.cpp one by a number known when the pipeline    *)
(* runs.  What they emit is not what the search has tried.                         *)
EXTENDS ConstantInterval, Sequences

CONSTANTS
    Width,        \* bits of the numerator
    Divisors      \* rows of the tables

Kinds  == {"unsigned", "floor", "to zero"}      \* tables u, s and srz
Tables == {"compile", "runtime"}

VARIABLES
    row,      \* the table, the kind of division and the divisor
    try,      \* the candidate the search is at
    state     \* of the search: "searching", "found" or "error"

vars == <<row, try, state>>

Base == 2^Width
Numerators(kind) == IF kind = "unsigned" THEN 0..(Base - 1) ELSE (-(Base \div 2))..(Base \div 2 - 1)

\* Wrapped around to the type of the numerators.
Wrap(kind, x) == LET low == x % Base IN
                 IF kind # "unsigned" /\ 2 * low >= Base THEN low - Base ELSE low

TowardsZero(a, b) == IF a < 0 THEN -((-a) \div b) ELSE a \div b

\* srzdiv and sdiv of the search, and the division of unsigned numbers.
Exact(kind, a, b) == IF kind = "to zero" THEN TowardsZero(a, b) ELSE a \div b

\* 63 - clz64(x).
Log2(x) == CHOOSE k \in 0..Width : 2^k <= x /\ x < 2^(k + 1)

\* x ^ mask, of a mask that is all ones if neg.
Flip(neg, x) == IF neg THEN -1 - x ELSE x

Average(a, b, round) == (a + b + round) \div 2
-----------------------------------------------------------------------------
(* The search *)

den == IF row.divisor = 0 THEN 256 ELSE row.divisor

\* Multiply, keep the high half.
High(mul, a) == (mul * a) \div Base

\* What a method makes of a.
Method(kind, t, a) ==
    LET high  == High(t.mul, a)
        value ==
            CASE t.method = 0 -> IF kind = "to zero" /\ a < 0 THEN a + den - 1 ELSE a
              [] t.method = 1 /\ kind = "floor" -> High(t.mul, Flip(a < 0, a))
              [] t.method = 1 /\ kind # "floor" -> high
              [] t.method = 2 -> Average(high, a, 0)
              [] t.method = 3 -> Average(high, a, 1)
        shifted == value \div 2^t.shift
    IN  CASE t.method = 1 /\ kind = "floor" -> Flip(a < 0, shifted)
          [] t.method = 1 /\ kind = "to zero" /\ a < 0 -> shifted + 1
          [] OTHER -> shifted

Works(t) ==
    /\ row.kind = "unsigned" => t.mul < Base
    /\ \A a \in Numerators(row.kind) : Method(row.kind, t, a) = Exact(row.kind, a, den)

Try(method, shift, mul) == [method |-> method, shift |-> shift, mul |-> mul]

last_shift == Log2(den - 1)

\* Cheapest methods first.
Tries ==
    LET shifts == [s \in 1..16 |-> Try(0, s - 1, 0)]
        mul_1(s) == 2^(Width + s) \div den + 1
        mul_2(s) == 2^(Width + s + 1) \div den - Base
        cheap == IF row.kind = "unsigned"
                 THEN shifts \o [s \in 1..8 |-> Try(1, s - 1, mul_1(s - 1))]
                             \o [s \in 1..8 |-> Try(3, s - 1, mul_2(s - 1) % Base)]
                 ELSE SubSeq(shifts, 1, 8)
        general == IF row.kind = "unsigned" THEN Try(2, last_shift, (mul_2(last_shift) + 1) % Base)
                   ELSE Try(1, last_shift, mul_1(last_shift))
    IN  IF row.table = "compile" THEN cheap \o IF den = 1 THEN <<>> ELSE <<general>>
        ELSE <<general>>

\* The rows for the divisors 0 and 1 of the runtime tables hold zeros.
Init ==
    /\ row \in [table : Tables, kind : Kinds, divisor : Divisors]
    /\ try = 1
    /\ state = IF row.table = "runtime" /\ row.divisor < 2 THEN "found" ELSE "searching"

Found ==
    /\ state = "searching"
    /\ Works(Tries[try])
    /\ state' = "found"
    /\ UNCHANGED <<row, try>>

Fails ==
    /\ state = "searching"
    /\ ~Works(Tries[try])
    /\ IF try = Len(Tries) THEN state' = "error" /\ UNCHANGED try
       ELSE try' = try + 1 /\ UNCHANGED state
    /\ UNCHANGED row

Next == Found \/ Fails

Spec == Init /\ [][Next]_vars

entry == IF row.table = "runtime" /\ row.divisor < 2 THEN Try(0, 0, 0) ELSE Tries[try]
-----------------------------------------------------------------------------
(* Division by a constant *)

is_const_power_of_two_integer(d) == \E k \in 0..Width : d = 2^k

\* Both sides of it are unsigned: a saturated, then narrowed product.
mul_shift_right(a, mul, q) == (a * mul) \div 2^q

\* One is at most the other.
sorted_avg(a, b) == a + (b - a) \div 2

ByShift(a) ==
    LET fudge == IF row.kind = "to zero" /\ a < 0 THEN den - 1 ELSE 0 IN
    Wrap(row.kind, a + fudge) \div 2^Log2(den)

BySignedTable(a) ==
    LET num == IF row.kind = "to zero" THEN Magnitude(a) ELSE Flip(a < 0, a)
        quotient == Wrap(row.kind, Flip(a < 0, mul_shift_right(num, entry.mul, entry.shift + Width)))
    IN  IF row.kind = "to zero" /\ a < 0 THEN Wrap(row.kind, quotient + 1) ELSE quotient

\* Mutant: the third method rounds as the second does.
ByRoundingDown(a) ==
    LET val == mul_shift_right(a, entry.mul, (IF entry.method = 1 THEN entry.shift ELSE 0) + Width)
    IN  IF entry.method = 1 THEN val ELSE sorted_avg(val, a) \div 2^entry.shift

ByUnsignedTable(a) ==
    LET val == mul_shift_right(a, entry.mul, (IF entry.method = 1 THEN entry.shift ELSE 0) + Width)
    IN  CASE entry.method = 1 -> val
          [] entry.method = 2 -> sorted_avg(val, a) \div 2^entry.shift
          [] entry.method = 3 -> Average(val, a, 1) \div 2^entry.shift

lower_int_uint_div(a) ==
    IF is_const_power_of_two_integer(den) THEN ByShift(a)
    ELSE IF row.kind = "unsigned" THEN ByUnsignedTable(a) ELSE BySignedTable(a)

lower_int_uint_mod(a) ==
    IF is_const_power_of_two_integer(den) THEN a % den
    ELSE Wrap(row.kind, a - Wrap(row.kind, lower_int_uint_div(a) * den))

\* A divisor that is a constant of the type.
Constant == row.table = "compile" /\ row.divisor \in Numerators(row.kind) \ {0}
-----------------------------------------------------------------------------
(* Division by a number that is known when the pipeline runs *)

\* From the divisor itself, by counting leading zeros in a byte; that of 0 is 7.
shift_for_denominator == IF row.divisor = 0 THEN 7 ELSE Log2(row.divisor - 1)

fast_integer_divide(a) ==
    LET kind == row.kind
        neg  == IF kind = "floor" THEN a <= 0 ELSE a < 0
        num  == IF kind = "floor" THEN Flip(neg, a) ELSE a
        high == Wrap(kind, High(entry.mul, num))
        mean == IF kind = "unsigned" THEN high + (num - high) \div 2 ELSE high
        shifted == mean \div 2^shift_for_denominator
    IN  IF row.divisor = 1 THEN num
        ELSE CASE kind = "floor" -> Flip(neg, shifted)
               [] kind = "to zero" /\ neg -> shifted + 1
               [] OTHER -> shifted

fast_integer_modulo(a) == Wrap(row.kind, a - fast_integer_divide(a) * row.divisor)

\* The divisor 1 returns the numerator, of which the rounding down has flipped the bits;
\* and 0, which stands for 256, has no multiplier, which only unsigned numerators bear.
WrongDivisor == \/ row.divisor = 1 /\ row.kind = "floor"
                \/ row.divisor = 0 /\ row.kind # "unsigned"
-----------------------------------------------------------------------------
(* Properties *)

\* The search finds a row for every divisor, whose multiplier is a number of the width and
\* whose shift is the one that the runtime tables are asserted to have; and the code that is
\* emitted for the row, which rounds, widens and flips signs otherwise than the search does,
\* has the quotient and the remainder of every numerator.
DividesExactly ==
    /\ state # "error"
    /\ state = "found" =>
       /\ entry.mul \in 0..(Base - 1)
       /\ row.table = "runtime" /\ row.divisor > 1 => entry.shift = shift_for_denominator
       /\ Constant => \A a \in Numerators(row.kind) :
              /\ lower_int_uint_div(a) = Exact(row.kind, a, den)
              /\ row.kind # "to zero" => lower_int_uint_mod(a) = a % den
       /\ row.table = "runtime" /\ ~WrongDivisor => \A a \in Numerators(row.kind) :
              /\ fast_integer_divide(a) = Exact(row.kind, a, den)
              /\ row.kind # "to zero" => fast_integer_modulo(a) = Wrap(row.kind, a % den)
=============================================================================
