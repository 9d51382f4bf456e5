--------------------------- MODULE LongDivision ---------------------------
(* Division of the language lowered to machine code (src/CodeGen_Internal.cpp):      *)
(* lower_euclidean_div and lower_euclidean_mod make it of a division that rounds to *)
(* zero, which targets without one (src/HexagonOptimize.cpp) do bit by bit, from the *)
(* highest bit that the quotient can have.                                          *)
EXTENDS ConstantInterval

CONSTANT Width      \* bits of the operands

VARIABLES
    op,       \* what is divided: the operands and whether they are signed, div or mod
    q, r,     \* quotient so far, and what is left of the numerator
    shift     \* bit of the quotient that is checked next, -1 when all are

vars == <<op, q, r, shift>>

Base == 2^Width
Numbers(signed) == IF signed THEN (-(Base \div 2))..(Base \div 2 - 1) ELSE 0..(Base - 1)

Wrap(x) == LET low == x % Base IN IF op.signed /\ 2 * low >= Base THEN low - Base ELSE low

Bit(b) == IF b THEN 1 ELSE 0
-----------------------------------------------------------------------------
(* What lower_euclidean_div and _mod divide: 1 is added to a negative numerator, so that  *)
(* the rounding works out, and a divisor that is zero is replaced.                       *)

Divided == IF op.signed THEN op.a + Bit(op.a < 0) ELSE op.a

Divisor == IF op.b # 0 THEN op.b ELSE IF op.signed /\ op.mod THEN -1 ELSE 1

num == Magnitude(Divided)
den == Magnitude(Divisor)

count_leading_zeros(x) == Width - (CHOOSE k \in 0..Width : x < 2^k /\ (k = 0 \/ 2^(k - 1) <= x))

\* The highest bit of the bound that is known of the quotient, if one is.
Starts ==
    LET bounds == Magnitude(Quotient(Divided, Divisor))..(Base - 1) IN
    {Width - 1} \cup {IF bound = 0 THEN 0 ELSE Width - 1 - count_leading_zeros(bound) : bound \in bounds}

Init ==
    /\ \E signed, mod \in BOOLEAN :
           \E a, b \in Numbers(signed) : op = [signed |-> signed, mod |-> mod, a |-> a, b |-> b]
    /\ q = 0
    /\ r = num
    /\ shift \in Starts

\* The divisor must not lose a bit when it is shifted.
CheckBit ==
    /\ shift >= 0
    /\ IF shift <= count_leading_zeros(den) /\ r >= (den * 2^shift) % Base
       THEN /\ r' = (r - den * 2^shift) % Base
            /\ q' = q + 2^shift
       ELSE UNCHANGED <<q, r>>
    /\ shift' = shift - 1
    /\ UNCHANGED op

Next == CheckBit

Spec == Init /\ [][Next]_vars

div_round_to_zero == IF op.signed THEN Wrap(q * (IF (Divided < 0) # (Divisor < 0) THEN -1 ELSE 1)) ELSE q

mod_round_to_zero == IF op.signed THEN Wrap(r * (IF Divided < 0 THEN -1 ELSE 1)) ELSE r

\* The quotient moves away from zero again where the numerator was negative.
lower_euclidean_div ==
    LET fix == IF ~op.signed \/ op.a >= 0 THEN 0 ELSE IF op.b < 0 THEN 1 ELSE -1 IN
    IF op.b = 0 THEN 0 ELSE Wrap(div_round_to_zero + fix)

lower_euclidean_mod ==
    LET fix == IF ~op.signed \/ op.a >= 0 THEN 0 ELSE IF op.b < 0 THEN -1 - op.b ELSE op.b - 1 IN
    IF op.b = 0 THEN 0 ELSE Wrap(mod_round_to_zero + fix)
-----------------------------------------------------------------------------
(* Properties *)

\* Between the bits, the quotient so far times the divisor and what is left are the
\* numerator, and what is left is less than the divisor times the bits above: none is lost
\* by starting at the bound's highest bit, or where the divisor cannot be shifted.  In the
\* end the corrections of sign and rounding give the Euclidean quotient and remainder, of
\* every pair of numbers; the remainder is that of the numerator.
LongDivisionExact ==
    /\ q * den + r = num
    /\ r < den * 2^(shift + 1)
    /\ shift = -1 =>
       IF op.mod THEN lower_euclidean_mod = mod_imp(op.a, op.b)
       ELSE lower_euclidean_div = Wrap(Quotient(op.a, op.b))
=============================================================================
