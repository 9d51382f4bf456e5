-------------------------- MODULE ModulusRemainder --------------------------
(* src/ModulusRemainder.cpp: the integers modulus * y + remainder, for any y.  One *)
(* number has modulus 0, and all of them 1.  Where int64_t overflows nothing is    *)
(* known.  A modulus may be negative: a product takes the sign of a constant.      *)
EXTENDS ConstantInterval

ModulusRemainder(m, r) == [modulus |-> m, remainder |-> r]

any == ModulusRemainder(1, 0)

aligned(x, a) ==
    IF a.modulus = 0 THEN x = a.remainder ELSE mod_imp(x - a.remainder, a.modulus) = 0

\* mod keeps a number where mod_imp by zero is zero.
mod(a, b) == IF b = 0 THEN a ELSE mod_imp(a, b)

\* The sign of a remainder in C is that of the dividend.
Rem(a, b) == IF a < 0 THEN -(Magnitude(a) % Magnitude(b)) ELSE a % Magnitude(b)

Euclid[a \in Int, b \in Int] == IF b = 0 THEN a ELSE Euclid[b, Rem(a, b)]

gcd(a, b) == IF a < b THEN Euclid[b, a] ELSE Euclid[a, b]

If(ok, m, r) == IF ok THEN ModulusRemainder(m, r) ELSE any

Reduced(m, r) == ModulusRemainder(m, mod(r, m))

AddAlignment(a, b) ==
    IF Fits(a.remainder + b.remainder)
    THEN Reduced(gcd(a.modulus, b.modulus), a.remainder + b.remainder) ELSE any

SubAlignment(a, b) ==
    IF Fits(a.remainder - b.remainder)
    THEN Reduced(gcd(a.modulus, b.modulus), a.remainder - b.remainder) ELSE any

MulAlignment(a, b) ==
    LET product == a.remainder * b.remainder
        Multiple(m) == If(Fits(m), m, 0)
    IN  IF a.modulus = 0 \/ b.modulus = 0 THEN
            LET m == IF a.modulus = 0 THEN a.remainder * b.modulus
                     ELSE a.modulus * b.remainder
            IN  If(Fits(m) /\ Fits(product), m, product)
        ELSE CASE a.remainder = 0 /\ b.remainder = 0 -> Multiple(a.modulus * b.modulus)
               [] a.remainder = 0 /\ b.remainder # 0 ->
                      Multiple(a.modulus * gcd(b.modulus, b.remainder))
               [] a.remainder # 0 /\ b.remainder = 0 ->
                      Multiple(b.modulus * gcd(a.modulus, a.remainder))
               [] OTHER -> IF Fits(product)
                           THEN Reduced(gcd(a.modulus, b.modulus), product) ELSE any

DivAlignment(a, b) ==
    IF b.modulus = 0 /\ b.remainder # 0 /\ mod(a.modulus, b.remainder) = 0
    THEN Reduced(div_imp(a.modulus, b.remainder), div_imp(a.remainder, b.remainder))
    ELSE any

\* Mutant: the denominator is never zero.
NeverByZero(a, b) ==
    LET m == gcd(gcd(a.modulus, b.modulus), b.remainder)
    IN  ModulusRemainder(m, mod(a.remainder, m))

\* a + z * b for some z; but where b may be zero the result may be zero as well.
ModAlignment(a, b) ==
    LET m == gcd(gcd(a.modulus, b.modulus), b.remainder)
        r == mod(a.remainder, m)
    IN  IF b.remainder = 0 /\ r # 0
        THEN IF m = 0 THEN ModulusRemainder(0, 0) ELSE any
        ELSE ModulusRemainder(m, r)

\* All of both, or more.
unify(a, b) ==
    LET diff == Magnitude(a.remainder - b.remainder)
    IN  IF Fits(diff) THEN Reduced(gcd(diff, gcd(a.modulus, b.modulus)),
                                   IF b.remainder > a.remainder THEN b.remainder
                                   ELSE a.remainder)
        ELSE any

\* Either of them, whichever says more.
intersect(a, b) ==
    IF a.modulus = 0 \/ (b.modulus # 0 /\ a.modulus > b.modulus) THEN a ELSE b
=============================================================================
