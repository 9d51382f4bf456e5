------------------------------ MODULE ExprInfo ------------------------------
(* What the compiler deduces of the values of an integer expression, node by node. *)
(* The simplifier keeps an ExprInfo, bounds and alignment (src/Simplify_Internal.h *)
(* and the visit methods of src/Simplify_*.cpp); constant_integer_bounds computes  *)
(* an interval (src/ConstantBounds.cpp).  Either replaces expressions by constants *)
(* and drops the code it takes for unreachable: what is deduced must hold of every *)
(* value.                                                                          *)
(*                                                                                 *)
(* expr is an expression with the values it may have, which the compiler does not  *)
(* know.  It starts as a variable or a constant; a visit makes it an operand of a  *)
(* larger expression, with another leaf or with itself unshared.                   *)
EXTENDS ModulusRemainder

CONSTANTS
    Word,          \* bits of int32_t: a signed type as wide does not overflow
    Types,         \* integer types of the expressions
    Points,        \* ends of the bounds known of variables
    Alignments,    \* alignments known of variables
    MaxVisits,     \* bound: nodes above the first leaf
    Later,         \* bound: constants that are operands of the nodes after the first
    Avoid          \* the places where the deduction is known to fail that are left out

\* Where what is deduced need not hold, each with one of the tests before Becomes:
\*   the quotient of the least int64_t and -1 wraps around in the ends of an interval;
\*   2^max is computed of an interval of shift amounts that has no maximum;
\*   the alignment of a uint64_t constant may be a negative number;
\*   a reduction keeps the alignment of its lanes, and of unsigned lanes the bounds too.
Places == {"wrapped quotient", "unbounded shift", "negative constant", "reduction"}

ASSUME ExprInfoAssumption ==
    /\ Word \in 1..Bits
    /\ \A t \in Types : t.signed \in BOOLEAN /\ t.bits \in 1..Bits
    /\ Points \subseteq Lowest..Highest
    /\ \A a \in Alignments : a.modulus \in Nat /\ a.remainder \in Lowest..Highest
    /\ MaxVisits \in Nat
    /\ Later \subseteq Int
    /\ Avoid \subseteq Places

VARIABLES
    expr,      \* the expression: its type, values, ExprInfo and constant bounds
    leaf,      \* it is a variable or a constant
    visits     \* nodes visited above the first leaf

vars == <<expr, leaf, visits>>
-----------------------------------------------------------------------------
(* ExprInfo *)

Info(bounds, alignment) == [bounds |-> bounds, alignment |-> alignment]

Nothing == Info(everything, any)

constant(x) == Info(single_point(x), ModulusRemainder(0, x))

no_overflow_int(t) == t.signed /\ t.bits >= Word

\* The next number in the class above the lower bound, and below the upper one.
Trimmed(b, a) ==
    LET up   == a.remainder - mod_imp(b.min, a.modulus)
        down == mod_imp(b.max, a.modulus) - a.remainder
        next == b.min + mod_imp(up, a.modulus)
        last == b.max - mod_imp(down, a.modulus)
    IN  Interval(b.min_defined, IF Fits(up) /\ Fits(next) THEN next ELSE b.min,
                 b.max_defined, IF Fits(down) /\ Fits(last) THEN last ELSE b.max)

trim_bounds_using_alignment(i) ==
    LET b == IF i.alignment.modulus = 0 THEN single_point(i.alignment.remainder)
             ELSE IF i.alignment.modulus > 1 THEN Trimmed(i.bounds, i.alignment)
             ELSE i.bounds
    IN  Info(IF is_bounded(b) /\ b.min > b.max THEN single_point(b.min) ELSE b,
             IF is_single_point(b) THEN ModulusRemainder(0, b.min) ELSE i.alignment)

PowerOfTwoIn(m) == Greatest({p \in {2^k : k \in 0..Bits} : m % p = 0})

\* Back from the integers to the type: the value may have wrapped around.
cast_to(t, i) ==
    LET narrow == LET p == PowerOfTwoIn(i.alignment.modulus) IN
                  ModulusRemainder(p, mod_imp(i.alignment.remainder, p))
        alignment ==
            IF can_represent(t, i.bounds) THEN i.alignment
            ELSE IF t.bits < Bits THEN AddAlignment(i.alignment, ModulusRemainder(2^t.bits, 0))
            ELSE IF i.alignment.modulus > 0 THEN narrow
            ELSE i.alignment
    IN  IF no_overflow_int(t) THEN i ELSE Info(cast(t, i.bounds), alignment)

InfoIntersect(i, j) ==
    IF Below(i.bounds, j.bounds) \/ Below(j.bounds, i.bounds) THEN i
    ELSE trim_bounds_using_alignment(
             Info(make_intersection(i.bounds, j.bounds), intersect(i.alignment, j.alignment)))

Holds(i, x) == contains(i.bounds, x) /\ aligned(x, i.alignment)
-----------------------------------------------------------------------------
(* Leaves *)

Expr(type, values, info, bounds) ==
    [type |-> type, values |-> values, info |-> info, bounds |-> bounds]

\* An immediate that int64_t cannot hold is like a variable of which nothing is known.
Immediate(t, x) ==
    IF Fits(x) THEN Expr(t, {x}, cast_to(t, constant(x)), cast(t, single_point(x)))
    ELSE Expr(t, {x}, Nothing, bounds_of_type(t))

\* A variable, with what the scope has of it.
InScope(t, i) ==
    Expr(t, {x \in Values(t) : Holds(i, x)}, i, cast(t, i.bounds))

Unknown(t) ==
    Expr(t, Values(t), IF no_overflow_int(t) THEN Nothing ELSE Info(bounds_of_type(t), any),
         bounds_of_type(t))

Known(t) ==
    LET Ends == Points \cap Values(t) IN
    {Info(Interval(l, x, u, y), a) :
        l \in BOOLEAN, x \in Ends, u \in BOOLEAN, y \in Ends, a \in Alignments}

Leaves == [t \in Types |->
    {Unknown(t)}
    \cup {Immediate(t, x) : x \in Values(t)}
    \cup {e \in {InScope(t, i) : i \in {j \in Known(t) : Proper(j.bounds)}} : e.values # {}}]
-----------------------------------------------------------------------------
(* Nodes.  Each is computed twice, from the operands' ExprInfo and from their       *)
(* constant bounds.                                                                *)

Each(Op(_, _), a, b) == {Op(x, y) : x \in a.values, y \in b.values}

\* Arithmetic wraps around, except where the language leaves an overflow undefined.
Wrapped(t, S) == {MinOf(t) + ((x - MinOf(t)) % 2^t.bits) : x \in S}

Typed(t, S) == IF no_overflow_int(t) THEN S \cap Values(t) ELSE Wrapped(t, S)

Clamped(t, S) == {Least({MaxOf(t), Greatest({MinOf(t), x})}) : x \in S}

Arithmetic(t, S, i, b) ==
    Expr(t, Typed(t, S), cast_to(t, trim_bounds_using_alignment(i)), cast(t, b))

InRange(t, S, i, b) == Expr(t, S, trim_bounds_using_alignment(i), cast(t, b))

Add(a, b) ==
    Arithmetic(a.type, Each(LAMBDA x, y : x + y, a, b),
               Info(Plus(a.info.bounds, b.info.bounds),
                    AddAlignment(a.info.alignment, b.info.alignment)),
               Plus(a.bounds, b.bounds))

Sub(a, b) ==
    Arithmetic(a.type, Each(LAMBDA x, y : x - y, a, b),
               Info(Minus(a.info.bounds, b.info.bounds),
                    SubAlignment(a.info.alignment, b.info.alignment)),
               Minus(a.bounds, b.bounds))

Mul(a, b) ==
    Arithmetic(a.type, Each(LAMBDA x, y : x * y, a, b),
               Info(Times(a.info.bounds, b.info.bounds),
                    MulAlignment(a.info.alignment, b.info.alignment)),
               Times(a.bounds, b.bounds))

Div(a, b) ==
    Arithmetic(a.type, Each(Quotient, a, b),
               Info(Over(a.info.bounds, b.info.bounds),
                    DivAlignment(a.info.alignment, b.info.alignment)),
               Over(a.bounds, b.bounds))

Mod(a, b) ==
    InRange(a.type, Each(mod_imp, a, b),
            Info(Remainder(a.info.bounds, b.info.bounds),
                 ModAlignment(a.info.alignment, b.info.alignment)),
            Remainder(a.bounds, b.bounds))

Min(a, b) ==
    InRange(a.type, Each(LAMBDA x, y : IF x <= y THEN x ELSE y, a, b),
            Info(min(a.info.bounds, b.info.bounds),
                 unify(a.info.alignment, b.info.alignment)),
            min(a.bounds, b.bounds))

Max(a, b) ==
    InRange(a.type, Each(LAMBDA x, y : IF x >= y THEN x ELSE y, a, b),
            Info(max(a.info.bounds, b.info.bounds),
                 unify(a.info.alignment, b.info.alignment)),
            max(a.bounds, b.bounds))

Either(a, b) == Info(make_union(a.info.bounds, b.info.bounds),
                     unify(a.info.alignment, b.info.alignment))

Select(a, b) ==
    InRange(a.type, a.values \cup b.values, Either(a, b), bounds_of_type(a.type))

Shuffle(a, b) ==
    Expr(a.type, a.values \cup b.values, Either(a, b), cast(a.type, make_union(a.bounds, b.bounds)))

\* All lanes of a + lane * b.
Ramp(a, b, lanes) ==
    LET m == gcd(gcd(b.info.alignment.modulus, b.info.alignment.remainder),
                 a.info.alignment.modulus)
    IN  Arithmetic(a.type, UNION {Each(LAMBDA x, y : x + l * y, a, b) : l \in 0..(lanes - 1)},
                   Info(Plus(a.info.bounds, Times(b.info.bounds, Interval(TRUE, 0, TRUE, lanes - 1))),
                        Reduced(m, a.info.alignment.remainder)),
                   bounds_of_type(a.type))

\* A narrower type takes the low bits.
Cast(t, a) ==
    Expr(t, Wrapped(t, a.values),
         IF no_overflow_int(t) /\ ~can_represent(t, a.info.bounds) THEN Nothing
         ELSE cast_to(t, a.info),
         cast(t, a.bounds))

Abs(a) ==
    LET t == uint(a.type.bits) IN
    Expr(t, {Magnitude(x) : x \in a.values},
         cast_to(t, Info(abs(a.info.bounds), any)), cast(t, abs(a.bounds)))

\* Reductions of pairs of lanes.  For unsigned lanes the simplifier leaves the
\* ExprInfo as it is.
Reduced2(a, S, i, b) == Expr(a.type, S, IF a.type.signed THEN i ELSE a.info, cast(a.type, b))

ReduceAdd(a) ==
    LET twice == Times(a.info.bounds, single_point(2)) IN
    Reduced2(a, Typed(a.type, Each(LAMBDA x, y : x + y, a, a)),
             Info(cast(a.type, twice), a.info.alignment), Times(a.bounds, single_point(2)))

ReduceSaturatingAdd(a) ==
    LET twice(b) == saturating_cast(a.type, Times(b, single_point(2))) IN
    Reduced2(a, Clamped(a.type, Each(LAMBDA x, y : x + y, a, a)),
             Info(twice(a.info.bounds), a.info.alignment), twice(a.bounds))

ReduceMul(a) ==
    Reduced2(a, Typed(a.type, Each(LAMBDA x, y : x * y, a, a)),
             Info(everything, a.info.alignment), bounds_of_type(a.type))

ReduceMinMax(a) == Reduced2(a, a.values, a.info, a.bounds)
-----------------------------------------------------------------------------
(* Intrinsics, of which only constant_integer_bounds knows *)

Intrinsic(t, S, b) == Expr(t, S, Nothing, cast(t, b))

Half(i) == Over(i, single_point(2))

Absd(a, b) ==
    Intrinsic(uint(a.type.bits), Each(LAMBDA x, y : Magnitude(x - y), a, b),
              abs(Minus(a.bounds, b.bounds)))

HalvingAdd(a, b) ==
    Intrinsic(a.type, Each(LAMBDA x, y : (x + y) \div 2, a, b), Half(Plus(a.bounds, b.bounds)))

RoundingHalvingAdd(a, b) ==
    Intrinsic(a.type, Each(LAMBDA x, y : (x + y + 1) \div 2, a, b),
              Half(Plus(Plus(a.bounds, b.bounds), single_point(1))))

HalvingSub(a, b) ==
    Intrinsic(a.type, Wrapped(a.type, Each(LAMBDA x, y : (x - y) \div 2, a, b)),
              Half(Minus(a.bounds, b.bounds)))

SaturatingAdd(a, b) ==
    Intrinsic(a.type, Clamped(a.type, Each(LAMBDA x, y : x + y, a, b)),
              saturating_cast(a.type, Plus(a.bounds, b.bounds)))

SaturatingSub(a, b) ==
    Intrinsic(a.type, Clamped(a.type, Each(LAMBDA x, y : x - y, a, b)),
              saturating_cast(a.type, Minus(a.bounds, b.bounds)))

Wide(t) == [t EXCEPT !.bits = 2 * @]

WideningAdd(a, b) ==
    Intrinsic(Wide(a.type), Each(LAMBDA x, y : x + y, a, b), Plus(a.bounds, b.bounds))

WideningSub(a, b) ==
    Intrinsic(int(2 * a.type.bits), Each(LAMBDA x, y : x - y, a, b), Minus(a.bounds, b.bounds))

WideningMul(a, b) ==
    Intrinsic(Wide(a.type), Each(LAMBDA x, y : x * y, a, b), Times(a.bounds, b.bounds))

\* Shifts to the left by y, to the right if y is negative.
Shifted(x, y) == IF y >= 0 THEN x * 2^y ELSE x \div 2^(-y)

ShiftedLeft(a, b) ==
    Intrinsic(a.type, Typed(a.type, Each(Shifted, a, b)), ShiftLeft(a.bounds, b.bounds))

ShiftedRight(a, b) ==
    Intrinsic(a.type, Typed(a.type, Each(LAMBDA x, y : Shifted(x, -y), a, b)),
              ShiftRight(a.bounds, b.bounds))

\* Half of the last place that is shifted out.
Rounding(b) == ShiftLeft(single_point(1), Minus(b, single_point(1)))

RoundedRight(x, y) == IF y > 0 THEN (x + 2^(y - 1)) \div 2^y ELSE x * 2^(-y)

RoundingShiftRight(a, b) ==
    Intrinsic(a.type, Clamped(a.type, Each(RoundedRight, a, b)),
              ShiftRight(Plus(a.bounds, Rounding(b.bounds)), b.bounds))

RoundingShiftLeft(a, b) ==
    LET right == Negated(b.bounds) IN
    Intrinsic(a.type, Clamped(a.type, Each(LAMBDA x, y : RoundedRight(x, -y), a, b)),
              ShiftRight(Plus(a.bounds, Rounding(right)), right))

MulShiftRight(a, b, q) ==
    Intrinsic(a.type, Clamped(a.type, Each(LAMBDA x, y : (x * y) \div 2^q, a, b)),
              ShiftRight(Times(a.bounds, b.bounds), single_point(q)))

RoundingMulShiftRight(a, b, q) ==
    Intrinsic(a.type, Clamped(a.type, Each(LAMBDA x, y : RoundedRight(x * y, q), a, b)),
              ShiftRight(Plus(Times(a.bounds, b.bounds), Rounding(single_point(q))),
                         single_point(q)))
-----------------------------------------------------------------------------
(* Visits.  expr is the left operand or the right one of the next node. *)

Init ==
    /\ \E t \in Types : expr \in Leaves[t]
    /\ leaf = TRUE
    /\ visits = 0

\* The steps at the Places.
NegativeConstant(e) ==
    /\ e.type = uint(Bits)
    /\ e.info.alignment.modulus < 0 \/ (e.info.alignment.modulus = 0 /\ e.info.alignment.remainder < 0)

WrappedQuotient(a, b) ==
    \/ contains(b.info.bounds, -1) /\ a.info.bounds.min_defined /\ a.info.bounds.min = Lowest
    \/ contains(b.bounds, -1) /\ a.bounds.min_defined /\ a.bounds.min = Lowest

UnboundedShift(b) == ~is_bounded(b.bounds) \/ b.bounds.min = Lowest

WrongReduction(a) == ~a.type.signed \/ a.info.alignment # any

Becomes(e) ==
    /\ e.values # {}
    /\ "negative constant" \in Avoid => ~NegativeConstant(e)
    /\ expr' = e
    /\ leaf' = FALSE
    /\ visits' = visits + 1

\* The other operand: any leaf at first, then a constant or a variable that is not known.
Others(t) == IF visits = 0 THEN Leaves[t]
             ELSE {Unknown(t)} \cup {Immediate(t, x) : x \in Values(t) \cap Later}

Operands == {<<expr, b>> : b \in Others(expr.type)} \cup {<<a, expr>> : a \in Others(expr.type)}

Visit(Of(_, _)) ==
    /\ visits < MaxVisits
    /\ \E p \in Operands : Becomes(Of(p[1], p[2]))

VisitOne(e) == visits < MaxVisits /\ Becomes(e)

VisitAdd == Visit(Add)
VisitSub == Visit(Sub)
VisitMul == Visit(Mul)

VisitDiv ==
    /\ visits < MaxVisits
    /\ \E p \in Operands :
           /\ "wrapped quotient" \in Avoid => ~WrappedQuotient(p[1], p[2])
           /\ Becomes(Div(p[1], p[2]))

VisitMod == Visit(Mod)
VisitMin == Visit(Min)
VisitMax == Visit(Max)
VisitSelect == Visit(Select)
VisitShuffle == Visit(Shuffle)
VisitRamp == Visit(LAMBDA a, b : Ramp(a, b, 3))
VisitCast == \E t \in Types : VisitOne(Cast(t, expr))
VisitAbs == VisitOne(Abs(expr))

VisitVectorReduce ==
    \/ /\ "reduction" \in Avoid => ~WrongReduction(expr)
       /\ \/ VisitOne(ReduceAdd(expr))
          \/ VisitOne(ReduceSaturatingAdd(expr))
          \/ VisitOne(ReduceMul(expr))
    \/ VisitOne(ReduceMinMax(expr))

VisitAverage ==
    \/ Visit(Absd)
    \/ Visit(HalvingAdd)
    \/ Visit(RoundingHalvingAdd)
    \/ Visit(HalvingSub)

VisitSaturating == Visit(SaturatingAdd) \/ Visit(SaturatingSub)

VisitWidening ==
    /\ 2 * expr.type.bits <= Bits
    /\ Visit(WideningAdd) \/ Visit(WideningSub) \/ Visit(WideningMul)

\* Shifting by as many bits as there are is undefined.
Amounts(t) == {b \in Others(t) \cup Others([t EXCEPT !.signed = FALSE]) :
                  /\ \A y \in b.values : Magnitude(y) < t.bits
                  /\ "unbounded shift" \in Avoid => ~UnboundedShift(b)}

VisitShift ==
    /\ visits < MaxVisits
    /\ \E b \in Amounts(expr.type) :
           \/ Becomes(ShiftedLeft(expr, b))
           \/ Becomes(ShiftedRight(expr, b))
           \/ Becomes(RoundingShiftLeft(expr, b))
           \/ Becomes(RoundingShiftRight(expr, b))

VisitMulShift ==
    /\ visits < MaxVisits
    /\ \E b \in Others(expr.type), q \in 0..(expr.type.bits - 1) :
           \/ Becomes(MulShiftRight(expr, b, q))
           \/ Becomes(RoundingMulShiftRight(expr, b, q))
-----------------------------------------------------------------------------
(* Scopes *)

\* The body of a let: the variable has the info of its value, if it cannot overflow.
Let ==
    /\ ~leaf
    /\ leaf' = TRUE
    /\ expr' = [expr EXCEPT !.info = IF no_overflow_int(expr.type) THEN @
                                     ELSE Unknown(expr.type).info]
    /\ UNCHANGED visits

\* What the scope has of a variable.
tracked == IF expr.info = Unknown(expr.type).info THEN Nothing ELSE expr.info

\* Within a branch, or after an assertion, the values are those the condition allows.
Variable == leaf /\ visits < MaxVisits

Learn(i, S) ==
    /\ S # {}
    /\ expr' = [expr EXCEPT !.values = S, !.info = InfoIntersect(i, tracked)]
    /\ visits' = visits + 1
    /\ UNCHANGED leaf

learn_upper_bound ==
    /\ Variable
    /\ \E b \in Others(expr.type), strict \in {0, 1} :
           /\ strict = 1 => no_overflow_int(expr.type)
           /\ b.info.bounds.max_defined
           /\ Learn(Info(bounded_above(b.info.bounds.max - strict), any),
                    {x \in expr.values : \E y \in b.values : x + strict <= y})

learn_lower_bound ==
    /\ Variable
    /\ \E b \in Others(expr.type), strict \in {0, 1} :
           /\ strict = 1 => no_overflow_int(expr.type)
           /\ b.info.bounds.min_defined
           /\ Learn(Info(bounded_below(b.info.bounds.min + strict), any),
                    {x \in expr.values : \E y \in b.values : x >= y + strict})

\* The variable on the right of the equation may be unsigned.
learn_equal ==
    /\ Variable
    /\ \E b \in Others(expr.type) : Learn(b.info, expr.values \cap b.values)

learn_alignment ==
    /\ Variable
    /\ expr.type.signed
    /\ \E a \in Alignments :
           /\ a.modulus \in Values(expr.type) \ {0}
           /\ Learn(Info(everything, a), {x \in expr.values : mod_imp(x, a.modulus) = a.remainder})

Next ==
    \/ VisitAdd \/ VisitSub \/ VisitMul \/ VisitDiv \/ VisitMod
    \/ VisitMin \/ VisitMax \/ VisitSelect \/ VisitShuffle \/ VisitRamp
    \/ VisitCast \/ VisitAbs \/ VisitVectorReduce
    \/ VisitAverage \/ VisitSaturating \/ VisitWidening \/ VisitShift \/ VisitMulShift
    \/ Let
    \/ learn_upper_bound \/ learn_lower_bound \/ learn_equal \/ learn_alignment

Spec == Init /\ [][Next]_vars
-----------------------------------------------------------------------------
(* Properties *)

\* No operation of src/ConstantInterval.cpp makes an interval whose minimum is above its
\* maximum, whatever overflows or is learned of unreachable code, and the constant bounds
\* are values of the type (the assertion at the end of bounds_helper).
TypeOK ==
    /\ expr.type \in Types
    /\ Proper(expr.info.bounds) /\ Proper(expr.bounds)
    /\ expr.bounds.min_defined => expr.bounds.min \in Values(expr.type)
    /\ expr.bounds.max_defined => expr.bounds.max \in Values(expr.type)
    /\ expr.values \subseteq Values(expr.type)

\* The simplifier's bounds and alignment hold of every value the expression can have,
\* through any sequence of nodes, casts, let bindings and facts learned of conditions.
InfoHolds == \A x \in expr.values : Holds(expr.info, x)

\* The bounds that constant_integer_bounds finds hold of every value the expression can
\* have, through any sequence of nodes, casts and intrinsics.
ConstantBoundsHold == \A x \in expr.values : contains(expr.bounds, x)
=============================================================================
