----------------------------- MODULE Monotonic -----------------------------
(* src/Monotonic.cpp: by how much an expression changes when a variable x grows by  *)
(* one.  DerivativeBounds computes an interval from the nodes of the expression;     *)
(* passes take what it calls increasing, decreasing or constant to be so.            *)
(*                                                                                  *)
(* expr is an expression: what it is worth at each x, and its interval.  The other   *)
(* variables have some value each.  int32_t does not overflow.                       *)
EXTENDS ConstantInterval, FiniteSets

CONSTANTS
    Last,        \* bound: x is one of 0..Last
    Numerals,     \* bound: constants, and values of the variables
    MaxNodes     \* bound: nodes above the first leaf

VARIABLES
    expr,      \* its type, its value at each x, and its derivative's bounds
    nodes      \* visited above the first leaf

vars == <<expr, nodes>>

X == 0..Last
Steps(f) == {f[x + 1] - f[x] : x \in 0..(Last - 1)}

Expr(type, f, d) == [type |-> type, f |-> f, d |-> d]

\* The bounds of a set of numbers.
Hull(S) == Interval(TRUE, Least(S), TRUE, Greatest(S))

zero == single_point(0)
is_constant(d) == is_single_point(d) /\ d.min = 0

to_monotonic(d) ==
    IF is_constant(d) THEN "constant" ELSE IF NonNegative(d) THEN "increasing"
    ELSE IF NonPositive(d) THEN "decreasing" ELSE "unknown"

to_interval(m) ==
    CASE m = "constant" -> zero [] m = "increasing" -> bounded_below(0)
      [] m = "decreasing" -> bounded_above(0) [] OTHER -> everything
-----------------------------------------------------------------------------
(* Leaves *)

Constant(c) == Expr("int", [x \in X |-> c], zero)
TheVariable == Expr("int", [x \in X |-> x], single_point(1))

\* A variable that depends on x, of which the scope has bounds or only a direction.
InScope(f) ==
    LET d == Hull(Steps(f)) IN {Expr("int", f, d), Expr("int", f, to_interval(to_monotonic(d)))}

Leaves == {TheVariable} \cup {Constant(c) : c \in Numerals}
          \cup UNION {InScope(f) : f \in [X -> Numerals]}

Init ==
    /\ expr \in Leaves
    /\ nodes = 0
-----------------------------------------------------------------------------
(* Nodes *)

Map(Op(_, _), a, b) == [x \in X |-> Op(a.f[x], b.f[x])]

Int2(Op(_, _), a, b, d) == Expr("int", Map(Op, a, b), d)
Test(Op(_, _), a, b, d) == Expr("bool", Map(LAMBDA p, q : IF Op(p, q) THEN 1 ELSE 0, a, b), d)

Plus2(p, q) == p + q
Less(p, q) == IF p <= q THEN p ELSE q
More(p, q) == IF p >= q THEN p ELSE q

Add(a, b) == Int2(Plus2, a, b, Plus(a.d, b.d))
Sub(a, b) == Int2(LAMBDA p, q : p - q, a, b, Minus(a.d, b.d))

\* The product with a constant.
MulBy(a, c) == Expr("int", [x \in X |-> a.f[x] * c], Times(a.d, single_point(c)))
Mul(a, b) == Int2(LAMBDA p, q : p * q, a, b, everything)

\* Mutant: both are rounded down.
RoundedDown(d, c) ==
    Interval(d.min_defined, div_imp(d.min, c), d.max_defined, div_imp(d.max, c))

\* The quotient of the minimum rounded down, that of the maximum rounded up.
Divided(d, c) ==
    Interval(d.min_defined, div_imp(d.min, c),
             d.max_defined /\ d.max # Lowest, div_imp(d.max - 1, c) + 1)

DivBy(a, c) ==
    Expr("int", [x \in X |-> Quotient(a.f[x], c)],
         IF c = 0 THEN zero ELSE IF c < 0 THEN Negated(Divided(a.d, c)) ELSE Divided(a.d, c))

Div(a, b) == Int2(Quotient, a, b, everything)
Mod(a, b) == Int2(mod_imp, a, b, everything)

Min(a, b) == Int2(Less, a, b, make_union(a.d, b.d))
Max(a, b) == Int2(More, a, b, make_union(a.d, b.d))

\* At most from false to true, or back.
Once(d) ==
    LET Clamp(x) == More(-1, Less(1, x)) IN
    Interval(d.min_defined, Clamp(d.min), d.max_defined, Clamp(d.max))

visit_eq(a, b) ==
    IF is_constant(a.d) /\ is_constant(b.d) THEN zero ELSE Interval(TRUE, -1, TRUE, 1)

EQ(a, b) == Test(LAMBDA p, q : p = q, a, b, visit_eq(a, b))
NE(a, b) == Test(LAMBDA p, q : p # q, a, b, visit_eq(a, b))

\* The sign of the bounds is that of b - a.
Order(a, b) == make_union(b.d, Negated(a.d))

LT(a, b) == Test(LAMBDA p, q : p < q, a, b, Once(Order(a, b)))
LE(a, b) == Test(LAMBDA p, q : p <= q, a, b, Once(Order(a, b)))

And(a, b) == Expr("bool", Map(Less, a, b), make_union(a.d, b.d))
Or(a, b) == Expr("bool", Map(More, a, b), make_union(a.d, b.d))
Not(a) == Expr("bool", [x \in X |-> 1 - a.f[x]], Negated(a.d))

\* What is gained or lost where the condition changes is between the bounds of the
\* difference, if any are found.
Select(c, a, b, bounds) ==
    LET both == make_union(a.d, b.d) IN
    Expr("int", [x \in X |-> IF c.f[x] = 1 THEN a.f[x] ELSE b.f[x]],
         IF is_constant(c.d) THEN both ELSE Plus(both, Times(c.d, bounds)))

Bumps(a, b) == {everything, Hull({a.f[x] - b.f[x] : x \in X})}

\* A cast to a type that has all values of the old one; and to one of two values.
Widened(a) == [a EXCEPT !.type = "int"]

Narrowed(a) ==
    Expr("int", [x \in X |-> a.f[x] % 2], IF is_constant(a.d) THEN zero ELSE everything)

\* saturating_cast, and a pure call, to any function of its arguments.
Saturated(a, l, u) ==
    Expr("int", [x \in X |-> Less(u, More(l, a.f[x]))], make_union(a.d, zero))

Square(a) == [x \in X |-> a.f[x] * a.f[x]]

\* last is what the visit before has left in the result.
Called(a, last) ==
    Expr("int", Square(a), IF is_constant(last) /\ is_constant(a.d) THEN zero ELSE everything)

\* Reductions of pairs of lanes that are like a.  A saturated sum need not grow as the
\* lanes do together, which its bounds say: it is left out.
ReduceAdd(a) == MulBy(a, 2)

ReduceMul(a) == Expr("int", Square(a), IF is_constant(a.d) THEN a.d ELSE everything)
-----------------------------------------------------------------------------
(* Visits *)

Others == IF nodes = 0 THEN Leaves ELSE {TheVariable} \cup {Constant(c) : c \in Numerals}

Becomes(e) ==
    /\ expr' = e
    /\ nodes' = nodes + 1

Visited(type) == expr.type = type /\ nodes < MaxNodes

Visit(Of(_, _)) ==
    /\ Visited("int")
    /\ \E b \in Others : Becomes(Of(expr, b)) \/ Becomes(Of(b, expr))

VisitAdd == Visit(Add)
VisitSub == Visit(Sub)
VisitMul ==
    \/ Visit(Mul)
    \/ Visited("int") /\ \E c \in Numerals : Becomes(MulBy(expr, c))

\* By a constant that is negative the bounds are negated twice: left out.
VisitDiv ==
    \/ Visit(Div)
    \/ Visited("int") /\ \E c \in Numerals : c >= 0 /\ Becomes(DivBy(expr, c))
VisitMod == Visit(Mod)
VisitMin == Visit(Min)
VisitMax == Visit(Max)
VisitEQ == Visit(EQ) \/ Visit(NE)

\* Bounds that are all positive, or all negative, would become the point 1 or -1,
\* although a comparison need not change: left out.
VisitLT(Of(_, _)) ==
    /\ Visited("int")
    /\ \E b \in Others : \E p \in {<<expr, b>>, <<b, expr>>} :
           /\ ~Positive(Order(p[1], p[2])) /\ ~Negative(Order(p[1], p[2]))
           /\ Becomes(Of(p[1], p[2]))

VisitCompare == VisitLT(LT) \/ VisitLT(LE)

\* Conditions that are joined: with one on x, and with one that is not.
Conditions == {LT(Constant(c), TheVariable) : c \in Numerals}
              \cup {LT(TheVariable, Constant(c)) : c \in Numerals}

VisitLogic ==
    /\ Visited("bool")
    /\ \/ Becomes(Not(expr))
       \/ \E c \in Conditions : Becomes(And(expr, c)) \/ Becomes(Or(expr, c))

VisitSelect ==
    \/ /\ Visited("bool")
       /\ \E a, b \in {TheVariable} \cup {Constant(c) : c \in Numerals} :
              \E bounds \in Bumps(a, b) : Becomes(Select(expr, a, b, bounds))
    \/ /\ Visited("int")
       /\ \E c \in Conditions, b \in {TheVariable} \cup {Constant(c) : c \in Numerals} :
              \/ \E bounds \in Bumps(expr, b) : Becomes(Select(c, expr, b, bounds))
              \/ \E bounds \in Bumps(b, expr) : Becomes(Select(c, b, expr, bounds))

VisitCast ==
    \/ Visited("bool") /\ Becomes(Widened(expr))
    \/ Visited("int") /\ (Becomes(Narrowed(expr)) \/ Becomes(Saturated(expr, -1, 1)))

VisitCall == Visited("int") /\ \E last \in {zero, everything} : Becomes(Called(expr, last))

VisitVectorReduce ==
    Visited("int") /\ (Becomes(ReduceAdd(expr)) \/ Becomes(ReduceMul(expr)))

Next ==
    \/ VisitAdd \/ VisitSub \/ VisitMul \/ VisitDiv \/ VisitMod \/ VisitMin \/ VisitMax
    \/ VisitEQ \/ VisitCompare \/ VisitLogic \/ VisitSelect \/ VisitCast \/ VisitCall
    \/ VisitVectorReduce

Spec == Init /\ [][Next]_vars
-----------------------------------------------------------------------------
(* Property *)

\* Whatever an expression is made of, the bounds that are computed node by node hold of
\* every step from an x to the next one: what is called increasing, decreasing or constant
\* is so, through quotients that round, comparisons, and conditions that change on the way.
DerivativeHolds == \A s \in Steps(expr.f) : contains(expr.d, s)
=============================================================================
