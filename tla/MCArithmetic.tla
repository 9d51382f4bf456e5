---------------------------- MODULE MCArithmetic ----------------------------
(* The compiler's integer arithmetic and its selection of tile instructions for TLC: *)
(* one of six computations is followed, and the others stay where they start.       *)
(*                                                                                  *)
(* For what it deduces, int64_t has four bits and int32_t three, so that every      *)
(* overflow, wrap-around and shift of the wide types happens; the narrow types have *)
(* two bits, whose widened forms are the 64-bit ones.  The tables of multipliers    *)
(* are those of 8-bit numerators, whole.  The statements have the tiles of the      *)
(* hardware, and smaller windows whose sizes are no powers of two.                  *)
EXTENDS ExprInfo

VARIABLES
    part,                     \* what is computed
    derivative, nodes,
    row, try, search,
    op, q, r, shift,
    statement, terms, store,
    allocation, stored, registers

deduced == <<expr, leaf, visits>>
derived == <<derivative, nodes>>
table   == <<row, try, search>>
long    == <<op, q, r, shift>>
tiles   == <<statement, terms, store>>
regs    == <<allocation, stored, registers>>
arithmetic == <<deduced, derived, table, long>>
allVars == <<part, arithmetic, tiles, regs>>

AllTypes == {int(b) : b \in 2..4} \cup {uint(b) : b \in 2..4}
Numbers == {-8, -1, 0, 3}
Few == {-1, 3}
Classes == {ModulusRemainder(1, 0), ModulusRemainder(4, 2)}
AllPlaces == Places

Derivative == INSTANCE Monotonic WITH
    expr <- derivative, Last <- 2, Numerals <- {-1, 0, 2}, MaxNodes <- 2

Table == INSTANCE IntegerDivision WITH state <- search, Width <- 8, Divisors <- 0..255

Long == INSTANCE LongDivision WITH Width <- 4

\* Dense rows of 256 elements on the left, from address 4096 on.
Sum(type, lhs, rhs, outs, index) ==
    [type |-> type, lhs |-> [base |-> 4096, dims |-> lhs],
     rhs |-> [base |-> 64, dims |-> rhs], outs |-> outs, index |-> [base |-> 512, dims |-> index],
     on_gpu |-> FALSE]

InRows(x, y) == <<<<1, y>>, <<256, x>>>>
InLine(n) == <<<<1, n>>>>

Lhs(t) == <<<<1, t[3]>>, <<0, t[2]>>, <<256, t[1]>>>>
InRowsOf(t, s) == <<<<s, t[3]>>, <<1, t[2]>>, <<0, t[1]>>>>
InColumnsOf(t, s) == <<<<1, t[3]>>, <<s, t[2]>>, <<0, t[1]>>>>
InGroupsOf(t, s) == <<<<1, 4>>, <<s, t[3] \div 4>>, <<4, t[2]>>, <<0, t[1]>>>>

MatMuls ==
    {Sum("f16", Lhs(t), InRowsOf(t, 40), 256, InRows(t[1], t[2])) :
        t \in {<<16, 16, 16>>, <<32, 8, 16>>, <<8, 32, 16>>}}
    \cup {Sum("f16", Lhs(<<16, 16, 16>>), InColumnsOf(<<16, 16, 16>>, s), 256, InLine(256)) :
        s \in {1, 40}}
    \cup UNION {{Sum("i8", Lhs(t), rhs, t[1] * t[2], InRows(t[1], t[2])) :
                    rhs \in {InRowsOf(t, 20), InGroupsOf(t, 80)}} :
        t \in {<<2, 3, 8>>, <<16, 16, 32>>}}

Windows ==
    {Sum("f16", <<<<1, w[1]>>, <<1, w[2]>>, <<256, w[3]>>>>,
         <<<<s, w[1]>>, <<0, w[2]>>, <<0, w[3]>>>>, w[2] * w[3], InRows(w[3], w[2])) :
        w \in {<<8, 8, 32>>, <<2, 3, 2>>, <<5, 2, 3>>, <<3, 5, 2>>}, s \in {1, 3}}
    \cup {Sum("f16", <<<<1, w[1]>>, <<w[2], 256>>>>, <<<<s, w[1]>>, <<0, 256>>>>, 256, InLine(256)) :
        w \in {<<8, 1>>, <<5, 1>>, <<16, 2>>}, s \in {1, 3}}

\* A shuffled buffer is defined where its variables are, which may be in a kernel.
Shuffles == {[w EXCEPT !.on_gpu = (w.rhs.dims[1][1] = 3)] : w \in Windows}

FilterBanks ==
    {Sum("f16", <<<<1, w[1]>>, <<0, w[2]>>, <<1, w[3]>>>>,
         <<<<1, w[1]>>, <<s, w[2]>>, <<0, w[3]>>>>, w[2] * w[3], InLine(w[2] * w[3])) :
        w \in {<<8, 2, 128>>, <<8, 4, 64>>, <<2, 3, 4>>, <<3, 2, 6>>}, s \in {9, 40}}

Tiles == INSTANCE TileSelection WITH Statements <- MatMuls \cup Shuffles \cup FilterBanks

Accumulators ==
    {[down |-> d, across |-> a, rows |-> t[1], cols |-> t[2], bits |-> b, nested |-> n] :
        d \in 1..2, a \in 1..3, t \in {<<16, 16>>, <<32, 8>>, <<8, 32>>},
        b \in {16, 32}, n \in BOOLEAN}

Regs == INSTANCE TileRegisters WITH Allocations <- Accumulators

ArithmeticInit ==
    /\ part \in {"info", "derivative", "table", "long", "tiles", "registers"}
    /\ IF part = "info" THEN Init ELSE expr = Unknown(int(2)) /\ leaf = TRUE /\ visits = 0
    /\ IF part = "derivative" THEN Derivative!Init
       ELSE derivative = Derivative!TheVariable /\ nodes = 0
    /\ IF part = "table" THEN Table!Init
       ELSE /\ row = [table |-> "compile", kind |-> "floor", divisor |-> 3]
            /\ try = 1 /\ search = "searching"
    /\ IF part = "long" THEN Long!Init
       ELSE /\ op = [signed |-> FALSE, mod |-> FALSE, a |-> 0, b |-> 1]
            /\ q = 0 /\ r = 0 /\ shift = 3
    /\ IF part = "tiles" THEN Tiles!Init ELSE statement = <<>> /\ terms = <<>> /\ store = <<>>
    /\ IF part = "registers" THEN Regs!Init
       ELSE allocation = <<>> /\ stored = {} /\ registers = {}

Turn(name) == part = name /\ UNCHANGED part

Deduces  == Turn("info") /\ Next /\ UNCHANGED <<derived, table, long, tiles, regs>>
Derives  == Turn("derivative") /\ Derivative!Next /\ UNCHANGED <<deduced, table, long, tiles, regs>>
Searches == Turn("table") /\ Table!Next /\ UNCHANGED <<deduced, derived, long, tiles, regs>>
Divides  == Turn("long") /\ Long!Next /\ UNCHANGED <<deduced, derived, table, tiles, regs>>
Selects  == Turn("tiles") /\ Tiles!Next /\ UNCHANGED <<arithmetic, regs>>
Numbering == Turn("registers") /\ Regs!Next /\ UNCHANGED <<arithmetic, tiles>>

ArithmeticNext == Deduces \/ Derives \/ Searches \/ Divides \/ Selects \/ Numbering

ArithmeticSpec == ArithmeticInit /\ [][ArithmeticNext]_allVars
-----------------------------------------------------------------------------
(* The properties of the parts, each where that part is followed *)

\* What the simplifier and the bounds analysis deduce of a value holds of it, through any
\* sequence of nodes, casts, let bindings and facts that are learned of conditions.
DeductionsHold == part = "info" => InfoHolds /\ ConstantBoundsHold

\* What is called increasing, decreasing or constant in a variable is so.
DerivativeHolds == part = "derivative" => Derivative!DerivativeHolds

\* Every division that the compiler emits, by a table or bit by bit, is Halide's.
DivisionExact ==
    /\ part = "table" => Table!DividesExactly
    /\ part = "long"  => Long!LongDivisionExact

\* A statement that tile instructions were selected for stores what it stored before, and
\* the tiles of an accumulator are kept apart in the registers they are numbered into.
TilesExact ==
    /\ part = "tiles" => Tiles!SameSums
    /\ part = "registers" => Regs!TilesApart
=============================================================================
