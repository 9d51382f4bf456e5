--------------------------- MODULE TileSelection ---------------------------
(* HardBoiled's selection of tile instructions (src/src/egglog/accelerator): one     *)
(* vectorised statement, a store of sums of products, is rewritten rule by rule into *)
(* matrix multiplications of the tensor core or of AMX.  A rule only adds a form to  *)
(* the e-graph, and the extractor may choose any of them; so every form that a       *)
(* sequence of rules reaches has to compute what the statement did.                  *)
(*                                                                                  *)
(* A vector of indices is its base and its nested ramps, innermost first, each a     *)
(* stride and a number of lanes; a broadcast is a ramp of stride 0.  A product is    *)
(* the address of the left factor and the element on the right.  The sum that is     *)
(* accumulated to (`mat`) is added lane by lane in every form, and left out.         *)
EXTENDS Integers, Sequences, FiniteSets

CONSTANT Statements           \* the statements given to the rules

VARIABLES
    statement,                \* as it was lowered
    terms,                    \* the terms of the sum it stores
    store                     \* how it stores them

vars == <<statement, terms, store>>

Vector(base, dims) == [base |-> base, dims |-> dims]

RECURSIVE Lane(_, _, _)
Lane(base, dims, i) ==
    IF dims = <<>> THEN base
    ELSE Lane(base + dims[1][1] * (i % dims[1][2]), Tail(dims), i \div dims[1][2])

Address(v, i) == Lane(v.base, v.dims, i)

RECURSIVE Lanes(_)
Lanes(dims) == IF dims = <<>> THEN 1 ELSE dims[1][2] * Lanes(Tail(dims))
-----------------------------------------------------------------------------
(* The buffers a factor is loaded from.  Elements of the program's own buffers are   *)
(* named by their addresses.                                                         *)

Zero    == -1
Outside == -2                 \* beyond the end of a buffer

Memory == [kind |-> "memory"]

ConvolutionShuffle(base, stride, l1, l2, steps, offset) ==
    [kind |-> "ConvolutionShuffle", base |-> base, stride |-> stride, l1 |-> l1, l2 |-> l2,
     steps |-> steps, offset |-> offset, repeat_stride |-> 0, repeat_count |-> 1]

ConvolutionShufflePlus(base, stride, l1, l2, steps, offset, repeat_stride, repeat_count) ==
    [ConvolutionShuffle(base, stride, l1, l2, steps, offset) EXCEPT
        !.kind = "ConvolutionShuffle+",
        !.repeat_stride = repeat_stride, !.repeat_count = repeat_count]

KWayInterleave(K, base, stride, length, lanes) ==
    [kind |-> "interleave", K |-> K, base |-> base, stride |-> stride,
     length |-> length, lanes |-> lanes]

\* Mutant: a column moves down by one, whatever the step.
FilterIndexByOne(b, j, column) == j + b.offset - column

\* Row j of a shuffled filter has the filter moved down by `steps` in every column.
FilterIndex(b, j, column) == j + b.offset - column * b.steps

\* Beyond the filter there are zeros.  A kernel of the GPU loads the nearest element and
\* selects by a mask, which for ConvolutionShuffle+ it computes and does not use.
SelectsByMask(b) == ~(statement.on_gpu /\ b.kind = "ConvolutionShuffle+")

Shuffled(b, i) ==
    LET k       == i % b.repeat_count
        column  == (i \div b.repeat_count) % b.l2
        j       == i \div (b.repeat_count * b.l2)
        idx_into_filter == FilterIndex(b, j, column)
        clamped == IF idx_into_filter < 0 THEN 0
                   ELSE IF idx_into_filter >= b.l1 THEN b.l1 - 1 ELSE idx_into_filter
    IN  CASE j \notin 0..(b.l1 \div b.steps + b.l2 - 1)       -> Outside
          [] clamped # idx_into_filter /\ SelectsByMask(b)   -> Zero
          [] OTHER -> b.base + b.stride * clamped + k * b.repeat_stride

\* Groups of K rows, the K elements of a column next to each other; the vector that is
\* interleaved has `lanes` rows of `length` elements, `stride` apart.
Interleaved(b, i) ==
    LET group == i \div (b.K * b.length)
        index == (b.K * group + (i % b.K)) * b.length + ((i \div b.K) % b.length)
    IN  IF i \notin 0..(b.lanes * b.length - 1) THEN Outside
        ELSE b.base + (index \div b.length) * b.stride + (index % b.length)

Element(b, i) ==
    CASE b.kind = "memory"     -> i
      [] b.kind = "interleave" -> Interleaved(b, i)
      [] OTHER                 -> Shuffled(b, i)
-----------------------------------------------------------------------------
(* The terms of the sum.  Each gives `outs` lanes, and each of them sums `depth`      *)
(* products.                                                                         *)

\* VectorReduce(outs, Add, Cast(Load lhs) * Cast(Load rhs))
Reduction(lhs, rhs, buffer, outs) ==
    [kind |-> "reduce", lhs |-> lhs, rhs |-> rhs, buffer |-> buffer,
     outs |-> outs, depth |-> Lanes(lhs.dims) \div outs]

\* wmma.mma of an m by k and a k by n tile; the second is in rows or columns.
WMMA(m, n, k, layout, lhs, x_stride, rhs, r_stride, buffer) ==
    [kind |-> "wmma", cols |-> n, layout |-> layout, buffer |-> buffer,
     lhs |-> lhs, x_stride |-> x_stride, rhs |-> rhs, r_stride |-> r_stride,
     outs |-> m * n, depth |-> k]

\* tile_matmul(rows, colbytes, acc) of two tile_loads; each load has a shape of its own.
tile_load(rows, colbytes, base, stride) ==
    [rows |-> rows, colbytes |-> colbytes, base |-> base, stride |-> stride]

AMX(rows, colbytes, acc, lhs, rhs, buffer) ==
    [kind |-> "amx", cols |-> colbytes \div 4, lhs |-> lhs, rhs |-> rhs, buffer |-> buffer,
     outs |-> rows * (colbytes \div 4), depth |-> acc]

Loaded(load, row, column) ==
    IF row < load.rows /\ column < load.colbytes
    THEN load.base + row * load.stride + column ELSE Outside

\* The k-th product that a term adds to lane o.
Product(t, o, k) ==
    CASE t.kind = "reduce" ->
           LET i == o * t.depth + k
           IN  <<Address(t.lhs, i), Element(t.buffer, Address(t.rhs, i))>>
      [] t.kind = "wmma" ->
           LET i == o \div t.cols
               j == o % t.cols
           IN  <<t.lhs + i * t.x_stride + k,
                 Element(t.buffer, IF t.layout = "RowMajor" THEN t.rhs + k * t.r_stride + j
                                   ELSE t.rhs + j * t.r_stride + k)>>
      [] t.kind = "amx" ->
           LET i == o \div t.cols
               j == o % t.cols
           IN  <<Loaded(t.lhs, i, k),
                 Element(t.buffer, Loaded(t.rhs, k \div 4, 4 * j + (k % 4)))>>

Adds(t, o) == {k \in 0..(t.depth - 1) : Product(t, o, k)[2] # Zero}
Products(t, o) == {Product(t, o, k) : k \in Adds(t, o)}
-----------------------------------------------------------------------------
Original(s) == Reduction(s.lhs, s.rhs, Memory, s.outs)

Init ==
    /\ statement \in Statements
    /\ terms = <<Original(statement)>>
    /\ store = [kind |-> "memory"]

\* Term n gives way to a sequence of terms.
Rewrite(n, ts) ==
    /\ terms' = SubSeq(terms, 1, n - 1) \o ts \o SubSeq(terms, n + 1, Len(terms))
    /\ UNCHANGED <<statement, store>>

Reductions(type) == {n \in DOMAIN terms : statement.type = type /\ terms[n].kind = "reduce"}

\* A sliding window over l3 rows of l2 elements: rows of l1 + l2 elements times a matrix
\* of l2 columns, each the filter moved down by one.
ConvolveRows ==
    \E n \in Reductions("f16") :
        LET lhs == terms[n].lhs
            rhs == terms[n].rhs
        IN  /\ Len(lhs.dims) = 3 /\ lhs.dims[1][1] = 1 /\ lhs.dims[2][1] = 1
            /\ LET l1 == lhs.dims[1][2]
                   l2 == lhs.dims[2][2]
                   l3 == lhs.dims[3][2]
                   s1b == rhs.dims[1][1]
                   new_l1 == l1 + l2
               IN  /\ rhs.dims = <<<<s1b, l1>>, <<0, l2>>, <<0, l3>>>>
                   /\ Rewrite(n, <<Reduction(
                        Vector(lhs.base, <<<<1, new_l1>>, <<0, l2>>, lhs.dims[3]>>),
                        Vector(0, <<<<l2, new_l1>>, <<1, l2>>, <<0, l3>>>>),
                        ConvolutionShuffle(rhs.base, s1b, l1, l2, 1, 0), terms[n].outs)>>)

\* A window over one line of l2 elements, `step` apart.
Line(n, step) ==
    LET lhs == terms[n].lhs
        rhs == terms[n].rhs
    IN  /\ Len(lhs.dims) = 2 /\ lhs.dims[1][1] = 1 /\ lhs.dims[2][1] = step
        /\ rhs.dims = <<<<rhs.dims[1][1], lhs.dims[1][2]>>, <<0, lhs.dims[2][2]>>>>

\* The line is cut into l2 / 8 rows and l2 / 32 columns.
ConvolveLine ==
    \E n \in Reductions("f16") :
        /\ Line(n, 1)
        /\ LET lhs == terms[n].lhs
               rhs == terms[n].rhs
               l1 == lhs.dims[1][2]
               new_l2 == lhs.dims[2][2] \div 32
               new_l3 == lhs.dims[2][2] \div 8
               new_l1 == l1 + new_l2
           IN  /\ lhs.dims[2][2] % 32 = 0
               /\ Rewrite(n, <<Reduction(
                    Vector(lhs.base, <<<<1, new_l1>>, <<0, new_l2>>, <<new_l2, new_l3>>>>),
                    Vector(0, <<<<new_l2, new_l1>>, <<1, new_l2>>, <<0, new_l3>>>>),
                    ConvolutionShuffle(rhs.base, rhs.dims[1][1], l1, new_l2, 1, 0),
                    terms[n].outs)>>)

\* A filter of 16 taps at every second element: the 30 elements that 8 outputs read are
\* those of two tiles, one 16 further on.
Downsample ==
    \E n \in Reductions("f16") :
        /\ Line(n, 2)
        /\ LET lhs == terms[n].lhs
               rhs == terms[n].rhs
               Half(offset) == Reduction(
                   Vector(lhs.base + offset, <<<<1, 16>>, <<0, 8>>, <<16, 32>>>>),
                   Vector(0, <<<<8, 16>>, <<1, 8>>, <<0, 32>>>>),
                   ConvolutionShuffle(rhs.base, rhs.dims[1][1], 16, 8, 2, offset),
                   terms[n].outs)
           IN  /\ lhs.dims[1][2] = 16 /\ lhs.dims[2][2] = 256
               /\ Rewrite(n, <<Half(0), Half(16)>>)

\* x filters at y places: r places become columns of their own, r times as many.
ConvolveFilters ==
    \E n \in Reductions("f16") :
        LET lhs == terms[n].lhs
            rhs == terms[n].rhs
        IN  /\ Len(lhs.dims) = 3
            /\ LET r == lhs.dims[1][2]
                   x == lhs.dims[2][2]
                   y == lhs.dims[3][2]
                   x_stride == rhs.dims[2][1]
                   new_r == 2 * r
                   new_y == y \div r
                   new_x == x * r
               IN  /\ lhs.dims = <<<<1, r>>, <<0, x>>, <<1, y>>>>
                   /\ rhs.dims = <<<<1, r>>, <<x_stride, x>>, <<0, y>>>>
                   /\ terms[n].outs = x * y
                   /\ Rewrite(n, <<Reduction(
                        Vector(lhs.base, <<<<1, new_r>>, <<0, new_x>>, <<r, new_y>>>>),
                        Vector(0, <<<<new_x, new_r>>, <<1, new_x>>, <<0, new_y>>>>),
                        ConvolutionShufflePlus(rhs.base, 1, r, r, 1, 0, x_stride, x),
                        terms[n].outs)>>)

-----------------------------------------------------------------------------
\* Rows of r elements on the left, each used for all y columns.
LhsTile(t, x, y, r) ==
    /\ Len(t.lhs.dims) = 3
    /\ t.lhs.dims = <<<<1, r>>, <<0, y>>, <<t.lhs.dims[3][1], x>>>>
    /\ t.outs = x * y

\* And rows, or columns, of y elements on the right.
RhsTile(t, x, y, r, layout, r_stride) ==
    t.rhs.dims = IF layout = "RowMajor" THEN <<<<r_stride, r>>, <<1, y>>, <<0, x>>>>
                 ELSE <<<<1, r>>, <<r_stride, y>>, <<0, x>>>>

WMMATiles ==
    {<<16, 16, 16, "RowMajor">>, <<16, 16, 16, "ColMajor">>, <<32, 8, 16, "RowMajor">>,
     <<8, 32, 16, "RowMajor">>}

SelectWMMA ==
    \E n \in Reductions("f16"), tile \in WMMATiles :
        LET t == terms[n]
            x == tile[1]
            y == tile[2]
            r == tile[3]
            layout == tile[4]
            r_stride == t.rhs.dims[IF layout = "RowMajor" THEN 1 ELSE 2][1]
        IN  /\ LhsTile(t, x, y, r)
            /\ RhsTile(t, x, y, r, layout, r_stride)
            /\ Rewrite(n, <<WMMA(x, y, r, layout, t.lhs.base, t.lhs.dims[3][1],
                                 t.rhs.base, r_stride, t.buffer)>>)

LhsLoad(t, x, r) == tile_load(x, r, t.lhs.base, t.lhs.dims[3][1])

\* tile_matmul of 8-bit elements with the load of its right side.
SelectAMX(n, x, y, r, rhs, buffer) ==
    /\ LhsTile(terms[n], x, y, r)
    /\ Rewrite(n, <<AMX(x, 4 * y, r, LhsLoad(terms[n], x, r), rhs, buffer)>>)

\* The right side is in groups of four rows already ...
SelectGrouped ==
    \E n \in Reductions("i8") :
        LET rhs == terms[n].rhs IN
        /\ Len(rhs.dims) = 4
        /\ LET r == 4 * rhs.dims[2][2]
               y == rhs.dims[3][2]
               x == rhs.dims[4][2]
               r_stride == rhs.dims[2][1]
           IN  /\ rhs.dims = <<<<1, 4>>, <<r_stride, r \div 4>>, <<4, y>>, <<0, x>>>>
               /\ SelectAMX(n, x, y, r, tile_load(r \div 4, 4 * y, rhs.base, r_stride), Memory)

\* ... or is interleaved first.
SelectInterleaved ==
    \E n \in Reductions("i8") :
        LET rhs == terms[n].rhs IN
        /\ Len(rhs.dims) = 3
        /\ LET r == rhs.dims[1][2]
               y == rhs.dims[2][2]
               x == rhs.dims[3][2]
               r_stride == rhs.dims[1][1]
           IN  /\ rhs.dims = <<<<r_stride, r>>, <<1, y>>, <<0, x>>>>
               /\ SelectAMX(n, x, y, r, tile_load(r \div 4, 4 * y, 0, 4 * y),
                            KWayInterleave(4, rhs.base, r_stride, y, r))

\* The shapes of the tensor core's stores: rows and columns.
WMMATileD == {<<16, 16>>, <<32, 8>>, <<8, 32>>}

StoreTile(rows, cols, stride) ==
    /\ store.kind = "memory"
    /\ \A n \in DOMAIN terms : terms[n].kind # "reduce"
    /\ store' = [kind |-> "tile", rows |-> rows, cols |-> cols,
                 base |-> statement.index.base, stride |-> stride]
    /\ UNCHANGED <<statement, terms>>

\* The index gives the tile's shape.  For the tensor core any accumulator of the program
\* may have that shape, and the program is taken to have them all; AMX asks for none.
SelectStore ==
    LET dims == statement.index.dims
        rows == dims[2][2]
        cols == dims[1][2]
    IN  /\ Len(dims) = 2 /\ dims[1][1] = 1
        /\ statement.type = "f16" => <<rows, cols>> \in WMMATileD
        /\ StoreTile(rows, cols, dims[2][1])

\* The tensor core also stores a tile of the expression's own shape to consecutive elements.
SelectLineStore ==
    LET dims == statement.index.dims
        rows == terms[1].outs \div terms[1].cols
        cols == terms[1].cols
    IN  /\ terms[1].kind = "wmma" /\ <<rows, cols>> \in WMMATileD
        /\ Len(dims) = 1 /\ dims[1][1] = 1
        /\ StoreTile(rows, cols, cols)

Next ==
    \/ ConvolveRows \/ ConvolveLine \/ Downsample \/ ConvolveFilters
    \/ SelectWMMA \/ SelectGrouped \/ SelectInterleaved
    \/ SelectStore \/ SelectLineStore

Spec == Init /\ [][Next]_vars
-----------------------------------------------------------------------------
(* Property *)

RECURSIVE Added(_, _)
Added(ts, o) == IF ts = <<>> THEN 0 ELSE Cardinality(Adds(ts[1], o)) + Added(Tail(ts), o)

\* Where lane o is stored: it is an element of the tile that was computed, and the tile
\* that is stored may have another shape.
StoreAddress(o) ==
    LET i == o \div terms[1].cols
        j == o % terms[1].cols
    IN  CASE store.kind = "memory"                 -> Address(statement.index, o)
          [] i < store.rows /\ j < store.cols       -> store.base + i * store.stride + j
          [] OTHER                                 -> Outside

\* Whatever rules a statement went through, every element it stores is the sum of exactly
\* the products the statement added up there, each once: no tap of a filter is lost,
\* counted twice, or added to a neighbour, and nothing is read past a shuffled buffer.
SameSums ==
    LET original == Original(statement)
    IN  \A o \in 0..(statement.outs - 1) :
            /\ StoreAddress(o) = Address(statement.index, o)
            /\ UNION {Products(terms[n], o) : n \in DOMAIN terms} = Products(original, o)
            /\ Added(terms, o) = original.depth
=============================================================================
