--------------------------- MODULE TileRegisters ---------------------------
(* EnforceWMMALanes (src/src/ExtractTileOperations.cpp): an accumulator of several    *)
(* tiles becomes registers of the 32 threads of a warp, and the memory address of a   *)
(* tile its number among them.  Tiles are numbered from the form of the index: two    *)
(* nested ramps where the accumulator keeps rows of the whole matrix, one ramp where  *)
(* each tile is contiguous.                                                          *)
EXTENDS Integers

CONSTANT Allocations          \* [down, across, rows, cols, bits, nested]

VARIABLES
    allocation,               \* the accumulator: tiles down and across, the shape of a tile
    stored,                   \* the tiles that were stored
    registers                 \* pairs of a register and the tile that is in it

vars == <<allocation, stored, registers>>

Tiles(a) == (0..(a.down - 1)) \X (0..(a.across - 1))

\* Where the program keeps tile <<i, j>> of the accumulator.
Base(a, tile) ==
    IF a.nested THEN tile[1] * a.rows * (a.across * a.cols) + tile[2] * a.cols
    ELSE (tile[1] * a.across + tile[2]) * (a.rows * a.cols)

get_nth_tile_from_tile_index_wmma(a, tile) ==
    IF a.nested
    THEN LET base == Base(a, tile) \div a.cols
             f    == (a.across * a.cols) \div a.cols
         IN  (base % f) + f * (base \div (f * a.rows))
    ELSE Base(a, tile) \div (a.rows * a.cols)

\* What visit(Allocate) leaves to each thread; two elements of 16 bits share a register.
AllocatedLanes(a) ==
    LET lanes == (a.down * a.across * a.rows * a.cols) \div 32
    IN  IF a.bits = 16 THEN lanes \div 2 ELSE lanes

\* The registers of a tile, as visit(Load) and visit(Store) index them.
Registers(a, tile) ==
    LET tile_lanes    == ((a.rows * a.cols) \div 32) \div (IF a.bits = 32 THEN 1 ELSE 2)
        tile_multiple == IF a.bits = 32 THEN 8 ELSE 4
        first == get_nth_tile_from_tile_index_wmma(a, tile) * tile_multiple
    IN  first..(first + tile_lanes - 1)

Init ==
    /\ allocation \in Allocations
    /\ stored = {} /\ registers = {}

\* A store takes over the registers it writes.
Store(tile) ==
    /\ UNCHANGED allocation
    /\ stored' = stored \cup {tile}
    /\ registers' = {p \in registers : p[1] \notin Registers(allocation, tile)}
                        \cup (Registers(allocation, tile) \X {tile})

Next == \E tile \in Tiles(allocation) : Store(tile)

Spec == Init /\ [][Next]_vars
-----------------------------------------------------------------------------
(* Property *)

\* A tile that was stored is loaded again whole whatever other tiles were stored since,
\* and no tile reaches beyond the registers that the accumulator was given.
TilesApart ==
    \A tile \in stored :
        /\ Registers(allocation, tile) \X {tile} \subseteq registers
        /\ Registers(allocation, tile) \subseteq 0..(AllocatedLanes(allocation) - 1)
=============================================================================
