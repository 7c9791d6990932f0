-------------------------- MODULE MCBlockScheduler --------------------------
(***************************************************************************)
(* BlockScheduler for TLC.  Everything is scaled down and keeps its ratios: *)
(* a core has four subcores and a block is at most two subcores wide.       *)
(***************************************************************************)
EXTENDS BlockScheduler, TLC

Dims(x, y, z) == ("x" :> x) @@ ("y" :> y) @@ ("z" :> z)

Kernel(grid, width, registers) ==
    [nctaid |-> grid, warps_per_block |-> width, sr_cfg |-> registers]

\* From no block at all to more than the SoC holds, one that overflows included.
MCGrids == {Dims(0, 1, 1), Dims(2, 1, 1), Dims(2, 2, 3), Dims(1, 5, 2), Dims(3, 3, 4),
            Dims(8, 8, 1)}

\* Registers that name one axis, an axis and a warp, a warp only.
MCRegisters == {"y" :> n : n \in 0 .. 2} \cup {("x" :> 1) @@ ("warp" :> n) : n \in 0 .. 5}
               \cup {"warp" :> n : n \in {0, 3}}

MCKernels ==
    {Kernel(g, w, << >>) : g \in MCGrids, w \in 1 .. 6} \cup
    {Kernel(Dims(2, 2, 3), w, r) : w \in 1 .. 6, r \in MCRegisters}
=============================================================================
