--------------------------- MODULE BlockScheduler ---------------------------
(***************************************************************************)
(* BlockScheduler::SchedulerMode1 (Blockscheduler/block_scheduler.h): the   *)
(* blocks of a grid are placed on the subcores of the SoC, one Block after  *)
(* the other, and their warps are submitted to a thread pool.               *)
(*                                                                         *)
(* One action places one Block: the loops read nothing the pool writes.     *)
(* A Block is a local object of the loop, and the pool and the vector       *)
(* `blocks' keep a pointer to it: whether all its warps have run when it is *)
(* destroyed is up to the pool.  The use of a destroyed Block ends the      *)
(* model (`fault'): nothing can be said of the program after it.            *)
(***************************************************************************)
EXTENDS Integers, FiniteSets, FiniteSetsExt

CONSTANTS
    cluster_num, core_per_cluster, subcore_per_core, warp_per_subcore,   \* header.h
    cta_num,      \* header.h: blocks a cluster takes
    UintSize,     \* the number of values of a uint32_t
    Kernels       \* the parameters a kernel may come with: nctaid, warps_per_block
                  \* and sr_cfg, a function from some of x, y, z and warp

SocAssumption ==
    {cluster_num, core_per_cluster, subcore_per_core, warp_per_subcore, cta_num, UintSize}
        \subseteq Nat \ {0}
ASSUME SocAssumption

Axes == {"x", "y", "z"}

\* The fields of a KernelParam are unsigned, and a block has warps.
KernelsAssumption ==
    \A k \in Kernels :
        /\ k.nctaid \in [Axes -> Nat] /\ k.warps_per_block \in Nat \ {0}
        /\ \A r \in DOMAIN k.sr_cfg : k.sr_cfg[r] \in Nat
ASSUME KernelsAssumption

\* The subcores a block of this width needs.
SubcoresOf(width) == (width + warp_per_subcore - 1) \div warp_per_subcore

\* They divide the core: the array warps_work_end_ of a Block limits it to 32 warps, two
\* subcores of 16, and a core has four.
WidthsAssumption ==
    \A k \in Kernels : subcore_per_core % SubcoresOf(k.warps_per_block) = 0
ASSUME WidthsAssumption

VARIABLES
    is_block_scheduler_init_,   \* of the BlockScheduler; the rest belongs to a call
    param,       \* the KernelParam
    pc,          \* "start", "subcore", "next", "reuse" or "return"
    n_blocks,    \* blocks still to be placed
    ctaid,       \* the coordinates of the next one
    at,          \* the cluster, core and subcore of the loops
    blockIndex,  \* blocks placed on this subcore
    quota,       \* curCoreRunningBlock
    placed,      \* number of Blocks placed so far
    blocks,      \* whether the vector `blocks' holds a Block
    warps,       \* the calls of do_run submitted so far
    dangling,    \* whether a submitted warp outlives its Block
    result,      \* the value returned, -1 before
    fault        \* what ended the program, "none" while it runs

vars == <<is_block_scheduler_init_, param, pc, n_blocks, ctaid, at, blockIndex, quota,
          placed, blocks, warps, dangling, result, fault>>

Origin == [a \in Axes |-> 0]
Width == param.warps_per_block
Grid == {c \in [Axes -> 0 .. Max({param.nctaid[a] : a \in Axes})] :
            \A a \in Axes : c[a] < param.nctaid[a]}

\* `slot' is the entry of SubCore::warp its AJWarp is stored in; `id' is the argument of
\* do_run, which runs it under that number and on that entry of the same subcore.
Warp == [block : Nat, ctaid : [Axes -> Nat], id : Nat, cluster : Nat, core : Nat,
         subcore : Nat, slot : Nat]

\* Type invariant: every place and slot exists in the hardware, and the backdoor (line 87)
\* names an entry that does not only with blocks wider than a subcore.
TypeOK ==
    /\ is_block_scheduler_init_ \in BOOLEAN
    /\ param \in Kernels
    /\ pc \in {"start", "subcore", "next", "reuse", "return"}
    /\ n_blocks \in 0 .. UintSize - 1
    /\ at.cluster \in 0 .. cluster_num - 1 /\ at.core \in 0 .. core_per_cluster - 1
    /\ at.subcore \in 0 .. subcore_per_core
    /\ blockIndex \in 0 .. warp_per_subcore /\ quota \in 0 .. cta_num
    /\ \A w \in warps : /\ w \in Warp
                        /\ w.subcore < subcore_per_core /\ w.slot < warp_per_subcore
    /\ blocks \in BOOLEAN /\ dangling \in BOOLEAN
    /\ result \in {-1, 0, 1}
    /\ fault \in {"none", "warp_index", "dangling_block"}
    /\ fault = "warp_index" => Width > warp_per_subcore

\* The product is computed in 32 bits and widened afterwards.
GridSize(p) == (p.nctaid["x"] * p.nctaid["y"] * p.nctaid["z"]) % UintSize

FirstSubcore == [cluster |-> 0, core |-> 0, subcore |-> 0]

Init ==
    /\ is_block_scheduler_init_ = FALSE
    /\ param \in Kernels
    /\ pc = "start"
    /\ n_blocks = GridSize(param)
    /\ ctaid = Origin
    /\ at = FirstSubcore
    /\ blockIndex = 0 /\ quota = 0 /\ placed = 0
    /\ blocks = FALSE /\ dangling = FALSE
    /\ warps = {}
    /\ result = -1
    /\ fault = "none"

Running(p) == fault = "none" /\ pc = p
-----------------------------------------------------------------------------
(***************************************************************************)
(* The backdoor: one warp, named by the registers.                          *)
(***************************************************************************)
Backdoor(r) == IF r \in DOMAIN param.sr_cfg THEN param.sr_cfg[r] ELSE 0

\* GET_AND_VERIFY
OutOfGrid == \E a \in Axes : Backdoor(a) >= param.nctaid[a]

\* The registers name no warp of the grid: return 1.
BackdoorRefused ==
    /\ Running("start") /\ param.sr_cfg # << >>
    /\ OutOfGrid \/ Backdoor("warp") >= Width
    /\ pc' = "return" /\ result' = 1
    /\ UNCHANGED <<is_block_scheduler_init_, param, n_blocks, ctaid, at, blockIndex, quota,
                   placed, blocks, warps, dangling, fault>>

\* The warp runs on subcore 0, in this thread, and its Block outlives it; the result
\* is that of RunThreadBlock.  A block may have more warps than the subcore.
BackdoorRuns ==
    /\ Running("start") /\ param.sr_cfg # << >>
    /\ ~OutOfGrid /\ Backdoor("warp") < Width
    /\ IF Backdoor("warp") < warp_per_subcore
       THEN /\ warps' = {[block |-> 0, ctaid |-> [a \in Axes |-> Backdoor(a)],
                          id |-> Backdoor("warp"), cluster |-> 0, core |-> 0, subcore |-> 0,
                          slot |-> Backdoor("warp")]}
            /\ pc' = "return" /\ result' \in {0, 1}
            /\ UNCHANGED fault
       ELSE fault' = "warp_index" /\ UNCHANGED <<pc, warps, result>>
    /\ UNCHANGED <<is_block_scheduler_init_, param, n_blocks, ctaid, at, blockIndex, quota,
                   placed, blocks, dangling>>
-----------------------------------------------------------------------------
(***************************************************************************)
(* The placement: for each cluster, core and subcore, while blocks are left.*)
(***************************************************************************)
NothingToDo ==
    /\ Running("start") /\ param.sr_cfg = << >> /\ n_blocks = 0
    /\ pc' = "return" /\ result' = 0
    /\ UNCHANGED <<is_block_scheduler_init_, param, n_blocks, ctaid, at, blockIndex, quota,
                   placed, blocks, warps, dangling, fault>>

\* The blocks are placed in the first call that gets here, never again: a later one goes
\* to the loop over the running blocks, of which it has none.
Start ==
    /\ Running("start") /\ param.sr_cfg = << >> /\ n_blocks > 0
    /\ pc' = IF is_block_scheduler_init_ THEN "reuse" ELSE "subcore"
    /\ is_block_scheduler_init_' = TRUE
    /\ UNCHANGED <<param, n_blocks, ctaid, at, blockIndex, quota, placed, blocks, warps,
                   dangling, result, fault>>

\* Mutant: the last row never carries into z.
NoCarry(c) ==
    LET last == c["x"] + 1 = param.nctaid["x"] IN
    [c EXCEPT !["x"] = IF last THEN 0 ELSE @ + 1, !["y"] = IF last THEN @ + 1 ELSE @]

\* ctaid.x++ with its carries.
NextCtaid(c) ==
    LET y == IF c["x"] + 1 = param.nctaid["x"] THEN c["y"] + 1 ELSE c["y"] IN
    [c EXCEPT !["x"] = IF @ + 1 = param.nctaid["x"] THEN 0 ELSE @ + 1,
              !["y"] = IF y = param.nctaid["y"] THEN 0 ELSE y,
              !["z"] = IF y = param.nctaid["y"] THEN @ + 1 ELSE @]

\* What every Block does: its warps are submitted, the counters move on, and it goes out
\* of scope, with or without warps that still have to run.
Place(ws) ==
    /\ warps' = warps \cup ws
    /\ ctaid' = NextCtaid(ctaid)
    /\ quota' = quota + 1
    /\ n_blocks' = n_blocks - 1
    /\ placed' = placed + 1
    /\ \E late \in BOOLEAN : dangling' = (dangling \/ late)

WarpAt(subcore, slot, id) ==
    [block |-> placed, ctaid |-> ctaid, id |-> id, cluster |-> at.cluster, core |-> at.core,
     subcore |-> subcore, slot |-> slot]

\* Mutant: the blocks of a subcore all take its first slots.
FirstSlots == {WarpAt(at.subcore, i, i) : i \in 0 .. Width - 1}

NarrowWarps == {WarpAt(at.subcore, blockIndex * Width + i, i) : i \in 0 .. Width - 1}

\* Mutant: any free warp is enough.
SomeRoom == warp_per_subcore - blockIndex * Width > 0

HasRoom == warp_per_subcore - blockIndex * Width >= Width

\* A subcore takes blocks as long as they fit.
PlaceNarrow ==
    /\ Running("subcore")
    /\ warp_per_subcore >= Width /\ HasRoom /\ quota < cta_num
    /\ Place(NarrowWarps)
    /\ blocks' = TRUE
    /\ blockIndex' = blockIndex + 1
    /\ pc' = IF n_blocks' = 0 THEN "next" ELSE "subcore"
    /\ UNCHANGED <<is_block_scheduler_init_, param, at, result, fault>>

SubcoreFull ==
    /\ Running("subcore")
    /\ warp_per_subcore >= Width /\ ~(HasRoom /\ quota < cta_num)
    /\ pc' = "next"
    /\ UNCHANGED <<is_block_scheduler_init_, param, n_blocks, ctaid, at, blockIndex, quota,
                   placed, blocks, warps, dangling, result, fault>>

\* Mutant: the rest of the block is forgotten.
FullSubcoresOnly == {k \in 0 .. Width : (k + 1) * warp_per_subcore <= Width
                                        /\ at.subcore + k < subcore_per_core}

\* The further subcores of the core that a block wider than a subcore uses.
WideSubcores == {k \in 0 .. Width : k * warp_per_subcore < Width
                                    /\ at.subcore + k < subcore_per_core}

\* The warps of each subcore are numbered from 0 again.
WideWarps ==
    UNION {{WarpAt(at.subcore + k, i, i) :
               i \in 0 .. Min({warp_per_subcore, Width - k * warp_per_subcore}) - 1} :
           k \in WideSubcores}

\* Such a block is not put into `blocks', and leaves the loop variable at its last
\* subcore, or behind the core when it did not fit.
PlaceWide ==
    /\ Running("subcore")
    /\ warp_per_subcore < Width
    /\ Place(WideWarps)
    /\ LET fits == Width <= (subcore_per_core - at.subcore) * warp_per_subcore
       IN  at' = [at EXCEPT !.subcore = IF fits THEN Max({@ + k : k \in WideSubcores})
                                                ELSE subcore_per_core]
    /\ pc' = "next"
    /\ UNCHANGED <<is_block_scheduler_init_, param, blockIndex, blocks, result, fault>>

\* The increments of the three loops, the innermost that goes on first.
GoesOn == n_blocks > 0 /\ quota < cta_num
NextPlace ==
    IF GoesOn /\ at.subcore + 1 < subcore_per_core THEN [at EXCEPT !.subcore = @ + 1]
    ELSE IF GoesOn /\ at.core + 1 < core_per_cluster
         THEN [cluster |-> at.cluster, core |-> at.core + 1, subcore |-> 0]
    ELSE [cluster |-> at.cluster + 1, core |-> 0, subcore |-> 0]

\* Mutant: the count of a cluster goes on in the next one.
CarriedQuota == quota

NextQuota == IF NextPlace.cluster = at.cluster THEN quota ELSE 0

MoveOn ==
    /\ Running("next")
    /\ n_blocks > 0 /\ NextPlace.cluster < cluster_num
    /\ at' = NextPlace
    /\ quota' = NextQuota
    /\ blockIndex' = 0
    /\ pc' = "subcore"
    /\ UNCHANGED <<is_block_scheduler_init_, param, n_blocks, ctaid, placed, blocks, warps,
                   dangling, result, fault>>

\* Every block has its place: the destructor of the pool waits for the warps, and one
\* that outlives its Block writes to it.
PlacementReturns ==
    /\ Running("next")
    /\ n_blocks = 0 /\ ~dangling
    /\ pc' = "return" /\ result' = 0
    /\ UNCHANGED <<is_block_scheduler_init_, param, n_blocks, ctaid, at, blockIndex, quota,
                   placed, blocks, warps, dangling, fault>>

\* The SoC is full: the loop over the running blocks.
EnterReuse ==
    /\ Running("next")
    /\ n_blocks > 0 /\ NextPlace.cluster >= cluster_num
    /\ pc' = "reuse"
    /\ UNCHANGED <<is_block_scheduler_init_, param, n_blocks, ctaid, at, blockIndex, quota,
                   placed, blocks, warps, dangling, result, fault>>

\* allWarpsDone looks at a Block that does not exist any more, or a warp ends.
UseDeadBlock ==
    /\ fault = "none" /\ pc \in {"subcore", "next", "reuse"}
    /\ dangling \/ (pc = "reuse" /\ blocks)
    /\ fault' = "dangling_block"
    /\ UNCHANGED <<is_block_scheduler_init_, param, pc, n_blocks, ctaid, at, blockIndex,
                   quota, placed, blocks, warps, dangling, result>>

\* With wide blocks only, or in a later call, `blocks' is empty: the loop sleeps for ever.
ReuseSleeps == Running("reuse") /\ ~blocks /\ UNCHANGED vars

\* The next call, with any parameters.
CallAgain ==
    /\ Running("return")
    /\ param' \in Kernels
    /\ pc' = "start"
    /\ n_blocks' = GridSize(param')
    /\ ctaid' = Origin
    /\ at' = FirstSubcore
    /\ blockIndex' = 0 /\ quota' = 0 /\ placed' = 0
    /\ blocks' = FALSE /\ warps' = {}
    /\ result' = -1
    /\ UNCHANGED <<is_block_scheduler_init_, dangling, fault>>

Over == fault # "none" /\ UNCHANGED vars

Next ==
    \/ BackdoorRefused \/ BackdoorRuns
    \/ NothingToDo \/ Start \/ PlaceNarrow \/ SubcoreFull \/ PlaceWide \/ MoveOn
    \/ PlacementReturns \/ EnterReuse \/ ReuseSleeps
    \/ UseDeadBlock \/ CallAgain \/ Over

Spec == Init /\ [][Next]_vars
-----------------------------------------------------------------------------
(***************************************************************************)
(* What the placement keeps.                                                *)
(***************************************************************************)

\* No two AJWarps are stored in the same entry of a subcore (lines 128 and 168), whatever
\* the widths, the quota and the loop variable that the wide blocks move.
OneWarpPerSlot ==
    \A v, w \in warps : v # w =>
        <<v.cluster, v.core, v.subcore, v.slot>> # <<w.cluster, w.core, w.subcore, w.slot>>

\* The blocks placed have coordinates of the grid, each one a different one, and when
\* everything is placed the whole grid is; provided the product of its dimensions is a
\* uint32_t (line 28).
GridPlacedOnce ==
    LET fits == param.nctaid["x"] * param.nctaid["y"] * param.nctaid["z"] < UintSize IN
    /\ {w.ctaid : w \in warps} \subseteq Grid
    /\ fits /\ param.sr_cfg = << >> =>
         /\ Cardinality({w.ctaid : w \in warps}) = placed
         /\ placed + n_blocks = Cardinality(Grid)

\* A placed block has all its warps, although the loops of a wide block may run out of
\* subcores: its width divides the core as the constants of header.h have it.  A block that
\* one subcore holds runs each of its warps under a number of its own, although do_run uses
\* one number for the warp of the block and the entry of the subcore.
WarpsOf(b) == {w \in warps : w.block = b}
WholeBlocks ==
    \A b \in 0 .. placed - 1 :
        /\ Cardinality(WarpsOf(b)) = Width
        /\ Width <= warp_per_subcore => {w.id : w \in WarpsOf(b)} = 0 .. Width - 1

\* The SoC is filled before a block is reused: every cluster has its quota, or as many
\* blocks as its subcores hold.
BlocksPerCore ==
    IF Width <= warp_per_subcore THEN subcore_per_core * (warp_per_subcore \div Width)
    ELSE subcore_per_core \div SubcoresOf(Width)
FullBeforeReuse ==
    pc = "reuse" /\ placed > 0 =>
        placed = cluster_num * Min({cta_num, core_per_cluster * BlocksPerCore})
=============================================================================
