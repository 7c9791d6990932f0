------------------------ MODULE BlockSchedulerProofs ------------------------
(***************************************************************************)
(* Proofs about BlockScheduler, for a SoC of any size and any kernels: the  *)
(* constants of header.h are one case, which the model checker sees scaled. *)
(***************************************************************************)
EXTENDS BlockScheduler, FiniteSetTheorems, TLAPS

\* The warp is on a place the loops have left, or in a slot this subcore has given away.
Passed(w) ==
    \/ w.cluster < at.cluster
    \/ w.cluster = at.cluster /\ w.core < at.core
    \/ w.cluster = at.cluster /\ w.core = at.core /\ w.subcore < at.subcore
    \/ /\ w.cluster = at.cluster /\ w.core = at.core /\ w.subcore = at.subcore
       /\ pc = "subcore" => w.slot < blockIndex * Width

PlaceType == [cluster : 0 .. cluster_num - 1, core : 0 .. core_per_cluster - 1,
              subcore : 0 .. subcore_per_core]

LoopInv ==
    /\ at \in PlaceType /\ ctaid \in [Axes -> Nat] /\ placed \in Nat
    /\ pc = "start" => warps = {} /\ at = FirstSubcore /\ blockIndex = 0 /\ quota = 0
    /\ pc = "subcore" => /\ n_blocks > 0 /\ at.subcore < subcore_per_core
                         /\ Width > warp_per_subcore => quota < cta_num /\ blockIndex = 0
                         /\ blockIndex * Width <= warp_per_subcore
    /\ pc \in {"subcore", "next"} => \A w \in warps : Passed(w)

IInv == TypeOK /\ LoopInv /\ OneWarpPerSlot
-----------------------------------------------------------------------------
(* Constants. *)

LEMMA Soc ==
  /\ cluster_num \in Nat \ {0} /\ core_per_cluster \in Nat \ {0}
  /\ subcore_per_core \in Nat \ {0} /\ warp_per_subcore \in Nat \ {0}
  /\ cta_num \in Nat \ {0} /\ UintSize \in Nat \ {0}
  BY SocAssumption DEF SocAssumption

LEMMA KernelTyped ==
  ASSUME NEW k \in Kernels
  PROVE  /\ k.nctaid \in [Axes -> Nat] /\ k.warps_per_block \in Nat \ {0}
         /\ \A r \in DOMAIN k.sr_cfg : k.sr_cfg[r] \in Nat
         /\ GridSize(k) \in 0 .. UintSize - 1
<1>1. /\ k.nctaid \in [Axes -> Nat] /\ k.warps_per_block \in Nat \ {0}
      /\ \A r \in DOMAIN k.sr_cfg : k.sr_cfg[r] \in Nat
  BY KernelsAssumption DEF KernelsAssumption
<1>2. k.nctaid["x"] \in Nat /\ k.nctaid["y"] \in Nat /\ k.nctaid["z"] \in Nat
  BY <1>1 DEF Axes
<1>3. k.nctaid["x"] * k.nctaid["y"] * k.nctaid["z"] \in Nat
  BY <1>2
<1>4. \A a \in Nat : a % UintSize \in 0 .. UintSize - 1
  BY Soc
<1> QED  BY <1>1, <1>3, <1>4 DEF GridSize

LEMMA FirstTyped == FirstSubcore \in PlaceType /\ Origin \in [Axes -> Nat]
                    /\ FirstSubcore.subcore = 0
  BY Soc DEF FirstSubcore, PlaceType, Origin

\* The loop variables, the innermost changed.
LEMMA PlaceSet ==
  ASSUME NEW a \in PlaceType, NEW s \in 0 .. subcore_per_core
  PROVE  /\ a.cluster \in 0 .. cluster_num - 1 /\ a.core \in 0 .. core_per_cluster - 1
         /\ a.subcore \in 0 .. subcore_per_core
         /\ [a EXCEPT !.subcore = s] = [cluster |-> a.cluster, core |-> a.core, subcore |-> s]
         /\ [cluster |-> a.cluster, core |-> a.core, subcore |-> s] \in PlaceType
<1>1. PICK x \in 0 .. cluster_num - 1, y \in 0 .. core_per_cluster - 1,
           z \in 0 .. subcore_per_core : a = [cluster |-> x, core |-> y, subcore |-> z]
  BY DEF PlaceType
<1>2. a.cluster = x /\ a.core = y /\ a.subcore = z
  BY <1>1
<1>3. [a EXCEPT !.subcore = s] = [cluster |-> x, core |-> y, subcore |-> s]
  BY <1>1
<1> QED  BY <1>2, <1>3 DEF PlaceType

LEMMA InitInv == Init => IInv
<1> SUFFICES ASSUME Init PROVE IInv
  OBVIOUS
<1>1. n_blocks \in 0 .. UintSize - 1
  BY KernelTyped DEF Init
<1>a. at.cluster = 0 /\ at.core = 0 /\ at.subcore = 0
  BY DEF Init, FirstSubcore
<1>b. /\ fault \in {"none", "warp_index", "dangling_block"} /\ fault # "warp_index"
      /\ pc \in {"start", "subcore", "next", "reuse", "return"} /\ result \in {-1, 0, 1}
      /\ blocks \in BOOLEAN /\ dangling \in BOOLEAN /\ is_block_scheduler_init_ \in BOOLEAN
      /\ warps = {} /\ param \in Kernels
  BY DEF Init
<1>c. /\ blockIndex \in 0 .. warp_per_subcore /\ quota \in 0 .. cta_num
      /\ at.cluster \in 0 .. cluster_num - 1 /\ at.core \in 0 .. core_per_cluster - 1
      /\ at.subcore \in 0 .. subcore_per_core
  BY <1>a, Soc DEF Init
<1>2. TypeOK
  BY <1>1, <1>b, <1>c, Zenon DEF TypeOK
<1>3. LoopInv
  BY FirstTyped DEF Init, LoopInv
<1>4. OneWarpPerSlot
  BY DEF Init, OneWarpPerSlot
<1> QED  BY <1>2, <1>3, <1>4 DEF IInv
-----------------------------------------------------------------------------
(* The steps. *)

\* A step into a state that has nothing to do with the placement.
LEMMA QuietStep ==
  ASSUME IInv,
         UNCHANGED <<param, n_blocks, ctaid, at, blockIndex, quota, placed, blocks, warps, dangling>>,
         is_block_scheduler_init_' \in BOOLEAN, result' \in {-1, 0, 1},
         fault' \in {fault, "dangling_block"},
         \/ pc' \in {"next", "reuse", "return"} /\ pc \in {"start", "subcore", "next"}
         \/ pc' = pc
         \/ pc' = "subcore" /\ pc = "start" /\ n_blocks > 0
  PROVE  IInv'
<1>1. TypeOK'
  BY DEF IInv, TypeOK, Width, Warp, Axes
<1>2. OneWarpPerSlot'
  BY DEF IInv, OneWarpPerSlot
<1>3. LoopInv'
  <2>1. at' \in PlaceType /\ ctaid' \in [Axes -> Nat] /\ placed' \in Nat
    BY DEF IInv, LoopInv
  <2>2. CASE pc' = pc
    BY <2>1, <2>2 DEF IInv, LoopInv, Passed, Width
  <2>3. CASE pc' = "subcore" /\ pc = "start" /\ n_blocks > 0
    <3>1. /\ warps' = {} /\ at' = FirstSubcore /\ blockIndex' = 0 /\ quota' = 0
      BY <2>3 DEF IInv, LoopInv
    <3>2. blockIndex' * Width' = 0
      BY <3>1, KernelTyped DEF IInv, TypeOK, Width
    <3> QED  BY <2>1, <2>3, <3>1, <3>2, FirstTyped, Soc DEF LoopInv
  <2>4. CASE pc' \in {"next", "reuse", "return"} /\ pc \in {"start", "subcore", "next"}
    BY <2>1, <2>4 DEF IInv, LoopInv, Passed
  <2> QED  BY <2>2, <2>3, <2>4
<1> QED  BY <1>1, <1>2, <1>3 DEF IInv

LEMMA BackdoorRunsInv == ASSUME IInv, BackdoorRuns PROVE IInv'
<1> USE DEF BackdoorRuns, Running
<1>1. CASE Backdoor("warp") < warp_per_subcore
  <2>1. param \in Kernels
    BY DEF IInv, TypeOK
  <2>2. \A r : Backdoor(r) \in Nat
    BY <2>1, KernelTyped DEF Backdoor
  <2>3. \A w \in warps' :
           /\ w \in Warp /\ w.subcore < subcore_per_core /\ w.slot < warp_per_subcore
    BY <1>1, <2>2, Soc DEF Warp, Axes
  <2>4. TypeOK'
    BY <1>1, <2>3 DEF IInv, TypeOK, Width
  <2>5. LoopInv'
    BY <1>1 DEF IInv, LoopInv
  <2>6. OneWarpPerSlot'
    BY <1>1 DEF OneWarpPerSlot
  <2> QED  BY <2>4, <2>5, <2>6 DEF IInv
<1>2. CASE ~(Backdoor("warp") < warp_per_subcore)
  <2>1. param \in Kernels
    BY DEF IInv, TypeOK
  <2>2. Backdoor("warp") \in Nat /\ Width \in Nat
    BY <2>1, KernelTyped DEF Backdoor, Width
  <2>3. Width > warp_per_subcore
    BY <1>2, <2>2, Soc
  <2>4. TypeOK'
    BY <1>2, <2>3 DEF IInv, TypeOK, Width, Warp, Axes
  <2>5. LoopInv'
    BY <1>2 DEF IInv, LoopInv
  <2>6. OneWarpPerSlot'
    BY <1>2 DEF IInv, OneWarpPerSlot
  <2> QED  BY <2>4, <2>5, <2>6 DEF IInv
<1> QED  BY <1>1, <1>2

LEMMA CallAgainInv == ASSUME IInv, CallAgain PROVE IInv'
<1> USE DEF CallAgain, Running
<1>1. n_blocks' \in 0 .. UintSize - 1
  BY KernelTyped
<1>a. at'.cluster = 0 /\ at'.core = 0 /\ at'.subcore = 0
  BY DEF FirstSubcore
<1>b. /\ fault' \in {"none", "warp_index", "dangling_block"} /\ fault' # "warp_index"
      /\ pc' \in {"start", "subcore", "next", "reuse", "return"} /\ result' \in {-1, 0, 1}
      /\ blocks' \in BOOLEAN /\ dangling' \in BOOLEAN /\ is_block_scheduler_init_' \in BOOLEAN
      /\ warps' = {} /\ param' \in Kernels
  BY DEF IInv, TypeOK
<1>c. /\ blockIndex' \in 0 .. warp_per_subcore /\ quota' \in 0 .. cta_num
      /\ at'.cluster \in 0 .. cluster_num - 1 /\ at'.core \in 0 .. core_per_cluster - 1
      /\ at'.subcore \in 0 .. subcore_per_core
  BY <1>a, Soc
<1>2. TypeOK'
  BY <1>1, <1>b, <1>c, Zenon DEF TypeOK
<1>3. LoopInv'
  BY FirstTyped DEF LoopInv
<1>4. OneWarpPerSlot'
  BY DEF OneWarpPerSlot
<1> QED  BY <1>2, <1>3, <1>4 DEF IInv

\* The next block has coordinates as this one.
LEMMA NextCtaidTyped == ASSUME IInv PROVE NextCtaid(ctaid) \in [Axes -> Nat]
  BY DEF IInv, LoopInv, NextCtaid, Axes

\* Warps added where none has passed, and on no entry twice, keep the entries apart.
LEMMA AddedApart ==
  ASSUME IInv, pc = "subcore", NEW STATE ws, warps' = warps \cup ws,
         \A w \in ws : /\ w.cluster = at.cluster /\ w.core = at.core /\ w.subcore \in Nat
                       /\ w.slot \in Nat /\ w.subcore >= at.subcore
                       /\ w.subcore = at.subcore => w.slot >= blockIndex * Width,
         \A v, w \in ws : v # w => <<v.subcore, v.slot>> # <<w.subcore, w.slot>>
  PROVE  OneWarpPerSlot'
<1>1. ASSUME NEW v \in warps, NEW w \in ws
      PROVE  <<v.cluster, v.core, v.subcore, v.slot>> # <<w.cluster, w.core, w.subcore, w.slot>>
  <2>1. Passed(v)
    BY DEF IInv, LoopInv
  <2>2. /\ v.cluster \in Nat /\ v.core \in Nat /\ v.subcore \in Nat /\ v.slot \in Nat
        /\ at.cluster \in Nat /\ at.core \in Nat /\ at.subcore \in Nat
        /\ blockIndex * Width \in Nat
    BY KernelTyped, Soc DEF IInv, TypeOK, LoopInv, Warp, Width
  <2>3. SUFFICES ASSUME v.cluster = w.cluster, v.core = w.core, v.subcore = w.subcore,
                        v.slot = w.slot
                 PROVE  FALSE
    OBVIOUS
  <2>4. /\ w.cluster = at.cluster /\ w.core = at.core /\ w.subcore \in Nat
        /\ w.slot \in Nat /\ w.subcore >= at.subcore
        /\ w.subcore = at.subcore => w.slot >= blockIndex * Width
    OBVIOUS
  <2> QED  BY <2>1, <2>2, <2>3, <2>4 DEF Passed
<1> QED  BY <1>1 DEF IInv, OneWarpPerSlot

LEMMA Numbers ==
  ASSUME IInv
  PROVE  /\ param \in Kernels /\ Width \in Nat \ {0}
         /\ blockIndex \in Nat /\ blockIndex * Width \in Nat /\ quota \in Nat
         /\ (blockIndex + 1) * Width = blockIndex * Width + Width
         /\ at.cluster \in Nat /\ at.core \in Nat /\ at.subcore \in Nat
<1>1. param \in Kernels /\ Width \in Nat \ {0} /\ blockIndex \in Nat /\ quota \in Nat
  BY KernelTyped, Soc DEF IInv, TypeOK, Width
<1>2. \A a, b \in Nat : a * b \in Nat /\ (a + 1) * b = a * b + b
  OBVIOUS
<1> QED  BY <1>1, <1>2, Soc DEF IInv, TypeOK

LEMMA NotFewer == \A a \in Nat, b \in Nat \ {0} : a <= a * b
  OBVIOUS

LEMMA PlaceNarrowInv == ASSUME IInv, PlaceNarrow PROVE IInv'
<1> USE DEF PlaceNarrow, Running, Place
<1>1. /\ param \in Kernels /\ Width \in Nat \ {0}
      /\ blockIndex \in Nat /\ blockIndex * Width \in Nat /\ quota \in Nat
      /\ (blockIndex + 1) * Width = blockIndex * Width + Width
      /\ at.cluster \in Nat /\ at.core \in Nat /\ at.subcore \in Nat
  BY Numbers
<1>2. (blockIndex + 1) * Width <= warp_per_subcore
  BY <1>1, Soc DEF HasRoom
<1>3. blockIndex + 1 <= warp_per_subcore
  BY <1>1, <1>2, NotFewer, Soc
<1>4. Width' = Width /\ blockIndex' * Width' = blockIndex * Width + Width
  BY <1>1 DEF Width
<1>5. /\ at \in PlaceType /\ ctaid \in [Axes -> Nat] /\ placed \in Nat
      /\ n_blocks > 0 /\ n_blocks \in 0 .. UintSize - 1 /\ at.subcore < subcore_per_core
  BY DEF IInv, LoopInv, TypeOK
<1>6. \A w \in NarrowWarps :
         /\ w \in Warp /\ w.cluster = at.cluster /\ w.core = at.core
         /\ w.subcore = at.subcore /\ w.slot \in Nat
         /\ w.slot >= blockIndex * Width /\ w.slot < blockIndex * Width + Width
  BY <1>1, <1>5, Zenon, SMT DEF NarrowWarps, WarpAt, Warp
<1>7. \A v, w \in NarrowWarps : v # w => v.slot # w.slot
  BY <1>1 DEF NarrowWarps, WarpAt
<1>8. TypeOK'
  <2>1. \A w \in warps' : /\ w \in Warp
                          /\ w.subcore < subcore_per_core /\ w.slot < warp_per_subcore
    BY <1>1, <1>2, <1>5, <1>6, Soc DEF IInv, TypeOK, Warp
  <2>2. /\ n_blocks' \in 0 .. UintSize - 1 /\ blockIndex' \in 0 .. warp_per_subcore
        /\ quota' \in 0 .. cta_num /\ dangling' \in BOOLEAN
    BY <1>1, <1>3, <1>5, Soc DEF IInv, TypeOK
  <2> QED  BY <1>4, <2>1, <2>2 DEF IInv, TypeOK, Warp, Axes
<1>9. LoopInv'
  <2>1. at' \in PlaceType /\ ctaid' \in [Axes -> Nat] /\ placed' \in Nat
    BY <1>5, NextCtaidTyped
  <2>2. \A w \in warps' : Passed(w)'
    <3>1. ASSUME NEW w \in warps PROVE Passed(w)'
      <4>1. Passed(w) /\ w.slot \in Nat
        BY DEF IInv, LoopInv, TypeOK, Warp
      <4> QED  BY <1>1, <1>4, <4>1 DEF Passed
    <3>2. ASSUME NEW w \in NarrowWarps PROVE Passed(w)'
      BY <1>4, <1>6, <3>2 DEF Passed
    <3> QED  BY <3>1, <3>2
  <2>3. pc' = "subcore" => n_blocks' > 0
    BY <1>5
  <2> QED  BY <1>1, <1>2, <1>4, <1>5, <2>1, <2>2, <2>3, Soc DEF LoopInv
<1>10. OneWarpPerSlot'
  <2>1. \A w \in NarrowWarps :
           /\ w.cluster = at.cluster /\ w.core = at.core /\ w.subcore \in Nat
           /\ w.slot \in Nat /\ w.subcore >= at.subcore
           /\ w.subcore = at.subcore => w.slot >= blockIndex * Width
    BY <1>1, <1>6
  <2>2. \A v, w \in NarrowWarps : v # w => <<v.subcore, v.slot>> # <<w.subcore, w.slot>>
    BY <1>7
  <2>3. pc = "subcore" /\ warps' = warps \cup NarrowWarps
    OBVIOUS
  <2> QED  BY <2>1, <2>2, <2>3, AddedApart, Zenon
<1> QED  BY <1>8, <1>9, <1>10 DEF IInv

\* The last subcore of a wide block: the one that takes its last warp, or that of the core.
LEMMA LastSubcore ==
  ASSUME IInv, pc = "subcore", Width > warp_per_subcore
  PROVE  \E m \in at.subcore .. subcore_per_core - 1 :
            /\ Max({at.subcore + k : k \in WideSubcores}) = m
            /\ \A k \in WideSubcores : k \in Nat /\ at.subcore + k <= m
<1> DEFINE q == (Width - 1) \div warp_per_subcore
           room == subcore_per_core - 1 - at.subcore
           K == IF q <= room THEN q ELSE room
           S == {at.subcore + k : k \in WideSubcores}
<1>1. /\ Width \in Nat \ {0} /\ warp_per_subcore \in Nat \ {0} /\ subcore_per_core \in Nat
      /\ at.subcore \in Nat /\ at.subcore < subcore_per_core
  BY Numbers, Soc DEF IInv, LoopInv
<1>2. /\ q \in Nat /\ q * warp_per_subcore <= Width - 1 /\ q <= Width - 1
      /\ \A k \in Nat : k * warp_per_subcore < Width => k <= q
  <2>1. \A a \in Nat, b \in Nat \ {0} :
           a \div b \in Nat /\ (a \div b) * b <= a /\ a < ((a \div b) + 1) * b
    OBVIOUS
  <2>2. q \in Nat /\ q * warp_per_subcore <= Width - 1 /\ Width - 1 < (q + 1) * warp_per_subcore
    BY <1>1, <2>1
  <2>3. q <= Width - 1
    BY <1>1, <2>2, NotFewer
  <2>4. \A i, j, b \in Nat : i >= j => i * b >= j * b
    OBVIOUS
  <2>5. ASSUME NEW k \in Nat, k * warp_per_subcore < Width PROVE k <= q
    <3>1. k >= q + 1 => k * warp_per_subcore >= (q + 1) * warp_per_subcore
      BY <1>1, <2>2, <2>4
    <3>2. k * warp_per_subcore \in Nat /\ (q + 1) * warp_per_subcore \in Nat
      BY <1>1, <2>2
    <3> QED  BY <1>1, <2>2, <2>5, <3>1, <3>2
  <2> QED  BY <2>2, <2>3, <2>5
<1>3. K \in WideSubcores
  <2>1. K \in Nat /\ K <= q /\ K <= room
    BY <1>1, <1>2
  <2>2. K * warp_per_subcore <= q * warp_per_subcore
    <3>1. \A i, j, b \in Nat : i <= j => i * b <= j * b
      OBVIOUS
    <3> QED  BY <1>1, <1>2, <2>1, <3>1
  <2>3. K * warp_per_subcore < Width
    <3>1. K * warp_per_subcore \in Nat /\ q * warp_per_subcore \in Nat
      BY <1>1, <1>2, <2>1
    <3> QED  BY <1>1, <1>2, <2>2, <3>1
  <2> QED  BY <1>1, <1>2, <2>1, <2>3 DEF WideSubcores
<1>4. \A k \in WideSubcores : k \in Nat /\ k <= K
  BY <1>1, <1>2 DEF WideSubcores
<1>5. at.subcore + K \in S /\ \A y \in S : y \in Nat /\ at.subcore + K >= y
  <2> HIDE DEF K
  <2> QED  BY <1>1, <1>3, <1>4
<1>6. Max(S) = at.subcore + K
  <2> HIDE DEF K, S
  <2> QED  BY <1>1, <1>5 DEF Max
<1>7. at.subcore + K \in at.subcore .. subcore_per_core - 1
  BY <1>1, <1>2
<1>8. \A k \in WideSubcores : k \in Nat /\ at.subcore + k <= at.subcore + K
  <2> HIDE DEF K
  <2> QED  BY <1>1, <1>3, <1>4
<1> HIDE DEF K
<1> QED  BY <1>6, <1>7, <1>8

LEMMA PlaceWideInv == ASSUME IInv, PlaceWide PROVE IInv'
<1> USE DEF PlaceWide, Running, Place
<1>1. /\ param \in Kernels /\ Width \in Nat \ {0}
      /\ blockIndex \in Nat /\ blockIndex * Width \in Nat /\ quota \in Nat
      /\ at.cluster \in Nat /\ at.core \in Nat /\ at.subcore \in Nat
  BY Numbers
<1>2. PICK m \in at.subcore .. subcore_per_core - 1 :
            /\ Max({at.subcore + k : k \in WideSubcores}) = m
            /\ \A k \in WideSubcores : k \in Nat /\ at.subcore + k <= m
  BY <1>1, LastSubcore, Soc
<1>3. m \in Nat /\ m < subcore_per_core
  BY <1>1, Soc
<1>4. /\ at \in PlaceType /\ ctaid \in [Axes -> Nat] /\ placed \in Nat /\ blockIndex = 0
      /\ n_blocks > 0 /\ n_blocks \in 0 .. UintSize - 1 /\ quota < cta_num
  BY <1>1, Soc DEF IInv, LoopInv, TypeOK
<1>5. /\ at' \in PlaceType /\ at'.cluster = at.cluster /\ at'.core = at.core
      /\ m <= at'.subcore /\ at'.subcore \in 0 .. subcore_per_core
  <2>1. at' = [at EXCEPT !.subcore = m] \/ at' = [at EXCEPT !.subcore = subcore_per_core]
    <3> DEFINE fits == Width <= (subcore_per_core - at.subcore) * warp_per_subcore
    <3>1. at' = [at EXCEPT !.subcore = IF fits THEN Max({at.subcore + k : k \in WideSubcores})
                                               ELSE subcore_per_core]
      OBVIOUS
    <3> HIDE DEF fits
    <3> QED  BY <1>2, <3>1
  <2>2. PICK s \in {m, subcore_per_core} : at' = [at EXCEPT !.subcore = s]
    BY <2>1
  <2>3. s \in 0 .. subcore_per_core /\ m <= s
    BY <1>3, Soc
  <2>4. /\ at' = [cluster |-> at.cluster, core |-> at.core, subcore |-> s]
        /\ at' \in PlaceType
    BY <1>4, <2>2, <2>3, PlaceSet
  <2> QED  BY <2>3, <2>4
<1>6. \A w \in WideWarps :
         /\ w \in Warp /\ w.cluster = at.cluster /\ w.core = at.core
         /\ w.subcore \in Nat /\ w.subcore >= at.subcore /\ w.subcore <= m
         /\ w.slot \in Nat /\ w.slot < warp_per_subcore
  <2>1. SUFFICES ASSUME NEW k \in WideSubcores,
                        NEW i \in 0 .. Min({warp_per_subcore, Width - k * warp_per_subcore}) - 1,
                        NEW w, w = WarpAt(at.subcore + k, i, i)
                 PROVE  /\ w \in Warp /\ w.cluster = at.cluster /\ w.core = at.core
                        /\ w.subcore \in Nat /\ w.subcore >= at.subcore /\ w.subcore <= m
                        /\ w.slot \in Nat /\ w.slot < warp_per_subcore
    BY DEF WideWarps
  <2>2. k \in Nat /\ at.subcore + k <= m
    BY <1>2
  <2>3. i \in Nat /\ i < warp_per_subcore
    <3>1. Width - k * warp_per_subcore \in Int
      BY <1>1, <2>2, Soc
    <3>2. \A a, b \in Int : Min({a, b}) \in Int /\ Min({a, b}) <= a
      <4> SUFFICES ASSUME NEW a \in Int, NEW b \in Int
                   PROVE  Min({a, b}) \in Int /\ Min({a, b}) <= a
        OBVIOUS
      <4>1. \E x \in {a, b} : \A y \in {a, b} : x <= y
        OBVIOUS
      <4> QED  BY <4>1 DEF Min
    <3> QED  BY <3>1, <3>2, Soc
  <2> QED  BY <1>1, <1>4, <2>1, <2>2, <2>3 DEF WarpAt, Warp
<1>7. \A v, w \in WideWarps : v # w => <<v.subcore, v.slot>> # <<w.subcore, w.slot>>
  <2> DEFINE Slots(k) == 0 .. Min({warp_per_subcore, Width - k * warp_per_subcore}) - 1
  <2> SUFFICES ASSUME NEW j \in WideSubcores, NEW h \in Slots(j),
                      NEW k \in WideSubcores, NEW i \in Slots(k),
                      WarpAt(at.subcore + j, h, h).subcore = WarpAt(at.subcore + k, i, i).subcore,
                      WarpAt(at.subcore + j, h, h).slot = WarpAt(at.subcore + k, i, i).slot
               PROVE  WarpAt(at.subcore + j, h, h) = WarpAt(at.subcore + k, i, i)
    <3>1. \A w \in WideWarps :
             \E k \in WideSubcores : \E i \in Slots(k) : w = WarpAt(at.subcore + k, i, i)
      <4> SUFFICES ASSUME NEW w \in WideWarps
                   PROVE  \E k \in WideSubcores : \E i \in Slots(k) :
                             w = WarpAt(at.subcore + k, i, i)
        OBVIOUS
      <4>1. PICK k \in WideSubcores : w \in {WarpAt(at.subcore + k, i, i) : i \in Slots(k)}
        BY DEF WideWarps
      <4> QED  BY <4>1
    <3> HIDE DEF Slots
    <3> QED  BY <3>1
  <2>1. at.subcore + j = at.subcore + k /\ h = i
    BY DEF WarpAt
  <2> QED  BY <2>1
<1>8. TypeOK'
  <2>1. \A w \in warps' : /\ w \in Warp
                          /\ w.subcore < subcore_per_core /\ w.slot < warp_per_subcore
    BY <1>1, <1>3, <1>6, Soc DEF IInv, TypeOK
  <2>2. /\ n_blocks' \in 0 .. UintSize - 1 /\ quota' \in 0 .. cta_num /\ dangling' \in BOOLEAN
    BY <1>1, <1>4, Soc DEF IInv, TypeOK
  <2>3. /\ at'.cluster \in 0 .. cluster_num - 1 /\ at'.core \in 0 .. core_per_cluster - 1
    BY <1>5 DEF PlaceType
  <2> QED  BY <1>5, <2>1, <2>2, <2>3 DEF IInv, TypeOK, Width
<1>9. LoopInv'
  <2>1. at' \in PlaceType /\ ctaid' \in [Axes -> Nat] /\ placed' \in Nat
    BY <1>4, <1>5, NextCtaidTyped
  <2>2. \A w \in warps' : Passed(w)'
    <3>1. ASSUME NEW w \in warps PROVE Passed(w)'
      <4>1. Passed(w) /\ w.subcore \in Nat
        BY DEF IInv, LoopInv, TypeOK, Warp
      <4>2. at.subcore <= at'.subcore
        BY <1>1, <1>3, <1>5
      <4> QED  BY <1>1, <1>5, <4>1, <4>2 DEF Passed
    <3>2. ASSUME NEW w \in WideWarps PROVE Passed(w)'
      BY <1>1, <1>3, <1>5, <1>6, <3>2 DEF Passed
    <3> QED  BY <3>1, <3>2
  <2> QED  BY <2>1, <2>2 DEF LoopInv
<1>10. OneWarpPerSlot'
  <2>1. blockIndex * Width = 0
    BY <1>1, <1>4
  <2>2. \A w \in WideWarps :
           /\ w.cluster = at.cluster /\ w.core = at.core /\ w.subcore \in Nat
           /\ w.slot \in Nat /\ w.subcore >= at.subcore
           /\ w.subcore = at.subcore => w.slot >= blockIndex * Width
    BY <1>6, <2>1
  <2>3. pc = "subcore" /\ warps' = warps \cup WideWarps
    OBVIOUS
  <2> QED  BY <1>7, <2>2, <2>3, AddedApart, Zenon
<1> QED  BY <1>8, <1>9, <1>10 DEF IInv

\* The loops go on to a later place.
LEMMA MoveOnInv == ASSUME IInv, MoveOn PROVE IInv'
<1> USE DEF MoveOn, Running
<1>1. /\ at \in PlaceType /\ ctaid \in [Axes -> Nat] /\ placed \in Nat
      /\ \A w \in warps : Passed(w) /\ w \in Warp /\ w.subcore < subcore_per_core
  BY DEF IInv, LoopInv, TypeOK
<1>2. /\ at' \in PlaceType /\ at'.subcore < subcore_per_core
      /\ \/ at'.cluster = at.cluster + 1
         \/ at'.cluster = at.cluster /\ at'.core = at.core + 1 /\ GoesOn
         \/ at'.cluster = at.cluster /\ at'.core = at.core
            /\ at'.subcore = at.subcore + 1 /\ GoesOn
  <2>1. CASE GoesOn /\ at.subcore + 1 < subcore_per_core
    BY <1>1, <2>1, Soc DEF NextPlace, PlaceType
  <2>2. CASE ~(GoesOn /\ at.subcore + 1 < subcore_per_core)
             /\ GoesOn /\ at.core + 1 < core_per_cluster
    <3>2. at.core + 1 \in 0 .. core_per_cluster - 1 /\ 0 \in 0 .. subcore_per_core
      BY <1>1, <2>2, Soc DEF PlaceType
    <3>3. at' = [cluster |-> at.cluster, core |-> at.core + 1, subcore |-> 0]
      BY <2>2, Zenon DEF NextPlace
    <3>4. at' \in PlaceType
      BY <1>1, <3>2, <3>3 DEF PlaceType
    <3> QED  BY <2>2, <3>3, <3>4, Soc
  <2>3. CASE ~(GoesOn /\ at.subcore + 1 < subcore_per_core)
             /\ ~(GoesOn /\ at.core + 1 < core_per_cluster)
    <3>1. at' = [cluster |-> at.cluster + 1, core |-> 0, subcore |-> 0]
          /\ at'.cluster < cluster_num
      BY <2>3, Zenon DEF NextPlace
    <3> QED  BY <1>1, <3>1, Soc DEF PlaceType
  <2> QED  BY <2>1, <2>2, <2>3
<1>3. quota' \in 0 .. cta_num - 1 /\ blockIndex' = 0
  BY <1>1, <1>2, Soc DEF NextQuota, GoesOn, IInv, TypeOK, PlaceType
<1>4. Width' = Width /\ blockIndex' * Width' = 0
  BY <1>3, Numbers DEF Width
<1>5. TypeOK'
  <2>1. /\ at'.cluster \in 0 .. cluster_num - 1 /\ at'.core \in 0 .. core_per_cluster - 1
        /\ at'.subcore \in 0 .. subcore_per_core
    BY <1>2 DEF PlaceType
  <2>2. quota' \in 0 .. cta_num /\ blockIndex' \in 0 .. warp_per_subcore
    BY <1>3, Soc
  <2> QED  BY <1>4, <2>1, <2>2 DEF IInv, TypeOK
<1>6. \A w \in warps' : Passed(w)'
  <2> SUFFICES ASSUME NEW w \in warps PROVE Passed(w)'
    OBVIOUS
  <2>1. /\ Passed(w) /\ w.cluster \in Nat /\ w.core \in Nat /\ w.subcore \in Nat
    BY <1>1 DEF Warp
  <2>2. at.cluster \in Nat /\ at.core \in Nat /\ at.subcore \in Nat
    BY <1>1, Soc DEF PlaceType
  <2> QED  BY <1>2, <2>1, <2>2 DEF Passed
<1>7. LoopInv'
  BY <1>1, <1>2, <1>3, <1>4, <1>6, Soc DEF LoopInv, IInv, TypeOK
<1>8. OneWarpPerSlot'
  BY DEF IInv, OneWarpPerSlot
<1> QED  BY <1>5, <1>7, <1>8 DEF IInv

LEMMA NextInv == IInv /\ [Next]_vars => IInv'
<1> SUFFICES ASSUME IInv, [Next]_vars PROVE IInv'
  OBVIOUS
<1>t. is_block_scheduler_init_ \in BOOLEAN /\ result \in {-1, 0, 1} /\ pc # "idle"
  BY DEF IInv, TypeOK
<1>1. CASE BackdoorRefused
  BY <1>1, <1>t, QuietStep DEF BackdoorRefused, Running
<1>2. CASE BackdoorRuns
  BY <1>2, BackdoorRunsInv
<1>3. CASE NothingToDo
  BY <1>3, <1>t, QuietStep DEF NothingToDo, Running
<1>4. CASE Start
  <2>1. CASE is_block_scheduler_init_
    BY <1>4, <1>t, <2>1, QuietStep DEF Start, Running
  <2>2. CASE ~is_block_scheduler_init_
    BY <1>4, <1>t, <2>2, QuietStep DEF Start, Running
  <2> QED  BY <2>1, <2>2
<1>5. CASE PlaceNarrow
  BY <1>5, PlaceNarrowInv
<1>6. CASE SubcoreFull
  BY <1>6, <1>t, QuietStep DEF SubcoreFull, Running
<1>7. CASE PlaceWide
  BY <1>7, PlaceWideInv
<1>8. CASE MoveOn
  BY <1>8, MoveOnInv
<1>9. CASE PlacementReturns
  BY <1>9, <1>t, QuietStep DEF PlacementReturns, Running
<1>10. CASE EnterReuse
  BY <1>10, <1>t, QuietStep DEF EnterReuse, Running
<1>11. CASE UseDeadBlock
  BY <1>11, <1>t, QuietStep DEF UseDeadBlock
<1>12. CASE CallAgain
  BY <1>12, CallAgainInv
<1>13. CASE UNCHANGED vars
  BY <1>13, <1>t, QuietStep DEF vars
<1> QED  BY <1>1, <1>2, <1>3, <1>4, <1>5, <1>6, <1>7, <1>8, <1>9, <1>10, <1>11, <1>12, <1>13
         DEF Next, ReuseSleeps, Over
-----------------------------------------------------------------------------
(* The theorems. *)

LEMMA Invariance == Spec => []IInv
  BY InitInv, NextInv, PTL DEF Spec

\* Type correctness: whatever the SoC and the kernels, no warp is stored outside the
\* hardware, and the backdoor (line 87) misses only with blocks wider than a subcore.
THEOREM TypeCorrect == Spec => []TypeOK
<1>1. IInv => TypeOK
  BY DEF IInv
<1> QED  BY <1>1, Invariance, PTL

\* The placement loops (lines 101 to 196) give no entry of a subcore to two warps, in a
\* SoC of any size, with a quota and block widths that need not divide anything.
THEOREM EntriesApart == Spec => []OneWarpPerSlot
<1>1. IInv => OneWarpPerSlot
  BY DEF IInv
<1> QED  BY <1>1, Invariance, PTL
-----------------------------------------------------------------------------
(* The grid in the order of its numbers: a number is a pair of a remainder and a quotient, *)
(* and the quotient one again. *)

LEMMA PairInside ==
  ASSUME NEW m \in Nat, NEW n \in Nat, NEW a \in Nat, NEW b \in Nat, a < m, b < n
  PROVE  a + m * b \in Nat /\ a + m * b < m * n
<1>1. m * b \in Nat /\ m * (n - b - 1) \in Nat
  OBVIOUS
<1>2. m * n = m * b + m * (n - b - 1) + m
  OBVIOUS
<1> QED  BY <1>1, <1>2

LEMMA PairApart ==
  ASSUME NEW m \in Nat, NEW a \in Nat, NEW b \in Nat, NEW c \in Nat, NEW d \in Nat,
         a < m, c < m, a + m * b = c + m * d
  PROVE  a = c /\ b = d
<1>1. ASSUME NEW v \in Nat, NEW w \in Nat, NEW g \in Nat, NEW h \in Nat,
             g < m, h < m, v < w
      PROVE  g + m * v # h + m * w
  <2>1. m * w = m * v + m + m * (w - v - 1)
    OBVIOUS
  <2>2. w - v - 1 \in Nat /\ \A x, y \in Nat : x * y \in Nat
    BY <1>1
  <2>3. m * v \in Nat /\ m * (w - v - 1) \in Nat
    BY <2>2
  <2> QED  BY <1>1, <2>1, <2>3
<1>2. ~(b < d) /\ ~(d < b)
  BY <1>1
<1>3. b = d
  BY <1>2
<1>4. m * b \in Nat /\ m * d = m * b
  BY <1>3
<1> QED  BY <1>3, <1>4

LEMMA PairOf ==
  ASSUME NEW m \in Nat, NEW n \in Nat, NEW k \in Nat, k < m * n
  PROVE  \E a, b \in Nat : a < m /\ b < n /\ k = a + m * b
<1>1. m > 0
  BY m = 0 => m * n = 0
<1>2. k % m \in Nat /\ k \div m \in Nat /\ k % m < m /\ k = m * (k \div m) + (k % m)
  BY <1>1
<1>3. k \div m < n
  <2>1. SUFFICES ASSUME k \div m >= n PROVE FALSE
    BY <1>2
  <2>2. m * (k \div m) = m * n + m * ((k \div m) - n) /\ m * ((k \div m) - n) \in Nat
    BY <1>2, <2>1
  <2>3. m * n \in Nat
    OBVIOUS
  <2> QED  BY <1>2, <2>2, <2>3
<1>4. PICK a \in Nat, b \in Nat : a = k % m /\ b = k \div m
  BY <1>2
<1>5. a < m /\ b < n /\ k = m * b + a
  BY <1>2, <1>3, <1>4
<1>6. \A p \in Nat : p + a = a + p
  OBVIOUS
<1>7. m * b \in Nat
  OBVIOUS
<1>8. k = a + m * b
  BY <1>5, <1>6, <1>7
<1> QED  BY <1>5, <1>8

Cells(d) == {c \in [Axes -> Nat] : \A a \in Axes : c[a] < d[a]}
Volume(d) == d["x"] * (d["y"] * d["z"])
Number(c, d) == c["x"] + d["x"] * (c["y"] + d["y"] * c["z"])

LEMMA Coordinates ==
  ASSUME NEW d \in [Axes -> Nat]
  PROVE  d["x"] \in Nat /\ d["y"] \in Nat /\ d["z"] \in Nat
  BY DEF Axes

LEMMA NumberTyped ==
  ASSUME NEW d \in [Axes -> Nat], NEW c \in [Axes -> Nat]
  PROVE  Number(c, d) \in Nat /\ Volume(d) \in Nat
<1>1. \A x, y \in Nat : x * y \in Nat /\ x + y \in Nat
  OBVIOUS
<1> QED  BY <1>1, Coordinates DEF Number, Volume

LEMMA NumberInside ==
  ASSUME NEW d \in [Axes -> Nat], NEW c \in Cells(d)
  PROVE  Number(c, d) \in 0 .. Volume(d) - 1
<1>1. /\ c["x"] \in Nat /\ c["y"] \in Nat /\ c["z"] \in Nat
      /\ c["x"] < d["x"] /\ c["y"] < d["y"] /\ c["z"] < d["z"]
  BY Coordinates DEF Cells, Axes
<1>2. c["y"] + d["y"] * c["z"] \in Nat /\ c["y"] + d["y"] * c["z"] < d["y"] * d["z"]
      /\ d["y"] * d["z"] \in Nat
  BY <1>1, Coordinates, PairInside, NumberTyped
<1>3. Number(c, d) \in Nat /\ Number(c, d) < Volume(d)
  BY <1>1, <1>2, Coordinates, PairInside DEF Number, Volume
<1> QED  BY <1>3, NumberTyped DEF Cells

LEMMA NumberApart ==
  ASSUME NEW d \in [Axes -> Nat], NEW b \in Cells(d), NEW c \in Cells(d),
         Number(b, d) = Number(c, d)
  PROVE  b = c
<1>1. /\ b["x"] \in Nat /\ b["y"] \in Nat /\ b["z"] \in Nat
      /\ c["x"] \in Nat /\ c["y"] \in Nat /\ c["z"] \in Nat
      /\ b["x"] < d["x"] /\ c["x"] < d["x"] /\ b["y"] < d["y"] /\ c["y"] < d["y"]
  BY Coordinates DEF Cells, Axes
<1>2. PICK p \in Nat, q \in Nat : p = b["y"] + d["y"] * b["z"] /\ q = c["y"] + d["y"] * c["z"]
  <2>1. b["y"] + d["y"] * b["z"] \in Nat /\ c["y"] + d["y"] * c["z"] \in Nat
    BY <1>1, Coordinates
  <2> QED  BY <2>1
<1>3. b["x"] = c["x"] /\ b["y"] + d["y"] * b["z"] = c["y"] + d["y"] * c["z"]
  <2>1. b["x"] + d["x"] * p = c["x"] + d["x"] * q
    BY <1>2 DEF Number
  <2>2. d["x"] \in Nat
    BY Coordinates
  <2>3. b["x"] = c["x"] /\ p = q
    BY <1>1, <2>1, <2>2, PairApart
  <2> QED  BY <1>2, <2>3
<1>4. b["y"] = c["y"] /\ b["z"] = c["z"]
  BY <1>1, <1>3, Coordinates, PairApart
<1> QED  BY <1>3, <1>4 DEF Cells, Axes

LEMMA NumberAll ==
  ASSUME NEW d \in [Axes -> Nat], NEW n \in 0 .. Volume(d) - 1
  PROVE  \E c \in Cells(d) : Number(c, d) = n
<1>0. d["y"] * d["z"] \in Nat /\ n \in Nat /\ n < Volume(d)
  BY Coordinates, NumberTyped
<1>1. PICK x \in Nat, q \in Nat : x < d["x"] /\ q < d["y"] * d["z"] /\ n = x + d["x"] * q
  BY <1>0, Coordinates, PairOf DEF Volume
<1>2. PICK y \in Nat, z \in Nat : y < d["y"] /\ z < d["z"] /\ q = y + d["y"] * z
  BY <1>1, Coordinates, PairOf
<1> DEFINE c == [a \in Axes |-> IF a = "x" THEN x ELSE IF a = "y" THEN y ELSE z]
<1>3. c["x"] = x /\ c["y"] = y /\ c["z"] = z
  BY DEF Axes
<1>4. c \in Cells(d)
  BY <1>1, <1>2, <1>3 DEF Cells, Axes
<1>5. Number(c, d) = n
  BY <1>1, <1>2, <1>3 DEF Number
<1> QED  BY <1>4, <1>5

\* A set of cells that has each of the first n numbers has n cells.
LEMMA Counted ==
  ASSUME NEW d \in [Axes -> Nat], NEW S \in SUBSET Cells(d), NEW n \in Nat,
         \A c \in S : Number(c, d) < n,
         \A m \in 0 .. n - 1 : \E c \in S : Number(c, d) = m
  PROVE  Cardinality(S) = n
<1> DEFINE f == [c \in S |-> Number(c, d)]
<1>1. \A c \in S : Number(c, d) \in 0 .. n - 1
  BY NumberInside, NumberTyped DEF Cells
<1>2. f \in Injection(S, 0 .. n - 1)
  BY <1>1, NumberApart DEF Injection, IsInjective
<1>3. f \in Surjection(S, 0 .. n - 1)
  BY <1>1 DEF Surjection
<1>4. IsFiniteSet(0 .. n - 1) /\ Cardinality(0 .. n - 1) = n
  BY FS_Interval
<1> QED  BY <1>2, <1>3, <1>4, FS_Injection

LEMMA GridIs == ASSUME param \in Kernels PROVE Grid = Cells(param.nctaid)
<1> DEFINE d == param.nctaid
           S == {d[a] : a \in Axes}
<1>1. d \in [Axes -> Nat]
  BY KernelTyped
<1>2. \E m \in S : \A n \in S : m >= n
  <2>1. S = {d["x"], d["y"], d["z"]}
    BY DEF Axes
  <2>2. \A x, y, z \in Nat : \E m \in {x, y, z} : \A n \in {x, y, z} : m >= n
    OBVIOUS
  <2>3. d["x"] \in Nat /\ d["y"] \in Nat /\ d["z"] \in Nat
    BY <1>1, Coordinates
  <2> HIDE DEF S, d
  <2> QED  BY <2>1, <2>2, <2>3
<1>3. Max(S) \in S /\ \A n \in S : Max(S) >= n
  <2> HIDE DEF S
  <2> QED  BY <1>2 DEF Max
<1>4. Max(S) \in Nat /\ \A a \in Axes : d[a] <= Max(S)
  BY <1>1, <1>3
<1>5. \A c \in Cells(d) : c \in [Axes -> 0 .. Max(S)]
  <2> SUFFICES ASSUME NEW c \in Cells(d), NEW a \in Axes PROVE c[a] \in 0 .. Max(S)
    BY DEF Cells
  <2> QED  BY <1>1, <1>4 DEF Cells
<1> QED  BY <1>1, <1>4, <1>5 DEF Grid, Cells

-----------------------------------------------------------------------------
(* The blocks take the numbers of the grid one by one. *)

GridInv ==
    LET d == param.nctaid IN
    /\ placed + n_blocks = GridSize(param)
    /\ Number(ctaid, d) = placed
    /\ GridSize(param) > 0 => ctaid["x"] < d["x"] /\ ctaid["y"] < d["y"]
    /\ \A w \in warps : w.ctaid \in Cells(d)
    /\ param.sr_cfg = << >> =>
          /\ \A w \in warps : Number(w.ctaid, d) < placed
          /\ \A n \in 0 .. placed - 1 : \E w \in warps : Number(w.ctaid, d) = n

\* The size of the grid, before it is cut to 32 bits and after.
LEMMA Cut ==
  ASSUME NEW k \in Kernels
  PROVE  /\ GridSize(k) \in Nat /\ GridSize(k) <= Volume(k.nctaid)
         /\ Volume(k.nctaid) < UintSize => GridSize(k) = Volume(k.nctaid)
         /\ Volume(k.nctaid) = k.nctaid["x"] * k.nctaid["y"] * k.nctaid["z"]
         /\ GridSize(k) > 0 => k.nctaid["x"] > 0 /\ k.nctaid["y"] > 0
<1>1. k.nctaid["x"] \in Nat /\ k.nctaid["y"] \in Nat /\ k.nctaid["z"] \in Nat
  BY KernelTyped, Coordinates
<1>2. Volume(k.nctaid) = k.nctaid["x"] * k.nctaid["y"] * k.nctaid["z"]
  BY <1>1 DEF Volume
<1>3. Volume(k.nctaid) \in Nat
  BY KernelTyped, NumberTyped
<1>4. GridSize(k) = Volume(k.nctaid) % UintSize
  BY <1>2 DEF GridSize
<1>5. \A v \in Nat, u \in Nat \ {0} :
         v % u \in Nat /\ v % u <= v /\ (v < u => v % u = v)
  OBVIOUS
<1>6. k.nctaid["x"] = 0 \/ k.nctaid["y"] = 0 => Volume(k.nctaid) = 0
  BY <1>1 DEF Volume
<1>7. /\ GridSize(k) \in Nat /\ GridSize(k) <= Volume(k.nctaid)
      /\ Volume(k.nctaid) < UintSize => GridSize(k) = Volume(k.nctaid)
  BY <1>3, <1>4, <1>5, Soc
<1> QED  BY <1>1, <1>2, <1>3, <1>6, <1>7

LEMMA OriginNumber ==
  ASSUME NEW k \in Kernels
  PROVE  /\ Number(Origin, k.nctaid) = 0
         /\ GridSize(k) > 0 => Origin["x"] < k.nctaid["x"] /\ Origin["y"] < k.nctaid["y"]
<1>1. Origin["x"] = 0 /\ Origin["y"] = 0 /\ Origin["z"] = 0
  BY DEF Origin, Axes
<1>2. k.nctaid["x"] \in Nat /\ k.nctaid["y"] \in Nat
  BY KernelTyped, Coordinates
<1> QED  BY <1>1, <1>2, Cut DEF Number

LEMMA GridBegins == Init => GridInv
<1> SUFFICES ASSUME Init PROVE GridInv
  OBVIOUS
<1>1. /\ placed = 0 /\ n_blocks = GridSize(param) /\ ctaid = Origin /\ warps = {}
      /\ param \in Kernels
  BY DEF Init
<1> QED  BY <1>1, OriginNumber, Cut DEF GridInv

\* The coordinates of the next block have the next number.
LEMMA NextNumber ==
  ASSUME param \in Kernels, NEW c \in [Axes -> Nat],
         c["x"] < param.nctaid["x"], c["y"] < param.nctaid["y"]
  PROVE  /\ Number(NextCtaid(c), param.nctaid) = Number(c, param.nctaid) + 1
         /\ NextCtaid(c)["x"] < param.nctaid["x"] /\ NextCtaid(c)["y"] < param.nctaid["y"]
<1>1. PICK d : d = param.nctaid
  OBVIOUS
<1>2. /\ d["x"] \in Nat /\ d["y"] \in Nat /\ d["z"] \in Nat
      /\ c["x"] \in Nat /\ c["y"] \in Nat /\ c["z"] \in Nat
      /\ c["x"] < d["x"] /\ c["y"] < d["y"]
  BY <1>1, KernelTyped, Coordinates
<1>3. PICK q \in Nat : q = c["y"] + d["y"] * c["z"]
  <2>1. c["y"] + d["y"] * c["z"] \in Nat
    BY <1>2
  <2> QED  BY <2>1
<1>4. PICK r \in Nat : /\ r = d["x"] * q /\ d["x"] * (q + 1) = r + d["x"]
                     /\ Number(c, d) = c["x"] + r
  <2>1. \A x, y \in Nat : x * y \in Nat /\ x * (y + 1) = x * y + x
    OBVIOUS
  <2>2. d["x"] * q \in Nat /\ d["x"] * (q + 1) = d["x"] * q + d["x"]
    BY <1>2, <2>1
  <2> QED  BY <1>3, <2>2 DEF Number
<1>5. CASE c["x"] + 1 # d["x"]
  <2>1. /\ NextCtaid(c)["x"] = c["x"] + 1 /\ NextCtaid(c)["y"] = c["y"]
        /\ NextCtaid(c)["z"] = c["z"]
    BY <1>1, <1>2, <1>5 DEF NextCtaid, Axes
  <2>2. Number(NextCtaid(c), d) = (c["x"] + 1) + r
    BY <1>3, <1>4, <2>1 DEF Number
  <2> QED  BY <1>1, <1>2, <1>4, <1>5, <2>1, <2>2
<1>6. CASE c["x"] + 1 = d["x"] /\ c["y"] + 1 # d["y"]
  <2>1. /\ NextCtaid(c)["x"] = 0 /\ NextCtaid(c)["y"] = c["y"] + 1
        /\ NextCtaid(c)["z"] = c["z"]
    BY <1>1, <1>2, <1>6 DEF NextCtaid, Axes
  <2>2. (c["y"] + 1) + d["y"] * c["z"] = q + 1
    BY <1>2, <1>3
  <2>3. Number(NextCtaid(c), d) = 0 + (r + d["x"])
    BY <1>4, <2>1, <2>2 DEF Number
  <2>4. Number(NextCtaid(c), d) = Number(c, d) + 1
    BY <1>2, <1>4, <1>6, <2>3
  <2>5. NextCtaid(c)["x"] < d["x"] /\ NextCtaid(c)["y"] < d["y"]
    BY <1>2, <1>6, <2>1
  <2> QED  BY <1>1, <2>4, <2>5
<1>7. CASE c["x"] + 1 = d["x"] /\ c["y"] + 1 = d["y"]
  <2>1. /\ NextCtaid(c)["x"] = 0 /\ NextCtaid(c)["y"] = 0
        /\ NextCtaid(c)["z"] = c["z"] + 1
    BY <1>1, <1>2, <1>7 DEF NextCtaid, Axes
  <2>2. d["y"] * (c["z"] + 1) = d["y"] * c["z"] + d["y"] /\ d["y"] * c["z"] \in Nat
    BY <1>2
  <2>3. 0 + d["y"] * (c["z"] + 1) = q + 1
    BY <1>2, <1>3, <1>7, <2>2
  <2>4. Number(NextCtaid(c), d) = 0 + (r + d["x"])
    BY <1>4, <2>1, <2>3 DEF Number
  <2> QED  BY <1>1, <1>2, <1>4, <1>7, <2>1, <2>4
<1> QED  BY <1>5, <1>6, <1>7

\* While blocks are left the next one is in the grid.
LEMMA NextIsCell == ASSUME IInv, GridInv, n_blocks > 0 PROVE ctaid \in Cells(param.nctaid)
<1>1. PICK d : d = param.nctaid
  OBVIOUS
<1>2. /\ param \in Kernels /\ n_blocks \in Nat /\ placed \in Nat /\ ctaid \in [Axes -> Nat]
  BY Soc DEF IInv, TypeOK, LoopInv
<1>3. /\ d["x"] \in Nat /\ d["y"] \in Nat /\ d["z"] \in Nat /\ d \in [Axes -> Nat]
      /\ ctaid["x"] \in Nat /\ ctaid["y"] \in Nat /\ ctaid["z"] \in Nat
  BY <1>1, <1>2, KernelTyped, Coordinates
<1>4. GridSize(param) > 0 /\ placed < Volume(d) /\ Number(ctaid, d) = placed
  <2>1. Volume(d) \in Nat /\ GridSize(param) <= Volume(d) /\ GridSize(param) \in Nat
    BY <1>1, <1>2, <1>3, Cut, NumberTyped
  <2> QED  BY <1>1, <1>2, <2>1 DEF GridInv
<1>5. ctaid["x"] < d["x"] /\ ctaid["y"] < d["y"]
  BY <1>1, <1>4 DEF GridInv
<1>6. ctaid["z"] < d["z"]
  <2>1. SUFFICES ASSUME ctaid["z"] >= d["z"] PROVE FALSE
    BY <1>3
  <2>2. \A a, b, n \in Nat : a >= b => n * a >= n * b /\ n * a \in Nat /\ n * b \in Nat
    <3> TAKE a, b, n \in Nat
    <3> HAVE a >= b
    <3>1. a - b \in Nat /\ n * a = n * b + n * (a - b)
      OBVIOUS
    <3>2. \A x, y \in Nat : x * y \in Nat
      OBVIOUS
    <3>3. n * a \in Nat /\ n * b \in Nat /\ n * (a - b) \in Nat
      BY <3>1, <3>2
    <3> QED  BY <3>1, <3>3
  <2>3. PICK q \in Nat, v \in Nat : q = ctaid["y"] + d["y"] * ctaid["z"] /\ v = d["y"] * d["z"]
                                    /\ q >= v
    <3>1. /\ d["y"] * ctaid["z"] >= d["y"] * d["z"]
          /\ d["y"] * ctaid["z"] \in Nat /\ d["y"] * d["z"] \in Nat
      BY <1>3, <2>1, <2>2
    <3>2. ctaid["y"] + d["y"] * ctaid["z"] \in Nat
          /\ ctaid["y"] + d["y"] * ctaid["z"] >= d["y"] * d["z"]
      BY <1>3, <3>1
    <3> QED  BY <3>1, <3>2
  <2>4. d["x"] * q >= d["x"] * v /\ d["x"] * q \in Nat /\ d["x"] * v \in Nat
    BY <1>3, <2>2, <2>3
  <2>5. ctaid["x"] + d["x"] * q < d["x"] * v
    BY <1>4, <2>3 DEF Number, Volume
  <2> QED  BY <1>3, <2>4, <2>5
<1> QED  BY <1>1, <1>2, <1>5, <1>6 DEF Cells, Axes

\* A block is placed by storing at least one warp, and none of another block.
LEMMA PlacedNext ==
  ASSUME IInv, GridInv, NEW ws, Place(ws), n_blocks > 0, param' = param,
         ws # {}, \A w \in ws : w.ctaid = ctaid
  PROVE  GridInv'
<1>1. PICK d : d = param.nctaid
  OBVIOUS
<1>2. /\ param \in Kernels /\ n_blocks \in Nat /\ placed \in Nat /\ ctaid \in [Axes -> Nat]
  BY Soc DEF IInv, TypeOK, LoopInv
<1>3. /\ ctaid \in Cells(d) /\ Number(ctaid, d) = placed
      /\ ctaid["x"] < d["x"] /\ ctaid["y"] < d["y"]
  BY <1>1, NextIsCell DEF GridInv, Cells, Axes
<1>4. /\ warps' = warps \cup ws /\ ctaid' = NextCtaid(ctaid)
      /\ n_blocks' = n_blocks - 1 /\ placed' = placed + 1 /\ GridSize(param)' = GridSize(param)
  BY DEF Place, GridSize
<1>5. placed' + n_blocks' = GridSize(param)
  BY <1>2, <1>4 DEF GridInv
<1>6. /\ Number(ctaid', d) = placed'
      /\ ctaid'["x"] < d["x"] /\ ctaid'["y"] < d["y"]
  BY <1>1, <1>2, <1>3, <1>4, NextNumber
<1>7. \A w \in warps' : w.ctaid \in Cells(d)
  BY <1>1, <1>3, <1>4 DEF GridInv
<1>8. ASSUME param.sr_cfg = << >>
      PROVE  /\ \A w \in warps' : Number(w.ctaid, d) < placed'
             /\ \A n \in 0 .. placed' - 1 : \E w \in warps' : Number(w.ctaid, d) = n
  <2>1. /\ \A w \in warps : Number(w.ctaid, d) < placed /\ Number(w.ctaid, d) \in Nat
        /\ \A n \in 0 .. placed - 1 : \E w \in warps : Number(w.ctaid, d) = n
    <3>1. \A w \in warps : w.ctaid \in Cells(d) /\ d \in [Axes -> Nat]
      BY <1>1, <1>2, KernelTyped DEF GridInv
    <3>2. \A w \in warps : Number(w.ctaid, d) \in Nat
      BY <3>1, NumberTyped DEF Cells
    <3> QED  BY <1>1, <1>8, <3>2 DEF GridInv
  <2>2. \A w \in ws : Number(w.ctaid, d) = placed
    BY <1>3
  <2>3. \A n \in 0 .. placed' - 1 : n \in 0 .. placed - 1 \/ n = placed
    BY <1>2, <1>4
  <2> QED  BY <1>2, <1>4, <2>1, <2>2, <2>3
<1> QED  BY <1>1, <1>4, <1>5, <1>6, <1>7, <1>8 DEF GridInv

LEMMA GridStep == ASSUME IInv, GridInv, [Next]_vars PROVE GridInv'
<1>1. CASE UNCHANGED <<param, n_blocks, ctaid, placed, warps>>
  <2>1. GridSize(param)' = GridSize(param)
    BY <1>1 DEF GridSize
  <2> QED  BY <1>1, <2>1 DEF GridInv
<1>2. CASE BackdoorRuns
  <2>1. CASE UNCHANGED warps
    BY <1>1, <1>2, <2>1 DEF BackdoorRuns
  <2>2. CASE Backdoor("warp") < warp_per_subcore
    <3>1. /\ param \in Kernels /\ param.sr_cfg # << >>
          /\ \A w \in warps' : w.ctaid = [a \in Axes |-> Backdoor(a)]
          /\ \A a \in Axes : ~(Backdoor(a) >= param.nctaid[a])
          /\ UNCHANGED <<param, n_blocks, ctaid, placed>>
      BY <1>2, <2>2 DEF BackdoorRuns, OutOfGrid, IInv, TypeOK
    <3>2. \A a \in Axes : Backdoor(a) \in Nat /\ param.nctaid[a] \in Nat
      BY <3>1, KernelTyped DEF Backdoor
    <3>3. [a \in Axes |-> Backdoor(a)] \in Cells(param.nctaid)
      BY <3>1, <3>2 DEF Cells
    <3>4. GridSize(param)' = GridSize(param)
      BY <3>1 DEF GridSize
    <3>5. \A w \in warps' : w.ctaid \in Cells(param.nctaid)
      BY <3>1, <3>3
    <3> QED  BY <3>1, <3>4, <3>5 DEF GridInv
  <2> QED  BY <1>2, <2>1, <2>2 DEF BackdoorRuns
<1>3. CASE PlaceNarrow
  <2>1. Width \in Nat \ {0} /\ n_blocks > 0 /\ Place(NarrowWarps) /\ param' = param
    BY <1>3, Numbers DEF PlaceNarrow, Running, IInv, LoopInv
  <2>2. WarpAt(at.subcore, blockIndex * Width + 0, 0) \in NarrowWarps
    BY <2>1 DEF NarrowWarps
  <2>3. \A w \in NarrowWarps : w.ctaid = ctaid
    BY DEF NarrowWarps, WarpAt
  <2> QED  BY <2>1, <2>2, <2>3, PlacedNext
<1>4. CASE PlaceWide
  <2>1. /\ Width \in Nat \ {0} /\ warp_per_subcore \in Nat \ {0} /\ n_blocks > 0
        /\ Place(WideWarps) /\ param' = param
        /\ at.subcore \in Nat /\ at.subcore < subcore_per_core /\ subcore_per_core \in Nat
    BY <1>4, Numbers, Soc DEF PlaceWide, Running, IInv, LoopInv
  <2>2. 0 \in WideSubcores
    BY <2>1 DEF WideSubcores
  <2>3. 0 \in 0 .. Min({warp_per_subcore, Width - 0 * warp_per_subcore}) - 1
    <3>1. Width - 0 * warp_per_subcore = Width
      BY <2>1
    <3>2. \A a, b \in Nat \ {0} : Min({a, b}) \in Nat \ {0}
      <4> TAKE a, b \in Nat \ {0}
      <4>1. \E x \in {a, b} : \A y \in {a, b} : x <= y
        OBVIOUS
      <4> QED  BY <4>1 DEF Min
    <3>3. PICK m \in Nat \ {0} : m = Min({warp_per_subcore, Width})
      BY <2>1, <3>2
    <3>4. 0 \in 0 .. m - 1
      OBVIOUS
    <3> QED  BY <3>1, <3>3, <3>4
  <2>4. WarpAt(at.subcore + 0, 0, 0) \in WideWarps
    BY <2>2, <2>3 DEF WideWarps
  <2>5. \A w \in WideWarps : w.ctaid = ctaid
    <3> SUFFICES ASSUME NEW w \in WideWarps PROVE w.ctaid = ctaid
      OBVIOUS
    <3>1. PICK k \in WideSubcores :
             w \in {WarpAt(at.subcore + k, i, i) :
                      i \in 0 .. Min({warp_per_subcore, Width - k * warp_per_subcore}) - 1}
      BY DEF WideWarps
    <3>2. \E i : w = WarpAt(at.subcore + k, i, i)
      BY <3>1
    <3> QED  BY <3>2 DEF WarpAt
  <2> QED  BY <2>1, <2>4, <2>5, PlacedNext
<1>5. CASE CallAgain
  <2>1. /\ placed' = 0 /\ n_blocks' = GridSize(param') /\ ctaid' = Origin /\ warps' = {}
        /\ param' \in Kernels
    BY <1>5 DEF CallAgain
  <2>2. GridSize(param)' = GridSize(param')
    BY DEF GridSize
  <2> QED  BY <2>1, <2>2, OriginNumber, Cut DEF GridInv
<1> QED  BY <1>1, <1>2, <1>3, <1>4, <1>5
         DEF Next, vars, BackdoorRefused, NothingToDo, Start, SubcoreFull, MoveOn,
             PlacementReturns, EnterReuse, ReuseSleeps, UseDeadBlock, Over

\* The blocks of a grid (lines 28 and 101 to 196) are placed one after the other in the order
\* of their coordinates, none twice and none left out: what is placed and what is left are
\* together the grid, if its size is a uint32_t, in a SoC and for a grid of any size.
THEOREM EachBlockOnce == Spec => []GridPlacedOnce
<1>1. IInv /\ GridInv => GridPlacedOnce
  <2> SUFFICES ASSUME IInv, GridInv PROVE GridPlacedOnce
    OBVIOUS
  <2>1. PICK d : d = param.nctaid
    OBVIOUS
  <2>2. /\ param \in Kernels /\ d \in [Axes -> Nat] /\ placed \in Nat /\ Grid = Cells(d)
        /\ Volume(d) \in Nat
    BY <2>1, KernelTyped, GridIs, NumberTyped DEF IInv, TypeOK, LoopInv
  <2>3. {w.ctaid : w \in warps} \in SUBSET Cells(d)
    BY <2>1 DEF GridInv
  <2>4. ASSUME param.sr_cfg = << >>
        PROVE  Cardinality({w.ctaid : w \in warps}) = placed
    <3>1. \A c \in {w.ctaid : w \in warps} : Number(c, d) < placed
      BY <2>1, <2>4 DEF GridInv
    <3>2. \A n \in 0 .. placed - 1 : \E c \in {w.ctaid : w \in warps} : Number(c, d) = n
      BY <2>1, <2>4 DEF GridInv
    <3> QED  BY <2>2, <2>3, <3>1, <3>2, Counted
  <2>5. Cardinality(Cells(d)) = Volume(d)
    <3>1. \A c \in Cells(d) : Number(c, d) < Volume(d)
      BY <2>2, NumberInside
    <3>2. \A n \in 0 .. Volume(d) - 1 : \E c \in Cells(d) : Number(c, d) = n
      BY <2>2, NumberAll
    <3> QED  BY <2>2, <3>1, <3>2, Counted
  <2>6. ASSUME param.nctaid["x"] * param.nctaid["y"] * param.nctaid["z"] < UintSize
        PROVE  placed + n_blocks = Volume(d)
    BY <2>1, <2>2, <2>6, Cut DEF GridInv
  <2> QED  BY <2>2, <2>3, <2>4, <2>5, <2>6 DEF GridPlacedOnce
<1> QED  BY <1>1, InitInv, NextInv, GridBegins, GridStep, PTL DEF Spec
-----------------------------------------------------------------------------
(* How the blocks spread over the SoC.  A subcore takes PerSubcore narrow blocks, and a *)
(* wide one a whole number of subcores, so that a core holds BlocksPerCore of either.   *)

Least(a, b) == IF a <= b THEN a ELSE b

Narrow == Width <= warp_per_subcore
PerSubcore == warp_per_subcore \div Width
PerCluster == Least(cta_num, core_per_cluster * BlocksPerCore)

\* The core has given places to j blocks before the one at hand, and behind this subcore.
Given(j) ==
    /\ j \in 0 .. BlocksPerCore
    /\ IF Narrow THEN j = at.subcore * PerSubcore + blockIndex
       ELSE at.subcore = SubcoresOf(Width) * j

GivenNext(j) ==
    /\ j \in 0 .. BlocksPerCore /\ at.subcore < subcore_per_core
    /\ IF Narrow THEN j = (at.subcore + 1) * PerSubcore
       ELSE at.subcore + 1 = SubcoresOf(Width) * j

Share(j) ==
    /\ quota = Least(cta_num, at.core * BlocksPerCore + j)
    /\ placed = at.cluster * PerCluster + quota

SpreadInv ==
    /\ pc = "start" => placed = 0
    /\ pc = "subcore" => \E j \in Nat : Given(j) /\ Share(j)
    /\ pc = "next" /\ n_blocks > 0 => \E j \in Nat : GivenNext(j) /\ Share(j)
    /\ pc = "reuse" => placed = 0 \/ placed = cluster_num * PerCluster

LEMMA Products == \A x, y \in Nat : x * y \in Nat
  OBVIOUS

LEMMA ProductsGrow ==
  ASSUME NEW x \in Nat, NEW y \in Nat, NEW f \in Nat, x <= y
  PROVE  x * f <= y * f
<1>1. (y - x) * f \in Nat
  BY Products
<1>2. y * f = x * f + (y - x) * f
  OBVIOUS
<1> QED  BY <1>1, <1>2, Products

LEMMA MinIsLeast == \A a, b \in Int : Min({a, b}) = Least(a, b)
<1> TAKE a, b \in Int
<1>1. \E x \in {a, b} : \A y \in {a, b} : x <= y
  OBVIOUS
<1>2. Min({a, b}) \in {a, b} /\ \A y \in {a, b} : Min({a, b}) <= y
  BY <1>1 DEF Min
<1> QED  BY <1>2 DEF Least

LEMMA Quotient ==
  ASSUME NEW a \in Nat, NEW b \in Nat \ {0}
  PROVE  /\ a \div b \in Nat /\ a % b \in 0 .. b - 1
         /\ a = (a \div b) * b + (a % b)
         /\ \A i \in Nat : i * b <= a <=> i <= a \div b
<1>1. /\ a \div b \in Nat /\ a % b \in 0 .. b - 1
      /\ a = (a \div b) * b + (a % b)
  OBVIOUS
<1>2. ASSUME NEW i \in Nat PROVE i * b <= a <=> i <= a \div b
  <2>1. PICK q \in Nat, r \in Nat : q = a \div b /\ r = a % b /\ r < b /\ a = q * b + r
    BY <1>1
  <2>2. CASE i <= q
    <3>1. i * b <= q * b
      BY <2>2, ProductsGrow
    <3> QED  BY <2>1, <2>2, <3>1, Products
  <2>3. CASE q + 1 <= i
    <3>1. (q + 1) * b <= i * b
      BY <2>3, ProductsGrow
    <3>2. (q + 1) * b = q * b + b
      OBVIOUS
    <3> QED  BY <2>1, <2>3, <3>1, <3>2, Products
  <2> QED  BY <2>1, <2>2, <2>3
<1> QED  BY <1>1, <1>2

\* A block needs its width in warps, rounded up to subcores.
LEMMA RoundedUp ==
  ASSUME NEW w \in Nat \ {0}
  PROVE  /\ SubcoresOf(w) \in Nat \ {0}
         /\ w <= SubcoresOf(w) * warp_per_subcore
         /\ \A k \in Nat : k * warp_per_subcore < w <=> k < SubcoresOf(w)
<1>1. PICK p \in Nat \ {0} : p = warp_per_subcore
  BY Soc
<1>2. PICK s : s = SubcoresOf(w)
  OBVIOUS
<1>3. w + p - 1 \in Nat /\ s = (w + p - 1) \div p
  BY <1>1, <1>2 DEF SubcoresOf
<1>4. s \in Nat /\ \A i \in Nat : i * p <= w + p - 1 <=> i <= s
  BY <1>3, Quotient
<1>5. s # 0
  <2>1. 1 * p <= w + p - 1
    OBVIOUS
  <2> QED  BY <1>4, <2>1
<1>6. ASSUME NEW k \in Nat PROVE k * p < w <=> k < s
  <2>1. (k + 1) * p = k * p + p /\ k * p \in Nat /\ k + 1 \in Nat
    OBVIOUS
  <2>2. (k + 1) * p <= w + p - 1 <=> k + 1 <= s
    BY <1>4, <2>1
  <2> QED  BY <1>4, <2>1, <2>2
<1>7. w <= s * p
  <2>1. ~(s * p < w) /\ s * p \in Nat
    BY <1>4, <1>6, Products
  <2> QED  BY <2>1
<1> QED  BY <1>1, <1>2, <1>4, <1>5, <1>6, <1>7

\* What a subcore and a core hold.
LEMMA Shares ==
  ASSUME IInv
  PROVE  /\ Width \in Nat \ {0} /\ SubcoresOf(Width) \in Nat \ {0} /\ BlocksPerCore \in Nat
         /\ Narrow => /\ PerSubcore \in Nat \ {0}
                      /\ BlocksPerCore = subcore_per_core * PerSubcore
                      /\ \A i \in Nat : i * Width <= warp_per_subcore <=> i <= PerSubcore
         /\ ~Narrow => subcore_per_core = SubcoresOf(Width) * BlocksPerCore
<1>1. /\ param \in Kernels /\ Width \in Nat \ {0}
      /\ warp_per_subcore \in Nat \ {0} /\ subcore_per_core \in Nat \ {0}
  BY Numbers, Soc
<1>2. PICK w \in Nat \ {0}, p \in Nat \ {0}, n \in Nat \ {0}, s \in Nat \ {0} :
         w = Width /\ p = warp_per_subcore /\ n = subcore_per_core /\ s = SubcoresOf(Width)
  BY <1>1, RoundedUp
<1>3. CASE Narrow
  <2>1. p \div w \in Nat /\ \A i \in Nat : i * w <= p <=> i <= p \div w
    BY Quotient
  <2>2. p \div w # 0
    <3>1. 1 * w <= p
      BY <1>2, <1>3 DEF Narrow
    <3> QED  BY <2>1, <3>1
  <2>3. n * (p \div w) \in Nat
    BY <2>1, Products
  <2>4. PerSubcore = p \div w /\ BlocksPerCore = n * (p \div w)
    BY <1>2, <1>3 DEF PerSubcore, BlocksPerCore, Narrow
  <2> QED  BY <1>2, <1>3, <2>1, <2>2, <2>3, <2>4
<1>4. CASE ~Narrow
  <2>1. BlocksPerCore = n \div s
    BY <1>2, <1>4 DEF BlocksPerCore, Narrow
  <2>2. n % s = 0
    BY <1>1, <1>2, WidthsAssumption DEF WidthsAssumption, Width
  <2>3. n \div s \in Nat /\ n = (n \div s) * s + 0
    BY <2>2, Quotient
  <2>4. (n \div s) * s = s * (n \div s) /\ s * (n \div s) \in Nat
    BY <2>3
  <2> QED  BY <1>2, <1>4, <2>1, <2>3, <2>4
<1> QED  BY <1>3, <1>4
-----------------------------------------------------------------------------
(* A block that is placed has all its warps. *)

LEMMA Split ==
  ASSUME NEW n \in Nat, NEW p \in Nat \ {0}
  PROVE  \E k \in Nat, i \in 0 .. p - 1 : k = n \div p /\ i = n % p /\ n = k * p + i
<1>1. /\ n \div p \in Nat /\ n % p \in 0 .. p - 1 /\ n = (n \div p) * p + (n % p)
  BY Quotient
<1> QED  BY <1>1, Zenon

LEMMA CountedBy ==
  ASSUME NEW n \in Nat, NEW T, NEW f \in [0 .. n - 1 -> T],
         \A i, j \in 0 .. n - 1 : f[i] = f[j] => i = j,
         \A t \in T : \E i \in 0 .. n - 1 : f[i] = t
  PROVE  Cardinality(T) = n
<1>1. f \in Surjection(0 .. n - 1, T)
  BY DEF Surjection
<1>2. f \in Injection(0 .. n - 1, T)
  BY DEF Injection, IsInjective
<1>3. IsFiniteSet(0 .. n - 1) /\ Cardinality(0 .. n - 1) = n
  BY FS_Interval
<1> QED  BY <1>1, <1>2, <1>3, FS_Surjection

\* ws are the warps of a whole block.
Whole(ws) ==
    /\ Cardinality(ws) = Width
    /\ Width <= warp_per_subcore => {w.id : w \in ws} = 0 .. Width - 1
    /\ \A w \in ws : w.block = placed

LEMMA NarrowWhole == ASSUME IInv PROVE Whole(NarrowWarps)
<1>1. PICK n \in Nat, b \in Nat : n = Width /\ b = blockIndex * Width
  BY Numbers
<1> DEFINE f == [i \in 0 .. n - 1 |-> WarpAt(at.subcore, b + i, i)]
<1>2. NarrowWarps = {WarpAt(at.subcore, b + i, i) : i \in 0 .. n - 1}
  BY <1>1 DEF NarrowWarps
<1>3. \A i : /\ WarpAt(at.subcore, b + i, i).id = i
             /\ WarpAt(at.subcore, b + i, i).block = placed
  BY DEF WarpAt
<1>4. f \in [0 .. n - 1 -> NarrowWarps]
  BY <1>2
<1>5. \A i, j \in 0 .. n - 1 : f[i] = f[j] => i = j
  BY <1>3
<1>6. \A t \in NarrowWarps : \E i \in 0 .. n - 1 : f[i] = t
  BY <1>2
<1>7. Cardinality(NarrowWarps) = n
  <2> HIDE DEF f
  <2> QED  BY <1>4, <1>5, <1>6, CountedBy
<1>8. {w.id : w \in NarrowWarps} = 0 .. n - 1
  BY <1>2, <1>3
<1> QED  BY <1>1, <1>2, <1>3, <1>7, <1>8 DEF Whole

\* A wide block begins where so many subcores are left as it needs: it takes just these.
LEMMA WideFits ==
  ASSUME IInv, pc = "subcore", ~Narrow, NEW j \in Nat, Given(j)
  PROVE  /\ j + 1 <= BlocksPerCore
         /\ WideSubcores = 0 .. SubcoresOf(Width) - 1
         /\ at.subcore + SubcoresOf(Width) = SubcoresOf(Width) * (j + 1)
         /\ at.subcore + SubcoresOf(Width) <= subcore_per_core
         /\ Width <= (subcore_per_core - at.subcore) * warp_per_subcore
         /\ Max({at.subcore + k : k \in WideSubcores}) = at.subcore + SubcoresOf(Width) - 1
<1>1. /\ Width \in Nat \ {0} /\ SubcoresOf(Width) \in Nat \ {0} /\ BlocksPerCore \in Nat
      /\ subcore_per_core = SubcoresOf(Width) * BlocksPerCore
      /\ Width <= SubcoresOf(Width) * warp_per_subcore
      /\ \A k \in Nat : k * warp_per_subcore < Width <=> k < SubcoresOf(Width)
      /\ at.subcore = SubcoresOf(Width) * j
      /\ at.subcore \in Nat /\ at.subcore < subcore_per_core
  BY Shares, RoundedUp, Numbers DEF Given, IInv, LoopInv
<1>2. PICK w \in Nat \ {0}, s \in Nat \ {0}, m \in Nat, p \in Nat \ {0}, n \in Nat, a \in Nat :
         /\ w = Width /\ s = SubcoresOf(Width) /\ m = BlocksPerCore /\ p = warp_per_subcore
         /\ n = subcore_per_core /\ a = at.subcore
  BY <1>1, Soc
<1>3. /\ n = s * m /\ a = s * j /\ a < n /\ w <= s * p
      /\ \A k \in Nat : k * p < w <=> k < s
  BY <1>1, <1>2
<1>4. j + 1 <= m
  <2>1. SUFFICES ASSUME m <= j PROVE FALSE
    OBVIOUS
  <2>2. m * s <= j * s /\ m * s = s * m /\ j * s = s * j /\ m * s \in Nat /\ j * s \in Nat
    BY <2>1, ProductsGrow, Products
  <2> QED  BY <1>3, <2>2
<1>5. s * (j + 1) = a + s
  BY <1>3
<1>6. a + s <= n
  <2>1. (j + 1) * s <= m * s /\ m * s = s * m /\ (j + 1) * s = s * (j + 1)
    BY <1>4, ProductsGrow
  <2> QED  BY <1>3, <1>5, <2>1
<1>7. w <= (n - a) * p
  <2>1. s * p <= (n - a) * p /\ s * p \in Nat /\ (n - a) * p \in Nat
    <3>1. n - a \in Nat /\ s <= n - a
      BY <1>6
    <3> QED  BY <3>1, ProductsGrow, Products
  <2> QED  BY <1>3, <2>1
<1>8. WideSubcores = 0 .. s - 1
  <2>1. \A k \in 0 .. w : k * p < w /\ a + k < n => k \in 0 .. s - 1
    BY <1>3
  <2>2. \A k \in 0 .. s - 1 : k \in 0 .. w /\ k * p < w /\ a + k < n
    <3> TAKE k \in 0 .. s - 1
    <3>1. k * p < w /\ a + k < n
      BY <1>3, <1>6
    <3>2. k <= k * p /\ k * p \in Nat
      BY NotFewer, Products
    <3> QED  BY <3>1, <3>2
  <2>3. WideSubcores = {k \in 0 .. w : k * p < w /\ a + k < n}
    BY <1>2 DEF WideSubcores
  <2> QED  BY <2>1, <2>2, <2>3
<1>9. Max({at.subcore + k : k \in WideSubcores}) = a + s - 1
  <2> DEFINE S == {a + k : k \in 0 .. s - 1}
  <2>1. a + s - 1 \in S
    <3>1. s - 1 \in 0 .. s - 1 /\ a + s - 1 = a + (s - 1)
      OBVIOUS
    <3> QED  BY <3>1
  <2>2. \A x \in S : x \in Nat /\ a + s - 1 >= x
    OBVIOUS
  <2>3. Max(S) = a + s - 1
    <3> HIDE DEF S
    <3> QED  BY <2>1, <2>2 DEF Max
  <2> QED  BY <1>2, <1>8, <2>3
<1> QED  BY <1>2, <1>4, <1>5, <1>6, <1>7, <1>8, <1>9

LEMMA WideWhole ==
  ASSUME IInv, pc = "subcore", ~Narrow, NEW j \in Nat, Given(j)
  PROVE  Whole(WideWarps)
<1>1. /\ Width \in Nat \ {0} /\ SubcoresOf(Width) \in Nat \ {0}
      /\ \A k \in Nat : k * warp_per_subcore < Width <=> k < SubcoresOf(Width)
      /\ WideSubcores = 0 .. SubcoresOf(Width) - 1
      /\ at.subcore \in Nat
  BY Shares, RoundedUp, Numbers, WideFits
<1>2. PICK w \in Nat \ {0}, s \in Nat \ {0}, p \in Nat \ {0}, a \in Nat :
         /\ w = Width /\ s = SubcoresOf(Width) /\ p = warp_per_subcore /\ a = at.subcore
  BY <1>1, Soc
<1>3. WideSubcores = 0 .. s - 1 /\ \A k \in Nat : k * p < w <=> k < s
  BY <1>1, <1>2
<1> DEFINE W(k, i) == WarpAt(a + k, i, i)
           f == [n \in 0 .. w - 1 |-> W(n \div p, n % p)]
<1>4. \A t : t \in WideWarps <=> \E k \in 0 .. s - 1, i \in 0 .. p - 1 :
                                    k * p + i < w /\ t = W(k, i)
  <2>1. ASSUME NEW k \in 0 .. s - 1
        PROVE  0 .. Min({p, w - k * p}) - 1 = {i \in 0 .. p - 1 : k * p + i < w}
    <3>1. PICK q \in Nat : q = k * p
      BY Products
    <3>2. Min({p, w - q}) = Least(p, w - q)
      BY MinIsLeast
    <3>3. 0 .. Least(p, w - q) - 1 = {i \in 0 .. p - 1 : q + i < w}
      BY DEF Least
    <3> QED  BY <3>1, <3>2, <3>3
  <2>2. WideWarps = UNION {{W(k, i) : i \in 0 .. Min({p, w - k * p}) - 1} : k \in 0 .. s - 1}
    BY <1>2, <1>3 DEF WideWarps
  <2> DEFINE I(k) == 0 .. Min({p, w - k * p}) - 1
  <2>3. \A t : t \in WideWarps <=> \E k \in 0 .. s - 1 : \E i \in I(k) : t = W(k, i)
    <3> HIDE DEF I, W
    <3>1. WideWarps = UNION {{W(k, i) : i \in I(k)} : k \in 0 .. s - 1}
      BY <2>2 DEF I
    <3> QED  BY <3>1
  <2>4. \A k \in 0 .. s - 1 : I(k) = {i \in 0 .. p - 1 : k * p + i < w}
    BY <2>1
  <2> HIDE DEF I, W
  <2> QED  BY <2>3, <2>4
<1>5. \A k, i, l, h : W(k, i) = W(l, h) => a + k = a + l /\ i = h
  <2>1. \A k, i : W(k, i).subcore = a + k /\ W(k, i).slot = i
    BY DEF WarpAt
  <2> HIDE DEF W
  <2> QED  BY <2>1
<1>6. \A n \in 0 .. w - 1 : \E k \in 0 .. s - 1, i \in 0 .. p - 1 :
         k = n \div p /\ i = n % p /\ n = k * p + i
  <2> TAKE n \in 0 .. w - 1
  <2>n. n \in Nat /\ n < w
    OBVIOUS
  <2>1. PICK k \in Nat, i \in 0 .. p - 1 : k = n \div p /\ i = n % p /\ n = k * p + i
    BY <2>n, Split
  <2>2. k * p < w
    <3>1. PICK q \in Nat : q = k * p
      BY Products
    <3> QED  BY <2>n, <2>1, <3>1
  <2>3. k \in 0 .. s - 1
    BY <1>3, <2>2
  <2> QED  BY <2>1, <2>3
<1>7. f \in [0 .. w - 1 -> WideWarps]
  <2>1. \A n \in 0 .. w - 1 : W(n \div p, n % p) \in WideWarps
    <3> HIDE DEF W
    <3> TAKE n \in 0 .. w - 1
    <3>1. PICK k \in 0 .. s - 1, i \in 0 .. p - 1 :
             k = n \div p /\ i = n % p /\ n = k * p + i
      BY <1>6
    <3> QED  BY <1>4, <3>1
  <2> HIDE DEF W
  <2> QED  BY <2>1
<1>8. \A n, m \in 0 .. w - 1 : f[n] = f[m] => n = m
  <2> TAKE n, m \in 0 .. w - 1
  <2> HAVE f[n] = f[m]
  <2>1. W(n \div p, n % p) = W(m \div p, m % p)
    <3> HIDE DEF W
    <3> QED  OBVIOUS
  <2>2. a + (n \div p) = a + (m \div p) /\ n % p = m % p
    <3> HIDE DEF W
    <3> QED  BY <1>5, <2>1
  <2>3. PICK k \in 0 .. s - 1, i \in 0 .. p - 1 : k = n \div p /\ i = n % p /\ n = k * p + i
    BY <1>6
  <2>4. PICK l \in 0 .. s - 1, h \in 0 .. p - 1 : l = m \div p /\ h = m % p /\ m = l * p + h
    BY <1>6
  <2>5. k = l /\ i = h
    <3>1. a + k = a + l /\ i = h
      BY <2>2, <2>3, <2>4, Zenon
    <3> QED  BY <3>1
  <2> QED  BY <2>3, <2>4, <2>5
<1>9. \A t \in WideWarps : \E n \in 0 .. w - 1 : f[n] = t
  <2> TAKE t \in WideWarps
  <2>1. PICK k \in 0 .. s - 1, i \in 0 .. p - 1 : k * p + i < w /\ t = W(k, i)
    <3> HIDE DEF W, f
    <3> QED  BY <1>4
  <2>2. PICK n \in Nat : n = k * p + i /\ n \in 0 .. w - 1
    <3>1. k * p \in Nat
      BY Products
    <3> QED  BY <2>1, <3>1
  <2>3. n \div p = k /\ n % p = i
    <3>1. PICK q \in 0 .. s - 1, r \in 0 .. p - 1 : q = n \div p /\ r = n % p /\ n = q * p + r
      BY <1>6, <2>2
    <3>2. i + p * k = r + p * q
      BY <2>2, <3>1
    <3>3. i = r /\ k = q
      BY <3>2, PairApart
    <3> QED  BY <3>1, <3>3
  <2>4. f[n] = t
    <3> HIDE DEF W
    <3> QED  BY <2>1, <2>2, <2>3
  <2> QED  BY <2>2, <2>4
<1>10. Cardinality(WideWarps) = w
  <2> HIDE DEF f
  <2> QED  BY <1>7, <1>8, <1>9, CountedBy
<1>11. \A t \in WideWarps : t.block = placed
  BY <1>4 DEF WarpAt
<1>12. ~(Width <= warp_per_subcore)
  BY DEF Narrow
<1> QED  BY <1>2, <1>10, <1>11, <1>12 DEF Whole
-----------------------------------------------------------------------------
(* The count of the blocks placed, step by step. *)

\* A call does not change what a subcore, a core and a cluster hold.
LEMMA SharesStay ==
  ASSUME param' = param
  PROVE  /\ Width' = Width /\ Narrow' = Narrow /\ PerSubcore' = PerSubcore
         /\ SubcoresOf(Width)' = SubcoresOf(Width) /\ BlocksPerCore' = BlocksPerCore
         /\ PerCluster' = PerCluster
<1>1. Width' = Width
  BY DEF Width
<1>2. /\ Narrow' = Narrow /\ PerSubcore' = PerSubcore /\ SubcoresOf(Width)' = SubcoresOf(Width)
  BY <1>1 DEF Narrow, PerSubcore
<1>3. BlocksPerCore' = BlocksPerCore
  BY <1>1 DEF BlocksPerCore
<1> QED  BY <1>1, <1>2, <1>3 DEF PerCluster

LEMMA ClusterShare ==
  ASSUME IInv
  PROVE  /\ PerCluster \in Nat /\ at.cluster * PerCluster \in Nat
         /\ at.core * BlocksPerCore \in Nat /\ core_per_cluster * BlocksPerCore \in Nat
         /\ n_blocks \in Nat /\ quota \in 0 .. cta_num /\ placed \in Nat
<1>1. BlocksPerCore \in Nat /\ at.cluster \in Nat /\ at.core \in Nat
  BY Shares, Numbers
<1>2. core_per_cluster * BlocksPerCore \in Nat
  BY <1>1, Soc, Products
<1>3. PerCluster \in Nat
  BY <1>2, Soc DEF PerCluster, Least
<1> QED  BY <1>1, <1>2, <1>3, Products, Soc DEF IInv, TypeOK, LoopInv

\* Share counts one block more.
LEMMA OneMore ==
  ASSUME IInv, NEW j \in Nat, Share(j), quota < cta_num, param' = param,
         quota' = quota + 1, placed' = placed + 1,
         at'.cluster = at.cluster, at'.core = at.core
  PROVE  Share(j + 1)'
<1>1. PICK x \in Nat, y \in Nat : x = at.core * BlocksPerCore /\ y = at.cluster * PerCluster
  BY ClusterShare
<1>2. quota = Least(cta_num, x + j) /\ placed = y + quota
  BY <1>1 DEF Share
<1>3. quota + 1 = Least(cta_num, x + (j + 1)) /\ placed + 1 = y + (quota + 1)
  BY <1>2, ClusterShare, Soc DEF Least
<1>4. /\ BlocksPerCore' = BlocksPerCore /\ PerCluster' = PerCluster
  BY SharesStay
<1> QED  BY <1>1, <1>3, <1>4 DEF Share

LEMMA SpreadNarrow == ASSUME IInv, SpreadInv, PlaceNarrow PROVE SpreadInv'
<1> USE DEF PlaceNarrow, Running, Place
<1>1. PICK j \in Nat : Given(j) /\ Share(j)
  BY DEF SpreadInv
<1>2. /\ Narrow /\ PerSubcore \in Nat \ {0} /\ BlocksPerCore = subcore_per_core * PerSubcore
      /\ \A i \in Nat : i * Width <= warp_per_subcore <=> i <= PerSubcore
      /\ blockIndex \in Nat /\ at.subcore \in Nat /\ at.subcore < subcore_per_core
      /\ (blockIndex + 1) * Width = blockIndex * Width + Width
      /\ blockIndex * Width \in Nat /\ Width \in Nat
      /\ n_blocks \in Nat /\ n_blocks > 0
  BY Shares, Numbers, Soc DEF Narrow, IInv, LoopInv, TypeOK
<1>3. blockIndex + 1 <= PerSubcore
  <2>1. (blockIndex + 1) * Width <= warp_per_subcore
    BY <1>2, Soc DEF HasRoom
  <2>2. blockIndex + 1 \in Nat
    BY <1>2
  <2> QED  BY <1>2, <2>1, <2>2
<1>4. Share(j + 1)'
  BY <1>1, OneMore
<1>5. Given(j + 1)'
  <2>1. PICK b \in Nat, n \in Nat, a \in Nat :
           b = PerSubcore /\ n = subcore_per_core /\ a = at.subcore /\ a < n
    BY <1>2, Soc
  <2>2. PICK ab \in Nat, nb \in Nat : ab = a * b /\ nb = n * b
    BY Products
  <2>3. ab + b <= nb
    <3>1. (a + 1) * b <= n * b /\ (a + 1) * b = a * b + b
      BY <2>1, ProductsGrow
    <3> QED  BY <2>2, <3>1
  <2>4. j = ab + blockIndex
    BY <1>1, <1>2, <2>1, <2>2 DEF Given
  <2>5. j + 1 \in 0 .. nb /\ j + 1 = ab + (blockIndex + 1)
    BY <1>2, <1>3, <2>1, <2>3, <2>4
  <2>6. j + 1 \in 0 .. BlocksPerCore /\ j + 1 = at.subcore * PerSubcore + (blockIndex + 1)
    BY <1>2, <2>1, <2>2, <2>5
  <2>7. /\ BlocksPerCore' = BlocksPerCore /\ Narrow' = Narrow /\ PerSubcore' = PerSubcore
    BY SharesStay
  <2> QED  BY <1>2, <2>6, <2>7 DEF Given
<1>6. j + 1 \in Nat
  OBVIOUS
<1> QED  BY <1>2, <1>4, <1>5, <1>6 DEF SpreadInv

LEMMA SpreadFull == ASSUME IInv, SpreadInv, SubcoreFull PROVE SpreadInv'
<1> USE DEF SubcoreFull, Running
<1>1. PICK j \in Nat : Given(j) /\ Share(j)
  BY DEF SpreadInv
<1>2. /\ Narrow /\ PerSubcore \in Nat \ {0} /\ BlocksPerCore = subcore_per_core * PerSubcore
      /\ \A i \in Nat : i * Width <= warp_per_subcore <=> i <= PerSubcore
      /\ blockIndex \in Nat /\ at.subcore \in Nat /\ at.subcore < subcore_per_core
      /\ (blockIndex + 1) * Width = blockIndex * Width + Width
      /\ blockIndex * Width \in Nat /\ Width \in Nat
      /\ blockIndex * Width <= warp_per_subcore
  BY Shares, Numbers, Soc DEF Narrow, IInv, LoopInv
<1>3. PICK b \in Nat, n \in Nat, a \in Nat, i \in Nat :
         b = PerSubcore /\ n = subcore_per_core /\ a = at.subcore /\ a < n /\ i = blockIndex
  BY <1>2, Soc
<1>4. i <= b
  BY <1>2, <1>3
<1>5. PICK ab \in Nat, nb \in Nat, k \in Nat :
         ab = a * b /\ nb = n * b /\ k = ab + b /\ k = (a + 1) * b /\ k <= nb
  <2>1. (a + 1) * b <= n * b /\ (a + 1) * b = a * b + b /\ a * b \in Nat /\ n * b \in Nat
    BY <1>3, ProductsGrow, Products
  <2> QED  BY <2>1
<1>6. j = ab + i
  BY <1>1, <1>2, <1>3, <1>5 DEF Given
<1>7. i = b \/ quota >= cta_num
  <2>1. SUFFICES ASSUME ~HasRoom PROVE i = b
    BY ClusterShare, Soc
  <2>2. ~((blockIndex + 1) * Width <= warp_per_subcore)
    BY <1>2, <2>1, Soc DEF HasRoom
  <2>3. ~(i + 1 <= b)
    <3>1. blockIndex + 1 \in Nat
      BY <1>2
    <3> QED  BY <1>2, <1>3, <2>2, <3>1
  <2> QED  BY <1>4, <2>3
<1>8. GivenNext(k)'
  <2>1. /\ BlocksPerCore' = BlocksPerCore /\ Narrow' = Narrow /\ PerSubcore' = PerSubcore
    BY SharesStay
  <2>2. k \in 0 .. BlocksPerCore /\ k = (at.subcore + 1) * PerSubcore
    BY <1>2, <1>3, <1>5
  <2> QED  BY <1>2, <2>1, <2>2 DEF GivenNext
<1>9. Share(k)'
  <2>1. PICK x \in Nat : x = at.core * BlocksPerCore
    BY ClusterShare
  <2>2. quota = Least(cta_num, x + j)
    BY <1>1, <2>1 DEF Share
  <2>3. quota = Least(cta_num, x + k)
    BY <1>4, <1>5, <1>6, <1>7, <2>2, Soc, ClusterShare DEF Least
  <2>4. /\ BlocksPerCore' = BlocksPerCore /\ PerCluster' = PerCluster
    BY SharesStay
  <2> QED  BY <1>1, <2>1, <2>3, <2>4 DEF Share
<1> QED  BY <1>8, <1>9 DEF SpreadInv

LEMMA SpreadWide == ASSUME IInv, SpreadInv, PlaceWide PROVE SpreadInv'
<1> USE DEF PlaceWide, Running, Place
<1>1. PICK j \in Nat : Given(j) /\ Share(j)
  BY DEF SpreadInv
<1>2. /\ ~Narrow /\ quota < cta_num /\ n_blocks \in Nat /\ at \in PlaceType
      /\ at.subcore \in Nat /\ subcore_per_core \in Nat
  BY Numbers, Soc, ClusterShare DEF Narrow, IInv, LoopInv
<1>3. PICK s \in Nat \ {0} : s = SubcoresOf(Width)
  BY Shares
<1>4. /\ j + 1 <= BlocksPerCore /\ BlocksPerCore \in Nat
      /\ at.subcore + s = s * (j + 1) /\ at.subcore + s <= subcore_per_core
      /\ Width <= (subcore_per_core - at.subcore) * warp_per_subcore
      /\ Max({at.subcore + k : k \in WideSubcores}) = at.subcore + s - 1
  BY <1>1, <1>2, <1>3, WideFits, Shares
<1>5. PICK m \in 0 .. subcore_per_core : m = at.subcore + s - 1 /\ m + 1 = at.subcore + s
                                        /\ m < subcore_per_core
  BY <1>2, <1>4
<1>6. at' = [at EXCEPT !.subcore = m]
  <2> DEFINE fits == Width <= (subcore_per_core - at.subcore) * warp_per_subcore
  <2>1. at' = [at EXCEPT !.subcore = IF fits THEN Max({at.subcore + k : k \in WideSubcores})
                                             ELSE subcore_per_core]
    OBVIOUS
  <2>2. fits
    BY <1>4
  <2> HIDE DEF fits
  <2> QED  BY <1>4, <1>5, <2>1, <2>2
<1>7. at'.cluster = at.cluster /\ at'.core = at.core /\ at'.subcore = m
  <2>1. at' = [cluster |-> at.cluster, core |-> at.core, subcore |-> m]
    BY <1>2, <1>6, PlaceSet
  <2> QED  BY <2>1
<1>8. Share(j + 1)'
  BY <1>1, <1>2, <1>7, OneMore
<1>9. GivenNext(j + 1)'
  <2>1. /\ BlocksPerCore' = BlocksPerCore /\ Narrow' = Narrow
        /\ SubcoresOf(Width)' = SubcoresOf(Width)
    BY SharesStay
  <2>2. j + 1 \in 0 .. BlocksPerCore /\ m + 1 = SubcoresOf(Width) * (j + 1)
    BY <1>3, <1>4, <1>5
  <2> QED  BY <1>2, <1>5, <1>7, <2>1, <2>2 DEF GivenNext
<1>10. j + 1 \in Nat
  OBVIOUS
<1> QED  BY <1>8, <1>9, <1>10 DEF SpreadInv

LEMMA NothingGiven ==
  ASSUME IInv
  PROVE  /\ 0 \in 0 .. BlocksPerCore
         /\ Narrow => 0 = 0 * PerSubcore + 0
         /\ ~Narrow => 0 = SubcoresOf(Width) * 0
<1>1. \A x \in Nat : x * 0 = 0 /\ 0 * x = 0 /\ 0 + 0 = 0 /\ 0 \in 0 .. x
  OBVIOUS
<1> QED  BY <1>1, Shares

\* Behind its last subcore a core has given all its places.
LEMMA CoreFull ==
  ASSUME IInv, NEW j \in Nat, GivenNext(j), at.subcore + 1 = subcore_per_core
  PROVE  j = BlocksPerCore
<1>1. CASE Narrow
  <2>1. j = subcore_per_core * PerSubcore
    BY <1>1 DEF GivenNext
  <2> QED  BY <1>1, <2>1, Shares
<1>2. CASE ~Narrow
  <2>1. PICK s \in Nat \ {0}, m \in Nat : s = SubcoresOf(Width) /\ m = BlocksPerCore
    BY Shares
  <2>2. s * j = s * m
    BY <1>2, <2>1, Shares DEF GivenNext
  <2>3. 0 + s * j = 0 + s * m
    BY <2>2
  <2> QED  BY <2>1, <2>3, PairApart
<1> QED  BY <1>1, <1>2

\* A cluster is left with its share of blocks, by the quota or behind its last subcore.
LEMMA ClusterFull ==
  ASSUME IInv, SpreadInv, pc = "next", n_blocks > 0,
         ~(GoesOn /\ at.subcore + 1 < subcore_per_core),
         ~(GoesOn /\ at.core + 1 < core_per_cluster)
  PROVE  placed = (at.cluster + 1) * PerCluster
<1>1. PICK j \in Nat : GivenNext(j) /\ Share(j)
  BY DEF SpreadInv
<1>2. PICK c \in Nat, f \in Nat \ {0}, m \in Nat, t \in Nat \ {0} :
         c = at.core /\ f = core_per_cluster /\ m = BlocksPerCore /\ t = cta_num /\ c + 1 <= f
  <2>1. at.core \in 0 .. core_per_cluster - 1
    BY DEF IInv, TypeOK
  <2> QED  BY <2>1, Soc, Shares, Numbers
<1>3. PICK cm \in Nat, fm \in Nat : cm = c * m /\ fm = f * m /\ cm + m <= fm
                                   /\ (c + 1 = f => cm + m = fm)
  <2>1. (c + 1) * m <= f * m /\ (c + 1) * m = c * m + m /\ c * m \in Nat /\ f * m \in Nat
    BY <1>2, ProductsGrow, Products
  <2> QED  BY <2>1
<1>4. j <= m /\ quota = Least(t, cm + j)
  BY <1>1, <1>2, <1>3 DEF GivenNext, Share
<1>5. ASSUME GoesOn PROVE quota = Least(t, fm)
  <2>1. c + 1 = f /\ at.subcore + 1 = subcore_per_core
    <3>1. at.subcore < subcore_per_core
      BY <1>1 DEF GivenNext
    <3>2. ~(c + 1 < f) /\ ~(at.subcore + 1 < subcore_per_core)
      BY <1>2, <1>5, Zenon
    <3>3. at.subcore \in Nat /\ subcore_per_core \in Nat
      BY Soc, Numbers
    <3> QED  BY <1>2, <3>1, <3>2, <3>3
  <2>2. j = m
    BY <1>1, <1>2, <2>1, CoreFull
  <2> QED  BY <1>3, <1>4, <2>1, <2>2
<1>6. ASSUME ~GoesOn PROVE quota = Least(t, fm)
  <2>1. quota = t
    <3>1. ~(quota < t)
      BY <1>2, <1>6 DEF GoesOn
    <3>2. quota \in 0 .. t
      BY <1>2, ClusterShare
    <3> QED  BY <3>1, <3>2
  <2> QED  BY <1>3, <1>4, <2>1 DEF Least
<1>7. quota = PerCluster
  BY <1>2, <1>3, <1>5, <1>6 DEF PerCluster
<1>8. (at.cluster + 1) * PerCluster = at.cluster * PerCluster + PerCluster
  BY ClusterShare, Numbers
<1> QED  BY <1>1, <1>7, <1>8 DEF Share

LEMMA SpreadMove == ASSUME IInv, SpreadInv, MoveOn PROVE SpreadInv'
<1> USE DEF MoveOn, Running
<1>1. PICK j \in Nat : GivenNext(j) /\ Share(j)
  BY DEF SpreadInv
<1>2. /\ BlocksPerCore' = BlocksPerCore /\ PerCluster' = PerCluster /\ Narrow' = Narrow
      /\ PerSubcore' = PerSubcore /\ SubcoresOf(Width)' = SubcoresOf(Width)
  BY SharesStay
<1>3. /\ at.cluster \in Nat /\ at.core \in Nat /\ at.subcore \in Nat /\ at \in PlaceType
      /\ at.subcore < subcore_per_core /\ subcore_per_core \in Nat
  BY <1>1, Numbers, Soc DEF IInv, LoopInv, GivenNext
<1>4. CASE GoesOn /\ at.subcore + 1 < subcore_per_core
  <2>1. at' = [at EXCEPT !.subcore = at.subcore + 1] /\ blockIndex' = 0
    BY <1>4 DEF NextPlace
  <2>2. at.subcore + 1 \in 0 .. subcore_per_core
    BY <1>3, <1>4
  <2>3. at' = [cluster |-> at.cluster, core |-> at.core, subcore |-> at.subcore + 1]
    BY <1>3, <2>1, <2>2, PlaceSet
  <2>4. at'.cluster = at.cluster /\ at'.core = at.core /\ at'.subcore = at.subcore + 1
    BY <2>3
  <2>5. quota' = quota /\ placed' = placed
    BY <2>4 DEF NextQuota
  <2>6. Share(j)'
    BY <1>1, <1>2, <2>4, <2>5 DEF Share
  <2>7. Given(j)'
    BY <1>1, <1>2, <2>1, <2>4 DEF Given, GivenNext
  <2> QED  BY <2>6, <2>7 DEF SpreadInv
<1>5. CASE /\ ~(GoesOn /\ at.subcore + 1 < subcore_per_core)
           /\ GoesOn /\ at.core + 1 < core_per_cluster
  <2>1. /\ at' = [cluster |-> at.cluster, core |-> at.core + 1, subcore |-> 0]
        /\ blockIndex' = 0 /\ placed' = placed
    BY <1>5, Zenon DEF NextPlace
  <2>2. at'.cluster = at.cluster /\ at'.core = at.core + 1 /\ at'.subcore = 0
    BY <2>1
  <2>3. quota' = quota
    BY <2>2 DEF NextQuota
  <2>4. at.subcore + 1 = subcore_per_core
    BY <1>3, <1>5
  <2>5. j = BlocksPerCore
    BY <1>1, <2>4, CoreFull
  <2>6. (at.core + 1) * BlocksPerCore + 0 = at.core * BlocksPerCore + j
    <3>1. PICK m \in Nat, c \in Nat : m = BlocksPerCore /\ c = at.core
      BY <1>3, Shares
    <3>2. (c + 1) * m + 0 = c * m + m
      OBVIOUS
    <3> QED  BY <2>5, <3>1, <3>2
  <2>7. Share(0)'
    BY <1>1, <1>2, <2>1, <2>2, <2>3, <2>6 DEF Share
  <2>8. Given(0)'
    BY <1>2, <2>1, <2>2, NothingGiven DEF Given
  <2> QED  BY <2>7, <2>8 DEF SpreadInv
<1>6. CASE /\ ~(GoesOn /\ at.subcore + 1 < subcore_per_core)
           /\ ~(GoesOn /\ at.core + 1 < core_per_cluster)
  <2>1. /\ at' = [cluster |-> at.cluster + 1, core |-> 0, subcore |-> 0]
        /\ blockIndex' = 0 /\ placed' = placed
    BY <1>6, Zenon DEF NextPlace
  <2>2. at'.cluster = at.cluster + 1 /\ at'.core = 0 /\ at'.subcore = 0
    BY <2>1
  <2>3. quota' = 0
    BY <1>3, <2>2 DEF NextQuota
  <2>4. placed' = (at.cluster + 1) * PerCluster
    BY <1>6, <2>1, ClusterFull
  <2>5. Share(0)'
    <3>1. PICK m \in Nat, x \in Nat : m = BlocksPerCore /\ x = (at.cluster + 1) * PerCluster
      <4>1. at.cluster + 1 \in Nat
        BY <1>3
      <4> QED  BY <4>1, Shares, ClusterShare, Products
    <3>2. 0 * m = 0 /\ 0 = Least(cta_num, 0 + 0) /\ x = x + 0
      BY Soc DEF Least
    <3> QED  BY <1>2, <2>2, <2>3, <2>4, <3>1, <3>2 DEF Share
  <2>6. Given(0)'
    BY <1>2, <2>1, <2>2, NothingGiven DEF Given
  <2> QED  BY <2>5, <2>6 DEF SpreadInv
<1> QED  BY <1>4, <1>5, <1>6

LEMMA SpreadBegins ==
  ASSUME IInv, pc = "start", placed = 0
  PROVE  Given(0) /\ Share(0)
<1>1. at.cluster = 0 /\ at.core = 0 /\ at.subcore = 0 /\ blockIndex = 0 /\ quota = 0
  BY DEF IInv, LoopInv, FirstSubcore
<1>2. PICK m \in Nat, c \in Nat : m = BlocksPerCore /\ c = PerCluster
  BY Shares, ClusterShare
<1>3. 0 * m = 0 /\ 0 * c = 0 /\ 0 = Least(cta_num, 0 + 0)
  BY Soc DEF Least
<1>4. Share(0)
  BY <1>1, <1>2, <1>3 DEF Share
<1>5. Given(0)
  BY <1>1, NothingGiven DEF Given
<1> QED  BY <1>4, <1>5

LEMMA SpreadStep == ASSUME IInv, SpreadInv, [Next]_vars PROVE SpreadInv'
<1>s. ASSUME UNCHANGED <<param, n_blocks, at, blockIndex, quota, placed>>,
             \/ pc' = pc
             \/ pc' = "return"
             \/ pc = "start" /\ pc' = "subcore"
             \/ pc = "start" /\ pc' = "reuse"
      PROVE  SpreadInv'
  <2>1. \A j : Given(j)' = Given(j) /\ GivenNext(j)' = GivenNext(j) /\ Share(j)' = Share(j)
    BY <1>s, SharesStay DEF Given, GivenNext, Share
  <2>2. PerCluster' = PerCluster
    BY <1>s, SharesStay
  <2>3. pc = "start" => placed = 0 /\ Given(0) /\ Share(0)
    BY SpreadBegins DEF SpreadInv
  <2>4. 0 \in Nat
    OBVIOUS
  <2> QED  BY <1>s, <2>1, <2>2, <2>3, <2>4 DEF SpreadInv
<1>1. CASE BackdoorRefused \/ BackdoorRuns \/ NothingToDo \/ Start \/ PlacementReturns
           \/ UseDeadBlock \/ UNCHANGED vars
  <2>1. UNCHANGED <<param, n_blocks, at, blockIndex, quota, placed>>
    BY <1>1 DEF BackdoorRefused, BackdoorRuns, NothingToDo, Start, PlacementReturns,
                UseDeadBlock, vars
  <2>2. \/ pc' = pc \/ pc' = "return"
        \/ pc = "start" /\ pc' = "subcore"
        \/ pc = "start" /\ pc' = "reuse"
    BY <1>1 DEF BackdoorRefused, BackdoorRuns, NothingToDo, Start, PlacementReturns,
                UseDeadBlock, vars, Running
  <2> QED  BY <1>s, <2>1, <2>2
<1>2. CASE EnterReuse
  <2>1. /\ pc = "next" /\ n_blocks > 0 /\ NextPlace.cluster >= cluster_num /\ pc' = "reuse"
        /\ UNCHANGED <<param, placed>>
    BY <1>2 DEF EnterReuse, Running
  <2>2. at.cluster \in 0 .. cluster_num - 1 /\ cluster_num \in Nat
    BY Soc DEF IInv, TypeOK
  <2>3. NextPlace.cluster # at.cluster
    BY <2>1, <2>2
  <2>4. /\ ~(GoesOn /\ at.subcore + 1 < subcore_per_core)
        /\ ~(GoesOn /\ at.core + 1 < core_per_cluster)
    <3>1. [at EXCEPT !.subcore = @ + 1].cluster = at.cluster
      BY DEF IInv, LoopInv, PlaceType
    <3> QED  BY <2>3, <3>1 DEF NextPlace
  <2>5. NextPlace.cluster = at.cluster + 1
    BY <2>4, Zenon DEF NextPlace
  <2>6. at.cluster + 1 = cluster_num
    BY <2>1, <2>2, <2>5
  <2>7. placed = cluster_num * PerCluster
    BY <2>1, <2>4, <2>6, ClusterFull
  <2> QED  BY <2>1, <2>7, SharesStay DEF SpreadInv
<1>3. CASE CallAgain
  BY <1>3 DEF CallAgain, SpreadInv
<1> QED  BY <1>1, <1>2, <1>3, SpreadNarrow, SpreadFull, SpreadWide, SpreadMove
         DEF Next, ReuseSleeps, Over

\* A kernel that the SoC cannot hold fills it: when the placement ends with blocks left, every
\* cluster has its quota or as many blocks as its subcores hold (the bounds of the loops from
\* line 104 to 196), in a SoC of any size and for every width that divides a core.
THEOREM ReuseWhenFull == Spec => []FullBeforeReuse
<1>1. Init => SpreadInv
  BY DEF Init, SpreadInv
<1>2. IInv /\ SpreadInv => FullBeforeReuse
  <2> SUFFICES ASSUME IInv, SpreadInv PROVE FullBeforeReuse
    OBVIOUS
  <2>1. core_per_cluster * BlocksPerCore \in Nat
    BY ClusterShare
  <2>2. Min({cta_num, core_per_cluster * BlocksPerCore}) = PerCluster
    BY <2>1, MinIsLeast, Soc DEF PerCluster
  <2> QED  BY <2>2 DEF SpreadInv, FullBeforeReuse
<1> QED  BY <1>1, <1>2, InitInv, NextInv, SpreadStep, PTL DEF Spec
-----------------------------------------------------------------------------
(* No block loses a warp. *)

WholeInv ==
    /\ pc \in {"subcore", "next"} => \A w \in warps : w.block < placed
    /\ WholeBlocks

\* A block is placed with all its warps, and changes none of the others.
LEMMA PlacedWhole ==
  ASSUME IInv, WholeInv, NEW STATE ws, Place(ws), Whole(ws), pc = "subcore", param' = param
  PROVE  WholeInv'
<1>1. /\ warps' = warps \cup ws /\ placed' = placed + 1 /\ placed \in Nat /\ Width' = Width
      /\ \A w \in ws : w.block = placed
      /\ \A w \in warps : w.block < placed /\ w.block \in Nat
  BY DEF Place, Whole, WholeInv, Width, IInv, LoopInv, TypeOK, Warp
<1>2. \A w \in warps' : w.block < placed'
  BY <1>1
<1>3. ASSUME NEW b \in 0 .. placed' - 1
      PROVE  /\ Cardinality(WarpsOf(b)') = Width
             /\ Width <= warp_per_subcore => {w.id : w \in WarpsOf(b)'} = 0 .. Width - 1
  <2>1. CASE b = placed
    <3>1. WarpsOf(b)' = ws
      BY <1>1, <2>1 DEF WarpsOf
    <3> QED  BY <3>1, Zenon DEF Whole
  <2>2. CASE b # placed
    <3>1. b \in 0 .. placed - 1
      BY <1>1, <2>2
    <3>2. WarpsOf(b)' = WarpsOf(b)
      BY <1>1, <2>2 DEF WarpsOf
    <3> QED  BY <3>1, <3>2, Zenon DEF WholeInv, WholeBlocks
  <2> QED  BY <2>1, <2>2
<1>4. WholeBlocks'
  BY <1>1, <1>3, Zenon DEF WholeBlocks
<1> QED  BY <1>2, <1>4 DEF WholeInv

LEMMA WholeStep == ASSUME IInv, SpreadInv, WholeInv, [Next]_vars PROVE WholeInv'
<1>s. ASSUME UNCHANGED <<param, placed, warps>>,
             pc' \notin {"subcore", "next"} \/ pc \in {"subcore", "next"} \/ warps = {}
      PROVE  WholeInv'
  BY <1>s DEF WholeInv, WholeBlocks, WarpsOf, Width
<1>1. CASE BackdoorRefused \/ NothingToDo \/ Start \/ SubcoreFull \/ MoveOn \/ PlacementReturns
           \/ EnterReuse \/ UseDeadBlock \/ UNCHANGED vars
  <2>1. UNCHANGED <<param, placed, warps>>
    BY <1>1 DEF BackdoorRefused, NothingToDo, Start, SubcoreFull, MoveOn, PlacementReturns,
                EnterReuse, UseDeadBlock, vars
  <2>2. pc' \notin {"subcore", "next"} \/ pc \in {"subcore", "next"} \/ pc = "start"
    BY <1>1 DEF BackdoorRefused, NothingToDo, Start, SubcoreFull, MoveOn, PlacementReturns,
                EnterReuse, UseDeadBlock, vars, Running
  <2>3. pc = "start" => warps = {}
    BY DEF IInv, LoopInv
  <2> QED  BY <1>s, <2>1, <2>2, <2>3
<1>2. CASE BackdoorRuns
  <2>1. placed' = 0
    BY <1>2 DEF BackdoorRuns, Running, SpreadInv
  <2>2. pc' \notin {"subcore", "next"}
    BY <1>2 DEF BackdoorRuns, Running
  <2> QED  BY <2>1, <2>2 DEF WholeInv, WholeBlocks
<1>3. CASE PlaceNarrow
  BY <1>3, NarrowWhole, PlacedWhole DEF PlaceNarrow, Running
<1>4. CASE PlaceWide
  <2>1. PICK j \in Nat : Given(j)
    BY <1>4 DEF PlaceWide, Running, SpreadInv
  <2>2. ~Narrow
    BY <1>4, Numbers, Soc DEF PlaceWide, Narrow
  <2> QED  BY <1>4, <2>1, <2>2, WideWhole, PlacedWhole DEF PlaceWide, Running
<1>5. CASE CallAgain
  BY <1>5 DEF CallAgain, WholeInv, WholeBlocks
<1> QED  BY <1>1, <1>2, <1>3, <1>4, <1>5 DEF Next, ReuseSleeps, Over

\* Each block that is placed has all its warps: a wide one finds enough subcores in its core
\* and none has gone to it in part (lines 155 to 180), and one that a subcore holds runs its
\* warps under the numbers 0 to warps_per_block - 1 (line 129).
THEOREM BlocksWhole == Spec => []WholeBlocks
<1>1. Init => SpreadInv /\ WholeInv
  BY DEF Init, SpreadInv, WholeInv, WholeBlocks
<1>2. WholeInv => WholeBlocks
  BY DEF WholeInv
<1> QED  BY <1>1, <1>2, InitInv, NextInv, SpreadStep, WholeStep, PTL DEF Spec
=============================================================================
