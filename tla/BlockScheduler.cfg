\* header.h with its 16 warps of a subcore scaled to 3 and its 32 blocks of a cluster to 7.
SPECIFICATION Spec
CONSTANTS
    cluster_num = 2
    core_per_cluster = 2
    subcore_per_core = 4
    warp_per_subcore = 3
    cta_num = 7
    UintSize = 60
    Kernels <- MCKernels
INVARIANTS
    TypeOK
    OneWarpPerSlot
    GridPlacedOnce
    WholeBlocks
    FullBeforeReuse
