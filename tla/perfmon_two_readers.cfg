\* One reader, two snapshots; the hardware may be one poll slower than the
CONSTANTS
    Readers = {r1, r2}
    CacheEvents <- MC_Cache
    FabricEvents <- MC_Fabric
    Plan <- MC_Plan
    MaxTry = 1
    HwPolls = 2
    MaxSnaps = 1
SPECIFICATION Spec
INVARIANTS ReportedFaithful
