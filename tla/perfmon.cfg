\* One reader, two snapshots; the hardware may be one poll slower than the
\* retry bound, so both the timeout and the normal path happen.
CONSTANTS
    Readers = {r1}
    CacheEvents <- MC_Cache
    FabricEvents <- MC_Fabric
    Plan <- MC_Plan
    MaxTry = 1
    HwPolls = 2
    MaxSnaps = 2
SPECIFICATION Spec
INVARIANTS TypeOK ReportedFaithful
PROPERTIES SnapshotReturns
