\* Two memory blocks and three wsid objects, so both pools run dry; kosal
\* and remap_pfn_range may fail (getwsid failing leaks memory, see README).
CONSTANTS
    Blocks = {b1, b2}
    WsObjs = {w1, w2, w3}
    NoBlock = NoBlock
    NoWs = NoWs
    Faults = {"alloc", "remap"}
    MaxReq = 5
SYMMETRY MC_Symmetry
SPECIFICATION Spec
INVARIANTS TypeOK ViewAgrees MemoryAccounted
