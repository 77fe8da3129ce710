------------------------------- MODULE AfuPip -------------------------------
(***************************************************************************)
(* The AFU's PIP command handler of the CCI-P driver                      *)
(* (src/aalkernel/cci_PCIe_driver/ccip_afu.c): CommandHandler, which     *)
(* serves the application's workspace requests (WKSP_ALLOC, WKSP_FREE,   *)
(* getMMIORmap, and the commands of ccipdriver.h it does not know), and  *)
(* cci_mmap, which maps a workspace or the MMIO region into the process.  *)
(* Each request answers with an event to the application.                *)
(*                                                                         *)
(* State: the kernel memory blocks kosal_alloc_contiguous_mem_nocache has *)
(* handed out, the wsid objects (pool WsObjs) with their type and block,  *)
(* the session's workspace list, the mappings made, and the events sent.  *)
(* A wsid handed to the application is the object itself                  *)
(* (wsidobjp_to_wid), so the application asks with objects or 0.  The    *)
(* mmap path resolves its wsid outside this file; it is taken to pass an *)
(* object the kernel holds.  Requests come one at a time (the caller     *)
(* holds the session).                                                    *)
(***************************************************************************)
EXTENDS Naturals, Sequences, FiniteSets, SequencesExt

CONSTANTS
    Blocks,      \* kernel memory kosal can hand out
    WsObjs,      \* struct aal_wsid objects
    NoBlock,     \* NULL from kosal_alloc_contiguous_mem_nocache
    NoWs,        \* NULL from getwsid
    Faults,      \* allocations that may fail: "alloc", "getwsid", "remap"
    MaxReq       \* requests in one behaviour

ASSUME /\ NoBlock \notin Blocks /\ NoWs \notin WsObjs
       /\ Faults \subseteq {"alloc", "getwsid", "remap"} /\ MaxReq \in Nat

\* ccipdrv_afuCmdID_e, and the wsid values of an ahm_req.
Cmds == {"WKSP_ALLOC", "Port_AssertReset", "Port_DeassertReset",
         "Port_QuiesceAndAssertReset", "WKSP_FREE", "getMMIORmap",
         "getFeatureRegion"}
Unknown == Cmds \ {"WKSP_ALLOC", "WKSP_FREE", "getMMIORmap"}
ReqWsids == {"MAP_MMIOR", "CSRMAP_READAREA"}

\* uid_errnum_e values the handler sends.
Errnums == {"OK", "NoMem", "Permission", "BadParameter", "InvalidRequest"}

VARIABLES
    allowMMIOR, \* cci_dev_allow_map_mmior_space(pdev), fixed at device creation
    memUsed,    \* blocks allocated and not freed
    wsType,     \* wsid object: "none" (not allocated), "MMIO", "VIRTUAL"
    wsBlock,    \* the block a VIRTUAL wsid's m_id points to
    onList,     \* the session's workspace list (aalsess_add_ws)
    mapped,     \* wsids whose memory or region is mapped into the process
    events,     \* events sent, in order: [cmd, status, ws]
    badFree,    \* history: kosal_free of memory not allocated
    leaked,     \* history: blocks kept after getwsid failed (no pointer left)
    nreq        \* requests made

vars == <<allowMMIOR, memUsed, wsType, wsBlock, onList, mapped, events,
          badFree, leaked, nreq>>

Init ==
    /\ allowMMIOR \in BOOLEAN
    /\ memUsed = {} /\ wsType = [w \in WsObjs |-> "none"]
    /\ wsBlock = [w \in WsObjs |-> NoBlock]
    /\ onList = {} /\ mapped = {} /\ events = <<>> /\ badFree = FALSE
    /\ leaked = {} /\ nreq = 0

\* One more request, within the bound.
Request == nreq < MaxReq /\ nreq' = nreq + 1

\* Whether an allocation from `pool` may fail, or succeed: it fails when
\* the pool is empty, and may fail when faults of its kind are modelled.
MayFail(kind, pool) == pool = {} \/ kind \in Faults

Send(cmd, status, ws) ==
    events' = Append(events, [cmd |-> cmd, status |-> status, ws |-> ws])

FreeObjs == {w \in WsObjs : wsType[w] = "none"}
FreeBlocks == Blocks \ memUsed

-----------------------------------------------------------------------------
\* A plausible slip: getwsid's NULL result not tested.
GetMMIORmapNoNull(req) ==
    /\ Request
    /\ \/ ~allowMMIOR /\ Send("getMMIORmap", "Permission", 0)
          /\ UNCHANGED wsType
       \/ allowMMIOR /\ req # "MAP_MMIOR"
          /\ Send("getMMIORmap", "BadParameter", 0) /\ UNCHANGED wsType
       \/ allowMMIOR /\ req = "MAP_MMIOR" /\ MayFail("getwsid", FreeObjs)
          /\ Send("getMMIORmap", "OK", NoWs) /\ UNCHANGED wsType
       \/ allowMMIOR /\ req = "MAP_MMIOR"
          /\ \E w \in FreeObjs : /\ wsType' = [wsType EXCEPT ![w] = "MMIO"]
                                /\ Send("getMMIORmap", "OK", w)
    /\ UNCHANGED <<allowMMIOR, memUsed, wsBlock, onList, mapped, badFree, leaked>>

\* getMMIORmap: permission, then the wsid value, then a new wsid of type
\* MMIO, not put on the session's list; a getwsid failure sends no event.
GetMMIORmap(req) ==
    /\ Request
    /\ \/ ~allowMMIOR /\ Send("getMMIORmap", "Permission", 0)
          /\ UNCHANGED wsType
       \/ allowMMIOR /\ req # "MAP_MMIOR"
          /\ Send("getMMIORmap", "BadParameter", 0) /\ UNCHANGED wsType
       \/ allowMMIOR /\ req = "MAP_MMIOR" /\ MayFail("getwsid", FreeObjs)
          /\ UNCHANGED <<wsType, events>>
       \/ allowMMIOR /\ req = "MAP_MMIOR"
          /\ \E w \in FreeObjs : /\ wsType' = [wsType EXCEPT ![w] = "MMIO"]
                                /\ Send("getMMIORmap", "OK", w)
    /\ UNCHANGED <<allowMMIOR, memUsed, wsBlock, onList, mapped, badFree, leaked>>

\* WKSP_ALLOC: kernel memory, then a wsid for it (on failure the memory is
\* kept and no event sent), typed VIRTUAL and added to the session's list.
WkspAlloc ==
    /\ Request
    /\ \/ MayFail("alloc", FreeBlocks)
          /\ Send("WKSP_ALLOC", "NoMem", 0)
          /\ UNCHANGED <<memUsed, wsType, wsBlock, onList, leaked>>
       \/ \E b \in FreeBlocks :
          /\ memUsed' = memUsed \cup {b}
          /\ \/ MayFail("getwsid", FreeObjs)
                /\ leaked' = leaked \cup {b}
                /\ UNCHANGED <<wsType, wsBlock, onList, events>>
             \/ \E w \in FreeObjs :
                /\ wsType' = [wsType EXCEPT ![w] = "VIRTUAL"]
                /\ wsBlock' = [wsBlock EXCEPT ![w] = b]
                /\ onList' = onList \cup {w}
                /\ Send("WKSP_ALLOC", "OK", w)
                /\ UNCHANGED leaked
    /\ UNCHANGED <<allowMMIOR, mapped, badFree>>
\* kosal_free_contiguous_mem: memory not handed out is a corrupting free.
KosalFree(b) ==
    /\ memUsed' = memUsed \ {b}
    /\ badFree' = (badFree \/ b \notin memUsed)

\* The wsids the application may name: those the kernel holds.
Held == {w \in WsObjs : wsType[w] # "none"}

\* A plausible slip: the WSM_TYPE_VIRTUAL test left out.
WkspFreeAnyType(h) ==
    /\ Request
    /\ \/ h = 0 /\ Send("WKSP_FREE", "BadParameter", 0)
          /\ UNCHANGED <<memUsed, wsType, wsBlock, onList, badFree>>
       \/ h # 0
          /\ KosalFree(wsBlock[h])
          /\ onList' = onList \ {h}
          /\ wsType' = [wsType EXCEPT ![h] = "none"]
          /\ wsBlock' = [wsBlock EXCEPT ![h] = NoBlock]
          /\ Send("WKSP_FREE", "OK", h)
    /\ UNCHANGED <<allowMMIOR, mapped, leaked>>

\* A plausible slip: the wsid freed but not unlinked from the list.
WkspFreeKeepList(h) ==
    /\ Request
    /\ \/ h = 0 /\ Send("WKSP_FREE", "BadParameter", 0)
          /\ UNCHANGED <<memUsed, wsType, wsBlock, onList, badFree>>
       \/ h # 0 /\ wsType[h] # "VIRTUAL"
          /\ Send("WKSP_FREE", "BadParameter", h)
          /\ UNCHANGED <<memUsed, wsType, wsBlock, onList, badFree>>
       \/ h # 0 /\ wsType[h] = "VIRTUAL"
          /\ KosalFree(wsBlock[h])
          /\ wsType' = [wsType EXCEPT ![h] = "none"]
          /\ wsBlock' = [wsBlock EXCEPT ![h] = NoBlock]
          /\ Send("WKSP_FREE", "OK", h)
          /\ UNCHANGED onList
    /\ UNCHANGED <<allowMMIOR, mapped, leaked>>

\* WKSP_FREE: wsid 0, then a wsid that is not a workspace, are refused;
\* otherwise its memory is freed, it is unlinked from the session's list
\* and freed.  Nothing looks at whether the memory is still mapped.
WkspFree(h) ==
    /\ Request
    /\ \/ h = 0 /\ Send("WKSP_FREE", "BadParameter", 0)
          /\ UNCHANGED <<memUsed, wsType, wsBlock, onList, badFree>>
       \/ h # 0 /\ wsType[h] # "VIRTUAL"
          /\ Send("WKSP_FREE", "BadParameter", h)
          /\ UNCHANGED <<memUsed, wsType, wsBlock, onList, badFree>>
       \/ h # 0 /\ wsType[h] = "VIRTUAL"
          /\ KosalFree(wsBlock[h])
          /\ onList' = onList \ {h}
          /\ wsType' = [wsType EXCEPT ![h] = "none"]
          /\ wsBlock' = [wsBlock EXCEPT ![h] = NoBlock]
          /\ Send("WKSP_FREE", "OK", h)
    /\ UNCHANGED <<allowMMIOR, mapped, leaked>>

\* The switch's default: the port reset and feature region commands.
InvalidCommand(cmd) ==
    /\ Request
    /\ Send(cmd, "InvalidRequest", 0)
    /\ UNCHANGED <<allowMMIOR, memUsed, wsType, wsBlock, onList, mapped,
                   badFree, leaked>>

\* cci_mmap of a wsid: an MMIO wsid (only WSID_MAP_MMIOR ones exist)
\* maps the AFU MMIO region if the device allows it, a workspace maps its
\* memory; remap_pfn_range may fail.
CciMmap(w) ==
    /\ w \in Held
    /\ \/ /\ \/ wsType[w] = "MMIO" /\ ~allowMMIOR
             \/ "remap" \in Faults
          /\ UNCHANGED mapped
       \/ wsType[w] = "MMIO" /\ allowMMIOR /\ mapped' = mapped \cup {"MMIOR"}
       \/ wsType[w] = "VIRTUAL" /\ mapped' = mapped \cup {wsBlock[w]}
    /\ UNCHANGED <<allowMMIOR, memUsed, wsType, wsBlock, onList, events,
                   badFree, leaked, nreq>>

\* The process unmaps a region (the vma's close, outside this file).
Munmap(x) ==
    /\ x \in mapped /\ mapped' = mapped \ {x}
    /\ UNCHANGED <<allowMMIOR, memUsed, wsType, wsBlock, onList, events,
                   badFree, leaked, nreq>>

\* Every request has been made.
AllRequestsMade == nreq = MaxReq /\ UNCHANGED vars

Next ==
    \/ \E req \in ReqWsids : GetMMIORmap(req)
    \/ WkspAlloc
    \/ \E h \in Held \cup {0} : WkspFree(h)
    \/ \E cmd \in Unknown : InvalidCommand(cmd)
    \/ \E w \in Held : CciMmap(w)
    \/ \E x \in mapped : Munmap(x)
    \/ AllRequestsMade

Spec == Init /\ [][Next]_vars

-----------------------------------------------------------------------------
TypeOK ==
    /\ allowMMIOR \in BOOLEAN /\ memUsed \subseteq Blocks
    /\ wsType \in [WsObjs -> {"none", "MMIO", "VIRTUAL"}]
    /\ wsBlock \in [WsObjs -> Blocks \cup {NoBlock}]
    /\ onList \subseteq WsObjs /\ leaked \subseteq Blocks
    /\ mapped \subseteq Blocks \cup {"MMIOR"}
    /\ events \in Seq([cmd : Cmds, status : Errnums, ws : WsObjs \cup {0}])
    /\ nreq \in 0..MaxReq

\* The workspaces the application holds, as the events it received tell:
\* each successful WKSP_ALLOC adds one, each successful WKSP_FREE removes it.
UserView ==
    LET Apply(v, e) ==
          IF e.status # "OK" THEN v
          ELSE IF e.cmd = "WKSP_ALLOC" THEN v \cup {e.ws}
          ELSE IF e.cmd = "WKSP_FREE" THEN v \ {e.ws}
          ELSE v
    IN FoldLeft(Apply, {}, events)

\* Across any sequence of requests, the workspaces the application was
\* told it holds are exactly the session's list (what the session's close
\* will free), and all of them are workspaces.
ViewAgrees ==
    /\ UserView = onList
    /\ \A w \in onList : wsType[w] = "VIRTUAL"

\* Kernel memory is accounted for: apart from the blocks WKSP_ALLOC keeps
\* when getwsid fails (lines 296-302, recorded in `leaked`), the blocks in
\* use are exactly those of the session's workspaces, one block each, and
\* nothing was ever freed that was not allocated.
MemoryAccounted ==
    /\ memUsed = {wsBlock[w] : w \in onList} \cup leaked
    /\ \A w \in onList : wsBlock[w] \notin leaked
    /\ \A v, w \in onList : v # w => wsBlock[v] # wsBlock[w]
    /\ ~badFree
====
