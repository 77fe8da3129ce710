------------------------------ MODULE PerfMon ------------------------------
(***************************************************************************)
(* The FME performance monitor of the CCI-P driver                         *)
(* (src/aalkernel/cci_PCIe_driver/ccip_perfmon.c).  A snapshot            *)
(* (get_perfmonitor_snapshot, reached from the two sysfs files and from   *)
(* get_perfmon_counters) freezes the cache counters, then for each event  *)
(* writes the event code into a selector register, polls the counter's    *)
(* event-code field until it shows that code (at most MaxTry retries),    *)
(* reads the counter into the event's field, and finally unfreezes.       *)
(* Cache events share one selector and counter pair, fabric events        *)
(* another.  Nothing serialises snapshots: every reader of a sysfs file   *)
(* runs one.                                                              *)
(*                                                                         *)
(* Data abstraction: the value a counter read returns is the event whose  *)
(* count the counter holds at that moment, so a field is right when it    *)
(* holds its own event.  "garbage" is an uninitialised field (the sysfs   *)
(* path's stack struct), "zero" a cleared one (get_perfmon_counters's     *)
(* memset).  The hardware's counter follows its selector after some       *)
(* delay; HwPolls bounds the delay in polls.                              *)
(***************************************************************************)
EXTENDS Naturals, Sequences, FiniteSets

CONSTANTS
    Readers,      \* threads taking snapshots
    CacheEvents,  \* Cache_Read_Hit .. Cache_Evictions
    FabricEvents, \* Fabric_PCIe0_Read .. Fabric_UPI_Write
    Plan,         \* the order get_perfmonitor_snapshot reads them in
    MaxTry,       \* CACHE_EVENT_COUNTER_MAX_TRY
    HwPolls,      \* the counter has followed its selector after this many polls
    MaxSnaps      \* snapshots per reader

Events == CacheEvents \cup FabricEvents

ASSUME /\ CacheEvents \cap FabricEvents = {}
       /\ Plan \in Seq(Events) /\ \A e \in Events : \E i \in DOMAIN Plan : Plan[i] = e
       /\ MaxTry \in Nat /\ HwPolls \in Nat /\ MaxSnaps \in Nat \ {0}

VARIABLES
    cacheSel, cacheCode,  \* ccip_fpmon_ch_ctl.cache_event, ccip_fpmon_ch_ctr_0.event_code
    fabSel, fabCode,      \* ccip_fpmon_fab_ctl.fabric_evt_code, ccip_fpmon_fab_ctr.event_code
    freeze,               \* ccip_fpmon_ch_ctl.freeze
    phase,                \* reader: "idle", "select", "poll", "read", "unfreeze", "done"
    idx,                  \* reader: position in Plan
    tries,                \* reader: the poll loop's counter
    fields,               \* reader: the CCIP_PERF_COUNTERS values
    timedOut,             \* reader: events whose poll gave up (-ETIME)
    snaps                 \* reader: snapshots started

vars == <<cacheSel, cacheCode, fabSel, fabCode, freeze, phase, idx, tries,
          fields, timedOut, snaps>>

\* The selector and the counter's code for the event's kind.
Code(e) == IF e \in CacheEvents THEN cacheCode ELSE fabCode
Sel(e) == IF e \in CacheEvents THEN cacheSel ELSE fabSel

Init ==
    /\ cacheSel \in CacheEvents /\ cacheCode = cacheSel
    /\ fabSel \in FabricEvents /\ fabCode = fabSel
    /\ freeze = 0
    /\ phase = [r \in Readers |-> "idle"]
    /\ idx = [r \in Readers |-> 1]
    /\ tries = [r \in Readers |-> 0]
    /\ fields = [r \in Readers |-> [e \in Events |-> "garbage"]]
    /\ timedOut = [r \in Readers |-> {}]
    /\ snaps = [r \in Readers |-> 0]

-----------------------------------------------------------------------------
(* What the snapshot's fields hold before it runs, by entry point: the     *)
(* sysfs show functions pass a struct on their stack, not initialised;    *)
(* get_perfmon_counters clears its struct and fills in the names.         *)
PerfMonitorAttribShowHr == "garbage"
PerfMonitorAttribShowBin == "garbage"
GetPerfmonCounters == "zero"

\* The step after an event: the next event's selector, or the unfreeze.
Advance(r) ==
    /\ idx' = [idx EXCEPT ![r] = idx[r] + 1]
    /\ phase' = [phase EXCEPT ![r] =
                   IF idx[r] = Len(Plan) THEN "unfreeze" ELSE "select"]

\* A sysfs show (uninitialised struct) or get_perfmon_counters (memset,
\* names, then the snapshot) starts a snapshot: the version and count are
\* set and the cache counters frozen.
SnapshotStart(r) ==
    /\ phase[r] \in {"idle", "done"} /\ snaps[r] < MaxSnaps
    /\ \E init \in {PerfMonitorAttribShowHr, PerfMonitorAttribShowBin,
                     GetPerfmonCounters} :
          fields' = [fields EXCEPT ![r] = [e \in Events |-> init]]
    /\ freeze' = 1
    /\ phase' = [phase EXCEPT ![r] = "select"]
    /\ idx' = [idx EXCEPT ![r] = 1]
    /\ timedOut' = [timedOut EXCEPT ![r] = {}]
    /\ snaps' = [snaps EXCEPT ![r] = snaps[r] + 1]
    /\ UNCHANGED <<cacheSel, cacheCode, fabSel, fabCode, tries>>

\* update_*_event_counters writes the event code into the selector.
SelectEvent(r) ==
    /\ phase[r] = "select"
    /\ LET e == Plan[idx[r]] IN
         IF e \in CacheEvents
         THEN /\ cacheSel' = e /\ UNCHANGED fabSel
         ELSE /\ fabSel' = e /\ UNCHANGED cacheSel
    /\ tries' = [tries EXCEPT ![r] = 0]
    /\ phase' = [phase EXCEPT ![r] = "poll"]
    /\ UNCHANGED <<cacheCode, fabCode, freeze, idx, fields, timedOut, snaps>>

\* A plausible slip: the poll loop without its retry bound.
PollUnbounded(r) ==
    /\ phase[r] = "poll"
    /\ LET e == Plan[idx[r]] IN
       /\ tries[r] < HwPolls \/ Code(e) = Sel(e)
       /\ IF Code(e) = e
          THEN /\ phase' = [phase EXCEPT ![r] = "read"]
               /\ UNCHANGED <<tries, idx, timedOut>>
          ELSE /\ tries' = [tries EXCEPT ![r] = tries[r] + 1]
               /\ UNCHANGED <<phase, idx, timedOut>>
    /\ UNCHANGED <<cacheSel, cacheCode, fabSel, fabCode, freeze, fields, snaps>>

\* A plausible slip: past MaxTry the counter is reset and the loop goes on.
PollNoGiveUp(r) ==
    /\ phase[r] = "poll"
    /\ LET e == Plan[idx[r]] IN
       /\ tries[r] < HwPolls \/ Code(e) = Sel(e)
       /\ IF Code(e) = e
          THEN /\ phase' = [phase EXCEPT ![r] = "read"]
               /\ UNCHANGED tries
          ELSE /\ tries' = [tries EXCEPT ![r] = IF tries[r] + 1 > MaxTry THEN 0 ELSE tries[r] + 1]
               /\ UNCHANGED phase
    /\ UNCHANGED <<cacheSel, cacheCode, fabSel, fabCode, freeze, idx, fields,
                   timedOut, snaps>>

\* One test of the while loop: the code has arrived, or counter++ and,
\* past MaxTry, give up with -ETIME (which the snapshot ignores).  The
\* hardware has followed the selector by the HwPolls-th poll.
Poll(r) ==
    /\ phase[r] = "poll"
    /\ LET e == Plan[idx[r]] IN
       /\ tries[r] < HwPolls \/ Code(e) = Sel(e)
       /\ IF Code(e) = e
          THEN /\ phase' = [phase EXCEPT ![r] = "read"]
               /\ UNCHANGED <<tries, idx, timedOut>>
          ELSE IF tries[r] + 1 > MaxTry
          THEN /\ timedOut' = [timedOut EXCEPT ![r] = @ \cup {e}]
               /\ tries' = [tries EXCEPT ![r] = 0]
               /\ Advance(r)
          ELSE /\ tries' = [tries EXCEPT ![r] = tries[r] + 1]
               /\ UNCHANGED <<phase, idx, timedOut>>
    /\ UNCHANGED <<cacheSel, cacheCode, fabSel, fabCode, freeze, fields, snaps>>

\* A plausible slip in the switch: Cache_Write_Hit's total stored in the
\* field of the first cache event of the plan (copy and paste).
FieldOfPasted(e) ==
    IF e \in CacheEvents /\ e # Plan[1] THEN Plan[1] ELSE e

\* The switch on the event code: the field the counter's value goes to.
FieldOf(e) == e

\* The counter (ctr_0 + ctr_1 for the cache) is read into the field.
ReadCounter(r) ==
    /\ phase[r] = "read"
    /\ LET e == Plan[idx[r]] IN
       /\ fields' = [fields EXCEPT ![r][FieldOf(e)] = Code(e)]
    /\ Advance(r)
    /\ UNCHANGED <<cacheSel, cacheCode, fabSel, fabCode, freeze, tries,
                   timedOut, snaps>>

\* The snapshot ends: unfreeze and return 0.
Unfreeze(r) ==
    /\ phase[r] = "unfreeze"
    /\ freeze' = 0
    /\ phase' = [phase EXCEPT ![r] = "done"]
    /\ UNCHANGED <<cacheSel, cacheCode, fabSel, fabCode, idx, tries, fields,
                   timedOut, snaps>>

\* The hardware counters follow their selectors.
HwLatchCache ==
    /\ cacheCode # cacheSel /\ cacheCode' = cacheSel
    /\ UNCHANGED <<cacheSel, fabSel, fabCode, freeze, phase, idx, tries,
                   fields, timedOut, snaps>>

HwLatchFabric ==
    /\ fabCode # fabSel /\ fabCode' = fabSel
    /\ UNCHANGED <<cacheSel, cacheCode, fabSel, freeze, phase, idx, tries,
                   fields, timedOut, snaps>>

\* Every reader has taken its snapshots.
Finished ==
    /\ \A r \in Readers : phase[r] = "done" /\ snaps[r] = MaxSnaps
    /\ UNCHANGED vars

Next ==
    \/ \E r \in Readers :
          \/ SnapshotStart(r) \/ SelectEvent(r) \/ Poll(r)
          \/ ReadCounter(r) \/ Unfreeze(r)
    \/ HwLatchCache \/ HwLatchFabric
    \/ Finished

\* The steps of a snapshot that has started.
ReaderStep(r) == SelectEvent(r) \/ Poll(r) \/ ReadCounter(r) \/ Unfreeze(r)

(* The thread inside a sysfs read or get_perfmon_counters keeps running   *)
(* (register writes and busy polls, no sleep or lock): its steps are      *)
(* weakly fair.  The hardware is given no fairness: a counter may never   *)
(* follow its selector.  Starting a snapshot is the caller's choice.      *)
Spec == Init /\ [][Next]_vars /\ \A r \in Readers : WF_vars(ReaderStep(r))

-----------------------------------------------------------------------------
TypeOK ==
    /\ cacheSel \in CacheEvents /\ cacheCode \in CacheEvents
    /\ fabSel \in FabricEvents /\ fabCode \in FabricEvents
    /\ freeze \in {0, 1}
    /\ \A r \in Readers :
         /\ idx[r] \in 1..Len(Plan) + 1
         /\ tries[r] \in 0..MaxTry
         /\ timedOut[r] \subseteq Events

\* A snapshot that has returned holds, in each field, the count of that
\* field's own event, unless the poll for that event gave up: whatever
\* other snapshots run meanwhile.
ReportedFaithful ==
    \A r \in Readers :
        phase[r] = "done" =>
            \A e \in Events : fields[r][e] = e \/ e \in timedOut[r]

\* Every snapshot that starts returns, whatever the counter hardware does:
\* the retry bound of the poll loop (line 376) ends each wait, with -ETIME
\* if the event code never arrives.
SnapshotReturns ==
    \A r \in Readers : phase[r] \notin {"idle", "done"} ~> phase[r] = "done"
=============================================================================
