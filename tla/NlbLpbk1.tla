------------------------------ MODULE NlbLpbk1 ------------------------------
(***************************************************************************)
(* The NLB loopback-1 diagnostic, CNLBLpbk1::RunTest                      *)
(* (src/aalutils/fpgadiag/diag_lpbk1.cpp), against the NLB AFU it drives. *)
(* The test allocates a DSM, an input and an output workspace, resets the *)
(* device, then sweeps the number of cache lines from begincls to endcls: *)
(* for each size it starts the device, polls the DSM's test_complete,     *)
(* stops, prints the counters and resets the device and the DSM.  At the  *)
(* end it compares the buffers, checks the DSM's test_error and frees the *)
(* workspaces.                                                            *)
(*                                                                         *)
(* Every CSR write and every DSM memset is a step of its own, because the *)
(* device runs concurrently with them.  The AFU's RTL, the CCI AFU        *)
(* service and the client's ClientWait/ClientOK are not in the repository;*)
(* the device is modelled from what the comments of RunTest say the CSR   *)
(* writes do (0 asserts reset, 1 de-asserts it, 3 starts, 7 stops).       *)
(*                                                                         *)
(* Data abstraction: sz and the line numbers count cache lines (CL(n) is  *)
(* n lines of CLBytes bytes); an output line is "zero", "data" (a copy of *)
(* the 0xdecafbad input) or "bad"; the counters PrintOutput prints are    *)
(* left out, and so are the QLP counters and the header text.             *)
(***************************************************************************)
EXTENDS Naturals, FiniteSets, Sequences

CONSTANTS
    BeginCls,     \* cmd.begincls
    EndCls,       \* cmd.endcls
    CLBytes,      \* bytes per cache line, CL(1)
    DeviceFaults  \* subset of {"error", "corrupt"}: what the device may do

ASSUME /\ BeginCls \in Nat \ {0} /\ EndCls \in Nat /\ BeginCls <= EndCls
       /\ CLBytes \in Nat \ {0}
       /\ DeviceFaults \subseteq {"error", "corrupt"}

Wkspcs == {"dsm", "in", "out"}     \* WKSPC_DSM, WKSPC_IN, WKSPC_OUT
Lines == 0..EndCls - 1             \* the output lines the sweep writes
NoRet == 99

VARIABLES
    pc,        \* RunTest's position
    ws,        \* workspaces allocated and not freed
    sz,        \* the sweep's size, in cache lines
    res,       \* RunTest's res
    ret,       \* RunTest's return value, NoRet before it returns
    out,       \* the output workspace, line by line
    dsm,       \* the DSM's test_complete and test_error
    ctl,       \* CSR_CTL
    numLines,  \* CSR_NUM_LINES
    dev,       \* the device: "reset", "idle", "running", "done", "stopped"
    devPos,    \* lines the device has copied in this run
    errSeen    \* history: some run ended with test_error set

vars == <<pc, ws, sz, res, ret, out, dsm, ctl, numLines, dev, devPos, errSeen>>

ClearedDsm == [complete |-> 0, error |-> 0]

Init ==
    /\ pc = "alloc" /\ ws = {} /\ sz = BeginCls /\ res = 0 /\ ret = NoRet
    /\ out = [l \in Lines |-> "zero"]
    /\ dsm = ClearedDsm
    /\ ctl = 0 /\ numLines = 0 /\ dev = "reset" /\ devPos = 0
    /\ errSeen = FALSE

\* What a write of v to CSR_CTL does to the device.
WriteCtl(v) ==
    /\ ctl' = v
    /\ dev' = CASE v = 0 -> "reset"
                [] v = 1 -> "idle"
                [] v = 3 -> IF dev = "idle" THEN "running" ELSE dev
                [] v = 7 -> IF dev = "running" THEN "stopped" ELSE dev
    /\ devPos' = IF v \in {0, 3} THEN 0 ELSE devPos

\* The bytes memcmp compares (NumCacheLines of them, from the start),
\* as the output lines they fall in.
NumCacheLines == EndCls - BeginCls + 1
Compared == {l \in Lines : l * CLBytes < NumCacheLines}

Goto(p) == pc' = p

-----------------------------------------------------------------------------
(* RunTest, one step per statement that the device can observe.           *)

\* Three WorkspaceAllocate calls, ClientWait, ClientOK: each allocation may
\* fail; on any failure RunTest returns 1, keeping the ones that succeeded.
\* On success the buffers are filled: input with InputData, output zeroed.
Allocate ==
    /\ pc = "alloc"
    /\ \E got \in SUBSET Wkspcs :
          /\ ws' = got
          /\ IF got = Wkspcs
             THEN /\ out' = [l \in Lines |-> "zero"] /\ Goto("handshake")
                  /\ UNCHANGED ret
             ELSE /\ ret' = 1 /\ Goto("done") /\ UNCHANGED out
    /\ UNCHANGED <<sz, res, dsm, ctl, numLines, dev, devPos, errSeen>>

\* ResetHandshake fails: return 1, with the workspaces still allocated.
\* Otherwise the QLP counters are read and saved (no modelled state).
ResetHandshake ==
    /\ pc = "handshake"
    /\ \/ Goto("assert_setup") /\ UNCHANGED ret
       \/ ret' = 1 /\ Goto("done")
    /\ UNCHANGED <<ws, sz, res, out, dsm, ctl, numLines, dev, devPos, errSeen>>

\* "Assert Device Reset", before the sweep (st = "setup") and after each
\* size (st = "sweep").
AssertReset(st) ==
    /\ pc = "assert_" \o st
    /\ WriteCtl(0) /\ Goto("clear_" \o st)
    /\ UNCHANGED <<ws, sz, res, ret, out, dsm, numLines, errSeen>>

\* A plausible slip: the memset of the DSM left out.
ClearDsmSkipped(st) ==
    /\ pc = "clear_" \o st
    /\ Goto("deassert_" \o st)
    /\ UNCHANGED <<ws, sz, res, ret, out, dsm, ctl, numLines, dev, devPos,
                   errSeen>>

\* "Clear the DSM status fields": memset of the whole nlb_vafu_dsm.
ClearDsm(st) ==
    /\ pc = "clear_" \o st
    /\ dsm' = ClearedDsm /\ Goto("deassert_" \o st)
    /\ UNCHANGED <<ws, sz, res, ret, out, ctl, numLines, dev, devPos, errSeen>>

\* "De-assert Device Reset"; after the setup the addresses and the mode
\* follow, after a size the loop test.
DeassertReset(st) ==
    /\ pc = "deassert_" \o st
    /\ WriteCtl(1) /\ Goto(IF st = "setup" THEN "config" ELSE "loop")
    /\ UNCHANGED <<ws, sz, res, ret, out, dsm, numLines, errSeen>>

\* CSR_SRC_ADDR, CSR_DST_ADDR and CSR_CFG (LPBK1 with the WT, RDI and RDO
\* flags), then the header: nothing the device acts on until started.
Configure ==
    /\ pc = "config" /\ Goto("loop")
    /\ UNCHANGED <<ws, sz, res, ret, out, dsm, ctl, numLines, dev, devPos,
                   errSeen>>

\* A plausible slip in the loop bound: one size past endcls.
LoopTestPastEnd ==
    /\ pc = "loop"
    /\ Goto(IF sz <= EndCls + 1 THEN "numlines" ELSE "final")
    /\ UNCHANGED <<ws, sz, res, ret, out, dsm, ctl, numLines, dev, devPos,
                   errSeen>>

\* while ( sz <= CL(cmd.endcls) )
LoopTest ==
    /\ pc = "loop"
    /\ Goto(IF sz <= EndCls THEN "numlines" ELSE "final")
    /\ UNCHANGED <<ws, sz, res, ret, out, dsm, ctl, numLines, dev, devPos,
                   errSeen>>

SetNumLines ==
    /\ pc = "numlines"
    /\ numLines' = sz /\ Goto("start")
    /\ UNCHANGED <<ws, sz, res, ret, out, dsm, ctl, dev, devPos, errSeen>>

\* "Start the test"
StartTest ==
    /\ pc = "start"
    /\ WriteCtl(3) /\ Goto("poll")
    /\ UNCHANGED <<ws, sz, res, ret, out, dsm, numLines, errSeen>>

\* "Wait for test completion": the loop leaves once test_complete is set
\* (SleepMicro between tests; there is no timeout).
PollComplete ==
    /\ pc = "poll" /\ dsm.complete # 0
    /\ Goto("stop")
    /\ UNCHANGED <<ws, sz, res, ret, out, dsm, ctl, numLines, dev, devPos,
                   errSeen>>

\* A plausible slip in the increment: sz += CL(1) left out.
StopDeviceNoIncrement ==
    /\ pc = "stop"
    /\ WriteCtl(7) /\ Goto("assert_sweep")
    /\ UNCHANGED <<ws, sz, res, ret, out, dsm, numLines, errSeen>>

\* "Stop the device", read and print the counters, next size.
StopDevice ==
    /\ pc = "stop"
    /\ WriteCtl(7) /\ Goto("assert_sweep")
    /\ sz' = sz + 1
    /\ UNCHANGED <<ws, res, ret, out, dsm, numLines, errSeen>>

\* After the sweep: CSR_CTL = 0.
FinalReset ==
    /\ pc = "final"
    /\ WriteCtl(0) /\ Goto("verify")
    /\ UNCHANGED <<ws, sz, res, ret, out, dsm, numLines, errSeen>>

\* "Verify the buffers" (memcmp of NumCacheLines bytes) and "Verify the
\* device" (the DSM's test_error).
Verify ==
    /\ pc = "verify"
    /\ res' = res + (IF \E l \in Compared : out[l] # "data" THEN 1 ELSE 0)
                  + (IF dsm.error # 0 THEN 1 ELSE 0)
    /\ Goto("free")
    /\ UNCHANGED <<ws, sz, ret, out, dsm, ctl, numLines, dev, devPos, errSeen>>

\* Three WorkspaceFree calls, ClientWait, ClientOK: a failed free makes
\* RunTest return 1, otherwise it returns res.
FreeWorkspaces ==
    /\ pc = "free"
    /\ ws' = {}
    /\ \E ok \in BOOLEAN : ret' = IF ok THEN res ELSE 1
    /\ Goto("done")
    /\ UNCHANGED <<sz, res, out, dsm, ctl, numLines, dev, devPos, errSeen>>

-----------------------------------------------------------------------------
(* The NLB AFU in loopback-1 mode: once started it copies CSR_NUM_LINES   *)
(* lines from the input to the output workspace, then writes the DSM.     *)

\* One line is copied; a "corrupt" device may write it wrong.
DevCopyLine ==
    /\ dev = "running" /\ devPos < numLines
    /\ \E v \in {"data"} \cup (IF "corrupt" \in DeviceFaults THEN {"bad"} ELSE {}) :
          out' = [out EXCEPT ![devPos] = v]
    /\ devPos' = devPos + 1
    /\ UNCHANGED <<pc, ws, sz, res, ret, dsm, ctl, numLines, dev, errSeen>>

\* The run ends: test_complete is written, with test_error if the device
\* detected an error.
DevComplete ==
    /\ dev = "running" /\ devPos = numLines
    /\ \E e \in {0} \cup (IF "error" \in DeviceFaults THEN {1} ELSE {}) :
          /\ dsm' = [complete |-> 1, error |-> e]
          /\ errSeen' = (errSeen \/ e = 1)
    /\ dev' = "done"
    /\ UNCHANGED <<pc, ws, sz, res, ret, out, ctl, numLines, devPos>>

\* RunTest has returned.
Returned ==
    /\ pc = "done"
    /\ UNCHANGED vars

Stages == {"setup", "sweep"}

SwStep ==
    \/ Allocate \/ ResetHandshake \/ Configure \/ LoopTest \/ SetNumLines
    \/ StartTest \/ PollComplete \/ StopDevice \/ FinalReset \/ Verify
    \/ FreeWorkspaces
    \/ \E st \in Stages : AssertReset(st) \/ ClearDsm(st) \/ DeassertReset(st)

DevStep == DevCopyLine \/ DevComplete

Next == SwStep \/ DevStep \/ Returned

\* The diagnostic's thread is scheduled and the hardware makes progress.
Spec == Init /\ [][Next]_vars /\ WF_vars(SwStep) /\ WF_vars(DevStep)

-----------------------------------------------------------------------------
TypeOK ==
    /\ ws \subseteq Wkspcs
    /\ sz \in BeginCls..EndCls + 1
    /\ out \in [Lines -> {"zero", "data", "bad"}]
    /\ dsm \in [complete : {0, 1}, error : {0, 1}]
    /\ ctl \in {0, 1, 3, 7} /\ numLines \in 0..EndCls
    /\ devPos \in 0..EndCls
    /\ res \in 0..2 /\ ret \in {NoRet, 0, 1, 2}

\* When the poll loop sees test_complete, it is the completion of the run
\* just started, for the current size: a completion left in the DSM by
\* the previous size must never end the wait (the memset after each size
\* is what clears it).
NoStaleCompletion ==
    pc = "stop" => dev = "done" /\ numLines = sz /\ devPos = sz

\* RunTest returns, given a device that completes every run it is
\* started on (the poll loop has no timeout).
RunTestReturns == <>(pc = "done")

\* RunTest returns 0 only if the device copied every line of the sweep
\* correctly and reported no error in any run: the verdict the diagnostic
\* prints is sound.
VerdictSound ==
    (pc = "done" /\ ret = 0) =>
        /\ \A l \in Lines : out[l] = "data"
        /\ ~errSeen

\* Every workspace RunTest allocated is freed by the time it returns.
WorkspacesReleased == pc = "done" => ws = {}
=============================================================================
