------------------------------ MODULE AseBridge ------------------------------
(***************************************************************************)
(* The ASE bridge: application threads calling the shm_ops.c API, the     *)
(* simulator's ase_listener (protocol_backend.c), and the five POSIX       *)
(* message queues between them.  The application process may die (SIGKILL, *)
(* the signal handler send_simkill, exit on a failed check) and a new one  *)
(* may start while the simulator and the queues live on.                   *)
(*                                                                         *)
(* Data is abstracted: a buffer_t is a handle; its virtual base is the    *)
(* pair <<run, index>> naming the mmap of application run `run` made for  *)
(* buffer index `index`; a fake-physical base is a model value of Bases.  *)
(***************************************************************************)
EXTENDS Integers, Sequences, FiniteSets

CONSTANTS
  Threads,      \* application threads calling the API
  Workspaces,   \* buffer_t handles the application allocates itself
  DSM,          \* the workspace init_umsg_system reads CIRBSTAT from
  CSR,          \* the buffer_t behind csr_region
  UMAS,         \* the buffer_t passed to init_umsg_system
  Bases,        \* fake-physical bases the simulator hands out
  NoBase, NoThread, NoMap, NoEntry,
  CsrMapSize,   \* CSR_MAP_SIZE in bytes
  Offsets,      \* CSR offsets the application writes
  Values,       \* CSR data values the application writes
  UmsgLog2Cfg,  \* NUM_UMSG_LOG2 as read from ase.cfg
  SlotIds,      \* UMSG ids the application sends
  AseModeCfg,   \* ASE_MODE as read from ase.cfg
  NumTestsCfg,  \* ASE_NUM_TESTS as read from ase.cfg
  MaxIndex,     \* bound on buffer_index_count
  MaxRuns,      \* bound on application processes started
  QueueCap,     \* mq_maxmsg of every queue
  FdLimit,      \* descriptors the application may hold open
  Permit,       \* departures from the documented call order the application makes
  SimSignals    \* whether the simulator process may receive SIGTERM/SIGINT

Buffers == Workspaces \cup {CSR, UMAS}

(* ase_config_parse (ase.cfg present): the mode switch maps an unknown    *)
(* mode to mode 1 and clears ase_num_tests in every mode but regression;  *)
(* NUM_UMSG_LOG2 = 0 falls back to 5, any other value is kept.            *)
ModeOf(v) ==
  CASE v = 1 -> "no_simkill" [] v = 2 -> "simkill"
    [] v = 3 -> "sw_simkill" [] v = 4 -> "regression"
    [] OTHER -> "no_simkill"
NumTestsOf(m, n) == IF m = "regression" THEN n ELSE 0
Log2Of(v) == IF v = 0 THEN 5 ELSE v

AseMode == ModeOf(AseModeCfg)
NumTests == NumTestsOf(AseMode, NumTestsCfg)
UmsgLog2 == Log2Of(UmsgLog2Cfg)
Words == 0 .. (CsrMapSize \div 4) - 1

ASSUME /\ DSM \in Workspaces /\ CSR \notin Workspaces /\ UMAS \notin Workspaces
       /\ CSR # UMAS /\ Cardinality(Bases) >= MaxRuns * MaxIndex
       /\ NoBase \notin Bases /\ NoThread \notin Threads
       /\ CsrMapSize \in Nat /\ CsrMapSize % 4 = 0
       /\ Offsets \subseteq Nat /\ Values \subseteq Nat /\ 0 \in Values
       /\ UmsgLog2Cfg \in 0 .. 31 /\ SlotIds \subseteq Nat
       /\ AseModeCfg \in Int /\ NumTestsCfg \in Int
       /\ MaxIndex \in Nat /\ MaxRuns \in Nat \ {0}
       /\ QueueCap \in Nat \ {0} /\ FdLimit \in 6 .. 100
       /\ Permit \subseteq {"csr_first", "after_deinit", "umsg_after_deinit",
                            "session_again", "deinit_first", "deinit_busy"}
       /\ SimSignals \in BOOLEAN

VARIABLES
  \* application process (reset when the process dies)
  alive, run, handlers, mqEst, chan, mgmtTx, fds, lock, indexCount,
  maps, desc, owned, csrMap, umasEst, numUmsg, ended, written,
  \* application threads
  pc, stack, arg, csrArg,
  \* simulator process
  simUp, table, testCnt, cirbstat, simCsr,
  \* message queues (outlive both processes)
  app2sim, sim2app, csrQ, umsgQ, killQ,
  \* history: a store outside every live mapping, a send on a closed
  \* handle, the simulator stopped by a signal
  wild, badSend, simSignalled

appVars == <<alive, run, handlers, mqEst, chan, mgmtTx, fds, lock,
             indexCount, maps, desc, owned, csrMap, umasEst,
             numUmsg, ended, written>>
thrVars == <<pc, stack, arg, csrArg>>
simVars == <<simUp, table, testCnt, cirbstat, simCsr>>
queues  == <<app2sim, sim2app, csrQ, umsgQ, killQ>>
vars == <<appVars, thrVars, simVars, queues, wild, badSend, simSignalled>>

PCs == {"idle", "alloc_start", "alloc_send", "alloc_wait", "si_begin",
        "si_open", "csr_send", "umsg_poll", "umsg_est", "dl_unmap",
        "deinit_close", "umsg_deinit_end"}
VBase == ({NoMap} \cup ((1 .. MaxRuns) \X (0 .. MaxIndex)))
Desc == [valid : BOOLEAN, name : Buffers, vbase : VBase, base : Bases \cup {NoBase}]
\* The serialized buffer_t on app2sim, and the fields of the reply that
\* ase_str_to_buffer_t writes back (spec.md section 6: name and the
\* fake-physical base).
MgmtMsg == [kind : {"alloc", "dealloc"}, name : Buffers, vbase : VBase,
            base : Bases \cup {NoBase}]
Reply == [name : Buffers, base : Bases]
\* An entry of the simulator's buffer list: the segment it mapped by name.
Entry == [name : Buffers, vbase : VBase]

\* A store through a descriptor whose vbase is not a live mapping of this process.
Wild(v) == v \notin maps

\* A send blocks while its queue is full (mq_send in blocking mode).
Room(q) == Len(q) < QueueCap

\* Bound on buffer_index_count: a call that may allocate starts only while
\* every thread could still finish two allocations (its own and a nested one).
Headroom == indexCount + 2 * Cardinality(Threads) <= MaxIndex

\* A call the documented order forbids is made only when Permit lets it.
Allowed(p, cond) == p \in Permit \/ cond

------------------------------------------------------------------------------
(* Application process state when a process starts: the globals of        *)
(* shm_ops.c at load time.                                                 *)
NoDesc == [b \in Buffers |-> [valid |-> FALSE, name |-> b, vbase |-> NoMap, base |-> NoBase]]

ProcessInit ==
  /\ handlers = FALSE /\ mqEst = FALSE /\ chan = "unopened"
  /\ mgmtTx = "unopened" /\ fds = 0 /\ lock = NoThread /\ indexCount = 0
  /\ maps = {} /\ owned = {} /\ desc = NoDesc
  /\ csrMap = [w \in Words |-> 0] /\ umasEst = FALSE /\ numUmsg = 0
  /\ ended = FALSE /\ written = {}
  /\ pc = [t \in Threads |-> "idle"] /\ stack = [t \in Threads |-> <<>>]
  /\ arg = [t \in Threads |-> CSR] /\ csrArg = [t \in Threads |-> <<0, 0>>]

\* The same state, as the next state of a process that ends.
ProcessReset ==
  /\ handlers' = FALSE /\ mqEst' = FALSE /\ chan' = "unopened"
  /\ mgmtTx' = "unopened" /\ fds' = 0 /\ lock' = NoThread /\ indexCount' = 0
  /\ maps' = {} /\ owned' = {} /\ desc' = NoDesc
  /\ csrMap' = [w \in Words |-> 0] /\ umasEst' = FALSE /\ numUmsg' = 0
  /\ ended' = FALSE /\ written' = {}
  /\ pc' = [t \in Threads |-> "idle"] /\ stack' = [t \in Threads |-> <<>>]
  /\ arg' = [t \in Threads |-> CSR] /\ csrArg' = [t \in Threads |-> <<0, 0>>]

(* ase_init: the five queues are created empty and opened; the buffer    *)
(* list is empty.  The memory-range computation and the seed only print.  *)
SimInit ==
  /\ simUp = TRUE /\ table = [x \in Bases |-> NoEntry]
  /\ cirbstat = 0 /\ simCsr = [w \in Words |-> 0]
  /\ app2sim = <<>> /\ sim2app = <<>> /\ csrQ = <<>> /\ umsgQ = <<>> /\ killQ = <<>>

\* ase_ready: glbl_test_cmplt_cnt = 0.
SimReady == testCnt = 0

Init ==
  /\ alive = TRUE /\ run = 1
  /\ ProcessInit
  /\ SimInit /\ SimReady
  /\ wild = FALSE /\ badSend = FALSE /\ simSignalled = FALSE

\* Return from the current procedure of thread t.
Return(t) ==
  IF stack[t] = <<>>
  THEN /\ pc' = [pc EXCEPT ![t] = "idle"] /\ UNCHANGED <<stack, arg>>
  ELSE /\ pc' = [pc EXCEPT ![t] = Head(stack[t]).pc]
       /\ arg' = [arg EXCEPT ![t] = Head(stack[t]).arg]
       /\ stack' = [stack EXCEPT ![t] = Tail(@)]

\* Thread t enters procedure `proc`, to come back to `ret` with argument b.
Call(t, proc, ret, b) ==
  /\ pc' = [pc EXCEPT ![t] = proc]
  /\ stack' = [stack EXCEPT ![t] = <<[pc |-> ret, arg |-> b]>> \o @]

\* Send a buffer record on app2sim through the current app2sim_tx handle;
\* a send through a failed or closed handle delivers nothing.
SendMgmt(m) ==
  IF mgmtTx = "ok" THEN app2sim' = Append(app2sim, m) ELSE UNCHANGED app2sim

CanSendMgmt == mgmtTx # "ok" \/ Room(app2sim)

\* ase_buffer_t_to_str(mem, ...): the record sent for descriptor d.
Record(kind, d) == [kind |-> kind, name |-> d.name, vbase |-> d.vbase, base |-> d.base]


------------------------------------------------------------------------------
(* allocate_buffer(mem): lock, map a fresh segment, take the next index,  *)
(* mark valid; start the session if needed; send ALLOC; poll the reply;   *)
(* write the reply into the descriptor; unlock.                           *)
AllocBegin(t, b) ==
  /\ lock = NoThread
  /\ lock' = t
  /\ indexCount' = indexCount + 1
  /\ maps' = maps \cup {<<run, indexCount>>}
  /\ arg' = [arg EXCEPT ![t] = b]
  /\ LET d == [valid |-> TRUE, name |-> b, vbase |-> <<run, indexCount>>,
               base |-> desc[b].base]
     IN /\ desc' = [desc EXCEPT ![b] = d]
        /\ \/ /\ mqEst /\ CanSendMgmt
              /\ SendMgmt(Record("alloc", d))
              /\ pc' = [pc EXCEPT ![t] = "alloc_wait"]
              /\ UNCHANGED stack
           \/ /\ ~mqEst
              /\ Call(t, "si_begin", "alloc_send", b)
              /\ UNCHANGED app2sim

\* The API call, from the application's own code, on a buffer_t it does
\* not hold.
Allocate(t, b) ==
  /\ alive /\ pc[t] = "idle" /\ b \notin owned /\ Headroom
  /\ Allowed("after_deinit", ~ended)
  /\ AllocBegin(t, b)
  /\ UNCHANGED <<run, handlers, mqEst, chan, mgmtTx, fds, owned,
                 csrMap, umasEst, numUmsg, ended, written, csrArg>>
  /\ UNCHANGED <<simVars, sim2app, csrQ, umsgQ, killQ, alive, wild, badSend, simSignalled>>

\* The nested call from session_init (csr_region) or init_umsg_system (umas).
AllocNested(t) ==
  /\ pc[t] = "alloc_start"
  /\ AllocBegin(t, arg[t])
  /\ UNCHANGED <<run, handlers, mqEst, chan, mgmtTx, fds, owned,
                 csrMap, umasEst, numUmsg, ended, written, csrArg>>
  /\ UNCHANGED <<simVars, sim2app, csrQ, umsgQ, killQ, alive, wild, badSend, simSignalled>>

\* Back in allocate_buffer after the session_init it started: send ALLOC.
AllocSend(t) ==
  /\ pc[t] = "alloc_send" /\ CanSendMgmt
  /\ SendMgmt(Record("alloc", desc[arg[t]]))
  /\ pc' = [pc EXCEPT ![t] = "alloc_wait"]
  /\ UNCHANGED <<appVars, stack, arg, csrArg, simVars, sim2app, csrQ, umsgQ,
                 killQ, wild, badSend, simSignalled>>

\* A slip: the parsed reply record is assigned to the descriptor whole.
AllocWaitRaw(t) ==
  /\ pc[t] = "alloc_wait" /\ sim2app # <<>>
  /\ desc' = [desc EXCEPT ![arg[t]] = Head(sim2app)]
  /\ sim2app' = Tail(sim2app)
  /\ lock' = NoThread
  /\ owned' = owned \cup {arg[t]}
  /\ Return(t)
  /\ UNCHANGED <<alive, run, handlers, mqEst, chan, mgmtTx, fds, indexCount,
                 maps, csrMap, umasEst, numUmsg, ended, written, csrArg,
                 simVars, app2sim, csrQ, umsgQ, killQ, wild, badSend, simSignalled>>

\* while (mqueue_recv(sim2app_rx, ...) == 0); ase_str_to_buffer_t writes
\* the name and fake-physical base of the first reply on the queue into
\* mem, whichever request it answers; unlock.
AllocWait(t) ==
  /\ pc[t] = "alloc_wait" /\ sim2app # <<>>
  /\ desc' = [desc EXCEPT ![arg[t]].name = Head(sim2app).name,
                          ![arg[t]].base = Head(sim2app).base]
  /\ sim2app' = Tail(sim2app)
  /\ lock' = NoThread
  /\ owned' = owned \cup {arg[t]}
  /\ Return(t)
  /\ UNCHANGED <<alive, run, handlers, mqEst, chan, mgmtTx, fds, indexCount,
                 maps, csrMap, umasEst, numUmsg, ended, written, csrArg,
                 simVars, app2sim, csrQ, umsgQ, killQ, wild, badSend, simSignalled>>

------------------------------------------------------------------------------
(* session_init: pthread_mutex_init(&lock), signal handlers, open the six  *)
(* queues, MQ_ESTABLISHED, malloc csr_region and allocate_buffer it.  The *)
(* code does not check for an established session; the documented order  *)
(* calls it once.                                                          *)
SessionInit(t) ==
  /\ alive /\ pc[t] = "idle" /\ Headroom
  /\ Allowed("session_again", ~mqEst)
  /\ pc' = [pc EXCEPT ![t] = "si_begin"]
  /\ UNCHANGED <<appVars, stack, arg, csrArg, simVars, queues, wild, badSend,
                 simSignalled>>

\* A slip: session_init without the pthread_mutex_init.
SessionInitBeginKeepLock(t) ==
  /\ pc[t] = "si_begin"
  /\ handlers' = TRUE
  /\ pc' = [pc EXCEPT ![t] = "si_open"]
  /\ UNCHANGED <<alive, run, mqEst, chan, mgmtTx, fds, lock, indexCount, maps,
                 desc, owned, csrMap, umasEst, numUmsg, ended, written,
                 stack, arg, csrArg, simVars, queues, wild, badSend, simSignalled>>

SessionInitBegin(t) ==
  /\ pc[t] = "si_begin"
  /\ lock' = NoThread
  /\ handlers' = TRUE
  /\ pc' = [pc EXCEPT ![t] = "si_open"]
  /\ UNCHANGED <<alive, run, mqEst, chan, mgmtTx, fds, indexCount, maps, desc,
                 owned, csrMap, umasEst, numUmsg, ended, written,
                 stack, arg, csrArg, simVars, queues, wild, badSend, simSignalled>>

SessionInitOpen(t) ==
  /\ pc[t] = "si_open"
  /\ chan' = "open" /\ mgmtTx' = "ok" /\ fds' = fds + 6
  /\ mqEst' = TRUE
  /\ pc' = [pc EXCEPT ![t] = "alloc_start"]
  /\ arg' = [arg EXCEPT ![t] = CSR]
  /\ UNCHANGED <<alive, run, handlers, lock, indexCount, maps, desc, owned,
                 csrMap, umasEst, numUmsg, ended, written, stack, csrArg,
                 simVars, queues, wild, badSend, simSignalled>>
------------------------------------------------------------------------------
(* deallocate_buffer(mem), without the lock: open a new app2sim_tx handle *)
(* (the old one is never closed) and send DEALLOC; then munmap.  `valid`  *)
(* is left as it was.  The usleep is timing only; munmap of a page-aligned *)
(* vbase of nonzero size does not fail, so its exit(1) is not reached.    *)
DeallocSend(t, b) ==
  /\ fds < FdLimit => Room(app2sim)
  /\ IF fds < FdLimit
     THEN /\ mgmtTx' = "ok" /\ fds' = fds + 1
          /\ app2sim' = Append(app2sim, Record("dealloc", desc[b]))
     ELSE /\ mgmtTx' = "bad" /\ UNCHANGED <<fds, app2sim>>
  /\ owned' = owned \ {b}
  /\ arg' = [arg EXCEPT ![t] = b]

DeallocUnmap(t) ==
  /\ pc[t] = "dl_unmap"
  /\ maps' = maps \ {desc[arg[t]].vbase}
  /\ Return(t)
  /\ UNCHANGED <<alive, run, handlers, mqEst, chan, mgmtTx, fds, lock,
                 indexCount, desc, owned, csrMap, umasEst, numUmsg, ended,
                 written, csrArg, simVars, queues, wild, badSend, simSignalled>>

Deallocate(t, b) ==
  /\ alive /\ pc[t] = "idle" /\ b \in Workspaces
  /\ Allowed("after_deinit", b \in owned /\ ~ended)
  /\ DeallocSend(t, b)
  /\ pc' = [pc EXCEPT ![t] = "dl_unmap"]
  /\ UNCHANGED <<alive, run, handlers, mqEst, chan, lock, indexCount, maps,
                 desc, csrMap, umasEst, numUmsg, ended, written, stack, csrArg,
                 simVars, sim2app, csrQ, umsgQ, killQ, wild, badSend, simSignalled>>

(* session_deinit: deallocate_buffer(csr_region), then send SIMKILL, close *)
(* the six handles, destroy the mutex.  Before any session_init,           *)
(* csr_region is NULL and deallocate_buffer faults on mem->memname.  A     *)
(* second call is documented usage and nothing in the code guards it.     *)
SessionDeinit(t) ==
  /\ alive /\ pc[t] = "idle"
  /\ Allowed("deinit_first", mqEst)
  /\ Allowed("deinit_busy", \A u \in Threads \ {t} : pc[u] = "idle")
  /\ IF mqEst
     THEN /\ DeallocSend(t, CSR)
          /\ Call(t, "dl_unmap", "deinit_close", CSR)
          /\ UNCHANGED <<alive, run, handlers, mqEst, chan, lock, indexCount,
                         maps, desc, csrMap, umasEst, numUmsg, ended, written,
                         csrArg, sim2app, csrQ, umsgQ, killQ>>
     ELSE /\ alive' = FALSE /\ ProcessReset /\ UNCHANGED <<run, queues>>
  /\ UNCHANGED <<simVars, wild, badSend, simSignalled>>

\* After the DEALLOC of the CSR map: SIMKILL through app2sim_simkill_tx,
\* mqueue_close of the six handles (a handle that failed to open stays
\* failed), pthread_mutex_destroy.
DeinitClose(t) ==
  /\ pc[t] = "deinit_close"
  /\ chan = "open" => Room(killQ)
  /\ IF chan = "open"
     THEN killQ' = Append(killQ, "simkill") /\ UNCHANGED badSend
     ELSE badSend' = TRUE /\ UNCHANGED killQ
  /\ fds' = fds - (IF chan = "open" THEN 5 ELSE 0) - (IF mgmtTx = "ok" THEN 1 ELSE 0)
  /\ mgmtTx' = IF mgmtTx = "ok" THEN "closed" ELSE mgmtTx
  /\ chan' = "closed"
  /\ ended' = TRUE
  /\ Return(t)
  /\ UNCHANGED <<alive, run, handlers, mqEst, lock, indexCount, maps, desc,
                 owned, csrMap, umasEst, numUmsg, written, csrArg, simVars,
                 app2sim, sim2app, csrQ, umsgQ, wild, simSignalled>>

------------------------------------------------------------------------------
(* csr_write(offset, data): update the shadow word if offset is inside    *)
(* CSR_MAP_SIZE, store through csr_region->vbase, send "offset data" on   *)
(* the CSR queue.  No lock is taken.  The store comes before the check    *)
(* that starts a missing session: with no session csr_region is NULL and *)
(* the store faults, so that session_init call is never reached.          *)
\* A slip: the shadow bound check one word short of CSR_MAP_SIZE.
CsrWriteShortWindow(t, o, v) ==
  /\ csrMap' = IF o < CsrMapSize - 4 THEN [csrMap EXCEPT ![o \div 4] = v] ELSE csrMap
  /\ wild' = (wild \/ Wild(desc[CSR].vbase) \/ o >= CsrMapSize)
  /\ written' = written \cup {o}
  /\ csrArg' = [csrArg EXCEPT ![t] = <<o, v>>]
  /\ pc' = [pc EXCEPT ![t] = "csr_send"]
  /\ UNCHANGED <<alive, run, handlers, mqEst, chan, mgmtTx, fds, lock,
                 indexCount, maps, desc, owned, umasEst, numUmsg, ended,
                 stack, arg, simVars, queues, badSend, simSignalled>>

CsrStore(t, o, v) ==
  /\ csrMap' = IF o < CsrMapSize THEN [csrMap EXCEPT ![o \div 4] = v] ELSE csrMap
  /\ wild' = (wild \/ Wild(desc[CSR].vbase) \/ o >= CsrMapSize)
  /\ written' = written \cup {o}
  /\ csrArg' = [csrArg EXCEPT ![t] = <<o, v>>]
  /\ pc' = [pc EXCEPT ![t] = "csr_send"]
  /\ UNCHANGED <<alive, run, handlers, mqEst, chan, mgmtTx, fds, lock,
                 indexCount, maps, desc, owned, umasEst, numUmsg, ended,
                 stack, arg, simVars, queues, badSend, simSignalled>>

\* The store through the NULL csr_region: the process gets SIGSEGV.
CsrFault ==
  /\ wild' = TRUE
  /\ alive' = FALSE /\ ProcessReset
  /\ UNCHANGED <<run, simVars, queues, badSend, simSignalled>>

CsrWrite(t, o, v) ==
  /\ alive /\ pc[t] = "idle"
  /\ Allowed("csr_first", mqEst) /\ Allowed("after_deinit", ~ended)
  /\ IF mqEst THEN CsrStore(t, o, v) ELSE CsrFault

CsrSend(t) ==
  /\ pc[t] = "csr_send"
  /\ chan = "open" => Room(csrQ)
  /\ IF chan = "open"
     THEN csrQ' = Append(csrQ, csrArg[t]) /\ UNCHANGED badSend
     ELSE badSend' = (chan = "closed" \/ badSend) /\ UNCHANGED csrQ
  /\ Return(t)
  /\ UNCHANGED <<appVars, csrArg, simVars, app2sim, sim2app, umsgQ, killQ,
                 wild, simSignalled>>

\* csr_read(offset): the shadow word, with no bound check.
CsrRead(o) == csrMap[o \div 4]

------------------------------------------------------------------------------
\* The application process ends: its mappings, descriptors, handles and
\* threads are gone; the queues and the simulator stay.
ProcessDies ==
  /\ alive' = FALSE
  /\ ProcessReset
  /\ UNCHANGED <<run, simVars, wild, badSend, simSignalled>>

(* init_umsg_system(umas, dsm): exit(1) if already established; else poll *)
(* CIRBSTAT in the DSM; num_umsg = 2^((cirbstat >> 4) & 0xF); allocate    *)
(* the UMAS of num_umsg pages; mark established.                          *)
UmsgInit(t) ==
  /\ alive /\ pc[t] = "idle"
  /\ Allowed("after_deinit", mqEst /\ ~ended /\ DSM \in owned)
  /\ IF umasEst
     THEN ProcessDies /\ UNCHANGED queues
     ELSE /\ Headroom
          /\ wild' = (wild \/ Wild(desc[DSM].vbase))
          /\ pc' = [pc EXCEPT ![t] = "umsg_poll"]
          /\ UNCHANGED <<appVars, stack, arg, csrArg, simVars, queues, badSend,
                         simSignalled>>

\* while ((*dsm_cirbstat & 0xFF) == 0); num_umsg = 2^((cirbstat >> 4) & 0xF)
UmsgPoll(t) ==
  /\ pc[t] = "umsg_poll" /\ cirbstat % 256 # 0
  /\ numUmsg' = 2 ^ ((cirbstat \div 16) % 16)
  /\ arg' = [arg EXCEPT ![t] = UMAS]
  /\ Call(t, "alloc_start", "umsg_est", UMAS)
  /\ UNCHANGED <<alive, run, handlers, mqEst, chan, mgmtTx, fds, lock,
                 indexCount, maps, desc, owned, csrMap, umasEst,
                 ended, written, csrArg, simVars, queues, wild, badSend, simSignalled>>

UmsgEstablished(t) ==
  /\ pc[t] = "umsg_est"
  /\ umasEst' = TRUE
  /\ Return(t)
  /\ UNCHANGED <<alive, run, handlers, mqEst, chan, mgmtTx, fds, lock,
                 indexCount, maps, desc, owned, csrMap, numUmsg,
                 ended, written, csrArg, simVars, queues, wild, badSend, simSignalled>>

\* send_umsg past the range check: memcpy the payload into slot msg_id of
\* the UMAS, send the notification.  Nothing checks umas_exist_status or
\* that the UMAS is still mapped.
UmsgSendOk(t, id) ==
  /\ wild' = (wild \/ Wild(desc[UMAS].vbase))
  /\ chan = "open" => Room(umsgQ)
  /\ IF chan = "open"
     THEN umsgQ' = Append(umsgQ, id) /\ UNCHANGED badSend
     ELSE badSend' = (chan = "closed" \/ badSend) /\ UNCHANGED umsgQ
  /\ UNCHANGED <<appVars, thrVars, simVars, app2sim, sim2app, csrQ, killQ,
                 simSignalled>>

\* send_umsg(umas, msg_id, data): exit(1) unless msg_id < num_umsg.
UmsgSend(t, id) ==
  /\ alive /\ pc[t] = "idle"
  /\ Allowed("umsg_after_deinit", umasEst) /\ Allowed("after_deinit", ~ended)
  /\ IF id < numUmsg THEN UmsgSendOk(t, id) ELSE ProcessDies /\ UNCHANGED queues

\* deinit_umsg_system(umas): deallocate_buffer(umas), then
\* umas_exist_status = UMAS_NOT_ESTABLISHED; num_umsg keeps its value.
UmsgDeinit(t) ==
  /\ alive /\ pc[t] = "idle"
  /\ Allowed("after_deinit", umasEst /\ ~ended)
  /\ DeallocSend(t, UMAS)
  /\ Call(t, "dl_unmap", "umsg_deinit_end", UMAS)
  /\ UNCHANGED <<alive, run, handlers, mqEst, chan, lock, indexCount, maps,
                 desc, csrMap, umasEst, numUmsg, ended, written, csrArg,
                 simVars, sim2app, csrQ, umsgQ, killQ, wild, badSend, simSignalled>>

UmsgDeinitEnd(t) ==
  /\ pc[t] = "umsg_deinit_end"
  /\ umasEst' = FALSE
  /\ Return(t)
  /\ UNCHANGED <<alive, run, handlers, mqEst, chan, mgmtTx, fds, lock,
                 indexCount, maps, desc, owned, csrMap, numUmsg, ended,
                 written, csrArg, simVars, queues, wild, badSend, simSignalled>>
------------------------------------------------------------------------------
\* send_simkill: the SIGTERM/SIGINT/SIGQUIT handler sends SIMKILL on
\* app2sim_simkill_tx and exits.  Before the queues are opened the handle
\* is 0 and the send fails; after session_deinit it is a closed handle.
AppSignal ==
  /\ alive /\ handlers
  /\ chan = "open" => Room(killQ)
  /\ IF chan = "open"
     THEN killQ' = Append(killQ, "simkill") /\ badSend' = badSend
     ELSE /\ badSend' = (chan = "closed" \/ badSend) /\ UNCHANGED killQ
  /\ alive' = FALSE /\ ProcessReset
  /\ UNCHANGED <<run, simVars, wild, app2sim, sim2app, csrQ, umsgQ, simSignalled>>

\* SIGKILL, or a signal that arrives before session_init installed the
\* handlers: the process ends at whatever step it is in, sending nothing.
AppKilled ==
  /\ alive
  /\ ProcessDies /\ UNCHANGED queues

\* main returns with every thread idle.
AppExit ==
  /\ alive /\ \A t \in Threads : pc[t] = "idle"
  /\ ProcessDies /\ UNCHANGED queues

\* A new application process opens the same queues (daemon modes).
AppStart ==
  /\ ~alive /\ run < MaxRuns /\ simUp
  /\ alive' = TRUE /\ run' = run + 1
  /\ UNCHANGED <<handlers, mqEst, chan, mgmtTx, fds, lock, indexCount, maps,
                 desc, owned, csrMap, umasEst, numUmsg, ended,
                 written, thrVars, simVars, queues, wild, badSend, simSignalled>>

------------------------------------------------------------------------------
(* ase_listener, one action per channel it polls; each call takes at most *)
(* one message per channel.  ase_alloc_action and ase_dealloc_action are  *)
(* not in src/: they follow the simulator's contract (a fresh fake base   *)
(* per ALLOC, recorded with the requester's name and mapping and echoed   *)
(* back; DEALLOC removes the entry of its base, a no-op if absent).       *)
FreshBase == CHOOSE x \in Bases : table[x] = NoEntry

AllocAction(m) ==
  /\ table' = [table EXCEPT ![FreshBase] = [name |-> m.name, vbase |-> m.vbase]]
  /\ sim2app' = Append(sim2app, [name |-> m.name, base |-> FreshBase])

DeallocAction(m) ==
  table' = IF m.base \in Bases THEN [table EXCEPT ![m.base] = NoEntry] ELSE table

\* ALLOC: ase_alloc_action; a DSM allocation resets CIRBSTAT.  The
\* is_csrmap test of this branch only picks the workspace-log line.
SimRecvAlloc ==
  /\ simUp /\ app2sim # <<>> /\ Head(app2sim).kind = "alloc" /\ Room(sim2app)
  /\ AllocAction(Head(app2sim))
  /\ cirbstat' = IF Head(app2sim).name = DSM THEN 0 ELSE cirbstat
  /\ app2sim' = Tail(app2sim)
  /\ UNCHANGED <<appVars, thrVars, simUp, testCnt, simCsr, csrQ, umsgQ, killQ,
                 wild, badSend, simSignalled>>

SimRecvDealloc ==
  /\ simUp /\ app2sim # <<>> /\ Head(app2sim).kind = "dealloc"
  /\ DeallocAction(Head(app2sim))
  /\ app2sim' = Tail(app2sim)
  /\ UNCHANGED <<appVars, thrVars, simUp, testCnt, cirbstat, simCsr, sim2app,
                 csrQ, umsgQ, killQ, wild, badSend, simSignalled>>

\* CSR channel: sscanf the offset and data, csr_write_dispatch.
SimRecvCsr ==
  /\ simUp /\ csrQ # <<>>
  /\ LET o == Head(csrQ)[1]  v == Head(csrQ)[2] IN
       simCsr' = IF o < CsrMapSize THEN [simCsr EXCEPT ![o \div 4] = v] ELSE simCsr
  /\ csrQ' = Tail(csrQ)
  /\ UNCHANGED <<appVars, thrVars, simUp, table, testCnt, cirbstat, app2sim,
                 sim2app, umsgQ, killQ, wild, badSend, simSignalled>>

SimRecvUmsg ==
  /\ simUp /\ umsgQ # <<>>
  /\ umsgQ' = Tail(umsgQ)
  /\ UNCHANGED <<appVars, thrVars, simVars, app2sim, sim2app, csrQ, killQ,
                 wild, badSend, simSignalled>>

\* start_simkill_countdown: unlink the session files, clean the IPCs, close
\* the workspace log and $finish the simulation.
StartSimkillCountdown == simUp' = FALSE

\* SIMKILL: glbl_test_cmplt_cnt++, then start_simkill_countdown in the
\* software-simkill mode, or in regression mode once every test is done.
SimRecvKill ==
  /\ simUp /\ killQ # <<>>
  /\ killQ' = Tail(killQ)
  /\ testCnt' = testCnt + 1
  /\ IF AseMode = "sw_simkill" \/ (AseMode = "regression" /\ testCnt + 1 = NumTests)
     THEN StartSimkillCountdown
     ELSE UNCHANGED simUp
  /\ UNCHANGED <<appVars, thrVars, table, cirbstat, simCsr, app2sim, sim2app,
                 csrQ, umsgQ, wild, badSend, simSignalled>>

\* The simulator's own SIGTERM/SIGINT handler: start_simkill_countdown.
SimSignal ==
  /\ SimSignals /\ simUp
  /\ StartSimkillCountdown /\ simSignalled' = TRUE
  /\ UNCHANGED <<appVars, thrVars, table, testCnt, cirbstat, simCsr, queues,
                 wild, badSend>>

\* ase_umsg_init (its caller is not in src/): once the DSM is registered
\* the simulator writes CIRBSTAT = num_umsg_log2 << 4 | 1 into it.
SimUmsgInit ==
  /\ simUp /\ cirbstat = 0
  /\ \E x \in Bases : table[x] # NoEntry /\ table[x].name = DSM
  /\ cirbstat' = UmsgLog2 * 16 + 1
  /\ UNCHANGED <<appVars, thrVars, simUp, table, testCnt, simCsr, queues,
                 wild, badSend, simSignalled>>

\* The system may stop once no application process will start again.
Terminated ==
  /\ ~alive /\ (run = MaxRuns \/ ~simUp)
  /\ UNCHANGED vars

------------------------------------------------------------------------------
ThreadStep(t) ==
  \/ AllocNested(t) \/ AllocSend(t) \/ AllocWait(t)
  \/ SessionInitBegin(t) \/ SessionInitOpen(t)
  \/ DeallocUnmap(t) \/ DeinitClose(t)
  \/ CsrSend(t) \/ UmsgPoll(t) \/ UmsgEstablished(t) \/ UmsgDeinitEnd(t)

ApiCall(t) ==
  \/ \E b \in Workspaces : Allocate(t, b) \/ Deallocate(t, b)
  \/ SessionInit(t) \/ SessionDeinit(t)
  \/ \E o \in Offsets, v \in Values : CsrWrite(t, o, v)
  \/ UmsgInit(t) \/ UmsgDeinit(t)
  \/ \E id \in SlotIds : UmsgSend(t, id)

SimStep ==
  \/ SimRecvAlloc \/ SimRecvDealloc \/ SimRecvCsr \/ SimRecvUmsg
  \/ SimRecvKill \/ SimUmsgInit

Next ==
  \/ \E t \in Threads : ApiCall(t) \/ ThreadStep(t)
  \/ AppSignal \/ AppKilled \/ AppExit \/ AppStart
  \/ SimStep \/ SimSignal
  \/ Terminated

(* The listener is called on every simulator clock, and a thread inside a *)
(* call keeps running: both are weakly fair.  SimUmsgInit being weakly    *)
(* fair assumes the RTL calls ase_umsg_init once the DSM exists.  The     *)
(* application's calls, signals, kills and exits, and a signal to the     *)
(* simulator, are not fair.                                               *)
Fairness ==
  /\ WF_vars(SimRecvAlloc) /\ WF_vars(SimRecvDealloc) /\ WF_vars(SimRecvCsr)
  /\ WF_vars(SimRecvUmsg) /\ WF_vars(SimRecvKill) /\ WF_vars(SimUmsgInit)
  /\ \A t \in Threads : WF_vars(ThreadStep(t))

Spec == Init /\ [][Next]_vars /\ Fairness
------------------------------------------------------------------------------
TypeOK ==
  /\ alive \in BOOLEAN /\ run \in 1 .. MaxRuns /\ handlers \in BOOLEAN
  /\ mqEst \in BOOLEAN /\ chan \in {"unopened", "open", "closed"}
  /\ mgmtTx \in {"unopened", "ok", "bad", "closed"} /\ fds \in 0 .. FdLimit
  /\ lock \in Threads \cup {NoThread} /\ indexCount \in 0 .. MaxIndex
  /\ maps \subseteq VBase /\ desc \in [Buffers -> Desc] /\ owned \subseteq Buffers
  /\ csrMap \in [Words -> Values]
  /\ umasEst \in BOOLEAN /\ numUmsg \in {0} \cup {2 ^ k : k \in 0 .. 15}
  /\ ended \in BOOLEAN /\ written \subseteq Offsets
  /\ pc \in [Threads -> PCs] /\ arg \in [Threads -> Buffers]
  /\ stack \in [Threads -> Seq([pc : PCs, arg : Buffers])]
  /\ csrArg \in [Threads -> (Offsets \cup {0}) \X Values]
  /\ simUp \in BOOLEAN /\ table \in [Bases -> Entry \cup {NoEntry}]
  /\ testCnt \in Nat /\ cirbstat \in Nat /\ simCsr \in [Words -> Values]
  /\ Len(app2sim) <= QueueCap /\ Len(sim2app) <= QueueCap
  /\ Len(csrQ) <= QueueCap /\ Len(umsgQ) <= QueueCap /\ Len(killQ) <= QueueCap
  /\ killQ \in Seq({"simkill"})
  /\ app2sim \in Seq(MgmtMsg) /\ sim2app \in Seq(Reply)
  /\ csrQ \in Seq(Offsets \X Values) /\ umsgQ \in Seq(SlotIds)
  /\ wild \in BOOLEAN /\ badSend \in BOOLEAN /\ simSignalled \in BOOLEAN

(* allocate_buffer blocks "until the matching reply" arrives: a buffer     *)
(* whose allocate_buffer returned and that was not deallocated carries the *)
(* name and fake base of its own ALLOC, and the simulator's entry at that  *)
(* base records this buffer and this process's mapping of it.  Breaking it *)
(* takes a reply consumed by the wrong waiter: another thread, or a later  *)
(* process after one was killed between its ALLOC and the reply.          *)
RoundTripTranslation ==
  \A b \in owned :
    /\ desc[b].name = b
    /\ simUp => table[desc[b].base] = [name |-> b, vbase |-> desc[b].vbase]

(* session_init allocates csr_region first, so the CSR map is the buffer of *)
(* index 0 (the simulator treats index 0 as the CSR map).                  *)
CsrMapIndexZero ==
  CSR \in owned /\ desc[CSR].vbase # NoMap => desc[CSR].vbase[2] = 0

(* No store of csr_write, send_umsg or init_umsg_system goes through an   *)
(* address that is not a live mapping of this process (NULL csr_region,   *)
(* an unmapped segment, an offset past CSR_MAP_SIZE).                     *)
NoWildStore == ~wild

(* Nothing is sent through a message-queue handle after session_deinit    *)
(* closed it (teardown, a second teardown, the signal handler).           *)
NoSendAfterClose == ~badSend

(* deallocate_buffer's fresh mq_open of app2sim never fails: the handle   *)
(* it sends DEALLOC through is valid.                                     *)
MgmtHandleValid == mgmtTx # "bad"

\* Thread t has a CSR write whose message is not yet on the CSR queue.
CsrPending(t) ==
  pc[t] = "csr_send" \/ \E i \in 1 .. Len(stack[t]) : stack[t][i].pc = "csr_send"

(* The csr_map shadow (what csr_read returns) agrees with the simulator's *)
(* CSR file for every offset written, once every write has been sent and  *)
(* the listener has drained the CSR queue.                                *)
CsrShadowCoherent ==
  (alive /\ simUp /\ csrQ = <<>> /\ \A t \in Threads : ~CsrPending(t))
    => \A o \in written : o < CsrMapSize => simCsr[o \div 4] = CsrRead(o)

(* Every API call the application makes returns while its process lives: *)
(* the allocate reply arrives, CIRBSTAT is published, the lock is freed,  *)
(* unless the simulator itself was stopped by a signal.                   *)
CallsReturn == \A t \in Threads : pc[t] # "idle" ~> (pc[t] = "idle" \/ simSignalled)

(* The application's num_umsg, decoded from the CIRBSTAT field the        *)
(* simulator writes in ase_umsg_init, equals the slot count the simulator *)
(* is configured with (2^num_umsg_log2): both sides agree on the slots.   *)
UmsgSlotsAgree == umasEst => numUmsg = 2 ^ UmsgLog2
====
