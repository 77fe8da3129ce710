-------------------------- MODULE MessageDelivery --------------------------
(***************************************************************************)
(* The AAL runtime's message delivery service, _MessageDelivery           *)
(* (src/aaluser/aas/AALRuntime/_MessageDelivery.cpp; XLRTLib keeps a      *)
(* copy of it that differs only in namespaces).  Every operation takes    *)
(* the service's own lock (AutoLock(this)) and then works on              *)
(* m_Dispatcher, a pointer to an OSLThreadGroup whose worker threads run  *)
(* the queued events.  The thread group itself is not part of this        *)
(* repository; its Add, Drain and destructor are modelled by what the    *)
(* comments of _MessageDelivery rely on: Add appends to a work queue the  *)
(* workers take from, Drain and the destructor wait until that queue is  *)
(* empty and every worker is idle ("This will cause all messages to be    *)
(* processed").                                                           *)
(*                                                                         *)
(* Client threads call StartEventDelivery, StopEventDelivery, Release and *)
(* QueueEvent; a client call first waits for the lock (state "wait_op")  *)
(* and then runs its body.  A handler run by a worker may itself queue a  *)
(* further event through QueueEvent, which takes the same lock.           *)
(***************************************************************************)
EXTENDS Naturals, Sequences, FiniteSets

CONSTANTS
    Clients,      \* application threads calling the service
    Owner,        \* the client that starts, stops and releases it
    Workers,      \* worker threads of the OSLThreadGroup
    NoThread,     \* the lock is free
    MaxEvents,    \* bound on the events created (each QueueEvent makes one)
    HandlerQueues \* TRUE: a handler may call QueueEvent from its worker

ASSUME /\ Owner \in Clients
       /\ NoThread \notin Clients \cup Workers
       /\ Clients \cap Workers = {}
       /\ MaxEvents \in Nat \ {0}
       /\ HandlerQueues \in BOOLEAN

VARIABLES
    m_Dispatcher, \* "null" or "live": the OSLThreadGroup pointer
    lock,         \* owner of the service's lock, or NoThread
    work,         \* the thread group's queue of event ids
    cpc,          \* client thread: "idle", "wait_<op>", "drain", "delete"
    cev,          \* event id a client's pending QueueEvent carries
    wpc,          \* worker thread: "idle", "run", "wait_queue"
    wev,          \* event id a worker's pending QueueEvent carries
    nextId,       \* next fresh event id
    accepted,     \* events QueueEvent returned true for
    refused,      \* events QueueEvent returned false for
    dispatched,   \* events a worker has run
    released      \* ServiceBase::Release has run

vars == <<m_Dispatcher, lock, work, cpc, cev, wpc, wev, nextId,
          accepted, refused, dispatched, released>>

Ids == 1..MaxEvents
NoId == 0

\* Every worker idle and nothing queued: what Drain and the thread group's
\* destructor wait for.
Drained == work = <<>> /\ \A w \in Workers : wpc[w] = "idle"

Init ==
    /\ m_Dispatcher = "null"
    /\ lock = NoThread
    /\ work = <<>>
    /\ cpc = [c \in Clients |-> "idle"]
    /\ cev = [c \in Clients |-> NoId]
    /\ wpc = [w \in Workers |-> "idle"]
    /\ wev = [w \in Workers |-> NoId]
    /\ nextId = 1
    /\ accepted = {} /\ refused = {} /\ dispatched = {}
    /\ released = FALSE

-----------------------------------------------------------------------------
(* QueueEvent body, once the lock is held: NULL dispatcher returns false, *)
(* otherwise Add appends the event.  The three overloads differ only in  *)
(* what they attach to the event.                                         *)
QueueEventBody(id) ==
    IF m_Dispatcher = "null"
    THEN /\ refused' = refused \cup {id}
         /\ UNCHANGED <<work, accepted>>
    ELSE /\ work' = Append(work, id)
         /\ accepted' = accepted \cup {id}
         /\ UNCHANGED refused

\* A client thread enters one of the service's calls and waits for the
\* lock.  Start, Stop and Release are the owner's (the runtime that
\* allocated the service), made one after another and ending with
\* Release; QueueEvent may come from any holder of the pointer.
Call(c) ==
    /\ cpc[c] = "idle"
    /\ \/ /\ c = Owner /\ ~released
          /\ \E op \in {"wait_start", "wait_stop", "wait_release"} :
                cpc' = [cpc EXCEPT ![c] = op]
          /\ UNCHANGED <<cev, nextId>>
       \/ /\ nextId <= MaxEvents
          /\ cpc' = [cpc EXCEPT ![c] = "wait_queue"]
          /\ cev' = [cev EXCEPT ![c] = nextId]
          /\ nextId' = nextId + 1
    /\ UNCHANGED <<m_Dispatcher, lock, work, wpc, wev, accepted, refused,
                   dispatched, released>>

\* A plausible slip in StartEventDelivery: the NULL test dropped, so a
\* second start replaces the thread group and its queued events are lost.
StartEventDeliveryFresh(c) ==
    /\ cpc[c] = "wait_start" /\ lock = NoThread
    /\ m_Dispatcher' = "live"
    /\ work' = <<>>
    /\ cpc' = [cpc EXCEPT ![c] = "idle"]
    /\ UNCHANGED <<lock, cev, wpc, wev, nextId, accepted, refused,
                   dispatched, released>>

StartEventDelivery(c) ==
    /\ cpc[c] = "wait_start" /\ lock = NoThread
    /\ m_Dispatcher' = "live"
    /\ cpc' = [cpc EXCEPT ![c] = "idle"]
    /\ UNCHANGED <<lock, work, cev, wpc, wev, nextId, accepted, refused,
                   dispatched, released>>

\* StopEventDelivery: with a dispatcher it calls Drain with the lock held.
StopEventDelivery(c) ==
    /\ cpc[c] = "wait_stop" /\ lock = NoThread
    /\ IF m_Dispatcher = "live"
       THEN /\ lock' = c
            /\ cpc' = [cpc EXCEPT ![c] = "drain"]
       ELSE /\ cpc' = [cpc EXCEPT ![c] = "idle"]
            /\ UNCHANGED lock
    /\ UNCHANGED <<m_Dispatcher, work, cev, wpc, wev, nextId, accepted,
                   refused, dispatched, released>>

\* Drain returns; AutoLock releases the lock.
StopDrained(c) ==
    /\ cpc[c] = "drain" /\ Drained
    /\ lock' = NoThread
    /\ cpc' = [cpc EXCEPT ![c] = "idle"]
    /\ UNCHANGED <<m_Dispatcher, work, cev, wpc, wev, nextId, accepted,
                   refused, dispatched, released>>

\* Release: with a dispatcher it deletes it with the lock held; without one
\* it goes straight on to ServiceBase::Release.
Release(c) ==
    /\ cpc[c] = "wait_release" /\ lock = NoThread
    /\ IF m_Dispatcher = "live"
       THEN /\ lock' = c
            /\ cpc' = [cpc EXCEPT ![c] = "delete"]
            /\ UNCHANGED released
       ELSE /\ cpc' = [cpc EXCEPT ![c] = "idle"]
            /\ released' = TRUE
            /\ UNCHANGED lock
    /\ UNCHANGED <<m_Dispatcher, work, cev, wpc, wev, nextId, accepted,
                   refused, dispatched>>

\* A plausible slip in Release: delete without setting m_Dispatcher to NULL.
ReleaseDeletedDangling(c) ==
    /\ cpc[c] = "delete" /\ Drained
    /\ m_Dispatcher' = "dangling"
    /\ lock' = NoThread
    /\ cpc' = [cpc EXCEPT ![c] = "idle"]
    /\ released' = TRUE
    /\ UNCHANGED <<work, cev, wpc, wev, nextId, accepted, refused, dispatched>>

\* A plausible slip in Release: m_Dispatcher = NULL without the delete, so
\* the thread group is never drained and its workers keep running.
ReleaseDeletedLeak(c) ==
    /\ cpc[c] = "delete"
    /\ m_Dispatcher' = "null"
    /\ lock' = NoThread
    /\ cpc' = [cpc EXCEPT ![c] = "idle"]
    /\ released' = TRUE
    /\ UNCHANGED <<work, cev, wpc, wev, nextId, accepted, refused, dispatched>>

\* The thread group's destructor has drained it; m_Dispatcher = NULL,
\* ServiceBase::Release, and AutoLock releases the lock.
ReleaseDeleted(c) ==
    /\ cpc[c] = "delete" /\ Drained
    /\ m_Dispatcher' = "null"
    /\ lock' = NoThread
    /\ cpc' = [cpc EXCEPT ![c] = "idle"]
    /\ released' = TRUE
    /\ UNCHANGED <<work, cev, wpc, wev, nextId, accepted, refused, dispatched>>

QueueEvent(c) ==
    /\ cpc[c] = "wait_queue" /\ lock = NoThread
    /\ QueueEventBody(cev[c])
    /\ cpc' = [cpc EXCEPT ![c] = "idle"]
    /\ UNCHANGED <<m_Dispatcher, lock, cev, wpc, wev, nextId, dispatched,
                   released>>

-----------------------------------------------------------------------------
(* The thread group's workers.                                            *)

\* A worker takes the next event and runs its handler.
WorkerTake(w) ==
    /\ wpc[w] = "idle" /\ work # <<>>
    /\ wpc' = [wpc EXCEPT ![w] = "run"]
    /\ work' = Tail(work)
    /\ dispatched' = dispatched \cup {Head(work)}
    /\ UNCHANGED <<m_Dispatcher, lock, cpc, cev, wev, nextId, accepted,
                   refused, released>>

\* The handler returns, or (HandlerQueues) calls QueueEvent first.
WorkerFinish(w) ==
    /\ wpc[w] = "run"
    /\ \/ /\ wpc' = [wpc EXCEPT ![w] = "idle"]
          /\ UNCHANGED <<wev, nextId>>
       \/ /\ HandlerQueues /\ nextId <= MaxEvents
          /\ wpc' = [wpc EXCEPT ![w] = "wait_queue"]
          /\ wev' = [wev EXCEPT ![w] = nextId]
          /\ nextId' = nextId + 1
    /\ UNCHANGED <<m_Dispatcher, lock, work, cpc, cev, accepted, refused,
                   dispatched, released>>

\* The handler's QueueEvent gets the lock; then the handler returns.
WorkerQueueEvent(w) ==
    /\ wpc[w] = "wait_queue" /\ lock = NoThread
    /\ QueueEventBody(wev[w])
    /\ wpc' = [wpc EXCEPT ![w] = "idle"]
    /\ UNCHANGED <<m_Dispatcher, lock, cpc, cev, wev, nextId, dispatched,
                   released>>

\* The service is released and every thread has returned; nothing can
\* happen but further QueueEvent calls, which the event bound ends.
Terminated ==
    /\ released /\ nextId > MaxEvents
    /\ \A c \in Clients : cpc[c] = "idle"
    /\ Drained
    /\ UNCHANGED vars

Next ==
    \/ \E c \in Clients :
          \/ Call(c) \/ StartEventDelivery(c) \/ StopEventDelivery(c)
          \/ StopDrained(c) \/ Release(c) \/ ReleaseDeleted(c)
          \/ QueueEvent(c)
    \/ \E w \in Workers :
          WorkerTake(w) \/ WorkerFinish(w) \/ WorkerQueueEvent(w)
    \/ Terminated

\* Worker threads are always scheduled; a client blocked in Drain or in
\* the thread group's destructor returns once the wait is over (nothing
\* else can take the lock it holds).  No fairness for entering calls or
\* for winning the lock: pthread mutexes promise no order.
Fairness ==
    /\ \A w \in Workers : WF_vars(WorkerTake(w)) /\ WF_vars(WorkerFinish(w))
    /\ \A c \in Clients : WF_vars(StopDrained(c)) /\ WF_vars(ReleaseDeleted(c))

Spec == Init /\ [][Next]_vars /\ Fairness

-----------------------------------------------------------------------------
TypeOK ==
    /\ m_Dispatcher \in {"null", "live"}
    /\ lock \in Clients \cup Workers \cup {NoThread}
    /\ work \in Seq(Ids)
    /\ cpc \in [Clients -> {"idle", "wait_start", "wait_stop", "wait_release",
                            "wait_queue", "drain", "delete"}]
    /\ wpc \in [Workers -> {"idle", "run", "wait_queue"}]
    /\ nextId \in 1..MaxEvents + 1
    /\ released \in BOOLEAN

NoDispatchAfterRelease ==
    released => Drained

\* No wait-for cycle: a client holding the lock in Drain or in the thread
\* group's destructor while a worker's handler waits for that lock in
\* QueueEvent (the drain waits for the worker, the worker for the lock).
NoWaitCycle ==
    ~ \E c \in Clients, w \in Workers :
        /\ cpc[c] \in {"drain", "delete"}
        /\ wpc[w] = "wait_queue"

-----------------------------------------------------------------------------
(* Refinement: the service implements EventService.  The abstract state  *)
(* is "on" while a thread group exists and Release has not returned, the  *)
(* pending events are those accepted and not yet taken by a worker.       *)
ServiceState ==
    IF released THEN "released"
    ELSE IF m_Dispatcher = "live" THEN "on" ELSE "off"

Abstract == INSTANCE EventService WITH
                state <- ServiceState,
                pending <- accepted \ dispatched,
                done <- dispatched,
                refused <- refused

\* The service keeps the promises of EventService: QueueEvent's answer
\* matches whether delivery is started, every accepted event is run once
\* and only while started, Release returns only after all of them ran,
\* and every accepted event is eventually run.
ImplementsEventService == Abstract!Spec

=============================================================================
