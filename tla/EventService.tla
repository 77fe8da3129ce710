---------------------------- MODULE EventService ----------------------------
(***************************************************************************)
(* What the AAL runtime's message delivery service promises its clients, *)
(* independent of locks and thread groups (the IMessageDeliveryService    *)
(* interface and the comments of _MessageDelivery):                       *)
(*                                                                         *)
(*  - QueueEvent returns true only while delivery is started, and false   *)
(*    otherwise;                                                          *)
(*  - an event accepted is run exactly once, and only while the service   *)
(*    is started;                                                         *)
(*  - Release returns only when every accepted event has been run ("this *)
(*    will cause all messages to be processed"), and nothing runs after;  *)
(*  - an accepted event is eventually run.                                *)
(*                                                                         *)
(* StopEventDelivery makes no visible step of its own: it only waits.     *)
(* MessageDelivery.tla is shown to implement this module.                 *)
(***************************************************************************)
CONSTANT Ids \* the events that can be queued

VARIABLES
    state,   \* "off" (never started), "on", "released"
    pending, \* accepted, not yet run
    done,    \* run by a handler
    refused  \* QueueEvent returned false

avars == <<state, pending, done, refused>>

Queued == pending \cup done \cup refused

Init ==
    /\ state = "off"
    /\ pending = {} /\ done = {} /\ refused = {}

Start ==
    /\ state = "off"
    /\ state' = "on"
    /\ UNCHANGED <<pending, done, refused>>

Accept(id) ==
    /\ state = "on" /\ id \notin Queued
    /\ pending' = pending \cup {id}
    /\ UNCHANGED <<state, done, refused>>

Refuse(id) ==
    /\ state # "on" /\ id \notin Queued
    /\ refused' = refused \cup {id}
    /\ UNCHANGED <<state, pending, done>>

Run(id) ==
    /\ state = "on" /\ id \in pending
    /\ pending' = pending \ {id}
    /\ done' = done \cup {id}
    /\ UNCHANGED <<state, refused>>

Release ==
    /\ state # "released" /\ pending = {}
    /\ state' = "released"
    /\ UNCHANGED <<pending, done, refused>>

Next ==
    \/ Start \/ Release
    \/ \E id \in Ids : Accept(id) \/ Refuse(id) \/ Run(id)

Spec == Init /\ [][Next]_avars /\ \A id \in Ids : WF_avars(Run(id))
=============================================================================
