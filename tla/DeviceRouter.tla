----------------------------- MODULE DeviceRouter -----------------------------
(***************************************************************************)
(* Explicit routing to saved devices: the registry of devices (devices.py, *)
(* DeviceStore) and devices_call (device_router.py).  Connectors of one    *)
(* computer share the database; each serves calls on its own event loop.   *)
(* A call binds its operation ID to the request and to the endpoint it has *)
(* read, fetches the device's catalog, claims the one dispatch of the ID   *)
(* and forwards it; it may be cut off at each await.                       *)
(*                                                                         *)
(* Left out: names and the recorded observations of devices, devices_list, *)
(* devices_probe and devices_tools beyond the ID they bind.                *)
(***************************************************************************)
EXTENDS Naturals, FiniteSets

CONSTANTS
    Endpoints,  \* SSH aliases, or resource, client and profile
    Requests,   \* tools with their arguments
    Ops,        \* operation IDs callers choose
    Callers,    \* calls under way in one of the connectors
    MaxDevices, \* devices ever registered
    None

DeviceIds == 1 .. MaxDevices

VARIABLES
    device,     \* registered device ID -> its endpoint, or None
    added,      \* how many IDs were drawn
    routed,     \* routed_operations: what an ID is bound to, and dispatched
    caller,     \* call -> [stage, op, route]
    forwarded   \* history: the routes forwarded under an ID

vars == <<device, added, routed, caller, forwarded>>

Routes == [request : Requests, id : DeviceIds, endpoint : Endpoints]
Free == [stage |-> "free", op |-> None, route |-> None]

Init ==
    /\ device = [i \in DeviceIds |-> None]
    /\ added = 0
    /\ routed = [o \in Ops |-> None]
    /\ caller = [k \in Callers |-> Free]
    /\ forwarded = [o \in Ops |-> <<0, {}>>]

\* A new ID each time: an endpoint removed and added again is another device.
Add(e) ==
    /\ added < MaxDevices
    /\ \A i \in DeviceIds : device[i] # e
    /\ added' = added + 1
    /\ device' = [device EXCEPT ![added'] = e]
    /\ UNCHANGED <<routed, caller, forwarded>>

Remove(i) ==
    /\ device[i] # None
    /\ device' = [device EXCEPT ![i] = None]
    /\ UNCHANGED <<added, routed, caller, forwarded>>

\* Mutant: INSERT OR REPLACE forgets that the ID was dispatched.
Rebound(o, r) == [bound |-> r, dispatched |-> FALSE]

\* _bind: INSERT OR IGNORE.
Bound(o, r) == IF routed[o] = None THEN [bound |-> r, dispatched |-> FALSE] ELSE routed[o]

\* execute up to the catalog; an ID bound to something else ends the call.
Call(k, o, q, i) ==
    LET r == [request |-> q, id |-> i, endpoint |-> device[i]]
    IN  /\ caller[k].stage = "free" /\ device[i] # None
        /\ routed' = [routed EXCEPT ![o] = Bound(o, r)]
        /\ routed'[o].bound = r
        /\ caller' = [caller EXCEPT ![k] = [stage |-> "asking", op |-> o, route |-> r]]
        /\ UNCHANGED <<device, added, forwarded>>

\* The catalog fails, the tool is not in it, or the dispatch was claimed before.
Refuse(k) ==
    /\ caller[k].stage = "asking"
    /\ caller' = [caller EXCEPT ![k] = Free]
    /\ UNCHANGED <<device, added, routed, forwarded>>

Claim(k) ==
    LET o == caller[k].op
    IN  /\ caller[k].stage = "asking" /\ ~ routed[o].dispatched
        /\ routed' = [routed EXCEPT ![o].dispatched = TRUE]
        /\ caller' = [caller EXCEPT ![k].stage = "claimed"]
        /\ UNCHANGED <<device, added, forwarded>>

Forward(k) ==
    LET o == caller[k].op
    IN  /\ caller[k].stage = "claimed"
        /\ forwarded' = [forwarded EXCEPT ![o] = <<@[1] + 1, @[2] \cup {caller[k].route}>>]
        /\ caller' = [caller EXCEPT ![k].stage = "waiting"]
        /\ UNCHANGED <<device, added, routed>>

\* The reply, its loss, a cancellation, or the end of the connector.
Return(k) ==
    /\ caller[k].stage \in {"asking", "claimed", "waiting"}
    /\ caller' = [caller EXCEPT ![k] = Free]
    /\ UNCHANGED <<device, added, routed, forwarded>>

Next ==
    \/ \E e \in Endpoints : Add(e)
    \/ \E i \in DeviceIds : Remove(i)
    \/ \E k \in Callers, o \in Ops, q \in Requests, i \in DeviceIds : Call(k, o, q, i)
    \/ \E k \in Callers : Refuse(k) \/ Claim(k) \/ Forward(k) \/ Return(k)

Spec == Init /\ [][Next]_vars

\* An operation ID is forwarded at most once, over every connector, retry and
\* crash, and as the request and to the endpoint it was first bound to, even
\* when the device was removed and registered again since
\* (device_router.py: "removal or re-registration cannot reuse an ID").
ForwardedOnce ==
    \A o \in Ops : /\ forwarded[o][1] <= 1
                   /\ forwarded[o][2] # {} => forwarded[o][2] = {routed[o].bound}

\* Every variable has its type.
TypeOK ==
    /\ device \in [DeviceIds -> Endpoints \cup {None}] /\ added \in 0 .. MaxDevices
    /\ routed \in [Ops -> [bound : Routes, dispatched : BOOLEAN] \cup {None}]
    /\ caller \in [Callers -> [stage : {"free", "asking", "claimed", "waiting"},
                               op : Ops \cup {None}, route : Routes \cup {None}]]
    /\ forwarded \in [Ops -> Nat \X SUBSET Routes]
=============================================================================
