-------------------------- MODULE RememberedDevices --------------------------
(***************************************************************************)
(* What the device store promises its callers: a durable map from device   *)
(* ids to what is known of each device, changed and read atomically.       *)
(* There is no crash here: "remembered across restarts"                    *)
(* (src/src/DeviceStore.hpp) means that a restart changes nothing.         *)
(***************************************************************************)
EXTENDS KnownDevices

VARIABLES
    known,      \* the map: device id -> what is known of it
    listed      \* the last answer of list()

rvars == <<known, listed>>

Init == /\ known  \in UNION {[S -> Info] : S \in SUBSET DeviceId}
        /\ listed = {}

\* Every record of a map, as list() returns them.
Records(m) == {[deviceId |-> id, info |-> m[id]] : id \in DOMAIN m}

Upsert(id, info) ==
    /\ known' = MapUpserted(known, id, info)
    /\ UNCHANGED listed

Remove(id) ==
    /\ id \in DOMAIN known
    /\ known' = MapRemoved(known, id)
    /\ UNCHANGED listed

List == /\ listed' = Records(known)
        /\ UNCHANGED known

Next == \/ \E id \in DeviceId, info \in Info : Upsert(id, info)
        \/ \E id \in DeviceId : Remove(id)
        \/ List

Spec == Init /\ [][Next]_rvars
=============================================================================
