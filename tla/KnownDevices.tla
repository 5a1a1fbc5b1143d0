---------------------------- MODULE KnownDevices ----------------------------
(***************************************************************************)
(* The data of the device store: KnownDevice records and the pure          *)
(* functions of src/src/DeviceStore.cpp on collections of them.            *)
(*                                                                         *)
(* A record is a device id and its other fields.  A field is Empty when    *)
(* the code's string is empty or its number is 0; any other content is a   *)
(* member of Value.  The std::vector m_devices is abstracted to the set of *)
(* its records: nothing in the store depends on their order.               *)
(***************************************************************************)
EXTENDS FiniteSets

CONSTANTS
    DeviceId,   \* non-empty device ids (UDNs)
    NoId,       \* the empty device id
    Field,      \* the fields of a KnownDevice other than its id
    Value,      \* non-empty contents of a field
    Empty       \* the empty string, or 0 for port and lastSeen

ASSUME NoIdAssumption  == NoId \notin DeviceId
ASSUME EmptyAssumption == Empty \notin Value

Info == [Field -> Value \cup {Empty}]

\* What callers of the store and a hand-edited file can name.
AnyDevice == [deviceId : DeviceId \cup {NoId}, info : Info]

\* The records the store may hold.
KnownDevice == [deviceId : DeviceId, info : Info]

----------------------------------------------------------------------------

Ids(D) == {d.deviceId : d \in D}

WithId(D, id) == {d \in D : d.deviceId = id}

\* Mutation of mergeInfo: the discovered record replaces the known one.
OverwriteInfo(known, discovered) == discovered

\* The keepLatest lambda of mergeDevice, over all fields but the id.
mergeInfo(known, discovered) ==
    [f \in Field |-> IF discovered[f] # Empty THEN discovered[f] ELSE known[f]]

mergeDevice(known, discovered) ==
    [deviceId |-> IF discovered.deviceId # NoId THEN discovered.deviceId
                                                ELSE known.deviceId,
     info     |-> mergeInfo(known.info, discovered.info)]

\* Mutation of Upserted: the lookup is forgotten.
AppendAlways(D, d) == {D \cup {d}}

\* What upsert may leave in m_devices: find_if picks one record of that id.
Upserted(D, d) ==
    IF WithId(D, d.deviceId) = {}
    THEN {D \cup {d}}
    ELSE {(D \ {k}) \cup {mergeDevice(k, d)} : k \in WithId(D, d.deviceId)}

\* Mutation of Removed: find_if instead of remove_if, here of the first record,
\* and everything from there to the end is erased.
RemovedToEnd(D, id) == {}

\* remove_if followed by erase.
Removed(D, id) == D \ WithId(D, id)

\* Mutation of deserializeDevices: records without an id are kept.
KeepNameless(D) == D

\* deserializeDevices: records without an id are dropped.
deserializeDevices(D) == {d \in D : d.deviceId # NoId}

----------------------------------------------------------------------------

\* No two records share an id.
UniqueIds(D) == \A d, e \in D : d.deviceId = e.deviceId => d = e

\* A collection with unique ids, read as a map from ids to the other fields.
MapOf(D) == [id \in Ids(D) |-> (CHOOSE d \in D : d.deviceId = id).info]

\* upsert and remove of such a map.
MapUpserted(m, id, info) ==
    [i \in DOMAIN m \cup {id} |->
        IF i # id THEN m[i]
        ELSE IF id \in DOMAIN m THEN mergeInfo(m[id], info)
        ELSE info]

MapRemoved(m, id) == [i \in DOMAIN m \ {id} |-> m[i]]
=============================================================================
