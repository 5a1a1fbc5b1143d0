--------------------------- MODULE MCDeviceStore ---------------------------
(* Small instances of DeviceStore for TLC.                                 *)
EXTENDS DeviceStore, TLC

CONSTANTS d1, d2, f1, v1, v2, w1, w2

MCDeviceId == {d1, d2}
MCField    == {f1}
MCValue    == {v1, v2}
MCOneValue == {v1}
MCWorker   == {w1, w2}

Rec(id, v) == [deviceId |-> id, info |-> [f \in Field |-> v]]

\* An older save, and one edited by hand: a record that lost its id.
MCInitialFiles == 
    {{}, {Rec(d1, v1)}, {Rec(d1, Empty), Rec(NoId, v1)}}
============================================================================
