----------------------------- MODULE DeviceStore -----------------------------
(***************************************************************************)
(* The file-backed device store, class DeviceStore of                      *)
(* src/src/DeviceStore.{hpp,cpp}, as the request threads use it: upsert,   *)
(* remove, save and list under one mutex, the rewrite of the JSON file     *)
(* step by step, crashes of the process and the load at start-up.          *)
(***************************************************************************)
EXTENDS KnownDevices

CONSTANTS
    Worker,         \* the request threads (one per HTTP connection)
    NoWorker,       \* value of lock when the mutex is free
    NoDevice,       \* value of arg when a worker is between two calls
    InitialFiles,   \* what devices.json may hold before the first start
    DiskMayFail,    \* may opening or writing the file fail?
    CrashMidSave    \* may the process die while the file is truncated?

ASSUME WorkerAssumption == NoWorker \notin Worker
ASSUME DeviceAssumption == NoDevice \notin AnyDevice
ASSUME FilesAssumption  ==
    \A D \in InitialFiles : /\ D \in SUBSET AnyDevice
                            /\ UniqueIds(deserializeDevices(D))
ASSUME FaultAssumption  == DiskMayFail \in BOOLEAN /\ CrashMidSave \in BOOLEAN

VARIABLES
    up,         \* is the process running?
    lock,       \* holder of m_mutex
    pc,         \* pc[w]: what worker w does next
    arg,        \* arg[w]: the argument of the call w is in
    m_devices,  \* the records in memory
    file,       \* devices.json on disk
    buf,        \* buf[w]: what w's ofstream holds before it is closed
    listed,     \* the last answer of list()
    (* history, read by properties only: *)
    stale,      \* did the last save of this process fail?
    acked       \* what m_devices held when the last call returned

vars == <<up, lock, pc, arg, m_devices, file, buf, listed, stale, acked>>

----------------------------------------------------------------------------
(* The file.  It is missing before the first save, torn while truncated or *)
(* cut short, and otherwise the JSON document of a set of records.         *)

missing == [kind |-> "missing", devices |-> {}]
torn    == [kind |-> "torn", devices |-> {}]
json(D) == [kind |-> "json", devices |-> D]

\* DeviceStore::load on file f: a missing file and an unparsable one both
\* give an empty store.
Loaded(f) == deserializeDevices(f.devices)

Busy == {"opening", "writing", "closing"}   \* inside saveLocked
PC   == {"idle", "upsert", "remove", "save"} \cup Busy

Init == /\ up = FALSE
        /\ lock = NoWorker
        /\ pc = [w \in Worker |-> "idle"]
        /\ arg = [w \in Worker |-> NoDevice]
        /\ m_devices = {}
        /\ file \in {missing, torn} \cup {json(D) : D \in InitialFiles}
        /\ buf = [w \in Worker |-> {}]
        /\ listed = {}
        /\ stale = FALSE
        /\ acked = Loaded(file)

----------------------------------------------------------------------------
(* Calls, up to the point where they wait for the mutex.                   *)

\* The argument of remove: only the id matters.
IdOnly(id) == [deviceId |-> id, info |-> [f \in Field |-> Empty]]

\* A device without an id makes upsert return false at once: no step.
UpsertCall(w, d) ==
    /\ up /\ pc[w] = "idle"
    /\ d.deviceId # NoId
    /\ pc'  = [pc EXCEPT ![w] = "upsert"]
    /\ arg' = [arg EXCEPT ![w] = d]
    /\ UNCHANGED <<up, lock, m_devices, file, buf, listed, stale, acked>>

RemoveCall(w, id) ==
    /\ up /\ pc[w] = "idle"
    /\ pc'  = [pc EXCEPT ![w] = "remove"]
    /\ arg' = [arg EXCEPT ![w] = IdOnly(id)]
    /\ UNCHANGED <<up, lock, m_devices, file, buf, listed, stale, acked>>

SaveCall(w) ==
    /\ up /\ pc[w] = "idle"
    /\ pc' = [pc EXCEPT ![w] = "save"]
    /\ UNCHANGED <<up, lock, arg, m_devices, file, buf, listed, stale, acked>>

\* Mutation of List: the copy is made without the mutex.
ListUnlocked(w) ==
    /\ up /\ pc[w] = "idle"
    /\ listed' = m_devices
    /\ UNCHANGED <<up, lock, pc, arg, m_devices, file, buf, stale, acked>>

\* list() copies the vector under the mutex: one step.
List(w) ==
    /\ up /\ pc[w] = "idle" /\ lock = NoWorker
    /\ listed' = m_devices
    /\ UNCHANGED <<up, lock, pc, arg, m_devices, file, buf, stale, acked>>

----------------------------------------------------------------------------
(* The critical sections of upsert, remove and save, up to saveLocked.     *)

\* Mutation of Acquire: the mutex is given back before the save.
AcquireBriefly(w) == /\ lock = NoWorker
                     /\ pc' = [pc EXCEPT ![w] = "opening"]
                     /\ UNCHANGED <<up, lock, arg, file, buf, listed, stale, acked>>

Acquire(w) == /\ lock = NoWorker
              /\ lock' = w
              /\ pc'   = [pc EXCEPT ![w] = "opening"]
              /\ UNCHANGED <<up, arg, file, buf, listed, stale, acked>>

\* Mutations of UpsertLocked and RemoveLocked: the change is not saved.
Unsaved(w) == /\ lock = NoWorker
              /\ pc'    = [pc EXCEPT ![w] = "idle"]
              /\ arg'   = [arg EXCEPT ![w] = NoDevice]
              /\ acked' = m_devices'
              /\ UNCHANGED <<up, lock, file, buf, listed, stale>>

UpsertUnsaved(w) == /\ pc[w] = "upsert"
                    /\ m_devices' \in Upserted(m_devices, arg[w])
                    /\ Unsaved(w)

RemoveUnsaved(w) == /\ pc[w] = "remove"
                    /\ WithId(m_devices, arg[w].deviceId) # {}
                    /\ m_devices' = Removed(m_devices, arg[w].deviceId)
                    /\ Unsaved(w)

UpsertLocked(w) == /\ pc[w] = "upsert"
                   /\ m_devices' \in Upserted(m_devices, arg[w])
                   /\ Acquire(w)

RemoveLocked(w) == /\ pc[w] = "remove"
                   /\ WithId(m_devices, arg[w].deviceId) # {}
                   /\ m_devices' = Removed(m_devices, arg[w].deviceId)
                   /\ Acquire(w)

\* remove() of an unknown id returns false without saving.
RemoveUnknown(w) ==
    /\ pc[w] = "remove" /\ lock = NoWorker
    /\ WithId(m_devices, arg[w].deviceId) = {}
    /\ pc'  = [pc EXCEPT ![w] = "idle"]
    /\ arg' = [arg EXCEPT ![w] = NoDevice]
    /\ UNCHANGED <<up, lock, m_devices, file, buf, listed, stale, acked>>

SaveLocked(w) == /\ pc[w] = "save"
                 /\ UNCHANGED m_devices
                 /\ Acquire(w)

----------------------------------------------------------------------------
(* saveLocked: open with truncation, write to the stream, close it.  upsert *)
(* and remove ignore its result: they return true however it ends.         *)

\* The lock_guard goes out of scope and the call returns.
Return(w, failed) ==
    /\ lock'  = NoWorker
    /\ pc'    = [pc EXCEPT ![w] = "idle"]
    /\ arg'   = [arg EXCEPT ![w] = NoDevice]
    /\ buf'   = [buf EXCEPT ![w] = {}]
    /\ stale' = failed
    /\ acked' = m_devices
    /\ UNCHANGED <<up, m_devices, listed>>

SaveOpen(w) == /\ pc[w] = "opening"
               /\ file' = torn
               /\ pc'   = [pc EXCEPT ![w] = "writing"]
               /\ UNCHANGED <<up, lock, arg, m_devices, buf, listed, stale, acked>>

\* Mutation of SaveOpenFails: an early return that leaves the mutex locked.
SaveOpenFailsLocked(w) ==
    /\ DiskMayFail
    /\ pc[w] = "opening"
    /\ pc' = [pc EXCEPT ![w] = "idle"]
    /\ UNCHANGED <<up, lock, arg, m_devices, file, buf, listed, stale, acked>>

SaveOpenFails(w) == /\ DiskMayFail
                    /\ pc[w] = "opening"
                    /\ UNCHANGED file
                    /\ Return(w, TRUE)

SaveWrite(w) == /\ pc[w] = "writing"
                /\ buf' = [buf EXCEPT ![w] = m_devices]
                /\ pc'  = [pc EXCEPT ![w] = "closing"]
                /\ UNCHANGED <<up, lock, arg, m_devices, file, listed, stale, acked>>

SaveClose(w) == /\ pc[w] = "closing"
                /\ file' = json(buf[w])
                /\ Return(w, FALSE)

\* A full disk: the file stays cut short.
SaveCloseFails(w) == /\ DiskMayFail
                     /\ pc[w] = "closing"
                     /\ file' = torn
                     /\ Return(w, TRUE)

SaveStep(w) == \/ SaveOpen(w)  \/ SaveOpenFails(w)
               \/ SaveWrite(w)
               \/ SaveClose(w) \/ SaveCloseFails(w)

----------------------------------------------------------------------------
(* The process: SIGINT and SIGTERM call exit(0) (src/src/App.cpp) at any   *)
(* point of any thread; starting it again constructs a new store.          *)

\* Some worker has truncated the file and not written it back yet.
Rewriting == \E w \in Worker : pc[w] \in {"writing", "closing"}

Crash == /\ up
         /\ Rewriting => CrashMidSave
         /\ up' = FALSE
         /\ lock' = NoWorker
         /\ pc' = [w \in Worker |-> "idle"]
         /\ arg' = [w \in Worker |-> NoDevice]
         /\ m_devices' = {}
         /\ buf' = [w \in Worker |-> {}]
         /\ UNCHANGED <<file, listed, stale, acked>>

Start == /\ ~up
         /\ up' = TRUE
         /\ m_devices' = Loaded(file)
         /\ stale' = FALSE
         /\ UNCHANGED <<lock, pc, arg, file, buf, listed, acked>>

----------------------------------------------------------------------------

WorkerStep(w) == \/ \E d \in AnyDevice : UpsertCall(w, d)
                 \/ \E id \in DeviceId \cup {NoId} : RemoveCall(w, id)
                 \/ SaveCall(w)
                 \/ List(w)
                 \/ UpsertLocked(w)
                 \/ RemoveLocked(w)
                 \/ RemoveUnknown(w)
                 \/ SaveLocked(w)
                 \/ SaveStep(w)

Next == \/ \E w \in Worker : WorkerStep(w)
        \/ Crash
        \/ Start

Spec == Init /\ [][Next]_vars

\* A thread inside saveLocked waits for nobody: the scheduler lets it finish.
FairSpec == Spec /\ \A w \in Worker : WF_vars(SaveStep(w))

----------------------------------------------------------------------------
(* Properties.                                                             *)

TypeOK == /\ up \in BOOLEAN
          /\ lock \in Worker \cup {NoWorker}
          /\ pc \in [Worker -> PC]
          /\ arg \in [Worker -> AnyDevice \cup {NoDevice}]
          /\ m_devices \in SUBSET KnownDevice
          /\ file \in [kind : {"missing", "torn", "json"},
                       devices : SUBSET AnyDevice]
          /\ buf \in [Worker -> SUBSET KnownDevice]
          /\ listed \in SUBSET KnownDevice
          /\ stale \in BOOLEAN
          /\ acked \in SUBSET KnownDevice

\* At most one record per device id, in memory and in the file the next
\* start will load, whatever calls overlap and whatever fails: upsert and
\* remove address a device by its id alone (find_if, remove_if).
StoreIsKeyed == UniqueIds(m_devices) /\ UniqueIds(Loaded(file))

\* Whenever no call is inside the mutex and the last save did not fail, a
\* restart would load exactly what is in memory: no save of an older state
\* ever overwrites that of a newer one.
SavedIsCurrent == (up /\ lock = NoWorker /\ ~stale) => Loaded(file) = m_devices

\* "remembered across restarts" (DeviceStore.hpp): whatever the store held
\* when a call last returned, it still holds, also after a restart.
RememberedAcrossRestarts == (up /\ lock = NoWorker) => acked \subseteq m_devices

\* remove "removes a device by id and persists the store": a device that was
\* forgotten does not come back unless it is upserted again.
ForgottenStaysForgotten ==
    (up /\ lock = NoWorker) => Ids(m_devices) \subseteq Ids(acked)

\* "previously known fields are kept otherwise" (mergeDevice): no call, in no
\* order, empties a known field of a device that stays in the store.
NeverForgetsField ==
    [][(up /\ up') =>
         \A d \in m_devices, e \in m_devices' :
            d.deviceId = e.deviceId =>
                \A f \in Field : d.info[f] # Empty => e.info[f] # Empty]_vars

\* What list() answers (the reply to GET /api/devices) is on disk already,
\* unless the last save failed: nobody is told of a device that a restart
\* would lose.
ListIsDurable ==
    [][(listed' # listed /\ ~stale) => listed' = Loaded(file)]_vars

\* The mutex is released by every holder, whatever fails while it saves.
LockReleased == \A w \in Worker : (lock = w) ~> (lock # w)

\* The durable map: what a restart would load, except while the file is
\* being rewritten, when the call has already taken effect.
durable == MapOf(IF Rewriting THEN m_devices ELSE Loaded(file))

Remembered == INSTANCE RememberedDevices WITH known <- durable

\* Without faults the store is an atomic durable map: every crash and restart
\* is a stuttering step of it, every call at most one step.
ImplementsRemembered == Remembered!Spec

=============================================================================
