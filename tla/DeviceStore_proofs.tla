------------------------- MODULE DeviceStore_proofs -------------------------
(***************************************************************************)
(* Theorems about DeviceStore, for any set of workers, devices, fields and *)
(* values and for every combination of the two faults; and, at the end, of *)
(* the store without faults, which implements RememberedDevices.           *)
(***************************************************************************)
EXTENDS DeviceStore, TLAPS

----------------------------------------------------------------------------
(* The functions on collections of records.                                *)

\* mergeDevice yields a record of the known device's kind, under the id the
\* two share.
LEMMA MergeType ==
    ASSUME NEW k \in KnownDevice, NEW d \in KnownDevice,
           k.deviceId = d.deviceId
    PROVE  /\ mergeDevice(k, d) \in KnownDevice
           /\ mergeDevice(k, d).deviceId = d.deviceId
<1>1. mergeInfo(k.info, d.info) \in Info
  BY DEF mergeInfo, Info, KnownDevice
<1>2. d.deviceId # NoId
  BY NoIdAssumption DEF KnownDevice
<1> QED
  BY <1>1, <1>2 DEF mergeDevice, KnownDevice

\* upsert keeps the store well-typed and keyed by device id.
LEMMA UpsertedKeyed ==
    ASSUME NEW D \in SUBSET KnownDevice, UniqueIds(D),
           NEW d \in KnownDevice, NEW E \in Upserted(D, d)
    PROVE  E \in SUBSET KnownDevice /\ UniqueIds(E)
<1>1. CASE WithId(D, d.deviceId) = {}
  <2>1. E = D \cup {d}
    BY <1>1 DEF Upserted
  <2> QED
    BY <1>1, <2>1 DEF WithId, UniqueIds
<1>2. CASE WithId(D, d.deviceId) # {}
  <2>1. PICK k \in WithId(D, d.deviceId) : E = (D \ {k}) \cup {mergeDevice(k, d)}
    BY <1>2 DEF Upserted
  <2>2. k \in D /\ k.deviceId = d.deviceId
    BY DEF WithId
  <2>3. /\ mergeDevice(k, d) \in KnownDevice
        /\ mergeDevice(k, d).deviceId = d.deviceId
    BY <2>2, MergeType
  <2> QED
    BY <2>1, <2>2, <2>3 DEF UniqueIds
<1> QED
  BY <1>1, <1>2

\* Erasing the records of an id leaves a keyed store.
LEMMA RemovedKeyed ==
    ASSUME NEW D \in SUBSET KnownDevice, UniqueIds(D), NEW id
    PROVE  Removed(D, id) \in SUBSET KnownDevice /\ UniqueIds(Removed(D, id))
BY DEF Removed, UniqueIds

\* What load() makes of any file content is a set of records with an id.
LEMMA DeserializeType ==
    ASSUME NEW D \in SUBSET AnyDevice
    PROVE  deserializeDevices(D) \in SUBSET KnownDevice
BY DEF deserializeDevices, AnyDevice, KnownDevice

\* Loading what was just saved gives back the records that were saved.
LEMMA LoadSaved ==
    ASSUME NEW D \in SUBSET KnownDevice
    PROVE  Loaded(json(D)) = D
BY NoIdAssumption DEF Loaded, json, deserializeDevices, KnownDevice

LEMMA LoadTorn == Loaded(torn) = {} /\ Loaded(missing) = {}
BY DEF Loaded, torn, missing, deserializeDevices

----------------------------------------------------------------------------
(* The inductive invariant.                                                *)

\* The mutex is held exactly by the worker that is inside saveLocked.
MutexInv == \A w \in Worker : pc[w] \in Busy <=> lock = w

\* No request thread outlives the process.
DownInv == ~up => \A w \in Worker : pc[w] = "idle"

\* A call has its argument; an upsert has passed the check for an empty id.
ArgInv == \A w \in Worker :
             /\ pc[w] = "upsert" => arg[w] \in KnownDevice
             /\ pc[w] = "remove" => arg[w] \in AnyDevice

\* A stream about to be closed holds what is in memory.
BufInv == \A w \in Worker : pc[w] = "closing" => buf[w] = m_devices

IInv == /\ TypeOK
        /\ MutexInv
        /\ DownInv
        /\ ArgInv
        /\ BufInv
        /\ StoreIsKeyed
        /\ SavedIsCurrent

LEMMA InitIInv == Init => IInv
<1> SUFFICES ASSUME Init PROVE IInv
  OBVIOUS
<1> USE DEF Init
<1>1. PICK D \in {{}} \cup InitialFiles :
        /\ file.devices = D
        /\ file \in [kind : {"missing", "torn", "json"}, devices : {D}]
  BY DEF missing, torn, json
<1>2. D \in SUBSET AnyDevice /\ UniqueIds(deserializeDevices(D))
  BY FilesAssumption DEF UniqueIds, deserializeDevices
<1>3. Loaded(file) \in SUBSET KnownDevice /\ UniqueIds(Loaded(file))
  BY <1>1, <1>2, DeserializeType DEF Loaded
<1>4. TypeOK
  BY <1>1, <1>2, <1>3 DEF TypeOK, PC
<1>5. MutexInv
  BY WorkerAssumption DEF MutexInv, Busy
<1>6. DownInv /\ ArgInv /\ BufInv
  BY DEF DownInv, ArgInv, BufInv
<1>7. StoreIsKeyed
  BY <1>3 DEF StoreIsKeyed, UniqueIds
<1>8. SavedIsCurrent
  BY DEF SavedIsCurrent
<1> QED
  BY <1>4, <1>5, <1>6, <1>7, <1>8 DEF IInv

\* The facts about one action are the same for the three that take the mutex:
\* memory changes to a keyed set of records, the holder goes on to save it.
LEMMA AcquireIInv ==
    ASSUME IInv, NEW w \in Worker, Acquire(w),
           pc[w] \in {"upsert", "remove", "save"},
           m_devices' \in SUBSET KnownDevice, UniqueIds(m_devices')
    PROVE  IInv'
<1> USE DEF Acquire
<1>1. TypeOK'
  BY DEF IInv, TypeOK, PC, Busy
<1>2. MutexInv'
  BY WorkerAssumption DEF IInv, TypeOK, MutexInv, Busy
<1>3. DownInv'
  BY DEF IInv, TypeOK, DownInv
<1>4. ArgInv'
  BY DEF IInv, TypeOK, ArgInv
<1>5. BufInv'
  BY WorkerAssumption DEF IInv, TypeOK, BufInv, MutexInv, Busy
<1>6. StoreIsKeyed'
  BY DEF IInv, StoreIsKeyed, Loaded
<1>7. SavedIsCurrent'
  BY WorkerAssumption DEF SavedIsCurrent
<1> QED
  BY <1>1, <1>2, <1>3, <1>4, <1>5, <1>6, <1>7 DEF IInv

\* Returning from a save leaves the invariant, provided the file can be
\* loaded and is either current or known to be stale.
LEMMA ReturnIInv ==
    ASSUME IInv, NEW w \in Worker, NEW failed \in BOOLEAN, Return(w, failed),
           pc[w] \in Busy,
           file' \in [kind : {"missing", "torn", "json"},
                      devices : SUBSET AnyDevice],
           UniqueIds(Loaded(file')),
           ~failed => Loaded(file') = m_devices
    PROVE  IInv'
<1> USE DEF Return
<1>1. TypeOK'
  BY DEF IInv, TypeOK, PC
<1>2. MutexInv'
  BY WorkerAssumption DEF IInv, TypeOK, MutexInv, Busy
<1>3. DownInv'
  BY DEF IInv, TypeOK, DownInv
<1>4. ArgInv'
  BY DEF IInv, TypeOK, ArgInv
<1>5. BufInv'
  BY DEF IInv, TypeOK, BufInv
<1>6. StoreIsKeyed'
  BY DEF IInv, StoreIsKeyed, Loaded
<1>7. SavedIsCurrent'
  BY DEF SavedIsCurrent, Loaded
<1> QED
  BY <1>1, <1>2, <1>3, <1>4, <1>5, <1>6, <1>7 DEF IInv

LEMMA NextIInv == IInv /\ [Next]_vars => IInv'
<1> SUFFICES ASSUME IInv, [Next]_vars PROVE IInv'
  OBVIOUS
<1> USE DEF IInv
<1>1. ASSUME NEW w \in Worker, NEW d \in AnyDevice, UpsertCall(w, d)
      PROVE  IInv'
  <2> USE <1>1 DEF UpsertCall
  <2>1. d \in KnownDevice
    BY DEF AnyDevice, KnownDevice
  <2>2. TypeOK'
    BY DEF TypeOK, PC
  <2>3. MutexInv' /\ DownInv' /\ BufInv'
    BY DEF TypeOK, MutexInv, DownInv, BufInv, Busy
  <2>4. ArgInv'
    BY <2>1 DEF TypeOK, ArgInv
  <2>5. StoreIsKeyed' /\ SavedIsCurrent'
    BY DEF StoreIsKeyed, SavedIsCurrent, Loaded
  <2> QED
    BY <2>2, <2>3, <2>4, <2>5
<1>2. ASSUME NEW w \in Worker, NEW id \in DeviceId \cup {NoId}, RemoveCall(w, id)
      PROVE  IInv'
  <2> USE <1>2 DEF RemoveCall
  <2>1. IdOnly(id) \in AnyDevice
    BY DEF IdOnly, AnyDevice, Info
  <2>2. TypeOK'
    BY <2>1 DEF TypeOK, PC
  <2>3. MutexInv' /\ DownInv' /\ BufInv'
    BY DEF TypeOK, MutexInv, DownInv, BufInv, Busy
  <2>4. ArgInv'
    BY <2>1 DEF TypeOK, ArgInv
  <2>5. StoreIsKeyed' /\ SavedIsCurrent'
    BY DEF StoreIsKeyed, SavedIsCurrent, Loaded
  <2> QED
    BY <2>2, <2>3, <2>4, <2>5
<1>3. ASSUME NEW w \in Worker, SaveCall(w)
      PROVE  IInv'
  BY <1>3 DEF SaveCall, TypeOK, PC, MutexInv, DownInv, BufInv, ArgInv, Busy,
              StoreIsKeyed, SavedIsCurrent, Loaded
<1>4. ASSUME NEW w \in Worker, List(w)
      PROVE  IInv'
  BY <1>4 DEF List, TypeOK, PC, MutexInv, DownInv, BufInv, ArgInv, Busy,
              StoreIsKeyed, SavedIsCurrent, Loaded
<1>5. ASSUME NEW w \in Worker, UpsertLocked(w)
      PROVE  IInv'
  <2>1. /\ arg[w] \in KnownDevice
        /\ m_devices' \in Upserted(m_devices, arg[w])
    BY <1>5 DEF UpsertLocked, ArgInv
  <2>2. m_devices' \in SUBSET KnownDevice /\ UniqueIds(m_devices')
    BY <2>1, UpsertedKeyed DEF TypeOK, StoreIsKeyed
  <2> QED
    BY <1>5, <2>2, AcquireIInv DEF UpsertLocked
<1>6. ASSUME NEW w \in Worker, RemoveLocked(w)
      PROVE  IInv'
  <2>1. m_devices' \in SUBSET KnownDevice /\ UniqueIds(m_devices')
    BY <1>6, RemovedKeyed DEF RemoveLocked, TypeOK, StoreIsKeyed
  <2> QED
    BY <1>6, <2>1, AcquireIInv DEF RemoveLocked
<1>7. ASSUME NEW w \in Worker, RemoveUnknown(w)
      PROVE  IInv'
  BY <1>7 DEF RemoveUnknown, TypeOK, PC, MutexInv, DownInv, BufInv, ArgInv,
              Busy, StoreIsKeyed, SavedIsCurrent, Loaded
<1>8. ASSUME NEW w \in Worker, SaveLocked(w)
      PROVE  IInv'
  <2>1. m_devices' \in SUBSET KnownDevice /\ UniqueIds(m_devices')
    BY <1>8 DEF SaveLocked, TypeOK, StoreIsKeyed
  <2> QED
    BY <1>8, <2>1, AcquireIInv DEF SaveLocked
<1>9. ASSUME NEW w \in Worker, SaveOpen(w)
      PROVE  IInv'
  <2> USE <1>9 DEF SaveOpen
  <2>1. lock = w
    BY DEF MutexInv, Busy
  <2>2. TypeOK'
    BY DEF TypeOK, PC, Busy, torn
  <2>3. MutexInv' /\ DownInv' /\ BufInv' /\ ArgInv'
    BY DEF TypeOK, MutexInv, DownInv, BufInv, ArgInv, Busy
  <2>4. StoreIsKeyed'
    BY LoadTorn DEF StoreIsKeyed, UniqueIds, Loaded
  <2>5. SavedIsCurrent'
    BY <2>1, WorkerAssumption DEF SavedIsCurrent
  <2> QED
    BY <2>2, <2>3, <2>4, <2>5
<1>10. ASSUME NEW w \in Worker, SaveOpenFails(w)
       PROVE  IInv'
  <2>1. pc[w] \in Busy /\ file' = file
    BY <1>10 DEF SaveOpenFails, Busy
  <2>2. UniqueIds(Loaded(file'))
    BY <2>1 DEF StoreIsKeyed
  <2> QED
    BY <1>10, <2>1, <2>2, ReturnIInv DEF SaveOpenFails, TypeOK
<1>11. ASSUME NEW w \in Worker, SaveWrite(w)
       PROVE  IInv'
  BY <1>11 DEF SaveWrite, TypeOK, PC, MutexInv, DownInv, BufInv, ArgInv, Busy,
               StoreIsKeyed, SavedIsCurrent, Loaded
<1>12. ASSUME NEW w \in Worker, SaveClose(w)
       PROVE  IInv'
  <2>1. file' = json(m_devices) /\ pc[w] \in Busy
    BY <1>12 DEF SaveClose, BufInv, Busy
  <2>2. Loaded(file') = m_devices
    BY <2>1, LoadSaved DEF TypeOK
  <2>3. file' \in [kind : {"missing", "torn", "json"}, devices : SUBSET AnyDevice]
    BY <2>1 DEF json, TypeOK, KnownDevice, AnyDevice
  <2>4. UniqueIds(Loaded(file'))
    BY <2>2 DEF StoreIsKeyed
  <2> QED
    BY <1>12, <2>1, <2>2, <2>3, <2>4, ReturnIInv DEF SaveClose
<1>13. ASSUME NEW w \in Worker, SaveCloseFails(w)
       PROVE  IInv'
  <2>1. file' = torn /\ pc[w] \in Busy
    BY <1>13 DEF SaveCloseFails, Busy
  <2>2. UniqueIds(Loaded(file'))
    BY <2>1, LoadTorn DEF UniqueIds
  <2>3. file' \in [kind : {"missing", "torn", "json"}, devices : SUBSET AnyDevice]
    BY <2>1 DEF torn
  <2> QED
    BY <1>13, <2>1, <2>2, <2>3, ReturnIInv DEF SaveCloseFails
<1>14. CASE Crash
  <2> USE <1>14 DEF Crash
  <2>1. TypeOK'
    BY DEF TypeOK, PC
  <2>2. MutexInv' /\ DownInv' /\ BufInv' /\ ArgInv'
    BY WorkerAssumption DEF MutexInv, DownInv, BufInv, ArgInv, Busy
  <2>3. StoreIsKeyed' /\ SavedIsCurrent'
    BY DEF StoreIsKeyed, UniqueIds, SavedIsCurrent, Loaded
  <2> QED
    BY <2>1, <2>2, <2>3
<1>15. CASE Start
  <2> USE <1>15 DEF Start
  <2>1. Loaded(file) \in SUBSET KnownDevice
    BY DeserializeType DEF TypeOK, Loaded
  <2>2. TypeOK'
    BY <2>1 DEF TypeOK
  <2>3. MutexInv' /\ DownInv' /\ ArgInv'
    BY DEF MutexInv, DownInv, ArgInv
  <2>4. BufInv'
    BY DEF BufInv, DownInv
  <2>5. StoreIsKeyed' /\ SavedIsCurrent'
    BY DEF StoreIsKeyed, SavedIsCurrent, Loaded
  <2> QED
    BY <2>2, <2>3, <2>4, <2>5
<1>16. CASE UNCHANGED vars
  BY <1>16 DEF vars, TypeOK, MutexInv, DownInv, BufInv, ArgInv,
               StoreIsKeyed, SavedIsCurrent, Loaded
<1> QED
  BY <1>1, <1>2, <1>3, <1>4, <1>5, <1>6, <1>7, <1>8, <1>9, <1>10, <1>11,
     <1>12, <1>13, <1>14, <1>15, <1>16
  DEF Next, WorkerStep, SaveStep

\* The state of the store is always well-typed.
THEOREM TypeCorrect == Spec => []TypeOK
<1>1. IInv => TypeOK
  BY DEF IInv
<1> QED
  BY <1>1, InitIInv, NextIInv, PTL DEF Spec

\* At most one record per device id, in memory and in the file, whatever
\* calls overlap and whatever fails.
THEOREM Keyed == Spec => []StoreIsKeyed
<1>1. IInv => StoreIsKeyed
  BY DEF IInv
<1> QED
  BY <1>1, InitIInv, NextIInv, PTL DEF Spec

\* Between two calls the file is current unless the last save failed.
THEOREM Current == Spec => []SavedIsCurrent
<1>1. IInv => SavedIsCurrent
  BY DEF IInv
<1> QED
  BY <1>1, InitIInv, NextIInv, PTL DEF Spec

----------------------------------------------------------------------------
(* What a step may not do.                                                 *)

\* In a keyed store upsert replaces one record by a merge that keeps its
\* non-empty fields, and touches no other.
LEMMA UpsertKeepsFields ==
    ASSUME NEW D \in SUBSET KnownDevice, UniqueIds(D),
           NEW d \in KnownDevice, NEW E \in Upserted(D, d),
           NEW a \in D, NEW e \in E, a.deviceId = e.deviceId,
           NEW f \in Field, a.info[f] # Empty
    PROVE  e.info[f] # Empty
<1>1. CASE WithId(D, d.deviceId) = {}
  BY <1>1 DEF Upserted, WithId, UniqueIds
<1>2. CASE WithId(D, d.deviceId) # {}
  <2>1. PICK k \in WithId(D, d.deviceId) : E = (D \ {k}) \cup {mergeDevice(k, d)}
    BY <1>2 DEF Upserted
  <2>2. k \in D /\ k.deviceId = d.deviceId
    BY DEF WithId
  <2>3. CASE e \in D
    BY <2>3 DEF UniqueIds
  <2>4. CASE e = mergeDevice(k, d)
    <3>1. a = k
      BY <2>2, <2>4, MergeType DEF UniqueIds
    <3>2. e.info[f] = IF d.info[f] # Empty THEN d.info[f] ELSE a.info[f]
      BY <2>4, <3>1 DEF mergeDevice, mergeInfo
    <3> QED
      BY <3>2
  <2> QED
    BY <2>1, <2>3, <2>4
<1> QED
  BY <1>1, <1>2

\* No call, in no order, with or without faults, empties a known field of a
\* device that stays in the store.
THEOREM NothingForgotten == Spec => NeverForgetsField
<1> DEFINE Keeps == (up /\ up') =>
              \A d \in m_devices, e \in m_devices' :
                 d.deviceId = e.deviceId =>
                     \A f \in Field : d.info[f] # Empty => e.info[f] # Empty
<1>1. IInv /\ [Next]_vars => Keeps
  <2> SUFFICES ASSUME IInv, [Next]_vars, up, up',
                      NEW d \in m_devices, NEW e \in m_devices',
                      d.deviceId = e.deviceId,
                      NEW f \in Field, d.info[f] # Empty
               PROVE  e.info[f] # Empty
    OBVIOUS
  <2>1. UniqueIds(m_devices) /\ m_devices \in SUBSET KnownDevice
    BY DEF IInv, StoreIsKeyed, TypeOK
  <2>2. CASE m_devices' \in SUBSET m_devices
    BY <2>1, <2>2 DEF UniqueIds
  <2>3. ASSUME NEW w \in Worker, UpsertLocked(w)
        PROVE  e.info[f] # Empty
    <3>1. arg[w] \in KnownDevice /\ m_devices' \in Upserted(m_devices, arg[w])
      BY <2>3 DEF UpsertLocked, IInv, ArgInv
    <3> QED
      BY <2>1, <3>1, UpsertKeepsFields
  <2>4. ASSUME NEW w \in Worker, RemoveLocked(w)
        PROVE  m_devices' \in SUBSET m_devices
    BY <2>4 DEF RemoveLocked, Removed
  <2>5. CASE Start
    BY <2>5 DEF Start
  <2>6. CASE Crash
    BY <2>6 DEF Crash
  <2>7. ASSUME NEW w \in Worker, WorkerStep(w), ~UpsertLocked(w), ~RemoveLocked(w)
        PROVE  m_devices' = m_devices
    BY <2>7 DEF WorkerStep, UpsertCall, RemoveCall, SaveCall, List,
                RemoveUnknown, SaveLocked, SaveStep, SaveOpen, SaveOpenFails,
                SaveWrite, SaveClose, SaveCloseFails, Return
  <2>8. CASE UNCHANGED vars
    BY <2>2, <2>8 DEF vars
  <2> QED
    BY <2>2, <2>3, <2>4, <2>5, <2>6, <2>7, <2>8 DEF Next
<1>2. IInv /\ [Next]_vars => [Keeps]_vars
  BY <1>1
<1> QED
  BY <1>2, InitIInv, NextIInv, PTL DEF Spec, NeverForgetsField

\* What list() answers is on disk, unless the last save failed.
THEOREM Durable == Spec => ListIsDurable
<1> DEFINE OnDisk == (listed' # listed /\ ~stale) => listed' = Loaded(file)
<1>1. IInv /\ [Next]_vars => [OnDisk]_vars
  <2> SUFFICES ASSUME IInv, Next, listed' # listed, ~stale
               PROVE  listed' = Loaded(file)
    OBVIOUS
  <2>1. PICK w \in Worker : List(w)
    BY DEF Next, WorkerStep, UpsertCall, RemoveCall, SaveCall, UpsertLocked,
           RemoveLocked, RemoveUnknown, SaveLocked, Acquire, SaveStep, SaveOpen,
           SaveOpenFails, SaveWrite, SaveClose, SaveCloseFails, Return,
           Crash, Start
  <2> QED
    BY <2>1 DEF List, IInv, SavedIsCurrent
<1> QED
  BY <1>1, InitIInv, NextIInv, PTL DEF Spec, ListIsDurable

----------------------------------------------------------------------------
(* The store without faults remembers exactly what its callers were told   *)
(* it holds, and implements RememberedDevices.                             *)

\* No write to disk fails and no process dies while the file is truncated.
FaultFree == ~DiskMayFail /\ ~CrashMidSave

\* E is D after one call of upsert, remove or save.
OneCall(D, E) == \/ E = D
                 \/ \E d \in KnownDevice : E \in Upserted(D, d)
                 \/ \E id \in Ids(D) : E = Removed(D, id)

\* No save ever fails; the file holds what was acknowledged unless a call is
\* rewriting it; and memory is at most the call of the mutex holder ahead.
FInv == /\ IInv
        /\ ~stale
        /\ ~Rewriting => acked = Loaded(file)
        /\ (up /\ lock # NoWorker) => OneCall(acked, m_devices)

LEMMA InitFInv == Init => FInv
<1> SUFFICES ASSUME Init PROVE FInv
  OBVIOUS
<1> QED
  BY InitIInv DEF Init, FInv

\* While no call is inside the mutex, memory is what was acknowledged.
LEMMA FreeAcked == FInv /\ up /\ lock = NoWorker => /\ ~Rewriting
                                                    /\ m_devices = acked
                                                    /\ m_devices = Loaded(file)
BY WorkerAssumption DEF FInv, IInv, SavedIsCurrent, MutexInv, Rewriting, Busy

\* Taking the mutex changes memory only.
LEMMA AcquireFInv ==
    ASSUME FInv, IInv', NEW w \in Worker, Acquire(w), up,
           OneCall(m_devices, m_devices')
    PROVE  FInv'
<1>1. ~Rewriting /\ m_devices = acked /\ acked = Loaded(file)
  BY FreeAcked DEF Acquire
<1>2. \A v \in Worker : pc'[v] \in {"writing", "closing"} => pc[v] = pc'[v]
  BY DEF Acquire, FInv, IInv, TypeOK
<1> QED
  BY <1>1, <1>2 DEF FInv, Acquire, Loaded, Rewriting

LEMMA NextFInv ==
    ASSUME FaultFree
    PROVE  FInv /\ [Next]_vars => FInv'
<1> SUFFICES ASSUME FInv, [Next]_vars PROVE FInv'
  OBVIOUS
<1> USE DEF FInv
<1>0. IInv'
  BY NextIInv
<1>1. ASSUME NEW w \in Worker, UpsertLocked(w)
      PROVE  FInv'
  <2>1. up /\ arg[w] \in KnownDevice /\ m_devices' \in Upserted(m_devices, arg[w])
    BY <1>1 DEF UpsertLocked, IInv, ArgInv, DownInv
  <2> QED
    BY <1>0, <1>1, <2>1, AcquireFInv DEF UpsertLocked, OneCall
<1>2. ASSUME NEW w \in Worker, RemoveLocked(w)
      PROVE  FInv'
  <2>1. up /\ arg[w].deviceId \in Ids(m_devices)
    BY <1>2 DEF RemoveLocked, IInv, DownInv, Ids, WithId
  <2> QED
    BY <1>0, <1>2, <2>1, AcquireFInv DEF RemoveLocked, OneCall
<1>3. ASSUME NEW w \in Worker, SaveLocked(w)
      PROVE  FInv'
  <2>1. up
    BY <1>3 DEF SaveLocked, IInv, DownInv
  <2> QED
    BY <1>0, <1>3, <2>1, AcquireFInv DEF SaveLocked, OneCall
<1>4. ASSUME NEW w \in Worker, SaveOpen(w)
      PROVE  FInv'
  <2>1. Rewriting'
    BY <1>4 DEF SaveOpen, Rewriting, IInv, TypeOK
  <2> QED
    BY <1>0, <1>4, <2>1 DEF SaveOpen
<1>5. ASSUME NEW w \in Worker, SaveWrite(w)
      PROVE  FInv'
  <2>1. Rewriting'
    BY <1>5 DEF SaveWrite, Rewriting, IInv, TypeOK
  <2> QED
    BY <1>0, <1>5, <2>1 DEF SaveWrite
<1>6. ASSUME NEW w \in Worker, SaveClose(w)
      PROVE  FInv'
  <2>1. file' = json(m_devices) /\ ~stale' /\ acked' = m_devices
    BY <1>6 DEF SaveClose, Return, IInv, BufInv
  <2>2. Loaded(file') = acked'
    BY <2>1, LoadSaved DEF IInv, TypeOK
  <2> QED
    BY <1>0, <1>6, <2>1, <2>2 DEF SaveClose, Return, Loaded
<1>7. ASSUME NEW w \in Worker,
             \/ SaveOpenFails(w)
             \/ SaveCloseFails(w)
      PROVE  FInv'
  BY <1>7 DEF SaveOpenFails, SaveCloseFails, FaultFree
<1>8. ASSUME NEW w \in Worker,
             \/ \E d \in AnyDevice : UpsertCall(w, d)
             \/ \E id \in DeviceId \cup {NoId} : RemoveCall(w, id)
             \/ SaveCall(w)
             \/ List(w)
             \/ RemoveUnknown(w)
      PROVE  FInv'
  <2>1. /\ UNCHANGED <<up, lock, m_devices, file, stale, acked>>
        /\ \A v \in Worker : pc'[v] \in {"writing", "closing"} <=>
                             pc[v] \in {"writing", "closing"}
    BY <1>8 DEF UpsertCall, RemoveCall, SaveCall, List, RemoveUnknown,
                IInv, TypeOK
  <2> QED
    BY <1>0, <2>1 DEF Rewriting, Loaded
<1>9. CASE Crash
  <2>1. ~Rewriting
    BY <1>9 DEF Crash, FaultFree
  <2> QED
    BY <1>0, <1>9, <2>1 DEF Crash, Loaded
<1>10. CASE Start
  <2>1. ~Rewriting /\ lock = NoWorker
    BY <1>10, WorkerAssumption
    DEF Start, IInv, DownInv, MutexInv, Rewriting, Busy, TypeOK
  <2> QED
    BY <1>0, <1>10, <2>1 DEF Start, Loaded, Rewriting
<1>11. CASE UNCHANGED vars
  BY <1>0, <1>11 DEF vars, Loaded, Rewriting
<1> QED
  BY <1>1, <1>2, <1>3, <1>4, <1>5, <1>6, <1>7, <1>8, <1>9, <1>10, <1>11
  DEF Next, WorkerStep, SaveStep

\* Without faults, what the store held when a call last returned it still
\* holds, also after a restart.
THEOREM FaultFreeRemembers ==
    ASSUME FaultFree
    PROVE  Spec => []RememberedAcrossRestarts
<1>1. FInv => RememberedAcrossRestarts
  BY FreeAcked DEF RememberedAcrossRestarts
<1>2. FInv /\ [Next]_vars => FInv'
  BY NextFInv
<1> QED
  BY <1>1, <1>2, InitFInv, PTL DEF Spec

\* Without faults, a forgotten device does not come back by itself.
THEOREM FaultFreeForgets ==
    ASSUME FaultFree
    PROVE  Spec => []ForgottenStaysForgotten
<1>1. FInv => ForgottenStaysForgotten
  BY FreeAcked DEF ForgottenStaysForgotten
<1>2. FInv /\ [Next]_vars => FInv'
  BY NextFInv
<1> QED
  BY <1>1, <1>2, InitFInv, PTL DEF Spec

----------------------------------------------------------------------------
(* Keyed sets of records as maps.                                          *)

LEMMA MapOfValue ==
    ASSUME NEW D, UniqueIds(D), NEW d \in D
    PROVE  MapOf(D)[d.deviceId] = d.info
<1>1. d.deviceId \in Ids(D)
  BY DEF Ids
<1>2. (CHOOSE e \in D : e.deviceId = d.deviceId) = d
  BY DEF UniqueIds
<1> QED
  BY <1>1, <1>2 DEF MapOf

LEMMA MapOfType ==
    ASSUME NEW D \in SUBSET KnownDevice, UniqueIds(D)
    PROVE  /\ Ids(D) \in SUBSET DeviceId
           /\ MapOf(D) \in [Ids(D) -> Info]
<1>1. Ids(D) \in SUBSET DeviceId
  BY DEF Ids, KnownDevice
<1>2. \A id \in Ids(D) : MapOf(D)[id] \in Info
  <2>1. SUFFICES ASSUME NEW d \in D PROVE MapOf(D)[d.deviceId] \in Info
    BY DEF Ids
  <2> QED
    BY MapOfValue DEF KnownDevice
<1> QED
  BY <1>1, <1>2 DEF MapOf

LEMMA RecordsOfMap ==
    ASSUME NEW D \in SUBSET KnownDevice, UniqueIds(D)
    PROVE  D = Remembered!Records(MapOf(D))
<1>1. DOMAIN MapOf(D) = Ids(D)
  BY DEF MapOf
<1>2. \A d \in D : d = [deviceId |-> d.deviceId, info |-> MapOf(D)[d.deviceId]]
  BY MapOfValue DEF KnownDevice
<1> QED
  BY <1>1, <1>2 DEF Remembered!Records, Ids

\* An upsert of the records is the upsert of the map.
LEMMA MapOfUpserted ==
    ASSUME NEW D \in SUBSET KnownDevice, UniqueIds(D),
           NEW d \in KnownDevice, NEW E \in Upserted(D, d)
    PROVE  MapOf(E) = MapUpserted(MapOf(D), d.deviceId, d.info)
<1> DEFINE M == [i \in Ids(D) \cup {d.deviceId} |->
                    IF i # d.deviceId THEN MapOf(D)[i]
                    ELSE IF d.deviceId \in Ids(D)
                         THEN mergeInfo(MapOf(D)[d.deviceId], d.info)
                    ELSE d.info]
<1>a. DOMAIN MapOf(D) = Ids(D)
  BY DEF MapOf
<1>b. MapUpserted(MapOf(D), d.deviceId, d.info) = M
  BY <1>a DEF MapUpserted
<1> HIDE DEF M
<1> SUFFICES MapOf(E) = M
  BY <1>b
<1> USE DEF M
<1>0. E \in SUBSET KnownDevice /\ UniqueIds(E)
  BY UpsertedKeyed
<1>1. CASE WithId(D, d.deviceId) = {}
  <2>1. E = D \cup {d} /\ d.deviceId \notin Ids(D)
    BY <1>1 DEF Upserted, WithId, Ids
  <2>2. Ids(E) = Ids(D) \cup {d.deviceId}
    BY <2>1 DEF Ids
  <2>3. ASSUME NEW e \in E PROVE MapOf(E)[e.deviceId] = M[e.deviceId]
    <3>1. MapOf(E)[e.deviceId] = e.info
      BY <1>0, MapOfValue
    <3>2. CASE e \in D
      <4>1. MapOf(D)[e.deviceId] = e.info /\ e.deviceId # d.deviceId
        BY <2>1, <3>2, MapOfValue DEF Ids
      <4> QED
        BY <2>2, <3>1, <4>1 DEF Ids
    <3>3. CASE e = d
      BY <2>1, <3>1, <3>3
    <3> QED
      BY <2>1, <3>2, <3>3
  <2>4. \A i \in Ids(E) : MapOf(E)[i] = M[i]
    BY <2>3 DEF Ids
  <2>5. MapOf(E) = [i \in Ids(E) |-> MapOf(E)[i]]
    BY DEF MapOf
  <2> QED
    BY <2>2, <2>4, <2>5
<1>2. CASE WithId(D, d.deviceId) # {}
  <2>1. PICK k \in WithId(D, d.deviceId) : E = (D \ {k}) \cup {mergeDevice(k, d)}
    BY <1>2 DEF Upserted
  <2>2. k \in D /\ k.deviceId = d.deviceId /\ d.deviceId \in Ids(D)
    BY DEF WithId, Ids
  <2>3. mergeDevice(k, d).deviceId = d.deviceId
    BY <2>2, MergeType
  <2>4. Ids(E) = Ids(D) \cup {d.deviceId}
    BY <2>1, <2>2, <2>3 DEF Ids
  <2>5. ASSUME NEW e \in E PROVE MapOf(E)[e.deviceId] = M[e.deviceId]
    <3>1. MapOf(E)[e.deviceId] = e.info
      BY <1>0, MapOfValue
    <3>2. CASE e \in D \ {k}
      <4>1. MapOf(D)[e.deviceId] = e.info
        BY <3>2, MapOfValue
      <4>2. e.deviceId # d.deviceId
        BY <2>2, <3>2 DEF UniqueIds
      <4> QED
        BY <2>4, <3>1, <4>1, <4>2 DEF Ids
    <3>3. CASE e = mergeDevice(k, d)
      <4>1. e.info = mergeInfo(k.info, d.info)
        BY <3>3 DEF mergeDevice
      <4>2. MapOf(D)[d.deviceId] = k.info
        BY <2>2, MapOfValue
      <4> QED
        BY <2>2, <2>3, <3>1, <3>3, <4>1, <4>2
    <3> QED
      BY <2>1, <3>2, <3>3
  <2>6. \A i \in Ids(E) : MapOf(E)[i] = M[i]
    BY <2>5 DEF Ids
  <2>7. MapOf(E) = [i \in Ids(E) |-> MapOf(E)[i]]
    BY DEF MapOf
  <2> QED
    BY <2>4, <2>6, <2>7
<1> QED
  BY <1>1, <1>2

\* A removal from the records is the removal from the map.
LEMMA MapOfRemoved ==
    ASSUME NEW D \in SUBSET KnownDevice, UniqueIds(D), NEW id \in Ids(D)
    PROVE  MapOf(Removed(D, id)) = MapRemoved(MapOf(D), id)
<1> DEFINE E == Removed(D, id)
<1> SUFFICES MapOf(E) = [i \in Ids(D) \ {id} |-> MapOf(D)[i]]
  BY DEF MapRemoved, MapOf
<1>1. UniqueIds(E)
  BY RemovedKeyed
<1>2. Ids(E) = Ids(D) \ {id}
  BY DEF Removed, WithId, Ids
<1>3. ASSUME NEW e \in E PROVE MapOf(E)[e.deviceId] = MapOf(D)[e.deviceId]
  <2>1. e \in D
    BY DEF Removed
  <2>2. MapOf(E)[e.deviceId] = e.info
    BY <1>1, MapOfValue
  <2>3. MapOf(D)[e.deviceId] = e.info
    BY <2>1, MapOfValue
  <2> QED
    BY <2>2, <2>3
<1>4. \A i \in Ids(E) : MapOf(E)[i] = MapOf(D)[i]
  BY <1>3 DEF Ids
<1>5. MapOf(E) = [i \in Ids(E) |-> MapOf(E)[i]]
  BY DEF MapOf
<1> QED
  BY <1>2, <1>4, <1>5

----------------------------------------------------------------------------
(* The refinement.                                                         *)

LEMMA InitRefines == Init => Remembered!Init
<1> SUFFICES ASSUME Init PROVE Remembered!Init
  OBVIOUS
<1>1. ~Rewriting
  BY DEF Init, Rewriting
<1>2. Loaded(file) \in SUBSET KnownDevice /\ UniqueIds(Loaded(file))
  BY InitIInv, DeserializeType DEF IInv, StoreIsKeyed, TypeOK, Loaded
<1>3. durable \in [Ids(Loaded(file)) -> Info] /\ Ids(Loaded(file)) \in SUBSET DeviceId
  BY <1>1, <1>2, MapOfType DEF durable
<1> QED
  BY <1>3 DEF Remembered!Init, Remembered!Info, Info, Init

\* The first step of a rewrite is where the call takes effect.
LEMMA OpenRefines ==
    ASSUME FInv, FInv', NEW w \in Worker, SaveOpen(w)
    PROVE  [Remembered!Next]_<<durable, listed>>
<1> DEFINE D == Loaded(file)
           E == m_devices
<1>1. lock = w /\ up
  BY DEF SaveOpen, FInv, IInv, MutexInv, DownInv, Busy
<1>2. ~Rewriting /\ Rewriting'
  BY <1>1 DEF SaveOpen, Rewriting, FInv, IInv, MutexInv, Busy, TypeOK
<1>3. durable = MapOf(D) /\ durable' = MapOf(E) /\ UNCHANGED listed
  BY <1>2 DEF durable, SaveOpen
<1>4. D \in SUBSET KnownDevice /\ UniqueIds(D)
  BY DeserializeType DEF FInv, IInv, TypeOK, StoreIsKeyed, Loaded
<1>5. OneCall(D, E)
  BY <1>1, <1>2, WorkerAssumption DEF FInv
<1>6. DOMAIN durable = Ids(D)
  BY <1>3 DEF MapOf
<1>7. CASE E = D
  BY <1>3, <1>7
<1>8. ASSUME NEW d \in KnownDevice, E \in Upserted(D, d)
      PROVE  Remembered!Next
  <2>1. Remembered!Upsert(d.deviceId, d.info)
    BY <1>3, <1>4, <1>6, <1>8, MapOfUpserted
    DEF Remembered!Upsert, Remembered!MapUpserted, Remembered!mergeInfo,
        MapUpserted, mergeInfo
  <2>2. d.deviceId \in DeviceId /\ d.info \in Info
    BY DEF KnownDevice
  <2> QED
    BY <2>1, <2>2 DEF Remembered!Next, Remembered!Info, Info
<1>9. ASSUME NEW id \in Ids(D), E = Removed(D, id)
      PROVE  Remembered!Next
  <2>1. Remembered!Remove(id)
    BY <1>3, <1>4, <1>6, <1>9, MapOfRemoved
    DEF Remembered!Remove, Remembered!MapRemoved, MapRemoved
  <2>2. id \in DeviceId
    BY <1>4 DEF Ids, KnownDevice
  <2> QED
    BY <2>1, <2>2 DEF Remembered!Next
<1> QED
  BY <1>5, <1>7, <1>8, <1>9 DEF OneCall

LEMMA NextRefines ==
    ASSUME FaultFree
    PROVE  FInv /\ FInv' /\ [Next]_vars => [Remembered!Next]_<<durable, listed>>
<1> SUFFICES ASSUME FInv, FInv', [Next]_vars
             PROVE  [Remembered!Next]_<<durable, listed>>
  OBVIOUS
<1>1. ASSUME NEW w \in Worker, List(w)
      PROVE  Remembered!Next
  <2>1. durable = MapOf(m_devices) /\ durable' = durable
    BY <1>1, FreeAcked DEF List, durable, Rewriting, Loaded
  <2>2. listed' = Remembered!Records(durable)
    BY <1>1, <2>1, RecordsOfMap DEF List, FInv, IInv, StoreIsKeyed, TypeOK
  <2> QED
    BY <2>1, <2>2 DEF Remembered!List, Remembered!Next
<1>2. ASSUME NEW w \in Worker, SaveOpen(w)
      PROVE  [Remembered!Next]_<<durable, listed>>
  BY <1>2, OpenRefines
<1>3. ASSUME NEW w \in Worker, SaveWrite(w)
      PROVE  UNCHANGED <<durable, listed>>
  <2>1. Rewriting /\ Rewriting'
    BY <1>3 DEF SaveWrite, Rewriting, FInv, IInv, TypeOK
  <2> QED
    BY <1>3, <2>1 DEF SaveWrite, durable
<1>4. ASSUME NEW w \in Worker, SaveClose(w)
      PROVE  UNCHANGED <<durable, listed>>
  <2>1. Rewriting /\ lock = w
    BY <1>4 DEF SaveClose, Rewriting, FInv, IInv, MutexInv, Busy
  <2>2. ~Rewriting'
    BY <1>4, <2>1 DEF SaveClose, Return, Rewriting, FInv, IInv, MutexInv, Busy, TypeOK
  <2>3. Loaded(file') = m_devices
    BY <1>4, LoadSaved DEF SaveClose, FInv, IInv, BufInv, TypeOK
  <2> QED
    BY <1>4, <2>1, <2>2, <2>3 DEF SaveClose, Return, durable, Loaded
<1>5. ASSUME NEW w \in Worker, Acquire(w), up
      PROVE  UNCHANGED <<durable, listed>>
  <2>1. ~Rewriting
    BY <1>5, FreeAcked DEF Acquire
  <2>2. ~Rewriting'
    BY <1>5, <2>1 DEF Acquire, Rewriting, FInv, IInv, TypeOK
  <2> QED
    BY <1>5, <2>1, <2>2 DEF Acquire, durable, Loaded
<1>6. ASSUME NEW w \in Worker,
             \/ UpsertLocked(w)
             \/ RemoveLocked(w)
             \/ SaveLocked(w)
      PROVE  UNCHANGED <<durable, listed>>
  BY <1>5, <1>6 DEF UpsertLocked, RemoveLocked, SaveLocked, FInv, IInv, DownInv
<1>7. ASSUME NEW w \in Worker,
             \/ \E d \in AnyDevice : UpsertCall(w, d)
             \/ \E id \in DeviceId \cup {NoId} : RemoveCall(w, id)
             \/ SaveCall(w)
             \/ RemoveUnknown(w)
      PROVE  UNCHANGED <<durable, listed>>
  <2>1. /\ UNCHANGED <<m_devices, file, listed>>
        /\ \A v \in Worker : pc'[v] \in {"writing", "closing"} <=>
                             pc[v] \in {"writing", "closing"}
    BY <1>7 DEF UpsertCall, RemoveCall, SaveCall, RemoveUnknown, FInv, IInv, TypeOK
  <2> QED
    BY <2>1 DEF Rewriting, durable, Loaded
<1>8. ASSUME NEW w \in Worker,
             \/ SaveOpenFails(w)
             \/ SaveCloseFails(w)
      PROVE  FALSE
  BY <1>8 DEF SaveOpenFails, SaveCloseFails, FaultFree
<1>9. CASE Crash
  BY <1>9 DEF Crash, FaultFree, durable, Rewriting, Loaded
<1>10. CASE Start
  <2>1. ~Rewriting
    BY <1>10 DEF Start, FInv, IInv, DownInv, Rewriting
  <2> QED
    BY <1>10, <2>1 DEF Start, durable, Rewriting, Loaded
<1>11. CASE UNCHANGED vars
  BY <1>11 DEF vars, durable, Rewriting, Loaded
<1> QED
  BY <1>1, <1>2, <1>3, <1>4, <1>6, <1>7, <1>8, <1>9, <1>10, <1>11
  DEF Next, WorkerStep, SaveStep

\* Without faults the store is an atomic durable map.
THEOREM Refinement ==
    ASSUME FaultFree
    PROVE  Spec => ImplementsRemembered
<1>1. FInv /\ [Next]_vars => FInv'
  BY NextFInv
<1>2. FInv /\ FInv' /\ [Next]_vars => [Remembered!Next]_<<durable, listed>>
  BY NextRefines
<1> QED
  BY <1>1, <1>2, InitFInv, InitRefines, PTL
  DEF Spec, ImplementsRemembered, Remembered!Spec, Remembered!rvars
=============================================================================
