------------------------- MODULE ControlPoint_proofs -------------------------
(***************************************************************************)
(* Theorems about ControlPoint, for any number of request threads and      *)
(* scans, any devices, announcements and description documents.            *)
(***************************************************************************)
EXTENDS ControlPoint, DiscoveryCache_proofs, WellFoundedInduction

----------------------------------------------------------------------------
(* Descriptions.                                                           *)

LEMMA Smallest ==
    ASSUME NEW S \in SUBSET Nat, S # {}
    PROVE  \E i \in S : \A j \in S : i <= j
<1>1. PICK i \in S : \A j \in S : ~(<<j, i>> \in OpToRel(<, Nat))
  BY WFMin, NatLessThanWellFounded, Zenon
<1>2. ASSUME NEW j \in S
      PROVE  i <= j
  <2>1. i \in Nat /\ j \in Nat
    OBVIOUS
  <2>2. <<j, i>> \in Nat \X Nat /\ ~(<<j, i>>[1] < <<j, i>>[2])
    BY <1>1, <2>1 DEF OpToRel
  <2> QED
    BY <2>1, <2>2
<1> QED
  BY <1>2

\* What is taken from a description is an AVTransport service of it, or nothing.
LEMMA ParsedService ==
    ASSUME NEW services \in Seq(Service)
    PROVE  /\ parseDeviceDescription(services).controlUrl \in ControlUrl \cup {Empty}
           /\ parseDeviceDescription(services).serviceType \in AVTransport \cup {Empty}
           /\ parseDeviceDescription(services).controlUrl # Empty =>
                 parseDeviceDescription(services).serviceType \in AVTransport
<1> DEFINE found == {i \in DOMAIN services : services[i].serviceType \in AVTransport}
           first == CHOOSE i \in found : \A j \in found : i <= j
<1>1. CASE found = {}
  BY <1>1 DEF parseDeviceDescription
<1>2. CASE found # {}
  <2>1. found \in SUBSET Nat
    OBVIOUS
  <2>2. \E i \in found : \A j \in found : i <= j
    BY <1>2, <2>1, Smallest
  <2>3. first \in found
    BY <2>2
  <2>4. services[first] \in Service /\ services[first].serviceType \in AVTransport
    BY <2>3
  <2>5. parseDeviceDescription(services) = services[first]
    BY <1>2 DEF parseDeviceDescription
  <2> QED
    BY <2>4, <2>5 DEF Service
<1> QED
  BY <1>1, <1>2

----------------------------------------------------------------------------
(* Entries of the cache and of a snapshot.                                 *)

\* What the entry filed under k says of a device was announced by that device.
Own(k, entry) ==
    k # NoId => /\ entry.locationUrl \in {e.location : e \in Announced(k)}
                /\ entry.deviceType \in
                      {e.deviceType : e \in Announced(k)} \cup {Empty}
                /\ entry.serviceType \in
                      {e.serviceType : e \in Announced(k)} \cup {Empty}

SnapshotOK(cache) == /\ CacheOK(cache)
                     /\ \A k \in DOMAIN cache : Own(k, cache[k])

LEMMA HandledOwn ==
    ASSUME NEW cache, SnapshotOK(cache), NEW e \in NetEvent
    PROVE  SnapshotOK(Handled(cache, e))
<1> DEFINE new == Handled(cache, e)
<1>1. e \in Event
  BY EventAssumption
<1>2. CacheOK(new)
  BY <1>1, HandledOK DEF SnapshotOK
<1>3. ASSUME NEW k \in DOMAIN new
      PROVE  Own(k, new[k])
  <2>1. CASE k \in DOMAIN cache /\ new[k] = cache[k]
    BY <2>1 DEF SnapshotOK
  <2>2. CASE k = e.id /\ new[k] = InfoOf(e) /\ e.id # NoId
    <3>1. e \in Announced(k)
      BY <2>2 DEF Announced
    <3>2. CASE e.location = Empty
      BY <2>2, <3>1, <3>2 DEF Own, InfoOf, parseDiscoveredDevice, NoInfo
    <3>3. CASE e.location # Empty
      BY <2>2, <3>1, <3>3 DEF Own, InfoOf, parseDiscoveredDevice, NoInfo
    <3> QED
      BY <3>2, <3>3
  <2>3. CASE /\ k = e.id /\ k \in DOMAIN cache /\ e.id # NoId
             /\ new[k] = Refreshed(cache[k], InfoOf(e))
    <3> DEFINE info == InfoOf(e)
    <3>1. e \in Announced(k)
      BY <2>3 DEF Announced
    <3>2. /\ info.locationUrl \in {e.location, Empty}
          /\ info.deviceType \in {e.deviceType, Empty}
          /\ info.serviceType \in {e.serviceType, Empty}
      BY DEF InfoOf, parseDiscoveredDevice, NoInfo
    <3>3. /\ new[k].locationUrl \in {cache[k].locationUrl, info.locationUrl}
          /\ info.locationUrl = Empty => new[k].locationUrl = cache[k].locationUrl
          /\ new[k].deviceType \in {cache[k].deviceType, info.deviceType}
          /\ new[k].serviceType \in {cache[k].serviceType, info.serviceType}
      BY <2>3 DEF Refreshed, Latest
    <3>4. Own(k, cache[k])
      BY <2>3 DEF SnapshotOK
    <3> HIDE DEF info
    <3> QED
      BY <3>1, <3>2, <3>3, <3>4 DEF Own
  <2>4. CASE e.id = NoId /\ k = e.id
    BY <2>4 DEF Own
  <2> QED
    BY <2>1, <2>2, <2>3, <2>4 DEF Handled, Remembering, InfoOf
<1> QED
  BY <1>2, <1>3 DEF SnapshotOK

LEMMA EmptySnapshot == SnapshotOK(<< >>)
<1>1. DOMAIN << >> = {} /\ << >> = [k \in DOMAIN << >> |-> << >>[k]]
  OBVIOUS
<1> QED
  BY <1>1 DEF SnapshotOK, CacheOK, IsCache

LEMMA SmallerSnapshot ==
    ASSUME NEW cache, SnapshotOK(cache), NEW K
    PROVE  SnapshotOK([k \in DOMAIN cache \ K |-> cache[k]])
BY DEF SnapshotOK, CacheOK, IsCache

----------------------------------------------------------------------------
(* Stored records.                                                         *)

\* What a record filed under id may hold.
GoodRecord(id, r) ==
    /\ r \in Record
    /\ r.locationUrl \in {e.location : e \in Announced(id)}
    /\ r.deviceType \in {e.deviceType : e \in Announced(id)} \cup {Empty}
    /\ r.serviceType \in {e.serviceType : e \in Announced(id)} \cup
          {service.serviceType : service \in Described(id)} \cup {Empty}
    /\ r.controlUrl \in {service.controlUrl : service \in Described(id)} \cup {Empty}

\* The record a scan makes of an entry it filed under k.
LEMMA RememberedOK ==
    ASSUME NEW k \in DeviceId, NEW entry, EntryOK(k, entry), Own(k, entry),
           NEW time \in 1..MaxTime, NEW downloaded \in BOOLEAN,
           downloaded => entry.locationUrl # Empty
    PROVE  LET r == Remembered(entry, time, downloaded)
           IN  /\ GoodRecord(k, r)
               /\ r.controlUrl # Empty => r.serviceType \in AVTransport
               /\ r.lastSeen = time
<1> DEFINE services == IF downloaded THEN document[entry.locationUrl] ELSE << >>
           description == parseDeviceDescription(services)
           r == Remembered(entry, time, downloaded)
<1>1. entry \in deviceInfo
  BY DEF EntryOK
<1>2. services \in Seq(Service)
  BY <1>1, DocumentAssumption DEF deviceInfo
<1>3. /\ description.controlUrl \in ControlUrl \cup {Empty}
      /\ description.serviceType \in AVTransport \cup {Empty}
      /\ description.controlUrl # Empty => description.serviceType \in AVTransport
  BY <1>2, ParsedService
<1>4. r = [deviceType  |-> entry.deviceType,
           locationUrl |-> entry.locationUrl,
           controlUrl  |-> description.controlUrl,
           serviceType |-> IF description.serviceType # Empty
                           THEN description.serviceType ELSE entry.serviceType,
           lastSeen    |-> time]
  BY DEF Remembered
<1>5. ~downloaded => description.controlUrl = Empty /\ description.serviceType = Empty
  BY DEF parseDeviceDescription
<1>6. k # NoId
  BY IdAssumption
<1>7. downloaded => description \in Described(k)
  <2> SUFFICES ASSUME downloaded PROVE description \in Described(k)
    OBVIOUS
  <2>1. description = parseDeviceDescription(document[entry.locationUrl])
    OBVIOUS
  <2>2. PICK e \in Announced(k) : entry.locationUrl = e.location
    BY <1>6 DEF Own
  <2> HIDE DEF description
  <2> QED
    BY <2>1, <2>2 DEF Described
<1>8. AVTransport \subseteq ServiceType /\ Empty \notin AVTransport
  BY ServiceAssumption, StringAssumption
<1> HIDE DEF description, services
<1>9. r \in Record
  BY <1>1, <1>3, <1>4, <1>8 DEF Record, deviceInfo
<1>10. /\ r.locationUrl \in {e.location : e \in Announced(k)}
       /\ r.deviceType \in {e.deviceType : e \in Announced(k)} \cup {Empty}
  BY <1>4, <1>6 DEF Own
<1>11. /\ r.serviceType \in {e.serviceType : e \in Announced(k)} \cup
             {service.serviceType : service \in Described(k)} \cup {Empty}
       /\ r.controlUrl \in {service.controlUrl : service \in Described(k)} \cup {Empty}
  BY <1>4, <1>5, <1>6, <1>7 DEF Own
<1>12. /\ r.controlUrl # Empty => r.serviceType \in AVTransport
       /\ r.lastSeen = time
  BY <1>3, <1>4, <1>8
<1> QED
  BY <1>9, <1>10, <1>11, <1>12 DEF GoodRecord

LEMMA Merged ==
    ASSUME NEW id \in DeviceId, NEW old, GoodRecord(id, old),
           NEW new, GoodRecord(id, new)
    PROVE  /\ GoodRecord(id, Store!mergeInfo(old, new))
           /\ Store!mergeInfo(old, new).lastSeen = new.lastSeen
           /\ new.controlUrl # Empty =>
                 Store!mergeInfo(old, new).controlUrl = new.controlUrl
           /\ new.serviceType # Empty =>
                 Store!mergeInfo(old, new).serviceType = new.serviceType
<1> DEFINE m == Store!mergeInfo(old, new)
<1>1. m = [f \in Field |-> IF new[f] # Empty THEN new[f] ELSE old[f]]
  BY DEF Store!mergeInfo
<1>2. /\ m.deviceType = IF new.deviceType # Empty THEN new.deviceType ELSE old.deviceType
      /\ m.locationUrl = IF new.locationUrl # Empty THEN new.locationUrl ELSE old.locationUrl
      /\ m.controlUrl = IF new.controlUrl # Empty THEN new.controlUrl ELSE old.controlUrl
      /\ m.serviceType = IF new.serviceType # Empty THEN new.serviceType ELSE old.serviceType
      /\ m.lastSeen = IF new.lastSeen # Empty THEN new.lastSeen ELSE old.lastSeen
  BY <1>1 DEF Field
<1>3. m = [deviceType |-> m.deviceType, locationUrl |-> m.locationUrl,
           controlUrl |-> m.controlUrl, serviceType |-> m.serviceType,
           lastSeen |-> m.lastSeen]
  BY <1>1 DEF Field
<1> HIDE DEF m
<1>4. old \in Record /\ new \in Record
  BY DEF GoodRecord
<1>5. new.lastSeen # Empty
  BY <1>4, TimeAssumption DEF Record
<1>6. m \in Record
  BY <1>2, <1>3, <1>4 DEF Record
<1> QED
  BY <1>2, <1>5, <1>6 DEF GoodRecord, m

StoreOK == /\ DOMAIN known \subseteq DeviceId
           /\ known \in [DOMAIN known -> Record]
           /\ undescribed \subseteq DOMAIN known
           /\ OwnDataOnly
           /\ CastTargetMatches

LEMMA UpsertOK ==
    ASSUME StoreOK, NEW id \in DeviceId, NEW r, GoodRecord(id, r),
           r.controlUrl # Empty => r.serviceType \in AVTransport,
           Upsert(id, r)
    PROVE  /\ StoreOK'
           /\ DOMAIN known' = DOMAIN known \cup {id}
           /\ \A i \in DOMAIN known \ {id} : known'[i] = known[i]
           /\ known'[id].lastSeen = r.lastSeen
<1> DEFINE new == IF id \in DOMAIN known THEN Store!mergeInfo(known[id], r) ELSE r
<1>1. id # NoId /\ Empty \notin AVTransport
  BY IdAssumption, ServiceAssumption, StringAssumption
<1>2. known' = [i \in DOMAIN known \cup {id} |-> IF i # id THEN known[i] ELSE new]
  BY <1>1 DEF Upsert, Store!MapUpserted
<1>3. \A i \in DOMAIN known : GoodRecord(i, known[i])
  BY DEF StoreOK, OwnDataOnly, GoodRecord
<1>4. /\ GoodRecord(id, new)
      /\ new.lastSeen = r.lastSeen
      /\ r.controlUrl # Empty => new.controlUrl = r.controlUrl
      /\ r.controlUrl # Empty => new.serviceType = r.serviceType
  <2>1. CASE id \in DOMAIN known
    BY <1>1, <1>3, <2>1, Merged
  <2>2. CASE id \notin DOMAIN known
    BY <2>2
  <2> QED
    BY <2>1, <2>2
<1> HIDE DEF new
<1>5. undescribed' = IF r.controlUrl = Empty THEN undescribed \cup {id} ELSE undescribed \ {id}
  BY <1>1 DEF Upsert
<1>6. DOMAIN known' = DOMAIN known \cup {id}
  BY <1>2
<1>7. /\ \A i \in DOMAIN known \ {id} : known'[i] = known[i]
      /\ known'[id] = new
  BY <1>2
<1>8. \A i \in DOMAIN known' : GoodRecord(i, known'[i])
  BY <1>3, <1>4, <1>6, <1>7
<1>9. known' \in [DOMAIN known' -> Record] /\ DOMAIN known' \subseteq DeviceId
  <2>1. \A i \in DOMAIN known' : known'[i] \in Record
    BY <1>8 DEF GoodRecord
  <2>2. known' = [i \in DOMAIN known' |-> known'[i]]
    BY <1>2
  <2> QED
    BY <1>6, <2>1, <2>2 DEF StoreOK
<1>10. OwnDataOnly'
  BY <1>8 DEF OwnDataOnly, GoodRecord, Announced, Described
<1>11. CastTargetMatches' /\ undescribed' \subseteq DOMAIN known'
  <2>1. CASE r.controlUrl = Empty
    BY <1>5, <1>6, <1>7, <2>1 DEF StoreOK, CastTargetMatches
  <2>2. CASE r.controlUrl # Empty
    BY <1>4, <1>5, <1>6, <1>7, <2>2 DEF StoreOK, CastTargetMatches
  <2> QED
    BY <2>1, <2>2
<1> QED
  BY <1>4, <1>6, <1>7, <1>9, <1>10, <1>11 DEF StoreOK

----------------------------------------------------------------------------
(* The inductive invariant.                                                *)

\* A scan in its loop has read the clock.
Stamped == \A w \in InLoop : stamp[w] \in 1..MaxTime

\* A scan that overlaps no other and did not read a clock set back finds no record
\* newer than its own time.
Apart == /\ \A v, w \in InLoop : v # w => v \in overlapped
         /\ \A w \in InLoop \ (overlapped \cup behind), id \in DOMAIN known :
               known[id].lastSeen <= stamp[w]

Snapshots == SnapshotOK(m_devices) /\ \A w \in Worker : SnapshotOK(todo[w])

IInv == /\ TypeOK
        /\ Stamped
        /\ Apart
        /\ Snapshots
        /\ StoreOK
        /\ ScanStoresSnapshot

LEMMA InitIInv == Init => IInv
<1> SUFFICES ASSUME Init PROVE IInv
  OBVIOUS
<1>1. SnapshotOK(<< >>) /\ IsCache(<< >>)
  BY EmptySnapshot DEF SnapshotOK, CacheOK
<1>2. DOMAIN known = {} /\ known \in [{} -> Record]
  BY DEF Init
<1>3. InLoop = {}
  BY DEF Init, InLoop
<1>4. 1 \in 1..MaxTime /\ 0 \in 0..MaxTime
  BY TimeAssumption
<1>5. TypeOK
  BY <1>1, <1>2, <1>3, <1>4 DEF Init, TypeOK
<1>6. Stamped /\ Apart
  BY <1>2, <1>3, TimeAssumption DEF Init, Stamped, Apart
<1>7. Snapshots
  BY <1>1 DEF Init, Snapshots
<1>8. StoreOK /\ ScanStoresSnapshot
  BY <1>2 DEF Init, StoreOK, OwnDataOnly, CastTargetMatches, ScanStoresSnapshot
<1> QED
  BY <1>5, <1>6, <1>7, <1>8 DEF IInv

\* Steps that leave the store and the snapshots alone.
LEMMA DiscoverIInv ==
    ASSUME IInv, NEW e \in NetEvent, Discover(e)
    PROVE  IInv'
<1>1. SnapshotOK(m_devices')
  BY HandledOwn DEF Discover, IInv, Snapshots
<1>2. IsCache(m_devices')
  BY <1>1 DEF SnapshotOK, CacheOK
<1>3. InLoop' = InLoop
  BY DEF Discover, InLoop
<1> USE DEF Discover, history
<1>4. TypeOK'
  BY <1>2, <1>3 DEF IInv, TypeOK
<1>5. Stamped' /\ Apart'
  BY <1>3 DEF IInv, Stamped, Apart
<1>6. Snapshots'
  BY <1>1 DEF IInv, Snapshots
<1>7. StoreOK' /\ ScanStoresSnapshot'
  BY DEF IInv, StoreOK, OwnDataOnly, Announced, Described, CastTargetMatches, ScanStoresSnapshot
<1> QED
  BY <1>4, <1>5, <1>6, <1>7 DEF IInv

LEMMA RestartIInv == IInv /\ Restart => IInv'
<1> SUFFICES ASSUME IInv, Restart PROVE IInv'
  OBVIOUS
<1> USE DEF Restart
<1>1. SnapshotOK(<< >>) /\ IsCache(<< >>)
  BY EmptySnapshot DEF SnapshotOK, CacheOK
<1>2. InLoop' = {} /\ 0 \in 0..MaxTime
  BY TimeAssumption DEF InLoop
<1>3. TypeOK'
  BY <1>1, <1>2 DEF IInv, TypeOK
<1>4. Stamped' /\ Apart'
  BY <1>2 DEF IInv, Stamped, Apart, TypeOK
<1>5. Snapshots'
  BY <1>1 DEF IInv, Snapshots
<1>6. StoreOK' /\ ScanStoresSnapshot'
  BY DEF IInv, StoreOK, OwnDataOnly, Announced, Described, CastTargetMatches, ScanStoresSnapshot
<1> QED
  BY <1>3, <1>4, <1>5, <1>6 DEF IInv

LEMMA ArriveIInv ==
    ASSUME IInv, NEW w \in Worker, Scan(w) \/ List(w)
    PROVE  IInv'
<1> USE DEF Scan, List, Goto, history
<1>1. InLoop' = InLoop /\ pc' \in [Worker -> {"idle", "sleep", "copy", "remember", "answer"}]
  BY DEF InLoop, IInv, TypeOK
<1>2. TypeOK'
  BY <1>1 DEF IInv, TypeOK
<1>3. Stamped' /\ Apart'
  BY <1>1 DEF IInv, Stamped, Apart
<1>4. Snapshots' /\ StoreOK' /\ ScanStoresSnapshot'
  BY DEF IInv, Snapshots, StoreOK, OwnDataOnly, Announced, Described, CastTargetMatches,
         ScanStoresSnapshot
<1> QED
  BY <1>2, <1>3, <1>4 DEF IInv

LEMMA WakeUpIInv ==
    ASSUME IInv, NEW w \in Worker, NEW time \in 1..MaxTime, WakeUp(w, time)
    PROVE  IInv'
<1> USE DEF WakeUp, Goto
<1>1. /\ InLoop' = InLoop \cup {w}
      /\ pc' \in [Worker -> {"idle", "sleep", "copy", "remember", "answer"}]
      /\ w \notin InLoop
  BY DEF InLoop, IInv, TypeOK
<1>2. stamp'[w] = time /\ \A v \in Worker \ {w} : stamp'[v] = stamp[v]
  BY DEF IInv, TypeOK
<1>3. time \in 0..MaxTime /\ time \in Int
  BY TimeAssumption
<1>4. /\ overlapped \subseteq overlapped'
      /\ overlapped' \subseteq InLoop'
      /\ InLoop # {} => InLoop \cup {w} \subseteq overlapped'
      /\ behind \subseteq behind' /\ behind' \subseteq InLoop'
      /\ w \notin behind' => \A id \in DOMAIN known : ~(time < known[id].lastSeen)
  BY <1>1 DEF ReadClock, IInv, TypeOK
<1>5. TypeOK'
  BY <1>1, <1>3, <1>4 DEF IInv, TypeOK
<1>6. Stamped'
  BY <1>1, <1>2 DEF IInv, Stamped
<1>7. Apart'
  <2>1. \A v, u \in InLoop' : v # u => v \in overlapped'
    BY <1>1, <1>4
  <2>2. ASSUME NEW v \in InLoop' \ (overlapped' \cup behind'), NEW id \in DOMAIN known
        PROVE  known[id].lastSeen <= stamp'[v]
    <3>1. CASE v = w
      <4>1. known[id].lastSeen \in Int
        BY DEF IInv, TypeOK, Record
      <4> QED
        BY <1>2, <1>3, <1>4, <3>1, <4>1
    <3>2. CASE v # w
      BY <1>1, <1>2, <1>4, <3>2 DEF IInv, Apart
    <3> QED
      BY <3>1, <3>2
  <2> QED
    BY <2>1, <2>2 DEF Apart
<1>8. Snapshots' /\ StoreOK' /\ ScanStoresSnapshot'
  BY DEF IInv, Snapshots, StoreOK, OwnDataOnly, Announced, Described, CastTargetMatches,
         ScanStoresSnapshot
<1> QED
  BY <1>5, <1>6, <1>7, <1>8 DEF IInv

LEMMA CopyCacheIInv ==
    ASSUME IInv, NEW w \in Worker, CopyCache(w)
    PROVE  IInv'
<1> USE DEF CopyCache, Goto
<1>1. /\ InLoop' = InLoop
      /\ pc' \in [Worker -> {"idle", "sleep", "copy", "remember", "answer"}]
  BY DEF InLoop, IInv, TypeOK
<1>2. /\ todo' = [v \in Worker |-> todo'[v]]
      /\ todo'[w] = m_devices
      /\ \A v \in Worker \ {w} : todo'[v] = todo[v]
  BY DEF IInv, TypeOK
<1>3. /\ taken'[w] = DOMAIN m_devices \ {NoId}
      /\ \A v \in Worker \ {w} : taken'[v] = taken[v]
      /\ taken' \in [Worker -> SUBSET DeviceId]
  BY DEF IInv, TypeOK, IsCache
<1>4. Snapshots' /\ \A v \in Worker : IsCache(todo'[v])
  BY <1>2 DEF IInv, Snapshots, TypeOK
<1>5. TypeOK'
  BY <1>1, <1>2, <1>3, <1>4 DEF IInv, TypeOK
<1>6. Stamped' /\ Apart'
  BY <1>1 DEF IInv, Stamped, Apart
<1>7. ScanStoresSnapshot'
  BY <1>2, <1>3 DEF IInv, ScanStoresSnapshot
<1>8. StoreOK'
  BY DEF IInv, StoreOK, OwnDataOnly, Announced, Described, CastTargetMatches
<1> QED
  BY <1>4, <1>5, <1>6, <1>7, <1>8 DEF IInv

LEMMA LeaveIInv ==
    ASSUME IInv, NEW w \in Worker, AllRemembered(w) \/ Answer(w)
    PROVE  IInv'
<1> USE DEF AllRemembered, Answer, Goto, history
<1>1. /\ InLoop' = InLoop \ {w}
      /\ overlapped' \subseteq InLoop'
      /\ overlapped \ {w} \subseteq overlapped'
      /\ behind' \subseteq InLoop' /\ behind \ {w} \subseteq behind'
      /\ pc' \in [Worker -> {"idle", "sleep", "copy", "remember", "answer"}]
  BY DEF InLoop, IInv, TypeOK
<1>2. /\ \A v \in Worker \ {w} : stamp'[v] = stamp[v] /\ taken'[v] = taken[v]
      /\ stamp'[w] \in {0, stamp[w]}
      /\ taken'[w] \in {{}, taken[w]}
  BY DEF IInv, TypeOK
<1>3. 0 \in 0..MaxTime /\ \A v \in Worker : stamp[v] \in 0..MaxTime
  BY TimeAssumption DEF IInv, TypeOK
<1>4. TypeOK'
  <2>1. stamp' \in [Worker -> 0..MaxTime] /\ taken' \in [Worker -> SUBSET DeviceId]
    BY <1>3 DEF IInv, TypeOK
  <2> QED
    BY <1>1, <2>1 DEF IInv, TypeOK
<1>5. Stamped'
  <2>1. \A v \in InLoop' : v \in InLoop /\ stamp'[v] = stamp[v]
    BY <1>1, <1>2 DEF InLoop
  <2> QED
    BY <2>1 DEF IInv, Stamped
<1>6. Apart'
  BY <1>1, <1>2 DEF IInv, Apart, InLoop
<1>7. ScanStoresSnapshot'
  BY <1>2 DEF IInv, ScanStoresSnapshot
<1>8. Snapshots' /\ StoreOK'
  BY DEF IInv, Snapshots, StoreOK, OwnDataOnly, Announced, Described, CastTargetMatches
<1> QED
  BY <1>4, <1>5, <1>6, <1>7, <1>8 DEF IInv

LEMMA ForgetIInv ==
    ASSUME IInv, NEW w \in Worker, NEW id \in DeviceId, Forget(w, id)
    PROVE  IInv'
<1> USE DEF Forget, Goto
<1>1. /\ InLoop' = InLoop
      /\ pc' \in [Worker -> {"idle", "sleep", "copy", "remember", "answer"}]
  BY DEF InLoop, IInv, TypeOK
<1>2. known' = [i \in DOMAIN known \ {id} |-> known[i]]
  BY DEF Store!MapRemoved
<1>3. /\ DOMAIN known' = DOMAIN known \ {id}
      /\ \A i \in DOMAIN known' : known'[i] = known[i]
      /\ known' \in [DOMAIN known' -> Record]
  BY <1>2 DEF IInv, TypeOK
<1>4. TypeOK'
  BY <1>1, <1>3 DEF IInv, TypeOK
<1>5. Stamped' /\ Apart'
  BY <1>1, <1>3 DEF IInv, Stamped, Apart
<1>6. StoreOK'
  BY <1>3 DEF IInv, StoreOK, OwnDataOnly, Announced, Described, CastTargetMatches
<1>7. ScanStoresSnapshot'
  BY <1>3 DEF IInv, ScanStoresSnapshot
<1>8. Snapshots'
  BY DEF IInv, Snapshots
<1> QED
  BY <1>4, <1>5, <1>6, <1>7, <1>8 DEF IInv

\* One turn of the loop: the store takes the record, whose time is the scan's.
LEMMA RememberOneStore ==
    ASSUME IInv, NEW w \in Worker, NEW k \in DeviceId \cup {NoId}, RememberOne(w, k)
    PROVE  /\ StoreOK'
           /\ DOMAIN known' = DOMAIN known \cup ({k} \ {NoId})
           /\ \A id \in DOMAIN known' :
                 \/ id = k /\ known'[id].lastSeen = stamp[w]
                 \/ id \in DOMAIN known /\ known'[id] = known[id]
<1> DEFINE entry == todo[w][k]
<1>1. k \in DOMAIN todo[w] /\ w \in InLoop
  BY DEF RememberOne, InLoop
<1>2. EntryOK(k, entry) /\ Own(k, entry)
  BY <1>1 DEF IInv, Snapshots, SnapshotOK, CacheOK
<1>3. IdOf(k, entry) = k
  BY <1>2 DEF IdOf, EntryOK
<1>4. stamp[w] \in 1..MaxTime
  BY <1>1 DEF IInv, Stamped
<1>5. PICK downloaded \in BOOLEAN :
         /\ MayEnd(entry, downloaded)
         /\ Upsert(k, Remembered(entry, stamp[w], downloaded))
  BY <1>3 DEF RememberOne
<1>6. StoreOK
  BY DEF IInv
<1>7. CASE k = NoId
  <2>1. known' = known /\ undescribed' = undescribed \ {NoId}
    BY <1>5, <1>7 DEF Upsert
  <2>2. undescribed' = undescribed
    BY <1>6, <2>1, IdAssumption DEF StoreOK
  <2> QED
    BY <1>6, <1>7, <2>1, <2>2 DEF StoreOK, OwnDataOnly, Announced, Described, CastTargetMatches
<1>8. CASE k # NoId
  <2> DEFINE r == Remembered(entry, stamp[w], downloaded)
  <2>1. k \in DeviceId
    BY <1>8
  <2>2. downloaded => entry.locationUrl # Empty
    BY <1>5 DEF MayEnd
  <2>3. /\ GoodRecord(k, r)
        /\ r.controlUrl # Empty => r.serviceType \in AVTransport
        /\ r.lastSeen = stamp[w]
    BY <1>2, <1>4, <2>1, <2>2, RememberedOK
  <2>4. Upsert(k, r)
    BY <1>5
  <2> HIDE DEF r
  <2>5. /\ StoreOK'
        /\ DOMAIN known' = DOMAIN known \cup {k}
        /\ \A i \in DOMAIN known \ {k} : known'[i] = known[i]
        /\ known'[k].lastSeen = r.lastSeen
    BY <1>6, <2>1, <2>3, <2>4, UpsertOK
  <2> QED
    BY <1>8, <2>3, <2>5
<1> QED
  BY <1>7, <1>8

LEMMA RememberOneIInv ==
    ASSUME IInv, NEW w \in Worker, NEW k \in DeviceId \cup {NoId}, RememberOne(w, k)
    PROVE  IInv'
<1>1. /\ w \in InLoop /\ InLoop' = InLoop
      /\ UNCHANGED <<m_devices, pc, stamp, taken, overlapped, behind>>
  BY DEF RememberOne, Done, InLoop
<1>2. /\ todo' = [v \in Worker |-> todo'[v]]
      /\ todo'[w] = [i \in DOMAIN todo[w] \ {k} |-> todo[w][i]]
      /\ \A v \in Worker \ {w} : todo'[v] = todo[v]
  BY DEF RememberOne, Done, IInv, TypeOK
<1>3. /\ StoreOK'
      /\ DOMAIN known' = DOMAIN known \cup ({k} \ {NoId})
      /\ \A id \in DOMAIN known' :
            \/ id = k /\ known'[id].lastSeen = stamp[w]
            \/ id \in DOMAIN known /\ known'[id] = known[id]
  BY RememberOneStore
<1>4. Snapshots'
  <2>1. SnapshotOK([i \in DOMAIN todo[w] \ {k} |-> todo[w][i]])
    BY SmallerSnapshot DEF IInv, Snapshots
  <2>2. SnapshotOK(todo'[w])
    BY <1>2, <2>1
  <2> QED
    BY <1>1, <1>2, <2>2 DEF IInv, Snapshots
<1>5. TypeOK'
  <2>1. \A v \in Worker : IsCache(todo'[v])
    BY <1>4 DEF Snapshots, SnapshotOK, CacheOK
  <2> QED
    BY <1>1, <1>2, <1>3, <2>1 DEF IInv, TypeOK, StoreOK
<1>6. Stamped'
  BY <1>1, <1>3 DEF IInv, Stamped
<1>7. Apart'
  <2>1. ASSUME NEW v \in InLoop \ (overlapped \cup behind), NEW id \in DOMAIN known'
        PROVE  known'[id].lastSeen <= stamp[v]
    <3>1. CASE id \in DOMAIN known /\ known'[id] = known[id]
      BY <3>1 DEF IInv, Apart
    <3>2. CASE id = k /\ known'[id].lastSeen = stamp[w]
      <4>1. v = w
        BY <1>1 DEF IInv, Apart
      <4>2. stamp[w] \in Int
        BY <1>1 DEF IInv, Stamped
      <4> QED
        BY <3>2, <4>1, <4>2
    <3> QED
      BY <1>3, <3>1, <3>2
  <2> QED
    BY <1>1, <2>1 DEF IInv, Apart
<1>8. ScanStoresSnapshot'
  <2>1. ASSUME NEW v \in Worker
        PROVE  taken[v] \ DOMAIN todo'[v] \subseteq DOMAIN known'
    <3>1. taken[v] \ DOMAIN todo[v] \subseteq DOMAIN known /\ NoId \notin taken[v]
      BY IdAssumption DEF IInv, ScanStoresSnapshot, TypeOK
    <3>2. DOMAIN todo[v] \subseteq DOMAIN todo'[v] \cup {k}
      BY <1>2
    <3> QED
      BY <1>3, <3>1, <3>2
  <2> QED
    BY <1>1, <2>1 DEF ScanStoresSnapshot
<1> QED
  BY <1>3, <1>4, <1>5, <1>6, <1>7, <1>8 DEF IInv

LEMMA NextIInv == IInv /\ [Next]_vars => IInv'
<1> SUFFICES ASSUME IInv, [Next]_vars PROVE IInv'
  OBVIOUS
<1>1. CASE UNCHANGED vars
  <2>1. InLoop' = InLoop
    BY <1>1 DEF vars, InLoop
  <2> QED
    BY <1>1, <2>1 DEF vars, history, IInv, TypeOK, Stamped, Apart, Snapshots, StoreOK,
        OwnDataOnly, Announced, Described, CastTargetMatches, ScanStoresSnapshot
<1> QED
  BY <1>1, ScanAssumption, DiscoverIInv, RestartIInv, ArriveIInv, WakeUpIInv,
     CopyCacheIInv, RememberOneIInv, LeaveIInv, ForgetIInv
  DEF Next, ScanStep

----------------------------------------------------------------------------
(* The theorems.                                                           *)

\* Cache, store and requests are always well-typed.
THEOREM TypeCorrect == Spec => []TypeOK
<1>1. IInv => TypeOK
  BY DEF IInv
<1> QED
  BY <1>1, InitIInv, NextIInv, PTL DEF Spec

\* However many scans, events and forgets overlap, and whatever descriptions
\* can be downloaded, a scan stores every device of its snapshot that was not
\* forgotten meanwhile.
THEOREM SnapshotStored == Spec => []ScanStoresSnapshot
<1>1. IInv => ScanStoresSnapshot
  BY DEF IInv
<1> QED
  BY <1>1, InitIInv, NextIInv, PTL DEF Spec

\* A stored record never mixes two devices.
THEOREM RecordsUnmixed == Spec => []OwnDataOnly
<1>1. IInv => OwnDataOnly
  BY DEF IInv, StoreOK
<1> QED
  BY <1>1, InitIInv, NextIInv, PTL DEF Spec

\* Control URL and service type of a stored record belong together, unless the
\* last scan that upserted it got no AVTransport description.
THEOREM TargetConsistent == Spec => []CastTargetMatches
<1>1. IInv => CastTargetMatches
  BY DEF IInv, StoreOK
<1> QED
  BY <1>1, InitIInv, NextIInv, PTL DEF Spec

\* Only a scan that overlapped another one, or read a clock set back, dates a device
\* back.
LEMMA StepMonotone ==
    ASSUME IInv, [Next]_vars, NEW id \in DOMAIN known \cap DOMAIN known'
    PROVE  \/ known'[id].lastSeen >= known[id].lastSeen
           \/ \E w \in overlapped \cup behind : todo'[w] # todo[w]
<1>1. known[id].lastSeen \in Int
  BY DEF IInv, TypeOK, Record
<1>2. CASE known'[id] = known[id]
  BY <1>1, <1>2
<1>3. ASSUME NEW w \in Worker, NEW k \in DeviceId \cup {NoId}, RememberOne(w, k),
             known'[id] # known[id]
      PROVE  \/ known'[id].lastSeen >= known[id].lastSeen
             \/ \E v \in overlapped \cup behind : todo'[v] # todo[v]
  <2>1. known'[id].lastSeen = stamp[w]
    BY <1>3, RememberOneStore
  <2>2. w \in InLoop /\ k \in DOMAIN todo[w] /\ k \notin DOMAIN todo'[w]
    BY <1>3 DEF RememberOne, Done, InLoop, IInv, TypeOK
  <2>3. w \notin overlapped \cup behind => known[id].lastSeen <= stamp[w]
    BY <2>2 DEF IInv, Apart
  <2>4. stamp[w] \in Int
    BY <2>2 DEF IInv, Stamped
  <2> QED
    BY <1>1, <2>1, <2>2, <2>3, <2>4
<1>4. ASSUME NEW w \in Worker, NEW i \in DeviceId, Forget(w, i)
      PROVE  known'[id] = known[id]
  BY <1>4 DEF Forget, Store!MapRemoved
<1> QED
  BY <1>2, <1>3, <1>4
  DEF Next, ScanStep, vars, history, Discover, Restart, Scan, List, WakeUp,
      CopyCache, AllRemembered, Answer

\* The last time a device was seen goes back only in a step of a scan that
\* another one overlapped, or that read a time before one in the store off a
\* clock that may be set.
THEOREM NeverDatedBack == Spec => LastSeenMonotone
<1> DEFINE Monotone == \A id \in DOMAIN known \cap DOMAIN known' :
                          \/ known'[id].lastSeen >= known[id].lastSeen
                          \/ \E w \in overlapped \cup behind : todo'[w] # todo[w]
<1>1. IInv /\ [Next]_vars => [Monotone]_vars
  BY StepMonotone
<1> QED
  BY <1>1, InitIInv, NextIInv, PTL DEF Spec, LastSeenMonotone

----------------------------------------------------------------------------
(* The store as its users change it.                                       *)

\* The part of RememberedDevices the requests change: what list() answers is
\* not kept here.
Durable == INSTANCE RememberedDevices WITH listed <- {}

LEMMA RecordIsInfo == Record \subseteq Store!Info
<1> SUFFICES ASSUME NEW r \in Record PROVE r \in [Field -> Value \cup {Empty}]
  BY DEF Store!Info
<1>1. r = [f \in Field |-> r[f]]
  BY DEF Record, Field
<1>2. \A f \in Field : r[f] \in Value \cup {Empty}
  BY DEF Record, Field, Value
<1> QED
  BY <1>1, <1>2

\* A turn of the loop is one upsert or, for an entry without an id, nothing.
LEMMA RememberOneUpserts ==
    ASSUME IInv, NEW w \in Worker, NEW k \in DeviceId \cup {NoId}, RememberOne(w, k)
    PROVE  \/ known' = known
           \/ \E id \in DeviceId, info \in Record : known' = Store!MapUpserted(known, id, info)
<1> DEFINE entry == todo[w][k]
<1>1. k \in DOMAIN todo[w] /\ w \in InLoop
  BY DEF RememberOne, InLoop
<1>2. EntryOK(k, entry) /\ Own(k, entry)
  BY <1>1 DEF IInv, Snapshots, SnapshotOK, CacheOK
<1>3. IdOf(k, entry) = k
  BY <1>2 DEF IdOf, EntryOK
<1>4. stamp[w] \in 1..MaxTime
  BY <1>1 DEF IInv, Stamped
<1>5. PICK downloaded \in BOOLEAN :
         /\ MayEnd(entry, downloaded)
         /\ Upsert(k, Remembered(entry, stamp[w], downloaded))
  BY <1>3 DEF RememberOne
<1>6. CASE k = NoId
  BY <1>5, <1>6 DEF Upsert
<1>7. CASE k # NoId
  <2> DEFINE r == Remembered(entry, stamp[w], downloaded)
  <2>1. k \in DeviceId
    BY <1>7
  <2>2. downloaded => entry.locationUrl # Empty
    BY <1>5 DEF MayEnd
  <2>3. r \in Record
    BY <1>2, <1>4, <2>1, <2>2, RememberedOK DEF GoodRecord
  <2>4. known' = Store!MapUpserted(known, k, r)
    BY <1>5, <1>7 DEF Upsert
  <2> QED
    BY <2>1, <2>3, <2>4
<1> QED
  BY <1>6, <1>7

\* Requests, scans and restarts, however they overlap, change what is known
\* only as the durable map does that DeviceStore implements: one upsert or one
\* remove at a time, and a restart changes nothing.
THEOREM UsesDurableMap == Spec => Durable!Spec
<1>1. Init => Durable!Init
  <2> SUFFICES ASSUME Init
               PROVE  known \in UNION {[S -> Durable!Info] : S \in SUBSET DeviceId}
    BY DEF Durable!Init
  <2>1. known \in [{} -> Durable!Info]
    BY DEF Init
  <2> QED
    BY <2>1
<1>2. IInv /\ [Next]_vars => [Durable!Next]_(Durable!rvars)
  <2> SUFFICES ASSUME IInv, [Next]_vars
               PROVE  known' = known \/ Durable!Next
    BY DEF Durable!rvars
  <2>1. ASSUME NEW w \in Worker, NEW k \in DeviceId \cup {NoId}, RememberOne(w, k)
        PROVE  known' = known \/ Durable!Next
    <3>1. CASE known' = known
      BY <3>1
    <3>2. ASSUME NEW id \in DeviceId, NEW info \in Record,
                 known' = Store!MapUpserted(known, id, info)
          PROVE  Durable!Next
      <4>1. info \in Durable!Info
        BY RecordIsInfo DEF Store!Info, Durable!Info
      <4>2. known' = Durable!MapUpserted(known, id, info)
        BY <3>2 DEF Store!MapUpserted, Durable!MapUpserted, Store!mergeInfo, Durable!mergeInfo
      <4> QED
        BY <4>1, <4>2 DEF Durable!Next, Durable!Upsert
    <3> QED
      BY <2>1, <3>1, <3>2, RememberOneUpserts
  <2>2. ASSUME NEW w \in Worker, NEW id \in DeviceId, Forget(w, id)
        PROVE  Durable!Next
    <3>1. id \in DOMAIN known /\ known' = Durable!MapRemoved(known, id)
      BY <2>2 DEF Forget, Store!MapRemoved, Durable!MapRemoved
    <3> QED
      BY <3>1 DEF Durable!Next, Durable!Remove
  <2> QED
    BY <2>1, <2>2
    DEF Next, ScanStep, vars, Discover, Restart, Scan, List, WakeUp,
        CopyCache, AllRemembered, Answer
<1> QED
  BY <1>1, <1>2, InitIInv, NextIInv, PTL DEF Spec, Durable!Spec
=============================================================================
