---------------------------- MODULE ControlPoint ----------------------------
(***************************************************************************)
(* The device requests of upnpController                                   *)
(* (src/src/controller/upnpDevice.hpp) between the two components they     *)
(* share: the discovery cache (UpnpClient), which the library's threads    *)
(* change at any time, and the device store, here the atomic durable map   *)
(* of RememberedDevices, which DeviceStore implements.  A scan searches,   *)
(* sleeps, copies the cache, then downloads and upserts device by device   *)
(* while events, other scans and Forget requests go on; a restart ends all *)
(* requests.                                                               *)
(*                                                                         *)
(* Of a stored record the model keeps one field of each origin: type and   *)
(* location come from the cache, the control URL from the description, the *)
(* service type from both, lastSeen from the clock.                        *)
(***************************************************************************)
EXTENDS DiscoveryCache, Sequences

CONSTANTS
    Worker,         \* the request threads
    Scanner,        \* those of them that serve POST /api/devices/scan
    ControlUrl,     \* control URLs, resolved
    AVTransport,    \* the service types that contain "AVTransport"
    document,       \* document[l]: the services the document at l lists
    NetEvent,       \* what the network announces
    DownloadMayFail,
    MaxTime         \* bound on what system_clock shows, in seconds

Service == [serviceType : ServiceType, controlUrl : ControlUrl \cup {Empty}]

ASSUME ScanAssumption == Scanner \subseteq Worker
ASSUME DocumentAssumption == document \in [Location -> Seq(Service)]
ASSUME ServiceAssumption == AVTransport \subseteq ServiceType /\ Empty \notin ControlUrl
ASSUME EventAssumption == NetEvent \subseteq Event
ASSUME TimeAssumption == MaxTime \in Nat \ {0} /\ Empty \notin 1..MaxTime

VARIABLES
    m_devices,  \* the discovery cache
    known,      \* the device store
    pc,         \* pc[w]: what worker w does next
    stamp,      \* stamp[w]: the time a scan puts on what it remembers
    todo,       \* todo[w]: the part of its snapshot a scan has yet to remember
    taken,      \* history: taken[w], the snapshot's ids not forgotten since
    undescribed,\* history: the ids last upserted without a control URL
    overlapped, \* history: the scans that ran while another one did
    behind      \* history: the scans that read a time before one in the store

history == <<taken, undescribed, overlapped, behind>>
vars == <<m_devices, known, pc, stamp, todo, history>>

Field == {"deviceType", "locationUrl", "controlUrl", "serviceType", "lastSeen"}
Value == Location \cup DeviceType \cup ServiceType \cup ControlUrl \cup 1..MaxTime

Store == INSTANCE KnownDevices

Record == [deviceType  : DeviceType \cup {Empty},
           locationUrl : Location \cup {Empty},
           controlUrl  : ControlUrl \cup {Empty},
           serviceType : ServiceType \cup {Empty},
           lastSeen    : 1..MaxTime]

Init == /\ m_devices = << >>
        /\ known = << >>
        /\ pc = [w \in Worker |-> "idle"]
        /\ stamp = [w \in Worker |-> 0]
        /\ todo = [w \in Worker |-> << >>]
        /\ taken = [w \in Worker |-> {}]
        /\ undescribed = {}
        /\ overlapped = {}
        /\ behind = {}

----------------------------------------------------------------------------
(* The environment.                                                        *)

\* A callback thread of the library.  Events come in any order and any number
\* of times, so lost, late and duplicated announcements are among them.
Discover(e) == /\ ~Throws(e)
               /\ m_devices' = Handled(m_devices, e)
               /\ UNCHANGED <<known, pc, stamp, todo, history>>

\* The process dies, of an event that throws if of nothing else, and is started
\* again: the store is durable, the cache and the requests are not.
Restart == /\ m_devices' = << >>
           /\ pc' = [w \in Worker |-> "idle"]
           /\ stamp' = [w \in Worker |-> 0]
           /\ todo' = [w \in Worker |-> << >>]
           /\ taken' = [w \in Worker |-> {}]
           /\ overlapped' = {}
           /\ behind' = {}
           /\ UNCHANGED <<known, undescribed>>

----------------------------------------------------------------------------
(* scanForDevices and rememberDiscoveredDevices.                           *)

Goto(w, label) == pc' = [pc EXCEPT ![w] = label]

\* The search was sent; one that fails is answered 422 and changes nothing.
Scan(w) == /\ pc[w] = "idle"
           /\ Goto(w, "sleep")
           /\ UNCHANGED <<m_devices, known, stamp, todo, history>>

\* The scans between reading the clock and their last upsert.
InLoop == {w \in Worker : pc[w] \in {"copy", "remember"}}

\* system_clock may be set, forward or back, so it may show any time.
ReadClock(w, time) ==
    /\ overlapped' = IF InLoop = {} THEN overlapped ELSE overlapped \cup InLoop \cup {w}
    /\ behind' = IF \E id \in DOMAIN known : time < known[id].lastSeen
                 THEN behind \cup {w} ELSE behind

\* Mutation of WakeUp: the time is kept in a type too narrow for it.
WakeUpNarrow(w, time) ==
    /\ pc[w] = "sleep"
    /\ Goto(w, "copy")
    /\ stamp' = [stamp EXCEPT ![w] = time % MaxTime]
    /\ ReadClock(w, time)
    /\ UNCHANGED <<m_devices, known, todo, taken, undescribed>>

\* The time is read once, before the cache is copied.
WakeUp(w, time) ==
    /\ pc[w] = "sleep"
    /\ Goto(w, "copy")
    /\ stamp' = [stamp EXCEPT ![w] = time]
    /\ ReadClock(w, time)
    /\ UNCHANGED <<m_devices, known, todo, taken, undescribed>>

CopyCache(w) == /\ pc[w] = "copy"
                /\ Goto(w, "remember")
                /\ todo' = [todo EXCEPT ![w] = m_devices]
                /\ taken' = [taken EXCEPT ![w] = DOMAIN m_devices \ {NoId}]
                /\ UNCHANGED <<m_devices, known, stamp, undescribed, overlapped,
                               behind>>

\* Mutation of parseDeviceDescription: the first service of any type.
FirstService(services) ==
    IF services = << >> THEN [serviceType |-> Empty, controlUrl |-> Empty]
    ELSE services[1]

\* The first AVTransport service a description lists.
parseDeviceDescription(services) ==
    LET found == {i \in DOMAIN services : services[i].serviceType \in AVTransport}
    IN  IF found = {} THEN [serviceType |-> Empty, controlUrl |-> Empty]
        ELSE services[CHOOSE i \in found : \A j \in found : i <= j]

\* The record a scan makes of a cache entry, with its description if it was
\* downloaded.
Remembered(entry, time, downloaded) ==
    LET description == IF downloaded
                       THEN parseDeviceDescription(document[entry.locationUrl])
                       ELSE parseDeviceDescription(<< >>)
    IN  [deviceType  |-> entry.deviceType,
         locationUrl |-> entry.locationUrl,
         controlUrl  |-> description.controlUrl,
         serviceType |-> IF description.serviceType # Empty
                         THEN description.serviceType ELSE entry.serviceType,
         lastSeen    |-> time]

\* An entry without a location is not downloaded.
MayEnd(entry, downloaded) ==
    IF downloaded THEN entry.locationUrl # Empty
                  ELSE entry.locationUrl = Empty \/ DownloadMayFail

\* DeviceStore::upsert, which ignores a record without an id.
Upsert(id, info) ==
    /\ known' = IF id = NoId THEN known ELSE Store!MapUpserted(known, id, info)
    /\ undescribed' = IF id # NoId /\ info.controlUrl = Empty
                      THEN undescribed \cup {id} ELSE undescribed \ {id}

IdOf(k, entry) == IF entry.deviceId = NoId THEN k ELSE entry.deviceId

Done(w, k) ==
    /\ todo' = [todo EXCEPT ![w] = [i \in DOMAIN @ \ {k} |-> @[i]]]
    /\ UNCHANGED <<m_devices, pc, stamp, taken, overlapped, behind>>

\* Mutations of RememberOne: a device whose description cannot be downloaded
\* is skipped; the record is made of another entry; the loop does not get past
\* an entry without a location.
RememberDownloaded(w, k) ==
    /\ pc[w] = "remember"
    /\ k \in DOMAIN todo[w]
    /\ LET entry == todo[w][k]
       IN  \E downloaded \in BOOLEAN :
              /\ MayEnd(entry, downloaded)
              /\ IF downloaded
                 THEN Upsert(IdOf(k, entry), Remembered(entry, stamp[w], TRUE))
                 ELSE UNCHANGED <<known, undescribed>>
    /\ Done(w, k)

RememberAnother(w, k) ==
    /\ pc[w] = "remember"
    /\ k \in DOMAIN todo[w]
    /\ \E j \in DOMAIN todo[w], downloaded \in BOOLEAN :
          /\ MayEnd(todo[w][j], downloaded)
          /\ Upsert(IdOf(k, todo[w][k]), Remembered(todo[w][j], stamp[w], downloaded))
    /\ Done(w, k)

RememberStuck(w, k) ==
    /\ pc[w] = "remember"
    /\ k \in DOMAIN todo[w]
    /\ todo[w][k].locationUrl # Empty
    /\ Upsert(IdOf(k, todo[w][k]), Remembered(todo[w][k], stamp[w], TRUE))
    /\ Done(w, k)

\* One turn of the loop, entries in hash order.
RememberOne(w, k) ==
    /\ pc[w] = "remember"
    /\ k \in DOMAIN todo[w]
    /\ LET entry == todo[w][k]
       IN  \E downloaded \in BOOLEAN :
              /\ MayEnd(entry, downloaded)
              /\ Upsert(IdOf(k, entry), Remembered(entry, stamp[w], downloaded))
    /\ Done(w, k)

AllRemembered(w) == /\ pc[w] = "remember"
                    /\ todo[w] = << >>
                    /\ Goto(w, "answer")
                    /\ stamp' = [stamp EXCEPT ![w] = 0]
                    /\ overlapped' = overlapped \ {w}
                    /\ behind' = behind \ {w}
                    /\ UNCHANGED <<m_devices, known, todo, taken, undescribed>>

----------------------------------------------------------------------------
(* forgetKnownDevice and listKnownDevices.                                 *)

Forget(w, id) ==
    /\ pc[w] = "idle"
    /\ id \in DOMAIN known
    /\ known' = Store!MapRemoved(known, id)
    /\ Goto(w, "answer")
    /\ taken' = [v \in Worker |-> taken[v] \ {id}]
    /\ undescribed' = undescribed \ {id}
    /\ UNCHANGED <<m_devices, stamp, todo, overlapped, behind>>

List(w) == /\ pc[w] = "idle"
           /\ Goto(w, "answer")
           /\ UNCHANGED <<m_devices, known, stamp, todo, history>>

\* knownDevicesDto, the answer to all three requests.  A Forget of an unknown
\* device is answered 404 and changes nothing.
Answer(w) == /\ pc[w] = "answer"
             /\ Goto(w, "idle")
             /\ taken' = [taken EXCEPT ![w] = {}]
             /\ UNCHANGED <<m_devices, known, stamp, todo, undescribed, overlapped,
                            behind>>

----------------------------------------------------------------------------

ScanStep(w) == \/ \E time \in 1..MaxTime : WakeUp(w, time)
               \/ CopyCache(w)
               \/ \E k \in DeviceId \cup {NoId} : RememberOne(w, k)
               \/ AllRemembered(w)
               \/ Answer(w)

Next == \/ \E e \in NetEvent : Discover(e)
        \/ Restart
        \/ \E w \in Scanner : Scan(w)
        \/ \E w \in Worker : \/ ScanStep(w)
                             \/ List(w)
                             \/ \E id \in DeviceId : Forget(w, id)

Spec == Init /\ [][Next]_vars

\* A request thread is scheduled; sleeping and downloading both come to an end
\* (UpnpDownloadXmlDoc has a timeout of its own).
FairSpec == Spec /\ \A w \in Worker : WF_vars(ScanStep(w))

----------------------------------------------------------------------------
(* Properties.                                                             *)

TypeOK == /\ IsCache(m_devices)
          /\ DOMAIN known \subseteq DeviceId
          /\ known \in [DOMAIN known -> Record]
          /\ pc \in [Worker -> {"idle", "sleep", "copy", "remember", "answer"}]
          /\ stamp \in [Worker -> 0..MaxTime]
          /\ todo = [w \in Worker |-> todo[w]]
          /\ \A w \in Worker : IsCache(todo[w])
          /\ taken \in [Worker -> SUBSET DeviceId]
          /\ undescribed \subseteq DOMAIN known
          /\ overlapped \subseteq InLoop
          /\ behind \subseteq InLoop

\* A scan "stores the result" (README): when it answers, every device of its
\* snapshot is in the store, whether or not its description could be
\* downloaded, except those a Forget removed meanwhile.
ScanStoresSnapshot ==
    \A w \in Worker : taken[w] \ DOMAIN todo[w] \subseteq DOMAIN known

\* A stored record holds only what its own device announced, or what was found
\* in a description that device pointed to: concurrent scans never mix two
\* devices.
Announced(id) == {e \in NetEvent : e.id = id}
Described(id) == {parseDeviceDescription(document[e.location]) :
                     e \in {a \in Announced(id) : a.location # Empty}}

OwnDataOnly ==
    \A id \in DOMAIN known :
        /\ known[id].locationUrl \in {e.location : e \in Announced(id)}
        /\ known[id].deviceType \in {e.deviceType : e \in Announced(id)} \cup {Empty}
        /\ known[id].serviceType \in {e.serviceType : e \in Announced(id)} \cup
              {service.serviceType : service \in Described(id)} \cup {Empty}
        /\ known[id].controlUrl \in
              {service.controlUrl : service \in Described(id)} \cup {Empty}

\* No interleaving and no restart dates a device back but two: of overlapping
\* scans, the one that read the clock first may upsert last, and a scan may read
\* a clock that was set back.
LastSeenMonotone ==
    [][\A id \in DOMAIN known \cap DOMAIN known' :
          \/ known'[id].lastSeen >= known[id].lastSeen
          \/ \E w \in overlapped \cup behind : todo'[w] # todo[w]]_vars

\* The control URL and the service type a cast takes from a stored record
\* (MediaLibrary.hpp, the cast button) belong together: "Control URL and
\* service type of the AVTransport service" (ixmlfuncs.hpp), unless the last scan
\* that upserted the record got no AVTransport description: then the URL is that
\* of an earlier scan and the type the one last announced.
CastTargetMatches ==
    \A id \in DOMAIN known \ undescribed :
        /\ known[id].controlUrl # Empty
        /\ known[id].serviceType \in AVTransport

\* Every scan that outlives its search is answered, unless the process dies.
ScanAnswered == \A w \in Scanner : (pc[w] = "sleep") ~> (pc[w] = "idle")
=============================================================================
