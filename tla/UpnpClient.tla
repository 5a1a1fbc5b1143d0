----------------------------- MODULE UpnpClient -----------------------------
(***************************************************************************)
(* The discovery client, class UpnpClient of                               *)
(* src/src/controller/UpnpClient.{hpp,cpp}: its life in the UPnP library   *)
(* and the cache the library's callback threads keep.  Each callback       *)
(* touches shared state only under m_mutex, so it is one step.             *)
(***************************************************************************)
EXTENDS DiscoveryCache

VARIABLES
    phase,      \* the client: unborn, under construction, live or gone; or
                \* the whole process, terminated
    lib,        \* is the UPnP library initialised?
    m_handle,   \* has the library registered this client?
    m_devices   \* the cache: key -> deviceInfo

vars == <<phase, lib, m_handle, m_devices>>

Init == /\ phase = "unborn"
        /\ lib = FALSE
        /\ m_handle = FALSE
        /\ m_devices = << >>

----------------------------------------------------------------------------
(* Construction and destruction.                                           *)

\* UpnpInit2 succeeds, or the constructor throws.
Initialise(ok) ==
    /\ phase = "unborn"
    /\ phase' = IF ok THEN "initialised" ELSE "threw"
    /\ lib' = ok
    /\ UNCHANGED <<m_handle, m_devices>>

\* Mutation of Register: UpnpFinish is forgotten before the throw.
RegisterUnfinished(ok) ==
    /\ phase = "initialised"
    /\ phase' = IF ok THEN "live" ELSE "threw"
    /\ m_handle' = ok
    /\ UNCHANGED <<lib, m_devices>>

\* UpnpRegisterClient succeeds, or the library is finished and the
\* constructor throws.
Register(ok) ==
    /\ phase = "initialised"
    /\ phase' = IF ok THEN "live" ELSE "threw"
    /\ lib' = ok
    /\ m_handle' = ok
    /\ UNCHANGED m_devices

\* A client constructed with initialize = false, as the tests do.
Bare == /\ phase = "unborn"
        /\ phase' = "live"
        /\ UNCHANGED <<lib, m_handle, m_devices>>

Destroy == /\ phase = "live"
           /\ phase' = "destroyed"
           /\ m_handle' = FALSE
           /\ lib' = FALSE
           /\ m_devices' = << >>

----------------------------------------------------------------------------
(* Events and the requests' calls.  devices() is a copy of the cache and    *)
(* search() a call of the library: neither changes the client.             *)

\* The library calls back while the client is registered.
handleDiscoveryEvent(e) == /\ m_handle
                           /\ ~Throws(e)
                           /\ m_devices' = Handled(m_devices, e)
                           /\ UNCHANGED <<phase, lib, m_handle>>

\* An exception that leaves the callback ends the process: nothing in the
\* library's thread catches it.
Terminate(e) == /\ m_handle
                /\ Throws(e)
                /\ phase' = "terminated"
                /\ lib' = FALSE
                /\ m_handle' = FALSE
                /\ m_devices' = << >>

\* Mutation of updateXml: the first entry, whatever its location.
updateXmlAnywhere(location, xml) ==
    /\ phase = "live"
    /\ \E k \in DOMAIN m_devices :
          m_devices' = [m_devices EXCEPT ![k].xmlString = xml]
    /\ UNCHANGED <<phase, lib, m_handle>>

\* The first entry, in hash order, with that location.
updateXml(location, xml) ==
    /\ phase = "live"
    /\ \E k \in DOMAIN m_devices :
          /\ m_devices[k].locationUrl = location
          /\ m_devices' = [m_devices EXCEPT ![k].xmlString = xml]
    /\ UNCHANGED <<phase, lib, m_handle>>

Next == \/ \E ok \in BOOLEAN : Initialise(ok) \/ Register(ok)
        \/ Bare
        \/ Destroy
        \/ \E e \in Event : handleDiscoveryEvent(e) \/ Terminate(e)
        \/ \E l \in Location \cup {Empty}, x \in Xml : updateXml(l, x)

Spec == Init /\ [][Next]_vars

----------------------------------------------------------------------------
(* Properties.                                                             *)

TypeOK == /\ phase \in {"unborn", "initialised", "live", "threw", "destroyed",
                        "terminated"}
          /\ lib \in BOOLEAN
          /\ m_handle \in BOOLEAN
          /\ IsCache(m_devices)

\* The library is initialised exactly while a client needs it, on every path
\* through the constructor, and calls back only into a client that is alive.
LibraryReleased == /\ lib => phase \in {"initialised", "live"}
                   /\ m_handle => lib /\ phase = "live"

\* An entry is filed under its own id, or has none: then it was announced
\* first without a location, and the scan falls back to the key.
FiledUnderOwnId ==
    \A k \in DOMAIN m_devices : m_devices[k].deviceId \in {k, NoId}

\* The latest service type of an entry is among those it was announced with.
LatestServiceListed ==
    \A k \in DOMAIN m_devices :
        m_devices[k].serviceType # Empty =>
            m_devices[k].serviceType \in m_devices[k].serviceTypes

\* Address and location of an entry belong together: when its latest location
\* names host and port, its address is that of this location, however often the
\* device moved and whatever other events left out.
AddressOfLocation ==
    \A k \in DOMAIN m_devices :
        Explicit(m_devices[k].locationUrl) =>
            <<m_devices[k].ipAddr, m_devices[k].port>> =
                parseLocationHostAndPort(m_devices[k].locationUrl)

\* While a device stays cached nothing that is known of it is lost: no event,
\* however incomplete, empties a field or drops a service.
NothingLost ==
    [][\A k \in DOMAIN m_devices \cap DOMAIN m_devices' :
         LET old == m_devices[k]  new == m_devices'[k]
         IN  /\ old.serviceTypes \subseteq new.serviceTypes
             /\ old.deviceType # Empty => new.deviceType # Empty
             /\ old.serviceType # Empty => new.serviceType # Empty
             /\ old.locationUrl # Empty => new.locationUrl # Empty
             /\ old.ipAddr # Empty => new.ipAddr # Empty
             /\ old.port # 0 => new.port # 0
             /\ old.xmlString # Empty => new.xmlString # Empty]_vars
=============================================================================
