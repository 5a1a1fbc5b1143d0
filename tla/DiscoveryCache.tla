--------------------------- MODULE DiscoveryCache ---------------------------
(***************************************************************************)
(* The data of the discovery cache: deviceInfo records and what            *)
(* src/src/controller/UpnpClient.cpp makes of a discovery event.           *)
(*                                                                         *)
(* Strings are members of small sets, Empty the empty string or port 0.    *)
(* The fields of deviceInfo nothing writes (friendlyName, manufacturer,    *)
(* modelName, serviceId, scpd_urls) are left out.                          *)
(***************************************************************************)
EXTENDS Naturals

CONSTANTS
    DeviceId,       \* non-empty device ids
    NoId,           \* the empty device id
    Location,       \* non-empty description URLs
    DeviceType,     \* non-empty device types
    ServiceType,    \* non-empty service types
    Host,           \* non-empty host names
    Xml,            \* non-empty description documents
    Empty,          \* an empty string
    urlHost,        \* urlHost[l]: the host the regex finds in l, or Empty
    urlPort,        \* urlPort[l]: the number after the host, 0 if there is none
    MaxULong        \* the largest unsigned long

ASSUME IdAssumption == NoId \notin DeviceId
ASSUME StringAssumption ==
    Empty \notin Location \cup DeviceType \cup ServiceType \cup Host \cup Xml
ASSUME UrlAssumption == /\ urlHost \in [Location -> Host \cup {Empty}]
                        /\ urlPort \in [Location -> Nat]
                        /\ MaxULong \in Nat

\* Ports are uint16_t.
Uint16 == 65536
Port == 0..(Uint16 - 1)

deviceInfo == [deviceId     : DeviceId \cup {NoId},
               deviceType   : DeviceType \cup {Empty},
               serviceType  : ServiceType \cup {Empty},
               serviceTypes : SUBSET (ServiceType \cup {Empty}),
               ipAddr       : Host \cup {Empty},
               port         : Port,
               locationUrl  : Location \cup {Empty},
               xmlString    : Xml \cup {Empty}]

\* The cache: key -> deviceInfo.
IsCache(cache) == /\ DOMAIN cache \subseteq DeviceId \cup {NoId}
                  /\ cache = [k \in DOMAIN cache |-> cache[k]]
                  /\ \A k \in DOMAIN cache : cache[k] \in deviceInfo

Event == [type        : {"SEARCH_TIMEOUT", "SEARCH_RESULT", "ALIVE", "BYEBYE"},
          id          : DeviceId \cup {NoId},
          location    : Location \cup {Empty},
          deviceType  : DeviceType \cup {Empty},
          serviceType : ServiceType \cup {Empty},
          success     : BOOLEAN]

----------------------------------------------------------------------------

\* Mutation of parseLocationHostAndPort: the cast is missing.
UncastPort(location) ==
    IF location = Empty \/ urlHost[location] = Empty
    THEN <<Empty, 0>>
    ELSE <<urlHost[location], urlPort[location]>>

\* <<host, port>> of a location: the digits are cast to uint16_t, unless
\* std::stoul throws (Throws).
parseLocationHostAndPort(location) ==
    IF location = Empty \/ urlHost[location] = Empty
    THEN <<Empty, 0>>
    ELSE <<urlHost[location], urlPort[location] % Uint16>>

\* A location that names its host and a port no cast makes 0.
Explicit(location) == LET address == parseLocationHostAndPort(location)
                      IN  address[1] # Empty /\ address[2] # 0

NoInfo == [deviceId |-> NoId, deviceType |-> Empty, serviceType |-> Empty,
           serviceTypes |-> {}, ipAddr |-> Empty, port |-> 0,
           locationUrl |-> Empty, xmlString |-> Empty]

\* One-element set of a string, or nothing if it is empty.
NonEmpty(s) == {s} \ {Empty}

\* The library's strings are never null: a new entry lists even an empty type.
parseDiscoveredDevice(id, location, deviceType, serviceType) ==
    IF id = NoId \/ location = Empty
    THEN NoInfo
    ELSE LET address == parseLocationHostAndPort(location)
         IN  [NoInfo EXCEPT !.deviceId     = id,
                            !.locationUrl  = location,
                            !.deviceType   = deviceType,
                            !.serviceType  = serviceType,
                            !.serviceTypes = {serviceType},
                            !.ipAddr       = address[1],
                            !.port         = address[2]]

Latest(old, new) == IF new # Empty THEN new ELSE old

\* Mutations of Refreshed: the port is not updated, only the latest service
\* is kept, incomplete announcements overwrite what is known.
RefreshedOldPort(entry, info) ==
    [info EXCEPT !.deviceId     = entry.deviceId,
                 !.serviceTypes = entry.serviceTypes \cup @,
                 !.port         = entry.port,
                 !.xmlString    = entry.xmlString]

RefreshedOneService(entry, info) ==
    [entry EXCEPT !.serviceType = Latest(@, info.serviceType),
                  !.locationUrl = Latest(@, info.locationUrl),
                  !.ipAddr      = Latest(@, info.ipAddr),
                  !.port        = info.port]

RefreshedWholesale(entry, info) ==
    [info EXCEPT !.deviceId = entry.deviceId, !.xmlString = entry.xmlString]

\* What handleDiscoveryEvent makes of an entry it finds: id and document stay.
Refreshed(entry, info) ==
    [deviceId     |-> entry.deviceId,
     deviceType   |-> Latest(entry.deviceType, info.deviceType),
     serviceType  |-> Latest(entry.serviceType, info.serviceType),
     serviceTypes |-> entry.serviceTypes \cup NonEmpty(info.serviceType),
     ipAddr       |-> Latest(entry.ipAddr, info.ipAddr),
     port         |-> IF info.port # 0 THEN info.port ELSE entry.port,
     locationUrl  |-> Latest(entry.locationUrl, info.locationUrl),
     xmlString    |-> entry.xmlString]

\* SEARCH_TIMEOUT and failed results are dropped before the mutex is taken.
Accepted(e) == e.type \in {"SEARCH_RESULT", "ALIVE"} /\ e.success

\* std::stoul throws out_of_range for a port beyond an unsigned long.
Throws(e) == /\ Accepted(e)
             /\ e.id # NoId /\ e.location # Empty
             /\ urlHost[e.location] # Empty
             /\ urlPort[e.location] > MaxULong

\* Mutation of Remembering: entries are looked up by location, as in updateXml.
RememberingByLocation(cache, e) ==
    LET info == parseDiscoveredDevice(e.id, e.location, e.deviceType, e.serviceType)
        same == {k \in DOMAIN cache : cache[k].locationUrl = e.location}
    IN  [k \in DOMAIN cache \cup {e.id} |->
            IF k \in same \/ k \notin DOMAIN cache THEN info ELSE cache[k]]

\* What an accepted announcement leaves in the cache.
Remembering(cache, e) ==
    LET info == parseDiscoveredDevice(e.id, e.location, e.deviceType, e.serviceType)
    IN  [k \in DOMAIN cache \cup {e.id} |->
            IF k # e.id THEN cache[k]
            ELSE IF k \in DOMAIN cache THEN Refreshed(cache[k], info)
            ELSE info]

\* What handleDiscoveryEvent leaves in the cache, if it does not throw.
Handled(cache, e) ==
    IF e.type = "BYEBYE" THEN [k \in DOMAIN cache \ {e.id} |-> cache[k]]
    ELSE IF Accepted(e) THEN Remembering(cache, e)
    ELSE cache
=============================================================================
