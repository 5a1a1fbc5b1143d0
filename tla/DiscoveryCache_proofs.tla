------------------------ MODULE DiscoveryCache_proofs ------------------------
(***************************************************************************)
(* Lemmas about the data of the discovery cache, for any devices,          *)
(* locations and services.  UpnpClient_proofs and ControlPoint_proofs use  *)
(* them.                                                                   *)
(***************************************************************************)
EXTENDS DiscoveryCache, TLAPS

----------------------------------------------------------------------------
(* One entry of the cache.                                                 *)

\* What the invariants say of the entry filed under k.
EntryOK(k, entry) ==
    /\ entry \in deviceInfo
    /\ entry.deviceId \in {k, NoId}
    /\ entry.serviceType # Empty => entry.serviceType \in entry.serviceTypes
    /\ entry.locationUrl = Empty => entry.ipAddr = Empty /\ entry.port = 0
    /\ Explicit(entry.locationUrl) =>
          <<entry.ipAddr, entry.port>> = parseLocationHostAndPort(entry.locationUrl)

\* The info of an event.
InfoOf(e) == parseDiscoveredDevice(e.id, e.location, e.deviceType, e.serviceType)

LEMMA ZeroPort == 0 \in Port
BY DEF Uint16, Port

\* The cast to uint16_t.
LEMMA Cast ==
    ASSUME NEW n \in Nat
    PROVE  n % Uint16 \in Port
<1>1. Uint16 \in Nat \ {0}
  BY DEF Uint16
<1>2. ASSUME NEW m \in Nat \ {0}
      PROVE  n % m \in 0..(m - 1)
  OBVIOUS
<1> QED
  BY <1>1, <1>2 DEF Port

LEMMA AddressType ==
    ASSUME NEW l \in Location \cup {Empty}
    PROVE  parseLocationHostAndPort(l) \in (Host \cup {Empty}) \X Port
<1>1. CASE l = Empty \/ urlHost[l] = Empty
  BY <1>1, ZeroPort DEF parseLocationHostAndPort
<1>2. CASE l # Empty /\ urlHost[l] # Empty
  <2>1. parseLocationHostAndPort(l) = <<urlHost[l], urlPort[l] % Uint16>>
    BY <1>2 DEF parseLocationHostAndPort
  <2>2. urlHost[l] \in Host \cup {Empty} /\ urlPort[l] \in Nat
    BY <1>2, UrlAssumption
  <2>3. urlPort[l] % Uint16 \in Port
    BY <2>2, Cast
  <2> QED
    BY <2>1, <2>2, <2>3
<1> QED
  BY <1>1, <1>2

\* A new entry, also the empty one of an event without id or location.
LEMMA NewEntryOK ==
    ASSUME NEW e \in Event
    PROVE  EntryOK(e.id, InfoOf(e))
<1> DEFINE address == parseLocationHostAndPort(e.location)
<1>1. CASE e.id = NoId \/ e.location = Empty
  <2>1. InfoOf(e) = NoInfo
    BY <1>1 DEF InfoOf, parseDiscoveredDevice
  <2>2. NoInfo \in deviceInfo
    BY ZeroPort DEF NoInfo, deviceInfo
  <2>3. ~ Explicit(Empty)
    BY DEF Explicit, parseLocationHostAndPort
  <2> QED
    BY <2>1, <2>2, <2>3 DEF EntryOK, NoInfo
<1>2. CASE e.id # NoId /\ e.location # Empty
  <2>1. address \in (Host \cup {Empty}) \X Port
    BY AddressType DEF Event
  <2>2. InfoOf(e) = [deviceId     |-> e.id,
                     deviceType   |-> e.deviceType,
                     serviceType  |-> e.serviceType,
                     serviceTypes |-> {e.serviceType},
                     ipAddr       |-> address[1],
                     port         |-> address[2],
                     locationUrl  |-> e.location,
                     xmlString    |-> Empty]
    BY <1>2 DEF InfoOf, parseDiscoveredDevice, NoInfo
  <2>3. InfoOf(e) \in deviceInfo
    BY <2>1, <2>2 DEF deviceInfo, Event
  <2>4. address = <<address[1], address[2]>>
    BY <2>1
  <2> QED
    BY <1>2, <2>2, <2>3, <2>4 DEF EntryOK
<1> QED
  BY <1>1, <1>2

\* An announcement refreshes an entry without spoiling or emptying it.
LEMMA RefreshedOK ==
    ASSUME NEW e \in Event, NEW entry, EntryOK(e.id, entry)
    PROVE  /\ EntryOK(e.id, Refreshed(entry, InfoOf(e)))
           /\ entry.serviceTypes \subseteq Refreshed(entry, InfoOf(e)).serviceTypes
           /\ entry.deviceType # Empty => Refreshed(entry, InfoOf(e)).deviceType # Empty
           /\ entry.serviceType # Empty => Refreshed(entry, InfoOf(e)).serviceType # Empty
           /\ entry.locationUrl # Empty => Refreshed(entry, InfoOf(e)).locationUrl # Empty
           /\ entry.ipAddr # Empty => Refreshed(entry, InfoOf(e)).ipAddr # Empty
           /\ entry.port # 0 => Refreshed(entry, InfoOf(e)).port # 0
           /\ entry.xmlString = Refreshed(entry, InfoOf(e)).xmlString
<1> DEFINE info == InfoOf(e)
           new  == Refreshed(entry, info)
<1>1. EntryOK(e.id, info)
  BY NewEntryOK
<1>2. entry \in deviceInfo /\ info \in deviceInfo
  BY <1>1 DEF EntryOK
<1> HIDE DEF info
<1>3. new = [deviceId     |-> entry.deviceId,
             deviceType   |-> Latest(entry.deviceType, info.deviceType),
             serviceType  |-> Latest(entry.serviceType, info.serviceType),
             serviceTypes |-> entry.serviceTypes \cup NonEmpty(info.serviceType),
             ipAddr       |-> Latest(entry.ipAddr, info.ipAddr),
             port         |-> IF info.port # 0 THEN info.port ELSE entry.port,
             locationUrl  |-> Latest(entry.locationUrl, info.locationUrl),
             xmlString    |-> entry.xmlString]
  BY DEF Refreshed
<1>4. new \in deviceInfo
  BY <1>2, <1>3 DEF deviceInfo, Latest, NonEmpty
<1>5. new.serviceType # Empty => new.serviceType \in new.serviceTypes
  BY <1>1, <1>3 DEF EntryOK, Latest, NonEmpty
<1>6. /\ new.locationUrl = Empty => new.ipAddr = Empty /\ new.port = 0
      /\ Explicit(new.locationUrl) =>
            <<new.ipAddr, new.port>> = parseLocationHostAndPort(new.locationUrl)
  <2>1. CASE info.locationUrl = Empty
    <3>1. info.ipAddr = Empty /\ info.port = 0
      BY <1>1, <2>1 DEF EntryOK
    <3>2. /\ new.locationUrl = entry.locationUrl
          /\ new.ipAddr = entry.ipAddr /\ new.port = entry.port
      BY <1>3, <2>1, <3>1 DEF Latest
    <3> QED
      BY <3>2 DEF EntryOK
  <2>2. CASE info.locationUrl # Empty
    <3>1. new.locationUrl = info.locationUrl
      BY <1>3, <2>2 DEF Latest
    <3>2. ASSUME Explicit(info.locationUrl)
          PROVE  <<new.ipAddr, new.port>> = parseLocationHostAndPort(info.locationUrl)
      <4>1. <<info.ipAddr, info.port>> = parseLocationHostAndPort(info.locationUrl)
        BY <1>1, <3>2 DEF EntryOK
      <4>2. info.ipAddr # Empty /\ info.port # 0
        BY <3>2, <4>1 DEF Explicit
      <4> QED
        BY <1>3, <4>1, <4>2 DEF Latest
    <3> QED
      BY <2>2, <3>1, <3>2
  <2> QED
    BY <2>1, <2>2
<1>7. EntryOK(e.id, new)
  BY <1>3, <1>4, <1>5, <1>6 DEF EntryOK
<1>8. /\ entry.serviceTypes \subseteq new.serviceTypes
      /\ entry.deviceType # Empty => new.deviceType # Empty
      /\ entry.serviceType # Empty => new.serviceType # Empty
      /\ entry.locationUrl # Empty => new.locationUrl # Empty
      /\ entry.ipAddr # Empty => new.ipAddr # Empty
      /\ entry.port # 0 => new.port # 0
      /\ entry.xmlString = new.xmlString
  BY <1>3 DEF Latest
<1> QED
  BY <1>7, <1>8 DEF info

----------------------------------------------------------------------------
(* The whole cache.                                                        *)

\* What the invariants say of the cache.
CacheOK(cache) == /\ IsCache(cache)
                  /\ \A k \in DOMAIN cache : EntryOK(k, cache[k])

\* An event leaves the cache in order.
LEMMA HandledOK ==
    ASSUME NEW cache, CacheOK(cache), NEW e \in Event
    PROVE  CacheOK(Handled(cache, e))
<1> DEFINE new == Handled(cache, e)
<1>0. e.id \in DeviceId \cup {NoId}
  BY DEF Event
<1>1. CASE e.type = "BYEBYE"
  <2>1. new = [k \in DOMAIN cache \ {e.id} |-> cache[k]]
    BY <1>1 DEF Handled
  <2> QED
    BY <2>1 DEF CacheOK, IsCache
<1>2. CASE e.type # "BYEBYE" /\ Accepted(e)
  <2>1. new = [k \in DOMAIN cache \cup {e.id} |->
                  IF k # e.id THEN cache[k]
                  ELSE IF k \in DOMAIN cache THEN Refreshed(cache[k], InfoOf(e))
                  ELSE InfoOf(e)]
    BY <1>2 DEF Handled, Remembering, InfoOf
  <2>2. \A k \in DOMAIN new : EntryOK(k, new[k])
    BY <2>1, NewEntryOK, RefreshedOK DEF CacheOK
  <2>3. IsCache(new)
    <3>1. \A k \in DOMAIN new : new[k] \in deviceInfo
      BY <2>2 DEF EntryOK
    <3>2. DOMAIN new \subseteq DeviceId \cup {NoId} /\ new = [k \in DOMAIN new |-> new[k]]
      BY <1>0, <2>1 DEF CacheOK, IsCache
    <3> QED
      BY <3>1, <3>2 DEF IsCache
  <2> QED
    BY <2>2, <2>3 DEF CacheOK
<1>3. CASE e.type # "BYEBYE" /\ ~Accepted(e)
  BY <1>3 DEF Handled
<1> QED
  BY <1>1, <1>2, <1>3

=============================================================================
