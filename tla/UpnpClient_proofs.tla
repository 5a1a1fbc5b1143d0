-------------------------- MODULE UpnpClient_proofs --------------------------
(***************************************************************************)
(* Theorems about UpnpClient, for any devices, locations and services, and *)
(* about the getMainXML requests of MainXml in it, for any documents.      *)
(***************************************************************************)
EXTENDS MainXml, SequenceTheorems, DiscoveryCache_proofs

----------------------------------------------------------------------------
(* The inductive invariant.                                                *)

IInv == TypeOK /\ LibraryReleased /\ CacheOK(m_devices)

LEMMA InitIInv == Init => IInv
<1> SUFFICES ASSUME Init PROVE IInv
  OBVIOUS
<1>1. DOMAIN m_devices = {} /\ m_devices = [k \in {} |-> m_devices[k]]
  BY DEF Init
<1> QED
  BY <1>1 DEF Init, IInv, TypeOK, LibraryReleased, CacheOK, IsCache

LEMMA UpdateXmlOK ==
    ASSUME CacheOK(m_devices), NEW l, NEW x \in Xml, updateXml(l, x)
    PROVE  /\ CacheOK(m_devices')
           /\ DOMAIN m_devices' = DOMAIN m_devices
           /\ \A k \in DOMAIN m_devices :
                 /\ m_devices'[k].xmlString \in {x, m_devices[k].xmlString}
                 /\ m_devices'[k] = [m_devices[k] EXCEPT !.xmlString =
                                        m_devices'[k].xmlString]
<1>1. PICK j \in DOMAIN m_devices :
         m_devices' = [m_devices EXCEPT ![j].xmlString = x]
  BY DEF updateXml
<1>2. /\ DOMAIN m_devices' = DOMAIN m_devices
      /\ m_devices' = [k \in DOMAIN m_devices' |-> m_devices'[k]]
  BY <1>1 DEF CacheOK, IsCache
<1>3. ASSUME NEW k \in DOMAIN m_devices
      PROVE  /\ EntryOK(k, m_devices'[k])
             /\ m_devices'[k].xmlString \in {x, m_devices[k].xmlString}
             /\ m_devices'[k] = [m_devices[k] EXCEPT !.xmlString =
                                    m_devices'[k].xmlString]
  <2>1. EntryOK(k, m_devices[k])
    BY DEF CacheOK
  <2>2. CASE k # j
    <3>1. m_devices'[k] = m_devices[k]
      BY <1>1, <2>2
    <3> QED
      BY <2>1, <3>1 DEF EntryOK, deviceInfo
  <2>3. CASE k = j
    <3>1. m_devices'[k] = [m_devices[k] EXCEPT !.xmlString = x]
      BY <1>1, <2>3 DEF CacheOK, IsCache
    <3> QED
      BY <2>1, <3>1 DEF EntryOK, deviceInfo
  <2> QED
    BY <2>2, <2>3
<1>4. IsCache(m_devices')
  BY <1>2, <1>3 DEF CacheOK, IsCache, EntryOK
<1> QED
  BY <1>2, <1>3, <1>4 DEF CacheOK

LEMMA NextIInv == IInv /\ [Next]_vars => IInv'
<1> SUFFICES ASSUME IInv, [Next]_vars PROVE IInv'
  OBVIOUS
<1> USE DEF IInv
<1>1. ASSUME NEW ok \in BOOLEAN, Initialise(ok) \/ Register(ok)
      PROVE  IInv'
  BY <1>1 DEF Initialise, Register, TypeOK, LibraryReleased, CacheOK, IsCache
<1>2. CASE Bare
  BY <1>2 DEF Bare, TypeOK, LibraryReleased, CacheOK, IsCache
<1>3. ASSUME Destroy \/ \E e \in Event : Terminate(e)
      PROVE  IInv'
  <2>1. DOMAIN m_devices' = {} /\ m_devices' = [k \in {} |-> m_devices'[k]]
    BY <1>3 DEF Destroy, Terminate
  <2> QED
    BY <1>3, <2>1 DEF Destroy, Terminate, TypeOK, LibraryReleased, CacheOK, IsCache
<1>4. ASSUME NEW e \in Event, handleDiscoveryEvent(e)
      PROVE  IInv'
  <2>1. CacheOK(m_devices')
    BY <1>4, HandledOK DEF handleDiscoveryEvent
  <2> QED
    BY <1>4, <2>1 DEF handleDiscoveryEvent, TypeOK, LibraryReleased, CacheOK
<1>5. ASSUME NEW l \in Location \cup {Empty}, NEW x \in Xml, updateXml(l, x)
      PROVE  IInv'
  <2>1. CacheOK(m_devices')
    BY <1>5, UpdateXmlOK
  <2> QED
    BY <1>5, <2>1 DEF updateXml, TypeOK, LibraryReleased, CacheOK
<1>6. CASE UNCHANGED vars
  BY <1>6 DEF vars, TypeOK, LibraryReleased, CacheOK, IsCache
<1> QED
  BY <1>1, <1>2, <1>3, <1>4, <1>5, <1>6 DEF Next

----------------------------------------------------------------------------
(* The theorems.                                                           *)

\* The client and its cache are always well-typed.
THEOREM TypeCorrect == Spec => []TypeOK
<1>1. IInv => TypeOK
  BY DEF IInv
<1> QED
  BY <1>1, InitIInv, NextIInv, PTL DEF Spec

\* The library is initialised only while a client needs it, on every path
\* through the constructor, and calls back only into a live client.
THEOREM Released == Spec => []LibraryReleased
<1>1. IInv => LibraryReleased
  BY DEF IInv
<1> QED
  BY <1>1, InitIInv, NextIInv, PTL DEF Spec

\* No event files an entry under another device's id.
THEOREM Filed == Spec => []FiledUnderOwnId
<1>1. IInv => FiledUnderOwnId
  BY DEF IInv, CacheOK, EntryOK, FiledUnderOwnId
<1> QED
  BY <1>1, InitIInv, NextIInv, PTL DEF Spec

\* The latest service type of an entry is among those it was announced with.
THEOREM ServiceListed == Spec => []LatestServiceListed
<1>1. IInv => LatestServiceListed
  BY DEF IInv, CacheOK, EntryOK, LatestServiceListed
<1> QED
  BY <1>1, InitIInv, NextIInv, PTL DEF Spec

\* Where its latest location names host and port, an entry's address is that of
\* this location.
THEOREM AddressFollows == Spec => []AddressOfLocation
<1>1. IInv => AddressOfLocation
  BY DEF IInv, CacheOK, EntryOK, AddressOfLocation
<1> QED
  BY <1>1, InitIInv, NextIInv, PTL DEF Spec

\* No event empties a field of a cached device, its types among them, or drops one
\* of its services.
THEOREM KeepsEverything == Spec => NothingLost
<1> DEFINE Keeps(old, new) ==
              /\ old.serviceTypes \subseteq new.serviceTypes
              /\ old.deviceType # Empty => new.deviceType # Empty
              /\ old.serviceType # Empty => new.serviceType # Empty
              /\ old.locationUrl # Empty => new.locationUrl # Empty
              /\ old.ipAddr # Empty => new.ipAddr # Empty
              /\ old.port # 0 => new.port # 0
              /\ old.xmlString # Empty => new.xmlString # Empty
           KeepsAll == \A k \in DOMAIN m_devices \cap DOMAIN m_devices' :
                          Keeps(m_devices[k], m_devices'[k])
<1>1. IInv /\ [Next]_vars => KeepsAll
  <2> SUFFICES ASSUME IInv, [Next]_vars,
                      NEW k \in DOMAIN m_devices \cap DOMAIN m_devices'
               PROVE  Keeps(m_devices[k], m_devices'[k])
    OBVIOUS
  <2>1. EntryOK(k, m_devices[k])
    BY DEF IInv, CacheOK
  <2>2. CASE m_devices'[k] = m_devices[k]
    BY <2>2
  <2>3. ASSUME NEW e \in Event, handleDiscoveryEvent(e),
               m_devices'[k] # m_devices[k]
        PROVE  Keeps(m_devices[k], m_devices'[k])
    <3>1. /\ k = e.id
          /\ m_devices'[k] = Refreshed(m_devices[k], InfoOf(e))
      BY <2>3 DEF handleDiscoveryEvent, Handled, Remembering, InfoOf
    <3> QED
      BY <2>1, <3>1, RefreshedOK
  <2>4. ASSUME NEW l \in Location \cup {Empty}, NEW x \in Xml, updateXml(l, x)
        PROVE  Keeps(m_devices[k], m_devices'[k])
    <3>1. /\ m_devices'[k].xmlString \in {x, m_devices[k].xmlString}
          /\ m_devices'[k] = [m_devices[k] EXCEPT !.xmlString =
                                 m_devices'[k].xmlString]
      BY <2>4, UpdateXmlOK DEF IInv
    <3>2. x # Empty
      BY StringAssumption
    <3> QED
      BY <2>1, <3>1, <3>2 DEF EntryOK, deviceInfo
  <2>5. ASSUME Destroy \/ \E e \in Event : Terminate(e)
        PROVE  FALSE
    BY <2>5 DEF Destroy, Terminate
  <2> QED
    BY <2>2, <2>3, <2>4, <2>5
    DEF Next, vars, Initialise, Register, Bare
<1>2. IInv /\ [Next]_vars => [KeepsAll]_vars
  BY <1>1
<1> QED
  BY <1>2, InitIInv, NextIInv, PTL DEF Spec, NothingLost

----------------------------------------------------------------------------
(* The cache as its users see it.                                          *)

\* The entry without its document, which a scan does not read.
Shown(entry) == [deviceId     |-> entry.deviceId,
                 deviceType   |-> entry.deviceType,
                 serviceType  |-> entry.serviceType,
                 serviceTypes |-> entry.serviceTypes,
                 ipAddr       |-> entry.ipAddr,
                 port         |-> entry.port,
                 locationUrl  |-> entry.locationUrl,
                 xmlString    |-> Empty]

shown == [k \in DOMAIN m_devices |-> Shown(m_devices[k])]

LEMMA ShownInfo ==
    ASSUME NEW e \in Event
    PROVE  Shown(InfoOf(e)) = InfoOf(e)
<1>1. CASE e.id = NoId \/ e.location = Empty
  BY <1>1 DEF InfoOf, parseDiscoveredDevice, Shown, NoInfo
<1>2. CASE ~(e.id = NoId \/ e.location = Empty)
  <2> DEFINE address == parseLocationHostAndPort(e.location)
  <2>1. InfoOf(e) = [deviceId |-> e.id, deviceType |-> e.deviceType,
                     serviceType |-> e.serviceType,
                     serviceTypes |-> {e.serviceType},
                     ipAddr |-> address[1], port |-> address[2],
                     locationUrl |-> e.location, xmlString |-> Empty]
    BY <1>2 DEF InfoOf, parseDiscoveredDevice, NoInfo
  <2> HIDE DEF address
  <2> QED
    BY <2>1 DEF Shown
<1> QED
  BY <1>1, <1>2

LEMMA ShownRefreshed ==
    ASSUME NEW entry, NEW info
    PROVE  Shown(Refreshed(entry, info)) = Refreshed(Shown(entry), info)
BY DEF Shown, Refreshed

\* Without their documents, entries follow the events as they do with them.
LEMMA ShownHandled ==
    ASSUME IsCache(m_devices), NEW e \in Event, m_devices' = Handled(m_devices, e)
    PROVE  shown' = Handled(shown, e)
<1> DEFINE info == InfoOf(e)
<1>1. DOMAIN shown = DOMAIN m_devices /\ \A k \in DOMAIN m_devices : shown[k] = Shown(m_devices[k])
  BY DEF shown
<1>2. shown' = [k \in DOMAIN m_devices' |-> Shown(m_devices'[k])]
  BY DEF shown
<1> HIDE DEF shown
<1>3. CASE e.type = "BYEBYE"
  <2>1. m_devices' = [k \in DOMAIN m_devices \ {e.id} |-> m_devices[k]]
    BY <1>3 DEF Handled
  <2>2. Handled(shown, e) = [k \in DOMAIN m_devices \ {e.id} |-> shown[k]]
    BY <1>1, <1>3 DEF Handled
  <2> QED
    BY <1>1, <1>2, <2>1, <2>2
<1>4. CASE e.type # "BYEBYE" /\ Accepted(e)
  <2>1. m_devices' = [k \in DOMAIN m_devices \cup {e.id} |->
                         IF k # e.id THEN m_devices[k]
                         ELSE IF k \in DOMAIN m_devices THEN Refreshed(m_devices[k], info)
                         ELSE info]
    BY <1>4 DEF Handled, Remembering, InfoOf
  <2>2. Handled(shown, e) = [k \in DOMAIN m_devices \cup {e.id} |->
                                IF k # e.id THEN shown[k]
                                ELSE IF k \in DOMAIN m_devices THEN Refreshed(shown[k], info)
                                ELSE info]
    BY <1>1, <1>4 DEF Handled, Remembering, InfoOf
  <2> HIDE DEF info
  <2>3. Shown(info) = info
    BY ShownInfo DEF info
  <2>4. \A k \in DOMAIN m_devices : Shown(Refreshed(m_devices[k], info)) = Refreshed(shown[k], info)
    BY <1>1, ShownRefreshed
  <2>5. ASSUME NEW k \in DOMAIN m_devices \cup {e.id}
        PROVE  Shown(m_devices'[k]) = Handled(shown, e)[k]
    BY <1>1, <2>1, <2>2, <2>3, <2>4
  <2>6. DOMAIN m_devices' = DOMAIN m_devices \cup {e.id}
    BY <2>1
  <2> QED
    BY <1>2, <2>2, <2>5, <2>6
<1>5. CASE e.type # "BYEBYE" /\ ~ Accepted(e)
  <2>1. m_devices' = m_devices /\ Handled(shown, e) = shown
    BY <1>5 DEF Handled
  <2> QED
    BY <2>1 DEF shown
<1> QED
  BY <1>3, <1>4, <1>5

\* Documents aside, the cache changes by the events of the library alone, each
\* of them in one step, and is emptied with the client or its process: to its readers it is
\* the cache of ControlPoint, whatever documents are filed in it meanwhile.
ChangedByEvents ==
    [][\/ \E e \in Event : shown' = Handled(shown, e)
       \/ phase' \in {"destroyed", "terminated"} /\ shown' = << >>]_shown

THEOREM CacheFollowsEvents == Spec => ChangedByEvents
<1> DEFINE ByEvent == \/ \E e \in Event : shown' = Handled(shown, e)
                      \/ phase' \in {"destroyed", "terminated"} /\ shown' = << >>
<1>1. IInv /\ [Next]_vars => [ByEvent]_shown
  <2> SUFFICES ASSUME IInv, [Next]_vars
               PROVE  ByEvent \/ shown' = shown
    OBVIOUS
  <2>1. CASE m_devices' = m_devices
    BY <2>1 DEF shown
  <2>2. ASSUME Destroy \/ \E e \in Event : Terminate(e)
        PROVE  ByEvent
    <3>1. m_devices' = << >> /\ phase' \in {"destroyed", "terminated"}
      BY <2>2 DEF Destroy, Terminate
    <3>2. DOMAIN << >> = {}
      OBVIOUS
    <3>3. shown' = << >>
      BY <3>1, <3>2 DEF shown
    <3> QED
      BY <3>1, <3>3
  <2>3. ASSUME NEW e \in Event, handleDiscoveryEvent(e)
        PROVE  ByEvent
    BY <2>3, ShownHandled DEF handleDiscoveryEvent, IInv, TypeOK
  <2>4. ASSUME NEW l \in Location \cup {Empty}, NEW x \in Xml, updateXml(l, x)
        PROVE  shown' = shown
    <3>1. PICK k \in DOMAIN m_devices : m_devices' = [m_devices EXCEPT ![k].xmlString = x]
      BY <2>4 DEF updateXml
    <3>2. /\ DOMAIN m_devices' = DOMAIN m_devices
          /\ m_devices'[k] = [m_devices[k] EXCEPT !.xmlString = x]
          /\ \A i \in DOMAIN m_devices \ {k} : m_devices'[i] = m_devices[i]
      BY <3>1 DEF IInv, TypeOK, IsCache
    <3>3. m_devices[k] \in deviceInfo
      BY DEF IInv, TypeOK, IsCache
    <3>4. Shown(m_devices'[k]) = Shown(m_devices[k])
      BY <3>2, <3>3 DEF Shown, deviceInfo
    <3> QED
      BY <3>2, <3>4 DEF shown
  <2> QED
    BY <2>1, <2>2, <2>3, <2>4 DEF Next, vars, Initialise, Register, Bare
<1> QED
  BY <1>1, InitIInv, NextIInv, PTL DEF Spec, ChangedByEvents

----------------------------------------------------------------------------
(* getMainXML: one request.                                                *)

Document == Xml \cup Url
Parsed   == [document : Document, next : Nat]
Request  == [location : Location,
             text     : Xml,
             stack    : Seq(Parsed),
             urls     : Seq(Url),
             opened   : SUBSET Document]

\* The SCPDURL of the service i of the document u, as a request resolves it.
Found(now, u, i) == resolved(now.location, services[u][i])

\* Every document on the stack is open and its next service one of its own or
\* the end.
StackOK(now) ==
    \A j \in 1..Len(now.stack) :
        /\ now.stack[j].document \in now.opened
        /\ now.stack[j].next \in 1..(Len(services[now.stack[j].document]) + 1)

\* What was found is a service of an open document, and what was opened was
\* found before.
OnlyFound(now) ==
    /\ \A url \in ToSet(now.urls) :
          \E u \in now.opened : \E i \in DOMAIN services[u] : url = Found(now, u, i)
    /\ now.opened \subseteq ToSet(now.urls) \cup {now.text}

\* Every service of an open document was found, or the stack still leads to it.
AllFound(now) ==
    \A u \in now.opened : \A i \in DOMAIN services[u] :
        \/ Found(now, u, i) \in ToSet(now.urls)
        \/ \E j \in 1..Len(now.stack) :
               now.stack[j].document = u /\ now.stack[j].next <= i

RequestOK(now) == now \in Request /\ StackOK(now) /\ OnlyFound(now) /\ AllFound(now)

LEMMA FoundType ==
    ASSUME NEW now, now.location \in Location, NEW u \in Document, NEW i \in DOMAIN services[u]
    PROVE  Found(now, u, i) \in Url
<1>1. services[u] \in Seq(FullUrl \cup Relative)
  BY ServicesAssumption DEF Document
<1>2. services[u][i] \in FullUrl \cup Relative
  BY <1>1
<1> QED
  BY <1>2 DEF Found, resolved, Url

LEMMA ToSetAppend ==
    ASSUME NEW S, NEW s \in Seq(S), NEW x \in S
    PROVE  ToSet(Append(s, x)) = ToSet(s) \cup {x}
<1>1. /\ Len(Append(s, x)) = Len(s) + 1
      /\ \A i \in 1..Len(s) : Append(s, x)[i] = s[i]
      /\ Append(s, x)[Len(s) + 1] = x
      /\ Append(s, x) \in Seq(S)
  OBVIOUS
<1>2. /\ DOMAIN s = 1..Len(s)
      /\ DOMAIN Append(s, x) = 1..(Len(s) + 1)
  BY <1>1, LenProperties
<1>3. 1..(Len(s) + 1) = 1..Len(s) \cup {Len(s) + 1}
  BY LenProperties
<1> QED
  BY <1>1, <1>2, <1>3 DEF ToSet

\* A description just downloaded: nothing found, everything to come.
LEMMA AskOK ==
    ASSUME NEW l \in Location, NEW x \in Xml
    PROVE  RequestOK([location |-> l, text |-> x, stack |-> <<Frame(x)>>,
                      urls |-> << >>, opened |-> {x}])
<1> DEFINE now == [location |-> l, text |-> x, stack |-> <<Frame(x)>>,
                   urls |-> << >>, opened |-> {x}]
<1>1. now \in Request
  BY DEF Request, Parsed, Frame, Document
<1>2. ToSet(now.urls) = {}
  BY DEF ToSet
<1>3. services[x] \in Seq(FullUrl \cup Relative)
  BY ServicesAssumption
<1>4. Len(now.stack) = 1 /\ now.stack[1] = [document |-> x, next |-> 1]
  BY DEF Frame
<1>5. Len(services[x]) \in Nat /\ DOMAIN services[x] = 1..Len(services[x])
  BY <1>3, LenProperties
<1> HIDE DEF now
<1>6. now.opened = {x} /\ now.text = x
  BY DEF now
<1>7. StackOK(now)
  BY <1>4, <1>5, <1>6 DEF StackOK
<1>8. OnlyFound(now)
  BY <1>2, <1>6 DEF OnlyFound
<1>9. AllFound(now)
  BY <1>4, <1>5, <1>6 DEF AllFound
<1> QED
  BY <1>1, <1>7, <1>8, <1>9 DEF RequestOK, now

\* A sequence without its last element, and with another in its place.
LEMMA FrontOK ==
    ASSUME NEW S, NEW s \in Seq(S), Len(s) \in Nat \ {0}
    PROVE  /\ Last(s) = s[Len(s)] /\ Last(s) \in S
           /\ Front(s) \in Seq(S) /\ Len(Front(s)) = Len(s) - 1
           /\ \A j \in 1..(Len(s) - 1) : Front(s)[j] = s[j]
<1> DEFINE n == Len(s)
<1>1. n \in Nat \ {0}
  OBVIOUS
<1>2. \A j \in 1..(n - 1) : s[j] \in S
  BY <1>1, ElementOfSeq
<1>3. /\ Front(s) \in Seq(S)
      /\ Len(Front(s)) = n - 1
      /\ \A j \in 1..(n - 1) : Front(s)[j] = s[j]
  <2> DEFINE m == n - 1
  <2>0. ~ 1 <= m => m = 0
    BY <1>1
  <2>1. m \in Int /\ 1 \in Int /\ m - 1 + 1 = m
    BY <1>1
  <2> HIDE DEF m
  <2>2. /\ Front(s) \in Seq(S)
        /\ Len(Front(s)) = IF 1 <= m THEN m - 1 + 1 ELSE 0
        /\ \A j \in 1..(m - 1 + 1) : Front(s)[j] = s[1 + j - 1]
    BY <1>2, <2>1, SubSeqProperties DEF Front, m
  <2>3. \A j \in 1..m : 1 + j - 1 = j
    BY <2>1
  <2> QED
    BY <2>0, <2>1, <2>2, <2>3 DEF m
<1>4. Last(s) = s[n] /\ Last(s) \in S
  BY <1>1, ElementOfSeq DEF Last
<1> QED
  BY <1>1, <1>3, <1>4

LEMMA ReplaceLast ==
    ASSUME NEW S, NEW s \in Seq(S), Len(s) \in Nat \ {0}, NEW x \in S
    PROVE  /\ Front(s) \o <<x>> \in Seq(S)
           /\ Len(Front(s) \o <<x>>) = Len(s)
           /\ \A j \in 1..(Len(s) - 1) : (Front(s) \o <<x>>)[j] = s[j]
           /\ (Front(s) \o <<x>>)[Len(s)] = x
<1>1. /\ Front(s) \in Seq(S) /\ Len(Front(s)) = Len(s) - 1
      /\ \A j \in 1..(Len(s) - 1) : Front(s)[j] = s[j]
  BY FrontOK
<1>2. <<x>> \in Seq(S) /\ Len(<<x>>) = 1 /\ <<x>>[1] = x
  OBVIOUS
<1> QED
  BY <1>1, <1>2

\* A request after its next service, and one that has done with a document.
Working(now) == Len(now.stack) \in Nat \ {0}
AtService(now) == Last(now.stack).next <= Len(services[Last(now.stack).document])

ServiceParsed(now, downloaded) ==
    LET top   == Last(now.stack)
        url   == Found(now, top.document, top.next)
        after == Front(now.stack) \o <<[document |-> top.document, next |-> top.next + 1]>>
    IN  [location |-> now.location,
         text     |-> now.text,
         stack    |-> IF downloaded THEN Append(after, Frame(url)) ELSE after,
         urls     |-> Append(now.urls, url),
         opened   |-> IF downloaded THEN now.opened \cup {url} ELSE now.opened]

Returned(now) == [location |-> now.location, text |-> now.text,
                  stack |-> Front(now.stack), urls |-> now.urls, opened |-> now.opened]

LEMMA ParseOK ==
    ASSUME NEW now, RequestOK(now), Working(now), AtService(now), NEW downloaded \in BOOLEAN
    PROVE  RequestOK(ServiceParsed(now, downloaded))
<1> DEFINE n     == Len(now.stack)
           top   == Last(now.stack)
           x     == [document |-> top.document, next |-> top.next + 1]
           url   == Found(now, top.document, top.next)
           after == Front(now.stack) \o <<x>>
           new   == ServiceParsed(now, downloaded)
           stack == new.stack
<1>0. now \in Request /\ now.stack \in Seq(Parsed) /\ n \in Nat \ {0}
  BY DEF RequestOK, Request, Working
<1>1. top = now.stack[n] /\ top \in Parsed
  BY <1>0, FrontOK
<1>8. /\ new.location = now.location /\ new.text = now.text
      /\ new.urls = Append(now.urls, url)
      /\ stack = (IF downloaded THEN Append(after, Frame(url)) ELSE after)
      /\ new.opened = (IF downloaded THEN now.opened \cup {url} ELSE now.opened)
      /\ new = [location |-> new.location, text |-> new.text, stack |-> new.stack,
                urls |-> new.urls, opened |-> new.opened]
  BY DEF ServiceParsed
<1>2. x \in Parsed /\ x.document = top.document /\ x.next = top.next + 1
  BY <1>1 DEF Parsed
<1> HIDE DEF x
<1>3. /\ after \in Seq(Parsed) /\ Len(after) = n
      /\ \A j \in 1..(n - 1) : after[j] = now.stack[j]
      /\ after[n] = x
  <2>1. x \in Parsed
    BY <1>2
  <2>2. Len(now.stack) \in Nat \ {0}
    BY <1>0
  <2>3. after \in Seq(Parsed) /\ Len(after) = n
    BY <1>0, <2>1, <2>2, ReplaceLast
  <2>4. \A j \in 1..(n - 1) : after[j] = now.stack[j]
    BY <1>0, <2>1, <2>2, ReplaceLast
  <2>5. after[n] = x
    BY <1>0, <2>1, <2>2, ReplaceLast
  <2> QED
    BY <2>3, <2>4, <2>5
<1> HIDE DEF top, after, new
<1>4. /\ top.document \in now.opened
      /\ top.next \in DOMAIN services[top.document]
      /\ top.next + 1 \in 1..(Len(services[top.document]) + 1)
  <2>1. top.document \in now.opened /\ top.next \in 1..(Len(services[top.document]) + 1)
    BY <1>0, <1>1 DEF RequestOK, StackOK
  <2>2. services[top.document] \in Seq(FullUrl \cup Relative)
    BY <1>1, ServicesAssumption DEF Document, Parsed
  <2>3. /\ Len(services[top.document]) \in Nat
        /\ DOMAIN services[top.document] = 1..Len(services[top.document])
    BY <2>2, LenProperties
  <2> QED
    BY <2>1, <2>3, AtService(now) DEF AtService, top
<1>5. url \in Url /\ url \in Document
  BY <1>0, <1>1, <1>4, FoundType DEF Request, Document, Parsed
<1> HIDE DEF url
<1>6. Frame(url) \in Parsed /\ Frame(url).document = url /\ Frame(url).next = 1
  BY <1>5 DEF Frame, Parsed
<1>7. Len(services[url]) \in Nat
  BY <1>5, ServicesAssumption, LenProperties DEF Document
<1>9. /\ stack \in Seq(Parsed)
      /\ \A j \in 1..(n - 1) : stack[j] = now.stack[j]
      /\ stack[n] = x
      /\ Len(stack) = (IF downloaded THEN n + 1 ELSE n)
      /\ downloaded => stack[n + 1] = Frame(url)
  <2>1. CASE downloaded
    BY <1>0, <1>3, <1>6, <1>8, <2>1
  <2>2. CASE ~ downloaded
    BY <1>0, <1>3, <1>8, <2>2
  <2> QED
    BY <2>1, <2>2
<1>10. new \in Request
  <2>1. new.urls \in Seq(Url)
    BY <1>0, <1>5, <1>8 DEF Request
  <2>2. new.location \in Location /\ new.text \in Xml /\ new.opened \in SUBSET Document
    BY <1>0, <1>5, <1>8 DEF Request
  <2> QED
    BY <1>8, <1>9, <2>1, <2>2 DEF Request
<1>11. ToSet(new.urls) = ToSet(now.urls) \cup {url}
  BY <1>0, <1>5, <1>8, ToSetAppend DEF Request
<1>12. \A u, i : Found(new, u, i) = Found(now, u, i)
  BY <1>8 DEF Found
<1> HIDE DEF stack
<1>13. StackOK(new)
  <2> SUFFICES ASSUME NEW j \in 1..Len(stack)
               PROVE  /\ stack[j].document \in new.opened
                      /\ stack[j].next \in 1..(Len(services[stack[j].document]) + 1)
    BY DEF StackOK, stack
  <2>1. CASE j \in 1..(n - 1)
    BY <1>1, <1>8, <1>9, <2>1 DEF RequestOK, StackOK
  <2>2. CASE j = n
    BY <1>2, <1>4, <1>8, <1>9, <2>2
  <2>3. CASE downloaded /\ j = n + 1
    BY <1>6, <1>7, <1>8, <1>9, <2>3
  <2> QED
    BY <1>0, <1>9, <2>1, <2>2, <2>3
<1>14. OnlyFound(new)
  <2>1. OnlyFound(now)
    BY DEF RequestOK
  <2>2. now.opened \subseteq new.opened /\ new.opened \subseteq now.opened \cup {url}
    BY <1>8
  <2>3. \E u \in now.opened : \E i \in DOMAIN services[u] : url = Found(now, u, i)
    BY <1>4 DEF url
  <2>4. \A v \in ToSet(new.urls) :
           \E u \in new.opened : \E i \in DOMAIN services[u] : v = Found(new, u, i)
    BY <1>11, <1>12, <2>1, <2>2, <2>3 DEF OnlyFound
  <2> QED
    BY <1>8, <1>11, <2>1, <2>2, <2>4 DEF OnlyFound
<1>15. AllFound(new)
  <2> SUFFICES ASSUME NEW u \in new.opened, NEW i \in DOMAIN services[u],
                      Found(now, u, i) \notin ToSet(new.urls)
               PROVE  \E j \in 1..Len(stack) : stack[j].document = u /\ stack[j].next <= i
    BY <1>12 DEF AllFound, stack
  <2>1. CASE u \in now.opened
    <3>1. PICK j \in 1..n : now.stack[j].document = u /\ now.stack[j].next <= i
      BY <1>11, <2>1 DEF RequestOK, AllFound
    <3>2. CASE j # n
      <4>1. stack[j] = now.stack[j] /\ j \in 1..Len(stack)
        BY <1>1, <1>9, <3>2
      <4> QED
        BY <3>1, <4>1
    <3>3. CASE j = n
      <4>1. top.document = u /\ top.next <= i
        <5>1. now.stack[j] = top
          BY <1>1, <3>3
        <5> QED
          BY <3>1, <5>1
      <4>2. i # top.next
        BY <1>11, <4>1 DEF url
      <4>3. i \in Nat
        <5>1. services[u] \in Seq(FullUrl \cup Relative)
          BY <1>0, <2>1, ServicesAssumption DEF Request, Document
        <5> QED
          BY <5>1, LenProperties
      <4>4. x.next <= i
        BY <1>1, <1>2, <4>1, <4>2, <4>3 DEF Parsed
      <4> QED
        BY <1>1, <1>2, <1>9, <4>1, <4>4
    <3> QED
      BY <3>2, <3>3
  <2>2. CASE downloaded /\ u = url
    <3>1. i \in Nat /\ 1 <= i
      <4>1. services[url] \in Seq(FullUrl \cup Relative)
        BY <1>5, ServicesAssumption DEF Document
      <4> QED
        BY <2>2, <4>1, LenProperties
    <3>2. n + 1 \in 1..Len(stack)
      BY <1>1, <1>9, <2>2
    <3> QED
      BY <1>6, <1>9, <2>2, <3>1, <3>2
  <2> QED
    BY <1>8, <2>1, <2>2
<1> QED
  BY <1>10, <1>13, <1>14, <1>15 DEF RequestOK, new

\* A document without further services is left.
LEMMA ReturnOK ==
    ASSUME NEW now, RequestOK(now), Working(now), ~ AtService(now)
    PROVE  RequestOK(Returned(now))
<1> DEFINE n   == Len(now.stack)
           top == Last(now.stack)
           new == Returned(now)
<1>0. now \in Request /\ now.stack \in Seq(Parsed) /\ n \in Nat \ {0}
  BY DEF RequestOK, Request, Working
<1>1. top = now.stack[n] /\ top \in Parsed
  BY <1>0, FrontOK
<1>2. /\ new.location = now.location /\ new.text = now.text
      /\ new.urls = now.urls /\ new.opened = now.opened
      /\ new.stack = Front(now.stack)
      /\ new = [location |-> new.location, text |-> new.text, stack |-> new.stack,
                urls |-> new.urls, opened |-> new.opened]
  BY DEF Returned
<1> HIDE DEF top, new
<1>3. /\ new.stack \in Seq(Parsed) /\ Len(new.stack) = n - 1
      /\ \A j \in 1..(n - 1) : new.stack[j] = now.stack[j]
  BY <1>0, <1>2, FrontOK
<1>4. new \in Request
  BY <1>0, <1>2, <1>3 DEF Request
<1>5. StackOK(new) /\ OnlyFound(new)
  BY <1>0, <1>1, <1>2, <1>3 DEF RequestOK, StackOK, OnlyFound, Found
<1>6. AllFound(new)
  <2> SUFFICES ASSUME NEW u \in now.opened, NEW i \in DOMAIN services[u],
                      Found(now, u, i) \notin ToSet(now.urls)
               PROVE  \E j \in 1..(n - 1) : now.stack[j].document = u /\ now.stack[j].next <= i
    BY <1>2, <1>3 DEF AllFound, Found
  <2>1. PICK j \in 1..n : now.stack[j].document = u /\ now.stack[j].next <= i
    BY DEF RequestOK, AllFound
  <2>2. i <= Len(services[u]) /\ i \in Nat /\ Len(services[u]) \in Nat
    <3>1. services[u] \in Seq(FullUrl \cup Relative)
      BY <1>0, ServicesAssumption DEF Request, Document
    <3> QED
      BY <3>1, LenProperties
  <2>3. j # n
    BY <1>0, <1>1, <2>1, <2>2, ~ AtService(now) DEF AtService, top, Parsed
  <2> QED
    BY <1>0, <2>1, <2>3
<1> QED
  BY <1>4, <1>5, <1>6 DEF RequestOK, new

----------------------------------------------------------------------------
(* getMainXML: all requests, in the client.                                *)

Readers == /\ reader = [r \in Reader |-> reader[r]]
           /\ \A r \in Reader : Busy(r) => RequestOK(reader[r])

MainIInv == IInv /\ Readers /\ DocumentOfDevice

\* Parsing, as the actions say it.
LEMMA Parses ==
    ASSUME NEW r \in Reader, RequestOK(reader[r]), Parsing(r)
    PROVE  Working(reader[r])
<1>1. reader[r].stack \in Seq(Parsed)
  BY DEF RequestOK, Request
<1> QED
  BY <1>1, EmptySeq DEF Parsing, Working

LEMMA IdleParsesNothing ==
    ASSUME NEW r \in Reader, Parsing(r)
    PROVE  Busy(r)
BY DEF Parsing, Busy, Idle

\* One request moves on, the others stay where they are.
LEMMA OneReader ==
    ASSUME Readers, NEW r \in Reader, NEW now, now = Idle \/ RequestOK(now),
           reader' = [reader EXCEPT ![r] = now]
    PROVE  Readers'
BY DEF Readers, Busy

\* EXCEPT on three fields of a request, one after the other.
LEMMA ThreeFields ==
    ASSUME NEW now \in Request, NEW stack, NEW urls, NEW opened
    PROVE  [now EXCEPT !.urls = urls, !.stack = stack, !.opened = opened] =
               [location |-> now.location, text |-> now.text,
                stack |-> stack, urls |-> urls, opened |-> opened]
<1> DEFINE rec(s, u, o) == [location |-> now.location, text |-> now.text,
                            stack |-> s, urls |-> u, opened |-> o]
<1>1. [now EXCEPT !.urls = urls] = rec(now.stack, urls, now.opened)
  BY DEF Request
<1>2. [rec(now.stack, urls, now.opened) EXCEPT !.stack = stack] = rec(stack, urls, now.opened)
  OBVIOUS
<1>3. [rec(stack, urls, now.opened) EXCEPT !.opened = opened] = rec(stack, urls, opened)
  OBVIOUS
<1> QED
  BY <1>1, <1>2, <1>3, Zenon

LEMMA ParseReaders ==
    ASSUME Readers, NEW r \in Reader, NEW downloaded \in BOOLEAN, ParseService(r, downloaded)
    PROVE  Readers'
<1> DEFINE now == reader[r]
<1>1. RequestOK(now) /\ Working(now)
  BY Parses, IdleParsesNothing DEF ParseService, Readers
<1>2. AtService(now)
  BY DEF ParseService, AtService, Top, Services
<1>3. reader' = [reader EXCEPT ![r] = ServiceParsed(now, downloaded)]
  <2>1. now \in Request
    BY <1>1 DEF RequestOK
  <2>2. Last(now.stack) = [document |-> Last(now.stack).document, next |-> Last(now.stack).next]
    <3>1. Last(now.stack) \in Parsed
      BY <1>1, FrontOK DEF RequestOK, Request, Working
    <3> QED
      BY <3>1 DEF Parsed
  <2> DEFINE top   == Last(now.stack)
             url   == Found(now, top.document, top.next)
             after == Front(now.stack) \o <<[document |-> top.document, next |-> top.next + 1]>>
             stack  == IF downloaded THEN Append(after, Frame(url)) ELSE after
             urls   == Append(now.urls, url)
             opened == IF downloaded THEN now.opened \cup {url} ELSE now.opened
  <2>4. [top EXCEPT !.next = @ + 1] = [document |-> top.document, next |-> top.next + 1]
    BY <2>2
  <2>5. reader' = [reader EXCEPT ![r] =
                      [now EXCEPT !.urls = urls, !.stack = stack, !.opened = opened]]
    BY <2>4, Zenon DEF ParseService, Top, Services, Found
  <2>6. [now EXCEPT !.urls = urls, !.stack = stack, !.opened = opened] =
            [location |-> now.location, text |-> now.text,
             stack |-> stack, urls |-> urls, opened |-> opened]
    <3> HIDE DEF urls, stack, opened
    <3> QED
      BY <2>1, ThreeFields, Zenon
  <2> QED
    BY <2>5, <2>6, Zenon DEF ServiceParsed
<1> QED
  BY <1>1, <1>2, <1>3, ParseOK, OneReader

LEMMA ReturnReaders ==
    ASSUME Readers, NEW r \in Reader, Return(r)
    PROVE  Readers'
<1> DEFINE now == reader[r]
<1>1. RequestOK(now) /\ Working(now)
  BY Parses, IdleParsesNothing DEF Return, Readers
<1>2. ~ AtService(now)
  <2>1. Last(now.stack) \in Parsed /\ Last(now.stack).document \in Document
    <3>1. Last(now.stack) \in Parsed
      BY <1>1, FrontOK DEF RequestOK, Request, Working
    <3> QED
      BY <3>1 DEF Parsed
  <2>2. Len(services[Last(now.stack).document]) \in Nat /\ Last(now.stack).next \in Nat
    BY <2>1, ServicesAssumption, LenProperties DEF Document, Parsed
  <2> QED
    BY <2>2 DEF Return, AtService, Top, Services
<1>3. reader' = [reader EXCEPT ![r] = Returned(now)]
  <2>1. now = [location |-> now.location, text |-> now.text, stack |-> now.stack,
               urls |-> now.urls, opened |-> now.opened]
    BY <1>1 DEF RequestOK, Request
  <2>2. \A stack : [now EXCEPT !.stack = stack] =
                      [location |-> now.location, text |-> now.text, stack |-> stack,
                       urls |-> now.urls, opened |-> now.opened]
    BY <2>1
  <2>3. reader' = [reader EXCEPT ![r] = [now EXCEPT !.stack = Front(now.stack)]]
    BY DEF Return
  <2> QED
    BY <2>2, <2>3, Zenon DEF Returned
<1> QED
  BY <1>1, <1>2, <1>3, ReturnOK, OneReader

LEMMA NextReaders == Readers /\ [MainNext]_mainVars => Readers'
<1> SUFFICES ASSUME Readers, [MainNext]_mainVars PROVE Readers'
  OBVIOUS
<1>1. CASE ClientStep \/ UNCHANGED mainVars
  BY <1>1 DEF ClientStep, mainVars, Readers, Busy
<1>2. ASSUME NEW r \in Reader, NEW l \in Location, NEW x \in Xml, Ask(r, l, x)
      PROVE  Readers'
  BY <1>2, AskOK, OneReader DEF Ask
<1>3. ASSUME NEW r \in Reader, Finish(r)
      PROVE  Readers'
  BY <1>3, OneReader DEF Finish
<1>4. CASE ProcessEnds
  BY <1>4 DEF ProcessEnds, Readers, Busy
<1> QED
  BY <1>1, <1>2, <1>3, <1>4, ParseReaders, ReturnReaders DEF MainNext, ReaderStep

----------------------------------------------------------------------------
(* getMainXML: what it does to the client.                                 *)

\* To the client, a request is an updateXml or nothing.
LEMMA MainStep == Readers /\ [MainNext]_mainVars => [Next]_vars
<1> SUFFICES ASSUME Readers, [MainNext]_mainVars PROVE [Next]_vars
  OBVIOUS
<1>1. CASE ClientStep \/ ProcessEnds
  BY <1>1, EventAssumption DEF ClientStep, ProcessEnds, Next
<1>2. CASE UNCHANGED mainVars
  BY <1>2 DEF mainVars, vars
<1>3. ASSUME NEW r \in Reader, NEW l \in Location, NEW x \in Xml, Ask(r, l, x)
      PROVE  UNCHANGED vars
  BY <1>3 DEF Ask, vars
<1>4. ASSUME NEW r \in Reader, NEW downloaded \in BOOLEAN,
             ParseService(r, downloaded) \/ Return(r)
      PROVE  UNCHANGED vars
  BY <1>4 DEF ParseService, Return, vars
<1>5. ASSUME NEW r \in Reader, Finish(r)
      PROVE  [Next]_vars
  <2> DEFINE l == reader[r].location
             x == reader[r].text
  <2>1. l \in Location /\ x \in Xml
    BY <1>5 DEF Finish, Readers, RequestOK, Request
  <2>2. updateXml(l, x) \/ UNCHANGED vars
    BY <1>5 DEF Finish, Keep, vars
  <2> QED
    BY <2>1, <2>2 DEF Next
<1> QED
  BY <1>1, <1>2, <1>3, <1>4, <1>5 DEF MainNext, ReaderStep

\* The document kept with the entry filed under k is k's own.
Own(k, entry) == entry.xmlString # Empty => owner[entry.xmlString] = k

\* No event changes the document of an entry, and a new entry has none.
LEMMA ClientDocuments ==
    ASSUME MainIInv, ClientStep
    PROVE  DocumentOfDevice'
<1> SUFFICES ASSUME NEW k \in DOMAIN m_devices' \ doubtful'
             PROVE  Own(k, m_devices'[k])
  BY DEF DocumentOfDevice, Own
<1>1. k \in DOMAIN m_devices => Own(k, m_devices[k])
  BY DEF MainIInv, DocumentOfDevice, Own, ClientStep
<1>2. CASE k \in DOMAIN m_devices /\ m_devices'[k] = m_devices[k]
  BY <1>1, <1>2
<1>3. CASE Destroy
  BY <1>3 DEF Destroy
<1>4. ASSUME NEW e \in Event, handleDiscoveryEvent(e),
             ~ (k \in DOMAIN m_devices /\ m_devices'[k] = m_devices[k])
      PROVE  Own(k, m_devices'[k])
  <2>1. k = e.id
    BY <1>4 DEF handleDiscoveryEvent, Handled, Remembering
  <2>2. CASE k \in DOMAIN m_devices
    <3>1. m_devices'[k] = Refreshed(m_devices[k], InfoOf(e))
      BY <1>4, <2>1, <2>2 DEF handleDiscoveryEvent, Handled, Remembering, InfoOf
    <3>2. EntryOK(k, m_devices[k])
      BY <2>2 DEF MainIInv, IInv, CacheOK
    <3>3. m_devices'[k].xmlString = m_devices[k].xmlString
      BY <2>1, <3>1, <3>2, RefreshedOK
    <3> QED
      BY <1>1, <2>2, <3>3 DEF Own
  <2>3. CASE k \notin DOMAIN m_devices
    <3>1. m_devices'[k] = InfoOf(e)
      BY <1>4, <2>1, <2>3 DEF handleDiscoveryEvent, Handled, Remembering, InfoOf
    <3>2. InfoOf(e).xmlString = Empty
      BY DEF InfoOf, parseDiscoveredDevice, NoInfo
    <3> QED
      BY <3>1, <3>2 DEF Own
  <2> QED
    BY <2>2, <2>3
<1> QED
  BY <1>2, <1>3, <1>4, EventAssumption DEF ClientStep, Initialise, Register, Bare

\* A request leaves its document with an entry of its location, its device's own
\* unless another device has an entry there too.
LEMMA FinishDocuments ==
    ASSUME MainIInv, NEW r \in Reader, Finish(r)
    PROVE  DocumentOfDevice'
<1> DEFINE l == reader[r].location
           x == reader[r].text
<1>1. CASE UNCHANGED <<m_devices, doubtful>>
  BY <1>1 DEF MainIInv, DocumentOfDevice
<1>2. CASE Keep(l, x)
  <2> DEFINE kept == {k \in DOMAIN m_devices : m_devices'[k] # m_devices[k]}
  <2>1. PICK j \in DOMAIN m_devices :
           /\ m_devices[j].locationUrl = l
           /\ m_devices' = [m_devices EXCEPT ![j].xmlString = x]
    BY <1>2 DEF Keep, updateXml
  <2>2. EntryOK(j, m_devices[j])
    BY DEF MainIInv, IInv, CacheOK
  <2>3. m_devices'[j].xmlString = x
    BY <2>1, <2>2 DEF EntryOK, deviceInfo, MainIInv, IInv, CacheOK, IsCache
  <2>4. /\ DOMAIN m_devices' = DOMAIN m_devices
        /\ \A k \in DOMAIN m_devices \ {j} : m_devices'[k] = m_devices[k]
    BY <2>1
  <2>5. kept \subseteq {j}
    BY <2>4
  <2>6. doubtful' = IF Shared(l, x) THEN doubtful \cup kept ELSE doubtful \ kept
    BY <1>2 DEF Keep
  <2>7. ASSUME NEW k \in DOMAIN m_devices' \ doubtful'
        PROVE  Own(k, m_devices'[k])
    <3>1. CASE m_devices'[k] = m_devices[k]
      <4>1. k \in DOMAIN m_devices \ doubtful
        BY <2>4, <2>6, <2>7, <3>1
      <4> QED
        BY <3>1, <4>1 DEF MainIInv, DocumentOfDevice, Own
    <3>2. CASE m_devices'[k] # m_devices[k]
      <4>1. k = j /\ k \in kept
        BY <2>4, <3>2
      <4>2. ~ Shared(l, x)
        BY <2>6, <2>7, <4>1
      <4>3. owner[x] = j
        BY <2>1, <4>2 DEF Shared
      <4> QED
        BY <2>3, <4>1, <4>3 DEF Own
    <3> QED
      BY <3>1, <3>2
  <2> QED
    BY <2>7 DEF DocumentOfDevice, Own
<1> QED
  BY <1>1, <1>2 DEF Finish

LEMMA NextMainIInv == MainIInv /\ [MainNext]_mainVars => MainIInv'
<1> SUFFICES ASSUME MainIInv, [MainNext]_mainVars PROVE MainIInv'
  OBVIOUS
<1>1. IInv' /\ Readers'
  BY MainStep, NextIInv, NextReaders DEF MainIInv
<1>2. CASE UNCHANGED <<m_devices, doubtful>>
  BY <1>1, <1>2 DEF MainIInv, DocumentOfDevice
<1>3. CASE ClientStep
  BY <1>1, <1>3, ClientDocuments DEF MainIInv
<1>4. ASSUME NEW r \in Reader, Finish(r)
      PROVE  MainIInv'
  BY <1>1, <1>4, FinishDocuments DEF MainIInv
<1>5. CASE ProcessEnds
  <2>1. DOMAIN m_devices' = {}
    BY <1>5 DEF ProcessEnds, Terminate
  <2> QED
    BY <1>1, <2>1 DEF MainIInv, DocumentOfDevice
<1> QED
  BY <1>2, <1>3, <1>4, <1>5 DEF MainNext, ReaderStep, Ask, ParseService, Return, mainVars

LEMMA InitMainIInv == MainInit => MainIInv
<1> SUFFICES ASSUME MainInit PROVE MainIInv
  OBVIOUS
<1>1. IInv
  BY InitIInv DEF MainInit
<1>2. Readers
  BY DEF MainInit, Readers, Busy
<1>3. DOMAIN m_devices = {}
  BY DEF MainInit, Init
<1> QED
  BY <1>1, <1>2, <1>3 DEF MainIInv, DocumentOfDevice

----------------------------------------------------------------------------
(* The theorems about getMainXML.                                          *)

\* A client that getMainXML requests use is a client: what is proved of one
\* holds next to any number of requests.
THEOREM RequestsAreUpdates == MainSpec => Spec
<1>1. MainInit => Init
  BY DEF MainInit
<1>2. MainIInv /\ [MainNext]_mainVars => [Next]_vars
  BY MainStep DEF MainIInv
<1> QED
  BY <1>1, <1>2, InitMainIInv, NextMainIInv, PTL DEF MainSpec, Spec

\* A document kept with a device is the device's own, also after it moved, unless
\* another device was cached at the location when updateXml ran, however many
\* requests run and whatever is announced and downloaded meanwhile.
THEOREM DocumentsBelong == MainSpec => []DocumentOfDevice
<1>1. MainIInv => DocumentOfDevice
  BY DEF MainIInv
<1> QED
  BY <1>1, InitMainIInv, NextMainIInv, PTL DEF MainSpec

\* A request that has parsed all has found the services of every document it
\* opened, at any depth, and nothing else.
THEOREM AllFollowed == MainSpec => []ServicesFollowed
<1>1. MainIInv => ServicesFollowed
  <2> SUFFICES ASSUME MainIInv, NEW r \in Reader, Busy(r), ~ Parsing(r)
               PROVE  LET now == reader[r]
                      IN  /\ ToSet(now.urls) =
                                UNION {{resolved(now.location, services[u][i]) :
                                            i \in DOMAIN services[u]} : u \in now.opened}
                          /\ now.opened \subseteq ToSet(now.urls) \cup {now.text}
    BY DEF ServicesFollowed
  <2> DEFINE now == reader[r]
  <2>1. RequestOK(now) /\ now.stack = << >>
    BY DEF MainIInv, Readers, Parsing
  <2>2. Len(now.stack) = 0
    BY <2>1
  <2>3. \A u \in now.opened : \A i \in DOMAIN services[u] : Found(now, u, i) \in ToSet(now.urls)
    BY <2>1, <2>2 DEF RequestOK, AllFound
  <2> QED
    BY <2>1, <2>3 DEF RequestOK, OnlyFound, Found
<1> QED
  BY <1>1, InitMainIInv, NextMainIInv, PTL DEF MainSpec
=============================================================================
