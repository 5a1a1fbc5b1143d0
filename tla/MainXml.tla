------------------------------- MODULE MainXml -------------------------------
(***************************************************************************)
(* GET /upnp/getMainXML (getDeviceMainXML in                               *)
(* src/src/controller/upnpDevice.hpp and parseDeviceForSCPDs in            *)
(* upnpDevice.cpp): a request downloads a device description and the       *)
(* service descriptions it refers to, and theirs, one after the other, and *)
(* then leaves the document with the discovery client.  Meanwhile devices  *)
(* go on to announce themselves, to move and to leave.                     *)
(***************************************************************************)
EXTENDS UpnpClient, Sequences, SequencesExt

CONSTANTS
    Reader,         \* the request threads
    NetEvent,       \* what the network announces
    FullUrl,        \* SCPDURLs with scheme and host
    Relative,       \* other SCPDURLs
    mayServe,       \* mayServe[l]: the descriptions there may be at l, in time
    owner,          \* owner[x]: the device that description x is of
    services        \* services[u]: the SCPDURLs in the document u, in order

\* A relative SCPDURL is appended to the directory of the description it was
\* reached from, also one in a service description.
Url == FullUrl \cup (Location \X Relative)
resolved(location, url) == IF url \in FullUrl THEN url ELSE <<location, url>>

ASSUME EventAssumption == NetEvent \subseteq Event

\* A document: the text of a description, or a service description by its URL.
ASSUME DescriptionAssumption == /\ mayServe \in [Location -> SUBSET Xml]
                                /\ owner \in [Xml -> DeviceId]
ASSUME ServicesAssumption == services \in [Xml \cup Url -> Seq(FullUrl \cup Relative)]

\* Documents do not refer to each other in a circle: parseDeviceForSCPDs does
\* not look for one, and would follow it for ever.
ASSUME AcyclicAssumption ==
    \E depth \in [Xml \cup Url -> 0..Cardinality(Url)] :
        \A l \in Location, u \in Xml \cup Url : \A i \in DOMAIN services[u] :
            depth[resolved(l, services[u][i])] < depth[u]

VARIABLES
    reader,     \* reader[r]: the request r is in
    doubtful    \* history: the entries that got a document while another device
                \* than that of the document was cached at its location

mainVars == <<phase, lib, m_handle, m_devices, reader, doubtful>>

\* text: the description downloaded; stack: the documents being parsed, and the
\* next service of each; urls: the SCPDURLs found; opened: history, the documents
\* parsed.
Idle == [location |-> Empty, text |-> Empty, stack |-> << >>, urls |-> << >>,
         opened |-> {}]

Busy(r) == reader[r] # Idle
Frame(document) == [document |-> document, next |-> 1]

MainInit == /\ Init
            /\ reader = [r \in Reader |-> Idle]
            /\ doubtful = {}

----------------------------------------------------------------------------
(* The request.                                                            *)

\* The description is downloaded, whatever is at the location now.  One that
\* cannot be is answered 422.
Ask(r, location, text) ==
    /\ phase = "live"
    /\ ~Busy(r)
    /\ text \in mayServe[location]
    /\ reader' = [reader EXCEPT ![r] =
           [location |-> location, text |-> text, stack |-> <<Frame(text)>>,
            urls |-> << >>, opened |-> {text}]]
    /\ UNCHANGED <<phase, lib, m_handle, m_devices, doubtful>>

Parsing(r) == reader[r].stack # << >>
Top(r)     == Last(reader[r].stack)
Services(r) == services[Top(r).document]

\* The next service: its SCPDURL is noted, and the document there, if it can
\* be downloaded, is parsed before the services that follow.
ParseService(r, downloaded) ==
    /\ Parsing(r) /\ Top(r).next <= Len(Services(r))
    /\ LET now   == reader[r]
           url   == resolved(now.location, Services(r)[Top(r).next])
           after == Front(now.stack) \o <<[Top(r) EXCEPT !.next = @ + 1]>>
       IN reader' = [reader EXCEPT ![r] =
             [now EXCEPT !.urls   = Append(@, url),
                         !.stack  = IF downloaded THEN Append(after, Frame(url)) ELSE after,
                         !.opened = IF downloaded THEN @ \cup {url} ELSE @]]
    /\ UNCHANGED <<phase, lib, m_handle, m_devices, doubtful>>

\* Mutation of Return: the first document that ends, ends all.
ReturnAll(r) ==
    /\ Parsing(r) /\ Top(r).next > Len(Services(r))
    /\ reader' = [reader EXCEPT ![r].stack = << >>]
    /\ UNCHANGED <<phase, lib, m_handle, m_devices, doubtful>>

Return(r) ==
    /\ Parsing(r) /\ Top(r).next > Len(Services(r))
    /\ reader' = [reader EXCEPT ![r].stack = Front(@)]
    /\ UNCHANGED <<phase, lib, m_handle, m_devices, doubtful>>

\* Does another device than x's have an entry with location l?
Shared(l, x) == \E k \in DOMAIN m_devices \ {owner[x]} : m_devices[k].locationUrl = l

\* updateXml finds an entry, which may not be that of the document's device.
Keep(l, x) == /\ updateXml(l, x)
              /\ LET kept == {k \in DOMAIN m_devices : m_devices'[k] # m_devices[k]}
                 IN  doubtful' = IF Shared(l, x) THEN doubtful \cup kept
                                                 ELSE doubtful \ kept

\* Mutation of Finish: a request waits for the device to be cached.
FinishKnown(r) ==
    /\ Busy(r) /\ ~Parsing(r)
    /\ Keep(reader[r].location, reader[r].text)
    /\ reader' = [reader EXCEPT ![r] = Idle]

\* All parsed: updateXml, which finds an entry or none, and the answer.
Finish(r) ==
    /\ Busy(r) /\ ~Parsing(r)
    /\ LET l == reader[r].location
       IN \/ Keep(l, reader[r].text)
          \/ /\ \A k \in DOMAIN m_devices : m_devices[k].locationUrl # l
             /\ UNCHANGED <<phase, lib, m_handle, m_devices, doubtful>>
    /\ reader' = [reader EXCEPT ![r] = Idle]

----------------------------------------------------------------------------
(* The discovery client goes on; a request in it keeps it alive, and ends   *)
(* with the process.                                                       *)

ClientStep ==
    /\ \/ \E ok \in BOOLEAN : Initialise(ok) \/ Register(ok)
       \/ Bare
       \/ Destroy /\ \A r \in Reader : ~Busy(r)
       \/ \E e \in NetEvent : handleDiscoveryEvent(e)
    /\ doubtful' = doubtful \cap DOMAIN m_devices'
    /\ UNCHANGED reader

ProcessEnds == /\ \E e \in NetEvent : Terminate(e)
               /\ reader' = [r \in Reader |-> Idle]
               /\ doubtful' = {}

ReaderStep(r) == \/ \E downloaded \in BOOLEAN : ParseService(r, downloaded)
                 \/ Return(r) \/ Finish(r)

MainNext == \/ ClientStep
            \/ ProcessEnds
            \/ \E r \in Reader : \/ \E l \in Location, x \in Xml : Ask(r, l, x)
                                 \/ ReaderStep(r)

\* A request waits for nobody: a download ends, by a timeout if need be.
MainSpec == /\ MainInit
            /\ [][MainNext]_mainVars
            /\ \A r \in Reader : WF_mainVars(ReaderStep(r))

----------------------------------------------------------------------------
(* Properties.                                                             *)

\* A document kept with a device is that device's own, also after it moved,
\* unless another device was cached at the document's location when it came:
\* updateXml goes by the location alone.  Whatever else happens between download
\* and updateXml, requests never mix up the documents of two devices.
DocumentOfDevice ==
    \A k \in DOMAIN m_devices \ doubtful :
        m_devices[k].xmlString # Empty => owner[m_devices[k].xmlString] = k

\* When a request has parsed all, it has found the SCPDURLs of every document
\* it could open, at whatever depth, and nothing else: a failed download costs
\* nothing but what only it would have led to.
ServicesFollowed ==
    \A r \in Reader : (Busy(r) /\ ~Parsing(r)) =>
        LET now == reader[r]
        IN  /\ ToSet(now.urls) = UNION {{resolved(now.location, services[u][i]) :
                                            i \in DOMAIN services[u]} : u \in now.opened}
            /\ now.opened \subseteq ToSet(now.urls) \cup {now.text}

\* Every request is answered, unless the process ends.
RequestAnswered == \A r \in Reader : Busy(r) ~> ~Busy(r)
=============================================================================
