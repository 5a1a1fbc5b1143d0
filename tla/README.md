# A formal model of the UPnP TV server

TLA+ modules for the control-point server in `src/`: a program that finds UPnP
renderers on the network, remembers them in a JSON file, shows them on a web
page and hands media to them. TLC checks the models on small instances, TLAPS
proves the main results for every instance.

## The system

The server is one process. oatpp serves each HTTP connection in a thread of its
own; the UPnP library (pupnp) runs callbacks in its own threads. They share two
objects, each with one mutex.

| Part | Code (under `src/src/`) | State | Operations | Hard behaviour |
|---|---|---|---|---|
| Device store | `DeviceStore.{hpp,cpp}` | the records in memory, `devices.json` | load, save, list, upsert, remove | the file is truncated and rewritten in place, failures of that are ignored, crashes |
| Discovery client | `controller/UpnpClient.{hpp,cpp}` | library state, the cache of announced devices | constructor, destructor, discovery events, updateXml, search, devices | events in any order, incomplete or repeated |
| Device requests | `controller/upnpDevice.hpp` 334-411, 653-695 | none of their own: a copy of the cache while a scan runs | scan, list, forget | scans overlap with events, forgets and other scans; downloads fail |
| Casting requests | `controller/upnpDevice.hpp` 574-601, 806-963 and `ixmlfuncs.cpp` | none of their own: they change the renderers | sendMedia, setResource, sendAction | two SOAP actions that other requests and the renderer can come between |
| Browser page | `MediaLibrary.hpp` 229-390 | dropdown, selection, status line, requests in flight | scan, forget, reload, cast | answers out of order, lost answers |
| Media library and serving | `MediaLibrary.hpp` 24-222, `controller/upnpDevice.hpp` 60-121, 645-651, 697-803 | none of their own: the files of the content directory | list, serve | names that need URL encoding, checked before or after they are decoded; listings older than the directory |
| ContentDirectory, profiles | `controller/upnpDevice.hpp` 500-571 | none | description, profile, Browse, playlist | every answer sends the renderer on to another one |
| getMainXML | `controller/upnpDevice.{hpp,cpp}` | none of its own: documents while it runs | download a description and what it refers to, updateXml | many downloads, any of which may fail, while devices move and leave |
| Other UPnP requests, XML builders, DTOs, start-up | the rest | none | formatting | - |

How they interact: an event changes the cache (callback thread). A scan sends a
search, sleeps, copies the cache, downloads each device's description and
upserts a record per device into the store, which rewrites its file each time.
List, forget and scan answer with the store's records; the page puts them into
its dropdown and casts to the control URL of the selected one. A cast names a
URL of this server, which the renderer then requests; a renderer may also read
the server's own description and browse it. getMainXML leaves a document in the
cache.

What makes each part correct:

- store: calls are atomic although the file is written step by step, and what a
  call left behind survives restarts;
- client: whatever the network announces, an entry describes one device, its
  address belongs to its location and nothing known is lost;
- device requests: a scan stores everything it found, devices are not mixed up,
  and what is stored is fit to be cast to;
- casting: a success means that the renderer plays that media;
- page: the dropdown shows the store, and a cast goes where the user said;
- serving: whatever is in a file's name, every URL handed out for it leads to
  that file and to the type announced with it, and no request leads out of the
  content directory;
- getMainXML: everything reachable is followed, the request ends, and the
  document is kept with the device it describes.

## The modules

| Module | Models |
|---|---|
| `KnownDevices` | the records of the store and the pure functions on them (`mergeDevice`, find/append, `remove_if`, `deserializeDevices`) |
| `RememberedDevices` | abstract specification of the store: a durable map, changed and read atomically |
| `DeviceStore` | the store: the mutex, each call, the three steps of `saveLocked`, disk failures, crash and start |
| `DeviceStore_proofs` | theorems about it, its refinement of `RememberedDevices` among them |
| `DiscoveryCache` | the entries of the cache and what `handleDiscoveryEvent` makes of an event |
| `UpnpClient` | the client: constructor paths, destructor, events, `updateXml` |
| `MainXml` | getMainXML requests composed with `UpnpClient`: the parsing of nested service descriptions, then `updateXml` |
| `UpnpClient_proofs` | theorems about `UpnpClient` and `MainXml` |
| `ControlPoint` | scan, list and forget between `DiscoveryCache` and the atomic map of `KnownDevices` (what `RememberedDevices` promises and `DeviceStore` implements) |
| `DiscoveryCache_proofs`, `ControlPoint_proofs` | theorems about the two |
| `Casting`, `Casting_proofs` | sendMedia, setResource and sendAction against the renderers |
| `BrowserPage`, `BrowserPage_proofs` | the page's device controls, its requests in flight and the store |
| `MediaLibrary`, `MediaLibrary_proofs` | file names and their escapes, the media types derived from them; what decoding makes of an encoded name |
| `MediaServing`, `MediaServing_proofs` | the content directory, the ways to a media URL and the media endpoints |
| `MC*` | the instances TLC checks |

### Correspondence

`PROJECT.json` maps each definition to its lines. The main decisions:

- **Threads.** A critical section that only touches memory is one step.
  `saveLocked` is three (`SaveOpen`, `SaveWrite`, `SaveClose`), inside the
  critical section of its caller: others wait, but a crash can come between.
  `Acquire` is the lock_guard, `Return` its end together with the call's return.
- **The store's vector is a set.** Nothing depends on the order of records.
  `Upserted` gives one result per record `find_if` could pick.
- **The file** is `missing`, `torn` (truncated or cut) or `json(D)`. `Loaded`
  gives no devices for the first two, as `load` and the catch block of
  `deserializeDevices` do. What an ofstream was given is in `buf` until it is
  closed; a failure to write shows when it is closed, after `file.good()`.
- **Fields.** A field is `Empty` or a value. `DeviceStore` treats all fields but
  the id alike, as `mergeDevice` does; `ControlPoint` keeps one field of each
  origin (cache, description, both, clock).
- **Events** are records with any combination of id, location, types and error
  code. Losing, repeating and reordering them is choosing which to handle next.
- **Locations** have a host and a port through the constants `urlHost` and
  `urlPort` (what the regular expression finds); the cast to `uint16_t` is
  `% 65536`. A port beyond an unsigned long makes `std::stoul` throw (`Throws`,
  `MaxULong`) in the library's thread, where nothing catches it: the process ends
  (`Terminate`, in `ControlPoint` part of `Restart`).
- **The clock** is `system_clock`, which may be set forward or back at any time,
  so a scan may read any time (`ReadClock`). No action makes time pass.
- **Downloads** of a scan succeed with the document of the location, which stays
  the same (`document`), or fail.
  Parsing takes the first service whose type contains "AVTransport". For
  getMainXML, which keeps what it downloaded, any description a location may serve
  in time may come (`mayServe`), also one of another device (`owner`).
- **Renderers** carry out an action, refuse it, or carry it out and lose the
  answer, which `UpnpSendAction` reports as an error. They may stop or be
  switched off at any time. `Canned` is the document `createMetadataArgs`
  builds: no media of a request has its URL.
- **A cast request** may leave a field out or give it empty. Only a missing
  `actionUrl` (`Null`) is replaced by the default renderer; an empty one goes to
  the library, which refuses it (422). Without any media the answer is 400, and
  500 without a client handle (`handle`), which the server always has and a
  client made for a test has not.
- **The page.** A request is sent, served and answered, with anything in
  between; a rejected fetch may still be served (`orphan`). A reload abandons
  its page's requests. The order of the options is left out: any may be first.
- **File names** are sequences of bytes and words, a word being an extension or
  `http`: what the code looks for as a whole. `.mp4` has two words, for lower case
  and for any other: `hasVideoExtension` takes both, but the playlist of a stream
  appends the former. `urlEncode`, `urlDecode`,
  `isSafeFileName`, `hasVideoExtension` and the choice of media types are then
  the code's, byte by byte. A URL is its kind and the path behind
  `/media/<kind>`; the client cuts it at `?` and `#` and escapes what may not
  stand in a request, the router wants one segment.
- **The walk of a renderer** (README, "What the renderer does in return") is a
  `step` of a client; the answers of description, profile and ContentDirectory
  are what they lead to.
- **getMainXML** keeps the recursion of `parseDeviceForSCPDs` as a stack of
  documents. Which services a document lists is the constant `services`; a
  device that changes its description serves another document from then on.

History variables (`stale`, `acked`, `taken`, `undescribed`,
`overlapped`, `behind`, `overtaken`, `fresh`, `alone`, `doubtful`, `opened`,
`answer` of `MediaServing`) are read by properties only. Definitions introduced as "Mutation of ..." are not
part of any specification: each is a plausible bug in the definition after it,
kept to show which property would notice it (`mutants` in `PROJECT.json`).

## What the runs check

| Run | Expected | Shows |
|---|---|---|
| `store_fault_free` | pass | types; one record per id; disk and memory agree when nobody is in the mutex; remembered devices survive restarts, forgotten ones stay away; no field is emptied; list answers only what is on disk; refinement of `RememberedDevices` |
| `store_faults` | pass | with disk failures and crashes in a rewrite: still one record per id, no older save over a newer one, and the mutex is always released |
| `store_crash` | violation | `RememberedAcrossRestarts` fails if the process dies while the file is truncated |
| `store_disk` | violation | `ForgottenStaysForgotten` fails if a save fails: `remove` ignores it |
| `discovery_client` | pass | the cache under all events, next to a getMainXML request: the library is finished on every path; addresses follow locations; nothing known is lost; a document is of the device it is kept with, unless another device was cached at the document's location when it came; every service description that can be opened is followed, and the request ends |
| `scans_overlapping` | pass | two scans, downloads that fail, restarts: everything in a snapshot is stored unless forgotten meanwhile; no record mixes two devices; control URL and service type belong together unless the last upsert had no control URL; `lastSeen` decreases only by a scan that overlapped another or read a clock set back; a scan is answered |
| `casting` | pass | a request answered 200 means its renderer plays, and plays its media unless another request loaded something in between; every request is answered |
| `casting_metadata` | violation | the renderer gets a fixed document instead of the generated metadata |
| `browser_page` | pass | after the answer of a request that no other overlapped the dropdown lists the store and a cast goes where the store knows the selected device to be; "Scanning..." does not stay |
| `serving` | pass | the file picked for Play here or from a JSON list is the one served, whatever is in its name and however old the listing, and so is that of the playlist of a `.mp4`; a cast of a plain name likewise; the type announced is the type served, but for disputed names; only files of the directory are served, and only videos listed |
| `browse_walk` | violation | `BrowsedIsStreamed` fails: every Browse names the stream `desktop.m3u8`, whose playlist names `/media/video/desktop.m3u8.mp4`, while the library holds a video |
| `cast_name` | violation | `SentIsServed` fails: the cast URL holds the name unencoded, so that one with a question mark, a percent sign or an escape in it is not found or names another file. Names that start with `http`, cast without a slash, are left out of the property |

The violations are disagreements between the code and what its comments or
README say; `findings` in `PROJECT.json` quotes them. More behaviours a
reader of the code may not expect are exceptions or cases of passing properties:

- `CastTargetMatches` excepts devices last upserted without a control URL: when
  a description cannot be downloaded, the control URL of an earlier scan stays
  with the service type last announced, although `ixmlfuncs.hpp:24` says they
  are both "of the AVTransport service";
- `LastSeenMonotone` excepts scans that overlapped another one, and scans that
  read a time before one in the store: the code neither orders scans nor compares
  a time with the one it replaces;
- `DocumentOfDevice` excepts documents left while another device was cached at
  their location: `updateXml` has nothing but the location to go by, and the first
  entry with it, in hash order, gets the document. Everything else that happens
  between download and `updateXml` (moves, departures, other documents at the
  location) is covered;
- `AddressOfLocation` leaves out locations without a host, without a port, or with
  one the cast makes 0: such a location changes an entry, but not its port;
- `PickIsServed` holds of a playlist only if the file's extension is `.mp4` in
  lower case: `liveStream` appends that, whatever the file is called;
- `TargetIsCurrent`: a selected device without a control URL is replaced by the
  built-in default renderer, although `README.md:67-68` says the selected one is
  the target;
- `AnnouncedIsServed` excepts `.m4v` (announced as video/mpeg, served as
  video/mp4), `.flac` (audio/mpeg, audio/L16) and names with audio extensions
  of both types.

### Bounds

- Store: two devices, one field with two values (one under faults), two
  threads. Every property speaks of at most two records or two threads; merging
  is field by field, so a second field adds nothing; two values tell the newer
  from the older. Initial files include one edited by hand, with a record that
  lost its id. The file is assumed to have no two records of one id, as the
  store never writes one.
- Client: two devices, two locations with different hosts and ports (one does not
  fit into 16 bits) and one whose port no unsigned long holds, one device type and
  one service type. One device announces itself in every way, also without location
  or types; the other, and events without an id, leave out the location at most
  (`MCNetEvent`). The
  first location may serve a description of either device, so that one may take
  the place of the other between download and `updateXml`; the second serves one.
  One getMainXML request at a time: requests share
  nothing but the cache, and each changes it in one step, so that a second one
  is like a repetition. Its documents are three levels deep, with one reached by
  two ways, with relative and full URLs; every download but the first may fail.
- Device requests: a renderer that announces two services at two locations, and
  a media server that never names one; two scans, or a scan and another request,
  at a time. Goodbyes, which change the cache but not the snapshot of a scan, are
  in `discovery_client`; here a restart empties the cache. `MaxTime` bounds what
  the clock shows at 2, enough for one scan to be older than another and for a
  clock set back. One port does not fit into 16 bits.
- Casting: two renderers, two threads, one file and one stream; all requests, with any
  field missing or empty, to a client with and without a handle.
- Page: two devices, with and without a control URL, and two requests in flight
  (`Slot`), so that answers can overtake each other.
- Serving: one client (clients share nothing but the directory, which changes
  anyway), at most two files at a time (`MaxFiles`: the one picked and one it
  could be taken for), from twelve names with what is special to the code: a
  space, an escape in the name of another file, a percent sign that is none, a
  question mark, `http`, bytes above 127, two extensions, an extension that is no
  video, each audio type. One file lies in a sub-directory, asked for with its
  separator escaped. Names with a separator or backslash, which the code does not
  serve, are not among the files.

Deadlock is checked everywhere but in `discovery_client`, where a destroyed
client and a constructor that threw are ends.

### Fairness

- `store_faults`: weak fairness of `SaveStep`. A thread in `saveLocked` holds
  the mutex and waits for nobody. Nothing is assumed of threads waiting for the
  mutex: `std::mutex` is not fair.
- `discovery_client`: weak fairness of `ReaderStep`: a download ends, if only by
  its timeout, and parsing waits for nobody. Documents do not refer to each other
  in a circle (`AcyclicAssumption`): the code does not look for one and would
  follow it for ever. Events get no fairness.
- `scans_overlapping`: weak fairness of `ScanStep`. Sleeping ends and
  `UpnpDownloadXmlDoc` returns, if only by its timeout. Callbacks and restarts
  get none.
- `casting`: weak fairness of `SendMediaStep`: `UpnpSendAction` returns.
- `browser_page`: weak fairness of a request's progress or rejection: a fetch is
  answered or rejected. Nothing is assumed of the user.

## What is proved

All theorems hold for any sets of devices, fields, values, threads, locations,
services and files, under the ASSUMEs of the modules (the empty string is no id
and no value, the initial file has no two records of one id, ports are natural
numbers, the names of library files pass `isSafeFileName`). No proof uses that
documents do not refer to each other in a circle. Every safety property of a
passing run is a theorem.

`DeviceStore_proofs`, with disk failures and crashes allowed: `TypeCorrect`,
`Keyed`, `Current`, `NothingForgotten`, `Durable`. None of the properties is
inductive. `IInv` adds: only the holder of the mutex is inside `saveLocked`
(`MutexInv`), a stopped process holds nothing (`DownInv`), a pending call has a
proper argument (`ArgInv`), and what a thread has in its stream is what memory
holds (`BufInv`), because nobody else can change it. The two action properties
follow from `IInv` and a look at each action.

Also there, assuming `FaultFree` (no disk failure, no crash in a rewrite):
`FaultFreeRemembers`, `FaultFreeForgets` and `Refinement`, that
`DeviceStore` implements `RememberedDevices`. `FInv` adds to `IInv` that no save
has failed and that what memory held at the last return differs from memory now
by at most the one call inside the mutex (`OneCall`). The abstract map is read
from memory while the file is being rewritten and from the file otherwise, so
that a call takes effect when it truncates the file (`SaveOpen`); crashes,
restarts and all other steps are stutters. The lemmas about `MapOf` say that
upsert and removal on sets of records with unique ids are those of maps.

`UpnpClient_proofs`: `TypeCorrect`, `Released`, `Filed`, `ServiceListed`,
`AddressFollows`, `KeepsEverything`. The invariant is `EntryOK` of every cache
entry; `NewEntryOK` and `RefreshedOK` show that a new and a refreshed entry have
it. `AddressFollows` is about entries whose latest location is `Explicit`: it
names a host, and a port that is not 0 as a `uint16_t`. Such a location always
replaces both host and port; an announcement without a location replaces neither.

About getMainXML, in the same module: `RequestsAreUpdates` (a client next to
requests is a client, so that the above holds of it), `DocumentsBelong` and
`AllFollowed`. `DocumentOfDevice` is inductive with types alone: an entry that gets
a document is its device's, or another device is cached at the location and the
entry becomes doubtful. `ServicesFollowed` is not. `MainIInv` adds `Readers`, that
is `RequestOK` of every request: its stack holds open documents only (`StackOK`),
what it found is a service of one of them and what it opened was found before
(`OnlyFound`), and what is not found yet lies behind the position of an entry of
the stack (`AllFound`). When the stack is empty nothing is missing, however deep
the documents were nested and whichever downloads failed.

`ControlPoint_proofs`, for any number of overlapping scans, failing downloads
and restarts: `TypeCorrect`, `SnapshotStored`, `RecordsUnmixed`,
`TargetConsistent`, `NeverDatedBack`. The invariant `IInv` says of the cache and
of every snapshot that an entry holds what its own device announced (`Snapshots`:
snapshots outlive the entries they were copied from), of every stored record that
its values come from its own device's announcements and description (`StoreOK`),
that a scan in its loop has read the clock (`Stamped`), and that a scan which
overlapped no other and read no time before one in the store finds no record newer
than its own stamp (`Apart`): without it, that scan's upsert could date a record
back. Nothing is assumed of the clock. The lemmas on
`Handled` that keep cache entries proper are in `DiscoveryCache_proofs`, which
`UpnpClient_proofs` shares.

`Casting_proofs`: `TypeCorrect` (every answer is 0, while there is none, 200, 400,
422 or 500), `SuccessMeansPlaying`. `IInv` adds that a worker with a request under
way has a job, and past SetAVTransportURI a renderer (`Engaged`), and that its renderer still has the
worker's URL, or nothing after a power cycle, unless the worker is marked
overtaken (`Loaded`). `LoadOK` and `PlayingOK` say what the two SOAP actions do to
the other workers.

`BrowserPage_proofs`: `TypeCorrect`, `DropdownCorrect`, `TargetCorrect`. The
invariant adds that a request no other overlapped is the only one pending
(`AloneIsOnly`), that its answer is the store as it still is (`AloneIsCurrent`)
and that after such an answer no abandoned request is left that could change the
store unseen (`FreshHasNoOrphan`).

`MediaServing_proofs`: `TypeCorrect`, `ServedIsInLibrary`, `TypesAgree`, for any
files and requests. The invariant says that a client sent to the renderer and the
response last given carry the type announced for the file picked (`Carried`,
`Answered`). Nothing need be known of the escapes: a name is checked after it was
decoded. `PickedIsServed` and `SentPlainIsServed` do need it. They follow from
the invariant `Leads`: the URL a client is on its way to has the encoded name of
the file picked, or the name as it is after "Send to TV". What the client escapes
on top of that never is a percent sign of an escape, and what it cuts off is not
in such a URL, so that decoding gives the name back. `PlainNames` shows that the
condition of `SentPlainIsServed` asks little.

`MediaLibrary_proofs` has what is needed of the escapes: `DecodeEncode`
(`urlDecode(urlEncode(name)) = name` for every sequence of letters) and
`DecodeSpelling` (escaping further letters changes nothing for `urlDecode`, as
long as percent signs and hexadecimal digits are not among them). Both are
inductions over the name. The prover cannot instantiate the library's
induction theorems, so the module states induction as a fact about sets: a set
that has the empty sequence and with every sequence those with one more letter
in front has all (`SeqSet`). It rests on the library's `WFMin` and its theorem
that `<` is well-founded on the naturals. As recursive functions are choices,
`urlDecode` and `FlattenSeq` are first shown to exist and to be unique.

Between components: `UsesDurableMap` (in `ControlPoint_proofs`) says that
requests, scans and restarts change what is known only as `RememberedDevices`
does, and `Refinement` that `DeviceStore`, without faults, implements that map.
`CacheFollowsEvents` (in `UpnpClient_proofs`) says that, documents aside, the
client's cache changes by one event at a time, as the cache of `ControlPoint`
does, or is emptied with the client. The two are why `ControlPoint` may use a
map and a cache in place of the modules of these components.

Model-checked only: liveness (`LockReleased`, `RequestAnswered` of casting and
of getMainXML, `ScanAnswered`, `ScanSettles`), which is beyond this prover, as
is the ENABLED in its fairness; and the findings, as a violation is a
counterexample.

## Not modelled

- What is in a file, titles, sizes, the order of listings, DLNA headers other
  than the type, range headers (the code ignores them).
- The constant documents, and the titles in ContentDirectory answers. The
  description advertises a connection-manager control URL and event URLs that no
  endpoint serves: a renderer that uses them gets 404, and no state is involved.
- getVolume, getProtocolInfo, the device list, search and M-SEARCH: one library
  call each and the formatting of its answer, no state.
- XML and SOAP text, DTO declarations beyond what requests and the stored file
  may hold, start-up wiring; `Utils` and the SSDP components are not used.
- Which of a document's devices a service belongs to: `parseDeviceDescription`
  and `parseDeviceForSCPDs` look services up in the whole document, and the
  models take a document as the list of services they see.
- Uninitialised `resp` pointers on error paths: undefined behaviour in logging.
- Several pages at once: others would change the store at any time, and no
  document says what a page should then show.

## Plan

Done, in this order: store and its refinement; client; device requests; casting;
page; proofs of the last three; media serving; getMainXML with the client;
proofs about it and about names; the theorems between components. What could
follow:

1. Documents as trees with embedded devices, for `parseDeviceDescription`.
2. `ControlPoint` over `DeviceStore` itself instead of the map it implements.
3. `BrowserPage` over `ControlPoint`, with several pages.
