----------------------------- MODULE BrowserPage -----------------------------
(***************************************************************************)
(* The page of GET / (the script in src/src/MediaLibrary.hpp) and the      *)
(* device requests it makes: its dropdown of renderers, the requests in    *)
(* flight, which the server may serve and the network may answer in any    *)
(* order, and the store they read and change.                              *)
(*                                                                         *)
(* Of a device the page needs its id and its control URL.                  *)
(***************************************************************************)
EXTENDS FiniteSets

CONSTANTS
    DeviceId,       \* device ids
    NoId,           \* the value of the option "No known devices yet"
    ControlUrl,     \* control URLs
    DefaultRenderer,\* where sendMedia goes when a request names no URL
    Empty,          \* no control URL
    Slot,           \* bound: requests in flight
    Free            \* an unused slot

ASSUME IdAssumption == NoId \notin DeviceId
ASSUME UrlAssumption == Empty \notin ControlUrl

VARIABLES
    store,      \* the device store: device id -> control URL or Empty
    options,    \* the dropdown, likewise
    selected,   \* the value of the dropdown
    status,     \* the line under it
    request,    \* request[s]: a fetch, from the click to its answer
    fresh       \* history: was the last answer that of an undisturbed request?

vars == <<store, options, selected, status, request, fresh>>

Devices == UNION {[D -> ControlUrl \cup {Empty}] : D \in SUBSET DeviceId}

\* An answer: the devices, or an error without any.
Error == [ok |-> FALSE, devices |-> << >>]
Known(devices) == [ok |-> TRUE, devices |-> devices]

\* A fetch, from the click to its answer.
Fetch == [kind   : {"list", "scan", "forget"},
          id     : DeviceId \cup {NoId},
          phase  : {"sent", "scanning", "served"},
          reply  : [ok : BOOLEAN, devices : Devices],
          orphan : BOOLEAN,
          alone  : BOOLEAN]

ASSUME FreeAssumption == Free \notin Fetch

Pending == {s \in Slot : request[s] # Free}

----------------------------------------------------------------------------
(* The page.                                                               *)

\* fetch.  A request is alone if no other is pending during its life.
Fetching(s, kind, id) ==
    [r \in Slot |->
        IF r = s
        THEN [kind |-> kind, id |-> id, phase |-> "sent", reply |-> Error,
              orphan |-> FALSE, alone |-> Pending \subseteq {s}]
        ELSE IF request[r] = Free THEN Free
        ELSE [request[r] EXCEPT !.alone = FALSE]]

Send(s, kind, id) == request' = Fetching(s, kind, id)

\* Mutation of renderDevices: the selection is kept.
renderUnselected(devices) == /\ options' = devices
                             /\ status' = "count"
                             /\ UNCHANGED selected

\* The options are replaced and the first one is selected.
renderDevices(devices) ==
    /\ options' = devices
    /\ selected' \in IF DOMAIN devices = {} THEN {NoId} ELSE DOMAIN devices
    /\ status' = "count"

\* The page as it is loaded: its requests of before go on at the server.
Load(s) == /\ options' = << >>
           /\ selected' = NoId
           /\ status' = "none"
           /\ request' = [r \in Slot |->
                 IF r = s \/ request[r] = Free THEN Fetching(s, "list", NoId)[r]
                 ELSE [Fetching(s, "list", NoId)[r] EXCEPT !.orphan = TRUE]]

Init == /\ store \in Devices
        /\ options = << >>
        /\ selected = NoId
        /\ status = "none"
        /\ request = [s \in Slot |-> Free]
        /\ fresh = FALSE

Reload(s) == /\ request[s] = Free
             /\ Load(s)
             /\ fresh' = FALSE
             /\ UNCHANGED store

Select(id) == /\ id \in DOMAIN options
              /\ selected' = id
              /\ UNCHANGED <<store, options, status, request, fresh>>

ClickScan(s) == /\ request[s] = Free
                /\ status' = "Scanning..."
                /\ Send(s, "scan", NoId)
                /\ UNCHANGED <<store, options, selected, fresh>>

ClickForget(s) == /\ request[s] = Free
                  /\ selected # NoId
                  /\ Send(s, "forget", selected)
                  /\ UNCHANGED <<store, options, selected, status, fresh>>

\* Mutation of castTarget: the option does not keep the control URL.
castTargetUnkept == DefaultRenderer

\* Where Send to TV goes: a device without a control URL is not named in the
\* request.
castTarget == IF selected # NoId /\ options[selected] # Empty
              THEN options[selected] ELSE DefaultRenderer

----------------------------------------------------------------------------
(* The server: listKnownDevices, scanForDevices, forgetKnownDevice.        *)

\* The search of a scan was sent.
Search(s) == /\ request[s] # Free
             /\ request[s].kind = "scan" /\ request[s].phase = "sent"
             /\ request' = [request EXCEPT ![s].phase = "scanning"]
             /\ UNCHANGED <<store, options, selected, status, fresh>>

\* A scan upserts the devices it found one after the other.
ScanUpsert(s, id, url) ==
    /\ request[s] # Free
    /\ request[s].phase = "scanning"
    /\ store' = [i \in DOMAIN store \cup {id} |->
                    IF i # id THEN store[i]
                    ELSE IF url = Empty /\ id \in DOMAIN store THEN store[id]
                    ELSE url]
    /\ UNCHANGED <<options, selected, status, request, fresh>>

Reply(s, answer) ==
    request' = [request EXCEPT ![s] =
                   IF @.orphan THEN Free
                   ELSE [@ EXCEPT !.phase = "served", !.reply = answer]]

\* A scan whose search fails is answered with an error, as is a Forget of an
\* unknown device.
Serve(s) ==
    /\ request[s] # Free
    /\ LET r == request[s]
       IN  \/ /\ (r.kind = "list" /\ r.phase = "sent") \/ r.phase = "scanning"
              /\ Reply(s, Known(store))
              /\ UNCHANGED store
           \/ /\ r.kind = "scan" /\ r.phase = "sent"
              /\ Reply(s, Error)
              /\ UNCHANGED store
           \/ /\ r.kind = "forget" /\ r.phase = "sent" /\ r.id \in DOMAIN store
              /\ store' = [i \in DOMAIN store \ {r.id} |-> store[i]]
              /\ Reply(s, Known(store'))
           \/ /\ r.kind = "forget" /\ r.phase = "sent" /\ r.id \notin DOMAIN store
              /\ Reply(s, Error)
              /\ UNCHANGED store
    /\ UNCHANGED <<options, selected, status, fresh>>

----------------------------------------------------------------------------
(* The answers.                                                            *)

\* Mutation of Answered: the answer to a Forget is not rendered.
AnsweredQuietly(s) ==
    /\ request[s] # Free
    /\ request[s].phase = "served" /\ ~request[s].orphan
    /\ fresh' = request[s].alone
    /\ request' = [request EXCEPT ![s] = Free]
    /\ IF request[s].reply.ok /\ request[s].kind # "forget"
       THEN renderDevices(request[s].reply.devices)
       ELSE status' = "failed" /\ UNCHANGED <<options, selected>>
    /\ UNCHANGED store

\* A refused Forget fetches the list again.
Answered(s) ==
    /\ request[s] # Free
    /\ request[s].phase = "served" /\ ~request[s].orphan
    /\ LET r == request[s]
       IN  \/ /\ r.reply.ok
              /\ renderDevices(r.reply.devices)
              /\ request' = [request EXCEPT ![s] = Free]
              /\ fresh' = r.alone
           \/ /\ ~r.reply.ok
              /\ status' = "failed"
              /\ IF r.kind = "forget" THEN Send(s, "list", NoId)
                 ELSE request' = [request EXCEPT ![s] = Free]
              /\ fresh' = FALSE
              /\ UNCHANGED <<options, selected>>
    /\ UNCHANGED store

\* Mutation of Rejected: a handler of rejected fetches is missing.
RejectedQuietly(s) ==
    /\ request[s] # Free
    /\ ~request[s].orphan
    /\ request' = [request EXCEPT ![s] = Free]
    /\ fresh' = FALSE
    /\ UNCHANGED <<store, options, selected, status>>

\* The connection is lost, before or after the server has seen the request.
Rejected(s) ==
    /\ request[s] # Free
    /\ ~request[s].orphan
    /\ request' = [request EXCEPT ![s] =
                      IF @.phase = "served" THEN Free
                      ELSE [@ EXCEPT !.orphan = TRUE]]
    /\ status' = "failed"
    /\ fresh' = FALSE
    /\ UNCHANGED <<store, options, selected>>

\* A request whose page is gone, or that never reaches the server.
Vanish(s) == /\ request[s] # Free
             /\ request[s].orphan
             /\ request' = [request EXCEPT ![s] = Free]
             /\ UNCHANGED <<store, options, selected, status, fresh>>

----------------------------------------------------------------------------

Progress(s) == Search(s) \/ Serve(s) \/ Answered(s)

Next == \/ \E s \in Slot : \/ Reload(s) \/ ClickScan(s) \/ ClickForget(s)
                           \/ Progress(s) \/ Rejected(s) \/ Vanish(s)
                           \/ \E id \in DeviceId, url \in ControlUrl \cup {Empty} :
                                 ScanUpsert(s, id, url)
        \/ \E id \in DeviceId : Select(id)

Spec == Init /\ [][Next]_vars

\* Every fetch is served and answered, or rejected by the browser.
FairSpec == Spec /\ \A s \in Slot : WF_vars(Progress(s) \/ Rejected(s))

----------------------------------------------------------------------------
(* Properties.                                                             *)

TypeOK == /\ store \in Devices
          /\ options \in Devices
          /\ selected \in DOMAIN options \cup {NoId}
          /\ status \in {"none", "Scanning...", "count", "failed"}
          /\ request \in [Slot -> Fetch \cup {Free}]
          /\ fresh \in BOOLEAN

\* "The dropdown lists the remembered devices" (README): with no request
\* pending, after the answer of one that no other overlapped, it lists exactly
\* those in the store.  Answers of overlapping requests may arrive in another
\* order than they were served in, but the page recovers with the next one.
DropdownIsCurrent == (fresh /\ Pending = {}) => options = store

\* "the selected one is used as the target of Send to TV" (README): then too,
\* a file goes where the store knows the selected device to be, and to the
\* default renderer only if the store knows no control URL of that device, or
\* no device at all.
TargetIsCurrent ==
    (fresh /\ Pending = {}) =>
        castTarget = IF selected \in DOMAIN store /\ store[selected] # Empty
                     THEN store[selected] ELSE DefaultRenderer

\* The page never stays at "Scanning...".
ScanSettles == (status = "Scanning...") ~> (status # "Scanning...")
=============================================================================
