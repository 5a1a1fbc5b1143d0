-------------------------- MODULE BrowserPage_proofs --------------------------
(***************************************************************************)
(* Theorems about the browser page, for every set of devices, of control   *)
(* URLs and of requests in flight.                                         *)
(*                                                                         *)
(* DropdownIsCurrent is not inductive: it speaks of a state without        *)
(* pending requests, and says nothing of how the page got there.  IInv     *)
(* adds what holds on the way: the answer of a request that no other       *)
(* overlapped is the store as it still is, and after such an answer no     *)
(* request is pending whose page is gone.                                  *)
(***************************************************************************)
EXTENDS BrowserPage, TLAPS

\* A request that no other overlapped is the only one pending.
AloneIsOnly == \A s \in Pending : request[s].alone = TRUE => Pending = {s}

\* Its answer, once given, is the store: nothing else can change it.
AloneIsCurrent ==
    \A s \in Pending :
        (/\ request[s].alone = TRUE
         /\ request[s].phase = "served"
         /\ request[s].reply.ok = TRUE) => request[s].reply.devices = store

\* After an undisturbed answer every pending request has its page.
FreshHasNoOrphan == fresh => \A s \in Pending : request[s].orphan = FALSE

IInv == TypeOK /\ AloneIsOnly /\ AloneIsCurrent /\ FreshHasNoOrphan
               /\ DropdownIsCurrent

----------------------------------------------------------------------------
(* Values.                                                                 *)

LEMMA DevicesOK ==
  ASSUME NEW f, NEW D \in SUBSET DeviceId, f \in [D -> ControlUrl \cup {Empty}]
  PROVE  f \in Devices /\ DOMAIN f = D
BY DEF Devices

LEMMA DevicesElim ==
  ASSUME NEW f \in Devices
  PROVE  /\ DOMAIN f \subseteq DeviceId
         /\ f \in [DOMAIN f -> ControlUrl \cup {Empty}]
BY DEF Devices

LEMMA EmptyOK == << >> \in Devices /\ DOMAIN << >> = {}
<1>1. DOMAIN << >> = {} /\ << >> \in [{} -> ControlUrl \cup {Empty}]
  OBVIOUS
<1> QED
  BY <1>1, DevicesOK

LEMMA ErrorOK == Error \in [ok : BOOLEAN, devices : Devices] /\ Error.ok = FALSE
BY EmptyOK DEF Error

LEMMA KnownOK ==
  ASSUME NEW f \in Devices
  PROVE  /\ Known(f) \in [ok : BOOLEAN, devices : Devices]
         /\ Known(f).ok = TRUE
         /\ Known(f).devices = f
BY DEF Known

\* A new request: the others go on, no longer alone.
LEMMA FetchingOK ==
  ASSUME IInv, NEW s \in Slot, NEW kind \in {"list", "scan", "forget"},
         NEW id \in DeviceId \cup {NoId}, NEW F, F = Fetching(s, kind, id)
  PROVE  /\ F \in [Slot -> Fetch \cup {Free}]
         /\ F[s] = [kind |-> kind, id |-> id, phase |-> "sent", reply |-> Error,
                    orphan |-> FALSE, alone |-> Pending \subseteq {s}]
         /\ F[s] \in Fetch
         /\ \A r \in Slot \ {s} :
               /\ request[r] = Free => F[r] = Free
               /\ request[r] # Free =>
                     /\ F[r] = [request[r] EXCEPT !.alone = FALSE]
                     /\ F[r] \in Fetch
<1> DEFINE new == [kind |-> kind, id |-> id, phase |-> "sent", reply |-> Error,
                   orphan |-> FALSE, alone |-> Pending \subseteq {s}]
<1>1. new \in Fetch
  BY ErrorOK DEF Fetch
<1>2. \A r \in Slot \ {s} :
         request[r] # Free => [request[r] EXCEPT !.alone = FALSE] \in Fetch
  BY DEF IInv, TypeOK, Fetch
<1> QED
  BY <1>1, <1>2 DEF Fetching, IInv, TypeOK

\* With a new request pending, and every other one no longer alone, all that
\* is left to show is what became of the selection and of the orphans.
LEMMA SendIInv ==
  ASSUME IInv, NEW s \in Slot, NEW kind \in {"list", "scan", "forget"},
         NEW id \in DeviceId \cup {NoId},
         Send(s, kind, id),
         request[s] = Free \/ fresh' = FALSE,
         fresh' = fresh \/ fresh' = FALSE,
         store' = store, options' = options, selected' = selected,
         status' \in {"none", "Scanning...", "count", "failed"}
  PROVE  IInv'
<1>0. request' = Fetching(s, kind, id)
  BY DEF Send
<1>1. /\ request' \in [Slot -> Fetch \cup {Free}]
      /\ request'[s] = [kind |-> kind, id |-> id, phase |-> "sent", reply |-> Error,
                    orphan |-> FALSE, alone |-> Pending \subseteq {s}]
      /\ request'[s] \in Fetch
      /\ \A r \in Slot \ {s} :
               /\ request[r] = Free => request'[r] = Free
               /\ request[r] # Free =>
                     /\ request'[r] = [request[r] EXCEPT !.alone = FALSE]
                     /\ request'[r] \in Fetch
  BY <1>0, FetchingOK
<1>2. Pending' = Pending \cup {s}
  BY <1>1, FreeAssumption DEF Pending
<1>3. TypeOK'
  BY <1>1 DEF IInv, TypeOK
<1>4. \A r \in Slot \ {s} : request[r] # Free =>
         /\ request'[r].alone = FALSE
         /\ request'[r].orphan = request[r].orphan
  BY <1>1 DEF IInv, TypeOK, Fetch
<1>5. /\ request'[s].orphan = FALSE
      /\ request'[s].phase = "sent"
      /\ request'[s].alone = (Pending \subseteq {s})
  BY <1>1
<1>6. AloneIsOnly'
  BY <1>2, <1>4, <1>5 DEF AloneIsOnly, Pending
<1>7. AloneIsCurrent'
  BY <1>2, <1>4, <1>5 DEF AloneIsCurrent, Pending
<1>8. FreshHasNoOrphan'
  BY <1>2, <1>4, <1>5 DEF FreshHasNoOrphan, Pending, IInv
<1>9. DropdownIsCurrent'
  BY <1>2 DEF DropdownIsCurrent
<1> QED
  BY <1>3, <1>6, <1>7, <1>8, <1>9 DEF IInv

----------------------------------------------------------------------------
(* The page.                                                               *)

LEMMA InitIInv == Init => IInv
<1> SUFFICES ASSUME Init PROVE IInv
  OBVIOUS
<1>1. TypeOK
  BY EmptyOK DEF Init, TypeOK
<1>2. Pending = {} /\ ~ fresh
  BY DEF Init, Pending
<1> QED
  BY <1>1, <1>2 DEF IInv, AloneIsOnly, AloneIsCurrent, FreshHasNoOrphan, DropdownIsCurrent

LEMMA ReloadIInv ==
  ASSUME IInv, NEW s \in Slot, Reload(s)
  PROVE  IInv'
<1> DEFINE F == Fetching(s, "list", NoId)
<1>1. /\ F \in [Slot -> Fetch \cup {Free}]
      /\ F[s] = [kind |-> "list", id |-> NoId, phase |-> "sent", reply |-> Error,
                 orphan |-> FALSE, alone |-> Pending \subseteq {s}]
      /\ F[s] \in Fetch
      /\ \A r \in Slot \ {s} :
            /\ request[r] = Free => F[r] = Free
            /\ request[r] # Free => /\ F[r] = [request[r] EXCEPT !.alone = FALSE]
                                    /\ F[r] \in Fetch
  BY FetchingOK
<1> HIDE DEF F
<1>2. request' = [r \in Slot |-> IF r = s \/ request[r] = Free THEN F[r]
                                 ELSE [F[r] EXCEPT !.orphan = TRUE]]
  BY DEF Reload, Load, F
<1>3. \A r \in Slot \ {s} : request[r] # Free =>
         /\ request'[r] \in Fetch
         /\ request'[r].alone = FALSE
  <2> SUFFICES ASSUME NEW r \in Slot \ {s}, request[r] # Free
               PROVE  request'[r] \in Fetch /\ request'[r].alone = FALSE
    OBVIOUS
  <2>1. request'[r] = [F[r] EXCEPT !.orphan = TRUE]
    BY <1>2
  <2>2. F[r] \in Fetch /\ F[r].alone = FALSE
    BY <1>1 DEF IInv, TypeOK, Fetch
  <2> QED
    BY <2>1, <2>2 DEF Fetch
<1>4. /\ request'[s] = F[s]
      /\ request' \in [Slot -> Fetch \cup {Free}]
  BY <1>1, <1>2, <1>3
<1>5. /\ request'[s].alone = (Pending \subseteq {s})
      /\ request'[s].phase = "sent"
  BY <1>1, <1>4
<1>6. Pending' = Pending \cup {s}
  BY <1>1, <1>2, <1>3, FreeAssumption DEF Pending
<1>7. TypeOK'
  BY <1>4, EmptyOK DEF Reload, Load, IInv, TypeOK
<1>8. AloneIsOnly' /\ AloneIsCurrent'
  BY <1>3, <1>5, <1>6 DEF AloneIsOnly, AloneIsCurrent, Pending
<1>9. FreshHasNoOrphan' /\ DropdownIsCurrent'
  BY DEF Reload, FreshHasNoOrphan, DropdownIsCurrent
<1> QED
  BY <1>7, <1>8, <1>9 DEF IInv

LEMMA ClickIInv ==
  ASSUME IInv, NEW s \in Slot, ClickScan(s) \/ ClickForget(s)
  PROVE  IInv'
<1>1. CASE ClickScan(s)
  <2>1. NoId \in DeviceId \cup {NoId}
    OBVIOUS
  <2> QED
    BY <1>1, <2>1, SendIInv DEF ClickScan
<1>2. CASE ClickForget(s)
  <2>1. selected \in DeviceId \cup {NoId} /\ status' = status
    BY <1>2, DevicesElim DEF ClickForget, IInv, TypeOK
  <2>2. status' \in {"none", "Scanning...", "count", "failed"}
    BY <2>1 DEF IInv, TypeOK
  <2> QED
    BY <1>2, <2>1, <2>2, SendIInv DEF ClickForget
<1> QED
  BY <1>1, <1>2

LEMMA SelectIInv ==
  ASSUME IInv, NEW id \in DeviceId, Select(id)
  PROVE  IInv'
BY DEF Select, IInv, TypeOK, AloneIsOnly, AloneIsCurrent, FreshHasNoOrphan,
       DropdownIsCurrent, Pending

----------------------------------------------------------------------------
(* The server.                                                             *)

LEMMA SearchIInv ==
  ASSUME IInv, NEW s \in Slot, Search(s)
  PROVE  IInv'
<1>1. request[s] \in Fetch
  BY DEF Search, IInv, TypeOK
<1>2. /\ request'[s] \in Fetch
      /\ request'[s].phase = "scanning"
      /\ request'[s].alone = request[s].alone
      /\ request'[s].orphan = request[s].orphan
  BY <1>1 DEF Search, IInv, TypeOK, Fetch
<1>3. \A r \in Slot \ {s} : request'[r] = request[r]
  BY DEF Search, IInv, TypeOK
<1>4. TypeOK'
  BY <1>2 DEF Search, IInv, TypeOK
<1>5. Pending' = Pending /\ s \in Pending
  BY <1>2, <1>3, FreeAssumption DEF Search, Pending
<1>6. AloneIsOnly' /\ AloneIsCurrent' /\ FreshHasNoOrphan' /\ DropdownIsCurrent'
  BY <1>2, <1>3, <1>5
  DEF Search, Pending, IInv, AloneIsOnly, AloneIsCurrent, FreshHasNoOrphan,
      DropdownIsCurrent
<1> QED
  BY <1>4, <1>6 DEF IInv

\* The store changes while s is pending and not yet served: no other request
\* is alone, and the dropdown is not to be current.
LEMMA ScanUpsertIInv ==
  ASSUME IInv, NEW s \in Slot, NEW id \in DeviceId,
         NEW url \in ControlUrl \cup {Empty}, ScanUpsert(s, id, url)
  PROVE  IInv'
<1>1. store' \in Devices
  <2>1. /\ DOMAIN store \cup {id} \in SUBSET DeviceId
        /\ \A i \in DOMAIN store : store[i] \in ControlUrl \cup {Empty}
    BY DevicesElim DEF IInv, TypeOK
  <2>2. store' \in [DOMAIN store \cup {id} -> ControlUrl \cup {Empty}]
    BY <2>1 DEF ScanUpsert
  <2> QED
    BY <2>1, <2>2, DevicesOK
<1>2. TypeOK'
  BY <1>1 DEF ScanUpsert, IInv, TypeOK
<1>3. s \in Pending /\ Pending' = Pending /\ request[s].phase = "scanning"
  BY DEF ScanUpsert, Pending
<1>4. AloneIsOnly' /\ AloneIsCurrent'
  BY <1>3 DEF ScanUpsert, IInv, AloneIsOnly, AloneIsCurrent, Pending
<1>5. FreshHasNoOrphan' /\ DropdownIsCurrent'
  BY <1>3 DEF ScanUpsert, IInv, FreshHasNoOrphan, DropdownIsCurrent, Pending
<1> QED
  BY <1>2, <1>4, <1>5 DEF IInv

\* Any answer that, if it has devices, has those in the store.
LEMMA ReplyIInv ==
  ASSUME IInv, NEW s \in Slot, request[s] # Free,
         NEW answer \in [ok : BOOLEAN, devices : Devices],
         Reply(s, answer),
         store' \in Devices,
         answer.ok = TRUE => answer.devices = store',
         UNCHANGED <<options, selected, status, fresh>>
  PROVE  IInv'
<1>1. request[s] \in Fetch
  BY DEF IInv, TypeOK
<1>2. \A r \in Slot \ {s} : request'[r] = request[r]
  BY DEF Reply, IInv, TypeOK
<1>3. CASE request[s].orphan = TRUE
  <2>1. request' = [request EXCEPT ![s] = Free]
    BY <1>3 DEF Reply
  <2>2. Pending' = Pending \ {s} /\ s \in Pending
    BY <2>1 DEF Pending, IInv, TypeOK
  <2>3. TypeOK'
    BY <2>1 DEF IInv, TypeOK
  <2>4. AloneIsOnly' /\ AloneIsCurrent'
    BY <1>2, <2>2 DEF IInv, AloneIsOnly, AloneIsCurrent, Pending
  <2>5. fresh = FALSE
    BY <1>3, <2>2 DEF IInv, TypeOK, FreshHasNoOrphan
  <2>6. FreshHasNoOrphan' /\ DropdownIsCurrent'
    BY <2>5 DEF FreshHasNoOrphan, DropdownIsCurrent
  <2> QED
    BY <2>3, <2>4, <2>6 DEF IInv
<1>4. CASE request[s].orphan = FALSE
  <2>1. request' = [request EXCEPT ![s] = [request[s] EXCEPT !.phase = "served",
                                                             !.reply = answer]]
    BY <1>4 DEF Reply
  <2>2. /\ request'[s] \in Fetch
        /\ request'[s].reply = answer
        /\ request'[s].alone = request[s].alone
        /\ request'[s].orphan = request[s].orphan
    BY <1>1, <2>1 DEF IInv, TypeOK, Fetch
  <2>3. TypeOK'
    BY <2>1, <2>2 DEF IInv, TypeOK
  <2>4. Pending' = Pending /\ s \in Pending
    BY <1>2, <2>2, FreeAssumption DEF Pending
  <2>5. AloneIsOnly' /\ AloneIsCurrent'
    BY <1>2, <2>2, <2>4 DEF IInv, AloneIsOnly, AloneIsCurrent, Pending
  <2>6. FreshHasNoOrphan' /\ DropdownIsCurrent'
    BY <1>2, <2>2, <2>4 DEF IInv, FreshHasNoOrphan, DropdownIsCurrent, Pending
  <2> QED
    BY <2>3, <2>5, <2>6 DEF IInv
<1> QED
  BY <1>1, <1>3, <1>4 DEF Fetch

LEMMA ServeIInv ==
  ASSUME IInv, NEW s \in Slot, Serve(s)
  PROVE  IInv'
<1> DEFINE r == request[s]
           rest == [i \in DOMAIN store \ {r.id} |-> store[i]]
<1>1. store \in Devices /\ rest \in Devices
  <2>1. /\ DOMAIN store \ {r.id} \in SUBSET DeviceId
        /\ \A i \in DOMAIN store : store[i] \in ControlUrl \cup {Empty}
    BY DevicesElim DEF IInv, TypeOK
  <2>2. rest \in [DOMAIN store \ {r.id} -> ControlUrl \cup {Empty}]
    BY <2>1
  <2> QED
    BY <2>1, <2>2, DevicesOK DEF IInv, TypeOK
<1> HIDE DEF rest
<1>2. \/ Reply(s, Known(store)) /\ store' = store
      \/ Reply(s, Error) /\ store' = store
      \/ Reply(s, Known(rest)) /\ store' = rest
  <2>1. CASE Reply(s, Known(store')) /\ store' = rest
    BY <2>1
  <2> QED
    BY <2>1 DEF Serve, rest
<1>3. request[s] # Free /\ UNCHANGED <<options, selected, status, fresh>>
  BY DEF Serve
<1>4. CASE Reply(s, Known(store)) /\ store' = store
  BY <1>1, <1>3, <1>4, KnownOK, ReplyIInv
<1>5. CASE Reply(s, Error) /\ store' = store
  BY <1>1, <1>3, <1>5, ErrorOK, ReplyIInv
<1>6. CASE Reply(s, Known(rest)) /\ store' = rest
  BY <1>1, <1>3, <1>6, KnownOK, ReplyIInv
<1> QED
  BY <1>2, <1>4, <1>5, <1>6

----------------------------------------------------------------------------
(* The answers.                                                            *)

\* A request that ends is missed by no other; only the dropdown is to show.
LEMMA EndIInv ==
  ASSUME IInv, NEW s \in Pending, request' = [request EXCEPT ![s] = Free],
         store' = store, TypeOK',
         fresh' = fresh \/ fresh' = FALSE \/ fresh' = (request[s].alone = TRUE),
         DropdownIsCurrent'
  PROVE  IInv'
<1>1. Pending' = Pending \ {s} /\ \A r \in Slot \ {s} : request'[r] = request[r]
  BY DEF Pending, IInv, TypeOK
<1>2. AloneIsOnly' /\ AloneIsCurrent'
  BY <1>1 DEF IInv, AloneIsOnly, AloneIsCurrent, Pending
<1>3. FreshHasNoOrphan'
  BY <1>1 DEF IInv, FreshHasNoOrphan, AloneIsOnly, Pending
<1> QED
  BY <1>2, <1>3 DEF IInv

LEMMA AnsweredIInv ==
  ASSUME IInv, NEW s \in Slot, Answered(s)
  PROVE  IInv'
<1>1. /\ s \in Pending
      /\ request[s] \in Fetch
      /\ request[s].phase = "served"
      /\ store' = store
  BY DEF Answered, Pending, IInv, TypeOK
<1>2. CASE request[s].reply.ok = TRUE
  <2>1. /\ renderDevices(request[s].reply.devices)
        /\ request' = [request EXCEPT ![s] = Free]
        /\ fresh' = request[s].alone
    BY <1>2 DEF Answered
  <2>2. request[s].reply.devices \in Devices /\ request[s].alone \in BOOLEAN
    BY <1>1 DEF Fetch
  <2>3. TypeOK'
    BY <1>1, <2>1, <2>2 DEF renderDevices, IInv, TypeOK
  <2>4. request[s].alone = TRUE => options' = store'
    BY <1>1, <1>2, <2>1 DEF renderDevices, IInv, AloneIsCurrent
  <2>5. DropdownIsCurrent'
    BY <2>1, <2>2, <2>4 DEF DropdownIsCurrent
  <2>6. fresh' = (request[s].alone = TRUE)
    BY <2>1, <2>2
  <2> QED
    BY <1>1, <2>1, <2>3, <2>5, <2>6, EndIInv
<1>3. CASE request[s].reply.ok = FALSE
  <2>1. status' = "failed" /\ fresh' = FALSE /\ UNCHANGED <<options, selected>>
    BY <1>3 DEF Answered
  <2>2. CASE Send(s, "list", NoId)
    <3>1. NoId \in DeviceId \cup {NoId}
      OBVIOUS
    <3> QED
      BY <1>1, <2>1, <2>2, <3>1, SendIInv
  <2>3. CASE request' = [request EXCEPT ![s] = Free]
    <3>1. TypeOK' /\ DropdownIsCurrent'
      BY <1>1, <2>1, <2>3 DEF IInv, TypeOK, DropdownIsCurrent
    <3> QED
      BY <1>1, <2>1, <2>3, <3>1, EndIInv
  <2> QED
    BY <1>3, <2>2, <2>3 DEF Answered
<1> QED
  BY <1>1, <1>2, <1>3 DEF Fetch

LEMMA RejectedIInv ==
  ASSUME IInv, NEW s \in Slot, Rejected(s)
  PROVE  IInv'
<1>1. /\ s \in Pending
      /\ request[s] \in Fetch
      /\ fresh' = FALSE
      /\ status' = "failed"
      /\ UNCHANGED <<store, options, selected>>
  BY DEF Rejected, Pending, IInv, TypeOK
<1>2. DropdownIsCurrent' /\ FreshHasNoOrphan'
  BY <1>1 DEF DropdownIsCurrent, FreshHasNoOrphan
<1>3. CASE request' = [request EXCEPT ![s] = Free]
  <2>1. TypeOK'
    BY <1>1, <1>3 DEF IInv, TypeOK
  <2> QED
    BY <1>1, <1>2, <1>3, <2>1, EndIInv
<1>4. CASE request' = [request EXCEPT ![s] = [request[s] EXCEPT !.orphan = TRUE]]
  <2>1. /\ request'[s] \in Fetch
        /\ request'[s].alone = request[s].alone
        /\ request'[s].phase = request[s].phase
        /\ request'[s].reply = request[s].reply
    BY <1>1, <1>4 DEF IInv, TypeOK, Fetch
  <2>2. \A r \in Slot \ {s} : request'[r] = request[r]
    BY <1>4 DEF IInv, TypeOK
  <2>3. Pending' = Pending
    BY <1>1, <2>1, <2>2, FreeAssumption DEF Pending
  <2>4. TypeOK'
    BY <1>1, <1>4, <2>1 DEF IInv, TypeOK
  <2>5. AloneIsOnly' /\ AloneIsCurrent'
    BY <1>1, <2>1, <2>2, <2>3 DEF IInv, AloneIsOnly, AloneIsCurrent, Pending
  <2> QED
    BY <1>2, <2>4, <2>5 DEF IInv
<1> QED
  BY <1>3, <1>4 DEF Rejected

LEMMA VanishIInv ==
  ASSUME IInv, NEW s \in Slot, Vanish(s)
  PROVE  IInv'
<1>1. /\ s \in Pending
      /\ request[s] \in Fetch
      /\ request' = [request EXCEPT ![s] = Free]
      /\ UNCHANGED <<store, options, selected, status, fresh>>
  BY DEF Vanish, Pending, IInv, TypeOK
<1>2. request[s].orphan = TRUE
  BY <1>1 DEF Vanish, Fetch
<1>3. fresh = FALSE
  BY <1>1, <1>2 DEF IInv, TypeOK, FreshHasNoOrphan
<1>4. TypeOK' /\ DropdownIsCurrent'
  BY <1>1, <1>3 DEF IInv, TypeOK, DropdownIsCurrent
<1> QED
  BY <1>1, <1>4, EndIInv

----------------------------------------------------------------------------

LEMMA NextIInv == IInv /\ [Next]_vars => IInv'
<1> SUFFICES ASSUME IInv, [Next]_vars PROVE IInv'
  OBVIOUS
<1>1. CASE UNCHANGED vars
  BY <1>1 DEF vars, IInv, TypeOK, AloneIsOnly, AloneIsCurrent, FreshHasNoOrphan,
              DropdownIsCurrent, Pending
<1> QED
  BY <1>1, ReloadIInv, ClickIInv, SelectIInv, SearchIInv, ScanUpsertIInv, ServeIInv,
     AnsweredIInv, RejectedIInv, VanishIInv
  DEF Next, Progress

\* The page, its requests and the store are always well-typed: no answer
\* leaves a selection that is not in the dropdown.
THEOREM TypeCorrect == Spec => []TypeOK
<1>1. IInv => TypeOK
  BY DEF IInv
<1> QED
  BY <1>1, InitIInv, NextIInv, PTL DEF Spec

\* With no request pending, after the answer of one that no other overlapped,
\* the dropdown lists exactly the devices in the store.
THEOREM DropdownCorrect == Spec => []DropdownIsCurrent
<1>1. IInv => DropdownIsCurrent
  BY DEF IInv
<1> QED
  BY <1>1, InitIInv, NextIInv, PTL DEF Spec

\* Then too, Send to TV goes where the store knows the selected device to be,
\* to the default renderer only if the store knows nothing of the kind.
THEOREM TargetCorrect == Spec => []TargetIsCurrent
<1>1. IInv => TargetIsCurrent
  <2> SUFFICES ASSUME IInv, fresh, Pending = {} PROVE TargetIsCurrent
    BY DEF TargetIsCurrent
  <2>1. options = store
    BY DEF IInv, DropdownIsCurrent
  <2>2. selected # NoId <=> selected \in DOMAIN store
    BY <2>1, DevicesElim, IdAssumption DEF IInv, TypeOK
  <2> QED
    BY <2>1, <2>2 DEF TargetIsCurrent, castTarget
<1> QED
  BY <1>1, InitIInv, NextIInv, PTL DEF Spec
=============================================================================
