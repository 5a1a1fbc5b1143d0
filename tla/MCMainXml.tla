------------------------------ MODULE MCMainXml ------------------------------
(* A small instance of MainXml for TLC: the description x1 of d1 refers to  *)
(* two service descriptions, the second of which refers to the first; the   *)
(* description x2 of d2 refers to none.  Either device may take l1 over     *)
(* from the other.  Only d1 announces itself with some types left out.      *)
EXTENDS MainXml

CONSTANTS d1, d2, l1, l2, l3, t1, s1, h1, h2, x1, x2, r1, full, rel1

MCDeviceId    == {d1, d2}
MCLocation    == {l1, l2, l3}
MCDeviceType  == {t1}
MCServiceType == {s1}
MCHost        == {h1, h2}
MCXml         == {x1, x2}
MCUrlHost     == l1 :> h1 @@ l2 :> h2 @@ l3 :> h2
\* The port of l2 does not fit into 16 bits, that of l3 not into an unsigned long.
MCUrlPort     == l1 :> 80 @@ l2 :> 65617 @@ l3 :> 100000
MCMaxULong    == 99999
MCReader      == {r1}
MCFullUrl     == {full}
MCRelative    == {rel1}
MCMayServe    == l1 :> {x1, x2} @@ l2 :> {x2} @@ l3 :> {}
MCOwner       == x1 :> d1 @@ x2 :> d2

MCNetEvent == {e \in Event : \/ e.id = d1
                             \/ e.deviceType = t1 /\ e.serviceType = s1}

MCServices == [u \in Xml \cup Url |->
    CASE u = x1   -> <<rel1, full>>
      [] u = full -> <<rel1>>
      [] OTHER    -> << >>]
=============================================================================
