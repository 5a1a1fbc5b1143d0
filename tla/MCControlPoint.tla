--------------------------- MODULE MCControlPoint ---------------------------
(* A small instance of ControlPoint for TLC: a renderer d1 that moves from *)
(* l1 to l2 and announces two of its services, and a media server d2 that  *)
(* announces itself without a location.                                    *)
EXTENDS ControlPoint, TLC

CONSTANTS d1, d2, l1, l2, av, rc, h1, c1, c2, c3, w1, w2

MCDeviceId    == {d1, d2}
MCLocation    == {l1, l2}
MCDeviceType  == {"MediaRenderer", "MediaServer"}
MCServiceType == {av, rc}
MCHost        == {h1}
MCUrlHost     == [l \in MCLocation |-> h1]
\* The port of l2 does not fit into 16 bits.
MCUrlPort     == l1 :> 80 @@ l2 :> 65616
MCControlUrl  == {c1, c2, c3}
MCWorker      == {w1, w2}
MCAVTransport == {av}

Control(c, s) == [serviceType |-> s, controlUrl |-> c]

MCDocument == l1 :> <<Control(c3, rc), Control(c1, av), Control(c3, av)>>
           @@ l2 :> <<Control(c2, av)>>

Announce(id, l, device, service) ==
    [type |-> "ALIVE", id |-> id, location |-> l, deviceType |-> device,
     serviceType |-> service, success |-> TRUE]

MCNetEvent == {Announce(d1, l1, "MediaRenderer", av),
               Announce(d1, l2, "MediaRenderer", rc),
               Announce(d2, Empty, "MediaServer", rc)}
=============================================================================
