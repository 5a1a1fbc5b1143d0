--------------------------- MODULE MCBrowserPage ---------------------------
(* A small instance of BrowserPage for TLC: two devices, of which the store *)
(* may know control URLs or not, and two requests in flight.               *)
EXTENDS BrowserPage

CONSTANTS d1, d2, c1, s1, s2

MCDeviceId   == {d1, d2}
MCControlUrl == {c1}
MCSlot       == {s1, s2}
=============================================================================
