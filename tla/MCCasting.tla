----------------------------- MODULE MCCasting -----------------------------
(* A small instance of Casting for TLC.                                    *)
EXTENDS Casting

CONSTANTS r1, r2, f1, s1, w1, w2

MCRenderer  == {r1, r2}
MCFile      == {f1}
MCStreamUrl == {s1}
MCWorker    == {w1, w2}
============================================================================
