------------------------- MODULE MCCurveReassembly -------------------------
(* Instances of CurveReassembly for TLC: a curve of five bytes in three    *)
(* notifications, the last one short, and replies of two bytes.            *)
EXTENDS CurveReassembly

\* What a later fragment may be taken for: another reply, or nothing known.
SomeDisguises == {"stop", "data"}
=============================================================================
