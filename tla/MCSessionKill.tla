--------------------------- MODULE MCSessionKill ---------------------------
(***************************************************************************)
(* SessionKill for TLC: named processes, so that some can be stuck.        *)
(***************************************************************************)
EXTENDS SessionKill

CONSTANTS p1, p2, p3, p4
=============================================================================
