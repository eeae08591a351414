--------------------------- MODULE MCCimSchedule ----------------------------
(* TLC instance of CimSchedule: every function within the bounds.            *)
EXTENDS CimSchedule
=============================================================================
