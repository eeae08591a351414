-------------------------- MODULE MCLowerToTarget ---------------------------
(* Functions of a few ops around a nest of two loops of zero or two          *)
(* iterations, for a target that sums partials in place but not maxima.      *)
EXTENDS LowerToTarget
MCTrips   == {0, 2}
MCInPlace == {"add"}
=============================================================================
