-------------------------- MODULE MCConversionGate --------------------------
(***************************************************************************)
(* Values for model checking ConversionGate: five requests, one more than  *)
(* the places of a gate of two with a line of two.                         *)
(***************************************************************************)
EXTENDS ConversionGate

CONSTANTS r1, r2, r3, r4, r5

MCRequest == {r1, r2, r3, r4, r5}
=============================================================================
