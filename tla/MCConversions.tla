---------------------------- MODULE MCConversions ----------------------------
(***************************************************************************)
(* Values for model checking Conversions: the first two requests of the    *)
(* route come from one address, any other from an address of its own.      *)
(***************************************************************************)
EXTENDS Conversions

MCIpOf == [r \in Api |-> IF r <= 2 THEN 1 ELSE r]
=============================================================================
