---------------------------- MODULE MCAnalytics ----------------------------
(***************************************************************************)
(* Values for model checking Analytics: the last day of 2024 and the next  *)
(* one, two days, months and years of one ISO week.                        *)
(***************************************************************************)
EXTENDS Statistics

MCInstant == {739251, 739252}
MCToken == {2}
MCBatch == {Cell, {c \in Cell : c[1] = "access"}}
=============================================================================
