--------------------------- MODULE MCDescriptions ---------------------------
(***************************************************************************)
(* Descriptions for TLC: a connection that is described three times, so    *)
(* that two renegotiations of it may overlap.                              *)
(***************************************************************************)
EXTENDS Descriptions, TLC

CONSTANT m1
=============================================================================
