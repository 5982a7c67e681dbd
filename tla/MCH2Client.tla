----------------------------- MODULE MCH2Client -----------------------------
(***************************************************************************)
(* Tasks of one origin that start together.                                *)
(***************************************************************************)
EXTENDS H2Client

CONSTANTS t1, t2
=============================================================================
