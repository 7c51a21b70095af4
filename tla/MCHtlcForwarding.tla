-------------------------- MODULE MCHtlcForwarding --------------------------
(***************************************************************************)
(* Instance of HtlcForwarding for TLC.                                      *)
(***************************************************************************)
EXTENDS HtlcForwarding

CONSTANTS h1, h2
=============================================================================
