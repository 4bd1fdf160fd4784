------------------------------ MODULE MCRlcUm ------------------------------
(* RLC UM for TLC: an SN space that the SDUs go round. *)
EXTENDS RlcUm
=============================================================================
