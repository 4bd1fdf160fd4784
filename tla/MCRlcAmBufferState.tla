------------------------- MODULE MCRlcAmBufferState -------------------------
(***************************************************************************)
(* The buffer state protocol with small queues.                            *)
(***************************************************************************)
EXTENDS RlcAmBufferState
=============================================================================
