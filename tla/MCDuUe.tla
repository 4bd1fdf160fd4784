------------------------------- MODULE MCDuUe -------------------------------
(* UE contexts in the DU for TLC: two UEs that may live side by side or one  *)
(* after the other at the same index.                                        *)
EXTENDS DuUe
=============================================================================
