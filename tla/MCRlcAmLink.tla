----------------------------- MODULE MCRlcAmLink -----------------------------
(***************************************************************************)
(* The composed bearer on small windows and channels.                      *)
(***************************************************************************)
EXTENDS RlcAmLink
=============================================================================
