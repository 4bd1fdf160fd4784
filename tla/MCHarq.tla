------------------------------- MODULE MCHarq -------------------------------
(* A small HARQ entity: the instance model-checked for module Harq. *)
EXTENDS Harq
=============================================================================
