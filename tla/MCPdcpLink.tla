----------------------------- MODULE MCPdcpLink -----------------------------
(***************************************************************************)
(* The PDCP bearer with a small SN space.  It starts from the first COUNT, *)
(* before the SN wraps around, and before the maximum COUNT.               *)
(***************************************************************************)
EXTENDS PdcpLink

AllConfigs ==
    {<<"am", TRUE, "finite", TRUE>>, <<"am", TRUE, "finite", FALSE>>, <<"am", FALSE, "ms0", TRUE>>,
     <<"um", TRUE, "finite", FALSE>>, <<"srb", FALSE, "infinity", FALSE>>}
=============================================================================
