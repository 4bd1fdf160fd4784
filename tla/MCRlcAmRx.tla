------------------------------ MODULE MCRlcAmRx ------------------------------
(***************************************************************************)
(* The receiver alone, fed with every AMD PDU a peer can form.  Before it  *)
(* starts, the list of NACKs that a STATUS PDU consists of is looked at on *)
(* its own, over more SNs: up to four, across the wrap-around, with every  *)
(* set of bytes missing of each SDU.                                       *)
(***************************************************************************)
EXTENDS RlcAmRx

VARIABLE pattern \* the bytes missing of each SN in the list; empty: the receiver runs

NackList == INSTANCE RlcAmNackList WITH
    Window <- 4, FirstSn <- 6, MaxReported <- 4, Losses <- SUBSET (0 .. SduLen - 1)

MCInit == RxInit /\ pattern \in NackList!Patterns

MCNext ==
    \/ pattern # << >> /\ pattern' = << >> /\ UNCHANGED rx_vars
    \/ pattern = << >> /\ RxNext /\ UNCHANGED pattern

MCSpec == MCInit /\ [][MCNext]_<<rx_vars, pattern>>

\* The merging of NACKs into ranges by push_nack loses nothing and adds nothing: the
\* list of a STATUS PDU asks for exactly the missing bytes.  rlc_am_status_nack
\* documents nack_range as the "Number of SDUs being NACKed".
NackListExact == NackList!Exact(pattern)

\* trim produces, for every size that holds the header, a report that fits and never
\* acknowledges a missing byte: the SDUs below the reduced ACK_SN are NACKed exactly
\* where they miss bytes.
TrimSound == NackList!TrimmedExact(pattern)
=============================================================================
