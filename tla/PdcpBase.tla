------------------------------ MODULE PdcpBase ------------------------------
(***************************************************************************)
(* What both sides of a PDCP entity share (pdcp_entity_tx_rx_base.h,       *)
(* pdcp_sn.h): the kind of bearer and the COUNT arithmetic.  A COUNT is a  *)
(* 32-bit word [HFN, SN]; SnMod stands for 2^sn_size and HfnMod for        *)
(* 2^(32 - sn_size), so every result is taken modulo SnMod * HfnMod.       *)
(***************************************************************************)
EXTENDS Integers, FiniteSets

CONSTANTS SnMod, HfnMod

ASSUME CountAssumption ==
    /\ HfnMod \in Nat \ {0}
    /\ SnMod \in Nat \ {0}
    /\ SnMod % 2 = 0

VARIABLE bearer \* "srb" (AM SRB), "am" (AM DRB) or "um" (UM DRB)

IsSrb == bearer = "srb"
IsUm == bearer = "um"
IsAm == bearer # "um"

CountMod == SnMod * HfnMod
Counts == 0 .. CountMod - 1

\* pdcp_window_size: half of the SN space
Window == SnMod \div 2

SN(count) == count % SnMod
HFN(count) == count \div SnMod
COUNT(hfn, sn) == (hfn % HfnMod) * SnMod + sn

\* Mutant of InferHfn: the SN is not expected to wrap around
InferHfnNoWrap(ref, sn) == HFN(ref)

\* The COUNT meant by an SN, taken to lie around the COUNT ref.  The receiver
\* does this with ref = RX_DELIV, the transmitter with the COUNT of its oldest
\* unconfirmed SDU.
InferHfn(ref, sn) ==
    IF sn < SN(ref) - Window THEN HFN(ref) + 1
    ELSE IF sn >= SN(ref) + Window THEN HFN(ref) - 1
    ELSE HFN(ref)

InferCount(ref, sn) == COUNT(InferHfn(ref, sn), sn)

\* Both sides keep SDUs in a map from COUNTs: insertion, and the order in which
\* the map is visited.
Insert(map, count, sdu) ==
    [c \in DOMAIN map \union {count} |-> IF c \in DOMAIN map THEN map[c] ELSE sdu]
Ascending(S) ==
    [i \in 1 .. Cardinality(S) |-> CHOOSE x \in S : Cardinality({y \in S : y < x}) = i - 1]
=============================================================================
