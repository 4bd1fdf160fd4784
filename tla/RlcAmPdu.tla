------------------------------ MODULE RlcAmPdu ------------------------------
(***************************************************************************)
(* What both sides of an RLC AM bearer share: sequence-number arithmetic,  *)
(* the shape of AMD PDUs and the NACK list of a STATUS PDU                 *)
(* (lib/rlc/rlc_am_pdu.h, lib/rlc/rlc_am_pdu.cpp).                         *)
(*                                                                         *)
(* Payload bytes are abstracted to the identity of the SDU they come from  *)
(* and a byte range; every SDU is SduLen bytes long.                       *)
(***************************************************************************)
EXTENDS Integers, Sequences, FiniteSets, SequencesExt

CONSTANTS
    Window,       \* am_window_size = cardinality(sn_size - 1)
    SduLen,       \* bytes in an RLC SDU
    NackRangeMod, \* values of the uint8_t rlc_am_status_nack::nack_range
    NackSnSize    \* packed bytes of a NACK_SN: 2 (12 bit SN) or 3 (18 bit SN)

ASSUME WindowAssumption == Window \in Nat /\ Window >= 2
ASSUME SduLenAssumption == SduLen \in Nat \ {0}

-----------------------------------------------------------------------------
(* Sequence numbers *)

\* cardinality(sn_size): twice the window
Mod == 2 * Window

SN == 0 .. Mod - 1

\* rx_mod_base and tx_mod_base: distance of sn above the lower window edge
ModBase(sn, edge) == (sn - edge) % Mod

\* INVALID_RLC_SN
InvalidSn == -1

\* rlc_am_status_nack::so_end_of_sdu
SoEndOfSdu == 65535

-----------------------------------------------------------------------------
(* AMD PDUs.  si is the segmentation information, [so, so+len) the bytes   *)
(* of SDU id that the PDU carries, p the polling bit.                      *)

SegInfo == {"full_sdu", "first_segment", "middle_segment", "last_segment"}

\* An SDU handed to the upper layer whose bytes are not those of one whole SDU
Corrupt == 0

-----------------------------------------------------------------------------
(* NACKs of a STATUS PDU *)

\* A NACK of the whole SDU with SN nack_sn (the default constructor)
NackSdu(sn) ==
    [nack_sn |-> sn, has_so |-> FALSE, so_start |-> 0, so_end |-> SoEndOfSdu,
     has_nack_range |-> FALSE, nack_range |-> 0]

NackSegment(sn, start, end) ==
    [NackSdu(sn) EXCEPT !.has_so = TRUE, !.so_start = start, !.so_end = end]

\* SDUs a NACK extends over
RangeOf(nack) == IF nack.has_nack_range THEN nack.nack_range ELSE 1

\* Mutant of is_continuous_sequence: segment offsets are not compared
is_continuous_sequence_sn(left, right) == right.nack_sn = (left.nack_sn + RangeOf(left)) % Mod

is_continuous_sequence(left, right) ==
    /\ right.nack_sn = (left.nack_sn + RangeOf(left)) % Mod
    /\ left.has_so => left.so_end = SoEndOfSdu
    /\ right.has_so => right.so_start = 0

\* The tail of push_nack: prev is extended over nack, in 8 bit arithmetic
ExpandNack(prev, nack) ==
    [prev EXCEPT
        !.has_nack_range = TRUE,
        !.nack_range = (RangeOf(prev) + RangeOf(nack)) % NackRangeMod,
        !.has_so = prev.has_so \/ nack.has_so,
        !.so_start = IF nack.has_so /\ ~prev.has_so THEN 0 ELSE @,
        !.so_end = CASE nack.has_so -> nack.so_end
                     [] ~nack.has_so /\ prev.has_so -> SoEndOfSdu
                     [] OTHER -> @]

push_nack(nacks, nack) ==
    IF nacks # << >> /\ is_continuous_sequence(Last(nacks), nack)
    THEN Append(Front(nacks), ExpandNack(Last(nacks), nack))
    ELSE Append(nacks, nack)

PushNacks(nacks, more) == FoldLeft(push_nack, nacks, more)

-----------------------------------------------------------------------------
(* Packed size and trimming *)

HeaderAckSize == 3

nack_size(nack) ==
    NackSnSize + (IF nack.has_so THEN 4 ELSE 0) + (IF nack.has_nack_range THEN 1 ELSE 0)

PackedSize(nacks) ==
    FoldLeft(LAMBDA size, nack : size + nack_size(nack), HeaderAckSize, nacks)

\* trim() refuses only a space in which not even the header fits
TrimFits(status, max_packed_size) ==
    max_packed_size >= PackedSize(status.nacks) \/ max_packed_size >= HeaderAckSize

\* Mutant of TrimAck: ACK_SN is not reduced
TrimAckKept(status, k) == status.ack_sn

\* ACK_SN once the NACKs after the k-th are removed
TrimAck(status, k) ==
    IF k = Len(status.nacks) THEN status.ack_sn ELSE status.nacks[k + 1].nack_sn

\* The loop of trim() pops NACKs from the back until the rest fits and the last
\* one left does not start at the new ACK_SN: `kept' is where it stops.
Trim(status, max_packed_size) ==
    LET Stops(k) == \/ k = 0
                    \/ /\ PackedSize(SubSeq(status.nacks, 1, k)) <= max_packed_size
                       /\ status.nacks[k].nack_sn # TrimAck(status, k)
        kept == Max({k \in 0 .. Len(status.nacks) : Stops(k)})
    IN  IF max_packed_size >= PackedSize(status.nacks)
        THEN status
        ELSE [ack_sn |-> TrimAck(status, kept), nacks |-> SubSeq(status.nacks, 1, kept)]

-----------------------------------------------------------------------------
(* NACKs for an SDU of which some segments were received: a set of         *)
(* [so, len, si, id], read in the order of so as the std::set of the code  *)

InOrder(segments) == SetToSortSeq(segments, LAMBDA a, b : a.so < b.so)

\* NACKs of the missing byte ranges of an SDU some segments of which were received
SegmentNacks(sn, segments) ==
    LET segs == InOrder(segments)
        walk == FoldLeft(
            LAMBDA acc, s :
                [so |-> s.so + s.len,
                 nacks |-> IF s.so = acc.so THEN acc.nacks
                           ELSE Append(acc.nacks, NackSegment(sn, acc.so, s.so - 1))],
            [so |-> 0, nacks |-> << >>], segs)
    IN  IF \E s \in segments : s.si = "last_segment" THEN walk.nacks
        ELSE Append(walk.nacks, NackSegment(sn, walk.so, SoEndOfSdu))

-----------------------------------------------------------------------------
(* Reference: what a NACK means (TS 38.322, the comments of rlc_am_status_nack) *)

\* Bytes that a NACK asks for: all of every SDU it covers, except that the first
\* starts at so_start and the last ends at so_end
NackBytes(nack) ==
    LET last == RangeOf(nack) - 1
    IN  UNION {{<<(nack.nack_sn + k) % Mod, b>> :
                   b \in {x \in 0 .. SduLen - 1 : /\ k = 0 => x >= nack.so_start
                                                  /\ k = last => x <= nack.so_end}} : k \in 0 .. last}

=============================================================================
