---------------------------- MODULE RlcAmNackList ----------------------------
(***************************************************************************)
(* The NACK list of a STATUS PDU as refresh_status_report builds it: SN by *)
(* SN with push_nack, then cut to a grant with trim.  The run-length       *)
(* encoding over SNs and byte offsets is compared with the plain set of    *)
(* bytes it has to stand for, for every pattern of losses.                 *)
(***************************************************************************)
EXTENDS RlcAmPdu

CONSTANTS
    FirstSn,     \* SN at which the report starts (rx_next)
    MaxReported, \* bound: SNs in the report
    Losses       \* sets of bytes of an SDU that may be missing

\* The bytes missing of each SN from FirstSn on
Patterns == UNION {[1 .. n -> Losses] : n \in 0 .. MaxReported}

\* One SN of the loop of refresh_status_report, with the bytes in lost missing
ReportSn(status, lost) ==
    LET sn == status.ack_sn
        segments == {[so |-> b, len |-> 1,
                      si |-> IF b = SduLen - 1 THEN "last_segment" ELSE "middle_segment"] :
                         b \in (0 .. SduLen - 1) \ lost}
        nacks == CASE lost = {}      -> << >>
                   [] segments = {}  -> <<NackSdu(sn)>>
                   [] OTHER          -> SegmentNacks(sn, segments)
    IN  [ack_sn |-> (sn + 1) % Mod, nacks |-> PushNacks(status.nacks, nacks)]

\* The report on a pattern of losses, and the bytes <<sn, b>> it must ask for
ReportOf(pattern) == FoldLeft(ReportSn, [ack_sn |-> FirstSn, nacks |-> << >>], pattern)
Missing(pattern) ==
    UNION {{<<(FirstSn + n - 1) % Mod, b>> : b \in pattern[n]} : n \in DOMAIN pattern}

-----------------------------------------------------------------------------
Nacked(nacks) == UNION {NackBytes(nack) : nack \in ToSet(nacks)}

\* The list asks for exactly the missing bytes
Exact(pattern) == Nacked(ReportOf(pattern).nacks) = Missing(pattern)

\* The report cut to any size that holds the header fits, and below its ACK_SN it asks
\* for exactly the missing bytes
TrimmedExact(pattern) ==
    LET status == ReportOf(pattern)
    IN  \A size \in HeaderAckSize .. PackedSize(status.nacks) :
            LET trimmed == Trim(status, size)
                Below(bytes) == {m \in bytes : ModBase(m[1], FirstSn) < ModBase(trimmed.ack_sn, FirstSn)}
            IN  /\ PackedSize(trimmed.nacks) <= size
                /\ Below(Nacked(trimmed.nacks)) = Below(Missing(pattern))
=============================================================================
