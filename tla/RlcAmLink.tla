----------------------------- MODULE RlcAmLink -----------------------------
(***************************************************************************)
(* One direction of an RLC AM bearer: the transmitting side of one entity, *)
(* the receiving side of its peer, and the MAC and radio link between them *)
(* (external code, seen through how the two sides use it).                 *)
(*                                                                         *)
(* The channels hold PDUs in flight.  A fault is enabled by its name in    *)
(* Faults: "lose_data", "lose_status", "duplicate" (a PDU is received and  *)
(* stays in flight), "reorder" (any PDU in flight arrives next).  A calm   *)
(* bearer is spared what is known to silence the transmitter: discards,    *)
(* and a t-PollRetransmit shorter than a round trip.                       *)
(* The branch of pull_pdu that sends STATUS PDUs belongs to the peer.      *)
(***************************************************************************)
EXTENDS RlcAmRx, RlcAmTx

CONSTANTS
    Faults,            \* faults of the radio link
    StatusGrants,      \* grant sizes for STATUS PDUs
    StatusChannelSize, \* bound: STATUS PDUs in flight
    Calm,              \* whether the bearer is calm: the choices
    MaxRetxQueue       \* bound: queued retransmissions at which t-PollRetransmit expires

ASSUME CalmAssumption == Calm \subseteq BOOLEAN
ASSUME FaultsAssumption == Faults \subseteq {"lose_data", "lose_status", "duplicate", "reorder"}

VARIABLES
    calm,      \* whether this bearer is calm
    status_ch, \* STATUS PDUs in flight
    received,  \* how often the peer's upper layer received each SDU (2: more than once)
    dropped    \* SDUs that PDCP discarded or that found the queue full

link_vars == <<calm, rx_vars, tx_vars, status_ch, received, dropped>>

LinkInit ==
    /\ calm \in Calm
    /\ RxInit
    /\ TxInit
    /\ status_ch = << >>
    /\ received = [id \in Corrupt .. MaxSdus |-> 0]
    /\ dropped = {}

-----------------------------------------------------------------------------
(* The transmitting side *)

SubmitSdu ==
    /\ HandleSdu
    /\ dropped' = IF Len(sdu_queue) < QueueSize THEN dropped ELSE dropped \union {n_sdus'}
    /\ UNCHANGED <<calm, rx_vars, status_ch, received>>

Discard ==
    /\ ~calm
    /\ \E id \in MayDiscard : DiscardSdu(id) /\ dropped' = dropped \union {id}
    /\ UNCHANGED <<calm, rx_vars, status_ch, received>>

Pull ==
    /\ \E grant \in Grants : PullPdu(grant)
    /\ UNCHANGED <<calm, rx_vars, status_ch, received, dropped>>

\* A timer longer than the round trip expires only when the PDU or the answer was lost
PollRetransmit ==
    /\ calm => data_ch = << >> /\ status_ch = << >> /\ ~do_status
    /\ Len(retx_queue) < MaxRetxQueue
    /\ OnExpiredPollRetransmitTimer
    /\ UNCHANGED <<calm, rx_vars, status_ch, received, dropped>>

-----------------------------------------------------------------------------
(* The receiving side *)

\* The STATUS branch of pull_pdu
PullStatus ==
    /\ Len(status_ch) < StatusChannelSize
    /\ \E grant \in StatusGrants :
           /\ TrimFits(status_report, grant)
           /\ GetStatusPdu
           /\ status_ch' = Append(status_ch, Trim(status_report, grant))
    /\ UNCHANGED <<calm, tx_vars, received, dropped>>

ReassemblyExpiry ==
    /\ OnExpiredReassemblyTimer
    /\ UNCHANGED <<calm, tx_vars, status_ch, received, dropped>>

StatusProhibitExpiry ==
    /\ OnExpiredStatusProhibitTimer
    /\ UNCHANGED <<calm, tx_vars, status_ch, received, dropped>>

-----------------------------------------------------------------------------
(* The radio link *)

Arrivals(ch) == IF "reorder" \in Faults THEN DOMAIN ch ELSE {1} \intersect DOMAIN ch

Kept(ch, i) == {RemoveAt(ch, i)} \union (IF "duplicate" \in Faults THEN {ch} ELSE {})

\* Counts an SDU handed to the upper layer; 2 stands for "more than once"
CountSdus(sdus) ==
    [id \in DOMAIN received |->
        Min({2, received[id] + Len(SelectSeq(sdus, LAMBDA s : s = id))})]

ReceiveData ==
    /\ \E i \in Arrivals(data_ch) :
           /\ HandleDataPdu(data_ch[i])
           /\ received' = CountSdus(Delivers(data_ch[i]))
           /\ data_ch' \in Kept(data_ch, i)
    /\ UNCHANGED <<calm, tx_next_ack, tx_next, tx_poll, sdu_queue, sn_under_segmentation, retx_queue,
                   tx_window, max_retx, n_sdus, delivered_sdu, tx_aborted, status_ch, dropped>>

ReceiveStatus ==
    /\ \E i \in Arrivals(status_ch) :
           /\ HandleStatusPdu(status_ch[i])
           /\ status_ch' \in Kept(status_ch, i)
    /\ UNCHANGED <<calm, rx_vars, received, dropped>>

LoseData ==
    /\ "lose_data" \in Faults
    /\ \E i \in Arrivals(data_ch) : data_ch' = RemoveAt(data_ch, i)
    /\ UNCHANGED <<calm, rx_vars, tx_next_ack, tx_next, tx_poll, sdu_queue, sn_under_segmentation,
                   retx_queue, tx_window, max_retx, n_sdus, delivered_sdu, tx_aborted,
                   status_ch, received, dropped>>

LoseStatus ==
    /\ "lose_status" \in Faults
    /\ \E i \in Arrivals(status_ch) : status_ch' = RemoveAt(status_ch, i)
    /\ UNCHANGED <<calm, rx_vars, tx_vars, received, dropped>>

-----------------------------------------------------------------------------

LinkNext ==
    \/ SubmitSdu \/ Discard \/ Pull \/ PollRetransmit
    \/ PullStatus \/ ReassemblyExpiry \/ StatusProhibitExpiry
    \/ ReceiveData \/ ReceiveStatus \/ LoseData \/ LoseStatus

LinkSpec == LinkInit /\ [][LinkNext]_link_vars

-----------------------------------------------------------------------------
(* Properties.  IntactOnce, ConfirmedIsReceived, WindowContiguous,         *)
(* ServiceSpec and NoSilentStall are about bearers whose grants hold whole *)
(* SDUs: with segments none of them holds.                                 *)

\* No grant makes build_new_pdu cut an SDU
WholeGrants == \A grant \in Grants : grant > HeadMin => grant >= SduLen + HeadMin

\* Every SDU that handle_data_pdu hands to the upper layer is the whole SDU that was
\* submitted, and none reaches it twice: neither retransmissions, nor duplicates,
\* nor a reused SN make it deliver an SDU again.
IntactOnce ==
    /\ received[Corrupt] = 0
    /\ \A id \in 1 .. MaxSdus : received[id] <= 1

\* on_delivered_sdu speaks the truth: when PDCP is told that SDUs up to
\* delivered_sdu were delivered, the peer's upper layer has each of them that
\* was not dropped before transmission.
ConfirmedIsReceived ==
    \A id \in 1 .. delivered_sdu : id \in dropped \/ received[id] >= 1

\* SNs in the transmission window are exactly those from tx_next_ack on: no SDU
\* awaiting acknowledgement is ever overwritten or skipped.
WindowContiguous ==
    DOMAIN tx_window = {sn \in SN : \/ ModBase(sn, tx_next_ack) < ModBase(tx_next, tx_next_ack)
                                    \/ sn = tx_next /\ sn_under_segmentation = tx_next}

\* No run-time check fails on either side: add_sn never meets an SN that is still
\* in the window, and no NACK addresses an SN that is not.
NoAssert == ~tx_aborted /\ ~rx_aborted

\* Nothing to send, SDUs unacknowledged, and no timer that would bring them back
Stalled ==
    /\ tx_window # << >>
    /\ sdu_queue = << >> /\ retx_queue = << >> /\ sn_under_segmentation = InvalidSn
    /\ ~poll_retransmit_timer

\* A calm transmitter of whole SDUs never goes silent with SDUs unacknowledged: when
\* it has nothing to send, t-PollRetransmit runs, so that the SDUs are sent again
\* if the peer does not answer.
NoSilentStall == calm /\ WholeGrants => ~Stalled

\* Segmentation in progress stands at a proper offset of the SDU, so the two
\* sanity checks at the start of build_continued_sdu_segment never fail.
SegmentationInProgress ==
    sn_under_segmentation \in DOMAIN tx_window =>
        tx_window[sn_under_segmentation].next_so \in 1 .. SduLen - 1

\* The abstract service, seen in the state of the bearer
Service == INSTANCE RlcAmService WITH
    submitted <- n_sdus, dropped <- dropped, confirmed <- delivered_sdu,
    received <- {id \in 1 .. MaxSdus : received[id] >= 1}

\* The bearer implements the service: what handle_sdu, discard_sdu, the radio link and
\* the two entities do to an SDU is a step of RlcAmService or none.
ServiceSpec == Service!Spec

-----------------------------------------------------------------------------
(* Statements of the repository that the code does not keep *)

\* include/srsran/rlc/rlc_config.h documents the segmentation info: "Full SDU", "First",
\* "Last" and "Middle SDU segment".  A PDU in flight says truly which part of the
\* SDU it carries.
SegmentInfoTruthful ==
    \A pdu \in ToSet(data_ch) :
        /\ pdu.si \in {"full_sdu", "first_segment"} <=> pdu.so = 0
        /\ pdu.si \in {"full_sdu", "last_segment"} <=> pdu.so + pdu.len = SduLen

\* on_expired_poll_retransmit_timer, when both buffers are empty: "consider any RLC SDU
\* which has not been positively acknowledged for retransmission".  So a calm
\* transmitter is never left with unacknowledged SDUs and nothing to do.
UnackedIsRetransmitted == calm => ~Stalled

=============================================================================
