------------------------------ MODULE PdcpLink ------------------------------
(***************************************************************************)
(* One direction of a PDCP bearer: the transmitting side of one entity and *)
(* the receiving side of its peer, over F1-U and RLC, reduced to what PDCP *)
(* sees of them.                                                           *)
(*                                                                         *)
(* RLC drops a PDU that finds its queue full, takes the others from the    *)
(* queue in order and delivers what is in flight in any order.  RLC AM     *)
(* then loses nothing and confirms in sequence (RlcAmLink shows both for   *)
(* whole SDUs of this repository's RLC AM); RLC UM may lose a PDU.  The    *)
(* notification of the highest SN and the status report travel on their    *)
(* own and may be applied late.  RRC re-establishes RLC and both PDCP      *)
(* entities together, with a new key.  SDUs are numbered in the order of   *)
(* their submission, so that an AM bearer sends SDU n with COUNT n.        *)
(***************************************************************************)
EXTENDS PdcpTx, PdcpRx

CONSTANTS
    Configs,        \* configurations: bearer, whether discardTimer is set, t-Reordering,
                    \* whether the receiving entity is to send status reports
    RlcQueueSize,   \* PDUs that the SDU queue of RLC holds
    Starts,         \* COUNTs to start from: all before it sent, delivered and confirmed
    MaxNewSdus,     \* bound: SDUs submitted
    MaxOutstanding, \* the upper layer keeps this many COUNTs outstanding at most
    MaxRestarts     \* bound: data recoveries and re-establishments

ASSUME LinkAssumption ==
    /\ Configs \subseteq {"srb", "am", "um"} \X BOOLEAN \X {"ms0", "finite", "infinity"} \X BOOLEAN
    /\ RlcQueueSize \in Nat
    /\ MaxOutstanding \in 0 .. Window
    /\ Starts \subseteq Counts

None == [none |-> TRUE]

VARIABLES
    status_report_required, \* of the receiving entity's configuration
    n_sdus,     \* number of the next SDU
    first_sdu,  \* number of the first one
    flight,     \* PDUs transmitted and not yet confirmed, oldest first
    notif,      \* a notification of the highest SN on its way to PDCP, or None
    report,     \* a status report on its way to the transmitting side, or None
    recoveries, \* data recoveries so far
    abandoned   \* SDUs whose discard timer expired or that found the queue of RLC full

link_vars == <<bearer, status_report_required, tx_vars, rx_vars, n_sdus, first_sdu,
               rlc_queue, flight, notif, report, recoveries, abandoned>>

LinkInit ==
    /\ \E cfg \in Configs :
           bearer = cfg[1] /\ discard_timer = cfg[2] /\ t_reordering = cfg[3] /\ status_report_required = cfg[4]
    /\ \E start \in Starts : TxInit(start) /\ RxInit(start) /\ n_sdus = start /\ first_sdu = start
    /\ rlc_queue = << >> /\ flight = << >>
    /\ notif = None /\ report = None
    /\ recoveries = 0
    /\ abandoned = {}

-----------------------------------------------------------------------------
Oldest == Min({rx_deliv} \union DOMAIN discard_timers_map)

SubmitSdu ==
    /\ n_sdus - first_sdu < MaxNewSdus
    /\ tx_next - Oldest < MaxOutstanding
    /\ HandleSdu(n_sdus)
    /\ n_sdus' = IF CountExhausted THEN n_sdus ELSE n_sdus + 1
    /\ UNCHANGED <<bearer, status_report_required, rx_vars, first_sdu, flight, notif, report, recoveries, abandoned>>

DiscardTimerExpiry ==
    /\ \E count \in DOMAIN discard_timers_map :
           /\ OnDiscardTimerExpired(count)
           /\ abandoned' = abandoned \union {discard_timers_map[count]}
    /\ UNCHANGED <<bearer, status_report_required, rx_vars, n_sdus, first_sdu, flight, notif, report, recoveries>>

Recover ==
    /\ recoveries + tx_key < MaxRestarts
    /\ DataRecovery
    /\ recoveries' = recoveries + 1
    /\ UNCHANGED <<bearer, status_report_required, rx_vars, n_sdus, first_sdu, flight, notif, report, abandoned>>

\* RLC is re-established before PDCP gives it anything new.
Reestablish ==
    /\ recoveries + tx_key < MaxRestarts
    /\ TxReestablish(tx_key + 1, << >>) /\ flight' = << >>
    /\ RxReestablish(tx_key + 1)
    /\ UNCHANGED <<bearer, status_report_required, n_sdus, first_sdu, notif, report, recoveries, abandoned>>

-----------------------------------------------------------------------------
\* A queue without its i-th element
Without(queue, i) == SubSeq(queue, 1, i - 1) \o SubSeq(queue, i + 1, Len(queue))

\* rlc_queue is the SDU queue of RLC followed by what F1-U still carries to it:
\* the next PDU to arrive is dropped when the SDU queue is full, and nobody is told.
RlcDrop ==
    /\ Len(rlc_queue) > RlcQueueSize
    /\ abandoned' = abandoned \union {rlc_queue[RlcQueueSize + 1].sdu}
    /\ rlc_queue' = Without(rlc_queue, RlcQueueSize + 1)
    /\ UNCHANGED <<bearer, status_report_required, tx_vars, rx_vars, n_sdus, first_sdu, flight, notif, report, recoveries>>

\* RLC starts to transmit a PDU, and says so
RlcTransmit ==
    /\ rlc_queue # << >>
    /\ flight' = Append(flight, [pdu |-> Head(rlc_queue), rcvd |-> FALSE])
    /\ rlc_queue' = Tail(rlc_queue)
    /\ notif' = IF IsUm THEN [sn |-> SN(Head(rlc_queue).count), delivered |-> FALSE] ELSE notif
    /\ UNCHANGED <<bearer, status_report_required, tx_vars, rx_vars, n_sdus, first_sdu, report, recoveries, abandoned>>

RlcDeliver ==
    /\ \E i \in DOMAIN flight :
           /\ ~flight[i].rcvd
           /\ HandleDataPdu(flight[i].pdu)
           /\ flight' = IF IsAm THEN [flight EXCEPT ![i].rcvd = TRUE] ELSE Without(flight, i)
    /\ UNCHANGED <<bearer, status_report_required, tx_vars, n_sdus, first_sdu, rlc_queue, notif, report, recoveries, abandoned>>

RlcLose ==
    /\ IsUm
    /\ \E i \in DOMAIN flight : flight' = Without(flight, i)
    /\ UNCHANGED <<bearer, status_report_required, tx_vars, rx_vars, n_sdus, first_sdu, rlc_queue, notif, report, recoveries, abandoned>>

\* RLC AM learns that PDUs 1 .. k have all been received
RlcConfirm ==
    /\ IsAm
    /\ \E k \in DOMAIN flight :
           /\ \A i \in 1 .. k : flight[i].rcvd
           /\ notif' = [sn |-> SN(flight[k].pdu.count), delivered |-> TRUE]
           /\ flight' = SubSeq(flight, k + 1, Len(flight))
    /\ UNCHANGED <<bearer, status_report_required, tx_vars, rx_vars, n_sdus, first_sdu, rlc_queue, report, recoveries, abandoned>>

Notify ==
    /\ notif # None
    /\ HandleNotification(notif.sn, notif.delivered)
    /\ notif' = None
    /\ UNCHANGED <<bearer, status_report_required, rx_vars, n_sdus, first_sdu, rlc_queue, flight, report, recoveries, abandoned>>

ReorderingExpiry ==
    /\ HandleTReorderingExpire
    /\ UNCHANGED <<bearer, status_report_required, tx_vars, n_sdus, first_sdu, rlc_queue, flight, notif, report, recoveries, abandoned>>

\* send_status_report of the receiving entity's transmitting side
SendStatusReport ==
    /\ bearer = "am" /\ status_report_required /\ report = None
    /\ report' = CompileStatusReport
    /\ UNCHANGED <<bearer, status_report_required, tx_vars, rx_vars, n_sdus, first_sdu, rlc_queue, flight, notif, recoveries, abandoned>>

ReceiveStatusReport ==
    /\ report # None
    /\ HandleStatusReport(report)
    /\ report' = None
    /\ UNCHANGED <<bearer, status_report_required, rx_vars, n_sdus, first_sdu, flight, notif, recoveries, abandoned>>

LinkNext ==
    \/ SubmitSdu \/ DiscardTimerExpiry \/ Recover \/ Reestablish
    \/ RlcDrop \/ RlcTransmit \/ RlcDeliver \/ RlcLose \/ RlcConfirm \/ Notify
    \/ ReorderingExpiry \/ SendStatusReport \/ ReceiveStatusReport

LinkSpec == LinkInit /\ [][LinkNext]_link_vars
-----------------------------------------------------------------------------
\* The upper layer receives every SDU at most once and in the order of
\* submission, whatever is reordered, retransmitted by data recovery or
\* re-establishment, or skipped by t-Reordering (handle_data_pdu).
InOrderOnce == \A i, j \in DOMAIN upper_sdus : i < j => upper_sdus[i] < upper_sdus[j]

InLower(count) ==
    \/ \E i \in DOMAIN rlc_queue : rlc_queue[i].count = count
    \/ \E i \in DOMAIN flight : flight[i].pdu.count = count /\ ~flight[i].rcvd

\* What can have become of an SDU of an AM bearer with COUNT c: it is received,
\* on its way, kept for data_recovery and reestablish, given up by the discard
\* timer or a full queue, or its COUNT is refused.
Accounted(c) ==
    \/ c < rx_deliv \/ c \in DOMAIN reorder_queue
    \/ InLower(c) \/ c \in DOMAIN discard_timers_map
    \/ c \in abandoned \/ c >= RxHard

\* On an AM DRB with a discardTimer and no status reports no SDU gets lost
\* between the two sides: a notification of the highest SN stops the timers of
\* received SDUs only (stop_discard_timer), whatever was dropped before it.
NothingLost ==
    bearer = "am" /\ discard_timer /\ ~status_report_required =>
        \A c \in first_sdu .. n_sdus - 1 : Accounted(c)

\* Status reports do not change this: what handle_status_report throws away is
\* below RX_DELIV or "correctly received", as the comments on the bits of
\* compile_status_report and handle_status_report have it.
ReportsLoseNothing ==
    bearer = "am" /\ discard_timer /\ status_report_required =>
        \A c \in first_sdu .. n_sdus - 1 : Accounted(c)

\* Both sides stay in step: a PDU that the receiver still waits for is given the
\* COUNT that it was sent with, across a wrap of the SN and of the HFN.
CountsInStep ==
    \A pdu \in Range(rlc_queue) \union {f.pdu : f \in Range(flight)} :
        pdu.key = rx_key /\ pdu.count >= rx_deliv => RcvdCount(pdu) = pdu.count

\* A COUNT is never used again with the same key: TX_NEXT goes back only in a
\* re-establishment, which changes the key (handle_sdu, reestablish).
CountsFreshPerKey == [][tx_next' < tx_next => tx_key' # tx_key]_link_vars

\* With a finite t-Reordering nothing is stored for good: while an SDU waits
\* behind a gap the timer runs, through every stop and restart of it.
StoredIsWatched == t_reordering = "finite" /\ DOMAIN reorder_queue # {} => reordering_timer

=============================================================================
