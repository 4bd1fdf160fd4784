------------------------------- MODULE PdcpTx -------------------------------
(***************************************************************************)
(* The transmitting side of a PDCP entity (pdcp_entity_tx).                *)
(*                                                                         *)
(* A PDU is [count, key, sdu]: its header carries SN(count) only; the      *)
(* COUNT and the key are what ciphering and integrity protection bind it   *)
(* to.  The calls that a handler makes to lower_dn (on_new_pdu or          *)
(* on_discard_pdu) change the queue of PDUs that RLC has not started to    *)
(* transmit, which is external.  A discard timer runs exactly while its    *)
(* COUNT is in the map.                                                    *)
(***************************************************************************)
EXTENDS PdcpBase, Sequences, FiniteSetsExt, Functions

CONSTANTS TxNotify, TxHard \* max_count.notify and max_count.hard

\* They are 32-bit words.
ASSUME TxAssumption == TxHard \in Counts

VARIABLES
    discard_timer,      \* whether a finite discardTimer is configured
    tx_next,            \* TX_NEXT
    discard_timers_map, \* the SDU stored under each COUNT with a discard timer
    tx_key,             \* the security key in use
    tx_max_count_notified,
    tx_max_count_overflow,
    rlc_queue           \* PDUs that RLC has not started to transmit

tx_vars == <<discard_timer, tx_next, discard_timers_map, tx_key,
             tx_max_count_notified, tx_max_count_overflow>>

Pdu(count, key, sdu) == [count |-> count, key |-> key, sdu |-> sdu]

\* RLC with PDUs handed to it one after the other
OnNewPdus(queue, pdus) == rlc_queue' = queue \o pdus

\* RLC after on_discard_pdu for the SNs of some COUNTs, which are no two COUNTs
\* of one SN: each call removes the first PDU of its SN.
OnDiscardPdus(queue, counts) ==
    LET FirstOf(i, sn) == SN(queue[i].count) = sn /\ \A j \in 1 .. i - 1 : SN(queue[j].count) # sn
        kept == {i \in DOMAIN queue : \A c \in counts : ~FirstOf(i, SN(c))}
    IN  rlc_queue' = [k \in 1 .. Cardinality(kept) |-> queue[Ascending(kept)[k]]]

TxInit(start) ==
    /\ tx_next = start
    /\ discard_timers_map = << >>
    /\ tx_key = 0
    /\ tx_max_count_notified = FALSE
    /\ tx_max_count_overflow = FALSE

-----------------------------------------------------------------------------
\* Mutant of CountExhausted: no hard maximum
CountNeverExhausted == FALSE

CountExhausted == tx_next >= TxHard

\* Past the hard maximum the SDU is refused, and the failure is reported once
HandleSduRefused ==
    /\ CountExhausted
    /\ tx_max_count_overflow' = TRUE
    /\ UNCHANGED <<discard_timer, tx_next, discard_timers_map, tx_key, tx_max_count_notified, rlc_queue>>

HandleSduSent(sdu) ==
    /\ ~CountExhausted
    /\ tx_max_count_notified' = (tx_max_count_notified \/ tx_next >= TxNotify)
    /\ discard_timers_map' = IF discard_timer THEN Insert(discard_timers_map, tx_next, sdu)
                             ELSE discard_timers_map
    /\ OnNewPdus(rlc_queue, <<Pdu(tx_next, tx_key, sdu)>>)
    /\ tx_next' = (tx_next + 1) % CountMod
    /\ UNCHANGED <<discard_timer, tx_key, tx_max_count_overflow>>

HandleSdu(sdu) == HandleSduRefused \/ HandleSduSent(sdu)

Erase(S) == discard_timers_map' = Restrict(discard_timers_map, DOMAIN discard_timers_map \ S)

\* Mutant of Confirmed: one COUNT too many
ConfirmedPast(highest_sn) ==
    LET tx_next_deliv == Min(DOMAIN discard_timers_map)
    IN  tx_next_deliv .. InferCount(tx_next_deliv, highest_sn) + 1

\* The COUNTs whose timers a notification of highest_sn stops
Confirmed(highest_sn) ==
    LET tx_next_deliv == Min(DOMAIN discard_timers_map)
    IN  tx_next_deliv .. InferCount(tx_next_deliv, highest_sn)

\* handle_transmit_notification and handle_delivery_notification: the first
\* stops the timers of a UM bearer, the second those of an AM bearer
HandleNotification(highest_sn, delivered) ==
    /\ IF delivered = IsAm /\ discard_timer /\ discard_timers_map # << >>
       THEN Erase(Confirmed(highest_sn))
       ELSE UNCHANGED discard_timers_map
    /\ UNCHANGED <<discard_timer, tx_next, tx_key, tx_max_count_notified, tx_max_count_overflow>>

\* A report is [fmc, bits]: bits[i] is the bit for COUNT fmc + i
HandleStatusReport(report) ==
    LET below  == {c \in DOMAIN discard_timers_map : c < report.fmc}
        marked == {report.fmc + i : i \in {j \in DOMAIN report.bits : report.bits[j] = 1}}
    IN  /\ OnDiscardPdus(rlc_queue, below \union marked)
        /\ Erase(below \union marked)
        /\ UNCHANGED <<discard_timer, tx_next, tx_key, tx_max_count_notified, tx_max_count_overflow>>

\* retransmit_all_pdus
Retransmitted(map, key) ==
    [i \in 1 .. Cardinality(DOMAIN map) |->
        LET c == Ascending(DOMAIN map)[i] IN Pdu(c, key, map[c])]

\* data_recovery is asserted to be for AM DRBs
DataRecovery ==
    /\ bearer = "am"
    /\ OnNewPdus(rlc_queue, Retransmitted(discard_timers_map, tx_key))
    /\ UNCHANGED tx_vars

\* queue: what RLC holds at this point
TxReestablish(key, queue) ==
    LET reset == IsSrb \/ IsUm
        map   == IF reset THEN << >> ELSE discard_timers_map
    IN  /\ tx_next' = IF reset THEN 0 ELSE tx_next
        /\ discard_timers_map' = map
        /\ tx_key' = key
        /\ OnNewPdus(queue, IF IsAm THEN Retransmitted(map, key) ELSE << >>)
        /\ UNCHANGED <<discard_timer, tx_max_count_notified, tx_max_count_overflow>>

\* discard_callback
OnDiscardTimerExpired(count) ==
    /\ count \in DOMAIN discard_timers_map
    /\ OnDiscardPdus(rlc_queue, {count})
    /\ Erase({count})
    /\ UNCHANGED <<discard_timer, tx_next, tx_key, tx_max_count_notified, tx_max_count_overflow>>
=============================================================================
