------------------------------- MODULE PdcpRx -------------------------------
(***************************************************************************)
(* The receiving side of a PDCP entity (pdcp_entity_rx), with integrity    *)
(* protection enabled: a PDU passes the integrity check only if it was     *)
(* protected with the key and the COUNT that the receiver uses for it.     *)
(* An expiry of t-Reordering and its handler are one step, enabled while   *)
(* the timer runs.                                                         *)
(***************************************************************************)
EXTENDS PdcpBase, Sequences, FiniteSetsExt, Functions

CONSTANTS
    RxNotify, RxHard, \* max_count.notify and max_count.hard
    MaxReportBits     \* bits that fit a status report of maximum size

ASSUME RxAssumption == RxHard <= CountMod - 1 /\ MaxReportBits \in Nat

VARIABLES
    t_reordering,     \* "ms0", "finite" or "infinity"
    rx_next,          \* RX_NEXT
    rx_deliv,         \* RX_DELIV
    rx_reord,         \* RX_REORD
    reorder_queue,    \* the SDU stored under each COUNT
    reordering_timer, \* whether t-Reordering is running
    rx_key,           \* the security key in use
    rx_max_count_notified,
    rx_max_count_overflow,
    upper_sdus        \* SDUs passed to the upper layer, in order

rx_vars == <<t_reordering, rx_next, rx_deliv, rx_reord, reorder_queue, reordering_timer,
             rx_key, rx_max_count_notified, rx_max_count_overflow, upper_sdus>>

RxInit(start) ==
    /\ rx_next = start /\ rx_deliv = start /\ rx_reord = start
    /\ reorder_queue = << >>
    /\ reordering_timer = FALSE
    /\ rx_key = 0
    /\ rx_max_count_notified = FALSE
    /\ rx_max_count_overflow = FALSE
    /\ upper_sdus = << >>

-----------------------------------------------------------------------------
\* The stored SDUs of the COUNTs in S, in ascending order of COUNT
InOrder(queue, S) ==
    [i \in 1 .. Cardinality(S) |-> queue[Ascending(S)[i]]]

\* deliver_all_consecutive_counts: RX_DELIV after delivering from COUNT from on
AfterConsecutive(queue, from, next) ==
    CHOOSE k \in from .. next : k \notin DOMAIN queue /\ from .. k - 1 \subseteq DOMAIN queue

\* Everything stored below COUNT deliv is passed up and removed
DeliverBelow(queue, deliv) ==
    LET S == {c \in DOMAIN queue : c < deliv}
    IN  /\ upper_sdus' = upper_sdus \o InOrder(queue, S)
        /\ reorder_queue' = Restrict(queue, DOMAIN queue \ S)
        /\ rx_deliv' = deliv

\* Mutant of TimerAfter: not restarted once it was stopped
TimerNotRestarted(running, deliv, next) == running

\* Whether t-Reordering runs after a PDU was stored
TimerAfter(running, deliv, next) == running \/ deliv < next

\* Storing a new PDU, and what follows from it
Store(count, sdu) ==
    LET queue   == Insert(reorder_queue, count, sdu)
        next    == IF count >= rx_next THEN count + 1 ELSE rx_next
        deliv   == IF count = rx_deliv THEN AfterConsecutive(queue, rx_deliv, next) ELSE rx_deliv
        running == reordering_timer /\ deliv < rx_reord
    IN  /\ rx_next' = next
        /\ CASE t_reordering = "infinity" ->
                  /\ DeliverBelow(queue, deliv)
                  /\ reordering_timer' = running
                  /\ UNCHANGED rx_reord
             [] t_reordering = "ms0" -> \* handle_t_reordering_expire with RX_REORD = RX_NEXT
                  /\ DeliverBelow(queue, next)
                  /\ rx_reord' = next
                  /\ UNCHANGED reordering_timer
             [] t_reordering = "finite" ->
                  /\ DeliverBelow(queue, deliv)
                  /\ rx_reord' = next
                  /\ reordering_timer' = TimerAfter(running, deliv, next)

RcvdCount(pdu) == InferCount(rx_deliv, SN(pdu.count))

IntegrityVerify(pdu) == RcvdCount(pdu) = pdu.count /\ rx_key = pdu.key

\* Mutant of Stale: COUNTs already passed are not recognised
StaleIfStored(count) == count \in DOMAIN reorder_queue

\* The PDU was received before, or its COUNT is no longer waited for
Stale(count) == count < rx_deliv \/ count \in DOMAIN reorder_queue

HandleDataPdu(pdu) ==
    LET count == RcvdCount(pdu)
    IN  /\ rx_max_count_notified' = (rx_max_count_notified \/ count > RxNotify)
        /\ rx_max_count_overflow' = (rx_max_count_overflow \/ count >= RxHard)
        /\ IF count < RxHard /\ IntegrityVerify(pdu) /\ ~Stale(count)
           THEN Store(count, pdu.sdu)
           ELSE UNCHANGED <<rx_next, rx_deliv, rx_reord, reorder_queue, reordering_timer, upper_sdus>>
        /\ UNCHANGED <<t_reordering, rx_key>>

HandleTReorderingExpire ==
    LET deliv == AfterConsecutive(reorder_queue, rx_reord, rx_next)
    IN  /\ reordering_timer
        /\ DeliverBelow(reorder_queue, deliv)
        /\ IF deliv < rx_next
           THEN rx_reord' = rx_next /\ UNCHANGED reordering_timer
           ELSE reordering_timer' = FALSE /\ UNCHANGED rx_reord
        /\ UNCHANGED <<t_reordering, rx_next, rx_key, rx_max_count_notified, rx_max_count_overflow>>

\* The bit for a COUNT in the reorder queue is 0, for a missing one 1
ReportBit(count) == IF count \in DOMAIN reorder_queue THEN 0 ELSE 1

CompileStatusReport ==
    LET first == rx_deliv + 1
        end   == IF first < rx_next /\ rx_next - first > MaxReportBits THEN first + MaxReportBits ELSE rx_next
    IN  [fmc  |-> rx_deliv, bits |-> [i \in 1 .. end - first |-> ReportBit(rx_deliv + i)]]

\* SRBs discard what is stored, UM DRBs deliver it, AM DRBs keep it
RxReestablish(key) ==
    LET reset == IsSrb \/ IsUm
    IN  /\ upper_sdus' = IF IsUm THEN upper_sdus \o InOrder(reorder_queue, DOMAIN reorder_queue)
                         ELSE upper_sdus
        /\ reorder_queue' = IF reset THEN << >> ELSE reorder_queue
        /\ reordering_timer' = (reordering_timer /\ ~reset)
        /\ rx_next' = IF reset THEN 0 ELSE rx_next
        /\ rx_deliv' = IF reset THEN 0 ELSE rx_deliv
        /\ rx_reord' = IF reset THEN 0 ELSE rx_reord
        /\ rx_key' = key
        /\ UNCHANGED <<t_reordering, rx_max_count_notified, rx_max_count_overflow>>
=============================================================================
