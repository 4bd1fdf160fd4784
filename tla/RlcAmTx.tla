------------------------------- MODULE RlcAmTx -------------------------------
(***************************************************************************)
(* Transmitting side of an RLC AM entity (lib/rlc/rlc_tx_am_entity.{h,cpp},*)
(* rlc_retx_queue.h, rlc_sdu_queue.h).                                     *)
(*                                                                         *)
(* SDUs 1, 2, ... are queued by PDCP, which may discard them again.  The   *)
(* MAC pulls a PDU for each grant: a retransmission, the next segment of   *)
(* the SDU under segmentation, or a new SDU.  STATUS PDUs of the peer      *)
(* release SDUs or queue retransmissions; t-PollRetransmit asks for a      *)
(* missing STATUS PDU.  pull_pdu, handle_status_pdu and the timer handler  *)
(* hold the entity's mutex: each is one action.  PDUs go to data_ch, the   *)
(* radio link to the peer.  A failed srsran_assert sets tx_aborted.        *)
(***************************************************************************)
EXTENDS RlcAmPdu

CONSTANTS
    HeadMin,       \* head_min_size: header without segment offset
    HeadMax,       \* head_max_size: header with segment offset
    Grants,        \* grant sizes of the MAC
    PollPdu,       \* cfg.poll_pdu, 0 if not used
    PollByte,      \* cfg.poll_byte, 0 if not used
    MaxRetxThresh, \* cfg.max_retx_thresh
    QueueSize,     \* capacity of the SDU queue
    MaxSdus,       \* bound: SDUs that PDCP submits
    MayDiscard,    \* bound: SDUs that PDCP may discard
    ChannelSize    \* bound: PDUs in flight to the peer

ASSUME HeaderAssumption == HeadMin \in Nat /\ HeadMax \in Nat /\ HeadMin < HeadMax
ASSUME GrantsAssumption == Grants \subseteq Nat

VARIABLES
    tx_next_ack, tx_next, poll_sn,       \* rlc_tx_am_state ...
    pdu_without_poll, byte_without_poll,
    sdu_queue,              \* SDUs not sent yet; Discarded where PDCP discarded one
    sn_under_segmentation,
    retx_queue,             \* sequence of [sn, so, length]
    tx_window,              \* SN -> [id, next_so, retx_count]
    poll_retransmit_timer,  \* t-PollRetransmit is running
    poll_expired,           \* is_poll_retransmit_timer_expired
    max_retx,               \* on_max_retx was reported to the upper layer
    n_sdus,                 \* SDUs submitted by PDCP
    delivered_sdu,          \* argument of the last on_delivered_sdu, 0 if none
    tx_aborted,             \* a run-time assertion failed
    data_ch                 \* AMD PDUs in flight

tx_poll == <<poll_sn, pdu_without_poll, byte_without_poll, poll_retransmit_timer, poll_expired>>

tx_vars == <<tx_next_ack, tx_next, tx_poll, sdu_queue, sn_under_segmentation, retx_queue,
             tx_window, max_retx, n_sdus, delivered_sdu, tx_aborted, data_ch>>

Discarded == 0

RetxNotStarted == -1

TxInit ==
    /\ tx_next_ack = 0 /\ tx_next = 0 /\ poll_sn = 0
    /\ pdu_without_poll = 0 /\ byte_without_poll = 0
    /\ sdu_queue = << >>
    /\ sn_under_segmentation = InvalidSn
    /\ retx_queue = << >>
    /\ tx_window = [sn \in {} |-> 0]
    /\ poll_retransmit_timer = FALSE /\ poll_expired = FALSE
    /\ max_retx = FALSE
    /\ n_sdus = 0
    /\ delivered_sdu = 0
    /\ tx_aborted = FALSE
    /\ data_ch = << >>

-----------------------------------------------------------------------------
(* The upper layer *)

\* handle_sdu: the SDU is lost when the queue is full
HandleSdu ==
    /\ ~tx_aborted
    /\ n_sdus < MaxSdus
    /\ n_sdus' = n_sdus + 1
    /\ sdu_queue' = IF Len(sdu_queue) < QueueSize THEN Append(sdu_queue, n_sdus') ELSE sdu_queue
    /\ UNCHANGED <<tx_next_ack, tx_next, tx_poll, sn_under_segmentation, retx_queue, tx_window,
                   max_retx, delivered_sdu, tx_aborted, data_ch>>

\* Mutant of DiscardSdu: an SDU counts as discarded although it was sent
DiscardSduLate(id) ==
    /\ ~tx_aborted
    /\ id <= n_sdus
    /\ sdu_queue' = SelectSeq(sdu_queue, LAMBDA s : s # id)
    /\ UNCHANGED <<tx_next_ack, tx_next, tx_poll, sn_under_segmentation, retx_queue, tx_window,
                   max_retx, n_sdus, delivered_sdu, tx_aborted, data_ch>>

\* discard_sdu: an SDU that is still queued is emptied in place
DiscardSdu(id) ==
    /\ ~tx_aborted
    /\ \E i \in DOMAIN sdu_queue : /\ sdu_queue[i] = id
                                   /\ sdu_queue' = [sdu_queue EXCEPT ![i] = Discarded]
    /\ UNCHANGED <<tx_next_ack, tx_next, tx_poll, sn_under_segmentation, retx_queue, tx_window,
                   max_retx, n_sdus, delivered_sdu, tx_aborted, data_ch>>

-----------------------------------------------------------------------------
(* Polling *)

\* Mutant of Full: off by one
FullTooLate == Cardinality(DOMAIN tx_window) = Window + 1

Full == Cardinality(DOMAIN tx_window) = Window

\* The condition of get_polling_bit and of on_expired_poll_retransmit_timer
NothingToSend == \/ /\ sdu_queue = << >>
                    /\ retx_queue = << >>
                    /\ sn_under_segmentation = InvalidSn
                 \/ Full

\* Mutant of PollBit: no poll when the buffers become empty
PollBitWhileBusy(is_retx, payload_size) ==
    \/ ~is_retx /\ PollPdu > 0 /\ pdu_without_poll + 1 >= PollPdu
    \/ ~is_retx /\ PollByte > 0 /\ byte_without_poll + payload_size >= PollByte
    \/ poll_expired

\* The poll bit that get_polling_bit returns once the queues were updated
PollBit(is_retx, payload_size) ==
    \/ ~is_retx /\ PollPdu > 0 /\ pdu_without_poll + 1 >= PollPdu
    \/ ~is_retx /\ PollByte > 0 /\ byte_without_poll + payload_size >= PollByte
    \/ NothingToSend'
    \/ poll_expired

get_polling_bit(sn, is_retx, payload_size) ==
    LET poll == PollBit(is_retx, payload_size)
    IN  /\ pdu_without_poll' = IF poll THEN 0
                               ELSE pdu_without_poll + (IF is_retx THEN 0 ELSE 1)
        /\ byte_without_poll' = IF poll THEN 0
                                ELSE byte_without_poll + (IF is_retx THEN 0 ELSE payload_size)
        /\ poll_sn' = IF poll /\ ~is_retx THEN sn ELSE poll_sn
        /\ poll_retransmit_timer' = (poll \/ poll_retransmit_timer)
        /\ poll_expired' = FALSE

\* The PDU goes out with the poll bit; payload_size is the byte count that the
\* caller passes to get_polling_bit
Send(sn, si, so, len, id, is_retx, payload_size) ==
    /\ data_ch' = Append(data_ch, [sn |-> sn, p |-> PollBit(is_retx, payload_size), si |-> si,
                                   so |-> so, len |-> len, id |-> id])
    /\ get_polling_bit(sn, is_retx, payload_size)

SendNothing == UNCHANGED <<tx_poll, data_ch>>

-----------------------------------------------------------------------------
(* pull_pdu *)

\* add_sn on the circular map: another SN in the same slot is overwritten
AddSn(window, sn, entry) ==
    [s \in {t \in DOMAIN window : t % Window # sn % Window} \union {sn} |->
        IF s = sn THEN entry ELSE window[s]]

\* Mutant of TxNextAfter: TX_Next is not updated
TxNextKept(complete) == tx_next

\* TX_Next after a PDU with SN = TX_Next that does or does not complete its SDU
TxNextAfter(complete) == IF complete THEN (tx_next + 1) % Mod ELSE tx_next

\* What rlc_sdu_queue::read leaves after popping discarded SDUs and the SDU it returns
Unread == SelectInSeq(sdu_queue, LAMBDA id : id # Discarded)

\* build_new_pdu and build_first_sdu_segment.  For a whole SDU the code passes the
\* length of a buffer it has moved from, 0, to get_polling_bit.
BuildNewPdu(grant) ==
    /\ grant > HeadMin
    /\ ~Full
    /\ sdu_queue # << >>
    /\ IF Unread = 0
       THEN /\ sdu_queue' = << >>
            /\ sn_under_segmentation' = InvalidSn
            /\ SendNothing
            /\ UNCHANGED <<tx_next, tx_window, retx_queue, tx_aborted>>
       ELSE LET id == sdu_queue[Unread]
                whole == SduLen + HeadMin <= grant
                len == IF whole THEN SduLen ELSE grant - HeadMin
            IN  /\ sdu_queue' = SubSeq(sdu_queue, Unread + 1, Len(sdu_queue))
                /\ tx_aborted' = (tx_next \in DOMAIN tx_window)
                /\ tx_window' = AddSn(tx_window, tx_next,
                                      [id |-> id, next_so |-> IF whole THEN 0 ELSE len,
                                       retx_count |-> RetxNotStarted])
                /\ sn_under_segmentation' = IF whole THEN InvalidSn ELSE tx_next
                /\ tx_next' = TxNextAfter(whole)
                /\ UNCHANGED retx_queue
                /\ Send(tx_next, IF whole THEN "full_sdu" ELSE "first_segment", 0, len, id,
                        FALSE, IF whole THEN 0 ELSE len)

\* Mutant of BuildContinuedSduSegment: < instead of <= when the rest just fits
BuildContinuedSduSegmentTight(grant) ==
    LET sdu == tx_window[sn_under_segmentation]
        rest == SduLen - sdu.next_so
        last == rest + HeadMax < grant
        len == IF last THEN rest ELSE grant - HeadMax
    IN  /\ grant > HeadMax
        /\ sn_under_segmentation' = IF last THEN InvalidSn ELSE sn_under_segmentation
        /\ tx_window' = [tx_window EXCEPT ![sn_under_segmentation].next_so = @ + len]
        /\ tx_next' = TxNextAfter(last)
        /\ UNCHANGED <<sdu_queue, retx_queue, tx_aborted>>
        /\ Send(tx_next, IF last THEN "last_segment" ELSE "middle_segment", sdu.next_so, len,
                sdu.id, FALSE, len)

\* build_continued_sdu_segment
BuildContinuedSduSegment(grant) ==
    LET sdu == tx_window[sn_under_segmentation]
        rest == SduLen - sdu.next_so
        last == rest + HeadMax <= grant
        len == IF last THEN rest ELSE grant - HeadMax
    IN  /\ grant > HeadMax
        /\ sn_under_segmentation' = IF last THEN InvalidSn ELSE sn_under_segmentation
        /\ tx_window' = [tx_window EXCEPT ![sn_under_segmentation].next_so = @ + len]
        /\ tx_next' = TxNextAfter(last)
        /\ UNCHANGED <<sdu_queue, retx_queue, tx_aborted>>
        /\ Send(tx_next, IF last THEN "last_segment" ELSE "middle_segment", sdu.next_so, len,
                sdu.id, FALSE, len)

\* The segmentation info of a retransmission, from its offset and from whether
\* the grant holds all of the queued range
RetxSi(retx, complete) ==
    CASE retx.so = 0 /\ complete  -> "full_sdu"
      [] retx.so = 0 /\ ~complete -> "first_segment"
      [] retx.so # 0 /\ complete  -> "last_segment"
      [] OTHER                    -> "middle_segment"

\* build_retx_pdu: entries of released SDUs are dropped from the front first
BuildRetxPdu(grant) ==
    LET live == SelectInSeq(retx_queue, LAMBDA r : r.sn \in DOMAIN tx_window)
        retx == retx_queue[live]
        rest == SubSeq(retx_queue, live + 1, Len(retx_queue))
        header == IF retx.so = 0 THEN HeadMin ELSE HeadMax
        len == Min({retx.length, grant - header})
        complete == len = retx.length
    IN  /\ UNCHANGED <<tx_next, sdu_queue, sn_under_segmentation, tx_window, tx_aborted>>
        /\ \/ /\ live = 0
              /\ retx_queue' = << >>
              /\ SendNothing
           \/ /\ live # 0
              /\ grant <= header
              /\ retx_queue' = <<retx>> \o rest
              /\ SendNothing
           \/ /\ live # 0
              /\ grant > header
              /\ retx_queue' = IF complete THEN rest
                               ELSE <<[retx EXCEPT !.so = @ + len, !.length = @ - len]>> \o rest
              /\ Send(retx.sn, RetxSi(retx, complete), retx.so, len, tx_window[retx.sn].id, TRUE, 0)

\* The data part of pull_pdu.  An SDU under segmentation that was released
\* meanwhile is forgotten, and the next SDU is sent.
PullPdu(grant) ==
    /\ ~tx_aborted
    /\ Len(data_ch) < ChannelSize
    /\ \/ retx_queue # << >> /\ BuildRetxPdu(grant)
       \/ /\ retx_queue = << >>
          /\ sn_under_segmentation \in DOMAIN tx_window
          /\ BuildContinuedSduSegment(grant)
       \/ /\ retx_queue = << >>
          /\ sn_under_segmentation \notin DOMAIN tx_window
          /\ BuildNewPdu(grant)
       \/ /\ retx_queue = << >>
          /\ sn_under_segmentation \notin DOMAIN tx_window \union {InvalidSn}
          /\ sdu_queue = << >> \/ Full \/ grant <= HeadMin
          /\ sn_under_segmentation' = InvalidSn
          /\ SendNothing
          /\ UNCHANGED <<tx_next, sdu_queue, retx_queue, tx_window, tx_aborted>>
    /\ UNCHANGED <<tx_next_ack, max_retx, n_sdus, delivered_sdu>>

-----------------------------------------------------------------------------
(* handle_status_pdu *)

\* inside_tx_window, valid_ack_sn
inside_tx_window(sn) == ModBase(sn, tx_next_ack) < Window

tx_valid_ack_sn(sn) == ModBase(sn, tx_next_ack) \in 1 .. Window

LastSn(nack) == (nack.nack_sn + RangeOf(nack) - 1) % Mod

valid_nack(ack_sn, nack) ==
    \A sn \in {nack.nack_sn, LastSn(nack)} :
        /\ ModBase(sn, tx_next_ack) < ModBase(ack_sn, tx_next_ack)
        /\ inside_tx_window(sn)
        /\ ModBase(sn, tx_next_ack) <= ModBase(tx_next, tx_next_ack)

\* A report outside the window, about SDUs not sent yet or with an impossible
\* NACK is ignored as a whole
ValidStatus(status) ==
    /\ tx_valid_ack_sn(status.ack_sn)
    /\ ModBase(status.ack_sn, tx_next_ack) <= ModBase(tx_next + 1, tx_next_ack)
    /\ \A nack \in ToSet(status.nacks) : valid_nack(status.ack_sn, nack)

\* Mutant of AckedSns: SDUs below ACK_SN are released although they are NACKed
AckedSnsOverNacks(status) ==
    LET n == ModBase(status.ack_sn, tx_next_ack)
        Sn(k) == (tx_next_ack + k) % Mod
    IN  SelectSeq([k \in 1 .. n |-> Sn(k - 1)], LAMBDA sn : sn \in DOMAIN tx_window)

\* The SNs that the ACK loop releases, in order: up to the first NACK or ACK_SN,
\* or to an SN that is not in the window
AckedSns(status) ==
    LET stop_sn == IF status.nacks = << >> THEN status.ack_sn ELSE Head(status.nacks).nack_sn
        Sn(k) == (tx_next_ack + k) % Mod
        n == Min({k \in 0 .. Mod : k >= ModBase(stop_sn, tx_next_ack) \/ Sn(k) \notin DOMAIN tx_window})
    IN  [k \in 1 .. n |-> Sn(k - 1)]

\* remove_sn takes out the first entry of the SN only
remove_sn(queue, sn) == RemoveFirstMatch(queue, LAMBDA r : r.sn = sn)

\* A NACK split into one NACK per SDU; the split stops at ACK_SN
SingleNacks(nack, ack_sn) ==
    LET Sn(k) == (nack.nack_sn + k) % Mod
        n == Min({k \in 0 .. RangeOf(nack) : k = RangeOf(nack) \/ (nack.has_nack_range /\ Sn(k) = ack_sn)})
        start(k) == IF nack.has_so /\ k = 0 THEN nack.so_start ELSE 0
        end(k) == IF nack.has_so /\ k = RangeOf(nack) - 1 THEN nack.so_end ELSE SoEndOfSdu
    IN  [k \in 1 .. n |-> [sn |-> Sn(k - 1), start |-> start(k - 1), end |-> end(k - 1)]]

\* handle_nack: acc.queue is the retransmission queue, acc.sns the SNs queued for
\* retransmission; the window is read without a check
handle_nack(acc, nack, window, next_ack) ==
    LET so_end == IF nack.end >= SduLen THEN SduLen - 1 ELSE nack.end
        so_start == IF nack.start > so_end \/ nack.start >= SduLen THEN 0 ELSE nack.start
        retx == [sn |-> nack.sn, so |-> so_start, length |-> so_end - so_start + 1]
        queued == \E r \in ToSet(acc.queue) : /\ r.sn = retx.sn
                                              /\ retx.so >= r.so
                                              /\ retx.so + retx.length <= r.so + r.length
    IN  CASE ModBase(nack.sn, next_ack) > ModBase(tx_next, next_ack) -> acc
          [] nack.sn \notin DOMAIN window -> [acc EXCEPT !.aborted = TRUE]
          [] queued -> acc
          [] OTHER -> [acc EXCEPT !.queue = Append(@, retx), !.sns = @ \union {nack.sn}]

HandleStatusPdu(status) ==
    LET acked == AckedSns(status)
        next_ack == (tx_next_ack + Len(acked)) % Mod
        window == [sn \in DOMAIN tx_window \ ToSet(acked) |-> tx_window[sn]]
        nacks == FlattenSeq([i \in DOMAIN status.nacks |-> SingleNacks(status.nacks[i], status.ack_sn)])
        retx == FoldLeft(LAMBDA acc, nack : handle_nack(acc, nack, window, next_ack),
                         [queue |-> FoldLeft(remove_sn, retx_queue, acked), sns |-> {},
                          aborted |-> FALSE],
                         nacks)
        \* retx_count is not followed beyond the threshold
        Count(sn) == IF sn \in retx.sns /\ window[sn].retx_count <= MaxRetxThresh
                     THEN window[sn].retx_count + 1 ELSE window[sn].retx_count
    IN  /\ ~tx_aborted
        /\ \/ /\ ~ValidStatus(status)
              /\ UNCHANGED tx_vars
           \/ /\ ValidStatus(status)
              /\ tx_next_ack' = next_ack
              /\ retx_queue' = retx.queue
              /\ tx_window' = [sn \in DOMAIN window |-> [window[sn] EXCEPT !.retx_count = Count(sn)]]
              /\ tx_aborted' = retx.aborted
              /\ max_retx' = (max_retx \/ \E sn \in retx.sns : Count(sn) = MaxRetxThresh)
              /\ delivered_sdu' = IF acked = << >> THEN delivered_sdu ELSE tx_window[Last(acked)].id
              /\ poll_retransmit_timer' =
                    (poll_retransmit_timer /\ ModBase(poll_sn, tx_next_ack) >= ModBase(status.ack_sn, tx_next_ack))
              /\ UNCHANGED <<tx_next, poll_sn, pdu_without_poll, byte_without_poll, poll_expired,
                             sdu_queue, sn_under_segmentation, n_sdus, data_ch>>

-----------------------------------------------------------------------------
(* t-PollRetransmit expires: the oldest unacknowledged SDU is queued again if *)
(* there is nothing else to send                                              *)

OnExpiredPollRetransmitTimer ==
    LET ready == ~NothingToSend \/ tx_next_ack \in DOMAIN tx_window
    IN  /\ ~tx_aborted
        /\ poll_retransmit_timer
        /\ poll_retransmit_timer' = FALSE
        /\ poll_expired' = (poll_expired \/ ready)
        /\ retx_queue' = IF NothingToSend /\ ready
                         THEN Append(retx_queue, [sn |-> tx_next_ack, so |-> 0, length |-> SduLen])
                         ELSE retx_queue
        /\ UNCHANGED <<tx_next_ack, tx_next, poll_sn, pdu_without_poll, byte_without_poll, sdu_queue,
                       sn_under_segmentation, tx_window, max_retx, n_sdus, delivered_sdu, tx_aborted, data_ch>>

=============================================================================
