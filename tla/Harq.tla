-------------------------------- MODULE Harq --------------------------------
(***************************************************************************)
(* The HARQ entity of one UE in one cell of the MAC scheduler              *)
(* (lib/scheduler/ue_scheduling/harq_process.{h,cpp}), driven as the       *)
(* scheduler drives it in every slot: the feedback indications queued      *)
(* since the last slot (ue_event_manager), the slot indication of the UE   *)
(* repository, which also decides whether a UE under removal can go        *)
(* (ue_repository.cpp), and then at most one retransmission and one new    *)
(* transmission per UE (scheduler_time_rr.cpp, ue_cell_grid_allocator.cpp, *)
(* uci_allocator_impl.cpp).  The direction is fixed in the initial state:  *)
(* the downlink is acknowledged by bits of a UCI, found by slot and DAI,   *)
(* the uplink by a CRC, found by HARQ id and slot.  A HARQ has one         *)
(* transport block: tx_2_tb has no caller.                                 *)
(***************************************************************************)
EXTENDS Integers, Sequences, FiniteSets, SequencesExt

CONSTANTS
    NofHarqs,      \* nof_dl_harqs, nof_ul_harqs
    SlotMod,       \* slots of a system frame period: slot_point wraps here
    StartSlot,     \* slot in which the UE was created
    MaxAckWait,    \* max_ack_wait_in_slots
    ShortAckWait,  \* SHORT_ACK_TIMEOUT_DTX
    MaxRetxs,      \* max_nof_harq_retxs
    Delays,        \* k1 candidates (downlink), k2 (uplink)
    DaiMod,        \* DAI_MOD
    UciCapacity,   \* HARQ bits one UCI can carry
    ReportWindow,  \* slots after which the PHY no longer reports a UCI or a CRC
    MaxPdus,       \* indications the PHY sends for one slot (two PUCCH PDUs)
    MaxQueued,     \* indications queued between two slots
    MaxGrants,     \* new transmissions granted in a behaviour (but see MayGrant)
    MaxStarved,    \* slots the scheduler leaves a pending reTx that fits unscheduled
    PuschSymbols,  \* symbols of the PUSCH time-domain resource 0
    Uninitialised, \* what the never assigned nof_symbols of an UL HARQ may hold
    NoHarq

ASSUME HarqAssumption ==
    /\ {NofHarqs, DaiMod, UciCapacity, ShortAckWait} \subseteq Nat \ {0}
    /\ {MaxRetxs, ReportWindow, MaxPdus, MaxQueued, MaxGrants, MaxStarved, PuschSymbols} \subseteq Nat
    /\ MaxAckWait \in Nat /\ ShortAckWait <= MaxAckWait
    /\ Delays \subseteq Nat \ {0} /\ Uninitialised \subseteq Nat
    /\ SlotMod \in Nat /\ SlotMod % 2 = 0 /\ StartSlot \in 0 .. SlotMod - 1
    /\ \A k \in Delays : 2 * (k + MaxAckWait) < SlotMod

VARIABLES
    dir,        \* "dl" or "ul"
    nof_symbols, \* ul_harq_process: last_tx_params().nof_symbols
    phase,      \* where run_slot stands: "events", "retx", "newtx", "end"
    slot,       \* slot_tx
    harq,       \* dl_harqs or ul_harqs
    incoming,   \* indications pushed by the PHY and not yet popped
    events,     \* indications popped for this slot
    uci,        \* per slot, the transmissions to be acknowledged there
    pdus,       \* per slot, the indications the PHY may still send
    grants,     \* new transmissions granted so far
    removal,    \* "no", "requested" (in ues_to_rem) or "done" (UE erased)
    since       \* history: slots from slot_ack of each HARQ to slot_tx (capped)

harq_vars == <<dir, nof_symbols, phase, slot, harq, incoming, events, uci, pdus, grants, removal, since>>

Ids == 0 .. NofHarqs - 1
Slots == 0 .. SlotMod - 1
ToSlot(n) == n % SlotMod

\* slot_point::operator<, whose range of ambiguity is half the period, and the
\* operators built on it.
SlotLess(a, b) ==
    LET v == b - a IN IF v > 0 THEN v < SlotMod \div 2 ELSE v < -(SlotMod \div 2)

SlotGreater(a, b) == a # b /\ ~SlotLess(a, b)

\* Mutant of WaitMore: the two slots are compared as plain numbers.
WaitMoreRaw(h) == h.slot_ack + h.ack_wait > slot

\* The early return of slot_indication: last_slot_ack + ack_wait_in_slots > slot_tx.
WaitMore(h) == SlotGreater(ToSlot(h.slot_ack + h.ack_wait), slot)

\* Mutant of Exceeded: one retransmission too few.
ExceededEarly(h) == h.nof_retxs + 1 >= MaxRetxs

Exceeded(h) == h.nof_retxs + 1 > MaxRetxs

\* harq_process::slot_indication: an unanswered transmission becomes a pending
\* reTx, or is discarded when no reTx is left.
SlotIndication(h) ==
    IF h.state = "empty" \/ WaitMore(h)
    THEN h
    ELSE [h EXCEPT !.state = IF Exceeded(h) THEN "empty" ELSE "pending_retx",
                   !.ack_wait = MaxAckWait]

\* harq_process::ack_info_common, on a HARQ that is not empty.
AckInfoCommon(h, ack) ==
    [h EXCEPT !.state = IF ~ack /\ h.nof_retxs < MaxRetxs THEN "pending_retx" ELSE "empty"]

\* dl_harq_process::ack_info: a DTX only shortens the wait.
AckInfo(h, v) ==
    IF v = "dtx"
    THEN IF h.state = "waiting_ack" THEN [h EXCEPT !.ack_wait = ShortAckWait] ELSE h
    ELSE [AckInfoCommon(h, v = "ack") EXCEPT !.ack_wait = MaxAckWait]

\* Mutant of MatchDl: the DAI is not looked at.
MatchDlSlotOnly(hs, s, dai) == {i \in Ids : hs[i].slot_ack = s /\ hs[i].state # "empty"}

\* The HARQs for which dl_ack_info takes a bit of a UCI; the first one gets it.
MatchDl(hs, s, dai) ==
    {i \in Ids : hs[i].slot_ack = s /\ hs[i].state # "empty" /\ hs[i].dai = dai}

\* The HARQ for which ul_crc_info takes a CRC.
MatchUl(hs, s, id) == {i \in {id} : hs[i].slot_ack = s /\ hs[i].state # "empty"}

\* The HARQ that bit b of an indication for slot s updates, among hs.
Target(hs, s, b) ==
    LET found == IF dir = "dl" THEN MatchDl(hs, s, (b - 1) % DaiMod) ELSE MatchUl(hs, s, uci[s][b].id)
    IN  IF found = {} THEN NoHarq ELSE CHOOSE i \in found : \A j \in found : i <= j

\* handle_harq_ind (every bit in turn) or handle_crc_pdu on indication ev.
HandleIndication(hs, ev) ==
    FoldLeftDomain(LAMBDA cur, b :
                     LET i == Target(cur, ev.slot, b) IN
                     IF i = NoHarq THEN cur
                     ELSE [cur EXCEPT ![i] = IF dir = "dl" THEN AckInfo(@, ev.bits[b])
                                             ELSE AckInfoCommon(@, ev.bits[b] = "ack")],
                   hs, ev.bits)

-----------------------------------------------------------------------------
EmptyHarq == [state |-> "empty", nof_retxs |-> 0, dai |-> 0,
              slot_ack |-> NoHarq, ack_wait |-> MaxAckWait]
NothingReserved == [s \in Slots |-> <<>>]

Init ==
    /\ dir \in {"dl", "ul"}
    /\ nof_symbols \in [Ids -> IF dir = "ul" THEN Uninitialised ELSE {0}]
    /\ phase = "events"
    /\ slot = StartSlot
    /\ harq = [i \in Ids |-> EmptyHarq]
    /\ incoming = <<>> /\ events = <<>>
    /\ uci = NothingReserved
    /\ pdus = [s \in Slots |-> 0]
    /\ grants = 0
    /\ removal = "no"
    /\ since = [i \in Ids |-> 0]

\* process_cell_specific: one popped event; events of an erased UE are dropped.
ProcessEvent ==
    /\ phase = "events" /\ events # <<>>
    /\ events' = Tail(events)
    /\ harq' = IF removal = "done" THEN harq ELSE HandleIndication(harq, Head(events))
    /\ UNCHANGED <<dir, nof_symbols, phase, slot, incoming, uci, pdus, grants, removal, since>>

\* Mutant of ReadyForRemoval: the check of the HARQs is inverted.
ReadyForRemovalInverted == \A i \in Ids : harq[i].state # "empty"

\* is_ue_ready_for_removal.
ReadyForRemoval == \A i \in Ids : harq[i].state = "empty"

\* ue_repository::slot_indication: the UE is erased when its removal was
\* requested and no HARQ is active (what the PHY still reports for it has no
\* effect and is forgotten); otherwise its HARQs see the slot.
UeSlotIndication ==
    /\ phase = "events" /\ events = <<>>
    /\ phase' = "retx"
    /\ IF removal # "no" /\ ReadyForRemoval
       THEN /\ removal' = "done"
            /\ harq' = [i \in Ids |-> EmptyHarq] /\ uci' = NothingReserved
            /\ pdus' = [s \in Slots |-> 0] /\ grants' = 0
       ELSE /\ harq' = [i \in Ids |-> SlotIndication(harq[i])]
            /\ UNCHANGED <<uci, pdus, grants, removal>>
    /\ UNCHANGED <<dir, nof_symbols, slot, incoming, events, since>>

\* The scheduler's choice: the first HARQ in the given state (find_dl, find_ul).
First(state) ==
    LET found == {i \in Ids : harq[i].state = state}
    IN  IF found = {} THEN NoHarq ELSE CHOOSE i \in found : \A j \in found : i <= j

\* Room for one more transmission acknowledged in slot s: alloc_uci_harq_ue in
\* the downlink, has_ue_ul_grant in the uplink.
HasRoom(s) == Len(uci[s]) < IF dir = "dl" THEN UciCapacity ELSE 1

\* The grant reserves a place in the UCI or PUSCH of slot s.  Its number there
\* gives the DAI (uci_allocator_impl).  Bits that concern an earlier
\* transmission of the HARQ are no longer current.
Reserve(i, s) ==
    /\ uci' = [r \in Slots |->
                 LET old == [b \in DOMAIN uci[r] |->
                               IF uci[r][b].id = i THEN [uci[r][b] EXCEPT !.current = FALSE] ELSE uci[r][b]]
                 IN  IF r = s THEN Append(old, [id |-> i, current |-> TRUE]) ELSE old]
    /\ pdus' = [pdus EXCEPT ![s] = MaxPdus]

\* tx_common with new_tx_tb_common (n = 0) or new_retx_tb_common.
Transmit(i, k, n) ==
    LET s == ToSlot(slot + k) IN
    /\ HasRoom(s)
    /\ harq' = [harq EXCEPT ![i] = [state |-> "waiting_ack", nof_retxs |-> n, slot_ack |-> s,
                                    dai |-> IF dir = "dl" THEN Len(uci[s]) % DaiMod ELSE 0,
                                    ack_wait |-> MaxAckWait]]
    /\ since' = [since EXCEPT ![i] = -k]
    /\ Reserve(i, s)

\* The time-domain resource suits a reTx of HARQ i.  In the downlink one with the
\* symbols of the last transmission is looked for; in the uplink resource 0 is
\* taken if its length differs from nof_symbols, which save_alloc_params does
\* not store.
RetxFits(i) == dir = "ul" => PuschSymbols # nof_symbols[i]

ScheduleRetx ==
    /\ phase = "retx" /\ removal # "done"
    /\ phase' = "newtx"
    /\ LET i == First("pending_retx") IN
       /\ i # NoHarq /\ RetxFits(i)
       /\ \E k \in Delays : Transmit(i, k, harq[i].nof_retxs + 1)
    /\ UNCHANGED <<dir, nof_symbols, slot, incoming, events, grants, removal>>

\* No reTx is pending, or it does not fit in this slot.
NoRetx ==
    /\ phase = "retx"
    /\ LET i == First("pending_retx") IN
       i # NoHarq /\ RetxFits(i)
         => \A j \in Ids : harq[j].state = "pending_retx" => since[j] < MaxStarved
    /\ phase' = "newtx"
    /\ UNCHANGED <<dir, nof_symbols, slot, harq, incoming, events, uci, pdus, grants, removal, since>>

\* A UE under removal still gets new transmissions: ue::deactivate leaves the DL
\* SRBs active, set_status of the UL logical channels ignores its argument, and a
\* pending SR is granted.  The bound spares the latter, which may go on for ever.
MayGrant ==
    /\ removal # "done"
    /\ grants < MaxGrants \/ (dir = "ul" /\ removal = "requested")
CountGrant == grants' = Min({grants + 1, MaxGrants})

ScheduleNewTx ==
    /\ phase = "newtx" /\ MayGrant /\ CountGrant
    /\ phase' = "end"
    /\ LET i == First("empty") IN
       /\ i # NoHarq
       /\ \E k \in Delays : Transmit(i, k, 0)
    /\ UNCHANGED <<dir, nof_symbols, slot, incoming, events, removal>>

\* allocate_dl_grant gives up after the UCI was allocated (no MCS fits): the
\* place in the UCI stays taken and belongs to no transmission.
GrantFailsAfterUci ==
    /\ phase = "newtx" /\ dir = "dl" /\ MayGrant /\ CountGrant
    /\ phase' = "end"
    /\ First("empty") # NoHarq
    /\ \E k \in Delays : LET s == ToSlot(slot + k) IN HasRoom(s) /\ Reserve(NoHarq, s)
    /\ UNCHANGED <<dir, nof_symbols, slot, harq, incoming, events, removal, since>>

NoNewTx ==
    /\ phase = "newtx"
    /\ phase' = "end"
    /\ UNCHANGED <<dir, nof_symbols, slot, harq, incoming, events, uci, pdus, grants, removal, since>>

\* The next slot: the queued indications are popped (slot_event_list).  The PHY
\* forgets the slot that leaves its report window, and so do the empty HARQs:
\* their fields are not read any more.
NextSlot ==
    /\ phase = "end"
    /\ phase' = "events"
    /\ slot' = ToSlot(slot + 1)
    /\ events' = incoming /\ incoming' = <<>>
    /\ pdus' = [pdus EXCEPT ![ToSlot(slot - ReportWindow)] = 0]
    /\ uci' = [uci EXCEPT ![ToSlot(slot - ReportWindow - 1)] = <<>>]
    /\ harq' = [i \in Ids |-> IF harq[i].state = "empty" /\ since[i] > ReportWindow THEN EmptyHarq ELSE harq[i]]
    /\ since' = [i \in Ids |-> IF harq'[i] = EmptyHarq THEN 0 ELSE Min({since[i] + 1, SlotMod})]
    /\ UNCHANGED <<dir, nof_symbols, grants, removal>>

\* The PHY thread pushes an indication for a past slot.  It may be late,
\* repeated or never come; what it reports is arbitrary.  (It commutes with
\* every step but NextSlot, so the phase fixes no order.)
PhyReport(s) ==
    /\ phase = "end"
    /\ pdus[s] > 0 /\ Len(incoming) < MaxQueued
    /\ s = slot \/ SlotLess(s, slot)
    /\ pdus' = [pdus EXCEPT ![s] = @ - 1]
    /\ \E bits \in [DOMAIN uci[s] -> IF dir = "dl" THEN {"ack", "nack", "dtx"} ELSE {"ack", "nack"}] :
         incoming' = Append(incoming, [slot |-> s, bits |-> bits])
    /\ UNCHANGED <<dir, nof_symbols, phase, slot, harq, events, uci, grants, removal, since>>

\* schedule_ue_rem, an event of the common list.
RequestRemoval ==
    /\ phase = "events" /\ removal = "no"
    /\ removal' = "requested"
    /\ UNCHANGED <<dir, nof_symbols, phase, slot, harq, incoming, events, uci, pdus, grants, since>>

RunSlot ==
    \/ ProcessEvent \/ UeSlotIndication
    \/ ScheduleRetx \/ NoRetx
    \/ ScheduleNewTx \/ GrantFailsAfterUci \/ NoNewTx
    \/ NextSlot

Next == RunSlot \/ RequestRemoval \/ \E s \in Slots : PhyReport(s)

Spec == Init /\ [][Next]_harq_vars

\* The slot loop never stops.  Nothing is assumed of the PHY.
FairSpec == Spec /\ WF_harq_vars(RunSlot)

-----------------------------------------------------------------------------
\* dl_ack_info and ul_crc_info apply a reported bit to the HARQ it is directed
\* to, and only while the bit is about the HARQ's latest transmission: a late or
\* repeated report never reaches another HARQ nor a later transmission.
FeedbackReachesItsHarq ==
    \A s \in Slots : \A b \in DOMAIN uci[s] :
        LET i == Target(harq, s, b) IN
        /\ i # NoHarq => uci[s][b] = [id |-> i, current |-> TRUE]
        /\ uci[s][b].current /\ uci[s][b].id # NoHarq /\ harq[uci[s][b].id].state # "empty"
             => i = uci[s][b].id

\* A transport block is given up only when its current transmission was
\* acknowledged or all its retransmissions were used (ack_info_common,
\* slot_indication).
Acknowledged(i) ==
    /\ phase = "events" /\ events # <<>>
    /\ LET ev == Head(events) IN
       \E b \in DOMAIN ev.bits : ev.bits[b] = "ack" /\ uci[ev.slot][b] = [id |-> i, current |-> TRUE]

DiscardJustified ==
    [][\A i \in Ids :
         harq[i].state # "empty" /\ harq'[i].state = "empty"
           => Acknowledged(i) \/ harq[i].nof_retxs = MaxRetxs]_harq_vars

\* After the slot indication a HARQ still waits only while its wait has not
\* passed, counted in slots that really went by, across the wrap of slot_point;
\* and it gives up waiting without feedback only once the wait has passed.
WaitEndsOnTime ==
    [][\A i \in Ids :
         phase = "events" /\ phase' = "retx" /\ harq[i].state = "waiting_ack"
           => (harq'[i].state = "waiting_ack" <=> since[i] < harq[i].ack_wait)]_harq_vars

\* A UE whose removal is requested is erased, whatever feedback is lost
\* (ue_repository::slot_indication, is_ue_ready_for_removal), unless it is granted
\* new transmissions for ever, or an uplink reTx is refused because nof_symbols,
\* never assigned, happens to be the length of the PUSCH.
RemovalCompletes ==
    \/ []<><<ScheduleNewTx>>_harq_vars
    \/ removal = "requested" ~> removal = "done" \/ \E i \in Ids : harq[i].state = "pending_retx" /\ ~RetxFits(i)
=============================================================================
