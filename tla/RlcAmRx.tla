------------------------------- MODULE RlcAmRx -------------------------------
(***************************************************************************)
(* Receiving side of an RLC AM entity (lib/rlc/rlc_rx_am_entity.{h,cpp}).  *)
(*                                                                         *)
(* The entity stores AMD PDUs in a reception window, delivers every SDU as *)
(* soon as its bytes are complete, watches for losses with t-Reassembly    *)
(* and keeps a STATUS report ready for the transmitting side to pull.      *)
(*                                                                         *)
(* Each action is one task of the UE executor, or the pull of a STATUS PDU *)
(* by the cell executor.  A failed srsran_assert ends the program: it sets *)
(* rx_aborted.                                                             *)
(***************************************************************************)
EXTENDS RlcAmPdu

CONSTANT
    StatusProhibit \* whether t-StatusProhibit is configured (greater than 0)

ASSUME StatusProhibitAssumption == StatusProhibit \in BOOLEAN

VARIABLES
    rx_next,                \* lower edge of the window
    rx_next_status_trigger, \* SN following the one that started t-Reassembly
    rx_highest_status,      \* highest SN a STATUS PDU may acknowledge
    rx_next_highest,        \* SN following the highest one received
    rx_window,              \* SN -> [fully_received, has_gap, segments]
    reassembly_timer,       \* t-Reassembly is running
    do_status,              \* a STATUS PDU was requested
    status_report,          \* cached report: [ack_sn, nacks]
    status_prohibit_timer,  \* status_prohibit_timer_is_running
    rx_aborted              \* a run-time assertion failed

rx_state == <<rx_next, rx_next_status_trigger, rx_highest_status, rx_next_highest,
              rx_window, reassembly_timer>>

rx_vars == <<rx_state, do_status, status_report, status_prohibit_timer, rx_aborted>>

NoSn == [sn \in {} |-> 0]

RxInit ==
    /\ rx_next = 0
    /\ rx_next_status_trigger = 0
    /\ rx_highest_status = 0
    /\ rx_next_highest = 0
    /\ rx_window = NoSn
    /\ reassembly_timer = FALSE
    /\ do_status = FALSE
    /\ status_report = [ack_sn |-> 0, nacks |-> << >>]
    /\ status_prohibit_timer = FALSE
    /\ rx_aborted = FALSE

-----------------------------------------------------------------------------
(* Segments of one SDU: a set of [so, len, si, id] that is read in the     *)
(* order of so, as the std::set of the code is.                            *)

LastByte(seg) == seg.so + seg.len - 1

\* Mutant of StoreStep: a stored segment that overlaps the end of the new one is dropped as a whole
StoreStepDropsRest(acc, cur) ==
    LET new == acc.new
        new_last == LastByte(new)
        cur_last == LastByte(cur)
        keep == [acc EXCEPT !.kept = @ \union {cur}]
        from(seg, so) == [seg EXCEPT !.so = so, !.len = LastByte(seg) + 1 - so]
    IN  CASE acc.exit # "no" \/ new.so > cur_last -> keep
          [] acc.exit = "no" /\ new.so \in cur.so .. cur_last ->
                 IF new_last <= cur_last THEN [keep EXCEPT !.exit = "discard"]
                 ELSE [keep EXCEPT !.new = from(new, cur_last + 1)]
          [] OTHER -> IF new_last < cur.so THEN [keep EXCEPT !.exit = "break"] ELSE acc

\* One round of the loop of store_segment, against the stored segment cur.
\* acc.new is the new segment, acc.kept the stored ones that stay,
\* acc.exit the way the loop was left: "no", "break" or "discard".
StoreStep(acc, cur) ==
    LET new == acc.new
        new_last == LastByte(new)
        cur_last == LastByte(cur)
        keep == [acc EXCEPT !.kept = @ \union {cur}]
        from(seg, so) == [seg EXCEPT !.so = so, !.len = LastByte(seg) + 1 - so]
    IN  CASE acc.exit # "no" \/ new.so > cur_last -> keep
          [] acc.exit = "no" /\ new.so \in cur.so .. cur_last ->
                 IF new_last <= cur_last THEN [keep EXCEPT !.exit = "discard"]
                 ELSE [keep EXCEPT !.new = from(new, cur_last + 1)]
          [] acc.exit = "no" /\ new.so < cur.so ->
                 CASE new_last < cur.so -> [keep EXCEPT !.exit = "break"]
                   [] new_last \in cur.so .. cur_last - 1 ->
                          [acc EXCEPT !.kept = @ \union {from(cur, new_last + 1)}, !.exit = "break"]
                   [] OTHER -> acc

\* Mutant of store_segment: overlaps are kept
store_segment_overlapping(segments, new_segment) ==
    [segments |-> segments \union {new_segment}, stored |-> TRUE]

\* store_segment: the segments after it, and whether the new one was stored
store_segment(segments, new_segment) ==
    LET end == FoldLeft(StoreStep, [new |-> new_segment, kept |-> {}, exit |-> "no"],
                        InOrder(segments))
    IN  IF end.exit = "discard" THEN [segments |-> end.kept, stored |-> FALSE]
        ELSE [segments |-> end.kept \union {end.new}, stored |-> TRUE]

\* Bytes in [0, b) that no segment has
MissingBefore(segments, b) ==
    {x \in 0 .. b - 1 : \A s \in segments : x < s.so \/ x > LastByte(s)}

\* update_segment_inventory walks the segments until the first gap or the last segment
HasGap(segments) ==
    \E s \in segments : /\ MissingBefore(segments, s.so) # {}
                        /\ ~ \E l \in segments : /\ l.si = "last_segment"
                                                 /\ l.so < s.so
                                                 /\ MissingBefore(segments, l.so) = {}

FullyReceived(segments) ==
    \E l \in segments : l.si = "last_segment" /\ MissingBefore(segments, l.so) = {}

\* The SDU assembled from segments that were found complete
Assemble(segments) ==
    IF /\ Cardinality({s.id : s \in segments}) = 1
       /\ FoldLeft(LAMBDA n, s : n + s.len, 0, SetToSeq(segments)) = SduLen
    THEN (CHOOSE s \in segments : TRUE).id
    ELSE Corrupt

-----------------------------------------------------------------------------
(* The window *)

inside_rx_window(sn, edge) == ModBase(sn, edge) < Window

valid_ack_sn(sn) == ModBase(sn, rx_next) \in 1 .. Window

Received(window, sn) == sn \in DOMAIN window /\ window[sn].fully_received

Gap(window, sn) == sn \in DOMAIN window /\ window[sn].has_gap

\* Mutant of FirstNotReceived: jumps to rx_next_highest over missing SDUs
FirstNotReceivedJump(window, from, highest) == highest

\* The loops over SNs that start at `from' and stop at the first SDU that is
\* not fully received, or at rx_next_highest = highest
FirstNotReceived(window, from, highest) ==
    LET first == ModBase(from, rx_next)
        last  == ModBase(highest, rx_next)
        Stops(k) == k >= last \/ ~Received(window, (rx_next + k) % Mod)
    IN  (rx_next + Min({k \in first .. first + last : Stops(k)})) % Mod

\* handle_full_data_sdu and handle_segment_data_sdu: the new entry for pdu.sn,
\* whether the report changes, and the SDU if it is complete
StorePdu(pdu) ==
    LET old == IF pdu.sn \in DOMAIN rx_window THEN rx_window[pdu.sn].segments ELSE {}
        seg == [so |-> pdu.so, len |-> pdu.len, si |-> pdu.si, id |-> pdu.id]
        result == store_segment(old, seg)
        done == FullyReceived(result.segments)
    IN  IF pdu.si = "full_sdu"
        THEN [entry |-> [fully_received |-> TRUE, has_gap |-> FALSE, segments |-> {}],
              stored |-> TRUE, sdu |-> Assemble({seg})]
        ELSE [entry |-> [fully_received |-> done,
                         has_gap |-> HasGap(result.segments),
                         segments |-> IF done THEN {} ELSE result.segments],
              stored |-> result.stored,
              sdu |-> Assemble(result.segments)]

-----------------------------------------------------------------------------
(* The STATUS report *)

\* Mutant of Report: the loop starts after rx_next
ReportSkipsEdge(window, next, highest_status) ==
    LET NacksFor(sn) == CASE Received(window, sn)      -> << >>
                          [] sn \notin DOMAIN window   -> <<NackSdu(sn)>>
                          [] OTHER                     -> SegmentNacks(sn, window[sn].segments)
        sns == [k \in 1 .. ModBase(highest_status, next) - 1 |-> (next + k) % Mod]
    IN  [ack_sn |-> highest_status,
         nacks  |-> FoldLeft(LAMBDA nacks, sn : PushNacks(nacks, NacksFor(sn)), << >>, sns)]

\* refresh_status_report, given the state it reads
Report(window, next, highest_status) ==
    LET NacksFor(sn) == CASE Received(window, sn)      -> << >>
                          [] sn \notin DOMAIN window   -> <<NackSdu(sn)>>
                          [] OTHER                     -> SegmentNacks(sn, window[sn].segments)
        sns == [k \in 1 .. ModBase(highest_status, next) |-> (next + k - 1) % Mod]
    IN  [ack_sn |-> highest_status,
         nacks  |-> FoldLeft(LAMBDA nacks, sn : PushNacks(nacks, NacksFor(sn)), << >>, sns)]

\* status_report_required
status_report_required == do_status /\ ~status_prohibit_timer

-----------------------------------------------------------------------------
(* Actions *)

\* Mutant of Accepts: SDUs that are complete are received again
AcceptsDuplicates(pdu) == inside_rx_window(pdu.sn, rx_next)

\* The conditions under which handle_data_pdu stores a PDU
Accepts(pdu) == /\ inside_rx_window(pdu.sn, rx_next)
                /\ ~Received(rx_window, pdu.sn)

\* The SDUs (none or one) that handle_data_pdu(pdu) hands to the upper layer
Delivers(pdu) ==
    IF Accepts(pdu) /\ StorePdu(pdu).entry.fully_received THEN <<StorePdu(pdu).sdu>> ELSE << >>

\* The poll bit asks for a STATUS PDU, before any check of the PDU
StatusRequested(pdu) == do_status \/ pdu.p

\* Mutant of NextHighest: > instead of >=
NextHighestStrict(sn) ==
    IF ModBase(sn, rx_next) > ModBase(rx_next_highest, rx_next)
    THEN (sn + 1) % Mod ELSE rx_next_highest

\* rx_next_highest after PDU sn was stored
NextHighest(sn) ==
    IF ModBase(sn, rx_next) >= ModBase(rx_next_highest, rx_next)
    THEN (sn + 1) % Mod ELSE rx_next_highest

\* handle_data_pdu, first part: store the PDU and advance the state variables
AdvanceWindow(pdu) ==
    LET window == [sn \in DOMAIN rx_window \union {pdu.sn} |->
                       IF sn = pdu.sn THEN StorePdu(pdu).entry ELSE rx_window[sn]]
        done    == window[pdu.sn].fully_received
        highest == NextHighest(pdu.sn)
        next    == IF done /\ pdu.sn = rx_next
                   THEN FirstNotReceived(window, rx_next, highest) ELSE rx_next
    IN  /\ rx_next_highest' = highest
        /\ rx_highest_status' = IF done /\ pdu.sn = rx_highest_status
                                THEN FirstNotReceived(window, (pdu.sn + 1) % Mod, highest)
                                ELSE rx_highest_status
        /\ rx_next' = next
        /\ rx_window' = [sn \in {s \in DOMAIN window :
                                    ModBase(s, rx_next) >= ModBase(next, rx_next)} |-> window[sn]]

\* handle_data_pdu, second part: stop and (re)start t-Reassembly, on the new state
TriggerAboveNext == ModBase(rx_next_status_trigger, rx_next') = 1

StopReassemblyTimer ==
    \/ rx_next_status_trigger = rx_next'
    \/ TriggerAboveNext /\ ~Gap(rx_window', rx_next')
    \/ ~inside_rx_window(rx_next_status_trigger, rx_next')

StartReassemblyTimer ==
    \/ ModBase(rx_next_highest', rx_next') > 1
    \/ ModBase(rx_next_highest', rx_next') = 1 /\ Gap(rx_window', rx_next')

UpdateReassemblyTimer ==
    LET running == reassembly_timer /\ ~StopReassemblyTimer
    IN  /\ reassembly_timer' = (running \/ StartReassemblyTimer)
        /\ rx_next_status_trigger' = IF ~running /\ StartReassemblyTimer THEN rx_next_highest'
                                     ELSE rx_next_status_trigger
        /\ rx_aborted' = (reassembly_timer /\ TriggerAboveNext /\ rx_next' \notin DOMAIN rx_window')

\* A PDU arrives from the lower layer.  The poll bit counts even for a PDU that
\* is outside the window or a duplicate.
HandleDataPdu(pdu) ==
    /\ ~rx_aborted
    /\ do_status' = StatusRequested(pdu)
    /\ UNCHANGED status_prohibit_timer
    /\ \/ /\ ~Accepts(pdu)
          /\ UNCHANGED <<rx_state, status_report, rx_aborted>>
       \/ /\ Accepts(pdu)
          /\ AdvanceWindow(pdu)
          /\ UpdateReassemblyTimer
          /\ status_report' = IF StorePdu(pdu).stored
                              THEN Report(rx_window', rx_next', rx_highest_status')
                              ELSE status_report

\* t-Reassembly expires
OnExpiredReassemblyTimer ==
    LET status == FirstNotReceived(rx_window, rx_next_status_trigger, rx_next_highest)
        next_status == ModBase(status + 1, rx_next)
        restart == \/ ModBase(rx_next_highest, rx_next) > next_status
                   \/ /\ ModBase(rx_next_highest, rx_next) = next_status
                      /\ Gap(rx_window, status)
    IN  /\ ~rx_aborted
        /\ reassembly_timer
        /\ IF valid_ack_sn(rx_next_status_trigger)
           THEN /\ rx_highest_status' = status
                /\ rx_aborted' = ~valid_ack_sn(status)
                /\ reassembly_timer' = restart
                /\ rx_next_status_trigger' = IF restart THEN rx_next_highest
                                             ELSE rx_next_status_trigger
                /\ status_report' = Report(rx_window, rx_next, status)
                /\ do_status' = TRUE
           ELSE /\ reassembly_timer' = FALSE
                /\ UNCHANGED <<rx_highest_status, rx_next_status_trigger, status_report,
                               do_status, rx_aborted>>
        /\ UNCHANGED <<rx_next, rx_next_highest, rx_window, status_prohibit_timer>>

\* The transmitting side pulls the report (get_status_pdu)
GetStatusPdu ==
    /\ ~rx_aborted
    /\ status_report_required
    /\ do_status' = FALSE
    /\ status_prohibit_timer' = StatusProhibit
    /\ UNCHANGED <<rx_state, status_report, rx_aborted>>

\* t-StatusProhibit expires
OnExpiredStatusProhibitTimer ==
    /\ ~rx_aborted
    /\ status_prohibit_timer
    /\ status_prohibit_timer' = FALSE
    /\ UNCHANGED <<rx_state, do_status, status_report, rx_aborted>>

-----------------------------------------------------------------------------
(* The receiver under an arbitrary sender and channel *)

\* Every AMD PDU a peer can form: bytes [so, so + len) of an SDU, labelled as
\* the standard labels them
Pdus ==
    {pdu \in [sn : SN, p : BOOLEAN, si : SegInfo, so : 0 .. SduLen - 1, len : 1 .. SduLen, id : {1}] :
        /\ pdu.so + pdu.len <= SduLen
        /\ pdu.si = CASE pdu.so = 0 /\ pdu.len = SduLen          -> "full_sdu"
                      [] pdu.so = 0 /\ pdu.len < SduLen          -> "first_segment"
                      [] pdu.so > 0 /\ pdu.so + pdu.len = SduLen -> "last_segment"
                      [] OTHER                                   -> "middle_segment"}

RxNext ==
    \/ \E pdu \in Pdus : HandleDataPdu(pdu)
    \/ OnExpiredReassemblyTimer
    \/ GetStatusPdu
    \/ OnExpiredStatusProhibitTimer

RxSpec == RxInit /\ [][RxNext]_rx_vars

-----------------------------------------------------------------------------
(* Properties *)

\* The state variables of rlc_rx_am_state, the window and the flags have their types.
RxTypeOK ==
    /\ {rx_next, rx_next_status_trigger, rx_highest_status, rx_next_highest} \subseteq SN
    /\ DOMAIN rx_window \subseteq SN
    /\ \A sn \in DOMAIN rx_window : /\ rx_window[sn].fully_received \in BOOLEAN
                                    /\ rx_window[sn].has_gap \in BOOLEAN
    /\ {reassembly_timer, do_status, status_prohibit_timer, rx_aborted} \subseteq BOOLEAN

\* handle_data_pdu and on_expired_reassembly_timer keep, across every wrap-around
\* of the SN space, rx_next <= rx_highest_status <= rx_next_highest <= rx_next + am_window_size,
\* and store no SDU at or above rx_next_highest.
WindowOrder ==
    /\ ModBase(rx_highest_status, rx_next) <= ModBase(rx_next_highest, rx_next)
    /\ ModBase(rx_next_highest, rx_next) <= Window
    /\ \A sn \in DOMAIN rx_window : ModBase(sn, rx_next) < ModBase(rx_next_highest, rx_next)

\* The two SNs the peer treats as "not received yet", the lower edge rx_next and
\* the acknowledged-up-to SN rx_highest_status, never belong to a complete SDU:
\* otherwise that SDU would be requested again or never acknowledged.
EdgesMissing ==
    /\ ~Received(rx_window, rx_next)
    /\ ~Received(rx_window, rx_highest_status)

\* No run-time check of the receiver fails: the unchecked access to
\* (*rx_window)[rx_next] when t-Reassembly is stopped finds the SN, and the
\* assertion on rx_highest_status in on_expired_reassembly_timer holds.
RxNoAssert == ~rx_aborted

\* Loss detection is never disarmed: while t-Reassembly is not running nothing
\* above rx_highest_status was received out of order, so every SDU known to be
\* missing is either in the report already or watched by the timer.
GapWatched ==
    ~reassembly_timer =>
        /\ ModBase(rx_next_highest, rx_highest_status) <= 1
        /\ rx_next_highest # rx_highest_status => ~Gap(rx_window, rx_highest_status)

\* While t-Reassembly runs, the SN that armed it was received and is still in the
\* window, so its expiry always finds a trigger that valid_ack_sn accepts.
TriggerReceived ==
    reassembly_timer =>
        /\ ModBase(rx_next_status_trigger - 1, rx_next) < ModBase(rx_next_highest, rx_next)
        /\ (rx_next_status_trigger - 1) % Mod \in DOMAIN rx_window

\* The inductive invariant behind the properties above.  It adds that the SN below
\* rx_next_highest is the one that raised it, and that rx_highest_status passes the
\* trigger of a running t-Reassembly only over complete SDUs (so the expiry never
\* moves it back).
RxInv ==
    /\ RxTypeOK /\ WindowOrder /\ EdgesMissing /\ RxNoAssert /\ GapWatched /\ TriggerReceived
    /\ rx_next_highest # rx_next => (rx_next_highest - 1) % Mod \in DOMAIN rx_window
    /\ reassembly_timer =>
           \A k \in SN : /\ ModBase(rx_next_status_trigger, rx_next) <= k
                         /\ k < ModBase(rx_highest_status, rx_next)
                         => Received(rx_window, (rx_next + k) % Mod)

\* Bytes of SN sn that the segments or the complete SDU account for
BytesOf(window, sn) ==
    CASE sn \notin DOMAIN window   -> {}
      [] Received(window, sn)      -> 0 .. SduLen - 1
      [] OTHER                     -> (0 .. SduLen - 1) \ MissingBefore(window[sn].segments, SduLen)

\* The cached STATUS report that get_status_pdu returns is never stale and is
\* exact: it acknowledges up to rx_highest_status and its NACKs ask for precisely
\* the bytes missing below it, each of them, and no byte already received.
ReportExact ==
    /\ status_report.ack_sn = rx_highest_status
    /\ UNION {NackBytes(nack) : nack \in ToSet(status_report.nacks)}
         = UNION {{<<sn, b>> : b \in (0 .. SduLen - 1) \ BytesOf(rx_window, sn)} :
                     sn \in {s \in SN : ModBase(s, rx_next) < ModBase(rx_highest_status, rx_next)}}

\* store_segment keeps the segments of an incomplete SDU non-empty and pairwise
\* disjoint, whatever the overlaps of the PDUs that arrive: reassembly by
\* concatenation is only right for disjoint segments.
SegmentsDisjoint ==
    \A sn \in DOMAIN rx_window : \A s, t \in rx_window[sn].segments :
        /\ s.len > 0
        /\ s = t \/ LastByte(s) < t.so \/ LastByte(t) < s.so

\* A byte that was received stays received: no overlap handling, cut or merge in
\* store_segment loses bytes of an SDU that stays in the window.
BytesNeverLost ==
    [][\A sn \in DOMAIN rx_window \intersect DOMAIN rx_window' :
           BytesOf(rx_window, sn) \subseteq BytesOf(rx_window', sn)]_rx_vars

\* rx_next only passes SDUs that are complete, and neither rx_next nor the
\* acknowledgement rx_highest_status ever moves backwards, across wrap-around.
EdgesAdvance ==
    [][/\ \A k \in 1 .. ModBase(rx_next', rx_next) - 1 : Received(rx_window, (rx_next + k) % Mod)
       /\ ModBase(rx_next', rx_next) <= Window
       /\ ModBase(rx_highest_status', rx_highest_status) <= Window]_rx_vars

=============================================================================
