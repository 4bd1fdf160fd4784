-------------------------------- MODULE RlcUm --------------------------------
(***************************************************************************)
(* An RLC UM bearer: the transmitter (lib/rlc/rlc_tx_um_entity.cpp), the   *)
(* receiver (lib/rlc/rlc_rx_um_entity.cpp) and a lower layer that loses    *)
(* and reorders PDUs (HARQ processes) and does not duplicate them.  SDUs   *)
(* are numbered in the order in which they are sent; a payload is the SDU  *)
(* it comes from, its offset and its length.  A grant is the payload it    *)
(* carries: the header sizes only decide which grants carry none.          *)
(***************************************************************************)
EXTENDS Integers, Sequences, FiniteSets, SequencesExt

CONSTANTS
    SnBits,         \* sn_field_length; the window is half of the SN space
    SduLens,        \* lengths of SDUs
    QueueSize,      \* capacity of sdu_queue
    ReorderDepth,   \* PDUs overtake each other within so many SDUs
    TimerSpan,      \* SDUs that are sent at most while t-Reassembly runs
    MaxSdus,        \* bound on the SDUs of a behaviour
    None

VARIABLES
    sdu_queue,      \* SDUs that wait: [id, len]; Discarded where PDCP discarded one
    sdu,            \* the SDU under segmentation, or None
    next_so, tx_next,
    nof_sdus,       \* SDUs handed to the transmitter so far
    air,            \* PDUs on their way
    rx_window,      \* SN -> [segments (SO -> segment), sdu, next_expected_so, total_sdu_length]
    rx_next_reassembly, rx_timer_trigger, rx_next_highest,
    reassembly_timer,  \* the SDUs sent since it was started, or None
    intact          \* every SDU that was delivered is one that was sent

tx_vars == <<sdu_queue, sdu, next_so, tx_next, nof_sdus>>
st == <<rx_next_reassembly, rx_timer_trigger, rx_next_highest>>
rx_vars == <<rx_window, st, reassembly_timer, intact>>
um_vars == <<tx_vars, air, rx_vars>>

mod == 2^SnBits
um_window_size == 2^(SnBits - 1)
SNs == 0..mod - 1

ASSUME UmAssumption ==
    /\ SnBits \in Nat \ {0} /\ SduLens \subseteq Nat \ {0}
    /\ {QueueSize, ReorderDepth, TimerSpan, MaxSdus} \subseteq Nat

\* The arithmetic of powers of two that is used below.
ASSUME PowersAssumption == um_window_size \in Nat \ {0} /\ mod = 2 * um_window_size

NoSegments == [so \in {} |-> 0]
EmptyWindow == [sn \in {} |-> 0]

Init ==
    /\ sdu_queue = <<>> /\ sdu = None /\ next_so = 0 /\ tx_next = 0 /\ nof_sdus = 0
    /\ air = {}
    /\ rx_window = EmptyWindow /\ reassembly_timer = None
    /\ rx_next_reassembly = 0 /\ rx_timer_trigger = 0 /\ rx_next_highest = 0
    /\ intact = TRUE

-----------------------------------------------------------------------------
(* Transmitter. *)

\* handle_sdu: a full queue drops the SDU.
HandleSdu ==
    /\ nof_sdus < MaxSdus /\ nof_sdus' = nof_sdus + 1
    /\ \E len \in SduLens :
         sdu_queue' = IF Len(sdu_queue) < QueueSize THEN Append(sdu_queue, [id |-> nof_sdus, len |-> len])
                                                    ELSE sdu_queue
    /\ UNCHANGED <<sdu, next_so, tx_next, air, rx_vars>>

Discarded == [id |-> 0, len |-> 0]

\* discard_sdu: an SDU that still waits is emptied, and keeps its place in the queue.
DiscardSdu ==
    /\ \E k \in DOMAIN sdu_queue : sdu_queue[k].len > 0 /\ sdu_queue' = [sdu_queue EXCEPT ![k] = Discarded]
    /\ UNCHANGED <<sdu, next_so, tx_next, nof_sdus, air, rx_vars>>

\* rlc_sdu_queue::read: the first SDU that was not discarded (0: none), and the queue
\* once it and those before it are gone
Unread == SelectInSeq(sdu_queue, LAMBDA s : s.len > 0)
AfterRead == IF Unread = 0 THEN <<>> ELSE SubSeq(sdu_queue, Unread + 1, Len(sdu_queue))

\* The SI of a PDU with n bytes from offset so of an SDU.
Si(so, n, len) ==
    IF so = 0 THEN IF n = len THEN "full_sdu" ELSE "first_segment"
              ELSE IF so + n = len THEN "last_segment" ELSE "middle_segment"

\* What is on its way is at most ReorderDepth SDUs old, and t-Reassembly is
\* short against the SN space.
CanStart(id) ==
    /\ \A p \in air : id - p.id < ReorderDepth
    /\ reassembly_timer # None => reassembly_timer < TimerSpan

\* pull_pdu with a grant for n bytes of payload.
PullPdu(n) ==
    \E cur \in {IF sdu = None THEN sdu_queue[Unread] ELSE sdu} :
       LET si == Si(next_so, n, cur.len)
           ends == si \in {"full_sdu", "last_segment"}
       IN
       /\ next_so + n <= cur.len
       /\ next_so = 0 => CanStart(cur.id)
       /\ sdu_queue' = IF sdu = None THEN AfterRead ELSE sdu_queue
       /\ \/ air' = air \cup {[id |-> cur.id, sn |-> tx_next, si |-> si, so |-> next_so, len |-> n]}
          \/ UNCHANGED air                                                                     \* lost
       /\ sdu' = IF ends THEN None ELSE cur
       /\ next_so' = IF ends THEN 0 ELSE next_so + n
       /\ tx_next' = IF si = "last_segment" THEN (tx_next + 1) % mod ELSE tx_next
       /\ reassembly_timer' = IF next_so = 0 /\ reassembly_timer # None THEN reassembly_timer + 1 ELSE reassembly_timer
       /\ UNCHANGED <<nof_sdus, rx_window, st, intact>>

MaxLen == CHOOSE m \in SduLens : \A l \in SduLens : l <= m

Pull ==
    /\ sdu # None \/ Unread # 0
    /\ \E n \in 1..MaxLen : PullPdu(n)

\* pull_pdu with a grant that is too small for the first segment's header, or with
\* discarded SDUs only: what was read has left the queue, nothing is sent.
PullNothing ==
    /\ sdu = None /\ sdu_queue # <<>>
    /\ sdu' = IF Unread = 0 THEN None ELSE sdu_queue[Unread]
    /\ sdu_queue' = AfterRead
    /\ UNCHANGED <<next_so, tx_next, nof_sdus, air, rx_vars>>

-----------------------------------------------------------------------------
(* Receiver. *)

\* rx_mod_base, relative to an upper edge of the window.
ModBase(nh, x) == (x - nh - um_window_size) % mod
InReassemblyWindow(nh, sn) == ModBase(nh, nh - um_window_size) <= ModBase(nh, sn) /\ ModBase(nh, sn) < ModBase(nh, nh)
InvalidForRxBuffer(sn) ==
    /\ ModBase(rx_next_highest, rx_next_highest - um_window_size) <= ModBase(rx_next_highest, sn)
    /\ ModBase(rx_next_highest, sn) < ModBase(rx_next_highest, rx_next_reassembly)

Lowest(S) == CHOOSE x \in S : \A y \in S : x <= y
Keep(w, S) == [sn \in DOMAIN w \cap S |-> w[sn]]

\* A segment enters the buffer of its SN; a map does not replace an element.
Insert(info, p) ==
    [info EXCEPT !.segments = IF p.so \in DOMAIN @ THEN @ ELSE [so \in DOMAIN @ \cup {p.so} |-> IF so = p.so THEN p ELSE @[so]],
                 !.total_sdu_length = IF p.si = "last_segment" THEN p.so + p.len ELSE @]

\* The loop over the segments in the order of their offsets, and its break.
Chain(info) ==
    LET Step(i, so) ==
          IF so # i.next_expected_so \/ i.complete THEN i
          ELSE LET next == so + i.segments[so].len IN
               [i EXCEPT !.sdu = Append(@, i.segments[so]),
                         !.next_expected_so = next,
                         !.segments = [o \in DOMAIN @ \ {so} |-> @[o]],
                         !.complete = so # 0 /\ next = i.total_sdu_length]
    IN FoldLeft(Step, info, SetToSortSeq(DOMAIN info.segments, <))

NewInfo == [segments |-> NoSegments, sdu |-> <<>>, next_expected_so |-> 0, total_sdu_length |-> 0,
            complete |-> FALSE]

\* The segments are those of one SDU.
Whole(segs) ==
    /\ \A k \in DOMAIN segs : segs[k].id = segs[1].id
    /\ \A k \in 2..Len(segs) : segs[k].so = segs[k - 1].so + segs[k - 1].len
    /\ segs[1].so = 0 /\ Last(segs).si = "last_segment"

\* The state variables and the window after a PDU of this SN, without the timer.
\* The loops over rx_window visit SNs in numeric order.
AfterDelivery(w, sn) ==
    LET later == {x \in DOMAIN w : ModBase(rx_next_highest, x) > ModBase(rx_next_highest, sn)} IN
    [window |-> w,
     nh     |-> rx_next_highest,
     reass  |-> IF sn # rx_next_reassembly THEN rx_next_reassembly
                ELSE IF DOMAIN w = {} THEN rx_next_highest
                ELSE IF later = {} THEN rx_next_reassembly
                ELSE Lowest(later)]

\* Mutant of AfterNewHighest: SDUs that the window left behind stay stored.
AfterNewHighestKeeping(w, sn) ==
    LET nh == (sn + 1) % mod IN
    [window |-> w,
     nh     |-> nh,
     reass  |-> IF InReassemblyWindow(nh, rx_next_reassembly) THEN rx_next_reassembly
                ELSE Lowest({x \in DOMAIN w : InReassemblyWindow(nh, x)})]

\* Mutant of AfterNewHighest: rx_next_reassembly is left behind.
AfterNewHighestLagging(w, sn) ==
    LET nh == (sn + 1) % mod IN
    [window |-> Keep(w, {x \in SNs : InReassemblyWindow(nh, x)}), nh |-> nh, reass |-> rx_next_reassembly]

AfterNewHighest(w, sn) ==
    LET nh   == (sn + 1) % mod
        kept == Keep(w, {x \in SNs : InReassemblyWindow(nh, x)})
    IN
    [window |-> kept,
     nh     |-> nh,
     reass  |-> IF InReassemblyWindow(nh, rx_next_reassembly) THEN rx_next_reassembly
                ELSE Lowest({x \in DOMAIN kept : x >= ModBase(nh, nh - um_window_size)})]

\* Mutant of StartsTimer: only a missing SDU starts the timer.
StartsTimerOnGap(w, nh, reass) == ModBase(nh, nh) > ModBase(nh, reass + 1)

\* The conditions to start and to stop t-Reassembly; has_missing_byte_segment
\* says whether the SN is stored.
StartsTimer(w, nh, reass) ==
    \/ ModBase(nh, nh) > ModBase(nh, reass + 1)
    \/ ModBase(nh, nh) = ModBase(nh, reass + 1) /\ reass \in DOMAIN w

\* The trigger is compared with rx_next_reassembly as a number.
StopsTimer(w, nh, reass) ==
    \/ rx_timer_trigger <= reass
    \/ ~InReassemblyWindow(nh, rx_timer_trigger) /\ rx_timer_trigger # nh
    \/ nh = reass + 1 /\ reass \notin DOMAIN w

\* handle_rx_buffer_update.
HandleRxBufferUpdate(w, sn) ==
    LET info == Chain(w[sn])
        updated == [w EXCEPT ![sn] = info]
        s == IF info.complete THEN AfterDelivery(Keep(w, SNs \ {sn}), sn)
             ELSE IF ~InReassemblyWindow(rx_next_highest, sn) THEN AfterNewHighest(updated, sn)
             ELSE [window |-> updated, nh |-> rx_next_highest, reass |-> rx_next_reassembly]
        running == reassembly_timer # None /\ ~StopsTimer(s.window, s.nh, s.reass)
        starts  == ~running /\ StartsTimer(s.window, s.nh, s.reass)
    IN
    /\ rx_window' = s.window
    /\ rx_next_highest' = s.nh
    /\ rx_next_reassembly' = s.reass
    /\ reassembly_timer' = IF running THEN reassembly_timer ELSE IF starts THEN 0 ELSE None
    /\ rx_timer_trigger' = IF starts THEN s.nh ELSE rx_timer_trigger
    /\ intact' = (intact /\ (info.complete => Whole(info.sdu)))

\* handle_pdu.
HandlePdu(p) ==
    /\ p \in air /\ air' = air \ {p}
    /\ \/ /\ p.si = "full_sdu"
          /\ UNCHANGED rx_vars
       \/ /\ p.si # "full_sdu" /\ InvalidForRxBuffer(p.sn)
          /\ UNCHANGED rx_vars
       \/ /\ p.si # "full_sdu" /\ ~InvalidForRxBuffer(p.sn)
          /\ LET info == IF p.sn \in DOMAIN rx_window THEN rx_window[p.sn] ELSE NewInfo IN
             HandleRxBufferUpdate([sn \in DOMAIN rx_window \cup {p.sn} |-> IF sn = p.sn THEN Insert(info, p) ELSE rx_window[sn]],
                                  p.sn)
    /\ UNCHANGED tx_vars

\* on_expired_status_prohibit_timer: t-Reassembly expired.
Expire ==
    LET below == ModBase(rx_next_highest, rx_timer_trigger) < ModBase(rx_next_highest, rx_next_highest)
        reass == IF below THEN rx_next_highest ELSE rx_timer_trigger
        w     == Keep(rx_window, {x \in SNs : ModBase(rx_next_highest, x) >= ModBase(rx_next_highest, reass)})
        starts == StartsTimer(w, rx_next_highest, reass)
    IN
    /\ reassembly_timer # None
    /\ rx_next_reassembly' = reass
    /\ rx_window' = w
    /\ reassembly_timer' = IF starts THEN 0 ELSE None
    /\ rx_timer_trigger' = IF starts THEN rx_next_highest ELSE rx_timer_trigger
    /\ UNCHANGED <<tx_vars, air, rx_next_highest, intact>>

-----------------------------------------------------------------------------
Next ==
    \/ HandleSdu \/ DiscardSdu \/ Pull \/ PullNothing
    \/ \E p \in air : HandlePdu(p)
    \/ Expire

Spec == Init /\ [][Next]_um_vars

-----------------------------------------------------------------------------
(* Properties. *)

\* What the receiver delivers is one SDU, whole and with its bytes in order:
\* segments of SDUs that used the same SN are never put together.
SegmentsOfOneSdu == intact

\* The state variables stay together although they wrap around and only some
\* branches move them: what is stored lies in the reassembly window, so does
\* rx_next_reassembly or it has caught up with the upper edge, and so does the
\* trigger while t-Reassembly runs, or its expiry would move the lower edge out.
WindowSound ==
    LET Upto(x) == x = rx_next_highest \/ InReassemblyWindow(rx_next_highest, x) IN
    /\ \A sn \in DOMAIN rx_window : InReassemblyWindow(rx_next_highest, sn)
    /\ Upto(rx_next_reassembly)
    /\ reassembly_timer # None => Upto(rx_timer_trigger)

\* rlc_rx_um_entity.h calls RX_Next_Reassembly "The earliest SN that is still
\* considered for reassembly".  While the window does not contain the step from
\* the highest SN to 0, no SDU is stored below it, where its remaining segments
\* would be refused, and every partly received SDU is watched by t-Reassembly.
\* Around that step the receiver takes the lowest number for the earliest SN.
StoredIsConsidered ==
    rx_next_highest >= um_window_size =>
       /\ \A sn \in DOMAIN rx_window : sn >= rx_next_reassembly
       /\ rx_window # EmptyWindow => reassembly_timer # None
=============================================================================
