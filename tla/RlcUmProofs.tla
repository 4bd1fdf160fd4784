----------------------------- MODULE RlcUmProofs -----------------------------
(***************************************************************************)
(* The reassembly window of RLC UM stays sound for every size of the SN    *)
(* space and whatever the lower layer loses, delays or reorders: nothing   *)
(* is assumed of the number of SDUs on their way.                          *)
(***************************************************************************)
EXTENDS RlcUm, WellFoundedInduction, TLAPS

(* Leaves are small, but many: the provers get more than the default seconds. *)
USE SMTT(10), ZenonT(10), SMTT(40), ZenonT(40)

-----------------------------------------------------------------------------
(* Arithmetic *)

\* The offset of an SN in the window, and the lowest number of a set of SNs.
LEMMA SnFacts ==
    /\ um_window_size \in Nat /\ um_window_size >= 1 /\ mod = 2 * um_window_size
    /\ \A x : x \in SNs <=> x \in Int /\ 0 <= x /\ x < mod
  BY PowersAssumption DEF SNs

\* The values of rx_mod_base: an SN is inside the window if and only if it lies in
\* its lower half.
LEMMA BaseValue ==
    ASSUME NEW nh \in SNs, NEW x \in SNs
    PROVE  /\ ModBase(nh, x) \in SNs
           /\ ModBase(nh, nh) = um_window_size
           /\ ModBase(nh, nh - um_window_size) = 0
           /\ InReassemblyWindow(nh, x) <=> ModBase(nh, x) < um_window_size
  <1>1. PICK w \in Nat : w = um_window_size /\ w >= 1 /\ mod = 2 * w
    BY SnFacts
  <1>2. nh \in Int /\ x \in Int
    BY SnFacts
  <1>3. ModBase(nh, x) \in SNs
    <2>1. (x - nh - w) % (2 * w) \in 0 .. 2 * w - 1
      BY <1>1, <1>2
    <2>. QED  BY <1>1, <2>1 DEF ModBase, SNs
  <1>4. ModBase(nh, nh) = w
    <2>1. (0 - w) % (2 * w) = w
      BY <1>1
    <2>2. nh - nh - w = 0 - w
      BY <1>1, <1>2
    <2>. QED  BY <1>1, <2>1, <2>2 DEF ModBase
  <1>5. ModBase(nh, nh - w) = 0
    <2>1. (0 - 2 * w) % (2 * w) = 0
      BY <1>1
    <2>2. nh - w - nh - w = 0 - 2 * w
      BY <1>1, <1>2
    <2>. QED  BY <1>1, <2>1, <2>2 DEF ModBase
  <1>. QED  BY <1>1, <1>3, <1>4, <1>5, SnFacts DEF InReassemblyWindow

\* The SN below the upper edge is inside the window.
LEMMA JustBelow ==
    ASSUME NEW sn \in SNs
    PROVE  (sn + 1) % mod \in SNs /\ InReassemblyWindow((sn + 1) % mod, sn)
  <1>1. PICK w \in Nat : w = um_window_size /\ w >= 1 /\ mod = 2 * w
    BY SnFacts
  <1>2. sn \in Int /\ 0 <= sn /\ sn < 2 * w
    BY <1>1, SnFacts
  <1>3. PICK n \in SNs : n = (sn + 1) % mod /\ n = IF sn + 1 < 2 * w THEN sn + 1 ELSE 0
    <2>1. (sn + 1) % (2 * w) = IF sn + 1 < 2 * w THEN sn + 1 ELSE 0
      BY <1>1, <1>2
    <2>. QED  BY <1>1, <1>2, <2>1, SnFacts
  <1>4. ModBase(n, sn) = w - 1
    <2>1. CASE n = sn + 1
      <3>1. sn - n - w = 0 - 1 - w
        BY <1>1, <1>2, <2>1
      <3>2. (0 - 1 - w) % (2 * w) = w - 1
        BY <1>1
      <3>. QED  BY <1>1, <3>1, <3>2 DEF ModBase
    <2>2. CASE n = 0 /\ sn = 2 * w - 1
      <3>1. sn - n - w = w - 1
        BY <1>1, <1>2, <2>2
      <3>2. (w - 1) % (2 * w) = w - 1
        BY <1>1
      <3>. QED  BY <1>1, <3>1, <3>2 DEF ModBase
    <2>. QED  BY <1>1, <1>2, <1>3, <2>1, <2>2
  <1>. QED  BY <1>1, <1>3, <1>4, BaseValue

\* A set of SNs has a lowest one.
LEMMA LowestIn ==
    ASSUME NEW S \in SUBSET SNs, S # {}
    PROVE  Lowest(S) \in S
  <1>1. S \in SUBSET Nat
    BY SnFacts
  <1>. DEFINE R == OpToRel(<, Nat)
  <1>2. \E x \in S : \A y \in S : ~(<<y, x>> \in R)
    BY <1>1, WFMin, NatLessThanWellFounded
  <1>3. PICK x \in S : \A y \in S : ~(y < x)
    BY <1>1, <1>2 DEF OpToRel
  <1>4. \A y \in S : x <= y
    BY <1>1, <1>3
  <1>. QED  BY <1>4 DEF Lowest

-----------------------------------------------------------------------------
(* The invariant *)

\* WindowSound, with the SNs in their range.
UmInv ==
    /\ {rx_next_highest, rx_next_reassembly, rx_timer_trigger, tx_next} \subseteq SNs
    /\ DOMAIN rx_window \subseteq SNs
    /\ \A p \in air : p.sn \in SNs
    /\ WindowSound

\* What the window update of handle_rx_buffer_update leaves, before the timer: a
\* window and two edges that fit together.
Sound(w, nh, reass) ==
    /\ nh \in SNs /\ reass \in SNs /\ DOMAIN w \subseteq SNs
    /\ \A sn \in DOMAIN w : InReassemblyWindow(nh, sn)
    /\ reass = nh \/ InReassemblyWindow(nh, reass)

\* An SDU is complete: the lower edge moves to an SDU that is stored or to the
\* upper edge.
LEMMA DeliverySound ==
    ASSUME UmInv, NEW sn \in SNs, NEW w, DOMAIN w \subseteq DOMAIN rx_window
    PROVE  Sound(AfterDelivery(w, sn).window, AfterDelivery(w, sn).nh, AfterDelivery(w, sn).reass)
  <1>. DEFINE later == {x \in DOMAIN w : ModBase(rx_next_highest, x) > ModBase(rx_next_highest, sn)}
              s == AfterDelivery(w, sn)
  <1>1. s.window = w /\ s.nh = rx_next_highest
    BY DEF AfterDelivery
  <1>2. s.reass = IF sn # rx_next_reassembly THEN rx_next_reassembly
                  ELSE IF DOMAIN w = {} THEN rx_next_highest
                  ELSE IF later = {} THEN rx_next_reassembly
                  ELSE Lowest(later)
    BY DEF AfterDelivery
  <1>3. later # {} => Lowest(later) \in DOMAIN w
    <2>1. later \in SUBSET SNs
      BY DEF UmInv
    <2>. QED  BY <2>1, LowestIn
  <1>. HIDE DEF later, s
  <1>4. \A x \in DOMAIN w : x \in SNs /\ InReassemblyWindow(rx_next_highest, x)
    BY DEF UmInv, WindowSound
  <1>5. s.reass \in {rx_next_reassembly, rx_next_highest} \union DOMAIN w
    BY <1>2, <1>3
  <1>6. rx_next_highest \in SNs /\ rx_next_reassembly \in SNs
        /\ (rx_next_reassembly = rx_next_highest \/ InReassemblyWindow(rx_next_highest, rx_next_reassembly))
    BY DEF UmInv, WindowSound
  <1>7. Sound(s.window, s.nh, s.reass)
    BY <1>1, <1>4, <1>5, <1>6 DEF Sound
  <1>. QED  BY <1>7 DEF s

\* An SN outside the window moves both edges: the lower one lands on an SDU that is
\* stored, the SN itself at the latest.
LEMMA NewHighestSound ==
    ASSUME UmInv, NEW w, NEW sn \in DOMAIN w, DOMAIN w \subseteq SNs
    PROVE  Sound(AfterNewHighest(w, sn).window, AfterNewHighest(w, sn).nh, AfterNewHighest(w, sn).reass)
  <1>. DEFINE nh   == (sn + 1) % mod
              kept == Keep(w, {x \in SNs : InReassemblyWindow(nh, x)})
              L    == {x \in DOMAIN kept : x >= ModBase(nh, nh - um_window_size)}
              s    == AfterNewHighest(w, sn)
  <1>1. s.window = kept /\ s.nh = nh
        /\ s.reass = IF InReassemblyWindow(nh, rx_next_reassembly) THEN rx_next_reassembly ELSE Lowest(L)
    BY DEF AfterNewHighest
  <1>2. nh \in SNs /\ InReassemblyWindow(nh, sn)
    BY JustBelow
  <1>3. DOMAIN kept = {x \in DOMAIN w : x \in SNs /\ InReassemblyWindow(nh, x)}
    BY DEF Keep
  <1>. HIDE DEF nh, kept, s
  <1>4. sn \in DOMAIN kept /\ DOMAIN kept \subseteq SNs
    BY <1>2, <1>3
  <1>5. L \in SUBSET SNs /\ sn \in L
    <2>1. ModBase(nh, nh - um_window_size) = 0
      BY <1>2, BaseValue
    <2>2. \A x \in SNs : x >= 0
      BY SnFacts
    <2>. QED  BY <1>4, <2>1, <2>2
  <1>6. Lowest(L) \in DOMAIN kept
    BY <1>5, LowestIn
  <1>7. rx_next_reassembly \in SNs
    BY DEF UmInv
  <1>8. s.reass \in SNs /\ InReassemblyWindow(nh, s.reass)
    BY <1>1, <1>3, <1>6, <1>7
  <1>9. Sound(s.window, s.nh, s.reass)
    BY <1>1, <1>2, <1>3, <1>4, <1>8 DEF Sound
  <1>. QED  BY <1>9 DEF s

-----------------------------------------------------------------------------
(* The receiver *)

\* handle_rx_buffer_update with the window that already holds the new segment.
LEMMA BufferUpdateInv ==
    ASSUME UmInv, NEW w, NEW sn \in SNs, DOMAIN w = DOMAIN rx_window \union {sn},
           HandleRxBufferUpdate(w, sn), UNCHANGED tx_next, air' \subseteq air
    PROVE  UmInv'
  <1>. DEFINE info == Chain(w[sn])
              updated == [w EXCEPT ![sn] = info]
              s == IF info.complete THEN AfterDelivery(Keep(w, SNs \ {sn}), sn)
                   ELSE IF ~InReassemblyWindow(rx_next_highest, sn) THEN AfterNewHighest(updated, sn)
                   ELSE [window |-> updated, nh |-> rx_next_highest, reass |-> rx_next_reassembly]
              running == reassembly_timer # None /\ ~StopsTimer(s.window, s.nh, s.reass)
              starts  == ~running /\ StartsTimer(s.window, s.nh, s.reass)
  <1>1. rx_window' = s.window /\ rx_next_highest' = s.nh /\ rx_next_reassembly' = s.reass
    BY DEF HandleRxBufferUpdate
  <1>2. /\ reassembly_timer' = IF running THEN reassembly_timer ELSE IF starts THEN 0 ELSE None
        /\ rx_timer_trigger' = IF starts THEN s.nh ELSE rx_timer_trigger
    BY DEF HandleRxBufferUpdate
  <1>3. DOMAIN updated = DOMAIN w /\ DOMAIN w \subseteq SNs
    BY DEF UmInv
  <1>4. Sound(s.window, s.nh, s.reass)
    <2>1. CASE info.complete
      <3>1. DOMAIN Keep(w, SNs \ {sn}) \subseteq DOMAIN rx_window
        BY DEF Keep
      <3>. HIDE DEF info
      <3>. QED  BY <2>1, <3>1, DeliverySound
    <2>2. CASE ~info.complete /\ ~InReassemblyWindow(rx_next_highest, sn)
      <3>1. sn \in DOMAIN updated
        BY <1>3
      <3>. HIDE DEF info, updated
      <3>. QED  BY <1>3, <2>2, <3>1, NewHighestSound
    <2>3. CASE ~info.complete /\ InReassemblyWindow(rx_next_highest, sn)
      <3>. HIDE DEF info, updated
      <3>1. s = [window |-> updated, nh |-> rx_next_highest, reass |-> rx_next_reassembly]
        BY <2>3
      <3>. HIDE DEF s
      <3>. QED  BY <1>3, <2>3, <3>1 DEF Sound, UmInv, WindowSound
    <2>. QED  BY <2>1, <2>2, <2>3
  <1>. HIDE DEF s
  <1>5. running => rx_timer_trigger = s.nh \/ InReassemblyWindow(s.nh, rx_timer_trigger)
    BY DEF StopsTimer
  <1>. HIDE DEF running, starts
  <1>6. starts => ~running
    BY DEF starts
  <1>7. reassembly_timer' # None => rx_timer_trigger' = s.nh \/ InReassemblyWindow(s.nh, rx_timer_trigger')
    BY <1>2, <1>5, <1>6
  <1>8. rx_timer_trigger' \in SNs
    BY <1>2, <1>4 DEF Sound, UmInv
  <1>9. SNs' = SNs /\ \A nh, x : InReassemblyWindow(nh, x)' = InReassemblyWindow(nh, x)
    BY DEF SNs, InReassemblyWindow, ModBase
  <1>. QED  BY <1>1, <1>4, <1>7, <1>8 DEF Sound, UmInv, WindowSound

\* handle_pdu.
LEMMA HandlePduInv ==
    ASSUME UmInv, NEW p \in air, HandlePdu(p)
    PROVE  UmInv'
  <1>1. p.sn \in SNs
    BY DEF UmInv
  <1>2. air' \subseteq air /\ UNCHANGED tx_vars
    BY DEF HandlePdu
  <1>3. CASE UNCHANGED rx_vars
    BY <1>2, <1>3 DEF UmInv, WindowSound, rx_vars, st, tx_vars
  <1>4. CASE ~UNCHANGED rx_vars
    <2>. DEFINE info == IF p.sn \in DOMAIN rx_window THEN rx_window[p.sn] ELSE NewInfo
                w == [sn \in DOMAIN rx_window \cup {p.sn} |-> IF sn = p.sn THEN Insert(info, p) ELSE rx_window[sn]]
    <2>1. HandleRxBufferUpdate(w, p.sn)
      BY <1>4 DEF HandlePdu
    <2>2. DOMAIN w = DOMAIN rx_window \union {p.sn}
      OBVIOUS
    <2>. HIDE DEF w
    <2>. QED  BY <1>1, <1>2, <2>1, <2>2, BufferUpdateInv DEF tx_vars
  <1>. QED  BY <1>3, <1>4

\* on_expired_status_prohibit_timer: the lower edge moves to the trigger or to the
\* upper edge, because the trigger is not outside of the window.
LEMMA ExpireInv ==
    ASSUME UmInv, Expire
    PROVE  UmInv'
  <1>. DEFINE below == ModBase(rx_next_highest, rx_timer_trigger) < ModBase(rx_next_highest, rx_next_highest)
              reass == IF below THEN rx_next_highest ELSE rx_timer_trigger
  <1>1. /\ rx_next_reassembly' = reass
        /\ DOMAIN rx_window' \subseteq DOMAIN rx_window
        /\ UNCHANGED <<tx_vars, air, rx_next_highest>>
        /\ reassembly_timer # None
    BY DEF Expire, Keep
  <1>2. \/ rx_timer_trigger' = rx_next_highest
        \/ reassembly_timer' = None /\ rx_timer_trigger' = rx_timer_trigger
    BY DEF Expire
  <1>3. rx_timer_trigger = rx_next_highest \/ InReassemblyWindow(rx_next_highest, rx_timer_trigger)
    BY <1>1 DEF UmInv, WindowSound
  <1>4. rx_next_highest \in SNs /\ rx_timer_trigger \in SNs
    BY DEF UmInv
  <1>5. reass = rx_next_highest
    BY <1>3, <1>4, BaseValue
  <1>. HIDE DEF reass
  <1>. QED  BY <1>1, <1>2, <1>4, <1>5 DEF UmInv, WindowSound, tx_vars

-----------------------------------------------------------------------------
(* The transmitter *)

\* pull_pdu: TX_Next stays an SN and is the SN of the new PDU.
LEMMA PullInv ==
    ASSUME UmInv, Pull
    PROVE  UmInv'
  <1>1. PICK n \in 1..MaxLen : PullPdu(n)
    BY DEF Pull
  <1>2. /\ tx_next' = tx_next \/ tx_next' = (tx_next + 1) % mod
        /\ \A p \in air' : p \in air \/ p.sn = tx_next
        /\ reassembly_timer = None => reassembly_timer' = None
        /\ UNCHANGED <<rx_window, st>>
    <2>1. PICK cur \in {IF sdu = None THEN sdu_queue[Unread] ELSE sdu} :
             LET si == Si(next_so, n, cur.len) IN
             /\ \/ air' = air \cup {[id |-> cur.id, sn |-> tx_next, si |-> si, so |-> next_so, len |-> n]}
                \/ UNCHANGED air
             /\ tx_next' = IF si = "last_segment" THEN (tx_next + 1) % mod ELSE tx_next
             /\ reassembly_timer' = IF next_so = 0 /\ reassembly_timer # None THEN reassembly_timer + 1 ELSE reassembly_timer
             /\ UNCHANGED <<nof_sdus, rx_window, st, intact>>
      BY <1>1 DEF PullPdu
    <2>. QED  BY <2>1
  <1>3. tx_next \in SNs /\ tx_next' \in SNs
    BY <1>2, JustBelow DEF UmInv
  <1>. QED  BY <1>2, <1>3 DEF UmInv, WindowSound, st

-----------------------------------------------------------------------------
(* The theorem *)

\* The SNs that the receiver keeps always lie in its reassembly window, and so do
\* its lower edge and, while t-Reassembly runs, its trigger, whatever the size of
\* the SN space and however many SDUs overtake each other: the receiver's own
\* branches in handle_rx_buffer_update and in the timer's callback keep them there.
THEOREM WindowStaysSound == Spec => []WindowSound
  <1>1. Init => UmInv
    <2>1. 0 \in SNs
      BY SnFacts
    <2>. QED  BY <2>1 DEF Init, UmInv, WindowSound, EmptyWindow
  <1>2. UmInv /\ [Next]_um_vars => UmInv'
    <2>. SUFFICES ASSUME UmInv, [Next]_um_vars PROVE UmInv'
      OBVIOUS
    <2>1. CASE HandleSdu \/ DiscardSdu \/ PullNothing
      BY <2>1 DEF HandleSdu, DiscardSdu, PullNothing, UmInv, WindowSound, rx_vars, st
    <2>2. CASE Pull
      BY <2>2, PullInv
    <2>3. CASE \E p \in air : HandlePdu(p)
      BY <2>3, HandlePduInv
    <2>4. CASE Expire
      BY <2>4, ExpireInv
    <2>5. CASE UNCHANGED um_vars
      BY <2>5 DEF um_vars, tx_vars, rx_vars, st, UmInv, WindowSound
    <2>. QED  BY <2>1, <2>2, <2>3, <2>4, <2>5 DEF Next
  <1>3. UmInv => WindowSound
    BY DEF UmInv
  <1>. QED  BY <1>1, <1>2, <1>3, PTL DEF Spec

=============================================================================
