-------------------------- MODULE RlcAmLinkProofs --------------------------
(***************************************************************************)
(* Proof about the transmitting side of an RLC AM bearer, for every SN     *)
(* space, SDU length, header size, grant and polling configuration, and    *)
(* whatever STATUS PDUs say: the argument never looks at their content.    *)
(***************************************************************************)
EXTENDS RlcAmLink, TLAPS

(* Leaves are small, but many: the provers get more than the default seconds. *)
USE SMTT(10), ZenonT(10), SMTT(40), ZenonT(40)

-----------------------------------------------------------------------------
(* The inductive invariant *)

\* The transmission window maps SNs to entries, and the SDU under segmentation has
\* a proper offset.
Entry(e) == e = [id |-> e.id, next_so |-> e.next_so, retx_count |-> e.retx_count]

SegInv ==
    /\ tx_next \in SN /\ DOMAIN tx_window \subseteq SN
    /\ tx_window = [sn \in DOMAIN tx_window |-> tx_window[sn]]
    /\ \A sn \in DOMAIN tx_window : Entry(tx_window[sn])
    /\ SegmentationInProgress

\* Its value is fixed by these variables.
seg_vars == <<tx_next, tx_window, sn_under_segmentation>>

\* A step that changes none of them keeps it.
LEMMA SegFrame ==
    ASSUME SegInv, UNCHANGED seg_vars
    PROVE  SegInv'
  BY DEF SegInv, seg_vars, SegmentationInProgress, Entry

\* SNs are integers, and INVALID_RLC_SN is not one.
LEMMA SnFacts ==
    /\ InvalidSn \notin SN /\ 0 \in SN
    /\ \A sn \in SN : (sn + 1) % Mod \in SN
  <1>1. PICK w \in Nat : w = Window /\ Mod = 2 * w /\ w >= 2
    BY WindowAssumption DEF Mod
  <1>2. \A x \in Int : x \in SN <=> 0 <= x /\ x <= 2 * w - 1
    BY <1>1 DEF SN
  <1>3. ASSUME NEW sn \in SN
        PROVE  (sn + 1) % Mod \in SN
    <2>1. sn \in Int
      BY <1>1 DEF SN
    <2>2. (sn + 1) % (2 * w) \in 0 .. 2 * w - 1
      BY <1>1, <2>1
    <2>. QED  BY <1>1, <2>2 DEF SN
  <1>4. InvalidSn \notin SN
    BY <1>1 DEF InvalidSn, SN
  <1>. QED  BY <1>1, <1>2, <1>3, <1>4

-----------------------------------------------------------------------------
(* pull_pdu *)

\* build_new_pdu and build_first_sdu_segment: a first segment is shorter than its SDU.
LEMMA NewPduInv ==
    ASSUME SegInv, sn_under_segmentation \notin DOMAIN tx_window, NEW grant \in Grants, BuildNewPdu(grant)
    PROVE  SegInv'
  <1>1. CASE Unread = 0
    <2>1. UNCHANGED <<tx_next, tx_window>> /\ sn_under_segmentation' = InvalidSn
      BY <1>1 DEF BuildNewPdu
    <2>. QED  BY <2>1, SnFacts DEF SegInv, SegmentationInProgress, Entry
  <1>2. CASE Unread # 0
    <2>. DEFINE id == sdu_queue[Unread]
                whole == SduLen + HeadMin <= grant
                len == IF whole THEN SduLen ELSE grant - HeadMin
                entry == [id |-> id, next_so |-> IF whole THEN 0 ELSE len, retx_count |-> RetxNotStarted]
    <2>1. /\ tx_window' = AddSn(tx_window, tx_next, entry)
          /\ sn_under_segmentation' = IF whole THEN InvalidSn ELSE tx_next
          /\ tx_next' = TxNextAfter(whole)
          /\ grant > HeadMin
      BY <1>2 DEF BuildNewPdu
    <2>2. ~whole => len \in 1 .. SduLen - 1
      BY <2>1, GrantsAssumption, HeaderAssumption, SduLenAssumption
    <2>3. entry.next_so = IF whole THEN 0 ELSE len
      OBVIOUS
    <2>4. Entry(entry)
      BY DEF Entry
    <2>. HIDE DEF entry, len, whole
    <2>5. tx_next' \in SN
      BY <2>1, SnFacts DEF TxNextAfter, SegInv
    <2>6. /\ DOMAIN tx_window' \subseteq DOMAIN tx_window \union {tx_next}
          /\ tx_window' = [sn \in DOMAIN tx_window' |-> tx_window'[sn]]
          /\ tx_next \in DOMAIN tx_window' /\ tx_window'[tx_next] = entry
          /\ \A sn \in DOMAIN tx_window' : sn # tx_next => tx_window'[sn] = tx_window[sn]
      BY <2>1 DEF AddSn
    <2>7. SegmentationInProgress'
      BY <2>1, <2>2, <2>3, <2>6, SnFacts DEF SegmentationInProgress, SegInv
    <2>8. DOMAIN tx_window' \subseteq SN
      BY <2>6 DEF SegInv
    <2>9. \A sn \in DOMAIN tx_window' : Entry(tx_window'[sn])
      BY <2>4, <2>6 DEF SegInv
    <2>. QED  BY <2>5, <2>6, <2>7, <2>8, <2>9 DEF SegInv, Entry
  <1>. QED  BY <1>1, <1>2

\* build_continued_sdu_segment: a segment that is not the last leaves some of the SDU.
LEMMA ContinuedInv ==
    ASSUME SegInv, sn_under_segmentation \in DOMAIN tx_window, NEW grant \in Grants, BuildContinuedSduSegment(grant)
    PROVE  SegInv'
  <1>. DEFINE cur == sn_under_segmentation
              so == tx_window[cur].next_so
              last == SduLen - so + HeadMax <= grant
              len == IF last THEN SduLen - so ELSE grant - HeadMax
  <1>1. /\ grant > HeadMax
        /\ sn_under_segmentation' = IF last THEN InvalidSn ELSE cur
        /\ tx_window' = [tx_window EXCEPT ![cur].next_so = @ + len]
        /\ tx_next' = TxNextAfter(last)
    BY DEF BuildContinuedSduSegment
  <1>2. so \in 1 .. SduLen - 1
    BY DEF SegInv, SegmentationInProgress
  <1>3. ~last => so + len \in 1 .. SduLen - 1
    BY <1>1, <1>2, GrantsAssumption, HeaderAssumption, SduLenAssumption
  <1>4. /\ DOMAIN tx_window' = DOMAIN tx_window
        /\ \A sn \in DOMAIN tx_window : sn # cur => tx_window'[sn] = tx_window[sn]
        /\ tx_window'[cur] = [tx_window[cur] EXCEPT !.next_so = @ + len]
        /\ tx_window' = [sn \in DOMAIN tx_window' |-> tx_window'[sn]]
    BY <1>1 DEF SegInv
  <1>5. tx_window'[cur].next_so = so + len /\ Entry(tx_window'[cur])
    BY <1>4 DEF SegInv, Entry
  <1>. HIDE DEF len, last
  <1>6. tx_next' \in SN
    BY <1>1, SnFacts DEF TxNextAfter, SegInv
  <1>7. SegmentationInProgress'
    BY <1>1, <1>3, <1>4, <1>5, SnFacts DEF SegmentationInProgress, SegInv
  <1>8. \A sn \in DOMAIN tx_window' : Entry(tx_window'[sn])
    BY <1>4, <1>5 DEF SegInv
  <1>9. DOMAIN tx_window' \subseteq SN
    BY <1>4 DEF SegInv
  <1>. QED  BY <1>4, <1>6, <1>7, <1>8, <1>9 DEF SegInv, Entry

\* pull_pdu.
LEMMA PullInv ==
    ASSUME SegInv, NEW grant \in Grants, PullPdu(grant)
    PROVE  SegInv'
  <1>1. CASE BuildRetxPdu(grant)
    <2>1. UNCHANGED seg_vars
      BY <1>1 DEF BuildRetxPdu, seg_vars
    <2>. QED  BY <2>1, SegFrame
  <1>2. CASE sn_under_segmentation \in DOMAIN tx_window /\ BuildContinuedSduSegment(grant)
    BY <1>2, ContinuedInv
  <1>3. CASE sn_under_segmentation \notin DOMAIN tx_window /\ BuildNewPdu(grant)
    BY <1>3, NewPduInv
  <1>4. CASE sn_under_segmentation' = InvalidSn /\ UNCHANGED <<tx_next, tx_window>>
    BY <1>4, SnFacts DEF SegInv, SegmentationInProgress, Entry
  <1>. QED  BY <1>1, <1>2, <1>3, <1>4 DEF PullPdu

-----------------------------------------------------------------------------
(* handle_status_pdu *)

\* SDUs are released and counted, and keep their offsets.
LEMMA StatusInv ==
    ASSUME SegInv, NEW status, HandleStatusPdu(status)
    PROVE  SegInv'
  <1>1. CASE UNCHANGED tx_vars
    BY <1>1, SegFrame DEF tx_vars, seg_vars
  <1>2. CASE ~UNCHANGED tx_vars
    <2>1. PICK released, count :
             /\ tx_window' = [sn \in DOMAIN tx_window \ released |->
                                [tx_window[sn] EXCEPT !.retx_count = count[sn]]]
             /\ UNCHANGED <<tx_next, sn_under_segmentation>>
      <3>. DEFINE acked == AckedSns(status)
                  window == [sn \in DOMAIN tx_window \ ToSet(acked) |-> tx_window[sn]]
      <3>1. PICK sns : tx_window' = [sn \in DOMAIN window |-> [window[sn] EXCEPT !.retx_count =
                         IF sn \in sns /\ window[sn].retx_count <= MaxRetxThresh
                         THEN window[sn].retx_count + 1 ELSE window[sn].retx_count]]
        BY <1>2 DEF HandleStatusPdu
      <3>2. UNCHANGED <<tx_next, sn_under_segmentation>>
        BY <1>2 DEF HandleStatusPdu
      <3>3. PICK count : count = [sn \in DOMAIN window |->
                                    IF sn \in sns /\ window[sn].retx_count <= MaxRetxThresh
                                    THEN window[sn].retx_count + 1 ELSE window[sn].retx_count]
        OBVIOUS
      <3>4. \A sn \in DOMAIN window : window[sn] = tx_window[sn]
        OBVIOUS
      <3>5. DOMAIN window = DOMAIN tx_window \ ToSet(acked)
        OBVIOUS
      <3>. HIDE DEF window, acked
      <3>6. tx_window' = [sn \in DOMAIN tx_window \ ToSet(acked) |-> [tx_window[sn] EXCEPT !.retx_count = count[sn]]]
        BY <3>1, <3>3, <3>4, <3>5
      <3>. QED  BY <3>2, <3>6
    <2>2. /\ DOMAIN tx_window' \subseteq DOMAIN tx_window
          /\ tx_window' = [sn \in DOMAIN tx_window' |-> tx_window'[sn]]
          /\ \A sn \in DOMAIN tx_window' : tx_window'[sn] = [tx_window[sn] EXCEPT !.retx_count = count[sn]]
      BY <2>1
    <2>3. \A sn \in DOMAIN tx_window' : tx_window'[sn].next_so = tx_window[sn].next_so /\ Entry(tx_window'[sn])
      BY <2>2 DEF SegInv, Entry
    <2>4. SegmentationInProgress'
      BY <2>1, <2>2, <2>3 DEF SegInv, SegmentationInProgress
    <2>. QED  BY <2>1, <2>2, <2>3, <2>4 DEF SegInv, Entry
  <1>. QED  BY <1>1, <1>2

-----------------------------------------------------------------------------
(* The theorem *)

\* Whenever pull_pdu goes on with an SDU, its next_so lies strictly inside the SDU:
\* the two sanity checks of build_continued_sdu_segment never fail, although STATUS
\* PDUs may release the SDU between two segments and its SN may come back.
THEOREM SegmentationStaysProper == LinkSpec => []SegmentationInProgress
  <1>1. LinkInit => SegInv
    <2>1. ASSUME TxInit
          PROVE  SegInv
      <3>1. tx_next = 0 /\ DOMAIN tx_window = {} /\ tx_window = [sn \in {} |-> 0]
        BY <2>1 DEF TxInit
      <3>. QED  BY <3>1, SnFacts DEF SegInv, SegmentationInProgress
    <2>. QED  BY <2>1 DEF LinkInit
  <1>2. SegInv /\ [LinkNext]_link_vars => SegInv'
    <2>. SUFFICES ASSUME SegInv, [LinkNext]_link_vars PROVE SegInv'
      OBVIOUS
    <2>1. CASE SubmitSdu \/ Discard
      <3>1. UNCHANGED seg_vars
        BY <2>1 DEF SubmitSdu, HandleSdu, Discard, DiscardSdu, seg_vars
      <3>. QED  BY <3>1, SegFrame
    <2>2. CASE Pull
      BY <2>2, PullInv DEF Pull
    <2>3. CASE PollRetransmit
      <3>1. UNCHANGED seg_vars
        BY <2>3 DEF PollRetransmit, OnExpiredPollRetransmitTimer, seg_vars
      <3>. QED  BY <3>1, SegFrame
    <2>4. CASE ReceiveStatus
      BY <2>4, StatusInv DEF ReceiveStatus
    <2>5. CASE PullStatus \/ ReassemblyExpiry \/ StatusProhibitExpiry \/ LoseStatus
      <3>1. UNCHANGED seg_vars
        BY <2>5 DEF PullStatus, ReassemblyExpiry, StatusProhibitExpiry, LoseStatus, tx_vars, seg_vars
      <3>. QED  BY <3>1, SegFrame
    <2>6. CASE ReceiveData \/ LoseData
      <3>1. UNCHANGED seg_vars
        BY <2>6 DEF ReceiveData, LoseData, seg_vars
      <3>. QED  BY <3>1, SegFrame
    <2>7. CASE UNCHANGED link_vars
      BY <2>7, SegFrame DEF link_vars, tx_vars, seg_vars
    <2>. QED  BY <2>1, <2>2, <2>3, <2>4, <2>5, <2>6, <2>7 DEF LinkNext
  <1>3. SegInv => SegmentationInProgress
    BY DEF SegInv
  <1>. QED  BY <1>1, <1>2, <1>3, PTL DEF LinkSpec

=============================================================================
