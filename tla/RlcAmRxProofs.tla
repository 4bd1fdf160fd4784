---------------------------- MODULE RlcAmRxProofs ----------------------------
(***************************************************************************)
(* Proofs about the receiving side of RLC AM, for every window size and    *)
(* every SDU length, under an arbitrary sender and channel.                *)
(***************************************************************************)
EXTENDS RlcAmRx, WellFoundedInduction, TLAPS

(* Leaves are small, but many: the provers get more than the default seconds. *)
USE SMTT(10), ZenonT(10), SMTT(40), ZenonT(40)

-----------------------------------------------------------------------------
(* Arithmetic on sequence numbers *)

\* Sequence numbers and window offsets are integers below 2 * Window.
LEMMA SnIsInt ==
    /\ Mod \in Nat /\ Window \in Nat /\ Window >= 2 /\ Mod = 2 * Window
    /\ \A a \in SN : a \in Int /\ 0 <= a /\ a < Mod
    /\ \A a \in Int : 0 <= a /\ a < Mod => a \in SN
  BY WindowAssumption DEF Mod, SN

\* The remainder is a sequence number.
LEMMA ModRange ==
    ASSUME NEW a \in Int PROVE a % Mod \in SN
  BY WindowAssumption DEF Mod, SN

\* The remainder of a number in one of the three periods around zero.
LEMMA ModCases ==
    ASSUME NEW a \in Int, -Mod <= a, a < 2 * Mod
    PROVE  a % Mod = IF a < 0 THEN a + Mod ELSE IF a < Mod THEN a ELSE a - Mod
  BY WindowAssumption DEF Mod

\* The offset of a sequence number in the window, without remainders.
LEMMA BaseCases ==
    ASSUME NEW a \in SN, NEW n \in SN
    PROVE  /\ ModBase(a, n) = IF a >= n THEN a - n ELSE a - n + Mod
           /\ ModBase(a, n) \in SN
  <1>. DEFINE d == a - n
  <1>1. d \in Int /\ -Mod <= d /\ d < 2 * Mod
    BY SnIsInt
  <1>2. d % Mod = IF d < 0 THEN d + Mod ELSE IF d < Mod THEN d ELSE d - Mod
    <2>. HIDE DEF d
    <2>. QED  BY <1>1, ModCases
  <1>. QED  BY <1>1, <1>2, SnIsInt DEF ModBase

\* An SN is determined by its offset above the window edge ...
LEMMA BaseInverse ==
    ASSUME NEW a \in SN, NEW n \in SN
    PROVE  (n + ModBase(a, n)) % Mod = a
  <1>. DEFINE s == n + ModBase(a, n)
  <1>1. s \in Int /\ -Mod <= s /\ s < 2 * Mod
    BY BaseCases, SnIsInt
  <1>2. s % Mod = IF s < 0 THEN s + Mod ELSE IF s < Mod THEN s ELSE s - Mod
    <2>. HIDE DEF s
    <2>. QED  BY <1>1, ModCases
  <1>. QED  BY <1>2, BaseCases, SnIsInt

\* ... and every offset is the offset of one SN.
LEMMA BaseOfOffset ==
    ASSUME NEW k \in SN, NEW n \in SN
    PROVE  (n + k) % Mod \in SN /\ ModBase((n + k) % Mod, n) = k
  <1>1. (n + k) % Mod = IF n + k < Mod THEN n + k ELSE n + k - Mod
    BY ModCases, SnIsInt
  <1>2. (n + k) % Mod \in SN
    BY ModRange, SnIsInt
  <1>. QED  BY <1>1, <1>2, BaseCases, SnIsInt

\* Moving the lower edge up by m lowers every offset by m, modulo the SN space.
LEMMA Rebase ==
    ASSUME NEW a \in SN, NEW n \in SN, NEW e \in SN
    PROVE  ModBase(a, e) = IF ModBase(a, n) >= ModBase(e, n)
                           THEN ModBase(a, n) - ModBase(e, n)
                           ELSE ModBase(a, n) - ModBase(e, n) + Mod
  BY BaseCases, SnIsInt

\* The SN following one that is below the end of the SN space.
LEMMA BaseSucc ==
    ASSUME NEW a \in SN, NEW n \in SN, ModBase(a, n) < Mod - 1
    PROVE  /\ (a + 1) % Mod \in SN
           /\ ModBase((a + 1) % Mod, n) = ModBase(a, n) + 1
           /\ ModBase(a + 1, n) = ModBase(a, n) + 1
  <1>1. (a + 1) % Mod = IF a + 1 < Mod THEN a + 1 ELSE a + 1 - Mod
    BY ModCases, SnIsInt
  <1>2. (a + 1) % Mod \in SN
    BY ModRange, SnIsInt
  <1>3. ModBase((a + 1) % Mod, n) = ModBase(a, n) + 1
    BY <1>1, <1>2, BaseCases, SnIsInt
  <1>4. (a + 1 - n) % Mod = IF a + 1 - n < 0 THEN a + 1 - n + Mod
                            ELSE IF a + 1 - n < Mod THEN a + 1 - n ELSE a + 1 - n - Mod
    BY ModCases, SnIsInt
  <1>5. ModBase(a + 1, n) = (a + 1 - n) % Mod
    BY SnIsInt DEF ModBase
  <1>6. ModBase(a + 1, n) = ModBase(a, n) + 1
    BY <1>4, <1>5, BaseCases, SnIsInt
  <1>. QED  BY <1>2, <1>3, <1>6

\* The SN preceding a; the one preceding the lower edge is the last of the SN space.
LEMMA BasePred ==
    ASSUME NEW a \in SN, NEW n \in SN
    PROVE  /\ (a - 1) % Mod \in SN
           /\ ModBase(a - 1, n) = ModBase((a - 1) % Mod, n)
           /\ ModBase((a - 1) % Mod, n) = IF a = n THEN Mod - 1 ELSE ModBase(a, n) - 1
  <1>1. (a - 1) % Mod = IF a - 1 < 0 THEN a - 1 + Mod ELSE a - 1
    BY ModCases, SnIsInt
  <1>2. (a - 1) % Mod \in SN
    BY ModRange, SnIsInt
  <1>3. ModBase((a - 1) % Mod, n) = IF a = n THEN Mod - 1 ELSE ModBase(a, n) - 1
    BY <1>1, <1>2, BaseCases, SnIsInt
  <1>4. (a - 1 - n) % Mod = IF a - 1 - n < 0 THEN a - 1 - n + Mod ELSE a - 1 - n
    BY ModCases, SnIsInt
  <1>5. ModBase(a - 1, n) = (a - 1 - n) % Mod
    BY DEF ModBase
  <1>6. ModBase(a - 1, n) = ModBase((a - 1) % Mod, n)
    BY <1>1, <1>2, <1>4, <1>5, BaseCases, SnIsInt
  <1>. QED  BY <1>2, <1>3, <1>6

-----------------------------------------------------------------------------
(* The loops over the window *)

\* A non-empty set of naturals has a least element, the one Min chooses.
LEMMA MinIsLeast ==
    ASSUME NEW S \in SUBSET Nat, S # {}
    PROVE  Min(S) \in S /\ \A k \in S : Min(S) <= k
  <1>. DEFINE R == OpToRel(<, Nat)
  <1>1. PICK x \in S : \A y \in S : <<y, x>> \notin R
    BY NatLessThanWellFounded, WFMin
  <1>2. \A a, b \in Nat : a < b => <<a, b>> \in R
    BY DEF OpToRel
  <1>. HIDE DEF R
  <1>3. \A y \in S : ~(y < x)
    BY <1>1, <1>2
  <1>4. \A y \in S : x <= y
    BY <1>3
  <1>. QED  BY <1>4 DEF Min

\* The loops of handle_data_pdu and on_expired_reassembly_timer: the SN they stop
\* at is not received, or it is rx_next_highest, and they only pass received SDUs.
LEMMA LoopStops ==
    ASSUME rx_next \in SN, NEW window, NEW from \in SN, NEW highest \in SN,
           ModBase(from, rx_next) <= ModBase(highest, rx_next)
    PROVE  LET r == FirstNotReceived(window, from, highest)
           IN  /\ r \in SN
               /\ ModBase(from, rx_next) <= ModBase(r, rx_next)
               /\ ModBase(r, rx_next) <= ModBase(highest, rx_next)
               /\ r # highest => ~Received(window, r)
               /\ \A k \in SN : /\ ModBase(from, rx_next) <= k
                                /\ k < ModBase(r, rx_next)
                                => Received(window, (rx_next + k) % Mod)
  <1>. DEFINE first == ModBase(from, rx_next)
              last  == ModBase(highest, rx_next)
              Stops(k) == k >= last \/ ~Received(window, (rx_next + k) % Mod)
              S == {k \in first .. first + last : Stops(k)}
              m == Min(S)
              r == FirstNotReceived(window, from, highest)
  <1>1. first \in SN /\ last \in SN /\ first <= last
    BY BaseCases
  <1>2. r = (rx_next + m) % Mod
    BY DEF FirstNotReceived
  <1>. HIDE DEF first, last, r
  <1>3. S \in SUBSET Nat /\ last \in S
    BY <1>1, SnIsInt
  <1>4. m \in S /\ \A k \in S : m <= k
    <2>. HIDE DEF S
    <2>. QED  BY <1>3, MinIsLeast
  <1>. HIDE DEF m
  <1>5. m \in Int /\ first <= m /\ m <= last /\ Stops(m)
    BY <1>1, <1>3, <1>4, SnIsInt
  <1>6. \A k \in SN : first <= k /\ k < m => Received(window, (rx_next + k) % Mod)
    BY <1>1, <1>4, <1>5, SnIsInt
  <1>7. m \in SN
    BY <1>1, <1>5, SnIsInt
  <1>8. r \in SN /\ ModBase(r, rx_next) = m
    BY <1>2, <1>7, BaseOfOffset
  <1>9. r # highest => ~Received(window, r)
    <2>1. m = last => r = highest
      BY <1>2, BaseInverse DEF last
    <2>2. m >= last => m = last
      BY <1>1, <1>5, SnIsInt
    <2>. QED  BY <1>2, <1>5, <2>1, <2>2
  <1>. QED  BY <1>5, <1>6, <1>8, <1>9 DEF first, last, r

-----------------------------------------------------------------------------
(* The steps of the receiver *)

\* The flags that handle_full_data_sdu and handle_segment_data_sdu store are Boolean.
LEMMA EntryType ==
    ASSUME NEW pdu
    PROVE  /\ StorePdu(pdu).entry.fully_received \in BOOLEAN
           /\ StorePdu(pdu).entry.has_gap \in BOOLEAN
  <1>1. \A segments : FullyReceived(segments) \in BOOLEAN /\ HasGap(segments) \in BOOLEAN
    BY DEF FullyReceived, HasGap
  <1>. QED  BY <1>1 DEF StorePdu

\* A PDU a peer can form has a sequence number and a polling bit.
LEMMA PduType ==
    ASSUME NEW pdu \in Pdus PROVE pdu.sn \in SN /\ pdu.p \in BOOLEAN
  BY DEF Pdus

\* A PDU that is stored: the window and the edges after it, before the timer is updated.
LEMMA StoreStepFacts ==
    ASSUME RxInv, NEW pdu \in Pdus, Accepts(pdu), AdvanceWindow(pdu)
    PROVE  /\ rx_next' \in SN /\ rx_highest_status' \in SN /\ rx_next_highest' \in SN
           /\ DOMAIN rx_window' \subseteq SN
           /\ \A x \in DOMAIN rx_window' : /\ rx_window'[x].fully_received \in BOOLEAN
                                           /\ rx_window'[x].has_gap \in BOOLEAN
           /\ ModBase(rx_next', rx_next) <= ModBase(rx_highest_status', rx_next)
           /\ ModBase(rx_highest_status', rx_next) <= ModBase(rx_next_highest', rx_next)
           /\ ModBase(rx_next_highest', rx_next) <= Window
           /\ ModBase(rx_next_highest, rx_next) <= ModBase(rx_next_highest', rx_next)
           /\ ModBase(rx_highest_status, rx_next) <= ModBase(rx_highest_status', rx_next)
           /\ \A x \in DOMAIN rx_window' :
                  /\ ModBase(rx_next', rx_next) <= ModBase(x, rx_next)
                  /\ ModBase(x, rx_next) < ModBase(rx_next_highest', rx_next)
           /\ \A x \in DOMAIN rx_window :
                  ModBase(rx_next', rx_next) <= ModBase(x, rx_next) => x \in DOMAIN rx_window'
           /\ ~Received(rx_window', rx_next') /\ ~Received(rx_window', rx_highest_status')
           /\ rx_next_highest' # rx_next' => (rx_next_highest' - 1) % Mod \in DOMAIN rx_window'
           /\ \A k \in SN : 1 <= k /\ k < ModBase(rx_next', rx_next)
                            => Received(rx_window, (rx_next + k) % Mod)
           /\ \A x \in SN : /\ ModBase(rx_next', rx_next) <= ModBase(x, rx_next)
                            /\ \/ Received(rx_window, x)
                               \/ /\ ModBase(rx_highest_status, rx_next) <= ModBase(x, rx_next)
                                  /\ ModBase(x, rx_next) < ModBase(rx_highest_status', rx_next)
                            => Received(rx_window', x)
  <1>. DEFINE b(x) == ModBase(x, rx_next)
              window == [sn \in DOMAIN rx_window \union {pdu.sn} |->
                             IF sn = pdu.sn THEN StorePdu(pdu).entry ELSE rx_window[sn]]
              done == window[pdu.sn].fully_received
              highest == IF b(pdu.sn) >= b(rx_next_highest)
                         THEN (pdu.sn + 1) % Mod ELSE rx_next_highest
              next == IF done /\ pdu.sn = rx_next
                      THEN FirstNotReceived(window, rx_next, highest) ELSE rx_next
              status == IF done /\ pdu.sn = rx_highest_status
                        THEN FirstNotReceived(window, (pdu.sn + 1) % Mod, highest)
                        ELSE rx_highest_status
  <1>1. /\ rx_next' = next /\ rx_highest_status' = status /\ rx_next_highest' = highest
        /\ rx_window' = [sn \in {s \in DOMAIN window : b(s) >= b(next)} |-> window[sn]]
    BY DEF AdvanceWindow, NextHighest
  <1>2. /\ pdu.sn \in SN /\ rx_next \in SN /\ rx_highest_status \in SN /\ rx_next_highest \in SN
        /\ DOMAIN rx_window \subseteq SN
        /\ b(pdu.sn) < Window /\ ~Received(rx_window, pdu.sn)
        /\ b(rx_highest_status) <= b(rx_next_highest) /\ b(rx_next_highest) <= Window
        /\ \A x \in DOMAIN rx_window : b(x) < b(rx_next_highest)
        /\ ~Received(rx_window, rx_next) /\ ~Received(rx_window, rx_highest_status)
        /\ rx_next_highest # rx_next => (rx_next_highest - 1) % Mod \in DOMAIN rx_window
    BY PduType DEF RxInv, RxTypeOK, WindowOrder, EdgesMissing, Accepts, inside_rx_window
  <1>3. /\ DOMAIN window = DOMAIN rx_window \union {pdu.sn}
        /\ DOMAIN window \subseteq SN
        /\ done \in BOOLEAN
        /\ \A x \in DOMAIN window : /\ window[x].fully_received \in BOOLEAN
                                    /\ window[x].has_gap \in BOOLEAN
        /\ \A x : Received(window, x) <=> Received(rx_window, x) \/ (x = pdu.sn /\ done)
    <2>1. window[pdu.sn] = StorePdu(pdu).entry
      OBVIOUS
    <2>2. \A x \in DOMAIN rx_window : x # pdu.sn => window[x] = rx_window[x]
      OBVIOUS
    <2>3. DOMAIN window = DOMAIN rx_window \union {pdu.sn}
      OBVIOUS
    <2>4. \A x \in DOMAIN rx_window : /\ rx_window[x].fully_received \in BOOLEAN
                                      /\ rx_window[x].has_gap \in BOOLEAN
      BY DEF RxInv, RxTypeOK
    <2>. HIDE DEF window
    <2>5. \A x \in DOMAIN window : /\ window[x].fully_received \in BOOLEAN
                                   /\ window[x].has_gap \in BOOLEAN
      BY <2>1, <2>2, <2>3, <2>4, EntryType
    <2>6. \A x : Received(window, x) <=> Received(rx_window, x) \/ (x = pdu.sn /\ done)
      BY <2>1, <2>2, <2>3, <1>2 DEF Received
    <2>. QED  BY <2>3, <2>5, <2>6, <1>2
  <1>. HIDE DEF window, done
  <1>4. /\ b(pdu.sn) \in SN /\ b(rx_next_highest) \in SN /\ b(rx_highest_status) \in SN
        /\ b(rx_next) = 0
        /\ \A x \in DOMAIN window : b(x) \in SN
    BY <1>2, <1>3, BaseCases, SnIsInt
  <1>5. (pdu.sn + 1) % Mod \in SN /\ b((pdu.sn + 1) % Mod) = b(pdu.sn) + 1
    BY <1>2, <1>4, BaseSucc, SnIsInt
  <1>6. (((pdu.sn + 1) % Mod) - 1) % Mod = pdu.sn
    <2>1. (pdu.sn + 1) % Mod = IF pdu.sn + 1 < Mod THEN pdu.sn + 1 ELSE pdu.sn + 1 - Mod
      BY <1>2, ModCases, SnIsInt
    <2>2. (((pdu.sn + 1) % Mod) - 1) % Mod
            = IF ((pdu.sn + 1) % Mod) - 1 < 0 THEN ((pdu.sn + 1) % Mod) - 1 + Mod
              ELSE ((pdu.sn + 1) % Mod) - 1
      BY <1>2, <1>5, ModCases, SnIsInt
    <2>. QED  BY <1>2, <2>1, <2>2, SnIsInt
  <1>7. /\ highest \in SN /\ b(highest) \in SN /\ b(highest) <= Window
        /\ b(pdu.sn) < b(highest) /\ b(rx_next_highest) <= b(highest)
        /\ \A x \in DOMAIN window : b(x) < b(highest)
        /\ (highest - 1) % Mod \in DOMAIN window
        /\ b((highest - 1) % Mod) = b(highest) - 1
    <2>1. CASE b(pdu.sn) >= b(rx_next_highest)
      <3>1. highest = (pdu.sn + 1) % Mod
        BY <2>1
      <3>. HIDE DEF highest
      <3>. QED  BY <2>1, <3>1, <1>2, <1>3, <1>4, <1>5, <1>6, SnIsInt
    <2>2. CASE ~(b(pdu.sn) >= b(rx_next_highest))
      <3>1. highest = rx_next_highest
        BY <2>2
      <3>. HIDE DEF highest
      <3>2. rx_next_highest # rx_next
        BY <2>2, <1>4, SnIsInt
      <3>3. b((rx_next_highest - 1) % Mod) = b(rx_next_highest) - 1
        BY <3>2, <1>2, BasePred
      <3>. QED  BY <2>2, <3>1, <3>2, <3>3, <1>2, <1>3, <1>4, SnIsInt
    <2>. QED  BY <2>1, <2>2
  <1>. HIDE DEF highest
  <1>8. /\ next \in SN /\ b(next) \in SN /\ b(next) <= b(highest)
        /\ \A k \in SN : k < b(next) => Received(window, (rx_next + k) % Mod)
        /\ ~Received(window, next)
        /\ next = rx_next \/ pdu.sn = rx_next
    <2>1. CASE done /\ pdu.sn = rx_next
      <3>1. next = FirstNotReceived(window, rx_next, highest)
        BY <2>1
      <3>. HIDE DEF next
      <3>2. b(rx_next) <= b(highest)
        BY <1>4, <1>7, SnIsInt
      <3>3. /\ next \in SN /\ b(next) <= b(highest)
            /\ next # highest => ~Received(window, next)
            /\ \A k \in SN : b(rx_next) <= k /\ k < b(next) => Received(window, (rx_next + k) % Mod)
        BY <3>1, <3>2, <1>2, <1>7, LoopStops
      <3>4. ~Received(window, highest)
        BY <1>7, SnIsInt DEF Received
      <3>5. b(next) \in SN
        BY <3>3, <1>2, BaseCases
      <3>6. \A k \in SN : k < b(next) => Received(window, (rx_next + k) % Mod)
        BY <3>3, <1>4, SnIsInt
      <3>. QED  BY <2>1, <3>3, <3>4, <3>5, <3>6
    <2>2. CASE ~(done /\ pdu.sn = rx_next)
      <3>1. next = rx_next
        BY <2>2
      <3>. HIDE DEF next
      <3>2. ~Received(window, rx_next)
        BY <2>2, <1>2, <1>3
      <3>. QED  BY <3>1, <3>2, <1>2, <1>4, <1>7, SnIsInt
    <2>. QED  BY <2>1, <2>2
  <1>. HIDE DEF next
  <1>9. /\ status \in SN /\ b(status) \in SN /\ b(status) <= b(highest)
        /\ b(rx_highest_status) <= b(status)
        /\ ~Received(window, status)
        /\ \A k \in SN : b(rx_highest_status) <= k /\ k < b(status)
                         => Received(window, (rx_next + k) % Mod)
    <2>1. CASE done /\ pdu.sn = rx_highest_status
      <3>1. status = FirstNotReceived(window, (pdu.sn + 1) % Mod, highest)
        BY <2>1
      <3>. HIDE DEF status
      <3>2. b((pdu.sn + 1) % Mod) <= b(highest)
        BY <1>4, <1>5, <1>7, SnIsInt
      <3>3. /\ status \in SN /\ b(status) <= b(highest)
            /\ b((pdu.sn + 1) % Mod) <= b(status)
            /\ status # highest => ~Received(window, status)
            /\ \A k \in SN : b((pdu.sn + 1) % Mod) <= k /\ k < b(status)
                             => Received(window, (rx_next + k) % Mod)
        BY <3>1, <3>2, <1>2, <1>5, <1>7, LoopStops
      <3>4. ~Received(window, highest)
        BY <1>7, SnIsInt DEF Received
      <3>5. b(status) \in SN
        BY <3>3, <1>2, BaseCases
      <3>6. Received(window, (rx_next + b(rx_highest_status)) % Mod)
        BY <2>1, <1>2, <1>3, BaseInverse
      <3>7. ASSUME NEW k \in SN, b(rx_highest_status) <= k, k < b(status)
            PROVE  Received(window, (rx_next + k) % Mod)
        <4>1. k = b(rx_highest_status) \/ b((pdu.sn + 1) % Mod) <= k
          BY <2>1, <3>7, <1>4, <1>5, SnIsInt
        <4>. QED  BY <4>1, <3>3, <3>6, <3>7
      <3>8. b(rx_highest_status) <= b(status)
        BY <2>1, <3>3, <3>5, <1>4, <1>5, SnIsInt
      <3>. QED  BY <3>3, <3>4, <3>5, <3>7, <3>8
    <2>2. CASE ~(done /\ pdu.sn = rx_highest_status)
      <3>1. status = rx_highest_status
        BY <2>2
      <3>. HIDE DEF status
      <3>2. ~Received(window, rx_highest_status)
        BY <2>2, <1>2, <1>3
      <3>. QED  BY <3>1, <3>2, <1>2, <1>4, <1>7, SnIsInt
    <2>. QED  BY <2>1, <2>2
  <1>. HIDE DEF status
  <1>10. b(next) <= b(status)
    <2>1. b(status) < b(next) => Received(window, (rx_next + b(status)) % Mod)
      BY <1>8, <1>9
    <2>2. (rx_next + b(status)) % Mod = status
      BY <1>2, <1>9, BaseInverse
    <2>. QED  BY <2>1, <2>2, <1>8, <1>9, SnIsInt
  <1>11. /\ DOMAIN rx_window' = {x \in DOMAIN window : b(x) >= b(next)}
         /\ \A x \in DOMAIN rx_window' : rx_window'[x] = window[x]
    BY <1>1
  <1>12. \A x : Received(rx_window', x) => Received(window, x)
    BY <1>11 DEF Received
  <1>13. \A x : Received(window, x) /\ b(x) >= b(next) => Received(rx_window', x)
    BY <1>11 DEF Received
  <1>14. rx_next_highest' # rx_next' => (rx_next_highest' - 1) % Mod \in DOMAIN rx_window'
    <2>1. highest # next => b(highest) # b(next)
      BY <1>2, <1>7, <1>8, BaseInverse
    <2>2. highest # next => b((highest - 1) % Mod) >= b(next)
      BY <2>1, <1>7, <1>8, SnIsInt
    <2>. QED  BY <2>2, <1>1, <1>7, <1>11
  <1>15. ASSUME NEW k \in SN, 1 <= k, k < b(next)
         PROVE  Received(rx_window, (rx_next + k) % Mod)
    <2>1. b((rx_next + k) % Mod) = k
      BY <1>2, BaseOfOffset
    <2>2. next # rx_next
      BY <1>4, <1>15, SnIsInt
    <2>3. (rx_next + k) % Mod # pdu.sn
      BY <2>1, <2>2, <1>4, <1>8, <1>15, SnIsInt
    <2>. QED  BY <2>3, <1>3, <1>8, <1>15
  <1>16. ASSUME NEW x \in SN, b(next) <= b(x),
                Received(rx_window, x) \/ (b(rx_highest_status) <= b(x) /\ b(x) < b(status))
         PROVE  Received(rx_window', x)
    <2>1. b(x) \in SN /\ (rx_next + b(x)) % Mod = x
      BY <1>2, BaseInverse, BaseCases
    <2>2. Received(window, x)
      BY <2>1, <1>3, <1>9, <1>16
    <2>. QED  BY <2>1, <2>2, <1>8, <1>13, <1>16, SnIsInt
  <1>17. \A x \in DOMAIN rx_window' : /\ x \in SN
                                      /\ b(rx_next') <= b(x)
                                      /\ b(x) < b(rx_next_highest')
                                      /\ rx_window'[x].fully_received \in BOOLEAN
                                      /\ rx_window'[x].has_gap \in BOOLEAN
    BY <1>1, <1>3, <1>4, <1>7, <1>8, <1>11, SnIsInt
  <1>18. \A x \in DOMAIN rx_window : b(rx_next') <= b(x) => x \in DOMAIN rx_window'
    BY <1>1, <1>3, <1>4, <1>8, <1>11, SnIsInt
  <1>19. ~Received(rx_window', rx_next') /\ ~Received(rx_window', rx_highest_status')
    BY <1>1, <1>8, <1>9, <1>12
  <1>20. /\ rx_next' \in SN /\ rx_highest_status' \in SN /\ rx_next_highest' \in SN
         /\ b(rx_next') <= b(rx_highest_status')
         /\ b(rx_highest_status') <= b(rx_next_highest')
         /\ b(rx_next_highest') <= Window
         /\ b(rx_next_highest) <= b(rx_next_highest')
         /\ b(rx_highest_status) <= b(rx_highest_status')
    BY <1>1, <1>7, <1>8, <1>9, <1>10
  <1>. HIDE DEF b
  <1>21. /\ \A k \in SN : 1 <= k /\ k < b(rx_next') => Received(rx_window, (rx_next + k) % Mod)
         /\ \A x \in SN : /\ b(rx_next') <= b(x)
                          /\ \/ Received(rx_window, x)
                             \/ b(rx_highest_status) <= b(x) /\ b(x) < b(rx_highest_status')
                          => Received(rx_window', x)
    BY <1>1, <1>15, <1>16
  <1>. QED  BY <1>14, <1>17, <1>18, <1>19, <1>20, <1>21 DEF b

\* A stored PDU preserves the invariant, whatever it does to t-Reassembly.
LEMMA StoreKeepsInv ==
    ASSUME RxInv, NEW pdu \in Pdus, HandleDataPdu(pdu), Accepts(pdu),
           AdvanceWindow(pdu), UpdateReassemblyTimer
    PROVE  RxInv'
  <1>. DEFINE b(x) == ModBase(x, rx_next)
              c(x) == ModBase(x, rx_next')
              t == rx_next_status_trigger
              running == reassembly_timer /\ ~StopReassemblyTimer
              start == \/ c(rx_next_highest') > 1
                       \/ c(rx_next_highest') = 1 /\ Gap(rx_window', rx_next')
  <1>1. /\ rx_next' \in SN /\ rx_highest_status' \in SN /\ rx_next_highest' \in SN
        /\ DOMAIN rx_window' \subseteq SN
        /\ b(rx_next') <= b(rx_highest_status')
        /\ b(rx_highest_status') <= b(rx_next_highest')
        /\ b(rx_next_highest') <= Window
        /\ b(rx_next_highest) <= b(rx_next_highest')
        /\ \A x \in DOMAIN rx_window' : b(rx_next') <= b(x) /\ b(x) < b(rx_next_highest')
        /\ \A x \in DOMAIN rx_window : b(rx_next') <= b(x) => x \in DOMAIN rx_window'
    BY StoreStepFacts
  <1>2. /\ rx_next_highest' # rx_next' => (rx_next_highest' - 1) % Mod \in DOMAIN rx_window'
        /\ EdgesMissing'
        /\ \A x \in DOMAIN rx_window' : /\ rx_window'[x].fully_received \in BOOLEAN
                                        /\ rx_window'[x].has_gap \in BOOLEAN
    BY StoreStepFacts DEF EdgesMissing
  <1>3. \A x \in SN : /\ b(rx_next') <= b(x)
                      /\ \/ Received(rx_window, x)
                         \/ b(rx_highest_status) <= b(x) /\ b(x) < b(rx_highest_status')
                      => Received(rx_window', x)
    BY StoreStepFacts
  <1>4. /\ rx_next \in SN /\ t \in SN /\ rx_highest_status \in SN /\ rx_next_highest \in SN
        /\ DOMAIN rx_window \subseteq SN /\ reassembly_timer \in BOOLEAN /\ do_status \in BOOLEAN
        /\ status_prohibit_timer \in BOOLEAN
        /\ b(rx_next_highest) <= Window
        /\ reassembly_timer => b(t - 1) < b(rx_next_highest) /\ (t - 1) % Mod \in DOMAIN rx_window
        /\ reassembly_timer => \A k \in SN : b(t) <= k /\ k < b(rx_highest_status)
                                             => Received(rx_window, (rx_next + k) % Mod)
    BY DEF RxInv, RxTypeOK, WindowOrder, TriggerReceived
  <1>5. /\ reassembly_timer' = (running \/ start)
        /\ rx_next_status_trigger' = IF ~running /\ start THEN rx_next_highest' ELSE t
        /\ rx_aborted' = (reassembly_timer /\ TriggerAboveNext /\ rx_next' \notin DOMAIN rx_window')
    BY DEF UpdateReassemblyTimer, StartReassemblyTimer
  <1>6. \A x \in SN : /\ b(x) \in SN /\ c(x) \in SN
                      /\ b(x) >= b(rx_next') => c(x) = b(x) - b(rx_next')
                      /\ b(x) < b(rx_next') => c(x) = b(x) - b(rx_next') + Mod
    <2>. SUFFICES ASSUME NEW x \in SN
                  PROVE  /\ b(x) \in SN /\ c(x) \in SN
                         /\ b(x) >= b(rx_next') => c(x) = b(x) - b(rx_next')
                         /\ b(x) < b(rx_next') => c(x) = b(x) - b(rx_next') + Mod
      OBVIOUS
    <2>1. b(x) \in SN /\ c(x) \in SN /\ b(rx_next') \in SN
      BY <1>1, <1>4, BaseCases
    <2>2. c(x) = IF b(x) >= b(rx_next') THEN b(x) - b(rx_next') ELSE b(x) - b(rx_next') + Mod
      BY <1>1, <1>4, Rebase
    <2>. QED  BY <2>1, <2>2, SnIsInt
  <1>7. b(rx_next') \in SN
    BY <1>1, <1>6
  <1>8. reassembly_timer =>
            /\ (t - 1) % Mod \in SN
            /\ b((t - 1) % Mod) = b(t) - 1
            /\ b(t) - 1 < b(rx_next_highest)
    <2>1. /\ (t - 1) % Mod \in SN /\ b(t - 1) = b((t - 1) % Mod)
          /\ b((t - 1) % Mod) = IF t = rx_next THEN Mod - 1 ELSE b(t) - 1
      BY <1>4, BasePred
    <2>. QED  BY <2>1, <1>4, <1>6, SnIsInt
  \* The trigger of a timer that keeps running stays above the new lower edge
  <1>9. running => b(rx_next') <= b(t) - 1
    <2>1. SUFFICES ASSUME running, ~(b(rx_next') <= b(t) - 1) PROVE FALSE
      OBVIOUS
    <2>2. t # rx_next' /\ c(t) < Window
      BY <2>1 DEF StopReassemblyTimer, inside_rx_window
    <2>3. b(t) # b(rx_next')
      BY <2>2, <1>1, <1>4, BaseInverse
    <2>4. b(t) < b(rx_next')
      BY <2>1, <2>3, <1>4, <1>6, <1>7, SnIsInt
    <2>5. b(rx_next') <= Window
      BY <1>1, <1>6, SnIsInt
    <2>. QED  BY <2>2, <2>4, <2>5, <1>4, <1>6, <1>7, SnIsInt
  <1>10. WindowOrder'
    <2>1. c(rx_highest_status') <= c(rx_next_highest') /\ c(rx_next_highest') <= Window
      BY <1>1, <1>6, <1>7, SnIsInt
    <2>2. \A x \in DOMAIN rx_window' : c(x) < c(rx_next_highest')
      BY <1>1, <1>6, <1>7, SnIsInt
    <2>. QED  BY <2>1, <2>2 DEF WindowOrder
  <1>11. RxNoAssert'
    <2>1. SUFFICES ASSUME reassembly_timer, c(t) = 1 PROVE rx_next' \in DOMAIN rx_window'
      BY <1>5 DEF RxNoAssert, TriggerAboveNext
    <2>2. b(t) = b(rx_next') + 1 \/ b(t) = b(rx_next') + 1 - Mod
      BY <2>1, <1>4, <1>6, <1>7, SnIsInt
    <2>3. b(rx_next') <= Window /\ b(t) >= 0
      BY <1>1, <1>4, <1>6, SnIsInt
    <2>4. b((t - 1) % Mod) = b(rx_next')
      BY <2>1, <2>2, <2>3, <1>4, <1>6, <1>7, <1>8, SnIsInt
    <2>5. (t - 1) % Mod = rx_next'
      BY <2>1, <2>4, <1>1, <1>4, <1>8, BaseInverse
    <2>. QED  BY <2>1, <2>5, <1>1, <1>4, <1>7, SnIsInt
  <1>12. GapWatched'
    <2>1. SUFFICES ASSUME ~reassembly_timer'
                   PROVE  /\ ModBase(rx_next_highest', rx_highest_status') <= 1
                          /\ rx_next_highest' # rx_highest_status'
                             => ~Gap(rx_window', rx_highest_status')
      BY DEF GapWatched
    <2>2. ~start
      BY <2>1, <1>5
    <2>3. c(rx_highest_status') <= c(rx_next_highest') /\ c(rx_next_highest') <= 1
      BY <2>2, <1>1, <1>6, <1>10, SnIsInt DEF WindowOrder
    <2>4. c(rx_next_highest') = c(rx_highest_status') => rx_next_highest' = rx_highest_status'
      BY <1>1, BaseInverse
    <2>5. c(rx_highest_status') = 0 => rx_highest_status' = rx_next'
      BY <1>1, BaseCases, SnIsInt
    <2>6. ModBase(rx_next_highest', rx_highest_status')
            = c(rx_next_highest') - c(rx_highest_status')
      BY <2>3, <1>1, Rebase
    <2>. QED  BY <2>2, <2>3, <2>4, <2>5, <2>6, <1>1, <1>6, SnIsInt
  <1>13. TriggerReceived'
    <2>1. SUFFICES ASSUME reassembly_timer'
                   PROVE  /\ c(rx_next_status_trigger' - 1) < c(rx_next_highest')
                          /\ (rx_next_status_trigger' - 1) % Mod \in DOMAIN rx_window'
      BY DEF TriggerReceived
    <2>2. CASE running
      <3>1. rx_next_status_trigger' = t
        BY <2>2, <1>5
      <3>2. (t - 1) % Mod \in DOMAIN rx_window'
        BY <2>2, <1>1, <1>4, <1>8, <1>9
      <3>3. c(t - 1) = c((t - 1) % Mod)
        BY <1>1, <1>4, BasePred
      <3>4. c((t - 1) % Mod) < c(rx_next_highest')
        BY <3>2, <1>10 DEF WindowOrder
      <3>. QED  BY <3>1, <3>2, <3>3, <3>4
    <2>3. CASE ~running
      <3>1. start /\ rx_next_status_trigger' = rx_next_highest'
        BY <2>1, <2>3, <1>5
      <3>2. rx_next_highest' # rx_next'
        BY <3>1, <1>1, BaseCases, SnIsInt
      <3>3. (rx_next_highest' - 1) % Mod \in DOMAIN rx_window'
        BY <3>2, <1>2
      <3>4. c(rx_next_highest' - 1) = c((rx_next_highest' - 1) % Mod)
        BY <1>1, BasePred
      <3>5. c((rx_next_highest' - 1) % Mod) < c(rx_next_highest')
        BY <3>3, <1>10 DEF WindowOrder
      <3>. QED  BY <3>1, <3>3, <3>4, <3>5
    <2>. QED  BY <2>2, <2>3
  <1>14. ASSUME reassembly_timer',
                NEW k \in SN, c(rx_next_status_trigger') <= k, k < c(rx_highest_status')
         PROVE  Received(rx_window', (rx_next' + k) % Mod)
    <2>. DEFINE x == (rx_next' + k) % Mod
    <2>1. x \in SN /\ c(x) = k
      BY <1>1, BaseOfOffset
    <2>. HIDE DEF x
    <2>2. running
      <3>1. ~running => rx_next_status_trigger' = rx_next_highest'
        BY <1>5, <1>14
      <3>2. c(rx_highest_status') <= c(rx_next_highest')
        BY <1>10 DEF WindowOrder
      <3>. QED  BY <3>1, <3>2, <1>1, <1>6, <1>14, SnIsInt
    <2>3. rx_next_status_trigger' = t
      BY <2>2, <1>5
    <2>4. c(t) = b(t) - b(rx_next')
      BY <2>2, <1>4, <1>6, <1>7, <1>9, SnIsInt
    <2>5. c(rx_highest_status') = b(rx_highest_status') - b(rx_next')
          /\ b(rx_highest_status') <= Window
      BY <1>1, <1>6, <1>7, SnIsInt
    <2>6. b(x) = k + b(rx_next')
      BY <2>1, <2>5, <1>1, <1>6, <1>7, <1>14, SnIsInt
    <2>7. b(rx_next') <= b(x) /\ b(t) <= b(x) /\ b(x) < b(rx_highest_status')
      BY <2>3, <2>4, <2>5, <2>6, <1>1, <1>4, <1>6, <1>7, <1>14, SnIsInt
    <2>8. (rx_next + b(x)) % Mod = x /\ b(x) \in SN
      BY <2>1, <1>4, BaseInverse, BaseCases
    <2>9. b(x) < b(rx_highest_status) => Received(rx_window, x)
      BY <2>2, <2>7, <2>8, <1>4
    <2>10. b(x) < b(rx_highest_status) \/ b(rx_highest_status) <= b(x)
      BY <2>1, <1>4, <1>6, SnIsInt
    <2>. QED  BY <2>1, <2>7, <2>9, <2>10, <1>3 DEF x
  <1>15. RxTypeOK'
    <2>1. rx_next_status_trigger' \in SN
      BY <1>1, <1>4, <1>5
    <2>2. reassembly_timer' \in BOOLEAN /\ rx_aborted' \in BOOLEAN
      BY <1>5
    <2>3. do_status' \in BOOLEAN /\ status_prohibit_timer' \in BOOLEAN
      BY <1>4, PduType DEF HandleDataPdu, StatusRequested
    <2>. QED  BY <1>1, <1>2, <2>1, <2>2, <2>3 DEF RxTypeOK
  <1>16. reassembly_timer' => \A k \in SN : /\ c(rx_next_status_trigger') <= k
                                            /\ k < c(rx_highest_status')
                                            => Received(rx_window', (rx_next' + k) % Mod)
    BY <1>14
  <1>. QED  BY <1>2, <1>10, <1>11, <1>12, <1>13, <1>15, <1>16 DEF RxInv

\* An expiry of t-Reassembly preserves the invariant, and moves rx_highest_status forward.
LEMMA ExpiryKeepsInv ==
    ASSUME RxInv, OnExpiredReassemblyTimer
    PROVE  /\ RxInv'
           /\ rx_highest_status' \in SN
           /\ ModBase(rx_highest_status, rx_next) <= ModBase(rx_highest_status', rx_next)
           /\ ModBase(rx_highest_status', rx_next) <= Window
  <1>. DEFINE b(x) == ModBase(x, rx_next)
              t == rx_next_status_trigger
              status == FirstNotReceived(rx_window, t, rx_next_highest)
              restart == \/ b(rx_next_highest) > b(status + 1)
                         \/ b(rx_next_highest) = b(status + 1) /\ Gap(rx_window, status)
  <1>1. /\ rx_next \in SN /\ t \in SN /\ rx_highest_status \in SN /\ rx_next_highest \in SN
        /\ b(rx_highest_status) <= b(rx_next_highest) /\ b(rx_next_highest) <= Window
        /\ \A x \in DOMAIN rx_window : b(x) < b(rx_next_highest)
        /\ b(t - 1) < b(rx_next_highest) /\ (t - 1) % Mod \in DOMAIN rx_window
        /\ \A k \in SN : b(t) <= k /\ k < b(rx_highest_status)
                         => Received(rx_window, (rx_next + k) % Mod)
        /\ ~Received(rx_window, rx_highest_status)
        /\ rx_next_highest # rx_next => (rx_next_highest - 1) % Mod \in DOMAIN rx_window
    BY DEF RxInv, RxTypeOK, WindowOrder, EdgesMissing, TriggerReceived, OnExpiredReassemblyTimer
  <1>2. b(t) \in SN /\ b(rx_next_highest) \in SN /\ b(rx_highest_status) \in SN
    BY <1>1, BaseCases
  <1>3. 1 <= b(t) /\ b(t) <= b(rx_next_highest)
    <2>1. /\ b(t - 1) = b((t - 1) % Mod)
          /\ b((t - 1) % Mod) = IF t = rx_next THEN Mod - 1 ELSE b(t) - 1
      BY <1>1, BasePred
    <2>2. t # rx_next
      BY <2>1, <1>1, <1>2, SnIsInt
    <2>3. \A a, n \in SN : a # n => ModBase(a, n) # 0
      BY BaseCases, SnIsInt
    <2>4. b(t) # 0
      BY <2>2, <2>3, <1>1
    <2>. QED  BY <2>1, <2>2, <2>4, <1>1, <1>2, SnIsInt
  <1>4. /\ status \in SN /\ b(t) <= b(status) /\ b(status) <= b(rx_next_highest)
        /\ status # rx_next_highest => ~Received(rx_window, status)
    BY <1>1, <1>3, LoopStops
  <1>5. valid_ack_sn(t)
    BY <1>1, <1>2, <1>3, SnIsInt DEF valid_ack_sn
  <1>6. /\ rx_highest_status' = status
        /\ rx_aborted' = ~valid_ack_sn(status)
        /\ reassembly_timer' = restart
        /\ rx_next_status_trigger' = IF restart THEN rx_next_highest ELSE t
        /\ do_status' = TRUE
        /\ UNCHANGED <<rx_next, rx_next_highest, rx_window, status_prohibit_timer>>
    BY <1>5 DEF OnExpiredReassemblyTimer
  <1>. HIDE DEF status
  <1>7. b(status) \in SN /\ 1 <= b(status) /\ b(status) <= Window
    BY <1>1, <1>2, <1>3, <1>4, BaseCases, SnIsInt
  <1>8. b(status + 1) = b(status) + 1
    BY <1>1, <1>4, <1>7, BaseSucc, SnIsInt
  <1>9. ~Received(rx_window, status)
    BY <1>1, <1>2, <1>4, SnIsInt DEF Received
  <1>10. b(rx_highest_status) <= b(status)
    <2>1. b(status) < b(rx_highest_status) => Received(rx_window, (rx_next + b(status)) % Mod)
      BY <1>1, <1>4, <1>7
    <2>2. (rx_next + b(status)) % Mod = status
      BY <1>1, <1>4, BaseInverse
    <2>. QED  BY <2>1, <2>2, <1>2, <1>7, <1>9, SnIsInt
  <1>11. RxTypeOK' /\ WindowOrder' /\ EdgesMissing' /\ RxNoAssert'
    <2>1. RxTypeOK'
      BY <1>1, <1>4, <1>6 DEF RxInv, RxTypeOK
    <2>2. WindowOrder'
      BY <1>1, <1>4, <1>6 DEF WindowOrder
    <2>3. EdgesMissing'
      BY <1>6, <1>9 DEF RxInv, EdgesMissing
    <2>4. RxNoAssert'
      <3>1. valid_ack_sn(status)
        BY <1>7, SnIsInt DEF valid_ack_sn
      <3>. QED  BY <3>1, <1>6 DEF RxNoAssert
    <2>. QED  BY <2>1, <2>2, <2>3, <2>4
  <1>12. GapWatched'
    <2>1. SUFFICES ASSUME ~restart
                   PROVE  /\ ModBase(rx_next_highest, status) <= 1
                          /\ rx_next_highest # status => ~Gap(rx_window, status)
      BY <1>6 DEF GapWatched
    <2>2. b(rx_next_highest) <= b(status) + 1
      BY <2>1, <1>2, <1>7, <1>8, SnIsInt
    <2>3. ModBase(rx_next_highest, status) = b(rx_next_highest) - b(status)
      BY <1>1, <1>4, Rebase, <1>2, <1>7, SnIsInt
    <2>4. b(rx_next_highest) = b(status) => rx_next_highest = status
      BY <1>1, <1>4, BaseInverse
    <2>5. rx_next_highest # status => b(rx_next_highest) = b(status + 1)
      BY <2>2, <2>4, <1>2, <1>4, <1>7, <1>8, SnIsInt
    <2>. QED  BY <2>1, <2>2, <2>3, <2>5, <1>2, <1>7, SnIsInt
  <1>13. TriggerReceived'
    <2>1. SUFFICES ASSUME restart
                   PROVE  /\ b(rx_next_highest - 1) < b(rx_next_highest)
                          /\ (rx_next_highest - 1) % Mod \in DOMAIN rx_window
      BY <1>6 DEF TriggerReceived
    <2>2. rx_next_highest # rx_next
      BY <2>1, <1>1, <1>2, <1>7, <1>8, BaseCases, SnIsInt
    <2>3. b(rx_next_highest - 1) = b((rx_next_highest - 1) % Mod)
      BY <1>1, BasePred
    <2>. QED  BY <2>2, <2>3, <1>1
  <1>14. reassembly_timer' => \A k \in SN : /\ ModBase(rx_next_status_trigger', rx_next') <= k
                                            /\ k < ModBase(rx_highest_status', rx_next')
                                            => Received(rx_window', (rx_next' + k) % Mod)
    <2>1. restart => rx_next_status_trigger' = rx_next_highest
      BY <1>6
    <2>2. \A k \in SN : ~(b(rx_next_highest) <= k /\ k < b(status))
      BY <1>2, <1>4, <1>7, SnIsInt
    <2>. QED  BY <2>1, <2>2, <1>6
  <1>. QED  BY <1>1, <1>4, <1>6, <1>7, <1>10, <1>11, <1>12, <1>13, <1>14 DEF RxInv

-----------------------------------------------------------------------------
(* Theorems *)

\* A step of the receiver that leaves its window state alone preserves the invariant.
LEMMA StutterKeepsInv ==
    ASSUME RxInv, UNCHANGED <<rx_state, rx_aborted>>,
           do_status' \in BOOLEAN, status_prohibit_timer' \in BOOLEAN
    PROVE  RxInv'
  BY DEF RxInv, RxTypeOK, WindowOrder, EdgesMissing, RxNoAssert, GapWatched, TriggerReceived,
         rx_state, Received, Gap, ModBase

\* The invariant holds initially.
LEMMA InitEstablishesInv ==
    RxInit => RxInv
  <1>. SUFFICES ASSUME RxInit PROVE RxInv
    OBVIOUS
  <1>1. 0 \in SN /\ ModBase(0, 0) = 0
    BY BaseCases, SnIsInt
  <1>2. DOMAIN rx_window = {}
    BY DEF RxInit, NoSn
  <1>3. RxTypeOK /\ RxNoAssert
    BY <1>1, <1>2 DEF RxInit, RxTypeOK, RxNoAssert
  <1>4. WindowOrder /\ GapWatched
    BY <1>1, <1>2, SnIsInt DEF RxInit, WindowOrder, GapWatched
  <1>5. EdgesMissing /\ TriggerReceived
    BY <1>2 DEF RxInit, EdgesMissing, TriggerReceived, Received
  <1>. QED  BY <1>3, <1>4, <1>5 DEF RxInit, RxInv

\* Every step of the receiver preserves the invariant.
LEMMA NextKeepsInv ==
    RxInv /\ [RxNext]_rx_vars => RxInv'
  <1>. SUFFICES ASSUME RxInv, [RxNext]_rx_vars PROVE RxInv'
    OBVIOUS
  <1>1. {do_status, status_prohibit_timer} \subseteq BOOLEAN
    BY DEF RxInv, RxTypeOK
  <1>2. ASSUME NEW pdu \in Pdus, HandleDataPdu(pdu) PROVE RxInv'
    <2>1. CASE Accepts(pdu)
      BY <1>2, <2>1, StoreKeepsInv DEF HandleDataPdu
    <2>2. CASE ~Accepts(pdu)
      BY <1>1, <1>2, <2>2, PduType, StutterKeepsInv DEF HandleDataPdu, StatusRequested
    <2>. QED  BY <2>1, <2>2
  <1>3. CASE OnExpiredReassemblyTimer
    BY <1>3, ExpiryKeepsInv
  <1>4. CASE GetStatusPdu
    BY <1>1, <1>4, StatusProhibitAssumption, StutterKeepsInv DEF GetStatusPdu
  <1>5. CASE OnExpiredStatusProhibitTimer
    BY <1>1, <1>5, StutterKeepsInv DEF OnExpiredStatusProhibitTimer
  <1>6. CASE UNCHANGED rx_vars
    BY <1>1, <1>6, StutterKeepsInv DEF rx_vars
  <1>. QED  BY <1>2, <1>3, <1>4, <1>5, <1>6 DEF RxNext

\* The receiver always satisfies its inductive invariant.
THEOREM RxInvariance ==
    RxSpec => []RxInv
  BY InitEstablishesInv, NextKeepsInv, PTL DEF RxSpec

\* The lower edge, the acknowledgement and the highest SN received keep their order
\* and stay within one window, across every wrap-around of the SN space.
THEOREM RxWindowOrder ==
    RxSpec => []WindowOrder
  <1>1. RxInv => WindowOrder
    BY DEF RxInv
  <1>. QED  BY <1>1, RxInvariance, PTL

\* The state of the receiver always has its type.
THEOREM RxTypeCorrect ==
    RxSpec => []RxTypeOK
  <1>1. RxInv => RxTypeOK
    BY DEF RxInv
  <1>. QED  BY <1>1, RxInvariance, PTL

\* rx_next and rx_highest_status never name a complete SDU.
THEOREM RxEdgesMissing ==
    RxSpec => []EdgesMissing
  <1>1. RxInv => EdgesMissing
    BY DEF RxInv
  <1>. QED  BY <1>1, RxInvariance, PTL

\* No assertion and no unchecked window access of the receiver ever fails.
THEOREM RxAssertionsHold ==
    RxSpec => []RxNoAssert
  <1>1. RxInv => RxNoAssert
    BY DEF RxInv
  <1>. QED  BY <1>1, RxInvariance, PTL

\* While t-Reassembly is stopped there is no loss the report does not cover.
THEOREM RxLossesWatched ==
    RxSpec => []GapWatched
  <1>1. RxInv => GapWatched
    BY DEF RxInv
  <1>. QED  BY <1>1, RxInvariance, PTL

\* The trigger of a running t-Reassembly follows an SN that was received and is in the window.
THEOREM RxTriggerReceived ==
    RxSpec => []TriggerReceived
  <1>1. RxInv => TriggerReceived
    BY DEF RxInv
  <1>. QED  BY <1>1, RxInvariance, PTL

\* In every step rx_next passes complete SDUs only, and neither it nor
\* rx_highest_status moves backwards.
THEOREM RxEdgesAdvance ==
    RxSpec => EdgesAdvance
  <1>. DEFINE b(x) == ModBase(x, rx_next)
              A == /\ \A k \in 1 .. b(rx_next') - 1 : Received(rx_window, (rx_next + k) % Mod)
                   /\ b(rx_next') <= Window
                   /\ ModBase(rx_highest_status', rx_highest_status) <= Window
  <1>1. ASSUME RxInv, [RxNext]_rx_vars PROVE [A]_rx_vars
    <2>1. rx_next \in SN /\ rx_highest_status \in SN
      BY <1>1 DEF RxInv, RxTypeOK
    <2>2. b(rx_highest_status) <= Window
      BY <1>1, <2>1, BaseCases, SnIsInt DEF RxInv, WindowOrder, RxTypeOK
    <2>3. ASSUME UNCHANGED <<rx_next, rx_highest_status>> PROVE A
      BY <2>1, <2>3, BaseCases, SnIsInt
    <2>4. ASSUME rx_highest_status' \in SN,
                 b(rx_highest_status) <= b(rx_highest_status'), b(rx_highest_status') <= Window
          PROVE  ModBase(rx_highest_status', rx_highest_status) <= Window
      <3>1. b(rx_highest_status) \in SN /\ b(rx_highest_status') \in SN
        BY <2>1, <2>4, BaseCases
      <3>2. ModBase(rx_highest_status', rx_highest_status)
              = b(rx_highest_status') - b(rx_highest_status)
        BY <2>1, <2>4, <3>1, Rebase, SnIsInt
      <3>. QED  BY <2>4, <3>1, <3>2, SnIsInt
    <2>5. ASSUME NEW pdu \in Pdus, HandleDataPdu(pdu) PROVE A
      <3>1. CASE ~Accepts(pdu)
        BY <2>3, <2>5, <3>1 DEF HandleDataPdu, rx_state
      <3>2. CASE Accepts(pdu)
        <4>1. AdvanceWindow(pdu)
          BY <2>5, <3>2 DEF HandleDataPdu
        <4>2. /\ rx_next' \in SN /\ rx_highest_status' \in SN /\ rx_next_highest' \in SN
              /\ b(rx_next') <= b(rx_highest_status')
              /\ b(rx_highest_status') <= b(rx_next_highest')
              /\ b(rx_next_highest') <= Window
              /\ b(rx_highest_status) <= b(rx_highest_status')
              /\ \A k \in SN : 1 <= k /\ k < b(rx_next')
                               => Received(rx_window, (rx_next + k) % Mod)
          BY <1>1, <3>2, <4>1, StoreStepFacts
        <4>3. b(rx_next') \in SN /\ b(rx_highest_status') \in SN /\ b(rx_next_highest') \in SN
          BY <2>1, <4>2, BaseCases
        <4>4. b(rx_highest_status') <= Window /\ b(rx_next') <= Window
          BY <4>2, <4>3, SnIsInt
        <4>5. \A k \in 1 .. b(rx_next') - 1 : k \in SN /\ 1 <= k /\ k < b(rx_next')
          BY <4>3, SnIsInt
        <4>. QED  BY <2>4, <4>2, <4>4, <4>5
      <3>. QED  BY <3>1, <3>2
    <2>6. ASSUME OnExpiredReassemblyTimer PROVE A
      <3>1. rx_next' = rx_next
        BY <2>6 DEF OnExpiredReassemblyTimer
      <3>2. b(rx_next') = 0
        BY <2>1, <3>1, BaseCases, SnIsInt
      <3>3. ModBase(rx_highest_status', rx_highest_status) <= Window
        BY <1>1, <2>4, <2>6, ExpiryKeepsInv
      <3>. QED  BY <3>2, <3>3, SnIsInt
    <2>7. ASSUME GetStatusPdu \/ OnExpiredStatusProhibitTimer PROVE A
      BY <2>3, <2>7 DEF GetStatusPdu, OnExpiredStatusProhibitTimer, rx_state
    <2>. QED  BY <1>1, <2>5, <2>6, <2>7 DEF RxNext
  <1>2. RxInv /\ [RxNext]_rx_vars => [A]_rx_vars
    BY <1>1
  <1>3. [][A]_rx_vars => EdgesAdvance
    BY DEF EdgesAdvance
  <1>. HIDE DEF A
  <1>. QED  BY <1>2, <1>3, RxInvariance, PTL DEF RxSpec
=============================================================================
