--------------------------- MODULE PdcpLinkProofs ---------------------------
(***************************************************************************)
(* Proofs about a PDCP bearer, for every size of the SN and HFN fields,    *)
(* every bearer and t-Reordering configuration, every start and any number *)
(* of SDUs and re-establishments, as long as the upper layer keeps at most *)
(* half of the SN space outstanding.                                       *)
(*                                                                         *)
(* The argument: within one life of the counters an SDU's number is its    *)
(* COUNT plus a constant, on the wire and in both maps.  The receiver      *)
(* accepts a PDU only under the COUNT it was sent with, stores it between  *)
(* RX_DELIV and RX_NEXT and passes up what is below RX_DELIV in ascending  *)
(* order, so that the SDUs passed up always have numbers below those of    *)
(* the SDUs that are still to come.  A reset of the counters changes the   *)
(* constant to the number of the next SDU, and the key with it.            *)
(***************************************************************************)
EXTENDS PdcpLink, FiniteSetTheorems, TLAPS

(* Leaves are small, but many: the provers get more than the default seconds. *)
USE SMTT(10), ZenonT(10), SMTT(40), ZenonT(40)

-----------------------------------------------------------------------------
(* The order in which a map is visited *)

\* The elements of S below x, and how many they are
Below(S, x) == {y \in S : y < x}
Rank(S, x) == Cardinality(Below(S, x))

\* The rank of an element is a number below the number of elements.
LEMMA RankType ==
    ASSUME NEW S, IsFiniteSet(S), S \subseteq Int, NEW x \in S
    PROVE  IsFiniteSet(Below(S, x)) /\ Rank(S, x) \in Nat /\ Cardinality(S) \in Nat /\ Rank(S, x) < Cardinality(S)
  <1>1. Below(S, x) \in SUBSET S /\ Below(S, x) # S
    BY DEF Below
  <1>2. IsFiniteSet(Below(S, x)) /\ Rank(S, x) <= Cardinality(S) /\ Rank(S, x) # Cardinality(S)
    BY <1>1, FS_Subset DEF Rank
  <1>3. Rank(S, x) \in Nat /\ Cardinality(S) \in Nat
    BY <1>2, FS_CardinalityType DEF Rank
  <1>. QED  BY <1>2, <1>3

\* Ranks grow with the elements.
LEMMA RankMonotone ==
    ASSUME NEW S, IsFiniteSet(S), S \subseteq Int, NEW x \in S, NEW y \in S, x < y
    PROVE  Rank(S, x) < Rank(S, y)
  <1>1. IsFiniteSet(Below(S, y)) /\ Rank(S, x) \in Nat /\ Rank(S, y) \in Nat
    BY ZenonT(40), RankType
  <1>2. Below(S, x) \in SUBSET Below(S, y)
    <2>1. ASSUME NEW z \in S, z < x
          PROVE  z < y
      <3>1. x \in Int /\ y \in Int /\ z \in Int
        OBVIOUS
      <3>. QED  BY <2>1, <3>1
    <2>. QED  BY ZenonT(40), <2>1 DEF Below
  <1>3. x \in Below(S, y) /\ x \notin Below(S, x)
    BY DEF Below
  <1>4. Rank(S, x) <= Rank(S, y) /\ Rank(S, x) # Rank(S, y)
    BY <1>1, <1>2, <1>3, FS_Subset DEF Rank
  <1>. QED  BY <1>1, <1>4

\* Every number below the number of elements is the rank of one.
LEMMA RankOnto ==
    ASSUME NEW S, IsFiniteSet(S), S \subseteq Int, NEW i \in Nat, i < Cardinality(S)
    PROVE  \E x \in S : Rank(S, x) = i
  <1>. DEFINE T == 0 .. Cardinality(S) - 1
              f == [x \in S |-> Rank(S, x)]
  <1>1. Cardinality(S) \in Nat
    BY FS_CardinalityType
  <1>2. f \in [S -> T]
    <2>1. ASSUME NEW x \in S
          PROVE  Rank(S, x) \in T
      <3>1. Rank(S, x) \in Nat /\ Rank(S, x) < Cardinality(S)
        BY ZenonT(40), RankType
      <3>. QED  BY <1>1, <3>1
    <2>. QED  BY <2>1
  <1>3. ASSUME NEW x \in S, NEW y \in S, x # y
        PROVE  Rank(S, x) # Rank(S, y)
    <2>1. Rank(S, x) \in Nat /\ Rank(S, y) \in Nat
      BY ZenonT(40), RankType
    <2>2. x < y \/ y < x
      BY <1>3
    <2>3. Rank(S, x) < Rank(S, y) \/ Rank(S, y) < Rank(S, x)
      BY ZenonT(40), <2>2, RankMonotone
    <2>. QED  BY <2>1, <2>3
  <1>4. f \in Injection(S, T)
    BY <1>2, <1>3 DEF Injection, IsInjective
  <1>5. IsFiniteSet(T) /\ Cardinality(T) = Cardinality(S)
    <2>1. PICK n \in Nat : n = Cardinality(S)
      BY <1>1
    <2>2. n - 1 \in Int /\ 0 \in Int
      OBVIOUS
    <2>3. IsFiniteSet(0 .. n - 1) /\ Cardinality(0 .. n - 1) = IF 0 > n - 1 THEN 0 ELSE n - 1 - 0 + 1
      BY <2>2, FS_Interval
    <2>. QED  BY <2>1, <2>3
  <1>6. f \in Surjection(S, T)
    BY <1>4, <1>5, FS_Injection
  <1>7. i \in T
    BY <1>1
  <1>. QED  BY ZenonT(40), <1>6, <1>7 DEF Surjection

\* Ascending(S) lists the elements of S, each of them, in ascending order.
LEMMA AscendingFacts ==
    ASSUME NEW S, IsFiniteSet(S), S \subseteq Int
    PROVE  /\ Cardinality(S) \in Nat
           /\ \A i \in 1 .. Cardinality(S) : Ascending(S)[i] \in S
           /\ \A i, j \in 1 .. Cardinality(S) : i < j => Ascending(S)[i] < Ascending(S)[j]
           /\ \A x \in S : \E i \in 1 .. Cardinality(S) : Ascending(S)[i] = x
  <1>0. Cardinality(S) \in Nat
    BY FS_CardinalityType
  <1>1. ASSUME NEW i \in 1 .. Cardinality(S)
        PROVE  Ascending(S)[i] \in S /\ Rank(S, Ascending(S)[i]) = i - 1
    <2>1. i - 1 \in Nat /\ i - 1 < Cardinality(S)
      BY <1>0
    <2>2. \E x \in S : Rank(S, x) = i - 1
      BY ZenonT(40), <2>1, RankOnto
    <2>3. Ascending(S)[i] = CHOOSE x \in S : Rank(S, x) = i - 1
      BY ZenonT(40) DEF Ascending, Rank, Below
    <2>. QED  BY <2>2, <2>3
  <1>2. ASSUME NEW i \in 1 .. Cardinality(S), NEW j \in 1 .. Cardinality(S), i < j
        PROVE  Ascending(S)[i] < Ascending(S)[j]
    <2>1. PICK x \in S : x = Ascending(S)[i] /\ Rank(S, x) = i - 1
      BY ZenonT(40), <1>1
    <2>2. PICK y \in S : y = Ascending(S)[j] /\ Rank(S, y) = j - 1
      BY <1>1
    <2>3. y < x => Rank(S, y) < Rank(S, x)
      BY ZenonT(40), RankMonotone
    <2>4. Rank(S, x) < Rank(S, y) /\ Rank(S, x) \in Nat /\ Rank(S, y) \in Nat
      BY <1>0, <1>2, <2>1, <2>2
    <2>5. x \in Int /\ y \in Int /\ ~ y < x /\ y # x
      BY <2>3, <2>4
    <2>. QED  BY <2>1, <2>2, <2>5
  <1>3. ASSUME NEW x \in S
        PROVE  \E i \in 1 .. Cardinality(S) : Ascending(S)[i] = x
    <2>1. PICK r \in Nat : r = Rank(S, x) /\ r < Cardinality(S)
      BY ZenonT(40), RankType
    <2>2. r + 1 \in 1 .. Cardinality(S)
      BY <1>0, <2>1
    <2>3. PICK y \in S : y = Ascending(S)[r + 1] /\ Rank(S, y) = r
      <3>1. Ascending(S)[r + 1] \in S /\ Rank(S, Ascending(S)[r + 1]) = r + 1 - 1 /\ r + 1 - 1 = r
        BY <1>1, <2>2
      <3>. QED  BY <3>1, ZenonT(40)
    <2>4. x \in Int /\ y \in Int /\ ~ x < y /\ ~ y < x
      <3>1. (x < y => Rank(S, x) < Rank(S, y)) /\ (y < x => Rank(S, y) < Rank(S, x))
        BY ZenonT(40), RankMonotone
      <3>. QED  BY <2>1, <2>3, <3>1
    <2>. QED  BY <2>2, <2>3, <2>4
  <1>. QED  BY <1>0, <1>1, <1>2, <1>3

\* A finite set of numbers has a least element.
LEMMA LeastElement ==
    ASSUME NEW S, IsFiniteSet(S), S \subseteq Int, S # {}
    PROVE  \E x \in S : \A y \in S : x <= y
  <1>1. Cardinality(S) \in Nat /\ Cardinality(S) # 0
    BY FS_CardinalityType, FS_EmptySet
  <1>2. PICK x \in S : Rank(S, x) = 0
    <2>1. 0 \in Nat /\ 0 < Cardinality(S)
      BY <1>1
    <2>. QED  BY ZenonT(40), <2>1, RankOnto
  <1>3. IsFiniteSet(Below(S, x))
    BY ZenonT(40), RankType
  <1>4. Below(S, x) = {}
    BY <1>2, <1>3, FS_EmptySet DEF Rank
  <1>. QED  BY <1>4 DEF Below

\* The loops over consecutive COUNTs stop at one that is not stored, at RX_NEXT at
\* the latest.
LEMMA ConsecutiveFacts ==
    ASSUME NEW queue, NEW from \in Nat, NEW next \in Nat, from <= next, next \notin DOMAIN queue
    PROVE  /\ AfterConsecutive(queue, from, next) \in from .. next
           /\ AfterConsecutive(queue, from, next) \notin DOMAIN queue
           /\ from .. AfterConsecutive(queue, from, next) - 1 \subseteq DOMAIN queue
  <1>. DEFINE S == {k \in from .. next : k \notin DOMAIN queue}
  <1>1. IsFiniteSet(from .. next) /\ S \in SUBSET (from .. next)
    BY FS_Interval
  <1>2. IsFiniteSet(S) /\ S \subseteq Int /\ next \in S
    BY <1>1, FS_Subset
  <1>3. PICK k \in S : \A y \in S : k <= y
    BY <1>2, LeastElement
  <1>4. k \in from .. next /\ k \notin DOMAIN queue /\ from .. k - 1 \subseteq DOMAIN queue
    <2>1. ASSUME NEW y \in from .. k - 1
          PROVE  y \in from .. next /\ ~ k <= y
      OBVIOUS
    <2>. QED  BY <1>3, <2>1
  <1>. QED  BY <1>4 DEF AfterConsecutive

\* SDUs that are stored under ascending COUNTs with a constant distance from their
\* numbers are passed up in ascending order.
LEMMA InOrderFacts ==
    ASSUME NEW queue, NEW S, IsFiniteSet(S), S \subseteq Int, NEW off \in Int, \A c \in S : queue[c] = c + off
    PROVE  /\ InOrder(queue, S) \in Seq(Int)
           /\ \A i \in DOMAIN InOrder(queue, S) : \E c \in S : InOrder(queue, S)[i] = c + off
           /\ \A i, j \in DOMAIN InOrder(queue, S) : i < j => InOrder(queue, S)[i] < InOrder(queue, S)[j]
  <1>1. PICK n \in Nat : n = Cardinality(S)
    BY ZenonT(40), AscendingFacts
  <1>2. ASSUME NEW i \in 1 .. n
        PROVE  /\ Ascending(S)[i] \in S /\ InOrder(queue, S)[i] = Ascending(S)[i] + off
               /\ InOrder(queue, S)[i] \in Int
    <2>1. PICK c \in S : c = Ascending(S)[i]
      BY ZenonT(40), <1>1, AscendingFacts
    <2>2. InOrder(queue, S)[i] = queue[c]
      BY <1>1, <2>1 DEF InOrder
    <2>3. queue[c] = c + off /\ c + off \in Int
      OBVIOUS
    <2>. QED  BY <2>1, <2>2, <2>3
  <1>3. InOrder(queue, S) = [i \in 1 .. n |-> queue[Ascending(S)[i]]]
    BY <1>1 DEF InOrder
  <1>4. InOrder(queue, S) \in Seq(Int) /\ DOMAIN InOrder(queue, S) = 1 .. n
    BY <1>2, <1>3
  <1>5. ASSUME NEW i \in 1 .. n, NEW j \in 1 .. n, i < j
        PROVE  InOrder(queue, S)[i] < InOrder(queue, S)[j]
    <2>1. Ascending(S)[i] < Ascending(S)[j]
      BY ZenonT(40), <1>1, <1>5, AscendingFacts
    <2>2. PICK a \in Int : a = Ascending(S)[i]
      BY ZenonT(40), <1>2
    <2>3. PICK b \in Int : b = Ascending(S)[j]
      BY ZenonT(40), <1>2
    <2>4. a + off < b + off
      BY <2>1, <2>2, <2>3
    <2>. QED  BY <1>2, <2>2, <2>3, <2>4
  <1>. QED  BY ZenonT(40), <1>2, <1>4, <1>5

\* An increasing sequence below b followed by one from b on is increasing.
LEMMA IncreasingConcat ==
    ASSUME NEW s \in Seq(Int), NEW t \in Seq(Int), NEW b \in Int,
           \A i, j \in DOMAIN s : i < j => s[i] < s[j],
           \A i, j \in DOMAIN t : i < j => t[i] < t[j],
           \A i \in DOMAIN s : s[i] < b,
           \A i \in DOMAIN t : b <= t[i]
    PROVE  /\ s \o t \in Seq(Int)
           /\ \A i, j \in DOMAIN (s \o t) : i < j => (s \o t)[i] < (s \o t)[j]
           /\ \A i \in DOMAIN (s \o t) : \/ (s \o t)[i] < b
                                         \/ \E j \in DOMAIN t : (s \o t)[i] = t[j]
  <1>1. /\ s \o t \in Seq(Int) /\ Len(s) \in Nat /\ Len(t) \in Nat
        /\ DOMAIN s = 1 .. Len(s) /\ DOMAIN t = 1 .. Len(t)
        /\ DOMAIN (s \o t) = 1 .. Len(s) + Len(t)
    OBVIOUS
  <1>2. ASSUME NEW i \in DOMAIN (s \o t)
        PROVE  \/ i \in DOMAIN s /\ (s \o t)[i] = s[i] /\ s[i] \in Int
               \/ i - Len(s) \in DOMAIN t /\ (s \o t)[i] = t[i - Len(s)] /\ t[i - Len(s)] \in Int /\ ~ i <= Len(s)
    BY <1>1
  <1>3. ASSUME NEW i \in DOMAIN (s \o t), NEW j \in DOMAIN (s \o t), i < j
        PROVE  (s \o t)[i] < (s \o t)[j]
    <2>1. CASE j \in DOMAIN s /\ (s \o t)[j] = s[j]
      <3>1. i \in DOMAIN s /\ (s \o t)[i] = s[i]
        BY <1>1, <1>3, <2>1
      <3>. QED  BY <1>3, <2>1, <3>1
    <2>2. CASE i \in DOMAIN s /\ (s \o t)[i] = s[i] /\ ~ j <= Len(s)
      <3>1. s[i] \in Int /\ t[j - Len(s)] \in Int /\ s[i] < b /\ b <= t[j - Len(s)] /\ (s \o t)[j] = t[j - Len(s)]
        BY <1>1, <1>2, <2>2
      <3>. QED  BY <2>2, <3>1
    <2>3. CASE ~ i <= Len(s) /\ ~ j <= Len(s)
      <3>1. /\ i - Len(s) \in DOMAIN t /\ j - Len(s) \in DOMAIN t /\ i - Len(s) < j - Len(s)
            /\ (s \o t)[i] = t[i - Len(s)] /\ (s \o t)[j] = t[j - Len(s)]
        BY <1>1, <1>2, <1>3, <2>3
      <3>. QED  BY <3>1
    <2>. QED  BY <1>1, <1>2, <2>1, <2>2, <2>3
  <1>. QED  BY <1>1, <1>2, <1>3

-----------------------------------------------------------------------------
(* COUNT arithmetic *)

\* Division with remainder.
LEMMA DivMod ==
    ASSUME NEW a \in Nat, NEW m \in Nat \ {0}
    PROVE  \E d \in Nat, r \in 0 .. m - 1 : a \div m = d /\ a % m = r /\ a = d * m + r
  <1>1. a % m \in 0 .. m - 1
    OBVIOUS
  <1>2. a \div m \in Nat
    OBVIOUS
  <1>3. a = (a \div m) * m + (a % m)
    OBVIOUS
  <1>. QED  BY <1>1, <1>2, <1>3, ZenonT(40)

\* A COUNT is its HFN and its SN.
LEMMA CountSplit ==
    ASSUME NEW c \in Counts
    PROVE  \E h \in Nat, s \in 0 .. SnMod - 1 :
             c = h * SnMod + s /\ HFN(c) = h /\ SN(c) = s /\ h < HfnMod
  <1>. USE CountAssumption
  <1>1. c \in Nat /\ c < SnMod * HfnMod
    BY DEF Counts, CountMod
  <1>2. PICK h \in Nat, s \in 0 .. SnMod - 1 : c \div SnMod = h /\ c % SnMod = s /\ c = h * SnMod + s
    BY <1>1, DivMod
  <1>3. h < HfnMod
    <2>1. ASSUME h >= HfnMod
          PROVE  h * SnMod >= HfnMod * SnMod
      BY <2>1
    <2>. QED  BY <1>1, <1>2, <2>1
  <1>. QED  BY <1>2, <1>3 DEF HFN, SN

\* An SN stands for the COUNT it was taken from while that COUNT is less than half
\* of the SN space ahead of the reference.
LEMMA InferExact ==
    ASSUME NEW ref \in Counts, NEW c \in Counts, ref <= c, c < ref + Window
    PROVE  InferCount(ref, SN(c)) = c
  <1>. USE CountAssumption
  <1>1. PICK h \in Nat, s \in 0 .. SnMod - 1 : c = h * SnMod + s /\ HFN(c) = h /\ SN(c) = s /\ h < HfnMod
    BY CountSplit
  <1>2. PICK r \in Nat, q \in 0 .. SnMod - 1 : ref = r * SnMod + q /\ HFN(ref) = r /\ SN(ref) = q /\ r < HfnMod
    BY CountSplit
  <1>3. PICK w \in Nat : w = Window /\ SnMod = 2 * w
    BY DEF Window
  <1>4. h = r \/ h = r + 1
    <2>1. ASSUME h < r
          PROVE  FALSE
      <3>1. (h + 1) * SnMod <= r * SnMod
        BY <2>1
      <3>2. (h + 1) * SnMod = h * SnMod + SnMod
        OBVIOUS
      <3>. QED  BY <1>1, <1>2, <3>1, <3>2
    <2>2. ASSUME h >= r + 2
          PROVE  FALSE
      <3>1. (r + 2) * SnMod <= h * SnMod
        BY <2>2
      <3>2. (r + 2) * SnMod = r * SnMod + 2 * SnMod
        OBVIOUS
      <3>. QED  BY <1>1, <1>2, <1>3, <3>1, <3>2
    <2>. QED  BY <2>1, <2>2
  <1>5. InferHfn(ref, SN(c)) = h
    <2>1. CASE h = r
      <3>1. q <= s /\ s < q + w
        BY <1>1, <1>2, <1>3, <2>1
      <3>. QED  BY <1>1, <1>2, <1>3, <2>1, <3>1 DEF InferHfn
    <2>2. CASE h = r + 1
      <3>1. h * SnMod = r * SnMod + SnMod
        BY <2>2
      <3>2. s + SnMod < q + w
        BY <1>1, <1>2, <1>3, <3>1
      <3>. QED  BY <1>1, <1>2, <1>3, <2>2, <3>2 DEF InferHfn
    <2>. QED  BY <1>4, <2>1, <2>2
  <1>6. h % HfnMod = h
    BY <1>1
  <1>. QED  BY <1>1, <1>5, <1>6 DEF InferCount, COUNT

\* The SDUs outstanding are at most half of the SN space.
LEMMA OutstandingType == Window \in Nat /\ MaxOutstanding \in Nat /\ MaxOutstanding <= Window
  <1>1. Window \in Nat
    BY CountAssumption DEF Window
  <1>. QED  BY <1>1, LinkAssumption

-----------------------------------------------------------------------------
(* The inductive invariant *)

\* What the numbers of the SDUs are ahead of their COUNTs, since the last time
\* that TX_NEXT was reset
Offset == n_sdus - tx_next

\* The PDUs that the transmitting side has made with the key in use
CurrentPdus == {p \in [count : 0 .. tx_next - 1, key : {tx_key}, sdu : Int] : p.sdu = p.count + Offset}

\* Every SDU of a map is stored under the COUNT that it was sent with
Numbered(map) == \A c \in DOMAIN map : map[c] = c + Offset

ConfigInv ==
  /\ bearer \in {"srb", "am", "um"} /\ discard_timer \in BOOLEAN
  /\ t_reordering \in {"ms0", "finite", "infinity"}

TxInv ==
  /\ tx_next \in Counts /\ n_sdus \in Int /\ tx_key \in Nat
  /\ DOMAIN discard_timers_map \subseteq 0 .. tx_next - 1
  /\ Numbered(discard_timers_map)

LowerInv ==
  /\ rlc_queue \in Seq(CurrentPdus)
  /\ flight \in Seq([pdu : CurrentPdus, rcvd : BOOLEAN])

RxInv ==
  /\ rx_deliv \in Nat /\ rx_next \in Nat /\ rx_reord \in Nat /\ reordering_timer \in BOOLEAN
  /\ rx_key = tx_key
  /\ rx_deliv <= rx_next /\ rx_next <= tx_next /\ tx_next - rx_deliv <= MaxOutstanding
  /\ reordering_timer => rx_deliv <= rx_reord /\ rx_reord <= rx_next
  /\ DOMAIN reorder_queue \subseteq rx_deliv .. rx_next - 1
  /\ Numbered(reorder_queue)

UpperInv ==
  /\ upper_sdus \in Seq(Int) /\ InOrderOnce
  /\ \A i \in DOMAIN upper_sdus : upper_sdus[i] < rx_deliv + Offset

PdcpInv == ConfigInv /\ TxInv /\ LowerInv /\ RxInv /\ UpperInv /\ StoredIsWatched

-----------------------------------------------------------------------------
(* What the lower layers do to their queues *)

\* A queue that loses an element still holds elements of the same set.
LEMMA WithoutType ==
    ASSUME NEW S, NEW s \in Seq(S), NEW i \in DOMAIN s
    PROVE  Without(s, i) \in Seq(S)
  BY DEF Without

\* So does one that loses its first elements.
LEMMA SuffixType ==
    ASSUME NEW S, NEW s \in Seq(S), NEW k \in DOMAIN s
    PROVE  SubSeq(s, k + 1, Len(s)) \in Seq(S)
  OBVIOUS

\* So does one that RLC removes discarded PDUs from.
LEMMA DiscardType ==
    ASSUME NEW S, NEW s \in Seq(S), NEW kept \in SUBSET DOMAIN s
    PROVE  [k \in 1 .. Cardinality(kept) |-> s[Ascending(kept)[k]]] \in Seq(S)
  <1>1. DOMAIN s = 1 .. Len(s) /\ Len(s) \in Nat
    OBVIOUS
  <1>2. IsFiniteSet(1 .. Len(s))
    BY <1>1, FS_Interval
  <1>3. IsFiniteSet(kept) /\ kept \subseteq Int
    BY <1>1, <1>2, FS_Subset
  <1>4. Cardinality(kept) \in Nat /\ \A k \in 1 .. Cardinality(kept) : Ascending(kept)[k] \in kept
    BY <1>3, AscendingFacts
  <1>5. \A k \in 1 .. Cardinality(kept) : s[Ascending(kept)[k]] \in S
    BY <1>4
  <1>. QED  BY <1>4, <1>5

\* Sequences over a set are sequences over a larger one.
LEMMA SeqMonotone ==
    ASSUME NEW S, NEW T, S \subseteq T, NEW s \in Seq(S)
    PROVE  s \in Seq(T)
  OBVIOUS

\* The initial state, whatever the configuration and the first COUNT.
LEMMA InitEstablishesInv == LinkInit => PdcpInv
  <1>. SUFFICES ASSUME LinkInit PROVE PdcpInv
    OBVIOUS
  <1>1. ConfigInv
    BY LinkAssumption DEF LinkInit, ConfigInv
  <1>2. PICK start \in Counts : /\ tx_next = start /\ n_sdus = start /\ rx_next = start /\ rx_deliv = start /\ rx_reord = start
                                /\ discard_timers_map = << >> /\ tx_key = 0 /\ reorder_queue = << >>
                                /\ reordering_timer = FALSE /\ rx_key = 0 /\ upper_sdus = << >>
    BY LinkAssumption DEF LinkInit, TxInit, RxInit
  <1>3. start \in Nat
    BY CountAssumption DEF Counts, CountMod
  <1>4. TxInv
    BY <1>2, <1>3 DEF TxInv, Numbered
  <1>5. LowerInv
    BY DEF LinkInit, LowerInv
  <1>6. RxInv
    <2>1. DOMAIN reorder_queue = {} /\ tx_next - rx_deliv = 0
      BY <1>2, <1>3
    <2>2. rx_deliv = start /\ rx_next = start /\ rx_reord = start /\ tx_next = start
      BY <1>2
    <2>3. ~reordering_timer /\ reordering_timer \in BOOLEAN /\ rx_key = tx_key
      BY ZenonT(40), <1>2
    <2>4. MaxOutstanding \in Nat
      BY OutstandingType
    <2>5. Numbered(reorder_queue)
      BY <2>1 DEF Numbered
    <2>6. DOMAIN reorder_queue \subseteq rx_deliv .. rx_next - 1
      BY <2>1
    <2>7. /\ rx_deliv \in Nat /\ rx_next \in Nat /\ rx_reord \in Nat
          /\ rx_deliv <= rx_next /\ rx_next <= tx_next /\ tx_next - rx_deliv <= MaxOutstanding
      BY <1>3, <2>2, <2>4
    <2>. QED  BY <2>3, <2>5, <2>6, <2>7, ZenonT(40) DEF RxInv
  <1>7. UpperInv /\ StoredIsWatched
    BY <1>2, <1>3 DEF UpperInv, InOrderOnce, StoredIsWatched
  <1>. QED  BY <1>1, <1>4, <1>5, <1>6, <1>7 DEF PdcpInv

\* Steps of the lower layers, and of the transmitting side when it only stops
\* discard timers: the PDUs on their way remain PDUs of the key in use.
LEMMA LowerKeepsInv ==
    ASSUME PdcpInv,
           UNCHANGED <<bearer, discard_timer, tx_next, tx_key, n_sdus, rx_vars>>,
           rlc_queue' \in Seq(CurrentPdus), flight' \in Seq([pdu : CurrentPdus, rcvd : BOOLEAN]),
           DOMAIN discard_timers_map' \subseteq DOMAIN discard_timers_map,
           \A c \in DOMAIN discard_timers_map' : discard_timers_map'[c] = discard_timers_map[c]
    PROVE  PdcpInv'
  <1>. USE DEF PdcpInv, rx_vars
  <1>1. Offset' = Offset /\ CurrentPdus' = CurrentPdus
    BY DEF Offset, CurrentPdus
  <1>2. ConfigInv'
    BY DEF ConfigInv
  <1>3. TxInv'
    BY <1>1 DEF TxInv, Numbered
  <1>4. LowerInv'
    BY <1>1 DEF LowerInv
  <1>5. RxInv'
    BY <1>1 DEF RxInv, Numbered
  <1>6. UpperInv' /\ StoredIsWatched'
    BY <1>1 DEF UpperInv, InOrderOnce, StoredIsWatched
  <1>. QED  BY <1>2, <1>3, <1>4, <1>5, <1>6

\* RLC drops, transmits, loses or confirms PDUs.
LEMMA RlcKeepsInv ==
    ASSUME PdcpInv, RlcDrop \/ RlcTransmit \/ RlcLose \/ RlcConfirm
    PROVE  PdcpInv'
  <1>. DEFINE F == [pdu : CurrentPdus, rcvd : BOOLEAN]
  <1>1. /\ UNCHANGED <<bearer, discard_timer, tx_next, tx_key, n_sdus, rx_vars, discard_timers_map>>
    BY DEF RlcDrop, RlcTransmit, RlcLose, RlcConfirm, tx_vars
  <1>2. rlc_queue \in Seq(CurrentPdus) /\ flight \in Seq(F)
    BY DEF PdcpInv, LowerInv
  <1>3. CASE RlcTransmit
    <2>1. Head(rlc_queue) \in CurrentPdus /\ Tail(rlc_queue) \in Seq(CurrentPdus)
      BY <1>2, <1>3 DEF RlcTransmit
    <2>2. [pdu |-> Head(rlc_queue), rcvd |-> FALSE] \in F
      BY <2>1
    <2>3. Append(flight, [pdu |-> Head(rlc_queue), rcvd |-> FALSE]) \in Seq(F)
      BY <1>2, <2>2
    <2>4. rlc_queue' \in Seq(CurrentPdus) /\ flight' \in Seq(F)
      BY <1>3, <2>1, <2>3 DEF RlcTransmit
    <2>. QED  BY <1>1, <2>4, LowerKeepsInv
  <1>4. CASE RlcLose
    <2>1. rlc_queue' \in Seq(CurrentPdus) /\ flight' \in Seq(F)
      BY <1>2, <1>4, WithoutType DEF RlcLose
    <2>. QED  BY <1>1, <2>1, LowerKeepsInv
  <1>5. CASE RlcConfirm
    <2>1. PICK k \in DOMAIN flight : flight' = SubSeq(flight, k + 1, Len(flight))
      BY <1>5 DEF RlcConfirm
    <2>2. SubSeq(flight, k + 1, Len(flight)) \in Seq(F)
      BY ZenonT(40), <1>2, SuffixType
    <2>3. rlc_queue' \in Seq(CurrentPdus) /\ flight' \in Seq(F)
      BY <1>2, <1>5, <2>1, <2>2 DEF RlcConfirm
    <2>. QED  BY <1>1, <2>3, LowerKeepsInv
  <1>6. CASE RlcDrop
    <2>1. RlcQueueSize + 1 \in DOMAIN rlc_queue
      BY <1>2, <1>6, LinkAssumption DEF RlcDrop
    <2>2. rlc_queue' \in Seq(CurrentPdus) /\ flight' \in Seq(F)
      BY <1>2, <1>6, <2>1, WithoutType DEF RlcDrop
    <2>. QED  BY <1>1, <2>2, LowerKeepsInv
  <1>. QED  BY <1>3, <1>4, <1>5, <1>6

\* Discards remove PDUs and timers, and nothing else.
LEMMA DiscardKeepsInv ==
    ASSUME PdcpInv, UNCHANGED <<bearer, discard_timer, tx_next, tx_key, n_sdus, rx_vars, flight>>,
           NEW S, Erase(S),
           UNCHANGED rlc_queue \/ \E counts : OnDiscardPdus(rlc_queue, counts)
    PROVE  PdcpInv'
  <1>1. rlc_queue \in Seq(CurrentPdus) /\ flight' \in Seq([pdu : CurrentPdus, rcvd : BOOLEAN])
    BY DEF PdcpInv, LowerInv
  <1>2. ASSUME NEW counts, OnDiscardPdus(rlc_queue, counts)
        PROVE  rlc_queue' \in Seq(CurrentPdus)
    <2>1. \E kept \in SUBSET DOMAIN rlc_queue :
            rlc_queue' = [k \in 1 .. Cardinality(kept) |-> rlc_queue[Ascending(kept)[k]]]
      BY <1>2, ZenonT(40) DEF OnDiscardPdus
    <2>. QED  BY <1>1, <2>1, DiscardType
  <1>3. rlc_queue' \in Seq(CurrentPdus)
    BY <1>1, <1>2
  <1>4. /\ DOMAIN discard_timers_map' \subseteq DOMAIN discard_timers_map
        /\ \A c \in DOMAIN discard_timers_map' : discard_timers_map'[c] = discard_timers_map[c]
    BY DEF Erase, Restrict
  <1>. QED  BY <1>1, <1>3, <1>4, LowerKeepsInv

-----------------------------------------------------------------------------
(* The receiving side *)

\* Passing up everything below a COUNT keeps the order of what was passed up, and
\* leaves the rest stored.
LEMMA DeliverKeeps ==
    ASSUME UpperInv, Offset \in Int, UNCHANGED <<n_sdus, tx_next>>,
           rx_deliv \in Nat, NEW deliv \in Nat, NEW next \in Nat, rx_deliv <= deliv,
           NEW queue, DOMAIN queue \subseteq rx_deliv .. next - 1,
           Numbered(queue),
           DeliverBelow(queue, deliv)
    PROVE  /\ UpperInv' /\ rx_deliv' = deliv
           /\ DOMAIN reorder_queue' \subseteq deliv .. next - 1
           /\ Numbered(reorder_queue)'
  <1>1. PICK S : /\ S = {c \in DOMAIN queue : c < deliv}
                 /\ upper_sdus' = upper_sdus \o InOrder(queue, S)
                 /\ reorder_queue' = [c \in DOMAIN queue \ S |-> queue[c]]
                 /\ rx_deliv' = deliv
    BY ZenonT(40) DEF DeliverBelow, Restrict
  <1>2. PICK off \in Int : off = Offset /\ off = Offset'
    BY DEF Offset
  <1>3. S \in SUBSET (rx_deliv .. next - 1) /\ S \subseteq Int
    BY <1>1
  <1>4. IsFiniteSet(S)
    <2>1. IsFiniteSet(rx_deliv .. next - 1)
      BY FS_Interval
    <2>. QED  BY ZenonT(40), <1>3, <2>1, FS_Subset
  <1>5. PICK t \in Seq(Int) :
          /\ t = InOrder(queue, S)
          /\ \A i \in DOMAIN t : \E c \in S : t[i] = c + off
          /\ \A i, j \in DOMAIN t : i < j => t[i] < t[j]
    <2>1. \A c \in S : queue[c] = c + off
      BY <1>1, <1>2 DEF Numbered
    <2>2. /\ InOrder(queue, S) \in Seq(Int)
          /\ \A i \in DOMAIN InOrder(queue, S) : \E c \in S : InOrder(queue, S)[i] = c + off
          /\ \A i, j \in DOMAIN InOrder(queue, S) : i < j => InOrder(queue, S)[i] < InOrder(queue, S)[j]
      BY <1>3, <1>4, <2>1, InOrderFacts, ZenonT(40)
    <2>. QED  BY <2>2, ZenonT(40)
  <1>6. PICK b \in Int : b = rx_deliv + off
    OBVIOUS
  <1>7. ASSUME NEW i \in DOMAIN t
        PROVE  b <= t[i] /\ t[i] < deliv + off
    <2>1. PICK c \in S : t[i] = c + off
      BY <1>5
    <2>2. c \in Int /\ rx_deliv <= c /\ c < deliv
      BY <1>1, <1>3
    <2>. QED  BY <1>6, <2>1, <2>2
  <1>8. PICK u \in Seq(Int) :
          /\ u = upper_sdus
          /\ \A i, j \in DOMAIN u : i < j => u[i] < u[j]
          /\ \A i \in DOMAIN u : u[i] < b
    BY <1>2, <1>6 DEF UpperInv, InOrderOnce
  <1>9. /\ u \o t \in Seq(Int)
        /\ \A i, j \in DOMAIN (u \o t) : i < j => (u \o t)[i] < (u \o t)[j]
        /\ \A i \in DOMAIN (u \o t) : \/ (u \o t)[i] < b
                                      \/ \E j \in DOMAIN t : (u \o t)[i] = t[j]
    <2>1. \A i \in DOMAIN t : b <= t[i]
      BY <1>7
    <2>2. \A i, j \in DOMAIN t : i < j => t[i] < t[j]
      BY <1>5
    <2>3. /\ \A i, j \in DOMAIN u : i < j => u[i] < u[j]
          /\ \A i \in DOMAIN u : u[i] < b
      BY <1>8
    <2>. QED  BY <2>1, <2>2, <2>3, IncreasingConcat, ZenonT(40)
  <1>10. upper_sdus' = u \o t
    BY <1>1, <1>5, <1>8
  <1>11. \A i \in DOMAIN (u \o t) : (u \o t)[i] < deliv + off
    <2>. SUFFICES ASSUME NEW i \in DOMAIN (u \o t)
                  PROVE  (u \o t)[i] < deliv + off
      OBVIOUS
    <2>1. PICK x \in Int : x = (u \o t)[i]
      BY <1>9
    <2>2. x < b \/ x < deliv + off
      BY <1>7, <1>9, <2>1
    <2>. QED  BY <1>6, <2>1, <2>2
  <1>12. UpperInv'
    BY ZenonT(40), <1>1, <1>2, <1>9, <1>10, <1>11 DEF UpperInv, InOrderOnce
  <1>13. DOMAIN reorder_queue' = DOMAIN queue \ S
    BY <1>1
  <1>14. DOMAIN reorder_queue' \subseteq deliv .. next - 1
    BY <1>1, <1>13
  <1>15. Numbered(reorder_queue)'
    BY <1>1, <1>2, <1>13 DEF Numbered
  <1>. QED  BY <1>1, <1>12, <1>14, <1>15

\* A new PDU is stored: RX_NEXT, RX_DELIV, RX_REORD and the timer stay in step.
LEMMA StoreKeepsInv ==
    ASSUME PdcpInv, UNCHANGED <<bearer, tx_vars, n_sdus, t_reordering, rx_key>>,
           NEW pdu \in CurrentPdus, pdu.count \notin DOMAIN reorder_queue, ~ pdu.count < rx_deliv,
           Store(pdu.count, pdu.sdu)
    PROVE  RxInv' /\ UpperInv' /\ StoredIsWatched'
  <1>1. /\ tx_next \in Nat /\ tx_next' = tx_next /\ tx_key' = tx_key /\ n_sdus' = n_sdus
        /\ Offset \in Int /\ Offset' = Offset
    BY CountAssumption DEF PdcpInv, TxInv, Counts, CountMod, tx_vars, Offset
  <1>2. /\ rx_deliv \in Nat /\ rx_next \in Nat /\ rx_reord \in Nat /\ rx_deliv <= rx_next /\ rx_next <= tx_next
        /\ tx_next - rx_deliv <= MaxOutstanding /\ MaxOutstanding \in Nat
    BY OutstandingType DEF PdcpInv, RxInv
  <1>3. reordering_timer \in BOOLEAN /\ rx_key = tx_key /\ Numbered(reorder_queue) /\ DOMAIN reorder_queue \subseteq rx_deliv .. rx_next - 1
    BY DEF PdcpInv, RxInv
  <1>4. PICK c \in Nat : c = pdu.count /\ c < tx_next /\ rx_deliv <= c
    BY <1>1, <1>2 DEF CurrentPdus
  <1>5. PICK next \in Nat : next = (IF c >= rx_next THEN c + 1 ELSE rx_next) /\ next <= tx_next /\ c < next /\ rx_next <= next
    BY <1>1, <1>2, <1>4
  <1>6. PICK queue : /\ queue = Insert(reorder_queue, c, pdu.sdu)
                     /\ DOMAIN queue = DOMAIN reorder_queue \cup {c} /\ Numbered(queue)
    <2>1. pdu.sdu = c + Offset
      BY <1>4 DEF CurrentPdus
    <2>2. PICK queue : queue = [x \in DOMAIN reorder_queue \cup {c} |->
                                  IF x \in DOMAIN reorder_queue THEN reorder_queue[x] ELSE pdu.sdu]
      OBVIOUS
    <2>3. DOMAIN queue = DOMAIN reorder_queue \cup {c}
      BY <2>2
    <2>4. Numbered(queue)
      BY <1>3, <2>1, <2>2, ZenonT(40) DEF Numbered
    <2>. QED  BY <2>2, <2>3, <2>4, ZenonT(40) DEF Insert
  <1>7. DOMAIN queue \subseteq rx_deliv .. next - 1
    BY <1>2, <1>3, <1>4, <1>5, <1>6
  <1>8. PICK deliv \in Nat : /\ deliv = IF c = rx_deliv THEN AfterConsecutive(queue, rx_deliv, next) ELSE rx_deliv
                             /\ rx_deliv <= deliv /\ deliv <= next
    <2>1. rx_deliv <= next /\ next \notin DOMAIN queue
      BY <1>2, <1>5, <1>7
    <2>2. AfterConsecutive(queue, rx_deliv, next) \in rx_deliv .. next
      BY <1>2, <2>1, ConsecutiveFacts
    <2>. QED  BY <1>2, <2>1, <2>2
  <1>9. ASSUME NEW d \in Nat, rx_deliv <= d, d <= next, DeliverBelow(queue, d), rx_next' = next,
               rx_reord' \in Nat, reordering_timer' \in BOOLEAN,
               reordering_timer' => d <= rx_reord' /\ rx_reord' <= next
        PROVE  RxInv' /\ UpperInv' /\ (DOMAIN reorder_queue' # {} => d < next)
    <2>1. /\ UpperInv' /\ rx_deliv' = d /\ Numbered(reorder_queue)'
          /\ DOMAIN reorder_queue' \subseteq d .. next - 1
      BY <1>1, <1>2, <1>6, <1>7, <1>9, DeliverKeeps DEF PdcpInv
    <2>2. /\ rx_deliv' \in Nat /\ rx_next' \in Nat /\ rx_deliv' <= rx_next' /\ rx_next' <= tx_next'
          /\ tx_next' - rx_deliv' <= MaxOutstanding
      BY <1>1, <1>2, <1>5, <1>9, <2>1
    <2>3. rx_key' = tx_key'
      BY <1>1, <1>3
    <2>4. DOMAIN reorder_queue' \subseteq rx_deliv' .. rx_next' - 1
      BY <1>9, <2>1
    <2>5. RxInv'
      BY <1>9, <2>1, <2>2, <2>3, <2>4, ZenonT(40) DEF RxInv
    <2>6. DOMAIN reorder_queue' # {} => d < next
      BY <2>1
    <2>. QED  BY <2>1, <2>5, <2>6
  <1>10. /\ rx_next' = next
         /\ t_reordering = "infinity" => /\ DeliverBelow(queue, deliv) /\ rx_reord' = rx_reord
                                         /\ reordering_timer' = (reordering_timer /\ deliv < rx_reord)
         /\ t_reordering = "ms0" => DeliverBelow(queue, next) /\ rx_reord' = next /\ reordering_timer' = reordering_timer
         /\ t_reordering = "finite" =>
              /\ DeliverBelow(queue, deliv) /\ rx_reord' = next
              /\ reordering_timer' = ((reordering_timer /\ deliv < rx_reord) \/ deliv < next)
    BY ZenonT(40), <1>4, <1>5, <1>6, <1>8 DEF Store, TimerAfter
  <1>11. CASE t_reordering = "infinity"
    <2>1. /\ rx_reord' \in Nat /\ reordering_timer' \in BOOLEAN
          /\ reordering_timer' => deliv <= rx_reord' /\ rx_reord' <= next
      <3>1. reordering_timer => rx_reord <= rx_next
        BY DEF PdcpInv, RxInv
      <3>2. /\ reordering_timer' \in BOOLEAN /\ rx_reord' = rx_reord
            /\ reordering_timer' => reordering_timer /\ deliv < rx_reord
        BY <1>3, <1>10, <1>11
      <3>. QED  BY <1>2, <1>5, <3>1, <3>2
    <2>2. StoredIsWatched'
      BY <1>11 DEF StoredIsWatched
    <2>. QED  BY <1>8, <1>9, <1>10, <1>11, <2>1, <2>2
  <1>12. CASE t_reordering = "ms0"
    <2>1. StoredIsWatched'
      BY <1>12 DEF StoredIsWatched
    <2>2. rx_deliv <= next /\ next <= next
      BY <1>2, <1>5
    <2>3. rx_reord' \in Nat /\ reordering_timer' \in BOOLEAN /\ next <= rx_reord' /\ rx_reord' <= next
      BY <1>3, <1>10, <1>12
    <2>. QED  BY <1>9, <1>10, <1>12, <2>1, <2>2, <2>3
  <1>13. CASE t_reordering = "finite"
    <2>1. rx_reord' \in Nat /\ reordering_timer' \in BOOLEAN /\ deliv <= rx_reord' /\ rx_reord' <= next
      BY <1>3, <1>8, <1>10, <1>13
    <2>2. RxInv' /\ UpperInv' /\ (DOMAIN reorder_queue' # {} => deliv < next)
      BY <1>8, <1>9, <1>10, <1>13, <2>1
    <2>3. deliv < next => reordering_timer'
      BY ZenonT(40), <1>10, <1>13
    <2>. QED  BY <2>2, <2>3 DEF StoredIsWatched
  <1>. QED  BY <1>11, <1>12, <1>13 DEF PdcpInv, ConfigInv

\* A PDU arrives: it is stored only under its own COUNT, and dropped otherwise.
LEMMA DeliverKeepsInv ==
    ASSUME PdcpInv, RlcDeliver
    PROVE  PdcpInv'
  <1>. DEFINE F == [pdu : CurrentPdus, rcvd : BOOLEAN]
  <1>1. UNCHANGED <<bearer, tx_vars, n_sdus, rlc_queue, t_reordering, rx_key>>
    BY DEF RlcDeliver, HandleDataPdu
  <1>2. Offset' = Offset /\ CurrentPdus' = CurrentPdus
    BY <1>1 DEF Offset, CurrentPdus, tx_vars
  <1>3. flight \in Seq(F) /\ rlc_queue \in Seq(CurrentPdus)
    BY DEF PdcpInv, LowerInv
  <1>4. PICK k \in DOMAIN flight :
          /\ HandleDataPdu(flight[k].pdu)
          /\ flight' = IF IsAm THEN [flight EXCEPT ![k].rcvd = TRUE] ELSE Without(flight, k)
    BY ZenonT(40) DEF RlcDeliver
  <1>5. PICK pdu \in CurrentPdus : pdu = flight[k].pdu
    <2>1. \A S : flight \in Seq(S) => flight[k] \in S
      BY <1>4
    <2>2. flight[k] \in F
      BY ZenonT(40), <1>3, <2>1
    <2>. QED  BY <2>2
  <1>6. flight' \in Seq(F)
    <2>1. Without(flight, k) \in Seq(F)
      BY <1>3, WithoutType
    <2>2. [flight EXCEPT ![k].rcvd = TRUE] \in Seq(F)
      <3>1. PICK e \in F : e = [flight[k] EXCEPT !.rcvd = TRUE]
        <4>1. \A S : flight \in Seq(S) => flight[k] \in S
          BY <1>4
        <4>2. flight[k] \in F
          BY ZenonT(40), <1>3, <4>1
        <4>. QED  BY ZenonT(40), <4>2
      <3>2. \A S : flight \in Seq(S) => \A x \in S : [flight EXCEPT ![k] = x] \in Seq(S)
        BY <1>4
      <3>3. [flight EXCEPT ![k] = e] \in Seq(F)
        BY <1>3, <3>1, <3>2, ZenonT(40)
      <3>. QED  BY <3>1, <3>3, ZenonT(40)
    <2>. QED  BY ZenonT(40), <1>4, <2>1, <2>2
  <1>7. ConfigInv' /\ TxInv' /\ LowerInv'
    BY <1>1, <1>2, <1>3, <1>6 DEF PdcpInv, ConfigInv, TxInv, LowerInv, Numbered, tx_vars
  <1>8. CASE UNCHANGED <<rx_next, rx_deliv, rx_reord, reorder_queue, reordering_timer, upper_sdus>>
    <2>1. RxInv'
      BY <1>1, <1>2, <1>8 DEF PdcpInv, RxInv, Numbered, tx_vars
    <2>2. UpperInv' /\ StoredIsWatched'
      BY <1>1, <1>2, <1>8 DEF PdcpInv, UpperInv, InOrderOnce, StoredIsWatched
    <2>. QED  BY <1>7, <2>1, <2>2 DEF PdcpInv
  <1>9. CASE /\ RcvdCount(pdu) = pdu.count /\ ~Stale(pdu.count) /\ Store(pdu.count, pdu.sdu)
    <2>1. pdu.count \notin DOMAIN reorder_queue /\ ~ pdu.count < rx_deliv
      BY <1>9 DEF Stale
    <2>2. RxInv' /\ UpperInv' /\ StoredIsWatched'
      BY <1>1, <1>9, <2>1, StoreKeepsInv
    <2>. QED  BY <1>7, <2>2 DEF PdcpInv
  <1>10. \/ UNCHANGED <<rx_next, rx_deliv, rx_reord, reorder_queue, reordering_timer, upper_sdus>>
         \/ RcvdCount(pdu) = pdu.count /\ ~Stale(pdu.count) /\ Store(pdu.count, pdu.sdu)
    <2>1. HandleDataPdu(pdu)
      BY <1>4, <1>5
    <2>2. CASE RcvdCount(pdu) < RxHard /\ IntegrityVerify(pdu) /\ ~Stale(RcvdCount(pdu))
      <3>1. RcvdCount(pdu) = pdu.count
        BY <2>2 DEF IntegrityVerify
      <3>2. Store(RcvdCount(pdu), pdu.sdu)
        BY <2>1, <2>2 DEF HandleDataPdu
      <3>. QED  BY <2>2, <3>1, <3>2
    <2>3. CASE ~(RcvdCount(pdu) < RxHard /\ IntegrityVerify(pdu) /\ ~Stale(RcvdCount(pdu)))
      BY <2>1, <2>3 DEF HandleDataPdu
    <2>. QED  BY <2>2, <2>3
  <1>. QED  BY <1>8, <1>9, <1>10

\* t-Reordering expires: everything below RX_REORD and what follows it is passed up,
\* and the timer goes on if something is still stored.
LEMMA ExpiryKeepsInv ==
    ASSUME PdcpInv, ReorderingExpiry
    PROVE  PdcpInv'
  <1>1. /\ UNCHANGED <<bearer, tx_vars, n_sdus, rlc_queue, flight, t_reordering, rx_key, rx_next>>
        /\ reordering_timer
    BY DEF ReorderingExpiry, HandleTReorderingExpire
  <1>2. /\ Offset' = Offset /\ CurrentPdus' = CurrentPdus /\ Offset \in Int
        /\ tx_next \in Nat /\ tx_next' = tx_next /\ tx_key' = tx_key /\ n_sdus' = n_sdus
    BY <1>1, CountAssumption DEF PdcpInv, TxInv, Counts, CountMod, Offset, CurrentPdus, tx_vars
  <1>3. ConfigInv' /\ TxInv' /\ LowerInv'
    BY <1>1, <1>2 DEF PdcpInv, ConfigInv, TxInv, LowerInv, Numbered, tx_vars
  <1>4. /\ rx_deliv \in Nat /\ rx_next \in Nat /\ rx_reord \in Nat /\ rx_deliv <= rx_reord /\ rx_reord <= rx_next
        /\ rx_next <= tx_next /\ tx_next - rx_deliv <= MaxOutstanding /\ MaxOutstanding \in Nat
    BY <1>1, OutstandingType DEF PdcpInv, RxInv
  <1>5. rx_key = tx_key /\ Numbered(reorder_queue) /\ DOMAIN reorder_queue \subseteq rx_deliv .. rx_next - 1
    BY DEF PdcpInv, RxInv
  <1>6. PICK deliv \in rx_reord .. rx_next : deliv = AfterConsecutive(reorder_queue, rx_reord, rx_next)
    <2>1. rx_next \notin DOMAIN reorder_queue
      BY <1>4, <1>5
    <2>. QED  BY <1>4, <2>1, ConsecutiveFacts
  <1>7. /\ DeliverBelow(reorder_queue, deliv)
        /\ deliv < rx_next => rx_reord' = rx_next /\ reordering_timer' = reordering_timer
        /\ ~ deliv < rx_next => reordering_timer' = FALSE /\ rx_reord' = rx_reord
    BY ZenonT(40), <1>6 DEF ReorderingExpiry, HandleTReorderingExpire
  <1>8. deliv \in Nat /\ rx_deliv <= deliv /\ deliv <= rx_next
    BY <1>4, <1>6
  <1>9. /\ UpperInv' /\ rx_deliv' = deliv /\ Numbered(reorder_queue)'
        /\ DOMAIN reorder_queue' \subseteq deliv .. rx_next - 1
    BY <1>1, <1>2, <1>4, <1>5, <1>7, <1>8, DeliverKeeps DEF PdcpInv
  <1>10. /\ rx_deliv' \in Nat /\ rx_next' \in Nat /\ rx_deliv' <= rx_next' /\ rx_next' <= tx_next'
         /\ tx_next' - rx_deliv' <= MaxOutstanding
    BY <1>1, <1>2, <1>4, <1>8, <1>9
  <1>11. rx_reord' \in Nat /\ reordering_timer' \in BOOLEAN
    BY ZenonT(40), <1>1, <1>4, <1>7
  <1>12. reordering_timer' => rx_deliv' <= rx_reord' /\ rx_reord' <= rx_next'
    BY <1>1, <1>4, <1>7, <1>8, <1>9
  <1>13. RxInv'
    BY <1>1, <1>2, <1>5, <1>9, <1>10, <1>11, <1>12, ZenonT(40) DEF RxInv
  <1>14. StoredIsWatched'
    <2>1. DOMAIN reorder_queue' # {} => deliv < rx_next
      BY <1>4, <1>8, <1>9
    <2>. QED  BY ZenonT(40), <1>1, <1>7, <2>1 DEF StoredIsWatched
  <1>. QED  BY <1>3, <1>9, <1>13, <1>14 DEF PdcpInv

-----------------------------------------------------------------------------
(* The transmitting side *)

\* The oldest COUNT that counts as outstanding is not above RX_DELIV.
LEMMA OldestFacts ==
    ASSUME PdcpInv
    PROVE  Oldest \in Int /\ Oldest <= rx_deliv
  <1>. DEFINE S == {rx_deliv} \union DOMAIN discard_timers_map
  <1>1. tx_next \in Nat /\ rx_deliv \in Nat /\ DOMAIN discard_timers_map \in SUBSET (0 .. tx_next - 1)
    BY CountAssumption DEF PdcpInv, TxInv, RxInv, Counts, CountMod
  <1>2. IsFiniteSet(0 .. tx_next - 1)
    BY <1>1, FS_Interval
  <1>3. IsFiniteSet(DOMAIN discard_timers_map)
    BY <1>1, <1>2, FS_Subset
  <1>4. IsFiniteSet({rx_deliv} \union DOMAIN discard_timers_map)
    BY <1>3, FS_Singleton, FS_Union
  <1>5. S \subseteq Int /\ rx_deliv \in S
    BY <1>1
  <1>6. \E x \in S : \A y \in S : x <= y
    BY <1>4, <1>5, LeastElement
  <1>7. Oldest \in S /\ \A y \in S : Oldest <= y
    BY <1>6 DEF Oldest, Min
  <1>. QED  BY <1>5, <1>7

\* TX_NEXT does not wrap around: the hard maximum comes first.
LEMMA NextCount ==
    ASSUME PdcpInv, HandleSduSent(n_sdus)
    PROVE  tx_next \in Nat /\ tx_next' = tx_next + 1 /\ tx_next' \in Counts
  <1>1. tx_next \in Nat /\ tx_next < TxHard /\ TxHard \in Counts /\ tx_next' = (tx_next + 1) % CountMod
    BY CountAssumption, TxAssumption DEF PdcpInv, TxInv, HandleSduSent, CountExhausted, Counts, CountMod
  <1>2. PICK m \in Nat : m = CountMod
    BY CountAssumption DEF CountMod
  <1>3. tx_next + 1 < m
    BY <1>1, <1>2 DEF Counts
  <1>4. (tx_next + 1) % m = tx_next + 1
    BY <1>1, <1>3
  <1>5. tx_next + 1 \in 0 .. m - 1
    BY <1>1, <1>3
  <1>. QED  BY <1>1, <1>2, <1>4, <1>5 DEF Counts

\* An SDU is given the next COUNT, or is refused.
LEMMA SubmitKeepsInv ==
    ASSUME PdcpInv, SubmitSdu
    PROVE  PdcpInv'
  <1>. DEFINE F == [pdu : CurrentPdus, rcvd : BOOLEAN]
  <1>1. UNCHANGED <<bearer, rx_vars, flight>>
    BY DEF SubmitSdu
  <1>2. rlc_queue \in Seq(CurrentPdus) /\ flight \in Seq(F)
    BY DEF PdcpInv, LowerInv
  <1>3. CASE HandleSduRefused
    <2>1. UNCHANGED <<discard_timer, tx_next, discard_timers_map, tx_key, n_sdus, rlc_queue>>
      BY <1>3 DEF HandleSduRefused, SubmitSdu
    <2>. QED  BY <1>1, <1>2, <2>1, LowerKeepsInv
  <1>4. CASE HandleSduSent(n_sdus)
    <2>1. /\ tx_next' = (tx_next + 1) % CountMod /\ n_sdus' = n_sdus + 1
          /\ rlc_queue' = rlc_queue \o <<Pdu(tx_next, tx_key, n_sdus)>>
          /\ UNCHANGED <<discard_timer, tx_key>>
      BY <1>4 DEF HandleSduSent, SubmitSdu, OnNewPdus
    <2>2. tx_next \in Nat /\ tx_next < TxHard /\ TxHard \in Counts /\ n_sdus \in Int /\ tx_key \in Nat
      BY <1>4, CountAssumption, TxAssumption DEF PdcpInv, TxInv, HandleSduSent, CountExhausted, Counts, CountMod
    <2>3. tx_next' = tx_next + 1 /\ tx_next' \in Counts
      BY <1>4, NextCount
    <2>4. Offset' = Offset /\ Offset \in Int /\ n_sdus = tx_next + Offset
      BY <2>1, <2>2, <2>3 DEF Offset
    <2>5. CurrentPdus \subseteq CurrentPdus'
      <3>1. 0 .. tx_next - 1 \subseteq 0 .. tx_next' - 1
        BY <2>2, <2>3
      <3>2. CurrentPdus' = {p \in [count : 0 .. tx_next' - 1, key : {tx_key}, sdu : Int] : p.sdu = p.count + Offset}
        BY <2>1, <2>4 DEF CurrentPdus
      <3>3. ASSUME NEW p \in CurrentPdus
            PROVE  p \in [count : 0 .. tx_next' - 1, key : {tx_key}, sdu : Int]
        BY <3>1 DEF CurrentPdus
      <3>. QED  BY <3>2, <3>3 DEF CurrentPdus
    <2>6. Pdu(tx_next, tx_key, n_sdus) \in CurrentPdus'
      <3>1. tx_next \in 0 .. tx_next' - 1
        BY <2>2, <2>3
      <3>. QED  BY <2>1, <2>2, <2>4, <3>1 DEF Pdu, CurrentPdus
    <2>7. rlc_queue' \in Seq(CurrentPdus')
      <3>1. rlc_queue \in Seq(CurrentPdus')
        BY <1>2, <2>5, SeqMonotone
      <3>. QED  BY <2>1, <2>6, <3>1
    <2>8. flight' \in Seq([pdu : CurrentPdus', rcvd : BOOLEAN])
      <3>1. F \subseteq [pdu : CurrentPdus', rcvd : BOOLEAN]
        BY <2>5
      <3>2. flight \in Seq([pdu : CurrentPdus', rcvd : BOOLEAN])
        BY <1>2, <3>1, SeqMonotone, ZenonT(40)
      <3>. QED  BY <1>1, <3>2
    <2>9. TxInv'
      <3>1. DOMAIN discard_timers_map \subseteq 0 .. tx_next - 1 /\ Numbered(discard_timers_map)
        BY DEF PdcpInv, TxInv
      <3>2. CASE discard_timer
        <4>1. discard_timers_map' = [c \in DOMAIN discard_timers_map \union {tx_next} |->
                                       IF c \in DOMAIN discard_timers_map THEN discard_timers_map[c] ELSE n_sdus]
          BY <1>4, <3>2 DEF HandleSduSent, Insert
        <4>2. DOMAIN discard_timers_map' = DOMAIN discard_timers_map \union {tx_next}
          BY <4>1
        <4>3. DOMAIN discard_timers_map' \subseteq 0 .. tx_next' - 1
          BY <2>2, <2>3, <3>1, <4>2
        <4>4. Numbered(discard_timers_map)'
          BY <2>4, <3>1, <4>1, <4>2 DEF Numbered
        <4>. QED  BY <2>1, <2>2, <2>3, <4>3, <4>4 DEF TxInv
      <3>3. CASE ~discard_timer
        <4>1. discard_timers_map' = discard_timers_map
          BY <1>4, <3>3 DEF HandleSduSent
        <4>2. DOMAIN discard_timers_map' \subseteq 0 .. tx_next' - 1
          BY <2>2, <2>3, <3>1, <4>1
        <4>3. Numbered(discard_timers_map)'
          BY <2>4, <3>1, <4>1 DEF Numbered
        <4>. QED  BY <2>1, <2>2, <2>3, <4>2, <4>3 DEF TxInv
      <3>. QED  BY <3>2, <3>3
    <2>10. RxInv'
      <3>1. Oldest \in Int /\ Oldest <= rx_deliv /\ tx_next - Oldest < MaxOutstanding /\ MaxOutstanding \in Nat
        BY OldestFacts, OutstandingType DEF SubmitSdu
      <3>2. rx_deliv \in Nat /\ rx_next \in Nat /\ rx_next <= tx_next
        BY DEF PdcpInv, RxInv
      <3>3. rx_next <= tx_next' /\ tx_next' - rx_deliv <= MaxOutstanding
        BY <2>2, <2>3, <3>1, <3>2
      <3>4. Numbered(reorder_queue)'
        BY <1>1, <2>4 DEF PdcpInv, RxInv, Numbered, rx_vars
      <3>. QED  BY <1>1, <2>1, <3>3, <3>4 DEF PdcpInv, RxInv, rx_vars
    <2>11. UpperInv' /\ StoredIsWatched'
      BY <1>1, <2>4 DEF PdcpInv, UpperInv, InOrderOnce, StoredIsWatched, rx_vars
    <2>12. ConfigInv'
      BY <1>1, <2>1 DEF PdcpInv, ConfigInv, rx_vars
    <2>. QED  BY <2>7, <2>8, <2>9, <2>10, <2>11, <2>12 DEF PdcpInv, LowerInv
  <1>. QED  BY <1>3, <1>4 DEF SubmitSdu, HandleSdu

\* What is retransmitted are PDUs made from the map with the key given.
LEMMA RetransmittedType ==
    ASSUME NEW map, IsFiniteSet(DOMAIN map), DOMAIN map \subseteq Int, NEW key, NEW S,
           \A c \in DOMAIN map : Pdu(c, key, map[c]) \in S
    PROVE  Retransmitted(map, key) \in Seq(S)
  <1>1. /\ Cardinality(DOMAIN map) \in Nat
        /\ \A i \in 1 .. Cardinality(DOMAIN map) : Ascending(DOMAIN map)[i] \in DOMAIN map
    BY AscendingFacts
  <1>2. PICK n \in Nat : n = Cardinality(DOMAIN map)
    BY <1>1
  <1>3. ASSUME NEW i \in 1 .. n
        PROVE  Pdu(Ascending(DOMAIN map)[i], key, map[Ascending(DOMAIN map)[i]]) \in S
    BY <1>1, <1>2
  <1>4. Retransmitted(map, key) = [i \in 1 .. n |-> Pdu(Ascending(DOMAIN map)[i], key, map[Ascending(DOMAIN map)[i]])]
    BY <1>2 DEF Retransmitted
  <1>. QED  BY <1>3, <1>4

\* The map is finite, and with another key its PDUs are PDUs of that key.
LEMMA MapFacts ==
    ASSUME PdcpInv
    PROVE  /\ IsFiniteSet(DOMAIN discard_timers_map) /\ DOMAIN discard_timers_map \subseteq Int
           /\ \A key : \A c \in DOMAIN discard_timers_map :
                Pdu(c, key, discard_timers_map[c]) \in
                  {p \in [count : 0 .. tx_next - 1, key : {key}, sdu : Int] : p.sdu = p.count + Offset}
  <1>1. tx_next \in Nat /\ DOMAIN discard_timers_map \in SUBSET (0 .. tx_next - 1) /\ n_sdus \in Int
    BY CountAssumption DEF PdcpInv, TxInv, Counts, CountMod
  <1>2. IsFiniteSet(0 .. tx_next - 1)
    BY <1>1, FS_Interval
  <1>3. IsFiniteSet(DOMAIN discard_timers_map)
    BY <1>1, <1>2, FS_Subset
  <1>4. Offset \in Int
    BY <1>1 DEF Offset
  <1>5. ASSUME NEW key, NEW c \in DOMAIN discard_timers_map
        PROVE  Pdu(c, key, discard_timers_map[c]) \in
                 {p \in [count : 0 .. tx_next - 1, key : {key}, sdu : Int] : p.sdu = p.count + Offset}
    <2>1. c \in 0 .. tx_next - 1 /\ discard_timers_map[c] = c + Offset
      BY <1>1 DEF PdcpInv, TxInv, Numbered
    <2>2. c + Offset \in Int
      BY <1>1, <1>4, <2>1
    <2>. QED  BY <2>1, <2>2 DEF Pdu
  <1>. QED  BY <1>1, <1>3, <1>5

\* Data recovery hands the PDUs of the map to RLC again.
LEMMA RecoverKeepsInv ==
    ASSUME PdcpInv, Recover
    PROVE  PdcpInv'
  <1>1. /\ UNCHANGED <<bearer, discard_timer, tx_next, tx_key, n_sdus, rx_vars, discard_timers_map, flight>>
        /\ rlc_queue' = rlc_queue \o Retransmitted(discard_timers_map, tx_key)
    BY DEF Recover, DataRecovery, OnNewPdus, tx_vars
  <1>2. rlc_queue \in Seq(CurrentPdus) /\ flight' \in Seq([pdu : CurrentPdus, rcvd : BOOLEAN])
    BY <1>1 DEF PdcpInv, LowerInv
  <1>3. \A c \in DOMAIN discard_timers_map : Pdu(c, tx_key, discard_timers_map[c]) \in CurrentPdus
    BY MapFacts DEF CurrentPdus
  <1>4. Retransmitted(discard_timers_map, tx_key) \in Seq(CurrentPdus)
    BY <1>3, MapFacts, RetransmittedType
  <1>5. rlc_queue' \in Seq(CurrentPdus)
    BY <1>1, <1>2, <1>4
  <1>. QED  BY <1>1, <1>2, <1>5, LowerKeepsInv

\* A re-establishment of an AM DRB: the counters and what is stored stay, and the
\* PDUs of the map are sent again with the new key.
LEMMA ReestablishAmKeepsInv ==
    ASSUME PdcpInv, Reestablish, bearer = "am"
    PROVE  PdcpInv'
  <1>1. /\ UNCHANGED <<bearer, discard_timer, tx_next, n_sdus, discard_timers_map, t_reordering>>
        /\ UNCHANGED <<rx_next, rx_deliv, rx_reord, reorder_queue, upper_sdus>>
        /\ tx_key' = tx_key + 1 /\ rx_key' = tx_key + 1 /\ flight' = << >>
        /\ reordering_timer' = (reordering_timer /\ TRUE)
        /\ rlc_queue' = << >> \o Retransmitted(discard_timers_map, tx_key + 1)
    BY DEF Reestablish, TxReestablish, RxReestablish, OnNewPdus, IsSrb, IsUm, IsAm
  <1>2. Offset' = Offset
    BY <1>1 DEF Offset
  <1>3. CurrentPdus' = {p \in [count : 0 .. tx_next - 1, key : {tx_key + 1}, sdu : Int] : p.sdu = p.count + Offset}
    BY <1>1, <1>2 DEF CurrentPdus
  <1>4. \A c \in DOMAIN discard_timers_map : Pdu(c, tx_key + 1, discard_timers_map[c]) \in CurrentPdus'
    BY <1>3, MapFacts
  <1>5. Retransmitted(discard_timers_map, tx_key + 1) \in Seq(CurrentPdus')
    BY <1>4, MapFacts, RetransmittedType
  <1>6. LowerInv'
    <2>1. rlc_queue' \in Seq(CurrentPdus')
      BY <1>1, <1>5
    <2>2. flight' \in Seq([pdu : CurrentPdus', rcvd : BOOLEAN])
      BY <1>1
    <2>. QED  BY <2>1, <2>2 DEF LowerInv
  <1>7. ConfigInv' /\ TxInv'
    BY <1>1, <1>2 DEF PdcpInv, ConfigInv, TxInv, Numbered
  <1>8. reordering_timer' = reordering_timer
    BY <1>1 DEF PdcpInv, RxInv
  <1>9. RxInv'
    BY <1>1, <1>2, <1>8 DEF PdcpInv, RxInv, Numbered
  <1>10. UpperInv' /\ StoredIsWatched'
    BY <1>1, <1>2, <1>8 DEF PdcpInv, UpperInv, InOrderOnce, StoredIsWatched
  <1>. QED  BY <1>6, <1>7, <1>9, <1>10 DEF PdcpInv

\* A re-establishment of an SRB or a UM DRB: both sides start again from COUNT 0,
\* and what was passed up before has smaller numbers than what comes.
LEMMA ReestablishResetKeepsInv ==
    ASSUME PdcpInv, Reestablish, bearer # "am"
    PROVE  PdcpInv'
  <1>0. IsSrb \/ IsUm
    BY DEF PdcpInv, ConfigInv, IsSrb, IsUm
  <1>1. /\ UNCHANGED <<bearer, discard_timer, n_sdus, t_reordering>>
        /\ tx_next' = 0 /\ rx_next' = 0 /\ rx_deliv' = 0 /\ rx_reord' = 0
        /\ discard_timers_map' = << >> /\ reorder_queue' = << >>
        /\ tx_key' = tx_key + 1 /\ rx_key' = tx_key + 1 /\ flight' = << >>
        /\ reordering_timer' = FALSE
        /\ rlc_queue' = << >> \o (IF IsAm THEN Retransmitted(<< >>, tx_key + 1) ELSE << >>)
        /\ upper_sdus' = IF IsUm THEN upper_sdus \o InOrder(reorder_queue, DOMAIN reorder_queue) ELSE upper_sdus
    BY ZenonT(40), <1>0 DEF Reestablish, TxReestablish, RxReestablish, OnNewPdus
  <1>2. n_sdus \in Int /\ tx_key \in Nat /\ tx_next \in Nat
    BY CountAssumption DEF PdcpInv, TxInv, Counts, CountMod
  <1>3. PICK off \in Int : off = Offset /\ off = n_sdus - tx_next
    BY <1>2 DEF Offset
  <1>4. Offset' = n_sdus
    BY <1>1, <1>2 DEF Offset
  <1>5. /\ DOMAIN discard_timers_map' = {} /\ DOMAIN reorder_queue' = {}
    BY <1>1
  <1>6. LowerInv'
    <2>1. Retransmitted(<< >>, tx_key + 1) \in Seq(CurrentPdus')
      <3>1. DOMAIN << >> = {}
        OBVIOUS
      <3>2. IsFiniteSet(DOMAIN << >>) /\ DOMAIN << >> \subseteq Int
        BY <3>1, FS_EmptySet
      <3>. QED  BY <3>1, <3>2, RetransmittedType
    <2>2. rlc_queue' \in Seq(CurrentPdus')
      BY <1>1, <2>1
    <2>3. flight' \in Seq([pdu : CurrentPdus', rcvd : BOOLEAN])
      BY <1>1
    <2>. QED  BY <2>2, <2>3 DEF LowerInv
  <1>7. ConfigInv'
    BY <1>1 DEF PdcpInv, ConfigInv
  <1>8. TxInv'
    <2>1. 0 \in Counts
      <3>1. PICK m \in Nat : m = CountMod /\ m > 0
        BY CountAssumption DEF CountMod
      <3>. QED  BY <3>1 DEF Counts
    <2>2. Numbered(discard_timers_map)'
      BY <1>5 DEF Numbered
    <2>. QED  BY <1>1, <1>2, <1>5, <2>1, <2>2 DEF TxInv
  <1>9. RxInv'
    <2>1. Numbered(reorder_queue)'
      BY <1>5 DEF Numbered
    <2>2. /\ rx_deliv' \in Nat /\ rx_next' \in Nat /\ rx_reord' \in Nat
          /\ rx_deliv' <= rx_next' /\ rx_next' <= tx_next' /\ tx_next' - rx_deliv' <= MaxOutstanding
      BY <1>1, OutstandingType
    <2>3. ~reordering_timer' /\ reordering_timer' \in BOOLEAN /\ rx_key' = tx_key'
      BY ZenonT(40), <1>1
    <2>4. DOMAIN reorder_queue' \subseteq rx_deliv' .. rx_next' - 1
      BY <1>5
    <2>. QED  BY <2>1, <2>2, <2>3, <2>4, ZenonT(40) DEF RxInv
  <1>10. StoredIsWatched'
    BY <1>5 DEF StoredIsWatched
  <1>11. UpperInv'
    <2>1. /\ rx_deliv \in Nat /\ rx_next \in Nat /\ rx_deliv <= rx_next /\ rx_next <= tx_next
          /\ DOMAIN reorder_queue \in SUBSET (rx_deliv .. rx_next - 1)
      BY DEF PdcpInv, RxInv
    <2>2. upper_sdus \in Seq(Int) /\ \A i, j \in DOMAIN upper_sdus : i < j => upper_sdus[i] < upper_sdus[j]
      BY DEF PdcpInv, UpperInv, InOrderOnce
    <2>3. \A i \in DOMAIN upper_sdus : upper_sdus[i] < rx_deliv + off
      BY <1>3 DEF PdcpInv, UpperInv
    <2>4. \A i \in DOMAIN upper_sdus : upper_sdus[i] < n_sdus
      <3>1. rx_deliv + off <= n_sdus
        BY <1>2, <1>3, <2>1
      <3>. QED  BY <1>2, <2>1, <2>2, <2>3, <3>1
    <2>5. rx_deliv' + Offset' = n_sdus
      BY <1>1, <1>2, <1>4
    <2>6. CASE ~IsUm
      <3>1. upper_sdus' = upper_sdus
        BY <1>1, <2>6
      <3>. QED  BY <2>2, <2>4, <2>5, <3>1 DEF UpperInv, InOrderOnce
    <2>7. CASE IsUm
      <3>. DEFINE t == InOrder(reorder_queue, DOMAIN reorder_queue)
      <3>1. IsFiniteSet(rx_deliv .. rx_next - 1)
        BY <2>1, FS_Interval
      <3>2. IsFiniteSet(DOMAIN reorder_queue) /\ DOMAIN reorder_queue \subseteq Int
        BY <2>1, <3>1, FS_Subset
      <3>3. \A c \in DOMAIN reorder_queue : reorder_queue[c] = c + off
        BY <1>3 DEF PdcpInv, RxInv, Numbered
      <3>4. /\ t \in Seq(Int)
            /\ \A i \in DOMAIN t : \E c \in DOMAIN reorder_queue : t[i] = c + off
            /\ \A i, j \in DOMAIN t : i < j => t[i] < t[j]
        BY <3>2, <3>3, InOrderFacts
      <3>5. ASSUME NEW i \in DOMAIN t
            PROVE  rx_deliv + off <= t[i] /\ t[i] < n_sdus
        <4>1. PICK c \in DOMAIN reorder_queue : t[i] = c + off
          BY <3>4
        <4>2. c \in Int /\ rx_deliv <= c /\ c < rx_next
          BY <2>1
        <4>3. off = n_sdus - tx_next
          BY <1>3
        <4>4. rx_deliv + off <= c + off /\ c + off < n_sdus
          BY <1>2, <2>1, <4>2, <4>3
        <4>. QED  BY <4>1, <4>4
      <3>6. rx_deliv + off \in Int
        BY <2>1
      <3>. HIDE DEF t
      <3>7. /\ upper_sdus \o t \in Seq(Int)
            /\ \A i, j \in DOMAIN (upper_sdus \o t) : i < j => (upper_sdus \o t)[i] < (upper_sdus \o t)[j]
            /\ \A i \in DOMAIN (upper_sdus \o t) : \/ (upper_sdus \o t)[i] < rx_deliv + off
                                                   \/ \E j \in DOMAIN t : (upper_sdus \o t)[i] = t[j]
        BY <2>2, <2>3, <3>4, <3>5, <3>6, IncreasingConcat
      <3>8. ASSUME NEW i \in DOMAIN (upper_sdus \o t)
            PROVE  (upper_sdus \o t)[i] < n_sdus
        <4>1. (upper_sdus \o t)[i] \in Int
          BY <3>7
        <4>2. rx_deliv + off <= n_sdus
          BY <1>2, <1>3, <2>1
        <4>. QED  BY <1>2, <2>1, <3>5, <3>7, <4>1, <4>2
      <3>9. upper_sdus' = upper_sdus \o t
        BY <1>1, <2>7 DEF t
      <3>. QED  BY <2>5, <3>7, <3>8, <3>9 DEF UpperInv, InOrderOnce
    <2>. QED  BY <2>6, <2>7
  <1>. QED  BY <1>6, <1>7, <1>8, <1>9, <1>10, <1>11 DEF PdcpInv

-----------------------------------------------------------------------------
(* The theorems *)

\* Every step keeps the invariant.
LEMMA NextKeepsInv == PdcpInv /\ [LinkNext]_link_vars => PdcpInv'
  <1>. SUFFICES ASSUME PdcpInv, [LinkNext]_link_vars PROVE PdcpInv'
    OBVIOUS
  <1>1. CASE SubmitSdu
    BY <1>1, SubmitKeepsInv
  <1>2. CASE DiscardTimerExpiry
    <2>1. PICK count \in DOMAIN discard_timers_map : OnDiscardTimerExpired(count)
      BY <1>2 DEF DiscardTimerExpiry
    <2>2. /\ UNCHANGED <<bearer, discard_timer, tx_next, tx_key, n_sdus, rx_vars, flight>>
          /\ Erase({count}) /\ OnDiscardPdus(rlc_queue, {count})
      BY <1>2, <2>1 DEF DiscardTimerExpiry, OnDiscardTimerExpired
    <2>. QED  BY <2>2, DiscardKeepsInv
  <1>3. CASE Recover
    BY <1>3, RecoverKeepsInv
  <1>4. CASE Reestablish
    BY <1>4, ReestablishAmKeepsInv, ReestablishResetKeepsInv
  <1>5. CASE RlcDrop \/ RlcTransmit \/ RlcLose \/ RlcConfirm
    BY <1>5, RlcKeepsInv
  <1>6. CASE RlcDeliver
    BY <1>6, DeliverKeepsInv
  <1>7. CASE Notify
    <2>1. UNCHANGED <<bearer, discard_timer, tx_next, tx_key, n_sdus, rx_vars, flight, rlc_queue>>
      BY <1>7 DEF Notify, HandleNotification
    <2>2. CASE \E S : Erase(S)
      BY <2>1, <2>2, DiscardKeepsInv
    <2>3. CASE UNCHANGED discard_timers_map
      <3>1. rlc_queue' \in Seq(CurrentPdus) /\ flight' \in Seq([pdu : CurrentPdus, rcvd : BOOLEAN])
        BY <2>1 DEF PdcpInv, LowerInv
      <3>. QED  BY <2>1, <2>3, <3>1, LowerKeepsInv
    <2>. QED  BY <1>7, <2>2, <2>3 DEF Notify, HandleNotification
  <1>8. CASE ReorderingExpiry
    BY <1>8, ExpiryKeepsInv
  <1>9. CASE SendStatusReport \/ UNCHANGED link_vars
    <2>1. UNCHANGED <<bearer, discard_timer, tx_next, tx_key, n_sdus, rx_vars, flight, rlc_queue, discard_timers_map>>
      BY <1>9 DEF SendStatusReport, link_vars, tx_vars
    <2>2. rlc_queue' \in Seq(CurrentPdus) /\ flight' \in Seq([pdu : CurrentPdus, rcvd : BOOLEAN])
      BY <2>1 DEF PdcpInv, LowerInv
    <2>. QED  BY <2>1, <2>2, LowerKeepsInv
  <1>10. CASE ReceiveStatusReport
    <2>1. PICK S : Erase(S) /\ OnDiscardPdus(rlc_queue, S)
      BY ZenonT(40), <1>10 DEF ReceiveStatusReport, HandleStatusReport
    <2>2. UNCHANGED <<bearer, discard_timer, tx_next, tx_key, n_sdus, rx_vars, flight>>
      BY ZenonT(40), <1>10 DEF ReceiveStatusReport, HandleStatusReport
    <2>. QED  BY <2>1, <2>2, DiscardKeepsInv
  <1>. QED  BY <1>1, <1>2, <1>3, <1>4, <1>5, <1>6, <1>7, <1>8, <1>9, <1>10 DEF LinkNext

\* The two sides of a PDCP bearer keep step with each other, for every size of the
\* SN and HFN fields, every configuration and every number of SDUs.
THEOREM PdcpInvariance == LinkSpec => []PdcpInv
  BY InitEstablishesInv, NextKeepsInv, PTL DEF LinkSpec

\* The upper layer receives every SDU at most once and in the order of submission.
THEOREM DeliveredInOrderOnce == LinkSpec => []InOrderOnce
  <1>1. PdcpInv => InOrderOnce
    BY DEF PdcpInv, UpperInv
  <1>. QED  BY <1>1, PdcpInvariance, PTL

\* With a finite t-Reordering the timer runs while anything is stored.
THEOREM StoredSdusAreWatched == LinkSpec => []StoredIsWatched
  <1>1. PdcpInv => StoredIsWatched
    BY DEF PdcpInv
  <1>. QED  BY <1>1, PdcpInvariance, PTL

\* The receiver gives a PDU that it still waits for the COUNT that it was sent with,
\* as long as no more than half of the SN space is outstanding.
THEOREM CountsStayInStep == LinkSpec => []CountsInStep
  <1>1. ASSUME PdcpInv, NEW p \in CurrentPdus, p.count >= rx_deliv
        PROVE  RcvdCount(p) = p.count
    <2>1. PICK c \in 0 .. tx_next - 1 : c = p.count
      BY DEF CurrentPdus
    <2>2. PICK m \in Nat : m = CountMod
      BY CountAssumption DEF CountMod
    <2>3. tx_next \in 0 .. m - 1
      BY <1>1, <2>2 DEF PdcpInv, TxInv, Counts
    <2>4. /\ rx_deliv \in Nat /\ rx_deliv <= c /\ tx_next - rx_deliv <= MaxOutstanding
          /\ MaxOutstanding \in Nat /\ Window \in Nat /\ MaxOutstanding <= Window
      BY <1>1, <2>1, OutstandingType DEF PdcpInv, RxInv
    <2>5. rx_deliv \in 0 .. m - 1 /\ c \in 0 .. m - 1 /\ c < rx_deliv + Window
      BY <2>3, <2>4
    <2>6. rx_deliv \in Counts /\ c \in Counts
      BY <2>2, <2>5 DEF Counts
    <2>7. InferCount(rx_deliv, SN(c)) = c
      BY <2>4, <2>5, <2>6, InferExact
    <2>. QED  BY <2>1, <2>7 DEF RcvdCount
  <1>2. ASSUME PdcpInv
        PROVE  Range(rlc_queue) \union {f.pdu : f \in Range(flight)} \subseteq CurrentPdus
    <2>1. rlc_queue \in Seq(CurrentPdus) /\ flight \in Seq([pdu : CurrentPdus, rcvd : BOOLEAN])
      BY <1>2 DEF PdcpInv, LowerInv
    <2>2. \A i \in DOMAIN rlc_queue : rlc_queue[i] \in CurrentPdus
      BY <2>1
    <2>3. \A S : flight \in Seq(S) => \A i \in DOMAIN flight : flight[i] \in S
      OBVIOUS
    <2>4. \A i \in DOMAIN flight : flight[i] \in [pdu : CurrentPdus, rcvd : BOOLEAN]
      BY ZenonT(40), <2>1, <2>3
    <2>5. \A i \in DOMAIN flight : flight[i].pdu \in CurrentPdus
      BY <2>4
    <2>. QED  BY <2>2, <2>5 DEF Range
  <1>3. PdcpInv => CountsInStep
    BY <1>1, <1>2 DEF CountsInStep
  <1>. QED  BY <1>3, PdcpInvariance, PTL

\* No COUNT is used twice with the same key: TX_NEXT goes back only together with a
\* change of the key.
THEOREM NoCountReusedWithAKey == LinkSpec => CountsFreshPerKey
  <1>1. ASSUME PdcpInv, [LinkNext]_link_vars
        PROVE  [tx_next' < tx_next => tx_key' # tx_key]_link_vars
    <2>1. tx_next \in Nat /\ tx_key \in Nat
      BY <1>1, CountAssumption DEF PdcpInv, TxInv, Counts, CountMod
    <2>2. CASE Reestablish
      <3>1. tx_key' = tx_key + 1
        BY <2>2 DEF Reestablish, TxReestablish
      <3>. QED  BY <2>1, <3>1
    <2>3. CASE SubmitSdu
      <3>1. CASE HandleSduSent(n_sdus)
        BY <1>1, <2>1, <3>1, NextCount
      <3>2. CASE HandleSduRefused
        BY <2>1, <3>2 DEF HandleSduRefused
      <3>. QED  BY <2>3, <3>1, <3>2 DEF SubmitSdu, HandleSdu
    <2>4. CASE tx_next' = tx_next
      BY <2>1, <2>4
    <2>5. Reestablish \/ SubmitSdu \/ tx_next' = tx_next \/ UNCHANGED link_vars
      BY ZenonT(40), <1>1 DEF LinkNext, DiscardTimerExpiry, OnDiscardTimerExpired, Recover, DataRecovery, RlcDrop, RlcTransmit, RlcDeliver,
                  RlcLose, RlcConfirm, Notify, HandleNotification, ReorderingExpiry, SendStatusReport,
                  ReceiveStatusReport, HandleStatusReport, tx_vars
    <2>6. CASE UNCHANGED link_vars
      BY <2>6
    <2>. QED  BY <2>2, <2>3, <2>4, <2>5, <2>6
  <1>. QED  BY <1>1, PdcpInvariance, PTL DEF LinkSpec, CountsFreshPerKey
=============================================================================
