----------------------------- MODULE RlfDetector -----------------------------
(***************************************************************************)
(* The radio link failure detector of the MAC (lib/mac/mac_dl/             *)
(* rlf_detector.h).  The DL executor adds and removes UEs; PHY threads     *)
(* report HARQ-ACKs (0) and CRCs (1).  A report is three steps of its      *)
(* thread, between which the other threads run: the RNTI is looked up      *)
(* (mac_cell_processor::handle_uci, handle_crc), the counter is updated    *)
(* atomically, and at the limit the notifier is called under its mutex.    *)
(***************************************************************************)
EXTENDS Naturals, Sequences

CONSTANTS
    Indexes,             \* DU UE indexes
    Ues,                 \* UEs, in the order of their creation
    MaxConsecutiveKos,   \* max_consecutive_kos, for both counters
    MaxReports,          \* bound on the reports in a behaviour
    None,
    Uninitialised        \* the value of a notifier that no constructor sets

VARIABLES
    ko_counters,   \* per index and direction (fetch_add is capped above the limit)
    notifier,      \* per index, the UE whose notifier is registered, or nullptr (None)
    phy,           \* per direction, where the reporting thread stands
    reports        \* reports so far

rlf_vars == <<ko_counters, notifier, phy, reports>>

Dirs == {0, 1}
Idle == [pc |-> "idle", ue_index |-> None, ack |-> FALSE]

RlfInit ==
    /\ ko_counters = [i \in Indexes |-> [d \in Dirs |-> 0]]
    /\ notifier = [i \in Indexes |-> Uninitialised]
    /\ phy = [d \in Dirs |-> Idle]
    /\ reports = 0

\* rlf_detector::add_ue.
RlfAddUe(i, u) ==
    /\ ko_counters' = [ko_counters EXCEPT ![i] = [d \in Dirs |-> 0]]
    /\ notifier' = [notifier EXCEPT ![i] = u]
    /\ UNCHANGED <<phy, reports>>

\* Mutant of RlfRemUe: the counters are put out of reach but the notifier stays.
RlfRemUeKeeping(i) ==
    /\ ko_counters' = [ko_counters EXCEPT ![i] = [d \in Dirs |-> MaxConsecutiveKos + 1]]
    /\ UNCHANGED <<notifier, phy, reports>>

\* rlf_detector::rem_ue.
RlfRemUe(i) ==
    /\ ko_counters' = [ko_counters EXCEPT ![i] = [d \in Dirs |-> MaxConsecutiveKos + 1]]
    /\ notifier' = [notifier EXCEPT ![i] = None]
    /\ UNCHANGED <<phy, reports>>

\* The indication is converted: its RNTI belongs to UE index i.
PhyLookup(d, i) ==
    /\ phy[d].pc = "idle"
    /\ reports < MaxReports /\ reports' = reports + 1
    /\ \E ack \in BOOLEAN : phy' = [phy EXCEPT ![d] = [pc |-> "count", ue_index |-> i, ack |-> ack]]
    /\ UNCHANGED <<ko_counters, notifier>>

\* handle_ack_common up to the mutex.
PhyCount(d) ==
    LET i == phy[d].ue_index
        n == IF phy[d].ack THEN 0 ELSE ko_counters[i][d] + 1
    IN
    /\ phy[d].pc = "count"
    /\ ko_counters' = [ko_counters EXCEPT ![i][d] = IF n > MaxConsecutiveKos THEN MaxConsecutiveKos + 1 ELSE n]
    /\ phy' = [phy EXCEPT ![d] = IF n = MaxConsecutiveKos THEN [@ EXCEPT !.pc = "notify"] ELSE Idle]
    /\ UNCHANGED <<notifier, reports>>

\* handle_ack_common under the mutex; u is the UE whose notifier is called.
PhyNotify(d, u) ==
    /\ phy[d].pc = "notify"
    /\ u = notifier[phy[d].ue_index]
    /\ phy' = [phy EXCEPT ![d] = Idle]
    /\ UNCHANGED <<ko_counters, notifier, reports>>
=============================================================================
