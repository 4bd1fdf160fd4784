-------------------------- MODULE RlcAmBufferState --------------------------
(***************************************************************************)
(* How the MAC learns that an RLC AM entity has data to send               *)
(* (rlc_tx_am_entity.cpp: handle_sdu, handle_changed_buffer_state,         *)
(* update_mac_buffer_state; mac_cell_processor.cpp:                        *)
(* update_logical_channel_dl_buffer_states).                               *)
(*                                                                         *)
(* Two executors run in parallel.  The UE executor queues and discards     *)
(* SDUs and defers an update task to the cell executor, unless the atomic  *)
(* flag says that one is pending.  The cell executor runs one task at a    *)
(* time: a deferred update, the handling of a STATUS PDU (or of            *)
(* t-PollRetransmit), which updates at once, or a slot, in which the       *)
(* scheduler serves the bearer if it knows of data and then reads the      *)
(* buffer state again.  Each access to shared memory is a step.            *)
(***************************************************************************)
EXTENDS Integers

CONSTANTS
    Capacity,     \* SDUs the queue holds
    Large,        \* MAX_DL_PDU_LENGTH, in SDUs
    DeferMayFail, \* whether the queue of the cell executor may be full
    MaxTasks      \* bound: deferred tasks

ASSUME CapacityAssumption == Capacity \in Nat \ {0} /\ Large \in Nat
ASSUME DeferAssumption == DeferMayFail \in BOOLEAN /\ MaxTasks \in Nat \ {0}

VARIABLES
    queued,               \* buffer state: SDUs to send
    pending_buffer_state, \* the atomic flag
    tasks,                \* update tasks in the queue of the cell executor
    ue_pc,                \* UE executor: "idle", "changed" (SDUs changed), "defer" (flag was set)
    cell_pc,              \* cell executor: "idle", "read", "report" (update task), "poll" (slot)
    bs,                   \* buffer state read by the update task
    prev_buffer_state,
    mac_bs                \* buffer state known to the scheduler

bs_vars == <<queued, pending_buffer_state, tasks, ue_pc, cell_pc, bs, prev_buffer_state, mac_bs>>

cell_vars == <<cell_pc, bs, prev_buffer_state, mac_bs>>

BsInit ==
    /\ queued = 0
    /\ pending_buffer_state = FALSE
    /\ tasks = 0
    /\ ue_pc = "idle" /\ cell_pc = "idle"
    /\ bs = 0 /\ prev_buffer_state = 0 /\ mac_bs = 0

-----------------------------------------------------------------------------
(* UE executor *)

WriteSdu ==
    /\ ue_pc = "idle"
    /\ queued < Capacity
    /\ queued' = queued + 1
    /\ ue_pc' = "changed"
    /\ UNCHANGED <<pending_buffer_state, tasks, cell_vars>>

DiscardSdu ==
    /\ ue_pc = "idle"
    /\ queued > 0
    /\ queued' = queued - 1
    /\ ue_pc' = "changed"
    /\ UNCHANGED <<pending_buffer_state, tasks, cell_vars>>

\* pending_buffer_state.test_and_set()
TestAndSet ==
    /\ ue_pc = "changed"
    /\ ue_pc' = IF pending_buffer_state THEN "idle" ELSE "defer"
    /\ pending_buffer_state' = TRUE
    /\ UNCHANGED <<queued, tasks, cell_vars>>

\* Mutant of Defer: the task is lost
DeferDropsTask ==
    /\ ue_pc = "defer"
    /\ ue_pc' = "idle"
    /\ UNCHANGED <<queued, pending_buffer_state, tasks, cell_vars>>

\* pcell_executor.defer(): a failure is only logged
Defer ==
    /\ ue_pc = "defer"
    /\ tasks < MaxTasks
    /\ tasks' \in {tasks + 1} \union (IF DeferMayFail THEN {tasks} ELSE {})
    /\ ue_pc' = "idle"
    /\ UNCHANGED <<queued, pending_buffer_state, cell_vars>>

-----------------------------------------------------------------------------
(* Cell executor *)

\* The deferred task starts: update_mac_buffer_state clears the flag
RunTask ==
    /\ cell_pc = "idle"
    /\ tasks > 0
    /\ tasks' = tasks - 1
    /\ pending_buffer_state' = FALSE
    /\ cell_pc' = "read"
    /\ UNCHANGED <<queued, ue_pc, bs, prev_buffer_state, mac_bs>>

\* A STATUS PDU or an expiry of t-PollRetransmit calls update_mac_buffer_state itself
UpdateAtOnce ==
    /\ cell_pc = "idle"
    /\ pending_buffer_state' = FALSE
    /\ cell_pc' = "read"
    /\ UNCHANGED <<queued, tasks, ue_pc, bs, prev_buffer_state, mac_bs>>

GetBufferState ==
    /\ cell_pc = "read"
    /\ bs' = queued
    /\ cell_pc' = "report"
    /\ UNCHANGED <<queued, pending_buffer_state, tasks, ue_pc, prev_buffer_state, mac_bs>>

\* The scheduler is not told of a large buffer state that follows a large one
ReportBufferState ==
    /\ cell_pc = "report"
    /\ mac_bs' = IF bs > Large /\ prev_buffer_state > Large THEN mac_bs ELSE bs
    /\ prev_buffer_state' = bs
    /\ cell_pc' = "idle"
    /\ UNCHANGED <<queued, pending_buffer_state, tasks, ue_pc, bs>>

\* A slot in which the scheduler serves the bearer: the MAC pulls some SDUs
PullSdus ==
    /\ cell_pc = "idle"
    /\ mac_bs > 0
    /\ \E n \in 1 .. Capacity : queued' = IF n >= queued THEN 0 ELSE queued - n
    /\ cell_pc' = "poll"
    /\ UNCHANGED <<pending_buffer_state, tasks, ue_pc, bs, prev_buffer_state, mac_bs>>

\* Mutant of RefreshAfterGrants: the grant is taken to have emptied the queue
RefreshAssumesDrained ==
    /\ cell_pc = "poll"
    /\ mac_bs' = 0
    /\ cell_pc' = "idle"
    /\ UNCHANGED <<queued, pending_buffer_state, tasks, ue_pc, bs, prev_buffer_state>>

\* update_logical_channel_dl_buffer_states reads the buffer state after the grants
RefreshAfterGrants ==
    /\ cell_pc = "poll"
    /\ mac_bs' = queued
    /\ cell_pc' = "idle"
    /\ UNCHANGED <<queued, pending_buffer_state, tasks, ue_pc, bs, prev_buffer_state>>

CellNext == RunTask \/ GetBufferState \/ ReportBufferState \/ PullSdus \/ RefreshAfterGrants

BsNext == \/ WriteSdu \/ DiscardSdu \/ TestAndSet \/ Defer
          \/ UpdateAtOnce \/ CellNext

BsSpec == BsInit /\ [][BsNext]_bs_vars

\* Both executors keep running, and the scheduler serves a bearer it knows has data
FairBsSpec == /\ BsSpec
              /\ WF_bs_vars(TestAndSet) /\ WF_bs_vars(Defer)
              /\ SF_bs_vars(RunTask) /\ SF_bs_vars(PullSdus)
              /\ WF_bs_vars(GetBufferState) /\ WF_bs_vars(ReportBufferState)
              /\ WF_bs_vars(RefreshAfterGrants)

-----------------------------------------------------------------------------
(* Properties *)

\* No lost wake-up: whenever there are SDUs to send and the scheduler believes the
\* buffer empty, something that will tell it is on its way.
MacWillKnow ==
    queued > 0 /\ mac_bs = 0 =>
        \/ tasks > 0
        \/ ue_pc # "idle"
        \/ cell_pc \in {"read", "poll"}
        \/ cell_pc = "report" /\ bs > 0

\* SDUs do not wait for ever: the MAC pulls from the bearer, or they are discarded.
EventuallyServed == queued > 0 ~> (queued = 0 \/ cell_pc = "poll")

=============================================================================
