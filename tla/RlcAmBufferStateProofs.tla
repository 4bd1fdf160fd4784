----------------------- MODULE RlcAmBufferStateProofs -----------------------
(***************************************************************************)
(* Proof that no wake-up of the MAC gets lost, for queues of any size.     *)
(*                                                                         *)
(* MacWillKnow is not inductive: it says nothing of why a UE executor that *)
(* finds the flag set need not defer a task, nor of an update task that    *)
(* has read an empty queue.  The invariant adds that the flag is set only  *)
(* while a task is queued or is about to be, and that an SDU that comes    *)
(* after the queue was read has its own notification.                      *)
(***************************************************************************)
EXTENDS RlcAmBufferState, TLAPS

(* Leaves are small, but many: the provers get more than the default seconds. *)
USE SMTT(10), ZenonT(10), SMTT(40), ZenonT(40)

BsTypeOK ==
  /\ queued \in 0 .. Capacity /\ bs \in 0 .. Capacity
  /\ tasks \in Nat /\ prev_buffer_state \in Nat /\ mac_bs \in Nat
  /\ pending_buffer_state \in BOOLEAN
  /\ ue_pc \in {"idle", "changed", "defer"}
  /\ cell_pc \in {"idle", "read", "report", "poll"}

\* Something of the UE executor's is on its way to the cell executor
UpdateDue == tasks > 0 \/ ue_pc # "idle"

FlagMeansTask == pending_buffer_state => tasks > 0 \/ ue_pc = "defer"

ReadIsCurrent == cell_pc = "report" /\ bs = 0 /\ queued > 0 => UpdateDue

BsInv == BsTypeOK /\ FlagMeansTask /\ ReadIsCurrent /\ MacWillKnow

\* The invariant holds at the start and is kept by every step of either executor,
\* when the queue of the cell executor has room and the RLC queue holds no more
\* than MAX_DL_PDU_LENGTH.
LEMMA BsStep ==
    ASSUME DeferMayFail = FALSE, Capacity <= Large, BsInv, [BsNext]_bs_vars
    PROVE  BsInv'
  <1>. USE CapacityAssumption, DeferAssumption
  <1>. USE DEF BsInv, BsTypeOK, FlagMeansTask, ReadIsCurrent, UpdateDue, MacWillKnow, cell_vars
  <1>1. CASE WriteSdu
    BY <1>1 DEF WriteSdu
  <1>2. CASE DiscardSdu
    BY <1>2 DEF DiscardSdu
  <1>3. CASE TestAndSet
    BY <1>3 DEF TestAndSet
  <1>4. CASE Defer
    BY <1>4 DEF Defer
  <1>5. CASE UpdateAtOnce
    BY <1>5 DEF UpdateAtOnce
  <1>6. CASE RunTask
    <2>1. ~pending_buffer_state' /\ pending_buffer_state' \in BOOLEAN /\ cell_pc' = "read"
      BY <1>6 DEF RunTask
    <2>2. /\ UNCHANGED <<queued, ue_pc, bs, prev_buffer_state, mac_bs>>
          /\ tasks' \in Nat
      BY <1>6 DEF RunTask
    <2>. QED  BY <2>1, <2>2
  <1>7. CASE GetBufferState
    BY <1>7 DEF GetBufferState
  <1>8. CASE ReportBufferState
    <2>1. ~(bs > Large)
      OBVIOUS
    <2>. QED  BY <1>8, <2>1 DEF ReportBufferState
  <1>9. CASE PullSdus
    BY <1>9 DEF PullSdus
  <1>10. CASE RefreshAfterGrants
    BY <1>10 DEF RefreshAfterGrants
  <1>11. CASE UNCHANGED bs_vars
    BY <1>11 DEF bs_vars
  <1>. QED  BY <1>1, <1>2, <1>3, <1>4, <1>5, <1>6, <1>7, <1>8, <1>9, <1>10, <1>11 DEF BsNext, CellNext

\* No lost wake-up, under any interleaving of the two executors and for every size
\* of the queues: SDUs that the scheduler does not know of are about to be reported.
THEOREM NoLostWakeUp ==
    ASSUME DeferMayFail = FALSE, Capacity <= Large
    PROVE  BsSpec => []MacWillKnow
  <1>1. BsInit => BsInv
    <2>. SUFFICES ASSUME BsInit PROVE BsInv
      OBVIOUS
    <2>1. ~pending_buffer_state /\ pending_buffer_state \in BOOLEAN
      BY DEF BsInit
    <2>2. 0 \in 0 .. Capacity /\ ~(queued > 0)
      BY CapacityAssumption DEF BsInit
    <2>. QED  BY <2>1, <2>2 DEF BsInit, BsInv, BsTypeOK, FlagMeansTask, ReadIsCurrent, MacWillKnow
  <1>2. BsInv /\ [BsNext]_bs_vars => BsInv'
    BY BsStep
  <1>3. BsInv => MacWillKnow
    BY DEF BsInv
  <1>. QED  BY <1>1, <1>2, <1>3, PTL DEF BsSpec
=============================================================================
