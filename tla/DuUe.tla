-------------------------------- MODULE DuUe --------------------------------
(***************************************************************************)
(* The life of UE contexts in the DU: the DU manager (lib/du_manager), the *)
(* F1AP (lib/f1ap/du), the MAC controller with its UL and DL parts         *)
(* (lib/mac) and the scheduler's UE repository, each with a context of its *)
(* own per UE index, and the RLF detector.  The control executor is one    *)
(* thread with a FIFO of tasks; per UE index a sequencer runs one          *)
(* procedure at a time (ue_ctrl_loop).  A procedure is a coroutine: it     *)
(* works on another executor and resumes through the control executor.     *)
(***************************************************************************)
EXTENDS RlfDetector, FiniteSets

CONSTANTS
    MaxTriggers,   \* removals the CU asks of one UE: release command, old UE id
    MaxSetups      \* UE context setups the CU asks in a behaviour

ASSUME DuUeAssumption ==
    /\ Ues \subseteq Nat /\ None \notin Ues \union Indexes /\ Uninitialised \notin Ues \union {None}
    /\ MaxTriggers \in Nat

VARIABLES
    du_db,         \* du_ue_manager::ue_db: the UE at each index, or None
    f1ap_ues,      \* f1ap_du_ue_manager::ues
    marked,        \* per index, context.marked_for_release
    mac_ctrl,      \* mac_controller::ue_db, and the RNTI table
    mac_ul,        \* mac_ul_ue_manager::ue_db
    mac_dl,        \* mac_dl_ue_manager::ue_db
    sched,         \* ue_repository::ues
    ues_to_rem,    \* ue_repository::ues_to_rem
    busy,          \* those of them with a HARQ that is not empty
    erasing,       \* index whose removal slot_indication has notified, not yet erased, or None
    sched_events,  \* ue_event_manager::common_events
    ready,         \* per index, the event ue_config_ready
    tasks,         \* per index, the queue of the sequencer
    proc,          \* per index, the procedure that runs and what is left of it
    ctrl_queue,    \* tasks of the control executor
    running,       \* index whose sequencer the control thread is running, or None
    created,       \* number of UEs created so far
    known,         \* UEs the CU knows (initial UL RRC message sent)
    triggers,      \* per UE, removals the CU asked for
    setups,        \* UE context setups the CU asked for
    failed         \* what went wrong: an assertion that failed, say; or None

db_vars == <<du_db, f1ap_ues, marked, mac_ctrl, mac_ul, mac_dl, sched>>
rem_vars == <<ues_to_rem, busy, erasing>>
cu_vars == <<created, known, triggers, setups>>
duue_vars == <<db_vars, rem_vars, sched_events, ready, tasks, proc, ctrl_queue, running,
               cu_vars, failed, rlf_vars>>

\* The parts of mac_ue_reconfiguration_procedure: bearers to add or none, and
\* bearers to remove or none.
SetupParts ==
    LET bearers == {<<>>, <<"ul", "dl">>} IN {add \o <<"sched">> \o rem : add \in bearers, rem \in bearers}

\* Mutant of Parts: the MAC DL context goes before the scheduler's.
PartsMacFirst(kind) ==
    CASE kind = "create"  -> {<<"ul", "dl", "sched">>}
      [] kind = "setup"   -> SetupParts
      [] kind = "delete"  -> {<<"ue", "dl", "sched", "ul">>}
      [] kind = "release" -> {<<"wait", "ue", "dl", "sched", "ul">>}

\* Where each procedure works, in order: after the last part it completes.
Parts(kind) ==
    CASE kind = "create"  -> {<<"ul", "dl", "sched">>}
      [] kind = "setup"   -> SetupParts
      [] kind = "delete"  -> {<<"ue", "sched", "dl", "ul">>}
      [] kind = "release" -> {<<"wait", "ue", "sched", "dl", "ul">>}

NoProc == [kind |-> "none", parts |-> <<>>]
At(i, part) == proc[i].parts # <<>> /\ Head(proc[i].parts) = part

\* The control thread is between two of its tasks.
CtrlFree == running = None /\ failed = None
Defer(task) == ctrl_queue' = Append(ctrl_queue, task)
Task(kind, i, u) == [kind |-> kind, ue_index |-> i, ue |-> u]

Nobody == [i \in Indexes |-> None]

Init ==
    /\ RlfInit
    /\ du_db = Nobody /\ f1ap_ues = Nobody
    /\ mac_ctrl = Nobody /\ mac_ul = Nobody /\ mac_dl = Nobody /\ sched = Nobody
    /\ marked = [i \in Indexes |-> FALSE]
    /\ ues_to_rem = {} /\ busy = {} /\ erasing = None /\ sched_events = <<>>
    /\ ready = [i \in Indexes |-> FALSE]
    /\ tasks = [i \in Indexes |-> <<>>]
    /\ proc = [i \in Indexes |-> NoProc]
    /\ ctrl_queue = <<>> /\ running = None
    /\ created = 0 /\ known = {} /\ setups = 0
    /\ triggers = [u \in Ues |-> 0]
    /\ failed = None

-----------------------------------------------------------------------------
\* The procedure of index i goes on with these parts.  Before "sched" it pushes
\* its event to the scheduler and awaits ue_config_ready, which may be set.
Enter(i, kind, parts) ==
    /\ proc' = [proc EXCEPT ![i] = [kind |-> kind, parts |-> parts]]
    /\ IF Head(parts) = "sched"
       THEN /\ sched_events' = Append(sched_events, Task(kind, i, du_db[i]))
            /\ running' = IF ready[i] THEN i ELSE None
       ELSE running' = None /\ UNCHANGED sched_events

\* The last part is done: the end of ue_creation_procedure, of the UE context
\* setup, or of mac_ue_delete_procedure and ue_deletion_procedure.  Then
\* send_ue_context_release_complete reads the UE index from the erased F1AP UE.
Complete(i) ==
    LET kind == proc[i].kind IN
    /\ proc' = [proc EXCEPT ![i] = NoProc]
    /\ running' = i
    /\ CASE kind = "create" -> known' = known \cup {du_db[i]} /\ UNCHANGED <<mac_ctrl, f1ap_ues, tasks, failed>>
         [] kind = "setup"  -> UNCHANGED <<known, mac_ctrl, f1ap_ues, tasks, failed>>
         [] OTHER ->
              /\ mac_ctrl' = [mac_ctrl EXCEPT ![i] = None]
              /\ failed' \in IF f1ap_ues[i] = None THEN {"f1ap remove_ue"}
                             ELSE {failed} \cup (IF kind = "release" THEN {"erased F1AP UE"} ELSE {})
              /\ f1ap_ues' = [f1ap_ues EXCEPT ![i] = None]
              /\ tasks' = [tasks EXCEPT ![i] = Append(@, Task("erase", i, du_db[i]))]
              /\ UNCHANGED known
    /\ UNCHANGED sched_events

\* The part at the head is done.
Advance(i) ==
    LET rest == Tail(proc[i].parts) IN
    IF rest = <<>> THEN Complete(i)
    ELSE Enter(i, proc[i].kind, rest) /\ UNCHANGED <<known, mac_ctrl, f1ap_ues, tasks, failed>>

-----------------------------------------------------------------------------
(* Steps of the control thread. *)

\* An UL CCCH indication: handle_ue_create_request and the constructor of
\* ue_creation_procedure, on the first index without UE and queued tasks.
FreeIndexes == {i \in Indexes : du_db[i] = None /\ tasks[i] = <<>>}

CreateUe ==
    /\ CtrlFree
    /\ \/ \E i \in FreeIndexes :
            /\ created + 1 \in Ues
            /\ \A j \in FreeIndexes : i <= j
            /\ du_db' = [du_db EXCEPT ![i] = created + 1]
            /\ tasks' = [tasks EXCEPT ![i] = Append(@, Task("create", i, created + 1))]
            /\ running' = IF proc[i] = NoProc THEN i ELSE None
            /\ created' = created + 1
            /\ UNCHANGED failed
       \/ \* ue_ctrl_loop[MAX_NOF_DU_UES]
          /\ FreeIndexes = {}
          /\ failed' = "no free UE index"
          /\ UNCHANGED <<du_db, tasks, running, created>>
    /\ UNCHANGED <<f1ap_ues, marked, mac_ctrl, mac_ul, mac_dl, sched, rem_vars, sched_events, ready,
                   proc, ctrl_queue, known, triggers, setups, rlf_vars>>

\* A message of the CU for UE u is turned into a task of the UE's sequencer.
Schedule(kind, u) ==
    /\ CtrlFree /\ u \in known
    /\ \E i \in Indexes :
         /\ f1ap_ues[i] = u
         /\ tasks' = [tasks EXCEPT ![i] = Append(@, Task(kind, i, u))]
         /\ running' = IF proc[i] = NoProc THEN i ELSE None
    /\ UNCHANGED <<db_vars, rem_vars, sched_events, ready, proc, ctrl_queue, created, known, failed, rlf_vars>>

\* handle_ue_context_setup_request and handle_ue_context_modification_request:
\* the CU asks nothing more once it removes a UE.
ContextSetup(u) ==
    /\ triggers[u] = 0 /\ setups < MaxSetups
    /\ Schedule("setup", u)
    /\ setups' = setups + 1 /\ UNCHANGED triggers

\* handle_ue_context_release_command.
ReleaseCommand(u) ==
    /\ triggers[u] < MaxTriggers
    /\ Schedule("release", u)
    /\ triggers' = [triggers EXCEPT ![u] = @ + 1] /\ UNCHANGED setups

\* The old UE id in a release command or a DL RRC message transfer.
RemoveOldUe(u) ==
    /\ triggers[u] < MaxTriggers
    /\ Schedule("delete", u)
    /\ triggers' = [triggers EXCEPT ![u] = @ + 1] /\ UNCHANGED setups

\* The sequencer of index i pops its next task, or waits for one.  The
\* constructors of "setup" and "release" kept a reference to the F1AP UE.
StartCreate(i) ==
    \/ \* setup_du_ue_resources fails: clear_ue.
       /\ tasks' = [tasks EXCEPT ![i] = Append(Tail(@), Task("erase", i, du_db[i]))]
       /\ UNCHANGED <<f1ap_ues, marked, mac_ctrl, proc, running, sched_events, failed>>
    \/ /\ tasks' = [tasks EXCEPT ![i] = Tail(@)]
       /\ failed' = IF f1ap_ues[i] # None THEN "f1ap add_ue" ELSE IF mac_ctrl[i] # None THEN "mac add_ue" ELSE failed
       /\ f1ap_ues' = [f1ap_ues EXCEPT ![i] = du_db[i]]
       /\ marked' = [marked EXCEPT ![i] = FALSE]
       /\ mac_ctrl' = [mac_ctrl EXCEPT ![i] = du_db[i]]
       /\ \E parts \in Parts("create") : Enter(i, "create", parts)

StartSetup(i) ==
    /\ tasks' = [tasks EXCEPT ![i] = Tail(@)]
    /\ failed' = IF f1ap_ues[i] # Head(tasks[i]).ue THEN "dangling F1AP UE" ELSE failed
    /\ \/ UNCHANGED <<proc, running, sched_events>>    \* nothing to do, or no resources
       \/ \E parts \in Parts("setup") : Enter(i, "setup", parts)
    /\ UNCHANGED <<du_db, f1ap_ues, marked, mac_ctrl>>

StartRelease(i) ==
    /\ tasks' = [tasks EXCEPT ![i] = Tail(@)]
    /\ failed' = IF f1ap_ues[i] # Head(tasks[i]).ue THEN "dangling F1AP UE" ELSE failed
    /\ marked' = [marked EXCEPT ![i] = TRUE]
    /\ \E parts \in Parts("release") : Enter(i, "release", parts)
    /\ UNCHANGED <<du_db, f1ap_ues, mac_ctrl>>

\* ue_deletion_procedure returns early when the UE does not exist.
StartDelete(i) ==
    /\ tasks' = [tasks EXCEPT ![i] = Tail(@)]
    /\ IF du_db[i] = None THEN UNCHANGED <<proc, running, sched_events>>
       ELSE \E parts \in Parts("delete") : Enter(i, "delete", parts)
    /\ UNCHANGED <<du_db, f1ap_ues, marked, mac_ctrl, failed>>

\* Mutant of StartErase: the task is scheduled twice.
StartEraseTwice(i) ==
    /\ failed' = IF du_db[i] = None THEN "remove_ue" ELSE failed
    /\ du_db' = [du_db EXCEPT ![i] = None]
    /\ UNCHANGED <<f1ap_ues, marked, mac_ctrl, tasks, proc, running, sched_events>>

\* The task scheduled by du_ue_manager::remove_ue.
StartErase(i) ==
    /\ tasks' = [tasks EXCEPT ![i] = Tail(@)]
    /\ failed' = IF du_db[i] = None THEN "remove_ue" ELSE failed
    /\ du_db' = [du_db EXCEPT ![i] = None]
    /\ UNCHANGED <<f1ap_ues, marked, mac_ctrl, proc, running, sched_events>>

RunSequencer(i) ==
    /\ running = i /\ proc[i] = NoProc /\ failed = None
    /\ IF tasks[i] = <<>>
       THEN running' = None /\ UNCHANGED <<du_db, f1ap_ues, marked, mac_ctrl, tasks, proc, sched_events, failed>>
       ELSE CASE Head(tasks[i]).kind = "create"  -> StartCreate(i) /\ UNCHANGED du_db
              [] Head(tasks[i]).kind = "setup"   -> StartSetup(i)
              [] Head(tasks[i]).kind = "release" -> StartRelease(i)
              [] Head(tasks[i]).kind = "delete"  -> StartDelete(i)
              [] Head(tasks[i]).kind = "erase"   -> StartErase(i)
    /\ UNCHANGED <<mac_ul, mac_dl, sched, rem_vars, ready, ctrl_queue, cu_vars, rlf_vars>>

\* Mutant of PassReady: the event is not reset for the next procedure.
PassReadySticky(i) ==
    /\ running = i /\ At(i, "sched") /\ ready[i] /\ failed = None
    /\ Advance(i)
    /\ UNCHANGED <<du_db, marked, mac_ul, mac_dl, sched, rem_vars, ready, ctrl_queue, created, triggers, setups, rlf_vars>>

\* ue_config_ready was set before or while the procedure awaits it.
PassReady(i) ==
    /\ running = i /\ At(i, "sched") /\ ready[i] /\ failed = None
    /\ ready' = [ready EXCEPT ![i] = FALSE]
    /\ Advance(i)
    /\ UNCHANGED <<du_db, marked, mac_ul, mac_dl, sched, rem_vars, ctrl_queue, created, triggers, setups, rlf_vars>>

\* The release timer of f1ap_du_ue_context_release_procedure expires; then
\* ue_deletion_procedure starts.
ReleaseTimeout(i) ==
    /\ CtrlFree /\ At(i, "wait")
    /\ IF du_db[i] = None
       THEN /\ proc' = [proc EXCEPT ![i] = NoProc]
            /\ running' = i
            /\ UNCHANGED <<known, mac_ctrl, f1ap_ues, tasks, failed, sched_events>>
       ELSE Advance(i)
    /\ UNCHANGED <<du_db, marked, mac_ul, mac_dl, sched, rem_vars, ready, ctrl_queue, created, triggers, setups,
                   rlf_vars>>

\* The next task of the control executor.
Popped(kind) == CtrlFree /\ ctrl_queue # <<>> /\ Head(ctrl_queue).kind = kind /\ ctrl_queue' = Tail(ctrl_queue)

RunResume ==
    /\ Popped("resume")
    /\ Advance(Head(ctrl_queue).ue_index)
    /\ UNCHANGED <<du_db, marked, mac_ul, mac_dl, sched, rem_vars, ready, created, triggers, setups, rlf_vars>>

\* srs_sched_config_adapter: the response of the scheduler sets ue_config_ready.
RunReady ==
    /\ Popped("ready")
    /\ LET i == Head(ctrl_queue).ue_index IN
       /\ ready' = [ready EXCEPT ![i] = TRUE]
       /\ running' = IF At(i, "sched") THEN i ELSE None
    /\ UNCHANGED <<db_vars, rem_vars, sched_events, tasks, proc, cu_vars, failed, rlf_vars>>

\* handle_radio_link_failure and f1ap_du_impl::handle_ue_context_release_request.
RunRlf ==
    /\ Popped("rlf")
    /\ LET i == Head(ctrl_queue).ue_index IN
       failed' = IF du_db[i] # None /\ f1ap_ues[i] = None THEN "release request for non-existent UE" ELSE failed
    /\ UNCHANGED <<db_vars, rem_vars, sched_events, ready, tasks, proc, running, cu_vars, rlf_vars>>

-----------------------------------------------------------------------------
(* Steps of the other executors. *)

\* A procedure's part on another executor is done: it resumes on the control one.
Offloaded(i, part) ==
    /\ failed = None /\ At(i, part)
    /\ proc' = [proc EXCEPT ![i].parts = <<"resume">> \o Tail(@)]
    /\ Defer(Task("resume", i, du_db[i]))

\* What add_ue, addmod_bearers, remove_bearers and remove_ue make of the context c at index i,
\* and when they return false: the UE is there already, or is not there.
MacContext(i, c) ==
    CASE proc[i].kind = "create" -> du_db[i]
      [] proc[i].kind = "setup"  -> c
      [] OTHER                   -> None
MacRefuses(i, db) == (proc[i].kind = "create") # (db[i] = None)

\* disconnect_drbs on the UE executor.
UeStep(i) ==
    /\ Offloaded(i, "ue")
    /\ UNCHANGED <<db_vars, rem_vars, sched_events, ready, tasks, running, cu_vars, failed, rlf_vars>>

\* mac_ul_processor::add_ue, addmod_bearers, remove_bearers, remove_ue.
UlStep(i) ==
    /\ Offloaded(i, "ul")
    /\ mac_ul' = [mac_ul EXCEPT ![i] = MacContext(i, @)]
    /\ failed' = IF MacRefuses(i, mac_ul) THEN "mac_ul" ELSE failed
    /\ UNCHANGED <<du_db, f1ap_ues, marked, mac_ctrl, mac_dl, sched, rem_vars, sched_events, ready, tasks,
                   running, cu_vars, rlf_vars>>

\* mac_dl_processor::add_ue, addmod_bearers, remove_bearers, remove_ue, with the
\* RLF detector.  The worker of the cell also runs the slots of the scheduler.
DlStep(i) ==
    /\ Offloaded(i, "dl") /\ erasing = None
    /\ mac_dl' = [mac_dl EXCEPT ![i] = MacContext(i, @)]
    /\ failed' = IF MacRefuses(i, mac_dl) THEN "mac_dl" ELSE failed
    /\ CASE proc[i].kind = "create" -> RlfAddUe(i, du_db[i])
         [] proc[i].kind = "setup"  -> UNCHANGED rlf_vars
         [] OTHER                   -> RlfRemUe(i)
    /\ UNCHANGED <<du_db, f1ap_ues, marked, mac_ctrl, mac_ul, sched, rem_vars, sched_events, ready, tasks,
                   running, cu_vars>>

\* ue_event_manager::process_common in a slot: the scheduler's next event.
SchedEvent ==
    /\ failed = None /\ erasing = None /\ sched_events # <<>>
    /\ sched_events' = Tail(sched_events)
    /\ LET ev == Head(sched_events)
           i  == ev.ue_index
       IN
       \/ /\ ev.kind = "create"
          /\ sched' = [sched EXCEPT ![i] = ev.ue]
          /\ failed' = IF sched[i] # None THEN "sched add_ue" ELSE failed
          /\ Defer(Task("ready", i, ev.ue)) /\ UNCHANGED rem_vars
       \/ /\ ev.kind = "setup"
          /\ IF sched[i] = None THEN UNCHANGED ctrl_queue ELSE Defer(Task("ready", i, ev.ue))
          /\ UNCHANGED <<sched, failed, rem_vars>>
       \/ /\ ev.kind \in {"delete", "release"}
          /\ IF sched[i] = None THEN UNCHANGED <<ues_to_rem, busy>>
             ELSE ues_to_rem' = ues_to_rem \cup {i} /\ busy' \in {busy, busy \cup {i}}
          /\ UNCHANGED <<sched, failed, ctrl_queue, erasing>>
    /\ UNCHANGED <<du_db, f1ap_ues, marked, mac_ctrl, mac_ul, mac_dl, ready, tasks, proc, running, cu_vars, rlf_vars>>

sched_unchanged == <<du_db, f1ap_ues, marked, mac_ctrl, mac_ul, mac_dl, sched_events, ready, tasks, proc, running,
                     cu_vars, failed, rlf_vars>>

\* What happens in module Harq to a UE under removal: its HARQs become empty, or a
\* new transmission is granted.
SchedHarqs(i) ==
    /\ failed = None /\ erasing = None /\ i \in ues_to_rem
    /\ busy' = IF i \in busy THEN busy \ {i} ELSE busy \cup {i}
    /\ UNCHANGED <<sched_unchanged, sched, ues_to_rem, erasing, ctrl_queue>>

\* Mutant of SchedNotify: the MAC gets no response.
SchedNotifySilent(i) ==
    /\ failed = None /\ erasing = None /\ i \in ues_to_rem \ busy
    /\ ues_to_rem' = ues_to_rem \ {i} /\ erasing' = i
    /\ UNCHANGED <<sched_unchanged, sched, busy, ctrl_queue>>

\* ue_repository::slot_indication: is_ue_ready_for_removal, on_ue_delete_response.
SchedNotify(i) ==
    /\ failed = None /\ erasing = None /\ i \in ues_to_rem \ busy
    /\ ues_to_rem' = ues_to_rem \ {i} /\ erasing' = i
    /\ Defer(Task("ready", i, sched[i]))
    /\ UNCHANGED <<sched_unchanged, sched, busy>>

\* Then it erases the UE.  The control thread runs in between.
SchedErase ==
    /\ failed = None /\ erasing # None
    /\ sched' = [sched EXCEPT ![erasing] = None]
    /\ erasing' = None
    /\ UNCHANGED <<sched_unchanged, ues_to_rem, busy, ctrl_queue>>

-----------------------------------------------------------------------------
(* Steps of the threads of the PHY. *)

phy_unchanged == <<db_vars, rem_vars, sched_events, ready, tasks, proc, running, cu_vars>>

\* The PHY reports on what the scheduler allocated: the UE at index i is in the
\* scheduler, or was and is being removed.
ReportLookup(d, i) ==
    /\ failed = None /\ mac_ctrl[i] # None
    /\ sched[i] # None \/ proc[i].kind \in {"delete", "release"}
    /\ PhyLookup(d, i)
    /\ UNCHANGED <<phy_unchanged, ctrl_queue, failed>>

ReportCount(d) == failed = None /\ PhyCount(d) /\ UNCHANGED <<phy_unchanged, ctrl_queue, failed>>

\* on_rlf_detected: the task may be dropped (full queue); no notifier, no task.
ReportNotify(d) ==
    /\ failed = None
    /\ \E u \in Ues \cup {None, Uninitialised} :
         /\ PhyNotify(d, u)
         /\ \/ u \in Ues /\ Defer(Task("rlf", phy[d].ue_index, u))
            \/ UNCHANGED ctrl_queue
         /\ failed' = IF u = Uninitialised THEN "uninitialised notifier" ELSE failed
    /\ UNCHANGED phy_unchanged

-----------------------------------------------------------------------------
Control ==
    \/ RunResume \/ RunReady \/ RunRlf
    \/ \E i \in Indexes : RunSequencer(i) \/ PassReady(i) \/ ReleaseTimeout(i)

Executors == \E i \in Indexes : UeStep(i) \/ UlStep(i) \/ DlStep(i)

Scheduler == SchedEvent \/ SchedErase \/ \E i \in Indexes : SchedHarqs(i) \/ SchedNotify(i)

Phy == \E d \in Dirs : ReportCount(d) \/ ReportNotify(d) \/ \E i \in Indexes : ReportLookup(d, i)

Cu == CreateUe \/ \E u \in Ues : ContextSetup(u) \/ ReleaseCommand(u) \/ RemoveOldUe(u)

Next == Control \/ Executors \/ Scheduler \/ Phy \/ Cu

Spec == Init /\ [][Next]_duue_vars

\* The workers of the executors take the next task, the slots go on and timers
\* expire.  Nothing is assumed of the CU, of the UEs, of the PHY and of the HARQs.
FairSpec ==
    /\ Spec
    /\ WF_duue_vars(Control) /\ WF_duue_vars(SchedEvent) /\ WF_duue_vars(SchedErase)
    /\ \A i \in Indexes :
         /\ WF_duue_vars(UeStep(i)) /\ WF_duue_vars(UlStep(i)) /\ WF_duue_vars(DlStep(i))
         /\ WF_duue_vars(SchedNotify(i))

-----------------------------------------------------------------------------
(* Properties. *)

\* While the scheduler may allocate a UE, the MAC DL, the MAC UL, the MAC
\* controller, the F1AP and the DU manager hold a context of that same UE; and
\* so inwards for each of them ("Removing the UE from the scheduler before the
\* MAC avoids potential race conditions", ue_delete_procedure.h).
ContextsNested ==
    \A i \in Indexes :
       /\ sched[i] # None => mac_dl[i] = sched[i]
       /\ mac_dl[i] # None => mac_ul[i] = mac_dl[i]
       /\ mac_ul[i] # None => mac_ctrl[i] = mac_ul[i]
       /\ mac_ctrl[i] # None => f1ap_ues[i] = mac_ctrl[i]
       /\ f1ap_ues[i] # None => du_db[i] = f1ap_ues[i]

\* The detector holds the notifier of the UE in the MAC DL, and while a task is
\* queued that on_rlf_detected posted with the this pointer of a notifier, the
\* UE that owns it is neither destroyed nor unknown to the F1AP, whatever the
\* removal does meanwhile.  (This may not be the UE whose KOs were counted.)
RlfNotifierOutlivesTask ==
    /\ \A i \in Indexes : notifier[i] \in Ues => mac_dl[i] = notifier[i]
    /\ \A k \in DOMAIN ctrl_queue :
         LET t == ctrl_queue[k] IN
         t.kind = "rlf" => du_db[t.ue_index] = t.ue /\ f1ap_ues[t.ue_index] = t.ue

\* What the code does not rule out: all UE indexes are in use at an UL CCCH
\* indication, and a release procedure ends by reading the F1AP UE it erased.
Unguarded == {"no free UE index", "erased F1AP UE"}

\* Apart from that, and while the CU asks once for the removal of a UE, nothing
\* fails: no table refuses an insertion or a removal, no procedure starts on a
\* destroyed F1AP UE, no other srsran_assert of the UE managers fails, and the
\* RLF detector never calls a notifier that was not set.
DuAssertionsHold == failed \in {None} \cup Unguarded

\* A procedure that waits for the scheduler has exactly one response on its
\* way, and no response comes for a procedure that does not wait: none is lost,
\* and none is left for the next procedure, or the next UE, of the index.
ResponseAwaited ==
    \A i \in Indexes :
       LET OfIndex(q, kinds) == {k \in DOMAIN q : q[k].ue_index = i /\ q[k].kind \in kinds}
           onTheirWay == Cardinality(OfIndex(sched_events, {"create", "setup", "delete", "release"}))
                         + Cardinality(ues_to_rem \cap {i})
                         + Cardinality(OfIndex(ctrl_queue, {"ready"}))
                         + (IF ready[i] THEN 1 ELSE 0)
       IN onTheirWay = IF At(i, "sched") THEN 1 ELSE 0

\* Unless the HARQs of UEs under removal are in use again and again for ever
\* (is_ue_ready_for_removal), a UE whose removal the CU asked for disappears from
\* the DU, whatever setups, radio link failures and creations interfere.
RemovalEnds ==
    \/ []<>(busy # {})
    \/ \A u \in Ues : triggers[u] > 0 ~> failed # None \/ \A i \in Indexes : du_db[i] # u

=============================================================================
