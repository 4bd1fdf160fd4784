# A verification project for the srsRAN gNB

TLA+ modules that model parts of the srsRAN 5G gNB, TLC configurations that check them on
small instances, and theorems that the TLAPS proof system checks for every instance. The project
covers the layer 2 user plane (RLC AM, RLC UM, PDCP), the timer service all of them use, the HARQ
entity of the scheduler, and the life of a UE in the DU (DU manager, F1AP, MAC, scheduler, radio
link failures): the code in which timers, wrapping numbers, losses and several executors meet.

Paths below are relative to `src/`. `PROJECT.json` lists every component, run, mutant, finding,
hazard and theorem, and maps each definition to the lines it models.

## 1. The system and its parts

| Part | State | Operations | What is hard about it | Here |
|---|---|---|---|---|
| RLC AM receiver (`lib/rlc/rlc_rx_am_entity`) | four SNs, window of SDUs and segments, t-Reassembly, t-StatusProhibit, cached STATUS report | data PDU, two expiries, status pull | wrap-around, overlapping segments, timer stop/restart rules, stale report | `RlcAmRx` |
| RLC AM transmitter (`lib/rlc/rlc_tx_am_entity`) | SDU queue, window, retransmission queue, segmentation, poll counters, t-PollRetransmit | SDU, discard, pull, STATUS PDU, expiry | late and reordered reports, segmented retransmission, polls | `RlcAmTx` |
| STATUS PDU (`lib/rlc/rlc_am_pdu`) | NACK list | push, trim | run-length encoding over SNs and offsets, 8 bit range | `RlcAmPdu`, `RlcAmNackList` |
| bearer | both sides and the channel | all of the above | loss, duplication, reordering, segmentation, silence | `RlcAmLink`, `RlcAmService` |
| buffer state notification (RLC, `lib/mac/mac_dl/mac_cell_processor.cpp`) | atomic flag, deferred task, last report | SDU, discard, task, slot | two executors, lost wake-up | `RlcAmBufferState` |
| RLC UM (`lib/rlc/rlc_*_um_entity`) | reassembly window, three SNs, t-Reassembly | SDU, discard, pull, PDU, expiry | raw and modular SN comparisons mixed, SN reuse | `RlcUm` |
| PDCP (`lib/pdcp`) | COUNTs, reordering queue, discard timers, keys | SDU, PDU, notifications, status report, recovery, re-establishment | HFN reconstruction, t-Reordering, discard races | `PdcpBase`, `PdcpTx`, `PdcpRx`, `PdcpLink` |
| timers (`lib/support/timers.cpp`) | front end and back end states, command ids, wheel, free list | create, set, run, stop, destroy, tick, dispatch | expiry races stop, restart and reuse; a full queue | `TimerManager`, `TimerContract` |
| HARQ (`lib/scheduler/ue_scheduling`) | HARQ processes, UCI counters, feedback events | slot, feedback, (re)transmission, UE removal | late, repeated, missing feedback; slot wrap-around | `Harq` |
| UE contexts (`lib/du_manager`, `lib/f1ap/du`, `lib/mac`, `ue_repository`) | six tables, sequencers, coroutines, tasks of four executors | creation, setup, release, old UE, deletion | order of removal, interleaved coroutines, index reuse | `DuUe` |
| RLF detector (`lib/mac/mac_dl/rlf_detector.h`) | atomic counters, notifiers | ACK, CRC, add, remove | counters shared by threads, late notification | `RlfDetector` |
| RLC TM, transactions (`include/srsran/support/async`), F1-U (`lib/f1u`) | | | id reuse, late responses, discard blocks | no |
| rest of the scheduler, MAC PDUs, F1AP messages, E1AP, NGAP, RRC, CU-CP, CU-UP | | | | no |
| PHY, FAPI, fronthaul, radio, ASN.1, gateways, apps | - | - | numerical, generated or pure I/O | no |

PDCP hands SDUs to RLC in the *UE executor*. The MAC pulls PDUs from RLC in the *cell executor*,
one pull per grant of the scheduler; the scheduler grants what it knows of the RLC buffer state.
Received PDUs enter RLC in the UE executor. An AM entity has a transmitting and a receiving side:
the receiving side hands STATUS PDUs it receives to the transmitting side, which also pulls the
report of its own receiving side and sends it before any data.

UE procedures run in the *control executor* and hop to the UE, UL, cell and slot executors for the
part of the work that belongs there. All timers are ticked by one thread, which hands a time-out to
the executor of the timer's owner.

## 2. Modules

`RlcAmPdu` - SN arithmetic, AMD PDUs, NACKs, `push_nack`, `trim`. Payload is abstracted to the
identity of an SDU and a byte range. `Corrupt` is an SDU put together from the wrong bytes.

`RlcAmRx` - one action per handler: `HandleDataPdu`, `OnExpiredReassemblyTimer`, `GetStatusPdu`,
`OnExpiredStatusProhibitTimer`. `handle_data_pdu` is a chain of updates; the model names its parts
(`AdvanceWindow`, `UpdateReassemblyTimer`) and the second reads the primed variables of the first,
as the code reads the updated state. The loop of `store_segment` is a fold; the loops over SNs are
`FirstNotReceived`. `rx_aborted` records a failed `srsran_assert` or an access to an SN that is not
in the window. `RxSpec` feeds the receiver with every PDU that a peer can form, in every order,
which includes every behaviour of a channel.

`RlcAmTx` - `HandleSdu`, `DiscardSdu`, `PullPdu` (retransmission, continued segment, new SDU, or
nothing), `HandleStatusPdu`, `OnExpiredPollRetransmitTimer`. `get_polling_bit` is evaluated after
the queues were updated, as in the code. The transmission window is a circular map: a new SN
overwrites the one in its slot, which `tx_aborted` records.

`RlcAmService` - the abstract specification: each SDU is delivered at most once, intact, and
confirmed to PDCP only if all SDUs before were delivered or dropped.

`RlcAmLink` - transmitter, channel, receiver. The channel is external code and is modelled by what
the two sides can see of it: it loses, duplicates and reorders PDUs according to `Faults`.
`ServiceSpec` is the refinement: `submitted <- n_sdus`, `confirmed <- delivered_sdu`, and `received`
is the set of SDUs that the peer delivered.

`calm` says whether a bearer is spared discards and a t-PollRetransmit shorter than a round trip;
`NoSilentStall` is stated for calm bearers. `WholeGrants` holds when no grant cuts an SDU.

`RlcAmNackList` - builds the list SN by SN for every pattern of missing bytes and compares it with
the set of those bytes. `MCRlcAmRx` checks it along with the receiver.

`RlcAmBufferState` - the UE executor and the cell executor step by step; each access to the flag,
to the task queue and to the buffer state is an action.

`RlcAmRxProofs`, `RlcAmLinkProofs`, `RlcAmBufferStateProofs`, `RlcUmProofs`, `PdcpLinkProofs`, `TimerManagerProofs`,
`TimerRunProofs`, `DuUeProofs` - theorems about the module they are named after (the two about timers,
about `TimerManager`). `MC*` modules instantiate the specifications for TLC.

`RlcUm` - transmitter, lower layer and receiver of a UM bearer in one module. `HandlePdu` is
`handle_pdu` with the whole of `handle_rx_buffer_update`; the steps of the latter are `Chain` (assemble
segments), `AfterDelivery`, `AfterNewHighest`, `StopsTimer`, `StartsTimer`. Comparisons are raw or
modular exactly where the code's are. A discarded SDU is emptied and keeps its place in the queue.
`rx_window` is a `std::map`: where the code takes its first element, the model takes the least number.

`PdcpBase`, `PdcpTx`, `PdcpRx` - the COUNT arithmetic and the two sides, one action per handler. A
handler's calls to RLC change the queue of RLC. Integrity and ciphering are abstracted to what they
bind a PDU to: the key and the COUNT used on both sides must agree. Integrity is always verified, as
for a bearer configured with integrity protection; the branch of `pdcp_entity_rx.cpp:222` for one
without is left out.
`PdcpLink` composes the sides over RLC as PDCP sees it: an SDU that finds the queue of RLC full is dropped
and nobody is told (`RlcDrop`); after that AM confirms in sequence and loses nothing (what `RlcAmLink`
shows for whole SDUs), UM may lose; delivery within RLC is out of order; notifications and status
reports travel on their own. Status reports are sent only if `status_report_required` is configured.

`TimerManager` - the front end of a timer takes two steps (count the command, push it), a tick takes
many (take the commands, process each, postponed time-outs, advance, each expiry), and the executor
of the owner runs the dispatched time-outs. The executor refuses a task when its queue is full.
`TimerContract` is what the users of a timer rely on: a callback only for a timer its owner sees
running, not before the configured number of ticks. The refinement mapping is the identity on the
front-end state, plus the history variable `elapsed`; `TimerManagerProofs` proves it.

`Harq` - HARQ entity of a UE in one direction, through the phases of a slot: queued feedback, slot
indication (which decides on the removal of the UE), one retransmission, one new transmission. The
PHY reports each slot's UCI or CRC late, twice, or not at all, with arbitrary content. A UE under removal
still gets new transmissions (`MayGrant`): `ue::deactivate` disables only the DL DRBs, since
`set_status` of the UL logical channels ignores its argument.

`DuUe` (extends `RlfDetector`) - each layer's table holds a UE at an index. A procedure is the list of
the executors it has still to visit; a step of an executor does that layer's work, and the coroutine
resumes through the FIFO of the control executor. Procedures of a UE queue in its sequencer. The
CU creates load: setups, release commands, an old UE to remove. `RlfDetector` has the steps of the
PHY thread: look up the UE, count, lock and notify. `failed` records a failed assertion, the read of an
erased F1AP UE or the use of an index past the end. The slot indication of the scheduler answers the
MAC and erases the UE in two steps, between which other threads run; it does so only while the UE is not
`busy` with HARQs, which module `Harq` details and `SchedHarqs` leaves open.

### What an action stands for

* The receiver runs in the UE executor, one task at a time. `get_status_pdu` is the exception: it
  runs in the cell executor under its own lock and only touches the report and its flags.
* `pull_pdu`, `handle_status_pdu` and the poll timer handler hold the mutex of the transmitter.
* A timer expiry and its handler are one action, enabled while the timer runs. In
  `lib/support/timers.cpp` the time-out is dispatched to the owner's executor, where the timer becomes
  expired and its handler runs in one task, and only if the timer was not stopped or restarted
  since. So a handler never runs for a timer that is not running: `KeepsContract` of run `timers`.
* Expiries are not tied to a clock: a running timer may expire at any step. `t_reassembly` and
  `t_poll_retx` are taken to be configured with a positive duration; `StatusProhibit` covers both
  settings of `t_status_prohibit`.
* `retx_count` is followed up to one above the threshold.
* In `RlcAmRx` a report is refreshed in the task that changes the window; segment logging, metrics
  and PDU packing are left out.

## 3. Runs

Passing runs:

| Run | Shows | Bounds |
|---|---|---|
| `rx` | the inductive invariant of the proofs (order of the state variables, losses watched, assertions), monotone edges; exact report, disjoint segments, no lost bytes. Merged NACKs mean exactly the missing bytes; a trimmed report acknowledges no missing byte | window 2 of 4 SNs, so the SN space wraps; SDUs of three bytes: first, middle, last segments and every overlap; no bound on the number of PDUs. NACK lists: all 4681 patterns over up to 4 SDUs of 3 bytes across the wrap-around, all sizes |
| `link` | for whole SDUs: the bearer implements the service; each SDU delivered once and intact; the transmission window has no holes; no assertion fails; a calm sender is never silent with SDUs unacknowledged | 5 SDUs for 4 SNs, two PDUs in flight, loss both ways, duplicates, one SDU that may be discarded, trimmed and whole STATUS PDUs; one grant size, which carries a whole SDU |
| `link_seg` | no failed check when grants cut SDUs; while the SDU under segmentation is in the window, its next segment starts inside it | 2 SDUs, grants of 2 and 3 bytes, polls by bytes, duplicates, STATUS PDUs that overtake each other |
| `buffer_state` | no lost wake-up between the executors | 3 SDUs, 2 tasks, all interleavings |
| `pdcp` | SDUs go up once and in order; none is lost on AM without status reports unless its discard timer expired or the queue of RLC was full; both sides agree on the COUNT; what is stored is watched by t-Reordering; no COUNT twice under a key | 8 SNs, 3 HFNs; start at COUNT 0, before a wrap of the SN, and at the maximum COUNT; AM with and without status reports and discardTimer, UM, SRB; t-Reordering finite, 0, infinite; a queue of 2 SDUs in RLC; 3 SDUs, one recovery or re-establishment |
| `timers` | the service implements `TimerContract`; a run is carried by exactly one queue at any time; no time-out late or lost; handles valid; every run ends | 2 timers, one pre-reserved and one created later, both reusable; durations 0 and 2, time modulo 3, one wheel bucket for all, queue of one task, 3 and 2 commands |
| `harq` | feedback changes only the transmission it is about; a block is given up only when acknowledged or out of retransmissions; waits end in their slot; a UE under removal goes unless it is granted new transmissions for ever or a retransmission never fits | 2 HARQs, 3 grants, one retransmission, 10 slots per period (the run crosses the wrap), reports up to 1 slot late and twice per slot; both kinds of residue in `nof_symbols` |
| `du_ue` | contexts nested through the layers; a queued radio link failure points to a UE that exists; assertions; exactly one scheduler response per waiting procedure; removal ends unless HARQs are in use for ever | 2 UEs, 2 indexes, one setup, one removal request per UE, one KO suffices for a failure, one report in total |
| `rlc_um` | no SDU mixed from two; window edges sound; stored SDUs watched | 7 SDUs for 4 SNs, discards, two segments each, PDUs overtake within 2 SDUs |

The two SDUs of `link_seg` do not make the SN space wrap. `NoAssert` was also checked once with segments
and 5 SDUs for 4 SNs, without duplicates and reordering (1523173 states), and holds there too.

Bounds that are assumptions. `MaxRetxQueue` bounds the queue at which t-PollRetransmit still expires:
every expiry may queue the same SDU again, and the code has no bound. `MaxOutstanding` (`pdcp`): the
upper layer keeps at most half of the SN space unconfirmed; PDCP does not enforce it, and past it no
receiver can infer the COUNT. `ReorderDepth`, `TimerSpan` (`rlc_um`): PDUs on their way and t-Reassembly
are short against the SN space, as the standard asks of the lower layers and of the configuration.
`ReportWindow` and `MaxStarved` (`harq`): the PHY reports, and the scheduler serves a retransmission that
fits, well within half a slot period, past which a `slot_point` is ambiguous. `MaxTriggers` (`du_ue`): see
below. The other `Max*` constants only limit the length of behaviours.

`IntactOnce`, `ConfirmedIsReceived`, `WindowContiguous`, `NoSilentStall` and `ServiceSpec` are about grants that
carry whole SDUs. So the runs do not reach `Corrupt`, nor the disjunct of `WindowContiguous` for an SDU under
segmentation. With grants that cut SDUs the code keeps none of the five, and TLC finds each violated
(`Grants = {2, 3}`): a mislabelled retransmission (`segment_info` below) makes a receiver complete an SDU
with the wrong bytes, and an SDU under segmentation that is acknowledged leaves its SN to be used again
(`link_stall` below), whereupon SNs below `tx_next_ack` are in the window and the SDU that has the old SN
is dropped by the receiver. `SegmentationInProgress` does not exclude that release: it speaks of an SDU
under segmentation that is in the window. `link_seg` therefore checks it and `NoAssert` only.

Deadlock checking is off in the `link*`, `pdcp`, `du_ue` and `rlc_um` runs: a bearer whose SDUs are settled
and a DU without UEs stop.

Each property of a passing run has a mutant: a plausible error in one mapped definition (a dropped
guard, an off-by-one, a missing reset) with which TLC finds it violated.

### Fairness

There is no liveness run for the RLC AM bearer. With segmented SDUs "every SDU is received in the end" is
false in the code, for the reason of `link_stall`; for whole SDUs `NoSilentStall` has the part of it that the
code could get wrong, that somebody will act, and needs no fairness.

`FairBsSpec`: both executors keep running; a deferred task is run and a bearer with known data is
served although other work of the cell executor competes (strong), since the executor serves its
queue in order and the scheduler serves every UE.

`FairSpec` of `TimerManager`: ticks go on, the executor runs its tasks, a front-end call that has
counted its command also pushes it (all weak). Of `Harq`: the slot loop goes on; nothing is assumed of
the PHY. Of `DuUe`: the workers take their next task and slots go on; nothing is assumed of the CU,
the UE or the PHY.

### Findings

Three runs are expected to fail.

* `segment_info`: `build_retx_pdu` labels a retransmission from the queued range alone, so a part of an SDU
  may go out as a full SDU or as last segment, while `include/srsran/rlc/rlc_config.h:129` documents the
  labels as the position in the SDU.
* `link_stall`: a STATUS PDU may report on the SDU under segmentation, with ACK_SN = TX_NEXT + 1
  (`lib/rlc/rlc_tx_am_entity.cpp:512`). If it NACKs the part that was not sent yet, this part goes out as a
  retransmission, and the next STATUS PDU acknowledges the SDU: it is released, and `tx_next_ack` passes
  `tx_next`. `pull_pdu` (lines 133-140) then forgets the SDU under segmentation without an increment of
  `tx_next`, and the next SDU is sent with the acknowledged SN. When t-PollRetransmit expires, the handler
  returns at lines 873-877, since `tx_next_ack` is not in the window: the SDU is neither sent again nor polled
  for, although the comment at line 865 asks to "consider any RLC SDU which has not been positively
  acknowledged for retransmission".
* `pdcp_status`: `lib/pdcp/pdcp_entity_rx.cpp:383` sets the bit of a *missing* SDU to 1; the comment above it and
  `pdcp_entity_tx::handle_status_report` take 1 for received (`pdcp_rx_status_report_test.cpp:153` has the
  polarity of the code). A status report makes the transmitter drop SDUs that the receiver is missing, and
  keep those it has. `ReportsLoseNothing` is `NothingLost` for a bearer with status reports.

Other places where code and comment part, or where a property needs an assumption. The models follow
the code; the properties above hold with them, or with the restriction that is named here.

RLC
* `lib/rlc/rlc_tx_am_entity.cpp:803`: discarded SDUs keep the queue non-empty, so the last PDU of a burst
  may carry no poll (comment at 796). A calm bearer of `link` therefore has no discards.
* A t-PollRetransmit that expires before the answer to the poll is back queues a retransmission to carry
  the next poll; the answer removes it from the queue, and no poll is sent for what the answer leaves
  unacknowledged. A calm bearer has a longer timer.
* `lib/rlc/rlc_am_pdu.cpp:99`: 256 missing SDUs in a row overflow the 8 bit `nack_range`.
* `lib/rlc/rlc_tx_am_entity.cpp:718` compares with a stale buffer state, so a large state after a drained
  large one is not reported; line 706 leaves the flag set when the task could not be queued.
  Constants `Large` and `DeferMayFail` of `RlcAmBufferState` switch these on; `MacWillKnow` then fails. So
  `MacWillKnow` says nothing of a stale `prev_buffer_state` beyond the capacity it is stated for.
* `build_new_pdu` passes the length of a buffer it has moved from to `get_polling_bit`, so whole SDUs do
  not count towards pollByte; t-Reassembly is stopped for a trigger at RX_Next + AM_Window_Size, against
  the rule quoted above that line, and `RxInv` shows it is started again whenever something is missing;
  `trim` may leave ACK_SN on an SDU that a remaining NACK range still covers; `remove_sn` takes out one of
  several queued retransmissions of an SN.
* UM: `rx_timer_trigger <= rx_next_reassembly` and `rx_next_highest == rx_next_reassembly + 1` are
  compared raw, and the first element of a `std::map` is taken for the earliest SN. Around the wrap
  `rx_next_reassembly` skips SDUs, whose remaining segments are then refused: `StoredIsConsidered` is
  stated for windows that do not contain the wrap. An expiry discards everything below
  `rx_next_highest`, SDUs that arrived after the timer was started included.

PDCP
* An SDU dropped on a full queue (`lib/rlc/rlc_tx_am_entity.cpp:71-74`) is not reported to PDCP, which
  keeps it until its discard timer expires or a later one is confirmed. `NothingLost` counts it as given up.
* RX_REORD is overwritten by every PDU (line 282), also while the timer runs; `StoredIsWatched` holds.
* Without a finite discardTimer no SDU is stored, so data recovery and re-establishment of an AM
  bearer retransmit nothing. The maximum-COUNT flags survive a re-establishment. Neither
  `reestablish` nor `data_recovery` is called within `lib/`.

Timers
* `include/srsran/support/timers.h:102` speaks of a backend lock for callback updates; there is none.
  The callback is only touched in the owner's executor or after the owner released the timer.

HARQ
* `ul_harq_process::save_alloc_params` never stores `nof_symbols`, and `scheduler_time_rr.cpp:261` wants
  the length of the PUSCH to *differ* from it, against the comment above. The two cancel unless the
  uninitialised field happens to equal the length; then the retransmission is never scheduled and
  the UE never goes. The run has both values, and `RemovalCompletes` excepts that case.
* `ue::deactivate` (`ue.cpp:69`: "Disable UL SRBs and DRBs.") disables nothing in the UL, because
  `ul_logical_channel_manager.h:38` ignores its argument, and a scheduling request is granted in any case
  (`ue.cpp:143`). A UE under removal that keeps asking is granted new transmissions and stays;
  `RemovalCompletes` excepts grants that go on for ever. `is_ue_ready_for_removal` does not look at pending
  SRB data, which the comment above it (`ue_repository.cpp:33`) names.
* The DAI is the UCI counter modulo 4, and the limit of two HARQ bits is only enforced in CSI slots:
  five bits in one UCI would alias. The run keeps `UciCapacity` at `DaiMod`.
* A grant that fails after the UCI was allocated leaves the counter advanced
  (`GrantFailsAfterUci`); `FeedbackReachesItsHarq` holds all the same.

DU
* Two removals of one UE (two release commands, or one with an old UE id) leave the second procedure
  with a destroyed F1AP UE, and with a MAC deletion that is never answered. The run has
  `MaxTriggers = 1`, as a CU that follows the protocol.
* A PHY thread in the RLF detector may count for a UE that is replaced at its index between `fetch_add`
  and the lock, so the new UE inherits a failure; and an ACK between two KOs allows a second
  notification, against "We use == instead of <= to ensure only one notification is sent"
  (`rlf_detector.h:76`). `RlfNotifierOutlivesTask` claims less: the UE whose notifier was called exists as
  long as the task is queued, whether or not the KOs were its own.
* When all indexes are in use, `handle_ue_create_request` takes `ue_ctrl_loop[MAX_NOF_DU_UES]`
  (`du_ue_manager.cpp:46-57`). `send_ue_context_release_complete` reads the index from the F1AP UE that the
  deletion has erased (`f1ap_du_ue_context_release_procedure.cpp:103`), nine lines below "Do not use ue
  context here as it may have been deleted." Both are reachable in the model; `DuAssertionsHold` excepts them
  by name (`Unguarded`) and covers the rest.
* A refused `defer` in `srs_sched_config_adapter` would leave its procedure waiting; executors of this
  path are taken to have room. `clear_ue` leaves the F1AP UE behind (a TODO of the code).

## 4. Proofs

### The RLC AM receiver

`RlcAmRxProofs` proves about `RxSpec`, for every window size of at least 2, every SDU length and an
arbitrary sender and channel:

* `RxTypeCorrect`, `RxWindowOrder`, `RxEdgesMissing`, `RxAssertionsHold`, `RxLossesWatched`,
  `RxTriggerReceived` - what `RxInv` of run `rx` consists of;
* `RxEdgesAdvance` - the action property `EdgesAdvance`;
* `RxInvariance` - the inductive invariant `RxInv` they all follow from.

Assumptions: `WindowAssumption`, `SduLenAssumption`, `StatusProhibitAssumption`.

None of the invariants is inductive alone. That t-Reassembly always has a received trigger needs the
SN below `rx_next_highest` to be in the window, because that is where the timer is armed. That an
expiry does not move `rx_highest_status` back needs every SDU between the trigger and
`rx_highest_status` to be complete while the timer runs. `RxInv` adds these two facts. The argument:

1. lemmas on SN arithmetic (`BaseCases` .. `BasePred`) remove the remainders: offsets above one
   edge are plain naturals below `Mod`, and `Rebase` moves them to another edge;
2. `LoopStops` states where the loop `FirstNotReceived` stops, from the least element of a non-empty
   set of naturals (`MinIsLeast`);
3. `StoreStepFacts` describes, in offsets above the old edge, the window after a PDU was stored;
   `StoreKeepsInv` derives each conjunct of `RxInv` from it;
4. `ExpiryKeepsInv` does the same for an expiry, `StutterKeepsInv` for the steps that touch no
   window state, `InitEstablishesInv` and `NextKeepsInv` combine them.

The proofs never look into `store_segment`, `HasGap` or `Report`: they hold whatever these compute.

### The RLC AM transmitter

`RlcAmLinkProofs`: `SegmentationStaysProper` - `LinkSpec => []SegmentationInProgress`, for all sizes of SDUs,
headers, grants and of the SN space. `SegInv` adds the shape of the transmission window. The argument
never reads a STATUS PDU: the property holds whatever the peer reports, also when a report releases the
SDU between two of its segments. The other invariants of the bearer do depend on what is reported.

### The timer service

`TimerManagerProofs` proves about `Spec` of `TimerManager`, for any set of timers, any durations, any
size of the wheel and of the executor's queue, and a clock that wraps:

* `TimerRefinement` - `Spec => KeepsContract`, the refinement that run `timers` checks;
* `TimerInvariance` - the inductive invariant `TimerInv` it needs.

Assumption: `TimerAssumption`; of it the argument needs that the clock has more values than the
longest duration and that owners configure durations up to that. The bound `MaxCmds` is a constant,
so the number of commands of a timer is arbitrary.

The refinement needs two facts when a deferred time-out finds its id current: the owner still sees
the timer running, and the ticks of its duration have begun. Both are properties of what happened in
the ticking thread long before, so `TimerInv` follows a command on its way:

1. ids of a timer increase from the back end over `cmds_to_process` and `pending_cmds` to the command
   in flight (`QueueInv`, `FlightInv`). So a command that is counted makes everything under way void
   (`CallKeepsInv`), and what is current is alone (`TimeoutKeepsInv`);
2. a start that is still the latest command belongs to a running timer of that duration, and a
   destroy is the last command of its owner (`CmdSound`), so that clearing the front end in the
   ticking thread disturbs nothing (`CommandKeepsInv`);
3. for an armed back end that is current, the ticks begun and the ticks ahead on the wrapping clock
   make up the duration, with one to spare while a tick has begun but the clock has not advanced
   (`BackInv`; `StartedAhead`, `AdvanceKeepsInv`, `ExpireKeepsInv`);
4. dispatched and postponed time-outs are distinct and belong to a back end that ran down
   (`DispatchInv`).

`StepKeepsContract` then maps each step to `COwner`, `CTick`, `CExpire` or a stutter.

`TimerRunProofs` goes on from `TimerInv` to the other half of the service, which the refinement does
not state: that something happens to a run, and in time. Its theorems are the three safety properties
of run `timers`:

* `RunsCarriedOnce` (`RunCarriedOnce`) - at most one carrier follows from `TimerInv`, since every carrier
  holds the timer's latest id; that there is one is `Carried` of `RunInv`, kept because every step that
  takes the run from one place puts it in the next;
* `TimeoutsOnTime` (`TimeoutOnTime`) - `NotLate` of `RunInv` bounds from above what `BackInv` bounds from
  below: the ticks a run has seen plus those ahead of its back end never exceed what it needs;
* `HandlesStayValid` (`HandlesValid`) - `HandleInv`: a timer with an executor has its handle in
  `timer_list` or its creation on the way, and in both queues the creation comes before every other
  command of the timer.

Further assumption: `NoneAssumption` (the value for "no command" is not a command).

### PDCP

`PdcpLinkProofs` proves about `LinkSpec`, for every even SN space and number of HFNs, all bearers and
t-Reordering settings, any number of SDUs, recoveries and re-establishments, all that run `pdcp` checks
except `NothingLost`, and with status reports and a full queue of RLC included:

* `DeliveredInOrderOnce` (`InOrderOnce`), `StoredSdusAreWatched` (`StoredIsWatched`), `CountsStayInStep`
  (`CountsInStep`), `NoCountReusedWithAKey` (the action property `CountsFreshPerKey`);
* `PdcpInvariance` - the inductive invariant `PdcpInv`.

Assumptions: `CountAssumption`, `TxAssumption`, `LinkAssumption`. The last one has the only assumption
about the environment: `MaxOutstanding` is at most half of the SN space.

In one life of the counters the number of an SDU is its COUNT plus a constant (`Offset`), in RLC, on
the air and in both maps. `InferExact` shows that the HFN inference returns the COUNT a PDU was sent
with if it is less than half of the SN space above RX_DELIV. So RX_DELIV, RX_NEXT and TX_NEXT stay
ordered, what is stored lies between the first two, and what is passed up is below what is still to
come. `deliver_all_consecutive_counts` and the loop of the expiry pass SDUs up in the order of a
`std::map`; that this order is a sequence without repetition is `AscendingFacts`, from the ranks of the
elements of a finite set.

### The buffer state notification

`RlcAmBufferStateProofs`: `NoLostWakeUp` - `BsSpec => []MacWillKnow` for every capacity of the RLC queue, if
the executor accepts deferred tasks (`DeferMayFail = FALSE`) and the queue holds no more than
`MAX_DL_PDU_LENGTH` (`Capacity <= Large`): the two cases of section 3 in which the property fails.
`BsInv` adds that the flag is set only while a task is queued or about to be, and that an SDU that
arrives after the cell executor has read the queue has a notification of its own.

### RLC UM

`RlcUmProofs`: `WindowStaysSound` - `Spec => []WindowSound` for every size of the SN space. `WindowSound` is
inductive with the ranges of the SNs (`UmInv`), and nothing is needed of the lower layer: the bounds
`ReorderDepth` and `TimerSpan` play no part, nor does what `Chain` computes. `DeliverySound` and
`NewHighestSound` show that the lower edge, wherever a branch of `handle_rx_buffer_update` puts it, lands
on a stored SN or on the upper edge. Assumptions: `UmAssumption` and `PowersAssumption`, which spells out
`2^n = 2 * 2^(n-1)` because the provers do not compute powers.

### The UE contexts of the DU

`DuUeProofs` proves about `Spec` of `DuUe`, for any sets of indexes and UEs, any number of setups and
reports and any threshold of KOs:

* `ContextsStayNested` (`ContextsNested`), `AssertionsHold` (`DuAssertionsHold`),
  `RlfNotifiersOutliveTheirTasks` (`RlfNotifierOutlivesTask`), `ResponsesAreAwaited` (`ResponseAwaited`) -
  all safety properties of run `du_ue`;
* `DuInvariance` - the inductive invariant `DuInv`.

They assume `DuUeAssumption` and, as a hypothesis of each theorem, `MaxTriggers <= 1`: the CU asks for one
removal of a UE. With two the properties fail (section 3, findings). `AssertionsHold` covers every failure that
the model can record but the two in `Unguarded`.

`DuInv` says for each index which contexts exist at each point of each procedure (`ProcInv`), what may
wait in the sequencer then (`TasksInv`: a removal is the last task of a UE), where the scheduler's answer
is (`ResponseInv`), that a procedure that worked on another executor has one resumption queued
(`ResumeInv`), and whose the notifier and the RLF tasks are (`NotifierInv`). The last is the subtle one:
an RLF task may still be queued when the MAC DL context is gone, but then it is queued before the
resumption of the removal, because both go through the FIFO of the control executor. An action
touches one index (`ControlStep`, `ExecutorStep`, `SchedulerStep`, `ReportStep`); `IndexFrame` carries the
other indexes over, since a queue changes by a task that is not theirs.

### Only model-checked

* Liveness: `RunEnds`, `RemovalEnds`, `RemovalCompletes`, `EventuallyServed`.
  Fairness and `ENABLED` are outside the prover.
* What folds and sorted sequences compute: `ReportExact`, `SegmentsDisjoint` and `BytesNeverLost` of the AM
  receiver, `SegmentsOfOneSdu` of UM, `NackListExact` and `TrimSound`, and the safety properties of `Harq`,
  where one indication applies a list of HARQ bits one after the other. They need induction over data.
* `StoredIsConsidered` of UM, which rests on the bounds on reordering; `NothingLost` of PDCP, which rests on
  a delivery notification being handled before half of the SN space has gone by, as in the run; for the AM
  bearer with whole SDUs, the properties of run `link` and the refinement of `RlcAmService`, which relate
  the SNs of both sides and of everything in flight.

## 5. Not modelled

* Packing and unpacking of PDU headers, SDUs of different lengths in RLC AM, metrics, bearer
  reconfiguration and deletion in RLC; in PDCP enabling of security and bearers without integrity protection.
* RLC: the time between the flag of t-StatusProhibit and its deferred start; the buffer state code of
  UM and TM, which has the shape of the AM one.
* Timers: the wrap of the 32 bit command id; destroying a timer inside its own callback; the
  move-assignment of a `unique_timer`.
* Scheduler: PRB, PDCCH and PUCCH allocation, link adaptation, RA, paging, SI: numerical, without
  protocol state. MAC PDUs and control elements; the RACH handler.
* DU: `du_ue_manager::stop`, duplicate RNTIs, cell procedures, exhausted executor queues. `add_ue` and
  `rem_ue` of the RLF detector are one step each: the steps of a PHY thread between the reset of the counters
  and the lock (`rlf_detector.h:46-49`, `56-59`) are left out. The cell executor, which runs the MAC DL part,
  is one thread per cell.
* Transaction manager and F1-U bearers (`PdcpLink` has their effect on PDCP only).
* CU-CP, CU-UP, RRC, NGAP, E1AP, E2; PHY, FAPI, fronthaul, radio (numerical or hardware); ASN.1
  (generated); gateways and applications (I/O). `PROJECT.json` gives the reason for each.

## 6. Plan

1. Proofs: for whole SDUs, `WindowContiguous` and the safety part of the refinement of `RlcAmService`.
2. F1-U bearers with their discard blocks, composed with `PdcpLink`; transactions.
3. UE procedures across CU-CP, E1AP, NGAP, RRC.
