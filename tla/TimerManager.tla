---------------------------- MODULE TimerManager -----------------------------
(***************************************************************************)
(* The timer service (lib/support/timers.cpp): unique_timer front-ends in  *)
(* the executors of their owners, and the timer_manager back-end in the    *)
(* thread that calls tick().  The two sides share a mutex-protected        *)
(* command list, a free list and one atomic command counter per timer;     *)
(* everything else of a front-end is touched by its owner, and of a        *)
(* back-end by the ticking thread.  A front-end operation is two steps     *)
(* (count the command, push it) and a tick is many, so that every          *)
(* interleaving that the locks and the atomic allow is present.            *)
(***************************************************************************)
EXTENDS Naturals, Sequences, FiniteSets

CONSTANTS Timers,      \* timer ids
          Prereserved, \* the ids created by the constructor
          MaxDuration, \* MAX_TIMER_DURATION
          TimeMod,     \* number of values of the unsigned cur_time
          WheelSize,   \* WHEEL_SIZE
          QueueSize,   \* room for timeouts in the queue of the executor
          Settable,    \* the durations the owners configure
          MaxCmds,     \* bound: commands of each timer
          None         \* no command in flight

ASSUME TimerAssumption ==
  /\ MaxDuration \in Nat \ {0}
  /\ TimeMod \in Nat /\ TimeMod > MaxDuration
  /\ WheelSize \in Nat \ {0} /\ QueueSize \in Nat
  /\ Settable \subseteq 0 .. MaxDuration /\ MaxCmds \in [Timers -> Nat]
  /\ Prereserved \subseteq Timers

ASSUME NoneAssumption ==
  None \notin [id : Timers, cmd_id : Nat, action : {"start", "stop", "destroy"}, duration : 0 .. MaxDuration + 1]

VARIABLES state,      \* timer_frontend::state
          duration,   \* timer_frontend::duration
          cmd_id,     \* timer_frontend::cmd_id, the atomic
          exec,       \* timer_frontend::exec is not null
          owned,      \* a unique_timer holds the front-end
          in_flight,  \* the command counted but not pushed yet, or None
          pending_cmds, cmds_to_process,
          timer_list, \* ids with a timer_handle that has its front-end
          free_list,
          backend,    \* timer_backend_context of each id
          cur_time,
          failed_to_trigger_timers,
          tick,       \* where the ticking thread is
          tasks,      \* deferred timeouts in the executor: sequence of <<id, expiry_epoch>>
          elapsed     \* history: ticks begun since the last start was pushed

front_vars == <<state, duration, cmd_id, exec, owned, in_flight>>
back_vars  == <<timer_list, backend, cur_time, failed_to_trigger_timers, tick>>
vars == <<front_vars, back_vars, pending_cmds, cmds_to_process, free_list, tasks, elapsed>>

INVALID_DURATION == MaxDuration + 1

\* The command being counted for t.
Cmd(t, a, d) == [id |-> t, cmd_id |-> cmd_id[t] + 1, action |-> a, duration |-> d]

Init ==
  /\ state = [t \in Timers |-> "stopped"]
  /\ duration = [t \in Timers |-> INVALID_DURATION]
  /\ cmd_id = [t \in Timers |-> 0]
  /\ exec = [t \in Timers |-> FALSE] /\ owned = [t \in Timers |-> FALSE]
  /\ in_flight = [t \in Timers |-> None]
  /\ pending_cmds = <<>> /\ cmds_to_process = <<>>
  /\ timer_list = Prereserved /\ free_list = Prereserved
  /\ backend = [t \in Timers |-> [cmd_id |-> 0, state |-> "stopped", timeout |-> 0]]
  /\ cur_time = 0
  /\ failed_to_trigger_timers = <<>>
  /\ tick = "idle"
  /\ tasks = <<>>
  /\ elapsed = [t \in Timers |-> 0]

-----------------------------------------------------------------------------
(* Front-end, in the executor of the owner.                                *)

\* Mutant of Reused: a front-end is handed out before its destroy command is processed.
ReusedEarly(t) == t \in timer_list

Reused(t) == t \in free_list

\* create_frontend_timer, from the free list or as a new id whose handle is
\* forwarded to the back-end.
Create(t) ==
  /\ ~owned[t]
  /\ exec' = [exec EXCEPT ![t] = TRUE]
  /\ owned' = [owned EXCEPT ![t] = TRUE]
  /\ \/ /\ Reused(t)
        /\ free_list' = free_list \ {t}
        /\ UNCHANGED pending_cmds
     \/ /\ free_list = {}
        /\ t \notin timer_list /\ ~exec[t]
        /\ pending_cmds' = Append(pending_cmds, [id |-> t, action |-> "create"])
        /\ UNCHANGED free_list
  /\ UNCHANGED <<state, duration, cmd_id, in_flight, back_vars, cmds_to_process, tasks, elapsed>>

\* cmd_id.fetch_add and the new state: from here on a timeout of an earlier
\* command is void.  The command is pushed in a later step.
Count(t) ==
  /\ owned[t] /\ in_flight[t] = None
  /\ cmd_id[t] < MaxCmds[t]
  /\ cmd_id' = [cmd_id EXCEPT ![t] = @ + 1]
  /\ elapsed' = [elapsed EXCEPT ![t] = 0]
  /\ UNCHANGED <<back_vars, pending_cmds, cmds_to_process, free_list, tasks, exec>>

\* timer_frontend::set: a running timer is restarted.
Set(t, d) ==
  /\ Count(t)
  /\ duration' = [duration EXCEPT ![t] = d]
  /\ in_flight' = [in_flight EXCEPT ![t] = IF state[t] = "running" THEN Cmd(t, "start", d) ELSE None]
  /\ UNCHANGED <<state, owned>>

\* timer_frontend::run; every owner sets the duration first.
Run(t) ==
  /\ duration[t] # INVALID_DURATION
  /\ Count(t)
  /\ state' = [state EXCEPT ![t] = "running"]
  /\ in_flight' = [in_flight EXCEPT ![t] = Cmd(t, "start", duration[t])]
  /\ UNCHANGED <<duration, owned>>

\* unique_timer::stop does nothing on a timer that is not running.
Stop(t) ==
  /\ state[t] = "running"
  /\ Count(t)
  /\ state' = [state EXCEPT ![t] = "stopped"]
  /\ in_flight' = [in_flight EXCEPT ![t] = Cmd(t, "stop", duration[t])]
  /\ UNCHANGED <<duration, owned>>

\* unique_timer::reset, also in the destructor.
Destroy(t) ==
  /\ Count(t)
  /\ state' = [state EXCEPT ![t] = "stopped"]
  /\ owned' = [owned EXCEPT ![t] = FALSE]
  /\ in_flight' = [in_flight EXCEPT ![t] = Cmd(t, "destroy", duration[t])]
  /\ UNCHANGED duration

\* push_timer_command, under cmd_mutex.
PushTimerCommand(t) ==
  /\ in_flight[t] # None
  /\ pending_cmds' = Append(pending_cmds, in_flight[t])
  /\ in_flight' = [in_flight EXCEPT ![t] = None]
  /\ elapsed' = [elapsed EXCEPT ![t] = 0]
  /\ UNCHANGED <<state, duration, cmd_id, exec, owned, back_vars, cmds_to_process, free_list, tasks>>

\* The deferred timeout: void unless no command was counted since the back-end
\* ran this timer down.
Current(t, epoch) == cmd_id[t] = epoch

RunTimeout ==
  /\ tasks # <<>>
  /\ LET t == Head(tasks)[1] IN
       /\ in_flight[t] = None
       /\ state' = IF Current(t, Head(tasks)[2]) THEN [state EXCEPT ![t] = "expired"] ELSE state
  /\ tasks' = Tail(tasks)
  /\ UNCHANGED <<duration, cmd_id, exec, owned, in_flight, back_vars, pending_cmds,
                 cmds_to_process, free_list, elapsed>>
-----------------------------------------------------------------------------
(* Back-end, in the thread that calls tick().                              *)

\* The tick takes the commands under cmd_mutex.
BeginTick ==
  /\ tick = "idle"
  /\ cmds_to_process' = pending_cmds /\ pending_cmds' = <<>>
  /\ tick' = "commands"
  /\ elapsed' = [t \in Timers |-> IF elapsed[t] < MaxDuration THEN elapsed[t] + 1 ELSE MaxDuration]
  /\ UNCHANGED <<front_vars, timer_list, backend, cur_time, failed_to_trigger_timers, free_list, tasks>>

\* Mutant of Started: the timeout is counted from the time this tick advances to.
StartedLate(d, id) == [cmd_id |-> id, state |-> "running", timeout |-> (cur_time + d + 1) % TimeMod]

\* start_timer_backend after the previous run, if any, is stopped.
Started(d, id) ==
  [cmd_id |-> id, state |-> "running", timeout |-> (cur_time + (IF d = 0 THEN 1 ELSE d)) % TimeMod]

\* One command of the list; destroy_timer_backend also clears the front-end,
\* which its owner has released, and returns it to the free list.
ProcessCommand ==
  /\ tick = "commands" /\ cmds_to_process # <<>>
  /\ cmds_to_process' = Tail(cmds_to_process)
  /\ LET cmd == Head(cmds_to_process) t == cmd.id IN
       \/ /\ cmd.action = "create"
          /\ timer_list' = timer_list \cup {t}
          /\ UNCHANGED <<backend, state, duration, exec, free_list, elapsed>>
       \/ /\ cmd.action = "start"
          /\ backend' = [backend EXCEPT ![t] = Started(cmd.duration, cmd.cmd_id)]
          /\ UNCHANGED <<timer_list, state, duration, exec, free_list, elapsed>>
       \/ /\ cmd.action = "stop"
          /\ backend' = [backend EXCEPT ![t].cmd_id = cmd.cmd_id,
                                        ![t].state = IF @ = "running" THEN "stopped" ELSE @]
          /\ UNCHANGED <<timer_list, state, duration, exec, free_list, elapsed>>
       \/ /\ cmd.action = "destroy"
          /\ backend' = [backend EXCEPT ![t] = [cmd_id |-> cmd.cmd_id, state |-> "stopped", timeout |-> 0]]
          /\ state' = [state EXCEPT ![t] = "stopped"]
          /\ duration' = [duration EXCEPT ![t] = INVALID_DURATION]
          /\ exec' = [exec EXCEPT ![t] = FALSE]
          /\ free_list' = free_list \cup {t}
          /\ elapsed' = [elapsed EXCEPT ![t] = 0]
          /\ UNCHANGED timer_list
  /\ UNCHANGED <<cmd_id, owned, in_flight, cur_time, failed_to_trigger_timers, tick, pending_cmds,
                 tasks>>

Matches(t, prev) == backend[t].cmd_id = prev /\ backend[t].cmd_id = cmd_id[t]
CanDefer == Len(tasks) < QueueSize

\* handle_postponed_timeouts, one element at a time.
HandlePostponed ==
  /\ tick = "commands" /\ cmds_to_process = <<>>
  /\ failed_to_trigger_timers # <<>>
  /\ LET f == Head(failed_to_trigger_timers) IN
       IF Matches(f[1], f[2])
         THEN CanDefer /\ tasks' = Append(tasks, f)
         ELSE UNCHANGED tasks
  /\ failed_to_trigger_timers' = Tail(failed_to_trigger_timers)
  /\ UNCHANGED <<front_vars, timer_list, backend, cur_time, tick, pending_cmds, cmds_to_process,
                 free_list, elapsed>>

\* The postponed timeouts are done, or the executor refused one again: advance
\* the time.
AdvanceTime ==
  /\ tick = "commands" /\ cmds_to_process = <<>>
  /\ \/ failed_to_trigger_timers = <<>>
     \/ /\ failed_to_trigger_timers # <<>> /\ ~CanDefer
        /\ LET f == Head(failed_to_trigger_timers) IN Matches(f[1], f[2])
  /\ cur_time' = (cur_time + 1) % TimeMod
  /\ tick' = "wheel"
  /\ UNCHANGED <<front_vars, timer_list, backend, failed_to_trigger_timers, pending_cmds,
                 cmds_to_process, free_list, tasks, elapsed>>

\* Mutant of TimesOut: every timer of the bucket times out.
TimesOutBucket(t) == backend[t].timeout % WheelSize = cur_time % WheelSize

\* The running timers of the wheel bucket of cur_time that time out now: the
\* other ones of the bucket are for a later turn of the wheel.
TimesOut(t) ==
  /\ backend[t].timeout % WheelSize = cur_time % WheelSize
  /\ cur_time = backend[t].timeout

\* Mutant of Postponed: a timeout that the executor refuses is dropped.
PostponedDropped(t) == failed_to_trigger_timers

Postponed(t) == Append(failed_to_trigger_timers, <<t, backend[t].cmd_id>>)

\* stop_timer_backend with expiry_reason: the timeout goes to the executor, or to
\* the postponed ones, unless the front-end is seen to have moved on.
ExpireBackend(t) ==
  /\ tick = "wheel"
  /\ backend[t].state = "running" /\ TimesOut(t)
  /\ backend' = [backend EXCEPT ![t].state = "expired"]
  /\ \/ /\ backend[t].cmd_id = cmd_id[t] /\ CanDefer
        /\ tasks' = Append(tasks, <<t, backend[t].cmd_id>>)
        /\ UNCHANGED failed_to_trigger_timers
     \/ /\ backend[t].cmd_id = cmd_id[t] /\ ~CanDefer
        /\ failed_to_trigger_timers' = Postponed(t)
        /\ UNCHANGED tasks
     \/ /\ backend[t].cmd_id # cmd_id[t]
        /\ UNCHANGED <<tasks, failed_to_trigger_timers>>
  /\ UNCHANGED <<front_vars, timer_list, cur_time, tick, pending_cmds, cmds_to_process, free_list,
                 elapsed>>

EndTick ==
  /\ tick = "wheel"
  /\ \A t \in Timers : backend[t].state = "running" => ~TimesOut(t)
  /\ tick' = "idle"
  /\ UNCHANGED <<front_vars, timer_list, backend, cur_time, failed_to_trigger_timers, pending_cmds,
                 cmds_to_process, free_list, tasks, elapsed>>

Owner(t) ==
  \/ Create(t) \/ Run(t) \/ Stop(t) \/ Destroy(t)
  \/ \E d \in Settable : Set(t, d)

Tick ==
  BeginTick \/ ProcessCommand \/ HandlePostponed \/ AdvanceTime \/ EndTick
  \/ \E t \in Timers : ExpireBackend(t)

Next == Tick \/ RunTimeout \/ \E t \in Timers : Owner(t) \/ PushTimerCommand(t)

Spec == Init /\ [][Next]_vars

\* tick() is called periodically, the executor runs what was deferred to it, and
\* a front-end call that counted its command goes on to push it.
Fairness ==
  /\ WF_vars(Tick) /\ WF_vars(RunTimeout)
  /\ \A t \in Timers : WF_vars(PushTimerCommand(t))

FairSpec == Spec /\ Fairness
-----------------------------------------------------------------------------
\* The implementation keeps the contract of unique_timer: a callback runs only
\* for a timer its owner sees running, after the configured number of ticks,
\* however commands, ticks and deferred timeouts interleave.
Contract == INSTANCE TimerContract
KeepsContract == Contract!CSpec

Occurrences(seq, t, id) == {i \in 1 .. Len(seq) : seq[i] = <<t, id>>}
Starts(seq, t) == {i \in 1 .. Len(seq) : seq[i].id = t /\ seq[i].action = "start" /\ seq[i].cmd_id = cmd_id[t]}

\* The carriers of the current run of t: its start command under way to the
\* back-end, the armed back-end, the postponed timeout, the deferred timeout.
Carriers(t) ==
  Cardinality(Starts(pending_cmds, t)) + Cardinality(Starts(cmds_to_process, t))
  + (IF backend[t].state = "running" /\ backend[t].cmd_id = cmd_id[t] THEN 1 ELSE 0)
  + Cardinality(Occurrences(failed_to_trigger_timers, t, cmd_id[t]))
  + Cardinality(Occurrences(tasks, t, cmd_id[t]))

\* Between two front-end calls, a timer its owner sees running is carried by one
\* and only one of the queues and the back-end, and any other timer by none: no
\* run is lost (a refused dispatch included) and none can fire twice, so that the
\* assertion "The timer can only expire if it was already running" holds.
RunCarriedOnce ==
  \A t \in Timers : in_flight[t] = None =>
    Carriers(t) = IF state[t] = "running" THEN 1 ELSE 0

\* When no tick is in progress, a running timer whose configured ticks have begun
\* since its start has its timeout at the executor or postponed: no turn of the
\* wheel and no wrap of cur_time makes it late.
TimeoutOnTime ==
  \A t \in Timers :
    (tick = "idle" /\ state[t] = "running" /\ in_flight[t] = None
     /\ elapsed[t] >= Contract!AtLeastOne(duration[t]))
    => Occurrences(failed_to_trigger_timers \o tasks, t, cmd_id[t]) # {}

\* The assertions of the back-end and of create_frontend_timer: a command finds
\* the handle of its timer, a handle is created once, a free front-end has no
\* executor and nothing under way, and a timeout is dispatched only to an executor.
HandlesValid ==
  /\ cmds_to_process # <<>> =>
       (Head(cmds_to_process).id \in timer_list <=> Head(cmds_to_process).action # "create")
  /\ \A t \in free_list : ~exec[t] /\ ~owned[t] /\ in_flight[t] = None /\ backend[t].state # "running"
  /\ \A t \in Timers : owned[t] => exec[t]
  /\ \A t \in Timers : (backend[t].cmd_id = cmd_id[t] /\ backend[t].state = "running") => exec[t]

\* Whatever the owner sees running stops, is restarted or expires, also when the
\* executor refuses the timeout at first.
RunEnds == \A t \in Timers : state[t] = "running" ~> state[t] # "running"
=============================================================================
