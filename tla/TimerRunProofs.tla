--------------------------- MODULE TimerRunProofs ---------------------------
(***************************************************************************)
(* No run of a timer is lost, doubled or late, and the back-end finds the  *)
(* handles it asserts, for any number of timers, any durations, and any    *)
(* size of the wheel and of the executor's queue.                          *)
(*                                                                         *)
(* That a run has one carrier at most follows from the ids of the commands *)
(* (TimerInv).  That it has one at all, and that its ticks are not more    *)
(* than it needs, is the invariant of this module; so is the order in      *)
(* which the handle of a timer and its commands arrive.                    *)
(***************************************************************************)
EXTENDS TimerManagerProofs, FiniteSetTheorems

(* Leaves are small, but many: the provers get more than the default seconds. *)
USE SMTT(10), ZenonT(10), SMTT(40), ZenonT(40)

-----------------------------------------------------------------------------
(* The inductive invariants *)

\* Where the current run of t may be.
IsStart(c, t) == c.id = t /\ c.action = "start" /\ c.cmd_id = cmd_id[t]
PendingStart(t) == \E i \in 1 .. Len(pending_cmds) : IsStart(pending_cmds[i], t)
TakenStart(t) == \E i \in 1 .. Len(cmds_to_process) : IsStart(cmds_to_process[i], t)
Armed(t) == backend[t].state = "running" /\ backend[t].cmd_id = cmd_id[t]
PostponedOut(t) == \E i \in 1 .. Len(failed_to_trigger_timers) : failed_to_trigger_timers[i] = <<t, cmd_id[t]>>
DeferredOut(t) == \E i \in 1 .. Len(tasks) : tasks[i] = <<t, cmd_id[t]>>

\* A running timer is carried, by the command in flight if there is one.
Carried(t) ==
  state[t] = "running" =>
    IF in_flight[t] # None THEN in_flight[t].action = "start"
    ELSE PendingStart(t) \/ TakenStart(t) \/ Armed(t) \/ PostponedOut(t) \/ DeferredOut(t)

\* A start that was pushed has seen no tick, one that was taken has seen one, and
\* an armed back-end has no more ticks behind and ahead of it than it needs.
NotLate(t) ==
  /\ PendingStart(t) => elapsed[t] = 0
  /\ TakenStart(t) => elapsed[t] <= 1
  /\ Armed(t) /\ tick = "commands" => elapsed[t] + Ahead(t) <= Needed(t) + 1
  /\ Armed(t) /\ tick # "commands" => elapsed[t] + Ahead(t) <= Needed(t)

RunInv == \A t \in Timers : Carried(t) /\ NotLate(t)

\* What a queued event says of its timer, and nothing of a timer comes before its creation.
HandleOf(e) == exec[e.id] /\ (e.action = "create" => e.id \notin timer_list)
Later(d, e) == e.action = "create" => d.id # e.id

PendingCreate(t) == \E i \in 1 .. Len(pending_cmds) : pending_cmds[i].id = t /\ pending_cmds[i].action = "create"
TakenCreate(t) == \E i \in 1 .. Len(cmds_to_process) : cmds_to_process[i].id = t /\ cmds_to_process[i].action = "create"

HandleInv ==
  /\ free_list \subseteq timer_list
  /\ \A t \in Timers : exec[t] => t \in timer_list \/ PendingCreate(t) \/ TakenCreate(t)
  /\ \A t \in Timers : in_flight[t] # None \/ backend[t].state = "running" => exec[t]
  /\ \A i \in 1 .. Len(pending_cmds) : HandleOf(pending_cmds[i])
  /\ \A i \in 1 .. Len(cmds_to_process) : HandleOf(cmds_to_process[i])
  /\ \A i, j \in 1 .. Len(pending_cmds) : i < j => Later(pending_cmds[i], pending_cmds[j])
  /\ \A i, j \in 1 .. Len(cmds_to_process) : i < j => Later(cmds_to_process[i], cmds_to_process[j])
  /\ \A i \in 1 .. Len(cmds_to_process), j \in 1 .. Len(pending_cmds) : Later(cmds_to_process[i], pending_cmds[j])


-----------------------------------------------------------------------------
(* Runs are carried *)

\* A step after which the current run of t is where it was.
SameRun(t) ==
  /\ state'[t] = state[t] /\ in_flight'[t] = in_flight[t] /\ cmd_id'[t] = cmd_id[t]
  /\ duration'[t] = duration[t] /\ backend'[t] = backend[t] /\ elapsed'[t] = elapsed[t]
  /\ cur_time' = cur_time /\ (tick' = "commands" <=> tick = "commands")
  /\ PendingStart(t)' <=> PendingStart(t)
  /\ TakenStart(t)' <=> TakenStart(t)
  /\ PostponedOut(t)' <=> PostponedOut(t)
  /\ DeferredOut(t)' <=> DeferredOut(t)

\* Such a step keeps what is said of t.
LEMMA RunFrame ==
    ASSUME NEW t \in Timers, Carried(t), NotLate(t), SameRun(t)
    PROVE  Carried(t)' /\ NotLate(t)'
  <1>1. (Armed(t)' <=> Armed(t)) /\ Ahead(t)' = Ahead(t) /\ Needed(t)' = Needed(t)
    BY DEF SameRun, Armed, Ahead, Needed
  <1>2. Carried(t)'
    BY <1>1, ZenonT(40) DEF SameRun, Carried
  <1>3. NotLate(t)'
    BY <1>1, ZenonT(40) DEF SameRun, NotLate
  <1>. QED  BY <1>2, <1>3

\* No queue knows a command that has not been counted.
LEMMA NoLaterCommand ==
    ASSUME TimerInv, NEW t \in Timers
    PROVE  /\ \A i \in 1 .. Len(pending_cmds) :
                pending_cmds[i].id = t /\ pending_cmds[i].action # "create" => pending_cmds[i].cmd_id <= cmd_id[t]
           /\ \A i \in 1 .. Len(cmds_to_process) :
                cmds_to_process[i].id = t /\ cmds_to_process[i].action # "create" => cmds_to_process[i].cmd_id <= cmd_id[t]
           /\ backend[t].cmd_id <= cmd_id[t]
  BY DEF TimerInv, QueueInv, Queued, CmdSound, BackInv

\* A call of the owner counts a command, so that what was under way is void.
LEMMA CountKeepsRuns ==
    ASSUME TimerInv, RunInv, NEW t \in Timers, Count(t),
           \A u \in Timers \ {t} : state'[u] = state[u] /\ duration'[u] = duration[u] /\ in_flight'[u] = in_flight[u],
           state'[t] = "running" => in_flight'[t] # None /\ in_flight'[t].action = "start"
    PROVE  RunInv'
  <1>. USE DEF Count, back_vars
  <1>1. cmd_id \in [Timers -> Nat] /\ elapsed \in [Timers -> 0 .. MaxDuration]
    BY DEF TimerInv, TimerTypeOK
  <1>2. cmd_id'[t] = cmd_id[t] + 1 /\ elapsed'[t] = 0 /\ cmd_id[t] \in Nat
    BY <1>1
  <1>3. ASSUME NEW u \in Timers, u # t
        PROVE  Carried(u)' /\ NotLate(u)'
    <2>1. cmd_id'[u] = cmd_id[u] /\ elapsed'[u] = elapsed[u]
      BY <1>1, <1>3
    <2>2. SameRun(u)
      BY <1>3, <2>1, ZenonT(40) DEF SameRun, PendingStart, TakenStart, IsStart, PostponedOut, DeferredOut
    <2>. QED  BY <2>2, RunFrame DEF RunInv
  <1>4. Carried(t)'
    BY ZenonT(40) DEF Carried
  <1>5. ~PendingStart(t)' /\ ~TakenStart(t)' /\ ~Armed(t)'
    <2>1. backend[t].cmd_id \in Nat
      BY CountersAreNat DEF TimerInv
    <2>2. ~Armed(t)'
      BY <1>2, <2>1, NoLaterCommand DEF Armed
    <2>3. ASSUME NEW c \in Commands, c.cmd_id <= cmd_id[t]
          PROVE  c.cmd_id # cmd_id'[t]
      BY <1>2, <2>3 DEF Commands
    <2>4. ~PendingStart(t)' /\ ~TakenStart(t)'
      <3>1. pending_cmds \in Seq(Events) /\ cmds_to_process \in Seq(Events)
        BY QueueTypes DEF TimerInv
      <3>. QED  BY <2>3, <3>1, NoLaterCommand, CommandOfQueue DEF PendingStart, TakenStart, IsStart
    <2>. QED  BY <2>2, <2>4
  <1>6. NotLate(t)'
    BY <1>2, <1>5 DEF NotLate
  <1>. QED  BY <1>3, <1>4, <1>6 DEF RunInv

\* A counted command is in flight.
LEMMA CommandInFlight ==
    ASSUME TimerTypeOK, NEW t \in Timers, NEW a \in {"start", "stop", "destroy"}, NEW d \in 0 .. INVALID_DURATION,
           in_flight' = [in_flight EXCEPT ![t] = Cmd(t, a, d)]
    PROVE  /\ in_flight'[t] # None /\ in_flight'[t].action = a
           /\ \A u \in Timers \ {t} : in_flight'[u] = in_flight[u]
  <1>1. in_flight \in [Timers -> Commands \cup {None}] /\ cmd_id[t] + 1 \in Nat
    BY DEF TimerTypeOK
  <1>2. Cmd(t, a, d) \in Commands
    BY <1>1 DEF Cmd, Commands
  <1>3. None \notin Commands
    BY NoneAssumption DEF Commands, INVALID_DURATION
  <1>4. Cmd(t, a, d) # None /\ Cmd(t, a, d).action = a
    BY <1>2, <1>3 DEF Cmd
  <1>. QED  BY <1>1, <1>4

\* What the owners of the timers do.
LEMMA OwnerKeepsRuns ==
    ASSUME TimerInv, RunInv, NEW t \in Timers, Owner(t)
    PROVE  RunInv'
  <1>1. /\ state \in [Timers -> {"stopped", "running", "expired"}] /\ duration \in [Timers -> 0 .. INVALID_DURATION]
        /\ in_flight \in [Timers -> Commands \cup {None}]
    BY DEF TimerInv, TimerTypeOK
  <1>2. CASE Create(t)
    <2>1. ASSUME NEW u \in Timers
          PROVE  PendingStart(u)' <=> PendingStart(u)
      <3>1. CASE pending_cmds' = pending_cmds
        BY <1>2, <3>1 DEF Create, PendingStart, IsStart
      <3>2. CASE pending_cmds' = Append(pending_cmds, [id |-> t, action |-> "create"])
        <4>. DEFINE e == [id |-> t, action |-> "create"]
        <4>1. pending_cmds \in Seq(Events) /\ e \in Events
          BY DEF TimerInv, TimerTypeOK, Events, Creations
        <4>2. /\ Len(pending_cmds') = Len(pending_cmds) + 1 /\ Len(pending_cmds) \in Nat
              /\ \A i \in 1 .. Len(pending_cmds) : pending_cmds'[i] = pending_cmds[i]
              /\ pending_cmds'[Len(pending_cmds) + 1] = e
          BY <3>2, <4>1, AppendElements
        <4>3. e.action # "start" /\ cmd_id' = cmd_id
          BY <1>2 DEF Create
        <4>. QED  BY <4>2, <4>3 DEF PendingStart, IsStart
      <3>. QED  BY <1>2, <3>1, <3>2 DEF Create
    <2>2. ASSUME NEW u \in Timers
          PROVE  SameRun(u)
      BY <1>2, <2>1, ZenonT(40) DEF Create, SameRun, back_vars, TakenStart, IsStart, PostponedOut, DeferredOut
    <2>. QED  BY <2>2, RunFrame DEF RunInv
  <1>3. duration[t] \in 0 .. INVALID_DURATION /\ TimerTypeOK
    BY <1>1 DEF TimerInv
  <1>4. CASE Run(t)
    <2>1. /\ in_flight'[t] # None /\ in_flight'[t].action = "start"
          /\ \A u \in Timers \ {t} : in_flight'[u] = in_flight[u]
      BY <1>3, <1>4, CommandInFlight DEF Run
    <2>. QED  BY <1>1, <1>4, <2>1, CountKeepsRuns DEF Run
  <1>5. CASE Stop(t)
    <2>1. \A u \in Timers \ {t} : in_flight'[u] = in_flight[u]
      BY <1>3, <1>5, CommandInFlight DEF Stop
    <2>2. state'[t] = "stopped"
      BY <1>1, <1>5 DEF Stop
    <2>. QED  BY <1>1, <1>5, <2>1, <2>2, CountKeepsRuns DEF Stop
  <1>6. CASE Destroy(t)
    <2>1. \A u \in Timers \ {t} : in_flight'[u] = in_flight[u]
      BY <1>3, <1>6, CommandInFlight DEF Destroy
    <2>2. state'[t] = "stopped"
      BY <1>1, <1>6 DEF Destroy
    <2>. QED  BY <1>1, <1>6, <2>1, <2>2, CountKeepsRuns DEF Destroy
  <1>7. ASSUME NEW d \in Settable, Set(t, d)
        PROVE  RunInv'
    <2>1. d \in 0 .. INVALID_DURATION
      BY TimerAssumption DEF INVALID_DURATION
    <2>2. \A u \in Timers \ {t} : in_flight'[u] = in_flight[u]
      BY <1>1, <1>7 DEF Set
    <2>3. state'[t] = "running" => in_flight'[t] # None /\ in_flight'[t].action = "start"
      <3>. SUFFICES ASSUME state'[t] = "running"
                    PROVE  in_flight'[t] # None /\ in_flight'[t].action = "start"
        OBVIOUS
      <3>1. in_flight' = [in_flight EXCEPT ![t] = Cmd(t, "start", d)]
        BY <1>7 DEF Set
      <3>. QED  BY <1>3, <2>1, <3>1, CommandInFlight
    <2>. QED  BY <1>1, <1>7, <2>2, <2>3, CountKeepsRuns DEF Set
  <1>. QED  BY <1>2, <1>4, <1>5, <1>6, <1>7 DEF Owner

\* The command of a call gets into the list.
LEMMA PushKeepsRuns ==
    ASSUME TimerInv, RunInv, NEW t \in Timers, PushTimerCommand(t)
    PROVE  RunInv'
  <1>. USE DEF PushTimerCommand, back_vars
  <1>1. /\ in_flight \in [Timers -> Commands \cup {None}] /\ elapsed \in [Timers -> 0 .. MaxDuration]
        /\ pending_cmds \in Seq(Events) /\ cmds_to_process \in Seq(Events)
    BY DEF TimerInv, TimerTypeOK
  <1>2. PICK c \in Commands : c = in_flight[t]
    BY <1>1
  <1>3. c.id = t /\ c.cmd_id = cmd_id[t] /\ backend[t].cmd_id < cmd_id[t]
    BY <1>2 DEF TimerInv, FlightInv
  <1>4. /\ Len(pending_cmds') = Len(pending_cmds) + 1 /\ Len(pending_cmds) \in Nat
        /\ \A i \in 1 .. Len(pending_cmds) : pending_cmds'[i] = pending_cmds[i]
        /\ pending_cmds'[Len(pending_cmds) + 1] = c
    BY <1>1, <1>2, AppendElements DEF Events
  <1>5. ASSUME NEW u \in Timers, u # t
        PROVE  Carried(u)' /\ NotLate(u)'
    <2>1. PendingStart(u)' <=> PendingStart(u)
      BY <1>3, <1>4, <1>5 DEF PendingStart, IsStart
    <2>2. in_flight'[u] = in_flight[u] /\ elapsed'[u] = elapsed[u]
      BY <1>1, <1>5
    <2>3. SameRun(u)
      BY <2>1, <2>2, ZenonT(40) DEF SameRun, TakenStart, IsStart, PostponedOut, DeferredOut
    <2>. QED  BY <2>3, RunFrame DEF RunInv
  <1>6. Carried(t)'
    <2>. SUFFICES ASSUME state[t] = "running"
                  PROVE  PendingStart(t)'
      BY <1>1 DEF Carried
    <2>1. c.action = "start"
      BY <1>2 DEF RunInv, Carried
    <2>. QED  BY <1>3, <1>4, <2>1 DEF PendingStart, IsStart
  <1>7. NotLate(t)'
    <2>1. elapsed'[t] = 0
      BY <1>1
    <2>2. ~Armed(t)'
      BY <1>3, CountersAreNat DEF Armed, TimerInv
    <2>. QED  BY <2>1, <2>2 DEF NotLate
  <1>. QED  BY <1>5, <1>6, <1>7 DEF RunInv

\* A timeout that runs ends the run it is of, and no other.
LEMMA TimeoutKeepsRuns ==
    ASSUME TimerInv, RunInv, RunTimeout
    PROVE  RunInv'
  <1>. USE DEF RunTimeout, back_vars
  <1>1. tasks \in Seq(Timeouts) /\ state \in [Timers -> {"stopped", "running", "expired"}]
    BY DEF TimerInv, TimerTypeOK
  <1>2. PICK f \in Timeouts : f = Head(tasks) /\ f = tasks[1]
    BY <1>1, TailElements
  <1>3. PICK t \in Timers : t = f[1] /\ f[2] \in Nat /\ f = <<t, f[2]>>
    BY <1>2 DEF Timeouts
  <1>4. /\ Len(tasks') = Len(tasks) - 1 /\ Len(tasks) \in Nat /\ Len(tasks) >= 1
        /\ \A i \in 1 .. Len(tasks') : tasks'[i] = tasks[i + 1] /\ i + 1 \in 1 .. Len(tasks)
    BY <1>1, TailElements
  <1>5. \A u \in Timers : f # <<u, cmd_id[u]>> => (DeferredOut(u)' <=> DeferredOut(u))
    <2>. SUFFICES ASSUME NEW u \in Timers, f # <<u, cmd_id[u]>>
                  PROVE  DeferredOut(u)' <=> DeferredOut(u)
      OBVIOUS
    <2>1. DeferredOut(u)' => DeferredOut(u)
      BY <1>4 DEF DeferredOut
    <2>2. ASSUME DeferredOut(u) PROVE DeferredOut(u)'
      <3>1. PICK i \in 1 .. Len(tasks) : tasks[i] = <<u, cmd_id[u]>>
        BY <2>2 DEF DeferredOut
      <3>2. i # 1
        BY <1>2, <3>1
      <3>3. i - 1 \in 1 .. Len(tasks') /\ tasks'[i - 1] = tasks[i]
        BY <1>4, <3>1, <3>2
      <3>. QED  BY <3>1, <3>3 DEF DeferredOut
    <2>. QED  BY <2>1, <2>2
  <1>6. ASSUME NEW u \in Timers, f # <<u, cmd_id[u]>>
        PROVE  Carried(u)' /\ NotLate(u)'
    <2>1. state'[u] = state[u]
      <3>1. CASE f[2] = cmd_id[t]
        BY <1>1, <1>2, <1>3, <1>6, <3>1 DEF Current
      <3>2. CASE f[2] # cmd_id[t]
        BY <1>2, <1>3, <3>2 DEF Current
      <3>. QED  BY <3>1, <3>2
    <2>2. SameRun(u)
      BY <1>5, <1>6, <2>1, ZenonT(40) DEF SameRun, PendingStart, TakenStart, IsStart, PostponedOut
    <2>. QED  BY <2>2, RunFrame DEF RunInv
  <1>7. ASSUME NEW u \in Timers, f = <<u, cmd_id[u]>>
        PROVE  Carried(u)' /\ NotLate(u)'
    <2>1. u = t /\ f[2] = cmd_id[t]
      BY <1>3, <1>7
    <2>2. state'[u] = "expired"
      BY <1>1, <1>2, <1>3, <2>1 DEF Current
    <2>3. Carried(u)'
      BY <2>2 DEF Carried
    <2>4. NotLate(u)'
      <3>1. NotLate(u)
        BY DEF RunInv
      <3>. QED  BY <3>1, ZenonT(40) DEF NotLate, PendingStart, TakenStart, IsStart, Armed, Ahead, Needed
    <2>. QED  BY <2>3, <2>4
  <1>. QED  BY <1>6, <1>7 DEF RunInv

\* A tick begins and takes the commands.
LEMMA BeginTickKeepsRuns ==
    ASSUME TimerInv, RunInv, BeginTick
    PROVE  RunInv'
  <1>. USE DEF BeginTick, front_vars
  <1>. SUFFICES ASSUME NEW t \in Timers
                PROVE  Carried(t)' /\ NotLate(t)'
    BY DEF RunInv
  <1>1. cmds_to_process = <<>>
    BY DEF TimerInv, QueueInv
  <1>2. ~TakenStart(t) /\ (TakenStart(t)' <=> PendingStart(t)) /\ ~PendingStart(t)'
    BY <1>1 DEF TakenStart, PendingStart, IsStart
  <1>3. (Armed(t)' <=> Armed(t)) /\ (PostponedOut(t)' <=> PostponedOut(t)) /\ (DeferredOut(t)' <=> DeferredOut(t))
        /\ Ahead(t)' = Ahead(t) /\ Needed(t)' = Needed(t)
    BY DEF Armed, PostponedOut, DeferredOut, Ahead, Needed
  <1>4. Carried(t) /\ NotLate(t)
    BY DEF RunInv
  <1>5. Carried(t)'
    BY <1>2, <1>3, <1>4, ZenonT(40) DEF Carried
  <1>6. elapsed[t] \in Nat /\ Ahead(t) \in Int /\ Needed(t) \in Nat /\ elapsed'[t] <= elapsed[t] + 1 /\ elapsed'[t] \in Nat
    <2>1. elapsed[t] \in 0 .. MaxDuration /\ elapsed'[t] = IF elapsed[t] < MaxDuration THEN elapsed[t] + 1 ELSE MaxDuration
      BY DEF TimerInv, TimerTypeOK
    <2>. QED  BY <2>1, AheadType, TimerAssumption DEF TimerInv
  <1>7. NotLate(t)'
    <2>1. TakenStart(t)' => elapsed'[t] <= 1
      BY <1>2, <1>4, <1>6 DEF NotLate
    <2>2. Armed(t)' => elapsed'[t] + Ahead(t)' <= Needed(t)' + 1
      BY <1>3, <1>4, <1>6 DEF NotLate
    <2>. QED  BY <1>2, <2>1, <2>2 DEF NotLate
  <1>. QED  BY <1>5, <1>7

\* The time advances, and every timeout is one tick less ahead.
LEMMA AdvanceKeepsRuns ==
    ASSUME TimerInv, RunInv, AdvanceTime
    PROVE  RunInv'
  <1>. USE DEF AdvanceTime, front_vars
  <1>. SUFFICES ASSUME NEW t \in Timers
                PROVE  Carried(t)' /\ NotLate(t)'
    BY DEF RunInv
  <1>1. /\ (Armed(t)' <=> Armed(t)) /\ (PostponedOut(t)' <=> PostponedOut(t)) /\ (DeferredOut(t)' <=> DeferredOut(t))
        /\ (TakenStart(t)' <=> TakenStart(t)) /\ (PendingStart(t)' <=> PendingStart(t)) /\ Needed(t)' = Needed(t)
    BY DEF Armed, PostponedOut, DeferredOut, Needed, TakenStart, PendingStart, IsStart
  <1>2. Carried(t) /\ NotLate(t)
    BY DEF RunInv
  <1>3. Carried(t)'
    BY <1>1, <1>2, ZenonT(40) DEF Carried
  <1>4. Armed(t) => Ahead(t)' = Ahead(t) - 1
    <2>1. ASSUME Armed(t) PROVE Ahead(t) >= 1
      BY <2>1 DEF TimerInv, BackInv, Armed
    <2>2. cur_time \in 0 .. TimeMod - 1 /\ backend[t].timeout \in 0 .. TimeMod - 1
      BY DEF TimerInv, TimerTypeOK
    <2>3. cur_time' = IF cur_time + 1 < TimeMod THEN cur_time + 1 ELSE 0
      BY <2>2, WrapOnce, TimerAssumption
    <2>4. PICK w \in 0 .. TimeMod - 1, a \in 0 .. TimeMod - 1 :
            w = backend[t].timeout /\ w = backend'[t].timeout /\ a = cur_time
      BY <2>2
    <2>5. PICK b \in 0 .. TimeMod - 1 : b = cur_time' /\ b = IF a + 1 < TimeMod THEN a + 1 ELSE 0
      BY <2>3, <2>4, TimerAssumption
    <2>6. /\ Ahead(t) = IF w >= a THEN w - a ELSE w + TimeMod - a
          /\ Ahead(t)' = IF w >= b THEN w - b ELSE w + TimeMod - b
      BY <2>4, <2>5 DEF Ahead
    <2>. QED  BY <2>1, <2>5, <2>6, TimerAssumption
  <1>5. elapsed[t] \in Nat /\ Ahead(t) \in Int /\ Needed(t) \in Nat
    BY AheadType DEF TimerInv, TimerTypeOK
  <1>6. NotLate(t)'
    BY <1>1, <1>2, <1>4, <1>5 DEF NotLate
  <1>. QED  BY <1>3, <1>6

\* The end of a tick changes nothing for a timer.
LEMMA EndTickKeepsRuns ==
    ASSUME TimerInv, RunInv, EndTick
    PROVE  RunInv'
  <1>1. ASSUME NEW t \in Timers
        PROVE  SameRun(t)
    BY ZenonT(40) DEF EndTick, front_vars, SameRun, PendingStart, TakenStart, IsStart, PostponedOut, DeferredOut
  <1>. QED  BY <1>1, RunFrame DEF RunInv

\* An element of a queue after one is added is the new one or an old one.
LEMMA AppendCases ==
    ASSUME NEW S, NEW q \in Seq(S), NEW e \in S
    PROVE  /\ \A i \in 1 .. Len(q) : i \in 1 .. Len(Append(q, e)) /\ Append(q, e)[i] = q[i]
           /\ \A i \in 1 .. Len(Append(q, e)) : Append(q, e)[i] = e \/ (i \in 1 .. Len(q) /\ Append(q, e)[i] = q[i])
  BY AppendElements

\* A postponed timeout moves to the executor; one that is dropped is not of the
\* current run.
LEMMA PostponedKeepsRuns ==
    ASSUME TimerInv, RunInv, HandlePostponed
    PROVE  RunInv'
  <1>. USE DEF HandlePostponed, front_vars
  <1>. SUFFICES ASSUME NEW u \in Timers
                PROVE  Carried(u)' /\ NotLate(u)'
    BY DEF RunInv
  <1>. DEFINE failed == failed_to_trigger_timers
  <1>1. failed \in Seq(Timeouts) /\ tasks \in Seq(Timeouts)
    BY QueueTypes DEF TimerInv
  <1>2. PICK f \in Timeouts : f = Head(failed) /\ f = failed[1] /\ Dispatched(f)
    BY <1>1, TailElements DEF TimerInv, DispatchInv
  <1>3. PICK t \in Timers : t = f[1] /\ f[2] \in Nat /\ f = <<t, f[2]>>
    BY <1>2 DEF Timeouts
  <1>4. /\ Len(failed') = Len(failed) - 1 /\ Len(failed) \in Nat /\ Len(failed) >= 1
        /\ \A i \in 1 .. Len(failed') : failed'[i] = failed[i + 1] /\ i + 1 \in 1 .. Len(failed)
    BY <1>1, TailElements
  <1>5. f # <<u, cmd_id[u]>> => (PostponedOut(u)' <=> PostponedOut(u))
    <2>. SUFFICES ASSUME f # <<u, cmd_id[u]>>
                  PROVE  PostponedOut(u)' <=> PostponedOut(u)
      OBVIOUS
    <2>1. PostponedOut(u)' => PostponedOut(u)
      BY <1>4 DEF PostponedOut
    <2>2. ASSUME PostponedOut(u) PROVE PostponedOut(u)'
      <3>1. PICK i \in 1 .. Len(failed) : failed[i] = <<u, cmd_id[u]>>
        BY <2>2 DEF PostponedOut
      <3>2. i # 1
        BY <1>2, <3>1
      <3>3. i - 1 \in 1 .. Len(failed') /\ failed'[i - 1] = failed[i]
        BY <1>4, <3>1, <3>2
      <3>. QED  BY <3>1, <3>3 DEF PostponedOut
    <2>. QED  BY <2>1, <2>2
  <1>6. f # <<u, cmd_id[u]>> => (DeferredOut(u)' <=> DeferredOut(u))
    <2>1. CASE tasks' = tasks
      BY <2>1 DEF DeferredOut
    <2>2. CASE tasks' = Append(tasks, f)
      <3>. SUFFICES ASSUME f # <<u, cmd_id[u]>>
                    PROVE  DeferredOut(u)' <=> DeferredOut(u)
        OBVIOUS
      <3>1. PICK x : x = <<u, cmd_id[u]>>
        OBVIOUS
      <3>2. (\E i \in 1 .. Len(tasks') : tasks'[i] = x) <=> (\E i \in 1 .. Len(tasks) : tasks[i] = x)
        <4>1. /\ \A i \in 1 .. Len(tasks) : i \in 1 .. Len(tasks') /\ tasks'[i] = tasks[i]
              /\ \A i \in 1 .. Len(tasks') : tasks'[i] = f \/ (i \in 1 .. Len(tasks) /\ tasks'[i] = tasks[i])
          BY <1>1, <2>2, AppendCases
        <4>. QED  BY <3>1, <4>1, ZenonT(40)
      <3>. QED  BY <2>2, <3>1, <3>2 DEF DeferredOut
    <2>. QED  BY <1>2, <2>1, <2>2
  <1>7. f = <<u, cmd_id[u]>> => DeferredOut(u)'
    <2>. SUFFICES ASSUME f = <<u, cmd_id[u]>>
                  PROVE  DeferredOut(u)'
      OBVIOUS
    <2>1. u = t /\ f[2] = cmd_id[t]
      BY <1>3
    <2>2. backend[t].cmd_id = cmd_id[t]
      <3>1. f[2] <= backend[t].cmd_id
        BY <1>2, <1>3 DEF Dispatched
      <3>2. backend[t].cmd_id <= cmd_id[t]
        BY DEF TimerInv, BackInv
      <3>. QED  BY <2>1, <3>1, <3>2, CountersAreNat DEF TimerInv
    <2>3. tasks' = Append(tasks, f)
      BY <1>2, <1>3, <2>1, <2>2 DEF Matches
    <2>4. Len(tasks') = Len(tasks) + 1 /\ Len(tasks) \in Nat /\ tasks'[Len(tasks) + 1] = f
      BY <1>1, <2>3, AppendElements
    <2>. QED  BY <2>4 DEF DeferredOut
  <1>8. Carried(u) /\ NotLate(u)
    BY DEF RunInv
  <1>9. CASE f # <<u, cmd_id[u]>>
    <2>1. SameRun(u)
      BY <1>5, <1>6, <1>9, ZenonT(40) DEF SameRun, PendingStart, TakenStart, IsStart
    <2>. QED  BY <1>8, <2>1, RunFrame
  <1>10. CASE f = <<u, cmd_id[u]>>
    <2>1. /\ (Armed(u)' <=> Armed(u)) /\ Ahead(u)' = Ahead(u) /\ Needed(u)' = Needed(u)
          /\ (TakenStart(u)' <=> TakenStart(u)) /\ (PendingStart(u)' <=> PendingStart(u))
      BY DEF Armed, Needed, Ahead, TakenStart, PendingStart, IsStart
    <2>2. Carried(u)'
      BY <1>7, <1>8, <1>10, ZenonT(40) DEF Carried
    <2>3. NotLate(u)'
      BY <1>8, <2>1, ZenonT(40) DEF NotLate
    <2>. QED  BY <2>2, <2>3
  <1>. QED  BY <1>9, <1>10

\* A back-end that times out hands its run on, if it is the current one.
LEMMA ExpireKeepsRuns ==
    ASSUME TimerInv, RunInv, NEW t \in Timers, ExpireBackend(t)
    PROVE  RunInv'
  <1>. USE DEF ExpireBackend, front_vars
  <1>. DEFINE failed == failed_to_trigger_timers
              e == <<t, backend[t].cmd_id>>
  <1>1. failed \in Seq(Timeouts) /\ tasks \in Seq(Timeouts)
    BY QueueTypes DEF TimerInv
  <1>2. e \in Timeouts
    BY CountersAreNat DEF Timeouts, TimerInv
  <1>3. /\ backend \in [Timers -> [cmd_id : Nat, state : {"stopped", "running", "expired"}, timeout : 0 .. TimeMod - 1]]
        /\ backend'[t].state = "expired" /\ \A u \in Timers \ {t} : backend'[u] = backend[u]
    BY DEF TimerInv, TimerTypeOK
  <1>4. ASSUME NEW u \in Timers, u # t
        PROVE  (PostponedOut(u)' <=> PostponedOut(u)) /\ (DeferredOut(u)' <=> DeferredOut(u))
    <2>1. e # <<u, cmd_id[u]>>
      BY <1>4
    <2>2. PostponedOut(u)' <=> PostponedOut(u)
      <3>1. CASE failed' = failed
        BY <3>1 DEF PostponedOut
      <3>2. CASE failed' = Append(failed, e)
        <4>1. PICK x, y : x = <<u, cmd_id[u]>> /\ y = e
          OBVIOUS
        <4>2. y \in Timeouts /\ y # x /\ failed' = Append(failed, y)
          BY <1>2, <2>1, <3>2, <4>1
        <4>3. (\E i \in 1 .. Len(failed') : failed'[i] = x) <=> (\E i \in 1 .. Len(failed) : failed[i] = x)
          <5>1. /\ \A i \in 1 .. Len(failed) : i \in 1 .. Len(failed') /\ failed'[i] = failed[i]
                /\ \A i \in 1 .. Len(failed') : failed'[i] = y \/ (i \in 1 .. Len(failed) /\ failed'[i] = failed[i])
            BY <1>1, <4>2, AppendCases
          <5>. QED  BY <4>2, <5>1, ZenonT(40)
        <4>. QED  BY <3>2, <4>1, <4>3 DEF PostponedOut
      <3>. QED  BY <3>1, <3>2 DEF Postponed
    <2>3. DeferredOut(u)' <=> DeferredOut(u)
      <3>1. CASE tasks' = tasks
        BY <3>1 DEF DeferredOut
      <3>2. CASE tasks' = Append(tasks, e)
        <4>1. PICK x, y : x = <<u, cmd_id[u]>> /\ y = e
          OBVIOUS
        <4>2. y \in Timeouts /\ y # x /\ tasks' = Append(tasks, y)
          BY <1>2, <2>1, <3>2, <4>1
        <4>3. (\E i \in 1 .. Len(tasks') : tasks'[i] = x) <=> (\E i \in 1 .. Len(tasks) : tasks[i] = x)
          <5>1. /\ \A i \in 1 .. Len(tasks) : i \in 1 .. Len(tasks') /\ tasks'[i] = tasks[i]
                /\ \A i \in 1 .. Len(tasks') : tasks'[i] = y \/ (i \in 1 .. Len(tasks) /\ tasks'[i] = tasks[i])
            BY <1>1, <4>2, AppendCases
          <5>. QED  BY <4>2, <5>1, ZenonT(40)
        <4>. QED  BY <3>2, <4>1, <4>3 DEF DeferredOut
      <3>. QED  BY <3>1, <3>2
    <2>. QED  BY <2>2, <2>3
  <1>5. ASSUME NEW u \in Timers, u # t
        PROVE  Carried(u)' /\ NotLate(u)'
    <2>1. backend'[u] = backend[u]
      BY <1>3, <1>5
    <2>2. SameRun(u)
      BY <1>4, <1>5, <2>1, ZenonT(40) DEF SameRun, PendingStart, TakenStart, IsStart
    <2>. QED  BY <2>2, RunFrame DEF RunInv
  <1>6. ~Armed(t)' /\ (TakenStart(t)' <=> TakenStart(t)) /\ (PendingStart(t)' <=> PendingStart(t))
    BY <1>3 DEF Armed, TakenStart, PendingStart, IsStart
  <1>7. Carried(t) /\ NotLate(t)
    BY DEF RunInv
  <1>8. NotLate(t)'
    BY <1>6, <1>7, ZenonT(40) DEF NotLate
  <1>9. Armed(t) => PostponedOut(t)' \/ DeferredOut(t)'
    <2>. SUFFICES ASSUME Armed(t)
                  PROVE  PostponedOut(t)' \/ DeferredOut(t)'
      OBVIOUS
    <2>1. e = <<t, cmd_id'[t]>> /\ backend[t].cmd_id = cmd_id[t]
      BY DEF Armed
    <2>2. CASE tasks' = Append(tasks, e)
      <3>1. Len(tasks') = Len(tasks) + 1 /\ Len(tasks) \in Nat /\ tasks'[Len(tasks) + 1] = e
        BY <1>1, <1>2, <2>2, AppendElements
      <3>. QED  BY <2>1, <3>1 DEF DeferredOut
    <2>3. CASE failed' = Append(failed, e)
      <3>1. Len(failed') = Len(failed) + 1 /\ Len(failed) \in Nat /\ failed'[Len(failed) + 1] = e
        BY <1>1, <1>2, <2>3, AppendElements
      <3>. QED  BY <2>1, <3>1 DEF PostponedOut
    <2>. QED  BY <2>1, <2>2, <2>3 DEF Postponed
  <1>10. (PostponedOut(t) => PostponedOut(t)') /\ (DeferredOut(t) => DeferredOut(t)')
    <2>1. \A i \in 1 .. Len(failed) : i \in 1 .. Len(failed') /\ failed'[i] = failed[i]
      <3>1. CASE failed' = failed
        BY <3>1
      <3>2. CASE failed' = Append(failed, e)
        BY <1>1, <1>2, <3>2, AppendElements
      <3>. QED  BY <3>1, <3>2 DEF Postponed
    <2>2. \A i \in 1 .. Len(tasks) : i \in 1 .. Len(tasks') /\ tasks'[i] = tasks[i]
      <3>1. CASE tasks' = tasks
        BY <3>1
      <3>2. CASE tasks' = Append(tasks, e)
        BY <1>1, <1>2, <3>2, AppendElements
      <3>. QED  BY <3>1, <3>2
    <2>. QED  BY <2>1, <2>2, ZenonT(40) DEF PostponedOut, DeferredOut
  <1>11. Carried(t)'
    BY <1>6, <1>7, <1>9, <1>10, ZenonT(40) DEF Carried
  <1>. QED  BY <1>5, <1>8, <1>11 DEF RunInv

\* The back-end takes a command: a start that is current arms it, any other one
\* finds it without the current run.
LEMMA CommandKeepsRuns ==
    ASSUME TimerInv, RunInv, ProcessCommand
    PROVE  RunInv'
  <1>. DEFINE q == cmds_to_process
  <1>1. /\ q \in Seq(Events) /\ q # <<>> /\ tick = "commands"
        /\ state \in [Timers -> {"stopped", "running", "expired"}] /\ duration \in [Timers -> 0 .. INVALID_DURATION]
        /\ backend \in [Timers -> [cmd_id : Nat, state : {"stopped", "running", "expired"}, timeout : 0 .. TimeMod - 1]]
        /\ elapsed \in [Timers -> 0 .. MaxDuration]
    BY DEF TimerInv, TimerTypeOK, ProcessCommand
  <1>2. PICK c \in Events : c = Head(q) /\ c = q[1]
    BY <1>1, TailElements
  <1>3. PICK t \in Timers : t = c.id
    BY <1>2 DEF Events, Commands, Creations
  <1>4. /\ Len(q') = Len(q) - 1 /\ Len(q) \in Nat /\ Len(q) >= 1
        /\ \A i \in 1 .. Len(q') : q'[i] = q[i + 1] /\ i + 1 \in 1 .. Len(q)
    BY <1>1, TailElements DEF ProcessCommand
  <1>5. UNCHANGED <<cmd_id, in_flight, cur_time, failed_to_trigger_timers, tick, pending_cmds, tasks>>
    BY DEF ProcessCommand
  <1>6. ASSUME NEW u \in Timers
        PROVE  (TakenStart(u)' => TakenStart(u)) /\ (~IsStart(c, u) => (TakenStart(u) => TakenStart(u)'))
    <2>1. TakenStart(u)' => TakenStart(u)
      BY <1>4, <1>5 DEF TakenStart, IsStart
    <2>2. ASSUME ~IsStart(c, u), TakenStart(u)
          PROVE  TakenStart(u)'
      <3>1. PICK i \in 1 .. Len(q) : IsStart(q[i], u)
        BY <2>2 DEF TakenStart
      <3>2. i # 1
        BY <1>2, <2>2, <3>1
      <3>3. i - 1 \in 1 .. Len(q') /\ q'[i - 1] = q[i]
        BY <1>4, <3>1, <3>2
      <3>. QED  BY <1>5, <3>1, <3>3 DEF TakenStart, IsStart
    <2>. QED  BY <2>1, <2>2
  <1>7. ASSUME NEW u \in Timers
        PROVE  (PendingStart(u)' <=> PendingStart(u)) /\ (PostponedOut(u)' <=> PostponedOut(u))
               /\ (DeferredOut(u)' <=> DeferredOut(u))
    BY <1>5 DEF PendingStart, IsStart, PostponedOut, DeferredOut
  <1>8. ASSUME NEW u \in Timers, u # t
        PROVE  Carried(u)' /\ NotLate(u)'
    <2>1. state'[u] = state[u] /\ duration'[u] = duration[u] /\ backend'[u] = backend[u] /\ elapsed'[u] = elapsed[u]
      BY <1>1, <1>2, <1>3, <1>8 DEF ProcessCommand
    <2>2. ~IsStart(c, u)
      BY <1>3, <1>8 DEF IsStart
    <2>3. SameRun(u)
      BY <1>5, <1>6, <1>7, <2>1, <2>2, ZenonT(40) DEF SameRun
    <2>. QED  BY <2>3, RunFrame DEF RunInv
  <1>9. Carried(t) /\ NotLate(t)
    BY DEF RunInv
  <1>10. CASE c.action = "create"
    <2>1. UNCHANGED <<state, duration, backend, elapsed>>
      BY <1>2, <1>10 DEF ProcessCommand
    <2>2. ~IsStart(c, t)
      BY <1>10 DEF IsStart
    <2>3. SameRun(t)
      BY <1>5, <1>6, <1>7, <2>1, <2>2, ZenonT(40) DEF SameRun
    <2>. QED  BY <1>8, <1>9, <2>3, RunFrame DEF RunInv
  <1>11. CASE c.action # "create"
    <2>1. c \in Commands
      BY <1>2, <1>11 DEF Events, Creations
    <2>2. Queued(c)
      BY <1>2, <1>4, <1>11 DEF TimerInv, QueueInv
    <2>3. backend[t].cmd_id < c.cmd_id /\ c.cmd_id <= cmd_id[t] /\ c.cmd_id \in Nat /\ cmd_id[t] \in Nat /\ backend[t].cmd_id \in Nat
      BY <1>3, <2>1, <2>2, CountersAreNat DEF Queued, CmdSound, Commands, TimerInv
    <2>4. ~Armed(t)
      BY <2>3 DEF Armed
    <2>5. CASE IsStart(c, t)
      <3>1. UNCHANGED <<state, duration, elapsed>> /\ backend'[t] = Started(c.duration, c.cmd_id)
        BY <1>1, <1>2, <1>3, <2>5 DEF ProcessCommand, IsStart
      <3>2. Armed(t)'
        BY <1>5, <2>5, <3>1 DEF Armed, Started, IsStart
      <3>3. duration[t] = c.duration /\ c.duration <= MaxDuration /\ c.duration \in 0 .. INVALID_DURATION
        BY <1>3, <2>1, <2>2, <2>5 DEF Queued, CmdSound, IsStart, Commands
      <3>4. Ahead(t)' = Needed(t)' /\ Needed(t)' = Needed(t)
        <4>1. Contract!AtLeastOne(c.duration) =
                IF Started(c.duration, c.cmd_id).timeout >= cur_time THEN Started(c.duration, c.cmd_id).timeout - cur_time
                ELSE Started(c.duration, c.cmd_id).timeout + TimeMod - cur_time
          BY <2>3, <3>3, StartedAhead DEF TimerInv
        <4>2. Needed(t)' = Contract!AtLeastOne(c.duration) /\ Needed(t) = Contract!AtLeastOne(c.duration)
          BY <3>1, <3>3 DEF Needed
        <4>3. Ahead(t)' = Contract!AtLeastOne(c.duration)
          BY <1>5, <3>1, <4>1, ZenonT(40) DEF Ahead
        <4>. QED  BY <4>2, <4>3
      <3>5. TakenStart(t)
        BY <1>2, <1>4, <2>5 DEF TakenStart
      <3>6. elapsed[t] <= 1 /\ elapsed[t] \in Nat /\ Needed(t) \in Nat
        BY <1>1, <1>9, <3>5, AheadType DEF NotLate, TimerInv
      <3>7. elapsed'[t] <= 1 /\ elapsed'[t] + Ahead(t)' <= Needed(t)' + 1
        BY <3>1, <3>4, <3>6
      <3>8. NotLate(t)'
        BY <1>1, <1>5, <1>7, <1>9, <3>1, <3>7, ZenonT(40) DEF NotLate
      <3>9. in_flight[t] = None
        BY <1>3, <2>2, <2>3, <2>5 DEF Queued, IsStart
      <3>10. Carried(t)'
        BY <1>5, <3>2, <3>9 DEF Carried
      <3>. QED  BY <1>8, <3>8, <3>10 DEF RunInv
    <2>6. CASE ~IsStart(c, t)
      <3>1. ~Armed(t)'
        <4>1. CASE c.action = "start"
          <5>1. backend'[t] = Started(c.duration, c.cmd_id)
            BY <1>1, <1>2, <1>3, <4>1 DEF ProcessCommand
          <5>2. c.cmd_id # cmd_id[t]
            BY <1>3, <2>6, <4>1 DEF IsStart
          <5>. QED  BY <1>5, <5>1, <5>2 DEF Armed, Started
        <4>2. CASE c.action # "start"
          <5>1. c.action = "stop" \/ c.action = "destroy"
            BY <2>1, <4>2 DEF Commands
          <5>2. backend'[t].state # "running"
            BY <1>1, <1>2, <1>3, <5>1 DEF ProcessCommand
          <5>. QED  BY <5>2 DEF Armed
        <4>. QED  BY <4>1, <4>2
      <3>2. elapsed'[t] = elapsed[t] \/ elapsed'[t] = 0
        BY <1>1, <1>2, <1>3 DEF ProcessCommand
      <3>3. NotLate(t)'
        BY <1>6, <1>7, <1>9, <3>1, <3>2 DEF NotLate
      <3>4. state'[t] = state[t] \/ state'[t] = "stopped"
        BY <1>1, <1>2, <1>3 DEF ProcessCommand
      <3>5. TakenStart(t) => TakenStart(t)'
        BY <1>6, <2>6
      <3>6. Carried(t)'
        BY <1>5, <1>7, <1>9, <2>4, <3>4, <3>5, ZenonT(40) DEF Carried
      <3>. QED  BY <1>8, <3>3, <3>6 DEF RunInv
    <2>. QED  BY <2>5, <2>6
  <1>. QED  BY <1>10, <1>11

\* Every running timer is carried, and in time, whatever the threads do.
THEOREM RunsStayCarried == Spec => [](TimerInv /\ RunInv)
  <1>1. Init => RunInv
    BY DEF Init, RunInv, Carried, NotLate, PendingStart, TakenStart, Armed
  <1>2. TimerInv /\ RunInv /\ [Next]_vars => RunInv'
    <2>. SUFFICES ASSUME TimerInv, RunInv, [Next]_vars
                  PROVE  RunInv'
      OBVIOUS
    <2>1. CASE UNCHANGED vars
      <3>1. ASSUME NEW t \in Timers
            PROVE  SameRun(t)
        BY <2>1, ZenonT(40) DEF vars, front_vars, back_vars, SameRun, PendingStart, TakenStart, IsStart, PostponedOut,
                                DeferredOut
      <3>. QED  BY <3>1, RunFrame DEF RunInv
    <2>2. CASE Tick
      BY <2>2, BeginTickKeepsRuns, CommandKeepsRuns, PostponedKeepsRuns, AdvanceKeepsRuns, EndTickKeepsRuns,
         ExpireKeepsRuns DEF Tick
    <2>3. CASE RunTimeout
      BY <2>3, TimeoutKeepsRuns
    <2>4. ASSUME NEW t \in Timers, Owner(t) \/ PushTimerCommand(t)
          PROVE  RunInv'
      BY <2>4, OwnerKeepsRuns, PushKeepsRuns
    <2>. QED  BY <2>1, <2>2, <2>3, <2>4 DEF Next
  <1>. QED  BY <1>1, <1>2, TimerInvariance, PTL DEF Spec

\* A set of places without two of them counts one, or none.
LEMMA CountOne ==
    ASSUME NEW n \in Nat, NEW P \in SUBSET (1 .. n), \A i, j \in P : ~(i < j)
    PROVE  (P = {} => Cardinality(P) = 0) /\ (P # {} => Cardinality(P) = 1)
  <1>1. P = {} => Cardinality(P) = 0
    BY FS_EmptySet
  <1>2. ASSUME P # {} PROVE Cardinality(P) = 1
    <2>1. PICK i \in P : TRUE
      BY <1>2
    <2>2. P = {i}
      <3>1. ASSUME NEW j \in P PROVE j = i
        <4>1. i \in Int /\ j \in Int /\ ~(i < j) /\ ~(j < i)
          BY <2>1
        <4>. QED  BY <4>1
      <3>. QED  BY <2>1, <3>1
    <2>. QED  BY <2>2, FS_Singleton
  <1>. QED  BY <1>1, <1>2

\* The current run of a timer is at one place at most, and only of a running timer.
LEMMA OnePlace ==
    ASSUME TimerInv, NEW t \in Timers
    PROVE  /\ PendingStart(t) => state[t] = "running" /\ ~TakenStart(t) /\ ~Armed(t) /\ ~PostponedOut(t) /\ ~DeferredOut(t)
           /\ TakenStart(t) => state[t] = "running" /\ ~Armed(t) /\ ~PostponedOut(t) /\ ~DeferredOut(t)
           /\ Armed(t) => state[t] = "running" /\ ~PostponedOut(t) /\ ~DeferredOut(t)
           /\ PostponedOut(t) => state[t] = "running" /\ ~DeferredOut(t)
           /\ DeferredOut(t) => state[t] = "running"
  <1>1. cmd_id[t] \in Nat /\ backend[t].cmd_id \in Nat
    BY CountersAreNat DEF TimerInv
  <1>2. ASSUME NEW c, Queued(c), IsStart(c, t)
        PROVE  state[t] = "running" /\ backend[t].cmd_id < cmd_id[t]
    BY <1>2 DEF Queued, CmdSound, IsStart
  <1>3. ASSUME PendingStart(t) \/ TakenStart(t)
        PROVE  state[t] = "running" /\ backend[t].cmd_id < cmd_id[t]
    <2>1. PICK c : Queued(c) /\ IsStart(c, t)
      BY <1>3 DEF PendingStart, TakenStart, IsStart, TimerInv, QueueInv
    <2>. QED  BY <1>2, <2>1
  <1>4. PendingStart(t) => ~TakenStart(t)
    <2>. SUFFICES ASSUME PendingStart(t), TakenStart(t)
                  PROVE  FALSE
      OBVIOUS
    <2>1. PICK j \in 1 .. Len(pending_cmds) : IsStart(pending_cmds[j], t)
      BY DEF PendingStart
    <2>2. PICK i \in 1 .. Len(cmds_to_process) : IsStart(cmds_to_process[i], t)
      BY DEF TakenStart
    <2>3. Before(cmds_to_process[i], pending_cmds[j])
      BY DEF TimerInv, QueueInv
    <2>4. cmd_id[t] < cmd_id[t]
      BY <2>1, <2>2, <2>3, ZenonT(40) DEF Before, IsStart
    <2>. QED  BY <1>1, <2>4
  <1>5. ASSUME NEW f, Dispatched(f), f = <<t, cmd_id[t]>>
        PROVE  cmd_id[t] <= backend[t].cmd_id /\ ~Armed(t) /\ state[t] = "running"
    <2>1. f[1] = t /\ f[2] = cmd_id[t]
      BY <1>5
    <2>2. cmd_id[t] <= backend[t].cmd_id /\ state[t] = "running"
      BY <1>5, <2>1 DEF Dispatched
    <2>3. backend[t].cmd_id = cmd_id[t] => backend[t].state = "expired"
      BY <1>5, <2>1 DEF Dispatched
    <2>. QED  BY <2>2, <2>3 DEF Armed
  <1>6. ASSUME PostponedOut(t) \/ DeferredOut(t)
        PROVE  cmd_id[t] <= backend[t].cmd_id /\ ~Armed(t) /\ state[t] = "running"
    <2>1. PICK f : Dispatched(f) /\ f = <<t, cmd_id[t]>>
      BY <1>6, ZenonT(40) DEF PostponedOut, DeferredOut, TimerInv, DispatchInv
    <2>. QED  BY <1>5, <2>1
  <1>7. PostponedOut(t) => ~DeferredOut(t)
    BY ZenonT(40) DEF PostponedOut, DeferredOut, TimerInv, DispatchInv
  <1>8. Armed(t) => state[t] = "running" /\ backend[t].cmd_id = cmd_id[t]
    BY DEF Armed, TimerInv, BackInv
  <1>9. PendingStart(t) \/ TakenStart(t) => ~Armed(t) /\ ~PostponedOut(t) /\ ~DeferredOut(t)
    BY <1>1, <1>3, <1>6, <1>8
  <1>. QED  BY <1>3, <1>4, <1>6, <1>7, <1>8, <1>9

\* For any number of timers: a timer that its owner sees running has its run in
\* exactly one of the command lists, the wheel, the postponed and the deferred
\* timeouts, so that the run is neither lost nor fires twice (timers.cpp).
THEOREM RunsCarriedOnce == Spec => []RunCarriedOnce
  <1>1. ASSUME TimerInv, RunInv
        PROVE  RunCarriedOnce
    <2>. SUFFICES ASSUME NEW t \in Timers, in_flight[t] = None
                  PROVE  Carriers(t) = IF state[t] = "running" THEN 1 ELSE 0
      BY DEF RunCarriedOnce
    <2>1. PICK a, b, c, d, e :
            /\ a = Cardinality(Starts(pending_cmds, t)) /\ b = Cardinality(Starts(cmds_to_process, t))
            /\ c = IF backend[t].state = "running" /\ backend[t].cmd_id = cmd_id[t] THEN 1 ELSE 0
            /\ d = Cardinality(Occurrences(failed_to_trigger_timers, t, cmd_id[t]))
            /\ e = Cardinality(Occurrences(tasks, t, cmd_id[t]))
      OBVIOUS
    <2>2. cmd_id[t] \in Nat
      BY <1>1, CountersAreNat DEF TimerInv
    <2>3. /\ Len(pending_cmds) \in Nat /\ Len(cmds_to_process) \in Nat /\ Len(failed_to_trigger_timers) \in Nat
          /\ Len(tasks) \in Nat
      BY <1>1, QueueTypes DEF TimerInv
    <2>4. (PendingStart(t) => a = 1) /\ (~PendingStart(t) => a = 0)
      <3>. DEFINE P == Starts(pending_cmds, t)
      <3>1. \A i, j \in P : ~(i < j)
        <4>. SUFFICES ASSUME NEW i \in P, NEW j \in P, i < j
                      PROVE  FALSE
          OBVIOUS
        <4>1. i \in 1 .. Len(pending_cmds) /\ j \in 1 .. Len(pending_cmds) /\ Before(pending_cmds[i], pending_cmds[j])
          BY <1>1 DEF Starts, TimerInv, QueueInv
        <4>2. cmd_id[t] < cmd_id[t]
          BY <4>1, ZenonT(40) DEF Before, Starts
        <4>. QED  BY <2>2, <4>2
      <3>2. P \in SUBSET (1 .. Len(pending_cmds)) /\ (P # {} <=> PendingStart(t))
        BY DEF Starts, PendingStart, IsStart
      <3>. HIDE DEF P
      <3>. QED  BY <2>1, <2>3, <3>1, <3>2, CountOne DEF P
    <2>5. (TakenStart(t) => b = 1) /\ (~TakenStart(t) => b = 0)
      <3>. DEFINE P == Starts(cmds_to_process, t)
      <3>1. \A i, j \in P : ~(i < j)
        <4>. SUFFICES ASSUME NEW i \in P, NEW j \in P, i < j
                      PROVE  FALSE
          OBVIOUS
        <4>1. i \in 1 .. Len(cmds_to_process) /\ j \in 1 .. Len(cmds_to_process)
              /\ Before(cmds_to_process[i], cmds_to_process[j])
          BY <1>1 DEF Starts, TimerInv, QueueInv
        <4>2. cmd_id[t] < cmd_id[t]
          BY <4>1, ZenonT(40) DEF Before, Starts
        <4>. QED  BY <2>2, <4>2
      <3>2. P \in SUBSET (1 .. Len(cmds_to_process)) /\ (P # {} <=> TakenStart(t))
        BY DEF Starts, TakenStart, IsStart
      <3>. HIDE DEF P
      <3>. QED  BY <2>1, <2>3, <3>1, <3>2, CountOne DEF P
    <2>6. (Armed(t) => c = 1) /\ (~Armed(t) => c = 0)
      BY <2>1 DEF Armed
    <2>7. (PostponedOut(t) => d = 1) /\ (~PostponedOut(t) => d = 0)
      <3>. DEFINE P == Occurrences(failed_to_trigger_timers, t, cmd_id[t])
      <3>1. \A i, j \in P : i = j
        BY <1>1, ZenonT(40) DEF Occurrences, TimerInv, DispatchInv
      <3>2. P \in SUBSET (1 .. Len(failed_to_trigger_timers)) /\ (P # {} <=> PostponedOut(t))
        BY ZenonT(40) DEF Occurrences, PostponedOut
      <3>3. P = Occurrences(failed_to_trigger_timers, t, cmd_id[t])
        OBVIOUS
      <3>. HIDE DEF P
      <3>4. \A i, j \in P : ~(i < j)
        BY <2>3, <3>1, <3>2
      <3>. QED  BY <2>1, <2>3, <3>2, <3>3, <3>4, CountOne
    <2>8. (DeferredOut(t) => e = 1) /\ (~DeferredOut(t) => e = 0)
      <3>. DEFINE P == Occurrences(tasks, t, cmd_id[t])
      <3>1. \A i, j \in P : i = j
        BY <1>1, ZenonT(40) DEF Occurrences, TimerInv, DispatchInv
      <3>2. P \in SUBSET (1 .. Len(tasks)) /\ (P # {} <=> DeferredOut(t))
        BY ZenonT(40) DEF Occurrences, DeferredOut
      <3>3. P = Occurrences(tasks, t, cmd_id[t])
        OBVIOUS
      <3>. HIDE DEF P
      <3>4. \A i, j \in P : ~(i < j)
        BY <2>3, <3>1, <3>2
      <3>. QED  BY <2>1, <2>3, <3>2, <3>3, <3>4, CountOne
    <2>9. state[t] = "running" =>
            PendingStart(t) \/ TakenStart(t) \/ Armed(t) \/ PostponedOut(t) \/ DeferredOut(t)
      BY <1>1, ZenonT(40) DEF RunInv, Carried
    <2>10. a + b + c + d + e = IF state[t] = "running" THEN 1 ELSE 0
      BY <1>1, <2>4, <2>5, <2>6, <2>7, <2>8, <2>9, OnePlace
    <2>. QED  BY <2>1, <2>10 DEF Carriers
  <1>. QED  BY <1>1, RunsStayCarried, PTL

\* For any number of timers and any durations: when no tick is under way, a run
\* whose ticks have begun has its timeout dispatched or postponed.
THEOREM TimeoutsOnTime == Spec => []TimeoutOnTime
  <1>1. ASSUME TimerInv, RunInv
        PROVE  TimeoutOnTime
    <2>. SUFFICES ASSUME NEW t \in Timers, tick = "idle", state[t] = "running", in_flight[t] = None,
                         elapsed[t] >= Needed(t)
                  PROVE  Occurrences(failed_to_trigger_timers \o tasks, t, cmd_id[t]) # {}
      BY DEF TimeoutOnTime, Needed
    <2>1. Carried(t) /\ NotLate(t)
      BY <1>1 DEF RunInv
    <2>2. elapsed[t] \in Nat /\ Needed(t) \in Nat /\ Needed(t) >= 1 /\ Ahead(t) \in Int
      BY <1>1, AheadType DEF TimerInv, TimerTypeOK
    <2>3. ~PendingStart(t)
      BY <2>1, <2>2 DEF NotLate
    <2>4. ~TakenStart(t)
      BY <1>1 DEF TimerInv, QueueInv, TakenStart
    <2>5. ~Armed(t)
      <3>1. Armed(t) => Ahead(t) >= 1
        BY <1>1 DEF TimerInv, BackInv, Armed
      <3>2. Armed(t) => elapsed[t] + Ahead(t) <= Needed(t)
        BY <2>1 DEF NotLate
      <3>. QED  BY <2>2, <3>1, <3>2
    <2>6. PostponedOut(t) \/ DeferredOut(t)
      BY <2>1, <2>3, <2>4, <2>5 DEF Carried
    <2>7. failed_to_trigger_timers \in Seq(Timeouts) /\ tasks \in Seq(Timeouts)
      BY <1>1, QueueTypes DEF TimerInv
    <2>8. PICK x : x = <<t, cmd_id[t]>>
      OBVIOUS
    <2>9. PICK q : q = failed_to_trigger_timers \o tasks
      OBVIOUS
    <2>10. \E i \in 1 .. Len(q) : q[i] = x
      <3>1. CASE PostponedOut(t)
        <4>1. PICK i \in 1 .. Len(failed_to_trigger_timers) : failed_to_trigger_timers[i] = x
          BY <2>8, <3>1 DEF PostponedOut
        <4>2. i \in 1 .. Len(q) /\ q[i] = failed_to_trigger_timers[i]
          BY <2>7, <2>9
        <4>. QED  BY <4>1, <4>2
      <3>2. CASE DeferredOut(t)
        <4>1. PICK i \in 1 .. Len(tasks) : tasks[i] = x
          BY <2>8, <3>2 DEF DeferredOut
        <4>2. i + Len(failed_to_trigger_timers) \in 1 .. Len(q) /\ q[i + Len(failed_to_trigger_timers)] = tasks[i]
          BY <2>7, <2>9
        <4>. QED  BY <4>1, <4>2
      <3>. QED  BY <2>6, <3>1, <3>2
    <2>. QED  BY <2>8, <2>9, <2>10 DEF Occurrences
  <1>. QED  BY <1>1, RunsStayCarried, PTL

-----------------------------------------------------------------------------
(* Handles *)

\* The parts of the invariant that read the queues only through their elements.
QueuesSame == pending_cmds' = pending_cmds /\ cmds_to_process' = cmds_to_process

\* A step that leaves queues and handles alone, and clears no executor.
LEMMA HandleFrame ==
    ASSUME HandleInv, QueuesSame, UNCHANGED <<timer_list, free_list, exec>>,
           \A t \in Timers : in_flight'[t] # None \/ backend'[t].state = "running" => exec[t]
    PROVE  HandleInv'
  <1>1. \A t \in Timers : (PendingCreate(t)' <=> PendingCreate(t)) /\ (TakenCreate(t)' <=> TakenCreate(t))
    BY DEF QueuesSame, PendingCreate, TakenCreate
  <1>2. /\ \A i \in 1 .. Len(pending_cmds) : HandleOf(pending_cmds[i])'
        /\ \A i \in 1 .. Len(cmds_to_process) : HandleOf(cmds_to_process[i])'
    BY ZenonT(40) DEF HandleInv, QueuesSame, HandleOf
  <1>3. \A t \in Timers : exec'[t] => t \in timer_list' \/ PendingCreate(t)' \/ TakenCreate(t)'
    BY <1>1, ZenonT(40) DEF HandleInv
  <1>. QED  BY <1>2, <1>3, ZenonT(40) DEF HandleInv, QueuesSame, Later

\* The calls of an owner, but Create: the timer has its executor.
LEMMA CallKeepsHandles ==
    ASSUME TimerInv, HandleInv, NEW t \in Timers, Run(t) \/ Stop(t) \/ Destroy(t) \/ \E d \in Settable : Set(t, d)
    PROVE  HandleInv'
  <1>1. Count(t)
    BY DEF Run, Stop, Destroy, Set
  <1>2. owned[t] /\ QueuesSame /\ UNCHANGED <<timer_list, free_list, exec, backend>>
    BY <1>1 DEF Count, back_vars, QueuesSame
  <1>3. exec[t]
    BY <1>2 DEF TimerInv, OwnerInv
  <1>4. \A u \in Timers \ {t} : in_flight'[u] = in_flight[u]
    BY DEF Run, Stop, Destroy, Set, TimerInv, TimerTypeOK
  <1>5. \A u \in Timers : in_flight'[u] # None \/ backend'[u].state = "running" => exec[u]
    BY <1>2, <1>3, <1>4, ZenonT(40) DEF HandleInv
  <1>. QED  BY <1>2, <1>5, HandleFrame

\* A timer comes from the free list, where its handle is known, or its creation
\* is the first the back-end hears of it.
LEMMA CreateKeepsHandles ==
    ASSUME TimerInv, HandleInv, NEW t \in Timers, Create(t)
    PROVE  HandleInv'
  <1>. USE DEF Create, back_vars
  <1>1. exec \in [Timers -> BOOLEAN] /\ pending_cmds \in Seq(Events) /\ cmds_to_process \in Seq(Events)
    BY DEF TimerInv, TimerTypeOK
  <1>2. exec'[t] /\ \A u \in Timers \ {t} : exec'[u] = exec[u]
    BY <1>1
  <1>3. \A u \in Timers : exec[u] => exec'[u]
    BY <1>2
  <1>4. \A u \in Timers : in_flight'[u] # None \/ backend'[u].state = "running" => exec'[u]
    BY <1>3, ZenonT(40) DEF HandleInv
  <1>5. /\ \A i \in 1 .. Len(pending_cmds) : pending_cmds[i].id \in Timers
        /\ \A i \in 1 .. Len(cmds_to_process) : cmds_to_process[i].id \in Timers
    BY <1>1, CommandOfQueue
  <1>6. \A u \in Timers : TakenCreate(u)' <=> TakenCreate(u)
    BY DEF TakenCreate
  <1>7. /\ \A i \in 1 .. Len(cmds_to_process) : HandleOf(cmds_to_process[i])'
        /\ \A i \in 1 .. Len(pending_cmds) : exec'[pending_cmds[i].id]
                /\ (pending_cmds[i].action = "create" => pending_cmds[i].id \notin timer_list')
    BY <1>3, <1>5, ZenonT(40) DEF HandleInv, HandleOf
  <1>8. CASE t \in free_list /\ free_list' = free_list \ {t} /\ UNCHANGED pending_cmds
    <2>1. t \in timer_list
      BY <1>8 DEF HandleInv
    <2>2. \A u \in Timers : exec'[u] => u \in timer_list' \/ PendingCreate(u)' \/ TakenCreate(u)'
      BY <1>2, <1>8, <2>1, ZenonT(40) DEF HandleInv, PendingCreate, TakenCreate
    <2>. QED  BY <1>4, <1>7, <1>8, <2>2, ZenonT(40) DEF HandleInv, HandleOf, Later
  <1>9. CASE /\ t \notin timer_list /\ ~exec[t] /\ UNCHANGED free_list
             /\ pending_cmds' = Append(pending_cmds, [id |-> t, action |-> "create"])
    <2>1. PICK e \in Events : e.id = t /\ e.action = "create" /\ pending_cmds' = Append(pending_cmds, e)
      BY <1>9 DEF Events, Creations
    <2>2. /\ Len(pending_cmds') = Len(pending_cmds) + 1 /\ Len(pending_cmds) \in Nat
          /\ \A i \in 1 .. Len(pending_cmds) : pending_cmds'[i] = pending_cmds[i]
          /\ pending_cmds'[Len(pending_cmds) + 1] = e
      BY <1>1, <2>1, AppendElements
    <2>3. \A u \in Timers : exec'[u] => u \in timer_list' \/ PendingCreate(u)' \/ TakenCreate(u)'
      <3>1. PendingCreate(t)'
        BY <2>1, <2>2 DEF PendingCreate
      <3>2. \A u \in Timers : PendingCreate(u) => PendingCreate(u)'
        BY <2>2 DEF PendingCreate
      <3>. QED  BY <1>2, <1>6, <3>1, <3>2 DEF HandleInv
    <2>4. \A i \in 1 .. Len(pending_cmds') : HandleOf(pending_cmds[i])'
      <3>. SUFFICES ASSUME NEW i \in 1 .. Len(pending_cmds')
                    PROVE  HandleOf(pending_cmds[i])'
        OBVIOUS
      <3>1. CASE i \in 1 .. Len(pending_cmds)
        BY <1>7, <2>2, <3>1 DEF HandleOf
      <3>2. CASE i = Len(pending_cmds) + 1
        BY <1>2, <1>9, <2>1, <2>2, <3>2 DEF HandleOf
      <3>. QED  BY <2>2, <3>1, <3>2
    <2>5. /\ \A i \in 1 .. Len(pending_cmds) : pending_cmds[i].id # t
          /\ \A i \in 1 .. Len(cmds_to_process) : cmds_to_process[i].id # t
      BY <1>9 DEF HandleInv, HandleOf
    <2>6. \A i, j \in 1 .. Len(pending_cmds') : i < j => Later(pending_cmds'[i], pending_cmds'[j])
      <3>. SUFFICES ASSUME NEW i \in 1 .. Len(pending_cmds'), NEW j \in 1 .. Len(pending_cmds'), i < j
                    PROVE  Later(pending_cmds'[i], pending_cmds'[j])
        OBVIOUS
      <3>1. i \in 1 .. Len(pending_cmds) /\ pending_cmds'[i] = pending_cmds[i]
        BY <2>2
      <3>2. CASE j \in 1 .. Len(pending_cmds)
        BY <2>2, <3>1, <3>2 DEF HandleInv
      <3>3. CASE j = Len(pending_cmds) + 1
        BY <2>1, <2>2, <2>5, <3>1, <3>3 DEF Later
      <3>. QED  BY <2>2, <3>2, <3>3
    <2>7. \A i \in 1 .. Len(cmds_to_process), j \in 1 .. Len(pending_cmds') : Later(cmds_to_process[i], pending_cmds'[j])
      <3>. SUFFICES ASSUME NEW i \in 1 .. Len(cmds_to_process), NEW j \in 1 .. Len(pending_cmds')
                    PROVE  Later(cmds_to_process[i], pending_cmds'[j])
        OBVIOUS
      <3>2. CASE j \in 1 .. Len(pending_cmds)
        BY <2>2, <3>2 DEF HandleInv
      <3>3. CASE j = Len(pending_cmds) + 1
        BY <2>1, <2>2, <2>5, <3>3 DEF Later
      <3>. QED  BY <2>2, <3>2, <3>3
    <2>8. free_list' \subseteq timer_list'
      BY <1>9 DEF HandleInv
    <2>9. \A i, j \in 1 .. Len(cmds_to_process) : i < j => Later(cmds_to_process[i], cmds_to_process[j])
      BY DEF HandleInv
    <2>. QED  BY <1>4, <1>7, <2>3, <2>4, <2>6, <2>7, <2>8, <2>9, ZenonT(40) DEF HandleInv, Later
  <1>. QED  BY <1>8, <1>9 DEF Reused

\* The command of a call gets into the list.
LEMMA PushKeepsHandles ==
    ASSUME TimerInv, HandleInv, NEW t \in Timers, PushTimerCommand(t)
    PROVE  HandleInv'
  <1>. USE DEF PushTimerCommand, back_vars
  <1>1. /\ in_flight \in [Timers -> Commands \cup {None}]
        /\ pending_cmds \in Seq(Events) /\ cmds_to_process \in Seq(Events)
    BY DEF TimerInv, TimerTypeOK
  <1>2. PICK c \in Commands : c = in_flight[t]
    BY <1>1
  <1>3. c.id = t /\ exec[t] /\ c.action # "create" /\ c \in Events
    BY <1>2 DEF TimerInv, FlightInv, HandleInv, Commands, Events
  <1>4. /\ Len(pending_cmds') = Len(pending_cmds) + 1 /\ Len(pending_cmds) \in Nat
        /\ \A i \in 1 .. Len(pending_cmds) : pending_cmds'[i] = pending_cmds[i]
        /\ pending_cmds'[Len(pending_cmds) + 1] = c
    BY <1>1, <1>2, <1>3, AppendElements
  <1>5. \A u \in Timers : in_flight'[u] # None \/ backend'[u].state = "running" => exec'[u]
    <2>1. \A u \in Timers : in_flight'[u] # None => in_flight[u] # None
      BY <1>1
    <2>. QED  BY <2>1, ZenonT(40) DEF HandleInv
  <1>6. \A u \in Timers : exec'[u] => u \in timer_list' \/ PendingCreate(u)' \/ TakenCreate(u)'
    <2>1. \A u \in Timers : PendingCreate(u) => PendingCreate(u)'
      BY <1>4 DEF PendingCreate
    <2>2. \A u \in Timers : TakenCreate(u) => TakenCreate(u)'
      BY DEF TakenCreate
    <2>. QED  BY <2>1, <2>2, ZenonT(40) DEF HandleInv
  <1>7. \A i \in 1 .. Len(pending_cmds') : HandleOf(pending_cmds[i])'
    <2>. SUFFICES ASSUME NEW i \in 1 .. Len(pending_cmds')
                  PROVE  HandleOf(pending_cmds[i])'
      OBVIOUS
    <2>1. CASE i \in 1 .. Len(pending_cmds)
      BY <1>4, <2>1 DEF HandleOf, HandleInv
    <2>2. CASE i = Len(pending_cmds) + 1
      BY <1>3, <1>4, <2>2 DEF HandleOf
    <2>. QED  BY <1>4, <2>1, <2>2
  <1>8. \A i, j \in 1 .. Len(pending_cmds') : i < j => Later(pending_cmds'[i], pending_cmds'[j])
    <2>. SUFFICES ASSUME NEW i \in 1 .. Len(pending_cmds'), NEW j \in 1 .. Len(pending_cmds'), i < j
                  PROVE  Later(pending_cmds'[i], pending_cmds'[j])
      OBVIOUS
    <2>1. CASE j \in 1 .. Len(pending_cmds)
      BY <1>4, <2>1 DEF HandleInv
    <2>2. CASE j = Len(pending_cmds) + 1
      BY <1>3, <1>4, <2>2 DEF Later
    <2>. QED  BY <1>4, <2>1, <2>2
  <1>9. \A i \in 1 .. Len(cmds_to_process), j \in 1 .. Len(pending_cmds') : Later(cmds_to_process[i], pending_cmds'[j])
    <2>. SUFFICES ASSUME NEW i \in 1 .. Len(cmds_to_process), NEW j \in 1 .. Len(pending_cmds')
                  PROVE  Later(cmds_to_process[i], pending_cmds'[j])
      OBVIOUS
    <2>1. CASE j \in 1 .. Len(pending_cmds)
      BY <1>4, <2>1 DEF HandleInv
    <2>2. CASE j = Len(pending_cmds) + 1
      BY <1>3, <1>4, <2>2 DEF Later
    <2>. QED  BY <1>4, <2>1, <2>2
  <1>10. \A i \in 1 .. Len(cmds_to_process) : HandleOf(cmds_to_process[i])'
    BY ZenonT(40) DEF HandleInv, HandleOf
  <1>. QED  BY <1>5, <1>6, <1>7, <1>8, <1>9, <1>10, ZenonT(40) DEF HandleInv, Later

\* The steps of a tick that process no command, and the timeouts.
LEMMA OthersKeepHandles ==
    ASSUME TimerInv, HandleInv,
           HandlePostponed \/ AdvanceTime \/ EndTick \/ RunTimeout \/ \E t \in Timers : ExpireBackend(t)
    PROVE  HandleInv'
  <1>1. QueuesSame /\ UNCHANGED <<timer_list, free_list, exec, in_flight>>
    BY DEF HandlePostponed, AdvanceTime, EndTick, RunTimeout, ExpireBackend, front_vars, back_vars, QueuesSame
  <1>2. \A u \in Timers : backend'[u].state = "running" => backend[u].state = "running"
    <2>1. CASE UNCHANGED backend
      BY <2>1
    <2>2. ASSUME NEW t \in Timers, ExpireBackend(t)
          PROVE  \A u \in Timers : backend'[u].state = "running" => backend[u].state = "running"
      BY <2>2 DEF ExpireBackend, TimerInv, TimerTypeOK
    <2>. QED  BY <2>1, <2>2 DEF HandlePostponed, AdvanceTime, EndTick, RunTimeout, back_vars
  <1>3. \A t \in Timers : in_flight'[t] # None \/ backend'[t].state = "running" => exec[t]
    BY <1>1, <1>2, ZenonT(40) DEF HandleInv
  <1>. QED  BY <1>1, <1>3, HandleFrame

\* A tick takes the commands.
LEMMA BeginTickKeepsHandles ==
    ASSUME TimerInv, HandleInv, BeginTick
    PROVE  HandleInv'
  <1>1. /\ UNCHANGED <<timer_list, free_list, exec, in_flight, backend>> /\ cmds_to_process' = pending_cmds
        /\ pending_cmds' = <<>>
    BY DEF BeginTick, front_vars
  <1>2. Len(pending_cmds') = 0 /\ Len(cmds_to_process) = 0
    BY <1>1 DEF TimerInv, QueueInv, BeginTick
  <1>3. \A u \in Timers : (PendingCreate(u) \/ TakenCreate(u)) => TakenCreate(u)'
    BY <1>1, <1>2 DEF PendingCreate, TakenCreate
  <1>4. \A u \in Timers : exec'[u] => u \in timer_list' \/ PendingCreate(u)' \/ TakenCreate(u)'
    BY <1>1, <1>3, ZenonT(40) DEF HandleInv
  <1>5. 1 .. Len(pending_cmds') = {}
    BY <1>2
  <1>. QED  BY <1>1, <1>4, <1>5, ZenonT(40) DEF HandleInv, HandleOf, Later

\* The back-end takes a command.  A destroy is the last event of its timer.
LEMMA CommandKeepsHandles ==
    ASSUME TimerInv, HandleInv, ProcessCommand
    PROVE  HandleInv'
  <1>. DEFINE q == cmds_to_process
  <1>1. /\ q \in Seq(Events) /\ q # <<>> /\ pending_cmds \in Seq(Events) /\ exec \in [Timers -> BOOLEAN]
        /\ backend \in [Timers -> [cmd_id : Nat, state : {"stopped", "running", "expired"}, timeout : 0 .. TimeMod - 1]]
    BY DEF TimerInv, TimerTypeOK, ProcessCommand
  <1>2. PICK c \in Events : c = Head(q) /\ c = q[1] /\ HandleOf(c)
    BY <1>1, TailElements DEF HandleInv
  <1>3. PICK t \in Timers : t = c.id /\ exec[t] /\ (c.action = "create" => t \notin timer_list)
    BY <1>2 DEF Events, Commands, Creations, HandleOf
  <1>4. /\ Len(q') = Len(q) - 1 /\ Len(q) \in Nat /\ Len(q) >= 1
        /\ \A i \in 1 .. Len(q') : q'[i] = q[i + 1] /\ i + 1 \in 1 .. Len(q)
    BY <1>1, TailElements DEF ProcessCommand
  <1>5. UNCHANGED <<cmd_id, in_flight, pending_cmds>>
    BY DEF ProcessCommand
  <1>6. /\ \A i, j \in 1 .. Len(q') : i < j => Later(q'[i], q'[j])
        /\ \A i \in 1 .. Len(q'), j \in 1 .. Len(pending_cmds) : Later(q'[i], pending_cmds[j])
    <2>1. ASSUME NEW i \in 1 .. Len(q'), NEW j \in 1 .. Len(q'), i < j
          PROVE  Later(q'[i], q'[j])
      <3>1. i + 1 \in 1 .. Len(q) /\ j + 1 \in 1 .. Len(q) /\ i + 1 < j + 1 /\ q'[i] = q[i + 1] /\ q'[j] = q[j + 1]
        BY <1>4, <2>1
      <3>. QED  BY <3>1 DEF HandleInv
    <2>2. ASSUME NEW i \in 1 .. Len(q'), NEW j \in 1 .. Len(pending_cmds)
          PROVE  Later(q'[i], pending_cmds[j])
      BY <1>4 DEF HandleInv
    <2>. QED  BY <2>1, <2>2
  <1>7. /\ \A i \in 1 .. Len(q') : q'[i].action = "create" => q'[i].id # t
        /\ \A i \in 1 .. Len(pending_cmds) : pending_cmds[i].action = "create" => pending_cmds[i].id # t
    <2>1. ASSUME NEW i \in 1 .. Len(q')
          PROVE  q'[i].action = "create" => q'[i].id # t
      <3>1. i + 1 \in 1 .. Len(q) /\ 1 \in 1 .. Len(q) /\ 1 < i + 1 /\ q'[i] = q[i + 1]
        BY <1>4
      <3>2. Later(q[1], q[i + 1])
        BY <3>1 DEF HandleInv
      <3>. QED  BY <1>2, <1>3, <3>1, <3>2 DEF Later
    <2>2. ASSUME NEW i \in 1 .. Len(pending_cmds)
          PROVE  pending_cmds[i].action = "create" => pending_cmds[i].id # t
      <3>1. 1 \in 1 .. Len(q)
        BY <1>4
      <3>2. Later(q[1], pending_cmds[i])
        BY <3>1 DEF HandleInv
      <3>. QED  BY <1>2, <1>3, <3>2 DEF Later
    <2>. QED  BY <2>1, <2>2
  <1>8. \A u \in Timers \ {t} : (TakenCreate(u) => TakenCreate(u)') /\ (PendingCreate(u) => PendingCreate(u)')
    <2>. SUFFICES ASSUME NEW u \in Timers \ {t}
                  PROVE  (TakenCreate(u) => TakenCreate(u)') /\ (PendingCreate(u) => PendingCreate(u)')
      OBVIOUS
    <2>1. PendingCreate(u) => PendingCreate(u)'
      BY <1>5 DEF PendingCreate
    <2>2. ASSUME TakenCreate(u) PROVE TakenCreate(u)'
      <3>1. PICK i \in 1 .. Len(q) : q[i].id = u /\ q[i].action = "create"
        BY <2>2 DEF TakenCreate
      <3>2. i # 1
        BY <1>2, <1>3, <3>1
      <3>3. i - 1 \in 1 .. Len(q') /\ q'[i - 1] = q[i]
        BY <1>4, <3>1, <3>2
      <3>. QED  BY <3>1, <3>3 DEF TakenCreate
    <2>. QED  BY <2>1, <2>2
  <1>9. t \in timer_list'
    <2>1. CASE c.action = "create"
      BY <1>2, <1>3, <2>1 DEF ProcessCommand
    <2>2. CASE c.action # "create"
      <3>1. timer_list' = timer_list
        BY <1>2, <2>2 DEF ProcessCommand
      <3>2. ~PendingCreate(t)
        BY <1>7 DEF PendingCreate
      <3>3. ~TakenCreate(t)
        <4>. SUFFICES ASSUME NEW i \in 1 .. Len(q), q[i].id = t, q[i].action = "create"
                      PROVE  FALSE
          BY DEF TakenCreate
        <4>1. i # 1
          BY <1>2, <2>2
        <4>2. i - 1 \in 1 .. Len(q') /\ q'[i - 1] = q[i]
          BY <1>4, <4>1
        <4>. QED  BY <1>7, <4>2
      <3>. QED  BY <1>3, <3>1, <3>2, <3>3 DEF HandleInv
    <2>. QED  BY <2>1, <2>2
  <1>10. timer_list' = timer_list \/ timer_list' = timer_list \cup {t}
    BY <1>2, <1>3 DEF ProcessCommand
  <1>11. (free_list' = free_list \/ free_list' = free_list \cup {t}) /\ free_list' \subseteq timer_list'
    <2>1. free_list' = free_list \/ free_list' = free_list \cup {t}
      BY <1>2, <1>3 DEF ProcessCommand
    <2>. QED  BY <1>9, <1>10, <2>1 DEF HandleInv
  <1>12. /\ \A u \in Timers \ {t} : exec'[u] = exec[u] /\ backend'[u] = backend[u]
         /\ c.action # "destroy" => exec'[t]
         /\ c.action = "destroy" => backend'[t].state = "stopped" /\ ~exec'[t]
    BY <1>1, <1>2, <1>3 DEF ProcessCommand
  <1>13. \A u \in Timers : exec'[u] => u \in timer_list' \/ PendingCreate(u)' \/ TakenCreate(u)'
    <2>. SUFFICES ASSUME NEW u \in Timers, u # t, exec'[u]
                  PROVE  u \in timer_list' \/ PendingCreate(u)' \/ TakenCreate(u)'
      BY <1>9
    <2>. QED  BY <1>8, <1>10, <1>12 DEF HandleInv
  <1>14. c.action = "destroy" =>
           /\ in_flight[t] = None
           /\ \A i \in 1 .. Len(q') : q'[i].id # t
           /\ \A i \in 1 .. Len(pending_cmds) : pending_cmds[i].id # t
    <2>. SUFFICES ASSUME c.action = "destroy"
                  PROVE  /\ in_flight[t] = None
                         /\ \A i \in 1 .. Len(q') : q'[i].id # t
                         /\ \A i \in 1 .. Len(pending_cmds) : pending_cmds[i].id # t
      OBVIOUS
    <2>1. Queued(c)
      BY <1>2, <1>4 DEF TimerInv, QueueInv
    <2>2. cmd_id[t] \in Nat /\ c.cmd_id = cmd_id[t] /\ in_flight[t] = None
      BY <1>3, <2>1, CountersAreNat DEF Queued, CmdSound, TimerInv
    <2>3. ASSUME NEW d \in Commands, d.id = t, Queued(d), Before(c, d)
          PROVE  FALSE
      <3>1. d.cmd_id \in Nat /\ d.action # "create" /\ d.cmd_id <= cmd_id[t]
        BY <2>3 DEF Commands, Queued, CmdSound
      <3>2. cmd_id[t] < d.cmd_id
        BY <1>3, <2>2, <2>3, <3>1 DEF Before
      <3>. QED  BY <2>2, <3>1, <3>2
    <2>4. ASSUME NEW i \in 1 .. Len(q'), q'[i].id = t
          PROVE  FALSE
      <3>1. i + 1 \in 1 .. Len(q) /\ 1 \in 1 .. Len(q) /\ 1 < i + 1 /\ q'[i] = q[i + 1]
        BY <1>4
      <3>2. q[i + 1] \in Commands /\ q[i + 1].action # "create"
        BY <1>1, <1>7, <2>4, <3>1, CommandOfQueue
      <3>3. Queued(q[i + 1]) /\ Before(c, q[i + 1])
        BY <1>2, <3>1, <3>2 DEF TimerInv, QueueInv
      <3>. QED  BY <2>3, <2>4, <3>1, <3>2, <3>3
    <2>5. ASSUME NEW i \in 1 .. Len(pending_cmds), pending_cmds[i].id = t
          PROVE  FALSE
      <3>1. 1 \in 1 .. Len(q)
        BY <1>4
      <3>2. pending_cmds[i] \in Commands /\ pending_cmds[i].action # "create"
        BY <1>1, <1>7, <2>5, CommandOfQueue
      <3>3. Queued(pending_cmds[i]) /\ Before(c, pending_cmds[i])
        BY <1>2, <3>1, <3>2 DEF TimerInv, QueueInv
      <3>. QED  BY <2>3, <2>5, <3>2, <3>3
    <2>. QED  BY <2>2, <2>4, <2>5
  <1>15. \A u \in Timers : in_flight'[u] # None \/ backend'[u].state = "running" => exec'[u]
    BY <1>5, <1>12, <1>14 DEF HandleInv
  <1>16. /\ \A i \in 1 .. Len(q') : HandleOf(cmds_to_process[i])'
         /\ \A i \in 1 .. Len(pending_cmds) : HandleOf(pending_cmds[i])'
    <2>1. ASSUME NEW e, e.id \in Timers, HandleOf(e), e.action = "create" => e.id # t,
                 c.action = "destroy" => e.id # t
          PROVE  exec'[e.id] /\ (e.action = "create" => e.id \notin timer_list')
      <3>1. PICK u \in Timers : u = e.id
        BY <2>1
      <3>2. exec[u] /\ (e.action = "create" => u \notin timer_list /\ u # t)
        BY <2>1, <3>1 DEF HandleOf
      <3>3. exec'[u]
        BY <1>12, <2>1, <3>1, <3>2
      <3>. QED  BY <1>10, <3>1, <3>2, <3>3
    <2>2. ASSUME NEW i \in 1 .. Len(q')
          PROVE  HandleOf(cmds_to_process[i])'
      <3>1. i + 1 \in 1 .. Len(q) /\ q'[i] = q[i + 1]
        BY <1>4
      <3>2. q[i + 1].id \in Timers /\ HandleOf(q[i + 1])
        BY <1>1, <3>1, CommandOfQueue DEF HandleInv
      <3>3. (q[i + 1].action = "create" => q[i + 1].id # t) /\ (c.action = "destroy" => q[i + 1].id # t)
        BY <1>7, <1>14, <3>1
      <3>4. exec'[q[i + 1].id] /\ (q[i + 1].action = "create" => q[i + 1].id \notin timer_list')
        BY <2>1, <3>2, <3>3
      <3>. QED  BY <3>1, <3>4 DEF HandleOf
    <2>3. ASSUME NEW i \in 1 .. Len(pending_cmds)
          PROVE  HandleOf(pending_cmds[i])'
      <3>1. pending_cmds[i].id \in Timers /\ HandleOf(pending_cmds[i])
        BY <1>1, CommandOfQueue DEF HandleInv
      <3>2. exec'[pending_cmds[i].id] /\ (pending_cmds[i].action = "create" => pending_cmds[i].id \notin timer_list')
        BY <1>7, <1>14, <2>1, <3>1
      <3>. QED  BY <1>5, <3>2 DEF HandleOf
    <2>. QED  BY <2>2, <2>3
  <1>17. \A i, j \in 1 .. Len(pending_cmds) : i < j => Later(pending_cmds[i], pending_cmds[j])
    BY DEF HandleInv
  <1>. QED  BY <1>5, <1>6, <1>11, <1>13, <1>15, <1>16, <1>17, ZenonT(40) DEF HandleInv, Later

\* The back-end finds the handle of every command it takes, creates no handle
\* twice, and a timer in the free list has nothing under way: the assertions of
\* handle_timer_commands and create_frontend_timer hold for any number of timers.
THEOREM HandlesStayValid == Spec => []HandlesValid
  <1>1. Init => HandleInv
    BY DEF Init, HandleInv
  <1>2. TimerInv /\ HandleInv /\ [Next]_vars => HandleInv'
    <2>. SUFFICES ASSUME TimerInv, HandleInv, [Next]_vars
                  PROVE  HandleInv'
      OBVIOUS
    <2>1. CASE UNCHANGED vars
      <3>1. QueuesSame /\ UNCHANGED <<timer_list, free_list, exec, in_flight, backend>>
        BY <2>1 DEF vars, front_vars, back_vars, QueuesSame
      <3>2. \A t \in Timers : in_flight'[t] # None \/ backend'[t].state = "running" => exec[t]
        BY <3>1, ZenonT(40) DEF HandleInv
      <3>. QED  BY <3>1, <3>2, HandleFrame
    <2>2. CASE Tick
      BY <2>2, BeginTickKeepsHandles, CommandKeepsHandles, OthersKeepHandles DEF Tick
    <2>3. CASE RunTimeout
      BY <2>3, OthersKeepHandles
    <2>4. ASSUME NEW t \in Timers, Owner(t) \/ PushTimerCommand(t)
          PROVE  HandleInv'
      BY <2>4, CallKeepsHandles, CreateKeepsHandles, PushKeepsHandles DEF Owner
    <2>. QED  BY <2>1, <2>2, <2>3, <2>4 DEF Next
  <1>3. ASSUME TimerInv, HandleInv
        PROVE  HandlesValid
    <2>1. cmds_to_process # <<>> =>
            (Head(cmds_to_process).id \in timer_list <=> Head(cmds_to_process).action # "create")
      <3>. SUFFICES ASSUME cmds_to_process # <<>>
                    PROVE  Head(cmds_to_process).id \in timer_list <=> Head(cmds_to_process).action # "create"
        OBVIOUS
      <3>1. /\ cmds_to_process \in Seq(Events) /\ Head(cmds_to_process) = cmds_to_process[1]
            /\ 1 \in 1 .. Len(cmds_to_process) /\ Len(cmds_to_process) \in Nat
        BY <1>3, QueueTypes, TailElements DEF TimerInv
      <3>2. PICK c : c = cmds_to_process[1] /\ HandleOf(c)
        BY <1>3, <3>1 DEF HandleInv
      <3>3. c.id \in Timers
        BY <3>1, <3>2, CommandOfQueue
      <3>4. ASSUME c.action # "create"
            PROVE  c.id \in timer_list
        <4>1. ~PendingCreate(c.id)
          <5>. SUFFICES ASSUME NEW j \in 1 .. Len(pending_cmds), pending_cmds[j].id = c.id, pending_cmds[j].action = "create"
                        PROVE  FALSE
            BY DEF PendingCreate
          <5>1. Later(cmds_to_process[1], pending_cmds[j])
            BY <1>3, <3>1 DEF HandleInv
          <5>. QED  BY <3>2, <5>1 DEF Later
        <4>2. ~TakenCreate(c.id)
          <5>. SUFFICES ASSUME NEW j \in 1 .. Len(cmds_to_process), cmds_to_process[j].id = c.id,
                               cmds_to_process[j].action = "create"
                        PROVE  FALSE
            BY DEF TakenCreate
          <5>1. j # 1
            BY <3>2, <3>4
          <5>2. 1 < j
            BY <3>1, <5>1
          <5>3. Later(cmds_to_process[1], cmds_to_process[j])
            BY <1>3, <3>1, <5>2 DEF HandleInv
          <5>. QED  BY <3>2, <5>3 DEF Later
        <4>. QED  BY <1>3, <3>2, <3>3, <4>1, <4>2 DEF HandleInv, HandleOf
      <3>. QED  BY <3>1, <3>2, <3>4 DEF HandleOf
    <2>2. \A t \in free_list : ~exec[t] /\ ~owned[t] /\ in_flight[t] = None /\ backend[t].state # "running"
      BY <1>3 DEF TimerInv, TimerTypeOK, OwnerInv, HandleInv
    <2>3. \A t \in Timers : owned[t] => exec[t]
      BY <1>3 DEF TimerInv, OwnerInv
    <2>4. \A t \in Timers : (backend[t].cmd_id = cmd_id[t] /\ backend[t].state = "running") => exec[t]
      BY <1>3 DEF HandleInv
    <2>. QED  BY <2>1, <2>2, <2>3, <2>4 DEF HandlesValid
  <1>. QED  BY <1>1, <1>2, <1>3, TimerInvariance, PTL DEF Spec
=============================================================================
