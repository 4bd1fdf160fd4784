-------------------------- MODULE TimerManagerProofs --------------------------
(***************************************************************************)
(* The timer service keeps its contract, for any number of timers, any     *)
(* durations, any size of the wheel and of the executor's queue, and       *)
(* however front-end calls, ticks and time-outs interleave.                *)
(***************************************************************************)
EXTENDS TimerManager, Integers, TLAPS

(* Leaves are small, but many: the provers get more than the default seconds. *)
USE SMTT(10), ZenonT(10), SMTT(40), ZenonT(40)

-----------------------------------------------------------------------------
(* The inductive invariant *)

Commands == [id : Timers, cmd_id : Nat, action : {"start", "stop", "destroy"}, duration : 0 .. INVALID_DURATION]
Creations == [id : Timers, action : {"create"}]
Events == Commands \cup Creations
Timeouts == Timers \X Nat

TimerTypeOK ==
  /\ state \in [Timers -> {"stopped", "running", "expired"}]
  /\ duration \in [Timers -> 0 .. INVALID_DURATION]
  /\ cmd_id \in [Timers -> Nat]
  /\ exec \in [Timers -> BOOLEAN] /\ owned \in [Timers -> BOOLEAN]
  /\ in_flight \in [Timers -> Commands \cup {None}]
  /\ pending_cmds \in Seq(Events) /\ cmds_to_process \in Seq(Events)
  /\ free_list \in SUBSET Timers
  /\ backend \in [Timers -> [cmd_id : Nat, state : {"stopped", "running", "expired"}, timeout : 0 .. TimeMod - 1]]
  /\ cur_time \in 0 .. TimeMod - 1
  /\ failed_to_trigger_timers \in Seq(Timeouts) /\ tasks \in Seq(Timeouts)
  /\ tick \in {"idle", "commands", "wheel"}
  /\ elapsed \in [Timers -> 0 .. MaxDuration]

\* A front-end in use is not in the free list, and only an owner has it running.
OwnerInv ==
  \A t \in Timers :
    /\ owned[t] => exec[t]
    /\ exec[t] => t \notin free_list
    /\ state[t] = "running" => owned[t]

\* What a command under way says of its timer: a start that is still the latest
\* command belongs to a running timer, and nothing follows a destroy.
CmdSound(c) ==
  /\ c.cmd_id <= cmd_id[c.id]
  /\ c.action = "start" /\ c.cmd_id = cmd_id[c.id] =>
       state[c.id] = "running" /\ duration[c.id] = c.duration /\ c.duration <= MaxDuration
  /\ c.action = "destroy" => c.cmd_id = cmd_id[c.id] /\ ~owned[c.id] /\ exec[c.id]

\* The ids of the commands of a timer increase from the back-end over the two
\* queues to the command in flight.
FlightInv ==
  \A t \in Timers : in_flight[t] # None =>
    /\ in_flight[t].id = t /\ in_flight[t].cmd_id = cmd_id[t]
    /\ CmdSound(in_flight[t])
    /\ backend[t].cmd_id < cmd_id[t]

Queued(c) ==
  /\ CmdSound(c)
  /\ backend[c.id].cmd_id < c.cmd_id
  /\ in_flight[c.id] # None => c.cmd_id < cmd_id[c.id]

Before(c, d) == c.action # "create" /\ d.action # "create" /\ c.id = d.id => c.cmd_id < d.cmd_id

QueueInv ==
  /\ \A i \in 1 .. Len(pending_cmds) : pending_cmds[i].action # "create" => Queued(pending_cmds[i])
  /\ \A i \in 1 .. Len(cmds_to_process) :
       cmds_to_process[i].action # "create" => Queued(cmds_to_process[i])
  /\ \A i, j \in 1 .. Len(pending_cmds) : i < j => Before(pending_cmds[i], pending_cmds[j])
  /\ \A i, j \in 1 .. Len(cmds_to_process) : i < j => Before(cmds_to_process[i], cmds_to_process[j])
  /\ \A i \in 1 .. Len(cmds_to_process), j \in 1 .. Len(pending_cmds) :
       Before(cmds_to_process[i], pending_cmds[j])
  /\ \A i \in 1 .. Len(cmds_to_process) :
       cmds_to_process[i].action = "start" /\ cmds_to_process[i].cmd_id = cmd_id[cmds_to_process[i].id]
         => elapsed[cmds_to_process[i].id] >= 1
  /\ tick # "commands" => cmds_to_process = <<>>

\* Ticks until the back-end of t times out, across the wrap of cur_time.
Ahead(t) ==
  IF backend[t].timeout >= cur_time THEN backend[t].timeout - cur_time
  ELSE backend[t].timeout + TimeMod - cur_time

Needed(t) == Contract!AtLeastOne(duration[t])

\* An armed back-end that has seen the latest command: the ticks that have begun
\* and those still ahead make up the duration.  During the commands of a tick the
\* tick has begun and the time has not advanced yet.
BackInv ==
  \A t \in Timers :
    /\ backend[t].cmd_id <= cmd_id[t]
    /\ backend[t].state = "running" /\ backend[t].cmd_id = cmd_id[t] =>
         /\ state[t] = "running" /\ duration[t] <= MaxDuration
         /\ elapsed[t] + Ahead(t) >= Needed(t)
         /\ tick = "commands" => elapsed[t] + Ahead(t) >= Needed(t) + 1
         /\ tick # "wheel" => Ahead(t) >= 1

\* A timeout that was dispatched or postponed: the back-end has run down, and if no
\* command was counted since, the timer is running and its ticks have passed.
Dispatched(f) ==
  /\ f[2] <= backend[f[1]].cmd_id
  /\ f[2] = backend[f[1]].cmd_id => backend[f[1]].state = "expired"
  /\ f[2] = cmd_id[f[1]] => state[f[1]] = "running" /\ elapsed[f[1]] >= Needed(f[1])

DispatchInv ==
  /\ \A i \in 1 .. Len(failed_to_trigger_timers) : Dispatched(failed_to_trigger_timers[i])
  /\ \A i \in 1 .. Len(tasks) : Dispatched(tasks[i])
  /\ \A i, j \in 1 .. Len(failed_to_trigger_timers) :
       i # j => failed_to_trigger_timers[i] # failed_to_trigger_timers[j]
  /\ \A i, j \in 1 .. Len(tasks) : i # j => tasks[i] # tasks[j]
  /\ \A i \in 1 .. Len(failed_to_trigger_timers), j \in 1 .. Len(tasks) :
       failed_to_trigger_timers[i] # tasks[j]

TimerInv == TimerTypeOK /\ OwnerInv /\ FlightInv /\ QueueInv /\ BackInv /\ DispatchInv

-----------------------------------------------------------------------------
(* Each step keeps the invariant *)

\* An element of a queue of timeouts names a timer and the id of a command.
LEMMA TimeoutOfQueue ==
    ASSUME NEW q \in Seq(Timeouts), NEW i \in 1 .. Len(q)
    PROVE  q[i][1] \in Timers /\ q[i][2] \in Nat
  <1>1. q[i] \in Timeouts
    OBVIOUS
  <1>. QED  BY <1>1 DEF Timeouts

\* An element of a queue of events is a command, or the creation of a handle.
LEMMA CommandOfQueue ==
    ASSUME NEW q \in Seq(Events), NEW i \in 1 .. Len(q)
    PROVE  /\ q[i].action # "create" => q[i] \in Commands
           /\ q[i] \in Commands => q[i].action # "create"
           /\ q[i].id \in Timers
  <1>1. q[i] \in Events
    OBVIOUS
  <1>. QED  BY <1>1 DEF Events, Commands, Creations

\* The elements of a queue after one is added at its end ...
LEMMA AppendElements ==
    ASSUME NEW S, NEW q \in Seq(S), NEW e \in S
    PROVE  /\ Append(q, e) \in Seq(S) /\ Len(Append(q, e)) = Len(q) + 1 /\ Len(q) \in Nat
           /\ \A i \in 1 .. Len(q) : Append(q, e)[i] = q[i]
           /\ Append(q, e)[Len(q) + 1] = e
  OBVIOUS

\* ... and after the first one is taken.
LEMMA TailElements ==
    ASSUME NEW S, NEW q \in Seq(S), q # <<>>
    PROVE  /\ Tail(q) \in Seq(S) /\ Len(q) \in Nat /\ Len(q) >= 1 /\ Len(Tail(q)) = Len(q) - 1
           /\ \A i \in 1 .. Len(Tail(q)) : Tail(q)[i] = q[i + 1] /\ i + 1 \in 1 .. Len(q)
           /\ Head(q) = q[1] /\ 1 \in 1 .. Len(q) /\ Head(q) \in S
  OBVIOUS

\* The ticks ahead and the ticks needed are numbers.
LEMMA AheadType ==
    ASSUME TimerTypeOK, NEW t \in Timers
    PROVE  /\ Ahead(t) \in 0 .. TimeMod - 1 /\ Ahead(t) \in Int
           /\ Needed(t) \in Nat /\ Needed(t) >= 1 /\ Needed(t) <= INVALID_DURATION
  <1>1. /\ backend[t].timeout \in 0 .. TimeMod - 1 /\ cur_time \in 0 .. TimeMod - 1
        /\ duration[t] \in 0 .. INVALID_DURATION
    BY DEF TimerTypeOK
  <1>2. Ahead(t) \in 0 .. TimeMod - 1 /\ Ahead(t) \in Int
    BY <1>1, TimerAssumption DEF Ahead
  <1>3. Needed(t) \in Nat /\ Needed(t) >= 1 /\ Needed(t) <= INVALID_DURATION
    BY <1>1, TimerAssumption DEF Needed, Contract!AtLeastOne, INVALID_DURATION
  <1>. QED  BY <1>2, <1>3

\* The parts of the type invariant that are used most.
LEMMA QueueTypes ==
    ASSUME TimerTypeOK
    PROVE  /\ pending_cmds \in Seq(Events) /\ cmds_to_process \in Seq(Events)
           /\ failed_to_trigger_timers \in Seq(Timeouts) /\ tasks \in Seq(Timeouts)
  BY DEF TimerTypeOK

\* Command ids are natural numbers, in the front-end and in the back-end.
LEMMA CountersAreNat ==
    ASSUME TimerTypeOK, NEW t \in Timers
    PROVE  cmd_id[t] \in Nat /\ backend[t].cmd_id \in Nat
  BY DEF TimerTypeOK

\* The initial state: nothing is under way.
LEMMA InitEstablishesInv == Init => TimerInv
  <1>. SUFFICES ASSUME Init PROVE TimerInv
    OBVIOUS
  <1>1. TimerTypeOK
    BY TimerAssumption DEF Init, TimerTypeOK, INVALID_DURATION
  <1>2. OwnerInv /\ FlightInv /\ QueueInv /\ BackInv /\ DispatchInv
    BY DEF Init, OwnerInv, FlightInv, QueueInv, BackInv, DispatchInv
  <1>. QED  BY <1>1, <1>2 DEF TimerInv

\* A front-end call: the latest command gets a new id, so that whatever is under
\* way for the timer is void, and goes into flight.
LEMMA CallKeepsInv ==
    ASSUME TimerInv, NEW t \in Timers, Count(t),
           NEW s \in {"stopped", "running", "expired"}, NEW d \in 0 .. INVALID_DURATION,
           NEW o \in BOOLEAN, NEW c \in Commands \cup {None},
           state' = [state EXCEPT ![t] = s], duration' = [duration EXCEPT ![t] = d],
           owned' = [owned EXCEPT ![t] = o], in_flight' = [in_flight EXCEPT ![t] = c],
           s = "running" => o,
           c # None => /\ c.id = t /\ c.cmd_id = cmd_id[t] + 1
                       /\ c.action = "start" => s = "running" /\ c.duration = d /\ d <= MaxDuration
                       /\ c.action = "destroy" => ~o
    PROVE  TimerInv'
  <1>. USE DEF TimerInv, Count, back_vars
  <1>1. TimerTypeOK'
    <2>1. /\ cmd_id \in [Timers -> Nat] /\ cmd_id' = [cmd_id EXCEPT ![t] = cmd_id[t] + 1]
          /\ elapsed \in [Timers -> 0 .. MaxDuration] /\ elapsed' = [elapsed EXCEPT ![t] = 0]
      BY DEF TimerTypeOK
    <2>2. cmd_id' \in [Timers -> Nat] /\ elapsed' \in [Timers -> 0 .. MaxDuration]
      <3>1. cmd_id[t] + 1 \in Nat /\ 0 \in 0 .. MaxDuration
        BY <2>1, TimerAssumption
      <3>. QED  BY <2>1, <3>1
    <2>3. /\ state' \in [Timers -> {"stopped", "running", "expired"}]
          /\ duration' \in [Timers -> 0 .. INVALID_DURATION]
      BY DEF TimerTypeOK
    <2>4. owned' \in [Timers -> BOOLEAN] /\ in_flight' \in [Timers -> Commands \cup {None}]
      BY DEF TimerTypeOK
    <2>. QED  BY <2>2, <2>3, <2>4, ZenonT(40) DEF TimerTypeOK
  <1>2. OwnerInv'
    BY DEF TimerTypeOK, OwnerInv
  <1>3. ASSUME NEW e \in Commands, CmdSound(e)
        PROVE  CmdSound(e)'
    <2>1. CASE e.id = t
      <3>1. e.cmd_id < cmd_id'[t] /\ e.action # "destroy"
        BY <1>3, <2>1 DEF TimerTypeOK, CmdSound, Commands
      <3>. QED  BY <3>1, <2>1, <1>3 DEF TimerTypeOK, CmdSound, Commands
    <2>2. CASE e.id # t
      BY <1>3, <2>2 DEF TimerTypeOK, CmdSound, Commands
    <2>. QED  BY <2>1, <2>2
  <1>4. FlightInv'
    <2>. SUFFICES ASSUME NEW u \in Timers, in_flight'[u] # None
                  PROVE  /\ in_flight'[u].id = u /\ in_flight'[u].cmd_id = cmd_id'[u]
                         /\ CmdSound(in_flight[u])'
                         /\ backend'[u].cmd_id < cmd_id'[u]
      BY DEF FlightInv
    <2>1. CASE u = t
      <3>1. in_flight'[u] = c /\ c \in Commands /\ exec[t] /\ backend[t].cmd_id <= cmd_id[t]
        BY <2>1 DEF TimerTypeOK, OwnerInv, BackInv
      <3>2. c.id = t /\ c.cmd_id = cmd_id'[t]
        BY <2>1, <3>1 DEF TimerTypeOK
      <3>3. CmdSound(c)'
        BY <2>1, <3>1, <3>2 DEF TimerTypeOK, CmdSound, Commands
      <3>. QED  BY <2>1, <3>1, <3>2, <3>3 DEF TimerTypeOK
    <2>2. CASE u # t
      <3>1. in_flight'[u] = in_flight[u] /\ in_flight[u] \in Commands
        BY <2>2 DEF TimerTypeOK
      <3>. QED  BY <2>2, <3>1, <1>3 DEF TimerTypeOK, FlightInv
    <2>. QED  BY <2>1, <2>2
  <1>5. QueueInv'
    <2>1. ASSUME NEW e \in Commands, Queued(e)
          PROVE  Queued(e)' /\ (e.id = t => e.cmd_id < cmd_id'[t])
      <3>1. e.id \in Timers /\ e.cmd_id \in Nat /\ CmdSound(e)'
        BY <2>1, <1>3 DEF Queued, Commands
      <3>2. e.id = t => e.cmd_id < cmd_id'[t]
        BY <2>1, <3>1 DEF TimerTypeOK, Queued, CmdSound
      <3>3. e.id # t => in_flight'[e.id] = in_flight[e.id] /\ cmd_id'[e.id] = cmd_id[e.id]
        BY <3>1 DEF TimerTypeOK
      <3>. QED  BY <2>1, <3>1, <3>2, <3>3 DEF Queued
    <2>2. \A i \in 1 .. Len(cmds_to_process) :
            cmds_to_process[i].action = "start" /\ cmds_to_process[i].cmd_id = cmd_id'[cmds_to_process[i].id]
              => elapsed'[cmds_to_process[i].id] >= 1
      <3>. SUFFICES ASSUME NEW i \in 1 .. Len(cmds_to_process), cmds_to_process[i].action = "start",
                           cmds_to_process[i].cmd_id = cmd_id'[cmds_to_process[i].id]
                    PROVE  elapsed'[cmds_to_process[i].id] >= 1
        OBVIOUS
      <3>1. cmds_to_process[i] \in Commands /\ Queued(cmds_to_process[i])
        BY CommandOfQueue, QueueTypes DEF QueueInv
      <3>2. cmds_to_process[i].id # t /\ cmds_to_process[i].id \in Timers
        BY <2>1, <3>1 DEF TimerTypeOK, Commands
      <3>. QED  BY <3>1, <3>2 DEF TimerTypeOK, QueueInv
    <2>. QED  BY <2>1, <2>2, CommandOfQueue, QueueTypes DEF QueueInv, Before
  <1>6. BackInv'
    <2>1. backend[t].cmd_id \in Nat /\ cmd_id[t] \in Nat /\ cmd_id'[t] = cmd_id[t] + 1
          /\ backend[t].cmd_id <= cmd_id[t]
      BY DEF TimerTypeOK, BackInv
    <2>2. ASSUME NEW u \in Timers, u # t
          PROVE  /\ cmd_id'[u] = cmd_id[u] /\ state'[u] = state[u] /\ elapsed'[u] = elapsed[u]
                 /\ duration'[u] = duration[u] /\ Ahead(u)' = Ahead(u) /\ Needed(u)' = Needed(u)
      BY <2>2 DEF TimerTypeOK, Ahead, Needed
    <2>3. backend[t].cmd_id <= cmd_id'[t] /\ backend[t].cmd_id # cmd_id'[t]
      BY <2>1
    <2>. QED  BY <2>2, <2>3 DEF BackInv
  <1>7. DispatchInv'
    <2>1. ASSUME NEW f, f[1] \in Timers, f[2] \in Nat, Dispatched(f)
          PROVE  Dispatched(f)'
      <3>1. f[1] = t => f[2] < cmd_id'[t]
        BY <2>1 DEF TimerTypeOK, BackInv, Dispatched
      <3>2. f[1] # t => /\ cmd_id'[f[1]] = cmd_id[f[1]] /\ state'[f[1]] = state[f[1]]
                        /\ elapsed'[f[1]] = elapsed[f[1]] /\ duration'[f[1]] = duration[f[1]]
        BY <2>1 DEF TimerTypeOK
      <3>3. f[2] = cmd_id'[f[1]] => state'[f[1]] = "running" /\ elapsed'[f[1]] >= Needed(f[1])'
        BY <2>1, <3>1, <3>2 DEF Dispatched, Needed
      <3>. QED  BY <2>1, <3>3 DEF Dispatched
    <2>. QED  BY <2>1, TimeoutOfQueue, QueueTypes, ZenonT(40) DEF DispatchInv
  <1>. QED  BY <1>1, <1>2, <1>4, <1>5, <1>6, <1>7

\* A front-end is handed out: no destroy command of its former owner is under way.
LEMMA CreateKeepsInv ==
    ASSUME TimerInv, NEW t \in Timers, Create(t)
    PROVE  TimerInv'
  <1>. DEFINE creation == [id |-> t, action |-> "create"]
  <1>. USE DEF TimerInv, Create, back_vars
  <1>1. creation \in Events /\ creation.action = "create"
    BY DEF Events, Creations
  <1>. HIDE DEF creation
  <1>2. pending_cmds' = pending_cmds \/ pending_cmds' = Append(pending_cmds, creation)
    BY DEF creation
  <1>3. TimerTypeOK'
    <2>1. pending_cmds \in Seq(Events)
      BY DEF TimerTypeOK
    <2>2. pending_cmds' \in Seq(Events)
      BY <1>1, <1>2, <2>1
    <2>. QED  BY <2>2 DEF TimerTypeOK
  <1>4. ~exec[t]
    BY DEF OwnerInv, TimerTypeOK, Reused
  <1>5. OwnerInv'
    BY <1>4 DEF OwnerInv, TimerTypeOK
  <1>6. ASSUME NEW e \in Commands, CmdSound(e)
        PROVE  CmdSound(e)'
    BY <1>6, <1>4 DEF CmdSound, TimerTypeOK, Commands
  <1>7. FlightInv'
    BY <1>6 DEF FlightInv, TimerTypeOK
  <1>8. QueueInv'
    <2>1. ASSUME NEW i \in 1 .. Len(pending_cmds')
          PROVE  \/ i \in 1 .. Len(pending_cmds) /\ pending_cmds'[i] = pending_cmds[i]
                 \/ pending_cmds'[i] = creation
      <3>1. pending_cmds \in Seq(Events)
        BY DEF TimerTypeOK
      <3>. QED  BY <1>1, <1>2, <3>1
    <2>2. ASSUME NEW e \in Commands, Queued(e)
          PROVE  Queued(e)'
      BY <2>2, <1>6 DEF Queued
    <2>3. \A i \in 1 .. Len(pending_cmds') : pending_cmds'[i].action # "create" => Queued(pending_cmds[i])'
      BY <2>1, <2>2, <1>1, CommandOfQueue, QueueTypes DEF QueueInv
    <2>4. \A i \in 1 .. Len(cmds_to_process) :
            cmds_to_process[i].action # "create" => Queued(cmds_to_process[i])'
      BY <2>2, CommandOfQueue, QueueTypes DEF QueueInv
    <2>5. \A i, j \in 1 .. Len(pending_cmds') : i < j => Before(pending_cmds'[i], pending_cmds'[j])
      BY <2>1, <1>1 DEF QueueInv, Before
    <2>6. \A i \in 1 .. Len(cmds_to_process), j \in 1 .. Len(pending_cmds') :
            Before(cmds_to_process[i], pending_cmds'[j])
      BY <2>1, <1>1 DEF QueueInv, Before
    <2>. QED  BY <2>3, <2>4, <2>5, <2>6 DEF QueueInv, Before
  <1>9. BackInv' /\ DispatchInv'
    BY DEF BackInv, DispatchInv, Dispatched, Ahead, Needed
  <1>. QED  BY <1>3, <1>5, <1>7, <1>8, <1>9

\* A command in flight is pushed.  Nothing else of the timer is as recent.
LEMMA PushKeepsInv ==
    ASSUME TimerInv, NEW t \in Timers, PushTimerCommand(t)
    PROVE  TimerInv'
  <1>. USE DEF TimerInv, PushTimerCommand, back_vars
  <1>1. PICK c \in Commands :
          /\ c = in_flight[t] /\ c \in Events /\ c.id = t /\ c.cmd_id = cmd_id[t] /\ CmdSound(c)
          /\ backend[t].cmd_id < cmd_id[t]
    BY DEF TimerTypeOK, FlightInv, Events
  <1>2. pending_cmds' = Append(pending_cmds, c)
    BY <1>1
  <1>3. TimerTypeOK'
    <2>1. pending_cmds \in Seq(Events)
      BY DEF TimerTypeOK
    <2>2. pending_cmds' \in Seq(Events)
      BY <1>1, <1>2, <2>1
    <2>3. elapsed' \in [Timers -> 0 .. MaxDuration]
      BY TimerAssumption DEF TimerTypeOK
    <2>. QED  BY <2>2, <2>3 DEF TimerTypeOK
  <1>4. OwnerInv'
    BY DEF OwnerInv
  <1>5. ASSUME NEW e \in Commands, CmdSound(e)
        PROVE  CmdSound(e)'
    BY <1>5 DEF CmdSound
  <1>6. FlightInv'
    BY <1>5 DEF FlightInv, TimerTypeOK
  <1>7. QueueInv'
    <2>1. ASSUME NEW i \in 1 .. Len(pending_cmds')
          PROVE  \/ i \in 1 .. Len(pending_cmds) /\ pending_cmds'[i] = pending_cmds[i]
                 \/ i = Len(pending_cmds') /\ pending_cmds'[i] = c
      BY <1>1, <1>2, AppendElements DEF TimerTypeOK
    <2>2. ASSUME NEW e \in Commands, Queued(e)
          PROVE  Queued(e)' /\ Before(e, c) /\ (e.id = t => e.cmd_id < cmd_id[t])
      <3>1. e.id \in Timers /\ (e.id = t => e.cmd_id < cmd_id[t])
        BY <2>2 DEF Queued, Commands
      <3>2. Queued(e)'
        BY <2>2, <3>1, <1>5 DEF Queued, TimerTypeOK
      <3>. QED  BY <3>1, <3>2, <1>1 DEF Before
    <2>3. Queued(c)'
      <3>1. in_flight'[t] = None
        BY DEF TimerTypeOK
      <3>. QED  BY <1>1, <1>5, <3>1 DEF Queued
    <2>4. \A i \in 1 .. Len(pending_cmds') : pending_cmds'[i].action # "create" => Queued(pending_cmds[i])'
      <3>1. \A i \in 1 .. Len(pending_cmds) : pending_cmds[i].action # "create" => pending_cmds[i] \in Commands
        BY CommandOfQueue, QueueTypes
      <3>. QED  BY <2>1, <2>2, <2>3, <3>1 DEF QueueInv
    <2>5. \A i \in 1 .. Len(cmds_to_process) :
            cmds_to_process[i].action # "create" => Queued(cmds_to_process[i])'
      BY <2>2, CommandOfQueue, QueueTypes DEF QueueInv
    <2>6. \A i, j \in 1 .. Len(pending_cmds') : i < j => Before(pending_cmds'[i], pending_cmds'[j])
      <3>1. \A i \in 1 .. Len(pending_cmds) : Before(pending_cmds[i], c)
        BY <2>2, CommandOfQueue, QueueTypes DEF QueueInv, Before
      <3>. QED  BY <2>1, <3>1 DEF QueueInv
    <2>7. \A i \in 1 .. Len(cmds_to_process), j \in 1 .. Len(pending_cmds') :
            Before(cmds_to_process[i], pending_cmds'[j])
      <3>1. \A i \in 1 .. Len(cmds_to_process) : Before(cmds_to_process[i], c)
        BY <2>2, CommandOfQueue, QueueTypes DEF QueueInv, Before
      <3>. QED  BY <2>1, <3>1, ZenonT(40) DEF QueueInv
    <2>8. \A i \in 1 .. Len(cmds_to_process) :
            cmds_to_process[i].action = "start" /\ cmds_to_process[i].cmd_id = cmd_id[cmds_to_process[i].id]
              => elapsed'[cmds_to_process[i].id] >= 1
      <3>. SUFFICES ASSUME NEW i \in 1 .. Len(cmds_to_process), cmds_to_process[i].action = "start",
                           cmds_to_process[i].cmd_id = cmd_id[cmds_to_process[i].id]
                    PROVE  elapsed'[cmds_to_process[i].id] >= 1
        OBVIOUS
      <3>1. cmds_to_process[i] \in Commands /\ Queued(cmds_to_process[i])
        BY CommandOfQueue, QueueTypes DEF QueueInv
      <3>2. cmds_to_process[i].id \in Timers /\ cmds_to_process[i].cmd_id \in Nat
        BY <3>1 DEF Commands
      <3>3. cmds_to_process[i].id # t
        BY <2>2, <3>1, <3>2
      <3>. QED  BY <3>2, <3>3 DEF TimerTypeOK, QueueInv
    <2>. QED  BY <2>4, <2>5, <2>6, <2>7, <2>8 DEF QueueInv, Before
  <1>8. BackInv'
    <2>1. backend[t].cmd_id # cmd_id[t]
      BY <1>1 DEF TimerTypeOK
    <2>2. \A u \in Timers : /\ Ahead(u)' = Ahead(u) /\ Needed(u)' = Needed(u)
                            /\ u # t => elapsed'[u] = elapsed[u]
      BY DEF Ahead, Needed, TimerTypeOK
    <2>. QED  BY <2>1, <2>2 DEF BackInv
  <1>9. DispatchInv'
    <2>1. ASSUME NEW f, f[1] \in Timers, f[2] \in Nat, Dispatched(f)
          PROVE  Dispatched(f)'
      <3>1. f[1] = t => f[2] < cmd_id[t]
        BY <2>1, <1>1 DEF TimerTypeOK, Dispatched
      <3>2. f[1] # t => elapsed'[f[1]] = elapsed[f[1]]
        BY <2>1 DEF TimerTypeOK
      <3>3. f[2] = cmd_id[f[1]] => elapsed'[f[1]] = elapsed[f[1]]
        BY <2>1, <3>1, <3>2
      <3>. QED  BY <2>1, <3>3 DEF Dispatched, Needed
    <2>. QED  BY <2>1, TimeoutOfQueue, QueueTypes, ZenonT(40) DEF DispatchInv
  <1>. QED  BY <1>3, <1>4, <1>6, <1>7, <1>8, <1>9

\* A dispatched timeout that is current was the only thing under way for its timer.
LEMMA TimeoutKeepsInv ==
    ASSUME TimerInv, RunTimeout
    PROVE  TimerInv'
  <1>. USE DEF TimerInv, RunTimeout, back_vars, Current
  <1>1. PICK f \in Timeouts :
          /\ f = tasks[1] /\ f = Head(tasks) /\ f[1] \in Timers /\ f[2] \in Nat /\ Dispatched(f)
    <2>1. tasks \in Seq(Timeouts) /\ tasks # <<>>
      BY DEF TimerTypeOK
    <2>2. Head(tasks) = tasks[1] /\ 1 \in 1 .. Len(tasks) /\ Head(tasks) \in Timeouts
      BY <2>1, TailElements
    <2>3. Dispatched(Head(tasks))
      BY <2>2 DEF DispatchInv
    <2>. QED  BY <2>2, <2>3, ZenonT(40) DEF Timeouts
  <1>2. tasks' \in Seq(Timeouts)
        /\ \A i \in 1 .. Len(tasks') : i + 1 \in 1 .. Len(tasks) /\ tasks'[i] = tasks[i + 1] /\ tasks'[i] # f
    <2>1. tasks \in Seq(Timeouts) /\ tasks # <<>> /\ tasks' = Tail(tasks)
      BY DEF TimerTypeOK
    <2>2. tasks' \in Seq(Timeouts)
          /\ \A i \in 1 .. Len(tasks') : i + 1 \in 1 .. Len(tasks) /\ tasks'[i] = tasks[i + 1] /\ 1 \in 1 .. Len(tasks)
      BY <2>1, TailElements
    <2>3. ASSUME NEW i \in 1 .. Len(tasks')
          PROVE  tasks'[i] # f
      BY <2>2, <1>1 DEF DispatchInv
    <2>. QED  BY <2>2, <2>3
  <1>3. /\ \A i, j \in 1 .. Len(tasks') : i # j => tasks'[i] # tasks'[j]
        /\ \A i \in 1 .. Len(failed_to_trigger_timers), j \in 1 .. Len(tasks') :
             failed_to_trigger_timers[i] # tasks'[j]
    BY <1>2 DEF DispatchInv
  <1>4. CASE f[2] # cmd_id[f[1]]
    <2>1. state' = state
      BY <1>1, <1>4
    <2>2. TimerTypeOK' /\ OwnerInv'
      BY <1>2, <2>1, ZenonT(40) DEF TimerTypeOK, OwnerInv
    <2>3. FlightInv' /\ BackInv'
      <3>1. FlightInv'
        BY <2>1 DEF FlightInv, CmdSound
      <3>2. BackInv'
        BY <2>1 DEF BackInv, Ahead, Needed
      <3>. QED  BY <3>1, <3>2
    <2>8. QueueInv'
      <3>1. \A e : Queued(e) => Queued(e)'
        BY <2>1 DEF Queued, CmdSound
      <3>2. /\ \A i \in 1 .. Len(pending_cmds) : pending_cmds[i].action # "create" => Queued(pending_cmds[i])'
            /\ \A i \in 1 .. Len(cmds_to_process) :
                 cmds_to_process[i].action # "create" => Queued(cmds_to_process[i])'
        BY <3>1 DEF QueueInv
      <3>. QED  BY <3>2 DEF QueueInv, Before
    <2>4. ASSUME NEW g, Dispatched(g)
          PROVE  Dispatched(g)'
      BY <2>1, <2>4 DEF Dispatched, Needed
    <2>5. \A i \in 1 .. Len(tasks') : Dispatched(tasks[i])'
      BY <1>2, <2>4 DEF DispatchInv
    <2>6. \A i \in 1 .. Len(failed_to_trigger_timers) : Dispatched(failed_to_trigger_timers[i])'
      BY <2>4 DEF DispatchInv
    <2>7. DispatchInv'
      BY <1>3, <2>5, <2>6 DEF DispatchInv
    <2>. QED  BY <2>2, <2>3, <2>7, <2>8
  <1>5. CASE f[2] = cmd_id[f[1]]
    <2>1. PICK t \in Timers : t = f[1] /\ in_flight[t] = None /\ f[2] = cmd_id[t]
      BY <1>1, <1>5
    <2>2. state' = [state EXCEPT ![t] = "expired"]
      BY <1>1, <1>5, <2>1
    <2>3. backend[t].cmd_id = cmd_id[t] /\ backend[t].state = "expired"
      BY <1>1, <2>1 DEF Dispatched, BackInv, TimerTypeOK
    <2>4. ASSUME NEW e \in Commands, CmdSound(e), e.id # t
          PROVE  CmdSound(e)'
      BY <2>2, <2>4, ZenonT(40) DEF CmdSound, TimerTypeOK, Commands
    <2>5. TimerTypeOK' /\ OwnerInv'
      BY <1>2, <2>2, ZenonT(40) DEF TimerTypeOK, OwnerInv
    <2>6. FlightInv'
      BY <2>1, <2>4, ZenonT(40) DEF FlightInv, TimerTypeOK
    <2>7. QueueInv'
      <3>1. ASSUME NEW e \in Commands, Queued(e)
            PROVE  Queued(e)'
        <4>1. e.id # t
          BY <3>1, <2>3 DEF Queued, CmdSound, TimerTypeOK, Commands
        <4>. QED  BY <3>1, <4>1, <2>4 DEF Queued
      <3>2. \A i \in 1 .. Len(pending_cmds) : pending_cmds[i].action # "create" => Queued(pending_cmds[i])'
        BY <3>1, CommandOfQueue, QueueTypes DEF QueueInv
      <3>3. \A i \in 1 .. Len(cmds_to_process) :
              cmds_to_process[i].action # "create" => Queued(cmds_to_process[i])'
        BY <3>1, CommandOfQueue, QueueTypes DEF QueueInv
      <3>. QED  BY <3>2, <3>3, ZenonT(40) DEF QueueInv, Before
    <2>8. BackInv'
      BY <2>2, <2>3, ZenonT(40) DEF BackInv, TimerTypeOK, Ahead, Needed
    <2>9. DispatchInv'
      <3>1. ASSUME NEW g \in Timeouts, Dispatched(g), g # f
            PROVE  Dispatched(g)'
        <4>1. g[1] \in Timers /\ ~(g[1] = t /\ g[2] = cmd_id[t])
          BY <3>1, <2>1 DEF Timeouts
        <4>2. g[1] # t => state'[g[1]] = state[g[1]]
          BY <4>1, <2>2, ZenonT(40) DEF TimerTypeOK
        <4>. QED  BY <3>1, <4>1, <4>2 DEF Dispatched, Needed
      <3>2. \A i \in 1 .. Len(failed_to_trigger_timers) :
              failed_to_trigger_timers[i] \in Timeouts /\ failed_to_trigger_timers[i] # f
        <4>1. 1 \in 1 .. Len(tasks)
          BY TailElements DEF TimerTypeOK
        <4>. QED  BY <4>1, <1>1 DEF TimerTypeOK, DispatchInv
      <3>3. \A i \in 1 .. Len(failed_to_trigger_timers) : Dispatched(failed_to_trigger_timers[i])'
        BY <3>1, <3>2 DEF DispatchInv
      <3>4. \A i \in 1 .. Len(tasks') : Dispatched(tasks[i])'
        BY <3>1, <1>2 DEF DispatchInv
      <3>. QED  BY <3>3, <3>4, <1>3 DEF DispatchInv
    <2>. QED  BY <2>5, <2>6, <2>7, <2>8, <2>9
  <1>. QED  BY <1>4, <1>5

\* A tick begins: the commands move on, and no count of ticks goes down.
LEMMA BeginTickKeepsInv ==
    ASSUME TimerInv, BeginTick
    PROVE  TimerInv'
  <1>. USE DEF TimerInv, BeginTick, front_vars
  <1>1. \A u \in Timers : /\ elapsed[u] \in 0 .. MaxDuration /\ elapsed'[u] \in 1 .. MaxDuration
                            /\ elapsed'[u] = (IF elapsed[u] < MaxDuration THEN elapsed[u] + 1 ELSE MaxDuration)
    BY TimerAssumption DEF TimerTypeOK
  <1>2. TimerTypeOK'
    BY <1>1, TimerAssumption DEF TimerTypeOK
  <1>3. OwnerInv' /\ FlightInv'
    BY DEF OwnerInv, FlightInv, CmdSound
  <1>4. QueueInv'
    <2>1. Len(pending_cmds') = 0 /\ cmds_to_process' = pending_cmds
      OBVIOUS
    <2>2. \A i \in 1 .. Len(pending_cmds) : elapsed'[pending_cmds[i].id] >= 1
      BY <1>1, CommandOfQueue, QueueTypes
    <2>3. \A e : Queued(e) => Queued(e)'
      BY DEF Queued, CmdSound
    <2>4. \A i \in 1 .. Len(pending_cmds) : pending_cmds[i].action # "create" => Queued(cmds_to_process[i])'
      BY <2>1, <2>3 DEF QueueInv
    <2>. QED  BY <2>1, <2>2, <2>4 DEF QueueInv, Before
  <1>5. BackInv'
    <2>1. ASSUME NEW u \in Timers, backend[u].state = "running", backend[u].cmd_id = cmd_id[u]
          PROVE  elapsed'[u] + Ahead(u) >= Needed(u) + 1
      <3>1. duration[u] \in 0 .. MaxDuration
        BY <2>1, TimerAssumption DEF BackInv, TimerTypeOK, INVALID_DURATION
      <3>2. Needed(u) \in 1 .. MaxDuration
        BY <3>1, TimerAssumption DEF Needed, Contract!AtLeastOne
      <3>3. Ahead(u) \in Int /\ Ahead(u) >= 1 /\ elapsed[u] + Ahead(u) >= Needed(u)
        BY <2>1, AheadType DEF BackInv
      <3>. QED  BY <3>2, <3>3, <1>1, TimerAssumption
    <2>2. \A u \in Timers : elapsed'[u] + Ahead(u) >= Needed(u) + 1 => elapsed'[u] + Ahead(u) >= Needed(u)
      <3>. SUFFICES ASSUME NEW u \in Timers
                    PROVE  elapsed'[u] + Ahead(u) >= Needed(u) + 1 => elapsed'[u] + Ahead(u) >= Needed(u)
        OBVIOUS
      <3>1. Ahead(u) \in Int /\ Needed(u) \in Nat /\ elapsed'[u] \in Nat
        BY <1>1, AheadType, TimerAssumption
      <3>. QED  BY <3>1
    <2>3. \A u \in Timers : Ahead(u)' = Ahead(u) /\ Needed(u)' = Needed(u)
      BY DEF Ahead, Needed
    <2>. QED  BY <2>1, <2>2, <2>3 DEF BackInv
  <1>6. DispatchInv'
    <2>1. ASSUME NEW g \in Timeouts, Dispatched(g)
          PROVE  Dispatched(g)'
      <3>1. g[1] \in Timers /\ Needed(g[1]) \in Nat
        BY AheadType DEF Timeouts
      <3>2. elapsed'[g[1]] >= elapsed[g[1]] /\ elapsed'[g[1]] \in Nat /\ elapsed[g[1]] \in Nat
        BY <3>1, <1>1, TimerAssumption
      <3>. QED  BY <2>1, <3>1, <3>2 DEF Dispatched, Needed
    <2>. QED  BY <2>1 DEF DispatchInv, TimerTypeOK
  <1>. QED  BY <1>2, <1>3, <1>4, <1>5, <1>6

\* The rest of a tick leaves the front-ends and the commands alone.
LEMMA RestOfTick ==
    ASSUME TimerInv, cmds_to_process = <<>>,
           UNCHANGED <<front_vars, pending_cmds, cmds_to_process, free_list, elapsed>>,
           \A u \in Timers : backend'[u].cmd_id = backend[u].cmd_id
    PROVE  OwnerInv' /\ FlightInv' /\ QueueInv'
  <1>. USE DEF TimerInv, front_vars
  <1>1. OwnerInv' /\ FlightInv'
    BY DEF OwnerInv, FlightInv, CmdSound
  <1>2. \A i \in 1 .. Len(pending_cmds) : pending_cmds[i].action # "create" => Queued(pending_cmds[i])'
    <2>1. ASSUME NEW e \in Commands, Queued(e)
          PROVE  Queued(e)'
      BY <2>1 DEF Queued, CmdSound, Commands
    <2>. QED  BY <2>1, CommandOfQueue, QueueTypes DEF QueueInv
  <1>3. QueueInv'
    BY <1>2 DEF QueueInv, Before
  <1>. QED  BY <1>1, <1>3

\* Postponed timeouts are tried again: each moves to the executor or is dropped.
LEMMA PostponedKeepsInv ==
    ASSUME TimerInv, HandlePostponed
    PROVE  TimerInv'
  <1>. USE DEF TimerInv, HandlePostponed
  <1>1. OwnerInv' /\ FlightInv' /\ QueueInv'
    BY RestOfTick
  <1>2. BackInv'
    BY DEF BackInv, Ahead, Needed, front_vars
  <1>3. PICK f \in Timeouts :
          /\ f = failed_to_trigger_timers[1] /\ f = Head(failed_to_trigger_timers)
          /\ 1 \in 1 .. Len(failed_to_trigger_timers) /\ Dispatched(f)
    <2>1. failed_to_trigger_timers \in Seq(Timeouts) /\ failed_to_trigger_timers # <<>>
      BY DEF TimerTypeOK
    <2>2. /\ Head(failed_to_trigger_timers) = failed_to_trigger_timers[1]
          /\ 1 \in 1 .. Len(failed_to_trigger_timers) /\ Head(failed_to_trigger_timers) \in Timeouts
      BY <2>1, TailElements
    <2>. QED  BY <2>2 DEF DispatchInv
  <1>4. /\ failed_to_trigger_timers' \in Seq(Timeouts)
        /\ \A i \in 1 .. Len(failed_to_trigger_timers') :
             /\ i + 1 \in 1 .. Len(failed_to_trigger_timers)
             /\ failed_to_trigger_timers'[i] = failed_to_trigger_timers[i + 1]
    <2>1. /\ failed_to_trigger_timers \in Seq(Timeouts) /\ failed_to_trigger_timers # <<>>
          /\ failed_to_trigger_timers' = Tail(failed_to_trigger_timers)
      BY DEF TimerTypeOK
    <2>. QED  BY <2>1, TailElements
  <1>5. \A i \in 1 .. Len(failed_to_trigger_timers') : failed_to_trigger_timers'[i] # f
    BY <1>3, <1>4 DEF DispatchInv
  <1>6. /\ tasks' \in Seq(Timeouts)
        /\ \A i \in 1 .. Len(tasks') :
             \/ i \in 1 .. Len(tasks) /\ tasks'[i] = tasks[i]
             \/ i = Len(tasks) + 1 /\ tasks'[i] = f
    <2>1. tasks \in Seq(Timeouts) /\ (tasks' = tasks \/ tasks' = Append(tasks, f))
      BY <1>3 DEF TimerTypeOK
    <2>2. CASE tasks' = tasks
      BY <2>1, <2>2
    <2>3. CASE tasks' = Append(tasks, f)
      BY <2>1, <2>3, AppendElements
    <2>. QED  BY <2>1, <2>2, <2>3
  <1>7. TimerTypeOK'
    BY <1>4, <1>6 DEF TimerTypeOK, front_vars
  <1>8. DispatchInv'
    <2>1. ASSUME NEW g, Dispatched(g)
          PROVE  Dispatched(g)'
      BY <2>1, ZenonT(40) DEF Dispatched, Needed, front_vars
    <2>2. /\ \A i \in 1 .. Len(failed_to_trigger_timers') : Dispatched(failed_to_trigger_timers[i])'
          /\ \A i \in 1 .. Len(tasks') : Dispatched(tasks[i])'
      BY <1>3, <1>4, <1>6, <2>1, ZenonT(40) DEF DispatchInv
    <2>3. \A i, j \in 1 .. Len(failed_to_trigger_timers') :
            i # j => failed_to_trigger_timers'[i] # failed_to_trigger_timers'[j]
      BY <1>4 DEF DispatchInv
    <2>4. \A i \in 1 .. Len(tasks) : tasks[i] # f
      BY <1>3 DEF DispatchInv
    <2>5. \A i, j \in 1 .. Len(tasks') : i # j => tasks'[i] # tasks'[j]
      BY <1>6, <2>4 DEF DispatchInv
    <2>6. \A i \in 1 .. Len(failed_to_trigger_timers'), j \in 1 .. Len(tasks') :
            failed_to_trigger_timers'[i] # tasks'[j]
      BY <1>4, <1>5, <1>6 DEF DispatchInv
    <2>. QED  BY <2>2, <2>3, <2>5, <2>6 DEF DispatchInv
  <1>. QED  BY <1>1, <1>2, <1>7, <1>8

\* The sum of a time and a duration wraps at most once.
LEMMA WrapOnce ==
    ASSUME NEW a \in Nat, a < 2 * TimeMod
    PROVE  a % TimeMod = IF a < TimeMod THEN a ELSE a - TimeMod
  BY TimerAssumption

\* The time advances: every armed back-end is one tick nearer to its timeout.
LEMMA AdvanceKeepsInv ==
    ASSUME TimerInv, AdvanceTime
    PROVE  TimerInv'
  <1>. USE DEF TimerInv
  <1>0. /\ UNCHANGED <<front_vars, timer_list, backend, failed_to_trigger_timers, pending_cmds,
                       cmds_to_process, free_list, tasks, elapsed>>
        /\ tick = "commands" /\ tick' = "wheel" /\ cmds_to_process = <<>>
        /\ cur_time' = (cur_time + 1) % TimeMod
    BY DEF AdvanceTime
  <1>1. OwnerInv' /\ FlightInv' /\ QueueInv'
    BY <1>0, RestOfTick
  <1>2. /\ cur_time \in 0 .. TimeMod - 1 /\ cur_time' \in 0 .. TimeMod - 1
        /\ cur_time' = IF cur_time + 1 < TimeMod THEN cur_time + 1 ELSE 0
    <2>1. cur_time \in 0 .. TimeMod - 1
      BY DEF TimerTypeOK
    <2>2. PICK a \in Nat : a = cur_time + 1 /\ a < 2 * TimeMod
      BY <2>1, TimerAssumption
    <2>3. cur_time' = a % TimeMod
      BY <2>2, <1>0
    <2>4. cur_time' = IF a < TimeMod THEN a ELSE a - TimeMod
      BY <2>2, <2>3, WrapOnce
    <2>. QED  BY <2>1, <2>2, <2>4, TimerAssumption
  <1>3. TimerTypeOK'
    BY <1>0, <1>2 DEF TimerTypeOK, front_vars
  <1>4. ASSUME NEW u \in Timers, Ahead(u) >= 1
        PROVE  Ahead(u)' = Ahead(u) - 1
    <2>1. backend[u].timeout \in 0 .. TimeMod - 1 /\ backend'[u] = backend[u]
      BY <1>0 DEF TimerTypeOK
    <2>. QED  BY <1>2, <1>4, <2>1, TimerAssumption DEF Ahead
  <1>5. BackInv'
    <2>. SUFFICES ASSUME NEW u \in Timers, backend[u].state = "running", backend[u].cmd_id = cmd_id[u]
                  PROVE  elapsed[u] + Ahead(u)' >= Needed(u)
      BY <1>0 DEF BackInv, Needed, front_vars
    <2>1. Ahead(u) >= 1 /\ elapsed[u] + Ahead(u) >= Needed(u) + 1
      BY <1>0, ZenonT(40) DEF BackInv
    <2>2. Ahead(u) \in Int /\ Needed(u) \in Nat /\ elapsed[u] \in Nat
      <3>1. elapsed[u] \in 0 .. MaxDuration
        BY DEF TimerTypeOK
      <3>. QED  BY <3>1, AheadType, TimerAssumption
    <2>. QED  BY <2>1, <2>2, <1>4
  <1>6. DispatchInv'
    BY <1>0, ZenonT(40) DEF DispatchInv, Dispatched, Needed, front_vars
  <1>. QED  BY <1>1, <1>3, <1>5, <1>6

\* A back-end that times out ran for the ticks needed, and its timeout is a new one.
LEMMA ExpireKeepsInv ==
    ASSUME TimerInv, NEW t \in Timers, ExpireBackend(t)
    PROVE  TimerInv'
  <1>. USE DEF TimerInv
  <1>1. PICK f \in Timeouts : f = <<t, backend[t].cmd_id>> /\ f[1] = t /\ f[2] = backend[t].cmd_id
    <2>1. backend[t].cmd_id \in Nat
      BY DEF TimerTypeOK
    <2>2. <<t, backend[t].cmd_id>> \in Timeouts
      BY <2>1 DEF Timeouts
    <2>. QED  BY <2>2
  <1>2. /\ UNCHANGED <<front_vars, timer_list, cur_time, tick, pending_cmds, cmds_to_process, free_list, elapsed>>
        /\ tick = "wheel" /\ cmds_to_process = <<>>
        /\ backend[t].state = "running" /\ backend[t].timeout = cur_time
        /\ backend' = [backend EXCEPT ![t].state = "expired"]
    BY DEF ExpireBackend, TimesOut, QueueInv
  <1>3. \/ tasks' = Append(tasks, f) /\ UNCHANGED failed_to_trigger_timers /\ backend[t].cmd_id = cmd_id[t]
        \/ failed_to_trigger_timers' = Append(failed_to_trigger_timers, f) /\ UNCHANGED tasks
           /\ backend[t].cmd_id = cmd_id[t]
        \/ UNCHANGED <<tasks, failed_to_trigger_timers>>
    BY <1>1 DEF ExpireBackend, Postponed
  <1>4. \A u \in Timers : /\ backend'[u].cmd_id = backend[u].cmd_id /\ backend'[u].timeout = backend[u].timeout
                          /\ backend'[u].state = IF u = t THEN "expired" ELSE backend[u].state
    BY <1>2 DEF TimerTypeOK
  <1>5. OwnerInv' /\ FlightInv' /\ QueueInv'
    BY <1>2, <1>4, RestOfTick
  <1>6. BackInv'
    BY <1>2, <1>4 DEF BackInv, Ahead, Needed, front_vars
  <1>7. \A g \in Timeouts : Dispatched(g) => g # f /\ Dispatched(g)'
    <2>. SUFFICES ASSUME NEW g \in Timeouts, Dispatched(g)
                  PROVE  g # f /\ Dispatched(g)'
      OBVIOUS
    <2>1. g[1] \in Timers /\ g # f
      BY <1>1, <1>2 DEF Timeouts, Dispatched
    <2>. QED  BY <2>1, <1>2, <1>4 DEF Dispatched, Needed, front_vars
  <1>8. backend[t].cmd_id = cmd_id[t] => Dispatched(f)'
    <2>. SUFFICES ASSUME backend[t].cmd_id = cmd_id[t]
                  PROVE  Dispatched(f)'
      OBVIOUS
    <2>1. state[t] = "running" /\ elapsed[t] + Ahead(t) >= Needed(t)
      BY <1>2 DEF BackInv
    <2>2. Ahead(t) = 0
      BY <1>2 DEF Ahead, TimerTypeOK
    <2>3. elapsed[t] >= Needed(t)
      <3>1. elapsed[t] \in 0 .. MaxDuration
        BY DEF TimerTypeOK
      <3>. QED  BY <2>1, <2>2, <3>1, TimerAssumption
    <2>4. backend[t].cmd_id \in Nat
      BY DEF TimerTypeOK
    <2>. QED  BY <1>1, <1>2, <1>4, <2>1, <2>3, <2>4 DEF Dispatched, Needed, front_vars
  <1>9. TimerTypeOK' /\ DispatchInv'
    <2>1. tasks \in Seq(Timeouts) /\ failed_to_trigger_timers \in Seq(Timeouts)
      BY DEF TimerTypeOK
    <2>2. backend' \in [Timers -> [cmd_id : Nat, state : {"stopped", "running", "expired"}, timeout : 0 .. TimeMod - 1]]
      BY <1>2, ZenonT(40) DEF TimerTypeOK
    <2>3. \A i \in 1 .. Len(tasks) : tasks[i] \in Timeouts /\ tasks[i] # f /\ Dispatched(tasks[i])
      <3>1. \A i \in 1 .. Len(tasks) : tasks[i] \in Timeouts /\ Dispatched(tasks[i])
        BY <2>1 DEF DispatchInv
      <3>. QED  BY <3>1, <1>7
    <2>4. \A i \in 1 .. Len(failed_to_trigger_timers) :
            /\ failed_to_trigger_timers[i] \in Timeouts /\ failed_to_trigger_timers[i] # f
            /\ Dispatched(failed_to_trigger_timers[i])
      <3>1. \A i \in 1 .. Len(failed_to_trigger_timers) :
              failed_to_trigger_timers[i] \in Timeouts /\ Dispatched(failed_to_trigger_timers[i])
        BY <2>1 DEF DispatchInv
      <3>. QED  BY <3>1, <1>7
    <2>5. CASE UNCHANGED <<tasks, failed_to_trigger_timers>>
      <3>1. TimerTypeOK'
        BY <1>2, <2>2, <2>5 DEF TimerTypeOK, front_vars
      <3>. QED  BY <3>1, <2>3, <2>4, <2>5, <1>7 DEF DispatchInv
    <2>6. CASE tasks' = Append(tasks, f) /\ UNCHANGED failed_to_trigger_timers /\ backend[t].cmd_id = cmd_id[t]
      <3>1. /\ tasks' \in Seq(Timeouts)
            /\ \A i \in 1 .. Len(tasks') :
                 \/ i \in 1 .. Len(tasks) /\ tasks'[i] = tasks[i]
                 \/ i = Len(tasks) + 1 /\ tasks'[i] = f
        <4>1. /\ tasks' \in Seq(Timeouts) /\ Len(tasks') = Len(tasks) + 1 /\ Len(tasks) \in Nat
              /\ \A i \in 1 .. Len(tasks) : tasks'[i] = tasks[i]
              /\ tasks'[Len(tasks) + 1] = f
          BY <2>1, <2>6, AppendElements
        <4>. QED  BY <4>1
      <3>2. TimerTypeOK'
        BY <1>2, <2>2, <2>6, <3>1 DEF TimerTypeOK, front_vars
      <3>3. \A i \in 1 .. Len(tasks') : Dispatched(tasks[i])'
        BY <3>1, <2>3, <2>6, <1>7, <1>8
      <3>4. /\ \A i, j \in 1 .. Len(tasks') : i # j => tasks'[i] # tasks'[j]
            /\ \A i \in 1 .. Len(failed_to_trigger_timers), j \in 1 .. Len(tasks') :
                 failed_to_trigger_timers[i] # tasks'[j]
        BY <3>1, <2>3, <2>4 DEF DispatchInv
      <3>. QED  BY <3>2, <3>3, <3>4, <2>4, <2>6, <1>7 DEF DispatchInv
    <2>7. CASE failed_to_trigger_timers' = Append(failed_to_trigger_timers, f) /\ UNCHANGED tasks
               /\ backend[t].cmd_id = cmd_id[t]
      <3>1. failed_to_trigger_timers' \in Seq(Timeouts)
            /\ \A i \in 1 .. Len(failed_to_trigger_timers') :
                 \/ i \in 1 .. Len(failed_to_trigger_timers)
                    /\ failed_to_trigger_timers'[i] = failed_to_trigger_timers[i]
                 \/ i = Len(failed_to_trigger_timers) + 1 /\ failed_to_trigger_timers'[i] = f
        BY <2>1, <2>7, AppendElements
      <3>2. TimerTypeOK'
        BY <1>2, <2>2, <2>7, <3>1 DEF TimerTypeOK, front_vars
      <3>3. \A i \in 1 .. Len(failed_to_trigger_timers') : Dispatched(failed_to_trigger_timers[i])'
        BY <3>1, <2>4, <2>7, <1>7, <1>8
      <3>4. /\ \A i, j \in 1 .. Len(failed_to_trigger_timers') :
                 i # j => failed_to_trigger_timers'[i] # failed_to_trigger_timers'[j]
            /\ \A i \in 1 .. Len(failed_to_trigger_timers'), j \in 1 .. Len(tasks) :
                 failed_to_trigger_timers'[i] # tasks[j]
        BY <3>1, <2>3, <2>4, ZenonT(40) DEF DispatchInv
      <3>. QED  BY <3>2, <3>3, <3>4, <2>3, <2>7, <1>7 DEF DispatchInv
    <2>. QED  BY <1>3, <2>5, <2>6, <2>7
  <1>. QED  BY <1>5, <1>6, <1>9

\* A tick ends when no armed back-end is left at its timeout.
LEMMA EndTickKeepsInv ==
    ASSUME TimerInv, EndTick
    PROVE  TimerInv'
  <1>. USE DEF TimerInv, EndTick
  <1>1. OwnerInv' /\ FlightInv' /\ QueueInv'
    <2>1. cmds_to_process = <<>>
      BY DEF QueueInv
    <2>. QED  BY <2>1, RestOfTick
  <1>2. TimerTypeOK'
    BY DEF TimerTypeOK, front_vars
  <1>3. ASSUME NEW u \in Timers, backend[u].state = "running"
        PROVE  Ahead(u) >= 1
    <2>1. backend[u].timeout # cur_time
      BY <1>3 DEF TimesOut
    <2>2. backend[u].timeout \in 0 .. TimeMod - 1 /\ cur_time \in 0 .. TimeMod - 1
      BY DEF TimerTypeOK
    <2>. QED  BY <2>1, <2>2, TimerAssumption DEF Ahead
  <1>4. BackInv'
    BY <1>3, ZenonT(40) DEF BackInv, Ahead, Needed, front_vars
  <1>5. DispatchInv'
    BY ZenonT(40) DEF DispatchInv, Dispatched, Needed, front_vars
  <1>. QED  BY <1>1, <1>2, <1>4, <1>5

\* A back-end started for d ticks, at most the longest duration, is that far from its timeout.
LEMMA StartedAhead ==
    ASSUME TimerTypeOK, NEW d \in 0 .. INVALID_DURATION, NEW id \in Nat
    PROVE  /\ Started(d, id) \in [cmd_id : Nat, state : {"stopped", "running", "expired"}, timeout : 0 .. TimeMod - 1]
           /\ d <= MaxDuration =>
                Contract!AtLeastOne(d) =
                  IF Started(d, id).timeout >= cur_time THEN Started(d, id).timeout - cur_time
                  ELSE Started(d, id).timeout + TimeMod - cur_time
  <1>1. cur_time \in 0 .. TimeMod - 1
    BY DEF TimerTypeOK
  <1>2. PICK n \in Nat : n = Contract!AtLeastOne(d) /\ n >= 1 /\ n <= TimeMod /\ (d <= MaxDuration => n < TimeMod)
    BY TimerAssumption DEF Contract!AtLeastOne, INVALID_DURATION
  <1>3. PICK a \in Nat : a = cur_time + n /\ a < 2 * TimeMod
    BY <1>1, <1>2, TimerAssumption
  <1>4. Started(d, id) = [cmd_id |-> id, state |-> "running", timeout |-> a % TimeMod]
    BY <1>2, <1>3 DEF Started, Contract!AtLeastOne
  <1>5. a % TimeMod = IF a < TimeMod THEN a ELSE a - TimeMod
    BY <1>3, WrapOnce
  <1>6. PICK w \in 0 .. TimeMod - 1 : w = a % TimeMod /\ w = IF a < TimeMod THEN a ELSE a - TimeMod
    BY <1>3, <1>5, TimerAssumption
  <1>7. Started(d, id) = [cmd_id |-> id, state |-> "running", timeout |-> w]
    BY <1>4, <1>6
  <1>8. d <= MaxDuration => n = IF w >= cur_time THEN w - cur_time ELSE w + TimeMod - cur_time
    BY <1>1, <1>2, <1>3, <1>6, TimerAssumption
  <1>. QED  BY <1>2, <1>7, <1>8

\* The handle of a new timer arrives.
LEMMA CreateHandleKeepsInv ==
    ASSUME TimerInv, ProcessCommand, Head(cmds_to_process).action = "create"
    PROVE  TimerInv'
  <1>. USE DEF TimerInv
  <1>1. /\ UNCHANGED <<state, duration, cmd_id, exec, owned, in_flight, pending_cmds, free_list, backend,
                       cur_time, failed_to_trigger_timers, tick, tasks, elapsed>>
        /\ cmds_to_process \in Seq(Events) /\ cmds_to_process # <<>> /\ cmds_to_process' = Tail(cmds_to_process)
    BY DEF ProcessCommand, TimerTypeOK
  <1>2. /\ cmds_to_process' \in Seq(Events)
        /\ \A i \in 1 .. Len(cmds_to_process') :
             i + 1 \in 1 .. Len(cmds_to_process) /\ cmds_to_process'[i] = cmds_to_process[i + 1]
    BY <1>1, TailElements
  <1>3. TimerTypeOK' /\ OwnerInv'
    BY <1>1, <1>2 DEF TimerTypeOK, OwnerInv
  <1>4. FlightInv' /\ BackInv' /\ DispatchInv'
    <2>1. FlightInv'
      BY <1>1, ZenonT(40) DEF FlightInv, CmdSound
    <2>2. BackInv'
      BY <1>1 DEF BackInv, Ahead, Needed
    <2>3. DispatchInv'
      BY <1>1, ZenonT(40) DEF DispatchInv, Dispatched, Needed
    <2>. QED  BY <2>1, <2>2, <2>3
  <1>5. QueueInv'
    <2>1. \A e : Queued(e) => Queued(e)'
      BY <1>1, ZenonT(40) DEF Queued, CmdSound
    <2>2. /\ \A i \in 1 .. Len(pending_cmds) : pending_cmds[i].action # "create" => Queued(pending_cmds[i])'
          /\ \A i \in 1 .. Len(cmds_to_process') :
               cmds_to_process'[i].action # "create" => Queued(cmds_to_process[i])'
      BY <1>1, <1>2, <2>1 DEF QueueInv
    <2>3. /\ \A i, j \in 1 .. Len(cmds_to_process') : i < j => Before(cmds_to_process'[i], cmds_to_process'[j])
          /\ \A i \in 1 .. Len(cmds_to_process'), j \in 1 .. Len(pending_cmds) :
               Before(cmds_to_process'[i], pending_cmds[j])
          /\ \A i, j \in 1 .. Len(pending_cmds) : i < j => Before(pending_cmds[i], pending_cmds[j])
      <3>1. ASSUME NEW i \in 1 .. Len(cmds_to_process'), NEW j \in 1 .. Len(cmds_to_process'), i < j
            PROVE  Before(cmds_to_process'[i], cmds_to_process'[j])
        <4>1. i + 1 < j + 1
          BY <3>1, <1>2
        <4>2. /\ i + 1 \in 1 .. Len(cmds_to_process) /\ j + 1 \in 1 .. Len(cmds_to_process)
              /\ cmds_to_process'[i] = cmds_to_process[i + 1] /\ cmds_to_process'[j] = cmds_to_process[j + 1]
          BY <1>2
        <4>. QED  BY <4>1, <4>2, ZenonT(40) DEF QueueInv
      <3>2. ASSUME NEW i \in 1 .. Len(cmds_to_process'), NEW j \in 1 .. Len(pending_cmds)
            PROVE  Before(cmds_to_process'[i], pending_cmds[j])
        BY <1>2, ZenonT(40) DEF QueueInv
      <3>. QED  BY <3>1, <3>2 DEF QueueInv
    <2>4. \A i \in 1 .. Len(cmds_to_process') :
            cmds_to_process'[i].action = "start" /\ cmds_to_process'[i].cmd_id = cmd_id[cmds_to_process'[i].id]
              => elapsed[cmds_to_process'[i].id] >= 1
      BY <1>2 DEF QueueInv
    <2>5. tick = "commands"
      BY DEF ProcessCommand
    <2>. QED  BY <1>1, <2>2, <2>3, <2>4, <2>5, ZenonT(40) DEF QueueInv, Before
  <1>. QED  BY <1>3, <1>4, <1>5

\* A command reaches the back-end: older timeouts are void, younger commands wait,
\* and a destroy is the last command of its timer.
LEMMA CommandKeepsInv ==
    ASSUME TimerInv, ProcessCommand, Head(cmds_to_process).action # "create"
    PROVE  TimerInv'
  <1>. USE DEF TimerInv
  <1>1. /\ UNCHANGED <<cmd_id, owned, in_flight, cur_time, failed_to_trigger_timers, tick, pending_cmds, tasks>>
        /\ tick = "commands"
        /\ cmds_to_process \in Seq(Events) /\ cmds_to_process # <<>> /\ cmds_to_process' = Tail(cmds_to_process)
    BY DEF ProcessCommand, TimerTypeOK
  <1>2. /\ cmds_to_process' \in Seq(Events)
        /\ Head(cmds_to_process) = cmds_to_process[1] /\ 1 \in 1 .. Len(cmds_to_process)
        /\ \A i \in 1 .. Len(cmds_to_process') :
             i + 1 \in 1 .. Len(cmds_to_process) /\ cmds_to_process'[i] = cmds_to_process[i + 1]
    BY <1>1, TailElements
  <1>3. PICK c \in Commands :
          /\ c = Head(cmds_to_process) /\ c = cmds_to_process[1] /\ Queued(c)
          /\ c.action = "start" /\ c.cmd_id = cmd_id[c.id] => elapsed[c.id] >= 1
    BY <1>1, <1>2, CommandOfQueue DEF QueueInv
  <1>4. PICK t \in Timers : t = c.id /\ c.cmd_id \in Nat /\ c.duration \in 0 .. INVALID_DURATION
                           /\ c.action \in {"start", "stop", "destroy"}
    BY DEF Commands
  <1>5. /\ c.cmd_id <= cmd_id[t] /\ backend[t].cmd_id < c.cmd_id
        /\ in_flight[t] # None => c.cmd_id < cmd_id[t]
        /\ c.action = "destroy" => c.cmd_id = cmd_id[t] /\ ~owned[t] /\ in_flight[t] = None
        /\ c.action = "start" /\ c.cmd_id = cmd_id[t] =>
             state[t] = "running" /\ duration[t] = c.duration /\ c.duration <= MaxDuration /\ elapsed[t] >= 1
    <2>1. c.cmd_id <= cmd_id[t] /\ backend[t].cmd_id < c.cmd_id /\ (in_flight[t] # None => c.cmd_id < cmd_id[t])
      BY <1>3, <1>4 DEF Queued, CmdSound
    <2>2. c.action = "destroy" => c.cmd_id = cmd_id[t] /\ ~owned[t]
      BY <1>3, <1>4 DEF Queued, CmdSound
    <2>3. cmd_id[t] \in Nat
      BY DEF TimerTypeOK
    <2>4. c.action = "destroy" => in_flight[t] = None
      BY <2>1, <2>2, <2>3
    <2>5. c.action = "start" /\ c.cmd_id = cmd_id[t] =>
             state[t] = "running" /\ duration[t] = c.duration /\ c.duration <= MaxDuration /\ elapsed[t] >= 1
      BY <1>3, <1>4 DEF Queued, CmdSound
    <2>. QED  BY <2>1, <2>2, <2>4, <2>5
  <1>6. /\ c.action # "destroy" => UNCHANGED <<state, duration, exec, free_list, elapsed>>
        /\ c.action = "destroy" =>
             /\ state' = [state EXCEPT ![t] = "stopped"] /\ duration' = [duration EXCEPT ![t] = INVALID_DURATION]
             /\ exec' = [exec EXCEPT ![t] = FALSE] /\ free_list' = free_list \cup {t}
             /\ elapsed' = [elapsed EXCEPT ![t] = 0]
    BY <1>3, <1>4 DEF ProcessCommand
  <1>7. \A u \in Timers : u # t \/ c.action # "destroy" =>
          /\ state'[u] = state[u] /\ duration'[u] = duration[u] /\ exec'[u] = exec[u] /\ elapsed'[u] = elapsed[u]
    BY <1>6 DEF TimerTypeOK
  <1>8. PICK b \in [cmd_id : Nat, state : {"stopped", "running", "expired"}, timeout : 0 .. TimeMod - 1] :
          /\ backend' = [backend EXCEPT ![t] = b] /\ b.cmd_id = c.cmd_id
          /\ b.state = "running" => c.action = "start" /\ b = Started(c.duration, c.cmd_id)
    <2>1. CASE c.action = "start"
      <3>1. backend' = [backend EXCEPT ![t] = Started(c.duration, c.cmd_id)]
        BY <2>1, <1>3, <1>4 DEF ProcessCommand
      <3>2. Started(c.duration, c.cmd_id).cmd_id = c.cmd_id
        BY DEF Started
      <3>. QED  BY <2>1, <3>1, <3>2, <1>4, StartedAhead, ZenonT(40)
    <2>2. CASE c.action = "stop"
      <3>1. backend[t] \in [cmd_id : Nat, state : {"stopped", "running", "expired"}, timeout : 0 .. TimeMod - 1]
        BY DEF TimerTypeOK
      <3>2. backend' = [backend EXCEPT ![t].cmd_id = c.cmd_id,
                                       ![t].state = IF @ = "running" THEN "stopped" ELSE @]
        BY <2>2, <1>3, <1>4, ZenonT(40) DEF ProcessCommand
      <3>3. backend \in [Timers -> [cmd_id : Nat, state : {"stopped", "running", "expired"}, timeout : 0 .. TimeMod - 1]]
        BY DEF TimerTypeOK
      <3>4. PICK r : r = backend'[t]
        OBVIOUS
      <3>5. backend' = [backend EXCEPT ![t] = r]
        BY <3>2, <3>3, <3>4, ZenonT(40)
      <3>6. /\ r \in [cmd_id : Nat, state : {"stopped", "running", "expired"}, timeout : 0 .. TimeMod - 1]
            /\ r.cmd_id = c.cmd_id /\ r.state # "running"
        BY <3>1, <3>2, <3>3, <3>4, <1>4, ZenonT(40)
      <3>. QED  BY <3>5, <3>6, ZenonT(40)
    <2>3. CASE c.action = "destroy"
      <3>1. backend' = [backend EXCEPT ![t] = [cmd_id |-> c.cmd_id, state |-> "stopped", timeout |-> 0]]
        BY <2>3, <1>3, <1>4 DEF ProcessCommand
      <3>2. 0 \in 0 .. TimeMod - 1
        BY TimerAssumption
      <3>3. PICK r : r = [cmd_id |-> c.cmd_id, state |-> "stopped", timeout |-> 0]
        BY ZenonT(40)
      <3>4. /\ r \in [cmd_id : Nat, state : {"stopped", "running", "expired"}, timeout : 0 .. TimeMod - 1]
            /\ r.cmd_id = c.cmd_id /\ r.state # "running"
        BY <3>2, <3>3, <1>4
      <3>. QED  BY <3>1, <3>3, <3>4, ZenonT(40)
    <2>. QED  BY <2>1, <2>2, <2>3, <1>4
  <1>9. \A u \in Timers : backend'[u] = IF u = t THEN b ELSE backend[u]
    BY <1>8 DEF TimerTypeOK
  <1>10. TimerTypeOK'
    <2>1. backend' \in [Timers -> [cmd_id : Nat, state : {"stopped", "running", "expired"}, timeout : 0 .. TimeMod - 1]]
      BY <1>8 DEF TimerTypeOK
    <2>2. /\ state' \in [Timers -> {"stopped", "running", "expired"}] /\ exec' \in [Timers -> BOOLEAN]
          /\ free_list' \in SUBSET Timers
      BY <1>6, ZenonT(40) DEF TimerTypeOK
    <2>3. duration' \in [Timers -> 0 .. INVALID_DURATION] /\ elapsed' \in [Timers -> 0 .. MaxDuration]
      <3>1. INVALID_DURATION \in 0 .. INVALID_DURATION /\ 0 \in 0 .. MaxDuration
        BY TimerAssumption DEF INVALID_DURATION
      <3>2. c.action = "destroy" => duration' \in [Timers -> 0 .. INVALID_DURATION] /\ elapsed' \in [Timers -> 0 .. MaxDuration]
        <4>1. duration \in [Timers -> 0 .. INVALID_DURATION] /\ elapsed \in [Timers -> 0 .. MaxDuration]
          BY DEF TimerTypeOK
        <4>. QED  BY <1>6, <3>1, <4>1
      <3>. QED  BY <1>6, <3>2 DEF TimerTypeOK
    <2>. QED  BY <1>1, <1>2, <2>1, <2>2, <2>3, ZenonT(40) DEF TimerTypeOK
  <1>11. OwnerInv'
    <2>1. CASE c.action = "destroy"
      <3>1. /\ exec' = [exec EXCEPT ![t] = FALSE] /\ state' = [state EXCEPT ![t] = "stopped"]
            /\ free_list' = free_list \cup {t} /\ owned' = owned /\ ~owned[t]
        BY <1>1, <1>5, <1>6, <2>1, ZenonT(40)
      <3>2. state \in [Timers -> {"stopped", "running", "expired"}] /\ exec \in [Timers -> BOOLEAN]
        BY DEF TimerTypeOK
      <3>. QED  BY <3>1, <3>2 DEF OwnerInv
    <2>2. CASE c.action # "destroy"
      BY <1>1, <1>6, <2>2 DEF OwnerInv
    <2>. QED  BY <2>1, <2>2
  <1>12. ASSUME NEW e \in Commands, CmdSound(e), e.id # t \/ c.cmd_id < e.cmd_id
         PROVE  CmdSound(e)'
    <2>1. e.id \in Timers /\ e.cmd_id \in Nat
      BY DEF Commands
    <2>2. e.id = t => c.action # "destroy"
      <3>1. e.cmd_id <= cmd_id[e.id] /\ cmd_id[t] \in Nat
        BY <1>12, CountersAreNat DEF CmdSound
      <3>2. ASSUME e.id = t, c.action = "destroy"
            PROVE  FALSE
        <4>1. c.cmd_id < e.cmd_id
          BY <1>12, <3>2
        <4>2. e.cmd_id <= c.cmd_id
          BY <1>5, <3>1, <3>2
        <4>. QED  BY <1>4, <2>1, <4>1, <4>2
      <3>. QED  BY <3>2
    <2>3. /\ state'[e.id] = state[e.id] /\ duration'[e.id] = duration[e.id] /\ exec'[e.id] = exec[e.id]
      BY <1>7, <2>1, <2>2, ZenonT(40)
    <2>. QED  BY <1>1, <1>12, <2>3 DEF CmdSound
  <1>13. FlightInv'
    <2>. SUFFICES ASSUME NEW u \in Timers, in_flight[u] # None
                  PROVE  /\ in_flight[u].id = u /\ in_flight[u].cmd_id = cmd_id[u]
                         /\ CmdSound(in_flight[u])'
                         /\ backend'[u].cmd_id < cmd_id[u]
      BY <1>1 DEF FlightInv
    <2>1. PICK e \in Commands : e = in_flight[u] /\ e.id = u /\ e.cmd_id = cmd_id[u] /\ CmdSound(e)
      BY DEF FlightInv, TimerTypeOK
    <2>2. CmdSound(e)'
      BY <1>5, <1>12, <2>1
    <2>3. backend'[u].cmd_id < cmd_id[u]
      BY <1>5, <1>8, <1>9 DEF FlightInv
    <2>. QED  BY <1>1, <2>1, <2>2, <2>3
  <1>14. \A e \in Commands : Queued(e) /\ Before(c, e) => Queued(e)' /\ (e.id = t => c.action # "destroy")
    <2>. SUFFICES ASSUME NEW e \in Commands, Queued(e), Before(c, e)
                  PROVE  Queued(e)' /\ (e.id = t => c.action # "destroy")
      OBVIOUS
    <2>1. e.id \in Timers /\ e.cmd_id \in Nat /\ e.action # "create" /\ c.action # "create"
      BY <1>4 DEF Commands
    <2>2. e.id = t => c.cmd_id < e.cmd_id
      BY <1>4, <2>1 DEF Before
    <2>3. CmdSound(e)'
      BY <1>12, <2>2 DEF Queued
    <2>4. backend'[e.id].cmd_id < e.cmd_id
      BY <1>8, <1>9, <2>1, <2>2 DEF Queued
    <2>5. e.id = t => c.action # "destroy"
      <3>1. e.cmd_id <= cmd_id[e.id] /\ cmd_id[t] \in Nat
        BY CountersAreNat DEF Queued, CmdSound
      <3>. QED  BY <1>4, <1>5, <2>1, <2>2, <3>1
    <2>. QED  BY <1>1, <2>3, <2>4, <2>5, ZenonT(40) DEF Queued
  <1>15. QueueInv'
    <2>1. \A i \in 1 .. Len(pending_cmds) : pending_cmds[i].action # "create" =>
            /\ pending_cmds[i] \in Commands /\ Queued(pending_cmds[i]) /\ Before(c, pending_cmds[i])
      <3>1. pending_cmds \in Seq(Events)
        BY DEF TimerTypeOK
      <3>2. \A i \in 1 .. Len(pending_cmds) : pending_cmds[i].action # "create" => pending_cmds[i] \in Commands
        BY <3>1, CommandOfQueue
      <3>. QED  BY <1>2, <1>3, <3>2, ZenonT(40) DEF QueueInv
    <2>2. \A i \in 1 .. Len(cmds_to_process') : cmds_to_process'[i].action # "create" =>
            /\ cmds_to_process'[i] \in Commands /\ Queued(cmds_to_process'[i]) /\ Before(c, cmds_to_process'[i])
      <3>. SUFFICES ASSUME NEW i \in 1 .. Len(cmds_to_process'), cmds_to_process'[i].action # "create"
                    PROVE  /\ cmds_to_process'[i] \in Commands /\ Queued(cmds_to_process'[i])
                           /\ Before(c, cmds_to_process'[i])
        OBVIOUS
      <3>1. i + 1 \in 1 .. Len(cmds_to_process) /\ cmds_to_process'[i] = cmds_to_process[i + 1] /\ 1 < i + 1
        BY <1>2
      <3>2. cmds_to_process[i + 1] \in Commands
        BY <1>1, <3>1, CommandOfQueue
      <3>. QED  BY <1>2, <1>3, <3>1, <3>2, ZenonT(40) DEF QueueInv
    <2>3. /\ \A i \in 1 .. Len(pending_cmds) : pending_cmds[i].action # "create" => Queued(pending_cmds[i])'
          /\ \A i \in 1 .. Len(cmds_to_process') :
               cmds_to_process'[i].action # "create" => Queued(cmds_to_process[i])'
      BY <1>1, <1>14, <2>1, <2>2
    <2>4. /\ \A i, j \in 1 .. Len(cmds_to_process') : i < j => Before(cmds_to_process'[i], cmds_to_process'[j])
          /\ \A i \in 1 .. Len(cmds_to_process'), j \in 1 .. Len(pending_cmds) :
               Before(cmds_to_process'[i], pending_cmds[j])
          /\ \A i, j \in 1 .. Len(pending_cmds) : i < j => Before(pending_cmds[i], pending_cmds[j])
      <3>1. \A i, j \in 1 .. Len(cmds_to_process') : i < j => i + 1 < j + 1
        OBVIOUS
      <3>. QED  BY <1>2, <3>1, ZenonT(40) DEF QueueInv
    <2>5. \A i \in 1 .. Len(cmds_to_process') :
            cmds_to_process'[i].action = "start" /\ cmds_to_process'[i].cmd_id = cmd_id[cmds_to_process'[i].id]
              => elapsed'[cmds_to_process'[i].id] >= 1
      <3>. SUFFICES ASSUME NEW i \in 1 .. Len(cmds_to_process'), cmds_to_process'[i].action = "start",
                           cmds_to_process'[i].cmd_id = cmd_id[cmds_to_process'[i].id]
                    PROVE  elapsed'[cmds_to_process'[i].id] >= 1
        OBVIOUS
      <3>1. elapsed[cmds_to_process'[i].id] >= 1
        BY <1>2 DEF QueueInv
      <3>2. cmds_to_process'[i].id \in Timers /\ (cmds_to_process'[i].id = t => c.action # "destroy")
        BY <1>14, <2>2 DEF Commands
      <3>. QED  BY <1>7, <3>1, <3>2
    <2>. QED  BY <1>1, <2>3, <2>4, <2>5, ZenonT(40) DEF QueueInv, Before
  <1>16. BackInv'
    <2>. SUFFICES ASSUME NEW u \in Timers
                  PROVE  /\ backend'[u].cmd_id <= cmd_id[u]
                         /\ backend'[u].state = "running" /\ backend'[u].cmd_id = cmd_id[u] =>
                              /\ state'[u] = "running" /\ duration'[u] <= MaxDuration
                              /\ elapsed'[u] + Ahead(u)' >= Needed(u)'
                              /\ elapsed'[u] + Ahead(u)' >= Needed(u)' + 1
                              /\ Ahead(u)' >= 1
      BY <1>1 DEF BackInv
    <2>1. CASE u # t
      <3>1. Ahead(u)' = Ahead(u) /\ Needed(u)' = Needed(u)
        BY <1>1, <1>7, <1>9, <2>1 DEF Ahead, Needed
      <3>. QED  BY <1>1, <1>7, <1>9, <2>1, <3>1 DEF BackInv
    <2>2. CASE u = t
      <3>1. backend'[u] = b /\ b.cmd_id <= cmd_id[u]
        BY <1>5, <1>8, <1>9, <2>2, ZenonT(40)
      <3>2. ASSUME b.state = "running", b.cmd_id = cmd_id[u]
            PROVE  /\ state'[u] = "running" /\ duration'[u] <= MaxDuration
                   /\ Ahead(u)' = Needed(u)' /\ elapsed'[u] >= 1
        <4>1. c.action = "start" /\ b = Started(c.duration, c.cmd_id) /\ c.cmd_id = cmd_id[t]
          BY <1>8, <2>2, <3>2
        <4>2. state'[u] = "running" /\ duration'[u] = c.duration /\ c.duration <= MaxDuration /\ elapsed'[u] >= 1
          BY <1>5, <1>7, <2>2, <4>1
        <4>3. Contract!AtLeastOne(c.duration) =
                IF b.timeout >= cur_time THEN b.timeout - cur_time ELSE b.timeout + TimeMod - cur_time
          BY <1>4, <4>1, <4>2, StartedAhead
        <4>. QED  BY <1>1, <3>1, <4>2, <4>3, ZenonT(40) DEF Ahead, Needed
      <3>3. Needed(u)' \in Nat /\ Needed(u)' >= 1
        <4>1. duration'[u] \in 0 .. INVALID_DURATION
          BY <1>10 DEF TimerTypeOK
        <4>. QED  BY <4>1, TimerAssumption DEF Needed, Contract!AtLeastOne, INVALID_DURATION
      <3>4. elapsed'[u] \in 0 .. MaxDuration
        BY <1>10 DEF TimerTypeOK
      <3>. QED  BY <3>1, <3>2, <3>3, <3>4, TimerAssumption
    <2>. QED  BY <2>1, <2>2
  <1>17. DispatchInv'
    <2>1. ASSUME NEW g \in Timeouts, Dispatched(g)
          PROVE  Dispatched(g)'
      <3>1. g[1] \in Timers /\ g[2] \in Nat
        BY DEF Timeouts
      <3>2. CASE g[1] = t
        <4>1. g[2] < b.cmd_id /\ g[2] < cmd_id[t]
          <5>1. backend[t].cmd_id \in Nat /\ cmd_id[t] \in Nat
            BY DEF TimerTypeOK
          <5>2. g[2] <= backend[t].cmd_id
            BY <2>1, <3>2 DEF Dispatched
          <5>. QED  BY <1>4, <1>5, <1>8, <3>1, <5>1, <5>2
        <4>2. backend'[g[1]] = b /\ b.cmd_id \in Nat /\ cmd_id'[g[1]] = cmd_id[t] /\ cmd_id[t] \in Nat
          BY <1>1, <1>8, <1>9, <3>2 DEF TimerTypeOK
        <4>3. g[2] <= b.cmd_id /\ g[2] # b.cmd_id /\ g[2] # cmd_id[t]
          BY <3>1, <4>1, <4>2
        <4>. QED  BY <4>2, <4>3 DEF Dispatched
      <3>3. CASE g[1] # t
        BY <1>1, <1>7, <1>9, <2>1, <3>1, <3>3, ZenonT(40) DEF Dispatched, Needed
      <3>. QED  BY <3>2, <3>3
    <2>2. /\ \A i \in 1 .. Len(failed_to_trigger_timers) : failed_to_trigger_timers[i] \in Timeouts
          /\ \A i \in 1 .. Len(tasks) : tasks[i] \in Timeouts
      <3>1. failed_to_trigger_timers \in Seq(Timeouts) /\ tasks \in Seq(Timeouts)
        BY DEF TimerTypeOK
      <3>. QED  BY <3>1
    <2>3. /\ \A i \in 1 .. Len(failed_to_trigger_timers) : Dispatched(failed_to_trigger_timers[i])'
          /\ \A i \in 1 .. Len(tasks) : Dispatched(tasks[i])'
      BY <1>1, <2>1, <2>2 DEF DispatchInv
    <2>. QED  BY <1>1, <2>3 DEF DispatchInv
  <1>. QED  BY <1>10, <1>11, <1>13, <1>15, <1>16, <1>17

\* The four calls that count a command, in the terms of CallKeepsInv.
LEMMA OwnerKeepsInv ==
    ASSUME TimerInv, NEW t \in Timers, Owner(t)
    PROVE  TimerInv'
  <1>. USE DEF TimerInv
  <1>1. /\ state[t] \in {"stopped", "running", "expired"} /\ duration[t] \in 0 .. INVALID_DURATION
        /\ cmd_id[t] + 1 \in Nat
        /\ state = [state EXCEPT ![t] = state[t]] /\ duration = [duration EXCEPT ![t] = duration[t]]
    BY DEF TimerTypeOK
  <1>2. ASSUME NEW a \in {"start", "stop", "destroy"}, NEW d \in 0 .. INVALID_DURATION
        PROVE  /\ Cmd(t, a, d) \in Commands \cup {None}
               /\ Cmd(t, a, d).id = t /\ Cmd(t, a, d).cmd_id = cmd_id[t] + 1
               /\ Cmd(t, a, d).action = a /\ Cmd(t, a, d).duration = d
    BY <1>1 DEF Cmd, Commands
  <1>3. Count(t) => owned[t] /\ owned = [owned EXCEPT ![t] = TRUE]
    BY DEF Count, TimerTypeOK
  <1>4. CASE Create(t)
    BY <1>4, CreateKeepsInv
  <1>5. CASE Run(t)
    <2>1. Count(t) /\ duration[t] <= MaxDuration
      BY <1>1, <1>5, TimerAssumption DEF Run, INVALID_DURATION
    <2>2. /\ state' = [state EXCEPT ![t] = "running"] /\ duration' = [duration EXCEPT ![t] = duration[t]]
          /\ owned' = [owned EXCEPT ![t] = TRUE]
          /\ in_flight' = [in_flight EXCEPT ![t] = Cmd(t, "start", duration[t])]
      BY <1>1, <1>3, <1>5, <2>1 DEF Run
    <2>3. PICK c \in Commands \cup {None} :
            /\ c = Cmd(t, "start", duration[t])
            /\ c.id = t /\ c.cmd_id = cmd_id[t] + 1 /\ c.action = "start" /\ c.duration = duration[t]
      BY <1>1, <1>2
    <2>. QED  BY <1>1, <2>1, <2>2, <2>3, CallKeepsInv, ZenonT(40)
  <1>6. CASE Stop(t)
    <2>1. Count(t)
      BY <1>6 DEF Stop
    <2>2. /\ state' = [state EXCEPT ![t] = "stopped"] /\ duration' = [duration EXCEPT ![t] = duration[t]]
          /\ owned' = [owned EXCEPT ![t] = TRUE]
          /\ in_flight' = [in_flight EXCEPT ![t] = Cmd(t, "stop", duration[t])]
      BY <1>1, <1>3, <1>6, <2>1 DEF Stop
    <2>3. PICK c \in Commands \cup {None} :
            /\ c = Cmd(t, "stop", duration[t])
            /\ c.id = t /\ c.cmd_id = cmd_id[t] + 1 /\ c.action = "stop" /\ c.duration = duration[t]
      BY <1>1, <1>2
    <2>. QED  BY <1>1, <2>1, <2>2, <2>3, CallKeepsInv, ZenonT(40)
  <1>7. CASE Destroy(t)
    <2>1. Count(t)
      BY <1>7 DEF Destroy
    <2>2. /\ state' = [state EXCEPT ![t] = "stopped"] /\ duration' = [duration EXCEPT ![t] = duration[t]]
          /\ owned' = [owned EXCEPT ![t] = FALSE]
          /\ in_flight' = [in_flight EXCEPT ![t] = Cmd(t, "destroy", duration[t])]
      BY <1>1, <1>7, <2>1 DEF Destroy
    <2>3. PICK c \in Commands \cup {None} :
            /\ c = Cmd(t, "destroy", duration[t])
            /\ c.id = t /\ c.cmd_id = cmd_id[t] + 1 /\ c.action = "destroy" /\ c.duration = duration[t]
      BY <1>1, <1>2
    <2>. QED  BY <1>1, <2>1, <2>2, <2>3, CallKeepsInv, ZenonT(40)
  <1>8. ASSUME NEW d \in Settable, Set(t, d)
        PROVE  TimerInv'
    <2>1. Count(t) /\ d <= MaxDuration /\ d \in 0 .. INVALID_DURATION
      BY <1>8, TimerAssumption DEF Set, INVALID_DURATION
    <2>2. /\ state' = [state EXCEPT ![t] = state[t]] /\ duration' = [duration EXCEPT ![t] = d]
          /\ owned' = [owned EXCEPT ![t] = TRUE]
          /\ in_flight' = [in_flight EXCEPT ![t] = IF state[t] = "running" THEN Cmd(t, "start", d) ELSE None]
      BY <1>1, <1>3, <1>8, <2>1 DEF Set
    <2>3. PICK c \in Commands \cup {None} :
            /\ c = IF state[t] = "running" THEN Cmd(t, "start", d) ELSE None
            /\ c # None => /\ state[t] = "running" /\ c.id = t /\ c.cmd_id = cmd_id[t] + 1
                           /\ c.action = "start" /\ c.duration = d
      BY <1>2, <2>1
    <2>. QED  BY <1>1, <2>1, <2>2, <2>3, CallKeepsInv, ZenonT(40)
  <1>. QED  BY <1>4, <1>5, <1>6, <1>7, <1>8 DEF Owner

\* The commands, ticks and timeouts of the timer service keep TimerInv in step with
\* each other: ids increase from the back-end over both queues to the front-end, and
\* an armed back-end has the ticks of its duration behind and ahead of it.
THEOREM TimerInvariance == Spec => []TimerInv
  <1>1. TimerInv /\ [Next]_vars => TimerInv'
    <2>. SUFFICES ASSUME TimerInv, [Next]_vars
                  PROVE  TimerInv'
      OBVIOUS
    <2>1. CASE UNCHANGED vars
      <3>1. TimerTypeOK' /\ OwnerInv' /\ FlightInv' /\ BackInv'
        BY <2>1, ZenonT(40) DEF vars, front_vars, back_vars, TimerInv, TimerTypeOK, OwnerInv, FlightInv, CmdSound, BackInv,
                    Ahead, Needed
      <3>2. QueueInv'
        <4>1. \A e : Queued(e) => Queued(e)'
          BY <2>1, ZenonT(40) DEF vars, front_vars, back_vars, Queued, CmdSound
        <4>2. /\ \A i \in 1 .. Len(pending_cmds) : pending_cmds[i].action # "create" => Queued(pending_cmds[i])'
              /\ \A i \in 1 .. Len(cmds_to_process) :
                   cmds_to_process[i].action # "create" => Queued(cmds_to_process[i])'
          BY <2>1, <4>1 DEF vars, TimerInv, QueueInv
        <4>. QED  BY <2>1, <4>2, ZenonT(40) DEF vars, front_vars, back_vars, TimerInv, QueueInv, Before
      <3>3. DispatchInv'
        BY <2>1, ZenonT(40) DEF vars, front_vars, back_vars, TimerInv, DispatchInv, Dispatched, Needed
      <3>. QED  BY <3>1, <3>2, <3>3 DEF TimerInv
    <2>2. CASE Tick
      <3>1. CASE ProcessCommand
        BY <3>1, CreateHandleKeepsInv, CommandKeepsInv
      <3>. QED  BY <2>2, <3>1, BeginTickKeepsInv, PostponedKeepsInv, AdvanceKeepsInv, EndTickKeepsInv,
                   ExpireKeepsInv DEF Tick
    <2>3. CASE RunTimeout
      BY <2>3, TimeoutKeepsInv
    <2>4. ASSUME NEW t \in Timers, Owner(t) \/ PushTimerCommand(t)
          PROVE  TimerInv'
      BY <2>4, OwnerKeepsInv, PushKeepsInv
    <2>. QED  BY <2>1, <2>2, <2>3, <2>4 DEF Next
  <1>. QED  BY <1>1, InitEstablishesInv, PTL DEF Spec

-----------------------------------------------------------------------------
(* The contract *)

\* What the contract says of a step, in the variables of the implementation.
LEMMA ContractOwner ==
    ASSUME TimerTypeOK, NEW t \in Timers, NEW s \in {state[t], "stopped", "running"},
           NEW d \in 0 .. INVALID_DURATION,
           state' = [state EXCEPT ![t] = s], duration' = [duration EXCEPT ![t] = d],
           elapsed' = [elapsed EXCEPT ![t] = 0]
    PROVE  Contract!CNext
  BY ZenonT(40) DEF Contract!CNext, Contract!COwner, Contract!Durations, Contract!INVALID_DURATION, INVALID_DURATION

\* Every step of the service is a step of the contract, or changes nothing an owner
\* can see of its timer.
LEMMA StepKeepsContract ==
    ASSUME TimerInv, [Next]_vars
    PROVE  [Contract!CNext]_(Contract!contract_vars)
  <1>. USE DEF TimerInv
  <1>1. ASSUME UNCHANGED <<state, duration, elapsed>>
        PROVE  [Contract!CNext]_(Contract!contract_vars)
    BY <1>1 DEF Contract!contract_vars
  <1>2. CASE UNCHANGED vars
    BY <1>1, <1>2 DEF vars, front_vars
  <1>3. CASE BeginTick
    BY <1>3 DEF BeginTick, front_vars, Contract!CNext, Contract!CTick
  <1>4. CASE ProcessCommand
    <2>1. CASE Head(cmds_to_process).action # "destroy"
      BY <1>1, <1>4, <2>1 DEF ProcessCommand
    <2>2. CASE Head(cmds_to_process).action = "destroy"
      <3>1. Head(cmds_to_process) \in Events
        BY <1>4, TailElements DEF ProcessCommand, TimerTypeOK
      <3>2. PICK t \in Timers : t = Head(cmds_to_process).id
        BY <3>1 DEF Events, Commands, Creations
      <3>3. /\ state' = [state EXCEPT ![t] = "stopped"] /\ duration' = [duration EXCEPT ![t] = INVALID_DURATION]
            /\ elapsed' = [elapsed EXCEPT ![t] = 0]
        BY <1>4, <2>2, <3>2 DEF ProcessCommand
      <3>4. INVALID_DURATION \in 0 .. INVALID_DURATION
        BY TimerAssumption DEF INVALID_DURATION
      <3>. QED  BY <3>3, <3>4, ContractOwner, ZenonT(40)
    <2>. QED  BY <2>1, <2>2
  <1>5. CASE HandlePostponed \/ AdvanceTime \/ EndTick \/ \E t \in Timers : ExpireBackend(t)
    BY <1>1, <1>5 DEF HandlePostponed, AdvanceTime, EndTick, ExpireBackend, front_vars
  <1>6. CASE RunTimeout
    <2>1. PICK f \in Timeouts : f = Head(tasks) /\ f[1] \in Timers /\ Dispatched(f)
      <3>1. tasks \in Seq(Timeouts) /\ tasks # <<>>
        BY <1>6 DEF TimerTypeOK, RunTimeout
      <3>2. Head(tasks) \in Timeouts /\ Head(tasks) = tasks[1] /\ 1 \in 1 .. Len(tasks)
        BY <3>1, TailElements
      <3>. QED  BY <3>2, ZenonT(40) DEF DispatchInv, Timeouts
    <2>2. CASE f[2] # cmd_id[f[1]]
      BY <1>1, <1>6, <2>1, <2>2 DEF RunTimeout, Current
    <2>3. CASE f[2] = cmd_id[f[1]]
      <3>1. Contract!CExpire(f[1])
        BY <1>6, <2>1, <2>3, ZenonT(40) DEF RunTimeout, Current, Dispatched, Needed, Contract!CExpire
      <3>. QED  BY <2>1, <3>1 DEF Contract!CNext
    <2>. QED  BY <2>2, <2>3
  <1>7. ASSUME NEW t \in Timers, Owner(t) \/ PushTimerCommand(t)
        PROVE  [Contract!CNext]_(Contract!contract_vars)
    <2>1. /\ duration[t] \in 0 .. INVALID_DURATION
          /\ state = [state EXCEPT ![t] = state[t]] /\ duration = [duration EXCEPT ![t] = duration[t]]
      BY DEF TimerTypeOK
    <2>2. CASE Create(t)
      BY <1>1, <2>2 DEF Create
    <2>3. CASE Run(t)
      <3>1. /\ state' = [state EXCEPT ![t] = "running"] /\ duration' = [duration EXCEPT ![t] = duration[t]]
            /\ elapsed' = [elapsed EXCEPT ![t] = 0]
        BY <2>1, <2>3 DEF Run, Count
      <3>. QED  BY <2>1, <3>1, ContractOwner, ZenonT(40)
    <2>4. CASE Stop(t) \/ Destroy(t)
      <3>1. /\ state' = [state EXCEPT ![t] = "stopped"] /\ duration' = [duration EXCEPT ![t] = duration[t]]
            /\ elapsed' = [elapsed EXCEPT ![t] = 0]
        BY <2>1, <2>4 DEF Stop, Destroy, Count
      <3>. QED  BY <2>1, <3>1, ContractOwner, ZenonT(40)
    <2>5. CASE PushTimerCommand(t)
      <3>1. /\ state' = [state EXCEPT ![t] = state[t]] /\ duration' = [duration EXCEPT ![t] = duration[t]]
            /\ elapsed' = [elapsed EXCEPT ![t] = 0]
        BY <2>1, <2>5 DEF PushTimerCommand
      <3>. QED  BY <2>1, <3>1, ContractOwner, ZenonT(40)
    <2>6. ASSUME NEW d \in Settable, Set(t, d)
          PROVE  [Contract!CNext]_(Contract!contract_vars)
      <3>1. d \in 0 .. INVALID_DURATION
        BY TimerAssumption DEF INVALID_DURATION
      <3>2. /\ state' = [state EXCEPT ![t] = state[t]] /\ duration' = [duration EXCEPT ![t] = d]
            /\ elapsed' = [elapsed EXCEPT ![t] = 0]
        BY <2>1, <2>6 DEF Set, Count
      <3>. QED  BY <3>1, <3>2, ContractOwner, ZenonT(40)
    <2>. QED  BY <1>7, <2>2, <2>3, <2>4, <2>5, <2>6 DEF Owner
  <1>. QED  BY <1>2, <1>3, <1>4, <1>5, <1>6, <1>7 DEF Next, Tick

\* The timer service implements the contract of unique_timer: a callback runs only for
\* a timer that its owner sees running, and only after the configured number of ticks
\* has begun since the last start, whatever the owners and the ticking thread do.
THEOREM TimerRefinement == Spec => KeepsContract
  <1>1. Init => Contract!CInit
    BY DEF Init, Contract!CInit, Contract!INVALID_DURATION, INVALID_DURATION
  <1>2. TimerInv /\ [Next]_vars => [Contract!CNext]_(Contract!contract_vars)
    BY StepKeepsContract
  <1>. QED  BY <1>1, <1>2, TimerInvariance, PTL DEF Spec, KeepsContract, Contract!CSpec

=============================================================================
