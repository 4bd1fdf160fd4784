---------------------------- MODULE TimerContract ----------------------------
(***************************************************************************)
(* What a unique_timer promises its owner, whatever the timer_manager      *)
(* thread does: the interface of include/srsran/support/timers.h as the    *)
(* RLC, PDCP, F1-U and transaction code rely on it.  A timer is seen only  *)
(* through its front-end state and the number of ticks that began since    *)
(* its last start.                                                         *)
(***************************************************************************)
EXTENDS Naturals

CONSTANTS Timers,      \* unique_timer objects
          MaxDuration  \* MAX_TIMER_DURATION

VARIABLES state,    \* timer_frontend::state
          duration, \* timer_frontend::duration
          elapsed   \* ticks begun since the last start, counted up to MaxDuration

contract_vars == <<state, duration, elapsed>>

\* timer_manager::INVALID_DURATION, the duration of a timer that was never set.
INVALID_DURATION == MaxDuration + 1

Durations == 0 .. INVALID_DURATION

\* std::max(duration, 1U) of start_timer_backend.
AtLeastOne(d) == IF d = 0 THEN 1 ELSE d

CInit ==
  /\ state = [t \in Timers |-> "stopped"]
  /\ duration = [t \in Timers |-> INVALID_DURATION]
  /\ elapsed = [t \in Timers |-> 0]

\* The owner configures, starts, stops or releases its own timer, and the count
\* of its ticks starts anew.
COwner(t) ==
  /\ \E s \in {state[t], "stopped", "running"} : state' = [state EXCEPT ![t] = s]
  /\ \E d \in Durations : duration' = [duration EXCEPT ![t] = d]
  /\ elapsed' = [elapsed EXCEPT ![t] = 0]

\* A tick begins.
CTick ==
  /\ elapsed' = [t \in Timers |-> IF elapsed[t] < MaxDuration THEN elapsed[t] + 1 ELSE MaxDuration]
  /\ UNCHANGED <<state, duration>>

\* The timeout callback runs in the owner's executor: only for a timer its owner
\* still sees running, and not before the configured number of ticks.
CExpire(t) ==
  /\ state[t] = "running"
  /\ elapsed[t] >= AtLeastOne(duration[t])
  /\ state' = [state EXCEPT ![t] = "expired"]
  /\ UNCHANGED <<duration, elapsed>>

CNext == CTick \/ \E t \in Timers : COwner(t) \/ CExpire(t)

CSpec == CInit /\ [][CNext]_contract_vars
=============================================================================
