--------------------------- MODULE TimeoutKiller ---------------------------
(***************************************************************************)
(* The timeout killer of src/lib/tkill.c: a thread of the judger that      *)
(* sleeps for the real time limit and then kills the child's process       *)
(* group.  pthread_create passes it the address of a local variable of     *)
(* start_killer_after_fork, so what it reads depends on whether it is      *)
(* scheduled before that function returns.                                 *)
(***************************************************************************)
EXTENDS Processes

CONSTANTS Limits,      \* the resource limits (struct rsclim_ctxt) to be judged under
          StaleReads   \* [pid, time] the thread may find in a dead stack frame

LimitRecord == [real_time : Int, cpu_time : Int, virtual_memory : Int,
                actual_memory : Int, stack_memory : Int, output_size : Int,
                fileno : Int]

(* Past the first bound, time + 1000 of tkill.c:32 overflows an int; the   *)
(* clock must be able to pass every limit.  A judgement of 2^31 ms, which  *)
(* is 24 days, is left out: its time would not fit result.real_time.       *)
ASSUME LimitAssumption ==
  /\ MaxClock < IntBound
  /\ Limits \subseteq LimitRecord
  /\ \A l \in Limits : /\ l.real_time >= -IntBound
                       /\ l.real_time + Second < IntBound
                       /\ l.real_time < MaxClock

(* A word read for an int is some int.                                     *)
ASSUME StaleAssumption == \A k \in StaleReads : k.time \in Int

VARIABLES
  rctxt,      \* the limits of this judgement
  killer,     \* control point of the thread
  karg,       \* what it read from its argument
  sleepLeft,  \* milliseconds until its sleep is over
  cancelReq,  \* pthread_cancel has been called on it
  detached    \* it has detached itself

killerVars == <<killer, karg, sleepLeft, cancelReq, detached>>

KillerPoints == {"none", "created", "entered", "sleeping", "timed_out", "aborting", "gone"}

KillerInit == /\ killer    = "none"
              /\ karg      = [pid |-> Direct, time |-> 0]
              /\ sleepLeft = 0
              /\ cancelReq = FALSE
              /\ detached  = FALSE

(* struct tkill_ctxt tctxt, the argument in its creator's frame.           *)
tctxt == [pid |-> Direct, time |-> rctxt.real_time]

-----------------------------------------------------------------------------

(* pid and time are read through the argument pointer.                     *)
KillerReads(frameLive) ==
  /\ killer = "created"
  /\ killer' = "entered"
  /\ karg' \in {tctxt} \cup (IF frameLive THEN {} ELSE StaleReads)
  /\ UNCHANGED <<sleepLeft, cancelReq, detached>>

(* pthread_detach has no effect on a thread that is already being joined,  *)
(* and still returns 0.                                                    *)
KillerDetaches(joined) ==
  /\ killer = "entered"
  /\ killer' = "sleeping"
  /\ detached' = ~joined
  /\ sleepLeft' = SleepTicks(karg.time)
  /\ UNCHANGED <<karg, cancelReq>>

KillerFailsToDetach ==
  /\ killer = "entered"
  /\ Fails("pthread_detach")
  /\ killer' = "aborting"
  /\ UNCHANGED <<karg, sleepLeft, cancelReq, detached>>

(* sleep() is the thread's cancellation point.                             *)
KillerCancelled ==
  /\ killer = "sleeping" /\ cancelReq
  /\ killer' = "gone"
  /\ UNCHANGED <<karg, sleepLeft, cancelReq, detached>>

KillerTimesOut ==
  /\ killer = "sleeping" /\ ~cancelReq
  /\ sleepLeft = 0
  /\ killer' = "timed_out"
  /\ UNCHANGED <<karg, sleepLeft, cancelReq, detached>>

(* A signal handler interrupts the sleep, which returns early.             *)
KillerInterrupted ==
  /\ killer = "sleeping" /\ ~cancelReq
  /\ Fails("sleep")
  /\ sleepLeft # 0
  /\ killer' = "aborting"
  /\ UNCHANGED <<karg, sleepLeft, cancelReq, detached>>

(* killpg is no cancellation point: a pending cancellation changes nothing. *)
KillerKills ==
  /\ killer \in {"timed_out", "aborting"}
  /\ killpg(karg.pid, IF killer = "timed_out" THEN "timeout" ELSE "abort")
  /\ killer' = "gone"
  /\ UNCHANGED <<karg, sleepLeft, cancelReq, detached>>
  /\ UNCHANGED <<group, limited, confined, yerrno>>

timeout_killer(frameLive, joined) ==
  \/ /\ \/ KillerReads(frameLive)
        \/ KillerDetaches(joined)
        \/ KillerFailsToDetach
        \/ KillerCancelled
        \/ KillerTimesOut
        \/ KillerInterrupted
     /\ UNCHANGED procVars
  \/ KillerKills

(* A millisecond passes for whom it matters: the clock, once it has been   *)
(* started and until it stops at MaxClock, and a sleeping killer.          *)
ClockRuns   == clock # NoStamp /\ clock < MaxClock
KillerSleeps == killer = "sleeping" /\ sleepLeft > 0

Tick ==
  /\ ClockRuns \/ KillerSleeps
  /\ clock'     = IF ClockRuns THEN clock + 1 ELSE clock
  /\ sleepLeft' = IF KillerSleeps THEN sleepLeft - 1 ELSE sleepLeft
  /\ UNCHANGED <<killer, karg, cancelReq, detached>>
  /\ UNCHANGED procVars

=============================================================================
