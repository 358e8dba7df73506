------------------------------ MODULE Verdict ------------------------------
(***************************************************************************)
(* How a termination status, the measured usage and the limits become a    *)
(* verdict: the pure part of src/lib/builtin_hook.c, and the arithmetic of *)
(* the timeout killer's sleep (src/lib/tkill.c).                           *)
(*                                                                         *)
(* A C int holds -IntBound .. IntBound-1; KB is the factor between the     *)
(* kernel's ru_maxrss and the bytes of result.real_memory; Second is the   *)
(* number of milliseconds in a second.  The three are constants so that    *)
(* TLC can check the arithmetic with small words.                          *)
(***************************************************************************)
EXTENDS Integers

CONSTANTS IntBound, KB, Second

ASSUME WordAssumption == /\ IntBound \in Nat \ {0}
                         /\ KB \in Nat \ {0}
                         /\ Second \in Nat \ {0}

ToInt(n)      == ((n + IntBound) % (2 * IntBound)) - IntBound
ToUnsigned(n) == n % (2 * IntBound)

(* C's division truncates towards zero. *)
CDiv(a, b) == IF a >= 0 THEN a \div b ELSE -((-a) \div b)

RSC_UNLIMITED == 0

-----------------------------------------------------------------------------
(* What waitpid reports of a process. *)

NoSignal == "none"

Exited(c)   == [how |-> "exited",   code |-> c, sig |-> NoSignal]
Signaled(s) == [how |-> "signaled", code |-> 0, sig |-> s]
Stopped     == [how |-> "stopped",  code |-> 0, sig |-> NoSignal]

(* ctxt->result is a piece of a malloc'ed block: nothing is stored in it   *)
(* before init_result_before_fork.                                         *)
UninitResult == [code |-> "UNINIT", signal |-> "UNINIT", exit_code |-> -1,
                 real_time |-> -1, cpu_time |-> -1, real_memory |-> -1]

-----------------------------------------------------------------------------

(* An off-by-one of real_tle: one millisecond over the limit still passes. *)
real_tle_lax(rctxt, result) ==
  /\ rctxt.real_time # RSC_UNLIMITED
  /\ result.real_time > rctxt.real_time + 1

real_tle(rctxt, result) ==
  /\ rctxt.real_time # RSC_UNLIMITED
  /\ result.real_time > rctxt.real_time

cpu_tle(rctxt, result) ==
  /\ rctxt.cpu_time # RSC_UNLIMITED
  /\ result.cpu_time > rctxt.cpu_time

real_mle(rctxt, result) ==
  /\ rctxt.actual_memory # RSC_UNLIMITED
  /\ result.real_memory > rctxt.actual_memory

(* The switch of set_signal_status; a signal it does not list, and a       *)
(* SIGKILL before the real time limit, leave the code of init_result.      *)
signal_code(rctxt, result, sig) ==
  CASE sig = "SIGUSR1" -> "SE"
    [] sig = "SIGSYS"  -> "DSC"
    [] sig = "SIGXCPU" -> "TLE"
    [] sig = "SIGSEGV" -> IF rctxt.virtual_memory = RSC_UNLIMITED THEN "RE" ELSE "MLE"
    [] sig = "SIGXFSZ" -> "OLE"
    [] sig = "SIGKILL" /\ real_tle(rctxt, result) -> "TLE"
    [] sig = "SIGABRT" -> "RE"
    [] OTHER           -> result.code

set_signal_status(rctxt, result, sig) ==
  [result EXCEPT !.signal = sig, !.code = signal_code(rctxt, result, sig)]

set_exitcode_status(rctxt, result, c) ==
  LET mle == real_mle(rctxt, result)
      tle == real_tle(rctxt, result) \/ cpu_tle(rctxt, result)
  IN  [result EXCEPT !.exit_code = c,
                     !.code = CASE c # 0                 -> "ECE"
                                [] c = 0 /\ mle          -> "MLE"
                                [] c = 0 /\ ~mle /\ tle  -> "TLE"
                                [] OTHER                 -> "OK"]

(* WIFSIGNALED and WIFEXITED are both false of a stopped process. *)
analyze(rctxt, result, status, maxrss) ==
  LET r == [result EXCEPT !.real_memory = ToInt(maxrss * KB)]
  IN  CASE status.how = "signaled" -> set_signal_status(rctxt, r, status.sig)
        [] status.how = "exited"   -> set_exitcode_status(rctxt, r, status.code)
        [] OTHER                   -> r

-----------------------------------------------------------------------------

(* An off-by-one of SleepTicks: seconds rounded down instead of up.        *)
SleepTicksDown(time) == ToUnsigned(CDiv(time, Second)) * Second

(* Without the conversion to unsigned.                                     *)
SleepTicksSigned(time) == CDiv(ToInt(time + Second), Second) * Second

(* How many milliseconds timeout_killer sleeps: sleep() takes an unsigned  *)
(* number of whole seconds.                                                *)
SleepTicks(time) == ToUnsigned(CDiv(ToInt(time + Second), Second)) * Second

=============================================================================
