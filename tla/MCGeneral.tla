----------------------------- MODULE MCGeneral -----------------------------
(***************************************************************************)
(* GeneralJudger on small instances: seconds of two milliseconds, ints of  *)
(* a few bits, a few limits on either side of what the program may use.     *)
(***************************************************************************)
EXTENDS GeneralJudger

Limit(real, cpu, vm, am) ==
  [real_time |-> real, cpu_time |-> cpu, virtual_memory |-> vm, actual_memory |-> am,
   stack_memory |-> 0, output_size |-> 0, fileno |-> 0]

(* No limit; a real time limit below, at and above a second; every limit.  *)
MCLimits == {Limit(0, 0, 0, 0), Limit(1, 0, 0, 0), Limit(2, 0, 0, 0), Limit(3, 1, 4, 4)}

(* Limits that are met or exceeded, one the judger is to refuse, and a      *)
(* negative real time, which it takes.                                     *)
MCAnyLimits == {Limit(0, 0, 0, 0), Limit(2, 0, 0, 0), Limit(3, 1, 4, 4), Limit(1, -1, 0, 0),
                Limit(-5, 0, 0, 0)}

MCUsages == {[cpu |-> 0, maxrss |-> 1], [cpu |-> 2, maxrss |-> 3]}

MCNoPast == {[cpu |-> 0, maxrss |-> 0]}

MCUsage == {[cpu |-> 2, maxrss |-> 3]}

MCFewSignals == {"SIGSEGV"}
MCSignals == {"SIGKILL", "SIGSEGV", "SIGXCPU", "SIGFPE"}

(* Every call that can fail without the judger being left to wait.         *)
MCCallFaults == {"pipe", "compile", "fcntl", "fork", "setpgid", "open", "dup2",
                 "setrlimit", "seccomp", "execve", "execve_policy",
                 "pthread_detach", "sleep", "waitpid", "getrusage"}
MCAllFaults == MCCallFaults \cup {"read", "pthread_create", "early_death", "stop"}

MCStaleReads == {[pid |-> Direct, time |-> 0], [pid |-> "stranger", time |-> 1]}

=============================================================================
