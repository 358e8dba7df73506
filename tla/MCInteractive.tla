--------------------------- MODULE MCInteractive ---------------------------
(***************************************************************************)
(* InteractiveJudger on small instances: seconds of two milliseconds, ints *)
(* of a few bits, two or three limits and a usage or two.                   *)
(***************************************************************************)
EXTENDS InteractiveJudger

Limit(real, cpu, am) ==
  [real_time |-> real, cpu_time |-> cpu, virtual_memory |-> 0, actual_memory |-> am,
   stack_memory |-> 0, output_size |-> 0, fileno |-> 0]

(* No limit; a real time limit; a limit of every measured kind.            *)
MCLimits == {Limit(0, 0, 0), Limit(1, 0, 0), Limit(2, 2, 6)}

(* With a limit the executable is to refuse.                               *)
MCRefusedLimits == {Limit(1, -1, 0), Limit(2, 2, 6)}

MCUsage  == {[cpu |-> 2, maxrss |-> 3]}
MCNoPast == {[cpu |-> 0, maxrss |-> 0]}

MCSignals == {"SIGSEGV"}

(* The calls of the two setups whose failure the code watches for.         *)
MCSetupFaults == {"pipe_child", "open", "dup2", "setrlimit", "seccomp", "execve",
                  "execve_policy"}

(* Every mishap of the model.                                              *)
MCAllFaults == MCSetupFaults \cup
  {"pipe", "compile", "fcntl", "fork", "pthread_detach", "sleep", "waitpid", "getrusage",
   "setpgid", "fork_child", "read", "pthread_create", "early_death", "stop"}

=============================================================================
