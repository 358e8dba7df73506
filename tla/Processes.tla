----------------------------- MODULE Processes -----------------------------
(***************************************************************************)
(* The part of the operating system the judgers rely on: the processes     *)
(* they fork, the process group of the forked child, resource limits and   *)
(* seccomp filters, death by exit or signal, and the wall clock.           *)
(*                                                                         *)
(* Procs are the processes a judgement forks; Direct is the one the judger *)
(* forks itself (child_pid), which also names the process group.  Faults   *)
(* is the set of calls that may fail (and of mishaps that may befall a     *)
(* child): a fallible call outside it always succeeds.                     *)
(***************************************************************************)
EXTENDS Verdict, Yerr

CONSTANTS Procs, Direct, Faults,
          ExitCodes,  \* the codes a judged program may exit with
          Signals,    \* the signals that may end it
          Usages,     \* [cpu, maxrss] it may have used
          MaxClock    \* bound on the clock, which stops there

ASSUME ProcessAssumption ==
  /\ Direct \in Procs
  /\ ExitCodes \subseteq Nat
  /\ Signals \subseteq (STRING \ {NoSignal})
  /\ Usages \subseteq [cpu : Nat, maxrss : Nat]
  /\ Usages # {}
  /\ MaxClock \in Nat

VARIABLES
  at,        \* control point of each process
  group,     \* the members of Direct's process group
  limited,   \* the processes whose resource limits have been set
  confined,  \* the processes under the compiled seccomp filter
  obit,      \* how each process ended
  yerrno,    \* each forked process's copy of yerrno
  clock      \* milliseconds since the start time was taken

procVars == <<at, group, limited, confined, obit, yerrno>>

NoStamp == -1   \* the clock before the start time is taken

NoObit == [st |-> [how |-> "none", code |-> 0, sig |-> NoSignal],
           cpu |-> 0, maxrss |-> 0, when |-> NoStamp, by |-> "none"]

(* Signals, and those the system sends of itself.                          *)
AllSignals == Signals \cup {"SIGKILL", "SIGSYS", "SIGXFSZ", NoSignal}

StatusRecord == [how : {"none", "exited", "signaled", "stopped"}, code : Nat, sig : AllSignals]

ObitRecord == [st : StatusRecord, cpu : Nat, maxrss : Nat,
               when : {NoStamp} \cup 0..MaxClock,
               by : {"none", "program", "kernel", "timeout", "abort", "judger"}]

ProcInit == /\ at       = [p \in Procs |-> "unborn"]
            /\ group    = {}
            /\ limited  = {}
            /\ confined = {}
            /\ obit     = [p \in Procs |-> NoObit]
            /\ yerrno   = [p \in Procs |-> 0]
            /\ clock    = NoStamp

(* Where a child may be between its fork and its execve, and afterwards.   *)
ChildPoints == {"unborn", "born", "grouped", "forked", "wired", "limited", "confined",
                "paired", "ready", "running", "stopped", "failing", "exiting", "zombie", "reaped"}

Fails(call) == call \in Faults

Live(p) == at[p] \notin {"unborn", "zombie", "reaped"}

-----------------------------------------------------------------------------

(* The processes of D end with status st, by whom is recorded in the obit. *)
Die(D, st, by) ==
  \E u \in Usages :
    /\ at'   = [p \in Procs |-> IF p \in D THEN "zombie" ELSE at[p]]
    /\ obit' = [p \in Procs |->
                  IF p \in D
                  THEN [st |-> st, cpu |-> u.cpu, maxrss |-> u.maxrss,
                        when |-> clock, by |-> by]
                  ELSE obit[p]]

Members(g) == IF g = Direct THEN {p \in group : Live(p)} ELSE {}

(* killpg(g, SIGKILL). *)
killpg(g, by) == Die(Members(g), Signaled("SIGKILL"), by)

(* A process image replaced by execve runs a program the judger knows      *)
(* nothing of: it exits, is ended by a signal, or is stopped and continued. *)
ProgramExits(p) ==
  /\ at[p] = "running"
  /\ \E c \in ExitCodes : Die({p}, Exited(c), "program")
  /\ UNCHANGED <<group, limited, confined, yerrno>>

ProgramKilled(p) ==
  /\ at[p] = "running"
  /\ \E s \in Signals : Die({p}, Signaled(s), "program")
  /\ UNCHANGED <<group, limited, confined, yerrno>>

ProgramStops(p) ==
  /\ Fails("stop")
  /\ at[p] = "running"
  /\ at' = [at EXCEPT ![p] = "stopped"]
  /\ UNCHANGED <<group, limited, confined, obit, yerrno>>

ProgramContinues(p) ==
  /\ at[p] = "stopped"
  /\ at' = [at EXCEPT ![p] = "running"]
  /\ UNCHANGED <<group, limited, confined, obit, yerrno>>

Program(p) == ProgramExits(p) \/ ProgramKilled(p) \/ ProgramStops(p) \/ ProgramContinues(p)

(* A child can die of what was set upon it wherever it still writes, to    *)
(* the log or to a pipe, before the judged program: of its limits (a log   *)
(* line past RLIMIT_FSIZE is SIGXFSZ) or of its filter (a policy that      *)
(* denies write(2) is SIGSYS).                                             *)
EarlyDeath(p) ==
  /\ Fails("early_death")
  /\ at[p] \in {"limited", "confined", "paired", "failing", "exiting"}
  /\ \/ p \in limited  /\ Die({p}, Signaled("SIGXFSZ"), "kernel")
     \/ p \in confined /\ Die({p}, Signaled("SIGSYS"), "kernel")
  /\ UNCHANGED <<group, limited, confined, yerrno>>

=============================================================================
