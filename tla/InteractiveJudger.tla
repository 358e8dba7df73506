------------------------- MODULE InteractiveJudger -------------------------
(***************************************************************************)
(* yjudger_interactive (src/judger/interactive.c): the judger's child is   *)
(* the interactor, which forks the executable, waits on the pipe i_run     *)
(* until that is ready and only then reports through p_run.  The judger    *)
(* waits for, measures and judges the interactor alone.                    *)
(***************************************************************************)
EXTENDS Children

CONSTANT Executable   \* the process the interactor forks

ASSUME TwoChildren == Executable # Direct /\ Procs = {Direct, Executable}

interactor == Direct
executable == Executable

VARIABLE i_run        \* the signals in the interactor's own pipe

ivars == <<vars, i_run>>

Init == SessionInit /\ i_run = <<>>

-----------------------------------------------------------------------------
(* The interactor, from fork to execve.                                    *)

(* The group is joined if it can be: the result of setpgid is ignored.     *)
InteractorStarts ==
  /\ group' \in {group \cup {interactor}} \cup (IF Fails("setpgid") THEN {group} ELSE {})
  /\ \/ ChildAt(interactor, "born", "grouped") /\ UNCHANGED yerrno
     \/ Fails("pipe_child") /\ ChildFails(interactor, "born", E_PIPE)
  /\ UNCHANGED <<limited, confined, obit>>

(* The executable is forked before the group is joined.                    *)
InteractorForks_ungrouped ==
  /\ at[interactor] = "grouped"
  /\ at' = [at EXCEPT ![interactor] = "forked", ![executable] = "born"]
  /\ UNCHANGED <<group, limited, confined, obit, yerrno>>

(* The executable inherits the group; that there may be none is not seen.  *)
InteractorForks ==
  /\ at[interactor] = "grouped"
  /\ \/ /\ at' = [at EXCEPT ![interactor] = "forked", ![executable] = "born"]
        /\ group' = IF interactor \in group THEN group \cup {executable} ELSE group
     \/ /\ Fails("fork_child")
        /\ at' = [at EXCEPT ![interactor] = "forked"]
        /\ UNCHANGED group
  /\ UNCHANGED <<limited, confined, obit, yerrno>>

interactor_prework ==
  /\ \/ ChildAt(interactor, "forked", "wired") /\ UNCHANGED yerrno
     \/ Fails("dup2") /\ ChildFails(interactor, "forked", E_DUP)
     \/ Fails("open") /\ ChildFails(interactor, "forked", E_ERRFD)
  /\ UNCHANGED <<group, limited, confined, obit>>

(* Whatever the executable says is good enough.                            *)
executable_ready_any(sig) == sig \in {"READY", "FAILED"}

executable_ready(sig) == sig = "READY"

(* The interactor holds i_run's write end itself: read() returns a signal  *)
(* or, interrupted, an error.                                              *)
InteractorReads ==
  /\ at[interactor] = "confined"
  /\ \/ /\ i_run # <<>>
        /\ i_run' = Tail(i_run)
        /\ \/ /\ executable_ready(Head(i_run))
              /\ ChildAt(interactor, "confined", "paired")
              /\ UNCHANGED yerrno
           \/ /\ ~executable_ready(Head(i_run))
              /\ ChildFails(interactor, "confined", E_INTACT_EXEC)
     \/ Fails("read") /\ ChildFails(interactor, "confined", E_INTACT_EXEC) /\ UNCHANGED i_run
  /\ UNCHANGED <<group, limited, confined, obit, p_run>>

(* The return value of send_signal is not looked at.                       *)
InteractorSends ==
  /\ \/ ChildAt(interactor, "failing", "exiting") /\ p_run' = Append(p_run, "FAILED")
     \/ ChildAt(interactor, "paired", "ready")    /\ p_run' = Append(p_run, "READY")
  /\ UNCHANGED <<group, limited, confined, obit, yerrno, i_run>>

-----------------------------------------------------------------------------
(* The executable, from fork to execve.                                    *)

executable_prework ==
  /\ \/ ChildAt(executable, "born", "wired") /\ UNCHANGED yerrno
     \/ Fails("dup2") /\ ChildFails(executable, "born", E_DUP)
     \/ Fails("open") /\ ChildFails(executable, "born", E_ERRFD)
  /\ UNCHANGED <<group, limited, confined, obit>>

(* An executable that fails exits without a word.                          *)
ExecutableSends_silent ==
  /\ \/ ChildAt(executable, "failing", "exiting")  /\ UNCHANGED i_run
     \/ ChildAt(executable, "confined", "ready") /\ i_run' = Append(i_run, "READY")
  /\ UNCHANGED <<group, limited, confined, obit, yerrno, p_run>>

ExecutableSends ==
  /\ \/ ChildAt(executable, "failing", "exiting")  /\ i_run' = Append(i_run, "FAILED")
     \/ ChildAt(executable, "confined", "ready") /\ i_run' = Append(i_run, "READY")
  /\ UNCHANGED <<group, limited, confined, obit, yerrno, p_run>>

-----------------------------------------------------------------------------

(* What the two do of themselves, whatever the programs.                   *)
InteractorSetup ==
  \/ /\ \/ InteractorStarts \/ InteractorForks \/ interactor_prework
        \/ apply_policy(interactor, "wired")
        \/ ChildExec(interactor) \/ ChildExits(interactor)
     /\ UNCHANGED <<p_run, i_run>>
  \/ InteractorReads \/ InteractorSends

ExecutableSetup ==
  \/ /\ \/ executable_prework \/ apply_resource_limit(executable)
        \/ apply_policy(executable, "limited")
        \/ ChildExec(executable) \/ ChildExits(executable)
     /\ UNCHANGED <<p_run, i_run>>
  \/ ExecutableSends

ChildSetup == /\ InteractorSetup \/ ExecutableSetup
              /\ UNCHANGED <<threadVars, ctxtVars, killerVars, clock>>

ChildOther == /\ \E p \in Procs : Program(p) \/ EarlyDeath(p)
              /\ UNCHANGED <<judgerVars, killerVars, clock, i_run>>

JudgerStep == Create(argc = 6) \/ Judger

Next == /\ \/ JudgerStep /\ UNCHANGED i_run
           \/ KillerThread /\ UNCHANGED i_run
           \/ ChildSetup
           \/ ChildOther
           \/ Passage /\ UNCHANGED i_run
           \/ Over /\ UNCHANGED i_run
        /\ UNCHANGED inputVars

Spec == Init /\ [][Next]_ivars

(* Each process and thread is scheduled by the kernel on its own; nothing  *)
(* is assumed of the two programs.                                         *)
Fairness ==
  /\ WF_ivars(JudgerStep /\ UNCHANGED <<inputVars, i_run>>)
  /\ WF_ivars(KillerThread /\ UNCHANGED <<inputVars, i_run>>)
  /\ WF_ivars(Passage /\ UNCHANGED <<inputVars, i_run>>)
  /\ WF_ivars(InteractorSetup /\ UNCHANGED <<inputVars, threadVars, ctxtVars, killerVars, clock>>)
  /\ WF_ivars(ExecutableSetup /\ UNCHANGED <<inputVars, threadVars, ctxtVars, killerVars, clock>>)

FairSpec == Spec /\ Fairness

-----------------------------------------------------------------------------

(* The interactor becomes a program, and the judger times and judges it,   *)
(* only once the executable has taken on its limits and its filter and     *)
(* shares the interactor's group (interactive.c:115,156).                  *)
JointStart ==
  \/ at[interactor] \in {"paired", "ready", "running", "stopped"}
  \/ pc \in {"after_fork", "after_wait"} \/ Judged \/ killer # "none"
  => /\ interactor \in confined /\ executable \in limited \cap confined
     /\ interactor \in group => executable \in group

(* Neither program of the pair runs without the filter, nor the executable *)
(* without its limits.                                                     *)
OnlyConfinedRun ==
  /\ \A p \in Procs : at[p] \in {"running", "stopped"} => p \in confined
  /\ at[executable] \in {"running", "stopped"} => executable \in limited

(* A step of the setup that fails, in the interactor or two pipes away in  *)
(* the executable, is the judger's E_CHILD and never becomes a verdict.    *)
PairFailureReported ==
  \A p \in Procs : yerrno[p] \notin {0, E_EXEC} => ret \in {Running, E_CHILD}

(* A timeout ends both programs: nobody of the pair is left to write to    *)
(* the other's pipe.                                                       *)
TimeoutEndsBoth ==
  \A p \in Procs : obit[p].by = "timeout" => \A q \in Procs : ~Live(q)

(* To the caller the pair is a Judgement of the interactor, which is       *)
(* admitted once the executable has reported that it is ready.             *)
SetupFailed == yerrno[interactor] \notin {0, E_EXEC}

program == CASE at[interactor] = "unborn" -> "none"
             [] at[interactor] \in {"zombie", "reaped"} ->
                  IF SetupFailed THEN "abandoned" ELSE "over"
             [] \/ at[interactor] \in {"paired", "ready", "running", "stopped"}
                \/ at[interactor] = "exiting" /\ ~SetupFailed -> "admitted"
             [] OTHER -> "setup"

answer == IF pc # "returned" THEN "pending" ELSE IF ret = 0 THEN result.code ELSE "error"

J == INSTANCE Judgement WITH program <- program, death <- obit[interactor].st, answer <- answer

(* Every step of the judger and its two children is a step of the          *)
(* Judgement or none: no verdict but on an interactor that was admitted    *)
(* and has ended, no error while it runs (interactive.c:75-176).           *)
IsJudgement == J!Spec

(* With a real time limit the judgement ends whatever the two programs do  *)
(* and whichever step fails that the code watches for, and a process whose *)
(* setup failed ends as well.                                              *)
PairTerminates ==
  /\ rctxt.real_time # RSC_UNLIMITED ~> pc = "returned"
  /\ \A p \in Procs : at[p] = "failing" ~> at[p] \in {"zombie", "reaped"}

(* With a real time limit (cli.ggo:61) the executable does not run for ever. *)
ExecutableTimed ==
  rctxt.real_time # RSC_UNLIMITED /\ at[executable] = "running"
    ~> at[executable] # "running"

-----------------------------------------------------------------------------
(* Why the pair's safety properties hold.                                  *)

PairReady == \E i \in 1..Len(i_run) : i_run[i] = "READY"

BadSetup(p) == yerrno[p] \notin {0, E_EXEC}

(* A process whose setup has succeeded; whether it has ended is open.      *)
WentWell(p) == /\ at[p] \in {"ready", "running", "stopped", "exiting", "zombie", "reaped"}
               /\ p \in confined
               /\ ~BadSetup(p)

ExecutableWentWell == WentWell(executable) /\ executable \in limited

(* What each has done at its point; the executable is born after the       *)
(* interactor has joined the group.                                        *)
PairStageInv ==
  /\ i_run \in Seq({"FAILED", "READY"})
  /\ pc \in {"init", "before_fork"} => at[interactor] = "unborn"
  /\ pc # "returned" => ret = Running
  /\ at[interactor] \in {"unborn", "born", "grouped"} => at[executable] = "unborn"
  /\ at[interactor] = "unborn" => group = {}
  /\ at[executable] = "unborn" => executable \notin group
  /\ at[executable] # "unborn" => (interactor \in group <=> executable \in group)
  /\ \A p \in Procs :
       /\ at[p] \notin {"failing", "exiting", "zombie", "reaped"} => yerrno[p] = 0
       /\ at[p] \in {"confined", "paired", "ready", "running", "stopped"} => p \in confined
  /\ at[executable] \in {"limited", "confined", "ready", "running", "stopped"}
       => executable \in limited

(* READY says that the one who sent it, and the one behind it, is set up.  *)
PairHandshakeInv ==
  /\ PairReady => ExecutableWentWell
  /\ at[interactor] \in {"paired", "ready", "running", "stopped"} => ExecutableWentWell
  /\ ReadySent => WentWell(interactor) /\ ExecutableWentWell
  /\ \/ pc \in {"after_fork", "after_wait"} \/ killer # "none" \/ ret = 0
     \/ ret \notin {Running, E_CHILD} /\ at[interactor] # "unborn"
     => WentWell(interactor) /\ ExecutableWentWell

(* The pair's hand-shakes: what each of the three knows of the next.       *)
PairInv == PairStageInv /\ PairHandshakeInv

(* After a timeout both have ended, and neither will be forked.            *)
PairTimeoutInv ==
  (\E p \in Procs : obit[p].by = "timeout") =>
    \A q \in Procs : at[q] \in {"zombie", "reaped"}

=============================================================================
