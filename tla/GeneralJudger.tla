--------------------------- MODULE GeneralJudger ---------------------------
(***************************************************************************)
(* yjudger_general (src/judger/general.c): one child, which joins a        *)
(* process group of its own, opens its files, takes on its limits and its  *)
(* filter, reports through p_run and becomes the judged program.           *)
(***************************************************************************)
EXTENDS Children

ASSUME OneChild == Procs = {Direct}

child == Direct

Init == SessionInit

-----------------------------------------------------------------------------
(* The child, from fork to execve.                                         *)

(* The child stays in the judger's process group.                          *)
ChildSetpgid_skipped ==
  /\ ChildAt(child, "born", "grouped")
  /\ UNCHANGED <<group, limited, confined, obit, yerrno>>

ChildSetpgid ==
  /\ \/ /\ ChildAt(child, "born", "grouped")
        /\ group' = group \cup {child}
        /\ UNCHANGED yerrno
     \/ Fails("setpgid") /\ ChildFails(child, "born", E_SETPGID) /\ UNCHANGED group
  /\ UNCHANGED <<limited, confined, obit>>

runner_prework ==
  /\ \/ argc >= 4 /\ ChildAt(child, "grouped", "wired") /\ UNCHANGED yerrno
     \/ argc < 4 /\ ChildFails(child, "grouped", E_ARGC)
     \/ argc >= 4 /\ Fails("open") /\ ChildFails(child, "grouped", E_FILEFD)
     \/ argc >= 4 /\ Fails("dup2") /\ ChildFails(child, "grouped", E_DUP)
  /\ UNCHANGED <<group, limited, confined, obit>>

(* A child that fails exits without a word.                                *)
ChildSends_silent ==
  /\ \/ ChildAt(child, "failing", "exiting") /\ UNCHANGED p_run
     \/ ChildAt(child, "confined", "ready")  /\ p_run' = Append(p_run, "READY")
  /\ UNCHANGED <<group, limited, confined, obit, yerrno>>

(* The return value of send_signal is not looked at.                       *)
ChildSends ==
  /\ \/ ChildAt(child, "failing", "exiting") /\ p_run' = Append(p_run, "FAILED")
     \/ ChildAt(child, "confined", "ready")  /\ p_run' = Append(p_run, "READY")
  /\ UNCHANGED <<group, limited, confined, obit, yerrno>>

runner_run == ChildExec(child)

(* What the child does of itself, whatever the program.                    *)
ChildSetup ==
  /\ \/ /\ \/ ChildSetpgid \/ runner_prework \/ apply_resource_limit(child)
           \/ apply_policy(child, "limited") \/ ChildExits(child) \/ runner_run
        /\ UNCHANGED p_run
     \/ ChildSends
  /\ UNCHANGED <<threadVars, ctxtVars, killerVars, clock>>

ChildOther ==
  /\ Program(child) \/ EarlyDeath(child)
  /\ UNCHANGED <<judgerVars, killerVars, clock>>

-----------------------------------------------------------------------------

JudgerStep == Create(TRUE) \/ Judger

Next == /\ JudgerStep \/ KillerThread \/ ChildSetup \/ ChildOther \/ Passage \/ Over
        /\ UNCHANGED inputVars

Spec == Init /\ [][Next]_vars

(* The kernel schedules the judger's threads and the child and its clock   *)
(* goes on; nothing is assumed of the judged program.                      *)
Fairness == /\ WF_vars(JudgerStep /\ UNCHANGED inputVars)
            /\ WF_vars(KillerThread /\ UNCHANGED inputVars)
            /\ WF_vars(ChildSetup /\ UNCHANGED inputVars)
            /\ WF_vars(Passage /\ UNCHANGED inputVars)

FairSpec == Spec /\ Fairness

-----------------------------------------------------------------------------

(* The judger times, waits for and kills only a child that has joined its  *)
(* own group, taken on its limits and its filter: what it learnt from the  *)
(* pipe (general.c:99,119) holds of the child from then on.                *)
Handshake ==
  (pc \in {"after_fork", "after_wait"} \/ Judged \/ killer # "none") =>
    child \in group /\ child \in limited /\ child \in confined

(* The judged program never runs without its limits, its filter and a      *)
(* group of its own.                                                       *)
OnlyConfinedRuns ==
  at[child] \in {"running", "stopped"} =>
    child \in group /\ child \in limited /\ child \in confined

(* A child whose setup failed makes the judger return E_CHILD: it is never *)
(* judged by the code it exits with.                                       *)
SetupFailureReported ==
  yerrno[child] \notin {0, E_EXEC} => ret \in {Running, E_CHILD}

(* The same when any call may fail that does not leave the judger waiting: *)
(* every failed step of the setup is reported to it and ends the child.    *)
TerminatesDespiteFaults ==
  /\ rctxt.real_time # RSC_UNLIMITED ~> pc = "returned"
  /\ at[child] = "failing" ~> at[child] \in {"zombie", "reaped"}

(* No judgement returns, in whatever way, with the program still to run or *)
(* running.                                                                *)
NoOrphan ==
  pc = "returned" => at[child] \notin {"confined", "ready", "running", "stopped"}

(* A killer that has ended without being told to has left no live program  *)
(* behind: its one killpg, after the sleep or because detaching or the     *)
(* sleep failed, finds the child in the group it is sent to, because the   *)
(* child joins that group before it says READY and there is no killer      *)
(* before (general.c:97-119, tkill.c:20-43).                               *)
KillEndsProgram ==
  killer = "gone" => cancelReq \/ at[child] \in {"zombie", "reaped"}

-----------------------------------------------------------------------------
(* What all this is to the caller: a Judgement.                            *)

program == CASE at[child] = "unborn" -> "none"
             [] at[child] \in {"zombie", "reaped"} ->
                  IF child \in confined THEN "over" ELSE "abandoned"
             [] OTHER -> IF child \in confined THEN "admitted" ELSE "setup"

answer == IF pc # "returned" THEN "pending" ELSE IF ret = 0 THEN result.code ELSE "error"

J == INSTANCE Judgement WITH program <- program, death <- obit[child].st, answer <- answer

(* Every step of judger, killer, child and program is a step of the        *)
(* Judgement or none: one answer, a verdict only on a program that was     *)
(* admitted and has ended and only one that fits its end, an error only    *)
(* when nothing runs and nothing will (general.c:75-139).                  *)
IsJudgement == J!Spec

-----------------------------------------------------------------------------
(* Why the hand-shake can be trusted: what the child has done at each      *)
(* point, and where the judger can be meanwhile.                           *)

SetUp == child \in group /\ child \in limited /\ child \in confined

JudgerWaits == \/ pc = "wait_ready" /\ ret = Running
               \/ pc = "returned" /\ ret = E_CHILD

StageInv ==
  /\ at[child] \in {"grouped", "wired", "limited", "confined", "ready", "running", "stopped"} =>
       child \in group
  /\ at[child] \in {"limited", "confined", "ready", "running", "stopped"} => child \in limited
  /\ at[child] \in {"confined", "ready", "running", "stopped"} => child \in confined
  /\ ReadySent => SetUp

FailureInv ==
  /\ ret = Running <=> pc # "returned"
  /\ at[child] = "unborn" => pc \in {"init", "before_fork", "returned"}
  /\ pc \in {"init", "before_fork"} => at[child] = "unborn"
  /\ at[child] \in {"unborn", "born", "grouped", "wired", "limited", "confined"} => ~ReadySent
  /\ at[child] \in {"born", "grouped", "wired", "limited"} => JudgerWaits /\ yerrno[child] = 0
  /\ at[child] \in {"unborn", "confined", "ready", "running", "stopped"} => yerrno[child] = 0
  /\ at[child] = "failing" => yerrno[child] \notin {0, E_EXEC}
  /\ yerrno[child] \notin {0, E_EXEC} =>
       JudgerWaits /\ ~ReadySent /\ at[child] \in {"failing", "exiting", "zombie"}

(* The hand-shake of judger and child, as an invariant that holds by        *)
(* induction.                                                              *)
HandshakeInv == StageInv /\ Handshake /\ FailureInv

(* Why the answer is a Judgement's: FAILED comes from a child that is not  *)
(* confined, the judger only returns when the child is not to run any      *)
(* more, and the verdict fits the status that it was reached from.         *)
AnswerInv ==
  /\ at[child] # "stopped"
  /\ FailedSent => yerrno[child] \notin {0, E_EXEC} /\ at[child] \in {"exiting", "zombie"}
  /\ \/ yerrno[child] \notin {0, E_EXEC}
     \/ at[child] \in {"unborn", "born", "grouped", "wired", "limited", "failing"}
     => child \notin confined
  /\ pc = "after_wait" => at[child] = "reaped"
  /\ pc = "returned" => \/ at[child] \in {"unborn", "zombie", "reaped"}
                        \/ at[child] = "exiting" /\ child \notin confined
  /\ at[child] \notin {"zombie", "reaped"} => obit[child].st = NoObit.st
  /\ at[child] \in {"zombie", "reaped"} => obit[child].st.how \in {"exited", "signaled"}
  /\ pc = "after_wait" /\ todo = <<>> => result.code \in J!Permitted(status)

(* The hand-shake is kept and the answer fits the program, at every point   *)
(* between the fork and the return (general.c:75-139).                      *)
JudgementInv == HandshakeInv /\ AnswerInv

=============================================================================
