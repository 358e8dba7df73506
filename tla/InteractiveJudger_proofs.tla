---------------------- MODULE InteractiveJudger_proofs ----------------------
(***************************************************************************)
(* Proofs about InteractiveJudger, for all values of its constants: those  *)
(* of the session carry over, and the three-party hand-shake is added.     *)
(***************************************************************************)
EXTENDS InteractiveJudger, Session_proofs

USE DEF ivars, vars, inputVars, judgerVars, threadVars, ctxtVars, sysVars, procVars, killerVars

-----------------------------------------------------------------------------
(* The steps of the two children: what they keep to, and that they do what *)
(* the session asks of children.                                           *)

LEMMA Pair ==
  /\ interactor = Direct /\ executable = Executable /\ interactor # executable
  /\ Procs = {interactor, executable}
BY TwoChildren DEF interactor, executable

LEMMA ErrorCodes ==
  /\ E_PIPE \in Nat /\ E_DUP \in Nat /\ E_ERRFD \in Nat /\ E_INTACT_EXEC \in Nat
  /\ E_RSC_LIM \in Nat /\ E_SETRLIMIT \in Nat /\ E_APP_POL \in Nat /\ E_EXEC \in Nat
  /\ E_EXEC # 0
BY DEF E_PIPE, E_DUP, E_ERRFD, E_INTACT_EXEC, E_RSC_LIM, E_SETRLIMIT, E_APP_POL, E_EXEC

(* The types of what a child's step changes.                               *)
ChildTyped ==
  /\ at' \in [Procs -> ChildPoints] /\ obit' \in [Procs -> ObitRecord]
  /\ yerrno' \in [Procs -> Nat]
  /\ group' \subseteq Procs /\ limited' \subseteq Procs /\ confined' \subseteq Procs
  /\ p_run' \in Seq({"FAILED", "READY"})

(* A child's step does not reap, and who dies in it dies now.               *)
ChildKeeps ==
  /\ at'[Direct] = "reaped" <=> at[Direct] = "reaped"
  /\ \A p \in Procs :
       \/ obit'[p] = obit[p]
       \/ /\ at[p] # "reaped"
          /\ obit'[p].when = clock /\ obit'[p].by # "timeout"
          /\ obit'[p].st.how = "exited" => obit'[p].st = Exited(obit'[p].st.code)

LEMMA DeathSound ==
  ASSUME TypeOK, NEW p \in Procs, at[p] # "reaped", NEW st \in StatusRecord,
         st.how = "exited" => st = Exited(st.code),
         Die({p}, st, "program") \/ Die({p}, st, "kernel"),
         UNCHANGED <<group, limited, confined, yerrno, p_run>>
  PROVE  ChildTyped /\ ChildKeeps
<1>1. PICK by \in {"program", "kernel"} : Die({p}, st, by)
  OBVIOUS
<1>2. at' \in [Procs -> ChildPoints] /\ obit' \in [Procs -> ObitRecord]
  BY <1>1, DieTyped
<1>3. ChildTyped
  BY <1>2 DEF ChildTyped, TypeOK
<1>4. ChildKeeps
  BY <1>1, DieNow, ProcessAssumption DEF ChildKeeps
<1> QED BY <1>3, <1>4

LEMMA MoveSound ==
  ASSUME TypeOK, NEW p \in Procs, NEW from, from # "reaped",
         NEW to \in ChildPoints \ {"reaped"}, ChildAt(p, from, to), UNCHANGED obit,
         \/ UNCHANGED yerrno
         \/ \E e \in Nat : yerrno' = [yerrno EXCEPT ![p] = e],
         group' \subseteq Procs, limited' \subseteq Procs, confined' \subseteq Procs,
         \/ UNCHANGED p_run
         \/ p_run' = Append(p_run, "FAILED") \/ p_run' = Append(p_run, "READY")
  PROVE  ChildTyped /\ ChildKeeps
<1>0. /\ at \in [Procs -> ChildPoints] /\ obit \in [Procs -> ObitRecord]
      /\ yerrno \in [Procs -> Nat] /\ p_run \in Seq({"FAILED", "READY"})
  BY DEF TypeOK
<1>1. at' \in [Procs -> ChildPoints] /\ obit' \in [Procs -> ObitRecord]
  BY <1>0 DEF ChildAt
<1>2. yerrno' \in [Procs -> Nat]
  <2>1. \A e \in Nat : [yerrno EXCEPT ![p] = e] \in [Procs -> Nat]
    BY <1>0
  <2> QED BY <1>0, <2>1
<1>3. p_run' \in Seq({"FAILED", "READY"})
  <2>1. Append(p_run, "FAILED") \in Seq({"FAILED", "READY"})
    BY <1>0
  <2>2. Append(p_run, "READY") \in Seq({"FAILED", "READY"})
    BY <1>0
  <2> QED BY <1>0, <2>1, <2>2
<1>4. ChildKeeps
  BY <1>0, ProcessAssumption DEF ChildKeeps, ChildAt
<1> QED BY <1>1, <1>2, <1>3, <1>4 DEF ChildTyped

LEMMA ForkSound ==
  ASSUME TypeOK, InteractorForks, UNCHANGED p_run
  PROVE  ChildTyped /\ ChildKeeps
<1>0. /\ at \in [Procs -> ChildPoints] /\ obit \in [Procs -> ObitRecord]
      /\ group \subseteq Procs
  BY DEF TypeOK
<1>1. \/ at' = [at EXCEPT ![interactor] = "forked", ![executable] = "born"]
      \/ at' = [at EXCEPT ![interactor] = "forked"]
  BY DEF InteractorForks
<1>2. at' \in [Procs -> ChildPoints]
  BY <1>0, <1>1 DEF ChildPoints
<1>3. at'[Direct] = "reaped" <=> at[Direct] = "reaped"
  BY <1>0, <1>1, Pair DEF InteractorForks
<1>4. group' \subseteq Procs
  BY <1>0, Pair DEF InteractorForks
<1>5. UNCHANGED <<limited, confined, obit, yerrno>>
  BY DEF InteractorForks
<1> QED BY <1>2, <1>3, <1>4, <1>5 DEF ChildTyped, ChildKeeps, TypeOK

(* Limits, filter, execve and exit, of either child.                       *)
LEMMA SharedSound ==
  ASSUME TypeOK, NEW p \in Procs, UNCHANGED p_run,
         \/ apply_resource_limit(p)
         \/ \E from \in {"wired", "limited"} : apply_policy(p, from)
         \/ ChildExec(p) \/ ChildExits(p)
  PROVE  ChildTyped /\ ChildKeeps
<1>0. /\ group \subseteq Procs /\ limited \subseteq Procs /\ confined \subseteq Procs
      /\ yerrno \in [Procs -> Nat]
  BY DEF TypeOK
<1>1. CASE apply_resource_limit(p)
  <2>1. group' \subseteq Procs /\ limited' \subseteq Procs /\ confined' \subseteq Procs
    BY <1>0, <1>1 DEF apply_resource_limit
  <2>2. \/ UNCHANGED yerrno
        \/ \E e \in Nat : yerrno' = [yerrno EXCEPT ![p] = e]
    BY <1>1, ErrorCodes DEF apply_resource_limit, ChildFails
  <2>3. ChildAt(p, "wired", "limited") \/ ChildAt(p, "wired", "failing")
    BY <1>1 DEF apply_resource_limit, ChildFails
  <2>4. UNCHANGED obit
    BY <1>1 DEF apply_resource_limit
  <2> QED BY <2>1, <2>2, <2>3, <2>4, MoveSound DEF ChildPoints
<1>2. ASSUME NEW from \in {"wired", "limited"}, apply_policy(p, from)
      PROVE  ChildTyped /\ ChildKeeps
  <2>1. group' \subseteq Procs /\ limited' \subseteq Procs /\ confined' \subseteq Procs
    BY <1>0, <1>2 DEF apply_policy
  <2>2. \/ UNCHANGED yerrno
        \/ \E e \in Nat : yerrno' = [yerrno EXCEPT ![p] = e]
    BY <1>2, ErrorCodes DEF apply_policy, ChildFails
  <2>3. ChildAt(p, from, "confined") \/ ChildAt(p, from, "failing")
    BY <1>2 DEF apply_policy, ChildFails
  <2>4. UNCHANGED obit
    BY <1>2 DEF apply_policy
  <2> QED BY <2>1, <2>2, <2>3, <2>4, MoveSound DEF ChildPoints
<1>3. CASE ChildExec(p)
  <2>1. CASE \/ ChildAt(p, "ready", "running") /\ UNCHANGED <<obit, yerrno>>
             \/ /\ ChildAt(p, "ready", "exiting") /\ UNCHANGED obit
                /\ yerrno' = [yerrno EXCEPT ![p] = E_EXEC]
    <3>1. group' \subseteq Procs /\ limited' \subseteq Procs /\ confined' \subseteq Procs
      BY <1>0, <1>3 DEF ChildExec
    <3> QED BY <2>1, <3>1, ErrorCodes, MoveSound DEF ChildPoints
  <2>2. CASE at[p] = "ready" /\ Die({p}, Signaled("SIGSYS"), "kernel") /\ UNCHANGED yerrno
    <3>1. Signaled("SIGSYS") \in StatusRecord /\ Signaled("SIGSYS").how # "exited"
      BY StatusTyped DEF AllSignals, Signaled
    <3> QED BY <1>3, <2>2, <3>1, DeathSound DEF ChildExec
  <2> QED BY <1>3, <2>1, <2>2 DEF ChildExec
<1>4. CASE ChildExits(p)
  <2>1. Exited(yerrno[p]) \in StatusRecord /\ Exited(yerrno[p]) = Exited(Exited(yerrno[p]).code)
    BY <1>0, StatusTyped DEF Exited
  <2> QED BY <1>4, <2>1, DeathSound DEF ChildExits
<1> QED BY <1>1, <1>2, <1>3, <1>4

LEMMA ProgramSound ==
  ASSUME TypeOK, NEW p \in Procs, Program(p) \/ EarlyDeath(p), UNCHANGED p_run
  PROVE  ChildTyped /\ ChildKeeps
<1>0. /\ group \subseteq Procs /\ limited \subseteq Procs /\ confined \subseteq Procs
  BY DEF TypeOK
<1>1. /\ \A c \in Nat : Exited(c) \in StatusRecord /\ Exited(c) = Exited(Exited(c).code)
      /\ \A s \in AllSignals : Signaled(s) \in StatusRecord /\ Signaled(s).how # "exited"
  BY StatusTyped DEF Exited, Signaled
<1>2. CASE ProgramExits(p)
  BY <1>1, <1>2, ProcessAssumption, DeathSound DEF ProgramExits
<1>3. CASE ProgramKilled(p)
  BY <1>1, <1>3, DeathSound DEF ProgramKilled, AllSignals
<1>4. CASE ProgramStops(p) \/ ProgramContinues(p)
  BY <1>0, <1>4, MoveSound DEF ProgramStops, ProgramContinues, ChildAt, ChildPoints
<1>5. CASE EarlyDeath(p)
  BY <1>1, <1>5, DeathSound DEF EarlyDeath, AllSignals
<1> QED BY <1>2, <1>3, <1>4, <1>5 DEF Program

LEMMA InteractorSound ==
  ASSUME TypeOK, InteractorSetup PROVE ChildTyped /\ ChildKeeps
<1>0. /\ interactor \in Procs
      /\ group \subseteq Procs /\ limited \subseteq Procs /\ confined \subseteq Procs
  BY Pair DEF TypeOK
<1> USE DEF ChildFails
<1>1. CASE InteractorStarts /\ UNCHANGED <<p_run, i_run>>
  <2>1. group' \subseteq Procs
    BY <1>0, <1>1 DEF InteractorStarts
  <2>2. \/ UNCHANGED yerrno
        \/ \E e \in Nat : yerrno' = [yerrno EXCEPT ![interactor] = e]
    BY <1>1, ErrorCodes DEF InteractorStarts
  <2>3. ChildAt(interactor, "born", "grouped") \/ ChildAt(interactor, "born", "failing")
    BY <1>1 DEF InteractorStarts
  <2>4. UNCHANGED <<limited, confined, obit, p_run>>
    BY <1>1 DEF InteractorStarts
  <2> QED BY <1>0, <2>1, <2>2, <2>3, <2>4, MoveSound DEF ChildPoints
<1>2. CASE InteractorForks /\ UNCHANGED <<p_run, i_run>>
  BY <1>2, ForkSound
<1>3. CASE interactor_prework /\ UNCHANGED <<p_run, i_run>>
  <2>1. \/ UNCHANGED yerrno
        \/ \E e \in Nat : yerrno' = [yerrno EXCEPT ![interactor] = e]
    BY <1>3, ErrorCodes DEF interactor_prework
  <2>2. ChildAt(interactor, "forked", "wired") \/ ChildAt(interactor, "forked", "failing")
    BY <1>3 DEF interactor_prework
  <2>3. UNCHANGED <<group, limited, confined, obit, p_run>>
    BY <1>3 DEF interactor_prework
  <2> QED BY <1>0, <2>1, <2>2, <2>3, MoveSound DEF ChildPoints
<1>4. CASE InteractorReads
  <2>1. \/ UNCHANGED yerrno
        \/ \E e \in Nat : yerrno' = [yerrno EXCEPT ![interactor] = e]
    BY <1>4, ErrorCodes DEF InteractorReads
  <2>2. ChildAt(interactor, "confined", "paired") \/ ChildAt(interactor, "confined", "failing")
    BY <1>4 DEF InteractorReads
  <2>3. UNCHANGED <<group, limited, confined, obit, p_run>>
    BY <1>4 DEF InteractorReads
  <2> QED BY <1>0, <2>1, <2>2, <2>3, MoveSound DEF ChildPoints
<1>5. CASE InteractorSends
  <2>1. ChildAt(interactor, "failing", "exiting") \/ ChildAt(interactor, "paired", "ready")
    BY <1>5 DEF InteractorSends
  <2>2. /\ UNCHANGED <<group, limited, confined, obit, yerrno>>
        /\ p_run' = Append(p_run, "FAILED") \/ p_run' = Append(p_run, "READY")
    BY <1>5 DEF InteractorSends
  <2> QED BY <1>0, <2>1, <2>2, MoveSound DEF ChildPoints
<1>6. CASE /\ \/ apply_policy(interactor, "wired")
              \/ ChildExec(interactor) \/ ChildExits(interactor)
           /\ UNCHANGED <<p_run, i_run>>
  BY <1>0, <1>6, SharedSound
<1> QED BY <1>1, <1>2, <1>3, <1>4, <1>5, <1>6 DEF InteractorSetup

LEMMA ExecutableSound ==
  ASSUME TypeOK, ExecutableSetup PROVE ChildTyped /\ ChildKeeps
<1>0. /\ executable \in Procs
      /\ group \subseteq Procs /\ limited \subseteq Procs /\ confined \subseteq Procs
  BY Pair DEF TypeOK
<1> USE DEF ChildFails
<1>1. CASE executable_prework /\ UNCHANGED <<p_run, i_run>>
  <2>1. \/ UNCHANGED yerrno
        \/ \E e \in Nat : yerrno' = [yerrno EXCEPT ![executable] = e]
    BY <1>1, ErrorCodes DEF executable_prework
  <2>2. ChildAt(executable, "born", "wired") \/ ChildAt(executable, "born", "failing")
    BY <1>1 DEF executable_prework
  <2>3. UNCHANGED <<group, limited, confined, obit, p_run>>
    BY <1>1 DEF executable_prework
  <2> QED BY <1>0, <2>1, <2>2, <2>3, MoveSound DEF ChildPoints
<1>2. CASE ExecutableSends
  <2>1. ChildAt(executable, "failing", "exiting") \/ ChildAt(executable, "confined", "ready")
    BY <1>2 DEF ExecutableSends
  <2>2. UNCHANGED <<group, limited, confined, obit, yerrno, p_run>>
    BY <1>2 DEF ExecutableSends
  <2> QED BY <1>0, <2>1, <2>2, MoveSound DEF ChildPoints
<1>3. CASE /\ \/ apply_resource_limit(executable) \/ apply_policy(executable, "limited")
              \/ ChildExec(executable) \/ ChildExits(executable)
           /\ UNCHANGED <<p_run, i_run>>
  BY <1>0, <1>3, SharedSound
<1> QED BY <1>1, <1>2, <1>3 DEF ExecutableSetup

LEMMA ChildSteps ==
  ASSUME TypeOK, ChildSetup \/ ChildOther, UNCHANGED inputVars
  PROVE  TypeOK' /\ ChildrenStep
<1>1. ChildTyped /\ ChildKeeps
  BY InteractorSound, ExecutableSound, ProgramSound DEF ChildSetup, ChildOther
<1>2. UNCHANGED <<threadVars, ctxtVars, killerVars, clock>>
  BY DEF ChildSetup, ChildOther
<1>3. TypeOK'
  BY <1>1, <1>2 DEF ChildTyped, TypeOK, tctxt
<1>4. ChildrenStep
  BY <1>1, <1>2 DEF ChildKeeps, ChildrenStep
<1> QED BY <1>3, <1>4

LEMMA NextSteps ==
  ASSUME TypeOK, [Next]_ivars
  PROVE  \/ SessionStep /\ UNCHANGED i_run
         \/ (ChildSetup \/ ChildOther) /\ UNCHANGED inputVars
BY DEF Next, JudgerStep, Over, SessionStep

-----------------------------------------------------------------------------
(* Type correctness, the verdict and the killer.                           *)

(* TypeOK: every variable keeps to the values its comment in Session,      *)
(* TimeoutKiller and Processes gives it, with a pair of processes too.     *)
THEOREM Typing == Spec => []TypeOK
<1>1. Init => TypeOK
  BY SessionInitTyped DEF Init
<1>2. TypeOK /\ [Next]_ivars => TypeOK'
  BY NextSteps, SessionTyped, ChildSteps
<1> QED BY <1>1, <1>2, PTL DEF Spec

(* SessionInv: the invariant of the session and its killer holds whatever  *)
(* the interactor and the executable do.                                   *)
THEOREM SessionSafe == Spec => []SessionInv
<1>1. Init => SessionInv
  BY SessionInitInv DEF Init
<1>2. TypeOK /\ SessionInv /\ [Next]_ivars => SessionInv'
  BY NextSteps, SessionKeeps, ChildSteps, ChildrenKeep
<1> QED BY <1>1, <1>2, Typing, PTL DEF Spec

(* NeverFalseOK: an interactor given OK exited with 0 within its limits,   *)
(* in every interleaving with the executable, whatever calls fail.         *)
THEOREM NoFalseOK == Spec => []NeverFalseOK
<1>1. SessionInv => NeverFalseOK
  BY SessionPromises
<1> QED BY <1>1, SessionSafe, PTL

(* KillerNotForgotten: a judgement of a pair that succeeds has ended or    *)
(* cancelled its killer.                                                   *)
THEOREM KillerDismissed == Spec => []KillerNotForgotten
<1>1. SessionInv => KillerNotForgotten
  BY SessionPromises
<1> QED BY <1>1, SessionSafe, PTL

LEMMA Timely == ASSUME StaleReads = {} PROVE Spec => []TimelyInv
<1>1. Init => TimelyInv
  BY SessionInitInv DEF Init
<1>2. TypeOK /\ SessionInv /\ TimelyInv /\ [Next]_ivars => TimelyInv'
  BY NextSteps, SessionKeepsTimely, ChildSteps, ChildrenKeepTimely
<1> QED BY <1>1, <1>2, Typing, SessionSafe, PTL DEF Spec

(* TimeoutBlamed: an interactor that the killer ended is given TLE, for    *)
(* every limit and every length of a second.                               *)
THEOREM TimeoutsAreBlamed == ASSUME StaleReads = {} PROVE Spec => []TimeoutBlamed
<1>1. SessionInv /\ TimelyInv => TimeoutBlamed
  BY SessionPromises
<1> QED BY <1>1, SessionSafe, Timely, PTL

-----------------------------------------------------------------------------
(* The hand-shakes.                                                        *)

(* The same of any sequence of signals, hence of i_run.                    *)
LEMMA SignalsMove ==
  ASSUME NEW s \in Seq({"FAILED", "READY"})
  PROVE  LET Has(t) == \E i \in 1..Len(t) : t[i] = "READY"
         IN  /\ s # <<>> /\ Head(s) = "READY" => Has(s)
             /\ s # <<>> /\ Has(Tail(s)) => Has(s)
             /\ Has(Append(s, "FAILED")) => Has(s)
<1> DEFINE Has(t) == \E i \in 1..Len(t) : t[i] = "READY"
<1>1. s # <<>> /\ Head(s) = "READY" => Has(s)
  OBVIOUS
<1>2. ASSUME s # <<>>, Has(Tail(s)) PROVE Has(s)
  <2>1. PICK i \in 1..Len(Tail(s)) : Tail(s)[i] = "READY"
    BY <1>2
  <2>2. i + 1 \in 1..Len(s) /\ s[i + 1] = "READY"
    BY <1>2, <2>1
  <2> QED BY <2>2
<1>3. ASSUME Has(Append(s, "FAILED")) PROVE Has(s)
  <2>1. PICK i \in 1..Len(Append(s, "FAILED")) : Append(s, "FAILED")[i] = "READY"
    BY <1>3
  <2>2. i \in 1..Len(s) /\ s[i] = "READY"
    BY <2>1
  <2> QED BY <2>2
<1> QED BY <1>1, <1>2, <1>3

(* What the session does to the processes: it forks the interactor, reaps  *)
(* it, or kills members of the group.                                      *)
Forked  == /\ pc = "before_fork" /\ pc' = "wait_ready"
           /\ at' = [at EXCEPT ![interactor] = "born"]
Reaped  == at[interactor] = "zombie" /\ at' = [at EXCEPT ![interactor] = "reaped"]
KilledBy(by) == \E g : killpg(g, by)

LEMMA SessionProcesses ==
  ASSUME SessionStep
  PROVE  /\ UNCHANGED <<group, limited, confined, yerrno>>
         /\ \/ UNCHANGED <<at, obit>>
            \/ Forked /\ UNCHANGED obit
            \/ Reaped /\ UNCHANGED obit
            \/ KilledBy("judger")
            \/ /\ killer \in {"timed_out", "aborting"}
               /\ killpg(karg.pid, IF killer = "timed_out" THEN "timeout" ELSE "abort")
<1> USE DEF interactor
<1>1. CASE Fork
  BY <1>1 DEF Fork, Forked, Goto, ChainDone
<1>2. CASE Waitpid
  BY <1>2 DEF Waitpid, Reaped
<1>3. CASE WaitpidFails
  BY <1>3 DEF WaitpidFails, KilledBy
<1>4. CASE KillerThread
  BY <1>4 DEF KillerThread, timeout_killer, KillerKills
<1>5. CASE \/ \E ok \in BOOLEAN : Create(ok)
           \/ compile_policy_before_fork \/ init_result_before_fork \/ WaitReady
           \/ timer_after_fork \/ start_killer_after_fork \/ start_killer_returns
           \/ timer_after_wait \/ get_usage_after_wait
           \/ stop_killer_after_wait \/ join_killer \/ analyze_after_wait \/ Finish
           \/ Passage \/ UNCHANGED vars
  <2>1. UNCHANGED procVars
    BY <1>5 DEF Create, compile_policy_before_fork, init_result_before_fork, WaitReady,
                timer_after_fork, start_killer_after_fork, start_killer_returns,
                timer_after_wait, get_usage_after_wait, stop_killer_after_wait, join_killer,
                analyze_after_wait, Finish, Passage, Tick
  <2> QED BY <2>1
<1> QED BY <1>1, <1>2, <1>3, <1>4, <1>5 DEF SessionStep, Judger

LEMMA KillEffect ==
  ASSUME TypeOK, NEW g, NEW by, killpg(g, by), NEW p \in Procs
  PROVE  \/ at'[p] = at[p] /\ obit'[p] = obit[p]
         \/ /\ g = Direct /\ p \in group /\ Live(p)
            /\ at'[p] = "zombie" /\ obit'[p].by = by
<1>1. Members(g) \subseteq {q \in group : Live(q)} /\ (Members(g) # {} => g = Direct)
  BY DEF Members
<1> QED BY <1>1, DieNow DEF killpg

(* Where the session's steps may lead a process.                           *)
LEMMA SessionMoves ==
  ASSUME TypeOK, SessionStep, NEW p \in Procs
  PROVE  /\ UNCHANGED <<group, limited, confined, yerrno>>
         /\ \/ at'[p] = at[p]
            \/ Forked /\ p = interactor /\ at'[p] = "born"
            \/ p = interactor /\ at[p] = "zombie" /\ at'[p] = "reaped"
            \/ Live(p) /\ at'[p] = "zombie"
<1>0. at \in [Procs -> ChildPoints] /\ interactor \in Procs
  BY Pair DEF TypeOK
<1>1. CASE Forked \/ Reaped
  BY <1>0, <1>1, SessionProcesses DEF Forked, Reaped
<1>2. ASSUME NEW g, NEW by, killpg(g, by)
      PROVE  at'[p] = at[p] \/ (Live(p) /\ at'[p] = "zombie")
  BY <1>2, KillEffect
<1> QED BY <1>1, <1>2, SessionProcesses DEF KilledBy

(* The judger is past the hand-shake, as far as the invariant knows it.    *)
Past == \/ pc \in {"after_fork", "after_wait"} \/ killer # "none" \/ ret = 0
        \/ ret \notin {Running, E_CHILD} /\ at[interactor] # "unborn"

(* It gets there by READY only.                                            *)
LEMMA SessionGoes ==
  ASSUME TypeOK, SessionInv, PairStageInv, SessionStep
  PROVE  /\ pc' # "returned" => ret' = Running
         /\ pc' \in {"init", "before_fork"} => pc \in {"init", "before_fork"} /\ ~Forked
         /\ Past' => Past \/ ReadySent
         /\ UNCHANGED p_run \/ (p_run # <<>> /\ p_run' = Tail(p_run))
<1>0. p_run \in Seq({"FAILED", "READY"}) /\ ChainInv
  BY DEF TypeOK, SessionInv
<1>a. at'[interactor] # "unborn" => at[interactor] # "unborn" \/ Forked
  BY Pair, SessionMoves DEF Live
<1>b. /\ pc # "returned" => ret = Running
      /\ pc \in {"init", "before_fork"} => at[interactor] = "unborn" /\ killer = "none"
  BY DEF PairStageInv, SessionInv, ClockInv, Unstarted
<1> USE DEF Past, Running, E_PIPE, E_ARGC, E_ERROR, E_POL_IDT, E_KAFEL, E_FCNTL, E_FORK, E_CHILD
<1>1. CASE \E ok \in BOOLEAN : Create(ok)
  BY <1>a, <1>b, <1>1 DEF Create, Return, Forked
<1>2. CASE compile_policy_before_fork \/ init_result_before_fork
  BY <1>a, <1>b, <1>0, <1>2, HookPlace
     DEF compile_policy_before_fork, init_result_before_fork, Return, HookDone, Forked
<1>3. CASE Fork
  BY <1>a, <1>b, <1>3 DEF Fork, Goto, Return, ChainDone, Forked
<1>4. CASE WaitReady
  <2>1. p_run # <<>> /\ child_ready(Head(p_run)) => ReadySent
    BY ReadyMoves DEF child_ready
  <2> QED BY <1>a, <1>b, <1>4, <2>1 DEF WaitReady, StartChain, Return, Forked
<1>5. CASE \/ timer_after_fork \/ start_killer_after_fork \/ start_killer_returns
           \/ timer_after_wait \/ get_usage_after_wait
           \/ stop_killer_after_wait \/ join_killer \/ analyze_after_wait
  <2>1. pc \in {"after_fork", "after_wait"}
    BY <1>0, <1>5, HookPlace
       DEF timer_after_fork, start_killer_after_fork, start_killer_returns, timer_after_wait,
           get_usage_after_wait, stop_killer_after_wait, join_killer, analyze_after_wait
  <2>2. UNCHANGED p_run /\ ((pc' = pc /\ ret' = ret) \/ pc' = "returned")
    BY <1>5
       DEF timer_after_fork, start_killer_after_fork, start_killer_returns, timer_after_wait,
           get_usage_after_wait, stop_killer_after_wait, join_killer, analyze_after_wait,
           HookDone, HookAt, Return
  <2> QED BY <1>a, <1>b, <2>1, <2>2 DEF Forked
<1>6. CASE Waitpid \/ WaitpidFails \/ Finish
  BY <1>a, <1>b, <1>6 DEF Waitpid, WaitpidFails, Finish, ChainDone, StartChain, Return, Forked
<1>7. CASE KillerThread
  <2>1. killer # "none" /\ UNCHANGED <<pc, ret, p_run>>
    BY <1>7 DEF KillerThread, timeout_killer, KillerReads, KillerDetaches,
                KillerFailsToDetach, KillerCancelled, KillerTimesOut, KillerInterrupted,
                KillerKills
  <2> QED BY <1>a, <1>b, <2>1 DEF Forked
<1>8. CASE Passage \/ UNCHANGED vars
  BY <1>a, <1>b, <1>8 DEF Passage, Tick, Forked
<1> QED BY <1>1, <1>2, <1>3, <1>4, <1>5, <1>6, <1>7, <1>8 DEF SessionStep, Judger

(* The session's steps preserve the stages of the pair.                    *)
LEMMA SessionStages ==
  ASSUME TypeOK, SessionInv, PairStageInv, SessionStep, UNCHANGED i_run
  PROVE  PairStageInv'
<1>0. interactor \in Procs /\ executable \in Procs /\ interactor # executable
  BY Pair
<1>1. /\ pc' # "returned" => ret' = Running
      /\ pc' \in {"init", "before_fork"} => pc \in {"init", "before_fork"} /\ ~Forked
  BY SessionGoes
<1>2. UNCHANGED <<group, limited, confined, yerrno>>
  BY SessionProcesses
<1>3. \A p \in Procs : \/ at'[p] = at[p]
                       \/ Forked /\ p = interactor /\ at'[p] = "born"
                       \/ p = interactor /\ at[p] = "zombie" /\ at'[p] = "reaped"
                       \/ Live(p) /\ at'[p] = "zombie"
  BY SessionMoves
<1>4. Forked => at[interactor] = "unborn"
  BY DEF PairStageInv, Forked
<1> QED BY <1>0, <1>1, <1>2, <1>3, <1>4 DEF PairStageInv, Live

(* What went well stays so under the session's steps.                      *)
LEMMA SessionWell ==
  ASSUME TypeOK, PairStageInv, SessionStep, NEW p \in Procs, WentWell(p)
  PROVE  WentWell(p)'
<1>1. Forked => at[interactor] = "unborn"
  BY DEF PairStageInv, Forked
<1>2. UNCHANGED <<confined, yerrno>> /\ p \in confined /\ yerrno[p] \in {0, E_EXEC}
  BY SessionMoves DEF WentWell, BadSetup
<1>3. at'[p] \in {"ready", "running", "stopped", "exiting", "zombie", "reaped"}
  BY <1>1, SessionMoves DEF WentWell
<1> QED BY <1>2, <1>3 DEF WentWell, BadSetup

LEMMA SessionHandshake ==
  ASSUME TypeOK, SessionInv, PairInv, SessionStep, UNCHANGED i_run
  PROVE  PairHandshakeInv'
<1>0. /\ interactor \in Procs /\ executable \in Procs
      /\ PairStageInv /\ PairHandshakeInv /\ p_run \in Seq({"FAILED", "READY"})
  BY Pair DEF PairInv, TypeOK
<1>1. ExecutableWentWell => ExecutableWentWell'
  BY <1>0, SessionWell, SessionMoves DEF ExecutableWentWell
<1>2. WentWell(interactor) => WentWell(interactor)'
  BY <1>0, SessionWell
<1>3. (PairReady => ExecutableWentWell)'
  BY <1>0, <1>1 DEF PairHandshakeInv, PairReady
<1>4. (at[interactor] \in {"paired", "ready", "running", "stopped"} => ExecutableWentWell)'
  BY <1>0, <1>1, SessionMoves DEF PairHandshakeInv
<1>5. (ReadySent => WentWell(interactor) /\ ExecutableWentWell)'
  <2>1. ReadySent' => ReadySent
    <3>1. CASE UNCHANGED p_run
      BY <3>1 DEF ReadySent
    <3>2. CASE p_run # <<>> /\ p_run' = Tail(p_run)
      BY <3>2, ReadyMoves
    <3> QED BY <1>0, <3>1, <3>2, SessionGoes
  <2> QED BY <1>0, <1>1, <1>2, <2>1 DEF PairHandshakeInv
<1>6. (\/ pc \in {"after_fork", "after_wait"} \/ killer # "none" \/ ret = 0
       \/ ret \notin {Running, E_CHILD} /\ at[interactor] # "unborn"
       => WentWell(interactor) /\ ExecutableWentWell)'
  <2>1. Past' => Past \/ ReadySent
    BY <1>0, SessionGoes
  <2>2. Past \/ ReadySent => WentWell(interactor) /\ ExecutableWentWell
    BY <1>0 DEF PairHandshakeInv, Past
  <2> QED BY <1>1, <1>2, <2>1, <2>2 DEF Past
<1> QED BY <1>3, <1>4, <1>5, <1>6 DEF PairHandshakeInv

(* The children's steps preserve the stages.                               *)
LEMMA ChildStages ==
  ASSUME TypeOK, PairInv, ChildSetup \/ ChildOther
  PROVE  PairStageInv'
<1>0. /\ interactor \in Procs /\ executable \in Procs /\ interactor # executable
      /\ Procs = {interactor, executable}
      /\ at \in [Procs -> ChildPoints] /\ yerrno \in [Procs -> Nat]
  BY Pair DEF TypeOK
<1>1. UNCHANGED <<pc, ret, killer>>
  BY DEF ChildSetup, ChildOther
<1>2. PairStageInv
  BY DEF PairInv
<1> USE DEF PairStageInv, ChildAt, ChildFails
<1>3. ASSUME NEW p \in Procs, NEW st, NEW by, Die({p}, st, by),
             at[p] \notin {"unborn", "born", "grouped"},
             UNCHANGED <<group, limited, confined, yerrno, i_run>>
      PROVE  PairStageInv'
  <2>1. at'[p] = "zombie" /\ \A q \in Procs \ {p} : at'[q] = at[q]
    BY <1>0, <1>3, DieNow
  <2> QED BY <1>0, <1>1, <1>2, <1>3, <2>1
<1>4. CASE InteractorStarts /\ UNCHANGED i_run
  BY <1>0, <1>1, <1>2, <1>4 DEF InteractorStarts
<1>5. CASE InteractorForks /\ UNCHANGED i_run
  BY <1>0, <1>1, <1>2, <1>5 DEF InteractorForks
<1>6. CASE interactor_prework /\ UNCHANGED i_run
  BY <1>0, <1>1, <1>2, <1>6 DEF interactor_prework
<1>7. CASE apply_policy(interactor, "wired") /\ UNCHANGED i_run
  BY <1>0, <1>1, <1>2, <1>7 DEF apply_policy
<1>8. ASSUME NEW p \in Procs, ChildExec(p), UNCHANGED i_run PROVE PairStageInv'
  <2>1. CASE at[p] = "ready" /\ Die({p}, Signaled("SIGSYS"), "kernel")
             /\ UNCHANGED <<group, limited, confined, yerrno>>
    BY <1>3, <1>8, <2>1
  <2>2. CASE \/ ChildAt(p, "ready", "running") /\ UNCHANGED <<obit, yerrno>>
             \/ /\ ChildAt(p, "ready", "exiting")
                /\ yerrno' = [yerrno EXCEPT ![p] = E_EXEC]
    BY <1>0, <1>1, <1>2, <1>8, <2>2 DEF ChildExec
  <2> QED BY <1>8, <2>1, <2>2 DEF ChildExec
<1>9. ASSUME NEW p \in Procs, ChildExits(p), UNCHANGED i_run PROVE PairStageInv'
  BY <1>3, <1>9 DEF ChildExits
<1>10. CASE InteractorReads
  <2>1. i_run' \in Seq({"FAILED", "READY"})
    BY <1>2, <1>10 DEF InteractorReads
  <2> QED BY <1>0, <1>1, <1>2, <1>10, <2>1 DEF InteractorReads
<1>11. CASE InteractorSends
  BY <1>0, <1>1, <1>2, <1>11 DEF InteractorSends
<1>12. CASE executable_prework /\ UNCHANGED i_run
  BY <1>0, <1>1, <1>2, <1>12 DEF executable_prework
<1>13. CASE apply_resource_limit(executable) /\ UNCHANGED i_run
  BY <1>0, <1>1, <1>2, <1>13 DEF apply_resource_limit
<1>14. CASE apply_policy(executable, "limited") /\ UNCHANGED i_run
  BY <1>0, <1>1, <1>2, <1>14 DEF apply_policy
<1>15. CASE ExecutableSends
  <2>1. /\ Append(i_run, "FAILED") \in Seq({"FAILED", "READY"})
        /\ Append(i_run, "READY") \in Seq({"FAILED", "READY"})
    BY <1>2
  <2> QED BY <1>0, <1>1, <1>2, <1>15, <2>1 DEF ExecutableSends
<1>16. ASSUME NEW p \in Procs, Program(p) \/ EarlyDeath(p), UNCHANGED i_run
       PROVE  PairStageInv'
  <2>1. CASE ProgramStops(p) \/ ProgramContinues(p)
    BY <1>0, <1>1, <1>2, <1>16, <2>1 DEF ProgramStops, ProgramContinues
  <2>2. CASE ProgramExits(p) \/ ProgramKilled(p) \/ EarlyDeath(p)
    BY <1>3, <1>16, <2>2 DEF ProgramExits, ProgramKilled, EarlyDeath
  <2> QED BY <1>16, <2>1, <2>2 DEF Program
<1> QED BY <1>0, <1>4, <1>5, <1>6, <1>7, <1>8, <1>9, <1>10, <1>11, <1>12, <1>13, <1>14, <1>15,
           <1>16
        DEF ChildSetup, InteractorSetup, ExecutableSetup, ChildOther

(* What went well stays so under the children's steps.                     *)
LEMMA ChildWell ==
  ASSUME TypeOK, PairInv, ChildSetup \/ ChildOther
  PROVE  /\ \A p \in Procs : WentWell(p) => WentWell(p)'
         /\ limited \subseteq limited'
<1>0. /\ interactor \in Procs /\ executable \in Procs /\ interactor # executable
      /\ Procs = {interactor, executable}
      /\ at \in [Procs -> ChildPoints] /\ yerrno \in [Procs -> Nat] /\ PairStageInv
  BY Pair DEF TypeOK, PairInv
<1> DEFINE Kept == /\ \A p \in Procs : WentWell(p) => WentWell(p)'
                   /\ limited \subseteq limited'
<1> SUFFICES Kept
  OBVIOUS
<1> USE DEF WentWell, BadSetup, ChildAt, ChildFails
<1>1. ASSUME NEW p \in Procs, NEW st, NEW by, Die({p}, st, by),
             UNCHANGED <<group, limited, confined, yerrno>>
      PROVE  Kept
  <2>1. at'[p] = "zombie" /\ \A q \in Procs \ {p} : at'[q] = at[q]
    BY <1>0, <1>1, DieNow
  <2> QED BY <1>0, <1>1, <2>1
<1>2. CASE InteractorStarts
  BY <1>0, <1>2 DEF InteractorStarts
<1>3. CASE InteractorForks
  BY <1>0, <1>3 DEF InteractorForks, PairStageInv
<1>4. CASE interactor_prework \/ executable_prework
  BY <1>0, <1>4 DEF interactor_prework, executable_prework
<1>5. CASE apply_policy(interactor, "wired") \/ apply_policy(executable, "limited")
  BY <1>0, <1>5 DEF apply_policy
<1>6. CASE apply_resource_limit(executable)
  BY <1>0, <1>6 DEF apply_resource_limit
<1>7. ASSUME NEW p \in Procs, ChildExec(p) PROVE Kept
  <2>1. CASE Die({p}, Signaled("SIGSYS"), "kernel")
             /\ UNCHANGED <<group, limited, confined, yerrno>>
    BY <1>1, <2>1
  <2>2. CASE \/ ChildAt(p, "ready", "running") /\ UNCHANGED <<obit, yerrno>>
             \/ /\ ChildAt(p, "ready", "exiting")
                /\ yerrno' = [yerrno EXCEPT ![p] = E_EXEC]
    BY <1>0, <1>7, <2>2 DEF ChildExec
  <2> QED BY <1>7, <2>1, <2>2 DEF ChildExec
<1>8. ASSUME NEW p \in Procs, ChildExits(p) PROVE Kept
  BY <1>1, <1>8 DEF ChildExits
<1>9. CASE InteractorReads
  BY <1>0, <1>9 DEF InteractorReads
<1>10. CASE InteractorSends \/ ExecutableSends
  BY <1>0, <1>10 DEF InteractorSends, ExecutableSends
<1>11. ASSUME NEW p \in Procs, Program(p) \/ EarlyDeath(p) PROVE Kept
  <2>1. CASE ProgramStops(p) \/ ProgramContinues(p)
    BY <1>0, <1>11, <2>1 DEF ProgramStops, ProgramContinues
  <2>2. CASE ProgramExits(p) \/ ProgramKilled(p) \/ EarlyDeath(p)
    BY <1>1, <1>11, <2>2 DEF ProgramExits, ProgramKilled, EarlyDeath
  <2> QED BY <1>11, <2>1, <2>2 DEF Program
<1> HIDE DEF Kept
<1> QED BY <1>0, <1>2, <1>3, <1>4, <1>5, <1>6, <1>7, <1>8, <1>9, <1>10, <1>11
        DEF ChildSetup, InteractorSetup, ExecutableSetup, ChildOther

(* Only who is set up says READY, and only who has heard it goes on.       *)
LEMMA ChildTalk ==
  ASSUME TypeOK, PairInv, ChildSetup \/ ChildOther
  PROVE  /\ PairReady' => PairReady \/ ExecutableWentWell'
         /\ at'[interactor] \in {"paired", "ready", "running", "stopped"} =>
               \/ at[interactor] \in {"paired", "ready", "running", "stopped"}
               \/ PairReady
         /\ ReadySent' =>
               \/ ReadySent
               \/ at[interactor] = "paired" /\ WentWell(interactor)'
         /\ UNCHANGED <<pc, ret, killer>>
         /\ at'[interactor] # "unborn" => at[interactor] # "unborn"
<1>0. /\ interactor \in Procs /\ executable \in Procs /\ interactor # executable
      /\ at \in [Procs -> ChildPoints] /\ yerrno \in [Procs -> Nat] /\ PairStageInv
      /\ p_run \in Seq({"FAILED", "READY"}) /\ i_run \in Seq({"FAILED", "READY"})
  BY Pair DEF TypeOK, PairInv, PairStageInv
<1>1. UNCHANGED <<pc, ret, killer>>
  BY DEF ChildSetup, ChildOther
<1> DEFINE Up(x) == x \in {"paired", "ready", "running", "stopped"}
           Talk == /\ PairReady' => PairReady \/ ExecutableWentWell'
                   /\ Up(at'[interactor]) => Up(at[interactor]) \/ PairReady
                   /\ ReadySent' =>
                         \/ ReadySent
                         \/ at[interactor] = "paired" /\ WentWell(interactor)'
                   /\ at'[interactor] # "unborn" => at[interactor] # "unborn"
<1> SUFFICES Talk
  BY <1>1
<1>2. /\ UNCHANGED i_run => (PairReady' <=> PairReady)
      /\ UNCHANGED p_run => (ReadySent' <=> ReadySent)
  BY DEF PairReady, ReadySent
<1> USE DEF ChildAt, ChildFails
<1>3. ASSUME NEW p \in Procs, NEW st, NEW by, Die({p}, st, by), at[p] # "unborn",
             UNCHANGED <<p_run, i_run>>
      PROVE  Talk
  <2>1. at'[p] = "zombie" /\ \A q \in Procs \ {p} : at'[q] = at[q]
    BY <1>0, <1>3, DieNow
  <2> QED BY <1>0, <1>2, <1>3, <2>1
<1>4. CASE UNCHANGED <<p_run, i_run>> /\ (InteractorStarts \/ InteractorForks \/ interactor_prework)
  BY <1>0, <1>2, <1>4 DEF InteractorStarts, InteractorForks, interactor_prework
<1>5. CASE /\ UNCHANGED <<p_run, i_run>>
           /\ \/ executable_prework \/ apply_resource_limit(executable)
              \/ apply_policy(interactor, "wired") \/ apply_policy(executable, "limited")
  BY <1>0, <1>2, <1>5 DEF executable_prework, apply_resource_limit, apply_policy
<1>6. ASSUME NEW p \in Procs, ChildExec(p), UNCHANGED <<p_run, i_run>> PROVE Talk
  <2>1. CASE at[p] = "ready" /\ Die({p}, Signaled("SIGSYS"), "kernel")
    BY <1>3, <1>6, <2>1
  <2>2. CASE ChildAt(p, "ready", "running") \/ ChildAt(p, "ready", "exiting")
    BY <1>0, <1>2, <1>6, <2>2
  <2> QED BY <1>6, <2>1, <2>2 DEF ChildExec
<1>7. ASSUME NEW p \in Procs, ChildExits(p), UNCHANGED <<p_run, i_run>> PROVE Talk
  BY <1>3, <1>7 DEF ChildExits
<1>8. CASE InteractorReads
  <2>1. i_run # <<>> /\ i_run' = Tail(i_run) /\ PairReady' => PairReady
    BY <1>0, SignalsMove DEF PairReady
  <2>2. i_run # <<>> /\ executable_ready(Head(i_run)) => PairReady
    BY <1>0, SignalsMove DEF PairReady, executable_ready
  <2> QED BY <1>0, <1>2, <1>8, <2>1, <2>2 DEF InteractorReads
<1>9. CASE InteractorSends
  <2>1. CASE ChildAt(interactor, "failing", "exiting") /\ p_run' = Append(p_run, "FAILED")
    <3>1. ReadySent' => ReadySent
      BY <2>1, ReadyMoves
    <3> QED BY <1>0, <1>2, <1>9, <2>1, <3>1 DEF InteractorSends
  <2>2. CASE ChildAt(interactor, "paired", "ready")
    <3>1. WentWell(interactor)'
      BY <1>0, <1>9, <2>2 DEF WentWell, BadSetup, InteractorSends, PairStageInv
    <3> QED BY <1>0, <1>2, <1>9, <2>2, <3>1 DEF InteractorSends
  <2> QED BY <1>9, <2>1, <2>2 DEF InteractorSends
<1>10. CASE ExecutableSends
  <2>1. CASE ChildAt(executable, "failing", "exiting") /\ i_run' = Append(i_run, "FAILED")
    <3>1. PairReady' => PairReady
      BY <1>0, <2>1, SignalsMove DEF PairReady
    <3> QED BY <1>0, <1>2, <1>10, <2>1, <3>1 DEF ExecutableSends
  <2>2. CASE ChildAt(executable, "confined", "ready")
    <3>1. ExecutableWentWell'
      BY <1>0, <1>10, <2>2
         DEF ExecutableWentWell, WentWell, BadSetup, ExecutableSends, PairStageInv
    <3> QED BY <1>0, <1>2, <1>10, <2>2, <3>1 DEF ExecutableSends
  <2> QED BY <1>10, <2>1, <2>2 DEF ExecutableSends
<1>11. ASSUME NEW p \in Procs, Program(p) \/ EarlyDeath(p), UNCHANGED <<p_run, i_run>>
       PROVE  Talk
  <2>1. CASE ProgramStops(p) \/ ProgramContinues(p)
    BY <1>0, <1>2, <1>11, <2>1 DEF ProgramStops, ProgramContinues
  <2>2. CASE ProgramExits(p) \/ ProgramKilled(p) \/ EarlyDeath(p)
    BY <1>3, <1>11, <2>2 DEF ProgramExits, ProgramKilled, EarlyDeath
  <2> QED BY <1>11, <2>1, <2>2 DEF Program
<1> HIDE DEF Talk
<1> QED BY <1>0, <1>4, <1>5, <1>6, <1>7, <1>8, <1>9, <1>10, <1>11
        DEF ChildSetup, InteractorSetup, ExecutableSetup, ChildOther

LEMMA ChildHandshake ==
  ASSUME TypeOK, PairInv, ChildSetup \/ ChildOther
  PROVE  PairHandshakeInv'
<1>0. interactor \in Procs /\ executable \in Procs /\ PairHandshakeInv
  BY Pair DEF PairInv
<1>1. ExecutableWentWell => ExecutableWentWell'
  BY <1>0, ChildWell DEF ExecutableWentWell
<1>2. WentWell(interactor) => WentWell(interactor)'
  BY <1>0, ChildWell
<1> QED BY <1>0, <1>1, <1>2, ChildTalk DEF PairHandshakeInv

(* PairInv: each of the judger, the interactor and the executable goes on  *)
(* only when the next one is set up, and what failed is never taken for it. *)
THEOREM PairSafe == Spec => []PairInv
<1>1. Init => PairInv
  <2> SUFFICES ASSUME Init PROVE PairInv
    OBVIOUS
  <2>1. ~PairReady /\ ~ReadySent
    BY DEF Init, SessionInit, PairReady, ReadySent
  <2> QED BY <2>1, Pair
          DEF Init, SessionInit, ProcInit, KillerInit, PairInv, PairStageInv, PairHandshakeInv,
              Running
<1>2. TypeOK /\ SessionInv /\ PairInv /\ [Next]_ivars => PairInv'
  BY NextSteps, SessionStages, SessionHandshake, ChildStages, ChildHandshake DEF PairInv
<1> QED BY <1>1, <1>2, Typing, SessionSafe, PTL DEF Spec

(* JointStart: the interactor becomes a program, and the judger times and  *)
(* judges it, only with an executable that is limited, confined and in the *)
(* same group.                                                             *)
THEOREM JointlyStarted == Spec => []JointStart
<1>1. PairInv => JointStart
  <2> SUFFICES ASSUME PairInv,
                      \/ at[interactor] \in {"paired", "ready", "running", "stopped"}
                      \/ pc \in {"after_fork", "after_wait"} \/ Judged \/ killer # "none"
               PROVE  /\ interactor \in confined /\ executable \in limited \cap confined
                      /\ interactor \in group => executable \in group
    BY DEF JointStart
  <2>1. PairStageInv /\ PairHandshakeInv /\ interactor \in Procs
    BY Pair DEF PairInv
  <2>2. ExecutableWentWell
    BY <2>1 DEF PairHandshakeInv, Judged
  <2>3. interactor \in confined
    BY <2>1 DEF PairHandshakeInv, PairStageInv, WentWell, Judged
  <2> QED BY <2>1, <2>2, <2>3 DEF ExecutableWentWell, WentWell, PairStageInv
<1> QED BY <1>1, PairSafe, PTL

(* PairFailureReported: a setup that fails, in either process, is the      *)
(* judger's E_CHILD.                                                       *)
THEOREM PairFailuresReported == Spec => []PairFailureReported
<1>1. PairInv => PairFailureReported
  <2> SUFFICES ASSUME PairInv, NEW p \in Procs, yerrno[p] \notin {0, E_EXEC},
                      ret \notin {Running, E_CHILD}
               PROVE  FALSE
    BY DEF PairFailureReported
  <2>1. PairStageInv /\ PairHandshakeInv /\ p \in {interactor, executable}
    BY Pair DEF PairInv
  <2>2. at[interactor] # "unborn"
    BY <2>1 DEF PairStageInv
  <2> QED BY <2>1, <2>2 DEF PairHandshakeInv, ExecutableWentWell, WentWell, BadSetup
<1> QED BY <1>1, PairSafe, PTL

(* OnlyConfinedRun: neither program of the pair runs without the filter,   *)
(* nor the executable without its limits.                                  *)
THEOREM OnlyConfined == Spec => []OnlyConfinedRun
<1>1. PairInv => OnlyConfinedRun
  BY DEF PairInv, PairStageInv, OnlyConfinedRun
<1> QED BY <1>1, PairSafe, PTL

-----------------------------------------------------------------------------
(* The timeout of the pair.                                                *)

LEMMA TimeoutKept ==
  ASSUME TypeOK, SessionInv, PairInv, PairTimeoutInv, [Next]_ivars
  PROVE  PairTimeoutInv'
<1>0. /\ interactor \in Procs /\ executable \in Procs /\ Procs = {interactor, executable}
      /\ interactor = Direct /\ PairStageInv /\ PairHandshakeInv
      /\ at \in [Procs -> ChildPoints] /\ group \subseteq Procs
  BY Pair DEF PairInv, TypeOK
<1> DEFINE Ended == \A q \in Procs : at[q] \in {"zombie", "reaped"}
           TimedOut == \E p \in Procs : obit[p].by = "timeout"
<1>1. SUFFICES ASSUME TimedOut' PROVE Ended'
  BY DEF PairTimeoutInv
<1>2. CASE (ChildSetup \/ ChildOther) /\ UNCHANGED inputVars
  <2>1. TimedOut
    BY <1>1, <1>2, ChildSteps DEF ChildrenStep
  <2>2. Ended
    BY <2>1 DEF PairTimeoutInv
  <2>3. FALSE
    BY <1>0, <1>2, <2>2
       DEF ChildSetup, ChildOther, InteractorSetup, ExecutableSetup, ChildAt, ChildFails,
           InteractorStarts, InteractorForks, interactor_prework, apply_policy, ChildExec,
           ChildExits, InteractorReads, InteractorSends, executable_prework,
           apply_resource_limit, ExecutableSends, Program, ProgramExits, ProgramKilled,
           ProgramStops, ProgramContinues, EarlyDeath
  <2> QED BY <2>3
<1>3. CASE SessionStep
  <2>1. ASSUME Ended PROVE Ended'
    <3>1. ~Forked
      BY <1>0, <2>1 DEF PairStageInv, Forked
    <3> QED BY <1>3, <2>1, <3>1, SessionMoves DEF Live
  <2>2. CASE TimedOut
    BY <2>1, <2>2 DEF PairTimeoutInv
  <2>3. ASSUME ~TimedOut, NEW by, killpg(karg.pid, by), killer # "none" PROVE Ended'
    <3>1. PICK p \in Procs : obit'[p].by = "timeout"
      BY <1>1
    <3>2. p \in group /\ karg.pid = Direct
      <4>1. obit'[p] # obit[p]
        BY <2>3, <3>1
      <4>2. PICK g : g = karg.pid /\ killpg(g, by)
        BY <2>3
      <4> QED BY <4>1, <4>2, KillEffect
    <3>3. WentWell(interactor) /\ ExecutableWentWell
      BY <1>0, <2>3 DEF PairHandshakeInv
    <3>4. group = Procs
      BY <1>0, <3>2, <3>3 DEF PairStageInv, ExecutableWentWell, WentWell
    <3>5. \A q \in Procs : at[q] \in {"zombie", "reaped"} \/ q \in Members(Direct)
      BY <1>0, <3>3, <3>4 DEF Members, Live, WentWell, ExecutableWentWell
    <3> QED BY <1>0, <2>3, <3>2, <3>5, DieNow DEF killpg
  <2>4. ASSUME ~TimedOut PROVE \E by : killpg(karg.pid, by) /\ killer # "none"
    <3>1. ~ UNCHANGED obit
      BY <1>1, <2>4
    <3>2. ASSUME KilledBy("judger") PROVE FALSE
      <4>1. PICK p \in Procs : obit'[p].by = "timeout"
        BY <1>1
      <4>2. obit'[p].by = "judger"
        BY <2>4, <3>2, <4>1, KillEffect DEF KilledBy
      <4> QED BY <4>1, <4>2
    <3> QED BY <1>3, <3>1, <3>2, SessionProcesses
  <2> QED BY <2>2, <2>3, <2>4
<1> HIDE DEF Ended, TimedOut
<1> QED BY <1>2, <1>3, NextSteps

(* TimeoutEndsBoth: when the killer's timeout has ended one of the pair,   *)
(* neither is alive.                                                       *)
THEOREM TimeoutsEndBoth == Spec => []TimeoutEndsBoth
<1>1. Init => PairTimeoutInv
  BY DEF Init, SessionInit, ProcInit, NoObit, PairTimeoutInv
<1>2. TypeOK /\ SessionInv /\ PairInv /\ PairTimeoutInv /\ [Next]_ivars
        => PairTimeoutInv'
  BY TimeoutKept
<1>3. PairTimeoutInv => TimeoutEndsBoth
  BY DEF PairTimeoutInv, TimeoutEndsBoth, Live
<1> QED BY <1>1, <1>2, <1>3, Typing, SessionSafe, PairSafe, PTL DEF Spec

-----------------------------------------------------------------------------
(* The interactive judger implements Judgement, for all values of its      *)
(* constants, as long as no read is interrupted, no program is stopped,    *)
(* setpgid succeeds and the interactor does not die before it has reported *)
(* (interactive.c:90,111,116,156,166).                                     *)

Undisturbed == ~Fails("read") /\ ~Fails("stop") /\ ~Fails("setpgid") /\ ~Fails("early_death")

(* Why the answer is a Judgement's: FAILED comes from an interactor whose  *)
(* setup failed, the judger only returns when the interactor is not to run *)
(* any more, and the verdict fits the status that it was reached from.     *)
PairAnswerInv ==
  /\ at[interactor] # "stopped"
  /\ at[interactor] \notin {"unborn", "born"} => interactor \in group
  /\ FailedSent => BadSetup(interactor) /\ at[interactor] \in {"exiting", "zombie"}
  /\ BadSetup(interactor) => at[interactor] \in {"failing", "exiting", "zombie"}
  /\ at[interactor] = "failing" => BadSetup(interactor)
  /\ pc = "after_wait" => at[interactor] = "reaped"
  /\ pc = "returned" => \/ at[interactor] \in {"unborn", "zombie", "reaped"}
                        \/ at[interactor] = "exiting" /\ BadSetup(interactor)
  /\ at[interactor] \notin {"zombie", "reaped"} => obit[interactor].st = NoObit.st
  /\ at[interactor] \in {"zombie", "reaped"} =>
       obit[interactor].st.how \in {"exited", "signaled"}
  /\ pc = "after_wait" /\ todo = <<>> => result.code \in J!Permitted(status)

-----------------------------------------------------------------------------
(* What the children's steps do to the interactor.                         *)

Left  == UNCHANGED <<at[interactor], obit[interactor], yerrno[interactor], p_run>>
Moved(from, to) ==
  /\ at[interactor] \in from /\ at'[interactor] \in to
  /\ obit'[interactor] = obit[interactor]
Well  == yerrno'[interactor] = yerrno[interactor]

Prepares == /\ Moved({"born", "grouped", "forked", "wired"},
                     {"grouped", "forked", "wired", "confined"})
            /\ Well /\ UNCHANGED p_run
            /\ at[interactor] = "born" => interactor \in group'
Breaks   == /\ Moved({"born", "forked", "wired", "confined"}, {"failing"})
            /\ yerrno'[interactor] \notin {0, E_EXEC} /\ UNCHANGED p_run
            /\ at[interactor] = "born" => interactor \in group'
Pairs    == Moved({"confined"}, {"paired"}) /\ Well /\ UNCHANGED p_run
Reports  == /\ Well
            /\ \/ Moved({"failing"}, {"exiting"})
               \/ Moved({"paired"}, {"ready"}) /\ p_run' = Append(p_run, "READY")
Executes == /\ UNCHANGED p_run
            /\ \/ Moved({"ready"}, {"running"}) /\ Well
               \/ Moved({"ready"}, {"exiting"}) /\ yerrno'[interactor] = E_EXEC
Dies     == /\ at[interactor] \in {"ready", "running", "exiting"}
            /\ at'[interactor] = "zombie"
            /\ obit'[interactor].st.how \in {"exited", "signaled"}
            /\ Well /\ UNCHANGED p_run

LEMMA ChildEffect ==
  ASSUME TypeOK, Undisturbed, at[interactor] # "stopped", ChildSetup \/ ChildOther
  PROVE  /\ group \subseteq group'
         /\ Left \/ Prepares \/ Breaks \/ Pairs \/ Reports \/ Executes \/ Dies
<1>0. /\ interactor \in Procs /\ executable \in Procs /\ interactor # executable
      /\ Procs = {interactor, executable}
      /\ at \in [Procs -> ChildPoints] /\ yerrno \in [Procs -> Nat]
  BY Pair DEF TypeOK
<1> DEFINE Goal == /\ group \subseteq group'
                   /\ Left \/ Prepares \/ Breaks \/ Pairs \/ Reports \/ Executes \/ Dies
<1> SUFFICES Goal
  OBVIOUS
<1>e. {E_PIPE, E_DUP, E_ERRFD, E_INTACT_EXEC, E_APP_POL} \cap {0, E_EXEC} = {}
  BY DEF E_PIPE, E_DUP, E_ERRFD, E_INTACT_EXEC, E_APP_POL, E_EXEC
<1> USE DEF ChildAt, ChildFails, Moved, Well
<1>1. ASSUME NEW p \in Procs, NEW st, NEW by, Die({p}, st, by),
             p = interactor => at[p] \in {"ready", "running", "exiting"},
             st.how \in {"exited", "signaled"},
             UNCHANGED <<group, yerrno, p_run>>
      PROVE  Goal
  <2>1. CASE p = interactor
    BY <1>0, <1>1, <2>1, DieNow DEF Dies
  <2>2. CASE p # interactor
    BY <1>0, <1>1, <2>2, DieNow DEF Left
  <2> QED BY <2>1, <2>2
<1>2. /\ \A c : Exited(c).how = "exited"
      /\ \A s : Signaled(s).how = "signaled"
  BY DEF Exited, Signaled
<1>3. CASE InteractorStarts /\ UNCHANGED p_run
  BY <1>0, <1>e, <1>3 DEF InteractorStarts, Undisturbed, Prepares, Breaks
<1>4. CASE InteractorForks /\ UNCHANGED p_run
  BY <1>0, <1>4 DEF InteractorForks, Prepares
<1>5. CASE interactor_prework /\ UNCHANGED p_run
  BY <1>0, <1>e, <1>5 DEF interactor_prework, Prepares, Breaks
<1>6. CASE apply_policy(interactor, "wired") /\ UNCHANGED p_run
  BY <1>0, <1>e, <1>6 DEF apply_policy, Prepares, Breaks
<1>7. CASE InteractorReads
  BY <1>0, <1>e, <1>7 DEF InteractorReads, Pairs, Breaks
<1>8. CASE InteractorSends
  BY <1>0, <1>8 DEF InteractorSends, Reports
<1>9. CASE /\ UNCHANGED p_run
           /\ \/ executable_prework \/ apply_resource_limit(executable)
              \/ apply_policy(executable, "limited")
  BY <1>0, <1>9 DEF executable_prework, apply_resource_limit, apply_policy, Left
<1>10. CASE ExecutableSends
  BY <1>0, <1>10 DEF ExecutableSends, Left
<1>11. ASSUME NEW p \in Procs, ChildExec(p), UNCHANGED p_run PROVE Goal
  <2>1. CASE at[p] = "ready" /\ Die({p}, Signaled("SIGSYS"), "kernel") /\ UNCHANGED yerrno
    BY <1>1, <1>2, <1>11, <2>1 DEF ChildExec
  <2>2. CASE ChildAt(p, "ready", "running") /\ UNCHANGED <<obit, yerrno>>
    BY <1>0, <1>11, <2>2 DEF ChildExec, Left, Executes
  <2>3. CASE /\ ChildAt(p, "ready", "exiting") /\ UNCHANGED obit
             /\ yerrno' = [yerrno EXCEPT ![p] = E_EXEC]
    BY <1>0, <1>11, <2>3 DEF ChildExec, Left, Executes
  <2> QED BY <1>11, <2>1, <2>2, <2>3 DEF ChildExec
<1>12. ASSUME NEW p \in Procs, ChildExits(p), UNCHANGED p_run PROVE Goal
  BY <1>1, <1>2, <1>12 DEF ChildExits
<1>13. ASSUME NEW p \in Procs, Program(p) \/ EarlyDeath(p), UNCHANGED p_run PROVE Goal
  <2>1. CASE ProgramExits(p) \/ ProgramKilled(p)
    BY <1>1, <1>2, <1>13, <2>1 DEF ProgramExits, ProgramKilled
  <2>2. ~ProgramStops(p) /\ ~EarlyDeath(p)
    BY DEF Undisturbed, ProgramStops, EarlyDeath
  <2>3. CASE ProgramContinues(p)
    BY <1>0, <1>13, <2>3 DEF ProgramContinues, Left
  <2> QED BY <1>13, <2>1, <2>2, <2>3 DEF Program
<1> HIDE DEF Goal
<1> QED BY <1>0, <1>3, <1>4, <1>5, <1>6, <1>7, <1>8, <1>9, <1>10, <1>11, <1>12, <1>13
        DEF ChildSetup, InteractorSetup, ExecutableSetup, ChildOther

(* They preserve PairAnswerInv.                                            *)
LEMMA ChildAnswer ==
  ASSUME TypeOK, PairInv, PairAnswerInv, Undisturbed, ChildSetup \/ ChildOther
  PROVE  PairAnswerInv'
<1>0. /\ UNCHANGED <<pc, todo, result, status>> /\ at[interactor] \in ChildPoints
      /\ at[interactor] \notin {"failing", "exiting", "zombie", "reaped"} => yerrno[interactor] = 0
  BY Pair DEF ChildSetup, ChildOther, TypeOK, PairInv, PairStageInv
<1>1. UNCHANGED p_run => (FailedSent' <=> FailedSent)
  BY FailedMoves
<1>2. /\ group \subseteq group'
      /\ Left \/ Prepares \/ Breaks \/ Pairs \/ Reports \/ Executes \/ Dies
  BY ChildEffect DEF PairAnswerInv
<1>3. p_run' = Append(p_run, "READY") => (FailedSent' => FailedSent)
  BY FailedMoves
<1> USE DEF PairAnswerInv, BadSetup, Moved, Well
<1>4. CASE Left
  BY <1>0, <1>1, <1>2, <1>4 DEF Left
<1>5. CASE Prepares
  BY <1>0, <1>1, <1>2, <1>5 DEF Prepares
<1>6. CASE Breaks
  BY <1>0, <1>1, <1>2, <1>6 DEF Breaks
<1>7. CASE Pairs
  BY <1>0, <1>1, <1>2, <1>7 DEF Pairs
<1>8. CASE Reports
  <2>1. CASE Moved({"failing"}, {"exiting"})
    BY <1>0, <1>2, <1>8, <2>1 DEF Reports
  <2>2. CASE Moved({"paired"}, {"ready"}) /\ p_run' = Append(p_run, "READY")
    BY <1>0, <1>2, <1>3, <1>8, <2>2 DEF Reports
  <2> QED BY <1>8, <2>1, <2>2 DEF Reports
<1>9. CASE Executes
  BY <1>0, <1>1, <1>2, <1>9 DEF Executes
<1>10. CASE Dies
  BY <1>0, <1>1, <1>2, <1>10 DEF Dies
<1> QED BY <1>2, <1>4, <1>5, <1>6, <1>7, <1>8, <1>9, <1>10

(* The judger's and the killer's steps preserve it.                        *)
LEMMA SessionAnswer ==
  ASSUME TypeOK, SessionInv, PairInv, PairAnswerInv, Undisturbed, SessionStep
  PROVE  PairAnswerInv'
<1>0. /\ interactor \in Procs /\ at \in [Procs -> ChildPoints]
      /\ obit \in [Procs -> ObitRecord] /\ at[interactor] \in ChildPoints /\ interactor = Direct
      /\ ChainInv /\ ReapInv
  BY Pair DEF TypeOK, SessionInv
<1>1. UNCHANGED p_run => (FailedSent' <=> FailedSent)
  BY FailedMoves
<1>2. /\ pc \in {"init", "before_fork"} => at[interactor] = "unborn"
      /\ at[interactor] = "unborn" => ~BadSetup(interactor)
      /\ pc \in {"after_fork", "after_wait"} \/ killer # "none" => WentWell(interactor)
  BY <1>0 DEF PairInv, PairStageInv, PairHandshakeInv, BadSetup
<1> USE DEF PairAnswerInv, BadSetup
<1>3. CASE \E ok \in BOOLEAN : Create(ok)
  <2>1. /\ pc = "init" /\ UNCHANGED <<p_run, sysVars, status>>
        /\ pc' \in {"before_fork", "returned"}
    BY <1>3 DEF Create, Return
  <2> QED BY <1>1, <1>2, <2>1
<1>4. CASE compile_policy_before_fork \/ init_result_before_fork
  <2>1. pc = "before_fork"
    BY <1>4, <1>0, HookPlace DEF compile_policy_before_fork, init_result_before_fork
  <2>2. UNCHANGED <<p_run, sysVars, status>> /\ pc' \in {"before_fork", "returned"}
    BY <1>4, <2>1 DEF compile_policy_before_fork, init_result_before_fork, HookDone, Return
  <2> QED BY <1>1, <1>2, <2>1, <2>2
<1>5. CASE Fork
  <2>1. pc = "before_fork" /\ UNCHANGED <<group, obit, yerrno, p_run>>
    BY <1>5 DEF Fork, ChainDone
  <2>2. at[interactor] = "unborn"
    BY <1>2, <2>1
  <2>3. CASE Goto("wait_ready") /\ at' = [at EXCEPT ![Direct] = "born"]
    BY <1>0, <1>1, <1>2, <2>1, <2>2, <2>3 DEF Goto
  <2>4. CASE Return(E_FORK) /\ UNCHANGED at
    BY <1>0, <1>1, <2>1, <2>2, <2>4 DEF Return
  <2> QED BY <1>5, <2>3, <2>4 DEF Fork
<1>6. CASE WaitReady
  <2>1. /\ pc = "wait_ready" /\ UNCHANGED sysVars /\ p_run # <<>> /\ p_run' = Tail(p_run)
        /\ \/ pc' = "after_fork"
           \/ pc' = "returned" /\ Head(p_run) # "READY"
    BY <1>6 DEF WaitReady, Undisturbed, StartChain, Return, child_ready
  <2>2. FailedSent' => FailedSent
    BY <2>1, FailedMoves
  <2>3. pc' = "returned" => FailedSent
    BY <2>1, FailedMoves
  <2> QED BY <1>0, <2>1, <2>2, <2>3
<1>7. CASE timer_after_fork \/ start_killer_after_fork \/ start_killer_returns
  <2>1. pc = "after_fork"
    BY <1>0, <1>7, HookPlace
       DEF timer_after_fork, start_killer_after_fork, start_killer_returns
  <2>2. UNCHANGED <<pc, p_run, procVars>>
    BY <1>7 DEF timer_after_fork, start_killer_after_fork, start_killer_returns, HookDone, HookAt
  <2> QED BY <1>0, <1>1, <2>1, <2>2
<1>8. CASE Waitpid
  <2>1. /\ at[interactor] = "zombie" /\ at'[interactor] = "reaped" /\ pc' = "after_wait"
        /\ UNCHANGED <<group, obit, yerrno, p_run>>
    BY <1>0, <1>8 DEF Waitpid, StartChain
  <2>2. todo' # <<>>
    BY <1>0, <1>8, BuiltinChains, ChainsDiffer DEF Waitpid, StartChain, ChainDone, ChainInv
  <2>3. pc = "after_fork"
    BY <1>8 DEF Waitpid, ChainDone
  <2>4. ~BadSetup(interactor)
    BY <1>2, <2>3 DEF WentWell
  <2> QED BY <1>1, <2>1, <2>2, <2>4
<1>9. ASSUME NEW D, NEW by, D \subseteq {p \in group : Live(p)}, Die(D, Signaled("SIGKILL"), by),
             UNCHANGED <<group, yerrno, p_run, status>>,
             \/ UNCHANGED <<pc, todo, result>> /\ killer # "none"
             \/ pc = "after_fork" /\ pc' = "returned" /\ D = {p \in group : Live(p)}
      PROVE  PairAnswerInv'
  <2>1. WentWell(interactor) /\ interactor \in group
    BY <1>2, <1>9 DEF WentWell
  <2>2. CASE interactor \notin D
    <3>1. at'[interactor] = at[interactor] /\ obit'[interactor] = obit[interactor]
      BY <1>0, <1>9, <2>2, DieNow
    <3>2. pc' = "returned" /\ pc # "returned" => at[interactor] \in {"unborn", "zombie", "reaped"}
      BY <1>0, <1>9, <2>1, <2>2 DEF Live, WentWell
    <3> QED BY <1>1, <1>9, <3>1, <3>2
  <2>3. CASE interactor \in D
    <3>1. Live(interactor)
      BY <1>9, <2>3
    <3>2. at'[interactor] = "zombie" /\ obit'[interactor].st = Signaled("SIGKILL")
      BY <1>0, <1>9, <2>3, DieNow
    <3>3. yerrno[interactor] \in {0, E_EXEC}
      BY <2>1 DEF WentWell, BadSetup
    <3>4. obit'[interactor].st.how = "signaled"
      BY <3>2 DEF Signaled
    <3>5. pc # "after_wait" \/ pc' # "after_wait"
      BY <3>1 DEF Live
    <3> QED BY <1>1, <1>9, <2>1, <3>2, <3>3, <3>4, <3>5
  <2> QED BY <2>2, <2>3
<1>10. CASE WaitpidFails
  <2>1. Die({p \in group : Live(p)}, Signaled("SIGKILL"), "judger")
    BY <1>10 DEF WaitpidFails, killpg, Members
  <2>2. /\ UNCHANGED <<group, yerrno, p_run, status>>
        /\ pc = "after_fork" /\ pc' = "returned"
    BY <1>10 DEF WaitpidFails, ChainDone, Return
  <2> QED BY <1>9, <2>1, <2>2
<1>11. CASE timer_after_wait \/ get_usage_after_wait \/ stop_killer_after_wait \/ join_killer
  <2>1. pc = "after_wait" /\ Tail(todo) # <<>> /\ todo # <<>>
    <3>1. Hook("end_timer") \/ Hook("get_usage") \/ Hook("stop_killer")
      BY <1>11 DEF timer_after_wait, get_usage_after_wait, stop_killer_after_wait, join_killer
    <3>2. /\ pc = "after_wait"
          /\ \/ /\ todo = <<"end_timer", "get_usage", "stop_killer", "analyze">>
                /\ Tail(todo) = <<"get_usage", "stop_killer", "analyze">>
             \/ /\ todo = <<"get_usage", "stop_killer", "analyze">>
                /\ Tail(todo) = <<"stop_killer", "analyze">>
             \/ todo = <<"stop_killer", "analyze">> /\ Tail(todo) = <<"analyze">>
      BY <1>0, <3>1, HookPlace
    <3> QED BY <3>2, ChainsDiffer
  <2>2. /\ UNCHANGED <<p_run, procVars>>
        /\ \/ pc' = "returned"
           \/ pc' = pc /\ todo' \in {todo, Tail(todo)}
    BY <1>11 DEF timer_after_wait, get_usage_after_wait, stop_killer_after_wait, join_killer,
                 HookDone, HookAt, Return
  <2> QED BY <1>0, <1>1, <2>1, <2>2
<1>12. CASE analyze_after_wait
  <2>1. pc = "after_wait" /\ todo # <<>>
    BY <1>0, <1>12, HookPlace, ChainsDiffer DEF analyze_after_wait
  <2>2. /\ UNCHANGED <<p_run, procVars, pc, status>>
        /\ result' = analyze(rctxt, result, status, rusage.maxrss)
    BY <1>12 DEF analyze_after_wait, HookDone
  <2>3. /\ rctxt \in LimitRecord /\ result \in ResultRecord /\ rusage.maxrss \in Nat
        /\ status \in StatusRecord
    BY LimitAssumption DEF TypeOK
  <2>4. result.code = "SE"
    BY <2>1 DEF SessionInv, MeasureInv
  <2>5. status.how \in {"exited", "signaled"}
    BY <1>0, <2>1 DEF ReapInv
  <2>6. result'.code \in J!Permitted(status)
    BY <2>2, <2>3, <2>4, <2>5, AnalyzeCodes DEF J!Permitted
  <2> QED BY <1>0, <1>1, <2>1, <2>2, <2>6
<1>13. CASE Finish
  <2>1. pc = "after_wait" /\ pc' = "returned" /\ UNCHANGED <<p_run, procVars>>
    BY <1>13 DEF Finish, ChainDone, Return
  <2> QED BY <1>0, <1>1, <2>1
<1>14. CASE KillerThread
  <2>1. UNCHANGED <<pc, todo, result, status, p_run>>
    BY <1>14 DEF KillerThread
  <2>2. CASE KillerKills
    <3>1. PICK D, by : D \subseteq {p \in group : Live(p)} /\ Die(D, Signaled("SIGKILL"), by)
      BY <2>2 DEF KillerKills, killpg, Members
    <3>2. killer # "none" /\ UNCHANGED <<group, yerrno>>
      BY <2>2 DEF KillerKills
    <3> QED BY <1>9, <2>1, <3>1, <3>2
  <2>3. CASE UNCHANGED procVars
    BY <1>0, <1>1, <2>1, <2>3
  <2> QED BY <1>14, <2>2, <2>3 DEF KillerThread, timeout_killer
<1>15. CASE Passage \/ UNCHANGED vars
  <2>1. UNCHANGED <<pc, todo, result, status, p_run, procVars>>
    BY <1>15 DEF Passage, Tick
  <2> QED BY <1>0, <1>1, <2>1
<1> QED BY <1>3, <1>4, <1>5, <1>6, <1>7, <1>8, <1>10, <1>11, <1>12, <1>13, <1>14, <1>15
        DEF SessionStep, Judger

(* An interactive judgement returns only when its interactor has ended, is *)
(* about to, or was never forked, and its verdict fits that end.           *)
THEOREM PairAnswerSafe == ASSUME Undisturbed PROVE Spec => []PairAnswerInv
<1>1. Init => PairAnswerInv
  BY Pair, ErrorCodes
     DEF Init, SessionInit, ProcInit, KillerInit, PairAnswerInv, FailedSent, BadSetup
<1>2. TypeOK /\ SessionInv /\ PairInv /\ PairAnswerInv /\ [Next]_ivars => PairAnswerInv'
  BY NextSteps, ChildAnswer, SessionAnswer
<1> QED BY <1>1, <1>2, Typing, SessionSafe, PairSafe, PTL DEF Spec

-----------------------------------------------------------------------------
(* The steps of the implementation, seen through program and answer.       *)

(* The interactor is past the executable's READY and has not failed since. *)
Admitted(q, bad) == q \in {"paired", "ready", "running", "stopped"} \/ (q = "exiting" /\ ~bad)

LEMMA ProgramIs ==
  LET q == at[interactor]  bad == BadSetup(interactor)
  IN  /\ program = "none" <=> q = "unborn"
      /\ program = "setup" <=> q \notin {"unborn", "zombie", "reaped"} /\ ~Admitted(q, bad)
      /\ program = "admitted" <=> Admitted(q, bad)
      /\ program = "over" <=> q \in {"zombie", "reaped"} /\ ~bad
      /\ program = "abandoned" <=> q \in {"zombie", "reaped"} /\ bad
BY DEF program, SetupFailed, BadSetup, Admitted

LEMMA ProgramWillBe ==
  LET q == at'[interactor]  bad == BadSetup(interactor)'
  IN  /\ program' = "none" <=> q = "unborn"
      /\ program' = "setup" <=> q \notin {"unborn", "zombie", "reaped"} /\ ~Admitted(q, bad)
      /\ program' = "admitted" <=> Admitted(q, bad)
      /\ program' = "over" <=> q \in {"zombie", "reaped"} /\ ~bad
      /\ program' = "abandoned" <=> q \in {"zombie", "reaped"} /\ bad
<1> HIDE DEF interactor
<1>1. interactor' = interactor
  BY DEF interactor
<1> QED BY <1>1 DEF program, SetupFailed, BadSetup, Admitted

(* What the caller sees of a step of the interactor, and of one of the judger.  *)
Same     == UNCHANGED <<program, obit[interactor].st>>
Ends     == /\ program \in {"setup", "admitted"}
            /\ program' = IF program = "setup" THEN "abandoned" ELSE "over"
            /\ obit[interactor].st = J!Alive /\ obit'[interactor].st.how \in {"exited", "signaled"}
Pending  == pc # "returned"
Silent   == UNCHANGED <<pc, ret>> /\ (UNCHANGED result \/ Pending)

LEMMA SameAnswer == ASSUME Silent \/ (Pending /\ Pending') PROVE answer' = answer
BY DEF Silent, Pending, answer

LEMMA AliveThen ==
  ASSUME PairAnswerInv, at[interactor] \notin {"zombie", "reaped"}
  PROVE  obit[interactor].st = J!Alive
BY DEF PairAnswerInv, NoObit, NoSignal, J!Alive

(* What is left alone looks the same.                                      *)
LEMMA SameProgram ==
  ASSUME UNCHANGED <<at[interactor], obit[interactor], yerrno[interactor]>>
  PROVE  Same
BY ProgramIs, ProgramWillBe DEF Same, program, SetupFailed, BadSetup

(* The children's steps are Admit, End or none.                            *)
LEMMA ChildMaps ==
  ASSUME TypeOK, PairInv, PairAnswerInv, Undisturbed, ChildSetup \/ ChildOther
  PROVE  [J!Next]_J!jvars
<1>0. /\ at[interactor] \in ChildPoints
      /\ at[interactor] \notin {"failing", "exiting", "zombie", "reaped"} => ~BadSetup(interactor)
  BY Pair DEF TypeOK, PairInv, PairStageInv, BadSetup
<1>1. answer' = answer
  BY SameAnswer DEF ChildSetup, ChildOther, Silent
<1>2. SUFFICES Same \/ Ends \/ (program = "setup" /\ Pending /\ program' = "admitted"
                                /\ obit'[interactor].st = obit[interactor].st)
  <2>1. Same => UNCHANGED J!jvars
    BY <1>1 DEF Same, J!jvars
  <2>2. Ends => J!End
    BY <1>1 DEF Ends, J!End
  <2>3. /\ program = "setup" /\ Pending /\ program' = "admitted"
        /\ obit'[interactor].st = obit[interactor].st
        => J!Admit
    BY <1>1 DEF Pending, answer, J!Admit
  <2> QED BY <1>2, <2>1, <2>2, <2>3 DEF J!Next
<1>3. Left \/ Prepares \/ Breaks \/ Pairs \/ Reports \/ Executes \/ Dies
  BY ChildEffect DEF PairAnswerInv
<1> USE DEF Moved, Well, BadSetup, Admitted
<1>4. CASE Left
  BY <1>4, SameProgram DEF Left
<1>5. CASE Prepares \/ Breaks
  BY <1>5, ProgramIs, ProgramWillBe DEF Prepares, Breaks, Same
<1>6. CASE Pairs
  BY <1>6, ProgramIs, ProgramWillBe DEF Pairs, PairAnswerInv, Pending
<1>7. CASE Reports
  BY <1>0, <1>7, ProgramIs, ProgramWillBe DEF Reports, PairAnswerInv, Same
<1>8. CASE Executes
  BY <1>0, <1>8, ProgramIs, ProgramWillBe DEF Executes, Same
<1>9. CASE Dies
  BY <1>0, <1>9, ProgramIs, ProgramWillBe, AliveThen DEF Dies, Ends
<1> QED BY <1>3, <1>4, <1>5, <1>6, <1>7, <1>8, <1>9

LEMMA ErrorIsRefusal ==
  ASSUME Pending, pc' = "returned", ret' # 0, Same, program # "admitted"
  PROVE  J!Next
<1>1. answer = "pending" /\ answer' = "error"
  BY DEF Pending, answer
<1> QED BY <1>1 DEF Same, J!Next, J!Refuse

LEMMA SilentIsStutter ==
  ASSUME Silent \/ (Pending /\ Pending'), Same
  PROVE  UNCHANGED J!jvars
BY SameAnswer DEF Same, J!jvars

(* A kill by the judger or its killer ends the program or nothing.         *)
LEMMA KillMaps ==
  ASSUME TypeOK, PairAnswerInv, WentWell(interactor), UNCHANGED yerrno,
         NEW D, NEW by, D \subseteq {p \in group : Live(p)}, Die(D, Signaled("SIGKILL"), by)
  PROVE  \/ Same /\ (D = {p \in group : Live(p)} => program # "admitted")
         \/ /\ program = "admitted" /\ program' = "over" /\ obit[interactor].st = J!Alive
            /\ obit'[interactor].st.how = "signaled"
<1>0. interactor \in Procs /\ interactor \in group /\ ~BadSetup(interactor)
  BY Pair DEF PairAnswerInv, WentWell
<1>1. CASE interactor \notin D
  <2>1. at'[interactor] = at[interactor] /\ obit'[interactor] = obit[interactor]
    BY <1>0, <1>1, DieNow
  <2>2. Same
    BY <2>1, SameProgram
  <2> QED BY <1>0, <1>1, <2>2, ProgramIs DEF Live, Admitted
<1>2. CASE interactor \in D
  <2>1. at'[interactor] = "zombie" /\ obit'[interactor].st = Signaled("SIGKILL") /\ Live(interactor)
    BY <1>0, <1>2, DieNow
  <2>2. obit[interactor].st = J!Alive
    BY <2>1, AliveThen DEF Live
  <2>3. Admitted(at[interactor], BadSetup(interactor)) /\ ~BadSetup(interactor)'
    BY <1>0, <2>1 DEF Live, WentWell, Admitted, BadSetup
  <2> QED BY <2>1, <2>2, <2>3, ProgramIs, ProgramWillBe DEF Signaled
<1> QED BY <1>1, <1>2

(* The judger's steps are Begin, Refuse, GiveUp, Judge or none, its        *)
(* killer's End or none.                                                   *)
LEMMA SessionMaps ==
  ASSUME TypeOK, SessionInv, PairInv, PairAnswerInv, Undisturbed, SessionStep
  PROVE  [J!Next]_J!jvars
<1>0. /\ interactor \in Procs /\ at \in [Procs -> ChildPoints]
      /\ interactor = Direct /\ ChainInv /\ ReapInv
      /\ pc \in {"init", "before_fork"} => at[interactor] = "unborn"
      /\ at[interactor] = "unborn" => ~BadSetup(interactor)
      /\ pc \in {"after_fork", "after_wait"} \/ killer # "none" => WentWell(interactor)
  BY Pair DEF TypeOK, SessionInv, PairInv, PairStageInv, PairHandshakeInv, BadSetup
<1>1. pc \in {"init", "before_fork"} => program = "none"
  BY <1>0, ProgramIs
<1>2. pc = "after_wait" => at[interactor] = "reaped" /\ program = "over"
  BY <1>0, ProgramIs DEF PairAnswerInv, WentWell
<1>3. CASE \E ok \in BOOLEAN : Create(ok)
  <2>1. Same
    BY <1>3, SameProgram DEF Create
  <2>2. Pending /\ (Pending' \/ (pc' = "returned" /\ ret' # 0)) /\ program # "admitted"
    BY <1>1, <1>3 DEF Create, Return, E_PIPE, E_ARGC, Pending
  <2> QED BY <2>1, <2>2, ErrorIsRefusal, SilentIsStutter
<1>4. CASE compile_policy_before_fork \/ init_result_before_fork
  <2>1. pc = "before_fork"
    BY <1>0, <1>4, HookPlace DEF compile_policy_before_fork, init_result_before_fork
  <2>2. Same
    BY <1>4, SameProgram DEF compile_policy_before_fork, init_result_before_fork
  <2>3. pc' = pc \/ (pc' = "returned" /\ ret' # 0)
    BY <1>4 DEF compile_policy_before_fork, init_result_before_fork, HookDone, Return,
                E_ERROR, E_POL_IDT, E_KAFEL, E_FCNTL
  <2> QED BY <1>1, <2>1, <2>2, <2>3, ErrorIsRefusal, SilentIsStutter DEF Pending
<1>5. CASE Fork
  <2>1. pc = "before_fork" /\ UNCHANGED <<yerrno, obit>>
    BY <1>5 DEF Fork, ChainDone
  <2>2. CASE Goto("wait_ready") /\ at' = [at EXCEPT ![Direct] = "born"]
    <3>1. at'[interactor] = "born"
      BY <1>0, <2>2
    <3>2. program' = "setup" /\ UNCHANGED obit[interactor].st
      BY <2>1, <3>1, ProgramWillBe DEF Admitted
    <3>3. answer = "pending" /\ answer' = "pending"
      BY <2>1, <2>2 DEF Goto, answer
    <3> QED BY <1>1, <2>1, <3>2, <3>3 DEF J!Next, J!Begin
  <2>3. CASE Return(E_FORK) /\ UNCHANGED at
    <3>1. Same
      BY <2>1, <2>3, SameProgram
    <3>2. Pending /\ pc' = "returned" /\ ret' # 0
      BY <2>1, <2>3 DEF Return, E_FORK, Pending
    <3> QED BY <1>1, <2>1, <3>1, <3>2, ErrorIsRefusal
  <2> QED BY <1>5, <2>2, <2>3 DEF Fork
<1>6. CASE WaitReady
  <2>1. /\ pc = "wait_ready" /\ UNCHANGED sysVars /\ p_run # <<>>
        /\ \/ pc' = "after_fork"
           \/ pc' = "returned" /\ ret' # 0 /\ Head(p_run) # "READY"
    BY <1>6 DEF WaitReady, Undisturbed, StartChain, Return, child_ready, E_CHILD
  <2>2. Same
    BY <2>1, SameProgram
  <2>3. CASE pc' = "after_fork"
    BY <2>1, <2>2, <2>3, SilentIsStutter DEF Pending
  <2>4. CASE pc' = "returned" /\ ret' # 0 /\ Head(p_run) # "READY"
    <3>1. FailedSent
      BY <2>1, <2>4, FailedMoves
    <3>2. BadSetup(interactor) /\ at[interactor] \in {"exiting", "zombie"}
      BY <3>1 DEF PairAnswerInv
    <3> QED BY <2>1, <2>2, <2>4, <3>2, ProgramIs, ErrorIsRefusal DEF Pending, Admitted
  <2> QED BY <2>1, <2>3, <2>4
<1>7. CASE timer_after_fork \/ start_killer_after_fork \/ start_killer_returns
  <2>1. pc = "after_fork"
    BY <1>0, <1>7, HookPlace
       DEF timer_after_fork, start_killer_after_fork, start_killer_returns
  <2>2. UNCHANGED <<pc, procVars>>
    BY <1>7 DEF timer_after_fork, start_killer_after_fork, start_killer_returns, HookDone, HookAt
  <2> QED BY <2>1, <2>2, SameProgram, SilentIsStutter DEF Pending
<1>8. CASE Waitpid
  <2>1. /\ at[interactor] = "zombie" /\ at'[interactor] = "reaped" /\ pc' = "after_wait"
        /\ pc = "after_fork" /\ UNCHANGED <<yerrno, obit>>
    BY <1>0, <1>8 DEF Waitpid, StartChain, ChainDone, PairAnswerInv
  <2>2. Same
    BY <2>1, ProgramIs, ProgramWillBe DEF Same, BadSetup, Admitted
  <2> QED BY <2>1, <2>2, SilentIsStutter DEF Pending
<1>9. CASE WaitpidFails
  <2>1. /\ Die({p \in group : Live(p)}, Signaled("SIGKILL"), "judger")
        /\ UNCHANGED yerrno /\ pc = "after_fork" /\ pc' = "returned" /\ ret' = E_WAIT
    BY <1>9 DEF WaitpidFails, killpg, Members, ChainDone, Return
  <2>2. WentWell(interactor)
    BY <1>0, <2>1
  <2>3. CASE Same /\ program # "admitted"
    BY <2>1, <2>3, ErrorIsRefusal DEF Pending, E_WAIT
  <2>4. CASE program = "admitted" /\ program' = "over" /\ obit'[interactor].st.how = "signaled"
    <3>1. answer = "pending" /\ answer' = "error"
      BY <2>1 DEF answer, E_WAIT
    <3> QED BY <2>4, <3>1 DEF J!Next, J!GiveUp
  <2> QED BY <2>1, <2>2, <2>3, <2>4, KillMaps
<1>10. CASE timer_after_wait \/ get_usage_after_wait \/ stop_killer_after_wait \/ join_killer
            \/ analyze_after_wait
  <2>1. pc = "after_wait"
    BY <1>0, <1>10, HookPlace
       DEF timer_after_wait, get_usage_after_wait, stop_killer_after_wait, join_killer,
           analyze_after_wait
  <2>2. /\ UNCHANGED procVars
        /\ pc' = pc \/ (pc' = "returned" /\ ret' # 0)
    BY <1>10 DEF timer_after_wait, get_usage_after_wait, stop_killer_after_wait, join_killer,
                 analyze_after_wait, HookDone, HookAt, Return, E_GETRUSAGE
  <2> QED BY <1>2, <2>1, <2>2, SameProgram, SilentIsStutter, ErrorIsRefusal DEF Pending
<1>11. CASE Finish
  <2>1. /\ pc = "after_wait" /\ todo = <<>> /\ pc' = "returned" /\ ret' = 0
        /\ UNCHANGED <<result, procVars>>
    BY <1>11 DEF Finish, ChainDone, Return
  <2>2. answer = "pending" /\ answer' = result.code
    BY <2>1 DEF answer
  <2>3. result.code \in J!Permitted(obit[interactor].st)
    <3>1. status = obit[interactor].st
      BY <1>0, <1>2, <2>1 DEF ReapInv
    <3> QED BY <2>1, <3>1 DEF PairAnswerInv
  <2>4. Same
    BY <2>1, SameProgram
  <2> QED BY <1>2, <2>1, <2>2, <2>3, <2>4 DEF Same, J!Next, J!Judge
<1>12. CASE KillerThread
  <2>1. Silent
    BY <1>12 DEF KillerThread, Silent
  <2>2. CASE KillerKills
    <3>1. PICK D, by : D \subseteq {p \in group : Live(p)} /\ Die(D, Signaled("SIGKILL"), by)
      BY <2>2 DEF KillerKills, killpg, Members
    <3>2. WentWell(interactor) /\ UNCHANGED yerrno
      BY <1>0, <2>2 DEF KillerKills
    <3>3. CASE Same
      BY <2>1, <3>3, SilentIsStutter
    <3>4. CASE /\ program = "admitted" /\ program' = "over" /\ obit[interactor].st = J!Alive
               /\ obit'[interactor].st.how = "signaled"
      BY <2>1, <3>4, SameAnswer DEF J!Next, J!End
    <3> QED BY <3>1, <3>2, <3>3, <3>4, KillMaps
  <2>3. CASE UNCHANGED procVars
    BY <2>1, <2>3, SameProgram, SilentIsStutter
  <2> QED BY <1>12, <2>2, <2>3 DEF KillerThread, timeout_killer
<1>13. CASE Passage \/ UNCHANGED vars
  <2>1. Silent /\ UNCHANGED procVars
    BY <1>13 DEF Passage, Tick, Silent
  <2> QED BY <2>1, SameProgram, SilentIsStutter
<1> QED BY <1>3, <1>4, <1>5, <1>6, <1>7, <1>8, <1>9, <1>10, <1>11, <1>12, <1>13
        DEF SessionStep, Judger

(* IsJudgement: the judger, its killer, the interactor and the executable  *)
(* together are a Judgement of the interactor; they answer once, with a    *)
(* verdict only on an interactor that was admitted and has ended.          *)
THEOREM PairIsJudgement == ASSUME Undisturbed PROVE Spec => IsJudgement
<1>1. Init => J!Init
  BY Pair
     DEF Init, SessionInit, ProcInit, J!Init, program, answer, NoObit, NoSignal, J!Alive
<1>2. TypeOK /\ SessionInv /\ PairInv /\ PairAnswerInv /\ [Next]_ivars => [J!Next]_J!jvars
  BY NextSteps, ChildMaps, SessionMaps
<1> QED BY <1>1, <1>2, Typing, SessionSafe, PairSafe, PairAnswerSafe, PTL
        DEF Spec, IsJudgement, J!Spec
=============================================================================
