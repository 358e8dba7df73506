----------------------- MODULE GeneralJudger_proofs -----------------------
(***************************************************************************)
(* Proofs about GeneralJudger, for all values of its constants.            *)
(***************************************************************************)
EXTENDS GeneralJudger, Session_proofs

USE DEF vars, inputVars, judgerVars, threadVars, ctxtVars, sysVars, procVars, killerVars

-----------------------------------------------------------------------------
(* Type correctness.                                                       *)

(* TypeOK: every variable keeps to the values its comment in Session,      *)
(* TimeoutKiller and Processes gives it.                                   *)
THEOREM Typing == Spec => []TypeOK
<1>1. Init => TypeOK
  BY SessionInitTyped DEF Init
<1>2. TypeOK /\ [Next]_vars => TypeOK'
  <2> SUFFICES ASSUME TypeOK, [Next]_vars PROVE TypeOK'
    OBVIOUS
  <2>1. CASE SessionStep
    BY <2>1, SessionTyped
  <2> USE DEF TypeOK, tctxt
  <2>2. CASE ChildSetup /\ UNCHANGED inputVars
    <3> USE DEF ChildSetup, ChildAt, ChildFails, child
    <3>1. CASE ChildSetpgid /\ UNCHANGED p_run
      <4>1. at' \in [Procs -> ChildPoints]
        BY <3>1 DEF ChildSetpgid, ChildPoints
      <4>2. yerrno' \in [Procs -> Nat]
        BY <3>1 DEF ChildSetpgid, E_SETPGID
      <4>3. group' \subseteq Procs
        BY <3>1, ProcessAssumption DEF ChildSetpgid
      <4> QED BY <2>2, <3>1, <4>1, <4>2, <4>3 DEF ChildSetpgid
    <3>2. CASE runner_prework /\ UNCHANGED p_run
      <4>1. at' \in [Procs -> ChildPoints]
        BY <3>2 DEF runner_prework, ChildPoints
      <4>2. yerrno' \in [Procs -> Nat]
        <5>1. E_ARGC \in Nat /\ E_FILEFD \in Nat /\ E_DUP \in Nat
          BY DEF E_ARGC, E_FILEFD, E_DUP
        <5>2. \A e \in Nat : [yerrno EXCEPT ![Direct] = e] \in [Procs -> Nat]
          OBVIOUS
        <5>3. \/ yerrno' = yerrno
              \/ \E e \in Nat : yerrno' = [yerrno EXCEPT ![Direct] = e]
          BY <3>2, <5>1 DEF runner_prework
        <5> QED BY <5>2, <5>3
      <4> QED BY <2>2, <3>2, <4>1, <4>2 DEF runner_prework
    <3>3. CASE apply_resource_limit(child) /\ UNCHANGED p_run
      <4>1. at' \in [Procs -> ChildPoints]
        BY <3>3 DEF apply_resource_limit, ChildPoints
      <4>2. yerrno' \in [Procs -> Nat]
        BY <3>3 DEF apply_resource_limit, E_RSC_LIM, E_SETRLIMIT
      <4>3. limited' \subseteq Procs
        BY <3>3, ProcessAssumption DEF apply_resource_limit
      <4> QED BY <2>2, <3>3, <4>1, <4>2, <4>3 DEF apply_resource_limit
    <3>4. CASE apply_policy(child, "limited") /\ UNCHANGED p_run
      <4>1. at' \in [Procs -> ChildPoints]
        BY <3>4 DEF apply_policy, ChildPoints
      <4>2. yerrno' \in [Procs -> Nat]
        BY <3>4 DEF apply_policy, E_APP_POL
      <4>3. confined' \subseteq Procs
        BY <3>4, ProcessAssumption DEF apply_policy
      <4> QED BY <2>2, <3>4, <4>1, <4>2, <4>3 DEF apply_policy
    <3>5. CASE ChildExits(child) /\ UNCHANGED p_run
      <4>1. at' \in [Procs -> ChildPoints] /\ obit' \in [Procs -> ObitRecord]
        BY <3>5, DieTyped, StatusTyped, ProcessAssumption DEF ChildExits
      <4> QED BY <2>2, <3>5, <4>1 DEF ChildExits
    <3>6. CASE runner_run /\ UNCHANGED p_run
      <4>1. at' \in [Procs -> ChildPoints] /\ obit' \in [Procs -> ObitRecord]
        BY <3>6, DieTyped, StatusTyped DEF runner_run, ChildExec, AllSignals, ChildPoints
      <4>2. yerrno' \in [Procs -> Nat]
        BY <3>6 DEF runner_run, ChildExec, E_EXEC
      <4> QED BY <2>2, <3>6, <4>1, <4>2 DEF runner_run, ChildExec
    <3>7. CASE ChildSends
      <4>1. at' \in [Procs -> ChildPoints]
        BY <3>7 DEF ChildSends, ChildPoints
      <4>2. p_run' \in Seq({"FAILED", "READY"})
        <5>1. Append(p_run, "FAILED") \in Seq({"FAILED", "READY"})
          OBVIOUS
        <5>2. Append(p_run, "READY") \in Seq({"FAILED", "READY"})
          OBVIOUS
        <5> QED BY <3>7, <5>1, <5>2 DEF ChildSends
      <4> QED BY <2>2, <3>7, <4>1, <4>2 DEF ChildSends
    <3> QED BY <2>2, <3>1, <3>2, <3>3, <3>4, <3>5, <3>6, <3>7
  <2>3. CASE ChildOther /\ UNCHANGED inputVars
    <3>1. at' \in [Procs -> ChildPoints] /\ obit' \in [Procs -> ObitRecord]
      <4>1. CASE ProgramExits(child)
        BY <4>1, DieTyped, StatusTyped, ProcessAssumption DEF ProgramExits
      <4>2. CASE ProgramKilled(child)
        BY <4>2, DieTyped, StatusTyped DEF ProgramKilled, AllSignals
      <4>3. CASE ProgramStops(child) \/ ProgramContinues(child)
        BY <4>3 DEF ProgramStops, ProgramContinues, ChildPoints
      <4>4. CASE EarlyDeath(child)
        BY <4>4, DieTyped, StatusTyped DEF EarlyDeath, AllSignals
      <4> QED BY <2>3, <4>1, <4>2, <4>3, <4>4 DEF ChildOther, Program
    <3>2. UNCHANGED <<group, limited, confined, yerrno>>
      BY <2>3 DEF ChildOther, Program, ProgramExits, ProgramKilled, ProgramStops,
                   ProgramContinues, EarlyDeath
    <3> QED BY <2>3, <3>1, <3>2 DEF ChildOther
  <2> QED BY <2>1, <2>2, <2>3 DEF Next, JudgerStep, Over, SessionStep
<1> QED BY <1>1, <1>2, PTL DEF Spec

-----------------------------------------------------------------------------
(* The verdict and the killer.                                             *)

LEMMA ChildSteps ==
  ASSUME TypeOK, ChildSetup \/ ChildOther, UNCHANGED inputVars
  PROVE  ChildrenStep
<1>0. child \in Procs /\ Direct \in Procs /\ at \in [Procs -> ChildPoints]
  BY ProcessAssumption DEF child, TypeOK
<1>1. UNCHANGED <<threadVars, ctxtVars, killerVars, clock>>
  BY DEF ChildSetup, ChildOther
<1>2. ASSUME NEW st, NEW by, Die({child}, st, by), by # "timeout", at[child] # "reaped",
             st.how = "exited" => st = Exited(st.code)
      PROVE  ChildrenStep
  BY <1>0, <1>1, <1>2, DieNow DEF ChildrenStep, child
<1>3. ASSUME UNCHANGED obit, at[child] # "reaped", at'[child] # "reaped"
      PROVE  ChildrenStep
  BY <1>0, <1>1, <1>3 DEF ChildrenStep, child
<1>4. /\ \A c : Exited(c).how = "exited" => Exited(c) = Exited(Exited(c).code)
      /\ \A s : Signaled(s).how # "exited"
  BY DEF Exited, Signaled
<1>5. CASE \/ ChildSetpgid \/ runner_prework \/ apply_resource_limit(child)
           \/ apply_policy(child, "limited") \/ ChildSends
  <2>1. UNCHANGED obit /\ at[child] # "reaped" /\ at'[child] # "reaped"
    <3> USE DEF ChildAt, ChildFails
    <3>1. CASE ChildSetpgid
      BY <1>0, <3>1 DEF ChildSetpgid
    <3>2. CASE runner_prework
      BY <1>0, <3>2 DEF runner_prework
    <3>3. CASE apply_resource_limit(child)
      BY <1>0, <3>3 DEF apply_resource_limit
    <3>4. CASE apply_policy(child, "limited")
      BY <1>0, <3>4 DEF apply_policy
    <3>5. CASE ChildSends
      BY <1>0, <3>5 DEF ChildSends
    <3> QED BY <1>5, <3>1, <3>2, <3>3, <3>4, <3>5
  <2> QED BY <1>3, <2>1
<1>6. CASE ChildExits(child)
  BY <1>2, <1>4, <1>6 DEF ChildExits
<1>7. CASE runner_run
  <2>1. CASE (ChildAt(child, "ready", "running") \/ ChildAt(child, "ready", "exiting")) /\ UNCHANGED obit
    BY <1>0, <1>3, <2>1 DEF ChildAt
  <2>2. CASE at[child] = "ready" /\ Die({child}, Signaled("SIGSYS"), "kernel")
    BY <1>2, <1>4, <2>2
  <2> QED BY <1>7, <2>1, <2>2 DEF runner_run, ChildExec
<1>8. CASE ProgramExits(child) \/ ProgramKilled(child) \/ EarlyDeath(child)
  BY <1>2, <1>4, <1>8 DEF ProgramExits, ProgramKilled, EarlyDeath
<1>9. CASE ProgramStops(child) \/ ProgramContinues(child)
  BY <1>0, <1>3, <1>9 DEF ProgramStops, ProgramContinues
<1> QED BY <1>5, <1>6, <1>7, <1>8, <1>9 DEF ChildSetup, ChildOther, Program

LEMMA NextSteps ==
  ASSUME TypeOK, [Next]_vars PROVE SessionStep \/ ChildrenStep
BY ChildSteps DEF Next, JudgerStep, Over, SessionStep

(* SessionInv: the chains run in order, the start time is taken once and   *)
(* before there is a killer, only waitpid reaps, and each hook finds what  *)
(* the ones before it have stored.                                         *)
THEOREM SessionSafe == Spec => []SessionInv
<1>1. Init => SessionInv
  BY SessionInitInv DEF Init
<1>2. TypeOK /\ SessionInv /\ [Next]_vars => SessionInv'
  BY NextSteps, SessionKeeps, ChildrenKeep
<1> QED BY <1>1, <1>2, Typing, PTL DEF Spec

(* NeverFalseOK: a program given OK exited with 0 within its limits, in    *)
(* every interleaving, whatever calls fail and whatever the killer finds   *)
(* in its argument.                                                        *)
THEOREM NoFalseOK == Spec => []NeverFalseOK
<1>1. SessionInv => NeverFalseOK
  BY SessionPromises
<1> QED BY <1>1, SessionSafe, PTL

(* KillerNotForgotten: a judgement that succeeds has ended or cancelled    *)
(* its killer.                                                             *)
THEOREM KillerDismissed == Spec => []KillerNotForgotten
<1>1. SessionInv => KillerNotForgotten
  BY SessionPromises
<1> QED BY <1>1, SessionSafe, PTL

(* TimelyInv: a killer that has read its argument while it was there wakes *)
(* up after the limit.                                                     *)
THEOREM KillerTimely == ASSUME StaleReads = {} PROVE Spec => []TimelyInv
<1>1. Init => TimelyInv
  BY SessionInitInv DEF Init
<1>2. TypeOK /\ SessionInv /\ TimelyInv /\ [Next]_vars => TimelyInv'
  BY NextSteps, SessionKeepsTimely, ChildrenKeepTimely
<1> QED BY <1>1, <1>2, Typing, SessionSafe, PTL DEF Spec

(* NoEarlyKill: for every limit and every length of a second, no program   *)
(* is killed by its timeout within its limit.                              *)
THEOREM NobodyKilledEarly == ASSUME StaleReads = {} PROVE Spec => []NoEarlyKill
<1>1. SessionInv /\ TimelyInv => NoEarlyKill
  BY SessionPromises
<1> QED BY <1>1, SessionSafe, KillerTimely, PTL

(* TimeoutBlamed: a program that its timeout ended is given TLE, however   *)
(* late the judger's thread is.                                            *)
THEOREM TimeoutsAreBlamed == ASSUME StaleReads = {} PROVE Spec => []TimeoutBlamed
<1>1. SessionInv /\ TimelyInv => TimeoutBlamed
  BY SessionPromises
<1> QED BY <1>1, SessionSafe, KillerTimely, PTL

-----------------------------------------------------------------------------
(* The hand-shake.                                                         *)

(* The child's own steps preserve the invariant.                           *)
LEMMA ChildHandshake ==
  ASSUME TypeOK, HandshakeInv, ChildSetup \/ ChildOther, UNCHANGED inputVars
  PROVE  HandshakeInv'
<1>0. /\ child \in Procs /\ Procs = {child} /\ at \in [Procs -> ChildPoints]
      /\ yerrno \in [Procs -> Nat]
  BY ProcessAssumption, OneChild DEF child, TypeOK
<1>1. UNCHANGED <<pc, ret, killer>>
  BY DEF ChildSetup, ChildOther
<1> USE DEF HandshakeInv, StageInv, FailureInv, Handshake, SetUp, JudgerWaits, Judged
<1>2. ASSUME NEW D, NEW st, NEW by, Die(D, st, by), D = {child}, at[child] # "reaped",
             at[child] \notin {"unborn", "born", "grouped", "wired"},
             UNCHANGED <<group, limited, confined, yerrno, p_run>>
      PROVE  HandshakeInv'
  <2>1. at'[child] = "zombie"
    BY <1>0, <1>2, DieNow
  <2>2. (ReadySent' <=> ReadySent) /\ yerrno' = yerrno
    BY <1>2 DEF ReadySent
  <2> QED BY <1>0, <1>1, <1>2, <2>1, <2>2
<1>3. CASE ChildSetup
  <2> USE DEF ChildAt, ChildFails
  <2>1. UNCHANGED p_run => (ReadySent' <=> ReadySent)
    BY DEF ReadySent
  <2>2. CASE ChildSetpgid /\ UNCHANGED p_run
    BY <1>0, <1>1, <2>1, <2>2 DEF ChildSetpgid, E_SETPGID, E_EXEC
  <2>3. CASE runner_prework /\ UNCHANGED p_run
    BY <1>0, <1>1, <2>1, <2>3 DEF runner_prework, E_ARGC, E_FILEFD, E_DUP, E_EXEC
  <2>4. CASE apply_resource_limit(child) /\ UNCHANGED p_run
    BY <1>0, <1>1, <2>1, <2>4 DEF apply_resource_limit, E_RSC_LIM, E_SETRLIMIT, E_EXEC
  <2>5. CASE apply_policy(child, "limited") /\ UNCHANGED p_run
    BY <1>0, <1>1, <2>1, <2>5 DEF apply_policy, E_APP_POL, E_EXEC
  <2>6. CASE ChildExits(child) /\ UNCHANGED p_run
    BY <1>2, <2>6 DEF ChildExits
  <2>7. CASE runner_run /\ UNCHANGED p_run
    <3>1. CASE /\ at[child] = "ready" /\ Die({child}, Signaled("SIGSYS"), "kernel")
               /\ UNCHANGED yerrno
      BY <1>2, <2>7, <3>1 DEF runner_run, ChildExec
    <3>2. CASE ChildAt(child, "ready", "running") /\ UNCHANGED <<obit, yerrno>>
      BY <1>0, <1>1, <2>1, <2>7, <3>2 DEF runner_run, ChildExec
    <3>3. CASE ChildAt(child, "ready", "exiting") /\ yerrno' = [yerrno EXCEPT ![child] = E_EXEC]
      BY <1>0, <1>1, <2>1, <2>7, <3>3 DEF runner_run, ChildExec, E_EXEC
    <3> QED BY <2>7, <3>1, <3>2, <3>3 DEF runner_run, ChildExec
  <2>8. CASE ChildSends
    <3>1. CASE ChildAt(child, "failing", "exiting") /\ p_run' = Append(p_run, "FAILED")
      <4>1. ReadySent' => ReadySent
        BY <3>1, ReadyMoves
      <4> QED BY <1>0, <1>1, <2>8, <3>1, <4>1 DEF ChildSends
    <3>2. CASE ChildAt(child, "confined", "ready")
      BY <1>0, <1>1, <2>8, <3>2 DEF ChildSends
    <3> QED BY <2>8, <3>1, <3>2 DEF ChildSends
  <2> QED BY <1>3, <2>2, <2>3, <2>4, <2>5, <2>6, <2>7, <2>8 DEF ChildSetup
<1>4. CASE ChildOther
  <2>1. UNCHANGED <<p_run, group, limited, confined, yerrno>>
    BY <1>4 DEF ChildOther, Program, ProgramExits, ProgramKilled, ProgramStops,
                ProgramContinues, EarlyDeath
  <2>2. CASE ProgramExits(child) \/ ProgramKilled(child) \/ EarlyDeath(child)
    BY <1>2, <2>1, <2>2 DEF ProgramExits, ProgramKilled, EarlyDeath
  <2>3. CASE ProgramStops(child) \/ ProgramContinues(child)
    <3>1. ReadySent' <=> ReadySent
      BY <2>1 DEF ReadySent
    <3> QED BY <1>0, <1>1, <2>1, <2>3, <3>1 DEF ProgramStops, ProgramContinues
  <2> QED BY <1>4, <2>2, <2>3 DEF ChildOther, Program
<1> QED BY <1>3, <1>4

(* The judger's and the killer's steps preserve it.                        *)
LEMMA JudgerHandshake ==
  ASSUME TypeOK, SessionInv, HandshakeInv, SessionStep
  PROVE  HandshakeInv'
<1>0. /\ child \in Procs /\ Procs = {child} /\ at \in [Procs -> ChildPoints]
      /\ yerrno \in [Procs -> Nat] /\ child = Direct /\ ChainInv
      /\ UNCHANGED inputVars
  BY ProcessAssumption, OneChild DEF child, TypeOK, SessionInv, SessionStep
<1>a. UNCHANGED p_run => (ReadySent' <=> ReadySent)
  BY DEF ReadySent
<1> USE DEF HandshakeInv, StageInv, FailureInv, Handshake, SetUp, JudgerWaits, Judged, Running
<1>1. CASE \E ok \in BOOLEAN : Create(ok)
  BY <1>1, <1>a DEF Create, Return, E_PIPE, E_ARGC
<1>2. CASE compile_policy_before_fork \/ init_result_before_fork
  <2>1. pc = "before_fork"
    BY <1>2, <1>0, HookPlace DEF compile_policy_before_fork, init_result_before_fork
  <2>2. /\ UNCHANGED <<p_run, sysVars>>
        /\ \/ pc' = pc /\ ret' = ret
           \/ \E e \in {E_ERROR, E_POL_IDT, E_KAFEL, E_FCNTL} : pc' = "returned" /\ ret' = e
    BY <1>2 DEF compile_policy_before_fork, init_result_before_fork, HookDone, Return
  <2> QED BY <1>0, <1>a, <2>1, <2>2 DEF E_ERROR, E_POL_IDT, E_KAFEL, E_FCNTL
<1>3. CASE Fork
  <2>1. pc = "before_fork" /\ UNCHANGED <<group, limited, confined, yerrno, killer, p_run>>
    BY <1>3 DEF Fork, ChainDone
  <2>2. CASE Goto("wait_ready") /\ at' = [at EXCEPT ![Direct] = "born"]
    BY <1>0, <1>a, <2>1, <2>2 DEF Goto
  <2>3. CASE Return(E_FORK) /\ UNCHANGED at
    BY <1>0, <1>a, <2>1, <2>3 DEF Return, E_FORK
  <2> QED BY <1>3, <2>2, <2>3 DEF Fork
<1>4. CASE WaitReady
  <2>1. /\ pc = "wait_ready" /\ UNCHANGED sysVars
        /\ ReadySent' => ReadySent
    BY <1>4, <1>a, ReadyMoves DEF WaitReady
  <2>2. CASE pc' = "returned" /\ ret' = E_CHILD
    BY <1>0, <2>1, <2>2 DEF E_CHILD
  <2>3. CASE ReadySent /\ pc' = "after_fork" /\ ret' = ret
    BY <1>0, <2>1, <2>3
  <2> QED BY <1>4, <2>2, <2>3, ReadyMoves DEF WaitReady, Return, StartChain, child_ready
<1>5. CASE timer_after_fork \/ start_killer_after_fork \/ start_killer_returns
  <2>1. pc = "after_fork"
    BY <1>0, <1>5, HookPlace
       DEF timer_after_fork, start_killer_after_fork, start_killer_returns
  <2>2. UNCHANGED <<pc, ret, p_run, procVars>>
    BY <1>5 DEF timer_after_fork, start_killer_after_fork, start_killer_returns, HookDone, HookAt
  <2> QED BY <1>0, <1>a, <2>1, <2>2
<1>6. CASE Waitpid
  <2>1. /\ pc = "after_fork" /\ pc' = "after_wait" /\ ret' = ret
        /\ UNCHANGED <<group, limited, confined, yerrno, killer, p_run>>
    BY <1>6 DEF Waitpid, StartChain, ChainDone
  <2>2. \/ at[child] = "zombie" /\ at'[child] = "reaped"
        \/ UNCHANGED at
    BY <1>0, <1>6 DEF Waitpid
  <2> QED BY <1>0, <1>a, <2>1, <2>2
<1>7. ASSUME NEW D, NEW st, NEW by, Die(D, st, by), \A p \in D : Live(p),
             UNCHANGED <<group, limited, confined, yerrno, p_run>>,
             \/ UNCHANGED <<pc, ret>> /\ killer # "none"
             \/ UNCHANGED killer /\ pc = "after_fork" /\ pc' = "returned" /\ ret' = E_WAIT
      PROVE  HandshakeInv'
  <2>1. UNCHANGED at \/ (Live(child) /\ at' = [p \in Procs |-> "zombie"])
    BY <1>0, <1>7 DEF Die
  <2>2. SetUp
    BY <1>7
  <2> QED BY <1>0, <1>a, <1>7, <2>1, <2>2 DEF Live, E_WAIT
<1>8. CASE WaitpidFails
  <2>1. PICK D : (\A p \in D : Live(p)) /\ Die(D, Signaled("SIGKILL"), "judger")
    BY <1>8 DEF WaitpidFails, killpg, Members
  <2>2. /\ UNCHANGED <<group, limited, confined, yerrno, p_run, killer>>
        /\ pc = "after_fork" /\ pc' = "returned" /\ ret' = E_WAIT
    BY <1>8 DEF WaitpidFails, ChainDone, Return
  <2> QED BY <1>7, <2>1, <2>2
<1>9. CASE timer_after_wait \/ get_usage_after_wait \/ stop_killer_after_wait \/ join_killer
           \/ analyze_after_wait
  <2>1. pc = "after_wait"
    BY <1>0, <1>9, HookPlace
       DEF timer_after_wait, get_usage_after_wait, stop_killer_after_wait, join_killer,
           analyze_after_wait
  <2>2. /\ UNCHANGED <<p_run, procVars, killer>>
        /\ \/ pc' = pc /\ ret' = ret
           \/ pc' = "returned" /\ ret' = E_GETRUSAGE
    BY <1>9 DEF timer_after_wait, get_usage_after_wait, stop_killer_after_wait, join_killer,
                analyze_after_wait, HookDone, HookAt, Return
  <2> QED BY <1>0, <1>a, <2>1, <2>2 DEF E_GETRUSAGE
<1>10. CASE Finish
  BY <1>0, <1>a, <1>10 DEF Finish, ChainDone, Return
<1>11. CASE KillerThread
  <2>1. UNCHANGED <<pc, ret, p_run>>
    BY <1>11 DEF KillerThread
  <2>2. CASE KillerKills
    <3>1. PICK D, st, by : (\A p \in D : Live(p)) /\ Die(D, st, by)
      BY <2>2 DEF KillerKills, killpg, Members
    <3>2. killer # "none" /\ UNCHANGED <<group, limited, confined, yerrno>>
      BY <2>2 DEF KillerKills
    <3> QED BY <1>7, <2>1, <3>1, <3>2
  <2>3. CASE killer # "none" /\ UNCHANGED procVars
    BY <1>0, <1>a, <2>1, <2>3
  <2> QED BY <1>11, <2>2, <2>3 DEF KillerThread, timeout_killer, KillerReads, KillerDetaches,
             KillerFailsToDetach, KillerCancelled, KillerTimesOut, KillerInterrupted
<1>12. CASE Passage
  BY <1>0, <1>a, <1>12 DEF Passage, Tick
<1>13. CASE UNCHANGED vars
  BY <1>0, <1>a, <1>13
<1> QED BY <1>1, <1>2, <1>3, <1>4, <1>5, <1>6, <1>8, <1>9, <1>10, <1>11, <1>12, <1>13
        DEF SessionStep, Judger

(* HandshakeInv: at each of its points the child has done what it was to   *)
(* do before, and the judger cannot have gone on too early.                *)
THEOREM HandshakeSafe == Spec => []HandshakeInv
<1>1. Init => HandshakeInv
  BY ProcessAssumption
     DEF Init, SessionInit, ProcInit, KillerInit, HandshakeInv, StageInv, FailureInv, Handshake,
         SetUp, ReadySent, JudgerWaits, Judged, Running, child
<1>2. TypeOK /\ SessionInv /\ HandshakeInv /\ [Next]_vars => HandshakeInv'
  <2> SUFFICES ASSUME TypeOK, SessionInv, HandshakeInv, [Next]_vars PROVE HandshakeInv'
    OBVIOUS
  <2>1. SessionStep \/ ((ChildSetup \/ ChildOther) /\ UNCHANGED inputVars)
    BY DEF Next, JudgerStep, Over, SessionStep
  <2> QED BY <2>1, ChildHandshake, JudgerHandshake
<1> QED BY <1>1, <1>2, Typing, SessionSafe, PTL DEF Spec

(* Handshake: the judger times, waits for and kills only a child that is   *)
(* in its group, limited and confined.                                     *)
THEOREM HandshakeHolds == Spec => []Handshake
<1>1. HandshakeInv => Handshake
  BY DEF HandshakeInv
<1> QED BY <1>1, HandshakeSafe, PTL

(* OnlyConfinedRuns: no program runs without its limits and its filter.    *)
THEOREM OnlyConfined == Spec => []OnlyConfinedRuns
<1>1. HandshakeInv => OnlyConfinedRuns
  BY DEF HandshakeInv, StageInv, OnlyConfinedRuns
<1> QED BY <1>1, HandshakeSafe, PTL

(* SetupFailureReported: a step of the setup that fails gives E_CHILD and  *)
(* never a verdict.                                                        *)
THEOREM FailureReported == Spec => []SetupFailureReported
<1>1. HandshakeInv => SetupFailureReported
  BY DEF HandshakeInv, StageInv, FailureInv, SetupFailureReported, Handshake, JudgerWaits
<1> QED BY <1>1, HandshakeSafe, PTL

-----------------------------------------------------------------------------
(* The killer and the program.                                             *)

(* There is no killer before there is a child.                             *)
AimInv == /\ killer # "none" => at[child] # "unborn"
          /\ KillEndsProgram

(* A child that takes a step is alive, and no killer has come to its end.  *)
LEMMA ChildAim == ASSUME TypeOK, AimInv, ChildSetup \/ ChildOther PROVE AimInv'
<1>0. child \in Procs /\ at \in [Procs -> ChildPoints]
  BY ProcessAssumption DEF child, TypeOK
<1>1. ASSUME NEW st, NEW by, Die({child}, st, by) PROVE at'[child] # "unborn"
  BY <1>0, <1>1, DieNow
<1>2. at[child] \notin {"unborn", "zombie", "reaped"} /\ at'[child] # "unborn"
  <2> USE DEF ChildAt, ChildFails
  <2>1. CASE ChildSetpgid \/ runner_prework \/ ChildSends
    BY <1>0, <2>1 DEF ChildSetpgid, runner_prework, ChildSends
  <2>2. CASE apply_resource_limit(child) \/ apply_policy(child, "limited")
    BY <1>0, <2>2 DEF apply_resource_limit, apply_policy
  <2>3. CASE ChildExits(child) \/ runner_run
    BY <1>0, <1>1, <2>3 DEF ChildExits, runner_run, ChildExec
  <2>4. CASE ProgramExits(child) \/ ProgramKilled(child) \/ EarlyDeath(child)
    BY <1>1, <2>4 DEF ProgramExits, ProgramKilled, EarlyDeath
  <2>5. CASE ProgramStops(child) \/ ProgramContinues(child)
    BY <1>0, <2>5 DEF ProgramStops, ProgramContinues
  <2> QED BY <2>1, <2>2, <2>3, <2>4, <2>5 DEF ChildSetup, ChildOther, Program
<1>3. UNCHANGED killerVars
  BY DEF ChildSetup, ChildOther
<1> QED BY <1>2, <1>3 DEF AimInv, KillEndsProgram

(* The killer's one killpg finds the child, if it is alive, in its group.  *)
LEMMA JudgerAim ==
  ASSUME \A k \in StaleReads : k.pid = Direct,
         TypeOK, SessionInv, HandshakeInv, AimInv, SessionStep
  PROVE  AimInv'
<1>0. /\ child \in Procs /\ at \in [Procs -> ChildPoints] /\ child = Direct
      /\ ChainInv /\ ClockInv /\ FailureInv /\ Handshake
  BY ProcessAssumption DEF child, TypeOK, SessionInv, HandshakeInv
<1> USE DEF AimInv, KillEndsProgram
<1>1. CASE UNCHANGED <<at, killer>> /\ (cancelReq => cancelReq')
  BY <1>1
<1>2. CASE \/ \E ok \in BOOLEAN : Create(ok)
           \/ compile_policy_before_fork \/ init_result_before_fork \/ WaitReady
           \/ timer_after_fork \/ start_killer_returns \/ timer_after_wait
           \/ get_usage_after_wait \/ stop_killer_after_wait \/ join_killer
           \/ analyze_after_wait \/ Finish \/ Passage \/ UNCHANGED vars
  BY <1>1, <1>2
     DEF Create, compile_policy_before_fork, init_result_before_fork, WaitReady,
         timer_after_fork, start_killer_returns, timer_after_wait, get_usage_after_wait,
         stop_killer_after_wait, join_killer, analyze_after_wait, Finish, Passage, Tick
<1>3. CASE Fork
  <2>1. killer = "none" /\ killer' = killer
    BY <1>0, <1>3 DEF Fork, ChainDone, ClockInv, Unstarted
  <2> QED BY <2>1
<1>4. CASE start_killer_after_fork
  <2>1. at[child] # "unborn"
    BY <1>0, <1>4, HookPlace DEF start_killer_after_fork, FailureInv
  <2>2. UNCHANGED <<at, cancelReq>> /\ killer' \in {killer, "created"}
    BY <1>4 DEF start_killer_after_fork
  <2> QED BY <2>1, <2>2
<1>5. CASE Waitpid
  <2>1. UNCHANGED killerVars /\ at'[child] \in {at[child], "reaped"}
    BY <1>0, <1>5 DEF Waitpid
  <2> QED BY <2>1
<1>6. CASE WaitpidFails
  <2>1. at'[child] \in {at[child], "zombie"}
    BY <1>0, <1>6, DieNow DEF WaitpidFails, killpg
  <2>2. UNCHANGED killerVars
    BY <1>6 DEF WaitpidFails
  <2> QED BY <2>1, <2>2
<1>7. CASE KillerThread
  <2>1. CASE KillerKills
    <3>1. karg.pid = Direct
      BY DEF TypeOK, tctxt
    <3>2. child \in group /\ at[child] # "unborn" /\ UNCHANGED cancelReq
      BY <1>0, <2>1 DEF KillerKills, Handshake
    <3>3. Live(child) => at'[child] = "zombie"
      BY <1>0, <2>1, <3>1, <3>2, DieNow DEF KillerKills, killpg, Members
    <3>4. ~Live(child) => at'[child] = at[child] /\ at[child] \in {"zombie", "reaped"}
      BY <1>0, <2>1, <3>1, <3>2, DieNow DEF KillerKills, killpg, Members, Live
    <3> QED BY <3>2, <3>3, <3>4
  <2>2. CASE KillerCancelled /\ UNCHANGED procVars
    BY <2>2 DEF KillerCancelled
  <2>3. CASE /\ UNCHANGED <<procVars, cancelReq>>
             /\ killer # "none" /\ killer' # "gone"
    BY <2>3
  <2> QED BY <1>7, <2>1, <2>2, <2>3
          DEF KillerThread, timeout_killer, KillerReads, KillerDetaches, KillerFailsToDetach,
              KillerTimesOut, KillerInterrupted
<1> QED BY <1>2, <1>3, <1>4, <1>5, <1>6, <1>7 DEF SessionStep, Judger

(* KillEndsProgram: wherever the killer's argument may be read from, if    *)
(* every pid it may find there is the child's, a killer that nobody has    *)
(* cancelled does not end before the program, whichever of its calls fail. *)
THEOREM KillsTheProgram ==
  ASSUME \A k \in StaleReads : k.pid = Direct PROVE Spec => []KillEndsProgram
<1>1. Init => AimInv
  BY DEF Init, SessionInit, KillerInit, AimInv, KillEndsProgram
<1>2. TypeOK /\ SessionInv /\ HandshakeInv /\ AimInv /\ [Next]_vars => AimInv'
  <2> SUFFICES ASSUME TypeOK, SessionInv, HandshakeInv, AimInv, [Next]_vars PROVE AimInv'
    OBVIOUS
  <2>1. SessionStep \/ ChildSetup \/ ChildOther
    BY DEF Next, JudgerStep, Over, SessionStep
  <2> QED BY <2>1, ChildAim, JudgerAim
<1>3. AimInv => KillEndsProgram
  BY DEF AimInv
<1> QED BY <1>1, <1>2, <1>3, Typing, SessionSafe, HandshakeSafe, PTL DEF Spec

-----------------------------------------------------------------------------
(* What the caller of GeneralJudger gets: the answer of a Judgement, and a *)
(* result that describes the child.  Both hold as long as the judger's     *)
(* read of the pipe is not interrupted and no program is stopped: the two  *)
(* mishaps that leave a program behind (general.c:99,128).                 *)
Undisturbed == ~Fails("read") /\ ~Fails("stop")

-----------------------------------------------------------------------------
(* What analyze says fits the end of the program.                          *)
LEMMA AnalyzePermitted ==
  ASSUME NEW l \in LimitRecord, NEW r \in ResultRecord, r.code = "SE",
         NEW st \in StatusRecord, st.how \in {"exited", "signaled"}, NEW m \in Nat
  PROVE  analyze(l, r, st, m).code \in J!Permitted(st)
BY AnalyzeCodes DEF J!Permitted

-----------------------------------------------------------------------------
(* The child's steps preserve AnswerInv.                                   *)
LEMMA ChildAnswer ==
  ASSUME TypeOK, HandshakeInv, AnswerInv, Undisturbed, ChildSetup \/ ChildOther
  PROVE  AnswerInv'
<1>0. /\ child \in Procs /\ Procs = {child} /\ at \in [Procs -> ChildPoints]
      /\ yerrno \in [Procs -> Nat] /\ at[child] \in ChildPoints
  BY ProcessAssumption, OneChild DEF child, TypeOK
<1>1. UNCHANGED <<pc, todo, result, status>>
  BY DEF ChildSetup, ChildOther
<1>2. StageInv /\ FailureInv
  BY DEF HandshakeInv
<1>3. UNCHANGED p_run => (FailedSent' <=> FailedSent)
  BY FailedMoves
<1> USE DEF AnswerInv, ChildAt, ChildFails
<1>4. ASSUME NEW D, NEW st, NEW by, Die(D, st, by), D = {child},
             at[child] \notin {"unborn", "zombie", "reaped"},
             st.how \in {"exited", "signaled"},
             UNCHANGED <<confined, yerrno, p_run>>
      PROVE  AnswerInv'
  <2>1. at'[child] = "zombie" /\ obit'[child].st = st
    BY <1>0, <1>4, DieNow
  <2> QED BY <1>0, <1>1, <1>3, <1>4, <2>1
<1>5. /\ \A c : Exited(c).how = "exited"
      /\ \A s : Signaled(s).how = "signaled"
  BY DEF Exited, Signaled
<1>6. CASE ChildSetup
  <2>1. CASE ChildSetpgid /\ UNCHANGED p_run
    BY <1>0, <1>1, <1>3, <2>1 DEF ChildSetpgid, E_SETPGID, E_EXEC
  <2>2. CASE runner_prework /\ UNCHANGED p_run
    BY <1>0, <1>1, <1>3, <2>2 DEF runner_prework, E_ARGC, E_FILEFD, E_DUP, E_EXEC
  <2>3. CASE apply_resource_limit(child) /\ UNCHANGED p_run
    BY <1>0, <1>1, <1>3, <2>3 DEF apply_resource_limit, E_RSC_LIM, E_SETRLIMIT, E_EXEC
  <2>4. CASE apply_policy(child, "limited") /\ UNCHANGED p_run
    BY <1>0, <1>1, <1>2, <1>3, <2>4 DEF apply_policy, E_APP_POL, E_EXEC, FailureInv, JudgerWaits
  <2>5. CASE ChildExits(child) /\ UNCHANGED p_run
    BY <1>4, <1>5, <2>5 DEF ChildExits
  <2>6. CASE runner_run /\ UNCHANGED p_run
    <3>1. CASE /\ at[child] = "ready" /\ Die({child}, Signaled("SIGSYS"), "kernel")
               /\ UNCHANGED yerrno
      BY <1>4, <1>5, <2>6, <3>1 DEF runner_run, ChildExec
    <3>2. CASE ChildAt(child, "ready", "running") /\ UNCHANGED <<obit, yerrno>>
      BY <1>0, <1>1, <1>3, <2>6, <3>2 DEF runner_run, ChildExec
    <3>3. CASE /\ ChildAt(child, "ready", "exiting") /\ UNCHANGED obit
               /\ yerrno' = [yerrno EXCEPT ![child] = E_EXEC]
      BY <1>0, <1>1, <1>3, <2>6, <3>3 DEF runner_run, ChildExec, E_EXEC
    <3> QED BY <2>6, <3>1, <3>2, <3>3 DEF runner_run, ChildExec
  <2>7. CASE ChildSends
    <3>1. CASE ChildAt(child, "failing", "exiting")
      BY <1>0, <1>1, <1>2, <2>7, <3>1 DEF ChildSends, FailureInv
    <3>2. CASE ChildAt(child, "confined", "ready") /\ p_run' = Append(p_run, "READY")
      <4>1. FailedSent' => FailedSent
        BY <3>2, FailedMoves
      <4> QED BY <1>0, <1>1, <2>7, <3>2, <4>1 DEF ChildSends
    <3> QED BY <2>7, <3>1, <3>2 DEF ChildSends
  <2> QED BY <1>6, <2>1, <2>2, <2>3, <2>4, <2>5, <2>6, <2>7 DEF ChildSetup
<1>7. CASE ChildOther
  <2>1. UNCHANGED <<p_run, confined, yerrno>>
    BY <1>7 DEF ChildOther, Program, ProgramExits, ProgramKilled, ProgramStops,
                ProgramContinues, EarlyDeath
  <2>2. CASE ProgramExits(child) \/ ProgramKilled(child) \/ EarlyDeath(child)
    BY <1>4, <1>5, <2>1, <2>2 DEF ProgramExits, ProgramKilled, EarlyDeath
  <2>3. ~ProgramStops(child) /\ ~ProgramContinues(child)
    BY DEF Undisturbed, ProgramStops, ProgramContinues
  <2> QED BY <1>7, <2>2, <2>3 DEF ChildOther, Program
<1> QED BY <1>6, <1>7

(* The judger's and the killer's steps preserve it.                        *)
LEMMA SessionAnswer ==
  ASSUME TypeOK, SessionInv, HandshakeInv, AnswerInv, Undisturbed, SessionStep
  PROVE  AnswerInv'
<1>0. /\ child \in Procs /\ Procs = {child} /\ at \in [Procs -> ChildPoints]
      /\ obit \in [Procs -> ObitRecord] /\ at[child] \in ChildPoints /\ child = Direct
      /\ ChainInv /\ ReapInv
  BY ProcessAssumption, OneChild DEF child, TypeOK, SessionInv
<1>1. UNCHANGED p_run => (FailedSent' <=> FailedSent)
  BY FailedMoves
<1>2. StageInv /\ FailureInv /\ Handshake
  BY DEF HandshakeInv
<1> USE DEF AnswerInv
<1>3. CASE \E ok \in BOOLEAN : Create(ok)
  <2>1. /\ pc = "init" /\ UNCHANGED <<p_run, sysVars, status>>
        /\ pc' \in {"before_fork", "returned"}
    BY <1>3 DEF Create, Return
  <2> QED BY <1>1, <1>2, <2>1 DEF FailureInv
<1>4. CASE compile_policy_before_fork \/ init_result_before_fork
  <2>1. pc = "before_fork"
    BY <1>4, <1>0, HookPlace DEF compile_policy_before_fork, init_result_before_fork
  <2>2. UNCHANGED <<p_run, sysVars, status>> /\ pc' \in {"before_fork", "returned"}
    BY <1>4, <2>1 DEF compile_policy_before_fork, init_result_before_fork, HookDone, Return
  <2> QED BY <1>1, <1>2, <2>1, <2>2 DEF FailureInv
<1>5. CASE Fork
  <2>1. pc = "before_fork" /\ UNCHANGED <<confined, obit, yerrno, p_run>>
    BY <1>5 DEF Fork, ChainDone
  <2>2. at[child] = "unborn"
    BY <1>2, <2>1 DEF FailureInv
  <2>3. CASE Goto("wait_ready") /\ at' = [at EXCEPT ![Direct] = "born"]
    BY <1>0, <1>1, <1>2, <2>1, <2>2, <2>3 DEF Goto
  <2>4. CASE Return(E_FORK) /\ UNCHANGED at
    BY <1>0, <1>1, <2>1, <2>2, <2>4 DEF Return
  <2> QED BY <1>5, <2>3, <2>4 DEF Fork
<1>6. CASE WaitReady
  <2>1. /\ pc = "wait_ready" /\ UNCHANGED sysVars /\ p_run # <<>> /\ p_run' = Tail(p_run)
        /\ \/ pc' = "after_fork"
           \/ pc' = "returned" /\ Head(p_run) # "READY"
    BY <1>6 DEF WaitReady, Undisturbed, StartChain, Return, child_ready
  <2>2. FailedSent' => FailedSent
    BY <2>1, FailedMoves
  <2>3. pc' = "returned" => FailedSent
    BY <2>1, FailedMoves
  <2> QED BY <1>0, <2>1, <2>2, <2>3
<1>7. CASE timer_after_fork \/ start_killer_after_fork \/ start_killer_returns
  <2>1. pc = "after_fork"
    BY <1>0, <1>7, HookPlace
       DEF timer_after_fork, start_killer_after_fork, start_killer_returns
  <2>2. UNCHANGED <<pc, p_run, procVars>>
    BY <1>7 DEF timer_after_fork, start_killer_after_fork, start_killer_returns, HookDone, HookAt
  <2> QED BY <1>0, <1>1, <2>1, <2>2
<1>8. CASE Waitpid
  <2>1. /\ at[child] = "zombie" /\ at'[child] = "reaped" /\ pc' = "after_wait"
        /\ UNCHANGED <<confined, obit, yerrno, p_run>>
    BY <1>0, <1>8 DEF Waitpid, StartChain
  <2>2. todo' # <<>>
    BY <1>0, <1>8, BuiltinChains, ChainsDiffer DEF Waitpid, StartChain, ChainDone, ChainInv
  <2>3. pc = "after_fork"
    BY <1>8 DEF Waitpid, ChainDone
  <2>4. ~FailedSent
    BY <1>2, <2>3 DEF FailureInv, JudgerWaits
  <2> QED BY <1>1, <2>1, <2>2, <2>4
<1>9. ASSUME NEW D, NEW by, D \subseteq {p \in group : Live(p)}, Die(D, Signaled("SIGKILL"), by),
             UNCHANGED <<confined, yerrno, p_run, status>>,
             \/ UNCHANGED <<pc, todo, result>> /\ killer # "none"
             \/ pc = "after_fork" /\ pc' = "returned" /\ D = {p \in group : Live(p)}
      PROVE  AnswerInv'
  <2>1. SetUp
    BY <1>2, <1>9 DEF Handshake, SetUp
  <2>2. CASE D = {}
    <3>1. at'[child] = at[child] /\ obit'[child] = obit[child]
      BY <1>0, <1>9, <2>2, DieNow
    <3>2. pc' = "returned" /\ pc # "returned" => at[child] \in {"unborn", "zombie", "reaped"}
      BY <1>0, <1>9, <2>1, <2>2 DEF Live, SetUp
    <3> QED BY <1>1, <1>9, <3>1, <3>2
  <2>3. CASE D # {}
    <3>1. child \in D /\ Live(child)
      BY <1>0, <1>9, <2>3 DEF TypeOK
    <3>2. at'[child] = "zombie" /\ obit'[child].st = Signaled("SIGKILL")
      BY <1>0, <1>9, <3>1, DieNow
    <3>3. yerrno[child] \in {0, E_EXEC}
      BY <2>1 DEF SetUp
    <3>4. obit'[child].st.how = "signaled"
      BY <3>2 DEF Signaled
    <3>5. pc # "after_wait" \/ pc' # "after_wait"
      BY <3>1 DEF Live
    <3> QED BY <1>1, <1>9, <3>2, <3>3, <3>4, <3>5
  <2> QED BY <2>2, <2>3
<1>10. CASE WaitpidFails
  <2>1. Die({p \in group : Live(p)}, Signaled("SIGKILL"), "judger")
    BY <1>10 DEF WaitpidFails, killpg, Members
  <2>2. /\ UNCHANGED <<confined, yerrno, p_run, status>>
        /\ pc = "after_fork" /\ pc' = "returned"
    BY <1>10 DEF WaitpidFails, ChainDone, Return
  <2> QED BY <1>9, <2>1, <2>2
<1>11. CASE timer_after_wait \/ get_usage_after_wait \/ stop_killer_after_wait \/ join_killer
  <2>1. pc = "after_wait" /\ Tail(todo) # <<>> /\ todo # <<>>
    <3>1. Hook("end_timer") \/ Hook("get_usage") \/ Hook("stop_killer")
      BY <1>11 DEF timer_after_wait, get_usage_after_wait, stop_killer_after_wait, join_killer
    <3>2. /\ pc = "after_wait"
          /\ \/ /\ todo = <<"end_timer", "get_usage", "stop_killer", "analyze">>
                /\ Tail(todo) = <<"get_usage", "stop_killer", "analyze">>
             \/ /\ todo = <<"get_usage", "stop_killer", "analyze">>
                /\ Tail(todo) = <<"stop_killer", "analyze">>
             \/ todo = <<"stop_killer", "analyze">> /\ Tail(todo) = <<"analyze">>
      BY <1>0, <3>1, HookPlace
    <3> QED BY <3>2, ChainsDiffer
  <2>2. /\ UNCHANGED <<p_run, procVars>>
        /\ \/ pc' = "returned"
           \/ pc' = pc /\ todo' \in {todo, Tail(todo)}
    BY <1>11 DEF timer_after_wait, get_usage_after_wait, stop_killer_after_wait, join_killer,
                 HookDone, HookAt, Return
  <2> QED BY <1>0, <1>1, <2>1, <2>2
<1>12. CASE analyze_after_wait
  <2>1. pc = "after_wait" /\ todo # <<>>
    BY <1>0, <1>12, HookPlace, ChainsDiffer DEF analyze_after_wait
  <2>2. /\ UNCHANGED <<p_run, procVars, pc, status>>
        /\ result' = analyze(rctxt, result, status, rusage.maxrss)
    BY <1>12 DEF analyze_after_wait, HookDone
  <2>3. /\ rctxt \in LimitRecord /\ result \in ResultRecord /\ rusage.maxrss \in Nat
        /\ status \in StatusRecord
    BY LimitAssumption DEF TypeOK
  <2>4. result.code = "SE"
    BY <2>1 DEF SessionInv, MeasureInv
  <2>5. status.how \in {"exited", "signaled"}
    BY <1>0, <2>1 DEF ReapInv
  <2>6. result'.code \in J!Permitted(status)
    BY <2>2, <2>3, <2>4, <2>5, AnalyzePermitted
  <2> QED BY <1>0, <1>1, <2>1, <2>2, <2>6
<1>13. CASE Finish
  <2>1. pc = "after_wait" /\ pc' = "returned" /\ UNCHANGED <<p_run, procVars>>
    BY <1>13 DEF Finish, ChainDone, Return
  <2> QED BY <1>0, <1>1, <2>1
<1>14. CASE KillerThread
  <2>1. UNCHANGED <<pc, todo, result, status, p_run>>
    BY <1>14 DEF KillerThread
  <2>2. CASE KillerKills
    <3>1. PICK D, by : D \subseteq {p \in group : Live(p)} /\ Die(D, Signaled("SIGKILL"), by)
      BY <2>2 DEF KillerKills, killpg, Members
    <3>2. killer # "none" /\ UNCHANGED <<confined, yerrno>>
      BY <2>2 DEF KillerKills
    <3> QED BY <1>9, <2>1, <3>1, <3>2
  <2>3. CASE UNCHANGED procVars
    BY <1>0, <1>1, <2>1, <2>3
  <2> QED BY <1>14, <2>2, <2>3 DEF KillerThread, timeout_killer
<1>15. CASE Passage \/ UNCHANGED vars
  <2>1. UNCHANGED <<pc, todo, result, status, p_run, procVars>>
    BY <1>15 DEF Passage, Tick
  <2> QED BY <1>0, <1>1, <2>1
<1> QED BY <1>3, <1>4, <1>5, <1>6, <1>7, <1>8, <1>10, <1>11, <1>12, <1>13, <1>14, <1>15
        DEF SessionStep, Judger

LEMMA AnswerInitial == ASSUME Init PROVE AnswerInv
BY ProcessAssumption
   DEF Init, SessionInit, ProcInit, KillerInit, AnswerInv, FailedSent, child

(* JudgementInv: the hand-shake, and what makes the answer right.          *)
THEOREM AnswerSafe == ASSUME Undisturbed PROVE Spec => []JudgementInv
<1>1. Init => AnswerInv
  BY AnswerInitial
<1>2. TypeOK /\ SessionInv /\ HandshakeInv /\ AnswerInv /\ [Next]_vars => AnswerInv'
  <2> SUFFICES ASSUME TypeOK, SessionInv, HandshakeInv, AnswerInv, [Next]_vars PROVE AnswerInv'
    OBVIOUS
  <2>1. SessionStep \/ ChildSetup \/ ChildOther
    BY DEF Next, JudgerStep, Over, SessionStep
  <2> QED BY <2>1, ChildAnswer, SessionAnswer
<1>3. HandshakeInv /\ AnswerInv <=> JudgementInv
  BY DEF JudgementInv
<1> QED BY <1>1, <1>2, <1>3, Typing, SessionSafe, HandshakeSafe, PTL DEF Spec

(* NoOrphan: no judgement returns with the program still to run or running. *)
THEOREM NoProgramLeft == ASSUME Undisturbed PROVE Spec => []NoOrphan
<1>1. JudgementInv => NoOrphan
  BY DEF JudgementInv, AnswerInv, NoOrphan
<1> QED BY <1>1, AnswerSafe, PTL

-----------------------------------------------------------------------------
(* The steps of the implementation, seen through program and answer.       *)

LEMMA ProgramIs ==
  /\ program = "none" <=> at[child] = "unborn"
  /\ program = "setup" <=>
       at[child] \notin {"unborn", "zombie", "reaped"} /\ child \notin confined
  /\ program = "admitted" <=>
       at[child] \notin {"unborn", "zombie", "reaped"} /\ child \in confined
  /\ program = "over" <=> at[child] \in {"zombie", "reaped"} /\ child \in confined
  /\ program = "abandoned" <=> at[child] \in {"zombie", "reaped"} /\ child \notin confined
  /\ program \in {"none", "setup", "admitted", "over", "abandoned"}
BY DEF program

LEMMA ProgramWillBe ==
  /\ program' = "none" <=> at'[child] = "unborn"
  /\ program' = "setup" <=>
       at'[child] \notin {"unborn", "zombie", "reaped"} /\ child \notin confined'
  /\ program' = "admitted" <=>
       at'[child] \notin {"unborn", "zombie", "reaped"} /\ child \in confined'
  /\ program' = "over" <=> at'[child] \in {"zombie", "reaped"} /\ child \in confined'
  /\ program' = "abandoned" <=> at'[child] \in {"zombie", "reaped"} /\ child \notin confined'
  /\ program' \in {"none", "setup", "admitted", "over", "abandoned"}
BY DEF program, child

(* What the caller sees of a step of the child, and of one of the judger.  *)
Same     == UNCHANGED <<program, obit[child].st>>
Ends     == /\ program \in {"setup", "admitted"}
            /\ program' = IF program = "setup" THEN "abandoned" ELSE "over"
            /\ obit[child].st = J!Alive /\ obit'[child].st.how \in {"exited", "signaled"}
Pending  == pc # "returned"
Silent   == UNCHANGED <<pc, ret>> /\ (UNCHANGED result \/ Pending)

LEMMA SameAnswer == ASSUME Silent \/ (Pending /\ Pending') PROVE answer' = answer
BY DEF Silent, Pending, answer

LEMMA AliveThen == ASSUME AnswerInv, at[child] \notin {"zombie", "reaped"} PROVE obit[child].st = J!Alive
BY DEF AnswerInv, NoObit, NoSignal, J!Alive

(* The child's steps are Admit, End or none.                               *)
LEMMA ChildMaps ==
  ASSUME TypeOK, HandshakeInv, AnswerInv, Undisturbed, ChildSetup \/ ChildOther
  PROVE  [J!Next]_J!jvars
<1>0. /\ child \in Procs /\ Procs = {child} /\ at \in [Procs -> ChildPoints]
      /\ at[child] \in ChildPoints
  BY ProcessAssumption, OneChild DEF child, TypeOK
<1>1. answer' = answer
  BY SameAnswer DEF ChildSetup, ChildOther, Silent
<1> USE DEF ChildAt, ChildFails
<1>2. SUFFICES Same \/ Ends \/ (program = "setup" /\ Pending /\ program' = "admitted"
                                /\ obit'[child].st = obit[child].st)
  <2>1. Same => UNCHANGED J!jvars
    BY <1>1 DEF Same, J!jvars
  <2>2. Ends => J!End
    BY <1>1 DEF Ends, J!End
  <2>3. /\ program = "setup" /\ Pending /\ program' = "admitted"
        /\ obit'[child].st = obit[child].st
        => J!Admit
    BY <1>1 DEF Pending, answer, J!Admit
  <2> QED BY <1>2, <2>1, <2>2, <2>3 DEF J!Next
<1>3. ASSUME NEW D, NEW st, NEW by, Die(D, st, by), D = {child},
             at[child] \notin {"unborn", "zombie", "reaped"},
             st.how \in {"exited", "signaled"},
             UNCHANGED confined
      PROVE  Ends
  <2>1. at'[child] = "zombie" /\ obit'[child].st = st
    BY <1>0, <1>3, DieNow
  <2> QED BY <1>3, <2>1, AliveThen, ProgramIs, ProgramWillBe DEF Ends
<1>4. /\ \A c : Exited(c).how = "exited"
      /\ \A s : Signaled(s).how = "signaled"
  BY DEF Exited, Signaled
<1>5. ASSUME UNCHANGED <<obit, confined>>, at[child] \notin {"unborn", "zombie", "reaped"},
             at'[child] \notin {"unborn", "zombie", "reaped"}
      PROVE  Same
  BY <1>5, ProgramIs, ProgramWillBe DEF Same
<1>6. CASE ChildSetpgid \/ runner_prework \/ apply_resource_limit(child) \/ ChildSends
  <2>1. UNCHANGED <<obit, confined>>
    BY <1>6 DEF ChildSetpgid, runner_prework, apply_resource_limit, ChildSends
  <2>2. /\ at[child] \in {"born", "grouped", "wired", "confined", "failing"}
        /\ at'[child] \in {"grouped", "wired", "limited", "ready", "failing", "exiting"}
    BY <1>0, <1>6 DEF ChildSetpgid, runner_prework, apply_resource_limit, ChildSends
  <2> QED BY <1>5, <2>1, <2>2
<1>7. CASE apply_policy(child, "limited")
  <2>1. CASE at'[child] = "confined"
    <3>1. /\ at[child] = "limited" /\ child \in confined' /\ UNCHANGED obit
          /\ child \notin confined /\ Pending
      BY <1>0, <1>7, <2>1 DEF apply_policy, AnswerInv, Pending
    <3> QED BY <2>1, <3>1, ProgramIs, ProgramWillBe
  <2>2. CASE at'[child] = "failing"
    BY <1>0, <1>5, <1>7, <2>2 DEF apply_policy
  <2> QED BY <1>0, <1>7, <2>1, <2>2 DEF apply_policy
<1>8. CASE ChildExits(child)
  BY <1>3, <1>4, <1>8 DEF ChildExits
<1>9. CASE runner_run
  <2>1. CASE at[child] = "ready" /\ Die({child}, Signaled("SIGSYS"), "kernel")
    BY <1>3, <1>4, <1>9, <2>1 DEF runner_run, ChildExec
  <2>2. CASE (ChildAt(child, "ready", "running") \/ ChildAt(child, "ready", "exiting"))
             /\ UNCHANGED obit
    BY <1>0, <1>5, <1>9, <2>2 DEF runner_run, ChildExec
  <2> QED BY <1>9, <2>1, <2>2 DEF runner_run, ChildExec
<1>10. CASE ProgramExits(child) \/ ProgramKilled(child) \/ EarlyDeath(child)
  BY <1>3, <1>4, <1>10 DEF ProgramExits, ProgramKilled, EarlyDeath
<1>11. ~ProgramStops(child) /\ ~ProgramContinues(child)
  BY DEF Undisturbed, ProgramStops, ProgramContinues, AnswerInv
<1> QED BY <1>6, <1>7, <1>8, <1>9, <1>10, <1>11 DEF ChildSetup, ChildOther, Program

LEMMA ErrorIsRefusal ==
  ASSUME Pending, pc' = "returned", ret' # 0, Same, program # "admitted"
  PROVE  J!Next
<1>1. answer = "pending" /\ answer' = "error"
  BY DEF Pending, answer
<1> QED BY <1>1 DEF Same, J!Next, J!Refuse

LEMMA SilentIsStutter ==
  ASSUME Silent \/ (Pending /\ Pending'), Same
  PROVE  UNCHANGED J!jvars
BY SameAnswer DEF Same, J!jvars

LEMMA SameProgram == ASSUME UNCHANGED <<at, confined, obit>> PROVE Same
BY DEF Same, program, child

(* A kill by the judger or its killer ends the program or nothing.         *)
LEMMA KillMaps ==
  ASSUME TypeOK, HandshakeInv, AnswerInv, child \in confined, child \in group,
         UNCHANGED confined,
         NEW D, NEW by, D \subseteq {p \in group : Live(p)}, Die(D, Signaled("SIGKILL"), by)
  PROVE  \/ Same /\ (D = {p \in group : Live(p)} => program # "admitted")
         \/ /\ program = "admitted" /\ program' = "over" /\ obit[child].st = J!Alive
            /\ obit'[child].st.how = "signaled"
<1>0. child \in Procs /\ Procs = {child}
  BY ProcessAssumption, OneChild DEF child
<1>1. CASE child \notin D
  <2>1. at'[child] = at[child] /\ obit'[child] = obit[child]
    BY <1>0, <1>1, DieNow
  <2>2. Same
    BY <2>1, ProgramIs, ProgramWillBe DEF Same
  <2> QED BY <1>1, <2>2, ProgramIs DEF Live
<1>2. CASE child \in D
  <2>1. at'[child] = "zombie" /\ obit'[child].st = Signaled("SIGKILL") /\ Live(child)
    BY <1>0, <1>2, DieNow
  <2>2. obit[child].st = J!Alive
    BY <2>1, AliveThen DEF Live
  <2> QED BY <2>1, <2>2, ProgramIs, ProgramWillBe DEF Live, Signaled
<1> QED BY <1>1, <1>2

(* The judger's steps are Begin, Refuse, GiveUp, Judge or none, its        *)
(* killer's End or none.                                                   *)
LEMMA SessionMaps ==
  ASSUME TypeOK, SessionInv, HandshakeInv, AnswerInv, Undisturbed, SessionStep
  PROVE  [J!Next]_J!jvars
<1>0. /\ child \in Procs /\ Procs = {child} /\ at \in [Procs -> ChildPoints]
      /\ child = Direct /\ ChainInv /\ ReapInv
      /\ FailureInv /\ Handshake
  BY ProcessAssumption, OneChild DEF child, TypeOK, SessionInv, HandshakeInv
<1>1. pc \in {"init", "before_fork"} => program = "none"
  BY <1>0, ProgramIs DEF FailureInv
<1>2. pc = "after_wait" => at[child] = "reaped" /\ program = "over"
  BY <1>0, ProgramIs DEF AnswerInv, Handshake
<1>3. CASE \E ok \in BOOLEAN : Create(ok)
  <2>1. Same
    BY <1>3, SameProgram DEF Create
  <2>2. Pending /\ (Pending' \/ (pc' = "returned" /\ ret' # 0)) /\ program # "admitted"
    BY <1>1, <1>3 DEF Create, Return, E_PIPE, E_ARGC, Pending
  <2> QED BY <2>1, <2>2, ErrorIsRefusal, SilentIsStutter
<1>4. CASE compile_policy_before_fork \/ init_result_before_fork
  <2>1. pc = "before_fork"
    BY <1>0, <1>4, HookPlace DEF compile_policy_before_fork, init_result_before_fork
  <2>2. Same
    BY <1>4, SameProgram DEF compile_policy_before_fork, init_result_before_fork
  <2>3. pc' = pc \/ (pc' = "returned" /\ ret' # 0)
    BY <1>4 DEF compile_policy_before_fork, init_result_before_fork, HookDone, Return,
                E_ERROR, E_POL_IDT, E_KAFEL, E_FCNTL
  <2> QED BY <1>1, <2>1, <2>2, <2>3, ErrorIsRefusal, SilentIsStutter DEF Pending
<1>5. CASE Fork
  <2>1. pc = "before_fork" /\ UNCHANGED <<confined, obit>>
    BY <1>5 DEF Fork, ChainDone
  <2>2. CASE Goto("wait_ready") /\ at' = [at EXCEPT ![Direct] = "born"]
    <3>1. at'[child] = "born" /\ child \notin confined'
      BY <1>0, <2>1, <2>2 DEF AnswerInv, FailureInv
    <3>2. program' = "setup" /\ UNCHANGED obit[child].st
      BY <2>1, <3>1, ProgramWillBe
    <3>3. answer = "pending" /\ answer' = "pending"
      BY <2>1, <2>2 DEF Goto, answer
    <3> QED BY <1>1, <2>1, <3>2, <3>3 DEF J!Next, J!Begin
  <2>3. CASE Return(E_FORK) /\ UNCHANGED at
    <3>1. Same
      BY <2>1, <2>3, SameProgram
    <3>2. Pending /\ pc' = "returned" /\ ret' # 0
      BY <2>1, <2>3 DEF Return, E_FORK, Pending
    <3> QED BY <1>1, <2>1, <3>1, <3>2, ErrorIsRefusal
  <2> QED BY <1>5, <2>2, <2>3 DEF Fork
<1>6. CASE WaitReady
  <2>1. /\ pc = "wait_ready" /\ UNCHANGED sysVars /\ p_run # <<>>
        /\ \/ pc' = "after_fork"
           \/ pc' = "returned" /\ ret' # 0 /\ Head(p_run) # "READY"
    BY <1>6 DEF WaitReady, Undisturbed, StartChain, Return, child_ready, E_CHILD
  <2>2. Same
    BY <2>1, SameProgram
  <2>3. CASE pc' = "after_fork"
    BY <2>1, <2>2, <2>3, SilentIsStutter DEF Pending
  <2>4. CASE pc' = "returned" /\ ret' # 0 /\ Head(p_run) # "READY"
    <3>1. FailedSent
      BY <2>1, <2>4, FailedMoves
    <3>2. child \notin confined
      BY <3>1 DEF AnswerInv
    <3> QED BY <2>1, <2>2, <2>4, <3>2, ProgramIs, ErrorIsRefusal DEF Pending
  <2> QED BY <2>1, <2>3, <2>4
<1>7. CASE timer_after_fork \/ start_killer_after_fork \/ start_killer_returns
  <2>1. pc = "after_fork"
    BY <1>0, <1>7, HookPlace
       DEF timer_after_fork, start_killer_after_fork, start_killer_returns
  <2>2. UNCHANGED <<pc, procVars>>
    BY <1>7 DEF timer_after_fork, start_killer_after_fork, start_killer_returns, HookDone, HookAt
  <2> QED BY <2>1, <2>2, SameProgram, SilentIsStutter DEF Pending
<1>8. CASE Waitpid
  <2>1. /\ at[child] = "zombie" /\ at'[child] = "reaped" /\ pc' = "after_wait"
        /\ pc = "after_fork" /\ UNCHANGED <<confined, obit>>
    BY <1>0, <1>8 DEF Waitpid, StartChain, ChainDone, AnswerInv
  <2>2. Same
    BY <2>1, ProgramIs, ProgramWillBe DEF Same
  <2> QED BY <2>1, <2>2, SilentIsStutter DEF Pending
<1>9. CASE WaitpidFails
  <2>1. /\ Die({p \in group : Live(p)}, Signaled("SIGKILL"), "judger")
        /\ UNCHANGED confined /\ pc = "after_fork" /\ pc' = "returned" /\ ret' = E_WAIT
    BY <1>9 DEF WaitpidFails, killpg, Members, ChainDone, Return
  <2>2. child \in confined /\ child \in group
    BY <1>0, <2>1 DEF Handshake
  <2>3. CASE Same /\ program # "admitted"
    BY <2>1, <2>3, ErrorIsRefusal DEF Pending, E_WAIT
  <2>4. CASE program = "admitted" /\ program' = "over" /\ obit'[child].st.how = "signaled"
    <3>1. answer = "pending" /\ answer' = "error"
      BY <2>1 DEF answer, E_WAIT
    <3> QED BY <2>4, <3>1 DEF J!Next, J!GiveUp
  <2> QED BY <2>1, <2>2, <2>3, <2>4, KillMaps
<1>10. CASE timer_after_wait \/ get_usage_after_wait \/ stop_killer_after_wait \/ join_killer
            \/ analyze_after_wait
  <2>1. pc = "after_wait"
    BY <1>0, <1>10, HookPlace
       DEF timer_after_wait, get_usage_after_wait, stop_killer_after_wait, join_killer,
           analyze_after_wait
  <2>2. /\ UNCHANGED procVars
        /\ pc' = pc \/ (pc' = "returned" /\ ret' # 0)
    BY <1>10 DEF timer_after_wait, get_usage_after_wait, stop_killer_after_wait, join_killer,
                 analyze_after_wait, HookDone, HookAt, Return, E_GETRUSAGE
  <2> QED BY <1>2, <2>1, <2>2, SameProgram, SilentIsStutter, ErrorIsRefusal DEF Pending
<1>11. CASE Finish
  <2>1. /\ pc = "after_wait" /\ todo = <<>> /\ pc' = "returned" /\ ret' = 0
        /\ UNCHANGED <<result, procVars>>
    BY <1>11 DEF Finish, ChainDone, Return
  <2>2. answer = "pending" /\ answer' = result.code
    BY <2>1 DEF answer
  <2>3. result.code \in J!Permitted(obit[child].st)
    <3>1. status = obit[child].st
      BY <1>0, <1>2, <2>1 DEF ReapInv
    <3> QED BY <2>1, <3>1 DEF AnswerInv
  <2>4. Same
    BY <2>1, SameProgram
  <2> QED BY <1>2, <2>1, <2>2, <2>3, <2>4 DEF Same, J!Next, J!Judge
<1>12. CASE KillerThread
  <2>1. Silent
    BY <1>12 DEF KillerThread, Silent
  <2>2. CASE KillerKills
    <3>1. PICK D, by : D \subseteq {p \in group : Live(p)} /\ Die(D, Signaled("SIGKILL"), by)
      BY <2>2 DEF KillerKills, killpg, Members
    <3>2. child \in confined /\ child \in group /\ UNCHANGED confined
      BY <1>0, <2>2 DEF KillerKills, Handshake
    <3>3. CASE Same
      BY <2>1, <3>3, SilentIsStutter
    <3>4. CASE /\ program = "admitted" /\ program' = "over" /\ obit[child].st = J!Alive
               /\ obit'[child].st.how = "signaled"
      BY <2>1, <3>4, SameAnswer DEF J!Next, J!End
    <3> QED BY <3>1, <3>2, <3>3, <3>4, KillMaps
  <2>3. CASE UNCHANGED procVars
    BY <2>1, <2>3, SameProgram, SilentIsStutter
  <2> QED BY <1>12, <2>2, <2>3 DEF KillerThread, timeout_killer
<1>13. CASE Passage \/ UNCHANGED vars
  <2>1. Silent /\ UNCHANGED procVars
    BY <1>13 DEF Passage, Tick, Silent
  <2> QED BY <2>1, SameProgram, SilentIsStutter
<1> QED BY <1>3, <1>4, <1>5, <1>6, <1>7, <1>8, <1>9, <1>10, <1>11, <1>12, <1>13
        DEF SessionStep, Judger

(* IsJudgement: the judger, its killer, the child and the program together *)
(* are a Judgement; they answer once, with a verdict only on a program     *)
(* that was admitted and has ended and only one that fits its end.         *)
THEOREM GeneralIsJudgement == ASSUME Undisturbed PROVE Spec => IsJudgement
<1>1. Init => J!Init
  BY ProcessAssumption
     DEF Init, SessionInit, ProcInit, J!Init, program, answer, child, NoObit, NoSignal, J!Alive
<1>2. TypeOK /\ SessionInv /\ JudgementInv /\ [Next]_vars => [J!Next]_J!jvars
  <2> SUFFICES ASSUME TypeOK, SessionInv, HandshakeInv, AnswerInv, [Next]_vars
               PROVE  [J!Next]_J!jvars
    BY DEF JudgementInv
  <2>1. SessionStep \/ ChildSetup \/ ChildOther
    BY DEF Next, JudgerStep, Over, SessionStep
  <2> QED BY <2>1, ChildMaps, SessionMaps
<1> QED BY <1>1, <1>2, Typing, SessionSafe, AnswerSafe, PTL DEF Spec, IsJudgement, J!Spec

-----------------------------------------------------------------------------
(* The result describes the child.                                         *)

(* What each hook leaves for the next ones, and what analyze makes of it.  *)
DescribedInv ==
  /\ CodeUnset => result.exit_code = 0 /\ result.signal = NoSignal
  /\ UsageTaken => /\ at[child] = "reaped"
                   /\ rusage.cpu = obit[child].cpu /\ rusage.maxrss = obit[child].maxrss
  /\ Decided => /\ result.signal = status.sig /\ result.exit_code = status.code
                /\ result.real_memory = ToInt(rusage.maxrss * KB)
  /\ obit[child].st.how = "signaled" => obit[child].st.code = 0

LEMMA AnalyzeDescribes ==
  ASSUME NEW l, NEW r \in ResultRecord, r.exit_code = 0, r.signal = NoSignal,
         NEW st \in StatusRecord, NEW m \in Nat,
         \/ st.how = "exited" /\ st.sig = NoSignal
         \/ st.how = "signaled" /\ st.code = 0
  PROVE  /\ analyze(l, r, st, m).signal = st.sig
         /\ analyze(l, r, st, m).exit_code = st.code
         /\ analyze(l, r, st, m).real_memory = ToInt(m * KB)
<1> DEFINE q == [r EXCEPT !.real_memory = ToInt(m * KB)]
<1>1. /\ q.signal = NoSignal /\ q.exit_code = 0 /\ q.real_memory = ToInt(m * KB)
      /\ DOMAIN q = {"code", "signal", "exit_code", "real_time", "cpu_time", "real_memory"}
  BY DEF ResultRecord
<1> HIDE DEF q
<1>2. /\ set_signal_status(l, q, st.sig).signal = st.sig
      /\ set_signal_status(l, q, st.sig).exit_code = 0
      /\ set_signal_status(l, q, st.sig).real_memory = ToInt(m * KB)
  BY <1>1 DEF set_signal_status
<1>3. /\ set_exitcode_status(l, q, st.code).signal = NoSignal
      /\ set_exitcode_status(l, q, st.code).exit_code = st.code
      /\ set_exitcode_status(l, q, st.code).real_memory = ToInt(m * KB)
  BY <1>1 DEF set_exitcode_status
<1> QED BY <1>2, <1>3 DEF analyze, q

(* Until analyze is done nothing is stored into the signal and exit code.  *)
LEMMA UndescribedKept ==
  ASSUME TypeOK, ChainInv, SessionStep,
         CodeUnset => result.exit_code = 0 /\ result.signal = NoSignal
  PROVE  CodeUnset' => result'.exit_code = 0 /\ result'.signal = NoSignal
<1>0. result \in ResultRecord
  BY DEF TypeOK
<1> USE DEF CodeUnset
<1>1. CASE init_result_before_fork
  BY <1>0, <1>1 DEF init_result_before_fork, ResultRecord
<1>2. CASE timer_after_wait \/ get_usage_after_wait
  <2>1. result'.exit_code = result.exit_code /\ result'.signal = result.signal
    BY <1>0, <1>2 DEF timer_after_wait, get_usage_after_wait, ResultRecord
  <2>2. pc = "after_wait" /\ todo # <<>>
    BY <1>2, HookPlace DEF timer_after_wait, get_usage_after_wait, Hook
  <2> QED BY <2>1, <2>2
<1>3. CASE analyze_after_wait
  <2>1. pc' = "after_wait" /\ todo' = <<>>
    BY <1>3, HookPlace DEF analyze_after_wait, HookDone
  <2> QED BY <2>1
<1>4. CASE UNCHANGED result
  <2>1. CASE \E ok \in BOOLEAN : Create(ok)
    BY <2>1, BuiltinChains, ChainsDiffer DEF Create, Return, TypeOK
  <2>2. CASE compile_policy_before_fork
    <3>1. pc = "before_fork" /\ Tail(todo) = <<"init_result">>
      BY <2>2, HookPlace DEF compile_policy_before_fork
    <3>2. HookDone \/ \E e : Return(e)
      BY <2>2 DEF compile_policy_before_fork
    <3> QED BY <3>1, <3>2, ChainsDiffer DEF HookDone, Return
  <2>3. CASE \/ timer_after_fork \/ start_killer_after_fork \/ start_killer_returns
             \/ stop_killer_after_wait \/ join_killer
    <3>1. pc \in {"after_fork", "after_wait"} /\ todo # <<>>
      BY <2>3, HookPlace DEF timer_after_fork, start_killer_after_fork, start_killer_returns,
         stop_killer_after_wait, join_killer, HookDone, HookAt, Hook
    <3> QED BY <3>1, <1>4
  <2>4. CASE Fork \/ WaitReady \/ Waitpid \/ WaitpidFails \/ Finish
    BY <1>4, <2>4 DEF Fork, WaitReady, Waitpid, WaitpidFails, Finish, Goto, Return, StartChain,
                      ChainDone
  <2>5. CASE KillerThread \/ Passage \/ UNCHANGED vars
    BY <2>5, <1>4 DEF KillerThread, Passage
  <2> QED BY <1>1, <1>2, <1>3, <2>1, <2>2, <2>3, <2>4, <2>5 DEF SessionStep, Judger
<1> QED BY <1>1, <1>2, <1>3, <1>4, Stores

(* Nobody but waitpid's caller touches the obituary of a reaped child.     *)
LEMMA ObitKept ==
  ASSUME TypeOK, SessionStep
  PROVE  \/ obit'[child] = obit[child]
         \/ at[child] # "reaped" /\ obit'[child].st = Signaled("SIGKILL")
<1>0. child \in Procs
  BY ProcessAssumption DEF child
<1>1. ASSUME NEW D, NEW by, D \subseteq {p \in group : Live(p)}, Die(D, Signaled("SIGKILL"), by)
      PROVE  \/ obit'[child] = obit[child]
             \/ at[child] # "reaped" /\ obit'[child].st = Signaled("SIGKILL")
  BY <1>0, <1>1, DieNow DEF Live
<1>2. CASE WaitpidFails
  BY <1>1, <1>2 DEF WaitpidFails, killpg, Members
<1>3. CASE KillerKills
  BY <1>1, <1>3 DEF KillerKills, killpg, Members
<1>4. \/ UNCHANGED obit \/ WaitpidFails \/ KillerKills
  BY DEF SessionStep, Judger, Create, compile_policy_before_fork, init_result_before_fork, Fork,
         WaitReady, timer_after_fork, start_killer_after_fork, start_killer_returns, Waitpid,
         timer_after_wait, get_usage_after_wait, stop_killer_after_wait, join_killer,
         analyze_after_wait, Finish, KillerThread, timeout_killer, Passage, Tick
<1> QED BY <1>2, <1>3, <1>4

(* The children waited for before this judgement have used nothing.        *)
FirstJudgement == \A p \in Pasts : p.cpu = 0 /\ p.maxrss = 0

LEMMA DescribedKept ==
  ASSUME TypeOK, SessionInv, HandshakeInv, AnswerInv, FirstJudgement, DescribedInv, SessionStep
  PROVE  DescribedInv'
<1>0. /\ child = Direct /\ child \in Procs /\ obit[child] \in ObitRecord
      /\ rusage \in [cpu : Nat, maxrss : Nat] /\ result \in ResultRecord
      /\ status \in StatusRecord /\ past.cpu = 0 /\ past.maxrss = 0
      /\ ChainInv /\ ReapInv /\ UNCHANGED inputVars
  BY ProcessAssumption DEF TypeOK, child, SessionInv, FirstJudgement, SessionStep
<1>1. CodeUnset' => result'.exit_code = 0 /\ result'.signal = NoSignal
  BY <1>0, UndescribedKept DEF DescribedInv
<1>2. ASSUME UsageTaken, at[child] = "reaped" PROVE at'[child] = "reaped"
  <2>1. Decided \/ pc = "after_wait"
    BY <1>2 DEF UsageTaken, KillerStopped, Measuring
  <2>2. ~Fork /\ ~Waitpid
    BY <1>0, <1>2 DEF Fork, Waitpid, ChainDone, ReapInv
  <2>3. ASSUME NEW D, NEW st, NEW by, D \subseteq {p \in group : Live(p)}, Die(D, st, by)
        PROVE  at'[child] = "reaped"
    BY <1>0, <1>2, <2>3, DieNow DEF Live
  <2>4. WaitpidFails => at'[child] = "reaped"
    BY <2>3 DEF WaitpidFails, killpg, Members
  <2>5. KillerKills => at'[child] = "reaped"
    BY <2>3 DEF KillerKills, killpg, Members
  <2>6. UNCHANGED at \/ Fork \/ Waitpid \/ WaitpidFails \/ KillerKills
    BY DEF SessionStep, Judger, Create, compile_policy_before_fork, init_result_before_fork,
           WaitReady, timer_after_fork, start_killer_after_fork, start_killer_returns,
           timer_after_wait, get_usage_after_wait, stop_killer_after_wait, join_killer,
           analyze_after_wait, Finish, KillerThread, timeout_killer, Passage, Tick
  <2> QED BY <1>2, <2>2, <2>4, <2>5, <2>6
<1>3. UsageTaken' => /\ at'[child] = "reaped"
                     /\ rusage'.cpu = obit'[child].cpu /\ rusage'.maxrss = obit'[child].maxrss
  <2> SUFFICES ASSUME UsageTaken'
               PROVE  /\ at'[child] = "reaped"
                      /\ rusage'.cpu = obit'[child].cpu /\ rusage'.maxrss = obit'[child].maxrss
    OBVIOUS
  <2>1. CASE UsageTaken /\ UNCHANGED rusage
    BY <1>2, <2>1, ObitKept DEF DescribedInv
  <2>2. CASE get_usage_after_wait
    <3>1. pc = "after_wait"
      BY <1>0, <2>2, HookPlace DEF get_usage_after_wait
    <3>2. at[child] = "reaped" /\ UNCHANGED procVars
      BY <2>2, <3>1 DEF AnswerInv, get_usage_after_wait
    <3>3. pc' = pc \/ (pc' = "returned" /\ ret' # 0)
      BY <2>2 DEF get_usage_after_wait, HookDone, Return, E_GETRUSAGE
    <3>4. pc' = pc
      BY <3>3, <3>1 DEF UsageTaken, KillerStopped, Decided, Judged, Measuring
    <3>5. rusage' = ChildrenUsage
      BY <2>2, <3>1, <3>4 DEF get_usage_after_wait, Return
    <3>6. obit[child].cpu \in Nat /\ obit[child].maxrss \in Nat
      BY <1>0 DEF ObitRecord
    <3>7. ChildrenUsage.cpu = obit[child].cpu /\ ChildrenUsage.maxrss = obit[child].maxrss
      BY <1>0, <3>2, <3>6 DEF ChildrenUsage
    <3> QED BY <3>2, <3>5, <3>7
  <2> QED BY <1>0, <2>1, <2>2, Stages, Stores
<1>4. Decided' => /\ result'.signal = status'.sig /\ result'.exit_code = status'.code
                  /\ result'.real_memory = ToInt(rusage'.maxrss * KB)
  <2> SUFFICES ASSUME Decided'
               PROVE  /\ result'.signal = status'.sig /\ result'.exit_code = status'.code
                      /\ result'.real_memory = ToInt(rusage'.maxrss * KB)
    OBVIOUS
  <2>1. CASE Decided
    <3>1. ~init_result_before_fork /\ ~timer_after_wait /\ ~get_usage_after_wait
          /\ ~analyze_after_wait
      BY <1>0, <2>1, HookPlace, ChainsDiffer
         DEF Decided, Judged, Measuring, init_result_before_fork, timer_after_wait,
             get_usage_after_wait, analyze_after_wait
    <3>2. ~Waitpid
      BY <2>1 DEF Waitpid, ChainDone, Decided, Judged, Measuring
    <3> QED BY <2>1, <3>1, <3>2, Stores DEF DescribedInv
  <2>2. CASE analyze_after_wait
    <3>1. pc = "after_wait" /\ todo # <<>>
      BY <1>0, <2>2, HookPlace, ChainsDiffer DEF analyze_after_wait
    <3>2. /\ result' = analyze(rctxt, result, status, rusage.maxrss)
          /\ status' = status /\ rusage' = rusage
      BY <2>2 DEF analyze_after_wait
    <3>3. status = obit[child].st /\ status.how \in {"exited", "signaled"}
      BY <1>0, <3>1 DEF ReapInv, AnswerInv
    <3>4. \/ status.how = "exited" /\ status.sig = NoSignal
          \/ status.how = "signaled" /\ status.code = 0
      <4>1. status.how = "exited" => status = Exited(status.code)
        BY <1>0, <3>3 DEF ReapInv
      <4>2. Exited(status.code).sig = NoSignal
        BY DEF Exited
      <4>3. status.how = "signaled" => status.code = 0
        BY <3>3 DEF DescribedInv
      <4> QED BY <3>3, <4>1, <4>2, <4>3
    <3>5. result.exit_code = 0 /\ result.signal = NoSignal
      BY <3>1 DEF DescribedInv, CodeUnset
    <3>6. rusage.maxrss \in Nat
      BY <1>0
    <3> QED BY <1>0, <3>2, <3>4, <3>5, <3>6, AnalyzeDescribes
  <2> QED BY <1>0, <2>1, <2>2, Stages
<1>5. obit'[child].st.how = "signaled" => obit'[child].st.code = 0
  BY ObitKept DEF DescribedInv, Signaled
<1> HIDE DEF child
<1>6. child' = child
  BY DEF child
<1> QED BY <1>1, <1>3, <1>4, <1>5, <1>6 DEF DescribedInv

LEMMA ChildDescribed ==
  ASSUME TypeOK, DescribedInv, ChildSetup \/ ChildOther
  PROVE  DescribedInv'
<1>0. child \in Procs
  BY ProcessAssumption DEF child
<1>1. UNCHANGED <<pc, todo, ret, status, rusage, result>>
  BY DEF ChildSetup, ChildOther
<1>2. ASSUME NEW D, NEW st, NEW by, Die(D, st, by), D = {child},
             at[child] # "reaped", st.how = "signaled" => st.code = 0
      PROVE  at[child] # "reaped" /\ (obit'[child].st.how = "signaled" => obit'[child].st.code = 0)
  BY <1>0, <1>2, DieNow
<1>3. (\A c : Exited(c).how # "signaled") /\ (\A s : Signaled(s).code = 0)
  BY DEF Exited, Signaled
<1>4. \/ UNCHANGED obit
      \/ ChildExits(child) \/ ProgramExits(child) \/ ProgramKilled(child) \/ EarlyDeath(child)
      \/ at[child] = "ready" /\ Die({child}, Signaled("SIGSYS"), "kernel")
  BY DEF ChildSetup, ChildOther, Program, ProgramStops, ProgramContinues, ChildSends,
         ChildSetpgid, runner_prework, apply_resource_limit, apply_policy, runner_run, ChildExec
<1>5. UNCHANGED obit \/ /\ at[child] # "reaped"
                        /\ obit'[child].st.how = "signaled" => obit'[child].st.code = 0
  BY <1>2, <1>3, <1>4 DEF ChildExits, ProgramExits, ProgramKilled, EarlyDeath
<1>6. at[child] = "reaped" => at'[child] = "reaped"
  <2>1. ASSUME NEW D, NEW st, NEW by, Die(D, st, by), D = {child}, at[child] # "reaped"
        PROVE  at[child] = "reaped" => at'[child] = "reaped"
    BY <2>1
  <2>2. at[child] # "reaped"
    BY <1>0 DEF ChildSetup, ChildOther, Program, ProgramExits, ProgramKilled, ProgramStops,
         ProgramContinues, EarlyDeath, ChildSends, ChildSetpgid, runner_prework,
         apply_resource_limit, apply_policy, runner_run, ChildExec, ChildExits, ChildAt, ChildFails
  <2> QED BY <2>2
<1>7. UsageTaken => at[child] = "reaped"
  BY DEF DescribedInv
<1> HIDE DEF child
<1>8. child' = child
  BY DEF child
<1>9. (UsageTaken' <=> UsageTaken) /\ (Decided' <=> Decided) /\ (CodeUnset' <=> CodeUnset)
  BY <1>1 DEF UsageTaken, KillerStopped, Decided, Judged, Measuring, CodeUnset
<1> QED BY <1>1, <1>5, <1>6, <1>7, <1>8, <1>9 DEF DescribedInv

(* ResultDescribesChild: in the first judgement of a process the result is *)
(* the child's own exit code, signal, processor time and memory.           *)
THEOREM ResultIsTheChilds ==
  ASSUME Undisturbed, FirstJudgement PROVE Spec => []ResultDescribesChild
<1>1. Init => DescribedInv
  <2> USE DEF Init, SessionInit, ProcInit, NoObit
  <2>1. Init => ~CodeUnset /\ ~UsageTaken /\ ~Decided
    BY DEF CodeUnset, UsageTaken, KillerStopped, Decided, Judged, Measuring
  <2> QED BY <2>1, ProcessAssumption DEF DescribedInv, child
<1>2. TypeOK /\ SessionInv /\ JudgementInv /\ DescribedInv /\ [Next]_vars => DescribedInv'
  <2> SUFFICES ASSUME TypeOK, SessionInv, HandshakeInv, AnswerInv, DescribedInv, [Next]_vars
               PROVE  DescribedInv'
    BY DEF JudgementInv
  <2>1. SessionStep \/ ChildSetup \/ ChildOther
    BY DEF Next, JudgerStep, Over, SessionStep
  <2> QED BY <2>1, ChildDescribed, DescribedKept
<1>3. TypeOK /\ SessionInv /\ DescribedInv => ResultDescribesChild
  <2> SUFFICES ASSUME TypeOK, SessionInv, DescribedInv, Judged, UsageFits
               PROVE  /\ at[Direct] = "reaped"
                      /\ result.signal = obit[Direct].st.sig
                      /\ result.exit_code = obit[Direct].st.code
                      /\ result.cpu_time = obit[Direct].cpu
                      /\ result.real_memory = obit[Direct].maxrss * KB
    BY DEF ResultDescribesChild
  <2>1. Decided /\ UsageTaken
    BY DEF Decided, UsageTaken, KillerStopped
  <2>2. /\ at[Direct] = "reaped" /\ rusage.cpu = obit[Direct].cpu
        /\ rusage.maxrss = obit[Direct].maxrss
    BY <2>1 DEF DescribedInv, child
  <2>3. status = obit[Direct].st /\ result.cpu_time = ToInt(rusage.cpu)
    BY <2>1, <2>2 DEF SessionInv, ReapInv, MeasureInv
  <2>4. rusage.cpu \in Nat /\ rusage.maxrss * KB \in Nat
    BY WordAssumption DEF TypeOK
  <2>5. ToInt(rusage.cpu) = rusage.cpu /\ ToInt(rusage.maxrss * KB) = rusage.maxrss * KB
    BY <2>4, ToIntFits DEF UsageFits
  <2> QED BY <2>1, <2>2, <2>3, <2>5 DEF DescribedInv
<1> QED BY <1>1, <1>2, <1>3, Typing, SessionSafe, AnswerSafe, PTL DEF Spec

=============================================================================
