------------------------------ MODULE Session ------------------------------
(***************************************************************************)
(* One judgement as the judger's own thread sees it: what yjudger_general  *)
(* and yjudger_interactive have in common.  The thread runs three chains   *)
(* of hooks around fork and waitpid; it learns through the pipe p_run      *)
(* whether the child is ready.  The children are the business of the       *)
(* modules that extend this one.                                           *)
(***************************************************************************)
EXTENDS TimeoutKiller, Sequences

CONSTANTS Argcs,   \* the numbers of arguments a judgement may be given
          Pasts    \* [cpu, maxrss] of the children this process waited for before

ASSUME SessionAssumption == /\ Argcs \subseteq Nat
                            /\ Pasts \subseteq [cpu : Nat, maxrss : Nat]

VARIABLES
  argc, past,  \* this judgement's argument count and the usage it inherits
  pc,          \* control point of the judger's thread
  hctxt,       \* the registered hook chains
  todo,        \* the hooks left of the chain being run
  sub,         \* control point inside the hook being run
  ret,         \* what the judger returned, Running before it does
  p_run,       \* the signals in the pipe
  tid, status, rusage, result   \* the fields of ctxt

inputVars  == <<rctxt, argc, past>>
threadVars == <<pc, hctxt, todo, sub, ret>>
ctxtVars   == <<tid, status, rusage, result>>
judgerVars == <<threadVars, ctxtVars, p_run>>
sysVars    == <<procVars, killerVars, clock>>
vars       == <<inputVars, judgerVars, sysVars>>

Codes == {"UNINIT", "OK", "RE", "MLE", "TLE", "OLE", "SE", "DSC", "ECE"}

ResultRecord == [code : Codes, signal : AllSignals \cup {"UNINIT"}, exit_code : Int,
                 real_time : Int, cpu_time : Int, real_memory : Int]

JudgerPoints == {"init", "before_fork", "wait_ready", "after_fork", "after_wait", "returned"}

Running == -1
NoTid == 0
KillerTid == 1

-----------------------------------------------------------------------------
(* Hooks (src/hook.c): a chain is a list whose head was registered last.   *)

NoHooks == [before_fork |-> <<>>, after_fork |-> <<>>, after_wait |-> <<>>]

pushfront_hook(chain, hook) == <<hook>> \o chain

register_hook(h, type, hook) == [h EXCEPT ![type] = pushfront_hook(@, hook)]

register_hooks(h, type, first, second) ==
  register_hook(register_hook(h, type, first), type, second)

(* The start time is taken after the killer has been created.              *)
register_builtin_hook_timer_first(h) ==
  LET h1 == register_hooks(h,  "before_fork", "init_result", "compile_policy")
      h2 == register_hooks(h1, "after_fork",  "timer", "start_killer")
      h3 == register_hooks(h2, "after_wait",  "analyze", "stop_killer")
  IN  register_hooks(h3, "after_wait", "get_usage", "end_timer")

(* The verdict is reached before what it judges has been measured.         *)
register_builtin_hook_analyze_last(h) ==
  LET h1 == register_hooks(h,  "before_fork", "init_result", "compile_policy")
      h2 == register_hooks(h1, "after_fork",  "start_killer", "timer")
      h3 == register_hooks(h2, "after_wait",  "get_usage", "end_timer")
  IN  register_hooks(h3, "after_wait", "stop_killer", "analyze")

register_builtin_hook(h) ==
  LET h1 == register_hooks(h,  "before_fork", "init_result", "compile_policy")
      h2 == register_hooks(h1, "after_fork",  "start_killer", "timer")
      h3 == register_hooks(h2, "after_wait",  "analyze", "stop_killer")
  IN  register_hooks(h3, "after_wait", "get_usage", "end_timer")

-----------------------------------------------------------------------------

SessionInit ==
  /\ rctxt \in Limits
  /\ argc \in Argcs
  /\ past \in Pasts
  /\ pc = "init"
  /\ hctxt = NoHooks
  /\ todo = <<>>
  /\ sub = "entry"
  /\ ret = Running
  /\ p_run = <<>>
  /\ tid = NoTid
  /\ status = NoObit.st
  /\ rusage = [cpu |-> 0, maxrss |-> 0]
  /\ result = UninitResult
  /\ ProcInit
  /\ KillerInit

Return(r) == /\ pc' = "returned"
             /\ ret' = r
             /\ sub' = "entry"
             /\ UNCHANGED <<hctxt, todo>>

Goto(point) == /\ pc' = point
               /\ UNCHANGED <<hctxt, todo, sub, ret>>

StartChain(name) == /\ pc' = name
                    /\ todo' = hctxt[name]
                    /\ UNCHANGED <<hctxt, sub, ret>>

(* run_hook_chain has reached the hook.                                    *)
Hook(name) == /\ pc \in {"before_fork", "after_fork", "after_wait"}
              /\ todo # <<>>
              /\ Head(todo) = name

HookDone == /\ todo' = Tail(todo)
            /\ sub' = "entry"
            /\ UNCHANGED <<pc, hctxt, ret>>

(* Inside the hook.                                                        *)
HookAt(point) == /\ sub' = point
                 /\ UNCHANGED <<pc, hctxt, todo, ret>>

ChainDone(name) == pc = name /\ todo = <<>>

-----------------------------------------------------------------------------
(* Before the fork.                                                        *)

Create(argcOk) ==
  /\ pc = "init"
  /\ \/ Fails("pipe") /\ Return(E_PIPE)
     \/ ~argcOk /\ Return(E_ARGC)
     \/ /\ argcOk
        /\ hctxt' = register_builtin_hook(hctxt)
        /\ pc' = "before_fork"
        /\ todo' = hctxt'.before_fork
        /\ UNCHANGED <<sub, ret>>
  /\ UNCHANGED <<ctxtVars, p_run, sysVars>>

compile_policy_before_fork ==
  /\ Hook("compile_policy")
  /\ \/ HookDone
     \/ Fails("compile") /\ \E e \in {E_ERROR, E_POL_IDT, E_KAFEL} : Return(e)
  /\ UNCHANGED <<ctxtVars, p_run, sysVars>>

(* cpu_time is not reset.                                                  *)
init_result_before_fork ==
  /\ Hook("init_result")
  /\ result' = [result EXCEPT !.code = "SE", !.exit_code = 0, !.signal = NoSignal,
                              !.real_memory = 0, !.real_time = 0]
  /\ \/ HookDone
     \/ Fails("fcntl") /\ Return(E_FCNTL)
  /\ UNCHANGED <<tid, status, rusage, p_run, sysVars>>

Fork ==
  /\ ChainDone("before_fork")
  /\ \/ Goto("wait_ready") /\ at' = [at EXCEPT ![Direct] = "born"]
     \/ Fails("fork") /\ Return(E_FORK) /\ UNCHANGED at
  /\ UNCHANGED <<group, limited, confined, obit, yerrno, killerVars, clock>>
  /\ UNCHANGED <<ctxtVars, p_run>>

(* Any signal at all taken for readiness.                                  *)
child_ready_any(sig) == sig \in {"READY", "FAILED"}

child_ready(sig) == sig = "READY"

(* The pipe's write end is also the judger's own, so read() never sees the *)
(* end of the file: it returns a signal or, interrupted, an error.         *)
WaitReady ==
  /\ pc = "wait_ready"
  /\ \/ /\ p_run # <<>>
        /\ p_run' = Tail(p_run)
        /\ \/ child_ready(Head(p_run)) /\ StartChain("after_fork")
           \/ ~child_ready(Head(p_run)) /\ Return(E_CHILD)
     \/ Fails("read") /\ Return(E_CHILD) /\ UNCHANGED p_run
  /\ UNCHANGED <<ctxtVars, sysVars>>

-----------------------------------------------------------------------------
(* While the program runs.                                                 *)

timer_after_fork ==
  /\ Hook("timer")
  /\ clock' = 0
  /\ HookDone
  /\ UNCHANGED <<ctxtVars, p_run, procVars, killerVars>>

(* The thread is given the address of tctxt, a local of this function; a   *)
(* failure of pthread_create is only logged.                               *)
start_killer_after_fork ==
  /\ Hook("start_killer") /\ sub = "entry"
  /\ \/ rctxt.real_time = RSC_UNLIMITED /\ HookDone /\ UNCHANGED <<tid, killer>>
     \/ /\ rctxt.real_time # RSC_UNLIMITED
        /\ HookAt("created")
        /\ tid' = KillerTid
        /\ killer' = "created"
     \/ /\ rctxt.real_time # RSC_UNLIMITED
        /\ Fails("pthread_create")
        /\ HookDone
        /\ UNCHANGED <<tid, killer>>
  /\ UNCHANGED <<status, rusage, result, p_run, procVars, clock>>
  /\ UNCHANGED <<karg, sleepLeft, cancelReq, detached>>

start_killer_returns ==
  /\ Hook("start_killer") /\ sub = "created"
  /\ HookDone
  /\ UNCHANGED <<ctxtVars, p_run, sysVars>>

(* WUNTRACED: a child that is stopped is reported like one that has ended. *)
Waitpid ==
  /\ ChainDone("after_fork")
  /\ \/ /\ at[Direct] = "zombie"
        /\ at' = [at EXCEPT ![Direct] = "reaped"]
        /\ status' = obit[Direct].st
     \/ /\ at[Direct] = "stopped"
        /\ status' = Stopped
        /\ UNCHANGED at
  /\ StartChain("after_wait")
  /\ UNCHANGED <<group, limited, confined, obit, yerrno, killerVars, clock>>
  /\ UNCHANGED <<tid, rusage, result, p_run>>

(* The group is left alive.                                                *)
WaitpidFails_nokill ==
  /\ ChainDone("after_fork")
  /\ Fails("waitpid")
  /\ Return(E_WAIT)
  /\ UNCHANGED <<ctxtVars, p_run, sysVars>>

WaitpidFails ==
  /\ ChainDone("after_fork")
  /\ Fails("waitpid")
  /\ killpg(Direct, "judger")
  /\ Return(E_WAIT)
  /\ UNCHANGED <<group, limited, confined, yerrno, killerVars, clock>>
  /\ UNCHANGED <<ctxtVars, p_run>>

-----------------------------------------------------------------------------
(* After the wait.                                                         *)

timer_after_wait ==
  /\ Hook("end_timer")
  /\ result' = [result EXCEPT !.real_time = ToInt(clock)]
  /\ HookDone
  /\ UNCHANGED <<tid, status, rusage, p_run, sysVars>>

(* RUSAGE_SELF in place of RUSAGE_CHILDREN.                                *)
ChildrenUsage_self == [cpu |-> 0, maxrss |-> 0]

(* RUSAGE_CHILDREN: everything this process has ever waited for.           *)
ChildrenUsage ==
  IF at[Direct] = "reaped"
  THEN [cpu    |-> past.cpu + obit[Direct].cpu,
        maxrss |-> IF obit[Direct].maxrss > past.maxrss THEN obit[Direct].maxrss
                                                        ELSE past.maxrss]
  ELSE past

get_usage_after_wait ==
  /\ Hook("get_usage")
  /\ \/ /\ rusage' = ChildrenUsage
        /\ result' = [result EXCEPT !.cpu_time = ToInt(rusage'.cpu)]
        /\ HookDone
     \/ /\ Fails("getrusage")
        /\ Return(E_GETRUSAGE)
        /\ UNCHANGED <<rusage, result>>
  /\ UNCHANGED <<tid, status, p_run, sysVars>>

(* The thread is neither cancelled nor joined.                             *)
stop_killer_forgotten ==
  /\ Hook("stop_killer")
  /\ HookDone
  /\ UNCHANGED <<ctxtVars, p_run, sysVars>>

(* pthread_cancel ...                                                      *)
stop_killer_after_wait ==
  /\ Hook("stop_killer") /\ sub = "entry"
  /\ \/ /\ rctxt.real_time = RSC_UNLIMITED \/ tid = NoTid
        /\ HookDone
        /\ UNCHANGED cancelReq
     \/ /\ rctxt.real_time # RSC_UNLIMITED /\ tid # NoTid
        /\ cancelReq' = TRUE
        /\ HookAt("cancelled")
  /\ UNCHANGED <<ctxtVars, p_run, procVars, clock, killer, karg, sleepLeft, detached>>

(* ... and pthread_join, which fails at once for a detached thread; the    *)
(* failure is ignored.                                                     *)
join_killer ==
  /\ Hook("stop_killer")
  /\ \/ sub = "cancelled" /\ detached  /\ HookDone
     \/ sub = "cancelled" /\ ~detached /\ HookAt("joining")
     \/ sub = "joining" /\ killer = "gone" /\ HookDone
  /\ UNCHANGED <<ctxtVars, p_run, sysVars>>

analyze_after_wait ==
  /\ Hook("analyze")
  /\ result' = analyze(rctxt, result, status, rusage.maxrss)
  /\ HookDone
  /\ UNCHANGED <<tid, status, rusage, p_run, sysVars>>

Finish ==
  /\ ChainDone("after_wait")
  /\ Return(0)
  /\ UNCHANGED <<ctxtVars, p_run, sysVars>>

-----------------------------------------------------------------------------

Judger == \/ compile_policy_before_fork \/ init_result_before_fork
          \/ Fork \/ WaitReady
          \/ timer_after_fork \/ start_killer_after_fork \/ start_killer_returns
          \/ Waitpid \/ WaitpidFails
          \/ timer_after_wait \/ get_usage_after_wait
          \/ stop_killer_after_wait \/ join_killer
          \/ analyze_after_wait \/ Finish

(* The frame of start_killer_after_fork is alive from the creation of the  *)
(* thread until that function returns.                                     *)
KillerThread == /\ timeout_killer(sub = "created", sub = "joining")
                /\ UNCHANGED <<judgerVars, clock>>

(* The steps of the system that wait for nobody's program.                 *)
Passage == Tick /\ UNCHANGED judgerVars

(* The judgement is over once the judger has returned.                     *)
Over == pc = "returned" /\ UNCHANGED <<judgerVars, sysVars>>

-----------------------------------------------------------------------------

TypeOK ==
  /\ rctxt \in Limits /\ argc \in Argcs /\ past \in Pasts
  /\ pc \in JudgerPoints
  /\ sub \in {"entry", "created", "cancelled", "joining"}
  /\ hctxt \in {NoHooks, register_builtin_hook(NoHooks)}
  /\ pc = "init" => hctxt = NoHooks
  /\ ret \in {Running} \cup Nat
  /\ p_run \in Seq({"FAILED", "READY"})
  /\ tid \in {NoTid, KillerTid}
  /\ status \in StatusRecord
  /\ rusage \in [cpu : Nat, maxrss : Nat]
  /\ result \in ResultRecord
  /\ clock \in {NoStamp} \cup 0..MaxClock
  /\ at \in [Procs -> ChildPoints]
  /\ group \subseteq Procs /\ limited \subseteq Procs /\ confined \subseteq Procs
  /\ obit \in [Procs -> ObitRecord]
  /\ yerrno \in [Procs -> Nat]
  /\ killer \in KillerPoints
  /\ karg \in {tctxt, [pid |-> Direct, time |-> 0]} \cup StaleReads
  /\ sleepLeft \in Nat
  /\ cancelReq \in BOOLEAN /\ detached \in BOOLEAN

-----------------------------------------------------------------------------
(* What a judgement promises, in terms both judgers share.                 *)

Judged == pc = "returned" /\ ret = 0

(* The usage the judger reads fits the int fields it is stored in.         *)
UsageFits == /\ rusage.cpu < IntBound
             /\ rusage.maxrss * KB < IntBound

(* A judgement never says OK of a program that did not exit with 0, that   *)
(* ended after its real time limit or that used more processor time or     *)
(* memory than it was allowed: set_exitcode_status only looks at what the  *)
(* timer and rusage hooks stored before it, whatever the interleaving with *)
(* the killer and however late the judger's thread is.                     *)
NeverFalseOK ==
  Judged /\ result.code = "OK" /\ UsageFits =>
    /\ obit[Direct].st = Exited(0)
    /\ rctxt.real_time # RSC_UNLIMITED => obit[Direct].when <= rctxt.real_time
    /\ rctxt.cpu_time # RSC_UNLIMITED => obit[Direct].cpu <= rctxt.cpu_time
    /\ rctxt.actual_memory # RSC_UNLIMITED =>
         obit[Direct].maxrss * KB <= rctxt.actual_memory

(* The killer never kills a process on account of a timeout before its     *)
(* real time limit is over, as measured from the start time that           *)
(* timer_after_fork took (tkill.c:30-32).                                  *)
NoEarlyKill ==
  \A p \in Procs : obit[p].by = "timeout" => obit[p].when > rctxt.real_time

(* A program that the killer ended at its timeout is reported as a time    *)
(* limit exceeded and nothing else, although the verdict is reached from   *)
(* SIGKILL and the judger's own clock (builtin_hook.c:96-99).              *)
TimeoutBlamed ==
  Judged /\ at[Direct] = "reaped" /\ obit[Direct].by = "timeout" =>
    result.code = "TLE" /\ result.signal = "SIGKILL"

(* Once a judgement is over, a killer it started has ended or has been     *)
(* told to: it can no longer sleep on and kill at its timeout.             *)
KillerNotForgotten ==
  Judged => killer \in {"none", "gone"} \/ cancelReq

(* What the killer kills is the process group of its own child.            *)
KillsMonitored ==
  [][killer' = "gone" /\ killer \in {"timed_out", "aborting"} => karg.pid = Direct]_vars

(* The killer only kills a group whose processes the judger has not all    *)
(* reaped, so that no stranger can have been given the group's id.         *)
NoStrayKill ==
  [][killer' = "gone" /\ killer \in {"timed_out", "aborting"} =>
       \E p \in group : at[p] # "reaped"]_vars

(* The result describes the child that ended: its signal or exit code, its *)
(* processor time and its memory, each read by another hook.               *)
ResultDescribesChild ==
  Judged /\ UsageFits =>
    /\ at[Direct] = "reaped"
    /\ result.signal = obit[Direct].st.sig
    /\ result.exit_code = obit[Direct].st.code
    /\ result.cpu_time = obit[Direct].cpu
    /\ result.real_memory = obit[Direct].maxrss * KB

(* A child that ends before it is ready is reported as such (yerr.c:21).   *)
EarlyDeathReported ==
  at[Direct] = "zombie" /\ pc = "wait_ready" ~> pc = "returned"

-----------------------------------------------------------------------------
(* Why the safety properties hold: an invariant that every step of the     *)
(* judger, of its killer and of its children preserves.                    *)

(* The pipe holds READY, or FAILED.                                        *)
ReadySent  == \E i \in 1..Len(p_run) : p_run[i] = "READY"
FailedSent == \E i \in 1..Len(p_run) : p_run[i] = "FAILED"

BeforeForkLeft == {<<"compile_policy", "init_result">>, <<"init_result">>, <<>>}
AfterForkLeft  == {<<"timer", "start_killer">>, <<"start_killer">>, <<>>}
AfterWaitLeft  == {<<"end_timer", "get_usage", "stop_killer", "analyze">>,
                   <<"get_usage", "stop_killer", "analyze">>,
                   <<"stop_killer", "analyze">>, <<"analyze">>, <<>>}

(* The chains are register_builtin_hook's; what is left of one is an end.  *)
ChainInv == /\ pc \notin {"init", "returned"} => hctxt = register_builtin_hook(NoHooks)
            /\ pc = "before_fork" => todo \in BeforeForkLeft
            /\ pc = "after_fork"  => todo \in AfterForkLeft
            /\ pc = "after_wait"  => todo \in AfterWaitLeft

Unstarted == \/ pc \in {"init", "before_fork", "wait_ready"}
             \/ pc = "after_fork" /\ todo = <<"timer", "start_killer">>
Measuring(left) == pc = "after_wait" /\ todo = left
Decided     == Judged \/ Measuring(<<>>)
KillerStopped == Decided \/ Measuring(<<"analyze">>)
UsageTaken  == KillerStopped \/ Measuring(<<"stop_killer", "analyze">>)
TimeTaken   == UsageTaken \/ Measuring(<<"get_usage", "stop_killer", "analyze">>)

(* The start time is taken once, before there is a killer, and no death    *)
(* lies in the future.                                                     *)
ClockInv == /\ Unstarted => clock = NoStamp /\ killer = "none"
            /\ pc \in {"after_fork", "after_wait"} /\ ~Unstarted => clock # NoStamp
            /\ killer # "none" => /\ clock # NoStamp
                                  /\ rctxt.real_time # RSC_UNLIMITED
                                  /\ tid # NoTid
            /\ \A p \in Procs : obit[p].when <= clock

(* The killer's wake-up lies beyond the limit.                             *)
KillerInv == /\ killer \notin {"none", "created"} => karg = tctxt
             /\ killer = "sleeping" =>
                  clock = MaxClock \/ clock + sleepLeft >= SleepTicks(rctxt.real_time)
             /\ killer = "timed_out" => clock > rctxt.real_time
             /\ \A p \in Procs : obit[p].by = "timeout" =>
                  /\ rctxt.real_time # RSC_UNLIMITED
                  /\ obit[p].st = Signaled("SIGKILL")
                  /\ obit[p].when > rctxt.real_time

(* The killer is cancelled before its hook is done with.                   *)
CancelInv == /\ sub \in {"cancelled", "joining"} => cancelReq
             /\ KillerStopped => killer \in {"none", "gone"} \/ cancelReq

(* The child is reaped by the judger's waitpid only, which reads its       *)
(* status; a status of exit has no signal.                                 *)
ReapInv ==
  /\ pc \in {"init", "before_fork", "wait_ready", "after_fork"} => at[Direct] # "reaped"
  /\ at[Direct] = "reaped" => status = obit[Direct].st
  /\ pc = "after_wait" => status = Stopped \/ at[Direct] = "reaped"
  /\ \A p \in Procs : obit[p].st.how = "exited" => obit[p].st = Exited(obit[p].st.code)

(* Each hook finds what the ones before it have stored.                    *)
MeasureInv ==
  /\ TimeTaken /\ at[Direct] = "reaped" => result.real_time >= obit[Direct].when
  /\ UsageTaken => result.cpu_time = ToInt(rusage.cpu)
  /\ UsageTaken /\ at[Direct] = "reaped" => /\ rusage.cpu >= obit[Direct].cpu
                                            /\ rusage.maxrss >= obit[Direct].maxrss
  /\ \/ pc \in {"wait_ready", "after_fork"}
     \/ pc = "before_fork" /\ todo = <<>>
     \/ pc = "after_wait" /\ todo # <<>>
     => result.code = "SE"

(* The verdict, once reached, is what the properties say of it.            *)
OKInv == Decided /\ result.code = "OK" =>
           /\ at[Direct] = "reaped"
           /\ obit[Direct].st = Exited(0)
           /\ UsageFits =>
                /\ rctxt.real_time # RSC_UNLIMITED => obit[Direct].when <= rctxt.real_time
                /\ rctxt.cpu_time # RSC_UNLIMITED => obit[Direct].cpu <= rctxt.cpu_time
                /\ rctxt.actual_memory # RSC_UNLIMITED =>
                     obit[Direct].maxrss * KB <= rctxt.actual_memory

TLEInv == Decided /\ at[Direct] = "reaped" /\ obit[Direct].by = "timeout" =>
            result.code = "TLE" /\ result.signal = "SIGKILL"

(* What holds even if the killer reads its argument from a dead frame ...  *)
SessionInv == ChainInv /\ ClockInv /\ CancelInv /\ ReapInv /\ MeasureInv /\ OKInv

(* ... and what holds if it does not.                                      *)
TimelyInv == KillerInv /\ TLEInv

=============================================================================
