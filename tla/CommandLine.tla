---------------------------- MODULE CommandLine ----------------------------
(***************************************************************************)
(* The program around a judgement: main (src/cli/main.c) sets the limits   *)
(* and the policy of a context (src/helper.c, src/lib/policy.c), has it    *)
(* judged in its own process or in a forked one (yjudger_forkexec), prints *)
(* the result and frees the context, with the folder it may have made for  *)
(* the builtin policies.  The judgement itself is any Judgement.           *)
(***************************************************************************)
EXTENDS Verdict, Yerr, Sequences

CONSTANTS Options,     \* what the limit options may say: [option -> Int]
          Expectations, \* what --result may say
          Deaths,      \* how a judged program may end
          MB,          \* bytes in a megabyte
          Mishaps      \* calls that may fail, and what may befall the forked judger

ASSUME CommandLineAssumption == MB \in Nat \ {0}

VARIABLES
  opts, policy, forking, expected,  \* the command line
  pc,          \* control point of main
  rctxt,       \* the context's limits
  is_builtin, dirname, loaded,      \* the context's policy
  folders,     \* the folders there are
  yerrno,      \* of main's process
  judger,      \* the forked process: "none", "judging", "exited", "killed", "stopped"
  flag,        \* what it exits with
  status,      \* what waitpid has reported of it
  pshres,      \* the verdict in the memory it shares with main
  result,      \* the verdict main holds
  logged, printed, return_code,
  program, death, answer            \* the judgement

optVars == <<opts, policy, forking, expected>>
ctxVars == <<rctxt, is_builtin, dirname, loaded>>
forkVars == <<judger, flag, status, pshres>>
outVars  == <<logged, printed, return_code>>
judVars  == <<program, death, answer>>
vars == <<optVars, pc, ctxVars, folders, yerrno, forkVars, result, outVars, judVars>>

J == INSTANCE Judgement

NotGiven == 0 - IntBound - 1   \* no int
Nothing == "none"
Unmapped == "unmapped"         \* pshres when mmap has failed: the address MAP_FAILED

Ints == -IntBound..(IntBound - 1)

(* A builtin policy by its name, or one that is not; a policy of the       *)
(* user's, which is there or not.                                          *)
Policies == {"builtin:known", "builtin:unknown", "present", "missing"}
BuiltinPolicies == {"builtin:known", "builtin:unknown"}

Mishap(m) == m \in Mishaps

-----------------------------------------------------------------------------
(* Limits.                                                                 *)

LimitFields == {"real_time", "cpu_time", "virtual_memory", "actual_memory",
                "stack_memory", "output_size", "fileno"}

rsclim_ctxt_create == [f \in LimitFields |-> RSC_UNLIMITED]

LimitsOfType ==
  [REAL_TIME |-> {"real_time"}, CPU_TIME |-> {"cpu_time"}, TIME |-> {"real_time", "cpu_time"},
   VIR_MEM |-> {"virtual_memory"}, ACT_MEM |-> {"actual_memory"}, STK_MEM |-> {"stack_memory"},
   MEM |-> {"virtual_memory", "actual_memory", "stack_memory"},
   OUT |-> {"output_size"}, FILENO |-> {"fileno"}]

yjudger_set_limit(r, type, lim) ==
  [f \in LimitFields |-> IF f \in LimitsOfType[type] THEN lim ELSE r[f]]

Opt(name, type, unit) == [name |-> name, type |-> type, unit |-> unit]

(* --memory looked at after the options that are to override it.           *)
OptionOrder_memoryLate ==
  <<Opt("timeout", "TIME", 1), Opt("cputime", "CPU_TIME", 1), Opt("realtime", "REAL_TIME", 1),
    Opt("virtual_memory", "VIR_MEM", MB), Opt("real_memory", "ACT_MEM", MB),
    Opt("stack_memory", "STK_MEM", MB), Opt("memory", "MEM", MB),
    Opt("output_size", "OUT", MB), Opt("fileno", "FILENO", 1)>>

OptionOrder ==
  <<Opt("timeout", "TIME", 1), Opt("cputime", "CPU_TIME", 1), Opt("realtime", "REAL_TIME", 1),
    Opt("memory", "MEM", MB), Opt("virtual_memory", "VIR_MEM", MB),
    Opt("real_memory", "ACT_MEM", MB), Opt("stack_memory", "STK_MEM", MB),
    Opt("output_size", "OUT", MB), Opt("fileno", "FILENO", 1)>>

OptionNames == {OptionOrder[k].name : k \in DOMAIN OptionOrder}

ASSUME OptionsAssumption == Options \subseteq [OptionNames -> Ints \cup {NotGiven}]

(* The products are of ints.                                               *)
SetOption(r, o) ==
  IF opts[o.name] = NotGiven THEN r
  ELSE yjudger_set_limit(r, o.type, ToInt(opts[o.name] * o.unit))

(* The limits once main has seen to all the options.                       *)
Limited(r) ==
  LET After[k \in 0..Len(OptionOrder)] ==
        IF k = 0 THEN r ELSE SetOption(After[k - 1], OptionOrder[k])
  IN  After[Len(OptionOrder)]

-----------------------------------------------------------------------------

Init ==
  /\ opts \in Options
  /\ policy \in Policies
  /\ forking \in BOOLEAN
  /\ expected \in Expectations
  /\ pc = "limits"
  /\ rctxt = rsclim_ctxt_create
  /\ is_builtin = FALSE /\ dirname = Nothing /\ loaded = FALSE
  /\ folders = {"user"}
  /\ yerrno = 0
  /\ judger = "none" /\ flag = 0 /\ status = J!Alive /\ pshres = "OK"
  /\ result = "OK"
  /\ logged = Nothing /\ printed = Nothing /\ return_code = 0
  /\ J!Init

SetLimits ==
  /\ pc = "limits"
  /\ rctxt' = Limited(rctxt)
  /\ pc' = "policy"
  /\ UNCHANGED <<is_builtin, dirname, loaded, folders, yerrno, forkVars, result, outVars, judVars>>

NoPolicy(e) == /\ yerrno' = e
               /\ pc' = "report"
               /\ UNCHANGED <<dirname, loaded>>

policy_set(dir, there) ==
  \/ /\ there
     /\ dirname' = dir /\ loaded' = TRUE
     /\ pc' = "judge"
     /\ UNCHANGED yerrno
  \/ /\ ~there
     /\ NoPolicy(E_FP)

(* The folder of the command line in place of the temporary one.           *)
policy_set_builtin_userdir ==
  /\ is_builtin' = TRUE
  /\ folders' = folders \cup {"tmp"}
  /\ policy_set("user", policy = "builtin:known")

policy_set_builtin ==
  \/ /\ Mishap("mkdtemp")
     /\ NoPolicy(E_BULTIN_POL)
     /\ UNCHANGED <<folders, is_builtin>>
  \/ /\ Mishap("write")
     /\ folders' = folders \cup {"tmp"}
     /\ \E e \in {E_FP, E_BULTIN_POL} : NoPolicy(e)
     /\ UNCHANGED is_builtin
  \/ /\ folders' = folders \cup {"tmp"}
     /\ is_builtin' = TRUE
     /\ policy_set("tmp", policy = "builtin:known")

SetPolicy ==
  /\ pc = "policy"
  /\ \/ policy \in BuiltinPolicies /\ policy_set_builtin
     \/ /\ policy \notin BuiltinPolicies
        /\ policy_set("user", policy = "present")
        /\ UNCHANGED <<folders, is_builtin>>
  /\ UNCHANGED <<rctxt, forkVars, result, outVars, judVars>>

-----------------------------------------------------------------------------
(* The judgement, in main's process or in a forked one.                    *)

(* What a judger may return, of which no more matters than that it is not *)
(* 0.                                                                      *)
JudgementErrors == {E_KAFEL, E_CHILD, E_WAIT}

Judging == (pc = "judge" /\ ~forking) \/ judger = "judging"

JudgementStep ==
  /\ Judging
  /\ \/ UNCHANGED death /\ J!Next
     \/ death' \in Deaths /\ (J!End \/ J!GiveUp)
  /\ UNCHANGED <<pc, ctxVars, folders, yerrno, forkVars, result, outVars>>

(* A judged program needs no judger to run on or to end.                   *)
ProgramEnds ==
  /\ judger \in {"killed", "stopped"}
  /\ death' \in Deaths
  /\ J!End
  /\ UNCHANGED <<pc, ctxVars, folders, yerrno, forkVars, result, outVars>>

JudgedHere ==
  /\ pc = "judge" /\ ~forking
  /\ answer # "pending"
  /\ \/ /\ answer = "error"
        /\ \E e \in JudgementErrors : yerrno' = e
        /\ UNCHANGED result
     \/ /\ answer # "error"
        /\ result' = answer
        /\ UNCHANGED yerrno
  /\ pc' = "report"
  /\ UNCHANGED <<ctxVars, folders, forkVars, outVars, judVars>>

(* yjudger_forkexec: the result of mmap is not looked at; waitpid(-1)      *)
(* fails if there is no child.                                             *)
ForkJudger ==
  /\ pc = "judge" /\ forking
  /\ pshres' \in {pshres} \cup (IF Mishap("mmap") THEN {Unmapped} ELSE {})
  /\ \/ /\ judger' = "judging" /\ pc' = "wait"
        /\ UNCHANGED result
     \/ /\ Mishap("fork")
        /\ result' = "SE" /\ pc' = "report"
        /\ UNCHANGED judger
  /\ UNCHANGED <<ctxVars, folders, yerrno, flag, status, outVars, judVars>>

(* A result copied to no memory ends the judger, by SIGSEGV.               *)
JudgerExits ==
  /\ judger = "judging" /\ answer # "pending"
  /\ \/ /\ answer = "error"
        /\ \E e \in JudgementErrors : flag' = e
        /\ judger' = "exited"
        /\ UNCHANGED pshres
     \/ /\ answer # "error" /\ pshres # Unmapped
        /\ pshres' = answer
        /\ flag' = 0
        /\ judger' = "exited"
     \/ /\ answer # "error" /\ pshres = Unmapped
        /\ judger' = "killed"
        /\ UNCHANGED <<flag, pshres>>
  /\ UNCHANGED <<pc, ctxVars, folders, yerrno, status, result, outVars, judVars>>

(* By the system short of memory, say; or by a terminal, and for a while.  *)
JudgerSuffers ==
  /\ \/ /\ judger = "judging"
        /\ \E fate \in {"killed", "stopped"} : Mishap(fate) /\ judger' = fate
     \/ judger = "stopped" /\ judger' = "judging"
  /\ UNCHANGED <<pc, ctxVars, folders, yerrno, flag, status, pshres, result, outVars, judVars>>

(* waitpid, WUNTRACED.                                                     *)
JudgerStatus == CASE judger = "exited" -> Exited(flag)
                  [] judger = "killed" -> Signaled("SIGKILL")
                  [] OTHER -> Stopped

(* The second byte of the status: 0 of a process ended by a signal, the    *)
(* signal's number of one that is stopped.                                 *)
SIGSTOP == 19
WEXITSTATUS(st) == CASE st.how = "exited" -> st.code
                     [] st.how = "signaled" -> 0
                     [] OTHER -> SIGSTOP

(* Whatever the judger exited with.                                        *)
ForkedResult_unchecked(st) == pshres

ForkedResult(st) == IF WEXITSTATUS(st) # 0 THEN "SE" ELSE pshres

(* Without waiting for the judger to end.                                  *)
WaitJudger_early ==
  /\ pc = "wait"
  /\ result' = pshres
  /\ pc' = "report"
  /\ UNCHANGED <<ctxVars, folders, yerrno, forkVars, outVars, judVars>>

(* Main, too, ends when it copies the result from no memory.               *)
WaitJudger ==
  /\ pc = "wait" /\ judger \in {"exited", "killed", "stopped"}
  /\ status' = JudgerStatus
  /\ \/ ForkedResult(status') # Unmapped /\ result' = ForkedResult(status') /\ pc' = "report"
     \/ ForkedResult(status') = Unmapped /\ pc' = "crashed" /\ UNCHANGED result
  /\ UNCHANGED <<ctxVars, folders, yerrno, judger, flag, pshres, outVars, judVars>>

-----------------------------------------------------------------------------

(* The log is written before yerrno is looked at, and only of a judgement. *)
Report ==
  /\ pc = "report"
  /\ logged' = IF loaded THEN result ELSE Nothing
  /\ result' = IF yerrno # 0 THEN "SE" ELSE result
  /\ printed' = result'
  /\ return_code' = IF expected \notin {Nothing, result'} THEN 1 ELSE 0
  /\ pc' = "free"
  /\ UNCHANGED <<ctxVars, folders, yerrno, forkVars, judVars>>

(* dirname is still NULL if the policy is not among the builtin ones; what *)
(* rmtree_depth1 then does is undefined: it fails or ends the process.     *)
yjudger_ctxt_free ==
  /\ pc = "free"
  /\ \/ /\ is_builtin /\ dirname # Nothing
        /\ folders' = folders \ {dirname} /\ pc' = "done"
        /\ UNCHANGED yerrno
     \/ /\ is_builtin /\ dirname # Nothing /\ Mishap("rmdir")
        /\ yerrno' = E_ERROR /\ pc' = "done"
        /\ UNCHANGED folders
     \/ /\ is_builtin /\ dirname = Nothing
        /\ \/ yerrno' = E_ERROR /\ pc' = "done"
           \/ UNCHANGED yerrno /\ pc' = "crashed"
        /\ UNCHANGED folders
     \/ /\ ~is_builtin /\ pc' = "done"
        /\ UNCHANGED <<yerrno, folders>>
  /\ UNCHANGED <<ctxVars, forkVars, result, outVars, judVars>>

Main == SetLimits \/ SetPolicy \/ JudgedHere \/ ForkJudger \/ WaitJudger \/ Report
        \/ yjudger_ctxt_free

Next == /\ \/ Main \/ JudgementStep \/ ProgramEnds \/ JudgerExits \/ JudgerSuffers
           \/ pc \in {"done", "crashed"} /\ UNCHANGED vars
        /\ UNCHANGED optVars

Spec == Init /\ [][Next]_vars

-----------------------------------------------------------------------------

(* What is printed is the judgement's verdict, or SE: no error, in either  *)
(* process and at whatever stage, comes out as a verdict on the program,   *)
(* and no verdict gets lost (main.c:91-104, general.c:159-172).  A judger  *)
(* that a signal ended or stopped is excepted: see OKIsAllCorrect.         *)
Undisturbed == status.how \notin {"signaled", "stopped"}

VerdictReported ==
  printed # Nothing /\ Undisturbed =>
    printed = IF answer \in {"pending", "error"} THEN "SE" ELSE answer

(* Once main prints a result no program is left running and none will be   *)
(* let run.                                                                *)
NoProgramLeft ==
  printed # Nothing /\ Undisturbed =>
    /\ program # "admitted"
    /\ ~(program = "setup" /\ answer = "pending")

(* Main removes no folder but the one it made, and that one whenever the   *)
(* policy was loaded from it, unless the removal fails (helper.c:184).     *)
FoldersKept ==
  /\ "user" \in folders
  /\ pc = "done" /\ loaded /\ yerrno # E_ERROR => "tmp" \notin folders

(* A limit is that of the most specific option given (cli.ggo:56), if no   *)
(* product of main.c:42-59 leaves the ints.                                *)
OptionOr(name, otherwise) == IF opts[name] = NotGiven THEN otherwise ELSE opts[name]

ProductsFit ==
  \A k \in DOMAIN OptionOrder :
    LET o == OptionOrder[k]
    IN  opts[o.name] # NotGiven => opts[o.name] * o.unit \in Ints

LimitsMeant ==
  pc # "limits" /\ ProductsFit =>
    LET Time(name)   == OptionOr(name, OptionOr("timeout", RSC_UNLIMITED))
        Memory(name) == OptionOr(name, OptionOr("memory", RSC_UNLIMITED)) * MB
    IN  /\ rctxt.real_time = Time("realtime")
        /\ rctxt.cpu_time = Time("cputime")
        /\ rctxt.virtual_memory = Memory("virtual_memory")
        /\ rctxt.actual_memory = Memory("real_memory")
        /\ rctxt.stack_memory = Memory("stack_memory")
        /\ rctxt.output_size = OptionOr("output_size", RSC_UNLIMITED) * MB
        /\ rctxt.fileno = OptionOr("fileno", RSC_UNLIMITED)

(* OK is "all correct" (judger.h:45): it is said of a program that exited  *)
(* with 0.                                                                 *)
OKIsAllCorrect == printed = "OK" => death.how = "exited" /\ death.code = 0

=============================================================================
