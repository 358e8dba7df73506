------------------------ MODULE CommandLine_proofs ------------------------
(***************************************************************************)
(* What main promises of its report and of its folders, for all values of  *)
(* the constants of CommandLine and whatever Judgement is behind it.       *)
(***************************************************************************)
EXTENDS CommandLine, TLAPS

USE DEF vars, optVars, ctxVars, forkVars, outVars, judVars

-----------------------------------------------------------------------------
(* The report.                                                             *)

(* Main has not, or no longer, to do with the judgement.                   *)
Early == pc \in {"limits", "policy"}
Late  == pc \in {"report", "free", "done", "crashed"}

(* What is to be printed of the judgement as it stands.                    *)
Reported == IF answer \in {"pending", "error"} THEN "SE" ELSE answer

(* An answered Judgement has no program that runs, and no answer is taken  *)
(* for memory that is not there.                                           *)
AnsweredInv == /\ answer # "pending" => program # "admitted"
               /\ answer # Unmapped

(* Nothing is judged before main asks for it; of the forked judger main    *)
(* knows nothing until it has waited for it, and what an exited one leaves  *)
(* behind is its answer.                                                   *)
PlaceInv ==
  /\ Early \/ pc \in {"judge", "wait"} \/ Late
  /\ Early => program = "none" /\ answer = "pending"
  /\ Early \/ pc = "judge" => judger = "none"
  /\ pc = "judge" /\ forking => program = "none" /\ answer = "pending"
  /\ ~Late => yerrno = 0 /\ status.how = "none" /\ printed = Nothing
  /\ pc = "report" => printed = Nothing
  /\ judger = "exited" =>
       /\ answer # "pending"
       /\ answer = "error" => flag # 0
       /\ answer # "error" => flag = 0 /\ pshres = answer

(* After an orderly end the judgement is over or has never begun.          *)
ReportInv ==
  Late /\ Undisturbed =>
    /\ judger \in {"none", "exited"}
    /\ answer = "pending" => program = "none"
    /\ pc = "report" => IF yerrno # 0 THEN Reported = "SE" ELSE result = Reported
    /\ pc # "report" => printed = Reported

LedgerInv == AnsweredInv /\ PlaceInv /\ ReportInv

LEMMA JudgementMoves ==
  ASSUME J!Next
  PROVE  /\ AnsweredInv => AnsweredInv'
         /\ answer # "pending" => answer' = answer
<1>1. \A d : Unmapped \notin J!Permitted(d)
  BY DEF J!Permitted, Unmapped
<1> QED BY <1>1 DEF J!Next, J!Begin, J!Admit, J!End, J!Refuse, J!GiveUp, J!Judge, AnsweredInv,
                    Unmapped

LEMMA LedgerKept == ASSUME LedgerInv, [Next]_vars PROVE LedgerInv'
<1> USE DEF LedgerInv, PlaceInv, ReportInv, Early, Late, Reported, Undisturbed, Judging
<1>e. /\ 0 \notin JudgementErrors /\ E_FP # 0 /\ E_BULTIN_POL # 0
      /\ SIGSTOP # 0
  BY DEF JudgementErrors, E_KAFEL, E_CHILD, E_WAIT, E_FP, E_BULTIN_POL, SIGSTOP
<1>1. CASE SetLimits /\ UNCHANGED optVars
  BY <1>1 DEF SetLimits, AnsweredInv
<1>2. CASE SetPolicy /\ UNCHANGED optVars
  BY <1>2, <1>e DEF SetPolicy, policy_set_builtin, policy_set, NoPolicy, AnsweredInv
<1>3. CASE JudgementStep /\ UNCHANGED optVars
  <2>1. J!Next
    BY <1>3 DEF JudgementStep, J!Next
  <2> QED BY <1>3, <2>1, JudgementMoves DEF JudgementStep
<1>4. CASE ProgramEnds /\ UNCHANGED optVars
  <2>1. J!Next /\ answer' = answer
    BY <1>4 DEF ProgramEnds, J!Next, J!End
  <2> QED BY <1>4, <2>1, JudgementMoves DEF ProgramEnds
<1>5. CASE JudgedHere /\ UNCHANGED optVars
  BY <1>5, <1>e DEF JudgedHere, AnsweredInv
<1>6. CASE ForkJudger /\ UNCHANGED optVars
  BY <1>6 DEF ForkJudger, AnsweredInv
<1>7. CASE JudgerExits /\ UNCHANGED optVars
  BY <1>7, <1>e DEF JudgerExits, AnsweredInv
<1>8. CASE JudgerSuffers /\ UNCHANGED optVars
  BY <1>8 DEF JudgerSuffers, AnsweredInv
<1>9. CASE WaitJudger /\ UNCHANGED optVars
  <2>1. /\ pc = "wait" /\ pc' \in {"report", "crashed"} /\ status' = JudgerStatus
        /\ pc' = "report" => result' = ForkedResult(status')
        /\ pc' = "crashed" => ForkedResult(status') = Unmapped
        /\ UNCHANGED <<yerrno, judger, flag, pshres, outVars, judVars>>
    BY <1>9 DEF WaitJudger
  <2>2. CASE judger = "exited"
    <3>1. JudgerStatus.how = "exited" /\ WEXITSTATUS(JudgerStatus) = flag
      BY <2>2 DEF JudgerStatus, WEXITSTATUS, Exited
    <3>2. answer # "pending" /\ ForkedResult(status') = Reported /\ Reported # Unmapped
      BY <2>1, <2>2, <3>1 DEF ForkedResult, AnsweredInv, Unmapped
    <3> QED BY <2>1, <2>2, <3>2 DEF AnsweredInv
  <2>3. CASE judger \in {"killed", "stopped"}
    <3>1. JudgerStatus.how \in {"signaled", "stopped"}
      BY <2>3 DEF JudgerStatus, Signaled, Stopped
    <3> QED BY <2>1, <2>3, <3>1 DEF AnsweredInv
  <2> QED BY <1>9, <2>2, <2>3 DEF WaitJudger
<1>10. CASE Report /\ UNCHANGED optVars
  BY <1>10 DEF Report, AnsweredInv
<1>11. CASE yjudger_ctxt_free /\ UNCHANGED optVars
  BY <1>11 DEF yjudger_ctxt_free, AnsweredInv
<1>12. CASE UNCHANGED vars
  BY <1>12 DEF AnsweredInv
<1> QED BY <1>1, <1>2, <1>3, <1>4, <1>5, <1>6, <1>7, <1>8, <1>9, <1>10, <1>11, <1>12
        DEF Next, Main

LEMMA Ledger == Spec => []LedgerInv
<1>1. Init => LedgerInv
  BY DEF Init, LedgerInv, AnsweredInv, PlaceInv, ReportInv, Early, Late, J!Init, J!Alive,
         Unmapped
<1>2. LedgerInv /\ [Next]_vars => LedgerInv'
  BY LedgerKept
<1> QED BY <1>1, <1>2, PTL DEF Spec

(* VerdictReported: what main prints is the judgement's verdict, or SE     *)
(* whenever there is none, for a judgement in its own process and for a    *)
(* forked one, with any Judgement and at whatever call main fails.         *)
THEOREM VerdictPrinted == Spec => []VerdictReported
<1>1. LedgerInv => VerdictReported
  BY DEF LedgerInv, PlaceInv, ReportInv, Early, Late, Reported, VerdictReported
<1> QED BY <1>1, Ledger, PTL

(* NoProgramLeft: when main prints, no program runs or is about to, unless *)
(* the forked judger was killed or stopped.                                *)
THEOREM NothingRunsOn == Spec => []NoProgramLeft
<1>1. LedgerInv => NoProgramLeft
  BY DEF LedgerInv, AnsweredInv, PlaceInv, ReportInv, Early, Late, NoProgramLeft
<1> QED BY <1>1, Ledger, PTL

-----------------------------------------------------------------------------
(* The folders.                                                            *)

(* The folder of the context is the temporary one if and only if it has    *)
(* loaded its policy from there.                                           *)
FolderInv ==
  /\ "user" \in folders
  /\ is_builtin => dirname \in {"tmp", Nothing}
  /\ loaded /\ is_builtin => dirname = "tmp"
  /\ loaded /\ ~is_builtin => "tmp" \notin folders
  /\ Early => ~loaded /\ ~is_builtin /\ dirname = Nothing /\ "tmp" \notin folders
  /\ pc = "done" /\ loaded /\ yerrno # E_ERROR => "tmp" \notin folders

LEMMA FolderKept == ASSUME FolderInv, [Next]_vars PROVE FolderInv'
<1> USE DEF FolderInv, Early, Nothing
<1>1. CASE SetPolicy
  BY <1>1 DEF SetPolicy, policy_set_builtin, policy_set, NoPolicy
<1>2. CASE yjudger_ctxt_free
  BY <1>2 DEF yjudger_ctxt_free
<1>3. CASE \/ SetLimits \/ JudgedHere \/ ForkJudger \/ WaitJudger \/ Report
           \/ JudgementStep \/ ProgramEnds \/ JudgerExits \/ JudgerSuffers
  BY <1>3 DEF SetLimits, JudgedHere, ForkJudger, WaitJudger, Report, JudgementStep, ProgramEnds,
              JudgerExits, JudgerSuffers
<1> QED BY <1>1, <1>2, <1>3 DEF Next, Main

(* FoldersKept: freeing the context never removes the folder of the user's *)
(* policy, and removes the temporary one if it can be removed.             *)
THEOREM OnlyTemporaryRemoved == Spec => []FoldersKept
<1>1. Init => FolderInv
  BY DEF Init, FolderInv, Early, Nothing
<1>2. FolderInv /\ [Next]_vars => FolderInv'
  BY FolderKept
<1>3. FolderInv => FoldersKept
  BY DEF FolderInv, FoldersKept
<1> QED BY <1>1, <1>2, <1>3, PTL DEF Spec

-----------------------------------------------------------------------------
(* The limits.                                                             *)

(* A number that an int holds is itself as an int.                         *)
LEMMA IntsStay == ASSUME NEW n \in Ints PROVE ToInt(n) = n
<1>1. n \in Int /\ IntBound \in Nat \ {0}
  BY WordAssumption DEF Ints
<1>2. 0 <= n + IntBound /\ n + IntBound < 2 * IntBound
  BY <1>1 DEF Ints
<1>3. \A a \in Int, b \in Nat : 0 <= a /\ a < b => a % b = a
  OBVIOUS
<1>4. (n + IntBound) % (2 * IntBound) = n + IntBound
  BY <1>1, <1>2, <1>3
<1> QED BY <1>1, <1>4 DEF ToInt

(* The recursion of Limited is over the nine options.                      *)
LEMMA LimitedInTurn ==
  ASSUME NEW r
  PROVE  \E f : /\ f[0] = r
               /\ \A k \in 1..9 : f[k] = SetOption(f[k - 1], OptionOrder[k])
               /\ Limited(r) = f[9]
<1> DEFINE Step(f, k) == IF k = 0 THEN r ELSE SetOption(f[k - 1], OptionOrder[k])
           After == CHOOSE f : f = [k \in 0..Len(OptionOrder) |-> Step(f, k)]
<1>1. Len(OptionOrder) = 9
  BY DEF OptionOrder
<1>2. \E f : f = [k \in 0..9 |-> Step(f, k)]
  <2> DEFINE R1 == SetOption(r, OptionOrder[1])
             R2 == SetOption(R1, OptionOrder[2])
             R3 == SetOption(R2, OptionOrder[3])
             R4 == SetOption(R3, OptionOrder[4])
             R5 == SetOption(R4, OptionOrder[5])
             R6 == SetOption(R5, OptionOrder[6])
             R7 == SetOption(R6, OptionOrder[7])
             R8 == SetOption(R7, OptionOrder[8])
             R9 == SetOption(R8, OptionOrder[9])
             R(k) == CASE k = 0 -> r  [] k = 1 -> R1 [] k = 2 -> R2 [] k = 3 -> R3
                       [] k = 4 -> R4 [] k = 5 -> R5 [] k = 6 -> R6 [] k = 7 -> R7
                       [] k = 8 -> R8 [] OTHER -> R9
             f == [k \in 0..9 |-> R(k)]
  <2>1. R1 = SetOption(r, OptionOrder[1]) /\ R2 = SetOption(R1, OptionOrder[2])
        /\ R3 = SetOption(R2, OptionOrder[3]) /\ R4 = SetOption(R3, OptionOrder[4])
        /\ R5 = SetOption(R4, OptionOrder[5]) /\ R6 = SetOption(R5, OptionOrder[6])
        /\ R7 = SetOption(R6, OptionOrder[7]) /\ R8 = SetOption(R7, OptionOrder[8])
        /\ R9 = SetOption(R8, OptionOrder[9])
    OBVIOUS
  <2> HIDE DEF R1, R2, R3, R4, R5, R6, R7, R8, R9
  <2>2. /\ f[0] = r  /\ f[1] = R1 /\ f[2] = R2 /\ f[3] = R3 /\ f[4] = R4
        /\ f[5] = R5 /\ f[6] = R6 /\ f[7] = R7 /\ f[8] = R8 /\ f[9] = R9
    OBVIOUS
  <2>3. f = [k \in 0..9 |-> f[k]]
    OBVIOUS
  <2> HIDE DEF f
  <2>4. ASSUME NEW k \in 0..9 PROVE f[k] = Step(f, k)
    BY <2>1, <2>2
  <2>5. f = [k \in 0..9 |-> Step(f, k)]
    BY <2>3, <2>4
  <2> QED BY <2>5
<1>3. After = [k \in 0..9 |-> Step(After, k)]
  BY <1>1, <1>2
<1>4. Limited(r) = After[9]
  BY <1>1 DEF Limited
<1> HIDE DEF After
<1>5. After[0] = r /\ \A k \in 1..9 : After[k] = SetOption(After[k - 1], OptionOrder[k])
  BY <1>3
<1> QED BY <1>4, <1>5

(* What the k-th option does to each limit, if its product fits.           *)
Sets(k, name, fields, unit) ==
  \A r, x : x \in LimitFields =>
    SetOption(r, OptionOrder[k])[x] =
      IF opts[name] = NotGiven THEN r[x]
      ELSE IF x \in fields THEN opts[name] * unit ELSE r[x]

LEMMA EachSets ==
  ASSUME ProductsFit
  PROVE   /\ Sets(1, "timeout", {"real_time", "cpu_time"}, 1)
          /\ Sets(2, "cputime", {"cpu_time"}, 1)
          /\ Sets(3, "realtime", {"real_time"}, 1)
          /\ Sets(4, "memory", {"virtual_memory", "actual_memory", "stack_memory"}, MB)
          /\ Sets(5, "virtual_memory", {"virtual_memory"}, MB)
          /\ Sets(6, "real_memory", {"actual_memory"}, MB)
          /\ Sets(7, "stack_memory", {"stack_memory"}, MB)
          /\ Sets(8, "output_size", {"output_size"}, MB)
          /\ Sets(9, "fileno", {"fileno"}, 1)
<1> DEFINE Fields(k) == LimitsOfType[OptionOrder[k].type]
<1>1. DOMAIN OptionOrder = 1..9
  BY DEF OptionOrder
<1>2. ASSUME NEW k \in 1..9
      PROVE  Sets(k, OptionOrder[k].name, Fields(k), OptionOrder[k].unit)
  <2> DEFINE o == OptionOrder[k]
  <2>1. opts[o.name] = NotGiven \/ opts[o.name] * o.unit \in Ints
    BY <1>1 DEF ProductsFit
  <2>2. opts[o.name] = NotGiven \/ ToInt(opts[o.name] * o.unit) = opts[o.name] * o.unit
    BY <2>1, IntsStay
  <2> HIDE DEF o
  <2>3. Sets(k, o.name, LimitsOfType[o.type], o.unit)
    BY <2>2 DEF Sets, SetOption, yjudger_set_limit, o
  <2> QED BY <2>3 DEF o
<1> HIDE DEF Fields
<1>3. Sets(1, "timeout", {"real_time", "cpu_time"}, 1)
  <2>1. OptionOrder[1].name = "timeout" /\ OptionOrder[1].unit = 1 /\ OptionOrder[1].type = "TIME"
    BY DEF OptionOrder, Opt
  <2>2. Fields(1) = {"real_time", "cpu_time"}
    BY <2>1 DEF Fields, LimitsOfType
  <2> QED BY <1>2, <2>1, <2>2
<1>4. Sets(2, "cputime", {"cpu_time"}, 1)
  <2>1. OptionOrder[2].name = "cputime" /\ OptionOrder[2].unit = 1 /\ OptionOrder[2].type = "CPU_TIME"
    BY DEF OptionOrder, Opt
  <2>2. Fields(2) = {"cpu_time"}
    BY <2>1 DEF Fields, LimitsOfType
  <2> QED BY <1>2, <2>1, <2>2
<1>5. Sets(3, "realtime", {"real_time"}, 1)
  <2>1. OptionOrder[3].name = "realtime" /\ OptionOrder[3].unit = 1 /\ OptionOrder[3].type = "REAL_TIME"
    BY DEF OptionOrder, Opt
  <2>2. Fields(3) = {"real_time"}
    BY <2>1 DEF Fields, LimitsOfType
  <2> QED BY <1>2, <2>1, <2>2
<1>6. Sets(4, "memory", {"virtual_memory", "actual_memory", "stack_memory"}, MB)
  <2>1. OptionOrder[4].name = "memory" /\ OptionOrder[4].unit = MB /\ OptionOrder[4].type = "MEM"
    BY DEF OptionOrder, Opt
  <2>2. Fields(4) = {"virtual_memory", "actual_memory", "stack_memory"}
    BY <2>1 DEF Fields, LimitsOfType
  <2> QED BY <1>2, <2>1, <2>2
<1>7. Sets(5, "virtual_memory", {"virtual_memory"}, MB)
  <2>1. OptionOrder[5].name = "virtual_memory" /\ OptionOrder[5].unit = MB /\ OptionOrder[5].type = "VIR_MEM"
    BY DEF OptionOrder, Opt
  <2>2. Fields(5) = {"virtual_memory"}
    BY <2>1 DEF Fields, LimitsOfType
  <2> QED BY <1>2, <2>1, <2>2
<1>8. Sets(6, "real_memory", {"actual_memory"}, MB)
  <2>1. OptionOrder[6].name = "real_memory" /\ OptionOrder[6].unit = MB /\ OptionOrder[6].type = "ACT_MEM"
    BY DEF OptionOrder, Opt
  <2>2. Fields(6) = {"actual_memory"}
    BY <2>1 DEF Fields, LimitsOfType
  <2> QED BY <1>2, <2>1, <2>2
<1>9. Sets(7, "stack_memory", {"stack_memory"}, MB)
  <2>1. OptionOrder[7].name = "stack_memory" /\ OptionOrder[7].unit = MB /\ OptionOrder[7].type = "STK_MEM"
    BY DEF OptionOrder, Opt
  <2>2. Fields(7) = {"stack_memory"}
    BY <2>1 DEF Fields, LimitsOfType
  <2> QED BY <1>2, <2>1, <2>2
<1>10. Sets(8, "output_size", {"output_size"}, MB)
  <2>1. OptionOrder[8].name = "output_size" /\ OptionOrder[8].unit = MB /\ OptionOrder[8].type = "OUT"
    BY DEF OptionOrder, Opt
  <2>2. Fields(8) = {"output_size"}
    BY <2>1 DEF Fields, LimitsOfType
  <2> QED BY <1>2, <2>1, <2>2
<1>11. Sets(9, "fileno", {"fileno"}, 1)
  <2>1. OptionOrder[9].name = "fileno" /\ OptionOrder[9].unit = 1 /\ OptionOrder[9].type = "FILENO"
    BY DEF OptionOrder, Opt
  <2>2. Fields(9) = {"fileno"}
    BY <2>1 DEF Fields, LimitsOfType
  <2> QED BY <1>2, <2>1, <2>2
<1> QED BY <1>3, <1>4, <1>5, <1>6, <1>7, <1>8, <1>9, <1>10, <1>11

Meant(r) ==
  LET Time(name)   == OptionOr(name, OptionOr("timeout", RSC_UNLIMITED))
      Memory(name) == OptionOr(name, OptionOr("memory", RSC_UNLIMITED)) * MB
  IN  /\ r.real_time = Time("realtime")
      /\ r.cpu_time = Time("cputime")
      /\ r.virtual_memory = Memory("virtual_memory")
      /\ r.actual_memory = Memory("real_memory")
      /\ r.stack_memory = Memory("stack_memory")
      /\ r.output_size = OptionOr("output_size", RSC_UNLIMITED) * MB
      /\ r.fileno = OptionOr("fileno", RSC_UNLIMITED)

LEMMA LimitedAsMeant ==
  ASSUME opts \in Options, ProductsFit
  PROVE  Meant(Limited(rsclim_ctxt_create))
<1>1. PICK f : /\ f[0] = rsclim_ctxt_create
               /\ \A k \in 1..9 : f[k] = SetOption(f[k - 1], OptionOrder[k])
               /\ Limited(rsclim_ctxt_create) = f[9]
  BY LimitedInTurn
<1>2. \A n \in OptionNames : opts[n] = NotGiven \/ opts[n] \in Int
  BY OptionsAssumption, WordAssumption DEF Ints
<1>3. /\ "timeout" \in OptionNames /\ "cputime" \in OptionNames
      /\ "realtime" \in OptionNames /\ "fileno" \in OptionNames
  <2>1. DOMAIN OptionOrder = 1..9
    BY DEF OptionOrder
  <2>2. /\ OptionOrder[1].name = "timeout" /\ OptionOrder[2].name = "cputime"
        /\ OptionOrder[3].name = "realtime" /\ OptionOrder[9].name = "fileno"
    BY DEF OptionOrder, Opt
  <2> QED BY <2>1, <2>2 DEF OptionNames
<1>4. /\ opts["timeout"] = NotGiven \/ opts["timeout"] * 1 = opts["timeout"]
      /\ opts["cputime"] = NotGiven \/ opts["cputime"] * 1 = opts["cputime"]
      /\ opts["realtime"] = NotGiven \/ opts["realtime"] * 1 = opts["realtime"]
      /\ opts["fileno"] = NotGiven \/ opts["fileno"] * 1 = opts["fileno"]
  <2>1. \A n \in Int : n * 1 = n
    OBVIOUS
  <2> QED BY <1>2, <1>3, <2>1
<1>5. \A x \in LimitFields : f[0][x] = RSC_UNLIMITED
  BY <1>1 DEF rsclim_ctxt_create
<1>6. RSC_UNLIMITED * MB = RSC_UNLIMITED
  BY CommandLineAssumption DEF RSC_UNLIMITED
<1>7. \A x \in LimitFields :
        f[1][x] = IF opts["timeout"] = NotGiven THEN f[0][x]
                  ELSE IF x \in {"real_time", "cpu_time"} THEN opts["timeout"] * 1 ELSE f[0][x]
  BY <1>1, EachSets DEF Sets
<1>8. \A x \in LimitFields :
        f[2][x] = IF opts["cputime"] = NotGiven THEN f[1][x]
                  ELSE IF x \in {"cpu_time"} THEN opts["cputime"] * 1 ELSE f[1][x]
  BY <1>1, EachSets DEF Sets
<1>9. \A x \in LimitFields :
        f[3][x] = IF opts["realtime"] = NotGiven THEN f[2][x]
                  ELSE IF x \in {"real_time"} THEN opts["realtime"] * 1 ELSE f[2][x]
  BY <1>1, EachSets DEF Sets
<1>10. \A x \in LimitFields :
        f[4][x] = IF opts["memory"] = NotGiven THEN f[3][x]
                  ELSE IF x \in {"virtual_memory", "actual_memory", "stack_memory"} THEN opts["memory"] * MB ELSE f[3][x]
  BY <1>1, EachSets DEF Sets
<1>11. \A x \in LimitFields :
        f[5][x] = IF opts["virtual_memory"] = NotGiven THEN f[4][x]
                  ELSE IF x \in {"virtual_memory"} THEN opts["virtual_memory"] * MB ELSE f[4][x]
  BY <1>1, EachSets DEF Sets
<1>12. \A x \in LimitFields :
        f[6][x] = IF opts["real_memory"] = NotGiven THEN f[5][x]
                  ELSE IF x \in {"actual_memory"} THEN opts["real_memory"] * MB ELSE f[5][x]
  BY <1>1, EachSets DEF Sets
<1>13. \A x \in LimitFields :
        f[7][x] = IF opts["stack_memory"] = NotGiven THEN f[6][x]
                  ELSE IF x \in {"stack_memory"} THEN opts["stack_memory"] * MB ELSE f[6][x]
  BY <1>1, EachSets DEF Sets
<1>14. \A x \in LimitFields :
        f[8][x] = IF opts["output_size"] = NotGiven THEN f[7][x]
                  ELSE IF x \in {"output_size"} THEN opts["output_size"] * MB ELSE f[7][x]
  BY <1>1, EachSets DEF Sets
<1>15. \A x \in LimitFields :
        f[9][x] = IF opts["fileno"] = NotGiven THEN f[8][x]
                  ELSE IF x \in {"fileno"} THEN opts["fileno"] * 1 ELSE f[8][x]
  BY <1>1, EachSets DEF Sets
<1>16. "real_time" \in LimitFields
  BY DEF LimitFields
<1>17. "cpu_time" \in LimitFields
  BY DEF LimitFields
<1>18. "virtual_memory" \in LimitFields
  BY DEF LimitFields
<1>19. "actual_memory" \in LimitFields
  BY DEF LimitFields
<1>20. "stack_memory" \in LimitFields
  BY DEF LimitFields
<1>21. "output_size" \in LimitFields
  BY DEF LimitFields
<1>22. "fileno" \in LimitFields
  BY DEF LimitFields
<1>23. f[9]["real_time"] = OptionOr("realtime", OptionOr("timeout", RSC_UNLIMITED))
  BY <1>4, <1>5, <1>6, <1>16, <1>7, <1>8, <1>9, <1>10, <1>11, <1>12, <1>13, <1>14, <1>15 DEF OptionOr
<1>24. f[9]["cpu_time"] = OptionOr("cputime", OptionOr("timeout", RSC_UNLIMITED))
  BY <1>4, <1>5, <1>6, <1>17, <1>7, <1>8, <1>9, <1>10, <1>11, <1>12, <1>13, <1>14, <1>15 DEF OptionOr
<1>25. f[9]["virtual_memory"] = OptionOr("virtual_memory", OptionOr("memory", RSC_UNLIMITED)) * MB
  BY <1>4, <1>5, <1>6, <1>18, <1>7, <1>8, <1>9, <1>10, <1>11, <1>12, <1>13, <1>14, <1>15 DEF OptionOr
<1>26. f[9]["actual_memory"] = OptionOr("real_memory", OptionOr("memory", RSC_UNLIMITED)) * MB
  BY <1>4, <1>5, <1>6, <1>19, <1>7, <1>8, <1>9, <1>10, <1>11, <1>12, <1>13, <1>14, <1>15 DEF OptionOr
<1>27. f[9]["stack_memory"] = OptionOr("stack_memory", OptionOr("memory", RSC_UNLIMITED)) * MB
  BY <1>4, <1>5, <1>6, <1>20, <1>7, <1>8, <1>9, <1>10, <1>11, <1>12, <1>13, <1>14, <1>15 DEF OptionOr
<1>28. f[9]["output_size"] = OptionOr("output_size", RSC_UNLIMITED) * MB
  BY <1>4, <1>5, <1>6, <1>21, <1>7, <1>8, <1>9, <1>10, <1>11, <1>12, <1>13, <1>14, <1>15 DEF OptionOr
<1>29. f[9]["fileno"] = OptionOr("fileno", RSC_UNLIMITED)
  BY <1>4, <1>5, <1>6, <1>22, <1>7, <1>8, <1>9, <1>10, <1>11, <1>12, <1>13, <1>14, <1>15 DEF OptionOr
<1>30. Limited(rsclim_ctxt_create) = f[9]
  BY <1>1
<1> QED BY <1>30, <1>23, <1>24, <1>25, <1>26, <1>27, <1>28, <1>29 DEF Meant

LimitInv ==
  /\ opts \in Options
  /\ rctxt = IF pc = "limits" THEN rsclim_ctxt_create ELSE Limited(rsclim_ctxt_create)

(* LimitsMeant: whichever of the nine options are given, the limits a      *)
(* judgement gets are those of the most specific ones, the general ones    *)
(* filling in, unless a product of a number and MB overflows.              *)
THEOREM LimitsAsGiven == Spec => []LimitsMeant
<1>1. Init => LimitInv
  BY DEF Init, LimitInv
<1>2. ASSUME LimitInv, [Next]_vars PROVE LimitInv'
  <2> USE <1>2 DEF LimitInv
  <2>1. UNCHANGED opts /\ Limited(rsclim_ctxt_create)' = Limited(rsclim_ctxt_create)
    <3>1. UNCHANGED opts
      BY DEF Next
    <3> QED BY <3>1 DEF Limited, SetOption
  <2>2. CASE SetLimits
    BY <2>1, <2>2 DEF SetLimits
  <2>3. CASE UNCHANGED rctxt /\ (pc' = "limits" <=> pc = "limits")
    BY <2>1, <2>3
  <2>4. CASE SetPolicy \/ JudgedHere \/ ForkJudger \/ WaitJudger \/ Report
    BY <2>3, <2>4 DEF SetPolicy, policy_set_builtin, policy_set, NoPolicy, JudgedHere,
                      ForkJudger, WaitJudger, Report
  <2>5. CASE yjudger_ctxt_free \/ JudgementStep \/ ProgramEnds \/ JudgerExits \/ JudgerSuffers
    BY <2>3, <2>5 DEF yjudger_ctxt_free, JudgementStep, ProgramEnds, JudgerExits, JudgerSuffers
  <2> QED BY <2>2, <2>3, <2>4, <2>5 DEF Next, Main
<1>3. LimitInv => LimitsMeant
  <2> SUFFICES ASSUME LimitInv, pc # "limits", ProductsFit PROVE Meant(rctxt)
    BY DEF LimitsMeant, Meant
  <2> QED BY LimitedAsMeant DEF LimitInv
<1> QED BY <1>1, <1>2, <1>3, PTL DEF Spec

=============================================================================
