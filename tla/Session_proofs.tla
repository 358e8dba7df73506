--------------------------- MODULE Session_proofs ---------------------------
(***************************************************************************)
(* What is proved of the judger's thread and its killer alone, whatever    *)
(* the children do: the part of the proofs both judgers share.             *)
(***************************************************************************)
EXTENDS Session, SequenceTheorems, TLAPS

USE DEF vars, inputVars, judgerVars, threadVars, ctxtVars, sysVars, procVars, killerVars

-----------------------------------------------------------------------------
(* Type correctness.                                                       *)

(* Deaths keep the types of what they change.                              *)
LEMMA DieTyped ==
  ASSUME TypeOK, NEW D, NEW st \in StatusRecord,
         NEW by \in {"program", "kernel", "timeout", "abort", "judger"}, Die(D, st, by)
  PROVE  at' \in [Procs -> ChildPoints] /\ obit' \in [Procs -> ObitRecord]
BY ProcessAssumption DEF TypeOK, Die, ObitRecord, ChildPoints

LEMMA StatusTyped ==
  /\ \A c \in Nat : Exited(c) \in StatusRecord
  /\ \A s \in AllSignals : Signaled(s) \in StatusRecord
  /\ Stopped \in StatusRecord
BY DEF Exited, Signaled, Stopped, StatusRecord, AllSignals

LEMMA SleepTyped == ASSUME NEW t \in Int PROVE SleepTicks(t) \in Nat
BY WordAssumption DEF SleepTicks, ToUnsigned, CDiv, ToInt

(* The result keeps its type when one of its fields is stored into.        *)
LEMMA ResultFields ==
  ASSUME NEW r \in ResultRecord
  PROVE  /\ \A c \in Codes : [r EXCEPT !.code = c] \in ResultRecord
         /\ \A s \in AllSignals : [r EXCEPT !.signal = s] \in ResultRecord
         /\ \A n \in Int : [r EXCEPT !.exit_code = n] \in ResultRecord
         /\ \A n \in Int : [r EXCEPT !.real_time = n] \in ResultRecord
         /\ \A n \in Int : [r EXCEPT !.cpu_time = n] \in ResultRecord
         /\ \A n \in Int : [r EXCEPT !.real_memory = n] \in ResultRecord
BY DEF ResultRecord, Codes

LEMMA InitResultTyped ==
  ASSUME NEW r \in ResultRecord
  PROVE  [r EXCEPT !.code = "SE", !.exit_code = 0, !.signal = NoSignal,
                   !.real_memory = 0, !.real_time = 0] \in ResultRecord
<1> DEFINE a == [r EXCEPT !.code = "SE"]
           b == [a EXCEPT !.exit_code = 0]
           c == [b EXCEPT !.signal = NoSignal]
           d == [c EXCEPT !.real_memory = 0]
<1>1. a \in ResultRecord BY ResultFields DEF Codes
<1> HIDE DEF a
<1>2. b \in ResultRecord BY <1>1, ResultFields
<1> HIDE DEF b
<1>3. c \in ResultRecord BY <1>2, ResultFields DEF AllSignals
<1> HIDE DEF c
<1>4. d \in ResultRecord BY <1>3, ResultFields
<1> HIDE DEF d
<1>5. [d EXCEPT !.real_time = 0] \in ResultRecord BY <1>4, ResultFields
<1> QED BY <1>5 DEF a, b, c, d

LEMMA AnalyzeTyped ==
  ASSUME NEW l \in LimitRecord, NEW r \in ResultRecord, NEW st \in StatusRecord,
         NEW m \in Nat
  PROVE  analyze(l, r, st, m) \in ResultRecord
<1> DEFINE q == [r EXCEPT !.real_memory = ToInt(m * KB)]
<1>1. q \in ResultRecord
  <2>1. ToInt(m * KB) \in Int
    BY WordAssumption DEF ToInt
  <2> QED BY <2>1, ResultFields
<1> HIDE DEF q
<1>2. set_signal_status(l, q, st.sig) \in ResultRecord
  <2> DEFINE c == signal_code(l, q, st.sig)
             p == [q EXCEPT !.signal = st.sig]
  <2>1. st.sig \in AllSignals
    BY DEF StatusRecord
  <2>2. c \in Codes
    BY <1>1 DEF signal_code, ResultRecord, Codes
  <2> HIDE DEF c
  <2>3. p \in ResultRecord
    BY <1>1, <2>1, ResultFields
  <2> HIDE DEF p
  <2>4. [p EXCEPT !.code = c] \in ResultRecord
    BY <2>2, <2>3, ResultFields
  <2> QED BY <2>4 DEF set_signal_status, p, c
<1>3. set_exitcode_status(l, q, st.code) \in ResultRecord
  <2> DEFINE mle == real_mle(l, q)
             tle == real_tle(l, q) \/ cpu_tle(l, q)
             c == CASE st.code # 0                -> "ECE"
                    [] st.code = 0 /\ mle         -> "MLE"
                    [] st.code = 0 /\ ~mle /\ tle -> "TLE"
                    [] OTHER                      -> "OK"
             p == [q EXCEPT !.exit_code = st.code]
  <2>1. st.code \in Int
    BY DEF StatusRecord
  <2>2. c \in Codes
    <3> HIDE DEF mle, tle
    <3> QED BY DEF Codes
  <2> HIDE DEF c
  <2>3. p \in ResultRecord
    BY <1>1, <2>1, ResultFields
  <2> HIDE DEF p
  <2>4. [p EXCEPT !.code = c] \in ResultRecord
    BY <2>2, <2>3, ResultFields
  <2> QED BY <2>4 DEF set_exitcode_status, p, c
<1> QED BY <1>1, <1>2, <1>3 DEF analyze, q

LEMMA SessionInitTyped == ASSUME SessionInit PROVE TypeOK
<1> USE DEF SessionInit, ProcInit, KillerInit
<1>1. NoObit \in ObitRecord
  BY DEF NoObit, ObitRecord, StatusRecord, AllSignals
<1>2. status \in StatusRecord
  BY DEF NoObit, StatusRecord, AllSignals
<1>3. result \in ResultRecord
  BY DEF UninitResult, ResultRecord, Codes
<1>4. obit \in [Procs -> ObitRecord]
  BY <1>1
<1>5. at \in [Procs -> ChildPoints] /\ yerrno \in [Procs -> Nat]
  BY DEF ChildPoints
<1>6. p_run \in Seq({"FAILED", "READY"}) /\ sleepLeft \in Nat
  OBVIOUS
<1>7. rusage \in [cpu : Nat, maxrss : Nat]
  OBVIOUS
<1> QED BY <1>2, <1>3, <1>4, <1>5, <1>6, <1>7
        DEF TypeOK, NoHooks, Running, NoTid, JudgerPoints, KillerPoints, NoStamp

(* The steps of a judgement that are not its children's.                   *)
SessionStep == /\ \/ \E ok \in BOOLEAN : Create(ok)
                  \/ Judger \/ KillerThread \/ Passage \/ UNCHANGED vars
               /\ UNCHANGED inputVars

(* They keep every variable to its type.                                   *)
LEMMA SessionTyped == ASSUME TypeOK, SessionStep PROVE TypeOK'
<1> UNCHANGED inputVars
  BY DEF SessionStep
<1> USE DEF TypeOK, tctxt
<1>1. CASE \E ok \in BOOLEAN : Create(ok)
  BY <1>1 DEF Create, Return, JudgerPoints, E_PIPE, E_ARGC
<1>2. CASE compile_policy_before_fork
  BY <1>2 DEF compile_policy_before_fork, Hook, HookDone, Return, JudgerPoints,
              E_ERROR, E_POL_IDT, E_KAFEL
<1>3. CASE init_result_before_fork
  <2>1. result' \in ResultRecord
    BY <1>3, InitResultTyped DEF init_result_before_fork
  <2> QED BY <1>3, <2>1 DEF init_result_before_fork, Hook, HookDone, Return, JudgerPoints,
                            E_FCNTL
<1>4. CASE Fork
  <2>1. at' \in [Procs -> ChildPoints]
    BY <1>4 DEF Fork, ChildPoints
  <2> QED BY <1>4, <2>1 DEF Fork, Goto, Return, JudgerPoints, E_FORK
<1>5. CASE WaitReady
  <2>1. p_run' \in Seq({"FAILED", "READY"})
    <3>1. p_run # <<>> => Tail(p_run) \in Seq({"FAILED", "READY"})
      OBVIOUS
    <3> QED BY <1>5, <3>1 DEF WaitReady
  <2> QED BY <1>5, <2>1 DEF WaitReady, StartChain, Return, JudgerPoints, E_CHILD
<1>6. CASE timer_after_fork
  BY <1>6, ProcessAssumption DEF timer_after_fork, Hook, HookDone
<1>7. CASE start_killer_after_fork
  BY <1>7 DEF start_killer_after_fork, Hook, HookDone, HookAt, KillerPoints
<1>8. CASE start_killer_returns
  BY <1>8 DEF start_killer_returns, Hook, HookDone
<1>9. CASE Waitpid
  <2>1. at' \in [Procs -> ChildPoints]
    BY <1>9 DEF Waitpid, ChildPoints
  <2>2. status' \in StatusRecord
    BY <1>9, StatusTyped, ProcessAssumption DEF Waitpid, ObitRecord
  <2> QED BY <1>9, <2>1, <2>2 DEF Waitpid, StartChain, JudgerPoints
<1>10. CASE WaitpidFails
  <2>1. at' \in [Procs -> ChildPoints] /\ obit' \in [Procs -> ObitRecord]
    BY <1>10, DieTyped, StatusTyped DEF WaitpidFails, killpg, AllSignals
  <2> QED BY <1>10, <2>1 DEF WaitpidFails, Return, JudgerPoints, E_WAIT
<1>11. CASE timer_after_wait
  <2>1. result' \in ResultRecord
    <3>1. ToInt(clock) \in Int
      BY ProcessAssumption, WordAssumption DEF NoStamp, ToInt
    <3> QED BY <1>11, <3>1, ResultFields DEF timer_after_wait
  <2> QED BY <1>11, <2>1 DEF timer_after_wait, Hook, HookDone
<1>12. CASE get_usage_after_wait
  <2>1. ChildrenUsage \in [cpu : Nat, maxrss : Nat]
    BY ProcessAssumption, SessionAssumption DEF ChildrenUsage, ObitRecord
  <2>2. rusage' \in [cpu : Nat, maxrss : Nat]
    BY <1>12, <2>1 DEF get_usage_after_wait
  <2>3. ToInt(rusage'.cpu) \in Int
    BY <2>2, WordAssumption DEF ToInt
  <2>4. result' \in ResultRecord
    BY <1>12, <2>3, ResultFields DEF get_usage_after_wait
  <2> QED BY <1>12, <2>2, <2>4 DEF get_usage_after_wait, Hook, HookDone, Return,
                                   JudgerPoints, E_GETRUSAGE
<1>13. CASE stop_killer_after_wait
  BY <1>13 DEF stop_killer_after_wait, Hook, HookDone, HookAt
<1>14. CASE join_killer
  BY <1>14 DEF join_killer, Hook, HookDone, HookAt
<1>15. CASE analyze_after_wait
  <2>1. result' \in ResultRecord
    BY <1>15, AnalyzeTyped, LimitAssumption DEF analyze_after_wait
  <2> QED BY <1>15, <2>1 DEF analyze_after_wait, Hook, HookDone
<1>16. CASE Finish
  BY <1>16 DEF Finish, Return, JudgerPoints
<1>17. CASE KillerThread
  <2>1. CASE KillerReads(sub = "created") /\ UNCHANGED procVars
    BY <1>17, <2>1 DEF KillerThread, KillerReads, KillerPoints
  <2>2. CASE KillerDetaches(sub = "joining") /\ UNCHANGED procVars
    <3>1. karg.time \in Int
      BY LimitAssumption, StaleAssumption DEF LimitRecord
    <3>2. sleepLeft' \in Nat
      BY <2>2, <3>1, SleepTyped DEF KillerDetaches
    <3> QED BY <1>17, <2>2, <3>2 DEF KillerThread, KillerDetaches, KillerPoints
  <2>3. CASE KillerFailsToDetach /\ UNCHANGED procVars
    BY <1>17, <2>3 DEF KillerThread, KillerFailsToDetach, KillerPoints
  <2>4. CASE KillerCancelled /\ UNCHANGED procVars
    BY <1>17, <2>4 DEF KillerThread, KillerCancelled, KillerPoints
  <2>5. CASE KillerTimesOut /\ UNCHANGED procVars
    BY <1>17, <2>5 DEF KillerThread, KillerTimesOut, KillerPoints
  <2>6. CASE KillerInterrupted /\ UNCHANGED procVars
    BY <1>17, <2>6 DEF KillerThread, KillerInterrupted, KillerPoints
  <2>7. CASE KillerKills
    <3>1. at' \in [Procs -> ChildPoints] /\ obit' \in [Procs -> ObitRecord]
      BY <2>7, DieTyped, StatusTyped DEF KillerKills, killpg, AllSignals
    <3> QED BY <1>17, <2>7, <3>1 DEF KillerThread, KillerKills, KillerPoints
  <2> QED BY <1>17, <2>1, <2>2, <2>3, <2>4, <2>5, <2>6, <2>7
          DEF KillerThread, timeout_killer
<1>18. CASE Passage
  BY <1>18, ProcessAssumption DEF Passage, Tick, ClockRuns, KillerSleeps, NoStamp
<1>19. CASE UNCHANGED vars
  BY <1>19
<1> QED BY <1>1, <1>2, <1>3, <1>4, <1>5, <1>6, <1>7, <1>8, <1>9, <1>10, <1>11, <1>12, <1>13,
           <1>14, <1>15, <1>16, <1>17, <1>18, <1>19
        DEF SessionStep, Judger

-----------------------------------------------------------------------------
(* The chains register_builtin_hook makes, and what is left of them.       *)

LEMMA Cons2 ==
  ASSUME NEW a, NEW b PROVE <<a>> \o <<b>> = <<a, b>>
<1> DEFINE S == {a, b}
           s == <<a>> \o <<b>>
           t == <<a, b>>
<1>1. s \in Seq(S) /\ t \in Seq(S)
  OBVIOUS
<1>2. Len(s) = 2 /\ s[1] = a /\ s[2] = b /\ Len(t) = 2 /\ t[1] = a /\ t[2] = b
  OBVIOUS
<1> HIDE DEF s, t
<1>3. \A i \in 1..Len(s) : s[i] = t[i]
  BY <1>2
<1>4. s = t
  BY <1>1, <1>2, <1>3, SeqEqual
<1> QED BY <1>4 DEF s, t

LEMMA Cons3 ==
  ASSUME NEW a, NEW b, NEW c PROVE <<a>> \o <<b, c>> = <<a, b, c>>
<1> DEFINE S == {a, b, c}
           s == <<a>> \o <<b, c>>
           t == <<a, b, c>>
<1>1. s \in Seq(S) /\ t \in Seq(S)
  OBVIOUS
<1>2. /\ Len(s) = 3 /\ s[1] = a /\ s[2] = b /\ s[3] = c
      /\ Len(t) = 3 /\ t[1] = a /\ t[2] = b /\ t[3] = c
  OBVIOUS
<1> HIDE DEF s, t
<1>3. \A i \in 1..Len(s) : s[i] = t[i]
  BY <1>2
<1>4. s = t
  BY <1>1, <1>2, <1>3, SeqEqual
<1> QED BY <1>4 DEF s, t

LEMMA Cons4 ==
  ASSUME NEW a, NEW b, NEW c, NEW d PROVE <<a>> \o <<b, c, d>> = <<a, b, c, d>>
<1> DEFINE S == {a, b, c, d}
           s == <<a>> \o <<b, c, d>>
           t == <<a, b, c, d>>
<1>1. s \in Seq(S) /\ t \in Seq(S)
  OBVIOUS
<1>2. /\ Len(s) = 4 /\ s[1] = a /\ s[2] = b /\ s[3] = c /\ s[4] = d
      /\ Len(t) = 4 /\ t[1] = a /\ t[2] = b /\ t[3] = c /\ t[4] = d
  OBVIOUS
<1> HIDE DEF s, t
<1>3. \A i \in 1..Len(s) : s[i] = t[i]
  BY <1>2
<1>4. s = t
  BY <1>1, <1>2, <1>3, SeqEqual
<1> QED BY <1>4 DEF s, t

LEMMA BuiltinChains ==
  register_builtin_hook(NoHooks) =
    [before_fork |-> <<"compile_policy", "init_result">>,
     after_fork  |-> <<"timer", "start_killer">>,
     after_wait  |-> <<"end_timer", "get_usage", "stop_killer", "analyze">>]
<1> DEFINE S == {"compile_policy", "init_result", "timer", "start_killer", "end_timer",
                 "get_usage", "stop_killer", "analyze"}
<1>1. \A a \in S : <<a>> \o <<>> = <<a>>
  OBVIOUS
<1>2. <<"compile_policy">> \o <<"init_result">> = <<"compile_policy", "init_result">>
  BY Cons2
<1>3. <<"timer">> \o <<"start_killer">> = <<"timer", "start_killer">>
  BY Cons2
<1>4. <<"stop_killer">> \o <<"analyze">> = <<"stop_killer", "analyze">>
  BY Cons2
<1>5. <<"get_usage">> \o <<"stop_killer", "analyze">> = <<"get_usage", "stop_killer", "analyze">>
  BY Cons3
<1>6. <<"end_timer">> \o <<"get_usage", "stop_killer", "analyze">> =
        <<"end_timer", "get_usage", "stop_killer", "analyze">>
  BY Cons4
<1> QED BY <1>1, <1>2, <1>3, <1>4, <1>5, <1>6
        DEF register_builtin_hook, register_hooks, register_hook, pushfront_hook, NoHooks

(* Each hook belongs to one chain and has one place in it.                 *)
LEMMA HookPlace ==
  ASSUME ChainInv, NEW name, Hook(name)
  PROVE  \/ /\ name = "compile_policy" /\ pc = "before_fork"
            /\ todo = <<"compile_policy", "init_result">> /\ Tail(todo) = <<"init_result">>
         \/ /\ name = "init_result" /\ pc = "before_fork"
            /\ todo = <<"init_result">> /\ Tail(todo) = <<>>
         \/ /\ name = "timer" /\ pc = "after_fork"
            /\ todo = <<"timer", "start_killer">> /\ Tail(todo) = <<"start_killer">>
         \/ /\ name = "start_killer" /\ pc = "after_fork"
            /\ todo = <<"start_killer">> /\ Tail(todo) = <<>>
         \/ /\ name = "end_timer" /\ pc = "after_wait"
            /\ todo = <<"end_timer", "get_usage", "stop_killer", "analyze">>
            /\ Tail(todo) = <<"get_usage", "stop_killer", "analyze">>
         \/ /\ name = "get_usage" /\ pc = "after_wait"
            /\ todo = <<"get_usage", "stop_killer", "analyze">>
            /\ Tail(todo) = <<"stop_killer", "analyze">>
         \/ /\ name = "stop_killer" /\ pc = "after_wait"
            /\ todo = <<"stop_killer", "analyze">> /\ Tail(todo) = <<"analyze">>
         \/ /\ name = "analyze" /\ pc = "after_wait"
            /\ todo = <<"analyze">> /\ Tail(todo) = <<>>
<1> USE DEF Hook
<1>1. CASE pc = "before_fork"
  <2>1. CASE todo = <<"compile_policy", "init_result">>
    BY <1>1, <2>1
  <2>2. CASE todo = <<"init_result">>
    BY <1>1, <2>2
  <2> QED BY <1>1, <2>1, <2>2 DEF ChainInv, BeforeForkLeft
<1>2. CASE pc = "after_fork"
  <2>1. CASE todo = <<"timer", "start_killer">>
    BY <1>2, <2>1
  <2>2. CASE todo = <<"start_killer">>
    BY <1>2, <2>2
  <2> QED BY <1>2, <2>1, <2>2 DEF ChainInv, AfterForkLeft
<1>3. CASE pc = "after_wait"
  <2>1. CASE todo = <<"end_timer", "get_usage", "stop_killer", "analyze">>
    BY <1>3, <2>1
  <2>2. CASE todo = <<"get_usage", "stop_killer", "analyze">>
    BY <1>3, <2>2
  <2>3. CASE todo = <<"stop_killer", "analyze">>
    BY <1>3, <2>3
  <2>4. CASE todo = <<"analyze">>
    BY <1>3, <2>4
  <2> QED BY <1>3, <2>1, <2>2, <2>3, <2>4 DEF ChainInv, AfterWaitLeft
<1> QED BY <1>1, <1>2, <1>3

(* Chains that differ in length are told apart.                            *)
LEMMA ChainsDiffer ==
  /\ <<"timer", "start_killer">> # <<"start_killer">>
  /\ <<"timer", "start_killer">> # <<>>
  /\ <<"end_timer", "get_usage", "stop_killer", "analyze">> \notin
       {<<"get_usage", "stop_killer", "analyze">>, <<"stop_killer", "analyze">>,
        <<"analyze">>, <<>>}
  /\ <<"get_usage", "stop_killer", "analyze">> \notin
       {<<"stop_killer", "analyze">>, <<"analyze">>, <<>>}
  /\ <<"stop_killer", "analyze">> \notin {<<"analyze">>, <<>>}
  /\ <<"analyze">> # <<>>
  /\ <<"init_result">> # <<>>
OBVIOUS

(* A step inside a chain ends its hook, goes on in it or leaves the judger. *)
HookStep(name) == /\ Hook(name)
                  /\ HookDone \/ (\E e : Return(e)) \/ (\E point : HookAt(point))

LEMMA HookSteps ==
  /\ compile_policy_before_fork => HookStep("compile_policy")
  /\ init_result_before_fork => HookStep("init_result")
  /\ timer_after_fork => HookStep("timer")
  /\ start_killer_after_fork \/ start_killer_returns => HookStep("start_killer")
  /\ timer_after_wait => HookStep("end_timer")
  /\ get_usage_after_wait => HookStep("get_usage")
  /\ stop_killer_after_wait \/ join_killer => HookStep("stop_killer")
  /\ analyze_after_wait => HookStep("analyze")
<1> USE DEF HookStep
<1>1. compile_policy_before_fork => HookStep("compile_policy")
  BY DEF compile_policy_before_fork
<1>2. init_result_before_fork => HookStep("init_result")
  BY DEF init_result_before_fork
<1>3. timer_after_fork => HookStep("timer")
  BY DEF timer_after_fork
<1>4. start_killer_after_fork \/ start_killer_returns => HookStep("start_killer")
  BY DEF start_killer_after_fork, start_killer_returns
<1>5. timer_after_wait => HookStep("end_timer")
  BY DEF timer_after_wait
<1>6. get_usage_after_wait => HookStep("get_usage")
  BY DEF get_usage_after_wait
<1>7. stop_killer_after_wait \/ join_killer => HookStep("stop_killer")
  BY DEF stop_killer_after_wait, join_killer
<1>8. analyze_after_wait => HookStep("analyze")
  BY DEF analyze_after_wait
<1> HIDE DEF HookStep
<1> QED BY <1>1, <1>2, <1>3, <1>4, <1>5, <1>6, <1>7, <1>8

(* ChainInv is preserved.                                                  *)
LEMMA ChainKept == ASSUME TypeOK, ChainInv, SessionStep PROVE ChainInv'
<1>1. CASE \E ok \in BOOLEAN : Create(ok)
  BY <1>1, BuiltinChains DEF Create, Return, TypeOK, ChainInv, BeforeForkLeft
<1>2. ASSUME NEW name, HookStep(name) PROVE ChainInv'
  BY <1>2, HookPlace DEF HookStep, HookDone, HookAt, Return, ChainInv, BeforeForkLeft,
                         AfterForkLeft, AfterWaitLeft
<1>3. CASE Fork \/ WaitReady \/ Waitpid \/ WaitpidFails \/ Finish
  BY <1>3, BuiltinChains DEF Fork, WaitReady, Waitpid, WaitpidFails, Finish, Goto, Return,
                             StartChain, ChainDone, ChainInv, AfterForkLeft, AfterWaitLeft
<1>4. CASE KillerThread \/ Passage \/ UNCHANGED vars
  BY <1>4 DEF KillerThread, Passage, ChainInv
<1> QED BY <1>1, <1>2, <1>3, <1>4, HookSteps DEF SessionStep, Judger

-----------------------------------------------------------------------------
(* The clock and the deaths.                                               *)

(* Only the processes that die get an obituary, at the present time.       *)
LEMMA DieNow ==
  ASSUME TypeOK, NEW D, NEW st, NEW by, Die(D, st, by)
  PROVE  \A p \in Procs :
           /\ p \notin D => obit'[p] = obit[p] /\ at'[p] = at[p]
           /\ p \in D => /\ obit'[p].when = clock /\ obit'[p].by = by /\ obit'[p].st = st
                         /\ at'[p] = "zombie"
BY DEF Die

(* ClockInv is preserved.                                                  *)
LEMMA ClockKept == ASSUME TypeOK, ChainInv, ClockInv, SessionStep PROVE ClockInv'
<1> UNCHANGED inputVars
  BY DEF SessionStep
<1>a. \A p \in Procs : obit[p].when \in Int
  BY ProcessAssumption DEF TypeOK, ObitRecord, NoStamp
<1>b. clock \in Int /\ (clock # NoStamp => clock \in Nat)
  BY ProcessAssumption DEF TypeOK, NoStamp
<1> USE DEF ClockInv, Unstarted
<1>1. CASE \E ok \in BOOLEAN : Create(ok)
  BY <1>1, <1>a, <1>b DEF Create, Return
<1>2. CASE compile_policy_before_fork \/ init_result_before_fork
  BY <1>2, <1>a, <1>b, HookSteps, HookPlace
     DEF HookStep, HookDone, HookAt, Return, compile_policy_before_fork, init_result_before_fork
<1>3. CASE Fork
  BY <1>3 DEF Fork, Goto, Return, ChainDone
<1>4. CASE WaitReady
  BY <1>4, BuiltinChains DEF WaitReady, StartChain, Return, ChainInv
<1>5. CASE timer_after_fork
  BY <1>5, <1>a, <1>b, HookPlace, ChainsDiffer DEF timer_after_fork, HookDone, NoStamp
<1>6. CASE start_killer_after_fork
  <2>1. /\ pc = "after_fork" /\ todo = <<"start_killer">> /\ Tail(todo) = <<>>
        /\ pc' = "after_fork" /\ todo' \in {<<"start_killer">>, <<>>}
    BY <1>6, HookPlace DEF start_killer_after_fork, HookDone, HookAt
  <2>2. ~Unstarted /\ ~Unstarted' /\ clock # NoStamp
    BY <2>1, ChainsDiffer
  <2>3. killer' # "none" => rctxt.real_time # RSC_UNLIMITED /\ tid' # NoTid
    BY <1>6 DEF start_killer_after_fork, NoTid, KillerTid
  <2>4. UNCHANGED <<clock, obit>>
    BY <1>6 DEF start_killer_after_fork
  <2> QED BY <2>2, <2>3, <2>4
<1>7. CASE start_killer_returns
  BY <1>7, <1>a, <1>b, HookPlace, ChainsDiffer DEF start_killer_returns, HookDone
<1>8. CASE Waitpid
  BY <1>8, ChainsDiffer DEF Waitpid, StartChain, ChainDone
<1>9. CASE WaitpidFails
  <2>1. \A p \in Procs : obit'[p].when <= clock
    BY <1>9, <1>a, <1>b, DieNow DEF WaitpidFails, killpg
  <2> QED BY <1>9, <2>1, ChainsDiffer DEF WaitpidFails, Return, ChainDone
<1>10. CASE timer_after_wait \/ get_usage_after_wait \/ stop_killer_after_wait
            \/ join_killer \/ analyze_after_wait
  BY <1>10, HookSteps, HookPlace
     DEF HookStep, HookDone, HookAt, Return, timer_after_wait, get_usage_after_wait,
         stop_killer_after_wait, join_killer, analyze_after_wait
<1>11. CASE Finish
  BY <1>11 DEF Finish, Return, ChainDone
<1>12. CASE KillerThread
  <2>1. CASE killer' # "none" /\ killer # "none" /\ UNCHANGED procVars
    BY <1>12, <2>1 DEF KillerThread
  <2>2. CASE KillerKills
    <3>1. \A p \in Procs : obit'[p].when <= clock
      BY <2>2, <1>a, <1>b, DieNow DEF KillerKills, killpg
    <3> QED BY <1>12, <2>2, <3>1 DEF KillerThread, KillerKills
  <2> QED BY <1>12, <2>1, <2>2 DEF KillerThread, timeout_killer, KillerReads, KillerDetaches,
             KillerFailsToDetach, KillerCancelled, KillerTimesOut, KillerInterrupted
<1>13. CASE Passage
  BY <1>13, <1>a, <1>b DEF Passage, Tick, ClockRuns, NoStamp
<1>14. CASE UNCHANGED vars
  BY <1>14
<1> QED BY <1>1, <1>2, <1>3, <1>4, <1>5, <1>6, <1>7, <1>8, <1>9, <1>10, <1>11, <1>12, <1>13,
           <1>14
        DEF SessionStep, Judger

-----------------------------------------------------------------------------
(* The killer.                                                             *)

(* A quotient by a second, times a second, falls short by less than one.   *)
LEMMA QuotientBelow ==
  ASSUME NEW a \in Nat
  PROVE  a \div Second \in Nat /\ a \div Second <= a /\ (a \div Second) * Second > a - Second
BY WordAssumption

(* The killer sleeps longer than its limit.                                *)
LEMMA SleepsBeyond ==
  ASSUME NEW t \in Int, t >= -IntBound, t + Second < IntBound
  PROVE  SleepTicks(t) \in Nat /\ SleepTicks(t) > t
<1> DEFINE a == t + Second
           q == CDiv(a, Second)
<1>0. IntBound \in Nat /\ Second \in Nat /\ Second > 0 /\ IntBound > 0 /\ a \in Int
  BY WordAssumption
<1>1. ToInt(a) = a
  <2>1. 0 <= a + IntBound /\ a + IntBound < 2 * IntBound
    BY <1>0
  <2>2. (a + IntBound) % (2 * IntBound) = a + IntBound
    BY <1>0, <2>1
  <2> QED BY <1>0, <2>2 DEF ToInt
<1>2. CASE a >= 0
  <2>1. q \in Nat /\ q <= a /\ q * Second > a - Second
    BY <1>0, <1>2, QuotientBelow DEF CDiv
  <2> HIDE DEF q
  <2>2. q < 2 * IntBound
    BY <1>0, <2>1
  <2>3. ToUnsigned(q) = q
    BY <1>0, <2>1, <2>2 DEF ToUnsigned
  <2>4. SleepTicks(t) = q * Second
    BY <1>1, <2>3 DEF SleepTicks, q
  <2> QED BY <1>0, <2>1, <2>4
<1>3. CASE a < 0
  <2>1. SleepTicks(t) \in Nat
    BY SleepTyped
  <2> QED BY <1>0, <1>3, <2>1
<1> QED BY <1>0, <1>2, <1>3

(* KillerInv is preserved, if the killer reads its argument in time.       *)
LEMMA KillerKept ==
  ASSUME TypeOK, ChainInv, ClockInv, KillerInv, SessionStep, StaleReads = {}
  PROVE  KillerInv'
<1> UNCHANGED inputVars
  BY DEF SessionStep
<1>0. /\ clock \in Int /\ clock <= MaxClock /\ clock >= -1 /\ MaxClock \in Nat
      /\ sleepLeft \in Nat
      /\ rctxt \in Limits
  BY ProcessAssumption DEF TypeOK, NoStamp
<1>a. /\ rctxt.real_time \in Int /\ rctxt.real_time < MaxClock
      /\ SleepTicks(rctxt.real_time) \in Nat
      /\ SleepTicks(rctxt.real_time) > rctxt.real_time
  BY <1>0, LimitAssumption, SleepsBeyond DEF LimitRecord
<1> USE DEF KillerInv, tctxt
<1>1. ASSUME UNCHANGED <<killerVars, obit>>, clock' = clock PROVE KillerInv'
  BY <1>1
<1>2. CASE timer_after_fork
  <2>1. killer = "none"
    BY <1>2, HookPlace DEF timer_after_fork, ClockInv, Unstarted
  <2> QED BY <1>2, <2>1 DEF timer_after_fork
<1>3. CASE start_killer_after_fork
  BY <1>3 DEF start_killer_after_fork, ClockInv, Unstarted
<1>4. CASE stop_killer_after_wait
  BY <1>4 DEF stop_killer_after_wait
<1>5. CASE WaitpidFails
  BY <1>5, DieNow DEF WaitpidFails, killpg
<1>6. CASE KillerThread
  <2>1. UNCHANGED clock
    BY <1>6 DEF KillerThread
  <2>2. killer # "none" => clock >= 0
    BY <1>0 DEF ClockInv, NoStamp
  <2>3. CASE KillerReads(sub = "created") /\ UNCHANGED procVars
    BY <2>3 DEF KillerReads
  <2>4. CASE KillerDetaches(sub = "joining") /\ UNCHANGED procVars
    BY <1>0, <1>a, <2>1, <2>2, <2>4 DEF KillerDetaches
  <2>5. CASE KillerFailsToDetach /\ UNCHANGED procVars
    BY <2>5 DEF KillerFailsToDetach
  <2>6. CASE KillerCancelled /\ UNCHANGED procVars
    BY <2>6 DEF KillerCancelled
  <2>7. CASE KillerTimesOut /\ UNCHANGED procVars
    <3>1. clock > rctxt.real_time
      BY <1>0, <1>a, <2>7 DEF KillerTimesOut
    <3> QED BY <2>1, <2>7, <3>1 DEF KillerTimesOut
  <2>8. CASE KillerInterrupted /\ UNCHANGED procVars
    BY <2>8 DEF KillerInterrupted
  <2>9. CASE KillerKills
    <3>1. killer = "timed_out" \/ killer = "aborting"
      BY <2>9 DEF KillerKills
    <3>2. \A p \in Procs : obit'[p].by = "timeout" =>
             \/ obit'[p] = obit[p]
             \/ /\ killer = "timed_out" /\ obit'[p].when = clock
                /\ obit'[p].st = Signaled("SIGKILL")
      BY <2>9, <3>1, DieNow DEF KillerKills, killpg
    <3>3. killer = "timed_out" => rctxt.real_time # RSC_UNLIMITED
      BY DEF ClockInv
    <3> QED BY <2>1, <2>9, <3>2, <3>3 DEF KillerKills
  <2> QED BY <1>6, <2>3, <2>4, <2>5, <2>6, <2>7, <2>8, <2>9 DEF KillerThread, timeout_killer
<1>7. CASE Passage
  <2>1. killer = "sleeping" => clock # NoStamp
    BY DEF ClockInv
  <2> QED BY <1>7, <1>0, <1>a, <2>1 DEF Passage, Tick, ClockRuns, KillerSleeps, NoStamp
<1>8. CASE (\E ok \in BOOLEAN : Create(ok)) \/ compile_policy_before_fork
           \/ init_result_before_fork \/ Fork \/ WaitReady \/ start_killer_returns \/ Waitpid
           \/ timer_after_wait \/ get_usage_after_wait \/ join_killer \/ analyze_after_wait
           \/ Finish \/ UNCHANGED vars
  BY <1>1, <1>8
     DEF Create, compile_policy_before_fork, init_result_before_fork, Fork, WaitReady,
         start_killer_returns, Waitpid, timer_after_wait, get_usage_after_wait, join_killer,
         analyze_after_wait, Finish
<1> QED BY <1>2, <1>3, <1>4, <1>5, <1>6, <1>7, <1>8 DEF SessionStep, Judger

(* CancelInv is preserved.                                                 *)
LEMMA CancelKept ==
  ASSUME TypeOK, ChainInv, ClockInv, CancelInv, SessionStep
  PROVE  CancelInv'
<1> UNCHANGED inputVars
  BY DEF SessionStep
<1> DEFINE Stopping == \/ pc = "after_wait" /\ todo \in {<<"analyze">>, <<>>}
                       \/ pc = "returned" /\ ret = 0
<1>0. KillerStopped <=> Stopping
  BY DEF KillerStopped, Decided, Judged, Measuring
<1>0p. (KillerStopped <=> Stopping)'
  BY DEF KillerStopped, Decided, Judged, Measuring
<1> USE DEF CancelInv
<1>1. CASE \E ok \in BOOLEAN : Create(ok)
  BY <1>1, <1>0p DEF Create, Return, E_PIPE, E_ARGC
<1>2. CASE compile_policy_before_fork \/ init_result_before_fork \/ timer_after_fork
  <2>1. pc \notin {"after_wait", "returned"}
    BY <1>2, HookPlace DEF compile_policy_before_fork, init_result_before_fork, timer_after_fork
  <2>2. ~Stopping' /\ UNCHANGED cancelReq /\ (sub' = sub \/ sub' = "entry")
    BY <1>2, <2>1 DEF compile_policy_before_fork, init_result_before_fork, timer_after_fork,
                      HookDone, Return, E_ERROR, E_POL_IDT, E_KAFEL, E_FCNTL
  <2> QED BY <1>0p, <2>2
<1>3. CASE Fork \/ WaitReady \/ WaitpidFails
  BY <1>3, <1>0p DEF Fork, WaitReady, WaitpidFails, Goto, Return, StartChain, ChainDone,
                     E_FORK, E_CHILD, E_WAIT
<1>4. CASE start_killer_after_fork \/ start_killer_returns
  <2>1. pc' = "after_fork"
    BY <1>4, HookPlace DEF start_killer_after_fork, start_killer_returns, HookDone, HookAt
  <2>2. UNCHANGED cancelReq /\ (sub' \in {"cancelled", "joining"} => sub' = sub)
    BY <1>4 DEF start_killer_after_fork, start_killer_returns, HookDone, HookAt
  <2> QED BY <1>0p, <2>1, <2>2
<1>5. CASE Waitpid
  <2>1. todo' = <<"end_timer", "get_usage", "stop_killer", "analyze">>
    BY <1>5, BuiltinChains DEF Waitpid, StartChain, ChainDone, ChainInv
  <2>2. pc' = "after_wait" /\ UNCHANGED <<cancelReq, sub>>
    BY <1>5 DEF Waitpid, StartChain
  <2> QED BY <1>0p, <2>1, <2>2, ChainsDiffer
<1>6. CASE timer_after_wait \/ get_usage_after_wait
  <2>1. \/ pc' = "returned" /\ ret' # 0
        \/ /\ pc' = "after_wait"
           /\ \/ todo' = <<"get_usage", "stop_killer", "analyze">>
              \/ todo' = <<"stop_killer", "analyze">>
    <3>1. CASE timer_after_wait
      BY <3>1, HookPlace DEF timer_after_wait, HookDone
    <3>2. CASE get_usage_after_wait
      <4>1. Hook("get_usage") /\ (HookDone \/ Return(E_GETRUSAGE))
        BY <3>2 DEF get_usage_after_wait
      <4>2. pc = "after_wait" /\ Tail(todo) = <<"stop_killer", "analyze">>
        BY <4>1, HookPlace
      <4>3. Return(E_GETRUSAGE) => pc' = "returned" /\ ret' # 0
        BY DEF Return, E_GETRUSAGE
      <4>4. HookDone => pc' = "after_wait" /\ todo' = <<"stop_killer", "analyze">>
        BY <4>2 DEF HookDone
      <4> QED BY <4>1, <4>3, <4>4
    <3> QED BY <1>6, <3>1, <3>2
  <2>2. UNCHANGED cancelReq /\ sub' = "entry"
    BY <1>6 DEF timer_after_wait, get_usage_after_wait, HookDone, Return
  <2> QED BY <1>0p, <2>1, <2>2, ChainsDiffer
<1>7. CASE stop_killer_after_wait
  <2>1. \/ /\ sub' = "cancelled" /\ cancelReq'
        \/ /\ rctxt.real_time = RSC_UNLIMITED \/ tid = NoTid
           /\ sub' = "entry" /\ killer' = killer
    BY <1>7 DEF stop_killer_after_wait, HookDone, HookAt
  <2> QED BY <2>1 DEF ClockInv
<1>8. CASE join_killer
  <2>1. cancelReq /\ cancelReq'
    BY <1>8 DEF join_killer
  <2> QED BY <2>1
<1>9. CASE analyze_after_wait \/ Finish
  <2>1. Stopping
    BY <1>9, HookPlace DEF analyze_after_wait, Finish, ChainDone
  <2> QED BY <1>9, <1>0, <2>1 DEF analyze_after_wait, Finish, HookDone, Return
<1>10. CASE KillerThread
  <2>1. killer' \in {"none", "gone"} \/ killer \notin {"none", "gone"}
    BY <1>10 DEF KillerThread, timeout_killer, KillerReads, KillerDetaches,
             KillerFailsToDetach, KillerCancelled, KillerTimesOut, KillerInterrupted, KillerKills
  <2>2. UNCHANGED <<cancelReq, judgerVars>>
    BY <1>10 DEF KillerThread, timeout_killer, KillerReads, KillerDetaches,
             KillerFailsToDetach, KillerCancelled, KillerTimesOut, KillerInterrupted, KillerKills
  <2> QED BY <1>0, <1>0p, <2>1, <2>2
<1>11. CASE Passage \/ UNCHANGED vars
  BY <1>11, <1>0, <1>0p DEF Passage, Tick
<1> QED BY <1>1, <1>2, <1>3, <1>4, <1>5, <1>6, <1>7, <1>8, <1>9, <1>10, <1>11
        DEF SessionStep, Judger

-----------------------------------------------------------------------------
(* The measures and the verdict.                                           *)

(* ReapInv is preserved; once reaped, the child and its obituary are as    *)
(* they are.                                                               *)
LEMMA ReapKept ==
  ASSUME TypeOK, ChainInv, ReapInv, SessionStep
  PROVE  /\ ReapInv'
         /\ at[Direct] = "reaped" => at'[Direct] = "reaped" /\ obit'[Direct] = obit[Direct]
         /\ at[Direct] # "reaped" /\ at'[Direct] = "reaped" => Waitpid
<1> DEFINE Kept == /\ ReapInv'
                   /\ at[Direct] = "reaped" =>
                        at'[Direct] = "reaped" /\ obit'[Direct] = obit[Direct]
                   /\ at[Direct] # "reaped" /\ at'[Direct] = "reaped" => Waitpid
<1> SUFFICES Kept
  OBVIOUS
<1>0. Direct \in Procs /\ at \in [Procs -> ChildPoints]
  BY ProcessAssumption DEF TypeOK
<1> USE DEF ReapInv
<1>1. CASE \E ok \in BOOLEAN : Create(ok)
  BY <1>1 DEF Create, Return
<1>2. ASSUME NEW name, HookStep(name), UNCHANGED <<at, obit, status>> PROVE Kept
  BY <1>2, HookPlace DEF HookStep, HookDone, HookAt, Return
<1>3. CASE Fork
  BY <1>3, <1>0 DEF Fork, Goto, Return, ChainDone
<1>4. CASE WaitReady
  BY <1>4 DEF WaitReady, StartChain, Return
<1>5. CASE Waitpid
  BY <1>5, <1>0 DEF Waitpid, StartChain, ChainDone
<1>6. ASSUME NEW by, killpg(Direct, by) \/ killpg(karg.pid, by)
      PROVE  /\ at[Direct] = "reaped" => at'[Direct] = "reaped" /\ obit'[Direct] = obit[Direct]
             /\ at[Direct] # "reaped" => at'[Direct] # "reaped"
             /\ \A p \in Procs : obit'[p].st.how = "exited" =>
                                   obit'[p].st = Exited(obit'[p].st.code)
  <2>1. PICK D, st : D \subseteq {p \in group : Live(p)} /\ Die(D, st, by) /\ st = Signaled("SIGKILL")
    BY <1>6 DEF killpg, Members
  <2>2. at[Direct] = "reaped" => Direct \notin D
    BY <2>1 DEF Live
  <2> QED BY <2>1, <2>2, <1>0, DieNow DEF Signaled
<1>7. CASE WaitpidFails
  BY <1>6, <1>7 DEF WaitpidFails, Return
<1>8. CASE Finish
  BY <1>8 DEF Finish, Return
<1>9. CASE KillerThread
  <2>1. CASE UNCHANGED procVars
    BY <1>9, <2>1 DEF KillerThread
  <2>2. CASE KillerKills
    BY <1>6, <1>9, <2>2 DEF KillerThread, KillerKills
  <2> QED BY <1>9, <2>1, <2>2 DEF KillerThread, timeout_killer
<1>10. CASE Passage \/ UNCHANGED vars
  BY <1>10 DEF Passage, Tick
<1>11. CASE \/ compile_policy_before_fork \/ init_result_before_fork
            \/ timer_after_fork \/ start_killer_after_fork \/ start_killer_returns
            \/ timer_after_wait \/ get_usage_after_wait \/ stop_killer_after_wait
            \/ join_killer \/ analyze_after_wait
  <2>1. UNCHANGED <<at, obit, status>>
    BY <1>11 DEF compile_policy_before_fork, init_result_before_fork, timer_after_fork,
                 start_killer_after_fork, start_killer_returns, timer_after_wait,
                 get_usage_after_wait, stop_killer_after_wait, join_killer, analyze_after_wait
  <2> HIDE DEF Kept
  <2> QED BY <1>2, <1>11, <2>1, HookSteps
<1> HIDE DEF Kept
<1> QED BY <1>1, <1>3, <1>4, <1>5, <1>7, <1>8, <1>9, <1>10, <1>11 DEF SessionStep, Judger

(* What analyze says OK of, and what it says of a program killed too late. *)
LEMMA AnalyzeOK ==
  ASSUME NEW l \in LimitRecord, NEW r \in ResultRecord, r.code = "SE",
         NEW st \in StatusRecord, NEW m \in Nat, analyze(l, r, st, m).code = "OK"
  PROVE  /\ st.how = "exited" /\ st.code = 0
         /\ ~real_tle(l, r) /\ ~cpu_tle(l, r)
         /\ l.actual_memory = RSC_UNLIMITED \/ ToInt(m * KB) <= l.actual_memory
<1> DEFINE q == [r EXCEPT !.real_memory = ToInt(m * KB)]
<1>0. ToInt(m * KB) \in Int
  BY WordAssumption DEF ToInt
<1>1. /\ q \in ResultRecord /\ q.code = "SE" /\ q.real_memory = ToInt(m * KB)
      /\ q.real_time = r.real_time /\ q.cpu_time = r.cpu_time
  BY <1>0 DEF ResultRecord
<1> HIDE DEF q
<1>2. set_signal_status(l, q, st.sig).code # "OK"
  <2>1. set_signal_status(l, q, st.sig).code = signal_code(l, q, st.sig)
    BY <1>1 DEF set_signal_status, ResultRecord
  <2>2. signal_code(l, q, st.sig) # "OK"
    BY <1>1 DEF signal_code
  <2> QED BY <2>1, <2>2
<1>3. set_exitcode_status(l, q, st.code).code = "OK" =>
        st.code = 0 /\ ~real_mle(l, q) /\ ~real_tle(l, q) /\ ~cpu_tle(l, q)
  <2> DEFINE mle == real_mle(l, q)
             tle == real_tle(l, q) \/ cpu_tle(l, q)
  <2>1. set_exitcode_status(l, q, st.code).code =
          CASE st.code # 0                -> "ECE"
            [] st.code = 0 /\ mle         -> "MLE"
            [] st.code = 0 /\ ~mle /\ tle -> "TLE"
            [] OTHER                      -> "OK"
    BY <1>1 DEF set_exitcode_status, ResultRecord
  <2> HIDE DEF mle, tle
  <2>2. set_exitcode_status(l, q, st.code).code = "OK" => st.code = 0 /\ ~mle /\ ~tle
    BY <2>1
  <2> QED BY <2>2 DEF mle, tle
<1>4. st.how = "exited" /\ set_exitcode_status(l, q, st.code).code = "OK"
  BY <1>1, <1>2 DEF analyze, q
<1>5. l.actual_memory \in Int
  BY DEF LimitRecord
<1> QED BY <1>0, <1>1, <1>3, <1>4, <1>5 DEF real_tle, cpu_tle, real_mle

(* The codes that a signal and an exit code may be given.                  *)
LEMMA AnalyzeCodes ==
  ASSUME NEW l \in LimitRecord, NEW r \in ResultRecord, r.code = "SE",
         NEW st \in StatusRecord, NEW m \in Nat
  PROVE  /\ st.how = "signaled" =>
              analyze(l, r, st, m).code \in {"RE", "MLE", "TLE", "OLE", "SE", "DSC"}
         /\ st.how = "exited" /\ st.code = 0 =>
              analyze(l, r, st, m).code \in {"OK", "MLE", "TLE"}
         /\ st.how = "exited" /\ st.code # 0 => analyze(l, r, st, m).code = "ECE"
<1> DEFINE q == [r EXCEPT !.real_memory = ToInt(m * KB)]
<1>1. q \in ResultRecord /\ q.code = "SE"
  <2>1. ToInt(m * KB) \in Int
    BY WordAssumption DEF ToInt
  <2> QED BY <2>1 DEF ResultRecord
<1> HIDE DEF q
<1>2. ASSUME st.how = "signaled"
      PROVE  analyze(l, r, st, m).code \in {"RE", "MLE", "TLE", "OLE", "SE", "DSC"}
  <2>1. set_signal_status(l, q, st.sig).code = signal_code(l, q, st.sig)
    BY <1>1 DEF set_signal_status, ResultRecord
  <2>2. signal_code(l, q, st.sig) \in {"SE", "DSC", "TLE", "RE", "MLE", "OLE"}
    BY <1>1 DEF signal_code
  <2> QED BY <1>2, <2>1, <2>2 DEF analyze, q
<1>3. ASSUME st.how = "exited"
      PROVE  /\ st.code = 0 => analyze(l, r, st, m).code \in {"OK", "MLE", "TLE"}
             /\ st.code # 0 => analyze(l, r, st, m).code = "ECE"
  <2> DEFINE mle == real_mle(l, q)
             tle == real_tle(l, q) \/ cpu_tle(l, q)
             set == set_exitcode_status(l, q, st.code)
  <2>1. set.code = CASE st.code # 0                -> "ECE"
                     [] st.code = 0 /\ mle         -> "MLE"
                     [] st.code = 0 /\ ~mle /\ tle -> "TLE"
                     [] OTHER                      -> "OK"
    BY <1>1 DEF set_exitcode_status, ResultRecord
  <2>2. analyze(l, r, st, m).code = set.code
    BY <1>3 DEF analyze, q
  <2> HIDE DEF mle, tle, set
  <2> QED BY <2>1, <2>2
<1> QED BY <1>2, <1>3

LEMMA AnalyzeTLE ==
  ASSUME NEW l \in LimitRecord, NEW r \in ResultRecord, NEW m \in Nat, real_tle(l, r)
  PROVE  /\ analyze(l, r, Signaled("SIGKILL"), m).code = "TLE"
         /\ analyze(l, r, Signaled("SIGKILL"), m).signal = "SIGKILL"
<1> DEFINE q == [r EXCEPT !.real_memory = ToInt(m * KB)]
<1>1. q \in ResultRecord /\ q.real_time = r.real_time
  <2>1. ToInt(m * KB) \in Int
    BY WordAssumption DEF ToInt
  <2> QED BY <2>1 DEF ResultRecord
<1> HIDE DEF q
<1>2. signal_code(l, q, "SIGKILL") = "TLE"
  BY <1>1 DEF signal_code, real_tle
<1>3. /\ set_signal_status(l, q, "SIGKILL").code = "TLE"
      /\ set_signal_status(l, q, "SIGKILL").signal = "SIGKILL"
  BY <1>1, <1>2 DEF set_signal_status, ResultRecord
<1> QED BY <1>3 DEF analyze, Signaled, q

(* analyze stores neither of the times.                                    *)
LEMMA AnalyzeKeeps ==
  ASSUME NEW l, NEW r \in ResultRecord, NEW st, NEW m
  PROVE  /\ analyze(l, r, st, m).real_time = r.real_time
         /\ analyze(l, r, st, m).cpu_time = r.cpu_time
<1> DEFINE q == [r EXCEPT !.real_memory = ToInt(m * KB)]
<1>1. /\ q.real_time = r.real_time /\ q.cpu_time = r.cpu_time
      /\ DOMAIN q = {"code", "signal", "exit_code", "real_time", "cpu_time", "real_memory"}
  BY DEF ResultRecord
<1> HIDE DEF q
<1>2. /\ set_signal_status(l, q, st.sig).real_time = r.real_time
      /\ set_signal_status(l, q, st.sig).cpu_time = r.cpu_time
  BY <1>1 DEF set_signal_status
<1>3. /\ set_exitcode_status(l, q, st.code).real_time = r.real_time
      /\ set_exitcode_status(l, q, st.code).cpu_time = r.cpu_time
  BY <1>1 DEF set_exitcode_status
<1> QED BY <1>1, <1>2, <1>3 DEF analyze, q

(* The judgement comes to a stage only by the hook that ends the one       *)
(* before, and only the hooks store into the result.                       *)
LEMMA Stages ==
  ASSUME TypeOK, ChainInv, SessionStep
  PROVE  /\ TimeTaken' => TimeTaken \/ timer_after_wait
         /\ UsageTaken' => UsageTaken \/ get_usage_after_wait
         /\ Decided' => Decided \/ analyze_after_wait
<1> DEFINE Final == pc = "returned" /\ ret = 0
           Goal  == /\ TimeTaken' => TimeTaken \/ timer_after_wait
                    /\ UsageTaken' => UsageTaken \/ get_usage_after_wait
                    /\ Decided' => Decided \/ analyze_after_wait
<1> SUFFICES Goal
  OBVIOUS
<1>0. /\ Decided <=> Final \/ (pc = "after_wait" /\ todo = <<>>)
      /\ UsageTaken <=> \/ Decided
                        \/ pc = "after_wait" /\ todo = <<"analyze">>
                        \/ pc = "after_wait" /\ todo = <<"stop_killer", "analyze">>
      /\ TimeTaken <=> \/ UsageTaken
                       \/ pc = "after_wait" /\ todo = <<"get_usage", "stop_killer", "analyze">>
  BY DEF TimeTaken, UsageTaken, KillerStopped, Decided, Judged, Measuring
<1>p. /\ Decided' <=> Final' \/ (pc' = "after_wait" /\ todo' = <<>>)
      /\ UsageTaken' <=> \/ Decided'
                         \/ pc' = "after_wait" /\ todo' = <<"analyze">>
                         \/ pc' = "after_wait" /\ todo' = <<"stop_killer", "analyze">>
      /\ TimeTaken' <=> \/ UsageTaken'
                        \/ pc' = "after_wait" /\ todo' = <<"get_usage", "stop_killer", "analyze">>
  BY DEF TimeTaken, UsageTaken, KillerStopped, Decided, Judged, Measuring
<1>1. ASSUME ~Final', pc' # "after_wait" PROVE Goal
  BY <1>1, <1>p
<1>2. CASE (\E ok \in BOOLEAN : Create(ok)) \/ Fork \/ WaitReady \/ WaitpidFails
  <2>1. ~Final' /\ pc' # "after_wait"
    BY <1>2 DEF Create, Fork, WaitReady, WaitpidFails, Goto, Return, StartChain, ChainDone,
                E_PIPE, E_ARGC, E_FORK, E_CHILD, E_WAIT
  <2> QED BY <1>1, <2>1
<1>3. CASE compile_policy_before_fork \/ init_result_before_fork
  <2>1. pc = "before_fork"
    BY <1>3, HookPlace DEF compile_policy_before_fork, init_result_before_fork
  <2>2. ~Final' /\ pc' # "after_wait"
    BY <1>3, <2>1 DEF compile_policy_before_fork, init_result_before_fork, HookDone, Return,
                      E_ERROR, E_POL_IDT, E_KAFEL, E_FCNTL
  <2> QED BY <1>1, <2>2
<1>4. CASE timer_after_fork \/ start_killer_after_fork \/ start_killer_returns
  <2>1. pc = "after_fork"
    BY <1>4, HookPlace DEF timer_after_fork, start_killer_after_fork, start_killer_returns
  <2>2. ~Final' /\ pc' # "after_wait"
    BY <1>4, <2>1 DEF timer_after_fork, start_killer_after_fork, start_killer_returns,
                      HookDone, HookAt
  <2> QED BY <1>1, <2>2
<1>5. CASE Waitpid
  <2>1. todo' = <<"end_timer", "get_usage", "stop_killer", "analyze">> /\ pc' = "after_wait"
    BY <1>5, BuiltinChains DEF Waitpid, StartChain, ChainDone, ChainInv
  <2> QED BY <2>1, <1>p, ChainsDiffer
<1>6. CASE timer_after_wait
  <2>1. /\ todo' = <<"get_usage", "stop_killer", "analyze">> /\ pc' = "after_wait"
    BY <1>6, HookPlace DEF timer_after_wait, HookDone
  <2> QED BY <1>6, <2>1, <1>p, ChainsDiffer
<1>7. CASE get_usage_after_wait
  <2>1. Hook("get_usage") /\ (HookDone \/ Return(E_GETRUSAGE))
    BY <1>7 DEF get_usage_after_wait
  <2>2. /\ pc = "after_wait" /\ todo = <<"get_usage", "stop_killer", "analyze">>
        /\ Tail(todo) = <<"stop_killer", "analyze">>
    BY <2>1, HookPlace
  <2>3. CASE Return(E_GETRUSAGE)
    <3>1. ~Final' /\ pc' # "after_wait"
      BY <2>3 DEF Return, E_GETRUSAGE
    <3> QED BY <1>1, <3>1
  <2>4. CASE HookDone
    <3>1. todo' = <<"stop_killer", "analyze">> /\ pc' = "after_wait"
      BY <2>2, <2>4 DEF HookDone
    <3> QED BY <1>7, <2>2, <3>1, <1>0, <1>p, ChainsDiffer
  <2> QED BY <2>1, <2>3, <2>4
<1>8. CASE stop_killer_after_wait \/ join_killer
  <2>1. Hook("stop_killer") /\ (HookDone \/ \E point : HookAt(point))
    BY <1>8 DEF stop_killer_after_wait, join_killer
  <2>2. /\ pc = "after_wait" /\ todo = <<"stop_killer", "analyze">> /\ Tail(todo) = <<"analyze">>
    BY <2>1, HookPlace
  <2>3. /\ pc' = "after_wait" /\ (todo' = <<"analyze">> \/ todo' = <<"stop_killer", "analyze">>)
    BY <2>1, <2>2 DEF HookDone, HookAt
  <2> QED BY <2>2, <2>3, <1>0, <1>p, ChainsDiffer
<1>9. CASE analyze_after_wait
  <2>1. /\ pc = "after_wait" /\ todo = <<"analyze">> /\ Tail(todo) = <<>>
        /\ pc' = "after_wait" /\ todo' = <<>>
    BY <1>9, HookPlace DEF analyze_after_wait, HookDone
  <2> QED BY <1>9, <2>1, <1>0
<1>10. CASE Finish
  <2>1. pc = "after_wait" /\ todo = <<>>
    BY <1>10 DEF Finish, ChainDone
  <2> QED BY <2>1, <1>0
<1>11. CASE KillerThread \/ Passage \/ UNCHANGED vars
  <2>1. UNCHANGED <<pc, todo, ret>>
    BY <1>11 DEF KillerThread, Passage
  <2> QED BY <2>1, <1>0, <1>p
<1> HIDE DEF Goal
<1> QED BY <1>2, <1>3, <1>4, <1>5, <1>6, <1>7, <1>8, <1>9, <1>10, <1>11
        DEF SessionStep, Judger

LEMMA Stores ==
  ASSUME SessionStep
  PROVE  /\ \/ UNCHANGED result
            \/ init_result_before_fork \/ timer_after_wait \/ get_usage_after_wait
            \/ analyze_after_wait
         /\ UNCHANGED rusage \/ get_usage_after_wait
         /\ UNCHANGED status \/ Waitpid
BY DEF SessionStep, Judger, Create, compile_policy_before_fork, init_result_before_fork, Fork,
       WaitReady, timer_after_fork, start_killer_after_fork, start_killer_returns, Waitpid,
       WaitpidFails, timer_after_wait, get_usage_after_wait, stop_killer_after_wait,
       join_killer, analyze_after_wait, Finish, KillerThread, Passage

(* The code is that of init_result until analyze is done.                  *)
CodeUnset == \/ pc \in {"wait_ready", "after_fork"}
             \/ pc = "before_fork" /\ todo = <<>>
             \/ pc = "after_wait" /\ todo # <<>>

LEMMA CodeKept ==
  ASSUME TypeOK, ChainInv, CodeUnset => result.code = "SE", SessionStep
  PROVE  CodeUnset' => result'.code = "SE"
<1>0. result \in ResultRecord
  BY DEF TypeOK
<1> USE DEF CodeUnset
<1>1. CASE init_result_before_fork
  BY <1>0, <1>1 DEF init_result_before_fork, ResultRecord
<1>2. CASE timer_after_wait \/ get_usage_after_wait
  <2>1. result'.code = result.code
    BY <1>0, <1>2 DEF timer_after_wait, get_usage_after_wait, ResultRecord
  <2>2. pc = "after_wait" /\ todo # <<>>
    BY <1>2, HookPlace DEF timer_after_wait, get_usage_after_wait, Hook
  <2> QED BY <2>1, <2>2
<1>3. CASE analyze_after_wait
  <2>1. pc' = "after_wait" /\ todo' = <<>>
    BY <1>3, HookPlace DEF analyze_after_wait, HookDone
  <2> QED BY <2>1
<1>4. CASE UNCHANGED result
  <2>1. CASE \E ok \in BOOLEAN : Create(ok)
    BY <2>1, BuiltinChains, ChainsDiffer DEF Create, Return, TypeOK
  <2>2. CASE compile_policy_before_fork
    <3>1. pc = "before_fork" /\ Tail(todo) = <<"init_result">>
      BY <2>2, HookPlace DEF compile_policy_before_fork
    <3>2. HookDone \/ \E e : Return(e)
      BY <2>2 DEF compile_policy_before_fork
    <3> QED BY <3>1, <3>2, ChainsDiffer DEF HookDone, Return
  <2>3. CASE \/ timer_after_fork \/ start_killer_after_fork \/ start_killer_returns
             \/ stop_killer_after_wait \/ join_killer
    <3>1. /\ pc \in {"after_fork", "after_wait"} /\ todo # <<>> /\ pc' = pc
      BY <2>3, HookPlace DEF timer_after_fork, start_killer_after_fork, start_killer_returns,
         stop_killer_after_wait, join_killer, HookDone, HookAt, Hook
    <3> QED BY <3>1, <1>4
  <2>4. CASE Fork \/ WaitReady \/ Waitpid \/ WaitpidFails \/ Finish
    BY <1>4, <2>4 DEF Fork, WaitReady, Waitpid, WaitpidFails, Finish, Goto, Return, StartChain,
                      ChainDone
  <2>5. CASE KillerThread \/ Passage \/ UNCHANGED vars
    BY <2>5, <1>4 DEF KillerThread, Passage
  <2> QED BY <1>1, <1>2, <1>3, <2>1, <2>2, <2>3, <2>4, <2>5 DEF SessionStep, Judger
<1> QED BY <1>1, <1>2, <1>3, <1>4, Stores

(* A number that fits an int is stored as it is.                           *)
LEMMA ToIntFits == ASSUME NEW n \in Nat, n < IntBound PROVE ToInt(n) = n
<1>0. IntBound \in Nat
  BY WordAssumption
<1>1. 0 <= n + IntBound /\ n + IntBound < 2 * IntBound
  BY <1>0
<1>2. (n + IntBound) % (2 * IntBound) = n + IntBound
  BY <1>0, <1>1
<1> QED BY <1>0, <1>2 DEF ToInt

(* MeasureInv is preserved.                                                *)
LEMMA MeasureKept ==
  ASSUME TypeOK, ChainInv, ClockInv, ReapInv, MeasureInv, SessionStep
  PROVE  MeasureInv'
<1>0. /\ result \in ResultRecord /\ Direct \in Procs
      /\ obit[Direct].when \in Int /\ obit[Direct].cpu \in Nat /\ obit[Direct].maxrss \in Nat
      /\ past.cpu \in Nat /\ past.maxrss \in Nat
  BY ProcessAssumption, SessionAssumption DEF TypeOK, ObitRecord, NoStamp
<1>1. TimeTaken' => ~Waitpid
  <2>1. Waitpid => todo' = <<"end_timer", "get_usage", "stop_killer", "analyze">>
                   /\ pc' = "after_wait"
    BY BuiltinChains DEF Waitpid, StartChain, ChainDone, ChainInv
  <2> QED BY <2>1, ChainsDiffer DEF TimeTaken, UsageTaken, KillerStopped, Decided, Judged,
                                    Measuring
<1>2. TimeTaken' /\ at'[Direct] = "reaped" =>
        at[Direct] = "reaped" /\ obit'[Direct] = obit[Direct]
  BY <1>1, ReapKept
<1>3. UsageTaken' => TimeTaken'
  BY DEF TimeTaken
<1>4. ASSUME TimeTaken', ~timer_after_wait PROVE result'.real_time = result.real_time
  <2>1. ~init_result_before_fork
    <3>1. init_result_before_fork => pc = "before_fork"
      BY HookPlace DEF init_result_before_fork
    <3> QED BY <3>1, <1>4, Stages
            DEF TimeTaken, UsageTaken, KillerStopped, Decided, Judged, Measuring
  <2>2. get_usage_after_wait => result'.real_time = result.real_time
    BY <1>0 DEF get_usage_after_wait, ResultRecord
  <2>3. analyze_after_wait => result'.real_time = result.real_time
    BY <1>0, AnalyzeKeeps DEF analyze_after_wait
  <2> QED BY <1>4, <2>1, <2>2, <2>3, Stores
<1>5. ASSUME TimeTaken', at'[Direct] = "reaped" PROVE result'.real_time >= obit'[Direct].when
  <2>1. CASE timer_after_wait
    <3>0. clock \in Nat /\ clock < IntBound
      <4>1. pc = "after_wait" /\ ~Unstarted
        BY <2>1, HookPlace DEF timer_after_wait, Unstarted
      <4>2. clock \in 0..MaxClock
        BY <4>1 DEF TypeOK, ClockInv
      <4> QED BY <4>2, ProcessAssumption, LimitAssumption, WordAssumption
    <3>1. result'.real_time = clock
      BY <1>0, <2>1, <3>0, ToIntFits DEF timer_after_wait, ResultRecord
    <3> QED BY <1>0, <1>2, <1>5, <3>1 DEF ClockInv
  <2>2. CASE ~timer_after_wait
    BY <1>2, <1>4, <1>5, <2>2, Stages DEF MeasureInv
  <2> QED BY <2>1, <2>2
<1>6. /\ UsageTaken' => result'.cpu_time = ToInt(rusage'.cpu)
      /\ UsageTaken' /\ at'[Direct] = "reaped" =>
           rusage'.cpu >= obit'[Direct].cpu /\ rusage'.maxrss >= obit'[Direct].maxrss
  <2>1. CASE UsageTaken' /\ get_usage_after_wait
    <3>1. rusage' = ChildrenUsage /\ result'.cpu_time = ToInt(rusage'.cpu)
      <4>1. ~Return(E_GETRUSAGE)
        BY <2>1 DEF UsageTaken, KillerStopped, Decided, Judged, Measuring, Return, E_GETRUSAGE
      <4> QED BY <1>0, <2>1, <4>1 DEF get_usage_after_wait, ResultRecord
    <3>2. at[Direct] = "reaped" =>
            rusage'.cpu >= obit[Direct].cpu /\ rusage'.maxrss >= obit[Direct].maxrss
      BY <1>0, <3>1 DEF ChildrenUsage
    <3> QED BY <1>2, <1>3, <2>1, <3>1, <3>2
  <2>2. CASE UsageTaken' /\ ~get_usage_after_wait
    <3>1. UsageTaken /\ UNCHANGED rusage
      BY <2>2, Stages, Stores
    <3>2. result'.cpu_time = result.cpu_time
      <4>1. init_result_before_fork => pc = "before_fork"
        BY HookPlace DEF init_result_before_fork
      <4>2. ~init_result_before_fork
        BY <4>1, <3>1 DEF UsageTaken, KillerStopped, Decided, Judged, Measuring
      <4>3. timer_after_wait => result'.cpu_time = result.cpu_time
        BY <1>0 DEF timer_after_wait, ResultRecord
      <4>4. analyze_after_wait => result'.cpu_time = result.cpu_time
        BY <1>0, AnalyzeKeeps DEF analyze_after_wait
      <4> QED BY <2>2, <4>2, <4>3, <4>4, Stores
    <3> QED BY <1>2, <1>3, <2>2, <3>1, <3>2 DEF MeasureInv
  <2> QED BY <2>1, <2>2
<1>7. CodeUnset' => result'.code = "SE"
  BY CodeKept DEF CodeUnset, MeasureInv
<1> QED BY <1>5, <1>6, <1>7 DEF MeasureInv, CodeUnset

(* OKInv is preserved.                                                     *)
LEMMA OKKept ==
  ASSUME TypeOK, ChainInv, ReapInv, MeasureInv, OKInv, SessionStep
  PROVE  OKInv'
<1> UNCHANGED inputVars
  BY DEF SessionStep
<1>0. /\ Direct \in Procs /\ obit[Direct] \in ObitRecord
      /\ rctxt \in LimitRecord /\ result \in ResultRecord
      /\ status \in StatusRecord /\ rusage.maxrss \in Nat /\ rusage.cpu \in Nat
  BY ProcessAssumption, LimitAssumption DEF TypeOK
<1>1. SUFFICES ASSUME Decided', result'.code = "OK"
               PROVE  /\ at'[Direct] = "reaped" /\ obit'[Direct].st = Exited(0)
                      /\ UsageFits' =>
                           /\ rctxt.real_time # RSC_UNLIMITED =>
                                obit'[Direct].when <= rctxt.real_time
                           /\ rctxt.cpu_time # RSC_UNLIMITED =>
                                obit'[Direct].cpu <= rctxt.cpu_time
                           /\ rctxt.actual_memory # RSC_UNLIMITED =>
                                obit'[Direct].maxrss * KB <= rctxt.actual_memory
  BY DEF OKInv
<1>2. CASE Decided /\ ~analyze_after_wait
  <2>1. pc \in {"after_wait", "returned"} /\ (pc = "after_wait" => todo = <<>>)
    BY <1>2 DEF Decided, Judged, Measuring
  <2>2. ~init_result_before_fork /\ ~timer_after_wait /\ ~get_usage_after_wait
    <3>1. \A name : Hook(name) => FALSE
      BY <2>1 DEF Hook
    <3> QED BY <3>1 DEF init_result_before_fork, timer_after_wait, get_usage_after_wait
  <2>3. UNCHANGED <<result, rusage>>
    BY <1>2, <2>2, Stores
  <2>4. at'[Direct] = "reaped" /\ obit'[Direct] = obit[Direct]
    BY <1>1, <1>2, <2>3, ReapKept DEF OKInv
  <2>5. UsageFits' <=> UsageFits
    BY <2>3 DEF UsageFits
  <2> QED BY <1>1, <1>2, <2>3, <2>4, <2>5 DEF OKInv
<1>3. CASE analyze_after_wait
  <2>1. pc = "after_wait" /\ todo = <<"analyze">>
    BY <1>3, HookPlace DEF analyze_after_wait
  <2>2. UsageTaken /\ TimeTaken
    BY <2>1 DEF TimeTaken, UsageTaken, KillerStopped, Measuring
  <2>3. result.code = "SE"
    BY <2>1, ChainsDiffer DEF MeasureInv
  <2>4. /\ analyze(rctxt, result, status, rusage.maxrss).code = "OK"
        /\ UNCHANGED <<at, obit, rusage>>
    BY <1>1, <1>3 DEF analyze_after_wait
  <2>5. /\ status.how = "exited" /\ status.code = 0
        /\ ~real_tle(rctxt, result) /\ ~cpu_tle(rctxt, result)
        /\ \/ rctxt.actual_memory = RSC_UNLIMITED
           \/ ToInt(rusage.maxrss * KB) <= rctxt.actual_memory
    BY <1>0, <2>3, <2>4, AnalyzeOK
  <2>6. at[Direct] = "reaped" /\ status = obit[Direct].st
    BY <2>1, <2>5 DEF ReapInv, Stopped
  <2>7. obit[Direct].st = Exited(0)
    BY <1>0, <2>5, <2>6 DEF ReapInv
  <2>8. rctxt.real_time # RSC_UNLIMITED => obit[Direct].when <= rctxt.real_time
    <3>1. obit[Direct].when \in Int /\ result.real_time \in Int /\ rctxt.real_time \in Int
      BY <1>0, ProcessAssumption DEF ObitRecord, NoStamp, ResultRecord, LimitRecord
    <3>2. result.real_time >= obit[Direct].when
      BY <2>2, <2>6 DEF MeasureInv
    <3> QED BY <2>5, <3>1, <3>2 DEF real_tle
  <2>9. UsageFits /\ rctxt.cpu_time # RSC_UNLIMITED => obit[Direct].cpu <= rctxt.cpu_time
    <3>1. obit[Direct].cpu \in Int /\ rctxt.cpu_time \in Int
      BY <1>0 DEF ObitRecord, LimitRecord
    <3>2. UsageFits => ToInt(rusage.cpu) = rusage.cpu
      BY <1>0, WordAssumption, ToIntFits DEF UsageFits
    <3>3. result.cpu_time = ToInt(rusage.cpu) /\ rusage.cpu >= obit[Direct].cpu
      BY <2>2, <2>6 DEF MeasureInv
    <3> QED BY <1>0, <2>5, <3>1, <3>2, <3>3 DEF cpu_tle
  <2>10. UsageFits /\ rctxt.actual_memory # RSC_UNLIMITED =>
           obit[Direct].maxrss * KB <= rctxt.actual_memory
    <3>1. obit[Direct].maxrss \in Nat /\ rctxt.actual_memory \in Int /\ KB \in Nat
      BY <1>0, WordAssumption DEF ObitRecord, LimitRecord
    <3>2. rusage.maxrss * KB \in Nat /\ obit[Direct].maxrss * KB \in Nat
      BY <1>0, <3>1
    <3>3. UsageFits => ToInt(rusage.maxrss * KB) = rusage.maxrss * KB
      BY <3>2, ToIntFits DEF UsageFits
    <3>4. rusage.maxrss >= obit[Direct].maxrss
      BY <2>2, <2>6 DEF MeasureInv
    <3>5. rusage.maxrss * KB >= obit[Direct].maxrss * KB
      BY <1>0, <3>1, <3>4
    <3> QED BY <2>5, <3>1, <3>2, <3>3, <3>5
  <2>11. UsageFits' <=> UsageFits
    BY <2>4 DEF UsageFits
  <2> QED BY <2>4, <2>6, <2>7, <2>8, <2>9, <2>10, <2>11
<1> QED BY <1>1, <1>2, <1>3, Stages

(* TLEInv is preserved.                                                    *)
LEMMA TLEKept ==
  ASSUME TypeOK, ChainInv, ReapInv, MeasureInv, KillerInv, TLEInv, SessionStep
  PROVE  TLEInv'
<1> UNCHANGED inputVars
  BY DEF SessionStep
<1>0. /\ Direct \in Procs /\ obit[Direct] \in ObitRecord
      /\ rctxt \in LimitRecord /\ result \in ResultRecord /\ rusage.maxrss \in Nat
  BY ProcessAssumption, LimitAssumption DEF TypeOK
<1>1. SUFFICES ASSUME Decided', at'[Direct] = "reaped", obit'[Direct].by = "timeout"
               PROVE  result'.code = "TLE" /\ result'.signal = "SIGKILL"
  BY DEF TLEInv
<1>2. pc \in {"after_wait", "returned"}
  <2>1. analyze_after_wait => pc = "after_wait"
    BY HookPlace DEF analyze_after_wait
  <2> QED BY <1>1, <2>1, Stages DEF Decided, Judged, Measuring
<1>3. at[Direct] = "reaped" /\ obit'[Direct] = obit[Direct]
  <2>1. ~Waitpid
    BY <1>2 DEF Waitpid, ChainDone
  <2> QED BY <1>1, <2>1, ReapKept
<1>4. CASE Decided /\ ~analyze_after_wait
  <2>1. \A name : ~Hook(name)
    BY <1>4 DEF Hook, Decided, Judged, Measuring
  <2>2. ~init_result_before_fork /\ ~timer_after_wait /\ ~get_usage_after_wait
    BY <2>1 DEF init_result_before_fork, timer_after_wait, get_usage_after_wait
  <2>3. UNCHANGED result
    BY <1>4, <2>2, Stores
  <2> QED BY <1>1, <1>3, <1>4, <2>3 DEF TLEInv
<1>5. CASE analyze_after_wait
  <2>1. pc = "after_wait" /\ todo = <<"analyze">>
    BY <1>5, HookPlace DEF analyze_after_wait
  <2>2. TimeTaken
    BY <2>1 DEF TimeTaken, UsageTaken, KillerStopped, Measuring
  <2>3. status = Signaled("SIGKILL")
    BY <1>0, <1>1, <1>3 DEF ReapInv, KillerInv
  <2>4. real_tle(rctxt, result)
    <3>1. obit[Direct].when \in Int /\ result.real_time \in Int /\ rctxt.real_time \in Int
      BY <1>0, ProcessAssumption DEF ObitRecord, NoStamp, ResultRecord, LimitRecord
    <3>2. result.real_time >= obit[Direct].when
      BY <1>3, <2>2 DEF MeasureInv
    <3>3. rctxt.real_time # RSC_UNLIMITED /\ obit[Direct].when > rctxt.real_time
      BY <1>0, <1>1, <1>3 DEF KillerInv
    <3> QED BY <3>1, <3>2, <3>3 DEF real_tle
  <2>5. result' = analyze(rctxt, result, Signaled("SIGKILL"), rusage.maxrss)
    BY <1>5, <2>3 DEF analyze_after_wait
  <2> QED BY <1>0, <2>4, <2>5, AnalyzeTLE
<1> QED BY <1>1, <1>4, <1>5, Stages

-----------------------------------------------------------------------------
(* The pipe.                                                               *)

(* Reading takes READY from the pipe, never puts it there; FAILED is not   *)
(* READY.                                                                  *)
LEMMA ReadyMoves ==
  ASSUME TypeOK
  PROVE  /\ p_run # <<>> /\ Head(p_run) = "READY" => ReadySent
         /\ p_run # <<>> /\ p_run' = Tail(p_run) /\ ReadySent' => ReadySent
         /\ p_run' = Append(p_run, "FAILED") /\ ReadySent' => ReadySent
<1>0. p_run \in Seq({"FAILED", "READY"})
  BY DEF TypeOK
<1>1. p_run # <<>> /\ Head(p_run) = "READY" => ReadySent
  BY <1>0 DEF ReadySent
<1>2. ASSUME p_run # <<>>, p_run' = Tail(p_run), ReadySent' PROVE ReadySent
  <2>1. PICK i \in 1..Len(Tail(p_run)) : Tail(p_run)[i] = "READY"
    BY <1>2 DEF ReadySent
  <2>2. i + 1 \in 1..Len(p_run) /\ p_run[i + 1] = "READY"
    BY <1>0, <1>2, <2>1
  <2> QED BY <2>2 DEF ReadySent
<1>3. ASSUME p_run' = Append(p_run, "FAILED"), ReadySent' PROVE ReadySent
  <2>1. PICK i \in 1..Len(Append(p_run, "FAILED")) : Append(p_run, "FAILED")[i] = "READY"
    BY <1>3 DEF ReadySent
  <2>2. i \in 1..Len(p_run) /\ p_run[i] = "READY"
    BY <1>0, <2>1
  <2> QED BY <2>2 DEF ReadySent
<1> QED BY <1>1, <1>2, <1>3

(* Reading takes FAILED from the pipe, never puts it there.                *)
LEMMA FailedMoves ==
  ASSUME TypeOK
  PROVE  /\ p_run # <<>> /\ Head(p_run) # "READY" => FailedSent
         /\ p_run # <<>> /\ p_run' = Tail(p_run) /\ FailedSent' => FailedSent
         /\ p_run' = Append(p_run, "READY") /\ FailedSent' => FailedSent
         /\ UNCHANGED p_run => (FailedSent' <=> FailedSent)
<1>0. p_run \in Seq({"FAILED", "READY"})
  BY DEF TypeOK
<1>1. p_run # <<>> /\ Head(p_run) # "READY" => FailedSent
  BY <1>0 DEF FailedSent
<1>2. ASSUME p_run # <<>>, p_run' = Tail(p_run), FailedSent' PROVE FailedSent
  <2>1. PICK i \in 1..Len(Tail(p_run)) : Tail(p_run)[i] = "FAILED"
    BY <1>2 DEF FailedSent
  <2>2. i + 1 \in 1..Len(p_run) /\ p_run[i + 1] = "FAILED"
    BY <1>0, <1>2, <2>1
  <2> QED BY <2>2 DEF FailedSent
<1>3. ASSUME p_run' = Append(p_run, "READY"), FailedSent' PROVE FailedSent
  <2>1. PICK i \in 1..Len(Append(p_run, "READY")) : Append(p_run, "READY")[i] = "FAILED"
    BY <1>3 DEF FailedSent
  <2>2. i \in 1..Len(p_run) /\ p_run[i] = "FAILED"
    BY <1>0, <2>1
  <2> QED BY <2>2 DEF FailedSent
<1>4. UNCHANGED p_run => (FailedSent' <=> FailedSent)
  BY DEF FailedSent
<1> QED BY <1>1, <1>2, <1>3, <1>4

-----------------------------------------------------------------------------
(* The children.                                                           *)

(* All the invariant asks of a step of the children: that they die now, of *)
(* something other than the killer, and are not reaped.                    *)
ChildrenStep ==
  /\ UNCHANGED <<inputVars, threadVars, ctxtVars, killerVars, clock>>
  /\ at'[Direct] = "reaped" <=> at[Direct] = "reaped"
  /\ \A p \in Procs :
       \/ obit'[p] = obit[p]
       \/ /\ at[p] # "reaped"
          /\ obit'[p].when = clock /\ obit'[p].by # "timeout"
          /\ obit'[p].st.how = "exited" => obit'[p].st = Exited(obit'[p].st.code)

LEMMA ChildrenKeep ==
  ASSUME TypeOK, SessionInv, ChildrenStep
  PROVE  SessionInv'
<1>0. Direct \in Procs /\ clock \in Int /\ \A p \in Procs : obit[p].when \in Int
  BY ProcessAssumption DEF TypeOK, NoStamp, ObitRecord
<1>1. at[Direct] = "reaped" => at'[Direct] = "reaped" /\ obit'[Direct] = obit[Direct]
  BY <1>0 DEF ChildrenStep
<1>2. at'[Direct] = "reaped" => at[Direct] = "reaped"
  BY DEF ChildrenStep
<1> DEFINE same == UNCHANGED <<inputVars, threadVars, ctxtVars, killerVars, clock>>
<1>3. same
  BY DEF ChildrenStep
<1>4. ChainInv'
  BY <1>3 DEF SessionInv, ChainInv
<1>5. ClockInv'
  <2>1. \A p \in Procs : obit'[p].when <= clock
    BY <1>0 DEF ChildrenStep, SessionInv, ClockInv
  <2> QED BY <1>3, <2>1 DEF SessionInv, ClockInv, Unstarted
<1>6. CancelInv'
  BY <1>3 DEF SessionInv, CancelInv, KillerStopped, Decided, Judged, Measuring
<1>7. ReapInv'
  BY <1>1, <1>2, <1>3 DEF SessionInv, ReapInv, ChildrenStep
<1>8. MeasureInv'
  BY <1>1, <1>2, <1>3
     DEF SessionInv, MeasureInv, TimeTaken, UsageTaken, KillerStopped, Decided, Judged, Measuring
<1>9. OKInv'
  BY <1>1, <1>3 DEF SessionInv, OKInv, UsageFits, Decided, Judged, Measuring
<1> QED BY <1>4, <1>5, <1>6, <1>7, <1>8, <1>9 DEF SessionInv

LEMMA ChildrenKeepTimely ==
  ASSUME TypeOK, TimelyInv, ChildrenStep
  PROVE  TimelyInv'
<1>0. Direct \in Procs
  BY ProcessAssumption
<1>1. at'[Direct] = "reaped" => at[Direct] = "reaped" /\ obit'[Direct] = obit[Direct]
  BY <1>0 DEF ChildrenStep
<1>2. UNCHANGED <<inputVars, threadVars, ctxtVars, killerVars, clock>>
  BY DEF ChildrenStep
<1>3. KillerInv'
  BY <1>2 DEF TimelyInv, KillerInv, ChildrenStep, tctxt
<1>4. TLEInv'
  BY <1>1, <1>2 DEF TimelyInv, TLEInv, Decided, Judged, Measuring
<1> QED BY <1>3, <1>4 DEF TimelyInv

(* The invariant holds at first and is preserved by the judger's side.     *)
LEMMA SessionInitInv == ASSUME SessionInit PROVE SessionInv /\ TimelyInv
<1> USE DEF SessionInit, ProcInit, KillerInit, NoObit, NoStamp
<1>0. Direct \in Procs
  BY ProcessAssumption
<1>1. ~Decided /\ ~KillerStopped /\ ~UsageTaken /\ ~TimeTaken
  BY DEF Decided, KillerStopped, UsageTaken, TimeTaken, Judged, Measuring
<1>2. ChainInv /\ CancelInv /\ OKInv /\ TLEInv
  BY <1>1 DEF ChainInv, CancelInv, OKInv, TLEInv
<1>3. ClockInv
  BY DEF ClockInv, Unstarted
<1>4. ReapInv /\ MeasureInv
  BY <1>0, <1>1 DEF ReapInv, MeasureInv
<1>5. KillerInv
  BY DEF KillerInv
<1> QED BY <1>2, <1>3, <1>4, <1>5 DEF SessionInv, TimelyInv

LEMMA SessionKeeps == ASSUME TypeOK, SessionInv, SessionStep PROVE SessionInv'
BY ChainKept, ClockKept, CancelKept, ReapKept, MeasureKept, OKKept DEF SessionInv

LEMMA SessionKeepsTimely ==
  ASSUME TypeOK, SessionInv, TimelyInv, SessionStep, StaleReads = {} PROVE TimelyInv'
BY KillerKept, TLEKept DEF SessionInv, TimelyInv

(* What the invariant is for.                                              *)
LEMMA SessionPromises ==
  /\ SessionInv => NeverFalseOK /\ KillerNotForgotten
  /\ SessionInv /\ TimelyInv => NoEarlyKill /\ TimeoutBlamed
<1>1. Judged => Decided /\ KillerStopped
  BY DEF Decided, KillerStopped
<1>2. SessionInv => NeverFalseOK
  BY <1>1 DEF SessionInv, OKInv, NeverFalseOK
<1>3. SessionInv => KillerNotForgotten
  BY <1>1 DEF SessionInv, CancelInv, KillerNotForgotten
<1>4. TimelyInv => NoEarlyKill
  BY DEF TimelyInv, KillerInv, NoEarlyKill
<1>5. TimelyInv => TimeoutBlamed
  BY <1>1 DEF TimelyInv, TLEInv, TimeoutBlamed
<1> QED BY <1>2, <1>3, <1>4, <1>5

=============================================================================
