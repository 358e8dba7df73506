# A TLA+ verification of yaoj-judger

yaoj-judger runs a program under resource limits and a seccomp filter and says how it
ended: `OK`, `TLE`, `MLE`, `RE`, ... Its filters are written in
kafel, a small language whose compiler is part of the repository. This directory holds TLA+
modules that model the judger, the command line around it and the compiler, TLC
configurations that check them on small instances, and proofs, checked by TLAPS, of the main
safety properties of all three for every value of the constants. Paths below are
relative to the repository (`src/judger/general.c` and so on).

## 1. The system

A judgement is a call of `yjudger_general` or `yjudger_interactive` on a context. It runs
in the caller's thread and involves up to four more actors: a killer thread, the forked
child (general) or interactor (interactive), the executable the interactor forks, and the
clock.

    judger thread --fork--> child / interactor --fork--> executable
       |   ^                     |        ^                  |
       |   +---- p_run (signal) -+        +-- i_run (signal)-+
       +--pthread_create--> killer --sleep, killpg(child's group)
       <------------------ waitpid: termination status, rusage

| component | state | operations | how it interacts |
|---|---|---|---|
| session (`general.c`, `interactive.c`, `hook.c`, `builtin_hook.c`) | the context: hook chains, status, rusage, result, killer's handle | create, run three chains of hooks, fork, wait for READY, waitpid, return | forks the child, reads `p_run`, creates and cancels the killer, kills the group when waitpid fails |
| general judger's child (`general.c`) | its group, files, limits, filter, `yerrno` | setpgid, `runner_prework`, limits, policy, signal, execve | writes `p_run`; its exit status becomes the verdict |
| interactor and executable (`interactive.c`) | as above, and the pipes between the two | as above, a second fork, wait for the executable | `i_run` from executable to interactor, `p_run` from interactor to judger |
| timeout killer (`lib/tkill.c`) | its argument (in its creator's frame), the time left to sleep, detached or not, cancelled or not | read argument, detach, sleep, killpg | created by the `after_fork` chain, cancelled and joined by the `after_wait` chain |
| verdict (`lib/builtin_hook.c`) | result | `init_result`, `analyze_after_wait` | reads what the timer and usage hooks stored |
| limits and usage (`lib/resource.c`) | `rsclim_ctxt` | refuse, setrlimit; getrusage | child; judger |
| policy (`lib/policy.c`) | policy text, compiled filter | set, load builtin, substitute `%Ns`, compile, apply | compiles with kafel before fork, applies in the child |
| context (`helper.c`) | everything above | create, set limit/runner/policy, result, free | the library's interface |
| forked judgement (`general.c:142`) | shared memory | fork, judge, copy the result | wraps a judgement in a process |
| command line (`cli/main.c`) | options, result | parse, judge, report | the only caller in the repository |
| log (`mutex_log.c`) | file, mutex | `flog` | every component |
| kafel's front end (`parser.y`, `lexer.l`, `context.c`, `policy.c`, `includes.c`, `kafel.c`) | policies, constants, default action, stack of inputs | parse statements, include, register, validate, reset | called by `compile_policy_before_fork`; gives rules |
| kafel's range rules (`range_rules.c`) | an array of ranges worked on in place | collect, sort, merge, stretch, count and fill holes | from policies to the code generator |
| kafel's code generator (`codegen.c`, `expression.c`) | BPF buffer written backwards, caches of returns, subtrees | expressions, actions, tree over ranges, architectures | reads normalised rules, gives the program |

What is hard here: a child that is a process of its own from fork on and whose setup must
be known to have succeeded before its exit code means anything; a killer that races the
child's end, the judger's waitpid and its own cancellation; a verdict composed by six hooks
that only work in one order; calls that fail in the middle; hand-shakes over pipes that
never reach end of file; integer arithmetic on seconds, milliseconds and bytes; and a compiler
that merges an array in place and emits code from its end, with jumps of eight bits.

What makes the parts correct:

* session: `OK` is only given to a program that exited with 0 within its limits; the result
  describes the child that ended; a judgement with a real time limit ends; no program is
  left running when a judgement is abandoned;
* hand-shake: the judger times, kills and judges only a child that is in its group, limited
  and confined, and a failed setup is an error of the judgement, never a verdict;
* killer: nobody is killed before the limit; what it kills is the monitored group and is
  reported as TLE; a finished judgement leaves no sleeping killer;
* interactive: neither program starts before both are ready, both end at a timeout;
* command line: what is printed is what was judged, in either process; only the temporary
  folder is removed; the most specific option sets a limit;
* kafel: the program it gives decides every call as the policy means it.

## 2. The modules

| module | models | extends |
|---|---|---|
| `Yerr` | the error codes of `include/yerr.h` that can be returned | |
| `Verdict` | `set_signal_status`, `set_exitcode_status`, `analyze_after_wait`, the killer's rounding to seconds; ints of bounded width | |
| `Processes` | the operating system: processes, one group, death and its record (`obit`), killpg, the judged program, early death, the clock | `Verdict`, `Yerr` |
| `TimeoutKiller` | the thread of `lib/tkill.c` and the passing of time | `Processes` |
| `Session` | the judger's thread: everything `yjudger_general` and `yjudger_interactive` have in common | `TimeoutKiller` |
| `Children` | limits, filter, failure and execve of a forked child | `Session` |
| `GeneralJudger` | the general judger: session, killer and one child composed | `Children` |
| `InteractiveJudger` | the interactive judger: session, killer, interactor and executable composed | `Children` |
| `Judgement` | what a judgement is to its caller; both judgers implement it, `CommandLine` composes it | |
| `CommandLine` | `cli/main.c`, `yjudger_forkexec`, the context's limits, policy and freeing | `Verdict`, `Yerr`; instance of `Judgement` |
| `Expressions` | `kafel/src/expression.c`; what an expression means, as the reference for it | |
| `RangeRules` | `kafel/src/range_rules.c`: sorting and the in-place normalisation, one step per pass of each loop | |
| `Syscalls` | the seven tables of `kafel/src/syscalls`: 2 179 entries | |
| `Frontend` | from the statements of a policy to rules: the parser's actions, includes, validation, `add_policy_rules` | `Expressions`, `Syscalls`, `RangeRules` |
| `Codegen` | `kafel/src/codegen.c`: locations, caches, jumps, loads, comparisons, the tree over ranges; one call of `generate_expr` or `generate_load` per step | `Frontend` |
| `Kafel` | `kafel_compile` as a whole | `Codegen` |
| `Machine` | the kernel's filter machine, one instruction at a time | `Kafel` |
| `Meaning` | what policies and programs mean: the run of a program, the decision of a policy; for the runs only | `Machine` |
| `Session_proofs` | lemmas about the session and its killer, with any children | `Session` |
| `GeneralJudger_proofs` | theorems about `GeneralJudger`: verdict, killer, hand-shake, the child's result; that it leaves no program and implements `Judgement` | `GeneralJudger`, `Session_proofs` |
| `InteractiveJudger_proofs` | theorems about `InteractiveJudger`: verdict, killer, the two hand-shakes, timeouts; that it implements `Judgement` | `InteractiveJudger`, `Session_proofs` |
| `CommandLine_proofs` | theorems about `CommandLine`: its report, its folders and its limits | `CommandLine` |
| `RangeRules_proofs` | theorems about `RangeRules`: what sorting and normalising do to any list of rules | `RangeRules` |
| `Expressions_proofs` | theorems about `Expressions`: that resolving names and simplifying keep what a condition means | `Expressions` |
| `Kafel_proofs` | theorems about `Kafel`: includes, the walk over policies, the rules, the subtrees, the code and its caches | `Kafel`, `Expressions_proofs`, `RangeRules_proofs` |
| `Filter_proofs` | theorems about the code that `Kafel` writes: what its jumps, its code of conditions, its trees of comparisons and its choice of the architecture decide | `Kafel_proofs`, `Machine` |
| `MCGeneral`, `MCInteractive`, `MCCommandLine`, `MCKafel` | instances for TLC | |

How the state corresponds to the code:

* `pc` is where the judger's thread is (`init`, one of the three chains, `wait_ready`,
  `returned`); `todo` is the rest of the hook chain being run, `sub` a point inside a hook
  that takes several steps, `ret` the return value, `Running` (-1) until there is one;
* `hctxt` holds the chains as `register_hook` builds them, head registered last;
* `p_run` and `i_run` are the signals in the pipes;
* `rctxt`, `argc`, `tid`, `status`, `rusage`, `result` are the context's fields of these
  names; `past` is the usage of children this process waited for before;
* `at[p]` is how far process `p` has come between fork and its end; `group`, `limited` and
  `confined` are the processes for which setpgid, setrlimit and seccomp have taken effect;
  `obit[p]` records how, when, by whom and with what usage `p` ended;
* `killer`, `karg`, `sleepLeft`, `cancelReq`, `detached` are the killer thread's.

* in `CommandLine`, `pc` is where `main` is, `judger` what has become of the forked process,
  `pshres` the shared memory, `folders` the directories there are, and `program`, `death`,
  `answer` the judgement's;
* in kafel's modules, `stage` is where `kafel_compile` is; `buffers` and `includes` are flex's
  stack and the context's; `policies` and `constants` are the context's lists; `work` is the
  recursion of `add_policy_rules`, a frame for each policy under way with its entry and the filter of the
  entry that is read next; `used` is the set of policies marked so; `rules`, `i`, `j`, `toAdd` are
  `range_rules.c`'s array (from 1), its two indices and `to_add`; `todo` is what is left of
  `target_archs`, lowest bit first; `code` is `struct codegen_ctxt`, `levels` is `buf` of
  `generate_rules`, `entry` is `begin`. `tasks` is what the recursive calls of `generate_expr` and
  `generate_load` have still to generate, the innermost last, and `next` the location the last of
  these calls returned.

One action is one hook, one library call or one uninterrupted stretch of setup; every early
return is a disjunct of the action it belongs to. `start_killer_after_fork` takes two steps
because the life of its stack frame matters, `stop_killer_after_wait` two because
`pthread_join` may block.

### Modelling choices

* **Faults.** `Faults` names the calls that may fail and the mishaps that may befall a
  child. A call that is not in it succeeds. The calls are nondeterministic, not fair.
* **The judged program** may exit with any code, be ended by any of `Signals`, be stopped
  and continued, or run for ever; its usage is any of `Usages`. It does not leave its
  process group and its own descendants are not modelled.
* **The clock** starts when `timer_after_fork` runs: what happens before is not measured by
  the code either. It goes forward only and stops at `MaxClock`, which lies above every
  limit. The killer's sleep goes on after the clock has stopped.
* **The dangling argument** of the killer thread: until `start_killer_after_fork` returns,
  the thread reads `tctxt`; afterwards it may read `tctxt` or any of `StaleReads`.
* **Cancellation** takes effect in `sleep`, the thread's only cancellation point. Cancelling
  a thread that has ended is taken to have no effect, although its handle is invalid then.
* **Integers** have `IntBound` values on either side of zero, so that conversion and
  truncation (`ToInt`, `ToUnsigned`) can be checked on small words. `LimitAssumption`
  excludes real times for which `time + 1000` overflows, and judgements of 2^31 ms (24 days),
  whose time would not fit `result.real_time`.
* **The result** before `init_result_before_fork` is uninitialised memory, a value of its own.
* **Policies** are one step that may fail; which call a filter kills is part of what a
  program may do (SIGSYS) or an early death.
* **The judgement inside the command line** is any behaviour of `Judgement`, so what is
  checked of `main` holds with either judger.
* **The text of a policy** is the list of its statements as the grammar gives them. Names are
  strings that are compared only; an included file is a function from names to statements.
* **Words** have `WORD` values in place of 2^32, and a 64-bit value is two of them. Arithmetic
  on bits is the real one on these words.
* **Actions of a policy** are the integers of `policy.h`; a returned value stands for the
  return value that `ACTION_TO_BPF` gives it, which differs from action to action. The cache of
  returns with data is a function from actions to locations.
* **Sorting** puts each rule at the place given by how many come before it: priorities are all
  different, so qsort has one result.
* **Expressions** are trees of bounded depth. One that the parser refuses as too deep is so by one level,
  since its operands were accepted.
* **Arguments** narrower than a register are compared with wide operands only for registers
  whose upper word is zero (see `Proper` and section 6).
* **Compiling again** is modelled for a context whose last compilation did not fail inside an
  included file (section 6).
* Wording, logging, error texts and file names are left out.

## 3. What TLC checks

The judgers' instances use a `Second` of 2 ms, ints of a few bits (`IntBound` 8 or 16), a `KB`
of 2 and a clock up to 4 or 5 ms. That is enough for each boundary of the arithmetic: limits
below, at and above a whole second, a sleep that is rounded, processor time and memory on
either side of their limits, negative limits that convert to large unsigned numbers. One
judgement has one child (or a pair) and one killer, so there is nothing to be gained from more
processes.

Kafel's instance has words of two bits (`WORD` 4), so that every comparison of two words has
all its cases, seven as the longest jump, so that jumps run out of reach after a few
instructions, two memory slots, two levels of includes and two compilations of each text. The
texts are families, each aimed at one part of the compiler: every comparison of thirteen
operands (numbers, arguments of both widths, masks, nested masks) with each other, connectives
and negations two deep, three rules at neighbouring, distant, equal and extreme numbers with
either default, lists of up to twenty rules, policies that use one another, every sequence of
three statements out of sixteen, several target architectures, and every name of every table.
`MAX_SYSCALL_NR` is 2^30 - 1 because TLC's integers have 31 bits; only its being the last number
matters.

| run | allows | shows |
|---|---|---|
| `MCGeneral` | every failing call after which the judger is not left waiting; refused and negative limits; too few arguments | `NeverFalseOK`, `NoEarlyKill`, `TimeoutBlamed`, `KillerNotForgotten`, `ResultDescribesChild`, `KillEndsProgram`, `Handshake`, `OnlyConfinedRuns`, `SetupFailureReported`, `NoOrphan`; `TypeOK` and the inductive invariants `SessionInv`, `TimelyInv`, `JudgementInv`; `TerminatesDespiteFaults`; `IsJudgement` |
| `MCInteractive` | every failing call of the two setups, refused limits, a wrong number of arguments | `TimeoutBlamed`, `OnlyConfinedRun`; `PairTerminates`; `IsJudgement` |
| `MCInteractiveChaos` | every fault at once: interrupted reads, no thread, early deaths, stops, unnoticed failures of setpgid and fork | what still holds: `JointStart`, `PairFailureReported`, `TimeoutEndsBoth`, `NeverFalseOK`; the inductive invariant `PairInv` |
| `MCCommandLine` | any judgement, here or forked; failing calls, mmap's included; a forked judger that is killed, stopped, continued; known, unknown, present and missing policies | `VerdictReported`, `NoProgramLeft`, `FoldersKept`, `LimitsMeant` |
| `MCKafel` | the families of policies above | `FilterDecides`, `NormalizedRules`, the inductive invariant `NormalInv`, `RulesBounded`, `LevelsFit`, `CachedReturns`, `IncludesPaired`, `RecompileAgrees`, `KafelTypeOK`; `CompileEnds` |

`NoOrphan`, `IsJudgement` and the liveness properties allow none of `early_death`, `read` and
`pthread_create`, which are the subject of the runs below and of section 6. The Chaos run does
not check for deadlock: with the faults it allows, the judger really may wait for ever. `Over`,
`Returned` and the last disjunct of `CommandLine!Next` let what has returned stutter, so that
deadlock can be checked elsewhere.

**Refinement.** `Judgement` knows one program (`none`, `setup`, `admitted`, `over`, `abandoned`), how
it ended and one answer. `GeneralJudger` maps its child's point, its obituary and the return
value to these, `InteractiveJudger` the interactor's, and `IsJudgement` says that every step of
the whole system is a step of `Judgement` or none. So a verdict fits the end of a program that was
admitted, an error is given only when nothing runs (or by the step that kills it), and an
answer is final. `CommandLine` in turn takes its judgement to be any `Judgement`.

**FilterDecides** runs each compiled program on a small BPF machine, for every target and a foreign
architecture, every number named by the policy and those beside it, the ends of the range and a
set of register contents, and compares the decision with `PolicyDecision`: the policies pasted in
place of each `USE`, the first rule whose expression holds, then the default. That reference knows
nothing of ranges, constant folding, jumps or words. It leaves aside two kinds of program: those with a
jump that did not fit (`MCFarJump`) and those that begin in left-over code: the load of the architecture
falls into it (`MCDeadCode`), or, when nothing is left to be decided, no return is written in front of it
because a return in it can be reached (codegen.c:773). `EntryNewest` says that neither is so; the policies
of both kinds are among the sources of `MCKafel`, where without either half of `EntryNewest` `FilterDecides`
fails.

**Fairness.** Weak fairness of the judger's thread, the killer thread, each child's setup and
the clock: the kernel schedules each of them. Nothing is assumed of the judged programs, so
termination is due to the timeout alone, and it is claimed for a real time limit only. The
compiler is sequential code: during a call some step is taken in the end. `Kafel!Fairness` says
this with the ENABLED of weak fairness written out.

Seven runs are expected to be violated; each shows that the code departs from what its
comments, messages or help text say:

| run | what happens |
|---|---|
| `MCStrayKill` | the killer detaches itself, so `pthread_join` fails at once; woken just before it is cancelled, it calls `killpg` after the child has been reaped and its id is free |
| `MCEarlyDeath` | parent and child both keep the pipe's write end, so `read` never returns when the child dies between its limits and its signal: no timeout is running yet and the judger waits for ever |
| `MCStaleRead` | scheduled after `start_killer_after_fork` has returned, the thread reads a dead stack frame and kills another group |
| `MCOutlives` | once the interactor has ended, the executable runs on with no timeout and nobody to reap it |
| `MCFarJump` | `add_jump` resolves its first target a second time, which may put an instruction in front and the other target out of reach; the distance is cut to eight bits |
| `MCDeadCode` | the load of the architecture is put in front of the instruction written last, also when the last target came to nothing and that instruction is left over from it: calls that the policy allows on the other targets are killed |
| `MCKilledJudger` | `yjudger_forkexec` looks at the exit status of a judger that a signal ended, which is 0, and reports the zeroes of the shared memory: `OK` |

## 4. What is proved

The theorems hold for every choice of the constants that satisfies their assumptions, hence for
every set of faults, limits, signals, usages, every word size and every length of a second. In
`GeneralJudger_proofs`, of the general judger:

| theorem | states | if |
|---|---|---|
| `Typing` | `Spec => []TypeOK` | |
| `SessionSafe` | `Spec => []SessionInv` | |
| `NoFalseOK` | `Spec => []NeverFalseOK` | |
| `KillerDismissed` | `Spec => []KillerNotForgotten` | |
| `KillerTimely` | `Spec => []TimelyInv` | `StaleReads = {}` |
| `NobodyKilledEarly` | `Spec => []NoEarlyKill` | `StaleReads = {}` |
| `TimeoutsAreBlamed` | `Spec => []TimeoutBlamed` | `StaleReads = {}` |
| `HandshakeSafe` | `Spec => []HandshakeInv` | |
| `HandshakeHolds` | `Spec => []Handshake` | |
| `OnlyConfined` | `Spec => []OnlyConfinedRuns` | |
| `FailureReported` | `Spec => []SetupFailureReported` | |
| `KillsTheProgram` | `Spec => []KillEndsProgram` | every pid in `StaleReads` is the child's |
| `AnswerSafe` | `Spec => []JudgementInv` | `Undisturbed` |
| `NoProgramLeft` | `Spec => []NoOrphan` | `Undisturbed` |
| `GeneralIsJudgement` | `Spec => IsJudgement` | `Undisturbed` |
| `ResultIsTheChilds` | `Spec => []ResultDescribesChild` | `Undisturbed`, `FirstJudgement` |

In `InteractiveJudger_proofs`, of the interactive judger:

| theorem | states | if |
|---|---|---|
| `Typing`, `SessionSafe` | `Spec => []TypeOK`, `Spec => []SessionInv` | |
| `NoFalseOK` | `Spec => []NeverFalseOK` | |
| `KillerDismissed` | `Spec => []KillerNotForgotten` | |
| `TimeoutsAreBlamed` | `Spec => []TimeoutBlamed` | `StaleReads = {}` |
| `PairSafe` | `Spec => []PairInv` | |
| `JointlyStarted` | `Spec => []JointStart` | |
| `PairFailuresReported` | `Spec => []PairFailureReported` | |
| `OnlyConfined` | `Spec => []OnlyConfinedRun` | |
| `TimeoutsEndBoth` | `Spec => []TimeoutEndsBoth` | |
| `PairAnswerSafe` | `Spec => []PairAnswerInv` | `Undisturbed` |
| `PairIsJudgement` | `Spec => IsJudgement` | `Undisturbed` |

In `CommandLine_proofs`, of `main` with any `Judgement` behind it:

| theorem | states |
|---|---|
| `VerdictPrinted` | `Spec => []VerdictReported` |
| `NothingRunsOn` | `Spec => []NoProgramLeft` |
| `OnlyTemporaryRemoved` | `Spec => []FoldersKept` |
| `LimitsAsGiven` | `Spec => []LimitsMeant` |

In `RangeRules_proofs`, of `sort_range_rules` and `normalize_rules`:

| theorem | states |
|---|---|
| `SlotsFit` | `NormalSpec(E, A) => []NormalInv` |
| `RangesNormal` | `NormalSpec(E, A) => []NormalizedRules` |
| `DecisionsKept` | `NormalSpec(E, A) /\ rules = R => [](stage = "normalized" =>` the rules decide every call as `R` does`)` |

`NormalSpec(E, A)` starts from any list of rules for one number each, in any order, with expressions from any
set `E` that has the always-taken one and actions from any set `A` (`Parts`), sorts it and takes the steps of
the two loops.

`DecisionsKept` is what the two loops are for. `Decides(rs, K, nr, S, a)` says that the rules of `rs` at the
places `K` give the call number `nr` the action `a` when the expressions in `S` hold: the first rule for `nr`
that is taken decides, the default action when there is none. The invariant is that of the places that still count (`Live`: those up to
`j` and those behind `i` while rules are merged, those up to `i` and the final ones while they are spread, as the places between hold leftovers) the
decision for every number and every `S` is that of the list at the beginning. Each step then needs one of
three lemmas: rules may move and default rules may fill gaps if the rules of one number stay in order
(`Filled`: sorting by priority, stretching, moving up), the first rule for a number may be taken off (`HeadRule`: merging), and mappings
may be put behind one another (`Concatenated`). That the places in between are never read again follows from the
invariant of `SlotsFit`.

In `Kafel_proofs`, of `kafel_compile`, for any text, any number of compilations of it and any number of
rules:

| theorem | states |
|---|---|
| `TextKept` | `Spec => [](TextInv /\ ResultsOK)` |
| `InputsPaired` | `Spec => []IncludesPaired` |
| `PoliciesKept`, `WalkKept` | `Spec => []PolicyInv`, `Spec => []WalkInv` |
| `FiltersReadOnce` | `Spec => []RulesBounded` |
| `RulesKept` | `Spec => []RulesInv` |
| `FirstMatched` | `Spec => [][FirstMatchDecides]_vars` |
| `NormalizedDecides` | `Spec => [][NormalizingDecides]_vars` |
| `SlotsFitTheRules` | `Spec => []NormalInv` |
| `CompiledRangesNormal` | `Spec => []NormalizedRules` |
| `LevelsKept` | `Spec => []LevelsInv` |
| `SubtreesFit` | `Spec => []LevelsFit` |
| `CodeKept` | `Spec => []CodeInv` |
| `CachesHold` | `Spec => []CachedReturns` |
| `KafelTypes` | `Spec => []KafelTypeOK` |

`FirstMatched` and `NormalizedDecides` follow a decision from the policy to the ranges: a filter that is read
decides what matches it and what no filter before it decides (`AppendDecides`), and no step of
`normalize_rules` changes a decision (`StepDecides` of `RangeRules_proofs`).

In `Expressions_proofs`, of every expression, for words of any number of bits and trees of any depth:

| theorem | states |
|---|---|
| `SimplifyKeepsMeaning` | a condition that `expr_simplify` has rewritten holds for the same registers, and reads whole no further short argument |
| `ResolvedConditions` | a condition that `validate_references` lets pass is, with its names resolved, one over the call's arguments |

In `Filter_proofs`, of the code that `codegen.c` writes, run by the machine of `Machine`:

| theorem | states |
|---|---|
| `ArchsOnTheirOwn` | `Spec => []ArchInv` |
| `ForeignKilled` | `Spec => []ForeignDead` |
| `ConditionsCoded` | `Spec => []CourseInv` |
| `TreeKept` | `Spec => []TreeInv` |
| `TargetAnswered` | `Spec => [][TargetSettled]_vars` |
| `AnswersKept` | `Spec => [][SettledStays]_vars` |

The assumptions on the constants are those the modules name: `WordAssumption`,
`ProcessAssumption`, `LimitAssumption`, `StaleAssumption`, `SessionAssumption`, and `OneChild` or
`TwoChildren`; for the command line `CommandLineAssumption` and `OptionsAssumption` (an option is an int
or not given); for kafel `ExpressionConstants`, `MaxSyscallNr`, `WordOfBits` (`WORD` is a power of two), `FrontendConstants`,
`TableNumbers` (the tables' numbers are below the largest) and `CodegenConstants`, which asks for
a `MAX_JUMP` of at least 3 (255 in the code): with less, purging the cache of returns need not make room.
The others exclude behaviours of the code that really refute the theorem:

* `StaleReads = {}`: the killer thread runs before its creator's function returns. `MCStaleRead`
  shows what happens otherwise. `KillsTheProgram` asks for less: the thread may read its argument
  late, and find any time there, but no other process's id.
* `Undisturbed`, of the general judger: the read of the pipe is not interrupted (`general.c:119`: the judger
  would report E_CHILD with the child still to run) and no program is stopped (`general.c:128`:
  `WUNTRACED` ends the wait). Of the interactive judger it also excludes a failed setpgid
  (`interactive.c:90`, unnoticed: a kill would miss the interactor) and a death before the report.
* `FirstJudgement`: the process has not waited for other children, whose usage
  `RUSAGE_CHILDREN` would add (section 6).

None of the properties is inductive. `NeverFalseOK` speaks of a judgement that has returned;
that it holds depends on which hooks have already run, and on what each of them found. The
strengthening is a conjunction:

* `ChainInv`: what is left of a chain is an end of the chain `register_builtin_hook` made, so
  `todo` tells what has been done;
* `ClockInv`: the start time is taken once, before there is a killer, and no death lies in
  the future; so the time the `after_wait` timer stores is not before the child's end;
* `ReapInv`: only waitpid reaps, and the status it stores is the child's own;
* `MeasureInv`: after its hook, each measurement bounds what the child really used, and the
  code is still `SE` until the verdict is reached;
* `CancelInv`: past its hook, the killer is gone or cancelled;
* `OKInv`: the verdict, once reached, is what `NeverFalseOK` says of it;
* `KillerInv` and `TLEInv` (together `TimelyInv`): a sleeping killer's wake-up lies beyond the
  limit, because `SleepTicks(t) > t` for every `t` the assumption admits; a death by timeout
  therefore lies beyond it too, so `real_tle` is true when the verdict is reached;
* `StageInv` and `FailureInv` (with `Handshake`, `HandshakeInv`): what the child has done at each
  point, that READY is in the pipe only after all of it, and that a child that failed never
  sends it;
* `AimInv`: there is no killer before there is a child; with `HandshakeInv`, which puts the child in its
  group whenever there is a killer, a killpg meets every child that is alive, so a killer that ends by
  itself ends the program too (`KillEndsProgram`);
* `AnswerInv` (with `HandshakeInv`, `JudgementInv`): FAILED comes only from a child that is not
  confined and about to exit, the child is reaped when it is measured and judged, and the code
  `analyze` has stored is one a `Judgement` permits for the status it was given;
* `DescribedInv`: the result's signal, exit code, time and memory are those of the child's
  obituary once the hook that stores each has run;
* `PairStageInv`: what each of the pair has done at its point, and that the executable shares
  the interactor's group from its birth; `PairHandshakeInv`: READY in either pipe says that its
  sender, and whoever the sender has waited for, is set up; together `PairInv`;
* `PairTimeoutInv`: a timeout finds both in the group, so it leaves neither of them;
* `PairAnswerInv`: what `AnswerInv` says, of the interactor, with the failure of its setup in
  place of its filter, since an interactor may fail when it is already confined.

For `CommandLine` the strengthening is `LedgerInv`: an answered judgement has no running program
(`AnsweredInv`); nothing is judged before `main` asks for it, and an exited judger has left its
answer in the shared memory (`PlaceInv`); after an orderly end `result`, or what is printed, is that
answer (`ReportInv`). `FolderInv` says that the context's folder is the temporary one exactly when
the policy came from there. `LimitInv` says that once the options are applied the context has the limits they
mean; what the context holds after each option of `OptionOrder` follows one option at a time
(`LimitedInTurn`, `EachSets`), and a product that fits an int is what C computes (`IntsStay`).

For `RangeRules` it is `NormalInv`. Counting how many rules come before each one gives every rule a
place of its own (`Places`), so the list is sorted when the first loop begins. In the first loop the rules up to `j` are in order and disjoint, what
has not been read is sorted and lies beyond them, and `toAdd` is the number of holes among the
rules up to `j`; a hole at `j < i` must be filled at once, in a slot an earlier merge has freed
(`CountInv`). In the second loop the rules from `FirstFinal`, which lies `toAdd` above the next rule, follow
one another to the largest number, and `toAdd` is the number of holes below, the one in front of the
first rule included (`FillInv`); so no rule is written over before it is moved, and the first slot is
free exactly if it is needed.

For `Kafel` it is a chain of invariants, each proved with the ones before it:

* `TextInv`: statements are read from the top of a stack of inputs, one for each included file and one
  for the text;
* `PolicyInv`: the policies have names of their own, use only policies registered before, and what they hold
  is what the parser checks: numbers in range, known names, expressions that are not too deep;
* `WalkInv`: the frames of the walk are in existing entries, name a policy at most once, and all
  but `@main` are marked used; so a policy is entered once;
* `BoundInv`: there are at most as many rules as filters that the walk has passed, and it passes none
  twice (`ReadOf`);
* `RulesInv`: rules are listed while they are collected, then as `NormalInv` has them. Each step of the two loops is the one
  `RangeRules_proofs` is about;
* `LevelsInv`: the heights of the subtrees fall from left to right, the last two may be equal, and a subtree of
  height `h` stands for at least `2^h` ranges that no other stands for. `LevelsFit` follows, whatever sharing of code does to the
  subtrees' locations;
* `CodeInv`: instructions are only added, so a location that has been written stays what it was;
  caches, subtrees and tasks under way hold only actions and written locations; and of any
  `MAX_JUMP` last instructions one is no return (`Rests`), so that there is room after `purge_location_cache`.

For `Expressions_proofs`:

* A function defined by recursion on trees is shown to satisfy its equation at every tree (`ValueIs`, `HoldsIs`,
  `SimplifyIs` and their like), by induction on the depth: the bound on the depth is an assumption of the parser's, and
  its value does not matter.
* `BIT_AND` is defined bit by bit. It commutes, keeps within words and registers, is absorbed by 0 and by itself
  (`BitAndTwice`), and works on the two words of a register separately (`BitsByWord`).
* Operands keep their value (`TermSimplified`), then comparisons, NOT, AND and OR keep whether they hold
  (`ComparisonKept`, `NegationKept`, `ConnectiveKept`). A comparison is one of whole registers only while an operand
  may need one, and folding a long constant away may end that. What the comparison says then stays the same if every short argument in
  it was passed no more than a word: that is `Proper`, and simplifying keeps it.

For `Filter_proofs`:

* An execution is a sequence of machine states that starts at a location and ends at a return
  (`Yields`; `Goes` where the location may stand for an action). Code is written in front of what it
  jumps to, so what an execution does is not changed by what is written later (`YieldsStill`), and a jump goes on
  at one of its two targets if its distances fit (`JumpBranches`).
* `ArchInv`: what has been compiled kills the calls of all but the targets that are done. At first it is the action KILL;
  `FinishArch` puts a comparison with one more architecture in front. With `EntryNewest` the
  finished program starts there (`ProgramsInv`), which gives `ForeignKilled`.
* `CourseInv`: the tasks of `generate_action` that are left promise to lead the call, from any state of
  registers and memory slots, to the action the range has for it. A task's promise (`Link`) says which states it may begin in
  and which it leaves: a branch with an expression, or the comparison of the high words, goes on at one of its two targets,
  `load` leaves a word of an operand in the accumulator and keeps the slots below the one
  it may use (`Loads`), and the promises of the tasks on the stack fit one another (`Chain`). A step of the
  generator takes one task and puts a chain with the same promise in its place (`ExprOnCourse`). A comparison of registers goes by their
  words (`HoldsByWords`), a swapped, negated or masked one to the same places, and an operand that is left out because its word is a
  constant has that word. The invariant speaks of code that fits: no jump too far, and fewer than
  `BPF_MEMWORDS` slots, which the code checks only at the end (`Fits`).
* `Takes` says which action a range has for a call: its own, or that of the first mapping whose expression holds.
  It supposes that expressions are conditions over the call's registers, which is what
  `expr_resolve_identifiers` makes of what the parser accepts (`ResolvedConditions`).
* `TreeInv`: the ranges that have been generated are answered, for any call, by the subtree they lie in;
  neighbouring subtrees are different code, and a tree that is a location and not an action is the
  instruction written last, unless all its ranges have expressions. A range is added by stretching the last subtree to it if that
  one is the same location, otherwise as a subtree of its own; a join puts one comparison in front of two subtrees.
* `TargetAnswered` then adds the load of the number and the comparison with the architecture, and says of the
  action that it is the one the ranges decide (`Decides`, the same operator as in `NormalizedDecides`): the
  ranges leave no number out (`NumberCovered`) and each has an action for every call (`DecidedTakes`). `Agrees` ties the
  expressions that hold to the call's arguments. A
  tree that is an action is taken by the code to mean that every call gets the default: it does, if some range has
  the default action (`DefaultRange`), and only a policy that lists all `MAX_SYSCALL_NR + 1` numbers leaves no such range.
  A tree that is a location is taken to be the instruction written last: it is, if some range has no expressions, and
  again only a policy that lists all numbers can leave none (`TreeTaken`).
* Both properties of programs ask that no jump was too far (`~code.missed`, refuted by `MCFarJump`), and those of the returned
  program also that it starts where its code does (`EntryNewest`, refuted by `MCDeadCode`).

Where an argument goes over numbers (powers of two, places in a list, the depth of a tree), induction is
done on a set of numbers, with the library's theorem for a fixed predicate.

`Session_proofs` shows that every step of the session and of the killer preserves
`SessionInv` and `TimelyInv`, and that any step of the children does which satisfies
`ChildrenStep` (it leaves the judger and the killer alone, never touches a reaped child and
records deaths at the present time). `GeneralJudger_proofs` and `InteractiveJudger_proofs` show
that their children's steps are of this kind, so both judgers share these lemmas. For the two refinements each
step of the implementation is shown to be one step of `Judgement` or a stutter: fork is `Begin`;
the filter (general) or the executable's READY (interactive) is `Admit`; a death is `End`; an early return is
`Refuse`; a failed waitpid, which kills, is `GiveUp`; the end of the last chain is `Judge`.

Only model-checked: the liveness properties (fairness is beyond the prover), `FilterDecides` and
`RecompileAgrees`. `FilterDecides` compares two meanings given by recursion over programs and trees
(`Meaning` declares RECURSIVE operators, which the prover does not support). Proved of it are its parts, for every policy and every call: the list of rules decides as the policy's
filters do, first match first (`FirstMatched`); the ranges decide as the list does
(`NormalizedDecides`); what an expression means is the same after `ResolveIdentifiers` and `Simplify` as before
(`ResolvedConditions`, `SimplifyKeepsMeaning`); the code of a range's expressions, the tree, the choice of
the architecture and what is written later lead a call to the action the ranges decide for it (`ConditionsCoded`,
`TreeKept`, `TargetAnswered`, `AnswersKept`); and foreign architectures are killed (`ForeignKilled`). What is left to TLC is
that these parts, stated with operators of their own, add up to the recursive reference of `Meaning`.
`RecompileAgrees` compares the programs of two calls, so it needs that every step of the compiler is determined by
the state, which relates two behaviours and is no invariant of one.

## 5. What is not modelled, and why

* Repeated judgements of one context or in one process, but for the usage they inherit.
* The `%Ns` identifiers of policies (`policy_identifier_handler`): a replacement in a text.
* An `#include` inside the body of a policy: it is a matter of the lexer (`lexer.l:212`) and may stand
  between any two tokens; `Include` is modelled between statements, where the grammar's lists are.
* Exits of `main` before it has a context: options the parser refuses, a log that cannot be opened.
  Nothing is judged then. The values of `--judger` and `--result` are those `cli.ggo` lists.
* Kafel's tokens and locations, its error texts, its search paths for included files, big-endian
  targets, and the kernel's own checks of a filter beyond its length and memory slots.
* The values passed to setrlimit, and what the kernel does with them, except that a program
  may be ended by a signal at any time.
* The log: the killer does not log, so its mutex is never contended within a judgement.
* Generated code (`cli/cli.c`, which gengetopt makes of `cli.ggo`), build scripts, the texts of the
  builtin policies, kafel's tools, tests and documentation.

## 6. Known behaviours outside the properties

These are as the code has them; the model shows each, but no property claims otherwise.

* `waitpid` is called with `WUNTRACED` (`general.c:128`): a child that is stopped sends the
  judger into its `after_wait` hooks. The verdict is `SE`, the killer is cancelled and the
  child stays behind.
* A failed `pthread_create` (`tkill.c:70`) is logged as a success; the judgement has no timeout.
* `ru_maxrss * KB` is stored in an int (`builtin_hook.c:124`): from 2 GiB on the memory is
  negative and exceeds no limit. Hence the condition `UsageFits` in `NeverFalseOK`.
* `RUSAGE_CHILDREN` (`resource.c:70`) adds up every child the process ever waited for (for the memory, the
  largest): the second judgement of a process reports the first one's time and memory too.
* Signals that the switch of `set_signal_status` does not name (SIGFPE, SIGBUS, SIGILL) leave
  the code at `SE`.
* The interactive judger measures the interactor: the executable's memory and processor time
  are not compared with any limit by the judger.
* Negative real time limits are not refused (`resource.c:26` does not look at `real_time`);
  the killer's sleep is then a conversion to unsigned.
* A judgement without a real time limit has no killer; the clock is the wall clock, which may
  be set (`common.c:79`); both times are cut to int milliseconds before they are subtracted
  (`builtin_hook.c:44`); a program that leaves its group is out of the killer's reach.
* The interactor compares `exec_pid` with 0 only (`interactive.c:97`): when its fork fails it waits
  on its own pipe, and the judger for it, for ever, as in `MCEarlyDeath`.
* Hooks are only ever added (`hook.c:31`) and the killer's handle is static (`tkill.c:60`): a context
  judged twice starts two killers and cancels one.
* `memory_arg * MB` and its like are products of ints (`main.c:49`): 4096 MB are 0, no limit.
* The result is logged before `yerrno` turns it into `SE` (`main.c:96`): a failed judgement may be logged as OK. The command line calls
  `yjudger_ctxt_free` after its exit code is decided, so a removal that fails is not reported.
* An unknown builtin policy leaves the temporary folder behind and no name of it:
  `rmtree_depth1` is then given NULL (`policy.c:55`, `helper.c:184`). A policy file that cannot be
  written leaves the folder behind too (`policy.c:43`). `is_builtin` is never reset, so a context
  given a builtin policy and then a user's would remove the user's folder; `main` sets one policy.
* A forked judger that is stopped is taken for ended (`general.c:161`): `SE` is printed and the
  program runs on. The result of its mmap is not looked at (`general.c:144`): where it fails, the
  judger dies when it stores its verdict, and `main` when it reads it. Where its fork fails, the code goes on to `waitpid(-1)` and `killpg(-1)`.
* `kafel_ctxt_reset` does not empty the stack of includes (`context.c:58`): after a failure inside an
  included file the next compilation pops an input that is not there. An `INPUT_FILE` is not
  rewound, so compiling it again reads nothing.
* The overflow check of `grow_errors_buffer` is the wrong way round (`context.c:116`).
* A 4-byte argument compared with a 64-bit operand is read with its high word (`codegen.c:449`).
* Constants hide arguments and system calls of the same name (`parser.y:311`, `parser.y:417`);
  `SYSCALL[n]` and a constant used as a call are cut to 32 bits.
* A comment that ends in `**/` is not ended (`lexer.l:187`), and one that is not ended in an
  included file is accepted (`lexer.l:195`).

## 7. Plan

1. Several judgements in one process: hooks registered again, the killer's static handle.
2. The `%Ns` identifiers of policies, if a property of their replacement is worth stating.
3. One theorem from a policy to its program, which names for every finished target the ranges its code
   came from; its parts are proved (section 4).
