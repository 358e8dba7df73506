-------------------------------- MODULE Kafel --------------------------------
(***************************************************************************)
(* kafel_compile as a whole: parse, validate, then for each target         *)
(* architecture collect the rules, normalize them and generate their code, *)
(* and finish the program (compile_policy in codegen.c).                   *)
(***************************************************************************)
EXTENDS Codegen

VARIABLES todo,     \* bits of the target architectures still to be compiled
          entry,    \* location where the program starts so far
          programs  \* the programs of the finished compilations

genVars == <<code, tasks, next, levels, done, todo, entry, programs>>
vars == <<source, default_action, normalVars, frontVars, genVars>>

Init ==
  /\ IsText(source)
  /\ stage = "idle" /\ compiles = 0 /\ result = "none"
  /\ buffers = <<>> /\ includes = <<>> /\ seen = FALSE
  /\ policies = <<>> /\ constants = <<>> /\ default_action = NoAction
  /\ used = {} /\ work = <<>>
  /\ rules = <<>> /\ i = 0 /\ j = 0 /\ toAdd = 0
  /\ code = CodegenContext /\ tasks = <<>> /\ next = -ACTION_KILL /\ levels = <<>> /\ done = 0
  /\ todo = {} /\ entry = -ACTION_KILL
  /\ programs = <<>>

(* After an error the parser is entered again.                             *)
Validate_again ==
  /\ stage = "validate"
  /\ stage' = IF \A a \in TargetArchs : ValidReferences(Archs[a])
              THEN "begin" ELSE "parse"
  /\ UNCHANGED <<source, default_action, result, compiles, buffers, includes, seen, policies,
                 constants, used, work, rules, i, j, toAdd, genVars>>

Validate ==
  /\ stage = "validate"
  /\ IF \A a \in TargetArchs : ValidReferences(Archs[a])
     THEN stage' = "begin" /\ UNCHANGED result
     ELSE Finish("reference")
  /\ UNCHANGED <<source, default_action, compiles, buffers, includes, seen, policies, constants,
                 used, work, rules, i, j, toAdd, genVars>>

(* compile_policy_impl: an empty main policy and KILL when none was given. *)
(* Every architecture has an audit number of its own, so the targets are   *)
(* compiled one by one.                                                    *)
BeginCode ==
  /\ stage = "begin"
  /\ policies' = IF Registered("@main") THEN policies
                 ELSE Append(policies, [name |-> "@main", entries |-> <<>>])
  /\ default_action' = IF default_action = NoAction THEN ACTION_KILL ELSE default_action
  /\ todo' = TargetArchs
  /\ code' = CodegenContext /\ entry' = -ACTION_KILL
  /\ stage' = "arch"
  /\ UNCHANGED <<source, compiles, result, buffers, includes, seen, constants, used, work,
                 rules, i, j, toAdd, tasks, next, done, levels, programs>>

(* compile_policy_for_archs: mark_all_policies_unused, add_policy_rules *)
BeginArch ==
  /\ stage = "arch" /\ todo # {}
  /\ rules' = <<>> /\ used' = {} /\ work' = <<<<"@main", 1, 1>>>>
  /\ stage' = "entries"
  /\ UNCHANGED <<source, default_action, compiles, result, buffers, includes, seen, policies,
                 constants, i, j, toAdd, genVars>>

CollectRules ==
  /\ \/ LeaveBody /\ UNCHANGED stage
     \/ UsePolicy /\ UNCHANGED stage
     \/ ActionEntry(Archs[Lowest(todo)]) /\ UNCHANGED stage
     \/ RulesComplete /\ stage' = "sort" /\ UNCHANGED <<work, used, rules>>
  /\ UNCHANGED <<source, default_action, compiles, result, buffers, includes, seen, policies,
                 constants, i, j, toAdd, genVars>>

NormalizeRules ==
  /\ Normalize
  /\ UNCHANGED <<source, default_action, frontVars, genVars>>

BeginRules ==
  /\ stage = "normalized"
  /\ done' = 0 /\ levels' = <<>>
  /\ stage' = "generate"
  /\ UNCHANGED <<source, default_action, frontVars, rules, i, j, toAdd, code, tasks, next, todo, entry,
                 programs>>

GenerateCode ==
  /\ GenerateRules
  /\ UNCHANGED <<source, default_action, frontVars, rules, i, j, toAdd, todo, entry, programs>>

(* The end of generate_rules and of compile_policy_for_archs: code for the *)
(* rules starts by loading the number, no code means that every call gets  *)
(* the default; then a jump to it for the architecture.  What the code     *)
(* asks with next > begin is asked here of the sign: generate_rules gives  *)
(* an action (negative) or a location written since begin was taken.       *)
FinishArch ==
  LET tree   == levels[1].action
      loaded == IF tree >= 0 THEN Added(code, Load("nr")) ELSE At(code, -default_action)
      chosen == IF loaded.loc = -ACTION_KILL THEN At(loaded.c, entry)
                ELSE AddJump(loaded.c, "JEQ", "K", Archs[Lowest(todo)], loaded.loc, entry)
  IN /\ stage = "generate" /\ done = Len(rules) /\ Len(levels) = 1
     /\ code' = chosen.c /\ entry' = chosen.loc
     /\ todo' = todo \ {Lowest(todo)}
     /\ stage' = "arch"
     /\ UNCHANGED <<source, default_action, frontVars, rules, i, j, toAdd, tasks, next, done, levels,
                    programs>>

(* The end of compile_policy_impl *)
FinishCode ==
  LET started  == IF entry >= 0 THEN Add(code, Load("arch")) ELSE code
      complete == IF entry < 0 THEN ResolveLocation(started, entry).c ELSE started
      n        == Len(complete.buf)
  IN /\ stage = "arch" /\ todo = {}
     /\ code' = complete
     /\ IF complete.stack >= BPF_MEMWORDS \/ n > MAX_FILTER
        THEN Finish("size") /\ UNCHANGED programs
        ELSE /\ Finish("ok")
             /\ programs' = Append(programs, [k \in 1..n |-> complete.buf[n + 1 - k]])
     /\ UNCHANGED <<source, default_action, compiles, buffers, includes, seen, policies, constants,
                    used, work, rules, i, j, toAdd, tasks, next, todo, done, levels, entry>>

(* Between two calls the context rests. *)
Returned == stage = "done" /\ UNCHANGED vars

CompileText == (Compile \/ Parse) /\ UNCHANGED <<source, genVars>>

Next == \/ CompileText \/ Validate \/ BeginCode \/ BeginArch \/ CollectRules
        \/ NormalizeRules \/ BeginRules \/ GenerateCode \/ FinishArch \/ FinishCode
        \/ Returned

-----------------------------------------------------------------------------
(* The compiler is sequential code: while a call lasts, some step is taken *)
(* in the end.  This is WF_vars(Next) with its ENABLED written out; that a *)
(* step can be taken whenever a call lasts is the absence of deadlock.     *)
Calling  == stage \notin {"idle", "done"}
Fairness == []<>~Calling \/ []<><<Next>>_vars
Spec == Init /\ [][Next]_vars /\ Fairness

Stages == {"idle", "parse", "validate", "begin", "arch", "entries", "sort", "count", "fill",
           "normalized", "generate", "action", "join", "done"}

(* The variables keep the shape the operators rely on; in particular code  *)
(* goes on only with an action or with an instruction already written.     *)
LocationOK(loc) == loc \in -(2 * ACTION_TRACE)..(Len(code.buf) - 1)
KafelTypeOK ==
  /\ stage \in Stages
  /\ result \in {"none", "parse", "reference", "size", "ok"}
  /\ compiles \in 0..MAX_COMPILES
  /\ default_action \in Nat
  /\ \A k \in DOMAIN rules : /\ rules[k].first \in 0..MAX_SYSCALL_NR
                             /\ rules[k].last \in 0..MAX_SYSCALL_NR
                             /\ rules[k].action \in Nat
  /\ i \in Nat /\ j \in Nat /\ toAdd \in Nat
  /\ done \in Nat /\ (stage \in {"generate", "action", "join"} => done <= Len(rules))
  /\ LocationOK(entry)
  /\ stage \in {"action", "join"} => LocationOK(next)
  /\ stage \in {"generate", "action", "join"} => \A k \in DOMAIN levels : LocationOK(levels[k].action)

(* "ASSERT(pos <= MAX_JUMP)" in resolve_location, and the comment in       *)
(* add_jump that tloc is resolved again because it may have become         *)
(* unreachable: every jump reaches its target.                             *)
JumpsReach == ~code.missed

(* The program starts with the instruction written last ("if (next >       *)
(* begin)" and "if (next < 0)" in compile_policy_impl): the load of the    *)
(* architecture goes in front of it, or a return is written unless there   *)
(* is one.  It should be where the code starts, and is unless the last     *)
(* target left dead code.                                                  *)
EntryNewest ==
  stage = "done" /\ result = "ok" =>
    IF entry >= 0 THEN entry = Len(code.buf) - 2 ELSE code.buf[Len(code.buf)] = Ret(-entry)

(* A policy that is used many times gives its rules once: there are never  *)
(* more rules than filters in the text (the flag used of a policy).        *)
FiltersOf(name) ==
  UNION {{<<name, k, m>> : m \in DOMAIN Body(name)[k].filters} :
           k \in {x \in DOMAIN Body(name) : Body(name)[x].type = "ACTION"}}
AllFilters == UNION {FiltersOf(policies[p].name) : p \in DOMAIN policies}
RulesBounded == stage \in {"entries", "sort"} => Len(rules) <= Cardinality(AllFilters)

(* generate_rules has 33 places in buf: with m ranges done, the subtrees   *)
(* number at most 1 + log2(m), and there are 2^32 ranges at most.          *)
LevelsFit ==
  stage \in {"generate", "action", "join"} /\ levels # <<>> => Pow2[Len(levels) - 1] <= done

(* What the caches say can be jumped to is a return of that action, and    *)
(* the cache of returns with data never overflows (the ASSERT in           *)
(* resolve_action).                                                        *)
Returns(loc, a) == loc + 1 \in DOMAIN code.buf /\ code.buf[loc + 1] = Ret(a)
CachedReturns ==
  /\ Cardinality(DOMAIN code.cache) <= MAX_JUMP
  /\ \A a \in DOMAIN code.basic : code.basic[a] # NOWHERE => Returns(code.basic[a], a)
  /\ \A a \in DOMAIN code.cache : Returns(code.cache[a], a)

(* flex's stack of inputs and the stack of included files go together, and *)
(* a file that includes itself is stopped at MAX_INCLUDE_DEPTH.            *)
IncludesPaired ==
  /\ Len(includes) <= MAX_INCLUDE_DEPTH
  /\ stage = "parse" => Len(buffers) = Len(includes) + 1
  /\ result = "ok" => includes = <<>>

(* Compiling a context again gives the same program: kafel_ctxt_reset      *)
(* leaves nothing behind of the compilation before.                        *)
RecompileAgrees ==
  /\ \A a, b \in DOMAIN programs : programs[a] = programs[b]
  /\ stage = "done" /\ includes = <<>> => Len(programs) \in {0, compiles}

(* Every compilation comes to an end, whatever the text includes or uses.  *)
CompileEnds == stage = "parse" ~> stage = "done"
=============================================================================
