------------------------------- MODULE Frontend -------------------------------
(***************************************************************************)
(* kafel/src: from the text of a policy to the rules for one architecture  *)
(* (kafel.c, context.c, includes.c, parser.y, lexer.l, policy.c and the    *)
(* first half of range_rules.c).  The text is taken as the list of its     *)
(* statements; names are strings that are only compared.                   *)
(***************************************************************************)
EXTENDS Expressions, Syscalls, RangeRules

CONSTANTS MAX_INCLUDE_DEPTH,   \* 16 in the code
          MAX_COMPILES         \* how often a context is compiled; bounds the runs

ASSUME FrontendConstants == MAX_INCLUDE_DEPTH \in Nat /\ MAX_COMPILES \in Nat \ {0}
ASSUME TableNumbers ==
  \A k \in DOMAIN Archs : \A x \in DOMAIN syscalls_lookup[Archs[k]] :
    NrOf(Archs[k], x) \in 0..MAX_SYSCALL_NR

VARIABLES source,      \* the input: [main, files, archs]
          compiles,    \* calls of kafel_compile so far
          result,      \* what the last call returned, or why it failed
          buffers,     \* flex's stack of inputs: what is left of each
          includes,    \* includes_ctxt.stack: the files being read
          seen,        \* a statement has been parsed
          policies,    \* ctxt->policies in order of registration; "@main" is main_policy
          constants,   \* ctxt->constants
          used,        \* the policies whose flag used is set
          work         \* stack of add_policy_rules: <<policy, entry, filter>>, last is current

frontVars == <<compiles, result, buffers, includes, seen, policies, constants, used, work>>

NoAction == 0
ACTION_BASIC_MAX == 5   \* KILL, ALLOW, LOG, KILL_PROCESS, USER_NOTIF are 1..5
ACTION_KILL  == 1
ACTION_ALLOW == 2
ACTION_TRAP  == 65536
ACTION_ERRNO == 131072
ACTION_TRACE == 262144
DATA_MAX     == 65535

Use(p)              == [type |-> "USE", used |-> p]
Act(action, fs)     == [type |-> "ACTION", action |-> action, filters |-> fs]
ById(x)             == [type |-> "ID", id |-> x]
ByNumber(n)         == [type |-> "CUSTOM", nr |-> n]
Filter(call, expr)  == [syscall |-> call, declared |-> FALSE, args |-> <<>>, expr |-> expr]
Declared(call, args, expr) == [syscall |-> call, declared |-> TRUE, args |-> args, expr |-> expr]

(* The texts that the grammar of parser.y admits: their statements, and    *)
(* what these are made of.  An expression that is too deep is so by one:   *)
(* the parser does not come to what is above it.                           *)
PolicyNames == STRING \ {"@main"}
ActionSpecs == ((1..ACTION_BASIC_MAX) \X {0})
               \cup ({ACTION_TRAP, ACTION_ERRNO, ACTION_TRACE} \X Nat)
SyscallIds  == [type : {"ID"}, id : STRING] \cup [type : {"CUSTOM"}, nr : Nat]
FilterSpecs == [syscall : SyscallIds, declared : BOOLEAN, args : Seq(STRING),
                expr : {NULL} \cup ExprsTo[MAX_EXPRESSION_DEPTH + 1]]
EntrySpecs  == [type : {"USE"}, used : PolicyNames]
               \cup [type : {"ACTION"}, action : ActionSpecs, filters : Seq(FilterSpecs)]
Statement   == [kind : {"const"}, name : STRING, value : Nat]
               \cup [kind : {"policy"}, name : PolicyNames, entries : Seq(EntrySpecs)]
               \cup [kind : {"statements"}, entries : Seq(EntrySpecs)]
               \cup [kind : {"default"}, action : ActionSpecs]
               \cup [kind : {"include"}, file : STRING]
IsText(t) ==
  /\ t.main \in Seq(Statement)
  /\ \A f \in DOMAIN t.files : t.files[f] \in Seq(Statement)
  /\ \A a \in t.archs : \E k \in DOMAIN Archs : Archs[k] = a

Finish(r) == result' = r /\ stage' = "done"

-----------------------------------------------------------------------------
(* The semantic actions of parser.y *)

(* An operand that names a constant is the constant's value. *)
ParsedExpr(e) ==
  LET Operand[x \in Exprs] ==
        CASE x.type \in Binaries -> Binary(x.type, Operand[x.left], Operand[x.right])
          [] x.type = "NOT" -> Unary(Operand[x.child])
          [] x.type = "IDENTIFIER" /\ x.id \in DOMAIN constants -> Number(constants[x.id])
          [] OTHER -> x
  IN IF e = NULL THEN NULL ELSE Operand[e]

(* syscall_id: a constant's value is taken for a number before the name is *)
(* taken for a system call; it is cut to the width of a number.            *)
ParsedCall(c) ==
  IF c.type = "CUSTOM" THEN ByNumber(c.nr % (MAX_SYSCALL_NR + 1))
  ELSE IF c.id \in DOMAIN constants THEN ByNumber(constants[c.id] % (MAX_SYSCALL_NR + 1))
  ELSE c

ParsedFilter(f) == [f EXCEPT !.syscall = ParsedCall(@), !.expr = ParsedExpr(@)]
ParsedEntry(e) ==
  IF e.type = "USE" THEN e
  ELSE [type |-> "ACTION", action |-> e.action[1] + e.action[2],
        filters |-> [k \in DOMAIN e.filters |-> ParsedFilter(e.filters[k])]]
Parsed(entries) == [k \in DOMAIN entries |-> ParsedEntry(entries[k])]

(* What the actions refuse: too deep an expression, too many or repeated   *)
(* arguments, data that does not fit an action, an unknown policy.         *)
Registered(name) == \E k \in DOMAIN policies : policies[k].name = name
AcceptsAction(a) == a[2] <= DATA_MAX
AcceptsFilter(f) ==
  /\ f.expr \in {NULL} \cup Exprs
  /\ Len(f.args) <= SYSCALL_MAX_ARGS
  /\ \A k, m \in DOMAIN f.args : f.args[k] = f.args[m] => k = m
AcceptsEntry(e) ==
  IF e.type = "USE" THEN Registered(e.used)
  ELSE AcceptsAction(e.action) /\ \A k \in DOMAIN e.filters : AcceptsFilter(e.filters[k])
Accepts(entries) == \A k \in DOMAIN entries : AcceptsEntry(entries[k])

Body(name) == policies[CHOOSE k \in DOMAIN policies : policies[k].name = name].entries
AddEntries(entries) ==
  IF Registered("@main")
  THEN [k \in DOMAIN policies |-> IF policies[k].name = "@main"
                                  THEN [policies[k] EXCEPT !.entries = @ \o Parsed(entries)]
                                  ELSE policies[k]]
  ELSE Append(policies, [name |-> "@main", entries |-> Parsed(entries)])

-----------------------------------------------------------------------------
(* The constants of the compilation before are kept.                       *)
Compile_keepsConstants ==
  /\ stage \in {"idle", "done"} /\ compiles < MAX_COMPILES /\ includes = <<>>
  /\ compiles' = compiles + 1
  /\ policies' = <<>> /\ default_action' = NoAction
  /\ result' = "none"
  /\ buffers' = <<source.main>> /\ seen' = FALSE
  /\ stage' = "parse"
  /\ UNCHANGED <<constants, includes, used, work, rules, i, j, toAdd>>

(* kafel_compile: kafel_ctxt_reset, then parse.  A context whose last call *)
(* failed inside an included file is not compiled again: reset leaves the  *)
(* stack of includes as it is, and flex would pop its only buffer.         *)
Compile ==
  /\ stage \in {"idle", "done"} /\ compiles < MAX_COMPILES /\ includes = <<>>
  /\ compiles' = compiles + 1
  /\ policies' = <<>> /\ constants' = <<>> /\ default_action' = NoAction
  /\ result' = "none"
  /\ buffers' = <<source.main>> /\ seen' = FALSE
  /\ stage' = "parse"
  /\ UNCHANGED <<includes, used, work, rules, i, j, toAdd>>

Top == buffers[Len(buffers)]
Rest == [buffers EXCEPT ![Len(buffers)] = Tail(@)]
Reading(kind) == stage = "parse" /\ Top # <<>> /\ Head(Top).kind = kind

(* The statement is done with, or the parser gives up (YYERROR). *)
Next1 == buffers' = Rest /\ seen' = TRUE /\ UNCHANGED <<stage, result>>
GiveUp == Finish("parse") /\ UNCHANGED <<buffers, seen>>

DefineConst ==
  LET s == Head(Top)
      known == s.name \in DOMAIN constants
  IN /\ Reading("const")
     /\ IF known /\ constants[s.name] # s.value
        THEN GiveUp /\ UNCHANGED constants
        ELSE /\ constants' = [x \in DOMAIN constants \cup {s.name} |->
                                IF x = s.name THEN s.value ELSE constants[x]]
             /\ Next1
     /\ UNCHANGED <<compiles, includes, policies, default_action, used, work, rules, i, j, toAdd>>

DefinePolicy ==
  LET s == Head(Top)
  IN /\ Reading("policy")
     /\ IF Accepts(s.entries) /\ ~Registered(s.name)
        THEN /\ policies' = Append(policies, [name |-> s.name, entries |-> Parsed(s.entries)])
             /\ Next1
        ELSE GiveUp /\ UNCHANGED policies
     /\ UNCHANGED <<compiles, includes, constants, default_action, used, work, rules, i, j, toAdd>>

MainStatements ==
  LET s == Head(Top)
  IN /\ Reading("statements")
     /\ IF Accepts(s.entries)
        THEN policies' = AddEntries(s.entries) /\ Next1
        ELSE GiveUp /\ UNCHANGED policies
     /\ UNCHANGED <<compiles, includes, constants, default_action, used, work, rules, i, j, toAdd>>

DefaultAction ==
  LET s == Head(Top)
  IN /\ Reading("default")
     /\ IF AcceptsAction(s.action) /\ default_action = NoAction
        THEN default_action' = s.action[1] + s.action[2] /\ Next1
        ELSE GiveUp /\ UNCHANGED default_action
     /\ UNCHANGED <<compiles, includes, policies, constants, used, work, rules, i, j, toAdd>>

(* A file may be included however deep.                                    *)
Include_unbounded ==
  /\ Reading("include")
  /\ IF Head(Top).file \in DOMAIN source.files
     THEN /\ includes' = Append(includes, Head(Top).file)
          /\ buffers' = Append(Rest, source.files[Head(Top).file])
          /\ UNCHANGED <<stage, result, seen>>
     ELSE GiveUp /\ UNCHANGED includes
  /\ UNCHANGED <<compiles, policies, constants, default_action, used, work, rules, i, j, toAdd>>

(* push_include: refused when too deep or when no search path has the file *)
Include ==
  LET s == Head(Top)
  IN /\ Reading("include")
     /\ IF Len(includes) < MAX_INCLUDE_DEPTH /\ s.file \in DOMAIN source.files
        THEN /\ includes' = Append(includes, s.file)
             /\ buffers' = Append(Rest, source.files[s.file])
             /\ UNCHANGED <<stage, result, seen>>
        ELSE GiveUp /\ UNCHANGED includes
     /\ UNCHANGED <<compiles, policies, constants, default_action, used, work, rules, i, j, toAdd>>

(* <<EOF>>: pop_include, or the end of the program; a program with no      *)
(* statement is a syntax error.                                            *)
EndOfInput ==
  /\ stage = "parse" /\ Top = <<>>
  /\ IF includes # <<>>
     THEN /\ includes' = SubSeq(includes, 1, Len(includes) - 1)
          /\ buffers' = SubSeq(buffers, 1, Len(buffers) - 1)
          /\ UNCHANGED <<stage, result>>
     ELSE /\ IF seen THEN stage' = "validate" /\ UNCHANGED result ELSE Finish("parse")
          /\ UNCHANGED <<includes, buffers>>
  /\ UNCHANGED <<compiles, seen, policies, constants, default_action, used, work,
                 rules, i, j, toAdd>>

Parse == \/ DefineConst \/ DefinePolicy \/ MainStatements \/ DefaultAction
         \/ Include \/ EndOfInput

-----------------------------------------------------------------------------
(* syscall_spec_get_args and syscall_spec_get_syscall_nr *)
SpecArgs(f, arch) ==
  IF f.declared THEN [k \in DOMAIN f.args |-> [name |-> f.args[k], size |-> 8]]
  ELSE IF f.syscall.type = "ID" THEN ArgsOf(arch, f.syscall.id) ELSE <<>>
SpecNr(f, arch) ==
  IF f.syscall.type = "ID" THEN NrOf(arch, f.syscall.id) ELSE f.syscall.nr

(* validate_references: every name in every policy, for every target, even *)
(* in policies that no USE reaches.                                        *)
ValidFilter(f, arch) ==
  /\ f.syscall.type = "ID" => Known(arch, f.syscall.id)
  /\ LET args == SpecArgs(f, arch)
     IN f.expr # NULL => IdentifiersOf(f.expr) \subseteq {args[k].name : k \in DOMAIN args}
ValidReferences(arch) ==
  \A p \in DOMAIN policies : \A k \in DOMAIN policies[p].entries :
    LET e == policies[p].entries[k]
    IN e.type = "ACTION" => \A m \in DOMAIN e.filters : ValidFilter(e.filters[m], arch)

(* target_archs: bit k stands for Archs[k], and the lowest is taken first. *)
TargetArchs ==
  {k \in DOMAIN Archs : Archs[k] \in IF source.archs = {} THEN {DefaultArch} ELSE source.archs}
Lowest(bits) == CHOOSE k \in bits : \A m \in bits : k <= m

-----------------------------------------------------------------------------
(* add_filters: the rule for one filter, or none when it never matches *)
FilterExpr(f, arch) ==
  IF f.expr = NULL THEN NULL
  ELSE LET e == Simplify(ResolveIdentifiers(f.expr, SpecArgs(f, arch)))
       IN IF e = True THEN NULL ELSE e

AddFilter(rs, f, action, arch) ==
  LET e    == FilterExpr(f, arch)
      nr   == SpecNr(f, arch)
      cond == [Rule(nr, nr, ACTION_CONDITIONAL) EXCEPT !.exprs = <<Mapping(e, action)>>]
  IN IF e = False THEN rs ELSE AddRule(rs, IF e = NULL THEN Rule(nr, nr, action) ELSE cond)

(* add_policy_rules: the entries in order, a used policy's body in place   *)
(* of its first use; later uses of it are passed over.                     *)
Current == work[Len(work)]
Under   == SubSeq(work, 1, Len(work) - 1)
Ended(at) == at[2] > Len(Body(at[1]))
EntryAt(at) == Body(at[1])[at[2]]
After(at) == <<at[1], at[2] + 1, 1>>

LeaveBody ==
  /\ stage = "entries" /\ work # <<>> /\ Ended(Current)
  /\ work' = Under
  /\ UNCHANGED <<rules, used>>

(* The policy is not marked as used.                                       *)
UsePolicy_unmarked ==
  /\ stage = "entries" /\ work # <<>> /\ ~Ended(Current)
  /\ EntryAt(Current).type = "USE"
  /\ work' = Append(Append(Under, After(Current)), <<EntryAt(Current).used, 1, 1>>)
  /\ UNCHANGED <<rules, used>>

UsePolicy ==
  LET p == EntryAt(Current).used
      next == After(Current)
  IN /\ stage = "entries" /\ work # <<>> /\ ~Ended(Current)
     /\ EntryAt(Current).type = "USE"
     /\ IF p \in used
        THEN work' = Append(Under, next) /\ UNCHANGED used
        ELSE /\ used' = used \cup {p}
             /\ work' = Append(IF Ended(next) THEN Under ELSE Append(Under, next), <<p, 1, 1>>)
     /\ UNCHANGED rules

(* One pass of add_filters' loop; an entry may have no filter.             *)
ActionEntry(arch) ==
  LET e == EntryAt(Current)
      m == Current[3]
  IN /\ stage = "entries" /\ work # <<>> /\ ~Ended(Current)
     /\ e.type = "ACTION"
     /\ rules' = IF e.filters = <<>> THEN rules ELSE AddFilter(rules, e.filters[m], e.action, arch)
     /\ work' = Append(Under, IF m < Len(e.filters) THEN <<Current[1], Current[2], m + 1>>
                              ELSE After(Current))
     /\ UNCHANGED used

(* add_policy_rules has come to its end; normalize_rules begins. *)
RulesComplete == stage = "entries" /\ work = <<>>
=============================================================================
