------------------------------- MODULE Codegen -------------------------------
(***************************************************************************)
(* kafel/src/codegen.c: BPF code for the normalized rules.  The code is    *)
(* written backwards, each instruction in front of those it may jump to,   *)
(* and turned round at the end.  A location is the index of a written      *)
(* instruction, or -action for a return that need not be written yet.      *)
(* Its context is a record: buf, the written instructions; basic and       *)
(* cache, the location of the return of an action that can still be jumped *)
(* to; stack, the highest memory slot; missed, whether the distance of a   *)
(* jump did not fit its field.  An action stands for the return value      *)
(* ACTION_TO_BPF gives it, a different one for each.                       *)
(* The functions that call themselves are unfolded: tasks is what the      *)
(* calls under way have still to generate, the last first, and next the    *)
(* location that the call before returned.                                 *)
(***************************************************************************)
EXTENDS Frontend

CONSTANTS MAX_JUMP,       \* 255 in the code, which is also the size of the cache
          BPF_MEMWORDS,   \* 16 in the kernel
          MAX_FILTER      \* USHRT_MAX in the code

ASSUME CodegenConstants == MAX_JUMP \in Nat /\ MAX_JUMP >= 3 /\ BPF_MEMWORDS \in Nat /\ MAX_FILTER \in Nat

VARIABLES code,    \* the context
          tasks,
          next,
          levels,  \* generate_rules' buf: subtrees still to be joined
          done     \* number of rules already generated

NOWHERE == -(16 * ACTION_TRACE)     \* INVALID_LOCATION

CodegenContext == [buf |-> <<>>, basic |-> [a \in 1..ACTION_BASIC_MAX |-> NOWHERE],
                   cache |-> [a \in {} |-> NOWHERE], stack |-> 0, missed |-> FALSE]

CurrentLoc(c)      == Len(c.buf) - 1
LocToJump(c, loc)  == CurrentLoc(c) - loc
At(c, loc)         == [c |-> c, loc |-> loc]
Add(c, instr)      == [c EXCEPT !.buf = Append(@, instr)]
Added(c, instr)    == At(Add(c, instr), Len(c.buf))

Ret(action)        == [op |-> "RET", k |-> action]
Ja(distance)       == [op |-> "JA", k |-> distance]
Load(from)         == [op |-> "LD", k |-> from]
LoadArg(arg, word) == [op |-> "LD_ARG", k |-> arg, word |-> word]
Alu(op, src, k)    == [op |-> op, src |-> src, k |-> k]
Slot(op, k)        == [op |-> op, k |-> k]
TAX                == [op |-> "TAX", k |-> 0]
Jump(type, src, k, jt, jf) == [op |-> type, src |-> src, k |-> k, jt |-> jt, jf |-> jf]

-----------------------------------------------------------------------------
(* resolve_action *)
Near(c, loc) == loc # NOWHERE /\ LocToJump(c, loc) <= MAX_JUMP

BasicAction(c, a) ==
  IF Near(c, c.basic[a]) THEN At(c, c.basic[a])
  ELSE Added([c EXCEPT !.basic[a] = Len(c.buf)], Ret(a))

(* A new entry, after purge_location_cache has kept those nearer than      *)
(* MAX_JUMP.                                                               *)
Cached(c, a) ==
  LET kept == {b \in DOMAIN c.cache : LocToJump(c, c.cache[b]) < MAX_JUMP}
  IN [b \in kept \cup {a} |-> IF b = a THEN Len(c.buf) ELSE c.cache[b]]

(* The entry of an action that is out of reach keeps its old place.        *)
DataAction_misplaced(c, a) ==
  IF a \in DOMAIN c.cache /\ Near(c, c.cache[a]) THEN At(c, c.cache[a])
  ELSE Added([c EXCEPT !.cache = (a :> Len(c.buf) + 1) @@ @], Ret(a))

DataAction(c, a) ==
  IF a \notin DOMAIN c.cache THEN Added([c EXCEPT !.cache = Cached(c, a)], Ret(a))
  ELSE IF Near(c, c.cache[a]) THEN At(c, c.cache[a])
  ELSE Added([c EXCEPT !.cache = [@ EXCEPT ![a] = Len(c.buf)]], Ret(a))

ResolveAction(c, a) == IF a <= ACTION_BASIC_MAX THEN BasicAction(c, a) ELSE DataAction(c, a)

ResolveLocation(c, loc) ==
  IF loc < 0 THEN ResolveAction(c, -loc)
  ELSE IF LocToJump(c, loc) > MAX_JUMP THEN Added(c, Ja(LocToJump(c, loc)))
  ELSE At(c, loc)

(* add_jump: the distances are stored in eight bits. *)
Field(distance) == distance % (MAX_JUMP + 1)
WriteJump(c, type, src, k, jt, jf) ==
  Added([c EXCEPT !.missed = @ \/ jt > MAX_JUMP \/ jf > MAX_JUMP],
        Jump(type, src, k, Field(jt), Field(jf)))
JumpTo(t, type, src, k, floc) ==
  WriteJump(t.c, type, src, k, LocToJump(t.c, t.loc), LocToJump(t.c, floc))
ResolveAgain(f, type, src, k, tloc) ==
  JumpTo(ResolveLocation(f.c, tloc), type, src, k, f.loc)
AddJump(c, type, src, k, tloc, floc) ==
  IF tloc = floc THEN At(c, tloc)
  ELSE ResolveAgain(ResolveLocation(ResolveLocation(c, tloc).c, floc), type, src, k, tloc)

(* ADD_JUMP_K: comparisons whose outcome the constant decides need no jump. *)
AddJumpK(c, type, k, tloc, floc) ==
  CASE type = "JGE" /\ k = 0 -> At(c, tloc)
    [] type = "JGT" /\ k = WORD_MAX -> At(c, floc)
    [] type = "JSET" /\ k = 0 -> At(c, floc)
    [] OTHER -> AddJump(c, type, "K", k, tloc, floc)

-----------------------------------------------------------------------------
(* cache_constants: the value of a word of an operand when it is known, as *)
(* a set of at most one value.                                             *)
Word(n, word) == IF word = "HIGH" THEN n \div WORD ELSE n % WORD
Combined(op, left, right) ==
  IF left # {} /\ right # {} THEN {Bits(op, l, r) : l \in left, r \in right}
  ELSE (left \cup right) \cap {IF op = "BIT_OR" THEN WORD_MAX ELSE 0}

Const(e, word) ==
  LET Values[x \in Exprs] ==
        CASE x.type \in {"BIT_OR", "BIT_AND"} -> Combined(x.type, Values[x.left], Values[x.right])
          [] x.type = "NUMBER" -> {Word(x.number, word)}
          [] OTHER -> {}
  IN Values[e]

IsConst(e, word) == Const(e, word) # {}
ValueOf(e, word) == CHOOSE v \in Const(e, word) : TRUE

(* Known values are looked for on the right. *)
Operands(e, word) ==
  IF IsConst(e.left, word) THEN <<e.right, e.left>> ELSE <<e.left, e.right>>

-----------------------------------------------------------------------------
(* What is still to be generated: an expression or one word of a           *)
(* comparison that goes to tloc if it holds and to floc if not, a value to *)
(* be loaded (sp is the memory slot it may use), an instruction.  HERE is  *)
(* the location that the task before leaves.                               *)
HERE == NOWHERE - 1

Branch(e, tloc, floc) == [task |-> "branch", expr |-> e, tloc |-> tloc, floc |-> floc]
Compare(type, e, tloc, floc, word) ==
  [task |-> "compare", type |-> type, expr |-> e, tloc |-> tloc, floc |-> floc, word |-> word]
CompareHigh(e, tloc, floc) == [task |-> "high", expr |-> e, tloc |-> tloc, floc |-> floc]
LoadValue(e, word, sp) == [task |-> "load", expr |-> e, word |-> word, sp |-> sp]
Write(instr) == [task |-> "write", instr |-> instr]
Newest       == [task |-> "newest"]

Task  == tasks[Len(tasks)]
Later == SubSeq(tasks, 1, Len(tasks) - 1)
Doing(task) == tasks # <<>> /\ Task.task = task
Target(loc) == IF loc = HERE THEN next ELSE loc
Tloc == Target(Task.tloc)
Floc == Target(Task.floc)

-----------------------------------------------------------------------------
(* generate_load, in front of the code that uses the value: the right      *)
(* operand goes to X, through memory when the left one is not one load.    *)
LoadBoth(left, right, word, sp) ==
  <<LoadValue(right, word, sp)>>
  \o (IF left.type = "VAR" THEN <<Write(TAX), LoadValue(left, word, sp)>>
      ELSE <<Write(Slot("ST", sp)), LoadValue(left, word, sp + 1), Write(Slot("LDX", sp))>>)

LoadArgument ==
  /\ Doing("load") /\ Task.expr.type = "VAR"
  /\ code' = Add(code, LoadArg(Task.expr.var, Task.word))
  /\ tasks' = Later
  /\ UNCHANGED next

LoadOperation ==
  LET e     == Task.expr
      left  == Operands(e, Task.word)[1]
      right == Operands(e, Task.word)[2]
      op       == IF e.type = "BIT_AND" THEN "AND" ELSE "OR"
      identity == IF e.type = "BIT_AND" THEN WORD_MAX ELSE 0
      K        == ValueOf(right, Task.word)
      raised   == IF left.type # "VAR" /\ Task.sp > code.stack THEN Task.sp ELSE code.stack
  IN /\ Doing("load") /\ e.type # "VAR"
     /\ IF IsConst(right, Task.word)
        THEN /\ code' = IF K = identity THEN code ELSE Add(code, Alu(op, "K", K))
             /\ tasks' = Append(Later, LoadValue(left, Task.word, Task.sp))
        ELSE /\ code' = Add([code EXCEPT !.stack = raised], Alu(op, "X", 0))
             /\ tasks' = Later \o LoadBoth(left, right, Task.word, Task.sp)
     /\ UNCHANGED next

WriteInstruction ==
  /\ Doing("write")
  /\ code' = Add(code, Task.instr)
  /\ tasks' = Later
  /\ UNCHANGED next

(* "begin = next = generate_load(...)" *)
ValueLoaded ==
  /\ Doing("newest")
  /\ next' = CurrentLoc(code)
  /\ tasks' = Later
  /\ UNCHANGED code

-----------------------------------------------------------------------------
Jumps(type, l, r) ==   \* evaluate_jump
  CASE type = "JEQ" -> l = r
    [] type = "JGE" -> l >= r
    [] type = "JGT" -> l > r
    [] type = "JSET" -> BitAnd[l][r] # 0

(* generate_cmp32: the jump on one word of a comparison.                   *)
(* The operands are exchanged and the targets are not.                     *)
Comparison_unswapped(type, e, tloc, floc, word) ==
  [type  |-> IF IsConst(e.left, word) /\ type = "JGT" THEN "JGE"
             ELSE IF IsConst(e.left, word) /\ type = "JGE" THEN "JGT" ELSE type,
   left  |-> Operands(e, word)[1], right |-> Operands(e, word)[2],
   tloc  |-> tloc, floc |-> floc]

Comparison(type, e, tloc, floc, word) ==
  LET mirrored == IsConst(e.left, word) /\ type \in {"JGT", "JGE"}
  IN [type  |-> IF ~mirrored THEN type ELSE IF type = "JGT" THEN "JGE" ELSE "JGT",
      left  |-> Operands(e, word)[1],
      right |-> Operands(e, word)[2],
      tloc  |-> IF mirrored THEN floc ELSE tloc,
      floc  |-> IF mirrored THEN tloc ELSE floc]

(* A test of masked bits against zero is one JSET. *)
Masked(x, word) ==
  IF /\ x.type \in {"JEQ", "JGT"} /\ x.left.type = "BIT_AND"
     /\ Const(x.right, word) = {0}
  THEN [type  |-> "JSET",
        left  |-> Operands(x.left, word)[1],
        right |-> Operands(x.left, word)[2],
        tloc  |-> IF x.type = "JEQ" THEN x.floc ELSE x.tloc,
        floc  |-> IF x.type = "JEQ" THEN x.tloc ELSE x.floc]
  ELSE x

Decided(e, word) == IsConst(e.left, word) /\ IsConst(e.right, word)

WordJump(c, type, e, tloc, floc, word) ==
  LET x == Masked(Comparison(type, e, tloc, floc, word), word)
  IN IF Decided(e, word)
     THEN At(c, IF Jumps(type, ValueOf(e.left, word), ValueOf(e.right, word)) THEN tloc ELSE floc)
     ELSE IF IsConst(x.right, word)
     THEN AddJumpK(c, x.type, ValueOf(x.right, word), x.tloc, x.floc)
     ELSE AddJump(c, x.type, "X", 0, x.tloc, x.floc)

(* The loads in front of the jump, which are made if there is one.         *)
OperandLoads(type, e, word) ==
  LET x == Masked(Comparison(type, e, NOWHERE, NOWHERE, word), word)
  IN IF IsConst(x.right, word) THEN <<Newest, LoadValue(x.left, word, 0)>>
     ELSE <<Newest>> \o LoadBoth(x.left, x.right, word, 0)

CompareWord ==
  LET t    == Task
      jump == WordJump(code, t.type, t.expr, Tloc, Floc, t.word)
  IN /\ Doing("compare")
     /\ code' = jump.c /\ next' = jump.loc
     /\ tasks' = Later \o (IF jump.loc > CurrentLoc(code) THEN OperandLoads(t.type, t.expr, t.word)
                           ELSE <<>>)

(* The two comparisons of the high words that decide GE or GT, in which    *)
(* next is where the low words are compared; the second one's loads serve  *)
(* the first as well.                                                      *)
CompareHighWords ==
  LET e  == Task.expr
      ge == WordJump(code, "JGE", e, next, Floc, "HIGH")
      gt == WordJump(ge.c, "JGT", e, Tloc, ge.loc, "HIGH")
      loaded == ge.loc > CurrentLoc(code) \/ gt.loc > CurrentLoc(ge.c)
  IN /\ Doing("high")
     /\ code' = gt.c /\ next' = gt.loc
     /\ tasks' = Later \o (IF loaded THEN OperandLoads("JGT", e, "HIGH") ELSE <<>>)

-----------------------------------------------------------------------------
(* generate_expr: LE, LT and NEQ are GT, GE and EQ with exchanged targets. *)
Negated == [LE |-> "GT", LT |-> "GE", NEQ |-> "EQ"]
JumpType == [GT |-> "JGT", GE |-> "JGE"]

Replace(todo_) == tasks' = Later \o todo_ /\ UNCHANGED <<code, next>>

GenerateConnective ==
  LET e == Task.expr
  IN /\ Doing("branch")
     /\ \/ /\ e.type = "AND"
           /\ Replace(<<Branch(e.left, HERE, Floc), Branch(e.right, Tloc, Floc)>>)
        \/ /\ e.type = "OR"
           /\ Replace(<<Branch(e.left, Tloc, HERE), Branch(e.right, Tloc, Floc)>>)
        \/ /\ e.type = "NOT"
           /\ Replace(<<Branch(e.child, Floc, Tloc)>>)

GenerateComparison ==
  LET e == Task.expr
  IN /\ Doing("branch")
     /\ \/ /\ e.type \in DOMAIN Negated
           /\ Replace(<<Branch([e EXCEPT !.type = Negated[@]], Floc, Tloc)>>)
        \/ /\ e.type \in {"GT", "GE"}
           /\ Replace((IF Is64bit(e) THEN <<CompareHigh(e, Tloc, Floc)>> ELSE <<>>)
                      \o <<Compare(JumpType[e.type], e, Tloc, Floc, "LOW")>>)
        \/ /\ e.type = "EQ"
           /\ Replace((IF Is64bit(e) THEN <<Compare("JEQ", e, HERE, Floc, "HIGH")>> ELSE <<>>)
                      \o <<Compare("JEQ", e, Tloc, Floc, "LOW")>>)

GenerateExpr ==
  GenerateConnective \/ GenerateComparison \/ CompareWord \/ CompareHighWords
  \/ LoadArgument \/ LoadOperation \/ WriteInstruction \/ ValueLoaded

-----------------------------------------------------------------------------
(* generate_rules: a binary tree of comparisons over the ranges, built     *)
(* from the right.                                                         *)
Level(level, nr, action) == [level |-> level, nr |-> nr, action |-> action]
LastRule == rules[Len(rules) - done]

(* generate_action: the mappings from the last, which is always taken *)
GenerateAction ==
  LET r == LastRule
      n == Len(r.exprs)
  IN /\ stage = "generate" /\ done < Len(rules)
     /\ IF IsConditional(r)
        THEN /\ next' = -r.exprs[n].action
             /\ tasks' = [k \in 1..(n - 1) |-> Branch(r.exprs[k].expr, -r.exprs[k].action, HERE)]
        ELSE next' = -r.action /\ UNCHANGED tasks
     /\ stage' = "action"
     /\ UNCHANGED <<code, levels, done>>

(* Join the two last subtrees; the joined one has the level given. *)
JoinLast(level) ==
  LET n     == Len(levels)
      upper == levels[n - 1]
      lower == levels[n]
      jump  == AddJump(code, "JGE", "K", upper.nr, upper.action, lower.action)
  IN /\ code' = jump.c
     /\ levels' = Append(SubSeq(levels, 1, n - 2), Level(level, lower.nr, jump.loc))

(* No subtree is joined before the end.                                    *)
Joinable_never == FALSE

Joinable ==
  LET n == Len(levels)
  IN n >= 2 /\ levels[n - 1].level = levels[n].level

(* A rule that decides like the one above it joins its range; another one  *)
(* gets a subtree of its own, after those of equal height have been joined.*)
PlaceRange ==
  /\ stage = "action" /\ tasks = <<>>
  /\ IF levels # <<>> /\ levels[Len(levels)].action = next
     THEN /\ levels' = [levels EXCEPT ![Len(levels)].nr = LastRule.first]
          /\ done' = done + 1
          /\ stage' = "generate"
     ELSE stage' = "join" /\ UNCHANGED <<levels, done>>
  /\ UNCHANGED <<code, tasks, next>>

JoinEqual ==
  /\ stage = "join" /\ Joinable
  /\ JoinLast(levels[Len(levels)].level + 1)
  /\ UNCHANGED <<stage, tasks, next, done>>

AddSubtree ==
  /\ stage = "join" /\ ~Joinable
  /\ levels' = Append(levels, Level(0, LastRule.first, next))
  /\ done' = done + 1
  /\ stage' = "generate"
  /\ UNCHANGED <<code, tasks, next>>

JoinRest ==
  /\ stage = "generate" /\ done = Len(rules) /\ Len(levels) >= 2
  /\ JoinLast(levels[Len(levels) - 1].level)
  /\ UNCHANGED <<stage, tasks, next, done>>

GenerateRules ==
  \/ GenerateAction \/ PlaceRange \/ JoinEqual \/ AddSubtree \/ JoinRest
  \/ stage = "action" /\ GenerateExpr /\ UNCHANGED <<stage, levels, done>>
=============================================================================
