------------------------------ MODULE RangeRules ------------------------------
(***************************************************************************)
(* kafel/src/range_rules.c, the second half: the list of rules that a      *)
(* policy gives is sorted and made to cover every system call number.  The *)
(* list is worked on in place: i reads, j writes, and toAdd counts the     *)
(* holes that no freed slot could take.  rules[k] is the code's data[k-1]; *)
(* i and j are the code's indices.                                         *)
(***************************************************************************)
EXTENDS Integers, Sequences, FiniteSets, TLC

CONSTANT MAX_SYSCALL_NR   \* UINT32_MAX in the code

ASSUME MaxSyscallNr == MAX_SYSCALL_NR \in Nat \ {0}

VARIABLES stage,           \* where kafel_compile is
          default_action,  \* the policy's DEFAULT
          rules, i, j, toAdd

normalVars == <<stage, rules, i, j, toAdd>>

ACTION_CONDITIONAL == 0
NULL == [type |-> "NULL"]   \* a mapping without an expression: always taken

Rule(first, last, action) == [first |-> first, last |-> last, action |-> action,
                              priority |-> 0, exprs |-> <<>>]
Default(first, last)   == Rule(first, last, default_action)
Mapping(expr, action)  == [expr |-> expr, action |-> action]
IsConditional(r)       == r.action = ACTION_CONDITIONAL
HasCatchAll(r)         == r.exprs # <<>> /\ r.exprs[Len(r.exprs)].expr.type \in {"NULL", "TRUE"}

(* rule_add_expr: nothing follows a mapping that is always taken. *)
AddExpr(r, expr, action) ==
  IF HasCatchAll(r) THEN r ELSE [r EXCEPT !.exprs = Append(@, Mapping(expr, action))]

(* add_range_rule *)
AddRule(rs, r) == Append(rs, [r EXCEPT !.priority = Len(rs) + 1])

BySyscallAndPriority(a, b) ==
  a.first < b.first \/ (a.first = b.first /\ a.priority < b.priority)

(* sort_range_rules: no two priorities are equal, so that a rule's place   *)
(* is given by how many come before it.                                    *)
Earlier(rs, k) == {m \in DOMAIN rs : BySyscallAndPriority(rs[m], rs[k])}
Sorted(rs) ==
  [n \in DOMAIN rs |-> rs[CHOOSE k \in DOMAIN rs : Cardinality(Earlier(rs, k)) = n - 1]]

-----------------------------------------------------------------------------
(* normalize_rules: no rule at all is one rule for the default action. *)
NormalizeNothing ==
  /\ stage = "sort" /\ rules = <<>>
  /\ rules' = AddRule(<<>>, Default(0, MAX_SYSCALL_NR))
  /\ stage' = "normalized"
  /\ UNCHANGED <<i, j, toAdd>>

SortRules ==
  /\ stage = "sort" /\ rules # <<>>
  /\ rules' = Sorted(rules)
  /\ i' = 1 /\ j' = 1 /\ toAdd' = 0
  /\ stage' = "count"

(* normalize_rules_count_missing, one pass of its loop per step *)
Cur  == rules[i + 1]
Prev == rules[j]

Counting == stage = "count" /\ i < Len(rules)

(* Another rule for the same system call follows the mappings before it. *)
Absorbed == IF ~IsConditional(Prev) \/ HasCatchAll(Prev) THEN Prev
            ELSE IF IsConditional(Cur) THEN [Prev EXCEPT !.exprs = @ \o Cur.exprs]
            ELSE AddExpr(Prev, NULL, Cur.action)

SameCall ==
  /\ Counting /\ Cur.first = Prev.last
  /\ rules' = [rules EXCEPT ![j] = Absorbed]
  /\ i' = i + 1
  /\ UNCHANGED <<stage, j, toAdd>>

ExtendRange ==
  /\ Counting /\ Cur.first = Prev.last + 1
  /\ ~IsConditional(Prev) /\ Prev.action = Cur.action
  /\ rules' = [rules EXCEPT ![j].last = Cur.last]
  /\ i' = i + 1
  /\ UNCHANGED <<stage, j, toAdd>>

KeepNext ==
  /\ Counting /\ Cur.first = Prev.last + 1
  /\ IsConditional(Prev) \/ Prev.action # Cur.action
  /\ rules' = [rules EXCEPT ![j + 1] = Cur]
  /\ i' = i + 1 /\ j' = j + 1
  /\ UNCHANGED <<stage, toAdd>>

(* A gap is closed by stretching a default rule beside it, or filled in a  *)
(* slot that an earlier merge freed, or left and counted.                  *)
Gap == Counting /\ Cur.first # Prev.last /\ Cur.first # Prev.last + 1

(* The default rule is stretched one number too far.                       *)
StretchPrev_over ==
  /\ Gap /\ Prev.action = default_action
  /\ rules' = [rules EXCEPT ![j].last = Cur.first, ![j + 1] = Cur]
  /\ i' = i + 1 /\ j' = j + 1
  /\ UNCHANGED <<stage, toAdd>>

StretchPrev ==
  /\ Gap /\ Prev.action = default_action
  /\ rules' = [rules EXCEPT ![j].last = Cur.first - 1, ![j + 1] = Cur]
  /\ i' = i + 1 /\ j' = j + 1
  /\ UNCHANGED <<stage, toAdd>>

StretchCur ==
  /\ Gap /\ Prev.action # default_action /\ Cur.action = default_action
  /\ rules' = [rules EXCEPT ![j + 1] = [Cur EXCEPT !.first = Prev.last + 1]]
  /\ i' = i + 1 /\ j' = j + 1
  /\ UNCHANGED <<stage, toAdd>>

FillFreed ==
  /\ Gap /\ default_action \notin {Prev.action, Cur.action} /\ j < i
  /\ rules' = [rules EXCEPT ![j + 1] = Default(Prev.last + 1, Cur.first - 1),
                            ![j + 2] = Cur]
  /\ i' = i + 1 /\ j' = j + 2
  /\ UNCHANGED <<stage, toAdd>>

(* The hole is left but not counted.                                       *)
CountGap_uncounted ==
  /\ Gap /\ default_action \notin {Prev.action, Cur.action} /\ j = i
  /\ rules' = [rules EXCEPT ![j + 1] = Cur]
  /\ i' = i + 1 /\ j' = j + 1
  /\ UNCHANGED <<stage, toAdd>>

CountGap ==
  /\ Gap /\ default_action \notin {Prev.action, Cur.action} /\ j = i
  /\ rules' = [rules EXCEPT ![j + 1] = Cur]
  /\ i' = i + 1 /\ j' = j + 1 /\ toAdd' = toAdd + 1
  /\ UNCHANGED stage

(* The last rule is always added, even behind one that reaches the end.   *)
Ends_unconditional ==
  LET holes == toAdd + (IF rules[1].first # 0 THEN 1 ELSE 0)
  IN /\ stage = "count" /\ i = Len(rules)
     /\ rules' = SubSeq(rules, 1, j) \o [k \in 1..holes |-> Default(0, 0)]
                 \o <<Default(rules[j].last + 1, MAX_SYSCALL_NR)>>
     /\ toAdd' = holes
     /\ i' = j /\ j' = 0
     /\ stage' = "fill"

(* The end of normalize_rules_count_missing (the two ends of the list) and *)
(* the beginning of add_missing_rules (the slots, and the last rule).      *)
Ends ==
  LET kept   == SubSeq(rules, 1, j)
      front  == IF kept[1].action = default_action
                THEN [kept EXCEPT ![1].first = 0] ELSE kept
      closed == IF front[j].action = default_action
                THEN [front EXCEPT ![j].last = MAX_SYSCALL_NR] ELSE front
      atEnd  == closed[j].last # MAX_SYSCALL_NR
      holes  == toAdd + (IF closed[1].first # 0 THEN 1 ELSE 0)
  IN /\ stage = "count" /\ i = Len(rules)
     /\ rules' = closed
                 \o [k \in 1..holes |-> Default(0, 0)]
                 \o (IF atEnd THEN <<Default(closed[j].last + 1, MAX_SYSCALL_NR)>> ELSE <<>>)
     /\ toAdd' = holes
     /\ i' = j /\ j' = 0
     /\ stage' = "fill"

(* add_missing_rules: from the last rule down, each one is moved up by the *)
(* number of holes below it; j is the slot of the rule moved before.       *)
Filling == stage = "fill" /\ i > 0
Closed  == IF IsConditional(rules[i]) THEN AddExpr(rules[i], NULL, default_action) ELSE rules[i]
HoleAbove == j > 0 /\ rules[j].first # rules[i].last + 1

MoveUp ==
  /\ Filling /\ ~HoleAbove
  /\ rules' = [rules EXCEPT ![i + toAdd] = Closed]
  /\ j' = i + toAdd /\ i' = i - 1
  /\ UNCHANGED <<stage, toAdd>>

FillHole ==
  /\ Filling /\ HoleAbove
  /\ rules' = [rules EXCEPT ![i + toAdd] = Default(rules[i].last + 1, rules[j].first - 1),
                            ![i + toAdd - 1] = Closed]
  /\ j' = i + toAdd - 1 /\ i' = i - 1 /\ toAdd' = toAdd - 1
  /\ UNCHANGED stage

FillFirst ==
  /\ stage = "fill" /\ i = 0
  /\ IF toAdd = 1
     THEN /\ rules' = [rules EXCEPT ![1] = Default(0, rules[2].first - 1)]
          /\ toAdd' = 0
     ELSE UNCHANGED <<rules, toAdd>>
  /\ stage' = "normalized"
  /\ UNCHANGED <<i, j>>

Normalize ==
  \/ NormalizeNothing \/ SortRules
  \/ SameCall \/ ExtendRange \/ KeepNext
  \/ StretchPrev \/ StretchCur \/ FillFreed \/ CountGap
  \/ Ends \/ MoveUp \/ FillHole \/ FillFirst

-----------------------------------------------------------------------------
(* normalize_rules leaves ranges that follow one another from 0 to         *)
(* MAX_SYSCALL_NR, each one not empty; a range with expressions is one     *)
(* number and ends in a mapping that is always taken (the ASSERTs of       *)
(* generate_action and generate_rules).                                    *)
NormalizedRules ==
  stage = "normalized" =>
    /\ rules[1].first = 0 /\ rules[Len(rules)].last = MAX_SYSCALL_NR
    /\ \A k \in DOMAIN rules :
         /\ rules[k].first <= rules[k].last
         /\ k < Len(rules) => rules[k + 1].first = rules[k].last + 1
         /\ IsConditional(rules[k]) => rules[k].first = rules[k].last /\ HasCatchAll(rules[k])

-----------------------------------------------------------------------------
(* Why: while the list is worked on, what is finished is in order, and     *)
(* toAdd is the number of holes still to be filled ("ASSERT(to_add > 0)",  *)
(* "ASSERT(to_add == 0)").                                                 *)
ProperRange(r)   == r.first <= r.last /\ (IsConditional(r) => r.first = r.last)
HoleAfter(rs, k) == rs[k].last + 1 # rs[k + 1].first
Holes(rs, n)     == Cardinality({k \in 1..(n - 1) : HoleAfter(rs, k)})

(* The first n ranges are proper, in order and disjoint. *)
OrderedTo(rs, n) ==
  \A k \in 1..n : /\ ProperRange(rs[k]) /\ rs[k].last <= MAX_SYSCALL_NR
                  /\ k < n => rs[k].last < rs[k + 1].first

(* From n on the ranges follow one another to the end. *)
ClosedFrom(rs, n) ==
  \A k \in n..Len(rs) :
    /\ ProperRange(rs[k])
    /\ IsConditional(rs[k]) => HasCatchAll(rs[k])
    /\ rs[k].last = IF k = Len(rs) THEN MAX_SYSCALL_NR ELSE rs[k + 1].first - 1

(* What has not been read is still sorted and lies beyond what has. *)
SortedFrom(rs, n) ==
  \A k \in n..Len(rs) : /\ rs[k].first = rs[k].last /\ rs[k].last <= MAX_SYSCALL_NR
                        /\ k > n => rs[k - 1].first <= rs[k].first

CountInv ==
  stage = "count" =>
    /\ 1 <= j /\ j <= i /\ i <= Len(rules)
    /\ OrderedTo(rules, j)
    /\ SortedFrom(rules, i + 1)
    /\ i < Len(rules) => rules[j].last <= Cur.first
    /\ toAdd = Holes(rules, j)

(* The rules from FirstFinal on are final; j is the lowest of them, but at *)
(* first, when there is at most the last default rule.                     *)
FirstFinal == i + toAdd + 1
NextHole   == IF i > 0 /\ HoleAbove THEN 1 ELSE 0
FrontHole  == IF rules[IF i = 0 THEN FirstFinal ELSE 1].first # 0 THEN 1 ELSE 0

FillInv ==
  stage = "fill" =>
    /\ OrderedTo(rules, i)
    /\ ClosedFrom(rules, FirstFinal)
    /\ \/ /\ j = 0 /\ i > 0
          /\ \/ FirstFinal = Len(rules) + 1 /\ rules[i].last = MAX_SYSCALL_NR
             \/ FirstFinal = Len(rules) /\ rules[FirstFinal].first = rules[i].last + 1
       \/ /\ j = FirstFinal /\ j <= Len(rules)
          /\ i > 0 => rules[i].last < rules[j].first
    /\ toAdd = Holes(rules, i) + NextHole + FrontHole

(* At every pass of the two loops the finished rules are in order and the  *)
(* slots reserved are as many as the holes left; in the end none is left   *)
(* (the ASSERTs of range_rules.c:254, 255, 344 and 370).                   *)
NormalInv ==
  /\ CountInv /\ FillInv /\ NormalizedRules
  /\ stage = "normalized" => toAdd = 0
=============================================================================
