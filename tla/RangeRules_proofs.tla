------------------------- MODULE RangeRules_proofs -------------------------
(***************************************************************************)
(* What normalize_rules promises of any list of rules: it leaves ranges    *)
(* without hole or overlap, and fills every slot it has counted.           *)
(***************************************************************************)
EXTENDS RangeRules, FiniteSetTheorems, SequenceTheorems, WellFoundedInduction, NaturalsInduction,
        TLAPS

allVars == <<normalVars, default_action>>

(* The list as add_range_rule leaves it: every rule is for one number, and  *)
(* its priority is its place.  E has the expressions and A the actions that *)
(* may occur in it.                                                        *)
Numbers == 0..MAX_SYSCALL_NR
MappingType(E, A) == [expr : E, action : A]
RuleType(E, A) == [first : Numbers, last : Numbers, action : A \cup {ACTION_CONDITIONAL},
                   priority : Nat, exprs : Seq(MappingType(E, A))]
Parts(E, A) == NULL \in E /\ A \subseteq Int \ {ACTION_CONDITIONAL}

USE MaxSyscallNr DEF normalVars, allVars, Numbers

Listed(rs) == \A k \in 1..Len(rs) : rs[k].priority = k /\ rs[k].first = rs[k].last

NormalInit(E, A) ==
  /\ stage = "sort" /\ i \in Nat /\ j \in Nat /\ toAdd = 0
  /\ rules \in Seq(RuleType(E, A)) /\ Listed(rules)
  /\ default_action \in A

NormalSpec(E, A) == NormalInit(E, A) /\ [][Normalize /\ UNCHANGED default_action]_allVars

RulesType(E, A) ==
  /\ stage \in {"count", "fill", "normalized"}
  /\ i \in Nat /\ j \in Nat /\ toAdd \in Nat
  /\ rules \in Seq(RuleType(E, A)) /\ rules # <<>>
  /\ default_action \in A

-----------------------------------------------------------------------------
(* Holes.                                                                  *)

LEMMA HolesNat == ASSUME NEW rs, NEW n \in Int
                  PROVE  /\ Holes(rs, n) \in Nat
                         /\ n <= 1 => Holes(rs, n) = 0
<1> DEFINE H == {k \in 1..(n - 1) : HoleAfter(rs, k)}
<1>1. IsFiniteSet(1..(n - 1)) BY FS_Interval
<1>2. IsFiniteSet(H) BY <1>1, FS_Subset
<1>3. Cardinality(H) \in Nat BY <1>2, FS_CardinalityType
<1>4. ASSUME n <= 1 PROVE Cardinality(H) = 0
  <2>1. H = {} BY <1>4
  <2> QED BY <2>1, FS_EmptySet
<1> QED BY <1>3, <1>4 DEF Holes

LEMMA HolesStep == ASSUME NEW rs, NEW n \in Nat, n > 0
                   PROVE  Holes(rs, n + 1) = Holes(rs, n) + (IF HoleAfter(rs, n) THEN 1 ELSE 0)
<1> DEFINE H == {k \in 1..(n - 1) : HoleAfter(rs, k)}
           G == {k \in 1..(n + 1 - 1) : HoleAfter(rs, k)}
<1>1. IsFiniteSet(H)
  <2>1. IsFiniteSet(1..(n - 1)) BY FS_Interval
  <2> QED BY <2>1, FS_Subset
<1>2. CASE HoleAfter(rs, n)
  <2>1. G = H \cup {n} BY <1>2
  <2>2. n \notin H OBVIOUS
  <2>3. Cardinality(G) = Cardinality(H) + 1 BY <1>1, <2>1, <2>2, FS_AddElement
  <2> QED BY <1>2, <2>3 DEF Holes
<1>3. CASE ~HoleAfter(rs, n)
  <2>1. G = H BY <1>3
  <2>2. Cardinality(H) \in Nat BY <1>1, FS_CardinalityType
  <2> QED BY <1>3, <2>1, <2>2 DEF Holes
<1> QED BY <1>2, <1>3

LEMMA HolesSame == ASSUME NEW rs, NEW ts, NEW n \in Int,
                          \A k \in 1..(n - 1) : HoleAfter(rs, k) <=> HoleAfter(ts, k)
                   PROVE  Holes(rs, n) = Holes(ts, n)
<1>1. {k \in 1..(n - 1) : HoleAfter(rs, k)} = {k \in 1..(n - 1) : HoleAfter(ts, k)}
  OBVIOUS
<1> QED BY <1>1 DEF Holes

-----------------------------------------------------------------------------
(* Rules.                                                                  *)

LEMMA RuleFacts == ASSUME NEW E, NEW A, Parts(E, A), NEW r \in RuleType(E, A)
                   PROVE  /\ r.first \in Nat /\ r.last \in Nat /\ r.priority \in Nat
                          /\ r.first <= MAX_SYSCALL_NR /\ r.last <= MAX_SYSCALL_NR
                          /\ r.action \in Int /\ r.exprs \in Seq(MappingType(E, A))
                          /\ ~IsConditional(r) => r.action \in A
<1>1. r.action \in A \cup {ACTION_CONDITIONAL} BY DEF RuleType
<1>2. A \subseteq Int /\ ACTION_CONDITIONAL \in Int BY DEF Parts, ACTION_CONDITIONAL
<1>3. r.action \in Int BY <1>1, <1>2
<1> QED BY <1>1, <1>3 DEF RuleType, IsConditional

(* The ends of a rule's range.                                             *)
LEMMA RuleEnds == ASSUME NEW E, NEW A, NEW r \in RuleType(E, A) PROVE r.first \in Nat /\ r.last \in Nat
BY DEF RuleType

LEMMA DefaultRule == ASSUME NEW E, NEW A, Parts(E, A), default_action \in A,
                            NEW a \in Numbers, NEW b \in Numbers
                     PROVE  /\ Default(a, b) \in RuleType(E, A)
                            /\ Default(a, b).first = a /\ Default(a, b).last = b
                            /\ ~IsConditional(Default(a, b))
<1>1. <<>> \in Seq(MappingType(E, A)) OBVIOUS
<1>2. default_action # ACTION_CONDITIONAL BY DEF Parts
<1> QED BY <1>1, <1>2 DEF Default, Rule, RuleType, IsConditional

(* After rule_add_expr without expression, some mapping is always taken. *)
LEMMA CatchAll == ASSUME NEW E, NEW A, Parts(E, A), NEW r \in RuleType(E, A), NEW a \in A
                  PROVE  /\ AddExpr(r, NULL, a) \in RuleType(E, A)
                         /\ AddExpr(r, NULL, a).first = r.first
                         /\ AddExpr(r, NULL, a).last = r.last
                         /\ AddExpr(r, NULL, a).action = r.action
                         /\ HasCatchAll(AddExpr(r, NULL, a))
<1>1. CASE HasCatchAll(r)
  BY <1>1 DEF AddExpr, RuleType
<1>2. CASE ~HasCatchAll(r)
  <2> DEFINE m == Mapping(NULL, a)
             e == Append(r.exprs, m)
  <2>1. m \in MappingType(E, A) BY DEF MappingType, Mapping, Parts
  <2>2. r.exprs \in Seq(MappingType(E, A)) BY DEF RuleType
  <2>3. e \in Seq(MappingType(E, A)) /\ e # <<>> /\ Len(e) = Len(r.exprs) + 1 /\ e[Len(r.exprs) + 1] = m
    BY <2>1, <2>2, AppendProperties
  <2>4. e[Len(e)] = m BY <2>3
  <2>5. m.expr.type = "NULL" BY DEF Mapping, NULL
  <2>6. AddExpr(r, NULL, a) = [r EXCEPT !.exprs = e] BY <1>2 DEF AddExpr
  <2> HIDE DEF m, e
  <2>7. /\ AddExpr(r, NULL, a) \in RuleType(E, A)
        /\ AddExpr(r, NULL, a).first = r.first /\ AddExpr(r, NULL, a).last = r.last
        /\ AddExpr(r, NULL, a).action = r.action /\ AddExpr(r, NULL, a).exprs = e
    BY <2>3, <2>6 DEF RuleType
  <2> QED BY <2>3, <2>4, <2>5, <2>7 DEF HasCatchAll
<1> QED BY <1>1, <1>2

LEMMA AbsorbedRule ==
  ASSUME NEW E, NEW A, Parts(E, A), rules \in Seq(RuleType(E, A)), i \in 1..(Len(rules) - 1), j \in 1..i
  PROVE  /\ Absorbed \in RuleType(E, A)
         /\ Absorbed.first = Prev.first /\ Absorbed.last = Prev.last
         /\ Absorbed.action = Prev.action
<1>1. Prev \in RuleType(E, A) /\ Cur \in RuleType(E, A) BY DEF Prev, Cur
<1>2. Cur.action \in A \cup {ACTION_CONDITIONAL} /\ Cur.exprs \in Seq(MappingType(E, A)) /\ Prev.exprs \in Seq(MappingType(E, A)) BY <1>1 DEF RuleType
<1>3. Prev.exprs \o Cur.exprs \in Seq(MappingType(E, A)) BY <1>2, ConcatProperties
<1>4. CASE ~IsConditional(Prev) \/ HasCatchAll(Prev)
  BY <1>1, <1>4 DEF Absorbed
<1>5. CASE ~(~IsConditional(Prev) \/ HasCatchAll(Prev)) /\ IsConditional(Cur)
  <2>1. Absorbed = [Prev EXCEPT !.exprs = @ \o Cur.exprs] BY <1>5 DEF Absorbed
  <2> QED BY <1>1, <1>3, <2>1 DEF RuleType
<1>6. CASE ~(~IsConditional(Prev) \/ HasCatchAll(Prev)) /\ ~IsConditional(Cur)
  <2>1. Absorbed = AddExpr(Prev, NULL, Cur.action) BY <1>6 DEF Absorbed
  <2>2. Cur.action \in A BY <1>2, <1>6 DEF IsConditional
  <2> QED BY <1>1, <2>1, <2>2, CatchAll
<1> QED BY <1>4, <1>5, <1>6

-----------------------------------------------------------------------------
(* sort_range_rules.                                                       *)

(* p gives the place in rs of each rule of the sorted list.               *)
Arranged(rs, p) ==
  /\ p \in [1..Len(rs) -> 1..Len(rs)]
  /\ \A n \in 1..Len(rs) : Sorted(rs)[n] = rs[p[n]]
  /\ \A m, n \in 1..Len(rs) : m < n => BySyscallAndPriority(rs[p[m]], rs[p[n]])
  /\ \A k \in 1..Len(rs) : \E n \in 1..Len(rs) : p[n] = k

(* As many rules come before the n-th one of the sorted list as places.    *)
LEMMA Places ==
  ASSUME NEW E, NEW A, NEW rs \in Seq(RuleType(E, A)), Listed(rs)
  PROVE  \E p : Arranged(rs, p)
<1> DEFINE D == 1..Len(rs)
           Before(x, y) == BySyscallAndPriority(rs[x], rs[y])
           Place == [k \in D |-> Cardinality(Earlier(rs, k)) + 1]
           p == [n \in D |-> CHOOSE k \in D : Cardinality(Earlier(rs, k)) = n - 1]
<1>1. Len(rs) \in Nat /\ DOMAIN rs = D OBVIOUS
<1>2. \A k \in D : rs[k].first \in Int /\ rs[k].priority = k
  <2>1. \A k \in D : rs[k] \in RuleType(E, A) OBVIOUS
  <2>2. \A k \in D : rs[k].first \in Int BY <2>1 DEF RuleType
  <2>3. \A k \in D : rs[k].priority = k BY DEF Listed
  <2> QED BY <2>2, <2>3
<1>3. IsFiniteSet(D) /\ Cardinality(D) = Len(rs)
  <2> DEFINE n == Len(rs)
  <2>1. 1 \in Int /\ n \in Int /\ (1 > n => n = 0) BY <1>1
  <2>2. n - 1 + 1 = n BY <2>1
  <2> HIDE DEF n
  <2>3. IsFiniteSet(1..n) /\ Cardinality(1..n) = IF 1 > n THEN 0 ELSE n - 1 + 1 BY <2>1, FS_Interval
  <2>4. IsFiniteSet(1..n) /\ Cardinality(1..n) = n BY <2>1, <2>2, <2>3
  <2> QED BY <2>4 DEF n
<1> HIDE DEF D
<1>4. D \subseteq Int BY DEF D
<1>5. /\ \A x \in D : ~Before(x, x)
      /\ \A x, y \in D : x = y \/ Before(x, y) \/ Before(y, x)
      /\ \A x, y, z \in D : Before(x, y) /\ Before(y, z) => Before(x, z)
  <2>1. \A x, y \in D : Before(x, y) <=> (\/ rs[x].first < rs[y].first
                                         \/ (rs[x].first = rs[y].first /\ x < y))
    <3> TAKE x \in D, y \in D
    <3>1. rs[x].priority = x /\ rs[y].priority = y BY <1>2
    <3> QED BY <3>1 DEF BySyscallAndPriority
  <2> HIDE DEF Before
  <2>2. \A x \in D : ~Before(x, x) BY <1>2, <1>4, <2>1
  <2>3. \A x, y \in D : x = y \/ Before(x, y) \/ Before(y, x)
    <3> TAKE x \in D, y \in D
    <3>1. x \in Int /\ y \in Int /\ rs[x].first \in Int /\ rs[y].first \in Int BY <1>2, <1>4
    <3> QED BY <2>1, <3>1
  <2>4. \A x, y, z \in D : Before(x, y) /\ Before(y, z) => Before(x, z) BY <1>2, <1>4, <2>1
  <2> QED BY <2>2, <2>3, <2>4
<1>6. \A k \in D : Earlier(rs, k) = {m \in D : Before(m, k)}
  BY <1>1 DEF Earlier
<1> HIDE DEF Before
<1>7. ASSUME NEW k \in D
      PROVE  /\ IsFiniteSet(Earlier(rs, k)) /\ Cardinality(Earlier(rs, k)) \in Nat
             /\ Cardinality(Earlier(rs, k)) < Len(rs)
  <2>1. Earlier(rs, k) \in SUBSET D /\ k \notin Earlier(rs, k) BY <1>5, <1>6
  <2>2. /\ IsFiniteSet(Earlier(rs, k)) /\ Cardinality(Earlier(rs, k)) <= Len(rs)
        /\ Cardinality(Earlier(rs, k)) # Len(rs)
    BY <1>3, <2>1, FS_Subset
  <2>3. Cardinality(Earlier(rs, k)) \in Nat BY <2>2, FS_CardinalityType
  <2> QED BY <1>1, <2>2, <2>3
<1>8. ASSUME NEW x \in D, NEW y \in D, Before(x, y)
      PROVE  Cardinality(Earlier(rs, x)) < Cardinality(Earlier(rs, y))
  <2>1. /\ Earlier(rs, x) \in SUBSET Earlier(rs, y)
        /\ x \in Earlier(rs, y) /\ x \notin Earlier(rs, x)
    BY <1>5, <1>6, <1>8
  <2>2. /\ Cardinality(Earlier(rs, x)) <= Cardinality(Earlier(rs, y))
        /\ Cardinality(Earlier(rs, x)) # Cardinality(Earlier(rs, y))
    BY <1>7, <2>1, FS_Subset
  <2> QED BY <1>7, <2>2
<1>9. Place \in Injection(D, D)
  <2>1. Place \in [D -> D] BY <1>1, <1>7 DEF D
  <2>2. ASSUME NEW x \in D, NEW y \in D, Place[x] = Place[y] PROVE x = y
    <3>1. Cardinality(Earlier(rs, x)) = Cardinality(Earlier(rs, y)) BY <1>7, <2>2
    <3>2. ~Before(x, y) /\ ~Before(y, x) BY <1>7, <1>8, <3>1
    <3> QED BY <1>5, <3>2
  <2> HIDE DEF Place
  <2> QED BY <2>1, <2>2 DEF Injection, IsInjective
<1>10. Place \in Surjection(D, D) BY <1>3, <1>9, FS_Injection
<1>11. \A n \in D : \E k \in D : Cardinality(Earlier(rs, k)) = n - 1
  <2> TAKE n \in D
  <2>1. PICK k \in D : Place[k] = n BY <1>10 DEF Surjection
  <2> QED BY <1>4, <1>7, <2>1
<1>12. p \in [D -> D] /\ \A n \in D : Cardinality(Earlier(rs, p[n])) = n - 1 BY <1>11
<1>13. \A n \in D : Sorted(rs)[n] = rs[p[n]] BY <1>1 DEF Sorted
<1> HIDE DEF p, Place
<1>14. ASSUME NEW m \in D, NEW n \in D, m < n PROVE Before(p[m], p[n])
  <2>1. p[n] \in D /\ p[m] \in D BY <1>12
  <2>2. /\ Cardinality(Earlier(rs, p[n])) = n - 1
        /\ Cardinality(Earlier(rs, p[m])) = m - 1
    BY <1>12
  <2>3. m \in Int /\ n \in Int BY <1>4
  <2>4. ~(n - 1 < m - 1) /\ n - 1 # m - 1 BY <1>14, <2>3
  <2>5. Before(p[n], p[m]) => Cardinality(Earlier(rs, p[n])) < Cardinality(Earlier(rs, p[m]))
    BY <1>8, <2>1
  <2>6. ~Before(p[n], p[m]) BY <2>2, <2>4, <2>5
  <2>7. p[n] # p[m] BY <2>2, <2>4
  <2> QED BY <1>5, <2>1, <2>6, <2>7
<1>15. ASSUME NEW k \in D PROVE \E n \in D : p[n] = k
  <2>1. Place[k] \in D /\ Place[k] = Cardinality(Earlier(rs, k)) + 1
    BY <1>9 DEF Injection, Place
  <2>2. p[Place[k]] \in D /\ Cardinality(Earlier(rs, p[Place[k]])) = Cardinality(Earlier(rs, k))
    BY <1>7, <1>12, <2>1
  <2>3. ~Before(p[Place[k]], k) /\ ~Before(k, p[Place[k]]) BY <1>7, <1>8, <2>2
  <2> QED BY <1>5, <2>1, <2>2, <2>3
<1>16. D = 1..Len(rs) /\ \A x, y : Before(x, y) <=> BySyscallAndPriority(rs[x], rs[y])
  BY DEF D, Before
<1> HIDE DEF D
<1>17. \A m, n \in D : m < n => BySyscallAndPriority(rs[p[m]], rs[p[n]]) BY <1>14, <1>16
<1> QED BY <1>12, <1>13, <1>15, <1>16, <1>17 DEF Arranged

LEMMA SortedRules ==
  ASSUME NEW E, NEW A, NEW rs \in Seq(RuleType(E, A)), Listed(rs)
  PROVE  /\ Sorted(rs) \in Seq(RuleType(E, A)) /\ Len(Sorted(rs)) = Len(rs)
         /\ SortedFrom(Sorted(rs), 1)
<1>0. PICK p : Arranged(rs, p) BY Places
<1>1. /\ p \in [1..Len(rs) -> 1..Len(rs)]
      /\ \A n \in 1..Len(rs) : Sorted(rs)[n] = rs[p[n]]
      /\ \A m, n \in 1..Len(rs) : m < n => BySyscallAndPriority(rs[p[m]], rs[p[n]])
  BY <1>0 DEF Arranged
<1>2. Len(rs) \in Nat /\ DOMAIN rs = 1..Len(rs) OBVIOUS
<1>3. \A n \in 1..Len(rs) : Sorted(rs)[n] \in RuleType(E, A) BY <1>1
<1>4. Sorted(rs) \in Seq(RuleType(E, A)) /\ Len(Sorted(rs)) = Len(rs)
  <2> DEFINE f(n) == rs[CHOOSE k \in DOMAIN rs : Cardinality(Earlier(rs, k)) = n - 1]
  <2>1. Sorted(rs) = [n \in 1..Len(rs) |-> f(n)] BY <1>2 DEF Sorted
  <2>2. \A n \in 1..Len(rs) : f(n) \in RuleType(E, A) BY <1>3, <2>1
  <2> HIDE DEF f
  <2> QED BY <1>2, <2>1, <2>2
<1> DEFINE ts == Sorted(rs)
<1> HIDE DEF ts
<1>5. \A k \in 1..Len(rs) : /\ rs[k] \in RuleType(E, A) /\ rs[k].first = rs[k].last
                             /\ rs[k].first \in Numbers /\ rs[k].priority \in Nat
  <2> SUFFICES ASSUME NEW k \in 1..Len(rs)
               PROVE  /\ rs[k] \in RuleType(E, A) /\ rs[k].first = rs[k].last
                      /\ rs[k].first \in Numbers /\ rs[k].priority \in Nat
    OBVIOUS
  <2>1. rs[k] \in RuleType(E, A) OBVIOUS
  <2>2. rs[k].first \in Numbers /\ rs[k].priority \in Nat BY <2>1 DEF RuleType
  <2> QED BY <2>1, <2>2 DEF Listed
<1>6. \A k \in 1..Len(rs) : ts[k].first = ts[k].last /\ ts[k].last <= MAX_SYSCALL_NR
  <2> TAKE k \in 1..Len(rs)
  <2>1. p[k] \in 1..Len(rs) /\ ts[k] = rs[p[k]] BY <1>1 DEF ts
  <2>2. rs[p[k]].first = rs[p[k]].last /\ rs[p[k]].first \in Numbers BY <1>5, <2>1
  <2> QED BY <2>1, <2>2
<1>7. \A k \in 1..Len(rs) : k > 1 => ts[k - 1].first <= ts[k].first
  <2> SUFFICES ASSUME NEW k \in 2..Len(rs) PROVE ts[k - 1].first <= ts[k].first
    BY <1>2
  <2>1. k \in 1..Len(rs) /\ k - 1 \in 1..Len(rs) BY <1>2
  <2>2. ts[k] = rs[p[k]] /\ ts[k - 1] = rs[p[k - 1]] BY <1>1, <2>1 DEF ts
  <2>3. p[k] \in 1..Len(rs) /\ p[k - 1] \in 1..Len(rs) BY <1>1, <2>1
  <2>4. rs[p[k]].first \in Int /\ rs[p[k - 1]].first \in Int BY <1>5, <2>3
  <2>5. k - 1 < k /\ BySyscallAndPriority(rs[p[k - 1]], rs[p[k]]) BY <1>1, <2>1
  <2> QED BY <2>2, <2>4, <2>5 DEF BySyscallAndPriority
<1> QED BY <1>4, <1>6, <1>7 DEF ts, SortedFrom

-----------------------------------------------------------------------------
(* normalize_rules_count_missing.                                          *)

(* Replacing the last range by one that begins where it began.             *)
LEMMA LastReplaced ==
  ASSUME NEW E, NEW A, NEW rs \in Seq(RuleType(E, A)), NEW ts \in Seq(RuleType(E, A)), NEW a \in Nat \ {0},
         a <= Len(rs), a <= Len(ts), OrderedTo(rs, a),
         \A k \in 1..(a - 1) : ts[k] = rs[k],
         ts[a].first = rs[a].first, ProperRange(ts[a]), ts[a].last <= MAX_SYSCALL_NR
  PROVE  OrderedTo(ts, a) /\ Holes(ts, a) = Holes(rs, a)
<1>1. \A k \in 1..(a - 1) : rs[k + 1].first = ts[k + 1].first /\ rs[k].last = ts[k].last
  OBVIOUS
<1>2. Holes(ts, a) = Holes(rs, a)
  <2>1. \A k \in 1..(a - 1) : HoleAfter(rs, k) <=> HoleAfter(ts, k)
    BY <1>1 DEF HoleAfter
  <2>2. a \in Int OBVIOUS
  <2> QED BY <2>1, <2>2, HolesSame
<1>3. OrderedTo(ts, a)
  BY <1>1 DEF OrderedTo
<1> QED BY <1>2, <1>3

LEMMA RangeAdded ==
  ASSUME NEW E, NEW A, NEW ts \in Seq(RuleType(E, A)), NEW a \in Nat \ {0}, a + 1 <= Len(ts),
         OrderedTo(ts, a), ts[a].last < ts[a + 1].first,
         ProperRange(ts[a + 1]), ts[a + 1].last <= MAX_SYSCALL_NR
  PROVE  /\ OrderedTo(ts, a + 1)
         /\ Holes(ts, a + 1) = Holes(ts, a) + (IF HoleAfter(ts, a) THEN 1 ELSE 0)
<1>1. OrderedTo(ts, a + 1)
  BY DEF OrderedTo
<1> QED BY <1>1, HolesStep

(* What the invariant says of a pass, with Cur and Prev.                   *)
LEMMA AtPass ==
  ASSUME NEW E, NEW A, Parts(E, A), RulesType(E, A), CountInv, Counting
  PROVE  /\ i \in 1..(Len(rules) - 1) /\ j \in 1..i
         /\ Cur \in RuleType(E, A) /\ Prev \in RuleType(E, A)
         /\ Cur.first = Cur.last /\ Cur.last <= MAX_SYSCALL_NR /\ ProperRange(Cur)
         /\ ProperRange(Prev) /\ Prev.last <= Cur.first
<1>1. i \in 1..(Len(rules) - 1) /\ j \in 1..i
  BY DEF RulesType, CountInv, Counting
<1>2. Cur \in RuleType(E, A) /\ Prev \in RuleType(E, A)
  BY <1>1 DEF Cur, Prev, RulesType
<1>3. Cur.first = Cur.last /\ Cur.last <= MAX_SYSCALL_NR
  BY <1>1 DEF CountInv, Counting, SortedFrom, Cur
<1>4. ProperRange(Cur) BY <1>2, <1>3 DEF ProperRange, RuleType
<1>5. ProperRange(Prev) BY <1>1 DEF CountInv, Counting, OrderedTo, Prev
<1>6. Prev.last <= Cur.first BY <1>1 DEF CountInv, Counting, Prev
<1> QED BY <1>1, <1>2, <1>3, <1>4, <1>5, <1>6

(* A pass that leaves ts, with the ranges up to b finished.                *)
LEMMA PassKept ==
  ASSUME NEW E, NEW A, Parts(E, A), RulesType(E, A), CountInv, Counting,
         NEW ts \in Seq(RuleType(E, A)), NEW b \in Nat \ {0}, Len(ts) = Len(rules), b <= i + 1,
         OrderedTo(ts, b), ts[b].last <= Cur.first,
         \A k \in (i + 2)..Len(rules) : ts[k] = rules[k],
         rules' = ts, i' = i + 1, j' = b, stage' = stage, toAdd' = Holes(ts, b),
         default_action' = default_action
  PROVE  RulesType(E, A)' /\ CountInv'
<1>1. i \in 1..(Len(rules) - 1) /\ j \in 1..i /\ Cur \in RuleType(E, A)
  BY AtPass
<1>2. SortedFrom(rules, i + 1) BY DEF CountInv, Counting
<1>3. SortedFrom(ts, i + 2)
  <2> SUFFICES ASSUME NEW k \in (i + 2)..Len(ts)
               PROVE  /\ ts[k].first = ts[k].last /\ ts[k].last <= MAX_SYSCALL_NR
                      /\ k > i + 2 => ts[k - 1].first <= ts[k].first
    BY DEF SortedFrom
  <2>1. i \in Nat /\ Len(rules) \in Nat /\ k \in (i + 2)..Len(rules) BY <1>1
  <2>2. k \in (i + 1)..Len(rules) /\ k > i + 1 /\ (k > i + 2 => k - 1 \in (i + 2)..Len(rules)) BY <2>1
  <2>3. ts[k] = rules[k] BY <2>1
  <2>4. k > i + 2 => ts[k - 1] = rules[k - 1] BY <2>2
  <2>5. rules[k].first = rules[k].last /\ rules[k].last <= MAX_SYSCALL_NR /\ rules[k - 1].first <= rules[k].first
    BY <1>2, <2>2 DEF SortedFrom
  <2> QED BY <2>3, <2>4, <2>5
<1>4. i + 1 < Len(rules) => ts[b].last <= ts[i + 2].first
  <2> HAVE i + 1 < Len(rules)
  <2>1. Cur.first <= rules[i + 2].first
    BY <1>1, <1>2 DEF SortedFrom, Cur
  <2>2. rules[i + 2] = ts[i + 2] BY <1>1
  <2>3. ts[b] \in RuleType(E, A) /\ ts[i + 2] \in RuleType(E, A) BY <1>1
  <2>4. ts[b].last \in Nat /\ ts[i + 2].first \in Nat /\ Cur.first \in Nat
    BY <1>1, <2>3, RuleFacts
  <2> QED BY <2>1, <2>2, <2>4
<1>5. CountInv'
  BY <1>1, <1>3, <1>4 DEF CountInv, Cur
<1>6. RulesType(E, A)'
  <2>1. Holes(ts, b) \in Nat BY HolesNat
  <2> QED BY <1>1, <2>1 DEF RulesType, Counting
<1> QED BY <1>5, <1>6

LEMMA SameCallKept ==
  ASSUME NEW E, NEW A, Parts(E, A), RulesType(E, A), CountInv, SameCall, default_action' = default_action
  PROVE  RulesType(E, A)' /\ CountInv'
<1> DEFINE ts == rules'
<1>1. Counting BY DEF SameCall
<1>2. /\ i \in 1..(Len(rules) - 1) /\ j \in 1..i /\ rules \in Seq(RuleType(E, A))
      /\ ProperRange(Prev) /\ Prev.last <= Cur.first /\ Prev \in RuleType(E, A)
  BY <1>1, AtPass DEF RulesType
<1>3. /\ Absorbed \in RuleType(E, A) /\ Absorbed.first = Prev.first
      /\ Absorbed.last = Prev.last /\ Absorbed.action = Prev.action
  BY <1>2, AbsorbedRule
<1>4. /\ ts \in Seq(RuleType(E, A)) /\ Len(ts) = Len(rules)
      /\ \A k \in 1..Len(rules) : ts[k] = IF k = j THEN Absorbed ELSE rules[k]
  BY <1>2, <1>3, ExceptSeq DEF SameCall
<1>5. ProperRange(ts[j])
  BY <1>2, <1>3, <1>4 DEF ProperRange, IsConditional
<1>6. OrderedTo(rules, j) /\ toAdd = Holes(rules, j) BY <1>1 DEF CountInv, Counting
<1>7. rules[j] = Prev /\ Prev.last <= MAX_SYSCALL_NR
  BY <1>2, <1>6 DEF OrderedTo, Prev
<1>8. OrderedTo(ts, j) /\ Holes(ts, j) = Holes(rules, j)
  BY <1>2, <1>3, <1>4, <1>5, <1>6, <1>7, LastReplaced
<1>9. stage' = stage /\ i' = i + 1 /\ j' = j /\ toAdd' = toAdd BY DEF SameCall
<1> HIDE DEF ts
<1> QED BY <1>1, <1>2, <1>3, <1>4, <1>6, <1>8, <1>9, PassKept DEF ts

LEMMA ExtendRangeKept ==
  ASSUME NEW E, NEW A, Parts(E, A), RulesType(E, A), CountInv, ExtendRange, default_action' = default_action
  PROVE  RulesType(E, A)' /\ CountInv'
<1> DEFINE ts == rules'
           e  == [rules[j] EXCEPT !.last = Cur.last]
<1>1. Counting BY DEF ExtendRange
<1>2. /\ i \in 1..(Len(rules) - 1) /\ j \in 1..i /\ rules \in Seq(RuleType(E, A))
      /\ Cur \in RuleType(E, A) /\ Cur.first = Cur.last /\ Cur.last <= MAX_SYSCALL_NR
      /\ ProperRange(Prev) /\ Prev.last <= Cur.first /\ Prev \in RuleType(E, A)
  BY <1>1, AtPass DEF RulesType
<1>3. /\ e \in RuleType(E, A) /\ e.first = Prev.first /\ e.last = Cur.last /\ e.action = Prev.action
  BY <1>2 DEF RuleType, Prev
<1>4. /\ ts \in Seq(RuleType(E, A)) /\ Len(ts) = Len(rules)
      /\ \A k \in 1..Len(rules) : ts[k] = IF k = j THEN e ELSE rules[k]
  <2>1. ts = [rules EXCEPT ![j] = e] BY DEF ExtendRange
  <2> HIDE DEF e
  <2> QED BY <1>2, <1>3, <2>1, ExceptSeq
<1>5. ProperRange(e)
  <2>1. ~IsConditional(e) BY <1>3 DEF ExtendRange, IsConditional
  <2>2. Prev.first \in Nat /\ Prev.last \in Nat /\ Cur.first \in Nat BY <1>2 DEF RuleType
  <2>3. Prev.first <= Prev.last BY <1>2 DEF ProperRange
  <2> QED BY <1>2, <1>3, <2>1, <2>2, <2>3 DEF ProperRange
<1>6. OrderedTo(rules, j) /\ toAdd = Holes(rules, j) BY <1>1 DEF CountInv, Counting
<1>7. OrderedTo(ts, j) /\ Holes(ts, j) = Holes(rules, j)
  <2>1. rules[j].first = Prev.first BY DEF Prev
  <2> HIDE DEF e, ts
  <2> QED BY <1>2, <1>3, <1>4, <1>5, <1>6, <2>1, LastReplaced
<1>8. stage' = stage /\ i' = i + 1 /\ j' = j /\ toAdd' = toAdd BY DEF ExtendRange
<1>9. ts[j].last <= Cur.first
  <2>1. Cur.first \in Nat BY <1>2 DEF RuleType
  <2> HIDE DEF e, ts
  <2> QED BY <1>2, <1>3, <1>4, <2>1
<1> HIDE DEF ts, e
<1> QED BY <1>1, <1>2, <1>4, <1>6, <1>7, <1>8, <1>9, PassKept DEF ts

(* The current rule, or what became of it, is put behind the ranges up to  *)
(* j, the last of which may have become longer.                            *)
LEMMA NextKept ==
  ASSUME NEW E, NEW A, Parts(E, A), RulesType(E, A), CountInv, Counting,
         NEW p \in RuleType(E, A), NEW c \in RuleType(E, A),
         p.first = Prev.first, ProperRange(p), p.last <= MAX_SYSCALL_NR,
         p.last < c.first, ProperRange(c), c.last = Cur.last,
         rules' = [[rules EXCEPT ![j] = p] EXCEPT ![j + 1] = c],
         i' = i + 1, j' = j + 1, stage' = stage,
         toAdd' = toAdd + (IF p.last + 1 # c.first THEN 1 ELSE 0),
         default_action' = default_action
  PROVE  RulesType(E, A)' /\ CountInv'
<1> DEFINE rs == [rules EXCEPT ![j] = p]
           ts == [rs EXCEPT ![j + 1] = c]
<1>1. /\ i \in 1..(Len(rules) - 1) /\ j \in 1..i /\ rules \in Seq(RuleType(E, A))
      /\ Cur \in RuleType(E, A) /\ Cur.first = Cur.last /\ Cur.last <= MAX_SYSCALL_NR
  BY AtPass DEF RulesType
<1>2. /\ rs \in Seq(RuleType(E, A)) /\ Len(rs) = Len(rules)
      /\ \A k \in 1..Len(rules) : rs[k] = IF k = j THEN p ELSE rules[k]
  BY <1>1, ExceptSeq
<1> HIDE DEF rs
<1>3. /\ ts \in Seq(RuleType(E, A)) /\ Len(ts) = Len(rs)
      /\ \A k \in 1..Len(rs) : ts[k] = IF k = j + 1 THEN c ELSE rs[k]
  <2>1. j + 1 \in 1..Len(rs) BY <1>1, <1>2
  <2> QED BY <1>2, <2>1, ExceptSeq
<1> HIDE DEF ts
<1>4. /\ ts[j] = p /\ ts[j + 1] = c /\ \A k \in 1..(j - 1) : ts[k] = rules[k]
      /\ \A k \in (i + 2)..Len(rules) : ts[k] = rules[k]
  BY <1>1, <1>2, <1>3
<1>5. OrderedTo(rules, j) /\ toAdd = Holes(rules, j) BY DEF CountInv, Counting
<1>6. OrderedTo(ts, j) /\ Holes(ts, j) = Holes(rules, j)
  <2>1. rules[j].first = Prev.first BY DEF Prev
  <2>2. j \in Nat \ {0} /\ j <= Len(rules) /\ j <= Len(ts) BY <1>1, <1>2, <1>3
  <2> QED BY <1>1, <1>3, <1>4, <1>5, <2>1, <2>2, LastReplaced
<1>7. /\ OrderedTo(ts, j + 1)
      /\ Holes(ts, j + 1) = Holes(ts, j) + (IF HoleAfter(ts, j) THEN 1 ELSE 0)
  <2>1. j \in Nat \ {0} /\ j + 1 <= Len(ts) BY <1>1, <1>2, <1>3
  <2> QED BY <1>1, <1>3, <1>4, <1>6, <2>1, RangeAdded
<1>8. toAdd' = Holes(ts, j + 1)
  BY <1>4, <1>5, <1>6, <1>7 DEF HoleAfter
<1>9. ts[j + 1].last <= Cur.first
  <2>1. Cur.first \in Nat BY <1>1 DEF RuleType
  <2> QED BY <1>1, <1>4, <2>1
<1>10. j + 1 \in Nat \ {0} /\ j + 1 <= i + 1 /\ Len(ts) = Len(rules) BY <1>1, <1>2, <1>3
<1>11. rules' = ts BY DEF ts, rs
<1> QED BY <1>3, <1>4, <1>7, <1>8, <1>9, <1>10, <1>11, PassKept

LEMMA Rewritten == ASSUME NEW T, NEW s \in Seq(T), NEW k \in 1..Len(s)
                   PROVE  [s EXCEPT ![k] = s[k]] = s
OBVIOUS

LEMMA GapKept ==
  ASSUME NEW E, NEW A, Parts(E, A), RulesType(E, A), CountInv, default_action' = default_action,
         KeepNext \/ StretchPrev \/ StretchCur \/ CountGap
  PROVE  RulesType(E, A)' /\ CountInv'
<1>1. Counting BY DEF KeepNext, StretchPrev, StretchCur, CountGap, Gap
<1>2. /\ i \in 1..(Len(rules) - 1) /\ j \in 1..i /\ rules \in Seq(RuleType(E, A))
      /\ Cur \in RuleType(E, A) /\ Cur.first = Cur.last /\ Cur.last <= MAX_SYSCALL_NR
      /\ ProperRange(Cur) /\ ProperRange(Prev) /\ Prev.last <= Cur.first /\ Prev \in RuleType(E, A)
  BY <1>1, AtPass DEF RulesType
<1>3. /\ Cur.first \in Nat /\ Prev.first \in Nat /\ Prev.last \in Nat
      /\ default_action # ACTION_CONDITIONAL /\ MAX_SYSCALL_NR \in Nat /\ toAdd \in Nat
  <2>1. Cur.first \in Nat /\ Prev.first \in Nat /\ Prev.last \in Nat BY <1>2, RuleFacts
  <2>2. default_action # ACTION_CONDITIONAL BY DEF RulesType, Parts
  <2> QED BY <2>1, <2>2 DEF RulesType
<1>4. [rules EXCEPT ![j] = Prev] = rules
  <2>1. j \in 1..Len(rules) BY <1>2
  <2> QED BY <1>2, <2>1, Rewritten DEF Prev
<1>5. CASE KeepNext
  <2>1. Prev.last + 1 = Cur.first /\ Prev.last < Cur.first BY <1>3, <1>5 DEF KeepNext
  <2>2. /\ rules' = [[rules EXCEPT ![j] = Prev] EXCEPT ![j + 1] = Cur]
        /\ i' = i + 1 /\ j' = j + 1 /\ stage' = stage
    BY <1>4, <1>5 DEF KeepNext
  <2>3. toAdd' = toAdd + (IF Prev.last + 1 # Cur.first THEN 1 ELSE 0)
    BY <1>3, <1>5, <2>1 DEF KeepNext
  <2>4. Prev.last <= MAX_SYSCALL_NR BY <1>2, <1>3
  <2> QED BY <1>1, <1>2, <2>1, <2>2, <2>3, <2>4, NextKept
<1>6. ASSUME Gap PROVE Prev.last + 1 < Cur.first /\ Prev.last <= MAX_SYSCALL_NR
  BY <1>2, <1>3, <1>6 DEF Gap
<1>7. CASE StretchPrev
  <2> DEFINE p == [rules[j] EXCEPT !.last = Cur.first - 1]
  <2>1. Gap /\ Prev.action = default_action BY <1>7 DEF StretchPrev
  <2>2. Cur.first - 1 \in Nat /\ Cur.first - 1 >= Prev.last BY <1>3, <1>6, <2>1
  <2>3. /\ p \in RuleType(E, A) /\ p.first = Prev.first /\ p.last = Cur.first - 1
        /\ p.action = Prev.action
    <3>1. Cur.first - 1 \in Numbers BY <1>2, <1>3, <2>2
    <3> HIDE DEF Numbers
    <3> QED BY <1>2, <3>1 DEF RuleType, Prev
  <2>4. rules' = [[rules EXCEPT ![j] = p] EXCEPT ![j + 1] = Cur] BY <1>7 DEF StretchPrev
  <2> HIDE DEF p
  <2>5. ProperRange(p)
    <3>1. ~IsConditional(p) BY <1>3, <2>1, <2>3 DEF IsConditional
    <3>2. Prev.first <= Prev.last BY <1>2 DEF ProperRange
    <3> QED BY <1>3, <2>2, <2>3, <3>1, <3>2 DEF ProperRange
  <2>6. p.last <= MAX_SYSCALL_NR /\ p.last < Cur.first /\ p.last + 1 = Cur.first
    BY <1>2, <1>3, <2>2, <2>3
  <2>7. i' = i + 1 /\ j' = j + 1 /\ stage' = stage /\ toAdd' = toAdd BY <1>7 DEF StretchPrev
  <2>8. toAdd' = toAdd + (IF p.last + 1 # Cur.first THEN 1 ELSE 0) BY <1>3, <2>6, <2>7
  <2> QED BY <1>1, <1>2, <2>3, <2>4, <2>5, <2>6, <2>7, <2>8, NextKept
<1>8. CASE StretchCur
  <2> DEFINE c == [Cur EXCEPT !.first = Prev.last + 1]
  <2>1. Gap /\ Cur.action = default_action BY <1>8 DEF StretchCur
  <2>2. /\ c \in RuleType(E, A) /\ c.first = Prev.last + 1 /\ c.last = Cur.last
        /\ c.action = Cur.action
    <3>1. Prev.last + 1 \in Numbers BY <1>2, <1>3, <1>6, <2>1
    <3> HIDE DEF Numbers
    <3> QED BY <1>2, <3>1 DEF RuleType
  <2>3. rules' = [[rules EXCEPT ![j] = Prev] EXCEPT ![j + 1] = c] BY <1>4, <1>8 DEF StretchCur
  <2> HIDE DEF c
  <2>4. ProperRange(c)
    <3>1. ~IsConditional(c) BY <1>3, <2>1, <2>2 DEF IsConditional
    <3> QED BY <1>2, <1>3, <1>6, <2>1, <2>2, <3>1 DEF ProperRange
  <2>5. Prev.last < c.first /\ Prev.last + 1 = c.first /\ Prev.last <= MAX_SYSCALL_NR
    BY <1>3, <1>6, <2>1, <2>2
  <2>6. i' = i + 1 /\ j' = j + 1 /\ stage' = stage /\ toAdd' = toAdd BY <1>8 DEF StretchCur
  <2>7. toAdd' = toAdd + (IF Prev.last + 1 # c.first THEN 1 ELSE 0) BY <1>3, <2>5, <2>6
  <2> QED BY <1>1, <1>2, <2>2, <2>3, <2>4, <2>5, <2>6, <2>7, NextKept
<1>9. CASE CountGap
  <2>1. Prev.last + 1 < Cur.first /\ Prev.last < Cur.first /\ Prev.last <= MAX_SYSCALL_NR
    BY <1>3, <1>6, <1>9 DEF CountGap
  <2>2. /\ rules' = [[rules EXCEPT ![j] = Prev] EXCEPT ![j + 1] = Cur]
        /\ i' = i + 1 /\ j' = j + 1 /\ stage' = stage
    BY <1>4, <1>9 DEF CountGap
  <2>3. toAdd' = toAdd + (IF Prev.last + 1 # Cur.first THEN 1 ELSE 0)
    BY <1>3, <1>9, <2>1 DEF CountGap
  <2> QED BY <1>1, <1>2, <2>1, <2>2, <2>3, NextKept
<1> QED BY <1>5, <1>7, <1>8, <1>9

LEMMA FillFreedKept ==
  ASSUME NEW E, NEW A, Parts(E, A), RulesType(E, A), CountInv, FillFreed, default_action' = default_action
  PROVE  RulesType(E, A)' /\ CountInv'
<1> DEFINE d  == Default(Prev.last + 1, Cur.first - 1)
           rs == [rules EXCEPT ![j + 1] = d]
           ts == [rs EXCEPT ![j + 2] = Cur]
<1>1. Counting /\ Gap /\ j < i BY DEF FillFreed, Gap
<1>2. /\ i \in 1..(Len(rules) - 1) /\ j \in 1..i /\ rules \in Seq(RuleType(E, A))
      /\ Cur \in RuleType(E, A) /\ Cur.first = Cur.last /\ Cur.last <= MAX_SYSCALL_NR
      /\ ProperRange(Cur) /\ ProperRange(Prev) /\ Prev.last <= Cur.first /\ Prev \in RuleType(E, A)
  BY <1>1, AtPass DEF RulesType
<1>3. /\ Cur.first \in Nat /\ Prev.first \in Nat /\ Prev.last \in Nat
      /\ default_action \in A /\ MAX_SYSCALL_NR \in Nat
      /\ Prev.last + 1 < Cur.first
  <2>1. Cur.first \in Nat /\ Prev.first \in Nat /\ Prev.last \in Nat BY <1>2 DEF RuleType
  <2>2. Prev.last + 1 < Cur.first BY <1>1, <1>2, <2>1 DEF Gap
  <2> QED BY <2>1, <2>2, MaxSyscallNr DEF RulesType
<1>4. /\ d \in RuleType(E, A) /\ d.first = Prev.last + 1 /\ d.last = Cur.first - 1
      /\ ~IsConditional(d)
  <2>1. Prev.last + 1 \in Numbers /\ Cur.first - 1 \in Numbers BY <1>2, <1>3
  <2> QED BY <1>3, <2>1, DefaultRule
<1> HIDE DEF d
<1>5. /\ rs \in Seq(RuleType(E, A)) /\ Len(rs) = Len(rules)
      /\ \A k \in 1..Len(rules) : rs[k] = IF k = j + 1 THEN d ELSE rules[k]
  <2>1. j + 1 \in 1..Len(rules) BY <1>2
  <2> QED BY <1>2, <1>4, <2>1, ExceptSeq
<1> HIDE DEF rs
<1>6. /\ ts \in Seq(RuleType(E, A)) /\ Len(ts) = Len(rs)
      /\ \A k \in 1..Len(rs) : ts[k] = IF k = j + 2 THEN Cur ELSE rs[k]
  <2>1. j + 2 \in 1..Len(rs) BY <1>1, <1>2, <1>5
  <2> QED BY <1>2, <1>5, <2>1, ExceptSeq
<1> HIDE DEF ts
<1>7. /\ ts[j] = Prev /\ ts[j + 1] = d /\ ts[j + 2] = Cur
      /\ \A k \in 1..(j - 1) : ts[k] = rules[k]
      /\ \A k \in (i + 2)..Len(rules) : ts[k] = rules[k]
  BY <1>1, <1>2, <1>5, <1>6 DEF Prev
<1>8. OrderedTo(rules, j) /\ toAdd = Holes(rules, j) BY <1>1 DEF CountInv, Counting
<1>9. OrderedTo(ts, j) /\ Holes(ts, j) = Holes(rules, j)
  <2>1. rules[j].first = Prev.first BY DEF Prev
  <2>2. j \in Nat \ {0} /\ j <= Len(rules) /\ j <= Len(ts) BY <1>2, <1>5, <1>6
  <2>3. Prev.last <= MAX_SYSCALL_NR BY <1>2, <1>3
  <2> QED BY <1>2, <1>6, <1>7, <1>8, <2>1, <2>2, <2>3, LastReplaced
<1>10. OrderedTo(ts, j + 1) /\ Holes(ts, j + 1) = Holes(ts, j)
  <2>1. j \in Nat \ {0} /\ j + 1 <= Len(ts) BY <1>2, <1>5, <1>6
  <2>2. ts[j].last < ts[j + 1].first /\ ~HoleAfter(ts, j) BY <1>3, <1>4, <1>7 DEF HoleAfter
  <2>3. ProperRange(ts[j + 1]) /\ ts[j + 1].last <= MAX_SYSCALL_NR
    BY <1>2, <1>3, <1>4, <1>7 DEF ProperRange
  <2>4. Holes(ts, j) \in Nat BY <1>2, HolesNat
  <2> QED BY <1>6, <1>9, <2>1, <2>2, <2>3, <2>4, RangeAdded
<1>11. OrderedTo(ts, j + 2) /\ Holes(ts, j + 2) = Holes(ts, j + 1)
  <2>1. j + 1 \in Nat \ {0} /\ (j + 1) + 1 <= Len(ts) /\ (j + 1) + 1 = j + 2
    BY <1>1, <1>2, <1>5, <1>6
  <2>2. ts[j + 1].last < ts[(j + 1) + 1].first /\ ~HoleAfter(ts, j + 1)
    <3>1. ts[j + 1].last = Cur.first - 1 /\ ts[(j + 1) + 1].first = Cur.first
      BY <1>4, <1>7, <2>1
    <3>2. Cur.first \in Int BY <1>3
    <3> QED BY <3>1, <3>2 DEF HoleAfter
  <2>3. ProperRange(ts[(j + 1) + 1]) /\ ts[(j + 1) + 1].last <= MAX_SYSCALL_NR
    BY <1>2, <1>7, <2>1
  <2>4. Holes(ts, j + 1) \in Nat BY <1>2, HolesNat
  <2>5. /\ OrderedTo(ts, (j + 1) + 1)
        /\ Holes(ts, (j + 1) + 1) = Holes(ts, j + 1) + (IF HoleAfter(ts, j + 1) THEN 1 ELSE 0)
    BY <1>6, <1>10, <2>1, <2>2, <2>3, RangeAdded
  <2> QED BY <2>1, <2>2, <2>4, <2>5
<1>12. ts[j + 2].last <= Cur.first BY <1>2, <1>3, <1>7
<1>13. j + 2 \in Nat \ {0} /\ j + 2 <= i + 1 /\ Len(ts) = Len(rules)
  BY <1>1, <1>2, <1>5, <1>6
<1>14. rules' = ts /\ i' = i + 1 /\ j' = j + 2 /\ stage' = stage /\ toAdd' = toAdd
  BY DEF ts, rs, d, FillFreed
<1>15. toAdd' = Holes(ts, j + 2) BY <1>8, <1>9, <1>10, <1>11, <1>14
<1> QED BY <1>1, <1>6, <1>7, <1>11, <1>12, <1>13, <1>14, <1>15, PassKept

-----------------------------------------------------------------------------
(* Between the two loops: the ends of the list and the slots.              *)

LEMMA FirstReplaced ==
  ASSUME NEW E, NEW A, NEW rs \in Seq(RuleType(E, A)), NEW ts \in Seq(RuleType(E, A)), NEW a \in Nat \ {0},
         a <= Len(rs), a <= Len(ts), OrderedTo(rs, a),
         \A k \in 2..a : ts[k] = rs[k],
         ts[1].last = rs[1].last, ProperRange(ts[1])
  PROVE  OrderedTo(ts, a) /\ Holes(ts, a) = Holes(rs, a)
<1>1. \A k \in 1..(a - 1) : rs[k + 1].first = ts[k + 1].first /\ rs[k].last = ts[k].last
  <2> TAKE k \in 1..(a - 1)
  <2>1. k + 1 \in 2..a /\ (k = 1 \/ k \in 2..a) OBVIOUS
  <2>2. ts[k + 1] = rs[k + 1] BY <2>1
  <2>3. rs[k].last = ts[k].last
    <3>1. CASE k = 1 BY <3>1
    <3>2. CASE k \in 2..a BY <3>2
    <3> QED BY <2>1, <3>1, <3>2
  <2> QED BY <2>2, <2>3
<1>2. Holes(ts, a) = Holes(rs, a)
  <2>1. \A k \in 1..(a - 1) : HoleAfter(rs, k) <=> HoleAfter(ts, k)
    BY <1>1 DEF HoleAfter
  <2>2. a \in Int OBVIOUS
  <2> QED BY <2>1, <2>2, HolesSame
<1>3. OrderedTo(ts, a)
  <2> SUFFICES ASSUME NEW k \in 1..a
               PROVE  /\ ProperRange(ts[k]) /\ ts[k].last <= MAX_SYSCALL_NR
                      /\ k < a => ts[k].last < ts[k + 1].first
    BY DEF OrderedTo
  <2>1. /\ ProperRange(rs[k]) /\ rs[k].last <= MAX_SYSCALL_NR
        /\ k < a => rs[k].last < rs[k + 1].first
    BY DEF OrderedTo
  <2>2. ProperRange(ts[k]) /\ ts[k].last = rs[k].last
    <3>1. CASE k = 1 BY <3>1
    <3>2. CASE k \in 2..a BY <2>1, <3>2
    <3> QED BY <3>1, <3>2
  <2>3. k < a => ts[k + 1].first = rs[k + 1].first BY <1>1
  <2> QED BY <2>1, <2>2, <2>3
<1> QED BY <1>2, <1>3

(* A common beginning is in order in both, and has the same holes. *)
LEMMA PrefixSame ==
  ASSUME NEW rs, NEW ts, NEW a \in Nat, OrderedTo(rs, a), \A k \in 1..a : ts[k] = rs[k]
  PROVE  OrderedTo(ts, a) /\ Holes(ts, a) = Holes(rs, a)
<1>1. \A k \in 1..(a - 1) : ts[k] = rs[k] /\ ts[k + 1] = rs[k + 1]
  OBVIOUS
<1>2. Holes(ts, a) = Holes(rs, a)
  <2>1. \A k \in 1..(a - 1) : HoleAfter(rs, k) <=> HoleAfter(ts, k)
    BY <1>1 DEF HoleAfter
  <2>2. a \in Int OBVIOUS
  <2> QED BY <2>1, <2>2, HolesSame
<1>3. OrderedTo(ts, a)
  BY <1>1 DEF OrderedTo
<1> QED BY <1>2, <1>3

(* The same with the hypothesis under a name.                              *)
Begins(ts, rs, a) == \A k \in 1..a : ts[k] = rs[k]

LEMMA BeginningSame ==
  ASSUME NEW rs, NEW ts, NEW a \in Nat, OrderedTo(rs, a), Begins(ts, rs, a)
  PROVE  OrderedTo(ts, a) /\ Holes(ts, a) = Holes(rs, a)
BY PrefixSame DEF Begins

(* Two rules that decide alike, and one that gives the default.            *)
Alike(r, t)  == r.action = t.action /\ r.exprs = t.exprs
IsDefault(r) == ~IsConditional(r) /\ r.action = default_action

(* What normalize_rules_count_missing leaves of the rules 1 to n, which     *)
(* may grow at the two ends, and the default rule that may follow the slots.*)
Grown(rs, ts, n) ==
  \A k \in 1..n :
    /\ Alike(rs[k], ts[k])
    /\ ts[k].first = rs[k].first \/ (k = 1 /\ IsDefault(rs[k]) /\ ts[k].first = 0)
    /\ ts[k].last = rs[k].last \/ (k = n /\ IsDefault(rs[k]) /\ ts[k].last = MAX_SYSCALL_NR)

EndAdded(ts, n) ==
  ts[n].last # MAX_SYSCALL_NR => /\ IsDefault(ts[Len(ts)])
                                 /\ ts[Len(ts)].first = ts[n].last + 1

LEMMA EndsKept ==
  ASSUME NEW E, NEW A, Parts(E, A), RulesType(E, A), CountInv, Ends, default_action' = default_action
  PROVE  /\ RulesType(E, A)' /\ FillInv'
         /\ Grown(rules, rules', j) /\ EndAdded(rules', j)
<1> DEFINE kept   == SubSeq(rules, 1, j)
           front  == IF kept[1].action = default_action
                     THEN [kept EXCEPT ![1].first = 0] ELSE kept
           closed == IF front[j].action = default_action
                     THEN [front EXCEPT ![j].last = MAX_SYSCALL_NR] ELSE front
           holes  == toAdd + (IF closed[1].first # 0 THEN 1 ELSE 0)
           slots  == [k \in 1..holes |-> Default(0, 0)]
           atEnd  == closed[j].last # MAX_SYSCALL_NR
           tail   == IF atEnd THEN <<Default(closed[j].last + 1, MAX_SYSCALL_NR)>> ELSE <<>>
           R      == RuleType(E, A)
<1>1. /\ rules \in Seq(R) /\ j \in Nat \ {0} /\ j <= Len(rules)
      /\ toAdd \in Nat /\ MAX_SYSCALL_NR \in Nat
      /\ default_action \in A /\ default_action # ACTION_CONDITIONAL
      /\ OrderedTo(rules, j) /\ toAdd = Holes(rules, j)
  <2>1. stage = "count" /\ i = Len(rules) BY DEF Ends
  <2>2. default_action # ACTION_CONDITIONAL BY DEF RulesType, Parts
  <2> QED BY <2>1, <2>2, MaxSyscallNr DEF RulesType, CountInv
<1>2. kept \in Seq(R) /\ Len(kept) = j /\ \A k \in 1..j : kept[k] = rules[k]
  <2>1. 1 \in Int /\ j \in Int /\ \A k \in 1..j : rules[k] \in R BY <1>1
  <2>2. /\ kept \in Seq(R) /\ Len(kept) = IF 1 <= j THEN j - 1 + 1 ELSE 0
        /\ \A k \in 1..(j - 1 + 1) : kept[k] = rules[1 + k - 1]
    BY <2>1, SubSeqProperties
  <2> QED BY <1>1, <2>2
<1> HIDE DEF kept
<1>3. OrderedTo(kept, j) /\ Holes(kept, j) = Holes(rules, j)
  <2>1. j \in Nat /\ OrderedTo(rules, j) /\ \A k \in 1..j : kept[k] = rules[k] BY <1>1, <1>2
  <2> QED BY <2>1, PrefixSame
<1>4. /\ front \in Seq(R) /\ Len(front) = j /\ OrderedTo(front, j) /\ Holes(front, j) = Holes(kept, j)
      /\ \A k \in 1..j : /\ Alike(rules[k], front[k]) /\ front[k].last = rules[k].last
                          /\ \/ front[k].first = rules[k].first
                             \/ k = 1 /\ IsDefault(rules[k]) /\ front[k].first = 0
  <2>1. CASE kept[1].action # default_action BY <1>2, <1>3, <2>1 DEF Alike
  <2>2. CASE kept[1].action = default_action
    <3> DEFINE e == [kept[1] EXCEPT !.first = 0]
    <3>1. kept[1] \in R BY <1>1, <1>2
    <3>2. /\ e \in R /\ e.first = 0 /\ e.last = kept[1].last /\ e.action = kept[1].action
          /\ e.exprs = kept[1].exprs
      BY <3>1 DEF RuleType
    <3>3. front = [kept EXCEPT ![1] = e] BY <2>2
    <3> HIDE DEF e, front
    <3>4. /\ front \in Seq(R) /\ Len(front) = Len(kept)
          /\ \A k \in 1..Len(kept) : front[k] = IF k = 1 THEN e ELSE kept[k]
      <4>1. 1 \in 1..Len(kept) BY <1>1, <1>2
      <4> QED BY <1>2, <3>2, <3>3, <4>1, ExceptSeq
    <3>5. front[1] = e BY <1>1, <1>2, <3>4
    <3>6. ProperRange(e)
      <4>1. ~IsConditional(e) BY <1>1, <2>2, <3>2 DEF IsConditional
      <4>2. e.last \in Nat BY <3>2 DEF RuleType
      <4> QED BY <3>2, <4>1, <4>2 DEF ProperRange
    <3>7. OrderedTo(front, j) /\ Holes(front, j) = Holes(kept, j)
      BY <1>1, <1>2, <1>3, <3>2, <3>4, <3>5, <3>6, FirstReplaced
    <3>8. ASSUME NEW k \in 1..j
          PROVE  /\ Alike(rules[k], front[k]) /\ front[k].last = rules[k].last
                 /\ \/ front[k].first = rules[k].first
                    \/ k = 1 /\ IsDefault(rules[k]) /\ front[k].first = 0
      <4>1. CASE k = 1
        <5>1. rules[1] = kept[1] BY <1>2, <4>1
        <5>2. IsDefault(rules[1]) BY <1>1, <2>2, <5>1 DEF IsDefault, IsConditional
        <5> QED BY <3>2, <3>5, <4>1, <5>1, <5>2 DEF Alike
      <4>2. CASE k # 1
        <5>1. front[k] = rules[k] BY <1>2, <3>4, <4>2
        <5> QED BY <5>1 DEF Alike
      <4> QED BY <4>1, <4>2
    <3> QED BY <1>2, <3>4, <3>7, <3>8
  <2> QED BY <2>1, <2>2
<1> HIDE DEF front
<1>5. /\ closed \in Seq(R) /\ Len(closed) = j /\ OrderedTo(closed, j) /\ Holes(closed, j) = Holes(front, j)
      /\ \A k \in 1..j : /\ Alike(front[k], closed[k]) /\ closed[k].first = front[k].first
                          /\ \/ closed[k].last = front[k].last
                             \/ k = j /\ IsDefault(front[k]) /\ closed[k].last = MAX_SYSCALL_NR
  <2>1. CASE front[j].action # default_action BY <1>4, <2>1 DEF Alike
  <2>2. CASE front[j].action = default_action
    <3> DEFINE e == [front[j] EXCEPT !.last = MAX_SYSCALL_NR]
    <3>1. front[j] \in R BY <1>1, <1>4
    <3>2. /\ e \in R /\ e.last = MAX_SYSCALL_NR /\ e.first = front[j].first
          /\ e.action = front[j].action /\ e.exprs = front[j].exprs
      <4>1. MAX_SYSCALL_NR \in Numbers OBVIOUS
      <4> HIDE DEF Numbers
      <4> QED BY <3>1, <4>1 DEF RuleType
    <3>3. closed = [front EXCEPT ![j] = e] BY <2>2
    <3> HIDE DEF e, closed
    <3>4. /\ closed \in Seq(R) /\ Len(closed) = Len(front)
          /\ \A k \in 1..Len(front) : closed[k] = IF k = j THEN e ELSE front[k]
      <4>1. j \in 1..Len(front) BY <1>1, <1>4
      <4> QED BY <1>4, <3>2, <3>3, <4>1, ExceptSeq
    <3>5. closed[j] = e BY <1>1, <1>4, <3>4
    <3>6. ProperRange(e)
      <4>1. ~IsConditional(e) BY <1>1, <2>2, <3>2 DEF IsConditional
      <4>2. front[j].first \in Nat /\ front[j].last \in Nat BY <3>1 DEF RuleType
      <4>3. front[j].first <= front[j].last /\ front[j].last <= MAX_SYSCALL_NR
        BY <1>1, <1>4 DEF OrderedTo, ProperRange
      <4> QED BY <1>1, <3>2, <4>1, <4>2, <4>3 DEF ProperRange
    <3>7. e.last <= MAX_SYSCALL_NR BY <1>1, <3>2
    <3>8. \A k \in 1..(j - 1) : closed[k] = front[k] BY <1>4, <3>4
    <3>9. /\ closed[j].first = front[j].first /\ ProperRange(closed[j])
          /\ closed[j].last <= MAX_SYSCALL_NR
      BY <3>2, <3>5, <3>6, <3>7
    <3>10. /\ front \in Seq(RuleType(E, A)) /\ closed \in Seq(RuleType(E, A)) /\ j \in Nat \ {0}
           /\ j <= Len(front) /\ j <= Len(closed) /\ OrderedTo(front, j)
      BY <1>1, <1>4, <3>4
    <3>11. OrderedTo(closed, j) /\ Holes(closed, j) = Holes(front, j)
      BY <3>8, <3>9, <3>10, LastReplaced
    <3>12. ASSUME NEW k \in 1..j
           PROVE  /\ Alike(front[k], closed[k]) /\ closed[k].first = front[k].first
                  /\ \/ closed[k].last = front[k].last
                     \/ k = j /\ IsDefault(front[k]) /\ closed[k].last = MAX_SYSCALL_NR
      <4>1. CASE k = j
        <5>1. IsDefault(front[j]) BY <1>1, <2>2 DEF IsDefault, IsConditional
        <5> QED BY <3>2, <3>5, <4>1, <5>1 DEF Alike
      <4>2. CASE k # j
        <5>1. closed[k] = front[k] BY <1>4, <3>4, <4>2
        <5> QED BY <5>1 DEF Alike
      <4> QED BY <4>1, <4>2
    <3> QED BY <1>4, <3>4, <3>11, <3>12
  <2> QED BY <2>1, <2>2
<1> HIDE DEF closed
<1>6. holes \in Nat BY <1>1
<1> HIDE DEF holes
<1>7. slots \in Seq(R) /\ Len(slots) = holes
  <2>1. Default(0, 0) \in R BY <1>1, DefaultRule
  <2> QED BY <1>6, <2>1
<1>8. closed[j] \in R /\ closed[j].last \in Nat /\ closed[j].last <= MAX_SYSCALL_NR
  <2>1. closed[j] \in R BY <1>1, <1>5
  <2>2. closed[j].last \in Nat BY <2>1 DEF RuleType
  <2>3. j \in 1..j /\ OrderedTo(closed, j) BY <1>1, <1>5
  <2>4. closed[j].last <= MAX_SYSCALL_NR BY <2>3 DEF OrderedTo
  <2> QED BY <2>1, <2>2, <2>4
<1>9. /\ tail \in Seq(R) /\ Len(tail) = IF atEnd THEN 1 ELSE 0
      /\ atEnd => tail[1] = Default(closed[j].last + 1, MAX_SYSCALL_NR)
  <2>1. CASE atEnd
    <3>1. closed[j].last + 1 \in Numbers /\ MAX_SYSCALL_NR \in Numbers BY <1>8, <2>1
    <3>2. Default(closed[j].last + 1, MAX_SYSCALL_NR) \in R BY <1>1, <3>1, DefaultRule
    <3> QED BY <2>1, <3>2
  <2>2. CASE ~atEnd BY <2>2
  <2> QED BY <2>1, <2>2
<1> HIDE DEF slots, tail
<1> DEFINE all == closed \o slots
<1>10. /\ all \in Seq(R) /\ Len(all) = j + holes
       /\ \A k \in 1..j : all[k] = closed[k]
  <2>1. /\ all \in Seq(R) /\ Len(all) = Len(closed) + Len(slots)
        /\ \A k \in 1..(Len(closed) + Len(slots)) :
             all[k] = IF k <= Len(closed) THEN closed[k] ELSE slots[k - Len(closed)]
    BY <1>5, <1>7, ConcatProperties
  <2> QED BY <1>1, <1>5, <1>6, <1>7, <2>1
<1> HIDE DEF all
<1>11. /\ rules' = all \o tail /\ toAdd' = holes /\ i' = j /\ j' = 0 /\ stage' = "fill"
  BY DEF Ends, all, tail, slots, holes, closed, front, kept
<1>12. /\ rules' \in Seq(R) /\ Len(rules') = j + holes + (IF atEnd THEN 1 ELSE 0)
       /\ \A k \in 1..j : rules'[k] = closed[k]
       /\ atEnd => rules'[j + holes + 1] = Default(closed[j].last + 1, MAX_SYSCALL_NR)
  <2> DEFINE ts == all \o tail
  <2>1. /\ ts \in Seq(R) /\ Len(ts) = Len(all) + Len(tail)
        /\ \A k \in 1..(Len(all) + Len(tail)) :
             ts[k] = IF k <= Len(all) THEN all[k] ELSE tail[k - Len(all)]
    BY <1>9, <1>10, ConcatProperties
  <2>2. rules' = ts BY <1>11
  <2> HIDE DEF ts, atEnd
  <2>3. Len(ts) = j + holes + (IF atEnd THEN 1 ELSE 0) BY <1>9, <1>10, <2>1
  <2>4. ASSUME NEW k \in 1..j PROVE ts[k] = closed[k]
    <3>1. k \in 1..(Len(all) + Len(tail)) /\ k <= Len(all) BY <1>1, <1>6, <1>9, <1>10
    <3> QED BY <1>10, <2>1, <3>1
  <2>5. ASSUME atEnd PROVE ts[j + holes + 1] = Default(closed[j].last + 1, MAX_SYSCALL_NR)
    <3>1. ts[j + holes + 1] = tail[1] BY <1>1, <1>6, <1>9, <1>10, <2>1, <2>5
    <3> QED BY <1>9, <2>5, <3>1
  <2> QED BY <2>1, <2>2, <2>3, <2>4, <2>5
<1> HIDE DEF atEnd
<1>13. OrderedTo(rules', j) /\ Holes(rules', j) = toAdd
  <2>1. j \in Nat /\ OrderedTo(closed, j) /\ \A k \in 1..j : rules'[k] = closed[k]
    BY <1>1, <1>5, <1>12
  <2>2. OrderedTo(rules', j) /\ Holes(rules', j) = Holes(closed, j) BY <2>1, PrefixSame
  <2> QED BY <1>1, <1>3, <1>4, <1>5, <2>2
<1>14. ASSUME atEnd
       PROVE  /\ rules'[j + holes + 1].first = closed[j].last + 1
              /\ rules'[j + holes + 1].last = MAX_SYSCALL_NR
              /\ ProperRange(rules'[j + holes + 1]) /\ ~IsConditional(rules'[j + holes + 1])
  <2>1. closed[j].last + 1 \in Nat /\ closed[j].last + 1 <= MAX_SYSCALL_NR
    BY <1>1, <1>8, <1>14 DEF atEnd
  <2> QED BY <1>1, <1>12, <1>14, <2>1, DefaultRule DEF ProperRange
<1>15. ClosedFrom(rules', j + holes + 1)
  BY <1>1, <1>6, <1>12, <1>14 DEF ClosedFrom
<1>16. RulesType(E, A)'
  BY <1>1, <1>6, <1>11, <1>12 DEF RulesType
<1>17. \/ j + holes + 1 = Len(rules') + 1 /\ rules'[j].last = MAX_SYSCALL_NR
       \/ j + holes + 1 = Len(rules') /\ rules'[j + holes + 1].first = rules'[j].last + 1
  BY <1>1, <1>6, <1>12, <1>14 DEF atEnd
<1>18. holes = Holes(rules', j) + (IF rules'[1].first # 0 THEN 1 ELSE 0)
  <2>1. rules'[1] = closed[1] BY <1>1, <1>12
  <2> QED BY <1>13, <2>1 DEF holes
<1>19. FillInv'
  <2>1. Holes(rules', j) \in Int /\ j # 0 /\ j > 0 BY <1>1, <1>13
  <2>2. FirstFinal' = j + holes + 1 BY <1>11 DEF FirstFinal
  <2>3. NextHole' = 0 BY <1>11 DEF NextHole, HoleAbove
  <2>4. FrontHole' = (IF rules'[1].first # 0 THEN 1 ELSE 0) BY <1>11, <2>1 DEF FrontHole
  <2>5. toAdd' = Holes(rules', i') + NextHole' + FrontHole'
    <3>1. holes = Holes(rules', j) + 0 + FrontHole' BY <1>18, <2>1, <2>4
    <3>2. i' = j /\ toAdd' = holes BY <1>11
    <3> QED BY <2>3, <3>1, <3>2
  <2>6. OrderedTo(rules', i') /\ ClosedFrom(rules', FirstFinal') BY <1>11, <1>13, <1>15, <2>2
  <2>7. /\ j' = 0 /\ i' > 0
        /\ \/ FirstFinal' = Len(rules') + 1 /\ rules'[i'].last = MAX_SYSCALL_NR
           \/ FirstFinal' = Len(rules') /\ rules'[FirstFinal'].first = rules'[i'].last + 1
    BY <1>11, <1>17, <2>1, <2>2
  <2> QED BY <2>5, <2>6, <2>7 DEF FillInv
<1>20. Grown(rules, rules', j)
  <2> SUFFICES ASSUME NEW k \in 1..j
               PROVE  /\ Alike(rules[k], closed[k])
                      /\ \/ closed[k].first = rules[k].first
                         \/ k = 1 /\ IsDefault(rules[k]) /\ closed[k].first = 0
                      /\ \/ closed[k].last = rules[k].last
                         \/ k = j /\ IsDefault(rules[k]) /\ closed[k].last = MAX_SYSCALL_NR
    BY <1>12 DEF Grown
  <2> QED BY <1>4, <1>5 DEF Alike, IsDefault, IsConditional
<1>21. EndAdded(rules', j)
  <2> SUFFICES ASSUME rules'[j].last # MAX_SYSCALL_NR
               PROVE  IsDefault(rules'[Len(rules')]) /\ rules'[Len(rules')].first = rules'[j].last + 1
    BY DEF EndAdded
  <2>1. rules'[j] = closed[j] BY <1>1, <1>12
  <2>2. atEnd BY <2>1 DEF atEnd
  <2>3. Len(rules') = j + holes + 1 BY <1>12, <2>2
  <2>4. rules'[j + holes + 1].action = default_action
    BY <1>12, <2>2 DEF Default, Rule
  <2> QED BY <1>14, <2>1, <2>2, <2>3, <2>4 DEF IsDefault
<1> QED BY <1>16, <1>19, <1>20, <1>21

-----------------------------------------------------------------------------
(* add_missing_rules.                                                      *)

LEMMA ClosedRule ==
  ASSUME NEW E, NEW A, Parts(E, A), RulesType(E, A), i \in 1..Len(rules)
  PROVE  /\ Closed \in RuleType(E, A)
         /\ Closed.first = rules[i].first /\ Closed.last = rules[i].last
         /\ Closed.action = rules[i].action
         /\ IsConditional(Closed) => HasCatchAll(Closed)
<1>1. rules[i] \in RuleType(E, A) /\ default_action \in A BY DEF RulesType
<1>2. CASE IsConditional(rules[i]) BY <1>1, <1>2, CatchAll DEF Closed
<1>3. CASE ~IsConditional(rules[i]) BY <1>1, <1>3 DEF Closed
<1> QED BY <1>2, <1>3

LEMMA OrderedBelow == ASSUME NEW rs, NEW a \in Nat, OrderedTo(rs, a + 1)
                      PROVE  OrderedTo(rs, a)
BY DEF OrderedTo

(* What the invariant says when rule i is to be moved.                     *)
LEMMA AtMove ==
  ASSUME NEW E, NEW A, Parts(E, A), RulesType(E, A), FillInv, Filling
  PROVE  /\ i \in 1..Len(rules) /\ i \in Nat \ {0} /\ rules \in Seq(RuleType(E, A))
         /\ rules[i] \in RuleType(E, A) /\ FirstFinal \in Nat /\ FirstFinal <= Len(rules) + 1
         /\ OrderedTo(rules, i) /\ ClosedFrom(rules, FirstFinal)
         /\ ProperRange(rules[i]) /\ rules[i].last <= MAX_SYSCALL_NR
         /\ Holes(rules, i) \in Nat /\ NextHole \in 0..1 /\ FrontHole \in 0..1
         /\ toAdd = Holes(rules, i) + NextHole + FrontHole
<1>1. i \in Nat \ {0} /\ toAdd \in Nat /\ rules \in Seq(RuleType(E, A)) /\ stage = "fill"
  BY DEF RulesType, Filling
<1>2. FirstFinal = i + toAdd + 1 /\ FirstFinal <= Len(rules) + 1
  BY <1>1 DEF FillInv, FirstFinal
<1>3. OrderedTo(rules, i) /\ ClosedFrom(rules, FirstFinal)
      /\ toAdd = Holes(rules, i) + NextHole + FrontHole
  BY <1>1 DEF FillInv
<1>4. ProperRange(rules[i]) /\ rules[i].last <= MAX_SYSCALL_NR
  BY <1>1, <1>3 DEF OrderedTo
<1>5. i \in 1..Len(rules) BY <1>1, <1>2
<1>6. rules[i] \in RuleType(E, A) BY <1>1, <1>5
<1>7. Holes(rules, i) \in Nat BY <1>1, HolesNat
<1> QED BY <1>1, <1>2, <1>3, <1>4, <1>5, <1>6, <1>7 DEF NextHole, FrontHole

(* Rule i comes to lie at t, just below what is final.                     *)
LEMMA MoveKept ==
  ASSUME NEW E, NEW A, Parts(E, A), RulesType(E, A), FillInv, Filling,
         NEW ts \in Seq(RuleType(E, A)), NEW t \in Nat, i <= t, t <= Len(ts),
         Len(ts) = Len(rules), ts[t] = Closed,
         \A k \in 1..(i - 1) : ts[k] = rules[k],
         ClosedFrom(ts, t + 1),
         rules[i].last = IF t = Len(ts) THEN MAX_SYSCALL_NR ELSE ts[t + 1].first - 1,
         rules' = ts, stage' = stage, i' = i - 1, j' = t, toAdd' = t - i,
         t - i = Holes(rules, i) + FrontHole, default_action' = default_action
  PROVE  RulesType(E, A)' /\ FillInv'
<1>1. /\ i \in 1..Len(rules) /\ i \in Nat \ {0} /\ rules \in Seq(RuleType(E, A))
      /\ OrderedTo(rules, i) /\ ProperRange(rules[i]) /\ Holes(rules, i) \in Nat
      /\ rules[i] \in RuleType(E, A)
  BY AtMove
<1>2. /\ Closed.first = rules[i].first /\ Closed.last = rules[i].last
      /\ Closed.action = rules[i].action
      /\ IsConditional(Closed) => HasCatchAll(Closed)
  BY <1>1, ClosedRule
<1>3. RulesType(E, A)'
  BY <1>1 DEF RulesType
<1>4. FirstFinal' = t /\ t # 0 BY <1>1 DEF FirstFinal
<1>5. OrderedTo(rules', i') /\ Holes(ts, i - 1) = Holes(rules, i - 1)
  <2> DEFINE n == i - 1
  <2>1. n \in Nat /\ n + 1 = i /\ OrderedTo(rules, i) BY <1>1
  <2>2. \A k \in 1..n : ts[k] = rules[k] OBVIOUS
  <2>3. i' = n OBVIOUS
  <2> HIDE DEF n
  <2>4. OrderedTo(rules, n) BY <2>1, OrderedBelow
  <2>5. n \in Nat BY <2>1
  <2>6. Begins(ts, rules, n) BY <2>2 DEF Begins
  <2>7. OrderedTo(ts, n) /\ Holes(ts, n) = Holes(rules, n) BY <2>4, <2>5, <2>6, BeginningSame
  <2> QED BY <2>3, <2>7 DEF n
<1>6. ClosedFrom(rules', t)
  <2> SUFFICES ASSUME NEW k \in t..Len(ts)
               PROVE  /\ ProperRange(ts[k])
                      /\ IsConditional(ts[k]) => HasCatchAll(ts[k])
                      /\ ts[k].last = IF k = Len(ts) THEN MAX_SYSCALL_NR ELSE ts[k + 1].first - 1
    BY DEF ClosedFrom
  <2>1. CASE k = t
    <3>1. ts[k] = Closed BY <2>1
    <3>2. ProperRange(Closed) BY <1>1, <1>2 DEF ProperRange, IsConditional
    <3> QED BY <1>2, <2>1, <3>1, <3>2
  <2>2. CASE k \in (t + 1)..Len(ts) BY <2>2 DEF ClosedFrom
  <2> QED BY <2>1, <2>2
<1>7. i' > 0 => rules'[i'].last < rules'[j'].first
  <2> HAVE i' > 0
  <2>1. i - 1 \in 1..i /\ i - 1 < i /\ (i - 1) + 1 = i BY <1>1
  <2>2. rules[i - 1].last < rules[i].first BY <1>1, <2>1 DEF OrderedTo
  <2>3. ts[i - 1] = rules[i - 1] BY <1>1
  <2> QED BY <1>2, <2>2, <2>3
<1>8. /\ Holes(rules', i') \in Int
      /\ Holes(rules', i') + NextHole' = Holes(rules, i)
  <2>1. CASE i = 1
    <3>1. Holes(rules, 1) = 0 /\ Holes(ts, 0) = 0 BY HolesNat
    <3>2. NextHole' = 0 /\ i' = 0 BY <2>1 DEF NextHole
    <3> QED BY <2>1, <3>1, <3>2
  <2>2. CASE i # 1
    <3>1. i - 1 \in Nat /\ i - 1 > 0 /\ (i - 1) + 1 = i BY <1>1, <2>2
    <3>2. Holes(rules, (i - 1) + 1)
          = Holes(rules, i - 1) + (IF HoleAfter(rules, i - 1) THEN 1 ELSE 0)
      BY <3>1, HolesStep
    <3>3. Holes(ts, i - 1) = Holes(rules, i - 1) BY <1>5
    <3>4. HoleAbove' <=> HoleAfter(rules, i - 1)
      <4>1. i - 1 \in 1..(i - 1) BY <3>1
      <4>2. rules'[i'].last = rules[i - 1].last BY <4>1
      <4>3. rules'[j'].first = rules[i].first /\ j' > 0 BY <1>1, <1>2, <1>4
      <4> QED BY <3>1, <4>2, <4>3 DEF HoleAbove, HoleAfter
    <3>5. NextHole' = IF HoleAfter(rules, i - 1) THEN 1 ELSE 0
      BY <3>1, <3>4 DEF NextHole
    <3>6. Holes(ts, i - 1) \in Nat BY <3>1, HolesNat
    <3> QED BY <3>1, <3>2, <3>3, <3>5, <3>6
  <2> QED BY <2>1, <2>2
<1>9. FrontHole' = FrontHole /\ FrontHole \in Int
  <2>1. CASE i = 1
    <3>1. rules'[FirstFinal'].first = rules[1].first BY <1>2, <1>4, <2>1
    <3> QED BY <2>1, <3>1 DEF FrontHole
  <2>2. CASE i # 1
    <3>1. 1 \in 1..(i - 1) /\ i' # 0 /\ i # 0 BY <1>1, <2>2
    <3>2. rules'[1] = rules[1] BY <3>1
    <3> QED BY <3>1, <3>2 DEF FrontHole
  <2> QED BY <2>1, <2>2
<1>10. toAdd' = Holes(rules', i') + NextHole' + FrontHole'
  BY <1>8, <1>9
<1>11. j' = FirstFinal' /\ j' <= Len(rules') /\ ClosedFrom(rules', FirstFinal') BY <1>4, <1>6
<1>12. FillInv'
  BY <1>5, <1>7, <1>10, <1>11 DEF FillInv
<1> QED BY <1>3, <1>12

LEMMA MoveUpKept ==
  ASSUME NEW E, NEW A, Parts(E, A), RulesType(E, A), FillInv, MoveUp, default_action' = default_action
  PROVE  RulesType(E, A)' /\ FillInv'
<1> DEFINE t  == i + toAdd
           ts == [rules EXCEPT ![t] = Closed]
<1>1. Filling /\ ~HoleAbove /\ stage = "fill" BY DEF MoveUp, Filling
<1>2. /\ i \in 1..Len(rules) /\ i \in Nat \ {0} /\ rules \in Seq(RuleType(E, A))
      /\ FirstFinal \in Nat /\ FirstFinal <= Len(rules) + 1 /\ ClosedFrom(rules, FirstFinal)
      /\ rules[i] \in RuleType(E, A)
      /\ Holes(rules, i) \in Nat /\ FrontHole \in 0..1 /\ toAdd \in Nat
      /\ toAdd = Holes(rules, i) + NextHole + FrontHole
  BY <1>1, AtMove DEF RulesType
<1>3. FirstFinal = t + 1 /\ t \in 1..Len(rules) BY <1>2 DEF FirstFinal
<1>4. Closed \in RuleType(E, A) BY <1>2, ClosedRule
<1>5. /\ ts \in Seq(RuleType(E, A)) /\ Len(ts) = Len(rules)
      /\ \A k \in 1..Len(rules) : ts[k] = IF k = t THEN Closed ELSE rules[k]
  BY <1>2, <1>3, <1>4, ExceptSeq
<1>6. NextHole = 0 BY <1>1 DEF NextHole
<1>7. rules[i].last = IF t = Len(rules) THEN MAX_SYSCALL_NR ELSE rules[t + 1].first - 1
  <2>1. CASE j = 0
    <3>1. \/ FirstFinal = Len(rules) + 1 /\ rules[i].last = MAX_SYSCALL_NR
          \/ FirstFinal = Len(rules) /\ rules[FirstFinal].first = rules[i].last + 1
      BY <1>1, <1>3, <2>1 DEF FillInv
    <3>2. rules[i].last \in Nat BY <1>2, RuleEnds
    <3>3. CASE FirstFinal = Len(rules) + 1 /\ rules[i].last = MAX_SYSCALL_NR
      <4>1. t = Len(rules) BY <1>3, <3>3
      <4> QED BY <3>3, <4>1
    <3>4. CASE FirstFinal = Len(rules) /\ rules[FirstFinal].first = rules[i].last + 1
      <4>1. t # Len(rules) /\ t + 1 = FirstFinal BY <1>3, <3>4
      <4> QED BY <3>2, <3>4, <4>1
    <3> QED BY <3>1, <3>3, <3>4
  <2>2. CASE j # 0
    <3>1. j = t + 1 /\ j <= Len(rules) BY <1>1, <1>3, <2>2 DEF FillInv
    <3>2. rules[j].first = rules[i].last + 1
      <4>1. j > 0 BY <1>2, <3>1
      <4> QED BY <1>1, <4>1 DEF HoleAbove
    <3>3. rules[i].last \in Nat BY <1>2, RuleEnds
    <3>4. t # Len(rules) BY <1>2, <3>1
    <3> QED BY <3>1, <3>2, <3>3, <3>4
  <2> QED BY <2>1, <2>2
<1>8. /\ rules' = ts /\ j' = t /\ i' = i - 1 /\ stage' = stage /\ toAdd' = toAdd
  BY DEF MoveUp
<1> HIDE DEF ts
<1>9. \A k \in 1..(i - 1) : ts[k] = rules[k] BY <1>2, <1>5
<1>10. ClosedFrom(ts, t + 1)
  <2>1. ClosedFrom(rules, t + 1) /\ Len(ts) = Len(rules) /\ t \in Nat BY <1>2, <1>3, <1>5
  <2>2. \A k \in 1..Len(rules) : ts[k] = IF k = t THEN Closed ELSE rules[k] BY <1>5
  <2> HIDE DEF t
  <2>3. ASSUME NEW k \in (t + 1)..Len(ts)
        PROVE  ts[k] = rules[k] /\ (k # Len(ts) => ts[k + 1] = rules[k + 1])
    <3>1. k \in 1..Len(rules) /\ k # t /\ k + 1 # t BY <2>1
    <3>2. k # Len(ts) => k + 1 \in 1..Len(rules) BY <2>1
    <3> QED BY <2>2, <3>1, <3>2
  <2> QED BY <2>1, <2>3 DEF ClosedFrom
<1>11. rules[i].last = IF t = Len(ts) THEN MAX_SYSCALL_NR ELSE ts[t + 1].first - 1
  BY <1>3, <1>5, <1>7
<1>12. /\ t \in Nat /\ i <= t /\ t <= Len(ts) /\ ts[t] = Closed /\ toAdd' = t - i
       /\ t - i = Holes(rules, i) + FrontHole
  <2>1. i \in Nat /\ toAdd \in Nat BY <1>2
  <2>2. t \in Nat /\ i <= t /\ t - i = toAdd BY <2>1
  <2>3. t - i = Holes(rules, i) + FrontHole
    <3> DEFINE x == Holes(rules, i)
               y == FrontHole
    <3>1. toAdd = x + 0 + y /\ x \in Nat /\ y \in 0..1 BY <1>2, <1>6
    <3> HIDE DEF x, y, t
    <3>2. t - i = x + y BY <2>2, <3>1
    <3> QED BY <3>2 DEF x, y
  <2>4. t <= Len(ts)
    <3> HIDE DEF t
    <3> QED BY <1>2, <1>3, <1>5
  <2>5. ts[t] = Closed
    <3> HIDE DEF t
    <3> QED BY <1>3, <1>5
  <2>6. toAdd' = t - i BY <1>8, <2>2
  <2> QED BY <2>2, <2>3, <2>4, <2>5, <2>6
<1> HIDE DEF t
<1> QED BY <1>1, <1>5, <1>8, <1>9, <1>10, <1>11, <1>12, MoveKept

LEMMA FillHoleKept ==
  ASSUME NEW E, NEW A, Parts(E, A), RulesType(E, A), FillInv, FillHole, default_action' = default_action
  PROVE  RulesType(E, A)' /\ FillInv'
<1> DEFINE t  == i + toAdd - 1
           d  == Default(rules[i].last + 1, rules[j].first - 1)
           rs == [rules EXCEPT ![t + 1] = d]
           ts == [rs EXCEPT ![t] = Closed]
<1>1. Filling /\ HoleAbove /\ stage = "fill" /\ j > 0 BY DEF FillHole, Filling, HoleAbove
<1>2. /\ i \in 1..Len(rules) /\ i \in Nat \ {0} /\ rules \in Seq(RuleType(E, A))
      /\ FirstFinal \in Nat /\ ClosedFrom(rules, FirstFinal) /\ rules[i] \in RuleType(E, A)
      /\ Holes(rules, i) \in Nat /\ FrontHole \in 0..1 /\ toAdd \in Nat
      /\ toAdd = Holes(rules, i) + NextHole + FrontHole
      /\ default_action \in A
  BY <1>1, AtMove DEF RulesType
<1>3. NextHole = 1 BY <1>1, <1>2 DEF NextHole
<1>4. j = FirstFinal /\ j <= Len(rules) /\ rules[i].last < rules[j].first
  BY <1>1, <1>2 DEF FillInv
<1>5. FirstFinal = t + 2 /\ t \in Nat /\ i <= t /\ t + 2 <= Len(rules)
  <2>1. toAdd >= 1
    <3>1. Holes(rules, i) \in Nat /\ FrontHole \in Nat BY <1>2
    <3>2. toAdd = Holes(rules, i) + 1 + FrontHole BY <1>2, <1>3
    <3> QED BY <3>1, <3>2
  <2>2. FirstFinal = i + toAdd + 1 BY DEF FirstFinal
  <2> QED BY <1>2, <1>4, <2>1, <2>2
<1>6. /\ rules[j] \in RuleType(E, A) /\ rules[i].last \in Nat /\ rules[j].first \in Nat
      /\ rules[i].last + 1 < rules[j].first
  <2>1. rules[j] \in RuleType(E, A) BY <1>2, <1>4, <1>5
  <2>2. rules[i].last \in Nat /\ rules[j].first \in Nat BY <1>2, <2>1, RuleFacts
  <2>3. rules[j].first # rules[i].last + 1 BY <1>1 DEF HoleAbove
  <2> QED BY <1>4, <2>1, <2>2, <2>3
<1>7. /\ d \in RuleType(E, A) /\ d.first = rules[i].last + 1 /\ d.last = rules[j].first - 1
      /\ ~IsConditional(d)
  <2>1. rules[j].first <= MAX_SYSCALL_NR BY <1>6, RuleFacts
  <2>2. rules[i].last + 1 \in Numbers /\ rules[j].first - 1 \in Numbers BY <1>6, <2>1
  <2> QED BY <1>2, <2>2, DefaultRule
<1>8. Closed \in RuleType(E, A) BY <1>2, ClosedRule
<1> HIDE DEF d
<1>9. /\ rs \in Seq(RuleType(E, A)) /\ Len(rs) = Len(rules)
      /\ \A k \in 1..Len(rules) : rs[k] = IF k = t + 1 THEN d ELSE rules[k]
  <2>1. t + 1 \in 1..Len(rules) BY <1>5
  <2> QED BY <1>2, <1>7, <2>1, ExceptSeq
<1> HIDE DEF rs
<1>10. /\ ts \in Seq(RuleType(E, A)) /\ Len(ts) = Len(rs)
       /\ \A k \in 1..Len(rs) : ts[k] = IF k = t THEN Closed ELSE rs[k]
  <2>1. t \in 1..Len(rs) BY <1>2, <1>5, <1>9
  <2> QED BY <1>8, <1>9, <2>1, ExceptSeq
<1>11. /\ rules' = ts /\ j' = t /\ i' = i - 1 /\ stage' = stage /\ toAdd' = toAdd - 1
  <2>1. t + 1 = i + toAdd BY <1>2
  <2> QED BY <2>1 DEF FillHole, ts, rs, d
<1> HIDE DEF ts
<1>12. /\ \A k \in 1..(i - 1) : ts[k] = rules[k]
       /\ ts[t] = Closed /\ ts[t + 1] = d
       /\ \A k \in (t + 2)..Len(ts) : ts[k] = rules[k]
  <2>1. Len(ts) = Len(rules) /\ \A k \in 1..Len(rules) :
          ts[k] = IF k = t THEN Closed ELSE IF k = t + 1 THEN d ELSE rules[k]
    <3> HIDE DEF t
    <3> QED BY <1>9, <1>10
  <2>2. t \in 1..Len(rules) /\ t + 1 \in 1..Len(rules) /\ t + 1 # t /\ i - 1 <= Len(rules)
    <3>1. i \in Nat \ {0} /\ i <= t /\ t \in Nat /\ t + 2 <= Len(rules) /\ Len(rules) \in Nat BY <1>2, <1>5
    <3> HIDE DEF t
    <3> DEFINE n == Len(rules)
    <3> HIDE DEF n
    <3>2. t \in 1..n /\ t + 1 \in 1..n /\ t + 1 # t /\ i - 1 <= n BY <3>1 DEF n
    <3> QED BY <3>2 DEF n
  <2>3. ts[t] = Closed /\ ts[t + 1] = d BY <2>1, <2>2
  <2>4. ASSUME NEW k \in 1..(i - 1) PROVE ts[k] = rules[k]
    <3>1. i \in Nat /\ t \in Nat /\ i <= t /\ i \in 1..Len(rules) BY <1>2, <1>5
    <3> HIDE DEF t
    <3>2. k \in 1..Len(rules) /\ k # t /\ k # t + 1 BY <3>1
    <3> QED BY <2>1, <3>2
  <2>5. ASSUME NEW k \in (t + 2)..Len(ts) PROVE ts[k] = rules[k]
    <3>1. k \in 1..Len(rules) /\ k # t /\ k # t + 1 BY <1>5, <2>1
    <3> QED BY <2>1, <3>1
  <2> QED BY <2>3, <2>4, <2>5
<1>13. ts[t + 2].first = rules[j].first BY <1>4, <1>5, <1>9, <1>10, <1>12
<1>14. ClosedFrom(ts, t + 1)
  <2> SUFFICES ASSUME NEW k \in (t + 1)..Len(ts)
               PROVE  /\ ProperRange(ts[k])
                      /\ IsConditional(ts[k]) => HasCatchAll(ts[k])
                      /\ ts[k].last = IF k = Len(ts) THEN MAX_SYSCALL_NR ELSE ts[k + 1].first - 1
    BY DEF ClosedFrom
  <2>1. CASE k = t + 1
    <3>1. ts[k] = d /\ k # Len(ts) /\ k + 1 = t + 2 BY <1>5, <1>9, <1>10, <1>12, <2>1
    <3>2. ProperRange(d) BY <1>6, <1>7 DEF ProperRange
    <3>3. ts[k].last = ts[k + 1].first - 1 BY <1>7, <1>13, <3>1
    <3> QED BY <1>7, <3>1, <3>2, <3>3
  <2>2. CASE k \in (t + 2)..Len(ts)
    <3>1. ts[k] = rules[k] /\ k \in FirstFinal..Len(rules) BY <1>5, <1>9, <1>10, <1>12, <2>2
    <3>2. k # Len(ts) => ts[k + 1] = rules[k + 1] BY <1>5, <1>12, <2>2
    <3>3. Len(ts) = Len(rules) BY <1>9, <1>10
    <3> QED BY <1>2, <3>1, <3>2, <3>3 DEF ClosedFrom
  <2> QED BY <1>5, <2>1, <2>2
<1>15. rules[i].last = IF t = Len(ts) THEN MAX_SYSCALL_NR ELSE ts[t + 1].first - 1
  BY <1>5, <1>6, <1>7, <1>9, <1>10, <1>12
<1>16. /\ toAdd' = t - i /\ t - i = Holes(rules, i) + FrontHole /\ t <= Len(ts)
       /\ Len(ts) = Len(rules)
  <2>1. Len(ts) = Len(rules) /\ t <= Len(ts) BY <1>5, <1>9, <1>10
  <2>2. t - i = toAdd - 1 BY <1>2
  <2>3. toAdd - 1 = Holes(rules, i) + FrontHole BY <1>2, <1>3
  <2> QED BY <1>11, <2>1, <2>2, <2>3
<1> HIDE DEF t
<1> QED BY <1>1, <1>5, <1>10, <1>11, <1>12, <1>14, <1>15, <1>16, <1>9, MoveKept

LEMMA ClosedNormalized ==
  ASSUME NEW E, NEW A, rules' \in Seq(RuleType(E, A)), rules' # <<>>,
         ClosedFrom(rules', 1), rules'[1].first = 0
  PROVE  NormalizedRules'
<1> DEFINE rs == rules'
<1>1. /\ rs \in Seq(RuleType(E, A)) /\ rs # <<>> /\ ClosedFrom(rs, 1) /\ rs[1].first = 0
  OBVIOUS
<1>2. Len(rs) \in Nat \ {0} /\ DOMAIN rs = 1..Len(rs) BY <1>1
<1> HIDE DEF rs
<1>3. rs[Len(rs)].last = MAX_SYSCALL_NR
  <2>1. Len(rs) \in 1..Len(rs) BY <1>2
  <2> QED BY <1>1, <2>1 DEF ClosedFrom
<1>4. ASSUME NEW k \in 1..Len(rs)
      PROVE  /\ rs[k].first <= rs[k].last
             /\ k < Len(rs) => rs[k + 1].first = rs[k].last + 1
             /\ IsConditional(rs[k]) => rs[k].first = rs[k].last /\ HasCatchAll(rs[k])
  <2>1. /\ ProperRange(rs[k])
        /\ IsConditional(rs[k]) => HasCatchAll(rs[k])
        /\ rs[k].last = IF k = Len(rs) THEN MAX_SYSCALL_NR ELSE rs[k + 1].first - 1
    BY <1>1 DEF ClosedFrom
  <2>2. ASSUME k < Len(rs) PROVE rs[k + 1].first = rs[k].last + 1
    <3>1. k + 1 \in 1..Len(rs) /\ k # Len(rs)
      <4>1. k \in Nat /\ Len(rs) \in Nat BY <1>2
      <4> QED BY <2>2, <4>1
    <3>2. rs[k + 1] \in RuleType(E, A) BY <1>1, <3>1
    <3>3. rs[k + 1].first \in Nat BY <3>2 DEF RuleType
    <3> QED BY <2>1, <3>1, <3>3
  <2> QED BY <2>1, <2>2 DEF ProperRange
<1>5. /\ rs[1].first = 0 /\ rs[Len(rs)].last = MAX_SYSCALL_NR
      /\ \A k \in DOMAIN rs :
           /\ rs[k].first <= rs[k].last
           /\ k < Len(rs) => rs[k + 1].first = rs[k].last + 1
           /\ IsConditional(rs[k]) => rs[k].first = rs[k].last /\ HasCatchAll(rs[k])
  BY <1>1, <1>2, <1>3, <1>4
<1> QED BY <1>5 DEF NormalizedRules, rs

LEMMA FillFirstKept ==
  ASSUME NEW E, NEW A, Parts(E, A), RulesType(E, A), FillInv, FillFirst, default_action' = default_action
  PROVE  RulesType(E, A)' /\ NormalizedRules' /\ toAdd' = 0
<1>1. /\ stage = "fill" /\ i = 0 /\ rules \in Seq(RuleType(E, A)) /\ toAdd \in Nat /\ j \in Nat
      /\ default_action \in A /\ rules # <<>>
  BY DEF FillFirst, RulesType
<1>2. FirstFinal = toAdd + 1 BY <1>1 DEF FirstFinal
<1>3. j = FirstFinal /\ FirstFinal <= Len(rules) /\ ClosedFrom(rules, FirstFinal)
  BY <1>1, <1>2 DEF FillInv
<1>4. toAdd = FrontHole
  <2>1. Holes(rules, 0) = 0 BY HolesNat
  <2>2. NextHole = 0 BY <1>1 DEF NextHole
  <2>3. toAdd = Holes(rules, i) + NextHole + FrontHole BY <1>1 DEF FillInv
  <2>4. FrontHole \in 0..1 BY DEF FrontHole
  <2> QED BY <1>1, <2>1, <2>2, <2>3, <2>4
<1>5. toAdd = IF rules[FirstFinal].first # 0 THEN 1 ELSE 0
  BY <1>1, <1>4 DEF FrontHole
<1>6. CASE toAdd = 0
  <2>1. FirstFinal = 1 /\ rules' = rules /\ toAdd' = 0 BY <1>2, <1>6 DEF FillFirst
  <2>2. rules[1].first = 0 BY <1>5, <1>6, <2>1
  <2>3. NormalizedRules' BY <1>1, <1>3, <2>1, <2>2, ClosedNormalized
  <2>4. RulesType(E, A)' BY <1>1, <2>1 DEF RulesType, FillFirst
  <2> QED BY <2>1, <2>3, <2>4
<1>7. CASE toAdd # 0
  <2> DEFINE d  == Default(0, rules[2].first - 1)
             ts == [rules EXCEPT ![1] = d]
  <2>1. toAdd = 1 /\ FirstFinal = 2 /\ rules[2].first # 0 BY <1>2, <1>5, <1>7
  <2>2. rules' = ts /\ toAdd' = 0 BY <2>1 DEF FillFirst
  <2>3. rules[2] \in RuleType(E, A) BY <1>1, <1>3, <2>1
  <2>4. 0 \in Numbers /\ rules[2].first - 1 \in Numbers
    <3>1. rules[2].first \in Nat /\ rules[2].first <= MAX_SYSCALL_NR BY <2>3, RuleFacts
    <3> QED BY <2>1, <3>1
  <2>5. /\ d \in RuleType(E, A) /\ d.first = 0 /\ d.last = rules[2].first - 1
        /\ ~IsConditional(d)
    BY <1>1, <2>4, DefaultRule
  <2> HIDE DEF d
  <2>6. /\ ts \in Seq(RuleType(E, A)) /\ Len(ts) = Len(rules)
        /\ \A k \in 1..Len(rules) : ts[k] = IF k = 1 THEN d ELSE rules[k]
    <3>1. 1 \in 1..Len(rules) BY <1>1, <1>3, <2>1
    <3> QED BY <1>1, <2>5, <3>1, ExceptSeq
  <2> HIDE DEF ts
  <2>7. Len(rules) >= 2 /\ Len(rules) \in Nat BY <1>1, <1>3, <2>1
  <2>8. ts[1] = d /\ ts[2] = rules[2] BY <2>6, <2>7
  <2>9. ClosedFrom(ts, 1)
    <3> SUFFICES ASSUME NEW k \in 1..Len(ts)
                 PROVE  /\ ProperRange(ts[k])
                        /\ IsConditional(ts[k]) => HasCatchAll(ts[k])
                        /\ ts[k].last = IF k = Len(ts) THEN MAX_SYSCALL_NR ELSE ts[k + 1].first - 1
      BY DEF ClosedFrom
    <3>1. CASE k = 1
      <4>1. ProperRange(d) BY <2>4, <2>5 DEF ProperRange
      <4>2. k # Len(ts) /\ k + 1 = 2 BY <2>6, <2>7, <3>1
      <4> QED BY <2>5, <2>8, <3>1, <4>1, <4>2
    <3>2. CASE k \in 2..Len(ts)
      <4>1. ts[k] = rules[k] BY <2>6, <3>2
      <4>2. k # Len(ts) => ts[k + 1] = rules[k + 1] BY <2>6, <2>7, <3>2
      <4> QED BY <1>3, <2>1, <2>6, <3>2, <4>1, <4>2 DEF ClosedFrom
    <3> QED BY <2>6, <2>7, <3>1, <3>2
  <2>10. ts # <<>> BY <2>6, <2>7
  <2>11. NormalizedRules' BY <2>2, <2>5, <2>6, <2>8, <2>9, <2>10, ClosedNormalized
  <2>12. RulesType(E, A)' BY <1>1, <2>2, <2>6, <2>10 DEF RulesType, FillFirst
  <2> QED BY <2>2, <2>11, <2>12
<1> QED BY <1>6, <1>7

-----------------------------------------------------------------------------

LEMMA NormalKept ==
  ASSUME NEW E, NEW A, Parts(E, A), RulesType(E, A), NormalInv, Normalize, default_action' = default_action
  PROVE  RulesType(E, A)' /\ NormalInv'
<1> USE DEF NormalInv
<1>1. stage \in {"count", "fill", "normalized"} /\ rules # <<>> BY DEF RulesType
<1>2. ASSUME SameCall \/ ExtendRange \/ KeepNext \/ StretchPrev \/ StretchCur \/ CountGap \/ FillFreed
      PROVE  RulesType(E, A)' /\ NormalInv'
  <2>1. RulesType(E, A)' /\ CountInv'
    BY <1>2, SameCallKept, ExtendRangeKept, GapKept, FillFreedKept
  <2>2. stage' = "count"
    BY <1>2 DEF SameCall, ExtendRange, KeepNext, StretchPrev, StretchCur, CountGap, FillFreed,
                Gap, Counting
  <2> QED BY <2>1, <2>2 DEF FillInv, NormalizedRules
<1>3. CASE Ends
  <2>1. RulesType(E, A)' /\ FillInv' BY <1>3, EndsKept
  <2>2. stage' = "fill" BY <1>3 DEF Ends
  <2> QED BY <2>1, <2>2 DEF CountInv, NormalizedRules
<1>4. CASE MoveUp \/ FillHole
  <2>1. RulesType(E, A)' /\ FillInv' BY <1>4, MoveUpKept, FillHoleKept
  <2>2. stage' = "fill" BY <1>4 DEF MoveUp, FillHole, Filling
  <2> QED BY <2>1, <2>2 DEF CountInv, NormalizedRules
<1>5. CASE FillFirst
  <2>1. RulesType(E, A)' /\ NormalizedRules' /\ toAdd' = 0 BY <1>5, FillFirstKept
  <2>2. stage' = "normalized" BY <1>5 DEF FillFirst
  <2> QED BY <2>1, <2>2 DEF CountInv, FillInv
<1>6. CASE NormalizeNothing \/ SortRules
  BY <1>1, <1>6 DEF NormalizeNothing, SortRules
<1> QED BY <1>2, <1>3, <1>4, <1>5, <1>6 DEF Normalize

(* The beginning of normalize_rules.                                       *)
LEMMA SortKept ==
  ASSUME NEW E, NEW A, Parts(E, A), NormalInit(E, A), NormalizeNothing \/ SortRules,
         default_action' = default_action
  PROVE  RulesType(E, A)' /\ NormalInv'
<1>1. CASE NormalizeNothing
  <2> DEFINE d == Default(0, MAX_SYSCALL_NR)
             e == [d EXCEPT !.priority = Len(<<>>) + 1]
  <2>1. 0 \in Numbers /\ MAX_SYSCALL_NR \in Numbers OBVIOUS
  <2>2. /\ d \in RuleType(E, A) /\ d.first = 0 /\ d.last = MAX_SYSCALL_NR
        /\ ~IsConditional(d)
    BY <2>1, DefaultRule DEF NormalInit
  <2> HIDE DEF d
  <2>3. /\ e \in RuleType(E, A) /\ e.first = 0 /\ e.last = MAX_SYSCALL_NR /\ ~IsConditional(e)
    BY <2>2 DEF RuleType, IsConditional
  <2>4. rules' = <<e>> BY <1>1 DEF NormalizeNothing, AddRule, d
  <2> HIDE DEF e
  <2>5. rules' \in Seq(RuleType(E, A)) /\ Len(rules') = 1 /\ rules'[1] = e /\ DOMAIN rules' = 1..1
    BY <2>3, <2>4
  <2>6. NormalizedRules' BY <2>3, <2>5 DEF NormalizedRules, IsConditional
  <2>7. RulesType(E, A)' BY <1>1, <2>5 DEF RulesType, NormalInit, NormalizeNothing
  <2>8. NormalInv'
    <3>1. stage' = "normalized" /\ toAdd' = 0 BY <1>1 DEF NormalizeNothing, NormalInit
    <3> QED BY <2>6, <3>1 DEF NormalInv, CountInv, FillInv
  <2> QED BY <2>7, <2>8
<1>2. CASE SortRules
  <2> DEFINE rs == rules'
  <2>1. rules # <<>> /\ rs = Sorted(rules) /\ i' = 1 /\ j' = 1 /\ toAdd' = 0 /\ stage' = "count"
    BY <1>2 DEF SortRules
  <2>2. /\ rs \in Seq(RuleType(E, A)) /\ Len(rs) = Len(rules) /\ SortedFrom(rs, 1)
    BY <2>1, SortedRules DEF NormalInit
  <2>3. Len(rules) \in Nat \ {0} BY <2>1 DEF NormalInit
  <2> HIDE DEF rs
  <2>4. rs # <<>> /\ rs[1] \in RuleType(E, A) /\ Len(rs) \in Nat \ {0} BY <2>2, <2>3
  <2>5. rs[1].first \in Nat /\ rs[1].first = rs[1].last /\ rs[1].last <= MAX_SYSCALL_NR
    BY <2>2, <2>4 DEF SortedFrom, RuleType
  <2>6. OrderedTo(rs, 1) BY <2>5 DEF OrderedTo, ProperRange
  <2>7. SortedFrom(rs, 2) BY <2>2, <2>4 DEF SortedFrom
  <2>8. 1 < Len(rs) => rs[1].last <= rs[2].first
    BY <2>2, <2>4, <2>5 DEF SortedFrom
  <2>9. Holes(rs, 1) = 0 BY HolesNat
  <2>10. CountInv'
    BY <2>1, <2>4, <2>6, <2>7, <2>8, <2>9 DEF CountInv, Cur, rs
  <2>11. RulesType(E, A)' BY <2>1, <2>2, <2>4 DEF RulesType, NormalInit, rs
  <2> QED BY <2>1, <2>10, <2>11 DEF NormalInv, FillInv, NormalizedRules
<1> QED BY <1>1, <1>2

LEMMA NormalStep ==
  ASSUME NEW E, NEW A, Parts(E, A), NormalInit(E, A) \/ (RulesType(E, A) /\ NormalInv),
         Normalize, default_action' = default_action
  PROVE  RulesType(E, A)' /\ NormalInv'
<1>1. CASE NormalInit(E, A)
  <2>1. stage = "sort" BY <1>1 DEF NormalInit
  <2>2. NormalizeNothing \/ SortRules
    BY <2>1 DEF Normalize, SameCall, ExtendRange, KeepNext, StretchPrev, StretchCur, FillFreed,
                CountGap, Gap, Counting, Ends, MoveUp, FillHole, Filling, FillFirst
  <2> QED BY <1>1, <2>2, SortKept
<1>2. CASE RulesType(E, A) /\ NormalInv BY <1>2, NormalKept
<1> QED BY <1>1, <1>2

(* Every slot that add_missing_rules reserves is filled and every hole has *)
(* one, and the finished part of the list is in order at every pass of the *)
(* two loops, for any list of rules, any default action and any largest    *)
(* number (NormalInv).                                                     *)
THEOREM SlotsFit ==
  ASSUME NEW E, NEW A, Parts(E, A)
  PROVE  NormalSpec(E, A) => []NormalInv
<1> DEFINE I == NormalInit(E, A) \/ (RulesType(E, A) /\ NormalInv)
<1>1. NormalInit(E, A) => I BY DEF NormalInit
<1>2. ASSUME I, [Normalize /\ UNCHANGED default_action]_allVars PROVE I'
  <2>1. CASE Normalize /\ UNCHANGED default_action BY <1>2, <2>1, NormalStep
  <2>2. CASE UNCHANGED allVars
    BY <1>2, <2>2 DEF RulesType, NormalInit, NormalInv, CountInv, FillInv, NormalizedRules,
                      FirstFinal, NextHole, FrontHole, HoleAbove, Cur
  <2> QED BY <1>2, <2>1, <2>2
<1>3. I => NormalInv
  BY DEF NormalInit, NormalInv, CountInv, FillInv, NormalizedRules
<1> QED BY <1>1, <1>2, <1>3, PTL DEF NormalSpec

(* normalize_rules leaves ranges that cover every system call number once, *)
(* and a range with expressions ends in a mapping that is always taken,    *)
(* for any list of rules, any default action and any largest number        *)
(* (NormalizedRules).                                                      *)
THEOREM RangesNormal ==
  ASSUME NEW E, NEW A, Parts(E, A)
  PROVE  NormalSpec(E, A) => []NormalizedRules
<1>1. NormalInv => NormalizedRules BY DEF NormalInv
<1>2. NormalSpec(E, A) => []NormalInv BY SlotsFit
<1> QED BY <1>1, <1>2, PTL

-----------------------------------------------------------------------------
(* What a list of rules decides.                                           *)

(* The expressions that may hold together: the one that is always taken,   *)
(* and TRUE, always do.                                                    *)
Worlds(E) == {S \in SUBSET E : \A x \in E : x.type \in {"NULL", "TRUE"} => x \in S}

Covers(r, nr) == r.first <= nr /\ nr <= r.last

(* No mapping of xs is taken, and the first one that is gives a.           *)
NoneOf(xs, S)     == \A k \in DOMAIN xs : xs[k].expr \notin S
FirstOf(xs, S, a) == \E k \in DOMAIN xs : /\ xs[k].expr \in S /\ xs[k].action = a
                                          /\ \A m \in 1..(k - 1) : xs[m].expr \notin S

Passes(r, S)   == IsConditional(r) /\ NoneOf(r.exprs, S)
Gives(r, S, a) == IF IsConditional(r) THEN FirstOf(r.exprs, S, a) ELSE r.action = a

(* Of the rules at the places K, the first one for nr that does not pass   *)
(* decides, the default action when there is none.                         *)
Decides(rs, K, nr, S, a) ==
  \/ \E k \in K : /\ Covers(rs[k], nr) /\ Gives(rs[k], S, a)
                  /\ \A m \in K : m < k /\ Covers(rs[m], nr) => Passes(rs[m], S)
  \/ a = default_action /\ \A k \in K : Covers(rs[k], nr) => Passes(rs[k], S)

(* Induction over Nat, for a set in place of a predicate.                  *)
LEMMA SetInduction ==
  ASSUME NEW S, 0 \in S, \A n \in Nat : n \in S => n + 1 \in S
  PROVE  Nat \subseteq S
<1> DEFINE T == Nat \ S
<1>1. SUFFICES ASSUME T # {} PROVE FALSE
  OBVIOUS
<1>2. PICK x \in T : \A y \in T : ~ (<<y, x>> \in OpToRel(<, Nat))
  <2>1. T \subseteq Nat OBVIOUS
  <2> HIDE DEF T
  <2> QED BY <1>1, <2>1, NatLessThanWellFounded, WFMin
<1>3. x # 0 /\ x \in Nat /\ x - 1 \in Nat OBVIOUS
<1>4. x - 1 \in T BY <1>3
<1>5. <<x - 1, x>> \in OpToRel(<, Nat) BY <1>3 DEF OpToRel
<1> QED BY <1>2, <1>4, <1>5

LEMMA Least == ASSUME NEW X \in SUBSET Nat, X # {} PROVE \E x \in X : \A y \in X : x <= y
<1> DEFINE R == OpToRel(<, Nat)
<1>1. IsWellFoundedOn(R, Nat) BY NatLessThanWellFounded
<1>2. PICK x \in X : \A y \in X : ~(<<y, x>> \in R)
  <2> HIDE DEF R
  <2> QED BY <1>1, WFMin
<1>3. \A y \in X : ~(y < x) BY <1>2 DEF OpToRel
<1> QED BY <1>3

LEMMA AlikeSame == ASSUME NEW r, NEW t, Alike(r, t)
                   PROVE  \A S, a : (Gives(r, S, a) <=> Gives(t, S, a)) /\ (Passes(r, S) <=> Passes(t, S))
BY DEF Alike, Gives, Passes, IsConditional

(* Without a rule for it, a call is decided by the default.                *)
LEMMA NoRule ==
  ASSUME NEW rs, NEW K, NEW nr, NEW S, \A k \in K : ~Covers(rs[k], nr)
  PROVE  \A a : Decides(rs, K, nr, S, a) <=> a = default_action
BY DEF Decides

(* The first rule for a call decides it, or leaves it to the others.       *)
LEMMA HeadRule ==
  ASSUME NEW rs, NEW K \in SUBSET Int, NEW nr, NEW S, NEW k \in K, Covers(rs[k], nr),
         \A m \in K : Covers(rs[m], nr) /\ m # k => k < m
  PROVE  \A a : Decides(rs, K, nr, S, a)
                  <=> Gives(rs[k], S, a) \/ (Passes(rs[k], S) /\ Decides(rs, K \ {k}, nr, S, a))
<1> TAKE a
<1>1. ASSUME Gives(rs[k], S, a) PROVE Decides(rs, K, nr, S, a)
  <2>1. \A m \in K : m < k /\ Covers(rs[m], nr) => Passes(rs[m], S) OBVIOUS
  <2> QED BY <1>1, <2>1 DEF Decides
<1>2. ASSUME Passes(rs[k], S), Decides(rs, K \ {k}, nr, S, a) PROVE Decides(rs, K, nr, S, a)
  <2>1. CASE \E l \in K \ {k} : /\ Covers(rs[l], nr) /\ Gives(rs[l], S, a)
                                /\ \A m \in K \ {k} : m < l /\ Covers(rs[m], nr) => Passes(rs[m], S)
    BY <1>2, <2>1 DEF Decides
  <2>2. CASE a = default_action /\ \A l \in K \ {k} : Covers(rs[l], nr) => Passes(rs[l], S)
    BY <1>2, <2>2 DEF Decides
  <2> QED BY <1>2, <2>1, <2>2 DEF Decides
<1>3. ASSUME Decides(rs, K, nr, S, a)
      PROVE  Gives(rs[k], S, a) \/ (Passes(rs[k], S) /\ Decides(rs, K \ {k}, nr, S, a))
  <2>1. CASE a = default_action /\ \A l \in K : Covers(rs[l], nr) => Passes(rs[l], S)
    BY <2>1 DEF Decides
  <2>2. CASE \E l \in K : /\ Covers(rs[l], nr) /\ Gives(rs[l], S, a)
                          /\ \A m \in K : m < l /\ Covers(rs[m], nr) => Passes(rs[m], S)
    <3>1. PICK l \in K : /\ Covers(rs[l], nr) /\ Gives(rs[l], S, a)
                         /\ \A m \in K : m < l /\ Covers(rs[m], nr) => Passes(rs[m], S)
      BY <2>2
    <3>2. CASE l = k BY <3>1, <3>2
    <3>3. CASE l # k BY <3>1, <3>3 DEF Decides
    <3> QED BY <3>2, <3>3
  <2> QED BY <1>3, <2>1, <2>2 DEF Decides
<1> QED BY <1>1, <1>2, <1>3

LEMMA OneRule ==
  ASSUME NEW rs, NEW K \in SUBSET Int, NEW nr, NEW S, NEW k \in K, Covers(rs[k], nr),
         \A m \in K : Covers(rs[m], nr) => m = k
  PROVE  \A a : Decides(rs, K, nr, S, a)
                  <=> Gives(rs[k], S, a) \/ (Passes(rs[k], S) /\ a = default_action)
<1>1. \A m \in K \ {k} : ~Covers(rs[m], nr) OBVIOUS
<1>2. \A a : Decides(rs, K \ {k}, nr, S, a) <=> a = default_action BY <1>1 DEF Decides
<1>3. \A m \in K : Covers(rs[m], nr) /\ m # k => k < m OBVIOUS
<1>4. \A a : Decides(rs, K, nr, S, a)
               <=> Gives(rs[k], S, a) \/ (Passes(rs[k], S) /\ Decides(rs, K \ {k}, nr, S, a))
  BY <1>3, HeadRule
<1> QED BY <1>2, <1>4

(* Rules may move, and default rules may be put where no rule is, as long  *)
(* as the rules for one call stay in order.                                *)
Moves(rs, K, ts, L, f, nr) ==
  /\ \A k \in K : Covers(rs[k], nr) => /\ f[k] \in L /\ Alike(rs[k], ts[f[k]])
                                        /\ Covers(ts[f[k]], nr)
  /\ \A k, m \in K : Covers(rs[k], nr) /\ Covers(rs[m], nr) => (k < m <=> f[k] < f[m])
  /\ \A l \in L : Covers(ts[l], nr) =>
        \/ \E k \in K : f[k] = l /\ Covers(rs[k], nr)
        \/ IsDefault(ts[l]) /\ \A k \in K : ~Covers(rs[k], nr)

LEMMA Filled ==
  ASSUME NEW rs, NEW K, NEW ts, NEW L \in SUBSET Nat, NEW f, NEW nr, NEW S,
         Moves(rs, K, ts, L, f, nr)
  PROVE  \A a : Decides(rs, K, nr, S, a) <=> Decides(ts, L, nr, S, a)
<1>0. /\ \A k \in K : Covers(rs[k], nr) => /\ f[k] \in L /\ Alike(rs[k], ts[f[k]])
                                             /\ Covers(ts[f[k]], nr)
      /\ \A k, m \in K : Covers(rs[k], nr) /\ Covers(rs[m], nr) => (k < m <=> f[k] < f[m])
      /\ \A l \in L : Covers(ts[l], nr) =>
            \/ \E k \in K : f[k] = l /\ Covers(rs[k], nr)
            \/ IsDefault(ts[l]) /\ \A k \in K : ~Covers(rs[k], nr)
  BY DEF Moves
<1>1. CASE \E k \in K : Covers(rs[k], nr)
  <2>1. \A l \in L : Covers(ts[l], nr) => \E k \in K : f[k] = l /\ Covers(rs[k], nr) BY <1>0, <1>1
  <2>2. \A k \in K : Covers(rs[k], nr) =>
          /\ f[k] \in L /\ Covers(ts[f[k]], nr) /\ (Passes(rs[k], S) <=> Passes(ts[f[k]], S))
          /\ \A a : Gives(rs[k], S, a) <=> Gives(ts[f[k]], S, a)
    BY <1>0, AlikeSame
  <2> TAKE a
  <2>3. ASSUME Decides(rs, K, nr, S, a) PROVE Decides(ts, L, nr, S, a)
    <3>1. CASE a = default_action /\ \A k \in K : Covers(rs[k], nr) => Passes(rs[k], S)
      BY <2>1, <2>2, <3>1 DEF Decides
    <3>2. CASE \E k \in K : /\ Covers(rs[k], nr) /\ Gives(rs[k], S, a)
                            /\ \A m \in K : m < k /\ Covers(rs[m], nr) => Passes(rs[m], S)
      <4>1. PICK k \in K : /\ Covers(rs[k], nr) /\ Gives(rs[k], S, a)
                           /\ \A m \in K : m < k /\ Covers(rs[m], nr) => Passes(rs[m], S)
        BY <3>2
      <4>2. \A l \in L : l < f[k] /\ Covers(ts[l], nr) => Passes(ts[l], S)
        BY <1>0, <2>1, <2>2, <4>1
      <4> QED BY <2>2, <4>1, <4>2 DEF Decides
    <3> QED BY <2>3, <3>1, <3>2 DEF Decides
  <2>4. ASSUME Decides(ts, L, nr, S, a) PROVE Decides(rs, K, nr, S, a)
    <3>1. CASE a = default_action /\ \A l \in L : Covers(ts[l], nr) => Passes(ts[l], S)
      BY <2>2, <3>1 DEF Decides
    <3>2. CASE \E l \in L : /\ Covers(ts[l], nr) /\ Gives(ts[l], S, a)
                            /\ \A m \in L : m < l /\ Covers(ts[m], nr) => Passes(ts[m], S)
      <4>1. PICK l \in L : /\ Covers(ts[l], nr) /\ Gives(ts[l], S, a)
                           /\ \A m \in L : m < l /\ Covers(ts[m], nr) => Passes(ts[m], S)
        BY <3>2
      <4>2. PICK k \in K : f[k] = l /\ Covers(rs[k], nr) BY <2>1, <4>1
      <4>3. \A m \in K : m < k /\ Covers(rs[m], nr) => Passes(rs[m], S)
        BY <1>0, <2>2, <4>1, <4>2
      <4> QED BY <2>2, <4>1, <4>2, <4>3 DEF Decides
    <3> QED BY <2>4, <3>1, <3>2 DEF Decides
  <2> QED BY <2>3, <2>4
<1>2. CASE \A k \in K : ~Covers(rs[k], nr)
  <2>1. \A l \in L : Covers(ts[l], nr) => IsDefault(ts[l]) BY <1>0, <1>2
  <2>2. \A a : Decides(rs, K, nr, S, a) <=> a = default_action BY <1>2, NoRule
  <2>3. CASE \A l \in L : ~Covers(ts[l], nr)
    <3>1. \A a : Decides(ts, L, nr, S, a) <=> a = default_action BY <2>3 DEF Decides
    <3> QED BY <2>2, <3>1
  <2>4. CASE \E l \in L : Covers(ts[l], nr)
    <3>1. PICK l \in {x \in L : Covers(ts[x], nr)} : \A m \in {x \in L : Covers(ts[x], nr)} : l <= m
      BY <2>4, Least
    <3>2. \A m \in L : Covers(ts[m], nr) /\ m # l => l < m BY <3>1
    <3>3. \A a : Decides(ts, L, nr, S, a)
                   <=> Gives(ts[l], S, a) \/ (Passes(ts[l], S) /\ Decides(ts, L \ {l}, nr, S, a))
      BY <3>1, <3>2, HeadRule
    <3>4. ~Passes(ts[l], S) /\ \A a : Gives(ts[l], S, a) <=> a = default_action
      BY <2>1, <3>1 DEF IsDefault, Passes, Gives
    <3> QED BY <2>2, <3>3, <3>4
  <2> QED BY <2>3, <2>4
<1> QED BY <1>1, <1>2

(* Mappings that follow others are asked when none of those is taken.      *)
LEMMA Concatenated ==
  ASSUME NEW T, NEW x \in Seq(T), NEW y \in Seq(T), NEW S
  PROVE  /\ NoneOf(x \o y, S) <=> NoneOf(x, S) /\ NoneOf(y, S)
         /\ \A a : FirstOf(x \o y, S, a) <=> FirstOf(x, S, a) \/ (NoneOf(x, S) /\ FirstOf(y, S, a))
<1> DEFINE z == x \o y
<1>1. /\ z \in Seq(T) /\ Len(z) = Len(x) + Len(y)
      /\ \A k \in 1..(Len(x) + Len(y)) : z[k] = IF k <= Len(x) THEN x[k] ELSE y[k - Len(x)]
  BY ConcatProperties
<1>2. /\ Len(x) \in Nat /\ Len(y) \in Nat /\ DOMAIN x = 1..Len(x) /\ DOMAIN y = 1..Len(y)
      /\ DOMAIN z = 1..(Len(x) + Len(y))
  BY <1>1
<1> HIDE DEF z
<1>3. \A k \in 1..Len(x) : k \in DOMAIN z /\ z[k] = x[k] BY <1>1, <1>2
<1>4. \A k \in 1..Len(y) : Len(x) + k \in DOMAIN z /\ z[Len(x) + k] = y[k]
  <2> TAKE k \in 1..Len(y)
  <2>1. /\ Len(x) + k \in 1..(Len(x) + Len(y)) /\ ~(Len(x) + k <= Len(x))
        /\ (Len(x) + k) - Len(x) = k
    BY <1>2
  <2> QED BY <1>1, <1>2, <2>1
<1>5. \A k \in DOMAIN z : k \in 1..Len(x) \/ (k - Len(x) \in 1..Len(y) /\ k = Len(x) + (k - Len(x)))
  BY <1>2
<1>6. NoneOf(z, S) <=> NoneOf(x, S) /\ NoneOf(y, S)
  <2>1. NoneOf(z, S) => NoneOf(x, S) /\ NoneOf(y, S) BY <1>2, <1>3, <1>4 DEF NoneOf
  <2>2. NoneOf(x, S) /\ NoneOf(y, S) => NoneOf(z, S) BY <1>2, <1>3, <1>4, <1>5 DEF NoneOf
  <2> QED BY <2>1, <2>2
<1>7. ASSUME NEW a PROVE FirstOf(z, S, a) <=> FirstOf(x, S, a) \/ (NoneOf(x, S) /\ FirstOf(y, S, a))
  <2>1. ASSUME FirstOf(x, S, a) PROVE FirstOf(z, S, a)
    <3>1. PICK k \in 1..Len(x) : /\ x[k].expr \in S /\ x[k].action = a
                                 /\ \A m \in 1..(k - 1) : x[m].expr \notin S
      BY <1>2, <2>1 DEF FirstOf
    <3>2. \A m \in 1..(k - 1) : z[m].expr \notin S
      <4> TAKE m \in 1..(k - 1)
      <4>1. m \in 1..Len(x) BY <1>2
      <4> QED BY <1>3, <3>1, <4>1
    <3> QED BY <1>3, <3>1, <3>2 DEF FirstOf
  <2>2. ASSUME NoneOf(x, S), FirstOf(y, S, a) PROVE FirstOf(z, S, a)
    <3>1. PICK k \in 1..Len(y) : /\ y[k].expr \in S /\ y[k].action = a
                                 /\ \A m \in 1..(k - 1) : y[m].expr \notin S
      BY <1>2, <2>2 DEF FirstOf
    <3>2. \A m \in 1..(Len(x) + k - 1) : z[m].expr \notin S
      <4> TAKE m \in 1..(Len(x) + k - 1)
      <4>1. CASE m \in 1..Len(x) BY <1>2, <1>3, <2>2, <4>1 DEF NoneOf
      <4>2. CASE m \notin 1..Len(x)
        <5>1. m - Len(x) \in 1..(k - 1) /\ m - Len(x) \in 1..Len(y) /\ Len(x) + (m - Len(x)) = m
          BY <1>2, <4>2
        <5>2. z[m] = y[m - Len(x)] BY <1>4, <5>1
        <5> QED BY <3>1, <5>1, <5>2
      <4> QED BY <4>1, <4>2
    <3> QED BY <1>2, <1>4, <3>1, <3>2 DEF FirstOf
  <2>3. ASSUME FirstOf(z, S, a) PROVE FirstOf(x, S, a) \/ (NoneOf(x, S) /\ FirstOf(y, S, a))
    <3>1. PICK k \in DOMAIN z : /\ z[k].expr \in S /\ z[k].action = a
                                /\ \A m \in 1..(k - 1) : z[m].expr \notin S
      BY <2>3 DEF FirstOf
    <3>2. CASE k \in 1..Len(x)
      <4>1. \A m \in 1..(k - 1) : x[m].expr \notin S
        <5> TAKE m \in 1..(k - 1)
        <5>1. m \in 1..Len(x) BY <1>2, <3>2
        <5> QED BY <1>3, <3>1, <5>1
      <4> QED BY <1>2, <1>3, <3>1, <3>2, <4>1 DEF FirstOf
    <3>3. CASE k \notin 1..Len(x)
      <4> DEFINE n == k - Len(x)
      <4>1. n \in 1..Len(y) /\ k = Len(x) + n BY <1>5, <3>3
      <4> HIDE DEF n
      <4>2. NoneOf(x, S)
        <5> SUFFICES ASSUME NEW m \in 1..Len(x) PROVE x[m].expr \notin S BY <1>2 DEF NoneOf
        <5>1. m \in 1..(k - 1) BY <1>2, <4>1
        <5> QED BY <1>3, <3>1, <5>1
      <4>3. \A m \in 1..(n - 1) : y[m].expr \notin S
        <5> TAKE m \in 1..(n - 1)
        <5>1. m \in 1..Len(y) /\ Len(x) + m \in 1..(k - 1) BY <1>2, <4>1
        <5> QED BY <1>4, <3>1, <5>1
      <4>4. y[n].expr \in S /\ y[n].action = a BY <1>4, <3>1, <4>1
      <4> QED BY <1>2, <4>1, <4>2, <4>3, <4>4 DEF FirstOf
    <3> QED BY <3>2, <3>3
  <2> QED BY <2>1, <2>2, <2>3
<1> QED BY <1>6, <1>7 DEF z

(* A rule that ends in a mapping that is always taken does not pass.       *)
LEMMA NeverPasses ==
  ASSUME NEW E, NEW A, NEW r \in RuleType(E, A), HasCatchAll(r), NEW S \in Worlds(E)
  PROVE  ~NoneOf(r.exprs, S)
<1>1. r.exprs \in Seq(MappingType(E, A)) /\ r.exprs # <<>> BY DEF RuleType, HasCatchAll
<1>2. Len(r.exprs) \in DOMAIN r.exprs BY <1>1
<1>3. r.exprs[Len(r.exprs)] \in MappingType(E, A) BY <1>1, <1>2
<1>4. r.exprs[Len(r.exprs)].expr \in E /\ r.exprs[Len(r.exprs)].expr.type \in {"NULL", "TRUE"}
  BY <1>3 DEF MappingType, HasCatchAll
<1>5. r.exprs[Len(r.exprs)].expr \in S BY <1>4 DEF Worlds
<1> QED BY <1>2, <1>5 DEF NoneOf

(* rule_add_expr without expression gives the action to what passes.       *)
LEMMA CatchAllDecides ==
  ASSUME NEW E, NEW A, Parts(E, A), NEW r \in RuleType(E, A), IsConditional(r), NEW b \in A,
         NEW S \in Worlds(E)
  PROVE  /\ IsConditional(AddExpr(r, NULL, b)) /\ ~Passes(AddExpr(r, NULL, b), S)
         /\ \A a : Gives(AddExpr(r, NULL, b), S, a) <=> Gives(r, S, a) \/ (Passes(r, S) /\ a = b)
<1> DEFINE t == AddExpr(r, NULL, b)
<1>1. t \in RuleType(E, A) /\ HasCatchAll(t) /\ IsConditional(t)
  BY CatchAll DEF IsConditional
<1>2. ~Passes(t, S) BY <1>1, NeverPasses DEF Passes
<1>3. CASE HasCatchAll(r)
  <2>1. t = r BY <1>3 DEF AddExpr
  <2>2. ~Passes(r, S) BY <1>3, NeverPasses DEF Passes
  <2> QED BY <1>1, <1>2, <2>1, <2>2
<1>4. CASE ~HasCatchAll(r)
  <2> DEFINE m == Mapping(NULL, b)
             y == <<m>>
  <2>1. m \in MappingType(E, A) /\ r.exprs \in Seq(MappingType(E, A))
    BY DEF MappingType, Mapping, Parts, RuleType
  <2>2. t.exprs = Append(r.exprs, m) BY <1>4 DEF AddExpr, RuleType
  <2>3. NULL \in S BY DEF Worlds, Parts, NULL
  <2>4. m.expr \in S /\ m.action = b BY <2>3 DEF Mapping
  <2> HIDE DEF m
  <2>5. y \in Seq(MappingType(E, A)) /\ Append(r.exprs, m) = r.exprs \o y BY <2>1
  <2>6. DOMAIN y = {1} /\ y[1] = m BY <2>1
  <2>7. \A a : FirstOf(y, S, a) <=> a = b
    <3> HIDE DEF y
    <3> QED BY <2>4, <2>6 DEF FirstOf
  <2> HIDE DEF y
  <2>8. \A a : FirstOf(t.exprs, S, a) <=> FirstOf(r.exprs, S, a) \/ (NoneOf(r.exprs, S) /\ FirstOf(y, S, a))
    <3> DEFINE M == MappingType(E, A)
               x == r.exprs
    <3>1. x \in Seq(M) /\ y \in Seq(M) BY <2>1, <2>5
    <3>2. t.exprs = x \o y BY <2>2, <2>5
    <3> HIDE DEF M, x
    <3>3. \A a : FirstOf(x \o y, S, a) <=> FirstOf(x, S, a) \/ (NoneOf(x, S) /\ FirstOf(y, S, a))
      BY <3>1, Concatenated
    <3> QED BY <3>2, <3>3 DEF x
  <2> HIDE DEF t
  <2>9. \A a : Gives(t, S, a) <=> Gives(r, S, a) \/ (Passes(r, S) /\ a = b)
    BY <1>1, <2>7, <2>8 DEF Gives, Passes
  <2> QED BY <1>1, <1>2, <2>9 DEF t
<1> QED BY <1>3, <1>4

LEMMA AbsorbedDecides ==
  ASSUME NEW E, NEW A, Parts(E, A), rules \in Seq(RuleType(E, A)), i \in 1..(Len(rules) - 1),
         j \in 1..i, NEW S \in Worlds(E)
  PROVE  /\ Passes(Absorbed, S) <=> Passes(Prev, S) /\ Passes(Cur, S)
         /\ \A a : Gives(Absorbed, S, a) <=> Gives(Prev, S, a) \/ (Passes(Prev, S) /\ Gives(Cur, S, a))
<1>1. Prev \in RuleType(E, A) /\ Cur \in RuleType(E, A) BY DEF Prev, Cur
<1>2. CASE ~IsConditional(Prev)
  <2>1. Absorbed = Prev BY <1>2 DEF Absorbed
  <2> QED BY <1>2, <2>1 DEF Passes
<1>3. CASE IsConditional(Prev) /\ HasCatchAll(Prev)
  <2>1. Absorbed = Prev BY <1>3 DEF Absorbed
  <2>2. ~Passes(Prev, S) BY <1>1, <1>3, NeverPasses DEF Passes
  <2> QED BY <2>1, <2>2
<1>4. CASE IsConditional(Prev) /\ ~HasCatchAll(Prev) /\ IsConditional(Cur)
  <2>1. Absorbed = [Prev EXCEPT !.exprs = @ \o Cur.exprs] BY <1>4 DEF Absorbed
  <2>2. /\ Absorbed.exprs = Prev.exprs \o Cur.exprs /\ Absorbed.action = Prev.action
        /\ Prev.exprs \in Seq(MappingType(E, A)) /\ Cur.exprs \in Seq(MappingType(E, A))
    BY <1>1, <2>1 DEF RuleType
  <2>3. /\ NoneOf(Absorbed.exprs, S) <=> NoneOf(Prev.exprs, S) /\ NoneOf(Cur.exprs, S)
        /\ \A a : FirstOf(Absorbed.exprs, S, a)
                    <=> FirstOf(Prev.exprs, S, a) \/ (NoneOf(Prev.exprs, S) /\ FirstOf(Cur.exprs, S, a))
    <3> DEFINE M == MappingType(E, A)
               x == Prev.exprs
               y == Cur.exprs
    <3>1. x \in Seq(M) /\ y \in Seq(M) /\ Absorbed.exprs = x \o y BY <2>2
    <3> HIDE DEF M, x, y
    <3>2. /\ NoneOf(x \o y, S) <=> NoneOf(x, S) /\ NoneOf(y, S)
          /\ \A a : FirstOf(x \o y, S, a) <=> FirstOf(x, S, a) \/ (NoneOf(x, S) /\ FirstOf(y, S, a))
      BY <3>1, Concatenated
    <3> QED BY <3>1, <3>2 DEF x, y
  <2>4. IsConditional(Absorbed) BY <1>4, <2>2 DEF IsConditional
  <2> QED BY <1>4, <2>3, <2>4 DEF Passes, Gives
<1>5. CASE IsConditional(Prev) /\ ~HasCatchAll(Prev) /\ ~IsConditional(Cur)
  <2>1. Absorbed = AddExpr(Prev, NULL, Cur.action) BY <1>5 DEF Absorbed
  <2>2. Cur.action \in A BY <1>1, <1>5 DEF RuleType, IsConditional
  <2>3. /\ ~Passes(Absorbed, S)
        /\ \A a : Gives(Absorbed, S, a) <=> Gives(Prev, S, a) \/ (Passes(Prev, S) /\ a = Cur.action)
    BY <1>1, <1>5, <2>1, <2>2, CatchAllDecides
  <2>4. ~Passes(Cur, S) /\ \A a : Gives(Cur, S, a) <=> a = Cur.action BY <1>5 DEF Passes, Gives
  <2> QED BY <2>3, <2>4
<1> QED BY <1>2, <1>3, <1>4, <1>5

(* Closed rules give the default to what passes.                           *)
LEMMA ClosedDecides ==
  ASSUME NEW E, NEW A, Parts(E, A), RulesType(E, A), i \in 1..Len(rules), NEW S \in Worlds(E)
  PROVE  /\ ~Passes(Closed, S)
         /\ \A a : Gives(Closed, S, a) <=> Gives(rules[i], S, a) \/ (Passes(rules[i], S) /\ a = default_action)
<1>1. rules[i] \in RuleType(E, A) /\ default_action \in A BY DEF RulesType
<1>2. CASE IsConditional(rules[i])
  <2>1. Closed = AddExpr(rules[i], NULL, default_action) BY <1>2 DEF Closed
  <2> QED BY <1>1, <1>2, <2>1, CatchAllDecides
<1>3. CASE ~IsConditional(rules[i]) BY <1>3 DEF Closed, Passes
<1> QED BY <1>2, <1>3

-----------------------------------------------------------------------------
(* Ranges in order.                                                        *)

LEMMA OrderedApart ==
  ASSUME NEW E, NEW A, NEW rs \in Seq(RuleType(E, A)), NEW n \in Nat, n <= Len(rs), OrderedTo(rs, n)
  PROVE  /\ \A k \in 1..n : /\ rs[k].first \in Nat /\ rs[k].last \in Nat
                            /\ rs[k].first <= rs[k].last
         /\ \A m \in 1..n : \A k \in 1..(m - 1) : rs[k].last < rs[m].first
<1>1. \A k \in 1..n : /\ rs[k].first \in Nat /\ rs[k].last \in Nat
                      /\ rs[k].first <= rs[k].last
  <2> TAKE k \in 1..n
  <2>1. rs[k] \in RuleType(E, A) OBVIOUS
  <2>2. rs[k].first \in Nat /\ rs[k].last \in Nat BY <2>1, RuleEnds
  <2> QED BY <2>2 DEF OrderedTo, ProperRange
<1>2. \A k \in 1..n : k < n => rs[k].last < rs[k + 1].first BY DEF OrderedTo
<1> DEFINE P == {m \in Nat : m \in 1..n => \A k \in 1..(m - 1) : rs[k].last < rs[m].first}
<1>3. 0 \in P OBVIOUS
<1>4. ASSUME NEW m \in Nat, m \in P PROVE m + 1 \in P
  <2> SUFFICES ASSUME m + 1 \in 1..n, NEW k \in 1..m PROVE rs[k].last < rs[m + 1].first OBVIOUS
  <2>1. m \in 1..n /\ m < n OBVIOUS
  <2>2. rs[m].last < rs[m + 1].first BY <1>2, <2>1
  <2>3. rs[m].first <= rs[m].last /\ rs[m].first \in Nat /\ rs[m].last \in Nat BY <1>1, <2>1
  <2>4. rs[m + 1].first \in Nat /\ k \in 1..n /\ rs[k].last \in Nat BY <1>1, <2>1
  <2>5. CASE k = m BY <2>2, <2>5
  <2>6. CASE k # m
    <3>1. rs[k].last < rs[m].first BY <1>4, <2>1, <2>6
    <3> QED BY <2>2, <2>3, <2>4, <3>1
  <2> QED BY <2>5, <2>6
<1> HIDE DEF P
<1>5. Nat \subseteq P BY <1>3, <1>4, SetInduction
<1>6. \A m \in 1..n : \A k \in 1..(m - 1) : rs[k].last < rs[m].first BY <1>5 DEF P
<1> QED BY <1>1, <1>6

LEMMA SortedApart ==
  ASSUME NEW E, NEW A, NEW rs \in Seq(RuleType(E, A)), NEW n \in Nat \ {0}, SortedFrom(rs, n)
  PROVE  /\ \A k \in n..Len(rs) : rs[k].first \in Nat /\ rs[k].last = rs[k].first
         /\ \A m \in n..Len(rs) : \A k \in n..m : rs[k].first <= rs[m].first
<1>1. \A k \in n..Len(rs) : rs[k].first \in Nat /\ rs[k].last = rs[k].first
  <2> TAKE k \in n..Len(rs)
  <2>1. rs[k] \in RuleType(E, A) OBVIOUS
  <2>2. rs[k].first \in Nat BY <2>1, RuleEnds
  <2> QED BY <2>2 DEF SortedFrom
<1>2. \A k \in n..Len(rs) : k > n => rs[k - 1].first <= rs[k].first BY DEF SortedFrom
<1> DEFINE P == {m \in Nat : m \in n..Len(rs) => \A k \in n..m : rs[k].first <= rs[m].first}
<1>3. 0 \in P OBVIOUS
<1>4. ASSUME NEW m \in Nat, m \in P PROVE m + 1 \in P
  <2> SUFFICES ASSUME m + 1 \in n..Len(rs), NEW k \in n..(m + 1) PROVE rs[k].first <= rs[m + 1].first
    OBVIOUS
  <2>1. rs[k].first \in Nat /\ rs[m + 1].first \in Nat BY <1>1
  <2>2. CASE k = m + 1 BY <2>1, <2>2
  <2>3. CASE k # m + 1
    <3>1. k \in n..m /\ m \in n..Len(rs) BY <2>3
    <3>2. rs[k].first <= rs[m].first /\ rs[m].first \in Nat BY <1>1, <1>4, <3>1
    <3>3. (m + 1) - 1 = m /\ m + 1 > n BY <3>1
    <3>4. rs[m].first <= rs[m + 1].first BY <1>2, <3>3
    <3> QED BY <2>1, <3>2, <3>4
  <2> QED BY <2>2, <2>3
<1> HIDE DEF P
<1>5. Nat \subseteq P BY <1>3, <1>4, SetInduction
<1>6. \A m \in n..Len(rs) : \A k \in n..m : rs[k].first <= rs[m].first
  <2> TAKE m \in n..Len(rs)
  <2>1. m \in Nat OBVIOUS
  <2> QED BY <1>5, <2>1 DEF P
<1> QED BY <1>1, <1>6

-----------------------------------------------------------------------------
(* normalize_rules_count_missing: the rules that count are those up to j   *)
(* and those beyond i.                                                     *)

Unread == (1..j) \cup ((i + 1)..Len(rules))

(* What lies before and what lies after the current two rules.             *)
LEMMA AroundPass ==
  ASSUME NEW E, NEW A, Parts(E, A), RulesType(E, A), CountInv, Counting
  PROVE  /\ i \in 1..(Len(rules) - 1) /\ j \in 1..i /\ Len(rules) \in Nat
         /\ Prev.first \in Nat /\ Prev.last \in Nat /\ Cur.first \in Nat
         /\ Prev.first <= Prev.last /\ Prev.last <= Cur.first /\ Cur.last = Cur.first
         /\ \A k \in 1..(j - 1) : /\ rules[k].first \in Nat /\ rules[k].last \in Nat
                                  /\ rules[k].last < Prev.first
         /\ \A k \in (i + 1)..Len(rules) : /\ rules[k].first \in Nat /\ rules[k].last = rules[k].first
                                           /\ Cur.first <= rules[k].first
<1>1. /\ i \in 1..(Len(rules) - 1) /\ j \in 1..i /\ rules \in Seq(RuleType(E, A))
      /\ Cur.first = Cur.last /\ ProperRange(Prev) /\ Prev.last <= Cur.first
      /\ Cur \in RuleType(E, A) /\ Prev \in RuleType(E, A)
  BY AtPass DEF RulesType
<1>2. OrderedTo(rules, j) /\ SortedFrom(rules, i + 1) BY DEF CountInv, Counting
<1>3. j \in Nat /\ j <= Len(rules) /\ i + 1 \in Nat \ {0} /\ Len(rules) \in Nat BY <1>1
<1>4. /\ \A k \in 1..j : rules[k].first \in Nat /\ rules[k].last \in Nat
      /\ \A m \in 1..j : \A k \in 1..(m - 1) : rules[k].last < rules[m].first
  BY <1>1, <1>2, <1>3, OrderedApart
<1>5. /\ \A k \in (i + 1)..Len(rules) : rules[k].first \in Nat /\ rules[k].last = rules[k].first
      /\ \A m \in (i + 1)..Len(rules) : \A k \in (i + 1)..m : rules[k].first <= rules[m].first
  BY <1>1, <1>2, <1>3, SortedApart
<1>6. \A k \in 1..(j - 1) : /\ rules[k].first \in Nat /\ rules[k].last \in Nat
                            /\ rules[k].last < Prev.first
  BY <1>1, <1>4 DEF Prev
<1>7. \A k \in (i + 1)..Len(rules) : Cur.first <= rules[k].first
  <2> TAKE k \in (i + 1)..Len(rules)
  <2>1. i + 1 \in (i + 1)..k BY <1>1
  <2> QED BY <1>5, <2>1 DEF Cur
<1>8. Prev.first \in Nat /\ Prev.last \in Nat /\ Cur.first \in Nat BY <1>1, RuleFacts
<1> QED BY <1>1, <1>3, <1>5, <1>6, <1>7, <1>8 DEF ProperRange

(* No rule is for a number in the gap.                                     *)
LEMMA InGap ==
  ASSUME NEW E, NEW A, Parts(E, A), RulesType(E, A), CountInv, Counting,
         NEW nr \in Nat, Prev.last < nr, nr < Cur.first
  PROVE  \A k \in Unread : ~Covers(rules[k], nr)
<1> SUFFICES ASSUME NEW k \in Unread PROVE ~Covers(rules[k], nr) OBVIOUS
<1>0. /\ Prev.first \in Nat /\ Prev.last \in Nat /\ Cur.first \in Nat /\ Prev.first <= Prev.last
      /\ \A m \in 1..(j - 1) : rules[m].last \in Nat /\ rules[m].last < Prev.first
      /\ \A m \in (i + 1)..Len(rules) : rules[m].first \in Nat /\ Cur.first <= rules[m].first
  BY AroundPass
<1>1. CASE k \in 1..(j - 1)
  <2>1. rules[k].last \in Nat /\ rules[k].last < Prev.first BY <1>0, <1>1
  <2>2. ~(nr <= rules[k].last) BY <1>0, <2>1
  <2> QED BY <2>2 DEF Covers
<1>2. CASE k = j
  <2>1. ~(nr <= Prev.last) BY <1>0
  <2> QED BY <1>2, <2>1 DEF Covers, Prev
<1>3. CASE k \in (i + 1)..Len(rules)
  <2>1. rules[k].first \in Nat /\ Cur.first <= rules[k].first BY <1>0, <1>3
  <2>2. ~(rules[k].first <= nr) BY <1>0, <2>1
  <2> QED BY <2>2 DEF Covers
<1>4. k \in 1..(j - 1) \/ k = j \/ k \in (i + 1)..Len(rules)
  <2>1. k \in 1..j \/ k \in (i + 1)..Len(rules) BY DEF Unread
  <2>2. j \in Int BY AroundPass
  <2>3. k \in 1..j => k \in 1..(j - 1) \/ k = j BY <2>2
  <2> QED BY <2>1, <2>3
<1> QED BY <1>1, <1>2, <1>3, <1>4

(* The current rule is kept, at b; where the last range or the current one *)
(* has grown into the gap, or a range lies between them, the default       *)
(* decides.                                                                *)
Placed(ts, b) ==
  /\ \A k \in 1..(j - 1) : ts[k] = rules[k]
  /\ \A k \in (i + 2)..Len(rules) : ts[k] = rules[k]
  /\ Alike(Prev, ts[j]) /\ ts[j].first = Prev.first /\ ts[j].last \in Nat
  /\ Prev.last <= ts[j].last /\ ts[j].last < Cur.first
  /\ ts[j].last = Prev.last \/ IsDefault(Prev)
  /\ Alike(Cur, ts[b]) /\ ts[b].last = Cur.last /\ ts[b].first \in Nat
  /\ Prev.last < ts[b].first /\ ts[b].first <= Cur.first
  /\ ts[b].first = Cur.first \/ IsDefault(Cur)
  /\ b = j + 2 => /\ IsDefault(ts[j + 1]) /\ ts[j + 1].first \in Nat /\ ts[j + 1].last \in Nat
                  /\ Prev.last < ts[j + 1].first /\ ts[j + 1].last < Cur.first

LEMMA PlacedDecides ==
  ASSUME NEW E, NEW A, Parts(E, A), RulesType(E, A), CountInv, Counting,
         NEW ts, NEW b \in {j + 1, j + 2}, b <= i + 1, Placed(ts, b), NEW nr \in Nat, NEW S
  PROVE  \A a : Decides(rules, Unread, nr, S, a)
                  <=> Decides(ts, (1..b) \cup ((i + 2)..Len(rules)), nr, S, a)
<1>0. /\ \A k \in 1..(j - 1) : ts[k] = rules[k]
      /\ \A k \in (i + 2)..Len(rules) : ts[k] = rules[k]
      /\ Alike(Prev, ts[j]) /\ ts[j].first = Prev.first /\ ts[j].last \in Nat
      /\ Prev.last <= ts[j].last /\ ts[j].last < Cur.first
      /\ ts[j].last = Prev.last \/ IsDefault(Prev)
      /\ Alike(Cur, ts[b]) /\ ts[b].last = Cur.last /\ ts[b].first \in Nat
      /\ Prev.last < ts[b].first /\ ts[b].first <= Cur.first
      /\ ts[b].first = Cur.first \/ IsDefault(Cur)
      /\ b = j + 2 => /\ IsDefault(ts[j + 1]) /\ ts[j + 1].first \in Nat /\ ts[j + 1].last \in Nat
                      /\ Prev.last < ts[j + 1].first /\ ts[j + 1].last < Cur.first
  BY DEF Placed
<1> DEFINE L == (1..b) \cup ((i + 2)..Len(rules))
           f == [k \in Unread |-> IF k = i + 1 THEN b ELSE k]
<1>1. /\ i \in 1..(Len(rules) - 1) /\ j \in 1..i /\ Len(rules) \in Nat
      /\ Prev.first \in Nat /\ Prev.last \in Nat /\ Cur.first \in Nat
      /\ Prev.first <= Prev.last /\ Prev.last <= Cur.first /\ Cur.last = Cur.first
  BY AroundPass
<1>2. L \in SUBSET Nat BY <1>1
<1>3. \A k \in Unread : \/ k \in 1..(j - 1) /\ f[k] = k /\ k \in L
                        \/ k = j /\ f[k] = j /\ j \in L
                        \/ k = i + 1 /\ f[k] = b /\ b \in L
                        \/ k \in (i + 2)..Len(rules) /\ f[k] = k /\ k \in L
  BY <1>1 DEF Unread
<1>4. \A k, m \in Unread : k < m <=> f[k] < f[m]
  <2>1. \A k \in Unread : /\ k \in Int /\ (k <= j \/ k = i + 1 \/ k >= i + 2)
                           /\ f[k] = IF k = i + 1 THEN b ELSE k
    BY <1>1 DEF Unread
  <2> HIDE DEF f
  <2> TAKE k \in Unread, m \in Unread
  <2>2. f[k] = (IF k = i + 1 THEN b ELSE k) /\ f[m] = (IF m = i + 1 THEN b ELSE m)
    BY <2>1
  <2>3. j < b /\ b <= i + 1 /\ b \in Int /\ i \in Int /\ j \in Int /\ j <= i BY <1>1
  <2>4. /\ k \in Int /\ (k <= j \/ k = i + 1 \/ k >= i + 2)
        /\ m \in Int /\ (m <= j \/ m = i + 1 \/ m >= i + 2)
    BY <2>1
  <2>5. CASE k = i + 1
    <3>1. f[k] = b BY <2>2, <2>5
    <3>2. CASE m = i + 1 BY <2>2, <2>3, <2>5, <3>1, <3>2
    <3>3. CASE m # i + 1
      <4>1. f[m] = m BY <2>2, <3>3
      <4> QED BY <2>3, <2>4, <2>5, <3>1, <3>3, <4>1
    <3> QED BY <3>2, <3>3
  <2>6. CASE k # i + 1
    <3>1. f[k] = k BY <2>2, <2>6
    <3>2. CASE m = i + 1
      <4>1. f[m] = b BY <2>2, <3>2
      <4> QED BY <2>3, <2>4, <2>6, <3>1, <3>2, <4>1
    <3>3. CASE m # i + 1
      <4>1. f[m] = m BY <2>2, <3>3
      <4> QED BY <3>1, <4>1
    <3> QED BY <3>2, <3>3
  <2> QED BY <2>5, <2>6
<1>5. /\ \A l \in L : \/ l \in 1..(j - 1) \/ l = j \/ l = b \/ l \in (i + 2)..Len(rules)
                      \/ (l = j + 1 /\ b = j + 2)
      /\ \A l \in 1..(j - 1) : l \in Unread /\ f[l] = l
      /\ j \in Unread /\ f[j] = j
      /\ i + 1 \in Unread /\ f[i + 1] = b
      /\ \A l \in (i + 2)..Len(rules) : l \in Unread /\ f[l] = l
  BY <1>1 DEF Unread
<1> HIDE DEF f, L
<1>6. rules[j] = Prev /\ rules[i + 1] = Cur BY DEF Prev, Cur
<1>7. \A k \in Unread : Covers(rules[k], nr) => /\ f[k] \in L /\ Alike(rules[k], ts[f[k]])
                                                /\ Covers(ts[f[k]], nr)
  <2> SUFFICES ASSUME NEW k \in Unread, Covers(rules[k], nr)
               PROVE  f[k] \in L /\ Alike(rules[k], ts[f[k]]) /\ Covers(ts[f[k]], nr)
    OBVIOUS
  <2>1. CASE k \in 1..(j - 1) /\ f[k] = k /\ k \in L BY <1>0, <2>1 DEF Alike
  <2>2. CASE k = j /\ f[k] = j /\ j \in L BY <1>0, <1>1, <1>6, <2>2 DEF Covers
  <2>3. CASE k = i + 1 /\ f[k] = b /\ b \in L BY <1>0, <1>1, <1>6, <2>3 DEF Covers
  <2>4. CASE k \in (i + 2)..Len(rules) /\ f[k] = k /\ k \in L BY <1>0, <2>4 DEF Alike
  <2> QED BY <1>3, <2>1, <2>2, <2>3, <2>4
<1>8. \A l \in L : Covers(ts[l], nr) =>
        \/ \E k \in Unread : f[k] = l /\ Covers(rules[k], nr)
        \/ IsDefault(ts[l]) /\ \A k \in Unread : ~Covers(rules[k], nr)
  <2> SUFFICES ASSUME NEW l \in L, Covers(ts[l], nr)
               PROVE  \/ \E k \in Unread : f[k] = l /\ Covers(rules[k], nr)
                      \/ IsDefault(ts[l]) /\ \A k \in Unread : ~Covers(rules[k], nr)
    OBVIOUS
  <2>1. CASE l \in 1..(j - 1) BY <1>0, <1>5, <2>1
  <2>2. CASE l \in (i + 2)..Len(rules) BY <1>0, <1>5, <2>2
  <2>3. CASE l = j
    <3>1. CASE nr <= Prev.last BY <1>0, <1>1, <1>5, <1>6, <2>3, <3>1 DEF Covers
    <3>2. CASE ~(nr <= Prev.last)
      <4>1. Prev.last < nr /\ nr < Cur.first /\ IsDefault(Prev) BY <1>0, <1>1, <2>3, <3>2 DEF Covers
      <4>2. IsDefault(ts[j]) BY <1>0, <4>1 DEF IsDefault, Alike, IsConditional
      <4> QED BY <2>3, <4>1, <4>2, InGap
    <3> QED BY <3>1, <3>2
  <2>4. CASE l = b
    <3>1. CASE Cur.first <= nr BY <1>0, <1>1, <1>5, <1>6, <2>4, <3>1 DEF Covers
    <3>2. CASE ~(Cur.first <= nr)
      <4>1. Prev.last < nr /\ nr < Cur.first /\ IsDefault(Cur) BY <1>0, <1>1, <2>4, <3>2 DEF Covers
      <4>2. IsDefault(ts[b]) BY <1>0, <4>1 DEF IsDefault, Alike, IsConditional
      <4> QED BY <2>4, <4>1, <4>2, InGap
    <3> QED BY <3>1, <3>2
  <2>5. CASE l = j + 1 /\ b = j + 2
    <3>1. ts[j + 1].first <= nr /\ nr <= ts[j + 1].last BY <2>5 DEF Covers
    <3>2. /\ IsDefault(ts[j + 1]) /\ ts[j + 1].first \in Nat /\ ts[j + 1].last \in Nat
          /\ Prev.last < ts[j + 1].first /\ ts[j + 1].last < Cur.first
      BY <1>0, <2>5
    <3>3. Prev.last < nr /\ nr < Cur.first
      <4> DEFINE x == ts[j + 1].first
                 y == ts[j + 1].last
      <4>1. x <= nr /\ nr <= y /\ x \in Nat /\ y \in Nat /\ Prev.last < x /\ y < Cur.first
        BY <3>1, <3>2
      <4> HIDE DEF x, y
      <4> QED BY <1>1, <4>1
    <3>4. \A k \in Unread : ~Covers(rules[k], nr) BY <3>3, InGap
    <3> QED BY <2>5, <3>2, <3>4
  <2> QED BY <1>5, <2>1, <2>2, <2>3, <2>4, <2>5
<1>9. \A k, m \in Unread : Covers(rules[k], nr) /\ Covers(rules[m], nr) => (k < m <=> f[k] < f[m])
  BY <1>4
<1>10. \A a : Decides(rules, Unread, nr, S, a) <=> Decides(ts, L, nr, S, a)
  <2>1. Moves(rules, Unread, ts, L, f, nr) BY <1>7, <1>8, <1>9 DEF Moves
  <2> QED BY <1>2, <2>1, Filled
<1> QED BY <1>10 DEF L

LEMMA GapDecides ==
  ASSUME NEW E, NEW A, Parts(E, A), RulesType(E, A), CountInv,
         KeepNext \/ StretchPrev \/ StretchCur \/ FillFreed \/ CountGap, NEW nr \in Nat, NEW S
  PROVE  \A a : Decides(rules, Unread, nr, S, a) <=> Decides(rules', Unread', nr, S, a)
<1>1. Counting BY DEF KeepNext, StretchPrev, StretchCur, FillFreed, CountGap, Gap
<1>2. /\ i \in 1..(Len(rules) - 1) /\ j \in 1..i /\ Len(rules) \in Nat
      /\ Prev.first \in Nat /\ Prev.last \in Nat /\ Cur.first \in Nat
      /\ Prev.first <= Prev.last /\ Prev.last <= Cur.first /\ Cur.last = Cur.first
  BY <1>1, AroundPass
<1>3. Prev.last < Cur.first
  BY <1>2 DEF KeepNext, StretchPrev, StretchCur, FillFreed, CountGap, Gap
<1>4. /\ rules \in Seq(RuleType(E, A)) /\ DOMAIN rules = 1..Len(rules)
      /\ rules[j] = Prev /\ rules[i + 1] = Cur
      /\ Prev \in RuleType(E, A) /\ Cur \in RuleType(E, A)
  BY <1>1, <1>2, AtPass DEF RulesType, Prev, Cur
<1>5. default_action \in A /\ default_action # ACTION_CONDITIONAL BY DEF RulesType, Parts
<1>6. Alike(Prev, Prev) /\ Alike(Cur, Cur) BY DEF Alike
<1>7. CASE KeepNext \/ CountGap
  <2>1. rules' = [rules EXCEPT ![j + 1] = Cur] /\ i' = i + 1 /\ j' = j + 1
    BY <1>7 DEF KeepNext, CountGap
  <2>2. /\ \A k \in 1..(j - 1) : rules'[k] = rules[k]
        /\ \A k \in (i + 2)..Len(rules) : rules'[k] = rules[k]
        /\ rules'[j] = Prev /\ rules'[j + 1] = Cur /\ Len(rules') = Len(rules)
    BY <1>2, <1>4, <2>1
  <2>3. Unread' = (1..(j + 1)) \cup ((i + 2)..Len(rules))
    BY <1>2, <2>1, <2>2 DEF Unread
  <2>4. Placed(rules', j + 1) BY <1>2, <1>3, <1>6, <2>2 DEF Placed
  <2>5. j + 1 <= i + 1 /\ j + 1 \in {j + 1, j + 2} BY <1>2
  <2> QED BY <1>1, <2>3, <2>4, <2>5, PlacedDecides
<1>8. CASE StretchPrev
  <2> DEFINE p == [rules[j] EXCEPT !.last = Cur.first - 1]
  <2>1. Gap /\ Prev.action = default_action BY <1>8 DEF StretchPrev
  <2>2. IsDefault(Prev) BY <1>5, <2>1 DEF IsDefault, IsConditional
  <2>3. /\ p.first = Prev.first /\ p.last = Cur.first - 1 /\ Alike(Prev, p)
    BY <1>4 DEF RuleType, Alike
  <2>4. rules' = [[rules EXCEPT ![j] = p] EXCEPT ![j + 1] = Cur] /\ i' = i + 1 /\ j' = j + 1
    BY <1>8 DEF StretchPrev
  <2> HIDE DEF p
  <2>5. /\ \A k \in 1..(j - 1) : rules'[k] = rules[k]
        /\ \A k \in (i + 2)..Len(rules) : rules'[k] = rules[k]
        /\ rules'[j] = p /\ rules'[j + 1] = Cur /\ Len(rules') = Len(rules)
    <3> DEFINE rs == [rules EXCEPT ![j] = p]
    <3>1. DOMAIN rs = 1..Len(rules) /\ \A k \in 1..Len(rules) : rs[k] = IF k = j THEN p ELSE rules[k]
      BY <1>2, <1>4
    <3>2. rules' = [rs EXCEPT ![j + 1] = Cur] /\ rs = [k \in 1..Len(rules) |-> rs[k]]
      BY <1>4, <2>4
    <3> HIDE DEF rs
    <3>3. /\ DOMAIN rules' = 1..Len(rules)
          /\ \A k \in 1..Len(rules) : rules'[k] = IF k = j + 1 THEN Cur ELSE rs[k]
          /\ rules' = [k \in 1..Len(rules) |-> rules'[k]]
      BY <1>2, <3>1, <3>2
    <3>4. Len(rules') = Len(rules) BY <1>2, <3>3
    <3>5. \A k \in 1..Len(rules) : k # j /\ k # j + 1 => rules'[k] = rules[k] BY <3>1, <3>3
    <3>6. \A k \in 1..(j - 1) : k \in 1..Len(rules) /\ k # j /\ k # j + 1 BY <1>2
    <3>7. \A k \in (i + 2)..Len(rules) : k \in 1..Len(rules) /\ k # j /\ k # j + 1 BY <1>2
    <3>8. j \in 1..Len(rules) /\ j + 1 \in 1..Len(rules) /\ j # j + 1 BY <1>2
    <3>9. rules'[j] = p /\ rules'[j + 1] = Cur BY <3>1, <3>3, <3>8
    <3> QED BY <3>4, <3>5, <3>6, <3>7, <3>9
  <2>6. Unread' = (1..(j + 1)) \cup ((i + 2)..Len(rules))
    BY <1>2, <2>4, <2>5 DEF Unread
  <2>7. p.last \in Nat /\ Prev.last <= p.last /\ p.last < Cur.first BY <1>2, <1>3, <2>3
  <2>8. Placed(rules', j + 1) BY <1>2, <1>3, <1>6, <2>2, <2>3, <2>5, <2>7 DEF Placed
  <2>9. j + 1 <= i + 1 /\ j + 1 \in {j + 1, j + 2} BY <1>2
  <2> QED BY <1>1, <2>6, <2>8, <2>9, PlacedDecides
<1>9. CASE StretchCur
  <2> DEFINE c == [Cur EXCEPT !.first = Prev.last + 1]
  <2>1. Gap /\ Cur.action = default_action BY <1>9 DEF StretchCur
  <2>2. IsDefault(Cur) BY <1>5, <2>1 DEF IsDefault, IsConditional
  <2>3. /\ c.first = Prev.last + 1 /\ c.last = Cur.last /\ Alike(Cur, c)
    BY <1>4 DEF RuleType, Alike
  <2>4. rules' = [rules EXCEPT ![j + 1] = c] /\ i' = i + 1 /\ j' = j + 1
    BY <1>9 DEF StretchCur
  <2> HIDE DEF c
  <2>5. /\ \A k \in 1..(j - 1) : rules'[k] = rules[k]
        /\ \A k \in (i + 2)..Len(rules) : rules'[k] = rules[k]
        /\ rules'[j] = Prev /\ rules'[j + 1] = c /\ Len(rules') = Len(rules)
    BY <1>2, <1>4, <2>4
  <2>6. Unread' = (1..(j + 1)) \cup ((i + 2)..Len(rules))
    BY <1>2, <2>4, <2>5 DEF Unread
  <2>7. c.first \in Nat /\ Prev.last < c.first /\ c.first <= Cur.first BY <1>2, <1>3, <2>3
  <2>8. Placed(rules', j + 1) BY <1>2, <1>3, <1>6, <2>2, <2>3, <2>5, <2>7 DEF Placed
  <2>9. j + 1 <= i + 1 /\ j + 1 \in {j + 1, j + 2} BY <1>2
  <2> QED BY <1>1, <2>6, <2>8, <2>9, PlacedDecides
<1>10. CASE FillFreed
  <2> DEFINE d == Default(Prev.last + 1, Cur.first - 1)
  <2>1. Gap /\ j < i BY <1>10 DEF FillFreed
  <2>2. Prev.last + 1 < Cur.first BY <1>2, <1>3, <2>1 DEF Gap
  <2>3. /\ d.first = Prev.last + 1 /\ d.last = Cur.first - 1 /\ IsDefault(d)
    BY <1>5 DEF Default, Rule, IsDefault, IsConditional
  <2>4. rules' = [[rules EXCEPT ![j + 1] = d] EXCEPT ![j + 2] = Cur] /\ i' = i + 1 /\ j' = j + 2
    BY <1>10 DEF FillFreed
  <2> HIDE DEF d
  <2>5. /\ \A k \in 1..(j - 1) : rules'[k] = rules[k]
        /\ \A k \in (i + 2)..Len(rules) : rules'[k] = rules[k]
        /\ rules'[j] = Prev /\ rules'[j + 1] = d /\ rules'[j + 2] = Cur
        /\ Len(rules') = Len(rules)
    <3> DEFINE rs == [rules EXCEPT ![j + 1] = d]
    <3>1. DOMAIN rs = 1..Len(rules) /\ \A k \in 1..Len(rules) : rs[k] = IF k = j + 1 THEN d ELSE rules[k]
      BY <1>2, <1>4
    <3>2. rules' = [rs EXCEPT ![j + 2] = Cur] /\ rs = [k \in 1..Len(rules) |-> rs[k]]
      BY <1>4, <2>4
    <3> HIDE DEF rs
    <3>3. /\ DOMAIN rules' = 1..Len(rules)
          /\ \A k \in 1..Len(rules) : rules'[k] = IF k = j + 2 THEN Cur ELSE rs[k]
          /\ rules' = [k \in 1..Len(rules) |-> rules'[k]]
      BY <1>2, <3>1, <3>2
    <3>4. Len(rules') = Len(rules) BY <1>2, <3>3
    <3>5. j + 1 \in 1..Len(rules) /\ j + 2 \in 1..Len(rules) BY <1>2, <2>1
    <3>6. \A k \in 1..Len(rules) : k # j + 1 /\ k # j + 2 => rules'[k] = rules[k]
      BY <3>1, <3>3
    <3>7. \A k \in 1..(j - 1) : k \in 1..Len(rules) /\ k # j + 1 /\ k # j + 2 BY <1>2
    <3>8. \A k \in (i + 2)..Len(rules) : k \in 1..Len(rules) /\ k # j + 1 /\ k # j + 2
      BY <1>2, <2>1
    <3>9. j \in 1..Len(rules) /\ j # j + 1 /\ j # j + 2 /\ j + 1 # j + 2 BY <1>2
    <3>10. rules'[j + 1] = d /\ rules'[j + 2] = Cur BY <3>1, <3>3, <3>5, <3>9
    <3>11. rules'[j] = Prev BY <1>4, <3>6, <3>9
    <3> QED BY <3>4, <3>6, <3>7, <3>8, <3>10, <3>11
  <2>6. Unread' = (1..(j + 2)) \cup ((i + 2)..Len(rules))
    BY <1>2, <2>4, <2>5 DEF Unread
  <2>7. /\ d.first \in Nat /\ d.last \in Nat /\ Prev.last < d.first /\ d.last < Cur.first
        /\ j + 2 <= i + 1
    BY <1>2, <2>1, <2>2, <2>3
  <2>8. Placed(rules', j + 2) BY <1>2, <1>3, <1>6, <2>3, <2>5, <2>7 DEF Placed
  <2>9. j + 2 \in {j + 1, j + 2} BY <1>2
  <2> QED BY <1>1, <2>6, <2>7, <2>8, <2>9, PlacedDecides
<1> QED BY <1>7, <1>8, <1>9, <1>10

(* Beyond j, no unread rule is for a number below the current one.         *)
LEMMA SameDecides ==
  ASSUME NEW E, NEW A, Parts(E, A), RulesType(E, A), CountInv, SameCall, NEW nr \in Nat,
         NEW S \in Worlds(E)
  PROVE  \A a : Decides(rules, Unread, nr, S, a) <=> Decides(rules', Unread', nr, S, a)
<1> DEFINE K == Unread
           L == (1..j) \cup ((i + 2)..Len(rules))
           M == Unread \ {j, i + 1}
<1>1. Counting /\ Cur.first = Prev.last BY DEF SameCall
<1>2. /\ i \in 1..(Len(rules) - 1) /\ j \in 1..i /\ Len(rules) \in Nat
      /\ Prev.first \in Nat /\ Prev.last \in Nat /\ Cur.first \in Nat
      /\ Prev.first <= Prev.last /\ Prev.last <= Cur.first /\ Cur.last = Cur.first
      /\ \A k \in 1..(j - 1) : /\ rules[k].first \in Nat /\ rules[k].last \in Nat
                               /\ rules[k].last < Prev.first
      /\ \A k \in (i + 1)..Len(rules) : /\ rules[k].first \in Nat /\ rules[k].last = rules[k].first
                                        /\ Cur.first <= rules[k].first
  BY <1>1, AroundPass
<1>3. rules \in Seq(RuleType(E, A)) /\ DOMAIN rules = 1..Len(rules) BY DEF RulesType
<1>4. rules' = [rules EXCEPT ![j] = Absorbed] /\ i' = i + 1 /\ j' = j BY DEF SameCall
<1>5. /\ Len(rules') = Len(rules) /\ rules'[j] = Absorbed
      /\ \A k \in 1..Len(rules) : k # j => rules'[k] = rules[k]
  BY <1>2, <1>3, <1>4
<1>6. Unread' = L BY <1>2, <1>4, <1>5 DEF Unread
<1>7. rules[j] = Prev /\ rules[i + 1] = Cur BY DEF Prev, Cur
<1>8. Absorbed.first = Prev.first /\ Absorbed.last = Prev.last BY <1>2, <1>3, AbsorbedRule
<1>9. /\ j \in K /\ i + 1 \in K /\ j \in L /\ i + 1 \notin L /\ L = K \ {i + 1}
      /\ L \in SUBSET Nat /\ K \in SUBSET Int /\ j # i + 1
  BY <1>2 DEF Unread
<1>10. \A k \in M : /\ k \in 1..Len(rules) /\ k \in K /\ k \in L /\ rules'[k] = rules[k]
                    /\ (k \in 1..(j - 1) \/ k \in (i + 2)..Len(rules))
  BY <1>2, <1>5 DEF Unread
<1>11. CASE nr = Cur.first
  <2>1. \A k \in M : Covers(rules[k], nr) => j < k /\ i + 1 < k
    <3> SUFFICES ASSUME NEW k \in M, Covers(rules[k], nr) PROVE j < k /\ i + 1 < k OBVIOUS
    <3>1. k \notin 1..(j - 1) BY <1>1, <1>2, <1>11 DEF Covers
    <3> QED BY <1>2, <1>10, <3>1
  <2>2. Covers(rules[j], nr) /\ Covers(rules[i + 1], nr) /\ Covers(rules'[j], nr)
    BY <1>1, <1>2, <1>5, <1>7, <1>8, <1>11 DEF Covers
  <2>3. \A a : Decides(rules, K, nr, S, a)
                 <=> Gives(Prev, S, a) \/ (Passes(Prev, S) /\ Decides(rules, K \ {j}, nr, S, a))
    <3>1. \A m \in K : Covers(rules[m], nr) /\ m # j => j < m BY <1>2, <2>1
    <3> HIDE DEF K
    <3> QED BY <1>7, <1>9, <2>2, <3>1, HeadRule
  <2>4. \A a : Decides(rules, K \ {j}, nr, S, a)
                 <=> Gives(Cur, S, a) \/ (Passes(Cur, S) /\ Decides(rules, M, nr, S, a))
    <3> DEFINE H == K \ {j}
    <3>1. \A m \in H : Covers(rules[m], nr) /\ m # i + 1 => i + 1 < m BY <2>1
    <3>2. H \in SUBSET Int /\ i + 1 \in H /\ M = H \ {i + 1} BY <1>9
    <3> HIDE DEF H, M, K
    <3>3. \A a : Decides(rules, H, nr, S, a)
                 <=> Gives(Cur, S, a) \/ (Passes(Cur, S) /\ Decides(rules, H \ {i + 1}, nr, S, a))
      BY <1>7, <2>2, <3>1, <3>2, HeadRule
    <3> QED BY <3>2, <3>3 DEF H
  <2>5. \A a : Decides(rules', L, nr, S, a)
                 <=> Gives(Absorbed, S, a) \/ (Passes(Absorbed, S) /\ Decides(rules', M, nr, S, a))
    <3>1. M = L \ {j} BY <1>9
    <3>2. \A m \in L : Covers(rules'[m], nr) /\ m # j => j < m
      <4> SUFFICES ASSUME NEW m \in L, Covers(rules'[m], nr), m # j PROVE j < m OBVIOUS
      <4>1. m \in M BY <3>1
      <4> QED BY <1>10, <2>1, <4>1
    <3>3. L \in SUBSET Int BY <1>9
    <3> HIDE DEF L, M
    <3>4. \A a : Decides(rules', L, nr, S, a)
                 <=> Gives(Absorbed, S, a) \/ (Passes(Absorbed, S) /\ Decides(rules', L \ {j}, nr, S, a))
      BY <1>5, <1>9, <2>2, <3>2, <3>3, HeadRule
    <3> QED BY <3>1, <3>4
  <2>6. \A a : Decides(rules, M, nr, S, a) <=> Decides(rules', M, nr, S, a)
    <3>1. \A k \in M : rules'[k] = rules[k] BY <1>10
    <3> HIDE DEF M
    <3> QED BY <3>1 DEF Decides
  <2>7. /\ Passes(Absorbed, S) <=> Passes(Prev, S) /\ Passes(Cur, S)
        /\ \A a : Gives(Absorbed, S, a) <=> Gives(Prev, S, a) \/ (Passes(Prev, S) /\ Gives(Cur, S, a))
    BY <1>2, <1>3, AbsorbedDecides
  <2> HIDE DEF K, L, M
  <2>8. \A a : Decides(rules, K, nr, S, a) <=> Decides(rules', L, nr, S, a)
    BY <2>3, <2>4, <2>5, <2>6, <2>7
  <2> QED BY <1>6, <2>8 DEF K
<1>12. CASE nr # Cur.first
  <2> DEFINE f == [k \in K |-> k]
  <2>1. \A k \in K : Covers(rules[k], nr) => f[k] \in L /\ Alike(rules[k], rules'[f[k]]) /\ Covers(rules'[f[k]], nr)
    <3> SUFFICES ASSUME NEW k \in K, Covers(rules[k], nr)
                 PROVE  k \in L /\ Alike(rules[k], rules'[k]) /\ Covers(rules'[k], nr)
      OBVIOUS
    <3>1. k # i + 1 BY <1>2, <1>7, <1>12 DEF Covers
    <3>2. CASE k = j
      <4>1. Covers(rules'[k], nr) BY <1>5, <1>7, <1>8, <3>2 DEF Covers
      <4>2. ~IsConditional(Prev)
        <5>1. Prev.first < Prev.last BY <1>1, <1>2, <1>7, <1>12, <3>2 DEF Covers
        <5>2. ProperRange(Prev) BY <1>1, AtPass
        <5> QED BY <5>1, <5>2, <1>2 DEF ProperRange
      <4>3. Absorbed = Prev BY <4>2 DEF Absorbed
      <4> QED BY <1>5, <1>7, <1>9, <3>2, <4>1, <4>3 DEF Alike
    <3>3. CASE k # j
      <4>1. k \in M BY <3>1, <3>3
      <4> QED BY <1>10, <4>1 DEF Alike
    <3> QED BY <3>2, <3>3
  <2>2. \A l \in L : Covers(rules'[l], nr) => \E k \in K : f[k] = l /\ Covers(rules[k], nr)
    <3> SUFFICES ASSUME NEW l \in L, Covers(rules'[l], nr) PROVE l \in K /\ Covers(rules[l], nr)
      OBVIOUS
    <3>1. CASE l = j BY <1>5, <1>7, <1>8, <1>9, <3>1 DEF Covers
    <3>2. CASE l # j
      <4>1. l \in M BY <1>9, <3>2
      <4> QED BY <1>10, <4>1
    <3> QED BY <3>1, <3>2
  <2>3. \A k, m \in K : k < m <=> f[k] < f[m] OBVIOUS
  <2> HIDE DEF f, L, K
  <2>4. Moves(rules, K, rules', L, f, nr) BY <2>1, <2>2, <2>3 DEF Moves
  <2>5. \A a : Decides(rules, K, nr, S, a) <=> Decides(rules', L, nr, S, a)
    BY <1>9, <2>4, Filled
  <2> QED BY <1>6, <2>5 DEF K
<1> QED BY <1>11, <1>12

LEMMA ExtendDecides ==
  ASSUME NEW E, NEW A, Parts(E, A), RulesType(E, A), CountInv, ExtendRange, NEW nr \in Nat, NEW S
  PROVE  \A a : Decides(rules, Unread, nr, S, a) <=> Decides(rules', Unread', nr, S, a)
<1> DEFINE K == Unread
           L == (1..j) \cup ((i + 2)..Len(rules))
           M == Unread \ {j, i + 1}
           e == [rules[j] EXCEPT !.last = Cur.last]
<1>1. Counting /\ Cur.first = Prev.last + 1 /\ ~IsConditional(Prev) /\ Prev.action = Cur.action
  BY DEF ExtendRange
<1>2. /\ i \in 1..(Len(rules) - 1) /\ j \in 1..i /\ Len(rules) \in Nat
      /\ Prev.first \in Nat /\ Prev.last \in Nat /\ Cur.first \in Nat
      /\ Prev.first <= Prev.last /\ Prev.last <= Cur.first /\ Cur.last = Cur.first
      /\ \A k \in 1..(j - 1) : /\ rules[k].first \in Nat /\ rules[k].last \in Nat
                               /\ rules[k].last < Prev.first
      /\ \A k \in (i + 1)..Len(rules) : /\ rules[k].first \in Nat /\ rules[k].last = rules[k].first
                                        /\ Cur.first <= rules[k].first
  BY <1>1, AroundPass
<1>3. /\ rules \in Seq(RuleType(E, A)) /\ DOMAIN rules = 1..Len(rules)
      /\ rules[j] = Prev /\ rules[i + 1] = Cur /\ Prev \in RuleType(E, A)
  BY <1>1, AtPass DEF RulesType, Prev, Cur
<1>4. rules' = [rules EXCEPT ![j] = e] /\ i' = i + 1 /\ j' = j BY DEF ExtendRange
<1>5. e.first = Prev.first /\ e.last = Cur.first /\ Alike(Prev, e) BY <1>2, <1>3 DEF RuleType, Alike
<1> HIDE DEF e
<1>6. /\ Len(rules') = Len(rules) /\ rules'[j] = e
      /\ \A k \in 1..Len(rules) : k # j => rules'[k] = rules[k]
  BY <1>2, <1>3, <1>4
<1>7. Unread' = L BY <1>2, <1>4, <1>6 DEF Unread
<1>8. /\ j \in K /\ i + 1 \in K /\ j \in L /\ i + 1 \notin L /\ L = K \ {i + 1}
      /\ L \in SUBSET Nat /\ K \in SUBSET Int /\ L \in SUBSET Int /\ j # i + 1
  BY <1>2 DEF Unread
<1>9. \A k \in M : /\ k \in 1..Len(rules) /\ k \in K /\ k \in L /\ rules'[k] = rules[k]
                   /\ (k \in 1..(j - 1) \/ k \in (i + 2)..Len(rules))
  <2> TAKE k \in M
  <2>1. k \in Unread /\ k # j /\ k # i + 1 OBVIOUS
  <2>2. k \in 1..(j - 1) \/ k \in (i + 2)..Len(rules) BY <1>2, <2>1 DEF Unread
  <2>3. k \in 1..Len(rules) /\ k \in L BY <1>2, <2>2
  <2> QED BY <1>6, <2>1, <2>2, <2>3
<1>10. CASE nr = Cur.first
  <2>1. Covers(rules[i + 1], nr) /\ Covers(rules'[j], nr) /\ ~Covers(rules[j], nr)
    BY <1>1, <1>2, <1>3, <1>5, <1>6, <1>10 DEF Covers
  <2>2. \A k \in M : Covers(rules[k], nr) => j < k /\ i + 1 < k
    <3> SUFFICES ASSUME NEW k \in M, Covers(rules[k], nr) PROVE j < k /\ i + 1 < k OBVIOUS
    <3>1. k \notin 1..(j - 1) BY <1>1, <1>2, <1>10 DEF Covers
    <3> QED BY <1>2, <1>9, <3>1
  <2>3. \A m \in K : Covers(rules[m], nr) /\ m # i + 1 => i + 1 < m BY <2>1, <2>2
  <2>4. \A m \in L : Covers(rules'[m], nr) /\ m # j => j < m
    <3> SUFFICES ASSUME NEW m \in L, Covers(rules'[m], nr), m # j PROVE j < m OBVIOUS
    <3>1. m \in M BY <1>8
    <3> QED BY <1>9, <2>2, <3>1
  <2> HIDE DEF K, L, M
  <2>5. \A a : Decides(rules, K, nr, S, a)
                 <=> Gives(Cur, S, a) \/ (Passes(Cur, S) /\ Decides(rules, K \ {i + 1}, nr, S, a))
    BY <1>3, <1>8, <2>1, <2>3, HeadRule
  <2>6. \A a : Decides(rules', L, nr, S, a)
                 <=> Gives(e, S, a) \/ (Passes(e, S) /\ Decides(rules', L \ {j}, nr, S, a))
    BY <1>6, <1>8, <2>1, <2>4, HeadRule
  <2>7. /\ ~Passes(e, S) /\ ~Passes(Cur, S)
        /\ \A a : (Gives(Cur, S, a) <=> a = Cur.action) /\ (Gives(e, S, a) <=> a = Cur.action)
    BY <1>1, <1>5 DEF Alike, Passes, Gives, IsConditional
  <2>8. \A a : Decides(rules, K, nr, S, a) <=> Decides(rules', L, nr, S, a)
    BY <2>5, <2>6, <2>7
  <2> QED BY <1>7, <2>8 DEF K
<1>11. CASE nr # Cur.first
  <2> DEFINE f == [k \in K |-> k]
  <2>1. \A k \in K : Covers(rules[k], nr) => f[k] \in L /\ Alike(rules[k], rules'[f[k]]) /\ Covers(rules'[f[k]], nr)
    <3> SUFFICES ASSUME NEW k \in K, Covers(rules[k], nr)
                 PROVE  k \in L /\ Alike(rules[k], rules'[k]) /\ Covers(rules'[k], nr)
      OBVIOUS
    <3>1. k # i + 1 BY <1>2, <1>3, <1>11 DEF Covers
    <3>2. CASE k = j BY <1>1, <1>2, <1>3, <1>5, <1>6, <1>8, <3>2 DEF Covers
    <3>3. CASE k # j
      <4>1. k \in M BY <3>1, <3>3
      <4> QED BY <1>9, <4>1 DEF Alike
    <3> QED BY <3>2, <3>3
  <2>2. \A l \in L : Covers(rules'[l], nr) => \E k \in K : f[k] = l /\ Covers(rules[k], nr)
    <3> SUFFICES ASSUME NEW l \in L, Covers(rules'[l], nr) PROVE l \in K /\ Covers(rules[l], nr)
      OBVIOUS
    <3>1. CASE l = j BY <1>1, <1>2, <1>3, <1>5, <1>6, <1>8, <1>11, <3>1 DEF Covers
    <3>2. CASE l # j
      <4>1. l \in M BY <1>8, <3>2
      <4> QED BY <1>9, <4>1
    <3> QED BY <3>1, <3>2
  <2>3. \A k, m \in K : k < m <=> f[k] < f[m] OBVIOUS
  <2> HIDE DEF f, L, K
  <2>4. Moves(rules, K, rules', L, f, nr) BY <2>1, <2>2, <2>3 DEF Moves
  <2>5. \A a : Decides(rules, K, nr, S, a) <=> Decides(rules', L, nr, S, a)
    BY <1>8, <2>4, Filled
  <2> QED BY <1>7, <2>5 DEF K
<1> QED BY <1>10, <1>11

-----------------------------------------------------------------------------
(* add_missing_rules: the rules that count are those up to i and the final *)
(* ones.                                                                   *)

Pending == (1..i) \cup (FirstFinal..Len(rules))

LEMMA ClosedApart ==
  ASSUME NEW E, NEW A, NEW rs \in Seq(RuleType(E, A)), NEW n \in Nat \ {0}, ClosedFrom(rs, n)
  PROVE  \A k \in n..Len(rs) : /\ rs[k].first \in Nat /\ rs[k].last \in Nat
                               /\ rs[n].first <= rs[k].first
<1>1. \A k \in n..Len(rs) : rs[k].first \in Nat /\ rs[k].last \in Nat /\ rs[k].first <= rs[k].last
  <2> TAKE k \in n..Len(rs)
  <2>1. rs[k] \in RuleType(E, A) OBVIOUS
  <2> DEFINE r == rs[k]
  <2>2. r.first \in Nat /\ r.last \in Nat
    <3>1. r \in RuleType(E, A) BY <2>1
    <3> HIDE DEF r
    <3> QED BY <3>1 DEF RuleType
  <2> QED BY <2>2 DEF ClosedFrom, ProperRange
<1>2. \A k \in n..Len(rs) : k # Len(rs) => rs[k].last = rs[k + 1].first - 1
  BY DEF ClosedFrom
<1> DEFINE P == {m \in Nat : m \in n..Len(rs) => rs[n].first <= rs[m].first}
<1>3. 0 \in P OBVIOUS
<1>4. ASSUME NEW m \in Nat, m \in P PROVE m + 1 \in P
  <2> SUFFICES ASSUME m + 1 \in n..Len(rs) PROVE rs[n].first <= rs[m + 1].first OBVIOUS
  <2>1. CASE m + 1 = n BY <1>1, <2>1
  <2>2. CASE m + 1 # n
    <3>1. m \in n..Len(rs) /\ m # Len(rs) BY <2>2
    <3>2. rs[n].first <= rs[m].first BY <1>4, <3>1
    <3>3. rs[m].last = rs[m + 1].first - 1 BY <1>2, <3>1
    <3>4. /\ rs[m].first \in Nat /\ rs[m].last \in Nat /\ rs[m].first <= rs[m].last
          /\ rs[m + 1].first \in Nat
      BY <1>1, <3>1
    <3>5. n \in n..Len(rs) BY <3>1
    <3>6. rs[n].first \in Nat BY <1>1, <3>5
    <3> QED BY <3>2, <3>3, <3>4, <3>6
  <2> QED BY <2>1, <2>2
<1> HIDE DEF P
<1>5. Nat \subseteq P BY <1>3, <1>4, SetInduction
<1>6. \A m \in n..Len(rs) : rs[n].first <= rs[m].first
  <2> TAKE m \in n..Len(rs)
  <2>1. m \in Nat OBVIOUS
  <2> QED BY <1>5, <2>1 DEF P
<1> QED BY <1>1, <1>6

(* What lies below and what lies above rule i.                             *)
LEMMA AroundMove ==
  ASSUME NEW E, NEW A, Parts(E, A), RulesType(E, A), FillInv, Filling
  PROVE  /\ i \in 1..Len(rules) /\ Len(rules) \in Nat /\ FirstFinal \in Nat /\ i < FirstFinal
         /\ rules[i].first \in Nat /\ rules[i].last \in Nat /\ rules[i].first <= rules[i].last
         /\ \A k \in 1..(i - 1) : /\ rules[k].first \in Nat /\ rules[k].last \in Nat
                                  /\ rules[k].last < rules[i].first
         /\ \A k \in FirstFinal..Len(rules) : /\ rules[k].first \in Nat /\ rules[k].last \in Nat
                                              /\ rules[i].last < rules[k].first
                                              /\ HoleAbove => rules[j].first <= rules[k].first
<1>1. /\ i \in 1..Len(rules) /\ i \in Nat \ {0} /\ rules \in Seq(RuleType(E, A))
      /\ FirstFinal \in Nat /\ OrderedTo(rules, i) /\ ClosedFrom(rules, FirstFinal)
  BY AtMove
<1>2. toAdd \in Nat /\ FirstFinal = i + toAdd + 1 /\ stage = "fill"
  BY DEF RulesType, FirstFinal, Filling
<1>3. FirstFinal \in Nat \ {0} /\ i < FirstFinal /\ i \in Nat /\ i <= Len(rules) /\ Len(rules) \in Nat
  BY <1>1, <1>2
<1>4. /\ \A k \in 1..i : /\ rules[k].first \in Nat /\ rules[k].last \in Nat
                         /\ rules[k].first <= rules[k].last
      /\ \A m \in 1..i : \A k \in 1..(m - 1) : rules[k].last < rules[m].first
  BY <1>1, <1>3, OrderedApart
<1>5. \A k \in FirstFinal..Len(rules) : /\ rules[k].first \in Nat /\ rules[k].last \in Nat
                                        /\ rules[FirstFinal].first <= rules[k].first
  BY <1>1, <1>3, ClosedApart
<1>6. i \in 1..i BY <1>1
<1>7. FirstFinal <= Len(rules) => rules[i].last < rules[FirstFinal].first
  <2> HAVE FirstFinal <= Len(rules)
  <2>1. i > 0 /\ rules[i].last \in Nat BY <1>1, <1>4, <1>6
  <2>2. \/ FirstFinal = Len(rules) + 1
        \/ rules[FirstFinal].first = rules[i].last + 1
        \/ rules[i].last < rules[FirstFinal].first
    BY <1>2, <2>1 DEF FillInv
  <2> DEFINE n == Len(rules)
             f == FirstFinal
             x == rules[i].last
             y == rules[f].first
  <2>3. n \in Nat /\ f \in Nat /\ f <= n /\ x \in Nat /\ (f = n + 1 \/ y = x + 1 \/ x < y)
    BY <1>1, <1>3, <2>1, <2>2
  <2> HIDE DEF n, f, x, y
  <2>4. x < y BY <2>3
  <2> QED BY <2>4 DEF f, x, y
<1>8. HoleAbove /\ FirstFinal <= Len(rules) => j = FirstFinal
  BY <1>1, <1>2 DEF FillInv, HoleAbove
<1>9. ASSUME NEW k \in FirstFinal..Len(rules)
      PROVE  rules[i].last < rules[k].first /\ (HoleAbove => rules[j].first <= rules[k].first)
  <2>1. FirstFinal <= Len(rules) /\ FirstFinal \in FirstFinal..Len(rules) BY <1>3
  <2>2. /\ rules[FirstFinal].first \in Nat /\ rules[k].first \in Nat
        /\ rules[FirstFinal].first <= rules[k].first /\ rules[i].last \in Nat
    BY <1>4, <1>5, <1>6, <2>1
  <2>3. rules[i].last < rules[FirstFinal].first BY <1>7, <2>1
  <2>4. rules[i].last < rules[k].first BY <2>2, <2>3
  <2>5. HoleAbove => j = FirstFinal BY <1>8, <2>1
  <2> QED BY <2>2, <2>4, <2>5
<1> QED BY <1>1, <1>3, <1>4, <1>5, <1>6, <1>9

(* Rule i is moved to t, with the default for what passes, and a default   *)
(* rule may be put between it and the final ones.                          *)
Moved(ts, t) ==
  /\ ts[t] = Closed
  /\ \A k \in 1..(i - 1) : ts[k] = rules[k]
  /\ \A k \in FirstFinal..Len(rules) : ts[k] = rules[k]
  /\ FirstFinal = t + 2 =>
       /\ IsDefault(ts[t + 1]) /\ ts[t + 1].first \in Nat /\ ts[t + 1].last \in Nat
       /\ rules[i].last < ts[t + 1].first
       /\ \A k \in FirstFinal..Len(rules) : ts[t + 1].last < rules[k].first

LEMMA MovedDecides ==
  ASSUME NEW E, NEW A, Parts(E, A), RulesType(E, A), FillInv, Filling,
         NEW ts, NEW t \in Nat, i <= t, FirstFinal \in {t + 1, t + 2}, Moved(ts, t), NEW nr \in Nat,
         NEW S \in Worlds(E)
  PROVE  \A a : Decides(rules, Pending, nr, S, a)
                  <=> Decides(ts, (1..(i - 1)) \cup (t..Len(rules)), nr, S, a)
<1> DEFINE K == Pending
           L == (1..(i - 1)) \cup (t..Len(rules))
<1>1. /\ i \in 1..Len(rules) /\ Len(rules) \in Nat /\ FirstFinal \in Nat /\ i < FirstFinal
      /\ rules[i].first \in Nat /\ rules[i].last \in Nat /\ rules[i].first <= rules[i].last
      /\ \A k \in 1..(i - 1) : /\ rules[k].first \in Nat /\ rules[k].last \in Nat
                               /\ rules[k].last < rules[i].first
      /\ \A k \in FirstFinal..Len(rules) : /\ rules[k].first \in Nat /\ rules[k].last \in Nat
                                           /\ rules[i].last < rules[k].first
  BY AroundMove
<1>2. /\ Closed.first = rules[i].first /\ Closed.last = rules[i].last
  BY <1>1, ClosedRule
<1>3. /\ ts[t] = Closed
      /\ \A k \in 1..(i - 1) : ts[k] = rules[k]
      /\ \A k \in FirstFinal..Len(rules) : ts[k] = rules[k]
      /\ FirstFinal = t + 2 =>
           /\ IsDefault(ts[t + 1]) /\ ts[t + 1].first \in Nat /\ ts[t + 1].last \in Nat
           /\ rules[i].last < ts[t + 1].first
           /\ \A k \in FirstFinal..Len(rules) : ts[t + 1].last < rules[k].first
  BY DEF Moved
<1>4. /\ \A k \in K : \/ k \in 1..(i - 1) /\ k \in L
                      \/ k = i
                      \/ k \in FirstFinal..Len(rules) /\ k \in L
      /\ i \in K /\ K \in SUBSET Int
  BY <1>1 DEF Pending
<1>5. /\ \A l \in L : \/ l \in 1..(i - 1) /\ l \in K
                      \/ l = t
                      \/ l \in FirstFinal..Len(rules) /\ l \in K
                      \/ l = t + 1 /\ FirstFinal = t + 2
      /\ L \in SUBSET Nat
  BY <1>1 DEF Pending
<1>6. FirstFinal <= Len(rules) + 1 BY AtMove
<1>7. t \in L BY <1>1, <1>6
<1> HIDE DEF K, L
<1>8. CASE Covers(rules[i], nr)
  <2>1. \A m \in K : Covers(rules[m], nr) => m = i BY <1>1, <1>4, <1>8 DEF Covers
  <2>2. Covers(ts[t], nr) BY <1>2, <1>3, <1>8 DEF Covers
  <2>3. \A m \in L : Covers(ts[m], nr) => m = t
    <3> SUFFICES ASSUME NEW m \in L, Covers(ts[m], nr), m # t PROVE FALSE OBVIOUS
    <3>1. rules[i].first <= nr /\ nr <= rules[i].last BY <1>8 DEF Covers
    <3>2. ts[m].first <= nr /\ nr <= ts[m].last BY DEF Covers
    <3>3. CASE m \in 1..(i - 1) BY <1>1, <1>3, <3>1, <3>2, <3>3
    <3>4. CASE m \in FirstFinal..Len(rules) BY <1>1, <1>3, <3>1, <3>2, <3>4
    <3>5. CASE m = t + 1 /\ FirstFinal = t + 2 BY <1>1, <1>3, <3>1, <3>2, <3>5
    <3> QED BY <1>5, <3>3, <3>4, <3>5
  <2>4. \A a : Decides(rules, K, nr, S, a)
                 <=> Gives(rules[i], S, a) \/ (Passes(rules[i], S) /\ a = default_action)
    BY <1>4, <1>8, <2>1, OneRule
  <2>5. \A a : Decides(ts, L, nr, S, a)
                 <=> Gives(ts[t], S, a) \/ (Passes(ts[t], S) /\ a = default_action)
    <3>1. L \in SUBSET Int BY <1>5
    <3> QED BY <1>7, <2>2, <2>3, <3>1, OneRule
  <2>6. /\ ~Passes(Closed, S)
        /\ \A a : Gives(Closed, S, a) <=> Gives(rules[i], S, a) \/ (Passes(rules[i], S) /\ a = default_action)
    BY <1>1, ClosedDecides
  <2>7. \A a : Decides(rules, K, nr, S, a) <=> Decides(ts, L, nr, S, a)
    BY <1>3, <2>4, <2>5, <2>6
  <2> QED BY <2>7 DEF K, L
<1>9. CASE ~Covers(rules[i], nr)
  <2> DEFINE f == [k \in K |-> k]
  <2>1. \A k \in K : Covers(rules[k], nr) => f[k] \in L /\ Alike(rules[k], ts[f[k]]) /\ Covers(ts[f[k]], nr)
    BY <1>3, <1>4, <1>9 DEF Alike
  <2>2. ~Covers(ts[t], nr) BY <1>2, <1>3, <1>9 DEF Covers
  <2>3. ASSUME FirstFinal = t + 2, Covers(ts[t + 1], nr)
        PROVE  IsDefault(ts[t + 1]) /\ \A k \in K : ~Covers(rules[k], nr)
    <3>1. /\ IsDefault(ts[t + 1]) /\ ts[t + 1].first \in Nat /\ ts[t + 1].last \in Nat
          /\ rules[i].last < ts[t + 1].first
          /\ \A k \in FirstFinal..Len(rules) : ts[t + 1].last < rules[k].first
      BY <1>3, <2>3
    <3>2. ts[t + 1].first <= nr /\ nr <= ts[t + 1].last BY <2>3 DEF Covers
    <3>3. rules[i].last < nr BY <1>1, <3>1, <3>2
    <3>4. ASSUME NEW k \in 1..(i - 1) PROVE ~Covers(rules[k], nr)
      <4>1. rules[k].last \in Nat /\ rules[k].last < rules[i].first BY <1>1
      <4>2. ~(nr <= rules[k].last) BY <1>1, <3>3, <4>1
      <4> QED BY <4>2 DEF Covers
    <3>5. ASSUME NEW k \in FirstFinal..Len(rules) PROVE ~Covers(rules[k], nr)
      <4>1. rules[k].first \in Nat /\ ts[t + 1].last < rules[k].first BY <1>1, <3>1
      <4>2. ~(rules[k].first <= nr) BY <3>1, <3>2, <4>1
      <4> QED BY <4>2 DEF Covers
    <3> QED BY <1>4, <1>9, <3>1, <3>4, <3>5
  <2>4. \A l \in L : Covers(ts[l], nr) =>
          \/ \E k \in K : f[k] = l /\ Covers(rules[k], nr)
          \/ IsDefault(ts[l]) /\ \A k \in K : ~Covers(rules[k], nr)
    <3> SUFFICES ASSUME NEW l \in L, Covers(ts[l], nr)
                 PROVE  \/ l \in K /\ Covers(rules[l], nr)
                        \/ IsDefault(ts[l]) /\ \A k \in K : ~Covers(rules[k], nr)
      OBVIOUS
    <3> QED BY <1>3, <1>5, <2>2, <2>3
  <2>5. \A k, m \in K : k < m <=> f[k] < f[m] OBVIOUS
  <2> HIDE DEF f
  <2>6. Moves(rules, K, ts, L, f, nr) BY <2>1, <2>4, <2>5 DEF Moves
  <2>7. \A a : Decides(rules, K, nr, S, a) <=> Decides(ts, L, nr, S, a)
    BY <1>5, <2>6, Filled
  <2> QED BY <2>7 DEF K, L
<1> QED BY <1>8, <1>9

LEMMA MoveUpDecides ==
  ASSUME NEW E, NEW A, Parts(E, A), RulesType(E, A), FillInv, MoveUp, NEW nr \in Nat, NEW S \in Worlds(E)
  PROVE  \A a : Decides(rules, Pending, nr, S, a) <=> Decides(rules', Pending', nr, S, a)
<1> DEFINE t == i + toAdd
<1>1. Filling BY DEF MoveUp
<1>2. /\ i \in 1..Len(rules) /\ rules \in Seq(RuleType(E, A)) /\ FirstFinal \in Nat
      /\ FirstFinal <= Len(rules) + 1 /\ rules[i] \in RuleType(E, A) /\ toAdd \in Nat
      /\ FirstFinal = t + 1
  BY <1>1, AtMove DEF RulesType, FirstFinal
<1>3. t \in Nat /\ i <= t /\ t \in 1..Len(rules) BY <1>2
<1>4. rules' = [rules EXCEPT ![t] = Closed] /\ i' = i - 1 /\ toAdd' = toAdd BY DEF MoveUp
<1> HIDE DEF t
<1>5. /\ Len(rules') = Len(rules)
      /\ \A k \in 1..Len(rules) : rules'[k] = IF k = t THEN Closed ELSE rules[k]
  BY <1>2, <1>3, <1>4
<1>6. Moved(rules', t)
  <2>1. \A k \in 1..(i - 1) : k \in 1..Len(rules) /\ k # t BY <1>2, <1>3
  <2>2. \A k \in FirstFinal..Len(rules) : k \in 1..Len(rules) /\ k # t BY <1>2, <1>3
  <2>3. FirstFinal # t + 2 BY <1>2, <1>3
  <2> QED BY <1>3, <1>5, <2>1, <2>2, <2>3 DEF Moved
<1>7. Pending' = (1..(i - 1)) \cup (t..Len(rules))
  <2>1. FirstFinal' = t BY <1>2, <1>4 DEF FirstFinal, t
  <2> QED BY <1>4, <1>5, <2>1 DEF Pending
<1>8. FirstFinal \in {t + 1, t + 2} BY <1>2
<1> QED BY <1>1, <1>3, <1>6, <1>7, <1>8, MovedDecides

LEMMA FillHoleDecides ==
  ASSUME NEW E, NEW A, Parts(E, A), RulesType(E, A), FillInv, FillHole, NEW nr \in Nat, NEW S \in Worlds(E)
  PROVE  \A a : Decides(rules, Pending, nr, S, a) <=> Decides(rules', Pending', nr, S, a)
<1> DEFINE t == i + toAdd - 1
           d == Default(rules[i].last + 1, rules[j].first - 1)
           rs == [rules EXCEPT ![t + 1] = d]
<1>1. Filling /\ HoleAbove /\ stage = "fill" /\ j > 0 BY DEF FillHole, Filling, HoleAbove
<1>2. /\ i \in 1..Len(rules) /\ rules \in Seq(RuleType(E, A)) /\ FirstFinal \in Nat
      /\ toAdd \in Nat /\ default_action \in A
      /\ toAdd = Holes(rules, i) + NextHole + FrontHole
      /\ Holes(rules, i) \in Nat /\ FrontHole \in 0..1
  BY <1>1, AtMove DEF RulesType
<1>3. NextHole = 1 BY <1>1, <1>2 DEF NextHole
<1>4. j = FirstFinal /\ j <= Len(rules) /\ rules[i].last < rules[j].first
  BY <1>1, <1>2 DEF FillInv
<1>5. FirstFinal = t + 2 /\ t \in Nat /\ i <= t /\ t + 2 <= Len(rules)
  <2>1. toAdd >= 1
    <3>1. Holes(rules, i) \in Nat /\ FrontHole \in Nat BY <1>2
    <3>2. toAdd = Holes(rules, i) + 1 + FrontHole BY <1>2, <1>3
    <3> QED BY <3>1, <3>2
  <2>2. FirstFinal = i + toAdd + 1 BY DEF FirstFinal
  <2> QED BY <1>2, <1>4, <2>1, <2>2
<1>6. /\ rules[i].last \in Nat /\ rules[j].first \in Nat /\ rules[i].last + 1 < rules[j].first
      /\ \A k \in FirstFinal..Len(rules) : rules[k].first \in Nat /\ rules[j].first <= rules[k].first
  <2>1. /\ rules[i].last \in Nat
        /\ \A k \in FirstFinal..Len(rules) : rules[k].first \in Nat /\ rules[j].first <= rules[k].first
    BY <1>1, AroundMove
  <2>2. rules[j].first \in Nat BY <1>2, <1>4, <2>1
  <2>3. rules[j].first # rules[i].last + 1 BY <1>1 DEF HoleAbove
  <2> QED BY <1>4, <2>1, <2>2, <2>3
<1>7. /\ d.first = rules[i].last + 1 /\ d.last = rules[j].first - 1 /\ IsDefault(d)
  <2>1. default_action # ACTION_CONDITIONAL BY <1>2 DEF Parts
  <2> QED BY <2>1 DEF Default, Rule, IsDefault, IsConditional
<1>8. rules' = [rs EXCEPT ![t] = Closed] /\ i' = i - 1 /\ toAdd' = toAdd - 1
  <2>1. t + 1 = i + toAdd BY <1>2
  <2> QED BY <2>1 DEF FillHole
<1> HIDE DEF t, d
<1>9. /\ DOMAIN rs = 1..Len(rules) /\ rs = [k \in 1..Len(rules) |-> rs[k]]
      /\ \A k \in 1..Len(rules) : rs[k] = IF k = t + 1 THEN d ELSE rules[k]
  BY <1>2
<1> HIDE DEF rs
<1>10. /\ Len(rules') = Len(rules)
       /\ \A k \in 1..Len(rules) : rules'[k] = IF k = t THEN Closed ELSE rs[k]
  <2>1. /\ DOMAIN rules' = 1..Len(rules) /\ rules' = [k \in 1..Len(rules) |-> rules'[k]]
        /\ \A k \in 1..Len(rules) : rules'[k] = IF k = t THEN Closed ELSE rs[k]
    BY <1>8, <1>9
  <2> QED BY <1>2, <2>1
<1>11. Moved(rules', t)
  <2>1. \A k \in 1..(i - 1) : k \in 1..Len(rules) /\ k # t /\ k # t + 1 BY <1>2, <1>5
  <2>2. \A k \in FirstFinal..Len(rules) : k \in 1..Len(rules) /\ k # t /\ k # t + 1 BY <1>2, <1>5
  <2>3. t \in 1..Len(rules) /\ t + 1 \in 1..Len(rules) /\ t + 1 # t BY <1>2, <1>5
  <2>4. rules'[t] = Closed /\ rules'[t + 1] = d BY <1>9, <1>10, <2>3
  <2>5. \A k \in 1..(i - 1) : rules'[k] = rules[k] BY <1>9, <1>10, <2>1
  <2>6. \A k \in FirstFinal..Len(rules) : rules'[k] = rules[k] BY <1>9, <1>10, <2>2
  <2>7. /\ d.first \in Nat /\ d.last \in Nat /\ rules[i].last < d.first
        /\ \A k \in FirstFinal..Len(rules) : d.last < rules[k].first
    BY <1>6, <1>7
  <2> QED BY <1>7, <2>4, <2>5, <2>6, <2>7 DEF Moved
<1>12. Pending' = (1..(i - 1)) \cup (t..Len(rules))
  <2>1. FirstFinal' = t BY <1>2, <1>8 DEF FirstFinal, t
  <2> QED BY <1>8, <1>10, <2>1 DEF Pending
<1>13. FirstFinal \in {t + 1, t + 2} BY <1>5
<1> QED BY <1>1, <1>5, <1>11, <1>12, <1>13, MovedDecides

LEMMA FillFirstDecides ==
  ASSUME NEW E, NEW A, Parts(E, A), RulesType(E, A), FillInv, FillFirst, NEW nr \in Nat, NEW S
  PROVE  \A a : Decides(rules, Pending, nr, S, a) <=> Decides(rules', 1..Len(rules'), nr, S, a)
<1>1. /\ stage = "fill" /\ i = 0 /\ rules \in Seq(RuleType(E, A)) /\ toAdd \in Nat /\ j \in Nat
      /\ default_action \in A /\ Len(rules) \in Nat
  BY DEF FillFirst, RulesType
<1>2. FirstFinal = toAdd + 1 BY <1>1 DEF FirstFinal
<1>3. FirstFinal <= Len(rules) /\ ClosedFrom(rules, FirstFinal)
  BY <1>1, <1>2 DEF FillInv
<1>4. toAdd = FrontHole
  <2>1. Holes(rules, 0) = 0 BY HolesNat
  <2>2. NextHole = 0 BY <1>1 DEF NextHole
  <2>3. toAdd = Holes(rules, i) + NextHole + FrontHole BY <1>1 DEF FillInv
  <2>4. FrontHole \in 0..1 BY DEF FrontHole
  <2> QED BY <1>1, <2>1, <2>2, <2>3, <2>4
<1>5. toAdd \in {0, 1} BY <1>4 DEF FrontHole
<1>6. Pending = FirstFinal..Len(rules) BY <1>1 DEF Pending
<1>7. CASE toAdd = 0
  <2>1. FirstFinal = 1 /\ rules' = rules BY <1>2, <1>7 DEF FillFirst
  <2> QED BY <1>6, <2>1
<1>8. CASE toAdd = 1
  <2> DEFINE d == Default(0, rules[2].first - 1)
             K == 2..Len(rules)
             L == 1..Len(rules)
             f == [k \in K |-> k]
  <2>1. FirstFinal = 2 /\ rules' = [rules EXCEPT ![1] = d] BY <1>2, <1>8 DEF FillFirst
  <2>2. d.last = rules[2].first - 1 /\ IsDefault(d)
    <3>1. default_action # ACTION_CONDITIONAL BY <1>1 DEF Parts
    <3> QED BY <3>1 DEF Default, Rule, IsDefault, IsConditional
  <2> HIDE DEF d
  <2>3. /\ Len(rules') = Len(rules) /\ rules'[1] = d
        /\ \A k \in K : rules'[k] = rules[k]
    BY <1>1, <1>3, <2>1
  <2>4. \A k \in K : rules[k].first \in Nat /\ rules[2].first <= rules[k].first
    BY <1>1, <1>3, <2>1, ClosedApart
  <2>5. rules[2].first \in Nat BY <1>3, <1>1, <2>1, <2>4
  <2>6. \A k \in K : f[k] \in L /\ f[k] = k BY <1>1
  <2>7. \A l \in L : l = 1 \/ l \in K BY <1>1
  <2>8. Covers(d, nr) => \A k \in K : ~Covers(rules[k], nr)
    BY <2>2, <2>4, <2>5 DEF Covers
  <2>9. L \in SUBSET Nat OBVIOUS
  <2> HIDE DEF f, K, L
  <2>10. Moves(rules, K, rules', L, f, nr)
    <3>1. \A k \in K : Covers(rules[k], nr) => /\ f[k] \in L /\ Alike(rules[k], rules'[f[k]])
                                               /\ Covers(rules'[f[k]], nr)
      BY <2>3, <2>6 DEF Alike
    <3>2. \A k, m \in K : Covers(rules[k], nr) /\ Covers(rules[m], nr) => (k < m <=> f[k] < f[m])
      BY <2>6
    <3>3. \A l \in L : Covers(rules'[l], nr) =>
            \/ \E k \in K : f[k] = l /\ Covers(rules[k], nr)
            \/ IsDefault(rules'[l]) /\ \A k \in K : ~Covers(rules[k], nr)
      BY <2>2, <2>3, <2>6, <2>7, <2>8
    <3> QED BY <3>1, <3>2, <3>3 DEF Moves
  <2>11. \A a : Decides(rules, K, nr, S, a) <=> Decides(rules', L, nr, S, a) BY <2>9, <2>10, Filled
  <2> QED BY <1>6, <2>1, <2>3, <2>11 DEF K, L
<1> QED BY <1>5, <1>7, <1>8

LEMMA EndsDecides ==
  ASSUME NEW E, NEW A, Parts(E, A), RulesType(E, A), CountInv, Ends, default_action' = default_action,
         NEW nr \in Nat, NEW S
  PROVE  \A a : Decides(rules, Unread, nr, S, a) <=> Decides(rules', Pending', nr, S, a)
<1> DEFINE K == 1..j
           F == FirstFinal'
           L == (1..j) \cup (F..Len(rules'))
           f == [k \in K |-> k]
<1>1. /\ stage = "count" /\ i = Len(rules) /\ rules \in Seq(RuleType(E, A)) /\ j \in Nat \ {0}
      /\ j <= Len(rules) /\ OrderedTo(rules, j) /\ Len(rules) \in Nat
  <2>1. stage = "count" /\ i = Len(rules) BY DEF Ends
  <2> QED BY <2>1 DEF RulesType, CountInv
<1>2. Unread = K BY <1>1 DEF Unread
<1>3. RulesType(E, A)' /\ FillInv' /\ Grown(rules, rules', j) /\ EndAdded(rules', j) BY EndsKept
<1>4. i' = j /\ j' = 0 /\ stage' = "fill" BY DEF Ends
<1>5. /\ F \in Nat /\ j < F
      /\ \/ F = Len(rules') + 1
         \/ F = Len(rules') /\ rules'[j].last # MAX_SYSCALL_NR
  <2> DEFINE n == Len(rules')
  <2>1. toAdd' \in Nat /\ F = j + toAdd' + 1 BY <1>3, <1>4 DEF RulesType, FirstFinal
  <2>2. rules' \in Seq(RuleType(E, A)) /\ n \in Nat BY <1>3 DEF RulesType
  <2>3. \/ F = n + 1 /\ rules'[j].last = MAX_SYSCALL_NR
        \/ F = n /\ rules'[F].first = rules'[j].last + 1
    BY <1>1, <1>3, <1>4, <2>1 DEF FillInv
  <2>4. F \in Nat /\ j < F
    <3> DEFINE x == toAdd'
    <3>1. j \in Nat /\ x \in Nat BY <1>1, <2>1
    <3>2. F = j + x + 1 BY <2>1
    <3> HIDE DEF x, F
    <3>3. j + x + 1 \in Nat /\ j < j + x + 1 BY <3>1
    <3> QED BY <3>2, <3>3
  <2>5. ASSUME F = n, rules'[F].first = rules'[j].last + 1
        PROVE  rules'[j].last # MAX_SYSCALL_NR
    <3>1. n \in 1..n BY <1>1, <2>2, <2>4, <2>5
    <3>2. rules'[n] \in RuleType(E, A) BY <2>2, <3>1
    <3>3. rules'[n].first \in Nat /\ rules'[n].first <= MAX_SYSCALL_NR BY <3>2 DEF RuleType
    <3> QED BY <2>5, <3>3
  <2> QED BY <2>3, <2>4, <2>5
<1>6. Pending' = L BY <1>4 DEF Pending
<1> HIDE DEF F
<1>7. /\ \A k \in 1..j : rules[k].first \in Nat /\ rules[k].last \in Nat /\ rules[k].first <= rules[k].last
      /\ \A m \in 1..j : \A k \in 1..(m - 1) : rules[k].last < rules[m].first
  BY <1>1, OrderedApart
<1>8. \A k \in 1..j : rules[k].last <= MAX_SYSCALL_NR BY <1>1 DEF OrderedTo
<1>9. \A k \in 1..j : rules[1].first <= rules[k].first /\ rules[k].last <= rules[j].last
  <2> TAKE k \in 1..j
  <2>1. 1 \in 1..j /\ j \in 1..j BY <1>1
  <2>2. CASE k = 1 /\ k = j BY <1>7, <2>1, <2>2
  <2>3. ASSUME k # 1 PROVE rules[1].first <= rules[k].first
    <3>1. 1 \in 1..(k - 1) BY <2>3
    <3>2. rules[1].last < rules[k].first BY <1>7, <3>1
    <3> QED BY <1>7, <2>1, <3>2
  <2>4. ASSUME k # j PROVE rules[k].last <= rules[j].last
    <3>1. k \in 1..(j - 1) BY <1>1, <2>4
    <3>2. rules[k].last < rules[j].first BY <1>7, <2>1, <3>1
    <3> QED BY <1>7, <2>1, <3>2
  <2> QED BY <1>7, <2>1, <2>3, <2>4
<1>10. ASSUME NEW k \in 1..j
       PROVE  /\ Alike(rules[k], rules'[k])
              /\ rules'[k].first = rules[k].first \/ (k = 1 /\ IsDefault(rules[k]) /\ rules'[k].first = 0)
              /\ rules'[k].last = rules[k].last \/ (k = j /\ IsDefault(rules[k]) /\ rules'[k].last = MAX_SYSCALL_NR)
  BY <1>3 DEF Grown
<1>11. \A k \in K : Covers(rules[k], nr) => f[k] \in L /\ Alike(rules[k], rules'[f[k]]) /\ Covers(rules'[f[k]], nr)
  <2> SUFFICES ASSUME NEW k \in K, Covers(rules[k], nr) PROVE Covers(rules'[k], nr) BY <1>10
  <2>1. rules[k].first <= nr /\ nr <= rules[k].last BY DEF Covers
  <2>2. rules'[k].first <= nr BY <1>7, <1>10, <2>1
  <2>3. nr <= rules'[k].last BY <1>7, <1>8, <1>10, <2>1
  <2> QED BY <2>2, <2>3 DEF Covers
<1>12. ASSUME NEW k \in K, Covers(rules'[k], nr), ~Covers(rules[k], nr)
       PROVE  IsDefault(rules'[k]) /\ \A m \in K : ~Covers(rules[m], nr)
  <2>1. CASE nr < rules[k].first
    <3>1. rules'[k].first # rules[k].first BY <1>7, <1>12, <2>1 DEF Covers
    <3>2. k = 1 /\ IsDefault(rules[k]) BY <1>10, <3>1
    <3>3. \A m \in K : ~Covers(rules[m], nr) BY <1>7, <1>9, <2>1, <3>2 DEF Covers
    <3> QED BY <1>10, <3>2, <3>3 DEF IsDefault, IsConditional, Alike
  <2>2. CASE rules[k].last < nr
    <3>1. rules'[k].last # rules[k].last BY <1>7, <1>12, <2>2 DEF Covers
    <3>2. k = j /\ IsDefault(rules[k]) BY <1>10, <3>1
    <3>3. \A m \in K : ~Covers(rules[m], nr) BY <1>7, <1>9, <2>2, <3>2 DEF Covers
    <3> QED BY <1>10, <3>2, <3>3 DEF IsDefault, IsConditional, Alike
  <2> QED BY <1>7, <1>12, <2>1, <2>2 DEF Covers
<1>13. ASSUME NEW l \in F..Len(rules'), Covers(rules'[l], nr)
       PROVE  IsDefault(rules'[l]) /\ \A m \in K : ~Covers(rules[m], nr)
  <2>1. l = F /\ F = Len(rules') /\ rules'[j].last # MAX_SYSCALL_NR BY <1>5, <1>13
  <2>2. IsDefault(rules'[l]) /\ rules'[l].first = rules'[j].last + 1
    BY <1>3, <2>1 DEF EndAdded
  <2>3. j \in 1..j BY <1>1
  <2>4. rules'[j].last = rules[j].last /\ rules[j].last \in Nat BY <1>7, <1>10, <2>1, <2>3
  <2>5. rules[j].last < nr BY <1>13, <2>2, <2>4 DEF Covers
  <2> QED BY <1>7, <1>9, <2>2, <2>4, <2>5 DEF Covers
<1>14. \A l \in L : Covers(rules'[l], nr) =>
         \/ \E k \in K : f[k] = l /\ Covers(rules[k], nr)
         \/ IsDefault(rules'[l]) /\ \A k \in K : ~Covers(rules[k], nr)
  BY <1>12, <1>13
<1>15. L \in SUBSET Nat BY <1>5
<1>16. \A k, m \in K : k < m <=> f[k] < f[m] OBVIOUS
<1> HIDE DEF f, K, L
<1>17. Moves(rules, K, rules', L, f, nr) BY <1>11, <1>14, <1>16 DEF Moves
<1>18. \A a : Decides(rules, K, nr, S, a) <=> Decides(rules', L, nr, S, a)
  BY <1>15, <1>17, Filled
<1> QED BY <1>2, <1>6, <1>18

-----------------------------------------------------------------------------
(* The beginning of normalize_rules.                                       *)

LEMMA SortDecides ==
  ASSUME NEW E, NEW A, NEW rs \in Seq(RuleType(E, A)), Listed(rs), NEW nr \in Nat, NEW S
  PROVE  /\ Len(Sorted(rs)) = Len(rs)
         /\ \A a : Decides(Sorted(rs), 1..Len(rs), nr, S, a) <=> Decides(rs, 1..Len(rs), nr, S, a)
<1> DEFINE K == 1..Len(rs)
           ts == Sorted(rs)
<1>0. PICK p : Arranged(rs, p) BY Places
<1>1. /\ p \in [K -> K] /\ \A n \in K : ts[n] = rs[p[n]]
      /\ \A m, n \in K : m < n => BySyscallAndPriority(rs[p[m]], rs[p[n]])
      /\ \A k \in K : \E n \in K : p[n] = k
  BY <1>0 DEF Arranged
<1>2. \A k \in K : /\ rs[k].first \in Nat /\ rs[k].last = rs[k].first /\ rs[k].priority = k
  <2> TAKE k \in K
  <2>1. rs[k] \in RuleType(E, A) OBVIOUS
  <2> QED BY <2>1 DEF RuleType, Listed
<1>3. K \in SUBSET Nat OBVIOUS
<1>4. Len(ts) = Len(rs)
  <2>1. Sorted(rs) = [n \in K |-> rs[CHOOSE k \in DOMAIN rs : Cardinality(Earlier(rs, k)) = n - 1]]
    BY DEF Sorted
  <2> DEFINE g == [n \in K |-> rs[CHOOSE k \in DOMAIN rs : Cardinality(Earlier(rs, k)) = n - 1]]
  <2>2. DOMAIN g = 1..Len(rs) /\ Len(rs) \in Nat OBVIOUS
  <2> HIDE DEF g
  <2>3. ts = g BY <2>1 DEF g
  <2> HIDE DEF ts
  <2>4. Len(g) = Len(rs) BY <2>2
  <2> QED BY <2>3, <2>4
<1> HIDE DEF K, ts
<1>5. \A k \in K : Covers(ts[k], nr) => /\ p[k] \in K /\ Alike(ts[k], rs[p[k]]) /\ Covers(rs[p[k]], nr)
  BY <1>1 DEF Alike
<1>6. ASSUME NEW k \in K, NEW m \in K, Covers(ts[k], nr), Covers(ts[m], nr), k < m
      PROVE  p[k] < p[m]
  <2>1. p[k] \in K /\ p[m] \in K /\ ts[k] = rs[p[k]] /\ ts[m] = rs[p[m]] BY <1>1
  <2>2. BySyscallAndPriority(rs[p[k]], rs[p[m]]) BY <1>1, <1>6
  <2>3. rs[p[k]].first = rs[p[m]].first BY <1>2, <1>6, <2>1 DEF Covers
  <2>4. rs[p[k]].first \in Nat /\ rs[p[m]].first \in Nat BY <1>2, <2>1
  <2>5. rs[p[k]].priority < rs[p[m]].priority BY <2>2, <2>3, <2>4 DEF BySyscallAndPriority
  <2> QED BY <1>2, <2>1, <2>5
<1>7. ASSUME NEW k \in K, NEW m \in K, Covers(ts[k], nr), Covers(ts[m], nr)
      PROVE  k < m <=> p[k] < p[m]
  <2>1. k \in Nat /\ m \in Nat /\ p[k] \in Nat /\ p[m] \in Nat BY <1>1, <1>3
  <2>2. k < m => p[k] < p[m] BY <1>6, <1>7
  <2>3. m < k => p[m] < p[k] BY <1>6, <1>7
  <2>4. k = m => p[k] = p[m] OBVIOUS
  <2> QED BY <2>1, <2>2, <2>3, <2>4
<1>8. ASSUME NEW l \in K, Covers(rs[l], nr) PROVE \E k \in K : p[k] = l /\ Covers(ts[k], nr)
  <2>1. PICK k \in K : p[k] = l BY <1>1
  <2>2. ts[k] = rs[l] BY <1>1, <2>1
  <2> QED BY <1>8, <2>1, <2>2
<1>9. Moves(ts, K, rs, K, p, nr) BY <1>5, <1>7, <1>8 DEF Moves
<1>10. \A a : Decides(ts, K, nr, S, a) <=> Decides(rs, K, nr, S, a) BY <1>3, <1>9, Filled
<1> QED BY <1>4, <1>10 DEF K, ts

LEMMA NothingDecides ==
  ASSUME NEW E, NEW A, Parts(E, A), default_action \in A, NormalizeNothing, NEW nr \in Numbers, NEW S
  PROVE  \A a : Decides(rules, 1..Len(rules), nr, S, a) <=> Decides(rules', 1..Len(rules'), nr, S, a)
<1> DEFINE d == Default(0, MAX_SYSCALL_NR)
           e == [d EXCEPT !.priority = Len(<<>>) + 1]
           K == 1..1
<1>1. e.first = 0 /\ e.last = MAX_SYSCALL_NR /\ e.action = default_action
  BY DEF Default, Rule
<1>2. rules' = <<e>> /\ rules = <<>> BY DEF NormalizeNothing, AddRule
<1> HIDE DEF e, d
<1>3. rules'[1] = e /\ Len(rules') = 1 /\ 1..Len(rules) = {} BY <1>2
<1>4. Covers(e, nr) BY <1>1 DEF Covers
<1>5. ~IsConditional(e) BY <1>1 DEF Parts, IsConditional
<1>6. K \in SUBSET Int /\ 1 \in K /\ \A m \in K : m = 1 OBVIOUS
<1> HIDE DEF K
<1>7. \A a : Decides(rules', K, nr, S, a)
               <=> Gives(e, S, a) \/ (Passes(e, S) /\ a = default_action)
  BY <1>3, <1>4, <1>6, OneRule
<1>8. \A a : Decides(rules', K, nr, S, a) <=> a = default_action
  BY <1>1, <1>5, <1>7 DEF Gives, Passes
<1>9. \A a : Decides(rules, 1..Len(rules), nr, S, a) <=> a = default_action
  BY <1>3 DEF Decides
<1> QED BY <1>3, <1>8, <1>9 DEF K

-----------------------------------------------------------------------------
(* The rules that count: all of them, but while the list is worked on.     *)
Live == CASE stage = "count" -> Unread [] stage = "fill" -> Pending [] OTHER -> 1..Len(rules)

(* The list decides every call as R does, whichever expressions hold.      *)
DecidesAs(R, E) ==
  \A nr \in Numbers : \A S \in Worlds(E) : \A a :
    Decides(rules, Live, nr, S, a) <=> Decides(R, 1..Len(R), nr, S, a)

LEMMA StepDecides ==
  ASSUME NEW E, NEW A, Parts(E, A), NormalInit(E, A) \/ (RulesType(E, A) /\ NormalInv),
         Normalize, default_action' = default_action, NEW nr \in Numbers, NEW S \in Worlds(E)
  PROVE  \A a : Decides(rules, Live, nr, S, a) <=> Decides(rules', Live', nr, S, a)
<1>1. nr \in Nat OBVIOUS
<1>2. CASE NormalInit(E, A)
  <2>1. stage = "sort" BY <1>2 DEF NormalInit
  <2>2. Live = 1..Len(rules) BY <2>1 DEF Live
  <2>3. NormalizeNothing \/ SortRules
    BY <2>1 DEF Normalize, SameCall, ExtendRange, KeepNext, StretchPrev, StretchCur, FillFreed,
                CountGap, Gap, Counting, Ends, MoveUp, FillHole, Filling, FillFirst
  <2>4. CASE NormalizeNothing
    <3>1. stage' = "normalized" /\ default_action \in A BY <1>2, <2>4 DEF NormalizeNothing, NormalInit
    <3>2. Live' = 1..Len(rules') BY <3>1 DEF Live
    <3> QED BY <2>2, <2>4, <3>1, <3>2, NothingDecides
  <2>5. CASE SortRules
    <3>1. rules \in Seq(RuleType(E, A)) /\ Listed(rules) BY <1>2 DEF NormalInit
    <3>2. rules # <<>> /\ rules' = Sorted(rules) /\ i' = 1 /\ j' = 1 /\ stage' = "count"
      BY <2>5 DEF SortRules
    <3>3. /\ Len(Sorted(rules)) = Len(rules)
          /\ \A a : Decides(Sorted(rules), 1..Len(rules), nr, S, a) <=> Decides(rules, 1..Len(rules), nr, S, a)
      BY <1>1, <3>1, SortDecides
    <3>4. Len(rules) \in Nat \ {0} BY <3>1, <3>2
    <3>5. Unread' = (1..1) \cup (2..Len(rules')) BY <3>2 DEF Unread
    <3>6. Live' = Unread' BY <3>2 DEF Live
    <3>7. Len(rules') = Len(rules) BY <3>2, <3>3
    <3>8. (1..1) \cup (2..Len(rules)) = 1..Len(rules) BY <3>4
    <3>9. Live' = 1..Len(rules) BY <3>5, <3>6, <3>7, <3>8
    <3> QED BY <2>2, <3>2, <3>3, <3>9
  <2> QED BY <2>3, <2>4, <2>5
<1>3. CASE RulesType(E, A) /\ NormalInv
  <2>1. CountInv /\ FillInv /\ stage # "sort" BY <1>3 DEF NormalInv, RulesType
  <2>2. ASSUME SameCall \/ ExtendRange \/ KeepNext \/ StretchPrev \/ StretchCur \/ CountGap \/ FillFreed
        PROVE  \A a : Decides(rules, Live, nr, S, a) <=> Decides(rules', Live', nr, S, a)
    <3>1. stage = "count" /\ stage' = "count"
      BY <2>2 DEF SameCall, ExtendRange, KeepNext, StretchPrev, StretchCur, CountGap, FillFreed,
                  Gap, Counting
    <3>2. Live = Unread /\ Live' = Unread' BY <3>1 DEF Live
    <3>3. \A a : Decides(rules, Unread, nr, S, a) <=> Decides(rules', Unread', nr, S, a)
      BY <1>1, <1>3, <2>1, <2>2, SameDecides, ExtendDecides, GapDecides
    <3> QED BY <3>2, <3>3
  <2>3. CASE Ends
    <3>1. stage = "count" /\ stage' = "fill" BY <2>3 DEF Ends
    <3>2. Live = Unread /\ Live' = Pending' BY <3>1 DEF Live
    <3> QED BY <1>1, <1>3, <2>1, <2>3, <3>2, EndsDecides
  <2>4. CASE MoveUp \/ FillHole
    <3>1. stage = "fill" /\ stage' = "fill" BY <2>4 DEF MoveUp, FillHole, Filling
    <3>2. Live = Pending /\ Live' = Pending' BY <3>1 DEF Live
    <3> QED BY <1>1, <1>3, <2>1, <2>4, <3>2, MoveUpDecides, FillHoleDecides
  <2>5. CASE FillFirst
    <3>1. stage = "fill" /\ stage' = "normalized" BY <2>5 DEF FillFirst
    <3>2. Live = Pending /\ Live' = 1..Len(rules') BY <3>1 DEF Live
    <3> QED BY <1>1, <1>3, <2>1, <2>5, <3>2, FillFirstDecides
  <2>6. ~(NormalizeNothing \/ SortRules) BY <2>1 DEF NormalizeNothing, SortRules
  <2> QED BY <2>2, <2>3, <2>4, <2>5, <2>6 DEF Normalize
<1> QED BY <1>2, <1>3

(* Sorting, merging, stretching and filling change no decision: for every  *)
(* system call number, and whichever expressions hold, the normalized list *)
(* gives the action that the list of the policy gives, where the first     *)
(* rule for the number that is taken decides and the default action when   *)
(* there is none (NormalizedRules then gives that list its shape).         *)
THEOREM DecisionsKept ==
  ASSUME NEW E, NEW A, Parts(E, A), NEW R
  PROVE  NormalSpec(E, A) /\ rules = R => [](stage = "normalized" =>
           \A nr \in Numbers : \A S \in Worlds(E) : \A a :
             Decides(rules, 1..Len(rules), nr, S, a) <=> Decides(R, 1..Len(R), nr, S, a))
<1> DEFINE I == (NormalInit(E, A) \/ (RulesType(E, A) /\ NormalInv)) /\ DecidesAs(R, E)
           Q == stage = "normalized" =>
                  \A nr \in Numbers : \A S \in Worlds(E) : \A a :
                    Decides(rules, 1..Len(rules), nr, S, a) <=> Decides(R, 1..Len(R), nr, S, a)
<1>1. NormalInit(E, A) /\ rules = R => I
  <2> SUFFICES ASSUME NormalInit(E, A), rules = R PROVE I OBVIOUS
  <2>1. stage = "sort" BY DEF NormalInit
  <2>2. Live = 1..Len(rules) BY <2>1 DEF Live
  <2> QED BY <2>2 DEF DecidesAs
<1>2. ASSUME I, [Normalize /\ UNCHANGED default_action]_allVars PROVE I'
  <2>1. CASE Normalize /\ UNCHANGED default_action
    <3>1. RulesType(E, A)' /\ NormalInv' BY <1>2, <2>1, NormalStep
    <3>2. DecidesAs(R, E)'
      <4> SUFFICES ASSUME NEW nr \in Numbers, NEW S \in Worlds(E), NEW a
                   PROVE  Decides(rules, Live, nr, S, a)' <=> Decides(R, 1..Len(R), nr, S, a)'
        BY DEF DecidesAs
      <4>1. Decides(rules, Live, nr, S, a) <=> Decides(rules', Live', nr, S, a)
        BY <1>2, <2>1, StepDecides
      <4>2. Decides(rules, Live, nr, S, a) <=> Decides(R, 1..Len(R), nr, S, a)
        BY <1>2 DEF DecidesAs
      <4>3. /\ Decides(rules, Live, nr, S, a)' <=> Decides(rules', Live', nr, S, a)
            /\ Decides(R, 1..Len(R), nr, S, a)' <=> Decides(R, 1..Len(R), nr, S, a)
        BY <2>1 DEF Decides
      <4> QED BY <4>1, <4>2, <4>3
    <3> QED BY <3>1, <3>2
  <2>2. CASE UNCHANGED allVars
    <3>1. NormalInit(E, A)' \/ (RulesType(E, A)' /\ NormalInv')
      BY <1>2, <2>2 DEF RulesType, NormalInit, NormalInv, CountInv, FillInv, NormalizedRules,
                        FirstFinal, NextHole, FrontHole, HoleAbove, Cur
    <3>2. DecidesAs(R, E)'
      <4>1. Live' = Live BY <2>2 DEF Live, Unread, Pending, FirstFinal
      <4> SUFFICES ASSUME NEW nr \in Numbers, NEW S \in Worlds(E), NEW a
                   PROVE  Decides(rules, Live, nr, S, a)' <=> Decides(R, 1..Len(R), nr, S, a)'
        BY DEF DecidesAs
      <4>2. Decides(rules, Live, nr, S, a) <=> Decides(R, 1..Len(R), nr, S, a)
        BY <1>2 DEF DecidesAs
      <4>3. /\ Decides(rules, Live, nr, S, a)' <=> Decides(rules, Live, nr, S, a)
            /\ Decides(R, 1..Len(R), nr, S, a)' <=> Decides(R, 1..Len(R), nr, S, a)
        BY <2>2, <4>1 DEF Decides
      <4> QED BY <4>2, <4>3
    <3> QED BY <3>1, <3>2
  <2> QED BY <1>2, <2>1, <2>2
<1>3. I => Q
  <2> SUFFICES ASSUME I, stage = "normalized"
               PROVE  \A nr \in Numbers : \A S \in Worlds(E) : \A a :
                        Decides(rules, 1..Len(rules), nr, S, a) <=> Decides(R, 1..Len(R), nr, S, a)
    OBVIOUS
  <2>1. Live = 1..Len(rules) BY DEF Live
  <2> QED BY <2>1 DEF DecidesAs
<1> HIDE DEF I, Q
<1>4. NormalSpec(E, A) /\ rules = R => []Q BY <1>1, <1>2, <1>3, PTL DEF NormalSpec
<1> QED BY <1>4 DEF Q
=============================================================================
