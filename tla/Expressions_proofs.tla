-------------------------- MODULE Expressions_proofs --------------------------
(***************************************************************************)
(* What expression.c promises of every expression: resolving its names and *)
(* simplifying it leave what it means.                                     *)
(***************************************************************************)
EXTENDS Expressions, NaturalsInduction, WellFoundedInduction, TLAPS

-----------------------------------------------------------------------------
(* Induction and recursion over the natural numbers.                       *)

(* Induction over Nat, for a set in place of a predicate.                  *)
LEMMA CountUp ==
  ASSUME NEW S, 0 \in S, \A n \in Nat : n \in S => n + 1 \in S
  PROVE  Nat \subseteq S
<1> DEFINE T == Nat \ S
<1>1. SUFFICES ASSUME T # {} PROVE FALSE
  OBVIOUS
<1>2. PICK x \in T : \A y \in T : ~ (<<y, x>> \in OpToRel(<, Nat))
  <2>1. T \subseteq Nat OBVIOUS
  <2> HIDE DEF T
  <2> QED BY <1>1, <2>1, NatLessThanWellFounded, WFMin
<1>3. x # 0 /\ x \in Nat /\ x - 1 \in Nat OBVIOUS
<1>4. x - 1 \in T BY <1>3
<1>5. <<x - 1, x>> \in OpToRel(<, Nat) BY <1>3 DEF OpToRel
<1> QED BY <1>2, <1>4, <1>5

-----------------------------------------------------------------------------
(* Trees.                                                                  *)

Over(operands) ==
  Leaf \cup [type : {"NOT"}, child : operands]
       \cup [type : Binaries, left : operands, right : operands]

(* What the recursion of ExprsTo defines.                                  *)
LEMMA ExprsToEquations ==
  /\ ExprsTo[0] = Leaf
  /\ \A n \in Nat : ExprsTo[n + 1] = Over(ExprsTo[n])
<1> DEFINE P(n, g) == g[0] = Leaf /\ \A k \in 0..(n - 1) : g[k + 1] = Over(g[k])
           E == {n \in Nat : \E g : P(n, g)}
<1>1. Nat \subseteq E
  <2>1. 0 \in E
    <3>1. P(0, [k \in {0} |-> Leaf]) OBVIOUS
    <3> QED BY <3>1
  <2>2. ASSUME NEW n \in Nat, n \in E PROVE n + 1 \in E
    <3>1. PICK g : P(n, g) BY <2>2
    <3> DEFINE h == [k \in 0..(n + 1) |-> IF k = n + 1 THEN Over(g[n]) ELSE g[k]]
    <3>2. P(n + 1, h)
      <4>1. h[0] = Leaf BY <3>1
      <4>2. ASSUME NEW k \in 0..n PROVE h[k + 1] = Over(h[k])
        <5>1. CASE k = n BY <5>1
        <5>2. CASE k < n
          <6>1. k \in 0..(n - 1) /\ k + 1 \in 0..n BY <5>2
          <6>2. g[k + 1] = Over(g[k]) BY <3>1, <6>1
          <6>3. h[k] = g[k] /\ h[k + 1] = g[k + 1] BY <5>2, <6>1
          <6> QED BY <6>2, <6>3
        <5> QED BY <5>1, <5>2
      <4> HIDE DEF h
      <4>3. \A k \in 0..((n + 1) - 1) : h[k + 1] = Over(h[k]) BY <4>2, (n + 1) - 1 = n
      <4> QED BY <4>1, <4>3
    <3> HIDE DEF P
    <3> QED BY <3>2
  <2> HIDE DEF E
  <2> QED BY <2>1, <2>2, CountUp
<1>2. ASSUME NEW n \in Nat, NEW m \in Nat, NEW g, NEW h, P(n, g), P(m, h)
      PROVE  \A k \in Nat : k <= n /\ k <= m => g[k] = h[k]
  <2> DEFINE A == {k \in Nat : k <= n /\ k <= m => g[k] = h[k]}
  <2>1. 0 \in A BY <1>2
  <2>2. ASSUME NEW k \in Nat, k \in A PROVE k + 1 \in A
    <3>1. CASE k + 1 <= n /\ k + 1 <= m
      <4>1. g[k] = h[k] BY <2>2, <3>1
      <4>2. k \in 0..(n - 1) /\ k \in 0..(m - 1) BY <3>1
      <4>3. g[k + 1] = Over(g[k]) /\ h[k + 1] = Over(h[k]) BY <4>2, <1>2
      <4> QED BY <4>1, <4>3
    <3> QED BY <3>1
  <2>3. Nat \subseteq A
    <3> HIDE DEF A
    <3> QED BY <2>1, <2>2, CountUp
  <2> QED BY <2>3
<1> DEFINE G(n) == CHOOSE g : P(n, g)
           f == [n \in Nat |-> G(n)[n]]
           Growing(F) == [n \in Nat |-> IF n = 0 THEN Leaf ELSE Over(F[n - 1])]
<1>3. \A n \in Nat : P(n, G(n)) BY <1>1
<1> HIDE DEF P, G, E
<1>4. f[0] = Leaf BY <1>3 DEF P
<1>5. ASSUME NEW n \in Nat PROVE f[n + 1] = Over(f[n])
  <2>1. G(n + 1)[n] = G(n)[n] BY <1>2, <1>3
  <2>2. G(n + 1)[n + 1] = Over(G(n + 1)[n])
    BY <1>3, n \in 0..((n + 1) - 1), n + 1 \in Nat DEF P
  <2> QED BY <2>1, <2>2
<1>6. f = Growing(f)
  <2>1. ASSUME NEW n \in Nat PROVE f[n] = IF n = 0 THEN Leaf ELSE Over(f[n - 1])
    <3>1. CASE n = 0 BY <1>4, <3>1
    <3>2. CASE n # 0
      <4>1. n - 1 \in Nat /\ (n - 1) + 1 = n BY <3>2
      <4>2. f[(n - 1) + 1] = Over(f[n - 1]) BY <1>5, <4>1
      <4> QED BY <3>2, <4>1, <4>2
    <3> QED BY <3>1, <3>2
  <2> QED BY <2>1
<1>7. ExprsTo = Growing(ExprsTo)
  <2>1. ExprsTo = CHOOSE F : F = Growing(F) BY DEF ExprsTo, Over
  <2> QED BY <1>6, <2>1
<1>8. ExprsTo[0] = Leaf BY <1>7
<1>9. ASSUME NEW n \in Nat PROVE ExprsTo[n + 1] = Over(ExprsTo[n])
  <2>1. n + 1 \in Nat /\ n + 1 # 0 /\ (n + 1) - 1 = n OBVIOUS
  <2> QED BY <1>7, <2>1
<1> QED BY <1>8, <1>9

BinaryTypes == {"AND", "OR", "GT", "LT", "GE", "LE", "EQ", "NEQ", "BIT_OR", "BIT_AND"}

(* The binary operators, listed.                                           *)
LEMMA BinariesAre == Binaries = BinaryTypes
<1>1. \A k \in 7..16 : k \in {7, 8, 9, 10, 11, 12, 13, 14, 15, 16} OBVIOUS
<1>2. /\ ExprTypes[7] = "AND" /\ ExprTypes[8] = "OR" /\ ExprTypes[9] = "GT" /\ ExprTypes[10] = "LT"
      /\ ExprTypes[11] = "GE" /\ ExprTypes[12] = "LE" /\ ExprTypes[13] = "EQ" /\ ExprTypes[14] = "NEQ"
      /\ ExprTypes[15] = "BIT_OR" /\ ExprTypes[16] = "BIT_AND"
  BY DEF ExprTypes
<1>3. Binaries \subseteq BinaryTypes
  BY <1>1, <1>2 DEF Binaries, BinaryTypes
<1>4. BinaryTypes \subseteq Binaries
  <2> DEFINE T == ExprTypes
  <2>1. \A k \in 7..16 : ExprTypes[k] \in Binaries BY DEF Binaries
  <2> QED BY <1>2, <2>1 DEF BinaryTypes
<1> QED BY <1>3, <1>4

(* What a tree is made of.                                                 *)
Shape(x, E) ==
  \/ x.type = "TRUE" /\ x = True
  \/ x.type = "FALSE" /\ x = False
  \/ x.type = "NUMBER" /\ x = Number(x.number) /\ x.number \in Nat
  \/ x.type = "IDENTIFIER" /\ x = Identifier(x.id) /\ x.id \in STRING
  \/ x.type = "VAR" /\ x = Var(x.var, x.size) /\ x.var \in Nat /\ x.size \in Nat
  \/ x.type = "NOT" /\ x = Unary(x.child) /\ x.child \in E
  \/ x.type \in BinaryTypes /\ x = Binary(x.type, x.left, x.right) /\ x.left \in E /\ x.right \in E

(* Over(E) is the set of trees whose children are in E.                    *)
LEMMA OverShape == ASSUME NEW E PROVE \A x : x \in Over(E) <=> Shape(x, E)
<1>1. ASSUME NEW x, x \in Over(E) PROVE Shape(x, E)
  <2>1. CASE x \in [type : {"TRUE", "FALSE"}] BY <2>1 DEF Shape, True, False
  <2>2. CASE x \in [type : {"NUMBER"}, number : Nat] BY <2>2 DEF Shape, Number
  <2>3. CASE x \in [type : {"IDENTIFIER"}, id : STRING] BY <2>3 DEF Shape, Identifier
  <2>4. CASE x \in [type : {"VAR"}, var : Nat, size : Nat] BY <2>4 DEF Shape, Var
  <2>5. CASE x \in [type : {"NOT"}, child : E] BY <2>5 DEF Shape, Unary
  <2>6. CASE x \in [type : Binaries, left : E, right : E] BY <2>6, BinariesAre DEF Shape, Binary
  <2> QED BY <1>1, <2>1, <2>2, <2>3, <2>4, <2>5, <2>6 DEF Over, Leaf
<1>2. ASSUME NEW x, Shape(x, E) PROVE x \in Over(E)
  <2>1. CASE x = True BY <2>1 DEF Over, Leaf, True
  <2>2. CASE x = False BY <2>2 DEF Over, Leaf, False
  <2>3. CASE x = Number(x.number) /\ x.number \in Nat BY <2>3 DEF Over, Leaf, Number
  <2>4. CASE x = Identifier(x.id) /\ x.id \in STRING BY <2>4 DEF Over, Leaf, Identifier
  <2>5. CASE x = Var(x.var, x.size) /\ x.var \in Nat /\ x.size \in Nat BY <2>5 DEF Over, Leaf, Var
  <2>6. CASE x = Unary(x.child) /\ x.child \in E BY <2>6 DEF Over, Unary
  <2>7. CASE x.type \in BinaryTypes /\ x = Binary(x.type, x.left, x.right) /\ x.left \in E /\ x.right \in E
    BY <2>7, BinariesAre DEF Over, Binary
  <2> QED BY <1>2, <2>1, <2>2, <2>3, <2>4, <2>5, <2>6, <2>7 DEF Shape
<1> QED BY <1>1, <1>2

(* A leaf is a tree without children.                                      *)
LEMMA LeafShape == \A x : x \in Leaf <=> Shape(x, {})
<1>1. Leaf = Over({})
  <2>1. [type : {"NOT"}, child : {}] = {} OBVIOUS
  <2>2. [type : Binaries, left : {}, right : {}] = {} OBVIOUS
  <2> QED BY <2>1, <2>2 DEF Over
<1> QED BY <1>1, OverShape

(* More trees may be children of more trees.                               *)
LEMMA ShapeGrows == ASSUME NEW E, NEW F, E \subseteq F, NEW x, Shape(x, E) PROVE Shape(x, F)
BY DEF Shape

(* The children of a tree are the same whichever set they are found in.    *)
LEMMA ShapeBoth == ASSUME NEW E, NEW F, NEW x, Shape(x, E), Shape(x, F) PROVE Shape(x, E \cap F)
<1>1. CASE x.type = "NOT" BY <1>1 DEF Shape, BinaryTypes
<1>2. CASE x.type \in BinaryTypes BY <1>2 DEF Shape, BinaryTypes
<1>3. CASE x.type # "NOT" /\ x.type \notin BinaryTypes BY <1>3 DEF Shape
<1> QED BY <1>1, <1>2, <1>3

(* Deeper bounds admit more trees.                                         *)
LEMMA ExprsGrow == \A n \in Nat : ExprsTo[n] \subseteq ExprsTo[n + 1]
<1> DEFINE A == {n \in Nat : ExprsTo[n] \subseteq ExprsTo[n + 1]}
<1>1. 0 \in A
  <2>1. ExprsTo[0] = Leaf /\ ExprsTo[0 + 1] = Over(ExprsTo[0]) BY ExprsToEquations
  <2> QED BY <2>1 DEF Over
<1>2. ASSUME NEW n \in Nat, n \in A PROVE n + 1 \in A
  <2>1. ExprsTo[n + 1] = Over(ExprsTo[n]) /\ ExprsTo[(n + 1) + 1] = Over(ExprsTo[n + 1])
    BY ExprsToEquations
  <2>2. ASSUME NEW x \in ExprsTo[n + 1] PROVE x \in ExprsTo[(n + 1) + 1]
    <3>1. Shape(x, ExprsTo[n]) BY <2>1, OverShape
    <3>2. Shape(x, ExprsTo[n + 1]) BY <3>1, <1>2, ShapeGrows
    <3> QED BY <3>2, <2>1, OverShape
  <2> QED BY <2>2
<1> HIDE DEF A
<1>3. Nat \subseteq A BY <1>1, <1>2, CountUp
<1> QED BY <1>3 DEF A

(* The trees up to a depth are trees up to every greater depth.            *)
LEMMA ExprsUpTo == \A n, m \in Nat : n <= m => ExprsTo[n] \subseteq ExprsTo[m]
<1> DEFINE A == {m \in Nat : \A n \in Nat : n <= m => ExprsTo[n] \subseteq ExprsTo[m]}
<1>1. 0 \in A OBVIOUS
<1>2. ASSUME NEW m \in Nat, m \in A PROVE m + 1 \in A
  <2>1. ASSUME NEW n \in Nat, n <= m + 1 PROVE ExprsTo[n] \subseteq ExprsTo[m + 1]
    <3>1. CASE n <= m BY <3>1, <1>2, ExprsGrow
    <3>2. CASE n = m + 1 BY <3>2
    <3> QED BY <2>1, <3>1, <3>2
  <2> QED BY <2>1
<1> HIDE DEF A
<1>3. Nat \subseteq A BY <1>1, <1>2, CountUp
<1> QED BY <1>3 DEF A

(* The parts of an expression are expressions.                             *)
LEMMA Children == \A x \in Exprs : Shape(x, Exprs)
<1> DEFINE D == MAX_EXPRESSION_DEPTH
<1>1. D \in Nat BY ExpressionConstants
<1>2. CASE D = 0
  <2>1. Exprs = Leaf BY <1>2, ExprsToEquations DEF Exprs
  <2> QED BY <2>1, LeafShape, ShapeGrows
<1>3. CASE D # 0
  <2>1. D - 1 \in Nat /\ (D - 1) + 1 = D BY <1>1, <1>3
  <2> HIDE DEF D
  <2>2. ExprsTo[D] = Over(ExprsTo[D - 1]) BY <2>1, ExprsToEquations
  <2>3. ExprsTo[D - 1] \subseteq ExprsTo[D] BY <2>1, ExprsGrow
  <2> QED BY <2>2, <2>3, OverShape, ShapeGrows DEF Exprs, D
<1> QED BY <1>2, <1>3

(* What holds of a tree if it holds of its parts, holds of every tree.     *)
LEMMA TreeInduction ==
  ASSUME NEW A, \A x \in Exprs : Shape(x, A \cap Exprs) => x \in A
  PROVE  Exprs \subseteq A
<1> DEFINE S == {n \in Nat : ExprsTo[n] \cap Exprs \subseteq A}
<1>1. 0 \in S
  <2>1. ASSUME NEW x \in Leaf, x \in Exprs PROVE x \in A
    <3>1. Shape(x, {}) BY LeafShape
    <3> QED BY <3>1, <2>1, ShapeGrows
  <2> QED BY <2>1, ExprsToEquations
<1>2. ASSUME NEW n \in Nat, n \in S PROVE n + 1 \in S
  <2>1. ASSUME NEW x \in ExprsTo[n + 1], x \in Exprs PROVE x \in A
    <3>1. Shape(x, ExprsTo[n]) BY OverShape, ExprsToEquations
    <3>2. Shape(x, Exprs) BY <2>1, Children
    <3>3. Shape(x, ExprsTo[n] \cap Exprs) BY <3>1, <3>2, ShapeBoth
    <3>4. ExprsTo[n] \cap Exprs \subseteq A \cap Exprs BY <1>2
    <3>5. Shape(x, A \cap Exprs) BY <3>3, <3>4, ShapeGrows
    <3> QED BY <2>1, <3>5
  <2> QED BY <2>1
<1> HIDE DEF S
<1>3. Nat \subseteq S BY <1>1, <1>2, CountUp
<1>4. MAX_EXPRESSION_DEPTH \in S BY <1>3, ExpressionConstants
<1> QED BY <1>4 DEF S, Exprs

-----------------------------------------------------------------------------
(* What the recursions over trees define.  Each has a solution on the      *)
(* trees of any depth, since what it says of a tree depends on its parts.  *)
AgreeOnParts(g, h, x) ==
  \/ x.type \in Leaves
  \/ x.type = "NOT" /\ g[x.child] = h[x.child]
  \/ x.type \in BinaryTypes /\ g[x.left] = h[x.left] /\ g[x.right] = h[x.right]

(* Functions that agree up to a depth agree on the parts of a tree one     *)
(* deeper.                                                                 *)
LEMMA BelowAgree ==
  ASSUME NEW n \in Nat, NEW g, NEW h, \A y \in ExprsTo[n] : h[y] = g[y],
         NEW x \in ExprsTo[n + 1]
  PROVE  AgreeOnParts(h, g, x)
<1>1. Shape(x, ExprsTo[n]) BY OverShape, ExprsToEquations
<1> QED BY <1>1 DEF Shape, AgreeOnParts, Leaves

(* A leaf has no parts to disagree on.                                     *)
LEMMA LeafAgrees == ASSUME NEW g, NEW h, NEW x \in ExprsTo[0] PROVE AgreeOnParts(h, g, x)
<1>1. Shape(x, {}) BY LeafShape, ExprsToEquations
<1> QED BY <1>1 DEF Shape, AgreeOnParts, Leaves

(* The parts of a tree are trees.                                          *)
LEMMA PartsOf ==
  \A x \in Exprs :
    \/ x.type \in Leaves
    \/ x.type = "NOT" /\ x.child \in Exprs
    \/ x.type \in BinaryTypes /\ x.left \in Exprs /\ x.right \in Exprs
BY Children DEF Shape, Leaves

(* is_64bit                                                                *)
LEMMA Is64bitOf ==
  \A x \in Exprs :
    Is64bit(x) = CASE x.type \in Binaries -> Is64bit(x.left) \/ Is64bit(x.right)
                   [] x.type = "NUMBER" -> x.number > WORD_MAX
                   [] x.type = "VAR" -> x.size = 8
                   [] OTHER -> FALSE
<1> DEFINE B(g, x) == CASE x.type \in Binaries -> g[x.left] \/ g[x.right]
                        [] x.type = "NUMBER" -> x.number > WORD_MAX
                        [] x.type = "VAR" -> x.size = 8
                        [] OTHER -> FALSE
           F == CHOOSE f : f = [x \in Exprs |-> B(f, x)]
<1>1. ASSUME NEW g, NEW h, NEW x, AgreeOnParts(g, h, x) PROVE B(g, x) = B(h, x)
  <2>1. CASE x.type \in Leaves BY <2>1, BinariesAre DEF Leaves, BinaryTypes
  <2>2. CASE x.type = "NOT" /\ g[x.child] = h[x.child] BY <2>2, BinariesAre DEF Leaves, BinaryTypes
  <2>3. CASE x.type \in BinaryTypes /\ g[x.left] = h[x.left] /\ g[x.right] = h[x.right]
    BY <2>3, BinariesAre DEF Leaves, BinaryTypes
  <2> HIDE DEF B
  <2> QED BY <1>1, <2>1, <2>2, <2>3 DEF AgreeOnParts
<1>2. ASSUME NEW x \in Exprs PROVE Is64bit(x) = F[x] BY DEF Is64bit
<1> HIDE DEF B
<1> DEFINE E == {n \in Nat : \E g : g = [x \in ExprsTo[n] |-> B(g, x)]}
<1>3. 0 \in E
  <2> DEFINE h == [x \in ExprsTo[0] |-> B(<<>>, x)]
  <2>1. h = [x \in ExprsTo[0] |-> B(h, x)]
    <3> HIDE DEF h
    <3>1. ASSUME NEW x \in ExprsTo[0] PROVE B(<<>>, x) = B(h, x) BY <1>1, LeafAgrees
    <3> QED BY <3>1 DEF h
  <2> HIDE DEF h
  <2> QED BY <2>1
<1>4. ASSUME NEW n \in Nat, n \in E PROVE n + 1 \in E
  <2>1. PICK g : g = [x \in ExprsTo[n] |-> B(g, x)] BY <1>4
  <2> DEFINE h == [x \in ExprsTo[n + 1] |-> B(g, x)]
  <2>2. ASSUME NEW y \in ExprsTo[n] PROVE h[y] = g[y]
    <3>1. y \in ExprsTo[n + 1] BY ExprsGrow
    <3> QED BY <2>1, <3>1
  <2>3. ASSUME NEW x \in ExprsTo[n + 1] PROVE B(g, x) = B(h, x)
    <3> HIDE DEF h
    <3>1. AgreeOnParts(h, g, x) BY <2>2, BelowAgree
    <3> QED BY <3>1, <1>1
  <2>4. h = [x \in ExprsTo[n + 1] |-> B(h, x)]
    <3> HIDE DEF h
    <3> QED BY <2>3 DEF h
  <2> HIDE DEF h
  <2> QED BY <2>4
<1> HIDE DEF E
<1>5. MAX_EXPRESSION_DEPTH \in E
  <2>1. Nat \subseteq E BY <1>3, <1>4, CountUp
  <2> QED BY <2>1, ExpressionConstants
<1>6. F = [x \in Exprs |-> B(F, x)] BY <1>5 DEF E, Exprs
<1>7. ASSUME NEW x \in Exprs PROVE F[x] = B(F, x)
  <2> HIDE DEF F
  <2> QED BY <1>6
<1> HIDE DEF F
<1> TAKE x \in Exprs
<1>8. F[x] = B(F, x) BY <1>7
<1>9. CASE x.type \in Leaves BY <1>2, <1>8, <1>9, BinariesAre DEF B, Leaves, BinaryTypes
<1>10. CASE x.type = "NOT" /\ x.child \in Exprs
  BY <1>2, <1>8, <1>10, BinariesAre DEF B, Leaves, BinaryTypes
<1>11. CASE x.type \in BinaryTypes /\ x.left \in Exprs /\ x.right \in Exprs
  BY <1>2, <1>8, <1>11, BinariesAre DEF B, Leaves, BinaryTypes
<1> QED BY <1>9, <1>10, <1>11, PartsOf

(* The identifiers in an expression.                                       *)
LEMMA IdentifiersOfEach ==
  \A x \in Exprs :
    IdentifiersOf(x) = CASE x.type \in Binaries -> IdentifiersOf(x.left) \cup IdentifiersOf(x.right)
                         [] x.type = "NOT" -> IdentifiersOf(x.child)
                         [] x.type = "IDENTIFIER" -> {x.id}
                         [] OTHER -> {}
<1> DEFINE B(g, x) == CASE x.type \in Binaries -> g[x.left] \cup g[x.right]
                        [] x.type = "NOT" -> g[x.child]
                        [] x.type = "IDENTIFIER" -> {x.id}
                        [] OTHER -> {}
           F == CHOOSE f : f = [x \in Exprs |-> B(f, x)]
<1>1. ASSUME NEW g, NEW h, NEW x, AgreeOnParts(g, h, x) PROVE B(g, x) = B(h, x)
  <2>1. CASE x.type \in Leaves BY <2>1, BinariesAre DEF Leaves, BinaryTypes
  <2>2. CASE x.type = "NOT" /\ g[x.child] = h[x.child] BY <2>2, BinariesAre DEF Leaves, BinaryTypes
  <2>3. CASE x.type \in BinaryTypes /\ g[x.left] = h[x.left] /\ g[x.right] = h[x.right]
    BY <2>3, BinariesAre DEF Leaves, BinaryTypes
  <2> HIDE DEF B
  <2> QED BY <1>1, <2>1, <2>2, <2>3 DEF AgreeOnParts
<1>2. ASSUME NEW x \in Exprs PROVE IdentifiersOf(x) = F[x] BY DEF IdentifiersOf
<1> HIDE DEF B
<1> DEFINE E == {n \in Nat : \E g : g = [x \in ExprsTo[n] |-> B(g, x)]}
<1>3. 0 \in E
  <2> DEFINE h == [x \in ExprsTo[0] |-> B(<<>>, x)]
  <2>1. h = [x \in ExprsTo[0] |-> B(h, x)]
    <3> HIDE DEF h
    <3>1. ASSUME NEW x \in ExprsTo[0] PROVE B(<<>>, x) = B(h, x) BY <1>1, LeafAgrees
    <3> QED BY <3>1 DEF h
  <2> HIDE DEF h
  <2> QED BY <2>1
<1>4. ASSUME NEW n \in Nat, n \in E PROVE n + 1 \in E
  <2>1. PICK g : g = [x \in ExprsTo[n] |-> B(g, x)] BY <1>4
  <2> DEFINE h == [x \in ExprsTo[n + 1] |-> B(g, x)]
  <2>2. ASSUME NEW y \in ExprsTo[n] PROVE h[y] = g[y]
    <3>1. y \in ExprsTo[n + 1] BY ExprsGrow
    <3> QED BY <2>1, <3>1
  <2>3. ASSUME NEW x \in ExprsTo[n + 1] PROVE B(g, x) = B(h, x)
    <3> HIDE DEF h
    <3>1. AgreeOnParts(h, g, x) BY <2>2, BelowAgree
    <3> QED BY <3>1, <1>1
  <2>4. h = [x \in ExprsTo[n + 1] |-> B(h, x)]
    <3> HIDE DEF h
    <3> QED BY <2>3 DEF h
  <2> HIDE DEF h
  <2> QED BY <2>4
<1> HIDE DEF E
<1>5. MAX_EXPRESSION_DEPTH \in E
  <2>1. Nat \subseteq E BY <1>3, <1>4, CountUp
  <2> QED BY <2>1, ExpressionConstants
<1>6. F = [x \in Exprs |-> B(F, x)] BY <1>5 DEF E, Exprs
<1>7. ASSUME NEW x \in Exprs PROVE F[x] = B(F, x)
  <2> HIDE DEF F
  <2> QED BY <1>6
<1> HIDE DEF F
<1> TAKE x \in Exprs
<1>8. F[x] = B(F, x) BY <1>7
<1>9. CASE x.type \in Leaves BY <1>2, <1>8, <1>9, BinariesAre DEF B, Leaves, BinaryTypes
<1>10. CASE x.type = "NOT" /\ x.child \in Exprs
  BY <1>2, <1>8, <1>10, BinariesAre DEF B, Leaves, BinaryTypes
<1>11. CASE x.type \in BinaryTypes /\ x.left \in Exprs /\ x.right \in Exprs
  BY <1>2, <1>8, <1>11, BinariesAre DEF B, Leaves, BinaryTypes
<1> QED BY <1>9, <1>10, <1>11, PartsOf

(* expr_resolve_identifiers                                                *)
LEMMA ResolvedEach ==
  ASSUME NEW args PROVE
  \A x \in Exprs :
    ResolveIdentifiers(x, args) = CASE x.type \in Binaries -> Binary(x.type, ResolveIdentifiers(x.left, args), ResolveIdentifiers(x.right, args))
                                    [] x.type = "NOT" -> Unary(ResolveIdentifiers(x.child, args))
                                    [] x.type = "IDENTIFIER" -> ArgumentNamed(x.id, args)
                                    [] OTHER -> x
<1> DEFINE B(g, x) == CASE x.type \in Binaries -> Binary(x.type, g[x.left], g[x.right])
                        [] x.type = "NOT" -> Unary(g[x.child])
                        [] x.type = "IDENTIFIER" -> ArgumentNamed(x.id, args)
                        [] OTHER -> x
           F == CHOOSE f : f = [x \in Exprs |-> B(f, x)]
<1>1. ASSUME NEW g, NEW h, NEW x, AgreeOnParts(g, h, x) PROVE B(g, x) = B(h, x)
  <2>1. CASE x.type \in Leaves BY <2>1, BinariesAre DEF Leaves, BinaryTypes
  <2>2. CASE x.type = "NOT" /\ g[x.child] = h[x.child] BY <2>2, BinariesAre DEF Leaves, BinaryTypes
  <2>3. CASE x.type \in BinaryTypes /\ g[x.left] = h[x.left] /\ g[x.right] = h[x.right]
    BY <2>3, BinariesAre DEF Leaves, BinaryTypes
  <2> HIDE DEF B
  <2> QED BY <1>1, <2>1, <2>2, <2>3 DEF AgreeOnParts
<1>2. ASSUME NEW x \in Exprs PROVE ResolveIdentifiers(x, args) = F[x] BY DEF ResolveIdentifiers
<1> HIDE DEF B
<1> DEFINE E == {n \in Nat : \E g : g = [x \in ExprsTo[n] |-> B(g, x)]}
<1>3. 0 \in E
  <2> DEFINE h == [x \in ExprsTo[0] |-> B(<<>>, x)]
  <2>1. h = [x \in ExprsTo[0] |-> B(h, x)]
    <3> HIDE DEF h
    <3>1. ASSUME NEW x \in ExprsTo[0] PROVE B(<<>>, x) = B(h, x) BY <1>1, LeafAgrees
    <3> QED BY <3>1 DEF h
  <2> HIDE DEF h
  <2> QED BY <2>1
<1>4. ASSUME NEW n \in Nat, n \in E PROVE n + 1 \in E
  <2>1. PICK g : g = [x \in ExprsTo[n] |-> B(g, x)] BY <1>4
  <2> DEFINE h == [x \in ExprsTo[n + 1] |-> B(g, x)]
  <2>2. ASSUME NEW y \in ExprsTo[n] PROVE h[y] = g[y]
    <3>1. y \in ExprsTo[n + 1] BY ExprsGrow
    <3> QED BY <2>1, <3>1
  <2>3. ASSUME NEW x \in ExprsTo[n + 1] PROVE B(g, x) = B(h, x)
    <3> HIDE DEF h
    <3>1. AgreeOnParts(h, g, x) BY <2>2, BelowAgree
    <3> QED BY <3>1, <1>1
  <2>4. h = [x \in ExprsTo[n + 1] |-> B(h, x)]
    <3> HIDE DEF h
    <3> QED BY <2>3 DEF h
  <2> HIDE DEF h
  <2> QED BY <2>4
<1> HIDE DEF E
<1>5. MAX_EXPRESSION_DEPTH \in E
  <2>1. Nat \subseteq E BY <1>3, <1>4, CountUp
  <2> QED BY <2>1, ExpressionConstants
<1>6. F = [x \in Exprs |-> B(F, x)] BY <1>5 DEF E, Exprs
<1>7. ASSUME NEW x \in Exprs PROVE F[x] = B(F, x)
  <2> HIDE DEF F
  <2> QED BY <1>6
<1> HIDE DEF F
<1> TAKE x \in Exprs
<1>8. F[x] = B(F, x) BY <1>7
<1>9. CASE x.type \in Leaves BY <1>2, <1>8, <1>9, BinariesAre DEF B, Leaves, BinaryTypes
<1>10. CASE x.type = "NOT" /\ x.child \in Exprs
  BY <1>2, <1>8, <1>10, BinariesAre DEF B, Leaves, BinaryTypes
<1>11. CASE x.type \in BinaryTypes /\ x.left \in Exprs /\ x.right \in Exprs
  BY <1>2, <1>8, <1>11, BinariesAre DEF B, Leaves, BinaryTypes
<1> QED BY <1>9, <1>10, <1>11, PartsOf

(* expr_simplify                                                           *)
LEMMA SimplifyEach ==
  \A x \in Exprs :
    Simplify(x) = CASE x.type \in Leaves -> x
                    [] x.type = "NOT" -> IF Simplify(x.child) \in {True, False} THEN Truth(Simplify(x.child) = False) ELSE Unary(Simplify(x.child))
                    [] OTHER -> SimplifyBinary(x.type, Simplify(x.left), Simplify(x.right))
<1> DEFINE B(g, x) == CASE x.type \in Leaves -> x
                        [] x.type = "NOT" -> IF g[x.child] \in {True, False} THEN Truth(g[x.child] = False) ELSE Unary(g[x.child])
                        [] OTHER -> SimplifyBinary(x.type, g[x.left], g[x.right])
           F == CHOOSE f : f = [x \in Exprs |-> B(f, x)]
<1>1. ASSUME NEW g, NEW h, NEW x, AgreeOnParts(g, h, x) PROVE B(g, x) = B(h, x)
  <2>1. CASE x.type \in Leaves BY <2>1, BinariesAre DEF Leaves, BinaryTypes
  <2>2. CASE x.type = "NOT" /\ g[x.child] = h[x.child] BY <2>2, BinariesAre DEF Leaves, BinaryTypes
  <2>3. CASE x.type \in BinaryTypes /\ g[x.left] = h[x.left] /\ g[x.right] = h[x.right]
    BY <2>3, BinariesAre DEF Leaves, BinaryTypes
  <2> HIDE DEF B
  <2> QED BY <1>1, <2>1, <2>2, <2>3 DEF AgreeOnParts
<1>2. ASSUME NEW x \in Exprs PROVE Simplify(x) = F[x] BY DEF Simplify
<1> HIDE DEF B
<1> DEFINE E == {n \in Nat : \E g : g = [x \in ExprsTo[n] |-> B(g, x)]}
<1>3. 0 \in E
  <2> DEFINE h == [x \in ExprsTo[0] |-> B(<<>>, x)]
  <2>1. h = [x \in ExprsTo[0] |-> B(h, x)]
    <3> HIDE DEF h
    <3>1. ASSUME NEW x \in ExprsTo[0] PROVE B(<<>>, x) = B(h, x) BY <1>1, LeafAgrees
    <3> QED BY <3>1 DEF h
  <2> HIDE DEF h
  <2> QED BY <2>1
<1>4. ASSUME NEW n \in Nat, n \in E PROVE n + 1 \in E
  <2>1. PICK g : g = [x \in ExprsTo[n] |-> B(g, x)] BY <1>4
  <2> DEFINE h == [x \in ExprsTo[n + 1] |-> B(g, x)]
  <2>2. ASSUME NEW y \in ExprsTo[n] PROVE h[y] = g[y]
    <3>1. y \in ExprsTo[n + 1] BY ExprsGrow
    <3> QED BY <2>1, <3>1
  <2>3. ASSUME NEW x \in ExprsTo[n + 1] PROVE B(g, x) = B(h, x)
    <3> HIDE DEF h
    <3>1. AgreeOnParts(h, g, x) BY <2>2, BelowAgree
    <3> QED BY <3>1, <1>1
  <2>4. h = [x \in ExprsTo[n + 1] |-> B(h, x)]
    <3> HIDE DEF h
    <3> QED BY <2>3 DEF h
  <2> HIDE DEF h
  <2> QED BY <2>4
<1> HIDE DEF E
<1>5. MAX_EXPRESSION_DEPTH \in E
  <2>1. Nat \subseteq E BY <1>3, <1>4, CountUp
  <2> QED BY <2>1, ExpressionConstants
<1>6. F = [x \in Exprs |-> B(F, x)] BY <1>5 DEF E, Exprs
<1>7. ASSUME NEW x \in Exprs PROVE F[x] = B(F, x)
  <2> HIDE DEF F
  <2> QED BY <1>6
<1> HIDE DEF F
<1> TAKE x \in Exprs
<1>8. F[x] = B(F, x) BY <1>7
<1>9. CASE x.type \in Leaves BY <1>2, <1>8, <1>9, BinariesAre DEF B, Leaves, BinaryTypes
<1>10. CASE x.type = "NOT" /\ x.child \in Exprs
  BY <1>2, <1>8, <1>10, BinariesAre DEF B, Leaves, BinaryTypes
<1>11. CASE x.type \in BinaryTypes /\ x.left \in Exprs /\ x.right \in Exprs
  BY <1>2, <1>8, <1>11, BinariesAre DEF B, Leaves, BinaryTypes
<1> QED BY <1>9, <1>10, <1>11, PartsOf

(* The value of a term.                                                    *)
LEMMA ValueOfEach ==
  ASSUME NEW regs PROVE
  \A x \in Exprs :
    Value(x, regs) = CASE x.type \in {"BIT_AND", "BIT_OR"} -> Bits(x.type, Value(x.left, regs), Value(x.right, regs))
                       [] x.type = "NUMBER" -> x.number
                       [] x.type = "VAR" -> regs[x.var]
                       [] OTHER -> 0
<1> DEFINE B(g, x) == CASE x.type \in {"BIT_AND", "BIT_OR"} -> Bits(x.type, g[x.left], g[x.right])
                        [] x.type = "NUMBER" -> x.number
                        [] x.type = "VAR" -> regs[x.var]
                        [] OTHER -> 0
           F == CHOOSE f : f = [x \in Exprs |-> B(f, x)]
<1>1. ASSUME NEW g, NEW h, NEW x, AgreeOnParts(g, h, x) PROVE B(g, x) = B(h, x)
  <2>1. CASE x.type \in Leaves BY <2>1, BinariesAre DEF Leaves, BinaryTypes
  <2>2. CASE x.type = "NOT" /\ g[x.child] = h[x.child] BY <2>2, BinariesAre DEF Leaves, BinaryTypes
  <2>3. CASE x.type \in BinaryTypes /\ g[x.left] = h[x.left] /\ g[x.right] = h[x.right]
    BY <2>3, BinariesAre DEF Leaves, BinaryTypes
  <2> HIDE DEF B
  <2> QED BY <1>1, <2>1, <2>2, <2>3 DEF AgreeOnParts
<1>2. ASSUME NEW x \in Exprs PROVE Value(x, regs) = F[x] BY DEF Value
<1> HIDE DEF B
<1> DEFINE E == {n \in Nat : \E g : g = [x \in ExprsTo[n] |-> B(g, x)]}
<1>3. 0 \in E
  <2> DEFINE h == [x \in ExprsTo[0] |-> B(<<>>, x)]
  <2>1. h = [x \in ExprsTo[0] |-> B(h, x)]
    <3> HIDE DEF h
    <3>1. ASSUME NEW x \in ExprsTo[0] PROVE B(<<>>, x) = B(h, x) BY <1>1, LeafAgrees
    <3> QED BY <3>1 DEF h
  <2> HIDE DEF h
  <2> QED BY <2>1
<1>4. ASSUME NEW n \in Nat, n \in E PROVE n + 1 \in E
  <2>1. PICK g : g = [x \in ExprsTo[n] |-> B(g, x)] BY <1>4
  <2> DEFINE h == [x \in ExprsTo[n + 1] |-> B(g, x)]
  <2>2. ASSUME NEW y \in ExprsTo[n] PROVE h[y] = g[y]
    <3>1. y \in ExprsTo[n + 1] BY ExprsGrow
    <3> QED BY <2>1, <3>1
  <2>3. ASSUME NEW x \in ExprsTo[n + 1] PROVE B(g, x) = B(h, x)
    <3> HIDE DEF h
    <3>1. AgreeOnParts(h, g, x) BY <2>2, BelowAgree
    <3> QED BY <3>1, <1>1
  <2>4. h = [x \in ExprsTo[n + 1] |-> B(h, x)]
    <3> HIDE DEF h
    <3> QED BY <2>3 DEF h
  <2> HIDE DEF h
  <2> QED BY <2>4
<1> HIDE DEF E
<1>5. MAX_EXPRESSION_DEPTH \in E
  <2>1. Nat \subseteq E BY <1>3, <1>4, CountUp
  <2> QED BY <2>1, ExpressionConstants
<1>6. F = [x \in Exprs |-> B(F, x)] BY <1>5 DEF E, Exprs
<1>7. ASSUME NEW x \in Exprs PROVE F[x] = B(F, x)
  <2> HIDE DEF F
  <2> QED BY <1>6
<1> HIDE DEF F
<1> TAKE x \in Exprs
<1>8. F[x] = B(F, x) BY <1>7
<1>9. CASE x.type \in Leaves BY <1>2, <1>8, <1>9, BinariesAre DEF B, Leaves, BinaryTypes
<1>10. CASE x.type = "NOT" /\ x.child \in Exprs
  BY <1>2, <1>8, <1>10, BinariesAre DEF B, Leaves, BinaryTypes
<1>11. CASE x.type \in BinaryTypes /\ x.left \in Exprs /\ x.right \in Exprs
  BY <1>2, <1>8, <1>11, BinariesAre DEF B, Leaves, BinaryTypes
<1> QED BY <1>9, <1>10, <1>11, PartsOf

(* The truth of a condition.                                               *)
LEMMA HoldsEach ==
  ASSUME NEW regs PROVE
  \A x \in Exprs :
    Holds(x, regs) = CASE x.type = "AND" -> Holds(x.left, regs) /\ Holds(x.right, regs)
                       [] x.type = "OR" -> Holds(x.left, regs) \/ Holds(x.right, regs)
                       [] x.type = "NOT" -> ~Holds(x.child, regs)
                       [] x.type \in {"TRUE", "FALSE"} -> x = True
                       [] OTHER -> Compares(x.type, Value(x.left, regs) % Width(x), Value(x.right, regs) % Width(x))
<1> DEFINE B(g, x) == CASE x.type = "AND" -> g[x.left] /\ g[x.right]
                        [] x.type = "OR" -> g[x.left] \/ g[x.right]
                        [] x.type = "NOT" -> ~g[x.child]
                        [] x.type \in {"TRUE", "FALSE"} -> x = True
                        [] OTHER -> Compares(x.type, Value(x.left, regs) % Width(x), Value(x.right, regs) % Width(x))
           F == CHOOSE f : f = [x \in Exprs |-> B(f, x)]
<1>1. ASSUME NEW g, NEW h, NEW x, AgreeOnParts(g, h, x) PROVE B(g, x) = B(h, x)
  <2>1. CASE x.type \in Leaves BY <2>1, BinariesAre DEF Leaves, BinaryTypes
  <2>2. CASE x.type = "NOT" /\ g[x.child] = h[x.child] BY <2>2, BinariesAre DEF Leaves, BinaryTypes
  <2>3. CASE x.type \in BinaryTypes /\ g[x.left] = h[x.left] /\ g[x.right] = h[x.right]
    BY <2>3, BinariesAre DEF Leaves, BinaryTypes
  <2> HIDE DEF B
  <2> QED BY <1>1, <2>1, <2>2, <2>3 DEF AgreeOnParts
<1>2. ASSUME NEW x \in Exprs PROVE Holds(x, regs) = F[x] BY DEF Holds
<1> HIDE DEF B
<1> DEFINE E == {n \in Nat : \E g : g = [x \in ExprsTo[n] |-> B(g, x)]}
<1>3. 0 \in E
  <2> DEFINE h == [x \in ExprsTo[0] |-> B(<<>>, x)]
  <2>1. h = [x \in ExprsTo[0] |-> B(h, x)]
    <3> HIDE DEF h
    <3>1. ASSUME NEW x \in ExprsTo[0] PROVE B(<<>>, x) = B(h, x) BY <1>1, LeafAgrees
    <3> QED BY <3>1 DEF h
  <2> HIDE DEF h
  <2> QED BY <2>1
<1>4. ASSUME NEW n \in Nat, n \in E PROVE n + 1 \in E
  <2>1. PICK g : g = [x \in ExprsTo[n] |-> B(g, x)] BY <1>4
  <2> DEFINE h == [x \in ExprsTo[n + 1] |-> B(g, x)]
  <2>2. ASSUME NEW y \in ExprsTo[n] PROVE h[y] = g[y]
    <3>1. y \in ExprsTo[n + 1] BY ExprsGrow
    <3> QED BY <2>1, <3>1
  <2>3. ASSUME NEW x \in ExprsTo[n + 1] PROVE B(g, x) = B(h, x)
    <3> HIDE DEF h
    <3>1. AgreeOnParts(h, g, x) BY <2>2, BelowAgree
    <3> QED BY <3>1, <1>1
  <2>4. h = [x \in ExprsTo[n + 1] |-> B(h, x)]
    <3> HIDE DEF h
    <3> QED BY <2>3 DEF h
  <2> HIDE DEF h
  <2> QED BY <2>4
<1> HIDE DEF E
<1>5. MAX_EXPRESSION_DEPTH \in E
  <2>1. Nat \subseteq E BY <1>3, <1>4, CountUp
  <2> QED BY <2>1, ExpressionConstants
<1>6. F = [x \in Exprs |-> B(F, x)] BY <1>5 DEF E, Exprs
<1>7. ASSUME NEW x \in Exprs PROVE F[x] = B(F, x)
  <2> HIDE DEF F
  <2> QED BY <1>6
<1> HIDE DEF F
<1> TAKE x \in Exprs
<1>8. F[x] = B(F, x) BY <1>7
<1>9. CASE x.type \in Leaves BY <1>2, <1>8, <1>9, BinariesAre DEF B, Leaves, BinaryTypes
<1>10. CASE x.type = "NOT" /\ x.child \in Exprs
  BY <1>2, <1>8, <1>10, BinariesAre DEF B, Leaves, BinaryTypes
<1>11. CASE x.type \in BinaryTypes /\ x.left \in Exprs /\ x.right \in Exprs
  BY <1>2, <1>8, <1>11, BinariesAre DEF B, Leaves, BinaryTypes
<1> QED BY <1>9, <1>10, <1>11, PartsOf

(* The short arguments in a term.                                          *)
LEMMA NarrowInEach ==
  \A x \in Exprs :
    NarrowIn(x) = CASE x.type \in Binaries -> NarrowIn(x.left) \cup NarrowIn(x.right)
                    [] x.type = "VAR" /\ x.size # 8 -> {x.var}
                    [] OTHER -> {}
<1> DEFINE B(g, x) == CASE x.type \in Binaries -> g[x.left] \cup g[x.right]
                        [] x.type = "VAR" /\ x.size # 8 -> {x.var}
                        [] OTHER -> {}
           F == CHOOSE f : f = [x \in Exprs |-> B(f, x)]
<1>1. ASSUME NEW g, NEW h, NEW x, AgreeOnParts(g, h, x) PROVE B(g, x) = B(h, x)
  <2>1. CASE x.type \in Leaves BY <2>1, BinariesAre DEF Leaves, BinaryTypes
  <2>2. CASE x.type = "NOT" /\ g[x.child] = h[x.child] BY <2>2, BinariesAre DEF Leaves, BinaryTypes
  <2>3. CASE x.type \in BinaryTypes /\ g[x.left] = h[x.left] /\ g[x.right] = h[x.right]
    BY <2>3, BinariesAre DEF Leaves, BinaryTypes
  <2> HIDE DEF B
  <2> QED BY <1>1, <2>1, <2>2, <2>3 DEF AgreeOnParts
<1>2. ASSUME NEW x \in Exprs PROVE NarrowIn(x) = F[x] BY DEF NarrowIn
<1> HIDE DEF B
<1> DEFINE E == {n \in Nat : \E g : g = [x \in ExprsTo[n] |-> B(g, x)]}
<1>3. 0 \in E
  <2> DEFINE h == [x \in ExprsTo[0] |-> B(<<>>, x)]
  <2>1. h = [x \in ExprsTo[0] |-> B(h, x)]
    <3> HIDE DEF h
    <3>1. ASSUME NEW x \in ExprsTo[0] PROVE B(<<>>, x) = B(h, x) BY <1>1, LeafAgrees
    <3> QED BY <3>1 DEF h
  <2> HIDE DEF h
  <2> QED BY <2>1
<1>4. ASSUME NEW n \in Nat, n \in E PROVE n + 1 \in E
  <2>1. PICK g : g = [x \in ExprsTo[n] |-> B(g, x)] BY <1>4
  <2> DEFINE h == [x \in ExprsTo[n + 1] |-> B(g, x)]
  <2>2. ASSUME NEW y \in ExprsTo[n] PROVE h[y] = g[y]
    <3>1. y \in ExprsTo[n + 1] BY ExprsGrow
    <3> QED BY <2>1, <3>1
  <2>3. ASSUME NEW x \in ExprsTo[n + 1] PROVE B(g, x) = B(h, x)
    <3> HIDE DEF h
    <3>1. AgreeOnParts(h, g, x) BY <2>2, BelowAgree
    <3> QED BY <3>1, <1>1
  <2>4. h = [x \in ExprsTo[n + 1] |-> B(h, x)]
    <3> HIDE DEF h
    <3> QED BY <2>3 DEF h
  <2> HIDE DEF h
  <2> QED BY <2>4
<1> HIDE DEF E
<1>5. MAX_EXPRESSION_DEPTH \in E
  <2>1. Nat \subseteq E BY <1>3, <1>4, CountUp
  <2> QED BY <2>1, ExpressionConstants
<1>6. F = [x \in Exprs |-> B(F, x)] BY <1>5 DEF E, Exprs
<1>7. ASSUME NEW x \in Exprs PROVE F[x] = B(F, x)
  <2> HIDE DEF F
  <2> QED BY <1>6
<1> HIDE DEF F
<1> TAKE x \in Exprs
<1>8. F[x] = B(F, x) BY <1>7
<1>9. CASE x.type \in Leaves BY <1>2, <1>8, <1>9, BinariesAre DEF B, Leaves, BinaryTypes
<1>10. CASE x.type = "NOT" /\ x.child \in Exprs
  BY <1>2, <1>8, <1>10, BinariesAre DEF B, Leaves, BinaryTypes
<1>11. CASE x.type \in BinaryTypes /\ x.left \in Exprs /\ x.right \in Exprs
  BY <1>2, <1>8, <1>11, BinariesAre DEF B, Leaves, BinaryTypes
<1> QED BY <1>9, <1>10, <1>11, PartsOf

(* The short arguments that a comparison of whole registers reads.         *)
LEMMA ReadWholeEach ==
  \A x \in Exprs :
    ReadWhole(x) = CASE x.type \in {"AND", "OR"} -> ReadWhole(x.left) \cup ReadWhole(x.right)
                     [] x.type = "NOT" -> ReadWhole(x.child)
                     [] x.type \in Binaries \ {"AND", "OR"} /\ Is64bit(x) -> NarrowIn(x)
                     [] OTHER -> {}
<1> DEFINE B(g, x) == CASE x.type \in {"AND", "OR"} -> g[x.left] \cup g[x.right]
                        [] x.type = "NOT" -> g[x.child]
                        [] x.type \in Binaries \ {"AND", "OR"} /\ Is64bit(x) -> NarrowIn(x)
                        [] OTHER -> {}
           F == CHOOSE f : f = [x \in Exprs |-> B(f, x)]
<1>1. ASSUME NEW g, NEW h, NEW x, AgreeOnParts(g, h, x) PROVE B(g, x) = B(h, x)
  <2>1. CASE x.type \in Leaves BY <2>1, BinariesAre DEF Leaves, BinaryTypes
  <2>2. CASE x.type = "NOT" /\ g[x.child] = h[x.child] BY <2>2, BinariesAre DEF Leaves, BinaryTypes
  <2>3. CASE x.type \in BinaryTypes /\ g[x.left] = h[x.left] /\ g[x.right] = h[x.right]
    BY <2>3, BinariesAre DEF Leaves, BinaryTypes
  <2> HIDE DEF B
  <2> QED BY <1>1, <2>1, <2>2, <2>3 DEF AgreeOnParts
<1>2. ASSUME NEW x \in Exprs PROVE ReadWhole(x) = F[x] BY DEF ReadWhole
<1> HIDE DEF B
<1> DEFINE E == {n \in Nat : \E g : g = [x \in ExprsTo[n] |-> B(g, x)]}
<1>3. 0 \in E
  <2> DEFINE h == [x \in ExprsTo[0] |-> B(<<>>, x)]
  <2>1. h = [x \in ExprsTo[0] |-> B(h, x)]
    <3> HIDE DEF h
    <3>1. ASSUME NEW x \in ExprsTo[0] PROVE B(<<>>, x) = B(h, x) BY <1>1, LeafAgrees
    <3> QED BY <3>1 DEF h
  <2> HIDE DEF h
  <2> QED BY <2>1
<1>4. ASSUME NEW n \in Nat, n \in E PROVE n + 1 \in E
  <2>1. PICK g : g = [x \in ExprsTo[n] |-> B(g, x)] BY <1>4
  <2> DEFINE h == [x \in ExprsTo[n + 1] |-> B(g, x)]
  <2>2. ASSUME NEW y \in ExprsTo[n] PROVE h[y] = g[y]
    <3>1. y \in ExprsTo[n + 1] BY ExprsGrow
    <3> QED BY <2>1, <3>1
  <2>3. ASSUME NEW x \in ExprsTo[n + 1] PROVE B(g, x) = B(h, x)
    <3> HIDE DEF h
    <3>1. AgreeOnParts(h, g, x) BY <2>2, BelowAgree
    <3> QED BY <3>1, <1>1
  <2>4. h = [x \in ExprsTo[n + 1] |-> B(h, x)]
    <3> HIDE DEF h
    <3> QED BY <2>3 DEF h
  <2> HIDE DEF h
  <2> QED BY <2>4
<1> HIDE DEF E
<1>5. MAX_EXPRESSION_DEPTH \in E
  <2>1. Nat \subseteq E BY <1>3, <1>4, CountUp
  <2> QED BY <2>1, ExpressionConstants
<1>6. F = [x \in Exprs |-> B(F, x)] BY <1>5 DEF E, Exprs
<1>7. ASSUME NEW x \in Exprs PROVE F[x] = B(F, x)
  <2> HIDE DEF F
  <2> QED BY <1>6
<1> HIDE DEF F
<1> TAKE x \in Exprs
<1>8. F[x] = B(F, x) BY <1>7
<1>9. CASE x.type \in Leaves BY <1>2, <1>8, <1>9, BinariesAre DEF B, Leaves, BinaryTypes
<1>10. CASE x.type = "NOT" /\ x.child \in Exprs
  BY <1>2, <1>8, <1>10, BinariesAre DEF B, Leaves, BinaryTypes
<1>11. CASE x.type \in BinaryTypes /\ x.left \in Exprs /\ x.right \in Exprs
  BY <1>2, <1>8, <1>11, BinariesAre DEF B, Leaves, BinaryTypes
<1> QED BY <1>9, <1>10, <1>11, PartsOf

-----------------------------------------------------------------------------
(* Powers of two and bits.                                                 *)

(* A function can be defined by recursion over Nat.                        *)
Maps(F, S) == F \in [S -> S]
Iterates(f, s0, F, S) ==
  f \in [Nat -> S] /\ f[0] = s0 /\ \A n \in Nat : f[n + 1] = F[f[n]]

(* A value and a function determine a sequence: the iterates of the        *)
(* function.                                                               *)
LEMMA NatRecursion ==
  ASSUME NEW S, NEW s0 \in S, NEW F, Maps(F, S)
  PROVE  \E f : Iterates(f, s0, F, S)
<1> USE DEF Maps
<1> DEFINE P(n, g) == /\ g \in [0..n -> S] /\ g[0] = s0
                      /\ \A k \in 0..(n - 1) : g[k + 1] = F[g[k]]
           E == {n \in Nat : \E g : P(n, g)}
<1>1. Nat \subseteq E
  <2>1. 0 \in E
    <3>1. P(0, [k \in {0} |-> s0]) OBVIOUS
    <3> QED BY <3>1
  <2>2. ASSUME NEW n \in Nat, n \in E PROVE n + 1 \in E
    <3>1. PICK g : P(n, g) BY <2>2
    <3> DEFINE h == [k \in 0..(n + 1) |-> IF k = n + 1 THEN F[g[n]] ELSE g[k]]
    <3>2. P(n + 1, h)
      <4>1. g \in [0..n -> S] /\ n \in 0..n BY <3>1
      <4>2. F[g[n]] \in S BY <4>1
      <4>3. h \in [0..(n + 1) -> S] BY <4>1, <4>2
      <4>4. h[0] = s0 BY <3>1
      <4>5. ASSUME NEW k \in 0..n PROVE h[k + 1] = F[h[k]]
        <5>1. CASE k = n BY <5>1
        <5>2. CASE k < n
          <6>1. k \in 0..(n - 1) /\ k + 1 \in 0..n BY <5>2
          <6>2. g[k + 1] = F[g[k]] BY <3>1, <6>1
          <6>3. h[k] = g[k] /\ h[k + 1] = g[k + 1] BY <5>2, <6>1
          <6> QED BY <6>2, <6>3
        <5> QED BY <5>1, <5>2
      <4> HIDE DEF h
      <4>6. \A k \in 0..((n + 1) - 1) : h[k + 1] = F[h[k]] BY <4>5, (n + 1) - 1 = n
      <4> QED BY <4>3, <4>4, <4>6
    <3> HIDE DEF P
    <3> QED BY <3>2
  <2> HIDE DEF E
  <2> QED BY <2>1, <2>2, CountUp
<1>2. ASSUME NEW n \in Nat, NEW m \in Nat, NEW g, NEW h, P(n, g), P(m, h)
      PROVE  \A k \in Nat : k <= n /\ k <= m => g[k] = h[k]
  <2> DEFINE A == {k \in Nat : k <= n /\ k <= m => g[k] = h[k]}
  <2>1. 0 \in A BY <1>2
  <2>2. ASSUME NEW k \in Nat, k \in A PROVE k + 1 \in A
    <3>1. CASE k + 1 <= n /\ k + 1 <= m
      <4>1. g[k] = h[k] BY <2>2, <3>1
      <4>2. k \in 0..(n - 1) /\ k \in 0..(m - 1) BY <3>1
      <4>3. g[k + 1] = F[g[k]] /\ h[k + 1] = F[h[k]] BY <4>2, <1>2
      <4> QED BY <4>1, <4>3
    <3> QED BY <3>1
  <2>3. Nat \subseteq A
    <3> HIDE DEF A
    <3> QED BY <2>1, <2>2, CountUp
  <2> QED BY <2>3
<1> DEFINE G(n) == CHOOSE g : P(n, g)
           f == [n \in Nat |-> G(n)[n]]
<1>3. \A n \in Nat : P(n, G(n)) BY <1>1
<1> HIDE DEF P, G, E
<1>4. \A n \in Nat : G(n)[n] \in S BY <1>3 DEF P
<1>5. f \in [Nat -> S] BY <1>4
<1>6. f[0] = s0 BY <1>3 DEF P
<1>7. ASSUME NEW n \in Nat PROVE f[n + 1] = F[f[n]]
  <2>1. G(n + 1)[n] = G(n)[n] BY <1>2, <1>3
  <2>2. G(n + 1)[n + 1] = F[G(n + 1)[n]]
    BY <1>3, n \in 0..((n + 1) - 1), n + 1 \in Nat DEF P
  <2> QED BY <2>1, <2>2
<1> HIDE DEF f
<1>8. Iterates(f, s0, F, S) BY <1>5, <1>6, <1>7 DEF Iterates
<1> QED BY <1>8

(* What the recursion of Pow2 defines.                                     *)
LEMMA Pow2Equations ==
  /\ Pow2[0] = 1
  /\ \A n \in Nat : Pow2[n + 1] = 2 * Pow2[n]
  /\ \A n \in Nat : Pow2[n] \in Nat \ {0}
<1> DEFINE F == [x \in Nat |-> 2 * x]
           Doubling(f) == [n \in Nat |-> IF n = 0 THEN 1 ELSE 2 * f[n - 1]]
<1>1. PICK f \in [Nat -> Nat] : f[0] = 1 /\ \A n \in Nat : f[n + 1] = F[f[n]]
  <2>1. 1 \in Nat /\ F \in [Nat -> Nat] OBVIOUS
  <2> HIDE DEF F
  <2>2. PICK f : Iterates(f, 1, F, Nat) BY <2>1, NatRecursion DEF Maps
  <2> QED BY <2>2 DEF Iterates
<1>2. f = Doubling(f)
  <2>1. ASSUME NEW n \in Nat PROVE f[n] = IF n = 0 THEN 1 ELSE 2 * f[n - 1]
    <3>1. CASE n = 0 BY <1>1, <3>1
    <3>2. CASE n # 0
      <4>1. n - 1 \in Nat /\ (n - 1) + 1 = n /\ f[n - 1] \in Nat BY <3>2
      <4>2. f[(n - 1) + 1] = F[f[n - 1]] BY <1>1, <4>1
      <4> QED BY <3>2, <4>1, <4>2
    <3> QED BY <3>1, <3>2
  <2> QED BY <2>1
<1>3. Pow2 = Doubling(Pow2) BY <1>2 DEF Pow2
<1> HIDE DEF F
<1>4. Pow2[0] = 1 BY <1>3
<1>5. ASSUME NEW n \in Nat PROVE Pow2[n + 1] = 2 * Pow2[n]
  <2>1. n + 1 \in Nat /\ n + 1 # 0 /\ (n + 1) - 1 = n OBVIOUS
  <2> QED BY <1>3, <2>1
<1>6. \A n \in Nat : Pow2[n] \in Nat \ {0}
  <2> DEFINE A == {n \in Nat : Pow2[n] \in Nat \ {0}}
  <2>1. 0 \in A BY <1>4
  <2>2. \A n \in Nat : n \in A => n + 1 \in A BY <1>5
  <2> HIDE DEF A
  <2>3. Nat \subseteq A BY <2>1, <2>2, CountUp
  <2> QED BY <2>3 DEF A
<1> QED BY <1>4, <1>5, <1>6

(* Pow2 is monotonic.                                                      *)
LEMMA Pow2Grows == \A n, d \in Nat : d <= n => Pow2[d] <= Pow2[n]
<1> DEFINE A == {n \in Nat : \A d \in Nat : d <= n => Pow2[d] <= Pow2[n]}
<1>1. 0 \in A BY Pow2Equations
<1>2. ASSUME NEW n \in Nat, n \in A PROVE n + 1 \in A
  <2> SUFFICES ASSUME NEW d \in Nat, d <= n + 1 PROVE Pow2[d] <= Pow2[n + 1] OBVIOUS
  <2>1. Pow2[n + 1] = 2 * Pow2[n] /\ Pow2[n] \in Nat /\ Pow2[d] \in Nat BY Pow2Equations
  <2>2. CASE d <= n
    <3>1. Pow2[d] <= Pow2[n] BY <1>2, <2>2
    <3> QED BY <2>1, <3>1
  <2>3. CASE d = n + 1 BY <2>1, <2>3
  <2> QED BY <2>2, <2>3
<1> HIDE DEF A
<1>3. Nat \subseteq A BY <1>1, <1>2, CountUp
<1> QED BY <1>3 DEF A

(* Induction over the bits of a number.                                    *)
LEMMA Halves == \A a \in Nat : \E c \in Nat, i \in {0, 1} : a = 2 * c + i
<1> SUFFICES ASSUME NEW a \in Nat PROVE \E c \in Nat, i \in {0, 1} : a = 2 * c + i OBVIOUS
<1>1. a = 2 * (a \div 2) + (a % 2) /\ a \div 2 \in Nat /\ a % 2 \in {0, 1} OBVIOUS
<1> QED BY <1>1

(* What holds of 0 and, when it holds of a number, of its two doubles,     *)
(* holds of every number.                                                  *)
LEMMA BitInduction ==
  ASSUME NEW S, 0 \in S, \A c \in Nat : \A i \in {0, 1} : c \in S => 2 * c + i \in S
  PROVE  Nat \subseteq S
<1> DEFINE A == {n \in Nat : 0..n \subseteq S}
<1>1. 0 \in A OBVIOUS
<1>2. ASSUME NEW n \in Nat, n \in A PROVE n + 1 \in A
  <2>1. PICK c \in Nat, i \in {0, 1} : n + 1 = 2 * c + i
    <3>1. n + 1 \in Nat OBVIOUS
    <3> QED BY <3>1, Halves
  <2>2. c \in 0..n BY <2>1
  <2>3. 2 * c + i \in S BY <2>2, <1>2
  <2>4. \A m \in 0..(n + 1) : m \in 0..n \/ m = n + 1 OBVIOUS
  <2> QED BY <1>2, <2>1, <2>3, <2>4
<1> HIDE DEF A
<1>3. Nat \subseteq A BY <1>1, <1>2, CountUp
<1>4. ASSUME NEW n \in Nat PROVE n \in S
  <2>1. 0..n \subseteq S BY <1>3 DEF A
  <2>2. n \in 0..n OBVIOUS
  <2> QED BY <2>1, <2>2
<1> QED BY <1>4

(* What the recursion of BitAnd defines: the last bit and the others.      *)
LEMMA BitAndEquation ==
  /\ \A a, b \in Nat : BitAnd[a][b] \in Nat
  /\ \A a, b \in Nat :
       BitAnd[a][b] = IF a = 0 \/ b = 0 THEN 0
                      ELSE 2 * BitAnd[a \div 2][b \div 2] + (a % 2) * (b % 2)
<1> DEFINE S == [Nat -> [Nat -> Nat]]
           B(g, a, b) == IF a = 0 \/ b = 0 THEN 0
                         ELSE 2 * g[a \div 2][b \div 2] + (a % 2) * (b % 2)
           zero == [a \in Nat |-> [b \in Nat |-> 0]]
           F == [g \in S |-> [a \in Nat |-> [b \in Nat |-> B(g, a, b)]]]
<1>1. \A a \in Nat : a \div 2 \in Nat /\ a % 2 \in {0, 1} /\ (a # 0 => a \div 2 < a) OBVIOUS
<1>2. ASSUME NEW g \in S, NEW a \in Nat, NEW b \in Nat PROVE B(g, a, b) \in Nat
  <2>1. g[a \div 2][b \div 2] \in Nat
    <3>1. a \div 2 \in Nat /\ b \div 2 \in Nat BY <1>1
    <3> QED BY <3>1
  <2>2. (a % 2) * (b % 2) \in Nat
    <3>1. a % 2 \in {0, 1} /\ b % 2 \in {0, 1} BY <1>1
    <3>2. \A i, j \in {0, 1} : i * j \in Nat OBVIOUS
    <3> QED BY <3>1, <3>2
  <2>3. \A m, n \in Nat : 2 * m + n \in Nat OBVIOUS
  <2>4. 2 * g[a \div 2][b \div 2] + (a % 2) * (b % 2) \in Nat
    <3> HIDE DEF B, S
    <3> QED BY <2>1, <2>2, <2>3
  <2> QED BY <2>4
<1> HIDE DEF B
<1>3. PICK f : Iterates(f, zero, F, S)
  <2>1. zero \in S OBVIOUS
  <2>2. Maps(F, S)
    <3>1. ASSUME NEW g \in S PROVE [a \in Nat |-> [b \in Nat |-> B(g, a, b)]] \in S BY <1>2
    <3> QED BY <3>1 DEF Maps
  <2> HIDE DEF S, F, zero
  <2> QED BY <2>1, <2>2, NatRecursion
<1>4. \A n \in Nat : f[n] \in S BY <1>3 DEF Iterates
<1>5. ASSUME NEW a \in Nat, NEW b \in Nat PROVE f[0][a][b] = 0 BY <1>3 DEF Iterates
<1>6. ASSUME NEW n \in Nat, NEW a \in Nat, NEW b \in Nat PROVE f[n + 1][a][b] = B(f[n], a, b)
  <2>1. f[n + 1] = F[f[n]] BY <1>3 DEF Iterates
  <2>2. f[n + 1] = [c \in Nat |-> [d \in Nat |-> B(f[n], c, d)]] BY <2>1, <1>4
  <2> QED BY <2>2
<1> HIDE DEF F, zero
<1> DEFINE A == {k \in Nat : \A n \in Nat : \A a, b \in Nat : k <= n /\ a <= k => f[n][a][b] = f[k][a][b]}
<1>7. 0 \in A
  <2>1. ASSUME NEW n \in Nat, NEW b \in Nat PROVE f[n][0][b] = 0
    <3>1. CASE n = 0 BY <3>1, <1>5
    <3>2. CASE n # 0
      <4>1. n - 1 \in Nat /\ n = (n - 1) + 1 BY <3>2
      <4>2. f[n][0][b] = B(f[n - 1], 0, b) BY <4>1, <1>6
      <4> QED BY <4>2 DEF B
    <3> QED BY <3>1, <3>2
  <2> QED BY <2>1, <1>5
<1>8. ASSUME NEW k \in Nat, k \in A PROVE k + 1 \in A
  <2>1. ASSUME NEW n \in Nat, NEW a \in Nat, NEW b \in Nat, k + 1 <= n, a <= k + 1
        PROVE  f[n][a][b] = f[k + 1][a][b]
    <3>1. n - 1 \in Nat /\ n = (n - 1) + 1 /\ k <= n - 1 BY <2>1
    <3>2. f[n][a][b] = B(f[n - 1], a, b) /\ f[k + 1][a][b] = B(f[k], a, b) BY <3>1, <1>6
    <3>3. CASE a = 0 BY <3>2, <3>3 DEF B
    <3>4. CASE a # 0
      <4>1. a \div 2 \in Nat /\ b \div 2 \in Nat /\ a \div 2 <= k BY <1>1, <2>1, <3>4
      <4>2. f[n - 1][a \div 2][b \div 2] = f[k][a \div 2][b \div 2] BY <1>8, <3>1, <4>1
      <4> QED BY <3>2, <4>2 DEF B
    <3> QED BY <3>3, <3>4
  <2> QED BY <2>1
<1>9. Nat \subseteq A
  <2> HIDE DEF A
  <2> QED BY <1>7, <1>8, CountUp
<1> DEFINE G == [a \in Nat |-> [b \in Nat |-> f[a][a][b]]]
<1>10. ASSUME NEW a \in Nat, NEW b \in Nat PROVE f[a][a][b] = B(G, a, b)
  <2>1. CASE a = 0 BY <2>1, <1>5 DEF B
  <2>2. CASE a # 0
    <3>1. a - 1 \in Nat /\ a = (a - 1) + 1 BY <2>2
    <3>2. f[a][a][b] = B(f[a - 1], a, b) BY <3>1, <1>6
    <3>3. a \div 2 \in Nat /\ b \div 2 \in Nat /\ a \div 2 <= a - 1 BY <1>1, <2>2
    <3>4. a \div 2 \in A BY <1>9, <3>3
    <3>5. f[a - 1][a \div 2][b \div 2] = f[a \div 2][a \div 2][b \div 2] BY <3>1, <3>3, <3>4
    <3>6. G[a \div 2][b \div 2] = f[a \div 2][a \div 2][b \div 2] BY <3>3
    <3> QED BY <3>2, <3>5, <3>6 DEF B
  <2> QED BY <2>1, <2>2
<1>11. G = [a \in Nat |-> [b \in Nat |-> B(G, a, b)]]
  <2> HIDE DEF G
  <2> QED BY <1>10 DEF G
<1>12. BitAnd = [a \in Nat |-> [b \in Nat |-> B(BitAnd, a, b)]]
  <2>1. BitAnd = CHOOSE g : g = [a \in Nat |-> [b \in Nat |-> B(g, a, b)]] BY DEF BitAnd, B
  <2> HIDE DEF G
  <2> QED BY <1>11, <2>1
<1>13. \A a, b \in Nat : BitAnd[a][b] = B(BitAnd, a, b) BY <1>12
<1> DEFINE C == {n \in Nat : \A a, b \in Nat : a <= n => BitAnd[a][b] \in Nat}
<1>14. 0 \in C BY <1>13 DEF B
<1>15. ASSUME NEW n \in Nat, n \in C PROVE n + 1 \in C
  <2>1. ASSUME NEW a \in Nat, NEW b \in Nat, a <= n + 1 PROVE BitAnd[a][b] \in Nat
    <3>1. CASE a = 0 BY <3>1, <1>13 DEF B
    <3>2. CASE a # 0
      <4>1. a \div 2 \in Nat /\ b \div 2 \in Nat /\ a \div 2 <= n BY <1>1, <2>1, <3>2
      <4>2. BitAnd[a \div 2][b \div 2] \in Nat BY <4>1, <1>15
      <4>3. (a % 2) * (b % 2) \in Nat
        <5>1. a % 2 \in {0, 1} /\ b % 2 \in {0, 1} BY <1>1
        <5>2. \A i, j \in {0, 1} : i * j \in Nat OBVIOUS
        <5> QED BY <5>1, <5>2
      <4>4. B(BitAnd, a, b) \in Nat BY <4>2, <4>3 DEF B
      <4> QED BY <4>4, <1>13
    <3> QED BY <3>1, <3>2
  <2> QED BY <2>1
<1>16. Nat \subseteq C
  <2> HIDE DEF C
  <2> QED BY <1>14, <1>15, CountUp
<1>17. ASSUME NEW a \in Nat, NEW b \in Nat PROVE BitAnd[a][b] \in Nat
  <2>1. a \in C BY <1>16
  <2> QED BY <2>1
<1> QED BY <1>13, <1>17 DEF B

(* The two halves of a number: its last bit and the others.                *)
LEMMA BitAndBit ==
  \A c, d \in Nat : \A i, j \in {0, 1} :
    BitAnd[2 * c + i][2 * d + j] = 2 * BitAnd[c][d] + i * j
<1> SUFFICES ASSUME NEW c \in Nat, NEW d \in Nat, NEW i \in {0, 1}, NEW j \in {0, 1}
             PROVE  BitAnd[2 * c + i][2 * d + j] = 2 * BitAnd[c][d] + i * j
  OBVIOUS
<1> DEFINE a == 2 * c + i
           b == 2 * d + j
<1>1. a \in Nat /\ b \in Nat OBVIOUS
<1>2. a \div 2 = c /\ a % 2 = i /\ b \div 2 = d /\ b % 2 = j OBVIOUS
<1>3. a = 0 => c = 0 /\ i = 0 OBVIOUS
<1>4. b = 0 => d = 0 /\ j = 0 OBVIOUS
<1> DEFINE k == i * j
           e == BitAnd[c][d]
<1>5. k \in {0, 1} /\ (i = 0 \/ j = 0 => k = 0) OBVIOUS
<1> HIDE DEF a, b
<1>6. BitAnd[a][b] = IF a = 0 \/ b = 0 THEN 0 ELSE 2 * e + k BY <1>1, <1>2, BitAndEquation
<1>7. e \in Nat /\ (c = 0 \/ d = 0 => e = 0) BY BitAndEquation
<1> HIDE DEF e, k
<1>8. ASSUME a = 0 PROVE BitAnd[a][b] = 2 * e + k
  <2>1. BitAnd[a][b] = 0 BY <1>6, <1>8
  <2>2. e = 0 /\ k = 0 BY <1>3, <1>5, <1>7, <1>8
  <2> QED BY <2>1, <2>2
<1>9. ASSUME b = 0 PROVE BitAnd[a][b] = 2 * e + k
  <2>1. BitAnd[a][b] = 0 BY <1>6, <1>9
  <2>2. e = 0 /\ k = 0 BY <1>4, <1>5, <1>7, <1>9
  <2> QED BY <2>1, <2>2
<1>10. ASSUME a # 0, b # 0 PROVE BitAnd[a][b] = 2 * e + k BY <1>6, <1>10
<1>11. BitAnd[a][b] = 2 * e + k BY <1>8, <1>9, <1>10
<1> QED BY <1>11 DEF a, b, e, k

(* The same with the equation under a name, so that a step can instantiate *)
(* it without any arithmetic.                                              *)
BitLaw(c, d, i, j) == BitAnd[2 * c + i][2 * d + j] = 2 * BitAnd[c][d] + i * j

LEMMA BitAndLaw == \A c, d \in Nat : \A i, j \in {0, 1} : BitLaw(c, d, i, j)
BY BitAndBit DEF BitLaw

(* A conjunction of numbers is a number.                                   *)
LEMMA BitAndNat == \A a, b \in Nat : BitAnd[a][b] \in Nat
BY BitAndEquation

(* a & 0 = 0, a & b = b & a, a & b <= a, (a & b) & b = a & b               *)
LEMMA BitAndZero == \A a \in Nat : BitAnd[a][0] = 0 /\ BitAnd[0][a] = 0
BY BitAndEquation

(* The operands of a conjunction of bits may be swapped.                   *)
LEMMA BitAndCommutes == \A a, b \in Nat : BitAnd[a][b] = BitAnd[b][a]
<1> DEFINE S == {a \in Nat : \A b \in Nat : BitAnd[a][b] = BitAnd[b][a]}
<1>1. 0 \in S BY BitAndZero
<1>2. ASSUME NEW c \in Nat, NEW i \in {0, 1}, c \in S PROVE 2 * c + i \in S
  <2>1. ASSUME NEW b \in Nat PROVE BitAnd[2 * c + i][b] = BitAnd[b][2 * c + i]
    <3>1. PICK d \in Nat, j \in {0, 1} : b = 2 * d + j BY Halves
    <3>2. BitLaw(c, d, i, j) /\ BitLaw(d, c, j, i) BY BitAndLaw
    <3>3. BitAnd[c][d] = BitAnd[d][c] BY <1>2
    <3>4. i * j = j * i OBVIOUS
    <3> DEFINE k == i * j
    <3>5. BitAnd[2 * c + i][2 * d + j] = 2 * BitAnd[c][d] + k BY <3>2 DEF BitLaw
    <3>6. BitAnd[2 * d + j][2 * c + i] = 2 * BitAnd[d][c] + k BY <3>2, <3>4 DEF BitLaw
    <3> HIDE DEF k
    <3>7. BitAnd[2 * c + i][2 * d + j] = BitAnd[2 * d + j][2 * c + i] BY <3>3, <3>5, <3>6
    <3> QED BY <3>1, <3>7
  <2> QED BY <2>1
<1> HIDE DEF S
<1>3. Nat \subseteq S BY <1>1, <1>2, BitInduction
<1> QED BY <1>3 DEF S

(* A conjunction of bits is no greater than its operands.                  *)
LEMMA BitAndSmaller == \A a, b \in Nat : BitAnd[a][b] <= a /\ BitAnd[a][b] <= b
<1> DEFINE S == {a \in Nat : \A b \in Nat : BitAnd[a][b] <= a}
<1>1. 0 \in S BY BitAndZero
<1>2. ASSUME NEW c \in Nat, NEW i \in {0, 1}, c \in S PROVE 2 * c + i \in S
  <2>1. ASSUME NEW b \in Nat PROVE BitAnd[2 * c + i][b] <= 2 * c + i
    <3>1. PICK d \in Nat, j \in {0, 1} : b = 2 * d + j BY Halves
    <3> DEFINE e == BitAnd[c][d]
               k == i * j
               f == BitAnd[2 * c + i][2 * d + j]
    <3>2. BitLaw(c, d, i, j) BY BitAndLaw
    <3>3. f = 2 * e + k BY <3>2 DEF BitLaw
    <3>4. e <= c /\ e \in Nat BY <1>2, BitAndNat
    <3>5. k <= i /\ k \in Nat OBVIOUS
    <3> HIDE DEF e, f, k
    <3>6. f <= 2 * c + i BY <3>3, <3>4, <3>5
    <3> QED BY <3>1, <3>6 DEF f
  <2> QED BY <2>1
<1> HIDE DEF S
<1>3. Nat \subseteq S BY <1>1, <1>2, BitInduction
<1> QED BY <1>3, BitAndCommutes DEF S

(* Masking twice is masking once.                                          *)
LEMMA BitAndTwice == \A a, b \in Nat : BitAnd[BitAnd[a][b]][b] = BitAnd[a][b]
<1> DEFINE S == {a \in Nat : \A b \in Nat : BitAnd[BitAnd[a][b]][b] = BitAnd[a][b]}
<1>1. 0 \in S BY BitAndZero
<1>2. ASSUME NEW c \in Nat, NEW i \in {0, 1}, c \in S PROVE 2 * c + i \in S
  <2>1. ASSUME NEW b \in Nat PROVE BitAnd[BitAnd[2 * c + i][b]][b] = BitAnd[2 * c + i][b]
    <3>1. PICK d \in Nat, j \in {0, 1} : b = 2 * d + j BY Halves
    <3> DEFINE e == BitAnd[c][d]
               k == i * j
    <3>7. BitLaw(c, d, i, j) BY BitAndLaw
    <3>2. BitAnd[2 * c + i][2 * d + j] = 2 * e + k BY <3>7 DEF BitLaw
    <3>3. e \in Nat /\ BitAnd[e][d] = e BY <1>2, BitAndNat
    <3>4. k \in {0, 1} /\ k * j = k OBVIOUS
    <3> HIDE DEF e, k
    <3>5. BitLaw(e, d, k, j) BY <3>3, <3>4, BitAndLaw
    <3>6. BitAnd[2 * e + k][2 * d + j] = 2 * e + k BY <3>3, <3>4, <3>5 DEF BitLaw
    <3> QED BY <3>1, <3>2, <3>6
  <2> QED BY <2>1
<1> HIDE DEF S
<1>3. Nat \subseteq S BY <1>1, <1>2, BitInduction
<1> QED BY <1>3 DEF S

(* a | b                                                                   *)
BitOr(a, b) == a + b - BitAnd[a][b]

(* A disjunction of bits, from its last bit and the rest.                  *)
LEMMA BitOrBit ==
  \A c, d \in Nat : \A i, j \in {0, 1} :
    BitOr(2 * c + i, 2 * d + j) = 2 * BitOr(c, d) + (i + j - i * j)
<1> SUFFICES ASSUME NEW c \in Nat, NEW d \in Nat, NEW i \in {0, 1}, NEW j \in {0, 1}
             PROVE  BitOr(2 * c + i, 2 * d + j) = 2 * BitOr(c, d) + (i + j - i * j)
  OBVIOUS
<1> DEFINE e == BitAnd[c][d]
           k == i * j
<1>0. BitLaw(c, d, i, j) BY BitAndLaw
<1>1. BitAnd[2 * c + i][2 * d + j] = 2 * e + k BY <1>0 DEF BitLaw
<1>2. e \in Nat /\ k \in {0, 1} BY BitAndNat
<1>3. BitOr(c, d) = c + d - e BY DEF BitOr
<1>4. BitOr(2 * c + i, 2 * d + j) = (2 * c + i) + (2 * d + j) - (2 * e + k) BY <1>1 DEF BitOr
<1> HIDE DEF e, k
<1>5. BitOr(2 * c + i, 2 * d + j) = 2 * BitOr(c, d) + (i + j - k) BY <1>2, <1>3, <1>4
<1> QED BY <1>5 DEF k

(* The same with the equation under a name.                                *)
BitOrLaw(c, d, i, j) == BitOr(2 * c + i, 2 * d + j) = 2 * BitOr(c, d) + (i + j - i * j)

LEMMA BitOrBits == \A c, d \in Nat : \A i, j \in {0, 1} : BitOrLaw(c, d, i, j)
BY BitOrBit DEF BitOrLaw

(* A disjunction of bits is no smaller than its operands.                  *)
LEMMA BitOrNat == \A a, b \in Nat : BitOr(a, b) \in Nat /\ a <= BitOr(a, b) /\ b <= BitOr(a, b)
BY BitAndSmaller, BitAndNat DEF BitOr

(* The operands of a disjunction of bits may be swapped.                   *)
LEMMA BitOrCommutes == \A a, b \in Nat : BitOr(a, b) = BitOr(b, a)
BY BitAndCommutes, BitAndNat DEF BitOr

(* Numbers of n bits: nothing is carried out of them, and the number whose *)
(* n bits are all set keeps what it masks.                                 *)
LEMMA BitAndOnes == \A n, a \in Nat : a < Pow2[n] => BitAnd[a][Pow2[n] - 1] = a
<1> DEFINE S == {n \in Nat : \A a \in Nat : a < Pow2[n] => BitAnd[a][Pow2[n] - 1] = a}
<1>1. 0 \in S BY BitAndZero, Pow2Equations
<1>2. ASSUME NEW n \in Nat, n \in S PROVE n + 1 \in S
  <2>1. ASSUME NEW a \in Nat, a < Pow2[n + 1] PROVE BitAnd[a][Pow2[n + 1] - 1] = a
    <3>1. PICK c \in Nat, i \in {0, 1} : a = 2 * c + i BY Halves
    <3>2. Pow2[n + 1] = 2 * Pow2[n] /\ Pow2[n] \in Nat \ {0} BY Pow2Equations
    <3> DEFINE d == Pow2[n] - 1
    <3>3. d \in Nat /\ c < Pow2[n] /\ Pow2[n + 1] - 1 = 2 * d + 1 BY <2>1, <3>1, <3>2
    <3>4. BitAnd[c][d] = c BY <1>2, <3>3
    <3> HIDE DEF d
    <3>6. BitLaw(c, d, i, 1) BY <3>3, BitAndLaw
    <3>5. BitAnd[2 * c + i][2 * d + 1] = 2 * BitAnd[c][d] + i BY <3>6 DEF BitLaw
    <3> QED BY <3>1, <3>3, <3>4, <3>5
  <2> QED BY <2>1
<1> HIDE DEF S
<1>3. Nat \subseteq S BY <1>1, <1>2, CountUp
<1> QED BY <1>3 DEF S

(* A disjunction of bits has no more bits than its operands.               *)
LEMMA BitOrBounded ==
  \A n, a, b \in Nat : a < Pow2[n] /\ b < Pow2[n] => BitOr(a, b) < Pow2[n]
<1> DEFINE S == {n \in Nat : \A a, b \in Nat : a < Pow2[n] /\ b < Pow2[n] => BitOr(a, b) < Pow2[n]}
<1>1. 0 \in S
  <2>1. BitOr(0, 0) = 0 BY BitAndZero DEF BitOr
  <2> QED BY <2>1, Pow2Equations
<1>2. ASSUME NEW n \in Nat, n \in S PROVE n + 1 \in S
  <2>1. ASSUME NEW a \in Nat, NEW b \in Nat, a < Pow2[n + 1], b < Pow2[n + 1]
        PROVE  BitOr(a, b) < Pow2[n + 1]
    <3>1. PICK c \in Nat, i \in {0, 1} : a = 2 * c + i BY Halves
    <3>2. PICK d \in Nat, j \in {0, 1} : b = 2 * d + j BY Halves
    <3>3. Pow2[n + 1] = 2 * Pow2[n] /\ Pow2[n] \in Nat BY Pow2Equations
    <3>4. c < Pow2[n] /\ d < Pow2[n] BY <2>1, <3>1, <3>2, <3>3
    <3>5. BitOr(c, d) < Pow2[n] /\ BitOr(c, d) \in Nat BY <1>2, <3>4, BitOrNat
    <3> DEFINE k == i + j - i * j
               e == BitOr(c, d)
               f == BitOr(2 * c + i, 2 * d + j)
               p == Pow2[n]
    <3>6. BitOrLaw(c, d, i, j) BY BitOrBits
    <3>7. f = 2 * e + k BY <3>6 DEF BitOrLaw
    <3>8. k \in {0, 1} OBVIOUS
    <3>9. e < p /\ e \in Nat /\ p \in Nat BY <3>3, <3>5
    <3> HIDE DEF e, f, k, p
    <3>10. f < 2 * p BY <3>7, <3>8, <3>9
    <3> QED BY <3>1, <3>2, <3>3, <3>10 DEF f, p
  <2> QED BY <2>1
<1> HIDE DEF S
<1>3. Nat \subseteq S BY <1>1, <1>2, CountUp
<1> QED BY <1>3 DEF S

(* A disjunction with all bits set has all bits set.                       *)
LEMMA BitOrOnes == \A n, a \in Nat : a < Pow2[n] => BitOr(a, Pow2[n] - 1) = Pow2[n] - 1
<1> SUFFICES ASSUME NEW n \in Nat, NEW a \in Nat, a < Pow2[n]
             PROVE  BitOr(a, Pow2[n] - 1) = Pow2[n] - 1
  OBVIOUS
<1>1. BitAnd[a][Pow2[n] - 1] = a BY BitAndOnes
<1>2. Pow2[n] \in Nat BY Pow2Equations
<1> QED BY <1>1, <1>2 DEF BitOr

-----------------------------------------------------------------------------
(* Words and registers.                                                    *)
Words     == 0..WORD_MAX
Registers64 == 0..UINT64_MAX

(* Powers of two multiply by adding their exponents.                       *)
LEMMA Pow2Adds == \A n, m \in Nat : Pow2[n + m] = Pow2[n] * Pow2[m]
<1> SUFFICES ASSUME NEW n \in Nat PROVE \A m \in Nat : Pow2[n + m] = Pow2[n] * Pow2[m]
  OBVIOUS
<1> DEFINE S == {m \in Nat : Pow2[n + m] = Pow2[n] * Pow2[m]}
<1>1. 0 \in S
  <2>1. Pow2[n] \in Nat /\ Pow2[0] = 1 /\ n + 0 = n BY Pow2Equations
  <2> QED BY <2>1
<1>2. ASSUME NEW m \in Nat, m \in S PROVE m + 1 \in S
  <2>1. n + m \in Nat /\ n + (m + 1) = (n + m) + 1 OBVIOUS
  <2>2. Pow2[n + (m + 1)] = 2 * Pow2[n + m] /\ Pow2[m + 1] = 2 * Pow2[m] BY <2>1, Pow2Equations
  <2>3. Pow2[n] \in Nat /\ Pow2[m] \in Nat BY Pow2Equations
  <2>4. \A p, q \in Nat : 2 * (p * q) = p * (2 * q) OBVIOUS
  <2> QED BY <1>2, <2>2, <2>3, <2>4
<1> HIDE DEF S
<1>3. Nat \subseteq S BY <1>1, <1>2, CountUp
<1> QED BY <1>3 DEF S

(* A word has some bits and a register twice as many.                      *)
LEMMA WordIs == \E n \in Nat : WORD = Pow2[n] /\ UINT64_MAX + 1 = Pow2[n + n]
<1>1. PICK n \in 1..WORD : WORD = Pow2[n] BY WordOfBits
<1>2. n \in Nat /\ WORD \in Nat BY <1>1, ExpressionConstants
<1>3. Pow2[n + n] = WORD * WORD BY <1>1, <1>2, Pow2Adds
<1>4. WORD * WORD \in Nat BY <1>2
<1>5. UINT64_MAX + 1 = WORD * WORD BY <1>4 DEF UINT64_MAX
<1> QED BY <1>1, <1>2, <1>3, <1>5

(* A word has at least two values, a register as many as two words.        *)
LEMMA WordFacts ==
  /\ WORD \in Nat /\ WORD > 1 /\ WORD_MAX = WORD - 1 /\ WORD_MAX \in Nat
  /\ UINT64_MAX \in Nat /\ UINT64_MAX + 1 = WORD * WORD /\ WORD_MAX <= UINT64_MAX
<1>1. WORD \in Nat /\ WORD > 1 BY ExpressionConstants
<1>2. WORD * WORD \in Nat /\ WORD * WORD >= WORD BY <1>1
<1> QED BY <1>1, <1>2 DEF WORD_MAX, UINT64_MAX

(* The operators on bits stay within a word and within a register.         *)
LEMMA WordBits ==
  \A a, b \in Words : /\ BitAnd[a][b] \in Words /\ BitOr(a, b) \in Words
                      /\ BitAnd[a][WORD_MAX] = a /\ BitOr(a, WORD_MAX) = WORD_MAX
<1>1. PICK n \in Nat : WORD = Pow2[n] BY WordIs
<1>2. SUFFICES ASSUME NEW a \in Words, NEW b \in Words
               PROVE  /\ BitAnd[a][b] \in Words /\ BitOr(a, b) \in Words
                      /\ BitAnd[a][WORD_MAX] = a /\ BitOr(a, WORD_MAX) = WORD_MAX
  OBVIOUS
<1>3. a \in Nat /\ b \in Nat /\ a < Pow2[n] /\ b < Pow2[n] /\ WORD_MAX = Pow2[n] - 1
  BY <1>1, WordFacts DEF Words
<1>4. BitAnd[a][b] \in Nat /\ BitAnd[a][b] <= a BY <1>3, BitAndEquation, BitAndSmaller
<1>5. BitOr(a, b) \in Nat /\ BitOr(a, b) < Pow2[n] BY <1>3, BitOrNat, BitOrBounded
<1>6. BitAnd[a][WORD_MAX] = a /\ BitOr(a, WORD_MAX) = WORD_MAX BY <1>3, BitAndOnes, BitOrOnes
<1> QED BY <1>1, <1>3, <1>4, <1>5, <1>6, WordFacts DEF Words

(* Operations on the bits of registers give registers; all bits set is     *)
(* neutral, or absorbs.                                                    *)
LEMMA RegisterBits ==
  \A a, b \in Registers64 : /\ BitAnd[a][b] \in Registers64 /\ BitOr(a, b) \in Registers64
                            /\ BitAnd[a][UINT64_MAX] = a /\ BitOr(a, UINT64_MAX) = UINT64_MAX
<1>1. PICK n \in Nat : UINT64_MAX + 1 = Pow2[n]
  <2>1. PICK n \in Nat : UINT64_MAX + 1 = Pow2[n + n] BY WordIs
  <2>2. n + n \in Nat OBVIOUS
  <2> QED BY <2>1, <2>2
<1>2. SUFFICES ASSUME NEW a \in Registers64, NEW b \in Registers64
               PROVE  /\ BitAnd[a][b] \in Registers64 /\ BitOr(a, b) \in Registers64
                      /\ BitAnd[a][UINT64_MAX] = a /\ BitOr(a, UINT64_MAX) = UINT64_MAX
  OBVIOUS
<1>3. a \in Nat /\ b \in Nat /\ a < Pow2[n] /\ b < Pow2[n] /\ UINT64_MAX = Pow2[n] - 1
  BY <1>1, WordFacts DEF Registers64
<1>4. BitAnd[a][b] \in Nat /\ BitAnd[a][b] <= a BY <1>3, BitAndEquation, BitAndSmaller
<1>5. BitOr(a, b) \in Nat /\ BitOr(a, b) < Pow2[n] BY <1>3, BitOrNat, BitOrBounded
<1>6. BitAnd[a][UINT64_MAX] = a /\ BitOr(a, UINT64_MAX) = UINT64_MAX BY <1>3, BitAndOnes, BitOrOnes
<1> QED BY <1>1, <1>3, <1>4, <1>5, <1>6, WordFacts DEF Registers64

BitTypes == {"BIT_AND", "BIT_OR"}

(* The two operations on bits, by name.                                    *)
LEMMA BitsAre ==
  \A a, b : Bits("BIT_AND", a, b) = BitAnd[a][b] /\ Bits("BIT_OR", a, b) = BitOr(a, b)
BY DEF Bits, BitOr

(* Both operators commute.                                                 *)
LEMMA BitsCommute == \A op \in BitTypes : \A a, b \in Nat : Bits(op, a, b) = Bits(op, b, a)
BY BitsAre, BitAndCommutes, BitOrCommutes DEF BitTypes

(* What expr_simplify knows of a constant operand.                         *)
Clobber(op, top)  == IF op = "BIT_OR" THEN top ELSE 0
Identity(op, top) == IF op = "BIT_OR" THEN 0 ELSE top

(* An operation on bits of registers, with the operand that absorbs and    *)
(* the neutral one.                                                        *)
LEMMA RegisterOps ==
  \A op \in BitTypes : \A a, b \in Registers64 :
    /\ Bits(op, a, b) \in Registers64
    /\ Bits(op, a, Clobber(op, UINT64_MAX)) = Clobber(op, UINT64_MAX)
    /\ Bits(op, a, Identity(op, UINT64_MAX)) = a
<1> SUFFICES ASSUME NEW op \in BitTypes, NEW a \in Registers64, NEW b \in Registers64
             PROVE  /\ Bits(op, a, b) \in Registers64
                    /\ Bits(op, a, Clobber(op, UINT64_MAX)) = Clobber(op, UINT64_MAX)
                    /\ Bits(op, a, Identity(op, UINT64_MAX)) = a
  OBVIOUS
<1>1. a \in Nat BY WordFacts DEF Registers64
<1>2. CASE op = "BIT_AND" BY <1>1, <1>2, BitsAre, RegisterBits, BitAndZero DEF Clobber, Identity
<1>3. CASE op = "BIT_OR"
  <2>1. BitOr(a, 0) = a BY <1>1, BitAndZero DEF BitOr
  <2> QED BY <2>1, <1>3, BitsAre, RegisterBits DEF Clobber, Identity
<1> QED BY <1>2, <1>3 DEF BitTypes

(* An operation on bits of words, with the operand that absorbs and the    *)
(* neutral one.                                                            *)
LEMMA WordOps ==
  \A op \in BitTypes : \A a, b \in Words :
    /\ Bits(op, a, b) \in Words
    /\ Bits(op, a, Clobber(op, WORD_MAX)) = Clobber(op, WORD_MAX)
    /\ Bits(op, a, Identity(op, WORD_MAX)) = a
<1> SUFFICES ASSUME NEW op \in BitTypes, NEW a \in Words, NEW b \in Words
             PROVE  /\ Bits(op, a, b) \in Words
                    /\ Bits(op, a, Clobber(op, WORD_MAX)) = Clobber(op, WORD_MAX)
                    /\ Bits(op, a, Identity(op, WORD_MAX)) = a
  OBVIOUS
<1>1. a \in Nat BY WordFacts DEF Words
<1>2. CASE op = "BIT_AND" BY <1>1, <1>2, BitsAre, WordBits, BitAndZero DEF Clobber, Identity
<1>3. CASE op = "BIT_OR"
  <2>1. BitOr(a, 0) = a BY <1>1, BitAndZero DEF BitOr
  <2> QED BY <2>1, <1>3, BitsAre, WordBits DEF Clobber, Identity
<1> QED BY <1>2, <1>3 DEF BitTypes

(* A number is a high word and a low one, and the operators on bits work   *)
(* on each of them alone.                                                  *)
LEMMA BitAndSplits ==
  \A n, h, g \in Nat : \A l, k \in 0..(Pow2[n] - 1) :
    BitAnd[h * Pow2[n] + l][g * Pow2[n] + k] = BitAnd[h][g] * Pow2[n] + BitAnd[l][k]
<1> DEFINE Splits(n, h, g, l, k) ==
      BitAnd[h * Pow2[n] + l][g * Pow2[n] + k] = BitAnd[h][g] * Pow2[n] + BitAnd[l][k]
           S == {n \in Nat : \A h, g \in Nat : \A l, k \in 0..(Pow2[n] - 1) : Splits(n, h, g, l, k)}
<1>1. 0 \in S
  <2> SUFFICES ASSUME NEW h \in Nat, NEW g \in Nat, NEW l \in 0..(Pow2[0] - 1), NEW k \in 0..(Pow2[0] - 1)
               PROVE  Splits(0, h, g, l, k)
    OBVIOUS
  <2>1. Pow2[0] = 1 BY Pow2Equations
  <2>2. l = 0 /\ k = 0 BY <2>1
  <2>3. BitAnd[h][g] \in Nat /\ BitAnd[0][0] = 0 BY BitAndEquation
  <2>4. h * 1 + 0 = h /\ g * 1 + 0 = g OBVIOUS
  <2>5. BitAnd[h][g] * 1 + 0 = BitAnd[h][g] BY <2>3
  <2> QED BY <2>1, <2>2, <2>3, <2>4, <2>5
<1>2. ASSUME NEW n \in Nat, n \in S PROVE n + 1 \in S
  <2> SUFFICES ASSUME NEW h \in Nat, NEW g \in Nat,
                      NEW l \in 0..(Pow2[n + 1] - 1), NEW k \in 0..(Pow2[n + 1] - 1)
               PROVE  Splits(n + 1, h, g, l, k)
    OBVIOUS
  <2> DEFINE P == Pow2[n]
             e == BitAnd[h][g]
  <2>1. P \in Nat \ {0} /\ Pow2[n + 1] = 2 * P BY Pow2Equations
  <2>2. l \in Nat /\ k \in Nat BY <2>1
  <2>3. PICK c \in Nat, i \in {0, 1} : l = 2 * c + i BY <2>2, Halves
  <2>4. PICK d \in Nat, j \in {0, 1} : k = 2 * d + j BY <2>2, Halves
  <2>5. c \in 0..(P - 1) /\ d \in 0..(P - 1) BY <2>1, <2>3, <2>4
  <2>6. BitAnd[h * P + c][g * P + d] = e * P + BitAnd[c][d] BY <1>2, <2>5
  <2>7. e \in Nat /\ BitAnd[c][d] \in Nat BY BitAndEquation
  <2> HIDE DEF P, e
  <2>8. \A m \in Nat : m * P \in Nat /\ m * (2 * P) = 2 * (m * P) BY <2>1
  <2>9. h * P + c \in Nat /\ g * P + d \in Nat BY <2>8
  <2>10. h * (2 * P) + l = 2 * (h * P + c) + i /\ g * (2 * P) + k = 2 * (g * P + d) + j
    BY <2>3, <2>4, <2>8
  <2>11. BitAnd[2 * (h * P + c) + i][2 * (g * P + d) + j] = 2 * (e * P + BitAnd[c][d]) + i * j
    <3> DEFINE x == h * P + c
               y == g * P + d
    <3>1. x \in Nat /\ y \in Nat BY <2>9
    <3>2. BitAnd[x][y] = e * P + BitAnd[c][d] BY <2>6
    <3> HIDE DEF x, y
    <3>0. BitLaw(x, y, i, j) BY <3>1, BitAndLaw
    <3>3. BitAnd[2 * x + i][2 * y + j] = 2 * BitAnd[x][y] + i * j BY <3>0 DEF BitLaw
    <3>4. BitAnd[2 * x + i][2 * y + j] = 2 * (e * P + BitAnd[c][d]) + i * j BY <3>2, <3>3
    <3> QED BY <3>4 DEF x, y
  <2>12. BitAnd[2 * c + i][2 * d + j] = 2 * BitAnd[c][d] + i * j
    <3>1. BitLaw(c, d, i, j) BY BitAndLaw
    <3> QED BY <3>1 DEF BitLaw
  <2>13. i * j \in Nat OBVIOUS
  <2>14. 2 * (e * P + BitAnd[c][d]) + i * j = e * (2 * P) + (2 * BitAnd[c][d] + i * j)
    <3> DEFINE b == BitAnd[c][d]
               m == i * j
               q == e * P
    <3>1. e * (2 * P) = 2 * q /\ q \in Nat /\ b \in Nat /\ m \in Nat BY <2>7, <2>8, <2>13
    <3> HIDE DEF b, m, q
    <3>2. 2 * (q + b) + m = 2 * q + (2 * b + m) BY <3>1
    <3> QED BY <3>1, <3>2 DEF b, m, q
  <2>15. BitAnd[h * (2 * P) + l][g * (2 * P) + k] = e * (2 * P) + BitAnd[l][k]
    BY <2>3, <2>4, <2>10, <2>11, <2>12, <2>14
  <2> QED BY <2>1, <2>15 DEF e
<1> HIDE DEF S
<1>3. Nat \subseteq S BY <1>1, <1>2, CountUp
<1> QED BY <1>3 DEF S

(* A number of words, and its last word.                                   *)
LEMMA WordParts ==
  \A a \in Nat : /\ a \div WORD \in Nat /\ a % WORD \in Words
                 /\ a = (a \div WORD) * WORD + (a % WORD)
                 /\ \A h \in Nat, l \in Words : a = h * WORD + l => a \div WORD = h /\ a % WORD = l
<1> SUFFICES ASSUME NEW a \in Nat
             PROVE  /\ a \div WORD \in Nat /\ a % WORD \in Words
                    /\ a = (a \div WORD) * WORD + (a % WORD)
                    /\ \A h \in Nat, l \in Words : a = h * WORD + l => a \div WORD = h /\ a % WORD = l
  OBVIOUS
<1>1. WORD \in Nat /\ WORD > 0 BY WordFacts
<1>2. a % WORD \in 0..(WORD - 1) /\ a \div WORD \in Nat /\ a = WORD * (a \div WORD) + (a % WORD) BY <1>1
<1>3. WORD * (a \div WORD) = (a \div WORD) * WORD BY <1>1, <1>2
<1>4. Words = 0..(WORD - 1) BY WordFacts DEF Words
<1>5. ASSUME NEW h \in Nat, NEW l \in Words, a = h * WORD + l PROVE a \div WORD = h /\ a % WORD = l
  <2> DEFINE q == a \div WORD
             r == a % WORD
  <2>1. q \in Nat /\ r \in 0..(WORD - 1) /\ q * WORD + r = h * WORD + l /\ l \in 0..(WORD - 1)
    BY <1>2, <1>3, <1>4, <1>5
  <2> HIDE DEF q, r
  <2>2. (q - h) * WORD = l - r
    <3>1. q * WORD \in Nat /\ h * WORD \in Nat /\ (q - h) * WORD = q * WORD - h * WORD BY <1>1, <2>1
    <3> QED BY <2>1, <3>1
  <2>3. CASE q - h >= 1
    <3>1. (q - h) * WORD >= WORD BY <1>1, <2>1, <2>3
    <3> QED BY <1>1, <2>1, <2>2, <3>1
  <2>4. CASE q - h <= -1
    <3>1. (q - h) * WORD <= -WORD BY <1>1, <2>1, <2>4
    <3> QED BY <1>1, <2>1, <2>2, <3>1
  <2>5. CASE q = h
    <3>1. (q - h) * WORD = 0 BY <1>1, <2>1, <2>5
    <3> QED BY <2>1, <2>2, <2>5, <3>1 DEF q, r
  <2> QED BY <2>1, <2>3, <2>4, <2>5
<1> QED BY <1>2, <1>3, <1>4, <1>5

(* The words of the result are the results of the operation on the words:  *)
(* what lets the code load and compare an operand one word at a time.      *)
LEMMA BitsByWord ==
  \A op \in BitTypes : \A a, b \in Nat :
    /\ Bits(op, a, b) \div WORD = Bits(op, a \div WORD, b \div WORD)
    /\ Bits(op, a, b) % WORD = Bits(op, a % WORD, b % WORD)
<1> SUFFICES ASSUME NEW op \in BitTypes, NEW a \in Nat, NEW b \in Nat
             PROVE  /\ Bits(op, a, b) \div WORD = Bits(op, a \div WORD, b \div WORD)
                    /\ Bits(op, a, b) % WORD = Bits(op, a % WORD, b % WORD)
  OBVIOUS
<1> DEFINE h == a \div WORD
           l == a % WORD
           g == b \div WORD
           k == b % WORD
<1>1. /\ h \in Nat /\ l \in Words /\ a = h * WORD + l
      /\ g \in Nat /\ k \in Words /\ b = g * WORD + k
  BY WordParts
<1> HIDE DEF h, l, g, k
<1>2. BitAnd[a][b] = BitAnd[h][g] * WORD + BitAnd[l][k]
  <2>1. PICK n \in Nat : WORD = Pow2[n] BY WordIs
  <2>2. l \in 0..(Pow2[n] - 1) /\ k \in 0..(Pow2[n] - 1) BY <1>1, <2>1, WordFacts DEF Words
  <2>3. BitAnd[h * Pow2[n] + l][g * Pow2[n] + k] = BitAnd[h][g] * Pow2[n] + BitAnd[l][k]
    BY <1>1, <2>2, BitAndSplits
  <2> QED BY <1>1, <2>1, <2>3
<1>3. BitAnd[h][g] \in Nat /\ BitAnd[l][k] \in Words /\ BitOr(h, g) \in Nat /\ BitOr(l, k) \in Words
  BY <1>1, BitAndEquation, BitOrNat, WordBits
<1>4. BitAnd[a][b] \in Nat /\ BitOr(a, b) \in Nat BY BitAndEquation, BitOrNat
<1>5. BitOr(a, b) = BitOr(h, g) * WORD + BitOr(l, k)
  <2> DEFINE c == BitAnd[h][g]
             d == BitAnd[l][k]
  <2>1. c \in Nat /\ d \in Nat /\ l \in Nat /\ k \in Nat /\ WORD \in Nat
    BY <1>1, <1>3, WordFacts DEF Words
  <2>2. BitOr(h, g) = h + g - c /\ BitOr(l, k) = l + k - d BY DEF BitOr
  <2>3. BitOr(a, b) = (h * WORD + l) + (g * WORD + k) - (c * WORD + d) BY <1>1, <1>2 DEF BitOr
  <2> HIDE DEF c, d
  <2>4. (h + g - c) * WORD = h * WORD + g * WORD - c * WORD BY <1>1, <2>1
  <2>5. h * WORD \in Nat /\ g * WORD \in Nat /\ c * WORD \in Nat BY <1>1, <2>1
  <2> QED BY <1>1, <2>1, <2>2, <2>3, <2>4, <2>5
<1>6. CASE op = "BIT_AND"
  <2>1. BitAnd[a][b] \div WORD = BitAnd[h][g] /\ BitAnd[a][b] % WORD = BitAnd[l][k]
    BY <1>2, <1>3, <1>4, WordParts
  <2> QED BY <2>1, <1>6, BitsAre DEF h, l, g, k
<1>7. CASE op = "BIT_OR"
  <2>1. BitOr(a, b) \div WORD = BitOr(h, g) /\ BitOr(a, b) % WORD = BitOr(l, k)
    BY <1>3, <1>4, <1>5, WordParts
  <2> QED BY <2>1, <1>7, BitsAre DEF h, l, g, k
<1> QED BY <1>6, <1>7 DEF BitTypes

(* A register is two words.                                                *)
LEMMA RegisterWords ==
  \A a \in Registers64 : a \div WORD \in Words /\ a % WORD \in Words
<1> SUFFICES ASSUME NEW a \in Registers64 PROVE a \div WORD \in Words /\ a % WORD \in Words OBVIOUS
<1> DEFINE h == a \div WORD
<1>1. a \in Nat /\ a < WORD * WORD BY WordFacts DEF Registers64
<1>2. h \in Nat /\ a % WORD \in Words /\ a = h * WORD + (a % WORD) BY <1>1, WordParts
<1>3. WORD \in Nat /\ a % WORD >= 0 /\ a % WORD \in Nat BY <1>2, WordFacts DEF Words
<1> HIDE DEF h
<1>4. h < WORD
  <2>1. SUFFICES ASSUME h >= WORD PROVE FALSE BY <1>2, <1>3
  <2>2. h * WORD >= WORD * WORD BY <1>2, <1>3, <2>1
  <2>3. h * WORD \in Nat /\ WORD * WORD \in Nat BY <1>2, <1>3
  <2> QED BY <1>1, <1>2, <1>3, <2>2, <2>3
<1>5. h \in Words BY <1>2, <1>4, WordFacts DEF Words
<1> QED BY <1>2, <1>5 DEF h

-----------------------------------------------------------------------------
(* The two sorts of parser.y: terms over the arguments in V and the names  *)
(* in I, and conditions, which compare terms.                              *)
TermSet(T, V, I) ==
  /\ T \subseteq Exprs
  /\ \A x \in T : \/ x.type = "NUMBER" /\ x.number \in Registers64
                  \/ x.type = "VAR" /\ x.var \in V
                  \/ x.type = "IDENTIFIER" /\ x.id \in I
                  \/ x.type \in BitTypes /\ x.left \in T /\ x.right \in T
Terms(V, I) == UNION {T \in SUBSET Exprs : TermSet(T, V, I)}

ComparisonTypes == {"GT", "LT", "GE", "LE", "EQ", "NEQ"}
ConditionSet(C, V, I) ==
  /\ C \subseteq Exprs
  /\ \A x \in C : \/ x.type \in {"TRUE", "FALSE"}
                  \/ x.type = "NOT" /\ x.child \in C
                  \/ x.type \in {"AND", "OR"} /\ x.left \in C /\ x.right \in C
                  \/ x.type \in ComparisonTypes /\ x.left \in Terms(V, I) /\ x.right \in Terms(V, I)
Conditions(V, I) == UNION {C \in SUBSET Exprs : ConditionSet(C, V, I)}

(* The operands of comparisons, level by level.                            *)
LEMMA TermsAre == ASSUME NEW V, NEW I PROVE TermSet(Terms(V, I), V, I)
<1>1. Terms(V, I) \subseteq Exprs BY DEF Terms
<1>2. ASSUME NEW x \in Terms(V, I)
      PROVE  \/ x.type = "NUMBER" /\ x.number \in Registers64
             \/ x.type = "VAR" /\ x.var \in V
             \/ x.type = "IDENTIFIER" /\ x.id \in I
             \/ x.type \in BitTypes /\ x.left \in Terms(V, I) /\ x.right \in Terms(V, I)
  <2>1. PICK T \in SUBSET Exprs : TermSet(T, V, I) /\ x \in T BY DEF Terms
  <2>2. T \subseteq Terms(V, I) BY <2>1 DEF Terms
  <2> QED BY <2>1, <2>2 DEF TermSet
<1> QED BY <1>1, <1>2 DEF TermSet

(* The conditions, level by level.                                         *)
LEMMA ConditionsAre == ASSUME NEW V, NEW I PROVE ConditionSet(Conditions(V, I), V, I)
<1> DEFINE P == Conditions(V, I)
<1>1. P \subseteq Exprs BY DEF Conditions
<1>2. ASSUME NEW x \in P
      PROVE  \/ x.type \in {"TRUE", "FALSE"}
             \/ x.type = "NOT" /\ x.child \in P
             \/ x.type \in {"AND", "OR"} /\ x.left \in P /\ x.right \in P
             \/ x.type \in ComparisonTypes /\ x.left \in Terms(V, I) /\ x.right \in Terms(V, I)
  <2>1. PICK C \in SUBSET Exprs : ConditionSet(C, V, I) /\ x \in C BY DEF Conditions
  <2>2. C \subseteq P BY <2>1 DEF Conditions
  <2> HIDE DEF P
  <2> QED BY <2>1, <2>2 DEF ConditionSet
<1> QED BY <1>1, <1>2 DEF ConditionSet

(* What is made of terms is a term, and what is made of conditions a       *)
(* condition.                                                              *)
LEMMA TermMade ==
  ASSUME NEW V, NEW I, NEW x \in Exprs,
         \/ x.type = "NUMBER" /\ x.number \in Registers64
         \/ x.type = "VAR" /\ x.var \in V
         \/ x.type = "IDENTIFIER" /\ x.id \in I
         \/ x.type \in BitTypes /\ x.left \in Terms(V, I) /\ x.right \in Terms(V, I)
  PROVE  x \in Terms(V, I)
<1> DEFINE T == Terms(V, I) \cup {x}
<1>1. T \subseteq Exprs BY TermsAre DEF TermSet
<1>2. TermSet(T, V, I)
  <2>1. TermSet(Terms(V, I), V, I) BY TermsAre
  <2> QED BY <1>1, <2>1 DEF TermSet
<1> HIDE DEF T
<1>3. T \subseteq Terms(V, I) BY <1>1, <1>2 DEF Terms
<1> QED BY <1>3 DEF T

(* A node of the right type over operands or conditions is a condition.    *)
LEMMA ConditionMade ==
  ASSUME NEW V, NEW I, NEW x \in Exprs,
         \/ x.type \in {"TRUE", "FALSE"}
         \/ x.type = "NOT" /\ x.child \in Conditions(V, I)
         \/ x.type \in {"AND", "OR"} /\ x.left \in Conditions(V, I) /\ x.right \in Conditions(V, I)
         \/ x.type \in ComparisonTypes /\ x.left \in Terms(V, I) /\ x.right \in Terms(V, I)
  PROVE  x \in Conditions(V, I)
<1> DEFINE C == Conditions(V, I) \cup {x}
<1>1. C \subseteq Exprs BY ConditionsAre DEF ConditionSet
<1>2. ConditionSet(C, V, I)
  <2>1. ConditionSet(Conditions(V, I), V, I) BY ConditionsAre
  <2> QED BY <1>1, <2>1 DEF ConditionSet
<1> HIDE DEF C
<1>3. C \subseteq Conditions(V, I) BY <1>1, <1>2 DEF Conditions
<1> QED BY <1>3 DEF C

(* Induction over terms and over conditions.                               *)
LEMMA TermInduction ==
  ASSUME NEW V, NEW I, NEW A,
         \A x \in Terms(V, I) :
           \/ x.type = "NUMBER" /\ x.number \in Registers64
           \/ x.type = "VAR" /\ x.var \in V
           \/ x.type = "IDENTIFIER" /\ x.id \in I
           \/ /\ x.type \in BitTypes /\ x.left \in Terms(V, I) /\ x.right \in Terms(V, I)
              /\ x.left \in A /\ x.right \in A
           => x \in A
  PROVE  Terms(V, I) \subseteq A
<1> DEFINE T == Terms(V, I)
           B == A \cup (Exprs \ T)
<1>1. T \subseteq Exprs /\ TermSet(T, V, I) BY TermsAre DEF TermSet
<1>2. ASSUME NEW x \in Exprs, Shape(x, B \cap Exprs) PROVE x \in B
  <2>1. CASE x \in T /\ x.type \in BitTypes
    <3>1. x.left \in T /\ x.right \in T BY <1>1, <2>1 DEF TermSet, BitTypes
    <3>2. x.type \in BinaryTypes BY <2>1 DEF BitTypes, BinaryTypes
    <3>3. x.left \in B /\ x.right \in B BY <1>2, <3>2 DEF Shape, BinaryTypes
    <3> QED BY <2>1, <3>1, <3>3
  <2>2. CASE x \in T /\ x.type \notin BitTypes BY <1>1, <2>2 DEF TermSet
  <2> QED BY <2>1, <2>2
<1> HIDE DEF B
<1>3. Exprs \subseteq B BY <1>2, TreeInduction
<1> QED BY <1>1, <1>3 DEF B

(* What holds of the leaves and of comparisons and is kept by the          *)
(* connectives holds of every condition.                                   *)
LEMMA ConditionInduction ==
  ASSUME NEW V, NEW I, NEW A,
         \A x \in Conditions(V, I) :
           \/ x.type \in {"TRUE", "FALSE"}
           \/ x.type = "NOT" /\ x.child \in Conditions(V, I) /\ x.child \in A
           \/ /\ x.type \in {"AND", "OR"} /\ x.left \in Conditions(V, I) /\ x.right \in Conditions(V, I)
              /\ x.left \in A /\ x.right \in A
           \/ x.type \in ComparisonTypes /\ x.left \in Terms(V, I) /\ x.right \in Terms(V, I)
           => x \in A
  PROVE  Conditions(V, I) \subseteq A
<1> DEFINE T == Conditions(V, I)
           B == A \cup (Exprs \ T)
<1>1. T \subseteq Exprs /\ ConditionSet(T, V, I) BY ConditionsAre DEF ConditionSet
<1>2. ASSUME NEW x \in Exprs, Shape(x, B \cap Exprs) PROVE x \in B
  <2>1. CASE x \in T /\ x.type \in {"AND", "OR"}
    <3>1. x.left \in T /\ x.right \in T BY <1>1, <2>1 DEF ConditionSet, ComparisonTypes
    <3>2. x.type \in BinaryTypes BY <2>1 DEF BinaryTypes
    <3>3. x.left \in B /\ x.right \in B BY <1>2, <3>2 DEF Shape, BinaryTypes
    <3> QED BY <2>1, <3>1, <3>3
  <2>2. CASE x \in T /\ x.type = "NOT"
    <3>1. x.child \in T BY <1>1, <2>2 DEF ConditionSet, ComparisonTypes
    <3>2. x.child \in B BY <1>2, <2>2 DEF Shape, BinaryTypes
    <3> QED BY <2>2, <3>1, <3>2
  <2>3. CASE x \in T /\ x.type \notin {"AND", "OR", "NOT"} BY <1>1, <2>3 DEF ConditionSet
  <2> QED BY <2>1, <2>2, <2>3
<1> HIDE DEF B
<1>3. Exprs \subseteq B BY <1>2, TreeInduction
<1> QED BY <1>1, <1>3 DEF B

(* Leaves are expressions.                                                 *)
LEMMA LeavesAre ==
  /\ True \in Exprs /\ False \in Exprs /\ \A n \in Nat : Number(n) \in Exprs
  /\ \A k, n \in Nat : Var(k, n) \in Exprs
<1>1. Leaf \subseteq Exprs
  <2>1. ExprsTo[0] \subseteq ExprsTo[MAX_EXPRESSION_DEPTH] BY ExprsUpTo, ExpressionConstants
  <2> QED BY <2>1, ExprsToEquations DEF Exprs
<1>2. True \in Leaf /\ False \in Leaf BY DEF Leaf, True, False
<1>3. \A n \in Nat : Number(n) \in Leaf BY DEF Leaf, Number
<1>4. \A k, n \in Nat : Var(k, n) \in Leaf BY DEF Leaf, Var
<1> QED BY <1>1, <1>2, <1>3, <1>4

-----------------------------------------------------------------------------
(* expr_simplify                                                           *)

(* What becomes of a binary node, whichever operand is looked at first.    *)
Folded(op, l, r, s)    == l.type = "NUMBER" /\ r.type = "NUMBER" /\ s = FoldNumbers(op, l.number, r.number)
Dominated(op, l, r, s) == op \in {"AND", "OR"} /\ Truth(op = "OR") \in {l, r} /\ s = Truth(op = "OR")
Receded(op, l, r, s)   == op \in {"AND", "OR"} /\ \/ r = Truth(op = "AND") /\ s = l
                                                  \/ l = Truth(op = "AND") /\ s = r
Clobbered(op, l, r, s) == /\ op \in BitTypes /\ s = Number(Clobber(op, UINT64_MAX))
                          /\ s \in {l, r}
Unmasked(op, l, r, s)  == op \in BitTypes /\ \/ r = Number(Identity(op, UINT64_MAX)) /\ s = l
                                             \/ l = Number(Identity(op, UINT64_MAX)) /\ s = r
SameArgument(op, l, r, s) == /\ op \notin {"AND", "OR"} \cup BitTypes
                             /\ l.type = "VAR" /\ r.type = "VAR" /\ l.var = r.var
                             /\ s = Truth(op \in {"GE", "LE", "EQ"})

(* The cases of the rewriting of a node whose children are simplified.     *)
LEMMA SimplifyBinaryIs ==
  ASSUME NEW op, NEW l, NEW r, NEW s, s = SimplifyBinary(op, l, r)
  PROVE  \/ Folded(op, l, r, s)
         \/ Dominated(op, l, r, s)
         \/ Receded(op, l, r, s)
         \/ Clobbered(op, l, r, s)
         \/ Unmasked(op, l, r, s)
         \/ SameArgument(op, l, r, s)
         \/ s = Binary(op, l, r)
<1> DEFINE swapped == Rank(l) < Rank(r)
           left  == IF swapped THEN r ELSE l
           right == IF swapped THEN l ELSE r
<1>1. (left = l /\ right = r) \/ (left = r /\ right = l) OBVIOUS
<1>2. s = CASE l.type = "NUMBER" /\ r.type = "NUMBER" -> FoldNumbers(op, l.number, r.number)
            [] op \in {"AND", "OR"} ->
                 IF Truth(op = "OR") \in {left, right} THEN Truth(op = "OR")
                 ELSE IF right = Truth(op = "AND") THEN left ELSE Binary(op, l, r)
            [] op \in {"BIT_AND", "BIT_OR"} ->
                 IF right = Number(IF op = "BIT_OR" THEN UINT64_MAX ELSE 0) THEN right
                 ELSE IF right = Number(IF op = "BIT_OR" THEN 0 ELSE UINT64_MAX) THEN left ELSE Binary(op, l, r)
            [] OTHER ->
                 IF left.type = "VAR" /\ right.type = "VAR" /\ left.var = right.var
                 THEN Truth(op \in {"GE", "LE", "EQ"}) ELSE Binary(op, l, r)
  BY DEF SimplifyBinary
<1> HIDE DEF left, right
<1>3. CASE l.type = "NUMBER" /\ r.type = "NUMBER"
  <2>1. s = FoldNumbers(op, l.number, r.number)
        \/ op \in {"AND", "OR"} \/ op \in {"BIT_AND", "BIT_OR"} BY <1>2, <1>3
  <2>2. Folded(op, l, r, s) \/ ~Folded(op, l, r, s) OBVIOUS
  <2> QED BY <1>1, <1>2, <1>3 DEF Folded, Dominated, Receded, Clobbered, Unmasked, SameArgument,
                                   BitTypes, Clobber, Identity
<1>4. CASE ~(l.type = "NUMBER" /\ r.type = "NUMBER") /\ op \in {"AND", "OR"}
  <2>1. s = IF Truth(op = "OR") \in {left, right} THEN Truth(op = "OR")
            ELSE IF right = Truth(op = "AND") THEN left ELSE Binary(op, l, r)
    BY <1>2, <1>4
  <2> QED BY <1>1, <1>4, <2>1 DEF Dominated, Receded
<1>5. CASE ~(l.type = "NUMBER" /\ r.type = "NUMBER") /\ op \in BitTypes
  <2>1. s = IF right = Number(Clobber(op, UINT64_MAX)) THEN right
            ELSE IF right = Number(Identity(op, UINT64_MAX)) THEN left ELSE Binary(op, l, r)
    BY <1>2, <1>5 DEF BitTypes, Clobber, Identity
  <2> QED BY <1>1, <1>5, <2>1 DEF Clobbered, Unmasked
<1>6. CASE ~(l.type = "NUMBER" /\ r.type = "NUMBER") /\ op \notin {"AND", "OR"} \cup BitTypes
  <2>1. s = IF left.type = "VAR" /\ right.type = "VAR" /\ left.var = right.var
            THEN Truth(op \in {"GE", "LE", "EQ"}) ELSE Binary(op, l, r)
    BY <1>2, <1>6 DEF BitTypes
  <2> QED BY <1>1, <1>6, <2>1 DEF SameArgument
<1> QED BY <1>3, <1>4, <1>5, <1>6

(* expr_simplify, one type of node at a time.                              *)
LEMMA SimplifyIs ==
  /\ \A x \in Exprs : x.type \in Leaves => Simplify(x) = x
  /\ \A x \in Exprs : x.type = "NOT" =>
       Simplify(x) = IF Simplify(x.child) \in {True, False} THEN Truth(Simplify(x.child) = False)
                     ELSE Unary(Simplify(x.child))
  /\ \A x \in Exprs : x.type \in BinaryTypes =>
       Simplify(x) = SimplifyBinary(x.type, Simplify(x.left), Simplify(x.right))
<1>1. ASSUME NEW x \in Exprs
      PROVE  /\ x.type \in Leaves => Simplify(x) = x
             /\ x.type = "NOT" =>
                  Simplify(x) = IF Simplify(x.child) \in {True, False}
                                THEN Truth(Simplify(x.child) = False) ELSE Unary(Simplify(x.child))
             /\ x.type \in BinaryTypes =>
                  Simplify(x) = SimplifyBinary(x.type, Simplify(x.left), Simplify(x.right))
  <2> DEFINE n == IF Simplify(x.child) \in {True, False} THEN Truth(Simplify(x.child) = False)
                  ELSE Unary(Simplify(x.child))
             b == SimplifyBinary(x.type, Simplify(x.left), Simplify(x.right))
  <2>1. Simplify(x) = CASE x.type \in Leaves -> x
                        [] x.type = "NOT" -> n
                        [] OTHER -> b
    BY SimplifyEach
  <2> HIDE DEF n, b
  <2>2. /\ x.type \in Leaves => Simplify(x) = x
        /\ x.type = "NOT" => Simplify(x) = n
        /\ x.type \in BinaryTypes => Simplify(x) = b
    BY <2>1 DEF Leaves, BinaryTypes
  <2> QED BY <2>2 DEF n, b
<1> QED BY <1>1

(* A simplified tree is not deeper than the tree.                          *)
LEMMA TreeMade ==
  ASSUME NEW n \in Nat
  PROVE  /\ \A b : Truth(b) \in ExprsTo[n + 1]
         /\ \A k \in Nat : Number(k) \in ExprsTo[n + 1]
         /\ \A c \in ExprsTo[n] : Unary(c) \in ExprsTo[n + 1]
         /\ \A op \in BinaryTypes : \A l, r \in ExprsTo[n] : Binary(op, l, r) \in ExprsTo[n + 1]
<1>1. ExprsTo[n + 1] = Over(ExprsTo[n]) BY ExprsToEquations
<1>2. True \in Leaf /\ False \in Leaf /\ \A k \in Nat : Number(k) \in Leaf
  BY DEF Leaf, True, False, Number
<1>3. \A b : Truth(b) \in Leaf BY <1>2 DEF Truth
<1>4. ASSUME NEW c \in ExprsTo[n] PROVE Unary(c) \in Over(ExprsTo[n]) BY DEF Over, Unary
<1>5. ASSUME NEW op \in BinaryTypes, NEW l \in ExprsTo[n], NEW r \in ExprsTo[n]
      PROVE  Binary(op, l, r) \in Over(ExprsTo[n])
  BY BinariesAre DEF Over, Binary
<1>6. Leaf \subseteq Over(ExprsTo[n]) BY DEF Over
<1> QED BY <1>1, <1>2, <1>3, <1>4, <1>5, <1>6

(* What an operation on two numbers is folded to.                          *)
LEMMA FoldIs ==
  \A op, a, b : /\ op \in BitTypes => FoldNumbers(op, a, b) = Number(Bits(op, a, b))
                /\ op \notin BitTypes => FoldNumbers(op, a, b) = Truth(Compares(op, a, b))
BY DEF FoldNumbers, BitTypes

(* Operations on bits give numbers.                                        *)
LEMMA BitsNat == \A op \in BitTypes : \A a, b \in Nat : Bits(op, a, b) \in Nat
<1>1. \A a, b \in Nat : BitAnd[a][b] \in Nat BY BitAndEquation
<1>2. \A a, b \in Nat : BitOr(a, b) \in Nat BY BitOrNat
<1>3. ASSUME NEW op \in BitTypes, NEW a \in Nat, NEW b \in Nat PROVE Bits(op, a, b) \in Nat
  <2>1. CASE op = "BIT_AND" BY <1>1, <2>1, BitsAre
  <2>2. CASE op = "BIT_OR" BY <1>2, <2>2, BitsAre
  <2> QED BY <2>1, <2>2 DEF BitTypes
<1> QED BY <1>3

(* Rewriting a node makes no tree deeper.                                  *)
LEMMA SimplifyBinaryFits ==
  ASSUME NEW n \in Nat, NEW op \in BinaryTypes, NEW l \in ExprsTo[n], NEW r \in ExprsTo[n]
  PROVE  SimplifyBinary(op, l, r) \in ExprsTo[n + 1]
<1> DEFINE s == SimplifyBinary(op, l, r)
<1>1. l \in ExprsTo[n + 1] /\ r \in ExprsTo[n + 1] BY ExprsGrow
<1>2. \/ Folded(op, l, r, s) \/ Dominated(op, l, r, s) \/ Receded(op, l, r, s)
      \/ Clobbered(op, l, r, s) \/ Unmasked(op, l, r, s) \/ SameArgument(op, l, r, s)
      \/ s = Binary(op, l, r)
  BY SimplifyBinaryIs
<1> HIDE DEF s
<1> SUFFICES s \in ExprsTo[n + 1] BY DEF s
<1>3. CASE Folded(op, l, r, s)
  <2>1. Shape(l, ExprsTo[n + 1]) /\ Shape(r, ExprsTo[n + 1])
    <3>1. ExprsTo[(n + 1) + 1] = Over(ExprsTo[n + 1]) BY ExprsToEquations
    <3>2. l \in ExprsTo[(n + 1) + 1] /\ r \in ExprsTo[(n + 1) + 1] BY <1>1, ExprsGrow
    <3> QED BY <3>1, <3>2, OverShape
  <2>2. l.number \in Nat /\ r.number \in Nat BY <1>3, <2>1 DEF Folded, Shape, BinaryTypes
  <2> QED BY <1>3, <2>2, FoldIs, BitsNat, TreeMade DEF Folded
<1>4. CASE Dominated(op, l, r, s) BY <1>4, TreeMade DEF Dominated
<1>5. CASE Receded(op, l, r, s) BY <1>1, <1>5 DEF Receded
<1>6. CASE Clobbered(op, l, r, s) BY <1>1, <1>6 DEF Clobbered
<1>7. CASE Unmasked(op, l, r, s) BY <1>1, <1>7 DEF Unmasked
<1>8. CASE SameArgument(op, l, r, s) BY <1>8, TreeMade DEF SameArgument
<1>9. CASE s = Binary(op, l, r) BY <1>9, TreeMade
<1> QED BY <1>2, <1>3, <1>4, <1>5, <1>6, <1>7, <1>8, <1>9

(* Simplifying makes no tree deeper.                                       *)
LEMMA SimplifyFits ==
  \A n \in Nat : \A x \in ExprsTo[n] \cap Exprs : Simplify(x) \in ExprsTo[n]
<1> DEFINE S == {n \in Nat : \A x \in ExprsTo[n] \cap Exprs : Simplify(x) \in ExprsTo[n]}
<1>1. 0 \in S
  <2>1. ASSUME NEW x \in ExprsTo[0], x \in Exprs PROVE Simplify(x) = x
    <3>1. Shape(x, {}) BY LeafShape, ExprsToEquations
    <3>2. x.type \in Leaves BY <3>1 DEF Shape, Leaves
    <3>3. x \in Exprs BY <2>1
    <3> QED BY <3>2, <3>3, SimplifyIs
  <2> QED BY <2>1
<1>2. ASSUME NEW n \in Nat, n \in S PROVE n + 1 \in S
  <2>1. ASSUME NEW x \in ExprsTo[n + 1], x \in Exprs PROVE Simplify(x) \in ExprsTo[n + 1]
    <3>1. Shape(x, ExprsTo[n]) BY OverShape, ExprsToEquations
    <3>2. Shape(x, Exprs) BY <2>1, Children
    <3>3. Shape(x, ExprsTo[n] \cap Exprs) BY <3>1, <3>2, ShapeBoth
    <3>4. CASE x.type \in Leaves
      <4>1. x \in Exprs BY <2>1
      <4>2. Simplify(x) = x BY <3>4, <4>1, SimplifyIs
      <4> QED BY <2>1, <4>2
    <3>5. CASE x.type = "NOT"
      <4>1. x.child \in ExprsTo[n] \cap Exprs BY <3>3, <3>5 DEF Shape, BinaryTypes
      <4>2. Simplify(x.child) \in ExprsTo[n] BY <4>1, <1>2
      <4>3. Simplify(x) = IF Simplify(x.child) \in {True, False} THEN Truth(Simplify(x.child) = False)
                          ELSE Unary(Simplify(x.child))
        BY <2>1, <3>5, SimplifyIs
      <4> QED BY <4>2, <4>3, TreeMade
    <3>6. CASE x.type \in BinaryTypes
      <4>1. x.left \in ExprsTo[n] \cap Exprs /\ x.right \in ExprsTo[n] \cap Exprs
        BY <3>3, <3>6 DEF Shape, BinaryTypes
      <4>2. Simplify(x.left) \in ExprsTo[n] /\ Simplify(x.right) \in ExprsTo[n] BY <4>1, <1>2
      <4>3. Simplify(x) = SimplifyBinary(x.type, Simplify(x.left), Simplify(x.right))
        BY <2>1, <3>6, SimplifyIs
      <4> QED BY <3>6, <4>2, <4>3, SimplifyBinaryFits
    <3> QED BY <2>1, <3>4, <3>5, <3>6, PartsOf
  <2> QED BY <2>1
<1> HIDE DEF S
<1>3. Nat \subseteq S BY <1>1, <1>2, CountUp
<1> QED BY <1>3 DEF S

(* A simplified tree is within the bound.                                  *)
LEMMA SimplifyExpr == \A x \in Exprs : Simplify(x) \in Exprs
BY SimplifyFits, ExpressionConstants DEF Exprs

-----------------------------------------------------------------------------
(* What a term means, one type of node at a time.                          *)
Given(regs, V) == \A v \in V : regs[v] \in Registers64

(* The cases of the value of an operand.                                   *)
LEMMA ValueIs ==
  ASSUME NEW regs
  PROVE  /\ \A x \in Exprs : x.type = "NUMBER" => Value(x, regs) = x.number
         /\ \A x \in Exprs : x.type = "VAR" => Value(x, regs) = regs[x.var]
         /\ \A x \in Exprs : x.type = "IDENTIFIER" => Value(x, regs) = 0
         /\ \A x \in Exprs : x.type \in BitTypes =>
              Value(x, regs) = Bits(x.type, Value(x.left, regs), Value(x.right, regs))
<1>1. ASSUME NEW x \in Exprs
      PROVE  /\ x.type = "NUMBER" => Value(x, regs) = x.number
             /\ x.type = "VAR" => Value(x, regs) = regs[x.var]
             /\ x.type = "IDENTIFIER" => Value(x, regs) = 0
             /\ x.type \in BitTypes =>
                  Value(x, regs) = Bits(x.type, Value(x.left, regs), Value(x.right, regs))
  <2> DEFINE b == Bits(x.type, Value(x.left, regs), Value(x.right, regs))
             v == regs[x.var]
  <2>1. Value(x, regs) = CASE x.type \in {"BIT_AND", "BIT_OR"} -> b
                           [] x.type = "NUMBER" -> x.number
                           [] x.type = "VAR" -> v
                           [] OTHER -> 0
    BY ValueOfEach
  <2> HIDE DEF b, v
  <2>2. /\ x.type = "NUMBER" => Value(x, regs) = x.number
        /\ x.type = "VAR" => Value(x, regs) = v
        /\ x.type = "IDENTIFIER" => Value(x, regs) = 0
        /\ x.type \in BitTypes => Value(x, regs) = b
    BY <2>1 DEF BitTypes
  <2> QED BY <2>2 DEF b, v
<1> QED BY <1>1

(* The cases of is_64bit.                                                  *)
LEMMA Is64bitIs ==
  /\ \A x \in Exprs : x.type = "NUMBER" => (Is64bit(x) <=> x.number > WORD_MAX)
  /\ \A x \in Exprs : x.type = "VAR" => (Is64bit(x) <=> x.size = 8)
  /\ \A x \in Exprs : x.type = "IDENTIFIER" => ~Is64bit(x)
  /\ \A x \in Exprs : x.type \in BinaryTypes => (Is64bit(x) <=> Is64bit(x.left) \/ Is64bit(x.right))
<1>1. ASSUME NEW x \in Exprs
      PROVE  /\ x.type = "NUMBER" => (Is64bit(x) = (x.number > WORD_MAX))
             /\ x.type = "VAR" => (Is64bit(x) = (x.size = 8))
             /\ x.type = "IDENTIFIER" => (Is64bit(x) = FALSE)
             /\ x.type \in BinaryTypes => (Is64bit(x) = (Is64bit(x.left) \/ Is64bit(x.right)))
             /\ x.type \in {"NOT", "TRUE", "FALSE"} => (Is64bit(x) = FALSE)
  <2> DEFINE n == x.number > WORD_MAX
             v == x.size = 8
             b == Is64bit(x.left) \/ Is64bit(x.right)
  <2>1. Is64bit(x) = CASE x.type \in Binaries -> b
                       [] x.type = "NUMBER" -> n
                       [] x.type = "VAR" -> v
                       [] OTHER -> FALSE
    BY Is64bitOf
  <2> HIDE DEF n, v, b
  <2>2. /\ x.type = "NUMBER" => Is64bit(x) = n
        /\ x.type = "VAR" => Is64bit(x) = v
        /\ x.type = "IDENTIFIER" => Is64bit(x) = FALSE
        /\ x.type \in BinaryTypes => Is64bit(x) = b
        /\ x.type \in {"NOT", "TRUE", "FALSE"} => (Is64bit(x) = FALSE)
    BY <2>1, BinariesAre DEF BinaryTypes
  <2> QED BY <2>2 DEF n, v, b
<1>2. ASSUME NEW x \in Exprs PROVE x.type = "NUMBER" => (Is64bit(x) <=> x.number > WORD_MAX)
  BY <1>1, Zenon
<1>3. ASSUME NEW x \in Exprs PROVE x.type = "VAR" => (Is64bit(x) <=> x.size = 8)
  BY <1>1, Zenon
<1>4. ASSUME NEW x \in Exprs PROVE x.type = "IDENTIFIER" => ~Is64bit(x)
  BY <1>1, Zenon
<1>5. ASSUME NEW x \in Exprs
      PROVE  x.type \in BinaryTypes => (Is64bit(x) <=> Is64bit(x.left) \/ Is64bit(x.right))
  BY <1>1, Zenon
<1> QED BY <1>2, <1>3, <1>4, <1>5

(* The cases of the short arguments in a tree.                             *)
LEMMA NarrowInIs ==
  /\ \A x \in Exprs : x.type \in {"NUMBER", "IDENTIFIER"} => NarrowIn(x) = {}
  /\ \A x \in Exprs : x.type = "VAR" => NarrowIn(x) = IF x.size = 8 THEN {} ELSE {x.var}
  /\ \A x \in Exprs : x.type \in BinaryTypes => NarrowIn(x) = NarrowIn(x.left) \cup NarrowIn(x.right)
<1>1. ASSUME NEW x \in Exprs
      PROVE  /\ x.type \in {"NUMBER", "IDENTIFIER"} => NarrowIn(x) = {}
             /\ x.type = "VAR" => NarrowIn(x) = IF x.size = 8 THEN {} ELSE {x.var}
             /\ x.type \in BinaryTypes => NarrowIn(x) = NarrowIn(x.left) \cup NarrowIn(x.right)
  <2> DEFINE b == NarrowIn(x.left) \cup NarrowIn(x.right)
  <2>1. NarrowIn(x) = CASE x.type \in Binaries -> b
                        [] x.type = "VAR" /\ x.size # 8 -> {x.var}
                        [] OTHER -> {}
    BY NarrowInEach
  <2> HIDE DEF b
  <2>2. CASE x.type \in BinaryTypes
    <3>1. NarrowIn(x) = b BY <2>1, <2>2, BinariesAre DEF BinaryTypes
    <3> QED BY <2>2, <3>1 DEF b, BinaryTypes
  <2>3. CASE x.type \notin BinaryTypes
    <3>1. NarrowIn(x) = IF x.type = "VAR" /\ x.size # 8 THEN {x.var} ELSE {}
      BY <2>1, <2>3, BinariesAre
    <3> QED BY <2>3, <3>1
  <2> QED BY <2>2, <2>3
<1> QED BY <1>1

(* A term has a value that fits a register, and, when no part of it is     *)
(* wider than a word and no short argument in it was passed more than a    *)
(* word, one that fits a word.                                             *)
LEMMA TermFits ==
  ASSUME NEW V, NEW I, NEW regs, Given(regs, V)
  PROVE  \A x \in Terms(V, I) :
           /\ Value(x, regs) \in Registers64
           /\ (~Is64bit(x) /\ \A v \in NarrowIn(x) : regs[v] <= WORD_MAX) => Value(x, regs) \in Words
<1> DEFINE Short(x) == ~Is64bit(x) /\ \A v \in NarrowIn(x) : regs[v] <= WORD_MAX
           A == {x \in Exprs : /\ Value(x, regs) \in Registers64
                               /\ Short(x) => Value(x, regs) \in Words}
<1>1. ASSUME NEW x \in Terms(V, I), x.type = "NUMBER", x.number \in Registers64 PROVE x \in A
  <2>1. x \in Exprs BY TermsAre DEF TermSet
  <2>2. Value(x, regs) = x.number /\ (Short(x) => x.number <= WORD_MAX)
    <3>1. Value(x, regs) = x.number BY <1>1, <2>1, ValueIs
    <3>2. Is64bit(x) <=> x.number > WORD_MAX BY <1>1, <2>1, Is64bitIs
    <3>3. x.number > WORD_MAX \/ x.number <= WORD_MAX BY <1>1, WordFacts DEF Registers64
    <3> QED BY <3>1, <3>2, <3>3
  <2> HIDE DEF Short
  <2> QED BY <1>1, <2>1, <2>2, WordFacts DEF Registers64, Words
<1>2. ASSUME NEW x \in Terms(V, I), x.type = "VAR", x.var \in V PROVE x \in A
  <2>1. x \in Exprs BY TermsAre DEF TermSet
  <2>2. Value(x, regs) = regs[x.var] /\ regs[x.var] \in Registers64
    BY <1>2, <2>1, ValueIs DEF Given
  <2>3. Short(x) => regs[x.var] <= WORD_MAX
    <3>1. Is64bit(x) <=> x.size = 8 BY <1>2, <2>1, Is64bitIs
    <3>2. NarrowIn(x) = IF x.size = 8 THEN {} ELSE {x.var} BY <1>2, <2>1, NarrowInIs
    <3> QED BY <3>1, <3>2
  <2> HIDE DEF Short
  <2> QED BY <2>1, <2>2, <2>3, WordFacts DEF Registers64, Words
<1>3. ASSUME NEW x \in Terms(V, I), x.type = "IDENTIFIER" PROVE x \in A
  <2>1. x \in Exprs BY TermsAre DEF TermSet
  <2>2. Value(x, regs) = 0 BY <1>3, <2>1, ValueIs
  <2> HIDE DEF Short
  <2> QED BY <2>1, <2>2, WordFacts DEF Registers64, Words
<1>4. ASSUME NEW x \in Terms(V, I), x.type \in BitTypes, x.left \in A, x.right \in A PROVE x \in A
  <2>1. x \in Exprs BY TermsAre DEF TermSet
  <2>2. Value(x, regs) = Bits(x.type, Value(x.left, regs), Value(x.right, regs))
    BY <1>4, <2>1, ValueIs
  <2>3. Short(x) => Short(x.left) /\ Short(x.right)
    <3>0. x.type \in BinaryTypes BY <1>4 DEF BitTypes, BinaryTypes
    <3>1. Is64bit(x) <=> Is64bit(x.left) \/ Is64bit(x.right) BY <3>0, <2>1, Is64bitIs
    <3>2. NarrowIn(x) = NarrowIn(x.left) \cup NarrowIn(x.right) BY <3>0, <2>1, NarrowInIs
    <3> QED BY <3>1, <3>2
  <2> HIDE DEF Short
  <2>4. Value(x, regs) \in Registers64 BY <1>4, <2>2, RegisterOps
  <2>5. Short(x) => Value(x, regs) \in Words BY <1>4, <2>2, <2>3, WordOps
  <2> QED BY <2>1, <2>4, <2>5
<1> HIDE DEF A
<1>5. Terms(V, I) \subseteq A BY <1>1, <1>2, <1>3, <1>4, TermInduction
<1> QED BY <1>5 DEF A

(* A simplified term is a term of the same value, and no wider one.        *)
TermKept(x, V, I, regs) ==
  /\ Simplify(x) \in Terms(V, I)
  /\ Value(Simplify(x), regs) = Value(x, regs)
  /\ Is64bit(Simplify(x)) => Is64bit(x)
  /\ NarrowIn(Simplify(x)) \subseteq NarrowIn(x)

(* What a constant is, as an operand.                                      *)
LEMMA NumberIs ==
  ASSUME NEW V, NEW I, NEW regs, NEW n \in Registers64
  PROVE  /\ Number(n) \in Terms(V, I) /\ Value(Number(n), regs) = n
         /\ Is64bit(Number(n)) <=> n > WORD_MAX
         /\ NarrowIn(Number(n)) = {}
<1>1. n \in Nat BY WordFacts DEF Registers64
<1>2. Number(n) \in Exprs /\ Number(n).type = "NUMBER" /\ Number(n).number = n
  BY <1>1, LeavesAre DEF Number
<1> HIDE DEF Number
<1>3. Number(n) \in Terms(V, I) BY <1>2, TermMade
<1>4. Value(Number(n), regs) = n BY <1>2, ValueIs
<1>5. Is64bit(Number(n)) <=> n > WORD_MAX BY <1>2, Is64bitIs
<1>6. NarrowIn(Number(n)) = {} BY <1>2, NarrowInIs
<1> QED BY <1>3, <1>4, <1>5, <1>6

(* Rewriting an operation on bits keeps its value and what it reads.       *)
LEMMA BitsNodeKept ==
  ASSUME NEW V, NEW I, NEW regs, Given(regs, V), NEW x \in Terms(V, I), x.type \in BitTypes,
         x.left \in Terms(V, I), x.right \in Terms(V, I),
         TermKept(x.left, V, I, regs), TermKept(x.right, V, I, regs)
  PROVE  TermKept(x, V, I, regs)
<1> DEFINE op == x.type
           l == Simplify(x.left)
           r == Simplify(x.right)
           a == Value(x.left, regs)
           b == Value(x.right, regs)
           s == SimplifyBinary(op, l, r)
           Fine(y) == /\ y \in Terms(V, I)
                      /\ Value(y, regs) = Bits(op, a, b)
                      /\ Is64bit(y) => Is64bit(l) \/ Is64bit(r)
                      /\ NarrowIn(y) \subseteq NarrowIn(l) \cup NarrowIn(r)
<1>1. x \in Exprs /\ op \in BinaryTypes BY TermsAre DEF TermSet, BitTypes, BinaryTypes
<1>2. Simplify(x) = s BY <1>1, SimplifyIs
<1>3. Value(x, regs) = Bits(op, a, b) BY <1>1, ValueIs
<1>4. /\ l \in Terms(V, I) /\ r \in Terms(V, I)
      /\ Value(l, regs) = a /\ Value(r, regs) = b
      /\ Is64bit(l) \/ Is64bit(r) => Is64bit(x)
      /\ NarrowIn(l) \cup NarrowIn(r) \subseteq NarrowIn(x)
  <2>1. Is64bit(x) <=> Is64bit(x.left) \/ Is64bit(x.right) BY <1>1, Is64bitIs
  <2>2. NarrowIn(x) = NarrowIn(x.left) \cup NarrowIn(x.right) BY <1>1, NarrowInIs
  <2> QED BY <2>1, <2>2 DEF TermKept
<1>5. a \in Registers64 /\ b \in Registers64 /\ a \in Nat /\ b \in Nat
  <2>1. a \in Registers64 /\ b \in Registers64 BY TermFits
  <2> QED BY <2>1, WordFacts DEF Registers64
<1>6. l \in Exprs /\ r \in Exprs BY <1>4, TermsAre DEF TermSet
<1>7. Bits(op, a, b) \in Registers64 /\ Bits(op, a, b) = Bits(op, b, a)
  BY <1>5, RegisterOps, BitsCommute
<1>8. s \in Exprs
  <2>1. Simplify(x) \in Exprs BY <1>1, SimplifyExpr
  <2> QED BY <1>2, <2>1
<1>9. \/ Folded(op, l, r, s) \/ Dominated(op, l, r, s) \/ Receded(op, l, r, s)
      \/ Clobbered(op, l, r, s) \/ Unmasked(op, l, r, s) \/ SameArgument(op, l, r, s)
      \/ s = Binary(op, l, r)
  BY SimplifyBinaryIs
<1>10. op \in BitTypes OBVIOUS
<1> SUFFICES Fine(s) BY <1>2, <1>3, <1>4 DEF TermKept
<1> HIDE DEF op, l, r, a, b, s
<1>11. ASSUME Folded(op, l, r, s) PROVE Fine(s)
  <2>1. l.type = "NUMBER" /\ r.type = "NUMBER" /\ s = Number(Bits(op, l.number, r.number))
    BY <1>10, <1>11, FoldIs DEF Folded
  <2>2. a = l.number /\ b = r.number BY <1>4, <1>6, <2>1, ValueIs
  <2>3. s = Number(Bits(op, a, b)) BY <2>1, <2>2
  <2> DEFINE m == Bits(op, a, b)
  <2>4. m \in Registers64 BY <1>7
  <2>5. m > WORD_MAX => a > WORD_MAX \/ b > WORD_MAX
    <3>1. a \in Words /\ b \in Words => m \in Words BY <1>10, WordOps
    <3> HIDE DEF m
    <3> QED BY <1>5, <2>4, <3>1, WordFacts DEF Words, Registers64
  <2>6. (Is64bit(l) <=> a > WORD_MAX) /\ (Is64bit(r) <=> b > WORD_MAX)
    BY <1>6, <2>1, <2>2, Is64bitIs
  <2> HIDE DEF m
  <2>7. /\ Number(m) \in Terms(V, I) /\ Value(Number(m), regs) = m
        /\ Is64bit(Number(m)) <=> m > WORD_MAX
        /\ NarrowIn(Number(m)) = {}
    BY <2>4, NumberIs
  <2> QED BY <2>3, <2>5, <2>6, <2>7 DEF m
<1>12. ASSUME Clobbered(op, l, r, s) PROVE Fine(s)
  <2> DEFINE c == Clobber(op, UINT64_MAX)
  <2>1. s = Number(c) /\ s \in {l, r} BY <1>12 DEF Clobbered
  <2>2. c \in Registers64 BY WordFacts DEF Clobber, Registers64
  <2>3. Value(Number(c), regs) = c BY <2>2, NumberIs
  <2>4. \A v \in Registers64 : Bits(op, v, c) = c BY <1>10, RegisterOps
  <2> HIDE DEF c
  <2>5. CASE s = l
    <3>1. a = c BY <1>4, <2>1, <2>3, <2>5
    <3>2. Bits(op, b, a) = c BY <1>5, <2>4, <3>1
    <3> QED BY <1>4, <1>7, <2>5, <3>1, <3>2
  <2>6. CASE s = r
    <3>1. b = c BY <1>4, <2>1, <2>3, <2>6
    <3>2. Bits(op, a, b) = c BY <1>5, <2>4, <3>1
    <3> QED BY <1>4, <2>6, <3>1, <3>2
  <2> QED BY <2>1, <2>5, <2>6
<1>13. ASSUME Unmasked(op, l, r, s) PROVE Fine(s)
  <2> DEFINE c == Identity(op, UINT64_MAX)
  <2>2. c \in Registers64 BY WordFacts DEF Identity, Registers64
  <2>3. Value(Number(c), regs) = c BY <2>2, NumberIs
  <2>4. \A v \in Registers64 : Bits(op, v, c) = v BY <1>10, RegisterOps
  <2>5. (r = Number(c) /\ s = l) \/ (l = Number(c) /\ s = r) BY <1>13 DEF Unmasked
  <2> HIDE DEF c
  <2>6. CASE r = Number(c) /\ s = l
    <3>1. b = c BY <1>4, <2>3, <2>6
    <3>2. Bits(op, a, b) = a BY <1>5, <2>4, <3>1
    <3> QED BY <1>4, <2>6, <3>2
  <2>7. CASE l = Number(c) /\ s = r
    <3>1. a = c BY <1>4, <2>3, <2>7
    <3>2. Bits(op, b, a) = b BY <1>5, <2>4, <3>1
    <3> QED BY <1>4, <1>7, <2>7, <3>2
  <2> QED BY <2>5, <2>6, <2>7
<1>14. ASSUME s = Binary(op, l, r) PROVE Fine(s)
  <2>1. s.type = op /\ s.left = l /\ s.right = r BY <1>14 DEF Binary
  <2>2. op \in BinaryTypes BY <1>10 DEF BitTypes, BinaryTypes
  <2>3. s \in Terms(V, I) BY <1>4, <1>8, <1>10, <2>1, TermMade
  <2>4. Value(s, regs) = Bits(op, a, b) BY <1>4, <1>8, <1>10, <2>1, ValueIs
  <2>5. Is64bit(s) <=> Is64bit(l) \/ Is64bit(r) BY <1>8, <2>1, <2>2, Is64bitIs
  <2>6. NarrowIn(s) = NarrowIn(l) \cup NarrowIn(r) BY <1>8, <2>1, <2>2, NarrowInIs
  <2> QED BY <2>3, <2>4, <2>5, <2>6
<1>15. ~Dominated(op, l, r, s) /\ ~Receded(op, l, r, s) /\ ~SameArgument(op, l, r, s)
  BY <1>10 DEF Dominated, Receded, SameArgument, BitTypes
<1> HIDE DEF Fine
<1> QED BY <1>9, <1>11, <1>12, <1>13, <1>14, <1>15

(* Simplifying an operand keeps its value and what it reads.               *)
LEMMA TermSimplified ==
  ASSUME NEW V, NEW I, NEW regs, Given(regs, V)
  PROVE  \A x \in Terms(V, I) : TermKept(x, V, I, regs)
<1> DEFINE A == {x \in Terms(V, I) : TermKept(x, V, I, regs)}
<1>1. ASSUME NEW x \in Terms(V, I), x.type \in {"NUMBER", "VAR", "IDENTIFIER"} PROVE x \in A
  <2>1. x \in Exprs /\ x.type \in Leaves BY <1>1, TermsAre DEF TermSet, Leaves
  <2>2. Simplify(x) = x BY <2>1, SimplifyIs
  <2> QED BY <2>2 DEF TermKept
<1>2. ASSUME NEW x \in Terms(V, I), x.type \in BitTypes, x.left \in Terms(V, I), x.right \in Terms(V, I),
             x.left \in A, x.right \in A
      PROVE  x \in A
  BY <1>2, BitsNodeKept
<1> HIDE DEF A
<1>3. Terms(V, I) \subseteq A BY <1>1, <1>2, TermInduction
<1> QED BY <1>3 DEF A

-----------------------------------------------------------------------------
(* What a condition means, one type of node at a time.                     *)
LEMMA HoldsIs ==
  ASSUME NEW regs
  PROVE  /\ \A x \in Exprs : x.type = "AND" => (Holds(x, regs) <=> Holds(x.left, regs) /\ Holds(x.right, regs))
         /\ \A x \in Exprs : x.type = "OR"  => (Holds(x, regs) <=> Holds(x.left, regs) \/ Holds(x.right, regs))
         /\ \A x \in Exprs : x.type = "NOT" => (Holds(x, regs) <=> ~Holds(x.child, regs))
         /\ \A x \in Exprs : x.type \in {"TRUE", "FALSE"} => (Holds(x, regs) <=> x = True)
         /\ \A x \in Exprs : x.type \in ComparisonTypes =>
              (Holds(x, regs) <=> Compares(x.type, Value(x.left, regs) % Width(x),
                                           Value(x.right, regs) % Width(x)))
<1>1. ASSUME NEW x \in Exprs
      PROVE  /\ x.type = "AND" => Holds(x, regs) = (Holds(x.left, regs) /\ Holds(x.right, regs))
             /\ x.type = "OR"  => Holds(x, regs) = (Holds(x.left, regs) \/ Holds(x.right, regs))
             /\ x.type = "NOT" => Holds(x, regs) = (~Holds(x.child, regs))
             /\ x.type \in {"TRUE", "FALSE"} => Holds(x, regs) = (x = True)
             /\ x.type \in ComparisonTypes =>
                  Holds(x, regs) = Compares(x.type, Value(x.left, regs) % Width(x),
                                            Value(x.right, regs) % Width(x))
  <2> DEFINE a == Holds(x.left, regs) /\ Holds(x.right, regs)
             o == Holds(x.left, regs) \/ Holds(x.right, regs)
             n == ~Holds(x.child, regs)
             t == x = True
             c == Compares(x.type, Value(x.left, regs) % Width(x), Value(x.right, regs) % Width(x))
  <2>1. Holds(x, regs) = CASE x.type = "AND" -> a
                           [] x.type = "OR" -> o
                           [] x.type = "NOT" -> n
                           [] x.type \in {"TRUE", "FALSE"} -> t
                           [] OTHER -> c
    BY HoldsEach
  <2> HIDE DEF a, o, n, t, c
  <2>2. /\ x.type = "AND" => Holds(x, regs) = a
        /\ x.type = "OR"  => Holds(x, regs) = o
        /\ x.type = "NOT" => Holds(x, regs) = n
        /\ x.type \in {"TRUE", "FALSE"} => Holds(x, regs) = t
        /\ x.type \in ComparisonTypes => Holds(x, regs) = c
    BY <2>1 DEF ComparisonTypes
  <2> QED BY <2>2 DEF a, o, n, t, c
<1>2. ASSUME NEW x \in Exprs
      PROVE  x.type = "AND" => (Holds(x, regs) <=> Holds(x.left, regs) /\ Holds(x.right, regs))
  BY <1>1, Zenon
<1>3. ASSUME NEW x \in Exprs
      PROVE  x.type = "OR" => (Holds(x, regs) <=> Holds(x.left, regs) \/ Holds(x.right, regs))
  BY <1>1, Zenon
<1>4. ASSUME NEW x \in Exprs PROVE x.type = "NOT" => (Holds(x, regs) <=> ~Holds(x.child, regs))
  BY <1>1, Zenon
<1>5. ASSUME NEW x \in Exprs PROVE x.type \in {"TRUE", "FALSE"} => (Holds(x, regs) <=> x = True)
  BY <1>1, Zenon
<1>6. ASSUME NEW x \in Exprs
      PROVE  x.type \in ComparisonTypes =>
               (Holds(x, regs) <=> Compares(x.type, Value(x.left, regs) % Width(x),
                                            Value(x.right, regs) % Width(x)))
  BY <1>1, Zenon
<1> QED BY <1>2, <1>3, <1>4, <1>5, <1>6

(* The cases of the short arguments read whole.                            *)
LEMMA ReadWholeIs ==
  /\ \A x \in Exprs : x.type \in {"AND", "OR"} => ReadWhole(x) = ReadWhole(x.left) \cup ReadWhole(x.right)
  /\ \A x \in Exprs : x.type = "NOT" => ReadWhole(x) = ReadWhole(x.child)
  /\ \A x \in Exprs : x.type \in {"TRUE", "FALSE"} => ReadWhole(x) = {}
  /\ \A x \in Exprs : x.type \in ComparisonTypes => ReadWhole(x) = IF Is64bit(x) THEN NarrowIn(x) ELSE {}
<1>1. ASSUME NEW x \in Exprs
      PROVE  /\ x.type \in {"AND", "OR"} => ReadWhole(x) = ReadWhole(x.left) \cup ReadWhole(x.right)
             /\ x.type = "NOT" => ReadWhole(x) = ReadWhole(x.child)
             /\ x.type \in {"TRUE", "FALSE"} => ReadWhole(x) = {}
             /\ x.type \in ComparisonTypes => ReadWhole(x) = IF Is64bit(x) THEN NarrowIn(x) ELSE {}
  <2> DEFINE b == ReadWhole(x.left) \cup ReadWhole(x.right)
             n == ReadWhole(x.child)
             w == NarrowIn(x)
  <2>1. ReadWhole(x) = CASE x.type \in {"AND", "OR"} -> b
                         [] x.type = "NOT" -> n
                         [] x.type \in Binaries \ {"AND", "OR"} /\ Is64bit(x) -> w
                         [] OTHER -> {}
    BY ReadWholeEach
  <2> HIDE DEF b, n, w
  <2>2. x.type \in {"AND", "OR"} => ReadWhole(x) = b BY <2>1
  <2>3. x.type = "NOT" => ReadWhole(x) = n BY <2>1, BinariesAre DEF BinaryTypes
  <2>4. x.type \in {"TRUE", "FALSE"} => ReadWhole(x) = {} BY <2>1, BinariesAre DEF BinaryTypes
  <2>5. CASE x.type \in ComparisonTypes
    <3>1. ReadWhole(x) = IF Is64bit(x) THEN w ELSE {}
      BY <2>1, <2>5, BinariesAre DEF BinaryTypes, ComparisonTypes
    <3> QED BY <2>5, <3>1 DEF w, ComparisonTypes
  <2> QED BY <2>2, <2>3, <2>4, <2>5 DEF b, n
<1> QED BY <1>1

(* True and false.                                                         *)
LEMMA TruthIs ==
  ASSUME NEW V, NEW I, NEW regs, NEW b \in BOOLEAN
  PROVE  /\ Truth(b) \in Conditions(V, I)
         /\ Holds(Truth(b), regs) <=> b
         /\ ReadWhole(Truth(b)) = {}
<1>1. Truth(b) \in Exprs /\ Truth(b).type \in {"TRUE", "FALSE"} /\ (Truth(b) = True <=> b)
  BY LeavesAre DEF Truth, True, False
<1>2. Truth(b) \in Conditions(V, I) BY <1>1, ConditionMade
<1>3. Holds(Truth(b), regs) <=> b BY <1>1, HoldsIs
<1>4. ReadWhole(Truth(b)) = {} BY <1>1, ReadWholeIs
<1> QED BY <1>2, <1>3, <1>4

(* What is less than the modulus is its own remainder.                     *)
LEMMA Remainders ==
  /\ \A a \in Words : a % WORD = a
  /\ \A a \in Registers64 : a % (UINT64_MAX + 1) = a
<1>1. \A m \in Nat : \A a \in 0..(m - 1) : a % m = a OBVIOUS
<1>2. Words = 0..(WORD - 1) BY WordFacts DEF Words
<1>3. Registers64 = 0..((UINT64_MAX + 1) - 1) /\ UINT64_MAX + 1 \in Nat BY WordFacts DEF Registers64
<1> QED BY <1>1, <1>2, <1>3, WordFacts

(* The comparisons, by name.                                               *)
LEMMA ComparesAre ==
  /\ \A op \in ComparisonTypes : \A a, b \in Int : Compares(op, a, b) \in BOOLEAN
  /\ \A op \in ComparisonTypes : \A a \in Int : Compares(op, a, a) <=> op \in {"GE", "LE", "EQ"}
BY DEF ComparisonTypes, Compares

-----------------------------------------------------------------------------
(* A simplified condition is a condition that holds for the same registers *)
(* and reads no other short arguments whole.                               *)
ConditionKept(x, V, I, regs) ==
  /\ Simplify(x) \in Conditions(V, I)
  /\ Proper(x, regs) => (Holds(Simplify(x), regs) <=> Holds(x, regs))
  /\ ReadWhole(Simplify(x)) \subseteq ReadWhole(x)

(* A comparison of words has operands that fit a word, and one of whole    *)
(* registers looks at all of them.                                         *)
Seen(x, regs) == /\ Value(x.left, regs) % Width(x) = Value(x.left, regs)
                 /\ Value(x.right, regs) % Width(x) = Value(x.right, regs)

(* A proper comparison sees the whole values of its operands, at either    *)
(* width.                                                                  *)
LEMMA NumbersSeen ==
  ASSUME NEW V, NEW I, NEW regs, Given(regs, V), NEW x \in Exprs, x.type \in ComparisonTypes,
         x.left \in Terms(V, I), x.right \in Terms(V, I),
         Is64bit(x) \/ \A v \in NarrowIn(x) : regs[v] <= WORD_MAX
  PROVE  Seen(x, regs)
<1> DEFINE a == Value(x.left, regs)
           b == Value(x.right, regs)
<1>1. x.type \in BinaryTypes BY DEF ComparisonTypes, BinaryTypes
<1>2. a \in Registers64 /\ b \in Registers64 BY TermFits
<1>3. CASE Is64bit(x)
  <2>1. Width(x) = UINT64_MAX + 1 BY <1>3 DEF Width
  <2> HIDE DEF a, b
  <2>2. a % Width(x) = a /\ b % Width(x) = b BY <1>2, <2>1, Remainders
  <2> QED BY <2>2 DEF Seen, a, b
<1>4. CASE ~Is64bit(x)
  <2>1. Width(x) = WORD BY <1>4 DEF Width
  <2>2. ~Is64bit(x.left) /\ ~Is64bit(x.right) BY <1>1, <1>4, Is64bitIs
  <2>3. NarrowIn(x) = NarrowIn(x.left) \cup NarrowIn(x.right) BY <1>1, NarrowInIs
  <2>4. a \in Words /\ b \in Words BY <1>4, <2>2, <2>3, TermFits
  <2> HIDE DEF a, b
  <2>5. a % Width(x) = a /\ b % Width(x) = b BY <2>1, <2>4, Remainders
  <2> QED BY <2>5 DEF Seen, a, b
<1> QED BY <1>3, <1>4

(* Comparisons of numbers that need no more than the comparison looks at.  *)
LEMMA WordsSeen ==
  ASSUME NEW V, NEW I, NEW regs, NEW l \in Terms(V, I), NEW x, Given(regs, V),
         l.type = "NUMBER", Is64bit(l) => Is64bit(x)
  PROVE  l.number % Width(x) = l.number
<1>1. l \in Exprs BY TermsAre DEF TermSet
<1>2. l.number \in Registers64
  <2>1. Value(l, regs) = l.number BY <1>1, ValueIs
  <2>2. Value(l, regs) \in Registers64 BY TermFits
  <2> QED BY <2>1, <2>2
<1>3. CASE Is64bit(x) BY <1>2, <1>3, Remainders DEF Width
<1>4. CASE ~Is64bit(x)
  <2>1. ~(l.number > WORD_MAX) BY <1>1, <1>4, Is64bitIs
  <2>2. l.number \in Words BY <1>2, <2>1, WordFacts DEF Registers64, Words
  <2> QED BY <1>4, <2>2, Remainders DEF Width
<1> QED BY <1>3, <1>4

(* Rewriting a comparison keeps whether it holds.                          *)
LEMMA ComparisonKept ==
  ASSUME NEW V, NEW I, NEW regs, Given(regs, V), NEW x \in Conditions(V, I),
         x.type \in ComparisonTypes, x.left \in Terms(V, I), x.right \in Terms(V, I)
  PROVE  ConditionKept(x, V, I, regs)
<1> DEFINE op == x.type
           l == Simplify(x.left)
           r == Simplify(x.right)
           a == Value(x.left, regs)
           b == Value(x.right, regs)
           s == SimplifyBinary(op, l, r)
           Same(y) == /\ y \in Conditions(V, I)
                      /\ Proper(x, regs) => (Holds(y, regs) <=> Compares(op, a % Width(x), b % Width(x)))
                      /\ ReadWhole(y) \subseteq ReadWhole(x)
<1>1. x \in Exprs /\ op \in BinaryTypes
  BY ConditionsAre DEF ConditionSet, ComparisonTypes, BinaryTypes
<1>2. Simplify(x) = s BY <1>1, SimplifyIs
<1>3. Holds(x, regs) <=> Compares(op, a % Width(x), b % Width(x)) BY <1>1, HoldsIs
<1>4. /\ l \in Terms(V, I) /\ r \in Terms(V, I)
      /\ Value(l, regs) = a /\ Value(r, regs) = b
      /\ Is64bit(l) \/ Is64bit(r) => Is64bit(x)
      /\ NarrowIn(l) \cup NarrowIn(r) \subseteq NarrowIn(x)
  <2>1. Is64bit(x) <=> Is64bit(x.left) \/ Is64bit(x.right) BY <1>1, Is64bitIs
  <2>2. NarrowIn(x) = NarrowIn(x.left) \cup NarrowIn(x.right) BY <1>1, NarrowInIs
  <2>3. TermKept(x.left, V, I, regs) /\ TermKept(x.right, V, I, regs) BY TermSimplified
  <2> QED BY <2>1, <2>2, <2>3 DEF TermKept
<1>5. a \in Registers64 /\ b \in Registers64 BY TermFits
<1>6. l \in Exprs /\ r \in Exprs BY <1>4, TermsAre DEF TermSet
<1>7. ReadWhole(x) = IF Is64bit(x) THEN NarrowIn(x) ELSE {} BY <1>1, ReadWholeIs
<1>8. s \in Exprs
  <2>1. Simplify(x) \in Exprs BY <1>1, SimplifyExpr
  <2> QED BY <1>2, <2>1
<1>9. \/ Folded(op, l, r, s) \/ Dominated(op, l, r, s) \/ Receded(op, l, r, s)
      \/ Clobbered(op, l, r, s) \/ Unmasked(op, l, r, s) \/ SameArgument(op, l, r, s)
      \/ s = Binary(op, l, r)
  BY SimplifyBinaryIs
<1>10. op \in ComparisonTypes /\ op \notin BitTypes BY DEF ComparisonTypes, BitTypes
<1>11. a % Width(x) \in Int /\ b % Width(x) \in Int
  <2>1. Width(x) \in Nat /\ Width(x) > 0 BY WordFacts DEF Width
  <2>2. \A k \in Registers64 : k \in Int BY WordFacts DEF Registers64
  <2>3. \A k \in Int, m \in Nat : m > 0 => k % m \in Int OBVIOUS
  <2> QED BY <1>5, <2>1, <2>2, <2>3
<1>12. Seen(x, regs) \/ ~Is64bit(x) BY <1>1, NumbersSeen
<1> SUFFICES Same(s) BY <1>2, <1>3 DEF ConditionKept
<1> HIDE DEF op, l, r, s
<1>13. ASSUME Folded(op, l, r, s) PROVE Same(s)
  <2>1. l.type = "NUMBER" /\ r.type = "NUMBER" /\ s = Truth(Compares(op, l.number, r.number))
    BY <1>10, <1>13, FoldIs DEF Folded
  <2>2. a = l.number /\ b = r.number BY <1>4, <1>6, <2>1, ValueIs
  <2>3. a % Width(x) = a /\ b % Width(x) = b BY <1>4, <2>1, <2>2, WordsSeen
  <2> DEFINE c == Compares(op, a, b)
  <2> HIDE DEF a, b
  <2>4. c \in BOOLEAN BY <1>10, <1>11, <2>3, ComparesAre
  <2>5. s = Truth(c) BY <2>1, <2>2
  <2> HIDE DEF c
  <2>6. s \in Conditions(V, I) /\ (Holds(s, regs) <=> c) /\ ReadWhole(s) = {}
    BY <2>4, <2>5, TruthIs
  <2> QED BY <2>3, <2>6 DEF c
<1>14. ASSUME SameArgument(op, l, r, s) PROVE Same(s)
  <2>1. l.type = "VAR" /\ r.type = "VAR" /\ l.var = r.var /\ s = Truth(op \in {"GE", "LE", "EQ"})
    BY <1>14 DEF SameArgument
  <2>2. a = regs[l.var] /\ b = regs[l.var] BY <1>4, <1>6, <2>1, ValueIs
  <2>3. a = b BY <2>2
  <2> DEFINE c == op \in {"GE", "LE", "EQ"}
             k == a % Width(x)
  <2>4. Compares(op, k, k) <=> c
    <3> HIDE DEF k
    <3>1. k \in Int BY <1>11 DEF k
    <3> QED BY <1>10, <3>1, ComparesAre
  <2>5. s = Truth(c) /\ c \in BOOLEAN BY <2>1
  <2> HIDE DEF c
  <2>6. s \in Conditions(V, I) /\ (Holds(s, regs) <=> c) /\ ReadWhole(s) = {} BY <2>5, TruthIs
  <2> HIDE DEF a, b
  <2> QED BY <2>3, <2>4, <2>6
<1>15. ASSUME s = Binary(op, l, r) PROVE Same(s)
  <2>1. s.type = op /\ s.left = l /\ s.right = r BY <1>15 DEF Binary
  <2>2. op \in BinaryTypes BY <1>10 DEF ComparisonTypes, BinaryTypes
  <2>3. s \in Conditions(V, I) BY <1>4, <1>8, <1>10, <2>1, ConditionMade
  <2>4. Is64bit(s) <=> Is64bit(l) \/ Is64bit(r) BY <1>8, <2>1, <2>2, Is64bitIs
  <2>5. NarrowIn(s) = NarrowIn(l) \cup NarrowIn(r) BY <1>8, <2>1, <2>2, NarrowInIs
  <2>6. ReadWhole(s) = IF Is64bit(s) THEN NarrowIn(s) ELSE {} BY <1>8, <1>10, <2>1, ReadWholeIs
  <2>7. ReadWhole(s) \subseteq ReadWhole(x) BY <1>4, <1>7, <2>4, <2>5, <2>6
  <2>8. Holds(s, regs) <=> Compares(op, a % Width(s), b % Width(s))
    <3>1. Holds(s, regs) <=> Compares(s.type, Value(s.left, regs) % Width(s), Value(s.right, regs) % Width(s))
      BY <1>8, <1>10, <2>1, HoldsIs
    <3>2. Value(s.left, regs) = a /\ Value(s.right, regs) = b BY <1>4, <2>1
    <3> QED BY <2>1, <3>1, <3>2
  <2>9. CASE Width(s) = Width(x) BY <2>3, <2>7, <2>8, <2>9
  <2>10. CASE Width(s) # Width(x)
    <3>1. Is64bit(x) /\ ~Is64bit(s) BY <1>4, <2>4, <2>10 DEF Width
    <3>2. Seen(x, regs) BY <1>12, <3>1
    <3>3. ASSUME Proper(x, regs) PROVE Seen(s, regs)
      <4>1. \A v \in NarrowIn(s) : regs[v] <= WORD_MAX BY <1>4, <1>7, <2>5, <3>1, <3>3 DEF Proper
      <4> QED BY <1>4, <1>8, <1>10, <2>1, <4>1, NumbersSeen
    <3>4. a % Width(x) = a /\ b % Width(x) = b BY <3>2 DEF Seen
    <3>5. Proper(x, regs) => a % Width(s) = a /\ b % Width(s) = b BY <1>4, <2>1, <3>3 DEF Seen
    <3> HIDE DEF a, b
    <3> QED BY <2>3, <2>7, <2>8, <3>4, <3>5
  <2> QED BY <2>9, <2>10
<1>16. ~Dominated(op, l, r, s) /\ ~Receded(op, l, r, s)
       /\ ~Clobbered(op, l, r, s) /\ ~Unmasked(op, l, r, s)
  BY <1>10 DEF Dominated, Receded, Clobbered, Unmasked, ComparisonTypes, BitTypes
<1> HIDE DEF Same
<1> QED BY <1>9, <1>13, <1>14, <1>15, <1>16

(* Rewriting AND and OR keeps whether they hold.                           *)
LEMMA ConnectiveKept ==
  ASSUME NEW V, NEW I, NEW regs, Given(regs, V), NEW x \in Conditions(V, I), x.type \in {"AND", "OR"},
         x.left \in Conditions(V, I), x.right \in Conditions(V, I),
         ConditionKept(x.left, V, I, regs), ConditionKept(x.right, V, I, regs)
  PROVE  ConditionKept(x, V, I, regs)
<1> DEFINE op == x.type
           l == Simplify(x.left)
           r == Simplify(x.right)
           s == SimplifyBinary(op, l, r)
           Both(p, q) == IF op = "AND" THEN p /\ q ELSE p \/ q
           Same(y) == /\ y \in Conditions(V, I)
                      /\ Holds(y, regs) <=> Both(Holds(l, regs), Holds(r, regs))
                      /\ ReadWhole(y) \subseteq ReadWhole(l) \cup ReadWhole(r)
<1>1. x \in Exprs /\ op \in BinaryTypes BY ConditionsAre DEF ConditionSet, BinaryTypes
<1>2. Simplify(x) = s BY <1>1, SimplifyIs
<1>3. Holds(x, regs) <=> Both(Holds(x.left, regs), Holds(x.right, regs)) BY <1>1, HoldsIs
<1>4. ReadWhole(x) = ReadWhole(x.left) \cup ReadWhole(x.right) BY <1>1, ReadWholeIs
<1>5. l \in Conditions(V, I) /\ r \in Conditions(V, I) BY DEF ConditionKept
<1>6. l \in Exprs /\ r \in Exprs BY <1>5, ConditionsAre DEF ConditionSet
<1>7. l.type # "NUMBER" /\ r.type # "NUMBER"
  BY <1>5, ConditionsAre DEF ConditionSet, ComparisonTypes
<1>8. s \in Exprs
  <2>1. Simplify(x) \in Exprs BY <1>1, SimplifyExpr
  <2> QED BY <1>2, <2>1
<1>9. \/ Folded(op, l, r, s) \/ Dominated(op, l, r, s) \/ Receded(op, l, r, s)
      \/ Clobbered(op, l, r, s) \/ Unmasked(op, l, r, s) \/ SameArgument(op, l, r, s)
      \/ s = Binary(op, l, r)
  BY SimplifyBinaryIs
<1>10. op \in {"AND", "OR"} OBVIOUS
<1>11. ~Folded(op, l, r, s) /\ ~Clobbered(op, l, r, s) /\ ~Unmasked(op, l, r, s)
       /\ ~SameArgument(op, l, r, s)
  BY <1>7, <1>10 DEF Folded, Clobbered, Unmasked, SameArgument, BitTypes
<1>12. SUFFICES Same(s)
  <2>1. Proper(x, regs) => Proper(x.left, regs) /\ Proper(x.right, regs) BY <1>4 DEF Proper
  <2>2. /\ Proper(x.left, regs) => (Holds(l, regs) <=> Holds(x.left, regs))
        /\ Proper(x.right, regs) => (Holds(r, regs) <=> Holds(x.right, regs))
        /\ ReadWhole(l) \subseteq ReadWhole(x.left) /\ ReadWhole(r) \subseteq ReadWhole(x.right)
    BY DEF ConditionKept
  <2>3. Proper(x, regs) => (Holds(s, regs) <=> Holds(x, regs))
    <3>1. SUFFICES ASSUME Proper(x, regs) PROVE Holds(s, regs) <=> Holds(x, regs) OBVIOUS
    <3>2. (Holds(l, regs) <=> Holds(x.left, regs)) /\ (Holds(r, regs) <=> Holds(x.right, regs))
      BY <2>1, <2>2, <3>1
    <3>3. Holds(s, regs) <=> Both(Holds(l, regs), Holds(r, regs)) BY <1>12
    <3> HIDE DEF l, r, s, op
    <3> QED BY <1>3, <3>2, <3>3
  <2> QED BY <1>2, <1>4, <1>12, <2>2, <2>3 DEF ConditionKept
<1> HIDE DEF op, l, r, s
<1>13. \A b \in BOOLEAN : /\ Truth(b) \in Conditions(V, I)
                          /\ Holds(Truth(b), regs) <=> b
                          /\ ReadWhole(Truth(b)) = {}
  BY TruthIs
<1>14. ASSUME Dominated(op, l, r, s) PROVE Same(s)
  <2> DEFINE b == op = "OR"
  <2>1. Truth(b) \in {l, r} /\ s = Truth(b) BY <1>14 DEF Dominated
  <2>2. s \in Conditions(V, I) /\ (Holds(s, regs) <=> b) /\ ReadWhole(s) = {} BY <1>13, <2>1
  <2>3. (Holds(l, regs) <=> b) \/ (Holds(r, regs) <=> b) BY <1>13, <2>1
  <2> QED BY <1>10, <2>2, <2>3
<1>15. ASSUME Receded(op, l, r, s) PROVE Same(s)
  <2> DEFINE b == op = "AND"
  <2>1. (r = Truth(b) /\ s = l) \/ (l = Truth(b) /\ s = r) BY <1>15 DEF Receded
  <2>2. (r = Truth(b) => (Holds(r, regs) <=> b)) /\ (l = Truth(b) => (Holds(l, regs) <=> b))
    BY <1>13
  <2> QED BY <1>5, <1>10, <2>1, <2>2
<1>16. ASSUME s = Binary(op, l, r) PROVE Same(s)
  <2>1. s.type = op /\ s.left = l /\ s.right = r BY <1>16 DEF Binary
  <2>2. s \in Conditions(V, I) BY <1>5, <1>8, <1>10, <2>1, ConditionMade
  <2>3. Holds(s, regs) <=> Both(Holds(l, regs), Holds(r, regs)) BY <1>8, <1>10, <2>1, HoldsIs
  <2>4. ReadWhole(s) = ReadWhole(l) \cup ReadWhole(r) BY <1>8, <1>10, <2>1, ReadWholeIs
  <2> QED BY <2>2, <2>3, <2>4
<1> HIDE DEF Same
<1> QED BY <1>9, <1>11, <1>14, <1>15, <1>16

(* Rewriting NOT keeps whether it holds.                                   *)
LEMMA NegationKept ==
  ASSUME NEW V, NEW I, NEW regs, NEW x \in Conditions(V, I), x.type = "NOT",
         x.child \in Conditions(V, I), ConditionKept(x.child, V, I, regs)
  PROVE  ConditionKept(x, V, I, regs)
<1> DEFINE c == Simplify(x.child)
           s == Simplify(x)
<1>1. x \in Exprs BY ConditionsAre DEF ConditionSet
<1>2. s = IF c \in {True, False} THEN Truth(c = False) ELSE Unary(c) BY <1>1, SimplifyIs
<1>3. (Holds(x, regs) <=> ~Holds(x.child, regs)) /\ ReadWhole(x) = ReadWhole(x.child)
  BY <1>1, HoldsIs, ReadWholeIs
<1>4. /\ c \in Conditions(V, I)
      /\ Proper(x.child, regs) => (Holds(c, regs) <=> Holds(x.child, regs))
      /\ ReadWhole(c) \subseteq ReadWhole(x.child)
  BY DEF ConditionKept
<1>5. c \in Exprs BY <1>4, ConditionsAre DEF ConditionSet
<1>6. s \in Exprs BY <1>1, SimplifyExpr
<1>7. SUFFICES /\ s \in Conditions(V, I)
               /\ Holds(s, regs) <=> ~Holds(c, regs)
               /\ ReadWhole(s) \subseteq ReadWhole(c)
  <2>1. Proper(x, regs) => Proper(x.child, regs) BY <1>3 DEF Proper
  <2> QED BY <1>3, <1>4, <1>7, <2>1 DEF ConditionKept
<1> HIDE DEF c, s
<1>8. CASE c \in {True, False}
  <2> DEFINE b == c = False
  <2>1. s = Truth(b) BY <1>2, <1>8
  <2>2. b \in BOOLEAN OBVIOUS
  <2>3. c.type \in {"TRUE", "FALSE"} /\ (c = True <=> ~b) BY <1>8 DEF True, False
  <2>4. Holds(c, regs) <=> c = True BY <1>5, <2>3, HoldsIs
  <2> HIDE DEF b
  <2>5. s \in Conditions(V, I) /\ (Holds(s, regs) <=> b) /\ ReadWhole(s) = {}
    BY <2>1, <2>2, TruthIs DEF b
  <2> QED BY <2>3, <2>4, <2>5
<1>9. CASE c \notin {True, False}
  <2>1. s = Unary(c) BY <1>2, <1>9
  <2>2. s.type = "NOT" /\ s.child = c BY <2>1 DEF Unary
  <2> QED BY <1>4, <1>6, <2>2, HoldsIs, ReadWholeIs, ConditionMade
<1> QED BY <1>8, <1>9

(* Simplifying a condition keeps whether it holds, at every depth.         *)
LEMMA ConditionSimplified ==
  ASSUME NEW V, NEW I, NEW regs, Given(regs, V)
  PROVE  \A x \in Conditions(V, I) : ConditionKept(x, V, I, regs)
<1> DEFINE A == {x \in Conditions(V, I) : ConditionKept(x, V, I, regs)}
<1>1. ASSUME NEW x \in Conditions(V, I), x.type \in {"TRUE", "FALSE"} PROVE x \in A
  <2>1. x \in Exprs /\ x.type \in Leaves BY <1>1, ConditionsAre DEF ConditionSet, Leaves
  <2>2. Simplify(x) = x BY <2>1, SimplifyIs
  <2> QED BY <2>2 DEF ConditionKept
<1>2. ASSUME NEW x \in Conditions(V, I), x.type = "NOT", x.child \in Conditions(V, I), x.child \in A
      PROVE  x \in A
  BY <1>2, NegationKept
<1>3. ASSUME NEW x \in Conditions(V, I), x.type \in {"AND", "OR"},
             x.left \in Conditions(V, I), x.right \in Conditions(V, I), x.left \in A, x.right \in A
      PROVE  x \in A
  BY <1>3, ConnectiveKept
<1>4. ASSUME NEW x \in Conditions(V, I), x.type \in ComparisonTypes,
             x.left \in Terms(V, I), x.right \in Terms(V, I)
      PROVE  x \in A
  BY <1>4, ComparisonKept
<1> HIDE DEF A
<1>5. Conditions(V, I) \subseteq A BY <1>1, <1>2, <1>3, <1>4, ConditionInduction
<1> QED BY <1>5 DEF A

(* expr_simplify keeps what a condition means: the simplified condition is *)
(* a condition over the same arguments and holds for the same registers,   *)
(* and it reads whole no short argument that the given one does not.  It   *)
(* holds of every condition the grammar makes, however deep, when the      *)
(* short arguments that are read whole were passed no more than a word:    *)
(* without that a comparison whose long constant is folded away looks at   *)
(* the low word alone.                                                     *)
THEOREM SimplifyKeepsMeaning ==
  ASSUME NEW V, NEW I, NEW regs, Given(regs, V), NEW x \in Conditions(V, I), Proper(x, regs)
  PROVE  /\ Simplify(x) \in Conditions(V, I)
         /\ Holds(Simplify(x), regs) <=> Holds(x, regs)
         /\ Proper(Simplify(x), regs)
<1>1. ConditionKept(x, V, I, regs) BY ConditionSimplified
<1> QED BY <1>1 DEF ConditionKept, Proper

-----------------------------------------------------------------------------
(* expr_resolve_identifiers                                                *)

(* The arguments of a call, and the names that are among them.             *)
ArgumentList(args) ==
  \A k \in DOMAIN args : k \in Nat /\ args[k] = [name |-> args[k].name, size |-> args[k].size]
                         /\ args[k].size \in Nat
NamesOf(args) == {args[k].name : k \in DOMAIN args}

(* The cases of the resolution of names.                                   *)
LEMMA ResolvedIs ==
  ASSUME NEW args
  PROVE  /\ \A x \in Exprs : x.type \in BinaryTypes =>
              ResolveIdentifiers(x, args)
              = Binary(x.type, ResolveIdentifiers(x.left, args), ResolveIdentifiers(x.right, args))
         /\ \A x \in Exprs : x.type = "NOT" =>
              ResolveIdentifiers(x, args) = Unary(ResolveIdentifiers(x.child, args))
         /\ \A x \in Exprs : x.type = "IDENTIFIER" => ResolveIdentifiers(x, args) = ArgumentNamed(x.id, args)
         /\ \A x \in Exprs : x.type \in {"TRUE", "FALSE", "NUMBER", "VAR"} =>
              ResolveIdentifiers(x, args) = x
<1>1. ASSUME NEW x \in Exprs
      PROVE  /\ x.type \in BinaryTypes =>
                  ResolveIdentifiers(x, args)
                  = Binary(x.type, ResolveIdentifiers(x.left, args), ResolveIdentifiers(x.right, args))
             /\ x.type = "NOT" => ResolveIdentifiers(x, args) = Unary(ResolveIdentifiers(x.child, args))
             /\ x.type = "IDENTIFIER" => ResolveIdentifiers(x, args) = ArgumentNamed(x.id, args)
             /\ x.type \in {"TRUE", "FALSE", "NUMBER", "VAR"} => ResolveIdentifiers(x, args) = x
  <2> DEFINE b == Binary(x.type, ResolveIdentifiers(x.left, args), ResolveIdentifiers(x.right, args))
             n == Unary(ResolveIdentifiers(x.child, args))
             a == ArgumentNamed(x.id, args)
             y == ResolveIdentifiers(x, args)
  <2>1. y = CASE x.type \in Binaries -> b
              [] x.type = "NOT" -> n
              [] x.type = "IDENTIFIER" -> a
              [] OTHER -> x
    BY ResolvedEach
  <2> HIDE DEF b, n, a, y
  <2>2. /\ x.type \in BinaryTypes => y = b
        /\ x.type = "NOT" => y = n
        /\ x.type = "IDENTIFIER" => y = a
        /\ x.type \in {"TRUE", "FALSE", "NUMBER", "VAR"} => y = x
    BY <2>1, BinariesAre DEF BinaryTypes
  <2> QED BY <2>2 DEF b, n, a, y
<1> QED BY <1>1

(* The cases of the names in a tree.                                       *)
LEMMA IdentifiersIs ==
  /\ \A x \in Exprs : x.type \in BinaryTypes =>
       IdentifiersOf(x) = IdentifiersOf(x.left) \cup IdentifiersOf(x.right)
  /\ \A x \in Exprs : x.type = "NOT" => IdentifiersOf(x) = IdentifiersOf(x.child)
  /\ \A x \in Exprs : x.type = "IDENTIFIER" => IdentifiersOf(x) = {x.id}
<1>1. ASSUME NEW x \in Exprs
      PROVE  /\ x.type \in BinaryTypes =>
                  IdentifiersOf(x) = IdentifiersOf(x.left) \cup IdentifiersOf(x.right)
             /\ x.type = "NOT" => IdentifiersOf(x) = IdentifiersOf(x.child)
             /\ x.type = "IDENTIFIER" => IdentifiersOf(x) = {x.id}
  <2> DEFINE b == IdentifiersOf(x.left) \cup IdentifiersOf(x.right)
             c == IdentifiersOf(x.child)
             o == IdentifiersOf(x)
  <2>1. o = CASE x.type \in Binaries -> b
              [] x.type = "NOT" -> c
              [] x.type = "IDENTIFIER" -> {x.id}
              [] OTHER -> {}
    BY IdentifiersOfEach
  <2> HIDE DEF b, c, o
  <2>2. /\ x.type \in BinaryTypes => o = b
        /\ x.type = "NOT" => o = c
        /\ x.type = "IDENTIFIER" => o = {x.id}
    BY <2>1, BinariesAre DEF BinaryTypes
  <2> QED BY <2>2 DEF b, c, o
<1> QED BY <1>1

(* A name stands for the first argument of that name.                      *)
LEMMA NamedArgument ==
  ASSUME NEW args, ArgumentList(args), NEW id \in NamesOf(args)
  PROVE  \E k \in DOMAIN args : /\ k \in Nat /\ args[k].size \in Nat /\ args[k].name = id
                                /\ ArgumentNamed(id, args) = Var(k, args[k].size)
<1> DEFINE named == {k \in DOMAIN args : args[k].name = id}
           i == CHOOSE k \in named : \A m \in named : k <= m
<1>1. named \subseteq Nat /\ named # {} BY DEF ArgumentList, NamesOf
<1>2. \E k \in named : \A m \in named : k <= m
  <2> HIDE DEF named
  <2>1. PICK x \in named : \A y \in named : ~(<<y, x>> \in OpToRel(<, Nat))
    BY <1>1, NatLessThanWellFounded, WFMin
  <2>2. ASSUME NEW m \in named PROVE x <= m
    <3>1. ~(<<m, x>> \in OpToRel(<, Nat)) /\ m \in Nat /\ x \in Nat BY <1>1, <2>1
    <3>2. m < x => <<m, x>> \in OpToRel(<, Nat) BY <3>1 DEF OpToRel
    <3>3. ~(m < x) BY <3>1, <3>2, Zenon
    <3>4. m \in Nat /\ x \in Nat BY <3>1, Zenon
    <3> QED BY <3>3, <3>4
  <2> QED BY <2>2
<1>3. i \in named BY <1>2
<1>4. ArgumentNamed(id, args) = Var(i, args[i].size) BY DEF ArgumentNamed
<1> HIDE DEF i
<1> QED BY <1>3, <1>4 DEF ArgumentList

(* Resolving makes no tree deeper.                                         *)
LEMMA ResolveFits ==
  ASSUME NEW args, ArgumentList(args)
  PROVE  \A n \in Nat : \A x \in ExprsTo[n] \cap Exprs :
           IdentifiersOf(x) \subseteq NamesOf(args) => ResolveIdentifiers(x, args) \in ExprsTo[n]
<1> DEFINE R(x) == ResolveIdentifiers(x, args)
           Known(x) == IdentifiersOf(x) \subseteq NamesOf(args)
           S == {n \in Nat : \A x \in ExprsTo[n] \cap Exprs : Known(x) => R(x) \in ExprsTo[n]}
<1>0. ASSUME NEW n \in Nat, NEW x \in ExprsTo[n], x \in Exprs, x.type \in Leaves, Known(x)
      PROVE  R(x) \in ExprsTo[n]
  <2>0. x \in Exprs BY <1>0
  <2>1. CASE x.type # "IDENTIFIER"
    <3>1. x.type \in {"TRUE", "FALSE", "NUMBER", "VAR"} BY <1>0, <2>1 DEF Leaves
    <3>2. R(x) = x BY <2>0, <3>1, ResolvedIs
    <3> HIDE DEF R
    <3> QED BY <1>0, <3>2
  <2>2. CASE x.type = "IDENTIFIER"
    <3>1. x.id \in NamesOf(args)
      <4>1. IdentifiersOf(x) = {x.id} BY <2>0, <2>2, IdentifiersIs
      <4> QED BY <1>0, <4>1
    <3>4. PICK k \in DOMAIN args : /\ k \in Nat /\ args[k].size \in Nat
                                   /\ ArgumentNamed(x.id, args) = Var(k, args[k].size)
      BY <3>1, NamedArgument
    <3>5. R(x) = Var(k, args[k].size) BY <2>0, <2>2, <3>4, ResolvedIs
    <3>6. Var(k, args[k].size) \in Leaf BY <3>4 DEF Leaf, Var
    <3>7. Leaf \subseteq ExprsTo[n]
      <4>1. ExprsTo[0] \subseteq ExprsTo[n] BY ExprsUpTo
      <4> QED BY <4>1, ExprsToEquations
    <3> HIDE DEF R
    <3> QED BY <3>5, <3>6, <3>7
  <2> QED BY <2>1, <2>2
<1>1. 0 \in S
  <2>1. ASSUME NEW x \in ExprsTo[0], x \in Exprs, Known(x) PROVE R(x) \in ExprsTo[0]
    <3>1. Shape(x, {}) BY LeafShape, ExprsToEquations
    <3>2. x.type \in Leaves BY <3>1 DEF Shape, Leaves
    <3> HIDE DEF R, Known
    <3> QED BY <1>0, <2>1, <3>2
  <2> HIDE DEF R, Known
  <2> QED BY <2>1
<1>2. ASSUME NEW n \in Nat, n \in S PROVE n + 1 \in S
  <2>1. ASSUME NEW x \in ExprsTo[n + 1], x \in Exprs, Known(x) PROVE R(x) \in ExprsTo[n + 1]
    <3>0. x \in Exprs BY <2>1
    <3>1. Shape(x, ExprsTo[n]) BY OverShape, ExprsToEquations
    <3>2. Shape(x, Exprs) BY <2>1, Children
    <3>3. Shape(x, ExprsTo[n] \cap Exprs) BY <3>1, <3>2, ShapeBoth
    <3>5. /\ x.type \in BinaryTypes => IdentifiersOf(x) = IdentifiersOf(x.left) \cup IdentifiersOf(x.right)
          /\ x.type = "NOT" => IdentifiersOf(x) = IdentifiersOf(x.child)
      BY <3>0, IdentifiersIs
    <3>6. CASE x.type \in Leaves
      <4> HIDE DEF R, Known
      <4> QED BY <1>0, <2>1, <3>6
    <3>7. CASE x.type = "NOT"
      <4>1. x.child \in ExprsTo[n] \cap Exprs BY <3>3, <3>7 DEF Shape, BinaryTypes
      <4>2. Known(x.child) BY <2>1, <3>5, <3>7
      <4>3. R(x.child) \in ExprsTo[n]
        <5> HIDE DEF R, Known
        <5> QED BY <1>2, <4>1, <4>2
      <4>4. R(x) = Unary(R(x.child)) BY <3>0, <3>7, ResolvedIs
      <4> HIDE DEF R
      <4> QED BY <4>3, <4>4, TreeMade
    <3>8. CASE x.type \in BinaryTypes
      <4>1. x.left \in ExprsTo[n] \cap Exprs /\ x.right \in ExprsTo[n] \cap Exprs
        BY <3>3, <3>8 DEF Shape, BinaryTypes
      <4>2. Known(x.left) /\ Known(x.right) BY <2>1, <3>5, <3>8
      <4>3. R(x.left) \in ExprsTo[n] /\ R(x.right) \in ExprsTo[n]
        <5> HIDE DEF R, Known
        <5> QED BY <1>2, <4>1, <4>2
      <4>4. R(x) = Binary(x.type, R(x.left), R(x.right)) BY <3>0, <3>8, ResolvedIs
      <4> HIDE DEF R
      <4> QED BY <3>8, <4>3, <4>4, TreeMade
    <3> QED BY <3>0, <3>6, <3>7, <3>8, PartsOf
  <2> HIDE DEF R, Known
  <2> QED BY <2>1
<1> HIDE DEF S
<1>3. Nat \subseteq S BY <1>1, <1>2, CountUp
<1> QED BY <1>3 DEF S

(* A resolved tree is within the bound.                                    *)
LEMMA ResolveExpr ==
  ASSUME NEW args, ArgumentList(args), NEW x \in Exprs, IdentifiersOf(x) \subseteq NamesOf(args)
  PROVE  ResolveIdentifiers(x, args) \in Exprs
BY ResolveFits, ExpressionConstants DEF Exprs

(* A term whose names are all arguments is resolved to a term over them,   *)
(* and so is a condition.                                                  *)
LEMMA TermResolved ==
  ASSUME NEW args, ArgumentList(args), NEW I, NEW x \in Terms({}, I),
         IdentifiersOf(x) \subseteq NamesOf(args)
  PROVE  ResolveIdentifiers(x, args) \in Terms(DOMAIN args, {})
<1> DEFINE R(y) == ResolveIdentifiers(y, args)
           Known(y) == IdentifiersOf(y) \subseteq NamesOf(args)
           T == Terms(DOMAIN args, {})
           A == {y \in Terms({}, I) : Known(y) => R(y) \in T}
<1>0. ASSUME NEW y \in Terms({}, I), Known(y) PROVE y \in Exprs /\ R(y) \in Exprs
  <2>1. y \in Exprs BY TermsAre DEF TermSet
  <2> QED BY <1>0, <2>1, ResolveExpr
<1>1. ASSUME NEW y \in Terms({}, I), y.type = "NUMBER", y.number \in Registers64 PROVE y \in A
  <2>1. y \in Exprs BY TermsAre DEF TermSet
  <2>2. R(y) = y BY <1>1, <2>1, ResolvedIs
  <2> HIDE DEF R, Known
  <2>3. y \in T BY <1>1, <2>1, TermMade
  <2> HIDE DEF T
  <2> QED BY <2>2, <2>3
<1>2. ASSUME NEW y \in Terms({}, I), y.type = "IDENTIFIER" PROVE y \in A
  <2> SUFFICES ASSUME Known(y) PROVE R(y) \in T OBVIOUS
  <2>1. y \in Exprs /\ R(y) \in Exprs BY <1>0
  <2>2. IdentifiersOf(y) = {y.id} BY <1>2, <2>1, IdentifiersIs
  <2>3. PICK k \in DOMAIN args : ArgumentNamed(y.id, args) = Var(k, args[k].size)
    BY <2>2, NamedArgument
  <2>4. R(y) = Var(k, args[k].size) BY <1>2, <2>1, <2>3, ResolvedIs
  <2>5. R(y).type = "VAR" /\ R(y).var \in DOMAIN args BY <2>4 DEF Var
  <2> HIDE DEF R
  <2> QED BY <2>1, <2>5, TermMade
<1>3. ASSUME NEW y \in Terms({}, I), y.type \in BitTypes, y.left \in Terms({}, I), y.right \in Terms({}, I),
             y.left \in A, y.right \in A
      PROVE  y \in A
  <2> SUFFICES ASSUME Known(y) PROVE R(y) \in T OBVIOUS
  <2>1. y \in Exprs /\ R(y) \in Exprs BY <1>0
  <2>2. y.type \in BinaryTypes BY <1>3 DEF BitTypes, BinaryTypes
  <2>3. Known(y.left) /\ Known(y.right) BY <2>1, <2>2, IdentifiersIs
  <2>4. R(y.left) \in T /\ R(y.right) \in T BY <1>3, <2>3
  <2>5. R(y) = Binary(y.type, R(y.left), R(y.right)) BY <2>1, <2>2, ResolvedIs
  <2> HIDE DEF R
  <2>6. R(y).type = y.type /\ R(y).left = R(y.left) /\ R(y).right = R(y.right) BY <2>5 DEF Binary
  <2> QED BY <1>3, <2>1, <2>4, <2>6, TermMade
<1> HIDE DEF A
<1>4. Terms({}, I) \subseteq A BY <1>1, <1>2, <1>3, TermInduction
<1> QED BY <1>4 DEF A

(* expr_resolve_identifiers, for a condition that validate_references has  *)
(* let pass: the result is a condition over the arguments of the call and  *)
(* names nothing any more.                                                 *)
THEOREM ResolvedConditions ==
  ASSUME NEW args, ArgumentList(args), NEW I, NEW x \in Conditions({}, I),
         IdentifiersOf(x) \subseteq NamesOf(args)
  PROVE  ResolveIdentifiers(x, args) \in Conditions(DOMAIN args, {})
<1> DEFINE R(y) == ResolveIdentifiers(y, args)
           Known(y) == IdentifiersOf(y) \subseteq NamesOf(args)
           T == Terms(DOMAIN args, {})
           C == Conditions(DOMAIN args, {})
           A == {y \in Conditions({}, I) : Known(y) => R(y) \in C}
<1>0. ASSUME NEW y \in Conditions({}, I), Known(y) PROVE y \in Exprs /\ R(y) \in Exprs
  <2>1. y \in Exprs BY ConditionsAre DEF ConditionSet
  <2> QED BY <1>0, <2>1, ResolveExpr
<1>1. ASSUME NEW y \in Conditions({}, I), y.type \in {"TRUE", "FALSE"} PROVE y \in A
  <2>1. y \in Exprs BY ConditionsAre DEF ConditionSet
  <2>2. R(y) = y BY <1>1, <2>1, ResolvedIs
  <2> HIDE DEF R, Known
  <2>3. y \in C BY <1>1, <2>1, ConditionMade
  <2> HIDE DEF C
  <2> QED BY <2>2, <2>3
<1>2. ASSUME NEW y \in Conditions({}, I), y.type = "NOT", y.child \in Conditions({}, I), y.child \in A
      PROVE  y \in A
  <2> SUFFICES ASSUME Known(y) PROVE R(y) \in C OBVIOUS
  <2>1. y \in Exprs /\ R(y) \in Exprs BY <1>0
  <2>2. Known(y.child) BY <1>2, <2>1, IdentifiersIs
  <2>3. R(y.child) \in C BY <1>2, <2>2
  <2>4. R(y) = Unary(R(y.child)) BY <1>2, <2>1, ResolvedIs
  <2> HIDE DEF R
  <2>5. R(y).type = "NOT" /\ R(y).child = R(y.child) BY <2>4 DEF Unary
  <2> QED BY <2>1, <2>3, <2>5, ConditionMade
<1>3. ASSUME NEW y \in Conditions({}, I), y.type \in {"AND", "OR"},
             y.left \in Conditions({}, I), y.right \in Conditions({}, I), y.left \in A, y.right \in A
      PROVE  y \in A
  <2> SUFFICES ASSUME Known(y) PROVE R(y) \in C OBVIOUS
  <2>1. y \in Exprs /\ R(y) \in Exprs BY <1>0
  <2>2. y.type \in BinaryTypes BY <1>3 DEF BinaryTypes
  <2>3. Known(y.left) /\ Known(y.right) BY <2>1, <2>2, IdentifiersIs
  <2>4. R(y.left) \in C /\ R(y.right) \in C BY <1>3, <2>3
  <2>5. R(y) = Binary(y.type, R(y.left), R(y.right)) BY <2>1, <2>2, ResolvedIs
  <2> HIDE DEF R
  <2>6. R(y).type = y.type /\ R(y).left = R(y.left) /\ R(y).right = R(y.right) BY <2>5 DEF Binary
  <2> QED BY <1>3, <2>1, <2>4, <2>6, ConditionMade
<1>4. ASSUME NEW y \in Conditions({}, I), y.type \in ComparisonTypes,
             y.left \in Terms({}, I), y.right \in Terms({}, I)
      PROVE  y \in A
  <2> SUFFICES ASSUME Known(y) PROVE R(y) \in C OBVIOUS
  <2>1. y \in Exprs /\ R(y) \in Exprs BY <1>0
  <2>2. y.type \in BinaryTypes BY <1>4 DEF BinaryTypes, ComparisonTypes
  <2>3. Known(y.left) /\ Known(y.right) BY <2>1, <2>2, IdentifiersIs
  <2>4. R(y.left) \in T /\ R(y.right) \in T BY <1>4, <2>3, TermResolved
  <2>5. R(y) = Binary(y.type, R(y.left), R(y.right)) BY <2>1, <2>2, ResolvedIs
  <2> HIDE DEF R
  <2>6. R(y).type = y.type /\ R(y).left = R(y.left) /\ R(y).right = R(y.right) BY <2>5 DEF Binary
  <2> QED BY <1>4, <2>1, <2>4, <2>6, ConditionMade
<1> HIDE DEF A
<1>5. Conditions({}, I) \subseteq A BY <1>1, <1>2, <1>3, <1>4, ConditionInduction
<1> QED BY <1>5 DEF A
==============================================================================
