----------------------------- MODULE Expressions -----------------------------
(***************************************************************************)
(* kafel/src/expression.c: the boolean expressions over system call        *)
(* arguments that a policy attaches to a system call.  A tree is a record  *)
(* whose field "type" is the name of the EXPR_ constant.  A 64-bit value   *)
(* is two machine words; WORD is the number of values of a word.           *)
(***************************************************************************)
EXTENDS Integers, Sequences

CONSTANTS WORD,                  \* 2^32 in the code
          MAX_EXPRESSION_DEPTH   \* 200 in the code

ASSUME ExpressionConstants == WORD \in Nat \ {0, 1} /\ MAX_EXPRESSION_DEPTH \in Nat

(* A word is some number of bits. *)
Pow2[n \in Nat] == IF n = 0 THEN 1 ELSE 2 * Pow2[n - 1]
ASSUME WordOfBits == \E n \in 1..WORD : WORD = Pow2[n]

WORD_MAX   == WORD - 1            \* UINT32_MAX
UINT64_MAX == WORD * WORD - 1

(* The types in the order of the enumeration: simplification compares them. *)
ExprTypes == <<"NUMBER", "VAR", "IDENTIFIER", "TRUE", "FALSE", "NOT", "AND", "OR",
               "GT", "LT", "GE", "LE", "EQ", "NEQ", "BIT_OR", "BIT_AND">>
Leaves    == {"NUMBER", "VAR", "IDENTIFIER", "TRUE", "FALSE"}
Binaries  == {ExprTypes[k] : k \in 7..16}
Rank(e)   == CHOOSE k \in DOMAIN ExprTypes : ExprTypes[k] = e.type

True          == [type |-> "TRUE"]
False         == [type |-> "FALSE"]
Number(n)     == [type |-> "NUMBER", number |-> n]
Identifier(x) == [type |-> "IDENTIFIER", id |-> x]
Var(i, size)  == [type |-> "VAR", var |-> i, size |-> size]
Unary(e)      == [type |-> "NOT", child |-> e]
Binary(op, l, r) == [type |-> op, left |-> l, right |-> r]

(* The trees of a depth of at most n, which expr_create_unary and          *)
(* expr_create_binary compute, and those that are not too deep.            *)
Leaf == [type : {"TRUE", "FALSE"}] \cup [type : {"NUMBER"}, number : Nat]
        \cup [type : {"IDENTIFIER"}, id : STRING] \cup [type : {"VAR"}, var : Nat, size : Nat]
ExprsTo[n \in Nat] ==
  IF n = 0 THEN Leaf
  ELSE LET operands == ExprsTo[n - 1]
       IN Leaf \cup [type : {"NOT"}, child : operands]
               \cup [type : Binaries, left : operands, right : operands]
Exprs == ExprsTo[MAX_EXPRESSION_DEPTH]

(* expr_eval, and the two operators on bits *)
Compares(op, l, r) ==
  CASE op = "EQ" -> l = r
    [] op = "NEQ" -> l # r
    [] op = "GE" -> l >= r
    [] op = "LE" -> l <= r
    [] op = "GT" -> l > r
    [] op = "LT" -> l < r
BitAnd[a \in Nat] ==
  [b \in Nat |-> IF a = 0 \/ b = 0 THEN 0
                 ELSE 2 * BitAnd[a \div 2][b \div 2] + (a % 2) * (b % 2)]
Bits(op, l, r) == IF op = "BIT_AND" THEN BitAnd[l][r] ELSE l + r - BitAnd[l][r]

Truth(b) == IF b THEN True ELSE False

(* Both operands are numbers: the operation is carried out. *)
FoldNumbers(op, l, r) ==
  IF op \in {"BIT_AND", "BIT_OR"} THEN Number(Bits(op, l, r)) ELSE Truth(Compares(op, l, r))

(* The rest of expr_simplify for a binary node with simplified operands.   *)
(* Operands are looked at with the lower type on the right; the mirrored   *)
(* comparison the code notes then is of the same class as the written one. *)
SimplifyBinary(op, l, r) ==
  LET swapped == Rank(l) < Rank(r)
      left    == IF swapped THEN r ELSE l
      right   == IF swapped THEN l ELSE r
      kept    == Binary(op, l, r)
      dominant  == Truth(op = "OR")
      recessive == Truth(op = "AND")
      clobber   == IF op = "BIT_OR" THEN UINT64_MAX ELSE 0
      identity  == IF op = "BIT_OR" THEN 0 ELSE UINT64_MAX
  IN CASE l.type = "NUMBER" /\ r.type = "NUMBER" -> FoldNumbers(op, l.number, r.number)
       [] op \in {"AND", "OR"} ->
            IF dominant \in {left, right} THEN dominant
            ELSE IF right = recessive THEN left ELSE kept
       [] op \in {"BIT_AND", "BIT_OR"} ->
            IF right = Number(clobber) THEN right
            ELSE IF right = Number(identity) THEN left ELSE kept
       [] OTHER ->
            IF left.type = "VAR" /\ right.type = "VAR" /\ left.var = right.var
            THEN Truth(op \in {"GE", "LE", "EQ"}) ELSE kept

Simplify(e) ==
  LET Simple[x \in Exprs] ==
        CASE x.type \in Leaves -> x
          [] x.type = "NOT" ->
               LET child == Simple[x.child]
               IN IF child \in {True, False} THEN Truth(child = False) ELSE Unary(child)
          [] OTHER -> SimplifyBinary(x.type, Simple[x.left], Simple[x.right])
  IN Simple[e]

(* expr_resolve_identifiers; args is the list of [name, size] of the call. *)
ArgumentNamed(id, args) ==
  LET named == {k \in DOMAIN args : args[k].name = id}
      i     == CHOOSE k \in named : \A m \in named : k <= m
  IN Var(i, args[i].size)
ResolveIdentifiers(e, args) ==
  LET Resolved[x \in Exprs] ==
        CASE x.type \in Binaries -> Binary(x.type, Resolved[x.left], Resolved[x.right])
          [] x.type = "NOT" -> Unary(Resolved[x.child])
          [] x.type = "IDENTIFIER" -> ArgumentNamed(x.id, args)
          [] OTHER -> x
  IN Resolved[e]

IdentifiersOf(e) ==
  LET Names[x \in Exprs] ==
        CASE x.type \in Binaries -> Names[x.left] \cup Names[x.right]
          [] x.type = "NOT" -> Names[x.child]
          [] x.type = "IDENTIFIER" -> {x.id}
          [] OTHER -> {}
  IN Names[e]

(* is_64bit of codegen.c *)
Is64bit(e) ==
  LET Wide[x \in Exprs] ==
        CASE x.type \in Binaries -> Wide[x.left] \/ Wide[x.right]
          [] x.type = "NUMBER" -> x.number > WORD_MAX
          [] x.type = "VAR" -> x.size = 8
          [] OTHER -> FALSE
  IN Wide[e]

-----------------------------------------------------------------------------
(* What an expression means, apart from the code: an operand has the value *)
(* of the registers it names, and a comparison looks at a whole register   *)
(* only when one of its operands may need one.  regs gives the registers.  *)
Value(e, regs) ==
  LET Valued[x \in Exprs] ==
        CASE x.type \in {"BIT_AND", "BIT_OR"} -> Bits(x.type, Valued[x.left], Valued[x.right])
          [] x.type = "NUMBER" -> x.number
          [] x.type = "VAR" -> regs[x.var]
          [] OTHER -> 0
  IN Valued[e]

Width(e) == IF Is64bit(e) THEN UINT64_MAX + 1 ELSE WORD
Holds(e, regs) ==
  LET Truly[x \in Exprs] ==
        CASE x.type = "AND" -> Truly[x.left] /\ Truly[x.right]
          [] x.type = "OR"  -> Truly[x.left] \/ Truly[x.right]
          [] x.type = "NOT" -> ~Truly[x.child]
          [] x.type \in {"TRUE", "FALSE"} -> x = True
          [] OTHER -> Compares(x.type, Value(x.left, regs) % Width(x), Value(x.right, regs) % Width(x))
  IN Truly[e]

(* The arguments declared shorter than a register that a comparison of     *)
(* whole registers reads.  The rest of such a register is zero when the    *)
(* call passes what it declares.                                           *)
NarrowIn(e) ==
  LET Short[x \in Exprs] ==
        CASE x.type \in Binaries -> Short[x.left] \cup Short[x.right]
          [] x.type = "VAR" /\ x.size # 8 -> {x.var}
          [] OTHER -> {}
  IN Short[e]
ReadWhole(e) ==
  LET Wider[x \in Exprs] ==
        CASE x.type \in {"AND", "OR"} -> Wider[x.left] \cup Wider[x.right]
          [] x.type = "NOT" -> Wider[x.child]
          [] x.type \in Binaries \ {"AND", "OR"} /\ Is64bit(x) -> NarrowIn(x)
          [] OTHER -> {}
  IN Wider[e]
Proper(e, regs) == \A v \in ReadWhole(e) : regs[v] <= WORD_MAX
=============================================================================
