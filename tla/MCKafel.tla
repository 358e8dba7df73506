------------------------------ MODULE MCKafel ------------------------------
(***************************************************************************)
(* Kafel on small instances: machine words of two bits, registers of four, *)
(* jumps of at most a few instructions, and families of policies, each     *)
(* aimed at one part of the compiler.                                      *)
(***************************************************************************)
EXTENDS Meaning

Calls(xs) == [k \in 1..6 |-> IF k \in DOMAIN xs THEN xs[k] ELSE 0]
MCIdle == Calls(<<>>)
MCRegisters == {Calls(<<a, b>>) : a, b \in {0, 1, 3, 4, 6, 9, 15}}
MCFewRegisters == {Calls(<<a, b>>) : a, b \in {0, 3, 6, 15}}

Allow == <<ACTION_ALLOW, 0>>
Kill  == <<ACTION_KILL, 0>>
Errno(n) == <<ACTION_ERRNO, n>>

NoFiles == [f \in {} |-> <<>>]
Text(main, files, archs) == [main |-> main, files |-> files, archs |-> archs]
Statements(entries)  == [kind |-> "statements", entries |-> entries]
Policy(name, entries) == [kind |-> "policy", name |-> name, entries |-> entries]
Constant(name, value)   == [kind |-> "const", name |-> name, value |-> value]
DefaultTo(action)    == [kind |-> "default", action |-> action]
IncludeFile(file)    == [kind |-> "include", file |-> file]
Plain(main)          == Text(main, NoFiles, {})
One(entries, action) == Plain(<<Statements(entries), DefaultTo(action)>>)

Numbered(n)  == Filter(ByNumber(n), NULL)
Named(x, e)  == Filter(ById(x), e)
A1 == Identifier("arg1")
A2 == Identifier("arg2")

-----------------------------------------------------------------------------
(* Expressions: every comparison of two operands, numbers of either width, *)
(* arguments of either width, masks, nested masks; then the connectives.   *)
Comparisons == {"GT", "LT", "GE", "LE", "EQ", "NEQ"}
Operand == {A1, A2, Number(0), Number(3), Number(9), Number(15),
            Binary("BIT_AND", A2, Number(6)), Binary("BIT_AND", Number(12), A2),
            Binary("BIT_OR", A2, Number(1)), Binary("BIT_AND", A1, Number(2)),
            Binary("BIT_AND", A1, A2), Binary("BIT_OR", A2, A1),
            Binary("BIT_AND", Binary("BIT_OR", A1, Number(4)), Binary("BIT_OR", A2, Number(1)))}
Compared == {Binary(op, l, r) : op \in Comparisons, l, r \in Operand}

Few == {Binary("GT", A2, Number(6)), Binary("EQ", A1, Number(3)), Binary("NEQ", A2, Number(4)),
        Binary("LE", Number(0), A1)}
Connected == {Binary(op, l, r) : op \in {"AND", "OR"}, l, r \in Few}
Deep == {Binary(op, Unary(x), y) : op \in {"AND", "OR"}, x \in Connected, y \in Few}
        \cup {Binary("AND", x, Unary(Unary(Unary(x)))) : x \in Few}

ExprText(e) == One(<<Act(Allow, <<Named("accept", e)>>)>>, Errno(1))

-----------------------------------------------------------------------------
(* Ranges: three rules for numbers side by side, apart, equal, and at the  *)
(* two ends, with each kind of action and either default.                  *)
MAX == MAX_SYSCALL_NR
Condition == Binary("EQ", Identifier("x"), Number(9))
Conditional(n) == Declared(ByNumber(n), <<"x">>, Condition)
Filtered(n, c) == IF c THEN Conditional(n) ELSE Numbered(n)
Ruled == {Act(Allow, <<Numbered(n)>>) : n \in {0, 1, 2, 4, MAX}}
         \cup {Act(Errno(2), <<Filtered(n, c)>>) : n \in {0, 1, 2, 4, MAX}, c \in BOOLEAN}
RangeText(es, action) == One(es, action)

(* Long lists: numbers with gaps and without, few actions and many.        *)
Listed(n, step, actions) ==
  [k \in 1..n |-> Act(actions[1 + (k % Len(actions))], <<Numbered(step * k)>>)]
Actions == <<Allow, Errno(1), Errno(2), <<ACTION_TRAP, 1>>, <<ACTION_TRACE, 3>>, Kill, Errno(7)>>
LongText(n, step, kinds, action) == One(Listed(n, step, SubSeq(Actions, 1, kinds)), action)
MixedText(n) ==
  One([k \in 1..n |-> Act(Actions[1 + (k % 4)], <<Filtered(k, k % 3 # 0)>>)], Kill)

(* Three neighbouring calls, 43 being accept, whose n conditions stand     *)
(* between the code of the other two and the comparison that joins them.   *)
Masks(n) == [k \in 1..n |-> Binary("GT", Binary("BIT_AND", A1, Number(2)), Number(1))]
Plainly(n) == [k \in 1..n |-> Binary("GT", A1, Number(1))]
FarText(n, m) ==
  One(<<Act(Errno(1), <<Conditional(45)>>), Act(Errno(2), <<Numbered(44)>>), Act(Errno(5), <<Numbered(46)>>),
        Act(Errno(3), [k \in 1..(n + m) |-> Named("accept", (Plainly(n) \o Masks(m))[k])]),
        Act(Errno(2), <<Named("accept", NULL)>>)>>, Kill)
-----------------------------------------------------------------------------
(* Policies that use one another, twice, in a chain, before and after      *)
(* rules of their own; a policy that is unknown or registered twice.       *)
Body1 == {<<>>, <<Act(Allow, <<Numbered(1)>>)>>, <<Act(Errno(1), <<Numbered(1), Numbered(2)>>)>>,
          <<Act(Kill, <<>>)>>}
Body2 == {<<Use("p")>>, <<Use("p"), Act(Errno(2), <<Numbered(2)>>), Use("p")>>,
          <<Act(Allow, <<Numbered(2), Numbered(1)>>), Use("p")>>, <<Use("r")>>}
Body3 == {<<Use("q")>>, <<Use("q"), Use("p")>>, <<Use("p"), Use("q"), Use("q")>>,
          <<Act(Errno(3), <<Numbered(1)>>), Use("q")>>}
TreeText(b1, b2, b3) ==
  Plain(<<Policy("p", b1), Policy("q", b2), Statements(b3), DefaultTo(Errno(4))>>)

-----------------------------------------------------------------------------
(* Statements in every order of three out of a few: constants twice, a     *)
(* default twice, a policy twice, files within files, one that includes    *)
(* itself, one that is missing, one that is empty.                         *)
Stmt == {Constant("C", 3), Constant("C", 9), Constant("arg2", 9),
         DefaultTo(Allow), DefaultTo(<<ACTION_ERRNO, DATA_MAX + 1>>),
         Policy("p", <<Act(Errno(1), <<Named("accept", Binary("EQ", A1, Identifier("C")))>>)>>),
         Statements(<<Use("p")>>),
         Statements(<<Act(Allow, <<Filter(ById("C"), Binary("EQ", Number(1), Number(1))),
                                   Declared(ByNumber(MAX_SYSCALL_NR + 5), <<"x", "y">>,
                                            Binary("LT", Identifier("y"), Identifier("C")))>>)>>),
         Statements(<<Act(Kill, <<Named("accept", Binary("EQ", A2, Number(9)))>>)>>),
         Statements(<<Act(Kill, <<Declared(ByNumber(1), <<"x", "x">>, Condition)>>)>>),
         Statements(<<Act(Kill, <<Declared(ByNumber(1), <<"a", "b", "c", "d", "e", "f", "g">>,
                                            NULL)>>)>>),
         IncludeFile("inner"), IncludeFile("outer"), IncludeFile("empty"),
         IncludeFile("itself"), IncludeFile("missing")}
MCFiles == ("inner" :> <<Constant("C", 3)>>) @@ ("outer" :> <<IncludeFile("inner"), DefaultTo(Kill)>>)
           @@ ("empty" :> <<>>) @@ ("itself" :> <<Constant("C", 3), IncludeFile("itself")>>)
StatementText(main) == Text(main, MCFiles, {})

-----------------------------------------------------------------------------
(* Several targets; and every system call of every table.                  *)
ArchSets == {{"X86"}, {"X86_64", "ARM"}, {"ARM", "AARCH64", "X86"}, {"MIPS64", "MIPS"}, {"RISCV64"}}
TargetText(archs, x, action) ==
  Text(<<Statements(<<Act(Errno(1), <<Named(x, NULL)>>),
                      Act(Allow, <<Named("bind", Binary("GE", A1, Number(3))),
                                   Named("accept4", Binary("EQ", A2, Number(1)))>>)>>),
         DefaultTo(action)>>, NoFiles, archs)

TableText(arch, x) ==
  LET args == ArgsOf(arch, x)
      e == IF args = <<>> THEN NULL
           ELSE Binary("GT", Identifier(args[Len(args)].name), Number(6))
  IN Text(<<Statements(<<Act(Allow, <<Named(x, e)>>)>>)>>, NoFiles, {arch})

-----------------------------------------------------------------------------
(* Conditions that never hold and yet have code, on one architecture and   *)
(* on two: calls that are allowed on the one and, having the number that   *)
(* is killed, not on the other.                                            *)
X == Identifier("x")
Never == {Binary("EQ", Binary("BIT_OR", X, Number(3)), Number(1)), Binary("GT", X, Number(9)),
          Binary("EQ", Binary("BIT_AND", X, Number(12)), Number(3))}
DeadAloneText(e1, e2) == One(<<Act(Allow, <<Declared(ByNumber(9), <<"x">>, Binary("AND", e1, e2))>>)>>, Kill)

DeadText(e1, e2, archs) ==
  Text(<<Statements(<<Act(Kill, <<Numbered(2)>>),
                      Act(Allow, <<Named("open", NULL), Declared(ByNumber(9), <<"x">>, Binary("AND", e1, e2))>>)>>)>>,
       NoFiles, archs)

-----------------------------------------------------------------------------
MCSources ==
  \/ \E e \in Compared \cup Connected \cup Deep : source = ExprText(e)
  \/ \E a, b, c \in Ruled : source = RangeText(<<a, b, c>>, Allow)
  \/ \E a, b \in Ruled : source = RangeText(<<a, b>>, Errno(2))
  \/ \E n \in 1..20, step \in 1..2, kinds \in 1..7, d \in {Allow, Kill} :
       source = LongText(n, step, kinds, d)
  \/ \E n \in 1..16 : source = MixedText(n)
  \/ \E b1 \in Body1, b2 \in Body2, b3 \in Body3 : source = TreeText(b1, b2, b3)
  \/ \E a, b, c \in Stmt : source = StatementText(<<a, b, c>>)
  \/ \E a \in Stmt : source = StatementText(<<a>>)
  \/ \E archs \in ArchSets, x \in {"close", "creat", "accept"}, d \in {Allow, Kill} :
       source = TargetText(archs, x, d)
  \/ \E e1, e2 \in Never : source = DeadText(e1, e2, {"X86", "X86_64"})
  \/ \E e1 \in Never : source = DeadAloneText(e1, Binary("EQ", X, Number(1)))
MCTables ==
  \E a \in DOMAIN Archs : \E x \in DOMAIN syscalls_lookup[Archs[a]] :
    source = TableText(Archs[a], x)

MCDeadInit == (\E e1, e2 \in Never : source = DeadText(e1, e2, {"X86", "X86_64"})) /\ Init
MCDeadSpec == MCDeadInit /\ [][Next]_vars

MCFarInit == (\E n \in 0..8, m \in 0..2 : source = FarText(n, m)) /\ Init
MCFarSpec == MCFarInit /\ [][Next]_vars

MCInit == (MCSources \/ MCTables) /\ Init
MCSpec == MCInit /\ [][Next]_vars /\ Fairness
=============================================================================
